--------------------------------- MODULE MCCli ---------------------------------
(* Cli on one signature of any kind, with any record, and on every pair of a
   few kinds.  Mint C is in undecoded transfers only, so most lookups are of
   one or two mints. *)
EXTENDS Cli

CONSTANTS Payer, Pool, Vault, Program, A, B, C

SomeKeys == {Payer, Pool, Vault, Program}
SomeMints == {A, B, C}

IxOf(program, indices) == [program |-> program, accounts |-> indices]

\* keys that are loaded as writable, as readonly or both, and indices to all
Transactions ==
    {[static |-> <<Payer, Program>>, writable |-> w, readonly |-> r,
      roots |-> <<IxOf(1, <<0>>), IxOf(1, ixs)>>,
      inner |-> inner] :
        w \in {<<>>, <<Pool>>, <<Vault, Pool>>}, r \in {<<Vault>>, <<Program, Pool>>},
        ixs \in {<<2>>, <<0, 2>>},
        inner \in {<<<<>>, <<IxOf(2, <<0, 2>>), IxOf(1, <<1>>)>>>>,
                   <<<<IxOf(1, <<2, 1>>)>>, <<>>>>}}

Plain(executed) == [executed |-> executed, faults |-> {}, omits |-> {}]
OneTx == CHOOSE t \in Transactions : t.writable = <<Pool>>

Records ==
    {[executed |-> t, faults |-> {}, omits |-> o] : t \in Transactions, o \in SUBSET Omissible}
    \cup {[executed |-> OneTx, faults |-> f, omits |-> {}] :
            f \in {{a, b} : a, b \in RpcFaults \cup GrpcFaults}}

Dex(net) == [kind |-> "dex", net |-> net, decoded |-> {}, undecoded |-> {}]
Agg(net, decoded, undecoded) ==
    [kind |-> "aggregator", net |-> net, decoded |-> decoded, undecoded |-> undecoded]

Swapped(swapList) == [kind |-> "swaps", swaps |-> swapList]
FewVerdicts == {[kind |-> "error"], [kind |-> "panic"], Swapped(<<>>), Swapped(<<Dex({A, B})>>)}
MoreVerdicts ==
    {Swapped(<<Agg({}, {}, {NoMint})>>),
     Swapped(<<Agg({}, {}, {C, NoMint}), Dex({A, B})>>),
     Swapped(<<Agg({A, B}, {A, B}, {C})>>)}

Sig(record, parse) == [valid |-> TRUE, record |-> record, parse |-> parse]
Invalid == [valid |-> FALSE]
Unconvertible == [Plain(OneTx) EXCEPT !.faults = {"undecodable"}]

Several == {Invalid, Sig(Unconvertible, Swapped(<<>>))} \cup {Sig(Plain(OneTx), v) : v \in FewVerdicts}

Lists ==
    {<<Sig(r, Swapped(<<>>))>> : r \in Records}
    \cup {<<Sig(Plain(OneTx), v)>> : v \in MoreVerdicts}
    \cup (Several \X Several)

SomeMintAccounts ==
    {Absent, Short, Garbage,
     [kind |-> "mint", decimals |-> 6, token_2022 |-> FALSE, extensions |-> "none"],
     [kind |-> "mint", decimals |-> 25, token_2022 |-> TRUE, extensions |-> "metadata"],
     [kind |-> "mint", decimals |-> 9, token_2022 |-> TRUE, extensions |-> "broken"]}
SomeMetaAccounts == {"absent", "named", "garbage"}

SomeArgs ==
    {[style |-> "tree", detail |-> "full"], [style |-> "table", detail |-> "full"],
     [style |-> "tree", detail |-> "summary"]}
================================================================================
