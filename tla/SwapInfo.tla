-------------------------------- MODULE SwapInfo --------------------------------
(***************************************************************************)
(* Where a DEX parser gets a swap's direction and amounts from              *)
(* (parse/util.rs): from the token transfers the instruction made, or from  *)
(* the net balance changes of two accounts over the transaction.  Swaps of  *)
(* one user on one pool are executed, and their transaction is then parsed. *)
(***************************************************************************)
EXTENDS Integers, Sequences, FiniteSets

CONSTANTS
    InAmounts, OutAmounts, FeeAmounts,  \* what is traded, and taken as a fee
    MaxI64,         \* the largest i64
    PoolReserve, UserReserve,   \* what each starts with, of either token
    Precision,      \* an amount comes out of the float trip wrong by less than
                    \* its Precision-th part: 2^50 with f64
    MaxTrades       \* bound: swaps in a transaction

U64Size == 2 * (MaxI64 + 1)

ASSUME AmountsAssumption ==
    /\ MaxI64 \in Nat /\ PoolReserve \in Nat /\ UserReserve \in Nat /\ MaxTrades \in Nat
    /\ PoolReserve + UserReserve < U64Size      \* a mint's supply is a u64
    /\ Precision \in Nat \ {0}
    /\ InAmounts \cup OutAmounts \cup FeeAmounts \subseteq 0 .. U64Size - 1

Tokens == {"a", "b"}
Other(token) == IF token = "a" THEN "b" ELSE "a"

\* token accounts: one per token for the pool and the user, and of fee takers
Account(owner, token) == [owner |-> owner, token |-> token]
Owners == {"pool", "user"}
Reserve(owner) == IF owner = "pool" THEN PoolReserve ELSE UserReserve

Transfer(from, to, token, amount) ==
    [source |-> Account(from, token), destination |-> Account(to, token),
     signer |-> from, amount |-> amount]

VARIABLES
    trades,     \* the executed swaps, with the transfers each made
    isPool,     \* is_pool_account: whose two accounts the parser is given
    balances,   \* the balance snapshot has those accounts
    ordered,    \* their floats arrived as the node computed them (gRPC), not by
                \* way of JSON's decimals, parsed to within the last bit
    infos,      \* what the transfers of each swap were read as
    net,        \* what the balance changes were read as
    phase       \* "execute", "parse", "done"

vars == <<trades, isPool, balances, ordered, infos, net, phase>>

--------------------------------------------------------------------------------
(* get_swap_info_from_token_transfers *)

AccountOf(side, t) == IF side = "source" THEN t.source ELSE t.destination
Opposite(side) == IF side = "source" THEN "destination" ELSE "source"
ForUserLeg(pool) == IF pool THEN "destination" ELSE "source"

\* Mutant of FindLeg: the first leg is taken, not the largest.
FirstLeg(transfers, side, accounts) ==
    LET legs == {n \in DOMAIN transfers : AccountOf(side, transfers[n]) \in accounts}
    IN  IF legs = {} THEN 0 ELSE CHOOSE n \in legs : \A o \in legs : n <= o

\* find_leg: the position of the largest transfer whose account is in
\* `accounts`, the last of equal ones as max_by_key has it; 0 for none
FindLeg(transfers, side, accounts) ==
    LET legs == {n \in DOMAIN transfers : AccountOf(side, transfers[n]) \in accounts}
    IN  IF legs = {} THEN 0
        ELSE CHOOSE n \in legs : \A o \in legs :
               \/ transfers[o].amount < transfers[n].amount
               \/ transfers[o].amount = transfers[n].amount /\ o <= n

\* unsigned_abs() of `amount as i64`
AsI64Abs(amount) == IF amount <= MaxI64 THEN amount ELSE U64Size - amount

NotFound == [kind |-> "none"]
Failed == [kind |-> "error"]
Overflowed == [kind |-> "panic"]
Info(input, output, inAmount, outAmount) ==
    [kind |-> "info", input |-> input, output |-> output,
     inAmount |-> inAmount, outAmount |-> outAmount]

FromTransfers(transfers) ==
    LET accounts == {Account(IF isPool THEN "pool" ELSE "user", t) : t \in Tokens}
        userSide == ForUserLeg(isPool)
        mine     == FindLeg(transfers, userSide, accounts)
        counterpart(t) == Account(t.owner, Other(t.token))
        theirs   == FindLeg(transfers, Opposite(userSide),
                            {counterpart(AccountOf(userSide, transfers[mine]))})
    IN  IF Len(transfers) < 2 \/ mine = 0 THEN NotFound
        ELSE IF transfers[mine].signer # "user" \/ theirs = 0 THEN NotFound
        ELSE IF ~balances THEN Failed       \* MissingTokenProgram
        ELSE Info(AccountOf(userSide, transfers[mine]).token,
                  transfers[theirs].source.token,
                  AsI64Abs(transfers[mine].amount),
                  AsI64Abs(transfers[theirs].amount))

--------------------------------------------------------------------------------
(* get_swap_info_from_balance_diff *)

Total(numbers) ==
    LET sum[n \in 0 .. Len(numbers)] == IF n = 0 THEN 0 ELSE sum[n - 1] + numbers[n]
    IN  sum[Len(numbers)]

\* What a transfer changes an account by, and a list of them.
Flow(account, t) ==
    IF account = t.destination THEN t.amount ELSE IF account = t.source THEN -t.amount ELSE 0
Moved(account, transfers) == Total([n \in DOMAIN transfers |-> Flow(account, transfers[n])])

\* What `token` changed by in the accounts of `owner`.
Change(owner, token) ==
    Total([n \in DOMAIN trades |-> Moved(Account(owner, token), trades[n].transfers)])

\* derive_amount: the node divided the amount by 10^decimals into a float, which
\* is multiplied again, truncated and saturated to a u64
Readings(amount) ==
    {r \in 0 .. U64Size - 1 : /\ Precision * r <= (Precision + 1) * amount
                              /\ Precision * (r + 1) > (Precision - 1) * amount}

\* the balances before and after: equal ones are read alike, and each operation
\* on floats keeps the order
Trips(before, after) ==
    {x \in [before : Readings(before), after : Readings(after)] :
        /\ before = after => x.before = x.after
        /\ ordered /\ before < after => x.before <= x.after
        /\ ordered /\ after < before => x.after <= x.before}

\* unwrap_or(0.0): the node has no float for more decimals than a u64 holds
Blank == [before |-> 0, after |-> 0]

Own == IF isPool THEN "pool" ELSE "user"
Seen(token) == Trips(Reserve(Own), Reserve(Own) + Change(Own, token)) \cup {Blank}

\* Mutant of FromBalanceDiff: the sign of a user account is used for a pool's.
UserSignOnly(read) ==
    LET delta(t) == read[t].after - read[t].before
        isInput(t) == delta(t) < 0
        abs(n) == IF n < 0 THEN -n ELSE n
    IN  IF ~balances THEN Failed
        ELSE IF isInput("a") = isInput("b") THEN [kind |-> "ambiguous"]
        ELSE LET input == CHOOSE t \in Tokens : isInput(t)
             IN  Info(input, Other(input), abs(delta(input)), abs(delta(Other(input))))

\* Mutant of FromBalanceDiff: the changes keep their sign.
SignedAmounts(read) ==
    LET delta(t) == read[t].after - read[t].before
        isInput(t) == IF isPool THEN delta(t) > 0 ELSE delta(t) < 0
    IN  IF ~balances THEN Failed
        ELSE IF isInput("a") = isInput("b") THEN [kind |-> "ambiguous"]
        ELSE LET input == CHOOSE t \in Tokens : isInput(t)
             IN  Info(input, Other(input), delta(input), delta(Other(input)))

\* `read` is what the balances before and after were read as, per token
FromBalanceDiff(read) ==
    LET delta(t) == read[t].after - read[t].before
        isInput(t) == IF isPool THEN delta(t) > 0 ELSE delta(t) < 0
        abs(n) == IF n < 0 THEN -n ELSE n
    IN  IF \/ ~balances                    \* MissingMint
           \/ \E t \in Tokens : read[t].before > MaxI64 \/ read[t].after > MaxI64   \* I64Convert
        THEN Failed
        ELSE IF isInput("a") = isInput("b") THEN [kind |-> "ambiguous"]
        ELSE LET input == CHOOSE t \in Tokens : isInput(t)
             IN  Info(input, Other(input), abs(delta(input)), abs(delta(Other(input))))

--------------------------------------------------------------------------------
Init ==
    /\ trades = <<>>
    /\ isPool \in BOOLEAN
    /\ balances \in BOOLEAN
    /\ ordered \in BOOLEAN
    /\ infos = <<>>
    /\ net = NotFound
    /\ phase = "execute"

\* Swaps as programs execute them: the user pays, the pool pays out, in either
\* order, and a fee may be taken anywhere before, between or after.
Pays(input, in, out) ==
    LET pay == Transfer("user", "pool", input, in)
        get == Transfer("pool", "user", Other(input), out)
    IN  {<<pay, get>>, <<get, pay>>}

Fees(fee) == {Transfer(o, "fees", t, fee) : o \in Owners, t \in Tokens}

WithFee(pair, fee) == {<<fee>> \o pair, <<pair[1], fee, pair[2]>>, pair \o <<fee>>}

\* no account runs out
Covered == \A o \in Owners, t \in Tokens : Reserve(o) + Change(o, t) >= 0

Trade ==
    /\ phase = "execute" /\ Len(trades) < MaxTrades
    /\ \E input \in Tokens, in \in InAmounts, out \in OutAmounts, fee \in FeeAmounts :
         \E pair \in Pays(input, in, out) :
           \E transfers \in {pair} \cup UNION {WithFee(pair, f) : f \in Fees(fee)} :
             trades' = Append(trades, [input |-> input, in |-> in, out |-> out,
                                       fee |-> fee, transfers |-> transfers])
    /\ Covered'
    /\ UNCHANGED <<isPool, balances, ordered, infos, net, phase>>

StartParse ==
    /\ phase = "execute" /\ trades # <<>>
    /\ phase' = "parse"
    /\ UNCHANGED <<trades, isPool, balances, ordered, infos, net>>

ReadTransfers ==
    /\ phase = "parse" /\ Len(infos) < Len(trades)
    /\ infos' = Append(infos, FromTransfers(trades[Len(infos) + 1].transfers))
    /\ UNCHANGED <<trades, isPool, balances, ordered, net, phase>>

ReadBalances ==
    /\ phase = "parse" /\ Len(infos) = Len(trades)
    /\ \E a \in Seen("a"), b \in Seen("b") : net' = FromBalanceDiff([a |-> a, b |-> b])
    /\ phase' = "done"
    /\ UNCHANGED <<trades, isPool, balances, ordered, infos>>

\* 10u64.pow(decimals) of more than 19, in a build that checks arithmetic
PowOverflows ==
    /\ phase = "parse" /\ Len(infos) = Len(trades) /\ balances
    /\ net' = Overflowed
    /\ phase' = "done"
    /\ UNCHANGED <<trades, isPool, balances, ordered, infos>>

Ended == phase = "done" /\ UNCHANGED vars

Next == Trade \/ StartParse \/ ReadTransfers \/ ReadBalances \/ PowOverflows \/ Ended

Spec == Init /\ [][Next]_vars

--------------------------------------------------------------------------------
(* Properties *)

Infos == [kind : {"info"}, input : Tokens, output : Tokens,
          inAmount : 0 .. U64Size, outAmount : 0 .. U64Size]

\* Every variable keeps its type.
TypeOK ==
    /\ Len(trades) <= MaxTrades
    /\ \A n \in DOMAIN infos : infos[n] \in Infos \cup {NotFound, Failed}
    /\ net \in Infos \cup {NotFound, Failed, Overflowed, [kind |-> "ambiguous"]}
    /\ phase \in {"execute", "parse", "done"}

\* A fee is less than either amount: find_leg takes the largest transfer for
\* the swap's, and a swap that pays nothing out has no direction.
FeeIsSmall(trade) == trade.fee < trade.in /\ trade.fee < trade.out

\* Whoever's accounts the parser is given, wherever the fee is taken, and
\* whatever else happened to the pool in the transaction, the transfers of a
\* swap give its direction, and of the amounts paid in and out each that fits
\* an i64 (util.rs:345 casts to one).
TradesRecovered ==
    \A n \in DOMAIN infos :
        LET trade == trades[n]
            info  == infos[n]
        IN  (balances /\ FeeIsSmall(trade)) =>
              /\ info.kind = "info"
              /\ info.input = trade.input /\ info.output = Other(trade.input)
              /\ trade.in <= MaxI64 => info.inAmount = trade.in
              /\ trade.out <= MaxI64 => info.outAmount = trade.out

\* What both accounts held, before and after, is below what a float tells apart.
SmallBalances ==
    \A t \in Tokens : Reserve(Own) < Precision /\ Reserve(Own) + Change(Own, t) < Precision

\* The two ways to read a transaction of one swap never disagree on its
\* direction, whatever the balances lost on the way: either every float kept
\* the order, or the balances are small enough to be off by one at most.
LoneTradeAgrees ==
    (/\ phase = "done" /\ Len(trades) = 1 /\ FeeIsSmall(trades[1])
     /\ ordered \/ SmallBalances
     /\ net.kind = "info" /\ infos[1].kind = "info") => net.input = infos[1].input

\* Of several swaps the balances give the net direction: the input is what the
\* pool ended with more of, and the user with less, down to a change of one
\* unit.  The output went the other way, if it is not read as unchanged.
NetDirection ==
    (phase = "done" /\ net.kind = "info" /\ (ordered \/ SmallBalances)) =>
        IF isPool
        THEN /\ Change("pool", net.input) > 0
             /\ net.outAmount > 0 => Change("pool", net.output) < 0
        ELSE /\ Change("user", net.input) < 0
             /\ net.outAmount > 0 => Change("user", net.output) > 0
================================================================================
