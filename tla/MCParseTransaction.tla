-------------------------- MODULE MCParseTransaction --------------------------
(* ParseTransaction on every AMM instruction alone, as a root and as a leg, and
   on mixtures of a few instructions that end in every way.  An instruction
   with less than 7 accounts is no swap that moved tokens. *)
EXTENDS ParseTransaction

CONSTANT AccountCounts

Ops == {"swap", "swap_v2", "other"}
IxOf(op, accounts, source, mints, log) ==
    [op |-> op, accounts |-> accounts, keyless |-> {}, transfers |-> source,
     deltas |-> source, mints |-> mints, log |-> log]
Plain(op, accounts, source) == IxOf(op, accounts, source, TRUE, "silent")
Keyless(ix, positions) == [ix EXCEPT !.keyless = positions]
Overflowing(ix) == [ix EXCEPT !.deltas = "overflow"]

LogReaders == {"RaydiumClmm", "PancakeSwap", "RaydiumCpSwap", "RaydiumV4"}
LegOf(program, ix) == [program |-> program, ix |-> ix]

AnyAmmLegs ==
    {LegOf(p, Plain(op, n, s)) :
        p \in Amms \cup {"SolFi"}, op \in Ops, n \in AccountCounts, s \in Sources}
    \cup {LegOf(p, IxOf(op, n, s, m, l)) :
        p \in LogReaders, op \in Ops, n \in AccountCounts, s \in Sources,
        m \in BOOLEAN, l \in {"unavailable", "silent", "blank", "event", "event_with_mints"}}
    \cup {LegOf(p, Keyless(Plain(op, n, s), {n - 1 - back})) :
        p \in Amms \cup {"SolFi"}, op \in Ops, n \in AccountCounts, s \in Sources, back \in {0, 3}}
    \cup {LegOf("Pump", Overflowing(Plain(op, n, "swap"))) : op \in Ops, n \in AccountCounts}

AmmLegs == {l \in AnyAmmLegs : l.ix.accounts >= 7 \/ l.ix.transfers = "missing"}

RootOf(leg) == [program |-> leg.program, ix |-> leg.ix, events |-> "none", legs |-> <<>>]
Agg(p, op, accounts, events, legs) ==
    [program |-> p, ix |-> Plain(op, accounts, "swap"), events |-> events, legs |-> legs]

Alone ==
    {<<RootOf(l)>> : l \in AmmLegs}
    \cup {<<Agg("JupV6", "swap", 12, "some", <<l>>)>> : l \in AmmLegs}

\* a leg for each way it can end, and the ones that are passed over
FewLegs ==
    {LegOf("Orca", Plain("swap", 11, "swap")), LegOf("Orca", Plain("swap", 11, "missing")),
     LegOf("Orca", Keyless(Plain("swap", 11, "swap"), {4})),
     LegOf("AlphaQ", Plain("swap", 9, "missing")), LegOf("HumidiFi", Plain("other", 3, "missing")),
     LegOf("SolFi", Plain("swap", 11, "swap")), LegOf("JupV6", Plain("other", 1, "missing")),
     LegOf(NoKey, Plain("other", 1, "missing"))}
    \cup {LegOf(p, Plain("other", 3, "missing")) : p \in Disallowed \cup Others}

Openings ==
    {<<Agg(p, op, n, e, <<l>>)>> :
        p \in Aggregators, op \in Ops \cup {"shared", "shared_v2"}, n \in 0 .. 4,
        e \in {"none", "some", "garbled"}, l \in FewLegs}
    \cup {<<[Agg(p, op, 4, "some", <<>>) EXCEPT !.ix.keyless = {n}]>> :
        p \in Aggregators, op \in Ops \cup {"shared", "shared_v2"}, n \in 0 .. 3}

Routed ==
    {<<Agg("JupV6", "swap", 12, "some", legs)>> : legs \in UNION {[1 .. n -> FewLegs] : n \in 0 .. 3}}

FewRoots ==
    {RootOf(l) : l \in FewLegs}
    \cup {Agg("OKXDexRouter2", "swap", 12, "some", <<l>>) : l \in FewLegs}

\* a price update of HumidiFi's, before a swap
Updates ==
    {<<RootOf(LegOf("HumidiFi", Plain("other", n, "missing"))),
       RootOf(LegOf("Orca", Plain("swap", 11, "swap")))>> : n \in 1 .. 6}

AllTransactions ==
    Alone \cup Updates \cup Openings \cup Routed \cup UNION {[1 .. n -> FewRoots] : n \in {0, 2, 3}}
================================================================================
