----------------------------- MODULE AggregatorNet -----------------------------
(***************************************************************************)
(* The net swap of one aggregator instruction, as AggregatorSwap.swap shows *)
(* it (parse/aggregator).  Titan and Axiom hand their legs, directed by     *)
(* RouteLegs, to SwapGraph.  Jupiter and DFlow announce each swap in an     *)
(* event of their own and hand those to SwapGraph; OKX announces the net    *)
(* swap itself.  RouteLegs' legs carry what they really did, so the net     *)
(* swap can be compared with what the route did to the caller's wallet.     *)
(***************************************************************************)
EXTENDS RouteLegs, SequencesExt

CONSTANTS
    MaxU64,         \* the largest u64
    DustBps,        \* DUST_TOLERANCE_BPS
    BpsScale,       \* basis points in one
    AnnouncedRoutes \* the routes explored for aggregators that announce them

LegReaders == {"TitanExchangeRouter", "AxiomTrade"}
Announcers == {"JupV6", "DflowAgg", "OKXDexRouter2"}

ASSUME NetAssumption ==
    /\ MaxU64 \in Nat /\ DustBps \in Nat \ {0} /\ BpsScale \in Nat \ {0}
    /\ MaxAmount < MaxU64
    /\ AnnouncedRoutes \subseteq RouteLists
    \* what a leg moved are u64s
    /\ \A r \in RouteLists : \A n \in DOMAIN r :
         r[n].swap.input_amount <= MaxU64 /\ r[n].swap.output_amount <= MaxU64

VARIABLES
    agg,        \* the aggregator
    events,     \* the events among the instruction's direct children, in order
    swaps, i, balance, netInput, report, spent, made, deficit,  \* SwapGraph's
    outcome     \* "waiting" for the legs, SwapGraph's result, or "none"

netVars == <<swaps, i, balance, netInput, report, spent, made, deficit, outcome>>
allVars == <<vars, agg, events, netVars>>

Net == INSTANCE SwapGraph WITH
    Routes <- {[n \in DOMAIN r |-> r[n].swap] : r \in RouteLists},
    result <- outcome

--------------------------------------------------------------------------------
(* What the legs did to the wallet of the caller *)

Executed == [n \in DOMAIN routes |-> routes[n].swap]

\* The sum of the first n values of f.
Sum(f, n) ==
    LET sum[j \in 0 .. Len(f)] == IF j = 0 THEN 0 ELSE sum[j - 1] + f[j]
    IN  sum[n]

\* What each leg took of a mint, and gave of it.
Took(m) ==
    [n \in DOMAIN routes |->
        IF routes[n].swap.input_mint = m THEN routes[n].swap.input_amount ELSE 0]
Gave(m) ==
    [n \in DOMAIN routes |->
        IF routes[n].swap.output_mint = m THEN routes[n].swap.output_amount ELSE 0]

\* How much of a mint the legs up to the n-th took before they had made it, and
\* the most of it, which the caller's wallet must have held for them to run.
Lacked(m, n) == Sum(Took(m), n) - Sum(Gave(m), n - 1)
Needed(m) == Max({0} \cup {Lacked(m, n) : n \in DOMAIN routes})

Entry == Executed[1].input_mint
Exit == Executed[Len(Executed)].output_mint

\* what was left of the last mint when the route was done
Received == Sum(Gave(Exit), Len(routes)) - Sum(Took(Exit), Len(routes)) + Needed(Exit)

--------------------------------------------------------------------------------
(* Events: their contents are the swaps they announce *)

SwapEvent(s) == [kind |-> "SwapEvent", swaps |-> <<s>>]
SwapsEvent(ss) == [kind |-> "SwapsEvent", swaps |-> ss]
OtherEvent == [kind |-> "other", swaps |-> <<>>]    \* too short, or unknown

\* what an aggregator may announce of its route, something else among it
Announcements ==
    LET each == <<OtherEvent>> \o [n \in DOMAIN routes |-> SwapEvent(Executed[n])]
        net  == SwapEvent([input_mint |-> Entry, output_mint |-> Exit,
                           input_amount |-> Needed(Entry), output_amount |-> Received])
    IN  CASE agg \in LegReaders    -> {<<>>}
          [] agg = "JupV6"         -> {<<SwapsEvent(Executed)>>, each,
                                       Append(each, SwapsEvent(Executed))}
          [] agg = "DflowAgg"      -> {<<>>, each}
          [] agg = "OKXDexRouter2" -> {<<>>, <<OtherEvent, net, OtherEvent>>}

\* Mutant of JupiterSwaps: the list is added to the single swaps.
JupiterSwapsAdded(evs) == FlattenSeq([n \in DOMAIN evs |-> evs[n].swaps])

\* a SwapsEvent replaces what was read before it and ends the search
JupiterSwaps(evs) ==
    LET lists == {n \in DOMAIN evs : evs[n].kind = "SwapsEvent"}
    IN  IF lists # {} THEN evs[Min(lists)].swaps
        ELSE FlattenSeq([n \in DOMAIN evs |-> evs[n].swaps])

DflowSwaps(evs) ==
    FlattenSeq([n \in DOMAIN evs |->
                  IF evs[n].kind = "SwapEvent" THEN evs[n].swaps ELSE <<>>])

\* where the swap events are, whichever of the six kinds; there may be none
OkxSwaps(evs) == {n \in DOMAIN evs : evs[n].kind = "SwapEvent"}

--------------------------------------------------------------------------------
NetInit ==
    /\ Init
    /\ agg \in LegReaders \cup Announcers
    /\ agg \in Announcers => routes \in AnnouncedRoutes
    /\ events \in Announcements
    /\ swaps = <<>> /\ i = 1
    /\ balance = [m \in Mints |-> 0] /\ netInput = 0
    /\ report = <<>>
    /\ spent = [m \in Mints |-> 0] /\ made = [m \in Mints |-> 0]
    /\ deficit = [m \in Mints |-> 0]
    /\ outcome = "waiting"

\* Routes::swap, up to the graph
DirectLegs ==
    /\ agg \in LegReaders
    /\ Next
    /\ UNCHANGED <<agg, events, netVars>>

\* SwapGraph::new
HandOver(legs) ==
    /\ outcome = "waiting"
    /\ swaps' = legs
    /\ outcome' = "running"
    /\ UNCHANGED <<vars, agg, events, i, balance, netInput, report, spent, made, deficit>>

HandOverLegs == agg \in LegReaders /\ result = "ok" /\ HandOver(Legs)

\* the error is dropped by ok(): the instruction has no net swap
NoLegs ==
    /\ agg \in LegReaders /\ outcome = "waiting"
    /\ result \notin {"running", "ok"}
    /\ outcome' = "none"
    /\ UNCHANGED <<vars, agg, events, swaps, i, balance, netInput, report, spent, made, deficit>>

HandOverEvents ==
    \/ agg = "JupV6" /\ HandOver(JupiterSwaps(events))
    \/ agg = "DflowAgg" /\ HandOver(DflowSwaps(events))

\* the event is the net swap, the graph is not asked
TakeEvent ==
    /\ agg = "OKXDexRouter2" /\ outcome = "waiting"
    /\ LET found == OkxSwaps(events)
       IN  IF found = {} THEN outcome' = "none" /\ UNCHANGED <<netInput, report>>
           ELSE LET s == events[Min(found)].swaps[1]   \* the first of them
                IN  /\ netInput' = s.input_amount
                    /\ report' = <<s.output_mint, s.output_amount>>
                    /\ outcome' = "ok"
    /\ UNCHANGED <<vars, agg, events, swaps, i, balance, spent, made, deficit>>

WalkGraph == outcome = "running" /\ Net!Next /\ UNCHANGED <<vars, agg, events>>

Finished == outcome \notin {"waiting", "running"} /\ UNCHANGED allVars

NetNext ==
    \/ DirectLegs \/ HandOverLegs \/ NoLegs \/ HandOverEvents \/ TakeEvent
    \/ WalkGraph \/ Finished

NetSpec == NetInit /\ [][NetNext]_allVars

--------------------------------------------------------------------------------
(* Properties *)

\* The net swap that the wallet saw: what it had to bring, and what of the
\* last mint there was in the end.
IsWalletChange ==
    /\ netInput = Needed(Entry)
    /\ report = <<Exit, Received>>

SelfFunded == \A m \in Mints \ {Entry} : Needed(m) = 0

\* The transfers of a leg say what it did: no fee came on top of its amounts.
ExactTransfers ==
    \A n \in DOMAIN routes : ~routes[n].decoded =>
        /\ Total(routes[n].transfers, Executed[n].input_mint) = Executed[n].input_amount
        /\ Total(routes[n].transfers, Executed[n].output_mint) = Executed[n].output_amount

\* Nothing the caller put in stays in between.
ExactChain ==
    \A n \in 1 .. Len(Executed) - 1 : Executed[n + 1].input_amount = Executed[n].output_amount

\* A swap executed as one chain, which of its legs were decoded or how the
\* aggregator announced it, has as its net swap what went into the first leg
\* and what came out of the last.  It takes both halves: a leg turned round, or
\* one that comes twice, is refused by the graph or nets to something else.
NetSwapIsExecuted ==
    (/\ routes # <<>> /\ outcome \notin {"waiting", "running"}
     /\ CleanChain /\ ExactChain
     /\ IF agg \in LegReaders THEN ExactTransfers ELSE events # <<>>)
    => /\ outcome = "ok"
       /\ netInput = Executed[1].input_amount
       /\ report = <<Exit, Executed[Len(Executed)].output_amount>>

\* Only dust of a mint was lacking: what is_dust tolerates of all that the legs
\* took of it, as long as its products stay below the largest u64.
OnlyDust(m) ==
    (\A o \in Mints : DustBps * Sum(Took(o), Len(routes)) < MaxU64) =>
        BpsScale * Needed(m) <= DustBps * Sum(Took(m), Len(routes))

TotalsFit ==
    \A m \in Mints :
        Sum(Took(m), Len(routes)) <= MaxU64 /\ Sum(Gave(m), Len(routes)) <= MaxU64

\* Of any route, split or cyclic, whose legs reach the graph as they were
\* executed, the net swap is what happened to the wallet, but for dust of other
\* mints; and a route that asked the wallet for no other mint is not refused.
NetSwapIsWalletChange ==
    (/\ routes # <<>> /\ swaps = Executed /\ TotalsFit
     /\ outcome \notin {"waiting", "running"})
    => /\ outcome = "ok" => IsWalletChange /\ \A m \in Mints \ {Entry} : OnlyDust(m)
       /\ SelfFunded => outcome = "ok"

\* graph.rs:3-6 and 12-15: an aggregator "may split the input across several
\* pools", and the net swap answers "how much of the *original* input mint went
\* in, and how much of the *final* output mint came out" of the whole route.
SplitNetIsWalletChange ==
    (routes # <<>> /\ outcome = "ok" /\ SelfFunded /\ ExactTransfers) => IsWalletChange
================================================================================
