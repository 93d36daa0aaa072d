------------------------------- MODULE RouteLegs -------------------------------
(***************************************************************************)
(* How an aggregator's route becomes a list of swaps (Routes::swap and      *)
(* to_swaps, parse/aggregator/mod.rs).  A leg its DEX parser decoded is     *)
(* known; of the others only the token transfers are, which name two mints  *)
(* but not which of them was the input.  A forward and a backward pass     *)
(* direct them by the mints of their neighbours.                            *)
(*                                                                         *)
(* The totals of a leg's transfers are taken to stay below 2^64.            *)
(***************************************************************************)
EXTENDS Integers, Sequences, FiniteSets

CONSTANTS
    Mints,      \* the token mints
    NoMint,     \* no mint held (None), and the mint of a transfer that has none
    MaxAmount,  \* the largest amount of a transfer
    RouteLists  \* the routes that are explored

\* What a leg did, whether its parser says so, and the transfers it made.
Swap == [input_mint : Mints, output_mint : Mints,
         input_amount : Nat, output_amount : Nat]
Transfer == [mint : Mints \cup {NoMint}, amount : 0 .. MaxAmount]
Route == [decoded : BOOLEAN, swap : Swap, transfers : Seq(Transfer)]

ASSUME RouteAssumption ==
    /\ NoMint \notin Mints
    /\ MaxAmount \in Nat
    /\ RouteLists \subseteq Seq(Route)

VARIABLES
    routes,     \* the legs, in the order the aggregator called them
    shapes,     \* what is known of each leg so far
    k,          \* the leg about to be visited
    held,       \* current_mint, then next_mint
    pass,       \* "collect", "forward", "backward", "done"
    result      \* "running", "ok", or the error

vars == <<routes, shapes, k, held, pass, result>>

Known(s) == [known |-> TRUE, swap |-> s]
Candidates(sides) == [known |-> FALSE, sides |-> sides]

Sides == [mint : Mints, amount : Nat]

--------------------------------------------------------------------------------
(* candidates_from_transfers *)

MintsOf(transfers) == {transfers[n].mint : n \in DOMAIN transfers}

Total(transfers, m) ==
    LET sum[n \in 0 .. Len(transfers)] ==
          IF n = 0 THEN 0
          ELSE sum[n - 1] + IF transfers[n].mint = m THEN transfers[n].amount ELSE 0
    IN  sum[Len(transfers)]

\* Mutant of TopTwo: the totals are sorted the wrong way round.
BottomTwo(transfers) ==
    {T \in SUBSET MintsOf(transfers) :
        /\ Cardinality(T) = 2
        /\ \A m \in T : \A o \in MintsOf(transfers) \ T :
             Total(transfers, m) <= Total(transfers, o)}

\* The two mints with the largest totals.  The sort starts from the order of a
\* HashMap, so of equal totals any may come first.
TopTwo(transfers) ==
    {T \in SUBSET MintsOf(transfers) :
        /\ Cardinality(T) = 2
        /\ \A m \in T : \A o \in MintsOf(transfers) \ T :
             Total(transfers, m) >= Total(transfers, o)}

\* Mutant of Resolve: the matched mint always becomes the input.
ResolveAsInput(sides, mint, asInput) ==
    LET input  == CHOOSE s \in sides : s.mint = mint
        output == CHOOSE s \in sides : s.mint # mint
    IN  [input_mint |-> input.mint, output_mint |-> output.mint,
         input_amount |-> input.amount, output_amount |-> output.amount]

(* resolve: `mint` is the leg's input in the forward pass, its output in the
   backward pass *)
Resolve(sides, mint, asInput) ==
    LET matched == CHOOSE s \in sides : s.mint = mint
        other   == CHOOSE s \in sides : s.mint # mint
        input   == IF asInput THEN matched ELSE other
        output  == IF asInput THEN other ELSE matched
    IN  [input_mint |-> input.mint, output_mint |-> output.mint,
         input_amount |-> input.amount, output_amount |-> output.amount]

Connects(sides, mint) == \E s \in sides : s.mint = mint

--------------------------------------------------------------------------------
Init ==
    /\ routes \in RouteLists
    /\ shapes = <<>>
    /\ k = 1
    /\ held = NoMint
    /\ pass = "collect"
    /\ result = "running"

\* with every leg decoded there is nothing to resolve
AllDecoded ==
    /\ pass = "collect" /\ k = 1
    /\ \A n \in DOMAIN routes : routes[n].decoded
    /\ shapes' = [n \in DOMAIN routes |-> Known(routes[n].swap)]
    /\ pass' = "done" /\ result' = "ok"
    /\ UNCHANGED <<routes, k, held>>

Collecting ==
    /\ pass = "collect" /\ k \in DOMAIN routes
    /\ \E n \in DOMAIN routes : ~routes[n].decoded

CollectDecoded ==
    /\ Collecting /\ routes[k].decoded
    /\ shapes' = Append(shapes, Known(routes[k].swap))
    /\ k' = k + 1
    /\ UNCHANGED <<routes, held, pass, result>>

\* Mutant of CollectCandidates: a transfer without a mint is not noticed.
CollectAnyCandidates ==
    /\ Collecting /\ ~routes[k].decoded
    /\ \E T \in TopTwo(routes[k].transfers) :
         shapes' = Append(shapes, Candidates(
                     {[mint |-> m, amount |-> Total(routes[k].transfers, m)] : m \in T}))
    /\ k' = k + 1
    /\ UNCHANGED <<routes, held, pass, result>>

CollectCandidates ==
    /\ Collecting /\ ~routes[k].decoded
    /\ NoMint \notin MintsOf(routes[k].transfers)
    /\ \E T \in TopTwo(routes[k].transfers) :
         shapes' = Append(shapes, Candidates(
                     {[mint |-> m, amount |-> Total(routes[k].transfers, m)] : m \in T}))
    /\ k' = k + 1
    /\ UNCHANGED <<routes, held, pass, result>>

Fail(error) ==
    /\ result' = error
    /\ pass' = "done"
    /\ UNCHANGED <<routes, shapes, k, held>>

UnknownMint ==
    /\ Collecting /\ ~routes[k].decoded
    /\ NoMint \in MintsOf(routes[k].transfers)
    /\ Fail("UnknownMint")

AmbiguousTransfers ==
    /\ Collecting /\ ~routes[k].decoded
    /\ NoMint \notin MintsOf(routes[k].transfers)
    /\ Cardinality(MintsOf(routes[k].transfers)) < 2
    /\ Fail("AmbiguousTransfers")

StartForward ==
    /\ pass = "collect" /\ k > Len(routes) /\ routes # <<>>
    /\ pass' = "forward" /\ k' = 1
    /\ UNCHANGED <<routes, shapes, held, result>>

\* A known leg passes its far mint on; an unknown one is directed by the mint
\* it is handed, or else breaks the chain.
Visit(forward) ==
    IF shapes[k].known
    THEN /\ held' = IF forward THEN shapes[k].swap.output_mint ELSE shapes[k].swap.input_mint
         /\ UNCHANGED shapes
    ELSE \/ /\ Connects(shapes[k].sides, held)
            /\ LET s == Resolve(shapes[k].sides, held, forward)
               IN  /\ shapes' = [shapes EXCEPT ![k] = Known(s)]
                   /\ held' = IF forward THEN s.output_mint ELSE s.input_mint
         \/ /\ ~Connects(shapes[k].sides, held)
            /\ held' = NoMint
            /\ UNCHANGED shapes

Forward ==
    /\ pass = "forward" /\ k \in DOMAIN shapes
    /\ Visit(TRUE)
    /\ k' = k + 1
    /\ UNCHANGED <<routes, pass, result>>

\* Mutant of StartBackward: the backward pass visits no leg.
SkipBackward ==
    /\ pass = "forward" /\ k > Len(shapes)
    /\ pass' = "backward" /\ k' = 0 /\ held' = NoMint
    /\ UNCHANGED <<routes, shapes, result>>

StartBackward ==
    /\ pass = "forward" /\ k > Len(shapes)
    /\ pass' = "backward" /\ k' = Len(shapes) /\ held' = NoMint
    /\ UNCHANGED <<routes, shapes, result>>

Backward ==
    /\ pass = "backward" /\ k \in DOMAIN shapes
    /\ Visit(FALSE)
    /\ k' = k - 1
    /\ UNCHANGED <<routes, pass, result>>

Unresolved == {n \in DOMAIN shapes : ~shapes[n].known}

Emit ==
    /\ pass = "backward" /\ k = 0
    /\ pass' = "done"
    /\ result' = IF Unresolved = {} THEN "ok" ELSE "UnresolvedLeg"
    \* the leg the error names
    /\ k' = IF Unresolved = {} THEN k
            ELSE CHOOSE n \in Unresolved : \A o \in Unresolved : n <= o
    /\ UNCHANGED <<routes, shapes, held>>

Ended == pass = "done" /\ UNCHANGED vars

Next ==
    \/ AllDecoded \/ CollectDecoded \/ CollectCandidates \/ UnknownMint
    \/ AmbiguousTransfers \/ StartForward \/ Forward \/ StartBackward \/ Backward
    \/ Emit \/ Ended

Spec == Init /\ [][Next]_vars

--------------------------------------------------------------------------------
(* Properties *)

\* Every variable keeps its type.
TypeOK ==
    /\ routes \in Seq(Route)
    /\ \A n \in DOMAIN shapes :
         \/ shapes[n] \in [known : {TRUE}, swap : Swap]
         \/ shapes[n] \in [known : {FALSE}, sides : SUBSET Sides]
    /\ k \in 0 .. Len(routes) + 1
    /\ held \in Mints \cup {NoMint}
    /\ pass \in {"collect", "forward", "backward", "done"}
    /\ result \in {"running", "ok", "UnknownMint", "AmbiguousTransfers", "UnresolvedLeg"}

Legs == [n \in DOMAIN shapes |-> shapes[n].swap]

\* No direction is guessed: in a finished route every leg that was not decoded
\* takes in what the leg before it gave out, or gives out what the leg after
\* it takes in.
DirectionsHaveWitness ==
    result = "ok" => \A n \in DOMAIN routes :
        \/ routes[n].decoded
        \/ n > 1 /\ Legs[n].input_mint = Legs[n - 1].output_mint
        \/ n < Len(routes) /\ Legs[n].output_mint = Legs[n + 1].input_mint

\* Two passes are enough: a leg given up on touches no known neighbour, so a
\* third pass would find nothing more.
StuckLegsAreDisconnected ==
    result = "UnresolvedLeg" => \A n \in Unresolved :
        /\ (n > 1 /\ shapes[n - 1].known) =>
              ~Connects(shapes[n].sides, shapes[n - 1].swap.output_mint)
        /\ (n < Len(shapes) /\ shapes[n + 1].known) =>
              ~Connects(shapes[n].sides, shapes[n + 1].swap.input_mint)

\* The route as it was executed is one chain, a parser read one leg of it, and
\* nothing a leg moved besides its input and its output, of two mints, outweighs
\* them.
CleanChain ==
    /\ \A n \in 1 .. Len(routes) - 1 :
         routes[n].swap.output_mint = routes[n + 1].swap.input_mint
    /\ \E n \in DOMAIN routes : routes[n].decoded
    /\ \A n \in DOMAIN routes : ~routes[n].decoded =>
         LET s == routes[n].swap
             t == routes[n].transfers
         IN  /\ s.input_mint # s.output_mint /\ NoMint \notin MintsOf(t)
             /\ {s.input_mint, s.output_mint} \subseteq MintsOf(t)
             /\ \A o \in MintsOf(t) \ {s.input_mint, s.output_mint} :
                  /\ Total(t, o) < Total(t, s.input_mint)
                  /\ Total(t, o) < Total(t, s.output_mint)

\* Of such a route every leg gets back the direction it was executed in, even
\* when the chain passes the same pair of mints twice in both directions.
ChainRecovered ==
    (CleanChain /\ pass = "done") =>
        /\ result = "ok"
        /\ \A n \in DOMAIN routes :
             /\ Legs[n].input_mint = routes[n].swap.input_mint
             /\ Legs[n].output_mint = routes[n].swap.output_mint
================================================================================
