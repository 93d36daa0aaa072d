--------------------------- MODULE ParseTransaction ---------------------------
(***************************************************************************)
(* parse_transaction (parse.rs): the root instructions of a transaction are *)
(* parsed in order, an aggregator's by way of the legs it calls             *)
(* (parse/aggregator).  Everything runs lazily inside collect(), so the     *)
(* first error ends the walk and drops what was parsed before it.           *)
(*                                                                         *)
(* Which net swap an aggregator's legs amount to is RouteLegs' and          *)
(* SwapGraph's matter: a failure there leaves the swap out and is no error. *)
(***************************************************************************)
EXTENDS DexParsers, Sequences

CONSTANTS
    Disallowed,     \* the programs of DISALLOWED
    Others,         \* programs with no parser, in the registry or not
    NoKey,          \* the program of an index that resolves to no account key
    Transactions    \* the transactions that are explored

Aggregators == {"AxiomTrade", "DflowAgg", "JupV6", "OKXDexRouter2", "TitanExchangeRouter"}
Programs == Aggregators \cup Amms \cup {"SolFi"} \cup Disallowed \cup Others

\* Only the direct inner instructions matter here: they are the legs of an
\* aggregator, whose own log events are among them, summed up in `events`.
Leg == [program : Programs \cup {NoKey}, ix : Instruction]
Root == [program : Programs \cup {NoKey}, ix : Instruction,
         events : {"none", "some", "garbled"}, legs : Seq(Leg)]

ASSUME ProgramsAssumption ==
    /\ NoKey \notin Programs
    /\ (Disallowed \cup Others) \cap (Aggregators \cup Amms \cup {"SolFi"}) = {}
    /\ Disallowed \cap Others = {}
    /\ Transactions \subseteq Seq(Root)

VARIABLES
    tx,         \* the root instructions
    i,          \* the root instruction being parsed
    j,          \* the leg of its aggregator being parsed, 0 outside of one
    routes,     \* the routes of that aggregator so far
    parsed,     \* what collect() has gathered
    result,     \* "running", "ok", "error" or "panic"
    report      \* the path and program of the WithTrace

vars == <<tx, i, j, routes, parsed, result, report>>

Ix == tx[i]
CurrentLeg == Ix.legs[j]

NoReport == [path |-> <<>>, program |-> NoKey]

--------------------------------------------------------------------------------
(* The aggregators' own parsers *)

\* A recognised instruction's user is read with peek()?, an error where the AMM
\* parsers' accs[n] panics; `then` is what follows.
Peek(root, positions, then) ==
    IF \A n \in positions : Readable(root.ix, n) THEN then ELSE "error"

\* an aggregator's own log event that does not deserialize is an error; only
\* Jupiter gives up without one
JupV6(root) ==
    LET user == CASE root.ix.op = "swap"      -> {1}    \* route, exact_out_route, with ledger
                  [] root.ix.op = "swap_v2"   -> {0}    \* route_v2, exact_out_route_v2
                  [] root.ix.op = "shared"    -> {2}    \* shared_accounts_*
                  [] root.ix.op = "shared_v2" -> {1}    \* shared_accounts_*_v2
                  [] OTHER                    -> {}
        read == CASE root.events = "garbled" -> "error"
                  [] root.events = "none"    -> "none"
                  [] root.events = "some"    -> "open"
    IN  IF user = {} THEN "none" ELSE Peek(root, user, read)

DflowAgg(root) ==
    IF root.ix.op # "swap" THEN "none"
    ELSE Peek(root, {3}, IF root.events = "garbled" THEN "error" ELSE "open")

OKXDexRouter2(root) ==
    IF root.ix.op # "swap" THEN "none"
    ELSE Peek(root, {0}, IF root.events = "garbled" THEN "error" ELSE "open")

TitanExchangeRouter(root) ==
    CASE root.ix.op = "swap_v2" -> Peek(root, {0}, "open")
      [] root.ix.op = "swap"    -> Peek(root, {1}, "open")      \* v3
      [] OTHER                  -> "none"

AxiomTrade(root) == IF root.ix.op # "swap" THEN "none" ELSE Peek(root, {0, 1}, "open")

\* aggregator::parse, up to the call of aggregator_routes
Opening(root) ==
    CASE root.program = "JupV6"               -> JupV6(root)
      [] root.program = "DflowAgg"            -> DflowAgg(root)
      [] root.program = "OKXDexRouter2"       -> OKXDexRouter2(root)
      [] root.program = "TitanExchangeRouter" -> TitanExchangeRouter(root)
      [] root.program = "AxiomTrade"          -> AxiomTrade(root)
      [] OTHER                                -> "none"

\* the filter of aggregator_routes
IsLeg(agg, leg) == leg.program \notin Disallowed \cup {NoKey, agg}

--------------------------------------------------------------------------------
Init ==
    /\ tx \in Transactions
    /\ i = 1 /\ j = 0
    /\ routes = <<>>
    /\ parsed = <<>>
    /\ result = "running"
    /\ report = NoReport

AtRoot == result = "running" /\ j = 0 /\ i \in DOMAIN tx
AtLeg == result = "running" /\ j # 0 /\ j \in DOMAIN Ix.legs

Skip ==
    /\ i' = i + 1
    /\ UNCHANGED <<tx, j, routes, parsed, result, report>>

\* with_trace wraps the root instruction, whichever leg of it went wrong
Fail ==
    /\ result' = "error"
    /\ report' = [path |-> <<i>>, program |-> Ix.program]
    /\ UNCHANGED <<tx, i, j, routes, parsed>>

Unwind ==
    /\ result' = "panic"
    /\ UNCHANGED <<tx, i, j, routes, parsed, report>>

\* Mutant of SkipUnrecognized: an unrecognised program ends the transaction.
StopAtUnrecognized ==
    /\ AtRoot /\ Ix.program \notin Aggregators \cup Amms
    /\ result' = "ok"
    /\ UNCHANGED <<tx, i, j, routes, parsed, report>>

SkipUnrecognized ==
    /\ AtRoot /\ Ix.program \notin Aggregators \cup Amms
    /\ Skip

ParseAmm ==
    /\ AtRoot /\ Ix.program \in Amms
    /\ LET out == ParseDex(Ix.program, Ix.ix)
       IN  \/ /\ out.kind = "swap"
              /\ parsed' = Append(parsed, [at |-> i, program |-> out.label, routes |-> <<>>])
              /\ i' = i + 1
              /\ UNCHANGED <<tx, j, routes, result, report>>
           \/ out.kind = "none" /\ Skip
           \/ out.kind = "error" /\ Fail
           \/ out.kind = "panic" /\ Unwind

OpenAggregator ==
    /\ AtRoot /\ Ix.program \in Aggregators
    /\ \/ /\ Opening(Ix) = "open"
          /\ j' = 1 /\ routes' = <<>>
          /\ UNCHANGED <<tx, i, parsed, result, report>>
       \/ Opening(Ix) = "none" /\ Skip
       \/ Opening(Ix) = "error" /\ Fail

SkipLeg ==
    /\ AtLeg /\ ~IsLeg(Ix.program, CurrentLeg)
    /\ j' = j + 1
    /\ UNCHANGED <<tx, i, routes, parsed, result, report>>

\* Mutant of AddRoute: a leg without a swap is left out of the routes.
AddDecodedRoute(decoded, program) ==
    /\ routes' = IF decoded
                 THEN Append(routes, [at |-> j, decoded |-> decoded, program |-> program])
                 ELSE routes
    /\ j' = j + 1
    /\ UNCHANGED <<tx, i, parsed, result, report>>

AddRoute(decoded, program) ==
    /\ routes' = Append(routes, [at |-> j, decoded |-> decoded, program |-> program])
    /\ j' = j + 1
    /\ UNCHANGED <<tx, i, parsed, result, report>>

\* dex::parse decides by the program alone whether there is a parser, is_amm
\* is not asked
ParseLeg ==
    /\ AtLeg /\ IsLeg(Ix.program, CurrentLeg)
    /\ LET out == ParseDex(CurrentLeg.program, CurrentLeg.ix)
       IN  \/ out.kind = "swap" /\ AddRoute(TRUE, out.label)
           \/ out.kind = "none" /\ AddRoute(FALSE, CurrentLeg.program)
           \/ out.kind = "error" /\ Fail
           \/ out.kind = "panic" /\ Unwind

\* Mutant of CloseAggregator: the cursor into the legs is not reset.
CloseWithoutReset ==
    /\ result = "running" /\ j # 0 /\ j \notin DOMAIN Ix.legs
    /\ parsed' = Append(parsed, [at |-> i, program |-> Ix.program, routes |-> routes])
    /\ i' = i + 1 /\ routes' = <<>>
    /\ UNCHANGED <<tx, j, result, report>>

CloseAggregator ==
    /\ result = "running" /\ j # 0 /\ j \notin DOMAIN Ix.legs
    /\ parsed' = Append(parsed, [at |-> i, program |-> Ix.program, routes |-> routes])
    /\ i' = i + 1 /\ j' = 0 /\ routes' = <<>>
    /\ UNCHANGED <<tx, result, report>>

Return ==
    /\ result = "running" /\ j = 0 /\ i > Len(tx)
    /\ result' = "ok"
    /\ UNCHANGED <<tx, i, j, routes, parsed, report>>

Ended == result # "running" /\ UNCHANGED vars

Next ==
    \/ SkipUnrecognized \/ ParseAmm \/ OpenAggregator \/ SkipLeg \/ ParseLeg
    \/ CloseAggregator \/ Return \/ Ended

Spec == Init /\ [][Next]_vars

--------------------------------------------------------------------------------
(* Properties *)

\* Every variable keeps its type.
TypeOK ==
    /\ tx \in Seq(Root)
    /\ i \in 1 .. Len(tx) + 1
    /\ j \in Nat /\ (j # 0 => i \in DOMAIN tx /\ j <= Len(Ix.legs) + 1)
    /\ routes \in Seq([at : Nat, decoded : BOOLEAN, program : Programs])
    /\ parsed \in Seq([at : Nat, program : Programs,
                       routes : Seq([at : Nat, decoded : BOOLEAN, program : Programs])])
    /\ result \in {"running", "ok", "error", "panic"}
    /\ report \in [path : Seq(Nat), program : Programs \cup {NoKey}]

LegOutcome(agg, leg) ==
    IF IsLeg(agg, leg) THEN ParseDex(leg.program, leg.ix).kind ELSE "skip"

\* What becomes of a root instruction on its own: "swap", "none", or what
\* goes wrong first in it.
Verdict(root) ==
    LET outcome(n) == LegOutcome(root.program, root.legs[n])
        bad == {n \in DOMAIN root.legs : outcome(n) \in {"error", "panic"}}
    IN  IF root.program \in Amms THEN ParseDex(root.program, root.ix).kind
        ELSE IF root.program \notin Aggregators THEN "none"
        ELSE IF Opening(root) # "open" THEN Opening(root)
        ELSE IF bad = {} THEN "swap"
        ELSE outcome(CHOOSE n \in bad : \A o \in bad : n <= o)

\* The transaction is judged as if every root instruction were judged alone,
\* in order: the first to go wrong decides; otherwise each recognised swap is
\* in the output once, in order, and nothing else is.
OutputIsPerInstruction ==
    LET verdicts == [n \in DOMAIN tx |-> Verdict(tx[n])]
        bad == {n \in DOMAIN tx : verdicts[n] \in {"error", "panic"}}
        swaps == {n \in DOMAIN tx : verdicts[n] = "swap"}
    IN  /\ result = "ok" => /\ bad = {}
                            /\ {parsed[m].at : m \in DOMAIN parsed} = swaps
                            /\ \A m \in 2 .. Len(parsed) : parsed[m - 1].at < parsed[m].at
        /\ result \in {"error", "panic"} =>
              /\ i \in bad /\ verdicts[i] = result
              /\ \A n \in bad : i <= n

\* An aggregator's routes are its legs in the order they ran: none is left out
\* but the token, system and event instructions among them, and a leg counts
\* as decoded only with a swap.
RoutesAreLegs ==
    \A m \in DOMAIN parsed :
        LET root == tx[parsed[m].at]
            legs == {n \in DOMAIN root.legs : IsLeg(root.program, root.legs[n])}
            rs   == parsed[m].routes
        IN  root.program \in Aggregators =>
              /\ {rs[r].at : r \in DOMAIN rs} = legs
              /\ \A r \in DOMAIN rs :
                    /\ r > 1 => rs[r - 1].at < rs[r].at
                    /\ rs[r].decoded <=>
                         LegOutcome(root.program, root.legs[rs[r].at]) = "swap"

\* What the parser has no part in cannot make it fail: an error or a panic
\* comes from a program that is recognised, and of a proprietary AMM an error
\* never from an instruction without token transfers, such as a price update.
OnlySwapsFail ==
    result \in {"error", "panic"} =>
        LET at == IF j = 0 THEN Ix ELSE CurrentLeg
        IN  /\ at.program \in Amms \cup Aggregators \cup {"SolFi"}
            /\ (result = "error" /\ at.program \in PropAmms \cup {"SolFi"}) =>
                   at.ix.transfers # "missing"

\* The longest layout is Raydium's V4 swap of 17 accounts, or 18 with its
\* optional one.
Whole(ix) == \A n \in 0 .. 16 : Readable(ix, n)

\* What is known of an instruction that makes a parser panic: it lists fewer than
\* 17 accounts, or one among them whose index names no key; or it is a swap of
\* Raydium's V4 with a ray_log of no payload, or one of pump's with more decimals
\* than the build can raise ten to.  A V4 swap is never read for an account it
\* does not list, with its optional one or without.
OnlyMisreadsPanic ==
    result = "panic" =>
        LET at == IF j = 0 THEN Ix ELSE CurrentLeg
        IN  \/ ~Whole(at.ix)
            \/ at.program = "RaydiumV4" /\ (at.ix.log = "blank" \/ 17 \in at.ix.keyless)
            \/ at.program = "Pump" /\ at.ix.deltas = "overflow"

================================================================================
