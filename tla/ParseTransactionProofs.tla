------------------------- MODULE ParseTransactionProofs -------------------------
(***************************************************************************)
(* ParseTransaction for every transaction: what each parser can answer, and *)
(* the walk over root instructions and legs that puts the answers together. *)
(***************************************************************************)
EXTENDS ParseTransaction, TLAPS

--------------------------------------------------------------------------------
(* What a DEX parser can answer *)

Labels == Amms \cup {"SolFi"}

\* Of an AMM from parse/dex/basic: anything, but a panic is only over a misread.
Misread(program, ix) ==
    \/ ~Whole(ix)
    \/ program = "RaydiumV4" /\ (ix.log = "blank" \/ 17 \in ix.keyless)
    \/ program = "Pump" /\ ix.deltas = "overflow"

Basic(ix, out) ==
    \/ \E l \in Labels : out = Swap(l)
    \/ out \in {NoSwap, Error}
    \/ out = Panic /\ ~Whole(ix)

\* Of a proprietary one: as well, no error without token transfers.
Prop(ix, out) ==
    \/ \E l \in Labels : out = Swap(l)
    \/ out = NoSwap
    \/ out = Error /\ ix.transfers # "missing"
    \/ out = Panic /\ ~Whole(ix)

\* Of the two that can panic over what they have read.
Fragile(program, ix, out) == Basic(ix, out) \/ (out = Panic /\ Misread(program, ix))

\* The accounts below the 17th are all there in a whole instruction.
LEMMA ReadsOutcome ==
    ASSUME NEW ix, NEW positions \in SUBSET (0 .. 16), NEW out
    PROVE  Reads(ix, positions, out) = out \/ (Reads(ix, positions, out) = Panic /\ ~Whole(ix))
BY DEF Reads, Whole

LEMMA StrictOutcome ==
    ASSUME NEW source, NEW label
    PROVE  Strict(source, label) \in {Swap(label), Error}
BY DEF Strict

LEMMA LenientOutcome ==
    ASSUME NEW ix \in Instruction, NEW label
    PROVE  \/ Lenient(ix.transfers, label) \in {Swap(label), NoSwap}
           \/ Lenient(ix.transfers, label) = Error /\ ix.transfers # "missing"
<1>1. ix.transfers \in Sources
  BY DEF Instruction
<1> QED
  BY <1>1 DEF Lenient, Sources

LEMMA BasicReads ==
    ASSUME NEW ix \in Instruction, NEW positions \in SUBSET (0 .. 16), NEW source, NEW label \in Labels
    PROVE  Basic(ix, Reads(ix, positions, Strict(source, label)))
BY ReadsOutcome, StrictOutcome DEF Basic

LEMMA PropReads ==
    ASSUME NEW ix \in Instruction, NEW positions \in SUBSET (0 .. 16), NEW label \in Labels
    PROVE  Prop(ix, Reads(ix, positions, Lenient(ix.transfers, label)))
BY ReadsOutcome, LenientOutcome DEF Prop

LEMMA BasicNoSwap == \A ix : Basic(ix, NoSwap) /\ Prop(ix, NoSwap)
BY DEF Basic, Prop

\* The same answer under another name.
LEMMA BasicRelabeled ==
    ASSUME NEW ix, NEW out, Basic(ix, out), NEW label \in Labels
    PROVE  Basic(ix, IF out.kind = "swap" THEN [out EXCEPT !.label = label] ELSE out)
BY DEF Basic, Swap, NoSwap, Error, Panic

LEMMA RaydiumClmmOutcome == \A ix \in Instruction : Basic(ix, RaydiumClmm(ix))
BY BasicReads, BasicNoSwap DEF RaydiumClmm, Labels, Amms, BasicAmms

LEMMA StabbleStableOutcome == \A ix \in Instruction : Basic(ix, StabbleStable(ix))
BY BasicReads, BasicNoSwap DEF StabbleStable, Labels, Amms, BasicAmms

LEMMA PumpOutcome == \A ix \in Instruction : Fragile("Pump", ix, Pump(ix))
<1> TAKE ix \in Instruction
<1> DEFINE out == IF ix.deltas = "overflow" THEN Panic ELSE Strict(ix.deltas, "Pump")
<1>1. Pump(ix) = IF ix.op = "swap" THEN Reads(ix, {2, 4, 3, 6}, out) ELSE NoSwap
  BY Zenon DEF Pump
<1>2. Fragile("Pump", ix, out)
  BY StrictOutcome DEF Fragile, Basic, Misread, Labels, Amms, BasicAmms
<1> HIDE DEF out
<1>3. Reads(ix, {2, 4, 3, 6}, out) = out \/ (Reads(ix, {2, 4, 3, 6}, out) = Panic /\ ~Whole(ix))
  BY ReadsOutcome
<1> QED
  BY <1>1, <1>2, <1>3, BasicNoSwap DEF Fragile, Misread

\* The optional account is only counted when it is there.
LEMMA RaydiumV4Outcome == \A ix \in Instruction : Fragile("RaydiumV4", ix, RaydiumV4(ix))
<1> TAKE ix \in Instruction
<1> DEFINE positions == IF ix.op = "swap_v2" THEN {3, 4, 1, 7}
                        ELSE IF ix.accounts > 17 THEN {5, 6, 1, 17}
                        ELSE {4, 5, 1, 16}
           out == RaydiumV4Details(ix)
<1>1. RaydiumV4(ix) = IF ix.op \in {"swap", "swap_v2"} THEN Reads(ix, positions, out) ELSE NoSwap
  BY Zenon DEF RaydiumV4
<1>2. Fragile("RaydiumV4", ix, out)
  <2>1. /\ ix.log \in {"unavailable", "silent", "blank", "event", "event_with_mints"}
        /\ ix.mints \in BOOLEAN
    BY DEF Instruction
  <2>2. out \in {Error, Swap("RaydiumV4")} \/ (out = Panic /\ ix.log = "blank")
    BY <2>1, StrictOutcome DEF RaydiumV4Details
  <2> HIDE DEF out
  <2> QED
    BY <2>2 DEF Fragile, Basic, Misread, Labels, Amms, BasicAmms
<1>3. \/ positions \in SUBSET (0 .. 16)
      \/ positions = {5, 6, 1, 17} /\ ix.accounts > 17
  OBVIOUS
<1>4. ASSUME ix.accounts > 17
      PROVE  \/ Reads(ix, {5, 6, 1, 17}, out) = out
             \/ Reads(ix, {5, 6, 1, 17}, out) = Panic /\ Misread("RaydiumV4", ix)
  BY <1>4 DEF Reads, Readable, Whole, Misread, Instruction
<1>5. ASSUME positions \in SUBSET (0 .. 16)
      PROVE  \/ Reads(ix, positions, out) = out
             \/ Reads(ix, positions, out) = Panic /\ Misread("RaydiumV4", ix)
  BY <1>5, ReadsOutcome DEF Misread
<1> HIDE DEF positions, out
<1> QED
  BY <1>1, <1>2, <1>3, <1>4, <1>5, BasicNoSwap DEF Fragile

LEMMA BasicOutcome ==
    ASSUME NEW program \in BasicAmms, NEW ix \in Instruction
    PROVE  Fragile(program, ix, ParseDex(program, ix))
<1> USE BasicReads, BasicNoSwap DEF ParseDex, Fragile, Labels, Amms, BasicAmms
<1>1. CASE program \in {"BonkSwap", "Byreal", "Deriverse", "LaunchLab", "Manifest", "MeteoraDAMMV2"}
  <2>1. CASE program = "BonkSwap"
    BY <2>1 DEF BonkSwap
  <2>2. CASE program = "Byreal"
    BY <2>2 DEF Byreal
  <2>3. CASE program = "Deriverse"
    BY <2>3 DEF Deriverse
  <2>4. CASE program = "LaunchLab"
    BY <2>4 DEF LaunchLab
  <2>5. CASE program = "Manifest"
    BY <2>5 DEF Manifest
  <2>6. CASE program = "MeteoraDAMMV2"
    BY <2>6 DEF MeteoraDAMMV2
  <2> QED
    BY <1>1, <2>1, <2>2, <2>3, <2>4, <2>5, <2>6
<1>2. CASE program \in {"MeteoraDBC", "MeteoraDLMM", "MeteoraPools", "Orca", "PumpAmm"}
  BY <1>2 DEF MeteoraDBC, MeteoraDLMM, MeteoraPools, Orca, PumpAmm
<1>3. CASE program \in {"Pump", "RaydiumClmm", "RaydiumV4", "StabbleStable"}
  BY <1>3, PumpOutcome, RaydiumClmmOutcome, RaydiumV4Outcome, StabbleStableOutcome
<1>4. CASE program \in {"PancakeSwap", "StabbleWeighted"}
  BY <1>4, RaydiumClmmOutcome, StabbleStableOutcome, BasicRelabeled DEF PancakeSwap, StabbleWeighted
<1>5. CASE program \in {"RaydiumCpSwap", "SarosAmm", "SarosDLMM", "Scorch"}
  BY <1>5 DEF RaydiumCpSwap, SarosAmm, SarosDLMM, Scorch
<1> QED
  BY <1>1, <1>2, <1>3, <1>4, <1>5

LEMMA PropOutcome ==
    ASSUME NEW program \in PropAmms \cup {"SolFi"}, NEW ix \in Instruction
    PROVE  Prop(ix, ParseDex(program, ix))
<1>1. /\ {0, 1, 5, 6} \in SUBSET (0 .. 16) /\ {1, 7, 4, 15, 13, 9} \in SUBSET (0 .. 16)
      /\ {0, 1, 2, 3} \in SUBSET (0 .. 16) /\ {0, 1, 4, 5} \in SUBSET (0 .. 16)
      /\ {8, 9, 1, 0, 4, 5} \in SUBSET (0 .. 16) /\ {7, 8, 1, 2, 3, 4} \in SUBSET (0 .. 16)
      /\ (IF ix.op = "swap_v2" THEN {8, 0, 3, 5} ELSE {7, 0, 2, 4}) \in SUBSET (0 .. 16)
  OBVIOUS
<1>2. /\ {"AlphaQ", "Aquifer", "BisonFi", "GoonFi", "GoonFiV2", "HumidiFi"} \subseteq Labels
      /\ {"SolFi", "SolFiV2", "TesseraV", "ZeroFi"} \subseteq Labels
  BY DEF Labels, Amms, PropAmms
<1>3. /\ Prop(ix, AlphaQ(ix)) /\ Prop(ix, Aquifer(ix)) /\ Prop(ix, BisonFi(ix))
      /\ Prop(ix, GoonFi(ix)) /\ Prop(ix, GoonFiV2(ix)) /\ Prop(ix, HumidiFi(ix))
      /\ Prop(ix, SolFi(ix)) /\ Prop(ix, SolFiV2(ix)) /\ Prop(ix, TesseraV(ix))
      /\ Prop(ix, ZeroFi(ix))
  BY <1>1, <1>2, PropReads, BasicNoSwap
  DEF AlphaQ, Aquifer, BisonFi, GoonFi, GoonFiV2, HumidiFi, SolFi, SolFiV2, TesseraV, ZeroFi
<1> QED
  BY <1>3 DEF ParseDex, PropAmms

LEMMA OtherOutcome ==
    ASSUME NEW program, program \notin Amms \cup {"SolFi"}, NEW ix
    PROVE  ParseDex(program, ix) = NoSwap
BY DEF ParseDex, Amms, BasicAmms, PropAmms

\* What the walk needs of it.
LEMMA ParseDexOutcome ==
    ASSUME NEW program, NEW ix \in Instruction
    PROVE  LET out == ParseDex(program, ix)
           IN  /\ out.kind \in {"swap", "none", "error", "panic"}
               /\ out.kind = "swap" => out.label \in Labels
               /\ out.kind = "panic" => Misread(program, ix)
               /\ out.kind \in {"error", "panic"} => program \in Amms \cup {"SolFi"}
               /\ (out.kind = "error" /\ program \in PropAmms \cup {"SolFi"}) =>
                    ix.transfers # "missing"
<1> USE DEF Swap, NoSwap, Error, Panic
<1>1. CASE program \in PropAmms \cup {"SolFi"}
  BY <1>1, PropOutcome DEF Prop, Misread, Amms
<1>2. CASE program \in BasicAmms /\ program \notin PropAmms \cup {"SolFi"}
  BY <1>2, BasicOutcome DEF Basic, Fragile, Misread, Amms
<1>3. CASE program \notin Amms \cup {"SolFi"}
  BY <1>3, OtherOutcome
<1> QED
  BY <1>1, <1>2, <1>3 DEF Amms

LEMMA SwapLabels == Labels \subseteq Programs
BY DEF Labels, Programs

--------------------------------------------------------------------------------
(* Type correctness *)

RouteType == [at : Nat, decoded : BOOLEAN, program : Programs]

\* Only an aggregator's instruction is walked leg by leg.
Inside == j # 0 => Ix.program \in Aggregators /\ Opening(Ix) = "open"

LEMMA StepInside == Inside /\ [Next]_vars => Inside'
<1> SUFFICES ASSUME Inside, [Next]_vars PROVE Inside'
  OBVIOUS
<1>1. ASSUME j' = 0 PROVE Inside'
  BY <1>1 DEF Inside
<1>2. ASSUME UNCHANGED <<tx, i>>, j # 0 PROVE Inside'
  BY <1>2 DEF Inside, Ix
<1>3. ASSUME UNCHANGED <<tx, i, j>> PROVE Inside'
  BY <1>3 DEF Inside, Ix
<1>4. CASE OpenAggregator
  BY <1>1, <1>3, <1>4 DEF OpenAggregator, Inside, AtRoot, Ix, Skip, Fail
<1> QED
  BY <1>1, <1>2, <1>3, <1>4
  DEF Next, vars, SkipUnrecognized, ParseAmm, SkipLeg, ParseLeg, AddRoute, CloseAggregator, Return,
      Ended, AtRoot, AtLeg, Skip, Fail, Unwind

LEMMA InitTypeOK == Init => TypeOK
BY ProgramsAssumption DEF Init, TypeOK, NoReport

\* The legs of a root instruction and what they are made of.
LEMMA RootType ==
    ASSUME TypeOK, i \in DOMAIN tx
    PROVE  /\ Ix \in Root /\ Ix.ix \in Instruction /\ Ix.legs \in Seq(Leg)
           /\ Ix.program \in Programs \cup {NoKey}
           /\ Len(tx) \in Nat /\ DOMAIN tx = 1 .. Len(tx) /\ i \in 1 .. Len(tx)
           /\ Len(Ix.legs) \in Nat /\ DOMAIN Ix.legs = 1 .. Len(Ix.legs)
           /\ \A n \in DOMAIN Ix.legs : /\ Ix.legs[n].program \in Programs \cup {NoKey}
                                        /\ Ix.legs[n].ix \in Instruction
<1>1. Ix \in Root
  BY DEF TypeOK, Ix
<1>2. Ix.legs \in Seq(Leg) /\ Ix.ix \in Instruction /\ Ix.program \in Programs \cup {NoKey}
  BY <1>1 DEF Root
<1>3. \A n \in DOMAIN Ix.legs : Ix.legs[n] \in Leg
  BY <1>2
<1> QED
  BY <1>1, <1>2, <1>3 DEF TypeOK, Leg

\* The next root instruction.
LEMMA AdvanceTypeOK ==
    ASSUME TypeOK, i \in DOMAIN tx, tx' = tx, i' = i + 1, j' = 0,
           routes' \in Seq(RouteType), result' = result, report' = report,
           \/ parsed' = parsed
           \/ \E p \in Programs, rs \in Seq(RouteType) :
                parsed' = Append(parsed, [at |-> i, program |-> p, routes |-> rs])
    PROVE  TypeOK'
<1>1. i' \in 1 .. Len(tx') + 1
  BY RootType
<1> DEFINE S == [at : Nat, program : Programs, routes : Seq(RouteType)]
<1>2. parsed' \in Seq(S)
  <2>1. parsed \in Seq(S) /\ i \in Nat
    BY RootType DEF TypeOK, RouteType
  <2>2. ASSUME NEW p \in Programs, NEW rs \in Seq(RouteType)
        PROVE  [at |-> i, program |-> p, routes |-> rs] \in S
    BY <2>1
  <2>3. CASE parsed' = parsed
    BY <2>1, <2>3
  <2>4. ASSUME NEW p \in Programs, NEW rs \in Seq(RouteType),
               parsed' = Append(parsed, [at |-> i, program |-> p, routes |-> rs])
        PROVE  parsed' \in Seq(S)
    <3> DEFINE swap == [at |-> i, program |-> p, routes |-> rs]
    <3>1. swap \in S
      BY <2>2
    <3> HIDE DEF S, swap
    <3>2. Append(parsed, swap) \in Seq(S)
      BY <2>1, <3>1
    <3> QED
      BY <2>4, <3>2 DEF swap
  <2> HIDE DEF S
  <2> QED
    BY <2>3, <2>4
<1> QED
  BY <1>1, <1>2 DEF TypeOK, RouteType

LEMMA StopTypeOK ==
    ASSUME TypeOK, i \in DOMAIN tx, Fail \/ Unwind PROVE TypeOK'
<1>1. Fail => report' \in [path : Seq(Nat), program : Programs \cup {NoKey}]
  BY RootType DEF Fail
<1> QED
  BY <1>1, RootType DEF Fail, Unwind, TypeOK, Ix

\* The next leg.
LEMMA NextLegTypeOK ==
    ASSUME TypeOK, AtLeg, j' = j + 1, UNCHANGED <<tx, i, parsed, result, report>>,
           routes' \in Seq(RouteType)
    PROVE  TypeOK'
<1>1. i \in DOMAIN tx /\ j \in DOMAIN Ix.legs
  BY DEF TypeOK, AtLeg
<1>2. j' <= Len(Ix.legs) + 1 /\ j' \in Nat /\ Ix' = Ix
  BY <1>1, RootType DEF Ix
<1> QED
  BY <1>1, <1>2 DEF TypeOK, RouteType

LEMMA StepTypeOK == TypeOK /\ Inside /\ [Next]_vars => TypeOK'
<1> SUFFICES ASSUME TypeOK, Inside, [Next]_vars PROVE TypeOK'
  OBVIOUS
<1>1. routes \in Seq(RouteType)
  BY DEF TypeOK, RouteType
<1>2. CASE UNCHANGED vars
  BY <1>2 DEF vars, TypeOK, Ix
<1>3. CASE SkipUnrecognized
  BY <1>1, <1>3, AdvanceTypeOK DEF SkipUnrecognized, AtRoot, Skip
<1>4. CASE ParseAmm
  <2> DEFINE out == ParseDex(Ix.program, Ix.ix)
  <2>1. i \in DOMAIN tx /\ j = 0 /\ <<>> \in Seq(RouteType)
    BY <1>4 DEF ParseAmm, AtRoot
  <2>2. out.kind = "swap" => out.label \in Programs
    BY <2>1, RootType, ParseDexOutcome, SwapLabels
  <2>3. \/ Skip \/ Fail \/ Unwind
        \/ /\ out.kind = "swap"
           /\ parsed' = Append(parsed, [at |-> i, program |-> out.label, routes |-> <<>>])
           /\ i' = i + 1
           /\ UNCHANGED <<tx, j, routes, result, report>>
    BY <1>4 DEF ParseAmm
  <2> HIDE DEF out
  <2> QED
    BY <1>1, <2>1, <2>2, <2>3, AdvanceTypeOK, StopTypeOK DEF Skip
<1>5. CASE OpenAggregator
  <2>1. i \in DOMAIN tx /\ j = 0
    BY <1>5 DEF OpenAggregator, AtRoot
  <2>2. CASE Skip \/ Fail
    BY <1>1, <2>1, <2>2, AdvanceTypeOK, StopTypeOK DEF Skip
  <2>3. CASE j' = 1 /\ routes' = <<>> /\ UNCHANGED <<tx, i, parsed, result, report>>
    <3>1. j' <= Len(Ix.legs) + 1 /\ Ix' = Ix
      BY <2>1, <2>3, RootType DEF Ix
    <3> QED
      BY <2>1, <2>3, <3>1 DEF TypeOK
  <2> QED
    BY <1>5, <2>2, <2>3 DEF OpenAggregator
<1>6. CASE SkipLeg
  BY <1>1, <1>6, NextLegTypeOK DEF SkipLeg
<1>7. CASE ParseLeg
  <2> DEFINE out == ParseDex(CurrentLeg.program, CurrentLeg.ix)
  <2>1. i \in DOMAIN tx /\ j \in DOMAIN Ix.legs /\ AtLeg /\ j \in Nat
    BY <1>7 DEF ParseLeg, AtLeg, TypeOK
  <2>2. CurrentLeg.program \in Programs /\ CurrentLeg.ix \in Instruction
    BY <1>7, <2>1, RootType DEF ParseLeg, IsLeg, CurrentLeg
  <2>3. out.kind = "swap" => out.label \in Programs
    BY <2>2, ParseDexOutcome, SwapLabels
  <2>4. \/ Fail \/ Unwind
        \/ AddRoute(FALSE, CurrentLeg.program)
        \/ out.kind = "swap" /\ AddRoute(TRUE, out.label)
    BY <1>7 DEF ParseLeg
  <2> HIDE DEF out
  <2>5. ASSUME NEW d \in BOOLEAN, NEW p \in Programs, AddRoute(d, p) PROVE TypeOK'
    <3>1. [at |-> j, decoded |-> d, program |-> p] \in RouteType
      BY <2>1 DEF RouteType
    <3>2. routes' \in Seq(RouteType)
      BY <1>1, <2>5, <3>1 DEF AddRoute
    <3> QED
      BY <2>1, <2>5, <3>2, NextLegTypeOK DEF AddRoute
  <2> QED
    BY <2>1, <2>2, <2>3, <2>4, <2>5, StopTypeOK
<1>8. CASE CloseAggregator
  <2>1. i \in DOMAIN tx /\ Ix.program \in Programs /\ <<>> \in Seq(RouteType)
    BY <1>8 DEF CloseAggregator, TypeOK, Inside, Programs
  <2> QED
    BY <1>1, <1>8, <2>1, AdvanceTypeOK DEF CloseAggregator
<1>9. CASE Return
  BY <1>9 DEF Return, TypeOK, Ix
<1> QED
  BY <1>2, <1>3, <1>4, <1>5, <1>6, <1>7, <1>8, <1>9 DEF Next, Ended

\* For every transaction every variable keeps its type: the cursors never leave
\* the instructions and the legs (parse.rs).
THEOREM TypeCorrect == Spec => []TypeOK
<1>1. Init => Inside
  BY DEF Init, Inside
<1> QED
  BY <1>1, StepInside, InitTypeOK, StepTypeOK, PTL DEF Spec

--------------------------------------------------------------------------------
(* Lists of places: the output, and the routes of an aggregator *)

\* s names each place in S once, in order.
Lists(s, S) ==
    /\ {s[m].at : m \in DOMAIN s} = S
    /\ \A m \in 2 .. Len(s) : s[m - 1].at < s[m].at

LEMMA ListsAppend ==
    ASSUME NEW T, NEW s \in Seq(T), NEW e \in T, NEW S, Lists(s, S), \A n \in S : n < e.at
    PROVE  Lists(Append(s, e), S \cup {e.at})
<1> DEFINE t == Append(s, e)
<1>1. /\ Len(s) \in Nat /\ DOMAIN s = 1 .. Len(s)
      /\ Len(t) = Len(s) + 1 /\ DOMAIN t = DOMAIN s \cup {Len(s) + 1}
      /\ \A m \in DOMAIN s : t[m] = s[m]
      /\ t[Len(s) + 1] = e
  OBVIOUS
<1> HIDE DEF t
<1>2. {t[m].at : m \in DOMAIN t} = {s[m].at : m \in DOMAIN s} \cup {e.at}
  BY <1>1
<1>3. ASSUME NEW m \in 2 .. Len(t) PROVE t[m - 1].at < t[m].at
  <2>1. CASE m = Len(s) + 1
    <3>1. m - 1 \in DOMAIN s /\ t[m - 1] = s[m - 1] /\ t[m] = e
      BY <1>1, <2>1
    <3> QED
      BY <3>1 DEF Lists
  <2>2. CASE m # Len(s) + 1
    <3>1. m \in 2 .. Len(s) /\ t[m - 1] = s[m - 1] /\ t[m] = s[m]
      BY <1>1, <2>2
    <3> QED
      BY <3>1 DEF Lists
  <2> QED
    BY <2>1, <2>2
<1> QED
  BY <1>2, <1>3 DEF Lists, t

LEMMA ListsNothing == Lists(<<>>, {})
BY DEF Lists

--------------------------------------------------------------------------------
(* The verdict on a root instruction *)

Bad == {"error", "panic"}

LEMMA VerdictOfAmm ==
    ASSUME NEW root, root.program \in Amms
    PROVE  Verdict(root) = ParseDex(root.program, root.ix).kind
BY DEF Verdict

LEMMA VerdictOfOther ==
    ASSUME NEW root, root.program \notin Amms \cup Aggregators
    PROVE  Verdict(root) = "none"
BY DEF Verdict

LEMMA AggregatorsAreNoAmms == Aggregators \cap Amms = {}
BY DEF Aggregators, Amms, BasicAmms, PropAmms

LEMMA VerdictOfOpening ==
    ASSUME NEW root, root.program \in Aggregators, Opening(root) # "open"
    PROVE  Verdict(root) = Opening(root)
<1>1. root.program \notin Amms
  BY AggregatorsAreNoAmms
<1> QED
  BY <1>1 DEF Verdict

LEMMA VerdictOfGoodLegs ==
    ASSUME NEW root, root.program \in Aggregators, Opening(root) = "open",
           \A n \in DOMAIN root.legs : LegOutcome(root.program, root.legs[n]) \notin Bad
    PROVE  Verdict(root) = "swap"
BY AggregatorsAreNoAmms DEF Verdict, Bad

\* The first leg to go wrong decides.
LEMMA VerdictOfBadLeg ==
    ASSUME NEW root, root.program \in Aggregators, Opening(root) = "open",
           DOMAIN root.legs \subseteq Nat,
           NEW n \in DOMAIN root.legs, LegOutcome(root.program, root.legs[n]) \in Bad,
           \A o \in DOMAIN root.legs :
             o < n => LegOutcome(root.program, root.legs[o]) \notin Bad
    PROVE  Verdict(root) = LegOutcome(root.program, root.legs[n])
<1> DEFINE outcome(o) == LegOutcome(root.program, root.legs[o])
           bad == {o \in DOMAIN root.legs : outcome(o) \in Bad}
           first == CHOOSE m \in bad : \A o \in bad : m <= o
<1>1. n \in bad /\ \A o \in bad : n <= o
  OBVIOUS
<1>2. first \in bad /\ \A o \in bad : first <= o
  BY <1>1
<1>3. first = n
  <2> HIDE DEF first
  <2> QED
    BY <1>1, <1>2
<1>4. Verdict(root) = outcome(first)
  BY <1>1, AggregatorsAreNoAmms DEF Verdict, Bad
<1> QED
  BY <1>3, <1>4

LEMMA OpeningOutcome == \A root \in Root : Opening(root) \in {"none", "open", "error"}
<1> TAKE root \in Root
<1>1. \A positions, then : then \in {"none", "open", "error"} =>
        Peek(root, positions, then) \in {"none", "open", "error"}
  BY DEF Peek
<1>2. JupV6(root) \in {"none", "open", "error"}
  <2> DEFINE read == CASE root.events = "garbled" -> "error"
                       [] root.events = "none"    -> "none"
                       [] root.events = "some"    -> "open"
  <2>1. read \in {"none", "open", "error"}
    BY DEF Root
  <2> HIDE DEF read
  <2> DEFINE user == CASE root.ix.op = "swap"      -> {1}
                       [] root.ix.op = "swap_v2"   -> {0}
                       [] root.ix.op = "shared"    -> {2}
                       [] root.ix.op = "shared_v2" -> {1}
                       [] OTHER                    -> {}
  <2>2. JupV6(root) = IF user = {} THEN "none" ELSE Peek(root, user, read)
    BY Zenon DEF JupV6, read
  <2> HIDE DEF user
  <2> QED
    BY <1>1, <2>1, <2>2
<1>3. /\ DflowAgg(root) \in {"none", "open", "error"}
      /\ OKXDexRouter2(root) \in {"none", "open", "error"}
      /\ TitanExchangeRouter(root) \in {"none", "open", "error"}
      /\ AxiomTrade(root) \in {"none", "open", "error"}
  BY <1>1 DEF DflowAgg, OKXDexRouter2, TitanExchangeRouter, AxiomTrade
<1> QED
  BY <1>2, <1>3 DEF Opening

--------------------------------------------------------------------------------
(* The inductive invariant: how far the walk has come *)

\* rs are the routes of root's first n legs.
RoutesOf(root, rs, n) ==
    /\ Lists(rs, {l \in 1 .. n : IsLeg(root.program, root.legs[l])})
    /\ \A r \in DOMAIN rs :
         rs[r].decoded <=> LegOutcome(root.program, root.legs[rs[r].at]) = "swap"

\* the legs that the walk is past
LegsPassed ==
    j # 0 => /\ RoutesOf(Ix, routes, j - 1)
             /\ \A n \in 1 .. j - 1 : LegOutcome(Ix.program, Ix.legs[n]) \notin Bad

\* the root instructions that it is past
RootsPassed ==
    /\ \A n \in 1 .. i - 1 : Verdict(tx[n]) \notin Bad
    /\ Lists(parsed, {n \in 1 .. i - 1 : Verdict(tx[n]) = "swap"})
    /\ \A m \in DOMAIN parsed :
         LET root == tx[parsed[m].at]
         IN  root.program \in Aggregators => RoutesOf(root, parsed[m].routes, Len(root.legs))

\* and where it stopped
Stopped ==
    /\ result = "ok" => i = Len(tx) + 1
    /\ result \in Bad =>
         /\ i \in DOMAIN tx
         /\ j = 0 => \/ Ix.program \in Amms /\ ParseDex(Ix.program, Ix.ix).kind = result
                     \/ Ix.program \in Aggregators /\ Opening(Ix) = result
         /\ j # 0 => j \in DOMAIN Ix.legs /\ LegOutcome(Ix.program, CurrentLeg) = result

WalkInv == TypeOK /\ Inside /\ LegsPassed /\ RootsPassed /\ Stopped

LEMMA InitWalkInv == Init => WalkInv
<1> SUFFICES ASSUME Init PROVE WalkInv
  OBVIOUS
<1>1. TypeOK
  BY InitTypeOK
<1>2. i = 1 /\ j = 0 /\ parsed = <<>> /\ result = "running"
  BY DEF Init
<1>3. {n \in 1 .. i - 1 : Verdict(tx[n]) = "swap"} = {} /\ 1 .. i - 1 = {}
  BY <1>2
<1>4. RootsPassed
  BY <1>2, <1>3, ListsNothing DEF RootsPassed
<1> QED
  BY <1>1, <1>2, <1>4 DEF WalkInv, Inside, LegsPassed, Stopped, Bad

\* Past a root instruction that is no swap.
LEMMA SkipWalkInv ==
    ASSUME WalkInv, AtRoot, Skip, Verdict(Ix) = "none"
    PROVE  LegsPassed' /\ RootsPassed' /\ Stopped'
<1>1. i \in Nat \ {0} /\ i \in DOMAIN tx /\ j = 0 /\ result = "running" /\ Ix = tx[i]
  BY RootType DEF AtRoot, WalkInv, Ix
<1>2. 1 .. i' - 1 = (1 .. i - 1) \cup {i} /\ i' = i + 1 /\ tx' = tx /\ parsed' = parsed
  BY <1>1 DEF Skip
<1>3. {n \in 1 .. i' - 1 : Verdict(tx[n]) = "swap"} = {n \in 1 .. i - 1 : Verdict(tx[n]) = "swap"}
  BY <1>1, <1>2
<1>4. \A n \in 1 .. i' - 1 : Verdict(tx[n]) \notin Bad
  BY <1>1, <1>2 DEF WalkInv, RootsPassed, Bad
<1>5. RootsPassed'
  BY <1>2, <1>3, <1>4 DEF WalkInv, RootsPassed
<1> QED
  BY <1>1, <1>5 DEF LegsPassed, Stopped, Skip, Bad

\* Past one that is, with its routes.
LEMMA EmitWalkInv ==
    ASSUME WalkInv, i \in DOMAIN tx, result = "running", Verdict(Ix) = "swap",
           i' = i + 1, j' = 0, tx' = tx, result' = result,
           NEW p \in Programs, NEW rs \in Seq(RouteType),
           parsed' = Append(parsed, [at |-> i, program |-> p, routes |-> rs]),
           Ix.program \in Aggregators => RoutesOf(Ix, rs, Len(Ix.legs))
    PROVE  LegsPassed' /\ RootsPassed' /\ Stopped'
<1> DEFINE T == [at : Nat, program : Programs, routes : Seq(RouteType)]
           swap == [at |-> i, program |-> p, routes |-> rs]
           S == {n \in 1 .. i - 1 : Verdict(tx[n]) = "swap"}
<1>1. i \in Nat \ {0} /\ Ix = tx[i] /\ TypeOK
  BY RootType DEF WalkInv, Ix
<1>2. 1 .. i' - 1 = (1 .. i - 1) \cup {i}
  BY <1>1
<1>3. swap \in T /\ swap.at = i /\ swap.routes = rs /\ parsed \in Seq(T)
  BY <1>1 DEF TypeOK, RouteType
<1>4. Lists(parsed, S) /\ \A n \in S : n < i
  BY <1>1 DEF WalkInv, RootsPassed
<1>5. {n \in 1 .. i' - 1 : Verdict(tx[n]) = "swap"} = S \cup {i}
  BY <1>1, <1>2
<1> HIDE DEF T, swap, S
<1>6. Lists(Append(parsed, swap), S \cup {i})
  BY <1>3, <1>4, ListsAppend
<1>7. parsed' = Append(parsed, swap)
  BY DEF swap
<1>8. \A n \in 1 .. i' - 1 : Verdict(tx[n]) \notin Bad
  BY <1>1, <1>2 DEF WalkInv, RootsPassed, Bad
<1>9. ASSUME NEW m \in DOMAIN parsed'
      PROVE  LET root == tx[parsed'[m].at]
             IN  root.program \in Aggregators => RoutesOf(root, parsed'[m].routes, Len(root.legs))
  <2>1. (m \in DOMAIN parsed /\ parsed'[m] = parsed[m]) \/ parsed'[m] = swap
    BY <1>3, <1>7, <1>9
  <2> QED
    BY <1>1, <1>3, <2>1 DEF WalkInv, RootsPassed
<1>10. RootsPassed'
  BY <1>5, <1>6, <1>7, <1>8, <1>9 DEF RootsPassed
<1> QED
  BY <1>10 DEF LegsPassed, Stopped, Bad

\* Stopped by what is wrong with a root instruction, or with the current leg.
LEMMA StopWalkInv ==
    ASSUME WalkInv, Fail \/ Unwind, result = "running", i \in DOMAIN tx,
           j = 0 => \/ Ix.program \in Amms /\ ParseDex(Ix.program, Ix.ix).kind = result'
                    \/ Ix.program \in Aggregators /\ Opening(Ix) = result',
           j # 0 => j \in DOMAIN Ix.legs /\ LegOutcome(Ix.program, CurrentLeg) = result'
    PROVE  LegsPassed' /\ RootsPassed' /\ Stopped'
<1>1. UNCHANGED <<tx, i, j, routes, parsed>> /\ result' \in Bad
  BY DEF Fail, Unwind, Bad
<1>2. Ix' = Ix /\ CurrentLeg' = CurrentLeg
  BY <1>1 DEF Ix, CurrentLeg
<1>3. LegsPassed' /\ RootsPassed'
  BY <1>1, <1>2 DEF WalkInv, LegsPassed, RootsPassed
<1> QED
  BY <1>1, <1>2, <1>3 DEF Stopped, Bad

\* Past a leg that is no leg.
LEMMA SkipLegWalkInv ==
    ASSUME WalkInv, SkipLeg PROVE LegsPassed' /\ RootsPassed' /\ Stopped'
<1>1. /\ j \in Nat /\ j # 0 /\ j \in DOMAIN Ix.legs /\ ~IsLeg(Ix.program, Ix.legs[j])
      /\ j' = j + 1 /\ UNCHANGED <<tx, i, routes, parsed, result, report>> /\ Ix' = Ix
      /\ result = "running"
  BY DEF WalkInv, TypeOK, SkipLeg, AtLeg, CurrentLeg, Ix
<1>2. 1 .. j' - 1 = (1 .. j - 1) \cup {j} /\ j' # 0
  BY <1>1
<1>3. {l \in 1 .. j' - 1 : IsLeg(Ix.program, Ix.legs[l])} =
      {l \in 1 .. j - 1 : IsLeg(Ix.program, Ix.legs[l])}
  BY <1>1, <1>2
<1>4. LegOutcome(Ix.program, Ix.legs[j]) \notin Bad
  BY <1>1 DEF LegOutcome, Bad
<1>5. LegsPassed'
  BY <1>1, <1>2, <1>3, <1>4 DEF WalkInv, LegsPassed, RoutesOf
<1>6. RootsPassed'
  BY <1>1 DEF WalkInv, RootsPassed
<1> QED
  BY <1>1, <1>5, <1>6 DEF Stopped, Bad

\* Past a leg that becomes a route.
LEMMA AddRouteWalkInv ==
    ASSUME WalkInv, AtLeg, IsLeg(Ix.program, CurrentLeg),
           NEW d \in BOOLEAN, NEW p \in Programs, AddRoute(d, p),
           LegOutcome(Ix.program, CurrentLeg) \notin Bad,
           d <=> LegOutcome(Ix.program, CurrentLeg) = "swap"
    PROVE  LegsPassed' /\ RootsPassed' /\ Stopped'
<1> DEFINE route == [at |-> j, decoded |-> d, program |-> p]
           S == {l \in 1 .. j - 1 : IsLeg(Ix.program, Ix.legs[l])}
<1>1. /\ j \in Nat /\ j # 0 /\ j \in DOMAIN Ix.legs /\ CurrentLeg = Ix.legs[j]
      /\ j' = j + 1 /\ UNCHANGED <<tx, i, parsed, result, report>> /\ Ix' = Ix
      /\ routes' = Append(routes, route) /\ result = "running"
  BY DEF WalkInv, TypeOK, AddRoute, AtLeg, CurrentLeg, Ix
<1>2. 1 .. j' - 1 = (1 .. j - 1) \cup {j} /\ j' # 0
  BY <1>1
<1>3. route \in RouteType /\ route.at = j /\ (route.decoded <=> d) /\ routes \in Seq(RouteType)
  BY <1>1 DEF RouteType, WalkInv, TypeOK
<1>4. {l \in 1 .. j' - 1 : IsLeg(Ix.program, Ix.legs[l])} = S \cup {j}
  BY <1>1, <1>2
<1>5. Lists(routes, S) /\ \A n \in S : n < j
  BY <1>1 DEF WalkInv, LegsPassed, RoutesOf
<1> HIDE DEF route, S
<1>6. Lists(routes', S \cup {j})
  BY <1>1, <1>3, <1>5, ListsAppend
<1>7. ASSUME NEW r \in DOMAIN routes'
      PROVE  routes'[r].decoded <=> LegOutcome(Ix.program, Ix.legs[routes'[r].at]) = "swap"
  <2>1. (r \in DOMAIN routes /\ routes'[r] = routes[r]) \/ routes'[r] = route
    BY <1>1, <1>3, <1>7
  <2>2. CASE r \in DOMAIN routes /\ routes'[r] = routes[r]
    BY <1>1, <2>2 DEF WalkInv, LegsPassed, RoutesOf
  <2>3. CASE routes'[r] = route
    BY <1>1, <1>3, <2>3
  <2> QED
    BY <2>1, <2>2, <2>3
<1>8. RoutesOf(Ix, routes, j - 1)'
  BY <1>1, <1>4, <1>6, <1>7 DEF RoutesOf
<1>9. \A n \in 1 .. j' - 1 : LegOutcome(Ix.program, Ix.legs[n]) \notin Bad
  BY <1>1, <1>2 DEF WalkInv, LegsPassed
<1>10. LegsPassed'
  BY <1>1, <1>8, <1>9 DEF LegsPassed
<1>11. RootsPassed'
  BY <1>1 DEF WalkInv, RootsPassed
<1> QED
  BY <1>1, <1>10, <1>11 DEF Stopped, Bad

LEMMA StepWalkInv == WalkInv /\ [Next]_vars => WalkInv'
<1> SUFFICES ASSUME WalkInv, [Next]_vars PROVE WalkInv'
  OBVIOUS
<1>1. TypeOK' /\ Inside'
  BY StepTypeOK, StepInside DEF WalkInv
<1>2. TypeOK /\ Inside
  BY DEF WalkInv
<1> SUFFICES LegsPassed' /\ RootsPassed' /\ Stopped'
  BY <1>1 DEF WalkInv
<1>3. CASE UNCHANGED vars
  BY <1>3 DEF vars, WalkInv, LegsPassed, RootsPassed, Stopped, Ix, CurrentLeg
<1>4. CASE SkipUnrecognized
  BY <1>4, SkipWalkInv, VerdictOfOther DEF SkipUnrecognized
<1>5. CASE ParseAmm
  <2> DEFINE out == ParseDex(Ix.program, Ix.ix)
  <2>1. /\ i \in DOMAIN tx /\ j = 0 /\ result = "running" /\ AtRoot
        /\ Ix.program \in Amms /\ <<>> \in Seq(RouteType)
    BY <1>5 DEF ParseAmm, AtRoot
  <2>2. Verdict(Ix) = out.kind /\ Ix.program \notin Aggregators
    BY <2>1, VerdictOfAmm, AggregatorsAreNoAmms
  <2>3. out.kind = "swap" => out.label \in Programs
    BY <1>2, <2>1, RootType, ParseDexOutcome, SwapLabels
  <2>4. CASE /\ out.kind = "swap"
             /\ parsed' = Append(parsed, [at |-> i, program |-> out.label, routes |-> <<>>])
             /\ i' = i + 1
             /\ UNCHANGED <<tx, j, routes, result, report>>
    <3> HIDE DEF out
    <3> QED
      BY <2>1, <2>2, <2>3, <2>4, EmitWalkInv
  <2>5. CASE out.kind = "none" /\ Skip
    BY <2>1, <2>2, <2>5, SkipWalkInv
  <2>6. CASE (out.kind = "error" /\ Fail) \/ (out.kind = "panic" /\ Unwind)
    <3>1. result' = out.kind
      BY <2>6 DEF Fail, Unwind
    <3> QED
      BY <2>1, <2>6, <3>1, StopWalkInv
  <2> QED
    BY <1>5, <2>4, <2>5, <2>6 DEF ParseAmm
<1>6. CASE OpenAggregator
  <2>1. AtRoot /\ i \in DOMAIN tx /\ j = 0 /\ result = "running" /\ Ix.program \in Aggregators
    BY <1>6 DEF OpenAggregator, AtRoot
  <2>2. CASE Opening(Ix) = "none" /\ Skip
    BY <2>1, <2>2, SkipWalkInv, VerdictOfOpening
  <2>3. CASE Opening(Ix) = "error" /\ Fail
    BY <2>1, <2>3, StopWalkInv DEF Fail
  <2>4. CASE j' = 1 /\ routes' = <<>> /\ UNCHANGED <<tx, i, parsed, result, report>>
    <3>1. Ix' = Ix /\ 1 .. j' - 1 = {}
      BY <2>4 DEF Ix
    <3>2. {l \in 1 .. j' - 1 : IsLeg(Ix.program, Ix.legs[l])} = {}
      BY <3>1
    <3>3. LegsPassed'
      BY <2>4, <3>1, <3>2, ListsNothing DEF LegsPassed, RoutesOf
    <3>4. RootsPassed'
      BY <2>4 DEF WalkInv, RootsPassed
    <3> QED
      BY <2>1, <2>4, <3>3, <3>4 DEF Stopped, Bad
  <2> QED
    BY <1>6, <2>2, <2>3, <2>4 DEF OpenAggregator
<1>7. CASE SkipLeg
  BY <1>7, SkipLegWalkInv
<1>8. CASE ParseLeg
  <2> DEFINE out == ParseDex(CurrentLeg.program, CurrentLeg.ix)
  <2>1. /\ AtLeg /\ IsLeg(Ix.program, CurrentLeg) /\ i \in DOMAIN tx /\ j \in DOMAIN Ix.legs
        /\ j # 0 /\ result = "running"
    BY <1>2, <1>8 DEF ParseLeg, AtLeg, TypeOK
  <2>2. CurrentLeg.program \in Programs /\ CurrentLeg.ix \in Instruction
    BY <1>2, <2>1, RootType DEF IsLeg, CurrentLeg
  <2>3. out.kind = "swap" => out.label \in Programs
    BY <2>2, ParseDexOutcome, SwapLabels
  <2>4. LegOutcome(Ix.program, CurrentLeg) = out.kind
    BY <2>1 DEF LegOutcome
  <2>5. CASE (out.kind = "error" /\ Fail) \/ (out.kind = "panic" /\ Unwind)
    <3>1. result' = out.kind
      BY <2>5 DEF Fail, Unwind
    <3> QED
      BY <2>1, <2>4, <2>5, <3>1, StopWalkInv
  <2>6. CASE out.kind = "swap" /\ AddRoute(TRUE, out.label)
    <3> HIDE DEF out
    <3> QED
      BY <2>1, <2>3, <2>4, <2>6, AddRouteWalkInv DEF Bad
  <2>7. CASE out.kind = "none" /\ AddRoute(FALSE, CurrentLeg.program)
    <3> HIDE DEF out
    <3> QED
      BY <2>1, <2>2, <2>4, <2>7, AddRouteWalkInv DEF Bad
  <2> QED
    BY <1>8, <2>5, <2>6, <2>7 DEF ParseLeg
<1>9. CASE CloseAggregator
  <2>1. /\ i \in DOMAIN tx /\ j # 0 /\ j \notin DOMAIN Ix.legs /\ result = "running"
        /\ i' = i + 1 /\ j' = 0 /\ tx' = tx /\ result' = result
        /\ parsed' = Append(parsed, [at |-> i, program |-> Ix.program, routes |-> routes])
    BY <1>2, <1>9 DEF CloseAggregator, TypeOK
  <2>2. j - 1 = Len(Ix.legs) /\ DOMAIN Ix.legs = 1 .. Len(Ix.legs)
    BY <1>2, <2>1, RootType DEF TypeOK
  <2>3. Ix.program \in Aggregators /\ Opening(Ix) = "open" /\ Ix.program \in Programs
    BY <1>2, <2>1 DEF Inside, Programs
  <2>4. Verdict(Ix) = "swap"
    BY <2>1, <2>2, <2>3, VerdictOfGoodLegs DEF WalkInv, LegsPassed
  <2>5. RoutesOf(Ix, routes, Len(Ix.legs)) /\ routes \in Seq(RouteType)
    BY <1>2, <2>1, <2>2 DEF WalkInv, LegsPassed, TypeOK, RouteType
  <2> QED
    BY <2>1, <2>3, <2>4, <2>5, EmitWalkInv
<1>10. CASE Return
  <2>1. /\ UNCHANGED <<tx, i, j, routes, parsed, report>> /\ j = 0
        /\ result' = "ok" /\ i = Len(tx) + 1
    BY <1>2, <1>10 DEF Return, TypeOK
  <2>2. Ix' = Ix
    BY <2>1 DEF Ix
  <2> QED
    BY <2>1, <2>2 DEF WalkInv, LegsPassed, RootsPassed, Stopped, Bad
<1> QED
  BY <1>3, <1>4, <1>5, <1>6, <1>7, <1>8, <1>9, <1>10 DEF Next, Ended

LEMMA WalkInvariant == Spec => []WalkInv
BY InitWalkInv, StepWalkInv, PTL DEF Spec

--------------------------------------------------------------------------------
(* What it is for *)

LEMMA WalkInvOutput == WalkInv => OutputIsPerInstruction
<1> SUFFICES ASSUME WalkInv PROVE OutputIsPerInstruction
  OBVIOUS
<1> DEFINE verdicts == [n \in DOMAIN tx |-> Verdict(tx[n])]
           bad == {n \in DOMAIN tx : verdicts[n] \in {"error", "panic"}}
           swaps == {n \in DOMAIN tx : verdicts[n] = "swap"}
<1>1. Len(tx) \in Nat /\ DOMAIN tx = 1 .. Len(tx) /\ i \in 1 .. Len(tx) + 1
  BY DEF WalkInv, TypeOK
<1>2. \A n \in DOMAIN tx : verdicts[n] = Verdict(tx[n])
  OBVIOUS
<1> HIDE DEF verdicts
<1>3. ASSUME result = "ok"
      PROVE  /\ bad = {}
             /\ {parsed[m].at : m \in DOMAIN parsed} = swaps
             /\ \A m \in 2 .. Len(parsed) : parsed[m - 1].at < parsed[m].at
  <2>1. 1 .. i - 1 = DOMAIN tx
    BY <1>1, <1>3 DEF WalkInv, Stopped
  <2>2. swaps = {n \in 1 .. i - 1 : Verdict(tx[n]) = "swap"}
    BY <1>2, <2>1
  <2>3. bad = {}
    BY <1>2, <2>1 DEF WalkInv, RootsPassed, Bad
  <2> QED
    BY <2>2, <2>3 DEF WalkInv, RootsPassed, Lists
<1>4. ASSUME result \in Bad
      PROVE  i \in bad /\ verdicts[i] = result /\ \A n \in bad : i <= n
  <2>1. i \in DOMAIN tx /\ Ix = tx[i] /\ TypeOK /\ Inside
    BY <1>4 DEF WalkInv, Stopped, Ix
  <2>2. Verdict(Ix) = result
    <3>1. CASE j = 0
      BY <1>4, <3>1, VerdictOfAmm, VerdictOfOpening DEF WalkInv, Stopped, Bad
    <3>2. CASE j # 0
      <4>1. /\ Ix.program \in Aggregators /\ Opening(Ix) = "open"
            /\ j \in DOMAIN Ix.legs /\ LegOutcome(Ix.program, Ix.legs[j]) = result
        BY <1>4, <2>1, <3>2 DEF WalkInv, Stopped, Inside, CurrentLeg
      <4>2. DOMAIN Ix.legs = 1 .. Len(Ix.legs) /\ Len(Ix.legs) \in Nat
        BY <2>1, RootType
      <4>3. \A o \in DOMAIN Ix.legs : o < j => LegOutcome(Ix.program, Ix.legs[o]) \notin Bad
        BY <3>2, <4>1, <4>2 DEF WalkInv, LegsPassed
      <4> HIDE DEF verdicts
      <4> QED
        BY <1>4, <4>1, <4>2, <4>3, VerdictOfBadLeg
    <3> QED
      BY <3>1, <3>2
  <2>3. i \in bad /\ verdicts[i] = result
    BY <1>2, <1>4, <2>1, <2>2 DEF Bad
  <2>4. ASSUME NEW n \in bad PROVE i <= n
    <3>1. n \in DOMAIN tx /\ Verdict(tx[n]) \in Bad
      BY <1>2 DEF Bad
    <3>2. n \notin 1 .. i - 1
      BY <3>1 DEF WalkInv, RootsPassed
    <3> QED
      BY <1>1, <3>1, <3>2
  <2> QED
    BY <2>3, <2>4
<1> QED
  BY <1>3, <1>4 DEF OutputIsPerInstruction, verdicts, Bad

\* However long the transaction, it is judged as if every root instruction were
\* judged alone, in order: parse_transaction's collect() (parse.rs) drops
\* nothing but what follows the first error.
THEOREM OutputPerInstruction == Spec => []OutputIsPerInstruction
BY WalkInvariant, WalkInvOutput, PTL

LEMMA WalkInvRoutes == WalkInv => RoutesAreLegs
<1> SUFFICES ASSUME WalkInv, NEW m \in DOMAIN parsed, tx[parsed[m].at].program \in Aggregators
             PROVE  LET root == tx[parsed[m].at]
                        legs == {n \in DOMAIN root.legs : IsLeg(root.program, root.legs[n])}
                        rs   == parsed[m].routes
                    IN  /\ {rs[r].at : r \in DOMAIN rs} = legs
                        /\ \A r \in DOMAIN rs :
                             /\ r > 1 => rs[r - 1].at < rs[r].at
                             /\ rs[r].decoded <=>
                                  LegOutcome(root.program, root.legs[rs[r].at]) = "swap"
  BY DEF RoutesAreLegs
<1> DEFINE root == tx[parsed[m].at]
           rs == parsed[m].routes
<1>1. parsed[m].at \in DOMAIN tx
  <2>1. parsed[m].at \in 1 .. i - 1
    BY DEF WalkInv, RootsPassed, Lists
  <2> QED
    BY <2>1 DEF WalkInv, TypeOK
<1>2. DOMAIN root.legs = 1 .. Len(root.legs)
  <2>1. root \in Root
    BY <1>1 DEF WalkInv, TypeOK
  <2> QED
    BY <2>1 DEF Root
<1>3. RoutesOf(root, rs, Len(root.legs))
  BY DEF WalkInv, RootsPassed
<1>4. Len(rs) \in Nat /\ DOMAIN rs = 1 .. Len(rs)
  BY DEF WalkInv, TypeOK
<1>5. ASSUME NEW r \in DOMAIN rs, r > 1 PROVE rs[r - 1].at < rs[r].at
  <2>1. r \in 2 .. Len(rs)
    BY <1>4, <1>5
  <2> QED
    BY <1>3, <2>1 DEF RoutesOf, Lists
<1> QED
  BY <1>2, <1>3, <1>5 DEF RoutesOf, Lists

\* However many legs an aggregator calls, its routes are its legs in the order
\* they ran, and count as decoded with a swap only (aggregator_routes).
THEOREM RoutesOfLegs == Spec => []RoutesAreLegs
BY WalkInvariant, WalkInvRoutes, PTL

\* What stopped the walk, if it was not a recognised root instruction itself.
LEMMA StoppedBy ==
    ASSUME WalkInv, result \in Bad
    PROVE  LET at == IF j = 0 THEN Ix ELSE CurrentLeg
           IN  /\ at.ix \in Instruction
               /\ \/ ParseDex(at.program, at.ix).kind = result
                  \/ at.program \in Aggregators /\ result = "error"
<1>1. TypeOK /\ i \in DOMAIN tx
  BY DEF WalkInv, Stopped
<1>2. CASE j = 0
  BY <1>1, <1>2, RootType, OpeningOutcome DEF WalkInv, Stopped, Bad
<1>3. CASE j # 0
  <2>1. j \in DOMAIN Ix.legs /\ LegOutcome(Ix.program, CurrentLeg) = result
    BY <1>3 DEF WalkInv, Stopped
  <2> QED
    BY <1>1, <1>3, <2>1, RootType DEF LegOutcome, CurrentLeg, Bad
<1> QED
  BY <1>2, <1>3

\* For every transaction, an error or a panic comes from a program that is
\* recognised, and an error never from an update of a proprietary AMM's that
\* moves no tokens; it can still panic, as PanicsAreMisreads says.
THEOREM OnlySwapsStop == Spec => []OnlySwapsFail
<1>1. WalkInv => OnlySwapsFail
  <2> SUFFICES ASSUME WalkInv, result \in Bad PROVE OnlySwapsFail
    BY DEF OnlySwapsFail, Bad
  <2> DEFINE at == IF j = 0 THEN Ix ELSE CurrentLeg
  <2>1. /\ at.ix \in Instruction
        /\ \/ ParseDex(at.program, at.ix).kind = result
           \/ at.program \in Aggregators
    BY StoppedBy
  <2> HIDE DEF at
  <2>2. CASE ParseDex(at.program, at.ix).kind = result
    BY <2>1, <2>2, ParseDexOutcome DEF OnlySwapsFail, Bad, at
  <2>3. CASE at.program \in Aggregators
    <3>1. at.program \notin PropAmms \cup {"SolFi"}
      BY <2>3 DEF Aggregators, PropAmms
    <3> QED
      BY <2>3, <3>1 DEF OnlySwapsFail, at
  <2> QED
    BY <2>1, <2>2, <2>3
<1> QED
  BY <1>1, WalkInvariant, PTL

\* A parser panics, whichever of the 31 it is, over an account it is not given,
\* over an empty ray_log, or over too many decimals, and over nothing else.
THEOREM PanicsAreMisreads == Spec => []OnlyMisreadsPanic
<1>1. WalkInv => OnlyMisreadsPanic
  BY StoppedBy, ParseDexOutcome DEF OnlyMisreadsPanic, Misread, Bad
<1> QED
  BY <1>1, WalkInvariant, PTL
================================================================================
