---------------------------- MODULE SwapGraphProofs ----------------------------
(***************************************************************************)
(* SwapGraph::swap for every route, every width of the amounts and every   *)
(* dust tolerance: the running balances are exact, the net input is the    *)
(* least capital the route needs, the dust waved through stays within      *)
(* tolerance, and a refusal is justified.                                  *)
(***************************************************************************)
EXTENDS SwapGraph, ProofLemmas, TLAPS

(* Facts about the pieces of an action *)

\* The leg being walked is a swap between two mints of u64 amounts.
LEMMA LegType ==
    ASSUME TypeOK, Walking
    PROVE  /\ Leg \in Swap
           /\ Leg.input_mint \in Mints /\ Leg.output_mint \in Mints
           /\ Leg.input_amount \in Nat /\ Leg.input_amount <= MaxU64
           /\ Leg.output_amount \in Nat /\ Leg.output_amount <= MaxU64
           /\ EntryMint \in Mints /\ ExitMint \in Mints
           /\ i + 1 \in 1 .. Len(swaps) + 1 /\ swaps # <<>>
<1>1. swaps \in Seq(Swap) /\ i \in 1 .. Len(swaps)
  BY SwapGraphAssumption DEF TypeOK, Walking
<1>2. Len(swaps) \in Nat /\ 1 \in 1 .. Len(swaps) /\ Len(swaps) \in 1 .. Len(swaps)
  BY <1>1
<1>3. swaps[i] \in Swap /\ swaps[1] \in Swap /\ swaps[Len(swaps)] \in Swap
  BY <1>1, <1>2
<1>4. i + 1 \in 1 .. Len(swaps) + 1 /\ swaps # <<>>
  BY <1>1, <1>2
<1> QED
  BY <1>3, <1>4, SwapGraphAssumption DEF Leg, EntryMint, ExitMint, Swap, Amounts

\* Take moves only the flow of the leg's input mint.
LEMMA TakeFacts ==
    ASSUME TypeOK, Walking, Take
    PROVE  LET in == Leg.input_mint
               x  == Leg.input_amount
           IN  /\ spent' \in [Mints -> Nat] /\ deficit' \in [Mints -> Nat]
               /\ spent'[in] = spent[in] + x
               /\ deficit'[in] = IF spent'[in] - made[in] > deficit[in]
                                 THEN spent'[in] - made[in] ELSE deficit[in]
               /\ \A m \in Mints : m # in => spent'[m] = spent[m] /\ deficit'[m] = deficit[m]
<1> DEFINE in     == Leg.input_mint
           total  == spent[in] + Leg.input_amount
           lacked == IF total - made[in] > deficit[in] THEN total - made[in] ELSE deficit[in]
<1>1. in \in Mints /\ Leg.input_amount \in Nat
  BY LegType
<1>2. total \in Nat /\ lacked \in Nat
  <2>1. spent[in] \in Nat /\ made[in] \in Nat /\ deficit[in] \in Nat
    BY <1>1 DEF TypeOK
  <2> HIDE DEF in
  <2> QED
    BY <1>1, <2>1
<1>3. /\ spent' = [spent EXCEPT ![in] = total]
      /\ deficit' = [deficit EXCEPT ![in] = IF total - made[in] > @
                                            THEN total - made[in] ELSE @]
  BY DEF Take
<1>4. deficit' = [deficit EXCEPT ![in] = lacked]
  BY <1>1, <1>3 DEF TypeOK
<1> HIDE DEF in, total, lacked
<1>5. /\ spent' \in [Mints -> Nat] /\ deficit' \in [Mints -> Nat]
      /\ spent'[in] = total /\ deficit'[in] = lacked
      /\ \A m \in Mints : m # in => spent'[m] = spent[m] /\ deficit'[m] = deficit[m]
  BY <1>1, <1>2, <1>3, <1>4 DEF TypeOK
<1> QED
  <2>1. spent'[in] = spent[in] + Leg.input_amount
    BY <1>5 DEF total
  <2>2. deficit'[in] = IF spent'[in] - made[in] > deficit[in]
                       THEN spent'[in] - made[in] ELSE deficit[in]
    BY <1>5 DEF lacked
  <2> QED
    BY <1>5, <2>1, <2>2 DEF in

\* Credit adds the leg's output to its mint; a sum past u64 loses tokens, and
\* never makes any.
LEMMA CreditFacts ==
    ASSUME TypeOK, Walking, NEW left \in [Mints -> Amounts], Credit(left)
    PROVE  LET out == Leg.output_mint
               y   == Leg.output_amount
           IN  /\ swaps' = swaps /\ report' = report /\ i' = i + 1
               /\ result' \in {"running", "panic"}
               /\ balance' \in [Mints -> Amounts] /\ made' \in [Mints -> Nat]
               /\ made'[out] = made[out] + y
               /\ \A m \in Mints : m # out => made'[m] = made[m] /\ balance'[m] = left[m]
               /\ balance'[out] <= left[out] + y
               /\ left[out] + y <= MaxU64 =>
                    balance'[out] = left[out] + y /\ result' = "running"
<1> DEFINE out == Leg.output_mint
           y   == Leg.output_amount
           sum == left[out] + y
<1>1. /\ out \in Mints /\ y \in Nat /\ left[out] \in Nat /\ MaxU64 \in Nat
      /\ left[out] <= MaxU64
  BY LegType, SwapGraphAssumption DEF Amounts
<1>2. sum % (MaxU64 + 1) \in Amounts /\ sum % (MaxU64 + 1) <= sum
  BY <1>1 DEF Amounts
<1>3. result = "running"
  BY DEF Walking
<1>4. /\ made' = [made EXCEPT ![out] = @ + y]
      /\ swaps' = swaps /\ report' = report /\ i' = i + 1
  BY DEF Credit
<1>5. made' \in [Mints -> Nat]
  BY <1>1, <1>4 DEF TypeOK
<1>6. \/ sum <= MaxU64 /\ balance' = [left EXCEPT ![out] = sum] /\ result' = "running"
      \/ /\ sum > MaxU64 /\ result' \in {"running", "panic"}
         /\ balance' = [left EXCEPT ![out] = sum % (MaxU64 + 1)] \/ balance' = left
  BY <1>3 DEF Credit
<1> HIDE DEF out, y
<1>7. CASE sum <= MaxU64
  <2>1. balance' = [left EXCEPT ![out] = sum] /\ result' = "running"
    BY <1>1, <1>6, <1>7
  <2>2. sum \in Amounts
    BY <1>1, <1>7 DEF Amounts
  <2> QED
    BY <1>1, <1>4, <1>5, <1>7, <2>1, <2>2 DEF out, y, TypeOK
<1>8. CASE sum > MaxU64
  <2>1. /\ result' \in {"running", "panic"}
        /\ balance' = [left EXCEPT ![out] = sum % (MaxU64 + 1)] \/ balance' = left
    BY <1>1, <1>6, <1>8
  <2>2. balance' \in [Mints -> Amounts] /\ balance'[out] <= sum
    BY <1>1, <1>2, <2>1
  <2> QED
    BY <1>1, <1>4, <1>5, <1>8, <2>1, <2>2 DEF out, y, TypeOK
<1> QED
  BY <1>1, <1>7, <1>8

--------------------------------------------------------------------------------
(* The inductive invariant *)

\* a mint never lacked more than was spent of it, and never less than now
Flow ==
    \A m \in Mints : deficit[m] <= spent[m] /\ spent[m] - made[m] <= deficit[m]

\* even when sums wrapped, no balance is larger than the flows justify
Bound ==
    result # "imbalanced" =>
        \A m \in Mints : balance[m] <= made[m] - spent[m] + deficit[m]

\* While no product saturates, the dust taken of a mint is a share of what was
\* spent of it: what the net swap of an aggregator needs.
DustIsScaled ==
    (result \in {"running", "ok"} /\ swaps # <<>>
        /\ \A m \in Mints : DustBps * spent[m] < MaxU64) =>
        \A m \in Mints \ {EntryMint} : BpsScale * deficit[m] <= DustBps * spent[m]

GraphInv ==
    /\ TypeOK
    /\ Flow
    /\ Bound
    /\ BalancesConserve
    /\ NetInputIsLeastCapital
    /\ DustStaysSmall
    /\ DustIsScaled
    /\ RefusalIsReal
    /\ NoPanicInRange

\* What the first n legs may lack of a mint grows by what the next may.
LEMMA ToleranceSums ==
    ASSUME swaps \in Seq(Swap), NEW m
    PROVE  /\ Sum(Tolerances(m), 0) = 0
           /\ \A n \in 1 .. Len(swaps) :
                /\ Tolerances(m)[n] \in Nat
                /\ Tolerances(m)[n] = IF swaps[n].input_mint = m
                                      THEN Tolerance(swaps[n]) ELSE 0
                /\ Sum(Tolerances(m), n) = Sum(Tolerances(m), n - 1) + Tolerances(m)[n]
           /\ \A n \in 0 .. Len(swaps) : Sum(Tolerances(m), n) \in Nat
<1> DEFINE f == Tolerances(m)
<1>1. /\ Len(swaps) \in Nat /\ DOMAIN swaps = 1 .. Len(swaps)
      /\ \A n \in 1 .. Len(swaps) : swaps[n] \in Swap
  OBVIOUS
<1>2. \A n \in 1 .. Len(swaps) :
        f[n] = IF swaps[n].input_mint = m THEN Tolerance(swaps[n]) ELSE 0
  BY <1>1 DEF Tolerances
<1>3. \A n \in 1 .. Len(swaps) : f[n] \in Nat
  <2> SUFFICES ASSUME NEW n \in 1 .. Len(swaps) PROVE f[n] \in Nat
    OBVIOUS
  <2>1. swaps[n].input_amount \in Nat
    BY <1>1, SwapGraphAssumption DEF Swap, Amounts
  <2>2. Tolerance(swaps[n]) \in Nat
    BY <2>1, SwapGraphAssumption DEF Tolerance
  <2> QED
    BY <1>2, <2>2
<1>4. f \in [1 .. Len(swaps) -> Nat]
  BY <1>1, <1>3 DEF Tolerances
<1> HIDE DEF f
<1>5. f \in Seq(Nat) /\ Len(f) = Len(swaps)
  BY <1>1, <1>4
<1>6. \A n : Sum(f, n) = RunningSum(f, n)
  BY DEF Sum, RunningSum
<1>7. /\ Sum(f, 0) = 0
      /\ \A n \in 1 .. Len(swaps) : Sum(f, n) = Sum(f, n - 1) + f[n]
      /\ \A n \in 0 .. Len(swaps) : Sum(f, n) \in Nat
  BY <1>5, <1>6, RunningSumFacts
<1> QED
  BY <1>2, <1>3, <1>7 DEF f

LEMMA InitGraphInv == Init => GraphInv
<1> SUFFICES ASSUME Init PROVE GraphInv
  OBVIOUS
<1>1. swaps \in Seq(Swap)
  BY SwapGraphAssumption DEF Init
<1>2. TypeOK
  <2>1. i \in 1 .. Len(swaps) + 1
    BY <1>1 DEF Init
  <2> QED
    BY <1>1, <2>1, SwapGraphAssumption DEF Init, TypeOK, Amounts
<1>3. Flow /\ Bound /\ BalancesConserve /\ RefusalIsReal /\ NoPanicInRange
  BY DEF Init, Flow, Bound, BalancesConserve, RefusalIsReal, NoPanicInRange
<1>4. swaps # <<>> => EntryMint \in Mints
  <2>1. swaps # <<>> => swaps[1] \in Swap
    BY <1>1
  <2> QED
    BY <2>1 DEF EntryMint, Swap
<1>5. NetInputIsLeastCapital
  BY <1>4 DEF Init, NetInputIsLeastCapital
<1>6. DustIsScaled
  <2>1. \A m \in Mints : deficit[m] = 0 /\ spent[m] = 0
    BY DEF Init
  <2>2. BpsScale * 0 <= DustBps * 0
    BY SwapGraphAssumption
  <2> QED
    BY <2>1, <2>2 DEF DustIsScaled
<1>7. DustStaysSmall
  <2>1. \A m \in Mints : Sum(Tolerances(m), 0) = 0
    BY <1>1, ToleranceSums
  <2>2. i - 1 = 0 /\ \A m \in Mints : BpsScale * deficit[m] = 0
    BY SwapGraphAssumption DEF Init
  <2>3. ASSUME NEW m \in Mints PROVE BpsScale * deficit[m] <= Sum(Tolerances(m), i - 1)
    <3>1. BpsScale * deficit[m] = 0 /\ Sum(Tolerances(m), i - 1) = 0
      BY <2>1, <2>2
    <3> QED
      BY <3>1
  <2> QED
    BY <2>3 DEF DustStaysSmall
<1> QED
  BY <1>2, <1>3, <1>5, <1>6, <1>7 DEF GraphInv

\* One leg walked, whichever way its shortfall was met: `met` is what the
\* balance lacked and somebody supplied.
LEMMA Turn ==
    ASSUME GraphInv, Walking, Take,
           NEW left \in [Mints -> Amounts], Credit(left),
           NEW met \in Nat,
           met = IF Shortfall > 0 THEN Shortfall ELSE 0,
           left[Leg.input_mint] = Available + met - Leg.input_amount,
           \A m \in Mints : m # Leg.input_mint => left[m] = balance[m]
    PROVE  /\ Flow' /\ Bound'
           /\ deficit'[Leg.input_mint] <= deficit[Leg.input_mint] + met
           /\ InRange' => /\ InRange /\ result' = "running"
                          /\ deficit'[Leg.input_mint] = deficit[Leg.input_mint] + met
                          /\ \A m \in Mints : balance'[m] = made'[m] - spent'[m] + deficit'[m]
<1> DEFINE in  == Leg.input_mint
           out == Leg.output_mint
           x   == Leg.input_amount
           y   == Leg.output_amount
<1>1. /\ in \in Mints /\ out \in Mints
      /\ x \in Nat /\ y \in Nat /\ MaxU64 \in Nat
  BY LegType, SwapGraphAssumption DEF GraphInv
<1>2. /\ \A m \in Mints : /\ spent[m] \in Nat /\ made[m] \in Nat /\ deficit[m] \in Nat
                          /\ balance[m] \in Nat /\ left[m] \in Nat
      /\ result = "running"
  BY <1>1 DEF GraphInv, TypeOK, Amounts, Walking
<1>3. /\ spent' \in [Mints -> Nat] /\ deficit' \in [Mints -> Nat]
      /\ spent'[in] = spent[in] + x
      /\ deficit'[in] = IF spent'[in] - made[in] > deficit[in]
                        THEN spent'[in] - made[in] ELSE deficit[in]
      /\ \A m \in Mints : m # in => spent'[m] = spent[m] /\ deficit'[m] = deficit[m]
  BY TakeFacts DEF GraphInv
<1>4. /\ balance' \in [Mints -> Amounts] /\ made' \in [Mints -> Nat]
      /\ made'[out] = made[out] + y
      /\ \A m \in Mints : m # out => made'[m] = made[m] /\ balance'[m] = left[m]
      /\ balance'[out] <= left[out] + y
      /\ left[out] + y <= MaxU64 => balance'[out] = left[out] + y /\ result' = "running"
  BY CreditFacts DEF GraphInv
<1>5. /\ met = IF x - balance[in] > 0 THEN x - balance[in] ELSE 0
      /\ left[in] = balance[in] + met - x
      /\ \A m \in Mints : m # in => left[m] = balance[m]
  BY DEF Available, Shortfall
<1>6. \A m \in Mints : /\ deficit[m] <= spent[m] /\ spent[m] - made[m] <= deficit[m]
                      /\ balance[m] <= made[m] - spent[m] + deficit[m]
  BY <1>2 DEF GraphInv, Flow, Bound
<1> HIDE DEF in, out, x, y
\* after the input is taken, before the output is added
<1>7. /\ deficit'[in] <= deficit[in] + met
      /\ deficit'[in] <= spent'[in]
      /\ spent'[in] - made[in] <= deficit'[in]
      /\ left[in] <= made[in] - spent'[in] + deficit'[in]
  BY <1>1, <1>2, <1>3, <1>5, <1>6
<1>8. \A m \in Mints : /\ deficit'[m] <= spent'[m]
                      /\ spent'[m] - made[m] <= deficit'[m]
                      /\ left[m] <= made[m] - spent'[m] + deficit'[m]
  BY <1>3, <1>5, <1>6, <1>7
<1>9. \A m \in Mints : spent'[m] \in Nat /\ deficit'[m] \in Nat /\ made'[m] \in Nat
                      /\ balance'[m] \in Nat
  BY <1>1, <1>3, <1>4 DEF Amounts
<1>10. \A m \in Mints : /\ made[m] <= made'[m] /\ spent[m] <= spent'[m]
                       /\ balance'[m] <= made'[m] - spent'[m] + deficit'[m]
  <2> SUFFICES ASSUME NEW m \in Mints
               PROVE  /\ made[m] <= made'[m] /\ spent[m] <= spent'[m]
                      /\ balance'[m] <= made'[m] - spent'[m] + deficit'[m]
    OBVIOUS
  <2>1. made[m] <= made'[m] /\ spent[m] <= spent'[m]
    BY <1>1, <1>2, <1>3, <1>4
  <2>2. CASE m = out
    BY <2>1, <2>2, <1>1, <1>2, <1>4, <1>8, <1>9
  <2>3. CASE m # out
    BY <2>1, <2>3, <1>4, <1>8
  <2> QED
    BY <2>1, <2>2, <2>3
<1>11. Flow' /\ Bound'
  <2>1. \A m \in Mints : spent'[m] - made'[m] <= deficit'[m]
    BY <1>2, <1>8, <1>9, <1>10
  <2> QED
    BY <2>1, <1>8, <1>10 DEF Flow, Bound
<1>12. ASSUME InRange'
       PROVE  /\ InRange /\ result' = "running"
              /\ deficit'[in] = deficit[in] + met
              /\ \A m \in Mints : balance'[m] = made'[m] - spent'[m] + deficit'[m]
  <2>1. InRange
    BY <1>2, <1>9, <1>10, <1>12, <1>1 DEF InRange
  <2>2. \A m \in Mints : balance[m] = made[m] - spent[m] + deficit[m]
    BY <2>1, <1>2 DEF GraphInv, BalancesConserve
  <2>3. deficit'[in] = deficit[in] + met /\ left[in] = made[in] - spent'[in] + deficit'[in]
    <3>1. /\ balance[in] = made[in] - spent[in] + deficit[in]
          /\ spent[in] - made[in] <= deficit[in]
      BY <2>2, <1>1, <1>6
    <3>2. /\ balance[in] \in Nat /\ made[in] \in Nat /\ spent[in] \in Nat
          /\ deficit[in] \in Nat /\ x \in Nat
      BY <1>1, <1>2
    <3>3. /\ spent'[in] = spent[in] + x
          /\ deficit'[in] = IF spent'[in] - made[in] > deficit[in]
                            THEN spent'[in] - made[in] ELSE deficit[in]
      BY <1>3
    <3>4. /\ met = IF x - balance[in] > 0 THEN x - balance[in] ELSE 0
          /\ left[in] = balance[in] + met - x
      BY <1>5
    <3>5. CASE x - balance[in] > 0
      BY <3>1, <3>2, <3>3, <3>4, <3>5
    <3>6. CASE ~(x - balance[in] > 0)
      BY <3>1, <3>2, <3>3, <3>4, <3>6
    <3> QED
      BY <3>2, <3>5, <3>6
  <2>4. \A m \in Mints : left[m] = made[m] - spent'[m] + deficit'[m]
    BY <2>2, <2>3, <1>3, <1>5
  <2>5. left[out] + y <= MaxU64
    <3>1. left[out] <= made[out]
      BY <2>4, <1>1, <1>2, <1>8, <1>9
    <3>2. made'[out] <= MaxU64
      BY <1>1, <1>12 DEF InRange
    <3> QED
      BY <3>1, <3>2, <1>1, <1>2, <1>4
  <2>6. \A m \in Mints : balance'[m] = made'[m] - spent'[m] + deficit'[m]
    <3> SUFFICES ASSUME NEW m \in Mints
                 PROVE  balance'[m] = made'[m] - spent'[m] + deficit'[m]
      OBVIOUS
    <3>1. CASE m = out
      BY <3>1, <2>4, <2>5, <1>1, <1>2, <1>4, <1>9
    <3>2. CASE m # out
      BY <3>2, <2>4, <1>4
    <3> QED
      BY <3>1, <3>2
  <2> QED
    BY <2>1, <2>3, <2>5, <2>6, <1>4
<1> QED
  BY <1>7, <1>11, <1>12 DEF in

\* The types after one leg walked.
LEMMA TurnType ==
    ASSUME TypeOK, Walking, Take, NEW left \in [Mints -> Amounts], Credit(left),
           netInput' \in Amounts
    PROVE  TypeOK'
<1>1. Take /\ i + 1 \in 1 .. Len(swaps) + 1
  BY LegType
<1> QED
  BY <1>1, TakeFacts, CreditFacts DEF TypeOK

\* is_dust compares exactly as long as its products stay below the largest u64.
LEMMA DustExact ==
    ASSUME NEW a \in Nat, NEW x \in Nat, IsDust(a, x), DustBps * x < MaxU64
    PROVE  BpsScale * a <= DustBps * x
<1>1. /\ DustBps \in Nat /\ BpsScale \in Nat /\ MaxU64 \in Nat
      /\ a * BpsScale = BpsScale * a /\ x * DustBps = DustBps * x
      /\ BpsScale * a \in Nat /\ DustBps * x \in Nat
  BY SwapGraphAssumption
<1> DEFINE p == BpsScale * a
           q == DustBps * x
<1>2. (IF p > MaxU64 THEN MaxU64 ELSE p) <= (IF q > MaxU64 THEN MaxU64 ELSE q)
  BY <1>1 DEF IsDust, SaturatingMul
<1>3. p \in Nat /\ q \in Nat /\ q < MaxU64
  BY <1>1
<1> HIDE DEF p, q
<1>4. p <= q
  BY <1>1, <1>2, <1>3
<1> QED
  BY <1>4 DEF p, q

\* Dust of a leg adds to the dust before it within the same tolerance.
LEMMA DustAdds ==
    ASSUME NEW d \in Nat, NEW s \in Nat, NEW a \in Nat, NEW x \in Nat, NEW e \in Nat,
           BpsScale * d <= DustBps * s, BpsScale * a <= DustBps * x, e <= d + a
    PROVE  BpsScale * e <= DustBps * (s + x)
<1>1. DustBps \in Nat /\ BpsScale \in Nat
  BY SwapGraphAssumption
<1>2. BpsScale * e <= BpsScale * (d + a)
  BY <1>1
<1>3. /\ BpsScale * (d + a) = BpsScale * d + BpsScale * a
      /\ DustBps * (s + x) = DustBps * s + DustBps * x
  BY <1>1
<1>4. /\ BpsScale * d \in Nat /\ BpsScale * a \in Nat /\ BpsScale * e \in Nat
      /\ DustBps * s \in Nat /\ DustBps * x \in Nat
  BY <1>1
<1> QED
  BY <1>2, <1>3, <1>4

\* What dust tolerates does not shrink when more is spent.
LEMMA ToleranceGrows ==
    ASSUME NEW s \in Nat, NEW t \in Nat, s <= t
    PROVE  DustBps * s <= DustBps * t /\ DustBps * s \in Nat /\ DustBps * t \in Nat
BY SwapGraphAssumption

LEMMA ShortfallAdds ==
    ASSUME NEW d \in Nat, NEW a \in Nat, NEW e \in Nat, e <= d + a
    PROVE  BpsScale * e <= BpsScale * d + BpsScale * a
<1>1. BpsScale * e <= BpsScale * (d + a)
  BY SwapGraphAssumption
<1>2. BpsScale * (d + a) = BpsScale * d + BpsScale * a
  BY SwapGraphAssumption
<1> QED
  BY <1>1, <1>2

\* What a leg is short of, if anything, is within its tolerance when it is dust,
\* also where the products of is_dust saturate: no leg is short of more than its
\* input.
LEMMA LegTolerance ==
    ASSUME TypeOK, Walking, NEW met \in Nat,
           met = IF Shortfall > 0 THEN Shortfall ELSE 0,
           met = 0 \/ IsDust(met, Leg.input_amount)
    PROVE  BpsScale * met <= Tolerance(Leg)
<1> DEFINE x == Leg.input_amount
<1>1. /\ x \in Nat /\ balance[Leg.input_mint] \in Nat
      /\ DustBps \in Nat /\ BpsScale \in Nat /\ MaxU64 \in Nat
  <2>1. Leg.input_mint \in Mints /\ x \in Nat
    BY LegType
  <2>2. balance \in [Mints -> Amounts]
    BY DEF TypeOK
  <2>3. balance[Leg.input_mint] \in Amounts
    BY <2>1, <2>2
  <2>4. DustBps \in Nat /\ BpsScale \in Nat /\ MaxU64 \in Nat
    BY SwapGraphAssumption
  <2> QED
    BY <2>1, <2>3, <2>4 DEF Amounts
<1>2. met <= x
  BY <1>1 DEF Shortfall, Available
<1>3. Tolerance(Leg) = IF DustBps * x < MaxU64 THEN DustBps * x ELSE BpsScale * x
  BY DEF Tolerance
<1> HIDE DEF x
<1>4. DustBps * x \in Nat /\ BpsScale * x \in Nat /\ BpsScale * 0 = 0
  BY <1>1
<1>5. CASE met = 0
  BY <1>3, <1>4, <1>5
<1>6. CASE IsDust(met, x) /\ DustBps * x < MaxU64
  BY <1>1, <1>3, <1>6, DustExact
<1>7. CASE ~(DustBps * x < MaxU64)
  <2>1. BpsScale * met <= BpsScale * x
    BY <1>1, <1>2
  <2> QED
    BY <1>3, <1>7, <2>1
<1> QED
  BY <1>5, <1>6, <1>7 DEF x

\* What a walked leg does to the properties that are about the whole route,
\* once it is known who met its shortfall.
LEMMA TurnKeeps ==
    ASSUME GraphInv, Walking, Take,
           NEW left \in [Mints -> Amounts], Credit(left),
           NEW met \in Nat,
           met = IF Shortfall > 0 THEN Shortfall ELSE 0,
           left[Leg.input_mint] = Available + met - Leg.input_amount,
           \A m \in Mints : m # Leg.input_mint => left[m] = balance[m],
           netInput' = IF Leg.input_mint = EntryMint
                       THEN SaturatingAdd(netInput, met) ELSE netInput,
           Leg.input_mint = EntryMint \/ met = 0 \/ IsDust(met, Leg.input_amount)
    PROVE  GraphInv'
<1> DEFINE in == Leg.input_mint
           x  == Leg.input_amount
<1>1. /\ in \in Mints /\ x \in Nat /\ EntryMint \in Mints /\ swaps # <<>>
      /\ MaxU64 \in Nat
  BY LegType, SwapGraphAssumption DEF GraphInv
<1>2. /\ spent' \in [Mints -> Nat] /\ deficit' \in [Mints -> Nat]
      /\ spent'[in] = spent[in] + x
      /\ \A m \in Mints : m # in => spent'[m] = spent[m] /\ deficit'[m] = deficit[m]
  BY TakeFacts DEF GraphInv
<1>3. /\ swaps' = swaps /\ result' \in {"running", "panic"}
      /\ EntryMint' = EntryMint /\ result = "running"
  BY CreditFacts DEF GraphInv, EntryMint, Walking
<1>4. /\ Flow' /\ Bound'
      /\ deficit'[in] <= deficit[in] + met
      /\ InRange' => /\ InRange /\ result' = "running"
                     /\ deficit'[in] = deficit[in] + met
                     /\ \A m \in Mints : balance'[m] = made'[m] - spent'[m] + deficit'[m]
  BY Turn
<1>5. \A m \in Mints : spent[m] \in Nat /\ deficit[m] \in Nat /\ netInput \in Nat
                      /\ spent'[m] \in Nat /\ deficit'[m] \in Nat
  BY <1>2 DEF GraphInv, TypeOK, Amounts
<1> HIDE DEF in, x
<1>6. TypeOK'
  <2>1. netInput' \in Amounts
    BY <1>1, <1>5 DEF SaturatingAdd, Amounts, GraphInv, TypeOK
  <2> QED
    BY <2>1, TurnType DEF GraphInv
<1>7. BalancesConserve' /\ NoPanicInRange'
  BY <1>4 DEF BalancesConserve, NoPanicInRange
<1>8. NetInputIsLeastCapital'
  <2> SUFFICES ASSUME InRange' PROVE netInput' = deficit'[EntryMint]
    BY <1>3 DEF NetInputIsLeastCapital
  <2>1. netInput = deficit[EntryMint] /\ deficit'[in] = deficit[in] + met
    BY <1>1, <1>4 DEF GraphInv, NetInputIsLeastCapital
  <2>2. CASE in = EntryMint
    <3>1. deficit'[in] <= spent'[in] /\ spent'[in] <= MaxU64
      BY <1>1, <1>4 DEF Flow, InRange
    <3>2. netInput + met = deficit'[in] /\ netInput + met <= MaxU64
      BY <2>1, <2>2, <3>1, <1>1, <1>5
    <3>3. netInput' = SaturatingAdd(netInput, met)
      BY <2>2 DEF in
    <3> QED
      BY <2>2, <3>2, <3>3, <1>1, <1>5 DEF SaturatingAdd
  <2>3. CASE in # EntryMint
    BY <2>1, <2>3, <1>1, <1>2 DEF in
  <2> QED
    BY <2>2, <2>3
<1>9. DustIsScaled'
  <2> SUFFICES ASSUME \A m \in Mints : DustBps * spent'[m] < MaxU64,
                      NEW m \in Mints, m # EntryMint
               PROVE  BpsScale * deficit'[m] <= DustBps * spent'[m]
    BY <1>3 DEF DustIsScaled
  <2>1. \A o \in Mints : spent[o] <= spent'[o]
    BY <1>1, <1>2, <1>5
  <2>2. \A o \in Mints : DustBps * spent[o] < MaxU64
    <3> SUFFICES ASSUME NEW o \in Mints PROVE DustBps * spent[o] < MaxU64
      OBVIOUS
    <3>1. /\ DustBps * spent[o] <= DustBps * spent'[o]
          /\ DustBps * spent[o] \in Nat /\ DustBps * spent'[o] \in Nat
      BY <2>1, <1>5, ToleranceGrows
    <3> QED
      BY <3>1, <1>1
  <2>3. BpsScale * deficit[m] <= DustBps * spent[m]
    BY <2>2, <1>1, <1>3 DEF GraphInv, DustIsScaled
  <2>4. CASE m # in
    BY <2>3, <2>4, <1>2
  <2>5. CASE m = in
    <3>1. BpsScale * met <= DustBps * x
      <4>1. CASE met = 0
        <5>1. BpsScale * 0 = 0 /\ DustBps * x \in Nat
          BY <1>1, SwapGraphAssumption
        <5> QED
          BY <4>1, <5>1
      <4>2. CASE IsDust(met, x)
        <5>1. x <= spent'[in]
          BY <1>1, <1>2, <1>5
        <5>2. DustBps * x <= DustBps * spent'[in] /\ DustBps * x \in Nat
              /\ DustBps * spent'[in] \in Nat
          BY <5>1, <1>1, <1>5, ToleranceGrows
        <5>3. DustBps * x < MaxU64
          BY <5>2, <1>1
        <5> QED
          BY <4>2, <5>3, <1>1, DustExact
      <4> QED
        BY <2>5, <4>1, <4>2 DEF in, x
    <3>2. BpsScale * deficit'[in] <= DustBps * (spent[in] + x)
      BY <2>3, <2>5, <3>1, <1>1, <1>4, <1>5, DustAdds
    <3> QED
      BY <2>5, <3>2, <1>2
  <2> QED
    BY <2>4, <2>5
<1>10. RefusalIsReal'
  BY <1>3 DEF RefusalIsReal
<1>11. DustStaysSmall'
  <2> SUFFICES ASSUME NEW m \in Mints, m # EntryMint
               PROVE  BpsScale * deficit'[m] <= Sum(Tolerances(m), i)
    <3>1. i' - 1 = i
      BY CreditFacts DEF GraphInv, TypeOK, Walking
    <3>2. \A o : Tolerances(o)' = Tolerances(o)
      BY <1>3 DEF Tolerances
    <3> QED
      BY <1>3, <3>1, <3>2 DEF DustStaysSmall
  <2>1. i \in 1 .. Len(swaps) /\ swaps \in Seq(Swap) /\ Leg = swaps[i]
    BY DEF GraphInv, TypeOK, Walking, Leg
  <2>2. /\ Sum(Tolerances(m), i) = Sum(Tolerances(m), i - 1) + Tolerances(m)[i]
        /\ Tolerances(m)[i] = IF m = in THEN Tolerance(Leg) ELSE 0
        /\ Tolerances(m)[i] \in Nat
    BY <2>1, ToleranceSums DEF in
  <2>3. Sum(Tolerances(m), i - 1) \in Nat
    <3>1. i - 1 \in 0 .. Len(swaps)
      BY <2>1
    <3> QED
      BY <2>1, <3>1, ToleranceSums
  <2>4. BpsScale * deficit[m] <= Sum(Tolerances(m), i - 1)
    BY <1>1, <1>3 DEF GraphInv, DustStaysSmall
  <2>5. CASE m # in
    BY <2>2, <2>3, <2>4, <2>5, <1>2
  <2>6. CASE m = in
    <3>1. BpsScale * met <= Tolerance(Leg)
      BY <2>6, LegTolerance DEF GraphInv, in
    <3> HIDE DEF in
    <3>2. BpsScale * deficit'[m] <= BpsScale * deficit[m] + BpsScale * met
      BY <2>6, <1>1, <1>4, <1>5, ShortfallAdds
    <3>3. /\ BpsScale * deficit'[m] \in Nat /\ BpsScale * deficit[m] \in Nat
          /\ BpsScale * met \in Nat
      BY <1>5, SwapGraphAssumption
    <3> QED
      BY <2>2, <2>3, <2>4, <2>6, <3>1, <3>2, <3>3
  <2> QED
    BY <2>5, <2>6
<1> QED
  BY <1>4, <1>6, <1>7, <1>8, <1>9, <1>10, <1>11 DEF GraphInv

\* The balance after the leg's input is taken, when it was short of it.
LEMMA DrainedFacts ==
    ASSUME TypeOK, Walking, Shortfall > 0
    PROVE  /\ Shortfall \in Nat /\ Shortfall \in Amounts
           /\ Drained \in [Mints -> Amounts]
           /\ Drained[Leg.input_mint] = Available + Shortfall - Leg.input_amount
           /\ \A m \in Mints : m # Leg.input_mint => Drained[m] = balance[m]
<1>1. /\ Leg.input_mint \in Mints /\ Leg.input_amount \in Nat /\ MaxU64 \in Nat
      /\ Leg.input_amount <= MaxU64
  BY LegType, SwapGraphAssumption
<1>2. Available \in Nat
  BY <1>1 DEF Available, TypeOK, Amounts
<1>3. /\ Shortfall \in Nat /\ Shortfall <= MaxU64
      /\ 0 = Available + Shortfall - Leg.input_amount
  BY <1>1, <1>2 DEF Shortfall
<1>4. /\ Drained \in [Mints -> Amounts] /\ Drained[Leg.input_mint] = 0
      /\ \A m \in Mints : m # Leg.input_mint => Drained[m] = balance[m]
  BY <1>1 DEF Drained, TypeOK, Amounts
<1> QED
  BY <1>1, <1>3, <1>4 DEF Amounts

LEMMA StepGraphInv == GraphInv /\ [Next]_vars => GraphInv'
<1> SUFFICES ASSUME GraphInv, [Next]_vars PROVE GraphInv'
  OBVIOUS
<1>0. TypeOK
  BY DEF GraphInv
<1>1. CASE EmptyRoute
  <2>1. /\ swaps = <<>> /\ swaps' = <<>> /\ i' = i /\ balance' = balance
        /\ netInput' = netInput /\ report' = report /\ spent' = spent
        /\ made' = made /\ deficit' = deficit /\ result' = "empty" /\ result = "running"
    BY <1>1 DEF EmptyRoute, flows
  <2>2. TypeOK'
    BY <2>1 DEF GraphInv, TypeOK
  <2> QED
    BY <2>1, <2>2 DEF GraphInv, Flow, Bound, BalancesConserve, NetInputIsLeastCapital,
       DustStaysSmall, DustIsScaled, RefusalIsReal, NoPanicInRange, InRange
<1>2. CASE Spend
  <2> DEFINE left == [balance EXCEPT ![Leg.input_mint] = @ - Leg.input_amount]
  <2>1. Walking /\ Take /\ Credit(left) /\ ~(Shortfall > 0) /\ netInput' = netInput
    <3>1. Walking /\ Shortfall <= 0 /\ Take /\ Credit(left) /\ netInput' = netInput
      BY <1>2 DEF Spend
    <3>2. Shortfall \in Int
      <4>1. Leg.input_mint \in Mints /\ Leg.input_amount \in Nat /\ MaxU64 \in Nat
        <5> Walking
          BY <3>1
        <5> QED
          BY <1>0, LegType, SwapGraphAssumption
      <4>2. balance \in [Mints -> Amounts]
        BY <1>0 DEF TypeOK
      <4>3. balance[Leg.input_mint] \in Nat
        BY <4>1, <4>2 DEF Amounts
      <4> QED
        BY <4>1, <4>3 DEF Shortfall, Available
    <3> QED
      BY <3>1, <3>2
  <2>2. /\ Leg.input_mint \in Mints /\ Leg.input_amount \in Nat /\ MaxU64 \in Nat
    BY <2>1, <1>0, LegType, SwapGraphAssumption
  <2>3. balance[Leg.input_mint] \in Nat /\ balance[Leg.input_mint] <= MaxU64
    BY <2>2 DEF GraphInv, TypeOK, Amounts
  <2>4. balance[Leg.input_mint] - Leg.input_amount \in Amounts
    BY <2>1, <2>2, <2>3 DEF Shortfall, Available, Amounts
  <2>5. /\ left \in [Mints -> Amounts]
        /\ left[Leg.input_mint] = Available + 0 - Leg.input_amount
        /\ \A m \in Mints : m # Leg.input_mint => left[m] = balance[m]
    BY <2>2, <2>3, <2>4 DEF GraphInv, TypeOK, Available
  <2>6. SaturatingAdd(netInput, 0) = netInput
    BY <2>2 DEF GraphInv, TypeOK, Amounts, SaturatingAdd
  <2> HIDE DEF left
  <2> QED
    BY <2>1, <2>5, <2>6, TurnKeeps
<1>3. CASE Fund
  <2>1. /\ Walking /\ Shortfall > 0 /\ Leg.input_mint = EntryMint /\ Take
        /\ netInput' = SaturatingAdd(netInput, Shortfall) /\ Credit(Drained)
    BY <1>3 DEF Fund
  <2> QED
    BY <2>1, <1>0, DrainedFacts, TurnKeeps
<1>4. CASE AbsorbDust
  <2>1. /\ Walking /\ Shortfall > 0 /\ Leg.input_mint # EntryMint /\ Take
        /\ IsDust(Shortfall, Leg.input_amount)
        /\ netInput' = netInput /\ Credit(Drained)
    BY <1>4 DEF AbsorbDust
  <2> QED
    BY <2>1, <1>0, DrainedFacts, TurnKeeps
<1>5. CASE ImbalancedRoute
  <2> DEFINE in == Leg.input_mint
  <2>1. /\ Walking /\ Shortfall > 0 /\ in # EntryMint /\ Take
        /\ result' = "imbalanced" /\ report' = <<in, Shortfall>>
        /\ swaps' = swaps /\ i' = i /\ balance' = balance /\ netInput' = netInput
        /\ made' = made /\ result = "running" /\ EntryMint' = EntryMint
    BY <1>5 DEF ImbalancedRoute, EntryMint, Walking
  <2>2. /\ in \in Mints /\ Leg.input_amount \in Nat /\ EntryMint \in Mints
        /\ swaps # <<>>
    BY <2>1, <1>0, LegType
  <2>3. /\ spent' \in [Mints -> Nat] /\ deficit' \in [Mints -> Nat]
        /\ spent'[in] = spent[in] + Leg.input_amount
        /\ deficit'[in] = IF spent'[in] - made[in] > deficit[in]
                          THEN spent'[in] - made[in] ELSE deficit[in]
        /\ \A m \in Mints : m # in => spent'[m] = spent[m] /\ deficit'[m] = deficit[m]
    BY <2>1, <1>0, TakeFacts
  <2>4. \A m \in Mints : /\ spent[m] \in Nat /\ made[m] \in Nat /\ deficit[m] \in Nat
                         /\ balance[m] \in Nat
    BY DEF GraphInv, TypeOK, Amounts
  <2>5. Shortfall \in Nat /\ Shortfall \in Amounts
        /\ Shortfall = Leg.input_amount - balance[in]
    BY <2>1, <1>0, DrainedFacts DEF Shortfall, Available
  <2> HIDE DEF in
  <2>6. TypeOK'
    BY <2>1, <2>2, <2>3, <2>5 DEF GraphInv, TypeOK
  <2>7. /\ deficit[in] <= spent[in] /\ spent[in] - made[in] <= deficit[in]
    BY <2>2 DEF GraphInv, Flow
  <2>8. Flow'
    <3>1. deficit'[in] <= spent'[in] /\ spent'[in] - made[in] <= deficit'[in]
      BY <2>2, <2>3, <2>4, <2>7
    <3> QED
      BY <2>1, <2>3, <3>1 DEF GraphInv, Flow
  <2>9. InRange' => InRange
    <3>1. spent[in] <= spent'[in]
      BY <2>2, <2>3, <2>4
    <3>2. \A m \in Mints : spent[m] <= spent'[m] /\ spent'[m] \in Nat
      BY <3>1, <2>3, <2>4
    <3> QED
      BY <2>1, <2>4, <3>2, SwapGraphAssumption DEF InRange
  <2>10. NetInputIsLeastCapital'
    BY <2>1, <2>2, <2>3, <2>9 DEF GraphInv, NetInputIsLeastCapital
  <2>11. RefusalIsReal'
    <3> SUFFICES ASSUME InRange'
                 PROVE  /\ in # EntryMint /\ 0 < Shortfall
                        /\ Shortfall <= spent'[in] - made[in]
      BY <2>1 DEF RefusalIsReal
    <3>1. balance[in] = made[in] - spent[in] + deficit[in]
      BY <2>1, <2>2, <2>9 DEF GraphInv, BalancesConserve
    <3>2. /\ balance[in] \in Nat /\ made[in] \in Nat /\ spent[in] \in Nat
          /\ deficit[in] \in Nat
      BY <2>2, <2>4
    <3>3. Shortfall <= spent'[in] - made[in]
      BY <2>2, <2>3, <2>5, <3>1, <3>2
    <3>4. 0 < Shortfall
      BY <2>1, <2>5
    <3> QED
      BY <2>1, <3>3, <3>4
  <2> QED
    BY <2>1, <2>6, <2>8, <2>10, <2>11 DEF GraphInv, Bound, BalancesConserve,
       DustStaysSmall, DustIsScaled, NoPanicInRange
<1>6. CASE NetSwap
  <2>1. /\ result = "running" /\ swaps # <<>> /\ result' = "ok"
        /\ report' = <<ExitMint, balance[ExitMint]>>
        /\ swaps' = swaps /\ i' = i /\ balance' = balance /\ netInput' = netInput
        /\ spent' = spent /\ made' = made /\ deficit' = deficit
    BY <1>6 DEF NetSwap, flows
  <2>2. ExitMint \in Mints
    <3>1. swaps \in Seq(Swap) /\ Len(swaps) \in 1 .. Len(swaps)
      BY <2>1, <1>0, SwapGraphAssumption DEF TypeOK
    <3>2. swaps[Len(swaps)] \in Swap
      BY <3>1
    <3> QED
      BY <3>2 DEF ExitMint, Swap
  <2>3. TypeOK'
    BY <2>1, <2>2 DEF GraphInv, TypeOK
  <2>4. \A m : Tolerances(m)' = Tolerances(m)
    BY <2>1 DEF Tolerances
  <2> QED
    BY <2>1, <2>3, <2>4 DEF GraphInv, Flow, Bound, BalancesConserve,
       NetInputIsLeastCapital, DustStaysSmall, DustIsScaled, RefusalIsReal,
       NoPanicInRange, InRange, EntryMint
<1>7. CASE UNCHANGED vars
  <2>1. TypeOK'
    BY <1>7 DEF vars, flows, GraphInv, TypeOK
  <2>2. \A m : Tolerances(m)' = Tolerances(m)
    BY <1>7 DEF vars, Tolerances
  <2> QED
    BY <1>7, <2>1, <2>2 DEF vars, flows, GraphInv, Flow, Bound, BalancesConserve,
       NetInputIsLeastCapital, DustStaysSmall, DustIsScaled, RefusalIsReal,
       NoPanicInRange, InRange, EntryMint
<1> QED
  BY <1>1, <1>2, <1>3, <1>4, <1>5, <1>6, <1>7 DEF Next, Ended

LEMMA GraphInvariant == Spec => []GraphInv
BY InitGraphInv, StepGraphInv, PTL DEF Spec

--------------------------------------------------------------------------------
(* The theorems *)

\* The variables of SwapGraph::swap keep their types: no u64 leaves its range.
THEOREM TypeCorrect == Spec => []TypeOK
<1>1. GraphInv => TypeOK
  BY DEF GraphInv
<1> QED
  BY <1>1, GraphInvariant, PTL

\* While the totals fit a u64, the running balance of every mint is what was
\* made of it less what was spent, plus the most the route ever lacked.
THEOREM BalancesExact == Spec => []BalancesConserve
<1>1. GraphInv => BalancesConserve
  BY DEF GraphInv
<1> QED
  BY <1>1, GraphInvariant, PTL

\* The net input is the largest amount by which the legs, in their order,
\* ever spent more of the entry mint than they had made.
THEOREM NetInputExact == Spec => []NetInputIsLeastCapital
<1>1. GraphInv => NetInputIsLeastCapital
  BY DEF GraphInv
<1> QED
  BY <1>1, GraphInvariant, PTL

\* However many legs absorb dust, and also where balances wrapped or is_dust's
\* products saturated, what the route lacked of a mint is within what its legs
\* may each lack of it.
THEOREM DustBounded == Spec => []DustStaysSmall
<1>1. GraphInv => DustStaysSmall
  BY DEF GraphInv
<1> QED
  BY <1>1, GraphInvariant, PTL

\* A refusal names a mint that the route lacked, by at least what it says.
THEOREM RefusalJustified == Spec => []RefusalIsReal
<1>1. GraphInv => RefusalIsReal
  BY DEF GraphInv
<1> QED
  BY <1>1, GraphInvariant, PTL

\* A route whose totals fit a u64 never reaches the overflow of the unchecked
\* addition, whatever order its legs come in.
THEOREM NeverOverflows == Spec => []NoPanicInRange
<1>1. GraphInv => NoPanicInRange
  BY DEF GraphInv
<1> QED
  BY <1>1, GraphInvariant, PTL

================================================================================
