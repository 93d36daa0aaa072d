------------------------------ MODULE ProofLemmas ------------------------------
(* Facts about naturals and sequences that several proofs need. *)
EXTENDS Integers, Sequences, WellFoundedInduction, TLAPS

\* Of some naturals one is the least.
LEMMA LeastNumber ==
    ASSUME NEW S \in SUBSET Nat, S # {}
    PROVE  \E n \in S : \A o \in S : n <= o
<1> DEFINE R == OpToRel(<, Nat)
<1>1. IsWellFoundedOn(R, Nat)
  BY NatLessThanWellFounded
<1>2. PICK n \in S : \A o \in S : ~ (<<o, n>> \in R)
  <2> HIDE DEF R
  <2> QED
    BY <1>1, WFMin
<1>3. \A o \in S : ~ (o < n)
  BY <1>2 DEF OpToRel
<1> QED
  BY <1>3

\* Of a number of naturals up to a bound one is the largest.
LEMMA LargestNumber ==
    ASSUME NEW bound \in Nat, NEW S \in SUBSET (0 .. bound), S # {}
    PROVE  \E n \in S : \A o \in S : o <= n
<1> DEFINE Below == {bound - n : n \in S}
<1>1. \A n \in S : n \in Int /\ n <= bound
  OBVIOUS
<1>2. Below \in SUBSET Nat /\ Below # {}
  <2>1. \A n \in S : bound - n \in Nat
    BY <1>1
  <2> QED
    BY <2>1
<1>3. PICK b \in Below : \A o \in Below : b <= o
  BY <1>2, LeastNumber
<1>4. PICK n \in S : b = bound - n
  BY <1>3
<1>5. \A o \in S : bound - n <= bound - o
  BY <1>3, <1>4
<1> QED
  BY <1>1, <1>5

(* A growing sequence whose elements have no common type: the answers of the
   parsers in TxLogs, and of the command in Cli. *)

\* What is in a sequence, of whatever type that is.
Elements(s) == {s[n] : n \in DOMAIN s}

\* A sequence is one over its own elements.
LEMMA SeqOfElements ==
    ASSUME NEW S, NEW s \in Seq(S)
    PROVE  s \in Seq(Elements(s))
<1>1. Len(s) \in Nat /\ DOMAIN s = 1 .. Len(s) /\ s = [n \in 1 .. Len(s) |-> s[n]]
  OBVIOUS
<1>2. \A n \in 1 .. Len(s) : s[n] \in Elements(s)
  BY <1>1 DEF Elements
<1> QED
  BY <1>1, <1>2

\* Appending changes no earlier element.
LEMMA AppendedElements ==
    ASSUME NEW s, s \in Seq(Elements(s)), NEW a
    PROVE  /\ Append(s, a) \in Seq(Elements(Append(s, a)))
           /\ Len(Append(s, a)) = Len(s) + 1
           /\ DOMAIN Append(s, a) = DOMAIN s \cup {Len(s) + 1}
           /\ \A n \in DOMAIN s : Append(s, a)[n] = s[n]
           /\ Append(s, a)[Len(s) + 1] = a
<1> DEFINE S == Elements(s) \cup {a}
<1>1. s \in Seq(S) /\ Append(s, a) \in Seq(S)
  OBVIOUS
<1>2. Append(s, a) \in Seq(Elements(Append(s, a)))
  BY <1>1, SeqOfElements
<1> QED
  BY <1>1, <1>2

\* A sum, by its partial sums: one list of them exists, by refuting a least
\* place up to which there is none.
LEMMA PartialSums ==
    ASSUME NEW s \in Seq(Int)
    PROVE  \E f \in [0 .. Len(s) -> Int] :
              f = [k \in 0 .. Len(s) |-> IF k = 0 THEN 0 ELSE f[k - 1] + s[k]]
<1> DEFINE Sums(k, f) ==
              /\ f \in [0 .. k -> Int] /\ f[0] = 0
              /\ \A j \in 1 .. k : f[j] = f[j - 1] + s[j]
           Bad == {k \in 0 .. Len(s) : ~ \E f : Sums(k, f)}
<1>1. Len(s) \in Nat /\ \A k \in 1 .. Len(s) : s[k] \in Int
  OBVIOUS
<1>2. Bad \in SUBSET Nat
  BY <1>1
<1>3. 0 \notin Bad
  <2> DEFINE f == [k \in 0 .. 0 |-> 0]
  <2>1. f \in [0 .. 0 -> Int] /\ f[0] = 0 /\ 1 .. 0 = {}
    OBVIOUS
  <2>2. Sums(0, f)
    BY <2>1
  <2> QED
    BY <2>2
<1>4. ASSUME NEW k \in Bad, k # 0, k - 1 \notin Bad PROVE FALSE
  <2>1. k \in 1 .. Len(s) /\ k - 1 \in 0 .. Len(s) /\ k - 1 \in 0 .. k - 1
    BY <1>1, <1>4
  <2>2. PICK f : Sums(k - 1, f)
    BY <1>4, <2>1
  <2> DEFINE g == [j \in 0 .. k |-> IF j = k THEN f[k - 1] + s[k] ELSE f[j]]
  <2>3. \A j \in 0 .. k - 1 : f[j] \in Int
    BY <2>2
  <2>4. g \in [0 .. k -> Int]
    <3>1. \A j \in 0 .. k : j = k \/ j \in 0 .. k - 1
      BY <2>1
    <3>2. f[k - 1] + s[k] \in Int
      BY <1>1, <2>1, <2>3
    <3> QED
      BY <2>3, <3>1, <3>2
  <2>5. \A j \in 1 .. k : g[j] = g[j - 1] + s[j]
    <3> SUFFICES ASSUME NEW j \in 1 .. k PROVE g[j] = g[j - 1] + s[j]
      OBVIOUS
    <3>1. j \in 0 .. k /\ j - 1 \in 0 .. k /\ j - 1 # k
      BY <2>1
    <3>2. CASE j = k
      BY <3>1, <3>2
    <3>3. CASE j # k
      <4>1. j \in 1 .. k - 1
        BY <2>1, <3>3
      <4> QED
        BY <2>2, <3>1, <3>3, <4>1
    <3> QED
      BY <3>2, <3>3
  <2>6. g[0] = 0
    BY <2>1, <2>2
  <2>7. Sums(k, g)
    BY <2>4, <2>5, <2>6
  <2> QED
    BY <1>4, <2>7
<1>5. Bad = {}
  <2> SUFFICES ASSUME Bad # {} PROVE FALSE
    OBVIOUS
  <2> HIDE DEF Bad
  <2>1. PICK k \in Bad : \A o \in Bad : k <= o
    BY <1>2, LeastNumber
  <2>2. k \in Nat /\ ~(k <= k - 1)
    BY <1>2, <2>1
  <2>3. k # 0 /\ k - 1 \notin Bad
    BY <1>3, <2>1, <2>2
  <2> QED
    BY <1>4, <2>1, <2>3
<1>6. PICK f : Sums(Len(s), f)
  <2>1. Len(s) \in 0 .. Len(s)
    BY <1>1
  <2> QED
    BY <1>5, <2>1
<1>7. \A k \in 0 .. Len(s) : f[k] = IF k = 0 THEN 0 ELSE f[k - 1] + s[k]
  <2> SUFFICES ASSUME NEW k \in 0 .. Len(s), k # 0 PROVE f[k] = f[k - 1] + s[k]
    BY <1>6
  <2>1. k \in 1 .. Len(s)
    BY <1>1
  <2> QED
    BY <1>6, <2>1
<1>8. f \in [0 .. Len(s) -> Int]
  BY <1>6
<1>9. f = [k \in 0 .. Len(s) |-> IF k = 0 THEN 0 ELSE f[k - 1] + s[k]]
  BY <1>7, <1>8
<1> QED
  BY <1>8, <1>9

\* The sum of the first n values of f, as the modules define theirs.
RunningSum(f, n) ==
    LET sum[j \in 0 .. Len(f)] == IF j = 0 THEN 0 ELSE sum[j - 1] + f[j]
    IN  sum[n]

\* A running sum, its steps, and that it never falls.
LEMMA RunningSumFacts ==
    ASSUME NEW f \in Seq(Nat)
    PROVE  /\ RunningSum(f, 0) = 0
           /\ \A n \in 1 .. Len(f) : RunningSum(f, n) = RunningSum(f, n - 1) + f[n]
           /\ \A n \in 0 .. Len(f) : RunningSum(f, n) \in Nat
<1> DEFINE N == Len(f)
           Def(s) == s = [j \in 0 .. N |-> IF j = 0 THEN 0 ELSE s[j - 1] + f[j]]
           sum == CHOOSE s : Def(s)
<1>1. N \in Nat /\ \A n \in 1 .. N : f[n] \in Nat
  OBVIOUS
<1>2. \A n : RunningSum(f, n) = sum[n]
  BY DEF RunningSum
<1>3. Def(sum)
  <2>1. f \in Seq(Int)
    OBVIOUS
  <2>2. \E s : Def(s)
    BY <2>1, PartialSums
  <2> HIDE DEF Def
  <2> QED
    BY <2>2
<1> HIDE DEF sum
<1>4. sum[0] = 0 /\ \A n \in 1 .. N : sum[n] = sum[n - 1] + f[n]
  <2>1. sum[0] = 0
    BY <1>1, <1>3
  <2>2. ASSUME NEW n \in 1 .. N PROVE sum[n] = sum[n - 1] + f[n]
    <3>1. n \in 0 .. N /\ n # 0
      BY <1>1
    <3> QED
      BY <1>3, <3>1
  <2> QED
    BY <2>1, <2>2
<1> HIDE DEF N
<1>5. \A n \in 0 .. N : sum[n] \in Nat
  <2> DEFINE Bad == {n \in 0 .. N : sum[n] \notin Nat}
  <2>1. Bad \in SUBSET Nat
    BY <1>1
  <2> SUFFICES ASSUME Bad # {} PROVE FALSE
    OBVIOUS
  <2>2. PICK n \in Bad : \A o \in Bad : n <= o
    <3> HIDE DEF Bad
    <3> QED
      BY <2>1, LeastNumber
  <2>3. n \in 1 .. N /\ ~(n <= n - 1) /\ n - 1 \in 0 .. N
    BY <1>1, <1>4
  <2>4. sum[n - 1] \in Nat /\ f[n] \in Nat /\ sum[n] = sum[n - 1] + f[n]
    BY <1>1, <1>4, <2>2, <2>3
  <2> QED
    BY <2>4
<1> QED
  BY <1>2, <1>4, <1>5 DEF N

================================================================================
