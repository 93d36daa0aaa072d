-------------------------- MODULE AggregatorNetProofs --------------------------
(* Theorems of RouteLegs and AggregatorNet, for routes of any length over any
   mints and any amounts. *)
EXTENDS AggregatorNet, ProofLemmas, FiniteSetTheorems, SequenceTheorems, TLAPS

--------------------------------------------------------------------------------
(* The totals of a leg's transfers *)

\* What the sums over the first n transfers must be.
SumsTo(f, transfers, m, n) ==
    f = [o \in 0 .. n |->
          IF o = 0 THEN 0
          ELSE f[o - 1] + IF transfers[o].mint = m THEN transfers[o].amount ELSE 0]

LEMMA SumsExist ==
    ASSUME NEW transfers, NEW m, NEW last \in Nat
    PROVE  \E f : SumsTo(f, transfers, m, last)
<1> DEFINE Without == {n \in Nat : ~ \E f : SumsTo(f, transfers, m, n)}
<1>1. SUFFICES ASSUME Without # {} PROVE FALSE
  OBVIOUS
<1>2. PICK n \in Without : \A o \in Without : n <= o
  BY <1>1, LeastNumber
<1>3. n # 0
  <2>1. SumsTo([o \in 0 .. 0 |-> 0], transfers, m, 0)
    BY DEF SumsTo
  <2> QED
    BY <1>2, <2>1
<1>4. n \in Nat \ {0} /\ n - 1 \in Nat /\ ~ (n <= n - 1)
  BY <1>3
<1>5. PICK f : SumsTo(f, transfers, m, n - 1)
  BY <1>2, <1>4
<1> DEFINE g == [o \in 0 .. n |->
                   IF o < n THEN f[o]
                   ELSE f[n - 1] + IF transfers[n].mint = m THEN transfers[n].amount ELSE 0]
<1>6. ASSUME NEW o \in 0 .. n
      PROVE  g[o] = IF o = 0 THEN 0
                    ELSE g[o - 1] + IF transfers[o].mint = m THEN transfers[o].amount ELSE 0
  <2>1. CASE o = 0
    BY <1>4, <1>5, <2>1 DEF SumsTo
  <2>2. CASE o # 0 /\ o < n
    <3>1. o \in 0 .. (n - 1) /\ o - 1 \in 0 .. n /\ o - 1 < n
      BY <1>4, <2>2
    <3>2. f[o] = f[o - 1] + IF transfers[o].mint = m THEN transfers[o].amount ELSE 0
      BY <1>5, <2>2, <3>1 DEF SumsTo
    <3> QED
      BY <2>2, <3>1, <3>2
  <2>3. CASE o = n
    <3>1. n - 1 \in 0 .. n /\ n - 1 < n /\ ~(n < n)
      BY <1>4
    <3> QED
      BY <1>4, <2>3, <3>1
  <2> QED
    BY <1>4, <2>1, <2>2, <2>3
<1>7. DOMAIN g = 0 .. n
  OBVIOUS
<1>8. SumsTo(g, transfers, m, n)
  <2>1. g = [o \in 0 .. n |-> g[o]]
    OBVIOUS
  <2> HIDE DEF g
  <2> QED
    BY <1>6, <2>1 DEF SumsTo
<1> QED
  BY <1>2, <1>8

LEMMA TotalIsNat ==
    ASSUME NEW transfers \in Seq(Transfer), NEW m
    PROVE  Total(transfers, m) \in Nat
<1> DEFINE last == Len(transfers)
           sum == CHOOSE f : SumsTo(f, transfers, m, last)
<1>1. last \in Nat /\ DOMAIN transfers = 1 .. last
  OBVIOUS
<1>2. \A n \in 1 .. last : transfers[n].amount \in Nat
  <2>1. \A n \in 1 .. last : transfers[n] \in Transfer
    OBVIOUS
  <2>2. \A t \in Transfer : t.amount \in Nat
    BY RouteAssumption DEF Transfer
  <2> QED
    BY <2>1, <2>2
<1>3. SumsTo(sum, transfers, m, last)
  <2>1. \E f : SumsTo(f, transfers, m, last)
    BY <1>1, SumsExist
  <2> HIDE DEF last
  <2> QED
    BY <2>1
<1>4. Total(transfers, m) = sum[last]
  BY DEF Total, SumsTo
<1> HIDE DEF sum, last
<1> DEFINE Bad == {n \in 0 .. last : sum[n] \notin Nat}
<1>5. Bad = {}
  <2>1. SUFFICES ASSUME Bad # {} PROVE FALSE
    OBVIOUS
  <2>2. Bad \in SUBSET Nat
    BY <1>1
  <2>3. PICK n \in Bad : \A o \in Bad : n <= o
    BY <2>1, <2>2, LeastNumber
  <2>4. n \in 0 .. last /\ sum[n] \notin Nat
    OBVIOUS
  <2>5. sum[n] = IF n = 0 THEN 0
          ELSE sum[n - 1] + IF transfers[n].mint = m THEN transfers[n].amount ELSE 0
    BY <1>3, <2>4 DEF SumsTo
  <2>6. n # 0
    BY <2>4, <2>5
  <2>7. n \in 1 .. last /\ n - 1 \in 0 .. last /\ ~ (n <= n - 1)
    BY <1>1, <2>4, <2>6
  <2>8. sum[n - 1] \in Nat
    BY <2>3, <2>7
  <2> QED
    BY <1>2, <2>4, <2>5, <2>6, <2>7, <2>8
<1> QED
  BY <1>1, <1>4, <1>5

--------------------------------------------------------------------------------
(* One leg *)

SidesOf(transfers, T) == {[mint |-> m, amount |-> Total(transfers, m)] : m \in T}

Directed(transfers, a, b) ==
    [input_mint |-> a, output_mint |-> b,
     input_amount |-> Total(transfers, a), output_amount |-> Total(transfers, b)]

\* What is known of a leg: all, if it was decoded; else the two mints that its
\* transfers moved most of, and in the end which of them went in.
ShapeOf(r, s) ==
    \/ r.decoded /\ s = Known(r.swap)
    \/ /\ ~r.decoded /\ NoMint \notin MintsOf(r.transfers)
       /\ \E a, b \in MintsOf(r.transfers) :
            /\ a # b /\ {a, b} \in TopTwo(r.transfers)
            /\ \/ s = Candidates(SidesOf(r.transfers, {a, b}))
               \/ s = Known(Directed(r.transfers, a, b))

Shapes == [known : {TRUE}, swap : Swap] \cup [known : {FALSE}, sides : SUBSET Sides]

LEMMA MintsAreFew ==
    ASSUME NEW transfers \in Seq(Transfer)
    PROVE  /\ IsFiniteSet(MintsOf(transfers))
           /\ MintsOf(transfers) \subseteq Mints \cup {NoMint}
<1> DEFINE n == Len(transfers)
           f == [o \in 1 .. n |-> transfers[o].mint]
<1>1. n \in Nat /\ DOMAIN transfers = 1 .. n /\ \A o \in 1 .. n : transfers[o] \in Transfer
  OBVIOUS
<1>2. MintsOf(transfers) \subseteq Mints \cup {NoMint}
  BY <1>1 DEF MintsOf, Transfer
<1>3. f \in Surjection(1 .. n, MintsOf(transfers))
  BY <1>1 DEF MintsOf, Surjection
<1>4. IsFiniteSet(1 .. n)
  BY <1>1, FS_Interval
<1> QED
  BY <1>2, <1>3, <1>4, FS_Surjection

\* The two mints are two.
LEMMA TwoMints ==
    ASSUME NEW transfers \in Seq(Transfer), NEW T \in TopTwo(transfers)
    PROVE  \E a, b \in MintsOf(transfers) : a # b /\ T = {a, b}
<1>1. /\ T \subseteq MintsOf(transfers) /\ Cardinality(T) = 2
      /\ IsFiniteSet(T)
  BY MintsAreFew, FS_Subset DEF TopTwo
<1>2. T # {}
  BY <1>1, FS_EmptySet
<1>3. PICK a \in T : TRUE
  BY <1>2
<1>4. IsFiniteSet(T \ {a}) /\ Cardinality(T \ {a}) = 1
  <2>1. /\ IsFiniteSet(T \ {a})
        /\ Cardinality(T \ {a}) = IF a \in T THEN Cardinality(T) - 1 ELSE Cardinality(T)
    BY <1>1, FS_RemoveElement, Zenon
  <2> QED
    BY <1>1, <1>3, <2>1
<1>5. PICK b : T \ {a} = {b}
  BY <1>4, FS_Singleton
<1> QED
  BY <1>1, <1>3, <1>5

LEMMA SidesAreTyped ==
    ASSUME NEW transfers \in Seq(Transfer), NoMint \notin MintsOf(transfers),
           NEW a \in MintsOf(transfers), NEW b \in MintsOf(transfers)
    PROVE  /\ a \in Mints /\ b \in Mints
           /\ SidesOf(transfers, {a, b}) \subseteq Sides
           /\ Directed(transfers, a, b) \in Swap
<1>1. a \in Mints /\ b \in Mints
  BY MintsAreFew
<1>2. Total(transfers, a) \in Nat /\ Total(transfers, b) \in Nat
  BY TotalIsNat
<1>3. SidesOf(transfers, {a, b}) \subseteq Sides
  BY <1>1, <1>2 DEF SidesOf, Sides
<1>4. Directed(transfers, a, b) \in Swap
  BY <1>1, <1>2 DEF Directed, Swap
<1> QED
  BY <1>1, <1>3, <1>4

LEMMA ShapesAreTyped ==
    ASSUME NEW r \in Route, NEW s, ShapeOf(r, s)
    PROVE  s \in Shapes
<1>1. r.swap \in Swap /\ r.transfers \in Seq(Transfer)
  BY DEF Route
<1>2. CASE s = Known(r.swap)
  BY <1>1, <1>2 DEF Known, Shapes
<1>3. ASSUME NoMint \notin MintsOf(r.transfers),
             NEW a \in MintsOf(r.transfers), NEW b \in MintsOf(r.transfers),
             s = Candidates(SidesOf(r.transfers, {a, b}))
      PROVE  s \in Shapes
  <2>1. SidesOf(r.transfers, {a, b}) \subseteq Sides
    BY <1>1, <1>3, SidesAreTyped
  <2> QED
    BY <1>3, <2>1 DEF Candidates, Shapes
<1>4. ASSUME NoMint \notin MintsOf(r.transfers),
             NEW a \in MintsOf(r.transfers), NEW b \in MintsOf(r.transfers),
             s = Known(Directed(r.transfers, a, b))
      PROVE  s \in Shapes
  <2>1. Directed(r.transfers, a, b) \in Swap
    BY <1>1, <1>4, SidesAreTyped
  <2> QED
    BY <1>4, <2>1 DEF Known, Shapes
<1> QED
  BY <1>2, <1>3, <1>4 DEF ShapeOf

\* A leg connects to its two mints, and the one it connects to is directed.
LEMMA SidesConnect ==
    ASSUME NEW transfers, NEW a, NEW b, a # b
    PROVE  /\ \A m : Connects(SidesOf(transfers, {a, b}), m) <=> m = a \/ m = b
           /\ Resolve(SidesOf(transfers, {a, b}), a, TRUE) = Directed(transfers, a, b)
           /\ Resolve(SidesOf(transfers, {a, b}), b, FALSE) = Directed(transfers, a, b)
<1> DEFINE sides == SidesOf(transfers, {a, b})
           sa == [mint |-> a, amount |-> Total(transfers, a)]
           sb == [mint |-> b, amount |-> Total(transfers, b)]
<1>1. /\ sides = {sa, sb} /\ sa.mint = a /\ sb.mint = b
      /\ sa.amount = Total(transfers, a) /\ sb.amount = Total(transfers, b)
  BY DEF SidesOf
<1> HIDE DEF sides, sa, sb
<1>2. \A m : Connects(sides, m) <=> m = a \/ m = b
  BY <1>1 DEF Connects
<1>3. /\ (CHOOSE s \in sides : s.mint = a) = sa /\ (CHOOSE s \in sides : s.mint # a) = sb
      /\ (CHOOSE s \in sides : s.mint = b) = sb /\ (CHOOSE s \in sides : s.mint # b) = sa
  BY <1>1
<1>4. Resolve(sides, a, TRUE) = Directed(transfers, a, b)
  BY <1>1, <1>3 DEF Resolve, Directed
<1>5. Resolve(sides, b, FALSE) = Directed(transfers, a, b)
  BY <1>1, <1>3 DEF Resolve, Directed
<1> QED
  BY <1>2, <1>4, <1>5 DEF sides

--------------------------------------------------------------------------------
(* The invariant of the passes *)

\* What the leg before hands on, and the leg after asks for, if it is known.
HandedOn(ss, n) ==
    IF n - 1 \in DOMAIN ss /\ ss[n - 1].known THEN ss[n - 1].swap.output_mint ELSE NoMint
HandedBack(ss, n) ==
    IF n + 1 \in DOMAIN ss /\ ss[n + 1].known THEN ss[n + 1].swap.input_mint ELSE NoMint

\* The leg was decoded, or a neighbour says which way it goes.
Witnessed(rs, ss, n) ==
    \/ ~ss[n].known
    \/ rs[n].decoded
    \/ ss[n].swap.input_mint = HandedOn(ss, n)
    \/ ss[n].swap.output_mint = HandedBack(ss, n)

\* The leg is not known, although the forward or the backward pass visited it.
StuckForward(ss, n) == ss[n].known \/ ~Connects(ss[n].sides, HandedOn(ss, n))
StuckBackward(ss, n) == ss[n].known \/ ~Connects(ss[n].sides, HandedBack(ss, n))

Passes == {"forward", "backward"}

Visited ==
    /\ pass = "collect" =>
         /\ k >= 1 /\ Len(shapes) = k - 1 /\ held = NoMint
         /\ \A n \in DOMAIN shapes : shapes[n].known => routes[n].decoded
    /\ pass \in Passes \/ result \in {"ok", "UnresolvedLeg"} => Len(shapes) = Len(routes)
    /\ pass = "forward" => k >= 1 /\ held = HandedOn(shapes, k)
    /\ pass = "backward" => k <= Len(shapes) /\ held = HandedBack(shapes, k)
    /\ pass # "done" <=> result = "running"

Stuck ==
    /\ pass = "forward" => \A n \in DOMAIN shapes : n < k => StuckForward(shapes, n)
    /\ pass = "backward" \/ result = "UnresolvedLeg" =>
         \A n \in DOMAIN shapes : StuckForward(shapes, n)
    /\ pass = "backward" => \A n \in DOMAIN shapes : n > k => StuckBackward(shapes, n)
    /\ result = "UnresolvedLeg" => \A n \in DOMAIN shapes : StuckBackward(shapes, n)
    /\ result = "ok" => \A n \in DOMAIN shapes : shapes[n].known

\* Nothing is known of the legs but what they did.
Faithful(r, s) ==
    IF s.known
    THEN s.swap.input_mint = r.swap.input_mint /\ s.swap.output_mint = r.swap.output_mint
    ELSE \A m : Connects(s.sides, m) <=> m = r.swap.input_mint \/ m = r.swap.output_mint

\* In a clean chain the forward pass directs every leg from the first decoded one
\* on, and the backward pass those before it.
Chained ==
    CleanChain =>
      /\ result \in {"running", "ok"}
      /\ \A n \in DOMAIN shapes : Faithful(routes[n], shapes[n])
      /\ pass \in Passes => \A n \in DOMAIN shapes :
           (\E d \in 1 .. n : routes[d].decoded) /\ (pass = "forward" => n < k)
             => shapes[n].known
      /\ pass = "backward" => \A n \in DOMAIN shapes : n > k => shapes[n].known

Results == {"running", "ok", "UnknownMint", "AmbiguousTransfers", "UnresolvedLeg"}

LegInv ==
    /\ routes \in RouteLists /\ k \in 0 .. Len(routes) + 1
    /\ held \in Mints \cup {NoMint} /\ result \in Results
    /\ pass \in {"collect", "forward", "backward", "done"}
    /\ shapes \in Seq(Shapes) /\ Len(shapes) <= Len(routes)
    /\ \A n \in DOMAIN shapes :
         ShapeOf(routes[n], shapes[n]) /\ Witnessed(routes, shapes, n)
    /\ Visited /\ Stuck /\ Chained

LEMMA RoutesAreTyped ==
    ASSUME routes \in RouteLists
    PROVE  /\ routes \in Seq(Route) /\ Len(routes) \in Nat
           /\ DOMAIN routes = 1 .. Len(routes)
           /\ \A n \in DOMAIN routes :
                /\ routes[n] \in Route /\ routes[n].swap \in Swap
                /\ routes[n].transfers \in Seq(Transfer)
<1>1. routes \in Seq(Route)
  BY RouteAssumption
<1>2. \A r \in Route : r.swap \in Swap /\ r.transfers \in Seq(Transfer)
  BY DEF Route
<1> QED
  BY <1>1, <1>2

\* A known leg's mints are mints, and what it hands on or back is one exactly
\* if it is known.
LEMMA HandsAreTyped ==
    ASSUME NEW ss \in Seq(Shapes), NEW n
    PROVE  /\ HandedOn(ss, n) \in Mints \cup {NoMint}
           /\ HandedBack(ss, n) \in Mints \cup {NoMint}
           /\ HandedOn(ss, n) # NoMint => n - 1 \in DOMAIN ss /\ ss[n - 1].known
           /\ HandedBack(ss, n) # NoMint => n + 1 \in DOMAIN ss /\ ss[n + 1].known
<1>1. \A o \in DOMAIN ss : ss[o] \in Shapes
  OBVIOUS
<1>2. \A s \in Shapes :
        s.known => s.swap.input_mint \in Mints /\ s.swap.output_mint \in Mints
  BY DEF Shapes, Swap
<1>3. NoMint \notin Mints
  BY RouteAssumption
<1> QED
  BY <1>1, <1>2, <1>3 DEF HandedOn, HandedBack

\* The sides of an undirected leg are mints.
LEMMA NoMintConnectsNothing ==
    ASSUME NEW s \in Shapes, ~s.known
    PROVE  ~Connects(s.sides, NoMint)
<1>1. NoMint \notin Mints
  BY RouteAssumption
<1>2. s.sides \in SUBSET Sides
  BY DEF Shapes
<1> QED
  BY <1>1, <1>2 DEF Connects, Sides

LEMMA InitLegInv == Init => LegInv
<1> SUFFICES ASSUME Init PROVE LegInv
  OBVIOUS
<1>1. /\ routes \in RouteLists /\ shapes = <<>> /\ k = 1 /\ held = NoMint
      /\ pass = "collect" /\ result = "running"
  BY DEF Init
<1>2. Len(routes) \in Nat
  BY <1>1, RoutesAreTyped
<1>3. <<>> \in Seq(Shapes) /\ Len(<<>>) = 0 /\ DOMAIN <<>> = {}
  OBVIOUS
<1>4. Visited /\ Stuck /\ Chained
  BY <1>1, <1>3 DEF Visited, Stuck, Chained, Passes
<1> QED
  BY <1>1, <1>2, <1>3, <1>4 DEF LegInv, Results

--------------------------------------------------------------------------------
(* Collecting *)

\* In a chain a decoded leg did what it says.
LEMMA DecodedIsFaithful ==
    ASSUME NEW r
    PROVE  Faithful(r, Known(r.swap))
BY DEF Faithful, Known

\* In a clean chain the two mints with the largest totals are the leg's own.
LEMMA TopTwoAreTheLegs ==
    ASSUME CleanChain, routes \in RouteLists, NEW n \in DOMAIN routes, ~routes[n].decoded,
           NEW T \in TopTwo(routes[n].transfers)
    PROVE  /\ T = {routes[n].swap.input_mint, routes[n].swap.output_mint}
           /\ routes[n].swap.input_mint # routes[n].swap.output_mint
<1> DEFINE t == routes[n].transfers
           in == routes[n].swap.input_mint
           out == routes[n].swap.output_mint
<1>1. /\ in # out /\ in \in MintsOf(t) /\ out \in MintsOf(t)
      /\ \A o \in MintsOf(t) \ {in, out} : Total(t, o) < Total(t, in) /\ Total(t, o) < Total(t, out)
  BY DEF CleanChain
<1>2. t \in Seq(Transfer)
  BY RoutesAreTyped
<1>3. PICK a, b \in MintsOf(t) : a # b /\ T = {a, b}
  BY <1>2, TwoMints
<1>4. \A m \in T : \A o \in MintsOf(t) \ T : Total(t, m) >= Total(t, o)
  BY DEF TopTwo
<1>5. \A m : Total(t, m) \in Nat
  BY <1>2, TotalIsNat
<1> HIDE DEF t, in, out
<1>6. ASSUME NEW m \in T, m \notin {in, out}
      PROVE  FALSE
  <2>1. m \in MintsOf(t) \ {in, out}
    BY <1>3, <1>6
  <2>2. Total(t, m) < Total(t, in) /\ Total(t, m) < Total(t, out)
    BY <1>1, <2>1
  <2>3. in \in T /\ out \in T
    BY <1>1, <1>4, <1>5, <2>2
  <2> QED
    BY <1>1, <1>3, <1>6, <2>3
<1>7. T = {in, out}
  BY <1>3, <1>6
<1> QED
  BY <1>1, <1>7 DEF in, out

\* One more shape, of a leg that nothing is known of but what it is.
LEMMA CollectOne ==
    ASSUME LegInv, Collecting, NEW s, ShapeOf(routes[k], s),
           s.known => routes[k].decoded,
           CleanChain => Faithful(routes[k], s),
           shapes' = Append(shapes, s), k' = k + 1,
           UNCHANGED <<routes, held, pass, result>>
    PROVE  LegInv'
<1>1. /\ pass = "collect" /\ k \in DOMAIN routes /\ Len(shapes) = k - 1 /\ held = NoMint
      /\ result = "running" /\ routes \in RouteLists /\ shapes \in Seq(Shapes)
  BY DEF LegInv, Visited, Collecting
<1>2. /\ Len(routes) \in Nat /\ DOMAIN routes = 1 .. Len(routes) /\ routes[k] \in Route
  BY <1>1, RoutesAreTyped
<1>3. s \in Shapes
  BY <1>2, ShapesAreTyped
<1>4. /\ shapes' \in Seq(Shapes) /\ Len(shapes') = k
      /\ DOMAIN shapes' = 1 .. k /\ DOMAIN shapes = 1 .. (k - 1) /\ k \in Nat \ {0}
      /\ shapes'[k] = s /\ \A n \in 1 .. (k - 1) : shapes'[n] = shapes[n]
  BY <1>1, <1>2, <1>3
<1>5. ASSUME NEW n \in DOMAIN shapes'
      PROVE  ShapeOf(routes[n], shapes'[n]) /\ Witnessed(routes, shapes', n)
  <2>1. CASE n = k
    BY <1>4, <2>1 DEF Witnessed
  <2>2. CASE n # k
    <3>1. n \in 1 .. (k - 1) /\ n - 1 \in Int /\ n + 1 \in Int
      BY <1>4, <2>2
    <3>2. ShapeOf(routes[n], shapes[n]) /\ Witnessed(routes, shapes, n) /\ shapes'[n] = shapes[n]
      BY <1>4, <3>1 DEF LegInv
    <3>3. shapes[n].known => routes[n].decoded
      BY <1>1, <1>4, <3>1 DEF LegInv, Visited
    <3> QED
      BY <3>2, <3>3 DEF Witnessed
  <2> QED
    BY <2>1, <2>2
<1>6. Visited' /\ Stuck'
  <2>1. \A n \in DOMAIN shapes' : shapes'[n].known => routes[n].decoded
    BY <1>1, <1>4 DEF LegInv, Visited
  <2> QED
    BY <1>1, <1>4, <2>1 DEF Visited, Stuck, Passes
<1>7. Chained'
  <2>1. CleanChain' = CleanChain
    BY DEF CleanChain
  <2>2. CleanChain => \A n \in DOMAIN shapes' : Faithful(routes[n], shapes'[n])
    BY <1>4 DEF LegInv, Chained
  <2> QED
    BY <1>1, <2>1, <2>2 DEF Chained, Passes
<1> QED
  BY <1>1, <1>2, <1>4, <1>5, <1>6, <1>7 DEF LegInv, Results

LEMMA CollectDecodedKeeps ==
    ASSUME LegInv, CollectDecoded
    PROVE  LegInv'
<1> DEFINE s == Known(routes[k].swap)
<1>1. /\ Collecting /\ routes[k].decoded /\ shapes' = Append(shapes, s) /\ k' = k + 1
      /\ UNCHANGED <<routes, held, pass, result>>
  BY DEF CollectDecoded
<1>2. ShapeOf(routes[k], s) /\ Faithful(routes[k], s)
  BY <1>1, DecodedIsFaithful DEF ShapeOf
<1> HIDE DEF s
<1> QED
  BY <1>1, <1>2, CollectOne

LEMMA CollectCandidatesKeeps ==
    ASSUME LegInv, CollectCandidates
    PROVE  LegInv'
<1> DEFINE t == routes[k].transfers
<1>1. /\ Collecting /\ ~routes[k].decoded /\ NoMint \notin MintsOf(t) /\ k' = k + 1
      /\ UNCHANGED <<routes, held, pass, result>>
  BY DEF CollectCandidates
<1>2. PICK T \in TopTwo(t) : shapes' = Append(shapes, Candidates(SidesOf(t, T)))
  BY DEF CollectCandidates, SidesOf
<1>3. k \in DOMAIN routes /\ routes \in RouteLists
  BY <1>1 DEF LegInv, Collecting
<1>4. t \in Seq(Transfer)
  BY <1>3, RoutesAreTyped
<1>5. PICK a, b \in MintsOf(t) : a # b /\ T = {a, b}
  BY <1>4, TwoMints
<1> DEFINE s == Candidates(SidesOf(t, T))
<1>6. ShapeOf(routes[k], s)
  BY <1>1, <1>5 DEF ShapeOf
<1>7. ~s.known /\ s.sides = SidesOf(t, T)
  BY DEF Candidates
<1>8. CleanChain => Faithful(routes[k], s)
  <2>1. SUFFICES ASSUME CleanChain PROVE Faithful(routes[k], s)
    OBVIOUS
  <2>2. {a, b} = {routes[k].swap.input_mint, routes[k].swap.output_mint}
    BY <1>1, <1>3, <1>5, <2>1, TopTwoAreTheLegs
  <2> HIDE DEF s, t
  <2>3. \A m : Connects(SidesOf(t, {a, b}), m) <=> m = a \/ m = b
    <3>1. a # b
      BY <1>5
    <3> QED
      BY <3>1, SidesConnect, Zenon
  <2> QED
    BY <1>5, <1>7, <2>2, <2>3 DEF Faithful
<1>9. shapes' = Append(shapes, s)
  BY <1>2
<1> HIDE DEF s, t
<1> QED
  BY <1>1, <1>6, <1>7, <1>8, <1>9, CollectOne

LEMMA AllDecodedKeeps ==
    ASSUME LegInv, AllDecoded
    PROVE  LegInv'
<1>1. /\ \A n \in DOMAIN routes : routes[n].decoded
      /\ shapes' = [n \in DOMAIN routes |-> Known(routes[n].swap)]
      /\ pass' = "done" /\ result' = "ok"
      /\ routes' = routes /\ k' = k /\ held' = held
  BY DEF AllDecoded
<1>2. routes \in RouteLists
  BY DEF LegInv
<1>3. /\ Len(routes) \in Nat /\ DOMAIN routes = 1 .. Len(routes)
      /\ \A n \in DOMAIN routes : routes[n] \in Route
  BY <1>2, RoutesAreTyped
<1>4. \A n \in DOMAIN routes : ShapeOf(routes[n], Known(routes[n].swap))
  BY <1>1 DEF ShapeOf
<1>5. \A n \in DOMAIN routes : Known(routes[n].swap) \in Shapes
  BY <1>3, <1>4, ShapesAreTyped
<1>6. /\ shapes' \in Seq(Shapes) /\ Len(shapes') = Len(routes)
      /\ DOMAIN shapes' = DOMAIN routes
      /\ \A n \in DOMAIN routes : shapes'[n] = Known(routes[n].swap)
  BY <1>1, <1>3, <1>5
<1>7. \A n \in DOMAIN shapes' : ShapeOf(routes[n], shapes'[n]) /\ Witnessed(routes, shapes', n)
  BY <1>1, <1>4, <1>6 DEF Witnessed
<1>8. \A n \in DOMAIN shapes' : shapes'[n].known /\ Faithful(routes[n], shapes'[n])
  BY <1>6, DecodedIsFaithful DEF Known
<1>9. Visited' /\ Stuck'
  BY <1>1, <1>6, <1>8 DEF Visited, Stuck, Passes
<1>10. Chained'
  BY <1>1, <1>8 DEF Chained, Passes
<1>11. /\ (routes \in RouteLists /\ k \in 0 .. Len(routes) + 1 /\ held \in Mints \cup {NoMint})'
       /\ (result \in Results /\ pass \in {"collect", "forward", "backward", "done"})'
  BY <1>1 DEF LegInv, Results
<1>12. Len(shapes') <= Len(routes')
  BY <1>1, <1>3, <1>6
<1> HIDE DEF Results
<1> QED
  BY <1>1, <1>6, <1>7, <1>9, <1>10, <1>11, <1>12 DEF LegInv

\* An error ends the collection, never that of a clean chain.
LEMMA FailKeeps ==
    ASSUME LegInv, Collecting, NEW error \in {"UnknownMint", "AmbiguousTransfers"},
           Fail(error), ~CleanChain
    PROVE  LegInv'
<1>1. /\ result' = error /\ pass' = "done" /\ routes' = routes /\ shapes' = shapes
      /\ k' = k /\ held' = held
  BY DEF Fail
<1>2. Visited' /\ Stuck'
  BY <1>1 DEF Visited, Stuck, Passes
<1>3. Chained'
  BY <1>1 DEF Chained, CleanChain
<1> QED
  BY <1>1, <1>2, <1>3 DEF LegInv, Results

LEMMA UnknownMintKeeps ==
    ASSUME LegInv, UnknownMint
    PROVE  LegInv'
<1>1. ~CleanChain
  BY DEF UnknownMint, Collecting, CleanChain
<1> QED
  BY <1>1, FailKeeps DEF UnknownMint

LEMMA AmbiguousTransfersKeeps ==
    ASSUME LegInv, AmbiguousTransfers
    PROVE  LegInv'
<1> DEFINE t == routes[k].transfers
           in == routes[k].swap.input_mint
           out == routes[k].swap.output_mint
<1>1. /\ Collecting /\ k \in DOMAIN routes /\ ~routes[k].decoded
      /\ Cardinality(MintsOf(t)) < 2 /\ routes \in RouteLists
  BY DEF AmbiguousTransfers, Collecting, LegInv
<1>2. t \in Seq(Transfer)
  BY <1>1, RoutesAreTyped
<1>3. IsFiniteSet(MintsOf(t))
  BY <1>2, MintsAreFew
<1>4. ~CleanChain
  <2>1. SUFFICES ASSUME CleanChain PROVE FALSE
    OBVIOUS
  <2>2. in # out /\ {in, out} \subseteq MintsOf(t)
    BY <1>1, <2>1 DEF CleanChain
  <2> HIDE DEF t, in, out
  <2>3. Cardinality({in, out}) <= Cardinality(MintsOf(t)) /\ IsFiniteSet({in, out})
    BY <1>3, <2>2, FS_Subset
  <2>4. IsFiniteSet({in}) /\ Cardinality({in}) = 1
    BY FS_Singleton
  <2>5. Cardinality({in} \cup {out}) = Cardinality({in}) + 1
    BY <2>2, <2>4, FS_AddElement
  <2>6. {in} \cup {out} = {in, out}
    OBVIOUS
  <2>7. Cardinality(MintsOf(t)) \in Nat
    BY <1>3, FS_CardinalityType
  <2>8. Cardinality({in, out}) = 2
    BY <2>4, <2>5, <2>6
  <2> QED
    BY <1>1, <2>3, <2>7, <2>8 DEF t
<1> QED
  BY <1>1, <1>4, FailKeeps DEF AmbiguousTransfers

LEMMA StartForwardKeeps ==
    ASSUME LegInv, StartForward
    PROVE  LegInv'
<1>1. /\ pass = "collect" /\ k > Len(routes) /\ pass' = "forward" /\ k' = 1
      /\ routes' = routes /\ shapes' = shapes /\ held' = held /\ result' = result
      /\ routes \in RouteLists /\ shapes \in Seq(Shapes)
      /\ k \in 0 .. Len(routes) + 1 /\ Len(shapes) = k - 1 /\ held = NoMint
      /\ result = "running" /\ Chained
  BY DEF StartForward, LegInv, Visited
<1>2. /\ Len(routes) \in Nat /\ Len(shapes) = Len(routes) /\ DOMAIN shapes = 1 .. Len(shapes)
  BY <1>1, RoutesAreTyped
<1>3. HandedOn(shapes, 1) = NoMint
  BY <1>2 DEF HandedOn
<1>4. \A n \in DOMAIN shapes : ~ (n < 1)
  BY <1>2
<1>5. Visited' /\ Stuck'
  BY <1>1, <1>2, <1>3, <1>4 DEF Visited, Stuck, Passes
<1>6. Chained'
  BY <1>1, <1>4 DEF Chained, Passes, CleanChain
<1> QED
  BY <1>1, <1>2, <1>5, <1>6 DEF LegInv, Results

LEMMA StartBackwardKeeps ==
    ASSUME LegInv, StartBackward
    PROVE  LegInv'
<1>1. /\ pass = "forward" /\ k > Len(shapes) /\ pass' = "backward" /\ k' = Len(shapes)
      /\ held' = NoMint
      /\ routes' = routes /\ shapes' = shapes /\ result' = result
      /\ routes \in RouteLists /\ shapes \in Seq(Shapes)
      /\ k \in 0 .. Len(routes) + 1 /\ Len(shapes) = Len(routes)
      /\ result = "running" /\ Chained /\ Stuck
  BY DEF StartBackward, LegInv, Visited, Passes
<1>2. /\ Len(routes) \in Nat /\ DOMAIN shapes = 1 .. Len(shapes)
  BY <1>1, RoutesAreTyped
<1>3. HandedBack(shapes, Len(shapes)) = NoMint
  BY <1>1, <1>2 DEF HandedBack
<1>4. \A n \in DOMAIN shapes : n < k /\ ~ (n > Len(shapes))
  BY <1>1, <1>2
<1>5. Visited' /\ Stuck'
  BY <1>1, <1>2, <1>3, <1>4 DEF Visited, Stuck, Passes
<1>6. Chained'
  BY <1>1, <1>4 DEF Chained, Passes, CleanChain
<1> QED
  BY <1>1, <1>2, <1>5, <1>6 DEF LegInv, Results

LEMMA EmitKeeps ==
    ASSUME LegInv, Emit
    PROVE  LegInv'
<1>1. /\ pass = "backward" /\ k = 0 /\ pass' = "done"
      /\ result' = IF Unresolved = {} THEN "ok" ELSE "UnresolvedLeg"
      /\ k' = IF Unresolved = {} THEN k
              ELSE CHOOSE n \in Unresolved : \A o \in Unresolved : n <= o
      /\ routes' = routes /\ shapes' = shapes /\ held' = held
      /\ routes \in RouteLists /\ shapes \in Seq(Shapes)
      /\ k \in 0 .. Len(routes) + 1 /\ Len(shapes) = Len(routes)
      /\ Chained /\ Stuck
  BY DEF Emit, LegInv, Visited, Passes
<1>2. /\ Len(routes) \in Nat /\ DOMAIN shapes = 1 .. Len(routes)
  BY <1>1, RoutesAreTyped
<1>3. Unresolved \in SUBSET Nat /\ Unresolved \subseteq 1 .. Len(routes)
  BY <1>2 DEF Unresolved
<1>4. k' \in 0 .. Len(routes) + 1
  <2>1. CASE Unresolved = {}
    BY <1>1, <2>1
  <2>2. CASE Unresolved # {}
    <3>1. \E n \in Unresolved : \A o \in Unresolved : n <= o
      BY <1>3, <2>2, LeastNumber
    <3>2. k' \in Unresolved
      BY <1>1, <2>2, <3>1
    <3> QED
      BY <1>2, <1>3, <3>2
  <2> QED
    BY <2>1, <2>2
<1>5. \A n \in DOMAIN shapes : n > 0
  BY <1>2
<1>6. Unresolved = {} <=> \A n \in DOMAIN shapes : shapes[n].known
  BY DEF Unresolved
<1>7. Visited' /\ Stuck'
  BY <1>1, <1>5, <1>6 DEF Visited, Stuck, Passes
<1>8. Chained'
  <2>1. CleanChain => \A n \in DOMAIN shapes : shapes[n].known /\ Faithful(routes[n], shapes[n])
    BY <1>1, <1>5 DEF Chained
  <2> QED
    BY <1>1, <1>6, <2>1 DEF Chained, Passes, CleanChain
<1> QED
  BY <1>1, <1>4, <1>7, <1>8 DEF LegInv, Results

--------------------------------------------------------------------------------
(* The passes *)

\* What holds when a pass visits a leg.
LEMMA AtAVisit ==
    ASSUME LegInv, pass \in Passes, k \in DOMAIN shapes
    PROVE  /\ routes \in RouteLists /\ shapes \in Seq(Shapes)
           /\ Len(shapes) = Len(routes) /\ Len(routes) \in Nat
           /\ DOMAIN shapes = 1 .. Len(routes) /\ DOMAIN routes = 1 .. Len(routes)
           /\ k \in 1 .. Len(routes) /\ result = "running"
           /\ held = IF pass = "forward" THEN HandedOn(shapes, k) ELSE HandedBack(shapes, k)
           /\ pass = "forward" \/ pass = "backward"
<1>1. /\ routes \in RouteLists /\ shapes \in Seq(Shapes) /\ Len(shapes) = Len(routes)
      /\ result = "running"
  BY DEF LegInv, Visited, Passes
<1>2. Len(routes) \in Nat /\ DOMAIN routes = 1 .. Len(routes)
  BY <1>1, RoutesAreTyped
<1>3. held = IF pass = "forward" THEN HandedOn(shapes, k) ELSE HandedBack(shapes, k)
  BY DEF LegInv, Visited, Passes
<1> QED
  BY <1>1, <1>2, <1>3 DEF Passes

\* In a clean chain a leg that is handed something in a pass is handed its own mint.
LEMMA HandedItsOwn ==
    ASSUME LegInv, pass \in Passes, k \in DOMAIN shapes, CleanChain, held # NoMint
    PROVE  held = IF pass = "forward" THEN routes[k].swap.input_mint
                  ELSE routes[k].swap.output_mint
<1>1. /\ shapes \in Seq(Shapes) /\ Len(routes) \in Nat
      /\ DOMAIN shapes = 1 .. Len(routes) /\ k \in 1 .. Len(routes)
      /\ held = IF pass = "forward" THEN HandedOn(shapes, k) ELSE HandedBack(shapes, k)
  BY AtAVisit
<1>2. \A n \in 1 .. Len(routes) - 1 :
        routes[n].swap.output_mint = routes[n + 1].swap.input_mint
  BY DEF CleanChain
<1>3. \A n \in DOMAIN shapes : shapes[n].known =>
        /\ shapes[n].swap.input_mint = routes[n].swap.input_mint
        /\ shapes[n].swap.output_mint = routes[n].swap.output_mint
  BY DEF LegInv, Chained, Faithful
<1>4. CASE pass = "forward"
  <2>1. k - 1 \in DOMAIN shapes /\ shapes[k - 1].known
        /\ held = shapes[k - 1].swap.output_mint
    BY <1>1, <1>4 DEF HandedOn
  <2>2. k - 1 \in 1 .. Len(routes) - 1 /\ (k - 1) + 1 = k
    BY <1>1, <2>1
  <2> QED
    BY <1>2, <1>3, <1>4, <2>1, <2>2
<1>5. CASE pass # "forward"
  <2>1. k + 1 \in DOMAIN shapes /\ shapes[k + 1].known
        /\ held = shapes[k + 1].swap.input_mint
    BY <1>1, <1>5 DEF HandedBack
  <2>2. k \in 1 .. Len(routes) - 1
    BY <1>1, <2>1
  <2> QED
    BY <1>2, <1>3, <1>5, <2>1, <2>2
<1> QED
  BY <1>4, <1>5

\* In a clean chain no leg is given up on from the first decoded one on, nor any
\* in the backward pass.
LEMMA NeverGivenUp ==
    ASSUME LegInv, pass \in Passes, k \in DOMAIN shapes, CleanChain,
           shapes[k].known \/ ~Connects(shapes[k].sides, held),
           (\E d \in 1 .. k : routes[d].decoded) \/ pass = "backward"
    PROVE  shapes[k].known
<1>1. /\ shapes \in Seq(Shapes) /\ Len(routes) \in Nat /\ DOMAIN routes = 1 .. Len(routes)
      /\ DOMAIN shapes = 1 .. Len(routes) /\ k \in 1 .. Len(routes)
      /\ held = IF pass = "forward" THEN HandedOn(shapes, k) ELSE HandedBack(shapes, k)
      /\ pass = "forward" \/ pass = "backward"
  BY AtAVisit
<1>2. SUFFICES ASSUME ~shapes[k].known PROVE FALSE
  OBVIOUS
<1>3. held \notin {routes[k].swap.input_mint, routes[k].swap.output_mint}
  BY <1>2 DEF LegInv, Chained, Faithful
<1>4. held = NoMint
  BY <1>3, HandedItsOwn
<1>5. ~routes[k].decoded
  <2>1. ShapeOf(routes[k], shapes[k])
    BY DEF LegInv
  <2> QED
    BY <1>2, <2>1 DEF ShapeOf, Known
<1>6. \A n \in DOMAIN shapes : shapes[n].known =>
        shapes[n].swap.input_mint \in Mints /\ shapes[n].swap.output_mint \in Mints
  <2>1. \A n \in DOMAIN shapes : shapes[n] \in Shapes
    BY <1>1
  <2> QED
    BY <2>1 DEF Shapes, Swap
<1>7. NoMint \notin Mints
  BY RouteAssumption
<1>8. CASE pass = "forward"
  <2>1. PICK d \in 1 .. k : routes[d].decoded
    BY <1>8
  <2>2. d # k
    BY <1>5, <2>1
  <2>3. d \in 1 .. (k - 1) /\ k - 1 \in DOMAIN shapes /\ k - 1 < k
    BY <1>1, <2>2
  <2>4. shapes[k - 1].known
    BY <2>1, <2>3 DEF LegInv, Chained
  <2> QED
    BY <1>1, <1>4, <1>6, <1>7, <1>8, <2>3, <2>4 DEF HandedOn
<1>9. CASE pass = "backward"
  <2>1. PICK d \in DOMAIN routes : routes[d].decoded
    BY DEF CleanChain
  <2>2. ~ (d \in 1 .. k)
    BY <1>2, <1>9, <2>1 DEF LegInv, Chained
  <2>3. k + 1 \in DOMAIN shapes /\ k + 1 > k
    BY <1>1, <2>2
  <2>4. shapes[k + 1].known
    BY <1>9, <2>3 DEF LegInv, Chained
  <2> QED
    BY <1>1, <1>4, <1>6, <1>7, <1>9, <2>3, <2>4 DEF HandedBack
<1> QED
  BY <1>1, <1>8, <1>9

\* A visit that leaves the leg as it is.
LEMMA StayKeeps ==
    ASSUME LegInv, pass \in Passes, k \in DOMAIN shapes,
           shapes[k].known \/ ~Connects(shapes[k].sides, held),
           UNCHANGED <<shapes, routes, pass, result>>,
           k' = IF pass = "forward" THEN k + 1 ELSE k - 1,
           held' = IF pass = "forward" THEN HandedOn(shapes, k') ELSE HandedBack(shapes, k')
    PROVE  LegInv'
<1>1. /\ routes \in RouteLists /\ shapes \in Seq(Shapes)
      /\ Len(shapes) = Len(routes) /\ Len(routes) \in Nat
      /\ DOMAIN shapes = 1 .. Len(routes) /\ DOMAIN routes = 1 .. Len(routes)
      /\ k \in 1 .. Len(routes) /\ result = "running"
      /\ held = IF pass = "forward" THEN HandedOn(shapes, k) ELSE HandedBack(shapes, k)
      /\ pass = "forward" \/ pass = "backward"
  BY AtAVisit
<1>2. held' \in Mints \cup {NoMint}
  BY <1>1, HandsAreTyped
<1>3. k' \in 0 .. Len(routes) + 1
  BY <1>1
<1>4. Visited'
  BY <1>1 DEF Visited, Passes
<1>5. Stuck'
  <2>1. CASE pass = "forward"
    <3>1. StuckForward(shapes, k)
      BY <1>1, <2>1 DEF StuckForward
    <3>2. \A n \in DOMAIN shapes : n < k + 1 => n < k \/ n = k
      BY <1>1
    <3> QED
      BY <1>1, <2>1, <3>1, <3>2 DEF LegInv, Stuck
  <2>2. CASE pass = "backward"
    <3>1. StuckBackward(shapes, k)
      BY <1>1, <2>2 DEF StuckBackward
    <3>2. \A n \in DOMAIN shapes : n > k - 1 => n > k \/ n = k
      BY <1>1
    <3> QED
      BY <1>1, <2>2, <3>1, <3>2 DEF LegInv, Stuck
  <2> QED
    BY <1>1, <2>1, <2>2
<1>6. Chained'
  <2>1. CleanChain' = CleanChain
    BY DEF CleanChain
  <2>2. SUFFICES ASSUME CleanChain PROVE Chained'
    BY <2>1 DEF Chained
  <2>3. CASE pass = "forward"
    <3>1. (\E d \in 1 .. k : routes[d].decoded) => shapes[k].known
      BY <2>2, NeverGivenUp
    <3>2. \A n \in DOMAIN shapes : n < k + 1 => n < k \/ n = k
      BY <1>1
    <3> QED
      BY <1>1, <2>2, <2>3, <3>1, <3>2 DEF LegInv, Chained, Passes
  <2>4. CASE pass = "backward"
    <3>1. shapes[k].known
      BY <2>2, <2>4, NeverGivenUp
    <3>2. \A n \in DOMAIN shapes : n > k - 1 => n > k \/ n = k
      BY <1>1
    <3> QED
      BY <1>1, <2>2, <2>4, <3>1, <3>2 DEF LegInv, Chained, Passes
  <2> QED
    BY <1>1, <2>3, <2>4
<1>7. \A n \in DOMAIN shapes' :
         ShapeOf(routes'[n], shapes'[n]) /\ Witnessed(routes', shapes', n)
  BY DEF LegInv
<1> QED
  BY <1>1, <1>2, <1>3, <1>4, <1>5, <1>6, <1>7 DEF LegInv, Results

\* What a leg that has just been directed changes for its neighbours: it handed
\* nothing to either, and now hands its mints to both.
DirectedAt(ss, new, j, w) ==
    /\ new \in Seq(Shapes) /\ Len(new) = Len(ss) /\ DOMAIN new = DOMAIN ss
    /\ new[j] = Known(w) /\ \A n \in DOMAIN ss : n # j => new[n] = ss[n]
    /\ \A n \in Int : n # j + 1 => HandedOn(new, n) = HandedOn(ss, n)
    /\ \A n \in Int : n # j - 1 => HandedBack(new, n) = HandedBack(ss, n)
    /\ HandedOn(new, j + 1) = w.output_mint /\ HandedOn(ss, j + 1) = NoMint
    /\ HandedBack(new, j - 1) = w.input_mint /\ HandedBack(ss, j - 1) = NoMint

LEMMA HandsOfDirected ==
    ASSUME NEW ss \in Seq(Shapes), NEW j \in DOMAIN ss, ~ss[j].known, NEW w \in Swap
    PROVE  DirectedAt(ss, [ss EXCEPT ![j] = Known(w)], j, w)
<1> DEFINE new == [ss EXCEPT ![j] = Known(w)]
<1>1. Known(w) \in Shapes /\ Known(w).known /\ Known(w).swap = w
  BY DEF Known, Shapes
<1>2. /\ new \in Seq(Shapes) /\ Len(new) = Len(ss) /\ DOMAIN new = DOMAIN ss
      /\ new[j] = Known(w) /\ \A n \in DOMAIN ss : n # j => new[n] = ss[n]
      /\ j \in Int /\ DOMAIN ss \subseteq Int
  BY <1>1
<1> HIDE DEF new
<1>3. ASSUME NEW n \in Int, n # j + 1 PROVE HandedOn(new, n) = HandedOn(ss, n)
  <2>1. n - 1 # j
    BY <1>2, <1>3
  <2> QED
    BY <1>2, <2>1 DEF HandedOn
<1>4. ASSUME NEW n \in Int, n # j - 1 PROVE HandedBack(new, n) = HandedBack(ss, n)
  <2>1. n + 1 # j
    BY <1>2, <1>4
  <2> QED
    BY <1>2, <2>1 DEF HandedBack
<1>5. (j + 1) - 1 = j /\ (j - 1) + 1 = j
  BY <1>2
<1>6. HandedOn(new, j + 1) = w.output_mint /\ HandedOn(ss, j + 1) = NoMint
  BY <1>1, <1>2, <1>5 DEF HandedOn
<1>7. HandedBack(new, j - 1) = w.input_mint /\ HandedBack(ss, j - 1) = NoMint
  BY <1>1, <1>2, <1>5 DEF HandedBack
<1>8. DirectedAt(ss, new, j, w)
  BY <1>2, <1>3, <1>4, <1>6, <1>7 DEF DirectedAt
<1> QED
  BY <1>8 DEF new

\* A visit that directs the leg, from a to b.
Directs(a, b) ==
    LET t == routes[k].transfers
    IN  /\ ~routes[k].decoded /\ NoMint \notin MintsOf(t)
        /\ a \in MintsOf(t) /\ b \in MintsOf(t) /\ a # b
        /\ {a, b} \in TopTwo(t) /\ shapes[k] = Candidates(SidesOf(t, {a, b}))
        /\ held = (IF pass = "forward" THEN a ELSE b)
        /\ shapes' = [shapes EXCEPT ![k] = Known(Directed(t, a, b))]
        /\ held' = (IF pass = "forward" THEN b ELSE a)
        /\ k' = (IF pass = "forward" THEN k + 1 ELSE k - 1)
        /\ UNCHANGED <<routes, pass, result>>

LEMMA DirectedFacts ==
    ASSUME LegInv, pass \in Passes, k \in DOMAIN shapes, NEW a, NEW b, Directs(a, b)
    PROVE  /\ ~shapes[k].known /\ a \in Mints /\ b \in Mints
           /\ shapes' \in Seq(Shapes) /\ Len(shapes') = Len(shapes)
           /\ DOMAIN shapes' = DOMAIN shapes
           /\ shapes'[k].known /\ shapes'[k].swap.input_mint = a
           /\ shapes'[k].swap.output_mint = b
           /\ ShapeOf(routes[k], shapes'[k])
           /\ \A n \in DOMAIN shapes : n # k => shapes'[n] = shapes[n]
           /\ \A n \in Int : n # k + 1 => HandedOn(shapes', n) = HandedOn(shapes, n)
           /\ \A n \in Int : n # k - 1 => HandedBack(shapes', n) = HandedBack(shapes, n)
           /\ HandedOn(shapes', k + 1) = b /\ HandedOn(shapes, k + 1) = NoMint
           /\ HandedBack(shapes', k - 1) = a /\ HandedBack(shapes, k - 1) = NoMint
           /\ CleanChain => Faithful(routes[k], shapes'[k])
<1> DEFINE t == routes[k].transfers
           w == Directed(t, a, b)
<1>1. /\ ~routes[k].decoded /\ NoMint \notin MintsOf(t)
      /\ a \in MintsOf(t) /\ b \in MintsOf(t) /\ a # b
      /\ {a, b} \in TopTwo(t) /\ shapes[k] = Candidates(SidesOf(t, {a, b}))
      /\ held = (IF pass = "forward" THEN a ELSE b)
      /\ shapes' = [shapes EXCEPT ![k] = Known(w)]
  BY DEF Directs
<1>2. /\ routes \in RouteLists /\ shapes \in Seq(Shapes) /\ k \in DOMAIN routes
  BY AtAVisit
<1>3. t \in Seq(Transfer)
  BY <1>2, RoutesAreTyped
<1>4. a \in Mints /\ b \in Mints /\ w \in Swap
  BY <1>1, <1>3, SidesAreTyped
<1>5. w.input_mint = a /\ w.output_mint = b
  BY DEF Directed
<1>6. ~shapes[k].known /\ shapes[k].sides = SidesOf(t, {a, b})
  BY <1>1 DEF Candidates
<1>7. ShapeOf(routes[k], Known(w))
  BY <1>1 DEF ShapeOf
<1>8. Known(w).known /\ Known(w).swap = w
  BY DEF Known
<1>9. CleanChain => Faithful(routes[k], Known(w))
  <2> DEFINE in == routes[k].swap.input_mint
             out == routes[k].swap.output_mint
  <2>1. SUFFICES ASSUME CleanChain PROVE Faithful(routes[k], Known(w))
    OBVIOUS
  <2>2. {a, b} = {in, out}
    BY <1>1, <1>2, <2>1, TopTwoAreTheLegs
  <2>3. held # NoMint
    BY <1>1, <1>4, RouteAssumption
  <2>4. held = IF pass = "forward" THEN in ELSE out
    BY <2>1, <2>3, HandedItsOwn
  <2>5. a = in /\ b = out
    <3> HIDE DEF in, out, t, w
    <3> QED
      BY <1>1, <2>2, <2>4
  <2> QED
    BY <1>5, <1>8, <2>5 DEF Faithful
<1> HIDE DEF w, t
<1>10. DirectedAt(shapes, shapes', k, w)
  BY <1>1, <1>2, <1>4, <1>6, HandsOfDirected
<1> QED
  BY <1>4, <1>5, <1>6, <1>7, <1>8, <1>9, <1>10 DEF DirectedAt

LEMMA DirectsKeeps ==
    ASSUME LegInv, pass \in Passes, k \in DOMAIN shapes, NEW a, NEW b, Directs(a, b)
    PROVE  LegInv'
<1>1. /\ routes \in RouteLists /\ shapes \in Seq(Shapes)
      /\ Len(shapes) = Len(routes) /\ Len(routes) \in Nat
      /\ DOMAIN shapes = 1 .. Len(routes) /\ DOMAIN routes = 1 .. Len(routes)
      /\ k \in 1 .. Len(routes) /\ result = "running"
      /\ held = IF pass = "forward" THEN HandedOn(shapes, k) ELSE HandedBack(shapes, k)
      /\ pass = "forward" \/ pass = "backward"
  BY AtAVisit
<1>2. /\ held = (IF pass = "forward" THEN a ELSE b)
      /\ held' = (IF pass = "forward" THEN b ELSE a)
      /\ k' = (IF pass = "forward" THEN k + 1 ELSE k - 1)
      /\ routes' = routes /\ pass' = pass /\ result' = result
  BY DEF Directs
<1>3. /\ ~shapes[k].known /\ a \in Mints /\ b \in Mints
      /\ shapes' \in Seq(Shapes) /\ Len(shapes') = Len(shapes)
      /\ DOMAIN shapes' = DOMAIN shapes
      /\ shapes'[k].known /\ shapes'[k].swap.input_mint = a
      /\ shapes'[k].swap.output_mint = b
      /\ ShapeOf(routes[k], shapes'[k])
      /\ \A n \in DOMAIN shapes : n # k => shapes'[n] = shapes[n]
      /\ \A n \in Int : n # k + 1 => HandedOn(shapes', n) = HandedOn(shapes, n)
      /\ \A n \in Int : n # k - 1 => HandedBack(shapes', n) = HandedBack(shapes, n)
      /\ HandedOn(shapes', k + 1) = b /\ HandedOn(shapes, k + 1) = NoMint
      /\ HandedBack(shapes', k - 1) = a /\ HandedBack(shapes, k - 1) = NoMint
      /\ CleanChain => Faithful(routes[k], shapes'[k])
  BY DirectedFacts
<1>4. NoMint \notin Mints
  BY RouteAssumption
<1>5. \A n \in DOMAIN shapes : n \in Int /\ n # n + 1 /\ n # n - 1
  BY <1>1
<1>6. \A n \in DOMAIN shapes : shapes[n].known =>
        shapes[n].swap.input_mint \in Mints /\ shapes[n].swap.output_mint \in Mints
  <2>1. \A n \in DOMAIN shapes : shapes[n] \in Shapes
    BY <1>1
  <2> QED
    BY <2>1 DEF Shapes, Swap
<1>7. ASSUME NEW n \in DOMAIN shapes
      PROVE  ShapeOf(routes[n], shapes'[n]) /\ Witnessed(routes, shapes', n)
  <2>1. CASE n = k
    <3>1. a = HandedOn(shapes', k) \/ b = HandedBack(shapes', k)
      BY <1>1, <1>2, <1>3, <1>5
    <3> QED
      BY <1>3, <2>1, <3>1 DEF Witnessed
  <2>2. CASE n # k
    <3>1. ShapeOf(routes[n], shapes[n]) /\ Witnessed(routes, shapes, n) /\ shapes'[n] = shapes[n]
      BY <1>3, <2>2 DEF LegInv
    <3>2. CASE ~shapes[n].known \/ routes[n].decoded
      BY <3>1, <3>2 DEF Witnessed
    <3>3. CASE shapes[n].known /\ shapes[n].swap.input_mint = HandedOn(shapes, n)
      <4>1. HandedOn(shapes, n) # NoMint
        BY <1>4, <1>6, <3>3
      <4>2. HandedOn(shapes', n) = HandedOn(shapes, n)
        BY <1>3, <1>5, <4>1
      <4> QED
        BY <3>1, <3>3, <4>2 DEF Witnessed
    <3>4. CASE shapes[n].known /\ shapes[n].swap.output_mint = HandedBack(shapes, n)
      <4>1. HandedBack(shapes, n) # NoMint
        BY <1>4, <1>6, <3>4
      <4>2. HandedBack(shapes', n) = HandedBack(shapes, n)
        BY <1>3, <1>5, <4>1
      <4> QED
        BY <3>1, <3>4, <4>2 DEF Witnessed
    <3> QED
      BY <3>1, <3>2, <3>3, <3>4 DEF Witnessed
  <2> QED
    BY <2>1, <2>2
<1>8. Visited'
  <2>1. held' = IF pass = "forward" THEN HandedOn(shapes', k + 1) ELSE HandedBack(shapes', k - 1)
    BY <1>2, <1>3
  <2> QED
    BY <1>1, <1>2, <1>3, <2>1 DEF Visited, Passes
<1>9. Stuck'
  <2>1. ASSUME NEW n \in DOMAIN shapes, StuckForward(shapes, n), n = k + 1 => shapes[n].known
        PROVE  StuckForward(shapes', n)
    BY <1>3, <1>5, <2>1 DEF StuckForward
  <2>2. ASSUME NEW n \in DOMAIN shapes, StuckBackward(shapes, n), n = k - 1 => shapes[n].known
        PROVE  StuckBackward(shapes', n)
    BY <1>3, <1>5, <2>2 DEF StuckBackward
  <2>3. StuckForward(shapes', k) /\ StuckBackward(shapes', k)
    BY <1>3 DEF StuckForward, StuckBackward
  <2>4. CASE pass = "forward"
    <3>1. ASSUME NEW n \in DOMAIN shapes, n < k + 1
          PROVE  StuckForward(shapes', n)
      <4>1. n = k \/ (n < k /\ n # k + 1)
        BY <1>1, <3>1
      <4>2. n < k => StuckForward(shapes, n)
        BY <2>4 DEF LegInv, Stuck
      <4> QED
        BY <2>1, <2>3, <4>1, <4>2
    <3> QED
      BY <1>1, <1>2, <1>3, <2>4, <3>1 DEF Stuck
  <2>5. CASE pass = "backward"
    <3>1. HandedBack(shapes, k) # NoMint
      BY <1>1, <1>2, <1>3, <1>4, <2>5
    <3>2. shapes[k + 1].known
      BY <1>1, <3>1 DEF HandedBack
    <3>3. ASSUME NEW n \in DOMAIN shapes PROVE StuckForward(shapes', n)
      <4>1. StuckForward(shapes, n)
        BY <2>5 DEF LegInv, Stuck
      <4> QED
        BY <2>1, <3>2, <4>1
    <3>4. ASSUME NEW n \in DOMAIN shapes, n > k - 1 PROVE StuckBackward(shapes', n)
      <4>1. n = k \/ (n > k /\ n # k - 1)
        BY <1>1, <3>4
      <4>2. n > k => StuckBackward(shapes, n)
        BY <2>5 DEF LegInv, Stuck
      <4> QED
        BY <2>2, <2>3, <4>1, <4>2
    <3> QED
      BY <1>1, <1>2, <1>3, <2>5, <3>3, <3>4 DEF Stuck
  <2> QED
    BY <1>1, <2>4, <2>5
<1>10. Chained'
  <2>1. CleanChain' = CleanChain
    BY <1>2 DEF CleanChain
  <2>2. SUFFICES ASSUME CleanChain PROVE Chained'
    BY <2>1 DEF Chained
  <2>3. \A n \in DOMAIN shapes : Faithful(routes[n], shapes'[n])
    BY <1>3, <2>2 DEF LegInv, Chained
  <2>4. \A n \in DOMAIN shapes : shapes[n].known => shapes'[n].known
    BY <1>3
  <2>5. CASE pass = "forward"
    <3>1. \A n \in DOMAIN shapes : n < k + 1 => n < k \/ n = k
      BY <1>1
    <3>2. \A n \in DOMAIN shapes :
            (\E d \in 1 .. n : routes[d].decoded) /\ n < k + 1 => shapes'[n].known
      BY <1>3, <2>2, <2>4, <2>5, <3>1 DEF LegInv, Chained, Passes
    <3> QED
      BY <1>1, <1>2, <1>3, <2>3, <2>5, <3>2 DEF Chained
  <2>6. CASE pass = "backward"
    <3>1. \A n \in DOMAIN shapes : n > k - 1 => n > k \/ n = k
      BY <1>1
    <3>2. \A n \in DOMAIN shapes : n > k - 1 => shapes'[n].known
      BY <1>3, <2>2, <2>4, <2>6, <3>1 DEF LegInv, Chained
    <3>3. \A n \in DOMAIN shapes : (\E d \in 1 .. n : routes[d].decoded) => shapes'[n].known
      BY <2>2, <2>4, <2>6 DEF LegInv, Chained, Passes
    <3> QED
      BY <1>1, <1>2, <1>3, <2>3, <2>6, <3>2, <3>3 DEF Chained
  <2> QED
    BY <1>1, <2>5, <2>6
<1>11. k' \in 0 .. Len(routes) + 1
  BY <1>1, <1>2
<1> QED
  BY <1>1, <1>2, <1>3, <1>7, <1>8, <1>9, <1>10, <1>11 DEF LegInv, Results

\* A visit directs the leg by what it is handed, or leaves it as it is.
LEMMA VisitKeeps ==
    ASSUME LegInv, pass \in Passes, k \in DOMAIN shapes, Visit(pass = "forward"),
           k' = (IF pass = "forward" THEN k + 1 ELSE k - 1), UNCHANGED <<routes, pass, result>>
    PROVE  LegInv'
<1> DEFINE t == routes[k].transfers
           there == IF pass = "forward" THEN HandedOn(shapes, k') ELSE HandedBack(shapes, k')
<1>1. /\ routes \in RouteLists /\ shapes \in Seq(Shapes) /\ Len(routes) \in Nat
      /\ DOMAIN shapes = 1 .. Len(routes) /\ k \in 1 .. Len(routes)
      /\ pass = "forward" \/ pass = "backward"
  BY AtAVisit
<1>2. (k + 1) - 1 = k /\ (k - 1) + 1 = k
  BY <1>1
<1>3. CASE shapes[k].known
  <2>1. /\ shapes' = shapes
        /\ held' = (IF pass = "forward" THEN shapes[k].swap.output_mint
                    ELSE shapes[k].swap.input_mint)
    BY <1>3 DEF Visit
  <2>2. held' = there
    BY <1>2, <1>3, <2>1 DEF HandedOn, HandedBack
  <2> QED
    BY <1>3, <2>1, <2>2, StayKeeps
<1>4. CASE ~shapes[k].known /\ ~Connects(shapes[k].sides, held)
  <2>1. shapes' = shapes /\ held' = NoMint
    BY <1>4 DEF Visit
  <2>2. held' = there
    BY <1>2, <1>4, <2>1 DEF HandedOn, HandedBack
  <2> QED
    BY <1>4, <2>1, <2>2, StayKeeps
<1>5. CASE ~shapes[k].known /\ Connects(shapes[k].sides, held)
  <2> DEFINE r == Resolve(shapes[k].sides, held, pass = "forward")
  <2>1. /\ shapes' = [shapes EXCEPT ![k] = Known(r)]
        /\ held' = (IF pass = "forward" THEN r.output_mint ELSE r.input_mint)
    BY <1>5 DEF Visit
  <2>2. ShapeOf(routes[k], shapes[k])
    BY DEF LegInv
  <2>3. PICK a, b \in MintsOf(t) : a # b /\ {a, b} \in TopTwo(t)
                                   /\ shapes[k] = Candidates(SidesOf(t, {a, b}))
    <3>1. \A x : Known(x).known
      BY DEF Known
    <3>2. \A x : shapes[k] # Known(x)
      BY <1>5, <3>1
    <3> QED
      BY <2>2, <3>2 DEF ShapeOf
  <2>4. ~routes[k].decoded /\ NoMint \notin MintsOf(t)
    BY <1>5, <2>2 DEF ShapeOf, Known
  <2>5. shapes[k].sides = SidesOf(t, {a, b})
    BY <2>3 DEF Candidates
  <2> DEFINE from == IF (pass = "forward") <=> (held = a) THEN a ELSE b
             to == IF (pass = "forward") <=> (held = a) THEN b ELSE a
  <2>6. held = a \/ held = b
    <3>1. Connects(SidesOf(t, {a, b}), held)
      BY <1>5, <2>5
    <3>2. a # b
      BY <2>3
    <3> HIDE DEF t
    <3>3. \A m : Connects(SidesOf(t, {a, b}), m) <=> m = a \/ m = b
      BY <3>2, SidesConnect, Zenon
    <3> QED
      BY <3>1, <3>3
  <2>7. /\ from # to /\ {from, to} = {a, b} /\ from \in MintsOf(t) /\ to \in MintsOf(t)
        /\ held = IF pass = "forward" THEN from ELSE to
    BY <2>3, <2>6
  <2> HIDE DEF from, to
  <2>8. r = Directed(t, from, to)
    <3> HIDE DEF t
    <3>1. /\ Resolve(SidesOf(t, {from, to}), from, TRUE) = Directed(t, from, to)
          /\ Resolve(SidesOf(t, {from, to}), to, FALSE) = Directed(t, from, to)
      <4>1. from # to
        BY <2>7
      <4> QED
        BY <4>1, SidesConnect, Zenon
    <3>2. CASE pass = "forward"
      <4>1. (pass = "forward") = TRUE
        BY <3>2
      <4> QED
        BY <2>5, <2>7, <3>1, <3>2, <4>1
    <3>3. CASE pass # "forward"
      <4>1. (pass = "forward") = FALSE
        BY <3>3
      <4> QED
        BY <2>5, <2>7, <3>1, <3>3, <4>1
    <3> QED
      BY <3>2, <3>3
  <2>9. r.input_mint = from /\ r.output_mint = to
    BY <2>8 DEF Directed
  <2>10. Directs(from, to)
    <3> HIDE DEF r
    <3> QED
      BY <2>1, <2>3, <2>4, <2>7, <2>8, <2>9 DEF Directs
  <2> QED
    BY <2>10, DirectsKeeps
<1> QED
  BY <1>3, <1>4, <1>5

LEMMA ForwardKeeps ==
    ASSUME LegInv, Forward
    PROVE  LegInv'
<1>1. /\ pass = "forward" /\ pass \in Passes /\ k \in DOMAIN shapes /\ Visit(TRUE)
      /\ k' = k + 1 /\ UNCHANGED <<routes, pass, result>>
  BY DEF Forward, Passes
<1>2. (pass = "forward") = TRUE
  BY <1>1
<1>3. Visit(pass = "forward")
  BY <1>1, <1>2
<1> QED
  BY <1>1, <1>3, VisitKeeps

LEMMA BackwardKeeps ==
    ASSUME LegInv, Backward
    PROVE  LegInv'
<1>1. /\ pass = "backward" /\ pass \in Passes /\ k \in DOMAIN shapes /\ Visit(FALSE)
      /\ k' = k - 1 /\ UNCHANGED <<routes, pass, result>>
  BY DEF Backward, Passes
<1>2. (pass = "forward") = FALSE
  BY <1>1
<1>3. Visit(pass = "forward")
  BY <1>1, <1>2
<1> QED
  BY <1>1, <1>3, VisitKeeps

LEMMA StutterKeeps ==
    ASSUME LegInv, UNCHANGED vars
    PROVE  LegInv'
BY DEF LegInv, vars, Visited, Stuck, Chained, CleanChain, Witnessed

LEMMA LegsStepKeeps == LegInv /\ [Next]_vars => LegInv'
BY AllDecodedKeeps, CollectDecodedKeeps, CollectCandidatesKeeps, UnknownMintKeeps,
   AmbiguousTransfersKeeps, StartForwardKeeps, ForwardKeeps, StartBackwardKeeps,
   BackwardKeeps, EmitKeeps, StutterKeeps DEF Next, Ended

--------------------------------------------------------------------------------
(* What the passes show *)

\* The net swap takes its legs from the passes as RouteLegs specifies them.
LEMMA LegsAreSpecified == NetSpec => Spec
<1>1. NetInit => Init
  BY DEF NetInit
<1>2. [NetNext]_allVars => [Next]_vars
  BY DEF NetNext, allVars, DirectLegs, HandOverLegs, NoLegs, HandOverEvents, TakeEvent,
         WalkGraph, Finished, HandOver
<1> QED
  BY <1>1, <1>2, PTL DEF NetSpec, Spec

LEMMA LegsInvariant == Spec => []LegInv
BY InitLegInv, LegsStepKeeps, PTL DEF Spec

LEMMA InvariantIsTyped == LegInv => TypeOK
<1> SUFFICES ASSUME LegInv PROVE TypeOK
  OBVIOUS
<1>1. routes \in Seq(Route)
  BY RoutesAreTyped DEF LegInv
<1>2. \A n \in DOMAIN shapes : shapes[n] \in Shapes
  BY DEF LegInv
<1> QED
  BY <1>1, <1>2 DEF LegInv, Shapes, TypeOK, Results

\* In a finished route every leg is known.
LEMMA FinishedIsKnown ==
    ASSUME LegInv, result = "ok"
    PROVE  /\ shapes \in Seq(Shapes) /\ Len(routes) \in Nat
           /\ DOMAIN shapes = 1 .. Len(routes) /\ DOMAIN routes = 1 .. Len(routes)
           /\ \A n \in DOMAIN shapes : /\ shapes[n].known /\ Legs[n] = shapes[n].swap
                                      /\ Legs[n] \in Swap
<1>1. /\ routes \in RouteLists /\ shapes \in Seq(Shapes) /\ Len(shapes) = Len(routes)
      /\ \A n \in DOMAIN shapes : shapes[n].known
  BY DEF LegInv, Visited, Stuck
<1>2. Len(routes) \in Nat /\ DOMAIN routes = 1 .. Len(routes)
  BY <1>1, RoutesAreTyped
<1>3. \A n \in DOMAIN shapes : shapes[n] \in Shapes
  BY <1>1
<1>4. \A n \in DOMAIN shapes : shapes[n].swap \in Swap
  BY <1>1, <1>3 DEF Shapes
<1> QED
  BY <1>1, <1>2, <1>4 DEF Legs

LEMMA InvariantWitnesses == LegInv => DirectionsHaveWitness
<1> SUFFICES ASSUME LegInv, result = "ok", NEW n \in DOMAIN routes, ~routes[n].decoded
             PROVE  \/ n > 1 /\ Legs[n].input_mint = Legs[n - 1].output_mint
                    \/ n < Len(routes) /\ Legs[n].output_mint = Legs[n + 1].input_mint
  BY DEF DirectionsHaveWitness
<1>1. /\ shapes \in Seq(Shapes) /\ Len(routes) \in Nat
      /\ DOMAIN shapes = 1 .. Len(routes) /\ DOMAIN routes = 1 .. Len(routes)
      /\ \A o \in DOMAIN shapes : /\ shapes[o].known /\ Legs[o] = shapes[o].swap
                                 /\ Legs[o] \in Swap
  BY FinishedIsKnown
<1>2. Witnessed(routes, shapes, n)
  BY <1>1 DEF LegInv
<1>3. NoMint \notin Mints /\ Legs[n].input_mint \in Mints /\ Legs[n].output_mint \in Mints
  BY <1>1, RouteAssumption DEF Swap
<1>4. CASE Legs[n].input_mint = HandedOn(shapes, n)
  BY <1>1, <1>3, <1>4 DEF HandedOn
<1>5. CASE Legs[n].output_mint = HandedBack(shapes, n)
  BY <1>1, <1>3, <1>5 DEF HandedBack
<1> QED
  BY <1>1, <1>2, <1>4, <1>5 DEF Witnessed

LEMMA InvariantDisconnects == LegInv => StuckLegsAreDisconnected
<1> SUFFICES ASSUME LegInv, result = "UnresolvedLeg", NEW n \in Unresolved
             PROVE  /\ (n > 1 /\ shapes[n - 1].known) =>
                          ~Connects(shapes[n].sides, shapes[n - 1].swap.output_mint)
                    /\ (n < Len(shapes) /\ shapes[n + 1].known) =>
                          ~Connects(shapes[n].sides, shapes[n + 1].swap.input_mint)
  BY DEF StuckLegsAreDisconnected
<1>1. /\ n \in DOMAIN shapes /\ ~shapes[n].known /\ shapes \in Seq(Shapes)
      /\ StuckForward(shapes, n) /\ StuckBackward(shapes, n)
  BY DEF Unresolved, LegInv, Stuck
<1>2. n \in 1 .. Len(shapes) /\ Len(shapes) \in Nat /\ DOMAIN shapes = 1 .. Len(shapes)
  BY <1>1
<1>3. (n > 1 => n - 1 \in DOMAIN shapes) /\ (n < Len(shapes) => n + 1 \in DOMAIN shapes)
  BY <1>2
<1> QED
  BY <1>1, <1>3 DEF StuckForward, StuckBackward, HandedOn, HandedBack

LEMMA InvariantRecovers == LegInv => ChainRecovered
<1> SUFFICES ASSUME LegInv, CleanChain, pass = "done"
             PROVE  /\ result = "ok"
                    /\ \A n \in DOMAIN routes :
                         /\ Legs[n].input_mint = routes[n].swap.input_mint
                         /\ Legs[n].output_mint = routes[n].swap.output_mint
  BY DEF ChainRecovered
<1>1. result = "ok"
  BY DEF LegInv, Chained, Visited
<1> QED
  BY <1>1, FinishedIsKnown DEF LegInv, Chained, Faithful

\* Every variable of the passes keeps its type, whatever legs an aggregator
\* called (Routes::swap).
THEOREM LegsTypeCorrect == NetSpec => []TypeOK
BY LegsAreSpecified, LegsInvariant, InvariantIsTyped, PTL

\* No leg's direction is guessed: a neighbour is its witness (to_swaps).
THEOREM NoDirectionIsGuessed == NetSpec => []DirectionsHaveWitness
BY LegsAreSpecified, LegsInvariant, InvariantWitnesses, PTL

\* A leg that two passes cannot direct, no third pass could (to_swaps).
THEOREM TwoPassesAreEnough == NetSpec => []StuckLegsAreDisconnected
BY LegsAreSpecified, LegsInvariant, InvariantDisconnects, PTL

\* Of a route executed as one chain, one leg of it decoded, every leg gets back
\* the direction it was executed in (to_swaps, resolve).
THEOREM DirectionsRecovered == NetSpec => []ChainRecovered
BY LegsAreSpecified, LegsInvariant, InvariantRecovers, PTL

--------------------------------------------------------------------------------
(* What the legs moved *)

\* A running sum, its steps, and that it never falls.
LEMMA SumFacts ==
    ASSUME NEW f \in Seq(Nat)
    PROVE  /\ Sum(f, 0) = 0
           /\ \A n \in 1 .. Len(f) : Sum(f, n) = Sum(f, n - 1) + f[n]
           /\ \A n \in 0 .. Len(f) : Sum(f, n) \in Nat
<1>1. \A n : Sum(f, n) = RunningSum(f, n)
  BY DEF Sum, RunningSum
<1> QED
  BY <1>1, RunningSumFacts

LEMMA SumGrows ==
    ASSUME NEW f \in Seq(Nat), NEW n \in 0 .. Len(f)
    PROVE  Sum(f, n) <= Sum(f, Len(f))
<1> DEFINE N == Len(f)
           Bad == {j \in 0 .. N : ~ (Sum(f, N - j) <= Sum(f, N))}
<1>1. N \in Nat /\ \A j \in 1 .. N : f[j] \in Nat
  OBVIOUS
<1>2. /\ \A j \in 1 .. N : Sum(f, j) = Sum(f, j - 1) + f[j]
      /\ \A j \in 0 .. N : Sum(f, j) \in Nat
  BY SumFacts
<1>3. Bad = {}
  <2> SUFFICES ASSUME Bad # {} PROVE FALSE
    OBVIOUS
  <2>1. Bad \in SUBSET Nat
    BY <1>1
  <2>2. PICK j \in Bad : \A o \in Bad : j <= o
    <3> HIDE DEF Bad
    <3> QED
      BY <2>1, LeastNumber
  <2> HIDE DEF N
  <2>3. j \in 0 .. N /\ ~ (Sum(f, N - j) <= Sum(f, N))
    OBVIOUS
  <2>4. j # 0
    <3>1. Sum(f, N) \in Nat /\ N - 0 = N
      BY <1>1, <1>2
    <3> QED
      BY <2>3, <3>1
  <2>5. /\ j - 1 \in 0 .. N /\ ~(j <= j - 1) /\ N - j + 1 \in 1 .. N /\ N - j \in 0 .. N
        /\ N - (j - 1) = N - j + 1 /\ (N - j + 1) - 1 = N - j
    BY <1>1, <2>3, <2>4
  <2>6. Sum(f, N - j + 1) <= Sum(f, N)
    BY <2>2, <2>5
  <2>7. Sum(f, N - j + 1) = Sum(f, N - j) + f[N - j + 1]
    BY <1>2, <2>5
  <2>8. /\ Sum(f, N - j + 1) \in Nat /\ Sum(f, N - j) \in Nat /\ f[N - j + 1] \in Nat
        /\ Sum(f, N) \in Nat
    <3>1. N - j + 1 \in 0 .. N /\ N \in 0 .. N
      BY <1>1, <2>5
    <3> QED
      BY <1>1, <1>2, <2>5, <3>1
  <2> QED
    BY <2>3, <2>6, <2>7, <2>8
<1>4. N - n \in 0 .. N /\ N - (N - n) = n
  BY <1>1
<1> HIDE DEF N
<1> QED
  BY <1>3, <1>4 DEF N

\* What the legs took and gave, as lists of numbers.
LEMMA FlowLists ==
    ASSUME routes \in RouteLists, NEW m
    PROVE  /\ Took(m) \in Seq(Nat) /\ Len(Took(m)) = Len(routes)
           /\ Gave(m) \in Seq(Nat) /\ Len(Gave(m)) = Len(routes)
           /\ Len(routes) \in Nat
           /\ \A n \in 1 .. Len(routes) :
                /\ Took(m)[n] = IF routes[n].swap.input_mint = m
                                THEN routes[n].swap.input_amount ELSE 0
                /\ Gave(m)[n] = IF routes[n].swap.output_mint = m
                                THEN routes[n].swap.output_amount ELSE 0
<1>1. /\ Len(routes) \in Nat /\ DOMAIN routes = 1 .. Len(routes)
      /\ \A n \in DOMAIN routes : routes[n].swap \in Swap
  BY RoutesAreTyped
<1>2. \A s \in Swap : s.input_amount \in Nat /\ s.output_amount \in Nat
  BY DEF Swap
<1>3. \A n \in 1 .. Len(routes) :
        routes[n].swap.input_amount \in Nat /\ routes[n].swap.output_amount \in Nat
  BY <1>1, <1>2
<1>4. /\ Took(m) = [n \in 1 .. Len(routes) |-> IF routes[n].swap.input_mint = m
                                THEN routes[n].swap.input_amount ELSE 0]
      /\ Gave(m) = [n \in 1 .. Len(routes) |-> IF routes[n].swap.output_mint = m
                                THEN routes[n].swap.output_amount ELSE 0]
  BY <1>1 DEF Took, Gave
<1>5. Took(m) \in [1 .. Len(routes) -> Nat] /\ Gave(m) \in [1 .. Len(routes) -> Nat]
  BY <1>3, <1>4
<1> QED
  BY <1>1, <1>4, <1>5

\* The steps of the running totals.
LEMMA FlowSums ==
    ASSUME routes \in RouteLists, NEW m
    PROVE  /\ Sum(Took(m), 0) = 0 /\ Sum(Gave(m), 0) = 0
           /\ \A n \in 0 .. Len(routes) :
                Sum(Took(m), n) \in Nat /\ Sum(Gave(m), n) \in Nat
           /\ \A n \in 0 .. Len(routes) :
                /\ Sum(Took(m), n) <= Sum(Took(m), Len(routes))
                /\ Sum(Gave(m), n) <= Sum(Gave(m), Len(routes))
           /\ \A n \in 1 .. Len(routes) :
                /\ Sum(Took(m), n) = Sum(Took(m), n - 1)
                     + IF routes[n].swap.input_mint = m
                       THEN routes[n].swap.input_amount ELSE 0
                /\ Sum(Gave(m), n) = Sum(Gave(m), n - 1)
                     + IF routes[n].swap.output_mint = m
                       THEN routes[n].swap.output_amount ELSE 0
<1>1. /\ Took(m) \in Seq(Nat) /\ Len(Took(m)) = Len(routes)
      /\ Gave(m) \in Seq(Nat) /\ Len(Gave(m)) = Len(routes)
      /\ \A n \in 1 .. Len(routes) :
                /\ Took(m)[n] = IF routes[n].swap.input_mint = m
                                THEN routes[n].swap.input_amount ELSE 0
                /\ Gave(m)[n] = IF routes[n].swap.output_mint = m
                                THEN routes[n].swap.output_amount ELSE 0
  BY FlowLists
<1> DEFINE t == Took(m)
           g == Gave(m)
<1> HIDE DEF t, g
<1>2. /\ t \in Seq(Nat) /\ Len(t) = Len(routes) /\ g \in Seq(Nat) /\ Len(g) = Len(routes)
  BY <1>1 DEF t, g
<1>3. /\ Sum(t, 0) = 0 /\ Sum(g, 0) = 0
      /\ \A n \in 0 .. Len(routes) : Sum(t, n) \in Nat /\ Sum(g, n) \in Nat
      /\ \A n \in 1 .. Len(routes) : Sum(t, n) = Sum(t, n - 1) + t[n]
      /\ \A n \in 1 .. Len(routes) : Sum(g, n) = Sum(g, n - 1) + g[n]
  <2>1. /\ Sum(t, 0) = 0
        /\ \A n \in 1 .. Len(t) : Sum(t, n) = Sum(t, n - 1) + t[n]
        /\ \A n \in 0 .. Len(t) : Sum(t, n) \in Nat
    BY <1>2, SumFacts
  <2>2. /\ Sum(g, 0) = 0
        /\ \A n \in 1 .. Len(g) : Sum(g, n) = Sum(g, n - 1) + g[n]
        /\ \A n \in 0 .. Len(g) : Sum(g, n) \in Nat
    BY <1>2, SumFacts
  <2> QED
    BY <1>2, <2>1, <2>2
<1>4. \A n \in 0 .. Len(routes) :
        Sum(t, n) <= Sum(t, Len(routes)) /\ Sum(g, n) <= Sum(g, Len(routes))
  <2> SUFFICES ASSUME NEW n \in 0 .. Len(routes)
               PROVE  Sum(t, n) <= Sum(t, Len(routes)) /\ Sum(g, n) <= Sum(g, Len(routes))
    OBVIOUS
  <2>1. Sum(t, n) <= Sum(t, Len(t))
    BY <1>2, SumGrows
  <2>2. Sum(g, n) <= Sum(g, Len(g))
    BY <1>2, SumGrows
  <2> QED
    BY <1>2, <2>1, <2>2
<1> QED
  BY <1>1, <1>3, <1>4 DEF t, g

\* The legs as they were executed: the first and the last name the mints of the
\* net swap.
LEMMA ExecutedFacts ==
    ASSUME routes \in RouteLists, routes # <<>>
    PROVE  /\ Executed # <<>> /\ Len(Executed) = Len(routes) /\ Len(routes) \in Nat \ {0}
           /\ \A n \in 1 .. Len(routes) :
                /\ Executed[n] = routes[n].swap
                /\ routes[n].swap \in Swap
                /\ routes[n].swap.input_mint \in Mints /\ routes[n].swap.output_mint \in Mints
                /\ routes[n].swap.input_amount \in Nat /\ routes[n].swap.output_amount \in Nat
           /\ Entry = routes[1].swap.input_mint /\ Entry \in Mints
           /\ Exit = routes[Len(routes)].swap.output_mint /\ Exit \in Mints
<1>1. /\ routes \in Seq(Route) /\ Len(routes) \in Nat /\ DOMAIN routes = 1 .. Len(routes)
      /\ \A n \in DOMAIN routes : routes[n].swap \in Swap
  BY RoutesAreTyped
<1>2. Len(routes) # 0
  BY <1>1
<1>3. /\ Executed = [n \in 1 .. Len(routes) |-> routes[n].swap]
  BY <1>1 DEF Executed
<1>4. /\ DOMAIN Executed = 1 .. Len(routes) /\ Len(Executed) = Len(routes)
      /\ \A n \in 1 .. Len(routes) : Executed[n] = routes[n].swap
      /\ Executed # <<>>
  BY <1>1, <1>2, <1>3
<1>5. \A s \in Swap : /\ s.input_mint \in Mints /\ s.output_mint \in Mints
                      /\ s.input_amount \in Nat /\ s.output_amount \in Nat
  BY DEF Swap
<1>6. 1 \in 1 .. Len(routes) /\ Len(routes) \in 1 .. Len(routes)
  BY <1>1, <1>2
<1> QED
  BY <1>1, <1>2, <1>4, <1>5, <1>6 DEF Entry, Exit

\* No step changes what was executed.
LEMMA LegsStay ==
    ASSUME routes' = routes
    PROVE  /\ \A m : Took(m)' = Took(m) /\ Gave(m)' = Gave(m) /\ Needed(m)' = Needed(m)
           /\ \A m, n : Lacked(m, n)' = Lacked(m, n)
           /\ Executed' = Executed /\ Entry' = Entry /\ Exit' = Exit /\ Received' = Received
BY DEF Took, Gave, Needed, Lacked, Executed, Entry, Exit, Received

\* The largest of what was lacked is the number that none exceeds.
LEMMA NeededIs ==
    ASSUME routes \in RouteLists, NEW m, NEW d \in Nat,
           d = 0 \/ \E n \in 1 .. Len(routes) : d = Lacked(m, n),
           \A n \in 1 .. Len(routes) : Lacked(m, n) <= d
    PROVE  Needed(m) = d
<1> DEFINE S == {0} \cup {Lacked(m, n) : n \in DOMAIN routes}
<1>1. DOMAIN routes = 1 .. Len(routes) /\ Len(routes) \in Nat
  BY RoutesAreTyped
<1>2. \A n \in 1 .. Len(routes) : Lacked(m, n) \in Int
  <2> SUFFICES ASSUME NEW n \in 1 .. Len(routes) PROVE Lacked(m, n) \in Int
    OBVIOUS
  <2>1. n \in 0 .. Len(routes) /\ n - 1 \in 0 .. Len(routes)
    BY <1>1
  <2>2. Sum(Took(m), n) \in Nat /\ Sum(Gave(m), n - 1) \in Nat
    BY <2>1, FlowSums
  <2> QED
    BY <2>2 DEF Lacked
<1>3. S \subseteq Int /\ d \in S /\ \A y \in S : d >= y
  BY <1>1, <1>2
<1> HIDE DEF S
<1>4. \A x \in S : (\A y \in S : x >= y) => x = d
  BY <1>3
<1>5. Max(S) = d
  BY <1>3, <1>4 DEF Max
<1> QED
  BY <1>5 DEF Needed, S

\* What a route needs is at least what it ever lacked.
LEMMA NeededBounds ==
    ASSUME routes \in RouteLists, NEW m
    PROVE  /\ Needed(m) \in Nat
           /\ \A n \in 1 .. Len(routes) : Lacked(m, n) <= Needed(m)
<1> DEFINE bound == Sum(Took(m), Len(routes))
           S == {x \in 0 .. bound : x = 0 \/ \E n \in 1 .. Len(routes) : x = Lacked(m, n)}
<1>1. Len(routes) \in Nat /\ bound \in Nat
  <2>1. Len(routes) \in Nat
    BY RoutesAreTyped
  <2>2. Len(routes) \in 0 .. Len(routes)
    BY <2>1
  <2> QED
    BY <2>1, <2>2, FlowSums
<1>2. \A n \in 1 .. Len(routes) : Lacked(m, n) \in Int /\ Lacked(m, n) <= bound
  <2> SUFFICES ASSUME NEW n \in 1 .. Len(routes)
               PROVE  Lacked(m, n) \in Int /\ Lacked(m, n) <= bound
    OBVIOUS
  <2>1. n \in 0 .. Len(routes) /\ n - 1 \in 0 .. Len(routes)
    BY <1>1
  <2>2. Sum(Took(m), n) \in Nat /\ Sum(Gave(m), n - 1) \in Nat /\ Sum(Took(m), n) <= bound
    BY <2>1, FlowSums
  <2> QED
    BY <1>1, <2>2 DEF Lacked
<1>3. 0 \in S /\ S \in SUBSET (0 .. bound)
  BY <1>1
<1> HIDE DEF S, bound
<1>4. PICK d \in S : \A x \in S : x <= d
  BY <1>1, <1>3, LargestNumber
<1>5. d \in Nat /\ (d = 0 \/ \E n \in 1 .. Len(routes) : d = Lacked(m, n))
  BY <1>1 DEF S
<1>6. ASSUME NEW n \in 1 .. Len(routes) PROVE Lacked(m, n) <= d
  <2>1. Lacked(m, n) \in Int /\ Lacked(m, n) <= bound
    BY <1>2
  <2>2. CASE Lacked(m, n) < 0
    BY <1>5, <2>1, <2>2
  <2>3. CASE ~ (Lacked(m, n) < 0)
    <3>1. Lacked(m, n) \in 0 .. bound
      BY <1>1, <2>1, <2>3
    <3>2. Lacked(m, n) \in S
      BY <3>1 DEF S
    <3> QED
      BY <1>4, <3>2
  <2> QED
    BY <2>2, <2>3
<1>7. Needed(m) = d
  BY <1>5, <1>6, NeededIs
<1> QED
  BY <1>5, <1>6, <1>7

--------------------------------------------------------------------------------
(* The swaps that events announce *)

LEMMA SameElements ==
    ASSUME NEW S, NEW q \in Seq(S), NEW K \in Nat, Len(q) = K, NEW f,
           f = [n \in 1 .. K |-> f[n]], \A n \in 1 .. K : q[n] = f[n]
    PROVE  q = f
<1>1. q = [n \in 1 .. K |-> q[n]]
  OBVIOUS
<1>2. [n \in 1 .. K |-> q[n]] = [n \in 1 .. K |-> f[n]]
  OBVIOUS
<1> QED
  BY <1>1, <1>2

\* The first elements of a list, and one more.
LEMMA OneMore ==
    ASSUME NEW K \in Nat, NEW S, NEW s, \A n \in 1 .. K + 1 : s[n] \in S
    PROVE  [n \in 1 .. K |-> s[n]] \o <<s[K + 1]>> = [n \in 1 .. K + 1 |-> s[n]]
<1> DEFINE p == [n \in 1 .. K |-> s[n]]
           e == <<s[K + 1]>>
           f == [n \in 1 .. K + 1 |-> s[n]]
<1>1. p \in Seq(S) /\ Len(p) = K /\ \A n \in 1 .. K : p[n] = s[n]
  <2>1. p \in [1 .. K -> S]
    OBVIOUS
  <2> HIDE DEF p
  <2>2. p \in Seq(S) /\ Len(p) = K
    BY <2>1
  <2> QED
    BY <2>2 DEF p
<1>2. e \in Seq(S) /\ Len(e) = 1 /\ e[1] = s[K + 1]
  OBVIOUS
<1>3. f = [n \in 1 .. K + 1 |-> f[n]] /\ \A n \in 1 .. K + 1 : f[n] = s[n]
  OBVIOUS
<1> HIDE DEF p, e, f
<1>4. /\ p \o e \in Seq(S) /\ Len(p \o e) = Len(p) + Len(e)
      /\ \A n \in 1 .. Len(p) + Len(e) :
           (p \o e)[n] = IF n <= Len(p) THEN p[n] ELSE e[n - Len(p)]
  BY <1>1, <1>2, ConcatProperties
<1>5. ASSUME NEW n \in 1 .. K + 1 PROVE (p \o e)[n] = f[n]
  <2>1. (p \o e)[n] = IF n <= K THEN p[n] ELSE e[n - K]
    BY <1>1, <1>2, <1>4
  <2>2. CASE n \in 1 .. K
    BY <1>1, <1>3, <2>1, <2>2
  <2>3. CASE n = K + 1
    <3>1. ~(n <= K) /\ n - K = 1
      BY <2>3
    <3> QED
      BY <1>2, <1>3, <2>1, <2>3, <3>1
  <2>4. n \in 1 .. K \/ n = K + 1
    OBVIOUS
  <2> QED
    BY <2>2, <2>3, <2>4
<1>6. p \o e = f
  <2>1. K + 1 \in Nat /\ Len(p \o e) = K + 1
    BY <1>1, <1>2, <1>4
  <2> DEFINE q == p \o e
  <2>2. q \in Seq(S) /\ Len(q) = K + 1 /\ \A n \in 1 .. K + 1 : q[n] = f[n]
    BY <1>4, <1>5, <2>1
  <2> HIDE DEF q
  <2>3. q = f
    BY <1>3, <2>1, <2>2, SameElements
  <2> QED
    BY <2>3 DEF q
<1> QED
  BY <1>6 DEF p, e, f

\* Events read one swap each, the first of them of nothing, are the swaps.
LEMMA FlattenSingles ==
    ASSUME NEW N \in Nat, NEW s, s \in Seq({s[n] : n \in 1 .. N}), Len(s) = N,
           NEW seqs, seqs = [n \in 1 .. N + 1 |-> IF n = 1 THEN <<>> ELSE <<s[n - 1]>>]
    PROVE  FlattenSeq(seqs) = s
<1> DEFINE T == {s[n] : n \in 1 .. N}
           part(j) == [n \in 1 .. j |-> s[n]]
           Rec(f) == f = [j \in 1 .. N + 1 |-> IF j = 1 THEN seqs[j] ELSE f[j - 1] \o seqs[j]]
           g == [j \in 1 .. N + 1 |-> part(j - 1)]
           flatten == CHOOSE f : Rec(f)
<1>1. Len(seqs) = N + 1 /\ N + 1 # 0 /\ N + 1 \in 1 .. N + 1
  OBVIOUS
<1>2. ASSUME NEW j \in 1 .. N + 1
      PROVE  g[j] = IF j = 1 THEN seqs[j] ELSE g[j - 1] \o seqs[j]
  <2>1. CASE j = 1
    <3>1. g[j] = part(0) /\ seqs[j] = <<>>
      BY <2>1
    <3>2. part(0) = <<>>
      OBVIOUS
    <3> QED
      BY <2>1, <3>1, <3>2
  <2>2. CASE j # 1
    <3>1. /\ g[j] = part(j - 1) /\ g[j - 1] = part(j - 2) /\ seqs[j] = <<s[j - 1]>>
          /\ j - 2 \in Nat /\ j - 1 \in 1 .. N /\ (j - 2) + 1 = j - 1
      BY <2>2
    <3>2. \A n \in 1 .. (j - 2) + 1 : s[n] \in T
      <4>1. \A n \in 1 .. (j - 2) + 1 : n \in 1 .. N
        BY <3>1
      <4> QED
        BY <4>1
    <3>3. part(j - 1) = part(j - 2) \o <<s[j - 1]>>
      <4> DEFINE K == j - 2
      <4>1. K \in Nat /\ K + 1 = j - 1 /\ \A n \in 1 .. K + 1 : s[n] \in T
        BY <3>1, <3>2
      <4> HIDE DEF K, T
      <4>2. part(K) \o <<s[K + 1]>> = part(K + 1)
        BY <4>1, OneMore
      <4> QED
        BY <4>1, <4>2 DEF K
    <3> HIDE DEF g, part
    <3> QED
      BY <2>2, <3>1, <3>3
  <2> QED
    BY <2>1, <2>2
<1>3. Rec(g)
  <2>1. g = [j \in 1 .. N + 1 |-> g[j]]
    OBVIOUS
  <2> HIDE DEF g
  <2> QED
    BY <1>2, <2>1
<1>4. Rec(flatten)
  <2> HIDE DEF g
  <2>1. \E f : Rec(f)
    BY <1>3
  <2> HIDE DEF Rec
  <2> QED
    BY <2>1
<1>5. FlattenSeq(seqs) = flatten[N + 1]
  BY <1>1 DEF FlattenSeq
<1> HIDE DEF flatten, g
<1>6. \A j \in 1 .. N + 1 : flatten[j] = g[j]
  <2> DEFINE Bad == {j \in 1 .. N + 1 : flatten[j] # g[j]}
  <2> SUFFICES ASSUME Bad # {} PROVE FALSE
    OBVIOUS
  <2>1. Bad \in SUBSET Nat
    OBVIOUS
  <2>2. PICK j \in Bad : \A o \in Bad : j <= o
    <3> HIDE DEF Bad
    <3> QED
      BY <2>1, LeastNumber
  <2>3. j \in 1 .. N + 1 /\ flatten[j] # g[j]
    OBVIOUS
  <2>4. flatten[j] = IF j = 1 THEN seqs[j] ELSE flatten[j - 1] \o seqs[j]
    BY <1>4, <2>3
  <2>5. j # 1
    BY <1>2, <2>3, <2>4
  <2>6. j - 1 \in 1 .. N + 1 /\ ~(j <= j - 1)
    BY <2>3, <2>5
  <2>7. flatten[j - 1] = g[j - 1]
    BY <2>2, <2>6
  <2> QED
    BY <1>2, <2>3, <2>4, <2>5, <2>7
<1>7. g[N + 1] = [n \in 1 .. N |-> s[n]]
  BY <1>1 DEF g
<1>8. s = [n \in 1 .. N |-> s[n]]
  OBVIOUS
<1> QED
  BY <1>1, <1>5, <1>6, <1>7, <1>8

LEMMA MinOfOne == ASSUME NEW x \in Int PROVE Min({x}) = x
BY DEF Min

\* Whichever way the swaps are announced, they are read as they were executed.
LEMMA AnnouncedIsRead ==
    ASSUME routes \in RouteLists, routes # <<>>, events \in Announcements, events # <<>>
    PROVE  /\ agg = "JupV6" => JupiterSwaps(events) = Executed
           /\ agg = "DflowAgg" => DflowSwaps(events) = Executed
<1> DEFINE N == Len(routes)
           each == <<OtherEvent>> \o [n \in DOMAIN routes |-> SwapEvent(Executed[n])]
<1>1. /\ N \in Nat \ {0} /\ DOMAIN routes = 1 .. N /\ DOMAIN Executed = 1 .. N
      /\ Len(Executed) = N /\ Executed = [n \in 1 .. N |-> Executed[n]]
  BY RoutesAreTyped, ExecutedFacts DEF Executed
<1>2. Executed \in Seq({Executed[n] : n \in 1 .. N})
  BY <1>1
<1>3. each = [n \in 1 .. N + 1 |-> IF n = 1 THEN OtherEvent ELSE SwapEvent(Executed[n - 1])]
  <2> DEFINE tail == [n \in 1 .. N |-> SwapEvent(Executed[n])]
             E == {OtherEvent} \cup {tail[n] : n \in 1 .. N}
  <2>1. tail \in Seq(E) /\ Len(tail) = N /\ \A n \in 1 .. N : tail[n] = SwapEvent(Executed[n])
    BY <1>1
  <2>2. OtherEvent \in E
    OBVIOUS
  <2>3. each = <<OtherEvent>> \o tail
    BY <1>1
  <2>4. <<OtherEvent>> \in Seq(E) /\ Len(<<OtherEvent>>) = 1 /\ <<OtherEvent>>[1] = OtherEvent
    BY <2>2
  <2> HIDE DEF each, tail, E, N
  <2>5. /\ each \in Seq(E) /\ Len(each) = 1 + N
        /\ \A n \in 1 .. 1 + N :
             each[n] = IF n <= 1 THEN <<OtherEvent>>[n] ELSE tail[n - 1]
    BY <2>1, <2>3, <2>4, ConcatProperties
  <2>6. \A n \in 1 .. N + 1 :
          each[n] = IF n = 1 THEN OtherEvent ELSE SwapEvent(Executed[n - 1])
    <3> SUFFICES ASSUME NEW n \in 1 .. N + 1
                 PROVE  each[n] = IF n = 1 THEN OtherEvent ELSE SwapEvent(Executed[n - 1])
      OBVIOUS
    <3>1. each[n] = IF n <= 1 THEN <<OtherEvent>>[n] ELSE tail[n - 1]
      BY <1>1, <2>5
    <3>2. CASE n = 1
      BY <2>4, <3>1, <3>2
    <3>3. CASE n # 1
      <4>1. ~(n <= 1) /\ n - 1 \in 1 .. N
        BY <1>1, <3>3
      <4> QED
        BY <2>1, <3>1, <3>3, <4>1
    <3> QED
      BY <3>2, <3>3
  <2> DEFINE f == [n \in 1 .. N + 1 |-> IF n = 1 THEN OtherEvent ELSE SwapEvent(Executed[n - 1])]
  <2>7. f = [n \in 1 .. N + 1 |-> f[n]] /\ \A n \in 1 .. N + 1 : each[n] = f[n]
    BY <2>6
  <2>8. N + 1 \in Nat /\ Len(each) = N + 1
    BY <1>1, <2>5
  <2> HIDE DEF f
  <2>9. each = f
    BY <2>5, <2>7, <2>8, SameElements
  <2> QED
    BY <2>9 DEF f
<1>4. /\ DOMAIN each = 1 .. N + 1
      /\ \A n \in 1 .. N + 1 :
           /\ each[n].kind = IF n = 1 THEN "other" ELSE "SwapEvent"
           /\ each[n].swaps = IF n = 1 THEN <<>> ELSE <<Executed[n - 1]>>
  <2> HIDE DEF each, N
  <2>1. /\ OtherEvent.kind = "other" /\ OtherEvent.swaps = <<>>
        /\ \A x : SwapEvent(x).kind = "SwapEvent" /\ SwapEvent(x).swaps = <<x>>
    BY DEF OtherEvent, SwapEvent
  <2> QED
    BY <1>1, <1>3, <2>1
<1> HIDE DEF each
<1> DEFINE singles == [n \in 1 .. N + 1 |-> IF n = 1 THEN <<>> ELSE <<Executed[n - 1]>>]
<1>5. FlattenSeq(singles) = Executed
  <2> DEFINE s == Executed
             q == singles
  <2>1. /\ N \in Nat /\ s \in Seq({s[n] : n \in 1 .. N}) /\ Len(s) = N
        /\ q = [n \in 1 .. N + 1 |-> IF n = 1 THEN <<>> ELSE <<s[n - 1]>>]
    BY <1>1, <1>2
  <2> HIDE DEF N, s, q
  <2> QED
    BY <2>1, FlattenSingles DEF s, q
<1>6. /\ JupiterSwaps(each) = Executed
      /\ DflowSwaps(each) = Executed
  <2>1. {n \in DOMAIN each : each[n].kind = "SwapsEvent"} = {}
    BY <1>4
  <2>2. [n \in DOMAIN each |-> each[n].swaps] = singles
    BY <1>4
  <2>3. [n \in DOMAIN each |-> IF each[n].kind = "SwapEvent" THEN each[n].swaps ELSE <<>>]
           = singles
    BY <1>4
  <2> HIDE DEF singles
  <2> QED
    BY <1>5, <2>1, <2>2, <2>3 DEF JupiterSwaps, DflowSwaps
<1>7. JupiterSwaps(<<SwapsEvent(Executed)>>) = Executed
  <2> DEFINE evs == <<SwapsEvent(Executed)>>
  <2>1. DOMAIN evs = {1} /\ evs[1].kind = "SwapsEvent" /\ evs[1].swaps = Executed
    BY DEF SwapsEvent
  <2> HIDE DEF evs
  <2>2. {n \in DOMAIN evs : evs[n].kind = "SwapsEvent"} = {1}
    BY <2>1
  <2>3. JupiterSwaps(evs) = Executed
    BY <2>1, <2>2, MinOfOne DEF JupiterSwaps
  <2> QED
    BY <2>3 DEF evs
<1>8. JupiterSwaps(Append(each, SwapsEvent(Executed))) = Executed
  <2> DEFINE evs == Append(each, SwapsEvent(Executed))
             E == {each[n] : n \in 1 .. N + 1} \cup {SwapsEvent(Executed)}
  <2>1. each \in Seq(E) /\ Len(each) = N + 1
    <3>1. each = [n \in 1 .. N + 1 |-> each[n]]
      BY <1>3, <1>4
    <3>2. \A n \in 1 .. N + 1 : each[n] \in E
      OBVIOUS
    <3> HIDE DEF E
    <3> QED
      BY <1>1, <3>1, <3>2
  <2>2. SwapsEvent(Executed) \in E
    OBVIOUS
  <2>3. /\ DOMAIN evs = 1 .. N + 2 /\ evs[N + 2] = SwapsEvent(Executed)
        /\ \A n \in 1 .. N + 1 : evs[n] = each[n]
    <3> HIDE DEF E, N
    <3> QED
      BY <1>1, <2>1, <2>2
  <2>4. /\ evs[N + 2].kind = "SwapsEvent" /\ evs[N + 2].swaps = Executed
        /\ \A n \in 1 .. N + 1 : evs[n].kind # "SwapsEvent"
    <3> HIDE DEF evs
    <3>1. \A n \in 1 .. N + 1 : each[n].kind # "SwapsEvent"
      BY <1>4
    <3> QED
      BY <2>3, <3>1 DEF SwapsEvent
  <2> HIDE DEF evs
  <2>5. {n \in DOMAIN evs : evs[n].kind = "SwapsEvent"} = {N + 2}
    BY <1>1, <2>3, <2>4
  <2>6. JupiterSwaps(evs) = Executed
    <3>1. N + 2 \in Int /\ {N + 2} # {}
      BY <1>1
    <3> QED
      BY <2>4, <2>5, <3>1, MinOfOne DEF JupiterSwaps
  <2> QED
    BY <2>6 DEF evs
<1> USE DEF each
<1>9. agg = "JupV6" => events \in {<<SwapsEvent(Executed)>>, each,
                                   Append(each, SwapsEvent(Executed))}
  BY DEF Announcements, LegReaders
<1>10. agg = "DflowAgg" => events = each
  BY DEF Announcements, LegReaders
<1> HIDE DEF each
<1> QED
  BY <1>6, <1>7, <1>8, <1>9, <1>10

--------------------------------------------------------------------------------
(* The net swap of a chain *)

\* A route executed as one chain, whose legs are read or which is announced:
\* what NetSwapIsExecuted asks of it.
SwappedAsChain ==
    /\ routes # <<>> /\ CleanChain /\ ExactChain
    /\ IF agg \in LegReaders THEN ExactTransfers ELSE events # <<>>

\* Between two legs of a chain the wallet holds what the first of them gave out,
\* and the caller put in what the first leg of all took.
Carried(rs, n) ==
    [m \in Mints |-> IF n > 0 /\ m = rs[n].swap.output_mint
                     THEN rs[n].swap.output_amount ELSE 0]

Netted == report = <<Exit, Executed[Len(Executed)].output_amount>>

ChainWalked ==
    /\ outcome \in {"waiting", "running", "ok"}
    /\ outcome # "waiting" => swaps = Executed
    /\ i \in 1 .. Len(routes) + 1
    /\ balance = Carried(routes, i - 1)
    /\ netInput = IF i = 1 THEN 0 ELSE routes[1].swap.input_amount
    /\ outcome = "waiting" => i = 1
    /\ outcome = "ok" => i = Len(routes) + 1 /\ Netted

EventTaken ==
    /\ outcome \in {"waiting", "ok"}
    /\ outcome = "ok" => netInput = routes[1].swap.input_amount /\ Netted

NetInv ==
    /\ agg \in LegReaders \cup Announcers
    /\ events \in Announcements
    /\ SwappedAsChain => IF agg = "OKXDexRouter2" THEN EventTaken ELSE ChainWalked

LEMMA ChainFacts ==
    ASSUME LegInv, SwappedAsChain
    PROVE  /\ routes \in RouteLists /\ Len(routes) \in Nat \ {0}
           /\ DOMAIN routes = 1 .. Len(routes)
           /\ DOMAIN Executed = 1 .. Len(routes) /\ Len(Executed) = Len(routes)
           /\ \A n \in 1 .. Len(routes) : Executed[n] = routes[n].swap
           /\ \A n \in 1 .. Len(routes) :
                /\ routes[n].swap \in Swap
                /\ routes[n].swap.input_mint \in Mints /\ routes[n].swap.output_mint \in Mints
                /\ routes[n].swap.input_amount \in 0 .. MaxU64
                /\ routes[n].swap.output_amount \in 0 .. MaxU64
           /\ \A n \in 1 .. Len(routes) - 1 :
                /\ routes[n].swap.output_mint = routes[n + 1].swap.input_mint
                /\ routes[n].swap.output_amount = routes[n + 1].swap.input_amount
<1>1. /\ routes \in RouteLists /\ routes \in Seq(Route) /\ Len(routes) \in Nat
      /\ DOMAIN routes = 1 .. Len(routes)
      /\ \A n \in DOMAIN routes : routes[n].swap \in Swap
  BY RoutesAreTyped DEF LegInv
<1>2. Len(routes) # 0
  BY <1>1 DEF SwappedAsChain
<1>3. /\ DOMAIN Executed = 1 .. Len(routes) /\ Len(Executed) = Len(routes)
      /\ \A n \in 1 .. Len(routes) : Executed[n] = routes[n].swap
  BY <1>1 DEF Executed
<1>4. \A n \in DOMAIN routes :
        routes[n].swap.input_amount <= MaxU64 /\ routes[n].swap.output_amount <= MaxU64
  BY <1>1, NetAssumption
<1>5. \A s \in Swap : /\ s.input_mint \in Mints /\ s.output_mint \in Mints
                      /\ s.input_amount \in Nat /\ s.output_amount \in Nat
  BY DEF Swap
<1>6. MaxU64 \in Nat
  BY NetAssumption
<1>7. \A n \in 1 .. Len(routes) :
        /\ routes[n].swap \in Swap
        /\ routes[n].swap.input_mint \in Mints /\ routes[n].swap.output_mint \in Mints
        /\ routes[n].swap.input_amount \in 0 .. MaxU64
        /\ routes[n].swap.output_amount \in 0 .. MaxU64
  BY <1>1, <1>4, <1>5, <1>6
<1>8. \A n \in 1 .. Len(routes) - 1 : n \in 1 .. Len(routes) /\ n + 1 \in 1 .. Len(routes)
  BY <1>1
<1>9. \A n \in 1 .. Len(routes) - 1 :
        /\ routes[n].swap.output_mint = routes[n + 1].swap.input_mint
        /\ routes[n].swap.output_amount = routes[n + 1].swap.input_amount
  BY <1>3, <1>8 DEF SwappedAsChain, CleanChain, ExactChain
<1> QED
  BY <1>1, <1>2, <1>3, <1>7, <1>9

\* The legs that are handed over are those that were executed, amounts and all.
LEMMA LegsAreExecuted ==
    ASSUME LegInv, SwappedAsChain, agg \in LegReaders, result = "ok"
    PROVE  Legs = Executed
<1>1. /\ DOMAIN shapes = 1 .. Len(routes) /\ DOMAIN routes = 1 .. Len(routes)
      /\ \A n \in DOMAIN shapes : shapes[n].known /\ Legs[n] = shapes[n].swap
  BY FinishedIsKnown
<1>2. ASSUME NEW n \in DOMAIN routes
      PROVE  shapes[n].swap = routes[n].swap
  <2> DEFINE t == routes[n].transfers
             w == routes[n].swap
  <2>1. /\ ShapeOf(routes[n], shapes[n]) /\ shapes[n].known
        /\ shapes[n].swap.input_mint = w.input_mint
        /\ shapes[n].swap.output_mint = w.output_mint
    BY <1>1 DEF LegInv, Chained, Faithful, SwappedAsChain
  <2>2. CASE routes[n].decoded
    BY <2>1, <2>2 DEF ShapeOf, Known
  <2>3. CASE ~routes[n].decoded
    <3>1. \A x : ~Candidates(x).known
      BY DEF Candidates
    <3>2. PICK a, b \in MintsOf(t) : shapes[n] = Known(Directed(t, a, b))
      BY <2>1, <2>3, <3>1 DEF ShapeOf
    <3>3. shapes[n].swap = Directed(t, a, b)
      BY <3>2 DEF Known
    <3>4. a = w.input_mint /\ b = w.output_mint
      BY <2>1, <3>3 DEF Directed
    <3>5. /\ Total(t, w.input_mint) = w.input_amount
          /\ Total(t, w.output_mint) = w.output_amount
      BY <2>3, ChainFacts DEF SwappedAsChain, ExactTransfers
    <3>6. w \in Swap
      BY ChainFacts
    <3>7. w = [input_mint |-> w.input_mint, output_mint |-> w.output_mint,
               input_amount |-> w.input_amount, output_amount |-> w.output_amount]
      <4> HIDE DEF w
      <4> QED
        BY <3>6 DEF Swap
    <3> HIDE DEF t, w
    <3> QED
      BY <3>3, <3>4, <3>5, <3>7 DEF Directed, w
  <2> QED
    BY <2>2, <2>3
<1>3. Legs = [n \in 1 .. Len(routes) |-> shapes[n].swap]
  BY <1>1 DEF Legs
<1>4. Executed = [n \in 1 .. Len(routes) |-> routes[n].swap]
  BY <1>1 DEF Executed
<1> QED
  BY <1>1, <1>2, <1>3, <1>4

\* In a chain each leg takes what the one before it gave, so that no mint is
\* ever lacked by more than the first leg took of it.
LEMMA ChainFlows ==
    ASSUME LegInv, SwappedAsChain
    PROVE  /\ Needed(Entry) = routes[1].swap.input_amount
           /\ Received = Executed[Len(Executed)].output_amount
<1> DEFINE N == Len(routes)
           first(m) == IF routes[1].swap.input_mint = m THEN routes[1].swap.input_amount ELSE 0
<1>1. /\ routes \in RouteLists /\ N \in Nat \ {0} /\ Len(Executed) = N
      /\ \A n \in 1 .. N :
           /\ Executed[n] = routes[n].swap
           /\ routes[n].swap.input_amount \in Nat /\ routes[n].swap.output_amount \in Nat
      /\ \A n \in 1 .. N - 1 :
           /\ routes[n].swap.output_mint = routes[n + 1].swap.input_mint
           /\ routes[n].swap.output_amount = routes[n + 1].swap.input_amount
      /\ Entry = routes[1].swap.input_mint /\ Exit = routes[N].swap.output_mint
  <2>1. /\ routes \in RouteLists /\ N \in Nat \ {0} /\ Len(Executed) = N
        /\ \A n \in 1 .. N : Executed[n] = routes[n].swap
        /\ \A n \in 1 .. N - 1 :
             /\ routes[n].swap.output_mint = routes[n + 1].swap.input_mint
             /\ routes[n].swap.output_amount = routes[n + 1].swap.input_amount
    BY ChainFacts
  <2>2. /\ Entry = routes[1].swap.input_mint /\ Exit = routes[N].swap.output_mint
        /\ \A n \in 1 .. N :
             routes[n].swap.input_amount \in Nat /\ routes[n].swap.output_amount \in Nat
    BY <2>1, ExecutedFacts DEF SwappedAsChain
  <2> QED
    BY <2>1, <2>2
<1>2. ASSUME NEW m
      PROVE  \A n \in 1 .. N : Sum(Took(m), n) = first(m) + Sum(Gave(m), n - 1)
  <2> DEFINE Bad == {n \in 1 .. N : Sum(Took(m), n) # first(m) + Sum(Gave(m), n - 1)}
  <2> SUFFICES ASSUME Bad # {} PROVE FALSE
    OBVIOUS
  <2>1. Bad \in SUBSET Nat
    OBVIOUS
  <2>2. PICK n \in Bad : \A o \in Bad : n <= o
    <3> HIDE DEF Bad
    <3> QED
      BY <2>1, LeastNumber
  <2>3. n \in 1 .. N /\ Sum(Took(m), n) # first(m) + Sum(Gave(m), n - 1)
    OBVIOUS
  <2>4. /\ Sum(Took(m), 0) = 0 /\ Sum(Gave(m), 0) = 0
        /\ \A o \in 0 .. N : Sum(Took(m), o) \in Nat /\ Sum(Gave(m), o) \in Nat
        /\ \A o \in 1 .. N :
             /\ Sum(Took(m), o) = Sum(Took(m), o - 1)
                  + IF routes[o].swap.input_mint = m THEN routes[o].swap.input_amount ELSE 0
             /\ Sum(Gave(m), o) = Sum(Gave(m), o - 1)
                  + IF routes[o].swap.output_mint = m THEN routes[o].swap.output_amount ELSE 0
    BY <1>1, FlowSums
  <2>5. first(m) \in Nat
    BY <1>1
  <2>6. n # 1
    <3>1. 1 \in 1 .. N
      BY <1>1
    <3>2. Sum(Took(m), 1) = Sum(Took(m), 0) + first(m)
      BY <2>4, <3>1
    <3>3. Sum(Took(m), 1) = first(m) + Sum(Gave(m), 0)
      BY <2>4, <2>5, <3>2
    <3> QED
      BY <2>3, <3>3
  <2>7. /\ n - 1 \in 1 .. N /\ n - 1 \in 1 .. N - 1 /\ (n - 1) + 1 = n /\ ~(n <= n - 1)
        /\ n - 1 \in 0 .. N /\ (n - 1) - 1 \in 0 .. N
    BY <1>1, <2>3, <2>6
  <2>8. Sum(Took(m), n - 1) = first(m) + Sum(Gave(m), (n - 1) - 1)
    BY <2>2, <2>7
  <2> DEFINE x == IF routes[n].swap.input_mint = m THEN routes[n].swap.input_amount ELSE 0
  <2>9. /\ Sum(Took(m), n) = Sum(Took(m), n - 1) + x
        /\ Sum(Gave(m), n - 1) = Sum(Gave(m), (n - 1) - 1) + x
        /\ x \in Nat
    <3>1. /\ routes[n - 1].swap.output_mint = routes[n].swap.input_mint
          /\ routes[n - 1].swap.output_amount = routes[n].swap.input_amount
      BY <1>1, <2>7
    <3> QED
      BY <1>1, <2>3, <2>4, <2>7, <3>1
  <2>10. /\ Sum(Gave(m), (n - 1) - 1) \in Nat /\ Sum(Took(m), n - 1) \in Nat
    BY <2>4, <2>7
  <2> HIDE DEF x, first, Bad
  <2> QED
    BY <2>3, <2>5, <2>8, <2>9, <2>10
<1>3. ASSUME NEW m PROVE Needed(m) = first(m) /\ first(m) \in Nat
  <2>1. ASSUME NEW n \in 1 .. N PROVE Lacked(m, n) = first(m)
    <3>1. Sum(Gave(m), n - 1) \in Nat /\ first(m) \in Nat
      <4>1. n - 1 \in 0 .. N
        BY <1>1
      <4> QED
        BY <1>1, <4>1, FlowSums
    <3>2. Sum(Took(m), n) = first(m) + Sum(Gave(m), n - 1)
      BY <1>2
    <3> HIDE DEF first
    <3> QED
      BY <3>1, <3>2 DEF Lacked
  <2>2. first(m) \in Nat /\ 1 \in 1 .. N
    BY <1>1
  <2> DEFINE d == first(m)
  <2>3. /\ d = 0 \/ \E n \in 1 .. Len(routes) : d = Lacked(m, n)
        /\ \A n \in 1 .. Len(routes) : Lacked(m, n) <= d
        /\ d \in Nat
    <3> HIDE DEF first
    <3> QED
      BY <2>1, <2>2
  <2> HIDE DEF d
  <2>4. Needed(m) = d
    BY <1>1, <2>3, NeededIs
  <2> QED
    BY <2>2, <2>4 DEF d
<1>4. Needed(Entry) = routes[1].swap.input_amount
  BY <1>1, <1>3
<1>5. Received = routes[N].swap.output_amount
  <2> DEFINE a == Sum(Took(Exit), N)
             b == Sum(Gave(Exit), N - 1)
             c == Sum(Gave(Exit), N)
             d == first(Exit)
             y == routes[N].swap.output_amount
  <2>1. N \in 1 .. N /\ N - 1 \in 0 .. N
    BY <1>1
  <2>2. a = d + b
    BY <1>2, <2>1
  <2>3. b \in Nat /\ y \in Nat
    BY <1>1, <2>1, FlowSums
  <2>4. c = b + y
    BY <1>1, <2>1, FlowSums
  <2>5. Needed(Exit) = d /\ d \in Nat
    BY <1>3
  <2>6. Received = c - a + Needed(Exit)
    BY DEF Received
  <2> HIDE DEF a, b, c, d, y
  <2>7. Received = y
    BY <2>2, <2>3, <2>4, <2>5, <2>6
  <2> QED
    BY <2>7 DEF y
<1> QED
  BY <1>1, <1>4, <1>5

LEMMA InitNetInv == NetInit => NetInv
<1> SUFFICES ASSUME NetInit PROVE NetInv
  OBVIOUS
<1>1. /\ outcome = "waiting" /\ i = 1 /\ netInput = 0 /\ balance = [m \in Mints |-> 0]
      /\ agg \in LegReaders \cup Announcers /\ events \in Announcements
  BY DEF NetInit
<1>2. LegInv
  BY InitLegInv DEF NetInit
<1>3. ASSUME SwappedAsChain PROVE Len(routes) \in Nat \ {0}
  BY <1>2, <1>3, ChainFacts
<1>4. balance = Carried(routes, 1 - 1)
  BY <1>1 DEF Carried
<1> QED
  BY <1>1, <1>3, <1>4 DEF NetInv, EventTaken, ChainWalked

LEMMA RoutesStay ==
    ASSUME [NetNext]_allVars
    PROVE  routes' = routes /\ agg' = agg /\ events' = events
BY DEF NetNext, allVars, DirectLegs, HandOverLegs, NoLegs, HandOverEvents, TakeEvent,
       WalkGraph, Finished, HandOver, vars, Next, AllDecoded, CollectDecoded,
       CollectCandidates, UnknownMint, AmbiguousTransfers, Fail, StartForward, Forward,
       StartBackward, Backward, Emit, Ended

LEMMA ChainStays ==
    ASSUME routes' = routes, agg' = agg, events' = events
    PROVE  /\ SwappedAsChain' = SwappedAsChain /\ Executed' = Executed /\ Exit' = Exit
           /\ Announcements' = Announcements
<1>1. /\ Executed' = Executed /\ Exit' = Exit /\ Entry' = Entry /\ Received' = Received
      /\ \A m : Needed(m)' = Needed(m)
  BY LegsStay
<1>2. SwappedAsChain' = SwappedAsChain
  BY DEF SwappedAsChain, CleanChain, ExactChain, ExactTransfers, Executed
<1>3. Announcements' = Announcements
  BY <1>1 DEF Announcements
<1> QED
  BY <1>1, <1>2, <1>3

\* The first leg is funded, or asks for nothing; each later one spends just what
\* the leg before it gave out.
LEMMA WalkOne ==
    ASSUME LegInv, SwappedAsChain, swaps = Executed, i \in 1 .. Len(routes),
           balance = Carried(routes, i - 1),
           netInput = (IF i = 1 THEN 0 ELSE routes[1].swap.input_amount),
           outcome = "running", Net!Spend \/ Net!Fund
    PROVE  /\ swaps' = swaps /\ outcome' = "running" /\ i' = i + 1
           /\ balance' = [m \in Mints |-> IF m = routes[i].swap.output_mint
                                          THEN routes[i].swap.output_amount ELSE 0]
           /\ netInput' = routes[1].swap.input_amount
<1> DEFINE w == routes[i].swap
           bare == [m \in Mints |-> 0]
<1>1. /\ Len(routes) \in Nat \ {0} /\ MaxU64 \in Nat
      /\ swaps[i] = w /\ swaps[1] = routes[1].swap
      /\ w.input_mint \in Mints /\ w.output_mint \in Mints
      /\ w.input_amount \in 0 .. MaxU64 /\ w.output_amount \in 0 .. MaxU64
      /\ i # 1 => /\ routes[i - 1].swap.output_mint = w.input_mint
                  /\ routes[i - 1].swap.output_amount = w.input_amount
  <2>1. i # 1 => i - 1 \in 1 .. Len(routes) - 1 /\ (i - 1) + 1 = i
    BY ChainFacts
  <2> QED
    BY <2>1, ChainFacts, NetAssumption
<1>2. /\ balance \in [Mints -> Int]
      /\ balance[w.input_mint] = IF i = 1 THEN 0 ELSE w.input_amount
      /\ [balance EXCEPT ![w.input_mint] = 0] = bare
  <2>1. CASE i = 1
    <3>1. balance = bare
      BY <2>1 DEF Carried
    <3> QED
      BY <1>1, <2>1, <3>1
  <2>2. CASE i # 1
    <3>1. balance = [m \in Mints |-> IF m = w.input_mint THEN w.input_amount ELSE 0]
      BY <1>1, <2>2 DEF Carried
    <3> HIDE DEF w
    <3> QED
      BY <1>1, <2>2, <3>1
  <2> QED
    BY <2>1, <2>2
<1> HIDE DEF w
<1>3. Net!Leg = w /\ Net!EntryMint = routes[1].swap.input_mint
  BY <1>1 DEF Net!Leg, Net!EntryMint
<1>4. Net!Shortfall = IF i = 1 THEN w.input_amount ELSE 0
  BY <1>1, <1>2, <1>3 DEF Net!Shortfall, Net!Available
<1>5. /\ swaps' = swaps /\ Net!Credit(bare)
      /\ netInput' = netInput + Net!Shortfall
  <2>1. CASE Net!Spend
    <3>1. /\ Net!Shortfall <= 0 /\ netInput' = netInput /\ swaps' = swaps
          /\ Net!Credit([balance EXCEPT ![w.input_mint] = @ - w.input_amount])
      BY <1>3, <2>1 DEF Net!Spend, Net!Credit
    <3>2. Net!Shortfall = 0 /\ balance[w.input_mint] = w.input_amount
      BY <1>1, <1>2, <1>4, <3>1
    <3>3. [balance EXCEPT ![w.input_mint] = @ - w.input_amount]
             = [balance EXCEPT ![w.input_mint] = 0]
      BY <1>1, <1>2, <3>2
    <3>4. netInput \in Int
      BY ChainFacts
    <3> QED
      BY <1>2, <3>1, <3>2, <3>3, <3>4
  <2>2. CASE Net!Fund
    <3>1. /\ Net!Shortfall > 0 /\ swaps' = swaps /\ Net!Credit(Net!Drained)
          /\ netInput' = Net!SaturatingAdd(netInput, Net!Shortfall)
      BY <2>2 DEF Net!Fund, Net!Credit
    <3>2. i = 1 /\ netInput = 0
      BY <1>1, <1>4, <3>1
    <3>3. Net!SaturatingAdd(netInput, Net!Shortfall) = netInput + Net!Shortfall
      BY <1>1, <1>4, <3>2 DEF Net!SaturatingAdd
    <3>4. Net!Drained = bare
      BY <1>2, <1>3 DEF Net!Drained
    <3> QED
      BY <3>1, <3>3, <3>4
  <2> QED
    BY <2>1, <2>2
<1>6. /\ outcome' = "running" /\ i' = i + 1
      /\ balance' = [bare EXCEPT ![w.output_mint] = w.output_amount]
  <2>1. bare[w.output_mint] + w.output_amount = w.output_amount
    BY <1>1
  <2>2. ~ (w.output_amount > MaxU64)
    BY <1>1
  <2> HIDE DEF bare
  <2> QED
    BY <1>3, <1>5, <2>1, <2>2 DEF Net!Credit
<1>7. balance' = [m \in Mints |-> IF m = w.output_mint THEN w.output_amount ELSE 0]
  BY <1>6
<1>8. netInput' = routes[1].swap.input_amount
  <2>1. CASE i = 1
    BY <1>1, <1>4, <1>5, <2>1 DEF w
  <2>2. CASE i # 1
    <3>1. netInput \in Int
      BY <2>2, ChainFacts
    <3> QED
      BY <1>4, <1>5, <2>2, <3>1
  <2> QED
    BY <2>1, <2>2
<1> QED
  BY <1>5, <1>6, <1>7, <1>8 DEF w

\* No leg of a chain runs short of anything but the entry mint.
LEMMA NeverShort ==
    ASSUME LegInv, SwappedAsChain, swaps = Executed, i \in 1 .. Len(routes),
           balance = Carried(routes, i - 1)
    PROVE  Net!Leg.input_mint # Net!EntryMint => ~ (Net!Shortfall > 0)
<1>1. /\ Len(routes) \in Nat \ {0} /\ swaps[i] = routes[i].swap /\ swaps[1] = routes[1].swap
      /\ routes[i].swap.input_mint \in Mints /\ MaxU64 \in Nat
      /\ routes[i].swap.input_amount \in 0 .. MaxU64
  BY ChainFacts, NetAssumption
<1>2. CASE i = 1
  BY <1>1, <1>2 DEF Net!Leg, Net!EntryMint
<1>3. CASE i # 1
  <2>1. /\ routes[i - 1].swap.output_mint = routes[i].swap.input_mint
        /\ routes[i - 1].swap.output_amount = routes[i].swap.input_amount
    <3>1. i - 1 \in 1 .. Len(routes) - 1 /\ (i - 1) + 1 = i
      BY <1>1, <1>3
    <3> QED
      BY <3>1, ChainFacts
  <2>2. balance[routes[i].swap.input_mint] = routes[i].swap.input_amount
    BY <1>1, <1>3, <2>1 DEF Carried
  <2> QED
    BY <1>1, <2>2 DEF Net!Leg, Net!Shortfall, Net!Available
<1> QED
  BY <1>2, <1>3

\* OKX's event is the net swap of the chain.
LEMMA EventIsNet ==
    ASSUME LegInv, NetInv, SwappedAsChain, TakeEvent
    PROVE  /\ outcome' = "ok" /\ netInput' = routes[1].swap.input_amount
           /\ report' = <<Exit, Executed[Len(Executed)].output_amount>>
<1> DEFINE net == [input_mint |-> Entry, output_mint |-> Exit,
                   input_amount |-> Needed(Entry), output_amount |-> Received]
<1>1. agg = "OKXDexRouter2" /\ events # <<>> /\ events \in Announcements
  BY DEF TakeEvent, NetInv, SwappedAsChain, LegReaders
<1>2. events = <<OtherEvent, SwapEvent(net), OtherEvent>>
  BY <1>1 DEF Announcements, LegReaders
<1>3. /\ DOMAIN events = {1, 2, 3}
      /\ events[1].kind = "other" /\ events[3].kind = "other"
      /\ events[2].kind = "SwapEvent" /\ events[2].swaps = <<net>>
  BY <1>2 DEF SwapEvent, OtherEvent
<1>4. /\ net.input_amount = routes[1].swap.input_amount /\ net.output_mint = Exit
      /\ net.output_amount = Executed[Len(Executed)].output_amount
  BY ChainFlows
<1> HIDE DEF net
<1>5. OkxSwaps(events) = {2}
  BY <1>3 DEF OkxSwaps
<1>6. Min({2}) = 2
  BY MinOfOne
<1>7. events[Min(OkxSwaps(events))].swaps[1] = net /\ OkxSwaps(events) # {}
  BY <1>3, <1>5, <1>6
<1>8. /\ outcome' = "ok" /\ netInput' = net.input_amount
      /\ report' = <<net.output_mint, net.output_amount>>
  BY <1>7 DEF TakeEvent
<1> QED
  BY <1>4, <1>8

LEMMA NetStep ==
    ASSUME LegInv, LegInv', NetInv, [NetNext]_allVars
    PROVE  NetInv'
<1>1. /\ routes' = routes /\ agg' = agg /\ events' = events
      /\ SwappedAsChain' = SwappedAsChain /\ Executed' = Executed
      /\ Exit' = Exit /\ Announcements' = Announcements
  BY RoutesStay, ChainStays
<1>2. SUFFICES ASSUME SwappedAsChain, SwappedAsChain'
               PROVE  IF agg = "OKXDexRouter2" THEN EventTaken' ELSE ChainWalked'
  BY <1>1 DEF NetInv
<1> DEFINE same == <<swaps, i, balance, netInput, report, outcome>>
<1>3. CASE UNCHANGED same
  BY <1>1, <1>2, <1>3 DEF NetInv, EventTaken, ChainWalked, Netted
<1>4. IF agg = "OKXDexRouter2" THEN EventTaken ELSE ChainWalked
  BY <1>2 DEF NetInv
<1>5. /\ Len(routes) \in Nat \ {0} /\ routes \in RouteLists /\ routes # <<>>
      /\ swaps = Executed => Len(swaps) = Len(routes) /\ swaps # <<>>
      /\ agg \notin LegReaders => events # <<>>
  BY <1>2, ChainFacts DEF SwappedAsChain
<1>6. result \in {"running", "ok"}
  BY <1>2 DEF LegInv, Chained, SwappedAsChain
<1>7. CASE HandOverLegs \/ HandOverEvents
  <2>1. agg # "OKXDexRouter2"
    BY <1>7 DEF HandOverLegs, HandOverEvents, LegReaders
  <2>2. \E legs : HandOver(legs) /\ legs = Executed
    <3>1. CASE HandOverLegs
      BY <1>2, <3>1, LegsAreExecuted DEF HandOverLegs
    <3>2. CASE HandOverEvents
      <4>1. agg \notin LegReaders /\ events \in Announcements
        BY <3>2 DEF HandOverEvents, LegReaders, NetInv
      <4> QED
        BY <1>5, <3>2, <4>1, AnnouncedIsRead DEF HandOverEvents
    <3> QED
      BY <1>7, <3>1, <3>2
  <2>3. /\ outcome = "waiting" /\ swaps' = Executed /\ outcome' = "running"
        /\ i' = i /\ balance' = balance /\ netInput' = netInput
    BY <2>2 DEF HandOver
  <2> QED
    BY <1>1, <1>4, <2>1, <2>3 DEF ChainWalked
<1>8. CASE WalkGraph
  <2>1. outcome = "running" /\ Net!Next
    BY <1>8 DEF WalkGraph
  <2>2. agg # "OKXDexRouter2" /\ ChainWalked
    BY <1>4, <2>1 DEF EventTaken
  <2>3. /\ swaps = Executed /\ i \in 1 .. Len(routes) + 1 /\ balance = Carried(routes, i - 1)
        /\ netInput = (IF i = 1 THEN 0 ELSE routes[1].swap.input_amount)
    BY <2>1, <2>2 DEF ChainWalked
  <2>4. CASE Net!Spend \/ Net!Fund
    <3>1. i \in 1 .. Len(routes)
      BY <1>5, <2>3, <2>4 DEF Net!Spend, Net!Fund, Net!Walking
    <3>2. /\ swaps' = swaps /\ outcome' = "running" /\ i' = i + 1
          /\ balance' = [m \in Mints |-> IF m = routes[i].swap.output_mint
                                         THEN routes[i].swap.output_amount ELSE 0]
          /\ netInput' = routes[1].swap.input_amount
      BY <1>2, <2>1, <2>3, <2>4, <3>1, WalkOne
    <3>3. i' \in 1 .. Len(routes) + 1 /\ i' # 1 /\ i' - 1 = i /\ i > 0
      BY <1>5, <3>1, <3>2
    <3>4. balance' = Carried(routes', i' - 1)
      BY <1>1, <3>2, <3>3 DEF Carried
    <3> QED
      BY <1>1, <2>2, <2>3, <3>2, <3>3, <3>4 DEF ChainWalked
  <2>5. CASE Net!AbsorbDust \/ Net!ImbalancedRoute
    <3>1. /\ i \in 1 .. Len(routes) /\ Net!Shortfall > 0
          /\ Net!Leg.input_mint # Net!EntryMint
      BY <1>5, <2>3, <2>5 DEF Net!AbsorbDust, Net!ImbalancedRoute, Net!Walking
    <3> QED
      BY <1>2, <2>3, <3>1, NeverShort
  <2>6. CASE Net!NetSwap
    <3>1. /\ i > Len(swaps) /\ outcome' = "ok"
          /\ report' = <<swaps[Len(swaps)].output_mint,
                         balance[swaps[Len(swaps)].output_mint]>>
          /\ swaps' = swaps /\ i' = i /\ balance' = balance /\ netInput' = netInput
      BY <2>6 DEF Net!NetSwap, Net!ExitMint
    <3>2. i = Len(routes) + 1 /\ i - 1 = Len(routes)
      BY <1>5, <2>3, <3>1
    <3>3. /\ Executed[Len(routes)] = routes[Len(routes)].swap /\ Len(Executed) = Len(routes)
          /\ routes[Len(routes)].swap.output_mint \in Mints
      <4>1. Len(routes) \in 1 .. Len(routes)
        BY <1>5
      <4> QED
        BY <1>2, <4>1, ChainFacts
    <3>4. report' = <<Exit, Executed[Len(Executed)].output_amount>>
      BY <1>5, <2>3, <3>1, <3>2, <3>3 DEF Carried, Exit
    <3> QED
      BY <1>1, <2>2, <2>3, <3>1, <3>2, <3>4 DEF ChainWalked, Netted
  <2>7. ~Net!EmptyRoute /\ ~Net!Ended
    BY <1>5, <2>1, <2>3 DEF Net!EmptyRoute, Net!Ended
  <2> QED
    BY <2>1, <2>4, <2>5, <2>6, <2>7 DEF Net!Next
<1>9. CASE DirectLegs \/ Finished \/ UNCHANGED allVars
  BY <1>3, <1>9 DEF DirectLegs, Finished, allVars, netVars
<1>10. CASE NoLegs
  BY <1>6, <1>10 DEF NoLegs
<1>11. CASE TakeEvent
  <2>1. agg = "OKXDexRouter2"
    BY <1>11 DEF TakeEvent
  <2>2. /\ outcome' = "ok" /\ netInput' = routes[1].swap.input_amount
        /\ report' = <<Exit, Executed[Len(Executed)].output_amount>>
    BY <1>2, <1>11, EventIsNet
  <2> QED
    BY <1>1, <2>1, <2>2 DEF EventTaken, Netted
<1> QED
  BY <1>7, <1>8, <1>9, <1>10, <1>11 DEF NetNext

LEMMA NetInvariant == NetSpec => [](LegInv /\ NetInv)
<1>1. NetInit => LegInv /\ NetInv
  BY InitLegInv, InitNetInv DEF NetInit
<1>2. [NetNext]_allVars => [Next]_vars
  BY DEF NetNext, allVars, DirectLegs, HandOverLegs, NoLegs, HandOverEvents, TakeEvent,
         WalkGraph, Finished, HandOver
<1>3. LegInv /\ NetInv /\ [NetNext]_allVars => (LegInv /\ NetInv)'
  BY <1>2, LegsStepKeeps, NetStep
<1> QED
  BY <1>1, <1>3, PTL DEF NetSpec

\* Of a route executed as one chain the net swap is what went into the first leg
\* and came out of the last, in any number of legs, whichever of them were decoded
\* and however the aggregator announced them (SwapGraph::swap on Routes::swap, and
\* the parsers of Jupiter, DFlow and OKX).
THEOREM ChainNet == NetSpec => []NetSwapIsExecuted
<1>1. LegInv /\ NetInv => NetSwapIsExecuted
  <2> SUFFICES ASSUME LegInv, NetInv, routes # <<>>,
                      outcome \notin {"waiting", "running"}, CleanChain, ExactChain,
                      IF agg \in LegReaders THEN ExactTransfers ELSE events # <<>>
               PROVE  /\ outcome = "ok" /\ netInput = Executed[1].input_amount
                      /\ report = <<Exit, Executed[Len(Executed)].output_amount>>
    BY DEF NetSwapIsExecuted
  <2>1. SwappedAsChain
    BY DEF SwappedAsChain
  <2>2. Executed[1] = routes[1].swap /\ Len(routes) \in Nat \ {0}
    BY <2>1, ChainFacts
  <2>3. CASE agg = "OKXDexRouter2"
    BY <2>1, <2>2, <2>3 DEF NetInv, EventTaken, Netted
  <2>4. CASE agg # "OKXDexRouter2"
    <3>1. ChainWalked
      BY <2>1, <2>4 DEF NetInv
    <3>2. outcome = "ok" /\ i = Len(routes) + 1 /\ Netted
      BY <3>1 DEF ChainWalked
    <3>3. i # 1 /\ netInput = (IF i = 1 THEN 0 ELSE routes[1].swap.input_amount)
      BY <2>2, <3>1, <3>2 DEF ChainWalked
    <3> QED
      BY <2>2, <3>2, <3>3 DEF Netted
  <2> QED
    BY <2>3, <2>4
<1> QED
  BY <1>1, NetInvariant, PTL

--------------------------------------------------------------------------------
(* The net swap of any route *)

G == INSTANCE SwapGraphProofs WITH
    Routes <- {[n \in DOMAIN r |-> r[n].swap] : r \in RouteLists},
    result <- outcome

\* The graph of AggregatorNet is the one the theorems of SwapGraph are about.
LEMMA GraphAssumed == G!SwapGraphAssumption
<1> DEFINE legs(r) == [n \in DOMAIN r |-> r[n].swap]
<1>1. ASSUME NEW r \in RouteLists PROVE legs(r) \in Seq(G!Swap)
  <2>1. r \in Seq(Route) /\ Len(r) \in Nat /\ DOMAIN r = 1 .. Len(r)
    BY RouteAssumption
  <2>2. ASSUME NEW n \in DOMAIN r PROVE r[n].swap \in G!Swap
    <3>1. r[n].swap \in Swap
      <4>1. r[n] \in Route
        BY <2>1
      <4> QED
        BY <4>1 DEF Route
    <3>2. r[n].swap.input_amount <= MaxU64 /\ r[n].swap.output_amount <= MaxU64
      BY NetAssumption
    <3>3. MaxU64 \in Nat
      BY NetAssumption
    <3> DEFINE s == r[n].swap
    <3> HIDE DEF s
    <3>4. s \in Swap /\ s.input_amount <= MaxU64 /\ s.output_amount <= MaxU64
      BY <3>1, <3>2 DEF s
    <3>5. s \in G!Swap
      BY <3>3, <3>4 DEF Swap, G!Swap, G!Amounts
    <3> QED
      BY <3>5 DEF s
  <2>3. legs(r) = [n \in 1 .. Len(r) |-> r[n].swap]
    BY <2>1
  <2>4. \A n \in 1 .. Len(r) : r[n].swap \in G!Swap
    BY <2>1, <2>2
  <2>5. legs(r) \in [1 .. Len(r) -> G!Swap]
    BY <2>3, <2>4
  <2> HIDE DEF legs
  <2> QED
    BY <2>1, <2>5
<1>2. {legs(r) : r \in RouteLists} \subseteq Seq(G!Swap)
  <2> HIDE DEF legs
  <2> QED
    BY <1>1
<1> QED
  BY <1>2, NetAssumption DEF G!SwapGraphAssumption

LEMMA SamePieces ==
    /\ Net!Leg = G!Leg /\ Net!EntryMint = G!EntryMint /\ Net!ExitMint = G!ExitMint
    /\ Net!Available = G!Available /\ Net!Shortfall = G!Shortfall
    /\ Net!Take = G!Take /\ Net!Walking = G!Walking /\ Net!Drained = G!Drained
    /\ \A left : Net!Credit(left) = G!Credit(left)
    /\ \A a, b : Net!SaturatingAdd(a, b) = G!SaturatingAdd(a, b)
    /\ \A a, b : Net!IsDust(a, b) = G!IsDust(a, b)
BY DEF Net!Leg, G!Leg, Net!EntryMint, G!EntryMint, Net!ExitMint, G!ExitMint, Net!Available,
       G!Available, Net!Shortfall, G!Shortfall, Net!Take, G!Take, Net!Walking, G!Walking,
       Net!Drained, G!Drained, Net!Credit, G!Credit, Net!SaturatingAdd, G!SaturatingAdd,
       Net!IsDust, G!IsDust, Net!SaturatingMul, G!SaturatingMul

LEMMA SameGraph == Net!Next => G!Next
<1>1. Net!EmptyRoute => G!EmptyRoute
  BY DEF Net!EmptyRoute, G!EmptyRoute, Net!flows, G!flows
<1>2. Net!Spend => G!Spend
  BY SamePieces DEF Net!Spend, G!Spend
<1>3. Net!Fund => G!Fund
  BY SamePieces DEF Net!Fund, G!Fund
<1>4. Net!AbsorbDust => G!AbsorbDust
  BY SamePieces DEF Net!AbsorbDust, G!AbsorbDust
<1>5. Net!ImbalancedRoute => G!ImbalancedRoute
  BY SamePieces DEF Net!ImbalancedRoute, G!ImbalancedRoute
<1>6. Net!NetSwap => G!NetSwap
  BY SamePieces DEF Net!NetSwap, G!NetSwap, Net!flows, G!flows
<1>7. Net!Ended => G!Ended
  BY DEF Net!Ended, G!Ended, Net!vars, G!vars, Net!flows, G!flows
<1> QED
  BY <1>1, <1>2, <1>3, <1>4, <1>5, <1>6, <1>7 DEF Net!Next, G!Next

\* How many legs have taken their input; the leg that is refused has.
Walked == IF outcome = "imbalanced" THEN i ELSE i - 1

\* The graph's flows of a mint are those of the legs it walked.
FollowsLegs(m) ==
    /\ spent[m] = Sum(Took(m), Walked)
    /\ made[m] = Sum(Gave(m), i - 1)
    /\ deficit[m] = 0 \/ \E n \in 1 .. Walked : deficit[m] = Lacked(m, n)
    /\ \A n \in 1 .. Walked : Lacked(m, n) <= deficit[m]

WalkInv ==
    /\ outcome = "waiting" =>
         /\ swaps = <<>> /\ i = 1 /\ netInput = 0 /\ report = <<>>
         /\ balance = [m \in Mints |-> 0] /\ spent = [m \in Mints |-> 0]
         /\ made = [m \in Mints |-> 0] /\ deficit = [m \in Mints |-> 0]
    /\ (routes # <<>> /\ swaps = Executed) =>
         /\ outcome \in {"running", "ok", "imbalanced", "panic"}
         /\ G!GraphInv
         /\ outcome = "imbalanced" => i \in 1 .. Len(routes) /\ report # <<>>
         /\ outcome = "ok" => i = Len(routes) + 1 /\ report = <<Exit, balance[Exit]>>
         /\ \A m \in Mints : FollowsLegs(m)

\* One more leg has taken its input from the mint.
LEMMA FollowsTaken ==
    ASSUME routes \in RouteLists, NEW m \in Mints, NEW j \in 1 .. Len(routes),
           NEW s, NEW t, NEW x, NEW d, NEW e,
           s = Sum(Took(m), j - 1), x = Sum(Gave(m), j - 1),
           d \in Nat, d = 0 \/ \E n \in 1 .. j - 1 : d = Lacked(m, n),
           \A n \in 1 .. j - 1 : Lacked(m, n) <= d,
           t = s + (IF routes[j].swap.input_mint = m THEN routes[j].swap.input_amount ELSE 0),
           e = (IF routes[j].swap.input_mint = m THEN (IF t - x > d THEN t - x ELSE d) ELSE d),
           routes[j].swap.input_mint # m => s - x <= d
    PROVE  /\ t = Sum(Took(m), j)
           /\ e = 0 \/ \E n \in 1 .. j : e = Lacked(m, n)
           /\ \A n \in 1 .. j : Lacked(m, n) <= e
<1>1. /\ t = Sum(Took(m), j) /\ t \in Nat /\ x \in Nat /\ s \in Nat /\ Len(routes) \in Nat
  <2>1. j \in 0 .. Len(routes) /\ j - 1 \in 0 .. Len(routes) /\ Len(routes) \in Nat
    BY FlowLists
  <2> QED
    BY <2>1, FlowSums
<1>2. Lacked(m, j) = t - x
  BY <1>1 DEF Lacked
<1>3. Lacked(m, j) <= e /\ d <= e /\ e \in Nat /\ (e = d \/ e = Lacked(m, j))
  <2>1. CASE routes[j].swap.input_mint = m
    BY <1>1, <1>2, <2>1
  <2>2. CASE routes[j].swap.input_mint # m
    BY <1>1, <1>2, <2>2
  <2> QED
    BY <2>1, <2>2
<1>4. \A n \in 1 .. j : n = j \/ n \in 1 .. j - 1
  BY <1>1
<1>5. \A n \in 1 .. j - 1 : n \in 1 .. j /\ Lacked(m, n) \in Int
  <2> SUFFICES ASSUME NEW n \in 1 .. j - 1 PROVE n \in 1 .. j /\ Lacked(m, n) \in Int
    OBVIOUS
  <2>1. n \in 1 .. j /\ n \in 0 .. Len(routes) /\ n - 1 \in 0 .. Len(routes)
    BY <1>1
  <2>2. Sum(Took(m), n) \in Nat /\ Sum(Gave(m), n - 1) \in Nat
    BY <2>1, FlowSums
  <2> QED
    BY <2>1, <2>2 DEF Lacked
<1>6. \A n \in 1 .. j : Lacked(m, n) <= e
  <2> SUFFICES ASSUME NEW n \in 1 .. j PROVE Lacked(m, n) <= e
    OBVIOUS
  <2>1. CASE n = j
    BY <1>3, <2>1
  <2>2. CASE n \in 1 .. j - 1
    BY <1>3, <1>5, <2>2
  <2> QED
    BY <1>4, <2>1, <2>2
<1>7. e = 0 \/ \E n \in 1 .. j : e = Lacked(m, n)
  <2>1. j \in 1 .. j
    BY <1>1
  <2> QED
    BY <1>3, <1>5, <2>1
<1> QED
  BY <1>1, <1>6, <1>7

LEMMA TakeFollows ==
    ASSUME routes \in RouteLists, routes # <<>>, swaps = Executed, outcome = "running",
           G!GraphInv, \A m \in Mints : FollowsLegs(m), G!Walking, G!Take
    PROVE  /\ i \in 1 .. Len(routes) /\ G!Leg = routes[i].swap
           /\ \A m \in Mints :
                /\ spent'[m] = Sum(Took(m), i)
                /\ deficit'[m] = 0 \/ \E n \in 1 .. i : deficit'[m] = Lacked(m, n)
                /\ \A n \in 1 .. i : Lacked(m, n) <= deficit'[m]
<1>1. /\ Len(Executed) = Len(routes) /\ Len(routes) \in Nat
      /\ \A n \in 1 .. Len(routes) : Executed[n] = routes[n].swap
  BY ExecutedFacts
<1>2. i \in 1 .. Len(routes) /\ G!Leg = routes[i].swap
  BY <1>1 DEF G!Walking, G!Leg
<1> DEFINE in == routes[i].swap.input_mint
           x  == routes[i].swap.input_amount
<1>3. /\ in \in Mints /\ x \in Nat
  BY <1>2, ExecutedFacts
<1>4. G!TypeOK /\ G!Flow
  BY DEF G!GraphInv
<1>5. /\ spent'[in] = spent[in] + x
      /\ deficit'[in] = IF spent'[in] - made[in] > deficit[in]
                        THEN spent'[in] - made[in] ELSE deficit[in]
      /\ \A m \in Mints : m # in => spent'[m] = spent[m] /\ deficit'[m] = deficit[m]
  <2>1. LET in0 == G!Leg.input_mint
            x0  == G!Leg.input_amount
        IN  /\ spent' \in [Mints -> Nat] /\ deficit' \in [Mints -> Nat]
            /\ spent'[in0] = spent[in0] + x0
            /\ deficit'[in0] = IF spent'[in0] - made[in0] > deficit[in0]
                              THEN spent'[in0] - made[in0] ELSE deficit[in0]
            /\ \A m \in Mints : m # in0 => spent'[m] = spent[m] /\ deficit'[m] = deficit[m]
    BY <1>4, GraphAssumed, G!TakeFacts
  <2> QED
    BY <1>2, <2>1
<1>6. SUFFICES ASSUME NEW m \in Mints
               PROVE  /\ spent'[m] = Sum(Took(m), i)
                      /\ deficit'[m] = 0 \/ \E n \in 1 .. i : deficit'[m] = Lacked(m, n)
                      /\ \A n \in 1 .. i : Lacked(m, n) <= deficit'[m]
  BY <1>2
<1>7. /\ spent[m] \in Nat /\ deficit[m] \in Nat /\ made[m] \in Nat
      /\ spent[m] - made[m] <= deficit[m]
  BY <1>4 DEF G!TypeOK, G!Flow
<1>8. /\ spent[m] = Sum(Took(m), i - 1) /\ made[m] = Sum(Gave(m), i - 1)
      /\ deficit[m] = 0 \/ \E n \in 1 .. i - 1 : deficit[m] = Lacked(m, n)
      /\ \A n \in 1 .. i - 1 : Lacked(m, n) <= deficit[m]
  BY DEF FollowsLegs, Walked
<1>9. /\ spent'[m] = spent[m] + IF in = m THEN x ELSE 0
      /\ deficit'[m] = IF in = m
                       THEN (IF spent'[m] - made[m] > deficit[m]
                             THEN spent'[m] - made[m] ELSE deficit[m])
                       ELSE deficit[m]
  BY <1>3, <1>5, <1>7
<1>10. in # m => spent[m] - made[m] <= deficit[m]
  BY <1>7
<1> DEFINE s == spent[m]
           t == spent'[m]
           g == made[m]
           d == deficit[m]
           e == deficit'[m]
           j == i
<1>11. /\ s = Sum(Took(m), j - 1) /\ g = Sum(Gave(m), j - 1)
       /\ d \in Nat /\ (d = 0 \/ \E n \in 1 .. j - 1 : d = Lacked(m, n))
       /\ \A n \in 1 .. j - 1 : Lacked(m, n) <= d
       /\ t = s + (IF routes[j].swap.input_mint = m THEN routes[j].swap.input_amount ELSE 0)
       /\ e = (IF routes[j].swap.input_mint = m THEN (IF t - g > d THEN t - g ELSE d) ELSE d)
       /\ routes[j].swap.input_mint # m => s - g <= d
       /\ j \in 1 .. Len(routes)
  BY <1>2, <1>7, <1>8, <1>9, <1>10
<1> HIDE DEF s, t, g, d, e, j
<1>12. /\ t = Sum(Took(m), j)
       /\ e = 0 \/ \E n \in 1 .. j : e = Lacked(m, n)
       /\ \A n \in 1 .. j : Lacked(m, n) <= e
  BY <1>11, FollowsTaken
<1> QED
  BY <1>12 DEF s, t, g, d, e, j

LEMMA WalkFollows ==
    ASSUME routes \in RouteLists, routes # <<>>, swaps = Executed, outcome = "running",
           G!GraphInv, \A m \in Mints : FollowsLegs(m), Net!Next, routes' = routes
    PROVE  /\ swaps' = swaps /\ G!GraphInv'
           /\ outcome' \in {"running", "ok", "imbalanced", "panic"}
           /\ outcome' = "imbalanced" => i' \in 1 .. Len(routes') /\ report' # <<>>
           /\ outcome' = "ok" => i' = Len(routes') + 1 /\ report' = <<Exit', balance'[Exit']>>
           /\ \A m \in Mints : FollowsLegs(m)'
<1>1. G!Next
  BY SameGraph
<1>2. G!GraphInv'
  <2>1. [G!Next]_(G!vars)
    BY <1>1
  <2> QED
    BY <2>1, GraphAssumed, G!StepGraphInv
<1>3. /\ Len(Executed) = Len(routes) /\ Len(routes) \in Nat \ {0} /\ Executed # <<>>
      /\ \A n \in 1 .. Len(routes) :
           /\ routes[n].swap.input_mint \in Mints /\ routes[n].swap.output_mint \in Mints
           /\ routes[n].swap.output_amount \in Nat
  BY ExecutedFacts
<1>4. /\ \A m : Took(m)' = Took(m) /\ Gave(m)' = Gave(m) /\ Exit' = Exit
      /\ \A m, n : Lacked(m, n)' = Lacked(m, n)
  BY LegsStay
<1>5. /\ i \in 1 .. Len(routes) + 1 /\ made \in [Mints -> Nat]
  BY <1>3 DEF G!GraphInv, G!TypeOK
<1>6. CASE G!Spend \/ G!Fund \/ G!AbsorbDust
  <2>1. G!Walking /\ G!Take /\ \E left : G!Credit(left)
    BY <1>6 DEF G!Spend, G!Fund, G!AbsorbDust
  <2>2. /\ swaps' = swaps /\ i' = i + 1 /\ outcome' \in {"running", "panic"}
        /\ made' = [made EXCEPT ![G!Leg.output_mint] = @ + G!Leg.output_amount]
    BY <2>1 DEF G!Credit
  <2>3. /\ i \in 1 .. Len(routes) /\ G!Leg = routes[i].swap
        /\ \A m \in Mints :
                /\ spent'[m] = Sum(Took(m), i)
                /\ deficit'[m] = 0 \/ \E n \in 1 .. i : deficit'[m] = Lacked(m, n)
                /\ \A n \in 1 .. i : Lacked(m, n) <= deficit'[m]
    BY <2>1, TakeFollows
  <2>4. Walked' = i /\ i' - 1 = i
    BY <2>2, <2>3 DEF Walked
  <2>5. ASSUME NEW m \in Mints PROVE made'[m] = Sum(Gave(m), i)
    <3>1. made[m] = Sum(Gave(m), i - 1)
      BY DEF FollowsLegs
    <3>2. Sum(Gave(m), i) = Sum(Gave(m), i - 1)
              + IF routes[i].swap.output_mint = m THEN routes[i].swap.output_amount ELSE 0
      BY <2>3, FlowSums
    <3>3. made[m] \in Nat /\ routes[i].swap.output_mint \in Mints
      BY <1>3, <1>5, <2>3
    <3>4. made'[m] = made[m]
              + IF routes[i].swap.output_mint = m THEN routes[i].swap.output_amount ELSE 0
      BY <1>5, <2>2, <2>3, <3>3
    <3> QED
      BY <3>1, <3>2, <3>4
  <2>6. \A m \in Mints : FollowsLegs(m)'
    BY <1>4, <2>3, <2>4, <2>5 DEF FollowsLegs
  <2> QED
    BY <1>2, <2>2, <2>6
<1>7. CASE G!ImbalancedRoute
  <2>1. /\ G!Walking /\ G!Take /\ swaps' = swaps /\ i' = i /\ made' = made
        /\ outcome' = "imbalanced" /\ report' = <<G!Leg.input_mint, G!Shortfall>>
    BY <1>7 DEF G!ImbalancedRoute
  <2>2. /\ i \in 1 .. Len(routes) /\ G!Leg = routes[i].swap
        /\ \A m \in Mints :
                /\ spent'[m] = Sum(Took(m), i)
                /\ deficit'[m] = 0 \/ \E n \in 1 .. i : deficit'[m] = Lacked(m, n)
                /\ \A n \in 1 .. i : Lacked(m, n) <= deficit'[m]
    BY <2>1, TakeFollows
  <2>3. Walked' = i /\ i' - 1 = i - 1
    BY <2>1 DEF Walked
  <2>4. \A m \in Mints : FollowsLegs(m)'
    BY <1>4, <2>1, <2>2, <2>3 DEF FollowsLegs
  <2>5. report' # <<>>
    BY <1>3, <2>1, <2>2
  <2> QED
    BY <1>2, <2>1, <2>2, <2>4, <2>5
<1>8. CASE G!NetSwap
  <2>1. /\ i > Len(swaps) /\ outcome' = "ok" /\ swaps' = swaps /\ i' = i
        /\ spent' = spent /\ made' = made /\ deficit' = deficit /\ balance' = balance
        /\ report' = <<G!ExitMint, balance[G!ExitMint]>> /\ G!ExitMint = Exit
    BY <1>8 DEF G!NetSwap, G!flows, G!ExitMint, Exit
  <2>2. i' = Len(routes') + 1 /\ report' = <<Exit', balance'[Exit']>>
    BY <1>3, <1>4, <1>5, <2>1
  <2>3. Walked' = Walked /\ i' - 1 = i - 1
    BY <2>1 DEF Walked
  <2>4. \A m \in Mints : FollowsLegs(m)'
    BY <1>4, <2>1, <2>3 DEF FollowsLegs
  <2> QED
    BY <1>2, <2>1, <2>2, <2>4
<1>9. ~G!EmptyRoute /\ ~G!Ended
  BY <1>3 DEF G!EmptyRoute, G!Ended
<1> QED
  BY <1>1, <1>6, <1>7, <1>8, <1>9 DEF G!Next

LEMMA InitWalkInv == NetInit => WalkInv
<1> SUFFICES ASSUME NetInit PROVE WalkInv
  OBVIOUS
<1>1. routes \in RouteLists
  BY InitLegInv DEF NetInit, LegInv
<1>2. routes # <<>> => Executed # <<>>
  BY <1>1, ExecutedFacts
<1> QED
  BY <1>2 DEF NetInit, WalkInv

LEMMA GraphInitial == G!Init => G!GraphInv
BY GraphAssumed, G!InitGraphInv

LEMMA GraphStarts ==
    ASSUME routes' \in RouteLists, swaps' = Executed', i' = 1, outcome' = "running",
           netInput' = 0, report' = <<>>, balance' = [m \in Mints |-> 0],
           spent' = [m \in Mints |-> 0], made' = [m \in Mints |-> 0],
           deficit' = [m \in Mints |-> 0]
    PROVE  G!GraphInv'
<1>1. G!Init'
  <2>1. Executed' \in {[n \in DOMAIN r |-> r[n].swap] : r \in RouteLists}
    BY DEF Executed
  <2> QED
    BY <2>1 DEF G!Init
<1>2. G!Init' => G!GraphInv'
  BY GraphInitial, PTL
<1> QED
  BY <1>1, <1>2

LEMMA WalkStep ==
    ASSUME LegInv, WalkInv, [NetNext]_allVars
    PROVE  WalkInv'
<1>1. /\ routes \in RouteLists /\ routes' = routes /\ agg' = agg
      /\ Executed' = Executed /\ Exit' = Exit
      /\ \A m : Took(m)' = Took(m) /\ Gave(m)' = Gave(m)
      /\ \A m, n : Lacked(m, n)' = Lacked(m, n)
  BY RoutesStay, LegsStay DEF LegInv
<1>2. routes # <<>> => Executed # <<>>
  BY <1>1, ExecutedFacts
<1>3. CASE WalkGraph
  <2>1. outcome = "running" /\ Net!Next
    BY <1>3 DEF WalkGraph
  <2>2. swaps' = swaps /\ outcome' # "waiting"
    BY <2>1 DEF Net!Next, Net!EmptyRoute, Net!Spend, Net!Fund, Net!AbsorbDust,
       Net!ImbalancedRoute, Net!NetSwap, Net!Ended, Net!Credit
  <2>3. ASSUME routes # <<>>, swaps = Executed
        PROVE  /\ G!GraphInv'
               /\ outcome' \in {"running", "ok", "imbalanced", "panic"}
               /\ outcome' = "imbalanced" => i' \in 1 .. Len(routes') /\ report' # <<>>
               /\ outcome' = "ok" => i' = Len(routes') + 1 /\ report' = <<Exit', balance'[Exit']>>
               /\ \A m \in Mints : FollowsLegs(m)'
    <3>1. G!GraphInv /\ \A m \in Mints : FollowsLegs(m)
      BY <2>3 DEF WalkInv
    <3> QED
      BY <1>1, <2>1, <2>3, <3>1, WalkFollows
  <2> QED
    BY <1>1, <2>2, <2>3 DEF WalkInv
<1>4. CASE HandOverLegs \/ HandOverEvents
  <2>1. \E legs : HandOver(legs)
    BY <1>4 DEF HandOverLegs, HandOverEvents
  <2>2. /\ outcome = "waiting" /\ outcome' = "running" /\ i' = i /\ balance' = balance
        /\ netInput' = netInput /\ report' = report /\ spent' = spent /\ made' = made
        /\ deficit' = deficit
    BY <2>1 DEF HandOver
  <2>3. /\ i' = 1 /\ netInput' = 0 /\ report' = <<>> /\ balance' = [m \in Mints |-> 0]
        /\ spent' = [m \in Mints |-> 0] /\ made' = [m \in Mints |-> 0]
        /\ deficit' = [m \in Mints |-> 0]
    BY <2>2 DEF WalkInv
  <2>4. swaps' = Executed' => G!GraphInv'
    BY <1>1, <2>2, <2>3, GraphStarts
  <2>5. Walked' = 0 /\ i' - 1 = 0 /\ 1 .. 0 = {}
    BY <2>2, <2>3 DEF Walked
  <2>6. ASSUME NEW m \in Mints PROVE FollowsLegs(m)'
    <3>1. Sum(Took(m), 0) = 0 /\ Sum(Gave(m), 0) = 0
      BY <1>1, FlowSums
    <3>2. spent'[m] = 0 /\ made'[m] = 0 /\ deficit'[m] = 0
      BY <2>3
    <3> QED
      BY <1>1, <2>5, <3>1, <3>2 DEF FollowsLegs
  <2> QED
    BY <2>2, <2>4, <2>6 DEF WalkInv
<1>5. CASE NoLegs \/ TakeEvent
  <2>1. outcome = "waiting" /\ swaps' = swaps /\ outcome' # "waiting"
    BY <1>5 DEF NoLegs, TakeEvent
  <2>2. swaps = <<>>
    BY <2>1 DEF WalkInv
  <2> QED
    BY <1>1, <1>2, <2>1, <2>2 DEF WalkInv
<1>6. CASE DirectLegs \/ Finished \/ UNCHANGED allVars
  <2>1. UNCHANGED netVars
    BY <1>6 DEF DirectLegs, Finished, allVars
  <2>2. UNCHANGED G!vars
    BY <2>1 DEF netVars, G!vars, G!flows
  <2>3. G!GraphInv => G!GraphInv'
    BY <2>2, GraphAssumed, G!StepGraphInv
  <2>4. Walked' = Walked
    BY <2>1 DEF netVars, Walked
  <2>5. \A m \in Mints : FollowsLegs(m) => FollowsLegs(m)'
    BY <1>1, <2>1, <2>4 DEF FollowsLegs, netVars
  <2> QED
    BY <1>1, <2>1, <2>3, <2>5 DEF WalkInv, netVars
<1> QED
  BY <1>3, <1>4, <1>5, <1>6 DEF NetNext


LEMMA NetSwapFollows ==
    ASSUME LegInv, WalkInv
    PROVE  NetSwapIsWalletChange
<1> SUFFICES ASSUME routes # <<>>, swaps = Executed, TotalsFit,
                    outcome \notin {"waiting", "running"}
             PROVE  /\ outcome = "ok" =>
                         /\ netInput = Needed(Entry) /\ report = <<Exit, Received>>
                         /\ \A m \in Mints \ {Entry} : OnlyDust(m)
                    /\ SelfFunded => outcome = "ok"
  BY DEF NetSwapIsWalletChange, IsWalletChange
<1>1. /\ routes \in RouteLists /\ Len(routes) \in Nat \ {0} /\ Len(Executed) = Len(routes)
      /\ Entry \in Mints /\ Exit \in Mints /\ swaps # <<>>
  BY ExecutedFacts DEF LegInv
<1>2. /\ outcome \in {"ok", "imbalanced", "panic"} /\ G!GraphInv
      /\ outcome = "imbalanced" => i \in 1 .. Len(routes) /\ report # <<>>
      /\ outcome = "ok" => i = Len(routes) + 1 /\ report = <<Exit, balance[Exit]>>
      /\ \A m \in Mints : FollowsLegs(m)
  BY DEF WalkInv
<1>3. /\ G!TypeOK /\ G!Flow /\ G!BalancesConserve /\ G!NetInputIsLeastCapital
      /\ G!DustIsScaled /\ G!RefusalIsReal /\ G!NoPanicInRange
  BY <1>2 DEF G!GraphInv
<1>4. /\ G!EntryMint = Entry
      /\ i \in 1 .. Len(routes) + 1
      /\ \A m \in Mints : spent[m] \in Nat /\ made[m] \in Nat /\ deficit[m] \in Nat
  BY <1>1, <1>3 DEF G!EntryMint, Entry, G!TypeOK
<1>5. Walked \in 0 .. Len(routes) /\ i - 1 \in 0 .. Len(routes)
  BY <1>1, <1>2, <1>4 DEF Walked
<1>6. G!InRange
  <2> SUFFICES ASSUME NEW m \in Mints PROVE spent[m] <= MaxU64 /\ made[m] <= MaxU64
    BY DEF G!InRange
  <2>1. /\ Sum(Took(m), Len(routes)) <= MaxU64 /\ Sum(Gave(m), Len(routes)) <= MaxU64
    BY DEF TotalsFit
  <2>2. /\ Sum(Took(m), Walked) <= Sum(Took(m), Len(routes))
        /\ Sum(Gave(m), i - 1) <= Sum(Gave(m), Len(routes))
    BY <1>1, <1>5, FlowSums
  <2>3. /\ Sum(Took(m), Walked) \in Nat /\ Sum(Took(m), Len(routes)) \in Nat
        /\ Sum(Gave(m), i - 1) \in Nat /\ Sum(Gave(m), Len(routes)) \in Nat
    <3>1. Len(routes) \in 0 .. Len(routes)
      BY <1>1
    <3> QED
      BY <1>1, <1>5, <3>1, FlowSums
  <2>4. spent[m] = Sum(Took(m), Walked) /\ made[m] = Sum(Gave(m), i - 1)
    BY <1>2 DEF FollowsLegs
  <2>5. MaxU64 \in Nat
    BY NetAssumption
  <2> QED
    BY <2>1, <2>2, <2>3, <2>4, <2>5
<1>7. outcome \in {"ok", "imbalanced"}
  BY <1>2, <1>3, <1>6 DEF G!NoPanicInRange
<1>8. ASSUME outcome = "imbalanced" PROVE ~SelfFunded
  <2>1. /\ report[1] # Entry /\ 0 < report[2]
        /\ report[2] <= spent[report[1]] - made[report[1]]
    BY <1>3, <1>4, <1>6, <1>8 DEF G!RefusalIsReal
  <2> DEFINE m == report[1]
  <2>2. i \in 1 .. Len(routes) /\ Walked = i /\ report # <<>>
    BY <1>2, <1>8 DEF Walked
  <2>3. m \in Mints /\ report[2] \in Nat
    <3>1. report \in Mints \X G!Amounts /\ MaxU64 \in Nat
      BY <1>3, <2>2, NetAssumption DEF G!TypeOK
    <3> QED
      BY <3>1 DEF G!Amounts
  <2> HIDE DEF m
  <2>4. spent[m] = Sum(Took(m), i) /\ made[m] = Sum(Gave(m), i - 1)
    BY <1>2, <2>2, <2>3 DEF FollowsLegs
  <2>5. Lacked(m, i) = spent[m] - made[m] /\ m # Entry
    BY <2>1, <2>4 DEF Lacked, m
  <2>6. Lacked(m, i) <= Needed(m) /\ Needed(m) \in Nat
    BY <1>1, <2>2, NeededBounds
  <2>7. spent[m] - made[m] \in Int /\ report[2] <= spent[m] - made[m]
    BY <1>4, <2>1, <2>3 DEF m
  <2>8. 0 < Needed(m)
    BY <2>1, <2>3, <2>5, <2>6, <2>7
  <2> QED
    BY <2>3, <2>5, <2>8 DEF SelfFunded
<1>9. ASSUME outcome = "ok"
      PROVE  \A m \in Mints : /\ Needed(m) = deficit[m]
                              /\ spent[m] = Sum(Took(m), Len(routes))
                              /\ made[m] = Sum(Gave(m), Len(routes))
  <2>1. Walked = Len(routes) /\ i - 1 = Len(routes)
    BY <1>1, <1>2, <1>9 DEF Walked
  <2> SUFFICES ASSUME NEW m \in Mints
               PROVE  /\ Needed(m) = deficit[m]
                      /\ spent[m] = Sum(Took(m), Len(routes))
                      /\ made[m] = Sum(Gave(m), Len(routes))
    OBVIOUS
  <2>2. /\ spent[m] = Sum(Took(m), Len(routes))
        /\ made[m] = Sum(Gave(m), Len(routes))
        /\ deficit[m] = 0 \/ \E n \in 1 .. Len(routes) : deficit[m] = Lacked(m, n)
        /\ \A n \in 1 .. Len(routes) : Lacked(m, n) <= deficit[m]
    BY <1>2, <2>1 DEF FollowsLegs
  <2> DEFINE d == deficit[m]
  <2>3. d \in Nat
    BY <1>4
  <2> HIDE DEF d
  <2>4. /\ d = 0 \/ \E n \in 1 .. Len(routes) : d = Lacked(m, n)
        /\ \A n \in 1 .. Len(routes) : Lacked(m, n) <= d
    BY <2>2 DEF d
  <2>5. Needed(m) = d
    BY <1>1, <2>3, <2>4, NeededIs
  <2> QED
    BY <2>2, <2>5 DEF d
<1>10. ASSUME outcome = "ok"
       PROVE  netInput = Needed(Entry) /\ report = <<Exit, Received>>
  <2>1. netInput = deficit[Entry]
    BY <1>1, <1>3, <1>4, <1>6 DEF G!NetInputIsLeastCapital
  <2>2. balance[Exit] = made[Exit] - spent[Exit] + deficit[Exit]
    BY <1>1, <1>3, <1>6, <1>10 DEF G!BalancesConserve
  <2> QED
    BY <1>1, <1>2, <1>9, <1>10, <2>1, <2>2 DEF Received
<1>11. ASSUME outcome = "ok", NEW m \in Mints \ {Entry} PROVE OnlyDust(m)
  <2>1. (\A o \in Mints : DustBps * spent[o] < MaxU64) =>
            BpsScale * deficit[m] <= DustBps * spent[m]
    BY <1>1, <1>3, <1>4, <1>11 DEF G!DustIsScaled
  <2>2. (\A o \in Mints : DustBps * Sum(Took(o), Len(routes)) < MaxU64)
            => \A o \in Mints : DustBps * spent[o] < MaxU64
    BY <1>9, <1>11
  <2>3. Needed(m) = deficit[m] /\ spent[m] = Sum(Took(m), Len(routes))
    BY <1>9, <1>11
  <2> QED
    BY <2>1, <2>2, <2>3 DEF OnlyDust
<1> QED
  BY <1>7, <1>8, <1>10, <1>11

\* Of any route whose legs reach the graph as they were executed, however many
\* legs and mints, split or cyclic, the net input is the least the wallet had to
\* hold of the first mint and the output all that was left of the last; no other
\* mint was lacked by more than dust, and a route that lacked none is not refused
\* (SwapGraph::swap, graph.rs).
THEOREM NetIsWalletChange == NetSpec => []NetSwapIsWalletChange
<1>1. NetInit => LegInv /\ WalkInv
  BY InitLegInv, InitWalkInv DEF NetInit
<1>2. [NetNext]_allVars => [Next]_vars
  BY DEF NetNext, allVars, DirectLegs, HandOverLegs, NoLegs, HandOverEvents, TakeEvent,
         WalkGraph, Finished, HandOver
<1>3. LegInv /\ WalkInv /\ [NetNext]_allVars => (LegInv /\ WalkInv)'
  BY <1>2, LegsStepKeeps, WalkStep
<1>4. LegInv /\ WalkInv => NetSwapIsWalletChange
  BY NetSwapFollows
<1> QED
  BY <1>1, <1>3, <1>4, PTL DEF NetSpec
================================================================================
