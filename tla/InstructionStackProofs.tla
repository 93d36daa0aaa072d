------------------------ MODULE InstructionStackProofs ------------------------
(***************************************************************************)
(* What holds of build_ix_stack for every list of heights: the types of    *)
(* its variables; that the paths it writes are the positions of the nodes  *)
(* in the tree it returns; that every node is below its caller, as deep as *)
(* the height it ran at; that the tree is grown as CpiTree says; and that  *)
(* flattening it gives the list of inner instructions back.  Then, of      *)
(* TxLogs, that every parser is told the same about whether a transaction's *)
(* logs can be read, and that it is given the logs of its own instruction  *)
(* if they are there, and never those of another.                          *)
(***************************************************************************)
EXTENDS TxLogs, ProofLemmas, SequenceTheorems, FiniteSetTheorems, TLAPS

ScopeType == [id : Nodes, height : Nat \cup {NoHeight}, count : 0 .. U8Max]

(***************************************************************************)
(* Facts about the pieces of an action, stated once.                       *)
(***************************************************************************)

\* A list of heights is a sequence no longer than a u8 can count.
LEMMA HeightsType ==
    ASSUME heights \in HeightSeqs
    PROVE  /\ heights \in Seq(Nat \cup {NoHeight})
           /\ Len(heights) \in 0 .. U8Max
           /\ \A n \in Nodes : heights[n] \in Nat \cup {NoHeight}
<1>1. /\ heights \in Seq(Nat \cup {NoHeight})
      /\ Len(heights) <= U8Max
  BY HeightAssumption
<1>2. Len(heights) \in Nat
  BY <1>1
<1> QED
  BY <1>1, <1>2, HeightAssumption DEF Nodes

\* A u8 that has not reached its largest value is incremented without loss.
LEMMA IncrementExact ==
    ASSUME NEW c \in Nat
    PROVE  /\ Increment(c) \in 0 .. U8Max
           /\ c + 1 <= U8Max => Increment(c) = c + 1
BY HeightAssumption, SMT DEF Increment

\* What Attach does to the stack: the top is gone, the new top's counter is
\* incremented, everything else is as it was.
LEMMA AttachStack ==
    ASSUME TypeOK, stack # <<>>, Attach
    PROVE  /\ Len(stack) \in Nat \ {0}
           /\ stack' \in Seq(ScopeType)
           /\ Len(stack') = Len(stack) - 1
           /\ \A k \in 1 .. Len(stack') :
                /\ stack'[k].id = stack[k].id
                /\ stack'[k].height = stack[k].height
                /\ stack'[k].count = IF k = Len(stack) - 1
                                     THEN Increment(stack[k].count)
                                     ELSE stack[k].count
<1> DEFINE d == Len(stack)
<1>1. stack \in Seq(ScopeType)
  BY DEF TypeOK, ScopeType
<1>2. d \in Nat \ {0}
  BY <1>1
<1>3. CASE d = 1
  BY <1>2, <1>3 DEF Attach
<1>4. CASE d # 1
  <2> DEFINE below == SubSeq(stack, 1, d - 1)
  <2>1. /\ below \in Seq(ScopeType)
        /\ Len(below) = d - 1
        /\ \A k \in 1 .. d - 1 : below[k] = stack[k] /\ below[k] \in ScopeType
    <3> HIDE DEF ScopeType
    <3>1. d - 1 \in Int /\ 1 <= d - 1
      <4> HIDE DEF d
      <4> QED BY <1>2, <1>4
    <3>2. \A k \in 1 .. d - 1 : stack[k] \in ScopeType
      BY <1>1, <1>2, <1>4
    <3>3. /\ below \in Seq(ScopeType)
          /\ Len(below) = (d - 1) - 1 + 1
          /\ \A k \in 1 .. (d - 1) - 1 + 1 : below[k] = stack[1 + k - 1]
      <4> HIDE DEF d
      <4> QED BY <3>1, <3>2, SubSeqProperties
    <3> QED
      BY <3>1, <3>2, <3>3
  <2>2. stack' = [below EXCEPT ![d - 1].count = Increment(@)]
    BY <1>4 DEF Attach
  <2>3. below[d - 1].count \in Nat /\ below[d - 1] \in ScopeType
    BY <2>1, <1>2, <1>4, HeightAssumption DEF ScopeType
  <2>4. Increment(below[d - 1].count) \in 0 .. U8Max
    BY <2>3, IncrementExact
  <2>5. [below[d - 1] EXCEPT !.count = Increment(@)] \in ScopeType
    BY <2>3, <2>4 DEF ScopeType
  <2> HIDE DEF below
  <2>6. /\ stack' \in Seq(ScopeType)
        /\ Len(stack') = d - 1
        /\ \A k \in 1 .. d - 1 :
             stack'[k] = IF k = d - 1
                         THEN [below[k] EXCEPT !.count = Increment(@)] ELSE below[k]
    BY <2>1, <2>2, <2>5, <1>2, <1>4
  <2>7. \A k \in 1 .. d - 1 : /\ stack'[k].id = stack[k].id
                              /\ stack'[k].height = stack[k].height
                              /\ stack'[k].count = IF k = d - 1
                                                   THEN Increment(stack[k].count)
                                                   ELSE stack[k].count
    BY <2>1, <2>6 DEF ScopeType
  <2> QED
    BY <2>6, <2>7, <1>2
<1> QED
  BY <1>3, <1>4

\* The scope a node belongs to is the root or an input position.
LEMMA ParentType ==
    ASSUME TypeOK, NEW k \in 1 .. Len(stack)
    PROVE  /\ stack[k] \in ScopeType
           /\ ParentAt(k) \in 0 .. Len(heights)
<1>1. stack \in Seq(ScopeType)
  BY DEF TypeOK, ScopeType
<1>2. Len(heights) \in Nat
  BY HeightsType DEF TypeOK
<1>3. stack[k] \in ScopeType /\ (k # 1 => stack[k - 1] \in ScopeType)
  BY <1>1
<1> QED
  BY <1>2, <1>3 DEF ParentAt, ScopeType, Nodes

\* What Attach does to the children: one list grows by the popped node.
LEMMA AttachInner ==
    ASSUME TypeOK, stack # <<>>, Attach
    PROVE  LET parent == ParentAt(Len(stack))
               node   == stack[Len(stack)].id
           IN  /\ Len(stack) \in 1 .. Len(stack)
               /\ parent \in 0 .. Len(heights)
               /\ node \in Nodes
               /\ inner' \in [0 .. Len(heights) -> Seq(Nodes)]
               /\ inner'[parent] = Append(inner[parent], node)
               /\ \A p \in 0 .. Len(heights) : p # parent => inner'[p] = inner[p]
<1>1. Len(stack) \in 1 .. Len(stack)
  BY AttachStack
<1>2. /\ ParentAt(Len(stack)) \in 0 .. Len(heights)
      /\ stack[Len(stack)].id \in Nodes
  BY <1>1, ParentType DEF ScopeType
<1> QED
  BY <1>1, <1>2 DEF Attach, TypeOK

--------------------------------------------------------------------------------
(* Type correctness *)

\* The types hold when the loops start.
LEMMA InitType == Init => TypeOK
<1> SUFFICES ASSUME Init PROVE TypeOK
  OBVIOUS
<1>1. Len(heights) \in 0 .. U8Max
  BY HeightsType DEF Init
<1>2. path \in [0 .. Len(heights) -> Seq(Nat)]
  BY HeightAssumption DEF Init
<1> QED
  BY <1>1, <1>2, HeightAssumption DEF Init, TypeOK

\* One step of the loops keeps the types.
LEMMA StepType == TypeOK /\ [Next]_vars => TypeOK'
<1> SUFFICES ASSUME TypeOK, [Next]_vars PROVE TypeOK'
  OBVIOUS
<1>1. CASE CloseScope
  <2>1. heights' = heights /\ stack # <<>> /\ Attach
    BY <1>1 DEF CloseScope
  <2>2. stack' \in Seq(ScopeType) /\ inner' \in [0 .. Len(heights) -> Seq(Nodes)]
    BY <2>1, AttachStack, AttachInner
  <2>3. rootCount' \in 0 .. U8Max
    BY <1>1, IncrementExact DEF CloseScope, TypeOK
  <2> QED
    BY <1>1, <2>1, <2>2, <2>3 DEF CloseScope, TypeOK, ScopeType, Nodes
<1>2. CASE OpenScope
  <2>1. heights' = heights /\ next \in Nodes /\ next' = next + 1
    BY <1>2 DEF OpenScope
  <2>2. [id |-> next, height |-> heights[next], count |-> 0] \in ScopeType
    BY <2>1, HeightsType, HeightAssumption DEF TypeOK, ScopeType
  <2>3. stack' \in Seq(ScopeType)
    BY <1>2, <2>2 DEF OpenScope, TypeOK, ScopeType
  <2>4. path' \in [0 .. Len(heights) -> Seq(Nat)]
    <3>1. CASE stack = <<>>
      <4>1. Append(path[0], rootCount) \in Seq(Nat)
        BY HeightsType DEF TypeOK
      <4> QED
        BY <1>2, <3>1, <4>1 DEF OpenScope, TypeOK
    <3>2. CASE stack # <<>>
      <4>1. Len(stack) \in 1 .. Len(stack)
        BY <3>2 DEF TypeOK
      <4>2. stack[Len(stack)] \in ScopeType
        BY <4>1, ParentType
      <4>3. Append(path[stack[Len(stack)].id], stack[Len(stack)].count) \in Seq(Nat)
        BY <4>2, HeightsType DEF TypeOK, ScopeType, Nodes
      <4> QED
        BY <1>2, <3>2, <4>3 DEF OpenScope, TypeOK
    <3> QED
      BY <3>1, <3>2
  <2>5. next' \in 1 .. Len(heights) + 1
    BY <2>1, HeightsType DEF TypeOK, Nodes
  <2> QED
    BY <1>2, <2>1, <2>3, <2>4, <2>5 DEF OpenScope, TypeOK, ScopeType, Nodes
<1>3. CASE StartDrain
  BY <1>3 DEF StartDrain, TypeOK, Nodes
<1>4. CASE Drain
  <2>1. heights' = heights /\ stack # <<>> /\ Attach
    BY <1>4 DEF Drain
  <2>2. stack' \in Seq(ScopeType) /\ inner' \in [0 .. Len(heights) -> Seq(Nodes)]
    BY <2>1, AttachStack, AttachInner
  <2> QED
    BY <1>4, <2>1, <2>2 DEF Drain, TypeOK, ScopeType, Nodes
<1>5. CASE Return
  BY <1>5 DEF Return, TypeOK, Nodes
<1>6. CASE UNCHANGED vars
  BY <1>6 DEF vars, TypeOK, Nodes
<1> QED
  BY <1>1, <1>2, <1>3, <1>4, <1>5, <1>6 DEF Next, Terminated

\* The variables of build_ix_stack keep their types, the u8 counters included.
THEOREM TypeCorrect == Spec => []TypeOK
BY InitType, StepType, PTL DEF Spec

--------------------------------------------------------------------------------
(* The inductive invariant behind PathsArePositions *)

\* the counters count the children attached so far
Counted ==
    /\ \A k \in 1 .. Len(stack) : stack[k].count = Len(inner[stack[k].id])
    /\ phase = "place" => rootCount = Len(inner[0])

\* the open scopes are in input order, and none is ahead of the input
Ordered ==
    /\ \A k \in 1 .. Len(stack) : ParentAt(k) < stack[k].id /\ stack[k].id < next
    /\ \A j, k \in 1 .. Len(stack) : j < k => stack[j].id < stack[k].id

\* children are attached in input order: the k-th one is at least the k-th
\* input, and all of them come before the child whose scope is still open
ChildrenOrdered ==
    /\ \A p \in 0 .. Len(heights) : \A i \in 1 .. Len(inner[p]) :
         i <= inner[p][i] /\ inner[p][i] < next
    /\ \A k \in 1 .. Len(stack) : \A i \in 1 .. Len(inner[ParentAt(k)]) :
         inner[ParentAt(k)][i] < stack[k].id

\* nothing is attached to a node that is not placed
Fresh == \A p \in 0 .. Len(heights) : p >= next => inner[p] = <<>>

\* an open scope has the path of the next child of the scope around it
StackPaths ==
    \A k \in 1 .. Len(stack) :
        path[stack[k].id] = Append(path[ParentAt(k)], Len(inner[ParentAt(k)]))

PathInv ==
    /\ TypeOK
    /\ Counted
    /\ Ordered
    /\ ChildrenOrdered
    /\ Fresh
    /\ StackPaths
    /\ PathsArePositions

\* Nothing is placed yet, and the counters are at zero.
LEMMA InitPathInv == Init => PathInv
<1> SUFFICES ASSUME Init PROVE PathInv
  OBVIOUS
<1>1. TypeOK /\ Len(heights) \in 0 .. U8Max
  BY InitType, HeightsType DEF TypeOK
<1>2. stack = <<>> /\ Len(stack) = 0 /\ \A p \in 0 .. Len(heights) : Len(inner[p]) = 0
  BY DEF Init
<1> QED
  BY <1>1, <1>2, SMT DEF Init, PathInv, Counted, Ordered, ChildrenOrdered, Fresh,
     StackPaths, PathsArePositions

\* The popped node continues the list of its parent, and is the only one it
\* could: its number is larger than its elder siblings' and its path was
\* written for this place.
LEMMA AttachPathInv ==
    ASSUME PathInv, TypeOK', stack # <<>>, Attach,
           heights' = heights, next' = next, path' = path
    PROVE  /\ \A k \in 1 .. Len(stack') : stack'[k].count = Len(inner'[stack'[k].id])
           /\ Len(stack) = 1 => Increment(Len(inner[0])) = Len(inner'[0])
           /\ Len(stack) # 1 => inner'[0] = inner[0]
           /\ Ordered' /\ ChildrenOrdered' /\ Fresh' /\ StackPaths' /\ PathsArePositions'
<1> DEFINE d      == Len(stack)
           parent == ParentAt(d)
           node   == stack[d].id
           len    == Len(inner[parent])
<1>1. TypeOK
  BY DEF PathInv
<1>2. /\ d \in Nat /\ d >= 1
      /\ Len(stack') = d - 1
      /\ \A k \in 1 .. d - 1 :
           /\ stack'[k].id = stack[k].id
           /\ stack'[k].count = IF k = d - 1 THEN Increment(stack[k].count)
                                             ELSE stack[k].count
  BY <1>1, AttachStack
<1>3. /\ parent \in 0 .. Len(heights)
      /\ node \in Nodes
      /\ inner' \in [0 .. Len(heights) -> Seq(Nodes)]
      /\ inner'[parent] = Append(inner[parent], node)
      /\ \A p \in 0 .. Len(heights) : p # parent => inner'[p] = inner[p]
  BY <1>1, AttachInner
<1>4. /\ Len(heights) \in 0 .. U8Max
      /\ next \in Nat
      /\ \A p \in 0 .. Len(heights) : inner[p] \in Seq(Nodes) /\ Len(inner[p]) \in Nat
      /\ \A p \in 0 .. Len(heights) : \A i \in 1 .. Len(inner[p]) : inner[p][i] \in Nodes
  <2>1. Len(heights) \in 0 .. U8Max /\ next \in Nat
    BY <1>1, HeightsType, HeightAssumption DEF TypeOK
  <2>2. \A p \in 0 .. Len(heights) : inner[p] \in Seq(Nodes)
    BY <1>1 DEF TypeOK
  <2> QED
    BY <2>1, <2>2
<1>5. \A k \in 1 .. d : /\ stack[k].id \in Nodes
                        /\ ParentAt(k) \in 0 .. Len(heights)
                        /\ stack[k].count \in Nat
  BY <1>1, ParentType, HeightAssumption DEF ScopeType
<1>6. \A k \in 1 .. d - 1 : ParentAt(k)' = ParentAt(k)
  <2> SUFFICES ASSUME NEW k \in 1 .. d - 1 PROVE ParentAt(k)' = ParentAt(k)
    OBVIOUS
  <2>1. k # 1 => k - 1 \in 1 .. d - 1
    BY <1>2
  <2> QED
    BY <2>1, <1>2 DEF ParentAt
<1>7. /\ parent < node /\ node < next
      /\ \A i \in 1 .. len : i <= inner[parent][i] /\ inner[parent][i] < node
  BY <1>2, <1>3 DEF PathInv, Ordered, ChildrenOrdered
<1>8. len \in Nat /\ len + 1 <= node /\ len + 1 <= U8Max
  <2> HIDE DEF d, node, parent
  <2>1. len \in Nat
    BY <1>3, <1>4
  <2> HIDE DEF len
  <2>2. node \in Nat /\ node >= 1 /\ node <= U8Max
    BY <1>3, <1>4, HeightAssumption DEF Nodes
  <2>3. CASE len = 0
    BY <2>2, <2>3, HeightAssumption
  <2>4. CASE len # 0
    <3>1. len \in 1 .. len
      BY <2>1, <2>4
    <3>2. len <= inner[parent][len] /\ inner[parent][len] < node
      BY <1>7, <3>1
    <3>3. inner[parent][len] \in Nat
      BY <1>3, <1>4, <3>1 DEF Nodes, len
    <3> QED
      BY <2>1, <2>2, <3>2, <3>3, HeightAssumption
  <2> QED
    BY <2>3, <2>4
<1>9. /\ Len(inner'[parent]) = len + 1
      /\ inner'[parent][len + 1] = node
      /\ \A i \in 1 .. len : inner'[parent][i] = inner[parent][i]
  BY <1>3, <1>4
<1>10. \A k \in 1 .. d - 1 : ParentAt(k) < parent /\ ParentAt(k) # parent
  <2> SUFFICES ASSUME NEW k \in 1 .. d - 1
               PROVE  ParentAt(k) < parent /\ ParentAt(k) # parent
    OBVIOUS
  <2>1. d # 1 /\ d - 1 \in 1 .. d /\ k \in 1 .. d
    BY <1>2
  <2>2. parent = stack[d - 1].id
    BY <2>1 DEF ParentAt
  <2>3. ParentAt(k) < stack[k].id /\ (k < d - 1 => stack[k].id < stack[d - 1].id)
    BY <2>1 DEF PathInv, Ordered
  <2>4. /\ ParentAt(k) \in Nat /\ stack[k].id \in Nat /\ stack[d - 1].id \in Nat
    BY <2>1, <1>5 DEF Nodes
  <2>5. k = d - 1 \/ k < d - 1
    BY <1>2
  <2> QED
    BY <2>2, <2>3, <2>4, <2>5
<1> HIDE DEF d, parent, node, len
<1>11. \A k \in 1 .. Len(stack') : stack'[k].count = Len(inner'[stack'[k].id])
  <2> SUFFICES ASSUME NEW k \in 1 .. d - 1
               PROVE  stack'[k].count = Len(inner'[stack[k].id])
    BY <1>2
  <2>1. stack[k].count = Len(inner[stack[k].id]) /\ k \in 1 .. d /\ d # 1
    BY <1>2 DEF PathInv, Counted, d
  <2>2. parent = stack[d - 1].id
    BY <2>1 DEF ParentAt, parent, d
  <2>3. CASE k = d - 1
    <3>1. stack[k].count = len /\ stack'[k].count = Increment(len)
      BY <2>1, <2>2, <2>3, <1>2 DEF len
    <3> QED
      BY <3>1, <2>2, <2>3, <1>8, <1>9, IncrementExact
  <2>4. CASE k # d - 1
    <3>1. k < d - 1 /\ d - 1 \in 1 .. d
      BY <1>2, <2>1, <2>4
    <3>2. stack[k].id < stack[d - 1].id
      BY <3>1, <2>1 DEF PathInv, Ordered, d
    <3>3. stack[k].id # parent /\ stack[k].id \in 0 .. Len(heights)
      BY <3>1, <3>2, <2>1, <2>2, <1>4, <1>5 DEF Nodes
    <3> QED
      BY <3>3, <2>1, <2>4, <1>2, <1>3
  <2> QED
    BY <2>3, <2>4
<1>12. /\ d = 1 => Increment(Len(inner[0])) = Len(inner'[0])
       /\ d # 1 => inner'[0] = inner[0]
  <2>1. CASE d = 1
    <3>1. parent = 0
      BY <2>1 DEF parent, ParentAt
    <3>2. Increment(len) = len + 1
      BY <1>8, IncrementExact
    <3> QED
      BY <2>1, <3>1, <3>2, <1>9 DEF len
  <2>2. CASE d # 1
    <3>1. 1 \in 1 .. d - 1 /\ ParentAt(1) = 0
      BY <1>2, <2>2 DEF ParentAt
    <3>2. 0 # parent /\ 0 \in 0 .. Len(heights)
      BY <3>1, <1>10, <1>4
    <3> QED
      BY <2>2, <3>2, <1>3
  <2> QED
    BY <2>1, <2>2
<1>13. Ordered'
  <2>1. \A k \in 1 .. d - 1 : k \in 1 .. d
    BY <1>2
  <2>2. \A k \in 1 .. d : ParentAt(k) < stack[k].id /\ stack[k].id < next
    BY DEF PathInv, Ordered, d
  <2>3. \A j, k \in 1 .. d : j < k => stack[j].id < stack[k].id
    BY DEF PathInv, Ordered, d
  <2> QED
    BY <2>1, <2>2, <2>3, <1>2, <1>6 DEF Ordered
<1>14. ChildrenOrdered'
  <2>1. ASSUME NEW p \in 0 .. Len(heights), NEW i \in 1 .. Len(inner'[p])
        PROVE  i <= inner'[p][i] /\ inner'[p][i] < next
    <3>1. CASE p = parent /\ i = len + 1
      BY <3>1, <1>7, <1>8, <1>9
    <3>2. CASE p = parent /\ i # len + 1
      <4>1. i \in 1 .. len /\ inner'[p][i] = inner[p][i]
        BY <3>2, <1>8, <1>9
      <4> QED
        BY <3>2, <4>1 DEF PathInv, ChildrenOrdered, len
    <3>3. CASE p # parent
      BY <3>3, <1>3 DEF PathInv, ChildrenOrdered
    <3> QED
      BY <3>1, <3>2, <3>3
  <2>2. ASSUME NEW k \in 1 .. d - 1, NEW i \in 1 .. Len(inner'[ParentAt(k)])
        PROVE  inner'[ParentAt(k)][i] < stack[k].id
    <3>1. k \in 1 .. d /\ inner'[ParentAt(k)] = inner[ParentAt(k)]
      BY <1>2, <1>3, <1>5, <1>10
    <3> QED
      BY <3>1 DEF PathInv, ChildrenOrdered, d
  <2> QED
    BY <2>1, <2>2, <1>2, <1>6 DEF ChildrenOrdered
<1>15. Fresh'
  <2> SUFFICES ASSUME NEW p \in 0 .. Len(heights), p >= next PROVE inner'[p] = <<>>
    BY DEF Fresh
  <2>1. p # parent
    BY <1>3, <1>4, <1>7 DEF Nodes
  <2> QED
    BY <2>1, <1>3 DEF PathInv, Fresh
<1>16. StackPaths'
  <2> SUFFICES ASSUME NEW k \in 1 .. d - 1
               PROVE  path[stack[k].id] = Append(path[ParentAt(k)], Len(inner'[ParentAt(k)]))
    BY <1>2, <1>6 DEF StackPaths
  <2>1. k \in 1 .. d /\ inner'[ParentAt(k)] = inner[ParentAt(k)]
    BY <1>2, <1>3, <1>5, <1>10
  <2> QED
    BY <2>1 DEF PathInv, StackPaths, d
<1>17. PathsArePositions'
  <2> SUFFICES ASSUME NEW p \in 0 .. Len(heights), NEW k \in 1 .. Len(inner'[p])
               PROVE  path[inner'[p][k]] = Append(path[p], k - 1)
    BY DEF PathsArePositions
  <2>1. CASE p = parent /\ k = len + 1
    <3>1. d \in 1 .. d
      BY <1>2
    <3>2. path[node] = Append(path[parent], len)
      BY <3>1 DEF PathInv, StackPaths, d, parent, node, len
    <3> QED
      BY <2>1, <3>2, <1>8, <1>9
  <2>2. CASE p = parent /\ k # len + 1
    <3>1. k \in 1 .. len /\ inner'[p][k] = inner[p][k]
      BY <2>2, <1>8, <1>9
    <3> QED
      BY <2>2, <3>1 DEF PathInv, PathsArePositions, len
  <2>3. CASE p # parent
    BY <2>3, <1>3 DEF PathInv, PathsArePositions
  <2> QED
    BY <2>1, <2>2, <2>3
<1> QED
  BY <1>11, <1>12, <1>13, <1>14, <1>15, <1>16, <1>17 DEF d

\* The node whose scope is innermost; what is opened next is its child.
Top == IF stack = <<>> THEN 0 ELSE stack[Len(stack)].id

\* ParentAt, for any stack.
ParentIn(s, k) == IF k = 1 THEN 0 ELSE s[k - 1].id

\* What OpenScope does: a scope more, of a node whose path continues its parent's.
LEMMA Opened ==
    ASSUME PathInv, OpenScope
    PROVE  /\ next \in Nodes /\ next \in Nat \ {0} /\ next' = next + 1
           /\ heights' = heights /\ inner' = inner /\ rootCount' = rootCount
           /\ phase = "place" /\ phase' = "place"
           /\ Len(heights) \in Nat /\ Len(stack) \in Nat /\ Len(stack') = Len(stack) + 1
           /\ \A p \in 0 .. Len(heights) : inner[p] \in Seq(Nodes)
           /\ \A k \in 1 .. Len(stack) :
                /\ stack[k].id \in Nodes /\ ParentAt(k) \in 0 .. Len(heights)
                /\ stack'[k] = stack[k] /\ ParentIn(stack', k) = ParentAt(k)
           /\ stack'[Len(stack) + 1].id = next
           /\ stack'[Len(stack) + 1].height = heights[next]
           /\ stack'[Len(stack) + 1].count = 0
           /\ ParentIn(stack', Len(stack) + 1) = Top
           /\ Top \in 0 .. Len(heights) /\ Top < next
           /\ path'[next] = Append(path[Top], Len(inner[Top]))
           /\ \A q \in 0 .. Len(heights) : q # next => path'[q] = path[q]
<1> DEFINE d      == Len(stack)
           parent == Top
<1>1. TypeOK
  BY DEF PathInv
<1>2. /\ next \in Nodes /\ next' = next + 1 /\ phase = "place" /\ phase' = "place"
      /\ heights' = heights /\ inner' = inner /\ rootCount' = rootCount
      /\ stack' = Append(stack, [id |-> next, height |-> heights[next], count |-> 0])
  BY DEF OpenScope
<1>3. /\ Len(heights) \in Nat /\ next \in Nat
      /\ \A p \in 0 .. Len(heights) : inner[p] \in Seq(Nodes)
  <2>1. Len(heights) \in Nat
    BY <1>1, HeightsType DEF TypeOK
  <2>2. next \in Nat
    BY <2>1, <1>2 DEF Nodes
  <2> QED
    BY <2>1, <2>2, <1>1 DEF TypeOK
<1>4. \A k \in 1 .. d : stack[k].id \in Nodes /\ ParentAt(k) \in 0 .. Len(heights)
  BY <1>1, ParentType DEF ScopeType
<1>5. /\ d \in Nat /\ Len(stack') = d + 1
      /\ \A k \in 1 .. d : stack'[k] = stack[k]
      /\ stack'[d + 1].id = next /\ stack'[d + 1].count = 0
      /\ stack'[d + 1].height = heights[next]
  BY <1>1, <1>2 DEF TypeOK
<1> DEFINE newParentAt(k) == ParentIn(stack', k)
<1>6. /\ \A k \in 1 .. d : newParentAt(k) = ParentAt(k)
      /\ newParentAt(d + 1) = parent
  <2>1. ASSUME NEW k \in 1 .. d PROVE newParentAt(k) = ParentAt(k)
    <3>1. k # 1 => k - 1 \in 1 .. d
      BY <1>5
    <3> QED
      BY <3>1, <1>5 DEF ParentAt, ParentIn
  <2>2. CASE stack = <<>>
    BY <2>2, <1>5 DEF ParentIn, Top
  <2>3. CASE stack # <<>>
    <3>1. d \in 1 .. d
      BY <2>3, <1>1, <1>5 DEF TypeOK
    <3>2. d + 1 # 1 /\ (d + 1) - 1 = d /\ stack'[d] = stack[d]
      <4> HIDE DEF d
      <4> QED BY <3>1, <1>5
    <3>3. newParentAt(d + 1) = stack'[d].id
      BY <3>2 DEF ParentIn
    <3>4. parent = stack[d].id
      BY <2>3 DEF Top
    <3> HIDE DEF d, parent, newParentAt
    <3> QED
      BY <3>2, <3>3, <3>4, <2>1
  <2> QED
    BY <2>1, <2>2, <2>3
<1>7. /\ parent \in 0 .. Len(heights) /\ parent < next
      /\ path'[next] = Append(path[parent], Len(inner[parent]))
  <2>1. CASE stack = <<>>
    <3>1. rootCount = Len(inner[0])
      BY <1>2 DEF PathInv, Counted
    <3>2. path' = [path EXCEPT ![next] = Append(path[0], rootCount)]
      BY <2>1 DEF OpenScope
    <3> QED
      BY <2>1, <3>1, <3>2, <1>1, <1>2, <1>3 DEF TypeOK, Nodes, Top
  <2>2. CASE stack # <<>>
    <3>1. d \in 1 .. d
      BY <2>2, <1>1, <1>5 DEF TypeOK
    <3>2. stack[d].count = Len(inner[stack[d].id]) /\ stack[d].id < next
      BY <3>1 DEF PathInv, Counted, Ordered
    <3>3. path' = [path EXCEPT ![next] = Append(path[stack[d].id], stack[d].count)]
      BY <2>2 DEF OpenScope
    <3>4. parent = stack[d].id /\ parent \in Nodes
      BY <2>2, <3>1, <1>4 DEF Top
    <3>5. next \in DOMAIN path
      BY <1>1, <1>2, <1>3 DEF TypeOK, Nodes
    <3> QED
      BY <3>2, <3>3, <3>4, <3>5, <1>3 DEF Nodes
  <2> QED
    BY <2>1, <2>2
<1>8. \A q \in 0 .. Len(heights) : q # next => path'[q] = path[q]
  BY <1>1 DEF OpenScope, TypeOK
<1>9. next \in Nat \ {0}
  BY <1>2, <1>3 DEF Nodes
<1> QED
  BY <1>2, <1>3, <1>4, <1>5, <1>6, <1>7, <1>8, <1>9

\* The new node is the next child of the scope it is opened in.
LEMMA OpenPathInv == PathInv /\ TypeOK' /\ OpenScope => PathInv'
<1> SUFFICES ASSUME PathInv, TypeOK', OpenScope PROVE PathInv'
  OBVIOUS
<1> DEFINE d      == Len(stack)
           parent == Top
           newParentAt(k) == ParentIn(stack', k)
<1>1. TypeOK
  BY DEF PathInv
<1>2. /\ next \in Nodes /\ next' = next + 1 /\ phase = "place" /\ phase' = "place"
      /\ heights' = heights /\ inner' = inner /\ rootCount' = rootCount
  BY Opened
<1>3. /\ Len(heights) \in Nat /\ next \in Nat
      /\ \A p \in 0 .. Len(heights) : inner[p] \in Seq(Nodes)
  BY Opened
<1>4. \A k \in 1 .. d : stack[k].id \in Nodes /\ ParentAt(k) \in 0 .. Len(heights)
  BY Opened
<1>5. /\ d \in Nat /\ Len(stack') = d + 1
      /\ \A k \in 1 .. d : stack'[k] = stack[k]
      /\ stack'[d + 1].id = next /\ stack'[d + 1].count = 0
  BY Opened
<1>6. /\ \A k \in 1 .. d : newParentAt(k) = ParentAt(k)
      /\ newParentAt(d + 1) = parent
  BY Opened
<1>7. /\ parent \in 0 .. Len(heights) /\ parent < next
      /\ path'[next] = Append(path[parent], Len(inner[parent]))
  BY Opened
<1>8. \A q \in 0 .. Len(heights) : q # next => path'[q] = path[q]
  BY Opened
<1>9. /\ inner[next] = <<>> /\ next \in 0 .. Len(heights)
      /\ \A k \in 1 .. d : ParentAt(k) < stack[k].id /\ stack[k].id < next
  BY <1>2, <1>3 DEF PathInv, Fresh, Ordered, Nodes
<1> HIDE DEF d, parent, newParentAt
<1>10. Counted'
  BY <1>2, <1>5, <1>9 DEF PathInv, Counted, d
<1>11. Ordered'
  <2>1. ASSUME NEW k \in 1 .. d + 1
        PROVE  newParentAt(k) < stack'[k].id /\ stack'[k].id < next'
    <3>1. k \in 1 .. d \/ k = d + 1
      BY <1>5
    <3>2. CASE k = d + 1
      BY <3>2, <1>2, <1>3, <1>5, <1>6, <1>7
    <3>3. CASE k \in 1 .. d
      <4>1. newParentAt(k) < stack'[k].id /\ stack'[k].id = stack[k].id
        BY <3>3, <1>5, <1>6, <1>9
      <4>2. stack[k].id \in Nat /\ stack[k].id < next
        BY <3>3, <1>3, <1>4, <1>9 DEF Nodes
      <4> QED
        BY <4>1, <4>2, <1>2, <1>3
    <3> QED
      BY <3>1, <3>2, <3>3
  <2>2. ASSUME NEW j \in 1 .. d + 1, NEW k \in 1 .. d + 1, j < k
        PROVE  stack'[j].id < stack'[k].id
    <3>1. j \in 1 .. d
      BY <2>2, <1>5
    <3>2. CASE k = d + 1
      BY <3>1, <3>2, <1>5, <1>9
    <3>3. CASE k # d + 1
      BY <2>2, <3>1, <3>3, <1>5 DEF PathInv, Ordered, d
    <3> QED
      BY <3>2, <3>3
  <2> QED
    BY <2>1, <2>2, <1>5 DEF Ordered, ParentAt, ParentIn, newParentAt
<1>12. ChildrenOrdered'
  <2>1. ASSUME NEW p \in 0 .. Len(heights), NEW i \in 1 .. Len(inner[p])
        PROVE  i <= inner[p][i] /\ inner[p][i] < next /\ inner[p][i] < next + 1
    <3>1. inner[p][i] \in Nodes
      BY <1>3
    <3> QED
      BY <3>1, <1>3 DEF PathInv, ChildrenOrdered, Nodes
  <2>2. ASSUME NEW k \in 1 .. d + 1, NEW i \in 1 .. Len(inner[newParentAt(k)])
        PROVE  inner[newParentAt(k)][i] < stack'[k].id
    <3>1. CASE k = d + 1
      BY <2>1, <2>2, <3>1, <1>5, <1>6, <1>7
    <3>2. CASE k # d + 1
      <4>1. k \in 1 .. d
        BY <2>2, <3>2, <1>5
      <4> QED
        BY <2>2, <4>1, <1>5, <1>6 DEF PathInv, ChildrenOrdered, d
    <3> QED
      BY <3>1, <3>2
  <2> QED
    BY <2>1, <2>2, <1>2, <1>5 DEF ChildrenOrdered, ParentAt, ParentIn, newParentAt
<1>13. Fresh'
  BY <1>2, <1>3 DEF PathInv, Fresh
<1>14. StackPaths'
  <2> SUFFICES ASSUME NEW k \in 1 .. d + 1
               PROVE  path'[stack'[k].id] =
                        Append(path'[newParentAt(k)], Len(inner[newParentAt(k)]))
    BY <1>2, <1>5 DEF StackPaths, ParentAt, ParentIn, newParentAt
  <2>1. CASE k = d + 1
    <3>1. path'[parent] = path[parent]
      BY <1>3, <1>7, <1>8
    <3> QED
      BY <2>1, <3>1, <1>5, <1>6, <1>7
  <2>2. CASE k # d + 1
    <3>1. k \in 1 .. d
      BY <2>2, <1>5
    <3>2. /\ path[stack[k].id] = Append(path[ParentAt(k)], Len(inner[ParentAt(k)]))
      BY <3>1 DEF PathInv, StackPaths, d
    <3>3. stack[k].id < next /\ ParentAt(k) < next
      BY <3>1, <1>3, <1>4, <1>9 DEF Nodes
    <3>4. path'[stack[k].id] = path[stack[k].id] /\ path'[ParentAt(k)] = path[ParentAt(k)]
      BY <3>1, <3>3, <1>3, <1>4, <1>8 DEF Nodes
    <3> QED
      BY <3>1, <3>2, <3>4, <1>5, <1>6
  <2> QED
    BY <2>1, <2>2
<1>15. PathsArePositions'
  <2> SUFFICES ASSUME NEW p \in 0 .. Len(heights), NEW k \in 1 .. Len(inner[p])
               PROVE  path'[inner[p][k]] = Append(path'[p], k - 1)
    BY <1>2 DEF PathsArePositions
  <2>1. path[inner[p][k]] = Append(path[p], k - 1) /\ inner[p][k] < next
    BY DEF PathInv, PathsArePositions, ChildrenOrdered
  <2>2. p # next /\ inner[p][k] \in Nodes
    BY <1>3, <1>9
  <2>3. inner[p][k] # next /\ inner[p][k] \in 0 .. Len(heights)
    BY <2>1, <2>2, <1>3 DEF Nodes
  <2> QED
    BY <2>1, <2>2, <2>3, <1>8
<1> QED
  BY <1>10, <1>11, <1>12, <1>13, <1>14, <1>15 DEF PathInv

\* One step of the loops keeps the counters, the paths and the order.
LEMMA StepPathInv == PathInv /\ [Next]_vars => PathInv'
<1> SUFFICES ASSUME PathInv, [Next]_vars PROVE PathInv'
  OBVIOUS
<1>1. TypeOK'
  BY StepType DEF PathInv
<1>2. CASE CloseScope
  <2>1. /\ phase = "place" /\ phase' = "place" /\ stack # <<>> /\ Attach
        /\ heights' = heights /\ next' = next /\ path' = path
        /\ rootCount' = IF Len(stack) = 1 THEN Increment(rootCount) ELSE rootCount
    BY <1>2 DEF CloseScope
  <2>2. rootCount = Len(inner[0])
    BY <2>1 DEF PathInv, Counted
  <2>3. rootCount' = Len(inner'[0])
    BY <1>1, <2>1, <2>2, AttachPathInv
  <2> QED
    BY <1>1, <2>1, <2>3, AttachPathInv DEF PathInv, Counted
<1>3. CASE OpenScope
  BY <1>1, <1>3, OpenPathInv
<1>4. CASE StartDrain
  BY <1>1, <1>4 DEF StartDrain, PathInv, Counted, Ordered, ChildrenOrdered, Fresh,
     StackPaths, PathsArePositions, ParentAt
<1>5. CASE Drain
  <2>1. /\ phase' = "drain" /\ stack # <<>> /\ Attach
        /\ heights' = heights /\ next' = next /\ path' = path
    BY <1>5 DEF Drain
  <2> QED
    BY <1>1, <2>1, AttachPathInv DEF PathInv, Counted
<1>6. CASE Return
  BY <1>1, <1>6 DEF Return, PathInv, Counted, Ordered, ChildrenOrdered, Fresh,
     StackPaths, PathsArePositions, ParentAt
<1>7. CASE UNCHANGED vars
  BY <1>1, <1>7 DEF vars, PathInv, Counted, Ordered, ChildrenOrdered, Fresh,
     StackPaths, PathsArePositions, ParentAt
<1> QED
  BY <1>2, <1>3, <1>4, <1>5, <1>6, <1>7 DEF Next, Terminated

\* For every list of heights a u8 can count, at every step, the k-th child
\* attached to a node carries the path of that node followed by k - 1.
THEOREM PathsCorrect == Spec => []PathsArePositions
<1>1. PathInv => PathsArePositions
  BY DEF PathInv
<1> QED
  BY <1>1, InitPathInv, StepPathInv, PTL DEF Spec

--------------------------------------------------------------------------------
(* Parents are callers *)

\* What Attach does: a scope less, whose node is now the last child of the scope
\* around it.
LEMMA Attached ==
    ASSUME PathInv, stack # <<>>, Attach, heights' = heights
    PROVE  LET d == Len(stack)
               p == ParentAt(d)
           IN  /\ Len(heights) \in Nat /\ next \in Nat
               /\ d \in Nat \ {0} /\ Len(stack') = d - 1
               /\ \A k \in 1 .. d - 1 :
                    /\ stack'[k].id = stack[k].id /\ stack'[k].height = stack[k].height
                    /\ ParentIn(stack', k) = ParentAt(k)
               /\ \A k \in 1 .. d : stack[k].id \in Nodes /\ ParentAt(k) \in 0 .. Len(heights)
               /\ \A q \in 0 .. Len(heights) : inner[q] \in Seq(Nodes)
               /\ inner' \in [0 .. Len(heights) -> Seq(Nodes)]
               /\ inner'[p] = Append(inner[p], stack[d].id)
               /\ \A q \in 0 .. Len(heights) : q # p => inner'[q] = inner[q]
<1> DEFINE d == Len(stack)
<1>1. TypeOK
  BY DEF PathInv
<1>2. /\ d \in Nat \ {0} /\ Len(stack') = d - 1
      /\ \A k \in 1 .. d - 1 :
           stack'[k].id = stack[k].id /\ stack'[k].height = stack[k].height
  BY <1>1, AttachStack
<1>3. \A k \in 1 .. d : stack[k].id \in Nodes /\ ParentAt(k) \in 0 .. Len(heights)
  BY <1>1, ParentType DEF ScopeType
<1>4. Len(heights) \in Nat /\ next \in Nat
  BY <1>1, HeightsType, HeightAssumption DEF TypeOK
<1>5. \A q \in 0 .. Len(heights) : inner[q] \in Seq(Nodes)
  BY <1>1 DEF TypeOK
<1>6. /\ inner' \in [0 .. Len(heights) -> Seq(Nodes)]
      /\ inner'[ParentAt(d)] = Append(inner[ParentAt(d)], stack[d].id)
      /\ \A q \in 0 .. Len(heights) : q # ParentAt(d) => inner'[q] = inner[q]
  BY <1>1, AttachInner
<1>7. ASSUME NEW k \in 1 .. d - 1 PROVE ParentIn(stack', k) = ParentAt(k)
  <2>1. k # 1 => k - 1 \in 1 .. d - 1
    BY <1>2
  <2> QED
    BY <2>1, <1>2 DEF ParentAt, ParentIn
<1> QED
  BY <1>2, <1>3, <1>4, <1>5, <1>6, <1>7

\* Callers, for any list of heights.
CallersIn(h, n) ==
    {m \in 1 .. n - 1 : MayCall(h[m], h[n]) /\ \A i \in m .. n : h[i] # NoHeight}

\* p made the call n: the CHOOSE of ParentIsCaller.
CallerIs(h, p, n) ==
    \/ p = 0 /\ CallersIn(h, n) = {}
    \/ p \in CallersIn(h, n) /\ \A m \in CallersIn(h, n) : m <= p

OpenNodes == {stack[k].id : k \in 1 .. Len(stack)}

\* What is no longer open has met an instruction that it cannot have called.
Closed ==
    phase = "place" => \A m \in 1 .. next - 1 :
        m \in OpenNodes \/ \E n \in m + 1 .. next : n \in Nodes /\ ~MayCall(heights[m], heights[n])

\* An open scope has its node's height, and no barrier came after it.
OpenHeights ==
    \A k \in 1 .. Len(stack) :
        /\ stack[k].height = heights[stack[k].id]
        /\ \A m \in stack[k].id + 1 .. next - 1 : heights[m] # NoHeight

\* Every node that was placed is open or attached.
Placed ==
    \A n \in 1 .. next - 1 :
        n \in OpenNodes \/ \E p \in 0 .. Len(heights) : \E k \in 1 .. Len(inner[p]) : inner[p][k] = n

\* Attached or open, a node is below its caller.
Called ==
    /\ \A p \in 0 .. Len(heights) : \A k \in 1 .. Len(inner[p]) : CallerIs(heights, p, inner[p][k])
    /\ \A k \in 1 .. Len(stack) : CallerIs(heights, ParentAt(k), stack[k].id)

Ending ==
    /\ phase # "place" => next = Len(heights) + 1
    /\ phase = "done" => stack = <<>>

CallInv == PathInv /\ Closed /\ OpenHeights /\ Placed /\ Called /\ Ending

\* The last instruction that can have called another is not closed to it: the
\* one it met there would be a later caller.
LEMMA LastCallerIsOpen ==
    ASSUME PathInv, Closed, phase = "place", next \in Nodes,
           NEW m \in CallersIn(heights, next), \A o \in CallersIn(heights, next) : o <= m
    PROVE  m \in OpenNodes
<1>1. /\ Len(heights) \in Nat /\ next \in Nat
      /\ \A n \in Nodes : heights[n] \in Nat \cup {NoHeight}
  BY HeightsType, HeightAssumption DEF PathInv, TypeOK
<1>2. /\ m \in 1 .. next - 1 /\ MayCall(heights[m], heights[next])
      /\ \A n \in m .. next : heights[n] # NoHeight
  BY DEF CallersIn
<1>3. SUFFICES ASSUME m \notin OpenNodes PROVE FALSE
  OBVIOUS
<1>4. PICK n \in m + 1 .. next : n \in Nodes /\ ~MayCall(heights[m], heights[n])
  BY <1>2, <1>3 DEF Closed
<1>5. n # next /\ n \in 1 .. next - 1 /\ n \in m .. next /\ n > m /\ m \in m .. next
      /\ m \in Nodes /\ next \in m .. next
  BY <1>1, <1>2, <1>4 DEF Nodes
<1>6. /\ heights[n] \in Nat /\ heights[m] \in Nat /\ heights[next] \in Nat
      /\ heights[n] # NoHeight /\ heights[m] # NoHeight /\ heights[next] # NoHeight
  BY <1>1, <1>2, <1>4, <1>5
<1>7. heights[n] <= heights[m] /\ heights[next] > heights[m]
  BY <1>2, <1>4, <1>6 DEF MayCall
<1>8. MayCall(heights[n], heights[next])
  BY <1>6, <1>7 DEF MayCall
<1>9. \A o \in n .. next : o \in m .. next
  BY <1>1, <1>2, <1>5
<1>10. n \in CallersIn(heights, next)
  BY <1>2, <1>5, <1>8, <1>9 DEF CallersIn
<1> QED
  BY <1>1, <1>2, <1>5, <1>10

\* The scope in which an instruction is opened is its caller's.
LEMMA OpenedByCaller ==
    ASSUME CallInv, OpenScope
    PROVE  CallerIs(heights, Top, next)
<1>1. /\ next \in Nodes /\ next \in Nat \ {0} /\ phase = "place"
      /\ Len(heights) \in Nat /\ Len(stack) \in Nat
      /\ \A k \in 1 .. Len(stack) : stack[k].id \in Nodes /\ ParentAt(k) \in 0 .. Len(heights)
      /\ PathInv /\ Closed /\ OpenHeights
  BY Opened DEF CallInv
<1>2. CallersIn(heights, next) \in SUBSET (0 .. next - 1)
  BY <1>1 DEF CallersIn
<1>3. ASSUME CallersIn(heights, next) # {}
      PROVE  \E m \in CallersIn(heights, next) : m \in OpenNodes /\ \A o \in CallersIn(heights, next) : o <= m
  <2>1. next - 1 \in Nat
    BY <1>1
  <2>2. PICK m \in CallersIn(heights, next) : \A o \in CallersIn(heights, next) : o <= m
    BY <1>2, <1>3, <2>1, LargestNumber
  <2> QED
    BY <1>1, <2>2, LastCallerIsOpen
<1>4. CASE stack = <<>>
  <2>1. OpenNodes = {}
    BY <1>4 DEF OpenNodes
  <2> QED
    BY <1>3, <1>4, <2>1 DEF CallerIs, Top
<1>5. CASE stack # <<>>
  <2> DEFINE d == Len(stack)
             t == stack[d].id
  <2>1. d \in 1 .. d /\ Top = t /\ d \in Nat
    BY <1>1, <1>5 DEF Top, PathInv, TypeOK
  <2>2. t \in Nodes /\ t < next /\ stack[d].height = heights[t]
        /\ \A m \in t + 1 .. next - 1 : heights[m] # NoHeight
    BY <1>1, <2>1 DEF PathInv, Ordered, OpenHeights
  <2>3. MayCall(heights[t], heights[next])
    BY <1>5, <2>2 DEF OpenScope, ParentFound
  <2> HIDE DEF t
  <2>4. \A m \in t .. next : heights[m] # NoHeight
    <3>1. \A m \in t .. next : m = t \/ m = next \/ m \in t + 1 .. next - 1
      BY <1>1, <2>2 DEF Nodes
    <3> QED
      BY <2>2, <2>3, <3>1 DEF MayCall
  <2>5. t \in CallersIn(heights, next)
    <3>1. t \in 1 .. next - 1
      BY <1>1, <2>2 DEF Nodes
    <3> QED
      BY <2>3, <2>4, <3>1 DEF CallersIn
  <2>6. PICK m \in CallersIn(heights, next) : m \in OpenNodes /\ \A o \in CallersIn(heights, next) : o <= m
    BY <1>3, <2>5
  <2>7. PICK k \in 1 .. d : m = stack[k].id
    BY <2>6 DEF OpenNodes
  <2>8. k = d \/ stack[k].id < stack[d].id
    BY <1>1, <2>1, <2>7 DEF PathInv, Ordered
  <2>9. m <= t
    BY <1>1, <2>1, <2>2, <2>7, <2>8 DEF t, Nodes
  <2>10. m = t
    BY <1>1, <1>2, <2>2, <2>5, <2>6, <2>9 DEF Nodes
  <2> QED
    BY <2>1, <2>5, <2>6, <2>10 DEF CallerIs
<1> QED
  BY <1>4, <1>5

\* Nothing is placed yet.
LEMMA InitCallInv == Init => CallInv
<1> SUFFICES ASSUME Init PROVE CallInv
  OBVIOUS
<1>1. PathInv
  BY InitPathInv
<1>2. /\ next = 1 /\ Len(stack) = 0 /\ phase = "place"
      /\ \A p \in 0 .. Len(heights) : Len(inner[p]) = 0
  BY DEF Init
<1> QED
  BY <1>1, <1>2 DEF CallInv, Closed, OpenHeights, Placed, Called, Ending

\* Attaching a node keeps it below its caller.
LEMMA AttachCallInv ==
    ASSUME CallInv, stack # <<>>, Attach, heights' = heights, next' = next
    PROVE  /\ OpenHeights' /\ Placed' /\ Called'
           /\ \A m \in OpenNodes : m = stack[Len(stack)].id \/ m \in OpenNodes'
<1> DEFINE d    == Len(stack)
           p    == ParentAt(d)
           node == stack[d].id
<1>1. PathInv /\ OpenHeights /\ Placed /\ Called
  BY DEF CallInv
<1>2. /\ Len(heights) \in Nat /\ next \in Nat
      /\ d \in Nat \ {0} /\ Len(stack') = d - 1
      /\ \A k \in 1 .. d - 1 :
           /\ stack'[k].id = stack[k].id /\ stack'[k].height = stack[k].height
           /\ ParentIn(stack', k) = ParentAt(k)
      /\ \A k \in 1 .. d : stack[k].id \in Nodes /\ ParentAt(k) \in 0 .. Len(heights)
      /\ \A q \in 0 .. Len(heights) : inner[q] \in Seq(Nodes)
      /\ inner' \in [0 .. Len(heights) -> Seq(Nodes)]
      /\ inner'[p] = Append(inner[p], node)
      /\ \A q \in 0 .. Len(heights) : q # p => inner'[q] = inner[q]
  BY <1>1, Attached
<1>3. \A k \in 1 .. d - 1 : k \in 1 .. d
  BY <1>2
<1>4. d \in 1 .. d /\ p \in 0 .. Len(heights) /\ node \in Nodes
  BY <1>2
<1>5. /\ Len(inner[p]) \in Nat /\ Len(inner'[p]) = Len(inner[p]) + 1
      /\ inner'[p][Len(inner[p]) + 1] = node
      /\ \A i \in 1 .. Len(inner[p]) : inner'[p][i] = inner[p][i]
  BY <1>2, <1>4
<1>6. OpenHeights'
  <2>1. ASSUME NEW k \in 1 .. d - 1
        PROVE  /\ stack'[k].height = heights[stack'[k].id]
               /\ \A m \in stack'[k].id + 1 .. next - 1 : heights[m] # NoHeight
    BY <1>1, <1>2, <1>3 DEF OpenHeights
  <2> QED
    BY <1>2, <2>1 DEF OpenHeights
<1>7. \A m \in OpenNodes : m = node \/ m \in OpenNodes'
  <2> SUFFICES ASSUME NEW k \in 1 .. d PROVE stack[k].id = node \/ stack[k].id \in OpenNodes'
    BY DEF OpenNodes
  <2>1. CASE k = d
    BY <2>1
  <2>2. CASE k # d
    <3>1. k \in 1 .. d - 1
      BY <1>2, <2>2
    <3> QED
      BY <3>1, <1>2 DEF OpenNodes
  <2> QED
    BY <2>1, <2>2
<1> HIDE DEF d, p, node
<1>8. Placed'
  <2> SUFFICES ASSUME NEW n \in 1 .. next - 1
               PROVE  n \in OpenNodes' \/
                      \E q \in 0 .. Len(heights) : \E i \in 1 .. Len(inner'[q]) : inner'[q][i] = n
    BY DEF Placed
  <2>1. CASE n \in OpenNodes
    <3>1. CASE n = node
      <4>1. Len(inner[p]) + 1 \in 1 .. Len(inner'[p])
        BY <1>5
      <4> QED
        BY <3>1, <4>1, <1>4, <1>5
    <3> QED
      BY <2>1, <3>1, <1>7
  <2>2. CASE n \notin OpenNodes
    <3>1. PICK q \in 0 .. Len(heights) : \E i \in 1 .. Len(inner[q]) : inner[q][i] = n
      BY <1>1, <2>2 DEF Placed
    <3>2. PICK i \in 1 .. Len(inner[q]) : inner[q][i] = n
      BY <3>1
    <3>3. CASE q = p
      <4>1. i \in 1 .. Len(inner'[p])
        BY <1>5, <3>3, <3>2
      <4> QED
        BY <1>4, <1>5, <3>3, <3>2, <4>1
    <3>4. CASE q # p
      BY <1>2, <3>2, <3>4
    <3> QED
      BY <3>3, <3>4
  <2> QED
    BY <2>1, <2>2
<1>9. Called'
  <2>1. ASSUME NEW q \in 0 .. Len(heights), NEW i \in 1 .. Len(inner'[q])
        PROVE  CallerIs(heights, q, inner'[q][i])
    <3>1. CASE q = p /\ i = Len(inner[p]) + 1
      BY <1>1, <1>4, <1>5, <3>1 DEF Called, d, p, node
    <3>2. CASE q = p /\ i # Len(inner[p]) + 1
      <4>1. i \in 1 .. Len(inner[p])
        BY <1>5, <2>1, <3>2
      <4> QED
        BY <1>1, <1>4, <1>5, <3>2, <4>1 DEF Called
    <3>3. CASE q # p
      BY <1>1, <1>2, <2>1, <3>3 DEF Called
    <3> QED
      BY <3>1, <3>2, <3>3
  <2>2. ASSUME NEW k \in 1 .. d - 1
        PROVE  CallerIs(heights, ParentIn(stack', k), stack'[k].id)
    BY <1>1, <1>2, <1>3 DEF Called, d
  <2> QED
    BY <1>2, <2>1, <2>2 DEF Called, ParentAt, ParentIn
<1> QED
  BY <1>6, <1>7, <1>8, <1>9 DEF node, d

\* The node that is opened is below its caller, and is open.
LEMMA OpenCallInv ==
    ASSUME CallInv, OpenScope, PathInv'
    PROVE  CallInv'
<1> DEFINE d == Len(stack)
<1>1. PathInv /\ Closed /\ OpenHeights /\ Placed /\ Called
  BY DEF CallInv
<1>2. /\ next \in Nodes /\ next \in Nat \ {0} /\ next' = next + 1
      /\ heights' = heights /\ inner' = inner
      /\ phase = "place" /\ phase' = "place"
      /\ Len(heights) \in Nat /\ d \in Nat /\ Len(stack') = d + 1
      /\ \A k \in 1 .. d :
           /\ stack[k].id \in Nodes /\ ParentAt(k) \in 0 .. Len(heights)
           /\ stack'[k] = stack[k] /\ ParentIn(stack', k) = ParentAt(k)
      /\ stack'[d + 1].id = next
      /\ stack'[d + 1].height = heights[next]
      /\ ParentIn(stack', d + 1) = Top
  BY <1>1, Opened
<1>3. /\ \A k \in 1 .. d : k \in 1 .. d + 1
      /\ \A k \in 1 .. d + 1 : k \in 1 .. d \/ k = d + 1
      /\ d + 1 \in 1 .. d + 1
  BY <1>2
<1>4. d # 0 => heights[next] # NoHeight
  BY <1>1 DEF OpenScope, ParentFound, MayCall, PathInv, TypeOK
<1>5. OpenHeights'
  <2>1. ASSUME NEW k \in 1 .. d + 1
        PROVE  /\ stack'[k].height = heights[stack'[k].id]
               /\ \A m \in stack'[k].id + 1 .. next : heights[m] # NoHeight
    <3>1. CASE k = d + 1
      BY <1>2, <3>1
    <3>2. CASE k \in 1 .. d
      <4>1. stack'[k].height = heights[stack'[k].id] /\ stack'[k].id = stack[k].id
        BY <1>1, <1>2, <3>2 DEF OpenHeights
      <4>2. stack[k].id \in Nat /\ d # 0
        BY <1>2, <3>2 DEF Nodes
      <4>3. ASSUME NEW m \in stack[k].id + 1 .. next PROVE heights[m] # NoHeight
        <5>1. m = next \/ m \in stack[k].id + 1 .. next - 1
          BY <1>2, <4>2
        <5> QED
          BY <1>1, <1>4, <3>2, <4>2, <5>1 DEF OpenHeights
      <4> QED
        BY <4>1, <4>3
    <3> QED
      BY <1>3, <3>1, <3>2
  <2>2. next' - 1 = next
    BY <1>2
  <2> QED
    BY <1>2, <2>1, <2>2 DEF OpenHeights
<1>6. next \in OpenNodes' /\ \A m \in OpenNodes : m \in OpenNodes'
  <2> HIDE DEF d
  <2>1. OpenNodes' = {stack'[k].id : k \in 1 .. d + 1}
    BY <1>2 DEF OpenNodes
  <2>2. OpenNodes = {stack[k].id : k \in 1 .. d}
    BY DEF OpenNodes, d
  <2> QED
    BY <1>2, <1>3, <2>1, <2>2
<1> HIDE DEF d
<1>7. Placed'
  <2>1. \A n \in 1 .. next' - 1 : n = next \/ n \in 1 .. next - 1
    BY <1>2
  <2> QED
    BY <1>1, <1>2, <1>6, <2>1 DEF Placed
<1>8. Called'
  <2>1. ASSUME NEW k \in 1 .. d + 1
        PROVE  CallerIs(heights, ParentIn(stack', k), stack'[k].id)
    <3>1. CASE k = d + 1
      BY <1>2, <3>1, OpenedByCaller
    <3>2. CASE k \in 1 .. d
      BY <1>1, <1>2, <3>2 DEF Called, d
    <3> QED
      BY <1>3, <3>1, <3>2
  <2> QED
    BY <1>1, <1>2, <2>1 DEF Called, ParentAt, ParentIn
<1>9. Closed'
  <2> SUFFICES ASSUME NEW m \in 1 .. next' - 1
               PROVE  m \in OpenNodes' \/
                      \E n \in m + 1 .. next' : n \in Nodes /\ ~MayCall(heights[m], heights[n])
    BY <1>2 DEF Closed, Nodes
  <2>1. CASE m = next \/ m \in OpenNodes
    BY <1>6, <2>1
  <2>2. CASE m # next /\ m \notin OpenNodes
    <3>1. m \in 1 .. next - 1
      BY <1>2, <2>2
    <3>2. PICK n \in m + 1 .. next : n \in Nodes /\ ~MayCall(heights[m], heights[n])
      BY <1>1, <1>2, <2>2, <3>1 DEF Closed
    <3>3. n \in m + 1 .. next'
      BY <1>2, <3>1, <3>2
    <3> QED
      BY <3>2, <3>3
  <2> QED
    BY <2>1, <2>2
<1>10. Ending'
  BY <1>2 DEF Ending
<1> QED
  BY <1>5, <1>7, <1>8, <1>9, <1>10 DEF CallInv

\* One step of the loops keeps every node below its caller.
LEMMA StepCallInv == CallInv /\ [Next]_vars => CallInv'
<1> SUFFICES ASSUME CallInv, [Next]_vars PROVE CallInv'
  OBVIOUS
<1>1. PathInv' /\ PathInv
  BY StepPathInv DEF CallInv
<1>2. CASE CloseScope
  <2>1. /\ phase = "place" /\ phase' = "place" /\ stack # <<>> /\ Attach /\ ~ParentFound
        /\ heights' = heights /\ next' = next /\ next \in Nodes
    BY <1>2 DEF CloseScope
  <2>2. OpenHeights' /\ Placed' /\ Called'
    BY <2>1, AttachCallInv
  <2> DEFINE top == stack[Len(stack)].id
  <2>3. top \in Nodes /\ top < next /\ stack[Len(stack)].height = heights[top]
    <3>1. Len(stack) \in 1 .. Len(stack)
      BY <1>1, <2>1, Attached
    <3> QED
      BY <1>1, <2>1, <3>1, Attached DEF CallInv, PathInv, Ordered, OpenHeights
  <2>4. ~MayCall(heights[top], heights[next]) /\ next \in top + 1 .. next
    <3>1. ~MayCall(heights[top], heights[next])
      BY <2>1, <2>3 DEF ParentFound
    <3>2. top \in Nat /\ next \in Nat
      BY <1>1, <2>1, <2>3, Attached DEF Nodes
    <3> HIDE DEF top
    <3> QED
      BY <2>3, <3>1, <3>2
  <2>5. \A m \in OpenNodes : m = top \/ m \in OpenNodes'
    BY <2>1, AttachCallInv
  <2>6. Closed'
    <3> SUFFICES ASSUME NEW m \in 1 .. next - 1
                 PROVE  m \in OpenNodes' \/
                        \E n \in m + 1 .. next : n \in Nodes /\ ~MayCall(heights[m], heights[n])
      BY <2>1 DEF Closed, Nodes
    <3> HIDE DEF top
    <3>1. CASE m = top
      BY <2>1, <2>4, <3>1
    <3>2. CASE m # top /\ m \in OpenNodes
      BY <2>5, <3>2
    <3>3. CASE m \notin OpenNodes
      BY <2>1, <3>3 DEF CallInv, Closed
    <3> QED
      BY <3>1, <3>2, <3>3
  <2> QED
    BY <1>1, <2>1, <2>2, <2>6 DEF CallInv, Ending
<1>3. CASE OpenScope
  BY <1>1, <1>3, OpenCallInv
<1>4. CASE StartDrain
  <2>1. next = Len(heights) + 1
    <3>1. Len(heights) \in Nat
      BY <1>1, HeightsType DEF PathInv, TypeOK
    <3> QED
      BY <1>1, <1>4, <3>1 DEF StartDrain, PathInv, TypeOK, Nodes
  <2> QED
    BY <1>1, <1>4, <2>1 DEF StartDrain, CallInv, Closed, OpenHeights, Placed, Called,
       Ending, ParentAt, OpenNodes
<1>5. CASE Drain
  <2>1. /\ phase = "drain" /\ phase' = "drain" /\ stack # <<>> /\ Attach
        /\ heights' = heights /\ next' = next
    BY <1>5 DEF Drain
  <2>2. OpenHeights' /\ Placed' /\ Called'
    BY <2>1, AttachCallInv
  <2> QED
    BY <1>1, <2>1, <2>2 DEF CallInv, Closed, Ending
<1>6. CASE Return
  <2>1. /\ phase = "drain" /\ stack = <<>> /\ phase' = "done"
        /\ UNCHANGED <<heights, next, stack, inner, path, rootCount>>
    BY <1>6 DEF Return
  <2>2. Closed' /\ Ending'
    BY <2>1 DEF CallInv, Closed, Ending
  <2>3. OpenHeights' /\ Placed' /\ Called'
    BY <2>1 DEF CallInv, OpenHeights, Placed, Called, ParentAt, OpenNodes
  <2> QED
    BY <1>1, <2>2, <2>3 DEF CallInv
<1>7. CASE UNCHANGED vars
  BY <1>1, <1>7 DEF vars, CallInv, Closed, OpenHeights, Placed, Called,
     Ending, ParentAt, OpenNodes, Nodes
<1> QED
  BY <1>2, <1>3, <1>4, <1>5, <1>6, <1>7 DEF Next, Terminated

\* Whatever heights are reported, in the finished tree every inner instruction
\* is a child of the last instruction before it that can have called it, and of
\* the top-level instruction when there is none.
THEOREM ParentsAreCallers == Spec => []ParentIsCaller
<1>1. CallInv => ParentIsCaller
  <2> SUFFICES ASSUME CallInv, Done, NEW n \in Nodes
               PROVE  \E p \in 0 .. Len(heights) :
                         /\ p = IF Callers(n) = {} THEN 0
                                ELSE CHOOSE m \in Callers(n) : \A o \in Callers(n) : o <= m
                         /\ \E k \in 1 .. Len(inner[p]) : inner[p][k] = n
    BY DEF ParentIsCaller
  <2>1. stack = <<>> /\ next = Len(heights) + 1 /\ Len(heights) \in Nat
    BY HeightsType DEF CallInv, PathInv, TypeOK, Ending, Done
  <2>2. n \notin OpenNodes /\ n \in 1 .. next - 1
    BY <2>1 DEF OpenNodes, Nodes
  <2>3. PICK p \in 0 .. Len(heights) : \E k \in 1 .. Len(inner[p]) : inner[p][k] = n
    BY <2>2 DEF CallInv, Placed
  <2>4. CallerIs(heights, p, n) /\ Callers(n) = CallersIn(heights, n)
    BY <2>3 DEF CallInv, Called, Callers, CallersIn
  <2>5. p = IF Callers(n) = {} THEN 0
            ELSE CHOOSE m \in Callers(n) : \A o \in Callers(n) : o <= m
    <3>1. CASE Callers(n) = {}
      BY <2>4, <3>1 DEF CallerIs
    <3>2. CASE Callers(n) # {}
      <4>1. p \in Callers(n) /\ \A o \in Callers(n) : o <= p
        BY <2>4, <3>2 DEF CallerIs
      <4> DEFINE c == CHOOSE m \in Callers(n) : \A o \in Callers(n) : o <= m
      <4>2. c \in Callers(n) /\ \A o \in Callers(n) : o <= c
        BY <4>1
      <4>3. Callers(n) \subseteq Int
        BY DEF Callers
      <4> HIDE DEF c
      <4>4. p = c
        BY <4>1, <4>2, <4>3
      <4> QED
        BY <3>2, <4>4 DEF c
    <3> QED
      BY <3>1, <3>2
  <2> QED
    BY <2>3, <2>5
<1> QED
  BY <1>1, InitCallInv, StepCallInv, PTL DEF Spec
--------------------------------------------------------------------------------
(* Depth is stack height *)

\* Of heights as the runtime reports them, a call's is its caller's and one more.
LEMMA HeightOfCall ==
    ASSUME FromRuntime, Len(heights) \in Nat,
           \A n \in Nodes : heights[n] \in Nat \cup {NoHeight},
           NEW n \in Nodes, NEW p, CallerIs(heights, p, n)
    PROVE  heights[n] = IF p = 0 THEN 2 ELSE heights[p] + 1
<1>1. \A m \in Nodes : /\ heights[m] \in Nat /\ heights[m] # NoHeight /\ heights[m] >= 2
                       /\ heights[m] <= IF m = 1 THEN 2 ELSE heights[m - 1] + 1
  BY DEF FromRuntime
<1>2. n \in Nat \ {0} /\ \A m \in 1 .. n : m \in Nodes
  BY DEF Nodes
<1>3. ASSUME NEW m \in 1 .. n - 1, m \notin CallersIn(heights, n)
      PROVE  heights[n] <= heights[m]
  <2>1. m \in Nodes /\ \A i \in m .. n : i \in Nodes
    BY <1>2
  <2>2. ~MayCall(heights[m], heights[n])
    BY <1>1, <1>3, <2>1 DEF CallersIn
  <2> QED
    BY <1>1, <2>1, <2>2 DEF MayCall
<1>4. CASE CallersIn(heights, n) = {}
  <2>1. p = 0
    BY <1>4 DEF CallerIs
  <2>2. heights[n] <= 2
    <3>1. CASE n = 1
      BY <1>1, <3>1
    <3>2. CASE n # 1
      <4>1. 1 \in 1 .. n - 1 /\ 1 \in Nodes
        BY <1>2, <3>2
      <4>2. heights[n] <= heights[1] /\ heights[1] <= 2
        BY <1>1, <1>3, <1>4, <4>1
      <4> QED
        BY <1>1, <4>1, <4>2
    <3> QED
      BY <3>1, <3>2
  <2> QED
    BY <1>1, <2>1, <2>2
<1>5. CASE CallersIn(heights, n) # {}
  <2>1. p \in CallersIn(heights, n) /\ \A m \in CallersIn(heights, n) : m <= p
    BY <1>5 DEF CallerIs
  <2>2. p \in 1 .. n - 1 /\ heights[n] > heights[p] /\ p # 0 /\ p \in Nodes
    BY <1>2, <2>1 DEF CallersIn, MayCall
  <2>3. p + 1 \in Nodes /\ p + 1 # 1 /\ (p + 1) - 1 = p
    BY <1>2, <2>2
  <2>4. heights[p + 1] <= heights[p] + 1
    BY <1>1, <2>3
  <2>5. heights[n] <= heights[p + 1]
    <3>1. CASE p + 1 = n
      BY <1>1, <3>1
    <3>2. CASE p + 1 # n
      <4>1. p + 1 \in 1 .. n - 1 /\ ~(p + 1 <= p)
        BY <1>2, <2>2, <3>2
      <4> QED
        BY <1>3, <2>1, <4>1
    <3> QED
      BY <3>1, <3>2
  <2> QED
    BY <1>1, <2>2, <2>3, <2>4, <2>5
<1> QED
  BY <1>4, <1>5

\* A path is as long as the height its node was reported with.
Depths ==
    /\ path[0] = <<RootIndex>>
    /\ FromRuntime => \A n \in 1 .. next - 1 : Len(path[n]) = heights[n]

\* Only OpenScope writes a path, the caller's and one number more.
LEMMA StepDepths == CallInv /\ Depths /\ [Next]_vars => Depths'
<1> SUFFICES ASSUME CallInv, Depths, [Next]_vars PROVE Depths'
  OBVIOUS
<1>1. PathInv /\ TypeOK
  BY DEF CallInv, PathInv
<1>2. CASE OpenScope
  <2>1. /\ next \in Nodes /\ next \in Nat \ {0} /\ next' = next + 1 /\ heights' = heights
        /\ Top \in 0 .. Len(heights) /\ Top < next
        /\ path'[next] = Append(path[Top], Len(inner[Top]))
        /\ \A q \in 0 .. Len(heights) : q # next => path'[q] = path[q]
        /\ Len(heights) \in Nat
    BY <1>1, <1>2, Opened
  <2>2. path'[0] = <<RootIndex>>
    BY <2>1 DEF Depths
  <2>3. ASSUME FromRuntime PROVE Len(path'[next]) = heights[next]
    <3>1. path[Top] \in Seq(Nat)
      BY <1>1, <2>1 DEF TypeOK
    <3>2. Len(path'[next]) = Len(path[Top]) + 1
      BY <2>1, <3>1
    <3>3. CallerIs(heights, Top, next)
      BY <1>2, OpenedByCaller
    <3>4. \A n \in Nodes : heights[n] \in Nat \cup {NoHeight}
      BY <1>1, HeightsType DEF TypeOK
    <3>5. heights[next] = IF Top = 0 THEN 2 ELSE heights[Top] + 1
      BY <2>1, <2>3, <3>3, <3>4, HeightOfCall
    <3>6. CASE Top = 0
      <4>1. path[Top] = <<RootIndex>>
        BY <3>6 DEF Depths
      <4>2. Len(path[Top]) = 1
        BY <4>1
      <4> QED
        BY <3>2, <3>5, <3>6, <4>2
    <3>7. CASE Top # 0
      <4>1. Top \in 1 .. next - 1
        BY <2>1, <3>7
      <4>2. Len(path[Top]) = heights[Top]
        BY <2>3, <4>1 DEF Depths
      <4> QED
        BY <3>2, <3>5, <3>7, <4>2
    <3> QED
      BY <3>6, <3>7
  <2>4. ASSUME FromRuntime, NEW n \in 1 .. next PROVE Len(path'[n]) = heights[n]
    <3>1. CASE n = next
      BY <2>3, <2>4, <3>1
    <3>2. CASE n # next
      <4>1. n \in 1 .. next - 1 /\ n \in 0 .. Len(heights)
        BY <2>1, <3>2 DEF Nodes
      <4> QED
        BY <2>1, <2>4, <3>2, <4>1 DEF Depths
    <3> QED
      BY <3>1, <3>2
  <2>5. next' - 1 = next
    BY <2>1
  <2> QED
    BY <2>1, <2>2, <2>4, <2>5 DEF Depths, FromRuntime, Nodes
<1>3. CASE UNCHANGED <<heights, next, path>>
  BY <1>3 DEF Depths, FromRuntime, Nodes
<1> QED
  BY <1>2, <1>3 DEF Next, CloseScope, StartDrain, Drain, Return, Terminated, vars

\* For heights as the runtime reports them, an inner instruction ends exactly as
\* deep in the tree as the stack height it ran at, whatever the list.
THEOREM DepthsAreHeights == Spec => []DepthIsStackHeight
<1>1. Init => Depths
  BY DEF Init, Depths
<1>2. CallInv /\ Depths => DepthIsStackHeight
  <2> SUFFICES ASSUME CallInv, Depths, Done, FromRuntime, NEW n \in Nodes
               PROVE  Len(path[n]) = heights[n]
    BY DEF DepthIsStackHeight
  <2>1. next = Len(heights) + 1 /\ Len(heights) \in Nat
    BY HeightsType DEF CallInv, PathInv, TypeOK, Ending, Done
  <2>2. n \in 1 .. next - 1
    BY <2>1 DEF Nodes
  <2> QED
    BY <2>2 DEF Depths
<1> QED
  BY <1>1, <1>2, InitCallInv, StepCallInv, StepDepths, PTL DEF Spec
--------------------------------------------------------------------------------
(* The tree is grown as CpiTree says *)

\* The sequence of no element.
LEMMA NoneInSeq == SetToSeq({}) = <<>>
<1> DEFINE Good(f) == f \in [1 .. Cardinality({}) -> {}] /\ IsInjective(f)
<1>1. Cardinality({}) = 0
  BY FS_EmptySet
<1>2. \A f : f \in [1 .. Cardinality({}) -> {}] => f = <<>>
  BY <1>1
<1>3. <<>> \in [1 .. Cardinality({}) -> {}] /\ IsInjective(<<>>)
  BY <1>1 DEF IsInjective
<1> QED
  BY <1>2, <1>3 DEF SetToSeq

\* The sequence of one element.
LEMMA OneInSeq == ASSUME NEW x PROVE SetToSeq({x}) = <<x>>
<1>1. Cardinality({x}) = 1
  BY FS_Singleton
<1>2. \A f : f \in [1 .. 1 -> {x}] => f = <<x>>
  OBVIOUS
<1>3. <<x>> \in [1 .. 1 -> {x}] /\ IsInjective(<<x>>)
  BY DEF IsInjective
<1> QED
  BY <1>1, <1>2, <1>3 DEF SetToSeq

\* The children of p there: the attached ones, and the one whose scope is open.
OpenChildIn(s, p) == {s[k].id : k \in {j \in DOMAIN s : ParentIn(s, j) = p}}

Grown(in, s, p) == in[p] \o SetToSeq(OpenChildIn(s, p))

\* No two scopes are open below the same node.
ParentsDiffer ==
    /\ DOMAIN stack = 1 .. Len(stack)
    /\ \A j, k \in 1 .. Len(stack) : ParentIn(stack, j) = ParentIn(stack, k) => j = k

\* The open scopes are below one another, each below a node of its own.
LEMMA DifferentParents == PathInv => ParentsDiffer
<1> SUFFICES ASSUME PathInv PROVE ParentsDiffer
  OBVIOUS
<1> DEFINE d == Len(stack)
<1>1. d \in Nat /\ DOMAIN stack = 1 .. d
  BY DEF PathInv, TypeOK
<1>2. \A k \in 1 .. d : stack[k].id \in Nat /\ stack[k].id # 0
  BY ParentType DEF PathInv, ScopeType, Nodes
<1>3. \A j, k \in 1 .. d : j < k => stack[j].id # stack[k].id
  BY <1>2 DEF PathInv, Ordered
<1> HIDE DEF d
<1>4. ASSUME NEW j \in 1 .. d, NEW k \in 1 .. d, j < k
      PROVE  ParentIn(stack, j) # ParentIn(stack, k)
  <2>1. k - 1 \in 1 .. d /\ k # 1
    BY <1>1, <1>4
  <2>2. j # 1 => j - 1 \in 1 .. d /\ j - 1 < k - 1
    BY <1>1, <1>4
  <2>3. CASE j = 1
    BY <2>1, <2>3, <1>2 DEF ParentIn
  <2>4. CASE j # 1
    BY <2>1, <2>2, <2>4, <1>3 DEF ParentIn
  <2> QED
    BY <2>3, <2>4
<1>5. \A j, k \in 1 .. d : j = k \/ j < k \/ k < j
  BY <1>1
<1> QED
  BY <1>1, <1>4, <1>5 DEF ParentsDiffer, d

\* What Grown is where a scope is open, and where none is.
LEMMA GrownIs ==
    ASSUME NEW in, NEW s, DOMAIN s = 1 .. Len(s),
           \A j, k \in 1 .. Len(s) : ParentIn(s, j) = ParentIn(s, k) => j = k,
           NEW S, NEW p, in[p] \in Seq(S)
    PROVE  /\ \A k \in 1 .. Len(s) :
                ParentIn(s, k) = p => Grown(in, s, p) = in[p] \o <<s[k].id>>
           /\ (\A k \in 1 .. Len(s) : ParentIn(s, k) # p) => Grown(in, s, p) = in[p]
<1>1. ASSUME NEW k \in 1 .. Len(s), ParentIn(s, k) = p
      PROVE  Grown(in, s, p) = in[p] \o <<s[k].id>>
  <2>1. {j \in DOMAIN s : ParentIn(s, j) = p} = {k}
    BY <1>1
  <2>2. OpenChildIn(s, p) = {s[k].id}
    BY <2>1 DEF OpenChildIn
  <2> QED
    BY <2>2, OneInSeq DEF Grown
<1>2. ASSUME \A k \in 1 .. Len(s) : ParentIn(s, k) # p
      PROVE  Grown(in, s, p) = in[p]
  <2>1. {j \in DOMAIN s : ParentIn(s, j) = p} = {}
    BY <1>2
  <2>2. OpenChildIn(s, p) = {}
    BY <2>1 DEF OpenChildIn
  <2>3. Grown(in, s, p) = in[p] \o <<>>
    BY <2>2, NoneInSeq DEF Grown
  <2> QED
    BY <2>3
<1> QED
  BY <1>1, <1>2

\* The children and the paths of the placed nodes, as CpiTree sees them.
Kids == [p \in 0 .. next - 1 |-> Grown(inner, stack, p)]

Ways == [p \in 0 .. next - 1 |-> path[p]]

\* They are the variables of the refinement.
LEMMA TreeIs == Tree!treeVars = <<next - 1, Kids, Ways>>
BY DEF Tree!treeVars, Kids, Ways, Grown, OpenChildIn, OpenChild, ParentAt, ParentIn

\* s begins t, element by element.
Begins(s, t) == Len(s) <= Len(t) /\ \A i \in 1 .. Len(s) : s[i] = t[i]

\* Begins is IsPrefix.
LEMMA BeginsIsPrefix ==
    ASSUME NEW S, NEW s \in Seq(S), NEW t \in Seq(S), Begins(s, t)
    PROVE  Tree!IsPrefix(s, t)
<1>1. /\ Len(s) \in Nat /\ Len(t) \in Nat /\ Len(s) <= Len(t)
      /\ \A i \in 1 .. Len(s) : s[i] = t[i] /\ s[i] \in S /\ t[i] \in S
  BY DEF Begins
<1>2. SubSeq(s, 1, Len(s)) = s
  BY <1>1
<1>3. SubSeq(t, 1, Len(s)) = s
  BY <1>1
<1> QED
  BY <1>1, <1>2, <1>3 DEF Tree!IsPrefix

\* A sequence begins itself, and what begins one begins it when it grows.
LEMMA BeginsAppended ==
    ASSUME NEW S, NEW s \in Seq(S), NEW t \in Seq(S), NEW e \in S
    PROVE  /\ Begins(s, s)
           /\ Begins(s, t) => Begins(s, Append(t, e))
<1>1. Len(s) \in Nat /\ Len(t) \in Nat /\ Len(Append(t, e)) = Len(t) + 1
      /\ \A i \in 1 .. Len(t) : Append(t, e)[i] = t[i]
  OBVIOUS
<1> QED
  BY <1>1 DEF Begins

\* The nodes with an open scope, the root first, lie on one way down the tree
\* that leads to the node that was opened last.
OneWay ==
    /\ \A j, k \in 1 .. Len(stack) + 1 : j <= k => Begins(path[ParentAt(j)], path[ParentAt(k)])
    /\ \A k \in 1 .. Len(stack) + 1 : Begins(path[ParentAt(k)], path[next - 1])

\* Only the root is there.
LEMMA InitOneWay == Init => OneWay
<1> SUFFICES ASSUME Init PROVE OneWay
  OBVIOUS
<1>1. /\ Len(stack) = 0 /\ next - 1 = 0 /\ path[0] = <<RootIndex>>
      /\ Len(path[0]) = 1
  BY HeightsType, HeightAssumption DEF Init
<1>2. ParentAt(1) = 0 /\ Begins(path[0], path[0])
  BY <1>1 DEF ParentAt, Begins
<1> QED
  BY <1>1, <1>2 DEF OneWay

\* Popping a scope shortens the way; opening one continues it.
LEMMA StepOneWay == PathInv /\ OneWay /\ [Next]_vars => OneWay'
<1> SUFFICES ASSUME PathInv, OneWay, [Next]_vars PROVE OneWay'
  OBVIOUS
<1> DEFINE d == Len(stack)
<1>1. TypeOK
  BY DEF PathInv
<1>2. ASSUME stack # <<>>, Attach, heights' = heights, next' = next, path' = path
      PROVE  OneWay'
  <2>1. /\ d \in Nat \ {0} /\ Len(stack') = d - 1
        /\ \A k \in 1 .. d - 1 : stack'[k].id = stack[k].id
    BY <1>2, Attached
  <2>2. ASSUME NEW k \in 1 .. d PROVE ParentIn(stack', k) = ParentAt(k)
    <3>1. k # 1 => k - 1 \in 1 .. d - 1
      BY <2>1
    <3> QED
      BY <2>1, <3>1 DEF ParentIn, ParentAt
  <2>3. (d - 1) + 1 = d /\ \A k \in 1 .. d : k \in 1 .. d + 1
    BY <2>1
  <2>4. \A j, k \in 1 .. d : j <= k => Begins(path[ParentAt(j)], path[ParentAt(k)])
    BY <2>3 DEF OneWay
  <2>5. \A k \in 1 .. d : Begins(path[ParentAt(k)], path[next - 1])
    BY <2>3 DEF OneWay
  <2> HIDE DEF d
  <2> QED
    BY <1>2, <2>1, <2>2, <2>3, <2>4, <2>5 DEF OneWay, ParentAt, ParentIn
<1>3. CASE OpenScope
  <2>1. /\ next \in Nodes /\ next \in Nat \ {0} /\ next' = next + 1
        /\ Len(heights) \in Nat /\ d \in Nat /\ Len(stack') = d + 1
        /\ \A k \in 1 .. d :
             /\ stack[k].id \in Nodes /\ ParentAt(k) \in 0 .. Len(heights)
             /\ ParentIn(stack', k) = ParentAt(k)
        /\ stack'[d + 1].id = next
        /\ ParentIn(stack', d + 1) = Top
        /\ Top \in 0 .. Len(heights) /\ Top < next
        /\ path'[next] = Append(path[Top], Len(inner[Top]))
        /\ \A q \in 0 .. Len(heights) : q # next => path'[q] = path[q]
        /\ \A p \in 0 .. Len(heights) : inner[p] \in Seq(Nodes)
    BY <1>3, Opened
  <2>2. Top = ParentAt(d + 1)
    <3>1. d = 0 <=> stack = <<>>
      BY <1>1 DEF TypeOK
    <3>2. d \in Nat
      BY <2>1
    <3> HIDE DEF d
    <3>3. (d + 1) - 1 = d /\ (d + 1 = 1 <=> d = 0)
      BY <3>2
    <3> QED
      BY <3>1, <3>3 DEF Top, ParentAt, d
  <2>3. \A q \in 0 .. Len(heights) : path[q] \in Seq(Nat)
    BY <1>1 DEF TypeOK
  <2>4. Len(inner[Top]) \in Nat
    BY <2>1
  <2>5. ASSUME NEW k \in 1 .. d + 1
        PROVE  /\ ParentIn(stack', k) = ParentAt(k)
               /\ ParentAt(k) \in 0 .. Len(heights)
               /\ path'[ParentAt(k)] = path[ParentAt(k)]
    <3>1. k \in 1 .. d \/ k = d + 1
      BY <2>1
    <3>2. ParentIn(stack', k) = ParentAt(k) /\ ParentAt(k) \in 0 .. Len(heights)
      BY <2>1, <2>2, <3>1
    <3>3. ParentAt(k) # next
      <4>1. CASE k = d + 1
        BY <2>1, <2>2, <4>1
      <4>2. CASE k \in 1 .. d
        <5>1. ParentAt(k) < stack[k].id /\ stack[k].id < next
          BY <4>2 DEF PathInv, Ordered
        <5> QED
          BY <2>1, <4>2, <5>1 DEF Nodes
      <4> QED
        BY <3>1, <4>1, <4>2
    <3> QED
      BY <2>1, <3>2, <3>3
  <2>6. \A k \in 1 .. d + 1 : Begins(path[ParentAt(k)], path[Top])
    <3>1. d + 1 \in 1 .. d + 1 /\ \A k \in 1 .. d + 1 : k <= d + 1
      BY <2>1
    <3> QED
      BY <2>2, <3>1 DEF OneWay
  <2>7. ASSUME NEW k \in 1 .. d + 1 PROVE Begins(path'[ParentAt(k)], path'[next])
    <3>1. path[ParentAt(k)] \in Seq(Nat) /\ path[Top] \in Seq(Nat)
      BY <2>1, <2>3, <2>5
    <3>2. Begins(path[ParentAt(k)], Append(path[Top], Len(inner[Top])))
      BY <2>4, <2>6, <3>1, BeginsAppended
    <3> QED
      BY <2>1, <2>5, <3>2
  <2>8. Begins(path'[next], path'[next])
    <3>1. path[Top] \in Seq(Nat)
      BY <2>1, <2>3
    <3>2. path'[next] \in Seq(Nat)
      BY <2>1, <2>4, <3>1
    <3> QED
      BY <3>2, BeginsAppended
  <2>9. ParentIn(stack', d + 2) = next
    <3> HIDE DEF d
    <3>1. d + 2 # 1 /\ (d + 2) - 1 = d + 1
      BY <2>1
    <3> QED
      BY <2>1, <3>1 DEF ParentIn
  <2>10. /\ next' - 1 = next
         /\ Len(stack') + 1 = d + 2
         /\ \A k \in 1 .. d + 2 : (k \in 1 .. d + 1 \/ k = d + 2)
         /\ \A k \in 1 .. d + 1 : ~(d + 2 <= k)
    BY <2>1
  <2> HIDE DEF d
  <2>11. \A k \in 1 .. d + 2 : Begins(path'[ParentIn(stack', k)], path'[next])
    BY <2>5, <2>7, <2>8, <2>9, <2>10
  <2>12. \A j, k \in 1 .. d + 1 : j <= k => Begins(path[ParentAt(j)], path[ParentAt(k)])
    BY DEF OneWay, d
  <2>13. \A j, k \in 1 .. d + 2 :
            j <= k => Begins(path'[ParentIn(stack', j)], path'[ParentIn(stack', k)])
    <3> SUFFICES ASSUME NEW j \in 1 .. d + 2, NEW k \in 1 .. d + 2, j <= k
                 PROVE  Begins(path'[ParentIn(stack', j)], path'[ParentIn(stack', k)])
      OBVIOUS
    <3>1. CASE k = d + 2
      BY <2>9, <2>11, <3>1
    <3>2. CASE k # d + 2
      <4>1. k \in 1 .. d + 1 /\ j \in 1 .. d + 1
        BY <2>10, <3>2
      <4> QED
        BY <2>5, <2>12, <4>1
    <3> QED
      BY <3>1, <3>2
  <2> QED
    BY <2>10, <2>11, <2>13 DEF OneWay, ParentAt, ParentIn
<1>4. CASE UNCHANGED <<next, stack, path>>
  BY <1>4 DEF OneWay, ParentAt
<1>5. CASE CloseScope
  BY <1>2, <1>5 DEF CloseScope
<1>6. CASE Drain
  BY <1>2, <1>6 DEF Drain
<1> QED
  BY <1>3, <1>4, <1>5, <1>6 DEF Next, StartDrain, Return, Terminated, vars
\* A call, as CpiTree sees it.
LEMMA CallIs ==
    ASSUME NEW p
    PROVE  Tree!Call(p) <=>
             /\ Tree!MayBeRunning(p)
             /\ next' - 1 = (next - 1) + 1
             /\ Kids' = [q \in 0 .. (next - 1) + 1 |->
                          CASE q = p              -> Append(Kids[p], (next - 1) + 1)
                            [] q = (next - 1) + 1 -> <<>>
                            [] OTHER              -> Kids[q]]
             /\ Ways' = [q \in 0 .. (next - 1) + 1 |->
                          IF q = (next - 1) + 1 THEN Append(Ways[p], Len(Kids[p]))
                          ELSE Ways[q]]
BY DEF Tree!Call, Kids, Ways, Grown, OpenChildIn, OpenChild, ParentAt, ParentIn

\* Attaching the node of a closed scope changes nothing in the tree.
LEMMA AttachStutters ==
    ASSUME PathInv, PathInv', stack # <<>>, Attach,
           heights' = heights, next' = next, path' = path
    PROVE  UNCHANGED Tree!treeVars
<1> DEFINE d == Len(stack)
           p == ParentAt(d)
<1>1. /\ Len(heights) \in Nat /\ next \in Nat
      /\ d \in Nat \ {0} /\ Len(stack') = d - 1
      /\ \A k \in 1 .. d - 1 : stack'[k].id = stack[k].id /\ ParentIn(stack', k) = ParentAt(k)
      /\ ParentAt(d) \in 0 .. Len(heights) /\ stack[d].id \in Nodes
      /\ \A q \in 0 .. Len(heights) : inner[q] \in Seq(Nodes)
      /\ inner' \in [0 .. Len(heights) -> Seq(Nodes)]
      /\ inner'[p] = Append(inner[p], stack[d].id)
      /\ \A q \in 0 .. Len(heights) : q # p => inner'[q] = inner[q]
  BY Attached
<1>2. /\ DOMAIN stack = 1 .. d
      /\ \A j, k \in 1 .. d : ParentIn(stack, j) = ParentIn(stack, k) => j = k
  BY DifferentParents DEF ParentsDiffer
<1>3. /\ DOMAIN stack' = 1 .. Len(stack')
      /\ \A j, k \in 1 .. Len(stack') : ParentIn(stack', j) = ParentIn(stack', k) => j = k
  <2>1. ParentsDiffer'
    BY DifferentParents, PTL
  <2> QED
    BY <2>1 DEF ParentsDiffer
<1>4. \A k \in 1 .. d : ParentIn(stack, k) = ParentAt(k)
  BY DEF ParentIn, ParentAt
<1>5. next - 1 <= Len(heights)
  BY <1>1 DEF PathInv, TypeOK
<1>6. ASSUME NEW q \in 0 .. next - 1 PROVE Grown(inner', stack', q) = Grown(inner, stack, q)
  <2>1. q \in 0 .. Len(heights) /\ inner[q] \in Seq(Nodes) /\ inner'[q] \in Seq(Nodes)
    BY <1>1, <1>5
  <2>2. /\ \A k \in 1 .. d : ParentIn(stack, k) = q =>
                               Grown(inner, stack, q) = inner[q] \o <<stack[k].id>>
        /\ (\A k \in 1 .. d : ParentIn(stack, k) # q) => Grown(inner, stack, q) = inner[q]
    BY <1>2, <2>1, GrownIs
  <2>3. /\ \A k \in 1 .. Len(stack') : ParentIn(stack', k) = q =>
                               Grown(inner', stack', q) = inner'[q] \o <<stack'[k].id>>
        /\ (\A k \in 1 .. Len(stack') : ParentIn(stack', k) # q) =>
                               Grown(inner', stack', q) = inner'[q]
    BY <1>3, <2>1, GrownIs
  <2>4. d \in 1 .. d /\ \A k \in 1 .. d - 1 : k \in 1 .. d /\ k # d
    BY <1>1
  <2>5. \A k \in 1 .. d : k = d \/ k \in 1 .. d - 1
    BY <1>1
  <2> HIDE DEF d, p
  <2>6. CASE q = p
    <3>1. Grown(inner, stack, q) = inner[q] \o <<stack[d].id>>
      BY <1>4, <2>2, <2>4, <2>6 DEF p
    <3>2. \A k \in 1 .. d - 1 : ParentIn(stack', k) # q
      BY <1>1, <1>2, <1>4, <2>4, <2>6 DEF p
    <3>3. Grown(inner', stack', q) = Append(inner[q], stack[d].id)
      BY <1>1, <2>3, <2>6, <3>2
    <3>4. Append(inner[q], stack[d].id) = inner[q] \o <<stack[d].id>>
      BY <1>1, <2>1, AppendIsConcat
    <3> QED
      BY <3>1, <3>3, <3>4
  <2>7. CASE q # p
    <3>1. inner'[q] = inner[q]
      BY <1>1, <2>1, <2>7
    <3>2. CASE \E k \in 1 .. d - 1 : ParentAt(k) = q
      <4>1. PICK k \in 1 .. d - 1 : ParentAt(k) = q
        BY <3>2
      <4>2. k \in 1 .. d /\ k \in 1 .. Len(stack') /\ ParentIn(stack, k) = q
            /\ ParentIn(stack', k) = q /\ stack'[k].id = stack[k].id
        BY <1>1, <1>4, <2>4, <4>1
      <4>3. Grown(inner, stack, q) = inner[q] \o <<stack[k].id>>
        BY <2>2, <4>2
      <4>4. Grown(inner', stack', q) = inner'[q] \o <<stack'[k].id>>
        BY <2>3, <4>2
      <4> QED
        BY <3>1, <4>2, <4>3, <4>4
    <3>3. CASE \A k \in 1 .. d - 1 : ParentAt(k) # q
      <4>1. \A k \in 1 .. d : ParentIn(stack, k) # q
        BY <1>4, <2>5, <2>7, <3>3 DEF p
      <4>2. \A k \in 1 .. Len(stack') : ParentIn(stack', k) # q
        BY <1>1, <3>3
      <4> QED
        BY <2>2, <2>3, <3>1, <4>1, <4>2
    <3> QED
      BY <3>2, <3>3
  <2> QED
    BY <2>6, <2>7
<1>7. Kids' = Kids /\ Ways' = Ways
  BY <1>6 DEF Kids, Ways
<1>8. Tree!treeVars' = <<next' - 1, Kids', Ways'>>
  BY DEF Tree!treeVars, Kids, Ways, Grown, OpenChildIn, OpenChild, ParentAt, ParentIn
<1> QED
  BY <1>7, <1>8, TreeIs

\* Opening a scope is the next call of the innermost open one.
LEMMA OpenIsCall ==
    ASSUME PathInv, PathInv', OneWay, OpenScope
    PROVE  Tree!TreeNext
<1> DEFINE d == Len(stack)
<1>1. /\ next \in Nodes /\ next \in Nat \ {0} /\ next' = next + 1 /\ inner' = inner
      /\ Len(heights) \in Nat /\ d \in Nat /\ Len(stack') = d + 1
      /\ \A p \in 0 .. Len(heights) : inner[p] \in Seq(Nodes)
      /\ \A k \in 1 .. d : /\ ParentAt(k) \in 0 .. Len(heights)
                           /\ stack'[k] = stack[k] /\ ParentIn(stack', k) = ParentAt(k)
      /\ stack'[d + 1].id = next /\ ParentIn(stack', d + 1) = Top
      /\ Top \in 0 .. Len(heights) /\ Top < next
      /\ path'[next] = Append(path[Top], Len(inner[Top]))
      /\ \A q \in 0 .. Len(heights) : q # next => path'[q] = path[q]
  BY Opened
<1>2. /\ DOMAIN stack = 1 .. d
      /\ \A j, k \in 1 .. d : ParentIn(stack, j) = ParentIn(stack, k) => j = k
  BY DifferentParents DEF ParentsDiffer
<1>3. /\ DOMAIN stack' = 1 .. Len(stack')
      /\ \A j, k \in 1 .. Len(stack') : ParentIn(stack', j) = ParentIn(stack', k) => j = k
  <2>1. ParentsDiffer'
    BY DifferentParents, PTL
  <2> QED
    BY <2>1 DEF ParentsDiffer
<1>4. \A k \in 1 .. d : ParentIn(stack, k) = ParentAt(k)
  BY DEF ParentIn, ParentAt
<1>5. /\ \A k \in 1 .. d : k \in 1 .. d + 1 /\ k # d + 1
      /\ \A k \in 1 .. d + 1 : k \in 1 .. d \/ k = d + 1
      /\ d + 1 \in 1 .. d + 1
  BY <1>1
<1>6. \A q \in 0 .. Len(heights) : path[q] \in Seq(Nat)
  BY DEF PathInv, TypeOK
<1>7. Tree!IsPrefix(path[Top], path[next - 1])
  <2>1. Top = ParentAt(d + 1)
    <3>1. d = 0 <=> stack = <<>>
      BY DEF PathInv, TypeOK
    <3>2. d \in Nat
      BY <1>1
    <3> HIDE DEF d
    <3>3. (d + 1) - 1 = d /\ (d + 1 = 1 <=> d = 0)
      BY <3>2
    <3> QED
      BY <3>1, <3>3 DEF Top, ParentAt, d
  <2>2. Begins(path[Top], path[next - 1])
    BY <1>5, <2>1 DEF OneWay
  <2>3. path[Top] \in Seq(Nat) /\ path[next - 1] \in Seq(Nat)
    <3>1. next - 1 \in 0 .. Len(heights)
      BY <1>1 DEF Nodes
    <3> QED
      BY <1>1, <1>6, <3>1
  <2> QED
    BY <2>2, <2>3, BeginsIsPrefix
<1> HIDE DEF d
<1>8. ASSUME NEW q \in 0 .. next
      PROVE  /\ Grown(inner', stack', q) =
                  IF q = Top THEN Append(Grown(inner, stack, q), next)
                  ELSE IF q = next THEN <<>> ELSE Grown(inner, stack, q)
             /\ q = Top => Grown(inner, stack, q) = inner[q]
  <2>1. q \in 0 .. Len(heights) /\ inner[q] \in Seq(Nodes)
    BY <1>1 DEF Nodes
  <2>2. /\ \A k \in 1 .. d : ParentIn(stack, k) = q =>
                               Grown(inner, stack, q) = inner[q] \o <<stack[k].id>>
        /\ (\A k \in 1 .. d : ParentIn(stack, k) # q) => Grown(inner, stack, q) = inner[q]
    BY <1>2, <2>1, GrownIs DEF d
  <2>3. /\ \A k \in 1 .. d + 1 : ParentIn(stack', k) = q =>
                               Grown(inner, stack', q) = inner[q] \o <<stack'[k].id>>
        /\ (\A k \in 1 .. d + 1 : ParentIn(stack', k) # q) =>
                               Grown(inner, stack', q) = inner[q]
    <3>1. /\ DOMAIN stack' = 1 .. d + 1 /\ Len(stack') = d + 1
          /\ \A j, k \in 1 .. d + 1 : ParentIn(stack', j) = ParentIn(stack', k) => j = k
      BY <1>1, <1>3
    <3> QED
      BY <2>1, <3>1, GrownIs
  <2>4. CASE q = Top
    <3>1. \A k \in 1 .. d : ParentIn(stack, k) # q
      BY <1>1, <1>3, <1>4, <1>5, <2>4
    <3>2. Grown(inner, stack', q) = inner[q] \o <<next>>
      BY <1>1, <1>5, <2>3, <2>4
    <3>3. Append(inner[q], next) = inner[q] \o <<next>>
      <4>1. inner[q] \in Seq(Nodes) /\ next \in Nodes
        BY <1>1, <2>1
      <4> QED
        BY <4>1, AppendIsConcat
    <3> QED
      BY <1>1, <2>2, <2>4, <3>1, <3>2, <3>3
  <2>5. CASE q # Top /\ \E k \in 1 .. d : ParentAt(k) = q
    <3>1. PICK k \in 1 .. d : ParentAt(k) = q
      BY <2>5
    <3>2. q # next
      <4>1. ParentAt(k) < stack[k].id /\ stack[k].id < next /\ stack[k].id \in Nat
        BY ParentType DEF PathInv, Ordered, d, ScopeType, Nodes
      <4> QED
        BY <1>1, <3>1, <4>1
    <3>3. ParentIn(stack, k) = q /\ ParentIn(stack', k) = q /\ k \in 1 .. d + 1
          /\ stack'[k] = stack[k]
      BY <1>1, <1>4, <1>5, <3>1
    <3>4. Grown(inner, stack, q) = inner[q] \o <<stack[k].id>>
      BY <2>2, <3>3
    <3>5. Grown(inner, stack', q) = inner[q] \o <<stack'[k].id>>
      BY <2>3, <3>3
    <3> QED
      BY <1>1, <2>5, <3>2, <3>3, <3>4, <3>5
  <2>6. CASE q # Top /\ \A k \in 1 .. d : ParentAt(k) # q
    <3>1. \A k \in 1 .. d : ParentIn(stack, k) # q
      BY <1>4, <2>6
    <3>2. \A k \in 1 .. d + 1 : ParentIn(stack', k) # q
      BY <1>1, <1>5, <2>6
    <3>3. Grown(inner, stack', q) = inner[q] /\ Grown(inner, stack, q) = inner[q]
      BY <2>2, <2>3, <3>1, <3>2
    <3>4. q = next => inner[q] = <<>>
      BY <1>1, <2>1 DEF PathInv, Fresh
    <3> QED
      BY <1>1, <2>6, <3>3, <3>4
  <2> QED
    BY <2>4, <2>5, <2>6
<1>9. /\ Top \in 0 .. next - 1
      /\ (next - 1) + 1 = next
      /\ next' - 1 = next
      /\ next - 1 \in 0 .. next - 1
      /\ \A q \in 0 .. next - 1 : q \in 0 .. next /\ q # next
      /\ \A q \in 0 .. next : q # next => q \in 0 .. next - 1
  BY <1>1
<1>10. PICK p \in 0 .. next - 1 : p = Top
  BY <1>9
<1>11. Tree!Call(p)
  <2>1. Tree!MayBeRunning(p)
    <3>1. Tree!IsPrefix(path[p], path[next - 1])
      BY <1>7, <1>10
    <3> QED
      BY <1>9, <3>1 DEF Tree!MayBeRunning
  <2>2. Kids[p] = Grown(inner, stack, p) /\ Kids[p] = inner[p]
    BY <1>8, <1>9, <1>10 DEF Kids
  <2>3. ASSUME NEW q \in 0 .. next
        PROVE  Grown(inner', stack', q) = CASE q = p    -> Append(Kids[p], next)
                                            [] q = next -> <<>>
                                            [] OTHER    -> Kids[q]
    <3>1. q # next => Kids[q] = Grown(inner, stack, q)
      BY <1>9 DEF Kids
    <3> QED
      BY <1>8, <1>9, <1>10, <2>2, <3>1
  <2>4. ASSUME NEW q \in 0 .. next
        PROVE  path'[q] = IF q = next THEN Append(Ways[p], Len(Kids[p])) ELSE Ways[q]
    <3>1. Ways[p] = path[p] /\ (q # next => Ways[q] = path[q])
      BY <1>9 DEF Ways
    <3>2. q \in 0 .. Len(heights)
      BY <1>1 DEF Nodes
    <3> QED
      BY <1>1, <1>10, <2>2, <3>1, <3>2
  <2>5. Kids' = [q \in 0 .. next |-> Grown(inner', stack', q)]
        /\ Ways' = [q \in 0 .. next |-> path'[q]]
    BY <1>9 DEF Kids, Ways
  <2>6. Kids' = [q \in 0 .. next |-> CASE q = p    -> Append(Kids[p], next)
                                       [] q = next -> <<>>
                                       [] OTHER    -> Kids[q]]
    BY <2>3, <2>5
  <2>7. Ways' = [q \in 0 .. next |->
                   IF q = next THEN Append(Ways[p], Len(Kids[p])) ELSE Ways[q]]
    BY <2>4, <2>5
  <2> QED
    BY <1>9, <2>1, <2>6, <2>7, CallIs
<1> QED
  BY <1>11 DEF Tree!TreeNext

\* build_ix_stack implements CpiTree, whatever heights the node reports: each
\* inner instruction, when it is opened, becomes the next call of a call that
\* may still be running, with the path of its place, and no other step of the
\* loops shows.
THEOREM TreeGrowsAsCpiTree == Spec => ImplementsCpiTree
<1>1. Init => Tree!TreeInit
  <2> SUFFICES ASSUME Init PROVE Tree!TreeInit
    OBVIOUS
  <2>1. /\ next = 1 /\ next - 1 = 0 /\ 0 .. next - 1 = {0}
        /\ inner[0] = <<>> /\ path[0] = <<RootIndex>> /\ DOMAIN stack = {}
    BY HeightsType, HeightAssumption DEF Init
  <2>2. OpenChild(0) = {}
    BY <2>1 DEF OpenChild
  <2>3. inner[0] \in Seq(Nodes) /\ inner[0] \o <<>> = inner[0]
    BY <2>1
  <2>4. inner[0] \o SetToSeq(OpenChild(0)) = <<>>
    BY <2>1, <2>2, <2>3, NoneInSeq
  <2> QED
    BY <2>1, <2>4 DEF Tree!TreeInit
<1>2. PathInv /\ PathInv' /\ OneWay /\ [Next]_vars => [Tree!TreeNext]_(Tree!treeVars)
  <2> SUFFICES ASSUME PathInv, PathInv', OneWay, [Next]_vars
               PROVE  Tree!TreeNext \/ UNCHANGED Tree!treeVars
    OBVIOUS
  <2>1. CASE CloseScope
    BY <2>1, AttachStutters DEF CloseScope
  <2>2. CASE OpenScope
    BY <2>2, OpenIsCall
  <2>3. CASE Drain
    BY <2>3, AttachStutters DEF Drain
  <2>4. CASE UNCHANGED <<next, stack, inner, path>>
    BY <2>4 DEF Tree!treeVars, OpenChild, ParentAt
  <2> QED
    BY <2>1, <2>2, <2>3, <2>4 DEF Next, StartDrain, Return, Terminated, vars
<1> QED
  BY <1>1, <1>2, InitPathInv, StepPathInv, InitOneWay, StepOneWay, PTL
     DEF Spec, ImplementsCpiTree, Tree!TreeSpec
--------------------------------------------------------------------------------
(* Flattening gives the input back *)

\* The numbers after a, up to b.
Interval(a, b) == [i \in 1 .. b - a |-> a + i]

\* Two intervals that meet make one.
LEMMA IntervalsJoin ==
    ASSUME NEW a \in Nat, NEW b \in Nat, NEW c \in Nat, a <= b, b <= c
    PROVE  /\ Interval(a, b) \o Interval(b, c) = Interval(a, c)
           /\ Interval(a, a) = <<>>
           /\ Interval(a, a + 1) = <<a + 1>>
<1>1. b - a \in Nat /\ c - b \in Nat /\ c - a \in Nat /\ c - a = (b - a) + (c - b)
  OBVIOUS
<1>2. /\ Interval(a, b) \in Seq(Nat) /\ Len(Interval(a, b)) = b - a
      /\ Interval(b, c) \in Seq(Nat) /\ Len(Interval(b, c)) = c - b
      /\ Interval(a, c) \in Seq(Nat) /\ Len(Interval(a, c)) = c - a
  BY <1>1 DEF Interval
<1> DEFINE s == Interval(a, b)
           t == Interval(b, c)
<1>3. /\ s \o t \in Seq(Nat) /\ Len(s \o t) = c - a
      /\ \A i \in 1 .. c - a : (s \o t)[i] = IF i <= b - a THEN s[i] ELSE t[i - (b - a)]
  <2> HIDE DEF s, t
  <2>1. s \in Seq(Nat) /\ Len(s) = b - a /\ t \in Seq(Nat) /\ Len(t) = c - b
    BY <1>2 DEF s, t
  <2>2. /\ s \o t \in Seq(Nat) /\ Len(s \o t) = Len(s) + Len(t)
        /\ \A i \in 1 .. Len(s) + Len(t) :
             (s \o t)[i] = IF i <= Len(s) THEN s[i] ELSE t[i - Len(s)]
    BY <2>1, ConcatProperties
  <2> QED
    BY <1>1, <2>1, <2>2
<1>4. ASSUME NEW i \in 1 .. c - a PROVE (s \o t)[i] = Interval(a, c)[i]
  <2>1. CASE i <= b - a
    <3>1. i \in 1 .. b - a
      BY <1>1, <2>1
    <3> QED
      BY <1>3, <2>1, <3>1 DEF Interval
  <2>2. CASE ~(i <= b - a)
    <3>1. i - (b - a) \in 1 .. c - b
      BY <1>1, <2>2
    <3>2. t[i - (b - a)] = b + (i - (b - a))
      BY <3>1 DEF Interval
    <3>3. b + (i - (b - a)) = a + i
      BY <1>1
    <3> QED
      BY <1>3, <2>2, <3>2, <3>3 DEF Interval
  <2> QED
    BY <2>1, <2>2
<1>5. s \o t = Interval(a, c)
  <2> DEFINE u == s \o t
             v == Interval(a, c)
  <2>1. u \in Seq(Nat) /\ v \in Seq(Nat) /\ Len(u) = Len(v) /\ \A i \in 1 .. Len(u) : u[i] = v[i]
    BY <1>2, <1>3, <1>4
  <2> HIDE DEF u, v
  <2>2. u = v
    BY <2>1, SeqEqual
  <2> QED
    BY <2>2 DEF u, v
<1>6. Interval(a, a) = <<>>
  BY DEF Interval
<1>7. Interval(a, a + 1) = <<a + 1>>
  <2>1. (a + 1) - a = 1
    OBVIOUS
  <2> QED
    BY <2>1 DEF Interval
<1> QED
  BY <1>5, <1>6, <1>7

\* Flattening intervals that follow each other makes one of them.
LEMMA FlattenIntervals ==
    ASSUME NEW n \in Nat, NEW ends \in [0 .. n -> Nat],
           \A i \in 1 .. n : ends[i - 1] <= ends[i],
           NEW seqs, seqs = [i \in 1 .. n |-> Interval(ends[i - 1], ends[i])]
    PROVE  /\ FlattenSeq(seqs) = Interval(ends[0], ends[n])
           /\ ends[0] <= ends[n]
<1>1. Len(seqs) = n /\ \A i \in 1 .. n : seqs[i] = Interval(ends[i - 1], ends[i])
  OBVIOUS
<1>2. \A i \in 0 .. n : ends[i] \in Nat /\ ends[0] <= ends[i]
  <2> DEFINE Bad == {i \in 0 .. n : ~(ends[0] <= ends[i])}
  <2>1. SUFFICES ASSUME Bad # {} PROVE FALSE
    OBVIOUS
  <2>2. PICK i \in Bad : \A o \in Bad : i <= o
    <3>1. Bad \in SUBSET Nat
      OBVIOUS
    <3> HIDE DEF Bad
    <3> QED
      BY <2>1, <3>1, LeastNumber
  <2>3. i \in 0 .. n /\ i # 0 /\ ~(ends[0] <= ends[i]) /\ ends[0] \in Nat /\ ends[i] \in Nat
    OBVIOUS
  <2>4. i - 1 \in 0 .. n /\ i \in 1 .. n /\ ~(i <= i - 1)
    BY <2>3
  <2>5. ends[0] <= ends[i - 1] /\ ends[i - 1] \in Nat
    BY <2>2, <2>4
  <2> QED
    BY <2>3, <2>4, <2>5
<1>3. CASE n = 0
  <2>1. FlattenSeq(seqs) = seqs /\ seqs = <<>>
    BY <1>1, <1>3 DEF FlattenSeq
  <2> QED
    BY <1>2, <1>3, <2>1, IntervalsJoin
<1>4. CASE n # 0
  <2> DEFINE Rec(f) == f = [i \in 1 .. n |-> IF i = 1 THEN seqs[i] ELSE f[i - 1] \o seqs[i]]
             g == [i \in 1 .. n |-> Interval(ends[0], ends[i])]
             flatten == CHOOSE f : Rec(f)
  <2>1. ASSUME NEW i \in 1 .. n
        PROVE  g[i] = IF i = 1 THEN seqs[i] ELSE g[i - 1] \o seqs[i]
    <3>1. CASE i = 1
      BY <1>1, <3>1
    <3>2. CASE i # 1
      <4>1. i - 1 \in 1 .. n /\ i - 1 \in 0 .. n /\ i \in 0 .. n
        BY <3>2
      <4>2. g[i - 1] = Interval(ends[0], ends[i - 1]) /\ g[i] = Interval(ends[0], ends[i])
        BY <4>1
      <4>3. /\ ends[0] \in Nat /\ ends[i - 1] \in Nat /\ ends[i] \in Nat
            /\ ends[0] <= ends[i - 1] /\ ends[i - 1] <= ends[i]
        BY <1>2, <4>1
      <4>4. Interval(ends[0], ends[i - 1]) \o Interval(ends[i - 1], ends[i])
              = Interval(ends[0], ends[i])
        BY <4>3, IntervalsJoin
      <4> HIDE DEF g
      <4> QED
        BY <1>1, <3>2, <4>2, <4>4
    <3> QED
      BY <3>1, <3>2
  <2>2. Rec(g)
    <3>1. g = [i \in 1 .. n |-> g[i]]
      OBVIOUS
    <3> HIDE DEF g
    <3> QED
      BY <2>1, <3>1
  <2>3. Rec(flatten)
    <3> HIDE DEF g
    <3>1. \E f : Rec(f)
      BY <2>2
    <3> HIDE DEF Rec
    <3> QED
      BY <3>1
  <2>4. FlattenSeq(seqs) = flatten[n]
    BY <1>1, <1>4 DEF FlattenSeq
  <2> HIDE DEF flatten, g
  <2>5. \A i \in 1 .. n : flatten[i] = g[i]
    <3> DEFINE Bad == {i \in 1 .. n : flatten[i] # g[i]}
    <3>1. SUFFICES ASSUME Bad # {} PROVE FALSE
      OBVIOUS
    <3>2. PICK i \in Bad : \A o \in Bad : i <= o
      <4>1. Bad \in SUBSET Nat
        OBVIOUS
      <4> HIDE DEF Bad
      <4> QED
        BY <3>1, <4>1, LeastNumber
    <3>3. flatten[i] = (IF i = 1 THEN seqs[i] ELSE flatten[i - 1] \o seqs[i])
          /\ i \in 1 .. n /\ flatten[i] # g[i]
      BY <2>3
    <3>4. i # 1
      BY <2>1, <3>3
    <3>5. i - 1 \in 1 .. n /\ ~(i <= i - 1)
      BY <3>3, <3>4
    <3>6. flatten[i - 1] = g[i - 1]
      BY <3>2, <3>5
    <3> QED
      BY <2>1, <3>3, <3>4, <3>6
  <2>6. n \in 1 .. n /\ n \in 0 .. n
    BY <1>4
  <2> QED
    BY <1>2, <2>4, <2>5, <2>6 DEF g
<1> QED
  BY <1>3, <1>4
\* The last node below p, for last[n] the last node below each attached n.
EndsAt(in, last, p) == IF in[p] = <<>> THEN p ELSE last[in[p][Len(in[p])]]

\* The subtrees are runs of the input: a node comes right after its parent, or
\* after the last node below its elder sibling.
Runs(last, N, in) ==
    /\ last \in [1 .. N -> Nat] /\ \A n \in 1 .. N : n <= last[n]
    /\ \A p \in 0 .. N : \A k \in 1 .. Len(in[p]) :
         /\ in[p][k] = 1 + IF k = 1 THEN p ELSE last[in[p][k - 1]]
         /\ last[in[p][k]] = EndsAt(in, last, in[p][k])

\* So do the open scopes, and the node to be placed next.
SpansIn(last, h, in, s, nx) ==
    /\ Runs(last, Len(h), in)
    /\ \A k \in 1 .. Len(s) : s[k].id = 1 + EndsAt(in, last, ParentIn(s, k))
    /\ nx = 1 + EndsAt(in, last, ParentIn(s, Len(s) + 1))

Spans == \E last : SpansIn(last, heights, inner, stack, next)

\* A node has one caller.
LEMMA OneCaller ==
    ASSUME NEW h, NEW n \in Nat, NEW p, NEW q, CallerIs(h, p, n), CallerIs(h, q, n)
    PROVE  p = q
<1>1. \A m \in CallersIn(h, n) : m \in Int
  BY DEF CallersIn
<1> QED
  BY <1>1 DEF CallerIs

\* A node that is attached comes after its parent, and is not open.
LEMMA OpenNotAttached ==
    ASSUME CallInv, NEW q \in 0 .. Len(heights), NEW i \in 1 .. Len(inner[q])
    PROVE  /\ q < inner[q][i]
           /\ \A k \in 1 .. Len(stack) : inner[q][i] # stack[k].id
<1>1. /\ Len(heights) \in Nat
      /\ inner[q] \in Seq(Nodes) /\ inner[q][i] \in Nodes
      /\ CallerIs(heights, q, inner[q][i])
  <2>1. TypeOK
    BY DEF CallInv, PathInv
  <2>2. Len(heights) \in Nat /\ inner[q] \in Seq(Nodes)
    BY <2>1, HeightsType DEF TypeOK
  <2>3. inner[q][i] \in Nodes
    BY <2>2, ElementOfSeq
  <2> QED
    BY <2>2, <2>3 DEF CallInv, Called
<1>2. q < inner[q][i]
  BY <1>1 DEF CallerIs, CallersIn, Nodes
<1>3. ASSUME NEW k \in 1 .. Len(stack), inner[q][i] = stack[k].id
      PROVE  FALSE
  <2>1. CallerIs(heights, ParentAt(k), stack[k].id)
    BY DEF CallInv, Called
  <2>2. stack[k].id \in Nodes
    BY <1>1, <1>3
  <2>3. ParentAt(k) = q
    <3>1. stack[k].id \in Nat
      BY <2>2 DEF Nodes
    <3> QED
      BY <1>1, <1>3, <2>1, <3>1, OneCaller
  <2>4. inner[q][i] < stack[k].id
    BY <2>3 DEF CallInv, PathInv, ChildrenOrdered
  <2> QED
    BY <1>1, <1>3, <2>4 DEF Nodes
<1> QED
  BY <1>2, <1>3

\* The popped node ends where the input stands; so does its parent now.
LEMMA AttachSpans ==
    ASSUME CallInv, Spans, stack # <<>>, Attach, heights' = heights, next' = next
    PROVE  Spans'
<1> DEFINE d    == Len(stack)
           p    == ParentAt(d)
           node == stack[d].id
<1>1. /\ Len(heights) \in Nat /\ next \in Nat
      /\ d \in Nat \ {0} /\ Len(stack') = d - 1
      /\ \A k \in 1 .. d - 1 : stack'[k].id = stack[k].id /\ ParentIn(stack', k) = ParentAt(k)
      /\ \A k \in 1 .. d : stack[k].id \in Nodes /\ ParentAt(k) \in 0 .. Len(heights)
      /\ \A q \in 0 .. Len(heights) : inner[q] \in Seq(Nodes)
      /\ inner' \in [0 .. Len(heights) -> Seq(Nodes)]
      /\ inner'[p] = Append(inner[p], node)
      /\ \A q \in 0 .. Len(heights) : q # p => inner'[q] = inner[q]
  BY Attached DEF CallInv
<1>2. /\ d \in 1 .. d /\ \A k \in 1 .. d - 1 : k \in 1 .. d /\ k # d
      /\ (d - 1) + 1 = d
  BY <1>1
<1>3. p \in 0 .. Len(heights) /\ node \in 1 .. Len(heights) /\ node \in 0 .. Len(heights)
      /\ p < node
  <2>1. p < node
    BY <1>2 DEF CallInv, PathInv, Ordered
  <2> QED
    BY <1>1, <1>2, <2>1 DEF Nodes
<1>4. ParentIn(stack', d) = p
  <2>1. d # 1 => d - 1 \in 1 .. d - 1
    BY <1>1
  <2> QED
    BY <1>1, <2>1 DEF ParentIn, ParentAt
<1>5. ParentIn(stack, d + 1) = node /\ \A k \in 1 .. d : ParentIn(stack, k) = ParentAt(k)
  <2>1. \A k \in 1 .. d : ParentIn(stack, k) = ParentAt(k)
    BY DEF ParentIn, ParentAt
  <2>2. d \in Nat \ {0}
    BY <1>1
  <2> HIDE DEF d
  <2>3. d + 1 # 1 /\ (d + 1) - 1 = d
    BY <2>2
  <2> QED
    BY <2>1, <2>3 DEF ParentIn
<1>6. \A k \in 1 .. d - 1 : ParentAt(k) # p
  BY <1>2, <1>5, DifferentParents DEF CallInv, ParentsDiffer
<1>7. p = 0 \/ \E k \in 1 .. d : p = stack[k].id
  <2>1. d # 1 => d - 1 \in 1 .. d
    BY <1>1
  <2> QED
    BY <2>1 DEF ParentAt
<1>8. ASSUME NEW q \in 0 .. Len(heights), NEW i \in 1 .. Len(inner[q])
      PROVE  /\ inner[q][i] # node /\ inner[q][i] # p /\ q < inner[q][i]
             /\ inner[q][i] \in 1 .. Len(heights)
  <2>1. inner[q][i] \in 1 .. Len(heights)
    <3>1. inner[q] \in Seq(Nodes)
      BY <1>1
    <3> QED
      BY <3>1, ElementOfSeq DEF Nodes
  <2>2. q < inner[q][i] /\ \A k \in 1 .. d : inner[q][i] # stack[k].id
    BY OpenNotAttached
  <2>3. inner[q][i] # node
    BY <1>2, <2>2
  <2>4. inner[q][i] # p
    <3>1. inner[q][i] # 0
      BY <2>1
    <3> HIDE DEF p
    <3> QED
      BY <1>7, <2>2, <3>1
  <2> QED
    BY <2>1, <2>2, <2>3, <2>4
<1>9. PICK last : SpansIn(last, heights, inner, stack, next)
  BY DEF Spans
<1> DEFINE e  == EndsAt(inner, last, node)
           g  == [last EXCEPT ![node] = e]
<1>10. /\ last \in [1 .. Len(heights) -> Nat]
       /\ \A n \in 1 .. Len(heights) : n <= last[n]
       /\ \A q \in 0 .. Len(heights) : \A i \in 1 .. Len(inner[q]) :
            /\ inner[q][i] = 1 + IF i = 1 THEN q ELSE last[inner[q][i - 1]]
            /\ last[inner[q][i]] = EndsAt(inner, last, inner[q][i])
       /\ \A k \in 1 .. d : stack[k].id = 1 + EndsAt(inner, last, ParentAt(k))
       /\ next = 1 + e
  BY <1>5, <1>9 DEF SpansIn, Runs
<1> HIDE DEF d, p, node
<1>11. \A q \in 0 .. Len(heights) : inner[q] # <<>> =>
          Len(inner[q]) \in 1 .. Len(inner[q])
  BY <1>1
<1>12. e \in Nat /\ node <= e
  <2>1. CASE inner[node] = <<>>
    BY <1>3, <2>1 DEF EndsAt
  <2>2. CASE inner[node] # <<>>
    <3>1. Len(inner[node]) \in 1 .. Len(inner[node])
      BY <1>3, <1>11, <2>2
    <3> DEFINE c == inner[node][Len(inner[node])]
    <3>2. c \in 1 .. Len(heights) /\ node < c
      BY <1>3, <1>8, <3>1
    <3>3. e = last[c]
      BY <2>2 DEF EndsAt
    <3> HIDE DEF c, e
    <3>4. last[c] \in Nat /\ c <= last[c]
      BY <1>10, <3>2
    <3> QED
      BY <1>3, <3>2, <3>3, <3>4
  <2> QED
    BY <2>1, <2>2
<1> HIDE DEF e
<1>13. /\ g \in [1 .. Len(heights) -> Nat] /\ \A n \in 1 .. Len(heights) : n <= g[n]
       /\ g[node] = e /\ \A n \in 1 .. Len(heights) : n # node => g[n] = last[n]
  BY <1>3, <1>10, <1>12
<1> HIDE DEF g
\* where nothing is attached, the end is where it was
<1>14. ASSUME NEW q \in 0 .. Len(heights), q # p
       PROVE  EndsAt(inner', g, q) = EndsAt(inner, last, q)
  <2>1. inner'[q] = inner[q]
    BY <1>1, <1>14
  <2>2. CASE inner[q] = <<>>
    BY <2>1, <2>2 DEF EndsAt
  <2>3. CASE inner[q] # <<>>
    <3>1. Len(inner[q]) \in 1 .. Len(inner[q])
      BY <1>11, <2>3
    <3>2. g[inner[q][Len(inner[q])]] = last[inner[q][Len(inner[q])]]
      BY <1>8, <1>13, <3>1
    <3> QED
      BY <2>1, <2>3, <3>2 DEF EndsAt
  <2> QED
    BY <2>2, <2>3
<1>15. /\ Len(inner[p]) \in Nat /\ Len(inner'[p]) = Len(inner[p]) + 1 /\ inner'[p] # <<>>
       /\ inner'[p][Len(inner[p]) + 1] = node
       /\ \A i \in 1 .. Len(inner[p]) : inner'[p][i] = inner[p][i]
  <2>1. inner[p] \in Seq(Nodes) /\ node \in Nodes /\ inner'[p] = Append(inner[p], node)
    BY <1>1, <1>3 DEF Nodes
  <2>2. Len(inner[p]) \in Nat /\ Len(inner'[p]) = Len(inner[p]) + 1
    BY <2>1
  <2>3. inner'[p] # <<>>
    BY <2>2
  <2> QED
    BY <2>1, <2>2, <2>3
<1>16. EndsAt(inner', g, p) = e
  BY <1>13, <1>15 DEF EndsAt
<1>17. EndsAt(inner', g, node) = e
  <2>1. node # p
    BY <1>3
  <2> QED
    BY <1>3, <1>14, <2>1 DEF e
<1>18. ASSUME NEW q \in 0 .. Len(heights), NEW i \in 1 .. Len(inner[q])
       PROVE  /\ inner[q][i] = 1 + IF i = 1 THEN q ELSE g[inner[q][i - 1]]
              /\ g[inner[q][i]] = EndsAt(inner', g, inner[q][i])
  <2>1. i # 1 => i - 1 \in 1 .. Len(inner[q])
    BY <1>1
  <2>2. i # 1 => g[inner[q][i - 1]] = last[inner[q][i - 1]]
    BY <1>8, <1>13, <2>1
  <2>3. g[inner[q][i]] = last[inner[q][i]]
    BY <1>8, <1>13
  <2>4. EndsAt(inner', g, inner[q][i]) = EndsAt(inner, last, inner[q][i])
    <3>1. inner[q][i] \in 0 .. Len(heights) /\ inner[q][i] # p
      BY <1>8
    <3> QED
      BY <1>14, <3>1
  <2> QED
    BY <1>10, <2>2, <2>3, <2>4
<1>19. ASSUME NEW q \in 0 .. Len(heights), NEW i \in 1 .. Len(inner'[q])
       PROVE  /\ inner'[q][i] = 1 + IF i = 1 THEN q ELSE g[inner'[q][i - 1]]
              /\ g[inner'[q][i]] = EndsAt(inner', g, inner'[q][i])
  <2>1. CASE q # p
    BY <1>1, <1>18, <2>1
  <2>2. CASE q = p /\ i # Len(inner[p]) + 1
    <3>1. i \in 1 .. Len(inner[p]) /\ (i # 1 => i - 1 \in 1 .. Len(inner[p]))
      BY <1>15, <2>2
    <3>2. inner'[p][i] = inner[p][i] /\ (i # 1 => inner'[p][i - 1] = inner[p][i - 1])
      BY <1>15, <3>1
    <3> QED
      BY <1>3, <1>18, <2>2, <3>1, <3>2
  <2>3. CASE q = p /\ i = Len(inner[p]) + 1
    <3>1. node = 1 + EndsAt(inner, last, p)
      BY <1>2, <1>10 DEF p, node
    <3>2. EndsAt(inner, last, p) = IF i = 1 THEN p ELSE g[inner'[p][i - 1]]
      <4>1. CASE i = 1
        <5>1. inner[p] = <<>>
          BY <1>1, <1>3, <1>15, <2>3, <4>1
        <5> QED
          BY <4>1, <5>1 DEF EndsAt
      <4>2. CASE i # 1
        <5>1. inner[p] # <<>> /\ i - 1 = Len(inner[p]) /\ i - 1 \in 1 .. Len(inner[p])
          BY <1>1, <1>3, <1>15, <2>3, <4>2
        <5>2. g[inner[p][i - 1]] = last[inner[p][i - 1]] /\ inner'[p][i - 1] = inner[p][i - 1]
          BY <1>3, <1>8, <1>13, <1>15, <5>1
        <5> QED
          BY <4>2, <5>1, <5>2 DEF EndsAt
      <4> QED
        BY <4>1, <4>2
    <3> QED
      BY <1>13, <1>15, <1>17, <2>3, <3>1, <3>2
  <2> QED
    BY <2>1, <2>2, <2>3
<1>20. \A k \in 1 .. Len(stack') : stack'[k].id = 1 + EndsAt(inner', g, ParentIn(stack', k))
  <2> SUFFICES ASSUME NEW k \in 1 .. d - 1
               PROVE  stack'[k].id = 1 + EndsAt(inner', g, ParentIn(stack', k))
    BY <1>1
  <2>1. ParentAt(k) \in 0 .. Len(heights) /\ ParentAt(k) # p /\ k \in 1 .. d
    BY <1>1, <1>2, <1>6
  <2> QED
    BY <1>1, <1>10, <1>14, <2>1
<1>21. next = 1 + EndsAt(inner', g, ParentIn(stack', Len(stack') + 1))
  BY <1>1, <1>2, <1>4, <1>10, <1>16
<1>22. SpansIn(g, heights, inner', stack', next)
  BY <1>13, <1>19, <1>20, <1>21 DEF SpansIn, Runs
<1> QED
  BY <1>22 DEF Spans
\* A node is opened right after the last node below the scope it is opened in,
\* and is the last node below itself.
LEMMA OpenSpans ==
    ASSUME CallInv, Spans, OpenScope
    PROVE  Spans'
<1> DEFINE d == Len(stack)
<1>1. /\ next \in Nat \ {0} /\ next' = next + 1 /\ heights' = heights /\ inner' = inner
      /\ next \in Nodes /\ Len(heights) \in Nat /\ d \in Nat /\ Len(stack') = d + 1
      /\ \A k \in 1 .. d : stack'[k] = stack[k] /\ ParentIn(stack', k) = ParentAt(k)
      /\ stack'[d + 1].id = next /\ ParentIn(stack', d + 1) = Top
  BY Opened DEF CallInv
<1>2. \A k \in 1 .. d : ParentIn(stack, k) = ParentAt(k)
  BY DEF ParentIn, ParentAt
<1>3. ParentIn(stack, d + 1) = Top
  <2>1. d = 0 <=> stack = <<>>
    BY DEF CallInv, PathInv, TypeOK
  <2>2. d \in Nat
    BY <1>1
  <2> HIDE DEF d
  <2>3. (d + 1) - 1 = d /\ (d + 1 = 1 <=> d = 0)
    BY <2>2
  <2> QED
    BY <2>1, <2>3 DEF Top, ParentIn, d
<1>4. ParentIn(stack', (d + 1) + 1) = next
  <2>1. d \in Nat
    BY <1>1
  <2> HIDE DEF d
  <2>2. (d + 1) + 1 # 1 /\ ((d + 1) + 1) - 1 = d + 1
    BY <2>1
  <2> QED
    BY <1>1, <2>2 DEF ParentIn
<1>5. PICK last : SpansIn(last, heights, inner, stack, next)
  BY DEF Spans
<1>6. inner[next] = <<>>
  BY <1>1 DEF CallInv, PathInv, Fresh, Nodes
<1>7. EndsAt(inner, last, next) = next
  BY <1>6 DEF EndsAt
<1>8. \A k \in 1 .. d + 1 : k \in 1 .. d \/ k = d + 1
  BY <1>1
<1>9. next = 1 + EndsAt(inner, last, Top)
  BY <1>3, <1>5 DEF SpansIn, Runs
<1>10. \A k \in 1 .. d : stack[k].id = 1 + EndsAt(inner, last, ParentAt(k))
  BY <1>2, <1>5 DEF SpansIn, Runs
<1> HIDE DEF d
<1>11. \A k \in 1 .. d + 1 : stack'[k].id = 1 + EndsAt(inner, last, ParentIn(stack', k))
  BY <1>1, <1>8, <1>9, <1>10
<1>12. next + 1 = 1 + EndsAt(inner, last, ParentIn(stack', (d + 1) + 1))
  BY <1>1, <1>4, <1>7
<1>13. SpansIn(last, heights, inner, stack', next + 1)
  BY <1>1, <1>5, <1>11, <1>12 DEF SpansIn, Runs
<1> QED
  BY <1>1, <1>13 DEF Spans

\* The root ends where the input starts.
LEMMA InitSpans == Init => Spans
<1> SUFFICES ASSUME Init PROVE Spans
  OBVIOUS
<1> DEFINE last == [n \in 1 .. Len(heights) |-> n]
<1>1. /\ Len(heights) \in Nat /\ Len(stack) = 0 /\ next = 1
      /\ \A p \in 0 .. Len(heights) : inner[p] = <<>> /\ Len(inner[p]) = 0
  BY HeightsType, HeightAssumption DEF Init
<1>2. last \in [1 .. Len(heights) -> Nat] /\ \A n \in 1 .. Len(heights) : n <= last[n]
  BY <1>1
<1> HIDE DEF last
<1>3. next = 1 + EndsAt(inner, last, ParentIn(stack, Len(stack) + 1))
  BY <1>1 DEF EndsAt, ParentIn
<1>4. SpansIn(last, heights, inner, stack, next)
  BY <1>1, <1>2, <1>3 DEF SpansIn, Runs
<1> QED
  BY <1>4 DEF Spans

\* One step of the loops keeps the subtrees runs of the input.
LEMMA StepSpans == CallInv /\ Spans /\ [Next]_vars => Spans'
<1> SUFFICES ASSUME CallInv, Spans, [Next]_vars PROVE Spans'
  OBVIOUS
<1>1. CASE CloseScope
  BY <1>1, AttachSpans DEF CloseScope
<1>2. CASE OpenScope
  BY <1>2, OpenSpans
<1>3. CASE Drain
  BY <1>3, AttachSpans DEF Drain
<1>4. CASE UNCHANGED <<heights, next, stack, inner>>
  BY <1>4 DEF Spans
<1> QED
  BY <1>1, <1>2, <1>3, <1>4 DEF Next, StartDrain, Return, Terminated, vars

\* below[p] of Flat, when the nodes below p are the inputs after it.
LEMMA SubtreeIsInterval ==
    ASSUME NEW N \in Nat, NEW in \in [0 .. N -> Seq(1 .. N)],
           NEW last, Runs(last, N, in), NEW p \in 0 .. N, NEW below,
           \A k \in 1 .. Len(in[p]) :
             below[in[p][k]] = Interval(in[p][k], EndsAt(in, last, in[p][k]))
    PROVE  FlattenSeq([k \in 1 .. Len(in[p]) |-> <<in[p][k]>> \o below[in[p][k]]])
             = Interval(p, EndsAt(in, last, p))
<1> DEFINE len   == Len(in[p])
           c(k)  == in[p][k]
           ends  == [i \in 0 .. len |-> IF i = 0 THEN p ELSE last[c(i)]]
           seqs  == [k \in 1 .. len |-> <<c(k)>> \o below[c(k)]]
<1>1. len \in Nat /\ \A k \in 1 .. len : c(k) \in 1 .. N
  <2>1. in[p] \in Seq(1 .. N)
    OBVIOUS
  <2> QED
    BY <2>1
<1>2. \A k \in 1 .. len : /\ c(k) = 1 + IF k = 1 THEN p ELSE last[c(k - 1)]
                          /\ last[c(k)] = EndsAt(in, last, c(k))
                          /\ below[c(k)] = Interval(c(k), EndsAt(in, last, c(k)))
  BY DEF Runs
<1>3. EndsAt(in, last, p) = IF len = 0 THEN p ELSE last[c(len)]
  <2>1. in[p] = <<>> <=> len = 0
    <3>1. in[p] \in Seq(1 .. N)
      OBVIOUS
    <3> QED
      BY <3>1
  <2> QED
    BY <2>1 DEF EndsAt
<1> HIDE DEF len, c
<1>4. ends \in [0 .. len -> Nat]
  BY <1>1 DEF Runs
<1>5. ASSUME NEW k \in 1 .. len
      PROVE  /\ ends[k - 1] <= ends[k]
             /\ seqs[k] = Interval(ends[k - 1], ends[k])
  <2>1. /\ k - 1 \in 0 .. len /\ k \in 0 .. len /\ k # 0 /\ (k = 1 <=> k - 1 = 0)
    BY <1>1
  <2>2. c(k) = 1 + ends[k - 1] /\ ends[k] = last[c(k)] /\ ends[k - 1] \in Nat
    BY <1>2, <1>4, <2>1
  <2>3. c(k) \in 1 .. N /\ last[c(k)] \in Nat /\ c(k) <= last[c(k)]
    BY <1>1 DEF Runs
  <2>4. seqs[k] = <<c(k)>> \o Interval(c(k), last[c(k)])
    BY <1>2
  <2> HIDE DEF ends, seqs
  <2>5. c(k) = ends[k - 1] + 1 /\ ends[k - 1] <= c(k) /\ c(k) \in Nat
        /\ ends[k - 1] <= ends[k] /\ ends[k] \in Nat /\ c(k) <= ends[k]
    BY <2>2, <2>3
  <2>6. Interval(ends[k - 1], c(k)) = <<c(k)>>
    BY <2>2, <2>5, IntervalsJoin
  <2>7. Interval(ends[k - 1], c(k)) \o Interval(c(k), ends[k]) = Interval(ends[k - 1], ends[k])
    BY <2>2, <2>5, IntervalsJoin
  <2> QED
    BY <2>2, <2>4, <2>5, <2>6, <2>7
<1>6. seqs = [k \in 1 .. len |-> Interval(ends[k - 1], ends[k])]
  <2>1. seqs = [k \in 1 .. len |-> seqs[k]]
    OBVIOUS
  <2> HIDE DEF seqs, ends
  <2> QED
    BY <1>5, <2>1
<1>7. ends[0] = p /\ ends[len] = EndsAt(in, last, p)
  BY <1>1, <1>3
<1>8. FlattenSeq(seqs) = Interval(ends[0], ends[len])
  <2> HIDE DEF seqs, ends
  <2> QED
    BY <1>1, <1>4, <1>5, <1>6, FlattenIntervals
<1>9. FlattenSeq(seqs) = Interval(p, EndsAt(in, last, p))
  BY <1>7, <1>8
<1> QED
  BY <1>9 DEF len, c

\* Flat, for any tree.
FlatIn(N, in) ==
    LET below[p \in 0 .. N] ==
          FlattenSeq([k \in 1 .. Len(in[p]) |-> <<in[p][k]>> \o below[in[p][k]]])
    IN  below[0]

\* A tree whose subtrees are runs of the input is flattened to a run.
LEMMA FlatIsInterval ==
    ASSUME NEW N \in Nat, NEW in \in [0 .. N -> Seq(1 .. N)],
           NEW last, Runs(last, N, in),
           \A p \in 0 .. N : \A k \in 1 .. Len(in[p]) : p < in[p][k]
    PROVE  FlatIn(N, in) = Interval(0, EndsAt(in, last, 0))
<1> DEFINE Level(f, p) == FlattenSeq([k \in 1 .. Len(in[p]) |-> <<in[p][k]>> \o f[in[p][k]]])
           Rec(f) == f = [p \in 0 .. N |-> Level(f, p)]
           run == [p \in 0 .. N |-> Interval(p, EndsAt(in, last, p))]
           below == CHOOSE f : Rec(f)
<1>1. \A p \in 0 .. N : \A k \in 1 .. Len(in[p]) : in[p][k] \in 0 .. N
  <2>1. \A p \in 0 .. N : in[p] \in Seq(1 .. N)
    OBVIOUS
  <2> QED
    BY <2>1
<1>2. ASSUME NEW p \in 0 .. N, NEW f,
             \A k \in 1 .. Len(in[p]) : f[in[p][k]] = run[in[p][k]]
      PROVE  Level(f, p) = run[p]
  <2>1. \A k \in 1 .. Len(in[p]) :
          f[in[p][k]] = Interval(in[p][k], EndsAt(in, last, in[p][k]))
    BY <1>1, <1>2
  <2>2. FlattenSeq([k \in 1 .. Len(in[p]) |-> <<in[p][k]>> \o f[in[p][k]]])
          = Interval(p, EndsAt(in, last, p))
    BY <2>1, SubtreeIsInterval
  <2> QED
    BY <2>2
<1> HIDE DEF Level
<1>3. Rec(run)
  <2>1. run = [p \in 0 .. N |-> run[p]]
    OBVIOUS
  <2>2. \A p \in 0 .. N : Level(run, p) = run[p]
    BY <1>2
  <2> HIDE DEF run
  <2> QED
    BY <2>1, <2>2
<1>4. Rec(below)
  <2> HIDE DEF run
  <2>1. \E f : Rec(f)
    BY <1>3
  <2> HIDE DEF Rec
  <2> QED
    BY <2>1
<1>5. FlatIn(N, in) = below[0]
  BY DEF FlatIn, Level
<1> HIDE DEF run, below
<1>6. \A p \in 0 .. N : below[p] = run[p]
  <2> DEFINE Bad == {p \in 0 .. N : below[p] # run[p]}
  <2>1. SUFFICES ASSUME Bad # {} PROVE FALSE
    OBVIOUS
  <2>2. PICK p \in Bad : \A o \in Bad : o <= p
    <3>1. Bad \in SUBSET (0 .. N)
      OBVIOUS
    <3> HIDE DEF Bad
    <3> QED
      BY <2>1, <3>1, LargestNumber
  <2>3. p \in 0 .. N /\ below[p] # run[p]
    OBVIOUS
  <2>4. ASSUME NEW k \in 1 .. Len(in[p]) PROVE below[in[p][k]] = run[in[p][k]]
    <3>1. in[p][k] \in 0 .. N /\ p < in[p][k]
      BY <1>1, <2>3
    <3>2. ~(in[p][k] <= p)
      BY <2>3, <3>1
    <3> QED
      BY <2>2, <3>1, <3>2
  <2>5. Level(below, p) = run[p]
    BY <1>2, <2>3, <2>4
  <2>6. below[p] = Level(below, p)
    BY <1>4, <2>3
  <2> QED
    BY <2>3, <2>5, <2>6
<1> QED
  BY <1>5, <1>6 DEF run

\* Whatever heights the node reports, the flattened tree is the list of inner
\* instructions as they ran: none is lost, duplicated or moved.
THEOREM FlatteningRestoresOrder == Spec => []FlatIsInputOrder
<1>1. CallInv /\ Spans => FlatIsInputOrder
  <2> SUFFICES ASSUME CallInv, Spans, Done PROVE Flat = [n \in Nodes |-> n]
    BY DEF FlatIsInputOrder
  <2>1. TypeOK
    BY DEF CallInv, PathInv
  <2>2. stack = <<>> /\ next = Len(heights) + 1 /\ Len(heights) \in Nat
        /\ inner \in [0 .. Len(heights) -> Seq(1 .. Len(heights))]
    BY <2>1, HeightsType DEF CallInv, TypeOK, Ending, Done, Nodes
  <2>3. PICK last : SpansIn(last, heights, inner, stack, next)
    BY DEF Spans
  <2>4. /\ Runs(last, Len(heights), inner)
        /\ \A p \in 0 .. Len(heights) : \A k \in 1 .. Len(inner[p]) : p < inner[p][k]
    BY <2>3, OpenNotAttached DEF SpansIn
  <2>5. EndsAt(inner, last, 0) = Len(heights)
    <3>1. next = 1 + EndsAt(inner, last, 0)
      BY <2>2, <2>3 DEF SpansIn, Runs, ParentIn
    <3>2. EndsAt(inner, last, 0) \in Nat
      <4>1. CASE inner[0] = <<>>
        BY <4>1 DEF EndsAt
      <4>2. CASE inner[0] # <<>>
        <5>1. inner[0] \in Seq(1 .. Len(heights))
          BY <2>2
        <5>2. inner[0][Len(inner[0])] \in 1 .. Len(heights)
          BY <4>2, <5>1
        <5> QED
          BY <2>4, <4>2, <5>2 DEF EndsAt, Runs
      <4> QED
        BY <4>1, <4>2
    <3> QED
      BY <2>2, <3>1, <3>2
  <2>6. FlatIn(Len(heights), inner) = Interval(0, Len(heights))
    <3>1. FlatIn(Len(heights), inner) = Interval(0, EndsAt(inner, last, 0))
      BY <2>2, <2>4, FlatIsInterval, Zenon
    <3> QED
      BY <2>5, <3>1
  <2>7. Flat = FlatIn(Len(heights), inner)
    BY DEF Flat, FlatIn
  <2>8. Interval(0, Len(heights)) = [n \in Nodes |-> n]
    BY <2>2 DEF Interval, Nodes
  <2> QED
    BY <2>6, <2>7, <2>8
<1> QED
  BY <1>1, InitCallInv, StepCallInv, InitSpans, StepSpans, PTL DEF Spec

--------------------------------------------------------------------------------
(* TxLogs: the inductive invariant behind AnswersAgree *)

\* What a parser is told while there are no logs to read.
Unreadable(kind) == Error(IF kind = Missing THEN "NoLogs" ELSE "Parse")

\* an answer about messages of this kind
Fits(kind, a) ==
    IF kind = Readable THEN ~a.ok => a.error = "FailedIxTrace" ELSE a = Unreadable(kind)

\* The messages do not change once a parser has asked, and the cell holds
\* nothing that was not read from them.
LogInv ==
    /\ answers \in Seq(Elements(answers))
    /\ roots = NoTx => ~parsed.loaded /\ answers = <<>>
    /\ parsed.loaded => messages.kind = Readable
    /\ \A n \in DOMAIN answers : Fits(messages.kind, answers[n])

LEMMA InitLogInv == LogInit => LogInv
BY DEF LogInit, LogInv, Elements, Empty

\* A fitting answer keeps the invariant, if the cell is filled from readable logs.
LEMMA AnswerLogInv ==
    ASSUME LogInv, NEW STATE a, Answer(a), Fits(messages.kind, a), Asking,
           parsed'.loaded => messages.kind = Readable
    PROVE  LogInv'
<1>1. answers' = Append(answers, a) /\ messages' = messages /\ roots' = roots /\ roots # NoTx
  BY DEF Answer, Asking
<1>2. answers \in Seq(Elements(answers))
  BY DEF LogInv
<1>3. /\ answers' \in Seq(Elements(answers'))
      /\ DOMAIN answers' = DOMAIN answers \cup {Len(answers) + 1}
      /\ \A n \in DOMAIN answers : answers'[n] = answers[n]
      /\ answers'[Len(answers) + 1] = a
  BY <1>1, <1>2, AppendedElements
<1>4. \A n \in DOMAIN answers' : Fits(messages.kind, answers'[n])
  BY <1>3 DEF LogInv
<1>5. \A n \in DOMAIN answers' : Fits(messages'.kind, answers'[n])
  BY <1>1, <1>4
<1> QED
  BY <1>1, <1>3, <1>5 DEF LogInv

\* A lookup in a filled cell fails in one way only.
LEMMA GetFits ==
    ASSUME NEW tree, messages.kind = Readable
    PROVE  Fits(messages.kind, Get(tree))
BY DEF Fits, Get, Error, LogsOf

LEMMA StepLogInv == LogInv /\ [LogNext]_allVars => LogInv'
<1> SUFFICES ASSUME LogInv, [LogNext]_allVars PROVE LogInv'
  OBVIOUS
<1>1. CASE UNCHANGED logVars
  BY <1>1 DEF LogInv, logVars
<1>2. CASE BuildStack
  BY <1>1, <1>2 DEF BuildStack
<1>3. CASE NewTxLogs
  <2>1. answers' = answers /\ parsed' = parsed /\ answers = <<>> /\ ~parsed.loaded
    BY <1>3 DEF NewTxLogs, LogInv
  <2> QED
    BY <2>1 DEF LogInv, Elements
<1>4. CASE FailToLoad
  <2>1. Answer(Unreadable(messages.kind)) /\ Asking /\ messages.kind # Readable /\ parsed' = parsed
    BY <1>4 DEF FailToLoad, Unreadable
  <2>2. Fits(messages.kind, Unreadable(messages.kind)) /\ ~parsed'.loaded
    BY <2>1 DEF Fits, LogInv
  <2> QED
    BY <2>1, <2>2, AnswerLogInv
<1>5. CASE LoadLogs
  <2>1. PICK tree : Answer(Get(tree))
    BY <1>5 DEF LoadLogs
  <2>2. Asking /\ messages.kind = Readable
    BY <1>5 DEF LoadLogs
  <2> QED
    BY <2>1, <2>2, GetFits, AnswerLogInv
<1>6. CASE GetLogs
  <2>1. Answer(Get(parsed.tree)) /\ Asking /\ parsed' = parsed /\ messages.kind = Readable
    BY <1>6 DEF GetLogs, LogInv
  <2> QED
    BY <2>1, GetFits, AnswerLogInv
<1> QED
  BY <1>1, <1>2, <1>3, <1>4, <1>5, <1>6 DEF LogNext, allVars

LEMMA LogInvAgrees == LogInv => AnswersAgree
<1> SUFFICES ASSUME LogInv, NEW m \in DOMAIN answers, NEW n \in DOMAIN answers,
                    ~answers[m].ok, answers[m].error \in {"NoLogs", "Parse"}
             PROVE  answers[n] = answers[m]
  BY DEF AnswersAgree
<1>1. Fits(messages.kind, answers[m]) /\ Fits(messages.kind, answers[n])
  BY DEF LogInv
<1>2. messages.kind # Readable
  BY <1>1 DEF Fits
<1> QED
  BY <1>1, <1>2 DEF Fits

\* However many parsers ask and in whatever order, if one is told that the
\* transaction has no logs, or that they do not parse, all are told the same:
\* load_logs (util/logs.rs) leaves the cell empty when it fails.
THEOREM AnswersAlike == LogSpec => []AnswersAgree
<1>1. LogSpec => []LogInv
  BY InitLogInv, StepLogInv, PTL DEF LogSpec
<1> QED
  BY <1>1, LogInvAgrees, PTL

--------------------------------------------------------------------------------
(* Finding a call among its siblings *)

Pairs == Nat \X Nat

\* As many values as numbers, when no two are the same.
LEMMA ImageSize ==
    ASSUME NEW k \in Nat, NEW f, \A i, j \in 1 .. k : f[i] = f[j] => i = j,
           NEW T, T = {f[i] : i \in 1 .. k}
    PROVE  IsFiniteSet(T) /\ Cardinality(T) = k
<1> DEFINE g == [i \in 1 .. k |-> f[i]]
<1>1. IsFiniteSet(1 .. k) /\ Cardinality(1 .. k) = k
  BY FS_Interval
<1>2. g \in Bijection(1 .. k, T)
  BY DEF Bijection, Injection, Surjection, IsInjective
<1>3. ExistsBijection(1 .. k, T)
  BY <1>2 DEF ExistsBijection
<1> QED
  BY <1>1, <1>3, FS_Bijection

\* The calls of S before c.
Earlier(S, c) == {d \in S : Before(d, c)}

\* A call has all the calls before an earlier one before it, and that one too.
LEMMA EarlierHasFewer ==
    ASSUME NEW S \in SUBSET Pairs, IsFiniteSet(S), NEW c \in S, NEW d \in S, Before(c, d)
    PROVE  Cardinality(Earlier(S, c)) < Cardinality(Earlier(S, d))
<1>1. /\ Earlier(S, d) \in SUBSET S /\ Earlier(S, c) \in SUBSET Earlier(S, d)
      /\ c \in Earlier(S, d) /\ c \notin Earlier(S, c)
  <2>1. \A x, y, z \in Pairs : /\ ~Before(x, x)
                               /\ Before(x, y) /\ Before(y, z) => Before(x, z)
    BY DEF Pairs, Before
  <2> QED
    BY <2>1 DEF Earlier
<1>2. IsFiniteSet(Earlier(S, d))
  BY <1>1, FS_Subset
<1>3. /\ IsFiniteSet(Earlier(S, c))
      /\ Cardinality(Earlier(S, c)) <= Cardinality(Earlier(S, d))
      /\ Cardinality(Earlier(S, c)) # Cardinality(Earlier(S, d))
  BY <1>1, <1>2, FS_Subset
<1>4. Cardinality(Earlier(S, c)) \in Nat /\ Cardinality(Earlier(S, d)) \in Nat
  BY <1>2, <1>3, FS_CardinalityType
<1> QED
  BY <1>3, <1>4

\* The call after the first k of S is the k-th, counted from zero.
LEMMA NthFound ==
    ASSUME NEW S \in SUBSET Pairs, IsFiniteSet(S), NEW k \in Nat,
           NEW f, \A i \in 1 .. k + 1 : f[i] \in S,
           \A i, j \in 1 .. k + 1 : i < j => Before(f[i], f[j]),
           \A c \in S : Before(c, f[k + 1]) => \E i \in 1 .. k : c = f[i]
    PROVE  Nth(S, k) = f[k + 1]
<1> DEFINE at == {c \in S : Cardinality({d \in S : Before(d, c)}) = k}
<1>1. Earlier(S, f[k + 1]) = {f[i] : i \in 1 .. k}
  BY DEF Earlier
<1>2. \A i, j \in 1 .. k : f[i] = f[j] => i = j
  <2>1. \A x \in Pairs : ~Before(x, x)
    BY DEF Pairs, Before
  <2> QED
    BY <2>1
<1>3. Cardinality(Earlier(S, f[k + 1])) = k
  <2> DEFINE T == Earlier(S, f[k + 1])
  <2> HIDE DEF at
  <2>1. T = {f[i] : i \in 1 .. k}
    BY <1>1
  <2> HIDE DEF T
  <2>2. Cardinality(T) = k
    BY <1>2, <2>1, ImageSize
  <2> QED
    BY <2>2 DEF T
<1>4. f[k + 1] \in at
  BY <1>3 DEF Earlier
<1>5. ASSUME NEW c \in at PROVE c = f[k + 1]
  <2>1. c \in S /\ f[k + 1] \in S /\ Cardinality(Earlier(S, c)) = k
    BY DEF Earlier
  <2>2. ~Before(c, f[k + 1]) /\ ~Before(f[k + 1], c)
    BY <1>3, <2>1, EarlierHasFewer
  <2>3. \A x, y \in Pairs : x = y \/ Before(x, y) \/ Before(y, x)
    BY DEF Pairs, Before
  <2> QED
    BY <2>1, <2>2, <2>3
<1>6. Nth(S, k) = IF at = {} THEN NoCall ELSE CHOOSE c \in at : TRUE
  BY DEF Nth
<1> HIDE DEF at
<1> QED
  BY <1>4, <1>5, <1>6

\* Among no more than k calls there is no k-th.
LEMMA NthNone ==
    ASSUME NEW S \in SUBSET Pairs, IsFiniteSet(S), NEW k \in Nat, Cardinality(S) <= k
    PROVE  Nth(S, k) = NoCall
<1> SUFFICES ASSUME NEW c \in S PROVE Cardinality(Earlier(S, c)) # k
  BY DEF Nth, Earlier
<1>1. Earlier(S, c) \in SUBSET S /\ c \notin Earlier(S, c)
  BY DEF Earlier, Before, Pairs
<1>2. /\ IsFiniteSet(Earlier(S, c))
      /\ Cardinality(Earlier(S, c)) <= Cardinality(S)
      /\ Cardinality(Earlier(S, c)) # Cardinality(S)
  BY <1>1, FS_Subset
<1>3. Cardinality(Earlier(S, c)) \in Nat /\ Cardinality(S) \in Nat
  BY <1>2, FS_CardinalityType
<1> QED
  BY <1>2, <1>3

\* Nor among the calls of a list of k.
LEMMA NthOfFew ==
    ASSUME NEW S \in SUBSET Pairs, NEW k \in Nat,
           NEW f, \A i, j \in 1 .. k : f[i] = f[j] => i = j,
           \A c \in S : \E i \in 1 .. k : c = f[i]
    PROVE  Nth(S, k) = NoCall
<1> DEFINE T == {f[i] : i \in 1 .. k}
<1>1. S \in SUBSET T /\ T = {f[i] : i \in 1 .. k}
  OBVIOUS
<1> HIDE DEF T
<1>2. IsFiniteSet(T) /\ Cardinality(T) = k
  BY <1>1, ImageSize
<1>3. IsFiniteSet(S) /\ Cardinality(S) <= k
  BY <1>1, <1>2, FS_Subset
<1> QED
  BY <1>3, NthNone

\* Whatever is found is one of the calls.
LEMMA NthIsThere == \A S, k : Nth(S, k) = NoCall \/ Nth(S, k) \in S
BY DEF Nth

--------------------------------------------------------------------------------
(* trace_ix_call, one element of the path at a time *)

\* The walk along a path.
IsWalk(walk, tree, route) ==
    walk = [j \in 1 .. Len(route) |->
              IF j = 1 THEN Nth(tree.roots, route[1]) ELSE Below(tree, walk[j - 1], route[j])]

\* There is one: by refuting a least place up to which there is none.
LEMMA WalkExists ==
    ASSUME NEW tree, NEW route \in Seq(Nat)
    PROVE  \E walk : IsWalk(walk, tree, route)
<1> DEFINE Step(f, j) == IF j = 1 THEN Nth(tree.roots, route[1])
                         ELSE Below(tree, f[j - 1], route[j])
           Walks(k, f) == f = [j \in 1 .. k |-> f[j]] /\ \A j \in 1 .. k : f[j] = Step(f, j)
           Bad == {k \in 0 .. Len(route) : ~ \E f : Walks(k, f)}
<1>1. Len(route) \in Nat
  OBVIOUS
<1>2. Bad \in SUBSET Nat
  BY <1>1
<1>3. 0 \notin Bad
  <2> DEFINE f == [j \in 1 .. 0 |-> j]
  <2>1. f = [j \in 1 .. 0 |-> f[j]] /\ 1 .. 0 = {}
    OBVIOUS
  <2>2. Walks(0, f)
    BY <2>1
  <2> QED
    BY <2>2
<1>4. ASSUME NEW k \in Bad, k # 0, k - 1 \notin Bad PROVE FALSE
  <2>1. k \in 1 .. Len(route) /\ k - 1 \in 0 .. Len(route)
    BY <1>1, <1>4
  <2>2. PICK f : Walks(k - 1, f)
    BY <1>4, <2>1
  <2> DEFINE g == [j \in 1 .. k |-> IF j = k THEN Step(f, k) ELSE f[j]]
  <2>3. \A j \in 1 .. k : g[j] = Step(g, j)
    <3> SUFFICES ASSUME NEW j \in 1 .. k PROVE g[j] = Step(g, j)
      OBVIOUS
    <3>1. j = 1 \/ (j - 1 \in 1 .. k /\ j - 1 # k)
      BY <2>1
    <3>2. Step(g, j) = Step(f, j)
      BY <3>1
    <3>3. j = k \/ j \in 1 .. k - 1
      BY <2>1
    <3>4. g[j] = Step(f, j)
      <4>1. CASE j = k
        BY <4>1
      <4>2. CASE j # k
        <5>1. g[j] = f[j]
          BY <4>2
        <5> HIDE DEF g
        <5> QED
          BY <2>2, <3>3, <4>2, <5>1
      <4> QED
        BY <4>1, <4>2
    <3> QED
      BY <3>2, <3>4
  <2>4. g = [j \in 1 .. k |-> g[j]]
    OBVIOUS
  <2>5. Walks(k, g)
    <3> HIDE DEF g, Step
    <3> QED
      BY <2>3, <2>4
  <2> QED
    BY <1>4, <2>5
<1>5. Bad = {}
  <2> SUFFICES ASSUME Bad # {} PROVE FALSE
    OBVIOUS
  <2> HIDE DEF Bad
  <2>1. PICK k \in Bad : \A o \in Bad : k <= o
    BY <1>2, LeastNumber
  <2>2. k \in Nat /\ k # 0 /\ ~(k <= k - 1)
    BY <1>2, <1>3, <2>1
  <2> QED
    BY <1>4, <2>1, <2>2
<1>6. PICK f : Walks(Len(route), f)
  BY <1>1, <1>5
<1>7. IsWalk(f, tree, route)
  BY <1>6, Zenon DEF IsWalk
<1> QED
  BY <1>7

\* What the walk arrives at.
LEMMA TraceIsWalk ==
    ASSUME NEW tree, NEW route \in Seq(Nat)
    PROVE  \E walk : IsWalk(walk, tree, route) /\ TraceIxCall(tree, route) = walk[Len(route)]
<1> DEFINE walk == CHOOSE w : IsWalk(w, tree, route)
<1>1. IsWalk(walk, tree, route)
  <2>1. \E w : IsWalk(w, tree, route)
    BY WalkExists
  <2> QED
    BY <2>1
<1>2. TraceIxCall(tree, route) = walk[Len(route)]
  BY DEF TraceIxCall, IsWalk
<1> HIDE DEF walk
<1> QED
  BY <1>1, <1>2

\* A path of one element is a place among the roots.
LEMMA TraceRoot ==
    ASSUME NEW tree, NEW k \in Nat
    PROVE  TraceIxCall(tree, <<k>>) = Nth(tree.roots, k)
<1>1. <<k>> \in Seq(Nat) /\ Len(<<k>>) = 1 /\ <<k>>[1] = k
  OBVIOUS
<1>2. PICK walk : IsWalk(walk, tree, <<k>>) /\ TraceIxCall(tree, <<k>>) = walk[1]
  BY <1>1, TraceIsWalk
<1> QED
  BY <1>1, <1>2 DEF IsWalk

\* A longer one is a place among the calls of the call found before.
LEMMA TraceBelow ==
    ASSUME NEW tree, NEW route \in Seq(Nat), Len(route) # 0, NEW k \in Nat
    PROVE  TraceIxCall(tree, Append(route, k)) = Below(tree, TraceIxCall(tree, route), k)
<1> DEFINE n == Len(route)
           long == Append(route, k)
<1>1. /\ n \in Nat \ {0} /\ long \in Seq(Nat) /\ Len(long) = n + 1 /\ long[n + 1] = k
      /\ \A j \in 1 .. n : long[j] = route[j]
  OBVIOUS
<1> HIDE DEF long
<1>2. PICK w : IsWalk(w, tree, route) /\ TraceIxCall(tree, route) = w[n]
  BY TraceIsWalk
<1>3. PICK v : IsWalk(v, tree, long) /\ TraceIxCall(tree, long) = v[n + 1]
  BY <1>1, TraceIsWalk
<1>4. \A j \in 1 .. n : w[j] = IF j = 1 THEN Nth(tree.roots, route[1])
                               ELSE Below(tree, w[j - 1], route[j])
  <2>1. w = [j \in 1 .. n |-> IF j = 1 THEN Nth(tree.roots, route[1])
                              ELSE Below(tree, w[j - 1], route[j])]
    BY <1>2 DEF IsWalk
  <2> QED
    BY <2>1, Zenon
<1>5. \A j \in 1 .. n + 1 : v[j] = IF j = 1 THEN Nth(tree.roots, long[1])
                                   ELSE Below(tree, v[j - 1], long[j])
  <2>1. v = [j \in 1 .. n + 1 |-> IF j = 1 THEN Nth(tree.roots, long[1])
                              ELSE Below(tree, v[j - 1], long[j])]
    BY <1>1, <1>3 DEF IsWalk
  <2> QED
    BY <2>1, Zenon
<1>6. \A j \in 1 .. n : v[j] = w[j]
  <2> DEFINE Bad == {j \in 1 .. n : v[j] # w[j]}
  <2>1. Bad \in SUBSET Nat
    BY <1>1
  <2> SUFFICES ASSUME Bad # {} PROVE FALSE
    OBVIOUS
  <2>2. PICK j \in Bad : \A o \in Bad : j <= o
    <3> HIDE DEF Bad
    <3> QED
      BY <2>1, LeastNumber
  <2>3. j \in 1 .. n /\ j \in 1 .. n + 1 /\ 1 \in 1 .. n /\ v[j] # w[j]
    BY <1>1, <2>2
  <2>4. CASE j = 1
    BY <1>1, <1>4, <1>5, <2>3, <2>4
  <2>5. CASE j # 1
    <3>1. j - 1 \in 1 .. n /\ ~(j <= j - 1)
      BY <1>1, <2>3, <2>5
    <3>2. v[j - 1] = w[j - 1]
      BY <2>2, <3>1
    <3> QED
      BY <1>1, <1>4, <1>5, <2>3, <2>5, <3>2
  <2> QED
    BY <2>4, <2>5
<1>7. v[n + 1] = Below(tree, v[n], long[n + 1])
  <2>1. n + 1 \in 1 .. n + 1 /\ n + 1 # 1 /\ (n + 1) - 1 = n
    BY <1>1
  <2> QED
    BY <1>5, <2>1
<1> QED
  BY <1>1, <1>2, <1>3, <1>6, <1>7 DEF long

--------------------------------------------------------------------------------
(* The finished tree and the calls in the logs *)

\* A call that is found, or the error.
CallOrError(call) == IF call = NoCall THEN Error("FailedIxTrace") ELSE LogsOf(call)

\* What a parser is told about node n, whenever it asks.
Told(n) ==
    IF messages.kind = Readable
    THEN CallOrError(TraceIxCall(Parse(messages.calls), path[n]))
    ELSE Unreadable(messages.kind)

\* The root that was examined, and its calls.
Ours == RootIndex + 1
Calls == roots[Ours].calls

\* The transaction is there once the tree is finished, and its logs are the
\* first calls announced.
TxInv ==
    /\ roots \in Seq(RootIx)
    /\ roots # NoTx => /\ Done
                       /\ Ours \in DOMAIN roots /\ ~roots[Ours].silent
                       /\ Reports(Calls)
    /\ messages.kind \in {Missing, Garbled, Readable}
    /\ messages.kind # Readable => messages.calls = {}
    /\ messages.calls \subseteq Announced(roots)
    /\ \A c \in messages.calls : \A d \in Announced(roots) :
         Before(d, c) => d \in messages.calls

\* The cell holds the parsed logs, and every answer was read from them.
ToldInv ==
    /\ parsed = Empty \/ parsed = Loaded(Parse(messages.calls))
    /\ Len(answers) <= Len(heights) + 1
    /\ \A n \in DOMAIN answers : answers[n] = Told(n - 1)

TreeInv == CallInv /\ Spans /\ Depths

LookupInv == TreeInv /\ LogInv /\ TxInv /\ ToldInv

\* Of numbers that grow from one to the next the earlier are the smaller.
LEMMA Growing ==
    ASSUME NEW n \in Nat, NEW f, \A k \in 1 .. n : f[k] \in Int,
           \A k \in 2 .. n : f[k - 1] < f[k],
           NEW i \in 1 .. n, NEW j \in 1 .. n, i < j
    PROVE  f[i] < f[j]
<1> DEFINE Bad == {k \in 1 .. n : i < k /\ ~(f[i] < f[k])}
<1>1. Bad \in SUBSET Nat
  OBVIOUS
<1> SUFFICES ASSUME Bad # {} PROVE FALSE
  OBVIOUS
<1>2. PICK k \in Bad : \A o \in Bad : k <= o
  <2> HIDE DEF Bad
  <2> QED
    BY <1>1, LeastNumber
<1>3. k \in 2 .. n /\ i < k /\ ~(f[i] < f[k]) /\ k - 1 \in 1 .. n /\ ~(k <= k - 1)
  BY <1>2
<1>4. f[k - 1] < f[k] /\ f[k] \in Int /\ f[k - 1] \in Int /\ f[i] \in Int
  BY <1>3
<1>5. CASE k - 1 = i
  BY <1>3, <1>4, <1>5
<1>6. CASE k - 1 # i
  <2>1. f[i] < f[k - 1]
    BY <1>2, <1>3, <1>6
  <2> QED
    BY <1>3, <1>4, <2>1
<1> QED
  BY <1>5, <1>6

\* The finished tree: every node is somewhere below an earlier one, its place
\* is in its path, and siblings are in input order.
LEMMA FinishedTree ==
    ASSUME TreeInv, Done
    PROVE  /\ Len(heights) \in Nat
           /\ path \in [0 .. Len(heights) -> Seq(Nat)] /\ path[0] = <<RootIndex>>
           /\ \A p \in 0 .. Len(heights) :
                /\ Len(inner[p]) \in Nat
                /\ \A k \in 1 .. Len(inner[p]) :
                     /\ inner[p][k] \in Nodes /\ p < inner[p][k]
                     /\ path[inner[p][k]] = Append(path[p], k - 1)
                     /\ CallerIs(heights, p, inner[p][k])
                /\ \A i, j \in 1 .. Len(inner[p]) : i < j => inner[p][i] < inner[p][j]
           /\ \A n \in Nodes : \E p \in 0 .. Len(heights) :
                p < n /\ \E k \in 1 .. Len(inner[p]) : inner[p][k] = n
<1>1. TypeOK /\ PathInv /\ CallInv
  BY DEF TreeInv, CallInv, PathInv
<1>2. Len(heights) \in Nat /\ path \in [0 .. Len(heights) -> Seq(Nat)] /\ path[0] = <<RootIndex>>
  BY <1>1, HeightsType DEF TypeOK, TreeInv, Depths
<1>3. ASSUME NEW p \in 0 .. Len(heights)
      PROVE  /\ Len(inner[p]) \in Nat
             /\ \A k \in 1 .. Len(inner[p]) :
                     /\ inner[p][k] \in Nodes /\ p < inner[p][k]
                     /\ path[inner[p][k]] = Append(path[p], k - 1)
                     /\ CallerIs(heights, p, inner[p][k])
  <2>1. inner[p] \in Seq(Nodes)
    BY <1>1 DEF TypeOK
  <2>2. Len(inner[p]) \in Nat /\ \A k \in 1 .. Len(inner[p]) : inner[p][k] \in Nodes
    BY <2>1, ElementOfSeq
  <2>3. \A k \in 1 .. Len(inner[p]) : /\ path[inner[p][k]] = Append(path[p], k - 1)
                                      /\ CallerIs(heights, p, inner[p][k])
    BY <1>1 DEF PathInv, PathsArePositions, CallInv, Called
  <2> QED
    BY <1>1, <2>2, <2>3, OpenNotAttached
<1>4. ASSUME NEW p \in 0 .. Len(heights), NEW i \in 1 .. Len(inner[p]), NEW j \in 1 .. Len(inner[p]), i < j
      PROVE  inner[p][i] < inner[p][j]
  <2>1. PICK last : SpansIn(last, heights, inner, stack, next)
    BY DEF TreeInv, Spans
  <2>2. /\ \A n \in Nodes : n <= last[n] /\ last[n] \in Nat
        /\ \A k \in 1 .. Len(inner[p]) : inner[p][k] = 1 + IF k = 1 THEN p ELSE last[inner[p][k - 1]]
    BY <2>1 DEF SpansIn, Runs, Nodes
  <2>3. \A k \in 1 .. Len(inner[p]) : inner[p][k] \in Int
    BY <1>3 DEF Nodes
  <2>4. ASSUME NEW k \in 2 .. Len(inner[p]) PROVE inner[p][k - 1] < inner[p][k]
    <3>1. k \in 1 .. Len(inner[p]) /\ k - 1 \in 1 .. Len(inner[p]) /\ k # 1
      BY <1>3
    <3>2. inner[p][k] = 1 + last[inner[p][k - 1]] /\ inner[p][k - 1] \in Nodes
      BY <1>3, <2>2, <3>1
    <3>3. inner[p][k - 1] <= last[inner[p][k - 1]] /\ last[inner[p][k - 1]] \in Nat
      BY <2>2, <3>2
    <3> QED
      BY <2>3, <3>1, <3>2, <3>3
  <2> DEFINE f == inner[p]
             n == Len(inner[p])
  <2>5. /\ n \in Nat /\ i \in 1 .. n /\ j \in 1 .. n /\ \A k \in 1 .. n : f[k] \in Int
        /\ \A k \in 2 .. n : f[k - 1] < f[k]
    BY <1>3, <2>3, <2>4
  <2> HIDE DEF f, n
  <2>6. f[i] < f[j]
    BY <1>4, <2>5, Growing
  <2> QED
    BY <2>6 DEF f
<1>5. ASSUME NEW n \in Nodes
      PROVE  \E p \in 0 .. Len(heights) : p < n /\ \E k \in 1 .. Len(inner[p]) : inner[p][k] = n
  <2>1. stack = <<>> /\ next = Len(heights) + 1
    BY <1>1 DEF CallInv, Ending, Done
  <2>2. n \notin OpenNodes /\ n \in 1 .. next - 1
    BY <1>2, <2>1 DEF OpenNodes, Nodes
  <2>3. PICK p \in 0 .. Len(heights) : \E k \in 1 .. Len(inner[p]) : inner[p][k] = n
    BY <1>1, <2>2 DEF CallInv, Placed
  <2> QED
    BY <1>3, <2>3
<1> QED
  BY <1>2, <1>3, <1>4, <1>5

\* Of heights as the runtime reports them, a node is below the call that was
\* running when it was made.
LEMMA ParentIsRunning ==
    ASSUME TreeInv, Done, FromRuntime, Reports(Calls), NEW p \in 0 .. Len(heights), NEW m \in Nodes
    PROVE  Caller(Calls, m) = p <=> \E k \in 1 .. Len(inner[p]) : inner[p][k] = m
<1> DEFINE open == {i \in 1 .. m - 1 : Calls[i] < Calls[m]}
           last == CHOOSE i \in open : \A o \in open : o <= i
<1>1. Len(heights) \in Nat /\ m \in Nat /\ \A i \in 1 .. m : i \in Nodes
  BY FinishedTree DEF Nodes
<1>2. \A i \in Nodes : heights[i] # NoHeight /\ heights[i] = Calls[i]
  BY DEF FromRuntime, Reports
<1>3. open = CallersIn(heights, m)
  <2>1. \A i \in 1 .. m - 1 : MayCall(heights[i], heights[m]) <=> Calls[i] < Calls[m]
    BY <1>1, <1>2 DEF MayCall
  <2>2. \A i \in 1 .. m - 1 : \A j \in i .. m : heights[j] # NoHeight
    BY <1>1, <1>2
  <2> QED
    BY <2>1, <2>2 DEF CallersIn
<1>4. Caller(Calls, m) = IF open = {} THEN 0 ELSE last
  BY DEF Caller
<1>5. CallerIs(heights, Caller(Calls, m), m)
  <2>1. CASE open = {}
    BY <1>3, <1>4, <2>1 DEF CallerIs
  <2>2. CASE open # {}
    <3>1. open \in SUBSET (0 .. m)
      BY <1>1
    <3>2. \E i \in open : \A o \in open : o <= i
      <4> HIDE DEF open
      <4> QED
        BY <1>1, <2>2, <3>1, LargestNumber
    <3>3. last \in open /\ \A o \in open : o <= last
      <4> HIDE DEF open
      <4> QED
        BY <3>2
    <3> HIDE DEF open, last
    <3> QED
      BY <1>3, <1>4, <2>2, <3>3 DEF CallerIs
  <2> QED
    BY <2>1, <2>2
<1> HIDE DEF open, last
<1>6. PICK q \in 0 .. Len(heights) : \E k \in 1 .. Len(inner[q]) : inner[q][k] = m
  BY FinishedTree
<1>7. CallerIs(heights, q, m)
  BY <1>6, FinishedTree
<1>8. q = Caller(Calls, m)
  BY <1>1, <1>5, <1>7, OneCaller
<1>9. ASSUME NEW k \in 1 .. Len(inner[p]), inner[p][k] = m PROVE Caller(Calls, m) = p
  <2>1. CallerIs(heights, p, m)
    BY <1>9, FinishedTree
  <2> QED
    BY <1>1, <1>5, <2>1, OneCaller
<1> QED
  BY <1>6, <1>8, <1>9

\* What is announced, call by call.
LEMMA AnnouncedCalls ==
    ASSUME NEW rs \in Seq(RootIx)
    PROVE  /\ Announced(rs) \in SUBSET Pairs /\ IsFiniteSet(Announced(rs))
           /\ \A r, n : <<r, n>> \in Announced(rs) <=>
                /\ r \in DOMAIN rs /\ ~rs[r].silent
                /\ n \in 0 .. Len(rs[r].calls)
<1> DEFINE A == {q \in DOMAIN rs : ~rs[q].silent}
           piece(r) == {r} \X (0 .. Len(rs[r].calls))
           T == {piece(r) : r \in A}
           g == [r \in A |-> piece(r)]
<1>1. /\ DOMAIN rs = 1 .. Len(rs) /\ Len(rs) \in Nat
      /\ \A r \in DOMAIN rs : rs[r] \in RootIx
  OBVIOUS
<1>2. \A r \in DOMAIN rs : Len(rs[r].calls) \in Nat
  BY <1>1 DEF RootIx
<1>3. Announced(rs) = UNION T
  BY DEF Announced
<1>4. \A r, n : <<r, n>> \in Announced(rs) <=>
        r \in DOMAIN rs /\ ~rs[r].silent /\ n \in 0 .. Len(rs[r].calls)
  BY <1>3
<1>5. Announced(rs) \in SUBSET Pairs
  BY <1>1, <1>3 DEF Pairs
<1>6. ASSUME NEW x \in T PROVE IsFiniteSet(x)
  <2>1. PICK r \in A : x = {r} \X (0 .. Len(rs[r].calls))
    BY <1>6
  <2>2. IsFiniteSet({r}) /\ IsFiniteSet(0 .. Len(rs[r].calls))
    <3>1. IsFiniteSet({r})
      BY FS_Singleton
    <3>2. 0 \in Int /\ Len(rs[r].calls) \in Int
      BY <1>2
    <3> QED
      BY <3>1, <3>2, FS_Interval
  <2> QED
    BY <2>1, <2>2, FS_Product
<1>7. IsFiniteSet(T)
  <2>1. IsFiniteSet(DOMAIN rs)
    BY <1>1, FS_Interval
  <2>2. IsFiniteSet(A)
    BY <2>1, FS_Subset
  <2>3. g \in Surjection(A, T)
    BY DEF Surjection
  <2> HIDE DEF A, T, g
  <2> QED
    BY <2>2, <2>3, FS_Surjection
<1>8. IsFiniteSet(Announced(rs))
  <2> HIDE DEF T
  <2> QED
    BY <1>3, <1>6, <1>7, FS_UNION
<1> QED
  BY <1>4, <1>5, <1>8

\* The root's path leads to the root in the logs.
LEMMA RootFound ==
    ASSUME TxInv, roots # NoTx, NoSilentBefore
    PROVE  Nth(Parse(messages.calls).roots, RootIndex)
             = IF Own(1) \in messages.calls THEN Own(1) ELSE NoCall
<1> DEFINE C == messages.calls
           S == {c \in C : c[2] = 0}
           f == [i \in 1 .. RootIndex + 1 |-> <<i, 0>>]
<1>1. /\ RootIndex \in Nat /\ Ours = RootIndex + 1 /\ Own(1) = <<Ours, 0>>
      /\ Announced(roots) \in SUBSET Pairs /\ IsFiniteSet(Announced(roots))
      /\ Parse(C).roots = S
  BY HeightAssumption, AnnouncedCalls DEF TxInv, Ours, Own, Parse
<1>2. \A i \in 1 .. Ours : <<i, 0>> \in Announced(roots)
  <2>1. /\ roots \in Seq(RootIx) /\ Ours \in DOMAIN roots /\ ~roots[Ours].silent
    BY DEF TxInv
  <2>2. \A i \in 1 .. Ours : i \in DOMAIN roots /\ ~roots[i].silent
    BY <1>1, <2>1 DEF NoSilentBefore
  <2>3. \A i \in 1 .. Ours : Len(roots[i].calls) \in Nat
    <3>1. \A i \in 1 .. Ours : roots[i] \in RootIx
      BY <2>1, <2>2
    <3> QED
      BY <3>1 DEF RootIx
  <2>4. \A i \in 1 .. Ours : 0 \in 0 .. Len(roots[i].calls)
    BY <2>3
  <2> QED
    BY <2>1, <2>2, <2>4, AnnouncedCalls
<1>3. C \in SUBSET Announced(roots) /\ \A c \in C : \A d \in Announced(roots) : Before(d, c) => d \in C
  BY DEF TxInv
<1>4. S \in SUBSET Pairs /\ S \in SUBSET Announced(roots) /\ IsFiniteSet(S)
  BY <1>1, <1>3, FS_Subset
<1>5. \A c \in S : c = <<c[1], 0>> /\ c[1] \in Nat
  BY <1>4 DEF Pairs
<1>6. CASE Own(1) \in C
  <2>1. \A i \in 1 .. RootIndex + 1 : f[i] \in S
    <3>1. \A i \in 1 .. Ours : i = Ours \/ Before(<<i, 0>>, <<Ours, 0>>)
      BY <1>1 DEF Before
    <3> QED
      BY <1>1, <1>2, <1>3, <1>6, <3>1
  <2>2. \A i, j \in 1 .. RootIndex + 1 : i < j => Before(f[i], f[j])
    BY DEF Before
  <2>3. \A c \in S : Before(c, f[RootIndex + 1]) => \E i \in 1 .. RootIndex : c = f[i]
    <3> SUFFICES ASSUME NEW c \in S, Before(c, f[RootIndex + 1])
                 PROVE  \E i \in 1 .. RootIndex : c = f[i]
      OBVIOUS
    <3>1. c[1] < RootIndex + 1 /\ c[1] \in Nat /\ c[1] # 0 /\ c = <<c[1], 0>>
      <4>1. f[RootIndex + 1] = <<RootIndex + 1, 0>>
        BY <1>1
      <4>2. c[1] \in DOMAIN roots
        BY <1>3, <1>5, AnnouncedCalls DEF TxInv
      <4>3. c[1] # 0
        BY <4>2 DEF TxInv
      <4> QED
        BY <1>1, <1>5, <4>1, <4>3 DEF Before
    <3>2. c[1] \in 1 .. RootIndex /\ c[1] \in 1 .. RootIndex + 1
      BY <1>1, <3>1
    <3>3. c = f[c[1]]
      BY <3>1, <3>2
    <3> QED
      BY <3>2, <3>3
  <2>4. f[RootIndex + 1] = Own(1)
    BY <1>1
  <2> HIDE DEF S, f
  <2>5. Nth(S, RootIndex) = f[RootIndex + 1]
    BY <1>1, <1>4, <2>1, <2>2, <2>3, NthFound
  <2> QED
    BY <1>1, <1>6, <2>4, <2>5
<1>7. CASE Own(1) \notin C
  <2>1. \A c \in S : \E i \in 1 .. RootIndex : c = f[i]
    <3> SUFFICES ASSUME NEW c \in S PROVE \E i \in 1 .. RootIndex : c = f[i]
      OBVIOUS
    <3>1. c = <<c[1], 0>> /\ c[1] \in Nat /\ c[1] # 0
      <4>1. c[1] \in DOMAIN roots
        BY <1>3, <1>5, AnnouncedCalls DEF TxInv
      <4> QED
        BY <1>5, <4>1 DEF TxInv
    <3>2. c[1] # Ours
      BY <1>1, <1>7, <3>1
    <3>3. ~(c[1] > Ours)
      <4>1. Own(1) \in Announced(roots)
        BY <1>1, <1>2
      <4>2. ~Before(Own(1), c)
        BY <1>3, <1>7, <4>1
      <4> QED
        BY <1>1, <4>2 DEF Before
    <3>4. c[1] \in 1 .. RootIndex /\ c[1] \in 1 .. RootIndex + 1
      BY <1>1, <3>1, <3>2, <3>3
    <3>5. c = f[c[1]]
      BY <3>1, <3>4
    <3> QED
      BY <3>4, <3>5
  <2>2. \A i, j \in 1 .. RootIndex : f[i] = f[j] => i = j
    <3>1. \A i \in 1 .. RootIndex : f[i] = <<i, 0>>
      BY <1>1
    <3> QED
      BY <3>1
  <2> HIDE DEF S, f
  <2>3. Nth(S, RootIndex) = NoCall
    BY <1>1, <1>4, <2>1, <2>2, NthOfFew
  <2> QED
    BY <1>1, <1>7, <2>3
<1> QED
  BY <1>6, <1>7

\* A node's number below its parent leads to the node in the logs, if the node
\* is there.
LEMMA ChildFound ==
    ASSUME TreeInv, TxInv, roots # NoTx, FromRuntime, NEW p \in 0 .. Len(heights),
           NEW k \in 1 .. Len(inner[p]), <<Ours, p>> \in messages.calls
    PROVE  Nth(Parse(messages.calls).invocations[<<Ours, p>>], k - 1)
             = IF <<Ours, inner[p][k]>> \in messages.calls THEN <<Ours, inner[p][k]>> ELSE NoCall
<1> DEFINE C == messages.calls
           n == inner[p][k]
           S == {d \in C : d[1] = Ours /\ d[2] > 0 /\ Caller(Calls, d[2]) = p}
           f == [j \in 1 .. Len(inner[p]) |-> <<Ours, inner[p][j]>>]
<1>1. /\ Done /\ Reports(Calls) /\ Ours \in DOMAIN roots /\ ~roots[Ours].silent /\ roots \in Seq(RootIx)
      /\ Announced(roots) \in SUBSET Pairs /\ IsFiniteSet(Announced(roots))
      /\ C \in SUBSET Announced(roots) /\ \A c \in C : \A d \in Announced(roots) : Before(d, c) => d \in C
  BY AnnouncedCalls DEF TxInv
<1>2. /\ Len(inner[p]) \in Nat /\ Len(heights) \in Nat /\ Len(Calls) = Len(heights)
      /\ \A j \in 1 .. Len(inner[p]) : inner[p][j] \in Nodes
      /\ \A i, j \in 1 .. Len(inner[p]) : i < j => inner[p][i] < inner[p][j]
  BY <1>1, FinishedTree DEF Reports
<1>3. Parse(C).invocations[<<Ours, p>>] = S
  BY DEF Parse, Calls
<1>4. \A m \in Nodes : <<Ours, m>> \in Announced(roots)
  <2>1. \A m \in Nodes : m \in 0 .. Len(Calls)
    BY <1>2 DEF Nodes
  <2> QED
    BY <1>1, <2>1, AnnouncedCalls DEF Calls
<1>5. IsFiniteSet(S) /\ S \in SUBSET Pairs /\ S \in SUBSET C
  BY <1>1, FS_Subset
<1>6. ASSUME NEW d \in S PROVE \E j \in 1 .. Len(inner[p]) : d = <<Ours, inner[p][j]>>
  <2>1. d = <<Ours, d[2]>> /\ d \in Announced(roots) /\ d[2] > 0
    BY <1>1, <1>5 DEF Pairs
  <2>2. d[2] \in 0 .. Len(Calls)
    BY <1>1, <2>1, AnnouncedCalls DEF Calls
  <2>3. d[2] \in Nodes
    BY <1>2, <2>1, <2>2 DEF Nodes
  <2>4. Caller(Calls, d[2]) = p
    OBVIOUS
  <2>5. \E j \in 1 .. Len(inner[p]) : inner[p][j] = d[2]
    BY <1>1, <2>3, <2>4, ParentIsRunning
  <2> QED
    BY <2>1, <2>5
<1>7. ASSUME NEW j \in 1 .. Len(inner[p]), <<Ours, inner[p][j]>> \in C PROVE <<Ours, inner[p][j]>> \in S
  <2>1. inner[p][j] \in Nodes /\ Caller(Calls, inner[p][j]) = p
    BY <1>1, <1>2, ParentIsRunning
  <2>2. inner[p][j] > 0
    BY <2>1 DEF Nodes
  <2> QED
    BY <1>7, <2>1, <2>2
<1>8. \A i, j \in 1 .. Len(inner[p]) : i < j => Before(<<Ours, inner[p][i]>>, <<Ours, inner[p][j]>>)
  BY <1>2 DEF Before
<1>9. n \in Nodes /\ k \in Nat \ {0} /\ (k - 1) + 1 = k /\ k - 1 \in Nat
  BY <1>2
<1> HIDE DEF S, n
<1>10. CASE <<Ours, n>> \in C
  <2>1. \A i \in 1 .. (k - 1) + 1 : i \in 1 .. Len(inner[p]) /\ f[i] = <<Ours, inner[p][i]>>
    BY <1>2, <1>9
  <2>2. f[(k - 1) + 1] = <<Ours, n>>
    BY <1>9, <2>1 DEF n
  <2>3. \A i, j \in 1 .. (k - 1) + 1 : i < j => Before(f[i], f[j])
    BY <1>8, <2>1
  <2>4. \A i \in 1 .. (k - 1) + 1 : f[i] \in S
    <3> SUFFICES ASSUME NEW i \in 1 .. (k - 1) + 1 PROVE <<Ours, inner[p][i]>> \in C
      BY <1>7, <2>1
    <3>1. CASE i = k
      BY <1>10, <3>1 DEF n
    <3>2. CASE i # k
      <4>1. i < k /\ i \in 1 .. Len(inner[p])
        BY <1>9, <2>1, <3>2
      <4>2. Before(<<Ours, inner[p][i]>>, <<Ours, n>>)
        BY <1>8, <4>1 DEF n
      <4> QED
        BY <1>1, <1>2, <1>4, <1>10, <4>1, <4>2
    <3> QED
      BY <3>1, <3>2
  <2>5. ASSUME NEW c \in S, Before(c, f[(k - 1) + 1])
        PROVE  \E i \in 1 .. k - 1 : c = f[i]
    <3>1. PICK j \in 1 .. Len(inner[p]) : c = <<Ours, inner[p][j]>>
      BY <1>6
    <3>2. Before(<<Ours, inner[p][j]>>, <<Ours, n>>)
      BY <2>2, <2>5, <3>1
    <3>3. inner[p][j] < n
      BY <3>2, HeightAssumption DEF Before, Ours
    <3>4. ~(k < j) /\ j # k
      BY <1>2, <1>9, <3>3 DEF n, Nodes
    <3>5. j \in 1 .. k - 1
      BY <1>9, <3>4
    <3> QED
      BY <2>1, <3>1, <3>5
  <2> HIDE DEF f
  <2>6. Nth(S, k - 1) = f[(k - 1) + 1]
    BY <1>5, <1>9, <2>3, <2>4, <2>5, NthFound
  <2> QED
    BY <1>3, <1>10, <2>2, <2>6 DEF n
<1>11. CASE <<Ours, n>> \notin C
  <2>1. \A i \in 1 .. k - 1 : i \in 1 .. Len(inner[p]) /\ f[i] = <<Ours, inner[p][i]>>
    BY <1>2, <1>9
  <2>2. \A i, j \in 1 .. k - 1 : f[i] = f[j] => i = j
    <3> SUFFICES ASSUME NEW i \in 1 .. k - 1, NEW j \in 1 .. k - 1, inner[p][i] = inner[p][j]
                 PROVE  i = j
      BY <2>1
    <3>1. inner[p][i] \in Int /\ ~(i < j) /\ ~(j < i)
      BY <1>2, <2>1 DEF Nodes
    <3> QED
      BY <3>1
  <2>3. ASSUME NEW c \in S PROVE \E i \in 1 .. k - 1 : c = f[i]
    <3>1. PICK j \in 1 .. Len(inner[p]) : c = <<Ours, inner[p][j]>>
      BY <1>6
    <3>2. c \in C
      BY <1>5
    <3>3. j # k
      BY <1>11, <3>1, <3>2 DEF n
    <3>4. ~(k < j)
      <4>1. ~Before(<<Ours, n>>, c)
        BY <1>1, <1>4, <1>9, <1>11, <3>2
      <4> QED
        BY <1>8, <3>1, <4>1 DEF n
    <3>5. j \in 1 .. k - 1
      BY <1>9, <3>3, <3>4
    <3> QED
      BY <2>1, <3>1, <3>5
  <2> HIDE DEF f
  <2>4. Nth(S, k - 1) = NoCall
    BY <1>5, <1>9, <2>2, <2>3, NthOfFew
  <2> QED
    BY <1>3, <1>11, <2>4 DEF n
<1> QED
  BY <1>10, <1>11 DEF n

\* The paths of the finished tree.
LEMMA PathsWritten ==
    ASSUME TreeInv, Done
    PROVE  /\ \A n \in 0 .. Len(heights) : path[n] \in Seq(Nat)
           /\ path[0] = <<RootIndex>>
           /\ \A p \in 0 .. Len(heights) : \A k \in 1 .. Len(inner[p]) :
                k - 1 \in Nat /\ path[inner[p][k]] = Append(path[p], k - 1)
<1>1. path \in [0 .. Len(heights) -> Seq(Nat)] /\ path[0] = <<RootIndex>>
  BY FinishedTree
<1>2. \A p \in 0 .. Len(heights) : \A k \in 1 .. Len(inner[p]) :
        path[inner[p][k]] = Append(path[p], k - 1)
  BY FinishedTree
<1>3. \A n \in 0 .. Len(heights) : path[n] \in Seq(Nat)
  BY <1>1
<1>4. \A p \in 0 .. Len(heights) : \A k \in 1 .. Len(inner[p]) : k - 1 \in Nat
  OBVIOUS
<1> QED
  BY <1>1, <1>2, <1>3, <1>4

\* What a path leads to, by what the parent's does.
LEMMA StepDown ==
    ASSUME TreeInv, Done, NEW n \in Nodes, NEW tree
    PROVE  \E p \in 0 .. Len(heights) : \E k \in 1 .. Len(inner[p]) :
              /\ p < n /\ inner[p][k] = n
              /\ TraceIxCall(tree, path[n]) = Below(tree, TraceIxCall(tree, path[p]), k - 1)
<1>1. PICK p \in 0 .. Len(heights) : p < n /\ \E k \in 1 .. Len(inner[p]) : inner[p][k] = n
  BY FinishedTree
<1>2. PICK k \in 1 .. Len(inner[p]) : inner[p][k] = n
  BY <1>1
<1>3. /\ path[n] = Append(path[p], k - 1) /\ k - 1 \in Nat
      /\ path[p] \in Seq(Nat)
  BY <1>2, PathsWritten
<1>4. Len(path[p]) # 0
  <2>1. CASE p = 0
    BY <2>1, PathsWritten
  <2>2. CASE p # 0
    <3>1. p \in Nodes
      BY <2>2, FinishedTree DEF Nodes
    <3>2. PICK q \in 0 .. Len(heights) : \E j \in 1 .. Len(inner[q]) : inner[q][j] = p
      BY <3>1, FinishedTree
    <3>3. PICK j \in 1 .. Len(inner[q]) :
            path[p] = Append(path[q], j - 1) /\ path[q] \in Seq(Nat) /\ j - 1 \in Nat
      BY <3>2, PathsWritten
    <3> QED
      BY <3>3
  <2> QED
    BY <2>1, <2>2
<1> QED
  BY <1>1, <1>2, <1>3, <1>4, TraceBelow

\* Any path leads to a call in the logs, or to none.
LEMMA LedToSome ==
    ASSUME TreeInv, Done, NEW C, NEW n \in 0 .. Len(heights)
    PROVE  LET call == TraceIxCall(Parse(C), path[n]) IN call = NoCall \/ call \in C
<1> DEFINE tree == Parse(C)
           call(m) == TraceIxCall(tree, path[m])
           Bad == {m \in 0 .. Len(heights) : ~(call(m) = NoCall \/ call(m) \in C)}
<1>0. TreeInv /\ Done
  OBVIOUS
<1>1. Bad \in SUBSET Nat
  OBVIOUS
<1> SUFFICES ASSUME Bad # {} PROVE FALSE
  OBVIOUS
<1>2. PICK m \in Bad : \A o \in Bad : m <= o
  <2> HIDE DEF Bad
  <2> QED
    BY <1>1, LeastNumber
<1>3. m \in 0 .. Len(heights) /\ call(m) # NoCall /\ call(m) \notin C
  BY <1>2
<1>4. Parse(C).roots \in SUBSET C /\ \A c \in C : Parse(C).invocations[c] \in SUBSET C
  BY DEF Parse
<1>5. CASE m = 0
  <2>1. call(m) = Nth(Parse(C).roots, RootIndex)
    BY <1>5, FinishedTree, TraceRoot, HeightAssumption
  <2> QED
    BY <1>3, <1>4, <2>1, NthIsThere
<1>6. CASE m # 0
  <2>1. m \in Nodes
    BY <1>3, <1>6, FinishedTree DEF Nodes
  <2>2. PICK p \in 0 .. Len(heights) : \E k \in 1 .. Len(inner[p]) :
          p < m /\ inner[p][k] = m /\ call(m) = Below(tree, call(p), k - 1)
    <3> HIDE DEF tree, Bad
    <3> QED
      BY <1>0, <2>1, StepDown, SMTT(30)
  <2>3. ~(m <= p)
    BY <1>3, <2>2, FinishedTree
  <2>4. call(p) = NoCall \/ call(p) \in C
    BY <1>2, <2>3
  <2> HIDE DEF call
  <2> QED
    BY <1>3, <1>4, <2>2, <2>4, NthIsThere DEF Below
<1> QED
  BY <1>5, <1>6

\* And to the node's own call if that is in the logs, else to none.
LEMMA LedToOwn ==
    ASSUME TreeInv, TxInv, roots # NoTx, NoSilentBefore, FromRuntime,
           NEW n \in 0 .. Len(heights)
    PROVE  TraceIxCall(Parse(messages.calls), path[n])
             = IF Own(n + 1) \in messages.calls THEN Own(n + 1) ELSE NoCall
<1> DEFINE C == messages.calls
           tree == Parse(C)
           call(m) == TraceIxCall(tree, path[m])
           own(m) == IF <<Ours, m>> \in C THEN <<Ours, m>> ELSE NoCall
           Bad == {m \in 0 .. Len(heights) : call(m) # own(m)}
<1>1. Bad \in SUBSET Nat
  OBVIOUS
<1>2. Done /\ Len(heights) \in Nat
  BY FinishedTree DEF TxInv
<1>3. Own(n + 1) = <<Ours, n>>
  BY <1>2 DEF Own, Ours
<1> SUFFICES ASSUME Bad # {} PROVE FALSE
  BY <1>3
<1>4. PICK m \in Bad : \A o \in Bad : m <= o
  <2> HIDE DEF Bad
  <2> QED
    BY <1>1, LeastNumber
<1>5. m \in 0 .. Len(heights) /\ call(m) # own(m)
  BY <1>4
<1>6. CASE m = 0
  <2>1. call(m) = Nth(Parse(C).roots, RootIndex)
    BY <1>2, <1>6, FinishedTree, TraceRoot, HeightAssumption
  <2>2. Own(1) = <<Ours, m>>
    BY <1>6 DEF Own, Ours
  <2> QED
    BY <1>5, <2>1, <2>2, RootFound
<1>7. CASE m # 0
  <2>1. m \in Nodes
    BY <1>2, <1>5, <1>7 DEF Nodes
  <2>2. PICK p \in 0 .. Len(heights) : \E k \in 1 .. Len(inner[p]) :
          p < m /\ inner[p][k] = m /\ call(m) = Below(tree, call(p), k - 1)
    <3> HIDE DEF tree
    <3> QED
      BY <1>2, <2>1, StepDown
  <2>3. PICK k \in 1 .. Len(inner[p]) :
          p < m /\ inner[p][k] = m /\ call(m) = Below(Parse(C), call(p), k - 1)
    BY <2>2
  <2>4. ~(m <= p)
    BY <1>2, <1>5, <2>3
  <2>5. call(p) = own(p)
    BY <1>4, <2>4
  <2>6. CASE <<Ours, p>> \in C
    <3>1. call(p) = <<Ours, p>> /\ <<Ours, p>> # NoCall
      BY <2>5, <2>6 DEF NoCall
    <3>2. call(m) = Nth(Parse(C).invocations[<<Ours, p>>], k - 1)
      BY <2>3, <3>1 DEF Below
    <3> QED
      BY <1>5, <2>3, <2>6, <3>2, ChildFound
  <2>7. CASE <<Ours, p>> \notin C
    <3>1. call(m) = NoCall
      BY <2>3, <2>5, <2>7 DEF Below
    <3>2. <<Ours, m>> \in C
      BY <1>5, <3>1
    <3>3. <<Ours, p>> \in Announced(roots)
      <4>1. /\ Reports(Calls) /\ Ours \in DOMAIN roots /\ ~roots[Ours].silent /\ roots \in Seq(RootIx)
        BY DEF TxInv
      <4>2. p \in 0 .. Len(Calls)
        BY <4>1 DEF Reports
      <4> QED
        BY <4>1, <4>2, AnnouncedCalls DEF Calls
    <3>4. Before(<<Ours, p>>, <<Ours, m>>)
      BY <2>3 DEF Before
    <3> QED
      BY <2>7, <3>2, <3>3, <3>4 DEF TxInv
  <2> QED
    BY <2>6, <2>7
<1> QED
  BY <1>6, <1>7

--------------------------------------------------------------------------------
(* TxLogs: the inductive invariant behind OwnLogsOrNone and OwnLogsFound *)

\* The tree's own invariants survive every step of TxLogs: only BuildStack
\* touches the tree.
LEMMA StepTreeInv == TreeInv /\ [LogNext]_allVars => TreeInv'
<1> SUFFICES ASSUME TreeInv, [LogNext]_allVars PROVE TreeInv'
  OBVIOUS
<1>1. [Next]_vars
  BY DEF LogNext, BuildStack, NewTxLogs, FailToLoad, LoadLogs, GetLogs, Answer, allVars
<1>2. CallInv' /\ Spans' /\ Depths'
  BY <1>1, StepCallInv, StepSpans, StepDepths DEF TreeInv
<1> QED
  BY <1>2 DEF TreeInv

\* Nothing is announced before there are roots.
LEMMA InitLookupInv == LogInit => LookupInv
<1> SUFFICES ASSUME LogInit PROVE LookupInv
  OBVIOUS
<1>1. TreeInv
  BY InitCallInv, InitSpans DEF LogInit, TreeInv, Init, Depths
<1>2. LogInv
  BY InitLogInv
<1>3. TxInv
  BY DEF LogInit, TxInv, NoTx, Missing, Garbled, Readable
<1>4. ToldInv
  <2>1. answers = <<>> /\ Len(answers) = 0 /\ DOMAIN answers = {} /\ parsed = Empty
    BY DEF LogInit
  <2>2. Len(heights) \in Nat
    BY <1>1, HeightsType DEF TreeInv, CallInv, PathInv, TypeOK
  <2> QED
    BY <2>1, <2>2 DEF ToldInv
<1> QED
  BY <1>1, <1>2, <1>3, <1>4 DEF LookupInv

\* The element between two sequences.
LEMMA ElementBetween ==
    ASSUME NEW S, NEW b \in Seq(S), NEW x \in S, NEW c \in Seq(S)
    PROVE  LET s == b \o <<x>> \o c
           IN  s \in Seq(S) /\ Len(b) + 1 \in DOMAIN s /\ s[Len(b) + 1] = x
<1> DEFINE s == b \o <<x>> \o c
           f == b \o <<x>>
           n == Len(b) + 1
<1>1. Len(b) \in Nat /\ <<x>> \in Seq(S) /\ Len(<<x>>) = 1 /\ <<x>>[1] = x
  OBVIOUS
<1>2. f \in Seq(S) /\ Len(f) = n /\ \A i \in 1 .. n : f[i] = IF i <= Len(b) THEN b[i] ELSE <<x>>[i - Len(b)]
  BY <1>1, ConcatProperties
<1>3. f[n] = x
  BY <1>1, <1>2
<1>4. n \in Nat /\ Len(c) \in Nat /\ n \in 1 .. n + Len(c) /\ n <= n
  BY <1>1
<1>5. s = f \o c
  OBVIOUS
<1> HIDE DEF f, n, s
<1>6. /\ s \in Seq(S) /\ Len(s) = n + Len(c)
      /\ \A i \in 1 .. n + Len(c) : s[i] = IF i <= n THEN f[i] ELSE c[i - n]
  BY <1>2, <1>5, ConcatProperties
<1>7. s[n] = x
  BY <1>3, <1>4, <1>6
<1>8. DOMAIN s = 1 .. n + Len(c)
  BY <1>6
<1> QED
  BY <1>4, <1>6, <1>7, <1>8 DEF n, s

\* The root is put among the others at its place.
LEMMA RootAmongOthers ==
    ASSUME NEW others \in OtherRoots, NEW calls \in Seq(Nat), NEW rs,
           rs = others.before \o <<[silent |-> FALSE, calls |-> calls]>> \o others.after
    PROVE  /\ rs \in Seq(RootIx) /\ Ours \in DOMAIN rs
           /\ ~rs[Ours].silent /\ rs[Ours].calls = calls
<1> DEFINE ix == [silent |-> FALSE, calls |-> calls]
<1>1. others.before \in Seq(RootIx) /\ others.after \in Seq(RootIx) /\ Len(others.before) = RootIndex
  BY LogAssumption
<1>2. ix \in RootIx /\ ~ix.silent /\ ix.calls = calls
  BY DEF RootIx
<1>3. rs = others.before \o <<ix>> \o others.after
  OBVIOUS
<1>4. rs \in Seq(RootIx) /\ RootIndex + 1 \in DOMAIN rs /\ rs[RootIndex + 1] = ix
  <2> DEFINE b == others.before
             c == others.after
  <2>1. b \in Seq(RootIx) /\ c \in Seq(RootIx) /\ ix \in RootIx /\ rs = b \o <<ix>> \o c
    BY <1>1, <1>2, <1>3
  <2> HIDE DEF ix, b, c
  <2> DEFINE S == RootIx
             s == b \o <<ix>> \o c
  <2>2. /\ S = RootIx /\ b \in Seq(S) /\ c \in Seq(S) /\ ix \in S
    BY <2>1
  <2> HIDE DEF S
  <2>3. s \in Seq(S)
    BY <2>2, ElementBetween
  <2>4. Len(b) + 1 \in DOMAIN s
    BY <2>2, ElementBetween
  <2>5. s[Len(b) + 1] = ix
    BY <2>2, ElementBetween
  <2> HIDE DEF s
  <2>6. rs \in Seq(RootIx) /\ Len(b) + 1 \in DOMAIN rs /\ rs[Len(b) + 1] = ix
    BY <2>1, <2>2, <2>3, <2>4, <2>5 DEF s
  <2> QED
    BY <1>1, <2>6 DEF b
<1> HIDE DEF ix
<1> QED
  BY <1>2, <1>4 DEF Ours

\* The first calls of a log are followed by none that is missing.
LEMMA FirstCalls ==
    ASSUME NEW all \in SUBSET Pairs, NEW last \in all, NEW C,
           C = {d \in all : d = last \/ Before(d, last)}
    PROVE  C \subseteq all /\ \A c \in C : \A d \in all : Before(d, c) => d \in C
<1>1. \A x, y, z \in Pairs : Before(x, y) /\ Before(y, z) => Before(x, z)
  BY DEF Pairs, Before
<1> QED
  BY <1>1

\* A transaction arrives once, with the calls of its tree.
LEMMA StepTxInv == TxInv /\ [LogNext]_allVars => TxInv'
<1> SUFFICES ASSUME TxInv, [LogNext]_allVars PROVE TxInv'
  OBVIOUS
<1>1. CASE UNCHANGED <<roots, messages>> /\ (roots # NoTx => UNCHANGED vars)
  BY <1>1 DEF TxInv, Ours, Calls, Reports, Done, Nodes, vars
<1>2. CASE BuildStack
  <2>1. UNCHANGED <<roots, messages>>
    BY <1>2 DEF BuildStack, logVars
  <2>2. roots # NoTx => UNCHANGED vars
    BY <1>2 DEF TxInv, Done, BuildStack, Next, CloseScope, OpenScope, StartDrain, Drain,
       Return, Terminated
  <2> QED
    BY <1>1, <2>1, <2>2
<1>3. CASE NewTxLogs
  <2>1. PICK others \in OtherRoots, calls \in {d \in DepthSeqs : Reports(d)} :
          LET rs  == others.before \o <<[silent |-> FALSE, calls |-> calls]>> \o others.after
              all == Announced(rs)
          IN  /\ roots' = rs
              /\ \/ \E kind \in {Missing, Garbled} : messages' = [kind |-> kind, calls |-> {}]
                 \/ \E last \in all :
                      messages' = [kind |-> Readable,
                                   calls |-> {d \in all : d = last \/ Before(d, last)}]
    BY <1>3 DEF NewTxLogs
  <2>2. calls \in Seq(Nat) /\ Reports(calls) /\ heights' = heights /\ phase' = "done"
    BY <1>3, LogAssumption DEF NewTxLogs, vars
  <2>3. roots' = others.before \o <<[silent |-> FALSE, calls |-> calls]>> \o others.after
    BY <2>1
  <2>4. /\ roots' \in Seq(RootIx) /\ Ours \in DOMAIN roots'
        /\ ~roots'[Ours].silent /\ roots'[Ours].calls = calls
    BY <2>2, <2>3, RootAmongOthers
  <2>5. /\ roots' \in Seq(RootIx)
        /\ Done' /\ Ours \in DOMAIN roots' /\ ~roots'[Ours].silent /\ Reports(Calls)'
    BY <2>2, <2>4 DEF Done, Calls, Ours, Reports, Nodes
  <2>6. \/ \E kind \in {Missing, Garbled} : messages' = [kind |-> kind, calls |-> {}]
        \/ \E last \in Announced(roots') :
             messages' = [kind |-> Readable,
                          calls |-> {d \in Announced(roots') : d = last \/ Before(d, last)}]
    BY <2>1
  <2> DEFINE all == Announced(roots')
             Fit  == /\ messages'.kind \in {Missing, Garbled, Readable}
                     /\ messages'.kind # Readable => messages'.calls = {}
                     /\ messages'.calls \subseteq all
                     /\ \A c \in messages'.calls : \A d \in all :
                          Before(d, c) => d \in messages'.calls
  <2>7. all \in SUBSET Pairs
    BY <2>5, AnnouncedCalls
  <2>8. ASSUME NEW kind \in {Missing, Garbled}, messages' = [kind |-> kind, calls |-> {}]
        PROVE  Fit
    BY <2>8 DEF Missing, Garbled, Readable
  <2>9. ASSUME NEW last \in all,
               messages' = [kind |-> Readable, calls |-> {d \in all : d = last \/ Before(d, last)}]
        PROVE  Fit
    <3> DEFINE C == messages'.calls
    <3> HIDE DEF all
    <3>1. messages'.kind = Readable /\ C = {d \in all : d = last \/ Before(d, last)}
      BY <2>9
    <3>2. C \subseteq all /\ \A c \in C : \A d \in all : Before(d, c) => d \in C
      <4> HIDE DEF C
      <4> QED
        BY <2>7, <3>1, FirstCalls
    <3> QED
      BY <3>1, <3>2
  <2>10. Fit
    BY <2>6, <2>8, <2>9
  <2> QED
    BY <2>5, <2>10 DEF TxInv
<1> QED
  BY <1>1, <1>2, <1>3 DEF LogNext, FailToLoad, LoadLogs, GetLogs, Answer, allVars, logVars

\* What a parser is told depends on nothing that a lookup changes.
LEMMA ToldAlike ==
    ASSUME path' = path, roots' = roots, messages' = messages
    PROVE  \A n : Told(n)' = Told(n)
BY DEF Told, Parse

\* An answer is appended as it is told, and the cell holds the parsed logs.
LEMMA AnswerToldInv ==
    ASSUME LogInv, ToldInv, NEW STATE a, Answer(a), a = Told(Node), Asking,
           parsed' = parsed \/ parsed' = Loaded(Parse(messages.calls))
    PROVE  ToldInv'
<1>1. /\ answers' = Append(answers, a) /\ messages' = messages /\ roots' = roots
      /\ path' = path /\ heights' = heights
  BY DEF Answer, vars
<1>2. answers \in Seq(Elements(answers))
  BY DEF LogInv
<1>3. /\ DOMAIN answers' = DOMAIN answers \cup {Len(answers) + 1}
      /\ \A n \in DOMAIN answers : answers'[n] = answers[n]
      /\ answers'[Len(answers) + 1] = a
      /\ Len(answers') = Len(answers) + 1
  BY <1>1, <1>2, AppendedElements
<1>4. Len(answers) \in Nat /\ (Len(answers) + 1) - 1 = Node
  BY <1>2 DEF Node
<1>5. \A n \in DOMAIN answers' : answers'[n] = Told(n - 1)
  BY <1>3, <1>4 DEF ToldInv
<1>6. \A n : Told(n)' = Told(n)
  BY <1>1, ToldAlike
<1>7. (\A n \in DOMAIN answers : answers[n] = Told(n - 1))'
  BY <1>5, <1>6
<1>8. Len(answers') <= Len(heights') + 1
  BY <1>1, <1>3, <1>4 DEF Asking, Node
<1>9. Parse(messages.calls)' = Parse(messages.calls)
  BY <1>1 DEF Parse
<1>10. (parsed = Empty \/ parsed = Loaded(Parse(messages.calls)))'
  BY <1>1, <1>9 DEF ToldInv
<1> QED
  BY <1>7, <1>8, <1>10 DEF ToldInv

\* A lookup in the parsed logs tells what it should.
LEMMA GetTold ==
    ASSUME messages.kind = Readable
    PROVE  Get(Parse(messages.calls)) = Told(Node)
BY DEF Get, Told, CallOrError

\* What was told is told again: the cell never holds anything but the parsed logs.
LEMMA StepToldInv == LogInv /\ TxInv /\ ToldInv /\ [LogNext]_allVars => ToldInv'
<1> SUFFICES ASSUME LogInv, TxInv, ToldInv, [LogNext]_allVars PROVE ToldInv'
  OBVIOUS
<1>1. CASE UNCHANGED <<vars, roots, messages, parsed, answers>>
  <2>1. \A n : Told(n)' = Told(n)
    BY <1>1, ToldAlike DEF vars
  <2>2. Parse(messages.calls)' = Parse(messages.calls)
    BY <1>1 DEF Parse
  <2>3. (\A n \in DOMAIN answers : answers[n] = Told(n - 1))'
    BY <1>1, <2>1 DEF ToldInv
  <2>4. (parsed = Empty \/ parsed = Loaded(Parse(messages.calls)))'
    BY <1>1, <2>2 DEF ToldInv
  <2> QED
    BY <1>1, <2>3, <2>4 DEF ToldInv, vars
<1>2. ASSUME roots = NoTx, UNCHANGED <<parsed, answers, heights>> PROVE ToldInv'
  <2>1. answers' = <<>> /\ DOMAIN answers' = {}
    BY <1>2 DEF LogInv
  <2>2. parsed' = Empty
    BY <1>2 DEF LogInv, ToldInv, Loaded
  <2> QED
    BY <1>2, <2>1, <2>2 DEF ToldInv
<1>3. CASE BuildStack
  <2>1. UNCHANGED <<heights, roots, messages, parsed, answers>>
    BY <1>3 DEF BuildStack, logVars, Next, CloseScope, OpenScope, StartDrain, Drain, Return,
       Terminated, vars
  <2>2. roots # NoTx => UNCHANGED vars
    BY <1>3 DEF TxInv, Done, BuildStack, Next, CloseScope, OpenScope, StartDrain, Drain,
       Return, Terminated
  <2> QED
    BY <1>1, <1>2, <2>1, <2>2
<1>4. CASE NewTxLogs
  BY <1>2, <1>4 DEF NewTxLogs, vars
<1>5. CASE FailToLoad
  <2>1. /\ Answer(Unreadable(messages.kind)) /\ Asking /\ messages.kind # Readable
        /\ parsed' = parsed
    BY <1>5 DEF FailToLoad, Unreadable
  <2>2. Unreadable(messages.kind) = Told(Node)
    BY <2>1 DEF Told
  <2> QED
    BY <2>1, <2>2, AnswerToldInv
<1>6. CASE LoadLogs
  <2>1. /\ Answer(Get(Parse(messages.calls))) /\ Asking /\ messages.kind = Readable
        /\ parsed' = Loaded(Parse(messages.calls))
    BY <1>6 DEF LoadLogs
  <2> QED
    BY <2>1, GetTold, AnswerToldInv
<1>7. CASE GetLogs
  <2>1. Answer(Get(parsed.tree)) /\ Asking /\ parsed' = parsed /\ parsed.loaded
        /\ messages.kind = Readable
    BY <1>7 DEF GetLogs, LogInv
  <2>2. parsed = Loaded(Parse(messages.calls))
    BY <2>1 DEF ToldInv, Empty
  <2>3. parsed.tree = Parse(messages.calls)
    BY <2>2 DEF Loaded
  <2> QED
    BY <2>1, <2>3, GetTold, AnswerToldInv
<1> QED
  BY <1>1, <1>3, <1>4, <1>5, <1>6, <1>7 DEF LogNext, allVars, logVars

\* All of it together is inductive.
LEMMA LookupInvariant == LogSpec => []LookupInv
<1>1. LookupInv /\ [LogNext]_allVars => LookupInv'
  BY StepTreeInv, StepLogInv, StepTxInv, StepToldInv DEF LookupInv
<1> QED
  BY <1>1, InitLookupInv, PTL DEF LogSpec

\* What an answer is, once there is one.
LEMMA AnswerIs ==
    ASSUME LookupInv, NEW n \in DOMAIN answers
    PROVE  /\ roots # NoTx /\ Done /\ n - 1 \in 0 .. Len(heights)
           /\ answers[n] = Told(n - 1)
<1>1. answers \in Seq(Elements(answers)) /\ Len(answers) <= Len(heights) + 1
  BY DEF LookupInv, LogInv, ToldInv
<1>2. answers # <<>>
  OBVIOUS
<1>3. roots # NoTx
  BY <1>2 DEF LookupInv, LogInv
<1>4. Done
  BY <1>3 DEF LookupInv, TxInv
<1>5. Len(heights) \in Nat
  BY <1>4, FinishedTree DEF LookupInv
<1>6. n - 1 \in 0 .. Len(heights)
  BY <1>1, <1>5
<1> QED
  BY <1>3, <1>4, <1>6 DEF LookupInv, ToldInv

\* The variables of TxLogs keep their types, and every answer is the logs of a
\* call that is in the logs, or one of the three errors (util/logs.rs).
THEOREM LogsTyped == LogSpec => []LogTypeOK
<1>1. LookupInv => LogTypeOK
  <2> SUFFICES ASSUME LookupInv PROVE LogTypeOK
    OBVIOUS
  <2>1. ASSUME NEW n \in DOMAIN answers
        PROVE  IF answers[n].ok THEN answers[n].call \in messages.calls
               ELSE answers[n].error \in {"NoLogs", "Parse", "FailedIxTrace"}
    <3> DEFINE call == TraceIxCall(Parse(messages.calls), path[n - 1])
    <3>1. answers[n] = Told(n - 1) /\ (call = NoCall \/ call \in messages.calls)
      BY AnswerIs, LedToSome DEF LookupInv
    <3>2. answers[n] = IF messages.kind = Readable
                       THEN IF call = NoCall THEN Error("FailedIxTrace") ELSE LogsOf(call)
                       ELSE Unreadable(messages.kind)
      BY <3>1 DEF Told, CallOrError
    <3> HIDE DEF call
    <3> QED
      BY <3>1, <3>2 DEF Error, LogsOf, Unreadable
  <2> QED
    BY <2>1 DEF LogTypeOK, LookupInv, TxInv, ToldInv
<1> QED
  BY <1>1, LookupInvariant, PTL

\* Whatever is left of the logs, a parser gets the logs of its own instruction
\* or an error, never those of another call: if no precompile ran before the
\* root and the node reports heights (util/logs.rs, trace_ix_call).
THEOREM NeverAnothersLogs == LogSpec => []OwnLogsOrNone
<1>1. LookupInv => OwnLogsOrNone
  <2> SUFFICES ASSUME LookupInv, roots # NoTx, NoSilentBefore, FromRuntime,
                      NEW n \in DOMAIN answers, answers[n].ok
               PROVE  answers[n].call = Own(n)
    BY DEF OwnLogsOrNone
  <2> DEFINE call == TraceIxCall(Parse(messages.calls), path[n - 1])
  <2>1. /\ answers[n] = Told(n - 1)
        /\ call = IF Own((n - 1) + 1) \in messages.calls THEN Own((n - 1) + 1) ELSE NoCall
    BY AnswerIs, LedToOwn DEF LookupInv
  <2>2. answers[n] = IF messages.kind = Readable
                     THEN IF call = NoCall THEN Error("FailedIxTrace") ELSE LogsOf(call)
                     ELSE Unreadable(messages.kind)
    BY <2>1 DEF Told, CallOrError
  <2>3. (n - 1) + 1 = n
    BY DEF LookupInv, LogInv
  <2> HIDE DEF call
  <2>4. call = Own(n) \/ call = NoCall
    BY <2>1, <2>3
  <2> QED
    BY <2>2, <2>4 DEF Error, LogsOf, Unreadable
<1> QED
  BY <1>1, LookupInvariant, PTL

\* And it gets them whenever they are there: the path that the fold of the
\* stack heights gave an instruction leads to the same call in the log tree,
\* whatever the heights and wherever the logs end.
THEOREM OwnLogsAreFound == LogSpec => []OwnLogsFound
<1>1. LookupInv => OwnLogsFound
  <2> SUFFICES ASSUME LookupInv, roots # NoTx, NoSilentBefore, FromRuntime,
                      NEW n \in DOMAIN answers, Own(n) \in messages.calls
               PROVE  answers[n] = LogsOf(Own(n))
    BY DEF OwnLogsFound
  <2> DEFINE call == TraceIxCall(Parse(messages.calls), path[n - 1])
  <2>1. /\ answers[n] = Told(n - 1)
        /\ call = IF Own((n - 1) + 1) \in messages.calls THEN Own((n - 1) + 1) ELSE NoCall
    BY AnswerIs, LedToOwn DEF LookupInv
  <2>2. (n - 1) + 1 = n
    BY DEF LookupInv, LogInv
  <2>3. call = Own(n) /\ Own(n) # NoCall
    BY <2>1, <2>2 DEF Own, NoCall
  <2>4. messages.kind = Readable
    BY DEF LookupInv, TxInv
  <2> QED
    BY <2>1, <2>3, <2>4 DEF Told, CallOrError
<1> QED
  BY <1>1, LookupInvariant, PTL
================================================================================
