--------------------------- MODULE InstructionStack ---------------------------
(***************************************************************************)
(* build_ix_stack (transaction/instruction.rs): the flat list of inner     *)
(* instructions that a node reports for one top-level instruction, each    *)
(* with the stack height it ran at, is folded into the tree of cross       *)
(* program calls.  Nodes are named by their position 1 .. n in the list; 0  *)
(* is the top-level instruction itself.                                    *)
(***************************************************************************)
EXTENDS Integers, Sequences, FiniteSets, SequencesExt

CONSTANTS
    NoHeight,    \* the height of an instruction reported without one (None)
    RootIndex,   \* index of the top-level instruction in its transaction
    U8Max,       \* the largest value of the child counters, a u8
    HeightSeqs   \* the lists of heights that are explored

ASSUME HeightAssumption ==
    /\ NoHeight \notin Nat
    /\ RootIndex \in Nat
    /\ U8Max \in Nat
    \* one transaction runs at most 64 instructions, far below 2^8
    /\ HeightSeqs \subseteq {s \in Seq(Nat \cup {NoHeight}) : Len(s) <= U8Max}

VARIABLES
    heights,    \* the input, inner_ixs[..].height
    next,       \* the next input position to place
    stack,      \* the open scopes, innermost last: (node, its height, count)
    inner,      \* inner[p]: the children attached to p so far
    path,       \* path[p]: the Path of p
    rootCount,  \* root_child_count
    phase       \* "place" the inputs, "drain" the stack, then "done"

vars == <<heights, next, stack, inner, path, rootCount, phase>>

Nodes == 1 .. Len(heights)

\* a height is a valid parent of a later height; None is a barrier
MayCall(p, c) == p # NoHeight /\ c # NoHeight /\ c > p

\* the node that a node opened at depth k of the stack belongs to
ParentAt(k) == IF k = 1 THEN 0 ELSE stack[k - 1].id

\* Mutant of Increment: the counter is read but not advanced.
IncrementForgotten(count) == count

\* Mutant of Increment: the counter runs downwards.
IncrementDown(count) == count - 1

Increment(count) == (count + 1) % (U8Max + 1)

--------------------------------------------------------------------------------
Init ==
    /\ heights \in HeightSeqs
    /\ next = 1
    /\ stack = <<>>
    /\ inner = [p \in 0 .. Len(heights) |-> <<>>]
    /\ path = [p \in 0 .. Len(heights) |-> IF p = 0 THEN <<RootIndex>> ELSE <<>>]
    /\ rootCount = 0
    /\ phase = "place"

\* Mutant of Attach: a finished node goes before its elder siblings.
AttachInFront ==
    LET depth  == Len(stack)
        parent == ParentAt(depth)
    IN  /\ inner' = [inner EXCEPT ![parent] = <<stack[depth].id>> \o @]
        /\ stack' = IF depth = 1
                    THEN <<>>
                    ELSE [SubSeq(stack, 1, depth - 1)
                            EXCEPT ![depth - 1].count = Increment(@)]

\* the finished top of the stack goes to the new top, or to the root
Attach ==
    LET depth  == Len(stack)
        parent == ParentAt(depth)
    IN  /\ inner' = [inner EXCEPT ![parent] = Append(@, stack[depth].id)]
        /\ stack' = IF depth = 1
                    THEN <<>>
                    ELSE [SubSeq(stack, 1, depth - 1)
                            EXCEPT ![depth - 1].count = Increment(@)]

\* Mutant of ParentFound: an instruction of the same height is taken for a callee.
ParentFoundAtSameHeight ==
    /\ stack # <<>>
    /\ stack[Len(stack)].height # NoHeight /\ heights[next] # NoHeight
    /\ heights[next] >= stack[Len(stack)].height

\* Mutant of ParentFound: an instruction without a height does not close the
\* scopes around it.
ParentFoundAcrossNone ==
    stack # <<>> /\ \/ stack[Len(stack)].height = NoHeight
                    \/ MayCall(stack[Len(stack)].height, heights[next])

ParentFound ==
    stack # <<>> /\ MayCall(stack[Len(stack)].height, heights[next])

\* one turn of the loop that closes scopes before an instruction is placed
CloseScope ==
    /\ phase = "place" /\ next \in Nodes
    /\ stack # <<>> /\ ~ParentFound
    /\ Attach
    /\ rootCount' = IF Len(stack) = 1 THEN Increment(rootCount) ELSE rootCount
    /\ UNCHANGED <<heights, next, path, phase>>

\* the instruction is placed below the top of the stack, or below the root
OpenScope ==
    /\ phase = "place" /\ next \in Nodes
    /\ stack = <<>> \/ ParentFound
    /\ path' = [path EXCEPT ![next] =
                  IF stack = <<>>
                  THEN Append(path[0], rootCount)
                  ELSE Append(path[stack[Len(stack)].id], stack[Len(stack)].count)]
    /\ stack' = Append(stack, [id |-> next, height |-> heights[next], count |-> 0])
    /\ next' = next + 1
    /\ UNCHANGED <<heights, inner, rootCount, phase>>

StartDrain ==
    /\ phase = "place" /\ next \notin Nodes
    /\ phase' = "drain"
    /\ UNCHANGED <<heights, next, stack, inner, path, rootCount>>

\* Mutant of Drain: the top of the stack is looked at and not popped.
DrainWithoutPop == phase = "drain" /\ stack # <<>> /\ UNCHANGED vars

\* the drain leaves root_child_count alone
Drain ==
    /\ phase = "drain" /\ stack # <<>>
    /\ Attach
    /\ UNCHANGED <<heights, next, path, rootCount, phase>>

Return ==
    /\ phase = "drain" /\ stack = <<>>
    /\ phase' = "done"
    /\ UNCHANGED <<heights, next, stack, inner, path, rootCount>>

Terminated == phase = "done" /\ UNCHANGED vars

Next == CloseScope \/ OpenScope \/ StartDrain \/ Drain \/ Return \/ Terminated

Spec == Init /\ [][Next]_vars

\* the loops are sequential code: nothing can keep them from going on
FairSpec == Spec /\ WF_vars(Next)

--------------------------------------------------------------------------------
(* Reading the finished tree *)

\* flat_inner_instructions: every node's subtree right after the node itself
Flat ==
    LET below[p \in 0 .. Len(heights)] ==
          FlattenSeq([k \in 1 .. Len(inner[p]) |->
                        <<inner[p][k]>> \o below[inner[p][k]]])
    IN  below[0]

\* StackIx::trace from p along a list of child numbers; -1 when there is none
Trace(p, route) ==
    FoldLeft(LAMBDA curr, idx :
               IF curr = -1 \/ idx \notin 0 .. Len(inner[curr]) - 1
               THEN -1 ELSE inner[curr][idx + 1],
             p, route)

--------------------------------------------------------------------------------
(* Properties *)

Done == phase = "done"

\* Every variable keeps its type; the child counters never pass u8.
TypeOK ==
    /\ heights \in HeightSeqs
    /\ next \in 1 .. Len(heights) + 1
    /\ stack \in Seq([id : Nodes, height : Nat \cup {NoHeight}, count : 0 .. U8Max])
    /\ inner \in [0 .. Len(heights) -> Seq(Nodes)]
    /\ path \in [0 .. Len(heights) -> Seq(Nat)]
    /\ rootCount \in 0 .. U8Max
    /\ phase \in {"place", "drain", "done"}

\* Whatever heights the node reports, flattening the finished tree in
\* preorder gives the inner instructions back in the order they ran: none is
\* lost, duplicated or moved (instruction.rs:41-48).
FlatIsInputOrder == Done => Flat = [n \in Nodes |-> n]

\* A path is written when its node is opened, before the node and its elder
\* siblings are attached; at every moment the k-th child attached to p has
\* the path of p followed by k - 1.
PathsArePositions ==
    \A p \in 0 .. Len(heights) : \A k \in 1 .. Len(inner[p]) :
        path[inner[p][k]] = Append(path[p], k - 1)

\* The instruction that can have called n: the last one before n with a
\* smaller height and no instruction without a height from it up to n; the
\* root when there is none.
Callers(n) ==
    {m \in 1 .. n - 1 : /\ MayCall(heights[m], heights[n])
                        /\ \A i \in m .. n : heights[i] # NoHeight}

\* Every node ends below its caller.  Two scopes closed in the wrong order, or
\* one too few, would hand the node to a sibling or an uncle.
ParentIsCaller ==
    Done => \A n \in Nodes :
        \E p \in 0 .. Len(heights) :
            /\ p = IF Callers(n) = {} THEN 0
                   ELSE CHOOSE m \in Callers(n) : \A o \in Callers(n) : o <= m
            /\ \E k \in 1 .. Len(inner[p]) : inner[p][k] = n

\* Heights as the runtime reports them: 2 for a direct call of the top-level
\* instruction, and at most one more than the call before.
FromRuntime ==
    \A n \in Nodes :
        /\ heights[n] # NoHeight /\ heights[n] >= 2
        /\ heights[n] <= IF n = 1 THEN 2 ELSE heights[n - 1] + 1

\* For such heights a node sits exactly as deep in the tree as the stack
\* height it ran at.
DepthIsStackHeight ==
    (Done /\ FromRuntime) => \A n \in Nodes : Len(path[n]) = heights[n]

\* No list of heights keeps the loops from ending.
Terminates == <>Done

\* The tree is grown as CpiTree says.  A call appears there when it is
\* placed, here only when its scope is closed: the children of p are the
\* attached ones and the one whose scope is still open.
OpenChild(p) == {stack[k].id : k \in {j \in DOMAIN stack : ParentAt(j) = p}}

Tree == INSTANCE CpiTree WITH
    calls    <- next - 1,
    children <- [p \in 0 .. next - 1 |-> inner[p] \o SetToSeq(OpenChild(p))],
    path     <- [p \in 0 .. next - 1 |-> path[p]]

ImplementsCpiTree == Tree!TreeSpec

\* instruction.rs:59-64: path() identifies an instruction "from the root
\* transaction", and trace() "looks up the instruction at `path`, searching
\* this instruction and its full nested tree": an instruction would be found
\* by its own path.
TraceFindsOwnPath == Done => \A n \in Nodes : Trace(0, path[n]) = n
================================================================================
