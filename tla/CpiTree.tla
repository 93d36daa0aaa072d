-------------------------------- MODULE CpiTree --------------------------------
(***************************************************************************)
(* What build_ix_stack (transaction/instruction.rs) promises, without its  *)
(* stack: the flat list of inner instructions of one top-level instruction *)
(* becomes a tree that is grown in the order of the list.  A new call is    *)
(* always made by a call that is still running, and the calls that can     *)
(* still be running are the ones on the way from the root to the last call *)
(* made; each call's path is its caller's path followed by the number of   *)
(* calls the caller had made before.                                       *)
(***************************************************************************)
EXTENDS Naturals, Sequences, SequencesExt

CONSTANT RootIndex  \* index of the top-level instruction in its transaction

VARIABLES
    calls,      \* number of calls placed so far; they are named 1 .. calls
    children,   \* children[p]: the calls made by p, in order; 0 is the root
    path        \* path[p]: the position of p, from the transaction down

treeVars == <<calls, children, path>>

TreeTypeOK ==
    /\ calls \in Nat
    /\ children \in [0 .. calls -> Seq(1 .. calls)]
    /\ path \in [0 .. calls -> Seq(Nat)]

TreeInit ==
    /\ calls = 0
    /\ children = [p \in {0} |-> <<>>]
    /\ path = [p \in {0} |-> <<RootIndex>>]

\* p may still be running when the next call is made
MayBeRunning(p) == IsPrefix(path[p], path[calls])

Call(p) ==
    /\ MayBeRunning(p)
    /\ calls' = calls + 1
    /\ children' = [q \in 0 .. calls + 1 |->
                      CASE q = p         -> Append(children[p], calls + 1)
                        [] q = calls + 1 -> <<>>
                        [] OTHER         -> children[q]]
    /\ path' = [q \in 0 .. calls + 1 |->
                  IF q = calls + 1 THEN Append(path[p], Len(children[p])) ELSE path[q]]

TreeNext == \E p \in 0 .. calls : Call(p)

TreeSpec == TreeInit /\ [][TreeNext]_treeVars
================================================================================
