-------------------------- MODULE MCInstructionStack --------------------------
(* InstructionStack on every list of at most MaxLen heights. *)
EXTENDS InstructionStack

CONSTANTS MaxLen, MaxHeight

\* 2 .. MaxHeight, or no height at all, at every position
AllHeights == UNION {[1 .. n -> (2 .. MaxHeight) \cup {NoHeight}] : n \in 0 .. MaxLen}
================================================================================
