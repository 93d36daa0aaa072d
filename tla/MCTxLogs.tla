------------------------------- MODULE MCTxLogs -------------------------------
(* InstructionStack on every list of at most MaxLen heights, and TxLogs on the
   ones that a node can report for real calls. *)
EXTENDS TxLogs, MCInstructionStack

\* each call is at most one deeper than the call before
RuntimeDepths ==
    {s \in UNION {[1 .. n -> 2 .. MaxHeight] : n \in 0 .. MaxLen} :
        \A k \in DOMAIN s : s[k] <= IF k = 1 THEN 2 ELSE s[k - 1] + 1}

Precompile == [silent |-> TRUE, calls |-> <<>>]
Program(calls) == [silent |-> FALSE, calls |-> calls]

\* a precompile or a program before, and calls of another root after, or none
FewRoots ==
    {[before |-> <<Precompile>>, after |-> <<>>],
     [before |-> <<Precompile>>, after |-> <<Program(<<2, 3, 2>>)>>],
     [before |-> <<Program(<<2, 3>>)>>, after |-> <<Program(<<2>>)>>]}
================================================================================
