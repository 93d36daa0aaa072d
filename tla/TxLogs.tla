-------------------------------- MODULE TxLogs --------------------------------
(***************************************************************************)
(* TxLogs (util/logs.rs): a transaction's log messages are parsed once, on  *)
(* demand, into the calls that the runtime announced in them, and a parser  *)
(* that looks at an instruction finds its logs there by the instruction's   *)
(* path.  So two trees of the same transaction have to agree: the one that  *)
(* InstructionStack folds from the stack heights a node reports, and the   *)
(* one in the logs, which has no entry for a precompile, which logs         *)
(* nothing, and may end early, because logs are truncated.                  *)
(*                                                                         *)
(* InstructionStack's instruction is one root instruction among others.    *)
(***************************************************************************)
EXTENDS InstructionStack

CONSTANTS
    DepthSeqs,   \* what the inner calls of a root can look like: their depths
    OtherRoots   \* the root instructions before and after the one examined

\* A root instruction as it ran.  calls[n] is the depth of its n-th inner call.
RootIx == [silent : BOOLEAN, calls : Seq(Nat)]

ASSUME LogAssumption ==
    /\ DepthSeqs \subseteq Seq(Nat)
    /\ OtherRoots \subseteq [before : Seq(RootIx), after : Seq(RootIx)]
    /\ \A o \in OtherRoots : Len(o.before) = RootIndex

Missing == "missing"    \* meta.log_messages is empty
Garbled == "garbled"    \* the log parser gives up
Readable == "readable"

VARIABLES
    roots,     \* the root instructions of the transaction
    messages,  \* meta.log_messages: missing, garbled, or the first calls announced
    parsed,    \* the OnceCell: empty, or the tree of the calls in the logs
    answers    \* what each node's parser was told, the root's first

logVars == <<roots, messages, parsed, answers>>
allVars == <<vars, logVars>>

NoTx == <<>>
Empty == [loaded |-> FALSE]
Loaded(tree) == [loaded |-> TRUE, tree |-> tree]
Error(kind) == [ok |-> FALSE, error |-> kind]
LogsOf(call) == [ok |-> TRUE, call |-> call]

--------------------------------------------------------------------------------
(* The transaction as it ran and as it was logged *)

\* A call is named by its root and by its position there; 0 is the root itself.

\* the call that was running when the n-th call of a root was made
Caller(calls, n) ==
    LET open == {m \in 1 .. n - 1 : calls[m] < calls[n]}
    IN  IF open = {} THEN 0 ELSE CHOOSE m \in open : \A o \in open : o <= m

\* the calls announced in the logs
Announced(rs) ==
    UNION {{r} \X (0 .. Len(rs[r].calls)) : r \in {q \in DOMAIN rs : ~rs[q].silent}}

\* and their order there
Before(d, c) == d[1] < c[1] \/ (d[1] = c[1] /\ d[2] < c[2])

--------------------------------------------------------------------------------
(* The log tree and trace_ix_call *)

NoCall == <<>>

\* Mutant of Parse: the calls below a call are all taken for its direct ones.
ParseFlat(calls) ==
    [roots |-> {c \in calls : c[2] = 0},
     invocations |-> [c \in calls |-> {d \in calls : d[1] = c[1] /\ d[2] > c[2]}]]

\* The parsed logs: the roots that logged, and the direct calls of each call.
Parse(calls) ==
    [roots |-> {c \in calls : c[2] = 0},
     invocations |-> [c \in calls |->
        {d \in calls : d[1] = c[1] /\ d[2] > 0 /\ Caller(roots[c[1]].calls, d[2]) = c[2]}]]

\* slice get() and Iterator::nth: the call with k of them before it
Nth(S, k) ==
    LET at == {c \in S : Cardinality({d \in S : Before(d, c)}) = k}
    IN  IF at = {} THEN NoCall ELSE CHOOSE c \in at : TRUE

\* from a call, or no call, to the idx-th of those it made
Below(tree, curr, idx) == IF curr = NoCall THEN NoCall ELSE Nth(tree.invocations[curr], idx)

\* Mutant of TraceIxCall: the walk starts below the first root that logged, as
\* StackIx::trace does below its own.
TraceIxCallFromRoot(tree, route) ==
    LET walk[j \in 0 .. Len(route)] ==
          IF j = 0 THEN Nth(tree.roots, 0) ELSE Below(tree, walk[j - 1], route[j])
    IN  walk[Len(route)]

\* the first element of a path counts among the roots that logged, each
\* other one among the direct calls
TraceIxCall(tree, route) ==
    LET walk[j \in 1 .. Len(route)] ==
          IF j = 1 THEN Nth(tree.roots, route[1]) ELSE Below(tree, walk[j - 1], route[j])
    IN  walk[Len(route)]

--------------------------------------------------------------------------------
LogInit ==
    /\ Init
    /\ roots = NoTx
    /\ messages = [kind |-> Missing, calls |-> {}]
    /\ parsed = Empty
    /\ answers = <<>>

BuildStack == Next /\ UNCHANGED logVars

\* The node reports the depth of a call or nothing at all.
Reports(calls) ==
    /\ Len(calls) = Len(heights)
    /\ \A n \in Nodes : heights[n] \in {calls[n], NoHeight}

\* TxLogs::new, with the rest of the transaction and its logs.
NewTxLogs ==
    /\ phase = "done" /\ roots = NoTx
    /\ \E others \in OtherRoots, calls \in {d \in DepthSeqs : Reports(d)} :
         LET rs  == others.before \o <<[silent |-> FALSE, calls |-> calls]>> \o others.after
             all == Announced(rs)
         IN  /\ roots' = rs
             /\ \/ \E kind \in {Missing, Garbled} : messages' = [kind |-> kind, calls |-> {}]
                \/ \E last \in all :
                     messages' = [kind |-> Readable,
                                  calls |-> {d \in all : d = last \/ Before(d, last)}]
    /\ UNCHANGED <<vars, parsed, answers>>

Node == Len(answers)    \* the node whose parser asks next
Asking == roots # NoTx /\ Node \in 0 .. Len(heights)

Answer(a) ==
    /\ answers' = Append(answers, a)
    /\ UNCHANGED <<vars, roots, messages>>

\* Mutant of Get: a call that is not found is passed on.
GetUnchecked(tree) == LogsOf(TraceIxCall(tree, path[Node]))

\* get, once the cell is filled
Get(tree) ==
    LET call == TraceIxCall(tree, path[Node])
    IN  IF call = NoCall THEN Error("FailedIxTrace") ELSE LogsOf(call)

\* Mutant of FailToLoad: the cell is filled although there is nothing in it.
FailToLoadCached ==
    /\ Asking /\ ~parsed.loaded
    /\ messages.kind # Readable
    /\ parsed' = Loaded([roots |-> {}, invocations |-> <<>>])
    /\ Answer(Error(IF messages.kind = Missing THEN "NoLogs" ELSE "Parse"))

\* get_or_try_init leaves the cell empty when it fails: every lookup tries again
FailToLoad ==
    /\ Asking /\ ~parsed.loaded
    /\ messages.kind # Readable
    /\ Answer(Error(IF messages.kind = Missing THEN "NoLogs" ELSE "Parse"))
    /\ UNCHANGED parsed

LoadLogs ==
    /\ Asking /\ ~parsed.loaded
    /\ messages.kind = Readable
    /\ LET tree == Parse(messages.calls)
       IN  parsed' = Loaded(tree) /\ Answer(Get(tree))

GetLogs ==
    /\ Asking /\ parsed.loaded
    /\ Answer(Get(parsed.tree))
    /\ UNCHANGED parsed

LogNext == BuildStack \/ NewTxLogs \/ FailToLoad \/ LoadLogs \/ GetLogs

LogSpec == LogInit /\ [][LogNext]_allVars

\* sequential code, as in InstructionStack
LogFairSpec == LogSpec /\ WF_allVars(LogNext)

--------------------------------------------------------------------------------
(* Properties *)

\* Every variable keeps its type, and an answer is the logs of some call or
\* one of the three errors.
LogTypeOK ==
    /\ roots \in Seq(RootIx)
    /\ messages.kind \in {Missing, Garbled, Readable}
    /\ parsed = Empty \/ parsed = Loaded(Parse(messages.calls))
    /\ Len(answers) <= Len(heights) + 1
    /\ \A n \in DOMAIN answers :
         IF answers[n].ok THEN answers[n].call \in messages.calls
         ELSE answers[n].error \in {"NoLogs", "Parse", "FailedIxTrace"}

Own(n) == <<RootIndex + 1, n - 1>>

\* No precompile ran before, so the first element of a path counts the same
\* roots in both trees.
NoSilentBefore == \A r \in 1 .. RootIndex : ~roots[r].silent

\* However much of the logs is left, a parser never reads the logs of another
\* call as its instruction's own, and hence never another swap's amounts: it
\* gets its own or an error, after which it falls back to the transfers.
\* This holds when no precompile ran before the root and the node reports
\* heights; without either it fails.
OwnLogsOrNone ==
    (roots # NoTx /\ NoSilentBefore /\ FromRuntime) =>
        \A n \in DOMAIN answers : answers[n].ok => answers[n].call = Own(n)

\* Of whole logs, every instruction finds its own: the path that the fold of
\* the heights gave it leads to the same call in the log tree.
OwnLogsFound ==
    (roots # NoTx /\ NoSilentBefore /\ FromRuntime) =>
        \A n \in DOMAIN answers : Own(n) \in messages.calls => answers[n] = LogsOf(Own(n))

\* Whether the logs can be read is the transaction's matter: if one parser is
\* told that there are none, or that they do not parse, all of them are told
\* the same, in whatever order they ask (load_logs, logs.rs:65-82).
AnswersAgree ==
    \A m, n \in DOMAIN answers :
        (~answers[m].ok /\ answers[m].error \in {"NoLogs", "Parse"}) =>
            answers[n] = answers[m]
================================================================================
