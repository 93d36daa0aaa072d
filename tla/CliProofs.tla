------------------------------- MODULE CliProofs -------------------------------
(***************************************************************************)
(* Cli for every command line: whatever the node answers, each signature    *)
(* gets its own answer in its own place, instructions are read with the    *)
(* keys that the runtime had, and lines show what the mints' accounts say. *)
(***************************************************************************)
EXTENDS Cli, ProofLemmas, FiniteSetTheorems

--------------------------------------------------------------------------------
(* The inductive invariant behind EachSignatureAlone *)

Looked == {"collect", "mint_accounts", "metadata_accounts", "place", "print"}

\* the signatures that the loop is past have their answers
Answered ==
    /\ answers \in Seq(Elements(answers))
    /\ Len(answers) = n - 1
    /\ \A k \in DOMAIN answers : answers[k].kind \in OwnAnswers(sigs[k])

\* where the loop can be with a signature
Placed ==
    /\ sigs \in Seq(Signatures) /\ Len(sigs) > 0 /\ phase \in Phases
    /\ n \in 1 .. Len(sigs) + 1
    /\ phase = "exit" <=> n = Len(sigs) + 1

\* what is known of the current signature by then
Known ==
    /\ phase \in {"fetch", "parse"} \cup Looked => sigs[n].valid
    /\ phase = "parse" => tx = RpcConvert(sigs[n].record)
    /\ phase \in Looked =>
         /\ RpcConvert(sigs[n].record).kind = "ok"
         /\ sigs[n].parse.kind = "swaps" /\ sigs[n].parse.swaps # <<>>
    /\ phase \in {"metadata_accounts", "place"} => accounts \in [DOMAIN mints -> MintAccounts]
    /\ phase = "panicked" => sigs[n].parse.kind = "panic" \/ Short \in ToSet(accounts)

CliInv == Answered /\ Placed /\ Known

LEMMA InitCliInv == Init => CliInv
<1> SUFFICES ASSUME Init PROVE CliInv
  OBVIOUS
<1>1. sigs \in Seq(Signatures) /\ sigs # <<>>
  BY CliAssumption DEF Init
<1>2. Len(sigs) \in Nat /\ Len(sigs) > 0
  BY <1>1
<1>3. Placed
  BY <1>1, <1>2 DEF Init, Placed, Phases
<1>4. answers = <<>> /\ n = 1
  BY DEF Init
<1>5. Answered
  BY <1>4 DEF Answered, Elements
<1>6. Known
  BY DEF Init, Known, Looked
<1> QED
  BY <1>3, <1>5, <1>6 DEF CliInv

\* The end of the loop's body, with an answer that is the signature's own.
LEMMA AnswerCliInv ==
    ASSUME CliInv, NEW STATE a, Answer(a), phase # "exit", sigs' = sigs,
           a.kind \in OwnAnswers(sigs[n])
    PROVE  CliInv'
<1>1. answers \in Seq(Elements(answers)) /\ Len(answers) = n - 1
  BY DEF CliInv, Answered
<1>2. /\ answers' \in Seq(Elements(answers'))
      /\ Len(answers') = Len(answers) + 1
      /\ DOMAIN answers' = DOMAIN answers \cup {Len(answers) + 1}
      /\ \A k \in DOMAIN answers : answers'[k] = answers[k]
      /\ answers'[Len(answers) + 1] = a
  BY <1>1, AppendedElements DEF Answer
<1>3. n \in 1 .. Len(sigs) /\ Len(sigs) \in Nat
  BY DEF CliInv, Placed
<1>4. Answered'
  <2>1. Len(answers') = n' - 1
    BY <1>1, <1>2, <1>3 DEF Answer
  <2>2. \A k \in DOMAIN answers' : answers'[k].kind \in OwnAnswers(sigs[k])
    BY <1>1, <1>2, <1>3 DEF CliInv, Answered
  <2> QED
    BY <1>2, <2>1, <2>2 DEF Answered, Elements, OwnAnswers
<1>5. n' = n + 1 /\ phase' = IF n = Len(sigs) THEN "exit" ELSE "signature"
  BY DEF Answer
<1>6. Placed'
  <2>1. sigs' \in Seq(Signatures) /\ Len(sigs') = Len(sigs) /\ Len(sigs) > 0
    BY DEF CliInv, Placed
  <2>2. n' \in 1 .. Len(sigs) + 1 /\ (n' = Len(sigs) + 1 <=> n = Len(sigs))
    BY <1>3, <1>5
  <2>3. phase' \in Phases /\ (phase' = "exit" <=> n = Len(sigs))
    BY <1>5 DEF Phases
  <2> QED
    BY <2>1, <2>2, <2>3 DEF Placed
<1>7. Known'
  BY <1>5 DEF Known, Looked
<1> QED
  BY <1>4, <1>6, <1>7 DEF CliInv

\* A step within the loop's body.
LEMMA GotoCliInv ==
    ASSUME CliInv, NEW p \in Phases \ {"exit"}, Goto(p), phase # "exit", sigs' = sigs, Known'
    PROVE  CliInv'
BY DEF CliInv, Goto, Answered, Placed, Elements, OwnAnswers

LEMMA StepCliInv == CliInv /\ [Next]_vars => CliInv'
<1> SUFFICES ASSUME CliInv, [Next]_vars PROVE CliInv'
  OBVIOUS
<1> USE DEF At
<1>1. CASE UNCHANGED vars
  BY <1>1 DEF vars, locals, CliInv, Answered, Placed, Known, OwnAnswers
<1>3. CASE InvalidSignature
  <2>1. PICK a : Answer(a) /\ a.kind = "invalid" /\ phase # "exit" /\ sigs' = sigs /\ ~sigs[n].valid
    BY <1>3 DEF InvalidSignature
  <2> QED
    BY <2>1, AnswerCliInv DEF OwnAnswers
<1>4. CASE ValidSignature
  <2>1. Known'
    BY <1>4 DEF ValidSignature, Goto, Known, Looked
  <2> QED
    BY <1>4, <2>1, GotoCliInv DEF ValidSignature, Phases
<1>5. CASE FetchFails
  <2>1. sigs[n].valid
    BY <1>5 DEF FetchFails, CliInv, Known
  <2> QED
    BY <1>5, <2>1, AnswerCliInv DEF FetchFails, OwnAnswers
<1>6. CASE Fetch
  <2>1. Known'
    BY <1>6 DEF Fetch, Goto, CliInv, Known, Looked
  <2> QED
    BY <1>6, <2>1, GotoCliInv DEF Fetch, Phases
<1>7. CASE phase = "parse" /\ (NotConverted \/ ParseFails \/ ParsePanics \/ NoSwaps \/ SomeSwaps)
  <2>1. sigs[n].valid /\ tx = RpcConvert(sigs[n].record)
    BY <1>7 DEF CliInv, Known
  <2>2. CASE NotConverted
    <3>1. PICK a : Answer(a) /\ a.kind = "error" /\ sigs' = sigs /\ tx.kind = "error"
      BY <2>2 DEF NotConverted
    <3> QED
      BY <1>7, <2>1, <3>1, AnswerCliInv DEF OwnAnswers
  <2>3. CASE ParseFails
    <3>1. PICK a : Answer(a) /\ a.kind = "error" /\ sigs' = sigs /\ sigs[n].parse.kind = "error"
      BY <2>3 DEF ParseFails, Parsed
    <3> QED
      BY <1>7, <2>1, <3>1, AnswerCliInv DEF OwnAnswers
  <2>4. CASE ParsePanics
    <3>1. Known'
      BY <2>4 DEF ParsePanics, Parsed, Panic, Goto, locals, Known, Looked
    <3> QED
      BY <1>7, <2>4, <3>1, GotoCliInv DEF ParsePanics, Parsed, Panic, Phases
  <2>5. CASE NoSwaps
    <3>1. PICK a : /\ Answer(a) /\ a.kind = "nothing" /\ sigs' = sigs
                   /\ sigs[n].parse.kind = "swaps" /\ sigs[n].parse.swaps = <<>> /\ tx.kind = "ok"
      BY <2>5 DEF NoSwaps, Parsed
    <3> QED
      BY <1>7, <2>1, <3>1, AnswerCliInv DEF OwnAnswers
  <2>6. CASE SomeSwaps
    <3>1. Known'
      BY <2>1, <2>6 DEF SomeSwaps, Parsed, Goto, Known, Looked
    <3> QED
      BY <1>7, <2>6, <3>1, GotoCliInv DEF SomeSwaps, Parsed, Phases
  <2> QED
    BY <1>7, <2>2, <2>3, <2>4, <2>5, <2>6
\* the lookup of the mints only moves between the phases in Looked
<1>8. ASSUME NEW p \in Looked, phase \in Looked, Goto(p), sigs' = sigs,
             p \in {"metadata_accounts", "place"} => accounts' \in [DOMAIN mints' -> MintAccounts]
      PROVE  CliInv'
  <2>1. Known'
    BY <1>8 DEF Goto, CliInv, Known, Looked
  <2> QED
    BY <1>8, <2>1, GotoCliInv DEF Looked, Phases
<1>9. CASE CollectMints
  <2>1. PICK p \in {"print", "mint_accounts"} : Goto(p)
    BY <1>9 DEF CollectMints
  <2> QED
    BY <1>8, <1>9, <2>1 DEF CollectMints, Looked
<1>10. CASE MintAccountsFail \/ MetadataAccountsFail \/ BrokenExtensions
  BY <1>8, <1>10 DEF MintAccountsFail, MetadataAccountsFail, BrokenExtensions, Resolving, GiveUp, Looked
<1>11. CASE GetMintAccounts
  BY <1>8, <1>11 DEF GetMintAccounts, Looked
<1>12. CASE GetMetadataAccounts
  BY <1>8, <1>12 DEF GetMetadataAccounts, CliInv, Known, Looked
<1>13. CASE NoMintState \/ WithMetadata \/ WithoutMetadata
  BY <1>8, <1>13 DEF NoMintState, WithMetadata, WithoutMetadata, Placing, Push, CliInv, Known, Looked
<1>14. CASE ShortAccount
  <2>1. K \in DOMAIN mints /\ accounts[K].kind = "short" /\ phase = "place" /\ Panic /\ sigs' = sigs
    BY <1>14 DEF ShortAccount, Placing
  <2>2. accounts[K] \in MintAccounts /\ K \in DOMAIN accounts
    BY <2>1 DEF CliInv, Known
  <2>3. accounts[K] = Short
    BY <2>1, <2>2, CliAssumption DEF Absent, Short, Garbage, Mint
  <2>4. Short \in ToSet(accounts)
    BY <2>2, <2>3 DEF ToSet
  <2>5. Known'
    BY <2>1, <2>4 DEF Panic, Goto, locals, Known, Looked
  <2> QED
    BY <2>1, <2>5, GotoCliInv DEF Panic, Phases
<1>15. CASE Resolve
  BY <1>8, <1>15 DEF Resolve, Resolving, CliInv, Known, Looked
<1>16. CASE MakeMap
  BY <1>8, <1>16 DEF MakeMap, Resolving, Looked
<1>17. CASE PrintSwaps
  <2>1. PICK a : Answer(a) /\ a.kind = "swaps" /\ phase = "print" /\ sigs' = sigs
    BY <1>17 DEF PrintSwaps
  <2>2. /\ sigs[n].valid /\ RpcConvert(sigs[n].record).kind = "ok"
        /\ sigs[n].parse.kind = "swaps" /\ sigs[n].parse.swaps # <<>>
    BY <2>1 DEF CliInv, Known, Looked
  <2> QED
    BY <2>1, <2>2, AnswerCliInv DEF OwnAnswers
<1>18. CASE Finished
  BY <1>1, <1>18 DEF Finished
<1> QED
  BY <1>1, <1>3, <1>4, <1>5, <1>6, <1>7, <1>9, <1>10, <1>11, <1>12, <1>13, <1>14, <1>15,
     <1>16, <1>17, <1>18
  DEF Next, NotConverted, ParseFails, ParsePanics, NoSwaps, SomeSwaps, Parsed

LEMMA CliInvAlone == CliInv => EachSignatureAlone
<1> SUFFICES ASSUME CliInv PROVE EachSignatureAlone
  OBVIOUS
<1>1. \A k \in DOMAIN answers : answers[k].kind \in OwnAnswers(sigs[k])
  BY DEF CliInv, Answered
<1>2. ASSUME phase = "exit" PROVE Len(answers) = Len(sigs)
  <2>1. Len(sigs) \in Nat /\ n = Len(sigs) + 1 /\ Len(answers) = n - 1
    BY <1>2 DEF CliInv, Answered, Placed
  <2> QED
    BY <2>1
<1>3. phase = "panicked" => sigs[n].parse.kind = "panic" \/ Short \in ToSet(accounts)
  BY DEF CliInv, Known
<1> QED
  BY <1>1, <1>2, <1>3 DEF EachSignatureAlone

\* For every command line and all that the node may answer, a signature that is
\* invalid, cannot be fetched, converted or parsed costs its own answer at most,
\* and only a panic keeps a later one from being answered (cli/src/main.rs).
THEOREM SignaturesAlone == Spec => []EachSignatureAlone
<1>1. Spec => []CliInv
  BY InitCliInv, StepCliInv, PTL DEF Spec
<1> QED
  BY <1>1, CliInvAlone, PTL

--------------------------------------------------------------------------------
(* ReadAsExecuted, by the key table of a converted transaction *)

\* What a conversion makes of the keys: the loaded ones are all there, or all
\* left out and the record says so.
KeysOf(record, keys) ==
    /\ keys.static = record.executed.static
    /\ \/ /\ keys.writable = record.executed.writable
          /\ keys.readonly = record.executed.readonly
       \/ /\ "loaded_addresses" \in record.omits
          /\ keys.writable = <<>> /\ keys.readonly = <<>>

\* An index is read as the runtime's key there, or as none.
LEMMA KeyRead ==
    ASSUME NEW record \in Record, NEW conv, KeysOf(record, conv.keys), NEW idx \in Nat
    PROVE  ReadAsRuntime(record, conv, idx)
<1> DEFINE S == record.executed.static
           W == record.executed.writable
           R == record.executed.readonly
           keys == conv.keys
<1>1. record.executed \in Transaction
  BY DEF Record
<1>2. S \in Seq(Keys) /\ W \in Seq(Keys) /\ R \in Seq(Keys)
  BY <1>1 DEF Transaction
<1>3. RuntimeKeys(record.executed) = (S \o W) \o R
  BY DEF RuntimeKeys
<1>4. keys.static = S
  BY DEF KeysOf
<1> HIDE DEF S, W, R
<1> DEFINE real == (S \o W) \o R
<1>5. /\ Len(S) \in Nat /\ Len(W) \in Nat /\ Len(R) \in Nat
      /\ Len(real) = Len(S) + Len(W) + Len(R)
      /\ \A k \in 1 .. Len(S) : real[k] = S[k]
      /\ \A k \in 1 .. Len(W) : real[Len(S) + k] = W[k]
      /\ \A k \in 1 .. Len(R) : real[Len(S) + Len(W) + k] = R[k]
  BY <1>2
<1>6. /\ \A k \in 1 .. Len(S) : S[k] \in Keys
      /\ \A k \in 1 .. Len(W) : W[k] \in Keys
      /\ \A k \in 1 .. Len(R) : R[k] \in Keys
  BY <1>2
<1> HIDE DEF real
<1>7. CASE keys.writable = W /\ keys.readonly = R
  <2> DEFINE read == GetKey(keys, idx)
  <2>1. read = IF idx < Len(S) THEN S[idx + 1]
               ELSE IF idx < Len(S) + Len(W) THEN W[idx - Len(S) + 1]
               ELSE IF idx < Len(real) THEN R[idx - (Len(S) + Len(W)) + 1]
               ELSE NoKey
    BY <1>4, <1>5, <1>7 DEF GetKey, KeysLen
  <2> HIDE DEF read
  <2>2. CASE idx < Len(S)
    <3>1. idx + 1 \in 1 .. Len(S) /\ idx \in 0 .. Len(real) - 1
      BY <1>5, <2>2
    <3>2. read = real[idx + 1] /\ read # NoKey
      BY <1>5, <1>6, <2>1, <2>2, <3>1, KeysAssumption
    <3> QED
      BY <1>3, <3>1, <3>2 DEF ReadAsRuntime, read, real
  <2>3. CASE ~(idx < Len(S)) /\ idx < Len(S) + Len(W)
    <3>1. /\ idx - Len(S) + 1 \in 1 .. Len(W) /\ idx \in 0 .. Len(real) - 1
          /\ Len(S) + (idx - Len(S) + 1) = idx + 1
      BY <1>5, <2>3
    <3>2. read = real[idx + 1] /\ read # NoKey
      BY <1>5, <1>6, <2>1, <2>3, <3>1, KeysAssumption
    <3> QED
      BY <1>3, <3>1, <3>2 DEF ReadAsRuntime, read, real
  <2>4. CASE ~(idx < Len(S)) /\ ~(idx < Len(S) + Len(W)) /\ idx < Len(real)
    <3>1. /\ idx - (Len(S) + Len(W)) + 1 \in 1 .. Len(R) /\ idx \in 0 .. Len(real) - 1
          /\ Len(S) + Len(W) + (idx - (Len(S) + Len(W)) + 1) = idx + 1
      BY <1>5, <2>4
    <3>2. read = real[idx + 1] /\ read # NoKey
      BY <1>5, <1>6, <2>1, <2>4, <3>1, KeysAssumption
    <3> QED
      BY <1>3, <3>1, <3>2 DEF ReadAsRuntime, read, real
  <2>5. CASE ~(idx < Len(real))
    <3>1. read = NoKey /\ idx \notin 0 .. Len(real) - 1
      BY <1>5, <2>1, <2>5
    <3> QED
      BY <1>3, <3>1 DEF ReadAsRuntime, read, real
  <2> QED
    BY <2>2, <2>3, <2>4, <2>5
<1>8. CASE "loaded_addresses" \in record.omits /\ keys.writable = <<>> /\ keys.readonly = <<>>
  <2> DEFINE read == GetKey(keys, idx)
  <2>1. read = IF idx < Len(S) THEN S[idx + 1] ELSE NoKey
    BY <1>4, <1>5, <1>8 DEF GetKey, KeysLen
  <2> HIDE DEF read
  <2>2. CASE idx < Len(S)
    <3>1. idx + 1 \in 1 .. Len(S) /\ idx \in 0 .. Len(real) - 1
      BY <1>5, <2>2
    <3>2. read = real[idx + 1] /\ read # NoKey
      BY <1>5, <1>6, <2>1, <2>2, <3>1, KeysAssumption
    <3> QED
      BY <1>3, <3>1, <3>2 DEF ReadAsRuntime, read, real
  <2>3. CASE ~(idx < Len(S))
    <3>1. read = NoKey /\ idx >= Len(S)
      BY <1>5, <2>1, <2>3
    <3> QED
      BY <1>8, <3>1 DEF ReadAsRuntime, read, S
  <2> QED
    BY <2>2, <2>3
<1> QED
  BY <1>7, <1>8 DEF KeysOf, W, R

\* So are the program and the accounts of an instruction.
LEMMA InstructionRead ==
    ASSUME NEW record \in Record, NEW conv, KeysOf(record, conv.keys), NEW ix \in Ix
    PROVE  InstructionAsExecuted(record, conv, ix)
<1>1. ix.program \in Nat /\ ix.accounts \in Seq(Nat)
  BY DEF Ix
<1>2. ReadAsRuntime(record, conv, ix.program)
  BY <1>1, KeyRead
<1>3. ASSUME NEW k \in DOMAIN ix.accounts
      PROVE  /\ ReadAsRuntime(record, conv, ix.accounts[k])
             /\ LET found == Peek(conv.keys, ix, k - 1)
                IN  found.ok => found.key = RuntimeKeys(record.executed)[ix.accounts[k] + 1]
  <2>1. ix.accounts[k] \in Nat /\ (k - 1) + 1 = k
    BY <1>1
  <2>2. ReadAsRuntime(record, conv, ix.accounts[k])
    BY <2>1, KeyRead
  <2> DEFINE found == Peek(conv.keys, ix, k - 1)
  <2>3. ASSUME found.ok
        PROVE  /\ GetKey(conv.keys, ix.accounts[k]) # NoKey
               /\ found.key = GetKey(conv.keys, ix.accounts[k])
    BY <2>1, <2>3 DEF Peek
  <2> QED
    BY <2>2, <2>3 DEF ReadAsRuntime
<1> QED
  BY <1>2, <1>3 DEF InstructionAsExecuted

\* A transaction that a conversion builds names in every instruction what the
\* runtime ran it with.
LEMMA ConvertedAsExecuted ==
    ASSUME NEW record \in Record, NEW loaded, NEW reported \in BOOLEAN,
           \/ loaded = {Loaded(record.executed)}
           \/ loaded = {} /\ "loaded_addresses" \in record.omits,
           reported \/ "inner_instructions" \in record.omits
    PROVE  AsExecuted(record, SolanaTx(record.executed, loaded, reported))
<1> DEFINE executed == record.executed
           conv == SolanaTx(executed, loaded, reported)
           roots == RootInstructions(conv)
<1>1. executed \in Transaction
  BY DEF Record
<1>2. /\ executed.roots \in Seq(Ix) /\ executed.inner \in Seq(Seq(Ix))
      /\ Len(executed.inner) = Len(executed.roots)
  BY <1>1 DEF Transaction
<1>3. KeysOf(record, conv.keys)
  <2>1. conv.keys = AccountKeys(executed.static, loaded)
    BY DEF SolanaTx
  <2>2. CASE loaded = {Loaded(executed)}
    <3>1. (CHOOSE l \in loaded : TRUE) = Loaded(executed) /\ loaded # {}
      BY <2>2
    <3> QED
      BY <2>1, <3>1 DEF KeysOf, AccountKeys, Loaded
  <2>3. CASE loaded = {} /\ "loaded_addresses" \in record.omits
    BY <2>1, <2>3 DEF KeysOf, AccountKeys
  <2> QED
    BY <2>2, <2>3
<1>4. conv.instructions = executed.roots
  BY DEF SolanaTx
<1>5. /\ DOMAIN conv.inner_instructions =
            {r \in DOMAIN executed.roots : reported /\ executed.inner[r] # <<>>}
      /\ \A r \in DOMAIN conv.inner_instructions : conv.inner_instructions[r] = executed.inner[r]
  BY DEF SolanaTx
<1> HIDE DEF conv
<1>6. DOMAIN roots = DOMAIN executed.roots
  BY <1>4 DEF RootInstructions
<1>7. ASSUME NEW r \in DOMAIN executed.roots
      PROVE  /\ roots[r].ix = executed.roots[r]
             /\ roots[r].inner = IF reported THEN executed.inner[r] ELSE <<>>
  BY <1>4, <1>5 DEF RootInstructions
<1> HIDE DEF roots
<1>8. ASSUME NEW r \in DOMAIN executed.roots
      PROVE  /\ roots[r].ix = executed.roots[r]
             /\ InstructionAsExecuted(record, conv, roots[r].ix)
             /\ \/ roots[r].inner = executed.inner[r]
                \/ "inner_instructions" \in record.omits /\ roots[r].inner = <<>>
             /\ \A k \in DOMAIN roots[r].inner :
                  InstructionAsExecuted(record, conv, roots[r].inner[k])
  <2>1. executed.roots[r] \in Ix /\ executed.inner[r] \in Seq(Ix)
    BY <1>2
  <2>2. roots[r].inner \in Seq(Ix)
    <3>1. <<>> \in Seq(Ix)
      OBVIOUS
    <3> QED
      BY <1>7, <2>1, <3>1
  <2>3. \A k \in DOMAIN roots[r].inner : roots[r].inner[k] \in Ix
    BY <2>2
  <2> QED
    BY <1>3, <1>7, <2>1, <2>3, InstructionRead
<1> QED
  BY <1>6, <1>8 DEF AsExecuted, roots, conv

\* Over RPC and over gRPC.
LEMMA BothReadAsExecuted ==
    ASSUME NEW record \in Record
    PROVE  \A read \in {RpcConvert(record), GrpcConvert(record)} :
              read.kind = "ok" => AsExecuted(record, read.tx)
<1>1. ASSUME RpcConvert(record).kind = "ok"
      PROVE  AsExecuted(record, RpcConvert(record).tx)
  <2> DEFINE loaded == IF "loaded_addresses" \in record.omits THEN {}
                       ELSE {Loaded(record.executed)}
             reported == "inner_instructions" \notin record.omits
  <2>1. RpcConvert(record).tx = SolanaTx(record.executed, loaded, reported)
    BY <1>1 DEF RpcConvert, Refused, Converted
  <2>2. reported \in BOOLEAN
    OBVIOUS
  <2> QED
    BY <2>1, <2>2, ConvertedAsExecuted
<1>2. ASSUME GrpcConvert(record).kind = "ok"
      PROVE  AsExecuted(record, GrpcConvert(record).tx)
  <2>1. GrpcConvert(record).tx = SolanaTx(record.executed, {Loaded(record.executed)}, TRUE)
    BY <1>2 DEF GrpcConvert, Refused, Converted
  <2> QED
    BY <2>1, ConvertedAsExecuted
<1> QED
  BY <1>1, <1>2

\* For every record of every transaction, whatever of it is malformed or left
\* out: each index in its instructions is read as the key that the runtime had
\* there or as none, over RPC and over gRPC, and inner instructions are found
\* under their own root only (transaction.rs, transaction/keys.rs).
THEOREM KeysOfTheRuntime == Spec => []ReadAsExecuted
<1>1. Spec => []CliInv
  BY InitCliInv, StepCliInv, PTL DEF Spec
<1>2. CliInv => ReadAsExecuted
  <2> SUFFICES ASSUME CliInv, phase = "parse" PROVE ReadAsExecuted
    BY DEF ReadAsExecuted
  <2>1. n \in 1 .. Len(sigs) + 1 /\ n # Len(sigs) + 1 /\ sigs \in Seq(Signatures)
    BY DEF CliInv, Placed
  <2>2. sigs[n] \in Signatures /\ sigs[n].valid /\ tx = RpcConvert(sigs[n].record)
    BY <2>1 DEF CliInv, Known
  <2>3. sigs[n].record \in Record
    BY <2>2 DEF Signatures
  <2> QED
    BY <2>2, <2>3, BothReadAsExecuted DEF ReadAsExecuted
<1> QED
  BY <1>1, <1>2, PTL

--------------------------------------------------------------------------------
(* The inductive invariant behind CliTypeOK and ShownAsOnChain: what the lookup
   of the mints holds, from an empty map to the infos of all of them *)

\* nothing was asked of the node for these swaps
Unfilled == infos = None /\ later = None /\ map = {}
NotAsked == mints = None /\ accounts = None /\ metas = None /\ Unfilled

\* fetch_mints_for's set, of which mints is some order
Asked == UNION {MintsIn(swaps[k]) : k \in DOMAIN swaps}

MintsInv ==
    /\ mints \in Seq(Mints)
    /\ \A i, j \in DOMAIN mints : mints[i] = mints[j] => i = j
    /\ phase = "collect" => swaps \in Seq(Swaps)
    /\ phase \in {"mint_accounts", "metadata_accounts", "place", "print"} => ToSet(mints) = Asked

\* a place holds its own mint's info, or none, and the postponed ones hold none
InfosInv ==
    /\ infos \in Seq(Elements(infos)) /\ Len(infos) <= Len(mints)
    /\ \A k \in DOMAIN infos : infos[k] # None => infos[k].pubkey = mints[k]
    /\ later \in Seq(1 .. Len(infos))
    /\ \A i, j \in DOMAIN later : later[i] = later[j] => i = j
    /\ \A j \in DOMAIN later : infos[later[j]] = None

Postponable(k) == accounts[k].kind = "mint" /\ metas[k] = "absent"
BrokenAt(k) == accounts[k].token_2022 /\ accounts[k].extensions = "broken"

\* what the k-th place holds by its accounts, once it is not postponed any more
Filled(k) ==
    /\ accounts[k].kind # "mint" => infos[k] = None
    /\ accounts[k].kind = "mint" /\ metas[k] # "absent" => infos[k] = Info(k, metas[k] = "named")
    /\ Postponable(k) /\ k \notin ToSet(later) =>
         /\ ~BrokenAt(k)
         /\ infos[k] = Info(k, accounts[k].token_2022 /\ accounts[k].extensions = "metadata")

BothFetched ==
    /\ mints # None
    /\ accounts \in [DOMAIN mints -> MintAccounts] /\ accounts # None
    /\ metas \in [DOMAIN mints -> MetaAccounts] /\ metas # None

AllFilled ==
    /\ \A k \in DOMAIN infos : Filled(k)
    /\ \A k \in ToSet(later) : Postponable(k)

LookupInv ==
    /\ phase \in {"signature", "fetch", "parse", "collect", "exit"} => NotAsked
    /\ phase = "mint_accounts" => mints # None /\ accounts = None /\ metas = None /\ Unfilled
    /\ phase = "metadata_accounts" =>
         /\ mints # None /\ accounts \in [DOMAIN mints -> MintAccounts] /\ accounts # None
         /\ metas = None /\ Unfilled
    /\ phase = "place" => map = {} /\ BothFetched /\ AllFilled
    /\ phase = "print" =>
         \/ map = {} /\ ~Resolved
         \/ /\ Resolved /\ BothFetched /\ AllFilled
            /\ later = None /\ Len(infos) = Len(mints)
            /\ map = {infos[k] : k \in DOMAIN infos} \ {None}

ShownInv == MintsInv /\ InfosInv /\ LookupInv

\* A set's elements in some order, each once.
LEMMA Enumerated ==
    ASSUME NEW S, IsFiniteSet(S), NEW s \in SetToSeqs(S)
    PROVE  /\ s \in Seq(S) /\ ToSet(s) = S
           /\ \A i, j \in DOMAIN s : s[i] = s[j] => i = j
<1> DEFINE D == 1 .. Cardinality(S)
<1>1. s \in [D -> S] /\ \A i, j \in D : i # j => s[i] # s[j]
  BY DEF SetToSeqs
<1>2. Cardinality(S) \in Nat
  BY FS_CardinalityType
<1>3. s \in Seq(S) /\ DOMAIN s = D
  BY <1>1, <1>2
<1>4. Cardinality(D) = Cardinality(S) /\ IsFiniteSet(D)
  BY <1>2, FS_Interval
<1>5. s \in Injection(D, S)
  BY <1>1 DEF Injection, IsInjective
<1>6. s \in Surjection(D, S)
  BY <1>4, <1>5, FS_Injection
<1>7. \A x \in S : \E k \in D : s[k] = x
  BY <1>6 DEF Surjection
<1>8. ToSet(s) = S
  BY <1>1, <1>3, <1>7 DEF ToSet
<1> QED
  BY <1>1, <1>3, <1>8

\* A sequence without repetitions is as long as the set of its elements.
LEMMA DistinctElements ==
    ASSUME NEW S, NEW s \in Seq(S), \A i, j \in DOMAIN s : s[i] = s[j] => i = j
    PROVE  Len(s) = Cardinality(ToSet(s))
<1> DEFINE D == 1 .. Len(s)
<1>1. Len(s) \in Nat /\ DOMAIN s = D /\ s \in [D -> ToSet(s)]
  BY DEF ToSet
<1>2. Cardinality(D) = Len(s) /\ IsFiniteSet(D)
  BY <1>1, FS_Interval
<1>3. s \in Injection(D, ToSet(s))
  BY <1>1 DEF Injection, IsInjective
<1>4. s \in Surjection(D, ToSet(s))
  BY <1>1 DEF Surjection, ToSet
<1> QED
  BY <1>2, <1>3, <1>4, FS_Surjection

\* Two facts about sequences that steps below rest on.
LEMMA SeqOfFunction ==
    ASSUME NEW S, NEW len \in Nat, NEW f \in [1 .. len -> S]
    PROVE  f \in Seq(S) /\ Len(f) = len
OBVIOUS

LEMMA WiderSeq == ASSUME NEW A, NEW B, A \subseteq B, NEW s \in Seq(A) PROVE s \in Seq(B)
OBVIOUS

\* A function on a sequence's places is a sequence over its elements.
LEMMA SamePlaces ==
    ASSUME NEW s, s \in Seq(Elements(s)), NEW t,
           DOMAIN t = DOMAIN s, t = [i \in DOMAIN t |-> t[i]]
    PROVE  t \in Seq(Elements(t)) /\ Len(t) = Len(s)
<1>1. Len(s) \in Nat /\ DOMAIN t = 1 .. Len(s)
  OBVIOUS
<1>2. \A i \in 1 .. Len(s) : t[i] \in Elements(t)
  BY <1>1 DEF Elements
<1>3. t \in [1 .. Len(s) -> Elements(t)]
  BY <1>1, <1>2
<1> QED
  BY <1>1, <1>3, SeqOfFunction

\* The first of distinct elements, and the others.
LEMMA DistinctTail ==
    ASSUME NEW S, NEW s \in Seq(S), s # <<>>, \A i, j \in DOMAIN s : s[i] = s[j] => i = j
    PROVE  /\ Head(s) = s[1] /\ 1 \in DOMAIN s
           /\ Tail(s) \in Seq(S)
           /\ \A i, j \in DOMAIN Tail(s) : Tail(s)[i] = Tail(s)[j] => i = j
           /\ \A j \in DOMAIN Tail(s) :
                j + 1 \in DOMAIN s /\ Tail(s)[j] = s[j + 1] /\ Tail(s)[j] # Head(s)
           /\ ToSet(Tail(s)) = ToSet(s) \ {Head(s)}
<1>1. /\ Len(s) \in Nat /\ Len(s) > 0 /\ DOMAIN s = 1 .. Len(s)
      /\ Tail(s) \in Seq(S) /\ Len(Tail(s)) = Len(s) - 1
      /\ DOMAIN Tail(s) = 1 .. Len(s) - 1
      /\ Head(s) = s[1]
      /\ \A j \in 1 .. Len(s) - 1 : Tail(s)[j] = s[j + 1]
  OBVIOUS
<1>2. \A j \in 1 .. Len(s) - 1 : j + 1 \in 1 .. Len(s) /\ j + 1 # 1
  BY <1>1
<1>3. \A k \in 1 .. Len(s) : k # 1 => k - 1 \in 1 .. Len(s) - 1 /\ (k - 1) + 1 = k
  BY <1>1
<1>4. \A i, j \in 1 .. Len(s) - 1 : i + 1 = j + 1 => i = j
  BY <1>1
<1>5. \A j \in 1 .. Len(s) - 1 : Tail(s)[j] = s[j + 1] /\ Tail(s)[j] # s[1]
  BY <1>1, <1>2
<1>6. \A i, j \in 1 .. Len(s) - 1 : Tail(s)[i] = Tail(s)[j] => i = j
  BY <1>1, <1>2, <1>4
<1>7. ASSUME NEW x \in ToSet(s) \ {s[1]} PROVE x \in ToSet(Tail(s))
  <2>1. PICK k \in 1 .. Len(s) : x = s[k]
    BY <1>1, <1>7 DEF ToSet
  <2>2. k - 1 \in 1 .. Len(s) - 1 /\ (k - 1) + 1 = k
    BY <1>3, <1>7, <2>1
  <2>3. x = Tail(s)[k - 1]
    BY <1>1, <2>1, <2>2
  <2> QED
    BY <1>1, <2>2, <2>3 DEF ToSet
<1>8. ToSet(Tail(s)) \subseteq ToSet(s) \ {s[1]}
  BY <1>1, <1>2, <1>5 DEF ToSet
<1> QED
  BY <1>1, <1>2, <1>5, <1>6, <1>7, <1>8

LEMMA InitShownInv == Init => ShownInv
<1> SUFFICES ASSUME Init PROVE ShownInv
  OBVIOUS
<1>1. phase = "signature" /\ NotAsked
  BY DEF Init, NotAsked, Unfilled
<1>2. mints = <<>> /\ infos = <<>> /\ later = <<>>
  BY <1>1 DEF NotAsked, Unfilled, None
<1>3. MintsInv /\ InfosInv
  BY <1>1, <1>2 DEF MintsInv, InfosInv
<1>4. LookupInv
  BY <1>1 DEF LookupInv
<1> QED
  BY <1>3, <1>4 DEF ShownInv

\* With nothing looked up the invariant holds.
LEMMA NotAskedShownInv ==
    ASSUME NotAsked', phase' \notin {"mint_accounts", "metadata_accounts", "place", "print"},
           phase' = "collect" => swaps' \in Seq(Swaps)
    PROVE  ShownInv'
<1>1. mints' = <<>> /\ infos' = <<>> /\ later' = <<>>
  BY DEF NotAsked, Unfilled, None
<1>2. MintsInv'
  BY <1>1 DEF MintsInv, ToSet
<1>3. InfosInv'
  BY <1>1 DEF InfosInv, Elements
<1>4. LookupInv'
  BY DEF LookupInv
<1> QED
  BY <1>2, <1>3, <1>4 DEF ShownInv

\* A panic leaves what was looked up as it is.
LEMMA PanicShownInv == ASSUME ShownInv, Panic PROVE ShownInv'
<1>1. MintsInv' /\ InfosInv'
  BY DEF Panic, Goto, locals, ShownInv, MintsInv, InfosInv, Elements, ToSet
<1>2. LookupInv'
  BY DEF Panic, Goto, LookupInv
<1> QED
  BY <1>1, <1>2 DEF ShownInv

\* Up to the parse nothing is looked up; the end of the loop's body drops it all.
LEMMA OutsideLookupShownInv ==
    ASSUME CliInv, ShownInv,
           \/ InvalidSignature \/ ValidSignature \/ FetchFails \/ Fetch
           \/ NotConverted \/ ParseFails \/ ParsePanics \/ NoSwaps \/ SomeSwaps
           \/ PrintSwaps
    PROVE  ShownInv'
<1>1. ASSUME NEW a, Answer(a) PROVE ShownInv'
  <2>1. NotAsked' /\ phase' \in {"exit", "signature"}
    BY <1>1 DEF Answer, NotAsked, Unfilled
  <2> QED
    BY <2>1, NotAskedShownInv
<1>2. ASSUME phase \in {"signature", "fetch", "parse"}, NEW p \in {"fetch", "parse", "collect"},
             Goto(p), UNCHANGED <<mints, accounts, metas, infos, later, map>>,
             p = "collect" => swaps' \in Seq(Swaps)
      PROVE  ShownInv'
  <2>1. NotAsked
    BY <1>2 DEF ShownInv, LookupInv
  <2>2. NotAsked' /\ phase' = p
    BY <1>2, <2>1 DEF Goto, NotAsked, Unfilled
  <2> QED
    BY <1>2, <2>2, NotAskedShownInv
<1>3. CASE InvalidSignature \/ FetchFails \/ NotConverted \/ ParseFails \/ NoSwaps
  <2>1. PICK a : Answer(a)
    BY <1>3 DEF InvalidSignature, FetchFails, NotConverted, ParseFails, NoSwaps
  <2> QED
    BY <1>1, <2>1
<1>4. CASE PrintSwaps
  <2>1. PICK a : Answer(a)
    BY <1>4 DEF PrintSwaps
  <2> QED
    BY <1>1, <2>1
<1>5. CASE ValidSignature \/ Fetch
  BY <1>2, <1>5 DEF ValidSignature, Fetch, At, locals
<1>6. CASE ParsePanics
  BY <1>6, PanicShownInv DEF ParsePanics
<1>7. CASE SomeSwaps
  <2>1. /\ phase = "parse" /\ sigs[n].parse.kind = "swaps" /\ swaps' = sigs[n].parse.swaps
        /\ Goto("collect") /\ UNCHANGED <<mints, accounts, metas, infos, later, map>>
    BY <1>7 DEF SomeSwaps, Parsed, At
  <2>2. n \in 1 .. Len(sigs) + 1 /\ n # Len(sigs) + 1 /\ sigs \in Seq(Signatures)
    BY <2>1 DEF CliInv, Placed
  <2>3. sigs[n] \in Signatures /\ sigs[n].valid
    BY <2>1, <2>2 DEF CliInv, Known
  <2>4. sigs[n].parse \in Parses
    BY <2>3 DEF Signatures
  <2>5. swaps' \in Seq(Swaps)
    BY <2>1, <2>4 DEF Parses
  <2> QED
    BY <1>2, <2>1, <2>5
<1> QED
  BY <1>3, <1>4, <1>5, <1>6, <1>7

\* The mints of some swaps are finitely many.
LEMMA AskedMints ==
    ASSUME NEW ss \in Seq(Swaps)
    PROVE  LET S == UNION {MintsIn(ss[k]) : k \in DOMAIN ss}
           IN  S \subseteq Mints /\ IsFiniteSet(S)
<1> DEFINE S == UNION {MintsIn(ss[k]) : k \in DOMAIN ss}
<1>1. ASSUME NEW swap \in Swaps PROVE MintsIn(swap) \subseteq Mints
  BY DEF Swaps, MintsIn
<1>2. \A k \in DOMAIN ss : ss[k] \in Swaps
  OBVIOUS
<1>3. S \subseteq Mints
  BY <1>1, <1>2
<1> HIDE DEF S
<1>4. IsFiniteSet(S)
  BY <1>3, CliAssumption, FS_Subset
<1> QED
  BY <1>3, <1>4 DEF S

\* The mints asked for are all those of the swaps, each once.
LEMMA CollectShownInv == ASSUME ShownInv, CollectMints PROVE ShownInv'
<1>1. /\ phase = "collect" /\ mints' \in SetToSeqs(Asked)
      /\ phase' = IF mints' = None THEN "print" ELSE "mint_accounts"
      /\ UNCHANGED <<swaps, accounts, metas, infos, later, map>>
  BY DEF CollectMints, At, Goto, Asked
<1>2. NotAsked /\ swaps \in Seq(Swaps)
  BY <1>1 DEF ShownInv, LookupInv, MintsInv
<1>3. Asked \subseteq Mints /\ IsFiniteSet(Asked)
  BY <1>2, AskedMints DEF Asked
<1>4. mints' \in Seq(Asked) /\ ToSet(mints') = Asked /\ \A i, j \in DOMAIN mints' : mints'[i] = mints'[j] => i = j
  BY <1>1, <1>3, Enumerated
<1>5. MintsInv'
  <2>1. mints' \in Seq(Mints)
    BY <1>3, <1>4
  <2>2. ToSet(mints)' = Asked'
    BY <1>1, <1>4 DEF Asked, ToSet
  <2> QED
    BY <1>1, <1>4, <2>1, <2>2 DEF MintsInv
<1>6. InfosInv'
  <2>1. infos' = <<>> /\ later' = <<>> /\ mints' \in Seq(Mints)
    BY <1>1, <1>2, <1>5 DEF NotAsked, Unfilled, None, MintsInv
  <2> QED
    BY <2>1 DEF InfosInv
<1>7. LookupInv'
  <2>1. Unfilled' /\ accounts' = None /\ metas' = None
    BY <1>1, <1>2 DEF NotAsked, Unfilled
  <2>2. ~Resolved' /\ map' = {}
    BY <2>1 DEF Resolved, Unfilled
  <2> QED
    BY <1>1, <2>1, <2>2 DEF LookupInv
<1> QED
  BY <1>5, <1>6, <1>7 DEF ShownInv

\* Both calls to the node, and the ways in which the map stays empty.
LEMMA FetchShownInv ==
    ASSUME ShownInv,
           \/ MintAccountsFail \/ GetMintAccounts \/ MetadataAccountsFail \/ GetMetadataAccounts
           \/ BrokenExtensions
    PROVE  ShownInv'
<1>1. /\ phase \in {"mint_accounts", "metadata_accounts", "place"}
      /\ phase' \in {"metadata_accounts", "place", "print"}
      /\ UNCHANGED <<swaps, mints, infos, later, map>>
  BY DEF MintAccountsFail, GetMintAccounts, MetadataAccountsFail, GetMetadataAccounts,
         BrokenExtensions, Resolving, GiveUp, At, Goto
<1>2. MintsInv' /\ InfosInv'
  <2>1. Asked' = Asked /\ ToSet(mints)' = ToSet(mints)
    BY <1>1 DEF Asked, ToSet
  <2>2. ToSet(mints) = Asked
    BY <1>1 DEF ShownInv, MintsInv
  <2>3. MintsInv'
    BY <1>1, <2>1, <2>2 DEF ShownInv, MintsInv
  <2>4. InfosInv'
    BY <1>1 DEF ShownInv, InfosInv, Elements
  <2> QED
    BY <2>3, <2>4
<1>3. CASE MintAccountsFail
  <2>1. phase = "mint_accounts" /\ phase' = "print" /\ UNCHANGED <<accounts, map>>
    BY <1>3 DEF MintAccountsFail, GiveUp, At, Goto
  <2>2. accounts' = None /\ map' = {}
    BY <2>1 DEF ShownInv, LookupInv, Unfilled
  <2> QED
    BY <1>2, <2>1, <2>2 DEF ShownInv, LookupInv, Resolved
<1>4. CASE GetMintAccounts
  <2>1. /\ phase = "mint_accounts" /\ phase' = "metadata_accounts"
        /\ accounts' \in [DOMAIN mints -> MintAccounts] /\ UNCHANGED metas
    BY <1>4 DEF GetMintAccounts, At, Goto
  <2>2. mints # <<>> /\ mints \in Seq(Mints) /\ metas = None /\ Unfilled
    BY <2>1 DEF ShownInv, LookupInv, MintsInv, None
  <2>3. 1 \in DOMAIN mints
    BY <2>2
  <2>4. accounts' # None
    <3>1. 1 \in DOMAIN accounts' /\ DOMAIN <<>> = 1 .. 0
      BY <2>1, <2>3
    <3> QED
      BY <3>1 DEF None
  <2> QED
    BY <1>1, <1>2, <2>1, <2>2, <2>4 DEF ShownInv, LookupInv, Unfilled, None
<1>5. CASE MetadataAccountsFail
  <2>1. phase = "metadata_accounts" /\ phase' = "print" /\ UNCHANGED <<metas, map>>
    BY <1>5 DEF MetadataAccountsFail, GiveUp, At, Goto
  <2>2. metas' = None /\ map' = {}
    BY <2>1 DEF ShownInv, LookupInv, Unfilled
  <2> QED
    BY <1>2, <2>1, <2>2 DEF ShownInv, LookupInv, Resolved
<1>6. CASE GetMetadataAccounts
  <2>1. /\ phase = "metadata_accounts" /\ phase' = "place"
        /\ metas' \in [DOMAIN mints -> MetaAccounts] /\ UNCHANGED accounts
    BY <1>6 DEF GetMetadataAccounts, At, Goto
  <2>2. /\ mints # <<>> /\ mints \in Seq(Mints) /\ Unfilled
        /\ accounts \in [DOMAIN mints -> MintAccounts] /\ accounts # None
    BY <2>1 DEF ShownInv, LookupInv, MintsInv, None
  <2>3. 1 \in DOMAIN mints
    BY <2>2
  <2>4. metas' # None
    <3>1. 1 \in DOMAIN metas' /\ DOMAIN <<>> = 1 .. 0
      BY <2>1, <2>3
    <3> QED
      BY <3>1 DEF None
  <2>5. BothFetched'
    BY <1>1, <2>1, <2>2, <2>4 DEF BothFetched, None
  <2>6. infos' = <<>> /\ later' = <<>> /\ map' = {}
    BY <1>1, <2>2 DEF Unfilled, None
  <2>7. AllFilled'
    BY <2>6 DEF AllFilled, ToSet
  <2> QED
    BY <1>2, <2>1, <2>5, <2>6, <2>7 DEF ShownInv, LookupInv
<1>7. CASE BrokenExtensions
  <2>1. /\ phase = "place" /\ phase' = "print" /\ UNCHANGED <<mints, accounts, metas, map>>
        /\ later # <<>> /\ BrokenAt(Head(later))
    BY <1>7 DEF BrokenExtensions, Resolving, GiveUp, At, Goto, BrokenAt
  <2>2. map = {} /\ BothFetched /\ AllFilled /\ later \in Seq(1 .. Len(infos))
    BY <2>1 DEF ShownInv, LookupInv, InfosInv
  <2>3. 1 \in DOMAIN later /\ Head(later) = later[1] /\ Head(later) \in 1 .. Len(infos)
    BY <2>1, <2>2
  <2>4. Postponable(Head(later))
    BY <2>2, <2>3 DEF AllFilled, ToSet
  <2>5. Head(later) \in DOMAIN mints
    <3>1. Len(infos) <= Len(mints) /\ infos \in Seq(Elements(infos)) /\ mints \in Seq(Mints)
      BY DEF ShownInv, InfosInv, MintsInv
    <3> QED
      BY <2>3, <3>1
  <2>6. ~Resolved
    BY <2>1, <2>4, <2>5 DEF Resolved, Postponable, BrokenAt
  <2>7. ~Resolved'
    BY <2>1, <2>6 DEF Resolved
  <2> QED
    BY <1>2, <2>1, <2>2, <2>7 DEF ShownInv, LookupInv
<1> QED
  BY <1>3, <1>4, <1>5, <1>6, <1>7

\* What a step of fetch_mint_infos leaves alone.
LEMMA PlacingMints ==
    ASSUME ShownInv, phase = "place", phase' \in {"place", "print"},
           UNCHANGED <<swaps, mints, accounts, metas>>
    PROVE  /\ MintsInv' /\ BothFetched' /\ Resolved' = Resolved
           /\ Len(mints) \in Nat /\ DOMAIN mints = 1 .. Len(mints)
<1>1. Asked' = Asked /\ ToSet(mints)' = ToSet(mints)
  BY DEF Asked, ToSet
<1>2. ToSet(mints) = Asked /\ mints \in Seq(Mints)
  BY DEF ShownInv, MintsInv
<1>3. MintsInv'
  BY <1>1, <1>2 DEF ShownInv, MintsInv
<1>4. BothFetched'
  BY DEF ShownInv, LookupInv, BothFetched, None
<1> QED
  BY <1>2, <1>3, <1>4 DEF Resolved, None

\* The next place is filled with the mint's own info, or postponed.
LEMMA PlaceShownInv ==
    ASSUME ShownInv, NoMintState \/ WithMetadata \/ WithoutMetadata
    PROVE  ShownInv'
<1>1. /\ phase = "place" /\ phase' = "place" /\ K \in DOMAIN mints
      /\ UNCHANGED <<swaps, mints, accounts, metas, map>>
  BY DEF NoMintState, WithMetadata, WithoutMetadata, Placing, Push, At, Goto
<1>2. PICK info : infos' = Append(infos, info)
  BY DEF NoMintState, WithMetadata, WithoutMetadata, Push
<1>3. /\ MintsInv' /\ BothFetched' /\ map = {} /\ BothFetched /\ AllFilled
      /\ Len(mints) \in Nat /\ DOMAIN mints = 1 .. Len(mints)
  BY <1>1, PlacingMints DEF ShownInv, LookupInv
<1>4. /\ infos \in Seq(Elements(infos)) /\ later \in Seq(1 .. Len(infos))
      /\ \A k \in DOMAIN infos : infos[k] # None => infos[k].pubkey = mints[k]
      /\ \A i, j \in DOMAIN later : later[i] = later[j] => i = j
      /\ \A j \in DOMAIN later : infos[later[j]] = None
  BY DEF ShownInv, InfosInv
<1>5. /\ infos' \in Seq(Elements(infos')) /\ Len(infos') = Len(infos) + 1
      /\ DOMAIN infos' = DOMAIN infos \cup {Len(infos) + 1}
      /\ \A k \in DOMAIN infos : infos'[k] = infos[k]
      /\ infos'[Len(infos) + 1] = info
  BY <1>2, <1>4, AppendedElements
<1>6. PICK q \in Nat :
        /\ q = K /\ q = Len(infos) + 1 /\ q \notin DOMAIN infos
        /\ Len(infos) \in Nat /\ DOMAIN infos = 1 .. Len(infos)
  BY <1>4 DEF K
<1>7. Len(later) \in Nat /\ DOMAIN later = 1 .. Len(later) /\ \A j \in DOMAIN later : later[j] \in 1 .. Len(infos)
  BY <1>4
<1>8. ToSet(later) \subseteq 1 .. Len(infos)
  BY <1>7 DEF ToSet
<1>9. q \in DOMAIN mints /\ q <= Len(mints)
  BY <1>1, <1>3, <1>6
<1>10. ASSUME info # None => info.pubkey = mints[q],
              later' \in Seq(1 .. Len(infos')),
              \A i, j \in DOMAIN later' : later'[i] = later'[j] => i = j,
              \A j \in DOMAIN later' : infos'[later'[j]] = None,
              \A k \in DOMAIN infos : Filled(k)',
              Filled(q)',
              \A k \in ToSet(later)' : Postponable(k)
       PROVE  ShownInv'
  <2>1. Len(infos') <= Len(mints')
    BY <1>1, <1>5, <1>6, <1>9
  <2>2. \A k \in DOMAIN infos' : infos'[k] # None => infos'[k].pubkey = mints'[k]
    BY <1>1, <1>4, <1>5, <1>6, <1>10
  <2>3. InfosInv'
    BY <1>5, <1>10, <2>1, <2>2 DEF InfosInv, Elements, None
  <2>4. \A k \in DOMAIN infos' : Filled(k)'
    BY <1>5, <1>6, <1>10
  <2>5. \A k \in ToSet(later)' : Postponable(k)'
    BY <1>1, <1>10 DEF Postponable
  <2>6. AllFilled'
    BY <2>4, <2>5 DEF AllFilled
  <2> QED
    BY <1>1, <1>3, <2>3, <2>6 DEF ShownInv, LookupInv
<1>11. ASSUME UNCHANGED later, info # None => info.pubkey = mints[q], Filled(q)'
       PROVE  ShownInv'
  <2>1. later' \in Seq(1 .. Len(infos'))
    <3>1. 1 .. Len(infos) \subseteq 1 .. Len(infos')
      BY <1>5, <1>6
    <3>2. later \in Seq(1 .. Len(infos'))
      BY <1>4, <3>1, WiderSeq
    <3> QED
      BY <1>11, <3>2
  <2>2. \A j \in DOMAIN later' : infos'[later'[j]] = None
    BY <1>4, <1>5, <1>6, <1>7, <1>11
  <2>3. \A k \in DOMAIN infos : Filled(k)'
    <3>1. \A k \in DOMAIN infos : Filled(k) /\ infos'[k] = infos[k]
      BY <1>3, <1>5 DEF AllFilled
    <3>2. ToSet(later)' = ToSet(later)
      BY <1>11 DEF ToSet
    <3> QED
      BY <1>1, <3>1, <3>2 DEF Filled, Postponable, BrokenAt, Info
  <2>4. \A k \in ToSet(later)' : Postponable(k)
    BY <1>3, <1>11 DEF AllFilled, ToSet
  <2> QED
    BY <1>4, <1>10, <1>11, <2>1, <2>2, <2>3, <2>4
<1>12. CASE NoMintState
  <2>1. infos' = Append(infos, None) /\ accounts[q].kind # "mint" /\ UNCHANGED later
    BY <1>6, <1>12 DEF NoMintState, Placing, Push
  <2>2. infos'[q] = None
    BY <1>4, <1>6, <2>1, AppendedElements
  <2>3. Filled(q)'
    BY <1>1, <2>1, <2>2 DEF Filled, Postponable, None
  <2> QED
    BY <1>5, <1>6, <1>11, <2>1, <2>2, <2>3
<1>13. CASE WithMetadata
  <2>1. /\ infos' = Append(infos, Info(q, metas[q] = "named")) /\ accounts[q].kind = "mint"
        /\ metas[q] # "absent" /\ UNCHANGED later
    BY <1>6, <1>13 DEF WithMetadata, Placing, Push
  <2>2. infos'[q] = Info(q, metas[q] = "named")
    BY <1>4, <1>6, <2>1, AppendedElements
  <2>3. Filled(q)'
    BY <1>1, <2>1, <2>2 DEF Filled, Postponable, Info
  <2> QED
    BY <1>5, <1>6, <1>11, <2>1, <2>2, <2>3 DEF Info
<1>14. CASE WithoutMetadata
  <2>1. /\ infos' = Append(infos, None) /\ later' = Append(later, q)
        /\ accounts[q].kind = "mint" /\ metas[q] = "absent"
    BY <1>6, <1>14 DEF WithoutMetadata, Placing, Push
  <2>2. infos'[q] = None
    BY <1>4, <1>6, <2>1, AppendedElements
  <2>3. /\ DOMAIN later' = 1 .. Len(later) + 1 /\ later'[Len(later) + 1] = q
        /\ \A j \in 1 .. Len(later) : later'[j] = later[j]
        /\ later' \in Seq(1 .. Len(infos'))
    <3>1. 1 .. Len(infos) \subseteq 1 .. Len(infos') /\ q \in 1 .. Len(infos')
      BY <1>5, <1>6
    <3>2. later \in Seq(1 .. Len(infos'))
      BY <1>4, <3>1, WiderSeq
    <3> QED
      BY <2>1, <3>1, <3>2
  <2>4. \A j \in 1 .. Len(later) + 1 : j \in 1 .. Len(later) \/ j = Len(later) + 1
    BY <1>7
  <2>5. \A i, j \in DOMAIN later' : later'[i] = later'[j] => i = j
    BY <1>4, <1>6, <1>7, <2>3, <2>4
  <2>6. ASSUME NEW j \in DOMAIN later' PROVE infos'[later'[j]] = None
    <3>1. CASE j \in 1 .. Len(later)
      <4>1. later[j] \in DOMAIN infos /\ infos[later[j]] = None
        BY <1>4, <1>6, <1>7, <3>1
      <4> QED
        BY <1>5, <2>3, <3>1, <4>1
    <3>2. CASE j = Len(later) + 1
      BY <2>2, <2>3, <3>2
    <3> QED
      BY <2>3, <2>4, <3>1, <3>2
  <2>7. ToSet(later)' = ToSet(later) \cup {q}
    <3>1. 1 .. Len(later) + 1 = 1 .. Len(later) \cup {Len(later) + 1}
      BY <1>7
    <3> QED
      BY <1>7, <2>3, <3>1 DEF ToSet
  <2>8. \A k \in DOMAIN infos : Filled(k)'
    <3>1. \A k \in DOMAIN infos : Filled(k) /\ infos'[k] = infos[k]
      BY <1>3, <1>5 DEF AllFilled
    <3> QED
      BY <1>1, <2>7, <3>1 DEF Filled, Postponable, BrokenAt, Info
  <2>9. Filled(q)'
    BY <1>1, <2>1, <2>7 DEF Filled, Postponable
  <2>10. \A k \in ToSet(later)' : Postponable(k)
    BY <1>3, <2>1, <2>7 DEF AllFilled, Postponable
  <2> QED
    BY <1>5, <1>6, <1>10, <2>2, <2>3, <2>5, <2>6, <2>8, <2>9, <2>10
<1> QED
  BY <1>12, <1>13, <1>14

\* A postponed mint is named by its extensions, which are not broken.
LEMMA ResolveShownInv == ASSUME ShownInv, Resolve PROVE ShownInv'
<1>1. /\ phase = "place" /\ phase' = "place" /\ later # <<>>
      /\ later' = Tail(later) /\ UNCHANGED <<swaps, mints, accounts, metas, map>>
  BY DEF Resolve, Resolving, At, Goto
<1>2. /\ MintsInv' /\ BothFetched' /\ map = {} /\ BothFetched /\ AllFilled
      /\ Len(mints) \in Nat /\ DOMAIN mints = 1 .. Len(mints)
  BY <1>1, PlacingMints DEF ShownInv, LookupInv
<1>3. /\ infos \in Seq(Elements(infos)) /\ later \in Seq(1 .. Len(infos))
      /\ Len(infos) <= Len(mints)
      /\ \A k \in DOMAIN infos : infos[k] # None => infos[k].pubkey = mints[k]
      /\ \A i, j \in DOMAIN later : later[i] = later[j] => i = j
      /\ \A j \in DOMAIN later : infos[later[j]] = None
  BY DEF ShownInv, InfosInv
<1>4. /\ Head(later) = later[1] /\ 1 \in DOMAIN later
      /\ later' \in Seq(1 .. Len(infos))
      /\ \A i, j \in DOMAIN later' : later'[i] = later'[j] => i = j
      /\ \A j \in DOMAIN later' :
           j + 1 \in DOMAIN later /\ later'[j] = later[j + 1] /\ later'[j] # Head(later)
      /\ ToSet(later)' = ToSet(later) \ {Head(later)}
  <2>1. /\ Head(later) = later[1] /\ 1 \in DOMAIN later
        /\ Tail(later) \in Seq(1 .. Len(infos))
        /\ \A i, j \in DOMAIN Tail(later) : Tail(later)[i] = Tail(later)[j] => i = j
        /\ \A j \in DOMAIN Tail(later) :
             j + 1 \in DOMAIN later /\ Tail(later)[j] = later[j + 1] /\ Tail(later)[j] # Head(later)
        /\ ToSet(Tail(later)) = ToSet(later) \ {Head(later)}
    BY <1>1, <1>3, DistinctTail
  <2>2. ToSet(later)' = ToSet(Tail(later))
    BY <1>1 DEF ToSet
  <2> QED
    BY <1>1, <2>1, <2>2
<1>5. PICK q \in 1 .. Len(infos) : q = Head(later)
  BY <1>3, <1>4
<1>6. Len(infos) \in Nat /\ DOMAIN infos = 1 .. Len(infos)
  BY <1>3
<1> DEFINE info == Info(q, accounts[q].token_2022 /\ accounts[q].extensions = "metadata")
<1>7. infos' = [infos EXCEPT ![q] = info] /\ ~BrokenAt(q)
  BY <1>5 DEF Resolve, BrokenAt
<1> HIDE DEF info
<1>8. /\ infos' \in Seq(Elements(infos')) /\ Len(infos') = Len(infos) /\ DOMAIN infos' = DOMAIN infos
      /\ infos'[q] = info /\ \A i \in DOMAIN infos : i # q => infos'[i] = infos[i]
  <2>1. q \in DOMAIN infos
    BY <1>5, <1>6
  <2>2. /\ DOMAIN infos' = DOMAIN infos /\ infos' = [i \in DOMAIN infos' |-> infos'[i]]
        /\ infos'[q] = info /\ \A i \in DOMAIN infos : i # q => infos'[i] = infos[i]
    BY <1>3, <1>7, <2>1
  <2> QED
    BY <1>3, <2>2, SamePlaces
<1>9. \A j \in DOMAIN later' : later'[j] \in DOMAIN infos /\ later'[j] # q
  BY <1>4, <1>5, <1>6
<1>10. InfosInv'
  <2>1. info.pubkey = mints[q]
    BY DEF info, Info
  <2>2. \A k \in DOMAIN infos' : infos'[k] # None => infos'[k].pubkey = mints'[k]
    BY <1>1, <1>3, <1>8, <2>1
  <2>3. \A j \in DOMAIN later' : infos'[later'[j]] = None
    BY <1>3, <1>4, <1>8, <1>9
  <2>4. Len(infos') <= Len(mints') /\ later' \in Seq(1 .. Len(infos'))
    BY <1>1, <1>3, <1>4, <1>8
  <2> QED
    BY <1>4, <1>8, <2>2, <2>3, <2>4 DEF InfosInv, Elements, None
<1>11. Postponable(q)
  BY <1>2, <1>4, <1>5 DEF AllFilled, ToSet
<1>12. ASSUME NEW k \in DOMAIN infos PROVE Filled(k)'
  <2>1. CASE k = q
    BY <1>1, <1>7, <1>8, <1>11, <2>1 DEF Filled, Postponable, BrokenAt, info, Info
  <2>2. CASE k # q
    <3>1. Filled(k) /\ infos'[k] = infos[k] /\ (k \notin ToSet(later)' => k \notin ToSet(later))
      BY <1>2, <1>4, <1>5, <1>8, <2>2 DEF AllFilled
    <3> QED
      BY <1>1, <3>1 DEF Filled, Postponable, BrokenAt, Info
  <2> QED
    BY <2>1, <2>2
<1>13. \A k \in ToSet(later)' : Postponable(k)'
  BY <1>1, <1>2, <1>4 DEF AllFilled, Postponable
<1>14. AllFilled'
  BY <1>8, <1>12, <1>13 DEF AllFilled
<1> QED
  BY <1>1, <1>2, <1>10, <1>14 DEF ShownInv, LookupInv

\* With no place left and none postponed, the map has what the accounts say.
LEMMA MapShownInv == ASSUME ShownInv, MakeMap PROVE ShownInv'
<1>1. /\ phase = "place" /\ phase' = "print" /\ later = <<>> /\ Len(infos) = Len(mints)
      /\ map' = {infos[k] : k \in DOMAIN infos} \ {None}
      /\ UNCHANGED <<swaps, mints, accounts, metas, infos, later>>
  BY DEF MakeMap, Resolving, At, Goto
<1>2. /\ MintsInv' /\ BothFetched' /\ BothFetched /\ AllFilled /\ Resolved' = Resolved
      /\ Len(mints) \in Nat /\ DOMAIN mints = 1 .. Len(mints)
  BY <1>1, PlacingMints DEF ShownInv, LookupInv
<1>3. InfosInv'
  BY <1>1 DEF ShownInv, InfosInv, Elements
<1>4. AllFilled'
  <2>1. ToSet(later)' = ToSet(later)
    BY <1>1 DEF ToSet
  <2> QED
    BY <1>1, <1>2, <2>1 DEF AllFilled, Filled, Postponable, BrokenAt, Info
<1>5. Resolved
  <2>1. DOMAIN infos = DOMAIN mints
    BY <1>1, <1>2 DEF ShownInv, InfosInv
  <2>2. ToSet(later) = {}
    BY <1>1 DEF ToSet
  <2>3. ASSUME NEW k \in DOMAIN mints, Postponable(k) PROVE ~BrokenAt(k)
    BY <1>2, <2>1, <2>2, <2>3 DEF AllFilled, Filled
  <2> QED
    BY <1>2, <2>3 DEF Resolved, BothFetched, Postponable, BrokenAt
<1>6. LookupInv'
  BY <1>1, <1>2, <1>4, <1>5 DEF LookupInv, None
<1> QED
  BY <1>2, <1>3, <1>6 DEF ShownInv

LEMMA StepShownInv == CliInv /\ ShownInv /\ [Next]_vars => ShownInv'
<1> SUFFICES ASSUME CliInv, ShownInv, [Next]_vars PROVE ShownInv'
  OBVIOUS
<1>1. CASE UNCHANGED vars
  <2>1. UNCHANGED <<phase, swaps, mints, accounts, metas, infos, later, map>>
    BY <1>1 DEF vars, locals
  <2>2. MintsInv'
    <3>1. Asked' = Asked /\ ToSet(mints)' = ToSet(mints)
      BY <2>1 DEF Asked, ToSet
    <3> QED
      BY <2>1, <3>1 DEF ShownInv, MintsInv
  <2>3. InfosInv'
    BY <2>1 DEF ShownInv, InfosInv, Elements
  <2>4. /\ NotAsked' = NotAsked /\ Unfilled' = Unfilled /\ Resolved' = Resolved
        /\ BothFetched' = BothFetched
    BY <2>1 DEF NotAsked, Unfilled, Resolved, BothFetched, None
  <2>5. AllFilled' = AllFilled
    BY <2>1 DEF AllFilled, Filled, Postponable, BrokenAt, Info, ToSet
  <2>6. LookupInv'
    BY <2>1, <2>4, <2>5 DEF ShownInv, LookupInv
  <2> QED
    BY <2>2, <2>3, <2>6 DEF ShownInv
<1> QED
  BY <1>1, OutsideLookupShownInv, CollectShownInv, FetchShownInv, PlaceShownInv,
     PanicShownInv, ResolveShownInv, MapShownInv
  DEF Next, ShortAccount, Finished

LEMMA ShownInvType == CliInv /\ ShownInv => CliTypeOK
<1> SUFFICES ASSUME CliInv, ShownInv PROVE CliTypeOK
  OBVIOUS
<1>1. phase \in Phases /\ n \in 1 .. Len(sigs) + 1 /\ Len(answers) = n - 1
  BY DEF CliInv, Placed, Answered
<1>2. mints \in Seq(Mints) /\ \A i, j \in DOMAIN mints : mints[i] = mints[j] => i = j
  BY DEF ShownInv, MintsInv
<1>3. Len(mints) = Cardinality(ToSet(mints))
  BY <1>2, DistinctElements
<1>4. /\ Len(infos) <= Len(mints) /\ DOMAIN infos = 1 .. Len(infos)
      /\ \A k \in DOMAIN infos : infos[k] # None => infos[k].pubkey = mints[k]
      /\ \A j \in DOMAIN later : later[j] \in 1 .. Len(infos) /\ infos[later[j]] = None
  BY DEF ShownInv, InfosInv
<1> QED
  BY <1>1, <1>2, <1>3, <1>4 DEF CliTypeOK

\* The styles print no mint that was not asked for.
LEMMA ShownMints ==
    \A m \in UNION {Shown(swaps[k]) : k \in DOMAIN swaps} : m # NoMint => m \in Asked
<1>1. \A swap : \A m \in Shown(swap) : m # NoMint => m \in MintsIn(swap)
  BY DEF Shown, MintsIn
<1> QED
  BY <1>1 DEF Asked

\* A mint that the map has one info of is printed by that info.
LEMMA LineOfInfo ==
    ASSUME NEW m, NEW info \in map, info.pubkey = m,
           \A other \in map : other.pubkey = m => other = info
    PROVE  Line(m) = [digits |-> IF info.decimals > MaxDecimals THEN 0 ELSE info.decimals,
                      named |-> info.named]
<1> DEFINE found == {i \in map : i.pubkey = m}
<1>1. found = {info}
  OBVIOUS
<1>2. found # {} /\ (CHOOSE i \in found : TRUE) = info
  BY <1>1
<1> QED
  BY <1>2 DEF Line

LEMMA LineWithoutInfo ==
    ASSUME NEW m, \A info \in map : info.pubkey # m
    PROVE  Line(m) = [digits |-> "raw", named |-> FALSE]
<1>1. {i \in map : i.pubkey = m} = {}
  OBVIOUS
<1> QED
  BY <1>1 DEF Line

LEMMA ShownInvShown == CliInv /\ ShownInv => ShownAsOnChain
<1> SUFFICES ASSUME CliInv, ShownInv, phase = "print" PROVE ShownAsOnChain
  BY DEF ShownAsOnChain
<1>1. /\ mints \in Seq(Mints) /\ ToSet(mints) = Asked
      /\ \A i, j \in DOMAIN mints : mints[i] = mints[j] => i = j
  BY DEF ShownInv, MintsInv
<1>2. /\ DOMAIN Lines = UNION {Shown(swaps[k]) : k \in DOMAIN swaps}
      /\ \A m \in DOMAIN Lines : Lines[m] = Line(m)
  BY DEF Lines
<1>3. DOMAIN Lines \ {NoMint} \subseteq ToSet(mints)
  BY <1>1, <1>2, ShownMints
<1> DEFINE Read(m) == \E k \in DOMAIN mints : mints[k] = m /\ accounts[k].kind = "mint"
           raw == [digits |-> "raw", named |-> FALSE]
<1>4. ASSUME ~Resolved, NEW m PROVE Line(m) = raw
  <2>1. map = {}
    BY <1>4 DEF ShownInv, LookupInv
  <2> QED
    BY <2>1, LineWithoutInfo
<1>5. ASSUME Resolved
      PROVE  /\ BothFetched /\ AllFilled /\ DOMAIN infos = DOMAIN mints /\ ToSet(later) = {}
             /\ \A k \in DOMAIN infos : infos[k] # None => infos[k].pubkey = mints[k]
             /\ map = {infos[k] : k \in DOMAIN infos} \ {None}
  <2>1. /\ BothFetched /\ AllFilled /\ later = None /\ Len(infos) = Len(mints)
        /\ map = {infos[k] : k \in DOMAIN infos} \ {None}
    BY <1>5 DEF ShownInv, LookupInv
  <2>2. DOMAIN infos = 1 .. Len(infos) /\ DOMAIN mints = 1 .. Len(mints)
    BY <1>1 DEF ShownInv, InfosInv
  <2>3. ToSet(later) = {}
    BY <2>1 DEF ToSet, None
  <2>4. \A k \in DOMAIN infos : infos[k] # None => infos[k].pubkey = mints[k]
    BY DEF ShownInv, InfosInv
  <2> QED
    BY <2>1, <2>2, <2>3, <2>4
<1>6. ASSUME Resolved, NEW m, ~Read(m) PROVE Line(m) = raw
  <2>1. ASSUME NEW info \in map, info.pubkey = m PROVE FALSE
    <3>1. PICK k \in DOMAIN mints : info = infos[k] /\ infos[k] # None
      BY <1>5, <1>6, <2>1
    <3>2. mints[k] = m
      BY <1>5, <1>6, <2>1, <3>1
    <3>3. accounts[k].kind # "mint"
      BY <1>6, <3>2
    <3> QED
      BY <1>5, <1>6, <3>1, <3>3 DEF AllFilled, Filled
  <2> QED
    BY <2>1, LineWithoutInfo
<1>7. ASSUME Resolved, NEW m, Read(m)
      PROVE  LET k == CHOOSE j \in DOMAIN mints : mints[j] = m
             IN  /\ accounts[k].decimals <= MaxDecimals => Line(m).digits = accounts[k].decimals
                 /\ Line(m).named =
                        IF metas[k] # "absent" THEN metas[k] = "named"
                        ELSE accounts[k].token_2022 /\ accounts[k].extensions = "metadata"
  <2>1. PICK k \in DOMAIN mints : mints[k] = m /\ accounts[k].kind = "mint"
    BY <1>7
  <2>2. k = CHOOSE j \in DOMAIN mints : mints[j] = m
    <3>1. \A j \in DOMAIN mints : mints[j] = m => j = k
      BY <1>1, <2>1
    <3> QED
      BY <2>1, <3>1
  <2>3. accounts[k].decimals \in Nat
    <3>1. accounts[k] \in MintAccounts
      BY <1>5, <1>7 DEF BothFetched
    <3> QED
      BY <2>1, <3>1, CliAssumption DEF Absent, Short, Garbage, Mint
  <2> DEFINE named == IF metas[k] # "absent" THEN metas[k] = "named"
                      ELSE accounts[k].token_2022 /\ accounts[k].extensions = "metadata"
  <2>4. infos[k] = Info(k, named)
    BY <1>5, <1>7, <2>1 DEF AllFilled, Filled, Postponable
  <2>5. Info(k, named) # None
    <3>1. "pubkey" \in DOMAIN Info(k, named)
      BY DEF Info
    <3>2. DOMAIN None = {}
      BY DEF None
    <3> QED
      BY <3>1, <3>2
  <2>6. infos[k] \in map /\ infos[k].pubkey = m
    BY <1>5, <1>7, <2>1, <2>4, <2>5 DEF Info
  <2>7. ASSUME NEW other \in map, other.pubkey = m PROVE other = infos[k]
    <3>1. PICK j \in DOMAIN mints : other = infos[j] /\ infos[j] # None
      BY <1>5, <1>7, <2>7
    <3>2. mints[j] = m
      BY <1>5, <1>7, <2>7, <3>1
    <3> QED
      BY <1>1, <2>1, <3>1, <3>2
  <2>8. Line(m) = [digits |-> IF infos[k].decimals > MaxDecimals THEN 0 ELSE infos[k].decimals,
                   named |-> infos[k].named]
    BY <2>6, <2>7, LineOfInfo
  <2>9. Line(m).named = named
    BY <2>4, <2>8 DEF Info
  <2>10. ASSUME accounts[k].decimals <= MaxDecimals PROVE Line(m).digits = accounts[k].decimals
    BY <2>3, <2>4, <2>8, <2>10, CliAssumption DEF Info
  <2> QED
    BY <2>2, <2>9, <2>10
<1>8. ASSUME NEW m \in DOMAIN Lines
      PROVE  IF Resolved /\ Read(m)
             THEN LET k == CHOOSE j \in DOMAIN mints : mints[j] = m
                  IN  /\ accounts[k].decimals <= MaxDecimals =>
                             Lines[m].digits = accounts[k].decimals
                      /\ Lines[m].named =
                             IF metas[k] # "absent" THEN metas[k] = "named"
                             ELSE accounts[k].token_2022 /\ accounts[k].extensions = "metadata"
             ELSE Lines[m] = raw
  <2>1. Lines[m] = Line(m)
    BY <1>2
  <2> HIDE DEF raw, Read
  <2> QED
    BY <1>4, <1>6, <1>7, <2>1
<1> QED
  BY <1>3, <1>8 DEF ShownAsOnChain

LEMMA AlwaysShownInv == Spec => [](CliInv /\ ShownInv)
<1>1. Init => CliInv /\ ShownInv
  BY InitCliInv, InitShownInv
<1>2. (CliInv /\ ShownInv) /\ [Next]_vars => (CliInv /\ ShownInv)'
  BY StepCliInv, StepShownInv
<1> QED
  BY <1>1, <1>2, PTL DEF Spec

\* For every command line and all that the node may answer, there is one answer
\* for each signature that the loop is past, no mint is asked for twice, and a
\* mint's info is only ever in the mint's own place (cli/src/infos.rs).
THEOREM TypeCorrect == Spec => []CliTypeOK
BY AlwaysShownInv, ShownInvType, PTL

\* For every command line and all that the node may answer, in whatever order
\* the mints are asked for: an amount is shown in the units, and with the name,
\* that its own mint's accounts say, and raw only if they say nothing or the
\* lookup failed (cli/src/main.rs, cli/src/infos.rs).
THEOREM LinesOfTheChain == Spec => []ShownAsOnChain
BY AlwaysShownInv, ShownInvShown, PTL
================================================================================
