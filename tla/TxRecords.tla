------------------------------- MODULE TxRecords -------------------------------
(***************************************************************************)
(* From a transaction as a node reports it, over RPC or gRPC, to the        *)
(* SolanaTx that the parsers read (transaction.rs, transaction/geyser.rs,   *)
(* transaction/keys.rs, util/accounts.rs).  Both ways end in the same type, *)
(* refuse different things, and leave out different things.                *)
(*                                                                         *)
(* A record is an executed transaction, the parts of the record that are    *)
(* malformed or absent (faults), and the optional parts that the node left  *)
(* out (omits).                                                            *)
(***************************************************************************)
EXTENDS Integers, Sequences, FiniteSets

CONSTANTS
    Keys,   \* the account keys
    NoKey   \* an index that no key is at (None)

ASSUME KeysAssumption == NoKey \notin Keys

\* An instruction refers to its program and accounts by index.
Ix == [program : Nat, accounts : Seq(Nat)]

\* inner[r] are the calls below the r-th root instruction.
Transaction ==
    {executed \in [static : Seq(Keys), writable : Seq(Keys), readonly : Seq(Keys),
                  roots : Seq(Ix), inner : Seq(Seq(Ix))] :
        Len(executed.inner) = Len(executed.roots)}

Omissible == {"loaded_addresses", "inner_instructions"}

\* what fails in TryFrom<UiTransactionStatusMeta>, and in decoding the rest
RpcMetaFaults == {"not_compiled", "bad_base58", "bad_loaded", "bad_return_data"}
RpcFaults == RpcMetaFaults \cup {"no_meta", "undecodable"}

\* what fails in create_tx_versioned, and in create_tx_meta
GrpcTxFaults ==
    {"bad_signature", "no_message", "bad_header", "bad_blockhash", "bad_table",
     "bad_key", "bad_program_index"}
GrpcMetaFaults ==
    {"bad_status", "bad_reward", "bad_inner", "bad_balance", "bad_loaded", "bad_return_data"}
GrpcFaults ==
    GrpcTxFaults \cup GrpcMetaFaults \cup {"no_update", "no_meta", "no_signature"}

Record ==
    [executed : Transaction, faults : SUBSET (RpcFaults \cup GrpcFaults),
     omits : SUBSET Omissible]

--------------------------------------------------------------------------------
(* AccountKeys *)

AccountKeys(static, loaded) ==
    [static |-> static,
     writable |-> IF loaded = {} THEN <<>> ELSE (CHOOSE l \in loaded : TRUE).writable,
     readonly |-> IF loaded = {} THEN <<>> ELSE (CHOOSE l \in loaded : TRUE).readonly]

KeysLen(keys) == Len(keys.static) + Len(keys.writable) + Len(keys.readonly)

\* Mutant of GetKey: the readonly keys come before the writable ones.
GetKeyReadonlyFirst(keys, idx) ==
    LET all == keys.static \o keys.readonly \o keys.writable
    IN  IF idx \in 0 .. Len(all) - 1 THEN all[idx + 1] ELSE NoKey

\* the index is counted down over the segments it is past
GetKey(keys, idx) ==
    LET s  == Len(keys.static)
        sw == s + Len(keys.writable)
    IN  CASE idx \in 0 .. s - 1             -> keys.static[idx + 1]
          [] idx \in s .. sw - 1            -> keys.writable[idx - s + 1]
          [] idx \in sw .. KeysLen(keys) - 1 -> keys.readonly[idx - sw + 1]
          [] OTHER                          -> NoKey

\* InstructionAccounts::new and peek, from a fresh cursor
Peek(keys, ix, offset) ==
    LET failed(error) == [ok |-> FALSE, error |-> error]
    IN  IF GetKey(keys, ix.program) = NoKey THEN failed("InvalidProgramIdIndex")
        ELSE IF offset \notin 0 .. Len(ix.accounts) - 1 THEN failed("AccountsExhausted")
        ELSE LET key == GetKey(keys, ix.accounts[offset + 1])
             IN  IF key = NoKey THEN failed("AccountIndexOutOfRange")
                 ELSE [ok |-> TRUE, key |-> key]

--------------------------------------------------------------------------------
(* The two conversions *)

Converted(tx) == [kind |-> "ok", tx |-> tx]
Refused(error) == [kind |-> "error", error |-> error]

Loaded(executed) == [writable |-> executed.writable, readonly |-> executed.readonly]

\* The fields of SolanaTx that the parsers read.  TxMetadata keeps the inner
\* instructions in a map from the root's index; a root without any is absent.
SolanaTx(executed, loaded, innerReported) ==
    [keys |-> AccountKeys(executed.static, loaded),
     instructions |-> executed.roots,
     inner_instructions |->
        [r \in {n \in DOMAIN executed.roots : innerReported /\ executed.inner[n] # <<>>} |->
            executed.inner[r]]]

\* unified_tx_from_rpc: the metadata is looked at first, the message last, and
\* decode() lets no transaction without a signature through
RpcConvert(record) ==
    IF "no_meta" \in record.faults THEN Refused("MissingTxStatusMeta")
    ELSE IF record.faults \cap RpcMetaFaults # {} THEN Refused("MetaConvert")
    ELSE IF "undecodable" \in record.faults THEN Refused("FailedDecode")
    ELSE Converted(SolanaTx(record.executed,
             IF "loaded_addresses" \in record.omits THEN {} ELSE {Loaded(record.executed)},
             "inner_instructions" \notin record.omits))

\* unified_tx_from_grpc: every list is there, if only empty; the first
\* signature is taken between the message and the metadata, and there need
\* not be one
GrpcConvert(record) ==
    IF "no_update" \in record.faults THEN Refused("MissingTxUpdate")
    ELSE IF "no_meta" \in record.faults THEN Refused("MissingTxStatusMeta")
    ELSE IF record.faults \cap GrpcTxFaults # {} THEN Refused("Other")
    ELSE IF "no_signature" \in record.faults THEN [kind |-> "panic"]
    ELSE IF record.faults \cap GrpcMetaFaults # {} THEN Refused("Other")
    ELSE Converted(SolanaTx(record.executed, {Loaded(record.executed)}, TRUE))

\* SolanaTx::root_instructions
RootInstructions(tx) ==
    [r \in DOMAIN tx.instructions |->
        [ix |-> tx.instructions[r],
         inner |-> IF r \in DOMAIN tx.inner_instructions THEN tx.inner_instructions[r] ELSE <<>>]]

--------------------------------------------------------------------------------
(* What the runtime executed *)

\* The runtime's key table: the message's own keys, then the loaded ones.
RuntimeKeys(executed) == executed.static \o executed.writable \o executed.readonly

\* A key that an index is read as: the runtime's own, or none, and none only
\* for a loaded key of a record that leaves the loaded addresses out.
ReadAsRuntime(record, tx, idx) ==
    LET real == RuntimeKeys(record.executed)
        read == GetKey(tx.keys, idx)
    IN  IF read # NoKey THEN idx \in 0 .. Len(real) - 1 /\ read = real[idx + 1]
        ELSE \/ idx \notin 0 .. Len(real) - 1
             \/ /\ "loaded_addresses" \in record.omits
                /\ idx >= Len(record.executed.static)

InstructionAsExecuted(record, tx, ix) ==
    /\ ReadAsRuntime(record, tx, ix.program)
    /\ \A n \in DOMAIN ix.accounts :
         /\ ReadAsRuntime(record, tx, ix.accounts[n])
         /\ LET found == Peek(tx.keys, ix, n - 1)
            IN  found.ok => found.key = RuntimeKeys(record.executed)[ix.accounts[n] + 1]

\* A converted transaction names in every instruction, root or inner, the
\* program and the accounts it ran with, or none at all, never another key;
\* and it has each root's inner instructions under that root, or nowhere.
AsExecuted(record, tx) ==
    LET roots == RootInstructions(tx)
    IN  /\ DOMAIN roots = DOMAIN record.executed.roots
        /\ \A r \in DOMAIN roots :
             /\ roots[r].ix = record.executed.roots[r]
             /\ InstructionAsExecuted(record, tx, roots[r].ix)
             /\ \/ roots[r].inner = record.executed.inner[r]
                \/ "inner_instructions" \in record.omits /\ roots[r].inner = <<>>
             /\ \A n \in DOMAIN roots[r].inner :
                  InstructionAsExecuted(record, tx, roots[r].inner[n])
================================================================================
