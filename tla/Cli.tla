---------------------------------- MODULE Cli ----------------------------------
(***************************************************************************)
(* graced-cli (cli/src/main.rs, cli/src/infos.rs): for each signature on    *)
(* the command line, fetch the transaction, parse it, fetch what is known   *)
(* of the mints in its swaps in two batched calls, and print the swaps with *)
(* amounts in units of the mints.  Every call to the node may fail, and     *)
(* what it answers may change from one call to the next.                   *)
(*                                                                         *)
(* What parse_transaction makes of a converted transaction is a choice     *)
(* made with the signature (ParseTransaction models it).                   *)
(***************************************************************************)
EXTENDS TxRecords, SequencesExt

CONSTANTS
    Mints,          \* the mints
    NoMint,         \* the mint of a transfer that does not name it (None)
    MaxDecimals,    \* the largest power of ten in a u64
    SignatureLists, \* the command lines explored
    ArgSets,        \* the options explored
    MintAccounts,   \* what the node may have at a mint's address
    MetaAccounts    \* and at the address of its metadata

\* a parsed swap, by the mints that can be printed of it
Swaps ==
    [kind : {"dex", "aggregator"}, net : SUBSET Mints,
     decoded : SUBSET Mints, undecoded : SUBSET (Mints \cup {NoMint})]

Absent == [kind |-> "absent"]
Short == [kind |-> "short"]         \* fewer bytes than a mint
Garbage == [kind |-> "garbage"]     \* not an initialized mint
Extensions == {"none", "metadata", "broken"}
Mint == [kind : {"mint"}, decimals : Nat, token_2022 : BOOLEAN, extensions : Extensions]

\* A signature that is valid, with the record behind it and what parse_transaction
\* makes of that, and one that is not.
Parses ==
    [kind : {"swaps"}, swaps : Seq(Swaps)] \cup [kind : {"error", "panic"}]
Signatures ==
    [valid : {TRUE}, record : Record, parse : Parses] \cup [valid : {FALSE}]

ASSUME CliAssumption ==
    /\ IsFiniteSet(Mints) /\ NoMint \notin Mints /\ MaxDecimals \in Nat
    /\ SignatureLists \subseteq Seq(Signatures) \ {<<>>}
    /\ MintAccounts \subseteq {Absent, Short, Garbage} \cup Mint
    /\ MetaAccounts \subseteq {"absent", "named", "garbage"}
    /\ ArgSets \subseteq [style : {"tree", "compact", "table"}, detail : {"full", "summary"}]

VARIABLES
    args,      \* --style and --detail
    sigs,      \* the signatures: valid or not, with the record behind it
    n,         \* the signature the loop is at
    phase,     \* where in the loop's body it is
    tx,        \* the converted transaction, if it could be converted
    swaps,     \* parse_transaction's answer
    mints,     \* collect_mints's answer, and fetch_mint_infos's argument
    accounts,  \* mint_accounts
    metas,     \* metadata_accounts
    infos,     \* final_results
    later,     \* no_metadata: places in final_results
    map,       \* MintMap, by the infos in it
    answers    \* what was printed below each signature's header

locals == <<tx, swaps, mints, accounts, metas, infos, later, map>>
vars == <<args, sigs, n, phase, locals, answers>>

None == <<>>

Ended == phase \in {"exit", "panicked"}
At(p) == phase = p /\ UNCHANGED <<args, sigs>>
Goto(p) == phase' = p /\ UNCHANGED <<n, answers>>

\* the end of the loop's body, whose locals are dropped
Answer(a) ==
    /\ answers' = Append(answers, a)
    /\ n' = n + 1
    /\ phase' = IF n = Len(sigs) THEN "exit" ELSE "signature"
    /\ tx' = None /\ swaps' = None /\ mints' = None /\ accounts' = None
    /\ metas' = None /\ infos' = None /\ later' = None /\ map' = {}

Panic == Goto("panicked") /\ UNCHANGED locals

--------------------------------------------------------------------------------
(* The signature and its transaction *)

Init ==
    /\ args \in ArgSets
    /\ sigs \in SignatureLists
    /\ n = 1
    /\ phase = "signature"
    /\ tx = None /\ swaps = None /\ mints = None /\ accounts = None
    /\ metas = None /\ infos = None /\ later = None /\ map = {}
    /\ answers = <<>>

\* Mutant of InvalidSignature: without its continue.
InvalidSignatureGoesOn ==
    /\ At("signature") /\ ~sigs[n].valid
    /\ answers' = Append(answers, [kind |-> "invalid"])
    /\ phase' = "fetch"
    /\ UNCHANGED <<n, locals>>

InvalidSignature ==
    /\ At("signature") /\ ~sigs[n].valid
    /\ Answer([kind |-> "invalid"])

ValidSignature ==
    /\ At("signature") /\ sigs[n].valid
    /\ Goto("fetch") /\ UNCHANGED locals

FetchFails == At("fetch") /\ Answer([kind |-> "not_fetched"])

\* the transaction, and its conversion at the start of parse_transaction
Fetch ==
    /\ At("fetch")
    /\ tx' = RpcConvert(sigs[n].record)
    /\ Goto("parse")
    /\ UNCHANGED <<swaps, mints, accounts, metas, infos, later, map>>

NotConverted == At("parse") /\ tx.kind = "error" /\ Answer([kind |-> "error", error |-> tx.error])

Parsed(kind) == At("parse") /\ tx.kind = "ok" /\ sigs[n].parse.kind = kind

\* Mutant of ParseFails: it ends the loop.
ParseFailsForGood == Parsed("error") /\ Goto("exit") /\ UNCHANGED locals

ParseFails == Parsed("error") /\ Answer([kind |-> "error", error |-> "Ix"])
ParsePanics == Parsed("panic") /\ Panic

NoSwaps == Parsed("swaps") /\ sigs[n].parse.swaps = <<>> /\ Answer([kind |-> "nothing"])

SomeSwaps ==
    /\ Parsed("swaps") /\ sigs[n].parse.swaps # <<>>
    /\ swaps' = sigs[n].parse.swaps
    /\ Goto("collect")
    /\ UNCHANGED <<tx, mints, accounts, metas, infos, later, map>>

--------------------------------------------------------------------------------
(* fetch_mints_for *)

\* Mutant of MintsIn: the transfers of undecoded legs are left out.
MintsInDecoded(swap) == swap.net \cup swap.decoded

MintsIn(swap) == swap.net \cup swap.decoded \cup (swap.undecoded \ {NoMint})

\* a HashSet, in no particular order; without any mint there is no call
CollectMints ==
    /\ At("collect")
    /\ mints' \in SetToSeqs(UNION {MintsIn(swaps[k]) : k \in DOMAIN swaps})
    /\ Goto(IF mints' = None THEN "print" ELSE "mint_accounts")
    /\ UNCHANGED <<tx, swaps, accounts, metas, infos, later, map>>

\* the map stays empty
GiveUp == Goto("print") /\ UNCHANGED <<tx, swaps, mints, infos, map>>

MintAccountsFail == At("mint_accounts") /\ GiveUp /\ UNCHANGED <<accounts, metas, later>>

GetMintAccounts ==
    /\ At("mint_accounts")
    /\ accounts' \in [DOMAIN mints -> MintAccounts]
    /\ Goto("metadata_accounts")
    /\ UNCHANGED <<tx, swaps, mints, metas, infos, later, map>>

MetadataAccountsFail == At("metadata_accounts") /\ GiveUp /\ UNCHANGED <<accounts, metas, later>>

GetMetadataAccounts ==
    /\ At("metadata_accounts")
    /\ metas' \in [DOMAIN mints -> MetaAccounts]
    /\ Goto("place")
    /\ UNCHANGED <<tx, swaps, mints, accounts, infos, later, map>>

\* the mint whose turn it is, while final_results is filled
K == Len(infos) + 1
Placing(kinds) == At("place") /\ K \in DOMAIN mints /\ accounts[K].kind \in kinds

Push(info) ==
    /\ infos' = Append(infos, info)
    /\ Goto("place")
    /\ UNCHANGED <<tx, swaps, mints, accounts, metas, map>>

\* what is kept of RawMintInfo
Info(k, named) == [pubkey |-> mints[k], decimals |-> accounts[k].decimals, named |-> named]

NoMintState == Placing({"absent", "garbage"}) /\ Push(None) /\ UNCHANGED later

\* slicing the account's data panics
ShortAccount == Placing({"short"}) /\ Panic

WithMetadata ==
    /\ Placing({"mint"}) /\ metas[K] # "absent"
    /\ Push(Info(K, metas[K] = "named"))
    /\ UNCHANGED later

WithoutMetadata ==
    /\ Placing({"mint"}) /\ metas[K] = "absent"
    /\ later' = Append(later, K)
    /\ Push(None)

Resolving == At("place") /\ Len(infos) = Len(mints)

\* Mutant of Resolve: no_metadata is not consumed.
ResolveAgain ==
    /\ Resolving /\ later # <<>>
    /\ infos' = [infos EXCEPT ![Head(later)] =
                    Info(Head(later), accounts[Head(later)].extensions = "metadata")]
    /\ Goto("place")
    /\ UNCHANGED <<tx, swaps, mints, accounts, metas, map, later>>

\* a mint without metadata may carry it as an extension; an SPL mint has none
Resolve ==
    /\ Resolving /\ later # <<>>
    /\ LET k == Head(later)
       IN  /\ accounts[k].token_2022 => accounts[k].extensions # "broken"
           /\ infos' = [infos EXCEPT ![k] =
                Info(k, accounts[k].token_2022 /\ accounts[k].extensions = "metadata")]
    /\ later' = Tail(later)
    /\ Goto("place")
    /\ UNCHANGED <<tx, swaps, mints, accounts, metas, map>>

\* an error in one mint's extensions is the whole batch's
BrokenExtensions ==
    /\ Resolving /\ later # <<>>
    /\ LET a == accounts[Head(later)] IN a.token_2022 /\ a.extensions = "broken"
    /\ GiveUp /\ UNCHANGED <<accounts, metas, later>>

MakeMap ==
    /\ Resolving /\ later = <<>>
    /\ map' = {infos[k] : k \in DOMAIN infos} \ {None}
    /\ Goto("print")
    /\ UNCHANGED <<tx, swaps, mints, accounts, metas, infos, later>>

--------------------------------------------------------------------------------
(* Printing *)

\* the mints whose amounts the style prints at this level of detail
Shown(swap) ==
    swap.net \cup
    (IF args.detail = "full" THEN swap.decoded ELSE {}) \cup
    (IF args.detail = "full" /\ args.style = "tree" THEN swap.undecoded ELSE {})

\* amount_for_mint and mint_label: the digits taken off, or "raw" with a note
Line(mint) ==
    LET found == {info \in map : info.pubkey = mint}
        it == CHOOSE info \in found : TRUE
    IN  IF found = {} THEN [digits |-> "raw", named |-> FALSE]
        ELSE [digits |-> IF it.decimals > MaxDecimals THEN 0 ELSE it.decimals,
              named |-> it.named]

Lines == [m \in UNION {Shown(swaps[k]) : k \in DOMAIN swaps} |-> Line(m)]

PrintSwaps == At("print") /\ Answer([kind |-> "swaps", lines |-> Lines])

Finished == Ended /\ UNCHANGED vars

Next ==
    \/ InvalidSignature \/ ValidSignature \/ FetchFails \/ Fetch
    \/ NotConverted \/ ParseFails \/ ParsePanics \/ NoSwaps \/ SomeSwaps
    \/ CollectMints \/ MintAccountsFail \/ GetMintAccounts
    \/ MetadataAccountsFail \/ GetMetadataAccounts
    \/ NoMintState \/ ShortAccount \/ WithMetadata \/ WithoutMetadata
    \/ Resolve \/ BrokenExtensions \/ MakeMap \/ PrintSwaps \/ Finished

Spec == Init /\ [][Next]_vars

\* one task that awaits each call; a call returns, if only with a timeout
FairSpec == Spec /\ WF_vars(Next)

--------------------------------------------------------------------------------
(* Properties *)

Phases ==
    {"signature", "fetch", "parse", "collect", "mint_accounts", "metadata_accounts",
     "place", "print", "exit", "panicked"}

\* Every variable keeps its type; there is one answer for each signature that
\* the loop is past, and a mint's info is only ever in the mint's own place.
CliTypeOK ==
    /\ phase \in Phases
    /\ n \in 1 .. Len(sigs) + 1 /\ Len(answers) = n - 1
    /\ mints \in Seq(Mints) /\ Len(mints) = Cardinality(ToSet(mints))
    /\ Len(infos) <= Len(mints)
    /\ \A k \in DOMAIN infos : infos[k] # None => infos[k].pubkey = mints[k]
    /\ \A k \in DOMAIN later : later[k] \in DOMAIN infos /\ infos[later[k]] = None

\* However a node reports a transaction, over RPC or over gRPC and with parts
\* left out, the parsers read every account index of its instructions as the
\* key the runtime ran it with, or as none: a loaded address that was left out
\* never shifts another key into its place.  A message whose inner
\* instructions are kept by root keeps them under their own root.
ReadAsExecuted ==
    phase = "parse" =>
        \A read \in {tx, GrpcConvert(sigs[n].record)} :
            read.kind = "ok" => AsExecuted(sigs[n].record, read.tx)

\* What can be printed for a signature, whatever the other ones are.
OwnAnswers(sig) ==
    IF ~sig.valid THEN {"invalid"}
    ELSE {"not_fetched"} \cup
         (IF RpcConvert(sig.record).kind = "error" \/ sig.parse.kind = "error" THEN {"error"}
          ELSE IF sig.parse.kind = "panic" THEN {}
          ELSE IF sig.parse.swaps = <<>> THEN {"nothing"} ELSE {"swaps"})

\* A signature that is invalid, cannot be fetched, converted or parsed, or
\* whose mints cannot be looked up, costs its own answer at most: every other
\* one is answered for itself and in its place.  Only a panic stops the loop,
\* of a parser or of the slice of a mint account that is too short.
EachSignatureAlone ==
    /\ \A k \in DOMAIN answers : answers[k].kind \in OwnAnswers(sigs[k])
    /\ phase = "exit" => Len(answers) = Len(sigs)
    /\ phase = "panicked" =>
         \/ sigs[n].parse.kind = "panic"
         \/ Short \in ToSet(accounts)

\* Both calls were answered, and no extensions made the batch fail.
Resolved ==
    /\ accounts # None /\ metas # None
    /\ \A k \in DOMAIN mints :
         (accounts[k].kind = "mint" /\ metas[k] = "absent" /\ accounts[k].token_2022) =>
            accounts[k].extensions # "broken"

\* A line shows an amount in units of the mint that its account says, and the
\* name that its own metadata has, whichever of its accounts have what and in
\* whatever order the HashSet gave the mints; an amount is only shown raw if
\* its mint has no readable account or the batch failed.  No style prints a mint that
\* was not asked for.  Holds up to the largest power of ten in a u64; beyond,
\* an amount is shown unadjusted without the note that it is raw.
ShownAsOnChain ==
    phase = "print" =>
        /\ DOMAIN Lines \ {NoMint} \subseteq ToSet(mints)
        /\ \A m \in DOMAIN Lines :
            IF Resolved /\ \E k \in DOMAIN mints : mints[k] = m /\ accounts[k].kind = "mint"
            THEN LET k == CHOOSE j \in DOMAIN mints : mints[j] = m
                 IN  /\ accounts[k].decimals <= MaxDecimals =>
                            Lines[m].digits = accounts[k].decimals
                     /\ Lines[m].named =
                            IF metas[k] # "absent" THEN metas[k] = "named"
                            ELSE accounts[k].token_2022 /\ accounts[k].extensions = "metadata"
            ELSE Lines[m] = [digits |-> "raw", named |-> FALSE]

\* The command ends: no answer of the node keeps the loops over signatures,
\* mints and postponed mints from getting through.
AllAnswered == <>Ended
================================================================================
