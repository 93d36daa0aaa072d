------------------------------ MODULE DexParsers ------------------------------
(***************************************************************************)
(* The parsers of the AMM programs (parse/dex): which instructions each     *)
(* recognises, which of the instruction's accounts it reads, where it takes *)
(* the swap's amounts from, and what it makes of not finding them.          *)
(*                                                                         *)
(* An instruction is described by what a parser can tell of it; which mints *)
(* and amounts a source holds is left out, only whether it holds a swap.    *)
(***************************************************************************)
EXTENDS Naturals

Sources == {"swap", "missing", "failed"}

Instruction ==
    [op        : {"swap", "swap_v2", "shared", "shared_v2", "other"},
                            \* the discriminator, in the program's own terms
     accounts  : Nat,       \* how many accounts it lists
     keyless   : SUBSET Nat,    \* the positions whose index names no account key:
                            \* the transaction's loaded addresses were left out
     transfers : Sources,   \* get_swap_info over its direct inner instructions
     deltas    : Sources \cup {"overflow"},
                            \* the balance changes of pump's two accounts;
                            \* "overflow": of too many decimals for the build
     mints     : BOOLEAN,   \* the balances know the mints of both its vaults
     log       : {"unavailable", "silent", "blank", "event", "event_with_mints"}]
                            \* the first of its events; "blank": an empty payload

NoLabel == "none"
Swap(label) == [kind |-> "swap", label |-> label]
NoSwap == [kind |-> "none", label |-> NoLabel]
Error  == [kind |-> "error", label |-> NoLabel]
Panic  == [kind |-> "panic", label |-> NoLabel]

\* peek: the position is listed and its index names a key
Readable(ix, n) == n < ix.accounts /\ n \notin ix.keyless

\* accs[n]: the Index of InstructionAccounts unwraps the result of peek
Reads(ix, positions, outcome) ==
    IF \A n \in positions : Readable(ix, n) THEN outcome ELSE Panic

\* ok_or(NoDetailsFound)?, and ? on every error
Strict(source, label) == IF source = "swap" THEN Swap(label) ELSE Error

\* Mutant of Lenient: no details is an error, as in the basic AMMs' parsers.
NotLenient(source, label) == Strict(source, label)

\* the proprietary AMMs return Ok(None) when there are no details
Lenient(source, label) ==
    CASE source = "swap"    -> Swap(label)
      [] source = "missing" -> NoSwap
      [] source = "failed"  -> Error

--------------------------------------------------------------------------------
(* parse/dex/basic *)

BonkSwap(ix) ==
    IF ix.op = "swap"
    THEN Reads(ix, {8, 1, 4, 5}, Strict(ix.transfers, "BonkSwap")) ELSE NoSwap

Byreal(ix) ==
    CASE ix.op = "swap"    -> Reads(ix, {5, 6, 2, 0}, Strict(ix.transfers, "Byreal"))
      [] ix.op = "swap_v2" -> Reads(ix, {11, 12, 5, 6, 2, 0}, Strict(ix.transfers, "Byreal"))
      [] OTHER             -> NoSwap

Deriverse(ix) ==
    IF ix.op = "swap" THEN Reads(ix, 0 .. 5, Strict(ix.transfers, "Deriverse")) ELSE NoSwap

LaunchLab(ix) ==
    IF ix.op = "swap"
    THEN Reads(ix, {7, 8, 4, 0}, Strict(ix.transfers, "LaunchLab")) ELSE NoSwap

Manifest(ix) ==
    CASE ix.op = "swap"    -> Reads(ix, {0, 1, 5, 6}, Strict(ix.transfers, "Manifest"))
      [] ix.op = "swap_v2" -> Reads(ix, {0, 2, 6, 7}, Strict(ix.transfers, "Manifest"))
      [] OTHER             -> NoSwap

MeteoraDAMMV2(ix) ==
    IF ix.op = "swap"
    THEN Reads(ix, {1, 8, 6, 7, 4, 5}, Strict(ix.transfers, "MeteoraDAMMV2")) ELSE NoSwap

MeteoraDBC(ix) ==
    IF ix.op = "swap"
    THEN Reads(ix, {9, 2, 5, 6}, Strict(ix.transfers, "Byreal")) ELSE NoSwap

MeteoraDLMM(ix) ==
    IF ix.op = "swap"
    THEN Reads(ix, {0, 10, 6, 7, 2, 3}, Strict(ix.transfers, "MeteoraDLMM")) ELSE NoSwap

MeteoraPools(ix) ==
    IF ix.op = "swap"
    THEN Reads(ix, {12, 0, 5, 6}, Strict(ix.transfers, "MeteoraPools")) ELSE NoSwap

Orca(ix) ==
    CASE ix.op = "swap"    -> Reads(ix, {4, 6, 2, 1}, Strict(ix.transfers, "Orca"))
      [] ix.op = "swap_v2" -> Reads(ix, {8, 10, 4, 3}, Strict(ix.transfers, "Orca"))
      [] OTHER             -> NoSwap

\* The only parser that reads native balances, and the only one that derives an
\* amount of tokens: 10u64.pow(decimals) panics where overflow is checked.
Pump(ix) ==
    LET out == IF ix.deltas = "overflow" THEN Panic ELSE Strict(ix.deltas, "Pump")
    IN  IF ix.op = "swap" THEN Reads(ix, {2, 4, 3, 6}, out) ELSE NoSwap

PumpAmm(ix) ==
    IF ix.op = "swap"
    THEN Reads(ix, {3, 4, 7, 8, 0, 1}, Strict(ix.transfers, "PumpAmm")) ELSE NoSwap

\* without logs there is no falling back to the transfers
RaydiumClmm(ix) ==
    LET source == CASE ix.log = "unavailable" -> "failed"
                    [] ix.log \in {"silent", "blank"} -> ix.transfers
                    [] OTHER                  -> IF ix.mints THEN "swap" ELSE "missing"
    IN  IF ix.op = "swap" THEN Reads(ix, {2, 0, 5, 6}, Strict(source, "RaydiumClmm")) ELSE NoSwap

PancakeSwap(ix) ==
    LET out == RaydiumClmm(ix)
    IN  IF out.kind = "swap" THEN [out EXCEPT !.label = "PancakeSwap"] ELSE out

RaydiumCpSwap(ix) ==
    LET logged == ix.log = "event_with_mints" \/ (ix.log = "event" /\ ix.mints)
        source == IF logged THEN "swap" ELSE ix.transfers
    IN  IF ix.op = "swap" THEN Reads(ix, {6, 7, 3, 0}, Strict(source, "RaydiumV4")) ELSE NoSwap

\* decode_log looks at the first byte of a ray_log's payload, blank or not; logs
\* that are unavailable or hold no event leave the transfers
RaydiumV4Details(ix) ==
    CASE ~ix.mints                                 -> Error
      [] ix.mints /\ ix.log = "blank"              -> Panic
      [] ix.mints /\ ix.log \in {"event", "event_with_mints"} -> Swap("RaydiumV4")
      [] ix.mints /\ ix.log \in {"unavailable", "silent"} -> Strict(ix.transfers, "RaydiumV4")

\* Mutant of RaydiumV4: 17 accounts are taken to include amm_target_orders.
RaydiumV4OffByOne(ix) ==
    LET positions == IF ix.op = "swap_v2" THEN {3, 4, 1, 7}
                     ELSE IF ix.accounts >= 17 THEN {5, 6, 1, 17}
                     ELSE {4, 5, 1, 16}
    IN  IF ix.op \in {"swap", "swap_v2"}
        THEN Reads(ix, positions, RaydiumV4Details(ix)) ELSE NoSwap

\* amm_target_orders is optional: with it, every account after it moves by one
RaydiumV4(ix) ==
    LET positions == IF ix.op = "swap_v2" THEN {3, 4, 1, 7}
                     ELSE IF ix.accounts > 17 THEN {5, 6, 1, 17}
                     ELSE {4, 5, 1, 16}
    IN  IF ix.op \in {"swap", "swap_v2"}
        THEN Reads(ix, positions, RaydiumV4Details(ix)) ELSE NoSwap

SarosAmm(ix) ==
    IF ix.op = "swap"
    THEN Reads(ix, {2, 4, 5, 9}, Strict(ix.transfers, "SarosDLMM")) ELSE NoSwap

SarosDLMM(ix) ==
    IF ix.op = "swap"
    THEN Reads(ix, {0, 1, 2, 5, 6, 9}, Strict(ix.transfers, "SarosDLMM")) ELSE NoSwap

Scorch(ix) ==
    IF ix.op = "swap"
    THEN Reads(ix, {1, 15, 4, 5, 6, 7}, Strict(ix.transfers, "Scorch")) ELSE NoSwap

\* The withdrawal is looked for among the vault program's instructions but
\* decoded as a token program's, so it is never found.
StabbleStable(ix) ==
    LET source == IF ix.transfers = "failed" THEN "failed" ELSE "missing"
    IN  CASE ix.op = "swap"    -> Reads(ix, {0, 6, 3, 4}, Strict(source, "StabbleStable"))
          [] ix.op = "swap_v2" -> Reads(ix, {0, 8, 5, 6}, Strict(source, "StabbleStable"))
          [] OTHER             -> NoSwap

StabbleWeighted(ix) ==
    LET out == StabbleStable(ix)
    IN  IF out.kind = "swap" THEN [out EXCEPT !.label = "StabbleWeighted"] ELSE out

--------------------------------------------------------------------------------
(* parse/dex/prop *)

AlphaQ(ix) ==
    IF ix.op = "swap"
    THEN Reads(ix, {0, 1, 5, 6}, Lenient(ix.transfers, "AlphaQ")) ELSE NoSwap

Aquifer(ix) ==
    IF ix.op = "swap"
    THEN Reads(ix, {1, 7, 4, 15, 13, 9}, Lenient(ix.transfers, "Aquifer")) ELSE NoSwap

BisonFi(ix) ==
    IF ix.op = "swap"
    THEN Reads(ix, {0, 1, 2, 3}, Lenient(ix.transfers, "BisonFi")) ELSE NoSwap

GoonFi(ix) ==
    IF ix.op = "swap"
    THEN Reads(ix, {0, 1, 4, 5}, Lenient(ix.transfers, "GoonFi")) ELSE NoSwap

GoonFiV2(ix) ==
    IF ix.op = "swap"
    THEN Reads(ix, {0, 1, 4, 5}, Lenient(ix.transfers, "GoonFiV2")) ELSE NoSwap

\* takes every instruction of the program for a swap
HumidiFi(ix) == Reads(ix, {0, 1, 2, 3}, Lenient(ix.transfers, "HumidiFi"))

SolFi(ix) ==
    IF ix.op = "swap"
    THEN Reads(ix, {8, 9, 1, 0, 4, 5}, Lenient(ix.transfers, "SolFi")) ELSE NoSwap

SolFiV2(ix) ==
    IF ix.op = "swap"
    THEN Reads(ix, {0, 1, 4, 5}, Lenient(ix.transfers, "SolFiV2")) ELSE NoSwap

TesseraV(ix) ==
    IF ix.op = "swap"
    THEN Reads(ix, {7, 8, 1, 2, 3, 4}, Lenient(ix.transfers, "TesseraV")) ELSE NoSwap

\* whatever is not the newest swap is taken for an older one
ZeroFi(ix) ==
    Reads(ix, IF ix.op = "swap_v2" THEN {8, 0, 3, 5} ELSE {7, 0, 2, 4},
          Lenient(ix.transfers, "ZeroFi"))

--------------------------------------------------------------------------------
BasicAmms ==
    {"BonkSwap", "Byreal", "Deriverse", "LaunchLab", "Manifest", "MeteoraDAMMV2",
     "MeteoraDBC", "MeteoraDLMM", "MeteoraPools", "Orca", "PancakeSwap", "Pump",
     "PumpAmm", "RaydiumClmm", "RaydiumCpSwap", "RaydiumV4", "SarosAmm",
     "SarosDLMM", "Scorch", "StabbleStable", "StabbleWeighted"}

PropAmms ==
    {"AlphaQ", "Aquifer", "BisonFi", "GoonFi", "GoonFiV2", "HumidiFi", "SolFiV2",
     "TesseraV", "ZeroFi"}

\* is_amm; SolFi has a parser and is missing here
Amms == BasicAmms \cup PropAmms

\* dex::parse
ParseDex(program, ix) ==
    CASE program = "BonkSwap"        -> BonkSwap(ix)
      [] program = "Byreal"          -> Byreal(ix)
      [] program = "Deriverse"       -> Deriverse(ix)
      [] program = "LaunchLab"       -> LaunchLab(ix)
      [] program = "Manifest"        -> Manifest(ix)
      [] program = "MeteoraDAMMV2"   -> MeteoraDAMMV2(ix)
      [] program = "MeteoraDBC"      -> MeteoraDBC(ix)
      [] program = "MeteoraDLMM"     -> MeteoraDLMM(ix)
      [] program = "MeteoraPools"    -> MeteoraPools(ix)
      [] program = "Orca"            -> Orca(ix)
      [] program = "PancakeSwap"     -> PancakeSwap(ix)
      [] program = "Pump"            -> Pump(ix)
      [] program = "PumpAmm"         -> PumpAmm(ix)
      [] program = "RaydiumClmm"     -> RaydiumClmm(ix)
      [] program = "RaydiumCpSwap"   -> RaydiumCpSwap(ix)
      [] program = "RaydiumV4"       -> RaydiumV4(ix)
      [] program = "SarosAmm"        -> SarosAmm(ix)
      [] program = "SarosDLMM"       -> SarosDLMM(ix)
      [] program = "Scorch"          -> Scorch(ix)
      [] program = "StabbleStable"   -> StabbleStable(ix)
      [] program = "StabbleWeighted" -> StabbleWeighted(ix)
      [] program = "AlphaQ"          -> AlphaQ(ix)
      [] program = "Aquifer"         -> Aquifer(ix)
      [] program = "BisonFi"         -> BisonFi(ix)
      [] program = "GoonFi"          -> GoonFi(ix)
      [] program = "GoonFiV2"        -> GoonFiV2(ix)
      [] program = "HumidiFi"        -> HumidiFi(ix)
      [] program = "SolFi"           -> SolFi(ix)
      [] program = "SolFiV2"         -> SolFiV2(ix)
      [] program = "TesseraV"        -> TesseraV(ix)
      [] program = "ZeroFi"          -> ZeroFi(ix)
      [] OTHER                       -> NoSwap
================================================================================
