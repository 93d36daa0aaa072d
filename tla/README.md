# A verification model of graced

graced reads a finished Solana transaction and reports the swaps in it. It has
no threads and keeps nothing between calls: what makes it hard is that it has
to reconstruct structure from flat, partial records. This directory holds TLA+
modules of its components, TLC configurations that check them on small
instances, and TLAPS proofs of the main invariants for every instance. Paths
below are relative to `graced/src` in the repository, those of the command line
to its root.

## Inventory

| component | source | state and operations | what makes it correct |
|---|---|---|---|
| instruction tree | `transaction/instruction.rs` | the stack of open scopes, child counters, paths; `build_ix_stack`, `flat_inner_instructions`, `trace` | every call below its caller, paths are positions, order kept |
| net swap | `swap/graph.rs`, `swap.rs` | running balance per mint, net input; `SwapGraph::swap`, `is_dust` | balances exact, input is the least capital, dust bounded, refusals justified |
| route legs | `parse/aggregator/mod.rs` | a shape per leg, the mint held; `to_swaps`, `resolve`, `candidates_from_transfers` | no guessed direction, two passes enough, real chains recovered |
| transaction parser | `parse.rs`, `aggregator_routes` | cursor over root instructions and legs, what is collected, the error trace | output per instruction, in order; unknown programs cannot fail it |
| aggregator parsers | `parse/aggregator/*.rs` | none; one function per aggregator | what is recognised, what is an error |
| DEX parsers | `parse/dex/**` | none; one function per program (31) | layouts, fallbacks, labels |
| swap info | `parse/util.rs`, `util/transfer.rs`, `util/balances.rs` | none; transfers or balance changes to direction and amounts | agrees with what was executed |
| balance-diff detector | `parse/full.rs` | delta per (owner, mint); `detect_swaps` | agrees with the books of the wallets |
| transaction logs | `util/logs.rs` | a cell with the lazily parsed log tree; lookup by path | the logs of the right call, or none; a failed load is the same for all |
| keys and accounts | `transaction/keys.rs`, `util/accounts.rs` | key table of static and loaded keys; `get`, `peek`, indexing | an index names the key the runtime had there; reading past the end |
| conversion | `transaction.rs`, `transaction/geyser.rs` | none; RPC or gRPC record to `SolanaTx` | nothing read as something else, whatever the node leaves out |
| program table | `swap/program.rs` | constants | |
| command line | `cli/src/main.rs`, `cli/src/infos.rs` | the loop's locals: swaps, mints, results with postponed places, mint map | one bad signature or mint costs only its own answer; amounts in the mint's own units |

`parse_transaction` builds the instruction tree of each root instruction,
hands it to an aggregator's or a DEX's parser, which read accounts, logs,
transfers (direct children in the tree) and balances; an aggregator's parser
calls the DEX parsers for its legs, directs the legs that were not decoded and
collapses them into one net swap. `detect_swaps` is a second, independent way
from a transaction to its swaps.

The hard behaviours are all of sequences and boundaries: order of legs, order
of transfers, missing heights, `u8`, `u64` and `i64` limits, one failing part
of many, a hash map's order. There is no concurrency or persistence, and no
network but the node that the command line asks, one call at a time; PROJECT.json
lists the hazards there are.

## Modules

**CpiTree** is the abstract specification of the instruction tree: calls are
added one by one below a call that may still be running. **InstructionStack**
is `build_ix_stack` itself, one action per loop turn: `CloseScope` (lines
199-223), `OpenScope` (225-245), `Drain` (249-256). Nodes are positions in the
input, `stack`, `inner`, `path`, `rootCount` are the code's variables, `None`
is `NoHeight`. A node is attached to its parent only when its scope closes,
while CpiTree's call appears at once; the refinement mapping adds the one open
child of each node to the attached ones.

**SwapGraph** is `SwapGraph::swap`, one action per branch of the loop body. The
history variables `spent`, `made` and `deficit` record what flowed per mint, so
that the properties can speak of the route and not of the code's own balance.
The unchecked `+=` has both outcomes, a panic (debug) or a wrapped sum (release).
`Tolerance` is what `is_dust` lets one leg lack, the saturation of its products
included.

**RouteLegs** is `to_swaps`: collect the shapes, walk forward, walk backward,
emit. The sort of a hash map's entries is a choice among the pairs of largest
totals. A route also carries what each leg really did, decoded or not, against
which `ChainRecovered` is stated.

**AggregatorNet** composes the two into `AggregatorSwap.swap`: Titan and Axiom
hand RouteLegs' directed legs to SwapGraph (an `INSTANCE` of it walks them),
Jupiter and DFlow hand it the swaps of their event instructions, OKX takes its
net swap from one event. What an aggregator announces of an executed route is
environment (`Announcements`): for Jupiter single events, a list, or both. The
caller's wallet, computed from the executed legs alone (`Needed`, `Received`),
is the reference for the net swap: a mint is lacked at a leg by what the legs up
to it took less what those before it gave, and needed by the most it is ever
lacked.

**TxLogs** extends InstructionStack with the transaction around its root: other
roots before and after, precompiles among them, the depth of every call, and the
log messages, which may be missing, unreadable or cut off after any call. Each
node's parser then looks its logs up by the path that InstructionStack gave it,
the first lookup filling the `OnceCell`. The parser of the log text is external:
it yields the calls announced. The messages and the log tree are sets of calls;
a path's element picks the call with that many others before it (`Nth`).

**DexParsers** has one operator per DEX program: recognised discriminators,
account positions read, source of the amounts and what is made of its absence.
An instruction is abstracted to what these can tell apart, the positions whose
index names no key, a log without a payload and decimals past a `u64` among it:
each of them panics in some parser. **ParseTransaction**
is the walk over a transaction with those operators, one action per decision.
The net swap is left out there: its failure is `.ok()` in every aggregator.

**SwapInfo** executes swaps with fees as transfers, in either order, on one
pool, and then reads the transaction back both ways. `find_leg` takes the last
of equal transfers as `max_by_key` does; `derive_amount`'s trip through a float
is a choice of what it may come out as (`Readings`): wrong by less than a share of
the amount, `1 / Precision`, and cut to a whole number. With `f64` that share is
2^-50 at most for the four roundings on the way (a JSON decimal that is read to
within its last bit among them), so that balances below 2^50 are off by one at
most and those near `i64::MAX` by hundreds. Each rounding keeps the order of two
amounts, but for JSON's parser: `ordered` says that it had no part. A balance
without a float reads as zero (`Blank`), and 10^decimals may overflow
(`PowOverflows`). No parser calls `get_swap_info_from_balance_diff` itself (pump
compares its own two balances); it is part of the library.

**BalanceDiff** executes payments in lamports, wrapped SOL and tokens, wrapping,
opening and closing of accounts, keeps a book per wallet, and then runs
`detect_swaps` account by account. The loop that folds wrapped SOL finds it under
the same mint string already and puts every entry back as it was; owner
strings are taken to be keys (`InvalidPubkey` is left out). Any set of token
accounts may be reported without their owner.

**TxRecords** converts a record into a `SolanaTx`, over RPC and over gRPC. A
record is an executed transaction with the parts that are malformed and the
optional parts that are left out; the operators keep the order in which the code
looks at them, because it decides the error. `AccountKeys::get` and `peek` read
through the resulting key table.

**Cli** is graced-cli's loop: one action per way through each of its steps, from
the signature over the conversion (TxRecords) and the parse, whose verdict is
chosen with the signature, to the mints (`fetch_mints_for`, `fetch_mint_infos`
mint by mint, with `no_metadata` as `later`) and the printed lines. Each call to
the node may fail, and its answers are chosen when it is made.

Modules named MC... only give the constants their values for TLC. Operators
whose comment begins with "Mutant of" are the faults that show each property can
fail; nothing else uses them. Transactions, transfers and token programs are
environment: modelled from what the code takes from them.

## Runs

| run | bounds | what it shows |
|---|---|---|
| `tx_logs` | all lists of up to 5 heights from 2..4 or none; one root before, a program or a precompile, up to one after; logs cut after every call | order, callers, paths, depth, termination, CpiTree is implemented, and the same paths find the right logs. Five nodes are enough for two scopes to close at once below a sibling, with a barrier between |
| `swap_graph` | 3 mints, `u64` of 4 bits, dust 2 in 8, routes of up to 3 legs with amounts 1, 4 and 9, and of 4 with 3 and 4 | exact balances, least capital, bounded dust, real refusals. All branches, saturation and overflow are reached; one of 4 is dust, and a mint takes it twice in routes of 4 legs; 9 saturates the dust test |
| `aggregator_net` | 3 mints, up to 4 legs, fees in any mint up to the size of the input, five aggregators, dust 5 in 10 | directions have a witness, two passes suffice, clean chains come back, and the net swap is what the wallet saw, but for dust. Three mints and four legs hold splits, cycles and the same pair twice; a shortfall of one of two or three is dust, all of it is not |
| `parse_transaction` | every parser alone, as a root and as a leg, at the account counts around every layout, with a position at or near the last that names no key; mixtures of up to 3 roots or 3 legs that end in every way | output is per instruction, routes are legs, only swaps fail, and a panic has one of four causes |
| `swap_info` | up to 2 swaps, 1, 3 or 17 in and 5 out, one fee of 2 at most, in either mint from either side; `i64::MAX` is 15, `Precision` 7, the pool starts with 5 and the user with 14 of either | both readings agree with what was executed, and each with what its side traded. Balances fit an `i64` in some behaviours and not in others, are read right, off by one and off by several, and changes of one unit occur on both sides |
| `balance_diff` | user and pool, 3 steps, amounts 1 and 3, fee 1, rent 2, any accounts without their owner | the swaps found are the trades in the books, and an owner left out hides no one else's |
| `cli` | single signatures with any record and verdict and up to 3 mints, all pairs of six kinds of signature; 6 kinds of mint account, 3 of metadata; 3 of the options | each signature is answered for itself, records are read as executed, lines agree with the mints' accounts, the command ends. Three mints are enough for a postponed one on either side of one that is not |

Five runs show where the code and what it says of itself part, each with the
shortest counterexample TLC finds; PROJECT.json quotes the lines:

- `trace_finds_own_path`: `path()` starts with the root's index, `trace()` does
  not expect it.
- `split_route`: a route split over a decoded and an undecoded pool is taken for
  a chain. The run has the decoded leg first, and the forward pass turns the
  undecoded one round (`parse/aggregator/mod.rs:183`): of A for B twice it makes A
  for A. The other way about, the backward pass does the same (`:197-212`). The
  tolerance of this run is 1 in 10, so that no shortfall in it is dust.
- `dust_saturates`: where the products of `is_dust` saturate, a leg may lack all
  it spends. In the run 9 are spent of a mint of which 1 was made.
- `swaps_reported`: MeteoraDBC, RaydiumCpSwap and SarosAmm swaps carry other
  programs' names, and SolFi has a parser but is not a recognised AMM.
- `fee_misread`: the fee is not put back if it offsets the payer's change exactly.

Four smaller ones have no run of their own. An error in a leg carries the path and
program of its aggregator, as `with_trace` is called for root instructions only
(`parse.rs:98`; README.md:84-86 has it point at where the failure happened). The legs of `SwapGraph` are called
unordered but for their ends (`graph.rs:82`), while a leg that precedes the one
that feeds it is refused. An amount of a mint with more than 19 decimals is
printed unadjusted and without the "(raw)" note (`cli/src/main.rs:234`). A
precompile before an instruction shifts its logs (`util/logs.rs:108`).

Some premises of the passing properties are there because the property fails
without them: `ChainRecovered` for strictly dominant mints (a tie is settled by the order of a
hash map); `TradesRecovered` for amounts that fit an `i64`,
and with `LoneTradeAgrees` for a fee below both amounts (`find_leg` takes the
largest transfer, and a swap that pays nothing out has no direction);
`LoneTradeAgrees` and `NetDirection` for floats that keep the order of balances, or
balances small enough to be off by one at most; `OnlyMisreadsPanic` names the four
causes it excepts (an account of the first 17 that is missing or names no key,
V4's optional one, a `ray_log` without payload, pump's decimals), of which the
first is the common one, as `humidifi.rs` indexes before it looks at the data;
`OwnerlessHidesOnlyItsOwner` and `SwapsAreTrades` when the loaded addresses are
known, and but for a payer whose SOL moved by exactly the fee; `OwnLogsOrNone` and
`OwnLogsFound` when no precompile comes first and the node reports heights;
`EachSignatureAlone` but for a panic, of a parser or of the slice of a mint
account that is too short (`cli/src/infos.rs:38`); `NetSwapIsExecuted` for
chains whose transfers carry no fee on top; `NetSwapIsWalletChange` for totals
of each mint that fit a `u64`, with dust bounded where `is_dust` is exact. `NetInputIsLeastCapital` is
the capital in the order of the legs: what cycles back after it was needed is
not netted out.

**Fairness.** Two runs have a liveness property, each under `WF(Next)`:
`tx_logs`, whose loops are sequential code that nothing can keep from going on,
and `cli`, a single task that awaits one call at a time, each of which returns,
if only with the RPC client's timeout. All other specifications are safety only.
A finished call stutters by an action of its own (`Terminated`, `Ended`,
`Finished`), so that deadlock is checked everywhere.

## Proofs

TLAPS proves the following with no bound on the constants beyond each module's
named assumption. Each inductive invariant was first checked by TLC. A module
`<X>Proofs` extends `<X>` (InstructionStackProofs extends TxLogs, which extends
InstructionStack); **ProofLemmas** has what several of them use about
naturals and sequences.

- **InstructionStackProofs**: all invariants of the fold and its refinement.
  `TypeCorrect`, `PathsCorrect`: paths are written before nodes are attached, so
  `PathInv` ties the two through the stack (an open node's counter is the number
  of its attached children, its path is its parent's path and the parent's
  count); the drain leaves `rootCount` behind, which is kept because nothing is
  placed after it. `ParentsAreCallers` and `DepthsAreHeights`, from `CallInv`:
  heights grow along the stack, and a call that is not on it can have no further
  children. `TreeGrowsAsCpiTree`, the refinement: every step is a call of
  CpiTree's or a stutter; what makes it hold is that each open node has one open
  child at most (`OneWay`, `GrownIs`), which comes after the attached ones.
  `FlatteningRestoresOrder`: each finished subtree is an interval of the input
  (`Spans`), so that its flattening is that interval (`SubtreeIsInterval`).
  Of TxLogs, `AnswersAlike`: the cell stays empty when loading fails, and the
  messages do not change once a parser has asked (`LogInv`). `NeverAnothersLogs`,
  `OwnLogsAreFound` and `LogsTyped`, from `LookupInv`, which adds to it what the
  finished tree is (`TreeInv`: each path is its parent's and a place among the
  siblings), that the heights are the depths of executed calls (`TxInv`) and that
  each answer is what the lookup of that node's path gives (`ToldInv`). A log cut
  off anywhere holds a call only with its caller and its earlier siblings
  (`AnnouncedCalls`), so the n-th call below a call is the same in both trees or
  missing (`RootFound`, `ChildFound`), and a walk down the path is led to the
  node's own call or to none, by its length (`StepDown`, `LedToSome`, `LedToOwn`).
- **SwapGraphProofs**: `TypeCorrect`, `BalancesExact`, `NetInputExact`,
  `DustBounded`, `RefusalJustified`, `NeverOverflows`, from one invariant
  `GraphInv`. While totals fit a `u64`, a mint's balance is made - spent +
  deficit, the deficit being the highest the difference has ever been. `deficit`
  moves exactly when a leg runs short, by the shortfall, which is the net input
  for the entry mint and dust for every other. Dust adds up to the sum of the legs'
  tolerances (`ToleranceSums`): where `is_dust` is exact it bounds a leg's
  shortfall (`DustExact`), where it saturates the leg's own input does
  (`LegTolerance`), and a balance that wrapped only got smaller (`Bound`).
- **AggregatorNetProofs**: `LegsTypeCorrect`, `NoDirectionIsGuessed`,
  `TwoPassesAreEnough`, `DirectionsRecovered` of the two passes over a route,
  from `LegInv` (what each pass has visited is directed, or cut off from what it
  holds). `ChainNet`: the net swap of a chain is its first input and its last
  output, from `NetInv`: between two legs the balance holds just what the first
  of them gave (`Carried`), events are read back as the legs that were executed
  (`AnnouncedIsRead`), and in a chain no mint is lacked by more than the first leg
  took of it, which makes OKX's event the same swap (`ChainFlows`).
  `NetIsWalletChange`, for any route, from `WalkInv`: SwapGraph's own `GraphInv`,
  whose lemmas are instantiated for the graph in the composition, and that its
  flows are the sums over the legs walked (`FollowsLegs`), so that the deficit in
  the end is what the wallet needed (`NeededIs`).
- **ParseTransactionProofs**: `TypeCorrect`, `OutputPerInstruction`,
  `RoutesOfLegs`, `OnlySwapsStop`, `PanicsAreMisreads` over all 31 parsers.
- **BalanceDiffProofs**: `TypeCorrect`, `OnlyOwnersAreHidden`, `SwapsFound`, from
  `DiffInv`: balances agree with the books while payments run, and after them the
  deltas are the books of the accounts looked at so far. The entries of a wallet
  are sums over its own accounts only, so that what is left out of another's does
  not show (`EntriesAreBooks`).
- **CliProofs**: `SignaturesAlone` from `CliInv`; `KeysOfTheRuntime`, by the three
  segments of the key table; `TypeCorrect` and `LinesOfTheChain` from `ShownInv`:
  a place in `final_results` holds its own mint's info, or none for a mint that
  is postponed or has no readable account, so that the map is full exactly if
  the lookup went through.
- **SwapInfoProofs**: `TypeCorrect`, `ReadAsTraded`, `OneDirection`,
  `DirectionOfAll`, from `SwapInv`: every swap is a payment and a payout with one
  fee at most, no account runs out, and what was read is what the transfers or
  the balances give. The largest transfer to an account of the given side is the
  swap's own, because all others there are fees (`TradeRead`); what a swap moves
  is its own flow less one fee at most (`MovedBySwap`). Two readings of balances
  keep their order (`SeenInOrder`), or are within one unit of what was read
  (`SmallReading`).

What a recursive function computes (flattening, positions in a route, balances
after a list of payments, a walk down the log tree, sums over a route) is proved without an induction rule: an explicit
solution is given, and a least or largest input at which the function differs
from it is refuted (`LeastNumber`, `LargestNumber`).

Assumed: the constants' types; no list of inner instructions is longer than a
`u8` counts (the runtime allows 64 in a transaction); a nonzero tolerance and
scale; a mint's supply is a `u64`; the executed amounts of a route are `u64`; wallets are finitely many and
none is a token account; mints are finitely many; a transaction has one list of
inner instructions per root.

Proof attempts changed the models in a few places: guards of `CASE` that
overlapped (any of the arms could have been meant) are now tried in the order of
the code; `CleanChain` says that undecoded legs have two different mints, without
which `ChainRecovered` is false; the command line's map is a set, since its order
does not exist; a fee may be taken from what the user gets, too, and is below
both amounts in SwapInfo's premise, where `LoneTradeAgrees` was false of a swap
that pays nothing out.

`NetSwapIsWalletChange` first said that a route is refused exactly if
the wallet had to bring another mint, which is false when what it lacks is dust;
it now says so, and the run's tolerance is wide enough for dust to occur.

Every safety property that a passing run checks is stated by a theorem, and so is
the refinement of CpiTree. Model-checked only: `Terminates` and `AllAnswered`,
since liveness under fairness is out of TLAPS's reach. What the log parser and
the aggregators announce is assumed, not proved: it is environment.

## Plan

All modules of the plan are written and all their safety properties proved. What
could be added is a model of what a caller should make of a missing leg
(`swap/graph.rs:136`), once the code says what it expects.

## Not modelled

Of the conversion, balances, rewards, return data and the vote flag, which are
copied field by field; the program table's addresses, text formats and the layout
of printed lines have no behaviour beyond their data. Contents of log events and
instruction data are abstracted to the swaps they hold. Totals of one leg's
transfers are below 2^64 (a mint's supply is). What a caller should get of a gRPC
update without signatures, which panics, is not said anywhere: `GrpcConvert` has
the case and no property is about it.
