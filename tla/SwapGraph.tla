------------------------------- MODULE SwapGraph -------------------------------
(***************************************************************************)
(* SwapGraph::swap (swap/graph.rs): the legs of an aggregator's route are   *)
(* walked in order over a running balance per mint, and collapse into one   *)
(* net swap.  Amounts are u64: sums past MaxU64 saturate where the code     *)
(* saturates, and wrap or panic where it does not (the += of the output is  *)
(* checked in a debug build and wraps in a release build).                  *)
(***************************************************************************)
EXTENDS Integers, Sequences

CONSTANTS
    Mints,      \* the token mints a route touches
    MaxU64,     \* the largest u64
    DustBps,    \* DUST_TOLERANCE_BPS
    BpsScale,   \* basis points in one
    Routes      \* the lists of swaps that are explored

Amounts == 0 .. MaxU64

Swap == [input_mint : Mints, output_mint : Mints,
         input_amount : Amounts, output_amount : Amounts]

ASSUME SwapGraphAssumption ==
    /\ MaxU64 \in Nat /\ DustBps \in Nat \ {0} /\ BpsScale \in Nat \ {0}
    /\ Routes \subseteq Seq(Swap)

VARIABLES
    swaps,      \* the route
    i,          \* the leg about to be walked
    balance,    \* balance[m]; a mint missing from the HashMap counts as 0
    netInput,   \* net_input
    result,     \* "running", then how the call ended
    report      \* the output of a net swap, or the shortfall of a refused one

\* What flowed over the legs walked so far, for the properties only.
VARIABLES
    spent,      \* spent[m]: sum of the inputs in m
    made,       \* made[m]: sum of the outputs in m
    deficit     \* deficit[m]: the most by which spent has ever exceeded made

flows == <<spent, made, deficit>>
vars == <<swaps, i, balance, netInput, result, report, flows>>

\* Mutant of SaturatingAdd: the sum is not kept to a u64.
UnboundedAdd(a, b) == a + b

SaturatingAdd(a, b) == IF a + b > MaxU64 THEN MaxU64 ELSE a + b
SaturatingMul(a, b) == IF a * b > MaxU64 THEN MaxU64 ELSE a * b

\* Mutant of IsDust: the tolerance is taken in whole units, not basis points.
IsDustUnscaled(amount, reference) == amount <= SaturatingMul(reference, DustBps)

IsDust(amount, reference) ==
    SaturatingMul(amount, BpsScale) <= SaturatingMul(reference, DustBps)

Leg == swaps[i]
EntryMint == swaps[1].input_mint
ExitMint == swaps[Len(swaps)].output_mint
Available == balance[Leg.input_mint]
Shortfall == Leg.input_amount - Available

--------------------------------------------------------------------------------
Init ==
    /\ swaps \in Routes
    /\ i = 1
    /\ balance = [m \in Mints |-> 0]
    /\ netInput = 0
    /\ result = "running"
    /\ report = <<>>
    /\ spent = [m \in Mints |-> 0]
    /\ made = [m \in Mints |-> 0]
    /\ deficit = [m \in Mints |-> 0]

\* Mutant of Credit: a balance of exactly MaxU64 already overflows.
CreditEarlyOverflow(left) ==
    LET sum == left[Leg.output_mint] + Leg.output_amount
    IN  /\ \/ /\ sum < MaxU64
              /\ balance' = [left EXCEPT ![Leg.output_mint] = sum]
              /\ result' = result
           \/ /\ sum >= MaxU64
              /\ balance' = left
              /\ result' = "panic"
        /\ made' = [made EXCEPT ![Leg.output_mint] = @ + Leg.output_amount]
        /\ i' = i + 1
        /\ UNCHANGED <<swaps, report>>

\* The rest of a turn: the output is added to the balance `left` after the
\* input was taken, unchecked.
Credit(left) ==
    LET sum == left[Leg.output_mint] + Leg.output_amount
    IN  /\ \/ /\ sum <= MaxU64
              /\ balance' = [left EXCEPT ![Leg.output_mint] = sum]
              /\ result' = result
           \/ /\ sum > MaxU64
              /\ balance' = [left EXCEPT ![Leg.output_mint] = sum % (MaxU64 + 1)]
              /\ result' = result
           \/ /\ sum > MaxU64
              /\ balance' = left
              /\ result' = "panic"
        /\ made' = [made EXCEPT ![Leg.output_mint] = @ + Leg.output_amount]
        /\ i' = i + 1
        /\ UNCHANGED <<swaps, report>>

\* Leg takes its input from its mint.
Take ==
    LET m == Leg.input_mint
        out == spent[m] + Leg.input_amount
    IN  /\ spent' = [spent EXCEPT ![m] = out]
        /\ deficit' = [deficit EXCEPT ![m] = IF out - made[m] > @ THEN out - made[m] ELSE @]

Walking == result = "running" /\ i \in 1 .. Len(swaps)

\* Mutant of Drained: a mint that runs short keeps its balance.
NotDrained == balance

Drained == [balance EXCEPT ![Leg.input_mint] = 0]

EmptyRoute ==
    /\ result = "running" /\ swaps = <<>>
    /\ result' = "empty"
    /\ UNCHANGED <<swaps, i, balance, netInput, report, flows>>

Spend ==
    /\ Walking /\ Shortfall <= 0
    /\ Take
    /\ Credit([balance EXCEPT ![Leg.input_mint] = @ - Leg.input_amount])
    /\ UNCHANGED netInput

\* Mutant of Fund: the caller is charged for all of the leg's input.
FundInFull ==
    /\ Walking /\ Shortfall > 0 /\ Leg.input_mint = EntryMint
    /\ Take
    /\ netInput' = SaturatingAdd(netInput, Leg.input_amount)
    /\ Credit(Drained)

\* the caller puts in what the entry mint is short of
Fund ==
    /\ Walking /\ Shortfall > 0 /\ Leg.input_mint = EntryMint
    /\ Take
    /\ netInput' = SaturatingAdd(netInput, Shortfall)
    /\ Credit(Drained)

AbsorbDust ==
    /\ Walking /\ Shortfall > 0 /\ Leg.input_mint # EntryMint
    /\ IsDust(Shortfall, Leg.input_amount)
    /\ Take
    /\ Credit(Drained)
    /\ UNCHANGED netInput

\* Mutant of ImbalancedRoute: the leg's input is reported, not its shortfall.
ImbalancedRouteInFull ==
    /\ Walking /\ Shortfall > 0 /\ Leg.input_mint # EntryMint
    /\ ~IsDust(Shortfall, Leg.input_amount)
    /\ Take
    /\ result' = "imbalanced"
    /\ report' = <<Leg.input_mint, Leg.input_amount>>
    /\ UNCHANGED <<swaps, i, balance, netInput, made>>

ImbalancedRoute ==
    /\ Walking /\ Shortfall > 0 /\ Leg.input_mint # EntryMint
    /\ ~IsDust(Shortfall, Leg.input_amount)
    /\ Take
    /\ result' = "imbalanced"
    /\ report' = <<Leg.input_mint, Shortfall>>
    /\ UNCHANGED <<swaps, i, balance, netInput, made>>

NetSwap ==
    /\ result = "running" /\ swaps # <<>> /\ i > Len(swaps)
    /\ result' = "ok"
    /\ report' = <<ExitMint, balance[ExitMint]>>
    /\ UNCHANGED <<swaps, i, balance, netInput, flows>>

Ended == result # "running" /\ UNCHANGED vars

Next ==
    \/ EmptyRoute \/ Spend \/ Fund \/ AbsorbDust \/ ImbalancedRoute \/ NetSwap
    \/ Ended

Spec == Init /\ [][Next]_vars

--------------------------------------------------------------------------------
(* Properties *)

\* Every variable keeps its type; balances and the net input stay u64.
TypeOK ==
    /\ swaps \in Seq(Swap)
    /\ i \in 1 .. Len(swaps) + 1
    /\ balance \in [Mints -> Amounts]
    /\ netInput \in Amounts
    /\ result \in {"running", "empty", "ok", "imbalanced", "panic"}
    /\ report \in {<<>>} \cup (Mints \X Amounts)
    /\ spent \in [Mints -> Nat]
    /\ made \in [Mints -> Nat]
    /\ deficit \in [Mints -> Nat]

\* No mint has seen more than a u64 of tokens go in or come out.
InRange == \A m \in Mints : spent[m] <= MaxU64 /\ made[m] <= MaxU64

\* The running balances are exact: what is left of a mint is what was made
\* less what was spent, plus the most the route ever lacked of it, which is
\* what the caller put in or what was waved through as dust.
BalancesConserve ==
    (InRange /\ result \in {"running", "ok"}) =>
        \A m \in Mints : balance[m] = made[m] - spent[m] + deficit[m]

\* The net input is the least capital with which the caller could have walked
\* the legs in this order: recycled amounts count once, and only when they
\* come back before they are needed again (graph.rs:101-105).
NetInputIsLeastCapital ==
    (InRange /\ swaps # <<>>) => netInput = deficit[EntryMint]

\* What is_dust lets a leg lack, in basis points: a share of its input, and from
\* the input on whose product saturates, all of it.
Tolerance(leg) ==
    IF DustBps * leg.input_amount < MaxU64
    THEN DustBps * leg.input_amount ELSE BpsScale * leg.input_amount

Tolerances(m) ==
    [n \in DOMAIN swaps |-> IF swaps[n].input_mint = m THEN Tolerance(swaps[n]) ELSE 0]

\* The sum of the first n values of f.
Sum(f, n) ==
    LET sum[j \in 0 .. Len(f)] == IF j = 0 THEN 0 ELSE sum[j - 1] + f[j]
    IN  sum[n]

\* What a route may take from a mint other than its entry without having made
\* it is no more than its legs may each lack on their own: dust never adds up
\* to more by being taken several times, nor by balances that have wrapped.
DustStaysSmall ==
    (result \in {"running", "ok"} /\ swaps # <<>>) =>
        \A m \in Mints \ {EntryMint} : BpsScale * deficit[m] <= Sum(Tolerances(m), i - 1)

\* swap/graph.rs:68-70 and 73-74: the tolerance is "Expressed in basis points (1
\* bps = 0.01%) relative to the amount involved in the specific check", and dust
\* is "small enough, relative to `reference`".  So of what a finished route spent
\* of a mint other than its entry, no more than that share was missing.
DustIsRelative ==
    result = "ok" =>
        \A m \in Mints \ {EntryMint} : BpsScale * deficit[m] <= DustBps * spent[m]

\* A refused route really lacked the mint it is refused for, by no less than
\* it reports, when the refused leg ran.
RefusalIsReal ==
    (InRange /\ result = "imbalanced") =>
        /\ report[1] # EntryMint
        /\ 0 < report[2] /\ report[2] <= spent[report[1]] - made[report[1]]

\* The call goes wrong silently or loudly only for totals past u64.
NoPanicInRange == InRange => result # "panic"
================================================================================
