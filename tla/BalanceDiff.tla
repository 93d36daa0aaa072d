------------------------------ MODULE BalanceDiff ------------------------------
(***************************************************************************)
(* detect_swaps (parse/full.rs): swaps are found in what a transaction      *)
(* changed, not in what it called.  Wallets pay each other, wrap, unwrap,   *)
(* open and close accounts; then the changes of all token accounts and all  *)
(* lamports are summed per owner and mint, the fee is put back, and whoever *)
(* lost one mint and gained another has swapped.                            *)
(***************************************************************************)
EXTENDS Integers, Sequences, FiniteSets, SequencesExt

CONSTANTS
    Wallets,        \* keys that own token accounts
    Payer,          \* the wallet that pays for the transaction
    OffCurve,       \* the wallets that are program derived addresses
    Fee, Rent,      \* lamports for the transaction, and for a token account
    Amounts,        \* what is paid or wrapped
    Lamports, Held, \* what each wallet starts with
    MaxSteps        \* bound: what one transaction does

SOL_MINT == "SOL"
Mints == {SOL_MINT, "T"}

\* one token account per wallet and mint; that of SOL_MINT is the wrapped SOL
TokenAccount(w, m) == [owner |-> w, mint |-> m]
TokenAccounts == {TokenAccount(w, m) : w \in Wallets, m \in Mints}
AccountKeys == Wallets \cup TokenAccounts

ASSUME WalletsAssumption ==
    /\ IsFiniteSet(Wallets) /\ Wallets \cap TokenAccounts = {}
    /\ Payer \in Wallets /\ OffCurve \subseteq Wallets
    /\ {Fee, Rent, Lamports, Held, MaxSteps} \cup Amounts \subseteq Nat
    /\ Fee > 0 /\ Fee <= Lamports

VARIABLES
    before,     \* the balances before the transaction, and after it: lamports of
    after,      \* every key, and tokens of the token accounts that are open
    books,      \* what each wallet was paid less what it paid, fee apart
    steps,
    status,     \* of the transaction, as the node reports it
    ownerless,  \* token balances the node reports without their owner
    keysKnown,  \* the loaded addresses are keys
    todo,       \* the accounts whose change is still to be added
    deltas,     \* (owner, mint) -> delta, for the pairs with an entry
    swaps,      \* the SwapEvents
    phase

env == <<before, after, books, steps, status, ownerless, keysKnown>>
vars == <<env, todo, deltas, swaps, phase>>

--------------------------------------------------------------------------------
(* The transaction *)

InitialBalances(open) ==
    [lamports |-> [k \in AccountKeys |->
        IF k \in Wallets THEN Lamports
        ELSE IF k \in open THEN Rent + IF k.mint = SOL_MINT THEN Held ELSE 0
        ELSE 0],
     tokens |-> [a \in TokenAccounts |-> IF a \in open THEN Held ELSE 0],
     open |-> open]

Init ==
    /\ \E open \in {TokenAccounts, TokenAccounts \ {TokenAccount(Payer, SOL_MINT)},
                    TokenAccounts \ {TokenAccount(Payer, "T")}} :
         before = InitialBalances(open)
    /\ after = [before EXCEPT !.lamports[Payer] = @ - Fee]
    /\ books = [w \in Wallets |-> [m \in Mints |-> 0]]
    /\ steps = 0
    /\ status \in {"ok", "no meta", "undecodable", "failed"}
    /\ ownerless \in SUBSET TokenAccounts
    /\ keysKnown \in BOOLEAN
    /\ todo = <<>>
    /\ deltas = <<>>
    /\ swaps = {}
    /\ phase = "execute"

Execute(lamports, tokens, open) ==
    /\ phase = "execute" /\ steps < MaxSteps
    /\ after' = [lamports |-> lamports, tokens |-> tokens, open |-> open]
    /\ steps' = steps + 1
    /\ UNCHANGED <<before, status, ownerless, keysKnown, todo, deltas, swaps, phase>>

Book(from, to, m, n) ==
    books' = [books EXCEPT ![from][m] = @ - n, ![to][m] = @ + n]

PayTokens(from, to, m, n) ==
    LET a == TokenAccount(from, m)
        b == TokenAccount(to, m)
        lamports == IF m = SOL_MINT THEN n ELSE 0
    IN  /\ from # to /\ {a, b} \subseteq after.open /\ after.tokens[a] >= n
        /\ Execute([after.lamports EXCEPT ![a] = @ - lamports, ![b] = @ + lamports],
                   [after.tokens EXCEPT ![a] = @ - n, ![b] = @ + n], after.open)
        /\ Book(from, to, m, n)

PayLamports(from, to, n) ==
    /\ from # to /\ after.lamports[from] >= n
    /\ Execute([after.lamports EXCEPT ![from] = @ - n, ![to] = @ + n],
               after.tokens, after.open)
    /\ Book(from, to, SOL_MINT, n)

Wrap(w, n) ==
    LET a == TokenAccount(w, SOL_MINT)
    IN  /\ a \in after.open /\ after.lamports[w] >= n
        /\ Execute([after.lamports EXCEPT ![w] = @ - n, ![a] = @ + n],
                   [after.tokens EXCEPT ![a] = @ + n], after.open)
        /\ UNCHANGED books

Open(w, m) ==
    LET a == TokenAccount(w, m)
    IN  /\ a \notin after.open /\ after.lamports[w] >= Rent
        /\ Execute([after.lamports EXCEPT ![w] = @ - Rent, ![a] = Rent],
                   after.tokens, after.open \cup {a})
        /\ books' = [books EXCEPT ![w][SOL_MINT] = @ - Rent]

\* what is wrapped comes back as lamports
Close(w, m) ==
    LET a == TokenAccount(w, m)
    IN  /\ a \in after.open /\ (m # SOL_MINT => after.tokens[a] = 0)
        /\ Execute([after.lamports EXCEPT ![w] = @ + after.lamports[a], ![a] = 0],
                   [after.tokens EXCEPT ![a] = 0], after.open \ {a})
        /\ books' = [books EXCEPT ![w][SOL_MINT] = @ + Rent]

--------------------------------------------------------------------------------
(* compute_raw_deltas *)

DetectSwaps ==
    /\ phase = "execute"
    /\ phase' = IF status = "ok" THEN "tokens" ELSE "error"
    /\ todo' = IF status = "ok" THEN SetToSeq(before.open \cup after.open) ELSE <<>>
    /\ UNCHANGED <<env, deltas, swaps>>

\* an account that did not change makes no entry
Entry(owner, mint, delta) ==
    LET key == <<owner, mint>>
    IN  deltas' = IF delta = 0 THEN deltas
                  ELSE [e \in DOMAIN deltas \cup {key} |->
                          IF e # key THEN deltas[e]
                          ELSE IF key \in DOMAIN deltas THEN deltas[key] + delta
                          ELSE delta]

\* Mutant of AddTokenAccount: a balance without an owner is taken for the payer's.
AddTokenAccountToPayer ==
    /\ phase = "tokens" /\ todo # <<>>
    /\ LET a == Head(todo)
       IN  Entry(IF a \in ownerless THEN Payer ELSE a.owner, a.mint,
                 after.tokens[a] - before.tokens[a])
    /\ todo' = Tail(todo)
    /\ UNCHANGED <<env, swaps, phase>>

AddTokenAccount ==
    /\ phase = "tokens" /\ todo # <<>>
    /\ LET a == Head(todo)
       IN  IF a \in ownerless THEN UNCHANGED deltas
           ELSE Entry(a.owner, a.mint, after.tokens[a] - before.tokens[a])
    /\ todo' = Tail(todo)
    /\ UNCHANGED <<env, swaps, phase>>

\* with a loaded address that is no key, get_account_keys gives None and no
\* lamports are looked at
StartLamports ==
    /\ phase = "tokens" /\ todo = <<>>
    /\ phase' = "lamports"
    /\ todo' = IF keysKnown THEN SetToSeq(Wallets) \o SetToSeq(TokenAccounts) ELSE <<>>
    /\ UNCHANGED <<env, deltas, swaps>>

AddLamports ==
    /\ phase = "lamports" /\ todo # <<>>
    /\ LET k == Head(todo)
       IN  Entry(k, SOL_MINT, after.lamports[k] - before.lamports[k])
    /\ todo' = Tail(todo)
    /\ UNCHANGED <<env, swaps, phase>>

--------------------------------------------------------------------------------
(* merge_sol_and_wsol and cluster_into_swaps *)

\* Mutant of MergeSolAndWsol: the fee is taken off once more.
SubtractFee ==
    /\ phase = "lamports" /\ todo = <<>>
    /\ deltas' = [e \in DOMAIN deltas |->
                    IF e = <<Payer, SOL_MINT>> THEN deltas[e] - Fee ELSE deltas[e]]
    /\ phase' = "cluster"
    /\ UNCHANGED <<env, todo, swaps>>

\* The fee goes back to the payer if it has an entry.  Wrapped SOL is already
\* under SOL_MINT: the loop that folds it takes each entry out and puts it back.
MergeSolAndWsol ==
    /\ phase = "lamports" /\ todo = <<>>
    /\ deltas' = [e \in DOMAIN deltas |->
                    IF e = <<Payer, SOL_MINT>> THEN deltas[e] + Fee ELSE deltas[e]]
    /\ phase' = "cluster"
    /\ UNCHANGED <<env, todo, swaps>>

Sold(owner) == {<<e[2], -deltas[e]>> : e \in {d \in DOMAIN deltas : d[1] = owner /\ deltas[d] < 0}}

\* Mutant of Bought: an entry that came out at zero counts as bought.
BoughtOrKept(owner) ==
    {<<e[2], deltas[e]>> : e \in {d \in DOMAIN deltas : d[1] = owner /\ deltas[d] >= 0}}

Bought(owner) == {<<e[2], deltas[e]>> : e \in {d \in DOMAIN deltas : d[1] = owner /\ deltas[d] > 0}}

ClusterIntoSwaps ==
    /\ phase = "cluster"
    /\ LET owners == {e[1] : e \in DOMAIN deltas}
       IN  swaps' = {[trader |-> o, sold |-> Sold(o), bought |-> Bought(o),
                      is_program_mediated |-> o \in OffCurve \cup TokenAccounts] :
                        o \in {w \in owners : Sold(w) # {} /\ Bought(w) # {}}}
    /\ phase' = "done"
    /\ UNCHANGED <<env, todo, deltas>>

Ended == phase \in {"done", "error"} /\ UNCHANGED vars

Next ==
    \/ \E from, to \in Wallets, m \in Mints, n \in Amounts : PayTokens(from, to, m, n)
    \/ \E from, to \in Wallets, n \in Amounts : PayLamports(from, to, n)
    \/ \E w \in Wallets, n \in Amounts : Wrap(w, n)
    \/ \E w \in Wallets, m \in Mints : Open(w, m)
    \/ \E w \in Wallets, m \in Mints : Close(w, m)
    \/ DetectSwaps \/ AddTokenAccount \/ StartLamports \/ AddLamports
    \/ MergeSolAndWsol \/ ClusterIntoSwaps \/ Ended

Spec == Init /\ [][Next]_vars

--------------------------------------------------------------------------------
(* Properties *)

\* Every variable keeps its type.
TypeOK ==
    /\ before.open \subseteq TokenAccounts /\ after.open \subseteq TokenAccounts
    /\ \A b \in {before, after} :
         /\ \A k \in AccountKeys : b.lamports[k] \in Nat
         /\ \A a \in TokenAccounts : b.tokens[a] \in Nat
    /\ \A e \in DOMAIN deltas : e \in AccountKeys \X Mints /\ deltas[e] \in Int
    /\ \A s \in swaps :
         /\ s.trader \in AccountKeys /\ s.is_program_mediated \in BOOLEAN
         /\ \A side \in s.sold \cup s.bought : side \in Mints \X (Nat \ {0})
    /\ phase \in {"execute", "tokens", "lamports", "cluster", "done", "error"}

Traders == {w \in Wallets : \E m, n \in Mints : books[w][m] < 0 /\ books[w][n] > 0}

SwapOf(w) ==
    [trader |-> w,
     sold   |-> {<<m, -books[w][m]>> : m \in {o \in Mints : books[w][o] < 0}},
     bought |-> {<<m, books[w][m]>> : m \in {o \in Mints : books[w][o] > 0}},
     is_program_mediated |-> w \in OffCurve]

\* everything the balances can tell is reported
Complete == ownerless = {} /\ keysKnown

\* neither the lamports nor the wrapped SOL of the payer changed, fee included
PayerUnchanged ==
    LET wrapped == TokenAccount(Payer, SOL_MINT)
    IN  /\ after.lamports[Payer] = before.lamports[Payer]
        /\ after.tokens[wrapped] = before.tokens[wrapped]

\* Whatever way value moved, as lamports, as wrapped SOL or as tokens, through
\* accounts opened, emptied or closed on the way, the swaps are what the books
\* say: whoever paid in one mint and was paid in another, with those amounts,
\* the fee apart.  Wrapping is no swap, and no token account is a trader.
SwapsAreTrades ==
    (phase = "done" /\ Complete /\ ~PayerUnchanged) => swaps = {SwapOf(w) : w \in Traders}

\* The wallets whose swaps may be misread: the owners the node leaves out, and
\* the payer when its SOL came out as it went in.
Misread ==
    {a.owner : a \in ownerless} \cup IF PayerUnchanged THEN {Payer} ELSE {}

\* With the loaded addresses known, balances reported without their owner touch
\* the swaps of that owner only: those of all others are exactly their trades,
\* whatever was left out, and no key that owns nothing is given one.
OwnerlessHidesOnlyItsOwner ==
    (phase = "done" /\ keysKnown) =>
        {s \in swaps : s.trader \notin Misread} = {SwapOf(w) : w \in Traders \ Misread}

\* full.rs:218-219 and 225-226: the fee is taken off "so it doesn't get misread
\* as part of a swap amount": it makes no difference to the swaps.
FeeIsNoPartOfSwap ==
    (phase = "done" /\ Complete) => swaps = {SwapOf(w) : w \in Traders}
================================================================================
