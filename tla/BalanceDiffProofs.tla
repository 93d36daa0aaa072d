--------------------------- MODULE BalanceDiffProofs ---------------------------
(* Theorems of BalanceDiff, for any number of wallets, any amounts and any
   number of payments in a transaction. *)
EXTENDS BalanceDiff, FiniteSetTheorems, TLAPS

Entries == AccountKeys \X Mints

\* What the token accounts not yet looked at leave of the change of each owner
\* and mint, from the balances b to the balances a.
TokenPart(b, a, hidden, left) ==
    [e \in Entries |->
        IF e[1] \in Wallets /\ TokenAccount(e[1], e[2]) \notin hidden \cup left
        THEN a.tokens[TokenAccount(e[1], e[2])] - b.tokens[TokenAccount(e[1], e[2])]
        ELSE 0]

\* The same for the lamports of the keys.
LamportPart(b, a, left) ==
    [e \in Entries |->
        IF e[2] = SOL_MINT /\ e[1] \notin left THEN a.lamports[e[1]] - b.lamports[e[1]]
        ELSE 0]

\* d has an entry where something changed, with the sum of what changed, and the
\* fee under the payer's lamports.
Sums(d, T, L, fee) ==
    /\ DOMAIN d = {e \in Entries : T[e] # 0 \/ L[e] # 0}
    /\ \A e \in DOMAIN d :
         d[e] = T[e] + L[e] + IF e = <<Payer, SOL_MINT>> THEN fee ELSE 0

\* Closed accounts hold nothing; an open one holds its rent, and in lamports
\* what it holds of wrapped SOL.
Balanced(b) ==
    /\ b \in [lamports : [AccountKeys -> Nat], tokens : [TokenAccounts -> Nat],
              open : SUBSET TokenAccounts]
    /\ \A a \in TokenAccounts :
         /\ a \notin b.open => b.tokens[a] = 0 /\ b.lamports[a] = 0
         /\ a \in b.open =>
              b.lamports[a] = Rent + IF a.mint = SOL_MINT THEN b.tokens[a] ELSE 0

\* What w gained in tokens of m, through its token account.
Gained(b, a, w, m) == a.tokens[TokenAccount(w, m)] - b.tokens[TokenAccount(w, m)]

\* The books show what came into the accounts of each wallet.
Booked(b, a, book) ==
    /\ book \in [Wallets -> [Mints -> Int]]
    /\ \A w \in Wallets :
         /\ book[w]["T"] = Gained(b, a, w, "T")
         /\ book[w][SOL_MINT] = Gained(b, a, w, SOL_MINT) + (a.lamports[w] - b.lamports[w])
                                 + IF w = Payer THEN Fee ELSE 0

\* Each account is added once.
Listed ==
    /\ todo \in Seq(AccountKeys) /\ IsInjective(todo)
    /\ phase = "tokens" => ToSet(todo) \subseteq TokenAccounts
    /\ phase \notin {"tokens", "lamports"} => todo = <<>>
    /\ ~keysKnown /\ phase = "lamports" => todo = <<>>

Added ==
    /\ phase \in {"execute", "error"} => deltas = <<>>
    /\ phase = "tokens" =>
         Sums(deltas, TokenPart(before, after, ownerless, ToSet(todo)),
              LamportPart(before, after, AccountKeys), 0)
    /\ phase = "lamports" =>
         Sums(deltas, TokenPart(before, after, ownerless, {}),
              LamportPart(before, after, IF keysKnown THEN ToSet(todo) ELSE AccountKeys), 0)
    /\ phase \in {"cluster", "done"} =>
         Sums(deltas, TokenPart(before, after, ownerless, {}),
              LamportPart(before, after, IF keysKnown THEN {} ELSE AccountKeys), Fee)

Owners == {e[1] : e \in DOMAIN deltas}

Clustered ==
    swaps = IF phase # "done" THEN {}
            ELSE {[trader |-> o, sold |-> Sold(o), bought |-> Bought(o),
                   is_program_mediated |-> o \in OffCurve \cup TokenAccounts] :
                     o \in {w \in Owners : Sold(w) # {} /\ Bought(w) # {}}}

Phases == {"execute", "tokens", "lamports", "cluster", "done", "error"}

DiffInv ==
    /\ Balanced(before) /\ Balanced(after)
    /\ Booked(before, after, books)
    /\ phase \in Phases
    /\ Listed /\ Added /\ Clustered

--------------------------------------------------------------------------------
(* The accounts *)

\* A token account is the one of its owner and its mint.
LEMMA AccountsAreDistinct ==
    /\ \A w \in Wallets, m \in Mints :
         /\ TokenAccount(w, m) \in TokenAccounts
         /\ TokenAccount(w, m).owner = w /\ TokenAccount(w, m).mint = m
         /\ TokenAccount(w, m) \notin Wallets
    /\ \A a \in TokenAccounts :
         /\ a.owner \in Wallets /\ a.mint \in Mints
         /\ a = TokenAccount(a.owner, a.mint) /\ a \notin Wallets
    /\ Payer \in Wallets
<1>1. \A w, m : TokenAccount(w, m).owner = w /\ TokenAccount(w, m).mint = m
  BY DEF TokenAccount
<1>2. ASSUME NEW w \in Wallets, NEW m \in Mints
      PROVE  TokenAccount(w, m) \in TokenAccounts
  BY DEF TokenAccounts
<1>3. ASSUME NEW a \in TokenAccounts
      PROVE  \E w \in Wallets, m \in Mints : a = TokenAccount(w, m)
  BY DEF TokenAccounts
<1>4. TokenAccounts \cap Wallets = {} /\ Payer \in Wallets
  BY WalletsAssumption
<1> QED
  BY <1>1, <1>2, <1>3, <1>4

LEMMA KeysAreFinite ==
    IsFiniteSet(Wallets) /\ IsFiniteSet(TokenAccounts) /\ IsFiniteSet(AccountKeys)
<1> DEFINE f == [p \in Wallets \X Mints |-> TokenAccount(p[1], p[2])]
<1>1. IsFiniteSet(Wallets)
  BY WalletsAssumption
<1>2. IsFiniteSet(Mints)
  <2>1. Mints = {} \cup {SOL_MINT} \cup {"T"}
    BY DEF Mints
  <2> QED
    BY <2>1, FS_EmptySet, FS_AddElement
<1>3. f \in Surjection(Wallets \X Mints, TokenAccounts)
  <2>1. f \in [Wallets \X Mints -> TokenAccounts]
    BY DEF TokenAccounts
  <2>2. ASSUME NEW a \in TokenAccounts
        PROVE  \E p \in Wallets \X Mints : f[p] = a
    <3>1. PICK w \in Wallets, m \in Mints : a = TokenAccount(w, m)
      BY DEF TokenAccounts
    <3>2. <<w, m>> \in Wallets \X Mints /\ f[<<w, m>>] = a
      BY <3>1
    <3> QED
      BY <3>2
  <2> QED
    BY <2>1, <2>2 DEF Surjection
<1>4. IsFiniteSet(Wallets \X Mints)
  BY <1>1, <1>2, FS_Product
<1>5. IsFiniteSet(TokenAccounts)
  BY <1>3, <1>4, FS_Surjection
<1> QED
  BY <1>1, <1>5, FS_Union DEF AccountKeys

--------------------------------------------------------------------------------
(* Listing what is to be added *)

\* A list of a finite set has each of its elements once.
LEMMA ListOfSet ==
    ASSUME NEW S, IsFiniteSet(S)
    PROVE  /\ SetToSeq(S) \in Seq(S) /\ IsInjective(SetToSeq(S))
           /\ ToSet(SetToSeq(S)) = S
<1> DEFINE n == Cardinality(S)
           s == SetToSeq(S)
<1>1. n \in Nat /\ ExistsBijection(1 .. n, S)
  BY FS_CardinalityType
<1>2. PICK g : g \in Bijection(1 .. n, S)
  BY <1>1 DEF ExistsBijection
<1>3. g \in [1 .. n -> S] /\ IsInjective(g)
  BY <1>2 DEF Bijection, Injection
<1>4. s \in [1 .. n -> S] /\ IsInjective(s)
  BY <1>3 DEF SetToSeq
<1>5. s \in Injection(1 .. n, S)
  BY <1>4 DEF Injection
<1>6. Cardinality(1 .. n) = n /\ IsFiniteSet(1 .. n)
  BY <1>1, FS_Interval
<1>7. s \in Surjection(1 .. n, S)
  BY <1>5, <1>6, FS_Injection
<1>8. s \in Seq(S)
  BY <1>1, <1>4
<1>9. ToSet(s) = S
  BY <1>4, <1>7 DEF ToSet, Surjection
<1> QED
  BY <1>4, <1>8, <1>9

LEMMA TailOfList ==
    ASSUME NEW S, NEW s \in Seq(S), s # <<>>, IsInjective(s)
    PROVE  /\ Head(s) \in ToSet(s) /\ ToSet(s) \subseteq S
           /\ Tail(s) \in Seq(S) /\ IsInjective(Tail(s))
           /\ ToSet(Tail(s)) = ToSet(s) \ {Head(s)}
<1>1. /\ Len(s) \in Nat \ {0} /\ DOMAIN s = 1 .. Len(s)
      /\ Tail(s) \in Seq(S) /\ Len(Tail(s)) = Len(s) - 1
      /\ DOMAIN Tail(s) = 1 .. (Len(s) - 1)
      /\ \A n \in 1 .. (Len(s) - 1) : Tail(s)[n] = s[n + 1]
      /\ Head(s) = s[1]
  OBVIOUS
<1>2. IsInjective(Tail(s))
  BY <1>1 DEF IsInjective
<1>3. Head(s) \in ToSet(s) /\ ToSet(s) \subseteq S
  BY <1>1 DEF ToSet
<1>4. ASSUME NEW x \in ToSet(Tail(s))
      PROVE  x \in ToSet(s) \ {Head(s)}
  <2>1. PICK n \in 1 .. (Len(s) - 1) : x = s[n + 1]
    BY <1>1 DEF ToSet
  <2>2. n + 1 \in 1 .. Len(s) /\ n + 1 # 1 /\ 1 \in 1 .. Len(s)
    BY <1>1
  <2> QED
    BY <1>1, <2>1, <2>2 DEF ToSet, IsInjective
<1>5. ASSUME NEW x \in ToSet(s) \ {Head(s)}
      PROVE  x \in ToSet(Tail(s))
  <2>1. PICK n \in 1 .. Len(s) : x = s[n]
    BY <1>1 DEF ToSet
  <2>2. n # 1
    BY <1>1, <2>1
  <2>3. n - 1 \in 1 .. (Len(s) - 1) /\ (n - 1) + 1 = n
    BY <1>1, <2>2
  <2>4. Tail(s)[n - 1] = x
    BY <1>1, <2>1, <2>3
  <2> QED
    BY <1>1, <2>3, <2>4 DEF ToSet
<1> QED
  BY <1>1, <1>2, <1>3, <1>4, <1>5

LEMMA ListsInOneAnother ==
    ASSUME NEW S, NEW s \in Seq(S), NEW t \in Seq(S), IsInjective(s), IsInjective(t),
           ToSet(s) \cap ToSet(t) = {}
    PROVE  /\ s \o t \in Seq(S) /\ IsInjective(s \o t)
           /\ ToSet(s \o t) = ToSet(s) \cup ToSet(t)
<1> DEFINE u == s \o t
<1>1. /\ Len(s) \in Nat /\ Len(t) \in Nat /\ u \in Seq(S)
      /\ DOMAIN s = 1 .. Len(s) /\ DOMAIN t = 1 .. Len(t)
      /\ DOMAIN u = 1 .. (Len(s) + Len(t))
      /\ \A n \in 1 .. (Len(s) + Len(t)) :
           u[n] = IF n <= Len(s) THEN s[n] ELSE t[n - Len(s)]
  OBVIOUS
<1> HIDE DEF u
<1>2. \A n \in 1 .. Len(s) : n \in DOMAIN u /\ u[n] = s[n] /\ s[n] \in ToSet(s)
  BY <1>1 DEF ToSet
<1>3. \A n \in DOMAIN u : ~(n <= Len(s)) =>
        n - Len(s) \in 1 .. Len(t) /\ u[n] = t[n - Len(s)] /\ t[n - Len(s)] \in ToSet(t)
  BY <1>1 DEF ToSet
<1>4. \A n \in 1 .. Len(t) : n + Len(s) \in DOMAIN u /\ u[n + Len(s)] = t[n]
  <2>1. ASSUME NEW n \in 1 .. Len(t)
        PROVE  /\ n + Len(s) \in 1 .. (Len(s) + Len(t)) /\ ~(n + Len(s) <= Len(s))
               /\ (n + Len(s)) - Len(s) = n
    BY <1>1
  <2> QED
    BY <1>1, <2>1
<1>5. \A n \in DOMAIN u : n <= Len(s) => n \in 1 .. Len(s)
  BY <1>1
<1>6. ASSUME NEW m \in DOMAIN u, NEW n \in DOMAIN u, u[m] = u[n]
      PROVE  m = n
  <2>1. CASE m <= Len(s) /\ n <= Len(s)
    BY <1>1, <1>2, <1>5, <1>6, <2>1 DEF IsInjective
  <2>2. CASE ~(m <= Len(s)) /\ ~(n <= Len(s))
    <3>1. m - Len(s) = n - Len(s)
      BY <1>1, <1>3, <1>6, <2>2 DEF IsInjective
    <3> QED
      BY <1>1, <3>1
  <2>3. CASE ~((m <= Len(s)) <=> (n <= Len(s)))
    BY <1>2, <1>3, <1>5, <1>6, <2>3
  <2> QED
    BY <2>1, <2>2, <2>3
<1>7. ToSet(u) = ToSet(s) \cup ToSet(t)
  <2>1. ASSUME NEW n \in DOMAIN u
        PROVE  u[n] \in ToSet(s) \cup ToSet(t)
    BY <1>2, <1>3, <1>5
  <2>2. ASSUME NEW n \in DOMAIN s
        PROVE  s[n] \in ToSet(u)
    BY <1>1, <1>2 DEF ToSet
  <2>3. ASSUME NEW n \in DOMAIN t
        PROVE  t[n] \in ToSet(u)
    BY <1>1, <1>4 DEF ToSet
  <2> QED
    BY <2>1, <2>2, <2>3 DEF ToSet
<1> QED
  BY <1>1, <1>6, <1>7 DEF u, IsInjective

--------------------------------------------------------------------------------
(* The transaction *)

LEMMA InitHolds == Init => DiffInv
<1> SUFFICES ASSUME Init PROVE DiffInv
  OBVIOUS
<1>1. PICK open \in SUBSET TokenAccounts : before = InitialBalances(open)
  BY AccountsAreDistinct DEF Init
<1>2. /\ Rent \in Nat /\ Held \in Nat /\ Lamports \in Nat /\ Fee \in Nat
      /\ Lamports - Fee \in Nat
  BY WalletsAssumption
<1>3. \A k \in AccountKeys : k \in Wallets \/ k \in TokenAccounts
  BY DEF AccountKeys
<1>4. /\ before.open = open /\ before.lamports \in [AccountKeys -> Nat]
      /\ before.tokens \in [TokenAccounts -> Nat]
      /\ \A w \in Wallets : before.lamports[w] = Lamports
      /\ \A a \in TokenAccounts :
           /\ before.tokens[a] = IF a \in open THEN Held ELSE 0
           /\ before.lamports[a] =
                IF a \in open THEN Rent + IF a.mint = SOL_MINT THEN Held ELSE 0 ELSE 0
  BY <1>1, <1>2, <1>3, AccountsAreDistinct DEF InitialBalances, AccountKeys
<1>5. before = [lamports |-> before.lamports, tokens |-> before.tokens,
                open |-> before.open]
  BY <1>1 DEF InitialBalances
<1>6. Balanced(before)
  BY <1>4, <1>5 DEF Balanced
<1>7. /\ after.lamports = [before.lamports EXCEPT ![Payer] = @ - Fee]
      /\ after.tokens = before.tokens /\ after.open = before.open
      /\ after = [lamports |-> after.lamports, tokens |-> after.tokens,
                  open |-> after.open]
  BY <1>5 DEF Init
<1>8. Payer \in Wallets /\ Payer \in AccountKeys /\ Payer \notin TokenAccounts
  BY AccountsAreDistinct DEF AccountKeys
<1>9. Balanced(after)
  <2>1. after.lamports \in [AccountKeys -> Nat]
    BY <1>2, <1>4, <1>7, <1>8
  <2>2. \A a \in TokenAccounts : after.lamports[a] = before.lamports[a]
    BY <1>4, <1>7, <1>8 DEF AccountKeys
  <2> QED
    BY <1>4, <1>6, <1>7, <2>1, <2>2 DEF Balanced
<1>10. Booked(before, after, books)
  <2>1. \A w \in Wallets : after.lamports[w] - before.lamports[w] =
                             IF w = Payer THEN -Fee ELSE 0
    BY <1>2, <1>4, <1>7, <1>8 DEF AccountKeys
  <2>2. \A w \in Wallets, m \in Mints : Gained(before, after, w, m) = 0
    BY <1>4, <1>7, AccountsAreDistinct DEF Gained
  <2>3. books = [w \in Wallets |-> [m \in Mints |-> 0]]
    BY DEF Init
  <2> QED
    BY <1>2, <2>1, <2>2, <2>3 DEF Booked, Mints
<1>11. phase = "execute" /\ todo = <<>> /\ deltas = <<>> /\ swaps = {}
  BY DEF Init
<1> QED
  BY <1>6, <1>9, <1>10, <1>11 DEF DiffInv, Listed, Added, Clustered, Phases, IsInjective

\* Nothing of the detection changes while the transaction runs.
LEMMA ExecuteKeeps ==
    ASSUME DiffInv, NEW l, NEW t, NEW o, Execute(l, t, o)
    PROVE  /\ after' = [lamports |-> l, tokens |-> t, open |-> o] /\ phase = "execute" /\ phase' \in Phases
           /\ Balanced(before)' /\ Listed' /\ Added' /\ Clustered'
BY DEF DiffInv, Execute, Balanced, Listed, Added, Clustered, Phases

\* Balances that agree with the invariant, part by part.
LEMMA BalancedByParts ==
    ASSUME NEW l \in [AccountKeys -> Nat], NEW t \in [TokenAccounts -> Nat],
           NEW o \in SUBSET TokenAccounts,
           \A a \in TokenAccounts :
             /\ a \notin o => t[a] = 0 /\ l[a] = 0
             /\ a \in o => l[a] = Rent + IF a.mint = SOL_MINT THEN t[a] ELSE 0
    PROVE  Balanced([lamports |-> l, tokens |-> t, open |-> o])
BY DEF Balanced

LEMMA BalancesHaveParts ==
    ASSUME NEW b, Balanced(b)
    PROVE  /\ b.lamports \in [AccountKeys -> Nat] /\ b.tokens \in [TokenAccounts -> Nat]
           /\ b.open \in SUBSET TokenAccounts
           /\ b = [lamports |-> b.lamports, tokens |-> b.tokens, open |-> b.open]
           /\ \A a \in TokenAccounts :
                /\ a \notin b.open => b.tokens[a] = 0 /\ b.lamports[a] = 0
                /\ a \in b.open =>
                     b.lamports[a] = Rent + IF a.mint = SOL_MINT THEN b.tokens[a] ELSE 0
           /\ Rent \in Nat
BY WalletsAssumption DEF Balanced

\* What came into the accounts of each wallet was booked.
BookedSince(new) ==
    \A w \in Wallets, m \in Mints :
        books'[w][m] - books[w][m]
          = Gained(after, new, w, m)
              + IF m = SOL_MINT THEN new.lamports[w] - after.lamports[w] ELSE 0

LEMMA BookedStepKeeps ==
    ASSUME DiffInv, NEW l, NEW t, NEW o, Execute(l, t, o),
           Balanced([lamports |-> l, tokens |-> t, open |-> o]),
           books' \in [Wallets -> [Mints -> Int]],
           BookedSince([lamports |-> l, tokens |-> t, open |-> o])
    PROVE  DiffInv'
<1> DEFINE new == [lamports |-> l, tokens |-> t, open |-> o]
<1>0. Balanced(new) /\ BookedSince(new)
  OBVIOUS
<1>1. Balanced(after) /\ Balanced(before) /\ Booked(before, after, books)
  BY DEF DiffInv
<1>2. /\ after' = new /\ phase' \in Phases
      /\ Balanced(before)' /\ Listed' /\ Added' /\ Clustered'
  BY ExecuteKeeps
<1>3. before' = before
  BY DEF Execute
<1> HIDE DEF new
<1>4. ASSUME NEW w \in Wallets, NEW m \in Mints
      PROVE  /\ books[w][m] \in Int /\ books'[w][m] \in Int
             /\ Gained(before, after, w, m) \in Int /\ Gained(after, new, w, m) \in Int
             /\ Gained(before, new, w, m)
                  = Gained(before, after, w, m) + Gained(after, new, w, m)
             /\ after.lamports[w] - before.lamports[w] \in Int
             /\ new.lamports[w] - before.lamports[w] \in Int
             /\ new.lamports[w] - before.lamports[w]
                  = (after.lamports[w] - before.lamports[w])
                      + (new.lamports[w] - after.lamports[w])
  <2>1. w \in AccountKeys /\ TokenAccount(w, m) \in TokenAccounts
    BY AccountsAreDistinct DEF AccountKeys
  <2>2. /\ before.tokens[TokenAccount(w, m)] \in Nat /\ before.lamports[w] \in Nat
        /\ after.tokens[TokenAccount(w, m)] \in Nat /\ after.lamports[w] \in Nat
        /\ new.tokens[TokenAccount(w, m)] \in Nat /\ new.lamports[w] \in Nat
    BY <1>0, <1>1, <2>1, BalancesHaveParts
  <2>3. books[w][m] \in Int /\ books'[w][m] \in Int
    BY <1>1 DEF Booked
  <2> QED
    BY <2>2, <2>3 DEF Gained
<1>5. "T" \in Mints /\ SOL_MINT \in Mints /\ "T" # SOL_MINT /\ Fee \in Nat
  BY WalletsAssumption DEF Mints, SOL_MINT
<1>6. ASSUME NEW w \in Wallets
      PROVE  /\ books'[w]["T"] = Gained(before, new, w, "T")
             /\ books'[w][SOL_MINT]
                  = Gained(before, new, w, SOL_MINT) + (new.lamports[w] - before.lamports[w])
                      + IF w = Payer THEN Fee ELSE 0
  <2>1. books'[w]["T"] - books[w]["T"] = Gained(after, new, w, "T")
    BY <1>0, <1>4, <1>5 DEF BookedSince
  <2>2. books'[w][SOL_MINT] - books[w][SOL_MINT]
          = Gained(after, new, w, SOL_MINT) + (new.lamports[w] - after.lamports[w])
    BY <1>0, <1>5 DEF BookedSince
  <2>3. books[w]["T"] = Gained(before, after, w, "T")
    BY <1>1 DEF Booked
  <2>4. books[w][SOL_MINT] = Gained(before, after, w, SOL_MINT)
            + (after.lamports[w] - before.lamports[w]) + IF w = Payer THEN Fee ELSE 0
    BY <1>1 DEF Booked
  <2>5. new.lamports[w] \in Nat /\ after.lamports[w] \in Nat /\ before.lamports[w] \in Nat
    BY <1>0, <1>1, BalancesHaveParts DEF AccountKeys
  <2> QED
    <3>1. books'[w]["T"] = Gained(before, new, w, "T")
      BY <1>4, <1>5, <2>1, <2>3
    <3>2. /\ books[w][SOL_MINT] \in Int /\ books'[w][SOL_MINT] \in Int
          /\ Gained(before, after, w, SOL_MINT) \in Int /\ Gained(after, new, w, SOL_MINT) \in Int
          /\ Gained(before, new, w, SOL_MINT)
               = Gained(before, after, w, SOL_MINT) + Gained(after, new, w, SOL_MINT)
      BY <1>4, <1>5
    <3>3. CASE w = Payer
      BY <1>5, <2>2, <2>4, <2>5, <3>1, <3>2, <3>3
    <3>4. CASE w # Payer
      BY <1>5, <2>2, <2>4, <2>5, <3>1, <3>2, <3>4
    <3> QED
      BY <3>3, <3>4
<1>7. Booked(before, new, books')
  BY <1>6 DEF Booked
<1> QED
  BY <1>0, <1>2, <1>3, <1>7 DEF DiffInv

LEMMA BookedBetween ==
    ASSUME Booked(before, after, books), NEW from \in Wallets, NEW to \in Wallets,
           from # to, NEW m \in Mints, NEW n \in Nat, Book(from, to, m, n)
    PROVE  /\ books' \in [Wallets -> [Mints -> Int]]
           /\ \A w \in Wallets, x \in Mints :
                books'[w][x] - books[w][x]
                  = IF x # m THEN 0 ELSE IF w = from THEN -n ELSE IF w = to THEN n ELSE 0
<1>1. books \in [Wallets -> [Mints -> Int]]
  BY DEF Booked
<1> DEFINE f == [books[from] EXCEPT ![m] = @ - n]
           g == [books[to] EXCEPT ![m] = @ + n]
<1>2. books' = [[books EXCEPT ![from] = f] EXCEPT ![to] = g]
  BY <1>1 DEF Book
<1>3. f \in [Mints -> Int] /\ g \in [Mints -> Int]
  BY <1>1
<1>4. \A x \in Mints : f[x] = IF x = m THEN books[from][x] - n ELSE books[from][x]
  BY <1>1
<1>5. \A x \in Mints : g[x] = IF x = m THEN books[to][x] + n ELSE books[to][x]
  BY <1>1
<1> HIDE DEF f, g
<1>6. books' \in [Wallets -> [Mints -> Int]]
  BY <1>1, <1>2, <1>3
<1>7. ASSUME NEW w \in Wallets
      PROVE  books'[w] = IF w = from THEN f ELSE IF w = to THEN g ELSE books[w]
  BY <1>1, <1>2
<1>8. ASSUME NEW w \in Wallets, NEW x \in Mints
      PROVE  books[w][x] \in Int
  BY <1>1
<1> QED
  BY <1>4, <1>5, <1>6, <1>7, <1>8

LEMMA PayTokensKeeps ==
    ASSUME DiffInv, NEW from \in Wallets, NEW to \in Wallets, NEW m \in Mints,
           NEW n \in Amounts, PayTokens(from, to, m, n)
    PROVE  DiffInv'
<1> DEFINE a == TokenAccount(from, m)
           b == TokenAccount(to, m)
           d == IF m = SOL_MINT THEN n ELSE 0
           t == [after.tokens EXCEPT ![a] = @ - n, ![b] = @ + n]
           l == [after.lamports EXCEPT ![a] = @ - d, ![b] = @ + d]
           new == [lamports |-> l, tokens |-> t, open |-> after.open]
<1>1. from # to /\ a \in after.open /\ b \in after.open /\ after.tokens[a] >= n
  BY DEF PayTokens
<1>2. /\ a \in TokenAccounts /\ b \in TokenAccounts /\ a # b
      /\ a.owner = from /\ b.owner = to /\ a.mint = m /\ b.mint = m
      /\ a \in AccountKeys /\ b \in AccountKeys /\ n \in Nat /\ d \in Nat
  BY <1>1, AccountsAreDistinct, WalletsAssumption DEF AccountKeys
<1>3. Balanced(after) /\ Balanced(before) /\ Booked(before, after, books)
  BY DEF DiffInv
<1>4. Execute(l, t, after.open)
  BY DEF PayTokens
<1>5. Book(from, to, m, n)
  BY DEF PayTokens
<1>6. /\ t \in [TokenAccounts -> Nat]
      /\ t[a] = after.tokens[a] - n /\ t[b] = after.tokens[b] + n
      /\ \A x \in TokenAccounts : x # a /\ x # b => t[x] = after.tokens[x]
  BY <1>1, <1>2, <1>3, BalancesHaveParts
<1>7. after.lamports[a] - d \in Nat
  BY <1>1, <1>2, <1>3, BalancesHaveParts
<1>8. /\ l \in [AccountKeys -> Nat]
      /\ l[a] = after.lamports[a] - d /\ l[b] = after.lamports[b] + d
      /\ \A x \in AccountKeys : x # a /\ x # b => l[x] = after.lamports[x]
  BY <1>2, <1>3, <1>7, BalancesHaveParts
<1> HIDE DEF t, l, a, b, d
<1>9. Balanced(new)
  <2>1. ASSUME NEW x \in TokenAccounts
        PROVE  /\ x \notin after.open => t[x] = 0 /\ l[x] = 0
               /\ x \in after.open => l[x] = Rent + IF x.mint = SOL_MINT THEN t[x] ELSE 0
    <3>1. x \in AccountKeys
      BY DEF AccountKeys
    <3>2. CASE x # a /\ x # b
      BY <1>3, <1>6, <1>8, <3>1, <3>2, BalancesHaveParts
    <3>3. CASE x = a
      BY <1>1, <1>2, <1>3, <1>6, <1>8, <3>3, BalancesHaveParts DEF d
    <3>4. CASE x = b
      BY <1>1, <1>2, <1>3, <1>6, <1>8, <3>4, BalancesHaveParts DEF d
    <3> QED
      BY <3>2, <3>3, <3>4
  <2>2. after.open \in SUBSET TokenAccounts
    BY <1>3, BalancesHaveParts
  <2> QED
    BY <1>6, <1>8, <2>1, <2>2, BalancedByParts
<1>10. /\ books' \in [Wallets -> [Mints -> Int]]
       /\ \A w \in Wallets, x \in Mints :
            books'[w][x] - books[w][x]
              = IF x # m THEN 0 ELSE IF w = from THEN -n ELSE IF w = to THEN n ELSE 0
  BY <1>1, <1>2, <1>3, <1>5, BookedBetween
<1>11. ASSUME NEW w \in Wallets, NEW x \in Mints
       PROVE  /\ Gained(after, new, w, x)
                   = IF x # m THEN 0 ELSE IF w = from THEN -n ELSE IF w = to THEN n ELSE 0
              /\ new.lamports[w] - after.lamports[w] = 0
  <2>1. TokenAccount(w, x) \in TokenAccounts /\ w \in AccountKeys /\ w # a /\ w # b
    BY <1>2, AccountsAreDistinct DEF AccountKeys
  <2>2. /\ TokenAccount(w, x) = a <=> w = from /\ x = m
        /\ TokenAccount(w, x) = b <=> w = to /\ x = m
    BY AccountsAreDistinct DEF a, b
  <2>3. /\ after.tokens[TokenAccount(w, x)] \in Nat /\ after.lamports[w] \in Nat
    BY <1>3, <2>1, BalancesHaveParts
  <2> QED
    BY <1>1, <1>2, <1>6, <1>8, <2>1, <2>2, <2>3 DEF Gained
<1> QED
  <2>1. BookedSince(new)
    <3>1. ASSUME NEW w \in Wallets, NEW x \in Mints
          PROVE  books'[w][x] - books[w][x]
                   = Gained(after, new, w, x)
                       + IF x = SOL_MINT THEN new.lamports[w] - after.lamports[w] ELSE 0
      BY <1>2, <1>10, <1>11
    <3> QED
      BY <3>1 DEF BookedSince
  <2> QED
    BY <1>4, <1>9, <1>10, <2>1, BookedStepKeeps

LEMMA PayLamportsKeeps ==
    ASSUME DiffInv, NEW from \in Wallets, NEW to \in Wallets, NEW n \in Amounts,
           PayLamports(from, to, n)
    PROVE  DiffInv'
<1> DEFINE l == [after.lamports EXCEPT ![from] = @ - n, ![to] = @ + n]
           new == [lamports |-> l, tokens |-> after.tokens, open |-> after.open]
<1>1. from # to /\ after.lamports[from] >= n
  BY DEF PayLamports
<1>2. /\ from \in AccountKeys /\ to \in AccountKeys /\ n \in Nat /\ SOL_MINT \in Mints
      /\ from \notin TokenAccounts /\ to \notin TokenAccounts
  BY AccountsAreDistinct, WalletsAssumption DEF AccountKeys, Mints
<1>3. Balanced(after) /\ Balanced(before) /\ Booked(before, after, books)
  BY DEF DiffInv
<1>4. Execute(l, after.tokens, after.open) /\ Book(from, to, SOL_MINT, n)
  BY DEF PayLamports
<1>5. /\ l \in [AccountKeys -> Nat]
      /\ l[from] = after.lamports[from] - n /\ l[to] = after.lamports[to] + n
      /\ \A x \in AccountKeys : x # from /\ x # to => l[x] = after.lamports[x]
  BY <1>1, <1>2, <1>3, BalancesHaveParts
<1> HIDE DEF l
<1>6. Balanced(new)
  <2>1. \A x \in TokenAccounts : l[x] = after.lamports[x]
    BY <1>2, <1>5 DEF AccountKeys
  <2>2. /\ after.open \in SUBSET TokenAccounts /\ after.tokens \in [TokenAccounts -> Nat]
        /\ \A x \in TokenAccounts :
             /\ x \notin after.open => after.tokens[x] = 0 /\ l[x] = 0
             /\ x \in after.open =>
                  l[x] = Rent + IF x.mint = SOL_MINT THEN after.tokens[x] ELSE 0
    BY <1>3, <2>1, BalancesHaveParts
  <2> QED
    BY <1>5, <2>2, BalancedByParts
<1>7. /\ books' \in [Wallets -> [Mints -> Int]]
      /\ \A w \in Wallets, x \in Mints :
           books'[w][x] - books[w][x]
             = IF x # SOL_MINT THEN 0 ELSE IF w = from THEN -n ELSE IF w = to THEN n ELSE 0
  BY <1>1, <1>2, <1>3, <1>4, BookedBetween
<1>8. BookedSince(new)
  <2>1. ASSUME NEW w \in Wallets, NEW x \in Mints
        PROVE  books'[w][x] - books[w][x]
                 = Gained(after, new, w, x)
                     + IF x = SOL_MINT THEN new.lamports[w] - after.lamports[w] ELSE 0
    <3>1. TokenAccount(w, x) \in TokenAccounts /\ w \in AccountKeys
      BY AccountsAreDistinct DEF AccountKeys
    <3>2. after.tokens[TokenAccount(w, x)] \in Nat /\ after.lamports[w] \in Nat
      BY <1>3, <3>1, BalancesHaveParts
    <3>3. Gained(after, new, w, x) = 0
      BY <3>2 DEF Gained
    <3>4. l[w] - after.lamports[w] = IF w = from THEN -n ELSE IF w = to THEN n ELSE 0
      BY <1>1, <1>2, <1>5, <3>1, <3>2
    <3> QED
      BY <1>2, <1>7, <3>3, <3>4
  <2> QED
    BY <2>1 DEF BookedSince
<1> QED
  BY <1>4, <1>6, <1>7, <1>8, BookedStepKeeps

LEMMA BookedOwn ==
    ASSUME Booked(before, after, books), NEW w \in Wallets, NEW n \in Int,
           books' = [books EXCEPT ![w][SOL_MINT] = @ + n]
    PROVE  /\ books' \in [Wallets -> [Mints -> Int]]
           /\ \A u \in Wallets, x \in Mints :
                books'[u][x] - books[u][x] = IF u = w /\ x = SOL_MINT THEN n ELSE 0
<1>1. books \in [Wallets -> [Mints -> Int]] /\ SOL_MINT \in Mints
  BY DEF Booked, Mints
<1> QED
  BY <1>1

\* The wallet w gains n lamports and its token account a gains k tokens; no
\* other wallet and no other token account gains anything.
OwnAccountGains(w, a, n, k, l, t) ==
    /\ n \in Int /\ k \in Int
    /\ l[w] = after.lamports[w] + n /\ t[a] = after.tokens[a] + k
    /\ \A x \in Wallets : x # w => l[x] = after.lamports[x]
    /\ \A x \in TokenAccounts : x # a => t[x] = after.tokens[x]

\* A step of one wallet and one of its accounts, whether it moves lamports into
\* the account or back, with or without the account's rent.
LEMMA OwnAccountKeeps ==
    ASSUME DiffInv, NEW w \in Wallets, NEW m \in Mints, NEW l, NEW t, NEW o,
           Execute(l, t, o),
           Balanced([lamports |-> l, tokens |-> t, open |-> o]),
           NEW n, NEW k, OwnAccountGains(w, TokenAccount(w, m), n, k, l, t),
           m # SOL_MINT => k = 0,
           Booked(before, after, books),
           books' = [books EXCEPT ![w][SOL_MINT] = @ + (n + k)]
    PROVE  DiffInv'
<1> DEFINE new == [lamports |-> l, tokens |-> t, open |-> o]
<1>0. /\ n \in Int /\ k \in Int /\ books' \in [Wallets -> [Mints -> Int]]
      /\ \A u \in Wallets, x \in Mints :
           books'[u][x] - books[u][x] = IF u = w /\ x = SOL_MINT THEN n + k ELSE 0
  <2>1. n \in Int /\ k \in Int /\ n + k \in Int
    BY DEF OwnAccountGains
  <2> QED
    BY <2>1, BookedOwn
<1>1. Balanced(after)
  BY DEF DiffInv
<1>2. ASSUME NEW u \in Wallets, NEW x \in Mints
      PROVE  books'[u][x] - books[u][x]
               = Gained(after, new, u, x)
                   + IF x = SOL_MINT THEN new.lamports[u] - after.lamports[u] ELSE 0
  <2>1. /\ TokenAccount(u, x) \in TokenAccounts /\ u \in AccountKeys
        /\ TokenAccount(u, x) = TokenAccount(w, m) <=> u = w /\ x = m
        /\ u # TokenAccount(w, m)
    BY AccountsAreDistinct DEF AccountKeys
  <2>2. after.tokens[TokenAccount(u, x)] \in Nat /\ after.lamports[u] \in Nat
    BY <1>1, <2>1, BalancesHaveParts
  <2>3. Gained(after, new, u, x) = IF u = w /\ x = m THEN k ELSE 0
    BY <2>1, <2>2 DEF Gained, OwnAccountGains
  <2>4. l[u] - after.lamports[u] = IF u = w THEN n ELSE 0
    BY <2>1, <2>2 DEF OwnAccountGains
  <2> QED
    BY <1>0, <2>3, <2>4
<1>3. BookedSince(new)
  BY <1>2 DEF BookedSince
<1> QED
  BY <1>0, <1>3, BookedStepKeeps

LEMMA WrapKeeps ==
    ASSUME DiffInv, NEW w \in Wallets, NEW n \in Amounts, Wrap(w, n)
    PROVE  DiffInv'
<1> DEFINE a == TokenAccount(w, SOL_MINT)
           l == [after.lamports EXCEPT ![w] = @ - n, ![a] = @ + n]
           t == [after.tokens EXCEPT ![a] = @ + n]
<1>1. /\ a \in after.open /\ after.lamports[w] >= n /\ books' = books
      /\ Execute(l, t, after.open)
  BY DEF Wrap
<1>2. /\ SOL_MINT \in Mints /\ a \in TokenAccounts /\ a.mint = SOL_MINT /\ a # w
      /\ a \in AccountKeys /\ w \in AccountKeys /\ w \notin TokenAccounts /\ n \in Nat
  BY AccountsAreDistinct, WalletsAssumption DEF AccountKeys, Mints
<1>3. Balanced(after) /\ Booked(before, after, books)
  BY DEF DiffInv
<1>4. /\ t \in [TokenAccounts -> Nat] /\ t[a] = after.tokens[a] + n
      /\ \A x \in TokenAccounts : x # a => t[x] = after.tokens[x]
  BY <1>2, <1>3, BalancesHaveParts
<1>5. /\ l \in [AccountKeys -> Nat]
      /\ l[w] = after.lamports[w] - n /\ l[a] = after.lamports[a] + n
      /\ \A x \in AccountKeys : x # w /\ x # a => l[x] = after.lamports[x]
  BY <1>1, <1>2, <1>3, BalancesHaveParts
<1> HIDE DEF l, t
<1>6. Balanced([lamports |-> l, tokens |-> t, open |-> after.open])
  <2>1. ASSUME NEW x \in TokenAccounts
        PROVE  /\ x \notin after.open => t[x] = 0 /\ l[x] = 0
               /\ x \in after.open => l[x] = Rent + IF x.mint = SOL_MINT THEN t[x] ELSE 0
    <3>1. x \in AccountKeys /\ x # w
      BY <1>2 DEF AccountKeys
    <3>2. CASE x = a
      BY <1>1, <1>2, <1>3, <1>4, <1>5, <3>2, BalancesHaveParts
    <3>3. CASE x # a
      BY <1>3, <1>4, <1>5, <3>1, <3>3, BalancesHaveParts
    <3> QED
      BY <3>2, <3>3
  <2>2. after.open \in SUBSET TokenAccounts
    BY <1>3, BalancesHaveParts
  <2> QED
    BY <1>4, <1>5, <2>1, <2>2, BalancedByParts
<1>7. books' = [books EXCEPT ![w][SOL_MINT] = @ + ((-n) + n)]
  <2>1. books \in [Wallets -> [Mints -> Int]] /\ (-n) + n = 0
    BY <1>2, <1>3 DEF Booked
  <2> QED
    BY <1>1, <1>2, <2>1
<1>8. OwnAccountGains(w, a, -n, n, l, t)
  <2>1. after.lamports[w] \in Nat /\ -n \in Int
    BY <1>2, <1>3, BalancesHaveParts
  <2>2. \A x \in Wallets : x \in AccountKeys /\ x # a
    BY <1>2, AccountsAreDistinct DEF AccountKeys
  <2> QED
    BY <1>2, <1>4, <1>5, <2>1, <2>2 DEF OwnAccountGains
<1> QED
  BY <1>1, <1>2, <1>3, <1>6, <1>7, <1>8, OwnAccountKeeps

LEMMA OpenKeeps ==
    ASSUME DiffInv, NEW w \in Wallets, NEW m \in Mints, Open(w, m)
    PROVE  DiffInv'
<1> DEFINE a == TokenAccount(w, m)
           l == [after.lamports EXCEPT ![w] = @ - Rent, ![a] = Rent]
           o == after.open \cup {a}
<1>1. /\ a \notin after.open /\ after.lamports[w] >= Rent
      /\ Execute(l, after.tokens, o)
      /\ books' = [books EXCEPT ![w][SOL_MINT] = @ - Rent]
  BY DEF Open
<1>2. /\ a \in TokenAccounts /\ a # w /\ Rent \in Nat
      /\ a \in AccountKeys /\ w \in AccountKeys /\ w \notin TokenAccounts
  BY AccountsAreDistinct, WalletsAssumption DEF AccountKeys
<1>3. Balanced(after) /\ Booked(before, after, books)
  BY DEF DiffInv
<1>4. /\ l \in [AccountKeys -> Nat]
      /\ l[w] = after.lamports[w] - Rent /\ l[a] = Rent
      /\ \A x \in AccountKeys : x # w /\ x # a => l[x] = after.lamports[x]
  BY <1>1, <1>2, <1>3, BalancesHaveParts
<1> HIDE DEF l
<1>5. Balanced([lamports |-> l, tokens |-> after.tokens, open |-> o])
  <2>1. ASSUME NEW x \in TokenAccounts
        PROVE  /\ x \notin o => after.tokens[x] = 0 /\ l[x] = 0
               /\ x \in o =>
                    l[x] = Rent + IF x.mint = SOL_MINT THEN after.tokens[x] ELSE 0
    <3>1. x \in AccountKeys /\ x # w
      BY <1>2 DEF AccountKeys
    <3>2. CASE x = a
      BY <1>1, <1>2, <1>3, <1>4, <3>2, BalancesHaveParts
    <3>3. CASE x # a
      BY <1>3, <1>4, <3>1, <3>3, BalancesHaveParts
    <3> QED
      BY <3>2, <3>3
  <2>2. o \in SUBSET TokenAccounts /\ after.tokens \in [TokenAccounts -> Nat]
    BY <1>2, <1>3, BalancesHaveParts
  <2> HIDE DEF o
  <2> QED
    BY <1>4, <2>1, <2>2, BalancedByParts
<1>6. books' = [books EXCEPT ![w][SOL_MINT] = @ + ((-Rent) + 0)]
  <2>1. books[w][SOL_MINT] \in Int /\ (-Rent) + 0 = -Rent
    BY <1>2, <1>3 DEF Booked, Mints
  <2> QED
    BY <1>1, <1>2, <2>1
<1>7. OwnAccountGains(w, a, -Rent, 0, l, after.tokens)
  <2>1. /\ after.lamports[w] \in Nat /\ -Rent \in Int /\ after.tokens[a] \in Nat
    BY <1>2, <1>3, BalancesHaveParts
  <2>2. \A x \in Wallets : x \in AccountKeys /\ x # a
    BY <1>2, AccountsAreDistinct DEF AccountKeys
  <2> QED
    BY <1>2, <1>4, <2>1, <2>2 DEF OwnAccountGains
<1> HIDE DEF o
<1> QED
  BY <1>1, <1>2, <1>3, <1>5, <1>6, <1>7, OwnAccountKeeps

LEMMA CloseKeeps ==
    ASSUME DiffInv, NEW w \in Wallets, NEW m \in Mints, Close(w, m)
    PROVE  DiffInv'
<1> DEFINE a == TokenAccount(w, m)
           n == after.lamports[a]
           k == -after.tokens[a]
           l == [after.lamports EXCEPT ![w] = @ + n, ![a] = 0]
           t == [after.tokens EXCEPT ![a] = 0]
           o == after.open \ {a}
<1>1. /\ a \in after.open /\ (m # SOL_MINT => after.tokens[a] = 0)
      /\ Execute(l, t, o)
      /\ books' = [books EXCEPT ![w][SOL_MINT] = @ + Rent]
  BY DEF Close
<1>2. /\ a \in TokenAccounts /\ a # w /\ a.mint = m /\ Rent \in Nat
      /\ a \in AccountKeys /\ w \in AccountKeys /\ w \notin TokenAccounts
  BY AccountsAreDistinct, WalletsAssumption DEF AccountKeys
<1>3. Balanced(after) /\ Booked(before, after, books)
  BY DEF DiffInv
<1>4. /\ n \in Nat /\ after.tokens[a] \in Nat /\ k \in Int /\ n + k = Rent
      /\ m # SOL_MINT => k = 0
  <2>1. /\ after.lamports[a] \in Nat /\ after.tokens[a] \in Nat
        /\ after.lamports[a] = Rent + IF m = SOL_MINT THEN after.tokens[a] ELSE 0
    BY <1>1, <1>2, <1>3, BalancesHaveParts
  <2> QED
    BY <1>1, <1>2, <2>1
<1>5. /\ l \in [AccountKeys -> Nat]
      /\ l[w] = after.lamports[w] + n /\ l[a] = 0
      /\ \A x \in AccountKeys : x # w /\ x # a => l[x] = after.lamports[x]
  BY <1>2, <1>3, <1>4, BalancesHaveParts
<1>6. /\ t \in [TokenAccounts -> Nat] /\ t[a] = 0 /\ t[a] = after.tokens[a] + k
      /\ \A x \in TokenAccounts : x # a => t[x] = after.tokens[x]
  BY <1>2, <1>3, <1>4, BalancesHaveParts
<1> HIDE DEF l, t
<1>7. Balanced([lamports |-> l, tokens |-> t, open |-> o])
  <2>1. ASSUME NEW x \in TokenAccounts
        PROVE  /\ x \notin o => t[x] = 0 /\ l[x] = 0
               /\ x \in o => l[x] = Rent + IF x.mint = SOL_MINT THEN t[x] ELSE 0
    <3>1. x \in AccountKeys /\ x # w
      BY <1>2 DEF AccountKeys
    <3>2. CASE x = a
      BY <1>5, <1>6, <3>2
    <3>3. CASE x # a
      BY <1>3, <1>5, <1>6, <3>1, <3>3, BalancesHaveParts
    <3> QED
      BY <3>2, <3>3
  <2>2. o \in SUBSET TokenAccounts
    BY <1>3, BalancesHaveParts
  <2> HIDE DEF o
  <2> QED
    BY <1>5, <1>6, <2>1, <2>2, BalancedByParts
<1>8. books' = [books EXCEPT ![w][SOL_MINT] = @ + (n + k)]
  BY <1>1, <1>4
<1>9. OwnAccountGains(w, a, n, k, l, t)
  <2>1. \A x \in Wallets : x \in AccountKeys /\ x # a
    BY <1>2, AccountsAreDistinct DEF AccountKeys
  <2> HIDE DEF n, k
  <2> QED
    BY <1>2, <1>4, <1>5, <1>6, <2>1 DEF OwnAccountGains
<1> HIDE DEF o, n, k
<1> QED
  BY <1>1, <1>2, <1>3, <1>4, <1>7, <1>8, <1>9, OwnAccountKeeps

--------------------------------------------------------------------------------
(* compute_raw_deltas *)

\* The part of a transaction's balances and books that the detection leaves.
LEMMA EnvKeeps ==
    ASSUME DiffInv, UNCHANGED env
    PROVE  Balanced(before)' /\ Balanced(after)' /\ Booked(before, after, books)'
BY DEF DiffInv, env

\* Adding a change where none was counted yet, to either sum.
LEMMA EntryAdds ==
    ASSUME NEW T \in [Entries -> Int], NEW L \in [Entries -> Int], Sums(deltas, T, L, 0),
           NEW o, NEW m, <<o, m>> \in Entries, NEW x \in Int, Entry(o, m, x)
    PROVE  /\ T[<<o, m>>] = 0 => Sums(deltas', [T EXCEPT ![<<o, m>>] = x], L, 0)
           /\ L[<<o, m>>] = 0 => Sums(deltas', T, [L EXCEPT ![<<o, m>>] = x], 0)
<1> DEFINE key == <<o, m>>
<1>1. deltas' = IF x = 0 THEN deltas
                ELSE [e \in DOMAIN deltas \cup {key} |->
                        IF e # key THEN deltas[e]
                        ELSE IF key \in DOMAIN deltas THEN deltas[key] + x
                        ELSE x]
  BY DEF Entry
<1>2. /\ DOMAIN deltas = {e \in Entries : T[e] # 0 \/ L[e] # 0}
      /\ \A e \in DOMAIN deltas : deltas[e] = T[e] + L[e]
  <2>1. \A e \in DOMAIN deltas :
          deltas[e] = T[e] + L[e] + IF e = <<Payer, SOL_MINT>> THEN 0 ELSE 0
    BY DEF Sums
  <2>2. DOMAIN deltas = {e \in Entries : T[e] # 0 \/ L[e] # 0}
    BY DEF Sums
  <2>3. \A e \in DOMAIN deltas : T[e] + L[e] + 0 = T[e] + L[e]
    BY <2>2
  <2> QED
    BY <2>1, <2>2, <2>3
<1>3. key \in Entries
  OBVIOUS
<1> HIDE DEF key
<1>4. DOMAIN deltas' = IF x = 0 THEN DOMAIN deltas ELSE DOMAIN deltas \cup {key}
  BY <1>1
<1>5. ASSUME NEW e \in DOMAIN deltas'
      PROVE  deltas'[e] = T[e] + L[e] + IF e = key THEN x ELSE 0
  <2>0. e \in Entries /\ T[e] \in Int /\ L[e] \in Int
    BY <1>2, <1>3, <1>4
  <2>1. CASE x = 0 /\ e \in DOMAIN deltas
    BY <1>1, <1>2, <2>0, <2>1
  <2>2. CASE x # 0 /\ e # key
    BY <1>1, <1>2, <1>4, <2>0, <2>2
  <2>3. CASE x # 0 /\ e = key /\ key \in DOMAIN deltas
    BY <1>1, <1>2, <2>0, <2>3
  <2>4. CASE x # 0 /\ e = key /\ key \notin DOMAIN deltas
    <3>1. deltas'[e] = x
      BY <1>1, <2>4
    <3>2. T[e] = 0 /\ L[e] = 0
      BY <1>2, <1>3, <2>4
    <3> QED
      BY <2>4, <3>1, <3>2
  <2> QED
    BY <1>4, <2>1, <2>2, <2>3, <2>4
<1>6. \A e \in Entries : T[e] \in Int /\ L[e] \in Int
  OBVIOUS
<1>7. ASSUME T[key] = 0
      PROVE  Sums(deltas', [T EXCEPT ![key] = x], L, 0)
  <2> DEFINE U == [T EXCEPT ![key] = x]
  <2>1. \A e \in Entries : U[e] = IF e = key THEN x ELSE T[e]
    BY <1>3
  <2> HIDE DEF U
  <2>2. DOMAIN deltas' = {e \in Entries : U[e] # 0 \/ L[e] # 0}
    BY <1>2, <1>3, <1>4, <1>7, <2>1
  <2>3. \A e \in DOMAIN deltas' : deltas'[e] = U[e] + L[e] + 0
    <3>1. \A e \in DOMAIN deltas' : e \in Entries
      BY <1>2, <1>3, <1>4
    <3> QED
      BY <1>5, <1>6, <1>7, <2>1, <3>1
  <2>4. Sums(deltas', U, L, 0)
    BY <2>2, <2>3 DEF Sums
  <2> QED
    BY <2>4 DEF U
<1>8. ASSUME L[key] = 0
       PROVE  Sums(deltas', T, [L EXCEPT ![key] = x], 0)
  <2> DEFINE U == [L EXCEPT ![key] = x]
  <2>1. \A e \in Entries : U[e] = IF e = key THEN x ELSE L[e]
    BY <1>3
  <2> HIDE DEF U
  <2>2. DOMAIN deltas' = {e \in Entries : T[e] # 0 \/ U[e] # 0}
    BY <1>2, <1>3, <1>4, <1>8, <2>1
  <2>3. \A e \in DOMAIN deltas' : deltas'[e] = T[e] + U[e] + 0
    <3>1. \A e \in DOMAIN deltas' : e \in Entries
      BY <1>2, <1>3, <1>4
    <3> QED
      BY <1>5, <1>6, <1>8, <2>1, <3>1
  <2>4. Sums(deltas', T, U, 0)
    BY <2>2, <2>3 DEF Sums
  <2> QED
    BY <2>4 DEF U
<1> QED
  BY <1>7, <1>8 DEF key

\* The parts are numbers, and nothing is counted of what is left.
LEMMA PartsAreNumbers ==
    ASSUME NEW b, NEW a, Balanced(b), Balanced(a), NEW hidden, NEW left
    PROVE  /\ TokenPart(b, a, hidden, left) \in [Entries -> Int]
           /\ LamportPart(b, a, left) \in [Entries -> Int]
           /\ \A x \in TokenAccounts \cap left :
                TokenPart(b, a, hidden, left)[<<x.owner, x.mint>>] = 0
           /\ \A x \in AccountKeys \cap left : LamportPart(b, a, left)[<<x, SOL_MINT>>] = 0
<1>1. \A e \in Entries : e[1] \in AccountKeys /\ e[2] \in Mints
  BY DEF Entries
<1>2. \A e \in Entries : e[1] \in Wallets => TokenAccount(e[1], e[2]) \in TokenAccounts
  BY <1>1, AccountsAreDistinct
<1>3. /\ \A x \in TokenAccounts : a.tokens[x] \in Nat /\ b.tokens[x] \in Nat
      /\ \A x \in AccountKeys : a.lamports[x] \in Nat /\ b.lamports[x] \in Nat
  BY BalancesHaveParts
<1>4. TokenPart(b, a, hidden, left) \in [Entries -> Int]
  BY <1>2, <1>3 DEF TokenPart
<1>5. LamportPart(b, a, left) \in [Entries -> Int]
  BY <1>1, <1>3 DEF LamportPart
<1>6. ASSUME NEW x \in TokenAccounts \cap left
      PROVE  TokenPart(b, a, hidden, left)[<<x.owner, x.mint>>] = 0
  <2>1. <<x.owner, x.mint>> \in Entries /\ TokenAccount(x.owner, x.mint) = x
    BY AccountsAreDistinct DEF Entries, AccountKeys
  <2> QED
    BY <2>1 DEF TokenPart
<1>7. ASSUME NEW x \in AccountKeys \cap left
      PROVE  LamportPart(b, a, left)[<<x, SOL_MINT>>] = 0
  BY DEF LamportPart, Entries, Mints
<1> QED
  BY <1>4, <1>5, <1>6, <1>7

\* One account fewer left to look at, unless its balance has no owner.
LEMMA TokenPartGrows ==
    ASSUME NEW b, NEW a, NEW hidden, NEW left, NEW x \in TokenAccounts, x \in left
    PROVE  /\ <<x.owner, x.mint>> \in Entries
           /\ TokenPart(b, a, hidden, left \ {x})
                = IF x \in hidden THEN TokenPart(b, a, hidden, left)
                  ELSE [TokenPart(b, a, hidden, left)
                          EXCEPT ![<<x.owner, x.mint>>] = a.tokens[x] - b.tokens[x]]
<1> DEFINE e == <<x.owner, x.mint>>
           T == TokenPart(b, a, hidden, left)
           U == TokenPart(b, a, hidden, left \ {x})
<1>1. e \in Entries /\ e[1] \in Wallets /\ TokenAccount(e[1], e[2]) = x
  BY AccountsAreDistinct DEF Entries, AccountKeys
<1>2. \A d \in Entries : d[1] \in AccountKeys /\ d[2] \in Mints /\ d = <<d[1], d[2]>>
  BY DEF Entries
<1>3. \A d \in Entries : d[1] \in Wallets => (TokenAccount(d[1], d[2]) = x <=> d = e)
  BY <1>2, AccountsAreDistinct
<1> HIDE DEF e
<1>4. ASSUME NEW d \in Entries, d # e
      PROVE  U[d] = T[d]
  BY <1>3, <1>4 DEF TokenPart
<1>5. T[e] = 0
  BY <1>1 DEF TokenPart
<1>6. U[e] = IF x \in hidden THEN 0 ELSE a.tokens[x] - b.tokens[x]
  BY <1>1 DEF TokenPart
<1>7. /\ U = [d \in Entries |-> U[d]] /\ T = [d \in Entries |-> T[d]]
      /\ DOMAIN U = Entries /\ DOMAIN T = Entries
  BY DEF TokenPart
<1> HIDE DEF T, U
<1>8. U = IF x \in hidden THEN T ELSE [T EXCEPT ![e] = a.tokens[x] - b.tokens[x]]
  BY <1>1, <1>4, <1>5, <1>6, <1>7
<1> QED
  BY <1>1, <1>8 DEF e, T, U

LEMMA LamportPartGrows ==
    ASSUME NEW b, NEW a, NEW left, NEW x \in AccountKeys, x \in left
    PROVE  /\ <<x, SOL_MINT>> \in Entries
           /\ LamportPart(b, a, left \ {x})
                = [LamportPart(b, a, left)
                     EXCEPT ![<<x, SOL_MINT>>] = a.lamports[x] - b.lamports[x]]
<1> DEFINE e == <<x, SOL_MINT>>
           T == LamportPart(b, a, left)
           U == LamportPart(b, a, left \ {x})
<1>1. e \in Entries /\ e[1] = x /\ e[2] = SOL_MINT
  BY DEF Entries, Mints
<1>2. \A d \in Entries : d[1] = x /\ d[2] = SOL_MINT => d = e
  BY DEF Entries
<1> HIDE DEF e
<1>3. ASSUME NEW d \in Entries, d # e
      PROVE  U[d] = T[d]
  BY <1>2, <1>3 DEF LamportPart
<1>4. T[e] = 0
  BY <1>1 DEF LamportPart
<1>5. U[e] = a.lamports[x] - b.lamports[x]
  BY <1>1 DEF LamportPart
<1>6. /\ U = [d \in Entries |-> U[d]] /\ T = [d \in Entries |-> T[d]]
      /\ DOMAIN U = Entries /\ DOMAIN T = Entries
  BY DEF LamportPart
<1> HIDE DEF T, U
<1>7. U = [T EXCEPT ![e] = a.lamports[x] - b.lamports[x]]
  BY <1>1, <1>3, <1>5, <1>6
<1> QED
  BY <1>1, <1>7 DEF e, T, U

\* What an open account may have changed is all there is to count.
LEMMA NothingCounted ==
    ASSUME NEW b, NEW a, Balanced(b), Balanced(a), NEW hidden
    PROVE  Sums(<<>>, TokenPart(b, a, hidden, b.open \cup a.open),
                LamportPart(b, a, AccountKeys), 0)
<1> DEFINE T == TokenPart(b, a, hidden, b.open \cup a.open)
           L == LamportPart(b, a, AccountKeys)
<1>1. \A e \in Entries : e[1] \in AccountKeys /\ e[2] \in Mints
  BY DEF Entries
<1>2. \A e \in Entries : L[e] = 0
  BY <1>1 DEF LamportPart
<1>3. \A x \in TokenAccounts : x \notin b.open \cup a.open => a.tokens[x] = 0 /\ b.tokens[x] = 0
  BY BalancesHaveParts
<1>4. \A e \in Entries : e[1] \in Wallets => TokenAccount(e[1], e[2]) \in TokenAccounts
  BY <1>1, AccountsAreDistinct
<1>5. \A e \in Entries : T[e] = 0
  BY <1>3, <1>4 DEF TokenPart
<1>6. DOMAIN <<>> = {}
  OBVIOUS
<1> HIDE DEF T, L
<1>7. Sums(<<>>, T, L, 0)
  BY <1>2, <1>5, <1>6 DEF Sums
<1> QED
  BY <1>7 DEF T, L

LEMMA DetectSwapsKeeps ==
    ASSUME DiffInv, DetectSwaps
    PROVE  DiffInv'
<1>1. Balanced(before)' /\ Balanced(after)' /\ Booked(before, after, books)'
  BY EnvKeeps DEF DetectSwaps
<1>2. /\ Balanced(before) /\ Balanced(after) /\ phase = "execute" /\ deltas = <<>>
      /\ deltas' = deltas /\ swaps' = swaps /\ swaps = {}
      /\ before' = before /\ after' = after /\ ownerless' = ownerless
      /\ keysKnown' = keysKnown
      /\ phase' = IF status = "ok" THEN "tokens" ELSE "error"
      /\ todo' = IF status = "ok" THEN SetToSeq(before.open \cup after.open) ELSE <<>>
  BY DEF DiffInv, Added, Clustered, DetectSwaps, env
<1> DEFINE open == before.open \cup after.open
<1>3. open \subseteq TokenAccounts /\ IsFiniteSet(open)
  <2>1. open \in SUBSET TokenAccounts
    BY <1>2, BalancesHaveParts
  <2> QED
    BY <2>1, KeysAreFinite, FS_Subset
<1> HIDE DEF open
<1>4. SetToSeq(open) \in Seq(open) /\ IsInjective(SetToSeq(open)) /\ ToSet(SetToSeq(open)) = open
  BY <1>3, ListOfSet
<1>5. SetToSeq(open) \in Seq(AccountKeys)
  BY <1>3, <1>4 DEF AccountKeys
<1>6. CASE status = "ok"
  <2>1. Sums(<<>>, TokenPart(before, after, ownerless, open),
             LamportPart(before, after, AccountKeys), 0)
    BY <1>2, NothingCounted DEF open
  <2>2. phase' = "tokens" /\ todo' = SetToSeq(open)
    BY <1>2, <1>6 DEF open
  <2>3. Added'
    BY <1>2, <1>4, <2>1, <2>2 DEF Added
  <2> QED
    BY <1>1, <1>2, <1>3, <1>4, <1>5, <2>2, <2>3 DEF DiffInv, Listed, Clustered, Phases
<1>7. CASE status # "ok"
  <2>1. phase' = "error" /\ todo' = <<>>
    BY <1>2, <1>7
  <2>2. <<>> \in Seq(AccountKeys) /\ IsInjective(<<>>)
    BY DEF IsInjective
  <2> QED
    BY <1>1, <1>2, <2>1, <2>2 DEF DiffInv, Listed, Added, Clustered, Phases
<1> QED
  BY <1>6, <1>7

LEMMA AddTokenAccountKeeps ==
    ASSUME DiffInv, AddTokenAccount
    PROVE  DiffInv'
<1>1. Balanced(before)' /\ Balanced(after)' /\ Booked(before, after, books)'
  BY EnvKeeps DEF AddTokenAccount
<1> DEFINE x == Head(todo)
           left == ToSet(todo)
           T == TokenPart(before, after, ownerless, left)
           L == LamportPart(before, after, AccountKeys)
           change == after.tokens[x] - before.tokens[x]
<1>2. /\ Balanced(before) /\ Balanced(after)
      /\ phase = "tokens" /\ phase' = "tokens" /\ todo # <<>> /\ todo' = Tail(todo)
      /\ swaps' = swaps /\ swaps = {}
      /\ before' = before /\ after' = after /\ ownerless' = ownerless
      /\ keysKnown' = keysKnown
      /\ todo \in Seq(AccountKeys) /\ IsInjective(todo) /\ left \subseteq TokenAccounts
      /\ Sums(deltas, T, L, 0)
      /\ IF x \in ownerless THEN UNCHANGED deltas ELSE Entry(x.owner, x.mint, change)
  BY DEF DiffInv, Listed, Added, Clustered, AddTokenAccount, env
<1>3. /\ x \in left /\ Tail(todo) \in Seq(AccountKeys) /\ IsInjective(Tail(todo))
      /\ ToSet(Tail(todo)) = left \ {x}
  BY <1>2, TailOfList
<1>4. /\ T \in [Entries -> Int] /\ L \in [Entries -> Int]
      /\ <<x.owner, x.mint>> \in Entries /\ T[<<x.owner, x.mint>>] = 0
      /\ TokenPart(before, after, ownerless, left \ {x})
           = IF x \in ownerless THEN T ELSE [T EXCEPT ![<<x.owner, x.mint>>] = change]
      /\ change \in Int
  <2>1. x \in left /\ x \in TokenAccounts
    BY <1>2, <1>3
  <2>2. change \in Int
    BY <1>2, <2>1, BalancesHaveParts
  <2> HIDE DEF x, left
  <2>3. T \in [Entries -> Int] /\ L \in [Entries -> Int]
    BY <1>2, PartsAreNumbers
  <2>4. T[<<x.owner, x.mint>>] = 0
    BY <1>2, <2>1, PartsAreNumbers
  <2>5. /\ <<x.owner, x.mint>> \in Entries
        /\ TokenPart(before, after, ownerless, left \ {x})
             = IF x \in ownerless THEN T ELSE [T EXCEPT ![<<x.owner, x.mint>>] = change]
    BY <2>1, TokenPartGrows
  <2> QED
    BY <2>2, <2>3, <2>4, <2>5
<1> HIDE DEF x, left, T, L, change
<1>5. Sums(deltas', TokenPart(before, after, ownerless, left \ {x}), L, 0)
  <2>1. CASE x \in ownerless
    BY <1>2, <1>4, <2>1
  <2>2. CASE x \notin ownerless
    <3>1. Entry(x.owner, x.mint, change) /\ Sums(deltas, T, L, 0)
      BY <1>2, <2>2
    <3>2. Sums(deltas', [T EXCEPT ![<<x.owner, x.mint>>] = change], L, 0)
      BY <1>4, <3>1, EntryAdds
    <3> QED
      BY <1>4, <2>2, <3>2
  <2> QED
    BY <2>1, <2>2
<1>6. Added'
  BY <1>2, <1>3, <1>5 DEF Added, L
<1> QED
  BY <1>1, <1>2, <1>3, <1>6 DEF DiffInv, Listed, Clustered, Phases

LEMMA StartLamportsKeeps ==
    ASSUME DiffInv, StartLamports
    PROVE  DiffInv'
<1>1. Balanced(before)' /\ Balanced(after)' /\ Booked(before, after, books)'
  BY EnvKeeps DEF StartLamports
<1>2. /\ phase = "tokens" /\ phase' = "lamports" /\ todo = <<>>
      /\ todo' = IF keysKnown THEN SetToSeq(Wallets) \o SetToSeq(TokenAccounts) ELSE <<>>
      /\ before' = before /\ after' = after /\ ownerless' = ownerless
      /\ keysKnown' = keysKnown /\ deltas' = deltas /\ swaps' = swaps /\ swaps = {}
      /\ Sums(deltas, TokenPart(before, after, ownerless, ToSet(todo)),
              LamportPart(before, after, AccountKeys), 0)
  BY DEF DiffInv, Added, Clustered, StartLamports, env
<1>3. ToSet(<<>>) = {} /\ <<>> \in Seq(AccountKeys) /\ IsInjective(<<>>)
  BY DEF ToSet, IsInjective
<1>4. /\ SetToSeq(Wallets) \in Seq(Wallets) /\ IsInjective(SetToSeq(Wallets))
      /\ ToSet(SetToSeq(Wallets)) = Wallets
      /\ SetToSeq(TokenAccounts) \in Seq(TokenAccounts)
      /\ IsInjective(SetToSeq(TokenAccounts))
      /\ ToSet(SetToSeq(TokenAccounts)) = TokenAccounts
  BY KeysAreFinite, ListOfSet
<1>5. Wallets \cap TokenAccounts = {}
  BY WalletsAssumption
<1>6. /\ SetToSeq(Wallets) \in Seq(AccountKeys)
      /\ SetToSeq(TokenAccounts) \in Seq(AccountKeys)
  BY <1>4 DEF AccountKeys
<1> DEFINE all == SetToSeq(Wallets) \o SetToSeq(TokenAccounts)
<1>7. all \in Seq(AccountKeys) /\ IsInjective(all) /\ ToSet(all) = AccountKeys
  <2>1. ToSet(SetToSeq(Wallets)) \cap ToSet(SetToSeq(TokenAccounts)) = {}
    BY <1>4, <1>5
  <2>2. /\ all \in Seq(AccountKeys) /\ IsInjective(all)
        /\ ToSet(all) = ToSet(SetToSeq(Wallets)) \cup ToSet(SetToSeq(TokenAccounts))
    BY <1>4, <1>6, <2>1, ListsInOneAnother
  <2> QED
    BY <1>4, <2>2 DEF AccountKeys
<1>8. todo' = IF keysKnown THEN all ELSE <<>>
  BY <1>2
<1> HIDE DEF all
<1>9. Listed'
  BY <1>2, <1>3, <1>7, <1>8 DEF Listed
<1>10. Added'
  <2>1. (IF keysKnown THEN ToSet(todo') ELSE AccountKeys) = AccountKeys
    BY <1>7, <1>8
  <2>2. Sums(deltas, TokenPart(before, after, ownerless, {}),
             LamportPart(before, after, IF keysKnown THEN ToSet(todo') ELSE AccountKeys), 0)
    BY <1>2, <1>3, <2>1
  <2> QED
    BY <1>2, <2>2 DEF Added
<1> QED
  BY <1>1, <1>2, <1>9, <1>10 DEF DiffInv, Clustered, Phases

LEMMA AddLamportsKeeps ==
    ASSUME DiffInv, AddLamports
    PROVE  DiffInv'
<1>1. Balanced(before)' /\ Balanced(after)' /\ Booked(before, after, books)'
  BY EnvKeeps DEF AddLamports
<1> DEFINE x == Head(todo)
           left == ToSet(todo)
           T == TokenPart(before, after, ownerless, {})
           L == LamportPart(before, after, left)
           change == after.lamports[x] - before.lamports[x]
<1>2. /\ Balanced(before) /\ Balanced(after)
      /\ phase = "lamports" /\ phase' = "lamports" /\ todo # <<>> /\ todo' = Tail(todo)
      /\ swaps' = swaps /\ swaps = {}
      /\ before' = before /\ after' = after /\ ownerless' = ownerless
      /\ keysKnown' = keysKnown /\ keysKnown
      /\ todo \in Seq(AccountKeys) /\ IsInjective(todo)
      /\ Sums(deltas, T, L, 0)
      /\ Entry(x, SOL_MINT, change)
  BY DEF DiffInv, Listed, Added, Clustered, AddLamports, env
<1>3. /\ x \in left /\ left \subseteq AccountKeys
      /\ Tail(todo) \in Seq(AccountKeys) /\ IsInjective(Tail(todo))
      /\ ToSet(Tail(todo)) = left \ {x}
  BY <1>2, TailOfList
<1>4. x \in AccountKeys /\ change \in Int
  BY <1>2, <1>3, BalancesHaveParts
<1> HIDE DEF x, left
<1>5. T \in [Entries -> Int] /\ L \in [Entries -> Int]
  BY <1>2, PartsAreNumbers
<1>6. L[<<x, SOL_MINT>>] = 0
  BY <1>2, <1>3, <1>4, PartsAreNumbers
<1>7. /\ <<x, SOL_MINT>> \in Entries
      /\ LamportPart(before, after, left \ {x}) = [L EXCEPT ![<<x, SOL_MINT>>] = change]
  BY <1>3, <1>4, LamportPartGrows
<1> HIDE DEF T, L, change
<1>8. Sums(deltas', T, LamportPart(before, after, left \ {x}), 0)
  <2>1. Sums(deltas', T, [L EXCEPT ![<<x, SOL_MINT>>] = change], 0)
    BY <1>2, <1>4, <1>5, <1>6, <1>7, EntryAdds
  <2> QED
    BY <1>7, <2>1
<1>9. Added'
  BY <1>2, <1>3, <1>8 DEF Added, T
<1> QED
  BY <1>1, <1>2, <1>3, <1>9 DEF DiffInv, Listed, Clustered, Phases

--------------------------------------------------------------------------------
(* merge_sol_and_wsol and cluster_into_swaps *)

LEMMA MergeSolAndWsolKeeps ==
    ASSUME DiffInv, MergeSolAndWsol
    PROVE  DiffInv'
<1>1. Balanced(before)' /\ Balanced(after)' /\ Booked(before, after, books)'
  BY EnvKeeps DEF MergeSolAndWsol
<1> DEFINE T == TokenPart(before, after, ownerless, {})
           L == LamportPart(before, after, IF keysKnown THEN {} ELSE AccountKeys)
<1>2. /\ Balanced(before) /\ Balanced(after)
      /\ phase = "lamports" /\ phase' = "cluster" /\ todo = <<>> /\ todo' = todo
      /\ swaps' = swaps /\ swaps = {}
      /\ before' = before /\ after' = after /\ ownerless' = ownerless
      /\ keysKnown' = keysKnown /\ Listed
      /\ Sums(deltas, T,
              LamportPart(before, after, IF keysKnown THEN ToSet(todo) ELSE AccountKeys), 0)
      /\ deltas' = [e \in DOMAIN deltas |->
                      IF e = <<Payer, SOL_MINT>> THEN deltas[e] + Fee ELSE deltas[e]]
  BY DEF DiffInv, Added, Clustered, MergeSolAndWsol, env
<1>3. ToSet(todo) = {}
  BY <1>2 DEF ToSet
<1>4. Sums(deltas, T, L, 0)
  BY <1>2, <1>3
<1>5. T \in [Entries -> Int] /\ L \in [Entries -> Int] /\ Fee \in Nat
  BY <1>2, PartsAreNumbers, WalletsAssumption
<1> HIDE DEF T, L
<1>6. /\ DOMAIN deltas' = {e \in Entries : T[e] # 0 \/ L[e] # 0}
      /\ DOMAIN deltas = {e \in Entries : T[e] # 0 \/ L[e] # 0}
  BY <1>2, <1>4 DEF Sums
<1>7. ASSUME NEW e \in DOMAIN deltas'
      PROVE  deltas'[e] = T[e] + L[e] + IF e = <<Payer, SOL_MINT>> THEN Fee ELSE 0
  <2>1. e \in DOMAIN deltas /\ T[e] \in Int /\ L[e] \in Int
    BY <1>5, <1>6
  <2>2. deltas[e] = T[e] + L[e] + IF e = <<Payer, SOL_MINT>> THEN 0 ELSE 0
    BY <1>4, <2>1 DEF Sums
  <2>3. deltas'[e] = IF e = <<Payer, SOL_MINT>> THEN deltas[e] + Fee ELSE deltas[e]
    BY <1>2, <2>1
  <2> QED
    BY <1>5, <2>1, <2>2, <2>3
<1>8. Sums(deltas', T, L, Fee)
  BY <1>6, <1>7 DEF Sums
<1>9. Added'
  BY <1>2, <1>8 DEF Added, T, L
<1> QED
  BY <1>1, <1>2, <1>9 DEF DiffInv, Listed, Clustered, Phases

LEMMA ClusterIntoSwapsKeeps ==
    ASSUME DiffInv, ClusterIntoSwaps
    PROVE  DiffInv'
<1>1. Balanced(before)' /\ Balanced(after)' /\ Booked(before, after, books)'
  BY EnvKeeps DEF ClusterIntoSwaps
<1>2. /\ phase = "cluster" /\ phase' = "done" /\ todo' = todo /\ deltas' = deltas
      /\ before' = before /\ after' = after /\ ownerless' = ownerless
      /\ keysKnown' = keysKnown /\ Listed /\ Added
  BY DEF DiffInv, ClusterIntoSwaps, env
<1>3. Clustered'
  <2>1. Owners' = Owners /\ \A o : Sold(o)' = Sold(o) /\ Bought(o)' = Bought(o)
    BY <1>2 DEF Owners, Sold, Bought
  <2>2. swaps' = {[trader |-> o, sold |-> Sold(o), bought |-> Bought(o),
                   is_program_mediated |-> o \in OffCurve \cup TokenAccounts] :
                     o \in {w \in Owners : Sold(w) # {} /\ Bought(w) # {}}}
    BY DEF ClusterIntoSwaps, Owners
  <2> QED
    BY <1>2, <2>1, <2>2 DEF Clustered
<1>4. Listed' /\ Added'
  BY <1>2 DEF Listed, Added
<1> QED
  BY <1>1, <1>2, <1>3, <1>4 DEF DiffInv, Phases

LEMMA StutterKeeps ==
    ASSUME DiffInv, UNCHANGED vars
    PROVE  DiffInv'
BY DEF DiffInv, vars, env, Listed, Added, Clustered, Owners, Sold, Bought

LEMMA NextKeeps == DiffInv /\ [Next]_vars => DiffInv'
<1> SUFFICES ASSUME DiffInv, [Next]_vars PROVE DiffInv'
  OBVIOUS
<1>1. CASE \E from, to \in Wallets, m \in Mints, n \in Amounts : PayTokens(from, to, m, n)
  BY <1>1, PayTokensKeeps
<1>2. CASE \E from, to \in Wallets, n \in Amounts : PayLamports(from, to, n)
  BY <1>2, PayLamportsKeeps
<1>3. CASE \E w \in Wallets, n \in Amounts : Wrap(w, n)
  BY <1>3, WrapKeeps
<1>4. CASE \E w \in Wallets, m \in Mints : Open(w, m)
  BY <1>4, OpenKeeps
<1>5. CASE \E w \in Wallets, m \in Mints : Close(w, m)
  BY <1>5, CloseKeeps
<1>6. CASE DetectSwaps
  BY <1>6, DetectSwapsKeeps
<1>7. CASE AddTokenAccount
  BY <1>7, AddTokenAccountKeeps
<1>8. CASE StartLamports
  BY <1>8, StartLamportsKeeps
<1>9. CASE AddLamports
  BY <1>9, AddLamportsKeeps
<1>10. CASE MergeSolAndWsol
  BY <1>10, MergeSolAndWsolKeeps
<1>11. CASE ClusterIntoSwaps
  BY <1>11, ClusterIntoSwapsKeeps
<1>12. CASE Ended \/ UNCHANGED vars
  BY <1>12, StutterKeeps DEF Ended
<1> QED
  BY <1>1, <1>2, <1>3, <1>4, <1>5, <1>6, <1>7, <1>8, <1>9, <1>10, <1>11, <1>12 DEF Next

LEMMA InvHolds == Spec => []DiffInv
<1> QED
  BY InitHolds, NextKeeps, PTL DEF Spec

--------------------------------------------------------------------------------
(* What the swaps say *)

\* In the end the entries of a wallet all of whose balances have an owner are
\* its books.
LEMMA EntriesAreBooks ==
    ASSUME DiffInv, phase = "done", keysKnown, NEW w \in Wallets, w \notin Misread,
           NEW m \in Mints
    PROVE  /\ books[w][m] \in Int
           /\ <<w, m>> \in DOMAIN deltas => deltas[<<w, m>>] = books[w][m]
           /\ <<w, m>> \notin DOMAIN deltas => books[w][m] = 0
<1> DEFINE T == TokenPart(before, after, ownerless, {})
           L == LamportPart(before, after, {})
           e == <<w, m>>
<1>0. (\A a \in ownerless : a.owner # w) /\ (w = Payer => ~PayerUnchanged)
  BY DEF Misread
<1>1. Balanced(before) /\ Balanced(after) /\ Booked(before, after, books)
  BY DEF DiffInv
<1>2. Sums(deltas, T, L, Fee)
  BY DEF DiffInv, Added
<1>3. /\ TokenAccount(w, m) \in TokenAccounts /\ TokenAccount(w, m).owner = w
      /\ w \in AccountKeys /\ w \notin TokenAccounts /\ Fee \in Nat
      /\ e \in Entries /\ e[1] = w /\ e[2] = m
  BY AccountsAreDistinct, WalletsAssumption DEF Entries, AccountKeys
<1>4. TokenAccount(w, m) \notin ownerless \cup {}
  BY <1>0, <1>3
<1>5. T[e] = Gained(before, after, w, m)
  BY <1>3, <1>4 DEF TokenPart, Gained
<1>6. L[e] = IF m = SOL_MINT THEN after.lamports[w] - before.lamports[w] ELSE 0
  BY <1>3 DEF LamportPart
<1>7. /\ after.lamports[w] \in Nat /\ before.lamports[w] \in Nat
      /\ Gained(before, after, w, m) \in Int /\ books[w][m] \in Int
  BY <1>1, <1>3, BalancesHaveParts DEF Gained, Booked
<1> HIDE DEF T, L
<1>8. e = <<Payer, SOL_MINT>> <=> w = Payer /\ m = SOL_MINT
  OBVIOUS
<1>9. /\ e \in DOMAIN deltas <=> T[e] # 0 \/ L[e] # 0
      /\ e \in DOMAIN deltas =>
           deltas[e] = T[e] + L[e] + IF w = Payer /\ m = SOL_MINT THEN Fee ELSE 0
  BY <1>2, <1>3, <1>8 DEF Sums
<1>10. books[w][m] = T[e] + L[e] + IF w = Payer /\ m = SOL_MINT THEN Fee ELSE 0
  <2>1. CASE m = SOL_MINT
    <3>1. books[w][SOL_MINT] = Gained(before, after, w, SOL_MINT)
            + (after.lamports[w] - before.lamports[w]) + IF w = Payer THEN Fee ELSE 0
      BY <1>1 DEF Booked
    <3> QED
      BY <1>3, <1>5, <1>6, <1>7, <2>1, <3>1
  <2>2. CASE m # SOL_MINT
    <3>1. m = "T"
      BY <2>2 DEF Mints
    <3>2. books[w]["T"] = Gained(before, after, w, "T")
      BY <1>1 DEF Booked
    <3> QED
      BY <1>5, <1>6, <1>7, <2>2, <3>1, <3>2
  <2> QED
    BY <2>1, <2>2
<1>11. CASE e \in DOMAIN deltas
  BY <1>7, <1>9, <1>10, <1>11
<1>12. CASE e \notin DOMAIN deltas /\ ~(w = Payer /\ m = SOL_MINT)
  BY <1>7, <1>9, <1>10, <1>12
<1>13. CASE e \notin DOMAIN deltas /\ w = Payer /\ m = SOL_MINT
  <2>1. Gained(before, after, Payer, SOL_MINT) = 0
    BY <1>5, <1>9, <1>13
  <2>2. after.lamports[Payer] - before.lamports[Payer] = 0
    BY <1>6, <1>9, <1>13
  <2>3. /\ after.tokens[TokenAccount(w, m)] \in Nat /\ before.tokens[TokenAccount(w, m)] \in Nat
    BY <1>1, <1>3, BalancesHaveParts
  <2>4. /\ after.lamports[Payer] = before.lamports[Payer]
        /\ after.tokens[TokenAccount(Payer, SOL_MINT)]
             = before.tokens[TokenAccount(Payer, SOL_MINT)]
    BY <1>7, <1>13, <2>1, <2>2, <2>3 DEF Gained
  <2> QED
    BY <1>0, <1>13, <2>4 DEF PayerUnchanged
<1> QED
  BY <1>7, <1>11, <1>12, <1>13

LEMMA SumsAreTyped ==
    ASSUME Balanced(before), Balanced(after), NEW hidden, NEW left, NEW lamportsLeft,
           NEW fee \in Nat,
           Sums(deltas, TokenPart(before, after, hidden, left),
                LamportPart(before, after, lamportsLeft), fee)
    PROVE  \A e \in DOMAIN deltas : e \in Entries /\ deltas[e] \in Int
<1> DEFINE T == TokenPart(before, after, hidden, left)
           L == LamportPart(before, after, lamportsLeft)
<1>1. T \in [Entries -> Int] /\ L \in [Entries -> Int]
  BY PartsAreNumbers
<1>2. Sums(deltas, T, L, fee)
  OBVIOUS
<1> HIDE DEF T, L
<1> QED
  BY <1>1, <1>2 DEF Sums

\* Every entry is a number of an owner and a mint.
LEMMA EntriesAreTyped ==
    ASSUME DiffInv
    PROVE  \A e \in DOMAIN deltas : e \in Entries /\ deltas[e] \in Int
<1>1. /\ Balanced(before) /\ Balanced(after) /\ phase \in Phases /\ Added
      /\ Fee \in Nat /\ 0 \in Nat
  BY WalletsAssumption DEF DiffInv
<1>2. CASE phase \in {"execute", "error"}
  BY <1>1, <1>2 DEF Added
<1>3. CASE phase = "tokens"
  BY <1>1, <1>3, SumsAreTyped DEF Added
<1>4. CASE phase = "lamports"
  BY <1>1, <1>4, SumsAreTyped DEF Added
<1>5. CASE phase \in {"cluster", "done"}
  BY <1>1, <1>5, SumsAreTyped DEF Added
<1> QED
  BY <1>1, <1>2, <1>3, <1>4, <1>5 DEF Phases

\* No token account trades: it has entries of lamports only.
LEMMA TradersAreWallets ==
    ASSUME DiffInv, phase = "done", NEW s \in swaps
    PROVE  s.trader \in Wallets
<1>1. PICK o \in Owners : s.trader = o /\ Sold(o) # {} /\ Bought(o) # {}
  BY DEF DiffInv, Clustered
<1> DEFINE lamportsLeft == IF keysKnown THEN {} ELSE AccountKeys
           T == TokenPart(before, after, ownerless, {})
           L == LamportPart(before, after, lamportsLeft)
<1>2. Sums(deltas, T, L, Fee)
  BY DEF DiffInv, Added
<1>3. PICK d \in DOMAIN deltas : d[1] = o /\ deltas[d] < 0
  BY <1>1 DEF Sold
<1>4. PICK e \in DOMAIN deltas : e[1] = o /\ deltas[e] > 0
  BY <1>1 DEF Bought
<1>5. d \in Entries /\ e \in Entries /\ deltas[d] \in Int /\ deltas[e] \in Int
  BY EntriesAreTyped
<1>6. SUFFICES ASSUME o \notin Wallets PROVE FALSE
  BY <1>1
<1>7. T[d] = 0 /\ T[e] = 0
  BY <1>3, <1>4, <1>5, <1>6 DEF TokenPart
<1>8. L[d] # 0 /\ L[e] # 0
  BY <1>2, <1>7 DEF Sums
<1>9. d[2] = SOL_MINT /\ e[2] = SOL_MINT
  BY <1>5, <1>8 DEF LamportPart
<1>10. d = e
  BY <1>3, <1>4, <1>5, <1>9 DEF Entries
<1> QED
  BY <1>3, <1>4, <1>5, <1>10

\* The swaps of a wallet all of whose balances have an owner are what it traded.
LEMMA SwapsOfWallet ==
    ASSUME DiffInv, phase = "done", keysKnown, NEW w \in Wallets, w \notin Misread
    PROVE  {s \in swaps : s.trader = w} = {SwapOf(t) : t \in {w} \cap Traders}
<1>1. \A m \in Mints :
        /\ books[w][m] \in Int
        /\ <<w, m>> \in DOMAIN deltas => deltas[<<w, m>>] = books[w][m]
        /\ <<w, m>> \notin DOMAIN deltas => books[w][m] = 0
  BY EntriesAreBooks
<1>2. \A e \in DOMAIN deltas : e[1] = w => e[2] \in Mints /\ e = <<w, e[2]>>
  BY EntriesAreTyped DEF Entries
<1>3. Sold(w) = {<<m, -books[w][m]>> : m \in {o \in Mints : books[w][o] < 0}}
  <2>1. ASSUME NEW e \in DOMAIN deltas, e[1] = w, deltas[e] < 0
        PROVE  <<e[2], -deltas[e]>> \in {<<m, -books[w][m]>> : m \in {o \in Mints : books[w][o] < 0}}
    <3>1. e[2] \in Mints /\ e = <<w, e[2]>>
      BY <1>2, <2>1
    <3>2. deltas[e] = books[w][e[2]]
      BY <1>1, <3>1
    <3> QED
      BY <2>1, <3>1, <3>2
  <2>2. ASSUME NEW m \in Mints, books[w][m] < 0
        PROVE  <<m, -books[w][m]>> \in Sold(w)
    <3>1. <<w, m>> \in DOMAIN deltas /\ deltas[<<w, m>>] = books[w][m]
      BY <1>1, <2>2
    <3>2. <<w, m>>[1] = w /\ <<w, m>>[2] = m
      OBVIOUS
    <3> QED
      BY <2>2, <3>1, <3>2 DEF Sold
  <2> QED
    BY <2>1, <2>2 DEF Sold
<1>4. Bought(w) = {<<m, books[w][m]>> : m \in {o \in Mints : books[w][o] > 0}}
  <2>1. ASSUME NEW e \in DOMAIN deltas, e[1] = w, deltas[e] > 0
        PROVE  <<e[2], deltas[e]>> \in {<<m, books[w][m]>> : m \in {o \in Mints : books[w][o] > 0}}
    <3>1. e[2] \in Mints /\ e = <<w, e[2]>>
      BY <1>2, <2>1
    <3>2. deltas[e] = books[w][e[2]]
      BY <1>1, <3>1
    <3> QED
      BY <2>1, <3>1, <3>2
  <2>2. ASSUME NEW m \in Mints, books[w][m] > 0
        PROVE  <<m, books[w][m]>> \in Bought(w)
    <3>1. <<w, m>> \in DOMAIN deltas /\ deltas[<<w, m>>] = books[w][m]
      BY <1>1, <2>2
    <3>2. <<w, m>>[1] = w /\ <<w, m>>[2] = m
      OBVIOUS
    <3> QED
      BY <2>2, <3>1, <3>2 DEF Bought
  <2> QED
    BY <2>1, <2>2 DEF Bought
<1>5. w \in Traders <=> Sold(w) # {} /\ Bought(w) # {}
  <2>1. Sold(w) # {} <=> \E m \in Mints : books[w][m] < 0
    BY <1>3
  <2>2. Bought(w) # {} <=> \E m \in Mints : books[w][m] > 0
    BY <1>4
  <2> QED
    BY <2>1, <2>2 DEF Traders
<1>6. (w \in OffCurve \cup TokenAccounts) = (w \in OffCurve)
  BY AccountsAreDistinct
<1> DEFINE swap == [trader |-> w, sold |-> Sold(w), bought |-> Bought(w),
                    is_program_mediated |-> w \in OffCurve \cup TokenAccounts]
<1>7. swap = SwapOf(w) /\ swap.trader = w
  BY <1>3, <1>4, <1>6 DEF SwapOf
<1>8. {s \in swaps : s.trader = w}
        = IF w \in Owners /\ Sold(w) # {} /\ Bought(w) # {} THEN {swap} ELSE {}
  BY DEF DiffInv, Clustered
<1>9. Sold(w) # {} => w \in Owners
  BY DEF Sold, Owners
<1> HIDE DEF swap
<1> QED
  BY <1>5, <1>7, <1>8, <1>9

--------------------------------------------------------------------------------
(* The theorems *)

\* Balances stay numbers, however many payments there are, and the entries and
\* swaps have their types.
THEOREM TypeCorrect == Spec => []TypeOK
<1>1. ASSUME DiffInv
      PROVE  TypeOK
  <2>1. Balanced(before) /\ Balanced(after) /\ phase \in Phases
    BY <1>1 DEF DiffInv
  <2>2. before.open \subseteq TokenAccounts /\ after.open \subseteq TokenAccounts
    BY <2>1, BalancesHaveParts
  <2>3. \A b \in {before, after} :
          /\ \A k \in AccountKeys : b.lamports[k] \in Nat
          /\ \A a \in TokenAccounts : b.tokens[a] \in Nat
    BY <2>1, BalancesHaveParts
  <2>4. \A e \in DOMAIN deltas : e \in AccountKeys \X Mints /\ deltas[e] \in Int
    BY <1>1, EntriesAreTyped DEF Entries
  <2>5. ASSUME NEW s \in swaps
        PROVE  /\ s.trader \in AccountKeys /\ s.is_program_mediated \in BOOLEAN
               /\ \A side \in s.sold \cup s.bought : side \in Mints \X (Nat \ {0})
    <3>1. PICK o \in Owners :
            s = [trader |-> o, sold |-> Sold(o), bought |-> Bought(o),
                 is_program_mediated |-> o \in OffCurve \cup TokenAccounts]
      BY <1>1 DEF DiffInv, Clustered
    <3>2. o \in AccountKeys
      BY <2>4 DEF Owners
    <3>3. \A e \in DOMAIN deltas : e[2] \in Mints /\ deltas[e] \in Int
      BY <2>4
    <3>4. \A side \in Sold(o) : side \in Mints \X (Nat \ {0})
      BY <3>3 DEF Sold
    <3>5. \A side \in Bought(o) : side \in Mints \X (Nat \ {0})
      BY <3>3 DEF Bought
    <3> QED
      BY <3>1, <3>2, <3>4, <3>5
  <2> QED
    BY <2>1, <2>2, <2>3, <2>4, <2>5 DEF TypeOK, Phases
<1> QED
  BY <1>1, InvHolds, PTL

\* Whatever a transaction does and whichever balances the node reports without an
\* owner, the swaps found for every other key are exactly what it traded: as long
\* as the loaded addresses are known, and but for the payer when a movement of its
\* SOL is exactly the fee.
THEOREM OnlyOwnersAreHidden == Spec => []OwnerlessHidesOnlyItsOwner
<1>1. ASSUME DiffInv, phase = "done", keysKnown
      PROVE  {s \in swaps : s.trader \notin Misread} = {SwapOf(w) : w \in Traders \ Misread}
  <2>1. \A w \in Wallets \ Misread :
          {s \in swaps : s.trader = w} = {SwapOf(t) : t \in {w} \cap Traders}
    BY <1>1, SwapsOfWallet
  <2>2. \A s \in swaps : s.trader \in Wallets
    BY <1>1, TradersAreWallets
  <2>3. \A w \in Traders : w \in Wallets /\ SwapOf(w).trader = w
    BY DEF Traders, SwapOf
  <2> HIDE DEF Misread
  <2> QED
    BY <2>1, <2>2, <2>3
<1> QED
  BY <1>1, InvHolds, PTL DEF OwnerlessHidesOnlyItsOwner

\* With all balances reported, the swaps are the trades, no more and no less,
\* for any number of wallets, payments and amounts.
THEOREM SwapsFound == Spec => []SwapsAreTrades
<1>1. ASSUME DiffInv, phase = "done", Complete, ~PayerUnchanged
      PROVE  swaps = {SwapOf(w) : w \in Traders}
  <2>1. ownerless = {} /\ keysKnown
    BY <1>1 DEF Complete
  <2>2. \A w \in Wallets : {s \in swaps : s.trader = w} = {SwapOf(t) : t \in {w} \cap Traders}
    BY <1>1, <2>1, SwapsOfWallet DEF Misread
  <2>3. \A s \in swaps : s.trader \in Wallets
    BY <1>1, TradersAreWallets
  <2>4. \A w \in Traders : w \in Wallets
    BY DEF Traders
  <2> QED
    BY <2>2, <2>3, <2>4
<1> QED
  BY <1>1, InvHolds, PTL DEF SwapsAreTrades
================================================================================
