---------------------------- MODULE SwapInfoProofs ----------------------------
(***************************************************************************)
(* SwapInfo for any number of swaps and any amounts that fit a u64.         *)
(***************************************************************************)
EXTENDS SwapInfo, ProofLemmas, TLAPS

--------------------------------------------------------------------------------
(* Sums *)

LEMMA TotalUnfolds ==
    ASSUME NEW s \in Seq(Int)
    PROVE  /\ Total(s) \in Int
           /\ Len(s) = 0 => Total(s) = 0
           /\ Len(s) = 1 => Total(s) = s[1]
           /\ Len(s) = 2 => Total(s) = s[1] + s[2]
           /\ Len(s) = 3 => Total(s) = s[1] + s[2] + s[3]
<1> DEFINE Def(f) == f = [k \in 0 .. Len(s) |-> IF k = 0 THEN 0 ELSE f[k - 1] + s[k]]
           sum == CHOOSE f : Def(f)
<1>1. Total(s) = sum[Len(s)]
  BY DEF Total
<1>2. Def(sum)
  <2>1. \E f : Def(f)
    BY PartialSums
  <2> HIDE DEF Def
  <2> QED
    BY <2>1
<1> HIDE DEF sum
<1>3. Len(s) \in Nat /\ \A k \in 1 .. Len(s) : s[k] \in Int
  OBVIOUS
<1>4. sum[0] = 0 /\ \A k \in 1 .. Len(s) : sum[k] = sum[k - 1] + s[k]
  <2>1. sum[0] = 0
    BY <1>2, <1>3
  <2>2. ASSUME NEW k \in 1 .. Len(s) PROVE sum[k] = sum[k - 1] + s[k]
    <3>1. k \in 0 .. Len(s) /\ k # 0
      BY <1>3
    <3> QED
      BY <1>2, <3>1
  <2> QED
    BY <2>1, <2>2
<1>5. \A k \in 0 .. Len(s) : sum[k] \in Int
  <2> DEFINE Bad == {k \in 0 .. Len(s) : sum[k] \notin Int}
  <2>1. Bad \in SUBSET Nat
    BY <1>3
  <2> SUFFICES ASSUME Bad # {} PROVE FALSE
    OBVIOUS
  <2> HIDE DEF Bad
  <2>2. PICK k \in Bad : \A o \in Bad : k <= o
    BY <2>1, LeastNumber
  <2> USE DEF Bad
  <2>3. k \in 1 .. Len(s) /\ ~(k <= k - 1) /\ k - 1 \in 0 .. Len(s)
    BY <1>3, <1>4, <2>2
  <2>4. sum[k - 1] \in Int /\ s[k] \in Int /\ sum[k] \notin Int
    BY <1>3, <2>2, <2>3
  <2>5. sum[k] = sum[k - 1] + s[k]
    BY <1>4, <2>3
  <2> QED
    BY <2>4, <2>5
<1>6. Len(s) = 1 => Total(s) = s[1]
  BY <1>1, <1>3, <1>4
<1>7. Len(s) = 2 => Total(s) = s[1] + s[2]
  <2> SUFFICES ASSUME Len(s) = 2 PROVE sum[2] = s[1] + s[2]
    BY <1>1
  <2>1. sum[1] = sum[0] + s[1] /\ sum[2] = sum[1] + s[2]
    BY <1>4
  <2> QED
    BY <1>3, <1>4, <2>1
<1>8. Len(s) = 3 => Total(s) = s[1] + s[2] + s[3]
  <2> SUFFICES ASSUME Len(s) = 3 PROVE sum[3] = s[1] + s[2] + s[3]
    BY <1>1
  <2>1. sum[1] = sum[0] + s[1] /\ sum[2] = sum[1] + s[2] /\ sum[3] = sum[2] + s[3]
    BY <1>4
  <2> QED
    BY <1>3, <1>4, <2>1
<1> QED
  BY <1>1, <1>3, <1>4, <1>5, <1>6, <1>7, <1>8

--------------------------------------------------------------------------------
(* Transfers and the largest of some *)

Amounts == 0 .. U64Size - 1
Accounts == [owner : Owners \cup {"fees"}, token : Tokens]
Transfers == [source : Accounts, destination : Accounts, signer : Owners, amount : Amounts]

LEMMA Sizes == U64Size \in Nat /\ MaxI64 \in Nat /\ U64Size = 2 * MaxI64 + 2 /\ Amounts \subseteq Nat
BY AmountsAssumption DEF U64Size, Amounts

\* find_leg finds a largest transfer if there is any of the accounts.
LEMMA LegFound ==
    ASSUME NEW ts \in Seq(Transfers), NEW side, NEW accounts,
           NEW legs, legs = {k \in DOMAIN ts : AccountOf(side, ts[k]) \in accounts}
    PROVE  /\ legs = {} => FindLeg(ts, side, accounts) = 0
           /\ legs # {} =>
                /\ FindLeg(ts, side, accounts) \in legs
                /\ \A o \in legs : ts[o].amount <= ts[FindLeg(ts, side, accounts)].amount
<1>1. legs = {} => FindLeg(ts, side, accounts) = 0
  BY DEF FindLeg
<1>2. ASSUME legs # {}
      PROVE  /\ FindLeg(ts, side, accounts) \in legs
             /\ \A o \in legs : ts[o].amount <= ts[FindLeg(ts, side, accounts)].amount
  <2> DEFINE Last(k) == \A o \in legs : \/ ts[o].amount < ts[k].amount
                                        \/ ts[o].amount = ts[k].amount /\ o <= k
  <2>1. \A k \in legs : k \in 1 .. Len(ts) /\ ts[k].amount \in Amounts
    <3>1. \A k \in legs : k \in 1 .. Len(ts) /\ ts[k] \in Transfers
      OBVIOUS
    <3>2. \A t \in Transfers : t.amount \in Amounts
      BY DEF Transfers
    <3> QED
      BY <3>1, <3>2
  <2>2. Len(ts) \in Nat /\ legs \subseteq 1 .. Len(ts)
    BY <2>1
  <2>3. PICK best \in {ts[k].amount : k \in legs} : \A o \in {ts[k].amount : k \in legs} : o <= best
    <3> DEFINE S == {ts[k].amount : k \in legs}
    <3>1. U64Size - 1 \in Nat
      BY Sizes, AmountsAssumption
    <3>2. S \in SUBSET (0 .. U64Size - 1) /\ S # {}
      BY <1>2, <2>1 DEF Amounts
    <3> HIDE DEF S
    <3>3. \E m \in S : \A o \in S : o <= m
      BY <3>1, <3>2, LargestNumber
    <3> QED
      BY <3>3 DEF S
  <2>4. PICK k \in {l \in legs : ts[l].amount = best} : \A o \in {l \in legs : ts[l].amount = best} : o <= k
    <3> DEFINE S == {l \in legs : ts[l].amount = best}
    <3>1. S \in SUBSET (0 .. Len(ts)) /\ S # {}
      BY <2>2, <2>3
    <3> HIDE DEF S
    <3>2. \E m \in S : \A o \in S : o <= m
      BY <2>2, <3>1, LargestNumber
    <3> QED
      BY <3>2 DEF S
  <2>5. \A o \in legs : ts[o].amount \in Nat /\ ts[o].amount <= best
    BY <2>1, <2>3, Sizes
  <2>6. k \in legs /\ Last(k)
    BY <2>4, <2>5
  <2>7. FindLeg(ts, side, accounts) = CHOOSE l \in legs : Last(l)
    BY <1>2 DEF FindLeg
  <2>8. FindLeg(ts, side, accounts) \in legs /\ Last(FindLeg(ts, side, accounts))
    <3> HIDE DEF Last
    <3> QED
      BY <2>6, <2>7
  <2>9. \A o \in legs : ts[o].amount <= ts[FindLeg(ts, side, accounts)].amount
    BY <2>5, <2>8
  <2> QED
    BY <2>8, <2>9
<1> QED
  BY <1>1, <1>2

--------------------------------------------------------------------------------
(* Executed swaps *)

Executed == [input : Tokens, in : Amounts, out : Amounts, fee : Amounts, transfers : Seq(Transfers)]

Pay(trade) == Transfer("user", "pool", trade.input, trade.in)
Get(trade) == Transfer("pool", "user", Other(trade.input), trade.out)

\* Of these transfers two are x and y, and the others fees.
PairAmong(ts, x, y, fees) ==
    \E i, j \in DOMAIN ts :
       /\ i # j /\ ts[i] = x /\ ts[j] = y
       /\ \A k \in DOMAIN ts \ {i, j} : ts[k] \in fees

\* x and y with one fee at most
FeeAtMost(ts, x, y, fees) == ts = <<x, y>> \/ \E f \in fees : ts \in WithFee(<<x, y>>, f)

\* A swap is a payment and a payout, in either order, with one fee at most.
Shaped(trade) ==
    /\ Len(trade.transfers) \in {2, 3}
    /\ PairAmong(trade.transfers, Pay(trade), Get(trade), Fees(trade.fee))

\* The places of a pair among the transfers, wherever the fee is.
LEMMA PairWithFee ==
    ASSUME NEW T, NEW x \in T, NEW y \in T, NEW fees \in SUBSET T,
           NEW ts, FeeAtMost(ts, x, y, fees)
    PROVE  ts \in Seq(T) /\ Len(ts) \in {2, 3} /\ PairAmong(ts, x, y, fees)
<1> DEFINE Placed(i, j) ==
              /\ ts \in Seq(T) /\ Len(ts) \in {2, 3}
              /\ i \in DOMAIN ts /\ j \in DOMAIN ts
              /\ i # j /\ ts[i] = x /\ ts[j] = y
              /\ \A k \in DOMAIN ts \ {i, j} : ts[k] \in fees
<1>1. ASSUME ts = <<x, y>> PROVE \E i, j : Placed(i, j)
  <2>1. Placed(1, 2)
    BY <1>1
  <2> QED
    BY <2>1
<1>2. ASSUME NEW f \in fees, ts \in WithFee(<<x, y>>, f) PROVE \E i, j : Placed(i, j)
  <2>1. <<f>> \o <<x, y>> = <<f, x, y>> /\ <<x, y>> \o <<f>> = <<x, y, f>>
    <3>1. <<f>> \in Seq(T) /\ <<x, y>> \in Seq(T) /\ <<f, x, y>> \in Seq(T) /\ <<x, y, f>> \in Seq(T)
      OBVIOUS
    <3> DEFINE a == <<f>> \o <<x, y>>
               b == <<x, y>> \o <<f>>
    <3>2. a \in Seq(T) /\ Len(a) = 3 /\ a[1] = f /\ a[2] = x /\ a[3] = y
      BY <3>1
    <3>3. b \in Seq(T) /\ Len(b) = 3 /\ b[1] = x /\ b[2] = y /\ b[3] = f
      BY <3>1
    <3> HIDE DEF a, b
    <3>4. a = <<f, x, y>>
      BY <3>1, <3>2
    <3>5. b = <<x, y, f>>
      BY <3>1, <3>3
    <3> QED
      BY <3>4, <3>5 DEF a, b
  <2>2. ts = <<f, x, y>> \/ ts = <<x, f, y>> \/ ts = <<x, y, f>>
    BY <1>2, <2>1 DEF WithFee
  <2>3. CASE ts = <<f, x, y>>
    <3>1. Placed(2, 3)
      BY <2>3
    <3> QED
      BY <3>1
  <2>4. CASE ts = <<x, f, y>>
    <3>1. Placed(1, 3)
      BY <2>4
    <3> QED
      BY <3>1
  <2>5. CASE ts = <<x, y, f>>
    <3>1. Placed(1, 2)
      BY <2>5
    <3> QED
      BY <3>1
  <2> QED
    BY <2>2, <2>3, <2>4, <2>5
<1>3. \E i, j : Placed(i, j)
  <2> HIDE DEF Placed
  <2> QED
    BY <1>1, <1>2 DEF FeeAtMost
<1> QED
  BY <1>3 DEF PairAmong

LEMMA ShapedTrades ==
    ASSUME NEW input \in Tokens, NEW in \in Amounts, NEW out \in Amounts, NEW fee \in Amounts,
           NEW pair \in Pays(input, in, out),
           NEW ts \in {pair} \cup UNION {WithFee(pair, f) : f \in Fees(fee)},
           NEW trade, trade = [input |-> input, in |-> in, out |-> out, fee |-> fee, transfers |-> ts]
    PROVE  trade \in Executed /\ Shaped(trade)
<1> DEFINE pay == Transfer("user", "pool", input, in)
           get == Transfer("pool", "user", Other(input), out)
<1>1. pair = <<pay, get>> \/ pair = <<get, pay>>
  BY DEF Pays
<1>2. pay \in Transfers /\ get \in Transfers /\ Fees(fee) \in SUBSET Transfers
  BY DEF Transfer, Transfers, Accounts, Account, Other, Tokens, Owners, Fees
<1>3. pay = Pay(trade) /\ get = Get(trade) /\ trade.transfers = ts /\ trade.fee = fee
  BY DEF Pay, Get
<1> HIDE DEF pay, get
<1>4. ts \in Seq(Transfers) /\ Len(ts) \in {2, 3} /\ PairAmong(ts, pay, get, Fees(fee))
  <2>1. CASE pair = <<pay, get>>
    <3>1. FeeAtMost(ts, pay, get, Fees(fee))
      BY <2>1 DEF FeeAtMost
    <3> QED
      BY <1>2, <3>1, PairWithFee
  <2>2. CASE pair = <<get, pay>>
    <3>1. FeeAtMost(ts, get, pay, Fees(fee))
      BY <2>2 DEF FeeAtMost
    <3>2. ts \in Seq(Transfers) /\ Len(ts) \in {2, 3} /\ PairAmong(ts, get, pay, Fees(fee))
      BY <1>2, <3>1, PairWithFee
    <3>3. PairAmong(ts, pay, get, Fees(fee))
      <4> HIDE DEF pay, get
      <4> QED
        BY <3>2 DEF PairAmong
    <3> QED
      BY <3>2, <3>3
  <2> QED
    BY <1>1, <2>1, <2>2
<1>5. trade \in Executed
  BY <1>4 DEF Executed
<1>6. Shaped(trade)
  BY <1>3, <1>4 DEF Shaped
<1> QED
  BY <1>5, <1>6

--------------------------------------------------------------------------------
(* The inductive invariant *)

\* What was read is what the transfers and the balances give.
SwapInv ==
    /\ trades \in Seq(Executed) /\ Len(trades) <= MaxTrades
    /\ \A n \in DOMAIN trades : Shaped(trades[n])
    /\ Covered
    /\ isPool \in BOOLEAN /\ balances \in BOOLEAN /\ ordered \in BOOLEAN
    /\ infos \in Seq(Elements(infos)) /\ Len(infos) <= Len(trades)
    /\ \A n \in DOMAIN infos : infos[n] = FromTransfers(trades[n].transfers)
    /\ phase \in {"execute", "parse", "done"}
    /\ phase = "execute" => infos = <<>>
    /\ phase # "done" => net = NotFound
    /\ phase = "done" =>
         /\ Len(infos) = Len(trades)
         /\ \/ net = Overflowed
            \/ \E x \in Seen("a"), y \in Seen("b") : net = FromBalanceDiff([a |-> x, b |-> y])

LEMMA InvInit == Init => SwapInv
<1> SUFFICES ASSUME Init PROVE SwapInv
  OBVIOUS
<1>1. Covered
  <2> SUFFICES ASSUME NEW o \in Owners, NEW t \in Tokens PROVE Reserve(o) + Change(o, t) >= 0
    BY DEF Covered
  <2>1. [n \in DOMAIN trades |-> Moved(Account(o, t), trades[n].transfers)] = <<>>
    BY DEF Init
  <2>2. Change(o, t) = Total(<<>>)
    BY <2>1 DEF Change
  <2>3. <<>> \in Seq(Int) /\ Len(<<>>) = 0
    OBVIOUS
  <2>4. Change(o, t) = 0
    BY <2>2, <2>3, TotalUnfolds
  <2> QED
    BY <2>4, AmountsAssumption DEF Reserve
<1>2. trades = <<>> /\ infos = <<>> /\ MaxTrades \in Nat
  BY AmountsAssumption DEF Init
<1> QED
  BY <1>1, <1>2 DEF SwapInv, Init

LEMMA InvNext == SwapInv /\ [Next]_vars => SwapInv'
<1> SUFFICES ASSUME SwapInv, [Next]_vars PROVE SwapInv'
  OBVIOUS
<1>1. ASSUME trades' = trades PROVE \A o, t : Change(o, t)' = Change(o, t)
  BY <1>1 DEF Change
<1>2. ASSUME isPool' = isPool, balances' = balances
      PROVE  \A ts : FromTransfers(ts)' = FromTransfers(ts)
  BY <1>2 DEF FromTransfers
<1>3. ASSUME trades' = trades, isPool' = isPool, ordered' = ordered
      PROVE  /\ Covered' = Covered
             /\ \A t : Seen(t)' = Seen(t)
  <2>1. Own' = Own
    BY <1>3 DEF Own
  <2> QED
    BY <1>1, <1>3, <2>1 DEF Covered, Seen, Trips
<1>4. CASE Trade
  <2>1. PICK input \in Tokens, in \in InAmounts, out \in OutAmounts, fee \in FeeAmounts :
          \E pair \in Pays(input, in, out) :
            \E ts \in {pair} \cup UNION {WithFee(pair, f) : f \in Fees(fee)} :
              trades' = Append(trades, [input |-> input, in |-> in, out |-> out,
                                        fee |-> fee, transfers |-> ts])
    BY <1>4 DEF Trade
  <2>2. in \in Amounts /\ out \in Amounts /\ fee \in Amounts
    BY AmountsAssumption DEF Amounts
  <2>3. PICK pair \in Pays(input, in, out) :
          \E ts \in {pair} \cup UNION {WithFee(pair, f) : f \in Fees(fee)} :
            trades' = Append(trades, [input |-> input, in |-> in, out |-> out,
                                      fee |-> fee, transfers |-> ts])
    BY <2>1
  <2>4. PICK ts \in {pair} \cup UNION {WithFee(pair, f) : f \in Fees(fee)} :
          trades' = Append(trades, [input |-> input, in |-> in, out |-> out,
                                    fee |-> fee, transfers |-> ts])
    BY <2>3
  <2>5. PICK trade : trade = [input |-> input, in |-> in, out |-> out, fee |-> fee, transfers |-> ts]
    OBVIOUS
  <2>6. trade \in Executed /\ Shaped(trade)
    BY <2>2, <2>5, ShapedTrades
  <2>7. trades' = Append(trades, trade) /\ Len(trades) < MaxTrades /\ MaxTrades \in Nat
    BY <1>4, <2>4, <2>5, AmountsAssumption DEF Trade
  <2>8. trades' \in Seq(Executed) /\ Len(trades') <= MaxTrades /\ \A n \in DOMAIN trades' : Shaped(trades'[n])
    BY <2>6, <2>7 DEF SwapInv
  <2>9. phase = "execute" /\ infos = <<>> /\ infos' = <<>> /\ phase' = "execute" /\ net' = net /\ Covered'
        /\ isPool' = isPool /\ balances' = balances /\ ordered' = ordered
    BY <1>4 DEF Trade, SwapInv
  <2>10. infos' \in Seq(Elements(infos')) /\ Len(infos') <= Len(trades')
    BY <2>8, <2>9
  <2> QED
    BY <2>8, <2>9, <2>10 DEF SwapInv, Shaped, Elements
<1>5. CASE StartParse
  <2>1. UNCHANGED <<trades, isPool, balances, ordered, infos, net>> /\ phase = "execute" /\ phase' = "parse"
    BY <1>5 DEF StartParse
  <2> QED
    BY <1>2, <1>3, <2>1 DEF SwapInv, Elements
<1>6. CASE ReadTransfers
  <2>1. PICK a : a = FromTransfers(trades[Len(infos) + 1].transfers)
    OBVIOUS
  <2>2. infos' = Append(infos, a) /\ Len(infos) < Len(trades) /\ phase = "parse"
        /\ UNCHANGED <<trades, isPool, balances, ordered, net, phase>>
    BY <1>6, <2>1 DEF ReadTransfers
  <2>3. infos \in Seq(Elements(infos)) /\ Len(trades) \in Nat /\ Len(infos) \in Nat
    BY DEF SwapInv
  <2>4. /\ infos' \in Seq(Elements(infos'))
        /\ Len(infos') = Len(infos) + 1
        /\ DOMAIN infos' = DOMAIN infos \cup {Len(infos) + 1}
        /\ \A n \in DOMAIN infos : infos'[n] = infos[n]
        /\ infos'[Len(infos) + 1] = a
    BY <2>2, <2>3, AppendedElements
  <2>5. \A n \in DOMAIN infos' : infos'[n] = FromTransfers(trades[n].transfers)
    BY <2>1, <2>4 DEF SwapInv
  <2>6. (\A n \in DOMAIN infos : infos[n] = FromTransfers(trades[n].transfers))'
    BY <1>2, <2>2, <2>5
  <2> QED
    BY <1>3, <2>2, <2>3, <2>4, <2>6 DEF SwapInv, Elements
<1>7. CASE ReadBalances
  <2>1. UNCHANGED <<trades, isPool, balances, ordered, infos>> /\ phase = "parse" /\ phase' = "done"
        /\ Len(infos) = Len(trades)
    BY <1>7 DEF ReadBalances
  <2>2. \A read : FromBalanceDiff(read)' = FromBalanceDiff(read)
    BY <2>1 DEF FromBalanceDiff
  <2>3. \E x \in Seen("a"), y \in Seen("b") : net' = FromBalanceDiff([a |-> x, b |-> y])
    BY <1>7 DEF ReadBalances
  <2>4. (\E x \in Seen("a"), y \in Seen("b") : net = FromBalanceDiff([a |-> x, b |-> y]))'
    BY <1>3, <2>1, <2>2, <2>3
  <2> QED
    BY <1>2, <1>3, <2>1, <2>4 DEF SwapInv, Elements
<1>9. CASE PowOverflows
  <2>1. /\ UNCHANGED <<trades, isPool, balances, ordered, infos>> /\ phase' = "done"
        /\ Len(infos) = Len(trades) /\ net' = Overflowed
    BY <1>9 DEF PowOverflows
  <2> QED
    BY <1>2, <1>3, <2>1 DEF SwapInv, Elements, Overflowed
<1>8. CASE UNCHANGED vars
  <2>1. \A r : FromBalanceDiff(r)' = FromBalanceDiff(r)
    BY <1>8 DEF FromBalanceDiff, vars
  <2> QED
    BY <1>2, <1>3, <1>8, <2>1 DEF SwapInv, Elements, vars
<1> QED
  BY <1>4, <1>5, <1>6, <1>7, <1>8, <1>9 DEF Next, Ended

LEMMA Invariant == Spec => []SwapInv
BY InvInit, InvNext, PTL DEF Spec

--------------------------------------------------------------------------------
(* What the transfers of a swap are read as *)

\* A position found is one of the transfers'.
LEMMA LegIsThere ==
    ASSUME NEW ts \in Seq(Transfers), NEW side, NEW accounts, FindLeg(ts, side, accounts) # 0
    PROVE  FindLeg(ts, side, accounts) \in DOMAIN ts
<1> DEFINE legs == {k \in DOMAIN ts : AccountOf(side, ts[k]) \in accounts}
<1>1. \E l : l = legs
  OBVIOUS
<1> HIDE DEF legs
<1>2. PICK l : l = legs
  BY <1>1
<1>3. l = {k \in DOMAIN ts : AccountOf(side, ts[k]) \in accounts}
  BY <1>2 DEF legs
<1>4. l # {} /\ FindLeg(ts, side, accounts) \in l
  BY <1>3, LegFound
<1> QED
  BY <1>3, <1>4

LEMMA InfoTyped ==
    ASSUME NEW ts \in Seq(Transfers)
    PROVE  FromTransfers(ts) \in Infos \cup {NotFound, Failed}
<1> DEFINE accounts == {Account(IF isPool THEN "pool" ELSE "user", t) : t \in Tokens}
           userSide == ForUserLeg(isPool)
           mine == FindLeg(ts, userSide, accounts)
           account == AccountOf(userSide, ts[mine])
           counterpart == {Account(account.owner, Other(account.token))}
           theirs == FindLeg(ts, Opposite(userSide), counterpart)
<1>1. SUFFICES ASSUME mine # 0, theirs # 0
      PROVE  Info(account.token, ts[theirs].source.token,
                  AsI64Abs(ts[mine].amount), AsI64Abs(ts[theirs].amount)) \in Infos
  BY DEF FromTransfers
<1>2. mine \in DOMAIN ts /\ theirs \in DOMAIN ts
  <2>1. mine \in DOMAIN ts
    <3> HIDE DEF userSide, accounts
    <3> QED
      BY <1>1, LegIsThere
  <2>2. theirs \in DOMAIN ts
    <3> HIDE DEF userSide, counterpart
    <3> QED
      BY <1>1, LegIsThere
  <2> QED
    BY <2>1, <2>2
<1>3. ts[mine] \in Transfers /\ ts[theirs] \in Transfers
  <2> HIDE DEF mine, theirs
  <2> QED
    BY <1>2
<1> HIDE DEF mine, theirs
<1>4. ts[mine].amount \in Amounts /\ ts[theirs].amount \in Amounts
  BY <1>3 DEF Transfers
<1>5. \A n \in Amounts : AsI64Abs(n) \in 0 .. U64Size
  BY Sizes DEF Amounts, AsI64Abs
<1>6. account \in Accounts /\ ts[theirs].source \in Accounts
  BY <1>3 DEF Transfers, AccountOf
<1>7. account.token \in Tokens /\ ts[theirs].source.token \in Tokens
  BY <1>6 DEF Accounts
<1> HIDE DEF account
<1> QED
  BY <1>4, <1>5, <1>7 DEF Info, Infos

\* A swap whose fee is small is read as it was executed.
LEMMA TradeRead ==
    ASSUME NEW trade \in Executed, Shaped(trade), FeeIsSmall(trade), balances, isPool \in BOOLEAN
    PROVE  FromTransfers(trade.transfers) =
               Info(trade.input, Other(trade.input), AsI64Abs(trade.in), AsI64Abs(trade.out))
<1> DEFINE ts == trade.transfers
           pay == Pay(trade)
           get == Get(trade)
           accounts == {Account(IF isPool THEN "pool" ELSE "user", t) : t \in Tokens}
           userSide == ForUserLeg(isPool)
           mine == FindLeg(ts, userSide, accounts)
           account == AccountOf(userSide, ts[mine])
           counterpart == {Account(account.owner, Other(account.token))}
           theirs == FindLeg(ts, Opposite(userSide), counterpart)
<1>1. /\ ts \in Seq(Transfers) /\ Len(ts) >= 2 /\ Len(ts) \in Nat
      /\ trade.input \in Tokens /\ trade.in \in Nat /\ trade.out \in Nat /\ trade.fee \in Nat
      /\ trade.fee < trade.in /\ trade.fee < trade.out
  <2>1. ts \in Seq(Transfers) /\ Len(ts) \in {2, 3}
    BY DEF Executed, Shaped
  <2>2. trade.in \in Amounts /\ trade.out \in Amounts /\ trade.fee \in Amounts /\ trade.input \in Tokens
    BY DEF Executed
  <2>3. trade.in \in Nat /\ trade.out \in Nat /\ trade.fee \in Nat
    BY <2>2, Sizes
  <2>4. Len(ts) >= 2 /\ Len(ts) \in Nat
    BY <2>1
  <2>5. trade.fee < trade.in /\ trade.fee < trade.out
    BY DEF FeeIsSmall
  <2> QED
    BY <2>1, <2>2, <2>3, <2>4, <2>5
<1>2. PICK i \in DOMAIN ts, j \in DOMAIN ts :
          /\ i # j /\ ts[i] = pay /\ ts[j] = get
          /\ \A k \in DOMAIN ts \ {i, j} : ts[k] \in Fees(trade.fee)
  BY DEF Shaped, PairAmong
<1>3. /\ pay.source = Account("user", trade.input) /\ pay.destination = Account("pool", trade.input)
      /\ pay.signer = "user" /\ pay.amount = trade.in
      /\ get.source = Account("pool", Other(trade.input)) /\ get.destination = Account("user", Other(trade.input))
      /\ get.amount = trade.out
  BY DEF Pay, Get, Transfer
<1>4. \A f \in Fees(trade.fee) :
         /\ f.amount = trade.fee
         /\ \E t \in Tokens : f.destination = Account("fees", t)
         /\ \E o \in Owners, t \in Tokens : f.source = Account(o, t)
  BY DEF Fees, Transfer
<1>5. \A o, p, t, u : Account(o, t) = Account(p, u) => o = p /\ t = u
  BY DEF Account
<1>6. \A t \in Tokens : Other(t) \in Tokens /\ Other(t) # t /\ Other(Other(t)) = t
  BY DEF Tokens, Other
<1>7. mine = i
  <2>1. PICK legs : legs = {k \in DOMAIN ts : AccountOf(userSide, ts[k]) \in accounts}
    OBVIOUS
  <2>2. /\ i \in legs /\ j \notin legs
        /\ \A k \in legs : k # i => ts[k].amount < ts[i].amount
    <3>1. CASE isPool
      <4>1. \A k \in DOMAIN ts : k \in legs <=> \E t \in Tokens : ts[k].destination = Account("pool", t)
        BY <2>1, <3>1 DEF AccountOf, ForUserLeg
      <4>2. i \in legs /\ j \notin legs
        BY <1>1, <1>2, <1>3, <1>5, <4>1
      <4>3. \A k \in legs : k = i
        BY <1>2, <1>4, <1>5, <2>1, <4>1, <4>2
      <4> QED
        BY <4>2, <4>3
    <3>2. CASE ~isPool
      <4>1. \A k \in DOMAIN ts : k \in legs <=> \E t \in Tokens : ts[k].source = Account("user", t)
        BY <2>1, <3>2 DEF AccountOf, ForUserLeg
      <4>2. i \in legs /\ j \notin legs
        BY <1>1, <1>2, <1>3, <1>5, <4>1
      <4>3. \A k \in legs : k # i => ts[k].amount < ts[i].amount
        <5>1. \A k \in legs : k # i => ts[k] \in Fees(trade.fee)
          BY <1>2, <2>1, <4>2
        <5> QED
          BY <1>1, <1>2, <1>3, <1>4, <5>1
      <4> QED
        BY <4>2, <4>3
    <3> QED
      BY <3>1, <3>2
  <2>3. mine \in legs /\ \A o \in legs : ts[o].amount <= ts[mine].amount
    <3> HIDE DEF userSide, accounts
    <3> QED
      BY <1>1, <2>1, <2>2, LegFound
  <2>4. ts[i].amount <= ts[mine].amount /\ (mine # i => ts[mine].amount < ts[i].amount)
    BY <2>2, <2>3
  <2>5. ts[i].amount \in Nat /\ ts[mine].amount \in Nat
    <3>1. \A k \in legs : ts[k] \in Transfers
      BY <1>1, <2>1
    <3>2. \A t \in Transfers : t.amount \in Nat
      BY Sizes DEF Transfers
    <3> QED
      BY <2>2, <2>3, <3>1, <3>2
  <2> QED
    BY <2>4, <2>5
<1>8. account = Account(IF isPool THEN "pool" ELSE "user", trade.input)
  <2> HIDE DEF mine
  <2> QED
    BY <1>2, <1>3, <1>7 DEF AccountOf, ForUserLeg
<1>9. counterpart = {Account(IF isPool THEN "pool" ELSE "user", Other(trade.input))}
  <2> HIDE DEF account
  <2> QED
    BY <1>8 DEF Account
<1>10. theirs = j
  <2> HIDE DEF mine, account, counterpart
  <2>1. PICK legs : legs = {k \in DOMAIN ts : AccountOf(Opposite(userSide), ts[k]) \in counterpart}
    OBVIOUS
  <2>2. /\ j \in legs /\ i \notin legs
        /\ \A k \in legs : k # j => ts[k].amount < ts[j].amount
    <3>1. CASE isPool
      <4>1. \A k \in DOMAIN ts : k \in legs <=> ts[k].source = Account("pool", Other(trade.input))
        BY <1>9, <2>1, <3>1 DEF AccountOf, ForUserLeg, Opposite
      <4>2. j \in legs /\ i \notin legs
        BY <1>1, <1>2, <1>3, <1>5, <4>1
      <4>3. \A k \in legs : k # j => ts[k] \in Fees(trade.fee)
        BY <1>2, <2>1, <4>2
      <4> QED
        BY <1>1, <1>2, <1>3, <1>4, <4>2, <4>3
    <3>2. CASE ~isPool
      <4>1. \A k \in DOMAIN ts : k \in legs <=> ts[k].destination = Account("user", Other(trade.input))
        BY <1>9, <2>1, <3>2 DEF AccountOf, ForUserLeg, Opposite
      <4>2. j \in legs /\ i \notin legs
        BY <1>1, <1>2, <1>3, <1>5, <4>1
      <4>3. \A k \in legs : k = j
        BY <1>2, <1>4, <1>5, <2>1, <4>1, <4>2
      <4> QED
        BY <4>2, <4>3
    <3> QED
      BY <3>1, <3>2
  <2>3. theirs \in legs /\ \A o \in legs : ts[o].amount <= ts[theirs].amount
    <3> HIDE DEF userSide
    <3> QED
      BY <1>1, <2>1, <2>2, LegFound
  <2>4. ts[j].amount <= ts[theirs].amount /\ (theirs # j => ts[theirs].amount < ts[j].amount)
    BY <2>2, <2>3
  <2>5. ts[j].amount \in Nat /\ ts[theirs].amount \in Nat
    <3>1. \A k \in legs : ts[k] \in Transfers
      BY <1>1, <2>1
    <3>2. \A t \in Transfers : t.amount \in Nat
      BY Sizes DEF Transfers
    <3> QED
      BY <2>2, <2>3, <3>1, <3>2
  <2> QED
    BY <2>4, <2>5
<1>11. FromTransfers(ts) =
          IF Len(ts) < 2 \/ mine = 0 THEN NotFound
          ELSE IF ts[mine].signer # "user" \/ theirs = 0 THEN NotFound
          ELSE IF ~balances THEN Failed
          ELSE Info(account.token, ts[theirs].source.token,
                    AsI64Abs(ts[mine].amount), AsI64Abs(ts[theirs].amount))
  BY DEF FromTransfers
<1>12. i # 0 /\ j # 0
  BY <1>1
<1>13. account.token = trade.input
  BY <1>8 DEF Account
<1>14. ts[theirs].source.token = Other(trade.input)
  <2> HIDE DEF theirs
  <2> QED
    BY <1>2, <1>3, <1>10 DEF Account
<1> HIDE DEF mine, theirs, account
<1> QED
  BY <1>1, <1>2, <1>3, <1>7, <1>10, <1>11, <1>12, <1>13, <1>14

--------------------------------------------------------------------------------
(* What the balances are read as *)

\* A swap moves what is paid and what is got, and one fee at most.
LEMMA MovedBySwap ==
    ASSUME NEW trade \in Executed, Shaped(trade), NEW o \in Owners, NEW t \in Tokens
    PROVE  LET pay == Flow(Account(o, t), Pay(trade))
               get == Flow(Account(o, t), Get(trade))
           IN  /\ pay \in Int /\ get \in Int
               /\ Moved(Account(o, t), trade.transfers) \in {pay + get, pay + get - trade.fee}
<1> DEFINE ts == trade.transfers
           account == Account(o, t)
           pay == Flow(account, Pay(trade))
           get == Flow(account, Get(trade))
           flows == [n \in DOMAIN ts |-> Flow(account, ts[n])]
<1>1. ts \in Seq(Transfers) /\ Len(ts) \in {2, 3} /\ trade.fee \in Amounts
  BY DEF Executed, Shaped
<1>2. \A x \in Transfers : Flow(account, x) \in Int
  <2>1. \A x \in Transfers : x.amount \in Nat
    BY Sizes DEF Transfers
  <2> QED
    BY <2>1 DEF Flow
<1>3. flows \in Seq(Int) /\ Len(flows) = Len(ts)
  <2>1. \A n \in 1 .. Len(ts) : ts[n] \in Transfers
    BY <1>1
  <2>2. flows = [n \in 1 .. Len(ts) |-> Flow(account, ts[n])] /\ Len(ts) \in Nat
    BY <1>1
  <2>3. \A n \in 1 .. Len(ts) : Flow(account, ts[n]) \in Int
    BY <1>2, <2>1
  <2> HIDE DEF account
  <2> QED
    BY <2>2, <2>3
<1>4. PICK i \in DOMAIN ts, j \in DOMAIN ts :
          /\ i # j /\ ts[i] = Pay(trade) /\ ts[j] = Get(trade)
          /\ \A k \in DOMAIN ts \ {i, j} : ts[k] \in Fees(trade.fee)
  BY DEF Shaped, PairAmong
<1>5. flows[i] = pay /\ flows[j] = get
  <2> HIDE DEF account
  <2> QED
    BY <1>4
<1>6. pay \in Int /\ get \in Int
  <2>1. ts[i] \in Transfers /\ ts[j] \in Transfers
    BY <1>1, <1>4
  <2> QED
    BY <1>2, <1>4, <2>1
<1>7. \A k \in DOMAIN ts \ {i, j} : flows[k] \in {0, - trade.fee}
  <2> SUFFICES ASSUME NEW k \in DOMAIN ts \ {i, j} PROVE Flow(account, ts[k]) \in {0, - trade.fee}
    OBVIOUS
  <2>1. PICK p \in Owners, u \in Tokens : ts[k] = Transfer(p, "fees", u, trade.fee)
    BY <1>4 DEF Fees
  <2>2. ts[k].amount = trade.fee /\ ts[k].destination = Account("fees", u)
    BY <2>1 DEF Transfer
  <2>3. account # ts[k].destination
    BY <2>2 DEF Account, Owners
  <2> QED
    BY <2>2, <2>3 DEF Flow
<1>8. Moved(account, ts) = Total(flows)
  BY DEF Moved
<1> HIDE DEF flows, pay, get
<1>9. trade.fee \in Nat
  BY <1>1, Sizes
<1>10. CASE Len(ts) = 2
  <2>1. Total(flows) = flows[1] + flows[2]
    BY <1>3, <1>10, TotalUnfolds
  <2>2. i \in 1 .. 2 /\ j \in 1 .. 2
    BY <1>1, <1>4, <1>10
  <2>3. Total(flows) = pay + get
    BY <1>4, <1>5, <1>6, <2>1, <2>2
  <2> QED
    BY <1>6, <1>8, <2>3 DEF pay, get
<1>11. CASE Len(ts) = 3
  <2>1. Total(flows) = flows[1] + flows[2] + flows[3]
    BY <1>3, <1>11, TotalUnfolds
  <2>2. DOMAIN ts = 1 .. 3
    BY <1>1, <1>11
  <2>3. PICK k \in 1 .. 3 : k # i /\ k # j
    BY <1>4, <2>2
  <2>4. flows[k] \in {0, - trade.fee}
    BY <1>7, <2>2, <2>3
  <2>5. flows[1] \in Int /\ flows[2] \in Int /\ flows[3] \in Int
    BY <1>3, <1>11
  <2>6. Total(flows) = flows[i] + flows[j] + flows[k]
    BY <1>4, <2>1, <2>2, <2>3, <2>5
  <2>7. Total(flows) \in {pay + get, pay + get - trade.fee}
    BY <1>5, <1>6, <1>9, <2>4, <2>6
  <2> QED
    BY <1>6, <1>8, <2>7 DEF pay, get
<1> QED
  BY <1>1, <1>10, <1>11

LEMMA TradesExecuted ==
    ASSUME SwapInv
    PROVE  \A n \in 1 .. Len(trades) : trades[n] \in Executed /\ Shaped(trades[n])
BY DEF SwapInv

LEMMA ChangeIsInt ==
    ASSUME SwapInv, NEW o \in Owners, NEW t \in Tokens
    PROVE  /\ Change(o, t) \in Int
           /\ Len(trades) = 1 => Change(o, t) = Moved(Account(o, t), trades[1].transfers)
<1> DEFINE moved == [n \in DOMAIN trades |-> Moved(Account(o, t), trades[n].transfers)]
<1>1. trades \in Seq(Executed) /\ Len(trades) \in Nat /\ DOMAIN trades = 1 .. Len(trades)
  BY DEF SwapInv
<1>2. \A n \in 1 .. Len(trades) : Moved(Account(o, t), trades[n].transfers) \in Int
  <2> SUFFICES ASSUME NEW n \in 1 .. Len(trades)
               PROVE  Moved(Account(o, t), trades[n].transfers) \in Int
    OBVIOUS
  <2>1. PICK trade : trade = trades[n]
    OBVIOUS
  <2>2. trade \in Executed /\ Shaped(trade)
    BY <1>1, <2>1 DEF SwapInv
  <2>3. trade.fee \in Nat
    <3>1. trade.fee \in Amounts
      BY <2>2 DEF Executed
    <3> QED
      BY <3>1, Sizes
  <2>4. PICK a, b : a = Flow(Account(o, t), Pay(trade)) /\ b = Flow(Account(o, t), Get(trade))
    OBVIOUS
  <2>5. a \in Int /\ b \in Int /\ Moved(Account(o, t), trade.transfers) \in {a + b, a + b - trade.fee}
    BY <2>2, <2>4, MovedBySwap
  <2> QED
    BY <2>1, <2>3, <2>5
<1>3. moved \in Seq(Int) /\ Len(moved) = Len(trades)
  <2>1. moved = [n \in 1 .. Len(trades) |-> Moved(Account(o, t), trades[n].transfers)]
    BY <1>1
  <2> QED
    BY <1>1, <1>2, <2>1
<1>4. Change(o, t) = Total(moved)
  BY DEF Change
<1>5. Len(trades) = 1 => moved[1] = Moved(Account(o, t), trades[1].transfers)
  BY <1>1
<1> HIDE DEF moved
<1> QED
  BY <1>3, <1>4, <1>5, TotalUnfolds

\* What an account is read as is never below zero.
LEMMA SeenType ==
    ASSUME SwapInv, NEW t, NEW r \in Seen(t)
    PROVE  r.before \in Nat /\ r.after \in Nat
<1>1. \A n : Readings(n) \subseteq Nat
  BY Sizes DEF Readings
<1> QED
  BY <1>1 DEF Seen, Trips, Blank

\* Below the precision a reading is off by one at most, and never too high.
LEMMA SmallReading ==
    ASSUME NEW n \in Nat, n < Precision, NEW r \in Readings(n)
    PROVE  r \in {n, n - 1}
<1>1. /\ Precision \in Nat /\ r \in Int
      /\ Precision * r <= (Precision + 1) * n
      /\ Precision * (r + 1) > (Precision - 1) * n
  BY AmountsAssumption, Sizes DEF Readings
<1>2. PICK p \in Nat : p = Precision
  BY <1>1
<1>3. \A d \in Int : d >= 1 => p * d >= p
  BY <1>2
<1>4. ~(r >= n + 1)
  <2> SUFFICES ASSUME r >= n + 1 PROVE FALSE
    OBVIOUS
  <2>1. PICK d \in Int : d = r - n /\ d >= 1
    BY <1>1
  <2>2. p * r = p * n + p * d
    BY <1>1, <1>2, <2>1
  <2>3. (p + 1) * n = p * n + n
    BY <1>2
  <2> QED
    BY <1>1, <1>2, <1>3, <2>1, <2>2, <2>3
<1>5. ~(r <= n - 2)
  <2> SUFFICES ASSUME r <= n - 2 PROVE FALSE
    OBVIOUS
  <2>1. PICK d \in Int : d = n - 1 - r /\ d >= 1
    BY <1>1
  <2>2. p * n = p * (r + 1) + p * d
    BY <1>1, <1>2, <2>1
  <2>3. (p - 1) * n = p * n - n
    BY <1>2
  <2> QED
    BY <1>1, <1>2, <1>3, <2>1, <2>2, <2>3
<1> QED
  BY <1>1, <1>4, <1>5

\* Where the floats kept the order, or the balances are small, an account is
\* never seen to change the other way.
LEMMA SeenInOrder ==
    ASSUME SwapInv, ordered \/ SmallBalances, NEW t \in Tokens, NEW r \in Seen(t)
    PROVE  /\ Change(Own, t) <= 0 => r.after <= r.before
           /\ Change(Own, t) >= 0 => r.before <= r.after
<1>1. Own \in Owners
  BY DEF SwapInv, Own, Owners
<1>2. Reserve(Own) \in Nat /\ Change(Own, t) \in Int /\ Reserve(Own) + Change(Own, t) >= 0
  BY <1>1, ChangeIsInt, AmountsAssumption DEF SwapInv, Covered, Reserve
<1>3. PICK n, c : n = Reserve(Own) /\ c = Change(Own, t)
  OBVIOUS
<1>4. n \in Nat /\ c \in Int /\ n + c >= 0 /\ n + c \in Nat
  BY <1>2, <1>3
<1>5. r.before \in Nat /\ r.after \in Nat
  BY SeenType
<1>6. CASE r = Blank
  BY <1>6 DEF Blank
<1>7. CASE r \in Trips(n, n + c)
  <2>1. /\ r.before \in Readings(n) /\ r.after \in Readings(n + c)
        /\ n = n + c => r.before = r.after
        /\ (ordered /\ n < n + c) => r.before <= r.after
        /\ (ordered /\ n + c < n) => r.after <= r.before
    BY <1>7 DEF Trips
  <2>2. CASE ordered
    BY <1>3, <1>4, <1>5, <2>1, <2>2
  <2>3. CASE SmallBalances
    <3>1. n < Precision /\ n + c < Precision
      BY <1>3, <2>3 DEF SmallBalances
    <3>2. r.before \in {n, n - 1} /\ r.after \in {n + c, n + c - 1}
      BY <1>4, <2>1, <3>1, SmallReading
    <3> QED
      BY <1>3, <1>4, <1>5, <2>1, <3>2
  <2> QED
    BY <2>2, <2>3
<1> QED
  BY <1>3, <1>6, <1>7 DEF Seen

\* What a reading says, when it says anything, and how much.
LEMMA NetRead ==
    ASSUME NEW x, NEW y, isPool \in BOOLEAN,
           x.before \in Nat, x.after \in Nat, y.before \in Nat, y.after \in Nat,
           NEW read, read = [a |-> x, b |-> y],
           NEW result, result = FromBalanceDiff(read)
    PROVE  /\ result \in Infos \cup {NotFound, Failed, [kind |-> "ambiguous"]}
           /\ result.kind = "info" =>
                /\ result.input \in Tokens /\ result.output = Other(result.input)
                /\ LET delta(t) == read[t].after - read[t].before
                   IN  IF isPool
                       THEN delta(result.input) > 0 /\ ~(delta(result.output) > 0)
                       ELSE delta(result.input) < 0 /\ ~(delta(result.output) < 0)
                /\ result.outAmount > 0 => read[result.output].after # read[result.output].before
<1> DEFINE delta(t) == read[t].after - read[t].before
           isInput(t) == IF isPool THEN delta(t) > 0 ELSE delta(t) < 0
           abs(n) == IF n < 0 THEN -n ELSE n
           input == CHOOSE t \in Tokens : isInput(t)
           Unread == ~balances \/ \E t \in Tokens : read[t].before > MaxI64 \/ read[t].after > MaxI64
<1>1. result = IF Unread THEN Failed
               ELSE IF isInput("a") = isInput("b") THEN [kind |-> "ambiguous"]
               ELSE Info(input, Other(input), abs(delta(input)), abs(delta(Other(input))))
  BY DEF FromBalanceDiff
<1>2. \A t \in Tokens : read[t].before \in Nat /\ read[t].after \in Nat /\ delta(t) \in Int
  BY DEF Tokens
<1>3. isInput("a") \in BOOLEAN /\ isInput("b") \in BOOLEAN
  <2> SUFFICES ASSUME NEW t \in Tokens PROVE isInput(t) \in BOOLEAN
    BY DEF Tokens
  <2>1. CASE isPool
    BY <2>1
  <2>2. CASE ~isPool
    BY <2>2
  <2> QED
    BY <2>1, <2>2
<1>4. CASE Unread
  BY <1>1, <1>4 DEF Failed
<1>5. CASE ~Unread /\ isInput("a") = isInput("b")
  BY <1>1, <1>5
<1>6. CASE ~Unread /\ isInput("a") # isInput("b")
  <2> HIDE DEF isInput, Unread
  <2>1. \E t \in Tokens : isInput(t)
    <3> QED
      BY <1>6, <1>3 DEF Tokens
  <2>2. input \in Tokens /\ isInput(input)
    BY <2>1
  <2> HIDE DEF input
  <2>3. Other(input) \in Tokens /\ ~isInput(Other(input))
    <3> QED
      BY <1>6, <1>3, <2>2 DEF Tokens, Other
  <2>4. result = Info(input, Other(input), abs(delta(input)), abs(delta(Other(input))))
    BY <1>1, <1>6
  <2>5. \A t \in Tokens : abs(delta(t)) \in 0 .. U64Size
    <3> SUFFICES ASSUME NEW t \in Tokens PROVE abs(delta(t)) \in 0 .. U64Size
      OBVIOUS
    <3>1. PICK m, n : m = read[t].before /\ n = read[t].after
      OBVIOUS
    <3>2. m \in Nat /\ n \in Nat /\ ~(m > MaxI64) /\ ~(n > MaxI64)
      BY <1>2, <1>6, <3>1 DEF Unread
    <3>3. abs(n - m) \in 0 .. U64Size
      BY <3>2, Sizes
    <3> QED
      BY <3>1, <3>3
  <2> HIDE DEF delta, abs
  <2>6. result \in Infos
    BY <2>2, <2>3, <2>4, <2>5 DEF Info, Infos
  <2>7. /\ result.input = input /\ result.output = Other(input)
        /\ result.outAmount = abs(delta(Other(input)))
    BY <2>4 DEF Info
  <2>9. read[Other(input)].after = read[Other(input)].before => ~(result.outAmount > 0)
    BY <1>2, <2>3, <2>7 DEF delta, abs
  <2> USE DEF isInput
  <2>8. IF isPool THEN delta(input) > 0 /\ ~(delta(Other(input)) > 0)
                  ELSE delta(input) < 0 /\ ~(delta(Other(input)) < 0)
    BY <2>2, <2>3
  <2> QED
    BY <2>2, <2>6, <2>7, <2>8, <2>9 DEF delta
<1> HIDE DEF isInput, Unread
<1> QED
  BY <1>4, <1>5, <1>6

--------------------------------------------------------------------------------
(* Theorems *)

\* Whatever is read of a transaction has the parts of a swap or says why not;
\* no amount read is below zero or wider than a u64.
THEOREM TypeCorrect == Spec => []TypeOK
<1>1. SwapInv => TypeOK
  <2> SUFFICES ASSUME SwapInv PROVE TypeOK
    OBVIOUS
  <2>1. Len(trades) <= MaxTrades /\ phase \in {"execute", "parse", "done"}
    BY DEF SwapInv
  <2>2. \A n \in DOMAIN infos : infos[n] \in Infos \cup {NotFound, Failed}
    <3> SUFFICES ASSUME NEW n \in DOMAIN infos PROVE infos[n] \in Infos \cup {NotFound, Failed}
      OBVIOUS
    <3>1. n \in 1 .. Len(trades) /\ trades \in Seq(Executed)
      BY DEF SwapInv
    <3>2. trades[n].transfers \in Seq(Transfers)
      <4>1. trades[n] \in Executed
        BY <3>1
      <4>2. \A trade \in Executed : trade.transfers \in Seq(Transfers)
        BY DEF Executed
      <4> QED
        BY <4>1, <4>2
    <3> QED
      BY <3>2, InfoTyped DEF SwapInv
  <2>3. net \in Infos \cup {NotFound, Failed, Overflowed, [kind |-> "ambiguous"]}
    <3>1. CASE phase # "done"
      BY <3>1 DEF SwapInv
    <3>2. CASE phase = "done"
      <4>1. CASE net = Overflowed
        BY <4>1
      <4>2. ASSUME NEW x \in Seen("a"), NEW y \in Seen("b"), net = FromBalanceDiff([a |-> x, b |-> y])
            PROVE  net \in Infos \cup {NotFound, Failed, [kind |-> "ambiguous"]}
        <5>1. x.before \in Nat /\ x.after \in Nat /\ y.before \in Nat /\ y.after \in Nat
          BY SeenType
        <5>2. isPool \in BOOLEAN
          BY DEF SwapInv
        <5> QED
          BY <4>2, <5>1, <5>2, NetRead
      <4> QED
        BY <3>2, <4>1, <4>2 DEF SwapInv
    <3> QED
      BY <3>1, <3>2
  <2> QED
    BY <2>1, <2>2, <2>3 DEF TypeOK
<1> QED
  BY <1>1, Invariant, PTL

\* Whoever's accounts are given and wherever the fee is taken, a swap is read
\* back from its transfers as it was executed.
THEOREM ReadAsTraded == Spec => []TradesRecovered
<1>1. SwapInv => TradesRecovered
  <2> SUFFICES ASSUME SwapInv, NEW n \in DOMAIN infos, NEW trade, trade = trades[n],
                      balances, FeeIsSmall(trade)
               PROVE  /\ infos[n].kind = "info"
                      /\ infos[n].input = trade.input /\ infos[n].output = Other(trade.input)
                      /\ trade.in <= MaxI64 => infos[n].inAmount = trade.in
                      /\ trade.out <= MaxI64 => infos[n].outAmount = trade.out
    BY DEF TradesRecovered
  <2>1. n \in DOMAIN trades /\ trade \in Executed /\ Shaped(trade) /\ isPool \in BOOLEAN
    BY DEF SwapInv
  <2>2. infos[n] = Info(trade.input, Other(trade.input), AsI64Abs(trade.in), AsI64Abs(trade.out))
    BY <2>1, TradeRead DEF SwapInv
  <2> QED
    BY <2>2 DEF Info, AsI64Abs
<1> QED
  BY <1>1, Invariant, PTL

\* The transfers and the balances of a lone swap never give opposite
\* directions, however much the balances lost to floats that kept the order, and
\* to any floats below the precision (derive_amount, balances.rs).
THEOREM OneDirection == Spec => []LoneTradeAgrees
<1>1. SwapInv => LoneTradeAgrees
  <2> SUFFICES ASSUME SwapInv, phase = "done", Len(trades) = 1, FeeIsSmall(trades[1]),
                      ordered \/ SmallBalances, net.kind = "info", infos[1].kind = "info"
               PROVE  net.input = infos[1].input
    BY DEF LoneTradeAgrees
  <2>1. PICK trade : trade = trades[1]
    OBVIOUS
  <2>2. trade \in Executed /\ Shaped(trade) /\ FeeIsSmall(trade) /\ isPool \in BOOLEAN /\ Own \in Owners
    <3>1. trade \in Executed /\ Shaped(trade)
      BY <2>1, TradesExecuted
    <3>2. FeeIsSmall(trade)
      BY <2>1
    <3> QED
      BY <3>1, <3>2 DEF SwapInv, Own, Owners
  <2>3. trade.in \in Nat /\ trade.out \in Nat /\ trade.fee \in Nat /\ trade.input \in Tokens
    <3>1. trade.in \in Amounts /\ trade.out \in Amounts /\ trade.fee \in Amounts /\ trade.input \in Tokens
      BY <2>2 DEF Executed
    <3> QED
      BY <3>1, Sizes
  <2>4. PICK x \in Seen("a"), y \in Seen("b") : net = FromBalanceDiff([a |-> x, b |-> y])
    <3>1. net # Overflowed
      BY DEF Overflowed
    <3> QED
      BY <3>1 DEF SwapInv
  <2>5. PICK read : read = [a |-> x, b |-> y]
    OBVIOUS
  <2>6. \A t \in Tokens : read[t] \in Seen(t)
    BY <2>5 DEF Tokens
  <2>7. \A t \in Tokens : /\ read[t].before \in Nat /\ read[t].after \in Nat
                          /\ Change(Own, t) <= 0 => read[t].after <= read[t].before
                          /\ Change(Own, t) >= 0 => read[t].before <= read[t].after
    BY <2>6, SeenType, SeenInOrder
  <2>8. /\ net.input \in Tokens
        /\ IF isPool THEN read[net.input].after - read[net.input].before > 0
                     ELSE read[net.input].after - read[net.input].before < 0
    <3>1. x.before \in Nat /\ x.after \in Nat /\ y.before \in Nat /\ y.after \in Nat
      BY <2>5, <2>7 DEF Tokens
    <3> QED
      BY <2>2, <2>4, <2>5, <3>1, NetRead
  <2>9. balances /\ infos[1].input = trade.input
    <3>1. Len(infos) = 1 /\ infos[1] = FromTransfers(trade.transfers)
      <4>1. Len(infos) = 1 /\ 1 \in DOMAIN infos
        BY DEF SwapInv
      <4> QED
        BY <2>1, <4>1 DEF SwapInv
    <3>2. balances
      <4>1. net # Failed
        BY DEF Failed
      <4> QED
        BY <2>4, <4>1 DEF FromBalanceDiff, SwapInv
    <3>3. infos[1] = Info(trade.input, Other(trade.input), AsI64Abs(trade.in), AsI64Abs(trade.out))
      BY <2>2, <3>1, <3>2, TradeRead
    <3> QED
      BY <3>2, <3>3 DEF Info
  <2>10. Change(Own, Other(trade.input)) \in Int
         /\ IF isPool THEN Change(Own, Other(trade.input)) < 0 ELSE Change(Own, Other(trade.input)) > 0
    <3> DEFINE account == Account(Own, Other(trade.input))
               pay == Flow(account, Pay(trade))
               get == Flow(account, Get(trade))
    <3>1. Other(trade.input) \in Tokens /\ Other(trade.input) # trade.input
      BY <2>3 DEF Tokens, Other
    <3>2. pay = 0 /\ get = IF isPool THEN - trade.out ELSE trade.out
      <4>1. pay = 0
        BY <3>1 DEF Flow, Pay, Transfer, Account
      <4>2. get = IF isPool THEN - trade.out ELSE trade.out
        BY DEF Flow, Get, Transfer, Account, Own
      <4> QED
        BY <4>1, <4>2
    <3>3. Change(Own, Other(trade.input)) = Moved(account, trade.transfers)
      BY <2>1, <2>2, <3>1, ChangeIsInt
    <3>4. Moved(account, trade.transfers) \in {pay + get, pay + get - trade.fee}
      BY <2>2, <3>1, MovedBySwap
    <3> HIDE DEF account, pay, get
    <3>5. trade.fee < trade.out
      BY <2>2 DEF FeeIsSmall
    <3> QED
      BY <2>2, <2>3, <3>2, <3>3, <3>4, <3>5
  <2>11. net.input # Other(trade.input)
    BY <2>2, <2>3, <2>7, <2>8, <2>10
  <2> QED
    BY <2>3, <2>8, <2>9, <2>11 DEF Tokens, Other
<1> QED
  BY <1>1, Invariant, PTL

\* Of any number of swaps, the balances of either side give the direction in
\* which it traded over all of them, to the last unit, with the same floats.
THEOREM DirectionOfAll == Spec => []NetDirection
<1>1. SwapInv => NetDirection
  <2> SUFFICES ASSUME SwapInv, phase = "done", net.kind = "info", ordered \/ SmallBalances
               PROVE  IF isPool
                      THEN /\ Change("pool", net.input) > 0
                           /\ net.outAmount > 0 => Change("pool", net.output) < 0
                      ELSE /\ Change("user", net.input) < 0
                           /\ net.outAmount > 0 => Change("user", net.output) > 0
    BY DEF NetDirection
  <2>1. isPool \in BOOLEAN /\ Own \in Owners
    BY DEF SwapInv, Own, Owners
  <2>2. PICK x \in Seen("a"), y \in Seen("b") : net = FromBalanceDiff([a |-> x, b |-> y])
    <3>1. net # Overflowed
      BY DEF Overflowed
    <3> QED
      BY <3>1 DEF SwapInv
  <2>3. PICK read : read = [a |-> x, b |-> y]
    OBVIOUS
  <2>4. \A t \in Tokens : read[t] \in Seen(t)
    BY <2>3 DEF Tokens
  <2>5. \A t \in Tokens : /\ read[t].before \in Nat /\ read[t].after \in Nat
                          /\ Change(Own, t) <= 0 => read[t].after <= read[t].before
                          /\ Change(Own, t) >= 0 => read[t].before <= read[t].after
    BY <2>4, SeenType, SeenInOrder
  <2>6. /\ net.input \in Tokens /\ net.output = Other(net.input)
        /\ LET delta(t) == read[t].after - read[t].before
           IN  IF isPool
               THEN delta(net.input) > 0 /\ ~(delta(net.output) > 0)
               ELSE delta(net.input) < 0 /\ ~(delta(net.output) < 0)
        /\ net.outAmount > 0 => read[net.output].after # read[net.output].before
    <3>1. x.before \in Nat /\ x.after \in Nat /\ y.before \in Nat /\ y.after \in Nat
      BY <2>3, <2>5 DEF Tokens
    <3> QED
      BY <2>1, <2>2, <2>3, <3>1, NetRead
  <2>7. net.output \in Tokens
    BY <2>6 DEF Tokens, Other
  <2>8. \A t \in Tokens : Change(Own, t) \in Int
    BY <2>1, ChangeIsInt
  <2>9. IF isPool THEN Change(Own, net.input) > 0 /\ (net.outAmount > 0 => Change(Own, net.output) < 0)
                  ELSE Change(Own, net.input) < 0 /\ (net.outAmount > 0 => Change(Own, net.output) > 0)
    <3>1. CASE isPool
      BY <2>5, <2>6, <2>7, <2>8, <3>1
    <3>2. CASE ~isPool
      BY <2>5, <2>6, <2>7, <2>8, <3>2
    <3> QED
      BY <3>1, <3>2
  <2> QED
    BY <2>9 DEF Own
<1> QED
  BY <1>1, Invariant, PTL
================================================================================
