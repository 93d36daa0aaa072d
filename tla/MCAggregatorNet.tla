---------------------------- MODULE MCAggregatorNet ----------------------------
(* AggregatorNet on routes of up to three legs with fees, and of four without.
   Which mints the first leg swaps is no matter, so it goes from A to B.  The
   amounts alternate, so that in a chain each leg can spend what the leg
   before it gave. *)
EXTENDS AggregatorNet

CONSTANTS A, B, C

Abc == {A, B, C}

Pairs == {<<from, to>> \in Abc \X Abc : from # to}
SwapOf(p, n) ==
    [input_mint |-> p[1], output_mint |-> p[2],
     input_amount |-> IF n % 2 = 1 THEN 2 ELSE 3,
     output_amount |-> IF n % 2 = 1 THEN 3 ELSE 2]
Moved(m, n) == [mint |-> m, amount |-> n]
Decoded(s) == [decoded |-> TRUE, swap |-> s, transfers |-> <<>>]
Undecoded(s, t) == [decoded |-> FALSE, swap |-> s, transfers |-> t]

\* input and output, and a fee in any mint, as large as the input or smaller;
\* a fee's mint may be unknown, and one side of the swap may be missing
Moves(s) == <<Moved(s.input_mint, s.input_amount), Moved(s.output_mint, s.output_amount)>>
Fees == {Moved(m, n) : m \in Abc, n \in {1, 2}} \cup {Moved(NoMint, 3)}

PlainLegs(swapsOf) == {Decoded(s) : s \in swapsOf} \cup {Undecoded(s, Moves(s)) : s \in swapsOf}
FeeLegs(swapsOf) ==
    PlainLegs(swapsOf)
    \cup {Undecoded(s, Append(Moves(s), fee)) : s \in swapsOf, fee \in Fees}
    \cup {Undecoded(s, SubSeq(Moves(s), 1, 1)) : s \in swapsOf}

First == {SwapOf(<<A, B>>, 1)}
Between(n) == {SwapOf(p, n) : p \in Pairs}
Free == Between(1) \cup Between(2)

AllRoutes ==
    {<<>>} \cup {<<a>> : a \in FeeLegs(First)}
    \cup (FeeLegs(First) \X FeeLegs(Between(2)))
    \cup (PlainLegs(First) \X FeeLegs(Between(2)) \X FeeLegs(Between(1)))
    \cup (PlainLegs(First) \X PlainLegs(Between(2)) \X PlainLegs(Between(1)) \X PlainLegs(Between(2)))
    \* and with either amounts in every leg
    \cup (PlainLegs(First) \X PlainLegs(Free) \X PlainLegs(Free))

DecodedRoutes == {r \in AllRoutes : r # <<>> /\ \A n \in DOMAIN r : r[n].decoded}
================================================================================
