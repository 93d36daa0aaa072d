------------------------------ MODULE MCSwapGraph ------------------------------
(* SwapGraph on small routes.  Which mint the route starts with is no matter,
   so the first leg goes from the first mint to the second. *)
EXTENDS SwapGraph

CONSTANTS
    A, B, C,
    ShortAmounts,   \* the amounts of routes of up to 3 legs
    LongAmounts     \* the amounts of routes of 4 legs

Legs(from, to, amounts) ==
    [input_mint : from, output_mint : to,
     input_amount : amounts, output_amount : amounts]

AnyLeg(amounts) == {s \in Legs(Mints, Mints, amounts) : s.input_mint # s.output_mint}

RoutesOf(amounts, lengths) ==
    {<<first>> \o rest : first \in Legs({A}, {B}, amounts),
                         rest \in UNION {[1 .. n - 1 -> AnyLeg(amounts)] : n \in lengths}}

ThreeMints == {A, B, C}
AllRoutes == {<<>>} \cup RoutesOf(ShortAmounts, 1 .. 3) \cup RoutesOf(LongAmounts, {4})
================================================================================
