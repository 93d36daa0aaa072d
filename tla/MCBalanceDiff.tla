----------------------------- MODULE MCBalanceDiff -----------------------------
(* BalanceDiff with a user who pays the fee and a pool. *)
EXTENDS BalanceDiff

CONSTANTS User, Pool

UserAndPool == {User, Pool}
JustPool == {Pool}
================================================================================
