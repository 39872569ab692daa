---------------------------- MODULE MCBodyStore ----------------------------
(* A small instance of the body stores: one body that is recorded while it *)
(* is forwarded, one that is stored whole, one budget.                     *)
EXTENDS BodyStore
=============================================================================
