------------------------------ MODULE MCWindow ------------------------------
(* One exchange and one command at a time against two refreshes.           *)
EXTENDS Window
=============================================================================
