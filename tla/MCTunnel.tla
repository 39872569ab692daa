------------------------------ MODULE MCTunnel ------------------------------
(* One CONNECT, and two requests that arrive inside it.                    *)
EXTENDS Tunnel
=============================================================================
