------------------------------- MODULE Policy -------------------------------
(***************************************************************************)
(* The shared policy layer (crates/engine/src/lib.rs): which action is     *)
(* allowed on which class of destination.                                  *)
(***************************************************************************)

Development == "development"
Production  == "production"
Unknown     == "unknown"
DestinationClass == {Development, Production, Unknown}

Action == {"observe", "inspect_tls", "replay", "modify", "inject_fault"}

\* Only Development allows anything beyond observing; the two other classes
\* refuse with an error of their own.
authorize(destination, action) ==
  action = "observe" \/ destination = Development
=============================================================================
