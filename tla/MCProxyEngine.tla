--------------------------- MODULE MCProxyEngine ---------------------------
(* Small instances of the proxy engine.  A run picks the configurations    *)
(* that Start may be called with; "dev" is a Development target in the     *)
(* runs that say so, "far" never is.                                       *)
EXTENDS ProxyEngine, TLC

Clients_ == Permutations(Clients)

Base ==
  [limit |-> 1, connections |-> 2, auth |-> NoProfile,
   class |-> [t \in Targets |-> IF t = "dev" THEN Development ELSE Production],
   rule |-> [t \in Targets |-> "none"],
   pause |-> FALSE, bodies |-> FALSE]

\* Runs with a smaller and a larger limit, two connections and one.  Where one
\* capture fits, the second request evicts the first one while it is paused.
ListConfigs ==
  {[Base EXCEPT !.limit = r[1], !.connections = r[2], !.pause = TRUE,
                !.rule = [t \in Targets |-> "status"]] : r \in {<<1, 2>>, <<2, 1>>}}

\* The next run may no longer call the target Development, and may require a
\* profile's credentials.
ReplayConfigs ==
  {[Base EXCEPT !.limit = l, !.class = [t \in Targets |-> k], !.auth = a, !.bodies = TRUE] :
     l \in {1, 2}, k \in {Development, Unknown}, a \in Profiles \cup {NoProfile}}

\* Everything a response can wait for.
WaitConfigs ==
  {[Base EXCEPT !.pause = TRUE, !.bodies = TRUE, !.rule = [t \in Targets |-> r]] :
     r \in {"none", "body"}}
=============================================================================
