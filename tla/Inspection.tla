---------------------------- MODULE Inspection ----------------------------
(***************************************************************************)
(* HTTPS inspection: the local CA (ca.rs), the trust check a client has to *)
(* pass (tls_trust_check.rs) and the gate it opens (tls_intercept.rs), the *)
(* desktop commands that use them (src-tauri/src/main.rs), and the CONNECT *)
(* requests of a proxy run (ProxyTlsInterception in proxy.rs).             *)
(*                                                                         *)
(* The commands run concurrently and each of them takes several locks one  *)
(* after the other; a step here is what happens under one of them.  Stop   *)
(* and Start of the proxy are single steps: ProxyEngine has their detail.  *)
(* Left out: keys, certificates and names, a credential store that fails,  *)
(* requests to other classes than Development, which are never bridged.    *)
(***************************************************************************)
EXTENDS Naturals, FiniteSets

CONSTANTS
  Clients,      \* client profiles
  Starts,       \* calls of start_tls_trust_check that may be under way at once
  Calls,        \* calls that cancel the check, or make or remove the CA
  Connections,  \* connections that carry a CONNECT
  NoProof,      \* the gate store is empty
  MaxCas,       \* bound on the CAs made
  MaxChecks     \* bound on the checks started

ASSUME BoundsAssumption == MaxCas \in Nat \ {0} /\ MaxChecks \in Nat \ {0}
ASSUME NamesAssumption ==
  /\ Starts \cap Calls = {}
  /\ Clients \cap {"stopped", "plain", "none"} = {}

Cas == 1..MaxCas
Checks == 1..MaxChecks
Procs == Starts \cup Calls
Proof == [ca : Cas, client : Clients, fresh : BOOLEAN]

VARIABLES
  ca,       \* the CA in the credential store, 0 if there is none
  made,     \* CAs made so far
  lapsed,   \* CAs whose validity has ended
  check,    \* the tasks of the checks: how far, with a leaf of which CA, for whom
  spawned,  \* tasks spawned
  aborted,  \* tasks told to end
  running,  \* TlsTrustCheckManager::running, 0 for None
  status,   \* TlsTrustCheckManager::status
  gate,     \* TlsTrustCheckManager::gate
  at,       \* how far each call is
  joins,    \* the task it waits for, or the one it spawned
  leaf,     \* the CA and the profile of a check about to start
  what,     \* which command a call of Calls is
  opening,  \* a start_proxy that asks for inspection
  run,      \* the proxy run: stopped, plain, or inspecting for a profile
  conn,     \* how far each CONNECT is, and the CA it saw or has a leaf of
  trusted,  \* history: which profile accepted a leaf of which CA
  quiet     \* history: calls that began to cancel, no check having started since

store    == <<ca, made, lapsed>>
checks   == <<check, spawned, aborted>>
calls    == <<at, joins, leaf, what>>
proxy    == <<opening, run, conn>>
vars == <<store, checks, running, status, gate, calls, proxy, trusted, quiet>>

NoLeaf == [ca |-> 0, client |-> "none"]
NotAsked == [at |-> "idle", seen |-> 0, client |-> "none"]
NoTask == [at |-> "none", ca |-> 0, client |-> "none"]

Init ==
  /\ ca = 0 /\ made = 0 /\ lapsed = {}
  /\ check = [i \in Checks |-> NoTask]
  /\ spawned = 0 /\ aborted = {} /\ running = 0
  /\ status = "idle" /\ gate = NoProof
  /\ at = [p \in Procs |-> "idle"]
  /\ joins = [p \in Procs |-> 0]
  /\ leaf = [s \in Starts |-> NoLeaf]
  /\ what = [k \in Calls |-> "none"]
  /\ opening = NotAsked
  /\ run = "stopped"
  /\ conn = [t \in Connections |-> [at |-> "idle", seen |-> 0]]
  /\ trusted = {} /\ quiet = {}

-----------------------------------------------------------------------------
(* The gate and the passing of time.                                       *)

\* Slip: the proof may be of another CA.
ReadyUnderAnyCa(seen, client) ==
  /\ seen # 0 /\ seen \notin lapsed
  /\ gate # NoProof
  /\ gate.fresh
  /\ gate.client = client

\* readiness_at for a CA status read earlier.  A gate in the store is always
\* opted in.
Ready(seen, client) ==
  /\ seen # 0 /\ seen \notin lapsed
  /\ gate # NoProof
  /\ gate.ca = seen /\ gate.fresh
  /\ gate.client = client

\* Leaves never outlive their CA.
CaLapses ==
  /\ ca # 0 /\ ca \notin lapsed
  /\ lapsed' = lapsed \cup {ca}
  /\ gate' = IF gate # NoProof /\ gate.ca = ca THEN [gate EXCEPT !.fresh = FALSE] ELSE gate
  /\ UNCHANGED <<ca, made, checks, running, status, calls, proxy, trusted, quiet>>

\* A leaf is valid for a day.
ProofLapses ==
  /\ gate # NoProof /\ gate.fresh
  /\ gate' = [gate EXCEPT !.fresh = FALSE]
  /\ UNCHANGED <<store, checks, running, status, calls, proxy, trusted, quiet>>

-----------------------------------------------------------------------------
(* cancel_running, which keeps the lock while it waits.                    *)

RunningIsFree == \A p \in Procs : at[p] # "joining"

Then(p) == IF p \in Starts THEN "binding" ELSE "clearing"

NoStart == \A s \in Starts : at[s] \in {"idle", "failed"}

Quiet(p) == IF p \in Calls /\ NoStart THEN quiet \cup {p} ELSE quiet \ {p}

\* Slip: the task is aborted and nobody waits for its end.
AbortOnly(p) ==
  /\ at[p] = "cancelling" /\ RunningIsFree
  /\ aborted' = IF running = 0 THEN aborted ELSE aborted \cup {running}
  /\ running' = 0
  /\ at' = [at EXCEPT ![p] = Then(p)]
  /\ quiet' = Quiet(p)
  /\ UNCHANGED <<store, check, spawned, status, gate, joins, leaf, what, proxy, trusted>>

\* Slip: the handle stays where it is while the task is waited for.
CancelWithoutTake(p) ==
  /\ at[p] = "cancelling" /\ RunningIsFree
  /\ aborted' = IF running = 0 THEN aborted ELSE aborted \cup {running}
  /\ joins' = [joins EXCEPT ![p] = running]
  /\ at' = [at EXCEPT ![p] = IF running = 0 THEN Then(p) ELSE "joining"]
  /\ quiet' = Quiet(p)
  /\ UNCHANGED <<store, check, spawned, running, status, gate, leaf, what, proxy, trusted>>

CancelRunning(p) ==
  /\ at[p] = "cancelling" /\ RunningIsFree
  /\ \/ /\ running = 0
        /\ at' = [at EXCEPT ![p] = Then(p)]
        /\ UNCHANGED <<aborted, running, joins>>
     \/ /\ running # 0
        /\ aborted' = aborted \cup {running}
        /\ joins' = [joins EXCEPT ![p] = running]
        /\ running' = 0
        /\ at' = [at EXCEPT ![p] = "joining"]
  /\ quiet' = Quiet(p)
  /\ UNCHANGED <<store, check, spawned, status, gate, leaf, what, proxy, trusted>>

Joined(p) ==
  /\ at[p] = "joining" /\ check[joins[p]].at = "done"
  /\ at' = [at EXCEPT ![p] = Then(p)]
  /\ joins' = [joins EXCEPT ![p] = 0]
  /\ UNCHANGED <<store, checks, running, status, gate, leaf, what, proxy, trusted, quiet>>

-----------------------------------------------------------------------------
(* start_tls_trust_check and TlsTrustCheckManager::start.                  *)

\* issue_leaf, under the lock of the CA.
IssueLeaf(s, client) ==
  /\ at[s] \in {"idle", "failed"}
  /\ ca # 0 /\ ca \notin lapsed /\ spawned < MaxChecks
  /\ leaf' = [leaf EXCEPT ![s] = [ca |-> ca, client |-> client]]
  /\ at' = [at EXCEPT ![s] = "cancelling"]
  /\ quiet' = {}
  /\ UNCHANGED <<store, checks, running, status, gate, joins, what, proxy, trusted>>

\* Without a listener the call fails, and the status stays what it was.
Bind(s) ==
  /\ at[s] = "binding"
  /\ \/ at' = [at EXCEPT ![s] = "announcing"] /\ UNCHANGED leaf
     \/ at' = [at EXCEPT ![s] = "failed"] /\ leaf' = [leaf EXCEPT ![s] = NoLeaf]
  /\ UNCHANGED <<store, checks, running, status, gate, joins, what, proxy, trusted, quiet>>

Announce(s) ==
  /\ at[s] = "announcing"
  /\ status' = "waiting"
  /\ at' = [at EXCEPT ![s] = "opening"]
  /\ UNCHANGED <<store, checks, running, gate, joins, leaf, what, proxy, trusted, quiet>>

\* The gate is emptied and the task spawned ...
Spawn(s) ==
  /\ at[s] = "opening" /\ spawned < MaxChecks
  /\ gate' = NoProof
  /\ spawned' = spawned + 1
  /\ check' = [check EXCEPT ![spawned'] =
       [at |-> "listening", ca |-> leaf[s].ca, client |-> leaf[s].client]]
  /\ joins' = [joins EXCEPT ![s] = spawned']
  /\ leaf' = [leaf EXCEPT ![s] = NoLeaf]
  /\ at' = [at EXCEPT ![s] = "keeping"]
  /\ UNCHANGED <<store, aborted, running, status, what, proxy, trusted, quiet>>

\* ... before its handle is where cancel_running finds it.
Keep(s) ==
  /\ at[s] = "keeping" /\ RunningIsFree
  /\ running' = joins[s]
  /\ joins' = [joins EXCEPT ![s] = 0]
  /\ at' = [at EXCEPT ![s] = "idle"]
  /\ UNCHANGED <<store, checks, status, gate, leaf, what, proxy, trusted, quiet>>

-----------------------------------------------------------------------------
(* The task: run_check and what is made of its outcome.                    *)

To(i, next) == check' = [check EXCEPT ![i].at = next]

Ended(i) == check' = [check EXCEPT ![i] = [NoTask EXCEPT !.at = "done"]]

\* The client accepts the leaf: the proof exists, in the task's own gate.
Trust(i) ==
  /\ check[i].at = "listening"
  /\ To(i, "confirming")
  /\ trusted' = trusted \cup {<<check[i].client, check[i].ca>>}
  /\ UNCHANGED <<store, spawned, aborted, running, status, gate, calls, proxy, quiet>>

\* No client in time, a client that refuses, or a confirmation not delivered.
Refuse(i) ==
  /\ check[i].at \in {"listening", "confirming"}
  /\ To(i, "refused")
  /\ UNCHANGED <<store, spawned, aborted, running, status, gate, calls, proxy, trusted, quiet>>

\* The gate is published, then the status; an abort comes too late here.
Publish(i) ==
  /\ check[i].at = "confirming"
  /\ To(i, "proved")
  /\ gate' = [ca |-> check[i].ca, client |-> check[i].client,
              fresh |-> check[i].ca \notin lapsed]
  /\ UNCHANGED <<store, spawned, aborted, running, status, calls, proxy, trusted, quiet>>

\* Slip: only a success is reported.
ReportSuccess(i) ==
  /\ check[i].at \in {"proved", "refused"}
  /\ Ended(i)
  /\ status' = IF check[i].at = "proved" THEN "verified" ELSE status
  /\ UNCHANGED <<store, spawned, aborted, running, gate, calls, proxy, trusted, quiet>>

Report(i) ==
  /\ \/ check[i].at = "proved" /\ status' = "verified"
     \/ check[i].at = "refused" /\ status' \in {"failed", "expired"}
  /\ Ended(i)
  /\ UNCHANGED <<store, spawned, aborted, running, gate, calls, proxy, trusted, quiet>>

\* An abort ends the task where it waits.
Aborted(i) ==
  /\ i \in aborted /\ check[i].at \in {"listening", "confirming"}
  /\ Ended(i)
  /\ UNCHANGED <<store, spawned, aborted, running, status, gate, calls, proxy, trusted, quiet>>

-----------------------------------------------------------------------------
(* cancel_tls_trust_check, generate_local_ca and remove_local_ca.          *)

Stopped == run' = "stopped" /\ conn' = [t \in Connections |-> [at |-> "idle", seen |-> 0]]

Call(k, command) ==
  /\ at[k] = "idle"
  /\ what' = [what EXCEPT ![k] = command]
  /\ at' = [at EXCEPT ![k] = IF command = "cancel" THEN "cancelling" ELSE "stopping"]
  /\ UNCHANGED <<store, checks, running, status, gate, joins, leaf, proxy, trusted, quiet>>

\* A change of CA stops the proxy first.
StopFirst(k) ==
  /\ at[k] = "stopping"
  /\ Stopped
  /\ at' = [at EXCEPT ![k] = "cancelling"]
  /\ UNCHANGED <<store, checks, running, status, gate, joins, leaf, what, opening, trusted, quiet>>

ClearGate(k) ==
  /\ at[k] = "clearing"
  /\ gate' = NoProof
  /\ at' = [at EXCEPT ![k] = "resetting"]
  /\ UNCHANGED <<store, checks, running, status, joins, leaf, what, proxy, trusted, quiet>>

Reset(k) ==
  /\ at[k] = "resetting"
  /\ status' = "idle"
  /\ at' = [at EXCEPT ![k] = IF what[k] = "cancel" THEN "idle" ELSE "storing"]
  /\ what' = [what EXCEPT ![k] = IF @ = "cancel" THEN "none" ELSE @]
  /\ UNCHANGED <<store, checks, running, gate, joins, leaf, proxy, trusted, quiet>>

\* Without consent, or with a CA in the store already, generate() fails; a
\* removal without confirmation fails too.
ChangeCa(k) ==
  /\ at[k] = "storing"
  /\ at' = [at EXCEPT ![k] = "idle"] /\ what' = [what EXCEPT ![k] = "none"]
  /\ \/ what[k] = "generate" /\ ca = 0 /\ made < MaxCas /\ made' = made + 1 /\ ca' = made'
     \/ what[k] = "remove" /\ ca' = 0 /\ UNCHANGED made
     \/ UNCHANGED <<ca, made>>
  /\ UNCHANGED <<lapsed, checks, running, status, gate, joins, leaf, proxy, trusted, quiet>>

-----------------------------------------------------------------------------
(* start_proxy with inspection, Stop, and the CONNECTs of the run.         *)

AskProxy(client) ==
  /\ opening.at = "idle"
  /\ opening' = [at |-> "checking", seen |-> ca, client |-> client]
  /\ UNCHANGED <<store, checks, running, status, gate, calls, run, conn, trusted, quiet>>

CheckReadiness ==
  /\ opening.at = "checking"
  /\ opening' = IF Ready(opening.seen, opening.client) THEN [opening EXCEPT !.at = "starting"]
                ELSE NotAsked
  /\ UNCHANGED <<store, checks, running, status, gate, calls, run, conn, trusted, quiet>>

\* ProxyEngine::start, refused while a run is there.
StartInspecting ==
  /\ opening.at = "starting"
  /\ run' = IF run = "stopped" THEN opening.client ELSE run
  /\ opening' = NotAsked
  /\ UNCHANGED <<store, checks, running, status, gate, calls, conn, trusted, quiet>>

StartPlain ==
  /\ run = "stopped" /\ run' = "plain"
  /\ UNCHANGED <<store, checks, running, status, gate, calls, opening, conn, trusted, quiet>>

StopProxy ==
  /\ run # "stopped" /\ Stopped
  /\ UNCHANGED <<store, checks, running, status, gate, calls, opening, trusted, quiet>>

Move(t, next, seen) == conn' = [conn EXCEPT ![t] = [at |-> next, seen |-> seen]]

OnlyConn ==
  UNCHANGED <<store, checks, running, status, gate, calls, opening, run, trusted, quiet>>

\* A CONNECT to a Development destination; the leaf issuer reads the status of
\* the CA, ...
ReadCa(t) ==
  /\ run # "stopped" /\ conn[t].at = "idle"
  /\ IF run \in Clients THEN Move(t, "checking", ca) ELSE Move(t, "opaque", 0)
  /\ OnlyConn

\* ... the gate, ...
Revalidate(t) ==
  /\ conn[t].at = "checking"
  /\ IF Ready(conn[t].seen, run) THEN Move(t, "issuing", conn[t].seen) ELSE Move(t, "opaque", 0)
  /\ OnlyConn

\* ... and gets a leaf; a CA that is not the one it saw fails the CONNECT.
Issue(t) ==
  /\ conn[t].at = "issuing"
  /\ IF ca = conn[t].seen /\ ca \notin lapsed THEN Move(t, "bridged", ca) ELSE Move(t, "idle", 0)
  /\ OnlyConn

Disconnect(t) ==
  /\ conn[t].at \in {"opaque", "bridged"}
  /\ Move(t, "idle", 0)
  /\ OnlyConn

-----------------------------------------------------------------------------
StartStep(s) == Bind(s) \/ Announce(s) \/ Spawn(s) \/ Keep(s)
CallStep(k) == StopFirst(k) \/ ClearGate(k) \/ Reset(k) \/ ChangeCa(k)
CancelStep(p) == CancelRunning(p) \/ Joined(p)
CheckStep(i) == Trust(i) \/ Refuse(i) \/ Publish(i) \/ Report(i) \/ Aborted(i)
ConnStep(t) == ReadCa(t) \/ Revalidate(t) \/ Issue(t) \/ Disconnect(t)

Next ==
  \/ CaLapses \/ ProofLapses
  \/ \E p \in Procs : CancelStep(p)
  \/ \E s \in Starts : StartStep(s) \/ \E c \in Clients : IssueLeaf(s, c)
  \/ \E i \in Checks : CheckStep(i)
  \/ \E k \in Calls : CallStep(k) \/ \E c \in {"cancel", "generate", "remove"} : Call(k, c)
  \/ (\E c \in Clients : AskProxy(c)) \/ CheckReadiness \/ StartInspecting
  \/ StartPlain \/ StopProxy
  \/ \E t \in Connections : ConnStep(t)

Spec == Init /\ [][Next]_vars

\* The runtime polls its tasks; accept() and the handshake have timeouts, so a
\* check goes on without a client.
Fairness ==
  /\ \A s \in Starts : WF_vars(StartStep(s))
  /\ \A k \in Calls : WF_vars(CallStep(k))
  /\ \A p \in Procs : WF_vars(CancelStep(p))
  /\ \A i \in Checks : WF_vars(CheckStep(i))

FairSpec == Spec /\ Fairness

-----------------------------------------------------------------------------
(* Every variable has its type; who waits for a task holds the lock of     *)
(* `running`, alone, and has emptied it.                                   *)
TypeOK ==
  /\ ca \in 0..made /\ made \in 0..MaxCas /\ lapsed \subseteq 1..made
  /\ check \in [Checks ->
       [at : {"none", "listening", "confirming", "proved", "refused", "done"},
        ca : 0..MaxCas, client : Clients \cup {"none"}]]
  /\ spawned \in 0..MaxChecks
  /\ aborted \subseteq 1..spawned /\ running \in 0..spawned
  /\ status \in {"idle", "waiting", "verified", "failed", "expired"}
  /\ gate \in Proof \cup {NoProof}
  /\ at \in [Procs -> {"idle", "failed", "cancelling", "joining", "binding", "announcing",
                       "opening", "keeping", "stopping", "clearing", "resetting", "storing"}]
  /\ joins \in [Procs -> 0..spawned]
  /\ leaf \in [Starts -> [ca : 0..MaxCas, client : Clients \cup {"none"}]]
  /\ what \in [Calls -> {"none", "cancel", "generate", "remove"}]
  /\ opening \in [at : {"idle", "checking", "starting"}, seen : 0..MaxCas,
                  client : Clients \cup {"none"}]
  /\ run \in Clients \cup {"stopped", "plain"}
  /\ conn \in [Connections ->
       [at : {"idle", "opaque", "checking", "issuing", "bridged"}, seen : 0..MaxCas]]
  /\ trusted \subseteq Clients \X Cas
  /\ quiet \subseteq Calls
  /\ \A p \in Procs : at[p] = "joining" =>
       running = 0 /\ \A q \in Procs \ {p} : at[q] # "joining"

(* A CONNECT is terminated only with a leaf of a CA whose leaf the profile *)
(* of the run itself has accepted in a handshake, whatever was cancelled,  *)
(* removed or made again between the checks (proxy.rs, the leaf issuer).   *)
BridgesAreTrusted ==
  \A t \in Connections : conn[t].at = "bridged" => <<run, conn[t].seen>> \in trusted

(* HTTP_PROXY.md: cancel and a change of CA discard the listener and the   *)
(* proof.  Once one of them has finished, and no check was starting then,  *)
(* nothing listens and the gate is empty until the next check is started,  *)
(* although the task publishes its outcome without looking at the manager. *)
CancelDiscards ==
  (\E k \in quiet : at[k] \notin {"joining", "clearing", "resetting"}) =>
    /\ gate = NoProof
    /\ \A i \in Checks : check[i].at \in {"none", "done"}

(* A check that is waiting settles, is cancelled, or a call that replaces  *)
(* it has told the user that it failed: no outcome is lost in the task.    *)
WaitingSettles ==
  status = "waiting" ~> (status # "waiting" \/ \E s \in Starts : at[s] = "failed")

-----------------------------------------------------------------------------
(* What the documentation says and the code does not do.                   *)

(* SECURITY.md: changing or removing the CA first stops the proxy and its  *)
(* active bridges.  A run that starts between the stop and the change      *)
(* keeps its bridges.                                                      *)
BridgesOfCurrentCa ==
  \A t \in Connections : conn[t].at = "bridged" => conn[t].seen = ca
=============================================================================
