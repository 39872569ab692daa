-------------------------- MODULE InspectionProofs --------------------------
(***************************************************************************)
(* Proofs about HTTPS inspection, for every set of profiles, commands and  *)
(* connections, and every number of CAs and checks.                        *)
(***************************************************************************)
EXTENDS Inspection, TLAPS

-----------------------------------------------------------------------------
(* Types.  A leaf that is on its way to a task, and the task while it is   *)
(* not over, are of a real CA and a real profile; so is a start_proxy that *)
(* asks for inspection.                                                    *)

Named ==
  /\ \A s \in Starts : at[s] \notin {"idle", "failed", "keeping"} =>
       leaf[s].ca \in Cas /\ leaf[s].client \in Clients
  /\ \A i \in Checks : check[i].at \notin {"none", "done"} =>
       check[i].ca \in Cas /\ check[i].client \in Clients
  /\ opening.at # "idle" => opening.client \in Clients

Typed == TypeOK /\ Named

Tasks ==
  [at : {"none", "listening", "confirming", "proved", "refused", "done"},
   ca : 0..MaxCas, client : Clients \cup {"none"}]

\* A task goes on without a change of what it has.
LEMMA TaskGoesOn ==
  ASSUME check \in [Checks -> Tasks], NEW i \in Checks,
         NEW next \in {"confirming", "proved", "refused"}, To(i, next)
  PROVE  check' \in [Checks -> Tasks]
  <1>1. [check[i] EXCEPT !.at = next] \in Tasks
    BY DEF Tasks
  <1> QED
    BY <1>1 DEF To

LEMMA TypeInit == Init => Typed
  BY BoundsAssumption, NamesAssumption
  DEF Init, Typed, Named, TypeOK, NoLeaf, NotAsked, NoTask, Cas, Checks, Procs

LEMMA TypeStep == Typed /\ [Next]_vars => Typed'
  <1> SUFFICES ASSUME Typed, [Next]_vars PROVE Typed'
    OBVIOUS
  <1> USE BoundsAssumption, NamesAssumption DEF Procs, Cas, Checks, Proof, Typed, Named
  <1>1. CASE CaLapses
    <2>1. gate' \in Proof \cup {NoProof}
      BY <1>1 DEF CaLapses, TypeOK
    <2>2. lapsed' \subseteq 1..made
      BY <1>1 DEF CaLapses, TypeOK
    <2> QED
      BY <1>1, <2>1, <2>2 DEF CaLapses, TypeOK, checks, calls, proxy
  <1>2. CASE ProofLapses
    BY <1>2 DEF ProofLapses, TypeOK, store, checks, calls, proxy
  <1>3. ASSUME NEW p \in Procs, CancelRunning(p) PROVE Typed'
    <2> Then(p) \in {"binding", "clearing"} /\ (Then(p) = "binding" <=> p \in Starts)
      BY DEF Then
    <2>1. quiet' \subseteq Calls
      BY <1>3 DEF CancelRunning, Quiet, TypeOK
    <2>2. PICK next \in {"joining", Then(p)} :
            /\ at[p] = "cancelling" /\ RunningIsFree
            /\ at' = [at EXCEPT ![p] = next]
            /\ next = "joining" => running' = 0
      BY <1>3 DEF CancelRunning
    <2>3. /\ aborted' \subseteq 1..spawned /\ running' \in 0..spawned
          /\ joins' \in [Procs -> 0..spawned]
      <3>1. CASE running = 0
        BY <1>3, <3>1 DEF CancelRunning, TypeOK
      <3>2. CASE running # 0
        <4>1. running \in 1..spawned
          BY <3>2 DEF TypeOK
        <4>2. aborted' = aborted \cup {running} /\ running' = 0
              /\ joins' = [joins EXCEPT ![p] = running]
          BY <1>3, <3>2 DEF CancelRunning
        <4>3. aborted' \subseteq 1..spawned
          BY <4>1, <4>2 DEF TypeOK
        <4>4. joins' \in [Procs -> 0..spawned]
          BY <4>1, <4>2 DEF TypeOK
        <4> QED
          BY <4>2, <4>3, <4>4 DEF TypeOK
      <3> QED
        BY <3>1, <3>2
    <2>4. \A q \in Procs : at'[q] = "joining" =>
            running' = 0 /\ \A r \in Procs \ {q} : at'[r] # "joining"
      BY <2>2 DEF RunningIsFree, TypeOK
    <2>5. Named'
      BY <1>3, <2>2 DEF CancelRunning, TypeOK, proxy
    <2>6. at' \in [Procs -> {"idle", "failed", "cancelling", "joining", "binding", "announcing",
                            "opening", "keeping", "stopping", "clearing", "resetting", "storing"}]
      BY <2>2 DEF TypeOK
    <2> QED
      BY <1>3, <2>1, <2>3, <2>4, <2>5, <2>6 DEF CancelRunning, TypeOK, store, proxy
  <1>4. ASSUME NEW p \in Procs, Joined(p) PROVE Typed'
    BY <1>4 DEF Joined, Then, TypeOK, store, checks, proxy
  <1>5. ASSUME NEW s \in Starts, NEW c \in Clients, IssueLeaf(s, c) PROVE Typed'
    <2>1. leaf' \in [Starts -> [ca : 0..MaxCas, client : Clients \cup {"none"}]]
      BY <1>5 DEF IssueLeaf, TypeOK
    <2>2. at' \in [Procs -> {"idle", "failed", "cancelling", "joining", "binding", "announcing",
                            "opening", "keeping", "stopping", "clearing", "resetting", "storing"}]
      BY <1>5 DEF IssueLeaf, TypeOK
    <2>3. \A r \in Starts : at'[r] \notin {"idle", "failed", "keeping"} =>
            leaf'[r].ca \in Cas /\ leaf'[r].client \in Clients
      BY <1>5 DEF IssueLeaf, TypeOK
    <2>4. quiet' \subseteq Calls
      BY <1>5 DEF IssueLeaf
    <2>5. \A r \in Procs : at'[r] # at[r] => at'[r] = "cancelling"
      BY <1>5 DEF IssueLeaf, TypeOK
    <2>6. UNCHANGED <<store, checks, running, status, gate, joins, what, proxy, trusted>>
      BY <1>5 DEF IssueLeaf
    <2>7. TypeOK'
      BY <2>1, <2>2, <2>4, <2>5, <2>6 DEF TypeOK, store, checks, proxy
    <2> QED
      BY <2>3, <2>6, <2>7 DEF store, checks, proxy
  <1>6. ASSUME NEW s \in Starts, Bind(s) PROVE Typed'
    <2>1. CASE at' = [at EXCEPT ![s] = "announcing"] /\ UNCHANGED leaf
      BY <1>6, <2>1 DEF Bind, TypeOK, store, checks, proxy
    <2>2. CASE at' = [at EXCEPT ![s] = "failed"] /\ leaf' = [leaf EXCEPT ![s] = NoLeaf]
      BY <1>6, <2>2 DEF Bind, NoLeaf, TypeOK, store, checks, proxy
    <2> QED
      BY <1>6, <2>1, <2>2 DEF Bind
  <1>7. ASSUME NEW s \in Starts, Announce(s) PROVE Typed'
    BY <1>7 DEF Announce, TypeOK, store, checks, proxy
  <1>8. ASSUME NEW s \in Starts, Spawn(s) PROVE Typed'
    <2>1. spawned' \in Checks /\ spawned' = spawned + 1
      BY <1>8 DEF Spawn, TypeOK
    <2>2. /\ check' = [check EXCEPT ![spawned'] =
               [at |-> "listening", ca |-> leaf[s].ca, client |-> leaf[s].client]]
          /\ leaf[s].ca \in Cas /\ leaf[s].client \in Clients
      BY <1>8 DEF Spawn
    <2>3. /\ leaf' = [leaf EXCEPT ![s] = NoLeaf]
          /\ at' = [at EXCEPT ![s] = "keeping"]
          /\ joins' = [joins EXCEPT ![s] = spawned']
      BY <1>8 DEF Spawn
    <2>4. check' \in [Checks -> Tasks]
      BY <2>1, <2>2 DEF Tasks, TypeOK
    <2>5. leaf' \in [Starts -> [ca : 0..MaxCas, client : Clients \cup {"none"}]]
      BY <2>3 DEF TypeOK, NoLeaf
    <2>6. joins' \in [Procs -> 0..spawned']
      BY <2>1, <2>3 DEF TypeOK
    <2>7. aborted' \subseteq 1..spawned' /\ running' \in 0..spawned'
      BY <1>8, <2>1 DEF Spawn, TypeOK
    <2>8. Named'
      <3>1. \A i \in Checks : check'[i].at \notin {"none", "done"} =>
              check'[i].ca \in Cas /\ check'[i].client \in Clients
        BY <2>1, <2>2 DEF TypeOK
      <3>2. \A r \in Starts : at'[r] \notin {"idle", "failed", "keeping"} =>
              leaf'[r].ca \in Cas /\ leaf'[r].client \in Clients
        BY <2>3 DEF TypeOK
      <3> QED
        BY <1>8, <3>1, <3>2 DEF Spawn, proxy
    <2> QED
      BY <1>8, <2>1, <2>3, <2>4, <2>5, <2>6, <2>7, <2>8 DEF Spawn, Tasks, TypeOK, store, proxy
  <1>9. ASSUME NEW s \in Starts, Keep(s) PROVE Typed'
    <2>1. at' \in [Procs -> {"idle", "failed", "cancelling", "joining", "binding", "announcing",
                            "opening", "keeping", "stopping", "clearing", "resetting", "storing"}]
      BY <1>9 DEF Keep, TypeOK
    <2>2. joins' \in [Procs -> 0..spawned] /\ running' \in 0..spawned
      BY <1>9 DEF Keep, TypeOK
    <2>3. \A r \in Procs : at'[r] = "joining" => at[r] = "joining"
      BY <1>9 DEF Keep, TypeOK
    <2>4. ~\E r \in Procs : at'[r] = "joining"
      BY <1>9, <2>3 DEF Keep, RunningIsFree
    <2>5. Named'
      BY <1>9, <2>1 DEF Keep, TypeOK, checks, proxy
    <2> QED
      BY <1>9, <2>1, <2>2, <2>4, <2>5 DEF Keep, TypeOK, store, checks, proxy
  <1>10. ASSUME NEW i \in Checks, CheckStep(i) PROVE Typed'
    <2>1. CASE Trust(i)
      <3>1. check' \in [Checks -> Tasks]
        BY <2>1, TaskGoesOn DEF Trust, Tasks, TypeOK
      <3>2. trusted' \subseteq Clients \X Cas
        <4>1. check[i].client \in Clients /\ check[i].ca \in Cas
          BY <2>1 DEF Trust
        <4> QED
          BY <2>1, <4>1 DEF Trust, TypeOK
      <3>3. Named'
        BY <2>1 DEF Trust, To, TypeOK, calls, proxy
      <3> QED
        BY <2>1, <3>1, <3>2, <3>3 DEF Trust, Tasks, TypeOK, store, calls, proxy
    <2>2. CASE Refuse(i)
      <3>1. check' \in [Checks -> Tasks]
        BY <2>2, TaskGoesOn DEF Refuse, Tasks, TypeOK
      <3>2. Named'
        BY <2>2 DEF Refuse, To, TypeOK, calls, proxy
      <3> QED
        BY <2>2, <3>1, <3>2 DEF Refuse, Tasks, TypeOK, store, calls, proxy
    <2>3. CASE Publish(i)
      BY <2>3 DEF Publish, To, TypeOK, store, calls, proxy
    <2>4. CASE Report(i)
      BY <2>4 DEF Report, Ended, NoTask, TypeOK, store, calls, proxy
    <2>5. CASE Aborted(i)
      BY <2>5 DEF Aborted, Ended, NoTask, TypeOK, store, calls, proxy
    <2> QED
      BY <1>10, <2>1, <2>2, <2>3, <2>4, <2>5 DEF CheckStep
  <1>11. ASSUME NEW k \in Calls, NEW c \in {"cancel", "generate", "remove"}, Call(k, c)
         PROVE  Typed'
    BY <1>11 DEF Call, TypeOK, store, checks, proxy
  <1>12. ASSUME NEW k \in Calls, CallStep(k) PROVE Typed'
    <2>1. CASE StopFirst(k)
      BY <2>1 DEF StopFirst, Stopped, TypeOK, store, checks
    <2>2. CASE ClearGate(k)
      BY <2>2 DEF ClearGate, TypeOK, store, checks, proxy
    <2>3. CASE Reset(k)
      BY <2>3 DEF Reset, TypeOK, store, checks, proxy
    <2>4. CASE ChangeCa(k)
      BY <2>4 DEF ChangeCa, TypeOK, checks, proxy
    <2> QED
      BY <1>12, <2>1, <2>2, <2>3, <2>4 DEF CallStep
  <1>13. ASSUME NEW c \in Clients, AskProxy(c) PROVE Typed'
    BY <1>13 DEF AskProxy, TypeOK, store, checks, calls
  <1>14. CASE CheckReadiness
    <2>1. opening' \in {[opening EXCEPT !.at = "starting"], NotAsked}
      BY <1>14 DEF CheckReadiness
    <2>2. opening.client \in Clients
      BY <1>14 DEF CheckReadiness
    <2>3. /\ opening' \in [at : {"idle", "checking", "starting"}, seen : 0..MaxCas,
                           client : Clients \cup {"none"}]
          /\ opening'.at # "idle" => opening'.client \in Clients
      BY <2>1, <2>2 DEF NotAsked, TypeOK
    <2> QED
      BY <1>14, <2>3 DEF CheckReadiness, TypeOK, store, checks, calls
  <1>15. CASE StartInspecting
    BY <1>15 DEF StartInspecting, NotAsked, TypeOK, store, checks, calls
  <1>16. CASE StartPlain
    BY <1>16 DEF StartPlain, TypeOK, store, checks, calls
  <1>17. CASE StopProxy
    BY <1>17 DEF StopProxy, Stopped, TypeOK, store, checks, calls
  <1>18. ASSUME NEW t \in Connections, ConnStep(t) PROVE Typed'
    <2>1. \E next \in {"idle", "opaque", "checking", "issuing", "bridged"}, seen \in 0..MaxCas :
            Move(t, next, seen) /\ OnlyConn
      BY <1>18 DEF ConnStep, ReadCa, Revalidate, Issue, Disconnect, TypeOK
    <2> QED
      BY <2>1 DEF Move, OnlyConn, TypeOK, store, checks, calls
  <1>19. CASE UNCHANGED vars
    BY <1>19 DEF vars, TypeOK, store, checks, calls, proxy
  <1> QED
    BY <1>1, <1>2, <1>3, <1>4, <1>5, <1>6, <1>7, <1>8, <1>9, <1>10, <1>11, <1>12,
       <1>13, <1>14, <1>15, <1>16, <1>17, <1>18, <1>19
    DEF Next, CancelStep, StartStep

(* TypeOK: values of their type, and the lock of `running` held by one     *)
(* waiting call, which has emptied it (TlsTrustCheckManager).              *)
THEOREM InspectionTypes == Spec => []TypeOK
  <1>1. Typed => TypeOK
    BY DEF Typed
  <1> QED
    BY TypeInit, TypeStep, <1>1, PTL DEF Spec

-----------------------------------------------------------------------------
(* Whatever is cancelled, removed or made again on the way: a gate, a task *)
(* that has seen the handshake, and a leaf that is being issued all stand  *)
(* for an acceptance by the profile they name.                             *)

Proven ==
  /\ gate # NoProof => <<gate.client, gate.ca>> \in trusted
  /\ \A i \in Checks : check[i].at = "confirming" => <<check[i].client, check[i].ca>> \in trusted
  /\ \A t \in Connections : conn[t].at \in {"issuing", "bridged"} =>
       <<run, conn[t].seen>> \in trusted

LEMMA ProvenInit == Init => Proven
  BY DEF Init, Proven, NoTask

LEMMA ProvenStep == Typed /\ Typed' /\ Proven /\ [Next]_vars => Proven'
  <1> SUFFICES ASSUME Typed, Typed', Proven, [Next]_vars PROVE Proven'
    OBVIOUS
  <1> USE NamesAssumption DEF Procs
  \* What touches neither the gate, the tasks, the run nor its connections.
  <1>1. ASSUME UNCHANGED <<gate, check, run, conn, trusted>> PROVE Proven'
    BY <1>1 DEF Proven
  <1>2. CASE CaLapses
    <2>1. gate' # NoProof => gate # NoProof /\ gate'.client = gate.client /\ gate'.ca = gate.ca
      BY <1>2 DEF CaLapses, Typed, TypeOK, Proof
    <2> QED
      BY <1>2, <2>1 DEF CaLapses, Proven, checks, proxy
  <1>3. CASE ProofLapses
    <2>1. gate # NoProof /\ gate'.client = gate.client /\ gate'.ca = gate.ca
      BY <1>3 DEF ProofLapses, Typed, TypeOK, Proof
    <2> QED
      BY <1>3, <2>1 DEF ProofLapses, Proven, checks, proxy
  <1>4. ASSUME NEW p \in Procs, CancelStep(p) PROVE Proven'
    BY <1>1, <1>4 DEF CancelStep, CancelRunning, Joined, checks, proxy
  <1>5. ASSUME NEW s \in Starts, NEW c \in Clients, IssueLeaf(s, c) PROVE Proven'
    BY <1>1, <1>5 DEF IssueLeaf, checks, proxy
  <1>6. ASSUME NEW s \in Starts, StartStep(s) PROVE Proven'
    <2>1. CASE Spawn(s)
      <3>1. \A i \in Checks : check'[i].at = "confirming" => check'[i] = check[i]
        BY <2>1 DEF Spawn, Typed, TypeOK, Tasks
      <3> QED
        BY <2>1, <3>1 DEF Spawn, Proven, proxy
    <2>2. CASE Bind(s) \/ Announce(s) \/ Keep(s)
      BY <1>1, <2>2 DEF Bind, Announce, Keep, checks, proxy
    <2> QED
      BY <1>6, <2>1, <2>2 DEF StartStep
  <1>7. ASSUME NEW i \in Checks, CheckStep(i) PROVE Proven'
    <2>1. CASE Trust(i)
      <3>1. \A j \in Checks : j # i => check'[j] = check[j]
        BY <2>1 DEF Trust, To, Typed, TypeOK
      <3>2. check'[i].client = check[i].client /\ check'[i].ca = check[i].ca
        BY <2>1 DEF Trust, To, Typed, TypeOK
      <3> QED
        BY <2>1, <3>1, <3>2 DEF Trust, Proven, proxy
    <2>2. CASE Refuse(i)
      <3>1. \A j \in Checks : check'[j].at = "confirming" => check'[j] = check[j]
        BY <2>2 DEF Refuse, To, Typed, TypeOK
      <3> QED
        BY <2>2, <3>1 DEF Refuse, Proven, proxy
    <2>3. CASE Publish(i)
      <3>1. \A j \in Checks : check'[j].at = "confirming" => check'[j] = check[j]
        BY <2>3 DEF Publish, To, Typed, TypeOK
      <3>2. gate'.client = check[i].client /\ gate'.ca = check[i].ca
        BY <2>3 DEF Publish
      <3> QED
        BY <2>3, <3>1, <3>2 DEF Publish, Proven, proxy
    <2>4. CASE Report(i) \/ Aborted(i)
      <3>1. \A j \in Checks : check'[j].at = "confirming" => check'[j] = check[j]
        BY <2>4 DEF Report, Aborted, Ended, NoTask, Typed, TypeOK
      <3> QED
        BY <2>4, <3>1 DEF Report, Aborted, Proven, proxy
    <2> QED
      BY <1>7, <2>1, <2>2, <2>3, <2>4 DEF CheckStep
  <1>8. ASSUME NEW k \in Calls, NEW c \in {"cancel", "generate", "remove"}, Call(k, c)
        PROVE  Proven'
    BY <1>1, <1>8 DEF Call, checks, proxy
  <1>9. ASSUME NEW k \in Calls, CallStep(k) PROVE Proven'
    <2>1. CASE StopFirst(k)
      BY <2>1 DEF StopFirst, Stopped, Proven, checks
    <2>2. CASE ClearGate(k)
      BY <2>2 DEF ClearGate, Proven, checks, proxy
    <2>3. CASE Reset(k) \/ ChangeCa(k)
      BY <1>1, <2>3 DEF Reset, ChangeCa, checks, proxy
    <2> QED
      BY <1>9, <2>1, <2>2, <2>3 DEF CallStep
  <1>10. ASSUME NEW c \in Clients, AskProxy(c) PROVE Proven'
    BY <1>1, <1>10 DEF AskProxy, checks
  <1>11. CASE CheckReadiness
    BY <1>1, <1>11 DEF CheckReadiness, checks
  \* No connection is there to be carried over into a run that starts.
  <1>12. CASE StartInspecting \/ StartPlain
    <2>1. run = "stopped" => \A t \in Connections : conn[t].at \notin {"issuing", "bridged"}
      <3>1. "stopped" \notin Clients
        BY NamesAssumption
      <3>2. \A x : <<"stopped", x>> \notin trusted
        BY <3>1 DEF Typed, TypeOK
      <3> QED
        BY <3>2 DEF Proven
    <2> QED
      BY <1>12, <2>1 DEF StartInspecting, StartPlain, Proven, checks
  <1>13. CASE StopProxy
    BY <1>13 DEF StopProxy, Stopped, Proven, checks
  <1>14. ASSUME NEW t \in Connections, ConnStep(t) PROVE Proven'
    <2>1. PICK next, seen :
            /\ Move(t, next, seen) /\ OnlyConn
            /\ next \in {"issuing", "bridged"} => <<run, seen>> \in trusted
      <3>1. CASE ReadCa(t)
        BY <3>1 DEF ReadCa
      <3>2. CASE Revalidate(t)
        BY <3>2 DEF Revalidate, Ready, Proven
      <3>3. CASE Issue(t)
        BY <3>3 DEF Issue, Proven
      <3>4. CASE Disconnect(t)
        BY <3>4 DEF Disconnect
      <3> QED
        BY <1>14, <3>1, <3>2, <3>3, <3>4 DEF ConnStep
    <2>2. /\ UNCHANGED <<run, trusted, gate, check, leaf, at>>
          /\ conn' = [conn EXCEPT ![t] = [at |-> next, seen |-> seen]]
      BY <2>1 DEF Move, OnlyConn, checks, calls
    <2>3. ASSUME NEW u \in Connections, conn'[u].at \in {"issuing", "bridged"}
          PROVE  <<run, conn'[u].seen>> \in trusted
      <3>1. CASE u = t
        <4>1. conn'[u] = [at |-> next, seen |-> seen]
          BY <2>2, <3>1 DEF Typed, TypeOK
        <4> QED
          BY <2>1, <2>3, <4>1
      <3>2. CASE u # t
        BY <2>2, <2>3, <3>2 DEF Proven, Typed, TypeOK
      <3> QED
        BY <3>1, <3>2
    <2> QED
      BY <2>2, <2>3 DEF Proven
  <1>15. CASE UNCHANGED vars
    BY <1>1, <1>15 DEF vars, checks, proxy
  <1> QED
    BY <1>2, <1>3, <1>4, <1>5, <1>6, <1>7, <1>8, <1>9, <1>10, <1>11, <1>12, <1>13,
       <1>14, <1>15 DEF Next

(* BridgesAreTrusted: a CONNECT is terminated only with a leaf of a CA     *)
(* that the profile of the run accepted in a handshake, however the steps  *)
(* of the commands and of the leaf issuer interleave.                      *)
THEOREM BridgesAlways == Spec => []BridgesAreTrusted
  <1>1. Proven => BridgesAreTrusted
    BY DEF Proven, BridgesAreTrusted
  <1> QED
    BY TypeInit, TypeStep, ProvenInit, ProvenStep, <1>1, PTL DEF Spec

-----------------------------------------------------------------------------
(* What a cancel leaves behind, when the window starts one check at a time *)
(* (two concurrent starts detach the first task, so the assumption is      *)
(* needed).                                                                *)

OneStart == \E s : Starts = {s}

Alive(i) == check[i].at \notin {"none", "done"}

\* Somebody has the handle of every task that is alive; a check that starts has
\* cancelled the one before; a quiet call found nobody starting, and whoever
\* might still publish a proof is the task it waits for.
Tended ==
  /\ \A i \in Checks : Alive(i) =>
       \/ running = i
       \/ \E p \in Procs : at[p] = "joining" /\ joins[p] = i
       \/ \E s \in Starts : at[s] = "keeping" /\ joins[s] = i
  /\ \A s \in Starts : at[s] \in {"binding", "announcing", "opening", "keeping"} => running = 0
  /\ quiet # {} => NoStart /\ running = 0
  /\ \A k \in quiet :
       /\ at[k] # "joining" => \A i \in Checks : ~Alive(i)
       /\ at[k] \notin {"joining", "clearing"} => gate = NoProof

LEMMA TendedInit == Init => Tended
  BY DEF Init, Tended, Alive, NoTask

\* A command moves on without touching tasks, handles and the gate.
LEMMA TendedMove ==
  ASSUME Typed, Tended, UNCHANGED <<check, running, gate, joins, quiet>>,
         NEW p \in Procs, NEW next, next \notin {"joining", "keeping"},
         at' = [at EXCEPT ![p] = next],
         at[p] \notin {"joining", "clearing", "keeping"},
         p \in Starts =>
           /\ at[p] \notin {"idle", "failed"} \/ next \in {"idle", "failed"}
           /\ next \in {"binding", "announcing", "opening"} => running = 0
  PROVE  Tended'
  <1> USE DEF Procs, Typed, TypeOK
  <1>1. \A q \in Procs : at'[q] = IF q = p THEN next ELSE at[q]
    OBVIOUS
  <1>2. \A i \in Checks : Alive(i)' = Alive(i)
    BY DEF Alive
  <1>3. quiet # {} => NoStart'
    BY <1>1 DEF Tended, NoStart
  <1>4. \A k \in quiet : k \in Procs
    OBVIOUS
  <1>5. \A k \in quiet : /\ at'[k] # "joining" => \A i \in Checks : ~Alive(i)
                         /\ at'[k] \notin {"joining", "clearing"} => gate = NoProof
    BY <1>1, <1>4 DEF Tended
  <1>6. \A i \in Checks : Alive(i) =>
          \/ running = i
          \/ \E q \in Procs : at'[q] = "joining" /\ joins[q] = i
          \/ \E s \in Starts : at'[s] = "keeping" /\ joins[s] = i
    BY <1>1 DEF Tended
  <1>7. \A s \in Starts : at'[s] \in {"binding", "announcing", "opening", "keeping"} => running = 0
    BY <1>1 DEF Tended
  <1> QED
    BY <1>2, <1>3, <1>5, <1>6, <1>7 DEF Tended

LEMMA TendedStep == OneStart /\ Typed /\ Tended /\ [Next]_vars => Tended'
  <1> SUFFICES ASSUME OneStart, Typed, Tended, [Next]_vars PROVE Tended'
    OBVIOUS
  <1> USE NamesAssumption DEF Procs, store, checks, calls, proxy
  \* What touches neither tasks, handles, calls nor the gate.
  <1>1. ASSUME UNCHANGED <<check, running, at, joins, quiet>>, gate = NoProof => gate' = NoProof
        PROVE  Tended'
    BY <1>1 DEF Tended, Alive, NoStart
  <1>2. CASE CaLapses \/ ProofLapses
    BY <1>1, <1>2 DEF CaLapses, ProofLapses
  <1>3. ASSUME NEW p \in Procs, CancelRunning(p) PROVE Tended'
    <2>1. \A q \in Procs : at[q] # "joining"
      BY <1>3 DEF CancelRunning, RunningIsFree
    <2>2. /\ UNCHANGED <<check, gate>> /\ running' = 0
          /\ \A q \in Procs \ {p} : at'[q] = at[q] /\ joins'[q] = joins[q]
          /\ at[p] = "cancelling"
          /\ \/ running = 0 /\ at'[p] = Then(p)
             \/ running # 0 /\ at'[p] = "joining" /\ joins'[p] = running
      BY <1>3 DEF CancelRunning, Typed, TypeOK
    <2>3. \A i \in Checks : Alive(i)' => Alive(i)
      BY <2>2 DEF Alive
    <2>4. \A i \in Checks : Alive(i) => i # 0
      BY DEF Checks
    <2>5. \A i \in Checks : Alive(i)' =>
            \/ \E q \in Procs : at'[q] = "joining" /\ joins'[q] = i
            \/ \E s \in Starts : at'[s] = "keeping" /\ joins'[s] = i
      BY <2>1, <2>2, <2>3, <2>4 DEF Tended
    <2>6. quiet' # {} => NoStart'
      BY <1>3, <2>2 DEF CancelRunning, Quiet, NoStart, Tended
    <2>7. ASSUME NEW k \in quiet'
          PROVE  /\ at'[k] # "joining" => \A i \in Checks : ~Alive(i)'
                 /\ at'[k] \notin {"joining", "clearing"} => gate' = NoProof
      <3>0. p \in Calls /\ NoStart
        BY <1>3, <2>2, <2>7 DEF CancelRunning, Quiet, NoStart, Tended
      <3>1. CASE k = p
        <4>1. running = 0 => \A i \in Checks : ~Alive(i)
          BY <2>1, <2>4, <3>0 DEF Tended, NoStart
        <4> QED
          BY <2>2, <2>3, <3>0, <3>1, <4>1 DEF Then
      <3>2. CASE k # p
        <4>1. k \in quiet /\ k \in Procs
          BY <1>3, <2>7, <3>2 DEF CancelRunning, Quiet, Typed, TypeOK
        <4> QED
          BY <2>2, <2>3, <3>2, <4>1 DEF Tended
      <3> QED
        BY <3>1, <3>2
    <2> QED
      BY <2>2, <2>5, <2>6, <2>7 DEF Tended
  <1>4. ASSUME NEW p \in Procs, Joined(p) PROVE Tended'
    <2>1. /\ UNCHANGED <<check, running, gate, quiet>>
          /\ at[p] = "joining" /\ check[joins[p]].at = "done"
          /\ \A q \in Procs : at'[q] = IF q = p THEN Then(p) ELSE at[q]
          /\ \A q \in Procs \ {p} : joins'[q] = joins[q]
      BY <1>4 DEF Joined, Typed, TypeOK
    <2>2. running = 0 /\ \A q \in Procs \ {p} : at[q] # "joining"
      BY <2>1 DEF Typed, TypeOK
    <2>3. Then(p) \in {"binding", "clearing"} /\ (Then(p) = "binding" <=> p \in Starts)
      BY DEF Then
    <2>4. \A i \in Checks : Alive(i)' = Alive(i) /\ (Alive(i) => i # 0)
      BY <2>1 DEF Alive, Checks
    <2>5. \A i \in Checks : Alive(i) => \E s \in Starts : at[s] = "keeping" /\ joins[s] = i
      BY <2>1, <2>2, <2>4 DEF Tended, Alive
    <2>6. \A i \in Checks : Alive(i)' => \E s \in Starts : at'[s] = "keeping" /\ joins'[s] = i
      BY <2>1, <2>4, <2>5
    <2>7. quiet # {} => NoStart /\ NoStart' /\ \A i \in Checks : ~Alive(i)
      BY <2>1, <2>3, <2>5 DEF Tended, NoStart
    <2>8. \A k \in quiet : k \in Procs /\ (at'[k] \notin {"joining", "clearing"} => gate = NoProof)
      BY <2>1, <2>2, <2>3, <2>7 DEF Tended, Typed, TypeOK, NoStart
    <2>9. /\ \A s \in Starts : at'[s] \in {"binding", "announcing", "opening", "keeping"} => running' = 0
          /\ quiet' # {} => NoStart' /\ running' = 0
      BY <2>1, <2>2, <2>7
    <2>10. \A k \in quiet' : /\ at'[k] # "joining" => \A i \in Checks : ~Alive(i)'
                             /\ at'[k] \notin {"joining", "clearing"} => gate' = NoProof
      BY <2>1, <2>4, <2>7, <2>8
    <2>11. \A i \in Checks : Alive(i)' =>
             \/ running' = i
             \/ \E q \in Procs : at'[q] = "joining" /\ joins'[q] = i
             \/ \E s \in Starts : at'[s] = "keeping" /\ joins'[s] = i
      BY <2>6
    <2> QED
      BY <2>9, <2>10, <2>11 DEF Tended
  <1>5. ASSUME NEW s \in Starts, NEW c \in Clients, IssueLeaf(s, c) PROVE Tended'
    <2>1. /\ UNCHANGED <<check, running, gate, joins>> /\ quiet' = {}
          /\ at[s] \in {"idle", "failed"}
          /\ \A q \in Procs : at'[q] = IF q = s THEN "cancelling" ELSE at[q]
      BY <1>5 DEF IssueLeaf, Typed, TypeOK
    <2> QED
      BY <2>1 DEF Tended, Alive
  <1>6. ASSUME NEW s \in Starts, Bind(s) \/ Announce(s) PROVE Tended'
    <2>1. /\ UNCHANGED <<check, running, gate, joins, quiet>> /\ s \in Procs
          /\ at[s] \in {"binding", "announcing"}
          /\ \E next \in {"announcing", "opening", "failed"} : at' = [at EXCEPT ![s] = next]
      BY <1>6 DEF Bind, Announce
    <2>2. running = 0
      BY <2>1 DEF Tended
    <2> QED
      BY <2>1, <2>2, TendedMove
  <1>7. ASSUME NEW s \in Starts, Spawn(s) PROVE Tended'
    <2>1. /\ UNCHANGED <<running, quiet>> /\ at[s] = "opening"
          /\ \A q \in Procs \ {s} : at'[q] = at[q] /\ joins'[q] = joins[q]
          /\ at'[s] = "keeping" /\ joins'[s] = spawned'
          /\ \A i \in Checks \ {spawned'} : check'[i] = check[i]
      BY <1>7 DEF Spawn, Typed, TypeOK
    <2>2. quiet = {} /\ running = 0
      BY <2>1 DEF Tended, NoStart
    <2>3. \A i \in Checks : Alive(i)' =>
            \/ \E p \in Procs : at'[p] = "joining" /\ joins'[p] = i
            \/ \E r \in Starts : at'[r] = "keeping" /\ joins'[r] = i
      <3> SUFFICES ASSUME NEW i \in Checks \ {spawned'}, Alive(i)
                   PROVE  \/ \E p \in Procs : at'[p] = "joining" /\ joins'[p] = i
                          \/ \E r \in Starts : at'[r] = "keeping" /\ joins'[r] = i
        BY <2>1 DEF Alive
      <3>1. i # 0
        BY DEF Checks
      <3> QED
        BY <2>1, <2>2, <3>1 DEF Tended
    <2>4. \A r \in Starts : at'[r] \in {"binding", "announcing", "opening", "keeping"} => running' = 0
      BY <2>1, <2>2
    <2> QED
      BY <2>1, <2>2, <2>3, <2>4 DEF Tended
  <1>8. ASSUME NEW s \in Starts, Keep(s) PROVE Tended'
    <2>1. /\ UNCHANGED <<check, gate, quiet>> /\ at[s] = "keeping" /\ RunningIsFree
          /\ running' = joins[s] /\ at' = [at EXCEPT ![s] = "idle"] /\ Starts = {s}
      BY <1>8 DEF Keep, OneStart
    <2>2. quiet = {} /\ running = 0
      BY <2>1 DEF Tended, NoStart
    <2>3. \A i \in Checks : Alive(i)' => running' = i
      <3> SUFFICES ASSUME NEW i \in Checks, Alive(i) PROVE joins[s] = i
        BY <2>1 DEF Alive
      <3>1. i # 0
        BY DEF Checks
      <3> QED
        BY <2>1, <2>2, <3>1 DEF Tended, RunningIsFree
    <2>4. \A r \in Starts : at'[r] = "idle"
      BY <2>1 DEF Typed, TypeOK
    <2> QED
      BY <2>1, <2>2, <2>3, <2>4 DEF Tended
  <1>9. ASSUME NEW i \in Checks, CheckStep(i) PROVE Tended'
    <2>1. /\ UNCHANGED <<running, at, joins, quiet>>
          /\ Alive(i) /\ \A j \in Checks : Alive(j)' => Alive(j)
      BY <1>9 DEF CheckStep, Trust, Refuse, Publish, Report, Aborted, To, Ended, NoTask,
                  Alive, Typed, TypeOK
    <2>2. \A k \in quiet : at[k] = "joining"
      BY <2>1 DEF Tended
    <2> QED
      BY <2>1, <2>2 DEF Tended, NoStart
  <1>10. ASSUME NEW k \in Calls, NEW c \in {"cancel", "generate", "remove"}, Call(k, c)
         PROVE  Tended'
    <2>1. /\ UNCHANGED <<check, running, gate, joins, quiet>> /\ at[k] = "idle"
          /\ k \in Procs /\ k \notin Starts
          /\ \E next \in {"cancelling", "stopping"} : at' = [at EXCEPT ![k] = next]
      BY <1>10 DEF Call
    <2> QED
      BY <2>1, TendedMove
  <1>11. ASSUME NEW k \in Calls, StopFirst(k) \/ Reset(k) \/ ChangeCa(k) PROVE Tended'
    <2>1. /\ UNCHANGED <<check, running, gate, joins, quiet>>
          /\ at[k] \in {"stopping", "resetting", "storing"}
          /\ k \in Procs /\ k \notin Starts
          /\ \E next \in {"cancelling", "idle", "storing"} : at' = [at EXCEPT ![k] = next]
      BY <1>11 DEF StopFirst, Reset, ChangeCa
    <2> QED
      BY <2>1, TendedMove
  <1>12. ASSUME NEW k \in Calls, ClearGate(k) PROVE Tended'
    <2>1. /\ UNCHANGED <<check, running, joins, quiet>> /\ gate' = NoProof /\ at[k] = "clearing"
          /\ \A q \in Procs : at'[q] = IF q = k THEN "resetting" ELSE at[q]
          /\ k \notin Starts
      BY <1>12 DEF ClearGate, Typed, TypeOK
    <2>2. \A s \in Starts : at'[s] = at[s]
      BY <2>1
    <2>3. \A q \in quiet : q \in Procs /\ (at'[q] # "joining" => at[q] # "joining")
      BY <2>1 DEF Typed, TypeOK
    <2>4. \A i \in Checks : Alive(i)' = Alive(i)
      BY <2>1 DEF Alive
    <2>5. \A i \in Checks : Alive(i) =>
            \/ running = i
            \/ \E p \in Procs : at'[p] = "joining" /\ joins[p] = i
            \/ \E s \in Starts : at'[s] = "keeping" /\ joins[s] = i
      BY <2>1, <2>2 DEF Tended
    <2>6. quiet # {} => NoStart' /\ running = 0
      BY <2>2 DEF Tended, NoStart
    <2> QED
      BY <2>1, <2>2, <2>3, <2>4, <2>5, <2>6 DEF Tended
  <1>13. CASE (\E c \in Clients : AskProxy(c)) \/ CheckReadiness \/ StartInspecting
    BY <1>1, <1>13 DEF AskProxy, CheckReadiness, StartInspecting
  <1>14. CASE StartPlain \/ StopProxy \/ \E t \in Connections : ConnStep(t)
    BY <1>1, <1>14 DEF StartPlain, StopProxy, ConnStep, ReadCa, Revalidate, Issue, Disconnect,
                       OnlyConn
  <1>15. CASE UNCHANGED vars
    BY <1>1, <1>15 DEF vars
  <1> QED
    BY <1>2, <1>3, <1>4, <1>5, <1>6, <1>7, <1>8, <1>9, <1>10, <1>11, <1>12, <1>13, <1>14, <1>15
       DEF Next, CancelStep, StartStep, CallStep

(* While one check is started at a time, a cancel or a change of CA that   *)
(* has finished leaves no task alive and no proof, although the task would *)
(* publish its outcome without asking (cancel_running waits for its end    *)
(* with the lock held).                                                    *)
THEOREM CancelDiscardsAlways == OneStart => (Spec => []CancelDiscards)
  <1> SUFFICES ASSUME OneStart PROVE Spec => []CancelDiscards
    OBVIOUS
  <1>1. Tended => CancelDiscards
    BY DEF Tended, CancelDiscards, Alive
  <1>2. Typed /\ Tended /\ [Next]_vars => Tended'
    BY TendedStep
  <1> QED
    BY TypeInit, TypeStep, TendedInit, <1>1, <1>2, PTL DEF Spec
=============================================================================
