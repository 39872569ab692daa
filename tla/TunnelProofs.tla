---------------------------- MODULE TunnelProofs ----------------------------
(* Theorems about tunnels and their captures, for any number of tunnels    *)
(* and of requests inside them.                                            *)
EXTENDS Tunnel, SequenceTheorems, TLAPS

(* A request that has arrived belongs to a connection and reports to its   *)
(* own capture or to that of the CONNECT, which is then no longer free; no *)
(* other request has that one.                                             *)
Linked ==
  /\ \A s \in Streams : stream[s] # "none" =>
       /\ home[s] \in Conns /\ conn[home[s]] # "closed"
       /\ owns[s] = s \/ (owns[s] = home[s] /\ home[s] \notin fresh)
  /\ \A r, s \in Streams :
       stream[r] # "none" /\ stream[s] # "none" /\ owns[r] = home[r] /\ owns[s] = home[s]
         /\ home[r] = home[s] => r = s

(* Nothing is recorded of what has not begun, and what nobody listed has   *)
(* no template.                                                            *)
Unborn ==
  /\ \A t \in Conns : conn[t] = "closed" => t \notin list /\ capture[t].outcome = "absent"
  /\ \A s \in Streams : stream[s] = "none" => s \notin list /\ capture[s].outcome = "absent"

(* A request with a template has a target the tunnel refuses.              *)
Refusable ==
  /\ \A k \in templates : k \in Streams /\ form[k] = "foreign" /\ stream[k] # "none"
  /\ \A s \in Streams : stream[s] \in {"queued", "streaming"} => form[s] # "foreign"
  /\ \A k \in templates : owns[k] = k /\ capture[k].outcome # "complete"

IInv == Typed /\ Linked /\ Unborn /\ Refusable /\ PendingIsHeld

LEMMA InitIInv == Init => IInv
  BY KeysAssumption DEF Init, IInv, Typed, Linked, Unborn, Refusable, PendingIsHeld, Working, Keys,
                        Form, Absent

-----------------------------------------------------------------------------
(* What happens to one capture.                                            *)

Outcome == {"absent", "pending", "complete", "error"}
Status == {"none", "tunnel", "upstream", "error"}

\* A report keeps the outcome of the capture, or is its first one.
Report(k, new) ==
  /\ new \in [outcome : Outcome, status : Status]
  /\ \/ new.outcome = capture[k].outcome
     \/ capture[k].outcome = "pending" /\ new.outcome \in {"complete", "error"}

LEMMA FinishedReports ==
  ASSUME NEW old \in [outcome : Outcome, status : Status], NEW result \in {"complete", "error"}
  PROVE  /\ Finished(old, result) \in [outcome : Outcome, status : Status]
         /\ Finished(old, result).outcome # "pending"
         /\ \/ Finished(old, result).outcome = old.outcome
            \/ old.outcome = "pending" /\ Finished(old, result).outcome = result
  BY DEF Finished, Outcome

\* What the handlers report about a capture, each a report that leaves it
\* settled except the change of a status.
LEMMA Reports ==
  ASSUME Typed, NEW k \in Keys
  PROVE  /\ \A v \in Status : /\ Report(k, [capture[k] EXCEPT !.status = v])
                              /\ [capture[k] EXCEPT !.status = v].outcome = capture[k].outcome
         /\ \A result \in {"complete", "error"} :
              /\ Report(k, Finished(capture[k], result))
              /\ Finished(capture[k], result).outcome # "pending"
              /\ capture[k].outcome = "complete" \/ result = "complete"
                   \/ Finished(capture[k], result).outcome # "complete"
         /\ Report(k, Refused(capture[k])) /\ Refused(capture[k]).outcome # "pending"
         /\ capture[k].outcome = "complete" \/ Refused(capture[k]).outcome # "complete"
         /\ Report(k, Finished([capture[k] EXCEPT !.status = "upstream"], "complete"))
         /\ Finished([capture[k] EXCEPT !.status = "upstream"], "complete").outcome # "pending"
<1>1. capture[k] \in [outcome : Outcome, status : Status]
  BY DEF Typed, Outcome, Status
<1> DEFINE WithStatus(v) == [capture[k] EXCEPT !.status = v]
<1>2. ASSUME NEW v \in Status
      PROVE  WithStatus(v) \in [outcome : Outcome, status : Status]
             /\ WithStatus(v).outcome = capture[k].outcome
  BY <1>1
<1>3. "error" \in Status /\ "upstream" \in Status
  BY DEF Status
<1>4. QED
  BY <1>1, <1>2, <1>3, FinishedReports DEF Report, Refused, Finished, Outcome

\* How a step treats the captures: not at all, or it reports about one.
Reported ==
  /\ UNCHANGED <<list, templates>>
  /\ \/ UNCHANGED capture
     \/ \E k \in Keys : \E new \in [outcome : Outcome, status : Status] :
          Update(k, new) /\ Report(k, new)

LEMMA ReportedBy ==
  ASSUME Typed, NEW k \in Keys, UNCHANGED <<list, templates>>,
         \/ \E v \in Status : Update(k, [capture[k] EXCEPT !.status = v])
         \/ \E result \in {"complete", "error"} : Update(k, Finished(capture[k], result))
         \/ Update(k, Refused(capture[k]))
         \/ Update(k, Finished([capture[k] EXCEPT !.status = "upstream"], "complete"))
  PROVE  Reported
<1>1. ASSUME NEW new, Update(k, new), Report(k, new) PROVE Reported
  <2>1. new \in [outcome : Outcome, status : Status]
    BY <1>1 DEF Report
  <2> QED
    BY <1>1, <2>1 DEF Reported
<1> HIDE DEF Reported
<1>2. CASE \E v \in Status : Update(k, [capture[k] EXCEPT !.status = v])
  BY <1>1, <1>2, Reports
<1>3. CASE \E result \in {"complete", "error"} : Update(k, Finished(capture[k], result))
  BY <1>1, <1>3, Reports
<1>4. QED
  BY <1>1, <1>2, <1>3, Reports

LEMMA TunnelReports ==
  ASSUME Typed, NEW t \in Conns,
         \/ ConnectFails(t) \/ Establish(t) \/ TunnelFails(t) \/ Upgraded(t) \/ Handshaken(t)
         \/ LifetimeEnds(t) \/ Abort(t) \/ UpstreamCloses(t)
  PROVE  Reported
<1>1. t \in Keys
  BY DEF Keys
<1>2. ASSUME UNCHANGED captures PROVE Reported
  BY <1>2 DEF captures, Reported
<1>3. CASE ConnectFails(t)
  BY <1>1, <1>3, ReportedBy DEF ConnectFails
<1>4. CASE Establish(t)
  BY <1>1, <1>4, ReportedBy DEF Establish, Status
<1>5. CASE TunnelFails(t)
  BY <1>1, <1>5, ReportedBy DEF TunnelFails
<1>6. CASE CopyEnds(t)
  BY <1>1, <1>6, ReportedBy DEF CopyEnds
<1>7. CASE ServeEnds(t)
  BY <1>1, <1>7, ReportedBy DEF ServeEnds
<1>8. CASE Abort(t)
  <2>1. CASE UNCHANGED capture
    BY <1>8, <2>1 DEF Abort, Reported
  <2>2. CASE Update(t, Finished(capture[t], "error"))
    BY <1>1, <1>8, <2>2, ReportedBy DEF Abort
  <2> QED
    BY <1>8, <2>1, <2>2 DEF Abort
<1>9. QED
  BY <1>2, <1>3, <1>4, <1>5, <1>6, <1>7, <1>8 DEF Upgraded, Handshaken, UpstreamCloses, LifetimeEnds

LEMMA OwnsKey ==
  ASSUME Typed, Linked, NEW s \in Streams, stream[s] # "none"
  PROVE  owns[s] \in Keys /\ home[s] \in Conns
  BY DEF Linked, Keys

LEMMA StreamReports ==
  ASSUME Typed, Linked, NEW s \in Streams, StreamStep(s)
  PROVE  Reported
<1>1. stream[s] # "none"
  BY DEF StreamStep, Refuse, Enter, Respond, ForwardFails, RequestTimesOut, RequestBodyFails,
         ResponseEnds, Reset, DropExchange, Sends
<1>2. owns[s] \in Keys
  BY <1>1, OwnsKey
<1>3. CASE Refuse(s)
  BY <1>2, <1>3, ReportedBy DEF Refuse
<1>4. CASE Enter(s)
  BY <1>2, <1>4, ReportedBy DEF Enter, Status
<1>5. CASE Respond(s)
  <2>1. \/ Update(owns[s], [capture[owns[s]] EXCEPT !.status = "upstream"])
        \/ Update(owns[s], Finished([capture[owns[s]] EXCEPT !.status = "upstream"], "complete"))
    BY <1>5 DEF Respond
  <2> QED
    BY <1>2, <1>5, <2>1, ReportedBy DEF Respond, Status
<1>6. CASE ForwardFails(s)
  BY <1>2, <1>6, ReportedBy DEF ForwardFails
<1>7. CASE RequestTimesOut(s)
  BY <1>2, <1>7, ReportedBy DEF RequestTimesOut
<1>8. CASE RequestBodyFails(s)
  BY <1>2, <1>8, ReportedBy DEF RequestBodyFails
<1>9. CASE ResponseEnds(s)
  BY <1>2, <1>9, ReportedBy DEF ResponseEnds
<1>10. CASE Reset(s)
  BY <1>10 DEF Reset, captures, Reported
<1>11. CASE DropExchange(s)
  <2>1. CASE UNCHANGED capture
    BY <1>11, <2>1 DEF DropExchange, Reported
  <2>2. CASE Update(owns[s], Finished(capture[owns[s]], "error"))
    BY <1>2, <1>11, <2>2, ReportedBy DEF DropExchange
  <2> QED
    BY <1>11, <2>1, <2>2 DEF DropExchange
<1>12. QED
  BY <1>3, <1>4, <1>5, <1>6, <1>7, <1>8, <1>9, <1>10, <1>11 DEF StreamStep

LEMMA Effects ==
  ASSUME Typed, Linked, [Next]_vars
  PROVE  \/ Reported
         \/ \E k \in Keys : Forget(k)
         \/ \E t \in Conns : Connect(t) \/ \E s \in Streams : Arrive(s, t)
<1>1. CASE UNCHANGED vars \/ Stop \/ Stopped
  BY <1>1 DEF vars, captures, Reported, Stop, Stopped
<1>2. CASE \E t \in Conns : TunnelStep(t)
  BY <1>2, TunnelReports DEF TunnelStep
<1>3. CASE \E s \in Streams : StreamStep(s)
  BY <1>3, StreamReports
<1>4. QED
  BY <1>1, <1>2, <1>3 DEF Next

\* What becomes of the outcomes.
LEMMA ReportedOutcomes ==
  ASSUME Typed, Reported
  PROVE  /\ capture' \in [Keys -> [outcome : Outcome, status : Status]]
         /\ UNCHANGED <<list, templates>>
         /\ \A j \in Keys : \/ capture'[j].outcome = capture[j].outcome
                            \/ /\ j \in list /\ capture[j].outcome = "pending"
                               /\ capture'[j].outcome \in {"complete", "error"}
         /\ \A j \in Keys : j \notin list => capture'[j] = capture[j]
<1>1. capture \in [Keys -> [outcome : Outcome, status : Status]]
  BY DEF Typed, Outcome, Status
<1>2. CASE UNCHANGED capture
  BY <1>1, <1>2 DEF Reported
<1>3. ASSUME NEW k \in Keys, NEW new \in [outcome : Outcome, status : Status],
             Update(k, new), Report(k, new)
      PROVE  /\ capture' \in [Keys -> [outcome : Outcome, status : Status]]
             /\ \A j \in Keys : j # k => capture'[j] = capture[j]
             /\ k \notin list => capture' = capture
             /\ capture'[k] = new \/ capture'[k] = capture[k]
  BY <1>1, <1>3 DEF Update
<1>4. ASSUME NEW k \in Keys, NEW new \in [outcome : Outcome, status : Status],
             Update(k, new), Report(k, new)
      PROVE  \A j \in Keys :
               /\ \/ capture'[j].outcome = capture[j].outcome
                  \/ /\ j \in list /\ capture[j].outcome = "pending"
                     /\ capture'[j].outcome \in {"complete", "error"}
               /\ j \notin list => capture'[j] = capture[j]
  BY <1>3, <1>4 DEF Report
<1>5. QED
  BY <1>1, <1>2, <1>3, <1>4 DEF Reported

LEMMA TypedStep ==
  ASSUME Typed, Linked, [Next]_vars
  PROVE  Typed'
<1> DEFINE Control ==
      /\ phase' \in {"running", "draining", "stopped"}
      /\ conn' \in [Conns -> {"closed", "preparing", "upgrading", "handshaking", "copying",
                              "serving", "ended"}]
      /\ inspected' \subseteq Conns /\ http2' \subseteq Conns
      /\ fresh' \subseteq Conns /\ upstream' \subseteq Conns
      /\ stream' \in [Streams -> Working \cup {"none", "dropping", "done"}]
      /\ form' \in [Streams -> Form]
      /\ home' \in [Streams -> Conns \cup {Nobody}]
      /\ owns' \in [Streams -> Keys \cup {Nobody}]
<1> DEFINE Listed == /\ list' \subseteq Keys /\ templates' \subseteq list'
                     /\ capture' \in [Keys -> [outcome : Outcome, status : Status]]
<1>1. Conns \subseteq Keys /\ Streams \subseteq Keys
  BY DEF Keys
<1>2. capture \in [Keys -> [outcome : Outcome, status : Status]] /\ Pending \in [outcome : Outcome, status : Status]
  BY DEF Typed, Outcome, Status, Pending
<1>3. Listed
  <2>1. CASE Reported
    BY <2>1, ReportedOutcomes DEF Typed
  <2>2. ASSUME NEW k \in Keys, Forget(k) PROVE Listed
    BY <1>2, <2>2 DEF Forget, Typed
  <2>3. ASSUME NEW t \in Conns, Connect(t) PROVE Listed
    BY <1>1, <1>2, <2>3 DEF Connect, Typed
  <2>4. ASSUME NEW t \in Conns, NEW s \in Streams, Arrive(s, t) PROVE Listed
    <3>1. CASE UNCHANGED captures
      BY <1>2, <2>4, <3>1 DEF captures, Typed
    <3>2. CASE /\ list' = list \cup {s} /\ capture' = [capture EXCEPT ![s] = Pending]
               /\ templates' \subseteq templates \cup {s}
      BY <1>1, <1>2, <2>4, <3>2 DEF Typed
    <3> QED
      BY <2>4, <3>1, <3>2 DEF Arrive
  <2> QED
    BY <2>1, <2>2, <2>3, <2>4, Effects
<1>4. ASSUME UNCHANGED <<tunnels, requests>> PROVE Control
  BY <1>4 DEF Typed, tunnels, requests
<1>5. ASSUME NEW t \in Conns,
             ConnectFails(t) \/ Establish(t) \/ TunnelFails(t) \/ Upgraded(t) \/ Handshaken(t)
               \/ CopyEnds(t) \/ Connect(t) \/ UpstreamCloses(t)
      PROVE  Control
  BY <1>5 DEF ConnectFails, Establish, TunnelFails, Upgraded, Handshaken, CopyEnds, Connect,
              UpstreamCloses, ConnGoto, Typed, requests
<1>6. ASSUME NEW t \in Conns, ServeEnds(t) \/ Abort(t) PROVE Control
  <2>1. stream' \in [Streams -> Working \cup {"none", "dropping", "done"}]
    BY <1>6 DEF ServeEnds, Abort, DropWith, Typed
  <2> QED
    BY <1>6, <2>1 DEF ServeEnds, Abort, ConnGoto, Typed
<1>7. ASSUME NEW t \in Conns, NEW s \in Streams, Arrive(s, t) PROVE Control
  BY <1>1, <1>7 DEF Arrive, Goto, Typed, Working
<1>8. ASSUME NEW s \in Streams, StreamStep(s) PROVE Control
  <2>1. UNCHANGED <<tunnels, form, home, owns>>
    BY <1>8 DEF StreamStep, Refuse, Enter, Respond, ForwardFails, RequestTimesOut, RequestBodyFails,
                ResponseEnds, Reset, DropExchange, requests
  <2>2. UNCHANGED stream \/ \E v \in Working \cup {"dropping", "done"} : Goto(s, v)
    BY <1>8 DEF StreamStep, Refuse, Enter, Respond, ForwardFails, RequestTimesOut, RequestBodyFails,
                ResponseEnds, Reset, DropExchange, requests, Working
  <2> QED
    BY <2>1, <2>2 DEF Typed, Goto, tunnels
<1>9. ASSUME Stop \/ Stopped PROVE Control
  BY <1>9 DEF Stop, Stopped, Typed, requests
<1> HIDE DEF Control
<1>10. Control
  BY <1>4, <1>5, <1>6, <1>7, <1>8, <1>9 DEF Next, TunnelStep, LifetimeEnds, Forget, vars
<1>11. QED
  BY <1>3, <1>10 DEF Typed, Control, Outcome, Status

-----------------------------------------------------------------------------
(* The control of requests and connections.                                *)

\* No step but an arrival begins a request or gives it a capture, and a request
\* waits only with a target that is accepted.
Continues ==
  /\ UNCHANGED <<form, home, owns, fresh>>
  /\ \A t \in Conns : conn[t] # "closed" => conn'[t] # "closed"
  /\ \A s \in Streams :
       /\ stream'[s] = "none" <=> stream[s] = "none"
       /\ stream'[s] \in {"queued", "streaming"} =>
            stream[s] \in {"queued", "streaming"} \/ form[s] # "foreign"

LEMMA ContinuesStep ==
  ASSUME Typed, [Next]_vars
  PROVE  Continues \/ \E s \in Streams, t \in Conns : Arrive(s, t)
<1>1. /\ conn \in [Conns -> {"closed", "preparing", "upgrading", "handshaking", "copying",
                            "serving", "ended"}]
      /\ stream \in [Streams -> Working \cup {"none", "dropping", "done"}]
  BY DEF Typed
<1>2. ASSUME UNCHANGED <<conn, fresh, stream, form, home, owns>> PROVE Continues
  BY <1>2 DEF Continues
<1>3. ASSUME NEW t \in Conns, NEW v, v # "closed", ConnGoto(t, v), UNCHANGED <<fresh, form, home, owns, stream>>
      PROVE  Continues
  BY <1>1, <1>3 DEF Continues, ConnGoto
<1>4. ASSUME NEW t \in Conns,
             ConnectFails(t) \/ Establish(t) \/ TunnelFails(t) \/ Handshaken(t)
               \/ CopyEnds(t) \/ Connect(t)
      PROVE  Continues
  BY <1>3, <1>4 DEF ConnectFails, Establish, TunnelFails, Handshaken, CopyEnds, Connect, requests
<1>5. ASSUME NEW t \in Conns, Upgraded(t) PROVE Continues
  BY <1>3, <1>5 DEF Upgraded, requests
<1>6. ASSUME NEW t \in Conns, ServeEnds(t) \/ Abort(t) PROVE Continues
  <2>1. UNCHANGED <<fresh, form, home, owns>> /\ ConnGoto(t, "ended") /\ DropWith(t)
    BY <1>6 DEF ServeEnds, Abort
  <2>2. \A s \in Streams :
          /\ stream'[s] = "none" <=> stream[s] = "none"
          /\ stream'[s] \in {"queued", "streaming"} => stream[s] \in {"queued", "streaming"}
    BY <1>1, <2>1 DEF DropWith, Working
  <2> QED
    BY <1>1, <2>1, <2>2 DEF Continues, ConnGoto
<1>7. ASSUME NEW s \in Streams, NEW v \in {"queued", "streaming", "dropping", "done"}, Goto(s, v),
             stream[s] # "none",
             v \in {"queued", "streaming"} => stream[s] \in {"queued", "streaming"} \/ form[s] # "foreign",
             UNCHANGED <<tunnels, form, home, owns>>
      PROVE  Continues
  BY <1>1, <1>7 DEF Continues, Goto, tunnels
<1>8. ASSUME NEW s \in Streams, StreamStep(s) PROVE Continues
  <2>1. CASE Enter(s)
    BY <1>7, <2>1 DEF Enter, ValidTarget
  <2>2. CASE Refuse(s)
    BY <1>7, <2>2 DEF Refuse
  <2>3. CASE Respond(s)
    BY <1>7, <2>3 DEF Respond, Sends
  <2>4. CASE ForwardFails(s) \/ RequestTimesOut(s)
    BY <1>7, <2>4 DEF ForwardFails, RequestTimesOut, Sends
  <2>5. CASE ResponseEnds(s) \/ Reset(s) \/ DropExchange(s)
    BY <1>7, <2>5 DEF ResponseEnds, Reset, DropExchange
  <2>6. CASE RequestBodyFails(s)
    BY <1>2, <2>6 DEF RequestBodyFails, tunnels, requests
  <2> QED
    BY <1>8, <2>1, <2>2, <2>3, <2>4, <2>5, <2>6 DEF StreamStep
<1>9. ASSUME \/ Stop \/ Stopped \/ UNCHANGED vars \/ \E t \in Conns : UpstreamCloses(t)
             \/ \E k \in Keys : Forget(k)
      PROVE  Continues
  BY <1>2, <1>9 DEF Stop, Stopped, vars, UpstreamCloses, Forget, tunnels, requests
<1>10. QED
  BY <1>4, <1>5, <1>6, <1>8, <1>9 DEF Next, TunnelStep, LifetimeEnds

LEMMA LinkedStep ==
  ASSUME Typed, Linked, [Next]_vars
  PROVE  Linked'
<1>1. CASE Continues
  BY <1>1 DEF Linked, Continues
<1>2. ASSUME NEW s \in Streams, NEW t \in Conns, Arrive(s, t) PROVE Linked'
  <2>1. /\ stream[s] = "none" /\ conn[t] = "serving" /\ conn' = conn /\ fresh' \subseteq fresh
        /\ stream' = [stream EXCEPT ![s] = "arrived"] /\ home' = [home EXCEPT ![s] = t]
        /\ \/ t \in fresh /\ fresh' = fresh \ {t} /\ owns' = [owns EXCEPT ![s] = t]
           \/ owns' = [owns EXCEPT ![s] = s]
    BY <1>2 DEF Arrive, Goto
  <2>2. /\ stream'[s] = "arrived" /\ home'[s] = t
        /\ owns'[s] = s \/ (owns'[s] = t /\ t \in fresh /\ t \notin fresh')
        /\ \A r \in Streams \ {s} : stream'[r] = stream[r] /\ home'[r] = home[r] /\ owns'[r] = owns[r]
    BY <2>1 DEF Typed
  <2>3. \A r \in Streams : stream'[r] # "none" =>
          /\ home'[r] \in Conns /\ conn'[home'[r]] # "closed"
          /\ owns'[r] = r \/ (owns'[r] = home'[r] /\ home'[r] \notin fresh')
    BY <2>1, <2>2 DEF Linked
  <2>4. s # t
    BY KeysAssumption
  <2>5. ASSUME NEW r \in Streams, r # s, stream'[r] # "none", owns'[r] = home'[r], owns'[s] = home'[s],
               home'[r] = home'[s]
        PROVE FALSE
    <3>1. t \in fresh
      BY <2>2, <2>4, <2>5
    <3>2. owns[r] = home[r] /\ home[r] = t /\ stream[r] # "none"
      BY <2>2, <2>5
    <3>3. owns[r] # r
      BY <3>2, KeysAssumption
    <3> QED
      BY <3>1, <3>2, <3>3 DEF Linked
  <2>6. \A r, q \in Streams :
          stream'[r] # "none" /\ stream'[q] # "none" /\ owns'[r] = home'[r] /\ owns'[q] = home'[q]
            /\ home'[r] = home'[q] => r = q
    BY <2>2, <2>5 DEF Linked
  <2> QED
    BY <2>3, <2>6 DEF Linked
<1>3. QED
  BY <1>1, <1>2, ContinuesStep

LEMMA UnbornStep ==
  ASSUME Typed, Linked, Unborn, [Next]_vars
  PROVE  Unborn'
<1>1. capture \in [Keys -> [outcome : Outcome, status : Status]] /\ list \subseteq Keys
  BY DEF Typed, Outcome, Status
<1>2. Conns \subseteq Keys /\ Streams \subseteq Keys /\ Conns \cap Streams = {}
  BY KeysAssumption DEF Keys
<1>3. CASE Continues /\ (Reported \/ \E k \in Keys : Forget(k))
  <2>1. \A j \in Keys : j \notin list => j \notin list' /\ capture'[j] = capture[j]
    BY <1>3, ReportedOutcomes DEF Forget
  <2>2. \A t \in Conns : conn'[t] = "closed" => conn[t] = "closed"
    BY <1>3 DEF Continues
  <2>3. \A s \in Streams : stream'[s] = "none" => stream[s] = "none"
    BY <1>3 DEF Continues
  <2> QED
    BY <1>2, <2>1, <2>2, <2>3 DEF Unborn
<1>4. ASSUME NEW t \in Conns, Connect(t) PROVE Unborn'
  <2>1. conn'[t] = "preparing" /\ stream' = stream
    BY <1>4 DEF Connect, ConnGoto, requests, Typed
  <2>2. /\ list' = list \cup {t}
        /\ \A j \in Keys \ {t} : capture'[j] = capture[j]
        /\ \A u \in Conns \ {t} : conn'[u] = conn[u]
    BY <1>1, <1>4 DEF Connect, ConnGoto, Typed
  <2> QED
    BY <1>2, <2>1, <2>2 DEF Unborn
<1>5. ASSUME NEW s \in Streams, NEW t \in Conns, Arrive(s, t) PROVE Unborn'
  <2>1. conn' = conn /\ stream'[s] = "arrived" /\ \A r \in Streams \ {s} : stream'[r] = stream[r]
    BY <1>5 DEF Arrive, Goto, Typed
  <2>2. list' \subseteq list \cup {s} /\ \A j \in Keys \ {s} : capture'[j] = capture[j]
    BY <1>1, <1>5 DEF Arrive, captures
  <2> QED
    BY <1>2, <2>1, <2>2 DEF Unborn
<1>6. QED
  BY <1>3, <1>4, <1>5, Effects, ContinuesStep

-----------------------------------------------------------------------------
(* What completes, and who is left to report.                              *)

\* Nothing completes but a tunnel and a request that was let through.
LEMMA CompletesStep ==
  ASSUME Typed, Linked, [Next]_vars, NEW j \in Keys,
         capture[j].outcome # "complete", capture'[j].outcome = "complete"
  PROVE  j \in Conns \/ \E s \in Streams : owns[s] = j /\ stream[s] \in {"queued", "streaming"}
<1> DEFINE Right == j \in Conns \/ \E s \in Streams : owns[s] = j /\ stream[s] \in {"queued", "streaming"}
<1>1. capture \in [Keys -> [outcome : Outcome, status : Status]] /\ Conns \subseteq Keys /\ Streams \subseteq Keys
  BY DEF Typed, Outcome, Status, Keys
<1>2. ASSUME NEW k \in Keys, NEW new, Update(k, new), j # k \/ new.outcome # "complete"
      PROVE  FALSE
  BY <1>1, <1>2 DEF Update
<1>3. ASSUME NEW k \in Keys, Update(k, Refused(capture[k])) PROVE FALSE
  BY <1>2, <1>3, Reports
<1>4. ASSUME NEW k \in Keys, Update(k, Finished(capture[k], "error")) PROVE FALSE
  BY <1>2, <1>4, Reports
<1>5. ASSUME NEW k \in Keys, NEW v \in Status, Update(k, [capture[k] EXCEPT !.status = v]) PROVE FALSE
  BY <1>2, <1>5, Reports
<1>6. ASSUME NEW s \in Streams, StreamStep(s) PROVE Right
  <2>1. stream[s] # "none"
    BY <1>6 DEF StreamStep, Refuse, Enter, Respond, ForwardFails, RequestTimesOut, RequestBodyFails,
           ResponseEnds, Reset, DropExchange, Sends
  <2>2. owns[s] \in Keys
    BY <2>1, OwnsKey
  <2>3. CASE Respond(s) \/ ResponseEnds(s)
    <3>1. \E new : Update(owns[s], new)
      BY <2>3 DEF Respond, ResponseEnds
    <3>2. owns[s] = j
      BY <1>2, <2>2, <3>1
    <3> QED
      BY <2>3, <3>2 DEF Respond, ResponseEnds, Sends
  <2>4. CASE Refuse(s) \/ ForwardFails(s) \/ RequestTimesOut(s)
    BY <1>3, <2>2, <2>4 DEF Refuse, ForwardFails, RequestTimesOut
  <2>5. CASE Enter(s)
    BY <1>5, <2>2, <2>5 DEF Enter, Status
  <2>6. CASE RequestBodyFails(s)
    BY <1>4, <2>2, <2>6 DEF RequestBodyFails
  <2>7. CASE Reset(s)
    BY <2>7 DEF Reset, captures
  <2>8. CASE DropExchange(s)
    <3>1. UNCHANGED capture \/ Update(owns[s], Finished(capture[owns[s]], "error"))
      BY <2>8 DEF DropExchange
    <3> QED
      BY <1>4, <2>2, <3>1
  <2> QED
    BY <1>6, <2>3, <2>4, <2>5, <2>6, <2>7, <2>8 DEF StreamStep
<1>7. ASSUME NEW t \in Conns, TunnelStep(t) PROVE Right
  <2>1. \/ UNCHANGED captures \/ UNCHANGED capture
        \/ \E new : Update(t, new) \/ capture' = [capture EXCEPT ![t] = new]
    BY <1>7 DEF TunnelStep, Connect, ConnectFails, Establish, TunnelFails, Upgraded, Handshaken,
                LifetimeEnds, CopyEnds, ServeEnds, Abort, UpstreamCloses
  <2>2. t = j
    BY <1>1, <2>1 DEF captures, Update
  <2> QED
    BY <2>2
<1>8. ASSUME NEW s \in Streams, NEW t \in Conns, Arrive(s, t) PROVE FALSE
  BY <1>1, <1>8 DEF Arrive, captures, Pending
<1>9. ASSUME UNCHANGED vars \/ Stop \/ Stopped \/ \E k \in Keys : Forget(k) PROVE FALSE
  BY <1>9 DEF vars, captures, Stop, Stopped, Forget
<1>10. QED
  BY <1>6, <1>7, <1>8, <1>9 DEF Next

LEMMA RefusableStep ==
  ASSUME Typed, Linked, Refusable, [Next]_vars
  PROVE  Refusable'
<1>1. templates \subseteq Streams /\ Streams \subseteq Keys /\ Conns \cap Streams = {}
  BY KeysAssumption DEF Refusable, Keys
<1>2. \A k \in templates : capture'[k].outcome # "complete"
  <2> SUFFICES ASSUME NEW k \in templates, capture'[k].outcome = "complete" PROVE FALSE
    OBVIOUS
  <2>1. k \in Streams /\ form[k] = "foreign" /\ owns[k] = k /\ capture[k].outcome # "complete"
    BY DEF Refusable
  <2>2. PICK s \in Streams : owns[s] = k /\ stream[s] \in {"queued", "streaming"}
    BY <1>1, <2>1, CompletesStep
  <2>3. owns[s] = s
    BY <1>1, <2>1, <2>2 DEF Linked
  <2> QED
    BY <2>1, <2>2, <2>3 DEF Refusable
<1>3. ASSUME NEW s \in Streams, NEW t \in Conns, Arrive(s, t) PROVE Refusable'
  <2>1. /\ stream[s] = "none" /\ stream' = [stream EXCEPT ![s] = "arrived"] /\ form' = form
        /\ \A r \in Streams \ {s} : owns'[r] = owns[r]
    BY <1>3 DEF Arrive, Goto, Typed
  <2>2. \A k \in templates : k # s
    BY <2>1 DEF Refusable
  <2>3. \/ templates' = templates
        \/ /\ templates' \subseteq templates \cup {s}
           /\ s \in templates' => form[s] = "foreign" /\ owns'[s] = s /\ capture'[s].outcome = "pending"
    BY <1>1, <1>3, <2>2 DEF Arrive, captures, Pending, Typed
  <2>4. \A r \in Streams : stream'[r] = IF r = s THEN "arrived" ELSE stream[r]
    BY <2>1 DEF Typed
  <2> QED
    BY <1>1, <1>2, <2>1, <2>2, <2>3, <2>4 DEF Refusable
<1>4. CASE Continues /\ ~ \E s \in Streams, t \in Conns : Arrive(s, t)
  <2>1. templates' \subseteq templates
    BY <1>4, Effects DEF Reported, Forget, Connect
  <2> QED
    BY <1>1, <1>2, <1>4, <2>1 DEF Refusable, Continues
<1>5. QED
  BY <1>3, <1>4, ContinuesStep

\* Somebody will report about the capture.
Held(k) == k \in Live \/ \E s \in Streams : owns[s] = k /\ stream[s] \notin {"none", "done"}

LEMMA HolderHolds == \A k \in Keys : Holders(k) # {} <=> Held(k)
  BY DEF Holders, Held

\* Nobody lets go of a capture that is pending and listed.
LEMMA HoldersStay ==
  ASSUME Typed, Linked, [Next]_vars, NEW k \in Keys, Held(k),
         k \in list, capture[k].outcome = "pending", capture'[k].outcome = "pending"
  PROVE  Held(k)'
<1>1. /\ conn \in [Conns -> {"closed", "preparing", "upgrading", "handshaking", "copying",
                            "serving", "ended"}]
      /\ stream \in [Streams -> Working \cup {"none", "dropping", "done"}]
      /\ capture \in [Keys -> [outcome : Outcome, status : Status]]
      /\ owns \in [Streams -> Keys \cup {Nobody}]
      /\ Conns \cap Streams = {} /\ Conns \subseteq Keys
  BY KeysAssumption DEF Typed, Outcome, Status, Keys
<1>2. ASSUME UNCHANGED <<conn, stream, owns>> PROVE Held(k)'
  BY <1>2 DEF Held, Live
<1>3. ASSUME NEW new, Update(k, new), new.outcome # "pending" PROVE FALSE
  BY <1>1, <1>3 DEF Update
<1>4. ASSUME NEW t \in Conns, NEW v, ConnGoto(t, v), v # "closed", v # "ended" \/ t # k,
             UNCHANGED <<stream, owns>>
      PROVE  Held(k)'
  BY <1>1, <1>4 DEF Held, Live, ConnGoto
<1>5. ASSUME NEW t \in Conns, Connect(t) \/ Establish(t) \/ Upgraded(t) \/ Handshaken(t) PROVE Held(k)'
  BY <1>4, <1>5 DEF Connect, Establish, Upgraded, Handshaken, requests
<1>6. ASSUME NEW t \in Conns, ConnectFails(t) \/ TunnelFails(t) \/ CopyEnds(t) PROVE Held(k)'
  <2>1. /\ ConnGoto(t, "ended") /\ UNCHANGED <<stream, owns>>
        /\ \/ Update(t, Refused(capture[t]))
           \/ \E result \in {"complete", "error"} : Update(t, Finished(capture[t], result))
    BY <1>6 DEF ConnectFails, TunnelFails, CopyEnds, requests
  <2>2. t # k
    <3>1. SUFFICES ASSUME t = k PROVE FALSE
      OBVIOUS
    <3>2. \E new : Update(k, new) /\ new.outcome # "pending"
      <4>1. Refused(capture[k]).outcome # "pending"
        BY Reports
      <4>2. \A result \in {"complete", "error"} : Finished(capture[k], result).outcome # "pending"
        BY Reports
      <4> QED
        BY <2>1, <3>1, <4>1, <4>2
    <3> QED
      BY <1>3, <3>2
  <2> QED
    BY <1>4, <2>1, <2>2
<1>7. ASSUME NEW t \in Conns, ServeEnds(t) \/ Abort(t) PROVE Held(k)'
  <2>1. ConnGoto(t, "ended") /\ UNCHANGED owns /\ DropWith(t)
    BY <1>7 DEF ServeEnds, Abort
  <2>2. \A s \in Streams : stream[s] \notin {"none", "done"} => stream'[s] \notin {"none", "done"}
    BY <1>1, <2>1 DEF DropWith, Working
  <2>3. k # t \/ \E s \in Streams : owns[s] = k /\ stream[s] \notin {"none", "done"}
    <3>1. CASE ServeEnds(t)
      <4>1. Update(t, Finished(capture[t], "error"))
        BY <3>1 DEF ServeEnds
      <4>2. t \in Keys => Finished(capture[t], "error").outcome # "pending"
        BY Reports
      <4>3. k # t
        BY <1>1, <1>3, <4>1, <4>2
      <4> QED
        BY <4>3
    <3>2. CASE Abort(t) /\ k = t
      <4>1. CASE Holders(t) = {t}
        <5>1. Update(t, Finished(capture[t], "error"))
          BY <3>2, <4>1 DEF Abort
        <5> QED
          BY <1>1, <1>3, <3>2, <5>1, Reports
      <4>2. CASE Holders(t) # {t}
        <5>1. t \in Holders(t)
          BY <3>2 DEF Holders, Abort
        <5>2. PICK s \in Holders(t) : s # t
          BY <4>2, <5>1
        <5> QED
          BY <3>2, <5>2 DEF Holders
      <4> QED
        BY <4>1, <4>2
    <3> QED
      BY <1>7, <3>1, <3>2
  <2> QED
    BY <1>1, <2>1, <2>2, <2>3 DEF Held, Live, ConnGoto
<1>8. ASSUME NEW s \in Streams, NEW t \in Conns, Arrive(s, t) PROVE Held(k)'
  BY <1>1, <1>8 DEF Arrive, Goto, Held, Live
<1>9. ASSUME NEW s \in Streams, StreamStep(s) PROVE Held(k)'
  <2>1. UNCHANGED <<conn, owns>>
    BY <1>9 DEF StreamStep, Refuse, Enter, Respond, ForwardFails, RequestTimesOut, RequestBodyFails,
                ResponseEnds, Reset, DropExchange, requests, tunnels
  <2>2. CASE DropExchange(s)
    <3>1. Goto(s, "done")
      BY <2>2 DEF DropExchange
    <3>2. CASE LastHolder(s)
      <4>1. Update(owns[s], Finished(capture[owns[s]], "error"))
        BY <2>2, <3>2 DEF DropExchange
      <4>2. owns[s] # k
        BY <1>3, <4>1, Reports
      <4> QED
        BY <1>1, <2>1, <3>1, <4>2 DEF Held, Live, Goto
    <3>3. CASE ~LastHolder(s)
      BY <1>1, <2>1, <3>1, <3>3 DEF Held, Live, Goto, LastHolder
    <3> QED
      BY <3>2, <3>3
  <2>3. CASE ~DropExchange(s)
    <3>1. UNCHANGED stream \/ \E v \in Working \cup {"dropping"} : stream[s] # "none" /\ Goto(s, v)
      BY <1>9, <2>3 DEF StreamStep, Refuse, Enter, Respond, ForwardFails, RequestTimesOut,
         RequestBodyFails, ResponseEnds, Reset, Working, Sends, requests
    <3> QED
      BY <1>1, <2>1, <3>1 DEF Held, Live, Goto, Working
  <2> QED
    BY <2>2, <2>3
<1>10. ASSUME \/ Stop \/ Stopped \/ UNCHANGED vars \/ \E t \in Conns : UpstreamCloses(t)
              \/ \E j \in Keys : Forget(j)
       PROVE  Held(k)'
  BY <1>2, <1>10 DEF Stop, Stopped, vars, UpstreamCloses, Forget, tunnels, requests
<1>11. QED
  BY <1>5, <1>6, <1>7, <1>8, <1>9, <1>10 DEF Next, TunnelStep, LifetimeEnds

LEMMA HeldStep ==
  ASSUME Typed, Linked, Unborn, PendingIsHeld, [Next]_vars
  PROVE  PendingIsHeld'
<1> SUFFICES ASSUME NEW k \in list', capture'[k].outcome = "pending"
             PROVE  Holders(k)' # {}
  BY DEF PendingIsHeld
<1>1. k \in Keys /\ Streams \subseteq Keys /\ list \subseteq Keys
      /\ capture \in [Keys -> [outcome : Outcome, status : Status]]
  BY TypedStep DEF Typed, Keys, Outcome, Status
<1>2. Held(k)'
  <2>1. CASE k \in list /\ capture[k].outcome = "pending"
    <3>1. Held(k)
      BY <1>1, <2>1, HolderHolds DEF PendingIsHeld
    <3> QED
      BY <1>1, <2>1, <3>1, HoldersStay
  <2>2. ASSUME NEW t \in Conns, Connect(t), ~(k \in list /\ capture[k].outcome = "pending") PROVE Held(k)'
    <3>1. k = t
      BY <1>1, <2>2 DEF Connect
    <3> QED
      BY <2>2, <3>1 DEF Connect, ConnGoto, Held, Live, Typed
  <2>3. ASSUME NEW s \in Streams, NEW t \in Conns, Arrive(s, t),
               ~(k \in list /\ capture[k].outcome = "pending")
        PROVE  Held(k)'
    <3>1. k = s /\ owns'[s] = s
      BY <1>1, <2>3 DEF Arrive, captures, Typed
    <3>2. stream'[s] = "arrived"
      BY <2>3 DEF Arrive, Goto, Typed
    <3> QED
      BY <2>3, <3>1, <3>2 DEF Held
  <2>4. CASE Reported \/ \E j \in Keys : Forget(j)
    BY <1>1, <2>1, <2>4, ReportedOutcomes DEF Forget
  <2> QED
    BY <2>1, <2>2, <2>3, <2>4, Effects
<1>3. QED
  BY <1>1, <1>2 DEF Holders, Held, Live

-----------------------------------------------------------------------------
LEMMA IInvAlways == Spec => []IInv
<1>1. IInv /\ [Next]_vars => IInv'
  BY TypedStep, LinkedStep, UnbornStep, RefusableStep, HeldStep DEF IInv
<1>2. QED
  BY InitIInv, <1>1, PTL DEF Spec

-----------------------------------------------------------------------------
(* The queue of the sender.                                                *)

(* A request that joins a queue it is not in is there once.                *)
LEMMA Appended ==
  ASSUME NEW S, NEW q \in Seq(S), IsInjective(q), NEW e \in S, e \notin ToSet(q)
  PROVE  /\ Append(q, e) \in Seq(S)
         /\ IsInjective(Append(q, e))
         /\ ToSet(Append(q, e)) = ToSet(q) \cup {e}
<1> DEFINE longer == Append(q, e)
           n == Len(q)
<1>1. /\ longer \in Seq(S) /\ n \in Nat /\ DOMAIN q = 1..n /\ DOMAIN longer = 1..(n + 1)
      /\ longer[n + 1] = e /\ \A i \in 1..n : longer[i] = q[i]
  OBVIOUS
<1> HIDE DEF longer, n
<1>2. 1..(n + 1) = 1..n \cup {n + 1}
  BY <1>1
<1>3. IsInjective(longer)
  BY <1>1, <1>2 DEF IsInjective, ToSet
<1>4. ToSet(longer) = ToSet(q) \cup {e}
  BY <1>1, <1>2 DEF ToSet
<1>5. QED
  BY <1>1, <1>3, <1>4 DEF longer

(* What leaves a queue without duplicates is no longer there, and all      *)
(* others are.                                                             *)
LEMMA Removed ==
  ASSUME NEW S, NEW q \in Seq(S), IsInjective(q), NEW e
  PROVE  /\ RemoveFirst(q, e) \in Seq(S)
         /\ IsInjective(RemoveFirst(q, e))
         /\ ToSet(RemoveFirst(q, e)) = ToSet(q) \ {e}
<1>1. CASE ~\E i \in 1..Len(q) : q[i] = e
  BY <1>1 DEF RemoveFirst, ToSet, IsInjective
<1>2. CASE \E i \in 1..Len(q) : q[i] = e
  <2> DEFINE places == {j \in 1..Len(q) : q[j] = e}
  <2>1. PICK i \in 1..Len(q) : q[i] = e
    BY <1>2
  <2>2. places = {i}
    BY <2>1 DEF IsInjective
  <2>3. Min({i}) = i
    BY DEF Min
  <2>4. RemoveFirst(q, e) = RemoveAt(q, i)
    BY <1>2, <2>1, <2>2, <2>3 DEF RemoveFirst, SelectInSeq
  <2> DEFINE n == Len(q)
             before == SubSeq(q, 1, i - 1)
             after == SubSeq(q, i + 1, n)
             rest == before \o after
  <2>5. n \in Nat /\ i \in 1..n /\ DOMAIN q = 1..n
    OBVIOUS
  <2>6. /\ before \in Seq(S) /\ Len(before) = i - 1
        /\ \A j \in 1..(i - 1) : before[j] = q[j]
    <3>1. \A j \in 1..(i - 1) : q[j] \in S
      BY <2>5
    <3>2. /\ before \in Seq(S)
          /\ Len(before) = IF 1 <= i - 1 THEN (i - 1) - 1 + 1 ELSE 0
          /\ \A j \in 1..((i - 1) - 1 + 1) : before[j] = q[1 + j - 1]
      BY <2>5, <3>1, SubSeqProperties
    <3> HIDE DEF before, n
    <3>3. QED
      BY <2>5, <3>2
  <2>7. /\ after \in Seq(S) /\ Len(after) = n - i
        /\ \A j \in 1..(n - i) : after[j] = q[j + i]
    <3>1. \A j \in (i + 1)..n : q[j] \in S
      BY <2>5
    <3>2. /\ after \in Seq(S)
          /\ Len(after) = IF i + 1 <= n THEN n - (i + 1) + 1 ELSE 0
          /\ \A j \in 1..(n - (i + 1) + 1) : after[j] = q[(i + 1) + j - 1]
      BY <2>5, <3>1, SubSeqProperties
    <3> HIDE DEF after, n
    <3>3. QED
      BY <2>5, <3>2
  <2>8. /\ rest \in Seq(S) /\ DOMAIN rest = 1..(n - 1)
        /\ \A j \in 1..(n - 1) : rest[j] = IF j < i THEN q[j] ELSE q[j + 1]
    <3> HIDE DEF before, after, n
    <3>1. rest \in Seq(S) /\ Len(rest) = n - 1
      <4>1. rest \in Seq(S) /\ Len(rest) = Len(before) + Len(after)
        BY <2>6, <2>7, ConcatProperties
      <4>2. QED
        BY <2>5, <2>6, <2>7, <4>1
    <3>2. ASSUME NEW j \in 1..(n - 1) PROVE rest[j] = IF j < i THEN q[j] ELSE q[j + 1]
      <4>1. rest[j] = IF j <= i - 1 THEN before[j] ELSE after[j - (i - 1)]
        BY <2>5, <2>6, <2>7, ConcatProperties
      <4>2. CASE j < i
        BY <2>5, <2>6, <4>1, <4>2
      <4>3. CASE ~(j < i)
        <5>1. j - (i - 1) \in 1..(n - i) /\ (j - (i - 1)) + i = j + 1
          BY <2>5, <4>3
        <5>2. QED
          BY <2>5, <2>7, <4>1, <4>3, <5>1
      <4>4. QED
        BY <4>2, <4>3
    <3> HIDE DEF rest
    <3>3. QED
      BY <3>1, <3>2
  <2> HIDE DEF rest, n
  <2>9. IsInjective(rest)
    <3>1. ASSUME NEW j \in 1..(n - 1), NEW k \in 1..(n - 1), rest[j] = rest[k] PROVE j = k
      <4> DEFINE back(m) == IF m < i THEN m ELSE m + 1
      <4>1. rest[j] = q[back(j)] /\ rest[k] = q[back(k)]
        BY <2>5, <2>8
      <4>2. back(j) \in 1..n /\ back(k) \in 1..n
        BY <2>5
      <4>3. back(j) = back(k)
        BY <2>5, <3>1, <4>1, <4>2 DEF IsInjective
      <4>4. QED
        BY <2>5, <4>3
    <3>2. QED
      BY <2>8, <3>1 DEF IsInjective
  <2>10. ToSet(rest) = ToSet(q) \ {e}
    <3>1. ASSUME NEW j \in 1..(n - 1) PROVE rest[j] \in ToSet(q) \ {e}
      <4> DEFINE back == IF j < i THEN j ELSE j + 1
      <4>1. rest[j] = q[back]
        BY <2>5, <2>8
      <4>2. back \in 1..n /\ back # i
        BY <2>5
      <4>3. q[back] # e
        BY <2>1, <2>5, <4>2 DEF IsInjective
      <4>4. QED
        BY <2>5, <4>1, <4>2, <4>3 DEF ToSet
    <3>2. ASSUME NEW j \in 1..n, q[j] # e PROVE q[j] \in ToSet(rest)
      <4>1. j # i
        BY <2>1, <3>2
      <4>2. CASE j < i
        BY <2>5, <2>8, <4>2 DEF ToSet
      <4>3. CASE j > i
        <5>1. j - 1 \in 1..(n - 1) /\ ~(j - 1 < i) /\ (j - 1) + 1 = j
          BY <2>5, <4>3
        <5>2. QED
          BY <2>8, <5>1 DEF ToSet
      <4>4. QED
        BY <2>5, <4>1, <4>2, <4>3
    <3>3. QED
      BY <2>5, <2>8, <3>1, <3>2 DEF ToSet
  <2>11. QED
    BY <2>4, <2>8, <2>9, <2>10 DEF RemoveAt, rest, n
<1>3. QED
  BY <1>1, <1>2

(* What a request that waits for its turn changes in the queues and in the *)
(* list of those that wait, whatever becomes of it.                        *)
Joins(s) ==
  /\ stream[s] = "arrived" /\ Goto(s, "queued") /\ UNCHANGED home
  /\ queue' = [queue EXCEPT ![home[s]] = Append(@, s)]
Quits(s) ==
  /\ stream[s] \in {"queued", "streaming"} /\ UNCHANGED home
  /\ Leave(s) /\ \E v \in {"streaming", "dropping"} : Goto(s, v)
Abides ==
  /\ UNCHANGED queue
  /\ \A s \in Streams : stream'[s] = "queued" <=> stream[s] = "queued"
  /\ \A s \in Streams : stream[s] = "queued" => home'[s] = home[s]
Dropped(t) == DropWith(t) /\ UNCHANGED home

LEMMA QueueEffects ==
  ASSUME Typed, [Next]_vars
  PROVE  \/ Abides
         \/ \E s \in Streams : Joins(s) \/ Quits(s)
         \/ \E t \in Conns : Dropped(t)
<1>1. stream \in [Streams -> Working \cup {"none", "dropping", "done"}]
  BY DEF Typed
<1>2. ASSUME UNCHANGED requests PROVE Abides
  BY <1>2 DEF requests, Abides
<1>3. ASSUME NEW s \in Streams, NEW v, stream[s] # "queued", v # "queued", Goto(s, v),
             UNCHANGED <<home, queue>>
      PROVE  Abides
  BY <1>1, <1>3 DEF Goto, Abides
<1>4. ASSUME NEW t \in Conns, NEW s \in Streams, Arrive(s, t) PROVE Abides
  <2>1. /\ stream[s] = "none" /\ stream' = [stream EXCEPT ![s] = "arrived"]
        /\ home' = [home EXCEPT ![s] = t] /\ UNCHANGED queue
    BY <1>4 DEF Arrive, Goto
  <2>2. home \in [Streams -> Conns \cup {Nobody}]
    BY DEF Typed
  <2>3. QED
    BY <1>1, <2>1, <2>2 DEF Abides
<1>5. ASSUME NEW s \in Streams, Refuse(s) \/ ResponseEnds(s) \/ DropExchange(s) PROVE Abides
  BY <1>3, <1>5 DEF Refuse, ResponseEnds, DropExchange
<1>6. ASSUME NEW s \in Streams, RequestBodyFails(s) PROVE Abides
  BY <1>2, <1>6 DEF RequestBodyFails
<1>7. ASSUME NEW s \in Streams, Enter(s) PROVE Joins(s)
  BY <1>7 DEF Enter, Joins
<1>8. ASSUME NEW s \in Streams, Respond(s) PROVE Quits(s)
  BY <1>8 DEF Respond, Sends, Quits
<1>9. ASSUME NEW s \in Streams, ForwardFails(s) \/ RequestTimesOut(s) \/ Reset(s) PROVE Quits(s)
  BY <1>9 DEF ForwardFails, RequestTimesOut, Reset, Sends, Quits
<1>10. ASSUME NEW t \in Conns, ServeEnds(t) \/ Abort(t) PROVE Dropped(t)
  BY <1>10 DEF ServeEnds, Abort, Dropped
<1>11. ASSUME NEW t \in Conns,
              ConnectFails(t) \/ Establish(t) \/ TunnelFails(t) \/ Upgraded(t) \/ Handshaken(t)
                \/ CopyEnds(t) \/ Connect(t) \/ UpstreamCloses(t)
       PROVE  UNCHANGED requests
  BY <1>11 DEF ConnectFails, Establish, TunnelFails, Upgraded, Handshaken, CopyEnds, Connect,
               UpstreamCloses
<1>12. ASSUME Stop \/ Stopped \/ UNCHANGED vars \/ \E k \in Keys : Forget(k)
       PROVE  UNCHANGED requests
  BY <1>12 DEF Stop, Stopped, vars, Forget
<1>13. CASE \E s \in Streams : StreamStep(s)
  BY <1>5, <1>6, <1>7, <1>8, <1>9, <1>13 DEF StreamStep
<1>14. CASE \E t \in Conns : TunnelStep(t)
  BY <1>2, <1>10, <1>11, <1>14 DEF TunnelStep, LifetimeEnds
<1>15. QED
  BY <1>2, <1>4, <1>12, <1>13, <1>14 DEF Next

LEMMA QueuedStep ==
  ASSUME Typed, Linked, QueuedOnce, [Next]_vars
  PROVE  QueuedOnce'
<1>1. /\ stream \in [Streams -> Working \cup {"none", "dropping", "done"}]
      /\ home \in [Streams -> Conns \cup {Nobody}]
      /\ queue \in [Conns -> Seq(Streams)]
  BY DEF Typed, QueuedOnce
<1>2. ASSUME NEW t \in Conns
      PROVE  /\ queue[t] \in Seq(Streams) /\ IsInjective(queue[t])
             /\ \A s \in Streams : s \in ToSet(queue[t]) <=> home[s] = t /\ stream[s] = "queued"
             /\ ToSet(queue[t]) \subseteq Streams
  BY <1>2 DEF QueuedOnce, Of
<1>3. ASSUME queue' \in [Conns -> Seq(Streams)],
             \A t \in Conns : IsInjective(queue'[t]) /\ ToSet(queue'[t]) \subseteq Streams,
             \A t \in Conns : \A s \in Streams :
               s \in ToSet(queue'[t]) <=> home'[s] = t /\ stream'[s] = "queued"
      PROVE  QueuedOnce'
  <2>1. ASSUME NEW t \in Conns
        PROVE  ToSet(queue'[t]) = {s \in {r \in Streams : home'[r] = t} : stream'[s] = "queued"}
    BY <1>3, <2>1
  <2>2. QED
    BY <1>3, <2>1 DEF QueuedOnce, Of
<1>4. CASE Abides
  <2>1. \A t \in Conns : \A s \in Streams :
          home'[s] = t /\ stream'[s] = "queued" <=> home[s] = t /\ stream[s] = "queued"
    BY <1>4 DEF Abides
  <2>2. QED
    BY <1>1, <1>2, <1>3, <1>4, <2>1 DEF Abides
<1>5. ASSUME NEW s \in Streams, Joins(s) PROVE QueuedOnce'
  <2>1. home[s] \in Conns /\ s \notin ToSet(queue[home[s]])
    BY <1>2, <1>5 DEF Joins, Linked
  <2>2. /\ queue' = [queue EXCEPT ![home[s]] = Append(queue[home[s]], s)]
        /\ stream' = [stream EXCEPT ![s] = "queued"] /\ home' = home
    BY <1>5 DEF Joins, Goto
  <2>3. /\ queue'[home[s]] \in Seq(Streams)
        /\ IsInjective(queue'[home[s]])
        /\ ToSet(queue'[home[s]]) = ToSet(queue[home[s]]) \cup {s}
    BY <1>1, <1>2, <2>1, <2>2, Appended
  <2>4. \A t \in Conns \ {home[s]} : queue'[t] = queue[t]
    BY <1>1, <2>2
  <2>5. queue' \in [Conns -> Seq(Streams)]
    BY <1>1, <2>1, <2>2, <2>3
  <2>6. \A t \in Conns : IsInjective(queue'[t]) /\ ToSet(queue'[t]) \subseteq Streams
    BY <1>2, <2>1, <2>3, <2>4
  <2>7. \A t \in Conns : \A r \in Streams :
          r \in ToSet(queue'[t]) <=> home'[r] = t /\ stream'[r] = "queued"
    BY <1>1, <1>2, <2>1, <2>2, <2>3, <2>4
  <2>8. QED
    BY <1>3, <2>5, <2>6, <2>7
<1>6. ASSUME NEW s \in Streams, Quits(s) PROVE QueuedOnce'
  <2>1. home[s] \in Conns
    BY <1>6 DEF Quits, Linked
  <2>2. PICK v \in {"streaming", "dropping"} : Goto(s, v)
    BY <1>6 DEF Quits
  <2>3. /\ queue' = [queue EXCEPT ![home[s]] = RemoveFirst(queue[home[s]], s)]
        /\ stream' = [stream EXCEPT ![s] = v] /\ home' = home
    BY <1>6, <2>2 DEF Quits, Leave, Goto
  <2>4. /\ queue'[home[s]] \in Seq(Streams)
        /\ IsInjective(queue'[home[s]])
        /\ ToSet(queue'[home[s]]) = ToSet(queue[home[s]]) \ {s}
    BY <1>1, <1>2, <2>1, <2>3, Removed
  <2>5. \A t \in Conns \ {home[s]} : queue'[t] = queue[t]
    BY <1>1, <2>3
  <2>6. queue' \in [Conns -> Seq(Streams)]
    BY <1>1, <2>1, <2>3, <2>4
  <2>7. \A t \in Conns : IsInjective(queue'[t]) /\ ToSet(queue'[t]) \subseteq Streams
    BY <1>2, <2>1, <2>4, <2>5
  <2>8. \A t \in Conns : \A r \in Streams :
          r \in ToSet(queue'[t]) <=> home'[r] = t /\ stream'[r] = "queued"
    BY <1>1, <1>2, <2>1, <2>3, <2>4, <2>5
  <2>9. QED
    BY <1>3, <2>6, <2>7, <2>8
<1>7. ASSUME NEW t \in Conns, Dropped(t) PROVE QueuedOnce'
  <2>1. CASE UNCHANGED <<stream, queue, home>>
    BY <2>1, <1>1, <1>2, <1>3
  <2>2. CASE /\ stream' = [s \in Streams |->
                  IF home[s] = t /\ stream[s] \in Working THEN "dropping" ELSE stream[s]]
             /\ queue' = [queue EXCEPT ![t] = <<>>] /\ home' = home
    <3>1. <<>> \in Seq(Streams) /\ IsInjective(<<>>) /\ ToSet(<<>>) = {}
      BY DEF IsInjective, ToSet
    <3>2. queue'[t] = <<>> /\ \A u \in Conns \ {t} : queue'[u] = queue[u]
      BY <1>1, <2>2
    <3>3. queue' \in [Conns -> Seq(Streams)]
      BY <1>1, <2>2, <3>1
    <3>4. \A u \in Conns : IsInjective(queue'[u]) /\ ToSet(queue'[u]) \subseteq Streams
      BY <1>2, <3>1, <3>2
    <3>5. \A u \in Conns : \A s \in Streams :
            s \in ToSet(queue'[u]) <=> home'[s] = u /\ stream'[s] = "queued"
      BY <1>1, <1>2, <2>2, <3>1, <3>2 DEF Working
    <3>6. QED
      BY <1>3, <3>3, <3>4, <3>5
  <2>3. QED
    BY <1>7, <2>1, <2>2 DEF Dropped, DropWith
<1>8. QED
  BY <1>4, <1>5, <1>6, <1>7, QueueEffects

(* Every variable has its type, and nobody keeps or waits for the sender   *)
(* of a tunnel but its requests that wait, each once: no way out of        *)
(* forward_intercepted_https, a timeout, a reset or an aborted tunnel      *)
(* included, leaves the mutex locked or a place in its queue behind.       *)
THEOREM TypesAlways == Spec => []TypeOK
<1>1. Init => QueuedOnce
  <2>1. <<>> \in Seq(Streams) /\ IsInjective(<<>>) /\ ToSet(<<>>) = {}
    BY DEF IsInjective, ToSet
  <2>2. ASSUME Init, NEW t \in Conns
        PROVE  queue[t] = <<>> /\ {s \in Of(t) : stream[s] = "queued"} = {}
    BY <2>2 DEF Init, Of
  <2>3. QED
    BY <2>1, <2>2 DEF Init, QueuedOnce
<1>2. IInv /\ QueuedOnce /\ [Next]_vars => QueuedOnce'
  BY QueuedStep DEF IInv
<1>3. IInv /\ QueuedOnce => TypeOK
  BY DEF IInv, TypeOK
<1>4. QED
  BY <1>1, <1>2, <1>3, IInvAlways, PTL DEF Spec

(* Each request in a tunnel has a capture of its own: first_request is     *)
(* cleared by the swap that hands out the capture of the CONNECT, and the  *)
(* key of a request is not the key of a connection.                        *)
THEOREM OwnCaptureAlways == Spec => []OwnCapture
<1>1. IInv => OwnCapture
  BY KeysAssumption DEF IInv, Linked, OwnCapture
<1>2. QED
  BY IInvAlways, <1>1, PTL

(* A capture is pending only while a tunnel or a request holds its         *)
(* exchange, whichever of the two is dropped first.                        *)
THEOREM PendingIsHeldAlways == Spec => []PendingIsHeld
<1>1. IInv => PendingIsHeld
  BY DEF IInv
<1>2. QED
  BY IInvAlways, <1>1, PTL

(* valid_https_request refuses every target that left a template behind,   *)
(* so that what replay() may repeat was never inside a tunnel.             *)
THEOREM InnerIsNotReplayableAlways == Spec => []InnerIsNotReplayable
<1>1. IInv => InnerIsNotReplayable
  BY DEF IInv, Refusable, InnerIsNotReplayable
<1>2. QED
  BY IInvAlways, <1>1, PTL

-----------------------------------------------------------------------------
LEMMA OutcomesStep ==
  ASSUME IInv, [Next]_vars
  PROVE  [CapturesOf!Next]_(<<list, [k \in Keys |-> capture[k].outcome]>>)
<1> DEFINE outcome == [k \in Keys |-> capture[k].outcome]
<1>1. Typed /\ Linked /\ Unborn /\ capture \in [Keys -> [outcome : Outcome, status : Status]]
      /\ Conns \subseteq Keys /\ Streams \subseteq Keys
  BY DEF IInv, Typed, Outcome, Status, Keys
<1>2. CASE Reported
  <2>1. CASE \A j \in Keys : capture'[j].outcome = capture[j].outcome
    BY <1>2, <2>1 DEF Reported
  <2>2. CASE \E j \in Keys : capture'[j].outcome # capture[j].outcome
    <3>1. PICK k \in Keys, new \in [outcome : Outcome, status : Status] :
            Update(k, new) /\ Report(k, new)
      BY <1>2, <2>2 DEF Reported
    <3>2. /\ k \in list /\ capture' = [capture EXCEPT ![k] = new]
          /\ capture[k].outcome = "pending" /\ new.outcome \in {"complete", "error"}
      BY <1>1, <2>2, <3>1 DEF Update, Report
    <3>3. outcome' = [outcome EXCEPT ![k] = new.outcome]
      BY <1>1, <3>2
    <3>4. CapturesOf!Finish(k)
      BY <1>2, <3>2, <3>3 DEF CapturesOf!Finish, Reported
    <3> QED
      BY <3>1, <3>4 DEF CapturesOf!Next
  <2> QED
    BY <2>1, <2>2
<1>3. ASSUME NEW k \in Keys, Forget(k) PROVE CapturesOf!Forget
  BY <1>3 DEF Forget, CapturesOf!Forget
<1>4. ASSUME NEW k \in Keys, capture[k].outcome = "absent",
             list' = list \cup {k}, capture' = [capture EXCEPT ![k] = Pending]
      PROVE  CapturesOf!Begin(k)
  <2>1. outcome' = [outcome EXCEPT ![k] = "pending"]
    BY <1>1, <1>4 DEF Pending
  <2> QED
    BY <1>4, <2>1 DEF CapturesOf!Begin
<1>5. ASSUME NEW t \in Conns, Connect(t) PROVE CapturesOf!Next
  BY <1>1, <1>4, <1>5 DEF Connect, Unborn, CapturesOf!Next
<1>6. ASSUME NEW t \in Conns, NEW s \in Streams, Arrive(s, t)
      PROVE  UNCHANGED captures \/ CapturesOf!Next
  BY <1>1, <1>4, <1>6 DEF Arrive, Unborn, CapturesOf!Next
<1>7. QED
  BY <1>1, <1>2, <1>3, <1>5, <1>6, Effects DEF captures, CapturesOf!Next

(* However requests share the capture of a CONNECT, and whichever task     *)
(* reports first, a capture begins once and its first outcome stands: the  *)
(* tunnels implement the list that Captures describes.                     *)
THEOREM KeepsCapturesAlways == Spec => KeepsCaptures
<1>1. Init => CapturesOf!Init
  BY DEF Init, CapturesOf!Init, Absent
<1>2. IInv /\ [Next]_vars => [CapturesOf!Next]_(<<list, [k \in Keys |-> capture[k].outcome]>>)
  BY OutcomesStep
<1>3. QED
  BY <1>1, <1>2, IInvAlways, PTL DEF Spec, KeepsCaptures, CapturesOf!Spec
=============================================================================
