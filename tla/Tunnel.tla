------------------------------- MODULE Tunnel -------------------------------
(***************************************************************************)
(* CONNECT (crates/engine/src/proxy/tunnel.rs): the tunnel behind a        *)
(* connection, opaque or inspected, and the requests that arrive inside    *)
(* an inspected one, HTTP/1 one after the other or HTTP/2 side by side.    *)
(*                                                                         *)
(* A connection t is one task of the listener and carries one CONNECT,     *)
(* whose capture has the key t.  An inner request s runs in the task of    *)
(* its connection under HTTP/1 and in one of its own under HTTP/2.  All    *)
(* requests of a connection share one sender to the upstream behind a fair *)
(* mutex: queue[t] holds who waits for it, and its head has it.            *)
(*                                                                         *)
(* Left out: admission and policy (ProxyEngine), when a CONNECT may be     *)
(* inspected (Inspection), bodies (BodyStore), and byte counts.  Rules and *)
(* the pause of a breakpoint are part of the wait for the head of a        *)
(* response: the sender is held through both.                              *)
(***************************************************************************)
EXTENDS Naturals, Sequences, SequencesExt

CONSTANTS
  Conns,     \* connections that carry a CONNECT
  Streams,   \* requests inside inspected tunnels
  Nobody     \* no connection, no capture

Keys == Conns \cup Streams

ASSUME KeysAssumption ==
  /\ Conns \cap Streams = {}
  /\ Nobody \notin Keys

VARIABLES
  phase,     \* the listener: running, draining, or stopped
  conn,      \* how far each connection is
  inspected, \* tunnels that are terminated here
  http2,     \* tunnels that negotiated HTTP/2
  fresh,     \* first_request
  upstream,  \* tunnels whose spawned upstream connection is open
  stream,    \* how far each inner request is
  form,      \* the form of its target
  home,      \* its connection
  owns,      \* the capture it reports to
  queue,     \* the mutex around the sender to the upstream
  list,      \* captures in the list
  capture,   \* outcome and status of each
  templates  \* captures with a replay template

tunnels  == <<phase, conn, inspected, http2, fresh, upstream>>
requests == <<stream, form, home, owns, queue>>
captures == <<list, capture, templates>>
vars == <<tunnels, requests, captures>>

\* An origin form, https with the authority of the tunnel, anything else with a
\* scheme or an authority, or a request with an Upgrade header.
Form == {"origin", "own", "foreign", "upgrade"}

Absent == [outcome |-> "absent", status |-> "none"]
Pending == [outcome |-> "pending", status |-> "none"]

Init ==
  /\ phase = "running"
  /\ conn = [t \in Conns |-> "closed"]
  /\ inspected = {} /\ http2 = {} /\ upstream = {}
  /\ fresh = Conns
  /\ stream = [s \in Streams |-> "none"]
  /\ form \in [Streams -> Form]
  /\ home = [s \in Streams |-> Nobody]
  /\ owns = [s \in Streams |-> Nobody]
  /\ queue = [t \in Conns |-> <<>>]
  /\ list = {} /\ templates = {}
  /\ capture = [k \in Keys |-> Absent]

-----------------------------------------------------------------------------
(* Captures.                                                               *)

\* Exchange::update.
Update(k, new) == capture' = IF k \in list THEN [capture EXCEPT ![k] = new] ELSE capture

\* Slip: the last outcome wins.
LastOutcome(old, outcome) == [old EXCEPT !.outcome = outcome]

\* Exchange::finish.
Finished(old, outcome) ==
  IF old.outcome = "pending" THEN [old EXCEPT !.outcome = outcome] ELSE old

\* An error answered with a status of the proxy's own.
Refused(old) == Finished([old EXCEPT !.status = "error"], "error")

\* Slip: the template stays.
KeepTemplate(k) ==
  /\ k \in list
  /\ list' = list \ {k}
  /\ UNCHANGED <<tunnels, requests, capture, templates>>

\* Eviction or Clear, for any capture: their order is ProxyEngine's.
Forget(k) ==
  /\ k \in list
  /\ list' = list \ {k}
  /\ templates' = templates \ {k}
  /\ UNCHANGED <<tunnels, requests, capture>>

-----------------------------------------------------------------------------
(* The tunnel.                                                             *)

Live == {t \in Conns : conn[t] \notin {"closed", "ended"}}

ConnGoto(t, label) == conn' = [conn EXCEPT ![t] = label]

\* handle() has admitted the CONNECT and begun its exchange.
Connect(t) ==
  /\ phase = "running" /\ conn[t] = "closed"
  /\ ConnGoto(t, "preparing")
  /\ list' = list \cup {t}
  /\ capture' = [capture EXCEPT ![t] = Pending]
  /\ UNCHANGED <<phase, inspected, http2, fresh, upstream, requests, templates>>

\* A bad target, no leaf, no upstream, or the deadline of handle().
ConnectFails(t) ==
  /\ conn[t] = "preparing"
  /\ ConnGoto(t, "ended")
  /\ Update(t, Refused(capture[t]))
  /\ UNCHANGED <<phase, inspected, http2, fresh, upstream, requests, list, templates>>

\* The upstream is connected and the tunnel handed to the connection's task
\* before the client has the 200.
Establish(t) ==
  /\ conn[t] = "preparing"
  /\ ConnGoto(t, "upgrading")
  /\ inspected' \in {inspected, inspected \cup {t}}
  /\ Update(t, [capture[t] EXCEPT !.status = "tunnel"])
  /\ UNCHANGED <<phase, http2, fresh, upstream, requests, list, templates>>

\* The upgrade, a TLS handshake or the protocol negotiation failed or timed out.
TunnelFails(t) ==
  /\ conn[t] \in {"upgrading", "handshaking"}
  /\ ConnGoto(t, "ended")
  /\ Update(t, Finished(capture[t], "error"))
  /\ UNCHANGED <<phase, inspected, http2, fresh, upstream, requests, list, templates>>

Upgraded(t) ==
  /\ conn[t] = "upgrading"
  /\ ConnGoto(t, IF t \in inspected THEN "handshaking" ELSE "copying")
  /\ UNCHANGED <<phase, inspected, http2, fresh, upstream, requests, captures>>

\* The connection to the upstream gets a task that nobody joins.
Handshaken(t) ==
  /\ conn[t] = "handshaking"
  /\ ConnGoto(t, "serving")
  /\ http2' \in {http2, http2 \cup {t}}
  /\ upstream' = upstream \cup {t}
  /\ UNCHANGED <<phase, inspected, fresh, requests, captures>>

CopyEnds(t) ==
  /\ conn[t] = "copying"
  /\ ConnGoto(t, "ended")
  /\ \E outcome \in {"complete", "error"} : Update(t, Finished(capture[t], outcome))
  /\ UNCHANGED <<phase, inspected, http2, fresh, upstream, requests, list, templates>>

-----------------------------------------------------------------------------
(* How the service of an inspected tunnel ends.                            *)

Of(t) == {s \in Streams : home[s] = t}

Working == {"arrived", "queued", "streaming"}

\* Slip: every request runs on.
NoneDropped(t) == UNCHANGED <<stream, queue>>

\* Requests served in the task of the connection are dropped with it, their
\* places in the queue included; HTTP/2 requests have tasks of their own.
DropWith(t) ==
  IF t \in http2 THEN UNCHANGED <<stream, queue>>
  ELSE /\ stream' = [s \in Streams |->
            IF home[s] = t /\ stream[s] \in Working THEN "dropping" ELSE stream[s]]
       /\ queue' = [queue EXCEPT ![t] = <<>>]

\* The peers are done, the transfer fails, or the lifetime is over.
ServeEnds(t) ==
  /\ conn[t] = "serving"
  /\ ConnGoto(t, "ended")
  /\ upstream' = upstream \ {t}
  /\ DropWith(t)
  /\ Update(t, Finished(capture[t], "error"))
  /\ UNCHANGED <<phase, inspected, http2, fresh, form, home, owns, list, templates>>

\* Slip: only an opaque tunnel has a lifetime.
OpaqueLifetimeEnds(t) == CopyEnds(t)

LifetimeEnds(t) == CopyEnds(t) \/ ServeEnds(t)

-----------------------------------------------------------------------------
(* Requests inside an inspected tunnel.                                    *)

Goto(s, label) == stream' = [stream EXCEPT ![s] = label]

Active(t) == {s \in Of(t) : stream[s] \in Working}

\* Slip: the flag is read and never cleared.
SharesCapture(s, t) ==
  /\ stream[s] = "none" /\ conn[t] = "serving"
  /\ t \in http2 \/ Active(t) = {}
  /\ Goto(s, "arrived")
  /\ home' = [home EXCEPT ![s] = t]
  /\ owns' = [owns EXCEPT ![s] = t]
  /\ UNCHANGED <<tunnels, form, queue, captures>>

\* The first request takes over the capture of the CONNECT; the others begin
\* one, with a template if they look like plain HTTP.
Arrive(s, t) ==
  /\ stream[s] = "none" /\ conn[t] = "serving"
  /\ t \in http2 \/ Active(t) = {}
  /\ Goto(s, "arrived")
  /\ home' = [home EXCEPT ![s] = t]
  /\ \/ /\ t \in fresh
        /\ fresh' = fresh \ {t}
        /\ owns' = [owns EXCEPT ![s] = t]
        /\ UNCHANGED captures
     \/ /\ t \notin fresh
        /\ owns' = [owns EXCEPT ![s] = s]
        /\ list' = list \cup {s}
        /\ capture' = [capture EXCEPT ![s] = Pending]
        /\ templates' \in {templates, templates \cup (IF form[s] = "foreign" THEN {s} ELSE {})}
        /\ UNCHANGED fresh
  /\ UNCHANGED <<phase, conn, inspected, http2, upstream, form, queue>>

\* Slip: any absolute target is accepted under HTTP/2.
AnyAbsoluteTarget(s) ==
  form[s] = "origin" \/ (form[s] \in {"own", "foreign"} /\ home[s] \in http2)

ValidTarget(s) == form[s] = "origin" \/ (form[s] = "own" /\ home[s] \in http2)

Refuse(s) ==
  /\ stream[s] = "arrived" /\ ~ValidTarget(s)
  /\ Goto(s, "dropping")
  /\ Update(owns[s], Refused(capture[owns[s]]))
  /\ UNCHANGED <<tunnels, form, home, owns, queue, list, templates>>

\* The status of the CONNECT goes, then the request waits for the sender.
Enter(s) ==
  /\ stream[s] = "arrived" /\ ValidTarget(s)
  /\ Goto(s, "queued")
  /\ queue' = [queue EXCEPT ![home[s]] = Append(@, s)]
  /\ Update(owns[s], [capture[owns[s]] EXCEPT !.status = "none"])
  /\ UNCHANGED <<tunnels, form, home, owns, list, templates>>

\* Slip: a request that fails keeps the sender.
KeepSender(s) == UNCHANGED queue

\* The guard of the mutex, or the place in its queue, is dropped.
Leave(s) == queue' = [queue EXCEPT ![home[s]] = RemoveFirst(@, s)]

Sends(s) == stream[s] = "queued" /\ Head(queue[home[s]]) = s

\* The head of the response, after rule and breakpoint.
Respond(s) ==
  /\ Sends(s)
  /\ Leave(s)
  /\ \/ /\ Goto(s, "streaming")
        /\ Update(owns[s], [capture[owns[s]] EXCEPT !.status = "upstream"])
     \* A replacement body needs nothing more from the upstream.
     \/ /\ Goto(s, "dropping")
        /\ Update(owns[s], Finished([capture[owns[s]] EXCEPT !.status = "upstream"], "complete"))
  /\ UNCHANGED <<tunnels, form, home, owns, list, templates>>

\* The upstream fails.
ForwardFails(s) ==
  /\ Sends(s)
  /\ Leave(s)
  /\ Goto(s, "dropping")
  /\ Update(owns[s], Refused(capture[owns[s]]))
  /\ UNCHANGED <<tunnels, form, home, owns, list, templates>>

\* Slip: the deadline covers the wait for the sender only.
WaitTimesOut(s) ==
  /\ stream[s] = "queued" /\ ~Sends(s)
  /\ Leave(s)
  /\ Goto(s, "dropping")
  /\ Update(owns[s], Refused(capture[owns[s]]))
  /\ UNCHANGED <<tunnels, form, home, owns, list, templates>>

\* The deadline covers the wait for the sender and for the head.
RequestTimesOut(s) ==
  /\ stream[s] = "queued"
  /\ Leave(s)
  /\ Goto(s, "dropping")
  /\ Update(owns[s], Refused(capture[owns[s]]))
  /\ UNCHANGED <<tunnels, form, home, owns, list, templates>>

\* The transfer of the request body to the upstream fails.
RequestBodyFails(s) ==
  /\ Sends(s) \/ stream[s] = "streaming"
  /\ Update(owns[s], Finished(capture[owns[s]], "error"))
  /\ UNCHANGED <<tunnels, requests, list, templates>>

ResponseEnds(s) ==
  /\ stream[s] = "streaming"
  /\ Goto(s, "dropping")
  /\ \E outcome \in {"complete", "error"} :
       Update(owns[s], Finished(capture[owns[s]], outcome))
  /\ UNCHANGED <<tunnels, form, home, owns, queue, list, templates>>

\* The client resets an HTTP/2 stream, or its connection is gone.
Reset(s) ==
  /\ stream[s] \in {"queued", "streaming"}
  /\ home[s] \in http2
  /\ Leave(s)
  /\ Goto(s, "dropping")
  /\ UNCHANGED <<tunnels, form, home, owns, captures>>

\* Slip: the exchange of the tunnel is left to the tunnel, ended or not.
Unshared(s) == owns[s] = s

\* The tunnel shares the exchange of its first request.
LastHolder(s) == owns[s] \notin Live

\* Drop for Exchange, once the request is over and its body let go.
DropExchange(s) ==
  /\ stream[s] = "dropping"
  /\ Goto(s, "done")
  /\ IF LastHolder(s) THEN Update(owns[s], Finished(capture[owns[s]], "error"))
     ELSE UNCHANGED capture
  /\ UNCHANGED <<tunnels, form, home, owns, queue, list, templates>>

-----------------------------------------------------------------------------
(* Stop.                                                                   *)

Stop ==
  /\ phase = "running"
  /\ phase' = "draining"
  /\ UNCHANGED <<conn, inspected, http2, fresh, upstream, requests, captures>>

Holders(k) ==
  (Live \cap {k}) \cup {s \in Streams : owns[s] = k /\ stream[s] \notin {"none", "done"}}

\* The task is dropped where it waits, and its exchange with it unless a
\* request still holds it.  The upstream's task is left behind.
Abort(t) ==
  /\ phase = "draining" /\ t \in Live
  /\ ConnGoto(t, "ended")
  /\ DropWith(t)
  /\ IF Holders(t) = {t} THEN Update(t, Finished(capture[t], "error")) ELSE UNCHANGED capture
  /\ UNCHANGED <<phase, inspected, http2, fresh, upstream, form, home, owns, list, templates>>

\* It ends when the last clone of the sender is gone and no request uses it.
UpstreamCloses(t) ==
  /\ t \in upstream /\ conn[t] = "ended" /\ Active(t) = {}
  /\ upstream' = upstream \ {t}
  /\ UNCHANGED <<phase, conn, inspected, http2, fresh, requests, captures>>

Stopped ==
  /\ phase = "draining" /\ Live = {}
  /\ phase' = "stopped"
  /\ UNCHANGED <<conn, inspected, http2, fresh, upstream, requests, captures>>

-----------------------------------------------------------------------------
TunnelStep(t) ==
  \/ Connect(t) \/ ConnectFails(t) \/ Establish(t) \/ TunnelFails(t) \/ Upgraded(t)
  \/ Handshaken(t) \/ LifetimeEnds(t) \/ Abort(t) \/ UpstreamCloses(t)

StreamStep(s) ==
  \/ Refuse(s) \/ Enter(s) \/ Respond(s) \/ ForwardFails(s) \/ RequestTimesOut(s)
  \/ RequestBodyFails(s) \/ ResponseEnds(s) \/ Reset(s) \/ DropExchange(s)

Next ==
  \/ Stop \/ Stopped
  \/ \E k \in Keys : Forget(k)
  \/ \E t \in Conns : TunnelStep(t) \/ \E s \in Streams : Arrive(s, t)
  \/ \E s \in Streams : StreamStep(s)

Spec == Init /\ [][Next]_vars

Orphaned(s) == conn[home[s]] = "ended" /\ Reset(s)

\* Every wait of a request has a deadline, aborted tasks are dropped, and a request whose
\* connection is gone notices.  Nothing makes a peer act.
Fairness ==
  /\ WF_vars(Stopped)
  /\ \A t \in Conns :
       /\ WF_vars(ConnectFails(t)) /\ WF_vars(TunnelFails(t))
       /\ WF_vars(Abort(t)) /\ WF_vars(UpstreamCloses(t))
  /\ \A s \in Streams :
       /\ WF_vars(Refuse(s) \/ Enter(s)) /\ WF_vars(RequestTimesOut(s))
       /\ WF_vars(stream[s] # "none" /\ Orphaned(s)) /\ WF_vars(DropExchange(s))

FairSpec == Spec /\ Fairness

\* The timer of the tunnel as a whole, far longer than those of its requests.
Lifetimes == \A t \in Conns : WF_vars(LifetimeEnds(t))

-----------------------------------------------------------------------------
Typed ==
  /\ phase \in {"running", "draining", "stopped"}
  /\ conn \in [Conns -> {"closed", "preparing", "upgrading", "handshaking", "copying",
                         "serving", "ended"}]
  /\ inspected \subseteq Conns /\ http2 \subseteq Conns
  /\ fresh \subseteq Conns /\ upstream \subseteq Conns
  /\ stream \in [Streams -> Working \cup {"none", "dropping", "done"}]
  /\ form \in [Streams -> Form]
  /\ home \in [Streams -> Conns \cup {Nobody}]
  /\ owns \in [Streams -> Keys \cup {Nobody}]
  /\ list \subseteq Keys /\ templates \subseteq list
  /\ capture \in [Keys -> [outcome : {"absent", "pending", "complete", "error"},
                           status : {"none", "tunnel", "upstream", "error"}]]

QueuedOnce ==
  /\ queue \in [Conns -> Seq(Streams)]
  /\ \A t \in Conns :
       /\ ToSet(queue[t]) = {s \in Of(t) : stream[s] = "queued"}
       /\ IsInjective(queue[t])

(* Every variable has its type.  The sender is never kept by a request that*)
(* is over: whoever is in the queue of a connection is one of its requests,*)
(* waits, and is there once.                                               *)
TypeOK == Typed /\ QueuedOnce

(* Each exchange gets a separate capture (HTTP_PROXY.md), although the     *)
(* first request of a tunnel takes over that of the CONNECT and requests   *)
(* arrive side by side.                                                    *)
OwnCapture ==
  \A r, s \in Streams :
    r # s /\ stream[r] # "none" /\ stream[s] # "none" => owns[r] # owns[s]

(* A capture stays pending only while a task will report its outcome: the  *)
(* tunnel, or the request that holds its exchange.                         *)
PendingIsHeld ==
  \A k \in list : capture[k].outcome = "pending" => Holders(k) # {}

(* A request inside a tunnel is never replayed as plain HTTP: a target     *)
(* that leaves a template behind never completes, and replay() repeats     *)
(* completed captures only.                                                *)
InnerIsNotReplayable ==
  \A k \in templates : capture[k].outcome # "complete"

(* Bounded lifetime: a tunnel ends, whatever its peers do.                 *)
TunnelsEnd ==
  Lifetimes => \A t \in Conns : conn[t] = "preparing" ~> conn[t] = "ended"

(* No request waits for ever for the sender, although the one that has it  *)
(* may be paused or get no answer, and though the tunnel goes on for ever. *)
RequestsSettle == \A s \in Streams : stream[s] = "arrived" ~> stream[s] \notin {"arrived", "queued"}

(* Stop leaves nothing behind: upstream connections and HTTP/2 requests    *)
(* that are not joined end too, and no capture stays pending.              *)
StopEndsAll ==
  phase = "stopped" ~>
    /\ upstream = {}
    /\ \A s \in Streams : stream[s] \in {"none", "done"}
    /\ \A k \in list : capture[k].outcome # "pending"

(* The captures of tunnels and of the requests inside them behave like the *)
(* captures of plain requests.                                             *)
CapturesOf == INSTANCE Captures WITH
  listed <- list, outcome <- [k \in Keys |-> capture[k].outcome]

KeepsCaptures == CapturesOf!Spec
=============================================================================
