---------------------------- MODULE ProxyEngine ----------------------------
(***************************************************************************)
(* The HTTP proxy engine (crates/engine/src/proxy.rs): the listener and    *)
(* its Start/Stop lifecycle, the bounded capture list, plain-HTTP          *)
(* exchanges with response rules, response breakpoints and recorded        *)
(* bodies, single-request replay, and Clear.                               *)
(*                                                                         *)
(* A connection carries one request (keep_alive(false)), so a connection,  *)
(* its handle() call and its Exchange are one actor, c.  The engine's      *)
(* mutex is taken and released several times inside handle(): an action    *)
(* ends where another actor can take the mutex in between and tell the     *)
(* difference, and at every await, where the task may be dropped.          *)
(*                                                                         *)
(* Left out: CONNECT (Tunnel), the contents and disk budget of bodies      *)
(* (BodyStore; here a body is only present or absent), the revision and    *)
(* the counters derived from the list.                                     *)
(***************************************************************************)
EXTENDS Policy, Naturals, Sequences, FiniteSets, Functions

CONSTANTS
  Clients,    \* connections opened by proxy clients
  Replays,    \* replay() calls; each opens one connection of its own
  Targets,    \* effective targets requests name
  Profiles,   \* client profiles
  NoProfile,  \* no client profile: authentication off
  Requests,   \* the kinds of body client requests carry
  Configs     \* the configurations Start may be called with

Conns == Clients \cup Replays

RequestKind == {"none", "json", "other"}
RuleKind == {"none", "status", "body"}   \* what the first matching rule replaces
Decision == {"none", "continue", "status", "body"}

Config ==
  [limit       : Nat \ {0},              \* capture_limit
   connections : Nat \ {0},              \* connection_limit
   auth        : Profiles \cup {NoProfile},
   class       : [Targets -> DestinationClass],
   rule        : [Targets -> RuleKind],
   pause       : BOOLEAN,                \* break_on_responses
   bodies      : BOOLEAN]                \* capture_bodies

ASSUME ConnsAssumption ==
  /\ Clients \cap Replays = {}
  /\ IsFiniteSet(Clients) /\ IsFiniteSet(Replays)
ASSUME ProfilesAssumption == NoProfile \notin Profiles
ASSUME RequestsAssumption == Requests \subseteq RequestKind
ASSUME ConfigsAssumption == Configs \subseteq Config

VARIABLES
  cfg,          \* the run's configuration (State plus what the loop captured)
  phase,        \* EngineStatus::phase
  task,         \* the accept loop behind `running`
  stopping,     \* a stop() call holds the lifecycle lock
  live,         \* connections in the loop's JoinSet
  traffic,      \* ids of the captures in the list, oldest first
  next_id,
  breakpoints,  \* ids with a pending decision
  templates,    \* ids with a replay template
  tokens,       \* replay calls whose one-use token is in the map
  bodies,       \* <<direction, id>> of the entries in the two body stores
  pc,           \* where connection c is
  id,           \* its capture's id, 0 before begin_exchange
  target,       \* the target it names
  capture,      \* its Capture, shown while its id is in traffic
  request,      \* the kind of body its request carries
  rule,         \* what the response rule chosen for it replaces
  channel,      \* the breakpoint's oneshot channel
  decision,     \* what the user's resolve call carries
  applied,      \* whether the exchange received that decision
  worker,       \* its request body: where it is and what became of its copy
  reply,        \* what the client was answered
  marked,       \* the request consumed a replay token
  call,         \* the replay call behind connection c
  origin        \* the capture a replay call repeats

lifecycle == <<cfg, phase, task, stopping>>
tables    == <<traffic, next_id, breakpoints, templates, tokens, bodies>>
channels  == <<channel, decision, applied>>
replaying == <<marked, call, origin>>
vars == <<lifecycle, live, tables, pc, id, target, capture, request, rule,
          channels, worker, reply, replaying>>

Phase == {"closed", "served", "admitted", "connecting", "sending", "headed", "paused",
          "elapsed", "responding", "storing", "recording", "recorded", "streaming",
          "dropping", "done"}

Capture ==
  [class      : DestinationClass,
   profile    : Profiles \cup {NoProfile},
   replay_of  : Nat,
   phase      : {"pending", "complete", "error"},
   breakpoint : {"none", "waiting", "modified", "continued", "timed_out"},
   rule       : RuleKind,
   body       : {"disabled", "empty", "recording", "unavailable", "complete"}]

NoCapture ==
  [class |-> Unknown, profile |-> NoProfile, replay_of |-> 0, phase |-> "pending",
   breakpoint |-> "none", rule |-> "none", body |-> "disabled"]

InitialConfig ==
  [limit |-> 200, connections |-> 1, auth |-> NoProfile,
   class |-> [t \in Targets |-> Unknown], rule |-> [t \in Targets |-> "none"],
   pause |-> FALSE, bodies |-> FALSE]

Init ==
  /\ cfg = InitialConfig
  /\ phase = "stopped"
  /\ task = "none"
  /\ stopping = FALSE
  /\ live = {}
  /\ traffic = <<>>
  /\ next_id = 1
  /\ breakpoints = {} /\ templates = {} /\ tokens = {} /\ bodies = {}
  /\ pc = [c \in Conns |-> "closed"]
  /\ id = [c \in Conns |-> 0]
  /\ target \in [Conns -> Targets]
  /\ capture = [c \in Conns |-> NoCapture]
  /\ request \in [Conns -> Requests]
  /\ rule = [c \in Conns |-> "none"]
  /\ channel = [c \in Conns |-> "none"]
  /\ decision = [c \in Conns |-> "none"]
  /\ applied = [c \in Conns |-> FALSE]
  /\ worker = [c \in Conns |-> "none"]
  /\ reply = [c \in Conns |-> "none"]
  /\ marked = [c \in Conns |-> FALSE]
  /\ call = [c \in Conns |-> "idle"]
  /\ origin = [c \in Conns |-> 0]

-----------------------------------------------------------------------------
(* The capture list and what hangs off it.                                 *)

Ids == Range(traffic)

Tracked(c) == id[c] \in Ids

\* Exchange::update: nothing happens once the capture has left the list.
Update(c, new) ==
  capture' = IF Tracked(c) THEN [capture EXCEPT ![c] = new] ELSE capture

\* Slip: the last outcome wins.
LastOutcome(old, outcome) == [old EXCEPT !.phase = outcome]

\* Exchange::finish: the first outcome stays.
Finished(old, outcome) ==
  IF old.phase = "pending" THEN [old EXCEPT !.phase = outcome] ELSE old

\* Slip: any listed capture is modified.
MayModifyListed(c) == Tracked(c)

\* What the policy lets the proxy change: a capture that has left the list is
\* never modified.
MayModify(c) == Tracked(c) /\ authorize(capture[c].class, "modify")

\* Slip: the pending decision stays.
ForgetBodies(gone) ==
  /\ UNCHANGED breakpoints
  /\ bodies' = {b \in bodies : b[2] \notin gone}

\* Captures leave the list with everything kept under their id.
Forget(gone) ==
  /\ breakpoints' = breakpoints \ gone
  /\ bodies' = {b \in bodies : b[2] \notin gone}

\* Slip: the list is not consulted after a body was stored.
KeepStored(direction, c) == bodies

\* After a body was stored the list is consulted again: Clear or an eviction
\* may have come first.
UnlessForgotten(direction, c) ==
  IF Tracked(c) THEN bodies ELSE bodies \ {<<direction, id[c]>>}

Goto(c, label) == pc' = [pc EXCEPT ![c] = label]

-----------------------------------------------------------------------------
(* Lifecycle: start, the accept loop, stop.                                *)

\* Slip: a new run keeps the oldest captures.
TrimmedNewest(limit) == SubSeq(traffic, 1, IF Len(traffic) > limit THEN limit ELSE Len(traffic))

\* Slip: a new run keeps every capture of the previous one.
Untrimmed(limit) == traffic

\* The newest captures a limit leaves room for.
Trimmed(limit) ==
  IF Len(traffic) > limit
  THEN SubSeq(traffic, Len(traffic) - limit + 1, Len(traffic)) ELSE traffic

\* Slip: only the listener has to be gone.
NotAccepting == task # "accepting"

\* start() refuses while `running` holds a loop, ended or not.
NoLoop == task = "none"

\* The configuration is validated and the port bound before anything changes.
Start ==
  /\ NoLoop
  /\ ~stopping
  /\ \E new \in Configs :
       LET gone == Ids \ Range(Trimmed(new.limit))
       IN /\ cfg' = new
          /\ traffic' = Trimmed(new.limit)
          /\ Forget(gone)
          /\ templates' = templates \ gone
  /\ phase' = "running"
  /\ task' = "accepting"
  /\ UNCHANGED <<stopping, live, next_id, tokens, pc, id, target, capture,
                 request, rule, channels, worker, reply, replaying>>

\* Slip: one connection too many.
OverCap == Cardinality(live) > cfg.connections

\* JoinSet::len counts a finished task until the loop has joined it.
AtCap == Cardinality(live) >= cfg.connections

Accept(c) ==
  /\ task = "accepting"
  /\ pc[c] = "closed"
  /\ c \in Replays => call[c] = "dispatched"
  /\ IF AtCap
     THEN /\ Goto(c, "done")
          /\ UNCHANGED live
     ELSE /\ Goto(c, "served")
          /\ live' = live \cup {c}
  /\ UNCHANGED <<lifecycle, tables, id, target, capture, request, rule,
                 channels, worker, reply, replaying>>

\* join_next: the task of a connection has ended.  Its Exchange may live on in
\* the task that sends the request upstream.
Reap(c) ==
  /\ task \in {"accepting", "draining"}
  /\ c \in live
  /\ pc[c] = "done" \/ (pc[c] = "dropping" /\ worker[c] # "none")
  /\ live' = live \ {c}
  /\ UNCHANGED <<lifecycle, tables, pc, id, target, capture, request, rule,
                 channels, worker, reply, replaying>>

\* The loop breaks on the shutdown signal or when accept fails, then aborts
\* every connection task.
LeaveLoop ==
  /\ task = "accepting"
  /\ task' = "draining"
  /\ UNCHANGED <<cfg, phase, stopping, live, tables, pc, id, target, capture,
                 request, rule, channels, worker, reply, replaying>>

ShutdownSignal == stopping /\ LeaveLoop
AcceptFails    == LeaveLoop

\* Slip: the loop ends without joining the connections.
NotJoined == TRUE

AllJoined == live = {}

LoopEnds ==
  /\ task = "draining"
  /\ AllJoined
  /\ task' = "ended"
  /\ phase' = "stopped"
  /\ UNCHANGED <<cfg, stopping, live, tables, pc, id, target, capture, request,
                 rule, channels, worker, reply, replaying>>

Stop ==
  /\ ~stopping
  /\ task # "none"
  /\ stopping' = TRUE
  /\ UNCHANGED <<cfg, phase, task, live, tables, pc, id, target, capture,
                 request, rule, channels, worker, reply, replaying>>

StopReturns ==
  /\ stopping
  /\ task = "ended"
  /\ stopping' = FALSE
  /\ task' = "none"
  /\ UNCHANGED <<cfg, phase, live, tables, pc, id, target, capture, request,
                 rule, channels, worker, reply, replaying>>

Clear ==
  /\ traffic' = <<>>
  /\ breakpoints' = {} /\ templates' = {} /\ tokens' = {} /\ bodies' = {}
  /\ UNCHANGED <<lifecycle, live, next_id, pc, id, target, capture, request,
                 rule, channels, worker, reply, replaying>>

-----------------------------------------------------------------------------
(* handle(): a request enters the proxy.                                   *)

\* The replay header is removed and its token used up; otherwise the request
\* must present the profile's credentials, which a replayed request lacks.
Authenticate(c) ==
  /\ pc[c] = "served"
  /\ \E presents \in IF c \in Replays THEN {FALSE} ELSE BOOLEAN :
       \/ /\ c \in tokens
          /\ tokens' = tokens \ {c}
          /\ marked' = [marked EXCEPT ![c] = TRUE]
          /\ Goto(c, "admitted")
          /\ UNCHANGED <<capture, reply>>
       \/ /\ c \notin tokens
          /\ cfg.auth = NoProfile \/ presents
          /\ capture' = [capture EXCEPT ![c].profile = cfg.auth]
          /\ Goto(c, "admitted")
          /\ UNCHANGED <<tokens, marked, reply>>
       \/ /\ c \notin tokens
          /\ cfg.auth # NoProfile /\ ~presents
          /\ reply' = [reply EXCEPT ![c] = "407"]
          /\ Goto(c, "done")
          /\ UNCHANGED <<tokens, marked, capture>>
  /\ UNCHANGED <<lifecycle, live, traffic, next_id, breakpoints, templates,
                 bodies, id, target, request, rule, channels, worker, call, origin>>

\* Slip: the policy is consulted in replay() only.
NeverRefused(c) == FALSE

\* A marked request whose target is no longer Development is refused without
\* a capture.
Refused(c) == marked[c] /\ ~authorize(cfg.class[target[c]], "replay")

RefuseReplay(c) ==
  /\ pc[c] = "admitted"
  /\ Refused(c)
  /\ reply' = [reply EXCEPT ![c] = "403"]
  /\ Goto(c, "done")
  /\ UNCHANGED <<lifecycle, live, tables, id, target, capture, request, rule,
                 channels, worker, replaying>>

\* A full list loses its oldest capture.
Room == IF Len(traffic) = cfg.limit THEN Tail(traffic) ELSE traffic

\* Slip: the id is read after next_id was advanced.
AdvancedId == next_id + 1

FreshId == next_id

\* begin_exchange, after the class of the effective target was looked up.
Begin(c) ==
  LET gone == Ids \ Range(Room)
  IN
  /\ pc[c] = "admitted"
  /\ ~Refused(c)
  /\ next_id' = next_id + 1
  /\ id' = [id EXCEPT ![c] = FreshId]
  /\ traffic' = Append(Room, FreshId)
  /\ Forget(gone)
  /\ \E bodyless_get \in IF c \in Replays THEN {TRUE} ELSE {FALSE, request[c] = "none"} :
       templates' = (templates \ gone) \cup (IF bodyless_get THEN {FreshId} ELSE {})
  /\ capture' = [capture EXCEPT
       ![c].class = cfg.class[target[c]],
       ![c].replay_of = IF marked[c] THEN origin[c] ELSE 0]
  /\ Goto(c, "connecting")
  /\ UNCHANGED <<lifecycle, live, tokens, target, request, rule, channels,
                 worker, reply, replaying>>

-----------------------------------------------------------------------------
(* forward() and forward_with_sender().                                    *)

\* Bad target, upgrade, loop, DNS or connection failure, or a failed exchange
\* with the upstream: the client is answered and the capture ends in error.
UpstreamFails(c) ==
  /\ pc[c] \in {"connecting", "sending"}
  /\ Update(c, Finished(capture[c], "error"))
  /\ reply' = [reply EXCEPT ![c] = "error"]
  /\ Goto(c, "dropping")
  /\ UNCHANGED <<lifecycle, live, tables, id, target, request, rule, channels,
                 worker, replaying>>

\* The upstream connection is up; the request and what recording means for
\* its body are settled before it is sent.
SendRequest(c) ==
  /\ pc[c] = "connecting"
  /\ Update(c, [capture[c] EXCEPT !.body =
       IF ~cfg.bodies THEN @
       ELSE IF request[c] = "json" THEN "recording"
       ELSE IF request[c] = "other" THEN "unavailable" ELSE "empty"])
  /\ worker' = [worker EXCEPT ![c] =
       IF cfg.bodies /\ request[c] = "json" THEN "buffering" ELSE "passing"]
  /\ Goto(c, "sending")
  /\ UNCHANGED <<lifecycle, live, tables, id, target, request, rule, channels,
                 reply, replaying>>

\* The response head arrived; the first matching rule is applied when the
\* capture is still listed and its class allows modification.
ResponseHead(c) ==
  /\ pc[c] = "sending"
  /\ LET chosen == IF MayModify(c) THEN cfg.rule[target[c]] ELSE "none"
     IN /\ rule' = [rule EXCEPT ![c] = chosen]
        /\ Update(c, [capture[c] EXCEPT !.rule = chosen])
  /\ Goto(c, "headed")
  /\ UNCHANGED <<lifecycle, live, tables, id, target, request, channels,
                 worker, reply, replaying>>

\* A pending decision is registered, or the response goes straight on.
ArmBreakpoint(c) ==
  /\ pc[c] = "headed"
  /\ IF cfg.pause /\ MayModify(c)
     THEN /\ breakpoints' = breakpoints \cup {id[c]}
          /\ channel' = [channel EXCEPT ![c] = "open"]
          /\ Update(c, [capture[c] EXCEPT !.breakpoint = "waiting"])
          /\ Goto(c, "paused")
     ELSE /\ Goto(c, "responding")
          /\ UNCHANGED <<breakpoints, channel, capture>>
  /\ UNCHANGED <<lifecycle, live, traffic, next_id, templates, tokens, bodies,
                 id, target, request, rule, decision, applied, worker, reply, replaying>>

\* resolve_response_breakpoint: the sender leaves the map under the lock ...
TakeSender(c) ==
  /\ id[c] \in breakpoints
  /\ breakpoints' = breakpoints \ {id[c]}
  /\ channel' = [channel EXCEPT ![c] = "held"]
  /\ \E d \in Decision \ {"none"} : decision' = [decision EXCEPT ![c] = d]
  /\ UNCHANGED <<lifecycle, live, traffic, next_id, templates, tokens, bodies, pc,
                 id, target, capture, request, rule, applied, worker, reply, replaying>>

\* ... and sends after it: the call succeeds while the receiver exists, which is
\* dropped at some moment after the pause has elapsed.
SendDecision(c) ==
  /\ channel[c] = "held"
  /\ \/ /\ pc[c] \in {"paused", "elapsed"}
        /\ channel' = [channel EXCEPT ![c] = "accepted"]
     \/ /\ pc[c] # "paused"
        /\ channel' = [channel EXCEPT ![c] = "rejected"]
  /\ UNCHANGED <<lifecycle, live, tables, pc, id, target, capture, request,
                 rule, decision, applied, worker, reply, replaying>>

\* The pause ends with a decision, because the sender was dropped, or because
\* 15 seconds have passed.
Continue(c, outcome) ==
  /\ breakpoints' = breakpoints \ {id[c]}
  /\ Update(c, [capture[c] EXCEPT !.breakpoint = outcome])
  /\ Goto(c, "responding")
  /\ UNCHANGED <<lifecycle, live, traffic, next_id, templates, tokens, bodies,
                 id, target, request, rule, channel, decision, worker, reply, replaying>>

ReceiveDecision(c) ==
  /\ pc[c] = "paused"
  /\ channel[c] = "accepted"
  /\ applied' = [applied EXCEPT ![c] = TRUE]
  /\ Continue(c, IF decision[c] = "continue" THEN "continued" ELSE "modified")

SenderDropped(c) ==
  /\ pc[c] = "paused"
  /\ channel[c] = "open"
  /\ id[c] \notin breakpoints
  /\ UNCHANGED applied
  /\ Continue(c, "timed_out")

\* The timer is polled after the receiver was found empty.
PauseElapses(c) ==
  /\ pc[c] = "paused"
  /\ channel[c] # "accepted"
  /\ Goto(c, "elapsed")
  /\ UNCHANGED <<lifecycle, live, tables, id, target, capture, request, rule,
                 channels, worker, reply, replaying>>

ContinueUnchanged(c) ==
  /\ pc[c] = "elapsed"
  /\ UNCHANGED applied
  /\ Continue(c, "timed_out")

ReplacesBody(c) == rule[c] = "body" \/ (applied[c] /\ decision[c] = "body")

\* The head is final: a replacement body is stored, an upstream body recorded,
\* when the run records bodies.
Respond(c) ==
  /\ pc[c] = "responding"
  /\ IF ReplacesBody(c) /\ ~cfg.bodies
     THEN /\ Update(c, Finished(capture[c], "complete"))
          /\ Goto(c, "dropping")
     ELSE /\ UNCHANGED capture
          /\ Goto(c, IF ReplacesBody(c) THEN "storing"
                     ELSE IF cfg.bodies THEN "recording" ELSE "streaming")
  /\ reply' = [reply EXCEPT ![c] =
       IF applied[c] /\ decision[c] # "continue" THEN "decision"
       ELSE IF rule[c] # "none" THEN "rule" ELSE "original"]
  /\ UNCHANGED <<lifecycle, live, tables, id, target, request, rule, channels,
                 worker, replaying>>

\* store_complete returned, with an entry or an error (disk budget, storage).
StoreReplacement(c) ==
  /\ pc[c] = "storing"
  /\ \/ bodies' = bodies \cup {<<"response", id[c]>>}
     \/ UNCHANGED bodies
  /\ Update(c, Finished(capture[c], "complete"))
  /\ Goto(c, "dropping")
  /\ UNCHANGED <<lifecycle, live, traffic, next_id, breakpoints, templates, tokens,
                 id, target, request, rule, channels, worker, reply, replaying>>

\* record() returned, with an entry or an error.
RecordResponse(c) ==
  /\ pc[c] = "recording"
  /\ \/ /\ bodies' = bodies \cup {<<"response", id[c]>>}
        /\ Goto(c, "recorded")
     \/ /\ UNCHANGED bodies
        /\ Goto(c, "streaming")
  /\ UNCHANGED <<lifecycle, live, traffic, next_id, breakpoints, templates, tokens,
                 id, target, capture, request, rule, channels, worker, reply, replaying>>

RecheckResponse(c) ==
  /\ pc[c] = "recorded"
  /\ bodies' = UnlessForgotten("response", c)
  /\ Goto(c, "streaming")
  /\ UNCHANGED <<lifecycle, live, traffic, next_id, breakpoints, templates, tokens,
                 id, target, capture, request, rule, channels, worker, reply, replaying>>

\* The response body ended, or its transfer failed.
EndBody(c) ==
  /\ pc[c] = "streaming"
  /\ \E outcome \in {"complete", "error"} : Update(c, Finished(capture[c], outcome))
  /\ Goto(c, "dropping")
  /\ UNCHANGED <<lifecycle, live, tables, id, target, request, rule, channels,
                 worker, reply, replaying>>

-----------------------------------------------------------------------------
(* Deadlines, aborts and dropped exchanges.                                *)

\* Slip: connecting to the upstream is outside the deadline.
AwaitingConnected == {"sending", "paused", "storing", "recording"}

\* Where handle() awaits inside its deadline.
Awaiting == {"connecting", "sending", "paused", "storing", "recording"}

\* The operation is dropped at its await: the decision's receiver goes with
\* it, the sender stays in the map.
RequestTimesOut(c) ==
  /\ pc[c] \in Awaiting
  /\ Update(c, Finished(capture[c], "error"))
  /\ reply' = [reply EXCEPT ![c] = "504"]
  /\ Goto(c, "dropping")
  /\ UNCHANGED <<lifecycle, live, tables, id, target, request, rule, channels,
                 worker, replaying>>

\* Slip: a connection that waits for its request is not aborted.
SuspendedInRequest == Awaiting

\* The connection task is dropped at an await: between requests, inside
\* handle(), or while the response is sent.
Suspended == Awaiting \cup {"served", "streaming"}

Dropped(c) ==
  /\ pc[c] \in Suspended
  /\ Goto(c, IF pc[c] = "served" THEN "done" ELSE "dropping")
  /\ UNCHANGED <<lifecycle, live, tables, id, target, capture, request, rule,
                 channels, worker, reply, replaying>>

Abort(c)      == task = "draining" /\ c \in live /\ Dropped(c)
Disconnect(c) == Dropped(c)

\* Slip: a request body that was never read to its end keeps its exchange.
HeldByBuffer(c) == worker[c] \in {"buffering", "storing", "stored"}

\* Drop for Exchange, whatever its outcome, once the detached task that stores
\* the request body no longer holds it.
Held(c) == worker[c] \in {"storing", "stored"}

DropExchange(c) ==
  /\ pc[c] = "dropping"
  /\ ~Held(c)
  /\ Update(c, Finished(capture[c], "error"))
  /\ Goto(c, "done")
  /\ UNCHANGED <<lifecycle, live, tables, id, target, request, rule, channels,
                 worker, reply, replaying>>

-----------------------------------------------------------------------------
(* RequestBody: the request body and the JSON copy of it.                  *)

\* The end of the body spawns the detached redaction task.  The task that sends
\* the request polls the body, at times a little after its connection is gone.
FinishCapture(c) ==
  /\ worker[c] = "buffering"
  /\ pc[c] # "done"
  /\ worker' = [worker EXCEPT ![c] = "storing"]
  /\ UNCHANGED <<lifecycle, live, tables, pc, id, target, capture, request, rule,
                 channels, reply, replaying>>

\* The body exceeds what may be inspected: the buffer is given up and the body
\* goes on without it.
LoseCapture(c) ==
  /\ worker[c] = "buffering"
  /\ pc[c] # "done"
  /\ worker' = [worker EXCEPT ![c] = "passing"]
  /\ UNCHANGED <<lifecycle, live, tables, pc, id, target, capture, request, rule,
                 channels, reply, replaying>>

\* The transfer of the body from the client fails: the task that sends it
\* reports the outcome, whatever the exchange itself is doing by then.
RequestBodyFails(c) ==
  /\ worker[c] \in {"passing", "buffering"}
  /\ request[c] # "none"
  /\ pc[c] # "done"
  /\ Update(c, Finished(capture[c], "error"))
  /\ worker' = [worker EXCEPT ![c] = "failed"]
  /\ UNCHANGED <<lifecycle, live, tables, pc, id, target, request, rule, channels,
                 reply, replaying>>

\* store_redacted_json returned; the entry is in the store before the capture
\* is told.
StoreRequest(c) ==
  /\ worker[c] = "storing"
  /\ \/ /\ bodies' = bodies \cup {<<"request", id[c]>>}
        /\ Update(c, [capture[c] EXCEPT !.body = "complete"])
     \/ /\ UNCHANGED bodies
        /\ Update(c, [capture[c] EXCEPT !.body = "unavailable"])
  /\ worker' = [worker EXCEPT ![c] = "stored"]
  /\ UNCHANGED <<lifecycle, live, traffic, next_id, breakpoints, templates, tokens, pc,
                 id, target, request, rule, channels, reply, replaying>>

RecheckRequest(c) ==
  /\ worker[c] = "stored"
  /\ bodies' = UnlessForgotten("request", c)
  /\ worker' = [worker EXCEPT ![c] = "finished"]
  /\ UNCHANGED <<lifecycle, live, traffic, next_id, breakpoints, templates, tokens, pc,
                 id, target, capture, request, rule, channels, reply, replaying>>

-----------------------------------------------------------------------------
(* replay().                                                               *)

\* Everything about the origin is checked under one lock.
CheckReplay(c) ==
  /\ call[c] = "idle"
  /\ phase = "running"
  /\ \E o \in Conns :
       /\ Tracked(o)
       /\ id[o] \in templates
       /\ authorize(capture[o].class, "replay")
       /\ capture[o].phase = "complete"
       /\ authorize(cfg.class[target[o]], "replay")
       /\ origin' = [origin EXCEPT ![c] = id[o]]
       /\ target' = [target EXCEPT ![c] = target[o]]
       /\ capture' = [capture EXCEPT ![c].profile = capture[o].profile]
  /\ request' = [request EXCEPT ![c] = "none"]
  /\ call' = [call EXCEPT ![c] = "checked"]
  /\ UNCHANGED <<lifecycle, live, tables, pc, id, rule, channels, worker, reply, marked>>

DispatchReplay(c) ==
  /\ call[c] = "checked"
  /\ tokens' = tokens \cup {c}
  /\ call' = [call EXCEPT ![c] = "dispatched"]
  /\ UNCHANGED <<lifecycle, live, traffic, next_id, breakpoints, templates, bodies,
                 pc, id, target, capture, request, rule, channels, worker, reply,
                 marked, origin>>

\* The response was read to its end, the connection failed, or 60 seconds
\* passed; the token is removed whatever happened.
ReplayReturns(c) ==
  /\ call[c] = "dispatched"
  /\ tokens' = tokens \ {c}
  /\ call' = [call EXCEPT ![c] = "returned"]
  /\ UNCHANGED <<lifecycle, live, traffic, next_id, breakpoints, templates, bodies,
                 pc, id, target, capture, request, rule, channels, worker, reply,
                 marked, origin>>

-----------------------------------------------------------------------------
Engine == Start \/ ShutdownSignal \/ AcceptFails \/ LoopEnds \/ Stop \/ StopReturns \/ Clear

EndPause(c) == ReceiveDecision(c) \/ SenderDropped(c) \/ PauseElapses(c)

\* Code that runs on without waiting for anything.
Proceed(c) ==
  \/ RefuseReplay(c) \/ Begin(c) \/ ArmBreakpoint(c) \/ ContinueUnchanged(c)
  \/ Respond(c) \/ RecheckResponse(c)

StoreCopy(c) == StoreRequest(c) \/ RecheckRequest(c)

Connection(c) ==
  \/ Accept(c) \/ Reap(c) \/ Authenticate(c) \/ Proceed(c)
  \/ UpstreamFails(c) \/ SendRequest(c) \/ ResponseHead(c)
  \/ TakeSender(c) \/ SendDecision(c) \/ EndPause(c)
  \/ StoreReplacement(c) \/ RecordResponse(c) \/ EndBody(c)
  \/ RequestTimesOut(c) \/ Abort(c) \/ Disconnect(c) \/ DropExchange(c)
  \/ FinishCapture(c) \/ LoseCapture(c) \/ RequestBodyFails(c) \/ StoreCopy(c)

Replay(c) == CheckReplay(c) \/ DispatchReplay(c) \/ ReplayReturns(c)

Next ==
  \/ Engine
  \/ \E c \in Conns : Connection(c)
  \/ \E c \in Replays : Replay(c)

Spec == Init /\ [][Next]_vars

\* The runtime polls every task that can run, fires every timer and completes
\* every storage job.  Nothing makes a client, an upstream server or the user act.
Fairness ==
  /\ WF_vars(ShutdownSignal) /\ WF_vars(LoopEnds) /\ WF_vars(StopReturns)
  /\ \A c \in Conns :
       /\ WF_vars(Reap(c)) /\ WF_vars(Abort(c)) /\ WF_vars(Proceed(c))
       /\ WF_vars(EndPause(c)) /\ WF_vars(RequestTimesOut(c))
       /\ WF_vars(DropExchange(c)) /\ WF_vars(StoreCopy(c))

FairSpec == Spec /\ Fairness

-----------------------------------------------------------------------------
(* What must hold.                                                         *)

(* Every variable keeps its type; ids in use were handed out before        *)
(* (begin_exchange takes the id and advances next_id under one lock).      *)
TypeOK ==
  /\ cfg \in Configs \cup {InitialConfig}
  /\ phase \in {"stopped", "running"}
  /\ task \in {"none", "accepting", "draining", "ended"}
  /\ stopping \in BOOLEAN
  /\ live \subseteq Conns
  /\ next_id \in Nat \ {0}
  /\ traffic \in Seq(Nat)
  /\ Ids \subseteq 1..(next_id - 1)
  /\ breakpoints \subseteq 1..(next_id - 1)
  /\ templates \subseteq 1..(next_id - 1)
  /\ tokens \subseteq Replays
  /\ bodies \subseteq {"request", "response"} \X (0..(next_id - 1))
  /\ pc \in [Conns -> Phase]
  /\ id \in [Conns -> 0..(next_id - 1)]
  /\ target \in [Conns -> Targets]
  /\ capture \in [Conns -> Capture]
  /\ request \in [Conns -> RequestKind]
  /\ rule \in [Conns -> RuleKind]
  /\ channel \in [Conns -> {"none", "open", "held", "accepted", "rejected"}]
  /\ decision \in [Conns -> Decision]
  /\ applied \in [Conns -> BOOLEAN]
  /\ worker \in [Conns -> {"none", "passing", "buffering", "storing", "stored",
                           "finished", "failed"}]
  /\ reply \in [Conns -> {"none", "407", "403", "504", "error", "original", "rule",
                          "decision"}]
  /\ marked \in [Conns -> BOOLEAN]
  /\ call \in [Conns -> {"idle", "checked", "dispatched", "returned"}]
  /\ origin \in [Conns -> 0..(next_id - 1)]

Increasing(list) == \A i, j \in 1..Len(list) : i < j => list[i] < list[j]

(* The list never exceeds the limit of the run it is in, also when a run   *)
(* with a smaller limit starts over a longer list while exchanges of the   *)
(* previous run are still being dropped, and stays in order of id.         *)
RetentionBound ==
  /\ Len(traffic) <= cfg.limit
  /\ Increasing(traffic)

(* Nothing is kept under the id of a capture that is gone: no pending      *)
(* decision, no replay template.  And while a listed capture is paused,    *)
(* its decision can be made: an eviction releases nobody else.             *)
KeptForListed ==
  /\ breakpoints \cup templates \subseteq Ids
  /\ \A c \in Conns :
       pc[c] = "paused" /\ channel[c] = "open" /\ Tracked(c) => id[c] \in breakpoints

(* Responses are modified, and may be modified by the user, only for a     *)
(* destination that was Development when the request entered the proxy.    *)
ModifyOnlyDevelopment ==
  \A c \in Conns :
    rule[c] # "none" \/ applied[c] \/ (id[c] # 0 /\ id[c] \in breakpoints)
      => capture[c].class = Development

(* While its capture is listed, a Development response gets exactly what   *)
(* the rules of the run that serves it say: a run never sees the rules of  *)
(* the next one, and no capture comes back to the list.                    *)
RulesApplyToListed ==
  \A c \in Conns :
    /\ pc[c] \in {"paused", "elapsed", "responding", "storing", "recording", "recorded",
                 "streaming"}
    /\ Tracked(c)
    /\ capture[c].class = Development
    => rule[c] = cfg.rule[target[c]]

(* A capture linked to an origin by a replay token is a Development one,   *)
(* even when the rules changed between the check in replay() and the       *)
(* arrival of the internal request; it is attributed to the profile of its *)
(* origin.                                                                 *)
ReplayMarkedDevelopment ==
  \A c \in Conns :
    capture[c].replay_of # 0 =>
      /\ capture[c].class = Development
      /\ capture[c].replay_of < id[c]
      /\ \A o \in Conns :
           id[o] = capture[c].replay_of => capture[o].profile = capture[c].profile

Serving == {c \in Conns : pc[c] \notin {"closed", "dropping", "done"}}

(* No more connections are served than the run allows, counted over every  *)
(* connection whose exchange is in progress, and none when the engine says *)
(* it is stopped: phase is set after every connection task was joined.     *)
ConnectionCap ==
  Cardinality(Serving) <= IF phase = "stopped" THEN 0 ELSE cfg.connections

(* A stored body whose capture is gone is about to be removed by the task  *)
(* that stored it, unless it is a replacement body.                        *)
OrphansAreRemoved ==
  \A b \in bodies : b[2] \notin Ids =>
    \E c \in Conns :
      /\ id[c] = b[2]
      /\ \/ b[1] = "response" /\ pc[c] = "recorded"
         \/ b[1] = "request" /\ worker[c] = "stored"
         \/ b[1] = "response" /\ ReplacesBody(c)

EvictsOldest == \A gone \in Ids \ Ids', kept \in Ids' : gone < kept

(* Evictions take the oldest captures: whatever leaves the list is older   *)
(* than everything that stays, the capture just added included.            *)
OldestFirst == [][EvictsOldest]_vars

(* Captures come, get their one outcome while they are listed, although    *)
(* Drop for Exchange reports an error for every exchange, and go for good. *)
CapturesOf == INSTANCE Captures WITH
  Keys <- Conns,
  listed <- {c \in Conns : Tracked(c)},
  outcome <- [c \in Conns |-> IF id[c] = 0 THEN "absent" ELSE capture[c].phase]

KeepsCaptures == CapturesOf!Spec

(* stop() returns: whatever the connections are doing, the loop aborts and *)
(* joins them all.                                                         *)
StopCompletes == stopping ~> ~stopping

(* Every admitted request is answered or dropped: no wait inside handle()  *)
(* outlives its deadlines.                                                 *)
RequestsAnswered ==
  \A c \in Conns : pc[c] = "admitted" ~> pc[c] \in {"streaming", "dropping", "done"}

-----------------------------------------------------------------------------
(* What the documentation says and the code does not do.                   *)

(* HTTP_PROXY.md: a replayed request appears as a new capture linked to    *)
(* its origin.  Clear forgets the tokens of calls that are under way.      *)
ReplayIsLinked ==
  \A c \in Replays : id[c] # 0 => capture[c].replay_of = origin[c]
=============================================================================
