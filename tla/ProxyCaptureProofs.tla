------------------------ MODULE ProxyCaptureProofs ------------------------
(***************************************************************************)
(* More proofs about the proxy engine: what happens to a capture and to    *)
(* everything that is kept under its id, from the request that brings it   *)
(* to the step that forgets it.                                            *)
(***************************************************************************)
EXTENDS ProxyEngineProofs

-----------------------------------------------------------------------------
(* Outcomes.                                                               *)

SamePhase == \A c \in Conns : capture'[c].phase = capture[c].phase

NoneEnters == \A c \in Conns : pc'[c] \in Entering => pc[c] \in Entering

Reports(c) ==
  \E outcome \in {"complete", "error"} : Update(c, Finished(capture[c], outcome))

\* A request that has no id yet has no outcome either.
Born ==
  \A c \in Conns :
    /\ pc[c] \in Entering => id[c] = 0
    /\ id[c] = 0 => capture[c].phase = "pending"

LEMMA EditPhase ==
  ASSUME NEW old \in Capture
  PROVE  /\ \A x : [old EXCEPT !.body = x].phase = old.phase
         /\ \A x : [old EXCEPT !.rule = x].phase = old.phase
         /\ \A x : [old EXCEPT !.breakpoint = x].phase = old.phase
         /\ \A x : [old EXCEPT !.profile = x].phase = old.phase
  BY DEF Capture

LEMMA UpdatePhase ==
  ASSUME TypeOK, NEW c \in Conns, NEW new \in Capture, Update(c, new),
         new.phase = capture[c].phase
  PROVE  SamePhase
  BY DEF Update, SamePhase, TypeOK

LEMMA GoAny ==
  ASSUME TypeOK, NEW c \in Conns, NEW label \in Phase, Goto(c, label), pc[c] \in Entering
  PROVE  NoneEnters
  BY DEF TypeOK, Goto, NoneEnters

Edits(c) == SamePhase \/ Reports(c)

\* What a step of a connection does to the outcomes.
LEMMA ConnectionReports ==
  ASSUME TypeOK, NEW c \in Conns, Connection(c), ~Begin(c)
  PROVE  UNCHANGED <<id, traffic>> /\ NoneEnters /\ Edits(c)
  <1> USE DEF lifecycle, tables, channels, replaying
  <1>0. /\ capture \in [Conns -> Capture] /\ capture[c] \in Capture
        /\ pc \in [Conns -> Phase]
    BY DEF TypeOK
  <1>1. CASE Accept(c) \/ Authenticate(c)
    <2>1. /\ UNCHANGED <<id, traffic>> /\ pc[c] \in Entering
          /\ \E label \in Phase : Goto(c, label)
          /\ capture' = capture \/ capture' = [capture EXCEPT ![c].profile = cfg.auth]
      BY <1>1 DEF Accept, Authenticate, Phase, Entering
    <2>2. [capture[c] EXCEPT !.profile = cfg.auth].phase = capture[c].phase
      BY <1>0, EditPhase
    <2>3. SamePhase
      BY <1>0, <2>1, <2>2 DEF SamePhase
    <2> QED
      BY <2>1, <2>3, GoAny DEF Edits
  <1>2. CASE Reap(c) \/ FinishCapture(c) \/ LoseCapture(c) \/ RecheckRequest(c)
             \/ TakeSender(c) \/ SendDecision(c)
    BY <1>2 DEF Reap, FinishCapture, LoseCapture, RecheckRequest, TakeSender, SendDecision,
                Edits, SamePhase, NoneEnters
  <1>3. CASE RefuseReplay(c) \/ RecordResponse(c) \/ RecheckResponse(c) \/ PauseElapses(c)
             \/ Abort(c) \/ Disconnect(c)
    <2>1. /\ UNCHANGED <<id, traffic, capture>>
          /\ \E label \in Phase \ Entering : Goto(c, label)
      BY <1>3 DEF RefuseReplay, RecordResponse, RecheckResponse, PauseElapses, Abort,
                  Disconnect, Dropped, Phase, Entering
    <2> QED
      BY <2>1, GoOn DEF Edits, SamePhase, NoneEnters
  <1>4. CASE UpstreamFails(c) \/ RequestTimesOut(c) \/ DropExchange(c)
             \/ StoreReplacement(c) \/ EndBody(c) \/ Respond(c)
    <2>1. /\ UNCHANGED <<id, traffic>>
          /\ \E label \in Phase \ Entering : Goto(c, label)
      BY <1>4 DEF UpstreamFails, RequestTimesOut, DropExchange, StoreReplacement, EndBody,
                  Respond, Phase, Entering
    <2>2. Reports(c) \/ capture' = capture
      BY <1>4 DEF UpstreamFails, RequestTimesOut, DropExchange, StoreReplacement, EndBody,
                  Respond, Reports
    <2> QED
      BY <2>1, <2>2, GoOn DEF Edits, SamePhase, NoneEnters
  <1>5. CASE SendRequest(c) \/ ResponseHead(c) \/ ArmBreakpoint(c) \/ ReceiveDecision(c)
             \/ SenderDropped(c) \/ ContinueUnchanged(c)
    <2>1. /\ UNCHANGED <<id, traffic>>
          /\ \E label \in Phase \ Entering : Goto(c, label)
      BY <1>5 DEF SendRequest, ResponseHead, ArmBreakpoint, ReceiveDecision, SenderDropped,
                  ContinueUnchanged, Continue, Phase, Entering
    <2>2. SamePhase
      <3>1. CASE SendRequest(c)
        <4>1. capture[c].body \in {"disabled", "empty", "recording", "unavailable", "complete"}
          BY <1>0 DEF Capture
        <4>2. \E x \in {"disabled", "empty", "recording", "unavailable", "complete"} :
                Update(c, [capture[c] EXCEPT !.body = x])
          BY <3>1, <4>1 DEF SendRequest
        <4> QED
          BY <1>0, <4>2, EditType, EditPhase, UpdatePhase
      <3>2. CASE ResponseHead(c)
        <4>1. cfg.rule[target[c]] \in RuleKind \/ ~MayModify(c)
          BY <3>2, ConfigInUse DEF ResponseHead, TypeOK, Config
        <4>2. PICK x : x \in RuleKind /\ Update(c, [capture[c] EXCEPT !.rule = x])
          BY <3>2, <4>1 DEF ResponseHead, RuleKind
        <4>3. \E y \in RuleKind : Update(c, [capture[c] EXCEPT !.rule = y])
          BY <4>2
        <4> QED
          BY <1>0, <4>3, EditType, EditPhase, UpdatePhase
      <3>3. CASE ArmBreakpoint(c) \/ ReceiveDecision(c) \/ SenderDropped(c)
                 \/ ContinueUnchanged(c)
        <4>1. \/ \E x \in {"waiting", "modified", "continued", "timed_out"} :
                   Update(c, [capture[c] EXCEPT !.breakpoint = x])
              \/ capture' = capture
          BY <3>3 DEF ArmBreakpoint, ReceiveDecision, SenderDropped, ContinueUnchanged,
                      Continue
        <4> QED
          BY <1>0, <4>1, EditType, EditPhase, UpdatePhase DEF SamePhase
      <3> QED
        BY <1>5, <3>1, <3>2, <3>3
    <2> QED
      BY <2>1, <2>2, GoOn DEF Edits, NoneEnters
  <1>6. CASE StoreRequest(c)
    <2>1. UNCHANGED <<id, traffic, pc>>
      BY <1>6 DEF StoreRequest
    <2>2. \E x \in {"complete", "unavailable"} : Update(c, [capture[c] EXCEPT !.body = x])
      BY <1>6 DEF StoreRequest
    <2> QED
      BY <1>0, <2>1, <2>2, EditType, EditPhase, UpdatePhase DEF Edits, NoneEnters
  <1>7. CASE RequestBodyFails(c)
    <2>1. UNCHANGED <<id, traffic, pc>> /\ Update(c, Finished(capture[c], "error"))
      BY <1>7 DEF RequestBodyFails
    <2> QED
      BY <2>1 DEF Edits, Reports, NoneEnters
  <1> QED
    BY <1>1, <1>2, <1>3, <1>4, <1>5, <1>6, <1>7 DEF Connection, Proceed, EndPause, StoreCopy

LEMMA Cleared == Clear => Ids' = {}
  <1> SUFFICES ASSUME Clear PROVE Ids' = {}
    OBVIOUS
  <1>1. traffic' = <<>> /\ <<>> \in Seq(Nat) /\ Len(<<>>) = 0
    BY EmptySeq DEF Clear
  <1>2. Range(<<>>) = {<<>>[i] : i \in 1..0}
    BY <1>1, RangeOfList
  <1> QED
    BY <1>1, <1>2 DEF Ids

\* What any step does to the outcomes: it forgets captures, begins one, or lets
\* one connection report.
LEMMA Outcomes ==
  ASSUME TypeOK, RetentionBound, [Next]_vars
  PROVE  \/ UNCHANGED <<id, capture, pc>> /\ Ids' \subseteq Ids
         \/ \E c \in Conns : Begin(c)
         \/ /\ UNCHANGED <<id, traffic>> /\ NoneEnters
            /\ \E c \in Conns : Edits(c)
         \/ UNCHANGED <<id, capture, traffic, pc>>
  <1> USE DEF lifecycle, tables, channels, replaying
  <1>1. CASE Engine
    <2>1. UNCHANGED <<id, capture, pc>>
      BY <1>1 DEF Engine, Start, ShutdownSignal, AcceptFails, LeaveLoop, LoopEnds, Stop,
                  StopReturns, Clear
    <2>2. CASE Start
      <3>1. PICK new \in Configs : traffic' = Trimmed(new.limit)
        BY <2>2 DEF Start
      <3>2. new.limit \in Nat \ {0}
        BY ConfigsAssumption DEF Config
      <3> QED
        BY <2>1, <3>1, <3>2, TrimmedList DEF RetentionBound, Ids
    <2>3. CASE Clear
      BY <2>1, <2>3, Cleared
    <2>4. CASE ~Start /\ ~Clear
      BY <1>1, <2>1, <2>4 DEF Engine, ShutdownSignal, AcceptFails, LeaveLoop, LoopEnds,
                              Stop, StopReturns
    <2> QED
      BY <2>2, <2>3, <2>4
  <1>2. ASSUME NEW c \in Conns, Connection(c), ~Begin(c)
        PROVE  UNCHANGED <<id, traffic>> /\ NoneEnters /\ Edits(c)
    BY <1>2, ConnectionReports
  <1>3. ASSUME NEW c \in Replays, Replay(c)
        PROVE  UNCHANGED <<id, traffic>> /\ NoneEnters /\ Edits(c)
    <2>1. UNCHANGED <<id, traffic, pc>>
      BY <1>3 DEF Replay, CheckReplay, DispatchReplay, ReplayReturns
    <2>2. \/ capture' = capture
          \/ \E o \in Conns : capture' = [capture EXCEPT ![c].profile = capture[o].profile]
      BY <1>3 DEF Replay, CheckReplay, DispatchReplay, ReplayReturns
    <2>3. SamePhase
      <3>1. capture \in [Conns -> Capture] /\ c \in Conns
        BY DEF TypeOK, Conns
      <3>2. \A o \in Conns :
              [capture[c] EXCEPT !.profile = capture[o].profile].phase = capture[c].phase
        BY <3>1, EditPhase
      <3> QED
        BY <2>2, <3>1, <3>2 DEF SamePhase
    <2> QED
      BY <2>1, <2>3 DEF NoneEnters, Edits
  <1>4. CASE UNCHANGED vars
    BY <1>4 DEF vars
  <1> QED
    BY <1>1, <1>2, <1>3, <1>4 DEF Next, Conns

\* begin_exchange hands out an id nobody has and lists it; what is evicted goes.
LEMMA Begins ==
  ASSUME TypeOK, RetentionBound, NEW c \in Conns, Begin(c)
  PROVE  /\ pc[c] = "admitted" /\ Goto(c, "connecting")
         /\ \A d \in Conns : id'[d] = IF d = c THEN next_id ELSE id[d]
         /\ \A d \in Conns : id[d] # next_id
         /\ Ids' = Range(Room) \cup {next_id}
         /\ Range(Room) \subseteq Ids /\ next_id \notin Ids
         /\ \A d \in Conns : capture'[d] =
              IF d = c THEN [capture[c] EXCEPT
                               !.class = cfg.class[target[c]],
                               !.replay_of = IF marked[c] THEN origin[c] ELSE 0]
              ELSE capture[d]
  <1>1. /\ next_id \in Nat \ {0} /\ Ids \subseteq 1..(next_id - 1)
        /\ id \in [Conns -> 0..(next_id - 1)] /\ capture \in [Conns -> Capture]
    BY DEF TypeOK
  <1>2. \A x \in Ids : x < next_id
    BY <1>1
  <1>3. Room \in Seq(Nat) /\ Increasing(Room) /\ Range(Room) \subseteq Ids
    BY RoomList
  <1>4. traffic' = Append(Room, next_id)
    BY DEF Begin, FreshId
  <1>5. Ids' = Range(Room) \cup {next_id}
    BY <1>1, <1>2, <1>3, <1>4, AppendToList DEF Ids
  <1>6. pc[c] = "admitted" /\ Goto(c, "connecting") /\ id' = [id EXCEPT ![c] = next_id]
    BY DEF Begin, FreshId
  <1>7. capture' = [capture EXCEPT
          ![c].class = cfg.class[target[c]],
          ![c].replay_of = IF marked[c] THEN origin[c] ELSE 0]
    BY DEF Begin
  <1>8. \A d \in Conns : id[d] # next_id
    BY <1>1
  <1>9. next_id \notin Ids
    BY <1>1
  <1>10. \A d \in Conns : id'[d] = IF d = c THEN next_id ELSE id[d]
    BY <1>1, <1>6
  <1>11. \A d \in Conns : capture'[d] =
           IF d = c THEN [capture[c] EXCEPT
                            !.class = cfg.class[target[c]],
                            !.replay_of = IF marked[c] THEN origin[c] ELSE 0]
           ELSE capture[d]
    BY <1>1, <1>7
  <1> QED
    BY <1>3, <1>5, <1>6, <1>8, <1>9, <1>10, <1>11

LEMMA BornInit == Init => Born
  BY DEF Init, Born, NoCapture

\* Only a listed capture is reported, so one without an id stays pending.
LEMMA ReportedListed ==
  ASSUME TypeOK, NEW c \in Conns, Reports(c)
  PROVE  \/ capture' = capture
         \/ /\ Tracked(c) /\ id[c] # 0 /\ capture[c].phase = "pending"
            /\ \E outcome \in {"complete", "error"} : \A d \in Conns :
                 capture'[d].phase = IF d = c THEN outcome ELSE capture[d].phase
  <1>1. capture \in [Conns -> Capture] /\ 0 \notin Ids
    BY DEF TypeOK
  <1>2. PICK outcome \in {"complete", "error"} : Update(c, Finished(capture[c], outcome))
    BY DEF Reports
  <1>3. CASE Tracked(c) /\ capture[c].phase = "pending"
    <2>1. capture' = [capture EXCEPT ![c] = [capture[c] EXCEPT !.phase = outcome]]
      BY <1>2, <1>3 DEF Update, Finished
    <2>2. [capture[c] EXCEPT !.phase = outcome].phase = outcome
      BY <1>1 DEF Capture
    <2> QED
      BY <1>1, <1>3, <2>1, <2>2 DEF Tracked
  <1>4. CASE ~(Tracked(c) /\ capture[c].phase = "pending")
    BY <1>1, <1>2, <1>4 DEF Update, Finished
  <1> QED
    BY <1>3, <1>4

LEMMA BornStep == TypeOK /\ RetentionBound /\ Born /\ [Next]_vars => Born'
  <1> SUFFICES ASSUME TypeOK, RetentionBound, Born, [Next]_vars PROVE Born'
    OBVIOUS
  <1>1. CASE UNCHANGED <<id, capture, pc>>
    BY <1>1 DEF Born
  <1>2. ASSUME NEW c \in Conns, Begin(c) PROVE Born'
    <2>1. next_id # 0 /\ pc \in [Conns -> Phase]
      BY DEF TypeOK
    <2>2. \A d \in Conns : pc'[d] \in Entering => d # c /\ pc[d] \in Entering
      BY <1>2, <2>1, Begins DEF Goto, Entering
    <2> QED
      BY <1>2, <2>1, <2>2, Begins DEF Born
  <1>3. ASSUME UNCHANGED id, NoneEnters, NEW c \in Conns, Edits(c) PROVE Born'
    <2>1. CASE SamePhase
      BY <1>3, <2>1 DEF Born, SamePhase, NoneEnters
    <2>2. CASE Reports(c)
      BY <1>3, <2>2, ReportedListed DEF Born, NoneEnters
    <2> QED
      BY <1>3, <2>1, <2>2 DEF Edits
  <1> QED
    BY <1>1, <1>2, <1>3, Outcomes

\* The invariant behind the list of captures.
LEMMA BornAlways == Spec => [](TypeOK /\ RetentionBound /\ Born)
  BY ListInvariant, BornInit, BornStep, PTL DEF Spec

LEMMA OutcomesRefine ==
  ASSUME TypeOK, RetentionBound, Born, [Next]_vars
  PROVE  [CapturesOf!Next]_(<<{c \in Conns : Tracked(c)},
                              [c \in Conns |-> IF id[c] = 0 THEN "absent"
                                               ELSE capture[c].phase]>>)
  <1> DEFINE listed  == {c \in Conns : Tracked(c)}
             outcome == [c \in Conns |-> IF id[c] = 0 THEN "absent" ELSE capture[c].phase]
  <1>1. CASE UNCHANGED <<id, capture>> /\ Ids' \subseteq Ids
    <2>1. outcome' = outcome /\ listed' \subseteq listed
      BY <1>1 DEF Tracked
    <2> QED
      BY <2>1 DEF CapturesOf!Next, CapturesOf!Forget
  <1>2. ASSUME NEW c \in Conns, Begin(c) PROVE CapturesOf!Next
    <2>1. next_id # 0 /\ id[c] = 0 /\ capture[c].phase = "pending" /\ capture[c] \in Capture
      BY <1>2, Begins DEF TypeOK, Born, Entering
    <2>2. capture'[c].phase = "pending"
      <3>1. capture'[c] = [capture[c] EXCEPT
                             !.class = cfg.class[target[c]],
                             !.replay_of = IF marked[c] THEN origin[c] ELSE 0]
        BY <1>2, Begins
      <3> QED
        BY <2>1, <3>1 DEF Capture
    <2>3. outcome' = [outcome EXCEPT ![c] = "pending"] /\ outcome[c] = "absent"
      <3>1. \A d \in Conns : d # c => id'[d] = id[d] /\ capture'[d] = capture[d]
        BY <1>2, Begins
      <3>2. id'[c] = next_id
        BY <1>2, Begins
      <3> QED
        BY <2>1, <2>2, <3>1, <3>2
    <2>4. \E kept \in SUBSET listed : listed' = kept \cup {c}
      <3>1. \A d \in Conns : d \in listed' <=> d = c \/ id[d] \in Range(Room)
        BY <1>2, Begins DEF Tracked
      <3>2. {d \in Conns : id[d] \in Range(Room)} \in SUBSET listed
        BY <1>2, Begins DEF Tracked
      <3>3. listed' = {d \in Conns : id[d] \in Range(Room)} \cup {c}
        BY <3>1
      <3> QED
        BY <3>2, <3>3
    <2>5. CapturesOf!Begin(c)
      BY <2>3, <2>4 DEF CapturesOf!Begin
    <2> QED
      BY <2>5 DEF CapturesOf!Next
  <1>3. ASSUME UNCHANGED <<id, traffic>>, NEW c \in Conns, Edits(c)
        PROVE  CapturesOf!Next \/ UNCHANGED <<listed, outcome>>
    <2>1. listed' = listed
      BY <1>3 DEF Tracked, Ids
    <2>2. CASE SamePhase \/ capture' = capture
      BY <1>3, <2>1, <2>2 DEF SamePhase
    <2>3. ASSUME NEW result \in {"complete", "error"}, Tracked(c), id[c] # 0,
                 capture[c].phase = "pending",
                 \A d \in Conns :
                   capture'[d].phase = IF d = c THEN result ELSE capture[d].phase
          PROVE  CapturesOf!Next
      <3>1. outcome' = [outcome EXCEPT ![c] = result] /\ outcome[c] = "pending"
        BY <1>3, <2>3
      <3>2. CapturesOf!Finish(c)
        BY <2>1, <2>3, <3>1 DEF CapturesOf!Finish
      <3> QED
        BY <3>2 DEF CapturesOf!Next
    <2> QED
      BY <1>3, <2>2, <2>3, ReportedListed DEF Edits
  <1>4. CASE UNCHANGED <<id, capture, traffic>>
    BY <1>4 DEF Tracked, Ids
  <1> QED
    BY <1>1, <1>2, <1>3, <1>4, Outcomes

(* Whatever ends an exchange, and although Drop for Exchange reports an    *)
(* error for each of them, a capture begins once, its first outcome stands *)
(* and it never comes back: the engine implements the list that Captures   *)
(* describes.                                                              *)
THEOREM KeepsCapturesAlways == Spec => KeepsCaptures
  <1>1. Init => CapturesOf!Init
    <2> SUFFICES ASSUME Init PROVE CapturesOf!Init
      OBVIOUS
    <2>1. TypeOK
      BY TypeInit
    <2>2. \A c \in Conns : id[c] = 0 /\ ~Tracked(c)
      BY <2>1 DEF Init, TypeOK, Tracked
    <2> QED
      BY <2>2 DEF CapturesOf!Init
  <1>2. TypeOK /\ RetentionBound /\ Born /\ [Next]_vars
          => [CapturesOf!Next]_(<<{c \in Conns : Tracked(c)},
                                  [c \in Conns |-> IF id[c] = 0 THEN "absent"
                                                   ELSE capture[c].phase]>>)
    BY OutcomesRefine
  <1> QED
    BY <1>1, <1>2, BornAlways, PTL DEF Spec, KeepsCaptures, CapturesOf!Spec

-----------------------------------------------------------------------------
(* What is kept under the id of a capture.                                 *)

Waits(c) == pc[c] = "paused" /\ channel[c] = "open"

\* A step after which nobody new waits, and which takes at most the decision of
\* a connection that does not wait any more.
LEMMA KeptQuiet ==
  ASSUME TypeOK, Owned, KeptForListed, UNCHANGED <<id, traffic, templates>>,
         NEW c \in Conns, breakpoints' = breakpoints \/ breakpoints' = breakpoints \ {id[c]},
         \A d \in Conns : Waits(d)' => Waits(d) /\ (breakpoints' = breakpoints \/ d # c)
  PROVE  KeptForListed'
  <1>1. Ids' = Ids /\ 0 \notin Ids
    BY DEF Ids, TypeOK
  <1>2. breakpoints' \cup templates' \subseteq Ids'
    BY <1>1 DEF KeptForListed
  <1>3. ASSUME NEW d \in Conns, Waits(d)', Tracked(d)' PROVE id'[d] \in breakpoints'
    BY <1>1, <1>3 DEF KeptForListed, Tracked, Waits, Owned, OwnIds
  <1> QED
    BY <1>2, <1>3 DEF KeptForListed, Waits

\* Goto with a label other than "paused" makes nobody wait.
LEMMA GoWaits ==
  ASSUME TypeOK, NEW c \in Conns, NEW label \in Phase \ {"paused"}, Goto(c, label),
         UNCHANGED channel
  PROVE  \A d \in Conns : Waits(d)' => Waits(d) /\ d # c
  BY DEF TypeOK, Goto, Waits

LEMMA KeptStep ==
  TypeOK /\ RetentionBound /\ Owned /\ KeptForListed /\ [Next]_vars => KeptForListed'
  <1> SUFFICES ASSUME TypeOK, RetentionBound, Owned, KeptForListed, [Next]_vars
               PROVE  KeptForListed'
    OBVIOUS
  <1> USE DEF lifecycle, tables, channels, replaying
  <1>1. CASE Start
    <2>1. PICK new \in Configs :
            /\ traffic' = Trimmed(new.limit)
            /\ breakpoints' = breakpoints \ (Ids \ Range(Trimmed(new.limit)))
            /\ templates' = templates \ (Ids \ Range(Trimmed(new.limit)))
      BY <1>1 DEF Start, Forget
    <2>2. new.limit \in Nat \ {0}
      BY ConfigsAssumption DEF Config
    <2>3. Ids' = Range(Trimmed(new.limit)) /\ Ids' \subseteq Ids
      BY <2>1, <2>2, TrimmedList DEF RetentionBound, Ids
    <2>4. UNCHANGED <<pc, id, channel>>
      BY <1>1 DEF Start
    <2> QED
      BY <2>1, <2>3, <2>4 DEF KeptForListed, Tracked
  <1>2. CASE Clear
    BY <1>2, Cleared DEF Clear, KeptForListed, Tracked
  <1>3. CASE ShutdownSignal \/ AcceptFails \/ LoopEnds \/ Stop \/ StopReturns
    BY <1>3 DEF ShutdownSignal, AcceptFails, LeaveLoop, LoopEnds, Stop, StopReturns,
                KeptForListed, Tracked, Ids
  <1>4. ASSUME NEW c \in Conns, Begin(c) PROVE KeptForListed'
    <2> DEFINE gone == Ids \ Range(Room)
    <2>1. /\ breakpoints' = breakpoints \ gone
          /\ templates' \subseteq (templates \ gone) \cup {next_id}
          /\ UNCHANGED channel
      BY <1>4 DEF Begin, Forget, FreshId
    <2>2. /\ Ids' = Range(Room) \cup {next_id} /\ Range(Room) \subseteq Ids
          /\ Goto(c, "connecting")
          /\ \A d \in Conns \ {c} : id'[d] = id[d] /\ id[d] # next_id
      BY <1>4, Begins
    <2>3. \A d \in Conns : Waits(d)' => Waits(d) /\ d # c
      BY <2>1, <2>2, GoWaits DEF Phase
    <2> QED
      BY <2>1, <2>2, <2>3 DEF KeptForListed, Tracked, Waits
  <1>5. ASSUME NEW c \in Conns, ArmBreakpoint(c) PROVE KeptForListed'
    <2>1. CASE cfg.pause /\ MayModify(c)
      <3>1. /\ breakpoints' = breakpoints \cup {id[c]} /\ Tracked(c)
            /\ UNCHANGED <<id, traffic, templates>>
            /\ \A d \in Conns \ {c} : pc'[d] = pc[d] /\ channel'[d] = channel[d]
        BY <1>5, <2>1 DEF ArmBreakpoint, MayModify, Goto, TypeOK
      <3> QED
        BY <3>1 DEF KeptForListed, Tracked, Ids
    <2>2. CASE ~(cfg.pause /\ MayModify(c))
      BY <1>5, <2>2, GoWaits, KeptQuiet DEF ArmBreakpoint, Phase
    <2> QED
      BY <2>1, <2>2
  <1>6. ASSUME NEW c \in Conns, TakeSender(c) PROVE KeptForListed'
    <2>1. \A d \in Conns : Waits(d)' => Waits(d) /\ d # c
      BY <1>6 DEF TakeSender, Waits, TypeOK
    <2> QED
      BY <1>6, <2>1, KeptQuiet DEF TakeSender
  <1>7. ASSUME NEW c \in Conns, SendDecision(c) PROVE KeptForListed'
    <2>1. \A d \in Conns : Waits(d)' => Waits(d) /\ d # c
      BY <1>7 DEF SendDecision, Waits, TypeOK
    <2> QED
      BY <1>7, <2>1, KeptQuiet DEF SendDecision
  <1>8. ASSUME NEW c \in Conns,
               ReceiveDecision(c) \/ SenderDropped(c) \/ ContinueUnchanged(c)
        PROVE  KeptForListed'
    <2>1. /\ UNCHANGED <<id, traffic, templates, channel>> /\ Goto(c, "responding")
          /\ breakpoints' = breakpoints \ {id[c]}
      BY <1>8 DEF ReceiveDecision, SenderDropped, ContinueUnchanged, Continue
    <2> QED
      BY <2>1, GoWaits, KeptQuiet DEF Phase
  <1>9. ASSUME NEW c \in Conns, Accept(c) \/ Authenticate(c) \/ RefuseReplay(c)
        PROVE  KeptForListed'
    <2>1. /\ UNCHANGED <<id, traffic, templates, channel, breakpoints>>
          /\ \E label \in Phase \ {"paused"} : Goto(c, label)
      BY <1>9 DEF Accept, Authenticate, RefuseReplay, Phase
    <2> QED
      BY <2>1, GoWaits, KeptQuiet
  <1>10. ASSUME NEW c \in Conns, UpstreamFails(c) \/ SendRequest(c) \/ ResponseHead(c)
                \/ PauseElapses(c) \/ Respond(c)
         PROVE  KeptForListed'
    <2>1. /\ UNCHANGED <<id, traffic, templates, channel, breakpoints>>
          /\ \E label \in Phase \ {"paused"} : Goto(c, label)
      BY <1>10 DEF UpstreamFails, SendRequest, ResponseHead, PauseElapses, Respond, Phase
    <2> QED
      BY <2>1, GoWaits, KeptQuiet
  <1>11. ASSUME NEW c \in Conns, StoreReplacement(c) \/ RecordResponse(c)
                \/ RecheckResponse(c) \/ EndBody(c) \/ RequestTimesOut(c) \/ Abort(c)
                \/ Disconnect(c) \/ DropExchange(c)
         PROVE  KeptForListed'
    <2>1. /\ UNCHANGED <<id, traffic, templates, channel, breakpoints>>
          /\ \E label \in Phase \ {"paused"} : Goto(c, label)
      BY <1>11 DEF StoreReplacement, RecordResponse, RecheckResponse, EndBody,
                   RequestTimesOut, Abort, Disconnect, Dropped, DropExchange, Phase
    <2> QED
      BY <2>1, GoWaits, KeptQuiet
  <1>12. ASSUME NEW c \in Conns, Reap(c) \/ FinishCapture(c) \/ LoseCapture(c)
                \/ RequestBodyFails(c) \/ StoreCopy(c)
         PROVE  KeptForListed'
    BY <1>12 DEF Reap, FinishCapture, LoseCapture, RequestBodyFails, StoreCopy, StoreRequest,
                 RecheckRequest, KeptForListed, Tracked, Ids
  <1>13. ASSUME NEW c \in Replays, Replay(c) PROVE KeptForListed'
    BY <1>13 DEF Replay, CheckReplay, DispatchReplay, ReplayReturns, KeptForListed,
                 Tracked, Ids
  <1>14. CASE UNCHANGED vars
    BY <1>14 DEF vars, KeptForListed, Tracked, Ids
  <1> QED
    BY <1>1, <1>2, <1>3, <1>4, <1>5, <1>6, <1>7, <1>8, <1>9, <1>10, <1>11, <1>12, <1>13, <1>14
       DEF Next, Engine, Connection, Proceed, EndPause

LEMMA KeptInit == Init => KeptForListed
  BY DEF Init, KeptForListed

LEMMA OwnedAlways == Spec => [](TypeOK /\ RetentionBound /\ Owned)
  BY ListInvariant, OwnedInit, OwnedStep, PTL DEF Spec

(* Start, begin_exchange and Clear forget decisions and templates together *)
(* with the captures, and what one connection takes out of the map is its  *)
(* own: a listed response that is paused can be decided.                   *)
THEOREM KeptForListedAlways == Spec => []KeptForListed
  BY OwnedAlways, KeptInit, KeptStep, PTL DEF Spec

-----------------------------------------------------------------------------
(* The course of one exchange.                                             *)

\* A connection leaves the others alone.
Alone(c) ==
  \A d \in Conns \ {c} :
    /\ pc'[d] = pc[d] /\ id'[d] = id[d] /\ target'[d] = target[d]
    /\ rule'[d] = rule[d] /\ channel'[d] = channel[d] /\ decision'[d] = decision[d]
    /\ applied'[d] = applied[d] /\ worker'[d] = worker[d]
    /\ marked'[d] = marked[d] /\ call'[d] = call[d] /\ origin'[d] = origin[d]

LEMMA StepsAlone ==
  ASSUME TypeOK, NEW c \in Conns, Connection(c) \/ Replay(c)
  PROVE  Alone(c)
  <1> USE DEF lifecycle, tables, channels, replaying
  <1>1. CASE Accept(c) \/ Reap(c) \/ Authenticate(c) \/ RefuseReplay(c) \/ Begin(c)
    <2>1. CASE Accept(c) \/ Reap(c)
      BY <2>1 DEF Accept, Reap, Goto, Alone, TypeOK
    <2>2. CASE Authenticate(c) \/ RefuseReplay(c)
      BY <2>2 DEF Authenticate, RefuseReplay, Goto, Alone, TypeOK
    <2>3. CASE Begin(c)
      BY <2>3 DEF Begin, Goto, Alone, TypeOK
    <2> QED
      BY <1>1, <2>1, <2>2, <2>3
  <1>2. CASE UpstreamFails(c) \/ SendRequest(c) \/ ResponseHead(c) \/ ArmBreakpoint(c)
    BY <1>2 DEF UpstreamFails, SendRequest, ResponseHead, ArmBreakpoint, Goto, Alone, TypeOK
  <1>3. CASE TakeSender(c) \/ SendDecision(c) \/ EndPause(c) \/ ContinueUnchanged(c)
    BY <1>3 DEF TakeSender, SendDecision, EndPause, ReceiveDecision, SenderDropped,
                PauseElapses, ContinueUnchanged, Continue, Goto, Alone, TypeOK
  <1>4. CASE Respond(c) \/ StoreReplacement(c) \/ RecordResponse(c) \/ RecheckResponse(c)
             \/ EndBody(c)
    BY <1>4 DEF Respond, StoreReplacement, RecordResponse, RecheckResponse, EndBody, Goto,
                Alone, TypeOK
  <1>5. CASE RequestTimesOut(c) \/ Abort(c) \/ Disconnect(c) \/ DropExchange(c)
    BY <1>5 DEF RequestTimesOut, Abort, Disconnect, Dropped, DropExchange, Goto, Alone, TypeOK
  <1>6. CASE FinishCapture(c) \/ LoseCapture(c) \/ RequestBodyFails(c) \/ StoreCopy(c)
    BY <1>6 DEF FinishCapture, LoseCapture, RequestBodyFails, StoreCopy, StoreRequest,
                RecheckRequest, Alone, TypeOK
  <1>7. CASE Replay(c)
    BY <1>7 DEF Replay, CheckReplay, DispatchReplay, ReplayReturns, Alone, TypeOK
  <1> QED
    BY <1>1, <1>2, <1>3, <1>4, <1>5, <1>6, <1>7 DEF Connection, Proceed

\* What an exchange has not done yet, and the order in which it does it: the
\* request body is read after the upstream is connected, the rule chosen at the
\* head, the decision applied after its channel accepted it.
OnCourse(c) ==
  /\ pc[c] \in Entering \cup {"connecting"} => worker[c] = "none"
  /\ pc[c] \in Entering \cup {"connecting", "sending"} => rule[c] = "none"
  /\ pc[c] \in Entering \cup {"connecting", "sending", "headed"} =>
       channel[c] = "none" /\ ~applied[c]
  /\ applied[c] => channel[c] = "accepted"
  /\ id[c] # 0 /\ id[c] \in breakpoints => channel[c] = "open"
  /\ pc[c] = "storing" => ReplacesBody(c)

Course == \A c \in Conns : OnCourse(c)

LEMMA CourseOfOne ==
  ASSUME Course, NEW c \in Conns, Alone(c), OnCourse(c)',
         \A d \in Conns \ {c} : id[d] # 0 /\ id[d] \in breakpoints' => id[d] \in breakpoints
  PROVE  Course'
  <1> SUFFICES ASSUME NEW d \in Conns \ {c} PROVE OnCourse(d)'
    BY DEF Course
  <1>1. OnCourse(d)
    BY DEF Course
  <1> QED
    BY <1>1 DEF Alone, OnCourse, ReplacesBody

LEMMA CourseInit == Init => Course
  BY DEF Init, Course, OnCourse

LEMMA CourseStep ==
  TypeOK /\ RetentionBound /\ Owned /\ Course /\ [Next]_vars => Course'
  <1> SUFFICES ASSUME TypeOK, RetentionBound, Owned, Course, [Next]_vars PROVE Course'
    OBVIOUS
  <1> USE DEF lifecycle, tables, channels, replaying
  <1>1. CASE Engine
    <2>1. /\ UNCHANGED <<pc, id, rule, channel, decision, applied, worker>>
          /\ breakpoints' \subseteq breakpoints
      BY <1>1 DEF Engine, Start, Forget, ShutdownSignal, AcceptFails, LeaveLoop, LoopEnds,
                  Stop, StopReturns, Clear
    <2> QED
      BY <2>1 DEF Course, OnCourse, ReplacesBody
  <1>2. ASSUME NEW c \in Conns, Connection(c) PROVE Course'
    <2>1. Alone(c) /\ OnCourse(c)
      BY <1>2, StepsAlone DEF Course
    <2>2. CASE Begin(c)
      <3>1. /\ breakpoints' \subseteq breakpoints /\ pc[c] \in Entering
            /\ UNCHANGED <<rule, channel, decision, applied, worker>>
        BY <2>2 DEF Begin, Forget, Entering
      <3>2. id'[c] = next_id /\ next_id \notin breakpoints /\ pc'[c] = "connecting"
        <4>1. /\ next_id \in Nat \ {0} /\ breakpoints \subseteq 1..(next_id - 1)
              /\ pc \in [Conns -> Phase]
          BY DEF TypeOK
        <4>2. id'[c] = next_id /\ Goto(c, "connecting")
          BY <2>2, Begins
        <4> QED
          BY <4>1, <4>2 DEF Goto
      <3> QED
        BY <2>1, <3>1, <3>2, CourseOfOne DEF OnCourse, Entering
    <2>3. CASE ArmBreakpoint(c)
      <3>1. /\ UNCHANGED <<id, rule, decision, applied, worker>> /\ pc[c] = "headed"
            /\ \/ breakpoints' = breakpoints \cup {id[c]} /\ Tracked(c)
                  /\ channel'[c] = "open" /\ pc'[c] = "paused"
               \/ breakpoints' = breakpoints /\ channel' = channel /\ pc'[c] = "responding"
        BY <2>3 DEF ArmBreakpoint, Goto, TypeOK, MayModify
      <3>2. \A d \in Conns \ {c} : id[d] # 0 => id[d] # id[c]
        BY DEF Owned, OwnIds
      <3> QED
        BY <2>1, <3>1, <3>2, CourseOfOne DEF OnCourse, Entering
    <2>4. CASE TakeSender(c)
      <3>1. /\ UNCHANGED <<pc, id, rule, applied, worker>> /\ id[c] \in breakpoints
            /\ breakpoints' = breakpoints \ {id[c]} /\ channel'[c] = "held"
        BY <2>4 DEF TakeSender, TypeOK
      <3>2. id[c] # 0
        BY <3>1 DEF TypeOK
      <3>3. pc[c] \notin Entering \cup {"connecting", "sending", "headed"} /\ ~applied[c]
        BY <2>1, <3>1, <3>2 DEF OnCourse
      <3> QED
        BY <2>1, <3>1, <3>3, CourseOfOne DEF OnCourse, Entering, ReplacesBody
    <2>5. CASE SendDecision(c)
      <3>1. /\ UNCHANGED <<pc, id, breakpoints, rule, decision, applied, worker>>
            /\ channel[c] = "held" /\ channel'[c] \in {"accepted", "rejected"}
        BY <2>5 DEF SendDecision, TypeOK
      <3> QED
        BY <2>1, <3>1, CourseOfOne DEF OnCourse, ReplacesBody
    <2>6. CASE ReceiveDecision(c) \/ SenderDropped(c) \/ ContinueUnchanged(c)
      <3>1. /\ UNCHANGED <<id, rule, channel, decision, worker>>
            /\ pc'[c] = "responding" /\ breakpoints' = breakpoints \ {id[c]}
            /\ applied'[c] = applied[c] \/ channel[c] = "accepted"
        BY <2>6 DEF ReceiveDecision, SenderDropped, ContinueUnchanged, Continue, Goto, TypeOK
      <3> QED
        BY <2>1, <3>1, CourseOfOne DEF OnCourse, Entering
    <2>7. CASE SendRequest(c) \/ ResponseHead(c)
      <3>1. /\ UNCHANGED <<id, breakpoints, channel, decision, applied>>
            /\ \/ pc[c] = "connecting" /\ pc'[c] = "sending" /\ rule' = rule
               \/ pc[c] = "sending" /\ pc'[c] = "headed"
        BY <2>7 DEF SendRequest, ResponseHead, Goto, TypeOK
      <3> QED
        BY <2>1, <3>1, CourseOfOne DEF OnCourse, Entering
    <2>8. CASE Respond(c)
      <3>1. /\ UNCHANGED <<id, breakpoints, rule, channel, decision, applied, worker>>
            /\ pc'[c] \in {"dropping", "storing", "recording", "streaming"}
            /\ pc'[c] = "storing" => ReplacesBody(c)
        BY <2>8 DEF Respond, Goto, TypeOK
      <3> QED
        BY <2>1, <3>1, CourseOfOne DEF OnCourse, Entering, ReplacesBody
    <2>9. CASE Reap(c) \/ FinishCapture(c) \/ LoseCapture(c) \/ RequestBodyFails(c)
               \/ StoreCopy(c)
      <3>1. /\ UNCHANGED <<pc, id, breakpoints, rule, channel, decision, applied>>
            /\ worker[c] # "none" \/ worker' = worker
        BY <2>9 DEF Reap, FinishCapture, LoseCapture, RequestBodyFails, StoreCopy,
                    StoreRequest, RecheckRequest
      <3> QED
        BY <2>1, <3>1, CourseOfOne DEF OnCourse, ReplacesBody
    <2>10. CASE Accept(c) \/ Authenticate(c) \/ RefuseReplay(c)
      <3>1. /\ UNCHANGED <<id, breakpoints, rule, channel, decision, applied, worker>>
            /\ pc[c] \in Entering /\ pc'[c] \in {"served", "admitted", "done"}
        BY <2>10 DEF Accept, Authenticate, RefuseReplay, Goto, TypeOK, Entering
      <3> QED
        BY <2>1, <3>1, CourseOfOne DEF OnCourse, Entering
    <2>11. CASE UpstreamFails(c) \/ PauseElapses(c) \/ StoreReplacement(c) \/ RecordResponse(c)
                \/ RecheckResponse(c) \/ EndBody(c)
      <3>1. /\ UNCHANGED <<id, breakpoints, rule, channel, decision, applied, worker>>
            /\ pc'[c] \in {"dropping", "elapsed", "recorded", "streaming"}
        BY <2>11 DEF UpstreamFails, PauseElapses, StoreReplacement, RecordResponse,
                     RecheckResponse, EndBody, Goto, TypeOK
      <3> QED
        BY <2>1, <3>1, CourseOfOne DEF OnCourse, Entering
    <2>12. CASE RequestTimesOut(c) \/ Abort(c) \/ Disconnect(c) \/ DropExchange(c)
      <3>1. /\ UNCHANGED <<id, breakpoints, rule, channel, decision, applied, worker>>
            /\ pc'[c] \in {"dropping", "done"}
        BY <2>12 DEF RequestTimesOut, Abort, Disconnect, Dropped, DropExchange, Goto, TypeOK
      <3> QED
        BY <2>1, <3>1, CourseOfOne DEF OnCourse, Entering
    <2> QED
      BY <1>2, <2>2, <2>3, <2>4, <2>5, <2>6, <2>7, <2>8, <2>9, <2>10, <2>11, <2>12
         DEF Connection, Proceed, EndPause
  <1>3. ASSUME NEW c \in Replays, Replay(c) PROVE Course'
    BY <1>3 DEF Replay, CheckReplay, DispatchReplay, ReplayReturns, Course, OnCourse,
                ReplacesBody
  <1>4. CASE UNCHANGED vars
    BY <1>4 DEF vars, Course, OnCourse, ReplacesBody
  <1> QED
    BY <1>1, <1>2, <1>3, <1>4 DEF Next

\* Who will see to a stored body whose capture is gone.
Explains(c, b) ==
  /\ id[c] = b[2]
  /\ \/ b[1] = "response" /\ pc[c] = "recorded"
     \/ b[1] = "request" /\ worker[c] = "stored"
     \/ b[1] = "response" /\ ReplacesBody(c)

\* A connection that goes on seeing to its bodies.
GoesOn(c) ==
  /\ pc[c] = "recorded" => pc'[c] = "recorded"
  /\ worker[c] = "stored" => worker'[c] = "stored"
  /\ ReplacesBody(c) => ReplacesBody(c)'

LEMMA OrphansOfOne ==
  ASSUME OrphansAreRemoved, NEW c \in Conns, Alone(c), UNCHANGED <<id, traffic>>,
         \A b \in bodies' : b[2] \notin Ids /\ (b \in bodies => Explains(c, b))
                            => Explains(c, b)'
  PROVE  OrphansAreRemoved'
  <1> SUFFICES ASSUME NEW b \in bodies', b[2] \notin Ids
               PROVE  \E d \in Conns : Explains(d, b)'
    BY DEF OrphansAreRemoved, Explains, Ids
  <1>1. CASE b \in bodies /\ ~Explains(c, b)
    <2>1. PICK d \in Conns : Explains(d, b)
      BY <1>1 DEF OrphansAreRemoved, Explains
    <2>2. d # c
      BY <1>1, <2>1
    <2> QED
      BY <2>1, <2>2 DEF Explains, Alone, ReplacesBody
  <1>2. CASE ~(b \in bodies /\ ~Explains(c, b))
    BY <1>2
  <1> QED
    BY <1>1, <1>2

LEMMA OrphansQuiet ==
  ASSUME OrphansAreRemoved, NEW c \in Conns, Alone(c), UNCHANGED <<id, traffic, bodies>>,
         GoesOn(c)
  PROVE  OrphansAreRemoved'
  <1>1. \A b \in bodies' : Explains(c, b) => Explains(c, b)'
    BY DEF Explains, GoesOn
  <1> QED
    BY <1>1, OrphansOfOne

\* What leaves the list takes its bodies along.
LEMMA OrphansForget ==
  ASSUME OrphansAreRemoved, bodies' \subseteq {b \in bodies : b[2] \notin Ids \ Ids'},
         NEW S \in SUBSET Conns, \A c \in S : \A b : Explains(c, b) => Explains(c, b)',
         \A c \in Conns \ S : \A b : ~Explains(c, b)
  PROVE  OrphansAreRemoved'
  <1> SUFFICES ASSUME NEW b \in bodies', b[2] \notin Ids'
               PROVE  \E d \in Conns : Explains(d, b)'
    BY DEF OrphansAreRemoved, Explains
  <1>1. b \in bodies /\ b[2] \notin Ids
    OBVIOUS
  <1>2. PICK d \in Conns : Explains(d, b)
    BY <1>1 DEF OrphansAreRemoved, Explains
  <1> QED
    BY <1>2

LEMMA OrphansStep ==
  TypeOK /\ RetentionBound /\ Owned /\ Born /\ Course /\ OrphansAreRemoved /\ [Next]_vars
    => OrphansAreRemoved'
  <1> SUFFICES ASSUME TypeOK, RetentionBound, Owned, Born, Course, OrphansAreRemoved, [Next]_vars
               PROVE  OrphansAreRemoved'
    OBVIOUS
  <1> USE DEF lifecycle, tables, channels, replaying
  <1>1. CASE Engine
    <2>1. UNCHANGED <<pc, id, rule, decision, applied, worker>>
      BY <1>1 DEF Engine, Start, ShutdownSignal, AcceptFails, LeaveLoop, LoopEnds, Stop,
                  StopReturns, Clear
    <2>2. bodies' \subseteq {b \in bodies : b[2] \notin Ids \ Ids'}
      <3>1. CASE Start
        <4>1. PICK new \in Configs :
                /\ traffic' = Trimmed(new.limit)
                /\ bodies' = {b \in bodies : b[2] \notin Ids \ Range(Trimmed(new.limit))}
          BY <3>1 DEF Start, Forget
        <4> QED
          BY <4>1 DEF Ids
      <3>2. CASE Clear
        BY <3>2 DEF Clear
      <3>3. CASE ~Start /\ ~Clear
        BY <1>1, <3>3 DEF Engine, ShutdownSignal, AcceptFails, LeaveLoop, LoopEnds, Stop,
                          StopReturns, Ids
      <3> QED
        BY <3>1, <3>2, <3>3
    <2>3. \A c \in Conns : \A b : Explains(c, b) => Explains(c, b)'
      BY <2>1 DEF Explains, ReplacesBody
    <2> QED
      BY <2>2, <2>3, OrphansForget
  <1>2. ASSUME NEW c \in Conns, Connection(c) PROVE OrphansAreRemoved'
    <2>1. Alone(c) /\ OnCourse(c)
      BY <1>2, StepsAlone DEF Course
    <2>2. CASE Begin(c)
      <3>1. bodies' = {b \in bodies : b[2] \notin Ids \ Range(Room)}
        BY <2>2 DEF Begin, Forget
      <3>2. bodies' \subseteq {b \in bodies : b[2] \notin Ids \ Ids'}
        BY <2>2, <3>1, Begins
      <3>3. \A b : ~Explains(c, b)
        BY <2>1, <2>2 DEF Begin, OnCourse, Explains, ReplacesBody, Entering
      <3>4. \A d \in Conns \ {c} : \A b : Explains(d, b) => Explains(d, b)'
        BY <2>1 DEF Alone, Explains, ReplacesBody
      <3> QED
        BY <3>2, <3>3, <3>4, OrphansForget
    <2>3. CASE StoreReplacement(c) \/ RecordResponse(c)
      <3>1. /\ UNCHANGED <<id, traffic, rule, decision, applied, worker>>
            /\ bodies' = bodies \/ bodies' = bodies \cup {<<"response", id[c]>>}
            /\ \/ bodies' = bodies /\ pc[c] # "recorded"
               \/ ReplacesBody(c)
               \/ pc'[c] = "recorded"
        BY <2>1, <2>3 DEF StoreReplacement, RecordResponse, OnCourse, Goto, TypeOK
      <3>2. \A b \in bodies' : b[2] \notin Ids /\ (b \in bodies => Explains(c, b))
                               => Explains(c, b)'
        BY <3>1 DEF Explains, ReplacesBody
      <3> QED
        BY <2>1, <3>1, <3>2, OrphansOfOne
    <2>4. CASE RecheckResponse(c)
      <3>1. /\ UNCHANGED <<id, traffic, rule, decision, applied, worker>>
            /\ bodies' = IF Tracked(c) THEN bodies ELSE bodies \ {<<"response", id[c]>>}
            /\ pc[c] = "recorded"
        BY <2>4 DEF RecheckResponse, UnlessForgotten
      <3>2. ASSUME NEW b \in bodies', b[2] \notin Ids, b \in bodies => Explains(c, b)
            PROVE  Explains(c, b)'
        <4>1. b \in bodies /\ Explains(c, b) /\ ~Tracked(c)
          BY <3>1, <3>2 DEF Explains, Tracked
        <4>2. b = <<b[1], b[2]>>
          BY <4>1 DEF TypeOK
        <4>3. b[1] # "response"
          BY <3>1, <4>1, <4>2 DEF Explains
        <4> QED
          BY <3>1, <4>1, <4>3 DEF Explains
      <3> QED
        BY <2>1, <3>1, <3>2, OrphansOfOne
    <2>5. CASE StoreRequest(c)
      <3>1. /\ UNCHANGED <<id, traffic, pc, rule, decision, applied>>
            /\ bodies' = bodies \/ bodies' = bodies \cup {<<"request", id[c]>>}
            /\ worker'[c] = "stored"
        BY <2>5 DEF StoreRequest, TypeOK
      <3>2. \A b \in bodies' : b[2] \notin Ids /\ (b \in bodies => Explains(c, b))
                               => Explains(c, b)'
        BY <3>1 DEF Explains, ReplacesBody
      <3> QED
        BY <2>1, <3>1, <3>2, OrphansOfOne
    <2>6. CASE RecheckRequest(c)
      <3>1. /\ UNCHANGED <<id, traffic, pc, rule, decision, applied>>
            /\ bodies' = IF Tracked(c) THEN bodies ELSE bodies \ {<<"request", id[c]>>}
        BY <2>6 DEF RecheckRequest, UnlessForgotten
      <3>2. ASSUME NEW b \in bodies', b[2] \notin Ids, b \in bodies => Explains(c, b)
            PROVE  Explains(c, b)'
        <4>1. b \in bodies /\ Explains(c, b) /\ ~Tracked(c)
          BY <3>1, <3>2 DEF Explains, Tracked
        <4>2. b = <<b[1], b[2]>>
          BY <4>1 DEF TypeOK
        <4>3. b[1] # "request"
          BY <3>1, <4>1, <4>2 DEF Explains
        <4> QED
          BY <3>1, <4>1, <4>3 DEF Explains, ReplacesBody
      <3> QED
        BY <2>1, <3>1, <3>2, OrphansOfOne
    <2>7. CASE TakeSender(c)
      <3>1. UNCHANGED <<id, traffic, bodies, pc, rule, applied, worker>> /\ id[c] \in breakpoints
        BY <2>7 DEF TakeSender
      <3>2. id[c] # 0
        BY <3>1 DEF TypeOK
      <3>3. ~applied[c]
        BY <2>1, <3>1, <3>2 DEF OnCourse
      <3> QED
        BY <2>1, <3>1, <3>3, OrphansQuiet DEF GoesOn, ReplacesBody
    <2>8. CASE ResponseHead(c)
      <3>1. UNCHANGED <<id, traffic, bodies, worker>> /\ pc[c] = "sending"
        BY <2>8 DEF ResponseHead
      <3>2. ~ReplacesBody(c)
        BY <2>1, <3>1 DEF OnCourse, ReplacesBody
      <3> QED
        BY <2>1, <3>1, <3>2, OrphansQuiet DEF GoesOn
    <2>9. CASE ReceiveDecision(c) \/ SenderDropped(c) \/ ContinueUnchanged(c)
      <3>1. /\ UNCHANGED <<id, traffic, bodies, rule, decision, worker>>
            /\ pc[c] # "recorded" /\ (applied[c] => applied'[c])
        BY <2>9 DEF ReceiveDecision, SenderDropped, ContinueUnchanged, Continue, TypeOK
      <3> QED
        BY <2>1, <3>1, OrphansQuiet DEF GoesOn, ReplacesBody
    <2>10. CASE SendRequest(c)
      <3>1. /\ UNCHANGED <<id, traffic, bodies, rule, decision, applied>>
            /\ pc[c] = "connecting"
        BY <2>10 DEF SendRequest
      <3> QED
        BY <2>1, <3>1, OrphansQuiet DEF GoesOn, OnCourse, ReplacesBody
    <2>11. CASE Reap(c) \/ FinishCapture(c) \/ LoseCapture(c) \/ RequestBodyFails(c)
                \/ SendDecision(c)
      <3>1. /\ UNCHANGED <<id, traffic, bodies, pc, rule, decision, applied>>
            /\ worker[c] \in {"passing", "buffering"} \/ worker' = worker
        BY <2>11 DEF Reap, FinishCapture, LoseCapture, RequestBodyFails, SendDecision
      <3> QED
        BY <2>1, <3>1, OrphansQuiet DEF GoesOn, ReplacesBody
    <2>12. CASE Accept(c) \/ Authenticate(c) \/ RefuseReplay(c) \/ UpstreamFails(c)
                \/ ArmBreakpoint(c) \/ PauseElapses(c) \/ Respond(c) \/ EndBody(c)
      <3>1. /\ UNCHANGED <<id, traffic, bodies, rule, decision, applied, worker>>
            /\ pc[c] # "recorded"
        BY <2>12 DEF Accept, Authenticate, RefuseReplay, UpstreamFails, ArmBreakpoint,
                     PauseElapses, Respond, EndBody
      <3> QED
        BY <2>1, <3>1, OrphansQuiet DEF GoesOn, ReplacesBody
    <2>13. CASE RequestTimesOut(c) \/ Abort(c) \/ Disconnect(c) \/ DropExchange(c)
      <3>1. /\ UNCHANGED <<id, traffic, bodies, rule, decision, applied, worker>>
            /\ pc[c] # "recorded"
        BY <2>13 DEF RequestTimesOut, Abort, Disconnect, Dropped, DropExchange, Awaiting,
                     Suspended
      <3> QED
        BY <2>1, <3>1, OrphansQuiet DEF GoesOn, ReplacesBody
    <2> QED
      BY <1>2, <2>2, <2>3, <2>4, <2>5, <2>6, <2>7, <2>8, <2>9, <2>10, <2>11, <2>12, <2>13
         DEF Connection, Proceed, EndPause, StoreCopy
  <1>3. ASSUME NEW c \in Replays, Replay(c) PROVE OrphansAreRemoved'
    BY <1>3 DEF Replay, CheckReplay, DispatchReplay, ReplayReturns, OrphansAreRemoved,
                ReplacesBody, Ids
  <1>4. CASE UNCHANGED vars
    BY <1>4 DEF vars, OrphansAreRemoved, ReplacesBody, Ids
  <1> QED
    BY <1>1, <1>2, <1>3, <1>4 DEF Next

LEMMA CourseAlways == Spec => [](TypeOK /\ RetentionBound /\ Owned /\ Born /\ Course)
  BY OwnedAlways, BornAlways, CourseInit, CourseStep, PTL DEF Spec

(* A body that is stored after its capture was forgotten is about to be    *)
(* removed by whoever stored it, replacement bodies apart: no other stored *)
(* body survives its capture.                                              *)
THEOREM OrphansAreRemovedAlways == Spec => []OrphansAreRemoved
  <1>1. Init => OrphansAreRemoved
    BY DEF Init, OrphansAreRemoved
  <1> QED
    BY <1>1, CourseAlways, OrphansStep, PTL DEF Spec

-----------------------------------------------------------------------------
(* Replays and the rules they meet.                                        *)

\* Class, link and profile of every capture stay.
SameLabels ==
  \A d \in Conns :
    /\ capture'[d].class = capture[d].class
    /\ capture'[d].replay_of = capture[d].replay_of
    /\ capture'[d].profile = capture[d].profile

LEMMA EditLabels ==
  ASSUME TypeOK, NEW c \in Conns
  PROVE  /\ (\E outcome \in {"complete", "error"} : Update(c, Finished(capture[c], outcome)))
              => SameLabels
         /\ (\E x : Update(c, [capture[c] EXCEPT !.body = x])) => SameLabels
         /\ (\E x : Update(c, [capture[c] EXCEPT !.rule = x])) => SameLabels
         /\ (\E x : Update(c, [capture[c] EXCEPT !.breakpoint = x])) => SameLabels
         /\ capture' = capture => SameLabels
  <1>1. capture \in [Conns -> Capture] /\ capture[c] \in Capture
    BY DEF TypeOK
  <1>2. ASSUME NEW new, Update(c, new), new.class = capture[c].class,
               new.replay_of = capture[c].replay_of, new.profile = capture[c].profile
        PROVE  SameLabels
    BY <1>1, <1>2 DEF Update, SameLabels
  <1>3. ASSUME NEW x
        PROVE  /\ [capture[c] EXCEPT !.body = x].class = capture[c].class
               /\ [capture[c] EXCEPT !.body = x].replay_of = capture[c].replay_of
               /\ [capture[c] EXCEPT !.body = x].profile = capture[c].profile
    BY <1>1 DEF Capture
  <1>4. ASSUME NEW x
        PROVE  /\ [capture[c] EXCEPT !.rule = x].class = capture[c].class
               /\ [capture[c] EXCEPT !.rule = x].replay_of = capture[c].replay_of
               /\ [capture[c] EXCEPT !.rule = x].profile = capture[c].profile
    BY <1>1 DEF Capture
  <1>5. ASSUME NEW x
        PROVE  /\ [capture[c] EXCEPT !.breakpoint = x].class = capture[c].class
               /\ [capture[c] EXCEPT !.breakpoint = x].replay_of = capture[c].replay_of
               /\ [capture[c] EXCEPT !.breakpoint = x].profile = capture[c].profile
    BY <1>1 DEF Capture
  <1>6. ASSUME NEW x
        PROVE  /\ Finished(capture[c], x).class = capture[c].class
               /\ Finished(capture[c], x).replay_of = capture[c].replay_of
               /\ Finished(capture[c], x).profile = capture[c].profile
    BY <1>1 DEF Capture, Finished
  <1>7. capture' = capture => SameLabels
    BY DEF SameLabels
  <1> QED
    BY <1>2, <1>3, <1>4, <1>5, <1>6, <1>7

\* Only the two steps in which a request enters set labels.
LEMMA LabelsKept ==
  ASSUME TypeOK, NEW c \in Conns, Connection(c), ~Begin(c), ~Authenticate(c)
  PROVE  SameLabels
  <1> USE DEF lifecycle, tables, channels, replaying
  <1>1. CASE Accept(c) \/ Reap(c) \/ RefuseReplay(c) \/ TakeSender(c) \/ SendDecision(c)
             \/ PauseElapses(c) \/ RecordResponse(c) \/ RecheckResponse(c)
             \/ Abort(c) \/ Disconnect(c) \/ FinishCapture(c) \/ LoseCapture(c)
             \/ RecheckRequest(c)
    <2>1. capture' = capture
      BY <1>1 DEF Accept, Reap, RefuseReplay, TakeSender, SendDecision, PauseElapses,
                  RecordResponse, RecheckResponse, Abort, Disconnect, Dropped, FinishCapture,
                  LoseCapture, RecheckRequest
    <2> QED
      BY <2>1, EditLabels
  <1>2. CASE UpstreamFails(c) \/ RequestTimesOut(c) \/ DropExchange(c)
             \/ StoreReplacement(c) \/ EndBody(c) \/ Respond(c) \/ RequestBodyFails(c)
    <2>1. \/ \E outcome \in {"complete", "error"} : Update(c, Finished(capture[c], outcome))
          \/ capture' = capture
      BY <1>2 DEF UpstreamFails, RequestTimesOut, DropExchange, StoreReplacement, EndBody,
                  Respond, RequestBodyFails
    <2> QED
      BY <2>1, EditLabels
  <1>3. CASE SendRequest(c) \/ StoreRequest(c)
    <2>1. \E x : Update(c, [capture[c] EXCEPT !.body = x])
      BY <1>3 DEF SendRequest, StoreRequest
    <2> QED
      BY <2>1, EditLabels
  <1>4. CASE ResponseHead(c)
    <2>1. \E x : Update(c, [capture[c] EXCEPT !.rule = x])
      BY <1>4 DEF ResponseHead
    <2> QED
      BY <2>1, EditLabels
  <1>5. CASE ArmBreakpoint(c) \/ ReceiveDecision(c) \/ SenderDropped(c)
             \/ ContinueUnchanged(c)
    <2>1. \/ \E x : Update(c, [capture[c] EXCEPT !.breakpoint = x])
          \/ capture' = capture
      BY <1>5 DEF ArmBreakpoint, ReceiveDecision, SenderDropped, ContinueUnchanged, Continue
    <2> QED
      BY <2>1, EditLabels
  <1> QED
    BY <1>1, <1>2, <1>3, <1>4, <1>5 DEF Connection, Proceed, EndPause, StoreCopy

\* Where a request is before its exchange, and the steps there.
LEMMA EnteringSteps ==
  ASSUME TypeOK, NEW c \in Conns, Connection(c), ~Begin(c), ~Authenticate(c)
  PROVE  /\ UNCHANGED <<cfg, traffic, next_id, id, target, tokens, marked, call, origin>>
         /\ pc[c] = "closed" /\ pc'[c] # "closed" /\ c \in Replays => call[c] = "dispatched"
         /\ pc'[c] \in {"closed", "served"} => pc[c] \in {"closed", "served"}
  <1> USE DEF lifecycle, tables, channels, replaying
  <1>1. CASE Accept(c) \/ RefuseReplay(c)
    BY <1>1 DEF Accept, RefuseReplay, Goto, TypeOK
  <1>2. CASE Reap(c) \/ TakeSender(c) \/ SendDecision(c) \/ FinishCapture(c) \/ LoseCapture(c)
             \/ RequestBodyFails(c) \/ StoreCopy(c)
    BY <1>2 DEF Reap, TakeSender, SendDecision, FinishCapture, LoseCapture, RequestBodyFails,
                StoreCopy, StoreRequest, RecheckRequest
  <1>3. CASE UpstreamFails(c) \/ SendRequest(c) \/ ResponseHead(c) \/ ArmBreakpoint(c)
             \/ EndPause(c) \/ ContinueUnchanged(c)
    BY <1>3 DEF UpstreamFails, SendRequest, ResponseHead, ArmBreakpoint, EndPause,
                ReceiveDecision, SenderDropped, PauseElapses, ContinueUnchanged, Continue,
                Goto, TypeOK
  <1>4. CASE Respond(c) \/ StoreReplacement(c) \/ RecordResponse(c) \/ RecheckResponse(c)
             \/ EndBody(c)
    BY <1>4 DEF Respond, StoreReplacement, RecordResponse, RecheckResponse, EndBody, Goto,
                TypeOK
  <1>5. CASE RequestTimesOut(c) \/ Abort(c) \/ Disconnect(c) \/ DropExchange(c)
    BY <1>5 DEF RequestTimesOut, Abort, Disconnect, Dropped, DropExchange, Awaiting,
                Suspended, Goto, TypeOK
  <1> QED
    BY <1>1, <1>2, <1>3, <1>4, <1>5 DEF Connection, Proceed

\* The origin of a call is a capture, whose profile the call has taken over.
Repeats(c) ==
  /\ origin[c] # 0
  /\ \A o \in Conns : id[o] = origin[c] => capture[o].profile = capture[c].profile

\* A token is there while its call is under way, and the internal request that
\* uses it up stands for a call that was checked.
Calls ==
  \A c \in Conns :
    /\ c \in tokens => call[c] = "dispatched"
    /\ call[c] \in {"idle", "checked"} /\ c \in Replays => pc[c] = "closed"
    /\ pc[c] \in {"closed", "served"} => ~marked[c]
    /\ c \in Replays /\ call[c] # "idle" /\ pc[c] \in {"closed", "served"} => Repeats(c)
    /\ marked[c] => Repeats(c)

LEMMA CallsInit == Init => Calls /\ ReplayMarkedDevelopment
  BY DEF Init, Calls, ReplayMarkedDevelopment, NoCapture

\* The labels of captures with an id stay.
LabelsStay ==
  \A d \in Conns :
    id[d] # 0 => /\ capture'[d].class = capture[d].class
                 /\ capture'[d].replay_of = capture[d].replay_of
                 /\ capture'[d].profile = capture[d].profile

LEMMA MarkedQuiet ==
  ASSUME TypeOK, ReplayMarkedDevelopment, UNCHANGED id, LabelsStay,
         \A d \in Conns : id[d] = 0 => capture'[d].replay_of = capture[d].replay_of
  PROVE  ReplayMarkedDevelopment'
  <1> SUFFICES ASSUME NEW c \in Conns, capture'[c].replay_of # 0
               PROVE  /\ capture'[c].class = Development
                      /\ capture'[c].replay_of < id[c]
                      /\ \A o \in Conns :
                           id[o] = capture'[c].replay_of
                             => capture'[o].profile = capture'[c].profile
    BY DEF ReplayMarkedDevelopment
  <1>1. capture[c].replay_of \in Nat /\ id[c] \in Nat
    BY DEF TypeOK, Capture
  <1>2. capture'[c].replay_of = capture[c].replay_of
    BY DEF LabelsStay
  <1>3. id[c] # 0 /\ capture[c].replay_of # 0
    BY <1>1, <1>2 DEF ReplayMarkedDevelopment
  <1> QED
    BY <1>2, <1>3 DEF ReplayMarkedDevelopment, LabelsStay

LEMMA RepeatsQuiet ==
  ASSUME NEW c \in Conns, Repeats(c), UNCHANGED id, LabelsStay, origin'[c] = origin[c],
         capture'[c].profile = capture[c].profile
  PROVE  Repeats(c)'
  BY DEF Repeats, LabelsStay

LEMMA CallsStep ==
  TypeOK /\ RetentionBound /\ Owned /\ Born /\ Calls /\ ReplayMarkedDevelopment /\ [Next]_vars
    => Calls' /\ ReplayMarkedDevelopment'
  <1> SUFFICES ASSUME TypeOK, RetentionBound, Owned, Born, Calls, ReplayMarkedDevelopment,
                      [Next]_vars
               PROVE  Calls' /\ ReplayMarkedDevelopment'
    OBVIOUS
  <1> USE DEF lifecycle, tables, channels, replaying
  <1>1. CASE Engine
    <2>1. UNCHANGED <<pc, id, capture, marked, call, origin>> /\ tokens' \subseteq tokens
      BY <1>1 DEF Engine, Start, ShutdownSignal, AcceptFails, LeaveLoop, LoopEnds, Stop,
                  StopReturns, Clear
    <2> QED
      BY <2>1 DEF Calls, Repeats, ReplayMarkedDevelopment
  <1>2. ASSUME NEW c \in Conns, Begin(c) PROVE Calls' /\ ReplayMarkedDevelopment'
    <2>1. /\ UNCHANGED <<tokens, marked, call, origin, target>> /\ pc[c] = "admitted"
          /\ \A d \in Conns : pc'[d] = IF d = c THEN "connecting" ELSE pc[d]
      BY <1>2 DEF Begin, Goto, TypeOK
    <2>2. /\ next_id \in Nat \ {0} /\ id[c] = 0
          /\ \A d \in Conns : /\ origin[d] \in Nat /\ origin[d] < next_id
                              /\ id[d] \in Nat /\ id[d] < next_id
                              /\ capture[d].replay_of \in Nat
      <3>1. /\ next_id \in Nat \ {0}
            /\ origin \in [Conns -> 0..(next_id - 1)] /\ id \in [Conns -> 0..(next_id - 1)]
            /\ \A d \in Conns : capture[d].replay_of \in Nat
        BY DEF TypeOK, Capture
      <3>2. id[c] = 0
        BY <2>1 DEF Born, Entering
      <3> QED
        BY <3>1, <3>2
    <2>3. \A d \in Conns : id'[d] = IF d = c THEN next_id ELSE id[d]
      BY <1>2, Begins
    <2>4. /\ \A d \in Conns : capture'[d].profile = capture[d].profile
          /\ \A d \in Conns \ {c} : capture'[d] = capture[d]
          /\ capture'[c].class = cfg.class[target[c]]
          /\ capture'[c].replay_of = IF marked[c] THEN origin[c] ELSE 0
      <3>1. capture[c] \in Capture
        BY DEF TypeOK
      <3>2. /\ \A d \in Conns \ {c} : capture'[d] = capture[d]
            /\ capture'[c] = [capture[c] EXCEPT
                                !.class = cfg.class[target[c]],
                                !.replay_of = IF marked[c] THEN origin[c] ELSE 0]
        BY <1>2, Begins
      <3>3. /\ capture'[c].profile = capture[c].profile
            /\ capture'[c].class = cfg.class[target[c]]
            /\ capture'[c].replay_of = IF marked[c] THEN origin[c] ELSE 0
        BY <3>1, <3>2 DEF Capture
      <3> QED
        BY <3>2, <3>3
    <2>5. \A d \in Conns : Repeats(d) => Repeats(d)'
      BY <2>1, <2>2, <2>3, <2>4 DEF Repeats
    <2>6. Calls'
      BY <2>1, <2>5 DEF Calls
    <2>7. marked[c] => cfg.class[target[c]] = Development /\ Repeats(c)
      BY <1>2 DEF Begin, Refused, authorize, Calls
    <2>8. ASSUME NEW d \in Conns, capture'[d].replay_of # 0
          PROVE  /\ capture'[d].class = Development
                 /\ capture'[d].replay_of < id'[d]
                 /\ \A o \in Conns : id'[o] = capture'[d].replay_of
                                     => capture'[o].profile = capture'[d].profile
      <3>1. CASE d = c
        BY <2>2, <2>3, <2>4, <2>7, <2>8, <3>1 DEF Repeats
      <3>2. CASE d # c
        <4>1. /\ capture[d].class = Development /\ capture[d].replay_of < id[d]
              /\ \A o \in Conns : id[o] = capture[d].replay_of
                                  => capture[o].profile = capture[d].profile
          BY <2>4, <2>8, <3>2 DEF ReplayMarkedDevelopment
        <4>2. capture'[d].replay_of < next_id
          BY <2>2, <2>4, <3>2, <4>1
        <4> QED
          BY <2>2, <2>3, <2>4, <3>2, <4>1, <4>2
      <3> QED
        BY <3>1, <3>2
    <2> QED
      BY <2>6, <2>8 DEF ReplayMarkedDevelopment
  <1>3. ASSUME NEW c \in Conns, Authenticate(c) PROVE Calls' /\ ReplayMarkedDevelopment'
    <2>1. /\ UNCHANGED <<id, call, origin>> /\ pc[c] = "served" /\ id[c] = 0
          /\ tokens' \subseteq tokens
          /\ \A d \in Conns \ {c} : pc'[d] = pc[d] /\ marked'[d] = marked[d]
          /\ pc'[c] \in {"admitted", "done"}
      BY <1>3 DEF Authenticate, Goto, TypeOK, Born, Entering
    <2>2. /\ capture[c] \in Capture
          /\ \A d \in Conns \ {c} : capture'[d] = capture[d]
          /\ capture'[c] = capture[c] \/ capture'[c] = [capture[c] EXCEPT !.profile = cfg.auth]
      BY <1>3 DEF Authenticate, TypeOK
    <2>3. capture'[c].replay_of = capture[c].replay_of
      BY <2>2 DEF Capture
    <2>4. LabelsStay
      BY <2>1, <2>2 DEF LabelsStay
    <2>5. marked'[c] => Repeats(c) /\ capture'[c] = capture[c]
      <3>1. ~marked[c]
        BY <2>1 DEF Calls
      <3>2. marked'[c] => c \in tokens /\ capture'[c] = capture[c]
        BY <1>3, <3>1 DEF Authenticate, TypeOK
      <3>3. c \in tokens => c \in Replays /\ call[c] = "dispatched"
        BY DEF Calls, TypeOK
      <3> QED
        BY <2>1, <3>2, <3>3 DEF Calls
    <2>6. Calls'
      <3>1. \A d \in Conns : Repeats(d) /\ capture'[d].profile = capture[d].profile => Repeats(d)'
        BY <2>1, <2>4, RepeatsQuiet
      <3>2. call[c] \in {"idle", "checked"} => c \notin Replays
        BY <2>1 DEF Calls
      <3> QED
        BY <2>1, <2>2, <2>5, <3>1, <3>2 DEF Calls
    <2> QED
      BY <2>1, <2>2, <2>3, <2>4, <2>6, MarkedQuiet
  <1>4. ASSUME NEW c \in Conns, Connection(c), ~Begin(c), ~Authenticate(c)
        PROVE  Calls' /\ ReplayMarkedDevelopment'
    <2>1. SameLabels /\ Alone(c) /\ UNCHANGED <<id, tokens, marked, call, origin>>
      BY <1>4, LabelsKept, StepsAlone, EnteringSteps
    <2>2. \A d \in Conns : Repeats(d) => Repeats(d)'
      BY <2>1, RepeatsQuiet DEF SameLabels, LabelsStay
    <2>3. /\ pc[c] = "closed" /\ pc'[c] # "closed" /\ c \in Replays => call[c] = "dispatched"
          /\ pc'[c] \in {"closed", "served"} => pc[c] \in {"closed", "served"}
          /\ \A d \in Conns \ {c} : pc'[d] = pc[d]
      BY <1>4, <2>1, EnteringSteps DEF Alone
    <2>4. Calls'
      BY <2>1, <2>2, <2>3 DEF Calls
    <2> QED
      BY <2>1, <2>4, MarkedQuiet DEF SameLabels, LabelsStay
  <1>5. ASSUME NEW c \in Replays, CheckReplay(c) PROVE Calls' /\ ReplayMarkedDevelopment'
    <2>0. c \in Conns
      BY DEF Conns
    <2>1. PICK o \in Conns :
            /\ Tracked(o) /\ origin' = [origin EXCEPT ![c] = id[o]]
            /\ capture' = [capture EXCEPT ![c].profile = capture[o].profile]
      BY <1>5 DEF CheckReplay
    <2>2. /\ UNCHANGED <<id, tokens, pc, marked>> /\ call[c] = "idle"
          /\ \A d \in Conns : call'[d] = IF d = c THEN "checked" ELSE call[d]
      BY <1>5 DEF CheckReplay, TypeOK
    <2>3. pc[c] = "closed" /\ id[c] = 0 /\ ~marked[c] /\ c \notin tokens
      BY <2>0, <2>2 DEF Calls, Born, Entering
    <2>4. /\ capture[c] \in Capture
          /\ \A d \in Conns \ {c} : capture'[d] = capture[d] /\ origin'[d] = origin[d]
          /\ capture'[c] = [capture[c] EXCEPT !.profile = capture[o].profile]
          /\ origin'[c] = id[o]
      BY <2>0, <2>1 DEF TypeOK
    <2>5. /\ capture'[c].replay_of = capture[c].replay_of
          /\ capture'[c].profile = capture[o].profile
      BY <2>4 DEF Capture
    <2>6. LabelsStay
      BY <2>3, <2>4 DEF LabelsStay
    <2>7. Repeats(c)'
      <3>1. id[o] # 0
        BY <2>1 DEF Tracked, TypeOK
      <3>2. o # c /\ \A x \in Conns : id[x] = id[o] => x = o
        BY <2>3, <3>1 DEF Owned, OwnIds
      <3> QED
        BY <2>2, <2>4, <2>5, <3>1, <3>2 DEF Repeats
    <2>8. \A d \in Conns \ {c} : Repeats(d) => Repeats(d)'
      BY <2>2, <2>4, <2>6, RepeatsQuiet
    <2>9. Calls'
      BY <2>2, <2>3, <2>7, <2>8 DEF Calls
    <2> QED
      BY <2>2, <2>4, <2>5, <2>6, <2>9, MarkedQuiet
  <1>6. ASSUME NEW c \in Replays, DispatchReplay(c) \/ ReplayReturns(c)
        PROVE  Calls' /\ ReplayMarkedDevelopment'
    <2>1. /\ UNCHANGED <<id, pc, capture, marked, origin>> /\ call[c] \in {"checked", "dispatched"}
          /\ \A d \in Conns \ {c} : call'[d] = call[d] /\ (d \in tokens' => d \in tokens)
          /\ \/ call'[c] = "dispatched"
             \/ call'[c] = "returned" /\ c \notin tokens'
      BY <1>6 DEF DispatchReplay, ReplayReturns, TypeOK, Conns
    <2> QED
      BY <2>1 DEF Calls, Repeats, ReplayMarkedDevelopment
  <1>7. CASE UNCHANGED vars
    BY <1>7 DEF vars, Calls, Repeats, ReplayMarkedDevelopment
  <1> QED
    BY <1>1, <1>2, <1>3, <1>4, <1>5, <1>6, <1>7 DEF Next, Replay

LEMMA CallsAlways ==
  Spec => [](TypeOK /\ RetentionBound /\ Owned /\ Born /\ Calls /\ ReplayMarkedDevelopment)
  BY OwnedAlways, BornAlways, CallsInit, CallsStep, PTL DEF Spec

(* The replay token is worth what the policy says when it is used, not     *)
(* when replay() was called: a linked capture is a Development one, however*)
(* often the rules change in between, and it has the profile of its origin.*)
THEOREM ReplayMarkedAlways == Spec => []ReplayMarkedDevelopment
  BY CallsAlways, PTL

\* An exchange whose rule has been chosen.
Headed == {"headed", "paused", "elapsed", "responding", "storing", "recording", "recorded",
           "streaming"}

Ruled ==
  \A c \in Conns :
    pc[c] \in Headed /\ Tracked(c) /\ capture[c].class = Development
      => rule[c] = cfg.rule[target[c]]

LEMMA RuledInit == Init => Ruled
  BY DEF Init, Ruled, Headed

\* Past its head an exchange changes neither its rule nor its target.
LEMMA HeadedSteps ==
  ASSUME TypeOK, NEW c \in Conns, Connection(c), ~Begin(c), ~ResponseHead(c)
  PROVE  rule' = rule /\ (pc'[c] \in Headed => pc[c] \in Headed)
  <1> USE DEF lifecycle, tables, channels, replaying
  <1>1. CASE Accept(c) \/ Authenticate(c) \/ RefuseReplay(c) \/ UpstreamFails(c) \/ SendRequest(c)
    <2>1. rule' = rule /\ \E label \in Phase \ Headed : Goto(c, label)
      BY <1>1 DEF Accept, Authenticate, RefuseReplay, UpstreamFails, SendRequest, Phase, Headed
    <2> QED
      BY <2>1 DEF Goto, TypeOK
  <1>2. CASE Reap(c) \/ TakeSender(c) \/ SendDecision(c) \/ FinishCapture(c) \/ LoseCapture(c)
             \/ RequestBodyFails(c) \/ StoreCopy(c)
    BY <1>2 DEF Reap, TakeSender, SendDecision, FinishCapture, LoseCapture, RequestBodyFails,
                StoreCopy, StoreRequest, RecheckRequest
  <1>3. CASE ArmBreakpoint(c) \/ EndPause(c) \/ ContinueUnchanged(c) \/ Respond(c)
    BY <1>3 DEF ArmBreakpoint, EndPause, ReceiveDecision, SenderDropped, PauseElapses,
                ContinueUnchanged, Continue, Respond, Headed
  <1>4. CASE StoreReplacement(c) \/ RecordResponse(c) \/ RecheckResponse(c) \/ EndBody(c)
    BY <1>4 DEF StoreReplacement, RecordResponse, RecheckResponse, EndBody, Headed
  <1>5. CASE RequestTimesOut(c) \/ Abort(c) \/ Disconnect(c) \/ DropExchange(c)
    BY <1>5 DEF RequestTimesOut, Abort, Disconnect, Dropped, DropExchange, Goto, TypeOK, Headed
  <1> QED
    BY <1>1, <1>2, <1>3, <1>4, <1>5 DEF Connection, Proceed

LEMMA RuledStep ==
  TypeOK /\ RetentionBound /\ Joined /\ Born /\ Calls /\ Ruled /\ [Next]_vars => Ruled'
  <1> SUFFICES ASSUME TypeOK, RetentionBound, Joined, Born, Calls, Ruled, [Next]_vars
               PROVE  Ruled'
    OBVIOUS
  <1> USE DEF lifecycle, tables, channels, replaying
  <1>1. CASE Start
    <2>1. pc' = pc /\ Serving = {}
      BY <1>1 DEF Start, NoLoop, Joined
    <2>2. \A c \in Conns : pc'[c] \notin Headed
      BY <2>1 DEF Serving, Headed
    <2> QED
      BY <2>2 DEF Ruled
  <1>2. CASE Clear
    BY <1>2, Cleared DEF Ruled, Tracked
  <1>3. CASE ShutdownSignal \/ AcceptFails \/ LoopEnds \/ Stop \/ StopReturns
    BY <1>3 DEF ShutdownSignal, AcceptFails, LeaveLoop, LoopEnds, Stop, StopReturns, Ruled,
                Tracked, Ids
  <1>4. ASSUME NEW c \in Conns, Begin(c) PROVE Ruled'
    <2>1. UNCHANGED <<cfg, target, rule>> /\ pc'[c] = "connecting"
      BY <1>4 DEF Begin, Goto, TypeOK
    <2>2. \A d \in Conns \ {c} :
            /\ pc'[d] = pc[d] /\ capture'[d] = capture[d] /\ (Tracked(d)' => Tracked(d))
      <3>1. \A d \in Conns \ {c} : pc'[d] = pc[d]
        BY <1>4 DEF Begin, Goto, TypeOK
      <3>2. \A d \in Conns \ {c} :
              capture'[d] = capture[d] /\ id'[d] = id[d] /\ id[d] # next_id
        BY <1>4, Begins
      <3>3. Ids' \subseteq Ids \cup {next_id}
        BY <1>4, Begins
      <3> QED
        BY <3>1, <3>2, <3>3 DEF Tracked
    <2> QED
      BY <2>1, <2>2 DEF Ruled, Headed
  <1>5. ASSUME NEW c \in Conns, ResponseHead(c) PROVE Ruled'
    <2>1. /\ UNCHANGED <<cfg, traffic, id, target>> /\ Alone(c)
          /\ rule'[c] = IF MayModify(c) THEN cfg.rule[target[c]] ELSE "none"
      BY <1>5, StepsAlone DEF ResponseHead, TypeOK, Connection
    <2>2. \A d \in Conns : capture'[d].class = capture[d].class
      BY <1>5, LabelsKept DEF SameLabels, Connection, ResponseHead, Begin, Authenticate
    <2>3. Tracked(c) /\ capture[c].class = Development => MayModify(c)
      BY DEF MayModify, authorize
    <2> QED
      BY <2>1, <2>2, <2>3 DEF Ruled, Alone, Tracked, Ids
  <1>6. ASSUME NEW c \in Conns, Connection(c), ~Begin(c), ~ResponseHead(c) PROVE Ruled'
    <2>1. /\ rule' = rule /\ (pc'[c] \in Headed => pc[c] \in Headed)
          /\ \A d \in Conns \ {c} : pc'[d] = pc[d]
      BY <1>6, HeadedSteps, StepsAlone DEF Alone
    <2>2. /\ UNCHANGED <<cfg, traffic, id, target>>
          /\ \A d \in Conns : pc'[d] \in Headed => capture'[d].class = capture[d].class
      <3>1. CASE Authenticate(c)
        <4>1. /\ UNCHANGED <<cfg, traffic, id, target>>
              /\ pc'[c] \in {"admitted", "done"}
              /\ \A d \in Conns \ {c} : capture'[d] = capture[d]
          BY <3>1 DEF Authenticate, Goto, TypeOK
        <4> QED
          BY <4>1 DEF Headed
      <3>2. CASE ~Authenticate(c)
        BY <1>6, <3>2, EnteringSteps, LabelsKept DEF SameLabels
      <3> QED
        BY <3>1, <3>2
    <2> QED
      BY <2>1, <2>2 DEF Ruled, Tracked, Ids
  <1>7. ASSUME NEW c \in Replays, CheckReplay(c) PROVE Ruled'
    <2>1. /\ UNCHANGED <<cfg, traffic, id, pc, rule>> /\ c \in Conns /\ call[c] = "idle"
          /\ \A d \in Conns \ {c} : target'[d] = target[d] /\ capture'[d] = capture[d]
      BY <1>7 DEF CheckReplay, TypeOK, Conns
    <2>2. pc[c] = "closed"
      BY <2>1 DEF Calls
    <2> QED
      BY <2>1, <2>2 DEF Ruled, Tracked, Ids, Headed
  <1>8. ASSUME NEW c \in Replays, DispatchReplay(c) \/ ReplayReturns(c) PROVE Ruled'
    BY <1>8 DEF DispatchReplay, ReplayReturns, Ruled, Tracked, Ids
  <1>9. CASE UNCHANGED vars
    BY <1>9 DEF vars, Ruled, Tracked, Ids
  <1> QED
    BY <1>1, <1>2, <1>3, <1>4, <1>5, <1>6, <1>7, <1>8, <1>9 DEF Next, Engine, Replay

(* A run never answers with the rules of another: every exchange of the    *)
(* one before was joined before Start replaced them, and a capture that was*)
(* not listed when its head came is not listed later.                      *)
THEOREM RulesApplyAlways == Spec => []RulesApplyToListed
  <1>1. Ruled => RulesApplyToListed
    BY DEF Ruled, RulesApplyToListed, Headed
  <1> QED
    BY <1>1, CallsAlways, JoinedAlways, RuledInit, RuledStep, PTL DEF Spec
=============================================================================
