---------------------------- MODULE WindowProofs ----------------------------
(* Theorems about what the window shows, for any number of exchanges,      *)
(* fetches, mounts, events and changes.                                    *)
EXTENDS Window, TLAPS

LEMMA SnapshotsGrow ==
  ASSUME TypeOK, news' \in Nat, revision' \in Nat, news' >= news, revision' >= revision
  PROVE  /\ news \in Nat /\ revision \in Nat
         /\ Snapshots \subseteq Snapshots'
         /\ Snapshot \in Snapshots
         /\ Nothing \notin Snapshots
<1>1. news \in Nat /\ revision \in Nat
  BY WindowAssumption DEF TypeOK
<1>2. Snapshots \subseteq Snapshots' /\ Snapshot \in Snapshots
  BY <1>1 DEF Snapshots, Snapshot
<1>3. Nothing \notin Snapshots
  BY <1>1, WindowAssumption DEF Snapshots
<1>4. QED
  BY <1>1, <1>2, <1>3

\* In every step there is more to see, or as much, under a revision that is
\* later, or the same.
LEMMA EngineGrows ==
  ASSUME TypeOK, [Next]_vars
  PROVE  news' \in news..MaxNews /\ revision' \in Nat /\ revision' >= revision /\ news' >= news
<1>1. news \in Nat /\ news <= MaxNews /\ revision \in Nat /\ MaxNews \in Nat
  BY WindowAssumption DEF TypeOK
<1> DEFINE Grows == /\ news' \in {news, news + 1} /\ news' <= MaxNews
                    /\ revision' \in {revision, revision + 1}
<1>2. ASSUME Change PROVE Grows
  BY <1>1, <1>2 DEF Change, More
<1>3. ASSUME NEW e \in Exchanges, Begin(e) \/ Note(e) \/ Settle(e) \/ Drop(e) \/ Tell(e) PROVE Grows
  BY <1>1, <1>3 DEF Begin, Note, Settle, Drop, Tell, More
<1>4. ASSUME Execute PROVE Grows
  BY <1>1, <1>4 DEF Execute, Advanced, More
<1>5. ASSUME Poll \/ Remount \/ Click \/ Answer \/ Fail \/ Return \/ UNCHANGED vars PROVE Grows
  BY <1>1, <1>5 DEF Poll, Remount, Click, Answer, Fail, Return, vars, engine
<1>6. ASSUME NEW m \in Mounts, Register(m) \/ Subscribed(m) \/ Deliver(m) PROVE Grows
  BY <1>1, <1>6 DEF Register, Subscribed, Deliver, engine
<1>7. ASSUME NEW f \in Fetches, Serve(f) \/ Arrive(f) PROVE Grows
  BY <1>1, <1>7 DEF Serve, Arrive, engine
<1>8. Grows
  <2> HIDE DEF Grows
  <2>1. CASE UNCHANGED vars
    BY <1>5, <2>1
  <2>2. CASE Next
    BY <1>2, <1>3, <1>4, <1>5, <1>6, <1>7, <2>2 DEF Next
  <2> QED
    BY <2>1, <2>2
<1>9. QED
  BY <1>1, <1>8

LEMMA InitTypeOK == Init => TypeOK
  BY WindowAssumption DEF Init, TypeOK, Snapshots, Idle, NoCommand, Mounts

\* What a step leaves alone keeps its type, although the engine goes on.
LEMMA KeptTyped ==
  ASSUME TypeOK, news' \in Nat, revision' \in Nat, news' >= news, revision' >= revision
  PROVE  /\ fetch \in [Fetches -> [at : {"idle", "asked", "answered"}, mount : 0..MaxMounts,
                                   snapshot : Snapshots' \cup {Nothing}]]
         /\ command \in [at : {"idle", "asked", "done", "answered"}, effect : 0..news',
                         snapshot : Snapshots' \cup {Nothing}]
         /\ shown \in Snapshots' \cup {Nothing}
         /\ acknowledged \in 0..news'
         /\ polled \in 0..revision'
<1>1. Snapshots \subseteq Snapshots' /\ news \in Nat /\ revision \in Nat
  BY SnapshotsGrow
<1>2. /\ fetch \in [Fetches -> [at : {"idle", "asked", "answered"}, mount : 0..MaxMounts,
                                snapshot : Snapshots \cup {Nothing}]]
      /\ command \in [at : {"idle", "asked", "done", "answered"}, effect : 0..news,
                      snapshot : Snapshots \cup {Nothing}]
      /\ shown \in Snapshots \cup {Nothing}
      /\ acknowledged \in 0..news /\ polled \in 0..revision
  BY DEF TypeOK
<1>3. \A S : S \in SUBSET Snapshots' /\ fetch \in [Fetches -> [at : {"idle", "asked", "answered"}, mount : 0..MaxMounts,
                                snapshot : S \cup {Nothing}]] => fetch \in [Fetches -> [at : {"idle", "asked", "answered"}, mount : 0..MaxMounts,
                                snapshot : Snapshots' \cup {Nothing}]]
  OBVIOUS
<1>4. QED
  BY <1>1, <1>2, <1>3

LEMMA TypeStep == TypeOK /\ [Next]_vars => TypeOK'
<1> SUFFICES ASSUME TypeOK, [Next]_vars PROVE TypeOK'
  OBVIOUS
<1>1. /\ news' \in 0..MaxNews /\ news' \in Nat /\ revision' \in Nat
      /\ revision' >= revision /\ news' >= news
  BY EngineGrows, WindowAssumption DEF TypeOK
<1> DEFINE S == Snapshots' \cup {Nothing}
           CommandType == [at : {"idle", "asked", "done", "answered"}, effect : 0..news', snapshot : S]
           FetchType == [at : {"idle", "asked", "answered"}, mount : 0..MaxMounts, snapshot : S]
<1>2. /\ fetch \in [Fetches -> FetchType] /\ command \in CommandType
      /\ shown \in S /\ acknowledged \in 0..news' /\ polled \in 0..revision'
  BY <1>1, KeptTyped
<1>3. /\ stage \in [Exchanges -> {"none", "open", "telling", "dropping", "done"}]
      /\ signals \in [Mounts -> 0..MaxSignals]
      /\ hook \in [Mounts -> {"none", "subscribing", "registered", "live", "off"}]
      /\ mounted \in Mounts /\ Mounts = 1..MaxMounts /\ MaxSignals \in Nat /\ MaxMounts \in Nat
  BY WindowAssumption DEF TypeOK, Mounts
<1>4. Snapshot \in S /\ news \in Nat /\ revision \in Nat /\ Nothing \in S
  BY <1>1, SnapshotsGrow
<1> DEFINE Rest == /\ stage' \in [Exchanges -> {"none", "open", "telling", "dropping", "done"}]
                   /\ signals' \in [Mounts -> 0..MaxSignals]
                   /\ hook' \in [Mounts -> {"none", "subscribing", "registered", "live", "off"}]
                   /\ mounted' \in Mounts /\ polled' \in 0..revision'
           Shown == /\ fetch' \in [Fetches -> FetchType] /\ command' \in CommandType
                    /\ shown' \in S /\ acknowledged' \in 0..news'
<1> HIDE DEF S
<1>5. ASSUME NEW e \in Exchanges, Change \/ Begin(e) \/ Note(e) \/ Settle(e) \/ Drop(e) \/ Tell(e)
      PROVE  Rest /\ Shown
  BY <1>2, <1>3, <1>5 DEF Change, Begin, Note, Settle, Drop, Tell, calls
<1>6. ASSUME Change PROVE Rest /\ Shown
  BY <1>2, <1>3, <1>6 DEF Change, calls
<1>7. ASSUME Poll PROVE Rest /\ Shown
  <2>1. Registered \subseteq Mounts /\ \A m \in Registered : signals[m] + 1 \in 0..MaxSignals
    BY <1>3, <1>7 DEF Poll, Registered
  <2>2. signals' \in [Mounts -> 0..MaxSignals]
    BY <1>3, <1>7, <2>1 DEF Poll
  <2>3. polled' \in 0..revision'
    BY <1>1, <1>4, <1>7 DEF Poll, engine
  <2> QED
    BY <1>2, <1>3, <1>7, <2>2, <2>3 DEF Poll, calls, engine
<1>8. ASSUME Remount PROVE Rest /\ Shown
  BY <1>2, <1>3, <1>8 DEF Remount, calls, engine
<1>9. ASSUME NEW m \in Mounts, Register(m) \/ Subscribed(m) \/ Deliver(m) PROVE Rest /\ Shown
  <2>1. CASE Register(m)
    BY <1>2, <1>3, <2>1 DEF Register, calls, engine
  <2>2. ASSUME Refresh(m) PROVE fetch' \in [Fetches -> FetchType]
    <3>1. PICK f \in Fetches :
            fetch' = [fetch EXCEPT ![f] = [at |-> "asked", mount |-> m, snapshot |-> Nothing]]
      BY <2>2 DEF Refresh
    <3>2. [at |-> "asked", mount |-> m, snapshot |-> Nothing] \in FetchType
      BY <1>3, <1>4
    <3> QED
      BY <1>2, <3>1, <3>2
  <2>3. CASE Subscribed(m)
    <3>1. UNCHANGED <<engine, polled, mounted, command, shown, acknowledged>>
      BY <2>3 DEF Subscribed
    <3>2. /\ hook' \in [Mounts -> {"none", "subscribing", "registered", "live", "off"}]
          /\ signals' \in [Mounts -> 0..MaxSignals]
      BY <1>3, <2>3 DEF Subscribed, UnlistenLate
    <3>3. fetch' \in [Fetches -> FetchType]
      BY <1>2, <2>2, <2>3 DEF Subscribed
    <3> QED
      BY <1>2, <1>3, <3>1, <3>2, <3>3 DEF engine
  <2>4. CASE Deliver(m)
    <3>1. signals' \in [Mounts -> 0..MaxSignals]
      BY <1>3, <2>4 DEF Deliver
    <3> QED
      BY <1>2, <1>3, <2>2, <2>4, <3>1 DEF Deliver, engine
  <2> QED
    BY <1>9, <2>1, <2>3, <2>4
<1>10. ASSUME NEW f \in Fetches, Serve(f) \/ Arrive(f) PROVE Rest /\ Shown
  <2>1. CASE Serve(f)
    <3>1. fetch' \in [Fetches -> FetchType]
      BY <1>2, <1>4, <2>1 DEF Serve
    <3> QED
      BY <1>2, <1>3, <2>1, <3>1 DEF Serve, engine
  <2>2. CASE Arrive(f)
    <3>1. Idle \in FetchType
      BY <1>3, <1>4 DEF Idle
    <3>2. fetch' \in [Fetches -> FetchType]
      BY <1>2, <2>2, <3>1 DEF Arrive
    <3>3. shown' \in S
      BY <1>2, <2>2 DEF Arrive, Accept
    <3> QED
      BY <1>2, <1>3, <2>2, <3>2, <3>3 DEF Arrive, engine
  <2> QED
    BY <1>10, <2>1, <2>2
<1>11. ASSUME Click \/ Execute \/ Answer \/ Fail \/ Return PROVE Rest /\ Shown
  <2>1. Rest
    BY <1>3, <1>2, <1>11 DEF Click, Execute, Answer, Fail, Return, engine
  <2>2. NoCommand \in CommandType
    BY <1>1, <1>4 DEF NoCommand
  <2>3. command' \in CommandType
    <3>1. CASE Click
      BY <1>2, <3>1 DEF Click
    <3>2. CASE Execute
      <4>1. news' \in 0..news'
        BY <1>1
      <4> QED
        BY <1>2, <3>2, <4>1 DEF Execute
    <3>3. CASE Answer
      BY <1>2, <1>4, <3>3 DEF Answer
    <3> QED
      BY <1>11, <2>2, <3>1, <3>2, <3>3 DEF Fail, Return
  <2>4. shown' \in S /\ acknowledged' \in 0..news' /\ fetch' \in [Fetches -> FetchType]
    BY <1>2, <1>11 DEF Click, Execute, Answer, Fail, Return, Accept
  <2> QED
    BY <2>1, <2>3, <2>4
<1>12. ASSUME UNCHANGED vars PROVE Rest /\ Shown
  BY <1>2, <1>3, <1>12 DEF vars, calls, engine
<1>13. Rest /\ Shown
  BY <1>5, <1>6, <1>7, <1>8, <1>9, <1>10, <1>11, <1>12 DEF Next
<1>14. QED
  BY <1>1, <1>13 DEF TypeOK, S

(* Every variable keeps its type, and no snapshot on its way to the window *)
(* is ahead of the engine.                                                 *)
THEOREM TypeCorrect == Spec => []TypeOK
  BY InitTypeOK, TypeStep, PTL DEF Spec

-----------------------------------------------------------------------------
(* Snapshots are ordered by their revisions, and what a command did stays. *)

\* Every snapshot with less than the first n changes has a revision below r.
Behind(n, r) == \A s \in Taken : s.news < n => s.revision < r

\* What a command did is ahead of every older snapshot, first under the
\* revision of the engine, then of the snapshot it returns, then of the window's.
Ahead ==
  /\ command.at = "done" => Behind(command.effect, revision)
  /\ command.at = "answered" =>
       command.snapshot # Nothing /\ Behind(command.effect, command.snapshot.revision)
  /\ acknowledged # 0 => shown # Nothing /\ Behind(acknowledged, shown.revision)
  /\ \A f \in Fetches : fetch[f].at = "answered" => fetch[f].snapshot # Nothing

LEMMA TakenTyped ==
  ASSUME TypeOK
  PROVE  /\ Taken \subseteq Snapshots /\ Snapshot \in Taken
         /\ news \in Nat /\ revision \in Nat
         /\ \A s \in Taken : /\ s.revision \in Nat /\ s.revision <= revision
                             /\ s.news \in Nat /\ s.news <= news
<1>1. news \in Nat /\ revision \in Nat
  BY WindowAssumption DEF TypeOK
<1>2. Snapshot \in Snapshots /\ Nothing \notin Snapshots
  BY <1>1, WindowAssumption DEF Snapshots, Snapshot
<1>3. Taken \subseteq Snapshots
  BY <1>2 DEF Taken, TypeOK
<1>4. Snapshot \in Taken
  BY <1>2 DEF Taken
<1>5. QED
  BY <1>1, <1>3, <1>4 DEF Snapshots

\* A step takes no snapshot but the one of the engine, and shows one that was
\* taken.
LEMMA TakenStep ==
  ASSUME TypeOK, [Next]_vars
  PROVE  Taken' \subseteq Taken \cup {Snapshot'}
<1> DEFINE T == Taken \cup {Snapshot'}
<1>1. Snapshot \in Taken /\ Snapshot' \in T
  BY TakenTyped
<1>2. shown \in T \cup {Nothing} /\ command.snapshot \in T \cup {Nothing}
      /\ \A f \in Fetches : fetch[f].snapshot \in T \cup {Nothing}
  BY DEF Taken
<1>3. SUFFICES /\ shown' \in T \cup {Nothing} /\ command'.snapshot \in T \cup {Nothing}
               /\ \A f \in Fetches : fetch'[f].snapshot \in T \cup {Nothing}
  BY <1>1 DEF Taken
<1>4. /\ fetch \in [Fetches -> [at : {"idle", "asked", "answered"}, mount : 0..MaxMounts,
                                snapshot : Snapshots \cup {Nothing}]]
      /\ command \in [at : {"idle", "asked", "done", "answered"}, effect : 0..news,
                      snapshot : Snapshots \cup {Nothing}]
  BY DEF TypeOK
<1> DEFINE Good == /\ shown' \in T \cup {Nothing} /\ command'.snapshot \in T \cup {Nothing}
                   /\ \A f \in Fetches : fetch'[f].snapshot \in T \cup {Nothing}
<1> HIDE DEF T
<1>5. ASSUME UNCHANGED calls, UNCHANGED shown PROVE Good
  BY <1>2, <1>5 DEF calls
<1>6. ASSUME UNCHANGED <<command, shown>>, NEW m, Refresh(m) PROVE Good
  BY <1>2, <1>4, <1>6 DEF Refresh
<1>7. ASSUME NEW f \in Fetches, Serve(f) PROVE Good
  <2>1. Snapshot \in T
    BY <1>1 DEF T
  <2> QED
    BY <1>2, <1>4, <1>7, <2>1 DEF Serve
<1>8. ASSUME NEW f \in Fetches, Arrive(f) PROVE Good
  BY <1>2, <1>4, <1>8 DEF Arrive, Accept, Idle
<1>9. ASSUME Click \/ Execute \/ Fail PROVE Good
  <2>1. ASSUME Click \/ Execute PROVE command'.snapshot = command.snapshot
    BY <1>4, <2>1 DEF Click, Execute
  <2>2. ASSUME Fail PROVE command'.snapshot = Nothing
    BY <2>2 DEF Fail, NoCommand
  <2> QED
    BY <1>2, <1>9, <2>1, <2>2 DEF Click, Execute, Fail
<1>10. ASSUME Answer PROVE Good
  <2>1. Snapshot \in T
    BY <1>1 DEF T
  <2> QED
    BY <1>2, <1>4, <1>10, <2>1 DEF Answer
<1>11. ASSUME Return PROVE Good
  BY <1>2, <1>4, <1>11 DEF Return, Accept, NoCommand
<1>12. ASSUME NEW m \in Mounts, Register(m) \/ Subscribed(m) \/ Deliver(m) PROVE Good
  BY <1>5, <1>6, <1>12 DEF Register, Subscribed, Deliver, calls
<1>13. ASSUME Change \/ Poll \/ Remount \/ UNCHANGED vars PROVE Good
  BY <1>5, <1>13 DEF Change, Poll, Remount, vars
<1>14. ASSUME NEW e \in Exchanges, Begin(e) \/ Note(e) \/ Settle(e) \/ Drop(e) \/ Tell(e) PROVE Good
  BY <1>5, <1>14 DEF Begin, Note, Settle, Drop, Tell
<1> HIDE DEF Good
<1>15. Good
  BY <1>7, <1>8, <1>9, <1>10, <1>11, <1>12, <1>13, <1>14 DEF Next
<1>16. QED
  BY <1>15 DEF Good

IInv == TypeOK /\ HigherIsNewer /\ Ahead

LEMMA InitIInv == Init => IInv
<1> SUFFICES ASSUME Init PROVE IInv
  OBVIOUS
<1>1. TypeOK
  BY InitTypeOK
<1>2. Taken = {Snapshot}
  BY <1>1, TakenTyped DEF Init, Taken, NoCommand, Idle
<1>3. HigherIsNewer
  BY <1>1, <1>2, TakenTyped DEF HigherIsNewer
<1>4. Ahead
  BY DEF Ahead, Init, NoCommand, Idle
<1>5. QED
  BY <1>1, <1>3, <1>4 DEF IInv

LEMMA NewestStep ==
  ASSUME TypeOK, [Next]_vars
  PROVE  /\ Snapshot'.revision = revision' /\ Snapshot'.news = news'
         /\ revision' \in Nat /\ news' \in Nat /\ revision' >= revision /\ news' >= news
<1>1. news \in Nat
  BY TakenTyped
<1>2. revision' \in Nat /\ news' \in Nat /\ revision' >= revision /\ news' >= news
  BY <1>1, EngineGrows, WindowAssumption
<1>3. QED
  BY <1>2 DEF Snapshot

LEMMA HigherIsNewerStep ==
  ASSUME TypeOK, [Next]_vars, HigherIsNewer
  PROVE  HigherIsNewer'
<1> SUFFICES ASSUME NEW a \in Taken', NEW b \in Taken', a.revision > b.revision
             PROVE  a.news >= b.news
  BY DEF HigherIsNewer
<1>1. a \in Taken \cup {Snapshot'} /\ b \in Taken \cup {Snapshot'}
  BY TakenStep
<1>2. CASE a = Snapshot'
  BY <1>1, <1>2, TakenTyped, NewestStep
<1>3. CASE a \in Taken /\ b = Snapshot'
  BY <1>3, TakenTyped, NewestStep
<1>4. CASE a \in Taken /\ b \in Taken
  BY <1>4 DEF HigherIsNewer
<1>5. QED
  BY <1>1, <1>2, <1>3, <1>4

LEMMA BehindStep ==
  ASSUME TypeOK, [Next]_vars, NEW n \in Nat, n <= news', NEW r, Behind(n, r),
         NEW q \in Nat, r \in Nat, r <= q
  PROVE  \A s \in Taken' : s.news < n => s.revision < q
<1> SUFFICES ASSUME NEW s \in Taken', s.news < n PROVE s.revision < q
  OBVIOUS
<1>1. s \in Taken
  BY TakenStep, NewestStep
<1>2. s.revision < r /\ s.revision \in Nat
  BY <1>1, TakenTyped DEF Behind
<1>3. QED
  BY <1>2

LEMMA AheadStep ==
  ASSUME TypeOK, [Next]_vars, HigherIsNewer, Ahead
  PROVE  Ahead'
<1>1. /\ fetch \in [Fetches -> [at : {"idle", "asked", "answered"}, mount : 0..MaxMounts,
                                snapshot : Snapshots \cup {Nothing}]]
      /\ command \in [at : {"idle", "asked", "done", "answered"}, effect : 0..news,
                      snapshot : Snapshots \cup {Nothing}]
      /\ acknowledged \in 0..news
  BY DEF TypeOK
<1>2. /\ news \in Nat /\ revision \in Nat /\ revision' \in Nat /\ news' \in Nat
      /\ revision' >= revision /\ news' >= news
      /\ command.effect \in Nat /\ command.effect <= news'
      /\ acknowledged \in Nat /\ acknowledged <= news'
  BY <1>1, TakenTyped, NewestStep
<1>3. Snapshot \in Taken /\ Snapshot.revision = revision /\ Snapshot.news = news /\ Snapshot # Nothing
  BY <1>2, TakenTyped, WindowAssumption DEF Snapshot, Taken
<1>4. ASSUME shown # Nothing PROVE shown \in Taken /\ shown.revision \in Nat
  BY <1>4, TakenTyped DEF Taken
<1>5. ASSUME command.snapshot # Nothing PROVE command.snapshot \in Taken /\ command.snapshot.revision \in Nat
  BY <1>5, TakenTyped DEF Taken
<1>6. ASSUME NEW f \in Fetches, fetch[f].snapshot # Nothing
      PROVE fetch[f].snapshot \in Taken /\ fetch[f].snapshot.revision \in Nat
  BY <1>6, TakenTyped DEF Taken
<1> DEFINE Fetched == \A f \in Fetches : fetch[f].at = "answered" => fetch[f].snapshot # Nothing
           Done == command.at = "done" => Behind(command.effect, revision)
           Answered == command.at = "answered" =>
                         command.snapshot # Nothing /\ Behind(command.effect, command.snapshot.revision)
           Kept == acknowledged # 0 => shown # Nothing /\ Behind(acknowledged, shown.revision)
<1>7. Fetched /\ Done /\ Answered /\ Kept
  BY DEF Ahead
\* An acknowledged command stays ahead when a later snapshot is accepted.
<1>8. ASSUME acknowledged' = acknowledged, NEW next \in Taken,
             shown' = shown \/ Accept(next)
      PROVE  Kept'
  <2> SUFFICES ASSUME acknowledged # 0 PROVE (shown # Nothing /\ Behind(acknowledged, shown.revision))'
    BY <1>8
  <2>1. shown # Nothing /\ Behind(acknowledged, shown.revision) /\ shown.revision \in Nat
    BY <1>4, <1>7
  <2>2. next.revision \in Nat /\ next # Nothing
    BY TakenTyped DEF Taken
  <2>3. shown' # Nothing /\ shown'.revision \in Nat /\ shown.revision <= shown'.revision
    BY <1>8, <2>1, <2>2 DEF Accept
  <2>4. \A s \in Taken' : s.news < acknowledged => s.revision < shown'.revision
    BY <1>2, <2>1, <2>3, BehindStep
  <2> QED
    BY <1>8, <2>3, <2>4 DEF Behind
\* A command under way stays ahead while it is left alone.
<1>9. ASSUME command' = command PROVE Done' /\ Answered'
  <2>1. Done'
    <3> SUFFICES ASSUME command.at = "done" PROVE Behind(command.effect, revision)'
      BY <1>9
    <3>1. \A s \in Taken' : s.news < command.effect => s.revision < revision'
      BY <1>2, <1>7, BehindStep
    <3> QED
      BY <1>9, <3>1 DEF Behind
  <2>2. Answered'
    <3> SUFFICES ASSUME command.at = "answered"
                 PROVE  (command.snapshot # Nothing /\ Behind(command.effect, command.snapshot.revision))'
      BY <1>9
    <3>1. command.snapshot # Nothing /\ command.snapshot.revision \in Nat
          /\ Behind(command.effect, command.snapshot.revision)
      BY <1>5, <1>7
    <3>2. \A s \in Taken' : s.news < command.effect => s.revision < command.snapshot.revision
      BY <1>2, <3>1, BehindStep
    <3> QED
      BY <1>9, <3>1, <3>2 DEF Behind
  <2> QED
    BY <2>1, <2>2
<1> HIDE DEF Fetched, Done, Answered, Kept
<1>10. ASSUME UNCHANGED <<fetch, command, shown, acknowledged>> PROVE Ahead'
  <2>1. Kept'
    BY <1>3, <1>8, <1>10
  <2>2. Fetched'
    BY <1>7, <1>10 DEF Fetched
  <2> QED
    BY <1>9, <1>10, <2>1, <2>2 DEF Ahead, Fetched, Done, Answered, Kept
<1>11. ASSUME UNCHANGED <<command, shown, acknowledged>>, NEW m, Refresh(m) PROVE Ahead'
  <2>1. Kept'
    BY <1>3, <1>8, <1>11
  <2>2. Fetched'
    BY <1>1, <1>7, <1>11 DEF Fetched, Refresh
  <2> QED
    BY <1>9, <1>11, <2>1, <2>2 DEF Ahead, Fetched, Done, Answered, Kept
<1>12. ASSUME NEW f \in Fetches, Serve(f) PROVE Ahead'
  <2>1. Kept'
    BY <1>3, <1>8, <1>12 DEF Serve
  <2>2. Fetched'
    BY <1>1, <1>3, <1>7, <1>12 DEF Fetched, Serve
  <2> QED
    BY <1>9, <1>12, <2>1, <2>2 DEF Serve, Ahead, Fetched, Done, Answered, Kept
<1>13. ASSUME NEW f \in Fetches, Arrive(f) PROVE Ahead'
  <2>1. fetch[f].snapshot \in Taken
    BY <1>6, <1>7, <1>13 DEF Fetched, Arrive
  <2>2. Kept'
    BY <1>8, <1>13, <2>1 DEF Arrive
  <2>3. Fetched'
    BY <1>1, <1>7, <1>13 DEF Fetched, Arrive, Idle
  <2> QED
    BY <1>9, <1>13, <2>2, <2>3 DEF Arrive, Ahead, Fetched, Done, Answered, Kept
<1>14. ASSUME Click \/ Fail PROVE Ahead'
  <2>1. Kept' /\ Fetched'
    BY <1>3, <1>7, <1>8, <1>14 DEF Click, Fail, Fetched
  <2>2. command'.at \in {"idle", "asked"}
    BY <1>1, <1>14 DEF Click, Fail, NoCommand
  <2> QED
    BY <2>1, <2>2 DEF Ahead, Fetched, Kept
<1>15. ASSUME Execute PROVE Ahead'
  <2>1. Kept' /\ Fetched'
    BY <1>3, <1>7, <1>8, <1>15 DEF Execute, Fetched
  <2>2. command'.at = "done" /\ command'.effect = news' /\ revision' = revision + 1
    BY <1>1, <1>15 DEF Execute, Advanced
  <2>3. \A s \in Taken' : s.news < news' => s.revision < revision'
    <3> SUFFICES ASSUME NEW s \in Taken', s.news < news' PROVE s.revision < revision'
      OBVIOUS
    <3>1. s \in Taken
      BY <1>2, TakenStep, NewestStep
    <3> QED
      BY <1>2, <2>2, <3>1, TakenTyped
  <2> QED
    BY <2>1, <2>2, <2>3 DEF Ahead, Fetched, Kept, Behind
<1>16. ASSUME Answer PROVE Ahead'
  <2>1. Kept' /\ Fetched'
    BY <1>3, <1>7, <1>8, <1>16 DEF Answer, Fetched
  <2>2. /\ command.at = "done" /\ command'.at = "answered" /\ command'.effect = command.effect
        /\ command'.snapshot = Snapshot
    BY <1>1, <1>16 DEF Answer
  <2>3. \A s \in Taken' : s.news < command.effect => s.revision < revision
    BY <1>2, <1>7, <2>2, BehindStep DEF Done
  <2> QED
    BY <1>3, <2>1, <2>2, <2>3 DEF Ahead, Fetched, Kept, Behind
<1>17. ASSUME Return PROVE Ahead'
  <2>1. command'.at = "idle" /\ Fetched' /\ acknowledged' = command.effect
    BY <1>7, <1>17 DEF Return, NoCommand, Fetched
  <2>2. command.snapshot # Nothing /\ Behind(command.effect, command.snapshot.revision)
        /\ command.snapshot.revision \in Nat
    BY <1>5, <1>7, <1>17 DEF Return, Answered
  <2>3. shown' # Nothing /\ shown'.revision \in Nat /\ command.snapshot.revision <= shown'.revision
    BY <1>4, <1>17, <2>2 DEF Return, Accept
  <2>4. \A s \in Taken' : s.news < command.effect => s.revision < shown'.revision
    BY <1>2, <2>2, <2>3, BehindStep
  <2> QED
    BY <2>1, <2>3, <2>4 DEF Ahead, Fetched, Behind
<1>18. ASSUME NEW m \in Mounts, Register(m) \/ Subscribed(m) \/ Deliver(m) PROVE Ahead'
  BY <1>10, <1>11, <1>18 DEF Register, Subscribed, Deliver, calls
<1>19. ASSUME Change \/ Poll \/ Remount \/ UNCHANGED vars PROVE Ahead'
  BY <1>10, <1>19 DEF Change, Poll, Remount, vars, calls
<1>20. ASSUME NEW e \in Exchanges, Begin(e) \/ Note(e) \/ Settle(e) \/ Drop(e) \/ Tell(e) PROVE Ahead'
  BY <1>10, <1>20 DEF Begin, Note, Settle, Drop, Tell, calls
<1>21. QED
  BY <1>12, <1>13, <1>14, <1>15, <1>16, <1>17, <1>18, <1>19, <1>20 DEF Next

LEMMA IInvAlways == Spec => []IInv
<1>1. IInv /\ [Next]_vars => IInv'
  BY TypeStep, HigherIsNewerStep, AheadStep DEF IInv
<1>2. QED
  BY <1>1, InitIInv, PTL DEF Spec

(* Of two snapshots anywhere on their way to the window the one with the   *)
(* higher revision is never the older one, so that accept() may compare    *)
(* revisions only.                                                         *)
THEOREM HigherIsNewerAlways == Spec => []HigherIsNewer
  BY IInvAlways, PTL DEF IInv

(* No answer that arrives late takes back what a returned command did.     *)
THEOREM CommandsStayAlways == Spec => []CommandsStay
<1>1. IInv => CommandsStay
  <2> SUFFICES ASSUME IInv, acknowledged # 0 PROVE shown.news >= acknowledged
    BY DEF CommandsStay
  <2>1. TypeOK /\ shown # Nothing /\ Behind(acknowledged, shown.revision)
    BY DEF IInv, Ahead
  <2>2. shown \in Taken
    BY <2>1 DEF Taken
  <2>3. acknowledged \in Nat /\ shown.revision \in Nat /\ shown.news \in Nat
    BY <2>1, <2>2, TakenTyped DEF TypeOK
  <2> QED
    BY <2>1, <2>2, <2>3 DEF Behind
<1>2. QED
  BY <1>1, IInvAlways, PTL
=============================================================================
