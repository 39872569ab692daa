------------------------- MODULE ProxyEngineProofs -------------------------
(***************************************************************************)
(* Proofs about the proxy engine, for every set of connections, targets,   *)
(* profiles and configurations.                                            *)
(***************************************************************************)
EXTENDS ProxyEngine, FiniteSetTheorems, SequenceTheorems, TLAPS

-----------------------------------------------------------------------------
(* Types.                                                                  *)

\* Every configuration in use is a Config, the one before the first Start
\* included (ProxyEngine::default).
LEMMA ConfigInUse == ASSUME TypeOK PROVE cfg \in Config
  <1>1. [t \in Targets |-> Unknown] \in [Targets -> DestinationClass]
    BY DEF DestinationClass
  <1>2. [t \in Targets |-> "none"] \in [Targets -> RuleKind]
    BY DEF RuleKind
  <1>3. InitialConfig \in Config
    BY <1>1, <1>2 DEF InitialConfig, Config
  <1> QED
    BY <1>3, ConfigsAssumption DEF TypeOK

\* Exchange::update keeps a record a record.
LEMMA UpdateType ==
  ASSUME capture \in [Conns -> Capture], NEW c \in Conns, NEW new \in Capture, Update(c, new)
  PROVE  capture' \in [Conns -> Capture]
  BY DEF Update

LEMMA FinishedType ==
  ASSUME NEW old \in Capture, NEW outcome \in {"complete", "error"}
  PROVE  Finished(old, outcome) \in Capture
  BY DEF Finished, Capture

\* The fields an exchange sets in its record.
LEMMA EditType ==
  ASSUME NEW old \in Capture
  PROVE  /\ \A x \in {"disabled", "empty", "recording", "unavailable", "complete"} :
              [old EXCEPT !.body = x] \in Capture
         /\ \A x \in RuleKind : [old EXCEPT !.rule = x] \in Capture
         /\ \A x \in {"waiting", "modified", "continued", "timed_out"} :
              [old EXCEPT !.breakpoint = x] \in Capture
         /\ \A x \in Profiles \cup {NoProfile} : [old EXCEPT !.profile = x] \in Capture
         /\ \A x \in DestinationClass, y \in Nat :
              [old EXCEPT !.class = x, !.replay_of = y] \in Capture
  BY DEF Capture

LEMMA RangeOfList == ASSUME NEW s \in Seq(Nat) PROVE Range(s) = {s[i] : i \in 1..Len(s)}
  BY RangeEquality

LEMMA TypeInit == Init => TypeOK
  <1> SUFFICES ASSUME Init PROVE TypeOK
    OBVIOUS
  <1>1. NoCapture \in Capture
    BY DEF NoCapture, Capture, DestinationClass, Unknown, RuleKind
  <1>2. Ids = {}
    <2>1. traffic = <<>> /\ <<>> \in Seq(Nat) /\ Len(<<>>) = 0
      BY EmptySeq DEF Init
    <2>2. Range(traffic) = {traffic[i] : i \in 1..0}
      BY <2>1, RangeOfList
    <2> QED
      BY <2>2 DEF Ids
  <1>3. /\ pc \in [Conns -> Phase] /\ capture \in [Conns -> Capture]
        /\ request \in [Conns -> RequestKind]
        /\ rule \in [Conns -> RuleKind] /\ decision \in [Conns -> Decision]
    BY <1>1, RequestsAssumption DEF Init, Phase, RuleKind, Decision
  <1>4. traffic \in Seq(Nat)
    BY EmptySeq DEF Init
  <1>5. next_id = 1 /\ 1..(next_id - 1) = {} /\ 0..(next_id - 1) = {0}
    BY DEF Init
  <1>6. /\ id \in [Conns -> 0..(next_id - 1)]
        /\ origin \in [Conns -> 0..(next_id - 1)]
    BY <1>5 DEF Init
  <1>7. /\ breakpoints \subseteq 1..(next_id - 1)
        /\ templates \subseteq 1..(next_id - 1)
        /\ bodies \subseteq {"request", "response"} \X (0..(next_id - 1))
        /\ Ids \subseteq 1..(next_id - 1)
        /\ next_id \in Nat \ {0}
    BY <1>2, <1>5 DEF Init
  <1>8. /\ cfg \in Configs \cup {InitialConfig}
        /\ phase \in {"stopped", "running"}
        /\ task \in {"none", "accepting", "draining", "ended"}
        /\ stopping \in BOOLEAN /\ live \subseteq Conns /\ tokens \subseteq Replays
    BY DEF Init
  <1>9. /\ target \in [Conns -> Targets]
        /\ channel \in [Conns -> {"none", "open", "held", "accepted", "rejected"}]
        /\ applied \in [Conns -> BOOLEAN] /\ marked \in [Conns -> BOOLEAN]
        /\ worker \in [Conns -> {"none", "passing", "buffering", "storing", "stored",
                                 "finished", "failed"}]
        /\ reply \in [Conns -> {"none", "407", "403", "504", "error", "original", "rule",
                                "decision"}]
        /\ call \in [Conns -> {"idle", "checked", "dispatched", "returned"}]
    BY DEF Init
  <1> QED
    BY <1>3, <1>4, <1>6, <1>7, <1>8, <1>9 DEF TypeOK

-----------------------------------------------------------------------------
(* The capture list: an increasing sequence of ids.                        *)

\* What an eviction leaves is a suffix of the list, and everything evicted is
\* older than what stays.
LEMMA SuffixOfList ==
  ASSUME NEW s \in Seq(Nat), Increasing(s), NEW k \in 1..(Len(s) + 1)
  PROVE  LET t == SubSeq(s, k, Len(s)) IN
         /\ t \in Seq(Nat)
         /\ Len(t) = Len(s) - k + 1
         /\ Increasing(t)
         /\ Range(t) \subseteq Range(s)
         /\ \A x \in Range(s) \ Range(t), y \in Range(t) : x < y
  <1> DEFINE n == Len(s)
             t == SubSeq(s, k, n)
  <1>1. n \in Nat /\ \A i \in 1..n : s[i] \in Nat
    BY LenProperties, ElementOfSeq
  <1>2. /\ t \in Seq(Nat)
        /\ Len(t) = n - k + 1
        /\ \A i \in 1..(n - k + 1) : t[i] = s[k + i - 1]
    <2>1. \A i \in k..n : s[i] \in Nat
      BY <1>1
    <2>2. Len(t) = IF k <= n THEN n - k + 1 ELSE 0
      BY <1>1, <2>1, SubSeqProperties
    <2> QED
      BY <1>1, <2>1, <2>2, SubSeqProperties
  <1>3. Range(t) = {t[i] : i \in 1..Len(t)} /\ Range(s) = {s[i] : i \in 1..n}
    BY <1>2, RangeOfList
  <1> HIDE DEF n, t
  <1>4. Increasing(t)
    <2> SUFFICES ASSUME NEW i \in 1..Len(t), NEW j \in 1..Len(t), i < j
                 PROVE  t[i] < t[j]
      BY DEF Increasing
    <2>1. k + i - 1 \in 1..n /\ k + j - 1 \in 1..n /\ k + i - 1 < k + j - 1
      BY <1>1, <1>2
    <2> QED
      BY <1>2, <2>1 DEF Increasing, n
  <1>5. Range(t) \subseteq Range(s)
    <2> SUFFICES ASSUME NEW i \in 1..Len(t) PROVE t[i] \in Range(s)
      BY <1>3
    <2>1. k + i - 1 \in 1..n
      BY <1>1, <1>2
    <2> QED
      BY <1>2, <1>3, <2>1
  <1>6. ASSUME NEW x \in Range(s) \ Range(t), NEW y \in Range(t) PROVE x < y
    <2>1. PICK i \in 1..n : x = s[i]
      BY <1>3
    <2>2. PICK j \in 1..Len(t) : y = t[j]
      BY <1>3
    <2>3. k + j - 1 \in 1..n /\ y = s[k + j - 1]
      BY <1>1, <1>2, <2>2
    <2>4. i < k
      <3> SUFFICES ASSUME i >= k PROVE FALSE
        BY <1>1
      <3>1. i - k + 1 \in 1..Len(t) /\ k + (i - k + 1) - 1 = i
        BY <1>1, <1>2
      <3>2. t[i - k + 1] = x
        BY <1>2, <2>1, <3>1
      <3> QED
        BY <1>3, <3>1, <3>2
    <2>5. i < k + j - 1
      BY <1>1, <1>2, <2>4
    <2> QED
      BY <2>1, <2>3, <2>5 DEF Increasing, n
  <1> QED
    BY <1>2, <1>4, <1>5, <1>6 DEF n, t

\* A new capture is the newest.
LEMMA AppendToList ==
  ASSUME NEW s \in Seq(Nat), Increasing(s), NEW e \in Nat, \A x \in Range(s) : x < e
  PROVE  /\ Append(s, e) \in Seq(Nat)
         /\ Len(Append(s, e)) = Len(s) + 1
         /\ Increasing(Append(s, e))
         /\ Range(Append(s, e)) = Range(s) \cup {e}
  <1> DEFINE n == Len(s)
             t == Append(s, e)
  <1>1. n \in Nat
    BY LenProperties
  <1>2. /\ t \in Seq(Nat) /\ Len(t) = n + 1
        /\ \A i \in 1..n : t[i] = s[i]
        /\ t[n + 1] = e
    BY AppendProperties
  <1>3. Range(t) = {t[i] : i \in 1..Len(t)} /\ Range(s) = {s[i] : i \in 1..n}
    BY <1>2, RangeOfList
  <1> HIDE DEF n, t
  <1>4. 1..(n + 1) = (1..n) \cup {n + 1}
    BY <1>1
  <1>5. Range(t) = Range(s) \cup {e}
    <2>1. ASSUME NEW x \in Range(t) PROVE x \in Range(s) \cup {e}
      <3>1. PICK i \in 1..(n + 1) : x = t[i]
        BY <1>2, <1>3
      <3>2. CASE i \in 1..n
        BY <1>2, <1>3, <3>1, <3>2
      <3>3. CASE i = n + 1
        BY <1>2, <3>1, <3>3
      <3> QED
        BY <1>4, <3>2, <3>3
    <2>2. ASSUME NEW x \in Range(s) PROVE x \in Range(t)
      <3>1. PICK i \in 1..n : x = s[i]
        BY <1>3
      <3>2. i \in 1..Len(t) /\ t[i] = x
        BY <1>2, <1>4, <3>1
      <3> QED
        BY <1>3, <3>2
    <2>3. e \in Range(t)
      <3>1. n + 1 \in 1..Len(t) /\ t[n + 1] = e
        BY <1>1, <1>2
      <3> QED
        BY <1>3, <3>1
    <2> QED
      BY <2>1, <2>2, <2>3
  <1>6. Increasing(t)
    <2> SUFFICES ASSUME NEW i \in 1..(n + 1), NEW j \in 1..(n + 1), i < j
                 PROVE  t[i] < t[j]
      BY <1>2 DEF Increasing
    <2>1. i \in 1..n
      BY <1>1
    <2>2. CASE j \in 1..n
      BY <1>2, <2>1, <2>2 DEF Increasing, n
    <2>3. CASE j = n + 1
      BY <1>2, <1>3, <2>1, <2>3
    <2> QED
      BY <1>4, <2>2, <2>3
  <1> QED
    BY <1>2, <1>5, <1>6 DEF n, t

\* What Start keeps of the list under the new limit.
LEMMA TrimmedList ==
  ASSUME TypeOK, Increasing(traffic), NEW limit \in Nat \ {0}
  PROVE  /\ Trimmed(limit) \in Seq(Nat)
         /\ Len(Trimmed(limit)) <= limit
         /\ Increasing(Trimmed(limit))
         /\ Range(Trimmed(limit)) \subseteq Ids
         /\ \A x \in Ids \ Range(Trimmed(limit)), y \in Range(Trimmed(limit)) : x < y
  <1>1. traffic \in Seq(Nat) /\ Len(traffic) \in Nat
    BY LenProperties DEF TypeOK
  <1>2. CASE Len(traffic) > limit
    <2>1. Len(traffic) - limit + 1 \in 1..(Len(traffic) + 1)
      BY <1>1, <1>2
    <2> QED
      BY <1>1, <1>2, <2>1, SuffixOfList DEF Trimmed, Ids
  <1>3. CASE ~(Len(traffic) > limit)
    BY <1>1, <1>3 DEF Trimmed, Ids
  <1> QED
    BY <1>2, <1>3

\* What begin_exchange keeps of the list before it adds a capture.
LEMMA RoomList ==
  ASSUME TypeOK, RetentionBound
  PROVE  /\ Room \in Seq(Nat)
         /\ Len(Room) < cfg.limit
         /\ Increasing(Room)
         /\ Range(Room) \subseteq Ids
         /\ \A x \in Ids \ Range(Room), y \in Range(Room) : x < y
  <1>1. traffic \in Seq(Nat) /\ Len(traffic) \in Nat /\ cfg.limit \in Nat \ {0}
    BY LenProperties, ConfigInUse DEF TypeOK, Config
  <1>2. Len(traffic) <= cfg.limit /\ Increasing(traffic)
    BY DEF RetentionBound
  <1>3. CASE Len(traffic) = cfg.limit
    <2>1. traffic # <<>> /\ 2 \in 1..(Len(traffic) + 1)
      BY <1>1, <1>3, EmptySeq
    <2>2. Room = SubSeq(traffic, 2, Len(traffic))
      BY <1>1, <1>3, <2>1, TailIsSubSeq DEF Room
    <2>3. /\ Room \in Seq(Nat)
          /\ Len(Room) = Len(traffic) - 2 + 1
          /\ Increasing(Room)
          /\ Range(Room) \subseteq Range(traffic)
          /\ \A x \in Range(traffic) \ Range(Room), y \in Range(Room) : x < y
      BY <1>1, <1>2, <2>1, <2>2, SuffixOfList
    <2> QED
      BY <1>1, <1>3, <2>3 DEF Ids
  <1>4. CASE Len(traffic) # cfg.limit
    BY <1>1, <1>2, <1>4 DEF Room, Ids
  <1> QED
    BY <1>3, <1>4

-----------------------------------------------------------------------------
(* The type invariant, one step per action.                                *)

LEMMA TypeStep == TypeOK /\ RetentionBound /\ [Next]_vars => TypeOK'
  <1> SUFFICES ASSUME TypeOK, RetentionBound, [Next]_vars PROVE TypeOK'
    OBVIOUS
  <1> USE DEF lifecycle, tables, channels, replaying
  <1>1. CASE Start
    <2>1. PICK new \in Configs :
            /\ cfg' = new /\ traffic' = Trimmed(new.limit)
            /\ Forget(Ids \ Range(Trimmed(new.limit)))
            /\ templates' = templates \ (Ids \ Range(Trimmed(new.limit)))
      BY <1>1 DEF Start
    <2>2. new.limit \in Nat \ {0}
      BY ConfigsAssumption DEF Config
    <2>3. traffic' \in Seq(Nat) /\ Ids' \subseteq Ids
      BY <2>1, <2>2, TrimmedList DEF RetentionBound, Ids
    <2>4. breakpoints' \subseteq breakpoints /\ bodies' \subseteq bodies
          /\ templates' \subseteq templates
      BY <2>1 DEF Forget
    <2>5. next_id' = next_id
      BY <1>1 DEF Start
    <2>6. /\ Ids' \subseteq 1..(next_id' - 1)
          /\ breakpoints' \subseteq 1..(next_id' - 1)
          /\ templates' \subseteq 1..(next_id' - 1)
          /\ bodies' \subseteq {"request", "response"} \X (0..(next_id' - 1))
      BY <2>3, <2>4, <2>5 DEF TypeOK
    <2> QED
      BY <1>1, <2>1, <2>3, <2>5, <2>6 DEF TypeOK, Start
  <1>2. CASE ShutdownSignal
    BY <1>2 DEF TypeOK, ShutdownSignal, LeaveLoop, Ids
  <1>3. CASE AcceptFails
    BY <1>3 DEF TypeOK, AcceptFails, LeaveLoop, Ids
  <1>4. CASE LoopEnds
    BY <1>4 DEF TypeOK, LoopEnds, Ids
  <1>5. CASE Stop
    BY <1>5 DEF TypeOK, Stop, Ids
  <1>6. CASE StopReturns
    BY <1>6 DEF TypeOK, StopReturns, Ids
  <1>7. CASE Clear
    <2>1. traffic' = <<>> /\ <<>> \in Seq(Nat) /\ Len(<<>>) = 0
      BY <1>7, EmptySeq DEF Clear
    <2>2. Range(<<>>) = {<<>>[i] : i \in 1..0}
      BY <2>1, RangeOfList
    <2>3. Ids' = {}
      BY <2>1, <2>2 DEF Ids
    <2> QED
      BY <1>7, <2>1, <2>3 DEF TypeOK, Clear
  <1>8. ASSUME NEW c \in Conns, Accept(c) PROVE TypeOK'
    <2>1. pc \in [Conns -> Phase] /\ live \subseteq Conns
      BY DEF TypeOK
    <2>2. \/ pc' = [pc EXCEPT ![c] = "done"] /\ live' = live
          \/ pc' = [pc EXCEPT ![c] = "served"] /\ live' = live \cup {c}
      BY <1>8 DEF Accept, Goto
    <2>3. pc' \in [Conns -> Phase] /\ live' \subseteq Conns
      BY <2>1, <2>2 DEF Phase
    <2> QED
      BY <1>8, <2>3 DEF TypeOK, Accept, Ids
  <1>9. ASSUME NEW c \in Conns, Reap(c) PROVE TypeOK'
    BY <1>9 DEF TypeOK, Reap, Ids, Goto, Phase
  <1>10. ASSUME NEW c \in Conns, Authenticate(c) PROVE TypeOK'
    <2>1. cfg.auth \in Profiles \cup {NoProfile}
      BY ConfigInUse DEF Config
    <2>2. [capture[c] EXCEPT !.profile = cfg.auth] \in Capture
      BY <2>1, EditType DEF TypeOK
    <2>3. capture' \in [Conns -> Capture]
      BY <1>10, <2>2 DEF TypeOK, Authenticate
    <2>4. pc' \in [Conns -> Phase] /\ tokens' \subseteq Replays
      BY <1>10 DEF TypeOK, Authenticate, Goto, Phase
    <2>5. /\ marked' \in [Conns -> BOOLEAN]
          /\ reply' \in [Conns -> {"none", "407", "403", "504", "error", "original", "rule",
                                  "decision"}]
      BY <1>10 DEF TypeOK, Authenticate
    <2> QED
      BY <1>10, <2>3, <2>4, <2>5 DEF TypeOK, Authenticate, Ids
  <1>11. ASSUME NEW c \in Conns, RefuseReplay(c) PROVE TypeOK'
    BY <1>11 DEF TypeOK, RefuseReplay, Ids, Goto, Phase
  <1>12. ASSUME NEW c \in Conns, Begin(c) PROVE TypeOK'
    <2> DEFINE gone == Ids \ Range(Room)
    <2>1. /\ next_id' = next_id + 1
          /\ id' = [id EXCEPT ![c] = next_id]
          /\ traffic' = Append(Room, next_id)
          /\ breakpoints' \subseteq breakpoints /\ bodies' \subseteq bodies
          /\ templates' \subseteq templates \cup {next_id}
      BY <1>12 DEF Begin, Forget, FreshId
    <2>2. next_id \in Nat \ {0} /\ \A x \in Ids : x < next_id
      <3>1. next_id \in Nat \ {0} /\ Ids \subseteq 1..(next_id - 1)
        BY DEF TypeOK
      <3> QED
        BY <3>1
    <2>3. \A x \in Range(Room) : x < next_id
      BY <2>2, RoomList
    <2>4. traffic' \in Seq(Nat) /\ Ids' \subseteq Ids \cup {next_id}
      BY <2>1, <2>2, <2>3, RoomList, AppendToList DEF Ids
    <2>5. /\ Ids' \subseteq 1..(next_id' - 1)
          /\ breakpoints' \subseteq 1..(next_id' - 1)
          /\ templates' \subseteq 1..(next_id' - 1)
          /\ next_id' \in Nat \ {0}
      BY <2>1, <2>2, <2>4 DEF TypeOK
    <2>6. bodies' \subseteq {"request", "response"} \X (0..(next_id' - 1))
      BY <2>1, <2>2 DEF TypeOK
    <2>7. id' \in [Conns -> 0..(next_id' - 1)] /\ origin' \in [Conns -> 0..(next_id' - 1)]
      BY <1>12, <2>1, <2>2 DEF TypeOK, Begin
    <2>8. capture' \in [Conns -> Capture]
      <3> DEFINE from == IF marked[c] THEN origin[c] ELSE 0
      <3>1. cfg.class[target[c]] \in DestinationClass
        BY ConfigInUse DEF TypeOK, Config
      <3>2. from \in Nat
        BY DEF TypeOK
      <3>3. [capture[c] EXCEPT !.class = cfg.class[target[c]], !.replay_of = from] \in Capture
        BY <3>1, <3>2, EditType DEF TypeOK
      <3>4. capture' = [capture EXCEPT
               ![c] = [capture[c] EXCEPT !.class = cfg.class[target[c]], !.replay_of = from]]
        BY <1>12 DEF Begin, TypeOK
      <3> QED
        BY <3>3, <3>4 DEF TypeOK
    <2> QED
      BY <1>12, <2>4, <2>5, <2>6, <2>7, <2>8 DEF TypeOK, Begin, Goto, Phase
  <1>13. ASSUME NEW c \in Conns, ArmBreakpoint(c) PROVE TypeOK'
    <2>1. [capture[c] EXCEPT !.breakpoint = "waiting"] \in Capture
      BY EditType DEF TypeOK
    <2>2. capture' \in [Conns -> Capture]
      BY <1>13, <2>1, UpdateType DEF TypeOK, ArmBreakpoint
    <2>3. CASE cfg.pause /\ MayModify(c)
      <3>1. id[c] \in 1..(next_id - 1)
        BY <2>3 DEF MayModify, Tracked, TypeOK
      <3>2. breakpoints' = breakpoints \cup {id[c]} /\ channel' = [channel EXCEPT ![c] = "open"]
        BY <1>13, <2>3 DEF ArmBreakpoint
      <3> QED
        BY <1>13, <2>2, <2>3, <3>1, <3>2 DEF TypeOK, ArmBreakpoint, Ids, Goto, Phase
    <2>4. CASE ~(cfg.pause /\ MayModify(c))
      BY <1>13, <2>2, <2>4 DEF TypeOK, ArmBreakpoint, Ids, Goto, Phase
    <2> QED
      BY <2>3, <2>4
  <1>14. ASSUME NEW c \in Conns, ContinueUnchanged(c) PROVE TypeOK'
    <2>1. \E outcome \in {"modified", "continued", "timed_out"} :
            Update(c, [capture[c] EXCEPT !.breakpoint = outcome])
      BY <1>14 DEF ContinueUnchanged, Continue
    <2>2. capture' \in [Conns -> Capture]
      BY <2>1, EditType, UpdateType DEF TypeOK
    <2> QED
      BY <1>14, <2>2 DEF TypeOK, ContinueUnchanged, Continue, Ids, Goto, Phase
  <1>15. ASSUME NEW c \in Conns, Respond(c) PROVE TypeOK'
    <2>1. Finished(capture[c], "complete") \in Capture
      BY FinishedType DEF TypeOK
    <2>2. capture' \in [Conns -> Capture]
      BY <1>15, <2>1, UpdateType DEF TypeOK, Respond
    <2>3. \E label \in Phase : pc' = [pc EXCEPT ![c] = label]
      BY <1>15 DEF Respond, Goto, Phase
    <2>4. reply' \in [Conns -> {"none", "407", "403", "504", "error", "original", "rule",
                               "decision"}]
      BY <1>15 DEF TypeOK, Respond
    <2> QED
      BY <1>15, <2>2, <2>3, <2>4 DEF TypeOK, Respond, Ids
  <1>16. ASSUME NEW c \in Conns, RecheckResponse(c) PROVE TypeOK'
    BY <1>16 DEF TypeOK, RecheckResponse, UnlessForgotten, Ids, Goto, Phase
  <1>17. ASSUME NEW c \in Conns, UpstreamFails(c) PROVE TypeOK'
    <2>1. Finished(capture[c], "error") \in Capture
      BY FinishedType DEF TypeOK
    <2>2. capture' \in [Conns -> Capture]
      BY <1>17, <2>1, UpdateType DEF TypeOK, UpstreamFails
    <2> QED
      BY <1>17, <2>2 DEF TypeOK, UpstreamFails, Ids, Goto, Phase
  <1>18. ASSUME NEW c \in Conns, SendRequest(c) PROVE TypeOK'
    <2>1. \A state \in {"disabled", "empty", "recording", "unavailable", "complete"} :
            [capture[c] EXCEPT !.body = state] \in Capture
      BY EditType DEF TypeOK
    <2>2. capture[c].body \in {"disabled", "empty", "recording", "unavailable", "complete"}
      BY DEF TypeOK, Capture
    <2>3. PICK new \in Capture : Update(c, new)
      BY <1>18, <2>1, <2>2 DEF SendRequest
    <2>4. capture' \in [Conns -> Capture]
      BY <2>3, UpdateType DEF TypeOK
    <2>5. pc' \in [Conns -> Phase]
      BY <1>18 DEF TypeOK, SendRequest, Goto, Phase
    <2> QED
      BY <1>18, <2>4, <2>5 DEF TypeOK, SendRequest, Ids
  <1>19. ASSUME NEW c \in Conns, ResponseHead(c) PROVE TypeOK'
    <2> DEFINE chosen == IF MayModify(c) THEN cfg.rule[target[c]] ELSE "none"
    <2>1. cfg.rule[target[c]] \in RuleKind
      BY ConfigInUse DEF TypeOK, Config
    <2>2. chosen \in RuleKind
      BY <2>1 DEF RuleKind
    <2>3. rule' = [rule EXCEPT ![c] = chosen] /\ Update(c, [capture[c] EXCEPT !.rule = chosen])
      BY <1>19 DEF ResponseHead
    <2> HIDE DEF chosen
    <2>4. [capture[c] EXCEPT !.rule = chosen] \in Capture
      BY <2>2, EditType DEF TypeOK
    <2>5. capture' \in [Conns -> Capture]
      BY <2>3, <2>4, UpdateType DEF TypeOK
    <2>6. rule' \in [Conns -> RuleKind]
      BY <2>2, <2>3 DEF TypeOK
    <2> QED
      BY <1>19, <2>5, <2>6 DEF TypeOK, ResponseHead, Ids, Goto, Phase
  <1>20. ASSUME NEW c \in Conns, TakeSender(c) PROVE TypeOK'
    BY <1>20 DEF TypeOK, TakeSender, Ids, Goto, Phase
  <1>21. ASSUME NEW c \in Conns, SendDecision(c) PROVE TypeOK'
    BY <1>21 DEF TypeOK, SendDecision, Ids, Goto, Phase
  <1>22. ASSUME NEW c \in Conns, ReceiveDecision(c) PROVE TypeOK'
    <2>1. \E outcome \in {"modified", "continued", "timed_out"} :
            Update(c, [capture[c] EXCEPT !.breakpoint = outcome])
      BY <1>22 DEF ReceiveDecision, Continue
    <2>2. capture' \in [Conns -> Capture]
      BY <2>1, EditType, UpdateType DEF TypeOK
    <2> QED
      BY <1>22, <2>2 DEF TypeOK, ReceiveDecision, Continue, Ids, Goto, Phase
  <1>23. ASSUME NEW c \in Conns, SenderDropped(c) PROVE TypeOK'
    <2>1. \E outcome \in {"modified", "continued", "timed_out"} :
            Update(c, [capture[c] EXCEPT !.breakpoint = outcome])
      BY <1>23 DEF SenderDropped, Continue
    <2>2. capture' \in [Conns -> Capture]
      BY <2>1, EditType, UpdateType DEF TypeOK
    <2> QED
      BY <1>23, <2>2 DEF TypeOK, SenderDropped, Continue, Ids, Goto, Phase
  <1>24. ASSUME NEW c \in Conns, PauseElapses(c) PROVE TypeOK'
    BY <1>24 DEF TypeOK, PauseElapses, Ids, Goto, Phase
  <1>25. ASSUME NEW c \in Conns, StoreReplacement(c) PROVE TypeOK'
    <2>1. Finished(capture[c], "complete") \in Capture
      BY FinishedType DEF TypeOK
    <2>2. capture' \in [Conns -> Capture]
      BY <1>25, <2>1, UpdateType DEF TypeOK, StoreReplacement
    <2>3. id[c] \in 0..(next_id - 1)
      BY DEF TypeOK
    <2>4. bodies' \subseteq {"request", "response"} \X (0..(next_id - 1))
      BY <1>25, <2>3 DEF TypeOK, StoreReplacement
    <2> QED
      BY <1>25, <2>2, <2>4 DEF TypeOK, StoreReplacement, Ids, Goto, Phase
  <1>26. ASSUME NEW c \in Conns, RecordResponse(c) PROVE TypeOK'
    <2>1. id[c] \in 0..(next_id - 1)
      BY DEF TypeOK
    <2>2. bodies' \subseteq {"request", "response"} \X (0..(next_id - 1))
      BY <1>26, <2>1 DEF TypeOK, RecordResponse
    <2> QED
      BY <1>26, <2>2 DEF TypeOK, RecordResponse, Ids, Goto, Phase
  <1>27. ASSUME NEW c \in Conns, EndBody(c) PROVE TypeOK'
    <2>1. PICK outcome \in {"complete", "error"} : Update(c, Finished(capture[c], outcome))
      BY <1>27 DEF EndBody
    <2>2. Finished(capture[c], outcome) \in Capture
      BY FinishedType DEF TypeOK
    <2>3. capture' \in [Conns -> Capture]
      BY <2>1, <2>2, UpdateType DEF TypeOK
    <2> QED
      BY <1>27, <2>3 DEF TypeOK, EndBody, Ids, Goto, Phase
  <1>28. ASSUME NEW c \in Conns, RequestTimesOut(c) PROVE TypeOK'
    <2>1. Finished(capture[c], "error") \in Capture
      BY FinishedType DEF TypeOK
    <2>2. capture' \in [Conns -> Capture]
      BY <1>28, <2>1, UpdateType DEF TypeOK, RequestTimesOut
    <2> QED
      BY <1>28, <2>2 DEF TypeOK, RequestTimesOut, Ids, Goto, Phase
  <1>29. ASSUME NEW c \in Conns, Abort(c) PROVE TypeOK'
    BY <1>29 DEF TypeOK, Abort, Dropped, Ids, Goto, Phase
  <1>30. ASSUME NEW c \in Conns, Disconnect(c) PROVE TypeOK'
    BY <1>30 DEF TypeOK, Disconnect, Dropped, Ids, Goto, Phase
  <1>31. ASSUME NEW c \in Conns, DropExchange(c) PROVE TypeOK'
    <2>1. Finished(capture[c], "error") \in Capture
      BY FinishedType DEF TypeOK
    <2>2. capture' \in [Conns -> Capture]
      BY <1>31, <2>1, UpdateType DEF TypeOK, DropExchange
    <2> QED
      BY <1>31, <2>2 DEF TypeOK, DropExchange, Ids, Goto, Phase
  <1>32. ASSUME NEW c \in Conns, FinishCapture(c) PROVE TypeOK'
    BY <1>32 DEF TypeOK, FinishCapture, Ids, Goto, Phase
  <1>33. ASSUME NEW c \in Conns, LoseCapture(c) PROVE TypeOK'
    BY <1>33 DEF TypeOK, LoseCapture, Ids, Goto, Phase
  <1>40. ASSUME NEW c \in Conns, RequestBodyFails(c) PROVE TypeOK'
    <2>1. Finished(capture[c], "error") \in Capture
      BY FinishedType DEF TypeOK
    <2>2. capture' \in [Conns -> Capture]
      BY <1>40, <2>1, UpdateType DEF TypeOK, RequestBodyFails
    <2> QED
      BY <1>40, <2>2 DEF TypeOK, RequestBodyFails, Ids
  <1>34. ASSUME NEW c \in Conns, StoreRequest(c) PROVE TypeOK'
    <2>1. \E x \in {"complete", "unavailable"} : Update(c, [capture[c] EXCEPT !.body = x])
      BY <1>34 DEF StoreRequest
    <2>2. capture' \in [Conns -> Capture]
      BY <2>1, EditType, UpdateType DEF TypeOK
    <2>3. id[c] \in 0..(next_id - 1)
      BY DEF TypeOK
    <2>4. bodies' \subseteq {"request", "response"} \X (0..(next_id - 1))
      BY <1>34, <2>3 DEF TypeOK, StoreRequest
    <2> QED
      BY <1>34, <2>2, <2>4 DEF TypeOK, StoreRequest, Ids
  <1>35. ASSUME NEW c \in Conns, RecheckRequest(c) PROVE TypeOK'
    BY <1>35 DEF TypeOK, RecheckRequest, UnlessForgotten, Ids, Goto, Phase
  <1>36. ASSUME NEW c \in Replays, CheckReplay(c) PROVE TypeOK'
    <2>1. PICK o \in Conns :
            /\ origin' = [origin EXCEPT ![c] = id[o]]
            /\ target' = [target EXCEPT ![c] = target[o]]
            /\ capture' = [capture EXCEPT ![c].profile = capture[o].profile]
      BY <1>36 DEF CheckReplay
    <2>2. c \in Conns /\ capture[c] \in Capture
      BY DEF Conns, TypeOK
    <2>3. capture[o].profile \in Profiles \cup {NoProfile}
      BY DEF TypeOK, Capture
    <2>4. [capture[c] EXCEPT !.profile = capture[o].profile] \in Capture
      BY <2>2, <2>3, EditType
    <2>5. capture' \in [Conns -> Capture]
      BY <2>1, <2>2, <2>4 DEF TypeOK
    <2>6. /\ origin' \in [Conns -> 0..(next_id - 1)]
          /\ target' \in [Conns -> Targets]
      BY <2>1, <2>2 DEF TypeOK
    <2> QED
      BY <1>36, <2>2, <2>5, <2>6 DEF TypeOK, CheckReplay, Ids, RequestKind
  <1>37. ASSUME NEW c \in Replays, DispatchReplay(c) PROVE TypeOK'
    BY <1>37 DEF TypeOK, DispatchReplay, Ids, Conns
  <1>38. ASSUME NEW c \in Replays, ReplayReturns(c) PROVE TypeOK'
    BY <1>38 DEF TypeOK, ReplayReturns, Ids, Conns
  <1>39. CASE UNCHANGED vars
    BY <1>39 DEF TypeOK, vars, Ids
  <1> QED
    BY <1>1, <1>2, <1>3, <1>4, <1>5, <1>6, <1>7, <1>8, <1>9, <1>10, <1>11, <1>12, <1>13, <1>14, <1>15, <1>16, <1>17, <1>18, <1>19, <1>20, <1>21, <1>22, <1>23, <1>24, <1>25, <1>26, <1>27, <1>28, <1>29, <1>30, <1>31, <1>32, <1>33, <1>34, <1>35, <1>36, <1>37, <1>38, <1>39, <1>40
       DEF Next, Engine, Connection, Replay, Proceed, EndPause, StoreCopy

-----------------------------------------------------------------------------
(* The capture list, step by step.                                         *)

\* Start, Clear and begin_exchange alone change the list or its limit.
LEMMA ListChanges ==
  [Next]_vars => \/ Start \/ Clear \/ \E c \in Conns : Begin(c)
                 \/ UNCHANGED <<cfg, traffic>>
  <1> SUFFICES ASSUME [Next]_vars, ~Start, ~Clear, \A c \in Conns : ~Begin(c)
               PROVE  UNCHANGED <<cfg, traffic>>
    OBVIOUS
  <1> USE DEF lifecycle, tables
  <1>1. CASE Engine
    BY <1>1 DEF Engine, ShutdownSignal, AcceptFails, LeaveLoop, LoopEnds, Stop, StopReturns
  <1>2. ASSUME NEW c \in Conns, Connection(c) PROVE UNCHANGED <<cfg, traffic>>
    <2>1. CASE Accept(c) \/ Reap(c) \/ Authenticate(c) \/ Proceed(c)
      BY <2>1 DEF Accept, Reap, Authenticate, Proceed, RefuseReplay, ArmBreakpoint,
                  ContinueUnchanged, Continue, Respond, RecheckResponse
    <2>2. CASE UpstreamFails(c) \/ SendRequest(c) \/ ResponseHead(c) \/ TakeSender(c)
               \/ SendDecision(c) \/ EndPause(c)
      BY <2>2 DEF UpstreamFails, SendRequest, ResponseHead, TakeSender, SendDecision,
                  EndPause, ReceiveDecision, SenderDropped, PauseElapses, Continue
    <2>3. CASE StoreReplacement(c) \/ RecordResponse(c) \/ EndBody(c) \/ RequestTimesOut(c)
               \/ Abort(c) \/ Disconnect(c) \/ DropExchange(c)
      BY <2>3 DEF StoreReplacement, RecordResponse, EndBody, RequestTimesOut, Abort,
                  Disconnect, Dropped, DropExchange
    <2>4. CASE FinishCapture(c) \/ LoseCapture(c) \/ RequestBodyFails(c) \/ StoreCopy(c)
      BY <2>4 DEF FinishCapture, LoseCapture, RequestBodyFails, StoreCopy, StoreRequest,
                  RecheckRequest
    <2> QED
      BY <1>2, <2>1, <2>2, <2>3, <2>4 DEF Connection
  <1>3. ASSUME NEW c \in Replays, Replay(c) PROVE UNCHANGED <<cfg, traffic>>
    BY <1>3 DEF Replay, CheckReplay, DispatchReplay, ReplayReturns
  <1>4. CASE UNCHANGED vars
    BY <1>4 DEF vars
  <1> QED
    BY <1>1, <1>2, <1>3, <1>4 DEF Next

\* A step keeps the list bounded and in order, and evicts its oldest part.
LEMMA ListStep == TypeOK /\ RetentionBound /\ [Next]_vars => RetentionBound' /\ EvictsOldest
  <1> SUFFICES ASSUME TypeOK, RetentionBound, [Next]_vars
               PROVE  RetentionBound' /\ EvictsOldest
    OBVIOUS
  <1>1. CASE Start
    <2>1. PICK new \in Configs : cfg' = new /\ traffic' = Trimmed(new.limit)
      BY <1>1 DEF Start
    <2>2. new.limit \in Nat \ {0}
      BY ConfigsAssumption DEF Config
    <2> QED
      BY <2>1, <2>2, TrimmedList DEF RetentionBound, EvictsOldest, Ids
  <1>2. CASE Clear
    <2>1. traffic' = <<>> /\ <<>> \in Seq(Nat) /\ Len(<<>>) = 0 /\ cfg' = cfg
      BY <1>2, EmptySeq DEF Clear, lifecycle
    <2>2. Range(<<>>) = {<<>>[i] : i \in 1..0}
      BY <2>1, RangeOfList
    <2>3. Ids' = {}
      BY <2>1, <2>2 DEF Ids
    <2>4. cfg.limit \in Nat \ {0}
      BY ConfigInUse DEF Config
    <2> QED
      BY <2>1, <2>3, <2>4 DEF RetentionBound, EvictsOldest, Increasing
  <1>3. ASSUME NEW c \in Conns, Begin(c) PROVE RetentionBound' /\ EvictsOldest
    <2>1. traffic' = Append(Room, next_id) /\ cfg' = cfg
      BY <1>3 DEF Begin, FreshId, lifecycle
    <2>2. next_id \in Nat \ {0} /\ Ids \subseteq 1..(next_id - 1) /\ cfg.limit \in Nat \ {0}
      BY ConfigInUse DEF TypeOK, Config
    <2>3. /\ Room \in Seq(Nat) /\ Len(Room) < cfg.limit /\ Increasing(Room)
          /\ Range(Room) \subseteq Ids
          /\ \A x \in Ids \ Range(Room), y \in Range(Room) : x < y
      BY RoomList
    <2>4. \A x \in Ids : x < next_id
      BY <2>2
    <2>5. /\ Len(traffic') = Len(Room) + 1
          /\ Increasing(traffic')
          /\ Ids' = Range(Room) \cup {next_id}
      BY <2>1, <2>2, <2>3, <2>4, AppendToList DEF Ids
    <2>6. Len(Room) \in Nat
      BY <2>3, LenProperties
    <2>7. RetentionBound'
      BY <2>1, <2>2, <2>3, <2>5, <2>6 DEF RetentionBound
    <2>8. EvictsOldest
      BY <2>3, <2>4, <2>5 DEF EvictsOldest
    <2> QED
      BY <2>7, <2>8
  <1>4. CASE UNCHANGED <<cfg, traffic>>
    BY <1>4 DEF RetentionBound, EvictsOldest, Ids
  <1> QED
    BY <1>1, <1>2, <1>3, <1>4, ListChanges

LEMMA ListInit == Init => RetentionBound
  <1> SUFFICES ASSUME Init PROVE RetentionBound
    OBVIOUS
  <1>1. Len(traffic) = 0 /\ cfg.limit = 200
    BY EmptySeq DEF Init, InitialConfig
  <1> QED
    BY <1>1 DEF RetentionBound, Increasing

\* The inductive invariant of the list: its types, its length and its order.
LEMMA ListInvariant == Spec => [](TypeOK /\ RetentionBound)
  <1>1. Init => TypeOK /\ RetentionBound
    BY TypeInit, ListInit
  <1>2. TypeOK /\ RetentionBound /\ [Next]_vars => TypeOK' /\ RetentionBound'
    BY TypeStep, ListStep
  <1> QED
    BY <1>1, <1>2, PTL DEF Spec

(* Every variable keeps its type, for any set of connections, targets,     *)
(* profiles and configurations, however often the engine is restarted.     *)
THEOREM TypeCorrect == Spec => []TypeOK
  BY ListInvariant, PTL

(* begin_exchange and Start keep the list within the limit of the current  *)
(* run and in order of id, also when the limit shrinks between two runs.   *)
THEOREM RetentionAlways == Spec => []RetentionBound
  BY ListInvariant, PTL

(* Evictions (begin_exchange, Start) take the oldest captures.             *)
THEOREM OldestFirstAlways == Spec => OldestFirst
  <1>1. TypeOK /\ RetentionBound /\ [Next]_vars => [EvictsOldest]_vars
    BY ListStep
  <1> QED
    BY <1>1, ListInvariant, PTL DEF Spec, OldestFirst, EvictsOldest

-----------------------------------------------------------------------------
(* The accept loop and the connections it serves.                          *)

\* The loop joins every connection task, and says that it is stopped after the
\* last one.
Joined ==
  /\ Serving \subseteq live
  /\ phase = "stopped" => task \in {"none", "ended"}
  /\ task \in {"none", "ended"} => live = {}
  /\ Cardinality(live) <= cfg.connections

LEMMA LiveFinite == ASSUME TypeOK PROVE IsFiniteSet(live) /\ Cardinality(live) \in Nat
  <1>1. IsFiniteSet(Conns)
    BY ConnsAssumption, FS_Union DEF Conns
  <1>2. live \subseteq Conns
    BY DEF TypeOK
  <1> QED
    BY <1>1, <1>2, FS_Subset, FS_CardinalityType

LEMMA JoinedInit == Init => Joined
  BY FS_EmptySet DEF Init, InitialConfig, Joined, Serving

\* A step that serves nobody new and leaves the loop alone.
LEMMA JoinedQuiet ==
  ASSUME TypeOK, Joined, UNCHANGED <<cfg, phase, task, live>>, Serving' \subseteq Serving
  PROVE  Joined'
  BY DEF Joined

\* A connection that is served goes on, one that is not is left alone.
LEMMA ServingQuiet ==
  ASSUME TypeOK, NEW c \in Conns, NEW label \in Phase, Goto(c, label),
         c \in Serving \/ label \in {"dropping", "done"}
  PROVE  Serving' \subseteq Serving
  <1>1. /\ pc \in [Conns -> Phase]
        /\ pc' = [pc EXCEPT ![c] = label]
    BY DEF TypeOK, Goto
  <1> QED
    BY <1>1 DEF Serving

LEMMA JoinedStep == TypeOK /\ Joined /\ [Next]_vars => Joined'
  <1> SUFFICES ASSUME TypeOK, Joined, [Next]_vars PROVE Joined'
    OBVIOUS
  <1> USE DEF lifecycle
  <1>1. CASE Start
    <2>1. PICK new \in Configs : cfg' = new
      BY <1>1 DEF Start
    <2>2. new.connections \in Nat \ {0}
      BY ConfigsAssumption DEF Config
    <2>3. task = "none" /\ live = {} /\ live' = {} /\ pc' = pc
      BY <1>1 DEF Start, NoLoop, Joined
    <2>4. Cardinality(live') = 0
      BY <2>3, FS_EmptySet
    <2> QED
      BY <1>1, <2>1, <2>2, <2>3, <2>4 DEF Start, Joined, Serving
  <1>2. CASE ShutdownSignal \/ AcceptFails
    BY <1>2 DEF ShutdownSignal, AcceptFails, LeaveLoop, Joined, Serving
  <1>3. CASE LoopEnds
    BY <1>3 DEF LoopEnds, AllJoined, Joined, Serving
  <1>4. CASE Stop \/ StopReturns \/ Clear
    BY <1>4 DEF Stop, StopReturns, Clear, Joined, Serving
  <1>5. ASSUME NEW c \in Conns, Accept(c) PROVE Joined'
    <2>1. UNCHANGED <<cfg, phase, task>> /\ task = "accepting" /\ phase # "stopped"
      BY <1>5 DEF Accept, Joined
    <2>2. CASE AtCap
      <3>1. Goto(c, "done") /\ UNCHANGED live
        BY <1>5, <2>2 DEF Accept
      <3> QED
        BY <2>1, <3>1, ServingQuiet, JoinedQuiet DEF Phase
    <2>3. CASE ~AtCap
      <3>1. pc' = [pc EXCEPT ![c] = "served"] /\ live' = live \cup {c}
        BY <1>5, <2>3 DEF Accept, Goto
      <3>2. Serving' \subseteq Serving \cup {c}
        BY <3>1 DEF Serving, TypeOK
      <3>3. Cardinality(live) < cfg.connections
        <4>1. cfg.connections \in Nat
          BY ConfigInUse DEF Config
        <4> QED
          BY <2>3, <4>1, LiveFinite DEF AtCap
      <3>4. Cardinality(live') \in {Cardinality(live), Cardinality(live) + 1}
        BY <3>1, LiveFinite, FS_AddElement
      <3>5. Cardinality(live') <= cfg.connections
        <4>1. cfg.connections \in Nat
          BY ConfigInUse DEF Config
        <4> QED
          BY <3>3, <3>4, <4>1, LiveFinite
      <3> QED
        BY <2>1, <3>1, <3>2, <3>5 DEF Joined
    <2> QED
      BY <2>2, <2>3
  <1>6. ASSUME NEW c \in Conns, Reap(c) PROVE Joined'
    <2>1. /\ UNCHANGED <<cfg, phase, task, pc>> /\ task \in {"accepting", "draining"}
          /\ live' = live \ {c} /\ c \notin Serving
      BY <1>6 DEF Reap, Serving
    <2>2. Cardinality(live') <= Cardinality(live) /\ Cardinality(live') \in Nat
      <3>1. live' \subseteq live
        BY <2>1
      <3> QED
        BY <3>1, LiveFinite, FS_Subset, FS_CardinalityType
    <2>3. cfg.connections \in Nat
      BY ConfigInUse DEF Config
    <2>4. Cardinality(live') <= cfg.connections
      BY <2>2, <2>3, LiveFinite DEF Joined
    <2> QED
      BY <2>1, <2>4 DEF Joined, Serving
  <1>7. ASSUME NEW c \in Conns, Authenticate(c) PROVE Joined'
    <2>1. UNCHANGED <<cfg, phase, task, live>> /\ c \in Serving
      BY <1>7 DEF Authenticate, Serving
    <2>2. \E label \in Phase : Goto(c, label)
      BY <1>7 DEF Authenticate, Phase
    <2> QED
      BY <2>1, <2>2, ServingQuiet, JoinedQuiet
  <1>8. ASSUME NEW c \in Conns, RefuseReplay(c) \/ Begin(c) \/ ArmBreakpoint(c) PROVE Joined'
    <2>1. UNCHANGED <<cfg, phase, task, live>> /\ c \in Serving
      BY <1>8 DEF RefuseReplay, Begin, ArmBreakpoint, Serving
    <2>2. \E label \in Phase : Goto(c, label)
      BY <1>8 DEF RefuseReplay, Begin, ArmBreakpoint, Phase
    <2> QED
      BY <2>1, <2>2, ServingQuiet, JoinedQuiet
  <1>9. ASSUME NEW c \in Conns, ContinueUnchanged(c) \/ Respond(c) \/ RecheckResponse(c) PROVE Joined'
    <2>1. UNCHANGED <<cfg, phase, task, live>> /\ c \in Serving
      BY <1>9 DEF ContinueUnchanged, Continue, Respond, RecheckResponse, Serving
    <2>2. \E label \in Phase : Goto(c, label)
      BY <1>9 DEF ContinueUnchanged, Continue, Respond, RecheckResponse, Phase
    <2> QED
      BY <2>1, <2>2, ServingQuiet, JoinedQuiet
  <1>10. ASSUME NEW c \in Conns, UpstreamFails(c) \/ SendRequest(c) \/ ResponseHead(c) \/ EndPause(c) PROVE Joined'
    <2>1. UNCHANGED <<cfg, phase, task, live>> /\ c \in Serving
      BY <1>10 DEF UpstreamFails, SendRequest, ResponseHead, EndPause, ReceiveDecision, SenderDropped, PauseElapses, Continue, Serving
    <2>2. \E label \in Phase : Goto(c, label)
      BY <1>10 DEF UpstreamFails, SendRequest, ResponseHead, EndPause, ReceiveDecision, SenderDropped, PauseElapses, Continue, Phase
    <2> QED
      BY <2>1, <2>2, ServingQuiet, JoinedQuiet
  <1>11. ASSUME NEW c \in Conns, StoreReplacement(c) \/ RecordResponse(c) \/ EndBody(c) PROVE Joined'
    <2>1. UNCHANGED <<cfg, phase, task, live>> /\ c \in Serving
      BY <1>11 DEF StoreReplacement, RecordResponse, EndBody, Serving
    <2>2. \E label \in Phase : Goto(c, label)
      BY <1>11 DEF StoreReplacement, RecordResponse, EndBody, Phase
    <2> QED
      BY <2>1, <2>2, ServingQuiet, JoinedQuiet
  <1>12. ASSUME NEW c \in Conns, RequestTimesOut(c) \/ Abort(c) \/ Disconnect(c) PROVE Joined'
    <2>1. UNCHANGED <<cfg, phase, task, live>> /\ c \in Serving
      BY <1>12 DEF RequestTimesOut, Abort, Disconnect, Dropped, Awaiting, Suspended, Serving
    <2>2. \E label \in Phase : Goto(c, label)
      BY <1>12 DEF RequestTimesOut, Abort, Disconnect, Dropped, Awaiting, Suspended, Phase
    <2> QED
      BY <2>1, <2>2, ServingQuiet, JoinedQuiet
  <1>13. ASSUME NEW c \in Conns, DropExchange(c) PROVE Joined'
    BY <1>13, ServingQuiet, JoinedQuiet DEF DropExchange, Phase
  <1>14. ASSUME NEW c \in Conns,
                \/ TakeSender(c) \/ SendDecision(c) \/ FinishCapture(c) \/ LoseCapture(c)
                \/ RequestBodyFails(c) \/ StoreCopy(c)
         PROVE  Joined'
    BY <1>14 DEF TakeSender, SendDecision, FinishCapture, LoseCapture, RequestBodyFails,
                 StoreCopy, StoreRequest, RecheckRequest, Joined, Serving
  <1>15. ASSUME NEW c \in Replays, Replay(c) PROVE Joined'
    BY <1>15 DEF Replay, CheckReplay, DispatchReplay, ReplayReturns, Joined, Serving
  <1>16. CASE UNCHANGED vars
    BY <1>16 DEF vars, Joined, Serving
  <1> QED
    BY <1>1, <1>2, <1>3, <1>4, <1>5, <1>6, <1>7, <1>8, <1>9, <1>10, <1>11, <1>12, <1>13, <1>14, <1>15, <1>16
       DEF Next, Engine, Connection, Proceed

LEMMA JoinedAlways == Spec => [](TypeOK /\ Joined)
  BY TypeCorrect, JoinedInit, JoinedStep, PTL DEF Spec

LEMMA CapOfJoined == ASSUME TypeOK, Joined PROVE ConnectionCap
  <1>1. CASE phase = "stopped"
    <2>1. Serving = {}
      BY <1>1 DEF Joined
    <2>2. Cardinality(Serving) = 0
      BY <2>1, FS_EmptySet
    <2> QED
      BY <1>1, <2>2 DEF ConnectionCap
  <1>2. CASE phase # "stopped"
    <2>1. Cardinality(Serving) <= Cardinality(live) /\ Cardinality(Serving) \in Nat
      BY LiveFinite, FS_Subset, FS_CardinalityType DEF Joined
    <2>2. cfg.connections \in Nat
      BY ConfigInUse DEF Config
    <2>3. Cardinality(live) <= cfg.connections
      BY DEF Joined
    <2> QED
      BY <1>2, <2>1, <2>2, <2>3, LiveFinite DEF ConnectionCap
  <1> QED
    BY <1>1, <1>2

(* No more connections are served at once than the run allows, across any  *)
(* sequence of runs with different caps, and a stopped engine serves       *)
(* nobody: every connection task was joined before the phase changed.      *)
THEOREM ConnectionCapAlways == Spec => []ConnectionCap
  BY CapOfJoined, JoinedAlways, PTL

-----------------------------------------------------------------------------
(* Who may modify a response.                                              *)

\* No two exchanges share an id; one that has none yet has chosen and applied
\* nothing; and whatever a rule or a user may still change belongs to an
\* exchange whose capture is a Development one.
Entering == {"closed", "served", "admitted"}

OwnIds == \A c, d \in Conns : id[c] = id[d] /\ id[c] # 0 => c = d

Untouched ==
  \A c \in Conns : pc[c] \in Entering => rule[c] = "none" /\ channel[c] = "none" /\ ~applied[c]

Permitted ==
  \A c \in Conns :
    /\ rule[c] # "none" \/ channel[c] # "none" \/ applied[c] => capture[c].class = Development
    /\ id[c] # 0 /\ id[c] \in breakpoints => channel[c] # "none"

Owned == OwnIds /\ Untouched /\ Permitted

SameClass == \A c \in Conns : capture'[c].class = capture[c].class

\* A step that registers no decision, applies none and chooses no rule.
LEMMA OwnedQuiet ==
  ASSUME Owned, SameClass, UNCHANGED <<id, rule, channel, applied>>,
         breakpoints' \subseteq breakpoints,
         \A c \in Conns : pc'[c] \in Entering => pc[c] \in Entering
  PROVE  Owned'
  BY DEF Owned, OwnIds, Untouched, Permitted, SameClass

\* update() never touches the class.
LEMMA UpdateClass ==
  ASSUME TypeOK, NEW c \in Conns, NEW new \in Capture, Update(c, new),
         new.class = capture[c].class
  PROVE  SameClass
  BY DEF Update, SameClass, TypeOK

LEMMA EditClass ==
  ASSUME NEW old \in Capture
  PROVE  /\ \A x : [old EXCEPT !.body = x].class = old.class
         /\ \A x : [old EXCEPT !.rule = x].class = old.class
         /\ \A x : [old EXCEPT !.breakpoint = x].class = old.class
         /\ \A x : [old EXCEPT !.profile = x].class = old.class
         /\ \A x \in {"complete", "error"} : Finished(old, x).class = old.class
  BY DEF Capture, Finished

LEMMA GoOn ==
  ASSUME TypeOK, NEW c \in Conns, NEW label \in Phase \ Entering, Goto(c, label)
  PROVE  \A d \in Conns : pc'[d] \in Entering => pc[d] \in Entering
  BY DEF TypeOK, Goto

LEMMA OwnedInit == Init => Owned
  BY DEF Init, Owned, OwnIds, Untouched, Permitted

LEMMA OwnedStep == TypeOK /\ Owned /\ [Next]_vars => Owned'
  <1> SUFFICES ASSUME TypeOK, Owned, [Next]_vars PROVE Owned'
    OBVIOUS
  <1> USE DEF lifecycle, tables, channels, replaying
  <1>1. CASE Engine
    <2>1. /\ UNCHANGED <<pc, id, capture, rule, channel, applied>>
          /\ breakpoints' \subseteq breakpoints
      BY <1>1 DEF Engine, Start, Forget, ShutdownSignal, AcceptFails, LeaveLoop, LoopEnds,
                  Stop, StopReturns, Clear
    <2> QED
      BY <2>1, OwnedQuiet DEF SameClass
  <1>2. ASSUME NEW c \in Conns, Accept(c) PROVE Owned'
    <2>1. UNCHANGED <<id, capture, rule, channel, applied, breakpoints>> /\ pc[c] = "closed"
          /\ \E label \in Phase : Goto(c, label)
      BY <1>2 DEF Accept, Phase
    <2>2. \A d \in Conns : pc'[d] \in Entering => pc[d] \in Entering
      BY <2>1 DEF TypeOK, Goto, Entering
    <2> QED
      BY <2>1, <2>2, OwnedQuiet DEF SameClass
  <1>3. ASSUME NEW c \in Conns, Reap(c) \/ DispatchReplay(c) \/ ReplayReturns(c)
               \/ FinishCapture(c) \/ LoseCapture(c) \/ RecheckRequest(c)
        PROVE  Owned'
    BY <1>3, OwnedQuiet DEF Reap, DispatchReplay, ReplayReturns, FinishCapture, LoseCapture,
                            RecheckRequest, SameClass
  <1>4. ASSUME NEW c \in Conns, Authenticate(c) PROVE Owned'
    <2>1. UNCHANGED <<id, rule, channel, applied, breakpoints>> /\ pc[c] = "served"
          /\ \E label \in Phase : Goto(c, label)
      BY <1>4 DEF Authenticate, Phase
    <2>2. capture' = capture \/ capture' = [capture EXCEPT ![c].profile = cfg.auth]
      BY <1>4 DEF Authenticate
    <2>3. SameClass
      <3>1. capture \in [Conns -> Capture]
        BY DEF TypeOK
      <3>2. [capture[c] EXCEPT !.profile = cfg.auth].class = capture[c].class
        BY <3>1, EditClass
      <3> QED
        BY <2>2, <3>1, <3>2 DEF SameClass
    <2>4. \A d \in Conns : pc'[d] \in Entering => pc[d] \in Entering
      BY <2>1 DEF TypeOK, Goto, Entering
    <2> QED
      BY <2>1, <2>3, <2>4, OwnedQuiet
  <1>5. ASSUME NEW c \in Conns, RefuseReplay(c) \/ RecordResponse(c) \/ RecheckResponse(c)
               \/ PauseElapses(c) \/ Abort(c) \/ Disconnect(c)
        PROVE  Owned'
    <2>1. UNCHANGED <<id, capture, rule, channel, applied, breakpoints>>
          /\ \E label \in Phase \ Entering : Goto(c, label)
      BY <1>5 DEF RefuseReplay, RecordResponse, RecheckResponse, PauseElapses, Abort,
                  Disconnect, Dropped, Phase, Entering
    <2> QED
      BY <2>1, GoOn, OwnedQuiet DEF SameClass
  <1>6. ASSUME NEW c \in Conns, Begin(c) PROVE Owned'
    <2>1. /\ pc[c] \in Entering /\ Goto(c, "connecting")
          /\ id' = [id EXCEPT ![c] = next_id]
          /\ breakpoints' \subseteq breakpoints
          /\ UNCHANGED <<rule, channel, applied>>
          /\ capture' = [capture EXCEPT
               ![c].class = cfg.class[target[c]],
               ![c].replay_of = IF marked[c] THEN origin[c] ELSE 0]
      BY <1>6 DEF Begin, Forget, FreshId, Entering
    <2>2. /\ next_id \in Nat \ {0}
          /\ id \in [Conns -> 0..(next_id - 1)] /\ breakpoints \subseteq 1..(next_id - 1)
      BY DEF TypeOK
    <2>3. /\ \A d \in Conns \ {c} : id'[d] = id[d] /\ capture'[d] = capture[d]
          /\ id'[c] = next_id
      BY <2>1, <2>2 DEF TypeOK
    <2>4. next_id \notin breakpoints' /\ \A d \in Conns : id[d] # next_id
      BY <2>1, <2>2
    <2>5. OwnIds'
      BY <2>3, <2>4 DEF Owned, OwnIds
    <2>6. \A d \in Conns : pc'[d] \in Entering => pc[d] \in Entering
      BY <2>1, GoOn DEF Phase, Entering
    <2>7. Untouched'
      BY <2>1, <2>6 DEF Owned, Untouched
    <2>8. Permitted'
      BY <2>1, <2>3, <2>4 DEF Owned, Untouched, Permitted
    <2> QED
      BY <2>5, <2>7, <2>8 DEF Owned
  <1>7. ASSUME NEW c \in Conns, UpstreamFails(c) \/ RequestTimesOut(c) \/ DropExchange(c)
               \/ StoreReplacement(c) \/ EndBody(c)
        PROVE  Owned'
    <2>1. UNCHANGED <<id, rule, channel, applied, breakpoints>>
          /\ \E label \in Phase \ Entering : Goto(c, label)
      BY <1>7 DEF UpstreamFails, RequestTimesOut, DropExchange, StoreReplacement, EndBody,
                  Phase, Entering
    <2>2. \E outcome \in {"complete", "error"} : Update(c, Finished(capture[c], outcome))
      BY <1>7 DEF UpstreamFails, RequestTimesOut, DropExchange, StoreReplacement, EndBody
    <2>3. SameClass
      BY <2>2, FinishedType, EditClass, UpdateClass DEF TypeOK
    <2> QED
      BY <2>1, <2>3, GoOn, OwnedQuiet
  <1>8. ASSUME NEW c \in Conns, Respond(c) PROVE Owned'
    <2>1. UNCHANGED <<id, rule, channel, applied, breakpoints>>
          /\ \E label \in Phase \ Entering : Goto(c, label)
      BY <1>8 DEF Respond, Phase, Entering
    <2>2. capture' = capture \/ Update(c, Finished(capture[c], "complete"))
      BY <1>8 DEF Respond
    <2>3. SameClass
      BY <2>2, FinishedType, EditClass, UpdateClass DEF TypeOK, SameClass
    <2> QED
      BY <2>1, <2>3, GoOn, OwnedQuiet
  <1>9. ASSUME NEW c \in Conns, SendRequest(c) PROVE Owned'
    <2>1. UNCHANGED <<id, rule, channel, applied, breakpoints>> /\ Goto(c, "sending")
      BY <1>9 DEF SendRequest
    <2>2. capture[c].body \in {"disabled", "empty", "recording", "unavailable", "complete"}
      BY DEF TypeOK, Capture
    <2>3. \E x \in {"disabled", "empty", "recording", "unavailable", "complete"} :
            Update(c, [capture[c] EXCEPT !.body = x])
      BY <1>9, <2>2 DEF SendRequest
    <2>4. SameClass
      BY <2>3, EditType, EditClass, UpdateClass DEF TypeOK
    <2> QED
      BY <2>1, <2>4, GoOn, OwnedQuiet DEF Phase, Entering
  <1>10. ASSUME NEW c \in Conns, StoreRequest(c) PROVE Owned'
    <2>1. UNCHANGED <<id, rule, channel, applied, breakpoints, pc>>
      BY <1>10 DEF StoreRequest
    <2>2. \E x \in {"complete", "unavailable"} : Update(c, [capture[c] EXCEPT !.body = x])
      BY <1>10 DEF StoreRequest
    <2>3. SameClass
      BY <2>2, EditType, EditClass, UpdateClass DEF TypeOK
    <2> QED
      BY <2>1, <2>3, OwnedQuiet
  <1>18. ASSUME NEW c \in Conns, RequestBodyFails(c) PROVE Owned'
    <2>1. UNCHANGED <<id, rule, channel, applied, breakpoints, pc>>
      BY <1>18 DEF RequestBodyFails
    <2>2. Update(c, Finished(capture[c], "error"))
      BY <1>18 DEF RequestBodyFails
    <2>3. SameClass
      BY <2>2, FinishedType, EditClass, UpdateClass DEF TypeOK
    <2> QED
      BY <2>1, <2>3, OwnedQuiet
  <1>11. ASSUME NEW c \in Conns, ResponseHead(c) PROVE Owned'
    <2> DEFINE chosen == IF MayModify(c) THEN cfg.rule[target[c]] ELSE "none"
    <2>1. /\ UNCHANGED <<id, channel, applied, breakpoints>> /\ Goto(c, "headed")
          /\ rule' = [rule EXCEPT ![c] = chosen]
          /\ Update(c, [capture[c] EXCEPT !.rule = chosen])
      BY <1>11 DEF ResponseHead
    <2>2. chosen \in RuleKind
      BY ConfigInUse DEF TypeOK, Config, RuleKind
    <2>3. chosen # "none" => capture[c].class = Development
      BY DEF MayModify, authorize
    <2> HIDE DEF chosen
    <2>4. SameClass
      BY <2>1, <2>2, EditType, EditClass, UpdateClass DEF TypeOK
    <2>5. \A d \in Conns : pc'[d] \in Entering => d # c /\ pc[d] \in Entering
      BY <2>1 DEF TypeOK, Goto, Entering
    <2>6. \A d \in Conns : rule'[d] = IF d = c THEN chosen ELSE rule[d]
      BY <2>1 DEF TypeOK
    <2> QED
      BY <2>1, <2>3, <2>4, <2>5, <2>6 DEF Owned, OwnIds, Untouched, Permitted, SameClass
  <1>12. ASSUME NEW c \in Conns, ArmBreakpoint(c) PROVE Owned'
    <2>1. UNCHANGED <<id, rule, applied>> /\ \E label \in Phase \ Entering : Goto(c, label)
      BY <1>12 DEF ArmBreakpoint, Phase, Entering
    <2>2. CASE cfg.pause /\ MayModify(c)
      <3>1. /\ breakpoints' = breakpoints \cup {id[c]}
            /\ channel' = [channel EXCEPT ![c] = "open"]
            /\ Update(c, [capture[c] EXCEPT !.breakpoint = "waiting"])
            /\ Goto(c, "paused")
        BY <1>12, <2>2 DEF ArmBreakpoint
      <3>2. capture[c].class = Development
        BY <2>2 DEF MayModify, authorize
      <3>3. SameClass
        BY <3>1, EditType, EditClass, UpdateClass DEF TypeOK
      <3>4. \A d \in Conns : pc'[d] \in Entering => d # c /\ pc[d] \in Entering
        BY <3>1 DEF TypeOK, Goto, Entering
      <3>5. \A d \in Conns : channel'[d] = IF d = c THEN "open" ELSE channel[d]
        BY <3>1 DEF TypeOK
      <3>6. \A d \in Conns : id[d] # 0 /\ id[d] \in breakpoints' => d = c \/ id[d] \in breakpoints
        BY <3>1 DEF Owned, OwnIds
      <3> QED
        BY <2>1, <3>2, <3>3, <3>4, <3>5, <3>6 DEF Owned, OwnIds, Untouched, Permitted, SameClass
    <2>3. CASE ~(cfg.pause /\ MayModify(c))
      BY <1>12, <2>1, <2>3, GoOn, OwnedQuiet DEF ArmBreakpoint, SameClass
    <2> QED
      BY <2>2, <2>3
  <1>13. ASSUME NEW c \in Conns, TakeSender(c) PROVE Owned'
    <2>1. /\ UNCHANGED <<id, pc, rule, applied, capture>>
          /\ breakpoints' = breakpoints \ {id[c]}
          /\ id[c] \in breakpoints
          /\ channel' = [channel EXCEPT ![c] = "held"]
      BY <1>13 DEF TakeSender
    <2>2. id[c] # 0
      BY <2>1 DEF TypeOK
    <2>3. channel[c] # "none"
      BY <2>1, <2>2 DEF Owned, Permitted
    <2>4. \A d \in Conns : channel'[d] = IF d = c THEN "held" ELSE channel[d]
      BY <2>1 DEF TypeOK
    <2> QED
      BY <2>1, <2>3, <2>4 DEF Owned, OwnIds, Untouched, Permitted
  <1>14. ASSUME NEW c \in Conns, SendDecision(c) PROVE Owned'
    <2>1. UNCHANGED <<id, pc, rule, applied, capture, breakpoints>> /\ channel[c] # "none"
      BY <1>14 DEF SendDecision
    <2>2. /\ \A d \in Conns \ {c} : channel'[d] = channel[d]
          /\ channel'[c] # "none"
      BY <1>14 DEF SendDecision, TypeOK
    <2> QED
      BY <2>1, <2>2 DEF Owned, OwnIds, Untouched, Permitted
  <1>15. ASSUME NEW c \in Conns, EndPause(c) \/ ContinueUnchanged(c),
                ~PauseElapses(c)
         PROVE  Owned'
    <2>1. /\ UNCHANGED <<id, rule, channel>> /\ Goto(c, "responding")
          /\ breakpoints' \subseteq breakpoints
          /\ \/ applied' = applied
             \/ channel[c] # "none" /\ applied' = [applied EXCEPT ![c] = TRUE]
      BY <1>15 DEF EndPause, ReceiveDecision, SenderDropped, ContinueUnchanged, Continue
    <2>2. \E x \in {"modified", "continued", "timed_out"} :
            Update(c, [capture[c] EXCEPT !.breakpoint = x])
      BY <1>15 DEF EndPause, ReceiveDecision, SenderDropped, ContinueUnchanged, Continue
    <2>3. SameClass
      BY <2>2, EditType, EditClass, UpdateClass DEF TypeOK
    <2>4. \A d \in Conns : pc'[d] \in Entering => d # c /\ pc[d] \in Entering
      BY <2>1 DEF TypeOK, Goto, Entering
    <2>5. \A d \in Conns : applied'[d] = applied[d] \/ (d = c /\ channel[c] # "none")
      BY <2>1 DEF TypeOK
    <2> QED
      BY <2>1, <2>3, <2>4, <2>5 DEF Owned, OwnIds, Untouched, Permitted, SameClass
  <1>16. ASSUME NEW c \in Replays, CheckReplay(c) PROVE Owned'
    <2>1. /\ UNCHANGED <<id, pc, rule, channel, applied, breakpoints>>
          /\ \E o \in Conns : capture' = [capture EXCEPT ![c].profile = capture[o].profile]
      BY <1>16 DEF CheckReplay
    <2>2. SameClass
      BY <2>1 DEF SameClass, TypeOK, Capture
    <2> QED
      BY <2>1, <2>2, OwnedQuiet
  <1>17. CASE UNCHANGED vars
    BY <1>17, OwnedQuiet DEF vars, SameClass
  <1> QED
    BY <1>1, <1>2, <1>3, <1>4, <1>5, <1>6, <1>7, <1>8, <1>9, <1>10, <1>11, <1>12, <1>13, <1>14, <1>15, <1>16, <1>17,
       <1>18
       DEF Next, Connection, Replay, Proceed, EndPause, StoreCopy, Conns

(* Rules and breakpoints change responses of Development destinations      *)
(* only, whatever Clear, evictions, restarts and late decisions do.        *)
THEOREM ModifyAlways == Spec => []ModifyOnlyDevelopment
  <1>1. Spec => []Owned
    BY TypeCorrect, OwnedInit, OwnedStep, PTL DEF Spec
  <1>2. Owned => ModifyOnlyDevelopment
    BY DEF Owned, Permitted, ModifyOnlyDevelopment
  <1> QED
    BY <1>1, <1>2, PTL
=============================================================================
