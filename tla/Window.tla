------------------------------- MODULE Window -------------------------------
(***************************************************************************)
(* What the window shows of the engine: the revision counter (proxy.rs),   *)
(* the loop that turns its changes into engine-changed events (main.rs),   *)
(* and the hook that answers them with snapshots (engine.ts), next to the  *)
(* snapshots that commands return.                                         *)
(*                                                                         *)
(* What there is to see is counted: news is the number of visible changes  *)
(* the engine has made, and a snapshot shows the first so many of them.    *)
(* Most changes are made under the lock together with their revision; those*)
(* of an exchange (Exchange::update) are not, and finish() advances the    *)
(* revision after them.  Answers of Tauri arrive in any order.             *)
(***************************************************************************)
EXTENDS Naturals

CONSTANTS
  Exchanges,   \* exchanges of the engine
  Fetches,     \* engine_snapshot calls that may be unanswered at once
  MaxMounts,   \* times the hook is mounted (twice under StrictMode)
  MaxSignals,  \* events that may be undelivered at once
  MaxNews,     \* visible changes
  Nothing      \* no snapshot

ASSUME WindowAssumption ==
  /\ MaxMounts \in Nat \ {0} /\ MaxSignals \in Nat /\ MaxNews \in Nat
  /\ Nothing \notin [revision : Nat, news : Nat]

Mounts == 1..MaxMounts

VARIABLES
  news, revision,
  stage,         \* how far each exchange is
  polled,        \* the revision the loop of main() has seen
  signals,       \* engine-changed events that no callback has taken, per mount
  hook,          \* the subscription of each mount
  mounted,       \* the mount that is alive
  fetch,         \* the engine_snapshot calls
  command,       \* the command under way; busy unless idle
  shown,         \* the snapshot in the window
  acknowledged   \* the news of the last command that returned

engine == <<news, revision, stage>>
calls  == <<fetch, command>>
vars == <<engine, polled, signals, hook, mounted, calls, shown, acknowledged>>

Idle == [at |-> "idle", mount |-> 0, snapshot |-> Nothing]
NoCommand == [at |-> "idle", effect |-> 0, snapshot |-> Nothing]

Init ==
  /\ news = 0 /\ revision = 0 /\ polled = 0
  /\ stage = [e \in Exchanges |-> "none"]
  /\ signals = [m \in Mounts |-> 0]
  /\ hook = [m \in Mounts |-> IF m = 1 THEN "subscribing" ELSE "none"]
  /\ mounted = 1
  /\ fetch = [f \in Fetches |-> Idle]
  /\ command = NoCommand
  /\ shown = Nothing
  /\ acknowledged = 0

-----------------------------------------------------------------------------
(* The engine.                                                             *)

More == news < MaxNews /\ news' = news + 1

\* A new limit, a rejected connection, an armed breakpoint, the end of the loop.
Change ==
  /\ More
  /\ revision' = revision + 1
  /\ UNCHANGED <<stage, polled, signals, hook, mounted, calls, shown, acknowledged>>

\* begin_exchange.
Begin(e) ==
  /\ stage[e] = "none"
  /\ stage' = [stage EXCEPT ![e] = "open"]
  /\ More
  /\ revision' = revision + 1
  /\ UNCHANGED <<polled, signals, hook, mounted, calls, shown, acknowledged>>

\* Exchange::update: a head, a rule, the state of a body, bytes.
Note(e) ==
  /\ stage[e] = "open"
  /\ More
  /\ UNCHANGED <<revision, stage, polled, signals, hook, mounted, calls, shown, acknowledged>>

\* finish(), or the end of a pause: the change ...
Settle(e) ==
  /\ stage[e] = "open"
  /\ More
  /\ stage' = [stage EXCEPT ![e] = "telling"]
  /\ UNCHANGED <<revision, polled, signals, hook, mounted, calls, shown, acknowledged>>

\* Drop for Exchange changes nothing when there is an outcome, or no capture.
Drop(e) ==
  /\ stage[e] = "open"
  /\ More \/ UNCHANGED news
  /\ stage' = [stage EXCEPT ![e] = "dropping"]
  /\ UNCHANGED <<revision, polled, signals, hook, mounted, calls, shown, acknowledged>>

\* Slip: an exchange that is dropped tells nobody.
TellUnlessDropped(e) ==
  /\ stage[e] \in {"telling", "dropping"}
  /\ revision' = IF stage[e] = "telling" THEN revision + 1 ELSE revision
  /\ stage' = [stage EXCEPT ![e] = IF @ = "telling" THEN "open" ELSE "done"]
  /\ UNCHANGED <<news, polled, signals, hook, mounted, calls, shown, acknowledged>>

\* ... and, under the lock again, its revision.
Tell(e) ==
  /\ stage[e] \in {"telling", "dropping"}
  /\ revision' = revision + 1
  /\ stage' = [stage EXCEPT ![e] = IF @ = "telling" THEN "open" ELSE "done"]
  /\ UNCHANGED <<news, polled, signals, hook, mounted, calls, shown, acknowledged>>

Snapshot == [revision |-> revision, news |-> news]

-----------------------------------------------------------------------------
(* The loop of main(), every 250 ms.                                       *)

Registered == {m \in Mounts : hook[m] \in {"registered", "live"}}

Poll ==
  /\ revision # polled
  /\ \A m \in Registered : signals[m] < MaxSignals
  /\ polled' = revision
  /\ signals' = [m \in Mounts |-> IF m \in Registered THEN signals[m] + 1 ELSE signals[m]]
  /\ UNCHANGED <<engine, hook, mounted, calls, shown, acknowledged>>

-----------------------------------------------------------------------------
(* useEngine.                                                              *)

\* Slip: whatever arrives is shown.
AcceptAnything(next) == shown' = next

\* accept.
Accept(next) ==
  shown' = IF shown = Nothing THEN next
           ELSE IF next.revision >= shown.revision THEN next ELSE shown

\* refresh.
Refresh(m) ==
  \E f \in Fetches :
    /\ fetch[f].at = "idle"
    /\ fetch' = [fetch EXCEPT ![f] = [at |-> "asked", mount |-> m, snapshot |-> Nothing]]

\* listen() reaches the webview; its promise resolves a little later.
Register(m) ==
  /\ hook[m] = "subscribing"
  /\ hook' = [hook EXCEPT ![m] = "registered"]
  /\ UNCHANGED <<engine, polled, signals, mounted, calls, shown, acknowledged>>

\* Slip: a subscription that resolves late is kept.
KeepLate(m) == hook' = [hook EXCEPT ![m] = "live"] /\ UNCHANGED signals

\* The effect was cleaned up before the promise resolved.
UnlistenLate(m) ==
  /\ hook' = [hook EXCEPT ![m] = "off"]
  /\ signals' = [signals EXCEPT ![m] = 0]

Subscribed(m) ==
  /\ hook[m] = "registered"
  /\ \/ /\ m = mounted
        /\ hook' = [hook EXCEPT ![m] = "live"]
        /\ Refresh(m)
        /\ UNCHANGED signals
     \/ /\ m # mounted
        /\ UnlistenLate(m)
        /\ UNCHANGED fetch
  /\ UNCHANGED <<engine, polled, mounted, command, shown, acknowledged>>

\* The cleanup of one mount and the effect of the next.
Remount ==
  /\ mounted < MaxMounts
  /\ mounted' = mounted + 1
  /\ hook' = [hook EXCEPT ![mounted] = IF @ = "live" THEN "off" ELSE @, ![mounted'] = "subscribing"]
  /\ signals' = [signals EXCEPT ![mounted] = IF hook[mounted] = "live" THEN 0 ELSE @]
  /\ UNCHANGED <<engine, polled, calls, shown, acknowledged>>

\* engine-changed reaches the callback.
Deliver(m) ==
  /\ signals[m] > 0
  /\ signals' = [signals EXCEPT ![m] = @ - 1]
  /\ Refresh(m)
  /\ UNCHANGED <<engine, polled, hook, mounted, command, shown, acknowledged>>

\* engine_snapshot.
Serve(f) ==
  /\ fetch[f].at = "asked"
  /\ fetch' = [fetch EXCEPT ![f].at = "answered", ![f].snapshot = Snapshot]
  /\ UNCHANGED <<engine, polled, signals, hook, mounted, command, shown, acknowledged>>

Arrive(f) ==
  /\ fetch[f].at = "answered"
  /\ fetch' = [fetch EXCEPT ![f] = Idle]
  /\ IF fetch[f].mount = mounted THEN Accept(fetch[f].snapshot) ELSE UNCHANGED shown
  /\ UNCHANGED <<engine, polled, signals, hook, mounted, command, acknowledged>>

-----------------------------------------------------------------------------
(* A command: start_proxy, stop_proxy, clear_traffic and the others.  The  *)
(* window's buttons are disabled while one is under way.                   *)

Click ==
  /\ command.at = "idle"
  /\ command' = [command EXCEPT !.at = "asked"]
  /\ UNCHANGED <<engine, polled, signals, hook, mounted, fetch, shown, acknowledged>>

\* Slip: Clear counts from the beginning.
Restarted == 0

Advanced == revision + 1

Execute ==
  /\ command.at = "asked"
  /\ More
  /\ revision' = Advanced
  /\ command' = [command EXCEPT !.at = "done", !.effect = news']
  /\ UNCHANGED <<stage, polled, signals, hook, mounted, fetch, shown, acknowledged>>

\* Every command takes the lock again for the snapshot it returns.
Answer ==
  /\ command.at = "done"
  /\ command' = [command EXCEPT !.at = "answered", !.snapshot = Snapshot]
  /\ UNCHANGED <<engine, polled, signals, hook, mounted, fetch, shown, acknowledged>>

Fail ==
  /\ command.at = "asked"
  /\ command' = NoCommand
  /\ UNCHANGED <<engine, polled, signals, hook, mounted, fetch, shown, acknowledged>>

Return ==
  /\ command.at = "answered"
  /\ command' = NoCommand
  /\ Accept(command.snapshot)
  /\ acknowledged' = command.effect
  /\ UNCHANGED <<engine, polled, signals, hook, mounted, fetch>>

-----------------------------------------------------------------------------
Next ==
  \/ Change \/ Poll \/ Remount
  \/ Click \/ Execute \/ Answer \/ Fail \/ Return
  \/ \E e \in Exchanges : Begin(e) \/ Note(e) \/ Settle(e) \/ Drop(e) \/ Tell(e)
  \/ \E m \in Mounts : Register(m) \/ Subscribed(m) \/ Deliver(m)
  \/ \E f \in Fetches : Serve(f) \/ Arrive(f)

Spec == Init /\ [][Next]_vars

\* The loop ticks, code that has begun goes on, and Tauri delivers every event,
\* call and answer.  An exchange may stay open for ever.
Fairness ==
  /\ WF_vars(Poll) /\ WF_vars(Answer) /\ WF_vars(Return)
  /\ \A e \in Exchanges : WF_vars(Tell(e))
  /\ \A m \in Mounts : WF_vars(Register(m)) /\ WF_vars(Subscribed(m)) /\ WF_vars(Deliver(m))
  /\ \A f \in Fetches : WF_vars(Serve(f)) /\ WF_vars(Arrive(f))

FairSpec == Spec /\ Fairness

-----------------------------------------------------------------------------
Snapshots == [revision : 0..revision, news : 0..news]

(* Every variable has its type; no snapshot is ahead of the engine.        *)
TypeOK ==
  /\ news \in 0..MaxNews /\ revision \in Nat /\ polled \in 0..revision
  /\ stage \in [Exchanges -> {"none", "open", "telling", "dropping", "done"}]
  /\ signals \in [Mounts -> 0..MaxSignals]
  /\ hook \in [Mounts -> {"none", "subscribing", "registered", "live", "off"}]
  /\ mounted \in Mounts
  /\ fetch \in [Fetches -> [at : {"idle", "asked", "answered"}, mount : 0..MaxMounts,
                            snapshot : Snapshots \cup {Nothing}]]
  /\ command \in [at : {"idle", "asked", "done", "answered"}, effect : 0..news,
                  snapshot : Snapshots \cup {Nothing}]
  /\ shown \in Snapshots \cup {Nothing}
  /\ acknowledged \in 0..news

(* Snapshots anywhere between the engine and the window.                   *)
Taken == ({shown, command.snapshot, Snapshot} \cup {fetch[f].snapshot : f \in Fetches}) \ {Nothing}

(* accept() compares revisions only: of two snapshots the one with the     *)
(* higher revision must not be the older one, although changes and their   *)
(* revisions are made under separate locks.                                *)
HigherIsNewer ==
  \A a, b \in Taken : a.revision > b.revision => a.news >= b.news

(* What a command did stays in the window once it has returned: no answer  *)
(* that was taken before and arrives after it brings the old list back.    *)
CommandsStay == acknowledged # 0 => shown.news >= acknowledged

Quiet == \A e \in Exchanges : stage[e] \in {"none", "done"}

CaughtUp ==
  /\ shown # Nothing /\ shown.revision = revision
  /\ Quiet => shown.news = news

(* Whatever the engine has told gets into the window, and everything that  *)
(* has happened once no exchange is open, however events, calls and        *)
(* answers are delayed, and however the hook is mounted again.             *)
WindowCatchesUp == []<>CaughtUp

(* A mount that is gone does not go on listening, even when it goes before *)
(* its subscription was confirmed.                                         *)
NoListenerStays == <>[](\A m \in Mounts : m < mounted => hook[m] = "off")
=============================================================================
