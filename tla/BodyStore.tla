----------------------------- MODULE BodyStore -----------------------------
(***************************************************************************)
(* The two body stores (crates/engine/src/proxy/bodies.rs and              *)
(* bodies/inspect.rs): request and response bodies on disk under one       *)
(* session budget.  A response is recorded while it is forwarded, through  *)
(* a bounded pipe and a worker; a redacted request copy or a replacement   *)
(* body is stored whole by a blocking job; a complete body may get a JSON  *)
(* layout beside it; pages are read while all of that goes on.             *)
(*                                                                         *)
(* A body is a <<store, capture id>> and is stored at most once.  Bytes    *)
(* are counted in chunks, one chunk in the pipe being one decoded chunk.   *)
(* Left out: contents, searches, export (a page of the whole), and of the  *)
(* codecs everything but where a decoder sees the end of its input.        *)
(***************************************************************************)
EXTENDS Integers, FiniteSets, FiniteSetsExt

CONSTANTS
  Recorded,      \* responses recorded as they are forwarded
  Copies,        \* redacted copies of requests; the task is detached
  Replacements,  \* replacement bodies, stored by the exchange itself
  Limits,        \* the disk budgets a body may be stored under
  Pipe,          \* chunks the pipe to the worker holds
  MaxChunks,     \* bound on the length of a body
  MaxLayout      \* bound on the length of a layout

Stored == Copies \cup Replacements
Bodies == Recorded \cup Stored

ASSUME BodiesAssumption ==
  /\ IsFiniteSet(Bodies)
  /\ Recorded \cap Stored = {} /\ Copies \cap Replacements = {}
ASSUME BoundsAssumption ==
  /\ Limits \subseteq Nat /\ Limits # {}
  /\ Pipe \in Nat \ {0} /\ MaxChunks \in Nat \ {0} /\ MaxLayout \in Nat \ {0}

\* identity stands for gzip with its members too, deflate for br: the stream
\* says itself where it ends.
Encoding == {"identity", "deflate", "other"}

VARIABLES
  used,       \* chunks reserved in the session
  entry,      \* absent, listed in its store, or removed (its Arc may live on)
  allowed,    \* Entry::limit, the budget of the run that stored it
  encoding,   \* Entry::encoding
  reserved,   \* Entry::reserved
  total,      \* Entry::total, what a reader may read
  result,     \* Entry::result
  source,     \* the upstream body: flowing, ended, or broken
  tap,        \* the recorder's end of the pipe
  fed,        \* chunks written to the pipe
  taken,      \* chunks the worker reserved
  worker,     \* the task that decodes and writes
  aborted,    \* its abort handle was used
  job,        \* the blocking job of a body that is stored whole
  size,       \* what it reserves
  abandoned,  \* the future that waits for the job was dropped
  view,       \* JsonView::status
  stop,       \* JsonView::cancel
  builder,    \* the blocking task of a layout
  layout,     \* BudgetWriter::reserved
  permits,    \* of the analysis semaphore
  page        \* one page read: the body, what was seen of it, how far it is

recording == <<encoding, source, tap, fed, taken, worker, aborted>>
jobs      == <<job, size, abandoned>>
layouts   == <<view, stop, builder, layout, permits>>
vars == <<used, entry, allowed, reserved, total, result, recording, jobs, layouts, page>>

NoPage == [body |-> "none", state |-> "none", total |-> 0, at |-> "idle"]

Init ==
  /\ used = 0
  /\ entry = [b \in Bodies |-> "absent"]
  /\ allowed = [b \in Bodies |-> 0]
  /\ reserved = [b \in Bodies |-> 0]
  /\ total = [b \in Bodies |-> 0]
  /\ result = [b \in Bodies |-> "none"]
  /\ encoding = [b \in Recorded |-> "none"]
  /\ source = [b \in Recorded |-> "flowing"]
  /\ tap = [b \in Recorded |-> "none"]
  /\ fed = [b \in Recorded |-> 0]
  /\ taken = [b \in Recorded |-> 0]
  /\ worker = [b \in Recorded |-> "none"]
  /\ aborted = [b \in Recorded |-> FALSE]
  /\ job = [b \in Stored |-> "none"]
  /\ size = [b \in Stored |-> 0]
  /\ abandoned = [b \in Stored |-> FALSE]
  /\ view = [b \in Bodies |-> "idle"]
  /\ stop = [b \in Bodies |-> FALSE]
  /\ builder = [b \in Bodies |-> "none"]
  /\ layout = [b \in Bodies |-> 0]
  /\ permits = 2
  /\ page = NoPage

Removed(b) == entry[b] = "removed"

\* Entry::finish: only a recording has an outcome to get.
Finish(b, outcome) ==
  result' = IF result[b] = "recording" THEN [result EXCEPT ![b] = outcome] ELSE result

Fits(n, budget) == used + n <= budget

-----------------------------------------------------------------------------
(* Entry::cancel, remove() and clear().                                    *)

\* Slip: the bytes of a layout are not given back.
FreedData(b) == reserved[b] - layout[b]

\* Everything the entry reserved is given back, under its result lock.
Freed(b) == reserved[b]

\* Entries leave their store cancelled.  A worker whose handle is not in its
\* entry yet is not aborted here.
Cancel(gone) ==
  /\ entry' = [b \in Bodies |-> IF b \in gone THEN "removed" ELSE entry[b]]
  /\ used' = used - MapThenSumSet(Freed, gone)
  /\ reserved' = [b \in Bodies |-> IF b \in gone THEN 0 ELSE reserved[b]]
  /\ aborted' = [b \in Recorded |-> aborted[b] \/ (b \in gone /\ tap[b] # "attaching")]
  /\ UNCHANGED <<allowed, encoding, total, result, source, tap, fed, taken, worker, jobs,
                 layouts, page>>

Listed == {b \in Bodies : entry[b] = "listed"}

Remove(b) == b \in Listed /\ Cancel({b})

Clear == Listed # {} /\ Cancel(Listed)

-----------------------------------------------------------------------------
(* record(), its worker, and the tee that feeds it.                        *)

\* The entry is listed before the worker's handle is stored in it ...
Record(b) ==
  /\ entry[b] = "absent"
  /\ entry' = [entry EXCEPT ![b] = "listed"]
  /\ \E limit \in Limits : allowed' = [allowed EXCEPT ![b] = limit]
  /\ \E coding \in Encoding : encoding' = [encoding EXCEPT ![b] = coding]
  /\ result' = [result EXCEPT ![b] = "recording"]
  /\ tap' = [tap EXCEPT ![b] = "attaching"]
  /\ worker' = [worker EXCEPT ![b] = "reading"]
  /\ UNCHANGED <<used, reserved, total, source, fed, taken, aborted, jobs, layouts, page>>

\* ... and cancelled again if it was removed in between.
Attach(b) ==
  /\ tap[b] = "attaching"
  /\ tap' = [tap EXCEPT ![b] = "open"]
  /\ aborted' = [aborted EXCEPT ![b] = Removed(b)]
  /\ UNCHANGED <<used, entry, allowed, encoding, reserved, total, result, source, fed, taken,
                 worker, jobs, layouts, page>>

\* The tee writes a frame to the pipe, as far as there is room.
Feed(b) ==
  /\ tap[b] = "open"
  /\ source[b] = "flowing"
  /\ ~Removed(b)
  /\ worker[b] # "ended"
  /\ fed[b] - taken[b] < Pipe
  /\ fed[b] < MaxChunks
  /\ fed' = [fed EXCEPT ![b] = @ + 1]
  /\ UNCHANGED <<used, entry, allowed, encoding, reserved, total, result, source, tap, taken,
                 worker, aborted, jobs, layouts, page>>

\* Slip: the outcome is left to the worker.
DropSilently(b) ==
  /\ UNCHANGED result
  /\ aborted' = [aborted EXCEPT ![b] = TRUE]
  /\ tap' = [tap EXCEPT ![b] = "gone"]

\* Drop for Tap: the outcome is settled before the pipe closes.
DropTap(b) ==
  /\ Finish(b, "partial")
  /\ aborted' = [aborted EXCEPT ![b] = TRUE]
  /\ tap' = [tap EXCEPT ![b] = "gone"]

\* Recording is given up when the entry is gone or the worker has ended;
\* forwarding goes on.
GiveUp(b) ==
  /\ tap[b] = "open"
  /\ source[b] = "flowing"
  /\ Removed(b) \/ worker[b] = "ended"
  /\ DropTap(b)
  /\ UNCHANGED <<used, entry, allowed, encoding, reserved, total, source, fed, taken, worker,
                 jobs, layouts, page>>

\* The body ended: the pipe is closed and the tee waits for the worker before
\* it forwards the end.
SourceEnds(b) ==
  /\ source[b] = "flowing"
  /\ tap[b] = "open"
  /\ source' = [source EXCEPT ![b] = "ended"]
  /\ tap' = [tap EXCEPT ![b] = "closed"]
  /\ UNCHANGED <<used, entry, allowed, encoding, reserved, total, result, fed, taken, worker,
                 aborted, jobs, layouts, page>>

WorkerSeen(b) ==
  /\ tap[b] = "closed"
  /\ worker[b] = "ended"
  /\ DropTap(b)
  /\ UNCHANGED <<used, entry, allowed, encoding, reserved, total, source, fed, taken, worker,
                 jobs, layouts, page>>

\* The upstream body fails, or the client's connection is dropped.
SourceBreaks(b) ==
  /\ tap[b] \in {"open", "closed"}
  /\ source' = [source EXCEPT ![b] = IF @ = "flowing" THEN "broken" ELSE @]
  /\ DropTap(b)
  /\ UNCHANGED <<used, entry, allowed, encoding, reserved, total, fed, taken, worker, jobs,
                 layouts, page>>

Decodes(b) == worker[b] = "reading" /\ encoding[b] # "other"

\* A decoded chunk: reserved under the result lock unless the entry is gone or
\* the budget is used up.
TakeChunk(b) ==
  /\ Decodes(b)
  /\ taken[b] < fed[b]
  /\ \/ /\ Removed(b)
        /\ worker' = [worker EXCEPT ![b] = "ended"]
        /\ UNCHANGED <<used, reserved, taken, result>>
     \/ /\ ~Removed(b) /\ ~Fits(1, allowed[b])
        /\ result' = [result EXCEPT ![b] = "partial"]
        /\ worker' = [worker EXCEPT ![b] = "ended"]
        /\ UNCHANGED <<used, reserved, taken>>
     \/ /\ ~Removed(b) /\ Fits(1, allowed[b])
        /\ used' = used + 1
        /\ reserved' = [reserved EXCEPT ![b] = @ + 1]
        /\ taken' = [taken EXCEPT ![b] = @ + 1]
        /\ worker' = [worker EXCEPT ![b] = "writing"]
        /\ UNCHANGED result
  /\ UNCHANGED <<entry, allowed, encoding, total, source, tap, fed, aborted, jobs, layouts, page>>

\* The length a reader may see grows after the chunk was flushed.
WriteChunk(b) ==
  /\ worker[b] = "writing"
  /\ total' = [total EXCEPT ![b] = @ + 1]
  /\ worker' = [worker EXCEPT ![b] = "reading"]
  /\ UNCHANGED <<used, entry, allowed, encoding, reserved, result, source, tap, fed, taken,
                 aborted, jobs, layouts, page>>

\* The encoded stream is over, the transfer may still go on: whatever else is
\* in the pipe belongs to no stream.
StreamEnds(b) == encoding[b] = "deflate" /\ tap[b] # "attaching"

\* Slip: the tee waits for the worker with the pipe still open.
AtEndOnceDropped(b) == StreamEnds(b) \/ (taken[b] = fed[b] /\ tap[b] = "gone")

\* The decoder returns no more bytes: by its stream, or because the pipe is
\* drained and closed.
AtEnd(b) == StreamEnds(b) \/ (taken[b] = fed[b] /\ tap[b] \in {"closed", "gone"})

EndWorker(b, outcome) ==
  /\ Finish(b, outcome)
  /\ worker' = [worker EXCEPT ![b] = "ended"]
  /\ UNCHANGED <<used, entry, allowed, encoding, reserved, total, source, tap, fed, taken,
                 aborted, jobs, layouts, page>>

Complete(b) == Decodes(b) /\ AtEnd(b) /\ EndWorker(b, "complete")

\* A decoding error, the pipe's end inside a stream included, or a write error.
WorkerFails(b) == (Decodes(b) \/ worker[b] = "writing") /\ EndWorker(b, "partial")

\* A content encoding nobody decodes.
Undecodable(b) ==
  worker[b] = "reading" /\ encoding[b] = "other" /\ EndWorker(b, "unavailable")

\* An aborted task ends at its next await, or runs on to its own end.
WorkerAborted(b) ==
  /\ worker[b] \in {"reading", "writing"}
  /\ aborted[b]
  /\ worker' = [worker EXCEPT ![b] = "ended"]
  /\ UNCHANGED <<used, entry, allowed, encoding, reserved, total, result, source, tap, fed,
                 taken, aborted, jobs, layouts, page>>

-----------------------------------------------------------------------------
(* store_redacted_json() and store_complete().                             *)

\* The blocking job reserves the whole length before it writes; an invalid
\* request copy reserves nothing.
Reserve(b) ==
  /\ job[b] = "none"
  /\ \E limit \in Limits, n \in 1..MaxChunks :
       /\ allowed' = [allowed EXCEPT ![b] = limit]
       /\ \/ /\ Fits(n, limit)
             /\ used' = used + n
             /\ size' = [size EXCEPT ![b] = n]
             /\ job' = [job EXCEPT ![b] = "writing"]
          \/ /\ b \in Copies \/ ~Fits(n, limit)
             /\ job' = [job EXCEPT ![b] = "failed"]
             /\ UNCHANGED <<used, size>>
  /\ UNCHANGED <<entry, reserved, total, result, recording, abandoned, layouts, page>>

WriteFile(b) ==
  /\ job[b] = "writing"
  /\ \/ /\ job' = [job EXCEPT ![b] = "written"]
        /\ UNCHANGED used
     \/ /\ job' = [job EXCEPT ![b] = "failed"]
        /\ used' = used - size[b]
  /\ UNCHANGED <<entry, allowed, reserved, total, result, recording, size, abandoned,
                 layouts, page>>

\* The future that waited for the job lists the entry ...
Insert(b) ==
  /\ job[b] = "written"
  /\ ~abandoned[b]
  /\ job' = [job EXCEPT ![b] = "stored"]
  /\ entry' = [entry EXCEPT ![b] = "listed"]
  /\ reserved' = [reserved EXCEPT ![b] = size[b]]
  /\ total' = [total EXCEPT ![b] = size[b]]
  /\ result' = [result EXCEPT ![b] = "complete"]
  /\ UNCHANGED <<used, allowed, recording, size, abandoned, layouts, page>>

\* ... unless it is gone: a replacement is stored inside the exchange, which a
\* deadline, Stop or a disconnect may drop.  The job itself runs on.
Abandon(b) ==
  /\ job[b] \in {"writing", "written"}
  /\ ~abandoned[b]
  /\ abandoned' = [abandoned EXCEPT ![b] = TRUE]
  /\ UNCHANGED <<used, entry, allowed, reserved, total, result, recording, job, size,
                 layouts, page>>

\* Its result is dropped: the file is deleted, the reservation stays.
Discard(b) ==
  /\ job[b] = "written"
  /\ abandoned[b]
  /\ job' = [job EXCEPT ![b] = "discarded"]
  /\ UNCHANGED <<used, entry, allowed, reserved, total, result, recording, size,
                 abandoned, layouts, page>>

-----------------------------------------------------------------------------
(* json_view() and the task that formats a body.                           *)

\* One preparation at a time for a body, two analyses at a time in all.
StartView(b) ==
  /\ entry[b] # "absent"
  /\ result[b] = "complete"
  /\ view[b] \in {"idle", "error"}
  /\ permits > 0
  /\ permits' = permits - 1
  /\ view' = [view EXCEPT ![b] = "building"]
  /\ stop' = [stop EXCEPT ![b] = FALSE]
  /\ builder' = [builder EXCEPT ![b] = "writing"]
  /\ UNCHANGED <<used, entry, allowed, reserved, total, result, recording, jobs,
                 layout, page>>

CancelView(b) ==
  /\ view[b] = "building"
  /\ stop' = [stop EXCEPT ![b] = TRUE]
  /\ UNCHANGED <<used, entry, allowed, reserved, total, result, recording, jobs,
                 view, builder, layout, permits, page>>

\* Slip: only the user's cancel is seen.
CancelledByUser(b) == stop[b]

Cancelled(b) == stop[b] \/ Removed(b)

\* BudgetWriter::write, under the result lock of the entry.
LayoutChunk(b) ==
  /\ builder[b] = "writing"
  /\ layout[b] < MaxLayout
  /\ ~Cancelled(b) /\ Fits(1, allowed[b])
  /\ used' = used + 1
  /\ reserved' = [reserved EXCEPT ![b] = @ + 1]
  /\ layout' = [layout EXCEPT ![b] = @ + 1]
  /\ UNCHANGED <<entry, allowed, total, result, recording, jobs, view, stop, builder,
                 permits, page>>

\* Cancelled, over budget, not valid JSON, or an I/O error.
LayoutFails(b) ==
  /\ builder[b] = "writing"
  /\ builder' = [builder EXCEPT ![b] = "failing"]
  /\ UNCHANGED <<used, entry, allowed, reserved, total, result, recording, jobs, view,
                 stop, layout, permits, page>>

Formatted(b) ==
  /\ builder[b] = "writing"
  /\ layout[b] > 0
  /\ builder' = [builder EXCEPT ![b] = "formatted"]
  /\ UNCHANGED <<used, entry, allowed, reserved, total, result, recording, jobs, view,
                 stop, layout, permits, page>>

\* Slip: the entry may have been cancelled, and have given everything back.
GiveBackAgain(b) ==
  /\ used' = used - layout[b]
  /\ reserved' = [reserved EXCEPT ![b] = IF Removed(b) THEN 0 ELSE @ - layout[b]]

\* What a layout reserved is given back unless Entry::cancel has done so.
GiveBack(b) ==
  IF Removed(b)
  THEN UNCHANGED <<used, reserved>>
  ELSE /\ used' = used - layout[b]
       /\ reserved' = [reserved EXCEPT ![b] = @ - layout[b]]

\* Drop for BudgetWriter, and a finished layout that was cancelled meanwhile.
DiscardLayout(b) ==
  /\ builder[b] \in {"failing", "discarding"}
  /\ GiveBack(b)
  /\ layout' = [layout EXCEPT ![b] = 0]
  /\ builder' = [builder EXCEPT ![b] = "refused"]
  /\ UNCHANGED <<entry, allowed, total, result, recording, jobs, view, stop, permits, page>>

\* Slip: a cancelled task returns at once.
LeaveView(b) == IF Cancelled(b) THEN "none" ELSE "publishing"

Verdict(b) == IF Cancelled(b) THEN "discarding" ELSE "publishing"

CheckLayout(b) ==
  /\ builder[b] = "formatted"
  /\ builder' = [builder EXCEPT ![b] = Verdict(b)]
  /\ UNCHANGED <<used, entry, allowed, reserved, total, result, recording, jobs, view,
                 stop, layout, permits, page>>

\* The view gets its outcome and the permit is returned.
EndBuild(b) ==
  /\ builder[b] \in {"publishing", "refused"}
  /\ view' = [view EXCEPT ![b] = IF builder[b] = "publishing" THEN "ready" ELSE "error"]
  /\ builder' = [builder EXCEPT ![b] = "none"]
  /\ permits' = permits + 1
  /\ UNCHANGED <<used, entry, allowed, reserved, total, result, recording, jobs, stop,
                 layout, page>>

-----------------------------------------------------------------------------
(* page(): the state is read before the length.                            *)

LookUp ==
  /\ page.at = "idle"
  /\ \E b \in Listed : page' = [page EXCEPT !.body = b, !.at = "first"]
  /\ UNCHANGED <<used, entry, allowed, reserved, total, result, recording, jobs, layouts>>

\* Slip: the length is read first.
LengthFirst ==
  \/ page.at = "first" /\ page' = [page EXCEPT !.total = total[page.body], !.at = "second"]
  \/ page.at = "second" /\ page' = [page EXCEPT !.state = result[page.body], !.at = "read"]

StateFirst ==
  \/ page.at = "first" /\ page' = [page EXCEPT !.state = result[page.body], !.at = "second"]
  \/ page.at = "second" /\ page' = [page EXCEPT !.total = total[page.body], !.at = "read"]

Look ==
  /\ StateFirst
  /\ UNCHANGED <<used, entry, allowed, reserved, total, result, recording, jobs, layouts>>

\* The bytes are read from the file, or the entry has none any more.
PageReturns ==
  /\ page.at = "read"
  /\ page' = NoPage
  /\ UNCHANGED <<used, entry, allowed, reserved, total, result, recording, jobs, layouts>>

-----------------------------------------------------------------------------
Recorder(b) ==
  \/ Record(b) \/ Attach(b) \/ Feed(b) \/ GiveUp(b) \/ SourceEnds(b) \/ WorkerSeen(b)
  \/ SourceBreaks(b) \/ WorkerFails(b)

Worker(b) ==
  TakeChunk(b) \/ WriteChunk(b) \/ Complete(b) \/ Undecodable(b) \/ WorkerAborted(b)

Job(b) == Reserve(b) \/ WriteFile(b) \/ Insert(b)

Builder(b) == LayoutChunk(b) \/ LayoutFails(b) \/ Formatted(b) \/ DiscardLayout(b) \/ CheckLayout(b)
              \/ EndBuild(b)

View(b) == StartView(b) \/ CancelView(b) \/ Builder(b)

Page == LookUp \/ Look \/ PageReturns

Next ==
  \/ Clear
  \/ \E b \in Recorded : Recorder(b) \/ Worker(b)
  \/ \E b \in Stored : Job(b)
  \/ \E b \in Replacements : Abandon(b) \/ Discard(b)
  \/ \E b \in Bodies : Remove(b) \/ View(b)
  \/ Page

Spec == Init /\ [][Next]_vars

\* Tasks and blocking jobs run on.  Nothing makes an upstream body arrive, and
\* the tee is polled while its connection is there.
Fairness ==
  /\ \A b \in Recorded :
       /\ WF_vars(Attach(b)) /\ WF_vars(GiveUp(b)) /\ WF_vars(WorkerSeen(b)) /\ WF_vars(Worker(b))
  /\ \A b \in Bodies : WF_vars(Builder(b))

FairSpec == Spec /\ Fairness

-----------------------------------------------------------------------------
(* What must hold.                                                         *)

\* Everything but the session counter and the free permits.
Shapes ==
  /\ entry \in [Bodies -> {"absent", "listed", "removed"}]
  /\ allowed \in [Bodies -> Limits \cup {0}]
  /\ reserved \in [Bodies -> Nat] /\ total \in [Bodies -> Nat]
  /\ result \in [Bodies -> {"none", "recording", "complete", "partial", "unavailable"}]
  /\ encoding \in [Recorded -> Encoding \cup {"none"}]
  /\ source \in [Recorded -> {"flowing", "ended", "broken"}]
  /\ tap \in [Recorded -> {"none", "attaching", "open", "closed", "gone"}]
  /\ fed \in [Recorded -> 0..MaxChunks] /\ taken \in [Recorded -> 0..MaxChunks]
  /\ worker \in [Recorded -> {"none", "reading", "writing", "ended"}]
  /\ aborted \in [Recorded -> BOOLEAN]
  /\ job \in [Stored -> {"none", "writing", "written", "stored", "failed", "discarded"}]
  /\ size \in [Stored -> 0..MaxChunks] /\ abandoned \in [Stored -> BOOLEAN]
  /\ view \in [Bodies -> {"idle", "building", "ready", "error"}]
  /\ stop \in [Bodies -> BOOLEAN]
  /\ builder \in [Bodies -> {"none", "writing", "failing", "formatted", "discarding",
                             "publishing", "refused"}]
  /\ layout \in [Bodies -> 0..MaxLayout]
  /\ page \in [body : Bodies \cup {"none"}, total : Nat,
               state : {"none", "recording", "complete", "partial", "unavailable"},
               at : {"idle", "first", "second", "read"}]
  /\ page.at # "idle" => page.body \in Bodies

(* Every variable keeps its type; no counter goes below zero (the code's   *)
(* are unsigned and would wrap).                                           *)
TypeOK == used \in Nat /\ permits \in 0..2 /\ Shapes

\* What the entry's files hold: the data and the layout beside it.
Data(b) == IF b \in Recorded THEN taken[b] ELSE IF job[b] = "stored" THEN size[b] ELSE 0

InFlight(b) == IF job[b] \in {"writing", "written"} THEN size[b] ELSE 0
Leaked(b)   == IF job[b] = "discarded" THEN size[b] ELSE 0
Held        == [b \in Stored |-> InFlight(b) + Leaked(b)]

(* An entry is charged for exactly the data and the layout it keeps, and   *)
(* for nothing once it has left its store.                                 *)
EntriesPay == \A b \in Bodies : reserved[b] = IF Removed(b) THEN 0 ELSE Data(b) + layout[b]

(* ... and the session counter is the sum of what entries and running jobs *)
(* hold and of what discarded jobs leave behind.  Neither the recorder nor *)
(* a layout task, a job or cancel() forgets a refund or refunds twice.     *)
BudgetBalances ==
  /\ EntriesPay
  /\ used = MapThenSumSet(LAMBDA b : reserved[b], Bodies)
            + MapThenSumSet(LAMBDA b : Held[b], Stored)

(* A recording that says "complete" has everything the decoder returned,   *)
(* with no chunk still between its reservation and the file; where only    *)
(* the pipe's end can tell, the body was received to its end and a broken  *)
(* transfer is never taken for that end.  And a page that says so shows    *)
(* the final length (the comment in page()), whenever the writer finishes  *)
(* while the page is read.                                                 *)
CompleteIsWhole ==
  /\ \A b \in Recorded : result[b] = "complete" =>
       /\ total[b] = taken[b]
       /\ encoding[b] # "deflate" => source[b] = "ended" /\ total[b] = fed[b]
  /\ page.at = "read" /\ page.state = "complete" => page.total = Data(page.body)

(* When the recorder's pipe is closed or dropped the recording settles:    *)
(* the worker ends and leaves an outcome, so the tee does not hold back    *)
(* the end of the response for ever.                                       *)
RecordingSettles ==
  \A b \in Recorded :
    tap[b] \in {"closed", "gone"} ~> worker[b] = "ended" /\ tap[b] = "gone" /\ result[b] # "recording"

(* A layout that is being built is ready or refused in the end, also when  *)
(* it is cancelled or its body removed while it is written.                *)
BuildEnds == \A b \in Bodies : view[b] = "building" ~> view[b] # "building"

(* HTTP_PROXY.md: the budget counts decoded bytes across retained          *)
(* recordings.  A job whose future was dropped keeps its reservation.      *)
BudgetCountsRetained ==
  used = MapThenSumSet(LAMBDA b : reserved[b], Bodies) + MapThenSumSet(InFlight, Stored)
=============================================================================
