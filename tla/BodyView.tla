------------------------------ MODULE BodyView ------------------------------
(***************************************************************************)
(* The viewer of one recorded body (ResponseBody.tsx) over its entry in    *)
(* the store (bodies.rs, bodies/inspect.rs): the page on display, which is *)
(* read again while the body grows, and the search, a loop of commands     *)
(* over a range that is frozen when it begins.  Every command is answered  *)
(* later, and answers arrive in any order: an effect that was cleaned up,  *)
(* or a search that was cancelled, must not change what is on display.     *)
(*                                                                         *)
(* Left out: the JSON layout as what is displayed, the export, and the     *)
(* errors of files.                                                        *)
(***************************************************************************)
EXTENDS BodyScan

CONSTANTS
  Sessions,   \* what is opened, and what its user does
  MaxReads,   \* page commands that may be unanswered at once
  MaxSearches,
  Nothing     \* no page, no needle, no answer

\* A session opens the viewer on an entry, absent or recording, of an exchange
\* that has ended or not; its body has some content, of which the recorder has
\* published a total and publishes more at some sizes; its user searches at most
\* so many times, for certain needles, and goes to certain offsets.
ASSUME SessionsAssumption ==
  \A s \in Sessions :
    /\ s.entry \in {"absent", "recording"} /\ s.finished \in BOOLEAN
    /\ s.entry = "absent" => s.total = 0
    /\ s.content \in Seq(Nat) /\ s.total \in 0..Len(s.content) /\ s.sizes \subseteq Nat
    /\ s.searches \in 0..MaxSearches /\ s.jumps \subseteq Nat
    /\ \A n \in s.needles : n \in Seq(Nat) /\ Len(n) \in 1..ScanBytes

\* PAGE is PAGE_SIZE.
PageSize == BufferSize
Reads == 1..MaxReads
Searches == 1..MaxSearches

VARIABLES
  session,    \* the session, and its searches
  entry,      \* the state of its entry, gone when it was cleared or evicted
  total,      \* Entry::total
  finished,   \* the exchange has ended
  mounted,    \* the viewer is there
  pending,    \* its property: the exchange has not ended
  needle, offset, found, searching, message,
  page,       \* the page on display
  failed,     \* or an error
  timer,      \* a read is due
  read,       \* the page commands; alive while their effect is
  run,        \* searchRun
  search      \* the searches of the session, in their order

store  == <<entry, total, finished>>
finder == <<needle, found, searching, message, run, search>>
pages  == <<page, failed, timer, read>>
vars == <<session, store, mounted, pending, offset, finder, pages>>

NoRead == [at |-> "idle", alive |-> FALSE, offset |-> 0, answer |-> Nothing]
NoSearch == [at |-> "none", run |-> 0, needle |-> Nothing, start |-> 0, end |-> 0, cursor |-> 0,
             position |-> 0, matched |-> 0, answer |-> Nothing]

content  == session.content

Asked(o) == [NoRead EXCEPT !.at = "asked", !.alive = TRUE, !.offset = o]

Init ==
  /\ session \in Sessions
  /\ entry = session.entry /\ total = session.total /\ finished = session.finished
  /\ mounted = TRUE /\ pending = ~finished
  /\ needle = Nothing /\ offset = 0 /\ found = None /\ searching = FALSE /\ message = "none"
  /\ page = Nothing /\ failed = FALSE /\ timer = FALSE
  /\ read = [q \in Reads |-> IF q = 1 THEN Asked(0) ELSE NoRead]
  /\ run = 0
  /\ search = [k \in Searches |-> NoSearch]

-----------------------------------------------------------------------------
(* The entry, as the recorder and the engine change it.                    *)

\* The response is recorded once its head is through: after a pause, and also
\* when the exchange has ended meanwhile.
Record ==
  /\ entry = "absent"
  /\ entry' = "recording"
  /\ UNCHANGED <<session, total, finished, mounted, pending, offset, finder, pages>>

Write ==
  /\ entry = "recording"
  /\ total' \in {n \in session.sizes : total < n /\ n <= Len(content)}
  /\ UNCHANGED <<session, entry, finished, mounted, pending, offset, finder, pages>>

End ==
  /\ entry = "recording"
  /\ entry' = IF total = Len(content) THEN "complete" ELSE "partial"
  /\ UNCHANGED <<session, total, finished, mounted, pending, offset, finder, pages>>

\* The exchange is over once its body was forwarded, where the recorder may
\* lag, or with the failure of a request body that is still being sent, where
\* the response may be yet to come.
Finish ==
  /\ ~finished
  /\ finished' = TRUE
  /\ UNCHANGED <<session, entry, total, mounted, pending, offset, finder, pages>>

\* Entry::cancel, on Clear and on eviction.
Remove ==
  /\ entry # "absent"
  /\ entry' = "gone"
  /\ UNCHANGED <<session, total, finished, mounted, pending, offset, finder, pages>>

-----------------------------------------------------------------------------
(* The page on display: the effect and its cleanup.                        *)

\* Slip: the cleanup stops the timer only.
OnlyTimer(q) == q

\* The cleanup of an effect.
Cleaned(q) == [q EXCEPT !.alive = FALSE]

Idle == {q \in Reads : read[q].at = "idle"}

\* The effect, after its cleanup: for a new offset, or a new pending.
Effect(o) ==
  /\ page' = Nothing /\ failed' = FALSE /\ timer' = FALSE
  /\ Idle # {}
  /\ read' = [q \in Reads |-> IF q = Min(Idle) THEN Asked(o) ELSE Cleaned(read[q])]

\* go: an effect only when the offset is another one.
Go(o) ==
  /\ offset' = o
  /\ IF o = offset THEN UNCHANGED pages ELSE Effect(o)

\* First, Previous, Next, Last, and Go to an offset that was typed.
Navigate ==
  /\ mounted /\ page # Nothing
  /\ \E o \in session.jumps : o <= page.total /\ o # offset /\ Go(o)
  /\ UNCHANGED <<session, store, mounted, pending, finder>>

\* The snapshot says that the exchange has ended.
Settled ==
  /\ mounted /\ pending /\ finished
  /\ pending' = FALSE
  /\ Effect(offset)
  /\ UNCHANGED <<session, store, mounted, offset, finder>>

\* page() of the store.
PageOf(o) == [offset |-> o, total |-> total, state |-> entry]
Readable(o) == entry \in {"recording", "complete", "partial"} /\ o <= total

ServePage(q) ==
  /\ read[q].at = "asked"
  /\ read' = [read EXCEPT ![q].at = "answered",
                          ![q].answer = IF Readable(read[q].offset) THEN PageOf(read[q].offset)
                                        ELSE Nothing]
  /\ UNCHANGED <<session, store, mounted, pending, offset, finder, page, failed, timer>>

\* Slip: only the exchange counts, not the recorder.
AgainWhilePending(answer) == pending

\* Whether the page is read again: it grows, or it may still come.  An effect
\* that is alive is of the present pending.
Again(answer) == IF answer = Nothing THEN pending ELSE answer.state = "recording"

TakePage(q) ==
  /\ read[q].at = "answered"
  /\ read' = [read EXCEPT ![q] = [NoRead EXCEPT !.alive = read[q].alive]]
  /\ IF read[q].alive
     THEN /\ page' = IF read[q].answer = Nothing THEN page ELSE read[q].answer
          /\ failed' = (read[q].answer = Nothing)
          /\ timer' = Again(read[q].answer)
     ELSE UNCHANGED <<page, failed, timer>>
  /\ UNCHANGED <<session, store, mounted, pending, offset, finder>>

Tick(q) ==
  /\ timer /\ read[q].alive /\ read[q].at = "idle"
  /\ timer' = FALSE
  /\ read' = [read EXCEPT ![q] = Asked(offset)]
  /\ UNCHANGED <<session, store, mounted, pending, offset, finder, page, failed>>

-----------------------------------------------------------------------------
(* The search.                                                             *)

Type ==
  /\ mounted /\ ~searching
  /\ needle' \in session.needles \ {needle}
  /\ found' = None /\ message' = "none"
  /\ UNCHANGED <<session, store, mounted, pending, offset, searching, run, search, pages>>

Unused == {k \in 1..session.searches : search[k].at = "none"}

Begin(start) ==
  /\ mounted /\ ~searching /\ needle # Nothing /\ Unused # {}
  /\ run' = run + 1
  /\ search' = [search EXCEPT ![Min(Unused)] =
       [NoSearch EXCEPT !.at = "freezing", !.run = run + 1, !.needle = needle,
                        !.start = start, !.cursor = start]]
  /\ searching' = TRUE /\ message' = "searching"
  /\ UNCHANGED <<session, store, mounted, pending, offset, needle, found, pages>>

FindFromStart == Begin(0)
FindNext == found # None /\ Begin(found + 1)

CancelSearch ==
  /\ mounted /\ searching
  /\ run' = run + 1
  /\ searching' = FALSE /\ message' = "cancelled"
  /\ UNCHANGED <<session, store, mounted, pending, offset, needle, found, search, pages>>

\* What the viewer had on display is gone with it; its calls are not.
Unmount ==
  /\ mounted
  /\ mounted' = FALSE
  /\ run' = run + 1
  /\ needle' = Nothing /\ offset' = 0 /\ found' = None /\ searching' = FALSE /\ message' = "none"
  /\ page' = Nothing /\ failed' = FALSE /\ timer' = FALSE
  /\ read' = [q \in Reads |-> Cleaned(read[q])]
  /\ UNCHANGED <<session, store, pending, search>>

\* The page command that freezes the range.
Freeze(k) ==
  /\ search[k].at = "freezing"
  /\ search' = IF Readable(0) THEN [search EXCEPT ![k].at = "frozen", ![k].end = total]
               ELSE [search EXCEPT ![k].at = "refused"]
  /\ UNCHANGED <<session, store, mounted, pending, offset, needle, found, searching, message, run, pages>>

\* search(): every refusal is an error; both permits may be taken by others.
Scanned(k) == [search[k] EXCEPT !.at = "scanning", !.position = search[k].cursor, !.matched = 0]

StartScan(k) ==
  /\ search[k].at = "asked"
  /\ \/ search' = [search EXCEPT ![k].at = "refused"]
     \/ /\ Readable(search[k].end) /\ search[k].cursor <= search[k].end
        /\ search' = [search EXCEPT ![k] = Scanned(k)]
  /\ UNCHANGED <<session, store, mounted, pending, offset, needle, found, searching, message, run, pages>>

\* One turn of its loop: the entry may have been cancelled, or one buffer, or
\* the end.
ScanBuffer(k) ==
  LET s    == search[k]
      stop == Stop(s.cursor, s.end)
      to   == Buffer(content, s.needle, s.position, BufferEnd(s.position, stop), s.matched)
  IN /\ s.at = "scanning"
     /\ search' = [search EXCEPT ![k] =
          IF s.position < stop /\ entry = "gone" THEN [s EXCEPT !.at = "refused"]
          ELSE IF to.matched = Len(s.needle)
               THEN [s EXCEPT !.at = "answered", !.answer = Found(s.needle, to.position)]
          ELSE IF to.position = stop
               THEN [s EXCEPT !.at = "answered",
                              !.answer = NotFound(stop, to.matched, stop, s.end)]
          ELSE [s EXCEPT !.position = to.position, !.matched = to.matched]]
     /\ UNCHANGED <<session, store, mounted, pending, offset, needle, found, searching, message, run, pages>>

\* Slip: a cancelled search goes on to its answer.
StillMounted(k) == mounted

\* What the loop asks whenever it has waited.
Current(k) == mounted /\ search[k].run = run

\* Of a search that is over its range is kept, for the properties.
Over(k) ==
  search' = [search EXCEPT ![k] = IF Current(k)
                                  THEN [NoSearch EXCEPT !.at = "over", !.run = run,
                                          !.start = search[k].start, !.end = search[k].end]
                                  ELSE [NoSearch EXCEPT !.at = "over"]]
Ask(k, cursor) == search' = [search EXCEPT ![k].at = "asked", ![k].cursor = cursor, ![k].answer = Nothing]

TakeFrozen(k) ==
  /\ search[k].at = "frozen"
  /\ IF Current(k) THEN Ask(k, search[k].cursor) ELSE Over(k)
  /\ UNCHANGED <<session, store, mounted, pending, offset, needle, found, searching, message, run, pages>>

TakeAnswer(k) ==
  /\ search[k].at = "answered"
  /\ LET answer == search[k].answer IN
     \/ /\ ~Current(k)
        /\ Over(k)
        /\ UNCHANGED <<offset, found, searching, message, pages>>
     \/ /\ Current(k) /\ answer.found # None
        /\ Over(k)
        /\ found' = answer.found /\ message' = "match" /\ searching' = FALSE
        /\ Go(answer.found)
     \/ /\ Current(k) /\ answer.found = None /\ answer.done
        /\ Over(k)
        /\ message' = "no match" /\ searching' = FALSE
        /\ UNCHANGED <<offset, found, pages>>
     \/ /\ Current(k) /\ answer.found = None /\ ~answer.done
        /\ Ask(k, answer.next)
        /\ message' = "progress"
        /\ UNCHANGED <<offset, found, searching, pages>>
  /\ UNCHANGED <<session, store, mounted, pending, needle, run>>

\* Slip: an error leaves the search as it is.
GiveUpTelling == message' = "error" /\ UNCHANGED searching

GiveUp == message' = "error" /\ searching' = FALSE

TakeError(k) ==
  /\ search[k].at = "refused"
  /\ Over(k)
  /\ IF Current(k) THEN GiveUp ELSE UNCHANGED <<message, searching>>
  /\ UNCHANGED <<session, store, mounted, pending, offset, needle, found, run, pages>>

-----------------------------------------------------------------------------
Next ==
  \/ Record \/ Write \/ End \/ Finish \/ Remove
  \/ Navigate \/ Settled \/ Type \/ FindFromStart \/ FindNext \/ CancelSearch \/ Unmount
  \/ \E q \in Reads : ServePage(q) \/ TakePage(q) \/ Tick(q)
  \/ \E k \in Searches : \/ Freeze(k) \/ TakeFrozen(k) \/ StartScan(k) \/ ScanBuffer(k)
                         \/ TakeAnswer(k) \/ TakeError(k)

Spec == Init /\ [][Next]_vars

\* Commands are served and their answers delivered, the timer fires, and an
\* exchange that has ended is noticed.  No body need end, and no user act.
Fairness ==
  /\ WF_vars(Settled)
  /\ \A q \in Reads : WF_vars(ServePage(q)) /\ WF_vars(TakePage(q)) /\ WF_vars(Tick(q))
  /\ \A k \in Searches : /\ WF_vars(Freeze(k)) /\ WF_vars(TakeFrozen(k)) /\ WF_vars(StartScan(k))
                         /\ WF_vars(ScanBuffer(k)) /\ WF_vars(TakeAnswer(k)) /\ WF_vars(TakeError(k))

FairSpec == Spec /\ Fairness

-----------------------------------------------------------------------------
Newest == search[CHOOSE k \in Searches : search[k].run = run]

(* What the viewer says of the newest search is right: the match shown is  *)
(* the first one of what is typed, at or after the start of the search, in *)
(* the bytes recorded when it began, also across buffers and steps; and    *)
(* there is none where it says so.  A found offset stays a match of what   *)
(* is typed, whatever searches were cancelled before or are under way.     *)
SearchIsRight ==
  mounted =>
    /\ message \in {"match", "no match"} =>
         LET first == FirstOccurrence(content, needle, Newest.start, Newest.end)
         IN IF message = "match" THEN first # None /\ found = first ELSE first = None
    /\ found # None => found \in Occurrences(content, needle, 0, total)

(* A page that is displayed is the one of the offset, however late the     *)
(* answers of earlier offsets arrive; and at most one read is under way or *)
(* due for it, however often the effect was run again.                     *)
PageIsOfOffset ==
  /\ page # Nothing => page.offset = offset /\ page.total <= total
  /\ \A q, p \in Reads : read[q].alive /\ read[p].alive => q = p
  /\ timer => \E q \in Reads : read[q].alive /\ read[q].at = "idle"

(* A search comes to an end: with a result, an error, or a cancel.         *)
SearchEnds == searching ~> ~searching

Displayed ==
  ~failed /\ page = [offset |-> offset, total |-> total, state |-> entry]

(* A viewer that is left open shows the body as it ended, however the end  *)
(* of the exchange and of the recording fall between two reads, as long as *)
(* its entry is there when the viewer learns that the exchange has ended.  *)
PageSettles ==
  [](~pending => entry # "absent") /\ <>[](mounted /\ entry \in {"complete", "partial"})
    => []<>Displayed
=============================================================================
