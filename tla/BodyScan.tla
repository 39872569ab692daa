------------------------------ MODULE BodyScan ------------------------------
(***************************************************************************)
(* The search of a recorded body (scan in bodies/inspect.rs): the scan of  *)
(* Knuth, Morris and Pratt over one range, a buffer at a time, giving up   *)
(* after so many bytes with the offset to go on from.  Bytes are counted   *)
(* from 0 as in the code: byte p of a body is body[p + 1].                 *)
(***************************************************************************)
EXTENDS Integers, Sequences, FiniteSetsExt

CONSTANTS
  BufferSize,   \* PAGE_SIZE, bytes read at once
  ScanBytes     \* SCAN_BYTES, bytes of one step of a search

ASSUME ScanAssumption == BufferSize \in Nat \ {0} /\ ScanBytes \in Nat \ {0}

None == -1

\* The inner while loop, then the comparison: how much of the needle ends in
\* byte, when matched bytes of it came before.
Advance(needle, prefix, matched, byte) ==
  LET kept[m \in 0..matched] ==
        IF m > 0 /\ byte # needle[m + 1] THEN kept[prefix[m]] ELSE m
  IN IF byte = needle[kept[matched] + 1] THEN kept[matched] + 1 ELSE kept[matched]

\* prefix[i] is the longest proper border of the first i bytes.
Prefix(needle) ==
  LET table[i \in 1..Len(needle)] ==
        IF i = 1 THEN <<0>>
        ELSE Append(table[i - 1], Advance(needle, table[i - 1], table[i - 1][i - 1], needle[i]))
  IN table[Len(needle)]

\* One buffer: bytes from..upto-1, or as far as the end of the first match.
Buffer(body, needle, from, upto, matched) ==
  LET prefix == Prefix(needle)
      read[p \in from..upto] ==
        IF p = from THEN [position |-> from, matched |-> matched]
        ELSE IF read[p - 1].matched = Len(needle) THEN read[p - 1]
        ELSE [position |-> p, matched |-> Advance(needle, prefix, read[p - 1].matched, body[p])]
  IN read[upto]

\* Where a step that starts at start stops, and the end of its next buffer.
Stop(start, end) == Min({end, start + ScanBytes})
BufferEnd(position, stop) == Min({stop, position + BufferSize})

\* Slip: the next step starts where this one stopped.
ResumeAtPosition(position, matched) == position

\* Where the next step starts: the bytes that may begin a match count again.
Resume(position, matched) == position - matched

\* The answer of a step: a match, or where to go on, unless the range is done.
Found(needle, position) ==
  [found |-> position - Len(needle), next |-> position - Len(needle) + 1, done |-> TRUE]
NotFound(position, matched, stop, end) ==
  [found |-> None, next |-> IF stop = end THEN end ELSE Resume(position, matched),
   done |-> stop = end]

Results == [found : Int, next : Int, done : BOOLEAN]

-----------------------------------------------------------------------------
(* What a search is for.                                                   *)

Occurrences(body, needle, start, end) ==
  {p \in start..(end - Len(needle)) : SubSeq(body, p + 1, p + Len(needle)) = needle}

FirstOccurrence(body, needle, start, end) ==
  LET all == Occurrences(body, needle, start, end) IN IF all = {} THEN None ELSE Min(all)
=============================================================================
