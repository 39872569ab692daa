# Sippin Soda: a TLA+ model of the local proxy engine

Sippin Soda is a desktop application (Tauri shell, React window) around a local
HTTP proxy written in Rust. The proxy listens on loopback, shows a bounded list of
captured exchanges, can pause or change responses of *Development* destinations,
records bodies on disk under a budget, repeats single requests, and, after an
explicit procedure, terminates TLS for Development hosts. This directory models
the parts of it whose correctness depends on interleavings, limits and failures.

Paths below are relative to the repository's root; `proxy.rs` is
`crates/engine/src/proxy.rs`, and so on.

## 1. The system

| Part | State it keeps | Operations | What is hard | Module |
| --- | --- | --- | --- | --- |
| Policy (`lib.rs`) | none | `authorize(class, action)` | nothing; everything active depends on it | `Policy` |
| Destination classifier (`proxy.rs:280-420`) | the Development and Production rules of a run | compile, classify | two lists that share a host nobody listed; label boundaries | `Classifier` |
| Proxy engine (`proxy.rs`) | run configuration, phase, loop task, capture list, breakpoint senders, replay templates and tokens | Start, Stop, Clear, snapshot, resolve, replay; one `handle()` per connection | the mutex is released many times in one exchange; tasks are aborted at any await; timers enclose timers | `ProxyEngine` |
| Body stores (`proxy/bodies.rs`, `proxy/bodies/inspect.rs`) | entries, one session budget, recording outcome, layouts | record, store, page, layout, cancel, clear | budget accounting by tasks that outlive their entry; a pipe between two tasks | `BodyStore` |
| HTTPS inspection (`ca.rs`, `tls_trust_check.rs`, gate of `tls_intercept.rs`, commands of `main.rs`) | the CA, the check's task, status and gate, the run's profile | generate, remove, start and cancel a check, start a run, CONNECT | commands that take several locks in sequence and run concurrently | `Inspection` |
| Tunnels (`proxy/tunnel.rs`) | one upstream sender per bridge, the CONNECT's capture | establish, run, inner requests | one capture taken over by the first inner request; a shared sender; tasks nobody joins | `Tunnel` |
| Capture list, as promised to its readers | who is listed, each outcome | begin, finish, forget | written by every task of the proxy | `Captures` (abstract) |
| Engine hook (`src/engine.ts`, loop of `main.rs`, revision of `proxy.rs`) | revision, subscription, last snapshot | poll, listen, refresh, commands | answers out of order; changes and revisions under separate locks | `Window` |
| Body viewer (`src/ResponseBody.tsx`) and search (`bodies/inspect.rs`) | page, search run, frozen range | read, page, find, cancel | late answers; matches across buffers and steps | `BodyView`, `BodyScan` |
| Other contents of bodies (`bodies.rs`, `inspect.rs`) | none | redact, decode, lay out, export | - | no |
| Traffic list, settings (`src/Traffic.tsx`, `src/main.tsx`) | forms, selection | - | - | no |
| TLS transport, build files, fixtures | - | - | - | no |

How they interact. The window calls commands; each command of `main.rs` is an
async function on a shared `ProxyEngine`, `CaManager` or `TlsTrustCheckManager`,
so any two run concurrently. `ProxyEngine::start` spawns the accept loop, which
owns one task per connection; a connection carries one request
(`keep_alive(false)`). All tasks and commands share one `Mutex<State>`; the loop's
handle is behind an async lock that `start` and `stop` hold. A response with a
breakpoint waits on a oneshot channel whose sender is in the map `breakpoints`.
Body stores have locks of their own and an atomic counter for the budget; entries
are removed by the engine when their capture leaves the list. A run with HTTPS
inspection holds a closure that asks the CA and the gate again for every CONNECT. A
CONNECT that is terminated serves further requests from inside, each an exchange of
its own except the first. The window polls nothing itself: a loop in `main.rs`
compares revisions every 250 ms and emits `engine-changed`; the hook answers with
`engine_snapshot`, and the body viewer with page and search commands of its own.

What makes each part correct, in a sentence:

- **classifier** - no accepted pair of rule lists gives a host two classes, and nothing unlisted becomes active;
- **list** - bounded by the current run's limit, in order, oldest out first, and nothing kept under an id that left;
- **lifecycle** - no more connections than the cap; "stopped" means nobody is served; Stop returns;
- **exchange** - every request is answered, its first outcome is final, its rules are those of the run that serves it;
- **policy** - no response is changed, and no request replayed, unless its destination is Development;
- **bodies** - the budget is exact, "complete" means the whole stream, every recording and layout ends;
- **tunnels** - each request has a capture of its own and one outcome; the shared sender is never kept; nothing outlives Stop;
- **window** - never behind a command that has returned, and in the end what the engine last told;
- **viewer** - the page is that of the offset, a match the first of its range, whatever arrives late;
- **inspection** - a CONNECT is terminated only with a leaf of a CA the run's client has accepted; cancellation leaves neither listener nor proof.

## 2. Modules

`Policy` <- `Classifier` <- `ClassifierProofs`; `Policy` <- `ProxyEngine` <-
`ProxyEngineProofs` <- `ProxyCaptureProofs`; `BodyStore` <- `BodyStoreProofs`;
`Inspection` <- `InspectionProofs`; `Tunnel` <- `TunnelProofs`; `Window` <-
`WindowProofs`; `BodyScan` <- `BodyView` <- `BodyViewProofs`. `ProxyEngine` and `Tunnel` both implement `Captures`. Each `MC*` module instantiates its
specification for TLC.

**Policy.** The three classes and `authorize`.

**Classifier.** A host is the sequence of its labels, so `*.b.c` is the suffix
`<<"b","c">>`. `matches`, `overlaps`, `Accepted` (the compile step) and `classify`
are `HostPattern` and `DestinationClassifier`. The small state machine compiles one
pair of lists and classifies one host. Trimming, case and character checks are
left out.

**ProxyEngine.** A connection, its `handle()` call and its `Exchange` are one
actor. An action is the code between two points at which another actor could take
the mutex and tell the difference, or at which the task may be dropped (an await).
`pc[c]` names these points:

| `pc` | code |
| --- | --- |
| `served`, `admitted` | the connection is accepted; the token or the credentials were checked (`handle`) |
| `connecting`, `sending` | `begin_exchange` is done; `connect_upstream`; `send_request` |
| `headed`, `paused`, `elapsed` | response head and rule; the 15 s pause; its timer has fired |
| `responding`, `storing`, `recording`, `recorded`, `streaming` | the final head; `store_complete`; `record`; the second look at the list; the body |
| `dropping`, `done` | the `Exchange` is about to be dropped; it was |

`traffic` is the list of ids; `breakpoints`, `templates`, `tokens` and `bodies` are
the key sets of the maps; `capture[c]` is the record of `c`, visible while its id
is listed (`Exchange::update` looks it up). `channel` and `decision` are the oneshot
channel of a pause: `resolve_response_breakpoint` removes the sender under the lock
(`TakeSender`) and sends after it (`SendDecision`). `live` is the `JoinSet`. A body
here is present or absent, and the storage jobs are one step with either outcome.
`worker[c]` is the task that sends the request body: it passes the body on, copies a
JSON body for inspection as long as it is small enough (`LoseCapture`), and reports a
failing one as the outcome of the exchange (`RequestBodyFails`), wherever the exchange
itself is by then. The end of an empty response (`finish_empty`, `proxy.rs:1892`) is
part of the body that streams.
The revision, header and target text, CONNECT, and counters derived from the list
are left out. `capture_limit`, caps, rules, classes and authentication change with
every Start (`Configs`).

**BodyStore.** Bodies are counted in chunks. `Recorded` bodies pass through a pipe
of `Pipe` chunks to a worker that decodes, reserves and writes; `Copies` and
`Replacements` are stored whole by a blocking job, the first from a detached task,
the second inside an exchange that may be dropped (`Abandon`). A layout has its own
task, reservation and semaphore of two permits. `Cancel` is `Entry::cancel`. One
reader takes a page in the order of `page()`. What the bytes are is left out, so
that decoding fails is a choice (`WorkerFails`). What is kept of an encoding is who says
where a stream ends: the pipe, for an identity body and for gzip with its members; the
stream itself, for deflate and br, also while the transfer goes on (`StreamEnds`); nobody,
for an encoding that is not decoded (`Undecodable`).

**Captures.** The abstract list: a capture begins at most once, is finished at most
once and only while it is listed, and may be forgotten at any time. `ProxyEngine`
implements it with ids as keys (`KeepsCaptures`), `Tunnel` with connections and
requests as keys, where several tasks report about one capture.

**Tunnel.** A connection is a task of the listener and carries one CONNECT; `conn[t]`
goes through `preparing` (`establish`), `upgrading`, `handshaking` and `copying` or
`serving` (`Tunnel::run`). An inner request goes through `arrived`, `queued` (the wait
for the sender and for the head, both inside one `timeout`), `streaming` and
`dropping`. `fresh` is `first_request`, `owns[s]` the exchange a request got from the
swap, `queue[t]` tokio's fair mutex, whose head has the guard. `DropWith` is the
difference between the protocols: HTTP/1 requests live in the task of the connection,
HTTP/2 requests in tasks of the executor, which an abort does not reach. `upstream` is
the spawned task of the connection to the server: `Abort` leaves it behind, and
`UpstreamCloses` ends it when the last sender is gone. Admission is `ProxyEngine`'s,
whether a CONNECT may be terminated is `Inspection`'s, rule and pause of a response are
part of the wait for its head. The HTTP/2 handshake with the server has no timeout of
its own; it is part of what the lifetime of the tunnel covers.

**Window.** `news` counts what there is to see, so that a snapshot is a pair of a
revision and the number of changes it shows. `Note` and `Settle` change what is
visible without a revision, as `Exchange::update` and `finish` do; `Tell` is the second
critical section of `finish`. `hook[m]` is the promise of `listen()` for one mount of
the hook; an event is delivered to every registered listener in its own time.

**BodyScan.** `Prefix`, `Advance`, `Buffer` and the answers of a step are `scan()` on
words; `FirstOccurrence` is what a search is for.

**BodyView.** One viewer over one entry. A read is a page command with the effect that
issued it (`alive`); a search is the loop of `search()` between its awaits, with
`searchRun` as `run`. `Effect` is cleanup and body of the page effect, in one step with
the `setState` that causes it, so the frame between the two is not seen. A session fixes
what is opened and what its user may do. The exchange may end before its body is listed
(`Finish`, `Record`): a request body that fails ends it while the response is paused.

**Inspection.** `ca` is the credential store; ids are never reused, like
fingerprints. `CancelRunning`, `Joined`, `Bind`, `Announce`, `Spawn`, `Keep` are the
lines of `TlsTrustCheckManager::start` between its locks; `Trust`, `Refuse`,
`Publish`, `Report` its task; `StopFirst`, `ClearGate`, `Reset`, `ChangeCa` the
commands that cancel the check or change the CA. `AskProxy`, `CheckReadiness`,
`StartInspecting` are `start_proxy`; `ReadCa`, `Revalidate`, `Issue` the leaf issuer.
Stop and Start of the engine are atomic here; `ProxyEngine` has their detail, and
`ConnectionCap` (nobody is served when stopped) is what justifies ending all connections in one step. An
aborted task may go on to its next await, as in tokio: `aborted` does not disable
its steps. `trusted` and `quiet` are history.

Every definition above that a comment calls a *slip* is a plausible mistake in the
definition that follows it; it is used in no specification, only to show that the
property of a run notices it (`PROJECT.json`, `mutants`).

## 3. What is checked

Passing runs:

| Run | Instance | Shows |
| --- | --- | --- |
| `classifier` | 2 labels, rules of 1-2 labels, hosts of 1-3, at most 2 rules a list | `Unambiguous`, `OverlapIsCommonHost` (refused lists have a common host, accepted ones none), `ActiveOnlyOnListed` |
| `proxy_list` | 2 clients, a Development and a Production target, a rule and a breakpoint everywhere; runs with limit and cap 1 or 2 | `RetentionBound`, `OldestFirst`, `ConnectionCap`, `KeptForListed`, `ModifyOnlyDevelopment` |
| `proxy_replay` | a client, a replay of its capture, runs that change rules, authentication and limit | `ReplayMarkedDevelopment`, `OrphansAreRemoved` |
| `proxy_exchange` | one exchange through every wait, with a request body that may fail, with fairness | `RulesApplyToListed`, `StopCompletes`, `RequestsAnswered`, `KeepsCaptures` |
| `body_store` | a recording of any encoding and a replacement body, each with a layout, one reader, budget 2 | `BudgetBalances`, `CompleteIsWhole`, `RecordingSettles`, `BuildEnds` |
| `tunnel` | one CONNECT of each kind, two requests inside it of each form, with fairness | `OwnCapture`, `PendingIsHeld`, `InnerIsNotReplayable`, `QueuedOnce` (in `TypeOK`), `TunnelsEnd`, `RequestsSettle`, `StopEndsAll`, `KeepsCaptures` |
| `window` | an exchange, a command, two fetches, two mounts, two changes, one undelivered event per mount | `HigherIsNewer`, `CommandsStay`, `WindowCatchesUp`, `NoListenerStays` |
| `body_view` | a viewer that pages a growing body; one that searches a repeating body twice; buffers of 2, steps of 3 bytes | `SearchIsRight`, `PageIsOfOffset`, `SearchEnds`, `PageSettles` |
| `inspection` | 2 CAs, 2 checks, one command of each kind, one CONNECT | `BridgesAreTrusted`, `CancelDiscards`, `WaitingSettles` |

Runs that find a disagreement between the documentation and the code
(`PROJECT.json`, `findings`):

| Run | The documentation says | The code |
| --- | --- | --- |
| `replay_unlinked` | a replayed request is authorized again and linked (`HTTP_PROXY.md:77`) | Clear drops the token of a call under way; the request is forwarded as an ordinary one |
| `budget_leak` | the budget counts retained recordings (`HTTP_PROXY.md:63`) | a storage job whose exchange was dropped keeps its reservation for the session |
| `bridge_outlives_ca` | changing or removing the CA first stops the proxy and its bridges (`SECURITY.md:31`) | a run that starts between the stop and the removal keeps a bridge with a leaf of the removed CA |

Other disagreements met on the way, which no run states:

- a replacement body that is stored while its capture is cleared or evicted stays in
  the store until the next Clear (`proxy.rs:1829` does not look at the list again, as
  it does after `record`), although `SECURITY.md:9` says that Clear and eviction remove
  owned body files;
- the request deadline covers the breakpoint pause (`proxy.rs:1400`, `1757`), so a
  paused response can end in 504 with its capture still "waiting", although
  `SECURITY.md:15` says that it continues unchanged after 15 seconds;
- a decision accepted by `resolve_response_breakpoint` can be lost when the pause
  elapses at that moment (`proxy.rs:730`);
- after Stop the sender of a paused response stays in the map;
- after an accept failure Start says "already running" until Stop (`proxy.rs:919`);
- an oversized JSON request body, or one whose transfer fails, leaves
  `request_body_state` at "recording" (`proxy.rs:1246`, `1263`);
- a trust check that cannot bind leaves the status "waiting" (`tls_trust_check.rs:167`);
- the recording of a deflate or br body is complete at the end of its stream
  (`bodies.rs:346`, `363`); a transfer that breaks afterwards does not change that,
  although `HTTP_PROXY.md:63` makes interrupted transport visible as a partial state:
  with `StreamEnds` in the model, "a broken source is never complete" is false;
- a request body that fails while the response is paused ends the exchange; the
  viewer's last read is then refused (`ResponseBody.tsx:233`) and the body that is
  listed afterwards is never read, although `HTTP_PROXY.md:38` has it read until
  completion: without its first condition, `PageSettles` is false;
- two concurrent `start` calls detach the first check's task (`tls_trust_check.rs:224`),
  which the window prevents by disabling the button;
- while `replay_capture` is under way the window is busy and its decision buttons are
  disabled (`Traffic.tsx:283`): a replayed response that is itself paused can only time
  out, although `HTTP_PROXY.md:69` lets the inspector decide;
- head and bytes of a response that streams for long advance no revision by themselves
  (`proxy.rs:1839`), so the window may not show them before something else does.

### Bounds, and why they are enough

- *Connections*: the interactions are between one exchange and whatever evicts,
  clears, stops or resolves it; two exchanges suffice for an eviction of one by the
  other, three to fill a cap of two and be refused. Connections are used once, so
  their number bounds ids and steps.
- *Configurations*: a run with a larger and a smaller limit (the trimming loop of
  Start), with and without authentication, with the target's class withdrawn.
- *Body lengths* of two chunks and a budget of two: a body of one chunk fits with its
  layout or beside another one, a body of two fits alone; a pipe of one chunk makes the
  tee wait.
- *Request bodies*: `proxy_exchange` and `proxy_replay` have them, the first with every
  wait of a response, the second with evictions and restarts; `proxy_list` has none.
- *CAs and checks*: two of each, so that a proof for the first meets the second.
- *Requests in a tunnel*: one that takes over the capture of the CONNECT and one that
  does not, one that has the sender and one that waits; tunnels share nothing but the
  list, so one is enough.
- *Window*: the second change is the one a stale answer would undo; two fetches and a
  command arrive in every order; two mounts are what StrictMode makes. At most one
  event per mount is undelivered, which delays the loop and loses nothing.
- *Search*: a needle with a border of one in a body where matches overlap, longer than
  a buffer and as long as a step, so that matches lie across both; two searches, so
  that the answers of a cancelled one meet the next.
- *Hosts*: one label longer than every rule, where two suffix rules can meet.

A bound never closes off a failure: at every bound the same error branches exist.
Deadlock is not checked: a system whose connections, checks and CAs are used
up has nothing left to do.

### Fairness

The runtime polls every task that is ready, fires timers and completes blocking
jobs: weak fairness on the steps that run code without waiting for anybody, on
deadlines, on aborts and joins. Clients, upstream servers and the user owe nothing:
no fairness on accepting, on heads and bodies arriving, on decisions, on Stop, on
Clear. `RequestsAnswered` therefore rests on the deadline, `StopCompletes` on the
abort of every connection, `RecordingSettles` on the worker and on the tee noticing
it, `WaitingSettles` on the timeouts of accept and handshake (`Refuse`). In `Tunnel`
the request deadline covers the queue and the head (`RequestsSettle`), and only
`TunnelsEnd` assumes the lifetime timer (`Lifetimes`), so that `RequestsSettle` holds
in a tunnel that goes on for ever. In `Window` the loop ticks and Tauri delivers every
event, call and answer; an exchange need not end. In `BodyView` commands are answered
and the timer fires; no recording need end and no user act. `PageSettles` is about a
viewer that learns of the end of the exchange when the entry is already there, which
excludes the one disagreement listed above and no other. `RequestsSettle`,
`StopEndsAll`, `WindowCatchesUp` and the liveness of `BodyView` are stated with weak
fairness only.

## 4. What is proved

TLAPS checks these for all values of the constants. Every safety invariant and every
action property that a passing run checks is stated by one of them.

`ClassifierProofs`; assumption: the rule lists are sequences of patterns.

- `UnambiguousAlways`. The lemma behind it says that two patterns that match one host
  overlap: two suffixes of one sequence are suffixes of one another.
- `OverlapIsCommonHostAlways`, the converse, for any set of hosts in which every rule's
  name and a name one label longer can be asked for (`RulesReached`; the run's hosts are
  such a set). Without it the property says nothing: two overlapping rules would have no
  host to match. The longer name is the witness of two suffix rules (`LongerMatches`), as
  a suffix rule does not match its own name.
- `ActiveOnlyOnListedAlways`. `Current` says that what was classified last was classified
  by the lists in use: a start forgets the earlier answer.

`ProxyEngineProofs`, for any finite set of connections and any set of
configurations that are `Config`s:

- `TypeCorrect`, `RetentionAlways`, `OldestFirstAlways`. The invariant is
  `TypeOK /\ RetentionBound`: ids in the list are below `next_id` and increase, which
  is what makes an appended id the greatest, and `Len(traffic) <= limit` is what
  makes "evict one when full" enough in `begin_exchange`. `SuffixOfList`,
  `AppendToList`, `TrimmedList` and `RoomList` are the facts about the list;
  `ListChanges` says that only Start, Begin and Clear touch it.
- `ConnectionCapAlways`: within the cap while running, nobody once stopped. It is not
  inductive: `Joined` adds that
  whoever is served is in `live`, that `live` is within the cap, and that no task is
  in `live` when the loop has ended or never started. Start may therefore bring a
  smaller cap.
- `ModifyAlways`. `Owned` adds that ids are used by one connection only, that an
  exchange before its head has neither a rule nor an open decision, and that what is
  permitted was permitted when the request entered: the class in a capture is set
  once, before its id exists.

`ProxyCaptureProofs`, under the same assumptions, is about what an exchange keeps and
reports, and extends those invariants:

- `KeepsCapturesAlways`: `Spec => KeepsCaptures`, the refinement of `Captures`. Two tasks
  report about one capture, the exchange and the one that sends its request body. An id
  exists from the end of admission on, and a capture without one is pending (`Born`);
  `Outcomes` says that a step forgets captures, begins one, or lets one connection
  report, `ReportedListed` that a report settles a capture that is listed and pending.
- `KeptForListedAlways`. Ids are used once, so what a connection takes out of the map of
  decisions is its own (`KeptQuiet`).
- `OrphansAreRemovedAlways`. `Course` is the order of one exchange: the worker comes after
  the upstream is connected, the rule after the head, an applied decision after its
  channel accepted it. Whoever answers for a body (`Explains`) goes on doing so.
- `ReplayMarkedAlways`. `Calls` carries the origin that `replay()` found, and its profile,
  to the request that uses up the token; the class is taken again at its arrival, so a
  rule that was withdrawn in between leaves no mark.
- `RulesApplyAlways`. `Ruled`: from the head of the response on (`Headed`), the rule of a
  listed Development exchange is that of the configuration, which only Start changes,
  when nobody is served.

`InspectionProofs`, for any profiles, commands and connections and any number of CAs
and checks; assumptions: the names "stopped", "plain" and "none" are no profiles, and
the calls that start a check are others than the calls that cancel one.

- `InspectionTypes`. `Named` adds that a leaf under way and a task that is not over
  have a CA and a profile; without it, a task could publish a proof for nobody.
- `BridgesAlways`. `Proven` carries the acceptance along: it stands behind the gate,
  behind a task that confirms, and behind a leaf that is being issued. A run that
  starts takes over no connection, because "stopped" never accepted anything.
- `CancelDiscardsAlways`, under `OneStart`: the window starts one check at a time, as its
  button is disabled while a call is under way. Without it the property is false, by
  the two concurrent starts of section 3. `Tended` is the invariant: every live task has
  somebody who has its handle (the manager, the call that waits for it, or the call that
  is about to store it), and a finished cancel has outlived all of them.

`BodyStoreProofs`, for any bodies, budgets and bounds; assumptions: the three kinds of
bodies are disjoint and finitely many.

- `EntriesPayAlways`, the first half of `BudgetBalances`. `Untouched` adds that nothing
  runs for a body before its entry is listed. The induction carries the types along
  (`Shapes`), since a refund stays above zero only because the entry pays for it.
  `LedgerOfBody` is what the steps about one listed body share.
- `BudgetBalancesAlways`. The other half, that the session counter is what the entries
  reserved plus what stored files hold before they have one, is a sum over all bodies.
  `Total` is that sum; `SumExists` shows, by an induction over the subsets of a finite
  set, that the fold computes one, and `TotalChanges` and `TotalWithout` what a change at
  one body or the loss of some does to it. `AccountStep` is then one line of bookkeeping
  for each action: Clear and an eviction refund what their entries reserved, once.
- `EntriesFitAlways`: whatever runs with which budgets stored them, the entries of a
  session together never exceed the largest budget.
- `TypesAlways`, with `used` a number: no refund takes more than was charged
  (`UsedIsNatural`).
- `CompleteIsWholeAlways`. What is complete has every chunk its decoder returned; unless
  the stream itself said where it ends, it is also all that was sent, and nothing broke.
  `Recordings` says how far the pipe, the worker and the length that readers see may be
  apart, and that the tap settles the outcome before it is gone
  (an abort that came first would let the worker take the closed pipe for the end of the
  body); `CompleteStays` that an outcome is final, `PageAgrees` that state before length
  is the right order for a page.
- `TwoAnalysesAtMost`: `Permitted` counts the permits with the tasks that hold them.

`BodyViewProofs`, for any sessions and any number of unanswered commands:

- `PageIsOfOffsetAlways`. `Course` says of every command that is still alive that it asks
  for the offset on display, and that one effect is alive at a time.
- `SearchIsRightAlways`, for any bytes and needles and any sizes of buffers and steps. Its
  first part is the scan, as a function: `AdvanceIsLongest` (the inner loop falls back to
  the longest part of the needle that ends at the byte), `PrefixIsBorders` (the table holds
  the longest proper borders), `BufferPasses` (a buffer keeps `Passed`: how much of the
  needle ends here, and that no match has ended before), then what a step answers:
  `FoundIsFirst`, `DoneIsNone`, and `ResumeMissesNone`, the one that fails when a step
  resumes where it stopped. Its second part is the loop of commands: `Known` says that no
  match starts before the cursor of any search, cancelled or not, and that no two have
  one number; `Shown` that what is said of the newest one follows from its last answer.
  `Seek`, their conjunction, is inductive.

`TunnelProofs`, for any sets of connections and requests that do not overlap
(`KeysAssumption`):

- `TypesAlways`, which includes `QueuedOnce`: whoever waits for the sender of a tunnel is
  in its queue, once, and nobody else is. `QueueEffects` says that a step appends one
  request to a queue, removes one, or drops a tunnel with its queue.
- `OwnCaptureAlways`, `PendingIsHeldAlways`, `InnerIsNotReplayableAlways`. The invariant adds to them `Linked` (a request reports to
  its own capture, or to that of its CONNECT, which is then no longer `fresh`, and only
  one does), `Unborn` (nothing is recorded under a key that has not begun) and
  `Refusable` (a request that left a template has a target that is refused, so it never
  waits for the sender and never completes).
- `KeepsCapturesAlways`: `Spec => KeepsCaptures`, the refinement of `Captures`. `Effects`
  says that every step leaves the captures alone, reports about one, forgets one or
  begins one; `ReportedOutcomes` that a report keeps the outcome or is the first.

`WindowProofs`, for any number of exchanges, fetches, mounts, events and changes:

- `TypeCorrect`, `HigherIsNewerAlways`, `CommandsStayAlways`. Revisions and news only grow
  (`EngineGrows`), every snapshot was taken from the engine (`Taken`), and `Ahead` adds
  that a snapshot a command is about to return shows what the command did.

Proof steps follow the actions of `Next`, grouped where an action leaves the
invariant's variables alone (`JoinedQuiet`, `OwnedQuiet`).

The library's induction theorems take an operator as a parameter, which the provers
cannot instantiate. Where a proof needs one (the sums of `BodyStoreProofs`, the tables
of `BodyViewProofs`) it is stated for a set of good elements instead and follows from
`WFMin`: a least number that is not good (`LeastNumber`), or a smallest subset
(`SubsetsInduction`). `LeastNumber` therefore stands in both modules. A recursive
function is shown to exist the same way (`SumExists`, `KeptExists`, `TableExists`,
`ReadExists`), so that CHOOSE returns one.

Only model-checked: all liveness, which is out of the prover's reach here, like ENABLED
(`StopCompletes`, `RequestsAnswered`, `RecordingSettles`, `BuildEnds`, `WaitingSettles`,
`TunnelsEnd`, `RequestsSettle`, `StopEndsAll`, `WindowCatchesUp`, `NoListenerStays`,
`SearchEnds`, `PageSettles`). The three runs that expect a violation are TLC's by nature.

## 5. Plan

What is left, in this order:

1. An abstract store under an exact budget, implemented by `BodyStore` up to the leak of
   `budget_leak`.
2. The listing of bodies in `ProxyEngine` refined by `BodyStore`, so that
   `OrphansAreRemoved` and `BudgetBalances` speak of the same entries.
3. The traffic list's selection over snapshots that drop captures, on top of `Window`.

Not modelled, and why: certificates and TLS transport (rustls and rcgen are external);
decoding, JSON redaction and indentation (pure functions on bytes that the unit tests
exercise, and whose buffers `BodyStore` counts); the export dialog; header and target
formatting; the traffic list and the settings (derived from the snapshot); styles,
packaging, benchmarks.

## 6. Running it

`tlc -config MCProxyList.cfg MCProxyEngine.tla` and likewise for the other
configurations (each names its run in `PROJECT.json`); `tlapm ProxyEngineProofs.tla`,
and likewise the other modules named `*Proofs`. The
largest runs are `proxy_list` (4.8 million states), `inspection` (1.2) and `body_store`
(0.9, with liveness); `proxy_replay`, `body_view` and `window` have about 300 thousand
each, `proxy_exchange` and `tunnel` 170 thousand. Each takes less than three minutes.
