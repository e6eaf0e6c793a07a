# A formal model of reticulum-router

TLA+ modules, TLC configurations and TLAPS proofs about the programs of this
repository: the guard `rnguard`, the remote shell `rnsh`, the Git server and
clients `rngit` / `git-remote-rns`, the bandwidth test `rnperf`, the clients of the
shared instance (`rnpath`, `rnmcp`), the file tool `rnid`, and the identity file they
all keep. Every definition is
a translation of the code under `src/`; `PROJECT.json` names, for each of them,
the lines it stands for, and lists the components, runs, findings, hazards and
theorems this text explains.

Contents: 1 inventory, 2 modules, 3 runs, 4 findings, 5 proofs, 6 limits of the
models, 7 plan.

## 1. Inventory

All programs are separate processes. The network stack itself (`Transport`,
`Link`, `Channel`, `Resource`, the broadcast channel of link events) is the
Reticulum SDK, a dependency outside this repository; the models include of it what
the code here relies on, and `PROJECT.json` marks those definitions as external.

| component | source | state | operations | hard behaviour | module |
|---|---|---|---|---|---|
| announce accounting | `rnguard.rs` 244-321 | per-destination stamps, `reported` set | `record`, `prune` | lazy ageing, flag cleared elsewhere than it is set, coalescing | AnnounceTable, AnnounceTracker, RateAlarm |
| rnguard main loop | `rnguard.rs` 499-610, 655-880 | tracker, stream, `Stats` | subscribe, read a frame, handle it, blackhole, sweep, reconnect | stream that fails at any point, blocking call, limits tested only in sweeps | Rnguard |
| rnguard RPC authentication | `rnguard.rs` 328-497 | none that lasts | challenge, HMAC, request | an instance with another key, a program with none, a call that is given up and still executed | InstanceRpc; one step of Rnguard |
| rnsh listener, handshake | `rnsh.rs` 1025-1243 | receiver of link events, handshake flags | accept, version, identify, execute, refuse, deadline | one lossy channel for all links, handshake inline in the accept loop, authorisation gate | RnshListener |
| rnsh session | `rnsh.rs` 1245-1410 | child, pty descriptors, reader thread, sender task | stdin, end of input, output, poll, report, clean up | thread + tasks + process interleaved, descriptors shared, `waitpid` only when idle | RnshSession |
| rnsh initiator | `rnsh.rs` 557-636, 781-1017 | deadline, escape handler, input and output tasks, exit code | find the identity, link, handshake, stdin, stdout, exit | one deadline for three waits, escapes split between reads, events overwritten | RnshInitiator |
| rngit requests and resources | `client.rs`, `server.rs` 60-380, `transfer.rs` | inbound/outbound resources, retries, responses | request, advertise, ask, part, proof, retry, time out | loss, reordering, late answers, retries racing with progress | RngitTransfer |
| rngit request handlers | `server.rs` 380-1096 | repositories on disk | list, repos, fetch, push, delete, create | permission then creation then push, failing steps; branches that move between a list and a fetch | RngitRepository, RngitFetch |
| repositories and permissions | `gitutil.rs`, `perms.rs`, `config.rs` | directory, objects, refs, `.allowed` | create, apply a bundle, update, delete, make bundles, unpack, resolve permissions | several steps without a transaction | RngitRepository, RngitFetch |
| rngit command line | `rngit.rs` | a list fetched before | push, delete, clone, listings | list that is stale when used, several requests per command | RngitRepository (push, delete), RngitFetch (clone, listings) |
| git-remote-rns | `git-remote-rns.rs` | refs last listed, options | list, fetch batch, push batch, option | batches, one request each; stale list; two parsers of the same lines | RngitRepository (list for-push, push), RngitFetch (list, fetch) |
| router instance | `main.rs` 83-566 | interfaces, transport | start, wait for ctrl-c | none outside the SDK | no |
| identity file | `main.rs` 899-963 and its copies | a file | load or create | two programs at once, a crash between creation and writing | IdentityFile |
| metrics endpoint | `main.rs` 568-890 | cached text | collect, serve | task per connection, shared cache | no |
| rnperf | `rnperf.rs` | session counters | handshake, send, measure, ask for the result | sessions that share one lossy channel, repeated requests, deadlines tested only on events | Rnperf |
| rnpath, rnmcp | `rnpath.rs`, `rnmcp.rs` | one call at a time; the tables are the instance's | queries, drops, blackholes; MCP lines and tools | calls that fail, time out and are executed late; several connections per operation | InstanceRpc |
| rnid | `rnid.rs` | files | make identities, sign, validate, encrypt, decrypt, write | files created before they are filled, overwriting, signatures of files that changed | RnidFiles |
| configuration | `config.rs` | none | parse | none | no |
| rnpage, rnsniff | their files | none to speak of | serve a file, print events | none | no |

What makes each of the modelled components correct:

- **accounting**: a destination's count is the number of its logical announces in
  the last window, whatever the order of packets and sweeps; every flood is
  reported, once, and again only after a window of silence.
- **main loop**: a busy stream does not keep the table from ageing; a lost stream
  is made again without losing the accounting; `--once` ends the program.
- **listener**: nothing runs for a peer before that very peer has proved an
  identity of the allow list; a refusal is final; a handshake ends.
- **session**: descriptors are closed once, the reported exit code is the child's,
  no zombies, the session ends.
- **requests**: executed at most once, kept until the server has the whole of them,
  answered with their own answer; when nothing is lost a request fails only if the
  server had it and gave no response.
- **repositories**: only entitled peers move branches, nothing is overwritten
  without force, what is reported as pushed was pushed, a repository has an owner.
- **reading**: a clone is a state the server really had, and the only one in its
  directory; git can fetch what it may read.
- **initiator**: the listener gets what was typed without the escapes, once and in
  order; output has no gap; a status of the command means all its output was shown.
- **rnperf**: a result counts the packets of that test and no others, and all of them
  when none was lost.
- **calls to the instance**: what a program says it did was done, once; rnmcp answers
  each request once, in order.
- **rnid**: nothing is overwritten without `--force`; "valid" means signed as it is by
  the key that is reported (and should mean: by the one that was named, section 4).
- **identity file**: an identity a program runs with is in the file.

Interactions. rnguard talks to the instance by one control socket per call and one
long-lived event stream. The rnsh listener hands a link over to a session task that
takes a *new* receiver of the same event channel. An rngit request travels as a
packet or a resource, is executed by the server's single task, which runs git
synchronously, and comes back as a packet or a resource; a client's command is a
sequence of such requests. `git` drives `git-remote-rns` over pipes, one batch at
a time.

## 2. Modules and their correspondence to the code

**AnnounceTable** holds the data of `AnnounceRateTracker` and its methods as
operators, so that both state machines below use the same translation. A `Vec` of
stamps is a set (stamps are pushed in order, at least `Coalesce > 0` apart);
`Recorded` is `record`, `Reports` whether it returns a count, `Pruned` is `prune`.

**AnnounceTracker** is the tracker as a state machine: `Record(d, t)` and
`Prune(t)` at any times, with history variables (everything ever counted, the last
report, the last packet). **RateAlarm** is the abstract specification: an exact
sliding-window counter that never forgets and an alarm re-armed by a full window of
silence. `Alarm == INSTANCE RateAlarm WITH now <- clock, announces <- counted, ..` is the
refinement.

**Rnguard** puts the table into the program: one action per iteration of the
inner loop (`Idle`, `HandleQuietly`, `HandleReport`), each ending in `Sweep` as the
code does; `HandleReport` blocks in the blackhole call, `Filed` is its return.
`Resubscribe`, `ConnectOk/Fails`, `ListenOk/Fails` are the outer loop. The instance
pushes events (`Push`), may drop the oldest and may refuse.

**RnshListener** has the broadcast channel of link events (bounded, loses its oldest,
tells the receiver that it lagged), an honest peer per link in `Honest` and
otherwise peers that send anything in any order. `Accept` takes an `Activated`
event; `Identified`, `Version`, `OtherVersion`, `Exec`, `Broken`, `Discard`,
`HandshakeLagged` and `Tick` (nothing came for 500 ms) are the arms of
`do_version_handshake`. Each is an iteration of its loop and ends in `Continue`, which
looks whether the handshake is complete and only then at the deadline; `Expire` is the
passing of the 30 seconds, at any moment. `Complete` is `handshake_complete`, `Chosen`
the choice of the command.

**RnshSession** is `handle_link` in the parent after the fork: the loop's arms
(`Stdin`, `StdinEof`, `Ignored`, `Closed`, `Lagged`, `Poll`), `Leave`, `ReportExit`,
`CleanUp`, the reader thread (`ReadPty`), the sender task (`SendFrame`), the 3-second
cut-off (`Elapse`), and the child and the link as the environment.

**RngitTransfer** is one link with both endpoints. The network is a parameter of
the initial state: in order without loss, in order with loss, or unordered with
loss. `Send` .. `Lag` are `Client::request`, `RetryAdvertisements` its tick,
`Client*`/`Server*` the handlers of each packet type, `Tick` the server's tick. The server proves a request resource (`ServerPart`) before it looks at the
request (`Route`), and then rejects it (`Reject`: it does not decode, its path is unknown)
or executes it (`Execute`), with a response or, for reasons that have nothing to do with
the network, none; `silent` records both.
**RemoteCalls** is the abstract specification, without packets or resources: calls one
at a time, `Execute`d once at most where packets keep their order, be it after the client
has gone on, and either answered by one of their own executions (`Answer`) or given up
(`GiveUp`). `Calls == INSTANCE RemoteCalls WITH ..` is the refinement, `CallsSpec` its
specification.

**RngitRepository** is one repository, the server's handlers and the pushing peers.
A commit is the set of changes in its history (ancestor = subset), so that
fast-forwards, bundles and prerequisites are set expressions. `List`, `Push`,
`Delete`, `Create` are the handlers; `MakeDir`, `InitBare`, `WriteAcl`,
`CreateFails` the steps of `create_repository`, between which the server may crash;
`StartPush`, `Listed`, `Pushed` are `rngit push` (one bundle for all branches, stops
at the first refusal) and, for peers in `Helpers`, git's push through
`git-remote-rns` (a bundle per branch, goes on). Update requests are what other
clients of the protocol send. **MCRngitRepository** gives it working repositories.

**RngitFetch** is reading from one repository whose branches move (`Move`):
`ListReply`, `ReposReply` and `FetchReply` are the handlers, `StartClone`, `Listed`,
`Fetched`, `InitRepository`, `Unpack`, `AddRemote` and `Checkout` are `rngit clone` and
its git commands, each of which may fail (`LocalFails`); `Helper*` is git's fetch, with
`FirstName` and `NextName` for the two ways in which `run()` parses the lines of a
batch. All clones are into one directory, which is the interesting case.

**Rnperf** has an initiator per link and the listener's main loop (`Accept`) with one
session per link (`Hello`, `Count`, `SessionLate`). Every receiver of the listener has
its own position in the event channel and loses the oldest events when it lags; both
programs go on after a lag. Tests on other links appear as `Foreign` messages.

**RnshInitiator** is the initiator up to its exit: `ResolveListenerIdentity` ..
`VersionReceived` before the session, then two tasks, `Read` / `SendFrame` /
`StopReading` on the standard input and `Session` / `Disconnected` / `Lagged` on the
events. `ProcessByte` is the `EscapeHandler`'s method of that name; `FrameBytes` says
which lengths `compress` may put into a frame. The listener may say anything.

**InstanceRpc** is what `rnpath`, `rnmcp` and rnguard's `Control::blackhole` have in
common: a job is a list of calls, each over a fresh authenticated connection (`Dial`),
answered (`Answered`), refused (`DialFails`) or given up (`CallUnanswered`) while the
instance may still execute it (`ServeRequest`). The operations named as in the code
(`do_table`, `get_metrics`, ..) are the calls they make and which of those they need;
`Further` is what an answer leads to. `AnswerLine` and `CallTool` are the two sides of
rnmcp's `handle_message`.

**RnidFiles** is rnid run after run on one directory: `GetIdentity` draws an
invocation, then one action per operation, with `Open` and `Fill` apart where the code
creates a file and then fills it, and `WriteIdentity` for `-w`. It may die between any
two of these (`RnidDies`), and the user edits the file that is signed (`Edit`).

**IdentityFile** is `load_or_create_identity` in several programs at once.

**MCCommands** puts these six next to each other, one `part` chosen in the initial
state: they share no state, so that a behaviour of the composition is one of a part.
**MCRnguard** (AnnounceTracker and Rnguard), **MCRnsh** (RnshListener and RnshSession) and
**MCRngit** (RngitTransfer and RngitRepository) do the same with two parts each, with the
fairness of each part for its own behaviours.

Definitions marked *faulty variant* are not part of any specification. Each is a
plausible bug, and with it in the place of the definition it follows TLC finds the
property that `PROJECT.json` pairs it with violated; this shows that the properties
depend on the code.

## 3. Runs

Each run takes one to three minutes with two workers. The type invariants also carry the
bounds the code keeps (queue and retry limits, one request at a time).

| run | checks | bounds, and why they are enough |
|---|---|---|
| `rnguard`, table | `WindowExact`, `FloodFlagged`, `CoalesceCeiling`, refinement `AlarmSpec` | 2 destinations, window 3, threshold 1, coalescing 2, clock to 10: three full windows, so that a flag is set, kept, cleared and set again; the proofs cover all other values |
| `rnguard`, program | `TableFresh`, `OnceSoon`, `ReportsApart`, `StreamRecovers` | 2 destinations, `--once 2`, prune interval 2 below window 3, stream of 2, clock to 6: a report, a prune, silence, a second report and the limit fit, with an outage in between |
| `rnsh`, listener | `AuthGate`, `OwnCommand`, `HandshakeEnds` | 2 links (an honest and an arbitrary peer), 2 identities, 4 messages a peer (the three of a handshake and one out of place), except errors, which a peer may send without end (`Repeats`), so that the channel need never be empty; channel of 2, so that it overflows |
| `rnsh`, session | `MasterClosedOnce`, `ExitTruthful`, `NoZombie`, `SessionEnds` | 4 events on a channel of 2 (overflow), 2 chunks of output (one in the pty while one is in the channel), exit codes 0 and 1 and a signal |
| `rngit`, transfer | `ExecutedOnce`, refinement `CallsSpec`, `KeptUntilWhole`, `ReliableAnswers` | 3 networks; 2 requests (1 when unordered), so that a late answer meets a new request; 2 parts with a window of 1, so that parts must be asked for twice; 1 retry each side |
| `rngit`, repository | `NoBlindForce`, `ReportedIsWritten`, `WritersOnly`, `PushComplete`, `RefusalExplained`, `OwnedOrGone` | 2 peers (an rngit user who may create, a git user who may also write), 2 branches, commits {x}, {y}, {x,y}: behind, ahead, diverged; 2 commands (a race, or a retry after a timeout), 1 crash |
| `commands`, fetch | `CloneFaithful` | 2 callers of rngit and git, 2 branches, commits {1} and {1,2}, 2 moves: a branch advances and disappears between list and fetch; 2 starts: a race of two clones; 1 failing command |
| `commands`, perf | `ResultHonest` | 1 initiator beside a foreign link, which sends 1 message of any kind; channel of 2 (overflow), 2 packets, 2 requests for the result, 1 loss |
| `commands`, initiator | `InputFiltered`, `OutputGapFree` | reads of 2 bytes and 4 bytes typed, of newline, `~`, `.` and `L`: every escape, in one read and split; frames of 1 byte; an event channel of 1, which overflows; 2 blocks of output |
| `commands`, rpc | `OutcomeTruthful` | an instance, a program with another key and one without; 3 clients, 2 jobs between them, 1 change by the network: a late execution meets the next job, of the same or another program |
| `commands`, files | `FilesKept`, `ValidMeansSigned` | 2 keys, 2 texts, 2 runs of rnid with every combination of flags, 1 edit and 1 death |
| `commands`, identity | `RunningIsStored` | 2 programs, 3 identities, 2 deaths |

The parameters that only bound the state space are `MaxClock` and `MaxTime` (clocks),
`StreamCap`, `Capacity`, `Slots` (buffers, which exist in the system with larger values), `MaxMessages`,
`MaxEvents`, `MaxOutput`, `MaxRequests`, `MaxUnordered`, `MaxCommands`, `MaxCrashes`,
and in the parts of `commands` `MaxStarts`, `MaxMoves`, `MaxFaults`, `MaxPackets`,
`MaxAsks`, `MaxLosses`, `MaxForeign`, `MaxRead`, `MaxTyped`, `MaxSaid`, `EventRoom`,
`MaxJobs`, `MaxTraffic`, `MaxRuns`, `MaxEdits`, `MaxDeaths` and `MaxDies`. They are guards
of what the environment and the users do; a step the
program takes by itself is refused by none of them but the clock.

What the properties say, beyond their comments in the modules:

- `ExecutedOnce` holds only while packets keep their order: on an
  unordered network a repeated advertisement that arrives after the resource was
  complete starts the transfer over, and the request is executed again. The
  module states this dependence as a premise.
- `CallsSpec` says that an answer is one of an execution of that very request, never of
  one that timed out before, and that a request is not both answered and given up. An
  execution may come after the client has given up, and does.
- `OwnedOrGone` holds only without a crash: after one between the steps of
  `create_repository` a directory without an owner remains, which the creator may
  neither push to nor create again.
- `PushComplete` and `RefusalExplained` speak of pushes that nothing came between.
  Interference is covered by `NoBlindForce`: a stale list never makes `rngit push
  --force` overwrite a branch the list did not show.
- `CloneFaithful` speaks of clones that had the directory for themselves; of two that
  race, at most one reports success, but the directory may hold branches of both.
- `InputFiltered` compares `process_byte` with a definition that looks at the typed
  bytes as a whole. It leaves out line mode, and a newline typed right after an
  escape's tilde: the code forgets the line but not the tilde, so that `newline ~
  newline .` quits.
- `ResultHonest` is exact for links on which nothing was lost; for the others it says
  that no packet of somebody else was counted.
- `FilesKept` leaves out one case: `rnid --raw -s` with an encoding of text overwrites
  the signature without `--force`. What it is about is that each of a run's writes looks
  for itself; a death between two of them cannot break it.
- `ValidMeansSigned` is about the key that is *reported*. That the key that was *named*
  (`-i`) need not be the one is finding 5 below.
- `KeptUntilWhole` does not say that a request was executed: the proof on which the client
  drops its resource is sent before the request is decoded and routed.
- `ReliableAnswers` allows a request to time out on the network that loses nothing when
  the server had the whole of it and gave no response (`silent`): an unknown path, a
  request that does not decode, a busy link, a response too long for its packet.
- `HandshakeEnds` needs that the loop looks at its deadline after every event: the
  listener's receiver need never be empty, and nothing is assumed of its emptiness.
- `ExitTruthful` allows status 0 for a session that was cut off or that lagged, as the
  code reports it; `NoZombie` is about sessions that were not cut off (the child of one
  that was is killed and not waited for, `rnsh.rs:1381`).
- `OutputGapFree`: a session that lagged exits with 0, which is not its command's
  status; what the property says of statuses is about the others.
- `OnceSoon` is about limits above 0; for 0 see finding 3.
- `OwnedOrGone` takes the removal of a half-made repository (`gitutil.rs:399`, 407, 415)
  as something that does not fail; the code ignores its result.

Deadlock checking is on for `rnguard` (the table's clock can always repeat its last
value, and `Ended` is an explicit stuttering step); the other systems really may
stop: a listener that ended, a session that is done, a client without commands, a
command that has ended. Clones and programs that share an identity file are
interchangeable (`Symmetry`, with which only invariants are checked).

**Fairness.** Only what schedulers and timers provide. `Rnguard`: strong fairness of
a successful connection and subscription (the loop retries for ever; "an instance
that is asked again and again answers") and weak fairness of the return of the
blackhole call, which has a socket timeout. `RnshListener`: the listener's task is
scheduled (`Listen`) and time passes (`Expire`); that the deadline is then *seen* follows
from what the loop does. `RnshSession`: the session's task is
scheduled and its 3-second limit passes; nothing is assumed of the child, the peer,
the reader thread or the sender. Since a session's events are finite
(`MaxEvents`), `SessionEnds` says that it ends once the events of all links pause;
with an endless stream of them the code may never call `waitpid`, which is listed
as a hazard. `RngitTransfer`: both tasks are scheduled and the request's deadline
comes; on the reliable network neither the deadline nor the server's last retry strikes
while packets are under way, so that `ReliableAnswers` is about retries and not about slowness.
`RngitRepository` and the parts of `MCCommands` have no liveness property.

## 4. Findings

Each is a run that TLC ends with a counterexample, and a line of the repository
that says otherwise.

1. `tracker_coalesce`, `QuietBeforeCount`: a packet is compared with the last
   *counted* one, so that a steady trickle of repeats, each within `coalesce` of the
   previous packet, is counted; the comment of `record()` says it is discarded.
2. `rnguard_ceiling`, `CeilingEnforced`: the `reported` flag is set before the
   blackhole call; after a call that failed, a later announce that is counted over the
   threshold finds its destination flagged, not on the instance's list, and files nothing.
3. `rnguard_once_zero`, `ZeroRunsForever`: `--once 0` is documented as "run forever" and
   ends the program at its first prune, because the limit is met at once.
4. `rnsh_fallback`, `FallbackServed`: the local identity file, documented as what the
   initiator falls back to when announces do not propagate, is looked at only when the
   deadline of the whole handshake has passed; the link that is then asked for comes up
   and the handshake fails on that deadline (the same in `rnperf.rs:355`, 613).
5. `rnid_named`, `SignedByNamed`: `-i` with the hash of an identity, or a file that is
   not there, counts as no identity where the operation can do without; a validation
   then calls a signature of any key valid.
6. `rnsh_tried`, `EveryLinkTried`: a link that comes up during another link's
   handshake is never served; the handshake drops its `Activated` event.
7. `rngit_push_lands`, `PushLands`: `rngit push` of a branch whose commit is already in
   a branch of the server (a new branch at a known commit, a forced step back)
   fails, because the bundle would be empty or would leave the branch out.
8. `fetch_lands`, `FetchLands`: the first line of a fetch batch is parsed with its word
   `fetch`, so that the name that is asked for is `<sha> <ref>`; the server refuses it
   and every fetch and clone of git through the helper fails.

Smaller things met while modelling, which the models follow and no run is about:
`--no-remote-command` has no effect unless the listener has a command of its own
(`rnsh.rs:1230`, help at 754). The end of the peer's input closes `master_fd`, but the
reader thread's duplicate keeps the pty open and the child never sees it (`rnsh.rs:1354`).
What was typed before `~.` in the same read is
dropped, and rnsh exits with 0 after a remote error, a closed link or a lag. The
`Activated` event of a fast link may come before the events are subscribed to
(`rnsh.rs:845`, `rnperf.rs:636`). rnmcp answers unknown notifications with an error
(`rnmcp.rs:412` says there is no response). rnpath takes a failed look-up for an
unknown path, and `drop_announces` always says that it did. rnid: `-w` beside another
operation also writes the identity; an empty file decrypts to an empty file with status
0. An initiator whose output cannot be decompressed or written goes on silently
(`rnsh.rs:982`); the model shows every block.

## 5. Proofs

`AnnounceTracker_proofs` proves, for every set of destinations, window, threshold,
coalescing interval and clock bound:

| theorem | statement |
|---|---|
| `TrackerCorrect` | `TrackerSpec => []TrackerInv` |
| `TypeCorrect` | `TrackerSpec => []TrackerTypeOK` |
| `WindowIsExact` | `TrackerSpec => []WindowExact` |
| `FloodIsFlagged` | `TrackerSpec => []FloodFlagged` |
| `TrackerImplementsAlarm` | `TrackerSpec => AlarmSpec`, the refinement of RateAlarm |
| `CoalescingCeiling` | `TrackerSpec => []CoalesceCeiling` |
| `UnreachableThreshold` | if `Threshold * Coalesce >= Window`, nothing is ever reported |

*Assumptions*: `TableAssumption` (window, threshold and coalescing interval are
positive naturals; the program's argument parser refuses a zero window or
threshold, and `-c 0` is left out) and `TrackerAssumption` (`MaxClock` is a natural).

*Argument.* `WindowExact` and `FloodFlagged` are not inductive. `TrackerInv` adds
`Past` (stamps in the table were counted and none is of the future: needed because
`Live` has no upper end while the abstract window has one), `Spaced` (stamps of a
destination are at least `Coalesce` apart, on which the ceiling rests) and
`FlagMeansAlarm` (a flagged destination was
reported; one that was reported and is no longer flagged had a silent window since,
without which the second report of a destination would not be a step of the alarm).
`RecordInv` and `PruneInv` preserve it, one step per conjunct. The refinement maps
`Record` to `Repeat` or `Count` by `LiveIsWindow` (the live stamps are exactly the
alarm's window) and `Prune` to `Pass`. The ceiling is a counting lemma,
`SpacedCount`: a set of integers in an interval of length `w`, `c` apart, injects
into `0 .. (w-1) \div c`.

`Rnguard_proofs` proves, for any destinations, window, threshold, intervals, `--once`,
size of the stream and clock bound:

| theorem | statement |
|---|---|
| `RnguardTyped` | `RnguardSpec => []RnguardTypeOK` |
| `TableStaysFresh` | `RnguardSpec => []TableFresh` |
| `LimitIsSeenSoon` | `RnguardSpec => []OnceSoon` |
| `ReportsFarApart` | `RnguardSpec => ReportsApart`, an action property |

*Assumptions*: `TableAssumption` and `RnguardAssumption`. *Argument.* None of the three
is inductive, since a sweep prunes only when `PruneInterval` has passed. `Aged` states
freshness relative to the last prune instead of the last sweep (what is in the table had
a stamp that was live then); `LimitKept` says that a sweep never leaves a prune overdue
and that a loop that goes on has not pruned since the limit was reached; `Flagged` says
that a flagged destination has a stamp of its report or later, and one that is no longer
flagged has been silent for a window since. They are preserved by two lemmas about the
tracker's methods (`RecordedIs`, `PrunedIs`), and `SweepHolds` is used by every
action that ends an iteration.

`RnshListener_proofs` proves, for any links, honest or not, identities, allow list,
commands, messages and size of the channel:

| theorem | statement |
|---|---|
| `ListenerTyped` | `ListenerSpec => []ListenerTypeOK` |
| `AllowListGates` | `ListenerSpec => []AuthGate` |
| `SessionRunsOwnCommand` | `ListenerSpec => []OwnCommand` |

*Assumptions*: `ListenerAssumption`, of which `"no link" \notin Link` was added for the
proofs (the model's mark for "no handshake" is not a link). *Argument.* The flags of the handshake
are the link's own: `QueueSent` (an event in the channel was sent by its link),
`HandshakeTruth` (what the handshake has noted was sent by the link it is about) and
`ActivatedOnce` with `Untouched` (no link is tried twice, so that neither a refusal nor
a session is overwritten).

`RnshSession_proofs` proves, for any exit codes, output, events and size of the channel:

| theorem | statement |
|---|---|
| `SessionTyped` | `SessionSpec => []SessionTypeOK` |
| `DescriptorClosedOnce` | `SessionSpec => []MasterClosedOnce` |
| `ReportedCodeIsTrue` | `SessionSpec => []ExitTruthful` |
| `ChildIsReaped` | `SessionSpec => []NoZombie` |

*Assumptions*: `SessionAssumption`. *Argument.* `MasterTracked` relates the flag
`master_closed` to the descriptor until the clean-up, `VerdictTrue` the session's
`child_exited` and code to the child that was waited for, wherever the loop was left;
`Conserved` bounds what is on its way by what was written, without which the counters
have no bound.

`RngitRepository_proofs` proves, for any peers, writers, creators, branches, commits,
working repositories, commands and crashes:

| theorem | statement |
|---|---|
| `RepositoryTyped` | `RepositorySpec => []RepositoryTypeOK` |
| `OnlyWritersWrite` | `RepositorySpec => []WritersOnly` |
| `MadeWithOwner` | `RepositorySpec => []OwnedOrGone` |
| `HistoryIsWhole` | `RepositorySpec => []AllStored`, in the proof module: no push leaves a gap in a history |
| `ReportIsTrue` | `RepositorySpec => []ReportedIsWritten` |
| `SuccessIsComplete` | `RepositorySpec => []PushComplete` |
| `FailureIsExplained` | `RepositorySpec => []RefusalExplained` |
| `ForceIsInformed` | `RepositorySpec => NoBlindForce`, an action property |

*Assumptions*: `RepositoryAssumption`, to which "there is a working repository" was
added (a peer that is idle is modelled with one). *Argument.* `RepositoryInv` has, besides
the types: `BornEmpty` (no owner and no branches before `create_repository` is through);
`AllStored` and `PushesOK` (the store is closed under history, and a bundle in flight
closes it again: the server's check of prerequisites is enough); `OneAsked`,
`OkIsWritten` (a command has one request out at most, and none whose answer
has come; an answer "ok" is to a request that set the branch); `Undisturbed` (as long as nothing came between, what
the pusher was shown, corrected by what it has pushed, is what the server has) and
`Running` (a command that goes on has not failed yet). The last two are why success means
every branch and failure has one of the reasons the code gives.

`RngitTransfer_proofs` proves, for any number of requests and parts, window and retries:

| theorem | statement |
|---|---|
| `TransferTyped` | `TransferSpec => []TransferTypeOK` |
| `AnswerIsTheRequests` | `TransferSpec => []AnswerIsMine` |
| `RequestExecutedOnce` | `TransferSpec => []ExecutedOnce` |
| `RequestKept` | `TransferSpec => KeptUntilWhole`, an action property |
| `TransferImplementsCalls` | `TransferSpec => CallsSpec`, the refinement of RemoteCalls |

*Assumptions*: `TransferAssumption`, with the bound for the unordered network not above
the other. *Argument.* `NetOK` says what may be in flight: a response, and a part of one,
is of an execution that took place, a proof is of a request that the server had whole.
That gives `AnswerIsMine` and `KeptUntilWhole` on every network. `Once`, for the
networks that keep order, follows a request through the channels: no advertisement
is behind a part of it and no part request behind its proof, so that after the last part
nothing can start the transfer again; a resource of which parts are under way is marked as
sent, so that `retry_advertisements` leaves it alone; and the client keeps it as long as
anything in flight may ask for it. That packets keep their order is used where a
packet is taken from the head of a channel (`LessIs`). The refinement maps `Send` to `Begin`,
the execution of a packet or of a resource that is whole to `Execute` (`Once` afterwards is
why it is the first where packets keep their order), a response that answers the request to
`Answer` (`NetOK` and `ResponsesOK`: it is of an execution of it), a deadline, a lag and an error
to `GiveUp`, and all else to a stutter.

`RemoteCommands_proofs` proves, of git and rngit reading from a server, for any commands,
callers, branches, commits, moves and failures:

| theorem | statement |
|---|---|
| `FetchTypeCorrect` | `FetchSpec => []FetchTypeOK` |
| `ClonesAreFaithful` | `FetchSpec => []CloneFaithful` |

*Assumptions*: `FetchAssumption`. *Argument.* `CloneFaithful` speaks of a clone that is
over. `Told` says what each command has heard at each of its places: the branches it was
listed, and those of its bundle, were all the server's at one moment since its
list. `CloneMade` says what a clone that had the directory for itself
has made of it step by step, `Settled` that at most one clone gets beyond adding the
remote, because git refuses a remote that is there.

of rnperf, for any initiators, packets, losses, foreign messages and size of the channel:

| theorem | statement |
|---|---|
| `PerfTypeCorrect` | `PerfSpec => []PerfTypeOK` |
| `ResultsAreHonest` | `PerfSpec => []ResultHonest` |

*Assumptions*: `PerfAssumption`. *Argument.* A result is a number that has travelled, so
the invariant counts: on a link that lost nothing, what the session has counted and what is
still on its way to it are together what the initiator has sent (`Counted`). For the number
to be final when it is asked for, no packet may be behind the request for the result, and
none before the configuration (`InOrder`), in the link or in the session's part of the
event channel. `Answers` says the same of the number on its way back, `Shaken` that the
session exists before there is data and knows the version before the configuration comes,
`Once` that a link is announced to the listener's main loop once. On a link that lost something the
session still counts no packet of another link.

and of the initiator of rnsh, for any reads, bytes typed, frames, output and size of the
channel:

| theorem | statement |
|---|---|
| `InitiatorTypeCorrect` | `InitiatorSpec => []InitiatorTypeOK` |
| `InputIsFiltered` | `InitiatorSpec => []InputFiltered` |
| `OutputIsGapFree` | `InitiatorSpec => []OutputGapFree` |

*Assumptions*: `InitiatorAssumption`. *Argument.* The handler of escapes keeps some flags
and a line, the property looks at everything that was typed. `Follows` relates them: the
state of the handler after what was typed, and what it has let through (in frames or still
to be sent). One byte keeps the relation, and by induction a whole read does. That induction
is over the length of a read; it needs no rule with a property as its parameter, but only
that a set of naturals that is not empty has a least element (`NatMin`, `UpTo`, from `WFMin`).
The handler is written as recursive functions (`AfterBytes`, `Filtered`) for this. `OutputInv`
says that the output that has not been shown waits in order among the events, the exit status
behind all of the output that came before it, unless the receiver lagged.

`Commands_proofs` proves, of the clients of the shared instance, for any programs,
destinations, ports, jobs and traffic:

| theorem | statement |
|---|---|
| `RpcTyped` | `RpcSpec => []RpcTypeOK` |
| `OutcomesAreTrue` | `RpcSpec => []OutcomeTruthful` |

*Assumptions*: `RpcAssumption`. *Argument.* Every operation and tool is made of queries, or
is one order that leads to nothing more (`RnpathOK`, `ToolsOK`, `FurtherOK`), and an order
is dialled once (`ClientOK`). So a job has one order, in flight or done (`OneOrder`, with
`FlightOK` and `DeedsOK`: what is in flight, or was done, is of calls that were made), and
a reply the client has heard is of the call it waits for; `ToldTrue` is what its verdict
then means. `LinesInv` says that the line rnmcp is at comes after all it has answered. That
calls are given up while their requests travel on changes none of this, since
nothing is dialled again.

of rnid's files, for any identities, texts, runs, edits and deaths:

| theorem | statement |
|---|---|
| `FilesTypeCorrect` | `FilesSpec => []FilesTypeOK` |
| `ValidIsSigned` | `FilesSpec => []ValidMeansSigned` |
| `NothingOverwritten` | `FilesSpec => []FilesKept` |

*Assumptions*: none are used (`FilesAssumption` only names the bounds of the runs).
*Argument.* `ValidMeansSigned` says nothing of the files, which a later run validates.
`SignedInv` adds that a signature in any file was made, and so was one that is about to
go into the open file: between the opening and the filling rnid may die, the user may
write, and what was signed must be what is written. What has been signed stays signed,
so that a step is judged by the contents it writes and the claim it makes (`Kept`);
`OperationEnded` and `Opened` are the two ways a step writes, and there is one lemma per
action. `FilesKept` compares with what the run found (`before`): `KeptInv` adds that nothing
was there at the path that is open, so that the filling of it, later, replaces nothing, and
that a run which is exempt from the property (`Exempt`: it overwrites by design) has
nothing to keep. `FilesTypeOK` says which path may hold which kind of contents; `KindsInv`
adds that what is about to be filled in (`Opening`) fits its path.

of the identity file, for any programs, identities and number of deaths:

| theorem | statement |
|---|---|
| `IdentityTypeCorrect` | `IdentitySpec => []IdentityTypeOK` |
| `RunningIdentityIsStored` | `IdentitySpec => []RunningIsStored` |
| `StoredIdentityStays` | no step replaces or removes an identity that is in the file |

*Assumptions*: `IdentityAssumption` (identities are not the word `none`).
*Argument.* `RunningIsStored` is not inductive: a program that is about to write could
replace what another one runs with. `OneSaves` adds that at most one program is between
the creation and the writing, and that the file is then empty; it is preserved because
`create_new` fails on a file that exists. `Contents` and `Moved` say what the file and
the programs may be after a step, `StepHolds` has one step per action.

and of the composition that the run `commands` checks:

| theorem | statement |
|---|---|
| `EachProgramIsItself` | `CommandsSpec` implies the specification of each of the six parts |
| `CommandsTypeCorrect` | `CommandsSpec => []CommandsTypeOK` |
| `CommandsCorrect` | `CommandsSpec => []` of the other eight invariants of the run |

*Assumptions*: those of the parts. *Argument.* The parts share no variable: a step of one is
a stutter of the others, so that every behaviour of the composition is one of each
part, and the part's theorems hold of it.

*Only model-checked*, on the instances of section 3: the liveness properties `HandshakeEnds`,
`SessionEnds`, `StreamRecovers` and `ReliableAnswers`, which rest on fairness and `ENABLED`
and are outside the prover's reach. Every invariant, every action property and both
refinements of the passing runs are proved. That faulty variants break them, and
that the eight properties of section 4 are violated, is shown by TLC only.

## 6. What the models leave out

- Sizes, encodings and texts: frames, msgpack, compression, file names, logs.
- rnguard: `-c 0`, progress output, the instance's own expiry of blackholes
  (`--duration`), an `Instant` near boot.
- rnsh: `--remote-cmd-as-args`, window sizes (the code ignores them too), the child
  between fork and exec, short writes to the pty, the contents of frames; the initiator's look at the
  disconnect flag and its recv are one step (`rnsh.rs:971`, 975). The hand-over
  from listener to session is not composed: input that arrives before the session's
  receiver exists is lost in the code and appears in neither module.
- rngit: several links on one server, hashmap updates of large resources, link
  establishment and closing, a lag of the server's receiver; repositories other than
  one, read permissions, lists `none`/`all` (they decide membership of `Writers` and
  `Creators`), git's garbage collection, tags.
- git's fetch: the exclusion of commits git has, which the server comes to after the
  names and so never; options; how git takes the helper's answers.
- rnperf: clock, rates and statistics; sessions on links of other tests; a session's
  deadline that passes while the tester is still sending (`SessionLate`).
- rnpath, rnmcp: contents of the tables and how they are shown; `sniff_packets` as a
  stream; a `--drop-via` that dropped no path, which rnpath takes for a success, is in
  `Verdict` one that was not done. rnguard is here only its blackhole call.
- rnid: the cryptography (ideal); opening and filling apart in the writing of an identity
  (`WriteIdentity`), where the code calls `fs::write`; files of several chunks, several paths per run,
  printed exports and hashes, conversions.
- The router instance (`main.rs`): it builds interfaces of the SDK in a straight line
  and waits; its metrics endpoint replaces a text under a lock. The configuration,
  `rnpage` and `rnsniff` have no state of their own to be checked.

## 7. Plan

Done, with their proofs: AnnounceTable, AnnounceTracker and RateAlarm; Rnguard;
RnshListener; RnshSession; RngitTransfer and RemoteCalls; RngitRepository; RngitFetch;
Rnperf; RnshInitiator; InstanceRpc; RnidFiles; IdentityFile; the compositions. Not done, in the
order in which it would be worth doing:

1. **Rnsh**: a composition of RnshListener and RnshSession over one event channel,
   for the input lost at `resubscribe()`, with RnshInitiator as its peer.
2. **RngitTransfer** with two links and hashmap updates; a server that lags. RngitRepository
   and RngitFetch over RemoteCalls, instead of the requests and answers of their own.
3. Access lists and URL parsing as pure operators against reference definitions; the
   helper's options.
