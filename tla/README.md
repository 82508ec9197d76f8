# Verification of the OpenClaw A2A gateway

TLA+ models, TLC runs and TLAPS proofs for the A2A gateway plugin
(`src/a2a-plugin`): its file transfer with the file relay
(`src/server/file-relay.js`), its tunnel session, the life of its tasks and the
circuit breaker of its outbound client.
`PROJECT.json` lists the components, runs, mutants, hazards, findings and
theorems, and maps each definition to the lines it models.

## 1. The system

A gateway plugin lets OpenClaw agents on different devices talk A2A. Devices
hold a WebSocket *tunnel* to a relay server, over which one gateway sends HTTP
requests to another. Small files travel inside a message; larger ones as a
stream, prepared over the tunnel and carried by a TLS *file relay* (`tcp-v1`) or
an external QUIC helper (`quic-v7`).

| Component | State it keeps | Operations | What is hard about it | What makes it correct |
|---|---|---|---|---|
| File relay, `server/file-relay.js` | connections, session map, in-flight byte counter, three timers per session | register, pair, forward with back-pressure, ACK, tear down, shut down | two peers and timers in any order; teardown goes by id, and ids may be used again; caps | bytes and ACK reach the matched peer only; counters exact; every session and socket ends |
| `tcp-v1` receiver, `index.ts` 760-944, `file-transfer.ts` | active receives, declared bytes, `.part` file, record on disk | prepare, receive, cancel, status | decisions on a record read before an await; failure at each await; crash between two disk writes | nothing is overwritten; records tell the truth; slots are given back once |
| Record store, `file-transfer-store.ts` | one JSON record per transfer | save, no-clobber commit with two fallbacks, recovery at start, URI resolution | recovery must tell its own file from a user's | committed is right and final, failed means no file |
| Unified send, `index.ts` 1286-1726, `file-transfer-capability.ts` | candidates, attempt id, pending error | select, fall back, prepare, payload, status, cancel, wait, notify | lost and late control calls; a fallback after the payload left would duplicate | one delivery; notification after commit; true claims; always an answer |
| `quic-v7` provider, `quic-provider.ts` | helper process | start, ready, RESULT, cancel | RESULT before the record is saved; no failure record | same promise to the sender as tcp-v1 |
| Tunnel session, `tunnel/session.ts` | socket, pending requests, registration wait, reconnect timer | start, stop, register, forward, heartbeat, reconnect | timers and callbacks of an old attempt acting on a new one | a request is settled; a running session never loses its way back; a stopped one stays quiet |
| Task queue, `queueing-executor.ts`; `executor.ts` | active count, queue, task contexts | execute, cancel, drain | cancel against run and end | slots exact, bounded, FIFO, every task decided |
| Task store, recovery, clean-up, `task-*.ts` | one JSON file per task | save, load, scan, expire | scans interleave with saves; crashes; peers before the recovery | no record left hanging, outcomes final, no live task deleted |
| Push notifications | registrations | register, deliver, retry | unregister during a retry | at most one success per registration |
| Peer health, retry, client, `peer-health.ts`, `peer-retry.ts`, `client.ts` | circuit per peer, retries left | admit, probe, success, failure, check | results of overlapping calls and checks recorded late | circuit agrees with its counters; never stuck without a probe; a healthy peer is let in again |
| Discovery, registry, routing rules, file security, agent card, audit, telemetry, CLI | peer lists, logs, counters | refresh, match, validate | mostly data | not modelled |
| `internal/*` | outbox, idempotency map | library code that `index.ts` never instantiates | - | not modelled |
| `openclaw-source`, `installer` | - | vendored upstream, packaging | - | not modelled |

Interaction: the sender's `prepare` starts a receive on the peer, which connects
to the relay and answers *ready*; the sender then connects to the relay with the
same id and ticket; the relay pairs them; the receiver commits the file, saves
`DATA_COMMITTED`, and acknowledges through the relay; the sender polls `status`
and then notifies the agent with an `a2a-transfer://` URI. All control calls go
through the tunnel session; every outbound message passes the circuit breaker;
every inbound message becomes a task.

## 2. Modules

| Module | Models | Extends / used by |
|---|---|---|
| `RelayPipe` | abstract: what the relay promises, without ids, timers, back-pressure and limits | implemented by `FileRelay` (checked and proved) |
| `FileRelay` | the relay process | instantiates `RelayPipe`; proved in `FileRelayProofs`, run by `MCFileRelay` |
| `FileReceive` | prepare, cancel, receive, commit, recovery, URI resolution, crash, user | instantiates `TransferOutcome`; proved in `FileReceiveProofs` and `FileReceiveOnceProofs`, run by `MCFileReceive` |
| `TransferOutcome` | abstract: what the receiving gateway promises about a transfer id | implemented by `FileReceive` (checked and proved); `FileSend` is built on it |
| `TunnelSession` | one gateway's WebSocket to the relay | proved in `TunnelSessionProofs`, run by `MCTunnelSession` |
| `TaskLifecycle` | queue, executor, task store, recovery and clean-up together | proved in `TaskLifecycleProofs`, run by `MCTaskLifecycle` |
| `PeerHealth` | circuit breaker, health checks, `sendMessage` with `withRetry` | proved in `PeerHealthProofs`, run by `MCPeerHealth` |
| `FileSend` | candidates, fallback, prepare/payload/status/cancel/wait/notify and the control channel | extends `TransferOutcome`; proved in `FileSendProofs`, run by `MCFileSend` |
| `ReservedBytes` | lemmas about a byte counter: a sum as the number of reserved bytes | used by `FileRelayProofs` and `FileReceiveProofs` |

Definitions named as *Slip* in their comment are plausible errors of the code,
never part of a specification; each shows that some property notices it.

### FileRelay

`conn`, `hdr`, `reply` are the connections, the header each is bound by and the
last line the relay wrote to it. `sessions` is the `Map` and `ses` the session
objects: the code compares sessions by identity and tears them down by id, so an
object is named by the socket whose registration created it. Every callback of
Node (data, drain, setImmediate, end, close, error, a timer) is an action.
Payload bytes are counted, not carried; a chunk has at most `MaxChunk` bytes.
The timers are sets of armed timers that may fire at any moment.

### RelayPipe

A pipe joins two connections with cards that agree, passes at most the declared
bytes and gives the sender one acknowledgement after all of them; a connection
enters one pipe in its life. `FileRelay!ForwardsAsPipe` states that the relay
refines it: a pipe is a session object, a card is the header a connection was
registered with, `phase` is read off `session.state` (`PhaseOf`) and `passed` is
`received`. The relay's map, its ids, timers, back-pressure and byte budget are
details of the implementation; the error paths are all `Breaks`, and a shutdown
breaks every remaining pipe in one step.

### FileReceive

`mode`, `run`, `req`, `activeBytes` and `scan` are memory and are lost in a
crash; `file`, `parts` and `rec` are the disk. Each `await` of the code ends a
step. `Asks` is the set of prepare calls; all offers use one file name, so that
they compete for the same candidates. `Fs` selects whether hard links work, or
only rename, or only copying; `Faults` the calls that may fail. A save may throw
before or after its rename took effect. The user may create and delete files.
TLS, hashing and the byte stream are one step with a verified or a failed end.
Content is a model value; equality stands for equal size and SHA-256.

### TransferOutcome and FileSend

`TransferOutcome` has, per id, whether a receive is live, whether a complete
file has landed and what the record says. `FileReceive!OutcomeImplemented`
states that the receiver refines it, with `live <- Active`, `landed <- InPlace`
and the outcome read off the record. `FileSend` drives that abstract receiver
through a lossy control channel: a request may be delivered late or never, a
reply is dropped when nobody waits any more, and the caller times out at any
moment. Attempt n has transfer id n, as the code draws a fresh id per attempt;
so `alreadyCommitted` cannot be answered to this sender. A `quic-v7` receive
lands before its record is saved and records no failure; `tcp-v1` records both.
For `quic-v7` that the helper keeps the promise is an assumption: the helper is
not part of the repository. Error texts are abstracted to the classes
`isPreStartTransportFailure` tells apart. A message sent by `client.sendMessage`
is one delivery that may arrive whatever the caller is told.

### TunnelSession

`me` is the session object. A *flow* is one run of `connectAndRegister`; flows
overlap, because a socket that closes while its registration is awaited
schedules the next one. What a promise continuation does is an action of its own
that runs before any other event (`Quiet`). The registration timer of an older
flow may take the wait of a younger one, whose promise then *leaks*; the model
keeps that. `Confs` are the configurations: enriched registration, a relay that
refuses it, a limit on reconnects. `faults` bounds failing and closing sockets,
half-open connections, refusals and missing answers. The relay and the `ws`
library are external. `detachSocket` removes the listeners before it closes the
socket, and `ws` reports the closing of a connecting socket as an `error` event:
unheard, it ends the process (`me.crashed`). Inbound forwards change no field
and are left out.

### TaskLifecycle

`exec`, `queue`, `activeTasks` and `context` are the two executors, `bus` the
event bus of each task with the events still to be saved, `rec` the files,
`scan` the recovery or the clean-up, which load a record in one step and write
or delete it in another. HTTP listens before the recovery has run, as in
`index.ts`. The A2A SDK is external: one bus per task, events saved in order,
nothing heard after `finished()`, no cancel of a terminal record. Every message
opens a task of its own. A file is replaced by rename, hence in one step.

### PeerHealth

One peer. The cooldown and the ramp of the gradual recovery pass at any moment,
and whether `checkCapacity` lets a call through is a choice. `probe` marks the
call a recovery was opened with; any recorded result ends the recovery.
Consecutive failures count up to the hard threshold, beyond which the code does
not tell them apart. An attempt over all transports is one step, and all its
failures are retried because `doSendMessage` gives each the status 500.

## 3. Runs

| Run | Instance | Shows |
|---|---|---|
| `relay_core` | 3 connections, 8 kinds of header, 1 session, 2-byte budget | payload accounting, ACK, timers, orphans, wedged senders, refinement of `RelayPipe` |
| `relay_live` | 3 connections, 2 of them at a time, 2 sessions, 1-byte budget | the caps and the exact byte counter; every session and socket ends |
| `receive_core` | 2 transfers of different files, 2 names, hard links, all I/O faults but verification, 2 crashes, 2 user operations | no clobber, truthful and final records, one landing per id |
| `receive_caps` | 3 transfers of 1, 2 and 1 bytes, 2 slots, 2 bytes, 1 name, 1 crash | admission, exact accounting, owned parts, termination, refinement of `TransferOutcome` |
| `receive_fallback` | 1 transfer, copying only, faults, 2 crashes, 2 user operations | no record calls a partial or a foreign file committed |
| `send` | 77 combinations of mode, size, capability, helper and forced transport, 1 restart of the receiver | single delivery, notification after commit, true claims, sensible candidates, termination |
| `tunnel` | 5 configurations, 3 flows at a time, 1 request, 4 faults | the way back, registration after the faults, settled calls, a quiet stop |
| `tasks` | 2 tasks, 3 settings of the limits, 2 crashes, 1 task that expires | exact slots, no stale and no reopened record, every task decided |
| `peer_health` | 16 settings of the breaker, 2 calls with 1 retry, 2 checks, 6 faults | circuit and counters agree, one probe, recovery |
| `receive_rename_race` | violation of `NoClobber` | the rename fallback replaces a file that appeared in between |
| `send_ambiguous` | violation of `FailureHonest` | a lost ACK is reported as a plain failure although the receiver commits |
| `task_recovery` | violation of `RecoveryOfPreviousRun` | the recovery fails a task that the gateway has just accepted and runs |

The three violations are disagreements between the code and its documents; the
findings in `PROJECT.json` quote both sides.

Four more statements are false of the code as well. They are defined beside the
properties, and a configuration for each shows the counterexample to whoever runs
it; they are not among the runs.

| Configuration | Statement | Counterexample |
|---|---|---|
| `MCFileReceiveReopen.cfg` | `IdempotentPrepare`: `TCP-FILE-STREAM-URGENT-FIXES-2026-09-02.md:27` calls prepare idempotent, and `TCP-FILE-STREAM-CODE-REVIEW-2026-09-02.md:193` asks that the same transferId be answered with the existing commit | an offer sent twice: the second call loads no record (`index.ts:792`), the first one's receive commits and ends, the second is admitted, since line 798 tests the loaded copy and line 803 knows only active receives, and saves PREPARING over DATA_COMMITTED |
| `MCFileReceiveReland.cfg` | `RepeatLandsOnce`: `FILE-TRANSFER-UNIFIED-PLAN.md:60` allows no second delivery when the outcome is unclear | an offer sent twice: the directory sync fails after `link(2)`, the record stays at COMMITTING with the file in place, a repeated prepare replaces it and the file lands under a second name |
| `MCFileReceiveOrphan.cfg` | `PartsOwned`: `TCP-FILE-STREAM-CODE-REVIEW-2026-09-02.md:191` names parts orphaned by a crash as a defect, which `TCP-FILE-STREAM-URGENT-FIXES-2026-09-02.md:27` lists as repaired | the failure record, which names no part, is saved (`file-transfer.ts:380`), the process ends before the removal (line 393), and the recovery skips final records |
| `MCTunnelSessionStop.cfg` | `StoppedOffAir`: `index.ts:2444` stops the tunnel so that there are "no more inbound forwards" | `stop()` rejects the awaited enriched registration (`session.ts:145`), the flow takes that for a refusal, opens a socket (line 264) and registers plainly |

**Bounds.** Three sockets are the least with which an old socket, whose session
is gone, can meet a new session of the same id that has both parties; two ids
are the least that compete for the budget. That two sessions of one id never
carry at once (`RelayPipe`) takes four sockets to violate, which the run does not
have; that part rests on the proof. Two names and two transfers make an
occupied name, an exhausted loop and a race on one name all happen; two crashes
let a recovery be interrupted. Three flows are the least with which a younger
flow exists beside an older one and a leaked one. Two tasks reach each branch of
`execute`: the second is refused, waits or runs; a queue longer than one differs
only in the order, which `Splice`, `Head` and `Tail` keep. Two calls and two
checks make results arrive out of order, and six faults open the circuit at its
hard threshold twice. Three ids are one more than the stream
candidates. Deadlock is not checked, since every instance has a finite number
of connections, calls or attempts and stops when they are used up.

**Fairness.** Relay: an armed timer fires and an ended socket closes
(`closeSocket` destroys it after a second); nothing is assumed of peers.
Receiver: each await settles, because file operations return, connecting and
registering have a timer and the payload's socket an idle timeout
(`file-transfer.ts:186`); a gateway that is down is started again. Sender: each
of its calls has a timer of its own, so some step of it is always taken, and the
clock passes the deadline of the commit wait, strong because the wait is
re-entered after each poll; nothing is assumed of the network or the receiver.
Tunnel: timers fire and, once the bounded faults are over, sockets open and the
relay answers. Strong fairness of the answer is needed because the timer of an
older flow may end a younger wait again and again in a model without clocks; in
the code the delay between attempts grows to 60 s, beyond the 10 s of those
timers. Tasks: disk operations return, a dispatch ends (it has a timeout), a
gateway that is down is started again. Peer health: the interval timer starts
checks, and checks and attempts return; nobody is assumed to call.

**Limits of what is checked**, all of them listed as hazards:

* `LandsOnce` and `CommitIsFinal` are about transfers whose id only one prepare
  call carries (`SingleAsk`), which is how this sender uses ids; in `receive_core`
  every id is of that kind, and `OutcomeImplemented` is checked with such ids only.
  For an offer that is sent again both are false of the code, see
  `RepeatLandsOnce` and `IdempotentPrepare` above.
* `FailureConfirmed` is checked without the fault `verify`: an I/O error during
  the recovery's verification counts as *not owned* in the code. It is checked
  with hard links: on a file system that only copies, a crash after the copy
  turns a complete file into FAILED_CONFIRMED.
* `CommitOwned` is stated up to one crash and `NoLostPart` up to the first: a
  second crash takes the evidence away, a first one may orphan a part
  (`PartsOwned` above).
* `SendDeliveredOnce` is checked and proved with `FreeText = FALSE`. With `TRUE`,
  a helper error that happens to contain "unsupported" or "not available" causes a second
  delivery.
* `CandidatesFit` excludes a preferred inline size above the peer's limit.
* `StoppedQuiet` is stated without enriched registration; with it the session may
  register again (`StoppedOffAir` above).
* The properties of `TunnelSession` hold until `me.crashed`.
* `RecordsFinal` leaves out the tasks that peers touch before the recovery is
  done; `task_recovery` shows what happens to them.
* `TaskLifecycle` has one message per task and no I/O errors of the store, so it
  does not show that `queueDelete` drops a second queued message of a starting
  task (`queueing-executor.ts:196`), that the fallback of `save` is not atomic
  (`task-store.ts:73`), or that canceling a task whose context was evicted from
  the cache of 10,000 leaves its record at working (`executor.ts:1430`).

**Details left out of an action**, on none of which a property depends:

* `FileRelay`: a socket refused over `MAX_CONNECTIONS` (`file-relay.js:296-299`)
  has no `error` handler, so a reset there would be an uncaught exception.
* `TaskLifecycle`: the catch path of `runEntry` (`queueing-executor.ts:244-249`)
  for a delegate that throws, since `OpenClawAgentExecutor` catches its errors; and
  the SDK's cancel loads the task and acts on it in one step.
* `TunnelSession`: the catch path for a `terminate()` that throws
  (`session.ts:358-361`); the heartbeat acts on a silent socket only, while the
  code's `lastRecvAt` and `connected` may still be those of an older socket
  (`session.ts:595-602`), whose effect is that of `SocketFails`; and one flag,
  `conf.extras`, stands for both the enriched payload and `hadExtras`, since
  `index.ts:532-539` always passes a dataset and a service id.

## 4. Proofs

All theorems hold for every value of the constants that satisfies the named
assumptions of the modules (`RelayConstants` and the like: their types, and that
the marker `None` is none of the values it stands in for; `NoneIsNoRecord` in
`TaskLifecycle` says so of records). Each inductive invariant was checked by TLC
before it was proved. Temporal steps are by PTL from the three facts *initially*,
*preserved by every step*, *implies the property*.

**Relay** (`FileRelayProofs`). `IndInv` joins the type with: every session
object is consistent by itself (its parties presented its id and ticket, its
counters add up to the declared size: `RecOK`), unregistered sockets own
nothing, the map holds only active sessions under their own ids, timers match
the phase, ACKs belong to finished sessions. The consistency of objects that
have *left* the map is needed because callbacks of a dead session still run and
tear down by id. Lemmas about the session operators come first, then one about
tearing down, shared by eight actions, then one per action. Proved:
`RelayTypeCorrect`, `RelayForwardsExactly`, `RelayAckSound`, `RelayTimers`,
`RelaySocketsManaged`, `RelayBudget`, `RelaySenderResumed`, and
`RelayAccounting`, the exact byte counter with both caps.

`RelayImplementsPipe` is the refinement, step by step (last section of the
module). Besides `IndInv` it needs `PipeInv`: a session whose payload or ACK is
under way has a timer, hence is in the map, so that a registration under the
same id finds it and is refused; and a sender that was given an ACK has an ended
socket, so that no later line replaces it. `ShowsBreaks` turns every failure
path into a step of the pipe. `JoinPipe` is the long one: what a registration
makes of its session is waiting, torn down or carrying (`JoinedAs`), and these
are the outcomes of `Meets`.

**Exact sums** (`ReservedBytes`). A recursive sum is out of the prover's reach;
so the models write the sum of the reservations as the number of elements of a
set that has one element per holder and byte. The lemmas say how that number
moves when one holder's reservation does. For the relay the counter also needs
`UnsentFree`: a session that still waits for its sender holds no bytes, so that
registering the sender adds to nothing.

**Receiver** (`FileReceiveProofs`), for `Fs = "link"`. `CommittedSound` is not
inductive: the name a receive is about to record must already hold its content
(`RunOK`), every file of the transfer must still be named by the record of its
attempt (`FileOK`), and the recovery's verdict must stay right until it is saved
(`ScanOK`). Proved: `ReceiveCommittedSound`, `ReceiveNoClobber`, and
`ReceiveFailureConfirmed` when verification does not fail; for any prepare calls
(repeated ones included), limits, faults, crashes and user operations.
`ReceiveTypeCorrect` and `ReceiveAdmission` hold on every kind of file system:
they rest on `TypeInv` and on `AdmissionInv`, which looks at memory only.

**One prepare per id** (`FileReceiveOnceProofs`). `SingleInv` is about the
transfers whose id one prepare call carries (`Single`), whatever prepares of other
transfers are repeated; `AskedOnce` says that all transfers are of that kind. The
sender draws a fresh id for each attempt (`newTransferId`, `index.ts:1412`); for an
id that is asked for twice the properties are false, see the limits above. `OnceOK` says that a transfer has one attempt and at
most one file, which a running receive has under its candidate and nowhere else
(`RunOnce`), and that the receive knows when its record is committed; `PartsOK`
ties its `.part` to that attempt and to the record. Both are kept on every kind
of file system: `Within` states once what a step of one transfer leaves alone of
the others, and it lets a rename or a copy take the place of another's file,
since losing a file breaks neither. `ClaimOK`, that a receive finds at the name
it claimed its own file, is broken by just that, so the promise to the sender is
proved with hard links, where `Frame` says that names are only filled. Each
invariant is kept by a lemma per kind of save and one per action.

| Theorem | `Fs` | Further hypotheses |
|---|---|---|
| `ReceiveLandsOnce`, `ReceiveCommitIsFinal` | any | none: any prepare calls, faults, crashes, user operations; the properties speak of `Single` transfers |
| `ReceiveLosesNoPart` | any | `AskedOnce`, removing a file does not fail |
| `ReceiveImplementsOutcome` | `"link"` | `AskedOnce`, verification does not fail, no user, and `Distinct` or `OneCrash` |

`ReceiveImplementsOutcome` is the refinement, step by step: `View(i)` is what the
promise sees of a transfer, and each action is shown to change it as `Shows`
allows, by one step of `TransferOutcome` or not at all: admission, the claimed
name, the save that decides the outcome (of the receive or of the recovery), the
end, and the crash, which ends every receive at once. `Distinct`
(offers of the same content have the same id) or `OneCrash` (at most one crash
and no failing save) is needed because a recovery that no longer finds the
`.part` compares contents only: with equal files, a second crash may let it take
the file of another transfer for its own.

**A transfer by itself** (last section of `FileReceiveOnceProofs`), for every
`Fs`. Without hard links the rename and the copy replace whatever holds the name
by then, so two receives can overwrite each other (`receive_rename_race` shows
it) and nothing can be promised of them; `Alone` therefore says that there is a
single prepare call. The user still creates and deletes files, and everything
still fails and crashes. `AloneInv`: while the receive claims its name, the
record names that candidate and the `.part` is there (`RunAlone`); once the
`.part` of an open record is gone, the file under the recorded name is the
transfer's own or the user took it away (`RecAlone`); so what the recovery finds
with the right content was not left half copied (`ScanAlone`). Ownership is kept
only under `Told`, no failing save and no second crash: a crash between the
recovery's removal of the `.part` and its save leaves a second recovery with the
contents alone to judge by. Proved: `ReceiveFallbackCommitted`, that a committed
record names a complete file with the offered content, whatever fails; and
`ReceiveFallbackSound`, that it is the transfer's own as well, when no save
fails.

**Sender** (`FileSendProofs`). The heart is `SentOK`: only the current attempt
can have sent its payload, and none has while the sender may still turn to
another candidate; with *what has landed was sent* this gives single delivery,
for `FreeText = FALSE`. Whatever text the helper's errors carry, the other
results hold: `SendTypeCorrect`, `SendNotifiedCommitted`, `SendCommittedClaim`
and `SendCandidatesFit`. The last is about the list of candidates, which the code
filters and deduplicates in order (`Pushed`, a recursive function on the
position). What it computes for every order needs an induction, and the
library's induction theorems take an operator; `SetInduction` does it with a
least counterexample in the set of positions where the claim fails.

**Peer health** (`PeerHealthProofs`), for any calls, checks, thresholds and
retries. `ProbeExact` needs that a probe belongs to the recovery that is going
on and to a call that will record its result (`ProbesLive`); the agreement of
circuit and counters needs the type, since the count stops at the hard
threshold. Proved: `HealthTypeCorrect`, `HealthBreakerConsistent`,
`HealthProbeExact`.

**Tasks** (`TaskLifecycleProofs`), for any tasks, limits and crashes. `SlotInv`
is inductive by itself; its lemmas are about taking and giving back a slot and
about removing one entry of the queue. `TaskOK` relates executor, event bus and
record of a task: who may still publish, that nothing follows a terminal event
(`BusOK`), that a run whose events are all saved was decided. `ScanOK` says that
what the recovery still has to do covers every record nobody will change
(`Stuck`), and that what a scan loaded is unchanged when it is written back,
except for tasks peers touched before the recovery was over. Proved:
`TaskTypeCorrect`, `TaskSlotsExact`, `TaskNoStale`, `TaskRecordsFinal`.

**Tunnel** (`TunnelSessionProofs`), for any configuration, flows, requests and
faults. Lemmas give the effect of each method on the session object first.
`NeverStranded` needs that a flow awaiting its socket awaits the current one
(`OpeningOK`) and that a flow told of its registration still has a registered
socket (`RegisteredOK`); `StoppedQuiet` needs that no flow of a stopped session
can get as far as a socket or a timer (`StoppedOK`). Proved:
`TunnelTypeCorrect`, `TunnelNeverStranded`, `TunnelStoppedQuiet`.

**Only model-checked**: all liveness (`SessionsReleased`, `SocketsClosed`,
`ReceivesSettle`, `RecordsDecided`, `SendEnds`, `Recovers`, `TasksDecided`,
`Reregisters`, `CallsSettle`), which is out of the prover's reach. All other
properties of the passing runs are proved.

## 5. Not modelled, and the plan

Left out for good: TLS and certificate pinning, hashing, JSON and header
parsing, path and MIME checks, logging and telemetry, routing scores (floating
point over strings), DNS and HTTP discovery, the command line client, upstream
code and packaging.

The map covers the gateway's own logic. Most lines of the repository are
`openclaw-source`, a vendored copy of the upstream product that also holds a
second copy of this plugin; it is not this repository's own logic.

Next, in this order:

1. Proofs: for a transfer by itself, that renaming its file into place keeps the
   promise (`OutcomeImplemented`); copying it does not, see the limits above.
2. Push notifications: registration, delivery and retry; the decay of a
   registration would be a choice.
3. The mode switch of the quorum discovery; several messages per task and I/O
   errors in `TaskLifecycle`.
