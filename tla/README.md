# Kabootar, specified

TLA+ specifications of Kabootar, a peer-to-peer file-sharing program: a sender's
browser tab (or terminal) shares files, receivers reach it through a Cloudflare
Worker that relays signalling, and the files travel over a WebRTC data channel.
Paths below are relative to the repository.

The modules are written to be checked by TLC on small instances and proved about
with TLAPS for every instance.

## 1. The system

| Part | Source | State it keeps | Operations |
|---|---|---|---|
| Transfer protocol | `src/lib/transfer/protocol.ts` | none | messages `hello start end error` / `get ack done cancel`, anonymous binary chunks, the tunables |
| Item server (sender) | `src/lib/transfer/server.ts` | request queue, the transfer under way, bytes sent and acknowledged | `onMessage`, the loop `run`/`sendFile`, `capacity`, `poke`, `close` |
| Item client (receiver) | `src/lib/transfer/client.ts` | status of each file, line of downloads, the active `Download` | `attach`, `detach`, `download`, `cancel`, `stalled`, `onMessage`, `next`, `onChunk`, `finish`, `fail` |
| Receiver session | `src/lib/receiver.ts`, `src/lib/resume.ts` | the link to the sender, restart budget, checkpoints in `sessionStorage` | signals, offers, watchdog, `checkStalls`, checkpoints, resume |
| Sender session | `src/lib/sender.ts`, `src/lib/rtc.ts` | one link per receiver | offers, answers, ICE restarts, rebuilds, discovery |
| Signal socket | `src/lib/signal.ts` | the websocket of a page, its status, retries | `connect`, `handle`, `reconnectNow`, heartbeat, `close`, `endShare` |
| Worker: room | `worker/src/room.ts` | one share (`RoomMeta`, in memory and stored), its sockets and their roles, an alarm | `init`, `webSocketMessage`, `auth`, `restore`, `onGone`, `alarm`, `closeRoom` |
| Worker: directory | `worker/src/directory.ts` | PINs, entries listed per network, watchers, rate limits | `claimPin`, `releasePin`, `lookup`, `announce`, `withdraw`, `fetch` |
| Worker: entry | `worker/src/index.ts`, `worker/src/ice.ts` | cached TURN credentials | `createRoom`, `join`, routing, `iceServers` |
| Device-storage sink | `src/lib/sinks/opfs.ts`, `src/workers/opfs.worker.ts` | a partial file, resumable | `open`, `write`, `close`, `abort`, `clearIncoming` |
| Streaming sink | `src/lib/sinks/index.ts`, `src/lib/sinks/stream.ts`, `src/sw.ts` | a message port with credits, the worker's stream | `chooseSink`, `open`, `write`, `close`, `abort`; the worker's `registerDownload`, `serveDownload` |
| Hashing | `src/lib/hash.ts`, `src/workers/hash.worker.ts` | a digest per item | hash a file in the background |
| Discovery, stores, drafts, pages | `src/lib/discovery.ts`, `src/lib/store.ts`, `src/pages/*` ... | UI state, IndexedDB | mostly rendering |
| Command-line port: transfer | `cli/internal/transfer/` | `Server` (request queue, wake channel) and `Client` (line, sink), guarded by mutexes | `HandleMessage`, `run`/`sendFile`, `Poke`, `Close`; `Attach`, `Download`, `Cancel`, `CancelAll` |
| Command-line port: the rest | `cli/` | sessions, signalling, terminal, self-update | as in the browser, in Go |

How they interact. A room admits sockets with a role (master or peer) and relays
signals between them; sender and receiver sessions use that relay to negotiate
one WebRTC connection per receiver. On each open data channel the sender runs
one `ItemServer`; the receiver attaches its single `ItemClient`, which outlives
connections. The client writes to a sink, tells its session about written bytes
(a checkpoint), and the session resumes from them after a page reload. The room
uses the directory to hold a PIN and a listing.

What makes it hard.

* Each browser side is one thread, but nearly every handler awaits (a disk read,
  a write, a close, a hash, a lookup), and other handlers run meanwhile.
* The channel is ordered and reliable until it breaks, and then everything in
  flight is lost. Stale messages of a transfer that was cancelled arrive before
  the answer to the request that follows.
* Chunks are anonymous: whose bytes they are depends on the last `start`.
* A reload kills the receiver in any state; what it resumes from lives in
  `sessionStorage`, in the Origin Private File System and in a serialised hash.
* The worker's Durable Objects leave memory when idle, and their handlers await
  other objects and the TURN service, while sockets come and go.
* A page's websocket dies without the room knowing, and its successor arrives
  before that is found out.
* A connection is negotiated over that unreliable relay by two pages that each
  believe something about the other: offers, answers, candidates and requests for a
  restart are lost or late, and either page may reload in between.
* Page and service worker pace each other with credits over a port that either
  closes at any time; the browser may stop the worker without telling anyone.
* In the Go port several goroutines meet in one object: the one that sends, those
  that read the channels (an old one may still hand over what it had received),
  and the callbacks of the channel's buffer. A wake-up is a token in a channel.

What makes each part correct.

* Transfer: what reaches the disk is a prefix of the file asked for; a file shown
  as verified equals the shared one; a done file is whole; unacknowledged bytes
  are bounded; every download ends.
* Checkpoints: never ahead of the disk, hash state for exactly those bytes, at
  most one, none that outlives its download.
* Client: the page's statuses agree with the line of downloads, final ones stay.
* Negotiation: a receiver without a channel gets one, or its session ends with a
  word; one fault never uses up its attempts; both pages show the same; dropped
  sockets leave an established connection alone.
* Streaming: credits neither leak nor multiply, so memory is bounded and no write
  waits for ever; a download shown as complete is the whole file.
* Go port: one sending goroutine, never asleep when there is something to do; no
  partial file is left behind; a file under its own name is intact.
* Room and directory: one socket in use per page; the sender knows who waits; a
  room whose sender is away is on its way to being closed, and an ended share is
  closed in the end; the PIN on the sender's page leads to its room; a closed
  room leaves neither PIN nor listing behind.

## 2. The modules

```
 TransferProtocol      bytes, messages, the channel
   ^   ^   ^   ^
   |   |   |   +---- GoServer    GoClient        the Go port of both ends
   |   |   |              ^        ^
   |   |   |             GoTransfer              over channels that are replaced
   |   |   |              ^        ^
   |   |   |     MCGoTransfer    GoTransferProofs
   |   |   |        (TLC)           (TLAPS)
 ItemServer  ItemClient (with its sink and checkpoints)
      ^          ^
      Transfer  -----------------> Delivery      what a page promises;
      ^      ^      implements                   implemented by Transfer
MCTransfer   TransferProofs <- SinkProofs <- WindowProofs
 (TLC)          (TLAPS)         (TLAPS)        (TLAPS)

 StreamSink            the page, the service worker and the browser,
  ^       ^            for one streamed download
MCStreamSink  StreamSinkProofs
 (TLC)            (TLAPS)

 Negotiation           SenderSession with its link, ReceiverSession,
  ^       ^            and a relay reduced to what they see of it
MCNegotiation  NegotiationProofs
 (TLC)            (TLAPS)

 Directory             PINs, listings, watchers
     ^
   Room                one share; its calls to the directory; its creation
     ^
   Share               composition with the pages, the network, properties
   ^   ^
MCShare   ShareProofs <- ShareRoomProofs
 (TLC)       (TLAPS)        (TLAPS)
```

`Transfer` takes the channel as given, breaks it and opens another; `Negotiation`
says that another one comes; `Room` and `Share` show what the relay under the
negotiation does with sockets. `StreamSink` is a sink as `ItemClient` uses one.

**TransferProtocol.** Sizes count an abstract unit. A byte is the pair
`<<file, offset>>`, so disk contents can be compared with the shared file; the
content of a disk is a sequence of such pairs. A chunk message carries its file
and offset as a ghost: no guard of the client reads them. `Deliver` drops what is
sent while an end of the channel is closed.

**ItemServer.** `srv` is the server's fields plus the point at which the coroutine
`run`/`sendFile` waits: `read` (a block from disk), `send` (room in the window or
the buffer), `hash` (the digest), or `idle`. All other awaits of that coroutine
resume in a microtask, before the next message, so they belong to the step that
precedes them. A `get` or `cancel` that finds it in `send` wakes it at once; one
that finds it reading or hashing is noticed when the disk or the worker answers.
`Settled` says that a burst of chunks runs to the end of the block, or until there
is no room, before another message is handled. `FinishFile` is the way back to the
head of the loop, and `Serve` what happens there. `bufferedAmount` counts the
bytes under way: an upper bound of the browser's buffer.

**ItemClient.** `active` is the `Download` record with two additions that stand for
suspended coroutines: `barrier`, the number of writes that `finish()` awaits (it awaits
the chain *as it was* when the end arrived), and `closing`, the await of `sink.close()`.
`failed` with an open sink stands for `fail()` awaiting `sink.abort()`, and `removed`
says that the storage worker has carried that abort out: the folder is gone, the page
has yet to hear of it and to drop the checkpoint. `chain` holds the writes linked to
`d.chain`. An abandoned download whose sink is still opening is counted in `orphans`; a
`fail()` overtaken by `finish()` is in `late`, where `refused` stands for a write that
the closed sink has yet to refuse. `disk`, `opfsDirs` and `saved` are the folder of a
download, the folder its checkpoints will name, and the checkpoint in `sessionStorage`.
Which operation is which action: `download` is `UserDownload` (with `RequestDownload`
and `TakeNext`, the latter for `next()`), `cancel` is `CancelQueued` and `CancelActive`,
`checkStalls` is `AbortStalled`, the four message handlers are `OnHello`, `OnStart`,
`OnEnd`, `OnError`, `onChunk` is `OnChunk` up to its await and `WriteDone` or
`WriteFails` after it, `finish` is `OnEnd`, `Finish` and `CloseDone` or `CloseFails`,
`fail` is `FailActive`, `AbortRemoves` in the worker, and `AbortDone` (or, for a
download that is finished already, `LateWriteFails` with its cancel message and
`LateAbortDone`), the opening of a sink is `SinkOpened`, `SinkOpenFails` or
`OrphanOpened`.

**Transfer.** Both ends, a channel that breaks and is replaced, and an environment
with a budget: `spent` counts connections, requests, cancels, stalls, reloads,
evictions and faults, and `Limit` bounds each. Every action's guard is the code's
own except for those budgets and `MayBreak` (an end may only break if another
connection can follow, or if the other end is already gone).

**Delivery.** What a page promises about the files it is asked for, without a word
about channels: a `line` whose head is being fetched, the `outcome` of the latest
request of each file, and `doubt`, the files whose outcome may be taken back.
`Transfer` implements it under the mapping `Line` (the active download and the queue
behind it), `Outcome` (the page's status, `asked` while in the line) and `Doubt`
(the files of `late`). `TakeBack` is the one exception the code makes, and
`LateAbortDone` the step that uses it: an abort begun before `finish()` closed the
sink ends after it, and turns a finished file into a failed one.

**StreamSink.** One streamed download. `page` is what the page does for the file, from
the choice of a sink (`ChooseSink`, `FallBack`) over the handshake (`opening`) to
writing and closing; `out`, `ending`, `grants` and `notice` are the two directions
of the port, `stream`, `queue` and `pendingCredits` the worker's stream. Chunks and
credits are counts: their order within a direction says nothing. Which operation is
which action: `registerDownload` is `RegisterDownload`, `serveDownload` is
`ServeDownload` and `OnStarted`, `StreamSink.write` is `Write`, going on in
`OnCredit` or `OnCancelled`; the worker's `onmessage` is `OnChunk` and `OnEnding`,
its `pull` is part of `BrowserReads`, its `cancel` is `UserCancels`. The two timers of
`open` are `OpenTimeout`; what they race with, a request of the browser already
under way, stays possible. The browsers to consider are subsets of `Features`.

**Directory.** One action or operator per method of the object, each of which waits
for nothing but its own storage and is one step. Only what concerns one share is
kept: the owner of each PIN (this share, another one, nobody), the keys the share
is listed under, and what the page of each watcher shows. A watcher's events
arrive in order, so what its page shows changes with the listing.

**Room.** `meta` is the object's field, `stored` what is in storage, `alarm` what the
alarm was last set for. A socket has two ends: `server` (`open`, `closing` once
the room has closed it, `gone` once the runtime has said so) and `client`; `up` is
the link between them, `toServer` and `toClient` what is under way on it, a close
included (`Bye`). The runtime keeps other events from a Durable Object while it
waits for storage, and lets them in while it waits for another object or the
network. So every handler is one step, except at its calls to the directory and at
`await iceServers()`: `calls` is the queue of directory calls under way with what
their callers need to go on (`closeRoom` after `releasePin` and `withdraw`,
`restore` and then `auth` after `claimPin` and `announce`), and the `welcome` field
of a socket is a message that waits for credentials. Which handler is which
operator: `auth` is `AuthAsMaster` with `BecomeMaster`, and `AuthAsPeer`; `restore`
is `AuthAsMaster`, `PinClaimed` and `Announced`; `closeRoom` is `CloseRoom`,
`PinReleased`, `Withdrawn` and `WipeStorage`; `onGone` is `OnGone`; `alarm` is
`AlarmRings`; the constructor is `Hibernate`; `init` and `createRoom` are
`CreateClaims`, `CreateInits` and `CreateAnnounces`. There is no clock: an alarm
may ring whenever no call is under way, and what it was set for says whether the
time it waits for has passed.

**Share.** Each page has a `SignalSocket` (`ws`, `status`, `opened`), and of its
session what it learns from the room: the receivers the sender was told of, the
PIN it shows, a receiver's id and whether it believes the sender online. Users
start, end and leave; the sender's page reloads and goes on, or ends the share
with `endShare` (status `ending`, `shown` back to the PIN that was saved); links
go down and are noticed by either end at any later moment. `spent` and `Limit` bound
connections, hurried reconnects, lost links, signals, reloads, departures and PINs
taken by others. Two more budgets name events that break the code's promises and
are 0 in the passing runs: `earlyLosses`, a socket that goes while the restore it
asked for is under way, and `twins`, two restores under way at once (section 5).

**Negotiation.** A sender, one receiver, and the relay. `sock` is each page's socket as
seen from both ends, `to` the queue from the room to each page, `path` whether
packets pass between the devices, `link` the `SenderLink` with its
`RTCPeerConnection`, `pc` and `rcv` those of the `ReceiverSession`. Which handler is
which action: the sender's `handleSignal` and its socket events are `OnSenderMessage`
with one operator per message (`peerJoined`, `OnLeave`, `OnRestart`, `OnAnswer`,
`OnReceiverIce`); `negotiationneeded` is `offer`; the connection's and ICE's events
are `SenderOpens`, `SenderIceReturns`, `SenderIceDisconnects`, `SenderIceFails`,
`SenderChannelCloses`; the two timers are `ConnectTimeout` and `DisconnectTimeout`.
On the receiver `onSignal` is `OnReceiverMessage`, with `answer` for what follows
its await, `onConnectionLost` and `requestRestart` keep their names, and `Watchdog`
is the timer `armWatchdog` sets. Of WebRTC it is assumed: promises of a connection
that was closed never settle; ICE fails only once it has candidates of the other
side; candidates follow the description they belong to; a path that exists is found
if one end knows an address of the other. Of the room: one queue in order per page,
and a welcome composed and sent at once. The last is not always so (`online_stale`
in section 5); here it isolates what the two sessions do by themselves. Connections
are named at random in the code; a new one takes the least name nothing refers to.

**GoServer, GoClient, GoTransfer.** The Go port keeps the protocol but not the
interleavings. A step of `GoServer` is one critical section of `s.mu`, one call on the
channel, or one operation on `s.wake`; `loop` is the goroutine of `run`/`sendFile` and
where it stands, `calls` what other goroutines are about to call: the `Poke` that ends a
handler, a `go run()`, the callback of a closed channel, the callback of a drained
buffer. `buffered` is what the channel holds. `Pop` merges the critical section at the
head of `run` with the first one of `sendFile`: what another goroutine does between them
is overwritten. The handlers of `GoClient` are one step each, as `c.mu` is held
throughout, the write to disk included. What is left there is who calls: `old` is what
the goroutine of a replaced channel may still hand over, `wanted` and `caller` a call of
`Receiver.Download` that `OnItems` makes on the goroutine that reads the channel
(`Free`: that channel hands over nothing meanwhile), `cancelling` the ids `CancelAll`
has taken under the lock and cancels one by one without it. `Shutdown` is a link that is
given up or replaced: it closes its server while the channel is still open, so a `get`
may reach a closed server. `Connect` waits until the old server has wound down, which
shares nothing with its successor but a cache of hashes. Items that are not files and
ids that are not shared are left out.

Abstractions to know about.

* Several lines of one handler that only read or write client fields are one
  step; every await that another handler can overtake splits it.
* The short await between the opening of the sink and the creation of the hasher
  is part of `SinkOpened`.
* In `Transfer` the sink is the resumable one (Origin Private File System). Its
  worker answers in order; after `close()` it refuses writes. Its 20-second timeouts
  are faults.
* The error texts, progress events, wake locks and the speed meter are left out.
* A file's size and name do not change while it is shared; items that are not
  files are not transferred by this protocol.
* Authentication keys are right, ids of receivers never collide, and messages are
  well formed: `invalid_key`, oversized and malformed messages are left out.
* Calls to Durable Objects do not fail, and are answered in the order made.
* Retries have no delay; 120 seconds of `room_not_found` may pass at any time.
* `Reload` models a reload of the receiver. The sender's reload ends the share's
  channels, which is a break of the channel here.

## 3. The runs

### Transfer

They use `MCTransfer`. Sizes are in units; where not said otherwise a chunk, a
block, the window and the ack interval are 1, so a two-unit file takes several
chunks, waits for acks, and can be cut in the middle.

| Run | Instance | Question |
|---|---|---|
| `transfer_cancel` | 3 files, 3 requests, 1 cancel, 1 connection | Do stale messages of a cancelled transfer corrupt the next one (`SinkIsPrefix`)? Do the statuses agree with the line (`StatusMatchesLine`)? Is the page's line the one `Delivery` promises, in its order, each request ending once (`ImplementsDelivery`)? |
| `transfer_faults` | 1 file, any two faults, 1 cancel, 1 stall, 1 reload, 1 eviction, 2 connections | Does any combination of those put wrong bytes on the disk (`SinkIsPrefix`), verify a wrong file (`VerifiedIsIntact`), or change an outcome that stands (`ImplementsDelivery`)? |
| `transfer_live` | files of 5 and 0 units, chunks of 2, blocks of 3, window and ack interval 2, with and without hashing, 2 requests, 1 reload, 2 connections, fairness | Is what waits in memory bounded (`Backpressure`), a checkpoint covered by the disk (`CheckpointOnDisk`), the only one (`OneCheckpoint`), and resumed into a whole file (`VerifiedIsIntact`)? Does every download end (`DownloadsEnd`)? The exceptions of the second and the last are in section 5. |
| `stray_chunks` | 2 files, 4 requests, 2 cancels | Violated: `SinkIsPrefix`, see section 5. |
| `lost_folder` | 1 file, 2 requests, 1 cancel | Violated: `CheckpointOnDisk`, see section 5. |

Why the bounds are enough. The protocol compares one offset with another; two
chunks per file are needed to be in the middle of one, and five units with uneven
chunks and blocks to meet every boundary case of `sendFile`. Two files are needed
for chunks to reach the wrong one, three for the line to have an order of its own
behind its head. Three requests and a cancel are the shortest sequence in which a
stale transfer, its successor and another file coexist; `SinkIsPrefix` holds up to
there, and `stray_chunks` shows that it needs one request and one cancel more to
fail. One reload with two connections is what a checkpoint is for. Two faults, with
a cancel or a stall, are a failure overtaken by another: the double `fail()`s and
the abort that races with `finish()` are in `transfer_faults`. `transfer_live` has
neither cancels nor faults: a download that ends by being given up would hide one
that hangs. The environment ends when its budgets are spent, so the runs do not
check for deadlock; `DownloadsEnd` would notice a transfer that waits for ever.

### Streaming, negotiation, the Go port

| Run | Instance | Question |
|---|---|---|
| `stream_sink` | 3 credits, queue of 2, 7 chunks, 5 browsers, fairness | Do credits neither leak nor multiply (`CreditsConserved`)? Is what is posted and not read bounded (`BoundedQueue`)? Is a complete download whole (`CompleteIsWhole`)? Does a waiting write go on (`WriteGoesOn`), a file reported as done reach the disk (`DoneIsSaved`), an opening end (`OpenSettles`)? |
| `negotiation` | any 2 of dropped socket, outage, reload of either page, departure; 3 ICE restarts, 4 attempts, fairness | Do both pages end up connected, or the receiver's session over (`Recovers`)? Is one fault survived (`OneFaultIsSurvived`)? Do both show the same (`BothShowIt`)? Is a link whose receiver left settled (`GoneIsSettled`)? Do dropped sockets leave a connection alone (`DropsDoNotDisturb`)? |
| `go_transfer` | files of 3 and 0 units, chunks and blocks of 2, window 1, buffer marks 1 and 0, acks every 2, 2 channels, 1 failing disk operation, a receiver that may leave on the first channel, fairness | Is there one sending goroutine (`OneRunner`), never asleep with something to do (`NeverOversleeps`)? Is no partial file left (`NoPartLeft`)? Does every file end (`EveryFileEnds`), and a closed server wind down (`ServerWindsDown`)? |

Seven chunks are more than credits and queue hold together, so the page has to wait and
every credit goes round. The five browsers choose, between them, each of the four
strategies and each fallback. In `negotiation` the restarts and attempts are the code's
own numbers; `NoticedBy` is explained below. Two faults include every pair of a fault
and one that hits while it is being repaired. In `go_transfer` a file of three units
ends in a short chunk, the window closes after the first one, and the buffer has to
drain before the next; two channels let the late messages of one meet the download of
the other.

### Rooms

The runs of the worker use `MCShare`, with a sender and one network.

| Run | Instance | Question |
|---|---|---|
| `share` | 1 receiver (and room for 1), 3 connections, 1 lost link, 1 signal, 1 departure, TURN credentials at once or slow | Is at most one socket per page in use (`OneSocketEach`)? Does a settled sender know every waiting receiver (`SenderKnows`)? Is a sender's absence always on record and the alarm set for it (`GraceHolds`)? |
| `listing` | 1 watcher, another share, 2 connections, 1 hurried, 1 lost link, 1 reload, fairness | Does the shown PIN lead to the room (`PinShown`)? Is nothing left of a closed room (`NothingLeftBehind`)? Is an ended share closed in the end (`ShareEnds`)? |
| `abandoned_restore` | 2 connections, 1 early loss | Violated: `GraceHolds`, see section 5. |
| `online_stale` | 1 receiver, 2 connections, slow credentials | Violated: `OnlineIsTrue`, see section 5. |

Three connections and one lost link let the sender or the receiver replace a
socket the room still believes in while the other one joins, and let a receiver
whose welcome was lost find the room full. Two connections of the sender are a
session and its successor: a takeover, a restore after the room was closed, a
restore that overlaps the closing, or an `endShare` after a reload. PINs are
interchangeable, so two are enough for one share, another share and one lost link;
`share` uses that symmetry, and that of the ids, and `listing`, which checks a
liveness property, does not. Pages stop when their users do: the runs do not check
for deadlock.

### Fairness

`Transfer`: weak fairness of single steps. A message that is deliverable is
delivered, an awaited disk read, write, open, close, abort or hash answers (each is
answered or turned into an error by a timeout in the sinks), the loop of the server
runs on, when one end of a channel is gone the other end notices, and a receiver
without a channel gets another one while the budget lasts. The last is what
`Recovers` of `Negotiation` shows. Nothing is assumed of the user, and no fault has
to happen.

`StreamSink`: the page's handlers and timers run, the worker's handlers run, and the
browser goes on reading a download it has begun. That it begins one, that the user
cancels, and that the worker is stopped is nobody's duty.

`Negotiation`: one weak fairness over everything that happens by itself: it goes on
while there is something to do, in whatever order. Two facts about time are guards.
Timers of seconds run out only when nothing that takes milliseconds is left to do
(`TimersRun`: no action of `Progress` has its guard); they may overtake what takes
longer, such as noticing a broken socket or the end of an outage. And the watchdog's
period grows from 15 s by half of that with every attempt, so by its fourth (`NoticedBy`
= 3) the heartbeat has found and replaced a broken socket, and ICE has noticed a broken
path.

`GoTransfer`: a goroutine that can run does, a channel with one end or its server closed
(or whose session is over) closes, a receiver without a channel gets another one while
they last. Nothing is asked of the 250 ms timer in `capacity`, so `EveryFileEnds` holds
without that safety net, nor of the goroutines of old channels.

`Share`: weak fairness of the runtime alone. Events of a socket are delivered, a
dead link is found out, the directory answers, credentials arrive (or their request
fails, and the welcome goes out without), an alarm that is set rings. Pages need not
retry.

## 4. The proofs

Each module of proofs extends the module it is about. The statements hold for every
value of the constants: every set of files, size, chunk, block, window, ack interval,
buffer limit, number of credits or channels, and every environment budget; a theorem
that assumes a budget to be 0, or a single file, says so.

### `TransferProofs`

* `TypeCorrect == Spec => []TypeOK`. It is not inductive alone. The server
  subtracts offsets and names the file it serves, so the invariant `ServerOK`
  relates `sent`, `blockEnd` and the size to the phase; `ClientOK` says that
  without an active download nothing of one is left, so no message names
  `NoFile`.
* `VerifiedFilesIntact == Spec /\ []CheckpointOnDisk => []VerifiedIsIntact`. The
  chain of facts it needs: the hasher has been fed exactly what is on the disk
  (`HashMatchesDisk`), and it was compared with the whole file before the sink
  was closed (`ClosingIsWhole`), while a download that starts from a checkpoint
  is fed by it what the disk holds (`ResumeMatchesDisk`, for the active download
  before its sink opens, and `BeforeHello` for the one still in
  `sessionStorage`); what waits in the line starts over (`QueueStartsOver`), a
  sink that is not open has nothing of a transfer (`OpeningIsClean`), and the
  active file is not also shown as done (`ActiveNotDone`). `VerifiedInv` is their
  conjunction; each action has a step of its own in the proof that it is
  preserved.

The proof asks for less than `CheckpointOnDisk`: `CheckpointFits`, that a hash state
which the sink will find long enough a file for is a state of what is in it
(`VerifiedAlways`). `SinkProofs` shows where each of them holds; `transfer_faults`
checks `VerifiedIsIntact` with neither, evictions included.

`TransferImplementsDelivery == Spec => ImplementsDelivery`: the initial states map to
initial states of `Delivery`, and every step of `Transfer` maps to one of its steps
or to a stutter. The mapping needs an invariant, `LineInv`: before the hello nobody
is in the line (`BeforeItems`), a line with a queue has a head (`NoGap`), and a file
stands in it once (`OnceEach`); without the last, a file withdrawn could still be in
the line. The operators the client is built from (`next`, `fail`,
`download`) each have a lemma that names the abstract step they are (`Kept`, `Asked`,
`HeadEnds`, `Withdrawn`, `TakenBack`, `Forgotten`), and every action is one of them.

Two invariants follow from the same six kinds of steps.

* `StatusAgrees == Spec /\ []NoneAskedAgain => []StatusMatchesLine`. `StatusMatchesLine`
  is inductive beside `LineInv`, but for one step: an abort that ends late
  (`TakenBack`) writes the row of its file, and if the file has been asked for again
  that row is wrong. `NoneAskedAgain` says that no such abort is pending for a file in
  the line. It is a hypothesis because the code does nothing to make it true; the
  double request it excludes needs an abort that is slower than the user.
* `OneCheckpointHolds == Spec => []OneCheckpoint`, without hypotheses. A checkpoint is
  written only for the head of the line while it is ready, and dropped when it ends;
  before the first hello nobody is in the line and the checkpoints are those the
  reload left.

### `SinkProofs`

What is written, hashed and recorded.

* The channel. `StreamInv` says that each chunk under way follows the start of its file,
  or the chunk before it, at its own offset, and that the server's next chunk goes on
  where the last one under way ends. `Coming(f, n)` is what a client may conclude: the
  next bytes of `f` it will hear are those at `n`.
* The work. Each action does one of a few things to the active download, the disk and
  the checkpoints (`WorkStep`): it goes on, is given up, replaced, resumed or taken
  further, its sink opens, a write ends, the page reloads, the browser evicts. What
  follows is shown of these kinds alone.
* The order. `QuietInv`: until the sink of a resumed download is open, nothing has been
  asked for on the channel, so nothing but a hello is heard. Without it a stale chunk
  could be counted at an offset the sink is about to correct. `HeadOK`: a client that
  accepts hears the bytes at its own offset next, or none of its file.
* The disk. `PrefixInv`: the file of every download begins as the shared file does, and
  what waits in the write chain goes on from there without a gap (`Queueing`).
  `SinkHoldsPrefix == Spec /\ []NoStray => []SinkIsPrefix` follows. `NoStray` says that
  a client which accepts does not find a chunk of another file at the head of its
  channel; `stray_chunks` shows that the code does not guarantee it. In a share of one
  file there is no other file, and `OneFileHoldsPrefix` has no hypothesis on behaviours.
* The hash. `HashInv`: a hash state, in memory or in a checkpoint, is that of the
  file's first bytes, as many as the offset says, unless it is of more than the whole
  file. With `PrefixInv` that is `CheckpointFits`, hence `VerifiedWithoutStrays` and,
  for one file, `OneFileVerified == Spec => []VerifiedIsIntact`.
* The checkpoints. `StandingInv` does not ask what the bytes are, only how many there
  are and whether they are what was hashed: a checkpoint stands for a beginning of what
  is on disk (`StandsFor`) unless an abort has removed the folder and the page has not
  heard of it (`GoneUnheard`; by `RemovedOK` that download has failed), an open sink
  holds what has been written (`OpenOK`), one that opens will find what it is to go on
  from (`OpeningOK`), and no write exceeds the file (`Ledger`).

  `CheckpointsHold == Spec /\ []NoOrphans /\ PageHears => []CheckpointOnDisk`, for
  `Limit["evictions"] = 0`, and `VerifiedWithoutOrphans` is the same for
  `VerifiedIsIntact`. Each hypothesis excludes one way to leave a checkpoint of bytes
  that are gone. An eviction takes what a checkpoint names, which no program prevents.
  `NoOrphans` says that no download is given up before its sink is open; `lost_folder`
  shows how one that is breaks a checkpoint. `PageHears` says that no reload falls between
  the removal of an aborted download's folder (`opfs.worker.ts:63-70`) and the page's
  dropping of its checkpoint (`receiver.ts:330-332`): the code has two steps there, on two
  threads. A download that resumes from such a checkpoint finds too short a file and
  starts over, and its own checkpoints replace the old one; but as long as they have not,
  another reload may find a file that has grown as long as the old checkpoint says.
  Where no chunk strays those bytes are the right ones, and `VerifiedWithoutStrays` needs
  none of the three hypotheses.

So a verified file is the shared one if no chunk strays, or if no sink is orphaned, no
abort's answer lost to a reload, and nothing evicted; where a chunk strays and one of
the others happens too, nothing is proved.

### `WindowProofs`

`BackpressureHolds == Spec => []Backpressure`. The bound is one window and a chunk for
each connection so far, so the proof keeps accounts of windows. A connection lets one
in, and the right to it changes its form: the hello of the channel, the `get` that
answers it, the request in the server's queue and the `start` it is served with are one
and the same thing (`Asks`, which counts them). Of as many windows as there were
connections, those no longer asked for have been used up; every offset that is asked
for, every chunk under way and every byte received is within these (`AccountsAt`). Once
the end of the file is on its way the whole file is within the windows let in (`Fits`),
and from then on its size is the bound. `FirstInv` adds what makes the counting
possible: nothing else waits in the line and a write that is refused late finds no
successor to cancel (`FirstFile`), and until the file's sink is open the channel carries
nothing but hellos, each of a connection of its own (`Unspoken`). The invariant is
`Downloads <= 1 => FirstInv`: a second request takes bytes of the first's transfer, and
the accounts no longer balance, as section 5 says.

### `StreamSinkProofs`

`TypesHold`, `CreditsNeverLost`, `MemoryBounded` and `NoTruncatedDownload` state the
invariants `TypeOK`, `CreditsConserved`, `BoundedQueue` and `CompleteIsWhole`. `IInv`
adds what they rest on: nothing has moved before a `StreamSink` exists (`Untouched`),
which is only after the worker's stream does (`StreamFirst`); credits are lost to a page
that has aborted and to nobody else (`CreditsAccounted`); every chunk beyond the high
water mark has its credit withheld (`BeyondTheMark`), which is why the queue is bounded
although the worker never refuses a chunk; every chunk written is under way, queued or
saved (`ChunksAccounted`); the ending tells what the page has done (`EndingTrue`).

### `GoTransferProofs`

`IInv` is `ChannelInv /\ ServerInv /\ ClientInv` with the budget; from it follow

* `GoTypeCorrect`, with the fact that the loop stays within its block and file;
* `GoOneRunner`. `RunnerOK` adds that a goroutine that exists is marked as running:
  that is what keeps a `get` between two of its steps from starting a second one;
* `GoNeverOversleeps`. It speaks of a loop that sleeps, but the race is earlier: the
  state is looked at (`Check`), the lock released, the channel looked at (`Decide`),
  and only then does the loop sleep. `WakeOK` says that from the first look on,
  whatever ends a reason to sleep leaves a token in `s.wake` or a `Poke` that will;
  `s.wake` being buffered is what makes it inductive;
* `GoNoPartLeft`, from `LineOK`;
* `GoSavedIsIntact == Spec => []SavedIsIntact`: a file under its own name holds the
  bytes that were shared. It is proved only: a wrong byte at the right length needs
  three channels, more than the runs have. The proof is short because the code is
  careful: the hash is taken of what was written, in the step that writes it, and
  every `end` of a Go server carries one (`GoMsg`).

### `ShareProofs`

The first part is about the websockets alone: what holds of them, and that everything
the room, the pages and the network do to one keeps it. Its invariant is `Good`:

* `SocksInv`: a websocket authenticates once, with its first message, and is welcomed
  once, in the role it has (`SockOK`); a page's websocket is of the page's own side
  (`PageOK`), and a page that is connected has read its welcome on the websocket it has
  (`Welcomed`); no two pages have the same one (`OneEach`);
* `Unique`: at most one websocket in use claims to be the sender, or a given receiver;
* `AllKnown`: every receiver the room relays to is known to the sender, where what is
  still on its way to the sender counts as known (`KnownTo`). That is what makes
  `SenderKnows` inductive: the property itself speaks of a sender with nothing unread.

The second part adds the room (`RoomOK`, `AlarmOK`), its creation (`CreatingOK`), the calls
under way (`CallsOK`: a socket is restored once, and whoever announces may) and the pages
(`PagesOK`); together they are `BaseInv`, from which follow `TypesHold`,
`OneSocketEachHolds` and `SenderKnowsHolds`, for any pages, websockets, ids, PINs and
budgets, twins and early losses included.

### `ShareRoomProofs`

What `closeRoom` and `restore` do in pieces, between calls to the directory, adds up.
`BooksInv` relates the room in memory, the one in storage, the PINs and the listings to
the calls under way: before the share is created there are neither pages nor calls
(`Early`); the calls of one `closeRoom` come in their order, and a restore's behind them
(`CallOrder`); what is in storage is the room or is about to be wiped (`SavedOK`); a PIN
is the share's own while the room, a creation or a call accounts for it (`PinsOK`); a
listing exists while the room is discoverable or a call will withdraw it (`ListedWhen`,
`ListedOK`); what the sender was or will be told is the room's PIN (`SendersOK`,
`ShownOK`). `GraceInv` adds that who asked for a restore is still there (`Stay`) and that
an alarm is set as soon as the sender is away (`GraceSet`). It gives

* `PinShownHolds` and `NothingLeftBehindHolds`, for `Limit["twins"] = 0`. Two restores at
  once each claim a PIN and one of them is never released (section 5): the hypothesis is
  the defect's boundary and not a convenience;
* `GraceHoldsAlways`, with `Limit["earlyLosses"] = 0` as well: `abandoned_restore` is what
  happens otherwise.

### `NegotiationProofs`

* `TypesHold == Spec => []TypeOK`. Names of connections are unbounded, and a new one is
  any number nobody refers to; that there is one rests on the messages under way, and the
  candidates a link has heard of, being finitely many (`FreshIsNew`, `NewLinkTyped`,
  `NewPcTyped`).
* `DropsNeverDisturb == Spec => DropsDoNotDisturb`, for any number of dropped sockets. A
  settled connection is given up by no step of either page (`NothingElseSettled`), because
  a connected link waits for no timer (`TimerOff`). What could harm it is an answer, which
  the sender applies whichever link it answers (`sender.ts:148`). `AnswersOK` says why it
  does not: messages to the sender stay in order, and behind an answer of the receiver's
  present connection, under way or applied, there is none of an earlier one.
* `OneFaultSurvived == ASSUME Enough PROVE Spec => []OneFaultIsSurvived`, for any number
  of faults and ICE restarts. `Enough` asks for three attempts and a watchdog that slows
  down before the last one (`NoticedBy < MAX_RESTARTS`); the code has four, and three. Both
  halves are needed: with two attempts, or with `NoticedBy = MAX_RESTARTS`, TLC finds a
  receiver that gives up after one fault.

  The invariant (`OneFaultInv`) binds a run without an outage and with at most one
  interruption. Until that interruption nothing has been asked for, and the first round
  of offer and answer is under way (`First`). After it one of five things holds
  (`Afforded`):

  * `Low`: two attempts at most are spent, and only one if the connection may still lose
    its data channel;
  * `Chain`: both pages are there, a message that has the sender make a new link is on
    its way, or the round of that link is under way. Undisturbed, a round ends in an open
    connection and a fresh budget (`UnderwayKeeps`, one lemma per stage). No timer can run
    out meanwhile: there is always a message, an offer, an answer or an opening to come;
  * `SenderAway`, `ReceiverAway`: a page is away, its return will start a chain, and the
    watchdog stops asking at `NoticedBy`; ICE can fail once more (`Spared`);
  * `MasterBack`: the sender's return is on its way to the receiver, with a fresh budget.

  Three invariants carry the argument. `ConnInv` says how far a round has come: there is
  one offer of a link at a time, at most one answer of a connection under way, and an
  answer that is applied belongs to the connection the receiver has. `WelcomeInv` puts
  the welcome first in the queue of a page that joins. And a receiver that is away
  leaves nothing behind that the sender would apply to a later link (`Down`).

### What is only model-checked

Liveness (fairness and `ENABLED` are out of the prover's reach): `DownloadsEnd`,
`WriteGoesOn`, `DoneIsSaved`, `OpenSettles`, `ShareEnds`, `EveryFileEnds`,
`ServerWindsDown`, and of `Negotiation` `Recovers`, `GoneIsSettled` and `BothShowIt`.
`SinkIsPrefix` and `CheckpointOnDisk` beyond the hypotheses above, where they are false.

The operators are free of recursion: sums over messages are folds of the
community modules, so the modules can be proved about.

## 5. What the checks show

The properties of the passing runs hold. Four places where the code does not do
what it says, each with a run that ends in the counterexample:

* **`stray_chunks`** (`client.ts:185`). A `start` for another item returns without
  ending `accepting`, and chunks are anonymous. `a` is requested and its start is
  sent; `b` is queued; `a` is cancelled, so `b` becomes active and asks; `a` is
  requested again and `b` cancelled. Under way are now `start(a,0)`, `start(b,0)`
  and a chunk of `b`. The new download of `a` accepts from the old start, skips
  the start of `b`, and takes `b`'s chunk for its own. `protocol.ts:4-5` says that
  bytes belong to the transfer most recently announced. With hashing the damage
  is found when the file is complete; without it, it is not.
* **`lost_folder`** (`receiver.ts:367`). An abandoned download's open still records
  its folder in `opfsDirs` when it resolves, over that of the download that
  replaced it. The folder is then removed, later checkpoints name it, and a
  reload starts the file over.
* **`abandoned_restore`** (`room.ts:182`). A sender asks for a closed room to be
  restored and its socket goes while the room waits for the directory. `onGone`
  finds no room and returns; then the restore goes on, gives the dead socket the
  role of master, and sets the alarm for the end of the room's lifetime. The room
  is kept for a day instead of five minutes, against `docs/ARCHITECTURE.md:61`.
* **`online_stale`** (`room.ts:260`). The welcome of a receiver says whether the
  sender was online before the TURN credentials were awaited. If the sender
  arrives during that wait, its `master` message overtakes the welcome and the
  receiver believes, until the next change, that the sender is away; it then
  never asks for a restart (`receiver.ts:274`, `receiver.ts:295`). With credentials at
  hand the property holds.

Seen while modelling, without a run of their own.

In the transfer:

* `finish()` awaits the writes queued when the end arrived, then compares `received`,
  which chunks may have raised during that wait, with the size, and a digest that has
  not seen those chunks (`client.ts:340`): an intact file can be reported as corrupted.
* With two connections and no hashing, `close()` can be called with a write still
  pending: a file is shown as done, then as failed (against `client.ts:283-284`).
* On a second connection `acked` starts from what was received, not written, so the
  receiver may hold about two windows (`server.ts:157`, against `protocol.ts:17-18`);
  `Backpressure` states the bound that holds for the first file a page asks for.
* A file that is asked for again while messages of its last transfer are under way takes
  their bytes, and then resumes from what it has received: every further request can
  add a window to what waits in memory, on one connection.
* Without hashing, a file whose partial content was resumed is done without a check
  of its beginning (`client.ts:288`).
* An abort removes the folder in the worker before the page drops the checkpoint. A
  reload in between (`opfs.worker.ts:63-70`, `receiver.ts:330-332`) leaves a checkpoint
  of bytes that are gone; the download the user gave up is resumed, from the start.
  `CheckpointOnDisk` excepts the interval, `CheckpointsHold` that reload.
* A write queued behind `close()` is refused, and sends its cancel, after the download is
  finished (`client.ts:319-320`). If the file has been asked for again meanwhile, the
  server takes the cancel for the new request, and at most the stall timer
  (`receiver.ts:175-190`) ends it. `DownloadsEnd` excepts this case (`CancelsAnother`).
* A sender's `error` for a repeated request while the sink is closing turns a
  finished, verified file into a failed one (`LateAbortDone`, `doubt` in `Delivery`).
* Requests pending at once are served last in, first out (`server.ts:99`, and in Go
  `server.go:135`, whose comment at lines 59-60 says "in the order the receiver asks
  for them"). The client asks for one file at a time, so it does not show.

In the streaming sink: `close()` does not look at `cancelled`. If the browser's user
cancels the download after the last write, the file is reported as done and is not
on the disk; `DoneIsSaved` allows for it.

In the negotiation, all of it healed by a restart in `negotiation`: an answer is
applied whichever link it answers (`sender.ts:148`), and the receiver's candidates
name no link (`receiver.ts:242`). The receiver's status stays "connected" while a new
connection is being set up.

In the worker: two sockets of a sender that restore at once after its PIN was taken
claim a PIN each, and one of them is never released (`directory.ts:64`;
`NothingLeftBehind` with `Twins = 1`, `Others = 1`, `Hurries = 1` and three PINs); a
restore lists the share without asking whether a privacy relay hides the network, as
creating it does (`room.ts:298`, `index.ts:98-102`); `announce` with other keys leaves
the entries under the old ones (`directory.ts:110`); two tabs with one identity replace
each other's socket in turn (`signal.ts:122`); the staleness half of the condition at
`signal.ts:199` has no effect, as `reconnectNow` returns while the status is open.

In the Go port: chunks of a replaced channel, handed over after the resync, are
written at the wrong place while the download accepts, and what could have been
resumed ends as an integrity error (`client.go:220`); and `CancelAll` takes the ids
before it cancels, so a `Download` in between starts a file nobody cancels, whose
partial file stays (`client.go:201`).

## 6. Not modelled, and the plan

Not modelled at all: pages, stores and drafts (rendering and IndexedDB glue), the
hash worker (the server sees its answer or its failure), the terminal UI and the
self-update of the command line, ICE credentials, names, key derivation (pure
functions without protocol state). Of the command line's sessions and signalling
only what drives a transfer is in `GoTransfer`; they repeat `Negotiation` with
goroutines and locks. Rate limits and PIN lookups of the directory change nothing a
room sees. `PROJECT.json` lists every part, and the hazards no property covers yet
with the reason.

What is left, in this order.

1. Failing calls between Durable Objects: a PIN claimed for a room that is never
   created, a restore cut short, and a room forgotten without being closed; with
   it, twins in a passing run whose property says what is left of the promise.
2. The sessions of the Go port over `Negotiation`'s relay.
