----------------------------- MODULE ItemClient -----------------------------
(***************************************************************************)
(* The receiving side (src/lib/transfer/client.ts), the sink it writes to  *)
(* and the checkpoints its session keeps for a page reload                 *)
(* (src/lib/receiver.ts, src/lib/resume.ts).                               *)
(*                                                                         *)
(* A Download outlives the handlers that touch it: opening the sink, each  *)
(* write, closing and aborting the sink are awaited, and messages, clicks  *)
(* and channel events are handled meanwhile.  Each of those answers is a   *)
(* step of its own.  The sink is the one that downloads can be resumed     *)
(* into, the Origin Private File System (src/lib/sinks/opfs.ts): it answers*)
(* in the order it was asked, and after close() it refuses every write.    *)
(***************************************************************************)
EXTENDS TransferProtocol, SequencesExt

VARIABLES
    items,      \* the first hello has been seen
    states,     \* the status of every file
    verified,   \* the digest matched when the file was last completed
    queue,      \* downloads whose turn has not come
    active,     \* the current Download
    orphans,    \* per file, abandoned downloads whose sink is still opening
    late,       \* what aborts and writes of completed downloads still have to say
    disk,       \* per file, what the folder of its latest download holds
    opfsDirs,   \* per file, the folder its checkpoints will name
    saved       \* per file, the checkpoint in sessionStorage

storageVars == <<disk, opfsDirs, saved>>
clientVars ==
    <<items, states, verified, queue, active, orphans, late, storageVars>>

Status == {"idle", "queued", "receiving", "verifying", "done", "error",
           "cancelled"}
Busy   == {"queued", "receiving", "verifying"}
Ended  == {"done", "error", "cancelled"}

FileBytes == Seq(Files \X Nat)

\* The folder of the file's latest download, or one that was aborted.
Folder == {"own", "gone"}

\* Where to resume from: the folder, the offset, and the hash state at that
\* offset unless hashing was unavailable.
ResumeFrom ==
    [offset : Nat, hasState : BOOLEAN, hashed : FileBytes, dir : Folder]
NoResume ==
    [offset |-> 0, hasState |-> FALSE, hashed |-> <<>>, dir |-> "own"]

Download ==
    [id : Files \cup {NoFile},
     ready : BOOLEAN,          \* the sink is open and the first get is sent
     received : Nat,           \* bytes taken off the channel
     written : Nat,            \* bytes the sink has acknowledged
     lastAck : Nat,
     accepting : BOOLEAN,
     chain : Seq(Chunks),      \* chunks not yet written; the head is in flight
     hasher : BOOLEAN,         \* hashing is possible
     hashed : FileBytes,       \* what the hasher has been fed
     failed : {"no", "error", "cancelled"},
     removed : BOOLEAN,        \* the storage worker has removed its folder
     finishing : BOOLEAN,
     barrier : Nat,            \* writes finish() still waits for
     expected : Sha256,        \* the digest its "end" announced
     closing : BOOLEAN]        \* finish() waits for the sink to close

NewDownload(f, from) ==
    [id |-> f, ready |-> FALSE,
     received |-> from.offset, written |-> from.offset,
     lastAck |-> from.offset, accepting |-> FALSE, chain |-> <<>>,
     hasher |-> from.hasState, hashed |-> from.hashed, failed |-> "no",
     removed |-> FALSE, finishing |-> FALSE, barrier |-> 0, expected |-> FALSE,
     closing |-> FALSE]

NoDownload == NewDownload(NoFile, NoResume)

\* The status that an abort of a completed download will still set, after the
\* closed sink has refused a write or not.
LateAbort ==
    [id : Files, status : {"error", "cancelled"}, refused : BOOLEAN]

ClientTypeOK ==
    /\ items \in BOOLEAN
    /\ states \in [Files -> Status]
    /\ verified \in [Files -> BOOLEAN]
    /\ queue \in Seq([id : Files, from : ResumeFrom])
    /\ active \in Download
    /\ orphans \in [Files -> Nat]
    /\ late \in SUBSET LateAbort
    /\ disk \in [Files -> FileBytes]
    /\ opfsDirs \in [Files -> Folder \cup {"none"}]
    /\ saved \in [Files -> ResumeFrom]

-----------------------------------------------------------------------------
(* Steps shared by the handlers. *)

Send(msgs) == toServer' = Deliver(toServer, msgs)

\* Mutant: a download that starts is not announced as receiving.
TakeNextSilently(q, st) ==
    /\ active' = IF q = <<>> THEN NoDownload
                 ELSE NewDownload(Head(q).id, Head(q).from)
    /\ queue' = IF q = <<>> THEN q ELSE Tail(q)
    /\ states' = st

\* Mutant: the last one in the queue is next.
TakeNextLast(q, st) ==
    IF q = <<>>
    THEN /\ active' = NoDownload
         /\ queue' = q
         /\ states' = st
    ELSE /\ active' = NewDownload(Last(q).id, Last(q).from)
         /\ queue' = Front(q)
         /\ states' = [st EXCEPT ![Last(q).id] = "receiving"]

\* next(): the active download is gone; the head of q takes its place.
TakeNext(q, st) ==
    IF q = <<>>
    THEN /\ active' = NoDownload
         /\ queue' = q
         /\ states' = st
    ELSE /\ active' = NewDownload(Head(q).id,
                         [Head(q).from EXCEPT !.offset =
                             Least(@, Size[Head(q).id])])
         /\ queue' = Tail(q)
         /\ states' = [st EXCEPT ![Head(q).id] = "receiving"]

\* Mutant: a final status leaves the checkpoint behind.
DropFolderOnly(f) ==
    /\ UNCHANGED saved
    /\ opfsDirs' = [opfsDirs EXCEPT ![f] = "none"]

\* A final status of f drops its checkpoint and forgets its folder.
DropCheckpoint(f) ==
    /\ saved' = [saved EXCEPT ![f] = NoResume]
    /\ opfsDirs' = [opfsDirs EXCEPT ![f] = "none"]

\* The active download reaches a final status.
EndActive(status) ==
    /\ TakeNext(queue, [states EXCEPT ![active.id] = status])
    /\ DropCheckpoint(active.id)

\* The first half of fail(), for a download d with an open sink: the sink is
\* told to abort, and d stays active until it has.
Failing(d, status) ==
    IF d.failed # "no" THEN d
    ELSE [d EXCEPT !.failed = status, !.accepting = FALSE]

\* fail() on the active download, after sending msgs.  Without a sink to abort
\* it is over at once, and the sink is aborted when it opens.
FailActive(status, msgs) ==
    /\ Send(msgs)
    /\ IF active.ready
       THEN /\ active' = Failing(active, status)
            /\ UNCHANGED <<queue, states, orphans, opfsDirs, saved>>
       ELSE /\ EndActive(status)
            /\ orphans' = [orphans EXCEPT ![active.id] = @ + 1]

\* Mutant: what has been received, not what has been written.
CheckpointReceived(d, dir) ==
    [offset |-> d.received, hasState |-> d.hasher, hashed |-> d.hashed,
     dir |-> dir]

\* onCheckpoint(): what a page reload would resume d from.
Checkpoint(d, dir) ==
    [offset |-> d.written, hasState |-> d.hasher, hashed |-> d.hashed,
     dir |-> dir]

\* finish() after the writes it waited for: d is the active download, and acks
\* are what the last of those writes had to say.
Finish(d, acks) ==
    IF d.failed # "no" THEN
        /\ active' = d
        /\ Send(acks)
        /\ UNCHANGED states
    ELSE IF d.received # Size[d.id] THEN
        /\ active' = [d EXCEPT !.finishing = FALSE, !.accepting = FALSE]
        /\ Send(acks \o <<Get(d.id, d.received)>>)
        /\ UNCHANGED states
    ELSE IF d.expected /\ d.hasher /\ d.hashed # Whole(d.id) THEN
        /\ active' = [Failing(d, "error") EXCEPT !.chain = <<>>]
        /\ Send(acks \o <<Done(d.id, FALSE)>>)
        /\ states' = [states EXCEPT ![d.id] = "verifying"]
    ELSE
        /\ active' = [d EXCEPT !.closing = TRUE]
        /\ Send(acks)
        /\ states' = [states EXCEPT ![d.id] = "verifying"]

-----------------------------------------------------------------------------
(* The user and the session. *)

\* download(): the file joins the queue, and starts if nothing is active.
RequestDownload(f, from) ==
    LET q == Append(queue, [id |-> f, from |-> from])
        st == [states EXCEPT ![f] = "queued"]
    IN  IF active.id = NoFile
        THEN TakeNext(q, st)
        ELSE /\ queue' = q
             /\ states' = st
             /\ UNCHANGED active

UserDownload(f) ==
    /\ items /\ states[f] \notin Busy
    /\ active.id # f /\ \A i \in DOMAIN queue : queue[i].id # f
    /\ RequestDownload(f, NoResume)
    /\ UNCHANGED <<items, verified, orphans, late, storageVars, channelVars>>

\* cancel() on a file whose turn has not come.
CancelQueued(f) ==
    /\ \E i \in DOMAIN queue :
          /\ queue[i].id = f
          /\ queue' = RemoveAt(queue, i)
    /\ states' = [states EXCEPT ![f] = "cancelled"]
    /\ DropCheckpoint(f)
    /\ UNCHANGED <<items, verified, active, orphans, late, disk, channelVars>>

\* cancel() on the active download, which the page offers while it receives.
CancelActive ==
    /\ active.id # NoFile
    /\ states[active.id] = "receiving"
    /\ FailActive("cancelled", <<CancelMsg(active.id)>>)
    /\ UNCHANGED <<items, verified, late, disk, sOpen, cOpen, toClient>>

\* checkStalls(): a download shown as receiving made no progress for a while.
AbortStalled ==
    /\ active.id # NoFile /\ cOpen
    /\ states[active.id] = "receiving"
    /\ FailActive("error", <<CancelMsg(active.id)>>)
    /\ UNCHANGED <<items, verified, late, disk, sOpen, cOpen, toClient>>

\* The tab reloads.  Only sessionStorage and device storage survive; a write
\* under way may have reached the disk or not.  From now on a file's folder is
\* the one its checkpoint names.
Reload ==
    LET c == Head(active.chain)
        Kept(d) == [f \in Files |-> IF saved[f].dir = "own" THEN d[f] ELSE <<>>]
    IN  /\ \/ disk' = Kept(disk)
           \/ /\ active.chain # <<>> /\ ~active.closing /\ ~active.removed
              /\ disk' = Kept([disk EXCEPT ![active.id] =
                                  @ \o Bytes(c.id, c.at, c.at + c.len)])
        /\ saved' = [f \in Files |-> [saved[f] EXCEPT !.dir = "own"]]
        /\ opfsDirs' = [f \in Files |-> "none"]
        /\ items' = FALSE
        /\ states' = [f \in Files |-> "idle"]
        /\ verified' = [f \in Files |-> FALSE]
        /\ queue' = <<>>
        /\ active' = NoDownload
        /\ orphans' = [f \in Files |-> 0]
        /\ late' = {}
        /\ cOpen' = FALSE
        /\ toClient' = <<>>
        /\ UNCHANGED <<sOpen, toServer>>

\* Partial files nobody holds open are gone before the page resumes them: the
\* browser evicted them, or another tab of the app cleared them.
Evict ==
    /\ ~items
    /\ disk' = [f \in Files |-> <<>>]
    /\ UNCHANGED <<items, states, verified, queue, active, orphans, late,
                   opfsDirs, saved, channelVars>>

\* The receiver's end of the channel closes: onClose detaches the client.
ClientClose ==
    /\ cOpen /\ cOpen' = FALSE
    /\ toClient' = <<>>
    /\ active' = [active EXCEPT !.accepting = FALSE]
    /\ UNCHANGED <<items, states, verified, queue, orphans, late, storageVars,
                   sOpen, toServer>>

-----------------------------------------------------------------------------
(* Message handlers. *)

Ignore ==
    UNCHANGED <<states, queue, active, orphans, opfsDirs, saved, toServer>>

\* Mutant: a new channel does not ask for the rest of the active download.
OnHelloKeepsWaiting ==
    IF ~items /\ \E f \in Files : saved[f].offset > 0 THEN
        /\ \E f \in Files : /\ saved[f].offset > 0
                            /\ RequestDownload(f, saved[f])
        /\ UNCHANGED <<orphans, opfsDirs, saved, toServer>>
    ELSE Ignore

\* Mutant: every hello resumes what has a checkpoint.
OnHelloResumesAgain ==
    IF active.ready /\ active.failed = "no" THEN
        /\ active' = [active EXCEPT !.accepting = FALSE]
        /\ Send(<<Get(active.id, active.received)>>)
        /\ UNCHANGED <<states, queue, orphans, opfsDirs, saved>>
    ELSE IF \E f \in Files : saved[f].offset > 0 THEN
        /\ \E f \in Files : /\ saved[f].offset > 0
                            /\ RequestDownload(f, saved[f])
        /\ UNCHANGED <<orphans, opfsDirs, saved, toServer>>
    ELSE Ignore

\* A download that went to device storage goes on where its checkpoint says.
\* At most one has a checkpoint, see OneCheckpoint.
resumeSaved ==
    \E f \in Files : saved[f].offset > 0 /\ RequestDownload(f, saved[f])

\* The first hello resumes what a reload interrupted, a later one asks for the
\* rest of the active download.
OnHello ==
    IF active.ready /\ active.failed = "no" THEN
        /\ active' = [active EXCEPT !.accepting = FALSE]
        /\ Send(<<Get(active.id, active.received)>>)
        /\ UNCHANGED <<states, queue, orphans, opfsDirs, saved>>
    ELSE IF ~items /\ \E f \in Files : saved[f].offset > 0 THEN
        /\ resumeSaved
        /\ UNCHANGED <<orphans, opfsDirs, saved, toServer>>
    ELSE Ignore

\* Mutant: bytes are accepted from whatever offset the sender starts at.
OnStartAnywhere(m) ==
    IF m.id # active.id THEN Ignore
    ELSE /\ active' = [active EXCEPT !.accepting = TRUE]
         /\ UNCHANGED <<states, queue, orphans, opfsDirs, saved, toServer>>

\* Bytes are accepted only after a "start" at our offset.
OnStart(m) ==
    IF m.id # active.id THEN Ignore
    ELSE /\ active' = [active EXCEPT !.accepting = m.offset = active.received]
         /\ Send(IF m.offset = active.received THEN <<>>
                 ELSE <<Get(active.id, active.received)>>)
         /\ UNCHANGED <<states, queue, orphans, opfsDirs, saved>>

\* Bytes carry no name: they are taken for the active download's next ones.
OnChunk(m) ==
    IF ~active.accepting \/ active.failed # "no" THEN Ignore
    ELSE IF active.received + m.len > Size[active.id] THEN
        FailActive("error", <<>>)
    ELSE IF ~active.ready THEN
        FailActive("error", <<CancelMsg(active.id)>>)
    ELSE
        /\ active' = [active EXCEPT !.received = @ + m.len,
                                    !.chain = Append(@, m)]
        /\ UNCHANGED <<states, queue, orphans, opfsDirs, saved,
                       toServer>>

\* The end waits for the writes queued so far, and only for those.
OnEnd(m) ==
    IF m.id # active.id \/ active.finishing THEN Ignore
    ELSE IF ~active.ready /\ active.received = Size[m.id] THEN
        FailActive("error", <<Done(m.id, FALSE)>>)
    ELSE LET d == [active EXCEPT !.finishing = TRUE, !.expected = m.sha256]
         IN  /\ IF d.chain = <<>>
                THEN Finish(d, <<>>)
                ELSE /\ active' = [d EXCEPT !.barrier = Len(d.chain)]
                     /\ UNCHANGED <<states, toServer>>
             /\ UNCHANGED <<queue, orphans, opfsDirs, saved>>

OnError(m) ==
    IF m.id # active.id THEN Ignore ELSE FailActive("error", <<>>)

OnClientMessage ==
    /\ cOpen /\ toClient # <<>>
    /\ toClient' = Tail(toClient)
    /\ LET m == Head(toClient)
       IN  \/ m.t = "hello" /\ OnHello
           \/ m.t = "start" /\ OnStart(m)
           \/ m.t = "chunk" /\ OnChunk(m)
           \/ m.t = "end" /\ OnEnd(m)
           \/ m.t = "error" /\ OnError(m)
    /\ items' = (items \/ Head(toClient).t = "hello")
    /\ UNCHANGED <<verified, late, disk, sOpen, cOpen>>

-----------------------------------------------------------------------------
(* The sink answers. *)

\* Mutant: a reopened file keeps the tail written after its checkpoint.
Untruncated(f, at) == disk[f]

\* open() in the storage worker cuts the file off at the byte to go on from.
Truncated(f, at) == SubSeq(disk[f], 1, at)

\* open() resolves.  A reopened file shorter than the checkpoint starts over.
\* Hashing may be unavailable (wasm), or impossible without the state at the
\* checkpoint.
SinkOpened(wasm) ==
    LET f == active.id
        startAt == IF Len(disk[f]) >= active.received
                   THEN active.received ELSE 0
        resumed == startAt > 0
    IN  /\ f # NoFile /\ ~active.ready
        /\ active' = [active EXCEPT
                         !.ready = TRUE,
                         !.received = startAt, !.written = startAt,
                         !.lastAck = startAt,
                         !.hasher = wasm /\ (resumed => @),
                         !.hashed = IF resumed THEN @ ELSE <<>>]
        /\ disk' = [disk EXCEPT ![f] = Truncated(f, startAt)]
        /\ opfsDirs' = [opfsDirs EXCEPT ![f] = "own"]
        /\ Send(<<Get(f, startAt)>>)
        /\ UNCHANGED <<items, states, verified, queue, orphans, late, saved,
                       sOpen, cOpen, toClient>>

SinkOpenFails ==
    /\ active.id # NoFile /\ ~active.ready
    /\ EndActive("error")
    /\ UNCHANGED <<items, verified, orphans, late, disk, channelVars>>

\* Mutant: nothing checks that a download was abandoned.
OrphanOpenedAgain(f) ==
    /\ orphans' = [orphans EXCEPT ![f] = @ - 1]
    /\ UNCHANGED <<items, states, verified, queue, active, late, storageVars,
                   channelVars>>

\* The sink of a download abandoned meanwhile opens, and is aborted.  A new
\* folder (not one resumed, or that failed to open) has been recorded as the
\* file's by then.
OrphanOpened(f) ==
    /\ orphans[f] > 0
    /\ orphans' = [orphans EXCEPT ![f] = @ - 1]
    /\ \/ opfsDirs' = [opfsDirs EXCEPT ![f] = "gone"]
       \/ UNCHANGED opfsDirs
    /\ UNCHANGED <<items, states, verified, queue, active, late, disk, saved,
                   channelVars>>

\* The write at the head of the chain succeeds: count it, ack and checkpoint
\* when due, and let finish() go on if it waited for this one.  The worker may
\* have removed the folder since it wrote.
WriteDone ==
    LET c == Head(active.chain)
        f == active.id
        n == active.written + c.len
        due == n - active.lastAck >= ACK_EVERY \/ n = Size[f]
        bytes == Bytes(c.id, c.at, c.at + c.len)
        d == [active EXCEPT
                 !.written = n,
                 !.lastAck = IF due THEN n ELSE @,
                 !.chain = IF active.failed = "no" THEN Tail(@) ELSE <<>>,
                 !.hashed = IF active.hasher THEN @ \o bytes ELSE @,
                 !.barrier = IF @ > 0 THEN @ - 1 ELSE 0]
        acks == IF due THEN <<Ack(f, n)>> ELSE <<>>
    IN  /\ active.chain # <<>> /\ ~active.closing
        /\ disk' = IF active.removed THEN disk
                   ELSE [disk EXCEPT ![f] = @ \o bytes]
        /\ saved' = IF due /\ opfsDirs[f] # "none"
                    THEN [saved EXCEPT ![f] = Checkpoint(d, opfsDirs[f])]
                    ELSE saved
        /\ IF active.barrier = 1
           THEN Finish(d, acks)
           ELSE /\ active' = d
                /\ Send(acks)
                /\ UNCHANGED states
        /\ UNCHANGED <<items, verified, queue, orphans, late, opfsDirs,
                       sOpen, cOpen, toClient>>

\* Mutant: a failed write is taken for a success.
WriteSkipped ==
    LET c == Head(active.chain)
    IN  /\ active.chain # <<>> /\ active.barrier # 1
        /\ active' = [active EXCEPT
                         !.written = @ + c.len, !.chain = Tail(@),
                         !.hashed = @ \o Bytes(c.id, c.at, c.at + c.len),
                         !.barrier = IF @ > 0 THEN @ - 1 ELSE 0]
        /\ UNCHANGED <<items, states, verified, queue, orphans, late,
                       storageVars, channelVars>>

\* The write fails, as every write after close() does: the sender is told, and
\* the writes behind it are skipped.
WriteFails ==
    /\ active.chain # <<>>
    /\ Send(<<CancelMsg(active.id)>>)
    /\ active' = [Failing(active, "error") EXCEPT !.chain = <<>>,
                                                  !.barrier = 0]
    /\ UNCHANGED <<items, states, verified, queue, orphans, late, storageVars,
                   sOpen, cOpen, toClient>>

\* The sink has closed.  finish() reports and moves on without looking again
\* at what happened to the download while it waited: an abort still in flight,
\* or a write the closed sink refuses (LateWriteFails), sets another status
\* later, and removes the file unless the storage worker was stopped before.
CloseDone ==
    LET f == active.id
        aborts == IF active.failed # "no" THEN {active.failed}
                  ELSE IF active.chain # <<>> THEN {"error"}
                  ELSE {}
    IN  /\ active.closing
        /\ Send(<<Done(f, TRUE)>>)
        /\ EndActive("done")
        /\ verified' = [verified EXCEPT ![f] = active.expected /\ active.hasher]
        /\ late' = late \cup {[id |-> f, status |-> s,
                              refused |-> active.chain # <<>>] : s \in aborts}
        /\ \/ UNCHANGED disk
           \/ aborts # {} /\ disk' = [disk EXCEPT ![f] = <<>>]
        /\ UNCHANGED <<items, orphans, sOpen, cOpen, toClient>>

\* Closing fails, and so does a write that came after it.
CloseFails ==
    /\ active.closing
    /\ Send(<<Done(active.id, FALSE)>> \o
            IF active.chain = <<>> THEN <<>> ELSE <<CancelMsg(active.id)>>)
    /\ active' = [Failing(active, "error") EXCEPT !.closing = FALSE,
                                                  !.chain = <<>>]
    /\ UNCHANGED <<items, states, verified, queue, orphans, late, storageVars,
                   sOpen, cOpen, toClient>>

\* The storage worker carries out an abort.  The page hears of it later, and
\* until then keeps the checkpoint of what is gone.
AbortRemoves ==
    /\ active.failed # "no" /\ ~active.removed
    /\ active' = [active EXCEPT !.removed = TRUE]
    /\ disk' = [disk EXCEPT ![active.id] = <<>>]
    /\ UNCHANGED <<items, states, verified, queue, orphans, late, opfsDirs,
                   saved, channelVars>>

\* The abort is answered, or has timed out: the second half of fail().  With
\* the checkpoint dropped, nothing names the folder any more.
AbortDone ==
    LET f == active.id
    IN  /\ active.failed # "no" /\ ~active.closing /\ active.chain = <<>>
        /\ EndActive(active.failed)
        /\ disk' = [disk EXCEPT ![f] = <<>>]
        /\ UNCHANGED <<items, verified, orphans, late, channelVars>>

\* A write that was queued behind close() is refused, or never answered by the
\* stopped worker, after CloseDone has completed the download.
LateWriteFails(l) ==
    /\ l \in late /\ l.refused
    /\ late' = (late \ {l}) \cup {[l EXCEPT !.refused = FALSE]}
    /\ Send(<<CancelMsg(l.id)>>)
    /\ UNCHANGED <<items, states, verified, queue, active, orphans,
                   storageVars, sOpen, cOpen, toClient>>

\* The second half of fail() for a download that CloseDone has completed.
LateAbortDone(l) ==
    /\ l \in late /\ ~l.refused
    /\ late' = late \ {l}
    /\ states' = [states EXCEPT ![l.id] = l.status]
    /\ DropCheckpoint(l.id)
    /\ UNCHANGED <<items, verified, queue, active, orphans, disk, channelVars>>
=============================================================================
