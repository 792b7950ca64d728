------------------------------ MODULE GoClient ------------------------------
(***************************************************************************)
(* The receiving side in the command-line program: transfer.Client         *)
(* (cli/internal/transfer/client.go) over FileSink (filesink.go), and what *)
(* the session and the receive command ask of it.                          *)
(*                                                                         *)
(* c.mu is held for a whole message, the write to disk included, so every  *)
(* handler is one step; what remains are the goroutines that compete for   *)
(* it: those that read the channels (an old one may still hand over what   *)
(* it had received when a new one is attached), the one that runs OnItems, *)
(* and the one that ends the session.                                      *)
(***************************************************************************)
EXTENDS TransferProtocol, SequencesExt, FiniteSets

CONSTANT
    Shared    \* the files of the share, in its order

ASSUME SharedAssumption ==
    Shared \in Seq(Files) /\ Files = Range(Shared) /\ IsInjective(Shared)

VARIABLES
    items,       \* Client.items: whether the share is known
    states,      \* Client.states, their Status
    queue,       \* Client.queue
    active,      \* Client.active
    part,        \* the files that have a ".part" file on disk
    saved,       \* the files renamed to their own name, with what they hold
    channel,     \* how many channels have been attached so far
    old,         \* what the goroutine of each earlier channel still holds
    wanted,      \* the ids of a call of Receiver.Download, yet to be asked for
    caller,      \* the channel whose goroutine makes that call
    ended,       \* Receiver.ended
    cancelling   \* the ids of CancelAll, yet to be cancelled

goClientVars ==
    <<items, states, queue, active, part, saved, channel, old, wanted, caller,
      ended, cancelling>>

NoDownload ==
    [id |-> NoFile, accepting |-> FALSE, received |-> 0, lastAck |-> 0,
     hashed |-> <<>>, bytes |-> <<>>]

Finished == {"done", "error", "cancelled"}

Byte == Files \X Nat

GoClientTypeOK ==
    /\ items \in BOOLEAN
    /\ states \in [Files -> {"idle", "queued", "receiving"} \cup Finished]
    /\ queue \in Seq(Files)
    /\ active \in [id : Files \cup {NoFile}, accepting : BOOLEAN,
                   received : Nat, lastAck : Nat,
                   hashed : Seq(Byte), bytes : Seq(Byte)]
    /\ part \subseteq Files
    /\ saved \subseteq [id : Files, bytes : Seq(Byte)]
    /\ channel \in Nat
    /\ old \in Seq(Seq(SenderMsg))
    /\ wanted \in Seq(Files)
    /\ caller \in 0 .. channel
    /\ ended \in BOOLEAN
    /\ cancelling \in Seq(Files)

-----------------------------------------------------------------------------
(* Parts of handlers.  "fails" is how many sinks in a row cannot be opened. *)

send(msgs) == toServer' = Deliver(toServer, msgs)

\* next(), when no download is active: st and dir are the states and the
\* ".part" files so far, and q the queue; each sink that cannot be opened
\* fails its file, and the next is tried.
next(st, dir, q, msgs, fails) ==
    /\ fails \in 0 .. Len(q)
    /\ LET rest == SubSeq(q, fails + 1, Len(q))
           now  == [f \in Files |->
                       IF \E i \in 1 .. fails : q[i] = f THEN "error"
                       ELSE st[f]]
       IN  IF rest = <<>>
           THEN /\ active' = NoDownload
                /\ queue' = <<>>
                /\ states' = now
                /\ part' = dir
                /\ send(msgs)
           ELSE /\ active' = [NoDownload EXCEPT !.id = Head(rest)]
                /\ queue' = Tail(rest)
                /\ states' = [now EXCEPT ![Head(rest)] = "receiving"]
                /\ part' = dir \cup {Head(rest)}
                /\ send(msgs \o <<Get(Head(rest), 0)>>)

\* Mutant: a file that fails is left where it is.
failKeepsPart(status, msgs, fails) ==
    /\ next([states EXCEPT ![active.id] = status], part, queue, msgs, fails)
    /\ UNCHANGED saved

\* fail(): the partial file is removed.
fail(status, msgs, fails) ==
    /\ next([states EXCEPT ![active.id] = status], part \ {active.id},
            queue, msgs, fails)
    /\ UNCHANGED saved

\* The rest of the active file is asked for.
AskAgain ==
    /\ active' = [active EXCEPT !.accepting = FALSE]
    /\ send(<<Get(active.id, active.received)>>)
    /\ UNCHANGED <<states, queue, part, saved>>

\* No sink is opened in the step.
NoneOpened(fails) == fails = 0

-----------------------------------------------------------------------------
(* HandleMessage, called by the goroutine of channel ch. *)

\* Mutant: a download under way waits for the new channel to go on with it.
OnHelloWaits(ch, fails) ==
    /\ items' = TRUE
    /\ IF items THEN UNCHANGED <<wanted, caller>>
       ELSE wanted' = Shared /\ caller' = ch
    /\ IF active.id # NoFile
       THEN /\ UNCHANGED <<states, queue, active, part, saved, toServer>>
            /\ NoneOpened(fails)
       ELSE next(states, part, queue, <<>>, fails) /\ UNCHANGED saved

OnHello(ch, fails) ==
    /\ items' = TRUE
    /\ IF items THEN UNCHANGED <<wanted, caller>>
       ELSE wanted' = Shared /\ caller' = ch
    /\ IF active.id # NoFile
       THEN AskAgain /\ NoneOpened(fails)
       ELSE next(states, part, queue, <<>>, fails) /\ UNCHANGED saved

OnStart(m) ==
    IF m.id # active.id
    THEN UNCHANGED <<states, queue, active, part, saved, toServer>>
    ELSE IF m.offset # active.received
    THEN AskAgain
    ELSE /\ active' = [active EXCEPT !.accepting = TRUE]
         /\ UNCHANGED <<states, queue, part, saved, toServer>>

\* The chunk is written and, now and then, acknowledged.
Write(m) ==
    LET received == active.received + m.len
        data     == Bytes(m.id, m.at, m.at + m.len)
        ack      == \/ received - active.lastAck >= ACK_EVERY
                    \/ received = Size[active.id]
    IN  /\ active' = [active EXCEPT
                         !.received = received,
                         !.lastAck = IF ack THEN received ELSE @,
                         !.hashed = @ \o data,
                         !.bytes = @ \o data]
        /\ send(IF ack THEN <<Ack(active.id, received)>> ELSE <<>>)
        /\ UNCHANGED <<states, queue, part, saved>>

OnChunk(m, writes, fails) ==
    IF ~active.accepting
    THEN /\ UNCHANGED <<states, queue, active, part, saved, toServer>>
         /\ NoneOpened(fails)
    ELSE IF active.received + m.len > Size[active.id]
    THEN fail("error", <<>>, fails)
    ELSE IF writes THEN Write(m) /\ NoneOpened(fails)
    ELSE fail("error", <<CancelMsg(active.id)>>, fails)

\* The hash says whether these are the bytes that were shared.
finish(m, closes, fails) ==
    IF active.received # Size[active.id]
    THEN AskAgain /\ NoneOpened(fails)
    ELSE IF (m.sha256 /\ active.hashed # Whole(active.id)) \/ ~closes
    THEN fail("error", <<Done(active.id, FALSE)>>, fails)
    ELSE /\ saved' = saved \cup {[id |-> active.id, bytes |-> active.bytes]}
         /\ next([states EXCEPT ![active.id] = "done"], part \ {active.id},
                 queue, <<Done(active.id, TRUE)>>, fails)

\* Whether the message has the client write to its file, or close it.
AsksDisk(m) ==
    \/ m.t = "chunk" /\ active.accepting
    \/ m.t = "end" /\ m.id = active.id

\* ok says whether the disk does what this message asks of it.
HandleMessage(ch, m, ok, fails) ==
    /\ ok \/ AsksDisk(m)
    /\ \/ m.t = "hello" /\ OnHello(ch, fails)
       \/ /\ m.t # "hello"
          /\ \/ m.t = "start" /\ OnStart(m) /\ NoneOpened(fails)
             \/ m.t = "chunk" /\ OnChunk(m, ok, fails)
             \/ m.t = "end" /\ m.id = active.id /\ finish(m, ok, fails)
             \/ m.t = "error" /\ m.id = active.id /\ fail("error", <<>>, fails)
             \/ /\ m.t \in {"end", "error"} /\ m.id # active.id
                /\ UNCHANGED <<states, queue, active, part, saved, toServer>>
                /\ NoneOpened(fails)
          /\ UNCHANGED <<items, wanted, caller>>
    /\ UNCHANGED <<channel, ended, cancelling>>

\* The goroutine of the channel is free unless it runs OnItems.
Free(ch) == wanted = <<>> \/ caller # ch

OnClientMessage(ok, fails) ==
    /\ cOpen /\ toClient # <<>> /\ Free(channel)
    /\ toClient' = Tail(toClient)
    /\ HandleMessage(channel, Head(toClient), ok, fails)
    /\ UNCHANGED <<sOpen, cOpen, old>>

\* A channel that was replaced hands over what it had received before, if its
\* goroutine is not stopped first.
OnOldMessage(ch, ok, fails) ==
    /\ ch \in DOMAIN old /\ old[ch] # <<>> /\ Free(ch)
    /\ old' = [old EXCEPT ![ch] = Tail(@)]
    /\ HandleMessage(ch, Head(old[ch]), ok, fails)
    /\ UNCHANGED <<sOpen, cOpen, toClient>>

-----------------------------------------------------------------------------
(* Channels: Attach and Detach. *)

Detached == [active EXCEPT !.accepting = FALSE]

\* A new channel is attached.  The one it replaces, if it was still open, has
\* yet to hand over what was under way on it, or some of it.
Attach ==
    /\ old' = IF channel = 0 THEN old
              ELSE Append(old, IF cOpen THEN toClient ELSE <<>>)
    /\ channel' = channel + 1
    /\ active' = Detached
    /\ UNCHANGED <<items, states, queue, part, saved, wanted, caller, ended,
                   cancelling>>

\* The receiver's end closes; what the sender buffers stays there.
ClientEndCloses ==
    /\ cOpen /\ Free(channel)
    /\ cOpen' = FALSE
    /\ active' = Detached
    /\ UNCHANGED <<items, states, queue, part, saved, channel, old, wanted,
                   caller, ended, cancelling, sOpen, toClient, toServer>>

-----------------------------------------------------------------------------
(* The receive command and the end of the session. *)

\* OnItems asks for every file of the share, one call of Download each.
Download(fails) ==
    /\ wanted # <<>>
    /\ wanted' = Tail(wanted)
    /\ LET f  == Head(wanted)
           st == [states EXCEPT ![f] = "queued"]
       IN  IF active.id # NoFile
           THEN /\ queue' = Append(queue, f)
                /\ states' = st
                /\ UNCHANGED <<active, part, toServer>>
                /\ NoneOpened(fails)
           ELSE next(st, part, Append(queue, f), <<>>, fails)
    /\ UNCHANGED <<items, saved, channel, old, caller, ended, cancelling,
                   sOpen, cOpen, toClient>>

\* finish() of the session: CancelAll takes the ids, and then cancels each.
Leave ==
    /\ ~ended /\ ended' = TRUE
    /\ cancelling' =
           queue \o (IF active.id = NoFile THEN <<>> ELSE <<active.id>>)
    /\ UNCHANGED <<items, states, queue, active, part, saved, channel, old,
                   wanted, caller, channelVars>>

Cancel(fails) ==
    /\ cancelling # <<>>
    /\ cancelling' = Tail(cancelling)
    /\ LET f == Head(cancelling)
       IN  \/ /\ \E i \in DOMAIN queue :
                     queue[i] = f /\ queue' = RemoveAt(queue, i)
              /\ states' = [states EXCEPT ![f] = "cancelled"]
              /\ UNCHANGED <<active, part, saved, toServer>>
              /\ NoneOpened(fails)
           \/ f = active.id /\ fail("cancelled", <<CancelMsg(f)>>, fails)
           \/ /\ f \notin Range(queue) \cup {active.id}
              /\ UNCHANGED <<states, queue, active, part, saved, toServer>>
              /\ NoneOpened(fails)
    /\ UNCHANGED <<items, channel, old, wanted, caller, ended, sOpen, cOpen,
                   toClient>>

-----------------------------------------------------------------------------

\* A file that carries its own name is the file that was shared, although two
\* channels may feed one download (client.go:306-329, 342-349; filesink.go:13).
SavedIsIntact == \A s \in saved : s.bytes = Whole(s.id)

\* No partial file outlives its download: whatever ends it, the ".part" file
\* has been renamed or removed (client.go:366-385, filesink.go:55-78).
NoPartLeft == part \subseteq {active.id}
=============================================================================
