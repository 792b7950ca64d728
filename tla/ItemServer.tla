----------------------------- MODULE ItemServer -----------------------------
(***************************************************************************)
(* The sending side of one data channel (src/lib/transfer/server.ts): a    *)
(* queue of requests and a loop that streams one file at a time.           *)
(*                                                                         *)
(* run() and sendFile() are one coroutine.  It gives up the thread to the  *)
(* message handlers only while it waits for a block to be read, for room   *)
(* in the window or the channel buffer, or for the hash; srv.phase says    *)
(* which.  Every other await in it resumes in a microtask, before the next *)
(* message is handled, and is part of the step it belongs to.              *)
(***************************************************************************)
EXTENDS TransferProtocol, SequencesExt

VARIABLES srv

serverVars == <<srv>>

IdleServer ==
    [queue |-> <<>>, active |-> NoFile, cancelled |-> FALSE, phase |-> "idle",
     sent |-> 0, acked |-> 0, blockEnd |-> 0]

ServerTypeOK ==
    srv \in [queue : Seq([id : Files, offset : Nat]),
             active : Files \cup {NoFile},
             cancelled : BOOLEAN,
             phase : {"idle", "read", "send", "hash"},
             sent : Nat, acked : Nat, blockEnd : Nat]

-----------------------------------------------------------------------------

bufferedAmount ==
    FoldLeft(LAMBDA n, m : IF m.t = "chunk" THEN n + m.len ELSE n, 0, toClient)

\* Mutant: only the channel buffer is looked at.
HasBufferSpace == sOpen /\ bufferedAmount <= HIGH_WATER

\* capacity(): the channel buffer and the receiver's window both have room.
HasCapacity ==
    /\ sOpen
    /\ bufferedAmount <= HIGH_WATER
    /\ srv.sent - srv.acked <= WINDOW

\* A burst of chunks runs to the end of the block, or until capacity is gone,
\* before any message is handled.
Settled == ~(srv.phase = "send" /\ HasCapacity)

\* run() takes the request at the head of q, or stops when there is none.
Serve(q) ==
    IF q = <<>> THEN IdleServer
    ELSE LET f   == Head(q).id
             pos == Least(Head(q).offset, Size[f])
         IN  [queue |-> Tail(q), active |-> f, cancelled |-> FALSE,
              phase |-> IF pos < Size[f] THEN "read" ELSE "hash",
              sent |-> pos, acked |-> pos, blockEnd |-> pos]

Announcement(q) ==
    IF q = <<>> THEN <<>>
    ELSE <<Start(Head(q).id, Least(Head(q).offset, Size[Head(q).id]))>>

\* sendFile returns after sending msgs, and the loop goes on with q.
FinishFile(q, msgs) ==
    /\ srv' = Serve(q)
    /\ toClient' = Deliver(toClient, msgs \o Announcement(q))

\* The queue without the request for f.  There is at most one: a new request
\* replaces the one before it.
Without(q, f) ==
    LET at == {i \in DOMAIN q : q[i].id = f}
    IN  IF at = {} THEN q ELSE RemoveAt(q, CHOOSE i \in at : TRUE)

-----------------------------------------------------------------------------
(* Message handlers. *)

\* Requests replace the transfer under way and jump the queue.
OnGet(m) ==
    LET q == <<[id |-> m.id, offset |-> m.offset]>> \o Without(srv.queue, m.id)
    IN  IF srv.phase \in {"idle", "send"}
        THEN FinishFile(q, <<>>)
        ELSE /\ srv' = [srv EXCEPT !.queue = q, !.cancelled = TRUE]
             /\ UNCHANGED toClient

OnAck(m) ==
    /\ srv' = IF srv.active = m.id /\ m.received > srv.acked
              THEN [srv EXCEPT !.acked = m.received]
              ELSE srv
    /\ UNCHANGED toClient

\* A transfer that waits for capacity is woken at once and gives up; one that
\* waits for its block or its hash gives up when that arrives.
OnCancel(m) ==
    LET q == Without(srv.queue, m.id)
    IN  IF srv.active = m.id /\ srv.phase = "send"
        THEN FinishFile(q, <<>>)
        ELSE /\ srv' = [srv EXCEPT !.queue = q,
                                   !.cancelled = @ \/ srv.active = m.id]
             /\ UNCHANGED toClient

OnServerMessage ==
    /\ sOpen /\ toServer # <<>> /\ Settled
    /\ toServer' = Tail(toServer)
    /\ LET m == Head(toServer)
       IN  \/ m.t = "get" /\ OnGet(m)
           \/ m.t = "ack" /\ OnAck(m)
           \/ m.t = "cancel" /\ OnCancel(m)
           \/ m.t = "done" /\ UNCHANGED <<srv, toClient>>
    /\ UNCHANGED <<sOpen, cOpen>>

-----------------------------------------------------------------------------
(* The sending loop. *)

\* The awaited block arrives from disk.
BlockRead ==
    /\ sOpen /\ srv.phase = "read"
    /\ IF srv.cancelled
       THEN FinishFile(srv.queue, <<>>)
       ELSE /\ srv' = [srv EXCEPT !.phase = "send",
                          !.blockEnd = Least(Size[srv.active], @ + READ_BLOCK)]
            /\ UNCHANGED toClient
    /\ UNCHANGED <<sOpen, cOpen, toServer>>

SendChunk ==
    /\ srv.phase = "send" /\ HasCapacity
    /\ LET len == Least(CHUNK, srv.blockEnd - srv.sent)
           end == srv.sent + len
       IN  /\ toClient' = Deliver(toClient, <<Chunk(srv.active, srv.sent, len)>>)
           /\ srv' = [srv EXCEPT !.sent = end,
                         !.phase = IF end < srv.blockEnd THEN "send"
                                   ELSE IF end < Size[srv.active] THEN "read"
                                   ELSE "hash"]
    /\ UNCHANGED <<sOpen, cOpen, toServer>>

\* The hash worker answers, or fails and leaves the digest empty.
HashReady(sha) ==
    /\ sOpen /\ srv.phase = "hash"
    /\ FinishFile(srv.queue, IF srv.cancelled THEN <<>>
                             ELSE <<End(srv.active, sha)>>)
    /\ UNCHANGED <<sOpen, cOpen, toServer>>

\* Reading the shared file throws.
ReadFails ==
    /\ sOpen /\ srv.phase = "read"
    /\ FinishFile(srv.queue, IF srv.cancelled THEN <<>>
                             ELSE <<ErrorMsg(srv.active)>>)
    /\ UNCHANGED <<sOpen, cOpen, toServer>>

\* The sender's end of the channel closes: close() stops the loop for good.
ServerClose ==
    /\ sOpen /\ sOpen' = FALSE
    /\ srv' = IdleServer
    /\ toServer' = <<>>
    /\ UNCHANGED <<cOpen, toClient>>
=============================================================================
