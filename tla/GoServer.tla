------------------------------ MODULE GoServer ------------------------------
(***************************************************************************)
(* The sending side of one data channel in the command-line program        *)
(* (cli/internal/transfer/server.go).                                      *)
(*                                                                         *)
(* It keeps the protocol of ItemServer, but its interleavings are those of *)
(* goroutines: the one that runs run() and sendFile() (loop), the one that *)
(* reads the channel and runs HandleMessage, and those of pion's callbacks *)
(* (calls).  A step is one critical section of s.mu, one call on the       *)
(* channel, or one operation on s.wake; between two steps of a goroutine   *)
(* the others may do anything.                                             *)
(***************************************************************************)
EXTENDS TransferProtocol, SequencesExt

CONSTANT
    LOW_WATER    \* the channel reports when it buffers no more than this

ASSUME LowWaterAssumption == LOW_WATER \in Nat /\ LOW_WATER < HIGH_WATER

VARIABLES
    srv,       \* Server, the fields that s.mu guards, and s.wake
    loop,      \* the goroutine of run(): where it is, and its local variables
    calls,     \* what the other goroutines are about to call
    buffered   \* BufferedAmount: bytes sent and not yet taken by the receiver

goServerVars == <<srv, loop, calls, buffered>>

NewServer ==
    [queue |-> <<>>, active |-> NoFile, cancelled |-> FALSE,
     running |-> FALSE, closed |-> FALSE, sent |-> 0, acked |-> 0,
     wake |-> FALSE]

NoLoop == [pc |-> "none", id |-> NoFile, at |-> 0, end |-> 0, full |-> FALSE]

LoopSteps ==
    {"none", "pop", "open", "block", "check", "decide", "put",
     "count", "wait", "last", "end", "failing", "error", "return"}

\* A Poke that ends a message handler or Close, or is pion's callback; a
\* go run() that follows such a Poke; and the Close that the callback of a
\* closed channel, or the end of its link, is about to call.
Calls == {"message Poke", "close Poke", "low Poke", "run", "Close"}

ServerTypeOK ==
    srv \in [queue : Seq([id : Files, offset : Nat]),
             active : Files \cup {NoFile},
             cancelled : BOOLEAN, running : BOOLEAN, closed : BOOLEAN,
             sent : Nat, acked : Nat, wake : BOOLEAN]

LoopTypeOK ==
    /\ loop \in [pc : LoopSteps, id : Files \cup {NoFile},
                 at : Nat, end : Nat, full : BOOLEAN]
    /\ loop.at <= loop.end

GoServerTypeOK ==
    /\ ServerTypeOK
    /\ LoopTypeOK
    /\ calls \subseteq Calls
    /\ buffered \in Int

-----------------------------------------------------------------------------

\* The receiver takes message m off the channel; pion calls back once what is
\* buffered falls to LOW_WATER.
Drain(m) ==
    LET rest == buffered - (IF m.t = "chunk" THEN m.len ELSE 0)
    IN  /\ buffered' = rest
        /\ calls' = IF sOpen /\ buffered > LOW_WATER /\ rest <= LOW_WATER
                    THEN calls \cup {"low Poke"}
                    ELSE calls

Stopped == srv.cancelled \/ srv.closed \/ ~sOpen

\* The queue without the request for f.  There is at most one.
Without(q, f) ==
    LET at == {i \in DOMAIN q : q[i].id = f}
    IN  IF at = {} THEN q ELSE RemoveAt(q, CHOOSE i \in at : TRUE)

-----------------------------------------------------------------------------
(* The goroutine of the channel: HandleMessage. *)

\* Mutant: the loop is taken to be running while a transfer is active.
OnGetUnlessActive(m) ==
    LET start == srv.active = NoFile /\ ~srv.closed
    IN  /\ srv' = [srv EXCEPT
                      !.cancelled = @ \/ srv.active # NoFile,
                      !.queue = <<[id |-> m.id, offset |-> m.offset]>>
                                    \o Without(@, m.id),
                      !.running = @ \/ start]
        /\ calls' = calls \cup {"message Poke"}
                          \cup (IF start THEN {"run"} ELSE {})

\* Its critical section; the Poke and the go run() follow.
OnGet(m) ==
    LET start == ~srv.running /\ ~srv.closed
    IN  /\ srv' = [srv EXCEPT
                      !.cancelled = @ \/ srv.active # NoFile,
                      !.queue = <<[id |-> m.id, offset |-> m.offset]>>
                                    \o Without(@, m.id),
                      !.running = @ \/ start]
        /\ calls' = calls \cup {"message Poke"}
                          \cup (IF start THEN {"run"} ELSE {})

\* Acknowledged bytes may be those of a chunk that is not yet counted as sent.
OnAck(m) ==
    IF srv.active = m.id /\ m.received > srv.acked
    THEN /\ srv' = [srv EXCEPT !.acked = m.received]
         /\ calls' = calls \cup {"message Poke"}
    ELSE UNCHANGED <<srv, calls>>

OnCancel(m) ==
    /\ srv' = [srv EXCEPT !.cancelled = @ \/ srv.active = m.id,
                          !.queue = Without(@, m.id)]
    /\ calls' = calls \cup {"message Poke"}

OnServerMessage ==
    /\ sOpen /\ toServer # <<>>
    /\ calls \cap {"message Poke", "run"} = {}
    /\ toServer' = Tail(toServer)
    /\ LET m == Head(toServer)
       IN  \/ m.t = "get" /\ OnGet(m)
           \/ m.t = "ack" /\ OnAck(m)
           \/ m.t = "cancel" /\ OnCancel(m)
           \/ m.t = "done" /\ UNCHANGED <<srv, calls>>
    /\ UNCHANGED <<loop, buffered, sOpen, cOpen, toClient>>

GoRun ==
    /\ "run" \in calls /\ "message Poke" \notin calls
    /\ calls' = calls \ {"run"}
    /\ loop' = [NoLoop EXCEPT !.pc = "pop"]
    /\ UNCHANGED <<srv, buffered, channelVars>>

-----------------------------------------------------------------------------
(* Poke, and the callbacks of pion. *)

\* Mutant: a channel without a buffer wakes only a loop that waits already.
PokeUnbuffered == srv' = [srv EXCEPT !.wake = loop.pc = "wait"]

\* The token stays in s.wake until the loop takes it.
Poke == srv' = [srv EXCEPT !.wake = TRUE]

PokeBy(c) ==
    /\ c \in calls \cap {"message Poke", "close Poke", "low Poke"}
    /\ calls' = calls \ {c}
    /\ Poke
    /\ UNCHANGED <<loop, buffered, channelVars>>

\* Mutant: closing leaves it to the channel's event to wake the loop.
CloseQuietly ==
    /\ "Close" \in calls
    /\ srv' = [srv EXCEPT !.closed = TRUE,
                          !.cancelled = @ \/ srv.active # NoFile]
    /\ calls' = calls \ {"Close"}
    /\ UNCHANGED <<loop, buffered, channelVars>>

Close ==
    /\ "Close" \in calls
    /\ srv' = [srv EXCEPT !.closed = TRUE,
                          !.cancelled = @ \/ srv.active # NoFile]
    /\ calls' = (calls \ {"Close"}) \cup {"close Poke"}
    /\ UNCHANGED <<loop, buffered, channelVars>>

\* The sender's end of the channel closes; its callback is due.
ServerEndCloses ==
    /\ sOpen /\ sOpen' = FALSE
    /\ toServer' = <<>>
    /\ calls' = calls \cup {"Close"}
    /\ UNCHANGED <<srv, loop, buffered, cOpen, toClient>>

\* shutdown(): the link is given up or replaced, and closes its server before
\* its channel; the callback of the channel will close the server once more.
Shutdown ==
    /\ sOpen /\ ~srv.closed /\ "Close" \notin calls
    /\ calls' = calls \cup {"Close"}
    /\ UNCHANGED <<srv, loop, buffered, channelVars>>

-----------------------------------------------------------------------------
(* The goroutine of run() and sendFile(). *)

Goto(pc) == loop' = [loop EXCEPT !.pc = pc]

\* Where sending goes on once offset at is reached.
AfterBlock(at) == IF at = Size[loop.id] THEN "last" ELSE "block"

\* The head of the loop in run(), and the start of sendFile: no handler tells
\* the two critical sections apart, since the second resets what an
\* acknowledgement between them would have set.
Pop ==
    /\ loop.pc = "pop"
    /\ IF srv.closed \/ srv.queue = <<>>
       THEN /\ srv' = [srv EXCEPT !.running = FALSE]
            /\ loop' = NoLoop
       ELSE LET r  == Head(srv.queue)
                at == Least(r.offset, Size[r.id])
            IN  /\ srv' = [srv EXCEPT !.queue = Tail(@), !.active = r.id,
                               !.cancelled = FALSE, !.sent = at, !.acked = at]
                /\ loop' = [NoLoop EXCEPT !.pc = "open", !.id = r.id, !.at = at,
                                          !.end = at]
    /\ UNCHANGED <<calls, buffered, channelVars>>

\* The file is open, hashed up to the offset and positioned there.
SendStart ==
    /\ loop.pc = "open"
    /\ toClient' = Deliver(toClient, <<Start(loop.id, loop.at)>>)
    /\ Goto(IF sOpen THEN AfterBlock(loop.at) ELSE "return")
    /\ UNCHANGED <<srv, calls, buffered, sOpen, cOpen, toServer>>

\* The goroutine that reads ahead has the next block.
NextBlock ==
    /\ loop.pc = "block"
    /\ loop' = [loop EXCEPT !.pc = "check",
                            !.end = Least(Size[loop.id], @ + READ_BLOCK)]
    /\ UNCHANGED <<srv, calls, buffered, channelVars>>

\* The critical section of capacity().
Check ==
    /\ loop.pc = "check"
    /\ loop' = IF srv.cancelled \/ srv.closed
               THEN [loop EXCEPT !.pc = "return"]
               ELSE [loop EXCEPT !.pc = "decide",
                         !.full = srv.sent - srv.acked > WINDOW]
    /\ UNCHANGED <<srv, calls, buffered, channelVars>>

\* The channel is looked at after s.mu is released.
Decide ==
    /\ loop.pc = "decide"
    /\ Goto(IF ~sOpen THEN "return"
            ELSE IF buffered <= HIGH_WATER /\ ~loop.full THEN "put"
            ELSE "wait")
    /\ UNCHANGED <<srv, calls, buffered, channelVars>>

Woken ==
    /\ loop.pc = "wait" /\ srv.wake
    /\ srv' = [srv EXCEPT !.wake = FALSE]
    /\ Goto("check")
    /\ UNCHANGED <<calls, buffered, channelVars>>

\* The safety net of 250 ms.
TimerFires ==
    /\ loop.pc = "wait"
    /\ Goto("check")
    /\ UNCHANGED <<srv, calls, buffered, channelVars>>

\* Mutant: the last chunk of a block is not cut short.
WholeChunk == CHUNK

ChunkLen == Least(CHUNK, loop.end - loop.at)

SendChunk ==
    /\ loop.pc = "put"
    /\ toClient' = Deliver(toClient, <<Chunk(loop.id, loop.at, ChunkLen)>>)
    /\ buffered' = IF sOpen THEN buffered + ChunkLen ELSE buffered
    /\ Goto(IF sOpen THEN "count" ELSE "return")
    /\ UNCHANGED <<srv, calls, sOpen, cOpen, toServer>>

CountChunk ==
    /\ loop.pc = "count"
    /\ srv' = [srv EXCEPT !.sent = @ + ChunkLen]
    /\ loop' = [loop EXCEPT !.at = @ + ChunkLen,
                            !.pc = IF loop.at + ChunkLen = loop.end
                                   THEN AfterBlock(loop.end) ELSE "check"]
    /\ UNCHANGED <<calls, buffered, channelVars>>

\* stopped(), before the end or an error is sent; a request that arrives
\* between the two steps comes too late to hold it back.
LastLook ==
    /\ \/ loop.pc = "last" /\ Goto(IF Stopped THEN "return" ELSE "end")
       \/ loop.pc = "failing" /\ Goto(IF Stopped THEN "return" ELSE "error")
    /\ UNCHANGED <<srv, calls, buffered, channelVars>>

SendLast ==
    /\ loop.pc \in {"end", "error"}
    /\ toClient' = Deliver(toClient,
                       IF loop.pc = "end" THEN <<End(loop.id, TRUE)>>
                       ELSE <<ErrorMsg(loop.id)>>)
    /\ Goto("return")
    /\ UNCHANGED <<srv, calls, buffered, sOpen, cOpen, toServer>>

Return ==
    /\ loop.pc = "return"
    /\ srv' = [srv EXCEPT !.active = NoFile, !.cancelled = FALSE]
    /\ loop' = [NoLoop EXCEPT !.pc = "pop"]
    /\ UNCHANGED <<calls, buffered, channelVars>>

\* The file cannot be opened or positioned, or changed its size while shared.
ReadFails ==
    /\ loop.pc \in {"open", "block"}
    /\ Goto("failing")
    /\ UNCHANGED <<srv, calls, buffered, channelVars>>

LoopStep ==
    \/ Pop \/ SendStart \/ NextBlock \/ Check \/ Decide \/ Woken
    \/ SendChunk \/ CountChunk \/ LastLook \/ SendLast \/ Return

-----------------------------------------------------------------------------
(* What the server's own locking is for. *)

\* A request is never left behind by a loop that is about to stop, and a
\* second loop is never started beside the first (server.go:127-143, 171-177).
OneRunner ==
    /\ (srv.queue # <<>> /\ ~srv.closed) => srv.running
    /\ srv.running => (loop.pc # "none" \/ "run" \in calls)
    /\ "run" \in calls => (srv.running /\ loop.pc = "none")

\* A loop that sleeps with no token and no Poke on its way has nothing to do:
\* the safety net of 250 ms never does what an event should have done
\* (server.go:336-354).
NeverOversleeps ==
    (loop.pc = "wait" /\ ~srv.wake /\ calls = {}) =>
        /\ ~Stopped
        /\ buffered > LOW_WATER \/ srv.sent - srv.acked > WINDOW
=============================================================================
