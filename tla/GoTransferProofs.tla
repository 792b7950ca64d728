-------------------------- MODULE GoTransferProofs --------------------------
(***************************************************************************)
(* What holds of GoTransfer for every share, every size, chunk, block and  *)
(* window, and every number of channels and failures.                      *)
(***************************************************************************)
EXTENDS GoTransfer, SequenceTheorems, TLAPS

USE ProtocolAssumption, LowWaterAssumption, SharedAssumption,
    GoEnvironmentAssumption

-----------------------------------------------------------------------------
(* The inductive invariant. *)

\* What a Go server sends: it always has a hash.
GoMsg ==
    [t : {"hello"}]
        \cup [t : {"start"}, id : Files, offset : Nat]
        \cup Chunks
        \cup [t : {"end"}, id : Files, sha256 : {TRUE}]
        \cup [t : {"error"}, id : Files]

ChannelInv ==
    /\ sOpen \in BOOLEAN
    /\ cOpen \in BOOLEAN
    /\ toClient \in Seq(GoMsg)
    /\ toServer \in Seq(ReceiverMsg)

\* The loop has a file, and stays within it.
LoopOK ==
    loop.pc \notin {"none", "pop"} =>
        /\ loop.id \in Files
        /\ loop.end <= Size[loop.id]

RunnerOK ==
    /\ OneRunner
    /\ loop.pc # "none" => srv.running

\* Something will wake the loop.
Poked ==
    srv.wake \/ calls \cap {"message Poke", "close Poke", "low Poke"} # {}

\* From the look at the state on, whatever ends a reason to sleep leaves a
\* token, or a Poke that will.
WakeOK ==
    /\ srv.running /\ ~sOpen => "Close" \in calls \/ srv.closed
    /\ loop.pc \in {"decide", "wait"} /\ (srv.cancelled \/ srv.closed) => Poked
    /\ loop.pc = "decide" /\ loop.full =>
           Poked \/ srv.sent - srv.acked > WINDOW
    /\ loop.pc = "wait" =>
           \/ Poked
           \/ "Close" \in calls
           \/ buffered > LOW_WATER
           \/ srv.sent - srv.acked > WINDOW

ServerInv == GoServerTypeOK /\ LoopOK /\ RunnerOK /\ WakeOK

\* The hash of the active download is that of the bytes in its ".part" file.
LineOK ==
    /\ states \in [Files -> {"idle", "queued", "receiving"} \cup Finished]
    /\ queue \in Seq(Files)
    /\ active \in [id : Files \cup {NoFile}, accepting : BOOLEAN,
                   received : Nat, lastAck : Nat,
                   hashed : Seq(Byte), bytes : Seq(Byte)]
    /\ active.hashed = active.bytes
    /\ active.id = NoFile => ~active.accepting
    /\ part \subseteq Files
    /\ NoPartLeft

SavedOK ==
    /\ saved \subseteq [id : Files, bytes : Seq(Byte)]
    /\ SavedIsIntact

CallOK ==
    /\ items \in BOOLEAN
    /\ wanted \in Seq(Files)
    /\ caller \in 0 .. channel

RestOK ==
    /\ channel \in Nat
    /\ ended \in BOOLEAN
    /\ cancelling \in Seq(Files)

OldOK ==
    /\ old \in Seq(Seq(GoMsg))
    /\ Len(old) <= channel

ClientInv == LineOK /\ SavedOK /\ CallOK /\ RestOK /\ OldOK

IInv == ChannelInv /\ ServerInv /\ ClientInv /\ faults \in 0 .. MaxFaults

-----------------------------------------------------------------------------
(* Data. *)

LEMMA Singleton ==
    ASSUME NEW S, NEW e \in S
    PROVE  <<e>> \in Seq(S)
OBVIOUS

LEMMA DeliverType ==
    ASSUME NEW S, NEW box \in Seq(S), NEW msgs \in Seq(S)
    PROVE  Deliver(box, msgs) \in Seq(S)
BY ConcatProperties DEF Deliver

LEMMA RemoveAtType ==
    ASSUME NEW S, NEW s \in Seq(S), NEW i \in DOMAIN s
    PROVE  RemoveAt(s, i) \in Seq(S)
<1>1. i \in 1 .. Len(s) /\ Len(s) \in Nat
  OBVIOUS
<1>2. /\ SubSeq(s, 1, i - 1) \in Seq(S)
      /\ SubSeq(s, i + 1, Len(s)) \in Seq(S)
  BY <1>1, SubSeqProperties, ElementOfSeq
<1>3. QED
  BY <1>2, ConcatProperties DEF RemoveAt

LEMMA BytesType ==
    ASSUME NEW f \in Files, NEW i \in Nat, NEW n \in Nat
    PROVE  Bytes(f, i, i + n) \in Seq(Byte)
<1>1. Bytes(f, i, i + n) \in [1 .. n -> Byte]
  BY DEF Bytes, Byte
<1>2. QED
  BY <1>1

LEMMA GoMsgIsSenderMsg == GoMsg \subseteq SenderMsg
BY DEF GoMsg, SenderMsg, Sha256

-----------------------------------------------------------------------------
(* The server. *)

Request == [id : Files, offset : Nat]

LEMMA WithoutType ==
    ASSUME NEW q \in Seq(Request), NEW f \in Files
    PROVE  Without(q, f) \in Seq(Request)
<1> DEFINE at == {i \in DOMAIN q : q[i].id = f}
<1>1. CASE at = {}
  BY <1>1 DEF Without
<1>2. CASE at # {}
  <2>1. (CHOOSE i \in at : TRUE) \in DOMAIN q
    BY <1>2
  <2>2. QED
    BY <1>2, <2>1, RemoveAtType DEF Without
<1>3. QED
  BY <1>1, <1>2

LEMMA OnGetInv ==
    ASSUME IInv, NEW m \in [t : {"get"}, id : Files, offset : Nat],
           OnGet(m), sOpen, sOpen' = sOpen, UNCHANGED <<loop, buffered>>,
           "run" \notin calls
    PROVE  ServerInv'
<1> USE DEF IInv, ServerInv
<1>1. Without(srv.queue, m.id) \in Seq(Request)
  BY WithoutType DEF GoServerTypeOK, ServerTypeOK, LoopTypeOK, Request
<1>2. [id |-> m.id, offset |-> m.offset] \in Request
  BY DEF Request
<1>3. <<[id |-> m.id, offset |-> m.offset]>> \o Without(srv.queue, m.id)
          \in Seq(Request)
  BY <1>1, <1>2, Singleton, ConcatProperties
<1>4. GoServerTypeOK' /\ LoopOK'
  BY <1>3
  DEF OnGet, GoServerTypeOK, ServerTypeOK, LoopTypeOK, LoopOK, Calls, Request
<1>5. RunnerOK'
  BY DEF OnGet, RunnerOK, OneRunner, GoServerTypeOK, ServerTypeOK, LoopTypeOK
<1>6. WakeOK'
  BY DEF OnGet, WakeOK, Poked, GoServerTypeOK, ServerTypeOK, LoopTypeOK
<1>7. QED
  BY <1>4, <1>5, <1>6

LEMMA OnAckInv ==
    ASSUME IInv, NEW m \in [t : {"ack"}, id : Files, received : Nat],
           OnAck(m), sOpen, sOpen' = sOpen, UNCHANGED <<loop, buffered>>
    PROVE  ServerInv'
<1> USE DEF IInv, ServerInv
<1>1. GoServerTypeOK' /\ LoopOK'
  BY DEF OnAck, GoServerTypeOK, ServerTypeOK, LoopTypeOK, LoopOK, Calls
<1>2. RunnerOK'
  <2>1. /\ srv'.queue = srv.queue /\ srv'.closed = srv.closed
        /\ srv'.running = srv.running
    BY DEF OnAck, GoServerTypeOK, ServerTypeOK
  <2>2. calls' = calls \/ calls' = calls \cup {"message Poke"}
    BY DEF OnAck
  <2>3. QED
    BY <2>1, <2>2 DEF RunnerOK, OneRunner
<1>3. WakeOK'
  BY DEF OnAck, WakeOK, Poked, GoServerTypeOK, ServerTypeOK, LoopTypeOK
<1>4. QED
  BY <1>1, <1>2, <1>3

LEMMA OnCancelInv ==
    ASSUME IInv, NEW m \in [t : {"cancel"}, id : Files],
           OnCancel(m), sOpen, sOpen' = sOpen, UNCHANGED <<loop, buffered>>
    PROVE  ServerInv'
<1> USE DEF IInv, ServerInv
<1>1. Without(srv.queue, m.id) \in Seq(Request)
  BY WithoutType DEF GoServerTypeOK, ServerTypeOK, LoopTypeOK, Request
<1>2. GoServerTypeOK' /\ LoopOK'
  BY <1>1
  DEF OnCancel, GoServerTypeOK, ServerTypeOK, LoopTypeOK, LoopOK, Calls,
      Request
<1>3. srv.queue = <<>> => Without(srv.queue, m.id) = <<>>
  BY DEF Without
<1>4. RunnerOK'
  BY <1>3
  DEF OnCancel, RunnerOK, OneRunner, GoServerTypeOK, ServerTypeOK, LoopTypeOK
<1>5. WakeOK'
  BY DEF OnCancel, WakeOK, Poked, GoServerTypeOK, ServerTypeOK, LoopTypeOK
<1>6. QED
  BY <1>2, <1>4, <1>5

LEMMA OnServerMessageInv ==
    ASSUME IInv, OnServerMessage
    PROVE  ChannelInv' /\ ServerInv'
<1> USE DEF OnServerMessage
<1>1. Head(toServer) \in ReceiverMsg /\ Tail(toServer) \in Seq(ReceiverMsg)
  BY HeadTailProperties DEF IInv, ChannelInv
<1>2. ChannelInv'
  BY <1>1 DEF IInv, ChannelInv
<1>3. CASE Head(toServer).t = "get" /\ OnGet(Head(toServer))
  BY <1>1, <1>2, <1>3, OnGetInv DEF ReceiverMsg
<1>4. CASE Head(toServer).t = "ack" /\ OnAck(Head(toServer))
  BY <1>1, <1>2, <1>4, OnAckInv DEF ReceiverMsg
<1>5. CASE Head(toServer).t = "cancel" /\ OnCancel(Head(toServer))
  BY <1>1, <1>2, <1>5, OnCancelInv DEF ReceiverMsg
<1>6. CASE UNCHANGED <<srv, calls>>
  BY <1>2, <1>6
  DEF IInv, ServerInv, GoServerTypeOK, ServerTypeOK, LoopTypeOK, LoopOK,
      RunnerOK, OneRunner, WakeOK,
      Poked
<1>7. QED
  BY <1>2, <1>3, <1>4, <1>5, <1>6

LEMMA CallInv ==
    ASSUME IInv, Call
    PROVE  ChannelInv' /\ ServerInv'
<1> USE DEF IInv, ServerInv
<1>1. ChannelInv'
  BY DEF Call, GoRun, Close, PokeBy, channelVars, ChannelInv
<1>2. CASE GoRun
  <2>0. loop' = [pc |-> "pop", id |-> NoFile, at |-> 0, end |-> 0,
                 full |-> FALSE]
    BY <1>2 DEF GoRun, NoLoop
  <2>1. GoServerTypeOK' /\ LoopOK'
    <3>1. LoopTypeOK'
      BY <2>0 DEF LoopTypeOK, LoopSteps
    <3>2. QED
      BY <1>2, <2>0, <3>1
      DEF GoRun, GoServerTypeOK, ServerTypeOK, LoopOK
  <2>2. RunnerOK' /\ WakeOK'
    BY <1>2
    DEF GoRun, GoServerTypeOK, ServerTypeOK, LoopTypeOK, RunnerOK, OneRunner,
        WakeOK, Poked, NoLoop,
        channelVars
  <2>3. QED
    BY <1>1, <2>1, <2>2
<1>3. CASE Close
  <2>1. GoServerTypeOK' /\ LoopOK'
    BY <1>3
    DEF Close, GoServerTypeOK, ServerTypeOK, LoopTypeOK, LoopOK, Calls,
        channelVars
  <2>2. RunnerOK' /\ WakeOK'
    BY <1>3
    DEF Close, GoServerTypeOK, ServerTypeOK, LoopTypeOK, RunnerOK, OneRunner,
        WakeOK, Poked, channelVars
  <2>3. QED
    BY <1>1, <2>1, <2>2
<1>4. ASSUME NEW c \in Calls, PokeBy(c)
      PROVE  ServerInv'
  <2>1. GoServerTypeOK' /\ LoopOK'
    BY <1>4
    DEF PokeBy, Poke, GoServerTypeOK, ServerTypeOK, LoopTypeOK, LoopOK,
        channelVars
  <2>2. RunnerOK' /\ WakeOK'
    BY <1>4
    DEF PokeBy, Poke, GoServerTypeOK, ServerTypeOK, LoopTypeOK, RunnerOK,
        OneRunner, WakeOK, Poked,
        channelVars
  <2>3. QED
    BY <2>1, <2>2
<1>5. QED
  BY <1>1, <1>2, <1>3, <1>4 DEF Call

LEMMA PopInv ==
    ASSUME IInv, Pop
    PROVE  ServerInv'
<1> USE DEF IInv, ServerInv
<1>1. CASE srv.closed \/ srv.queue = <<>>
  <2>1. loop' = [pc |-> "none", id |-> NoFile, at |-> 0, end |-> 0,
                 full |-> FALSE]
    BY <1>1 DEF Pop, NoLoop
  <2>2. GoServerTypeOK' /\ LoopOK'
    <3>1. LoopTypeOK'
      BY <2>1 DEF LoopTypeOK, LoopSteps
    <3>2. ServerTypeOK'
      BY <1>1 DEF Pop, GoServerTypeOK, ServerTypeOK
    <3>3. QED
      BY <1>1, <2>1, <3>1, <3>2 DEF Pop, GoServerTypeOK, LoopOK
  <2>3. RunnerOK' /\ WakeOK'
    BY <1>1, <2>1
    DEF Pop, GoServerTypeOK, ServerTypeOK, LoopTypeOK, RunnerOK, OneRunner,
        WakeOK, Poked, channelVars
  <2>4. QED
    BY <2>2, <2>3
<1>2. CASE ~(srv.closed \/ srv.queue = <<>>)
  <2> DEFINE r == Head(srv.queue)
             at == Least(r.offset, Size[r.id])
  <2>1. r \in Request /\ Tail(srv.queue) \in Seq(Request)
    BY <1>2, HeadTailProperties
    DEF GoServerTypeOK, ServerTypeOK, LoopTypeOK, Request
  <2>2. r.id \in Files /\ at \in Nat /\ at <= Size[r.id]
    BY <2>1 DEF Request, Least
  <2>3. /\ loop' = [pc |-> "open", id |-> r.id, at |-> at, end |-> at,
                    full |-> FALSE]
        /\ srv' = [srv EXCEPT !.queue = Tail(@), !.active = r.id,
                       !.cancelled = FALSE, !.sent = at, !.acked = at]
        /\ UNCHANGED <<calls, buffered, channelVars>>
    BY <1>2 DEF Pop, NoLoop
  <2> HIDE DEF at, r
  <2>4. GoServerTypeOK' /\ LoopOK'
    <3>1. LoopTypeOK'
      BY <2>2, <2>3 DEF LoopTypeOK, LoopSteps
    <3>2. ServerTypeOK'
      BY <2>1, <2>2, <2>3 DEF GoServerTypeOK, ServerTypeOK, Request
    <3>3. QED
      BY <2>2, <2>3, <3>1, <3>2 DEF GoServerTypeOK, LoopOK
  <2>5. RunnerOK' /\ WakeOK'
    BY <2>3, Pop
    DEF Pop, GoServerTypeOK, ServerTypeOK, LoopTypeOK, RunnerOK, OneRunner,
        WakeOK, Poked, channelVars
  <2>6. QED
    BY <2>4, <2>5
<1>3. QED
  BY <1>1, <1>2

\* Steps that only move the loop: srv and calls stay as they are.
LEMMA GotoInv ==
    ASSUME IInv, NEW pc \in LoopSteps \ {"none", "decide", "wait"}, Goto(pc),
           loop.pc \notin {"none", "pop"},
           UNCHANGED <<srv, calls, sOpen>>, buffered' \in Int
    PROVE  ServerInv'
<1> USE DEF IInv, ServerInv, Goto
<1>1. GoServerTypeOK' /\ LoopOK'
  BY DEF GoServerTypeOK, ServerTypeOK, LoopTypeOK, LoopOK
<1>2. RunnerOK' /\ WakeOK'
  BY DEF GoServerTypeOK, ServerTypeOK, LoopTypeOK, RunnerOK, OneRunner,
         WakeOK, Poked
<1>3. QED
  BY <1>1, <1>2

LEMMA SendStartInv ==
    ASSUME IInv, SendStart
    PROVE  ChannelInv' /\ ServerInv'
<1>1. loop.id \in Files /\ loop.at \in Nat
  BY DEF SendStart, IInv, ServerInv, LoopOK, GoServerTypeOK, ServerTypeOK,
         LoopTypeOK
<1>2. Start(loop.id, loop.at) \in GoMsg
  BY <1>1 DEF Start, GoMsg
<1>3. ChannelInv'
  BY <1>2, Singleton, DeliverType DEF SendStart, IInv, ChannelInv
<1>4. PICK pc \in {"last", "block", "return"} : Goto(pc)
  BY DEF SendStart, AfterBlock
<1>5. ServerInv'
  BY <1>4, GotoInv
  DEF SendStart, LoopSteps, IInv, ServerInv, GoServerTypeOK, ServerTypeOK,
      LoopTypeOK
<1>6. QED
  BY <1>3, <1>5

LEMMA NextBlockInv ==
    ASSUME IInv, NextBlock
    PROVE  ServerInv'
<1> USE DEF IInv, ServerInv, NextBlock
<1>1. loop.id \in Files /\ Size[loop.id] \in Nat /\ loop.end <= Size[loop.id]
  BY DEF LoopOK
<1> DEFINE end == Least(Size[loop.id], loop.end + READ_BLOCK)
<1>2. end \in Nat /\ loop.end <= end /\ end <= Size[loop.id]
  BY <1>1 DEF Least, GoServerTypeOK, LoopTypeOK
<1>3. GoServerTypeOK' /\ LoopOK'
  <2>1. loop' = [loop EXCEPT !.pc = "check", !.end = end]
    BY DEF GoServerTypeOK, LoopTypeOK
  <2> HIDE DEF end
  <2>2. QED
    <3>1. LoopTypeOK'
      <4>1. loop.at <= end
        BY <1>2 DEF GoServerTypeOK, LoopTypeOK
      <4> HIDE DEF NextBlock
      <4>2. QED
        BY <1>2, <2>1, <4>1 DEF GoServerTypeOK, LoopTypeOK, LoopSteps
    <3>2. LoopOK'
      BY <1>1, <1>2, <2>1 DEF GoServerTypeOK, LoopTypeOK, LoopOK
    <3>3. QED
      BY <3>1, <3>2 DEF GoServerTypeOK, ServerTypeOK
<1>4. RunnerOK' /\ WakeOK'
  BY DEF GoServerTypeOK, ServerTypeOK, LoopTypeOK, RunnerOK, OneRunner,
         WakeOK, Poked, channelVars
<1>5. QED
  BY <1>3, <1>4

LEMMA CheckInv ==
    ASSUME IInv, Check
    PROVE  ServerInv'
<1> USE DEF IInv, ServerInv, Check
<1>1. GoServerTypeOK' /\ LoopOK'
  <2>1. PICK pc \in LoopSteps \ {"none", "pop"}, full \in BOOLEAN :
            loop' = [loop EXCEPT !.pc = pc, !.full = full]
    <3> DEFINE over == srv.sent - srv.acked > WINDOW
    <3>1. over \in BOOLEAN /\ loop.full \in BOOLEAN
      BY DEF GoServerTypeOK, LoopTypeOK
    <3>2. \/ loop' = [loop EXCEPT !.pc = "decide", !.full = over]
          \/ loop' = [loop EXCEPT !.pc = "return", !.full = loop.full]
      BY DEF GoServerTypeOK, LoopTypeOK
    <3> HIDE DEF over
    <3>3. QED
      BY <3>1, <3>2 DEF LoopSteps
  <2>2. LoopTypeOK'
    BY <2>1 DEF GoServerTypeOK, LoopTypeOK
  <2>3. LoopOK'
    BY <2>1 DEF GoServerTypeOK, LoopTypeOK, LoopOK
  <2>4. QED
    BY <2>2, <2>3 DEF GoServerTypeOK, ServerTypeOK
<1>2. RunnerOK'
  BY DEF GoServerTypeOK, ServerTypeOK, LoopTypeOK, RunnerOK, OneRunner
<1>3. WakeOK'
  BY DEF GoServerTypeOK, ServerTypeOK, LoopTypeOK, WakeOK, Poked, channelVars
<1>4. QED
  BY <1>1, <1>2, <1>3

LEMMA DecideInv ==
    ASSUME IInv, Decide
    PROVE  ServerInv'
<1> USE DEF IInv, ServerInv, Decide
<1>1. CASE ~sOpen \/ (buffered <= HIGH_WATER /\ ~loop.full)
  BY <1>1, GotoInv
  DEF LoopSteps, channelVars, GoServerTypeOK, ServerTypeOK, LoopTypeOK
<1>2. CASE sOpen /\ ~(buffered <= HIGH_WATER /\ ~loop.full)
  <2>1. loop' = [loop EXCEPT !.pc = "wait"]
    BY <1>2 DEF Goto
  <2>2. GoServerTypeOK' /\ LoopOK'
    BY <2>1
    DEF GoServerTypeOK, ServerTypeOK, LoopTypeOK, LoopOK, LoopSteps,
        channelVars
  <2>3. RunnerOK'
    BY <2>1 DEF GoServerTypeOK, ServerTypeOK, LoopTypeOK, RunnerOK, OneRunner
  <2>4. WakeOK'
    <3>1. /\ loop.pc = "decide" /\ loop'.pc = "wait"
          /\ UNCHANGED <<srv, calls, buffered, sOpen>>
      BY <2>1 DEF GoServerTypeOK, ServerTypeOK, LoopTypeOK, channelVars
    <3>2. buffered > LOW_WATER \/ loop.full
      BY <1>2 DEF GoServerTypeOK
    <3>3. QED
      BY <3>1, <3>2 DEF WakeOK, Poked
  <2>5. QED
    BY <2>2, <2>3, <2>4
<1>3. QED
  BY <1>1, <1>2

LEMMA WokenInv ==
    ASSUME IInv, Woken
    PROVE  ServerInv'
<1> USE DEF IInv, ServerInv, Woken, Goto
<1>1. GoServerTypeOK' /\ LoopOK'
  BY DEF GoServerTypeOK, ServerTypeOK, LoopTypeOK, LoopOK, LoopSteps,
         channelVars
<1>2. RunnerOK' /\ WakeOK'
  BY DEF GoServerTypeOK, ServerTypeOK, LoopTypeOK, RunnerOK, OneRunner,
         WakeOK, Poked, channelVars
<1>3. QED
  BY <1>1, <1>2

\* A loop that has something to send has at least a byte left of its block.
LEMMA ChunkLenType ==
    ASSUME IInv
    PROVE  ChunkLen \in Nat /\ loop.at + ChunkLen <= loop.end
BY DEF IInv, ServerInv, GoServerTypeOK, ServerTypeOK, LoopTypeOK, ChunkLen,
       Least

LEMMA SendChunkInv ==
    ASSUME IInv, SendChunk
    PROVE  ChannelInv' /\ ServerInv'
<1>1. loop.id \in Files /\ loop.at \in Nat /\ ChunkLen \in Nat
  BY ChunkLenType
  DEF SendChunk, IInv, ServerInv, LoopOK, GoServerTypeOK, ServerTypeOK,
      LoopTypeOK
<1>2. Chunk(loop.id, loop.at, ChunkLen) \in GoMsg
  BY <1>1 DEF Chunk, Chunks, GoMsg
<1>3. ChannelInv'
  BY <1>2, Singleton, DeliverType DEF SendChunk, IInv, ChannelInv
<1>4. PICK pc \in {"count", "return"} : Goto(pc)
  BY DEF SendChunk
<1>5. buffered' \in Int
  BY <1>1
  DEF SendChunk, IInv, ServerInv, GoServerTypeOK, ServerTypeOK, LoopTypeOK
<1>6. ServerInv'
  BY <1>4, <1>5, GotoInv DEF SendChunk, LoopSteps
<1>7. QED
  BY <1>3, <1>6

LEMMA CountChunkInv ==
    ASSUME IInv, CountChunk
    PROVE  ServerInv'
<1> USE DEF IInv, ServerInv, CountChunk
<1>1. ChunkLen \in Nat /\ loop.at + ChunkLen <= loop.end
  BY ChunkLenType
<1>2. PICK pc \in {"last", "block", "check"} :
          loop' = [loop EXCEPT !.at = @ + ChunkLen, !.pc = pc]
  BY DEF AfterBlock
<1> HIDE DEF CountChunk
<1>3. /\ loop.pc = "count"
      /\ srv' = [srv EXCEPT !.sent = @ + ChunkLen]
      /\ UNCHANGED <<calls, buffered, channelVars>>
  BY DEF CountChunk
<1>4. GoServerTypeOK' /\ LoopOK'
  <2> DEFINE at   == loop.at + ChunkLen
             sent == srv.sent + ChunkLen
  <2>1. at \in Nat /\ at <= loop.end /\ sent \in Nat
    BY <1>1 DEF GoServerTypeOK, ServerTypeOK, LoopTypeOK
  <2>2. /\ loop' = [loop EXCEPT !.at = at, !.pc = pc]
        /\ srv' = [srv EXCEPT !.sent = sent]
    BY <1>2, <1>3 DEF GoServerTypeOK, ServerTypeOK, LoopTypeOK
  <2> HIDE DEF at, sent
  <2>3. ServerTypeOK'
    BY <2>1, <2>2 DEF GoServerTypeOK, ServerTypeOK
  <2>4. QED
    BY <1>3, <2>1, <2>2, <2>3
    DEF GoServerTypeOK, LoopTypeOK, LoopOK, LoopSteps
<1>5. RunnerOK' /\ WakeOK'
  BY <1>2, <1>3
  DEF GoServerTypeOK, ServerTypeOK, LoopTypeOK, RunnerOK, OneRunner, WakeOK,
      Poked, channelVars
<1>6. QED
  BY <1>4, <1>5

LEMMA LastLookInv ==
    ASSUME IInv, LastLook
    PROVE  ServerInv'
<1>1. PICK pc \in {"return", "end", "error"} : Goto(pc)
  BY DEF LastLook
<1>2. QED
  BY <1>1, GotoInv
  DEF LastLook, LoopSteps, channelVars, IInv, ServerInv, GoServerTypeOK,
      ServerTypeOK, LoopTypeOK

LEMMA SendLastInv ==
    ASSUME IInv, SendLast
    PROVE  ChannelInv' /\ ServerInv'
<1>1. loop.id \in Files
  BY DEF SendLast, IInv, ServerInv, LoopOK
<1>2. End(loop.id, TRUE) \in GoMsg /\ ErrorMsg(loop.id) \in GoMsg
  BY <1>1 DEF End, ErrorMsg, GoMsg
<1>3. ChannelInv'
  BY <1>2, Singleton, DeliverType DEF SendLast, IInv, ChannelInv
<1>4. ServerInv'
  BY GotoInv
  DEF SendLast, LoopSteps, IInv, ServerInv, GoServerTypeOK, ServerTypeOK,
      LoopTypeOK
<1>5. QED
  BY <1>3, <1>4

LEMMA ReturnInv ==
    ASSUME IInv, Return
    PROVE  ServerInv'
<1> USE DEF IInv, ServerInv, Return
<1>1. loop' = [pc |-> "pop", id |-> NoFile, at |-> 0, end |-> 0,
               full |-> FALSE]
  BY DEF NoLoop
<1>2. GoServerTypeOK' /\ LoopOK'
  <2>1. LoopTypeOK'
    <3> HIDE DEF Return
    <3>1. QED
      BY <1>1 DEF LoopTypeOK, LoopSteps
  <2>2. QED
    BY <1>1, <2>1 DEF GoServerTypeOK, ServerTypeOK, LoopOK
<1>3. RunnerOK' /\ WakeOK'
  BY <1>1
  DEF GoServerTypeOK, ServerTypeOK, LoopTypeOK, RunnerOK, OneRunner, WakeOK,
      Poked, channelVars
<1>4. QED
  BY <1>2, <1>3

LEMMA LoopStepInv ==
    ASSUME IInv, LoopStep
    PROVE  ChannelInv' /\ ServerInv'
<1>1. CASE UNCHANGED channelVars
  <2>1. ChannelInv'
    BY <1>1 DEF IInv, ChannelInv, channelVars
  <2>2. QED
    BY <2>1, PopInv, SendStartInv, NextBlockInv, CheckInv, DecideInv, WokenInv,
       SendChunkInv, CountChunkInv, LastLookInv, SendLastInv, ReturnInv
    DEF LoopStep
<1>2. CASE SendStart \/ SendChunk \/ SendLast
  BY <1>2, SendStartInv, SendChunkInv, SendLastInv
<1>3. QED
  BY <1>1, <1>2
  DEF LoopStep, Pop, NextBlock, Check, Decide, Woken, CountChunk, LastLook,
      Return

LEMMA TimerInv ==
    ASSUME IInv, TimerFires
    PROVE  ServerInv'
BY GotoInv
DEF TimerFires, LoopSteps, channelVars, IInv, ServerInv, GoServerTypeOK,
    ServerTypeOK, LoopTypeOK

LEMMA ReadFailsInv ==
    ASSUME IInv, ReadFails
    PROVE  ServerInv'
BY GotoInv
DEF ReadFails, LoopSteps, channelVars, IInv, ServerInv, GoServerTypeOK,
    ServerTypeOK, LoopTypeOK

LEMMA DrainInv ==
    ASSUME IInv, NEW m \in GoMsg, Drain(m), UNCHANGED <<srv, loop, sOpen>>
    PROVE  ServerInv'
<1> DEFINE rest == buffered - (IF m.t = "chunk" THEN m.len ELSE 0)
<1> USE DEF IInv, ServerInv
<1>1. m.t = "chunk" => m.len \in Nat
  BY DEF GoMsg, Chunks
<1>2. rest \in Int
  BY <1>1 DEF GoServerTypeOK, ServerTypeOK, LoopTypeOK
<1>3. /\ buffered' = rest
      /\ calls' = IF sOpen /\ buffered > LOW_WATER /\ rest <= LOW_WATER
                  THEN calls \cup {"low Poke"}
                  ELSE calls
  BY DEF Drain
<1> HIDE DEF rest
<1>4. GoServerTypeOK' /\ LoopOK'
  BY <1>2, <1>3 DEF GoServerTypeOK, ServerTypeOK, LoopTypeOK, LoopOK, Calls
<1>5. RunnerOK'
  BY <1>3 DEF RunnerOK, OneRunner
<1>6. WakeOK'
  <2>1. calls \subseteq calls' /\ ("Close" \in calls' => "Close" \in calls)
    BY <1>3
  <2>2. Poked => Poked'
    BY <2>1 DEF Poked
  <2>3. ASSUME loop.pc = "wait", buffered > LOW_WATER, ~(rest > LOW_WATER)
        PROVE  Poked' \/ "Close" \in calls'
    <3>1. CASE sOpen
      <4>1. rest <= LOW_WATER
        BY <1>2, <2>3
      <4>2. "low Poke" \in calls'
        BY <1>3, <2>3, <3>1, <4>1
      <4>3. QED
        BY <4>2 DEF Poked
    <3>2. CASE ~sOpen
      BY <2>1, <2>2, <2>3, <3>2 DEF RunnerOK, WakeOK
    <3>3. QED
      BY <3>1, <3>2 DEF ChannelInv
  <2>4. QED
    BY <1>3, <2>1, <2>2, <2>3 DEF WakeOK
<1>7. QED
  BY <1>4, <1>5, <1>6

LEMMA ServerEndClosesInv ==
    ASSUME IInv, ServerEndCloses
    PROVE  ChannelInv' /\ ServerInv'
<1> USE DEF IInv, ServerInv, ServerEndCloses
<1>1. ChannelInv'
  BY EmptySeq DEF ChannelInv
<1>2. GoServerTypeOK' /\ LoopOK'
  BY DEF GoServerTypeOK, ServerTypeOK, LoopTypeOK, LoopOK, Calls
<1>3. RunnerOK' /\ WakeOK'
  BY DEF RunnerOK, OneRunner, WakeOK, Poked
<1>4. QED
  BY <1>1, <1>2, <1>3

LEMMA ShutdownInv ==
    ASSUME IInv, Shutdown
    PROVE  ChannelInv' /\ ServerInv'
<1> USE DEF IInv, ServerInv, Shutdown
<1>1. ChannelInv'
  BY DEF channelVars, ChannelInv
<1>2. GoServerTypeOK' /\ LoopOK'
  BY DEF channelVars, GoServerTypeOK, ServerTypeOK, LoopTypeOK, LoopOK, Calls
<1>3. RunnerOK' /\ WakeOK'
  BY DEF channelVars, RunnerOK, OneRunner, WakeOK, Poked
<1>4. QED
  BY <1>1, <1>2, <1>3

-----------------------------------------------------------------------------
(* The client. *)

Statuses == {"idle", "queued", "receiving"} \cup Finished

ActiveOK ==
    /\ active \in [id : Files \cup {NoFile}, accepting : BOOLEAN,
                   received : Nat, lastAck : Nat,
                   hashed : Seq(Byte), bytes : Seq(Byte)]
    /\ active.hashed = active.bytes
    /\ active.id = NoFile => ~active.accepting

\* What the handlers of a message keep.
Handled ==
    /\ LineOK
    /\ SavedOK
    /\ toServer \in Seq(ReceiverMsg)

LEMMA ReplyTypes ==
    ASSUME NEW f \in Files, NEW n \in Nat, NEW ok \in BOOLEAN
    PROVE  /\ <<Get(f, n)>> \in Seq(ReceiverMsg)
           /\ <<Ack(f, n)>> \in Seq(ReceiverMsg)
           /\ <<Done(f, ok)>> \in Seq(ReceiverMsg)
           /\ <<CancelMsg(f)>> \in Seq(ReceiverMsg)
           /\ <<>> \in Seq(ReceiverMsg)
<1>1. /\ Get(f, n) \in ReceiverMsg
      /\ Ack(f, n) \in ReceiverMsg
      /\ Done(f, ok) \in ReceiverMsg
      /\ CancelMsg(f) \in ReceiverMsg
  BY DEF Get, Ack, Done, CancelMsg, ReceiverMsg
<1>2. QED
  BY <1>1, Singleton, EmptySeq

LEMMA FreshActive ==
    ASSUME NEW f \in Files \cup {NoFile},
           active' = [id |-> f, accepting |-> FALSE, received |-> 0,
                      lastAck |-> 0, hashed |-> <<>>, bytes |-> <<>>]
    PROVE  ActiveOK' /\ active'.id = f
<1>1. active' \in [id : Files \cup {NoFile}, accepting : BOOLEAN,
                   received : Nat, lastAck : Nat,
                   hashed : Seq(Byte), bytes : Seq(Byte)]
  <2>1. <<>> \in Seq(Byte)
    BY EmptySeq
  <2> DEFINE none == <<>>
  <2> HIDE DEF none
  <2>2. active' = [id |-> f, accepting |-> FALSE, received |-> 0,
                   lastAck |-> 0, hashed |-> none, bytes |-> none]
    BY DEF none
  <2>3. none \in Seq(Byte)
    BY <2>1 DEF none
  <2>4. QED
    BY <2>2, <2>3
<1>2. /\ active'.id = f
      /\ active'.hashed = active'.bytes
      /\ ~active'.accepting
  OBVIOUS
<1>3. QED
  BY <1>1, <1>2 DEF ActiveOK

LEMMA NextLine ==
    ASSUME toServer \in Seq(ReceiverMsg),
           NEW st \in [Files -> Statuses], NEW q \in Seq(Files),
           NEW msgs \in Seq(ReceiverMsg), NEW fails, next(st, {}, q, msgs,
           fails)
    PROVE  LineOK' /\ toServer' \in Seq(ReceiverMsg)
<1> DEFINE rest == SubSeq(q, fails + 1, Len(q))
           now  == [f \in Files |->
                       IF \E i \in 1 .. fails : q[i] = f THEN "error"
                       ELSE st[f]]
<1>1. rest \in Seq(Files)
  <2>1. fails \in 0 .. Len(q) /\ Len(q) \in Nat
    BY LenProperties DEF next
  <2>2. \A i \in fails + 1 .. Len(q) : q[i] \in Files
    BY <2>1, ElementOfSeq
  <2>3. QED
    BY <2>1, <2>2, SubSeqProperties
<1>2. now \in [Files -> Statuses]
  BY DEF Statuses, Finished
<1>3. CASE rest = <<>>
  <2>1. /\ active' = NoDownload
        /\ queue' = <<>>
        /\ states' = now
        /\ part' = {}
        /\ toServer' = Deliver(toServer, msgs)
    BY <1>3 DEF next, send
  <2> HIDE DEF now
  <2>3. ActiveOK'
    BY <2>1, FreshActive DEF NoDownload
  <2>4. toServer' \in Seq(ReceiverMsg)
    BY <2>1, DeliverType
  <2>5. QED
    BY <1>2, <2>1, <2>3, <2>4, EmptySeq
    DEF LineOK, ActiveOK, NoPartLeft, Statuses
<1>4. CASE rest # <<>>
  <2> DEFINE f == Head(rest)
  <2>1. f \in Files /\ Tail(rest) \in Seq(Files)
    BY <1>1, <1>4, HeadTailProperties
  <2>2. /\ active' = [NoDownload EXCEPT !.id = f]
        /\ queue' = Tail(rest)
        /\ states' = [now EXCEPT ![f] = "receiving"]
        /\ part' = {f}
        /\ toServer' = Deliver(toServer, msgs \o <<Get(f, 0)>>)
    BY <1>4 DEF next, send
  <2> HIDE DEF now, f, rest
  <2>3. ActiveOK' /\ active'.id = f
    BY <2>1, <2>2, FreshActive DEF NoDownload
  <2>4. toServer' \in Seq(ReceiverMsg)
    BY <2>1, <2>2, ReplyTypes, ConcatProperties, DeliverType
  <2>5. states' \in [Files -> Statuses]
    BY <1>2, <2>2 DEF Statuses
  <2>6. QED
    BY <2>1, <2>2, <2>3, <2>4, <2>5 DEF LineOK, ActiveOK, NoPartLeft, Statuses
<1>5. QED
  BY <1>3, <1>4

LEMMA NothingLeft ==
    ASSUME LineOK
    PROVE  /\ part \ {active.id} = {}
           /\ active.id = NoFile => part = {}
BY DEF LineOK, NoPartLeft

LEMMA FailLine ==
    ASSUME Handled, active.id \in Files, NEW status \in Finished,
           NEW msgs \in Seq(ReceiverMsg), NEW fails,
           fail(status, msgs, fails)
    PROVE  Handled'
<1> DEFINE st == [states EXCEPT ![active.id] = status]
<1>1. st \in [Files -> Statuses]
  BY DEF Handled, LineOK, Statuses
<1>2. next(st, {}, queue, msgs, fails) /\ saved' = saved
  BY NothingLeft DEF Handled, fail
<1>3. LineOK' /\ toServer' \in Seq(ReceiverMsg)
  <2> HIDE DEF st
  <2>1. QED
    BY <1>1, <1>2, NextLine DEF Handled, LineOK
<1>4. QED
  BY <1>2, <1>3 DEF Handled, SavedOK, SavedIsIntact

LEMMA AskAgainLine ==
    ASSUME Handled, active.id \in Files, AskAgain
    PROVE  Handled'
<1>1. ActiveOK /\ active.received \in Nat
  BY DEF Handled, LineOK, ActiveOK
<1>2. active' = [active EXCEPT !.accepting = FALSE]
  BY DEF AskAgain
<1>3. ActiveOK' /\ active'.id = active.id
  BY <1>1, <1>2 DEF ActiveOK
<1>4. toServer' \in Seq(ReceiverMsg)
  BY <1>1, ReplyTypes, DeliverType DEF Handled, AskAgain, send
<1>5. LineOK'
  BY <1>3 DEF Handled, LineOK, ActiveOK, AskAgain, NoPartLeft
<1>6. QED
  BY <1>4, <1>5 DEF Handled, AskAgain, SavedOK, SavedIsIntact

LEMMA WriteLine ==
    ASSUME Handled, active.id \in Files, NEW m \in Chunks, Write(m)
    PROVE  Handled'
<1> DEFINE received == active.received + m.len
           data     == Bytes(m.id, m.at, m.at + m.len)
           ack      == \/ received - active.lastAck >= ACK_EVERY
                       \/ received = Size[active.id]
           last     == IF ack THEN received ELSE active.lastAck
           hashed   == active.hashed \o data
<1>1. ActiveOK
  BY DEF Handled, LineOK, ActiveOK
<1>2. received \in Nat /\ last \in Nat
  BY <1>1 DEF ActiveOK, Chunks
<1>3. hashed \in Seq(Byte)
  <2>1. data \in Seq(Byte)
    BY BytesType DEF Chunks
  <2>2. QED
    BY <1>1, <2>1, ConcatProperties DEF ActiveOK
<1>4. active' = [active EXCEPT !.received = received, !.lastAck = last,
                     !.hashed = hashed, !.bytes = hashed]
  BY <1>1 DEF Write, ActiveOK
<1>5. toServer' \in Seq(ReceiverMsg)
  BY <1>2, ReplyTypes, DeliverType DEF Handled, Write, send
<1> HIDE DEF received, last, hashed
<1>6. ActiveOK' /\ active'.id = active.id
  BY <1>1, <1>2, <1>3, <1>4 DEF ActiveOK
<1>7. LineOK'
  BY <1>6 DEF Handled, LineOK, ActiveOK, Write, NoPartLeft
<1>8. QED
  BY <1>5, <1>7 DEF Handled, Write, SavedOK, SavedIsIntact

\* A sink whose hash is right is renamed: its bytes are those of the share.
LEMMA FinishLine ==
    ASSUME Handled, NEW m \in [t : {"end"}, id : Files, sha256 : {TRUE}],
           m.id = active.id, NEW closes, NEW fails, finish(m, closes, fails)
    PROVE  Handled'
<1>1. active.id \in Files /\ m.sha256
  OBVIOUS
<1>2. CASE active.received # Size[active.id]
  BY <1>1, <1>2, AskAgainLine DEF finish
<1>3. CASE fail("error", <<Done(active.id, FALSE)>>, fails)
  BY <1>1, <1>3, ReplyTypes, FailLine DEF Finished
<1>4. CASE /\ active.hashed = Whole(active.id)
           /\ saved' = saved \cup {[id |-> active.id, bytes |-> active.bytes]}
           /\ next([states EXCEPT ![active.id] = "done"], part \ {active.id},
                   queue, <<Done(active.id, TRUE)>>, fails)
  <2> DEFINE st == [states EXCEPT ![active.id] = "done"]
  <2>1. st \in [Files -> Statuses]
    BY <1>1 DEF Handled, LineOK, Statuses, Finished
  <2>2. next(st, {}, queue, <<Done(active.id, TRUE)>>, fails)
    BY <1>4, NothingLeft DEF Handled
  <2> HIDE DEF st
  <2>3. LineOK' /\ toServer' \in Seq(ReceiverMsg)
    BY <1>1, <2>1, <2>2, NextLine, ReplyTypes DEF Handled, LineOK
  <2>4. /\ [id |-> active.id, bytes |-> active.bytes]
               \in [id : Files, bytes : Seq(Byte)]
        /\ active.bytes = Whole(active.id)
    BY <1>1, <1>4 DEF Handled, LineOK
  <2>5. SavedOK'
    BY <1>4, <2>4 DEF Handled, SavedOK, SavedIsIntact
  <2>6. QED
    BY <2>3, <2>5 DEF Handled
<1>5. QED
  BY <1>1, <1>2, <1>3, <1>4 DEF finish

LEMMA InvHandled ==
    ASSUME IInv
    PROVE  Handled
BY DEF IInv, ClientInv, ChannelInv, Handled

LEMMA UnchangedLine ==
    ASSUME Handled, UNCHANGED <<states, queue, active, part, saved, toServer>>
    PROVE  Handled'
BY DEF Handled, LineOK, NoPartLeft, SavedOK, SavedIsIntact

LEMMA OnHelloLine ==
    ASSUME Handled, NEW ch, NEW fails, OnHello(ch, fails)
    PROVE  Handled'
<1>1. CASE active.id # NoFile
  <2>1. active.id \in Files
    BY <1>1 DEF Handled, LineOK
  <2>2. QED
    BY <1>1, <2>1, AskAgainLine DEF OnHello
<1>2. CASE active.id = NoFile
  <2>1. next(states, {}, queue, <<>>, fails) /\ saved' = saved
    BY <1>2, NothingLeft DEF OnHello, Handled
  <2>2. LineOK' /\ toServer' \in Seq(ReceiverMsg)
    BY <2>1, NextLine, EmptySeq DEF Handled, LineOK, Statuses
  <2>3. QED
    BY <2>1, <2>2 DEF Handled, SavedOK, SavedIsIntact
<1>3. QED
  BY <1>1, <1>2

LEMMA OnStartLine ==
    ASSUME Handled, NEW m \in [t : {"start"}, id : Files, offset : Nat],
           OnStart(m)
    PROVE  Handled'
<1>1. CASE m.id # active.id
  BY <1>1, UnchangedLine DEF OnStart
<1>2. CASE m.id = active.id /\ m.offset # active.received
  BY <1>2, AskAgainLine DEF OnStart
<1>3. CASE m.id = active.id /\ m.offset = active.received
  <2>1. /\ active' = [active EXCEPT !.accepting = TRUE]
        /\ UNCHANGED <<states, queue, part, saved, toServer>>
    BY <1>3 DEF OnStart
  <2>2. ActiveOK' /\ active'.id = active.id
    BY <1>3, <2>1 DEF Handled, LineOK, ActiveOK
  <2>3. LineOK'
    BY <2>1, <2>2 DEF Handled, LineOK, ActiveOK, NoPartLeft
  <2>4. QED
    BY <2>1, <2>3 DEF Handled, SavedOK, SavedIsIntact
<1>4. QED
  BY <1>1, <1>2, <1>3

LEMMA OnChunkLine ==
    ASSUME Handled, NEW m \in Chunks, NEW writes, NEW fails,
           OnChunk(m, writes, fails)
    PROVE  Handled'
<1>1. CASE ~active.accepting
  BY <1>1, UnchangedLine DEF OnChunk
<1>2. CASE active.accepting
  <2>1. active.id \in Files
    BY <1>2 DEF Handled, LineOK
  <2>2. CASE fail("error", <<>>, fails)
    BY <2>1, <2>2, FailLine, EmptySeq DEF Finished
  <2>3. CASE Write(m)
    BY <2>1, <2>3, WriteLine
  <2>4. CASE fail("error", <<CancelMsg(active.id)>>, fails)
    BY <2>1, <2>4, FailLine, ReplyTypes DEF Finished
  <2>5. QED
    BY <1>2, <2>2, <2>3, <2>4 DEF OnChunk
<1>3. QED
  BY <1>1, <1>2

LEMMA HandleMessageInv ==
    ASSUME IInv, NEW m \in GoMsg, NEW ch \in 0 .. channel, NEW ok, NEW fails,
           HandleMessage(ch, m, ok, fails)
    PROVE  Handled' /\ CallOK' /\ RestOK'
<1>1. Handled
  BY InvHandled
<1>2. CallOK' /\ RestOK'
  <2>1. UNCHANGED <<channel, ended, cancelling>>
    BY DEF HandleMessage
  <2>2. \/ UNCHANGED <<items, wanted, caller>>
        \/ items' = TRUE /\ UNCHANGED <<wanted, caller>>
        \/ items' = TRUE /\ wanted' = Shared /\ caller' = ch
    BY DEF HandleMessage, OnHello
  <2>3. QED
    BY <2>1, <2>2 DEF IInv, ClientInv, CallOK, RestOK
<1>3. Handled'
  <2>1. CASE OnHello(ch, fails)
    BY <1>1, <2>1, OnHelloLine
  <2>2. CASE m.t = "start" /\ OnStart(m)
    BY <1>1, <2>2, OnStartLine DEF GoMsg, Chunks
  <2>3. CASE m.t = "chunk" /\ OnChunk(m, ok, fails)
    BY <1>1, <2>3, OnChunkLine DEF GoMsg, Chunks
  <2>4. CASE m.t = "end" /\ m.id = active.id /\ finish(m, ok, fails)
    BY <1>1, <2>4, FinishLine DEF GoMsg, Chunks
  <2>5. CASE m.t = "error" /\ m.id = active.id /\ fail("error", <<>>, fails)
    <3>1. active.id \in Files
      BY <2>5 DEF GoMsg, Chunks
    <3>2. QED
      BY <1>1, <2>5, <3>1, FailLine, EmptySeq DEF Finished
  <2>6. CASE UNCHANGED <<states, queue, active, part, saved, toServer>>
    BY <1>1, <2>6, UnchangedLine
  <2>7. QED
    BY <2>1, <2>2, <2>3, <2>4, <2>5, <2>6 DEF HandleMessage
<1>4. QED
  BY <1>2, <1>3

-----------------------------------------------------------------------------
(* The steps of Next. *)

LEMMA MessageInv ==
    ASSUME IInv, Message
    PROVE  IInv'
<1>1. PICK ok \in BOOLEAN, n \in Fails :
          OnClientMessage(ok, n) /\ Failing(IF ok THEN n ELSE n + 1)
  BY DEF Message
<1>2. Head(toClient) \in GoMsg /\ Tail(toClient) \in Seq(GoMsg)
  BY <1>1, HeadTailProperties DEF OnClientMessage, IInv, ChannelInv
<1>3. channel \in 0 .. channel
  BY DEF IInv, ClientInv, RestOK
<1>4. Handled' /\ CallOK' /\ RestOK'
  BY <1>1, <1>2, <1>3, HandleMessageInv DEF OnClientMessage
<1>5. ChannelInv' /\ OldOK'
  <2>1. channel' = channel
    BY <1>1 DEF OnClientMessage, HandleMessage
  <2>2. QED
    BY <1>1, <1>2, <1>4, <2>1
    DEF OnClientMessage, IInv, ChannelInv, ClientInv, OldOK, Handled
<1>6. ServerInv'
  BY <1>1, <1>2, DrainInv DEF Message, OnClientMessage
<1>7. faults' \in 0 .. MaxFaults
  BY <1>1 DEF Failing, Fails, IInv
<1>8. QED
  BY <1>4, <1>5, <1>6, <1>7 DEF IInv, ClientInv, Handled

\* The state of the server, when nothing of it changes.
LEMMA ServerStays ==
    ASSUME IInv, UNCHANGED goServerVars, sOpen' = sOpen
    PROVE  ServerInv'
BY DEF IInv, ServerInv, goServerVars, GoServerTypeOK, ServerTypeOK,
       LoopTypeOK, LoopOK, RunnerOK, OneRunner, WakeOK, Poked

LEMMA OldMessageInv ==
    ASSUME IInv, OldMessage
    PROVE  IInv'
<1>1. PICK ch \in DOMAIN old, ok \in BOOLEAN, n \in Fails :
          OnOldMessage(ch, ok, n) /\ Failing(IF ok THEN n ELSE n + 1)
  BY DEF OldMessage
<1>2. ch \in 1 .. Len(old) /\ old[ch] \in Seq(GoMsg)
  BY ElementOfSeq DEF IInv, ClientInv, OldOK
<1>3. Head(old[ch]) \in GoMsg /\ Tail(old[ch]) \in Seq(GoMsg)
  BY <1>1, <1>2, HeadTailProperties DEF OnOldMessage
<1>4. ch \in 0 .. channel
  BY <1>2 DEF IInv, ClientInv, OldOK, RestOK
<1>5. Handled' /\ CallOK' /\ RestOK'
  BY <1>1, <1>3, <1>4, HandleMessageInv DEF OnOldMessage
<1>6. OldOK'
  <2>1. old' = [old EXCEPT ![ch] = Tail(@)] /\ channel' = channel
    BY <1>1 DEF OnOldMessage, HandleMessage
  <2>2. old' \in Seq(Seq(GoMsg)) /\ Len(old') = Len(old)
    BY <1>2, <1>3, <2>1, ExceptSeq DEF IInv, ClientInv, OldOK
  <2>3. QED
    BY <2>1, <2>2 DEF IInv, ClientInv, OldOK
<1>7. ChannelInv' /\ ServerInv'
  BY <1>1, <1>5, ServerStays
  DEF OldMessage, OnOldMessage, IInv, ChannelInv, Handled
<1>8. faults' \in 0 .. MaxFaults
  BY <1>1 DEF Failing, Fails, IInv
<1>9. QED
  BY <1>5, <1>6, <1>7, <1>8 DEF IInv, ClientInv, Handled

LEMMA ConnectInv ==
    ASSUME IInv, Connect
    PROVE  IInv'
<1> USE DEF Connect, Attach
<1>1. ChannelInv'
  <2>1. Hello \in GoMsg
    BY DEF Hello, GoMsg
  <2>2. QED
    BY <2>1, Singleton, EmptySeq DEF ChannelInv
<1>2. ServerInv'
  <2>1. /\ srv' = [queue |-> <<>>, active |-> NoFile, cancelled |-> FALSE,
                   running |-> FALSE, closed |-> FALSE, sent |-> 0,
                   acked |-> 0, wake |-> FALSE]
        /\ calls' = {} /\ buffered' = 0 /\ sOpen'
        /\ loop' = loop /\ loop.pc = "none"
    BY DEF NewServer, NoLoop
  <2>2. ServerTypeOK'
    BY <2>1, EmptySeq DEF ServerTypeOK
  <2>3. LoopTypeOK' /\ LoopOK'
    BY <2>1 DEF IInv, ServerInv, GoServerTypeOK, LoopTypeOK, LoopOK
  <2>4. RunnerOK' /\ WakeOK'
    BY <2>1 DEF RunnerOK, OneRunner, WakeOK, Poked
  <2>5. QED
    BY <2>1, <2>2, <2>3, <2>4 DEF ServerInv, GoServerTypeOK
<1>3. LineOK' /\ SavedOK'
  <2>1. active' = [active EXCEPT !.accepting = FALSE]
    BY DEF Detached
  <2>2. ActiveOK' /\ active'.id = active.id
    BY <2>1 DEF IInv, ClientInv, LineOK, ActiveOK
  <2>3. UNCHANGED <<states, queue, part, saved>>
    OBVIOUS
  <2> HIDE DEF Connect, Attach
  <2>4. QED
    BY <2>2, <2>3
    DEF IInv, ClientInv, LineOK, ActiveOK, NoPartLeft, SavedOK, SavedIsIntact
<1>4. CallOK' /\ RestOK'
  BY DEF IInv, ClientInv, CallOK, RestOK
<1>5. OldOK'
  <2>1. (IF cOpen THEN toClient ELSE <<>>) \in Seq(GoMsg)
    BY EmptySeq DEF IInv, ChannelInv
  <2>2. /\ old' \in Seq(Seq(GoMsg))
        /\ Len(old') = IF channel = 0 THEN Len(old) ELSE Len(old) + 1
    BY <2>1, AppendProperties DEF IInv, ClientInv, OldOK
  <2>3. QED
    BY <2>2 DEF IInv, ClientInv, OldOK, RestOK
<1>6. QED
  BY <1>1, <1>2, <1>3, <1>4, <1>5 DEF IInv, ClientInv

LEMMA ClientEndClosesInv ==
    ASSUME IInv, ClientEndCloses, UNCHANGED <<goServerVars, faults>>
    PROVE  IInv'
<1> USE DEF ClientEndCloses
<1>1. ServerInv'
  BY ServerStays
<1>2. LineOK' /\ SavedOK'
  <2>1. active' = [active EXCEPT !.accepting = FALSE]
    BY DEF Detached
  <2>2. ActiveOK' /\ active'.id = active.id
    BY <2>1 DEF IInv, ClientInv, LineOK, ActiveOK
  <2>3. UNCHANGED <<states, queue, part, saved>>
    OBVIOUS
  <2> HIDE DEF ClientEndCloses
  <2>4. QED
    BY <2>2, <2>3
    DEF IInv, ClientInv, LineOK, ActiveOK, NoPartLeft, SavedOK, SavedIsIntact
<1>3. ChannelInv' /\ CallOK' /\ RestOK' /\ OldOK' /\ faults' \in 0 .. MaxFaults
  BY DEF IInv, ChannelInv, ClientInv, CallOK, RestOK, OldOK
<1>4. QED
  BY <1>1, <1>2, <1>3 DEF IInv, ClientInv

LEMMA AskInv ==
    ASSUME IInv, Ask
    PROVE  IInv'
<1>1. PICK n \in Fails : Download(n) /\ Failing(n)
  BY DEF Ask
<1> DEFINE f  == Head(wanted)
           st == [states EXCEPT ![f] = "queued"]
<1>2. f \in Files /\ Tail(wanted) \in Seq(Files)
  BY <1>1, HeadTailProperties DEF Download, IInv, ClientInv, CallOK
<1>3. st \in [Files -> Statuses] /\ Append(queue, f) \in Seq(Files)
  BY <1>2, AppendProperties DEF IInv, ClientInv, LineOK, Statuses
<1>4. LineOK' /\ toServer' \in Seq(ReceiverMsg)
  <2>1. CASE active.id # NoFile
    <3>1. /\ queue' = Append(queue, f)
          /\ states' = st
          /\ UNCHANGED <<active, part, toServer>>
      BY <1>1, <2>1 DEF Download
    <3> HIDE DEF f, st
    <3>2. QED
      BY <1>3, <3>1
      DEF IInv, ClientInv, ChannelInv, LineOK, NoPartLeft, Statuses
  <2>2. CASE active.id = NoFile
    <3>1. next(st, part, Append(queue, f), <<>>, n) /\ part = {}
      BY <1>1, <2>2, NothingLeft DEF Download, IInv, ClientInv
    <3> HIDE DEF f, st
    <3>2. QED
      BY <1>3, <3>1, NextLine, EmptySeq DEF IInv, ChannelInv
  <2>3. QED
    BY <2>1, <2>2
<1>5. ChannelInv' /\ SavedOK' /\ CallOK' /\ RestOK' /\ OldOK'
  BY <1>1, <1>2, <1>4
  DEF Download, IInv, ClientInv, ChannelInv, SavedOK, SavedIsIntact, CallOK,
      RestOK, OldOK
<1>6. ServerInv' /\ faults' \in 0 .. MaxFaults
  BY <1>1, ServerStays DEF Ask, Download, Failing, Fails, IInv
<1>7. QED
  BY <1>4, <1>5, <1>6 DEF IInv, ClientInv

LEMMA CancelNextInv ==
    ASSUME IInv, CancelNext
    PROVE  IInv'
<1>1. PICK n \in Fails : Cancel(n) /\ Failing(n)
  BY DEF CancelNext
<1> DEFINE f == Head(cancelling)
<1>2. f \in Files /\ Tail(cancelling) \in Seq(Files)
  BY <1>1, HeadTailProperties DEF Cancel, IInv, ClientInv, RestOK
<1>3. Handled
  BY InvHandled
<1>4. Handled'
  <2>1. CASE /\ \E i \in DOMAIN queue : queue' = RemoveAt(queue, i)
             /\ states' = [states EXCEPT ![f] = "cancelled"]
             /\ UNCHANGED <<active, part, saved, toServer>>
    <3>1. queue' \in Seq(Files)
      BY <2>1, RemoveAtType DEF IInv, ClientInv, LineOK
    <3>2. states' \in [Files -> Statuses]
      BY <1>2, <2>1 DEF IInv, ClientInv, LineOK, Statuses, Finished
    <3>3. QED
      BY <1>3, <2>1, <3>1, <3>2
      DEF Handled, LineOK, NoPartLeft, SavedOK, SavedIsIntact, Statuses
  <2>2. CASE f = active.id /\ fail("cancelled", <<CancelMsg(f)>>, n)
    BY <1>2, <1>3, <2>2, FailLine, ReplyTypes DEF Finished
  <2>3. CASE UNCHANGED <<states, queue, active, part, saved, toServer>>
    BY <1>3, <2>3, UnchangedLine
  <2>4. QED
    BY <1>1, <2>1, <2>2, <2>3 DEF Cancel
<1>5. ChannelInv' /\ CallOK' /\ RestOK' /\ OldOK'
  BY <1>1, <1>2, <1>4
  DEF Cancel, IInv, ClientInv, ChannelInv, Handled, CallOK, RestOK, OldOK
<1>6. ServerInv' /\ faults' \in 0 .. MaxFaults
  BY <1>1, ServerStays DEF CancelNext, Cancel, Failing, Fails, IInv
<1>7. QED
  BY <1>4, <1>5, <1>6 DEF IInv, ClientInv, Handled

LEMMA SessionEndsInv ==
    ASSUME IInv, SessionEnds
    PROVE  IInv'
<1>1. cancelling' \in Seq(Files) /\ ended' = TRUE
  <2>1. (IF active.id = NoFile THEN <<>> ELSE <<active.id>>) \in Seq(Files)
    BY EmptySeq, Singleton DEF IInv, ClientInv, LineOK
  <2>2. QED
    BY <2>1, ConcatProperties DEF SessionEnds, Leave, IInv, ClientInv, LineOK
<1>2. /\ UNCHANGED <<items, states, queue, active, part, saved, channel, old,
                     wanted, caller, sOpen, cOpen, toClient, toServer>>
      /\ UNCHANGED goServerVars /\ faults' = faults
  BY DEF SessionEnds, Leave, channelVars
<1>3. ServerInv'
  BY <1>2, ServerStays
<1>4. LineOK' /\ SavedOK'
  BY <1>2
  DEF IInv, ClientInv, LineOK, NoPartLeft, SavedOK, SavedIsIntact
<1>5. ChannelInv' /\ CallOK' /\ RestOK' /\ OldOK'
  BY <1>1, <1>2 DEF IInv, ClientInv, ChannelInv, CallOK, RestOK, OldOK
<1>6. QED
  BY <1>2, <1>3, <1>4, <1>5 DEF IInv, ClientInv

LEMMA ClientStays ==
    ASSUME IInv, UNCHANGED goClientVars
    PROVE  ClientInv'
BY DEF IInv, ClientInv, goClientVars, LineOK, NoPartLeft, SavedOK,
       SavedIsIntact, CallOK, RestOK, OldOK

LEMMA InitInv == Init => IInv
<1> SUFFICES ASSUME Init PROVE IInv
  OBVIOUS
<1> USE EmptySeq DEF Init
<1>1. ChannelInv
  BY DEF ChannelInv
<1>2. ServerInv
  <2>1. ServerTypeOK
    BY DEF NewServer, ServerTypeOK
  <2>2. LoopTypeOK /\ LoopOK
    BY DEF NoLoop, LoopTypeOK, LoopOK, LoopSteps
  <2>3. RunnerOK /\ WakeOK
    BY DEF NewServer, NoLoop, RunnerOK, OneRunner, WakeOK, Poked
  <2>4. QED
    BY <2>1, <2>2, <2>3 DEF ServerInv, GoServerTypeOK
<1>3. ClientInv
  <2>1. LineOK
    <3>1. active \in [id : Files \cup {NoFile}, accepting : BOOLEAN,
                      received : Nat, lastAck : Nat,
                      hashed : Seq(Byte), bytes : Seq(Byte)]
      BY DEF NoDownload
    <3>2. QED
      BY <3>1 DEF NoDownload, LineOK, NoPartLeft
  <2>2. SavedOK /\ CallOK /\ RestOK
    <3>1. SavedOK
      BY DEF SavedOK, SavedIsIntact
    <3>2. CallOK
      <4>1. <<>> \in Seq(Files)
        BY EmptySeq
      <4>2. caller \in 0 .. channel
        OBVIOUS
      <4>3. items \in BOOLEAN /\ wanted \in Seq(Files)
        BY <4>1
      <4>4. QED
        BY <4>2, <4>3 DEF CallOK
    <3>3. RestOK
      <4>1. <<>> \in Seq(Files)
        BY EmptySeq
      <4>2. QED
        BY <4>1 DEF RestOK
    <3>4. QED
      BY <3>1, <3>2, <3>3
  <2>3. OldOK
    <3>1. <<>> \in Seq(Seq(GoMsg)) /\ Len(<<>>) = 0
      OBVIOUS
    <3>2. QED
      BY <3>1 DEF OldOK
  <2>4. QED
    BY <2>1, <2>2, <2>3 DEF ClientInv
<1>4. QED
  BY <1>1, <1>2, <1>3 DEF IInv

LEMMA NextInv == IInv /\ [Next]_vars => IInv'
<1> SUFFICES ASSUME IInv, [Next]_vars PROVE IInv'
  OBVIOUS
<1>1. CASE Connect
  BY <1>1, ConnectInv
<1>2. CASE ServerStep
  BY <1>2, OnServerMessageInv, CallInv, LoopStepInv, ClientStays
  DEF ServerStep, IInv
<1>3. CASE Timer
  <2>1. ChannelInv'
    BY <1>3 DEF Timer, TimerFires, channelVars, IInv, ChannelInv
  <2>2. QED
    BY <1>3, <2>1, TimerInv, ClientStays DEF Timer, IInv
<1>4. CASE Message
  BY <1>4, MessageInv
<1>5. CASE OldMessage
  BY <1>5, OldMessageInv
<1>6. CASE Ask
  BY <1>6, AskInv
<1>7. CASE CancelNext
  BY <1>7, CancelNextInv
<1>8. CASE SessionEnds
  BY <1>8, SessionEndsInv
<1>9. CASE ServerBreaks
  BY <1>9, ServerEndClosesInv, ClientStays DEF ServerBreaks, IInv
<1>10. CASE ClientBreaks
  BY <1>10, ClientEndClosesInv DEF ClientBreaks
<1>11. CASE ReadError
  <2>1. ChannelInv' /\ faults' \in 0 .. MaxFaults
    BY <1>11 DEF ReadError, ReadFails, Failing, channelVars, IInv, ChannelInv
  <2>2. QED
    BY <1>11, <2>1, ReadFailsInv, ClientStays DEF ReadError, IInv
<1>12. CASE UNCHANGED vars
  <2>1. ChannelInv' /\ faults' = faults
    BY <1>12 DEF vars, channelVars, IInv, ChannelInv
  <2>2. UNCHANGED goServerVars /\ UNCHANGED goClientVars /\ sOpen' = sOpen
    BY <1>12 DEF vars, channelVars
  <2>3. QED
    BY <2>1, <2>2, ServerStays, ClientStays DEF IInv
<1>13. CASE LinkCloses
  BY <1>13, ShutdownInv, ClientStays DEF LinkCloses, Shutdown, channelVars, IInv
<1>14. QED
  BY <1>1, <1>2, <1>3, <1>4, <1>5, <1>6, <1>7, <1>8, <1>9, <1>10, <1>11, <1>12,
     <1>13
  DEF Next

THEOREM Invariance == Spec => []IInv
BY InitInv, NextInv, PTL DEF Spec

-----------------------------------------------------------------------------
(* What follows. *)

LEMMA InvTypeOK == IInv => TypeOK
<1> SUFFICES ASSUME IInv PROVE TypeOK
  OBVIOUS
<1>1. ChannelTypeOK
  BY GoMsgIsSenderMsg, SeqMonotonic DEF IInv, ChannelInv, ChannelTypeOK
<1>2. old \in Seq(Seq(SenderMsg))
  <2>1. Seq(GoMsg) \subseteq Seq(SenderMsg)
    BY GoMsgIsSenderMsg, SeqMonotonic
  <2>2. QED
    BY <2>1, SeqMonotonic DEF IInv, ClientInv, OldOK
<1>3. GoClientTypeOK
  BY <1>2
  DEF IInv, ClientInv, LineOK, SavedOK, CallOK, RestOK, GoClientTypeOK
<1>4. QED
  BY <1>1, <1>3 DEF IInv, ServerInv, TypeOK

LEMMA InvNeverOversleeps == IInv => NeverOversleeps
BY DEF IInv, ChannelInv, ServerInv, RunnerOK, WakeOK, Poked, NeverOversleeps,
       Stopped

\* Every variable keeps its type: among other things, what the loop has still
\* to send of a block is never negative.
THEOREM GoTypeCorrect == Spec => []TypeOK
BY Invariance, InvTypeOK, PTL

\* No request is left behind by a loop that stops, and there is never a second
\* loop, whatever the callbacks of the channel do (server.go:127-143, 171-177).
THEOREM GoOneRunner == Spec => []OneRunner
<1>1. IInv => OneRunner
  BY DEF IInv, ServerInv, RunnerOK
<1>2. QED
  BY <1>1, Invariance, PTL

\* A loop with something to do never sleeps without a wake-up on its way,
\* whatever the window and the marks of the buffer (server.go:104-109,
\* 336-354).
THEOREM GoNeverOversleeps == Spec => []NeverOversleeps
BY Invariance, InvNeverOversleeps, PTL

\* Whatever ends a download, its partial file is gone (client.go:366-385).
THEOREM GoNoPartLeft == Spec => []NoPartLeft
<1>1. IInv => NoPartLeft
  BY DEF IInv, ClientInv, LineOK
<1>2. QED
  BY <1>1, Invariance, PTL

\* However many channels feed a download, a file that bears its own name holds
\* the bytes that were shared (client.go:306-329, 342-349).
THEOREM GoSavedIsIntact == Spec => []SavedIsIntact
<1>1. IInv => SavedIsIntact
  BY DEF IInv, ClientInv, SavedOK
<1>2. QED
  BY <1>1, Invariance, PTL
=============================================================================
