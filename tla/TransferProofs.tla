--------------------------- MODULE TransferProofs ---------------------------
(***************************************************************************)
(* What holds of Transfer for every set of files, every size, chunk, block *)
(* and window, and every bound on the environment: its types; that what    *)
(* was verified is intact; that Transfer implements Delivery, shows the    *)
(* line as it is, and has a checkpoint only for the head of the line.      *)
(*                                                                         *)
(* For the line, what Transfer does is sorted: only six kinds of steps     *)
(* concern it, and what remains is to be shown of the six kinds alone.     *)
(***************************************************************************)
EXTENDS Transfer, SequenceTheorems, TLAPS

USE ProtocolAssumption, EnvironmentAssumption

-----------------------------------------------------------------------------
(* The types are not inductive by themselves: the server subtracts offsets *)
(* from each other and names the file it is serving, and the client names  *)
(* its active download, in messages that must be typed too.                *)

\* The sending loop is between chunks exactly when it is in its phase "send".
ServerOK ==
    /\ srv.phase # "idle" => srv.active \in Files
    /\ srv.phase = "read" =>
           srv.blockEnd = srv.sent /\ srv.sent < Size[srv.active]
    /\ srv.phase = "send" => srv.sent < srv.blockEnd

\* Without an active download nothing of one is left.
ClientOK ==
    active.id = NoFile =>
        /\ ~active.ready /\ ~active.accepting /\ ~active.closing
        /\ active.chain = <<>>
        /\ active.failed = "no"

ServerInv == ServerTypeOK /\ ServerOK

Request == [id : Files, offset : Nat]
Queued  == [id : Files, from : ResumeFrom]

\* What most of the client's handlers share: the line of downloads, and the
\* session's records of them.
LineOK ==
    /\ states \in [Files -> Status]
    /\ queue \in Seq(Queued)
    /\ active \in Download
    /\ ClientOK

RecordsOK ==
    /\ opfsDirs \in [Files -> Folder \cup {"none"}]
    /\ saved \in [Files -> ResumeFrom]

ClientInv ==
    /\ LineOK
    /\ RecordsOK
    /\ items \in BOOLEAN
    /\ verified \in [Files -> BOOLEAN]
    /\ orphans \in [Files -> Nat]
    /\ late \in SUBSET [id : Files, status : {"error", "cancelled"},
                         refused : BOOLEAN]
    /\ disk \in [Files -> FileBytes]

TypeInv ==
    /\ ChannelTypeOK
    /\ ServerInv
    /\ ClientInv
    /\ spent \in [Budget -> Nat]

-----------------------------------------------------------------------------
(* Data. *)

LEMMA BytesType ==
    ASSUME NEW f \in Files, NEW i \in Nat, NEW j \in Nat
    PROVE  Bytes(f, i, j) \in FileBytes
<1> DEFINE n == IF i <= j THEN j - i ELSE 0
<1>1. n \in Nat /\ 1..(j - i) = 1..n
  OBVIOUS
<1>2. Bytes(f, i, j) \in [1..n -> Files \X Nat]
  BY <1>1 DEF Bytes
<1>3. QED
  BY <1>1, <1>2 DEF FileBytes

LEMMA Singleton ==
    ASSUME NEW S, NEW e \in S
    PROVE  <<e>> \in Seq(S)
OBVIOUS

LEMMA RemoveAtType ==
    ASSUME NEW S, NEW s \in Seq(S), NEW i \in DOMAIN s
    PROVE  RemoveAt(s, i) \in Seq(S)
<1>1. i \in 1..Len(s) /\ Len(s) \in Nat
  OBVIOUS
<1>2. SubSeq(s, 1, i - 1) \in Seq(S)
  BY <1>1, SubSeqProperties, ElementOfSeq
<1>3. SubSeq(s, i + 1, Len(s)) \in Seq(S)
  BY <1>1, SubSeqProperties, ElementOfSeq
<1>4. QED
  BY <1>2, <1>3, ConcatProperties DEF RemoveAt

LEMMA DeliverType ==
    ASSUME NEW S, NEW box \in Seq(S), NEW msgs \in Seq(S)
    PROVE  Deliver(box, msgs) \in Seq(S)
BY ConcatProperties DEF Deliver

LEMMA WithoutType ==
    ASSUME NEW q \in Seq(Request), NEW f \in Files
    PROVE  Without(q, f) \in Seq(Request)
<1> DEFINE at == {i \in DOMAIN q : q[i].id = f}
<1>1. CASE at = {}
  BY <1>1 DEF Without
<1>2. CASE at # {}
  <2>1. (CHOOSE i \in at : TRUE) \in DOMAIN q
    BY <1>2
  <2>2. QED
    BY <1>2, <2>1, RemoveAtType DEF Without
<1>3. QED
  BY <1>1, <1>2

-----------------------------------------------------------------------------
(* The server. *)

LEMMA ServeType ==
    ASSUME NEW q \in Seq(Request), srv' = Serve(q)
    PROVE  ServerInv'
<1>1. CASE q = <<>>
  BY <1>1 DEF Serve, IdleServer, ServerInv, ServerTypeOK, ServerOK, Request
<1>2. CASE q # <<>>
  <2>1. Head(q) \in Request /\ Tail(q) \in Seq(Request)
    BY <1>2, HeadTailProperties
  <2>2. /\ Head(q).id \in Files
        /\ Size[Head(q).id] \in Nat
        /\ Least(Head(q).offset, Size[Head(q).id]) \in Nat
    BY <2>1 DEF Request, Least
  <2>3. QED
    BY <1>2, <2>1, <2>2
    DEF Serve, ServerInv, ServerTypeOK, ServerOK, Request
<1>3. QED
  BY <1>1, <1>2

LEMMA AnnouncementType ==
    ASSUME NEW q \in Seq(Request)
    PROVE  Announcement(q) \in Seq(SenderMsg)
<1>1. CASE q = <<>>
  BY <1>1 DEF Announcement
<1>2. CASE q # <<>>
  <2>1. Head(q) \in Request
    BY <1>2, HeadTailProperties
  <2>2. Head(q).id \in Files /\ Least(Head(q).offset, Size[Head(q).id]) \in Nat
    BY <2>1 DEF Request, Least
  <2>3. QED
    BY <1>2, <2>1, <2>2 DEF Announcement, Start, SenderMsg
<1>3. QED
  BY <1>1, <1>2

LEMMA FinishFileType ==
    ASSUME NEW q \in Seq(Request), NEW msgs \in Seq(SenderMsg),
           toClient \in Seq(SenderMsg), FinishFile(q, msgs)
    PROVE  ServerInv' /\ toClient' \in Seq(SenderMsg)
<1>1. ServerInv'
  BY ServeType DEF FinishFile
<1>2. msgs \o Announcement(q) \in Seq(SenderMsg)
  BY AnnouncementType, ConcatProperties
<1>3. QED
  BY <1>1, <1>2, DeliverType DEF FinishFile

LEMMA OnServerMessageType ==
    ASSUME TypeInv, OnServerMessage
    PROVE  ServerInv' /\ ChannelTypeOK'
<1> DEFINE m == Head(toServer)
<1>1. m \in ReceiverMsg /\ toServer' \in Seq(ReceiverMsg)
  BY HeadTailProperties DEF TypeInv, ChannelTypeOK, OnServerMessage
<1>2. srv.queue \in Seq(Request) /\ toClient \in Seq(SenderMsg)
  BY DEF TypeInv, ServerInv, ServerTypeOK, ChannelTypeOK, Request
<1>3. sOpen' \in BOOLEAN /\ cOpen' \in BOOLEAN
  BY DEF TypeInv, ChannelTypeOK, OnServerMessage
<1>4. CASE m.t = "get" /\ OnGet(m)
  <2> DEFINE q == <<[id |-> m.id, offset |-> m.offset]>> \o Without(srv.queue, m.id)
  <2>1. m.id \in Files /\ m.offset \in Nat
    BY <1>1, <1>4 DEF ReceiverMsg
  <2>2. q \in Seq(Request)
    <3>1. <<[id |-> m.id, offset |-> m.offset]>> \in Seq(Request)
      BY <2>1 DEF Request
    <3>2. QED
      BY <1>2, <2>1, <3>1, WithoutType, ConcatProperties
  <2>3. CASE srv.phase \in {"idle", "send"}
    <3>1. FinishFile(q, <<>>)
      BY <1>4, <2>3 DEF OnGet
    <3>2. QED
      BY <1>1, <1>2, <1>3, <2>2, <3>1, FinishFileType, EmptySeq DEF ChannelTypeOK
  <2>4. CASE srv.phase \notin {"idle", "send"}
    <3>1. /\ srv' = [srv EXCEPT !.queue = q, !.cancelled = TRUE]
          /\ toClient' = toClient
      BY <1>4, <2>4 DEF OnGet
    <3>2. QED
      BY <1>1, <1>2, <1>3, <2>2, <3>1
      DEF TypeInv, ServerInv, ServerTypeOK, ServerOK, ChannelTypeOK, Request
  <2>5. QED
    BY <2>3, <2>4
<1>5. CASE m.t = "ack" /\ OnAck(m)
  <2>1. m.received \in Nat
    BY <1>1, <1>5 DEF ReceiverMsg
  <2>2. QED
    BY <1>1, <1>2, <1>3, <1>5, <2>1
    DEF OnAck, TypeInv, ServerInv, ServerTypeOK, ServerOK, ChannelTypeOK
<1>6. CASE m.t = "cancel" /\ OnCancel(m)
  <2> DEFINE q == Without(srv.queue, m.id)
  <2>1. m.id \in Files
    BY <1>1, <1>6 DEF ReceiverMsg
  <2>2. q \in Seq(Request)
    BY <1>2, <2>1, WithoutType
  <2>3. CASE srv.active = m.id /\ srv.phase = "send"
    <3>1. FinishFile(q, <<>>)
      BY <1>6, <2>3 DEF OnCancel
    <3>2. QED
      BY <1>1, <1>2, <1>3, <2>2, <3>1, FinishFileType, EmptySeq DEF ChannelTypeOK
  <2>4. CASE ~(srv.active = m.id /\ srv.phase = "send")
    <3>1. /\ srv' = [srv EXCEPT !.queue = q,
                                !.cancelled = @ \/ srv.active = m.id]
          /\ toClient' = toClient
      BY <1>6, <2>4 DEF OnCancel
    <3>2. QED
      BY <1>1, <1>2, <1>3, <2>2, <3>1
      DEF TypeInv, ServerInv, ServerTypeOK, ServerOK, ChannelTypeOK, Request
  <2>5. QED
    BY <2>3, <2>4
<1>7. CASE m.t = "done" /\ UNCHANGED <<srv, toClient>>
  BY <1>1, <1>2, <1>3, <1>7
  DEF TypeInv, ServerInv, ServerTypeOK, ServerOK, ChannelTypeOK
<1>8. QED
  BY <1>4, <1>5, <1>6, <1>7 DEF OnServerMessage

LEMMA BlockReadType ==
    ASSUME TypeInv, BlockRead
    PROVE  ServerInv' /\ ChannelTypeOK'
<1>1. srv.queue \in Seq(Request) /\ toClient \in Seq(SenderMsg)
  BY DEF TypeInv, ServerInv, ServerTypeOK, ChannelTypeOK, Request
<1>2. sOpen' \in BOOLEAN /\ cOpen' \in BOOLEAN /\ toServer' \in Seq(ReceiverMsg)
  BY DEF TypeInv, ChannelTypeOK, BlockRead
<1>3. CASE srv.cancelled
  <2>1. FinishFile(srv.queue, <<>>)
    BY <1>3 DEF BlockRead
  <2>2. QED
    BY <1>1, <1>2, <2>1, FinishFileType, EmptySeq DEF ChannelTypeOK
<1>4. CASE ~srv.cancelled
  <2> DEFINE b == Least(Size[srv.active], srv.blockEnd + READ_BLOCK)
  <2>1. /\ srv' = [srv EXCEPT !.phase = "send", !.blockEnd = b]
        /\ toClient' = toClient
    BY <1>4 DEF BlockRead
  <2>2. b \in Nat /\ srv.sent < b
    BY DEF TypeInv, ServerInv, ServerTypeOK, ServerOK, BlockRead, Least
  <2>3. QED
    BY <1>1, <1>2, <2>1, <2>2
    DEF BlockRead, TypeInv, ServerInv, ServerTypeOK, ServerOK, ChannelTypeOK
<1>5. QED
  BY <1>3, <1>4

LEMMA SendChunkType ==
    ASSUME TypeInv, SendChunk
    PROVE  ServerInv' /\ ChannelTypeOK'
<1> DEFINE len == Least(CHUNK, srv.blockEnd - srv.sent)
           end == srv.sent + len
           next == IF end < srv.blockEnd THEN "send"
                   ELSE IF end < Size[srv.active] THEN "read"
                   ELSE "hash"
<1>1. /\ srv.active \in Files /\ srv.sent \in Nat /\ srv.blockEnd \in Nat
      /\ srv.sent < srv.blockEnd
  BY DEF TypeInv, ServerInv, ServerTypeOK, ServerOK, SendChunk
<1>2. len \in Nat /\ end \in Nat /\ end <= srv.blockEnd
  BY <1>1 DEF Least
<1>3. srv' = [srv EXCEPT !.sent = end, !.phase = next]
  BY DEF SendChunk
<1>4. ServerInv'
  <2>1. ServerTypeOK'
    <3>1. next \in {"idle", "read", "send", "hash"}
      OBVIOUS
    <3>2. QED
      BY <1>2, <1>3, <3>1 DEF TypeInv, ServerInv, ServerTypeOK
  <2>2. /\ srv'.active = srv.active /\ srv'.blockEnd = srv.blockEnd
        /\ srv'.sent = end /\ srv'.phase = next
    BY <1>3 DEF TypeInv, ServerInv, ServerTypeOK
  <2>3. ServerOK'
    BY <1>1, <1>2, <2>2 DEF ServerOK
  <2>4. QED
    BY <2>1, <2>3 DEF ServerInv
<1>5. toClient' \in Seq(SenderMsg)
  <2>1. <<Chunk(srv.active, srv.sent, len)>> \in Seq(SenderMsg)
    BY <1>1, <1>2 DEF Chunk, SenderMsg, Chunks
  <2>2. QED
    BY <2>1, DeliverType DEF SendChunk, TypeInv, ChannelTypeOK
<1>6. QED
  BY <1>4, <1>5 DEF SendChunk, TypeInv, ChannelTypeOK

LEMMA HashReadyType ==
    ASSUME TypeInv, NEW sha \in Sha256, HashReady(sha)
    PROVE  ServerInv' /\ ChannelTypeOK'
<1> DEFINE msgs == IF srv.cancelled THEN <<>> ELSE <<End(srv.active, sha)>>
<1>1. srv.active \in Files
  BY DEF TypeInv, ServerInv, ServerOK, HashReady
<1>2. msgs \in Seq(SenderMsg)
  <2>1. End(srv.active, sha) \in SenderMsg
    BY <1>1 DEF End, SenderMsg
  <2>2. QED
    BY <2>1
<1>3. srv.queue \in Seq(Request) /\ toClient \in Seq(SenderMsg)
  BY DEF TypeInv, ServerInv, ServerTypeOK, ChannelTypeOK, Request
<1>4. QED
  BY <1>2, <1>3, FinishFileType DEF HashReady, TypeInv, ChannelTypeOK

LEMMA ReadFailsType ==
    ASSUME TypeInv, ReadFails
    PROVE  ServerInv' /\ ChannelTypeOK'
<1> DEFINE msgs == IF srv.cancelled THEN <<>> ELSE <<ErrorMsg(srv.active)>>
<1>1. srv.active \in Files
  BY DEF TypeInv, ServerInv, ServerOK, ReadFails
<1>2. msgs \in Seq(SenderMsg)
  <2>1. ErrorMsg(srv.active) \in SenderMsg
    BY <1>1 DEF ErrorMsg, SenderMsg
  <2>2. QED
    BY <2>1
<1>3. srv.queue \in Seq(Request) /\ toClient \in Seq(SenderMsg)
  BY DEF TypeInv, ServerInv, ServerTypeOK, ChannelTypeOK, Request
<1>4. QED
  BY <1>2, <1>3, FinishFileType DEF ReadFails, TypeInv, ChannelTypeOK

LEMMA ServerCloseType ==
    ASSUME TypeInv, ServerClose
    PROVE  ServerInv' /\ ChannelTypeOK'
<1>1. ServerInv'
  BY DEF ServerClose, IdleServer, ServerInv, ServerTypeOK, ServerOK
<1>2. sOpen' \in BOOLEAN /\ toServer' \in Seq(ReceiverMsg)
  BY EmptySeq DEF ServerClose
<1>3. ChannelTypeOK'
  BY <1>2 DEF ServerClose, TypeInv, ChannelTypeOK
<1>4. QED
  BY <1>1, <1>3

-----------------------------------------------------------------------------
(* The client. *)

LEMMA SendType ==
    ASSUME ChannelTypeOK, NEW msgs \in Seq(ReceiverMsg), Send(msgs)
    PROVE  toServer' \in Seq(ReceiverMsg)
BY DeliverType DEF Send, ChannelTypeOK

LEMMA NewDownloadType ==
    ASSUME NEW f \in Files \cup {NoFile}, NEW from \in ResumeFrom
    PROVE  NewDownload(f, from) \in Download
<1>1. <<>> \in Seq(Chunks)
  OBVIOUS
<1>2. QED
  BY <1>1 DEF NewDownload, Download, ResumeFrom, Sha256

LEMMA NoDownloadType ==
    NoDownload \in Download
<1>1. NoResume \in ResumeFrom
  BY DEF NoResume, ResumeFrom, FileBytes, Folder
<1>2. QED
  BY <1>1, NewDownloadType DEF NoDownload

LEMMA TakeNextType ==
    ASSUME NEW q \in Seq(Queued), NEW st \in [Files -> Status], TakeNext(q, st)
    PROVE  LineOK'
<1>1. CASE q = <<>>
  <2>1. active' = NoDownload /\ queue' = q /\ states' = st
    BY <1>1 DEF TakeNext
  <2>2. ClientOK'
    BY <2>1 DEF ClientOK, NoDownload, NewDownload
  <2>3. QED
    BY <2>1, <2>2, NoDownloadType DEF LineOK
<1>2. CASE q # <<>>
  <2> DEFINE h == Head(q)
             from == [h.from EXCEPT !.offset = Least(@, Size[h.id])]
  <2>1. h \in Queued /\ Tail(q) \in Seq(Queued)
    BY <1>2, HeadTailProperties
  <2>2. h.id \in Files /\ from \in ResumeFrom
    BY <2>1 DEF Queued, ResumeFrom, Least
  <2>3. /\ active' = NewDownload(h.id, from)
        /\ queue' = Tail(q)
        /\ states' = [st EXCEPT ![h.id] = "receiving"]
    BY <1>2 DEF TakeNext
  <2>4. active' \in Download /\ active'.id = h.id
    BY <2>2, <2>3, NewDownloadType DEF NewDownload
  <2>5. ClientOK'
    BY <2>2, <2>4 DEF ClientOK
  <2>6. states' \in [Files -> Status]
    BY <2>3 DEF Status
  <2>7. QED
    BY <2>1, <2>3, <2>4, <2>5, <2>6 DEF LineOK
<1>3. QED
  BY <1>1, <1>2

LEMMA DropCheckpointType ==
    ASSUME RecordsOK, NEW f, DropCheckpoint(f)
    PROVE  RecordsOK'
<1>1. NoResume \in ResumeFrom
  BY DEF NoResume, ResumeFrom, FileBytes, Folder
<1>2. QED
  BY <1>1 DEF DropCheckpoint, RecordsOK

LEMMA EndActiveType ==
    ASSUME LineOK, RecordsOK, NEW status \in Status, EndActive(status)
    PROVE  LineOK' /\ RecordsOK'
<1>1. [states EXCEPT ![active.id] = status] \in [Files -> Status]
  BY DEF LineOK
<1>2. QED
  BY <1>1, TakeNextType, DropCheckpointType DEF EndActive, LineOK

LEMMA FailingType ==
    ASSUME NEW d \in Download, NEW status \in {"error", "cancelled"}
    PROVE  /\ Failing(d, status) \in Download
           /\ Failing(d, status).id = d.id
BY DEF Failing, Download

LEMMA FailActiveType ==
    ASSUME ChannelTypeOK, LineOK, RecordsOK, orphans \in [Files -> Nat],
           active.id \in Files,
           NEW status \in {"error", "cancelled"},
           NEW msgs \in Seq(ReceiverMsg), FailActive(status, msgs)
    PROVE  /\ LineOK' /\ RecordsOK' /\ orphans' \in [Files -> Nat]
           /\ toServer' \in Seq(ReceiverMsg)
<1>1. toServer' \in Seq(ReceiverMsg)
  BY SendType DEF FailActive
<1>2. CASE active.ready
  <2>1. /\ active' = Failing(active, status)
        /\ UNCHANGED <<queue, states, orphans, opfsDirs, saved>>
    BY <1>2 DEF FailActive
  <2>2. active' \in Download /\ active'.id = active.id
    BY <2>1, FailingType DEF LineOK
  <2>3. ClientOK'
    BY <2>2 DEF ClientOK
  <2>4. QED
    BY <1>1, <2>1, <2>2, <2>3 DEF LineOK, RecordsOK
<1>3. CASE ~active.ready
  <2>1. /\ EndActive(status)
        /\ orphans' = [orphans EXCEPT ![active.id] = @ + 1]
    BY <1>3 DEF FailActive
  <2>2. QED
    BY <1>1, <2>1, EndActiveType DEF Status
<1>4. QED
  BY <1>2, <1>3

LEMMA MessageType ==
    \A f \in Files :
        /\ \A n \in Nat : Get(f, n) \in ReceiverMsg /\ Ack(f, n) \in ReceiverMsg
        /\ \A ok \in BOOLEAN : Done(f, ok) \in ReceiverMsg
        /\ CancelMsg(f) \in ReceiverMsg
BY DEF Get, Ack, Done, CancelMsg, ReceiverMsg

LEMMA FinishType ==
    ASSUME ChannelTypeOK, states \in [Files -> Status],
           NEW d \in Download, d.id \in Files,
           NEW acks \in Seq(ReceiverMsg), Finish(d, acks)
    PROVE  /\ active' \in Download /\ active'.id = d.id
           /\ states' \in [Files -> Status]
           /\ toServer' \in Seq(ReceiverMsg)
<1>1. d.received \in Nat
  BY DEF Download
<1>2. /\ acks \o <<Get(d.id, d.received)>> \in Seq(ReceiverMsg)
      /\ acks \o <<Done(d.id, FALSE)>> \in Seq(ReceiverMsg)
  <2>1. Get(d.id, d.received) \in ReceiverMsg /\ Done(d.id, FALSE) \in ReceiverMsg
    BY <1>1, MessageType
  <2>2. /\ <<Get(d.id, d.received)>> \in Seq(ReceiverMsg)
        /\ <<Done(d.id, FALSE)>> \in Seq(ReceiverMsg)
    BY <2>1, Singleton
  <2>3. QED
    BY <2>2, ConcatProperties
<1>3. CASE d.failed # "no"
  <2>1. active' = d /\ Send(acks) /\ states' = states
    BY <1>3 DEF Finish
  <2>2. QED
    BY <2>1, SendType
<1>4. CASE d.failed = "no" /\ d.received # Size[d.id]
  <2>1. /\ active' = [d EXCEPT !.finishing = FALSE, !.accepting = FALSE]
        /\ Send(acks \o <<Get(d.id, d.received)>>)
        /\ states' = states
    BY <1>4 DEF Finish
  <2>2. active' \in Download /\ active'.id = d.id
    BY <2>1 DEF Download
  <2>3. QED
    BY <1>2, <2>1, <2>2, SendType
<1>5. CASE /\ d.failed = "no" /\ d.received = Size[d.id]
           /\ d.expected /\ d.hasher /\ d.hashed # Whole(d.id)
  <2>1. /\ active' = [Failing(d, "error") EXCEPT !.chain = <<>>]
        /\ Send(acks \o <<Done(d.id, FALSE)>>)
        /\ states' = [states EXCEPT ![d.id] = "verifying"]
    BY <1>5 DEF Finish
  <2>2. active' \in Download /\ active'.id = d.id
    <3>1. <<>> \in Seq(Chunks) /\ Failing(d, "error") \in Download
      BY FailingType
    <3>2. QED
      BY <2>1, <3>1, FailingType DEF Download
  <2>3. QED
    BY <1>2, <2>1, <2>2, SendType DEF Status
<1>6. CASE /\ d.failed = "no" /\ d.received = Size[d.id]
           /\ ~(d.expected /\ d.hasher /\ d.hashed # Whole(d.id))
  <2>1. /\ active' = [d EXCEPT !.closing = TRUE]
        /\ Send(acks)
        /\ states' = [states EXCEPT ![d.id] = "verifying"]
    BY <1>6 DEF Finish
  <2>2. active' \in Download /\ active'.id = d.id
    BY <2>1 DEF Download
  <2>3. QED
    BY <2>1, <2>2, SendType DEF Status
<1>7. QED
  BY <1>3, <1>4, <1>5, <1>6

LEMMA RequestDownloadType ==
    ASSUME LineOK, NEW f \in Files, NEW from \in ResumeFrom,
           RequestDownload(f, from)
    PROVE  LineOK'
<1> DEFINE q == Append(queue, [id |-> f, from |-> from])
           st == [states EXCEPT ![f] = "queued"]
<1>1. q \in Seq(Queued) /\ st \in [Files -> Status]
  BY AppendProperties DEF LineOK, Queued, Status
<1>2. CASE active.id = NoFile
  BY <1>1, <1>2, TakeNextType DEF RequestDownload
<1>3. CASE active.id # NoFile
  <2>1. queue' = q /\ states' = st /\ active' = active
    BY <1>3 DEF RequestDownload
  <2>2. QED
    BY <1>1, <2>1 DEF LineOK, ClientOK
<1>4. QED
  BY <1>2, <1>3

LEMMA UserDownloadType ==
    ASSUME TypeInv, NEW f \in Files, UserDownload(f)
    PROVE  ClientInv' /\ ChannelTypeOK'
<1>1. NoResume \in ResumeFrom
  BY DEF NoResume, ResumeFrom, FileBytes, Folder
<1>2. LineOK'
  BY <1>1, RequestDownloadType DEF ClientInv, UserDownload, TypeInv
<1>3. QED
  BY <1>2
  DEF ClientInv, UserDownload, TypeInv, storageVars, channelVars, RecordsOK, ChannelTypeOK

LEMMA CancelQueuedType ==
    ASSUME TypeInv, NEW f \in Files, CancelQueued(f)
    PROVE  ClientInv' /\ ChannelTypeOK'
<1>1. queue' \in Seq(Queued)
  BY RemoveAtType DEF ClientInv, CancelQueued, TypeInv, LineOK
<1>2. states' \in [Files -> Status] /\ active' = active
  BY DEF ClientInv, CancelQueued, TypeInv, LineOK, Status
<1>3. LineOK'
  BY <1>1, <1>2 DEF ClientInv, TypeInv, LineOK, ClientOK
<1>4. RecordsOK'
  BY DropCheckpointType DEF ClientInv, CancelQueued, TypeInv
<1>5. QED
  BY <1>3, <1>4
  DEF ClientInv, CancelQueued, TypeInv, channelVars, ChannelTypeOK

LEMMA CancelActiveType ==
    ASSUME TypeInv, CancelActive
    PROVE  ClientInv' /\ ChannelTypeOK'
<1>1. active.id \in Files
  BY DEF ClientInv, CancelActive, TypeInv, LineOK, Download
<1>2. <<CancelMsg(active.id)>> \in Seq(ReceiverMsg)
  BY <1>1, MessageType
<1>3. /\ LineOK' /\ RecordsOK' /\ orphans' \in [Files -> Nat]
      /\ toServer' \in Seq(ReceiverMsg)
  BY <1>1, <1>2, FailActiveType DEF ClientInv, CancelActive, TypeInv
<1>4. QED
  BY <1>3 DEF ClientInv, CancelActive, TypeInv, ChannelTypeOK

LEMMA AbortStalledType ==
    ASSUME TypeInv, AbortStalled
    PROVE  ClientInv' /\ ChannelTypeOK'
<1>1. active.id \in Files
  BY DEF ClientInv, AbortStalled, TypeInv, LineOK, Download
<1>2. <<CancelMsg(active.id)>> \in Seq(ReceiverMsg)
  BY <1>1, MessageType
<1>3. /\ LineOK' /\ RecordsOK' /\ orphans' \in [Files -> Nat]
      /\ toServer' \in Seq(ReceiverMsg)
  BY <1>1, <1>2, FailActiveType DEF ClientInv, AbortStalled, TypeInv
<1>4. QED
  BY <1>3 DEF ClientInv, AbortStalled, TypeInv, ChannelTypeOK

\* The bytes of the write in flight.
LEMMA InFlightType ==
    ASSUME active \in Download, active.chain # <<>>, ClientOK
    PROVE  LET c == Head(active.chain)
           IN  /\ active.id \in Files
               /\ c.id \in Files /\ c.at \in Nat /\ c.len \in Nat
               /\ Bytes(c.id, c.at, c.at + c.len) \in FileBytes
               /\ Tail(active.chain) \in Seq(Chunks)
<1>1. active.id \in Files
  BY DEF Download, ClientOK
<1>2. active.chain \in Seq(Chunks)
  BY DEF Download
<1>3. Head(active.chain) \in Chunks /\ Tail(active.chain) \in Seq(Chunks)
  BY <1>2, HeadTailProperties
<1>4. QED
  BY <1>1, <1>3, BytesType DEF Chunks

LEMMA ReloadType ==
    ASSUME TypeInv, Reload
    PROVE  ClientInv' /\ ChannelTypeOK'
<1> DEFINE c == Head(active.chain)
           written == [disk EXCEPT ![active.id] =
                          @ \o Bytes(c.id, c.at, c.at + c.len)]
           Kept(d) == [f \in Files |-> IF saved[f].dir = "own" THEN d[f]
                                       ELSE <<>>]
<1>1. \A d \in [Files -> FileBytes] : Kept(d) \in [Files -> FileBytes]
  BY EmptySeq DEF FileBytes
<1>2. disk' \in [Files -> FileBytes]
  <2>1. CASE disk' = Kept(disk)
    BY <1>1, <2>1 DEF TypeInv, ClientInv
  <2>2. CASE active.chain # <<>> /\ disk' = Kept(written)
    <3>1. Bytes(c.id, c.at, c.at + c.len) \in FileBytes
      BY <2>2, InFlightType DEF TypeInv, ClientInv, LineOK
    <3>2. written \in [Files -> FileBytes]
      BY <3>1, ConcatProperties DEF TypeInv, ClientInv, FileBytes
    <3>3. QED
      BY <1>1, <2>2, <3>2
  <2>3. QED
    BY <2>1, <2>2 DEF Reload
<1>3. LineOK'
  <2>1. /\ states' \in [Files -> Status]
        /\ queue' \in Seq(Queued)
        /\ active' = NoDownload
    BY EmptySeq DEF Reload, Status
  <2>2. ClientOK'
    BY <2>1 DEF ClientOK, NoDownload, NewDownload
  <2>3. QED
    BY <2>1, <2>2, NoDownloadType DEF LineOK
<1>4. RecordsOK'
  <2>1. saved' \in [Files -> ResumeFrom]
    <3>1. \A f \in Files : [saved[f] EXCEPT !.dir = "own"] \in ResumeFrom
      BY DEF TypeInv, ClientInv, RecordsOK, ResumeFrom, Folder
    <3>2. QED
      BY <3>1 DEF Reload
  <2>2. QED
    BY <2>1 DEF Reload, RecordsOK
<1>5. /\ items' \in BOOLEAN /\ verified' \in [Files -> BOOLEAN]
      /\ orphans' \in [Files -> Nat] /\ late' = {}
  BY DEF Reload
<1>6. ClientInv'
  BY <1>2, <1>3, <1>4, <1>5 DEF ClientInv
<1>7. cOpen' \in BOOLEAN /\ toClient' \in Seq(SenderMsg)
  BY EmptySeq DEF Reload
<1>8. QED
  BY <1>6, <1>7 DEF Reload, TypeInv, ChannelTypeOK

LEMMA EvictType ==
    ASSUME TypeInv, Evict
    PROVE  ClientInv' /\ ChannelTypeOK'
<1>1. disk' \in [Files -> FileBytes]
  BY EmptySeq DEF Evict, FileBytes
<1>2. QED
  BY <1>1 DEF Evict, TypeInv, ClientInv, LineOK, ClientOK, RecordsOK,
              channelVars, ChannelTypeOK

LEMMA ClientCloseType ==
    ASSUME TypeInv, ClientClose
    PROVE  ClientInv' /\ ChannelTypeOK'
<1>1. active' \in Download /\ ClientOK'
  BY DEF ClientClose, TypeInv, ClientInv, LineOK, Download, ClientOK
<1>2. ClientInv'
  BY <1>1 DEF ClientClose, TypeInv, ClientInv, LineOK, RecordsOK, storageVars
<1>3. cOpen' \in BOOLEAN /\ toClient' \in Seq(SenderMsg)
  BY EmptySeq DEF ClientClose
<1>4. QED
  BY <1>2, <1>3 DEF ClientClose, TypeInv, ChannelTypeOK

-----------------------------------------------------------------------------
(* The client's message handlers. *)

\* What a handler must leave well typed.
HandlerOK ==
    LineOK /\ RecordsOK /\ orphans \in [Files -> Nat]
        /\ toServer \in Seq(ReceiverMsg)

LEMMA IgnoreType ==
    ASSUME TypeInv, Ignore
    PROVE  HandlerOK'
BY DEF TypeInv, ChannelTypeOK, ClientInv, HandlerOK, LineOK, RecordsOK,
       ClientOK, Ignore

LEMMA OnHelloType ==
    ASSUME TypeInv, OnHello
    PROVE  HandlerOK'
<1>1. CASE active.ready /\ active.failed = "no"
  <2>1. /\ active' = [active EXCEPT !.accepting = FALSE]
        /\ Send(<<Get(active.id, active.received)>>)
        /\ UNCHANGED <<states, queue, orphans, opfsDirs, saved>>
    BY <1>1 DEF OnHello, resumeSaved
  <2>2. active.id \in Files /\ active.received \in Nat
    BY <1>1 DEF TypeInv, ClientInv, LineOK, ClientOK, Download
  <2>3. <<Get(active.id, active.received)>> \in Seq(ReceiverMsg)
    BY <2>2, MessageType, Singleton
  <2>4. active' \in Download /\ ClientOK'
    BY <2>1 DEF TypeInv, ClientInv, LineOK, Download, ClientOK
  <2>5. QED
    BY <2>1, <2>3, <2>4, SendType
    DEF TypeInv, ClientInv, HandlerOK, LineOK, RecordsOK
<1>2. CASE /\ ~(active.ready /\ active.failed = "no")
           /\ ~items /\ \E f \in Files : saved[f].offset > 0
  <2>1. /\ \E f \in Files : RequestDownload(f, saved[f])
        /\ UNCHANGED <<orphans, opfsDirs, saved, toServer>>
    BY <1>2 DEF OnHello, resumeSaved
  <2>2. \A f \in Files : saved[f] \in ResumeFrom
    BY DEF TypeInv, ClientInv, RecordsOK
  <2>3. LineOK'
    BY <2>1, <2>2, RequestDownloadType DEF TypeInv, ClientInv
  <2>4. QED
    BY <2>1, <2>3 DEF TypeInv, ChannelTypeOK, ClientInv, HandlerOK, RecordsOK
<1>3. CASE Ignore
  BY <1>3, IgnoreType
<1>4. QED
  BY <1>1, <1>2, <1>3 DEF OnHello, resumeSaved

LEMMA OnStartType ==
    ASSUME TypeInv, NEW m \in SenderMsg, m.t = "start", OnStart(m)
    PROVE  HandlerOK'
<1>1. CASE m.id # active.id
  BY <1>1, IgnoreType DEF OnStart
<1>2. CASE m.id = active.id
  <2> DEFINE msgs == IF m.offset = active.received THEN <<>>
                     ELSE <<Get(active.id, active.received)>>
  <2>1. /\ active' = [active EXCEPT !.accepting = m.offset = active.received]
        /\ Send(msgs)
        /\ UNCHANGED <<states, queue, orphans, opfsDirs, saved>>
    BY <1>2 DEF OnStart
  <2>2. active.id \in Files /\ active.received \in Nat
    BY <1>2 DEF TypeInv, ClientInv, LineOK, Download, SenderMsg, Chunks
  <2>3. msgs \in Seq(ReceiverMsg)
    BY <2>2, MessageType, Singleton, EmptySeq
  <2>4. active' \in Download /\ active'.id = active.id
    BY <2>1 DEF TypeInv, ClientInv, LineOK, Download
  <2>5. ClientOK'
    BY <2>2, <2>4 DEF ClientOK
  <2>6. QED
    BY <2>1, <2>3, <2>4, <2>5, SendType
    DEF TypeInv, ClientInv, HandlerOK, LineOK, RecordsOK
<1>3. QED
  BY <1>1, <1>2

LEMMA OnChunkType ==
    ASSUME TypeInv, NEW m \in SenderMsg, m.t = "chunk", OnChunk(m)
    PROVE  HandlerOK'
<1>1. m \in Chunks
  BY DEF SenderMsg
<1>2. CASE ~active.accepting \/ active.failed # "no"
  BY <1>2, IgnoreType DEF OnChunk
<1>3. CASE active.accepting /\ active.failed = "no"
  <2>1. active.id \in Files
    BY <1>3 DEF TypeInv, ClientInv, LineOK, ClientOK, Download
  <2>2. <<CancelMsg(active.id)>> \in Seq(ReceiverMsg) /\ <<>> \in Seq(ReceiverMsg)
    BY <2>1, MessageType, Singleton, EmptySeq
  <2>3. CASE \/ FailActive("error", <<>>)
             \/ FailActive("error", <<CancelMsg(active.id)>>)
    BY <2>1, <2>2, <2>3, FailActiveType DEF TypeInv, ClientInv, HandlerOK
  <2>4. CASE /\ active' = [active EXCEPT !.received = @ + m.len,
                                         !.chain = Append(@, m)]
             /\ UNCHANGED <<states, queue, orphans, opfsDirs, saved, toServer>>
    <3>1. active.received + m.len \in Nat /\ Append(active.chain, m) \in Seq(Chunks)
      BY <1>1, AppendProperties
      DEF TypeInv, ClientInv, LineOK, Download, Chunks
    <3>2. active' \in Download /\ active'.id = active.id
      BY <2>4, <3>1 DEF TypeInv, ClientInv, LineOK, Download
    <3>3. ClientOK'
      BY <2>1, <3>2 DEF ClientOK
    <3>4. QED
      BY <2>4, <3>2, <3>3
      DEF TypeInv, ChannelTypeOK, ClientInv, HandlerOK, LineOK, RecordsOK
  <2>5. QED
    BY <1>3, <2>3, <2>4 DEF OnChunk
<1>4. QED
  BY <1>2, <1>3 DEF TypeInv, ClientInv, LineOK, Download

LEMMA OnEndType ==
    ASSUME TypeInv, NEW m \in SenderMsg, m.t = "end", OnEnd(m)
    PROVE  HandlerOK'
<1> DEFINE d == [active EXCEPT !.finishing = TRUE, !.expected = m.sha256]
<1>1. CASE m.id # active.id \/ active.finishing
  BY <1>1, IgnoreType DEF OnEnd
<1>2. CASE m.id = active.id /\ ~active.finishing
  <2>1. active.id \in Files
    BY <1>2 DEF SenderMsg, Chunks
  <2>2. CASE FailActive("error", <<Done(m.id, FALSE)>>)
    <3>1. <<Done(m.id, FALSE)>> \in Seq(ReceiverMsg)
      BY <1>2, <2>1, MessageType, Singleton
    <3>2. QED
      BY <2>1, <2>2, <3>1, FailActiveType DEF TypeInv, ClientInv, HandlerOK
  <2>3. CASE /\ \/ d.chain = <<>> /\ Finish(d, <<>>)
                \/ /\ active' = [d EXCEPT !.barrier = Len(d.chain)]
                   /\ UNCHANGED <<states, toServer>>
             /\ UNCHANGED <<queue, orphans, opfsDirs, saved>>
    <3>1. d \in Download /\ d.id = active.id
      <4>1. m.sha256 \in Sha256
        BY DEF SenderMsg, Chunks
      <4>2. QED
        BY <4>1 DEF TypeInv, ClientInv, LineOK, Download
    <3>2. /\ active' \in Download /\ active'.id = d.id
          /\ states' \in [Files -> Status]
          /\ toServer' \in Seq(ReceiverMsg)
      <4>1. CASE Finish(d, <<>>)
        BY <2>1, <3>1, <4>1, FinishType, EmptySeq DEF TypeInv, ClientInv, LineOK
      <4>2. CASE /\ active' = [d EXCEPT !.barrier = Len(d.chain)]
                 /\ UNCHANGED <<states, toServer>>
        <5>1. Len(d.chain) \in Nat
          BY <3>1, LenProperties DEF Download
        <5>2. active' \in Download /\ active'.id = d.id
          BY <3>1, <4>2, <5>1 DEF Download
        <5>3. QED
          BY <4>2, <5>2 DEF TypeInv, ClientInv, LineOK, ChannelTypeOK
      <4>3. QED
        BY <2>3, <4>1, <4>2
    <3>3. ClientOK'
      BY <2>1, <3>1, <3>2 DEF ClientOK
    <3>4. QED
      BY <2>3, <3>2, <3>3 DEF TypeInv, ClientInv, HandlerOK, LineOK, RecordsOK
  <2>4. QED
    BY <1>2, <2>2, <2>3 DEF OnEnd
<1>3. QED
  BY <1>1, <1>2

LEMMA OnErrorType ==
    ASSUME TypeInv, NEW m \in SenderMsg, m.t = "error", OnError(m)
    PROVE  HandlerOK'
<1>1. CASE m.id # active.id
  BY <1>1, IgnoreType DEF OnError
<1>2. CASE m.id = active.id
  <2>1. active.id \in Files
    BY <1>2 DEF SenderMsg, Chunks
  <2>2. FailActive("error", <<>>)
    BY <1>2 DEF OnError
  <2>3. QED
    BY <2>1, <2>2, FailActiveType, EmptySeq DEF TypeInv, ClientInv, HandlerOK
<1>3. QED
  BY <1>1, <1>2

LEMMA OnClientMessageType ==
    ASSUME TypeInv, OnClientMessage
    PROVE  ClientInv' /\ ChannelTypeOK'
<1> DEFINE m == Head(toClient)
<1>1. m \in SenderMsg /\ toClient' \in Seq(SenderMsg)
  BY HeadTailProperties DEF TypeInv, ChannelTypeOK, OnClientMessage
<1>2. HandlerOK'
  BY <1>1, OnHelloType, OnStartType, OnChunkType, OnEndType, OnErrorType
  DEF OnClientMessage
<1>3. items' \in BOOLEAN
  BY DEF OnClientMessage
<1>4. QED
  BY <1>1, <1>2, <1>3
  DEF OnClientMessage, TypeInv, ChannelTypeOK, ClientInv, HandlerOK

-----------------------------------------------------------------------------
(* The answers of the sink. *)

LEMMA SinkOpenedType ==
    ASSUME TypeInv, NEW wasm \in BOOLEAN, SinkOpened(wasm)
    PROVE  ClientInv' /\ ChannelTypeOK'
<1> DEFINE f == active.id
           startAt == IF Len(disk[f]) >= active.received
                      THEN active.received ELSE 0
           resumed == startAt > 0
           d == [active EXCEPT
                    !.ready = TRUE,
                    !.received = startAt, !.written = startAt,
                    !.lastAck = startAt,
                    !.hasher = wasm /\ (resumed => @),
                    !.hashed = IF resumed THEN @ ELSE <<>>]
<1>1. f \in Files /\ active \in Download
  BY DEF SinkOpened, TypeInv, ClientInv, LineOK, Download
<1>2. disk[f] \in FileBytes /\ Len(disk[f]) \in Nat
  BY <1>1, LenProperties DEF TypeInv, ClientInv, FileBytes
<1>3. startAt \in Nat /\ startAt <= Len(disk[f])
  BY <1>1, <1>2 DEF Download
<1>4. d \in Download /\ d.id = f
  <2>1. <<>> \in FileBytes
    BY EmptySeq DEF FileBytes
  <2>2. (wasm /\ (resumed => active.hasher)) \in BOOLEAN
    BY <1>1 DEF Download
  <2>3. QED
    BY <1>1, <1>3, <2>1, <2>2 DEF Download
<1>5. Truncated(f, startAt) \in FileBytes
  BY <1>2, <1>3, SubSeqProperties, ElementOfSeq DEF Truncated, FileBytes
<1>6. /\ active' = d
      /\ disk' = [disk EXCEPT ![f] = Truncated(f, startAt)]
      /\ opfsDirs' = [opfsDirs EXCEPT ![f] = "own"]
      /\ Send(<<Get(f, startAt)>>)
      /\ UNCHANGED <<items, states, verified, queue, orphans, late, saved,
                     sOpen, cOpen, toClient>>
  BY DEF SinkOpened
<1>7. ClientOK'
  BY <1>1, <1>4, <1>6 DEF ClientOK
<1>8. ClientInv'
  <2>1. LineOK'
    BY <1>4, <1>6, <1>7 DEF TypeInv, ClientInv, LineOK
  <2>2. RecordsOK'
    BY <1>6 DEF TypeInv, ClientInv, RecordsOK, Folder
  <2>3. disk' \in [Files -> FileBytes]
    BY <1>5, <1>6 DEF TypeInv, ClientInv
  <2>4. QED
    BY <1>6, <2>1, <2>2, <2>3 DEF TypeInv, ClientInv
<1>9. toServer' \in Seq(ReceiverMsg)
  <2>1. <<Get(f, startAt)>> \in Seq(ReceiverMsg)
    BY <1>1, <1>3, MessageType, Singleton
  <2>2. QED
    BY <1>6, <2>1, SendType DEF TypeInv
<1>10. QED
  BY <1>6, <1>8, <1>9 DEF TypeInv, ChannelTypeOK

LEMMA SinkOpenFailsType ==
    ASSUME TypeInv, SinkOpenFails
    PROVE  ClientInv' /\ ChannelTypeOK'
<1>1. LineOK' /\ RecordsOK'
  BY EndActiveType DEF SinkOpenFails, TypeInv, ClientInv, Status
<1>2. QED
  BY <1>1 DEF SinkOpenFails, TypeInv, ClientInv, channelVars, ChannelTypeOK

LEMMA OrphanOpenedType ==
    ASSUME TypeInv, NEW f \in Files, OrphanOpened(f)
    PROVE  ClientInv' /\ ChannelTypeOK'
<1>1. orphans' \in [Files -> Nat]
  BY DEF OrphanOpened, TypeInv, ClientInv
<1>2. opfsDirs' \in [Files -> Folder \cup {"none"}]
  BY DEF OrphanOpened, TypeInv, ClientInv, RecordsOK, Folder
<1>3. QED
  BY <1>1, <1>2
  DEF OrphanOpened, TypeInv, ClientInv, LineOK, ClientOK, RecordsOK,
      channelVars, ChannelTypeOK

LEMMA WriteDoneType ==
    ASSUME TypeInv, WriteDone
    PROVE  ClientInv' /\ ChannelTypeOK'
<1> DEFINE c == Head(active.chain)
           f == active.id
           n == active.written + c.len
           due == n - active.lastAck >= ACK_EVERY \/ n = Size[f]
           bytes == Bytes(c.id, c.at, c.at + c.len)
           d == [active EXCEPT
                    !.written = n,
                    !.lastAck = IF due THEN n ELSE @,
                    !.chain = IF active.failed = "no" THEN Tail(@) ELSE <<>>,
                    !.hashed = IF active.hasher THEN @ \o bytes ELSE @,
                    !.barrier = IF @ > 0 THEN @ - 1 ELSE 0]
           acks == IF due THEN <<Ack(f, n)>> ELSE <<>>
<1>1. /\ f \in Files /\ c.len \in Nat /\ bytes \in FileBytes
      /\ Tail(active.chain) \in Seq(Chunks)
  BY InFlightType DEF WriteDone, TypeInv, ClientInv, LineOK
<1>2. active \in Download
  BY DEF TypeInv, ClientInv, LineOK
<1>3. n \in Nat /\ active.hashed \o bytes \in FileBytes
  BY <1>1, <1>2, ConcatProperties DEF Download, FileBytes
<1>4. d \in Download /\ d.id = f
  <2>1. <<>> \in Seq(Chunks)
    OBVIOUS
  <2>2. (IF active.barrier > 0 THEN active.barrier - 1 ELSE 0) \in Nat
    BY <1>2 DEF Download
  <2>3. (IF active.failed = "no" THEN Tail(active.chain) ELSE <<>>) \in Seq(Chunks)
    BY <1>1, <2>1
  <2>4. QED
    BY <1>2, <1>3, <2>2, <2>3 DEF Download
<1>5. acks \in Seq(ReceiverMsg)
  BY <1>1, <1>3, MessageType, Singleton, EmptySeq
<1>6. /\ active' \in Download /\ active'.id = f
      /\ states' \in [Files -> Status]
      /\ toServer' \in Seq(ReceiverMsg)
  <2>1. CASE active.barrier = 1
    <3>1. Finish(d, acks)
      BY <2>1 DEF WriteDone
    <3>2. QED
      BY <1>1, <1>4, <1>5, <3>1, FinishType DEF TypeInv, ClientInv, LineOK
  <2>2. CASE active.barrier # 1
    <3>1. active' = d /\ Send(acks) /\ states' = states
      BY <2>2 DEF WriteDone
    <3>2. QED
      BY <1>4, <1>5, <3>1, SendType DEF TypeInv, ClientInv, LineOK
  <2>3. QED
    BY <2>1, <2>2
<1>7. disk' \in [Files -> FileBytes]
  <2>1. disk' = IF active.removed THEN disk
                ELSE [disk EXCEPT ![f] = @ \o bytes]
    BY DEF WriteDone
  <2>2. disk[f] \o bytes \in FileBytes
    BY <1>1, ConcatProperties DEF TypeInv, ClientInv, FileBytes
  <2>3. QED
    BY <1>1, <2>1, <2>2 DEF TypeInv, ClientInv
<1>8. RecordsOK'
  <2>1. \/ UNCHANGED saved
        \/ /\ opfsDirs[f] # "none"
           /\ saved' = [saved EXCEPT ![f] = Checkpoint(d, opfsDirs[f])]
    BY DEF WriteDone
  <2>2. opfsDirs[f] # "none" => Checkpoint(d, opfsDirs[f]) \in ResumeFrom
    <3>1. d.written \in Nat /\ d.hasher \in BOOLEAN /\ d.hashed \in FileBytes
      BY <1>4 DEF Download
    <3>2. opfsDirs[f] # "none" => opfsDirs[f] \in Folder
      BY <1>1 DEF TypeInv, ClientInv, RecordsOK
    <3>3. QED
      BY <3>1, <3>2 DEF Checkpoint, ResumeFrom
  <2>3. QED
    BY <2>1, <2>2 DEF WriteDone, TypeInv, ClientInv, RecordsOK
<1>9. LineOK'
  <2>1. ClientOK'
    BY <1>1, <1>6 DEF ClientOK
  <2>2. QED
    BY <1>6, <2>1 DEF WriteDone, TypeInv, ClientInv, LineOK
<1>10. QED
  BY <1>6, <1>7, <1>8, <1>9 DEF WriteDone, TypeInv, ClientInv, ChannelTypeOK

LEMMA WriteFailsType ==
    ASSUME TypeInv, WriteFails
    PROVE  ClientInv' /\ ChannelTypeOK'
<1>1. active.id \in Files
  BY InFlightType DEF WriteFails, TypeInv, ClientInv, LineOK
<1>2. toServer' \in Seq(ReceiverMsg)
  BY <1>1, MessageType, Singleton, SendType DEF WriteFails, TypeInv
<1>3. active' \in Download /\ active'.id = active.id
  <2>1. Failing(active, "error") \in Download
    BY FailingType DEF TypeInv, ClientInv, LineOK
  <2>2. active' = [Failing(active, "error") EXCEPT !.chain = <<>>, !.barrier = 0]
    BY DEF WriteFails
  <2>3. <<>> \in Seq(Chunks) /\ Failing(active, "error").id = active.id
    BY FailingType DEF TypeInv, ClientInv, LineOK
  <2>4. QED
    BY <2>1, <2>2, <2>3 DEF Download
<1>4. ClientOK'
  BY <1>1, <1>3 DEF ClientOK
<1>5. QED
  BY <1>2, <1>3, <1>4
  DEF WriteFails, TypeInv, ClientInv, LineOK, RecordsOK, storageVars,
      ChannelTypeOK

LEMMA CloseDoneType ==
    ASSUME TypeInv, CloseDone
    PROVE  ClientInv' /\ ChannelTypeOK'
<1>1. active.id \in Files /\ active \in Download
  BY DEF CloseDone, TypeInv, ClientInv, LineOK, ClientOK, Download
<1>2. toServer' \in Seq(ReceiverMsg)
  <2>1. <<Done(active.id, TRUE)>> \in Seq(ReceiverMsg)
    BY <1>1, MessageType, Singleton
  <2>2. QED
    BY <2>1, SendType DEF CloseDone, TypeInv
<1>3. LineOK' /\ RecordsOK'
  BY EndActiveType DEF CloseDone, TypeInv, ClientInv, Status
<1>4. verified' \in [Files -> BOOLEAN]
  <2>1. (active.expected /\ active.hasher) \in BOOLEAN
    BY <1>1 DEF Download, Sha256
  <2>2. QED
    BY <2>1 DEF CloseDone, TypeInv, ClientInv
<1>5. late' \in SUBSET [id : Files, status : {"error", "cancelled"},
                        refused : BOOLEAN]
  <2> DEFINE aborts == IF active.failed # "no" THEN {active.failed}
                       ELSE IF active.chain # <<>> THEN {"error"}
                       ELSE {}
  <2>1. aborts \subseteq {"error", "cancelled"}
    BY <1>1 DEF Download
  <2>2. late' = late \cup {[id |-> active.id, status |-> s,
                             refused |-> active.chain # <<>>] : s \in aborts}
    BY DEF CloseDone
  <2>3. QED
    <3>1. \A s \in aborts : [id |-> active.id, status |-> s,
                              refused |-> active.chain # <<>>]
                \in [id : Files, status : {"error", "cancelled"},
                     refused : BOOLEAN]
      BY <1>1, <2>1
    <3>2. QED
      BY <2>2, <3>1 DEF TypeInv, ClientInv
<1>6. disk' \in [Files -> FileBytes]
  <2>1. \/ disk' = disk
        \/ disk' = [disk EXCEPT ![active.id] = <<>>]
    BY DEF CloseDone
  <2>2. <<>> \in FileBytes
    BY EmptySeq DEF FileBytes
  <2>3. QED
    BY <2>1, <2>2 DEF TypeInv, ClientInv
<1>7. QED
  BY <1>2, <1>3, <1>4, <1>5, <1>6
  DEF CloseDone, TypeInv, ClientInv, ChannelTypeOK

LEMMA CloseFailsType ==
    ASSUME TypeInv, CloseFails
    PROVE  ClientInv' /\ ChannelTypeOK'
<1> DEFINE msgs == <<Done(active.id, FALSE)>> \o
                   IF active.chain = <<>> THEN <<>>
                   ELSE <<CancelMsg(active.id)>>
<1>1. active.id \in Files
  BY DEF CloseFails, TypeInv, ClientInv, LineOK, ClientOK, Download
<1>2. toServer' \in Seq(ReceiverMsg)
  <2>1. /\ <<Done(active.id, FALSE)>> \in Seq(ReceiverMsg)
        /\ <<CancelMsg(active.id)>> \in Seq(ReceiverMsg)
        /\ <<>> \in Seq(ReceiverMsg)
    BY <1>1, MessageType, Singleton, EmptySeq
  <2>2. msgs \in Seq(ReceiverMsg)
    BY <2>1, ConcatProperties
  <2>3. QED
    BY <2>2, SendType DEF CloseFails, TypeInv
<1>3. active' \in Download /\ active'.id = active.id
  <2>1. Failing(active, "error") \in Download
    BY FailingType DEF TypeInv, ClientInv, LineOK
  <2>2. active' = [Failing(active, "error") EXCEPT !.closing = FALSE,
                                                   !.chain = <<>>]
    BY DEF CloseFails
  <2>3. <<>> \in Seq(Chunks) /\ Failing(active, "error").id = active.id
    BY FailingType DEF TypeInv, ClientInv, LineOK
  <2>4. QED
    BY <2>1, <2>2, <2>3 DEF Download
<1>4. ClientOK'
  BY <1>1, <1>3 DEF ClientOK
<1>5. QED
  BY <1>2, <1>3, <1>4
  DEF CloseFails, TypeInv, ClientInv, LineOK, RecordsOK, storageVars,
      ChannelTypeOK

LEMMA AbortDoneType ==
    ASSUME TypeInv, AbortDone
    PROVE  ClientInv' /\ ChannelTypeOK'
<1>1. active.failed \in Status
  BY DEF AbortDone, TypeInv, ClientInv, LineOK, Download, Status
<1>2. LineOK' /\ RecordsOK'
  BY <1>1, EndActiveType DEF AbortDone, TypeInv, ClientInv
<1>3. disk' \in [Files -> FileBytes]
  BY EmptySeq DEF AbortDone, TypeInv, ClientInv, FileBytes
<1>4. QED
  BY <1>2, <1>3
  DEF AbortDone, TypeInv, ClientInv, channelVars, ChannelTypeOK

LEMMA AbortRemovesType ==
    ASSUME TypeInv, AbortRemoves
    PROVE  ClientInv' /\ ChannelTypeOK'
<1>1. LineOK'
  BY DEF AbortRemoves, TypeInv, ClientInv, LineOK, ClientOK, Download
<1>2. disk' \in [Files -> FileBytes]
  BY EmptySeq DEF AbortRemoves, TypeInv, ClientInv, FileBytes
<1>3. QED
  BY <1>1, <1>2
  DEF AbortRemoves, TypeInv, ClientInv, RecordsOK, channelVars, ChannelTypeOK

LEMMA LateWriteFailsType ==
    ASSUME TypeInv, NEW l \in late, LateWriteFails(l)
    PROVE  ClientInv' /\ ChannelTypeOK'
<1>1. l \in [id : Files, status : {"error", "cancelled"}, refused : BOOLEAN]
  BY DEF TypeInv, ClientInv
<1>2. toServer' \in Seq(ReceiverMsg)
  BY <1>1, MessageType, Singleton, SendType DEF LateWriteFails, TypeInv
<1>3. late' \in SUBSET [id : Files, status : {"error", "cancelled"},
                        refused : BOOLEAN]
  BY <1>1 DEF LateWriteFails, TypeInv, ClientInv
<1>4. QED
  BY <1>2, <1>3
  DEF LateWriteFails, TypeInv, ClientInv, LineOK, ClientOK, RecordsOK,
      storageVars, ChannelTypeOK

LEMMA LateAbortDoneType ==
    ASSUME TypeInv, NEW l \in late, LateAbortDone(l)
    PROVE  ClientInv' /\ ChannelTypeOK'
<1>1. l \in [id : Files, status : {"error", "cancelled"}, refused : BOOLEAN]
  BY DEF TypeInv, ClientInv
<1>2. states' \in [Files -> Status]
  BY <1>1 DEF LateAbortDone, TypeInv, ClientInv, LineOK, Status
<1>3. LineOK'
  BY <1>2 DEF LateAbortDone, TypeInv, ClientInv, LineOK, ClientOK
<1>4. RecordsOK'
  BY DropCheckpointType DEF LateAbortDone, TypeInv, ClientInv
<1>5. QED
  BY <1>3, <1>4
  DEF LateAbortDone, TypeInv, ClientInv, channelVars, ChannelTypeOK

-----------------------------------------------------------------------------
(* Every step. *)

LEMMA InitType == Init => TypeInv
<1> SUFFICES ASSUME Init PROVE TypeInv
  OBVIOUS
<1>1. ChannelTypeOK
  BY EmptySeq DEF Init, ChannelTypeOK
<1>2. ServerInv
  BY DEF Init, IdleServer, ServerInv, ServerTypeOK, ServerOK
<1>3. ClientInv
  <2>1. LineOK
    <3>1. ClientOK
      BY DEF Init, ClientOK, NoDownload, NewDownload
    <3>2. queue \in Seq(Queued) /\ states \in [Files -> Status]
      BY EmptySeq DEF Init, Status
    <3>3. QED
      BY <3>1, <3>2, NoDownloadType DEF Init, LineOK
  <2>2. RecordsOK
    <3>1. NoResume \in ResumeFrom
      BY DEF NoResume, ResumeFrom, FileBytes, Folder
    <3>2. QED
      BY <3>1 DEF Init, RecordsOK
  <2>3. disk \in [Files -> FileBytes]
    BY EmptySeq DEF Init, FileBytes
  <2>4. QED
    BY <2>1, <2>2, <2>3 DEF Init, ClientInv
<1>4. QED
  BY <1>1, <1>2, <1>3 DEF Init, TypeInv

LEMMA SpendType ==
    ASSUME TypeInv, NEW b \in Budget, Spend(b)
    PROVE  spent' \in [Budget -> Nat]
BY DEF Spend, TypeInv

LEMMA ServerKept ==
    ASSUME ServerInv, UNCHANGED serverVars
    PROVE  ServerInv'
BY DEF ServerInv, ServerTypeOK, ServerOK, serverVars

LEMMA ClientKept ==
    ASSUME ClientInv, UNCHANGED clientVars
    PROVE  ClientInv'
BY DEF ClientInv, LineOK, ClientOK, RecordsOK, clientVars, storageVars

LEMMA NextType == TypeInv /\ [Next]_vars => TypeInv'
<1> SUFFICES ASSUME TypeInv, [Next]_vars PROVE TypeInv'
  OBVIOUS
<1>0. ServerInv /\ ClientInv
  BY DEF TypeInv
<1>1. CASE Connect
  <2>1. ServerInv'
    BY <1>1 DEF Connect, attach, IdleServer, ServerInv, ServerTypeOK, ServerOK
  <2>2. ClientInv'
    BY <1>0, <1>1, ClientKept DEF Connect, attach
  <2>3. ChannelTypeOK'
    <3>1. Hello \in SenderMsg
      BY DEF Hello, SenderMsg
    <3>2. toClient' \in Seq(SenderMsg) /\ toServer' \in Seq(ReceiverMsg)
      BY <1>1, <3>1, Singleton, EmptySeq DEF Connect, attach
    <3>3. QED
      BY <1>1, <3>2 DEF Connect, attach, ChannelTypeOK
  <2>4. spent' \in [Budget -> Nat]
    BY <1>1, SpendType DEF Connect, attach, Budget
  <2>5. QED
    BY <2>1, <2>2, <2>3, <2>4 DEF TypeInv
<1>2. CASE ServerStep /\ UNCHANGED <<clientVars, spent>>
  <2>1. ServerInv' /\ ChannelTypeOK'
    BY <1>2, OnServerMessageType, BlockReadType, SendChunkType, HashReadyType
    DEF ServerStep, Sha256
  <2>2. QED
    BY <1>0, <1>2, <2>1, ClientKept DEF TypeInv
<1>3. CASE ClientStep /\ UNCHANGED <<serverVars, spent>>
  <2>1. Wasm \subseteq BOOLEAN
    OBVIOUS
  <2>2. ClientInv' /\ ChannelTypeOK'
    BY <1>3, <2>1, OnClientMessageType, SinkOpenedType, OrphanOpenedType,
       WriteDoneType, WriteFailsType, CloseDoneType, AbortRemovesType,
       AbortDoneType, LateWriteFailsType, LateAbortDoneType
    DEF ClientStep
  <2>3. QED
    BY <1>0, <1>3, <2>2, ServerKept DEF TypeInv
<1>4. CASE Spend("faults") /\ Fault
  <2>1. spent' \in [Budget -> Nat]
    BY <1>4, SpendType DEF Budget
  <2>2. CASE (HashReady(FALSE) \/ ReadFails) /\ UNCHANGED clientVars
    <3>1. ServerInv' /\ ChannelTypeOK'
      BY <2>2, HashReadyType, ReadFailsType DEF Sha256
    <3>2. QED
      BY <1>0, <2>1, <2>2, <3>1, ClientKept DEF TypeInv
  <2>3. CASE /\ SinkOpenFails \/ WriteFails \/ CloseFails
             /\ UNCHANGED serverVars
    <3>1. ClientInv' /\ ChannelTypeOK'
      BY <2>3, SinkOpenFailsType, WriteFailsType, CloseFailsType
    <3>2. QED
      BY <1>0, <2>1, <2>3, <3>1, ServerKept DEF TypeInv
  <2>4. QED
    BY <1>4, <2>2, <2>3 DEF Fault
<1>5. CASE User /\ UNCHANGED serverVars
  <2>1. spent' \in [Budget -> Nat]
    BY <1>5, SpendType DEF User, Budget
  <2>2. ClientInv' /\ ChannelTypeOK'
    BY <1>5, UserDownloadType, CancelActiveType, CancelQueuedType,
       AbortStalledType, ReloadType, EvictType
    DEF User
  <2>3. QED
    BY <1>0, <1>5, <2>1, <2>2, ServerKept DEF TypeInv
<1>6. CASE Break /\ UNCHANGED spent
  <2>1. CASE ServerClose /\ UNCHANGED clientVars
    BY <1>0, <1>6, <2>1, ServerCloseType, ClientKept DEF TypeInv
  <2>2. CASE ClientClose /\ UNCHANGED serverVars
    BY <1>0, <1>6, <2>2, ClientCloseType, ServerKept DEF TypeInv
  <2>3. QED
    BY <1>6, <2>1, <2>2 DEF Break
<1>7. CASE UNCHANGED vars
  BY <1>0, <1>7, ServerKept, ClientKept DEF vars, TypeInv, channelVars, ChannelTypeOK
<1>8. QED
  BY <1>1, <1>2, <1>3, <1>4, <1>5, <1>6, <1>7 DEF Next

LEMMA TypeInvAlways == Spec => []TypeInv
BY InitType, NextType, PTL DEF Spec

\* Every message on the channel, every field of the two state machines and
\* everything kept for a reload has its type, however the steps interleave:
\* no offset becomes negative, and no message names a file that is not shared.
THEOREM TypeCorrect == Spec => []TypeOK
<1>1. TypeInv => TypeOK
  BY DEF TypeInv, TypeOK, ServerInv, ClientInv, ClientTypeOK, LineOK, RecordsOK,
         Queued, LateAbort
<1>2. QED
  BY <1>1, TypeInvAlways, PTL

-----------------------------------------------------------------------------
(* Only a download that failed loses its folder while it is active.        *)

RemovedOK == active.removed => active.failed # "no"

LEMMA TakeNextRemoved ==
    ASSUME NEW q \in Seq(Queued), NEW st, TakeNext(q, st)
    PROVE  ~active'.removed
BY DEF TakeNext, NewDownload, NoDownload

LEMMA EndActiveRemoved ==
    ASSUME TypeInv, NEW status, EndActive(status)
    PROVE  RemovedOK'
BY TakeNextRemoved DEF EndActive, RemovedOK, TypeInv, ClientInv, LineOK

LEMMA FailingRemoved ==
    ASSUME NEW d \in Download, d.removed => d.failed # "no",
           NEW status \in {"error", "cancelled"}
    PROVE  Failing(d, status).failed # "no"
BY DEF Failing, Download

LEMMA FailActiveRemoved ==
    ASSUME TypeInv, RemovedOK, NEW status \in {"error", "cancelled"}, NEW msgs,
           FailActive(status, msgs)
    PROVE  RemovedOK'
BY FailingRemoved, EndActiveRemoved
DEF FailActive, RemovedOK, TypeInv, ClientInv, LineOK

LEMMA FinishRemoved ==
    ASSUME NEW d \in Download, d.removed => d.failed # "no", NEW acks,
           Finish(d, acks)
    PROVE  RemovedOK'
<1>1. CASE active' = [Failing(d, "error") EXCEPT !.chain = <<>>]
  BY <1>1, FailingRemoved DEF RemovedOK, Failing, Download
<1>2. CASE \/ active' = d
           \/ active' = [d EXCEPT !.finishing = FALSE, !.accepting = FALSE]
           \/ active' = [d EXCEPT !.closing = TRUE]
  BY <1>2 DEF RemovedOK, Download
<1>3. QED
  BY <1>1, <1>2 DEF Finish

LEMMA RequestDownloadRemoved ==
    ASSUME TypeInv, RemovedOK, NEW f \in Files, NEW from \in ResumeFrom,
           RequestDownload(f, from)
    PROVE  RemovedOK'
<1> DEFINE q == Append(queue, [id |-> f, from |-> from])
           st == [states EXCEPT ![f] = "queued"]
<1>1. q \in Seq(Queued)
  BY AppendProperties DEF TypeInv, ClientInv, LineOK, Queued
<1>2. CASE TakeNext(q, st)
  BY <1>1, <1>2, TakeNextRemoved DEF RemovedOK
<1>3. CASE UNCHANGED active
  BY <1>3 DEF RemovedOK
<1>4. QED
  BY <1>2, <1>3 DEF RequestDownload

LEMMA OnMessageRemoved ==
    ASSUME TypeInv, RemovedOK, OnClientMessage
    PROVE  RemovedOK'
<1> DEFINE m == Head(toClient)
<1>1. active \in Download /\ saved \in [Files -> ResumeFrom]
  BY DEF TypeInv, ClientInv, LineOK, RecordsOK
<1>2. CASE Ignore
  BY <1>2 DEF Ignore, RemovedOK
<1>3. CASE OnHello
  <2>1. CASE active' = [active EXCEPT !.accepting = FALSE]
    BY <1>1, <2>1 DEF RemovedOK, Download
  <2>2. CASE resumeSaved
    BY <1>1, <2>2, RequestDownloadRemoved DEF resumeSaved
  <2>3. QED
    BY <1>2, <1>3, <2>1, <2>2 DEF OnHello
<1>4. CASE OnStart(m)
  BY <1>1, <1>2, <1>4 DEF OnStart, RemovedOK, Download
<1>5. CASE OnChunk(m)
  <2>1. CASE \E msgs : FailActive("error", msgs)
    BY <2>1, FailActiveRemoved
  <2>2. CASE active' = [active EXCEPT !.received = @ + m.len,
                                      !.chain = Append(@, m)]
    BY <1>1, <2>2 DEF RemovedOK, Download
  <2>3. QED
    BY <1>2, <1>5, <2>1, <2>2 DEF OnChunk
<1>6. CASE m.t = "end" /\ OnEnd(m)
  <2> DEFINE d == [active EXCEPT !.finishing = TRUE, !.expected = m.sha256]
  <2>1. CASE \E msgs : FailActive("error", msgs)
    BY <2>1, FailActiveRemoved
  <2>2. CASE Finish(d, <<>>)
    <3>1. m \in SenderMsg
      BY HeadTailProperties DEF OnClientMessage, TypeInv, ChannelTypeOK
    <3>2. d \in Download /\ d.removed = active.removed /\ d.failed = active.failed
      BY <1>1, <1>6, <3>1 DEF SenderMsg, Chunks, Download
    <3>3. QED
      BY <2>2, <3>2, FinishRemoved DEF RemovedOK
  <2>3. CASE active' = [d EXCEPT !.barrier = Len(d.chain)]
    BY <1>1, <2>3 DEF RemovedOK, Download
  <2>4. QED
    BY <1>2, <1>6, <2>1, <2>2, <2>3 DEF OnEnd
<1>7. CASE OnError(m)
  BY <1>2, <1>7, FailActiveRemoved DEF OnError
<1>8. QED
  BY <1>3, <1>4, <1>5, <1>6, <1>7 DEF OnClientMessage

LEMMA WriteDoneRemoved ==
    ASSUME TypeInv, RemovedOK, WriteDone
    PROVE  RemovedOK'
<1> DEFINE c == Head(active.chain)
           f == active.id
           n == active.written + c.len
           due == n - active.lastAck >= ACK_EVERY \/ n = Size[f]
           bytes == Bytes(c.id, c.at, c.at + c.len)
           d == [active EXCEPT
                    !.written = n,
                    !.lastAck = IF due THEN n ELSE @,
                    !.chain = IF active.failed = "no" THEN Tail(@) ELSE <<>>,
                    !.hashed = IF active.hasher THEN @ \o bytes ELSE @,
                    !.barrier = IF @ > 0 THEN @ - 1 ELSE 0]
           acks == IF due THEN <<Ack(f, n)>> ELSE <<>>
<1>1. /\ active \in Download /\ c.len \in Nat /\ bytes \in FileBytes
      /\ Tail(active.chain) \in Seq(Chunks) /\ <<>> \in Seq(Chunks)
  BY InFlightType, EmptySeq DEF WriteDone, TypeInv, ClientInv, LineOK
<1>2. n \in Nat /\ active.hashed \o bytes \in FileBytes
  BY <1>1, ConcatProperties DEF Download, FileBytes
<1>3. (IF active.barrier > 0 THEN active.barrier - 1 ELSE 0) \in Nat
  BY <1>1 DEF Download
<1>4. (IF active.failed = "no" THEN Tail(active.chain) ELSE <<>>) \in Seq(Chunks)
  BY <1>1
<1>5. d \in Download /\ d.removed = active.removed /\ d.failed = active.failed
  BY <1>1, <1>2, <1>3, <1>4 DEF Download
<1>6. CASE active' = d
  BY <1>5, <1>6 DEF RemovedOK
<1>7. CASE Finish(d, acks)
  BY <1>5, <1>7, FinishRemoved DEF RemovedOK
<1>8. QED
  BY <1>6, <1>7 DEF WriteDone

LEMMA NextRemoved == TypeInv /\ RemovedOK /\ [Next]_vars => RemovedOK'
<1> SUFFICES ASSUME TypeInv, RemovedOK, [Next]_vars PROVE RemovedOK'
  OBVIOUS
<1>1. active \in Download /\ queue \in Seq(Queued)
  BY DEF TypeInv, ClientInv, LineOK
<1>2. CASE UNCHANGED active
  BY <1>2 DEF RemovedOK
<1>3. CASE OnClientMessage \/ WriteDone
  BY <1>3, OnMessageRemoved, WriteDoneRemoved
<1>4. CASE \E wasm \in Wasm : SinkOpened(wasm)
  BY <1>1, <1>4 DEF SinkOpened, RemovedOK, Download
<1>5. CASE CloseDone \/ AbortDone \/ SinkOpenFails
  BY <1>5, EndActiveRemoved DEF CloseDone, AbortDone, SinkOpenFails
<1>6. CASE WriteFails \/ CloseFails
  <2>1. Failing(active, "error") \in Download /\ Failing(active, "error").failed # "no"
    BY <1>1, FailingType, FailingRemoved DEF RemovedOK
  <2>2. QED
    BY <1>6, <2>1 DEF WriteFails, CloseFails, RemovedOK, Download
<1>7. CASE AbortRemoves
  BY <1>1, <1>7 DEF AbortRemoves, RemovedOK, Download
<1>8. CASE CancelActive \/ AbortStalled
  BY <1>8, FailActiveRemoved DEF CancelActive, AbortStalled
<1>9. CASE \E f \in Files : UserDownload(f)
  <2>1. NoResume \in ResumeFrom
    BY EmptySeq DEF NoResume, ResumeFrom, FileBytes, Folder
  <2>2. QED
    BY <1>9, <2>1, RequestDownloadRemoved DEF UserDownload
<1>10. CASE Reload
  BY <1>10 DEF Reload, RemovedOK, NoDownload, NewDownload
<1>11. CASE ClientClose
  BY <1>1, <1>11 DEF ClientClose, RemovedOK, Download
<1>12. QED
  BY <1>2, <1>3, <1>4, <1>5, <1>6, <1>7, <1>8, <1>9, <1>10, <1>11
  DEF Next, Connect, attach, ServerStep, ClientStep, Fault, User, Break,
      OrphanOpened, LateWriteFails, LateAbortDone, CancelQueued, Evict,
      clientVars, vars

LEMMA RemovedAlways == Spec => []RemovedOK
<1>1. Init => RemovedOK
  BY DEF Init, RemovedOK, NoDownload, NewDownload
<1>2. QED
  BY <1>1, NextRemoved, TypeInvAlways, PTL DEF Spec

-----------------------------------------------------------------------------
(* Verified files are intact.  The sender's digest is compared with what   *)
(* the hasher was fed, and what counts is what the disk holds, so the      *)
(* invariant follows the two through a download: from a checkpoint to the  *)
(* reopened file, through its writes, to the closing of the file.          *)

\* The hasher has been fed exactly the bytes on disk, or so many that their
\* digest cannot be the file's.
HashMatchesDisk ==
    active.ready /\ active.hasher /\ ~active.closing /\ active.failed = "no" =>
        \/ active.hashed = disk[active.id]
        \/ Len(active.hashed) > Size[active.id]

ClosingIsWhole ==
    active.closing /\ active.failed = "no" /\ active.hasher /\ active.expected =>
        disk[active.id] = Whole(active.id)

\* The same for a download that will go on from a checkpoint once it is open.
ResumeMatchesDisk ==
    active.id # NoFile /\ ~active.ready /\ active.hasher /\ active.received > 0 =>
        \/ active.received > Len(disk[active.id])
        \/ active.hashed = SubSeq(disk[active.id], 1, active.received)
        \/ Len(active.hashed) > Size[active.id]

OpeningIsClean ==
    /\ ~active.ready =>
           ~active.closing /\ active.chain = <<>> /\ active.failed = "no"
    /\ active.closing => active.finishing
    /\ active.barrier > 0 => active.finishing

QueueStartsOver == \A i \in DOMAIN queue : queue[i].from.offset = 0

ActiveNotDone == active.id # NoFile => states[active.id] # "done"

LineVerified ==
    /\ HashMatchesDisk
    /\ ClosingIsWhole
    /\ ResumeMatchesDisk
    /\ OpeningIsClean
    /\ QueueStartsOver
    /\ ActiveNotDone

BeforeHello ==
    ~items => /\ active.id = NoFile
              /\ queue = <<>>
              /\ \A f \in Files : states[f] # "done"

VerifiedInv == LineVerified /\ BeforeHello /\ VerifiedIsIntact

\* What the proof needs of a checkpoint, while nothing is active: if the disk
\* holds the bytes a resumed download would go on after (if not, its sink
\* starts over), then the hash state is that of those bytes, or of too many.
CheckpointFits ==
    active.id = NoFile =>
    \A f \in Files :
        LET n == Least(saved[f].offset, Size[f])
        IN  n > 0 /\ saved[f].hasState =>
                \/ n > Len(disk[f])
                \/ saved[f].hashed = SubSeq(disk[f], 1, n)
                \/ Len(saved[f].hashed) > Size[f]

\* No file becomes done.
NoneDone(st) == \A f \in Files : states'[f] = "done" => st[f] = "done"

LEMMA WholeLen ==
    ASSUME NEW f \in Files
    PROVE  Whole(f) \in FileBytes /\ Len(Whole(f)) = Size[f]
<1>1. Size[f] \in Nat /\ 1..(Size[f] - 0) = 1..Size[f]
  OBVIOUS
<1>2. Whole(f) \in [1..Size[f] -> Files \X Nat]
  BY <1>1 DEF Whole, Prefix, Bytes
<1>3. QED
  BY <1>1, <1>2 DEF FileBytes

LEMMA StillLonger ==
    ASSUME NEW s \in FileBytes, NEW t \in FileBytes, NEW n \in Nat, Len(s) > n
    PROVE  Len(s \o t) > n
<1>1. Len(s) \in Nat /\ Len(t) \in Nat
  BY LenProperties DEF FileBytes
<1>2. Len(s \o t) = Len(s) + Len(t)
  BY ConcatProperties DEF FileBytes
<1>3. QED
  BY <1>1, <1>2

LEMMA NewDownloadVerified ==
    ASSUME active' = NoDownload \/
               \E f \in Files, from \in ResumeFrom :
                   from.offset = 0 /\ active' = NewDownload(f, from)
    PROVE  HashMatchesDisk' /\ ClosingIsWhole' /\ ResumeMatchesDisk' /\ OpeningIsClean'
<1>1. /\ ~active'.ready /\ ~active'.closing
      /\ active'.chain = <<>> /\ active'.failed = "no"
      /\ active'.received = 0 /\ active'.barrier = 0
  BY DEF NoDownload, NewDownload, NoResume
<1>2. QED
  BY <1>1 DEF HashMatchesDisk, ClosingIsWhole, ResumeMatchesDisk, OpeningIsClean

LEMMA TakeNextVerified ==
    ASSUME NEW q \in Seq(Queued), \A i \in DOMAIN q : q[i].from.offset = 0,
           NEW st \in [Files -> Status], TakeNext(q, st)
    PROVE  LineVerified' /\ NoneDone(st)
<1>1. CASE q = <<>>
  <2>1. active' = NoDownload /\ queue' = q /\ states' = st
    BY <1>1 DEF TakeNext
  <2>2. active'.id = NoFile
    BY <2>1 DEF NoDownload, NewDownload
  <2>3. QED
    BY <2>1, <2>2, NewDownloadVerified
    DEF LineVerified, QueueStartsOver, ActiveNotDone, NoneDone
<1>2. CASE q # <<>>
  <2> DEFINE h == Head(q)
             from == [h.from EXCEPT !.offset = Least(@, Size[h.id])]
  <2>1. /\ active' = NewDownload(h.id, from)
        /\ queue' = Tail(q)
        /\ states' = [st EXCEPT ![h.id] = "receiving"]
    BY <1>2 DEF TakeNext
  <2>2. h \in Queued /\ h = q[1] /\ 1 \in DOMAIN q
    BY <1>2, HeadTailProperties
  <2>3. h.id \in Files /\ from \in ResumeFrom /\ from.offset = 0
    BY <2>2 DEF Queued, ResumeFrom, Least
  <2>4. /\ HashMatchesDisk' /\ ClosingIsWhole' /\ ResumeMatchesDisk'
        /\ OpeningIsClean'
    BY <2>1, <2>3, NewDownloadVerified
  <2>5. QueueStartsOver'
    <3>1. \A i \in DOMAIN Tail(q) : i + 1 \in DOMAIN q /\ Tail(q)[i] = q[i + 1]
      BY <1>2, HeadTailProperties
    <3>2. QED
      BY <2>1, <3>1 DEF QueueStartsOver
  <2>6. active'.id = h.id
    BY <2>1 DEF NewDownload
  <2>7. ActiveNotDone' /\ NoneDone(st)
    BY <2>1, <2>3, <2>6 DEF ActiveNotDone, NoneDone
  <2>8. QED
    BY <2>4, <2>5, <2>7 DEF LineVerified
<1>3. QED
  BY <1>1, <1>2

\* A line of one: its only entry is taken, and the line is empty.
LEMMA TakeOne ==
    ASSUME NEW e \in Queued, NEW st, TakeNext(<<e>>, st)
    PROVE  /\ active' = NewDownload(e.id, [e.from EXCEPT
                             !.offset = Least(@, Size[e.id])])
           /\ queue' = <<>>
           /\ states' = [st EXCEPT ![e.id] = "receiving"]
<1> DEFINE q == <<e>>
<1>1. q # <<>> /\ Head(q) = e /\ Tail(q) = <<>>
  OBVIOUS
<1>2. TakeNext(q, st)
  OBVIOUS
<1> HIDE DEF q
<1>3. QED
  BY <1>1, <1>2 DEF TakeNext

LEMMA EndActiveVerified ==
    ASSUME TypeInv, LineVerified, NEW status \in Status, EndActive(status)
    PROVE  LineVerified' /\ NoneDone([states EXCEPT ![active.id] = status])
<1>1. [states EXCEPT ![active.id] = status] \in [Files -> Status]
  BY DEF TypeInv, ClientInv, LineOK
<1>2. QED
  BY <1>1, TakeNextVerified
  DEF EndActive, TypeInv, ClientInv, LineOK, LineVerified, QueueStartsOver

\* A download that has failed can no longer be verified.
LEMMA FailingVerified ==
    ASSUME TypeInv, LineVerified, active.ready,
           NEW status \in {"error", "cancelled"},
           active' = Failing(active, status),
           UNCHANGED <<queue, states, disk>>
    PROVE  LineVerified'
<1>1. /\ active'.failed # "no" /\ active'.ready
      /\ active'.id = active.id
      /\ active'.closing = active.closing
      /\ active'.hasher = active.hasher
      /\ active'.expected = active.expected
      /\ active'.finishing = active.finishing
      /\ active'.barrier = active.barrier
  BY DEF Failing, TypeInv, ClientInv, LineOK, Download
<1>2. QED
  BY <1>1 DEF LineVerified, HashMatchesDisk, ClosingIsWhole, ResumeMatchesDisk,
              OpeningIsClean, QueueStartsOver, ActiveNotDone

LEMMA FailActiveVerified ==
    ASSUME TypeInv, LineVerified, NEW status \in {"error", "cancelled"},
           NEW msgs, FailActive(status, msgs), UNCHANGED disk
    PROVE  LineVerified' /\ NoneDone(states)
<1>1. CASE active.ready
  BY <1>1, FailingVerified DEF FailActive, NoneDone
<1>2. CASE ~active.ready
  <2>1. EndActive(status)
    BY <1>2 DEF FailActive
  <2>2. QED
    BY <2>1, EndActiveVerified
    DEF NoneDone, Status, TypeInv, ClientInv, LineOK
<1>3. QED
  BY <1>1, <1>2

\* finish() closes a verified file only if the disk holds all of it.
LEMMA FinishVerified ==
    ASSUME states \in [Files -> Status], ActiveNotDone, QueueStartsOver,
           NEW d \in Download, d.id \in Files, d.id = active.id,
           d.ready, ~d.closing, d.finishing, d.barrier = 0,
           disk' \in [Files -> FileBytes],
           d.failed = "no" /\ d.hasher =>
               d.hashed = disk'[d.id] \/ Len(d.hashed) > Size[d.id],
           NEW acks, Finish(d, acks), UNCHANGED queue
    PROVE  LineVerified' /\ NoneDone(states)
<1>1. CASE d.failed # "no"
  <2>1. active' = d /\ states' = states
    BY <1>1 DEF Finish
  <2>2. QED
    BY <1>1, <2>1
    DEF LineVerified, HashMatchesDisk, ClosingIsWhole, ResumeMatchesDisk,
        OpeningIsClean, QueueStartsOver, ActiveNotDone, NoneDone
<1>2. CASE d.failed = "no" /\ d.received # Size[d.id]
  <2>1. /\ active' = [d EXCEPT !.finishing = FALSE, !.accepting = FALSE]
        /\ states' = states
    BY <1>2 DEF Finish
  <2>2. /\ active'.ready /\ ~active'.closing /\ active'.failed = "no"
        /\ active'.id = d.id /\ active'.hasher = d.hasher
        /\ active'.hashed = d.hashed /\ active'.barrier = 0
    BY <1>2, <2>1 DEF Download
  <2>3. QED
    BY <2>1, <2>2
    DEF LineVerified, HashMatchesDisk, ClosingIsWhole, ResumeMatchesDisk,
        OpeningIsClean, QueueStartsOver, ActiveNotDone, NoneDone
<1>3. CASE /\ d.failed = "no" /\ d.received = Size[d.id]
           /\ d.expected /\ d.hasher /\ d.hashed # Whole(d.id)
  <2>1. /\ active' = [Failing(d, "error") EXCEPT !.chain = <<>>]
        /\ states' = [states EXCEPT ![d.id] = "verifying"]
    BY <1>3 DEF Finish
  <2>2. /\ active'.ready /\ ~active'.closing /\ active'.failed = "error"
        /\ active'.id = d.id /\ active'.barrier = 0
    BY <1>3, <2>1 DEF Failing, Download
  <2>3. QED
    BY <2>1, <2>2
    DEF LineVerified, HashMatchesDisk, ClosingIsWhole, ResumeMatchesDisk,
        OpeningIsClean, QueueStartsOver, ActiveNotDone, NoneDone
<1>4. CASE /\ d.failed = "no" /\ d.received = Size[d.id]
           /\ ~(d.expected /\ d.hasher /\ d.hashed # Whole(d.id))
  <2>1. /\ active' = [d EXCEPT !.closing = TRUE]
        /\ states' = [states EXCEPT ![d.id] = "verifying"]
    BY <1>4 DEF Finish
  <2>2. /\ active'.ready /\ active'.closing /\ active'.finishing
        /\ active'.id = d.id /\ active'.hasher = d.hasher
        /\ active'.expected = d.expected
    BY <2>1 DEF Download
  <2>3. d.expected /\ d.hasher => disk'[d.id] = Whole(d.id)
    <3>1. Len(Whole(d.id)) = Size[d.id] /\ Size[d.id] \in Nat
      BY WholeLen
    <3>2. QED
      BY <1>4, <3>1
  <2>4. QED
    BY <2>1, <2>2, <2>3
    DEF LineVerified, HashMatchesDisk, ClosingIsWhole, ResumeMatchesDisk,
        OpeningIsClean, QueueStartsOver, ActiveNotDone, NoneDone
<1>5. QED
  BY <1>1, <1>2, <1>3, <1>4

\* What leaves the files and the reports alone keeps verified files intact.
LEMMA VerifiedKept ==
    ASSUME VerifiedIsIntact, UNCHANGED <<verified, late>>, NoneDone(states),
           \A f \in Files : states[f] = "done" => disk'[f] = disk[f]
    PROVE  VerifiedIsIntact'
BY DEF VerifiedIsIntact, NoneDone

LEMMA IgnoreVerified ==
    ASSUME LineVerified, Ignore, UNCHANGED disk
    PROVE  LineVerified' /\ NoneDone(states)
BY DEF Ignore, LineVerified, HashMatchesDisk, ClosingIsWhole, ResumeMatchesDisk,
       OpeningIsClean, QueueStartsOver, ActiveNotDone, NoneDone

\* A change of fields no part of the invariant speaks of.
LEMMA ActiveKept ==
    ASSUME LineVerified, UNCHANGED <<queue, states, disk>>,
           active'.id = active.id, active'.ready = active.ready,
           active'.closing = active.closing, active'.failed = active.failed,
           active'.hasher = active.hasher, active'.hashed = active.hashed,
           active'.expected = active.expected \/ ~active.closing,
           \/ /\ active'.finishing = active.finishing
              /\ active'.barrier = active.barrier
           \/ ~active.closing /\ (active'.barrier > 0 => active'.finishing),
           active.ready \/ /\ active'.received = active.received
                           /\ active'.chain = active.chain
    PROVE  LineVerified' /\ NoneDone(states)
BY DEF LineVerified, HashMatchesDisk, ClosingIsWhole, ResumeMatchesDisk,
       OpeningIsClean, QueueStartsOver, ActiveNotDone, NoneDone

\* A page that resumes trusts its checkpoint.
LEMMA OnHelloVerified ==
    ASSUME TypeInv, VerifiedInv, CheckpointFits, OnHello, UNCHANGED disk
    PROVE  LineVerified' /\ NoneDone(states)
<1>1. CASE active.ready /\ active.failed = "no"
  <2>1. /\ active' = [active EXCEPT !.accepting = FALSE]
        /\ UNCHANGED <<states, queue, orphans, opfsDirs, saved>>
    BY <1>1 DEF OnHello, resumeSaved
  <2>2. active \in Download
    BY DEF TypeInv, ClientInv, LineOK
  <2>3. QED
    BY <1>1, <2>1, <2>2, ActiveKept DEF VerifiedInv, Download
<1>2. CASE /\ ~(active.ready /\ active.failed = "no")
           /\ ~items /\ \E f \in Files : saved[f].offset > 0
  <2>1. PICK f \in Files : saved[f].offset > 0 /\ RequestDownload(f, saved[f])
    BY <1>2 DEF OnHello, resumeSaved
  <2> DEFINE e == [id |-> f, from |-> saved[f]]
             from == [saved[f] EXCEPT !.offset = Least(@, Size[f])]
             st == [states EXCEPT ![f] = "queued"]
  <2>2. active.id = NoFile /\ queue = <<>>
    BY <1>2 DEF VerifiedInv, BeforeHello
  <2>3. TakeNext(<<e>>, st)
    <3>1. Append(<<>>, e) = <<e>>
      OBVIOUS
    <3>2. QED
      BY <2>1, <2>2, <3>1 DEF RequestDownload
  <2>5. saved[f] \in ResumeFrom
    BY DEF TypeInv, ClientInv, RecordsOK
  <2>4. /\ active' = NewDownload(f, from)
        /\ queue' = <<>>
        /\ states' = [st EXCEPT ![f] = "receiving"]
    <3>1. e \in Queued /\ e.id = f /\ e.from = saved[f]
      BY <2>5 DEF Queued
    <3>2. /\ active' = NewDownload(e.id, [e.from EXCEPT
                             !.offset = Least(@, Size[e.id])])
          /\ queue' = <<>>
          /\ states' = [st EXCEPT ![e.id] = "receiving"]
      BY <2>3, <3>1, TakeOne
    <3>3. QED
      BY <3>1, <3>2
  <2>6. /\ active'.id = f /\ ~active'.ready /\ ~active'.closing
        /\ active'.chain = <<>> /\ active'.failed = "no"
        /\ active'.barrier = 0
        /\ active'.received = Least(saved[f].offset, Size[f])
        /\ active'.hasher = saved[f].hasState
        /\ active'.hashed = saved[f].hashed
    BY <2>4, <2>5 DEF NewDownload, ResumeFrom
  <2>7. ResumeMatchesDisk'
    BY <2>2, <2>6 DEF CheckpointFits, ResumeMatchesDisk
  <2>8. HashMatchesDisk' /\ ClosingIsWhole' /\ OpeningIsClean'
    BY <2>6 DEF HashMatchesDisk, ClosingIsWhole, OpeningIsClean
  <2>9. QueueStartsOver' /\ ActiveNotDone' /\ NoneDone(states)
    BY <2>4, <2>6 DEF QueueStartsOver, ActiveNotDone, NoneDone, TypeInv,
                      ClientInv, LineOK
  <2>10. QED
    BY <2>7, <2>8, <2>9 DEF LineVerified
<1>3. CASE Ignore
  BY <1>3, IgnoreVerified DEF VerifiedInv
<1>4. QED
  BY <1>1, <1>2, <1>3 DEF OnHello, resumeSaved

LEMMA OnStartVerified ==
    ASSUME TypeInv, LineVerified, NEW m, OnStart(m), UNCHANGED disk
    PROVE  LineVerified' /\ NoneDone(states)
<1>1. CASE m.id # active.id
  BY <1>1, IgnoreVerified DEF OnStart
<1>2. CASE m.id = active.id
  <2>1. /\ active' = [active EXCEPT !.accepting = m.offset = active.received]
        /\ UNCHANGED <<states, queue, orphans, opfsDirs, saved>>
    BY <1>2 DEF OnStart
  <2>2. active \in Download
    BY DEF TypeInv, ClientInv, LineOK
  <2>3. QED
    BY <2>1, <2>2, ActiveKept DEF Download
<1>3. QED
  BY <1>1, <1>2

LEMMA OnChunkVerified ==
    ASSUME TypeInv, LineVerified, NEW m, OnChunk(m), UNCHANGED disk
    PROVE  LineVerified' /\ NoneDone(states)
<1>1. CASE Ignore
  BY <1>1, IgnoreVerified
<1>2. CASE \/ FailActive("error", <<>>)
           \/ FailActive("error", <<CancelMsg(active.id)>>)
  BY <1>2, FailActiveVerified
<1>3. CASE /\ active.ready
           /\ active' = [active EXCEPT !.received = @ + m.len,
                                       !.chain = Append(@, m)]
           /\ UNCHANGED <<states, queue, orphans, opfsDirs, saved, toServer>>
  <2>1. active \in Download
    BY DEF TypeInv, ClientInv, LineOK
  <2>2. QED
    BY <1>3, <2>1, ActiveKept DEF Download
<1>4. QED
  BY <1>1, <1>2, <1>3 DEF OnChunk

LEMMA OnEndVerified ==
    ASSUME TypeInv, LineVerified, NEW m \in SenderMsg, m.t = "end", OnEnd(m),
           UNCHANGED disk
    PROVE  LineVerified' /\ NoneDone(states)
<1> DEFINE d == [active EXCEPT !.finishing = TRUE, !.expected = m.sha256]
<1>1. CASE m.id # active.id \/ active.finishing
  BY <1>1, IgnoreVerified DEF OnEnd
<1>2. CASE m.id = active.id /\ ~active.finishing
  <2>1. m.sha256 \in Sha256 /\ active \in Download /\ active.id \in Files
    BY <1>2 DEF SenderMsg, Chunks, TypeInv, ClientInv, LineOK
  <2>2. ~active.closing
    BY <1>2 DEF LineVerified, OpeningIsClean
  <2>3. /\ d \in Download /\ d.id = active.id /\ d.ready = active.ready
        /\ ~d.closing /\ d.finishing /\ d.failed = active.failed
        /\ d.hasher = active.hasher /\ d.hashed = active.hashed
        /\ d.chain = active.chain /\ d.received = active.received
        /\ d.barrier = 0
    <3>1. active.barrier = 0
      BY <1>2, <2>1 DEF Download, LineVerified, OpeningIsClean
    <3>2. QED
      BY <2>1, <2>2, <3>1 DEF Download
  <2>4. CASE FailActive("error", <<Done(m.id, FALSE)>>)
    BY <2>4, FailActiveVerified
  <2>5. CASE d.chain = <<>> /\ Finish(d, <<>>) /\ active.ready /\ UNCHANGED queue
    <3>1. d.failed = "no" /\ d.hasher =>
              d.hashed = disk'[d.id] \/ Len(d.hashed) > Size[d.id]
      BY <2>2, <2>3, <2>5 DEF LineVerified, HashMatchesDisk
    <3>2. disk' \in [Files -> FileBytes] /\ states \in [Files -> Status]
      BY DEF TypeInv, ClientInv, LineOK
    <3>3. ActiveNotDone /\ QueueStartsOver
      BY DEF LineVerified
    <3>4. QED
      BY <2>1, <2>3, <2>5, <3>1, <3>2, <3>3, FinishVerified
  <2>6. CASE /\ ~active.ready /\ active.received # Size[m.id]
             /\ Finish(d, <<>>) /\ UNCHANGED queue
    <3>1. d.failed = "no" /\ d.received # Size[d.id]
      BY <1>2, <2>3, <2>6 DEF LineVerified, OpeningIsClean
    <3>2. /\ active' = [d EXCEPT !.finishing = FALSE, !.accepting = FALSE]
          /\ states' = states
      BY <2>6, <3>1 DEF Finish
    <3>3. /\ active'.id = active.id /\ active'.ready = active.ready
          /\ active'.closing = active.closing /\ active'.failed = active.failed
          /\ active'.hasher = active.hasher /\ active'.hashed = active.hashed
          /\ active'.received = active.received /\ active'.chain = active.chain
          /\ active'.barrier = 0
      BY <2>1, <2>3, <3>2 DEF Download
    <3>4. ~(active'.barrier > 0)
      BY <3>3
    <3>5. UNCHANGED <<queue, states, disk>>
      BY <2>6, <3>2
    <3>6. QED
      BY <2>2, <3>3, <3>4, <3>5, ActiveKept
  <2>7. CASE /\ active' = [d EXCEPT !.barrier = Len(d.chain)]
             /\ UNCHANGED <<states, queue>>
    <3>1. /\ active'.id = active.id /\ active'.ready = active.ready
          /\ active'.closing = active.closing /\ active'.failed = active.failed
          /\ active'.hasher = active.hasher /\ active'.hashed = active.hashed
          /\ active'.received = active.received /\ active'.chain = active.chain
          /\ active'.finishing
      BY <2>1, <2>7 DEF Download
    <3>2. QED
      BY <2>2, <2>7, <3>1, ActiveKept
  <2>8. QED
    <3>1. \/ FailActive("error", <<Done(m.id, FALSE)>>)
          \/ /\ ~(~active.ready /\ active.received = Size[m.id])
             /\ \/ d.chain = <<>> /\ Finish(d, <<>>)
                \/ /\ d.chain # <<>>
                   /\ active' = [d EXCEPT !.barrier = Len(d.chain)]
                   /\ UNCHANGED <<states, toServer>>
             /\ UNCHANGED <<queue, orphans, opfsDirs, saved>>
      BY <1>2 DEF OnEnd
    <3>2. QED
      BY <2>4, <2>5, <2>6, <2>7, <3>1
<1>3. QED
  BY <1>1, <1>2

LEMMA OnErrorVerified ==
    ASSUME TypeInv, LineVerified, NEW m, OnError(m), UNCHANGED disk
    PROVE  LineVerified' /\ NoneDone(states)
BY IgnoreVerified, FailActiveVerified DEF OnError

LEMMA OnClientMessageVerified ==
    ASSUME TypeInv, VerifiedInv, CheckpointFits, OnClientMessage
    PROVE  VerifiedInv'
<1> DEFINE m == Head(toClient)
<1>1. m \in SenderMsg
  BY HeadTailProperties DEF TypeInv, ChannelTypeOK, OnClientMessage
<1>2. LineVerified' /\ NoneDone(states)
  BY <1>1, OnHelloVerified, OnStartVerified, OnChunkVerified, OnEndVerified,
     OnErrorVerified
  DEF OnClientMessage, VerifiedInv
<1>3. VerifiedIsIntact'
  BY <1>2, VerifiedKept DEF OnClientMessage, VerifiedInv
<1>4. BeforeHello'
  <2>1. CASE items'
    BY <2>1 DEF BeforeHello
  <2>2. CASE ~items'
    <3>1. ~items /\ m.t # "hello"
      BY <2>2 DEF OnClientMessage
    <3>2. /\ active.id = NoFile /\ queue = <<>>
          /\ \A f \in Files : states[f] # "done"
      BY <3>1 DEF VerifiedInv, BeforeHello
    <3>3. ~active.accepting
      BY <3>2 DEF TypeInv, ClientInv, LineOK, ClientOK
    <3>4. m.t \in {"start", "end", "error"} => m.id # active.id
      BY <1>1, <3>2 DEF SenderMsg, Chunks
    <3>5. Ignore
      BY <3>1, <3>3, <3>4
      DEF OnClientMessage, OnStart, OnChunk, OnEnd, OnError
    <3>6. QED
      BY <3>2, <3>5 DEF Ignore, BeforeHello
  <2>3. QED
    BY <2>1, <2>2
<1>5. QED
  BY <1>2, <1>3, <1>4 DEF VerifiedInv
-----------------------------------------------------------------------------
(* The user, the session and the answers of the sink. *)

\* A step of the client that keeps LineVerified, VerifiedIsIntact and items.
LEMMA AfterHello ==
    ASSUME VerifiedInv, UNCHANGED items, items \/ active.id # NoFile,
           LineVerified', VerifiedIsIntact'
    PROVE  VerifiedInv'
BY DEF VerifiedInv, BeforeHello

LEMMA UserDownloadVerified ==
    ASSUME TypeInv, VerifiedInv, NEW f \in Files, UserDownload(f)
    PROVE  VerifiedInv'
<1> DEFINE e == [id |-> f, from |-> NoResume]
           q == Append(queue, e)
           st == [states EXCEPT ![f] = "queued"]
<1>1. e \in Queued /\ e.from.offset = 0 /\ queue \in Seq(Queued)
  BY DEF Queued, NoResume, ResumeFrom, FileBytes, Folder, TypeInv, ClientInv,
         LineOK
<1>2. q \in Seq(Queued) /\ \A i \in DOMAIN q : q[i].from.offset = 0
  <2>1. \A i \in DOMAIN queue : queue[i].from.offset = 0
    BY DEF VerifiedInv, LineVerified, QueueStartsOver
  <2>2. QED
    BY <1>1, <2>1
<1>3. st \in [Files -> Status] /\ states \in [Files -> Status]
  BY DEF TypeInv, ClientInv, LineOK, Status
<1>4. LineVerified' /\ NoneDone(states)
  <2>1. CASE TakeNext(q, st)
    <3>1. LineVerified' /\ NoneDone(st)
      BY <1>2, <1>3, <2>1, TakeNextVerified
    <3>2. QED
      BY <1>3, <3>1 DEF NoneDone
  <2>2. CASE queue' = q /\ states' = st /\ UNCHANGED active
    BY <1>2, <1>3, <2>2
    DEF UserDownload, storageVars, VerifiedInv, LineVerified, HashMatchesDisk,
        ClosingIsWhole, ResumeMatchesDisk, OpeningIsClean, QueueStartsOver,
        ActiveNotDone, NoneDone
  <2>3. QED
    BY <2>1, <2>2 DEF UserDownload, RequestDownload
<1>5. QED
  BY <1>4, AfterHello, VerifiedKept DEF UserDownload, storageVars, VerifiedInv

LEMMA CancelQueuedVerified ==
    ASSUME TypeInv, VerifiedInv, NEW f \in Files, CancelQueued(f)
    PROVE  VerifiedInv'
<1> DEFINE Fresh == {e \in Queued : e.from.offset = 0}
<1>1. queue \in Seq(Queued) /\ states \in [Files -> Status]
  BY DEF TypeInv, ClientInv, LineOK
<1>2. queue \in Seq(Fresh)
  <2>1. \A i \in 1..Len(queue) : queue[i] \in Fresh
    BY <1>1, LenProperties, ElementOfSeq
    DEF VerifiedInv, LineVerified, QueueStartsOver
  <2>2. QED
    BY <1>1, <2>1
<1>3. queue' \in Seq(Fresh)
  BY <1>2, RemoveAtType DEF CancelQueued
<1>4. QueueStartsOver'
  <2>1. \A i \in DOMAIN queue' : queue'[i] \in Fresh
    BY <1>3, LenProperties, ElementOfSeq
  <2>2. QED
    BY <2>1 DEF QueueStartsOver
<1>5. items
  BY DEF CancelQueued, VerifiedInv, BeforeHello
<1>6. /\ states' = [states EXCEPT ![f] = "cancelled"]
      /\ UNCHANGED <<items, verified, active, late, disk>>
  BY DEF CancelQueued
<1>7. LineVerified' /\ NoneDone(states)
  BY <1>1, <1>4, <1>6
  DEF VerifiedInv, LineVerified, HashMatchesDisk, ClosingIsWhole,
      ResumeMatchesDisk, OpeningIsClean, ActiveNotDone, NoneDone
<1>8. QED
  BY <1>5, <1>6, <1>7, AfterHello, VerifiedKept DEF VerifiedInv

LEMMA FailActiveKeepsVerified ==
    ASSUME TypeInv, VerifiedInv, active.id # NoFile,
           NEW status \in {"error", "cancelled"}, NEW msgs,
           FailActive(status, msgs), UNCHANGED <<items, verified, late, disk>>
    PROVE  VerifiedInv'
BY FailActiveVerified, VerifiedKept, AfterHello DEF VerifiedInv

LEMMA ReloadVerified ==
    ASSUME TypeInv, Reload
    PROVE  VerifiedInv'
<1>1. /\ active' = NoDownload /\ queue' = <<>> /\ ~items'
      /\ states' = [f \in Files |-> "idle"]
  BY DEF Reload
<1>2. active'.id = NoFile
  BY <1>1 DEF NoDownload, NewDownload
<1>3. LineVerified'
  BY <1>1, <1>2, NewDownloadVerified
  DEF LineVerified, QueueStartsOver, ActiveNotDone
<1>4. BeforeHello' /\ VerifiedIsIntact'
  BY <1>1, <1>2 DEF BeforeHello, VerifiedIsIntact
<1>5. QED
  BY <1>3, <1>4 DEF VerifiedInv

LEMMA EvictVerified ==
    ASSUME TypeInv, VerifiedInv, Evict
    PROVE  VerifiedInv'
<1>1. /\ active.id = NoFile /\ queue = <<>>
      /\ \A f \in Files : states[f] # "done"
  BY DEF Evict, VerifiedInv, BeforeHello
<1>2. UNCHANGED <<items, states, queue, active>>
  BY DEF Evict
<1>3. ~active.ready /\ ~active.closing
  BY <1>1 DEF TypeInv, ClientInv, LineOK, ClientOK
<1>4. LineVerified'
  BY <1>1, <1>2, <1>3
  DEF VerifiedInv, LineVerified, HashMatchesDisk, ClosingIsWhole,
      ResumeMatchesDisk, OpeningIsClean, QueueStartsOver, ActiveNotDone
<1>5. BeforeHello' /\ VerifiedIsIntact'
  BY <1>1, <1>2 DEF BeforeHello, VerifiedIsIntact
<1>6. QED
  BY <1>4, <1>5 DEF VerifiedInv

LEMMA ClientCloseVerified ==
    ASSUME TypeInv, VerifiedInv, ClientClose
    PROVE  VerifiedInv'
<1>1. /\ active' = [active EXCEPT !.accepting = FALSE]
      /\ UNCHANGED <<items, states, verified, queue, late, disk>>
  BY DEF ClientClose, storageVars
<1>2. active \in Download
  BY DEF TypeInv, ClientInv, LineOK
<1>3. LineVerified' /\ NoneDone(states)
  BY <1>1, <1>2, ActiveKept DEF VerifiedInv, Download
<1>4. BeforeHello'
  BY <1>1, <1>2 DEF VerifiedInv, BeforeHello, Download
<1>5. QED
  BY <1>1, <1>3, <1>4, VerifiedKept DEF VerifiedInv

\* A reopened file is cut to the bytes the resumed hasher has been fed.
LEMMA SinkOpenedVerified ==
    ASSUME TypeInv, VerifiedInv, NEW wasm \in BOOLEAN, SinkOpened(wasm)
    PROVE  VerifiedInv'
<1> DEFINE f == active.id
           startAt == IF Len(disk[f]) >= active.received
                      THEN active.received ELSE 0
           resumed == startAt > 0
<1>1. f \in Files /\ active \in Download /\ disk \in [Files -> FileBytes]
  BY DEF SinkOpened, TypeInv, ClientInv, LineOK, Download
<1>2. /\ active'.ready /\ active'.id = f
      /\ active'.hasher = (wasm /\ (resumed => active.hasher))
      /\ active'.hashed = (IF resumed THEN active.hashed ELSE <<>>)
      /\ active'.closing = active.closing /\ active'.failed = active.failed
      /\ active'.finishing = active.finishing
      /\ active'.barrier = active.barrier
  BY <1>1 DEF SinkOpened, Download
<1>3. disk' = [disk EXCEPT ![f] = SubSeq(disk[f], 1, startAt)]
  BY DEF SinkOpened, Truncated
<1>4. UNCHANGED <<items, states, verified, queue, late>>
  BY DEF SinkOpened
<1>5. ~active.ready /\ ~active.closing
  BY DEF SinkOpened, VerifiedInv, LineVerified, OpeningIsClean
<1>6. disk'[f] = SubSeq(disk[f], 1, startAt)
  BY <1>1, <1>3
<1>7. active'.hasher => \/ active'.hashed = disk'[f]
                        \/ Len(active'.hashed) > Size[f]
  <2>1. CASE resumed
    <3>1. Len(disk[f]) \in Nat /\ active.received \in Nat
      BY <1>1, LenProperties DEF FileBytes, Download
    <3>2. startAt = active.received /\ active.received > 0
          /\ ~(active.received > Len(disk[f]))
      BY <2>1, <3>1
    <3>3. active'.hasher => active.hasher
      BY <1>2, <2>1
    <3>4. QED
      BY <1>1, <1>2, <1>5, <1>6, <2>1, <3>2, <3>3
      DEF VerifiedInv, LineVerified, ResumeMatchesDisk
  <2>2. CASE ~resumed
    <3>1. startAt = 0
      BY <1>1, <2>2 DEF Download
    <3>2. disk'[f] = <<>>
      BY <1>6, <3>1, SubSeqEmpty
    <3>3. QED
      BY <1>2, <2>2, <3>2
  <2>3. QED
    BY <2>1, <2>2
<1>8. HashMatchesDisk' /\ ClosingIsWhole' /\ ResumeMatchesDisk' /\ OpeningIsClean'
  BY <1>2, <1>5, <1>7
  DEF HashMatchesDisk, ClosingIsWhole, ResumeMatchesDisk, OpeningIsClean,
      VerifiedInv, LineVerified
<1>9. QueueStartsOver' /\ ActiveNotDone' /\ NoneDone(states)
  BY <1>2, <1>4
  DEF QueueStartsOver, ActiveNotDone, NoneDone, VerifiedInv, LineVerified
<1>10. \A g \in Files : states[g] = "done" => disk'[g] = disk[g]
  BY <1>1, <1>3 DEF VerifiedInv, LineVerified, ActiveNotDone, SinkOpened
<1>11. VerifiedIsIntact'
  BY <1>4, <1>9, <1>10, VerifiedKept DEF VerifiedInv
<1>12. QED
  BY <1>4, <1>8, <1>9, <1>11, AfterHello DEF SinkOpened, LineVerified

LEMMA SinkOpenFailsVerified ==
    ASSUME TypeInv, VerifiedInv, SinkOpenFails
    PROVE  VerifiedInv'
<1>1. LineVerified' /\ NoneDone([states EXCEPT ![active.id] = "error"])
  BY EndActiveVerified DEF SinkOpenFails, VerifiedInv, Status
<1>2. NoneDone(states)
  BY <1>1 DEF NoneDone, TypeInv, ClientInv, LineOK
<1>3. QED
  BY <1>1, <1>2, AfterHello, VerifiedKept DEF SinkOpenFails, VerifiedInv

LEMMA OrphanOpenedVerified ==
    ASSUME VerifiedInv, NEW f \in Files, OrphanOpened(f)
    PROVE  VerifiedInv'
BY DEF OrphanOpened, VerifiedInv, LineVerified, HashMatchesDisk, ClosingIsWhole,
       ResumeMatchesDisk, OpeningIsClean, QueueStartsOver, ActiveNotDone,
       BeforeHello, VerifiedIsIntact
\* A write reaches the hasher and the disk together.
LEMMA WriteDoneVerified ==
    ASSUME TypeInv, RemovedOK, VerifiedInv, WriteDone
    PROVE  VerifiedInv'
<1> DEFINE c == Head(active.chain)
           f == active.id
           n == active.written + c.len
           due == n - active.lastAck >= ACK_EVERY \/ n = Size[f]
           bytes == Bytes(c.id, c.at, c.at + c.len)
           d == [active EXCEPT
                    !.written = n,
                    !.lastAck = IF due THEN n ELSE @,
                    !.chain = IF active.failed = "no" THEN Tail(@) ELSE <<>>,
                    !.hashed = IF active.hasher THEN @ \o bytes ELSE @,
                    !.barrier = IF @ > 0 THEN @ - 1 ELSE 0]
           acks == IF due THEN <<Ack(f, n)>> ELSE <<>>
<1>1. /\ f \in Files /\ c.len \in Nat /\ bytes \in FileBytes
      /\ Tail(active.chain) \in Seq(Chunks)
  BY InFlightType DEF WriteDone, TypeInv, ClientInv, LineOK
<1>2. active \in Download /\ disk \in [Files -> FileBytes]
  BY DEF TypeInv, ClientInv, LineOK
<1>3. n \in Nat /\ <<>> \in Seq(Chunks) /\ active.barrier \in Nat
  BY <1>1, <1>2, EmptySeq DEF Download
<1>4. active.hashed \o bytes \in FileBytes
  BY <1>1, <1>2, ConcatProperties DEF Download, FileBytes
<1>5. /\ d \in Download /\ d.id = f /\ d.ready = active.ready
      /\ d.closing = active.closing /\ d.finishing = active.finishing
      /\ d.failed = active.failed /\ d.hasher = active.hasher
      /\ d.hashed = (IF active.hasher THEN active.hashed \o bytes
                     ELSE active.hashed)
      /\ d.barrier = (IF active.barrier > 0 THEN active.barrier - 1 ELSE 0)
  <2>1. (IF active.barrier > 0 THEN active.barrier - 1 ELSE 0) \in Nat
    BY <1>3
  <2>2. (IF active.failed = "no" THEN Tail(active.chain) ELSE <<>>) \in Seq(Chunks)
    BY <1>1, <1>3
  <2>3. (IF active.hasher THEN active.hashed \o bytes ELSE active.hashed)
            \in FileBytes
    BY <1>2, <1>4 DEF Download
  <2>4. (IF due THEN n ELSE active.lastAck) \in Nat
    BY <1>2, <1>3 DEF Download
  <2>5. d \in Download
    BY <1>2, <1>3, <2>1, <2>2, <2>3, <2>4 DEF Download
  <2>6. QED
    BY <1>2, <2>5 DEF Download
<1>6. active.ready /\ ~active.closing /\ items
  BY DEF WriteDone, VerifiedInv, LineVerified, OpeningIsClean, BeforeHello,
         TypeInv, ClientInv, LineOK, ClientOK
<1>7. disk' = IF active.removed THEN disk
              ELSE [disk EXCEPT ![f] = disk[f] \o bytes]
  BY DEF WriteDone
<1>8. /\ disk' \in [Files -> FileBytes]
      /\ active.failed = "no" => disk'[f] = disk[f] \o bytes
  <2>1. disk[f] \o bytes \in FileBytes
    BY <1>1, <1>2, ConcatProperties DEF FileBytes
  <2>2. QED
    BY <1>1, <1>2, <1>7, <2>1 DEF RemovedOK
<1>9. d.failed = "no" /\ d.hasher =>
          d.hashed = disk'[d.id] \/ Len(d.hashed) > Size[d.id]
  <2>1. SUFFICES ASSUME active.failed = "no", active.hasher
                 PROVE  \/ active.hashed \o bytes = disk[f] \o bytes
                        \/ Len(active.hashed \o bytes) > Size[f]
    BY <1>5, <1>8
  <2>2. active.hashed = disk[f] \/ Len(active.hashed) > Size[f]
    BY <1>6, <2>1 DEF VerifiedInv, LineVerified, HashMatchesDisk
  <2>3. active.hashed \in FileBytes
    BY <1>2 DEF Download
  <2>4. Size[f] \in Nat
    BY <1>1
  <2>5. CASE active.hashed = disk[f]
    BY <2>5
  <2>6. CASE Len(active.hashed) > Size[f]
    BY <1>1, <2>3, <2>4, <2>6, StillLonger
  <2>7. QED
    BY <2>2, <2>5, <2>6
<1>10. UNCHANGED <<items, verified, queue, late>>
  BY DEF WriteDone
<1>11. LineVerified' /\ NoneDone(states)
  <2>1. CASE active.barrier = 1 /\ Finish(d, acks)
    <3>1. states \in [Files -> Status]
      BY DEF TypeInv, ClientInv, LineOK
    <3>2. active.finishing /\ d.barrier = 0
      BY <1>5, <2>1 DEF VerifiedInv, LineVerified, OpeningIsClean
    <3>3. ActiveNotDone /\ QueueStartsOver
      BY DEF VerifiedInv, LineVerified
    <3> HIDE DEF d, acks
    <3>4. QED
      BY <1>1, <1>5, <1>6, <1>8, <1>9, <1>10, <2>1, <3>1, <3>2, <3>3,
         FinishVerified
  <2>2. CASE active' = d /\ UNCHANGED states
    <3>1. /\ active'.id = f /\ active'.ready /\ ~active'.closing
          /\ active'.finishing = active.finishing
          /\ active'.barrier > 0 => active.barrier > 0
      BY <1>3, <1>5, <1>6, <2>2
    <3>2. HashMatchesDisk'
      BY <1>5, <1>9, <2>2 DEF HashMatchesDisk
    <3>3. ClosingIsWhole' /\ ResumeMatchesDisk' /\ OpeningIsClean'
      BY <3>1 DEF ClosingIsWhole, ResumeMatchesDisk, OpeningIsClean,
                  VerifiedInv, LineVerified
    <3>4. QueueStartsOver' /\ ActiveNotDone' /\ NoneDone(states)
      BY <1>10, <2>2, <3>1 DEF QueueStartsOver, ActiveNotDone, NoneDone,
                               VerifiedInv, LineVerified
    <3>5. QED
      BY <3>2, <3>3, <3>4 DEF LineVerified
  <2>3. QED
    BY <2>1, <2>2 DEF WriteDone
<1>12. \A g \in Files : states[g] = "done" => disk'[g] = disk[g]
  BY <1>1, <1>2, <1>7 DEF VerifiedInv, LineVerified, ActiveNotDone
<1>13. VerifiedIsIntact'
  BY <1>10, <1>11, <1>12, VerifiedKept DEF VerifiedInv
<1>14. QED
  BY <1>6, <1>10, <1>11, <1>13, AfterHello

LEMMA WriteFailsVerified ==
    ASSUME TypeInv, VerifiedInv, WriteFails
    PROVE  VerifiedInv'
<1>1. active \in Download
  BY DEF TypeInv, ClientInv, LineOK
<1>2. active.ready /\ items
  BY DEF WriteFails, VerifiedInv, LineVerified, OpeningIsClean, BeforeHello,
         TypeInv, ClientInv, LineOK, ClientOK
<1>3. /\ active'.failed # "no" /\ active'.ready
      /\ active'.id = active.id
      /\ active'.closing = active.closing
      /\ active'.hasher = active.hasher
      /\ active'.expected = active.expected
      /\ active'.finishing = active.finishing
      /\ active'.barrier = 0
  BY <1>1, <1>2 DEF WriteFails, Failing, Download
<1>4. UNCHANGED <<items, states, verified, queue, late, disk>>
  BY DEF WriteFails, storageVars
<1>5. LineVerified' /\ NoneDone(states)
  BY <1>3, <1>4
  DEF VerifiedInv, LineVerified, HashMatchesDisk, ClosingIsWhole,
      ResumeMatchesDisk, OpeningIsClean, QueueStartsOver, ActiveNotDone,
      NoneDone
<1>6. QED
  BY <1>2, <1>4, <1>5, AfterHello, VerifiedKept DEF VerifiedInv

\* What is reported as verified is what was closed.
LEMMA CloseDoneVerified ==
    ASSUME TypeInv, VerifiedInv, CloseDone
    PROVE  VerifiedInv'
<1> DEFINE f == active.id
           aborts == IF active.failed # "no" THEN {active.failed}
                     ELSE IF active.chain # <<>> THEN {"error"}
                     ELSE {}
<1>1. f \in Files /\ items
  BY DEF CloseDone, TypeInv, ClientInv, LineOK, ClientOK, Download,
         VerifiedInv, BeforeHello
<1>2. /\ EndActive("done")
      /\ verified' = [verified EXCEPT ![f] = (active.expected /\ active.hasher)]
      /\ late' = late \cup {[id |-> f, status |-> s,
                             refused |-> active.chain # <<>>] : s \in aborts}
      /\ \/ UNCHANGED disk
         \/ aborts # {} /\ disk' = [disk EXCEPT ![f] = <<>>]
      /\ UNCHANGED items
  BY DEF CloseDone
<1>3. LineVerified' /\ NoneDone([states EXCEPT ![f] = "done"])
  BY <1>2, EndActiveVerified DEF VerifiedInv, Status
<1>4. VerifiedIsIntact'
  <2>1. SUFFICES ASSUME NEW g \in Files, states'[g] = "done", verified'[g],
                        \A l \in late' : l.id # g
                 PROVE  disk'[g] = Whole(g)
    BY DEF VerifiedIsIntact
  <2>2. CASE g = f
    <3>1. aborts = {}
      <4>1. \A s \in aborts :
                [id |-> f, status |-> s, refused |-> active.chain # <<>>] \in late'
        BY <1>2
      <4>2. QED
        BY <2>1, <2>2, <4>1
    <3>2. active.expected /\ active.hasher
      BY <1>1, <1>2, <2>1, <2>2 DEF TypeInv, ClientInv
    <3>3. QED
      BY <1>2, <2>2, <3>1, <3>2
      DEF CloseDone, VerifiedInv, LineVerified, ClosingIsWhole
  <2>3. CASE g # f
    <3>1. states[g] = "done" /\ verified[g] /\ disk'[g] = disk[g]
      BY <1>1, <1>2, <1>3, <2>1, <2>3
      DEF NoneDone, TypeInv, ClientInv, LineOK
    <3>2. \A l \in late : l.id # g
      BY <1>2, <2>1
    <3>3. QED
      BY <3>1, <3>2 DEF VerifiedInv, VerifiedIsIntact
  <2>4. QED
    BY <2>2, <2>3
<1>5. QED
  BY <1>1, <1>2, <1>3, <1>4, AfterHello

LEMMA CloseFailsVerified ==
    ASSUME TypeInv, VerifiedInv, CloseFails
    PROVE  VerifiedInv'
<1>1. active \in Download
  BY DEF TypeInv, ClientInv, LineOK
<1>2. active.ready /\ active.finishing /\ items
  BY DEF CloseFails, VerifiedInv, LineVerified, OpeningIsClean, BeforeHello,
         TypeInv, ClientInv, LineOK, ClientOK
<1>3. /\ active'.failed # "no" /\ active'.ready /\ ~active'.closing
      /\ active'.id = active.id
      /\ active'.finishing
  BY <1>1, <1>2 DEF CloseFails, Failing, Download
<1>4. UNCHANGED <<items, states, verified, queue, late, disk>>
  BY DEF CloseFails, storageVars
<1>5. LineVerified' /\ NoneDone(states)
  BY <1>3, <1>4
  DEF VerifiedInv, LineVerified, HashMatchesDisk, ClosingIsWhole,
      ResumeMatchesDisk, OpeningIsClean, QueueStartsOver, ActiveNotDone,
      NoneDone
<1>6. QED
  BY <1>2, <1>4, <1>5, AfterHello, VerifiedKept DEF VerifiedInv

LEMMA AbortRemovesVerified ==
    ASSUME TypeInv, VerifiedInv, AbortRemoves
    PROVE  VerifiedInv'
<1>1. active \in Download /\ disk \in [Files -> FileBytes]
  BY DEF TypeInv, ClientInv, LineOK
<1>2. active.ready /\ items /\ active.failed # "no" /\ active.id # NoFile
  BY DEF AbortRemoves, VerifiedInv, LineVerified, OpeningIsClean, BeforeHello,
         TypeInv, ClientInv, LineOK, ClientOK
<1>3. /\ active'.failed = active.failed /\ active'.ready
      /\ active'.id = active.id
      /\ active'.closing = active.closing
      /\ active'.finishing = active.finishing
      /\ active'.barrier = active.barrier
  BY <1>1, <1>2 DEF AbortRemoves, Download
<1>4. /\ UNCHANGED <<items, states, verified, queue, late>>
      /\ disk' = [disk EXCEPT ![active.id] = <<>>]
  BY DEF AbortRemoves
<1>5. LineVerified' /\ NoneDone(states)
  BY <1>2, <1>3, <1>4
  DEF VerifiedInv, LineVerified, HashMatchesDisk, ClosingIsWhole,
      ResumeMatchesDisk, OpeningIsClean, QueueStartsOver, ActiveNotDone,
      NoneDone
<1>6. \A g \in Files : states[g] = "done" => disk'[g] = disk[g]
  BY <1>1, <1>2, <1>4 DEF VerifiedInv, LineVerified, ActiveNotDone
<1>7. QED
  BY <1>2, <1>4, <1>5, <1>6, AfterHello, VerifiedKept DEF VerifiedInv

LEMMA AbortDoneVerified ==
    ASSUME TypeInv, VerifiedInv, AbortDone
    PROVE  VerifiedInv'
<1>1. active.id \in Files /\ items /\ active.failed \in {"error", "cancelled"}
  BY DEF AbortDone, TypeInv, ClientInv, LineOK, ClientOK, Download,
         VerifiedInv, BeforeHello
<1>2. /\ EndActive(active.failed)
      /\ disk' = [disk EXCEPT ![active.id] = <<>>]
      /\ UNCHANGED <<items, verified, late>>
  BY DEF AbortDone
<1>3. LineVerified' /\ NoneDone([states EXCEPT ![active.id] = active.failed])
  BY <1>1, <1>2, EndActiveVerified DEF VerifiedInv, Status
<1>4. NoneDone(states)
  BY <1>1, <1>3 DEF NoneDone, TypeInv, ClientInv, LineOK
<1>5. \A g \in Files : states[g] = "done" => disk'[g] = disk[g]
  BY <1>1, <1>2 DEF VerifiedInv, LineVerified, ActiveNotDone, TypeInv, ClientInv
<1>6. VerifiedIsIntact'
  BY <1>2, <1>4, <1>5, VerifiedKept DEF VerifiedInv
<1>7. QED
  BY <1>1, <1>2, <1>3, <1>6, AfterHello

\* The file stays in doubt.
LEMMA LateWriteFailsVerified ==
    ASSUME TypeInv, VerifiedInv, NEW l \in late, LateWriteFails(l)
    PROVE  VerifiedInv'
<1>1. UNCHANGED <<items, states, verified, queue, active, disk>>
  BY DEF LateWriteFails, storageVars
<1>2. \A g : (\A k \in late' : k.id # g) => \A k \in late : k.id # g
  <2>1. late' = (late \ {l}) \cup {[l EXCEPT !.refused = FALSE]}
    BY DEF LateWriteFails
  <2>2. [l EXCEPT !.refused = FALSE].id = l.id
    BY DEF TypeInv, ClientInv
  <2>3. QED
    BY <2>1, <2>2
<1>3. QED
  BY <1>1, <1>2
  DEF VerifiedInv, LineVerified, HashMatchesDisk, ClosingIsWhole,
      ResumeMatchesDisk, OpeningIsClean, QueueStartsOver, ActiveNotDone,
      BeforeHello, VerifiedIsIntact

LEMMA LateAbortDoneVerified ==
    ASSUME TypeInv, VerifiedInv, NEW l \in late, LateAbortDone(l)
    PROVE  VerifiedInv'
<1>1. l.id \in Files /\ l.status \in {"error", "cancelled"}
  BY DEF TypeInv, ClientInv
<1>2. /\ late' = late \ {l}
      /\ states' = [states EXCEPT ![l.id] = l.status]
      /\ UNCHANGED <<items, verified, queue, active, disk>>
  BY DEF LateAbortDone
<1>3. NoneDone(states) /\ states'[l.id] # "done"
  BY <1>1, <1>2 DEF NoneDone, TypeInv, ClientInv, LineOK
<1>4. LineVerified'
  <2>1. ActiveNotDone'
    BY <1>1, <1>2
    DEF ActiveNotDone, VerifiedInv, LineVerified, TypeInv, ClientInv, LineOK
  <2>2. QED
    BY <1>2, <2>1
    DEF VerifiedInv, LineVerified, HashMatchesDisk, ClosingIsWhole,
        ResumeMatchesDisk, OpeningIsClean, QueueStartsOver
<1>5. VerifiedIsIntact'
  <2>1. SUFFICES ASSUME NEW g \in Files, states'[g] = "done", verified'[g],
                        \A k \in late' : k.id # g
                 PROVE  disk'[g] = Whole(g)
    BY DEF VerifiedIsIntact
  <2>2. g # l.id /\ states[g] = "done"
    BY <1>3, <2>1 DEF NoneDone
  <2>3. \A k \in late : k.id # g
    BY <1>2, <2>1, <2>2
  <2>4. QED
    BY <1>2, <2>1, <2>2, <2>3 DEF VerifiedInv, VerifiedIsIntact
<1>6. BeforeHello'
  BY <1>2, <1>3 DEF NoneDone, VerifiedInv, BeforeHello
<1>7. QED
  BY <1>4, <1>5, <1>6 DEF VerifiedInv

-----------------------------------------------------------------------------
(* Every step again. *)

LEMMA ClientUntouchedVerified ==
    ASSUME VerifiedInv, UNCHANGED clientVars
    PROVE  VerifiedInv'
BY DEF clientVars, storageVars, VerifiedInv, LineVerified, HashMatchesDisk,
       ClosingIsWhole, ResumeMatchesDisk, OpeningIsClean, QueueStartsOver,
       ActiveNotDone, BeforeHello, VerifiedIsIntact

LEMMA InitVerified == Init => VerifiedInv
<1> SUFFICES ASSUME Init PROVE VerifiedInv
  OBVIOUS
<1>1. /\ active.id = NoFile /\ ~active.ready /\ ~active.closing
      /\ active.chain = <<>> /\ active.failed = "no" /\ active.barrier = 0
  BY DEF Init, NoDownload, NewDownload
<1>2. queue = <<>> /\ states = [f \in Files |-> "idle"]
  BY DEF Init
<1>3. QED
  BY <1>1, <1>2
  DEF VerifiedInv, LineVerified, HashMatchesDisk, ClosingIsWhole,
      ResumeMatchesDisk, OpeningIsClean, QueueStartsOver, ActiveNotDone,
      BeforeHello, VerifiedIsIntact

LEMMA NextVerified ==
    TypeInv /\ RemovedOK /\ VerifiedInv /\ CheckpointFits /\ [Next]_vars
        => VerifiedInv'
<1> SUFFICES ASSUME TypeInv, RemovedOK, VerifiedInv, CheckpointFits,
                    [Next]_vars
             PROVE  VerifiedInv'
  OBVIOUS
<1>1. CASE UNCHANGED clientVars
  BY <1>1, ClientUntouchedVerified
<1>2. CASE ClientStep
  <2>1. Wasm \subseteq BOOLEAN
    OBVIOUS
  <2>2. QED
    BY <1>2, <2>1, OnClientMessageVerified, SinkOpenedVerified,
       OrphanOpenedVerified, WriteDoneVerified, WriteFailsVerified,
       CloseDoneVerified, AbortRemovesVerified, AbortDoneVerified,
       LateWriteFailsVerified, LateAbortDoneVerified
    DEF ClientStep
<1>3. CASE SinkOpenFails \/ WriteFails \/ CloseFails
  BY <1>3, SinkOpenFailsVerified, WriteFailsVerified, CloseFailsVerified
<1>4. CASE User
  <2>1. CASE CancelActive \/ AbortStalled
    <3>1. /\ active.id # NoFile
          /\ \/ FailActive("error", <<CancelMsg(active.id)>>)
             \/ FailActive("cancelled", <<CancelMsg(active.id)>>)
          /\ UNCHANGED <<items, verified, late, disk>>
      BY <2>1 DEF CancelActive, AbortStalled
    <3>2. QED
      BY <3>1, FailActiveKeepsVerified
  <2>2. QED
    BY <1>4, <2>1, UserDownloadVerified, CancelQueuedVerified, ReloadVerified,
       EvictVerified
    DEF User
<1>5. CASE ClientClose
  BY <1>5, ClientCloseVerified
<1>6. QED
  BY <1>1, <1>2, <1>3, <1>4, <1>5 DEF Next, Fault, Break, Connect, attach, vars

LEMMA VerifiedAlways == Spec /\ []CheckpointFits => []VerifiedIsIntact
<1>1. VerifiedInv => VerifiedIsIntact
  BY DEF VerifiedInv
<1>2. QED
  BY <1>1, InitVerified, NextVerified, TypeInvAlways, RemovedAlways, PTL
  DEF Spec

LEMMA OnDiskFits == TypeInv /\ CheckpointOnDisk => CheckpointFits
<1> SUFFICES ASSUME TypeInv, CheckpointOnDisk, active.id = NoFile,
                    NEW f \in Files, NEW n, n = Least(saved[f].offset, Size[f]), n > 0,
                    saved[f].hasState
             PROVE  \/ n > Len(disk[f])
                    \/ saved[f].hashed = SubSeq(disk[f], 1, n)
                    \/ Len(saved[f].hashed) > Size[f]
  BY DEF CheckpointFits
<1>1. /\ saved[f].offset \in Nat /\ Size[f] \in Nat
      /\ disk[f] \in Seq(Files \X Nat) /\ Len(disk[f]) \in Nat
  BY LenProperties DEF TypeInv, ClientInv, RecordsOK, ResumeFrom, FileBytes
<1>2. saved[f].offset > 0
  BY <1>1 DEF Least
<1>3. /\ saved[f].offset <= Len(disk[f])
      /\ saved[f].hashed = SubSeq(disk[f], 1, saved[f].offset)
  BY <1>2 DEF CheckpointOnDisk
<1>4. CASE saved[f].offset <= Size[f]
  BY <1>3, <1>4 DEF Least
<1>5. CASE ~(saved[f].offset <= Size[f])
  <2>1. Len(SubSeq(disk[f], 1, saved[f].offset)) = saved[f].offset
    <3>1. \A i \in 1..saved[f].offset : disk[f][i] \in Files \X Nat
      BY <1>1, <1>3, ElementOfSeq
    <3>2. QED
      BY <1>1, <3>1, SubSeqProperties
  <2>2. QED
    BY <1>1, <1>3, <1>5, <2>1
<1>6. QED
  BY <1>4, <1>5

\* A file the page shows as verified is the shared file, byte for byte,
\* whatever is cancelled, retried, lost, resumed or failed meanwhile, as long
\* as no checkpoint ever claims more than the disk holds: the digest finish()
\* compares covers exactly the bytes that were written.
THEOREM VerifiedFilesIntact ==
    Spec /\ []CheckpointOnDisk => []VerifiedIsIntact
BY OnDiskFits, VerifiedAlways, TypeInvAlways, PTL

-----------------------------------------------------------------------------
(* Six kinds of steps.                                                     *)

\* Nothing happens to the line; the active download may be being verified.
Kept ==
    /\ queue' = queue
    /\ active'.id = active.id
    /\ \/ states' = states
       \/ /\ active.id # NoFile
          /\ states' = [states EXCEPT ![active.id] = "verifying"]
    /\ late' = late \/ Doubt' = Doubt

\* A file that is not in the line is asked for, by the user or by a hello.
Asked ==
    /\ items'
    /\ \E f \in Files, from \in ResumeFrom :
          ~InLine(f) /\ RequestDownload(f, from)
    /\ late' = late

\* The active download ends.
HeadEnds ==
    /\ active.id # NoFile
    /\ \E o \in Ended :
          /\ TakeNext(queue, [states EXCEPT ![active.id] = o])
          /\ \/ late' = late
             \/ o = "done" /\ Doubt' = Doubt \cup {active.id}

Withdrawn ==
    /\ \E i \in DOMAIN queue :
          /\ queue' = RemoveAt(queue, i)
          /\ states' = [states EXCEPT ![queue[i].id] = "cancelled"]
    /\ active' = active
    /\ late' = late

TakenBack ==
    /\ \E l \in late :
          /\ late' = late \ {l}
          /\ states' = [states EXCEPT ![l.id] = l.status]
    /\ queue' = queue
    /\ active' = active

Forgotten ==
    /\ queue' = <<>>
    /\ active' = NoDownload
    /\ states' = [f \in Files |-> "idle"]
    /\ late' = {}

LineStep ==
    \/ Forgotten
    \/ (items => items') /\ (Kept \/ Asked \/ HeadEnds \/ Withdrawn \/ TakenBack)

\* Before the first hello there is no line.
BeforeItems == ~items => active.id = NoFile /\ queue = <<>>

LEMMA FailActiveLine ==
    ASSUME TypeInv, active.id # NoFile, NEW o \in {"error", "cancelled"},
           NEW msgs, FailActive(o, msgs), late' = late
    PROVE  Kept \/ HeadEnds
<1>1. CASE active.ready
  <2>1. active' = Failing(active, o) /\ queue' = queue /\ states' = states
    BY <1>1 DEF FailActive
  <2>2. active'.id = active.id
    BY <2>1 DEF Failing, TypeInv, ClientInv, LineOK, Download
  <2>3. QED
    BY <2>1, <2>2 DEF Kept
<1>2. CASE ~active.ready
  <2>1. TakeNext(queue, [states EXCEPT ![active.id] = o])
    BY <1>2 DEF FailActive, EndActive
  <2>2. QED
    BY <2>1 DEF HeadEnds, Ended
<1>3. QED
  BY <1>1, <1>2

LEMMA FinishLine ==
    ASSUME TypeInv, active.id # NoFile, NEW d \in Download, d.id = active.id,
           NEW acks, Finish(d, acks), queue' = queue, late' = late
    PROVE  Kept
<1>1. active'.id = active.id
  BY DEF Finish, Failing, Download
<1>2. states' = states \/ states' = [states EXCEPT ![active.id] = "verifying"]
  BY DEF Finish
<1>3. QED
  BY <1>1, <1>2 DEF Kept

LEMMA IgnoreLine == Ignore /\ late' = late => Kept
BY DEF Ignore, Kept

LEMMA OnHelloLine ==
    ASSUME TypeInv, BeforeItems, OnHello, items', late' = late
    PROVE  Kept \/ Asked
<1>1. CASE active.ready /\ active.failed = "no"
  <2>1. active'.id = active.id
    BY <1>1 DEF OnHello, resumeSaved, TypeInv, ClientInv, LineOK, Download
  <2>2. QED
    BY <1>1, <2>1 DEF OnHello, resumeSaved, Kept
<1>2. CASE /\ ~(active.ready /\ active.failed = "no")
           /\ ~items /\ \E f \in Files : saved[f].offset > 0
  <2>1. PICK f \in Files : RequestDownload(f, saved[f])
    BY <1>2 DEF OnHello, resumeSaved
  <2>2. saved[f] \in ResumeFrom
    BY DEF TypeInv, ClientInv, RecordsOK
  <2>3. ~InLine(f)
    BY <1>2 DEF BeforeItems, InLine
  <2>4. QED
    BY <2>1, <2>2, <2>3 DEF Asked
<1>3. CASE Ignore
  BY <1>3, IgnoreLine
<1>4. QED
  BY <1>1, <1>2, <1>3 DEF OnHello, resumeSaved

LEMMA OnMessageLine ==
    ASSUME TypeInv, BeforeItems, OnClientMessage
    PROVE  (items => items') /\ (Kept \/ Asked \/ HeadEnds)
<1> DEFINE m == Head(toClient)
<1>1. (items => items') /\ late' = late
  BY DEF OnClientMessage
<1>2. CASE m.t = "hello" /\ OnHello
  BY <1>1, <1>2, OnHelloLine DEF OnClientMessage
<1>3. Ignore => Kept
  BY <1>1, IgnoreLine
<1>4. ASSUME m.id = active.id, m \in SenderMsg, m.t \in {"start", "end", "error"}
      PROVE  active.id # NoFile
  BY <1>4, ProtocolAssumption
  DEF SenderMsg, Hello, Start, Chunks, Chunk, End, ErrorMsg
<1>5. m \in SenderMsg
  BY HeadTailProperties DEF OnClientMessage, TypeInv, ChannelTypeOK
<1>6. CASE m.t = "start" /\ OnStart(m)
  <2>1. CASE m.id # active.id
    BY <1>1, <1>3, <1>6, <2>1 DEF OnStart
  <2>2. CASE m.id = active.id
    <3>1. /\ queue' = queue /\ states' = states
          /\ active' = [active EXCEPT !.accepting = m.offset = active.received]
      BY <1>6, <2>2 DEF OnStart
    <3>2. active'.id = active.id
      BY <3>1 DEF TypeInv, ClientInv, LineOK, Download
    <3>3. QED
      BY <1>1, <3>1, <3>2 DEF Kept
  <2>3. QED
    BY <2>1, <2>2
<1>7. CASE m.t = "chunk" /\ OnChunk(m)
  <2>1. ASSUME active.accepting PROVE active.id # NoFile
    BY <2>1 DEF TypeInv, ClientInv, LineOK, ClientOK
  <2>2. CASE Ignore
    BY <1>1, <1>3, <2>2
  <2>3. CASE /\ active.accepting
             /\ \E msgs : FailActive("error", msgs)
    BY <1>1, <2>1, <2>3, FailActiveLine
  <2>4. CASE /\ active.accepting
             /\ active' = [active EXCEPT !.received = @ + m.len,
                                         !.chain = Append(@, m)]
             /\ queue' = queue /\ states' = states
    <3>1. active'.id = active.id
      BY <2>4 DEF TypeInv, ClientInv, LineOK, Download
    <3>2. QED
      BY <1>1, <2>4, <3>1 DEF Kept
  <2>5. QED
    BY <1>7, <2>2, <2>3, <2>4 DEF OnChunk
<1>8. CASE m.t = "end" /\ OnEnd(m)
  <2>1. CASE Ignore
    BY <1>1, <1>3, <2>1
  <2>2. CASE m.id = active.id /\ ~Ignore
    <3>1. active.id # NoFile
      BY <1>4, <1>5, <1>8, <2>2
    <3>2. CASE FailActive("error", <<Done(m.id, FALSE)>>)
      BY <1>1, <3>1, <3>2, FailActiveLine
    <3>3. CASE ~FailActive("error", <<Done(m.id, FALSE)>>)
      <4> DEFINE d == [active EXCEPT !.finishing = TRUE, !.expected = m.sha256]
      <4>1. queue' = queue
        BY <1>8, <2>2, <3>3 DEF OnEnd
      <4>2. m.sha256 \in Sha256
        BY <1>5, <1>8
        DEF SenderMsg, Hello, Start, Chunks, Chunk, End, ErrorMsg
      <4>3. d \in Download /\ d.id = active.id
        BY <4>2 DEF TypeInv, ClientInv, LineOK, Download
      <4>4. CASE Finish(d, <<>>)
        BY <1>1, <3>1, <4>1, <4>3, <4>4, FinishLine
      <4>5. CASE active' = [d EXCEPT !.barrier = Len(d.chain)] /\ states' = states
        <5>1. active'.id = active.id
          BY <4>3, <4>5 DEF Download
        <5>2. QED
          BY <1>1, <4>1, <4>5, <5>1 DEF Kept
      <4>6. QED
        BY <1>8, <2>2, <3>3, <4>4, <4>5 DEF OnEnd
    <3>4. QED
      BY <3>2, <3>3
  <2>3. QED
    BY <1>8, <2>1, <2>2 DEF OnEnd
<1>9. CASE m.t = "error" /\ OnError(m)
  <2>1. CASE Ignore
    BY <1>1, <1>3, <2>1
  <2>2. CASE m.id = active.id /\ FailActive("error", <<>>)
    BY <1>1, <1>4, <1>5, <1>9, <2>2, FailActiveLine
  <2>3. QED
    BY <1>9, <2>1, <2>2 DEF OnError
<1>10. QED
  BY <1>1, <1>2, <1>6, <1>7, <1>8, <1>9 DEF OnClientMessage

-----------------------------------------------------------------------------
(* The other actions of the client. *)

LEMMA WriteDoneLine ==
    ASSUME TypeInv, WriteDone
    PROVE  Kept
<1> DEFINE c == Head(active.chain)
           f == active.id
           n == active.written + c.len
           due == n - active.lastAck >= ACK_EVERY \/ n = Size[f]
           bytes == Bytes(c.id, c.at, c.at + c.len)
           d == [active EXCEPT
                    !.written = n,
                    !.lastAck = IF due THEN n ELSE @,
                    !.chain = IF active.failed = "no" THEN Tail(@) ELSE <<>>,
                    !.hashed = IF active.hasher THEN @ \o bytes ELSE @,
                    !.barrier = IF @ > 0 THEN @ - 1 ELSE 0]
           acks == IF due THEN <<Ack(f, n)>> ELSE <<>>
<1>1. queue' = queue /\ late' = late
  BY DEF WriteDone
<1>2. d.id = active.id /\ active.id # NoFile
  BY DEF WriteDone, TypeInv, ClientInv, LineOK, ClientOK, Download
<1>3. CASE active.barrier = 1
  <2>1. Finish(d, acks)
    BY <1>3 DEF WriteDone
  <2>2. d \in Download
    <3>1. /\ bytes \in FileBytes /\ c.len \in Nat
          /\ Tail(active.chain) \in Seq(Chunks)
      BY InFlightType DEF WriteDone, TypeInv, ClientInv, LineOK
    <3>2. active \in Download
      BY DEF TypeInv, ClientInv, LineOK
    <3>3. n \in Nat /\ active.hashed \o bytes \in FileBytes
      BY <3>1, <3>2, ConcatProperties DEF Download, FileBytes
    <3>4. (IF active.barrier > 0 THEN active.barrier - 1 ELSE 0) \in Nat
      BY <3>2 DEF Download
    <3>5. (IF active.failed = "no" THEN Tail(active.chain) ELSE <<>>)
          \in Seq(Chunks)
      BY <3>1
    <3>6. QED
      BY <3>1, <3>2, <3>3, <3>4, <3>5 DEF Download
  <2>3. QED
    BY <1>1, <1>2, <2>1, <2>2, FinishLine
<1>4. CASE active.barrier # 1
  BY <1>1, <1>2, <1>4 DEF WriteDone, Kept
<1>5. QED
  BY <1>3, <1>4

LEMMA CloseDoneLine ==
    ASSUME TypeInv, CloseDone
    PROVE  HeadEnds
<1> DEFINE aborts == IF active.failed # "no" THEN {active.failed}
                     ELSE IF active.chain # <<>> THEN {"error"}
                     ELSE {}
<1>1. active.id # NoFile
  BY DEF CloseDone, TypeInv, ClientInv, LineOK, ClientOK
<1>2. TakeNext(queue, [states EXCEPT ![active.id] = "done"])
  BY DEF CloseDone, EndActive
<1>3. late' = late \cup {[id |-> active.id, status |-> s,
                          refused |-> active.chain # <<>>] : s \in aborts}
  BY DEF CloseDone
<1>4. late' = late \/ Doubt' = Doubt \cup {active.id}
  <2>1. CASE aborts = {}
    BY <1>3, <2>1
  <2>2. CASE aborts # {}
    BY <1>3, <2>2 DEF Doubt
  <2>3. QED
    BY <2>1, <2>2
<1>5. QED
  BY <1>1, <1>2, <1>4 DEF HeadEnds, Ended

LEMMA ClientStepLine ==
    ASSUME TypeInv, BeforeItems, ClientStep
    PROVE  LineStep
<1>1. CASE OnClientMessage
  BY <1>1, OnMessageLine DEF LineStep
<1>2. ASSUME NEW wasm \in Wasm, SinkOpened(wasm) PROVE LineStep
  <2>1. active'.id = active.id
    BY <1>2 DEF SinkOpened, TypeInv, ClientInv, LineOK, Download
  <2>2. QED
    BY <1>2, <2>1 DEF SinkOpened, Kept, LineStep
<1>3. ASSUME NEW f \in Files, OrphanOpened(f) PROVE LineStep
  BY <1>3 DEF OrphanOpened, Kept, LineStep
<1>4. CASE WriteDone
  BY <1>4, WriteDoneLine DEF WriteDone, LineStep
<1>5. CASE WriteFails
  <2>1. active'.id = active.id
    BY <1>5 DEF WriteFails, Failing, TypeInv, ClientInv, LineOK, Download
  <2>2. QED
    BY <1>5, <2>1 DEF WriteFails, Kept, LineStep
<1>6. CASE CloseDone
  BY <1>6, CloseDoneLine DEF CloseDone, LineStep
<1>7. CASE AbortDone
  <2>1. active.id # NoFile /\ active.failed \in Ended
    BY <1>7 DEF AbortDone, TypeInv, ClientInv, LineOK, ClientOK, Download, Ended
  <2>2. TakeNext(queue, [states EXCEPT ![active.id] = active.failed])
    BY <1>7 DEF AbortDone, EndActive
  <2>3. late' = late /\ items' = items
    BY <1>7 DEF AbortDone
  <2>4. QED
    BY <2>1, <2>2, <2>3 DEF HeadEnds, LineStep
<1>8. ASSUME NEW l \in late, LateAbortDone(l) PROVE LineStep
  BY <1>8 DEF LateAbortDone, TakenBack, LineStep
<1>9. CASE AbortRemoves
  <2>1. active'.id = active.id
    BY <1>9 DEF AbortRemoves, TypeInv, ClientInv, LineOK, Download
  <2>2. QED
    BY <1>9, <2>1 DEF AbortRemoves, Kept, LineStep
<1>10. ASSUME NEW l \in late, LateWriteFails(l) PROVE LineStep
  <2>1. late' = (late \ {l}) \cup {[l EXCEPT !.refused = FALSE]}
    BY <1>10 DEF LateWriteFails
  <2>2. [l EXCEPT !.refused = FALSE].id = l.id
    BY DEF TypeInv, ClientInv
  <2>3. Doubt' = Doubt
    BY <2>1, <2>2 DEF Doubt
  <2>4. QED
    BY <1>10, <2>3 DEF LateWriteFails, Kept, LineStep
<1>11. QED
  BY <1>1, <1>2, <1>3, <1>4, <1>5, <1>6, <1>7, <1>8, <1>9, <1>10 DEF ClientStep

LEMMA FaultLine ==
    ASSUME TypeInv, Fault
    PROVE  LineStep
<1>1. CASE UNCHANGED clientVars
  BY <1>1 DEF clientVars, Kept, LineStep
<1>2. CASE SinkOpenFails
  <2>1. TakeNext(queue, [states EXCEPT ![active.id] = "error"])
    BY <1>2 DEF SinkOpenFails, EndActive
  <2>2. QED
    BY <1>2, <2>1 DEF SinkOpenFails, HeadEnds, Ended, LineStep
<1>3. CASE WriteFails \/ CloseFails
  <2>1. active'.id = active.id
    BY <1>3 DEF WriteFails, CloseFails, Failing, TypeInv, ClientInv, LineOK,
                Download
  <2>2. QED
    BY <1>3, <2>1 DEF WriteFails, CloseFails, Kept, LineStep
<1>4. QED
  BY <1>1, <1>2, <1>3 DEF Fault

LEMMA UserLine ==
    ASSUME TypeInv, User
    PROVE  LineStep
<1>1. ASSUME NEW f \in Files, UserDownload(f) PROVE LineStep
  <2>1. ~InLine(f) /\ RequestDownload(f, NoResume)
    BY <1>1 DEF UserDownload, InLine
  <2>2. NoResume \in ResumeFrom
    BY DEF NoResume, ResumeFrom, FileBytes, Folder
  <2>3. late' = late /\ items'
    BY <1>1 DEF UserDownload
  <2>4. QED
    BY <2>1, <2>2, <2>3 DEF Asked, LineStep
<1>2. CASE CancelActive \/ AbortStalled
  <2>1. /\ active.id # NoFile
        /\ \/ FailActive("error", <<CancelMsg(active.id)>>)
           \/ FailActive("cancelled", <<CancelMsg(active.id)>>)
        /\ late' = late /\ items' = items
    BY <1>2 DEF CancelActive, AbortStalled
  <2>2. QED
    BY <2>1, FailActiveLine DEF LineStep
<1>3. ASSUME NEW f \in Files, CancelQueued(f) PROVE LineStep
  BY <1>3 DEF CancelQueued, Withdrawn, LineStep
<1>4. CASE Reload
  BY <1>4 DEF Reload, Forgotten, LineStep
<1>5. CASE Evict
  BY <1>5 DEF Evict, Kept, LineStep
<1>6. QED
  BY <1>1, <1>2, <1>3, <1>4, <1>5 DEF User

LEMMA NextLine ==
    ASSUME TypeInv, BeforeItems, [Next]_vars
    PROVE  LineStep
<1>1. CASE UNCHANGED clientVars
  BY <1>1 DEF clientVars, Kept, LineStep
<1>2. CASE ClientStep
  BY <1>2, ClientStepLine
<1>3. CASE Fault
  BY <1>3, FaultLine
<1>4. CASE User
  BY <1>4, UserLine
<1>5. CASE ClientClose
  <2>1. active'.id = active.id
    BY <1>5 DEF ClientClose, TypeInv, ClientInv, LineOK, Download
  <2>2. QED
    BY <1>5, <2>1 DEF ClientClose, Kept, LineStep
<1>6. QED
  BY <1>1, <1>2, <1>3, <1>4, <1>5 DEF Next, Break, Connect, attach, vars

-----------------------------------------------------------------------------
(* The line as a sequence of files. *)

LEMMA IdsElements ==
    ASSUME NEW q \in Seq(Queued)
    PROVE  /\ Len(q) \in Nat /\ DOMAIN q = 1 .. Len(q)
           /\ Ids(q) \in Seq(Files) /\ Len(Ids(q)) = Len(q)
           /\ \A i \in 1 .. Len(q) : Ids(q)[i] = q[i].id
<1>1. Len(q) \in Nat /\ DOMAIN q = 1 .. Len(q)
  BY LenProperties
<1>2. ASSUME NEW i \in 1 .. Len(q) PROVE q[i].id \in Files
  <2>1. q[i] \in Queued
    BY ElementOfSeq
  <2>2. QED
    BY <2>1 DEF Queued
<1>3. Ids(q) = [i \in 1 .. Len(q) |-> q[i].id]
  BY <1>1 DEF Ids
<1>4. QED
  BY <1>1, <1>2, <1>3

LEMMA IdsEmpty == Ids(<<>>) = <<>> /\ DOMAIN <<>> = {}
<1> DEFINE e == <<>>
<1>1. e \in Seq(Queued) /\ Len(e) = 0
  OBVIOUS
<1> HIDE DEF e
<1>2. Ids(e) \in Seq(Files) /\ Len(Ids(e)) = 0 /\ DOMAIN e = 1 .. 0
  BY <1>1, IdsElements
<1>3. Ids(e) = <<>>
  BY <1>2, EmptySeq
<1>4. 1 .. 0 = {}
  OBVIOUS
<1>5. QED
  BY <1>2, <1>3, <1>4 DEF e

LEMMA ConsElements ==
    ASSUME NEW S, NEW e \in S, NEW s \in Seq(S)
    PROVE  /\ <<e>> \o s \in Seq(S) /\ Len(<<e>> \o s) = Len(s) + 1
           /\ (<<e>> \o s)[1] = e
           /\ \A i \in 1 .. Len(s) : (<<e>> \o s)[i + 1] = s[i]
           /\ <<e>> \o s # <<>> /\ Head(<<e>> \o s) = e
           /\ Tail(<<e>> \o s) = s
<1> DEFINE c == <<e>> \o s
<1>1. <<e>> \in Seq(S) /\ Len(<<e>>) = 1 /\ <<e>>[1] = e /\ Len(s) \in Nat
  OBVIOUS
<1>2. /\ c \in Seq(S) /\ Len(c) = 1 + Len(s)
      /\ \A i \in 1 .. 1 + Len(s) : c[i] = IF i <= 1 THEN <<e>>[i] ELSE s[i - 1]
  BY <1>1, ConcatProperties
<1> HIDE DEF c
<1>3. c[1] = e
  BY <1>1, <1>2
<1>4. ASSUME NEW i \in 1 .. Len(s) PROVE c[i + 1] = s[i]
  <2>1. i + 1 \in 1 .. 1 + Len(s) /\ ~(i + 1 <= 1) /\ i + 1 - 1 = i
    BY <1>1
  <2>2. QED
    BY <1>2, <2>1
<1>5. c # <<>> /\ Head(c) = e
  BY <1>1, <1>2, <1>3, EmptySeq
<1>6. Tail(c) = s
  <2>1. /\ Tail(c) \in Seq(S) /\ Len(Tail(c)) = Len(s)
        /\ \A i \in 1 .. Len(s) : Tail(c)[i] = c[i + 1]
    BY <1>1, <1>2, <1>5, HeadTailProperties
  <2>2. \A i \in 1 .. Len(s) : Tail(c)[i] = s[i]
    BY <1>4, <2>1
  <2>3. QED
    BY <2>1, <2>2, SeqEqual
<1>7. QED
  BY <1>1, <1>2, <1>3, <1>4, <1>5, <1>6 DEF c

LEMMA IdsAppend ==
    ASSUME NEW q \in Seq(Queued), NEW x \in Queued
    PROVE  Ids(Append(q, x)) = Append(Ids(q), x.id)
<1>1. /\ Append(q, x) \in Seq(Queued) /\ Len(Append(q, x)) = Len(q) + 1
      /\ \A i \in 1 .. Len(q) : Append(q, x)[i] = q[i]
      /\ Append(q, x)[Len(q) + 1] = x
  BY AppendProperties
<1>2. x.id \in Files
  BY DEF Queued
<1>3. /\ Ids(q) \in Seq(Files) /\ Len(Ids(q)) = Len(q) /\ Len(q) \in Nat
      /\ \A i \in 1 .. Len(q) : Ids(q)[i] = q[i].id
  BY IdsElements
<1> DEFINE l == Ids(Append(q, x))
           r == Append(Ids(q), x.id)
<1>4. /\ l \in Seq(Files) /\ Len(l) = Len(q) + 1
      /\ \A i \in 1 .. Len(q) + 1 : l[i] = Append(q, x)[i].id
  BY <1>1, IdsElements
<1>5. /\ r \in Seq(Files) /\ Len(r) = Len(q) + 1
      /\ \A i \in 1 .. Len(q) : r[i] = Ids(q)[i]
      /\ r[Len(q) + 1] = x.id
  BY <1>2, <1>3, AppendProperties
<1> HIDE DEF l, r
<1>6. ASSUME NEW i \in 1 .. Len(q) + 1 PROVE l[i] = r[i]
  <2>1. CASE i = Len(q) + 1
    BY <1>1, <1>3, <1>4, <1>5, <2>1
  <2>2. CASE i # Len(q) + 1
    <3>1. i \in 1 .. Len(q)
      BY <1>3, <2>2
    <3>2. QED
      BY <1>1, <1>3, <1>4, <1>5, <3>1
  <2>3. QED
    BY <2>1, <2>2
<1>7. l = r
  BY <1>4, <1>5, <1>6, SeqEqual
<1>8. QED
  BY <1>7 DEF l, r

LEMMA IdsTail ==
    ASSUME NEW q \in Seq(Queued), q # <<>>
    PROVE  /\ Head(q) \in Queued /\ Tail(q) \in Seq(Queued)
           /\ Ids(q) = <<Head(q).id>> \o Ids(Tail(q))
<1>1. /\ Head(q) \in Queued /\ Tail(q) \in Seq(Queued)
      /\ Len(Tail(q)) = Len(q) - 1
      /\ \A i \in 1 .. Len(Tail(q)) : Tail(q)[i] = q[i + 1]
  BY HeadTailProperties
<1>2. Head(q) = q[1] /\ Head(q).id \in Files
  BY <1>1 DEF Queued
<1>3. /\ Ids(q) \in Seq(Files) /\ Len(Ids(q)) = Len(q) /\ Len(q) \in Nat
      /\ \A i \in 1 .. Len(q) : Ids(q)[i] = q[i].id
  BY IdsElements
<1>4. /\ Ids(Tail(q)) \in Seq(Files) /\ Len(Ids(Tail(q))) = Len(Tail(q))
      /\ \A i \in 1 .. Len(Tail(q)) : Ids(Tail(q))[i] = Tail(q)[i].id
  BY <1>1, IdsElements
<1> DEFINE r == <<Head(q).id>> \o Ids(Tail(q))
<1>5. /\ r \in Seq(Files) /\ Len(r) = Len(Ids(Tail(q))) + 1
      /\ r[1] = Head(q).id
      /\ \A i \in 1 .. Len(Ids(Tail(q))) : r[i + 1] = Ids(Tail(q))[i]
  BY <1>2, <1>4, ConsElements
<1> HIDE DEF r
<1>6. ASSUME NEW i \in 1 .. Len(q) PROVE Ids(q)[i] = r[i]
  <2>1. CASE i = 1
    BY <1>2, <1>3, <1>5, <2>1
  <2>2. CASE i # 1
    <3>1. i - 1 \in 1 .. Len(Tail(q)) /\ i - 1 + 1 = i
      BY <1>1, <1>3, <2>2
    <3>2. r[i - 1 + 1] = Ids(Tail(q))[i - 1]
      BY <1>4, <1>5, <3>1
    <3>3. Ids(Tail(q))[i - 1] = q[i - 1 + 1].id
      BY <1>1, <1>4, <3>1
    <3>4. QED
      BY <1>3, <3>1, <3>2, <3>3
  <2>3. QED
    BY <2>1, <2>2
<1>7. Len(r) = Len(q)
  <2>1. Len(r) = Len(Tail(q)) + 1
    BY <1>4, <1>5
  <2>2. QED
    BY <1>1, <1>3, <2>1
<1>8. Ids(q) = r
  BY <1>3, <1>5, <1>6, <1>7, SeqEqual
<1>9. QED
  BY <1>1, <1>8 DEF r

LEMMA RemoveAtElements ==
    ASSUME NEW S, NEW q \in Seq(S), NEW k \in 1 .. Len(q)
    PROVE  /\ RemoveAt(q, k) \in Seq(S)
           /\ Len(RemoveAt(q, k)) = Len(q) - 1
           /\ \A i \in 1 .. Len(q) - 1 :
                  RemoveAt(q, k)[i] = IF i < k THEN q[i] ELSE q[i + 1]
<1> DEFINE u == SubSeq(q, 1, k - 1)
           v == SubSeq(q, k + 1, Len(q))
<1>1. Len(q) \in Nat /\ \A i \in 1 .. Len(q) : q[i] \in S
  BY LenProperties, ElementOfSeq
<1>2. /\ u \in Seq(S) /\ Len(u) = k - 1
      /\ \A i \in 1 .. k - 1 : u[i] = q[i]
  <2>1. \A i \in 1 .. k - 1 : q[i] \in S
    BY <1>1
  <2>2. /\ u \in Seq(S)
        /\ Len(u) = IF 1 <= k - 1 THEN k - 1 - 1 + 1 ELSE 0
        /\ \A i \in 1 .. k - 1 - 1 + 1 : u[i] = q[1 + i - 1]
    BY <1>1, <2>1, SubSeqProperties
  <2>3. QED
    BY <1>1, <2>2
<1>3. /\ v \in Seq(S) /\ Len(v) = Len(q) - k
      /\ \A i \in 1 .. Len(q) - k : v[i] = q[i + k]
  <2>1. \A i \in k + 1 .. Len(q) : q[i] \in S
    BY <1>1
  <2>2. /\ v \in Seq(S)
        /\ Len(v) = IF k + 1 <= Len(q) THEN Len(q) - (k + 1) + 1 ELSE 0
        /\ \A i \in 1 .. Len(q) - (k + 1) + 1 : v[i] = q[k + 1 + i - 1]
    BY <1>1, <2>1, SubSeqProperties
  <2>3. QED
    BY <1>1, <2>2
<1>4. RemoveAt(q, k) = u \o v
  BY DEF RemoveAt
<1> DEFINE w == u \o v
<1> HIDE DEF u, v
<1>5. /\ w \in Seq(S) /\ Len(w) = Len(u) + Len(v)
      /\ \A i \in 1 .. Len(u) + Len(v) :
             w[i] = IF i <= Len(u) THEN u[i] ELSE v[i - Len(u)]
  <2>1. u \in Seq(S) /\ v \in Seq(S)
    BY <1>2, <1>3
  <2>2. QED
    BY <2>1, ConcatProperties
<1> HIDE DEF w
<1>6. Len(w) = Len(q) - 1
  BY <1>1, <1>2, <1>3, <1>5
<1>7. ASSUME NEW i \in 1 .. Len(q) - 1
      PROVE  w[i] = IF i < k THEN q[i] ELSE q[i + 1]
  <2>1. CASE i < k
    <3>1. /\ i \in 1 .. k - 1 /\ i <= Len(u)
          /\ i \in 1 .. Len(u) + Len(v)
      BY <1>1, <1>2, <1>3, <2>1
    <3>2. w[i] = u[i] /\ u[i] = q[i]
      BY <1>2, <1>5, <3>1
    <3>3. QED
      BY <2>1, <3>2
  <2>2. CASE ~(i < k)
    <3>1. /\ i - Len(u) \in 1 .. Len(q) - k /\ i - Len(u) + k = i + 1
          /\ ~(i <= Len(u)) /\ i \in 1 .. Len(u) + Len(v)
      BY <1>1, <1>2, <1>3, <2>2
    <3>2. w[i] = v[i - Len(u)] /\ v[i - Len(u)] = q[i - Len(u) + k]
      BY <1>3, <1>5, <3>1
    <3>3. QED
      BY <2>2, <3>1, <3>2
  <2>3. QED
    BY <2>1, <2>2
<1>8. RemoveAt(q, k) = w
  BY <1>4 DEF w
<1>9. QED
  BY <1>5, <1>6, <1>7, <1>8

LEMMA IdsRemove ==
    ASSUME NEW q \in Seq(Queued), NEW k \in 1 .. Len(q)
    PROVE  Ids(RemoveAt(q, k)) = RemoveAt(Ids(q), k)
<1> DEFINE p == RemoveAt(q, k)
           l == Ids(p)
           r == RemoveAt(Ids(q), k)
<1>1. /\ Ids(q) \in Seq(Files) /\ Len(Ids(q)) = Len(q) /\ Len(q) \in Nat
      /\ \A i \in 1 .. Len(q) : Ids(q)[i] = q[i].id
  BY IdsElements
<1>2. /\ p \in Seq(Queued) /\ Len(p) = Len(q) - 1
      /\ \A i \in 1 .. Len(q) - 1 : p[i] = IF i < k THEN q[i] ELSE q[i + 1]
  BY RemoveAtElements
<1> HIDE DEF p
<1>3. /\ l \in Seq(Files) /\ Len(l) = Len(p)
      /\ \A i \in 1 .. Len(p) : l[i] = p[i].id
  BY <1>2, IdsElements
<1>4. /\ r \in Seq(Files) /\ Len(r) = Len(q) - 1
      /\ \A i \in 1 .. Len(q) - 1 :
             r[i] = IF i < k THEN Ids(q)[i] ELSE Ids(q)[i + 1]
  BY <1>1, RemoveAtElements
<1> HIDE DEF l, r
<1>5. ASSUME NEW i \in 1 .. Len(q) - 1 PROVE l[i] = r[i]
  <2>1. i \in 1 .. Len(q) /\ i + 1 \in 1 .. Len(q) /\ i \in 1 .. Len(p)
    BY <1>1, <1>2
  <2>2. QED
    BY <1>1, <1>2, <1>3, <1>4, <2>1
<1>6. l = r
  BY <1>2, <1>3, <1>4, <1>5, SeqEqual
<1>7. QED
  BY <1>6 DEF l, r, p

LEMMA RemoveCons ==
    ASSUME NEW S, NEW e \in S, NEW s \in Seq(S), NEW k \in 1 .. Len(s)
    PROVE  RemoveAt(<<e>> \o s, k + 1) = <<e>> \o RemoveAt(s, k)
<1> DEFINE c == <<e>> \o s
           p == RemoveAt(s, k)
           l == RemoveAt(c, k + 1)
           r == <<e>> \o p
<1>1. Len(s) \in Nat
  BY LenProperties
<1>2. /\ c \in Seq(S) /\ Len(c) = Len(s) + 1 /\ c[1] = e
      /\ \A i \in 1 .. Len(s) : c[i + 1] = s[i]
  BY ConsElements
<1> HIDE DEF c
<1>3. /\ p \in Seq(S) /\ Len(p) = Len(s) - 1
      /\ \A i \in 1 .. Len(s) - 1 : p[i] = IF i < k THEN s[i] ELSE s[i + 1]
  BY RemoveAtElements
<1> HIDE DEF p
<1>4. /\ l \in Seq(S) /\ Len(l) = Len(c) - 1
      /\ \A i \in 1 .. Len(c) - 1 : l[i] = IF i < k + 1 THEN c[i] ELSE c[i + 1]
  <2>1. k + 1 \in 1 .. Len(c)
    BY <1>1, <1>2
  <2>2. QED
    BY <1>2, <2>1, RemoveAtElements
<1>5. /\ r \in Seq(S) /\ Len(r) = Len(p) + 1 /\ r[1] = e
      /\ \A i \in 1 .. Len(p) : r[i + 1] = p[i]
  BY <1>3, ConsElements
<1> HIDE DEF l, r
<1>6. ASSUME NEW i \in 1 .. Len(s) PROVE l[i] = r[i]
  <2>1. i \in 1 .. Len(c) - 1
    BY <1>1, <1>2
  <2>2. CASE i = 1
    BY <1>1, <1>2, <1>4, <1>5, <2>1, <2>2
  <2>3. CASE i # 1
    <3> DEFINE j == i - 1
    <3>1. /\ j \in 1 .. Len(s) - 1 /\ i = j + 1 /\ j \in 1 .. Len(s)
          /\ j + 1 \in 1 .. Len(s) /\ (i < k + 1 <=> j < k)
      BY <1>1, <2>3
    <3> HIDE DEF j
    <3>2. r[i] = p[j]
      BY <1>3, <1>5, <3>1
    <3>3. p[j] = IF j < k THEN s[j] ELSE s[j + 1]
      BY <1>3, <3>1
    <3>4. c[j + 1] = s[j] /\ c[j + 1 + 1] = s[j + 1]
      BY <1>2, <3>1
    <3>5. l[i] = IF j < k THEN c[j + 1] ELSE c[j + 1 + 1]
      BY <1>4, <2>1, <3>1
    <3>6. QED
      BY <3>2, <3>3, <3>4, <3>5
  <2>4. QED
    BY <2>2, <2>3
<1>7. Len(l) = Len(s) /\ Len(r) = Len(s)
  BY <1>1, <1>2, <1>3, <1>4, <1>5
<1>8. l = r
  BY <1>4, <1>5, <1>6, <1>7, SeqEqual
<1>9. QED
  BY <1>8 DEF l, r, p, c

LEMMA IdsRange ==
    ASSUME NEW q \in Seq(Queued), NEW f
    PROVE  f \in Range(Ids(q)) <=> \E i \in DOMAIN q : q[i].id = f
<1>1. DOMAIN Ids(q) = DOMAIN q
  BY DEF Ids
<1>2. \A i \in DOMAIN q : Ids(q)[i] = q[i].id
  BY DEF Ids
<1>3. QED
  BY <1>1, <1>2 DEF Range

LEMMA ConsRange ==
    ASSUME NEW S, NEW e \in S, NEW s \in Seq(S), NEW f
    PROVE  f \in Range(<<e>> \o s) <=> f = e \/ f \in Range(s)
<1> DEFINE c == <<e>> \o s
<1>1. /\ c \in Seq(S) /\ Len(c) = Len(s) + 1 /\ c[1] = e
      /\ \A i \in 1 .. Len(s) : c[i + 1] = s[i]
  BY ConsElements
<1>2. Len(s) \in Nat /\ DOMAIN s = 1 .. Len(s) /\ DOMAIN c = 1 .. Len(c)
  BY <1>1, LenProperties
<1> HIDE DEF c
<1>3. ASSUME NEW i \in DOMAIN c, c[i] = f PROVE f = e \/ f \in Range(s)
  <2>1. CASE i = 1
    BY <1>1, <1>3, <2>1
  <2>2. CASE i # 1
    <3> DEFINE j == i - 1
    <3>1. j \in DOMAIN s /\ i = j + 1
      BY <1>1, <1>2, <2>2
    <3> HIDE DEF j
    <3>2. s[j] = f
      BY <1>1, <1>2, <1>3, <3>1
    <3>3. QED
      BY <3>1, <3>2 DEF Range
  <2>3. QED
    BY <2>1, <2>2
<1>4. e \in Range(c)
  <2>1. 1 \in DOMAIN c
    BY <1>1, <1>2
  <2>2. QED
    BY <1>1, <2>1 DEF Range
<1>5. ASSUME NEW j \in DOMAIN s, s[j] = f PROVE f \in Range(c)
  <2>1. j + 1 \in DOMAIN c /\ c[j + 1] = f
    BY <1>1, <1>2, <1>5
  <2>2. QED
    BY <2>1 DEF Range
<1>6. f \in Range(c) => f = e \/ f \in Range(s)
  BY <1>3 DEF Range
<1>7. f \in Range(s) => f \in Range(c)
  BY <1>5 DEF Range
<1>8. QED
  BY <1>4, <1>6, <1>7 DEF c

LEMMA LineRange ==
    ASSUME LineOK, active.id = NoFile => queue = <<>>, NEW f \in Files
    PROVE  f \in Range(Line) <=> InLine(f)
<1>1. queue \in Seq(Queued) /\ Ids(queue) \in Seq(Files)
  BY IdsElements DEF LineOK
<1>2. f \in Range(Ids(queue)) <=> \E i \in DOMAIN queue : queue[i].id = f
  BY <1>1, IdsRange
<1>3. CASE active.id = NoFile
  BY <1>2, <1>3 DEF Line, InLine
<1>4. CASE active.id # NoFile
  <2>1. active.id \in Files
    BY <1>4 DEF LineOK, Download
  <2>2. f \in Range(<<active.id>> \o Ids(queue)) <=>
            f = active.id \/ f \in Range(Ids(queue))
    BY <1>1, <2>1, ConsRange
  <2>3. QED
    BY <1>2, <1>4, <2>2 DEF Line, InLine
<1>5. QED
  BY <1>3, <1>4

-----------------------------------------------------------------------------
(* The six kinds of steps are steps of Delivery, because no file is in the *)
(* line twice, and nothing waits while nothing is active.                  *)

NoGap == active.id = NoFile => queue = <<>>

OnceEach ==
    \A i \in DOMAIN queue :
        /\ queue[i].id # active.id
        /\ \A j \in DOMAIN queue : queue[i].id = queue[j].id => i = j

LineInv == BeforeItems /\ NoGap /\ OnceEach

MappedStep == [D!Next]_<<Line, Outcome, Doubt>>

LEMMA KeptMaps ==
    ASSUME TypeInv, LineInv, items => items', Kept
    PROVE  LineInv' /\ MappedStep
<1>1. LineInv'
  BY DEF LineInv, BeforeItems, NoGap, OnceEach, Kept
<1>2. Line' = Line /\ Doubt' = Doubt
  BY DEF Line, Ids, Doubt, Kept
<1>3. ASSUME NEW f \in Files
      PROVE  /\ InLine(f)' <=> InLine(f)
             /\ ~InLine(f) => states'[f] = states[f]
  BY <1>3 DEF InLine, Kept, TypeInv, ClientInv, LineOK
<1>4. Outcome' = Outcome
  BY <1>3 DEF Outcome
<1>5. QED
  BY <1>1, <1>2, <1>4 DEF MappedStep

LEMMA AskedMaps ==
    ASSUME TypeInv, LineInv, Asked
    PROVE  LineInv' /\ MappedStep
<1>1. PICK f \in Files, from \in ResumeFrom :
          ~InLine(f) /\ RequestDownload(f, from)
  BY DEF Asked
<1> DEFINE x == [id |-> f, from |-> from]
           q == Append(queue, x)
           st == [states EXCEPT ![f] = "queued"]
<1>2. /\ queue \in Seq(Queued) /\ active \in Download
      /\ states \in [Files -> Status] /\ LineOK
  BY DEF TypeInv, ClientInv, LineOK
<1>3. x \in Queued /\ x.id = f
  BY DEF Queued
<1>4. items' /\ Doubt' = Doubt
  BY DEF Asked, Doubt
<1>5. /\ active'.id \in Files
      /\ Line' = Append(Line, f)
      /\ \A g \in Files : g # f => states'[g] = states[g]
      /\ \A g \in Files : InLine(g)' <=> g = f \/ InLine(g)
      /\ OnceEach'
  <2>1. CASE active.id = NoFile
    <3>1. queue = <<>>
      BY <2>1 DEF LineInv, NoGap
    <3>2. q # <<>> /\ Head(q) = x /\ Tail(q) = <<>>
      BY <1>3, <3>1
    <3>3. TakeNext(q, st)
      BY <1>1, <2>1 DEF RequestDownload
    <3>4. /\ active'.id = f /\ queue' = <<>>
          /\ states' = [st EXCEPT ![f] = "receiving"]
      BY <1>3, <3>2, <3>3 DEF TakeNext, NewDownload
    <3>5. Ids(<<>>) = <<>> /\ DOMAIN <<>> = {}
      BY IdsEmpty
    <3>6. Line = <<>> /\ Line' = <<f>>
      <4>1. Line = <<>>
        BY <2>1, <3>1, <3>5 DEF Line
      <4>2. Ids(queue)' = <<>>
        BY <3>4, <3>5 DEF Ids
      <4>3. f # NoFile /\ <<f>> \o <<>> = <<f>>
        OBVIOUS
      <4>4. QED
        BY <3>4, <4>1, <4>2, <4>3 DEF Line
    <3>7. Line' = Append(Line, f)
      BY <3>6
    <3>8. \A g \in Files : g # f => states'[g] = states[g]
      BY <1>2, <3>4
    <3>9. \A g \in Files : InLine(g)' <=> g = f \/ InLine(g)
      BY <2>1, <3>1, <3>4, <3>5 DEF InLine
    <3>10. QED
      BY <3>4, <3>5, <3>7, <3>8, <3>9 DEF OnceEach
  <2>2. CASE active.id # NoFile
    <3>1. queue' = q /\ states' = st /\ active' = active
      BY <1>1, <2>2 DEF RequestDownload
    <3>2. active.id \in Files
      BY <1>2, <2>2 DEF Download
    <3>3. /\ q \in Seq(Queued) /\ Len(q) = Len(queue) + 1
          /\ \A i \in 1 .. Len(queue) : q[i] = queue[i]
          /\ q[Len(queue) + 1] = x
      BY <1>2, <1>3, AppendProperties
    <3>4. /\ Len(queue) \in Nat /\ DOMAIN queue = 1 .. Len(queue)
          /\ DOMAIN q = 1 .. Len(queue) + 1
      BY <1>2, <3>3, LenProperties
    <3>5. Line' = Append(Line, f)
      <4>1. Ids(queue)' = Append(Ids(queue), f)
        BY <1>2, <1>3, <3>1, IdsAppend DEF Ids
      <4>2. Ids(queue) \in Seq(Files) /\ <<active.id>> \in Seq(Files)
        BY <1>2, <3>2, IdsElements
      <4>3. /\ <<active.id>> \o Append(Ids(queue), f)
                = <<active.id>> \o (Ids(queue) \o <<f>>)
            /\ <<f>> \in Seq(Files)
        BY <4>2, AppendIsConcat
      <4>4. <<active.id>> \o (Ids(queue) \o <<f>>)
                = (<<active.id>> \o Ids(queue)) \o <<f>>
        BY <4>2, <4>3, ConcatAssociative
      <4>5. (<<active.id>> \o Ids(queue)) \o <<f>>
                = Append(<<active.id>> \o Ids(queue), f)
        BY <4>2, ConcatProperties, AppendIsConcat
      <4>6. QED
        BY <2>2, <3>1, <4>1, <4>3, <4>4, <4>5 DEF Line
    <3>6. \A g \in Files : g # f => states'[g] = states[g]
      BY <1>2, <3>1
    <3> HIDE DEF q, x
    <3>7. \A g \in Files : InLine(g)' <=> g = f \/ InLine(g)
      <4>1. ASSUME NEW g, NEW i \in DOMAIN q, q[i].id = g
            PROVE  g = f \/ \E j \in DOMAIN queue : queue[j].id = g
        BY <1>3, <3>3, <3>4, <4>1
      <4>2. ASSUME NEW g, NEW j \in DOMAIN queue, queue[j].id = g
            PROVE  \E i \in DOMAIN q : q[i].id = g
        BY <3>3, <3>4, <4>2
      <4>3. \E i \in DOMAIN q : q[i].id = f
        <5>1. Len(queue) + 1 \in DOMAIN q
          BY <3>4
        <5>2. QED
          BY <1>3, <3>3, <5>1
      <4>4. QED
        BY <3>1, <4>1, <4>2, <4>3 DEF InLine
    <3>8. OnceEach'
      <4>1. ASSUME NEW i \in DOMAIN q PROVE q[i].id # active.id
        BY <1>1, <1>3, <3>3, <3>4 DEF LineInv, OnceEach, InLine
      <4>2. ASSUME NEW i \in DOMAIN q, NEW j \in DOMAIN q, q[i].id = q[j].id
            PROVE  i = j
        BY <1>1, <1>3, <3>3, <3>4, <4>2 DEF LineInv, OnceEach, InLine
      <4>3. QED
        BY <3>1, <4>1, <4>2 DEF OnceEach
    <3>9. QED
      BY <3>1, <3>2, <3>5, <3>6, <3>7, <3>8
  <2>3. QED
    BY <2>1, <2>2
<1>6. LineInv'
  BY <1>4, <1>5 DEF LineInv, BeforeItems, NoGap
<1>7. Outcome' = [Outcome EXCEPT ![f] = "asked"]
  BY <1>5 DEF Outcome
<1>8. f \notin Range(Line)
  BY <1>1, <1>2, LineRange DEF LineInv, NoGap
<1>9. D!Ask(f)
  BY <1>4, <1>5, <1>7, <1>8 DEF D!Ask, D!Range, Range
<1>10. QED
  BY <1>6, <1>9 DEF MappedStep, D!Next

LEMMA HeadEndsMaps ==
    ASSUME TypeInv, LineInv, items => items', HeadEnds
    PROVE  LineInv' /\ MappedStep
<1>1. PICK o \in Ended :
          /\ TakeNext(queue, [states EXCEPT ![active.id] = o])
          /\ \/ late' = late
             \/ o = "done" /\ Doubt' = Doubt \cup {active.id}
  BY DEF HeadEnds
<1> DEFINE a == active.id
           st == [states EXCEPT ![a] = o]
<1>2. /\ queue \in Seq(Queued) /\ states \in [Files -> Status]
      /\ a \in Files /\ LineOK
  BY DEF HeadEnds, TypeInv, ClientInv, LineOK, Download
<1>3. items'
  BY DEF LineInv, BeforeItems, HeadEnds
<1>4. /\ Len(queue) \in Nat /\ DOMAIN queue = 1 .. Len(queue)
      /\ Ids(queue) \in Seq(Files)
  BY <1>2, IdsElements
<1>5. Line = <<a>> \o Ids(queue) /\ a # NoFile
  BY <1>2 DEF Line
<1>6. Line # <<>> /\ Head(Line) = a /\ Tail(Line) = Ids(queue)
  BY <1>2, <1>4, <1>5, ConsElements
<1>7. /\ Line' = Ids(queue)
      /\ \A f \in Files :
             InLine(f)' <=> \E i \in DOMAIN queue : queue[i].id = f
      /\ \A f \in Files : ~InLine(f)' => states'[f] = st[f]
      /\ NoGap' /\ OnceEach'
  <2>1. CASE queue = <<>>
    <3>1. active'.id = NoFile /\ queue' = <<>> /\ states' = st
      BY <1>1, <2>1 DEF TakeNext, NoDownload, NewDownload
    <3>2. Ids(<<>>) = <<>> /\ DOMAIN <<>> = {}
      BY IdsEmpty
    <3>3. Line' = Ids(queue)
      <4>1. Ids(queue)' = Ids(queue)
        BY <2>1, <3>1 DEF Ids
      <4>2. QED
        BY <3>1, <4>1 DEF Line
    <3>4. ASSUME NEW f \in Files
          PROVE  InLine(f)' <=> \E i \in DOMAIN queue : queue[i].id = f
      BY <2>1, <3>1, <3>2 DEF InLine
    <3>5. NoGap' /\ OnceEach'
      BY <3>1, <3>2 DEF NoGap, OnceEach
    <3>6. QED
      BY <3>1, <3>3, <3>4, <3>5
  <2>2. CASE queue # <<>>
    <3> DEFINE h == Head(queue).id
    <3>1. /\ active'.id = h /\ queue' = Tail(queue)
          /\ states' = [st EXCEPT ![h] = "receiving"]
      BY <1>1, <2>2 DEF TakeNext, NewDownload
    <3>2. /\ Head(queue) \in Queued /\ Head(queue) = queue[1]
          /\ Len(queue) >= 1
          /\ Tail(queue) \in Seq(Queued) /\ Len(Tail(queue)) = Len(queue) - 1
          /\ \A i \in 1 .. Len(Tail(queue)) : Tail(queue)[i] = queue[i + 1]
      BY <1>2, <1>4, <2>2, HeadTailProperties, EmptySeq
    <3>3. /\ h \in Files /\ h # NoFile /\ h = queue[1].id
      BY <3>2 DEF Queued
    <3>4. Ids(queue) = <<h>> \o Ids(Tail(queue))
      BY <1>2, <2>2, IdsTail
    <3>5. Line' = Ids(queue)
      <4>1. Ids(queue)' = Ids(Tail(queue))
        BY <3>1 DEF Ids
      <4>2. QED
        BY <3>1, <3>3, <3>4, <4>1 DEF Line
    <3>6. DOMAIN Tail(queue) = 1 .. Len(queue) - 1
      BY <3>2, LenProperties
    <3> DEFINE t == Tail(queue)
    <3>7. /\ DOMAIN t = 1 .. Len(queue) - 1
          /\ \A i \in 1 .. Len(queue) - 1 : t[i] = queue[i + 1]
      BY <3>2, <3>6
    <3> HIDE DEF t, h
    <3>8. ASSUME NEW f \in Files
          PROVE  InLine(f)' <=> \E i \in DOMAIN queue : queue[i].id = f
      <4>1. InLine(f)' <=> f = h \/ \E i \in DOMAIN t : t[i].id = f
        BY <3>1 DEF InLine, t
      <4>2. ASSUME NEW i \in DOMAIN t, t[i].id = f
            PROVE  \E j \in DOMAIN queue : queue[j].id = f
        <5>1. i + 1 \in DOMAIN queue /\ queue[i + 1].id = f
          BY <1>4, <3>7, <4>2
        <5>2. QED
          BY <5>1
      <4>3. 1 \in DOMAIN queue
        BY <1>4, <3>2
      <4>4. ASSUME NEW j \in DOMAIN queue, queue[j].id = f
            PROVE  f = h \/ \E i \in DOMAIN t : t[i].id = f
        <5>1. CASE j = 1
          BY <3>3, <4>4, <5>1
        <5>2. CASE j # 1
          <6>1. j - 1 \in DOMAIN t /\ j - 1 + 1 = j
            BY <1>4, <3>7, <5>2
          <6>2. t[j - 1].id = f
            BY <3>7, <4>4, <6>1
          <6>3. QED
            BY <6>1, <6>2
        <5>3. QED
          BY <5>1, <5>2
      <4>5. QED
        BY <3>3, <4>1, <4>2, <4>3, <4>4
    <3>9. \A f \in Files : ~InLine(f)' => states'[f] = st[f]
      <4>1. \A f \in Files : f = h => InLine(f)'
        BY <3>1 DEF InLine
      <4>2. st \in [Files -> Status]
        BY <1>2 DEF Ended, Status
      <4>3. QED
        BY <3>1, <4>1, <4>2
    <3>10. OnceEach'
      <4>1. ASSUME NEW i \in DOMAIN t
            PROVE  /\ i + 1 \in DOMAIN queue /\ 1 \in DOMAIN queue /\ i + 1 # 1
                   /\ i \in Nat /\ t[i] = queue[i + 1]
        BY <1>4, <3>7, <4>1
      <4>2. ASSUME NEW i \in DOMAIN t PROVE t[i].id # h
        BY <3>3, <4>1, <4>2 DEF LineInv, OnceEach
      <4>3. ASSUME NEW i \in DOMAIN t, NEW j \in DOMAIN t, t[i].id = t[j].id
            PROVE  i = j
        <5>1. i + 1 = j + 1
          BY <4>1, <4>3 DEF LineInv, OnceEach
        <5>2. QED
          BY <4>1, <5>1
      <4>4. QED
        BY <3>1, <4>2, <4>3 DEF OnceEach, t
    <3>11. NoGap'
      BY <3>1, <3>3 DEF NoGap
    <3>12. QED
      BY <3>5, <3>8, <3>9, <3>10, <3>11
  <2>3. QED
    BY <2>1, <2>2
<1>8. LineInv'
  BY <1>3, <1>7 DEF LineInv, BeforeItems
<1>9. Outcome' = [Outcome EXCEPT ![a] = o]
  <2>1. \A i \in DOMAIN queue : queue[i].id # a
    BY DEF LineInv, OnceEach
  <2>2. st[a] = o /\ \A f \in Files : f # a => st[f] = states[f]
    BY <1>2
  <2>3. ASSUME NEW f \in Files
        PROVE  (IF InLine(f)' THEN "asked" ELSE states'[f])
                   = IF f = a THEN o
                     ELSE IF InLine(f) THEN "asked" ELSE states[f]
    <3>1. CASE f = a
      <4>1. ~InLine(f)'
        BY <1>7, <2>1, <3>1
      <4>2. QED
        BY <1>7, <2>2, <3>1, <4>1
    <3>2. CASE f # a
      <4>1. InLine(f)' <=> InLine(f)
        BY <1>7, <3>2 DEF InLine
      <4>2. QED
        BY <1>7, <2>2, <3>2, <4>1
    <3>3. QED
      BY <3>1, <3>2
  <2>4. QED
    BY <1>2, <2>3 DEF Outcome
<1>10. D!End(o)
  <2>1. \/ Doubt' = Doubt
        \/ o = "done" /\ Doubt' = Doubt \cup {a}
    BY <1>1 DEF Doubt
  <2>2. QED
    BY <1>6, <1>7, <1>9, <2>1 DEF D!End
<1>11. o \in D!Outcomes
  BY DEF Ended, D!Outcomes
<1>12. QED
  BY <1>8, <1>10, <1>11 DEF MappedStep, D!Next

LEMMA WithdrawnMaps ==
    ASSUME TypeInv, LineInv, items => items', Withdrawn
    PROVE  LineInv' /\ MappedStep
<1>1. PICK k \in DOMAIN queue :
          /\ queue' = RemoveAt(queue, k)
          /\ states' = [states EXCEPT ![queue[k].id] = "cancelled"]
  BY DEF Withdrawn
<1>2. active' = active /\ Doubt' = Doubt
  BY DEF Withdrawn, Doubt
<1> DEFINE a == active.id
           p == RemoveAt(queue, k)
           w == queue[k].id
<1>3. /\ queue \in Seq(Queued) /\ states \in [Files -> Status] /\ LineOK
      /\ active \in Download
  BY DEF TypeInv, ClientInv, LineOK
<1>4. /\ Len(queue) \in Nat /\ DOMAIN queue = 1 .. Len(queue)
      /\ Ids(queue) \in Seq(Files) /\ Len(Ids(queue)) = Len(queue)
      /\ \A i \in 1 .. Len(queue) : Ids(queue)[i] = queue[i].id
  BY <1>3, IdsElements
<1>5. a \in Files /\ a # NoFile
  <2>1. queue # <<>>
    BY <1>4, EmptySeq
  <2>2. QED
    BY <1>3, <2>1 DEF LineInv, NoGap, Download
<1>6. w \in Files
  <2>1. queue[k] \in Queued
    BY <1>3, <1>4, ElementOfSeq
  <2>2. QED
    BY <2>1 DEF Queued
<1>7. /\ p \in Seq(Queued) /\ DOMAIN p = 1 .. Len(queue) - 1
      /\ \A i \in 1 .. Len(queue) - 1 :
             p[i] = IF i < k THEN queue[i] ELSE queue[i + 1]
  <2>1. k \in 1 .. Len(queue)
    BY <1>4
  <2>2. /\ p \in Seq(Queued) /\ Len(p) = Len(queue) - 1
        /\ \A i \in 1 .. Len(queue) - 1 :
               p[i] = IF i < k THEN queue[i] ELSE queue[i + 1]
    BY <1>3, <2>1, RemoveAtElements
  <2>3. QED
    BY <2>2, LenProperties
<1>8. Line = <<a>> \o Ids(queue) /\ Line' = RemoveAt(Line, k + 1)
  <2>1. Line = <<a>> \o Ids(queue) /\ Line' = <<a>> \o Ids(p)
    BY <1>1, <1>2, <1>5 DEF Line, Ids
  <2>2. Ids(p) = RemoveAt(Ids(queue), k)
    BY <1>3, <1>4, IdsRemove
  <2>3. k \in 1 .. Len(Ids(queue)) /\ Ids(queue) \in Seq(Files) /\ a \in Files
    BY <1>4, <1>5
  <2>4. RemoveAt(<<a>> \o Ids(queue), k + 1) = <<a>> \o RemoveAt(Ids(queue), k)
    <3>1. \A e \in Files, q \in Seq(Files) : \A j \in 1 .. Len(q) :
              RemoveAt(<<e>> \o q, j + 1) = <<e>> \o RemoveAt(q, j)
      BY RemoveCons
    <3>2. QED
      BY <2>3, <3>1
  <2>5. QED
    BY <2>1, <2>2, <2>4
<1>9. Line[k + 1] = w /\ k + 1 \in 2 .. Len(Line)
  <2> DEFINE c == <<a>> \o Ids(queue)
  <2>1. Ids(queue) \in Seq(Files) /\ a \in Files
    BY <1>4, <1>5
  <2>2. /\ Len(c) = Len(Ids(queue)) + 1
        /\ \A i \in 1 .. Len(Ids(queue)) : c[i + 1] = Ids(queue)[i]
    BY <2>1, ConsElements
  <2> HIDE DEF c
  <2>3. c[k + 1] = w /\ k + 1 \in 2 .. Len(c)
    BY <1>4, <2>2
  <2>4. QED
    BY <1>8, <2>3 DEF c
<1> HIDE DEF p
<1>10. \A i \in DOMAIN p : \E j \in DOMAIN queue :
           p[i] = queue[j] /\ j # k /\ j = IF i < k THEN i ELSE i + 1
  <2>1. ASSUME NEW i \in DOMAIN p
        PROVE  /\ (IF i < k THEN i ELSE i + 1) \in DOMAIN queue
               /\ (IF i < k THEN i ELSE i + 1) # k
    BY <1>4, <1>7, <2>1
  <2>2. QED
    BY <1>7, <2>1
<1>11. \A j \in DOMAIN queue : j # k =>
           \E i \in DOMAIN p : p[i] = queue[j]
  <2>1. ASSUME NEW j \in DOMAIN queue, j < k
        PROVE  j \in DOMAIN p /\ p[j] = queue[j]
    BY <1>4, <1>7, <2>1
  <2>2. ASSUME NEW j \in DOMAIN queue, j > k
        PROVE  j - 1 \in DOMAIN p /\ p[j - 1] = queue[j]
    <3>1. j - 1 \in 1 .. Len(queue) - 1 /\ ~(j - 1 < k) /\ j - 1 + 1 = j
      BY <1>4, <2>2
    <3>2. QED
      BY <1>7, <3>1
  <2>3. \A j \in DOMAIN queue : j # k => j < k \/ j > k
    BY <1>4
  <2>4. QED
    BY <2>1, <2>2, <2>3
<1>12. OnceEach'
  <2>1. ASSUME NEW i \in DOMAIN p PROVE p[i].id # a
    BY <1>10, <2>1 DEF LineInv, OnceEach
  <2>2. ASSUME NEW i \in DOMAIN p, NEW j \in DOMAIN p, p[i].id = p[j].id
        PROVE  i = j
    <3>1. PICK x \in DOMAIN queue :
              p[i] = queue[x] /\ x = IF i < k THEN i ELSE i + 1
      BY <1>10, <2>2
    <3>2. PICK y \in DOMAIN queue :
              p[j] = queue[y] /\ y = IF j < k THEN j ELSE j + 1
      BY <1>10, <2>2
    <3>3. x = y
      BY <2>2, <3>1, <3>2 DEF LineInv, OnceEach
    <3>4. QED
      BY <1>4, <1>7, <3>1, <3>2, <3>3
  <2>3. QED
    BY <1>1, <1>2, <2>1, <2>2 DEF OnceEach, p
<1>13. LineInv'
  BY <1>2, <1>5, <1>12 DEF LineInv, BeforeItems, NoGap
<1>14. Outcome' = [Outcome EXCEPT ![w] = "cancelled"]
  <2>1. w # a /\ \A i \in DOMAIN p : p[i].id # w
    BY <1>10 DEF LineInv, OnceEach
  <2>2. /\ states'[w] = "cancelled"
        /\ \A f \in Files : f # w => states'[f] = states[f]
    BY <1>1, <1>3, <1>6
  <2>3. ASSUME NEW f \in Files
        PROVE  (IF InLine(f)' THEN "asked" ELSE states'[f])
                   = IF f = w THEN "cancelled"
                     ELSE IF InLine(f) THEN "asked" ELSE states[f]
    <3>1. InLine(f)' <=> f = a \/ \E i \in DOMAIN p : p[i].id = f
      BY <1>1, <1>2 DEF InLine, p
    <3>2. CASE f = w
      BY <2>1, <2>2, <3>1, <3>2
    <3>3. CASE f # w
      <4>1. (\E i \in DOMAIN p : p[i].id = f)
                <=> \E j \in DOMAIN queue : queue[j].id = f
        BY <1>10, <1>11, <3>3
      <4>2. QED
        BY <2>2, <3>1, <3>3, <4>1 DEF InLine
    <3>4. QED
      BY <3>2, <3>3
  <2>4. QED
    BY <1>6, <2>3 DEF Outcome
<1>15. D!Withdraw(k + 1)
  BY <1>2, <1>8, <1>9, <1>14 DEF D!Withdraw, D!RemoveAt, RemoveAt
<1>16. QED
  BY <1>9, <1>13, <1>15 DEF MappedStep, D!Next

LEMMA TakenBackMaps ==
    ASSUME TypeInv, LineInv, items => items', TakenBack
    PROVE  LineInv' /\ MappedStep
<1>1. PICK l \in late :
          /\ late' = late \ {l}
          /\ states' = [states EXCEPT ![l.id] = l.status]
  BY DEF TakenBack
<1>2. queue' = queue /\ active' = active
  BY DEF TakenBack
<1>3. LineInv'
  BY <1>2 DEF LineInv, BeforeItems, NoGap, OnceEach
<1>4. l.id \in Files /\ l.status \in {"error", "cancelled"} /\ l.id \in Doubt
  BY DEF TypeInv, ClientInv, Doubt
<1>5. states \in [Files -> Status] /\ LineOK
  BY DEF TypeInv, ClientInv, LineOK
<1>6. Line' = Line
  BY <1>2 DEF Line, Ids
<1>7. Doubt' = Doubt \/ Doubt' = Doubt \ {l.id}
  <2>1. CASE \E m \in late \ {l} : m.id = l.id
    BY <1>1, <2>1 DEF Doubt
  <2>2. CASE ~\E m \in late \ {l} : m.id = l.id
    BY <1>1, <2>2 DEF Doubt
  <2>3. QED
    BY <2>1, <2>2
<1>8. \A f \in Files : InLine(f)' <=> InLine(f)
  BY <1>2 DEF InLine
<1>9. l.id \in Range(Line) <=> InLine(l.id)
  BY <1>4, <1>5, LineRange DEF LineInv, NoGap
<1>10. Outcome' = IF l.id \in Range(Line) THEN Outcome
                  ELSE [Outcome EXCEPT ![l.id] = l.status]
  <2>1. CASE InLine(l.id)
    BY <1>1, <1>4, <1>5, <1>8, <1>9, <2>1 DEF Outcome
  <2>2. CASE ~InLine(l.id)
    BY <1>1, <1>4, <1>5, <1>8, <1>9, <2>2 DEF Outcome
  <2>3. QED
    BY <2>1, <2>2
<1>11. D!TakeBack(l.id, l.status)
  BY <1>6, <1>7, <1>10 DEF D!TakeBack, D!Range, Range
<1>12. l.status \in D!Outcomes \ {"done"}
  BY <1>4 DEF D!Outcomes
<1>13. QED
  BY <1>3, <1>4, <1>11, <1>12 DEF MappedStep, D!Next

LEMMA ForgottenMaps ==
    ASSUME Forgotten
    PROVE  LineInv' /\ MappedStep
<1>1. /\ active'.id = NoFile /\ queue' = <<>> /\ late' = {}
      /\ states' = [f \in Files |-> "idle"]
  BY DEF Forgotten, NoDownload, NewDownload
<1>2. Ids(<<>>) = <<>> /\ DOMAIN <<>> = {}
  BY IdsEmpty
<1>3. LineInv'
  BY <1>1, <1>2 DEF LineInv, BeforeItems, NoGap, OnceEach
<1>4. Line' = <<>>
  <2>1. Ids(queue)' = <<>>
    BY <1>1, <1>2 DEF Ids
  <2>2. QED
    BY <1>1, <2>1 DEF Line
<1>5. \A f \in Files : ~InLine(f)'
  BY <1>1, <1>2 DEF InLine
<1>6. Outcome' = [f \in Files |-> "idle"]
  BY <1>1, <1>5 DEF Outcome
<1>7. Doubt' = {}
  BY <1>1 DEF Doubt
<1>8. D!Forget
  BY <1>4, <1>6, <1>7 DEF D!Forget
<1>9. QED
  BY <1>3, <1>8 DEF MappedStep, D!Next

LEMMA InitMaps == Init => LineInv /\ D!Init
<1> SUFFICES ASSUME Init PROVE LineInv /\ D!Init
  OBVIOUS
<1>1. /\ active.id = NoFile /\ queue = <<>> /\ late = {}
      /\ states = [f \in Files |-> "idle"]
  BY DEF Init, NoDownload, NewDownload
<1>2. Ids(<<>>) = <<>> /\ DOMAIN <<>> = {}
  BY IdsEmpty
<1>3. LineInv
  BY <1>1, <1>2 DEF LineInv, BeforeItems, NoGap, OnceEach
<1>4. Line = <<>> /\ Doubt = {}
  BY <1>1, <1>2 DEF Line, Doubt
<1>5. Outcome = [f \in Files |-> "idle"]
  BY <1>1, <1>2 DEF Outcome, InLine
<1>6. QED
  BY <1>3, <1>4, <1>5 DEF D!Init

LEMMA NextMaps ==
    TypeInv /\ LineInv /\ [Next]_vars => LineInv' /\ MappedStep
<1> SUFFICES ASSUME TypeInv, LineInv, [Next]_vars PROVE LineInv' /\ MappedStep
  OBVIOUS
<1>1. LineStep
  BY NextLine DEF LineInv
<1>2. QED
  BY <1>1, KeptMaps, AskedMaps, HeadEndsMaps, WithdrawnMaps, TakenBackMaps,
     ForgottenMaps
  DEF LineStep

\* Whatever is cancelled, lost, resumed or failed, a page serves its requests
\* one at a time and in order, each ends once, and nothing that comes later
\* changes how it ended, but for a file that was given up while its sink was
\* closing.
THEOREM TransferImplementsDelivery == Spec => ImplementsDelivery
<1>1. TypeInv /\ LineInv /\ [Next]_vars
          => LineInv' /\ [D!Next]_<<Line, Outcome, Doubt>>
  BY NextMaps DEF MappedStep
<1>2. QED
  BY <1>1, InitMaps, TypeInvAlways, PTL DEF Spec, D!Spec, ImplementsDelivery

-----------------------------------------------------------------------------
(* What the page shows of the line.  Of the six kinds of steps, only a     *)
(* late abort may set a status the line does not explain.                  *)

LEMMA KeptShown ==
    ASSUME TypeInv, LineInv, StatusMatchesLine, Kept
    PROVE  StatusMatchesLine'
<1>1. states \in [Files -> Status]
  BY DEF TypeInv, ClientInv, LineOK
<1>2. CASE states' = states
  BY <1>2 DEF Kept, StatusMatchesLine
<1>3. CASE /\ active.id # NoFile
           /\ states' = [states EXCEPT ![active.id] = "verifying"]
  <2>1. \A i \in DOMAIN queue : queue[i].id # active.id
    BY DEF LineInv, OnceEach
  <2>2. QED
    BY <1>1, <1>3, <2>1 DEF Kept, StatusMatchesLine
<1>4. QED
  BY <1>2, <1>3 DEF Kept

LEMMA AskedShown ==
    ASSUME TypeInv, LineInv, StatusMatchesLine, Asked
    PROVE  StatusMatchesLine'
<1>1. PICK f \in Files, from \in ResumeFrom :
          ~InLine(f) /\ RequestDownload(f, from)
  BY DEF Asked
<1> DEFINE x == [id |-> f, from |-> from]
           q == Append(queue, x)
           st == [states EXCEPT ![f] = "queued"]
<1>2. /\ queue \in Seq(Queued) /\ states \in [Files -> Status]
      /\ active \in Download
  BY DEF TypeInv, ClientInv, LineOK
<1>3. x \in Queued /\ x.id = f
  BY DEF Queued
<1>4. CASE active.id = NoFile
  <2>1. queue = <<>> /\ q = <<x>>
    BY <1>4 DEF LineInv, NoGap
  <2>2. TakeNext(<<x>>, st)
    BY <1>1, <1>4, <2>1 DEF RequestDownload
  <2>3. /\ active' = NewDownload(x.id, [x.from EXCEPT
                           !.offset = Least(@, Size[x.id])])
        /\ queue' = <<>> /\ states' = [st EXCEPT ![x.id] = "receiving"]
    BY <1>3, <2>2, TakeOne
  <2>4. active'.id = f /\ states' = [st EXCEPT ![f] = "receiving"]
    BY <1>3, <2>3 DEF NewDownload
  <2>5. DOMAIN <<>> = {} /\ f # NoFile
    BY IdsEmpty
  <2>6. \A g \in Files : states[g] \notin {"queued", "receiving", "verifying"}
    BY <1>4, <2>1, <2>5 DEF StatusMatchesLine
  <2>7. QED
    BY <1>2, <2>3, <2>4, <2>5, <2>6 DEF StatusMatchesLine
<1>5. CASE active.id # NoFile
  <2>1. queue' = q /\ states' = st /\ active' = active
    BY <1>1, <1>5 DEF RequestDownload
  <2>2. /\ DOMAIN queue = 1 .. Len(queue) /\ Len(queue) \in Nat
        /\ DOMAIN q = 1 .. Len(queue) + 1
        /\ \A i \in 1 .. Len(queue) : q[i] = queue[i]
        /\ q[Len(queue) + 1] = x
    BY <1>2, <1>3, AppendProperties, LenProperties
  <2>3. f # active.id /\ \A i \in DOMAIN queue : queue[i].id # f
    BY <1>1 DEF InLine
  <2> HIDE DEF q, x
  <2>4. ASSUME NEW g \in Files
        PROVE  (\E i \in DOMAIN q : q[i].id = g)
                   <=> g = f \/ \E i \in DOMAIN queue : queue[i].id = g
    <3>1. Len(queue) + 1 \in DOMAIN q
      BY <2>2
    <3>2. ASSUME NEW i \in DOMAIN q, q[i].id = g
          PROVE  g = f \/ \E j \in DOMAIN queue : queue[j].id = g
      BY <1>3, <2>2, <3>2
    <3>3. ASSUME NEW j \in DOMAIN queue, queue[j].id = g
          PROVE  \E i \in DOMAIN q : q[i].id = g
      BY <2>2, <3>3
    <3>4. QED
      BY <1>3, <2>2, <3>1, <3>2, <3>3
  <2>5. QED
    BY <1>2, <2>1, <2>3, <2>4 DEF StatusMatchesLine
<1>6. QED
  BY <1>4, <1>5

LEMMA HeadEndsShown ==
    ASSUME TypeInv, LineInv, StatusMatchesLine, HeadEnds
    PROVE  StatusMatchesLine'
<1>1. PICK o \in Ended : TakeNext(queue, [states EXCEPT ![active.id] = o])
  BY DEF HeadEnds
<1> DEFINE a == active.id
           st == [states EXCEPT ![a] = o]
<1>2. /\ queue \in Seq(Queued) /\ states \in [Files -> Status]
      /\ a \in Files /\ NoFile \notin Files
  BY DEF HeadEnds, TypeInv, ClientInv, LineOK, Download
<1>3. \A i \in DOMAIN queue : queue[i].id # a
  BY DEF LineInv, OnceEach
<1>4. /\ st \in [Files -> Status] /\ st[a] = o
      /\ \A g \in Files : g # a => st[g] = states[g]
  BY <1>2 DEF Ended, Status
<1>5. \A g \in Files :
          /\ st[g] = "queued" <=> \E i \in DOMAIN queue : queue[i].id = g
          /\ st[g] \notin {"receiving", "verifying"}
  BY <1>2, <1>3, <1>4 DEF StatusMatchesLine, Ended
<1> HIDE DEF st
<1>6. CASE queue = <<>>
  <2>1. active'.id = NoFile /\ queue' = queue /\ states' = st
    BY <1>1, <1>6 DEF TakeNext, NoDownload, NewDownload, st
  <2>2. QED
    BY <1>2, <1>5, <2>1 DEF StatusMatchesLine
<1>7. CASE queue # <<>>
  <2> DEFINE h == Head(queue).id
             t == Tail(queue)
  <2>1. /\ active'.id = h /\ queue' = t
        /\ states' = [st EXCEPT ![h] = "receiving"]
    BY <1>1, <1>7 DEF TakeNext, NewDownload, st
  <2>2. /\ Head(queue) \in Queued /\ Head(queue) = queue[1]
        /\ Len(queue) >= 1 /\ Len(queue) \in Nat
        /\ Tail(queue) \in Seq(Queued) /\ Len(Tail(queue)) = Len(queue) - 1
        /\ \A i \in 1 .. Len(Tail(queue)) : Tail(queue)[i] = queue[i + 1]
    BY <1>2, <1>7, HeadTailProperties, EmptySeq, LenProperties
  <2>3. /\ h \in Files /\ h = queue[1].id
        /\ DOMAIN queue = 1 .. Len(queue)
        /\ DOMAIN t = 1 .. Len(queue) - 1
        /\ \A i \in 1 .. Len(queue) - 1 : t[i] = queue[i + 1]
    BY <1>2, <2>2, LenProperties DEF Queued
  <2> HIDE DEF h, t
  <2>4. ASSUME NEW g \in Files
        PROVE  (\E i \in DOMAIN t : t[i].id = g)
                   <=> g # h /\ \E i \in DOMAIN queue : queue[i].id = g
    <3>1. ASSUME NEW i \in DOMAIN t, t[i].id = g
          PROVE  g # h /\ \E j \in DOMAIN queue : queue[j].id = g
      <4>1. i + 1 \in DOMAIN queue /\ queue[i + 1].id = g /\ i + 1 # 1
        BY <2>2, <2>3, <3>1
      <4>2. 1 \in DOMAIN queue
        BY <2>2, <2>3
      <4>3. g # h
        BY <2>3, <4>1, <4>2 DEF LineInv, OnceEach
      <4>4. QED
        BY <4>1, <4>3
    <3>2. ASSUME g # h, NEW j \in DOMAIN queue, queue[j].id = g
          PROVE  \E i \in DOMAIN t : t[i].id = g
      <4>1. j # 1
        BY <2>3, <3>2
      <4>2. j - 1 \in 1 .. Len(queue) - 1 /\ j - 1 + 1 = j
        BY <2>2, <2>3, <4>1
      <4>3. t[j - 1].id = g
        BY <2>3, <3>2, <4>2
      <4>4. QED
        BY <2>3, <4>2, <4>3
    <3>3. QED
      BY <3>1, <3>2
  <2>5. ASSUME NEW g \in Files
        PROVE  states'[g] = IF g = h THEN "receiving" ELSE st[g]
    BY <1>4, <2>1, <2>3
  <2>6. QED
    BY <1>5, <2>1, <2>4, <2>5 DEF StatusMatchesLine
<1>8. QED
  BY <1>6, <1>7

LEMMA WithdrawnShown ==
    ASSUME TypeInv, LineInv, StatusMatchesLine, Withdrawn
    PROVE  StatusMatchesLine'
<1>1. PICK k \in DOMAIN queue :
          /\ queue' = RemoveAt(queue, k)
          /\ states' = [states EXCEPT ![queue[k].id] = "cancelled"]
  BY DEF Withdrawn
<1> DEFINE p == RemoveAt(queue, k)
           w == queue[k].id
<1>2. queue \in Seq(Queued) /\ states \in [Files -> Status]
  BY DEF TypeInv, ClientInv, LineOK
<1>3. active' = active
  BY DEF Withdrawn
<1>4. Len(queue) \in Nat /\ DOMAIN queue = 1 .. Len(queue)
  BY <1>2, LenProperties
<1>5. w \in Files
  <2>1. queue[k] \in Queued
    BY <1>2, <1>4, ElementOfSeq
  <2>2. QED
    BY <2>1 DEF Queued
<1>6. /\ DOMAIN p = 1 .. Len(queue) - 1
      /\ \A i \in 1 .. Len(queue) - 1 :
             p[i] = IF i < k THEN queue[i] ELSE queue[i + 1]
  BY <1>2, <1>4, RemoveAtElements, LenProperties
<1> HIDE DEF p, w
<1>7. ASSUME NEW g \in Files
      PROVE  (\E i \in DOMAIN p : p[i].id = g)
                 <=> g # w /\ \E i \in DOMAIN queue : queue[i].id = g
  <2>1. ASSUME NEW i \in DOMAIN p, p[i].id = g
        PROVE  g # w /\ \E j \in DOMAIN queue : queue[j].id = g
    <3>1. PICK j \in DOMAIN queue : j # k /\ queue[j].id = g
      <4>1. CASE i < k
        BY <1>4, <1>6, <2>1, <4>1
      <4>2. CASE ~(i < k)
        <5>1. i + 1 \in DOMAIN queue /\ i + 1 # k
          BY <1>4, <1>6, <2>1, <4>2
        <5>2. QED
          BY <1>6, <2>1, <4>2, <5>1
      <4>3. QED
        BY <4>1, <4>2
    <3>2. QED
      BY <3>1 DEF LineInv, OnceEach, w
  <2>2. ASSUME g # w, NEW j \in DOMAIN queue, queue[j].id = g
        PROVE  \E i \in DOMAIN p : p[i].id = g
    <3>1. CASE j < k
      BY <1>4, <1>6, <2>2, <3>1
    <3>2. CASE ~(j < k)
      <4>1. j # k
        BY <2>2 DEF w
      <4>2. j - 1 \in 1 .. Len(queue) - 1 /\ ~(j - 1 < k) /\ j - 1 + 1 = j
        BY <1>4, <3>2, <4>1
      <4>3. p[j - 1].id = g
        BY <1>6, <2>2, <4>2
      <4>4. QED
        BY <1>6, <4>2, <4>3
    <3>3. QED
      BY <3>1, <3>2
  <2>3. QED
    BY <2>1, <2>2
<1>8. w # active.id
  BY DEF LineInv, OnceEach, w
<1>9. ASSUME NEW g \in Files
      PROVE  states'[g] = IF g = w THEN "cancelled" ELSE states[g]
  BY <1>1, <1>2, <1>5 DEF w
<1>10. queue' = p
  BY <1>1 DEF p
<1>11. QED
  BY <1>3, <1>7, <1>8, <1>9, <1>10 DEF StatusMatchesLine

\* No late abort is pending for a file that has been asked for again.
NoneAskedAgain == \A l \in late : ~InLine(l.id)

LEMMA NextShown ==
    ASSUME TypeInv, LineInv, NoneAskedAgain, StatusMatchesLine, [Next]_vars
    PROVE  StatusMatchesLine'
<1>1. CASE Forgotten
  <2>1. active'.id = NoFile /\ queue' = <<>>
    BY <1>1 DEF Forgotten, NoDownload, NewDownload
  <2>2. DOMAIN <<>> = {}
    BY IdsEmpty
  <2>3. QED
    BY <1>1, <2>1, <2>2 DEF Forgotten, StatusMatchesLine
<1>2. CASE TakenBack
  <2>1. PICK l \in late : states' = [states EXCEPT ![l.id] = l.status]
    BY <1>2 DEF TakenBack
  <2>2. ~InLine(l.id) /\ l.status \in {"error", "cancelled"} /\ l.id \in Files
    BY DEF NoneAskedAgain, TypeInv, ClientInv
  <2>3. states \in [Files -> Status]
    BY DEF TypeInv, ClientInv, LineOK
  <2>4. QED
    BY <1>2, <2>1, <2>2, <2>3 DEF TakenBack, StatusMatchesLine, InLine
<1>3. LineStep
  BY NextLine DEF LineInv
<1>4. QED
  BY <1>1, <1>2, <1>3, KeptShown, AskedShown, HeadEndsShown, WithdrawnShown
  DEF LineStep

\* As long as no file is asked for again while an abort of its last download
\* is pending (a file in doubt), the page and the client never disagree on what
\* is under way, whatever else the user, the sinks and the network do.
THEOREM StatusAgrees == Spec /\ []NoneAskedAgain => []StatusMatchesLine
<1>1. Init => StatusMatchesLine
  <2>1. DOMAIN <<>> = {}
    BY IdsEmpty
  <2>2. SUFFICES ASSUME Init PROVE StatusMatchesLine
    OBVIOUS
  <2>3. /\ active.id = NoFile /\ queue = <<>>
        /\ states = [f \in Files |-> "idle"]
    BY <2>2 DEF Init, NoDownload, NewDownload
  <2>4. QED
    BY <2>1, <2>3 DEF StatusMatchesLine
<1>2. TypeInv /\ LineInv /\ NoneAskedAgain /\ StatusMatchesLine /\ [Next]_vars
          => StatusMatchesLine'
  BY NextShown
<1>3. TypeInv /\ LineInv /\ [Next]_vars => LineInv'
  BY NextMaps
<1>4. Init => LineInv
  BY InitMaps
<1>5. QED
  BY <1>1, <1>2, <1>3, <1>4, TypeInvAlways, PTL DEF Spec

-----------------------------------------------------------------------------
(* One checkpoint. *)

HasCheckpoint(f) == saved[f].offset > 0

\* No step but a page reload adds a checkpoint to those there are, other than
\* for the active download.
NoNewCheckpoint ==
    \A f \in Files : HasCheckpoint(f)' => HasCheckpoint(f) \/ f = active.id

\* What a step does to the checkpoints: they go with a download that ends, or
\* stay with one that goes on; a reload leaves them to the next page.
CheckpointStep ==
    \/ \A f \in Files : ~HasCheckpoint(f)'
    \/ /\ NoNewCheckpoint
       /\ items' = items /\ active'.id = active.id
    \/ /\ \A f \in Files : HasCheckpoint(f)' => HasCheckpoint(f)
       /\ items' => active'.id \in Files /\ HasCheckpoint(active'.id)

LEMMA CheckpointStepKeeps ==
    ASSUME TypeInv, BeforeItems, OneCheckpoint, CheckpointStep
    PROVE  OneCheckpoint'
<1>1. active.id \in Files => items
  BY DEF BeforeItems
<1>2. CASE \A f \in Files : ~HasCheckpoint(f)'
  BY <1>2 DEF OneCheckpoint, HasCheckpoint
<1>3. CASE NoNewCheckpoint /\ items' = items /\ active'.id = active.id
  BY <1>1, <1>3 DEF NoNewCheckpoint, OneCheckpoint, HasCheckpoint
<1>4. CASE /\ \A f \in Files : HasCheckpoint(f)' => HasCheckpoint(f)
           /\ items' => active'.id \in Files /\ HasCheckpoint(active'.id)
  BY <1>4 DEF OneCheckpoint, HasCheckpoint
<1>5. QED
  BY <1>2, <1>3, <1>4 DEF CheckpointStep

LEMMA SavedKept ==
    ASSUME saved' = saved, items' = items, active'.id = active.id
    PROVE  CheckpointStep
BY DEF CheckpointStep, NoNewCheckpoint, HasCheckpoint

\* A final status takes the only checkpoint with it.
LEMMA DropActive ==
    ASSUME TypeInv, BeforeItems, OneCheckpoint, active.id # NoFile,
           DropCheckpoint(active.id)
    PROVE  CheckpointStep
<1>1. items
  BY DEF BeforeItems
<1>2. \A f \in Files : HasCheckpoint(f) => f = active.id
  BY <1>1 DEF OneCheckpoint, HasCheckpoint
<1>3. \A f \in Files : saved'[f] = IF f = active.id THEN NoResume ELSE saved[f]
  BY DEF DropCheckpoint, TypeInv, ClientInv, RecordsOK
<1>4. NoResume.offset = 0
  BY DEF NoResume
<1>5. \A f \in Files : ~HasCheckpoint(f)'
  BY <1>2, <1>3, <1>4 DEF HasCheckpoint
<1>6. QED
  BY <1>5 DEF CheckpointStep

LEMMA DropOther ==
    ASSUME TypeInv, NEW f \in Files, DropCheckpoint(f),
           items' = items, active'.id = active.id
    PROVE  CheckpointStep
<1>1. \A g \in Files : saved'[g] = IF g = f THEN NoResume ELSE saved[g]
  BY DEF DropCheckpoint, TypeInv, ClientInv, RecordsOK
<1>2. NoResume.offset = 0
  BY DEF NoResume
<1>3. QED
  BY <1>1, <1>2 DEF CheckpointStep, NoNewCheckpoint, HasCheckpoint

LEMMA FailActiveCheckpoint ==
    ASSUME TypeInv, BeforeItems, OneCheckpoint, active.id # NoFile,
           items' = items,
           NEW o, NEW msgs, FailActive(o, msgs)
    PROVE  CheckpointStep
<1>1. CASE active.ready
  <2>1. active' = Failing(active, o) /\ saved' = saved
    BY <1>1 DEF FailActive
  <2>2. active'.id = active.id
    BY <2>1 DEF Failing, TypeInv, ClientInv, LineOK, Download
  <2>3. QED
    BY <2>1, <2>2, SavedKept
<1>2. CASE ~active.ready
  BY <1>2, DropActive DEF FailActive, EndActive
<1>3. QED
  BY <1>1, <1>2

\* A file is asked for.  With a download active, it waits; otherwise it is the
\* active one.
LEMMA RequestDownloadActive ==
    ASSUME TypeInv, LineInv, NEW f \in Files, NEW from \in ResumeFrom,
           RequestDownload(f, from)
    PROVE  active'.id = IF active.id = NoFile THEN f ELSE active.id
<1> DEFINE x == [id |-> f, from |-> from]
           st == [states EXCEPT ![f] = "queued"]
<1>1. CASE active.id = NoFile
  <2>1. queue = <<>> /\ Append(queue, x) = <<x>>
    BY <1>1 DEF LineInv, NoGap
  <2>2. TakeNext(<<x>>, st)
    BY <1>1, <2>1 DEF RequestDownload
  <2>3. x \in Queued /\ x.id = f
    BY DEF Queued
  <2>4. active' = NewDownload(x.id, [x.from EXCEPT
                                         !.offset = Least(@, Size[x.id])])
    BY <2>2, <2>3, TakeOne
  <2>5. QED
    BY <1>1, <2>3, <2>4 DEF NewDownload
<1>2. CASE active.id # NoFile
  BY <1>2 DEF RequestDownload
<1>3. QED
  BY <1>1, <1>2

LEMMA UserDownloadCheckpoint ==
    ASSUME TypeInv, LineInv, OneCheckpoint, NEW f \in Files, UserDownload(f)
    PROVE  CheckpointStep
<1>1. /\ items /\ items' = items /\ saved' = saved
      /\ RequestDownload(f, NoResume)
  BY DEF UserDownload, storageVars
<1>2. NoResume \in ResumeFrom
  BY DEF NoResume, ResumeFrom, FileBytes, Folder
<1>3. CASE active.id = NoFile
  BY <1>1, <1>3 DEF CheckpointStep, HasCheckpoint, OneCheckpoint
<1>4. CASE active.id # NoFile
  BY <1>1, <1>2, <1>4, RequestDownloadActive, SavedKept
<1>5. QED
  BY <1>3, <1>4

LEMMA OnHelloCheckpoint ==
    ASSUME TypeInv, LineInv, OneCheckpoint, OnHello, items'
    PROVE  CheckpointStep
<1>1. saved' = saved
  BY DEF OnHello, Ignore
<1>2. CASE ~items /\ \E f \in Files : saved[f].offset > 0
  <2>1. active.id = NoFile /\ ~active.ready
    BY <1>2 DEF LineInv, BeforeItems, TypeInv, ClientInv, LineOK, ClientOK
  <2>2. PICK f \in Files : saved[f].offset > 0 /\ RequestDownload(f, saved[f])
    BY <1>2, <2>1 DEF OnHello, resumeSaved
  <2>3. saved[f] \in ResumeFrom
    BY DEF TypeInv, ClientInv, RecordsOK
  <2>4. active'.id = f
    BY <2>1, <2>2, <2>3, RequestDownloadActive
  <2>5. QED
    BY <1>1, <2>2, <2>4 DEF CheckpointStep, HasCheckpoint
<1>3. CASE ~items /\ ~\E f \in Files : saved[f].offset > 0
  BY <1>1, <1>3 DEF CheckpointStep, HasCheckpoint
<1>4. CASE items
  <2>1. active'.id = active.id
    BY <1>4 DEF OnHello, Ignore, TypeInv, ClientInv, LineOK, Download
  <2>2. items' = items
    BY <1>4 DEF TypeInv, ClientInv
  <2>3. QED
    BY <1>1, <2>1, <2>2, SavedKept
<1>5. QED
  BY <1>2, <1>3, <1>4 DEF TypeInv, ClientInv

LEMMA FinishActive ==
    ASSUME NEW d \in Download, NEW acks, Finish(d, acks)
    PROVE  active'.id = d.id
<1>1. PICK e \in Download : e = Failing(d, "error") /\ e.id = d.id
  BY FailingType
<1>2. \/ active' = d
      \/ active' = [d EXCEPT !.finishing = FALSE, !.accepting = FALSE]
      \/ active' = [e EXCEPT !.chain = <<>>]
      \/ active' = [d EXCEPT !.closing = TRUE]
  BY <1>1 DEF Finish
<1>3. QED
  BY <1>1, <1>2 DEF Download

LEMMA OnMessageCheckpoint ==
    ASSUME TypeInv, LineInv, OneCheckpoint, OnClientMessage
    PROVE  CheckpointStep
<1> DEFINE m == Head(toClient)
<1>1. m \in SenderMsg
  BY HeadTailProperties DEF OnClientMessage, TypeInv, ChannelTypeOK
<1>2. items' = (items \/ m.t = "hello") /\ active \in Download
  BY DEF OnClientMessage, TypeInv, ClientInv, LineOK
<1>3. CASE m.t = "hello" /\ OnHello
  BY <1>2, <1>3, OnHelloCheckpoint
<1>4. CASE m.t # "hello" /\ Ignore
  BY <1>2, <1>4, SavedKept DEF Ignore, TypeInv, ClientInv
<1>5. CASE m.t = "start" /\ OnStart(m) /\ ~Ignore
  <2>1. saved' = saved /\ active'.id = active.id
    BY <1>2, <1>5 DEF OnStart, Download
  <2>2. QED
    BY <1>2, <1>5, <2>1, SavedKept DEF TypeInv, ClientInv
<1>6. m.t \in {"end", "error"} => m.id \in Files
  BY <1>1 DEF SenderMsg, Chunks
<1>7. items \in BOOLEAN
  BY DEF TypeInv, ClientInv
<1>8. CASE m.t = "chunk" /\ OnChunk(m) /\ ~Ignore
  <2>1. active.id # NoFile
    BY <1>8 DEF OnChunk, TypeInv, ClientInv, LineOK, ClientOK
  <2>2. items' = items
    BY <1>2, <1>7, <1>8
  <2>3. CASE \E msgs : FailActive("error", msgs)
    BY <2>1, <2>2, <2>3, FailActiveCheckpoint DEF LineInv
  <2>4. CASE ~\E msgs : FailActive("error", msgs)
    <3>1. saved' = saved /\ active'.id = active.id
      BY <1>2, <1>8, <2>4 DEF OnChunk, Download
    <3>2. QED
      BY <2>2, <3>1, SavedKept
  <2>5. QED
    BY <2>3, <2>4
<1>9. CASE m.t = "end" /\ OnEnd(m) /\ ~Ignore
  <2>1. m.id = active.id /\ active.id # NoFile
    BY <1>6, <1>9 DEF OnEnd
  <2>2. items' = items
    BY <1>2, <1>7, <1>9
  <2>3. CASE \E msgs : FailActive("error", msgs)
    BY <2>1, <2>2, <2>3, FailActiveCheckpoint DEF LineInv
  <2>4. CASE ~\E msgs : FailActive("error", msgs)
    <3> DEFINE d == [active EXCEPT !.finishing = TRUE, !.expected = m.sha256]
    <3>1. /\ saved' = saved
          /\ Finish(d, <<>>) \/ active' = [d EXCEPT !.barrier = Len(d.chain)]
      BY <1>9, <2>4 DEF OnEnd
    <3>2. m.sha256 \in Sha256
      BY <1>1, <1>9 DEF SenderMsg, Chunks
    <3>3. d \in Download /\ d.id = active.id
      BY <1>2, <3>2 DEF Download
    <3>4. active'.id = active.id
      BY <3>1, <3>3, FinishActive DEF Download
    <3>5. QED
      BY <2>2, <3>1, <3>4, SavedKept
  <2>5. QED
    BY <2>3, <2>4
<1>10. CASE m.t = "error" /\ OnError(m) /\ ~Ignore
  <2>1. active.id # NoFile /\ FailActive("error", <<>>)
    BY <1>6, <1>10 DEF OnError
  <2>2. items' = items
    BY <1>2, <1>7, <1>10
  <2>3. QED
    BY <2>1, <2>2, FailActiveCheckpoint DEF LineInv
<1>11. QED
  BY <1>3, <1>4, <1>5, <1>8, <1>9, <1>10 DEF OnClientMessage

\* The one step that writes a checkpoint writes that of the active download.
LEMMA WriteDoneCheckpoint ==
    ASSUME TypeInv, WriteDone
    PROVE  CheckpointStep
<1>1. Kept /\ items' = items
  BY WriteDoneLine DEF WriteDone
<1>2. active'.id = active.id
  BY <1>1 DEF Kept
<1>3. \A f \in Files : f # active.id => saved'[f] = saved[f]
  BY DEF WriteDone, TypeInv, ClientInv, RecordsOK
<1>4. QED
  BY <1>1, <1>2, <1>3 DEF CheckpointStep, NoNewCheckpoint, HasCheckpoint

LEMMA ReloadCheckpoint ==
    ASSUME TypeInv, Reload
    PROVE  CheckpointStep
<1>1. /\ ~items'
      /\ saved' = [f \in Files |-> [saved[f] EXCEPT !.dir = "own"]]
  BY DEF Reload
<1>2. \A f \in Files : saved'[f].offset = saved[f].offset
  BY <1>1 DEF TypeInv, ClientInv, RecordsOK, ResumeFrom
<1>3. QED
  BY <1>1, <1>2 DEF CheckpointStep, HasCheckpoint

LEMMA NextCheckpoint ==
    ASSUME TypeInv, LineInv, OneCheckpoint, [Next]_vars
    PROVE  OneCheckpoint'
<1> SUFFICES CheckpointStep
  BY CheckpointStepKeeps DEF LineInv
<1>1. BeforeItems /\ active \in Download
  BY DEF LineInv, TypeInv, ClientInv, LineOK
<1>2. CASE UNCHANGED clientVars
  BY <1>2, SavedKept DEF clientVars, storageVars
<1>3. CASE OnClientMessage
  BY <1>3, OnMessageCheckpoint
<1>4. CASE \E wasm \in Wasm : SinkOpened(wasm)
  <2>1. active'.id = active.id /\ items' = items /\ saved' = saved
    BY <1>1, <1>4 DEF SinkOpened, Download
  <2>2. QED
    BY <2>1, SavedKept
<1>5. CASE \E f \in Files : OrphanOpened(f)
  BY <1>5, SavedKept DEF OrphanOpened
<1>6. CASE WriteDone
  BY <1>6, WriteDoneCheckpoint
<1>7. CASE WriteFails \/ CloseFails
  <2>1. active'.id = active.id /\ items' = items /\ saved' = saved
    BY <1>1, <1>7 DEF WriteFails, CloseFails, Failing, Download, storageVars
  <2>2. QED
    BY <2>1, SavedKept
<1>8. CASE CloseDone \/ AbortDone \/ SinkOpenFails
  <2>1. active.id # NoFile
    BY <1>8 DEF CloseDone, AbortDone, SinkOpenFails, TypeInv, ClientInv, LineOK,
                ClientOK
  <2>2. DropCheckpoint(active.id)
    BY <1>8 DEF CloseDone, AbortDone, SinkOpenFails, EndActive
  <2>3. QED
    BY <1>1, <2>1, <2>2, DropActive
<1>9. ASSUME NEW l \in late, LateAbortDone(l) PROVE CheckpointStep
  <2>1. l.id \in Files
    BY DEF TypeInv, ClientInv
  <2>2. DropCheckpoint(l.id) /\ items' = items /\ active'.id = active.id
    BY <1>9 DEF LateAbortDone
  <2>3. QED
    BY <2>1, <2>2, DropOther
<1>10. ASSUME NEW f \in Files, UserDownload(f) PROVE CheckpointStep
  BY <1>10, UserDownloadCheckpoint
<1>11. CASE CancelActive \/ AbortStalled
  <2>1. /\ active.id # NoFile /\ items' = items
        /\ \/ FailActive("error", <<CancelMsg(active.id)>>)
           \/ FailActive("cancelled", <<CancelMsg(active.id)>>)
    BY <1>11 DEF CancelActive, AbortStalled
  <2>2. QED
    BY <1>1, <2>1, FailActiveCheckpoint
<1>12. ASSUME NEW f \in Files, CancelQueued(f) PROVE CheckpointStep
  <2>1. DropCheckpoint(f) /\ items' = items /\ active'.id = active.id
    BY <1>12 DEF CancelQueued
  <2>2. QED
    BY <2>1, DropOther
<1>13. CASE Reload
  BY <1>13, ReloadCheckpoint
<1>14. CASE Evict
  BY <1>14, SavedKept DEF Evict
<1>15. CASE ClientClose
  <2>1. active'.id = active.id /\ items' = items /\ saved' = saved
    BY <1>1, <1>15 DEF ClientClose, Download, storageVars
  <2>2. QED
    BY <2>1, SavedKept
<1>16. CASE AbortRemoves
  <2>1. active'.id = active.id /\ items' = items /\ saved' = saved
    BY <1>1, <1>16 DEF AbortRemoves, Download
  <2>2. QED
    BY <2>1, SavedKept
<1>17. ASSUME NEW l \in late, LateWriteFails(l) PROVE CheckpointStep
  BY <1>17, SavedKept DEF LateWriteFails, storageVars
<1>18. QED
  BY <1>2, <1>3, <1>4, <1>5, <1>6, <1>7, <1>8, <1>9, <1>10, <1>11, <1>12,
     <1>13, <1>14, <1>15, <1>16, <1>17
  DEF Next, ClientStep, Fault, User, Break, Connect, attach, vars

\* However downloads follow each other, fail, are cancelled or interrupted by a
\* reload, sessionStorage never holds two checkpoints, nor, once the page has
\* said hello, one of a file that is not being fetched.  OnHello relies on it:
\* it resumes any one, and the others would be lost.
THEOREM OneCheckpointHolds == Spec => []OneCheckpoint
<1>1. Init => OneCheckpoint
  BY DEF Init, OneCheckpoint, NoResume
<1>2. TypeInv /\ LineInv /\ OneCheckpoint /\ [Next]_vars => OneCheckpoint'
  BY NextCheckpoint
<1>3. TypeInv /\ LineInv /\ [Next]_vars => LineInv'
  BY NextMaps
<1>4. Init => LineInv
  BY InitMaps
<1>5. QED
  BY <1>1, <1>2, <1>3, <1>4, TypeInvAlways, PTL DEF Spec
=============================================================================
