----------------------------- MODULE SinkProofs -----------------------------
(***************************************************************************)
(* What the page writes: the bytes of one file, in order and without a     *)
(* gap, a hash of exactly these, and a checkpoint that claims no more than *)
(* what is on disk.                                                        *)
(*                                                                         *)
(* The argument runs along the chunks.  On the channel each continues the  *)
(* one before it (StreamInv); what every action does to the download is    *)
(* one of a few kinds of steps (WorkStep); nothing is asked for before a   *)
(* sink that goes on after a reload is open (QuietInv); so the chunk that  *)
(* is taken is the next one (HeadOK), what is in the write chain continues *)
(* what is on disk (PrefixInv), and the hasher saw the same (HashInv).     *)
(* What is on disk under a checkpoint needs no knowledge of the file, only *)
(* the count of bytes behind it (StandingInv).                             *)
(***************************************************************************)
EXTENDS TransferProofs

USE ProtocolAssumption, EnvironmentAssumption

-----------------------------------------------------------------------------
(* The channel.  A chunk follows the start of its file or the chunk before *)
(* it, so the bytes of a transfer arrive in order and without a gap.       *)

\* After message m the bytes of f go on at n.
LeadsTo(m, f, n) ==
    \/ m.t = "start" /\ m.id = f /\ m.offset = n
    \/ m.t = "chunk" /\ m.id = f /\ m.at + m.len = n

MidFile == sOpen /\ cOpen /\ srv.phase \in {"read", "send"}

StreamInv ==
    /\ \A i \in 2 .. Len(toClient) :
           toClient[i].t = "chunk" =>
               LeadsTo(toClient[i - 1], toClient[i].id, toClient[i].at)
    /\ MidFile /\ toClient # <<>> =>
           LeadsTo(toClient[Len(toClient)], srv.active, srv.sent)
    /\ ~cOpen => toClient = <<>>

\* The next bytes to arrive, unless something else is said before, are those
\* of f from n on.
Coming(f, n) ==
    \/ /\ toClient # <<>>
       /\ Head(toClient).t = "chunk"
       /\ Head(toClient).id = f /\ Head(toClient).at = n
    \/ /\ toClient = <<>> /\ MidFile
       /\ srv.active = f /\ srv.sent = n

\* What a step leaves to come was to come before it, or follows the message
\* the step has handled.
NothingNew == \A f, n : Coming(f, n)' => Coming(f, n)
Heard ==
    /\ toClient # <<>>
    /\ \A f, n : Coming(f, n)' => LeadsTo(Head(toClient), f, n)

LEMMA ChannelUntouched ==
    ASSUME StreamInv, UNCHANGED <<toClient, sOpen, cOpen>>,
           \/ srv'.phase \notin {"read", "send"}
           \/ /\ srv.phase \in {"read", "send"}
              /\ srv'.active = srv.active /\ srv'.sent = srv.sent
    PROVE  StreamInv' /\ NothingNew
BY DEF StreamInv, MidFile, NothingNew, Coming, LeadsTo

\* The channel is gone, or new.
LEMMA ChannelReplaced ==
    ASSUME \/ toClient' = <<>> /\ ~cOpen'
           \/ toClient' = <<Hello>> /\ cOpen' /\ srv'.phase = "idle"
    PROVE  StreamInv' /\ NothingNew
<1>1. CASE toClient' = <<>> /\ ~cOpen'
  <2>1. Len(<<>>) = 0 /\ 2 .. 0 = {}
    OBVIOUS
  <2>2. QED
    BY <1>1, <2>1 DEF StreamInv, MidFile, NothingNew, Coming
<1>2. CASE toClient' = <<Hello>> /\ cOpen' /\ srv'.phase = "idle"
  <2>1. /\ Len(<<Hello>>) = 1 /\ 2 .. 1 = {} /\ Head(<<Hello>>).t = "hello"
        /\ <<Hello>> # <<>>
    BY DEF Hello
  <2>2. QED
    BY <1>2, <2>1 DEF StreamInv, MidFile, NothingNew, Coming
<1>3. QED
  BY <1>1, <1>2

\* One message is sent that begins or continues what the server is about.
LEMMA AppendOne ==
    ASSUME toClient \in Seq(SenderMsg), NEW m \in SenderMsg,
           StreamInv, toClient' = Append(toClient, m), sOpen, cOpen,
           UNCHANGED <<sOpen, cOpen>>,
           m.t = "chunk" => MidFile /\ m.id = srv.active /\ m.at = srv.sent,
           MidFile' => LeadsTo(m, srv'.active, srv'.sent)
    PROVE  StreamInv' /\ NothingNew
<1> DEFINE b == Append(toClient, m)
           k == Len(toClient)
<1>1. /\ k \in Nat /\ Len(b) = k + 1 /\ b # <<>>
      /\ b[k + 1] = m
      /\ \A i \in 1 .. k : b[i] = toClient[i]
  BY AppendProperties, LenProperties
<1>2. toClient = <<>> <=> k = 0
  BY EmptySeq
<1>3. b \in Seq(SenderMsg)
  BY AppendProperties
<1>4. /\ Head(b) = b[1]
      /\ k > 0 => Head(b) = Head(toClient)
      /\ k = 0 => Head(b) = m
  BY <1>1, <1>2, <1>3, HeadTailProperties
<1> HIDE DEF b, k
<1>5. ASSUME NEW i \in 2 .. Len(b), b[i].t = "chunk"
      PROVE  LeadsTo(b[i - 1], b[i].id, b[i].at)
  <2>1. CASE i = k + 1
    <3>1. k # 0 /\ b[i] = m /\ k \in 1 .. k /\ b[i - 1] = toClient[k]
      BY <1>1, <1>5, <2>1
    <3>2. LeadsTo(toClient[k], srv.active, srv.sent)
      BY <1>2, <1>5, <3>1 DEF StreamInv, k
    <3>3. QED
      BY <1>5, <3>1, <3>2
  <2>2. CASE i # k + 1
    <3>1. i \in 2 .. k /\ i - 1 \in 1 .. k /\ i \in 1 .. k
      BY <1>1, <1>5, <2>2
    <3>2. b[i] = toClient[i] /\ b[i - 1] = toClient[i - 1]
      BY <1>1, <3>1
    <3>3. QED
      BY <1>5, <3>1, <3>2 DEF StreamInv, k
  <2>3. QED
    BY <2>1, <2>2
<1>6. toClient' = b
  BY DEF b
<1>7. StreamInv'
  BY <1>1, <1>5, <1>6 DEF StreamInv
<1>8. NothingNew
  <2>1. ASSUME NEW f, NEW n, Coming(f, n)' PROVE Coming(f, n)
    <3>1. Head(b).t = "chunk" /\ Head(b).id = f /\ Head(b).at = n
      BY <1>1, <1>6, <2>1 DEF Coming
    <3>2. CASE k > 0
      BY <1>2, <1>4, <3>1, <3>2 DEF Coming
    <3>3. CASE k = 0
      BY <1>2, <1>4, <3>1, <3>3 DEF Coming
    <3>4. QED
      BY <1>1, <3>2, <3>3
  <2>2. QED
    BY <2>1 DEF NothingNew
<1>9. QED
  BY <1>7, <1>8

\* What else is sent: messages that are no chunks, the last of which says what
\* the server is about.
LEMMA AppendTalk ==
    ASSUME toClient \in Seq(SenderMsg), NEW s \in Seq(SenderMsg),
           \A i \in 1 .. Len(s) : s[i].t # "chunk",
           StreamInv, toClient' = toClient \o s, UNCHANGED <<sOpen, cOpen>>,
           cOpen,
           MidFile' => s # <<>> /\ LeadsTo(s[Len(s)], srv'.active, srv'.sent)
    PROVE  StreamInv' /\ NothingNew
<1> DEFINE b == toClient \o s
           k == Len(toClient)
           l == Len(s)
<1>1. /\ k \in Nat /\ l \in Nat /\ Len(b) = k + l
      /\ \A i \in 1 .. k : b[i] = toClient[i]
      /\ \A i \in k + 1 .. k + l : b[i] = s[i - k]
      /\ b \in Seq(SenderMsg)
  BY ConcatProperties, LenProperties
<1>2. /\ toClient = <<>> <=> k = 0
      /\ s = <<>> <=> l = 0
      /\ b = <<>> <=> k + l = 0
  BY <1>1, EmptySeq
<1>3. b # <<>> => Head(b) = b[1]
  BY <1>1, HeadTailProperties
<1>4. toClient # <<>> => Head(toClient) = toClient[1]
  BY HeadTailProperties
<1>5. \A i \in 1 .. l : s[i].t # "chunk"
  OBVIOUS
<1> HIDE DEF b, k, l
<1>6. ASSUME NEW i \in k + 1 .. k + l PROVE b[i].t # "chunk"
  <2>1. i - k \in 1 .. l /\ b[i] = s[i - k]
    BY <1>1, <1>6
  <2>2. QED
    BY <1>5, <2>1
<1>7. ASSUME NEW i \in 2 .. Len(b), b[i].t = "chunk"
      PROVE  LeadsTo(b[i - 1], b[i].id, b[i].at)
  <2>1. i \notin k + 1 .. k + l
    BY <1>6, <1>7
  <2>2. i \in 2 .. k /\ i - 1 \in 1 .. k /\ i \in 1 .. k
    BY <1>1, <1>7, <2>1
  <2>3. b[i] = toClient[i] /\ b[i - 1] = toClient[i - 1]
    BY <1>1, <2>2
  <2>4. QED
    BY <1>7, <2>2, <2>3 DEF StreamInv, k
<1>8. toClient' = b
  BY DEF b
<1>9. MidFile' /\ b # <<>> => LeadsTo(b[Len(b)], srv'.active, srv'.sent)
  <2>1. ASSUME MidFile' PROVE l > 0 /\ b[k + l] = s[l]
    <3>1. l > 0
      BY <1>1, <1>2, <2>1
    <3>2. k + l \in k + 1 .. k + l /\ k + l - k = l
      BY <1>1, <3>1
    <3>3. QED
      BY <1>1, <3>1, <3>2
  <2>2. QED
    BY <1>1, <2>1 DEF l
<1>10. StreamInv'
  BY <1>7, <1>8, <1>9 DEF StreamInv, LeadsTo, MidFile
<1>11. NothingNew
  <2>1. ASSUME NEW f, NEW n, Coming(f, n)' PROVE Coming(f, n)
    <3>1. CASE b = <<>>
      <4>1. s = <<>> /\ ~MidFile'
        BY <1>1, <1>2, <3>1
      <4>2. QED
        BY <1>8, <2>1, <3>1, <4>1 DEF Coming, MidFile
    <3>2. CASE b # <<>>
      <4>1. b[1].t = "chunk" /\ b[1].id = f /\ b[1].at = n
        BY <1>3, <1>8, <2>1, <3>2 DEF Coming
      <4>2. 1 \notin k + 1 .. k + l /\ k + l # 0
        BY <1>2, <1>6, <3>2, <4>1
      <4>3. k > 0 /\ 1 \in 1 .. k
        BY <1>1, <4>2
      <4>4. b[1] = toClient[1] /\ toClient # <<>>
        BY <1>1, <1>2, <4>3
      <4>5. QED
        BY <1>4, <4>1, <4>4 DEF Coming
    <3>3. QED
      BY <3>1, <3>2
  <2>2. QED
    BY <2>1 DEF NothingNew
<1>12. QED
  BY <1>10, <1>11

LEMMA FinishFileStream ==
    ASSUME toClient \in Seq(SenderMsg), NEW q \in Seq(Request),
           NEW msgs \in Seq(SenderMsg),
           \A i \in 1 .. Len(msgs) : msgs[i].t # "chunk",
           StreamInv, FinishFile(q, msgs), sOpen, UNCHANGED <<sOpen, cOpen>>
    PROVE  StreamInv' /\ NothingNew
<1> DEFINE a == Announcement(q)
           s == msgs \o a
<1>1. a \in Seq(SenderMsg)
  BY AnnouncementType
<1>2. /\ q = <<>> => a = <<>> /\ srv'.phase = "idle"
      /\ q # <<>> => \E m \in SenderMsg :
             /\ a = <<m>> /\ m.t = "start"
             /\ m.id = srv'.active /\ m.offset = srv'.sent
  <2>1. CASE q = <<>>
    BY <2>1 DEF FinishFile, Serve, IdleServer, Announcement
  <2>2. CASE q # <<>>
    <3> DEFINE m == Start(Head(q).id, Least(Head(q).offset, Size[Head(q).id]))
    <3>1. a = <<m>>
      BY <2>2 DEF Announcement
    <3>2. m \in SenderMsg
      BY <1>1, <3>1
    <3>3. m.t = "start" /\ m.id = srv'.active /\ m.offset = srv'.sent
      BY <2>2 DEF FinishFile, Serve, Start
    <3>4. QED
      BY <2>2, <3>1, <3>2, <3>3
  <2>3. QED
    BY <2>1, <2>2
<1>3. toClient' = IF sOpen /\ cOpen THEN toClient \o s ELSE toClient
  BY DEF FinishFile, Deliver
<1> HIDE DEF a
<1>4. /\ s \in Seq(SenderMsg) /\ Len(s) = Len(msgs) + Len(a)
      /\ \A i \in 1 .. Len(msgs) : s[i] = msgs[i]
      /\ \A i \in Len(msgs) + 1 .. Len(msgs) + Len(a) : s[i] = a[i - Len(msgs)]
  BY <1>1, ConcatProperties
<1>5. Len(msgs) \in Nat /\ Len(a) \in Nat /\ (a = <<>> => Len(a) = 0)
  BY <1>1, LenProperties
<1> HIDE DEF s
<1>6. \A i \in 1 .. Len(s) : s[i].t # "chunk"
  <2>1. ASSUME NEW i \in 1 .. Len(s), i > Len(msgs)
        PROVE  s[i].t # "chunk"
    <3>1. i \in Len(msgs) + 1 .. Len(msgs) + Len(a) /\ Len(a) # 0
      BY <1>4, <1>5, <2>1
    <3>2. PICK m \in SenderMsg : a = <<m>> /\ m.t = "start"
      BY <1>2, <1>5, <3>1
    <3>3. Len(a) = 1 /\ a[1] = m
      BY <3>2
    <3>4. i - Len(msgs) = 1
      BY <1>5, <3>1, <3>3
    <3>5. s[i] = m
      BY <1>4, <3>1, <3>3, <3>4
    <3>6. QED
      BY <3>2, <3>5
  <2>2. ASSUME NEW i \in 1 .. Len(s), ~(i > Len(msgs))
        PROVE  s[i].t # "chunk"
    <3>1. i \in 1 .. Len(msgs)
      BY <1>4, <1>5, <2>2
    <3>2. s[i] = msgs[i] /\ msgs[i].t # "chunk"
      BY <1>4, <3>1
    <3>3. QED
      BY <3>2
  <2>3. QED
    BY <2>1, <2>2
<1>7. CASE cOpen
  <2>1. MidFile' => s # <<>> /\ LeadsTo(s[Len(s)], srv'.active, srv'.sent)
    <3> SUFFICES ASSUME MidFile'
                 PROVE  s # <<>> /\ LeadsTo(s[Len(s)], srv'.active, srv'.sent)
      OBVIOUS
    <3>1. PICK m \in SenderMsg :
              /\ a = <<m>> /\ m.t = "start"
              /\ m.id = srv'.active /\ m.offset = srv'.sent
      BY <1>2 DEF MidFile
    <3>2. /\ Len(a) = 1 /\ a[1] = m /\ Len(s) = Len(msgs) + 1
          /\ Len(s) \in Len(msgs) + 1 .. Len(msgs) + Len(a)
          /\ Len(s) - Len(msgs) = 1
      BY <1>4, <1>5, <3>1
    <3>3. s[Len(s)] = m
      BY <1>4, <3>2
    <3>4. s # <<>>
      BY <1>4, <1>5, <3>2, EmptySeq
    <3>5. QED
      BY <3>1, <3>3, <3>4 DEF LeadsTo
  <2>2. QED
    BY <1>3, <1>4, <1>6, <1>7, <2>1, AppendTalk
<1>8. CASE ~cOpen
  BY <1>3, <1>8, ChannelReplaced DEF StreamInv
<1>9. QED
  BY <1>7, <1>8

LEMMA ServerStepStream ==
    ASSUME TypeInv, StreamInv, ServerStep \/ ReadFails \/ HashReady(FALSE)
    PROVE  StreamInv' /\ NothingNew
<1>1. /\ toClient \in Seq(SenderMsg) /\ srv.queue \in Seq(Request)
      /\ ServerOK /\ srv.active \in Files \cup {NoFile}
      /\ srv.sent \in Nat /\ srv.blockEnd \in Nat
  BY DEF TypeInv, ChannelTypeOK, ServerInv, ServerTypeOK, Request
<1>2. ASSUME NEW m \in SenderMsg, m.t # "chunk"
      PROVE  <<m>> \in Seq(SenderMsg) /\ \A i \in 1 .. Len(<<m>>) : <<m>>[i].t # "chunk"
  BY <1>2
<1>3. <<>> \in Seq(SenderMsg) /\ \A i \in 1 .. Len(<<>>) : <<>>[i].t # "chunk"
  <2>1. 1 .. 0 = {} /\ Len(<<>>) = 0
    OBVIOUS
  <2>2. QED
    BY <2>1, EmptySeq
<1>4. ASSUME OnServerMessage PROVE StreamInv' /\ NothingNew
  <2> DEFINE m == Head(toServer)
  <2>1. m \in ReceiverMsg
    BY <1>4, HeadTailProperties DEF TypeInv, ChannelTypeOK, OnServerMessage
  <2>2. sOpen /\ UNCHANGED <<sOpen, cOpen>>
    BY <1>4 DEF OnServerMessage
  <2>3. CASE \E q \in Seq(Request) : FinishFile(q, <<>>)
    BY <1>1, <1>3, <2>2, <2>3, FinishFileStream
  <2>4. CASE /\ UNCHANGED toClient
             /\ srv'.phase = srv.phase
             /\ srv'.active = srv.active /\ srv'.sent = srv.sent
    BY <2>2, <2>4, ChannelUntouched
  <2>5. CASE m.t = "get" /\ OnGet(m)
    <3>1. m.id \in Files /\ m.offset \in Nat
      BY <2>1, <2>5 DEF ReceiverMsg
    <3>2. <<[id |-> m.id, offset |-> m.offset]>> \o Without(srv.queue, m.id)
              \in Seq(Request)
      <4>1. <<[id |-> m.id, offset |-> m.offset]>> \in Seq(Request)
        BY <3>1 DEF Request
      <4>2. QED
        BY <1>1, <3>1, <4>1, WithoutType, ConcatProperties
    <3>3. QED
      BY <2>3, <2>4, <2>5, <3>2 DEF OnGet, TypeInv, ServerInv, ServerTypeOK
  <2>6. CASE m.t = "ack" /\ OnAck(m)
    BY <2>4, <2>6 DEF OnAck, TypeInv, ServerInv, ServerTypeOK
  <2>7. CASE m.t = "cancel" /\ OnCancel(m)
    <3>1. m.id \in Files
      BY <2>1, <2>7 DEF ReceiverMsg
    <3>2. Without(srv.queue, m.id) \in Seq(Request)
      BY <1>1, <3>1, WithoutType
    <3>3. QED
      BY <2>3, <2>4, <2>7, <3>2 DEF OnCancel, TypeInv, ServerInv, ServerTypeOK
  <2>8. CASE m.t = "done" /\ UNCHANGED <<srv, toClient>>
    BY <2>4, <2>8
  <2>9. QED
    BY <1>4, <2>5, <2>6, <2>7, <2>8 DEF OnServerMessage
<1>5. ASSUME BlockRead PROVE StreamInv' /\ NothingNew
  <2>1. CASE srv.cancelled
    BY <1>1, <1>3, <1>5, <2>1, FinishFileStream DEF BlockRead
  <2>2. CASE ~srv.cancelled
    <3>1. /\ srv'.active = srv.active /\ srv'.sent = srv.sent
          /\ srv.phase = "read"
      BY <1>5, <2>2 DEF BlockRead, TypeInv, ServerInv, ServerTypeOK
    <3>2. QED
      BY <1>5, <2>2, <3>1, ChannelUntouched DEF BlockRead
  <2>3. QED
    BY <2>1, <2>2
<1>6. ASSUME SendChunk PROVE StreamInv' /\ NothingNew
  <2> DEFINE len == Least(CHUNK, srv.blockEnd - srv.sent)
             m == Chunk(srv.active, srv.sent, len)
  <2>1. /\ srv.phase = "send" /\ sOpen /\ UNCHANGED <<sOpen, cOpen>>
        /\ toClient' = Deliver(toClient, <<m>>)
        /\ srv'.active = srv.active /\ srv'.sent = srv.sent + len
    BY <1>6 DEF SendChunk, HasCapacity, TypeInv, ServerInv, ServerTypeOK
  <2>2. srv.active \in Files /\ len \in Nat
    BY <1>1, <2>1 DEF ServerOK, Least
  <2>3. m \in SenderMsg
    BY <1>1, <2>2 DEF Chunk, SenderMsg, Chunks
  <2>4. /\ m.t = "chunk" /\ m.id = srv.active /\ m.at = srv.sent
        /\ LeadsTo(m, srv'.active, srv'.sent)
    BY <2>1 DEF Chunk, LeadsTo
  <2> HIDE DEF m
  <2>5. CASE cOpen
    <3>1. toClient' = Append(toClient, m)
      BY <1>1, <2>1, <2>3, <2>5, AppendIsConcat DEF Deliver
    <3>2. MidFile
      BY <2>1, <2>5 DEF MidFile
    <3>3. QED
      BY <1>1, <2>1, <2>3, <2>4, <2>5, <3>1, <3>2, AppendOne
  <2>6. CASE ~cOpen
    BY <2>1, <2>6, ChannelReplaced DEF Deliver, StreamInv
  <2>7. QED
    BY <2>5, <2>6
<1>7. ASSUME NEW sha \in BOOLEAN, HashReady(sha) PROVE StreamInv' /\ NothingNew
  <2>1. srv.active \in Files /\ sOpen /\ UNCHANGED <<sOpen, cOpen>>
    BY <1>1, <1>7 DEF HashReady, ServerOK
  <2>2. End(srv.active, sha) \in SenderMsg /\ End(srv.active, sha).t # "chunk"
    BY <2>1 DEF End, SenderMsg, Sha256
  <2>3. CASE srv.cancelled
    BY <1>1, <1>3, <1>7, <2>1, <2>3, FinishFileStream DEF HashReady
  <2>4. CASE ~srv.cancelled
    <3>1. FinishFile(srv.queue, <<End(srv.active, sha)>>)
      BY <1>7, <2>4 DEF HashReady
    <3>2. QED
      BY <1>1, <1>2, <2>1, <2>2, <3>1, FinishFileStream
  <2>5. QED
    BY <2>3, <2>4
<1>8. ASSUME ReadFails PROVE StreamInv' /\ NothingNew
  <2>1. srv.active \in Files /\ sOpen /\ UNCHANGED <<sOpen, cOpen>>
    BY <1>1, <1>8 DEF ReadFails, ServerOK
  <2>2. ErrorMsg(srv.active) \in SenderMsg /\ ErrorMsg(srv.active).t # "chunk"
    BY <2>1 DEF ErrorMsg, SenderMsg
  <2>3. CASE srv.cancelled
    BY <1>1, <1>3, <1>8, <2>1, <2>3, FinishFileStream DEF ReadFails
  <2>4. CASE ~srv.cancelled
    <3>1. FinishFile(srv.queue, <<ErrorMsg(srv.active)>>)
      BY <1>8, <2>4 DEF ReadFails
    <3>2. QED
      BY <1>1, <1>2, <2>1, <2>2, <3>1, FinishFileStream
  <2>5. QED
    BY <2>3, <2>4
<1>9. QED
  BY <1>4, <1>5, <1>6, <1>7, <1>8 DEF ServerStep

LEMMA TailElements ==
    ASSUME NEW S, NEW s \in Seq(S), s # <<>>
    PROVE  /\ Len(s) \in Nat /\ Len(s) >= 1 /\ Head(s) = s[1]
           /\ Tail(s) \in Seq(S) /\ Len(Tail(s)) = Len(s) - 1
           /\ \A i \in 1 .. Len(s) - 1 : Tail(s)[i] = s[i + 1]
           /\ Tail(s) = <<>> <=> Len(s) = 1
           /\ Tail(s) # <<>> => Head(Tail(s)) = Tail(s)[1]
<1>1. Len(s) \in Nat \ {0}
  BY EmptySeq
<1>2. /\ Head(s) = s[1] /\ Tail(s) \in Seq(S) /\ Len(Tail(s)) = Len(s) - 1
      /\ \A i \in 1 .. Len(s) - 1 : Tail(s)[i] = s[i + 1]
  BY <1>1, HeadTailProperties
<1> DEFINE t == Tail(s)
<1>3. t \in Seq(S) /\ Len(t) = Len(s) - 1
  BY <1>2
<1> HIDE DEF t
<1>4. t # <<>> => Head(t) = t[1] /\ Len(t) \in Nat \ {0}
  BY <1>3, EmptySeq, HeadTailProperties
<1>5. Len(<<>>) = 0
  OBVIOUS
<1>6. t = <<>> <=> Len(s) = 1
  BY <1>1, <1>3, <1>4, <1>5
<1>7. QED
  BY <1>1, <1>2, <1>4, <1>6 DEF t

LEMMA MessageStream ==
    ASSUME TypeInv, StreamInv, OnClientMessage, UNCHANGED srv
    PROVE  StreamInv' /\ Heard
<1> DEFINE b == Tail(toClient)
           m == Head(toClient)
           k == Len(toClient)
<1>1. toClient \in Seq(SenderMsg) /\ toClient # <<>> /\ cOpen
  BY DEF TypeInv, ChannelTypeOK, OnClientMessage
<1>2. /\ k \in Nat /\ k >= 1 /\ m = toClient[1]
      /\ b \in Seq(SenderMsg) /\ Len(b) = k - 1
      /\ \A i \in 1 .. k - 1 : b[i] = toClient[i + 1]
  BY <1>1, TailElements
<1>3. /\ b = <<>> <=> k = 1
      /\ b # <<>> => Head(b) = b[1]
  BY <1>1, TailElements
<1>4. toClient' = b /\ UNCHANGED <<sOpen, cOpen>>
  BY DEF OnClientMessage
<1> HIDE DEF b, k
<1>5. ASSUME NEW i \in 2 .. Len(b), b[i].t = "chunk"
      PROVE  LeadsTo(b[i - 1], b[i].id, b[i].at)
  <2>1. /\ i \in 1 .. k - 1 /\ i - 1 \in 1 .. k - 1 /\ i + 1 \in 2 .. k
        /\ i - 1 + 1 = i /\ i + 1 - 1 = i
    BY <1>2, <1>5
  <2>2. b[i] = toClient[i + 1] /\ b[i - 1] = toClient[i]
    BY <1>2, <2>1
  <2>3. LeadsTo(toClient[i + 1 - 1], toClient[i + 1].id, toClient[i + 1].at)
    BY <1>5, <2>1, <2>2 DEF StreamInv, k
  <2>4. QED
    BY <2>1, <2>2, <2>3
<1>6. ASSUME MidFile', b # <<>>
      PROVE  LeadsTo(b[Len(b)], srv'.active, srv'.sent)
  <2>1. Len(b) \in 1 .. k - 1 /\ Len(b) + 1 = k
    BY <1>2, <1>3, <1>6
  <2>2. b[Len(b)] = toClient[k]
    BY <1>2, <2>1
  <2>3. LeadsTo(toClient[k], srv.active, srv.sent)
    BY <1>1, <1>4, <1>6 DEF StreamInv, MidFile, k
  <2>4. QED
    BY <2>2, <2>3
<1>7. StreamInv'
  BY <1>1, <1>4, <1>5, <1>6 DEF StreamInv
<1>8. ASSUME NEW f, NEW n, Coming(f, n)' PROVE LeadsTo(m, f, n)
  <2>1. CASE b = <<>>
    <3>1. MidFile /\ srv.active = f /\ srv.sent = n
      BY <1>4, <1>8, <2>1 DEF Coming, MidFile
    <3>2. m = toClient[k]
      BY <1>2, <1>3, <2>1
    <3>3. QED
      BY <1>1, <3>1, <3>2 DEF StreamInv, k
  <2>2. CASE b # <<>>
    <3>1. b[1].t = "chunk" /\ b[1].id = f /\ b[1].at = n
      BY <1>3, <1>4, <1>8, <2>2 DEF Coming
    <3>2. 1 \in 1 .. k - 1 /\ 2 \in 2 .. k /\ 1 + 1 = 2 /\ 2 - 1 = 1
      BY <1>2, <1>3, <2>2
    <3>3. b[1] = toClient[2]
      BY <1>2, <3>2
    <3>4. LeadsTo(toClient[2 - 1], toClient[2].id, toClient[2].at)
      BY <3>1, <3>2, <3>3 DEF StreamInv, k
    <3>5. QED
      BY <1>2, <3>1, <3>2, <3>3, <3>4
  <2>3. QED
    BY <2>1, <2>2
<1>9. QED
  BY <1>1, <1>7, <1>8 DEF Heard

\* Every step sends what may be sent, or handles one message.
\* A step that is not the handling of a message, or not of the client.
Unheard == NothingNew /\ (active' = active \/ ~OnClientMessage)

LEMMA NextStream ==
    ASSUME TypeInv, StreamInv, [Next]_vars
    PROVE  StreamInv' /\ (Unheard \/ (Heard /\ OnClientMessage))
<1>1. CASE (ServerStep \/ ReadFails \/ HashReady(FALSE)) /\ UNCHANGED clientVars
  BY <1>1, ServerStepStream DEF Unheard, clientVars
<1>2. CASE OnClientMessage /\ UNCHANGED srv
  BY <1>2, MessageStream
<1>3. CASE Connect
  BY <1>3, ChannelReplaced DEF Connect, attach, IdleServer, Unheard, clientVars
<1>4. CASE Reload \/ ClientClose
  <2>1. ~OnClientMessage
    <3>1. toClient' = <<>> /\ ~cOpen' /\ (cOpen \/ ~cOpen)
      BY <1>4 DEF Reload, ClientClose
    <3>2. QED
      BY <3>1 DEF OnClientMessage
  <2>2. QED
    BY <1>4, <2>1, ChannelReplaced DEF Reload, ClientClose, Unheard
<1>5. CASE ServerClose /\ UNCHANGED clientVars
  <2>1. sOpen' = FALSE /\ UNCHANGED <<cOpen, toClient, active>>
    BY <1>5 DEF ServerClose, clientVars
  <2>2. QED
    BY <2>1 DEF StreamInv, MidFile, NothingNew, Coming, Unheard
<1>6. CASE UNCHANGED <<srv, sOpen, cOpen, toClient>>
  <2>1. ~OnClientMessage
    BY <1>6, TailElements DEF OnClientMessage, TypeInv, ChannelTypeOK
  <2>2. QED
    BY <1>6, <2>1 DEF StreamInv, MidFile, NothingNew, Coming, LeadsTo, Unheard
<1>7. CASE UNCHANGED vars
  BY <1>6, <1>7 DEF vars, channelVars, serverVars
<1>8. CASE ClientStep /\ UNCHANGED serverVars
  BY <1>2, <1>6, <1>8 DEF ClientStep, serverVars, SinkOpened, OrphanOpened,
      WriteDone, WriteFails, CloseDone, AbortRemoves, AbortDone, LateWriteFails,
      LateAbortDone, channelVars
<1>9. CASE Fault
  BY <1>1, <1>6, <1>9 DEF Fault, serverVars, SinkOpenFails, WriteFails,
      CloseFails, channelVars
<1>10. CASE User /\ UNCHANGED serverVars
  BY <1>4, <1>6, <1>10 DEF User, serverVars, UserDownload, CancelActive,
      CancelQueued, AbortStalled, Evict, channelVars
<1>11. QED
  BY <1>1, <1>3, <1>4, <1>5, <1>7, <1>8, <1>9, <1>10 DEF Next, Break

-----------------------------------------------------------------------------
(* The bytes of a file. *)

LEMMA BytesLen ==
    ASSUME NEW f \in Files, NEW i \in Nat, NEW j \in Nat, i <= j
    PROVE  /\ Bytes(f, i, j) \in FileBytes /\ Len(Bytes(f, i, j)) = j - i
           /\ \A k \in 1 .. j - i : Bytes(f, i, j)[k] = <<f, i + k - 1>>
<1>1. j - i \in Nat
  OBVIOUS
<1>2. Bytes(f, i, j) = [k \in 1 .. (j - i) |-> <<f, i + k - 1>>]
  BY DEF Bytes
<1>3. Bytes(f, i, j) \in FileBytes
  BY BytesType
<1>4. Len(Bytes(f, i, j)) = j - i
  BY <1>1, <1>2, <1>3 DEF FileBytes
<1>5. QED
  BY <1>2, <1>3, <1>4

LEMMA PrefixLen ==
    ASSUME NEW f \in Files, NEW n \in Nat
    PROVE  /\ Prefix(f, n) \in Seq(Files \X Nat) /\ Len(Prefix(f, n)) = n
           /\ \A k \in 1 .. n : Prefix(f, n)[k] = <<f, k - 1>>
<1>1. 0 <= n /\ n - 0 = n
  OBVIOUS
<1>2. /\ Bytes(f, 0, n) \in FileBytes /\ Len(Bytes(f, 0, n)) = n - 0
      /\ \A k \in 1 .. n - 0 : Bytes(f, 0, n)[k] = <<f, 0 + k - 1>>
  BY <1>1, BytesLen
<1>3. ASSUME NEW k \in 1 .. n PROVE Bytes(f, 0, n)[k] = <<f, k - 1>>
  <2>1. k \in 1 .. n - 0 /\ 0 + k - 1 = k - 1
    OBVIOUS
  <2>2. Bytes(f, 0, n)[k] = <<f, 0 + k - 1>>
    BY <1>2, <2>1
  <2>3. QED
    BY <2>1, <2>2
<1>4. QED
  BY <1>1, <1>2, <1>3 DEF Prefix, FileBytes

LEMMA PrefixGrows ==
    ASSUME NEW f \in Files, NEW i \in Nat, NEW n \in Nat
    PROVE  Prefix(f, i) \o Bytes(f, i, i + n) = Prefix(f, i + n)
<1> DEFINE a == Prefix(f, i)
           b == Bytes(f, i, i + n)
           c == Prefix(f, i + n)
           S == Files \X Nat
<1>1. /\ a \in Seq(S) /\ Len(a) = i
      /\ \A k \in 1 .. i : a[k] = <<f, k - 1>>
  BY PrefixLen
<1>2. /\ b \in Seq(S) /\ Len(b) = n
      /\ \A k \in 1 .. n : b[k] = <<f, i + k - 1>>
  <2>1. PICK j \in Nat : j = i + n /\ i <= j /\ j - i = n
    OBVIOUS
  <2>2. /\ Bytes(f, i, j) \in FileBytes /\ Len(Bytes(f, i, j)) = j - i
        /\ \A k \in 1 .. j - i : Bytes(f, i, j)[k] = <<f, i + k - 1>>
    BY <2>1, BytesLen
  <2>3. QED
    BY <2>1, <2>2 DEF FileBytes
<1>3. /\ c \in Seq(S) /\ Len(c) = i + n
      /\ \A k \in 1 .. i + n : c[k] = <<f, k - 1>>
  <2>1. i + n \in Nat
    OBVIOUS
  <2>2. QED
    BY <2>1, PrefixLen
<1> HIDE DEF a, b, c, S
<1>4. /\ a \o b \in Seq(S) /\ Len(a \o b) = i + n
      /\ \A k \in 1 .. i + n : (a \o b)[k] = IF k <= i THEN a[k] ELSE b[k - i]
  <2>1. /\ a \o b \in Seq(S) /\ Len(a \o b) = Len(a) + Len(b)
        /\ \A k \in 1 .. Len(a) + Len(b) :
               (a \o b)[k] = IF k <= Len(a) THEN a[k] ELSE b[k - Len(a)]
    <3>1. a \in Seq(S) /\ b \in Seq(S)
      BY <1>1, <1>2
    <3>2. QED
      BY <3>1, ConcatProperties
  <2>2. QED
    BY <1>1, <1>2, <2>1
<1>5. ASSUME NEW k \in 1 .. i + n PROVE (a \o b)[k] = c[k]
  <2>1. CASE k <= i
    <3>1. k \in 1 .. i
      BY <2>1
    <3>2. QED
      BY <1>1, <1>3, <1>4, <2>1, <3>1
  <2>2. CASE ~(k <= i)
    <3>1. k - i \in 1 .. n /\ i + (k - i) - 1 = k - 1
      BY <2>2
    <3>2. (a \o b)[k] = <<f, i + (k - i) - 1>>
      BY <1>2, <1>4, <2>2, <3>1
    <3>3. QED
      BY <1>3, <3>1, <3>2
  <2>3. QED
    BY <2>1, <2>2
<1>6. a \o b = c
  BY <1>3, <1>4, <1>5, SeqEqual
<1>7. QED
  BY <1>6 DEF a, b, c

LEMMA PrefixCut ==
    ASSUME NEW f \in Files, NEW i \in Nat, NEW n \in Nat, n <= i
    PROVE  SubSeq(Prefix(f, i), 1, n) = Prefix(f, n)
<1> DEFINE a == Prefix(f, i)
           c == Prefix(f, n)
           s == SubSeq(a, 1, n)
           S == Files \X Nat
<1>1. /\ a \in Seq(S) /\ Len(a) = i
      /\ \A k \in 1 .. i : a[k] = <<f, k - 1>>
  BY PrefixLen
<1>2. /\ c \in Seq(S) /\ Len(c) = n
      /\ \A k \in 1 .. n : c[k] = <<f, k - 1>>
  BY PrefixLen
<1> HIDE DEF a, c, S
<1>3. /\ s \in Seq(S) /\ Len(s) = n
      /\ \A k \in 1 .. n : s[k] = a[k]
  <2>1. \A k \in 1 .. n : a[k] \in S
    BY <1>1, ElementOfSeq
  <2>2. /\ s \in Seq(S)
        /\ Len(s) = IF 1 <= n THEN n - 1 + 1 ELSE 0
        /\ \A k \in 1 .. n - 1 + 1 : s[k] = a[1 + k - 1]
    BY <2>1, SubSeqProperties
  <2>3. /\ (IF 1 <= n THEN n - 1 + 1 ELSE 0) = n /\ n - 1 + 1 = n
        /\ \A k \in 1 .. n : 1 + k - 1 = k
    OBVIOUS
  <2>4. QED
    BY <2>2, <2>3
<1> HIDE DEF s
<1>4. ASSUME NEW k \in 1 .. n PROVE s[k] = c[k]
  <2>1. k \in 1 .. i
    OBVIOUS
  <2>2. s[k] = a[k] /\ a[k] = <<f, k - 1>> /\ c[k] = <<f, k - 1>>
    BY <1>1, <1>2, <1>3, <2>1
  <2>3. QED
    BY <2>2
<1>5. s = c
  BY <1>2, <1>3, <1>4, SeqEqual
<1>6. QED
  BY <1>5 DEF s, a, c

LEMMA PrefixEmpty == \A f \in Files : Prefix(f, 0) = <<>>
<1>1. ASSUME NEW f \in Files PROVE Prefix(f, 0) = <<>>
  <2>1. Prefix(f, 0) \in FileBytes /\ Len(Prefix(f, 0)) = 0
    BY BytesLen DEF Prefix
  <2>2. QED
    BY <2>1, EmptySeq DEF FileBytes
<1>2. QED
  BY <1>1

-----------------------------------------------------------------------------
(* What a step does to the work: the active download, what is on disk and  *)
(* the checkpoints.                                                        *)

\* A sink that is still opening has nothing of a transfer, and every file in
\* the queue is fetched from its beginning.
WorkOK ==
    /\ ~active.ready =>
           active.chain = <<>> /\ active.failed = "no" /\ ~active.closing
    /\ QueueStartsOver

\* The start of the active download's bytes where they are wanted.
Started ==
    /\ OnClientMessage
    /\ toClient # <<>> /\ Head(toClient).t = "start"
    /\ Head(toClient).id = active.id
    /\ Head(toClient).offset = active.received

SameWork ==
    /\ active'.id = active.id /\ active'.ready = active.ready
    /\ active'.received = active.received /\ active'.written = active.written
    /\ active'.hasher = active.hasher /\ active'.hashed = active.hashed
    /\ active'.removed = active.removed
    /\ disk' = disk
    /\ active'.accepting => active.accepting \/ Started

RecordsDropped ==
    \A f \in Files :
        /\ saved'[f] = saved[f] \/ saved'[f] = NoResume
        /\ opfsDirs'[f] = opfsDirs[f] \/ opfsDirs'[f] = "none"

\* Nothing that counts is done for the active download.
Going ==
    /\ SameWork
    /\ active'.chain = active.chain /\ active'.failed = active.failed
    /\ active'.closing => active.closing \/ active.ready
    /\ RecordsDropped

\* The active download has failed, and its sink is being aborted.
GivenUp ==
    /\ SameWork
    /\ active.ready /\ active'.failed # "no"
    /\ active'.chain = active.chain \/ active'.chain = <<>>
    /\ RecordsDropped

Fresh(d) ==
    \/ d = NoDownload
    \/ \E f \in Files, from \in ResumeFrom :
           from.offset = 0 /\ d = NewDownload(f, from)

\* Nothing on disk changes but what the active download has there.
DiskOnly ==
    \A f \in Files :
        \/ disk'[f] = disk[f]
        \/ disk'[f] = <<>> /\ f = active.id

\* The active download is over, or there was none: the next one begins.
Replaced ==
    /\ items
    /\ Fresh(active')
    /\ DiskOnly
    /\ RecordsDropped
    /\ active.id # NoFile => saved'[active.id] = NoResume

\* The first hello: what a reload interrupted goes on.
Resumed ==
    /\ ~items
    /\ \E f \in Files :
           /\ saved[f].offset > 0
           /\ active' = NewDownload(f, [saved[f] EXCEPT
                                            !.offset = Least(@, Size[f])])
    /\ UNCHANGED <<disk, saved, opfsDirs>>

\* A chunk is taken for the active download's next bytes.
Taken ==
    \E m \in Chunks :
        /\ toClient # <<>> /\ m = Head(toClient)
        /\ active.id # NoFile /\ active.ready
        /\ active.accepting /\ active.failed = "no"
        /\ active.received + m.len <= Size[active.id]
        /\ active' = [active EXCEPT !.received = @ + m.len,
                                    !.chain = Append(@, m)]
        /\ OnClientMessage
        /\ UNCHANGED <<disk, saved, opfsDirs>>

Opened == \E wasm \in Wasm : SinkOpened(wasm)

OrphanAborted == \E f \in Files : OrphanOpened(f)

WorkStep ==
    \/ Going
    \/ GivenUp
    \/ Replaced
    \/ Resumed
    \/ Taken
    \/ Opened
    \/ OrphanAborted
    \/ WriteDone
    \/ AbortRemoves
    \/ Reload
    \/ Spend("evictions") /\ Evict

LEMMA RecordsSame ==
    saved' = saved /\ opfsDirs' = opfsDirs => RecordsDropped
BY DEF RecordsDropped

LEMMA RecordsDrop ==
    ASSUME TypeInv, NEW f \in Files, DropCheckpoint(f)
    PROVE  RecordsDropped /\ saved'[f] = NoResume
BY DEF DropCheckpoint, RecordsDropped, TypeInv, ClientInv, RecordsOK

LEMMA FreshNext ==
    ASSUME NEW q \in Seq(Queued), \A i \in DOMAIN q : q[i].from.offset = 0,
           NEW st, TakeNext(q, st)
    PROVE  Fresh(active') /\ QueueStartsOver'
<1>1. CASE q = <<>>
  BY <1>1 DEF TakeNext, Fresh, QueueStartsOver
<1>2. CASE q # <<>>
  <2> DEFINE h == Head(q)
             from == [h.from EXCEPT !.offset = Least(@, Size[h.id])]
  <2>1. active' = NewDownload(h.id, from) /\ queue' = Tail(q)
    BY <1>2 DEF TakeNext
  <2>2. h \in Queued /\ h = q[1] /\ 1 \in DOMAIN q
    BY <1>2, HeadTailProperties
  <2>3. h.id \in Files /\ h.from \in ResumeFrom /\ h.from.offset = 0
    BY <2>2 DEF Queued
  <2>9. Size[h.id] \in Nat
    BY <2>3
  <2>10. Least(h.from.offset, Size[h.id]) = 0
    BY <2>3, <2>9 DEF Least
  <2>11. from = [h.from EXCEPT !.offset = 0]
    BY <2>10
  <2>12. from \in ResumeFrom /\ from.offset = 0
    BY <2>3, <2>11 DEF ResumeFrom
  <2>4. \A i \in DOMAIN Tail(q) : i + 1 \in DOMAIN q /\ Tail(q)[i] = q[i + 1]
    BY <1>2, HeadTailProperties
  <2>5. QED
    <3>1. Fresh(active')
      BY <2>1, <2>3, <2>12 DEF Fresh
    <3>2. QueueStartsOver'
      BY <2>1, <2>4 DEF QueueStartsOver
    <3>3. QED
      BY <3>1, <3>2
<1>3. QED
  BY <1>1, <1>2

\* A fresh download is not open yet.
LEMMA FreshFields ==
    ASSUME NEW d, Fresh(d)
    PROVE  /\ d.id \in Files \cup {NoFile} /\ ~d.ready /\ d.received = 0
           /\ d.chain = <<>> /\ d.failed = "no" /\ ~d.closing /\ ~d.accepting
           /\ ~d.removed
BY DEF Fresh, NoDownload, NewDownload, NoResume

LEMMA EndActiveWork ==
    ASSUME TypeInv, LineInv, WorkOK, active.id # NoFile,
           NEW status, EndActive(status), DiskOnly
    PROVE  WorkOK' /\ Replaced
<1>1. active.id \in Files /\ queue \in Seq(Queued) /\ items
  BY DEF LineInv, BeforeItems, TypeInv, ClientInv, LineOK, Download
<1>2. Fresh(active') /\ QueueStartsOver'
  BY <1>1, FreshNext DEF EndActive, WorkOK, QueueStartsOver
<1>3. RecordsDropped /\ saved'[active.id] = NoResume
  BY <1>1, RecordsDrop DEF EndActive
<1>4. /\ active'.chain = <<>> /\ active'.failed = "no" /\ ~active'.closing
  BY <1>2, FreshFields
<1>5. QED
  BY <1>1, <1>2, <1>3, <1>4 DEF WorkOK, Replaced

LEMMA FailActiveWork ==
    ASSUME TypeInv, LineInv, WorkOK, active.id # NoFile,
           NEW o \in {"error", "cancelled"}, NEW msgs, FailActive(o, msgs),
           disk' = disk
    PROVE  WorkOK' /\ (GivenUp \/ Replaced)
<1>1. CASE active.ready
  <2>1. active' = Failing(active, o) /\ UNCHANGED <<queue, saved, opfsDirs>>
    BY <1>1 DEF FailActive
  <2>2. active \in Download
    BY DEF TypeInv, ClientInv, LineOK
  <2>3. SameWork /\ active'.failed # "no" /\ active'.chain = active.chain
    BY <2>1, <2>2 DEF SameWork, Failing, Download
  <2>4. GivenUp
    BY <1>1, <2>1, <2>3, RecordsSame DEF GivenUp
  <2>5. WorkOK'
    BY <1>1, <2>1, <2>3 DEF WorkOK, SameWork, QueueStartsOver
  <2>6. QED
    BY <2>4, <2>5
<1>2. CASE ~active.ready
  <2>1. DiskOnly
    BY DEF DiskOnly
  <2>2. QED
    BY <1>2, <2>1, EndActiveWork DEF FailActive
<1>3. QED
  BY <1>1, <1>2

\* Going on, with the queue as it is.
LEMMA GoingOn ==
    ASSUME WorkOK, Going, queue' = queue
    PROVE  WorkOK' /\ Going
BY DEF WorkOK, Going, SameWork, QueueStartsOver

LEMMA IgnoreWork ==
    ASSUME WorkOK, Ignore, disk' = disk
    PROVE  WorkOK' /\ Going
<1>1. Going
  BY RecordsSame DEF Ignore, Going, SameWork
<1>2. QED
  BY <1>1, GoingOn DEF Ignore

LEMMA OnHelloWork ==
    ASSUME TypeInv, LineInv, WorkOK, OnHello, disk' = disk
    PROVE  WorkOK' /\ (Going \/ Resumed)
<1>1. active \in Download
  BY DEF TypeInv, ClientInv, LineOK
<1>2. CASE active.ready /\ active.failed = "no"
  <2>1. active' = [active EXCEPT !.accepting = FALSE]
        /\ UNCHANGED <<queue, saved, opfsDirs>>
    BY <1>2 DEF OnHello
  <2>2. Going
    BY <1>1, <2>1, RecordsSame DEF Going, SameWork, Download
  <2>3. QED
    BY <2>1, <2>2, GoingOn
<1>3. CASE /\ ~(active.ready /\ active.failed = "no")
           /\ ~items /\ \E f \in Files : saved[f].offset > 0
  <2>1. PICK f \in Files : saved[f].offset > 0 /\ RequestDownload(f, saved[f])
    BY <1>3 DEF OnHello, resumeSaved
  <2> DEFINE e == [id |-> f, from |-> saved[f]]
             st == [states EXCEPT ![f] = "queued"]
  <2>2. active.id = NoFile /\ queue = <<>>
    BY <1>3 DEF LineInv, BeforeItems
  <2>3. e \in Queued /\ e.id = f /\ e.from = saved[f]
    BY DEF Queued, TypeInv, ClientInv, RecordsOK
  <2>4. TakeNext(<<e>>, st)
    <3>1. Append(<<>>, e) = <<e>>
      OBVIOUS
    <3>2. QED
      BY <2>1, <2>2, <3>1 DEF RequestDownload
  <2>5. /\ active' = NewDownload(e.id, [e.from EXCEPT
                                            !.offset = Least(@, Size[e.id])])
        /\ queue' = <<>>
    BY <2>3, <2>4, TakeOne
  <2>6. active' = NewDownload(f, [saved[f] EXCEPT !.offset = Least(@, Size[f])])
    BY <2>3, <2>5
  <2>7. UNCHANGED <<saved, opfsDirs>>
    BY <1>3 DEF OnHello
  <2>8. Resumed
    BY <1>3, <2>1, <2>6, <2>7 DEF Resumed
  <2>9. /\ active'.chain = <<>> /\ active'.failed = "no" /\ ~active'.closing
    BY <2>6 DEF NewDownload
  <2>10. WorkOK'
    <3>1. DOMAIN <<>> = {}
      BY IdsEmpty
    <3>2. QED
      BY <2>5, <2>9, <3>1 DEF WorkOK, QueueStartsOver
  <2>11. QED
    BY <2>8, <2>10
<1>4. CASE Ignore
  BY <1>4, IgnoreWork
<1>5. QED
  BY <1>2, <1>3, <1>4 DEF OnHello

\* A finish() that the end itself runs, with no write to wait for.
LEMMA FinishWork ==
    ASSUME TypeInv, WorkOK, NEW d \in Download, NEW acks, Finish(d, acks),
           d.id = active.id, d.ready = active.ready,
           d.received = active.received, d.written = active.written,
           d.hasher = active.hasher, d.hashed = active.hashed,
           d.chain = active.chain, d.failed = active.failed,
           d.closing = active.closing, d.accepting = active.accepting,
           d.removed = active.removed,
           active.ready \/ active.received # Size[active.id],
           UNCHANGED <<queue, disk, saved, opfsDirs>>
    PROVE  WorkOK' /\ (Going \/ GivenUp)
<1>1. CASE d.failed # "no"
  <2>1. active' = d
    BY <1>1 DEF Finish
  <2>2. QED
    BY <2>1, GoingOn, RecordsSame DEF Going, SameWork
<1>2. CASE d.failed = "no" /\ d.received # Size[d.id]
  <2>1. active' = [d EXCEPT !.finishing = FALSE, !.accepting = FALSE]
    BY <1>2 DEF Finish
  <2>2. QED
    BY <2>1, GoingOn, RecordsSame DEF Going, SameWork, Download
<1>3. CASE /\ d.failed = "no" /\ d.received = Size[d.id]
           /\ active' = [Failing(d, "error") EXCEPT !.chain = <<>>]
  <2> DEFINE e == Failing(d, "error")
  <2>8. e = [d EXCEPT !.failed = "error", !.accepting = FALSE]
    BY <1>3 DEF Failing
  <2>1. /\ e \in Download /\ e.id = d.id /\ e.ready = d.ready
        /\ e.received = d.received /\ e.written = d.written
        /\ e.hasher = d.hasher /\ e.hashed = d.hashed /\ e.failed # "no"
        /\ e.removed = d.removed /\ ~e.accepting
    BY <2>8 DEF Download
  <2>2. active' = [e EXCEPT !.chain = <<>>]
    BY <1>3
  <2> HIDE DEF e
  <2>3. /\ SameWork /\ active'.failed # "no" /\ active'.chain = <<>>
    BY <2>1, <2>2 DEF SameWork, Download
  <2>4. active.ready
    BY <1>3
  <2>5. GivenUp
    BY <2>3, <2>4, RecordsSame DEF GivenUp
  <2>6. WorkOK'
    BY <2>3, <2>4 DEF WorkOK, SameWork, QueueStartsOver
  <2>7. QED
    BY <2>5, <2>6
<1>4. CASE /\ d.failed = "no" /\ d.received = Size[d.id]
           /\ active' = [d EXCEPT !.closing = TRUE]
  <2>1. Going
    BY <1>4, RecordsSame DEF Going, SameWork, Download
  <2>2. QED
    BY <2>1, GoingOn
<1>5. QED
  BY <1>1, <1>2, <1>3, <1>4 DEF Finish

LEMMA OnStartWork ==
    ASSUME TypeInv, WorkOK, NEW m, m = Head(toClient), toClient # <<>>,
           m.t = "start", OnStart(m), disk' = disk, OnClientMessage
    PROVE  WorkOK' /\ Going
<1>1. active \in Download
  BY DEF TypeInv, ClientInv, LineOK
<1>2. CASE m.id = active.id
  <2>1. /\ active' = [active EXCEPT !.accepting = m.offset = active.received]
        /\ UNCHANGED <<queue, saved, opfsDirs>>
    BY <1>2 DEF OnStart
  <2>2. active'.accepting => Started
    BY <1>1, <1>2, <2>1 DEF Started, Download
  <2>3. Going
    BY <1>1, <2>1, <2>2, RecordsSame DEF Going, SameWork, Download
  <2>4. QED
    BY <2>1, <2>3, GoingOn
<1>3. CASE m.id # active.id
  BY <1>3, IgnoreWork DEF OnStart
<1>4. QED
  BY <1>2, <1>3

LEMMA OnChunkWork ==
    ASSUME TypeInv, LineInv, WorkOK, OnClientMessage,
           NEW m, m = Head(toClient), m.t = "chunk", OnChunk(m)
    PROVE  WorkOK' /\ (Going \/ GivenUp \/ Replaced \/ Taken)
<1>1. active \in Download /\ ClientOK /\ disk' = disk
      /\ toClient # <<>> /\ toClient \in Seq(SenderMsg)
  BY DEF TypeInv, ClientInv, LineOK, OnClientMessage, ChannelTypeOK
<1>2. m \in Chunks
  <2>1. m \in SenderMsg
    BY <1>1
  <2>2. QED
    BY <2>1 DEF SenderMsg, Chunks
<1>3. CASE ~active.accepting \/ active.failed # "no"
  BY <1>1, <1>3, IgnoreWork DEF OnChunk
<1>4. CASE /\ active.id # NoFile
           /\ FailActive("error", <<>>) \/ FailActive("error", <<CancelMsg(active.id)>>)
  BY <1>1, <1>4, FailActiveWork
<1>5. CASE /\ active.accepting /\ active.failed = "no" /\ active.ready
           /\ ~(active.received + m.len > Size[active.id])
  <2>1. active' = [active EXCEPT !.received = @ + m.len,
                                 !.chain = Append(@, m)]
        /\ UNCHANGED <<queue, saved, opfsDirs>>
    BY <1>5 DEF OnChunk
  <2>2. active.id \in Files
    BY <1>1, <1>5 DEF ClientOK, Download
  <2>3. active.received + m.len <= Size[active.id]
    BY <1>1, <1>2, <1>5, <2>2 DEF Download, Chunks
  <2>4. Taken
    BY <1>1, <1>2, <1>5, <2>1, <2>2, <2>3 DEF Taken
  <2>5. active'.ready
    BY <1>1, <1>5, <2>1 DEF Download
  <2>6. WorkOK'
    BY <2>1, <2>5 DEF WorkOK, QueueStartsOver
  <2>7. QED
    BY <2>4, <2>6
<1>6. active.accepting => active.id # NoFile
  BY <1>1 DEF ClientOK
<1>7. QED
  BY <1>3, <1>4, <1>5, <1>6 DEF OnChunk

LEMMA OnEndWork ==
    ASSUME TypeInv, LineInv, WorkOK, NEW m \in SenderMsg, m.t = "end", OnEnd(m),
           disk' = disk
    PROVE  WorkOK' /\ (Going \/ GivenUp \/ Replaced)
<1>1. active \in Download /\ m.sha256 \in BOOLEAN /\ m.id \in Files
  BY DEF TypeInv, ClientInv, LineOK, SenderMsg, Chunks, Sha256
<1>2. CASE m.id # active.id \/ active.finishing
  BY <1>2, IgnoreWork DEF OnEnd
<1>3. CASE /\ ~(m.id # active.id \/ active.finishing)
           /\ ~active.ready /\ active.received = Size[m.id]
  <2>1. active.id # NoFile /\ FailActive("error", <<Done(m.id, FALSE)>>)
    BY <1>1, <1>3 DEF OnEnd
  <2>2. QED
    BY <2>1, FailActiveWork
<1>4. CASE /\ ~(m.id # active.id \/ active.finishing)
           /\ ~(~active.ready /\ active.received = Size[m.id])
  <2>1. PICK d : d = [active EXCEPT !.finishing = TRUE, !.expected = m.sha256]
    OBVIOUS
  <2>2. /\ d \in Download
        /\ d.id = active.id /\ d.ready = active.ready
        /\ d.received = active.received /\ d.written = active.written
        /\ d.hasher = active.hasher /\ d.hashed = active.hashed
        /\ d.chain = active.chain /\ d.failed = active.failed
        /\ d.closing = active.closing /\ d.accepting = active.accepting
        /\ d.removed = active.removed
    BY <1>1, <2>1 DEF Download, Sha256
  <2>3. /\ IF d.chain = <<>>
           THEN Finish(d, <<>>)
           ELSE active' = [d EXCEPT !.barrier = Len(d.chain)]
        /\ UNCHANGED <<queue, saved, opfsDirs>>
    BY <1>4, <2>1 DEF OnEnd
  <2>4. active.ready \/ active.received # Size[active.id]
    BY <1>4
  <2>5. CASE d.chain = <<>>
    BY <2>2, <2>3, <2>4, <2>5, FinishWork
  <2>6. CASE d.chain # <<>>
    <3>1. Going
      BY <2>2, <2>3, <2>6, RecordsSame DEF Going, SameWork, Download
    <3>2. QED
      BY <2>3, <3>1, GoingOn
  <2>7. QED
    BY <2>5, <2>6
<1>5. QED
  BY <1>2, <1>3, <1>4

LEMMA OnErrorWork ==
    ASSUME TypeInv, LineInv, WorkOK, NEW m \in SenderMsg, m.t = "error", OnError(m),
           disk' = disk
    PROVE  WorkOK' /\ (Going \/ GivenUp \/ Replaced)
<1>1. m.id \in Files
  BY DEF SenderMsg, Chunks
<1>2. CASE m.id # active.id
  BY <1>2, IgnoreWork DEF OnError
<1>3. CASE m.id = active.id
  BY <1>1, <1>3, FailActiveWork DEF OnError
<1>4. QED
  BY <1>2, <1>3

LEMMA OnClientMessageWork ==
    ASSUME TypeInv, LineInv, WorkOK, OnClientMessage
    PROVE  WorkOK' /\ (Going \/ GivenUp \/ Replaced \/ Resumed \/ Taken)
<1>1. /\ toClient # <<>> /\ toClient \in Seq(SenderMsg) /\ disk' = disk
      /\ Head(toClient) \in SenderMsg
  BY DEF TypeInv, ChannelTypeOK, OnClientMessage
<1> DEFINE m == Head(toClient)
<1>2. CASE m.t = "hello" /\ OnHello
  BY <1>1, <1>2, OnHelloWork
<1>3. CASE m.t = "start" /\ OnStart(m)
  BY <1>1, <1>3, OnStartWork
<1>4. CASE m.t = "chunk" /\ OnChunk(m)
  BY <1>4, OnChunkWork
<1>5. CASE m.t = "end" /\ OnEnd(m)
  BY <1>1, <1>5, OnEndWork
<1>6. CASE m.t = "error" /\ OnError(m)
  BY <1>1, <1>6, OnErrorWork
<1>7. QED
  BY <1>2, <1>3, <1>4, <1>5, <1>6 DEF OnClientMessage

LEMMA UserDownloadWork ==
    ASSUME TypeInv, LineInv, WorkOK, NEW f \in Files, UserDownload(f)
    PROVE  WorkOK' /\ (Going \/ Replaced)
<1> DEFINE e == [id |-> f, from |-> NoResume]
           q == Append(queue, e)
<1>1. /\ queue \in Seq(Queued) /\ items /\ active \in Download
      /\ UNCHANGED <<disk, saved, opfsDirs>>
  BY DEF TypeInv, ClientInv, LineOK, UserDownload, storageVars
<1>2. e \in Queued /\ e.from.offset = 0
  <2>1. NoResume \in ResumeFrom
    BY EmptySeq DEF NoResume, ResumeFrom, FileBytes, Folder
  <2>2. QED
    BY <2>1 DEF Queued, NoResume
<1>3. /\ q \in Seq(Queued) /\ Len(q) = Len(queue) + 1 /\ q[Len(queue) + 1] = e
      /\ \A i \in 1 .. Len(queue) : q[i] = queue[i]
  BY <1>1, <1>2, AppendProperties
<1>4. \A i \in DOMAIN q : q[i].from.offset = 0
  <2>1. Len(queue) \in Nat /\ DOMAIN queue = 1 .. Len(queue)
        /\ DOMAIN q = 1 .. Len(q)
    BY <1>1, <1>3, LenProperties
  <2> HIDE DEF q, e
  <2>2. QED
    BY <1>2, <1>3, <2>1 DEF WorkOK, QueueStartsOver
<1>5. CASE active.id = NoFile
  <2>1. TakeNext(q, [states EXCEPT ![f] = "queued"])
    BY <1>5 DEF UserDownload, RequestDownload
  <2> HIDE DEF q
  <2>2. Fresh(active') /\ QueueStartsOver'
    BY <1>3, <1>4, <2>1, FreshNext
  <2>3. /\ active'.chain = <<>> /\ active'.failed = "no" /\ ~active'.closing
    BY <2>2, FreshFields
  <2>4. QED
    BY <1>1, <1>5, <2>2, <2>3, RecordsSame DEF WorkOK, Replaced, DiskOnly
<1>6. CASE active.id # NoFile
  <2>1. active' = active /\ queue' = q
    BY <1>6 DEF UserDownload, RequestDownload
  <2>2. Going
    BY <1>1, <2>1, RecordsSame DEF Going, SameWork
  <2> HIDE DEF q
  <2>3. WorkOK'
    BY <1>4, <2>1 DEF WorkOK, QueueStartsOver
  <2>4. QED
    BY <2>2, <2>3
<1>7. QED
  BY <1>5, <1>6

LEMMA CancelQueuedWork ==
    ASSUME TypeInv, WorkOK, NEW f \in Files, CancelQueued(f)
    PROVE  WorkOK' /\ Going
<1>1. /\ queue \in Seq(Queued) /\ active' = active /\ disk' = disk
      /\ DropCheckpoint(f)
  BY DEF TypeInv, ClientInv, LineOK, CancelQueued
<1>2. RecordsDropped
  BY <1>1, RecordsDrop
<1>3. Going
  BY <1>1, <1>2 DEF Going, SameWork
<1> DEFINE S == {e \in Queued : e.from.offset = 0}
<1>4. queue' \in Seq(S)
  <2>1. \A i \in 1 .. Len(queue) : queue[i] \in S
    BY <1>1, LenProperties, ElementOfSeq DEF WorkOK, QueueStartsOver
  <2>2. queue \in Seq(S)
    BY <1>1, <2>1
  <2>3. QED
    BY <2>2, RemoveAtType DEF CancelQueued
<1>5. QueueStartsOver'
  <2>1. \A i \in DOMAIN queue' : queue'[i] \in S
    BY <1>4, LenProperties, ElementOfSeq
  <2>2. QED
    BY <2>1 DEF QueueStartsOver
<1>6. QED
  BY <1>1, <1>3, <1>5 DEF WorkOK

LEMMA GiveUpWork ==
    ASSUME TypeInv, LineInv, WorkOK, CancelActive \/ AbortStalled
    PROVE  WorkOK' /\ (GivenUp \/ Replaced)
<1>1. /\ active.id # NoFile /\ disk' = disk
      /\ \/ FailActive("error", <<CancelMsg(active.id)>>)
         \/ FailActive("cancelled", <<CancelMsg(active.id)>>)
  BY DEF CancelActive, AbortStalled
<1>2. QED
  BY <1>1, FailActiveWork

LEMMA SinkFailsWork ==
    ASSUME TypeInv, WorkOK, WriteFails \/ CloseFails
    PROVE  WorkOK' /\ GivenUp
<1>1. active \in Download /\ ClientOK
  BY DEF TypeInv, ClientInv, LineOK
<1>2. active.ready /\ disk' = disk /\ UNCHANGED <<queue, saved, opfsDirs>>
  BY DEF WriteFails, CloseFails, WorkOK, storageVars
<1> DEFINE e == Failing(active, "error")
<1>3. /\ e.id = active.id /\ e.ready = active.ready
      /\ e.received = active.received /\ e.written = active.written
      /\ e.hasher = active.hasher /\ e.hashed = active.hashed
      /\ e.removed = active.removed /\ e.failed # "no"
      /\ e.accepting => active.accepting
      /\ e \in Download
  BY <1>1, FailingType DEF Failing, Download
<1>4. \/ active' = [e EXCEPT !.chain = <<>>, !.barrier = 0]
      \/ active' = [e EXCEPT !.closing = FALSE, !.chain = <<>>]
  BY DEF WriteFails, CloseFails
<1> HIDE DEF e
<1>5. SameWork /\ active'.failed # "no" /\ active'.chain = <<>>
  BY <1>2, <1>3, <1>4 DEF SameWork, Download
<1>6. GivenUp
  BY <1>2, <1>5, RecordsSame DEF GivenUp
<1>7. QED
  BY <1>2, <1>5, <1>6 DEF WorkOK, SameWork, QueueStartsOver

LEMMA ActiveEndsWork ==
    ASSUME TypeInv, LineInv, WorkOK, CloseDone \/ AbortDone \/ SinkOpenFails
    PROVE  WorkOK' /\ Replaced
<1>1. active.id # NoFile /\ active.id \in Files /\ disk \in [Files -> FileBytes]
  BY DEF CloseDone, AbortDone, SinkOpenFails, TypeInv, ClientInv, LineOK,
         ClientOK, Download
<1>2. PICK status : EndActive(status)
  BY DEF CloseDone, AbortDone, SinkOpenFails
<1>3. disk' = disk \/ disk' = [disk EXCEPT ![active.id] = <<>>]
  BY DEF CloseDone, AbortDone, SinkOpenFails
<1>4. DiskOnly
  BY <1>1, <1>3 DEF DiskOnly
<1>5. QED
  BY <1>1, <1>2, <1>4, EndActiveWork

LEMMA LateAbortDoneWork ==
    ASSUME TypeInv, WorkOK, NEW l \in late, LateAbortDone(l)
    PROVE  WorkOK' /\ Going
<1>1. l.id \in Files /\ DropCheckpoint(l.id) /\ UNCHANGED <<queue, active, disk>>
  BY DEF TypeInv, ClientInv, LateAbortDone
<1>2. RecordsDropped
  BY <1>1, RecordsDrop
<1>3. Going
  BY <1>1, <1>2 DEF Going, SameWork
<1>4. QED
  BY <1>1, <1>3, GoingOn

LEMMA LateWriteFailsWork ==
    ASSUME TypeInv, WorkOK, NEW l \in late, LateWriteFails(l)
    PROVE  WorkOK' /\ Going
<1>1. UNCHANGED <<queue, active, disk, saved, opfsDirs>>
  BY DEF LateWriteFails, storageVars
<1>2. Going
  BY <1>1, RecordsSame DEF Going, SameWork
<1>3. QED
  BY <1>1, <1>2, GoingOn

LEMMA ClientCloseWork ==
    ASSUME TypeInv, WorkOK, ClientClose
    PROVE  WorkOK' /\ Going
<1>1. /\ active \in Download /\ active' = [active EXCEPT !.accepting = FALSE]
      /\ UNCHANGED <<queue, disk, saved, opfsDirs>>
  BY DEF TypeInv, ClientInv, LineOK, ClientClose, storageVars
<1>2. Going
  BY <1>1, RecordsSame DEF Going, SameWork, Download
<1>3. QED
  BY <1>1, <1>2, GoingOn

LEMMA ClientUntouchedWork ==
    ASSUME WorkOK, UNCHANGED clientVars
    PROVE  WorkOK' /\ Going
<1>1. UNCHANGED <<active, queue, disk, saved, opfsDirs>>
  BY DEF clientVars, storageVars
<1>2. Going
  BY <1>1, RecordsSame DEF Going, SameWork
<1>3. QED
  BY <1>1, <1>2, GoingOn

\* What finish() may make of the download it is given.
Continues(d, e) ==
    /\ e.id = d.id /\ e.ready = d.ready
    /\ e.received = d.received /\ e.written = d.written
    /\ e.hasher = d.hasher /\ e.hashed = d.hashed /\ e.removed = d.removed
    /\ \/ e.chain = d.chain /\ e.failed = d.failed
       \/ e.chain = <<>> /\ e.failed # "no"
    /\ e.accepting => d.accepting

LEMMA FinishContinues ==
    ASSUME NEW d \in Download, NEW acks, Finish(d, acks)
    PROVE  Continues(d, active')
<1>1. CASE d.failed # "no"
  BY <1>1 DEF Finish, Continues
<1>2. CASE d.failed = "no" /\ d.received # Size[d.id]
  BY <1>2 DEF Finish, Continues, Download
<1>3. CASE /\ d.failed = "no" /\ d.received = Size[d.id]
           /\ active' = [Failing(d, "error") EXCEPT !.chain = <<>>]
  <2> DEFINE e == Failing(d, "error")
  <2>1. e = [d EXCEPT !.failed = "error", !.accepting = FALSE]
    BY <1>3 DEF Failing
  <2>2. /\ e \in Download /\ e.id = d.id /\ e.ready = d.ready
        /\ e.received = d.received /\ e.written = d.written
        /\ e.hasher = d.hasher /\ e.hashed = d.hashed /\ e.failed # "no"
        /\ e.removed = d.removed /\ ~e.accepting
    BY <2>1 DEF Download
  <2>3. active' = [e EXCEPT !.chain = <<>>]
    BY <1>3
  <2> HIDE DEF e
  <2>4. QED
    BY <2>2, <2>3 DEF Continues, Download
<1>4. CASE /\ d.failed = "no" /\ d.received = Size[d.id]
           /\ active' = [d EXCEPT !.closing = TRUE]
  BY <1>4 DEF Continues, Download
<1>5. QED
  BY <1>1, <1>2, <1>3, <1>4 DEF Finish

\* What a write that succeeds leaves, whether finish() goes on from it or not:
\* c is the chunk written.
Written(c) ==
    /\ active.chain # <<>> /\ c = Head(active.chain) /\ c \in Chunks
    /\ active.id \in Files /\ active.ready
    /\ active'.id = active.id /\ active'.ready
    /\ active'.received = active.received
    /\ active'.written = active.written + c.len
    /\ active'.hasher = active.hasher /\ active'.removed = active.removed
    /\ active'.hashed = IF active.hasher
                        THEN active.hashed \o Bytes(c.id, c.at, c.at + c.len)
                        ELSE active.hashed
    /\ \/ /\ active.failed = "no" /\ active'.failed = "no"
          /\ active'.chain = Tail(active.chain)
       \/ active'.failed # "no" /\ active'.chain = <<>>
    /\ active'.accepting => active.accepting
    /\ disk' = IF active.removed THEN disk
               ELSE [disk EXCEPT ![active.id] =
                        @ \o Bytes(c.id, c.at, c.at + c.len)]
    /\ \/ saved' = saved
       \/ /\ opfsDirs[active.id] # "none"
          /\ saved' = [saved EXCEPT ![active.id] =
                          [offset |-> active'.written,
                           hasState |-> active'.hasher,
                           hashed |-> active'.hashed,
                           dir |-> opfsDirs[active.id]]]
    /\ UNCHANGED <<items, queue, orphans, opfsDirs>>

LEMMA WriteDoneWritten ==
    ASSUME TypeInv, WorkOK, WriteDone
    PROVE  \E c \in Chunks : Written(c)
<1> DEFINE c == Head(active.chain)
           f == active.id
           n == active.written + c.len
           due == n - active.lastAck >= ACK_EVERY \/ n = Size[f]
           bytes == Bytes(c.id, c.at, c.at + c.len)
           h == IF active.hasher THEN active.hashed \o bytes ELSE active.hashed
           ch == IF active.failed = "no" THEN Tail(active.chain) ELSE <<>>
           d == [active EXCEPT
                    !.written = n,
                    !.lastAck = IF due THEN n ELSE @,
                    !.chain = IF active.failed = "no" THEN Tail(@) ELSE <<>>,
                    !.hashed = IF active.hasher THEN @ \o bytes ELSE @,
                    !.barrier = IF @ > 0 THEN @ - 1 ELSE 0]
           acks == IF due THEN <<Ack(f, n)>> ELSE <<>>
<1>1. /\ f \in Files /\ c.len \in Nat /\ bytes \in FileBytes
      /\ Tail(active.chain) \in Seq(Chunks)
  BY InFlightType DEF WriteDone, TypeInv, ClientInv, LineOK
<1>2. active \in Download /\ active.chain # <<>> /\ active.chain \in Seq(Chunks)
  BY DEF TypeInv, ClientInv, LineOK, WriteDone, Download
<1>3. c \in Chunks
  BY <1>2, HeadTailProperties
<1>4. n \in Nat /\ <<>> \in Seq(Chunks) /\ active.barrier \in Nat
  BY <1>1, <1>2, EmptySeq DEF Download
<1>5. h \in FileBytes
  BY <1>1, <1>2, ConcatProperties DEF Download, FileBytes
<1>6. /\ d \in Download /\ d.id = f /\ d.ready = active.ready
      /\ d.received = active.received /\ d.written = n
      /\ d.failed = active.failed /\ d.hasher = active.hasher
      /\ d.hashed = h /\ d.chain = ch /\ d.accepting = active.accepting
      /\ d.removed = active.removed
  <2>1. (IF active.barrier > 0 THEN active.barrier - 1 ELSE 0) \in Nat
    BY <1>4
  <2>2. ch \in Seq(Chunks)
    BY <1>1, <1>4
  <2>3. (IF due THEN n ELSE active.lastAck) \in Nat
    BY <1>2, <1>4 DEF Download
  <2>4. d \in Download
    BY <1>2, <1>4, <1>5, <2>1, <2>2, <2>3 DEF Download
  <2>5. QED
    BY <1>2, <2>4 DEF Download
<1>7. active.ready
  BY DEF WriteDone, WorkOK
<1>8. /\ disk' = IF active.removed THEN disk ELSE [disk EXCEPT ![f] = @ \o bytes]
      /\ \/ saved' = saved
         \/ /\ opfsDirs[f] # "none"
            /\ saved' = [saved EXCEPT ![f] = Checkpoint(d, opfsDirs[f])]
      /\ UNCHANGED <<items, queue, orphans, opfsDirs>>
  BY DEF WriteDone
<1>9. Finish(d, acks) \/ active' = d
  BY DEF WriteDone
<1>10. Checkpoint(d, opfsDirs[f]) =
          [offset |-> n, hasState |-> active.hasher, hashed |-> h,
           dir |-> opfsDirs[f]]
  BY <1>6 DEF Checkpoint
<1> HIDE DEF d, acks
<1>11. Continues(d, active')
  <2>1. CASE Finish(d, acks)
    BY <1>6, <2>1, FinishContinues
  <2>2. CASE active' = d
    BY <2>2 DEF Continues
  <2>3. QED
    BY <1>9, <2>1, <2>2
<1>12. /\ active'.id = f /\ active'.ready /\ active'.received = active.received
       /\ active'.written = n /\ active'.hasher = active.hasher
       /\ active'.hashed = h /\ active'.removed = active.removed
       /\ active'.accepting => active.accepting
       /\ \/ active'.chain = ch /\ active'.failed = active.failed
          \/ active'.chain = <<>> /\ active'.failed # "no"
  BY <1>6, <1>7, <1>11 DEF Continues
<1>13. \/ /\ active.failed = "no" /\ active'.failed = "no"
          /\ active'.chain = Tail(active.chain)
       \/ active'.failed # "no" /\ active'.chain = <<>>
  BY <1>12
<1>14. \/ saved' = saved
       \/ /\ opfsDirs[f] # "none"
          /\ saved' = [saved EXCEPT ![f] =
                          [offset |-> active'.written,
                           hasState |-> active'.hasher,
                           hashed |-> active'.hashed,
                           dir |-> opfsDirs[f]]]
  <2> DEFINE r == [offset |-> n, hasState |-> active.hasher, hashed |-> h,
                   dir |-> opfsDirs[f]]
  <2>1. r = [offset |-> active'.written, hasState |-> active'.hasher,
             hashed |-> active'.hashed, dir |-> opfsDirs[f]]
    BY <1>12
  <2>2. saved' = saved \/ (opfsDirs[f] # "none" /\ saved' = [saved EXCEPT ![f] = r])
    BY <1>8, <1>10
  <2> HIDE DEF r
  <2>3. QED
    BY <2>1, <2>2
<1>15. Written(c)
  <2> HIDE DEF h, n, ch
  <2>1. active'.written = active.written + c.len
    BY <1>12 DEF n
  <2>2. active'.hashed = IF active.hasher THEN active.hashed \o bytes
                         ELSE active.hashed
    BY <1>12 DEF h
  <2>3. disk' = IF active.removed THEN disk
                ELSE [disk EXCEPT ![active.id] = @ \o bytes]
    BY <1>8
  <2>4. QED
    BY <1>1, <1>2, <1>3, <1>7, <1>8, <1>12, <1>13, <1>14, <2>1, <2>2, <2>3
    DEF Written
<1>16. QED
  BY <1>3, <1>15

\* What the sink says and the tab does: these steps are kinds of their own.
LEMMA OwnKindWork ==
    ASSUME TypeInv, LineInv, WorkOK,
           \/ Opened \/ OrphanAborted \/ WriteDone \/ AbortRemoves
           \/ Reload \/ Evict
    PROVE  WorkOK'
<1>1. active \in Download
  BY DEF TypeInv, ClientInv, LineOK
<1>2. CASE Opened
  <2>1. queue' = queue /\ active'.ready
    BY <1>1, <1>2 DEF Opened, SinkOpened, Download
  <2>2. QED
    BY <2>1 DEF WorkOK, QueueStartsOver
<1>3. CASE OrphanAborted \/ Evict
  BY <1>3 DEF OrphanAborted, OrphanOpened, Evict, WorkOK, QueueStartsOver
<1>4. CASE Reload
  <2>1. DOMAIN <<>> = {}
    BY IdsEmpty
  <2>2. QED
    BY <1>4, <2>1
    DEF Reload, WorkOK, QueueStartsOver, NoDownload, NewDownload
<1>5. CASE WriteDone
  <2>1. active.ready /\ queue' = queue
    BY <1>5 DEF WriteDone, WorkOK
  <2>2. active'.ready
    BY <1>5, WriteDoneWritten DEF Written
  <2>3. QED
    BY <2>1, <2>2 DEF WorkOK, QueueStartsOver
<1>6. CASE AbortRemoves
  <2>1. active.ready /\ queue' = queue
    BY <1>6 DEF AbortRemoves, WorkOK
  <2>2. active'.ready
    BY <1>1, <1>6, <2>1 DEF AbortRemoves, Download
  <2>3. QED
    BY <2>1, <2>2 DEF WorkOK, QueueStartsOver
<1>7. QED
  BY <1>2, <1>3, <1>4, <1>5, <1>6

LEMMA NextWork ==
    ASSUME TypeInv, LineInv, WorkOK, [Next]_vars
    PROVE  WorkOK' /\ WorkStep
<1>1. CASE UNCHANGED clientVars
  BY <1>1, ClientUntouchedWork DEF WorkStep
<1>2. CASE OnClientMessage
  BY <1>2, OnClientMessageWork DEF WorkStep
<1>3. CASE \/ Opened \/ OrphanAborted \/ WriteDone \/ AbortRemoves \/ Reload
           \/ Spend("evictions") /\ Evict
  BY <1>3, OwnKindWork DEF WorkStep
<1>4. CASE WriteFails \/ CloseFails
  BY <1>4, SinkFailsWork DEF WorkStep
<1>5. CASE CloseDone \/ AbortDone \/ SinkOpenFails
  BY <1>5, ActiveEndsWork DEF WorkStep
<1>6. CASE \E l \in late : LateAbortDone(l)
  BY <1>6, LateAbortDoneWork DEF WorkStep
<1>7. CASE \E f \in Files : UserDownload(f)
  BY <1>7, UserDownloadWork DEF WorkStep
<1>8. CASE CancelActive \/ AbortStalled
  BY <1>8, GiveUpWork DEF WorkStep
<1>9. CASE \E f \in Files : CancelQueued(f)
  BY <1>9, CancelQueuedWork DEF WorkStep
<1>10. CASE ClientClose
  BY <1>10, ClientCloseWork DEF WorkStep
<1>11. CASE \E l \in late : LateWriteFails(l)
  BY <1>11, LateWriteFailsWork DEF WorkStep
<1>12. QED
  BY <1>1, <1>2, <1>3, <1>4, <1>5, <1>6, <1>7, <1>8, <1>9, <1>10, <1>11
  DEF Next, ClientStep, Fault, User, Break, Connect, attach, vars, Opened,
      OrphanAborted

-----------------------------------------------------------------------------
(* What is heard.  Until the sink of a download that a reload interrupted  *)
(* is open, nothing has been asked of the sender on the channel, so        *)
(* nothing but its hello can arrive.  No completed download has anything   *)
(* left to say then.                                                       *)

Resuming == active.id # NoFile /\ ~active.ready /\ active.received > 0

Unasked == cOpen /\ (~items \/ Resuming)

NothingSaid ==
    /\ toServer = <<>>
    /\ srv.phase = "idle"
    /\ \A i \in 1 .. Len(toClient) : toClient[i].t = "hello"

QuietInv ==
    /\ Resuming => ~active.accepting
    /\ Unasked => NothingSaid
    /\ ~items \/ Resuming => late = {}

LEMMA ResumingFrom ==
    ASSUME TypeInv, WorkOK, WorkStep, Resuming'
    PROVE  \/ Resuming /\ (active'.accepting => active.accepting \/ Started)
           \/ ~items /\ ~active'.accepting
<1>1. active \in Download
  BY DEF TypeInv, ClientInv, LineOK
<1>2. CASE Going \/ GivenUp
  BY <1>2 DEF Going, GivenUp, SameWork, Resuming
<1>3. CASE Replaced
  <2>1. active'.received = 0
    BY <1>3, FreshFields DEF Replaced
  <2>2. QED
    BY <2>1 DEF Resuming
<1>4. CASE Resumed
  BY <1>4 DEF Resumed, NewDownload
<1>5. CASE Taken \/ Opened \/ WriteDone
  <2>1. CASE Taken
    BY <1>1, <2>1 DEF Taken, Resuming, Download
  <2>2. CASE Opened
    BY <1>1, <2>2 DEF Opened, SinkOpened, Resuming, Download
  <2>3. CASE WriteDone
    BY <2>3, WriteDoneWritten DEF Written, Resuming
  <2>4. QED
    BY <1>5, <2>1, <2>2, <2>3
<1>6. CASE OrphanAborted \/ Evict
  BY <1>6 DEF OrphanAborted, OrphanOpened, Evict, Resuming
<1>7. CASE Reload
  BY <1>7 DEF Reload, NoDownload, NewDownload, Resuming
<1>8. CASE AbortRemoves
  <2>1. active.ready
    BY <1>8 DEF AbortRemoves, WorkOK
  <2>2. active'.ready
    BY <1>1, <1>8, <2>1 DEF AbortRemoves, Download
  <2>3. QED
    BY <2>2 DEF Resuming
<1>9. QED
  BY <1>2, <1>3, <1>4, <1>5, <1>6, <1>7, <1>8 DEF WorkStep

\* A step of the client that says nothing.
LEMMA SilentStep ==
    ASSUME TypeInv, WorkOK, QuietInv, WorkStep,
           UNCHANGED <<items, cOpen, toClient, toServer, srv>>,
           late' \subseteq late
    PROVE  QuietInv'
<1>1. ~Started
  <2>1. toClient' # Tail(toClient) \/ toClient = <<>>
    BY TailElements DEF TypeInv, ChannelTypeOK
  <2>2. QED
    BY <2>1 DEF Started, OnClientMessage
<1>2. Resuming' => ~active'.accepting
  BY <1>1, ResumingFrom DEF QuietInv
<1>3. Unasked' => Unasked
  BY ResumingFrom DEF Unasked
<1>4. (~items \/ Resuming)' => late' = {}
  BY ResumingFrom DEF QuietInv
<1>5. QED
  BY <1>2, <1>3, <1>4 DEF QuietInv, NothingSaid

\* A step after which the client has asked for something, or for nothing.
LEMMA AskingStep ==
    ASSUME items', ~Resuming'
    PROVE  QuietInv'
BY DEF QuietInv, Unasked

LEMMA OnClientMessageQuiet ==
    ASSUME TypeInv, LineInv, WorkOK, QuietInv, WorkStep,
           OnClientMessage, UNCHANGED srv
    PROVE  QuietInv'
<1> DEFINE k == Len(toClient)
<1>1. /\ toClient \in Seq(SenderMsg) /\ toClient # <<>> /\ cOpen /\ cOpen' = cOpen
      /\ toClient' = Tail(toClient) /\ items' = (items \/ Head(toClient).t = "hello")
      /\ late' = late
  BY DEF TypeInv, ChannelTypeOK, OnClientMessage
<1>2. /\ k \in Nat /\ k >= 1 /\ Head(toClient) = toClient[1]
      /\ Len(toClient') = k - 1
      /\ \A i \in 1 .. k - 1 : toClient'[i] = toClient[i + 1]
  BY <1>1, TailElements
<1>4. CASE Unasked
  <2>1. NothingSaid /\ Head(toClient).t = "hello"
    BY <1>2, <1>4 DEF QuietInv, NothingSaid
  <2>2. OnHello
    BY <2>1 DEF OnClientMessage
  <2>3. ~active.ready
    BY <1>4 DEF Unasked, Resuming, LineInv, BeforeItems, TypeInv, ClientInv,
                LineOK, ClientOK
  <2>4. toServer' = toServer
    BY <2>2, <2>3 DEF OnHello, Ignore
  <2>5. NothingSaid'
    BY <1>2, <2>1, <2>4 DEF NothingSaid
  <2>6. ~Started
    BY <2>1 DEF Started
  <2>7. Resuming' => ~active'.accepting
    BY <2>6, ResumingFrom DEF QuietInv
  <2>8. (~items \/ Resuming)' => late' = {}
    BY <1>1, ResumingFrom DEF QuietInv
  <2>9. QED
    BY <2>5, <2>7, <2>8 DEF QuietInv
<1>5. CASE ~Unasked
  <2>1. items /\ ~Resuming
    BY <1>1, <1>5 DEF Unasked
  <2>2. items' /\ ~Resuming'
    BY <1>1, <2>1, ResumingFrom
  <2>3. QED
    BY <2>2, AskingStep
<1>6. QED
  BY <1>4, <1>5

\* The download that the step is about is open, or it is over.
LEMMA SpeakingStep ==
    ASSUME TypeInv, LineInv, WorkOK, items' = items,
           GivenUp \/ Replaced \/ WriteDone \/ Opened
    PROVE  QuietInv'
<1>1. active \in Download /\ ClientOK /\ BeforeItems
  BY DEF TypeInv, ClientInv, LineOK, LineInv
<1>2. items
  <2>1. CASE GivenUp
    BY <1>1, <2>1 DEF GivenUp, ClientOK, BeforeItems
  <2>2. CASE Replaced
    BY <2>2 DEF Replaced
  <2>3. CASE WriteDone
    BY <1>1, <2>3 DEF WriteDone, ClientOK, BeforeItems
  <2>4. CASE Opened
    BY <1>1, <2>4 DEF Opened, SinkOpened, BeforeItems
  <2>5. QED
    BY <2>1, <2>2, <2>3, <2>4
<1>3. ~Resuming'
  <2>1. CASE GivenUp
    BY <2>1 DEF GivenUp, SameWork, Resuming
  <2>2. CASE Replaced
    BY <2>2, FreshFields DEF Replaced, Resuming
  <2>3. CASE WriteDone
    BY <2>3, WriteDoneWritten DEF Written, Resuming
  <2>4. CASE Opened
    BY <1>1, <2>4 DEF Opened, SinkOpened, Resuming, Download
  <2>5. QED
    BY <2>1, <2>2, <2>3, <2>4
<1>4. QED
  BY <1>2, <1>3, AskingStep

LEMMA ServerStepQuiet ==
    ASSUME TypeInv, QuietInv, ServerStep \/ ReadFails \/ HashReady(FALSE),
           UNCHANGED clientVars
    PROVE  QuietInv'
<1>1. UNCHANGED <<items, active, late, cOpen>>
  BY DEF clientVars, ServerStep, OnServerMessage, BlockRead, SendChunk, HashReady,
         ReadFails
<1>2. ~NothingSaid
  BY DEF NothingSaid, ServerStep, OnServerMessage, BlockRead, SendChunk,
         HashReady, ReadFails
<1>3. QED
  BY <1>1, <1>2 DEF QuietInv, Unasked, Resuming

LEMMA NextQuiet ==
    ASSUME TypeInv, LineInv, WorkOK, QuietInv, WorkStep, [Next]_vars
    PROVE  QuietInv'
<1>1. CASE Connect
  <2>1. toClient' = <<Hello>> /\ toServer' = <<>> /\ srv' = IdleServer
        /\ UNCHANGED <<active, items, late>>
    BY <1>1 DEF Connect, attach, clientVars
  <2>2. Len(<<Hello>>) = 1 /\ <<Hello>>[1].t = "hello"
    BY DEF Hello
  <2>3. NothingSaid'
    BY <2>1, <2>2 DEF NothingSaid, IdleServer
  <2>4. QED
    BY <2>1, <2>3 DEF QuietInv, Resuming
<1>2. CASE (ServerStep \/ ReadFails \/ HashReady(FALSE)) /\ UNCHANGED clientVars
  BY <1>2, ServerStepQuiet
<1>3. CASE ServerClose /\ UNCHANGED clientVars
  <2>1. /\ toServer' = <<>> /\ srv' = IdleServer
        /\ UNCHANGED <<active, items, late, cOpen, toClient>>
    BY <1>3 DEF ServerClose, clientVars
  <2>2. QED
    BY <2>1 DEF QuietInv, Unasked, Resuming, NothingSaid, IdleServer
<1>4. CASE OnClientMessage /\ UNCHANGED serverVars
  BY <1>4, OnClientMessageQuiet DEF serverVars
<1>5. CASE (ClientClose \/ Reload) /\ UNCHANGED serverVars
  <2>1. ~cOpen' /\ (active' = [active EXCEPT !.accepting = FALSE] \/ active' = NoDownload)
    BY <1>5 DEF ClientClose, Reload
  <2>2. active \in Download
    BY DEF TypeInv, ClientInv, LineOK
  <2>3. ~active'.accepting
    BY <2>1, <2>2 DEF Download, NoDownload, NewDownload
  <2>4. (~items \/ Resuming)' => late' = {}
    <3>1. CASE Reload
      BY <3>1 DEF Reload
    <3>2. CASE ClientClose
      BY <2>2, <3>2 DEF ClientClose, QuietInv, Resuming, Download
    <3>3. QED
      BY <1>5, <3>1, <3>2
  <2>5. QED
    BY <2>1, <2>3, <2>4 DEF QuietInv, Unasked
<1>6. CASE /\ \/ OrphanAborted \/ AbortRemoves \/ AbortDone
              \/ SinkOpenFails \/ Evict
              \/ \E l \in late : LateAbortDone(l)
              \/ \E f \in Files : UserDownload(f) \/ CancelQueued(f)
           /\ UNCHANGED serverVars
  <2>1. UNCHANGED <<items, cOpen, toClient, toServer, srv>>
        /\ late' \subseteq late
    BY <1>6
    DEF OrphanAborted, OrphanOpened, AbortRemoves, AbortDone, SinkOpenFails,
        Evict, LateAbortDone, UserDownload, CancelQueued, channelVars, serverVars
  <2>2. QED
    BY <2>1, SilentStep
<1>7. CASE Opened \/ WriteDone
  BY <1>7, SpeakingStep DEF Opened, SinkOpened, WriteDone
<1>8. CASE CancelActive \/ AbortStalled
  BY <1>8, SpeakingStep, GiveUpWork DEF CancelActive, AbortStalled
<1>9. CASE WriteFails \/ CloseFails
  BY <1>9, SpeakingStep, SinkFailsWork DEF WriteFails, CloseFails
<1>10. CASE CloseDone
  BY <1>10, SpeakingStep, ActiveEndsWork DEF CloseDone
<1>11. CASE UNCHANGED vars
  <2>1. UNCHANGED <<items, late, cOpen, toClient, toServer, srv>>
    BY <1>11 DEF vars, channelVars, serverVars, clientVars
  <2>2. QED
    BY <2>1, SilentStep
<1>12. CASE \E l \in late : LateWriteFails(l)
  <2>1. items /\ ~Resuming
    BY <1>12 DEF QuietInv
  <2>2. items' = items /\ active' = active
    BY <1>12 DEF LateWriteFails
  <2>3. QED
    BY <2>1, <2>2, AskingStep DEF Resuming
<1>13. QED
  BY <1>1, <1>2, <1>3, <1>4, <1>5, <1>6, <1>7, <1>8, <1>9, <1>10, <1>11, <1>12
  DEF Next, ServerStep, ClientStep, Fault, User, Break, Opened, OrphanAborted

-----------------------------------------------------------------------------
(* What is taken.  A download only takes bytes once their start was heard  *)
(* at its own offset, and from then on they come without a gap.            *)

HeadOK ==
    active.accepting /\ active.failed = "no" =>
        \A n : Coming(active.id, n) => n = active.received

\* The step of a message.
LEMMA HeardHead ==
    ASSUME TypeInv, LineInv, WorkOK, HeadOK, OnClientMessage,
           active'.accepting, active'.failed = "no",
           NEW n, LeadsTo(Head(toClient), active'.id, n)
    PROVE  n = active'.received
<1> DEFINE m == Head(toClient)
<1>1. /\ active \in Download /\ toClient # <<>> /\ toClient \in Seq(SenderMsg)
      /\ m \in SenderMsg /\ ClientOK
  BY DEF TypeInv, ClientInv, LineOK, ChannelTypeOK, OnClientMessage
<1>2. CASE m.t = "start" /\ m.id = active'.id /\ m.offset = n
  <2>1. OnStart(m)
    BY <1>2 DEF OnClientMessage
  <2>2. CASE m.id # active.id
    BY <1>2, <2>1, <2>2 DEF OnStart, Ignore
  <2>3. CASE m.id = active.id
    <3>1. active' = [active EXCEPT !.accepting = m.offset = active.received]
      BY <2>1, <2>3 DEF OnStart
    <3>2. QED
      BY <1>1, <1>2, <3>1 DEF Download
  <2>4. QED
    BY <2>2, <2>3
<1>3. CASE m.t = "chunk" /\ m.id = active'.id /\ m.at + m.len = n
  <2>1. OnChunk(m)
    BY <1>3 DEF OnClientMessage
  <2>2. CASE ~active.accepting \/ active.failed # "no"
    BY <2>1, <2>2 DEF OnChunk, Ignore
  <2>3. CASE /\ active.accepting /\ active.failed = "no"
             /\ FailActive("error", <<>>) \/ FailActive("error", <<CancelMsg(active.id)>>)
    <3>1. active.id # NoFile /\ disk' = disk
      BY <1>1, <2>3 DEF ClientOK, OnClientMessage
    <3>2. GivenUp \/ Replaced
      BY <2>3, <3>1, FailActiveWork
    <3>3. QED
      BY <3>2, FreshFields DEF GivenUp, Replaced
  <2>4. CASE /\ active.accepting /\ active.failed = "no"
             /\ active' = [active EXCEPT !.received = @ + m.len,
                                         !.chain = Append(@, m)]
    <3>1. active'.id = active.id /\ active'.received = active.received + m.len
      BY <1>1, <2>4 DEF Download
    <3>2. Coming(active.id, m.at)
      BY <1>1, <1>3, <3>1 DEF Coming
    <3>3. m.at = active.received
      BY <2>4, <3>2 DEF HeadOK
    <3>4. QED
      BY <1>3, <3>1, <3>3
  <2>5. QED
    BY <2>1, <2>2, <2>3, <2>4 DEF OnChunk
<1>4. QED
  BY <1>2, <1>3 DEF LeadsTo

\* Any other step.
LEMMA UnheardHead ==
    ASSUME TypeInv, WorkOK, QuietInv, WorkStep, HeadOK, NothingNew,
           ~OnClientMessage
    PROVE  HeadOK'
<1> SUFFICES ASSUME active'.accepting, active'.failed = "no"
             PROVE  /\ active.accepting /\ active.failed = "no"
                    /\ active'.id = active.id
                    /\ active'.received = active.received
  BY DEF HeadOK, NothingNew
<1>1. active \in Download /\ ClientOK
  BY DEF TypeInv, ClientInv, LineOK
<1>2. CASE Going \/ GivenUp
  BY <1>2 DEF Going, GivenUp, SameWork, Started
<1>3. CASE Replaced
  BY <1>3, FreshFields DEF Replaced
<1>4. CASE Resumed
  BY <1>4 DEF Resumed, NewDownload
<1>5. CASE Taken
  BY <1>5 DEF Taken
<1>6. CASE Opened
  <2>1. PICK wasm \in Wasm : SinkOpened(wasm)
    BY <1>6 DEF Opened
  <2> DEFINE startAt == IF Len(disk[active.id]) >= active.received
                        THEN active.received ELSE 0
  <2>2. /\ active'.accepting = active.accepting
        /\ active'.failed = active.failed
        /\ active'.id = active.id /\ active'.received = startAt
        /\ active.id # NoFile /\ ~active.ready
    BY <1>1, <2>1 DEF SinkOpened, Download
  <2>3. active.received = 0
    <3>1. ~Resuming
      BY <2>2 DEF QuietInv
    <3>2. active.received \in Nat
      BY <1>1 DEF Download
    <3>3. QED
      BY <2>2, <3>1, <3>2 DEF Resuming
  <2>4. QED
    BY <2>2, <2>3
<1>7. CASE OrphanAborted \/ Evict
  BY <1>7 DEF OrphanAborted, OrphanOpened, Evict
<1>8. CASE WriteDone
  BY <1>8, WriteDoneWritten DEF Written
<1>9. CASE Reload
  BY <1>9 DEF Reload, NoDownload, NewDownload
<1>10. CASE AbortRemoves
  BY <1>1, <1>10 DEF AbortRemoves, Download
<1>11. QED
  BY <1>2, <1>3, <1>4, <1>5, <1>6, <1>7, <1>8, <1>9, <1>10 DEF WorkStep

LEMMA NextHead ==
    ASSUME TypeInv, LineInv, StreamInv, WorkOK, QuietInv, HeadOK, [Next]_vars
    PROVE  HeadOK'
<1>1. Unheard \/ (Heard /\ OnClientMessage)
  BY NextStream
<1>2. WorkStep
  BY NextWork
<1>3. CASE Heard /\ OnClientMessage
  BY <1>3, HeardHead DEF HeadOK, Heard
<1>4. CASE NothingNew /\ active' = active
  BY <1>4 DEF HeadOK, NothingNew
<1>5. CASE NothingNew /\ ~OnClientMessage
  BY <1>2, <1>5, UnheardHead
<1>6. QED
  BY <1>1, <1>3, <1>4, <1>5 DEF Unheard

-----------------------------------------------------------------------------
(* What is written.                                                        *)

\* The chunks that wait to be written go on from one another, starting where
\* the file ends so far and ending with what was received.
Queueing(d) ==
    /\ \A i \in 1 .. Len(d.chain) : d.chain[i].id = d.id
    /\ \A i \in 2 .. Len(d.chain) :
           d.chain[i].at = d.chain[i - 1].at + d.chain[i - 1].len
    /\ d.chain # <<>> => d.chain[1].at = d.written
    /\ d.failed = "no" =>
           IF d.chain = <<>> THEN d.received = d.written
           ELSE d.received = d.chain[Len(d.chain)].at + d.chain[Len(d.chain)].len

PrefixInv ==
    /\ \A f \in Files : disk[f] = Prefix(f, Len(disk[f]))
    /\ active.ready /\ ~active.removed => Len(disk[active.id]) = active.written
    /\ active.ready => Queueing(active)

\* No chunk of another file is at hand when bytes are taken.
NoStray ==
    active.accepting /\ toClient # <<>> /\ Head(toClient).t = "chunk" =>
        Head(toClient).id = active.id

LEMMA TakenQueueing ==
    ASSUME NEW d \in Download, d.failed = "no", Queueing(d),
           NEW m \in Chunks, m.id = d.id, m.at = d.received,
           NEW e \in Download, e.id = d.id, e.written = d.written,
           e.failed = d.failed,
           e.received = d.received + m.len, e.chain = Append(d.chain, m)
    PROVE  Queueing(e)
<1> DEFINE k == Len(d.chain)
<1>1. d.chain \in Seq(Chunks)
  BY DEF Download
<1>2. /\ k \in Nat /\ Len(e.chain) = k + 1 /\ e.chain[k + 1] = m
      /\ \A i \in 1 .. k : e.chain[i] = d.chain[i]
      /\ e.chain # <<>>
  BY <1>1, AppendProperties, LenProperties
<1>3. d.chain = <<>> <=> k = 0
  BY <1>1, EmptySeq
<1>4. d.written \in Nat /\ d.received \in Nat
  BY DEF Download
<1> HIDE DEF k
<1>5. \A i \in 1 .. k + 1 : e.chain[i].id = e.id
  <2>1. \A i \in 1 .. k : d.chain[i].id = d.id
    BY DEF Queueing, k
  <2>2. QED
    BY <1>2, <2>1
<1>6. \A i \in 2 .. k + 1 :
          e.chain[i].at = e.chain[i - 1].at + e.chain[i - 1].len
  <2>1. \A i \in 2 .. k : d.chain[i].at = d.chain[i - 1].at + d.chain[i - 1].len
    BY DEF Queueing, k
  <2>2. k # 0 => d.received = d.chain[k].at + d.chain[k].len
    BY <1>3 DEF Queueing, k
  <2>3. TAKE i \in 2 .. k + 1
  <2>4. CASE i = k + 1
    <3>1. k # 0 /\ k \in 1 .. k /\ i - 1 = k
      BY <1>2, <2>4
    <3>2. QED
      BY <1>2, <2>2, <2>4, <3>1
  <2>5. CASE i # k + 1
    <3>1. i \in 2 .. k /\ i \in 1 .. k /\ i - 1 \in 1 .. k
      BY <1>2, <2>5
    <3>2. QED
      BY <1>2, <2>1, <3>1
  <2>6. QED
    BY <2>4, <2>5
<1>7. e.chain[1].at = e.written
  <2>1. CASE k = 0
    BY <1>2, <1>3, <2>1 DEF Queueing
  <2>2. CASE k # 0
    <3>1. 1 \in 1 .. k
      BY <1>2, <2>2
    <3>2. QED
      BY <1>2, <1>3, <2>2, <3>1 DEF Queueing
  <2>3. QED
    BY <2>1, <2>2
<1>8. e.received = e.chain[k + 1].at + e.chain[k + 1].len
  BY <1>2
<1>9. QED
  BY <1>2, <1>5, <1>6, <1>7, <1>8 DEF Queueing

LEMMA WrittenQueueing ==
    ASSUME NEW d \in Download, d.failed = "no", Queueing(d), d.chain # <<>>,
           NEW e \in Download, e.id = d.id, e.failed = "no",
           e.written = d.written + Head(d.chain).len,
           e.received = d.received, e.chain = Tail(d.chain)
    PROVE  Queueing(e)
<1> DEFINE k == Len(d.chain)
<1>1. d.chain \in Seq(Chunks)
  BY DEF Download
<1>2. /\ k \in Nat /\ k >= 1 /\ Head(d.chain) = d.chain[1]
      /\ Len(e.chain) = k - 1
      /\ \A i \in 1 .. k - 1 : e.chain[i] = d.chain[i + 1]
      /\ e.chain = <<>> <=> k = 1
  BY <1>1, TailElements
<1> HIDE DEF k
<1>3. \A i \in 1 .. k : d.chain[i].id = d.id
  BY DEF Queueing, k
<1>4. \A i \in 2 .. k : d.chain[i].at = d.chain[i - 1].at + d.chain[i - 1].len
  BY DEF Queueing, k
<1>5. d.chain[1].at = d.written /\ d.received = d.chain[k].at + d.chain[k].len
  BY DEF Queueing, k
<1>6. \A i \in 1 .. k - 1 : e.chain[i].id = e.id
  BY <1>2, <1>3
<1>7. \A i \in 2 .. k - 1 :
          e.chain[i].at = e.chain[i - 1].at + e.chain[i - 1].len
  <2>1. TAKE i \in 2 .. k - 1
  <2>2. i \in 1 .. k - 1 /\ i - 1 \in 1 .. k - 1 /\ i + 1 \in 2 .. k
        /\ (i + 1) - 1 = i /\ (i - 1) + 1 = i
    BY <1>2
  <2>3. d.chain[i + 1].at = d.chain[i].at + d.chain[i].len
    BY <1>4, <2>2
  <2>4. e.chain[i] = d.chain[i + 1] /\ e.chain[i - 1] = d.chain[i]
    BY <1>2, <2>2
  <2>5. QED
    BY <2>3, <2>4
<1>8. CASE k = 1
  <2>1. e.chain = <<>> /\ e.received = e.written
    BY <1>2, <1>5, <1>8
  <2>2. QED
    BY <1>2, <1>6, <1>7, <2>1 DEF Queueing
<1>9. CASE k # 1
  <2>1. 1 \in 1 .. k - 1 /\ 2 \in 2 .. k /\ k - 1 \in 1 .. k - 1
        /\ (k - 1) + 1 = k /\ 2 - 1 = 1 /\ 1 + 1 = 2
    BY <1>2, <1>9
  <2>2. d.chain[2].at = d.chain[1].at + d.chain[1].len
    BY <1>4, <2>1
  <2>3. e.chain[1] = d.chain[2] /\ e.chain[k - 1] = d.chain[k] /\ e.chain # <<>>
    BY <1>2, <1>9, <2>1
  <2>4. QED
    BY <1>2, <1>5, <1>6, <1>7, <2>2, <2>3 DEF Queueing
<1>10. QED
  BY <1>8, <1>9

LEMMA EmptyIsPrefix == \A f \in Files : <<>> = Prefix(f, Len(<<>>))
<1>1. Len(<<>>) = 0
  OBVIOUS
<1>2. QED
  BY <1>1, PrefixEmpty

\* The chunk at the head, written behind what is there, makes a longer prefix.
LEMMA HeadWritten ==
    ASSUME TypeInv, PrefixInv, active.ready, ~active.removed,
           active.id \in Files, active.chain # <<>>, NEW c, c = Head(active.chain)
    PROVE  LET f == active.id
               s == disk[f] \o Bytes(c.id, c.at, c.at + c.len)
           IN  /\ c \in Chunks /\ s = Prefix(f, Len(s))
               /\ Len(s) = active.written + c.len
<1> DEFINE f == active.id
           s == disk[f] \o Bytes(c.id, c.at, c.at + c.len)
<1>1. active \in Download /\ active.chain \in Seq(Chunks)
  BY DEF TypeInv, ClientInv, LineOK, Download
<1>2. c \in Chunks /\ c = active.chain[1] /\ 1 \in 1 .. Len(active.chain)
  BY <1>1, TailElements
<1>3. c.id = f /\ c.at = active.written
  BY <1>2 DEF PrefixInv, Queueing
<1>4. disk[f] = Prefix(f, active.written)
  BY DEF PrefixInv
<1>5. active.written \in Nat /\ c.len \in Nat
  BY <1>1, <1>2 DEF Download, Chunks
<1>9. PICK n \in Nat, l \in Nat : n = active.written /\ l = c.len
  BY <1>5
<1>10. s = Prefix(f, n) \o Bytes(f, n, n + l)
  BY <1>3, <1>4, <1>9
<1> HIDE DEF s
<1>11. Prefix(f, n) \o Bytes(f, n, n + l) = Prefix(f, n + l)
  BY PrefixGrows
<1>12. Len(Prefix(f, n + l)) = n + l
  <2>1. n + l \in Nat
    OBVIOUS
  <2>2. QED
    BY <2>1, PrefixLen
<1>6. s = Prefix(f, n + l)
  BY <1>10, <1>11
<1>7. Len(s) = n + l /\ n + l = active.written + c.len
  BY <1>6, <1>9, <1>12
<1>8. QED
  BY <1>2, <1>6, <1>7 DEF s

LEMMA NextPrefix ==
    ASSUME TypeInv, LineInv, WorkOK, HeadOK, NoStray, PrefixInv, WorkStep,
           RemovedOK, TypeInv'
    PROVE  PrefixInv'
<1>1. /\ active \in Download /\ ClientOK /\ disk \in [Files -> FileBytes]
      /\ active' \in Download
  BY DEF TypeInv, ClientInv, LineOK
<1>2. CASE Going \/ GivenUp
  <2>1. SameWork /\ (active'.chain = active.chain \/ active'.chain = <<>>)
        /\ \/ active'.failed # "no"
           \/ active'.failed = active.failed /\ active'.chain = active.chain
    BY <1>2 DEF Going, GivenUp
  <2>2. Queueing(active) => Queueing(active')
    <3>1. CASE active'.chain = active.chain
      BY <2>1, <3>1 DEF Queueing, SameWork
    <3>2. CASE active'.chain = <<>> /\ active'.failed # "no"
      <4>1. Len(<<>>) = 0
        OBVIOUS
      <4>2. QED
        BY <3>2, <4>1 DEF Queueing
    <3>3. QED
      BY <2>1, <3>1, <3>2
  <2>3. QED
    BY <2>1, <2>2 DEF PrefixInv, SameWork
<1>3. CASE Replaced
  <2>1. ~active'.ready
    BY <1>3, FreshFields DEF Replaced
  <2>2. QED
    BY <1>3, <2>1, EmptyIsPrefix DEF PrefixInv, Replaced, DiskOnly
<1>4. CASE Resumed
  BY <1>4 DEF Resumed, NewDownload, PrefixInv
<1>5. CASE Taken
  <2>1. PICK m \in Chunks :
            /\ toClient # <<>> /\ m = Head(toClient)
            /\ active.ready /\ active.accepting /\ active.failed = "no"
            /\ active' = [active EXCEPT !.received = @ + m.len,
                                        !.chain = Append(@, m)]
            /\ UNCHANGED disk
    BY <1>5 DEF Taken
  <2>2. m.t = "chunk" /\ m.id = active.id
    BY <2>1 DEF NoStray, Chunks
  <2>3. Coming(active.id, m.at)
    BY <2>1, <2>2 DEF Coming
  <2>4. m.at = active.received
    BY <2>1, <2>3 DEF HeadOK
  <2>5. /\ active'.id = active.id /\ active'.written = active.written
        /\ active'.failed = active.failed /\ active'.ready
        /\ active'.removed = active.removed
        /\ active'.received = active.received + m.len
        /\ active'.chain = Append(active.chain, m)
    BY <1>1, <2>1 DEF Download
  <2>6. Queueing(active')
    BY <1>1, <2>1, <2>2, <2>4, <2>5, TakenQueueing DEF PrefixInv
  <2>7. QED
    BY <2>1, <2>5, <2>6 DEF PrefixInv
<1>6. CASE Opened
  <2>1. PICK wasm \in Wasm : SinkOpened(wasm)
    BY <1>6 DEF Opened
  <2> DEFINE f == active.id
             startAt == IF Len(disk[f]) >= active.received
                        THEN active.received ELSE 0
  <2>2. /\ f \in Files /\ ~active.ready
        /\ disk' = [disk EXCEPT ![f] = SubSeq(disk[f], 1, startAt)]
    BY <1>1, <2>1 DEF SinkOpened, Truncated, Download
  <2>3. /\ active'.id = f /\ active'.chain = active.chain
        /\ active'.received = startAt /\ active'.written = startAt
    BY <1>1, <2>1 DEF SinkOpened, Download
  <2>4. Len(disk[f]) \in Nat /\ startAt \in Nat /\ startAt <= Len(disk[f])
    <3>1. Len(disk[f]) \in Nat /\ active.received \in Nat
      BY <1>1, <2>2, LenProperties DEF FileBytes, Download
    <3>2. QED
      BY <3>1
  <2> HIDE DEF startAt
  <2>5. SubSeq(disk[f], 1, startAt) = Prefix(f, startAt)
    <3>1. PICK n \in Nat : n = Len(disk[f])
      BY <2>4
    <3>2. disk[f] = Prefix(f, n)
      BY <2>2, <3>1 DEF PrefixInv
    <3>3. startAt \in Nat /\ startAt <= n
      BY <2>4, <3>1
    <3>4. SubSeq(Prefix(f, n), 1, startAt) = Prefix(f, startAt)
      BY <2>2, <3>3, PrefixCut
    <3>5. QED
      BY <3>2, <3>4
  <2>6. Len(Prefix(f, startAt)) = startAt
    BY <2>2, <2>4, PrefixLen
  <2>7. active.chain = <<>>
    BY <2>2 DEF WorkOK
  <2>8. Queueing(active')
    <3>1. Len(<<>>) = 0
      OBVIOUS
    <3>2. QED
      BY <2>3, <2>7, <3>1 DEF Queueing
  <2>9. \A g \in Files : disk'[g] = Prefix(g, Len(disk'[g]))
    BY <1>1, <2>2, <2>5, <2>6 DEF PrefixInv
  <2>10. Len(disk'[f]) = startAt
    BY <1>1, <2>2, <2>5, <2>6
  <2>11. QED
    BY <2>3, <2>8, <2>9, <2>10 DEF PrefixInv
<1>7. CASE OrphanAborted
  BY <1>7 DEF OrphanAborted, OrphanOpened, PrefixInv
<1>8. CASE WriteDone
  <2>1. PICK c \in Chunks : Written(c)
    BY <1>8, WriteDoneWritten
  <2> DEFINE f == active.id
             s == disk[f] \o Bytes(c.id, c.at, c.at + c.len)
  <2>2. /\ active.chain # <<>> /\ c = Head(active.chain) /\ f \in Files
        /\ active.ready /\ active'.ready /\ active'.id = f
        /\ active'.received = active.received
        /\ active'.written = active.written + c.len
        /\ active'.removed = active.removed
        /\ disk' = IF active.removed THEN disk ELSE [disk EXCEPT ![f] = s]
        /\ \/ /\ active.failed = "no" /\ active'.failed = "no"
              /\ active'.chain = Tail(active.chain)
           \/ active'.failed # "no" /\ active'.chain = <<>>
    BY <2>1 DEF Written
  <2>3. ~active.removed =>
            s = Prefix(f, Len(s)) /\ Len(s) = active.written + c.len
    BY <2>2, HeadWritten
  <2> HIDE DEF s
  <2>4. Queueing(active')
    <3>1. CASE active.failed = "no" /\ active'.failed = "no"
               /\ active'.chain = Tail(active.chain)
      BY <1>1, <2>2, <3>1, WrittenQueueing DEF PrefixInv
    <3>2. CASE active'.failed # "no" /\ active'.chain = <<>>
      <4>1. Len(<<>>) = 0
        OBVIOUS
      <4>2. QED
        BY <3>2, <4>1 DEF Queueing
    <3>3. QED
      BY <2>2, <3>1, <3>2
  <2>5. CASE active.removed
    BY <2>2, <2>4, <2>5 DEF PrefixInv
  <2>6. CASE ~active.removed
    <3>1. \A g \in Files : disk'[g] = IF g = f THEN s ELSE disk[g]
      BY <1>1, <2>2, <2>6
    <3>2. QED
      BY <2>2, <2>3, <2>4, <2>6, <3>1 DEF PrefixInv
  <2>7. QED
    BY <2>5, <2>6
<1>9. CASE Reload
  <2> DEFINE c == Head(active.chain)
             s == disk[active.id] \o Bytes(c.id, c.at, c.at + c.len)
             KeptOnDisk(d) == [f \in Files |-> IF saved[f].dir = "own" THEN d[f] ELSE <<>>]
  <2>1. ~active'.ready
    BY <1>9 DEF Reload, NoDownload, NewDownload
  <2>2. SUFFICES \A f \in Files : disk'[f] = Prefix(f, Len(disk'[f]))
    BY <2>1 DEF PrefixInv
  <2>3. CASE disk' = KeptOnDisk(disk)
    BY <2>3, EmptyIsPrefix DEF PrefixInv
  <2>4. CASE /\ active.chain # <<>> /\ ~active.removed
             /\ disk' = KeptOnDisk([disk EXCEPT ![active.id] = s])
    <3>1. active.ready /\ active.id \in Files
      BY <1>1, <2>4 DEF WorkOK, ClientOK, Download
    <3>2. s = Prefix(active.id, Len(s))
      BY <2>4, <3>1, HeadWritten
    <3> HIDE DEF s
    <3>3. QED
      BY <1>1, <2>4, <3>1, <3>2, EmptyIsPrefix DEF PrefixInv
  <2>5. QED
    BY <1>9, <2>3, <2>4 DEF Reload
<1>10. CASE Evict
  <2>1. active' = active /\ disk' = [f \in Files |-> <<>>] /\ ~items
    BY <1>10 DEF Evict
  <2>2. ~active.ready
    BY <1>1, <2>1 DEF LineInv, BeforeItems, ClientOK
  <2>3. QED
    BY <2>1, <2>2, EmptyIsPrefix DEF PrefixInv
<1>11. CASE AbortRemoves
  <2>1. /\ active.ready
        /\ disk' = [disk EXCEPT ![active.id] = <<>>]
        /\ active'.removed
        /\ active'.id = active.id /\ active'.chain = active.chain
        /\ active'.written = active.written /\ active'.failed = active.failed
        /\ active'.received = active.received
    BY <1>1, <1>11 DEF AbortRemoves, WorkOK, Download
  <2>2. Queueing(active')
    BY <2>1 DEF PrefixInv, Queueing
  <2>3. QED
    BY <1>1, <2>1, <2>2, EmptyIsPrefix DEF PrefixInv
<1>12. QED
  BY <1>2, <1>3, <1>4, <1>5, <1>6, <1>7, <1>8, <1>9, <1>10, <1>11 DEF WorkStep

SinkInv == StreamInv /\ WorkOK /\ QuietInv /\ HeadOK /\ RemovedOK

LEMMA InitSink == Init => SinkInv /\ PrefixInv
<1> SUFFICES ASSUME Init PROVE SinkInv /\ PrefixInv
  OBVIOUS
<1>1. Len(<<>>) = 0 /\ DOMAIN <<>> = {}
  BY IdsEmpty
<1>2. active = NoDownload /\ queue = <<>> /\ toClient = <<>> /\ ~cOpen
  BY DEF Init
<1>3. StreamInv
  BY <1>1, <1>2 DEF StreamInv, MidFile
<1>4. WorkOK
  BY <1>1, <1>2 DEF WorkOK, QueueStartsOver, NoDownload, NewDownload
<1>5. QuietInv
  BY <1>2 DEF Init, QuietInv, Resuming, Unasked, NoDownload, NewDownload
<1>6. HeadOK
  BY <1>2 DEF HeadOK, NoDownload, NewDownload
<1>7. PrefixInv
  BY <1>2, EmptyIsPrefix DEF Init, PrefixInv, NoDownload, NewDownload
<1>8. RemovedOK
  BY <1>2 DEF RemovedOK, NoDownload, NewDownload
<1>9. QED
  BY <1>3, <1>4, <1>5, <1>6, <1>7, <1>8 DEF SinkInv

LEMMA NextSink ==
    TypeInv /\ LineInv /\ SinkInv /\ [Next]_vars => SinkInv' /\ WorkStep
BY NextStream, NextWork, NextQuiet, NextHead, NextRemoved DEF SinkInv

\* What is written for a download is the beginning of its file, across
\* resyncs, reconnects, reloads and failures, as long as no chunk of another
\* file is at hand while it accepts bytes.
THEOREM SinkHoldsPrefix == Spec /\ []NoStray => []SinkIsPrefix
<1>1. TypeInv /\ SinkInv /\ PrefixInv => SinkIsPrefix
  BY DEF SinkInv, RemovedOK, PrefixInv, SinkIsPrefix, TypeInv, ClientInv, LineOK, ClientOK, Download
<1>2. TypeInv /\ LineInv /\ SinkInv /\ NoStray /\ PrefixInv /\ TypeInv'
          /\ [Next]_vars
      => PrefixInv'
  BY NextSink, NextPrefix DEF SinkInv
<1>3. TypeInv /\ LineInv /\ [Next]_vars => LineInv'
  BY NextMaps
<1>4. Init => LineInv
  BY InitMaps
<1>5. QED
  BY <1>1, <1>2, <1>3, <1>4, InitSink, NextSink, TypeInvAlways, PTL DEF Spec

\* In a share of one file there is no other file to stray from.
LEMMA OneFileNoStray ==
    ASSUME \A f, g \in Files : f = g
    PROVE  TypeInv => NoStray
<1>1. SUFFICES ASSUME TypeInv, active.accepting, toClient # <<>>,
                      Head(toClient).t = "chunk"
               PROVE  Head(toClient).id = active.id
  BY DEF NoStray
<1>2. active.id \in Files
  BY <1>1 DEF TypeInv, ClientInv, LineOK, ClientOK, Download
<1>3. Head(toClient) \in SenderMsg
  BY <1>1 DEF TypeInv, ChannelTypeOK
<1>4. Head(toClient).id \in Files
  BY <1>1, <1>3 DEF SenderMsg, Chunks
<1>5. QED
  BY <1>2, <1>4

\* What is written for the file of a share that has one is the beginning of
\* that file, whatever is cancelled, retried, lost, resumed or failed.
THEOREM OneFileHoldsPrefix ==
    ASSUME \A f, g \in Files : f = g
    PROVE  Spec => []SinkIsPrefix
BY OneFileNoStray, SinkHoldsPrefix, TypeInvAlways, PTL

-----------------------------------------------------------------------------
(* What is hashed. *)

\* h is what a hasher is fed with the first n bytes of f, or with too many.
HashOf(h, f, n) == h = Prefix(f, n) \/ Len(h) > Size[f]

HashInv ==
    /\ active.ready /\ active.hasher =>
           HashOf(active.hashed, active.id, active.written)
    /\ Resuming /\ active.hasher =>
           HashOf(active.hashed, active.id, active.received)
    /\ \A f \in Files :
           saved[f].offset > 0 /\ saved[f].hasState =>
               HashOf(saved[f].hashed, f, saved[f].offset)

LEMMA HashGrows ==
    ASSUME NEW f \in Files, NEW n \in Nat, NEW l \in Nat, NEW h \in FileBytes,
           HashOf(h, f, n)
    PROVE  HashOf(h \o Bytes(f, n, n + l), f, n + l)
<1>1. CASE h = Prefix(f, n)
  BY <1>1, PrefixGrows DEF HashOf
<1>2. CASE Len(h) > Size[f]
  <2>1. Size[f] \in Nat /\ n + l \in Nat /\ n <= n + l
    OBVIOUS
  <2>2. Bytes(f, n, n + l) \in FileBytes
    BY <2>1, BytesLen
  <2>3. Len(h \o Bytes(f, n, n + l)) > Size[f]
    BY <1>2, <2>1, <2>2, StillLonger
  <2>4. QED
    BY <2>3 DEF HashOf
<1>3. QED
  BY <1>1, <1>2 DEF HashOf

LEMMA HashCapped ==
    ASSUME NEW f \in Files, NEW n \in Nat, NEW h, HashOf(h, f, n)
    PROVE  HashOf(h, f, Least(n, Size[f]))
<1>1. Size[f] \in Nat
  OBVIOUS
<1>2. CASE n <= Size[f]
  BY <1>2 DEF Least
<1>3. CASE ~(n <= Size[f])
  <2>1. Len(Prefix(f, n)) = n
    BY PrefixLen
  <2>2. Len(h) > Size[f]
    BY <1>1, <1>3, <2>1 DEF HashOf
  <2>3. QED
    BY <2>2 DEF HashOf
<1>4. QED
  BY <1>2, <1>3

\* Nothing is hashed, and checkpoints go if anything.
LEMMA HashKept ==
    ASSUME TypeInv, HashInv, RecordsDropped,
           active'.ready /\ active'.hasher =>
               HashOf(active'.hashed, active'.id, active'.written),
           Resuming' /\ active'.hasher =>
               HashOf(active'.hashed, active'.id, active'.received)
    PROVE  HashInv'
BY DEF HashInv, RecordsDropped, NoResume

LEMMA NextHash ==
    ASSUME TypeInv, LineInv, WorkOK, PrefixInv, HashInv, WorkStep
    PROVE  HashInv'
<1>1. /\ active \in Download /\ ClientOK /\ disk \in [Files -> FileBytes]
      /\ saved \in [Files -> ResumeFrom]
  BY DEF TypeInv, ClientInv, LineOK, RecordsOK
<1>2. CASE Going \/ GivenUp
  BY <1>2, HashKept DEF Going, GivenUp, SameWork, HashInv, Resuming
<1>3. CASE Replaced
  <2>1. ~active'.ready /\ ~Resuming'
    BY <1>3, FreshFields DEF Replaced, Resuming
  <2>2. QED
    BY <1>3, <2>1, HashKept DEF Replaced
<1>4. CASE Resumed
  <2>1. PICK f \in Files :
            /\ saved[f].offset > 0
            /\ active' = NewDownload(f, [saved[f] EXCEPT
                                             !.offset = Least(@, Size[f])])
    BY <1>4 DEF Resumed
  <2>2. saved[f] \in ResumeFrom
    BY <1>1
  <2>3. /\ active'.id = f /\ ~active'.ready
        /\ active'.received = Least(saved[f].offset, Size[f])
        /\ active'.hasher = saved[f].hasState
        /\ active'.hashed = saved[f].hashed
    BY <2>1, <2>2 DEF NewDownload, ResumeFrom
  <2>4. saved[f].hasState =>
            HashOf(saved[f].hashed, f, Least(saved[f].offset, Size[f]))
    BY <2>1, <2>2, HashCapped DEF HashInv, ResumeFrom
  <2>5. RecordsDropped
    BY <1>4, RecordsSame DEF Resumed
  <2>6. QED
    BY <2>3, <2>4, <2>5, HashKept
<1>5. CASE Taken
  <2>1. PICK m \in Chunks :
            /\ active.ready
            /\ active' = [active EXCEPT !.received = @ + m.len,
                                        !.chain = Append(@, m)]
            /\ UNCHANGED <<disk, saved, opfsDirs>>
    BY <1>5 DEF Taken
  <2>2. /\ active'.id = active.id /\ active'.written = active.written
        /\ active'.ready /\ active'.hasher = active.hasher
        /\ active'.hashed = active.hashed
    BY <1>1, <2>1 DEF Download
  <2>3. ~Resuming'
    BY <2>2 DEF Resuming
  <2>4. QED
    BY <2>1, <2>2, <2>3, RecordsSame, HashKept DEF HashInv
<1>6. CASE Opened
  <2>1. PICK wasm \in Wasm : SinkOpened(wasm)
    BY <1>6 DEF Opened
  <2> DEFINE f == active.id
             startAt == IF Len(disk[f]) >= active.received
                        THEN active.received ELSE 0
  <2>2. /\ f \in Files /\ f # NoFile /\ ~active.ready /\ saved' = saved
        /\ active.received \in Nat
    BY <1>1, <2>1 DEF SinkOpened, Download
  <2>3. /\ active'.id = f /\ active'.ready /\ active'.written = startAt
        /\ active'.hasher => wasm /\ (startAt > 0 => active.hasher)
        /\ active'.hashed = IF startAt > 0 THEN active.hashed ELSE <<>>
    BY <1>1, <2>1 DEF SinkOpened, Download
  <2>4. ~Resuming'
    BY <2>3 DEF Resuming
  <2>5. active'.hasher => HashOf(active'.hashed, f, startAt)
    <3>1. CASE startAt > 0
      <4>1. startAt = active.received /\ active.received > 0
        BY <3>1
      <4>2. Resuming
        BY <2>2, <4>1 DEF Resuming
      <4>3. QED
        BY <2>3, <3>1, <4>1, <4>2 DEF HashInv
    <3>2. CASE ~(startAt > 0)
      <4>1. startAt = 0
        BY <2>2, <3>2
      <4>2. QED
        BY <2>2, <2>3, <3>2, <4>1, PrefixEmpty DEF HashOf
    <3>3. QED
      BY <3>1, <3>2
  <2> HIDE DEF startAt
  <2>6. \A g \in Files :
            saved'[g].offset > 0 /\ saved'[g].hasState =>
                HashOf(saved'[g].hashed, g, saved'[g].offset)
    BY <2>2 DEF HashInv
  <2>7. QED
    BY <2>3, <2>4, <2>5, <2>6 DEF HashInv
<1>7. CASE OrphanAborted
  <2>1. active' = active /\ saved' = saved
    BY <1>7 DEF OrphanAborted, OrphanOpened
  <2>2. QED
    BY <2>1 DEF HashInv, Resuming
<1>8. CASE WriteDone
  <2>1. PICK c \in Chunks : Written(c)
    BY <1>8, WriteDoneWritten
  <2> DEFINE f == active.id
             bytes == Bytes(c.id, c.at, c.at + c.len)
  <2>2. /\ active.chain # <<>> /\ c = Head(active.chain) /\ f \in Files
        /\ active.ready /\ active'.ready /\ active'.id = f
        /\ active'.written = active.written + c.len
        /\ active'.hasher = active.hasher
        /\ active'.hashed = IF active.hasher THEN active.hashed \o bytes
                            ELSE active.hashed
        /\ \/ saved' = saved
           \/ saved' = [saved EXCEPT ![f] =
                          [offset |-> active'.written,
                           hasState |-> active'.hasher,
                           hashed |-> active'.hashed,
                           dir |-> opfsDirs[f]]]
    BY <2>1 DEF Written
  <2>3. c.id = f /\ c.at = active.written
    <3>1. active.chain \in Seq(Chunks)
      BY <1>1 DEF Download
    <3>2. c = active.chain[1] /\ 1 \in 1 .. Len(active.chain)
      BY <2>2, <3>1, TailElements
    <3>3. QED
      BY <2>2, <3>2 DEF PrefixInv, Queueing
  <2>4. active'.hasher => HashOf(active'.hashed, f, active'.written)
    <3>1. SUFFICES ASSUME active.hasher
                   PROVE  HashOf(active.hashed \o bytes, f, active.written + c.len)
      BY <2>2
    <3>2. PICK n \in Nat, l \in Nat : n = active.written /\ l = c.len
      BY <1>1 DEF Download, Chunks
    <3>3. bytes = Bytes(f, n, n + l)
      BY <2>3, <3>2
    <3>4. active.hashed \in FileBytes /\ HashOf(active.hashed, f, n)
      BY <1>1, <2>2, <3>1, <3>2 DEF Download, HashInv
    <3>5. HashOf(active.hashed \o Bytes(f, n, n + l), f, n + l)
      BY <2>2, <3>4, HashGrows
    <3> HIDE DEF bytes
    <3>6. QED
      BY <3>2, <3>3, <3>5
  <2>5. ~Resuming'
    BY <2>2 DEF Resuming
  <2>6. ASSUME NEW g \in Files, saved'[g].offset > 0, saved'[g].hasState
        PROVE  HashOf(saved'[g].hashed, g, saved'[g].offset)
    <3> HIDE DEF bytes
    <3>1. CASE saved'[g] = saved[g]
      BY <2>6, <3>1 DEF HashInv
    <3>2. CASE /\ g = f
               /\ saved'[g] = [offset |-> active'.written,
                               hasState |-> active'.hasher,
                               hashed |-> active'.hashed,
                               dir |-> opfsDirs[f]]
      BY <2>4, <2>6, <3>2
    <3>3. QED
      BY <1>1, <2>2, <3>1, <3>2
  <2>7. QED
    BY <2>2, <2>4, <2>5, <2>6 DEF HashInv
<1>9. CASE Reload
  <2>1. ~active'.ready /\ active'.id = NoFile
        /\ saved' = [f \in Files |-> [saved[f] EXCEPT !.dir = "own"]]
    BY <1>9 DEF Reload, NoDownload, NewDownload
  <2>2. \A f \in Files :
            /\ saved'[f].offset = saved[f].offset
            /\ saved'[f].hasState = saved[f].hasState
            /\ saved'[f].hashed = saved[f].hashed
    BY <1>1, <2>1 DEF ResumeFrom
  <2>3. QED
    BY <2>1, <2>2 DEF HashInv, Resuming
<1>10. CASE Evict
  <2>1. active' = active /\ saved' = saved
    BY <1>10 DEF Evict
  <2>2. QED
    BY <2>1 DEF HashInv, Resuming
<1>11. CASE AbortRemoves
  <2>1. /\ active.ready /\ saved' = saved
        /\ active'.id = active.id /\ active'.ready = active.ready
        /\ active'.written = active.written
        /\ active'.hasher = active.hasher /\ active'.hashed = active.hashed
    BY <1>1, <1>11 DEF AbortRemoves, WorkOK, Download
  <2>2. QED
    BY <2>1 DEF HashInv, Resuming
<1>12. QED
  BY <1>2, <1>3, <1>4, <1>5, <1>6, <1>7, <1>8, <1>9, <1>10, <1>11 DEF WorkStep

LEMMA HashFits == TypeInv /\ PrefixInv /\ HashInv => CheckpointFits
<1> SUFFICES ASSUME TypeInv, PrefixInv, HashInv, active.id = NoFile,
                    NEW f \in Files, NEW n, n = Least(saved[f].offset, Size[f]), n > 0,
                    saved[f].hasState, ~(n > Len(disk[f])),
                    ~(Len(saved[f].hashed) > Size[f])
             PROVE  saved[f].hashed = SubSeq(disk[f], 1, n)
  BY DEF CheckpointFits
<1>1. /\ saved[f].offset \in Nat /\ Size[f] \in Nat
      /\ disk[f] \in Seq(Files \X Nat) /\ Len(disk[f]) \in Nat
  BY LenProperties DEF TypeInv, ClientInv, RecordsOK, ResumeFrom, FileBytes
<1>2. n \in Nat /\ saved[f].offset > 0
  BY <1>1 DEF Least
<1>3. HashOf(saved[f].hashed, f, saved[f].offset)
  BY <1>2 DEF HashInv
<1>4. saved[f].hashed = Prefix(f, n)
  BY <1>1, <1>3, HashCapped DEF HashOf
<1>5. PICK k \in Nat : k = Len(disk[f])
  BY <1>1
<1>6. disk[f] = Prefix(f, k) /\ n <= k
  BY <1>2, <1>5 DEF PrefixInv
<1>7. SubSeq(Prefix(f, k), 1, n) = Prefix(f, n)
  BY <1>2, <1>6, PrefixCut
<1>8. QED
  BY <1>4, <1>6, <1>7

\* A file the page shows as verified is the shared file, byte for byte, as long
\* as no chunk of another file is at hand while a download accepts bytes: what
\* a resumed hash state stands for is then always what is on disk.
THEOREM VerifiedWithoutStrays == Spec /\ []NoStray => []VerifiedIsIntact
<1>1. Init => LineInv /\ SinkInv /\ PrefixInv /\ HashInv
  <2>1. Init => HashInv
    BY DEF Init, HashInv, NoDownload, NewDownload, NoResume, Resuming
  <2>2. QED
    BY <2>1, InitMaps, InitSink
<1>2. TypeInv /\ LineInv /\ SinkInv /\ NoStray /\ PrefixInv /\ HashInv
          /\ TypeInv' /\ [Next]_vars
      => LineInv' /\ SinkInv' /\ PrefixInv' /\ HashInv'
  BY NextMaps, NextSink, NextPrefix, NextHash DEF SinkInv
<1>3. TypeInv /\ PrefixInv /\ HashInv => CheckpointFits
  BY HashFits
<1>4. Spec /\ []NoStray => []CheckpointFits
  BY <1>1, <1>2, <1>3, TypeInvAlways, PTL DEF Spec
<1>5. QED
  BY <1>4, VerifiedAlways, PTL

\* The file of a share that has one is shown as verified only when it is that
\* file, byte for byte, whatever is cancelled, retried, lost, evicted, resumed
\* or failed.
THEOREM OneFileVerified ==
    ASSUME \A f, g \in Files : f = g
    PROVE  Spec => []VerifiedIsIntact
BY OneFileNoStray, VerifiedWithoutStrays, TypeInvAlways, PTL

-----------------------------------------------------------------------------
(* Cutting what is on disk. *)

LEMMA CutShort ==
    ASSUME NEW S, NEW s \in Seq(S), NEW n \in Nat, n <= Len(s)
    PROVE  /\ SubSeq(s, 1, n) \in Seq(S) /\ Len(SubSeq(s, 1, n)) = n
           /\ \A k \in 1 .. n : SubSeq(s, 1, n)[k] = s[k]
<1> DEFINE c == SubSeq(s, 1, n)
<1>1. Len(s) \in Nat
  BY LenProperties
<1>2. \A k \in 1 .. n : s[k] \in S
  BY <1>1, ElementOfSeq
<1>3. /\ c \in Seq(S)
      /\ Len(c) = IF 1 <= n THEN n - 1 + 1 ELSE 0
      /\ \A k \in 1 .. n - 1 + 1 : c[k] = s[1 + k - 1]
  BY <1>2, SubSeqProperties
<1>4. /\ (IF 1 <= n THEN n - 1 + 1 ELSE 0) = n /\ n - 1 + 1 = n
      /\ \A k \in 1 .. n : 1 + k - 1 = k
  OBVIOUS
<1>5. QED
  BY <1>3, <1>4

LEMMA CutGrown ==
    ASSUME NEW S, NEW s \in Seq(S), NEW t \in Seq(S), NEW n \in Nat, n <= Len(s)
    PROVE  /\ SubSeq(s \o t, 1, n) = SubSeq(s, 1, n)
           /\ n <= Len(s \o t)
<1> DEFINE g == s \o t
           a == SubSeq(g, 1, n)
           b == SubSeq(s, 1, n)
<1>1. Len(s) \in Nat /\ Len(t) \in Nat
  BY LenProperties
<1>2. /\ g \in Seq(S) /\ Len(g) = Len(s) + Len(t)
      /\ \A k \in 1 .. Len(s) : g[k] = s[k]
  BY <1>1, ConcatProperties
<1>3. b \in Seq(S) /\ Len(b) = n /\ \A k \in 1 .. n : b[k] = s[k]
  BY CutShort
<1> HIDE DEF g
<1>4. n <= Len(g)
  BY <1>1, <1>2
<1>5. a \in Seq(S) /\ Len(a) = n /\ \A k \in 1 .. n : a[k] = g[k]
  BY <1>2, <1>4, CutShort
<1> HIDE DEF a, b
<1>6. \A k \in 1 .. n : a[k] = b[k]
  <2>1. \A k \in 1 .. n : k \in 1 .. Len(s)
    BY <1>1
  <2>2. QED
    BY <1>2, <1>3, <1>5, <2>1
<1>7. a = b
  BY <1>3, <1>5, <1>6, SeqEqual
<1>8. QED
  BY <1>4, <1>7 DEF a, b, g

LEMMA CutNothing ==
    ASSUME NEW S, NEW s \in Seq(S)
    PROVE  SubSeq(s, 1, Len(s)) = s
<1> DEFINE n == Len(s)
           a == SubSeq(s, 1, n)
<1>1. n \in Nat
  BY LenProperties
<1>2. a \in Seq(S) /\ Len(a) = n /\ \A k \in 1 .. n : a[k] = s[k]
  BY <1>1, CutShort
<1> HIDE DEF a
<1>3. a = s
  BY <1>2, SeqEqual
<1>4. QED
  BY <1>3 DEF a

-----------------------------------------------------------------------------
(* How much is written.  A ledger of a download counts what will have been *)
(* written when each of its chunks is; none of it exceeds the file.        *)

Counts(d, p) ==
    /\ p[0] = d.written
    /\ \A i \in 1 .. Len(d.chain) : p[i] = p[i - 1] + d.chain[i].len
    /\ \A i \in 0 .. Len(d.chain) : p[i] <= Size[d.id]
    /\ d.failed = "no" => p[Len(d.chain)] = d.received

Ledger(d) == \E p \in [0 .. Len(d.chain) -> Nat] : Counts(d, p)

LEMMA LedgerEmpty ==
    ASSUME NEW d \in Download, d.chain = <<>>, d.written <= Size[d.id],
           d.failed = "no" => d.received = d.written
    PROVE  Ledger(d)
<1> DEFINE p == [i \in 0 .. 0 |-> d.written]
<1>1. Len(d.chain) = 0 /\ d.written \in Nat
  BY DEF Download
<1>2. p \in [0 .. Len(d.chain) -> Nat]
  BY <1>1
<1>3. Counts(d, p)
  BY <1>1 DEF Counts
<1>4. QED
  BY <1>2, <1>3 DEF Ledger

LEMMA LedgerBounds ==
    ASSUME NEW d \in Download, Ledger(d)
    PROVE  d.written <= Size[d.id]
<1>1. PICK p \in [0 .. Len(d.chain) -> Nat] : Counts(d, p)
  BY DEF Ledger
<1>2. 0 \in 0 .. Len(d.chain)
  BY LenProperties DEF Download
<1>3. QED
  BY <1>1, <1>2 DEF Counts

LEMMA LedgerTaken ==
    ASSUME NEW d \in Download, d.failed = "no", Ledger(d), d.id \in Files,
           NEW m \in Chunks, d.received + m.len <= Size[d.id],
           NEW e \in Download, e.id = d.id, e.written = d.written,
           e.received = d.received + m.len, e.chain = Append(d.chain, m)
    PROVE  Ledger(e)
<1> DEFINE k == Len(d.chain)
<1>1. d.chain \in Seq(Chunks) /\ d.received \in Nat /\ m.len \in Nat
  BY DEF Download, Chunks
<1>2. /\ k \in Nat /\ Len(e.chain) = k + 1 /\ e.chain[k + 1] = m
      /\ \A i \in 1 .. k : e.chain[i] = d.chain[i]
  BY <1>1, AppendProperties, LenProperties
<1>3. PICK p \in [0 .. k -> Nat] : Counts(d, p)
  BY DEF Ledger
<1>4. /\ p[0] = d.written /\ p[k] = d.received
      /\ \A i \in 1 .. k : p[i] = p[i - 1] + d.chain[i].len
      /\ \A i \in 0 .. k : p[i] <= Size[d.id]
  BY <1>3 DEF Counts
<1> HIDE DEF k
<1> DEFINE q == [i \in 0 .. k + 1 |-> IF i = k + 1 THEN d.received + m.len
                                      ELSE p[i]]
<1>5. q \in [0 .. k + 1 -> Nat]
  <2>1. \A i \in 0 .. k + 1 : i # k + 1 => i \in 0 .. k
    BY <1>2
  <2>2. QED
    BY <1>1, <2>1
<1>6. q[k + 1] = d.received + m.len /\ \A i \in 0 .. k : q[i] = p[i]
  BY <1>2
<1> HIDE DEF q
<1>7. ASSUME NEW i \in 1 .. k + 1
      PROVE  q[i] = q[i - 1] + e.chain[i].len
  <2>1. CASE i = k + 1
    <3>1. i - 1 = k /\ k \in 0 .. k
      BY <1>2, <2>1
    <3>2. QED
      BY <1>2, <1>4, <1>6, <2>1, <3>1
  <2>2. CASE i # k + 1
    <3>1. i \in 1 .. k /\ i \in 0 .. k /\ i - 1 \in 0 .. k
      BY <1>2, <2>2
    <3>2. QED
      BY <1>2, <1>4, <1>6, <3>1
  <2>3. QED
    BY <2>1, <2>2
<1>8. ASSUME NEW i \in 0 .. k + 1
      PROVE  q[i] <= Size[e.id]
  <2>1. i = k + 1 \/ i \in 0 .. k
    BY <1>2
  <2>2. QED
    BY <1>4, <1>6, <2>1
<1>9. q[0] = e.written
  <2>1. 0 \in 0 .. k
    BY <1>2
  <2>2. QED
    BY <1>4, <1>6, <2>1
<1>10. Counts(e, q)
  BY <1>2, <1>6, <1>7, <1>8, <1>9 DEF Counts
<1>11. QED
  BY <1>2, <1>5, <1>10 DEF Ledger

LEMMA LedgerWritten ==
    ASSUME NEW d \in Download, Ledger(d), d.chain # <<>>,
           NEW e \in Download, e.id = d.id,
           e.written = d.written + Head(d.chain).len,
           e.received = d.received,
           \/ d.failed = "no" /\ e.failed = "no" /\ e.chain = Tail(d.chain)
           \/ e.failed # "no" /\ e.chain = <<>>
    PROVE  Ledger(e)
<1> DEFINE k == Len(d.chain)
<1>1. d.chain \in Seq(Chunks)
  BY DEF Download
<1>2. /\ k \in Nat /\ k >= 1 /\ Head(d.chain) = d.chain[1]
      /\ Len(Tail(d.chain)) = k - 1
      /\ \A i \in 1 .. k - 1 : Tail(d.chain)[i] = d.chain[i + 1]
  BY <1>1, TailElements
<1>3. PICK p \in [0 .. k -> Nat] : Counts(d, p)
  BY DEF Ledger
<1>4. /\ p[0] = d.written
      /\ d.failed = "no" => p[k] = d.received
      /\ \A i \in 1 .. k : p[i] = p[i - 1] + d.chain[i].len
      /\ \A i \in 0 .. k : p[i] <= Size[d.id]
  BY <1>3 DEF Counts
<1> HIDE DEF k
<1>5. 1 \in 1 .. k /\ 1 \in 0 .. k /\ 1 - 1 = 0
  BY <1>2
<1>6. p[1] = e.written /\ p[1] <= Size[e.id]
  <2>1. p[1] = p[0] + d.chain[1].len
    BY <1>4, <1>5
  <2>2. QED
    BY <1>2, <1>4, <1>5, <2>1
<1>7. CASE e.failed # "no" /\ e.chain = <<>>
  BY <1>6, <1>7, LedgerEmpty
<1>8. CASE d.failed = "no" /\ e.failed = "no" /\ e.chain = Tail(d.chain)
  <2> DEFINE q == [i \in 0 .. k - 1 |-> p[i + 1]]
  <2>1. \A i \in 0 .. k - 1 : i + 1 \in 0 .. k /\ i + 1 \in 1 .. k
    BY <1>2
  <2>2. q \in [0 .. k - 1 -> Nat] /\ \A i \in 0 .. k - 1 : q[i] = p[i + 1]
    BY <2>1
  <2> HIDE DEF q
  <2>3. ASSUME NEW i \in 1 .. k - 1
        PROVE  q[i] = q[i - 1] + e.chain[i].len
    <3>1. i \in 0 .. k - 1 /\ i - 1 \in 0 .. k - 1 /\ (i - 1) + 1 = i
          /\ (i + 1) - 1 = i
      BY <1>2
    <3>2. p[i + 1] = p[i] + d.chain[i + 1].len
      BY <1>4, <2>1, <3>1
    <3>3. QED
      BY <1>2, <1>8, <2>2, <3>1, <3>2
  <2>4. \A i \in 0 .. k - 1 : q[i] <= Size[e.id]
    BY <1>4, <2>1, <2>2
  <2>5. q[0] = e.written /\ q[k - 1] = e.received
    <3>1. 0 \in 0 .. k - 1 /\ 0 + 1 = 1 /\ k - 1 \in 0 .. k - 1 /\ (k - 1) + 1 = k
      BY <1>2
    <3>2. QED
      BY <1>4, <1>6, <1>8, <2>2, <3>1
  <2>6. Counts(e, q)
    BY <1>2, <1>8, <2>3, <2>4, <2>5 DEF Counts
  <2>7. QED
    BY <1>2, <1>8, <2>2, <2>6 DEF Ledger
<1>9. QED
  BY <1>7, <1>8

-----------------------------------------------------------------------------
(* What a checkpoint stands for.                                           *)

\* The checkpoint r of f when the file holds s.
StandsFor(r, s, f) ==
    r.offset > 0 =>
        /\ r.dir = "own"
        /\ r.offset <= Len(s) /\ r.offset <= Size[f]
        /\ r.hasState => r.hashed = SubSeq(s, 1, r.offset)

\* An open sink holds what has been written, and that has been hashed, until
\* an abort removes it.
OpenOK ==
    active.ready =>
        /\ active.removed \/ Len(disk[active.id]) = active.written
        /\ active.removed \/ (active.hasher => active.hashed = disk[active.id])
        /\ Ledger(active)

\* A sink that is opening will find what it is to go on from.
OpeningOK ==
    active.id # NoFile /\ ~active.ready =>
        /\ active.received <= Len(disk[active.id])
        /\ active.received <= Size[active.id]
        /\ active.hasher /\ active.received > 0 =>
               active.hashed = SubSeq(disk[active.id], 1, active.received)
        /\ saved[active.id].offset > 0 =>
               saved[active.id].offset = active.received

\* The folder of f was removed by an abort the page has not heard of yet.
GoneUnheard(f) == active.id = f /\ active.removed

StandingInv ==
    /\ \A f \in Files : GoneUnheard(f) \/ StandsFor(saved[f], disk[f], f)
    /\ \A f \in Files : opfsDirs[f] # "gone"
    /\ OpenOK
    /\ OpeningOK

LEMMA NothingStands ==
    ASSUME NEW r, r.offset = 0, NEW s, NEW f
    PROVE  StandsFor(r, s, f)
BY DEF StandsFor

LEMMA StandsGrown ==
    ASSUME NEW f \in Files, NEW r \in ResumeFrom, NEW s \in FileBytes,
           NEW t \in FileBytes, StandsFor(r, s, f)
    PROVE  StandsFor(r, s \o t, f)
<1> SUFFICES ASSUME r.offset > 0
             PROVE  /\ r.offset <= Len(s \o t)
                    /\ SubSeq(s \o t, 1, r.offset) = SubSeq(s, 1, r.offset)
  BY DEF StandsFor
<1>1. r.offset \in Nat /\ r.offset <= Len(s)
  BY DEF StandsFor, ResumeFrom
<1>2. QED
  BY <1>1, CutGrown DEF FileBytes

\* A step that writes nothing.
LEMMA RecordsStand ==
    ASSUME TypeInv, StandingInv, RecordsDropped,
           NEW f \in Files, disk'[f] = disk[f]
    PROVE  GoneUnheard(f) \/ StandsFor(saved'[f], disk'[f], f)
<1>1. CASE saved'[f] = saved[f]
  BY <1>1 DEF StandingInv
<1>2. CASE saved'[f] = NoResume
  BY <1>2, NothingStands DEF NoResume
<1>3. QED
  BY <1>1, <1>2 DEF RecordsDropped

LEMMA NotGone ==
    ASSUME StandingInv, RecordsDropped
    PROVE  \A f \in Files : opfsDirs'[f] # "gone"
BY DEF StandingInv, RecordsDropped

LEMMA GoingStands ==
    ASSUME TypeInv, StandingInv, Going \/ GivenUp, TypeInv'
    PROVE  StandingInv'
<1>1. /\ active \in Download /\ active' \in Download /\ ClientOK
      /\ SameWork /\ RecordsDropped
      /\ \/ active'.chain = active.chain /\ active'.failed = active.failed
         \/ /\ active.ready /\ active'.failed # "no"
            /\ active'.chain = active.chain \/ active'.chain = <<>>
  BY DEF TypeInv, ClientInv, LineOK, Going, GivenUp
<1>2. \A f \in Files : GoneUnheard(f)' \/ StandsFor(saved'[f], disk'[f], f)
  BY <1>1, RecordsStand DEF SameWork, GoneUnheard
<1>3. Ledger(active) => Ledger(active')
  <2>1. SUFFICES ASSUME Ledger(active) PROVE Ledger(active')
    OBVIOUS
  <2>2. CASE active'.chain = <<>> /\ active'.failed # "no"
    BY <1>1, <2>1, <2>2, LedgerBounds, LedgerEmpty DEF SameWork
  <2>3. CASE /\ active'.chain = active.chain
             /\ active'.failed = "no" => active.failed = "no"
    BY <1>1, <2>1, <2>3 DEF Ledger, Counts, SameWork
  <2>4. QED
    BY <1>1, <2>2, <2>3
<1>4. OpenOK'
  BY <1>1, <1>3 DEF SameWork, StandingInv, OpenOK
<1>5. OpeningOK'
  <2>1. SUFFICES ASSUME active'.id # NoFile, ~active'.ready PROVE OpeningOK'
    BY DEF OpeningOK
  <2>2. /\ active.id \in Files /\ active.id = active'.id /\ ~active.ready
        /\ active'.received = active.received /\ active'.hasher = active.hasher
        /\ active'.hashed = active.hashed /\ disk' = disk
    BY <1>1, <2>1 DEF SameWork, Download
  <2>3. saved'[active.id] = saved[active.id] \/ saved'[active.id].offset = 0
    BY <1>1, <2>2 DEF RecordsDropped, NoResume
  <2>4. QED
    BY <2>1, <2>2, <2>3 DEF StandingInv, OpeningOK
<1>6. QED
  BY <1>1, <1>2, <1>4, <1>5, NotGone DEF StandingInv

LEMMA ReplacedStands ==
    ASSUME TypeInv, OneCheckpoint, StandingInv, Replaced, TypeInv'
    PROVE  StandingInv'
<1>1. /\ active' \in Download /\ ClientOK' /\ disk' \in [Files -> FileBytes]
      /\ active.id \in Files \cup {NoFile}
      /\ saved' \in [Files -> ResumeFrom]
  BY DEF TypeInv, ClientInv, LineOK, Download, RecordsOK
<1>2. /\ ~active'.ready /\ active'.received = 0
      /\ active'.id \in Files \cup {NoFile}
  BY FreshFields DEF Replaced
<1>3. \A f \in Files : saved'[f].offset = 0
  <2>1. TAKE f \in Files
  <2>2. CASE f = active.id
    BY <2>2 DEF Replaced, NoResume
  <2>3. CASE f # active.id
    <3>1. ~(saved[f].offset > 0) /\ saved[f].offset \in Nat
      BY <2>3 DEF OneCheckpoint, Replaced, TypeInv, ClientInv, RecordsOK, ResumeFrom
    <3>2. QED
      BY <3>1 DEF Replaced, RecordsDropped, NoResume
  <2>4. QED
    BY <2>2, <2>3
<1>4. \A f \in Files : StandsFor(saved'[f], disk'[f], f)
  BY <1>3, NothingStands
<1>5. OpeningOK'
  <2>1. SUFFICES ASSUME active'.id # NoFile PROVE OpeningOK'
    BY DEF OpeningOK
  <2>2. active'.id \in Files /\ Size[active'.id] \in Nat
        /\ Len(disk'[active'.id]) \in Nat
    BY <1>1, <1>2, <2>1, LenProperties DEF FileBytes
  <2>3. ~(saved'[active'.id].offset > 0)
    BY <1>3, <2>2
  <2>4. QED
    BY <1>2, <2>2, <2>3 DEF OpeningOK
<1>6. QED
  BY <1>2, <1>4, <1>5, NotGone DEF StandingInv, OpenOK, Replaced

LEMMA ResumedStands ==
    ASSUME TypeInv, LineInv, StandingInv, Resumed
    PROVE  StandingInv'
<1>1. PICK f \in Files :
          /\ saved[f].offset > 0
          /\ active' = NewDownload(f, [saved[f] EXCEPT
                                           !.offset = Least(@, Size[f])])
  BY DEF Resumed
<1>2. saved[f] \in ResumeFrom /\ UNCHANGED <<disk, saved, opfsDirs>>
  BY DEF TypeInv, ClientInv, RecordsOK, Resumed
<1>9. \A g \in Files : ~GoneUnheard(g)
  BY DEF GoneUnheard, Resumed, LineInv, BeforeItems, TypeInv, ClientInv, LineOK,
         Download
<1>3. StandsFor(saved[f], disk[f], f)
  BY <1>9 DEF StandingInv
<1>4. Least(saved[f].offset, Size[f]) = saved[f].offset
  BY <1>1, <1>3 DEF StandsFor, Least
<1>5. /\ active'.id = f /\ ~active'.ready
      /\ active'.received = saved[f].offset
      /\ active'.hasher = saved[f].hasState
      /\ active'.hashed = saved[f].hashed
  BY <1>1, <1>2, <1>4 DEF NewDownload, ResumeFrom
<1>6. OpeningOK'
  BY <1>1, <1>2, <1>3, <1>5 DEF StandsFor, OpeningOK
<1>7. OpenOK'
  BY <1>5 DEF OpenOK
<1>8. QED
  BY <1>2, <1>6, <1>7, <1>9 DEF StandingInv

LEMMA TakenStands ==
    ASSUME TypeInv, StandingInv, Taken, TypeInv'
    PROVE  StandingInv'
<1>1. active \in Download /\ active' \in Download /\ ClientOK
  BY DEF TypeInv, ClientInv, LineOK
<1>2. PICK m \in Chunks :
          /\ active.id # NoFile /\ active.ready /\ active.failed = "no"
          /\ active.received + m.len <= Size[active.id]
          /\ active' = [active EXCEPT !.received = @ + m.len,
                                      !.chain = Append(@, m)]
          /\ UNCHANGED <<disk, saved, opfsDirs>>
  BY DEF Taken
<1>3. /\ active'.id = active.id /\ active'.ready
      /\ active'.written = active.written
      /\ active'.received = active.received + m.len
      /\ active'.chain = Append(active.chain, m)
      /\ active'.hasher = active.hasher /\ active'.hashed = active.hashed
      /\ active'.removed = active.removed
  BY <1>1, <1>2 DEF Download
<1>4. active.id \in Files
  BY <1>1, <1>2 DEF Download
<1>5. Ledger(active')
  BY <1>1, <1>2, <1>3, <1>4, LedgerTaken DEF StandingInv, OpenOK
<1>6. OpenOK'
  BY <1>2, <1>3, <1>5 DEF StandingInv, OpenOK
<1>7. OpeningOK'
  BY <1>3 DEF OpeningOK
<1>8. QED
  BY <1>2, <1>3, <1>6, <1>7 DEF StandingInv, GoneUnheard

LEMMA OpenedStands ==
    ASSUME TypeInv, WorkOK, RemovedOK, StandingInv, Opened, TypeInv'
    PROVE  StandingInv'
<1>1. /\ active \in Download /\ active' \in Download
      /\ disk \in [Files -> FileBytes] /\ opfsDirs \in [Files -> Folder \cup {"none"}]
      /\ saved \in [Files -> ResumeFrom]
  BY DEF TypeInv, ClientInv, LineOK, RecordsOK
<1>2. PICK wasm \in Wasm : SinkOpened(wasm)
  BY DEF Opened
<1> DEFINE f == active.id
           n == active.received
           s == disk[f]
<1>3. f \in Files /\ f # NoFile /\ ~active.ready /\ n \in Nat
      /\ s \in Seq(Files \X Nat)
  BY <1>1, <1>2 DEF SinkOpened, Download, FileBytes
<1>15. ~active.removed
  BY <1>3 DEF WorkOK, RemovedOK
<1>4. /\ n <= Len(s) /\ n <= Size[f]
      /\ active.hasher /\ n > 0 => active.hashed = SubSeq(s, 1, n)
      /\ saved[f].offset > 0 => saved[f].offset = n
  BY <1>3 DEF StandingInv, OpeningOK
<1>5. Len(s) \in Nat
  BY <1>3, LenProperties
<1>6. /\ active'.id = f /\ active'.ready
      /\ active'.received = n /\ active'.written = n
      /\ active'.hasher => (n > 0 => active.hasher)
      /\ active'.hashed = IF n > 0 THEN active.hashed ELSE <<>>
      /\ active'.chain = <<>> /\ active'.failed = active.failed
      /\ disk' = [disk EXCEPT ![f] = SubSeq(s, 1, n)]
      /\ opfsDirs' = [opfsDirs EXCEPT ![f] = "own"] /\ saved' = saved
  <2>1. (IF Len(s) >= n THEN n ELSE 0) = n
    BY <1>3, <1>4, <1>5
  <2>2. active.chain = <<>>
    BY <1>3 DEF WorkOK
  <2>3. /\ active' = [active EXCEPT
                         !.ready = TRUE,
                         !.received = n, !.written = n, !.lastAck = n,
                         !.hasher = wasm /\ (n > 0 => @),
                         !.hashed = IF n > 0 THEN @ ELSE <<>>]
        /\ disk' = [disk EXCEPT ![f] = SubSeq(s, 1, n)]
        /\ opfsDirs' = [opfsDirs EXCEPT ![f] = "own"] /\ saved' = saved
    BY <1>2, <2>1 DEF SinkOpened, Truncated
  <2>4. QED
    BY <1>1, <2>2, <2>3 DEF Download
<1>7. PICK c \in FileBytes : c = SubSeq(s, 1, n) /\ Len(c) = n
  <2>1. PICK old \in Seq(Files \X Nat) : old = s
    BY <1>3
  <2>2. PICK cut \in Nat : cut = n
    BY <1>3
  <2>3. cut <= Len(old)
    BY <1>4, <2>1, <2>2
  <2>4. SubSeq(old, 1, cut) \in Seq(Files \X Nat)
        /\ Len(SubSeq(old, 1, cut)) = cut
    BY <2>3, CutShort
  <2>5. QED
    BY <2>1, <2>2, <2>4 DEF FileBytes
<1>8. \A g \in Files : disk'[g] = IF g = f THEN c ELSE disk[g]
  BY <1>1, <1>6, <1>7
<1>9. SubSeq(c, 1, n) = c
  BY <1>7, CutNothing DEF FileBytes
<1>10. \A g \in Files : StandsFor(saved'[g], disk'[g], g)
  <2>1. TAKE g \in Files
  <2>2. CASE g # f
    BY <1>6, <1>8, <2>2 DEF StandingInv, GoneUnheard
  <2>3. CASE g = f /\ saved[f].offset > 0
    <3>1. StandsFor(saved[f], s, f)
      BY <1>3, <1>15 DEF StandingInv, GoneUnheard
    <3>2. saved[f].offset = n
      BY <1>4, <2>3
    <3>3. StandsFor(saved[f], c, f)
      BY <1>3, <1>7, <1>9, <2>3, <3>1, <3>2 DEF StandsFor
    <3>4. QED
      BY <1>6, <1>8, <2>3, <3>3
  <2>4. CASE g = f /\ ~(saved[f].offset > 0)
    BY <1>6, <2>4 DEF StandsFor
  <2>5. QED
    BY <2>2, <2>3, <2>4
<1>11. OpenOK'
  <2>1. active'.hasher => active'.hashed = c
    <3>1. CASE n > 0
      BY <1>4, <1>6, <1>7, <3>1
    <3>2. CASE ~(n > 0)
      <4>1. n = 0
        BY <1>3, <3>2
      <4>2. c = <<>>
        BY <1>7, <4>1, EmptySeq DEF FileBytes
      <4>3. QED
        BY <1>6, <3>2, <4>2
    <3>3. QED
      BY <3>1, <3>2
  <2>2. Ledger(active')
    BY <1>1, <1>4, <1>6, LedgerEmpty
  <2>3. QED
    BY <1>3, <1>6, <1>7, <1>8, <2>1, <2>2 DEF OpenOK
<1>12. OpeningOK'
  BY <1>6 DEF OpeningOK
<1>13. \A g \in Files : opfsDirs'[g] # "gone"
  BY <1>1, <1>6 DEF StandingInv
<1>14. QED
  BY <1>10, <1>11, <1>12, <1>13 DEF StandingInv

\* A write that succeeds while the folder is there.
LEMMA WriteDoneStands ==
    ASSUME TypeInv, WorkOK, StandingInv, WriteDone, ~active.removed, TypeInv'
    PROVE  StandingInv'
<1>1. /\ active \in Download /\ active' \in Download
      /\ disk \in [Files -> FileBytes] /\ opfsDirs \in [Files -> Folder \cup {"none"}]
      /\ saved \in [Files -> ResumeFrom]
  BY DEF TypeInv, ClientInv, LineOK, RecordsOK
<1>2. PICK c \in Chunks : Written(c)
  BY WriteDoneWritten
<1> DEFINE f == active.id
           s == disk[f]
<1>3. c.len \in Nat /\ c.at \in Nat /\ c.id \in Files
  BY DEF Chunks
<1>4. PICK t \in FileBytes : t = Bytes(c.id, c.at, c.at + c.len) /\ Len(t) = c.len
  <2>1. c.at + c.len \in Nat /\ c.at <= c.at + c.len
        /\ (c.at + c.len) - c.at = c.len
    BY <1>3
  <2>2. /\ Bytes(c.id, c.at, c.at + c.len) \in FileBytes
        /\ Len(Bytes(c.id, c.at, c.at + c.len)) = (c.at + c.len) - c.at
    BY <1>3, <2>1, BytesLen
  <2>3. QED
    BY <2>1, <2>2
<1>5. /\ active.chain # <<>> /\ c = Head(active.chain) /\ f \in Files
      /\ active.ready /\ active'.ready /\ active'.id = f
      /\ active'.received = active.received
      /\ active'.written = active.written + c.len
      /\ active'.hasher = active.hasher /\ ~active'.removed
      /\ active'.hashed = IF active.hasher THEN active.hashed \o t
                          ELSE active.hashed
      /\ disk' = [disk EXCEPT ![f] = s \o t]
      /\ \/ saved' = saved
         \/ /\ opfsDirs[f] # "none"
            /\ saved' = [saved EXCEPT ![f] =
                            [offset |-> active'.written,
                             hasState |-> active'.hasher,
                             hashed |-> active'.hashed,
                             dir |-> opfsDirs[f]]]
      /\ opfsDirs' = opfsDirs
      /\ \/ /\ active.failed = "no" /\ active'.failed = "no"
            /\ active'.chain = Tail(active.chain)
         \/ active'.failed # "no" /\ active'.chain = <<>>
  BY <1>2, <1>4 DEF Written
<1>6. /\ Len(s) = active.written /\ Ledger(active)
      /\ active.hasher => active.hashed = s
  BY <1>5 DEF StandingInv, OpenOK
<1>7. PICK w \in FileBytes :
          w = s \o t /\ Len(w) = active'.written
  <2>1. s \in Seq(Files \X Nat) /\ t \in Seq(Files \X Nat)
    BY <1>1, <1>5 DEF FileBytes
  <2>2. s \o t \in Seq(Files \X Nat) /\ Len(s \o t) = Len(s) + Len(t)
    BY <2>1, ConcatProperties
  <2>3. QED
    BY <1>4, <1>5, <1>6, <2>2 DEF FileBytes
<1>8. \A g \in Files : disk'[g] = IF g = f THEN w ELSE disk[g]
  BY <1>1, <1>5, <1>7
<1>9. active'.hasher => active'.hashed = w
  BY <1>5, <1>6, <1>7
<1>10. Ledger(active')
  BY <1>1, <1>5, <1>6, LedgerWritten
<1>11. active'.written <= Size[f]
  BY <1>1, <1>5, <1>10, LedgerBounds
<1>12. OpenOK'
  BY <1>5, <1>7, <1>8, <1>9, <1>10 DEF OpenOK
<1>13. OpeningOK'
  BY <1>5 DEF OpeningOK
<1>14. StandsFor(saved[f], w, f)
  BY <1>1, <1>5, <1>7, StandsGrown DEF StandingInv, GoneUnheard
<1>15. \A g \in Files : StandsFor(saved'[g], disk'[g], g)
  <2>1. CASE saved' = saved
    BY <1>8, <1>14, <2>1 DEF StandingInv, GoneUnheard
  <2>2. CASE /\ opfsDirs[f] # "none"
             /\ saved' = [saved EXCEPT ![f] =
                             [offset |-> active'.written,
                              hasState |-> active'.hasher,
                              hashed |-> active'.hashed,
                              dir |-> opfsDirs[f]]]
    <3>1. opfsDirs[f] = "own"
      BY <1>1, <1>5, <2>2 DEF StandingInv, Folder
    <3>2. /\ saved'[f].offset = active'.written
          /\ saved'[f].hasState = active'.hasher
          /\ saved'[f].hashed = active'.hashed
          /\ saved'[f].dir = "own"
          /\ \A g \in Files : g # f => saved'[g] = saved[g]
      BY <1>1, <1>5, <2>2, <3>1
    <3>3. SubSeq(w, 1, Len(w)) = w /\ Len(w) \in Nat
      BY CutNothing, LenProperties DEF FileBytes
    <3>4. StandsFor(saved'[f], w, f)
      <4>1. saved'[f].offset = Len(w)
        BY <1>7, <3>2
      <4>2. Len(w) <= Size[f]
        BY <1>7, <1>11
      <4>3. saved'[f].hasState =>
                saved'[f].hashed = SubSeq(w, 1, saved'[f].offset)
        BY <1>9, <3>2, <3>3, <4>1
      <4>4. Len(w) <= Len(w)
        BY <3>3
      <4>5. QED
        BY <3>2, <4>1, <4>2, <4>3, <4>4 DEF StandsFor
    <3>5. QED
      BY <1>8, <3>2, <3>4 DEF StandingInv, GoneUnheard
  <2>3. QED
    BY <1>5, <2>1, <2>2
<1>16. QED
  BY <1>5, <1>12, <1>13, <1>15 DEF StandingInv

\* A write of what an abort has removed since.
LEMMA RemovedWriteStands ==
    ASSUME TypeInv, WorkOK, StandingInv, WriteDone, active.removed, TypeInv'
    PROVE  StandingInv'
<1>1. /\ active \in Download /\ active' \in Download
      /\ opfsDirs \in [Files -> Folder \cup {"none"}]
      /\ saved \in [Files -> ResumeFrom]
  BY DEF TypeInv, ClientInv, LineOK, RecordsOK
<1>2. PICK c \in Chunks : Written(c)
  BY WriteDoneWritten
<1>3. /\ active.chain # <<>> /\ c = Head(active.chain) /\ active.id \in Files
      /\ active.ready /\ active'.ready /\ active'.id = active.id
      /\ active'.received = active.received
      /\ active'.written = active.written + c.len
      /\ active'.removed
      /\ disk' = disk
      /\ \A g \in Files : g # active.id => saved'[g] = saved[g]
      /\ opfsDirs' = opfsDirs
      /\ \/ /\ active.failed = "no" /\ active'.failed = "no"
            /\ active'.chain = Tail(active.chain)
         \/ active'.failed # "no" /\ active'.chain = <<>>
  BY <1>1, <1>2 DEF Written
<1>4. Ledger(active')
  BY <1>1, <1>3, LedgerWritten DEF StandingInv, OpenOK
<1>5. OpenOK' /\ OpeningOK'
  BY <1>3, <1>4 DEF OpenOK, OpeningOK
<1>6. \A g \in Files : GoneUnheard(g)' \/ StandsFor(saved'[g], disk'[g], g)
  BY <1>3 DEF StandingInv, GoneUnheard
<1>7. QED
  BY <1>3, <1>5, <1>6 DEF StandingInv

LEMMA AbortRemovesStands ==
    ASSUME TypeInv, WorkOK, StandingInv, AbortRemoves
    PROVE  StandingInv'
<1>1. active \in Download /\ disk \in [Files -> FileBytes]
  BY DEF TypeInv, ClientInv, LineOK
<1>2. active' = [active EXCEPT !.removed = TRUE] /\ active.ready
      /\ disk' = [disk EXCEPT ![active.id] = <<>>]
      /\ UNCHANGED <<saved, opfsDirs>>
  BY DEF AbortRemoves, WorkOK
<1>3. /\ active'.id = active.id /\ active'.ready /\ active'.removed
      /\ active'.received = active.received /\ active'.written = active.written
      /\ active'.chain = active.chain /\ active'.failed = active.failed
  BY <1>1, <1>2 DEF Download
<1>4. Ledger(active')
  BY <1>2, <1>3 DEF StandingInv, OpenOK, Ledger, Counts
<1>5. OpenOK' /\ OpeningOK'
  BY <1>3, <1>4 DEF OpenOK, OpeningOK
<1>6. \A g \in Files : GoneUnheard(g)' \/ StandsFor(saved'[g], disk'[g], g)
  BY <1>1, <1>2, <1>3 DEF StandingInv, GoneUnheard
<1>7. QED
  BY <1>2, <1>5, <1>6 DEF StandingInv

\* A reload that finds no folder removed that the page has not heard of.
LEMMA ReloadStands ==
    ASSUME TypeInv, WorkOK, StandingInv, Reload, ~active.removed
    PROVE  StandingInv'
<1> DEFINE c == Head(active.chain)
           t == Bytes(c.id, c.at, c.at + c.len)
           KeptOnDisk(d) ==
               [f \in Files |-> IF saved[f].dir = "own" THEN d[f] ELSE <<>>]
<1>1. /\ active \in Download /\ disk \in [Files -> FileBytes] /\ ClientOK
      /\ saved \in [Files -> ResumeFrom]
  BY DEF TypeInv, ClientInv, LineOK, RecordsOK
<1>2. /\ ~active'.ready /\ active'.id = NoFile
      /\ saved' = [f \in Files |-> [saved[f] EXCEPT !.dir = "own"]]
      /\ opfsDirs' = [f \in Files |-> "none"]
  BY DEF Reload, NoDownload, NewDownload
<1>3. \/ disk' = KeptOnDisk(disk)
      \/ /\ active.chain # <<>>
         /\ disk' = KeptOnDisk([disk EXCEPT ![active.id] = disk[active.id] \o t])
  BY DEF Reload
<1>4. active.chain # <<>> => active.id \in Files /\ t \in FileBytes
  <2>1. SUFFICES ASSUME active.chain # <<>>
                 PROVE  active.id \in Files /\ t \in FileBytes
    OBVIOUS
  <2>2. active.id \in Files
    BY <1>1, <2>1 DEF ClientOK, Download
  <2>3. active.chain \in Seq(Chunks)
    BY <1>1 DEF Download
  <2>4. c \in Chunks
    BY <2>1, <2>3, HeadTailProperties
  <2>5. t \in FileBytes
    <3>1. c.id \in Files /\ c.at \in Nat /\ c.at + c.len \in Nat
          /\ c.at <= c.at + c.len
      BY <2>4 DEF Chunks
    <3>2. QED
      BY <3>1, BytesLen
  <2>6. QED
    BY <2>2, <2>5
<1> HIDE DEF t
<1>5. \A f \in Files : StandsFor(saved[f], disk'[f], f)
  <2>1. TAKE f \in Files
  <2>2. CASE ~(saved[f].offset > 0)
    BY <2>2 DEF StandsFor
  <2>3. CASE saved[f].offset > 0
    <3>1. StandsFor(saved[f], disk[f], f) /\ saved[f].dir = "own"
      BY <2>3 DEF StandingInv, StandsFor, GoneUnheard
    <3>2. CASE disk' = KeptOnDisk(disk)
      BY <3>1, <3>2
    <3>3. CASE /\ active.chain # <<>>
               /\ disk' = KeptOnDisk([disk EXCEPT ![active.id] = disk[active.id] \o t])
      <4>1. disk'[f] = IF f = active.id THEN disk[f] \o t ELSE disk[f]
        BY <1>1, <3>1, <3>3
      <4>2. StandsFor(saved[f], disk[f] \o t, f)
        BY <1>1, <1>4, <3>1, <3>3, StandsGrown
      <4>3. QED
        BY <3>1, <4>1, <4>2
    <3>4. QED
      BY <1>3, <3>2, <3>3
  <2>4. QED
    BY <2>2, <2>3
<1>6. \A f \in Files : StandsFor(saved'[f], disk'[f], f)
  <2>1. TAKE f \in Files
  <2>2. /\ saved'[f].offset = saved[f].offset
        /\ saved'[f].hasState = saved[f].hasState
        /\ saved'[f].hashed = saved[f].hashed
        /\ saved'[f].dir = "own"
    BY <1>1, <1>2 DEF ResumeFrom
  <2>3. QED
    BY <1>5, <2>2 DEF StandsFor
<1>7. QED
  BY <1>2, <1>6 DEF StandingInv, OpenOK, OpeningOK

\* No download was given up while its sink was still opening.
NoOrphans == \A f \in Files : orphans[f] = 0

\* No reload falls between the removal of an aborted download's folder and the
\* page's hearing of it.
PageHears == [][Reload => ~active.removed]_vars

LEMMA NextStands ==
    ASSUME Limit["evictions"] = 0, TypeInv, LineInv, WorkOK, RemovedOK,
           OneCheckpoint, StandingInv, NoOrphans, WorkStep,
           Reload => ~active.removed, TypeInv'
    PROVE  StandingInv'
<1>1. ~OrphanAborted
  BY DEF OrphanAborted, OrphanOpened, NoOrphans
<1>2. ~Spend("evictions")
  BY DEF Spend, TypeInv, Budget
<1>3. QED
  BY <1>1, <1>2, GoingStands, ReplacedStands, ResumedStands, TakenStands,
     OpenedStands, WriteDoneStands, RemovedWriteStands, AbortRemovesStands,
     ReloadStands
  DEF WorkStep

LEMMA VarsStand ==
    ASSUME TypeInv, StandingInv, UNCHANGED vars, TypeInv'
    PROVE  StandingInv'
<1>1. UNCHANGED <<active, disk, saved, opfsDirs>>
  BY DEF vars, clientVars, storageVars
<1>2. Going
  BY <1>1, RecordsSame DEF Going, SameWork
<1>3. QED
  BY <1>2, GoingStands

LEMMA InitStands == Init => StandingInv
<1> SUFFICES ASSUME Init PROVE StandingInv
  OBVIOUS
<1>1. active = NoDownload /\ saved = [f \in Files |-> NoResume]
      /\ opfsDirs = [f \in Files |-> "none"]
  BY DEF Init
<1>2. QED
  BY <1>1
  DEF StandingInv, StandsFor, OpenOK, OpeningOK, NoDownload, NewDownload, NoResume

\* A checkpoint never claims bytes the disk does not hold, nor a hash state of
\* other bytes, whatever fails, is lost or reloaded between a write, its ack
\* and the next one, and however often aborts remove folders a while before
\* their checkpoints.  Three things are excluded, each of which leaves such a
\* checkpoint: that the browser evicts the file; that a download was given up
\* before its sink was open, and that sink names the folder later; and that
\* the page reloads after an abort has removed a folder and before it drops
\* the checkpoint.
THEOREM CheckpointsHold ==
    ASSUME Limit["evictions"] = 0
    PROVE  Spec /\ []NoOrphans /\ PageHears => []CheckpointOnDisk
<1>1. StandingInv => CheckpointOnDisk
  BY DEF StandingInv, GoneUnheard, StandsFor, CheckpointOnDisk
<1>2. TypeInv /\ LineInv /\ SinkInv /\ OneCheckpoint /\ NoOrphans /\ StandingInv
          /\ TypeInv' /\ [Next]_vars /\ [Reload => ~active.removed]_vars
      => LineInv' /\ SinkInv' /\ StandingInv'
  <2>1. SUFFICES ASSUME TypeInv, LineInv, SinkInv, OneCheckpoint, NoOrphans,
                        StandingInv, TypeInv', [Next]_vars,
                        [Reload => ~active.removed]_vars
                 PROVE  LineInv' /\ SinkInv' /\ StandingInv'
    OBVIOUS
  <2>2. LineInv' /\ SinkInv' /\ WorkStep
    BY <2>1, NextMaps, NextSink
  <2>3. CASE UNCHANGED vars
    BY <2>1, <2>2, <2>3, VarsStand
  <2>4. CASE Reload => ~active.removed
    BY <2>1, <2>2, <2>4, NextStands DEF SinkInv
  <2>5. QED
    BY <2>1, <2>2, <2>3, <2>4
<1>3. Init => LineInv /\ SinkInv /\ StandingInv
  BY InitMaps, InitSink, InitStands
<1>4. QED
  BY <1>1, <1>2, <1>3, TypeInvAlways, OneCheckpointHolds, PTL DEF Spec, PageHears

\* A file the page shows as verified is the shared file, byte for byte, with
\* chunks of other files about and any number of files in the share: the
\* digest catches a stray byte whenever the checkpoints hold.
THEOREM VerifiedWithoutOrphans ==
    ASSUME Limit["evictions"] = 0
    PROVE  Spec /\ []NoOrphans /\ PageHears => []VerifiedIsIntact
BY CheckpointsHold, VerifiedFilesIntact, PTL
=============================================================================
