-------------------------- MODULE NegotiationProofs --------------------------
(***************************************************************************)
(* Theorems about Negotiation: its types, that dropped sockets leave an    *)
(* established connection alone, and that a receiver does not give up      *)
(* because of a single interruption.                                       *)
(***************************************************************************)
EXTENDS Negotiation, SequenceTheorems, FiniteSetTheorems, TLAPS

-----------------------------------------------------------------------------
(* New names.                                                              *)

\* A number that is not in a finite set is found among the first ones.
LEMMA FreshIsNew ==
    ASSUME NEW S, IsFiniteSet(S)
    PROVE  Fresh(S) \in Ids /\ Fresh(S) \notin S
<1>1. PICK n \in Nat : n = Cardinality(S)
  BY FS_CardinalityType
<1>2. PICK U : U = 1 .. n + 1
  OBVIOUS
<1>3. IsFiniteSet(U) /\ Cardinality(U) = n + 1
  <2>1. 1 \in Int /\ n + 1 \in Int /\ ~(1 > n + 1) /\ (n + 1) - 1 + 1 = n + 1
    OBVIOUS
  <2> QED  BY <2>1, <1>2, FS_Interval
<1>4. \E i \in U : i \notin S
  <2>1. SUFFICES ASSUME U \subseteq S PROVE FALSE
    OBVIOUS
  <2>2. Cardinality(U) <= Cardinality(S)
    BY <2>1, FS_Subset
  <2> QED  BY <2>2, <1>3, <1>1
<1>5. Fresh(S) = CHOOSE i \in U : i \notin S
  BY <1>1, <1>2 DEF Fresh
<1>6. Fresh(S) \in U /\ Fresh(S) \notin S
  BY <1>4, <1>5
<1>7. U \subseteq Ids
  BY <1>2 DEF Ids
<1> QED  BY <1>6, <1>7

\* The messages of a queue are finitely many, and so is what they name.
LEMMA RangeFinite ==
    ASSUME NEW S, NEW f, IsFiniteSet(S), f = [x \in S |-> f[x]]
    PROVE  IsFiniteSet({f[x] : x \in S})
<1>1. PICK T : T = {f[x] : x \in S}
  OBVIOUS
<1>2. f \in Surjection(S, T)
  BY <1>1 DEF Surjection
<1> QED  BY <1>1, <1>2, FS_Surjection

LEMMA SentFinite ==
    ASSUME NEW S, NEW q \in Seq(S)
    PROVE  IsFiniteSet({q[k] : k \in 1 .. Len(q)})
<1>1. PICK U : U = 1 .. Len(q)
  OBVIOUS
<1>2. IsFiniteSet(U)
  <2>1. 1 \in Int /\ Len(q) \in Int
    OBVIOUS
  <2> QED  BY <2>1, <1>1, FS_Interval
<1>3. q = [k \in U |-> q[k]]
  BY <1>1
<1>4. IsFiniteSet({q[k] : k \in U})
  BY <1>2, <1>3, RangeFinite
<1> QED  BY <1>4, <1>1

LEMMA LinksOfFinite ==
    ASSUME NEW S, NEW T, IsFiniteSet(S), T \subseteq S
    PROVE  IsFiniteSet({m.link : m \in T})
<1>1. IsFiniteSet(T)
  BY FS_Subset
<1>2. PICK f : f = [m \in T |-> m.link]
  OBVIOUS
<1>3. IsFiniteSet({f[m] : m \in T})
  BY <1>1, <1>2, RangeFinite
<1>4. {f[m] : m \in T} = {m.link : m \in T}
  BY <1>2
<1> QED  BY <1>3, <1>4

LEMMA PcsOfFinite ==
    ASSUME NEW S, NEW T, IsFiniteSet(S), T \subseteq S
    PROVE  IsFiniteSet({m.pc : m \in T})
<1>1. IsFiniteSet(T)
  BY FS_Subset
<1>2. PICK f : f = [m \in T |-> m.pc]
  OBVIOUS
<1>3. IsFiniteSet({f[m] : m \in T})
  BY <1>1, <1>2, RangeFinite
<1>4. {f[m] : m \in T} = {m.pc : m \in T}
  BY <1>2
<1> QED  BY <1>3, <1>4

-----------------------------------------------------------------------------
(* The invariant.                                                          *)

QueueOK(q) ==
    /\ DOMAIN q = Pages
    /\ q["sender"] \in Seq(ToSender)
    /\ q["receiver"] \in Seq(ToReceiver)

LinkOK(l) == l = NoLink \/ (l \in Links /\ IsFiniteSet(l.heard))

PcOK(c) == c = NoPc \/ c \in Pcs

RcvOK(r) ==
    r \in [status : {"connecting", "waiting", "connected",
                     "reconnecting", "closed", "error"},
           senderOnline : BOOLEAN, restarts : 0 .. MAX_RESTARTS,
           watchdog : BOOLEAN]

TypeInv ==
    /\ sock \in [Pages -> SockStates]
    /\ QueueOK(to)
    /\ path \in BOOLEAN
    /\ LinkOK(link)
    /\ PcOK(pc)
    /\ RcvOK(rcv)
    /\ spent \in [FaultKinds -> 0 .. Faults]

\* The answers under way, and whether they are all of connection i, or at
\* least all that follow one of i.
Answers(q) == {k \in 1 .. Len(q) : q[k].t = "answer"}

AllFrom(i, q) == \A k \in Answers(q) : q[k].pc = i

Ordered(i, q) ==
    \A j, k \in Answers(q) : j < k /\ q[j].pc = i => q[k].pc = i

\* No answer of an earlier connection follows one of this one, whether the
\* latter is still under way or has been applied.
AnswersOK(l, c, q) ==
    c # NoPc =>
        /\ Ordered(c.id, q)
        /\ l # NoLink /\ l.remote = c.id => AllFrom(c.id, q)

\* A connected link waits for no timer.
TimerOff(l) == l # NoLink /\ l.ice = "connected" => l.timer = "none"

IInv ==
    /\ TypeInv
    /\ AnswersOK(link, pc, to["sender"])
    /\ TimerOff(link)

LEMMA TypeInvTypeOK == TypeInv => TypeOK
  BY DEF TypeInv, TypeOK, QueueOK, LinkOK, PcOK, RcvOK

-----------------------------------------------------------------------------
(* Messages and queues.                                                    *)

LEMMA SenderMessages ==
    ASSUME NEW m \in ToSender
    PROVE  /\ m.t = "answer" => m.link \in Ids /\ m.pc \in Ids
           /\ m.t = "ice" => m.pc \in Ids
  BY DEF ToSender

LEMMA ReceiverMessages ==
    ASSUME NEW m \in ToReceiver
    PROVE  /\ m.t \in {"offer", "ice"} => m.link \in Ids
           /\ m.t \in {"master", "welcome"} => m.online \in BOOLEAN
           /\ m.t \in {"offer", "ice", "master", "welcome"}
  BY DEF ToReceiver

LEMMA MessagesTyped ==
    /\ \A l, i \in Ids :
           /\ Answer(l, i) \in ToSender
           /\ IceOfPc(i) \in ToSender
           /\ Offer(l) \in ToReceiver
           /\ IceOfLink(l) \in ToReceiver
    /\ \A b \in BOOLEAN :
           /\ MasterMsg(b) \in ToReceiver
           /\ WelcomePeer(b) \in ToReceiver
           /\ WelcomeMaster(b) \in ToSender
    /\ {Restart, Join, Leave} \subseteq ToSender
  BY DEF ToSender, ToReceiver, Answer, IceOfPc, Offer, IceOfLink, MasterMsg,
         WelcomePeer, WelcomeMaster, Restart, Join, Leave

LEMMA OneMessage ==
    /\ \A m \in ToSender : <<m>> \in Seq(ToSender)
    /\ \A m \in ToReceiver : <<m>> \in Seq(ToReceiver)
  OBVIOUS

\* What the room tells a page is added to its queue, or lost.
LEMMA ToldSender ==
    ASSUME NEW ms \in Seq(ToSender), QueueOK(to)
    PROVE  /\ QueueOK(Told("sender", ms))
           /\ Told("sender", ms)["sender"] \in {to["sender"], to["sender"] \o ms}
           /\ Told("sender", ms)["receiver"] = to["receiver"]
<1>1. to["sender"] \o ms \in Seq(ToSender)
  BY DEF QueueOK
<1> QED  BY <1>1 DEF QueueOK, Told, Pages

LEMMA ToldReceiver ==
    ASSUME NEW ms \in Seq(ToReceiver), QueueOK(to)
    PROVE  /\ QueueOK(Told("receiver", ms))
           /\ Told("receiver", ms)["receiver"]
                  \in {to["receiver"], to["receiver"] \o ms}
           /\ Told("receiver", ms)["sender"] = to["sender"]
<1>1. to["receiver"] \o ms \in Seq(ToReceiver)
  BY DEF QueueOK
<1> QED  BY <1>1 DEF QueueOK, Told, Pages

LEMMA SignalledToSender ==
    ASSUME NEW ms \in Seq(ToSender), QueueOK(to)
    PROVE  /\ QueueOK(Signalled("receiver", ms))
           /\ Signalled("receiver", ms)["sender"]
                  \in {to["sender"], to["sender"] \o ms}
           /\ Signalled("receiver", ms)["receiver"] = to["receiver"]
  BY ToldSender DEF Signalled, Other

LEMMA SignalledToReceiver ==
    ASSUME NEW ms \in Seq(ToReceiver), QueueOK(to)
    PROVE  /\ QueueOK(Signalled("sender", ms))
           /\ Signalled("sender", ms)["receiver"]
                  \in {to["receiver"], to["receiver"] \o ms}
           /\ Signalled("sender", ms)["sender"] = to["sender"]
  BY ToldReceiver DEF Signalled, Other

\* A queue that is replaced.
LEMMA SenderQueue ==
    ASSUME NEW t, NEW q \in Seq(ToSender), QueueOK(t)
    PROVE  /\ QueueOK([t EXCEPT !["sender"] = q])
           /\ [t EXCEPT !["sender"] = q]["sender"] = q
           /\ [t EXCEPT !["sender"] = q]["receiver"] = t["receiver"]
  BY DEF QueueOK, Pages

LEMMA ReceiverQueue ==
    ASSUME NEW t, NEW q \in Seq(ToReceiver), QueueOK(t)
    PROVE  /\ QueueOK([t EXCEPT !["receiver"] = q])
           /\ [t EXCEPT !["receiver"] = q]["receiver"] = q
           /\ [t EXCEPT !["receiver"] = q]["sender"] = t["sender"]
  BY DEF QueueOK, Pages

-----------------------------------------------------------------------------
(* The order of answers.                                                   *)

LEMMA EmptyOrdered ==
    ASSUME NEW i
    PROVE  Ordered(i, <<>>) /\ AllFrom(i, <<>>)
  BY DEF Ordered, AllFrom, Answers

LEMMA TailOrdered ==
    ASSUME NEW i, NEW S, NEW q \in Seq(S), q # <<>>
    PROVE  /\ Ordered(i, q) => Ordered(i, Tail(q))
           /\ AllFrom(i, q) => AllFrom(i, Tail(q))
           /\ Ordered(i, q) /\ Head(q).t = "answer" /\ Head(q).pc = i
                  => AllFrom(i, Tail(q))
<1>1. PICK n \in Nat : n = Len(q)
  OBVIOUS
<1>2. n > 0 /\ 1 \in 1 .. n
  BY <1>1
<1>3. Len(Tail(q)) = n - 1 /\ \A k \in 1 .. n - 1 : Tail(q)[k] = q[k + 1]
  BY <1>1
<1>4. \A k \in Answers(Tail(q)) : k \in 1 .. n - 1 /\ k + 1 \in Answers(q)
  BY <1>1, <1>3 DEF Answers
<1>5. ASSUME Ordered(i, q) PROVE Ordered(i, Tail(q))
  BY <1>3, <1>4, <1>5 DEF Ordered
<1>6. ASSUME AllFrom(i, q) PROVE AllFrom(i, Tail(q))
  BY <1>3, <1>4, <1>6 DEF AllFrom
<1>7. ASSUME Ordered(i, q), Head(q).t = "answer", Head(q).pc = i
      PROVE  AllFrom(i, Tail(q))
  <2>1. q[1] = Head(q) /\ 1 \in Answers(q)
    BY <1>7, <1>1, <1>2 DEF Answers
  <2>2. SUFFICES ASSUME NEW k \in Answers(Tail(q)) PROVE Tail(q)[k].pc = i
    BY DEF AllFrom
  <2>3. k \in 1 .. n - 1 /\ k + 1 \in Answers(q) /\ Tail(q)[k] = q[k + 1]
    BY <1>3, <1>4
  <2>4. 1 < k + 1
    BY <2>3
  <2> QED  BY <1>7, <2>1, <2>3, <2>4 DEF Ordered
<1> QED  BY <1>5, <1>6, <1>7

\* Messages without an answer of another connection may follow.
LEMMA AppendOrdered ==
    ASSUME NEW i, NEW S, NEW q \in Seq(S), NEW s \in Seq(S), AllFrom(i, s)
    PROVE  /\ Ordered(i, q) => Ordered(i, q \o s)
           /\ AllFrom(i, q) => AllFrom(i, q \o s)
<1>1. PICK n \in Nat, l \in Nat : n = Len(q) /\ l = Len(s)
  OBVIOUS
<1>2. /\ Len(q \o s) = n + l
      /\ \A k \in 1 .. n : (q \o s)[k] = q[k]
      /\ \A k \in n + 1 .. n + l : (q \o s)[k] = s[k - n]
  BY <1>1
<1>3. ASSUME NEW k \in Answers(q \o s)
      PROVE  \/ k \in Answers(q) /\ (q \o s)[k] = q[k]
             \/ (q \o s)[k].pc = i /\ k \in n + 1 .. n + l
  <2>1. k \in 1 .. n + l /\ (q \o s)[k].t = "answer"
    BY <1>2 DEF Answers
  <2>2. CASE k \in 1 .. n
    BY <2>1, <2>2, <1>1, <1>2 DEF Answers
  <2>3. CASE k \in n + 1 .. n + l
    <3>1. k - n \in 1 .. l
      BY <2>3
    <3>2. (q \o s)[k] = s[k - n]
      BY <2>3, <1>2
    <3>3. k - n \in Answers(s)
      BY <3>1, <3>2, <2>1, <1>1 DEF Answers
    <3> QED  BY <3>3, <3>2, <2>3 DEF AllFrom
  <2>4. k \in 1 .. n \/ k \in n + 1 .. n + l
    BY <2>1
  <2> QED  BY <2>2, <2>3, <2>4
<1>4. ASSUME AllFrom(i, q) PROVE AllFrom(i, q \o s)
  BY <1>3, <1>4 DEF AllFrom
<1>5. ASSUME Ordered(i, q) PROVE Ordered(i, q \o s)
  <2>1. SUFFICES ASSUME NEW j \in Answers(q \o s), NEW k \in Answers(q \o s),
                        j < k, (q \o s)[j].pc = i
                 PROVE  (q \o s)[k].pc = i
    BY DEF Ordered
  <2>2. CASE (q \o s)[k].pc = i
    BY <2>2
  <2>3. CASE k \in Answers(q) /\ (q \o s)[k] = q[k]
    <3>1. k \in 1 .. n /\ j \in 1 .. n + l
      BY <2>3, <1>1, <1>2 DEF Answers
    <3>2. ~(j \in n + 1 .. n + l)
      BY <3>1, <2>1
    <3>3. j \in Answers(q) /\ (q \o s)[j] = q[j]
      BY <3>2, <1>3
    <3> QED  BY <3>3, <2>3, <2>1, <1>5 DEF Ordered
  <2> QED  BY <1>3, <2>2, <2>3
<1> QED  BY <1>4, <1>5

\* What the room itself sends to the sender contains no answer.
LEMMA SilentMessages ==
    ASSUME NEW i
    PROVE  /\ AllFrom(i, <<Restart>>)
           /\ AllFrom(i, <<Join>>)
           /\ AllFrom(i, <<Leave>>)
           /\ \A b \in BOOLEAN : AllFrom(i, <<WelcomeMaster(b)>>)
           /\ \A b \in BOOLEAN : Ordered(i, <<WelcomeMaster(b)>>)
           /\ \A l : AllFrom(i, <<Answer(l, i), IceOfPc(i)>>)
  BY DEF AllFrom, Ordered, Answers, Restart, Join, Leave, WelcomeMaster,
         Answer, IceOfPc

-----------------------------------------------------------------------------
(* New connections.                                                        *)

LEMMA MessagesFinite ==
    ASSUME QueueOK(to)
    PROVE  \A p \in Pages : IsFiniteSet(SentTo(p))
  BY SentFinite DEF QueueOK, SentTo, Pages

LEMMA NewLinkTyped ==
    ASSUME TypeInv
    PROVE  /\ LinkOK(NewLink(Fresh(LinksNamed)))
           /\ NewLink(Fresh(LinksNamed)) # NoLink
           /\ Fresh(LinksNamed) \notin LinksNamed
<1>1. IsFiniteSet(SentTo("receiver")) /\ IsFiniteSet(SentTo("sender"))
  BY MessagesFinite DEF TypeInv, Pages
<1>2. IsFiniteSet({m.link : m \in {x \in SentTo("receiver") : x.t \in {"offer", "ice"}}})
  BY <1>1, LinksOfFinite
<1>3. IsFiniteSet({m.link : m \in {x \in SentTo("sender") : x.t = "answer"}})
  BY <1>1, LinksOfFinite
<1>4. /\ IsFiniteSet({link.id})
      /\ IsFiniteSet(IF pc = NoPc THEN {} ELSE {pc.link})
  BY FS_Singleton, FS_EmptySet
<1>5. IsFiniteSet(LinksNamed)
  BY <1>2, <1>3, <1>4, FS_Union DEF LinksNamed
<1>6. PICK i : i = Fresh(LinksNamed)
  OBVIOUS
<1>7. i \in Ids /\ i \notin LinksNamed
  BY <1>5, <1>6, FreshIsNew
<1>8. NewLink(i) \in Links /\ NewLink(i) # NoLink
  <2>1. 0 \in 0 .. MAX_ICE_RESTARTS /\ i # 0
    BY <1>7, NegotiationAssumption DEF Ids
  <2> QED  BY <2>1, <1>7 DEF NewLink, Links, NoLink, IceStates
<1>9. IsFiniteSet(NewLink(i).heard)
  BY FS_EmptySet DEF NewLink
<1> QED  BY <1>6, <1>7, <1>8, <1>9 DEF LinkOK

LEMMA NewPcTyped ==
    ASSUME TypeInv, NEW l \in Ids
    PROVE  /\ NewPc(Fresh(PcsNamed), l) \in Pcs
           /\ NewPc(Fresh(PcsNamed), l).id \notin PcsNamed
<1>1. IsFiniteSet(SentTo("sender"))
  BY MessagesFinite DEF TypeInv, Pages
<1>2. IsFiniteSet({m.pc : m \in {x \in SentTo("sender") : x.t \in {"answer", "ice"}}})
  BY <1>1, PcsOfFinite
<1>3. IsFiniteSet(IF link = NoLink THEN {} ELSE link.heard \cup {link.remote})
  <2>1. CASE link = NoLink
    BY <2>1, FS_EmptySet
  <2>2. CASE link # NoLink
    BY <2>2, FS_Singleton, FS_Union DEF TypeInv, LinkOK
  <2> QED  BY <2>1, <2>2
<1>4. IsFiniteSet({pc.id})
  BY FS_Singleton
<1>5. IsFiniteSet(PcsNamed)
  BY <1>2, <1>3, <1>4, FS_Union DEF PcsNamed
<1>6. PICK i : i = Fresh(PcsNamed)
  OBVIOUS
<1>7. i \in Ids /\ i \notin PcsNamed
  BY <1>5, <1>6, FreshIsNew
<1> QED  BY <1>6, <1>7 DEF NewPc, Pcs, IceStates

\* No answer names a connection that nobody refers to, and none is applied.
LEMMA NewPcUnanswered ==
    ASSUME TypeInv, NEW i, i \notin PcsNamed
    PROVE  /\ Ordered(i, to["sender"])
           /\ link # NoLink => link.remote # i
<1>1. \A k \in Answers(to["sender"]) : to["sender"][k].pc # i
  BY DEF PcsNamed, SentTo, Answers
<1>2. link # NoLink => link.remote \in PcsNamed
  BY DEF PcsNamed
<1> QED  BY <1>1, <1>2 DEF Ordered

-----------------------------------------------------------------------------
(* What a step leaves of the three parts.                                  *)

LEMMA QueueChanged ==
    ASSUME NEW l, NEW c, NEW q, NEW q2, AnswersOK(l, c, q),
           \A i : /\ Ordered(i, q) => Ordered(i, q2)
                  /\ AllFrom(i, q) => AllFrom(i, q2)
    PROVE  AnswersOK(l, c, q2)
  BY DEF AnswersOK

\* The connection of a page is there, or it is not.
LEMMA PcIs ==
    ASSUME TypeInv
    PROVE  /\ pc # NoPc => pc \in Pcs
           /\ link # NoLink => link \in Links /\ IsFiniteSet(link.heard)
  BY DEF TypeInv, PcOK, LinkOK

-----------------------------------------------------------------------------
(* Sockets, the path and the environment.                                  *)

LEMMA SpendTyped ==
    ASSUME NEW k \in FaultKinds, Spend(k), spent \in [FaultKinds -> 0 .. Faults]
    PROVE  spent' \in [FaultKinds -> 0 .. Faults]
<1>1. /\ spent["drops"] \in Nat /\ spent["outages"] \in Nat
      /\ spent["senderReloads"] \in Nat /\ spent["receiverReloads"] \in Nat
      /\ spent["leaves"] \in Nat
  BY DEF FaultKinds
<1>2. Faults \in Nat
  BY NegotiationAssumption
<1>3. spent[k] < Faults
  BY <1>1, <1>2 DEF Spend, FaultKinds
<1>4. PICK n \in Nat : n = spent[k]
  BY <1>1 DEF FaultKinds
<1>5. n + 1 \in 0 .. Faults
  BY <1>2, <1>3, <1>4
<1> QED  BY <1>4, <1>5 DEF Spend

LEMMA ClosedTyped ==
    ASSUME NEW p \in Pages, sock \in [Pages -> SockStates]
    PROVE  Closed(p) \in [Pages -> SockStates]
  BY DEF Closed, SockStates

LEMMA DropKeeps ==
    ASSUME IInv, NEW p \in Pages, Drop(p)
    PROVE  IInv'
<1> USE DEF IInv
<1>1. sock' \in [Pages -> SockStates]
  BY DEF Drop, TypeInv, SockStates
<1>2. QueueOK(to') /\ to'["sender"] \in {to["sender"], <<>>}
  <2>1. <<>> \in Seq(ToSender) /\ <<>> \in Seq(ToReceiver)
    OBVIOUS
  <2>2. CASE p = "sender"
    <3>1. to' = [to EXCEPT !["sender"] = <<>>]
      BY <2>2 DEF Drop
    <3>2. /\ QueueOK([to EXCEPT !["sender"] = <<>>])
          /\ [to EXCEPT !["sender"] = <<>>]["sender"] = <<>>
      BY <2>1, SenderQueue DEF TypeInv
    <3> QED  BY <3>1, <3>2
  <2>3. CASE p = "receiver"
    BY <2>1, <2>3, ReceiverQueue DEF Drop, TypeInv
  <2> QED  BY <2>2, <2>3 DEF Pages
<1>3. spent' \in [FaultKinds -> 0 .. Faults]
  BY SpendTyped DEF Drop, TypeInv, FaultKinds
<1>4. TypeInv'
  BY <1>1, <1>2, <1>3 DEF TypeInv, Drop
<1>5. AnswersOK(link, pc, to'["sender"])
  BY <1>2, EmptyOrdered, QueueChanged
<1> QED  BY <1>4, <1>5 DEF Drop

LEMMA OutageKeeps ==
    ASSUME IInv, Outage
    PROVE  IInv'
<1>1. spent' \in [FaultKinds -> 0 .. Faults]
  BY SpendTyped DEF Outage, IInv, TypeInv, FaultKinds
<1> QED  BY <1>1 DEF Outage, IInv, TypeInv

LEMMA PathReturnsKeeps ==
    ASSUME IInv, PathReturns
    PROVE  IInv'
  BY DEF PathReturns, IInv, TypeInv

LEMMA PageNoticesKeeps ==
    ASSUME IInv, NEW p \in Pages, PageNotices(p)
    PROVE  IInv'
<1>1. sock' \in [Pages -> SockStates]
  BY DEF PageNotices, IInv, TypeInv, SockStates
<1> QED  BY <1>1 DEF PageNotices, IInv, TypeInv

LEMMA RoomNoticesKeeps ==
    ASSUME IInv, NEW p \in Pages, RoomNotices(p)
    PROVE  IInv'
<1> USE DEF IInv
<1>1. sock' \in [Pages -> SockStates]
  BY DEF RoomNotices, TypeInv, SockStates
<1>2. QueueOK(to') /\ to'["sender"] \in {to["sender"], to["sender"] \o <<Leave>>}
  <2>1. <<Leave>> \in Seq(ToSender) /\ <<MasterMsg(FALSE)>> \in Seq(ToReceiver)
    <3>1. Leave \in ToSender /\ MasterMsg(FALSE) \in ToReceiver
      BY MessagesTyped
    <3> QED  BY <3>1, OneMessage
  <2>2. CASE p = "sender"
    <3>1. to' = Told("receiver", <<MasterMsg(FALSE)>>)
      BY <2>2 DEF RoomNotices, Other, Absence
    <3> QED  BY <3>1, <2>1, ToldReceiver DEF TypeInv
  <2>3. CASE p = "receiver"
    <3>1. to' = Told("sender", <<Leave>>)
      BY <2>3 DEF RoomNotices, Other, Absence
    <3> QED  BY <3>1, <2>1, ToldSender DEF TypeInv
  <2> QED  BY <2>2, <2>3 DEF Pages
<1>3. TypeInv'
  BY <1>1, <1>2 DEF TypeInv, RoomNotices
<1>4. AnswersOK(link, pc, to'["sender"])
  <2>1. to["sender"] \in Seq(ToSender) /\ <<Leave>> \in Seq(ToSender)
    BY MessagesTyped, OneMessage DEF TypeInv, QueueOK
  <2>2. \A i : AllFrom(i, <<Leave>>)
    BY SilentMessages
  <2>3. \A i : /\ Ordered(i, to["sender"]) => Ordered(i, to["sender"] \o <<Leave>>)
               /\ AllFrom(i, to["sender"]) => AllFrom(i, to["sender"] \o <<Leave>>)
    BY <2>1, <2>2, AppendOrdered
  <2>4. CASE to'["sender"] = to["sender"]
    BY <2>4
  <2>5. CASE to'["sender"] = to["sender"] \o <<Leave>>
    <3>1. PICK q : q = to["sender"] \o <<Leave>>
      OBVIOUS
    <3>2. AnswersOK(link, pc, q)
      BY <2>3, <3>1, QueueChanged
    <3> QED  BY <3>1, <3>2, <2>5
  <2> QED  BY <1>2, <2>4, <2>5
<1> QED  BY <1>3, <1>4 DEF RoomNotices

LEMMA ReconnectKeeps ==
    ASSUME IInv, NEW p \in Pages, Reconnect(p)
    PROVE  IInv'
<1> USE DEF IInv
<1>1. sock' \in [Pages -> SockStates]
  BY DEF Reconnect, TypeInv, SockStates
<1>a. PICK b \in BOOLEAN, c \in BOOLEAN :
          b = Present("receiver") /\ c = Present("sender")
  <2>1. Present("receiver") \in BOOLEAN /\ Present("sender") \in BOOLEAN
    BY DEF Present
  <2> QED  BY <2>1, Zenon
<1>b. /\ <<Join>> \in Seq(ToSender) /\ <<WelcomeMaster(b)>> \in Seq(ToSender)
      /\ <<MasterMsg(TRUE)>> \in Seq(ToReceiver)
      /\ <<WelcomePeer(c)>> \in Seq(ToReceiver)
  <2>1. /\ Join \in ToSender /\ WelcomeMaster(b) \in ToSender
        /\ MasterMsg(TRUE) \in ToReceiver /\ WelcomePeer(c) \in ToReceiver
    BY MessagesTyped
  <2> QED  BY <2>1, OneMessage
<1>2. /\ QueueOK(to')
      /\ to'["sender"] \in {to["sender"], to["sender"] \o <<Join>>,
                            <<WelcomeMaster(b)>>}
  <2>1. CASE p = "sender"
    <3>1. PICK t : t = Told("receiver", <<MasterMsg(TRUE)>>)
      OBVIOUS
    <3>2. QueueOK(t)
      BY <3>1, <1>b, ToldReceiver DEF TypeInv
    <3>3. to' = [t EXCEPT !["sender"] = <<WelcomeMaster(b)>>]
      BY <2>1, <3>1, <1>a DEF Reconnect
    <3> QED  BY <3>2, <3>3, <1>b, SenderQueue
  <2>2. CASE p = "receiver"
    <3>1. PICK t : t = Told("sender", <<Join>>)
      OBVIOUS
    <3>2. QueueOK(t) /\ t["sender"] \in {to["sender"], to["sender"] \o <<Join>>}
      BY <3>1, <1>b, ToldSender DEF TypeInv
    <3>3. to' = [t EXCEPT !["receiver"] = <<WelcomePeer(c)>>]
      BY <2>2, <3>1, <1>a DEF Reconnect
    <3> QED  BY <3>2, <3>3, <1>b, ReceiverQueue
  <2> QED  BY <2>1, <2>2 DEF Pages
<1>3. TypeInv'
  BY <1>1, <1>2 DEF TypeInv, Reconnect
<1>4. AnswersOK(link, pc, to'["sender"])
  <2>1. to["sender"] \in Seq(ToSender)
    BY DEF TypeInv, QueueOK
  <2>2. \A i : AllFrom(i, <<Join>>) /\ AllFrom(i, <<WelcomeMaster(b)>>)
                 /\ Ordered(i, <<WelcomeMaster(b)>>)
    BY SilentMessages
  <2>3. \A i : /\ Ordered(i, to["sender"]) => Ordered(i, to["sender"] \o <<Join>>)
               /\ AllFrom(i, to["sender"]) => AllFrom(i, to["sender"] \o <<Join>>)
    BY <2>1, <2>2, <1>b, AppendOrdered
  <2>4. CASE to'["sender"] = to["sender"]
    BY <2>4
  <2>5. CASE to'["sender"] = to["sender"] \o <<Join>>
    <3>1. PICK q : q = to["sender"] \o <<Join>>
      OBVIOUS
    <3>2. AnswersOK(link, pc, q)
      BY <2>3, <3>1, QueueChanged
    <3> QED  BY <3>1, <3>2, <2>5
  <2>6. CASE to'["sender"] = <<WelcomeMaster(b)>>
    BY <2>2, <2>6 DEF AnswersOK
  <2> QED  BY <1>2, <2>4, <2>5, <2>6
<1> QED  BY <1>3, <1>4 DEF Reconnect

LEMMA SenderReloadsKeeps ==
    ASSUME IInv, SenderReloads
    PROVE  IInv'
<1> USE DEF IInv
<1>1. sock' \in [Pages -> SockStates]
  BY ClosedTyped DEF SenderReloads, TypeInv, Pages
<1>2. QueueOK(to') /\ to'["sender"] = <<>>
  <2>1. <<>> \in Seq(ToSender)
    OBVIOUS
  <2> QED  BY <2>1, SenderQueue DEF SenderReloads, TypeInv
<1>3. spent' \in [FaultKinds -> 0 .. Faults]
  BY SpendTyped DEF SenderReloads, TypeInv, FaultKinds
<1>4. TypeInv'
  BY <1>1, <1>2, <1>3 DEF TypeInv, SenderReloads, LinkOK
<1>5. AnswersOK(NoLink, pc, to'["sender"])
  BY <1>2, EmptyOrdered DEF AnswersOK
<1>6. TimerOff(NoLink)
  BY DEF TimerOff
<1> QED  BY <1>4, <1>5, <1>6 DEF SenderReloads

\* The end of the receiver's session leaves no connection to answer for.
LEMMA FinishKeeps ==
    ASSUME TypeInv, NEW r, NEW st \in {"error", "closed"}, RcvOK(r), finish(r, st),
           AnswersOK(link, pc, to["sender"])
    PROVE  /\ sock' \in [Pages -> SockStates]
           /\ QueueOK(to')
           /\ PcOK(pc')
           /\ RcvOK(rcv')
           /\ AnswersOK(link, pc', to'["sender"])
<1>1. sock' \in [Pages -> SockStates]
  BY ClosedTyped DEF finish, TypeInv, Pages
<1>2. QueueOK(to')
  <2>1. <<>> \in Seq(ToReceiver)
    OBVIOUS
  <2> QED  BY <2>1, ReceiverQueue DEF finish, TypeInv
<1>3. PcOK(pc') /\ AnswersOK(link, pc', to'["sender"])
  BY DEF finish, PcOK, AnswersOK
<1>4. RcvOK(rcv')
  BY DEF finish, RcvOK
<1> QED  BY <1>1, <1>2, <1>3, <1>4

LEMMA LeaveKeeps ==
    ASSUME IInv, leave
    PROVE  IInv'
<1> USE DEF IInv
<1>1. /\ sock' \in [Pages -> SockStates] /\ QueueOK(to') /\ PcOK(pc')
      /\ RcvOK(rcv') /\ AnswersOK(link, pc', to'["sender"])
  BY FinishKeeps DEF leave, TypeInv
<1>2. spent' \in [FaultKinds -> 0 .. Faults]
  BY SpendTyped DEF leave, TypeInv, FaultKinds
<1> QED  BY <1>1, <1>2 DEF leave, TypeInv

LEMMA NewReceiverOK == RcvOK(NewReceiver)
<1>1. 0 \in 0 .. MAX_RESTARTS
  BY NegotiationAssumption
<1> QED  BY <1>1 DEF RcvOK, NewReceiver

LEMMA ReceiverReloadsKeeps ==
    ASSUME IInv, ReceiverReloads
    PROVE  IInv'
<1> USE DEF IInv
<1>1. sock' \in [Pages -> SockStates]
  BY ClosedTyped DEF ReceiverReloads, TypeInv, Pages
<1>2. QueueOK(to')
  <2>1. <<>> \in Seq(ToReceiver)
    OBVIOUS
  <2> QED  BY <2>1, ReceiverQueue DEF ReceiverReloads, TypeInv
<1>3. PcOK(pc') /\ AnswersOK(link, pc', to'["sender"])
  BY DEF ReceiverReloads, PcOK, AnswersOK
<1>4. spent' \in [FaultKinds -> 0 .. Faults]
  BY SpendTyped DEF ReceiverReloads, TypeInv, FaultKinds
<1> QED  BY <1>1, <1>2, <1>3, <1>4, NewReceiverOK DEF ReceiverReloads, TypeInv

-----------------------------------------------------------------------------
(* The sender's steps.                                                     *)

LEMMA SenderLinkStepKeeps ==
    ASSUME IInv, NEW l, SenderLinkStep(l), LinkOK(l), TimerOff(l),
           l # NoLink => link # NoLink /\ l.remote = link.remote
    PROVE  IInv'
<1>1. AnswersOK(l, pc, to["sender"])
  BY DEF IInv, AnswersOK
<1> QED  BY <1>1 DEF IInv, TypeInv, SenderLinkStep

LEMMA LinkFields ==
    ASSUME NEW l \in Links
    PROVE  l # NoLink
  BY DEF Links, NoLink, Ids

LEMMA CloseTyped == LinkOK(NoLink) /\ TimerOff(NoLink)
  BY DEF LinkOK, TimerOff

LEMMA CloseKeeps ==
    ASSUME IInv, close
    PROVE  IInv'
  BY CloseTyped, SenderLinkStepKeeps DEF close

LEMMA SenderOpensKeeps ==
    ASSUME IInv, SenderOpens
    PROVE  IInv'
<1>1. link # NoLink /\ link \in Links /\ IsFiniteSet(link.heard)
  BY PcIs DEF IInv, SenderOpens, SenderMayOpen, Reachable, Paired
<1>2. PICK l : l = onOpen([link EXCEPT !.ice = "connected", !.timer = "none",
                                       !.restarts = 0])
  OBVIOUS
<1>3. l \in Links /\ l.heard = link.heard /\ l.remote = link.remote
          /\ l.timer = "none"
  <2>1. 0 \in 0 .. MAX_ICE_RESTARTS
    BY NegotiationAssumption
  <2> QED  BY <2>1, <1>1, <1>2 DEF onOpen, Links, IceStates
<1>4. LinkOK(l) /\ TimerOff(l)
  BY <1>1, <1>3 DEF LinkOK, TimerOff
<1>5. SenderLinkStep(l)
  BY <1>2 DEF SenderOpens
<1> QED  BY <1>1, <1>3, <1>4, <1>5, SenderLinkStepKeeps

LEMMA SenderIceReturnsKeeps ==
    ASSUME IInv, SenderIceReturns
    PROVE  IInv'
<1>1. link # NoLink /\ link \in Links /\ IsFiniteSet(link.heard)
  BY PcIs DEF IInv, SenderIceReturns, Paired, SenderMayReturn
<1>2. PICK l : l = [link EXCEPT !.ice = "connected", !.timer = "none",
                                !.restarts = 0,
                                !.view = IF @ = "reconnecting"
                                         THEN "connected" ELSE @]
  OBVIOUS
<1>3. l \in Links /\ l.heard = link.heard /\ l.remote = link.remote
          /\ l.timer = "none"
  <2>1. 0 \in 0 .. MAX_ICE_RESTARTS
    BY NegotiationAssumption
  <2> QED  BY <2>1, <1>1, <1>2 DEF Links, IceStates
<1>4. LinkOK(l) /\ TimerOff(l)
  BY <1>1, <1>3 DEF LinkOK, TimerOff
<1>5. SenderLinkStep(l)
  BY <1>2 DEF SenderIceReturns
<1> QED  BY <1>1, <1>3, <1>4, <1>5, SenderLinkStepKeeps

LEMMA SenderIceDisconnectsKeeps ==
    ASSUME IInv, SenderIceDisconnects
    PROVE  IInv'
<1>1. link # NoLink /\ link \in Links /\ IsFiniteSet(link.heard)
  BY PcIs DEF IInv, SenderIceDisconnects, SenderMayLose
<1>2. PICK l : l = [link EXCEPT !.ice = "disconnected", !.timer = "disconnect"]
  OBVIOUS
<1>3. l \in Links /\ l.heard = link.heard /\ l.remote = link.remote
          /\ l.ice = "disconnected"
  BY <1>1, <1>2 DEF Links, IceStates
<1>4. LinkOK(l) /\ TimerOff(l)
  BY <1>1, <1>3 DEF LinkOK, TimerOff
<1>5. SenderLinkStep(l)
  BY <1>2 DEF SenderIceDisconnects
<1> QED  BY <1>1, <1>3, <1>4, <1>5, SenderLinkStepKeeps

\* An ICE restart, or the end of the link: the connection answered stays.
LEMMA RestartIceTyped ==
    ASSUME NEW l \in Links, NEW k, IsFiniteSet(l.heard), TimerOff(l),
           k = restartIce(l)
    PROVE  /\ LinkOK(k) /\ TimerOff(k)
           /\ k # NoLink => k.remote = l.remote
<1>1. CASE k = NoLink
  BY <1>1, CloseTyped
<1>2. CASE k = l
  BY <1>2 DEF LinkOK
<1>3. CASE /\ l.restarts < MAX_ICE_RESTARTS
           /\ k = [l EXCEPT !.restarts = @ + 1, !.view = "reconnecting", !.need = TRUE]
  <2>1. PICK n \in Nat : n = l.restarts
    BY DEF Links
  <2>2. n + 1 \in 0 .. MAX_ICE_RESTARTS
    BY <1>3, <2>1, NegotiationAssumption
  <2>3. k \in Links /\ k.heard = l.heard /\ k.remote = l.remote
            /\ k.ice = l.ice /\ k.timer = l.timer
    BY <1>3, <2>1, <2>2 DEF Links
  <2> QED  BY <2>3, LinkFields DEF LinkOK, TimerOff
<1>4. k = NoLink \/ k = l
      \/ (/\ l.restarts < MAX_ICE_RESTARTS
          /\ k = [l EXCEPT !.restarts = @ + 1, !.view = "reconnecting", !.need = TRUE])
  <2>1. l.restarts \in Int /\ MAX_ICE_RESTARTS \in Int
    BY NegotiationAssumption DEF Links
  <2>2. l.restarts >= MAX_ICE_RESTARTS \/ l.restarts < MAX_ICE_RESTARTS
    BY <2>1
  <2> QED  BY <2>2 DEF restartIce
<1> QED  BY <1>1, <1>2, <1>3, <1>4

LEMMA DisconnectTimeoutKeeps ==
    ASSUME IInv, DisconnectTimeout
    PROVE  IInv'
<1>1. link # NoLink /\ link \in Links /\ IsFiniteSet(link.heard)
  BY PcIs DEF IInv, DisconnectTimeout
<1>2. PICK l : l = [link EXCEPT !.timer = "none"]
  OBVIOUS
<1>3. l \in Links /\ l.heard = link.heard /\ l.remote = link.remote
          /\ l.timer = "none"
  BY <1>1, <1>2 DEF Links
<1>4. PICK k : k = restartIce(l)
  OBVIOUS
<1>5. LinkOK(k) /\ TimerOff(k) /\ (k # NoLink => k.remote = l.remote)
  BY <1>1, <1>3, <1>4, RestartIceTyped DEF TimerOff
<1>6. SenderLinkStep(k)
  BY <1>2, <1>4 DEF DisconnectTimeout
<1> QED  BY <1>1, <1>3, <1>5, <1>6, SenderLinkStepKeeps

LEMMA SenderIceFailsKeeps ==
    ASSUME IInv, SenderIceFails
    PROVE  IInv'
<1>1. link # NoLink /\ link \in Links /\ IsFiniteSet(link.heard)
  BY PcIs DEF IInv, SenderIceFails
<1>2. PICK l : l = [link EXCEPT !.ice = "failed",
                                !.timer = IF @ = "disconnect" THEN "none" ELSE @]
  OBVIOUS
<1>3. l \in Links /\ l.heard = link.heard /\ l.remote = link.remote
          /\ l.ice = "failed"
  BY <1>1, <1>2 DEF Links, IceStates
<1>4. PICK k : k = restartIce(l)
  OBVIOUS
<1>5. LinkOK(k) /\ TimerOff(k) /\ (k # NoLink => k.remote = l.remote)
  BY <1>1, <1>3, <1>4, RestartIceTyped DEF TimerOff
<1>6. SenderLinkStep(k)
  BY <1>2, <1>4 DEF SenderIceFails
<1> QED  BY <1>1, <1>3, <1>5, <1>6, SenderLinkStepKeeps

LEMMA ConnectTimeoutKeeps ==
    ASSUME IInv, ConnectTimeout
    PROVE  IInv'
  BY CloseKeeps DEF ConnectTimeout

LEMMA SenderChannelClosesKeeps ==
    ASSUME IInv, SenderChannelCloses
    PROVE  IInv'
  BY CloseKeeps DEF SenderChannelCloses

LEMMA OfferKeeps ==
    ASSUME IInv, offer
    PROVE  IInv'
<1>1. link # NoLink /\ link \in Links /\ IsFiniteSet(link.heard)
  BY PcIs DEF IInv, offer, OfferPending
<1>2. PICK l : l = [link EXCEPT !.need = FALSE, !.sig = "have-local-offer"]
  OBVIOUS
<1>3. l \in Links /\ l.heard = link.heard /\ l.remote = link.remote
          /\ l.ice = link.ice /\ l.timer = link.timer
  BY <1>1, <1>2 DEF Links
<1>4. QueueOK(to') /\ to'["sender"] = to["sender"]
  <2>1. link.id \in Ids
    BY <1>1 DEF Links
  <2>2. PICK ms : ms = <<Offer(link.id), IceOfLink(link.id)>>
    OBVIOUS
  <2>3. ms \in Seq(ToReceiver)
    <3>1. Offer(link.id) \in ToReceiver /\ IceOfLink(link.id) \in ToReceiver
      BY <2>1, MessagesTyped
    <3> QED  BY <3>1, <2>2
  <2>4. to' = Signalled("sender", ms)
    BY <2>2 DEF offer
  <2> QED  BY <2>3, <2>4, SignalledToReceiver DEF IInv, TypeInv
<1>5. LinkOK(l) /\ TimerOff(l)
  BY <1>1, <1>3 DEF LinkOK, TimerOff, IInv
<1>6. AnswersOK(l, pc, to["sender"])
  BY <1>1, <1>3 DEF IInv, AnswersOK
<1> QED  BY <1>2, <1>4, <1>5, <1>6 DEF IInv, TypeInv, offer

\* A link on which no answer has been applied yet.
LEMMA AddLinkTyped ==
    ASSUME TypeInv, addLink
    PROVE  LinkOK(link') /\ TimerOff(link') /\ link'.remote = 0
  BY NewLinkTyped DEF addLink, TimerOff, NewLink

\* What a message leaves of the link: the connection it had answered for, or
\* none yet, or that of the answer it is.
LEMMA SenderMessageLink ==
    ASSUME TypeInv, TimerOff(link), OnSenderMessage,
           NEW m, m = Head(to["sender"])
    PROVE  /\ sock' \in [Pages -> SockStates]
           /\ LinkOK(link')
           /\ TimerOff(link')
           /\ link' # NoLink =>
                  \/ link'.remote = 0
                  \/ link # NoLink /\ link'.remote = link.remote
                  \/ m.t = "answer" /\ link'.remote = m.pc
<1>1. m \in ToSender
  BY DEF OnSenderMessage, TypeInv, QueueOK
<1>2. link # NoLink => link \in Links /\ IsFiniteSet(link.heard)
  BY PcIs
<1>3. CASE UNCHANGED <<link, sock>>
  BY <1>3 DEF TypeInv
<1>4. CASE addLink /\ UNCHANGED sock
  BY <1>4, AddLinkTyped DEF TypeInv
<1>5. ASSUME peerJoined
      PROVE  /\ LinkOK(link') /\ TimerOff(link')
             /\ link' # NoLink =>
                    \/ link'.remote = 0
                    \/ link # NoLink /\ link'.remote = link.remote
  <2>1. CASE ~SenderConnected
    BY <2>1, <1>5, AddLinkTyped DEF peerJoined
  <2>2. CASE SenderConnected
    <3>1. link \in Links /\ IsFiniteSet(link.heard)
      BY <2>2, <1>2 DEF SenderConnected
    <3>2. link' = [link EXCEPT !.gone = FALSE]
      BY <2>2, <1>5 DEF peerJoined
    <3>3. link' \in Links /\ link'.heard = link.heard /\ link'.remote = link.remote
              /\ link'.ice = link.ice /\ link'.timer = link.timer
      BY <3>1, <3>2 DEF Links
    <3> QED  BY <3>1, <3>3, LinkFields DEF LinkOK, TimerOff
  <2> QED  BY <2>1, <2>2
<1>6. CASE OnSenderWelcome(m)
  <2>1. sock' \in [Pages -> SockStates]
    BY <1>6 DEF OnSenderWelcome, TypeInv, SockStates
  <2>2. peerJoined \/ link' = link
    BY <1>6 DEF OnSenderWelcome
  <2>3. CASE link' = link
    BY <2>1, <2>3 DEF TypeInv
  <2> QED  BY <2>1, <2>2, <2>3, <1>5
<1>7. CASE OnJoin(m)
  BY <1>7, <1>5 DEF OnJoin, TypeInv
<1>8. CASE OnLeave(m)
  <2>1. CASE ~SenderConnected
    BY <2>1, <1>8, CloseTyped DEF OnLeave, TypeInv
  <2>2. CASE SenderConnected
    <3>1. link \in Links /\ IsFiniteSet(link.heard)
      BY <2>2, <1>2 DEF SenderConnected
    <3>2. link' = [link EXCEPT !.gone = TRUE]
      BY <2>2, <1>8 DEF OnLeave
    <3>3. link' \in Links /\ link'.heard = link.heard /\ link'.remote = link.remote
              /\ link'.ice = link.ice /\ link'.timer = link.timer
      BY <3>1, <3>2 DEF Links
    <3> QED  BY <3>1, <3>3, <1>8, LinkFields DEF LinkOK, TimerOff, OnLeave, TypeInv
  <2> QED  BY <2>1, <2>2
<1>9. CASE OnRestart(m)
  BY <1>9, <1>4 DEF OnRestart
<1>10. CASE OnAnswer(m)
  <2>1. CASE link = NoLink \/ link.sig # "have-local-offer"
    BY <2>1, <1>10, <1>3 DEF OnAnswer
  <2>2. CASE link # NoLink /\ link.sig = "have-local-offer"
    <3>1. link \in Links /\ IsFiniteSet(link.heard) /\ m.pc \in Ids
      BY <2>2, <1>2, <1>1, <1>10, SenderMessages DEF OnAnswer
    <3>2. link' = [link EXCEPT !.sig = "stable",
                               !.remote = m.pc,
                               !.heard = @ \cap {m.pc},
                               !.ice = IF @ = "failed" THEN "checking" ELSE @]
      BY <2>2, <1>10 DEF OnAnswer
    <3>3. link' \in Links /\ link'.heard = link.heard \cap {m.pc}
              /\ link'.remote = m.pc
              /\ (link'.ice = "connected" => link.ice = "connected")
              /\ link'.timer = link.timer
      BY <3>1, <3>2 DEF Links, IceStates
    <3>4. IsFiniteSet(link'.heard)
      <4>1. PICK h : h = link.heard \cap {m.pc}
        OBVIOUS
      <4>2. h \subseteq link.heard
        BY <4>1
      <4>3. IsFiniteSet(h)
        BY <4>2, <3>1, FS_Subset
      <4> QED  BY <4>1, <4>3, <3>3
    <3> QED  BY <2>2, <3>3, <3>4, <1>10 DEF LinkOK, TimerOff, OnAnswer, TypeInv
  <2> QED  BY <2>1, <2>2
<1>11. CASE OnReceiverIce(m)
  <2>1. CASE link' = link
    BY <2>1, <1>11, <1>3 DEF OnReceiverIce
  <2>2. CASE link # NoLink /\ link' = [link EXCEPT !.heard = @ \cup {m.pc}]
    <3>1. link \in Links /\ IsFiniteSet(link.heard) /\ m.pc \in Ids
      BY <2>2, <1>2, <1>1, <1>11, SenderMessages DEF OnReceiverIce
    <3>2. link' \in Links /\ link'.heard = link.heard \cup {m.pc}
              /\ link'.remote = link.remote
              /\ link'.ice = link.ice /\ link'.timer = link.timer
      BY <2>2, <3>1 DEF Links
    <3>3. IsFiniteSet(link.heard \cup {m.pc})
      BY <3>1, FS_AddElement
    <3> QED  BY <2>2, <3>2, <3>3, <1>11 DEF LinkOK, TimerOff, OnReceiverIce, TypeInv
  <2> QED  BY <2>1, <2>2, <1>11 DEF OnReceiverIce
<1> QED  BY <1>6, <1>7, <1>8, <1>9, <1>10, <1>11 DEF OnSenderMessage

LEMMA SenderMessageKeeps ==
    ASSUME IInv, OnSenderMessage
    PROVE  IInv'
<1>1. PICK m : m = Head(to["sender"])
  OBVIOUS
<1>2. PICK q : q = to["sender"]
  OBVIOUS
<1>3. q \in Seq(ToSender) /\ q # <<>> /\ Tail(q) \in Seq(ToSender)
  BY <1>2 DEF OnSenderMessage, IInv, TypeInv, QueueOK
<1>4. QueueOK(to') /\ to'["sender"] = Tail(q)
  <2>1. to' = [to EXCEPT !["sender"] = Tail(q)]
    BY <1>2 DEF OnSenderMessage
  <2> QED  BY <2>1, <1>3, SenderQueue DEF IInv, TypeInv
<1>5. /\ sock' \in [Pages -> SockStates]
      /\ LinkOK(link')
      /\ TimerOff(link')
      /\ link' # NoLink =>
             \/ link'.remote = 0
             \/ link # NoLink /\ link'.remote = link.remote
             \/ m.t = "answer" /\ link'.remote = m.pc
  BY <1>1, SenderMessageLink DEF IInv
<1>6. TypeInv'
  BY <1>4, <1>5 DEF OnSenderMessage, IInv, TypeInv
<1>7. AnswersOK(link', pc, Tail(q))
  <2>1. SUFFICES ASSUME pc # NoPc
                 PROVE  /\ Ordered(pc.id, Tail(q))
                        /\ link' # NoLink /\ link'.remote = pc.id =>
                               AllFrom(pc.id, Tail(q))
    BY DEF AnswersOK
  <2>2. pc.id # 0
    BY <2>1, PcIs DEF IInv, Pcs, Ids
  <2>3. Ordered(pc.id, q) /\ (link # NoLink /\ link.remote = pc.id => AllFrom(pc.id, q))
    BY <2>1, <1>2 DEF IInv, AnswersOK
  <2>4. /\ Ordered(pc.id, q) => Ordered(pc.id, Tail(q))
        /\ AllFrom(pc.id, q) => AllFrom(pc.id, Tail(q))
        /\ Ordered(pc.id, q) /\ Head(q).t = "answer" /\ Head(q).pc = pc.id
               => AllFrom(pc.id, Tail(q))
    BY <1>3, TailOrdered
  <2> QED  BY <2>2, <2>3, <2>4, <1>1, <1>2, <1>5
<1> QED  BY <1>4, <1>5, <1>6, <1>7 DEF IInv, OnSenderMessage

-----------------------------------------------------------------------------
(* The receiver's steps.                                                   *)

\* What a step of the receiver has to leave in order.
ReceiverKept ==
    /\ sock' \in [Pages -> SockStates]
    /\ QueueOK(to')
    /\ PcOK(pc')
    /\ RcvOK(rcv')
    /\ AnswersOK(link, pc', to'["sender"])

LEMMA ReceiverKeeps ==
    ASSUME IInv, ReceiverKept, UNCHANGED <<path, link, spent>>
    PROVE  IInv'
  BY DEF IInv, TypeInv, ReceiverKept

\* The connection of the receiver changes, but stays the one it is.
SameConnection(c) == c = pc \/ (pc # NoPc /\ c \in Pcs /\ c.id = pc.id)

LEMMA SameConnectionKept ==
    ASSUME IInv, NEW c, SameConnection(c)
    PROVE  PcOK(c) /\ AnswersOK(link, c, to["sender"])
<1>1. CASE c = pc
  BY <1>1 DEF IInv, TypeInv
<1>2. CASE pc # NoPc /\ c \in Pcs /\ c.id = pc.id
  BY <1>2 DEF IInv, PcOK, AnswersOK
<1> QED  BY <1>1, <1>2 DEF SameConnection

LEMMA RequestRestartKeeps ==
    ASSUME IInv, NEW r, NEW c, NEW q \in Seq(ToReceiver),
           RcvOK(r), SameConnection(c), requestRestart(r, c, q)
    PROVE  ReceiverKept
<1>1. CASE finish(r, "error")
  BY <1>1, FinishKeeps DEF IInv, ReceiverKept
<1>2. CASE /\ r.restarts < MAX_RESTARTS
           /\ rcv' = [r EXCEPT !.restarts = @ + 1, !.watchdog = TRUE]
           /\ pc' = c
           /\ to' = [Signalled("receiver", <<Restart>>) EXCEPT !["receiver"] = q]
           /\ UNCHANGED sock
  <2>1. RcvOK(rcv')
    <3>1. PICK n \in Nat : n = r.restarts
      BY DEF RcvOK
    <3>2. n + 1 \in 0 .. MAX_RESTARTS
      BY <3>1, <1>2, NegotiationAssumption
    <3> QED  BY <3>1, <3>2, <1>2 DEF RcvOK
  <2>2. PICK t : t = Signalled("receiver", <<Restart>>)
    OBVIOUS
  <2>3. <<Restart>> \in Seq(ToSender)
    BY MessagesTyped, OneMessage
  <2>4. QueueOK(t) /\ t["sender"] \in {to["sender"], to["sender"] \o <<Restart>>}
    BY <2>2, <2>3, SignalledToSender DEF IInv, TypeInv
  <2>5. QueueOK(to') /\ to'["sender"] = t["sender"]
    BY <2>2, <2>4, <1>2, ReceiverQueue
  <2>6. PcOK(c) /\ AnswersOK(link, c, to["sender"])
    BY SameConnectionKept
  <2>7. AnswersOK(link, c, t["sender"])
    <3>1. CASE t["sender"] = to["sender"]
      BY <3>1, <2>6
    <3>2. CASE t["sender"] = to["sender"] \o <<Restart>>
      <4>1. PICK u : u = to["sender"] \o <<Restart>>
        OBVIOUS
      <4>2. \A i : /\ Ordered(i, to["sender"]) => Ordered(i, u)
                   /\ AllFrom(i, to["sender"]) => AllFrom(i, u)
        <5>1. to["sender"] \in Seq(ToSender)
          BY DEF IInv, TypeInv, QueueOK
        <5>2. \A i : AllFrom(i, <<Restart>>)
          BY SilentMessages
        <5> QED  BY <5>1, <5>2, <2>3, <4>1, AppendOrdered
      <4>3. AnswersOK(link, c, u)
        BY <4>2, <2>6, QueueChanged
      <4> QED  BY <4>1, <4>3, <3>2
    <3> QED  BY <3>1, <3>2, <2>4
  <2>8. sock' \in [Pages -> SockStates]
    BY <1>2 DEF IInv, TypeInv
  <2> QED  BY <2>1, <2>5, <2>6, <2>7, <2>8, <1>2 DEF ReceiverKept
<1> QED  BY <1>1, <1>2 DEF requestRestart

LEMMA ConnectionLostKeeps ==
    ASSUME IInv, NEW c, SameConnection(c), onConnectionLost(rcv, c)
    PROVE  ReceiverKept
<1>1. PICK r : r = [rcv EXCEPT !.status = "reconnecting"]
  OBVIOUS
<1>2. RcvOK(r)
  BY <1>1 DEF RcvOK, IInv, TypeInv
<1>3. CASE requestRestart(r, c, to["receiver"])
  <2>1. to["receiver"] \in Seq(ToReceiver)
    BY DEF IInv, TypeInv, QueueOK
  <2> QED  BY <1>2, <1>3, <2>1, RequestRestartKeeps
<1>4. CASE /\ rcv' = [rcv EXCEPT !.status = "reconnecting", !.watchdog = TRUE]
           /\ pc' = c
           /\ UNCHANGED <<sock, to>>
  <2>1. RcvOK(rcv')
    BY <1>4 DEF RcvOK, IInv, TypeInv
  <2>2. PcOK(c) /\ AnswersOK(link, c, to["sender"])
    BY SameConnectionKept
  <2> QED  BY <2>1, <2>2, <1>4 DEF ReceiverKept, IInv, TypeInv
<1> QED  BY <1>1, <1>3, <1>4 DEF onConnectionLost

LEMMA ReceiverChannelClosesKeeps ==
    ASSUME IInv, ReceiverChannelCloses
    PROVE  IInv'
<1>1. PICK c : c = [pc EXCEPT !.dc = "closed"]
  OBVIOUS
<1>2. pc # NoPc /\ pc \in Pcs
  BY PcIs DEF IInv, ReceiverChannelCloses, ReceiverHearsClose
<1>3. SameConnection(c)
  BY <1>1, <1>2 DEF SameConnection, Pcs
<1>4. ReceiverKept
  BY <1>1, <1>3, ConnectionLostKeeps DEF ReceiverChannelCloses
<1> QED  BY <1>4, ReceiverKeeps DEF ReceiverChannelCloses

LEMMA ReceiverIceFailsKeeps ==
    ASSUME IInv, ReceiverIceFails
    PROVE  IInv'
<1>1. PICK c : c = [pc EXCEPT !.ice = "failed"]
  OBVIOUS
<1>2. pc # NoPc /\ pc \in Pcs
  BY PcIs DEF IInv, ReceiverIceFails
<1>3. SameConnection(c)
  BY <1>1, <1>2 DEF SameConnection, Pcs, IceStates
<1>4. ReceiverKept
  BY <1>1, <1>3, ConnectionLostKeeps DEF ReceiverIceFails
<1> QED  BY <1>4, ReceiverKeeps DEF ReceiverIceFails

LEMMA WatchdogKeeps ==
    ASSUME IInv, Watchdog
    PROVE  IInv'
<1>1. SameConnection(pc)
  BY DEF SameConnection
<1>2. CASE requestRestart(rcv, pc, to["receiver"])
  <2>1. to["receiver"] \in Seq(ToReceiver) /\ RcvOK(rcv)
    BY DEF IInv, TypeInv, QueueOK
  <2>2. ReceiverKept
    BY <1>1, <1>2, <2>1, RequestRestartKeeps
  <2> QED  BY <2>2, ReceiverKeeps DEF Watchdog
<1>3. CASE /\ rcv' = [rcv EXCEPT !.watchdog = FALSE]
           /\ UNCHANGED <<pc, to, sock>>
  <2>1. RcvOK(rcv')
    BY <1>3 DEF RcvOK, IInv, TypeInv
  <2> QED  BY <2>1, <1>3 DEF Watchdog, IInv, TypeInv
<1> QED  BY <1>2, <1>3 DEF Watchdog

LEMMA ReceiverOpensKeeps ==
    ASSUME IInv, ReceiverOpens
    PROVE  IInv'
<1>1. pc # NoPc /\ pc \in Pcs
  BY PcIs DEF IInv, ReceiverOpens, ReceiverMayOpen, Reachable, Paired
<1>2. SameConnection(pc')
  BY <1>1 DEF SameConnection, ReceiverOpens, Pcs, IceStates
<1>3. PcOK(pc') /\ AnswersOK(link, pc', to["sender"])
  BY <1>2, SameConnectionKept
<1>4. RcvOK(rcv')
  <2>1. 0 \in 0 .. MAX_RESTARTS
    BY NegotiationAssumption
  <2> QED  BY <2>1 DEF RcvOK, ReceiverOpens, IInv, TypeInv
<1> QED  BY <1>3, <1>4 DEF ReceiverOpens, IInv, TypeInv

LEMMA ReceiverIceReturnsKeeps ==
    ASSUME IInv, ReceiverIceReturns
    PROVE  IInv'
<1>1. pc # NoPc /\ pc \in Pcs
  BY PcIs DEF IInv, ReceiverIceReturns, Paired, ReceiverMayReturn
<1>2. SameConnection(pc')
  BY <1>1 DEF SameConnection, ReceiverIceReturns, Pcs, IceStates
<1>3. PcOK(pc') /\ AnswersOK(link, pc', to["sender"])
  BY <1>2, SameConnectionKept
<1>4. RcvOK(rcv')
  BY DEF RcvOK, ReceiverIceReturns, IInv, TypeInv
<1> QED  BY <1>3, <1>4 DEF ReceiverIceReturns, IInv, TypeInv

LEMMA ReceiverIceDisconnectsKeeps ==
    ASSUME IInv, ReceiverIceDisconnects
    PROVE  IInv'
<1>1. pc # NoPc /\ pc \in Pcs
  BY PcIs DEF IInv, ReceiverIceDisconnects, ReceiverMayLose
<1>2. SameConnection(pc')
  BY <1>1 DEF SameConnection, ReceiverIceDisconnects, Pcs, IceStates
<1>3. PcOK(pc') /\ AnswersOK(link, pc', to["sender"])
  BY <1>2, SameConnectionKept
<1>4. RcvOK(rcv')
  BY DEF RcvOK, ReceiverIceDisconnects, IInv, TypeInv
<1> QED  BY <1>3, <1>4 DEF ReceiverIceDisconnects, IInv, TypeInv

LEMMA AnswerKeeps ==
    ASSUME IInv, answer
    PROVE  IInv'
<1>1. pc # NoPc /\ pc \in Pcs
  BY PcIs DEF IInv, answer, AnswerPending
<1>2. SameConnection(pc')
  BY <1>1 DEF SameConnection, answer, Pcs
<1>3. PcOK(pc') /\ AnswersOK(link, pc', to["sender"])
  BY <1>2, SameConnectionKept
<1>4. PICK i \in Ids, l \in Ids : i = pc.id /\ l = pc.link
  BY <1>1 DEF Pcs
<1>5. PICK ms : ms = <<Answer(l, i), IceOfPc(i)>>
  OBVIOUS
<1>6. ms \in Seq(ToSender)
  <2>1. Answer(l, i) \in ToSender /\ IceOfPc(i) \in ToSender
    BY MessagesTyped
  <2> QED  BY <2>1, <1>5
<1>7. QueueOK(to') /\ to'["sender"] \in {to["sender"], to["sender"] \o ms}
  <2>1. to' = Signalled("receiver", ms)
    BY <1>4, <1>5 DEF answer
  <2> QED  BY <2>1, <1>6, SignalledToSender DEF IInv, TypeInv
<1>8. AnswersOK(link, pc', to'["sender"])
  <2>1. CASE to'["sender"] = to["sender"]
    BY <2>1, <1>3
  <2>2. CASE to'["sender"] = to["sender"] \o ms
    <3>1. PICK u : u = to["sender"] \o ms
      OBVIOUS
    <3>2. /\ Ordered(i, to["sender"]) => Ordered(i, u)
          /\ AllFrom(i, to["sender"]) => AllFrom(i, u)
      <4>1. to["sender"] \in Seq(ToSender)
        BY DEF IInv, TypeInv, QueueOK
      <4>2. AllFrom(i, ms)
        BY <1>5, SilentMessages
      <4> QED  BY <4>1, <4>2, <1>6, <3>1, AppendOrdered
    <3>3. pc'.id = i
      BY <1>1, <1>4 DEF answer, Pcs
    <3>4. AnswersOK(link, pc', u)
      BY <3>2, <3>3, <1>3 DEF AnswersOK
    <3> QED  BY <3>1, <3>4, <2>2
  <2> QED  BY <2>1, <2>2, <1>7
<1> QED  BY <1>3, <1>7, <1>8 DEF answer, IInv, TypeInv

LEMMA ReceiverMessageKeeps ==
    ASSUME IInv, OnReceiverMessage
    PROVE  IInv'
<1>a. SUFFICES ReceiverKept
  BY <1>a, ReceiverKeeps DEF OnReceiverMessage
<1>1. PICK m : m = Head(to["receiver"])
  OBVIOUS
<1>2. PICK q : q = Tail(to["receiver"])
  OBVIOUS
<1>3. m \in ToReceiver /\ q \in Seq(ToReceiver)
  BY <1>1, <1>2 DEF OnReceiverMessage, IInv, TypeInv, QueueOK
<1>4. /\ QueueOK([to EXCEPT !["receiver"] = q])
      /\ [to EXCEPT !["receiver"] = q]["sender"] = to["sender"]
  BY <1>3, ReceiverQueue DEF IInv, TypeInv
<1>5. ASSUME SameConnection(pc'), UNCHANGED sock, RcvOK(rcv'),
             to' = [to EXCEPT !["receiver"] = q]
      PROVE  ReceiverKept
  <2>1. PcOK(pc') /\ AnswersOK(link, pc', to["sender"])
    BY <1>5, SameConnectionKept
  <2>2. sock' \in [Pages -> SockStates]
    BY <1>5 DEF IInv, TypeInv
  <2> QED  BY <2>1, <2>2, <1>4, <1>5 DEF ReceiverKept
<1>6. RcvOK(rcv)
  BY DEF IInv, TypeInv
<1>7. CASE OnReceiverWelcome(m, q)
  <2>1. sock' \in [Pages -> SockStates]
    BY <1>7 DEF OnReceiverWelcome, IInv, TypeInv, SockStates
  <2>2. m.online \in BOOLEAN
    BY <1>7, <1>3, ReceiverMessages DEF OnReceiverWelcome
  <2>3. RcvOK(rcv')
    BY <2>2, <1>6, <1>7 DEF OnReceiverWelcome, RcvOK
  <2>4. PcOK(pc) /\ AnswersOK(link, pc, to["sender"])
    BY SameConnectionKept DEF SameConnection
  <2> QED  BY <2>1, <2>3, <2>4, <1>4, <1>7 DEF ReceiverKept, OnReceiverWelcome
<1>8. CASE OnMaster(m, q)
  <2>1. m.online \in BOOLEAN
    BY <1>8, <1>3, ReceiverMessages DEF OnMaster
  <2>2. PICK r : r = [rcv EXCEPT !.senderOnline = m.online]
    OBVIOUS
  <2>3. PICK r0 : r0 = [r EXCEPT !.restarts = 0]
    OBVIOUS
  <2>4. RcvOK(r) /\ RcvOK(r0)
    <3>1. 0 \in 0 .. MAX_RESTARTS
      BY NegotiationAssumption
    <3> QED  BY <3>1, <2>1, <2>2, <2>3, <1>6 DEF RcvOK
  <2>5. CASE requestRestart(r0, pc, q)
    BY <2>4, <2>5, <1>3, RequestRestartKeeps DEF SameConnection
  <2>6. CASE /\ rcv' = r
             /\ to' = [to EXCEPT !["receiver"] = q]
             /\ UNCHANGED <<pc, sock>>
    BY <2>4, <2>6, <1>5 DEF SameConnection
  <2> QED  BY <2>2, <2>3, <2>5, <2>6, <1>8 DEF OnMaster
<1>9. CASE OnOffer(m, q)
  <2>1. m.link \in Ids
    BY <1>9, <1>3, ReceiverMessages DEF OnOffer
  <2>2. CASE pc' = NewPc(Fresh(PcsNamed), m.link)
    <3>1. PICK c : c = NewPc(Fresh(PcsNamed), m.link)
      OBVIOUS
    <3>2. c \in Pcs /\ c.id \notin PcsNamed
      BY <3>1, <2>1, NewPcTyped DEF IInv
    <3>3. Ordered(c.id, to["sender"]) /\ (link # NoLink => link.remote # c.id)
      BY <3>2, NewPcUnanswered DEF IInv
    <3>4. PcOK(c) /\ AnswersOK(link, c, to["sender"])
      BY <3>2, <3>3 DEF PcOK, AnswersOK
    <3> QED  BY <3>1, <3>4, <2>2, <1>4, <1>6, <1>9
               DEF ReceiverKept, OnOffer, IInv, TypeInv
  <2>3. CASE /\ ~(pc.link # m.link \/ pc.ice \in {"failed", "closed"})
             /\ pc' = [pc EXCEPT !.setting = TRUE]
    <3>1. pc # NoPc /\ pc \in Pcs
      BY <2>1, <2>3, PcIs DEF IInv, NoPc, Ids
    <3>2. SameConnection(pc')
      BY <3>1, <2>3 DEF SameConnection, Pcs
    <3> QED  BY <3>2, <1>5, <1>6, <1>9 DEF OnOffer
  <2> QED  BY <2>2, <2>3, <1>9 DEF OnOffer
<1>10. CASE OnSenderIce(m, q)
  <2>1. SameConnection(pc')
    <3>1. CASE pc' = pc
      BY <3>1 DEF SameConnection
    <3>2. CASE pc # NoPc /\ pc' = [pc EXCEPT !.cand = IF pc.remote THEN "added" ELSE "queued"]
      <4>1. pc \in Pcs
        BY <3>2, PcIs DEF IInv
      <4> QED  BY <3>2, <4>1 DEF SameConnection, Pcs
    <3> QED  BY <3>1, <3>2, <1>10 DEF OnSenderIce
  <2> QED  BY <2>1, <1>5, <1>6, <1>10 DEF OnSenderIce
<1>11. OnReceiverWelcome(m, q) \/ OnMaster(m, q) \/ OnOffer(m, q) \/ OnSenderIce(m, q)
  BY <1>1, <1>2 DEF OnReceiverMessage
<1> QED  BY <1>7, <1>8, <1>9, <1>10, <1>11

-----------------------------------------------------------------------------
(* The theorems.                                                           *)

LEMMA InitInv == Init => IInv
<1> SUFFICES ASSUME Init PROVE IInv
  OBVIOUS
<1>1. sock \in [Pages -> SockStates]
  BY DEF Init, Pages, SockStates
<1>2. QueueOK(to)
  BY DEF Init, QueueOK, Pages
<1>3. LinkOK(link) /\ TimerOff(link)
  BY CloseTyped DEF Init
<1>4. PcOK(pc) /\ AnswersOK(link, pc, to["sender"])
  BY DEF Init, PcOK, AnswersOK
<1>5. spent \in [FaultKinds -> 0 .. Faults]
  <2>1. 0 \in 0 .. Faults
    BY NegotiationAssumption
  <2> QED  BY <2>1 DEF Init
<1> QED  BY <1>1, <1>2, <1>3, <1>4, <1>5, NewReceiverOK DEF Init, IInv, TypeInv

LEMMA NextInv == IInv /\ [Next]_vars => IInv'
<1> SUFFICES ASSUME IInv, [Next]_vars PROVE IInv'
  OBVIOUS
<1>1. CASE Progress
  BY <1>1, SenderMessageKeeps, ReceiverMessageKeeps, OfferKeeps, AnswerKeeps,
     SenderOpensKeeps, SenderIceReturnsKeeps, SenderIceDisconnectsKeeps,
     SenderChannelClosesKeeps, ReceiverOpensKeeps, ReceiverIceReturnsKeeps,
     ReceiverIceDisconnectsKeeps, ReceiverChannelClosesKeeps
     DEF Progress
<1>2. CASE SenderTimer
  BY <1>2, DisconnectTimeoutKeeps, SenderIceFailsKeeps, ConnectTimeoutKeeps
     DEF SenderTimer
<1>3. CASE ReceiverTimer
  BY <1>3, ReceiverIceFailsKeeps, WatchdogKeeps DEF ReceiverTimer
<1>4. CASE \E p \in Pages : PageNotices(p) \/ RoomNotices(p) \/ Reconnect(p)
  BY <1>4, PageNoticesKeeps, RoomNoticesKeeps, ReconnectKeeps
<1>5. CASE PathReturns
  BY <1>5, PathReturnsKeeps
<1>6. CASE Environment
  BY <1>6, DropKeeps, OutageKeeps, SenderReloadsKeeps, ReceiverReloadsKeeps,
     LeaveKeeps DEF Environment
<1>7. CASE UNCHANGED vars
  BY <1>7 DEF vars, IInv, TypeInv
<1> QED  BY <1>1, <1>2, <1>3, <1>4, <1>5, <1>6, <1>7 DEF Next, System

LEMMA InvHolds == Spec => []IInv
  BY InitInv, NextInv, PTL DEF Spec

\* The fields and messages of the negotiation have the types the code gives
\* them: attempts and ICE restarts stay within their limits (sender.ts:179,
\* receiver.ts:279), and connections can be named for ever.
THEOREM TypesHold == Spec => []TypeOK
<1>1. IInv => TypeOK
  BY TypeInvTypeOK DEF IInv
<1> QED  BY <1>1, InvHolds, PTL

-----------------------------------------------------------------------------
(* An established connection.                                              *)

NoRestart(q) == \A k \in 1 .. Len(q) : q[k] # Restart

NoOffer(q) == \A k \in 1 .. Len(q) : q[k].t # "offer"

LEMMA TailQuiet ==
    ASSUME NEW S, NEW q \in Seq(S), q # <<>>
    PROVE  /\ NoRestart(q) => NoRestart(Tail(q)) /\ Head(q) # Restart
           /\ NoOffer(q) => NoOffer(Tail(q)) /\ Head(q).t # "offer"
<1>1. PICK n \in Nat : n = Len(q)
  OBVIOUS
<1>2. n > 0 /\ 1 \in 1 .. n /\ Head(q) = q[1]
  BY <1>1
<1>3. Len(Tail(q)) = n - 1 /\ \A k \in 1 .. n - 1 : Tail(q)[k] = q[k + 1]
  BY <1>1
<1>4. \A k \in 1 .. n - 1 : k + 1 \in 1 .. n
  OBVIOUS
<1> QED  BY <1>1, <1>2, <1>3, <1>4 DEF NoRestart, NoOffer

LEMMA AppendQuiet ==
    ASSUME NEW S, NEW q \in Seq(S), NEW s \in Seq(S)
    PROVE  /\ NoRestart(q) /\ NoRestart(s) => NoRestart(q \o s)
           /\ NoOffer(q) /\ NoOffer(s) => NoOffer(q \o s)
<1>1. PICK n \in Nat, l \in Nat : n = Len(q) /\ l = Len(s)
  OBVIOUS
<1>2. /\ Len(q \o s) = n + l
      /\ \A k \in 1 .. n : (q \o s)[k] = q[k]
      /\ \A k \in n + 1 .. n + l : (q \o s)[k] = s[k - n]
  BY <1>1
<1>3. \A k \in 1 .. n + l : k \in 1 .. n \/ (k \in n + 1 .. n + l /\ k - n \in 1 .. l)
  OBVIOUS
<1> QED  BY <1>1, <1>2, <1>3 DEF NoRestart, NoOffer

LEMMA EmptyQuiet == NoRestart(<<>>) /\ NoOffer(<<>>)
  BY DEF NoRestart, NoOffer

\* What the room says of one page to the other, and an answer, ask for no
\* negotiation.
LEMMA QuietMessages ==
    /\ NoRestart(<<Join>>) /\ NoRestart(<<Leave>>)
    /\ \A b \in BOOLEAN :
           /\ NoRestart(<<WelcomeMaster(b)>>)
           /\ NoOffer(<<MasterMsg(b)>>) /\ NoOffer(<<WelcomePeer(b)>>)
    /\ \A l, i : NoRestart(<<Answer(l, i), IceOfPc(i)>>)
<1>1. Join # Restart /\ Leave # Restart
  <2>1. Join.t = "join" /\ Leave.t = "leave" /\ Restart.t = "restart"
    BY DEF Join, Leave, Restart
  <2> QED  BY <2>1
<1>2. \A b \in BOOLEAN : /\ WelcomeMaster(b) # Restart
                         /\ MasterMsg(b).t # "offer" /\ WelcomePeer(b).t # "offer"
  <2>1. Restart.t = "restart"
    BY DEF Restart
  <2>2. \A b \in BOOLEAN : WelcomeMaster(b).t = "welcome"
    BY DEF WelcomeMaster
  <2> QED  BY <2>1, <2>2 DEF MasterMsg, WelcomePeer
<1>3. \A l, i : Answer(l, i) # Restart /\ IceOfPc(i) # Restart
  <2>1. Restart.t = "restart"
    BY DEF Restart
  <2>2. \A l, i : Answer(l, i).t = "answer" /\ IceOfPc(i).t = "ice"
    BY DEF Answer, IceOfPc
  <2> QED  BY <2>1, <2>2
<1> QED  BY <1>1, <1>2, <1>3 DEF NoRestart, NoOffer

\* Settled, field by field.
LEMMA SettledIs ==
    ASSUME Settled
    PROVE  /\ path /\ link # NoLink /\ pc # NoPc /\ pc.link = link.id
           /\ pc.remote /\ link.remote = pc.id
           /\ link.ice = "connected" /\ link.open /\ ~link.need
           /\ pc.ice = "connected" /\ pc.dc = "open"
           /\ NoRestart(to["sender"]) /\ NoOffer(to["receiver"])
<1>1. NoRestart(to["sender"])
  BY DEF Settled, SentTo, NoRestart
<1>2. NoOffer(to["receiver"])
  BY DEF Settled, SentTo, NoOffer
<1> QED  BY <1>1, <1>2 DEF Settled, Paired, SenderConnected, Healthy

LEMMA SettledKept ==
    ASSUME Settled,
           path' = path,
           link' # NoLink /\ link'.id = link.id /\ link'.remote = link.remote,
           link'.ice = link.ice /\ link'.open = link.open /\ ~link'.need,
           pc' # NoPc /\ pc'.id = pc.id /\ pc'.link = pc.link /\ pc'.remote,
           pc'.ice = pc.ice /\ pc'.dc = pc.dc,
           NoRestart(to'["sender"]) /\ NoOffer(to'["receiver"])
    PROVE  Settled'
<1>1. SenderConnected' /\ Healthy' /\ Paired'
  BY SettledIs DEF Paired, SenderConnected, Healthy
<1>2. /\ Restart \notin SentTo("sender")'
      /\ \A m \in SentTo("receiver")' : m.t # "offer"
  BY DEF SentTo, NoRestart, NoOffer
<1> QED  BY <1>1, <1>2 DEF Settled

LEMMA UntouchedSettled ==
    ASSUME Settled, UNCHANGED <<path, link, pc>>,
           NoRestart(to'["sender"]) /\ NoOffer(to'["receiver"])
    PROVE  Settled'
  BY SettledIs, SettledKept

\* Sockets that break, are noticed and are replaced.
LEMMA SocketsSettled ==
    ASSUME IInv, Settled, NEW p \in Pages,
           Drop(p) \/ PageNotices(p) \/ RoomNotices(p) \/ Reconnect(p)
    PROVE  Settled'
<1>1. UNCHANGED <<path, link, pc>>
  BY DEF Drop, PageNotices, RoomNotices, Reconnect
<1>2. PICK qs \in Seq(ToSender), qr \in Seq(ToReceiver) :
          qs = to["sender"] /\ qr = to["receiver"]
  BY DEF IInv, TypeInv, QueueOK
<1>3. NoRestart(qs) /\ NoOffer(qr)
  BY <1>2, SettledIs
<1>4. QueueOK(to)
  BY DEF IInv, TypeInv
<1>5. SUFFICES NoRestart(to'["sender"]) /\ NoOffer(to'["receiver"])
  BY <1>1, <1>5, UntouchedSettled
<1>6. CASE Drop(p)
  <2>1. \A u \in Pages : to'[u] = to[u] \/ to'[u] = <<>>
    BY <1>4, <1>6 DEF Drop, QueueOK
  <2>2. /\ to'["sender"] = qs \/ to'["sender"] = <<>>
        /\ to'["receiver"] = qr \/ to'["receiver"] = <<>>
    BY <2>1, <1>2 DEF Pages
  <2> QED  BY <2>2, <1>3, EmptyQuiet
<1>7. CASE PageNotices(p)
  BY <1>2, <1>3, <1>7 DEF PageNotices
<1>8. ASSUME NEW m \in ToReceiver, NoOffer(<<m>>)
      PROVE  NoOffer(qr \o <<m>>)
  <2>1. <<m>> \in Seq(ToReceiver)
    BY OneMessage
  <2> QED  BY <2>1, <1>3, <1>8, AppendQuiet
<1>9. ASSUME NEW m \in ToSender, NoRestart(<<m>>)
      PROVE  NoRestart(qs \o <<m>>)
  <2>1. <<m>> \in Seq(ToSender)
    BY OneMessage
  <2> QED  BY <2>1, <1>3, <1>9, AppendQuiet
<1>10. /\ MasterMsg(TRUE) \in ToReceiver /\ MasterMsg(FALSE) \in ToReceiver
       /\ Leave \in ToSender /\ Join \in ToSender
       /\ \A b \in BOOLEAN : WelcomePeer(b) \in ToReceiver /\ WelcomeMaster(b) \in ToSender
  BY MessagesTyped
<1>11. CASE RoomNotices(p)
  <2>1. CASE p = "sender"
    <3>1. to' = Told("receiver", <<MasterMsg(FALSE)>>)
      BY <2>1, <1>11 DEF RoomNotices, Other, Absence
    <3>2. <<MasterMsg(FALSE)>> \in Seq(ToReceiver)
      BY <1>10, OneMessage
    <3>3. /\ to'["sender"] = qs
          /\ to'["receiver"] = qr \/ to'["receiver"] = qr \o <<MasterMsg(FALSE)>>
      BY <3>1, <3>2, <1>2, <1>4, ToldReceiver
    <3>4. NoOffer(qr \o <<MasterMsg(FALSE)>>)
      BY <1>8, <1>10, QuietMessages
    <3> QED  BY <3>3, <3>4, <1>3
  <2>2. CASE p = "receiver"
    <3>1. to' = Told("sender", <<Leave>>)
      BY <2>2, <1>11 DEF RoomNotices, Other, Absence
    <3>2. <<Leave>> \in Seq(ToSender)
      BY <1>10, OneMessage
    <3>3. /\ to'["receiver"] = qr
          /\ to'["sender"] = qs \/ to'["sender"] = qs \o <<Leave>>
      BY <3>1, <3>2, <1>2, <1>4, ToldSender
    <3>4. NoRestart(qs \o <<Leave>>)
      BY <1>9, <1>10, QuietMessages
    <3> QED  BY <3>3, <3>4, <1>3
  <2> QED  BY <2>1, <2>2 DEF Pages
<1>12. CASE Reconnect(p)
  <2>1. PICK b \in BOOLEAN, c \in BOOLEAN :
            b = Present("receiver") /\ c = Present("sender")
    <3>1. Present("receiver") \in BOOLEAN /\ Present("sender") \in BOOLEAN
      BY DEF Present
    <3> QED  BY <3>1, Zenon
  <2>2. CASE p = "sender"
    <3>1. PICK t : t = Told("receiver", <<MasterMsg(TRUE)>>)
      OBVIOUS
    <3>2. <<MasterMsg(TRUE)>> \in Seq(ToReceiver) /\ <<WelcomeMaster(b)>> \in Seq(ToSender)
      BY <1>10, OneMessage
    <3>3. /\ QueueOK(t)
          /\ t["receiver"] = qr \/ t["receiver"] = qr \o <<MasterMsg(TRUE)>>
      BY <3>1, <3>2, <1>2, <1>4, ToldReceiver
    <3>4. to' = [t EXCEPT !["sender"] = <<WelcomeMaster(b)>>]
      BY <2>2, <3>1, <2>1, <1>12 DEF Reconnect
    <3>5. to'["sender"] = <<WelcomeMaster(b)>> /\ to'["receiver"] = t["receiver"]
      BY <3>2, <3>3, <3>4, SenderQueue
    <3>6. NoOffer(qr \o <<MasterMsg(TRUE)>>)
      BY <1>8, <1>10, QuietMessages
    <3> QED  BY <3>3, <3>5, <3>6, <1>3, QuietMessages
  <2>3. CASE p = "receiver"
    <3>1. PICK t : t = Told("sender", <<Join>>)
      OBVIOUS
    <3>2. <<Join>> \in Seq(ToSender) /\ <<WelcomePeer(c)>> \in Seq(ToReceiver)
      BY <1>10, OneMessage
    <3>3. /\ QueueOK(t)
          /\ t["sender"] = qs \/ t["sender"] = qs \o <<Join>>
      BY <3>1, <3>2, <1>2, <1>4, ToldSender
    <3>4. to' = [t EXCEPT !["receiver"] = <<WelcomePeer(c)>>]
      BY <2>3, <3>1, <2>1, <1>12 DEF Reconnect
    <3>5. to'["receiver"] = <<WelcomePeer(c)>> /\ to'["sender"] = t["sender"]
      BY <3>2, <3>3, <3>4, ReceiverQueue
    <3>6. NoRestart(qs \o <<Join>>)
      BY <1>9, <1>10, QuietMessages
    <3> QED  BY <3>3, <3>5, <3>6, <1>3, QuietMessages
  <2> QED  BY <2>2, <2>3 DEF Pages
<1> QED  BY <1>6, <1>7, <1>11, <1>12

\* The sender is told that the receiver came or went, or hears an answer: it
\* keeps the link, and the answer is of the connection it has.
LEMMA SenderMessageSettled ==
    ASSUME IInv, Settled, OnSenderMessage
    PROVE  Settled'
<1>1. PICK q \in Seq(ToSender) : q = to["sender"]
  BY DEF IInv, TypeInv, QueueOK
<1>2. PICK m : m = Head(q)
  OBVIOUS
<1>3. q # <<>> /\ Tail(q) \in Seq(ToSender) /\ m \in ToSender
  BY <1>1, <1>2 DEF OnSenderMessage
<1>4. link \in Links /\ link # NoLink /\ pc # NoPc
  BY SettledIs, PcIs DEF IInv
<1>5. NoRestart(Tail(q)) /\ m # Restart
  BY <1>1, <1>2, <1>3, TailQuiet, SettledIs
<1>6. to'["sender"] = Tail(q) /\ to'["receiver"] = to["receiver"]
  <2>1. to' = [to EXCEPT !["sender"] = Tail(q)]
    BY <1>1 DEF OnSenderMessage
  <2> QED  BY <2>1, <1>3, SenderQueue DEF IInv, TypeInv
<1>7. SenderConnected
  BY DEF Settled
<1>8. /\ link' # NoLink /\ link'.id = link.id /\ link'.remote = link.remote
      /\ link'.ice = link.ice /\ link'.open = link.open /\ link'.need = link.need
  <2>1. CASE link' = link
    BY <2>1, <1>4
  <2>2. CASE \E b \in BOOLEAN : link' = [link EXCEPT !.gone = b]
    <3>1. link' \in Links /\ link'.id = link.id /\ link'.remote = link.remote
            /\ link'.ice = link.ice /\ link'.open = link.open /\ link'.need = link.need
      BY <2>2, <1>4 DEF Links
    <3> QED  BY <3>1, LinkFields
  <2>3. CASE OnSenderWelcome(m) \/ OnJoin(m) \/ OnLeave(m)
    <3>1. \/ link' = link
          \/ link' = [link EXCEPT !.gone = FALSE]
          \/ link' = [link EXCEPT !.gone = TRUE]
      BY <2>3, <1>7 DEF OnSenderWelcome, OnJoin, OnLeave, peerJoined
    <3> QED  BY <3>1, <2>1, <2>2
  <2>4. CASE OnRestart(m)
    <3>1. m = Restart
      BY <2>4, <1>3 DEF OnRestart, ToSender, Restart
    <3> QED  BY <3>1, <1>5
  <2>5. CASE OnAnswer(m)
    <3>1. m.pc = pc.id
      <4>1. AllFrom(pc.id, q)
        BY <1>1, <1>4, SettledIs DEF IInv, AnswersOK
      <4>2. 1 \in 1 .. Len(q) /\ q[1] = m
        BY <1>2, <1>3
      <4>3. 1 \in Answers(q)
        BY <4>2, <2>5 DEF Answers, OnAnswer
      <4> QED  BY <4>1, <4>2, <4>3 DEF AllFrom
    <3>2. CASE link.sig # "have-local-offer"
      BY <3>2, <2>1, <2>5, <1>4 DEF OnAnswer
    <3>3. CASE link.sig = "have-local-offer"
      <4>1. link' = [link EXCEPT !.sig = "stable",
                                 !.remote = m.pc,
                                 !.heard = @ \cap {m.pc},
                                 !.ice = IF @ = "failed" THEN "checking" ELSE @]
        BY <3>3, <2>5, <1>4 DEF OnAnswer
      <4>2. link.remote = pc.id /\ link.ice = "connected" /\ pc.id \in Ids
        BY SettledIs, PcIs DEF IInv, Pcs
      <4>3. link' \in Links /\ link'.id = link.id /\ link'.remote = link.remote
              /\ link'.ice = link.ice /\ link'.open = link.open /\ link'.need = link.need
        BY <4>1, <4>2, <3>1, <1>4 DEF Links, IceStates
      <4> QED  BY <4>3, LinkFields
    <3> QED  BY <3>2, <3>3
  <2>6. CASE OnReceiverIce(m)
    <3>1. CASE link' = link
      BY <3>1, <1>4
    <3>2. CASE link' = [link EXCEPT !.heard = @ \cup {m.pc}]
      <4>1. m.pc \in Ids
        BY <2>6, <1>3, SenderMessages DEF OnReceiverIce
      <4>2. link' \in Links /\ link'.id = link.id /\ link'.remote = link.remote
              /\ link'.ice = link.ice /\ link'.open = link.open /\ link'.need = link.need
        BY <4>1, <3>2, <1>4 DEF Links
      <4> QED  BY <4>2, LinkFields
    <3> QED  BY <3>1, <3>2, <2>6 DEF OnReceiverIce
  <2> QED  BY <2>3, <2>4, <2>5, <2>6, <1>1, <1>2 DEF OnSenderMessage
<1>9. path' = path /\ pc' = pc
  BY DEF OnSenderMessage
<1> QED  BY <1>5, <1>6, <1>8, <1>9, SettledIs, SettledKept

\* The receiver is told that the sender came or went, or hears a candidate.
LEMMA ReceiverMessageSettled ==
    ASSUME IInv, Settled, OnReceiverMessage
    PROVE  Settled'
<1>1. PICK q \in Seq(ToReceiver) : q = to["receiver"]
  BY DEF IInv, TypeInv, QueueOK
<1>2. PICK m : m = Head(q)
  OBVIOUS
<1>3. q # <<>> /\ Tail(q) \in Seq(ToReceiver)
  BY <1>1 DEF OnReceiverMessage
<1>4. pc \in Pcs /\ pc # NoPc /\ Healthy
  BY SettledIs, PcIs DEF IInv, Settled
<1>5. NoOffer(Tail(q)) /\ m.t # "offer"
  BY <1>1, <1>2, <1>3, TailQuiet, SettledIs
<1>6. OnReceiverWelcome(m, Tail(q)) \/ OnMaster(m, Tail(q)) \/ OnSenderIce(m, Tail(q))
  BY <1>1, <1>2, <1>5 DEF OnReceiverMessage, OnOffer
<1>7. to' = [to EXCEPT !["receiver"] = Tail(q)]
  BY <1>4, <1>6 DEF OnReceiverWelcome, OnMaster, OnSenderIce
<1>8. to'["receiver"] = Tail(q) /\ to'["sender"] = to["sender"]
  BY <1>3, <1>7, ReceiverQueue DEF IInv, TypeInv
<1>9. \/ pc' = pc
      \/ \E c \in {"none", "queued", "added"} : pc' = [pc EXCEPT !.cand = c]
  BY <1>4, <1>6 DEF OnReceiverWelcome, OnMaster, OnSenderIce
<1>10. pc' \in Pcs /\ pc'.id = pc.id /\ pc'.link = pc.link /\ pc'.remote = pc.remote
           /\ pc'.ice = pc.ice /\ pc'.dc = pc.dc
  BY <1>4, <1>9 DEF Pcs
<1>11. pc' # NoPc
  BY <1>10 DEF Pcs, NoPc, Ids
<1>12. path' = path /\ link' = link
  BY DEF OnReceiverMessage
<1> QED  BY <1>5, <1>8, <1>10, <1>11, <1>12, SettledIs, SettledKept

\* An offer of an ICE restart is answered by the connection there is.
LEMMA AnswerSettled ==
    ASSUME IInv, Settled, answer
    PROVE  Settled'
<1>1. pc \in Pcs /\ pc # NoPc
  BY SettledIs, PcIs DEF IInv
<1>2. pc' \in Pcs /\ pc'.id = pc.id /\ pc'.link = pc.link /\ pc'.remote
          /\ pc'.ice = pc.ice /\ pc'.dc = pc.dc
  BY <1>1 DEF answer, Pcs
<1>3. pc' # NoPc
  BY <1>2 DEF Pcs, NoPc, Ids
<1>4. PICK i \in Ids, l \in Ids : i = pc.id /\ l = pc.link
  BY <1>1 DEF Pcs
<1>5. PICK ms : ms = <<Answer(l, i), IceOfPc(i)>>
  OBVIOUS
<1>6. ms \in Seq(ToSender) /\ NoRestart(ms)
  <2>1. Answer(l, i) \in ToSender /\ IceOfPc(i) \in ToSender
    BY MessagesTyped
  <2> QED  BY <2>1, <1>5, QuietMessages
<1>7. PICK q \in Seq(ToSender) : q = to["sender"]
  BY DEF IInv, TypeInv, QueueOK
<1>8. /\ to'["sender"] = q \/ to'["sender"] = q \o ms
      /\ to'["receiver"] = to["receiver"]
  <2>1. to' = Signalled("receiver", ms)
    BY <1>4, <1>5 DEF answer
  <2> QED  BY <2>1, <1>6, <1>7, SignalledToSender DEF IInv, TypeInv
<1>9. NoRestart(to'["sender"])
  <2>1. NoRestart(q)
    BY <1>7, SettledIs
  <2>2. NoRestart(q \o ms)
    BY <2>1, <1>6, AppendQuiet
  <2> QED  BY <2>1, <2>2, <1>8
<1>10. path' = path /\ link' = link
  BY DEF answer
<1> QED  BY <1>2, <1>3, <1>8, <1>9, <1>10, SettledIs, SettledKept

\* No timer is running, no end of the connection has reason to give it up.
LEMMA NothingElseSettled ==
    ASSUME IInv, Settled
    PROVE  /\ ~offer /\ ~SenderOpens /\ ~SenderIceReturns
           /\ ~SenderIceDisconnects /\ ~SenderChannelCloses
           /\ ~ReceiverOpens /\ ~ReceiverIceReturns
           /\ ~ReceiverIceDisconnects /\ ~ReceiverChannelCloses
           /\ ~DisconnectTimeout /\ ~SenderIceFails /\ ~ConnectTimeout
           /\ ~ReceiverIceFails /\ ~PathReturns
<1>1. Paired
  BY DEF Settled
<1>2. link.timer = "none"
  BY SettledIs DEF IInv, TimerOff
<1>3. ~offer
  BY SettledIs DEF offer, OfferPending
<1>4. ~SenderOpens /\ ~SenderIceReturns /\ ~SenderIceDisconnects /\ ~SenderChannelCloses
  BY SettledIs, <1>1 DEF SenderOpens, SenderMayOpen, SenderIceReturns,
     SenderIceDisconnects, SenderChannelCloses, SenderMayReturn, SenderMayLose,
     SenderHearsClose
<1>5. ~ReceiverOpens /\ ~ReceiverIceReturns /\ ~ReceiverIceDisconnects
          /\ ~ReceiverChannelCloses
  BY SettledIs, <1>1 DEF ReceiverOpens, ReceiverMayOpen, ReceiverIceReturns,
     ReceiverIceDisconnects, ReceiverChannelCloses, ReceiverMayReturn,
     ReceiverMayLose, ReceiverHearsClose
<1>6. ~DisconnectTimeout /\ ~ConnectTimeout
  BY <1>2 DEF DisconnectTimeout, ConnectTimeout
<1>7. ~SenderIceFails /\ ~ReceiverIceFails
  BY <1>1 DEF SenderIceFails, ReceiverIceFails
<1>8. ~PathReturns
  BY SettledIs DEF PathReturns
<1> QED  BY <1>3, <1>4, <1>5, <1>6, <1>7, <1>8

LEMMA WatchdogSettled ==
    ASSUME Settled, Watchdog
    PROVE  Settled'
<1>1. UNCHANGED <<pc, to, path, link>>
  BY DEF Watchdog, Settled
<1> QED  BY <1>1, SettledIs, UntouchedSettled

\* Outages, reloads and departures are counted.
LEMMA FaultsCounted ==
    ASSUME IInv
    PROVE  /\ Outage => spent'["outages"] # spent["outages"]
           /\ SenderReloads => spent'["senderReloads"] # spent["senderReloads"]
           /\ ReceiverReloads => spent'["receiverReloads"] # spent["receiverReloads"]
           /\ leave => spent'["leaves"] # spent["leaves"]
<1>1. ASSUME NEW k \in FaultKinds, Spend(k) PROVE spent'[k] # spent[k]
  <2>1. PICK n \in Nat : n = spent[k]
    BY DEF IInv, TypeInv
  <2>2. spent'[k] = n + 1
    BY <1>1, <2>1 DEF Spend, IInv, TypeInv
  <2> QED  BY <2>1, <2>2
<1> QED  BY <1>1 DEF Outage, SenderReloads, ReceiverReloads, leave, FaultKinds

\* "Keep established connections": no sequence of dropped sockets, noticed
\* late or soon and replaced on either side, ends a settled connection or has
\* it negotiated again (sender.ts:336-343, 405-415; receiver.ts:133-164).  It
\* rests on the order of answers: without it, a late answer of an earlier
\* connection would be applied to the link.
THEOREM DropsNeverDisturb == Spec => DropsDoNotDisturb
<1>1. ASSUME IInv, [Next]_vars, Settled,
             \A k \in FaultKinds \ {"drops"} : spent'[k] = spent[k]
      PROVE  Settled'
  <2>1. CASE Progress
    BY <2>1, <1>1, SenderMessageSettled, ReceiverMessageSettled, AnswerSettled,
       NothingElseSettled DEF Progress
  <2>2. CASE SenderTimer
    BY <2>2, <1>1, NothingElseSettled DEF SenderTimer
  <2>3. CASE ReceiverTimer
    BY <2>3, <1>1, NothingElseSettled, WatchdogSettled DEF ReceiverTimer
  <2>4. CASE \E p \in Pages : PageNotices(p) \/ RoomNotices(p) \/ Reconnect(p)
    BY <2>4, <1>1, SocketsSettled
  <2>5. CASE PathReturns
    BY <2>5, <1>1, NothingElseSettled
  <2>6. CASE Environment
    <3>1. ~Outage /\ ~SenderReloads /\ ~ReceiverReloads /\ ~leave
      BY <1>1, FaultsCounted DEF FaultKinds
    <3> QED  BY <3>1, <2>6, <1>1, SocketsSettled DEF Environment
  <2>7. CASE UNCHANGED vars
    <3>1. UNCHANGED <<path, link, pc, to>>
      BY <2>7 DEF vars
    <3> QED  BY <3>1, <1>1, SettledIs, UntouchedSettled
  <2> QED  BY <1>1, <2>1, <2>2, <2>3, <2>4, <2>5, <2>6, <2>7 DEF Next, System
<1>2. ASSUME IInv, [Next]_vars
      PROVE  [/\ Settled
              /\ \A k \in FaultKinds \ {"drops"} : spent'[k] = spent[k]
              => Settled']_vars
  BY <1>1, <1>2
<1> QED  BY <1>2, InvHolds, PTL DEF Spec, DropsDoNotDisturb

-----------------------------------------------------------------------------
(* What a queue contains, in what order.                                   *)

None(q, S) == \A k \in 1 .. Len(q) : q[k] \notin S

AtMostOne(q, S) ==
    \A j, k \in 1 .. Len(q) : q[j] \in S /\ q[k] \in S => j = k

NotAfter(q, A, B) ==
    \A j, k \in 1 .. Len(q) : j < k /\ q[j] \in A => q[k] \notin B

LEMMA EmptyHas ==
    ASSUME NEW S, NEW A, NEW B
    PROVE  None(<<>>, S) /\ AtMostOne(<<>>, S) /\ NotAfter(<<>>, A, B)
  BY DEF None, AtMostOne, NotAfter

LEMMA OneHas ==
    ASSUME NEW m, NEW S
    PROVE  /\ None(<<m>>, S) <=> m \notin S
           /\ AtMostOne(<<m>>, S)
<1>1. Len(<<m>>) = 1 /\ <<m>>[1] = m
  OBVIOUS
<1>2. 1 .. 1 = {1}
  OBVIOUS
<1>3. 1 .. Len(<<m>>) = {1}
  BY <1>1, <1>2
<1> QED  BY <1>1, <1>3 DEF None, AtMostOne

LEMMA TwoHas ==
    ASSUME NEW m, NEW n, NEW S
    PROVE  /\ None(<<m, n>>, S) <=> m \notin S /\ n \notin S
           /\ n \notin S => AtMostOne(<<m, n>>, S)
<1>1. Len(<<m, n>>) = 2 /\ <<m, n>>[1] = m /\ <<m, n>>[2] = n
  OBVIOUS
<1>2. 1 .. 2 = {1, 2}
  OBVIOUS
<1>3. 1 .. Len(<<m, n>>) = {1, 2}
  BY <1>1, <1>2
<1> QED  BY <1>1, <1>3 DEF None, AtMostOne

LEMMA TailHas ==
    ASSUME NEW T, NEW q \in Seq(T), q # <<>>, NEW S
    PROVE  /\ Tail(q) \in Seq(T) /\ Head(q) \in T
           /\ None(q, S) => None(Tail(q), S) /\ Head(q) \notin S
           /\ Head(q) \notin S /\ None(Tail(q), S) => None(q, S)
           /\ AtMostOne(q, S) => AtMostOne(Tail(q), S)
           /\ AtMostOne(q, S) /\ Head(q) \in S => None(Tail(q), S)
<1>1. PICK n \in Nat : n = Len(q)
  OBVIOUS
<1>2. n > 0 /\ 1 \in 1 .. n
  BY <1>1
<1>3. Tail(q) \in Seq(T) /\ Len(Tail(q)) = n - 1
        /\ \A k \in 1 .. n - 1 : Tail(q)[k] = q[k + 1] /\ k + 1 \in 1 .. n
  BY <1>1
<1>4. q[1] = Head(q) /\ Head(q) \in T
  BY <1>1, <1>2
<1>5. ASSUME None(q, S) PROVE None(Tail(q), S) /\ Head(q) \notin S
  BY <1>1, <1>2, <1>3, <1>4, <1>5 DEF None
<1>6. ASSUME Head(q) \notin S, None(Tail(q), S) PROVE None(q, S)
  <2>1. SUFFICES ASSUME NEW k \in 1 .. n PROVE q[k] \notin S
    BY <1>1 DEF None
  <2>2. CASE k = 1
    BY <2>2, <1>4, <1>6
  <2>3. CASE k # 1
    <3>1. k - 1 \in 1 .. n - 1 /\ (k - 1) + 1 = k
      BY <2>3
    <3>2. Tail(q)[k - 1] = q[k]
      BY <3>1, <1>3
    <3> QED  BY <3>1, <3>2, <1>3, <1>6 DEF None
  <2> QED  BY <2>2, <2>3
<1>7. ASSUME AtMostOne(q, S) PROVE AtMostOne(Tail(q), S)
  <2>1. SUFFICES ASSUME NEW j \in 1 .. n - 1, NEW k \in 1 .. n - 1,
                        Tail(q)[j] \in S, Tail(q)[k] \in S
                 PROVE  j = k
    BY <1>3 DEF AtMostOne
  <2>2. j + 1 = k + 1
    BY <2>1, <1>1, <1>3, <1>7 DEF AtMostOne
  <2> QED  BY <2>2
<1>8. ASSUME AtMostOne(q, S), Head(q) \in S PROVE None(Tail(q), S)
  <2>1. SUFFICES ASSUME NEW k \in 1 .. n - 1, Tail(q)[k] \in S PROVE FALSE
    BY <1>3 DEF None
  <2>2. k + 1 = 1
    BY <2>1, <1>1, <1>2, <1>3, <1>4, <1>8 DEF AtMostOne
  <2> QED  BY <2>2
<1> QED  BY <1>3, <1>4, <1>5, <1>6, <1>7, <1>8

LEMMA TailNotAfter ==
    ASSUME NEW T, NEW q \in Seq(T), q # <<>>, NEW A, NEW B, NotAfter(q, A, B)
    PROVE  /\ NotAfter(Tail(q), A, B)
           /\ Head(q) \in A => None(Tail(q), B)
<1>1. PICK n \in Nat : n = Len(q)
  OBVIOUS
<1>2. n > 0 /\ 1 \in 1 .. n
  BY <1>1
<1>3. Len(Tail(q)) = n - 1
        /\ \A k \in 1 .. n - 1 : Tail(q)[k] = q[k + 1] /\ k + 1 \in 1 .. n
  BY <1>1
<1>4. q[1] = Head(q)
  BY <1>1, <1>2
<1>5. NotAfter(Tail(q), A, B)
  <2>1. SUFFICES ASSUME NEW j \in 1 .. n - 1, NEW k \in 1 .. n - 1, j < k,
                        Tail(q)[j] \in A
                 PROVE  Tail(q)[k] \notin B
    BY <1>3 DEF NotAfter
  <2>2. j + 1 < k + 1
    BY <2>1
  <2> QED  BY <2>1, <2>2, <1>1, <1>3 DEF NotAfter
<1>6. ASSUME Head(q) \in A PROVE None(Tail(q), B)
  <2>1. SUFFICES ASSUME NEW k \in 1 .. n - 1 PROVE Tail(q)[k] \notin B
    BY <1>3 DEF None
  <2>2. 1 < k + 1
    BY <2>1
  <2> QED  BY <2>1, <2>2, <1>1, <1>2, <1>3, <1>4, <1>6 DEF NotAfter
<1> QED  BY <1>5, <1>6

LEMMA AppendHas ==
    ASSUME NEW T, NEW q \in Seq(T), NEW s \in Seq(T), NEW S
    PROVE  /\ q \o s \in Seq(T)
           /\ None(q, S) /\ None(s, S) <=> None(q \o s, S)
           /\ AtMostOne(q, S) /\ None(s, S) => AtMostOne(q \o s, S)
           /\ None(q, S) /\ AtMostOne(s, S) => AtMostOne(q \o s, S)
<1>1. PICK n \in Nat, l \in Nat : n = Len(q) /\ l = Len(s)
  OBVIOUS
<1>2. /\ q \o s \in Seq(T)
      /\ Len(q \o s) = n + l
      /\ \A k \in 1 .. n : (q \o s)[k] = q[k]
      /\ \A k \in n + 1 .. n + l : (q \o s)[k] = s[k - n]
  BY <1>1
<1>3. \A k \in 1 .. n + l : k \in 1 .. n \/ (k \in n + 1 .. n + l /\ k - n \in 1 .. l)
  OBVIOUS
<1>4. \A k \in 1 .. n : k \in 1 .. n + l
  OBVIOUS
<1>5. \A k \in 1 .. l : k + n \in n + 1 .. n + l /\ k + n \in 1 .. n + l /\ (k + n) - n = k
  OBVIOUS
<1>6. ASSUME None(q, S), None(s, S) PROVE None(q \o s, S)
  BY <1>1, <1>2, <1>3, <1>6 DEF None
<1>7. ASSUME None(q \o s, S) PROVE None(q, S) /\ None(s, S)
  <2>1. None(q, S)
    BY <1>1, <1>2, <1>4, <1>7 DEF None
  <2>2. \A k \in 1 .. l : s[k] = (q \o s)[k + n]
    BY <1>2, <1>5
  <2>3. None(s, S)
    BY <1>1, <1>2, <1>5, <1>7, <2>2 DEF None
  <2> QED  BY <2>1, <2>3
<1>8. ASSUME AtMostOne(q, S), None(s, S) PROVE AtMostOne(q \o s, S)
  <2>1. SUFFICES ASSUME NEW j \in 1 .. n + l, NEW k \in 1 .. n + l,
                        (q \o s)[j] \in S, (q \o s)[k] \in S
                 PROVE  j = k
    BY <1>2 DEF AtMostOne
  <2>2. j \in 1 .. n /\ k \in 1 .. n
    BY <2>1, <1>1, <1>2, <1>3, <1>8 DEF None
  <2> QED  BY <2>1, <2>2, <1>1, <1>2, <1>8 DEF AtMostOne
<1>9. ASSUME None(q, S), AtMostOne(s, S) PROVE AtMostOne(q \o s, S)
  <2>1. SUFFICES ASSUME NEW j \in 1 .. n + l, NEW k \in 1 .. n + l,
                        (q \o s)[j] \in S, (q \o s)[k] \in S
                 PROVE  j = k
    BY <1>2 DEF AtMostOne
  <2>2. /\ j \in n + 1 .. n + l /\ j - n \in 1 .. l /\ s[j - n] \in S
        /\ k \in n + 1 .. n + l /\ k - n \in 1 .. l /\ s[k - n] \in S
    BY <2>1, <1>1, <1>2, <1>3, <1>9 DEF None
  <2>3. j - n = k - n
    BY <2>2, <1>1, <1>9 DEF AtMostOne
  <2> QED  BY <2>3
<1> QED  BY <1>2, <1>6, <1>7, <1>8, <1>9

LEMMA AppendNotAfter ==
    ASSUME NEW T, NEW q \in Seq(T), NEW s \in Seq(T), NEW A, NEW B,
           NotAfter(q, A, B), None(s, B)
    PROVE  NotAfter(q \o s, A, B)
<1>1. PICK n \in Nat, l \in Nat : n = Len(q) /\ l = Len(s)
  OBVIOUS
<1>2. /\ Len(q \o s) = n + l
      /\ \A k \in 1 .. n : (q \o s)[k] = q[k]
      /\ \A k \in n + 1 .. n + l : (q \o s)[k] = s[k - n]
  BY <1>1
<1>3. \A k \in 1 .. n + l : k \in 1 .. n \/ (k \in n + 1 .. n + l /\ k - n \in 1 .. l)
  OBVIOUS
<1>4. SUFFICES ASSUME NEW j \in 1 .. n + l, NEW k \in 1 .. n + l, j < k,
                      (q \o s)[j] \in A, (q \o s)[k] \in B
               PROVE  FALSE
  BY <1>2 DEF NotAfter
<1>5. k \in 1 .. n
  BY <1>1, <1>2, <1>3, <1>4 DEF None
<1>6. j \in 1 .. n
  BY <1>5, <1>4
<1> QED  BY <1>1, <1>2, <1>4, <1>5, <1>6 DEF NotAfter

\* The head of a concatenation is that of its first part, unless it is empty.
LEMMA ConcatHead ==
    ASSUME NEW T, NEW p \in Seq(T), NEW s \in Seq(T), s # <<>>
    PROVE  /\ p \o s # <<>>
           /\ p = <<>> => p \o s = s
           /\ p # <<>> => /\ Head(p \o s) = Head(p)
                          /\ Tail(p \o s) = Tail(p) \o s
                          /\ Tail(p) \in Seq(T)
<1>1. p \o s # <<>>
  OBVIOUS
<1>2. p = <<>> => p \o s = s
  OBVIOUS
<1>3. ASSUME p # <<>>
      PROVE /\ Head(p \o s) = Head(p)
            /\ Tail(p \o s) = Tail(p) \o s
            /\ Tail(p) \in Seq(T)
  BY <1>3
<1> QED  BY <1>1, <1>2, <1>3

-----------------------------------------------------------------------------
(* One round of offer and answer at a time.                                *)

AnswersOf(i) == {m \in ToSender : m.t = "answer" /\ m.pc = i}

OffersOf(i) == {m \in ToReceiver : m.t = "offer" /\ m.link = i}

\* The receiver's connection was made for this link; and the link has taken
\* its answer.
Same(l, c) == l # NoLink /\ c # NoPc /\ c.link = l.id

Applied(l, c) == Same(l, c) /\ l.remote = c.id

Known(l, c) == c.id \in l.heard \/ c.cand = "added"

\* An offer of the link is due or under way.
Due(l, r) == l.need \/ ~None(r, OffersOf(l.id))

RoundOK(l, c, s, r) ==
    /\ l # NoLink =>
           /\ l.need => None(r, OffersOf(l.id))
           /\ AtMostOne(r, OffersOf(l.id))
    /\ Same(l, c) =>
           /\ Due(l, r) => ~c.setting /\ None(s, AnswersOf(c.id))
           /\ c.setting => None(s, AnswersOf(c.id))
           /\ AtMostOne(s, AnswersOf(c.id))
    /\ Applied(l, c) =>
           /\ ~Due(l, r) /\ ~c.setting /\ None(s, AnswersOf(c.id))
           /\ l.sig = "stable" /\ l.ice # "failed"

\* Only a connection with a remote description has answered.
AnsweredOK(l, c, s) ==
    c # NoPc => /\ ~None(s, AnswersOf(c.id)) => c.remote
                /\ l # NoLink /\ l.remote = c.id => c.remote

PcShape(l, c, s) ==
    c # NoPc =>
        /\ c.dc = "none" => c.ice \in {"checking", "failed"}
        /\ c.dc # "none" => c.ice # "checking" /\ c.remote
        /\ c.dc = "open" => c.ice # "failed"
        /\ c.dc = "open" /\ Same(l, c) => Applied(l, c) /\ Known(l, c)
        /\ c.dc = "closed" => ~Same(l, c)
        /\ c.ice = "failed" =>
               ~c.setting /\ None(s, AnswersOf(c.id)) /\ ~Applied(l, c)

LinkShape(l, c, r) ==
    l # NoLink =>
        /\ ~l.open => l.ice \in {"checking", "failed"}
        /\ l.timer = "disconnect" => l.ice = "disconnected"
        /\ l.timer = "connect" => ~l.open
        /\ l.open =>
               /\ l.ice \in {"connected", "disconnected"}
               /\ l.sig = "stable" /\ ~Due(l, r)
               /\ l.remote # 0
               /\ l.remote = c.id => Applied(l, c) /\ Known(l, c)
               /\ Same(l, c) => Applied(l, c)

Conn(l, c, s, r) ==
    RoundOK(l, c, s, r) /\ AnsweredOK(l, c, s) /\ PcShape(l, c, s) /\ LinkShape(l, c, r)

\* The queues may lose messages, and get others.
LEMMA ConnQueues ==
    ASSUME NEW l, NEW c, NEW s, NEW r, NEW s2, NEW r2, Conn(l, c, s, r),
           c # NoPc => /\ None(s, AnswersOf(c.id)) => None(s2, AnswersOf(c.id))
                       /\ AtMostOne(s, AnswersOf(c.id)) => AtMostOne(s2, AnswersOf(c.id)),
           l # NoLink => /\ None(r, OffersOf(l.id)) => None(r2, OffersOf(l.id))
                         /\ AtMostOne(r, OffersOf(l.id)) => AtMostOne(r2, OffersOf(l.id))
    PROVE  Conn(l, c, s2, r2)
<1>1. l # NoLink /\ ~Due(l, r) => ~Due(l, r2)
  BY DEF Due
<1>2. RoundOK(l, c, s2, r2)
  BY <1>1 DEF Conn, RoundOK, Same, Applied
<1>3. AnsweredOK(l, c, s2)
  BY DEF Conn, AnsweredOK
<1>4. PcShape(l, c, s2)
  BY DEF Conn, PcShape
<1>5. LinkShape(l, c, r2)
  BY <1>1 DEF Conn, LinkShape
<1> QED  BY <1>2, <1>3, <1>4, <1>5 DEF Conn

LEMMA ConnNoLink ==
    ASSUME NEW l, NEW c, NEW s, NEW r, Conn(l, c, s, r)
    PROVE  Conn(NoLink, c, s, r)
  BY DEF Conn, RoundOK, AnsweredOK, PcShape, LinkShape, Same, Applied

LEMMA ConnNoPc ==
    ASSUME NEW l, NEW c, NEW s, NEW r, Conn(l, c, s, r)
    PROVE  Conn(l, NoPc, s, r)
<1>1. NoPc.id = 0
  BY DEF NoPc
<1> QED
  BY <1>1 DEF Conn, RoundOK, AnsweredOK, PcShape, LinkShape, Same, Applied

LEMMA ConnNewLink ==
    ASSUME NEW l, NEW c, NEW s, NEW r, NEW i \in Ids, Conn(l, c, s, r),
           c # NoPc => c \in Pcs /\ c.link # i,
           None(r, OffersOf(i))
    PROVE  Conn(NewLink(i), c, s, r)
<1>1. PICK k : k = NewLink(i)
  OBVIOUS
<1>2. /\ k # NoLink /\ k.id = i /\ k.remote = 0 /\ k.open = FALSE
      /\ k.ice = "checking" /\ k.timer = "connect"
  BY <1>1 DEF NewLink, NoLink
<1>3. ~Same(k, c) /\ ~Applied(k, c)
  BY <1>2 DEF Same, Applied
<1>4. c # NoPc => k.remote # c.id
  BY <1>2 DEF Pcs, Ids
<1>5. AtMostOne(r, OffersOf(i))
  BY DEF None, AtMostOne
<1>6. RoundOK(k, c, s, r)
  BY <1>2, <1>3, <1>5 DEF RoundOK
<1>7. AnsweredOK(k, c, s)
  BY <1>4 DEF Conn, AnsweredOK
<1>8. PcShape(k, c, s)
  BY <1>3 DEF Conn, PcShape
<1>9. LinkShape(k, c, r)
  BY <1>2 DEF LinkShape
<1> QED  BY <1>1, <1>6, <1>7, <1>8, <1>9 DEF Conn

LEMMA ConnNewPc ==
    ASSUME NEW l, NEW c, NEW s, NEW r, NEW r2, NEW i \in Ids, NEW j,
           LinkOK(l), Conn(l, c, s, r),
           l # NoLink => l.remote # i,
           None(s, AnswersOf(i)),
           \* what is left once the offer that called for it has been read
           l # NoLink => /\ AtMostOne(r2, OffersOf(l.id))
                         /\ None(r, OffersOf(l.id)) => None(r2, OffersOf(l.id)) /\ j # l.id
                         /\ j = l.id => None(r2, OffersOf(l.id))
    PROVE  Conn(l, NewPc(i, j), s, r2)
<1>1. PICK k : k = NewPc(i, j)
  OBVIOUS
<1>2. /\ k.id = i /\ k.link = j /\ k.setting = TRUE
      /\ k.ice = "checking" /\ k.dc = "none"
  BY <1>1 DEF NewPc
<1>3. ~Applied(l, k)
  BY <1>2 DEF Applied, Same
<1>4. Same(l, k) => l # NoLink /\ ~l.need /\ ~Due(l, r2) /\ ~None(r, OffersOf(l.id))
  BY <1>2 DEF Same, Due, Conn, RoundOK
<1>5. AtMostOne(s, AnswersOf(i))
  BY DEF None, AtMostOne
<1>6. RoundOK(l, k, s, r2)
  <2>1. l # NoLink /\ l.need => None(r2, OffersOf(l.id))
    BY DEF Conn, RoundOK
  <2> QED  BY <2>1, <1>2, <1>3, <1>4, <1>5 DEF RoundOK
<1>7. AnsweredOK(l, k, s)
  BY <1>2 DEF AnsweredOK
<1>8. PcShape(l, k, s)
  BY <1>2 DEF PcShape
<1>9. LinkShape(l, k, r2)
  <2>1. SUFFICES ASSUME l # NoLink PROVE LinkShape(l, k, r2)
    BY DEF LinkShape
  <2>2. ~Due(l, r) => ~Due(l, r2) /\ ~Same(l, k)
    BY <2>1, <1>2 DEF Due, Same
  <2>3. l.remote # k.id
    BY <2>1, <1>2
  <2> QED  BY <2>1, <2>2, <2>3 DEF Conn, LinkShape
<1> QED  BY <1>1, <1>6, <1>7, <1>8, <1>9 DEF Conn

\* The link keeps its name and its descriptions.
LEMMA ConnLink ==
    ASSUME NEW l, NEW k, NEW c, NEW s, NEW r, Conn(l, c, s, r), l # NoLink, k # NoLink,
           k.id = l.id, k.remote = l.remote, k.sig = l.sig, k.need <=> l.need,
           l.heard \subseteq k.heard,
           LinkShape(k, c, r),
           Applied(l, c) => k.ice # "failed"
    PROVE  Conn(k, c, s, r)
<1>1. /\ Same(k, c) <=> Same(l, c)
      /\ Applied(k, c) <=> Applied(l, c)
      /\ Known(l, c) => Known(k, c)
      /\ Due(k, r) <=> Due(l, r)
  BY DEF Same, Applied, Known, Due
<1>2. RoundOK(k, c, s, r)
  BY <1>1 DEF Conn, RoundOK
<1>3. AnsweredOK(k, c, s)
  BY DEF Conn, AnsweredOK
<1>4. PcShape(k, c, s)
  BY <1>1 DEF Conn, PcShape
<1> QED  BY <1>2, <1>3, <1>4 DEF Conn

\* The connection keeps its name and its state in the round.
LEMMA ConnPc ==
    ASSUME NEW l, NEW c, NEW d, NEW s, NEW r, Conn(l, c, s, r), c # NoPc, d # NoPc,
           d.id = c.id, d.link = c.link, d.remote <=> c.remote, d.setting <=> c.setting,
           c.remote /\ Known(l, c) => Known(l, d),
           PcShape(l, d, s)
    PROVE  Conn(l, d, s, r)
<1>1. /\ Same(l, d) <=> Same(l, c)
      /\ Applied(l, d) <=> Applied(l, c)
  BY DEF Same, Applied
<1>2. RoundOK(l, d, s, r)
  BY <1>1 DEF Conn, RoundOK
<1>3. AnsweredOK(l, d, s)
  BY DEF Conn, AnsweredOK
<1>4. LinkShape(l, d, r)
  <2>1. l # NoLink /\ l.remote = c.id => c.remote
    BY DEF Conn, AnsweredOK
  <2> QED  BY <1>1, <2>1 DEF Conn, LinkShape
<1> QED  BY <1>2, <1>3, <1>4 DEF Conn

\* An offer goes out, if it does.
LEMMA ConnOffers ==
    ASSUME NEW l, NEW k, NEW c, NEW s, NEW r, NEW r2, Conn(l, c, s, r), l # NoLink, k # NoLink,
           l.need, ~k.need, k.id = l.id, k.remote = l.remote, k.open <=> l.open,
           k.ice = l.ice, k.timer = l.timer, k.heard = l.heard,
           AtMostOne(r2, OffersOf(l.id))
    PROVE  Conn(k, c, s, r2)
<1>1. /\ Same(k, c) <=> Same(l, c)
      /\ Applied(k, c) <=> Applied(l, c)
      /\ Known(l, c) <=> Known(k, c)
      /\ Due(l, r)
  BY DEF Same, Applied, Known, Due
<1>2. ~Applied(k, c) /\ ~l.open
  BY <1>1 DEF Conn, RoundOK, LinkShape
<1>3. RoundOK(k, c, s, r2)
  BY <1>1, <1>2 DEF Conn, RoundOK
<1>4. AnsweredOK(k, c, s)
  BY DEF Conn, AnsweredOK
<1>5. PcShape(k, c, s)
  BY <1>1 DEF Conn, PcShape
<1>6. LinkShape(k, c, r2)
  BY <1>2 DEF Conn, LinkShape
<1> QED  BY <1>3, <1>4, <1>5, <1>6 DEF Conn

\* A restart of ICE becomes due when nothing of an earlier round is left.
LEMMA ConnRestarts ==
    ASSUME NEW l, NEW k, NEW c, NEW s, NEW r, Conn(l, c, s, r), l # NoLink, k # NoLink,
           k.id = l.id, k.remote = l.remote, k.sig = l.sig, k.heard = l.heard,
           ~l.open, ~k.open, LinkShape(k, c, r), ~Applied(l, c),
           None(r, OffersOf(l.id)),
           c # NoPc => ~c.setting /\ None(s, AnswersOf(c.id))
    PROVE  Conn(k, c, s, r)
<1>1. /\ Same(k, c) <=> Same(l, c)
      /\ ~Applied(k, c)
      /\ Known(l, c) <=> Known(k, c)
  BY DEF Same, Applied, Known
<1>2. RoundOK(k, c, s, r)
  <2>1. AtMostOne(r, OffersOf(k.id)) /\ None(r, OffersOf(k.id))
    BY DEF Conn, RoundOK
  <2>2. Same(k, c) => AtMostOne(s, AnswersOf(c.id))
    BY <1>1 DEF Conn, RoundOK
  <2>3. Same(k, c) => ~c.setting /\ None(s, AnswersOf(c.id))
    BY DEF Same
  <2> QED  BY <2>1, <2>2, <2>3, <1>1 DEF RoundOK
<1>3. AnsweredOK(k, c, s)
  BY DEF Conn, AnsweredOK
<1>4. PcShape(k, c, s)
  BY <1>1 DEF Conn, PcShape, Applied
<1> QED  BY <1>2, <1>3, <1>4 DEF Conn

\* The sender reads an answer, of connection i, that it waits for.
LEMMA ConnApplied ==
    ASSUME NEW l, NEW k, NEW c, NEW s \in Seq(ToSender), NEW r, NEW i,
           Conn(l, c, s, r), l # NoLink, k # NoLink, s # <<>>,
           Head(s) \in AnswersOf(i), i # 0,
           l.sig # "stable", k.sig = "stable", k.id = l.id, k.remote = i,
           k.need <=> l.need, k.open <=> l.open, k.timer = l.timer,
           k.ice = IF l.ice = "failed" THEN "checking" ELSE l.ice
    PROVE  Conn(k, c, Tail(s), r)
<1>1. /\ Same(k, c) <=> Same(l, c)
      /\ Due(k, r) <=> Due(l, r)
      /\ ~l.open /\ ~k.open /\ ~Applied(l, c)
      /\ Applied(k, c) <=> Same(l, c) /\ c.id = i
  BY DEF Same, Applied, Due, Conn, LinkShape, RoundOK
<1>2. \A S : /\ None(s, S) => None(Tail(s), S) /\ Head(s) \notin S
             /\ AtMostOne(s, S) => AtMostOne(Tail(s), S)
             /\ AtMostOne(s, S) /\ Head(s) \in S => None(Tail(s), S)
  BY TailHas
<1>3. k.ice # "failed" /\ k.ice \in {"checking", "failed"}
  BY <1>1 DEF Conn, LinkShape
<1>4. ASSUME Applied(k, c)
      PROVE  ~Due(l, r) /\ ~c.setting /\ None(Tail(s), AnswersOf(c.id)) /\ c.remote
  <2>1. Same(l, c) /\ ~None(s, AnswersOf(c.id))
    BY <1>1, <1>2, <1>4
  <2> QED  BY <2>1, <1>1, <1>2, <1>4 DEF Conn, RoundOK, AnsweredOK, Same
<1>5. RoundOK(k, c, Tail(s), r)
  <2>1. k.need => None(r, OffersOf(k.id))
    BY DEF Conn, RoundOK
  <2>2. AtMostOne(r, OffersOf(k.id))
    BY DEF Conn, RoundOK
  <2>3. Same(k, c) =>
           /\ Due(k, r) => ~c.setting /\ None(Tail(s), AnswersOf(c.id))
           /\ c.setting => None(Tail(s), AnswersOf(c.id))
           /\ AtMostOne(Tail(s), AnswersOf(c.id))
    BY <1>1, <1>2 DEF Conn, RoundOK
  <2> QED  BY <1>1, <1>3, <1>4, <2>1, <2>2, <2>3 DEF RoundOK
<1>6. AnsweredOK(k, c, Tail(s))
  <2>1. c # NoPc /\ k.remote = c.id => ~None(s, AnswersOf(c.id))
    BY <1>2
  <2> QED  BY <1>2, <2>1 DEF Conn, AnsweredOK
<1>7. PcShape(k, c, Tail(s))
  <2>1. c # NoPc /\ c.ice = "failed" => ~Applied(k, c)
    BY <1>1, <1>2 DEF Conn, PcShape
  <2> QED  BY <1>1, <1>2, <2>1 DEF Conn, PcShape
<1>8. LinkShape(k, c, r)
  BY <1>1, <1>3 DEF Conn, LinkShape
<1> QED  BY <1>5, <1>6, <1>7, <1>8 DEF Conn

\* The receiver answers, if it can.
LEMMA ConnAnswers ==
    ASSUME NEW l, NEW c, NEW d, NEW s, NEW s2, NEW r, Conn(l, c, s, r), c # NoPc, d # NoPc,
           c.setting, ~d.setting, d.remote, d.id = c.id, d.link = c.link,
           d.ice = c.ice, d.dc = c.dc, Known(l, c) => Known(l, d),
           Same(l, c) => AtMostOne(s2, AnswersOf(c.id))
    PROVE  Conn(l, d, s2, r)
<1>1. /\ Same(l, d) <=> Same(l, c)
      /\ ~Applied(l, d) /\ ~Applied(l, c)
      /\ Same(l, c) => ~Due(l, r)
  BY DEF Same, Applied, Conn, RoundOK
<1>2. RoundOK(l, d, s2, r)
  BY <1>1 DEF Conn, RoundOK
<1>3. AnsweredOK(l, d, s2)
  BY DEF AnsweredOK
<1>4. PcShape(l, d, s2)
  BY <1>1 DEF Conn, PcShape
<1>5. LinkShape(l, d, r)
  BY <1>1 DEF Conn, LinkShape, Applied
<1> QED  BY <1>2, <1>3, <1>4, <1>5 DEF Conn

\* An offer of the connection's own link is taken up by it.
LEMMA ConnSetting ==
    ASSUME NEW l, NEW c, NEW d, NEW s, NEW r, NEW r2, Conn(l, c, s, r), c # NoPc, d # NoPc,
           d.setting, d.remote <=> c.remote, d.id = c.id, d.link = c.link,
           d.ice = c.ice, d.dc = c.dc, d.cand = c.cand, c.ice # "failed",
           l # NoLink => /\ AtMostOne(r2, OffersOf(l.id))
                         /\ None(r, OffersOf(l.id)) => None(r2, OffersOf(l.id)) /\ c.link # l.id
                         /\ c.link = l.id => None(r2, OffersOf(l.id))
    PROVE  Conn(l, d, s, r2)
<1>1. /\ Same(l, d) <=> Same(l, c)
      /\ Applied(l, d) <=> Applied(l, c)
      /\ Known(l, d) <=> Known(l, c)
  BY DEF Same, Applied, Known
<1>2. Same(l, c) => /\ Due(l, r) /\ ~l.need /\ ~Due(l, r2)
                    /\ None(s, AnswersOf(c.id)) /\ ~Applied(l, c)
  BY DEF Same, Due, Conn, RoundOK
<1>3. l # NoLink /\ ~Due(l, r) => ~Due(l, r2)
  BY DEF Due
<1>4. RoundOK(l, d, s, r2)
  <2>1. l # NoLink => /\ l.need => None(r2, OffersOf(l.id))
                      /\ AtMostOne(r2, OffersOf(l.id))
    BY DEF Conn, RoundOK
  <2>2. Same(l, d) =>
           /\ ~Due(l, r2) /\ None(s, AnswersOf(d.id)) /\ AtMostOne(s, AnswersOf(d.id))
    BY <1>1, <1>2 DEF Conn, RoundOK
  <2>3. ~Applied(l, d)
    BY <1>1, <1>2 DEF Applied
  <2> QED  BY <2>1, <2>2, <2>3 DEF RoundOK
<1>5. AnsweredOK(l, d, s)
  BY DEF Conn, AnsweredOK
<1>6. PcShape(l, d, s)
  BY <1>1 DEF Conn, PcShape
<1>7. LinkShape(l, d, r2)
  BY <1>1, <1>3 DEF Conn, LinkShape
<1> QED  BY <1>4, <1>5, <1>6, <1>7 DEF Conn

-----------------------------------------------------------------------------
(* The invariant of the round, step by step.                               *)

ConnInv == Conn(link, pc, to["sender"], to["receiver"])

\* A queue has no more members of S than another one.
NoMore(q, q2, S) ==
    /\ None(q, S) => None(q2, S)
    /\ AtMostOne(q, S) => AtMostOne(q2, S)

LEMMA NoMoreHas ==
    ASSUME NEW T, NEW q \in Seq(T), NEW S
    PROVE  /\ NoMore(q, q, S)
           /\ NoMore(q, <<>>, S)
           /\ q # <<>> => NoMore(q, Tail(q), S)
           /\ \A m \in T : m \notin S => NoMore(q, <<m>>, S) /\ NoMore(q, q \o <<m>>, S)
<1>1. NoMore(q, <<>>, S)
  BY EmptyHas DEF NoMore
<1>2. q # <<>> => NoMore(q, Tail(q), S)
  BY TailHas DEF NoMore
<1>3. ASSUME NEW m \in T, m \notin S
      PROVE  NoMore(q, <<m>>, S) /\ NoMore(q, q \o <<m>>, S)
  <2>1. None(<<m>>, S) /\ AtMostOne(<<m>>, S) /\ <<m>> \in Seq(T)
    BY <1>3, OneHas
  <2> QED  BY <2>1, AppendHas DEF NoMore
<1> QED  BY <1>1, <1>2, <1>3 DEF NoMore

\* Nothing but an answer is an answer, nothing but an offer an offer.
LEMMA Silent ==
    ASSUME NEW i
    PROVE  /\ Restart \notin AnswersOf(i) /\ Join \notin AnswersOf(i)
           /\ Leave \notin AnswersOf(i)
           /\ \A b : WelcomeMaster(b) \notin AnswersOf(i)
           /\ \A j : IceOfPc(j) \notin AnswersOf(i)
           /\ \A b : MasterMsg(b) \notin OffersOf(i) /\ WelcomePeer(b) \notin OffersOf(i)
           /\ \A j : IceOfLink(j) \notin OffersOf(i)
  BY DEF AnswersOf, OffersOf, Restart, Join, Leave, WelcomeMaster, IceOfPc,
         MasterMsg, WelcomePeer, IceOfLink

LEMMA ConnNoMore ==
    ASSUME NEW l, NEW c, NEW s, NEW r, NEW s2, NEW r2, Conn(l, c, s, r),
           \A i : NoMore(s, s2, AnswersOf(i)) /\ NoMore(r, r2, OffersOf(i))
    PROVE  Conn(l, c, s2, r2)
<1>1. c # NoPc => NoMore(s, s2, AnswersOf(c.id))
  OBVIOUS
<1>2. l # NoLink => NoMore(r, r2, OffersOf(l.id))
  OBVIOUS
<1> QED  BY <1>1, <1>2, ConnQueues DEF NoMore

LEMMA QueuesTyped ==
    ASSUME TypeInv
    PROVE  to["sender"] \in Seq(ToSender) /\ to["receiver"] \in Seq(ToReceiver)
  BY DEF TypeInv, QueueOK

\* What a queue becomes when sockets break, are noticed, or are replaced.
SenderQueueMoves(t) ==
    t["sender"] \in {to["sender"], <<>>, to["sender"] \o <<Join>>,
                     to["sender"] \o <<Leave>>, to["sender"] \o <<Restart>>}
        \cup {<<WelcomeMaster(b)>> : b \in BOOLEAN}

ReceiverQueueMoves(t) ==
    t["receiver"] \in {to["receiver"], <<>>}
        \cup {to["receiver"] \o <<MasterMsg(b)>> : b \in BOOLEAN}
        \cup {<<WelcomePeer(b)>> : b \in BOOLEAN}

LEMMA SenderMovesQuiet ==
    ASSUME TypeInv, NEW t, SenderQueueMoves(t), NEW i
    PROVE  NoMore(to["sender"], t["sender"], AnswersOf(i))
<1>1. PICK q \in Seq(ToSender) : q = to["sender"]
  BY QueuesTyped
<1>2. /\ NoMore(q, q, AnswersOf(i)) /\ NoMore(q, <<>>, AnswersOf(i))
      /\ \A m \in ToSender : m \notin AnswersOf(i) =>
             NoMore(q, <<m>>, AnswersOf(i)) /\ NoMore(q, q \o <<m>>, AnswersOf(i))
  BY NoMoreHas
<1>3. /\ Restart \notin AnswersOf(i) /\ Join \notin AnswersOf(i)
      /\ Leave \notin AnswersOf(i)
      /\ \A b \in BOOLEAN : WelcomeMaster(b) \notin AnswersOf(i)
  BY Silent
<1>4. /\ Restart \in ToSender /\ Join \in ToSender /\ Leave \in ToSender
      /\ \A b \in BOOLEAN : WelcomeMaster(b) \in ToSender
  BY MessagesTyped
<1> QED  BY <1>1, <1>2, <1>3, <1>4 DEF SenderQueueMoves

LEMMA ReceiverMovesQuiet ==
    ASSUME TypeInv, NEW t, ReceiverQueueMoves(t), NEW i
    PROVE  NoMore(to["receiver"], t["receiver"], OffersOf(i))
<1>1. PICK q \in Seq(ToReceiver) : q = to["receiver"]
  BY QueuesTyped
<1>2. /\ NoMore(q, q, OffersOf(i)) /\ NoMore(q, <<>>, OffersOf(i))
      /\ \A m \in ToReceiver : m \notin OffersOf(i) =>
             NoMore(q, <<m>>, OffersOf(i)) /\ NoMore(q, q \o <<m>>, OffersOf(i))
  BY NoMoreHas
<1>3. \A b \in BOOLEAN : MasterMsg(b) \notin OffersOf(i) /\ WelcomePeer(b) \notin OffersOf(i)
  BY Silent
<1>4. \A b \in BOOLEAN : MasterMsg(b) \in ToReceiver /\ WelcomePeer(b) \in ToReceiver
  BY MessagesTyped
<1> QED  BY <1>1, <1>2, <1>3, <1>4 DEF ReceiverQueueMoves

\* Sockets come and go, pages load again, the receiver leaves.
LEMMA SocketsConn ==
    ASSUME TypeInv, ConnInv, SenderQueueMoves(to'), ReceiverQueueMoves(to'),
           link' \in {link, NoLink}, pc' \in {pc, NoPc}
    PROVE  ConnInv'
<1>1. \A i : /\ NoMore(to["sender"], to'["sender"], AnswersOf(i))
             /\ NoMore(to["receiver"], to'["receiver"], OffersOf(i))
  BY SenderMovesQuiet, ReceiverMovesQuiet
<1>2. Conn(link, pc, to'["sender"], to'["receiver"])
  BY <1>1, ConnNoMore DEF ConnInv
<1>3. Conn(link', pc, to'["sender"], to'["receiver"])
  BY <1>2, ConnNoLink
<1>4. Conn(link', pc', to'["sender"], to'["receiver"])
  BY <1>3, ConnNoPc
<1> QED  BY <1>4 DEF ConnInv

-----------------------------------------------------------------------------
(* A welcome is what a new socket reads first, and no other socket does.   *)

Welcomes == {m \in ToSender \cup ToReceiver : m.t = "welcome"}

WelcomeOK(st, q) ==
    /\ st \notin {"joining", "up"} => q = <<>>
    /\ st = "joining" => q # <<>> /\ Head(q) \in Welcomes
    /\ st = "up" => None(q, Welcomes)
    /\ q # <<>> => None(Tail(q), Welcomes)

WelcomeInv ==
    /\ WelcomeOK(sock["sender"], to["sender"])
    /\ WelcomeOK(sock["receiver"], to["receiver"])

LEMMA WelcomeAppended ==
    ASSUME NEW T, NEW st \in {"joining", "up"}, NEW q \in Seq(T), NEW ms \in Seq(T),
           WelcomeOK(st, q), None(ms, Welcomes)
    PROVE  WelcomeOK(st, q \o ms)
<1>1. CASE q = <<>>
  <2>1. st = "up" /\ q \o ms = ms
    BY <1>1 DEF WelcomeOK
  <2>2. ms # <<>> => None(Tail(ms), Welcomes)
    BY TailHas
  <2> QED  BY <2>1, <2>2 DEF WelcomeOK
<1>2. CASE q # <<>>
  <2>1. /\ q \o ms # <<>> /\ Head(q \o ms) = Head(q)
        /\ Tail(q \o ms) = Tail(q) \o ms /\ Tail(q) \in Seq(T)
    BY <1>2
  <2>2. None(Tail(q), Welcomes)
    BY <1>2 DEF WelcomeOK
  <2>3. None(Tail(q) \o ms, Welcomes)
    BY <2>1, <2>2, AppendHas
  <2>4. None(q, Welcomes) => None(q \o ms, Welcomes)
    BY AppendHas
  <2> QED  BY <2>1, <2>3, <2>4, <1>2 DEF WelcomeOK
<1> QED  BY <1>1, <1>2

LEMMA WelcomeRead ==
    ASSUME NEW T, NEW q \in Seq(T), q # <<>>, NEW st, NEW st2, WelcomeOK(st, q),
           IF Head(q) \in Welcomes THEN st2 = "up" ELSE st2 = st
    PROVE  /\ WelcomeOK(st2, Tail(q))
           /\ Head(q) \in Welcomes <=> st = "joining"
<1>1. None(Tail(q), Welcomes)
  BY DEF WelcomeOK
<1>2. Tail(q) # <<>> => None(Tail(Tail(q)), Welcomes)
  BY <1>1, TailHas
<1>3. st \in {"joining", "up"} /\ (Head(q) \in Welcomes <=> st = "joining")
  BY TailHas DEF WelcomeOK
<1> QED  BY <1>1, <1>2, <1>3 DEF WelcomeOK

LEMMA WelcomeEmpty ==
    ASSUME NEW st, st # "joining"
    PROVE  WelcomeOK(st, <<>>)
  BY EmptyHas DEF WelcomeOK

LEMMA WelcomeFirst ==
    ASSUME NEW m \in Welcomes
    PROVE  WelcomeOK("joining", <<m>>)
<1>1. <<m>> # <<>> /\ Head(<<m>>) = m /\ Tail(<<m>>) = <<>>
  OBVIOUS
<1> QED  BY <1>1, EmptyHas DEF WelcomeOK

\* What the two pages and the room tell each other otherwise.
LEMMA NoWelcomes ==
    /\ None(<<Restart>>, Welcomes) /\ None(<<Join>>, Welcomes)
    /\ None(<<Leave>>, Welcomes)
    /\ \A b : None(<<MasterMsg(b)>>, Welcomes)
    /\ \A l, i : None(<<Answer(l, i), IceOfPc(i)>>, Welcomes)
    /\ \A l : None(<<Offer(l), IceOfLink(l)>>, Welcomes)
<1>1. /\ Restart \notin Welcomes /\ Join \notin Welcomes /\ Leave \notin Welcomes
      /\ \A b : MasterMsg(b) \notin Welcomes
      /\ \A l, i : Answer(l, i) \notin Welcomes /\ IceOfPc(i) \notin Welcomes
                   /\ Offer(l) \notin Welcomes /\ IceOfLink(l) \notin Welcomes
  BY DEF Welcomes, Restart, Join, Leave, MasterMsg, Answer, IceOfPc, Offer, IceOfLink
<1> QED  BY <1>1, OneHas, TwoHas

\* A page is told something, or it is not there.
LEMMA ToldIs ==
    ASSUME QueueOK(to), NEW ms
    PROVE  /\ Told("sender", ms)["sender"] =
                  IF Wired("sender") THEN to["sender"] \o ms ELSE to["sender"]
           /\ Told("sender", ms)["receiver"] = to["receiver"]
           /\ Told("receiver", ms)["receiver"] =
                  IF Wired("receiver") THEN to["receiver"] \o ms ELSE to["receiver"]
           /\ Told("receiver", ms)["sender"] = to["sender"]
           /\ DOMAIN Told("sender", ms) = Pages /\ DOMAIN Told("receiver", ms) = Pages
  BY DEF QueueOK, Told, Pages

LEMMA SignalledIs ==
    ASSUME QueueOK(to), NEW ms
    PROVE  /\ Signalled("receiver", ms)["sender"] =
                  IF sock["receiver"] = "up" /\ Wired("sender")
                  THEN to["sender"] \o ms ELSE to["sender"]
           /\ Signalled("receiver", ms)["receiver"] = to["receiver"]
           /\ Signalled("sender", ms)["receiver"] =
                  IF sock["sender"] = "up" /\ Wired("receiver")
                  THEN to["receiver"] \o ms ELSE to["receiver"]
           /\ Signalled("sender", ms)["sender"] = to["sender"]
           /\ DOMAIN Signalled("sender", ms) = Pages
           /\ DOMAIN Signalled("receiver", ms) = Pages
  BY ToldIs DEF Signalled, Other, QueueOK

-----------------------------------------------------------------------------
(* What the sockets' steps do.                                             *)

Unwired == {"off", "dead", "late", "ghost"}

LEMMA WiredIs ==
    ASSUME TypeInv, NEW p \in Pages
    PROVE  /\ sock[p] \in SockStates
           /\ Wired(p) <=> sock[p] \in {"joining", "up"}
           /\ ~Wired(p) <=> sock[p] \in Unwired
  BY DEF TypeInv, Wired, Unwired, SockStates

LEMMA DropDoes ==
    ASSUME TypeInv, NEW p \in Pages, Drop(p)
    PROVE  /\ Wired(p) /\ sock'[p] = "dead" /\ to'[p] = <<>>
           /\ \A o \in Pages \ {p} : sock'[o] = sock[o] /\ to'[o] = to[o]
           /\ Spend("drops") /\ UNCHANGED <<path, link, pc, rcv>>
  BY DEF Drop, TypeInv, QueueOK

LEMMA PageNoticesDoes ==
    ASSUME TypeInv, NEW p \in Pages, PageNotices(p)
    PROVE  /\ sock[p] \in Unwired /\ sock'[p] \in Unwired
           /\ \A o \in Pages \ {p} : sock'[o] = sock[o]
           /\ UNCHANGED <<to, path, link, pc, rcv, spent>>
  BY DEF PageNotices, TypeInv, Unwired

LEMMA RoomNoticesDoes ==
    ASSUME TypeInv, NEW p \in Pages, RoomNotices(p)
    PROVE  /\ sock[p] \in Unwired /\ sock'[p] \in Unwired
           /\ \A o \in Pages \ {p} : sock'[o] = sock[o]
           /\ UNCHANGED <<path, link, pc, rcv, spent>>
           /\ p = "sender" =>
                  /\ to'["sender"] = to["sender"]
                  /\ to'["receiver"] = IF Wired("receiver")
                                       THEN to["receiver"] \o <<MasterMsg(FALSE)>>
                                       ELSE to["receiver"]
           /\ p = "receiver" =>
                  /\ to'["receiver"] = to["receiver"]
                  /\ to'["sender"] = IF Wired("sender")
                                     THEN to["sender"] \o <<Leave>>
                                     ELSE to["sender"]
<1>1. /\ sock[p] \in Unwired /\ sock'[p] \in Unwired
      /\ \A o \in Pages \ {p} : sock'[o] = sock[o]
      /\ UNCHANGED <<path, link, pc, rcv, spent>>
  BY DEF RoomNotices, TypeInv, Unwired
<1>2. to' = Told(Other(p), <<Absence(p)>>)
  BY DEF RoomNotices
<1>3. CASE p = "sender"
  <2>1. to' = Told("receiver", <<MasterMsg(FALSE)>>)
    BY <1>2, <1>3 DEF Other, Absence
  <2> QED  BY <2>1, <1>1, <1>3, ToldIs DEF TypeInv
<1>4. CASE p = "receiver"
  <2>1. to' = Told("sender", <<Leave>>)
    BY <1>2, <1>4 DEF Other, Absence
  <2> QED  BY <2>1, <1>1, <1>4, ToldIs DEF TypeInv
<1> QED  BY <1>3, <1>4 DEF Pages

LEMMA SenderReconnects ==
    ASSUME TypeInv, Reconnect("sender")
    PROVE  /\ sock["sender"] \in Unwired /\ sock'["sender"] = "joining"
           /\ sock'["receiver"] = sock["receiver"]
           /\ to'["sender"] = <<WelcomeMaster(Present("receiver"))>>
           /\ to'["receiver"] = IF Wired("receiver")
                                THEN to["receiver"] \o <<MasterMsg(TRUE)>>
                                ELSE to["receiver"]
           /\ UNCHANGED <<path, link, pc, rcv, spent>>
<1>1. PICK t : t = Told("receiver", <<MasterMsg(TRUE)>>)
  OBVIOUS
<1>2. to' = [t EXCEPT !["sender"] = <<WelcomeMaster(Present("receiver"))>>]
  BY <1>1 DEF Reconnect
<1>3. /\ t["receiver"] = IF Wired("receiver") THEN to["receiver"] \o <<MasterMsg(TRUE)>>
                         ELSE to["receiver"]
      /\ DOMAIN t = Pages
  BY <1>1, ToldIs DEF TypeInv
<1>4. /\ to'["sender"] = <<WelcomeMaster(Present("receiver"))>>
      /\ to'["receiver"] = t["receiver"]
  BY <1>2, <1>3 DEF Pages
<1> QED  BY <1>3, <1>4 DEF Reconnect, TypeInv, Pages, Unwired

LEMMA ReceiverReconnects ==
    ASSUME TypeInv, Reconnect("receiver")
    PROVE  /\ sock["receiver"] \in Unwired /\ sock'["receiver"] = "joining"
           /\ sock'["sender"] = sock["sender"]
           /\ to'["receiver"] = <<WelcomePeer(Present("sender"))>>
           /\ to'["sender"] = IF Wired("sender") THEN to["sender"] \o <<Join>>
                              ELSE to["sender"]
           /\ UNCHANGED <<path, link, pc, rcv, spent>> /\ ~Ended
<1>1. PICK t : t = Told("sender", <<Join>>)
  OBVIOUS
<1>2. to' = [t EXCEPT !["receiver"] = <<WelcomePeer(Present("sender"))>>]
  BY <1>1 DEF Reconnect
<1>3. /\ t["sender"] = IF Wired("sender") THEN to["sender"] \o <<Join>>
                       ELSE to["sender"]
      /\ DOMAIN t = Pages
  BY <1>1, ToldIs DEF TypeInv
<1>4. /\ to'["receiver"] = <<WelcomePeer(Present("sender"))>>
      /\ to'["sender"] = t["sender"]
  BY <1>2, <1>3 DEF Pages
<1> QED  BY <1>3, <1>4 DEF Reconnect, TypeInv, Pages, Unwired

LEMMA ClosedIs ==
    ASSUME TypeInv, NEW p \in Pages
    PROVE  /\ Closed(p)[p] \in {"late", "off"}
           /\ \A o \in Pages \ {p} : Closed(p)[o] = sock[o]
  BY WiredIs DEF Closed, TypeInv, SockStates

LEMMA SenderReloadsDoes ==
    ASSUME TypeInv, SenderReloads
    PROVE  /\ link' = NoLink /\ sock'["sender"] \in {"late", "off"}
           /\ sock'["receiver"] = sock["receiver"]
           /\ to'["sender"] = <<>> /\ to'["receiver"] = to["receiver"]
           /\ Spend("senderReloads") /\ UNCHANGED <<path, pc, rcv>>
<1>1. /\ Closed("sender")["sender"] \in {"late", "off"}
      /\ Closed("sender")["receiver"] = sock["receiver"]
  BY ClosedIs DEF Pages
<1> QED  BY <1>1 DEF SenderReloads, TypeInv, QueueOK, Pages

LEMMA ReceiverReloadsDoes ==
    ASSUME TypeInv, ReceiverReloads
    PROVE  /\ pc' = NoPc /\ rcv' = NewReceiver
           /\ sock'["receiver"] \in {"late", "off"} /\ sock'["sender"] = sock["sender"]
           /\ to'["receiver"] = <<>> /\ to'["sender"] = to["sender"]
           /\ Spend("receiverReloads") /\ UNCHANGED <<path, link>> /\ ~Ended
<1>1. /\ Closed("receiver")["receiver"] \in {"late", "off"}
      /\ Closed("receiver")["sender"] = sock["sender"]
  BY ClosedIs DEF Pages
<1> QED  BY <1>1 DEF ReceiverReloads, TypeInv, QueueOK, Pages

LEMMA FinishDoes ==
    ASSUME TypeInv, NEW r, RcvOK(r), NEW st, finish(r, st)
    PROVE  /\ rcv' = [r EXCEPT !.status = st, !.watchdog = FALSE]
           /\ rcv'.status = st /\ rcv'.watchdog = FALSE
           /\ pc' = NoPc
           /\ sock'["receiver"] \in {"late", "off"} /\ sock'["sender"] = sock["sender"]
           /\ to'["receiver"] = <<>> /\ to'["sender"] = to["sender"]
<1>1. /\ Closed("receiver")["receiver"] \in {"late", "off"}
      /\ Closed("receiver")["sender"] = sock["sender"]
  BY ClosedIs DEF Pages
<1> QED  BY <1>1 DEF finish, TypeInv, QueueOK, Pages, RcvOK

\* An attempt is counted, and sent if it can be; or there are none left.
LEMMA RestartDoes ==
    ASSUME TypeInv, NEW r, RcvOK(r), NEW c, NEW q \in Seq(ToReceiver),
           requestRestart(r, c, q)
    PROVE  \/ /\ r.restarts >= MAX_RESTARTS
              /\ finish(r, "error")
           \/ /\ r.restarts < MAX_RESTARTS
              /\ rcv' = [r EXCEPT !.restarts = @ + 1, !.watchdog = TRUE]
              /\ rcv'.restarts = r.restarts + 1 /\ rcv'.status = r.status
              /\ pc' = c /\ UNCHANGED sock
              /\ to'["receiver"] = q
              /\ to'["sender"] = IF sock["receiver"] = "up" /\ Wired("sender")
                                 THEN to["sender"] \o <<Restart>> ELSE to["sender"]
<1>1. CASE r.restarts >= MAX_RESTARTS /\ finish(r, "error")
  BY <1>1
<1>2. CASE /\ r.restarts < MAX_RESTARTS
           /\ rcv' = [r EXCEPT !.restarts = @ + 1, !.watchdog = TRUE]
           /\ pc' = c
           /\ to' = [Signalled("receiver", <<Restart>>) EXCEPT !["receiver"] = q]
           /\ UNCHANGED sock
  <2>1. PICK t : t = Signalled("receiver", <<Restart>>)
    OBVIOUS
  <2>2. /\ t["sender"] = IF sock["receiver"] = "up" /\ Wired("sender")
                         THEN to["sender"] \o <<Restart>> ELSE to["sender"]
        /\ DOMAIN t = Pages
    BY <2>1, SignalledIs DEF TypeInv
  <2>3. to'["receiver"] = q /\ to'["sender"] = t["sender"]
    BY <1>2, <2>1, <2>2 DEF Pages
  <2>4. rcv'.restarts = r.restarts + 1 /\ rcv'.status = r.status
    BY <1>2 DEF RcvOK
  <2> QED  BY <1>2, <2>2, <2>3, <2>4
<1> QED  BY <1>1, <1>2 DEF requestRestart

-----------------------------------------------------------------------------
(* What reading a message does.                                            *)

LEMMA SenderReads ==
    ASSUME TypeInv, OnSenderMessage
    PROVE  /\ to["sender"] # <<>> /\ Head(to["sender"]) \in ToSender
           /\ to'["sender"] = Tail(to["sender"]) /\ to'["receiver"] = to["receiver"]
           /\ sock'["receiver"] = sock["receiver"]
           /\ IF Head(to["sender"]).t = "welcome" THEN sock'["sender"] = "up"
              ELSE sock'["sender"] = sock["sender"]
           /\ UNCHANGED <<path, pc, rcv, spent>>
           /\ LET m == Head(to["sender"])
              IN  \/ m.t = "welcome" /\ (IF m.peer THEN peerJoined ELSE UNCHANGED link)
                  \/ m.t = "join" /\ peerJoined
                  \/ m.t = "leave"
                     /\ link' = IF SenderConnected THEN [link EXCEPT !.gone = TRUE] ELSE NoLink
                  \/ m.t = "restart" /\ addLink
                  \/ OnAnswer(m)
                  \/ OnReceiverIce(m)
<1>1. to["sender"] # <<>> /\ to["sender"] \in Seq(ToSender)
  BY QueuesTyped DEF OnSenderMessage
<1>2. Head(to["sender"]) \in ToSender
  BY <1>1
<1>3. /\ to'["sender"] = Tail(to["sender"]) /\ to'["receiver"] = to["receiver"]
      /\ UNCHANGED <<path, pc, rcv, spent>>
  BY DEF OnSenderMessage, TypeInv, QueueOK, Pages
<1>4. PICK m : m = Head(to["sender"])
  OBVIOUS
<1>5. \/ OnSenderWelcome(m) \/ OnJoin(m) \/ OnLeave(m)
      \/ OnRestart(m) \/ OnAnswer(m) \/ OnReceiverIce(m)
  BY <1>4 DEF OnSenderMessage
<1>6. /\ sock'["receiver"] = sock["receiver"]
      /\ IF m.t = "welcome" THEN sock'["sender"] = "up"
         ELSE sock'["sender"] = sock["sender"]
  BY <1>5 DEF OnSenderWelcome, OnJoin, OnLeave, OnRestart, OnAnswer, OnReceiverIce,
     TypeInv, Pages
<1>7. \/ m.t = "welcome" /\ (IF m.peer THEN peerJoined ELSE UNCHANGED link)
      \/ m.t = "join" /\ peerJoined
      \/ m.t = "leave"
         /\ link' = IF SenderConnected THEN [link EXCEPT !.gone = TRUE] ELSE NoLink
      \/ m.t = "restart" /\ addLink
      \/ OnAnswer(m)
      \/ OnReceiverIce(m)
  BY <1>5 DEF OnSenderWelcome, OnJoin, OnLeave, OnRestart
<1> QED  BY <1>1, <1>2, <1>3, <1>4, <1>6, <1>7

\* Whether a message is a welcome is a matter of its type.
LEMMA WelcomesTyped ==
    /\ \A m \in ToSender : m \in Welcomes <=> m.t = "welcome"
    /\ \A m \in ToReceiver : m \in Welcomes <=> m.t = "welcome"
  BY DEF Welcomes

LEMMA ReceiverReads ==
    ASSUME TypeInv, OnReceiverMessage
    PROVE  /\ to["receiver"] # <<>> /\ Head(to["receiver"]) \in ToReceiver
           /\ Tail(to["receiver"]) \in Seq(ToReceiver)
           /\ UNCHANGED <<path, link, spent>>
           /\ LET m == Head(to["receiver"])
                  q == Tail(to["receiver"])
              IN  OnReceiverWelcome(m, q) \/ OnMaster(m, q) \/ OnOffer(m, q) \/ OnSenderIce(m, q)
<1>1. to["receiver"] # <<>> /\ to["receiver"] \in Seq(ToReceiver)
  BY QueuesTyped DEF OnReceiverMessage
<1>2. Head(to["receiver"]) \in ToReceiver /\ Tail(to["receiver"]) \in Seq(ToReceiver)
  BY <1>1
<1> QED  BY <1>1, <1>2 DEF OnReceiverMessage

LEMMA WelcomeReads ==
    ASSUME TypeInv, NEW q, NEW m, OnReceiverWelcome(m, q)
    PROVE  /\ m.t = "welcome"
           /\ sock'["receiver"] = "up" /\ sock'["sender"] = sock["sender"]
           /\ to'["receiver"] = q /\ to'["sender"] = to["sender"] /\ pc' = pc
           /\ rcv'.restarts = rcv.restarts
           /\ rcv'.status \in {rcv.status, "waiting"}
  BY DEF OnReceiverWelcome, TypeInv, QueueOK, Pages, RcvOK

LEMMA MasterReads ==
    ASSUME TypeInv, NEW q \in Seq(ToReceiver), NEW m \in ToReceiver, OnMaster(m, q),
           MAX_RESTARTS > 0
    PROVE  /\ m.t = "master" /\ sock' = sock /\ pc' = pc
           /\ to'["receiver"] = q
           /\ rcv'.status = rcv.status
           /\ \/ /\ m.online /\ ~Healthy /\ pc # NoPc
                 /\ rcv'.restarts = 1
                 /\ to'["sender"] = IF sock["receiver"] = "up" /\ Wired("sender")
                                    THEN to["sender"] \o <<Restart>> ELSE to["sender"]
              \/ /\ ~(m.online /\ ~Healthy /\ pc # NoPc)
                 /\ rcv'.restarts = rcv.restarts /\ rcv'.watchdog = rcv.watchdog
                 /\ to'["sender"] = to["sender"]
<1>1. m.online \in BOOLEAN /\ m.t = "master"
  BY ReceiverMessages DEF OnMaster
<1>2. PICK r : r = [rcv EXCEPT !.senderOnline = m.online]
  OBVIOUS
<1>3. RcvOK(r) /\ r.status = rcv.status /\ r.restarts = rcv.restarts
        /\ r.watchdog = rcv.watchdog
  BY <1>1, <1>2 DEF RcvOK, TypeInv
<1>4. PICK z : z = [r EXCEPT !.restarts = 0]
  OBVIOUS
<1>5. RcvOK(z) /\ z.restarts = 0 /\ z.status = rcv.status
  <2>1. 0 \in 0 .. MAX_RESTARTS
    BY NegotiationAssumption
  <2> QED  BY <2>1, <1>3, <1>4 DEF RcvOK
<1>6. CASE m.online /\ ~Healthy /\ pc # NoPc
  <2>1. requestRestart(z, pc, q)
    BY <1>2, <1>4, <1>6 DEF OnMaster
  <2>2. ~(z.restarts >= MAX_RESTARTS)
    BY <1>5, NegotiationAssumption
  <2>3. /\ rcv'.restarts = 0 + 1 /\ rcv'.status = z.status
        /\ pc' = pc /\ UNCHANGED sock
        /\ to'["receiver"] = q
        /\ to'["sender"] = IF sock["receiver"] = "up" /\ Wired("sender")
                           THEN to["sender"] \o <<Restart>> ELSE to["sender"]
    BY <2>1, <2>2, <1>5, RestartDoes
  <2> QED  BY <2>3, <1>1, <1>5, <1>6
<1>7. CASE ~(m.online /\ ~Healthy /\ pc # NoPc)
  BY <1>1, <1>2, <1>3, <1>7 DEF OnMaster, TypeInv, QueueOK, Pages
<1> QED  BY <1>6, <1>7

LEMMA OfferReads ==
    ASSUME TypeInv, NEW q, NEW m, OnOffer(m, q)
    PROVE  /\ m.t = "offer" /\ sock' = sock /\ rcv' = rcv
           /\ to'["receiver"] = q /\ to'["sender"] = to["sender"]
           /\ \/ /\ pc.link # m.link \/ pc.ice \in {"failed", "closed"}
                 /\ pc' = NewPc(Fresh(PcsNamed), m.link)
              \/ /\ pc.link = m.link /\ pc.ice \notin {"failed", "closed"} /\ ~pc.setting
                 /\ pc' = [pc EXCEPT !.setting = TRUE]
<1>1. to'["receiver"] = q /\ to'["sender"] = to["sender"]
  BY DEF OnOffer, TypeInv, QueueOK, Pages
<1> QED  BY <1>1 DEF OnOffer

LEMMA IceReads ==
    ASSUME TypeInv, NEW q, NEW m, OnSenderIce(m, q)
    PROVE  /\ m.t = "ice" /\ sock' = sock /\ rcv' = rcv
           /\ to'["receiver"] = q /\ to'["sender"] = to["sender"]
           /\ pc' = IF pc # NoPc /\ pc.link = m.link
                    THEN [pc EXCEPT !.cand = IF pc.remote THEN "added" ELSE "queued"]
                    ELSE pc
  BY DEF OnSenderIce, TypeInv, QueueOK, Pages

-----------------------------------------------------------------------------
(* What the receiver's attempts do.                                        *)

\* One attempt more, sent if it can be.
Attempts(c) ==
    /\ rcv.restarts < MAX_RESTARTS
    /\ rcv'.restarts = rcv.restarts + 1
    /\ rcv'.status \in {rcv.status, "reconnecting"}
    /\ pc' = c /\ sock' = sock
    /\ to'["receiver"] = to["receiver"]
    /\ to'["sender"] = IF sock["receiver"] = "up" /\ Wired("sender")
                       THEN to["sender"] \o <<Restart>> ELSE to["sender"]

GivesUp ==
    /\ rcv.restarts >= MAX_RESTARTS
    /\ rcv'.status = "error" /\ rcv'.watchdog = FALSE /\ pc' = NoPc
    /\ sock'["receiver"] \in {"late", "off"} /\ sock'["sender"] = sock["sender"]
    /\ to'["receiver"] = <<>> /\ to'["sender"] = to["sender"]

LEMMA LostDoes ==
    ASSUME TypeInv, NEW c, onConnectionLost(rcv, c)
    PROVE  \/ GivesUp \/ Attempts(c)
           \/ /\ rcv'.restarts = rcv.restarts /\ rcv'.status = "reconnecting"
              /\ pc' = c /\ sock' = sock /\ to' = to
<1>1. PICK r : r = [rcv EXCEPT !.status = "reconnecting"]
  OBVIOUS
<1>2. RcvOK(r) /\ r.restarts = rcv.restarts /\ r.status = "reconnecting"
  BY <1>1 DEF RcvOK, TypeInv
<1>3. PICK q \in Seq(ToReceiver) : q = to["receiver"]
  BY QueuesTyped
<1>4. CASE requestRestart(r, c, q)
  <2>1. CASE r.restarts >= MAX_RESTARTS /\ finish(r, "error")
    BY <2>1, <1>2, FinishDoes DEF GivesUp
  <2>2. CASE ~(r.restarts >= MAX_RESTARTS /\ finish(r, "error"))
    BY <2>2, <1>2, <1>3, <1>4, RestartDoes DEF Attempts
  <2> QED  BY <2>1, <2>2
<1>5. CASE ~rcv.senderOnline
  <2>1. /\ rcv' = [rcv EXCEPT !.status = "reconnecting", !.watchdog = TRUE]
        /\ pc' = c /\ sock' = sock /\ to' = to
    BY <1>5 DEF onConnectionLost
  <2>2. rcv'.restarts = rcv.restarts /\ rcv'.status = "reconnecting"
    BY <2>1 DEF RcvOK, TypeInv
  <2> QED  BY <2>1, <2>2
<1>6. CASE rcv.senderOnline
  BY <1>6, <1>1, <1>3, <1>4 DEF onConnectionLost
<1> QED  BY <1>5, <1>6

LEMMA WatchdogDoes ==
    ASSUME TypeInv, Watchdog
    PROVE  /\ rcv.watchdog /\ TimersRun /\ UNCHANGED <<path, link, spent>>
           /\ rcv.restarts >= NoticedBy =>
                  (\A p \in Pages : Wired(p)) /\ pc.ice # "disconnected"
           /\ \/ /\ Healthy /\ rcv'.restarts = rcv.restarts /\ rcv'.status = rcv.status
                 /\ pc' = pc /\ sock' = sock /\ to' = to
              \/ ~Healthy /\ SignalOpen /\ (GivesUp \/ Attempts(pc))
<1>1. PICK q \in Seq(ToReceiver) : q = to["receiver"]
  BY QueuesTyped
<1>2. RcvOK(rcv)
  BY DEF TypeInv
<1>3. ASSUME requestRestart(rcv, pc, q) PROVE GivesUp \/ Attempts(pc)
  <2>1. CASE rcv.restarts >= MAX_RESTARTS /\ finish(rcv, "error")
    BY <2>1, <1>2, FinishDoes DEF GivesUp
  <2>2. CASE ~(rcv.restarts >= MAX_RESTARTS /\ finish(rcv, "error"))
    BY <2>2, <1>1, <1>2, <1>3, RestartDoes DEF Attempts
  <2> QED  BY <2>1, <2>2
<1>4. ASSUME Healthy, rcv' = [rcv EXCEPT !.watchdog = FALSE]
      PROVE  rcv'.restarts = rcv.restarts /\ rcv'.status = rcv.status
  BY <1>2, <1>4 DEF RcvOK
<1> QED  BY <1>1, <1>3, <1>4 DEF Watchdog

LEMMA AnswerDoes ==
    ASSUME TypeInv, answer
    PROVE  /\ pc # NoPc /\ pc.setting
           /\ pc' = [pc EXCEPT !.setting = FALSE, !.remote = TRUE,
                               !.cand = IF @ = "queued" THEN "added" ELSE @]
           /\ to'["receiver"] = to["receiver"]
           /\ to'["sender"] = IF sock["receiver"] = "up" /\ Wired("sender")
                              THEN to["sender"] \o <<Answer(pc.link, pc.id), IceOfPc(pc.id)>>
                              ELSE to["sender"]
           /\ UNCHANGED <<sock, path, link, rcv, spent>>
  BY SignalledIs DEF answer, AnswerPending, TypeInv

LEMMA OfferDoes ==
    ASSUME TypeInv, offer
    PROVE  /\ link # NoLink /\ link.need /\ link.sig = "stable"
           /\ link' = [link EXCEPT !.need = FALSE, !.sig = "have-local-offer"]
           /\ to'["sender"] = to["sender"]
           /\ to'["receiver"] = IF sock["sender"] = "up" /\ Wired("receiver")
                                THEN to["receiver"] \o <<Offer(link.id), IceOfLink(link.id)>>
                                ELSE to["receiver"]
           /\ UNCHANGED <<sock, path, pc, rcv, spent>>
  BY SignalledIs DEF offer, OfferPending, TypeInv

-----------------------------------------------------------------------------
(* Every step keeps the welcomes in their place.                           *)

\* One page's queue: as it was, emptied, read from, or told something.
LEMMA WelcomeStep ==
    ASSUME NEW T, NEW q \in Seq(T), NEW st, NEW q2, NEW st2, WelcomeOK(st, q),
           \/ st2 = st /\ q2 = q
           \/ st2 \notin {"joining", "up"} /\ st \notin {"joining", "up"} /\ q2 = q
           \/ st2 # "joining" /\ q2 = <<>>
           \/ st2 = "joining" /\ \E m \in Welcomes : q2 = <<m>>
           \/ st2 = st /\ st \in {"joining", "up"}
              /\ \E ms \in Seq(T) : None(ms, Welcomes) /\ q2 = q \o ms
           \/ q # <<>> /\ q2 = Tail(q)
              /\ IF Head(q) \in Welcomes THEN st2 = "up" ELSE st2 = st
    PROVE  WelcomeOK(st2, q2)
<1>1. CASE st2 \notin {"joining", "up"} /\ st \notin {"joining", "up"} /\ q2 = q
  BY <1>1 DEF WelcomeOK
<1>2. CASE st2 # "joining" /\ q2 = <<>>
  BY <1>2, WelcomeEmpty
<1>3. CASE st2 = "joining" /\ \E m \in Welcomes : q2 = <<m>>
  BY <1>3, WelcomeFirst
<1>4. CASE st2 = st /\ st \in {"joining", "up"}
              /\ \E ms \in Seq(T) : None(ms, Welcomes) /\ q2 = q \o ms
  BY <1>4, WelcomeAppended
<1>5. CASE q # <<>> /\ q2 = Tail(q)
              /\ IF Head(q) \in Welcomes THEN st2 = "up" ELSE st2 = st
  BY <1>5, WelcomeRead
<1> QED  BY <1>1, <1>2, <1>3, <1>4, <1>5

\* What the budget must allow for: an attempt for the channel that closes, the
\* watchdog's until the heartbeat has noticed, and one for ICE that fails.
Enough == MAX_RESTARTS >= 3 /\ NoticedBy < MAX_RESTARTS

LEMMA WelcomeMessages ==
    /\ \A b \in BOOLEAN : WelcomeMaster(b) \in Welcomes /\ WelcomePeer(b) \in Welcomes
    /\ Present("sender") \in BOOLEAN /\ Present("receiver") \in BOOLEAN
<1>1. \A b \in BOOLEAN : WelcomeMaster(b) \in Welcomes /\ WelcomePeer(b) \in Welcomes
  BY MessagesTyped DEF Welcomes, WelcomeMaster, WelcomePeer
<1> QED  BY <1>1 DEF WelcomeMaster, Present

LEMMA SocketsWelcome ==
    ASSUME TypeInv, WelcomeInv, NEW p \in Pages,
           PageNotices(p) \/ RoomNotices(p) \/ Reconnect(p) \/ Drop(p)
    PROVE  WelcomeInv'
<1> USE DEF WelcomeInv
<1>q. /\ to["sender"] \in Seq(ToSender) /\ to["receiver"] \in Seq(ToReceiver)
      /\ <<Leave>> \in Seq(ToSender) /\ <<Join>> \in Seq(ToSender)
      /\ \A b \in BOOLEAN : <<MasterMsg(b)>> \in Seq(ToReceiver)
  BY QueuesTyped, MessagesTyped, OneMessage
<1>n. /\ None(<<Leave>>, Welcomes) /\ None(<<Join>>, Welcomes)
      /\ \A b \in BOOLEAN : None(<<MasterMsg(b)>>, Welcomes)
  BY NoWelcomes
<1>w. \A o \in Pages : Wired(o) <=> sock[o] \in {"joining", "up"}
  BY WiredIs
<1>1. CASE PageNotices(p)
  <2>1. \A o \in Pages : to'[o] = to[o] /\ (sock'[o] = sock[o] \/
              (sock[o] \in Unwired /\ sock'[o] \in Unwired))
    BY <1>1, PageNoticesDoes
  <2> QED  BY <2>1, <1>q, WelcomeStep DEF Pages, Unwired
<1>2. CASE RoomNotices(p)
  <2>1. CASE p = "sender"
    <3>1. /\ to'["sender"] = to["sender"]
          /\ sock["sender"] \in Unwired /\ sock'["sender"] \in Unwired
          /\ sock'["receiver"] = sock["receiver"]
          /\ to'["receiver"] = IF Wired("receiver")
                               THEN to["receiver"] \o <<MasterMsg(FALSE)>>
                               ELSE to["receiver"]
      BY <1>2, <2>1, RoomNoticesDoes DEF Pages
    <3>2. WelcomeOK(sock'["sender"], to'["sender"])
      BY <3>1, <1>q, WelcomeStep DEF Unwired
    <3>3. WelcomeOK(sock'["receiver"], to'["receiver"])
      BY <3>1, <1>q, <1>n, <1>w, WelcomeStep DEF Pages
    <3> QED  BY <3>2, <3>3
  <2>2. CASE p = "receiver"
    <3>1. /\ to'["receiver"] = to["receiver"]
          /\ sock["receiver"] \in Unwired /\ sock'["receiver"] \in Unwired
          /\ sock'["sender"] = sock["sender"]
          /\ to'["sender"] = IF Wired("sender")
                               THEN to["sender"] \o <<Leave>>
                               ELSE to["sender"]
      BY <1>2, <2>2, RoomNoticesDoes DEF Pages
    <3>2. WelcomeOK(sock'["receiver"], to'["receiver"])
      BY <3>1, <1>q, WelcomeStep DEF Unwired
    <3>3. WelcomeOK(sock'["sender"], to'["sender"])
      BY <3>1, <1>q, <1>n, <1>w, WelcomeStep DEF Pages
    <3> QED  BY <3>2, <3>3
  <2> QED  BY <2>1, <2>2 DEF Pages
<1>3. CASE Reconnect(p)
  <2>1. CASE p = "sender"
    <3>1. /\ sock'["sender"] = "joining"
          /\ sock'["receiver"] = sock["receiver"]
          /\ to'["sender"] = <<WelcomeMaster(Present("receiver"))>>
          /\ to'["receiver"] = IF Wired("receiver")
                               THEN to["receiver"] \o <<MasterMsg(TRUE)>>
                               ELSE to["receiver"]
      BY <1>3, <2>1, SenderReconnects
    <3>2. WelcomeMaster(Present("receiver")) \in Welcomes
      BY WelcomeMessages
    <3>3. WelcomeOK(sock'["sender"], to'["sender"])
      BY <3>1, <3>2, WelcomeFirst
    <3>4. WelcomeOK(sock'["receiver"], to'["receiver"])
      BY <3>1, <1>q, <1>n, <1>w, WelcomeStep DEF Pages
    <3> QED  BY <3>3, <3>4
  <2>2. CASE p = "receiver"
    <3>1. /\ sock'["receiver"] = "joining"
          /\ sock'["sender"] = sock["sender"]
          /\ to'["receiver"] = <<WelcomePeer(Present("sender"))>>
          /\ to'["sender"] = IF Wired("sender") THEN to["sender"] \o <<Join>>
                             ELSE to["sender"]
      BY <1>3, <2>2, ReceiverReconnects
    <3>2. WelcomePeer(Present("sender")) \in Welcomes
      BY WelcomeMessages
    <3>3. WelcomeOK(sock'["receiver"], to'["receiver"])
      BY <3>1, <3>2, WelcomeFirst
    <3>4. WelcomeOK(sock'["sender"], to'["sender"])
      BY <3>1, <1>q, <1>n, <1>w, WelcomeStep DEF Pages
    <3> QED  BY <3>3, <3>4
  <2> QED  BY <2>1, <2>2 DEF Pages
<1>4. CASE Drop(p)
  <2>1. /\ sock'[p] = "dead" /\ to'[p] = <<>>
        /\ \A o \in Pages \ {p} : sock'[o] = sock[o] /\ to'[o] = to[o]
    BY <1>4, DropDoes
  <2>2. \A o \in Pages : \/ sock'[o] = "dead" /\ to'[o] = <<>>
                         \/ sock'[o] = sock[o] /\ to'[o] = to[o]
    BY <2>1
  <2> QED  BY <2>2, <1>q, WelcomeStep, WelcomeEmpty DEF Pages
<1> QED  BY <1>1, <1>2, <1>3, <1>4

\* The sender's queue after an attempt of the receiver, or none.
LEMMA AttemptWelcome ==
    ASSUME TypeInv, WelcomeInv, sock'["sender"] = sock["sender"],
           to'["sender"] = to["sender"] \/
           (Wired("sender") /\ to'["sender"] = to["sender"] \o <<Restart>>)
    PROVE  WelcomeOK(sock'["sender"], to'["sender"])
<1>1. to["sender"] \in Seq(ToSender) /\ <<Restart>> \in Seq(ToSender)
  BY QueuesTyped, MessagesTyped, OneMessage
<1>2. None(<<Restart>>, Welcomes)
  BY NoWelcomes
<1>3. Wired("sender") => sock["sender"] \in {"joining", "up"}
  BY WiredIs DEF Pages
<1> QED  BY <1>1, <1>2, <1>3, WelcomeStep DEF WelcomeInv

LEMMA GivesUpWelcome ==
    ASSUME TypeInv, WelcomeInv, GivesUp
    PROVE  WelcomeInv'
  BY WelcomeEmpty DEF WelcomeInv, GivesUp

LEMMA AttemptsWelcome ==
    ASSUME TypeInv, WelcomeInv, NEW c, Attempts(c)
    PROVE  WelcomeInv'
<1>1. WelcomeOK(sock'["sender"], to'["sender"])
  BY AttemptWelcome DEF Attempts
<1> QED  BY <1>1 DEF WelcomeInv, Attempts

LEMMA MessagesWelcome ==
    ASSUME TypeInv, WelcomeInv, Enough, OnSenderMessage \/ OnReceiverMessage
    PROVE  WelcomeInv'
<1>q. to["sender"] \in Seq(ToSender) /\ to["receiver"] \in Seq(ToReceiver)
  BY QueuesTyped
<1>1. CASE OnSenderMessage
  <2>1. /\ to["sender"] # <<>> /\ Head(to["sender"]) \in ToSender
        /\ to'["sender"] = Tail(to["sender"]) /\ to'["receiver"] = to["receiver"]
        /\ sock'["receiver"] = sock["receiver"]
        /\ IF Head(to["sender"]).t = "welcome" THEN sock'["sender"] = "up"
           ELSE sock'["sender"] = sock["sender"]
    BY <1>1, SenderReads
  <2>2. Head(to["sender"]) \in Welcomes <=> Head(to["sender"]).t = "welcome"
    BY <2>1, WelcomesTyped
  <2>3. WelcomeOK(sock'["sender"], to'["sender"])
    BY <2>1, <2>2, <1>q, WelcomeStep DEF WelcomeInv
  <2> QED  BY <2>1, <2>3 DEF WelcomeInv
<1>2. CASE OnReceiverMessage
  <2>1. PICK m \in ToReceiver, q \in Seq(ToReceiver) :
            /\ to["receiver"] # <<>> /\ m = Head(to["receiver"]) /\ q = Tail(to["receiver"])
            /\ OnReceiverWelcome(m, q) \/ OnMaster(m, q) \/ OnOffer(m, q) \/ OnSenderIce(m, q)
    BY <1>2, ReceiverReads
  <2>2. m \in Welcomes <=> m.t = "welcome"
    BY WelcomesTyped
  <2>3. MAX_RESTARTS > 0
    BY NegotiationAssumption DEF Enough
  <2>4. /\ to'["receiver"] = q
        /\ IF m.t = "welcome" THEN sock'["receiver"] = "up"
           ELSE sock'["receiver"] = sock["receiver"]
        /\ sock'["sender"] = sock["sender"]
        /\ to'["sender"] = to["sender"] \/
              (Wired("sender") /\ to'["sender"] = to["sender"] \o <<Restart>>)
    <3>1. CASE OnReceiverWelcome(m, q)
      BY <3>1, WelcomeReads
    <3>2. CASE OnMaster(m, q)
      BY <3>2, <2>3, MasterReads
    <3>3. CASE OnOffer(m, q)
      BY <3>3, OfferReads
    <3>4. CASE OnSenderIce(m, q)
      BY <3>4, IceReads
    <3> QED  BY <2>1, <3>1, <3>2, <3>3, <3>4
  <2>5. WelcomeOK(sock'["receiver"], to'["receiver"])
    <3>1. PICK p, st : p = to["receiver"] /\ st = sock["receiver"]
      OBVIOUS
    <3>2. p \in Seq(ToReceiver) /\ p # <<>> /\ WelcomeOK(st, p) /\ q = Tail(p) /\ m = Head(p)
      BY <3>1, <2>1, <1>q DEF WelcomeInv
    <3>3. IF Head(p) \in Welcomes THEN sock'["receiver"] = "up"
          ELSE sock'["receiver"] = st
      BY <3>1, <3>2, <2>2, <2>4
    <3>4. WelcomeOK(sock'["receiver"], Tail(p))
      BY <3>2, <3>3, WelcomeRead
    <3> QED  BY <3>2, <3>4, <2>4
  <2>6. WelcomeOK(sock'["sender"], to'["sender"])
    BY <2>4, AttemptWelcome
  <2> QED  BY <2>5, <2>6 DEF WelcomeInv
<1> QED  BY <1>1, <1>2

LEMMA SignalsWelcome ==
    ASSUME TypeInv, WelcomeInv, offer \/ answer
    PROVE  WelcomeInv'
<1>q. /\ to["sender"] \in Seq(ToSender) /\ to["receiver"] \in Seq(ToReceiver)
      /\ \A p \in Pages : Wired(p) <=> sock[p] \in {"joining", "up"}
  BY QueuesTyped, WiredIs
<1>p. "sender" \in Pages /\ "receiver" \in Pages
  BY DEF Pages
<1>1. CASE offer
  <2>1. PICK ms : ms = <<Offer(link.id), IceOfLink(link.id)>>
    OBVIOUS
  <2>2. link.id \in Ids
    BY <1>1, OfferDoes, PcIs DEF Links
  <2>3. ms \in Seq(ToReceiver) /\ None(ms, Welcomes)
    <3>1. Offer(link.id) \in ToReceiver /\ IceOfLink(link.id) \in ToReceiver
      BY <2>2, MessagesTyped
    <3> QED  BY <3>1, <2>1, NoWelcomes
  <2>4. /\ sock' = sock /\ to'["sender"] = to["sender"]
        /\ to'["receiver"] = IF sock["sender"] = "up" /\ Wired("receiver")
                             THEN to["receiver"] \o ms ELSE to["receiver"]
    BY <1>1, <2>1, OfferDoes
  <2>5. WelcomeOK(sock'["receiver"], to'["receiver"])
    BY <2>3, <2>4, <1>q, <1>p, WelcomeAppended DEF WelcomeInv
  <2> QED  BY <2>4, <2>5 DEF WelcomeInv
<1>2. CASE answer
  <2>1. PICK ms : ms = <<Answer(pc.link, pc.id), IceOfPc(pc.id)>>
    OBVIOUS
  <2>2. pc.link \in Ids /\ pc.id \in Ids
    BY <1>2, AnswerDoes, PcIs DEF Pcs
  <2>3. ms \in Seq(ToSender) /\ None(ms, Welcomes)
    <3>1. Answer(pc.link, pc.id) \in ToSender /\ IceOfPc(pc.id) \in ToSender
      BY <2>2, MessagesTyped
    <3> QED  BY <3>1, <2>1, NoWelcomes
  <2>4. /\ sock' = sock /\ to'["receiver"] = to["receiver"]
        /\ to'["sender"] = IF sock["receiver"] = "up" /\ Wired("sender")
                           THEN to["sender"] \o ms ELSE to["sender"]
    BY <1>2, <2>1, AnswerDoes
  <2>5. WelcomeOK(sock'["sender"], to'["sender"])
    BY <2>3, <2>4, <1>q, <1>p, WelcomeAppended DEF WelcomeInv
  <2> QED  BY <2>4, <2>5 DEF WelcomeInv
<1> QED  BY <1>1, <1>2

LEMMA LinkStepsSame ==
    ASSUME SenderOpens \/ SenderIceReturns \/ SenderIceDisconnects
               \/ SenderChannelCloses \/ SenderTimer
    PROVE  UNCHANGED <<sock, to, path, pc, rcv, spent>>
  BY DEF SenderOpens, SenderIceReturns, SenderIceDisconnects, SenderChannelCloses,
     SenderTimer, DisconnectTimeout, SenderIceFails, ConnectTimeout, SenderLinkStep, close

LEMMA PcStepsSame ==
    ASSUME ReceiverOpens \/ ReceiverIceReturns \/ ReceiverIceDisconnects
    PROVE  UNCHANGED <<sock, to, path, link, spent>>
  BY DEF ReceiverOpens, ReceiverIceReturns, ReceiverIceDisconnects

\* The connection is lost, by ICE or by its channel.
LEMMA LossDoes ==
    ASSUME TypeInv, ReceiverChannelCloses \/ ReceiverIceFails
    PROVE  /\ UNCHANGED <<path, link, spent>>
           /\ \E c \in {[pc EXCEPT !.dc = "closed"], [pc EXCEPT !.ice = "failed"]} :
                  \/ GivesUp \/ Attempts(c)
                  \/ /\ rcv'.restarts = rcv.restarts /\ rcv'.status = "reconnecting"
                     /\ pc' = c /\ sock' = sock /\ to' = to
<1>1. CASE ReceiverChannelCloses
  BY <1>1, LostDoes DEF ReceiverChannelCloses
<1>2. CASE ReceiverIceFails
  BY <1>2, LostDoes DEF ReceiverIceFails
<1> QED  BY <1>1, <1>2

LEMMA WelcomeKeeps ==
    ASSUME TypeInv, WelcomeInv, Enough, [Next]_vars
    PROVE  WelcomeInv'
<1>1. CASE OnSenderMessage \/ OnReceiverMessage
  BY <1>1, MessagesWelcome
<1>2. CASE offer \/ answer
  BY <1>2, SignalsWelcome
<1>3. CASE SenderOpens \/ SenderIceReturns \/ SenderIceDisconnects
               \/ SenderChannelCloses \/ SenderTimer
  BY <1>3, LinkStepsSame DEF WelcomeInv
<1>4. CASE ReceiverOpens \/ ReceiverIceReturns \/ ReceiverIceDisconnects
  BY <1>4, PcStepsSame DEF WelcomeInv
<1>5. CASE ReceiverChannelCloses \/ ReceiverIceFails
  <2>1. CASE GivesUp
    BY <2>1, GivesUpWelcome
  <2>2. CASE \E c : Attempts(c)
    BY <2>2, AttemptsWelcome
  <2>3. CASE sock' = sock /\ to' = to
    BY <2>3 DEF WelcomeInv
  <2> QED  BY <2>1, <2>2, <2>3, <1>5, LossDoes
<1>6. CASE Watchdog
  <2>1. CASE GivesUp
    BY <2>1, GivesUpWelcome
  <2>2. CASE Attempts(pc)
    BY <2>2, AttemptsWelcome
  <2>3. CASE sock' = sock /\ to' = to
    BY <2>3 DEF WelcomeInv
  <2> QED  BY <2>1, <2>2, <2>3, <1>6, WatchdogDoes
<1>7. CASE \E p \in Pages : PageNotices(p) \/ RoomNotices(p) \/ Reconnect(p) \/ Drop(p)
  BY <1>7, SocketsWelcome
<1>8. CASE SenderReloads
  BY <1>8, SenderReloadsDoes, WelcomeEmpty DEF WelcomeInv
<1>9. CASE ReceiverReloads
  BY <1>9, ReceiverReloadsDoes, WelcomeEmpty DEF WelcomeInv
<1>10. CASE leave
  <2>1. RcvOK(rcv) /\ finish(rcv, "closed")
    BY <1>10 DEF leave, TypeInv
  <2> QED  BY <2>1, FinishDoes, WelcomeEmpty DEF WelcomeInv
<1>11. CASE Outage \/ PathReturns
  BY <1>11 DEF Outage, PathReturns, WelcomeInv
<1>12. CASE UNCHANGED vars
  BY <1>12 DEF vars, WelcomeInv
<1> QED
  BY <1>1, <1>2, <1>3, <1>4, <1>5, <1>6, <1>7, <1>8, <1>9, <1>10, <1>11, <1>12
  DEF Next, System, Progress, ReceiverTimer, Environment

-----------------------------------------------------------------------------
(* When the timers run.                                                    *)

LEMMA PairedIs ==
    ASSUME ConnInv, path
    PROVE  /\ Paired <=> Applied(link, pc)
           /\ Reachable <=> Applied(link, pc) /\ Known(link, pc)
<1>1. Applied(link, pc) => pc.remote
  BY DEF ConnInv, Conn, AnsweredOK, Applied, Same
<1> QED  BY <1>1 DEF Paired, Reachable, Applied, Same, Known

LEMMA QuietMeans ==
    ASSUME TypeInv, path, ConnInv, TimersRun
    PROVE  /\ to["sender"] = <<>> /\ to["receiver"] = <<>>
           /\ pc # NoPc => ~pc.setting
           /\ link # NoLink /\ link.open => Applied(link, pc) /\ link.ice = "connected"
           /\ pc # NoPc /\ pc.dc = "open" => Healthy /\ Applied(link, pc)
           /\ link # NoLink => link.timer # "disconnect"
           /\ link # NoLink /\ link.need => link.sig # "stable"
           /\ Applied(link, pc) /\ Known(link, pc) => Healthy
<1>1. to["sender"] = <<>> /\ to["receiver"] = <<>>
  BY DEF TimersRun, Pages
<1>2. pc # NoPc => ~pc.setting
  BY DEF TimersRun, AnswerPending
<1>3. link # NoLink /\ link.need => link.sig # "stable"
  BY DEF TimersRun, OfferPending
<1>4. ASSUME link # NoLink, link.open
      PROVE  Applied(link, pc) /\ link.ice = "connected"
  <2>1. /\ link.ice \in {"connected", "disconnected"}
        /\ link.remote = pc.id => Applied(link, pc)
    BY <1>4 DEF ConnInv, Conn, LinkShape
  <2>2. pc.id = link.remote
    BY <2>1, <1>4 DEF TimersRun, SenderHearsClose
  <2>3. Paired
    BY <2>1, <2>2, PairedIs
  <2>4. link.ice # "disconnected"
    BY <2>3, <1>4 DEF TimersRun, SenderMayReturn
  <2> QED  BY <2>1, <2>2, <2>4
<1>5. ASSUME pc # NoPc, pc.dc = "open"
      PROVE  Healthy /\ Applied(link, pc)
  <2>1. /\ pc.ice # "failed" /\ pc.ice # "checking" /\ pc \in Pcs
        /\ Same(link, pc) => Applied(link, pc)
    BY <1>5, PcIs DEF ConnInv, Conn, PcShape
  <2>2. link.id = pc.link
    BY <2>1, <1>5 DEF TimersRun, ReceiverHearsClose
  <2>3. link # NoLink
    BY <2>1, <2>2 DEF Pcs, NoLink, Ids
  <2>4. Paired /\ Applied(link, pc)
    BY <2>1, <2>2, <2>3, <1>5, PairedIs DEF Same
  <2>5. pc.ice # "disconnected"
    BY <2>4 DEF TimersRun, ReceiverMayReturn
  <2> QED  BY <2>1, <2>4, <2>5, <1>5 DEF Pcs, IceStates, Healthy
<1>6. link # NoLink => link.timer # "disconnect"
  <2>1. link # NoLink /\ ~link.open => link.ice \in {"checking", "failed"}
    BY DEF ConnInv, Conn, LinkShape
  <2>2. link # NoLink /\ link.timer = "disconnect" => link.ice = "disconnected"
    BY DEF ConnInv, Conn, LinkShape
  <2> QED  BY <2>1, <2>2, <1>4
<1>7. ASSUME Applied(link, pc), Known(link, pc) PROVE Healthy
  <2>1. pc # NoPc /\ Same(link, pc) /\ pc \in Pcs
    BY <1>7, PcIs DEF Applied, Same
  <2>2. /\ pc.dc = "none" => pc.ice = "checking"
        /\ pc.dc # "closed"
    BY <1>7, <2>1 DEF ConnInv, Conn, PcShape
  <2>3. ~(pc.dc = "none" /\ pc.ice = "checking")
    BY <1>7, PairedIs DEF TimersRun, ReceiverMayOpen
  <2>4. pc.dc = "open"
    BY <2>1, <2>2, <2>3 DEF Pcs
  <2> QED  BY <2>1, <2>4, <1>5
<1> QED  BY <1>1, <1>2, <1>3, <1>4, <1>5, <1>6, <1>7
-----------------------------------------------------------------------------
(* The round of offer and answer, at each step.                            *)

\* A new link has no offers, and nothing of the receiver's is for it.
LEMMA NewLinkConn ==
    ASSUME TypeInv, ConnInv, addLink
    PROVE  /\ Conn(link', pc, to["sender"], to["receiver"])
           /\ link' # NoLink /\ link'.id \in Ids
           /\ pc # NoPc => pc.link # link'.id
           /\ link'.remote = 0 /\ link'.heard = {} /\ link'.ice = "checking"
           /\ ~link'.open /\ link'.need /\ link'.sig = "stable"
           /\ None(to["receiver"], OffersOf(link'.id))
<1>1. PICK i : i = Fresh(LinksNamed)
  OBVIOUS
<1>2. link' = NewLink(i)
  BY <1>1 DEF addLink
<1>3. link' # NoLink /\ link' \in Links /\ i \notin LinksNamed
  BY <1>1, <1>2, NewLinkTyped DEF LinkOK
<1>4. /\ link'.id = i /\ link'.remote = 0 /\ link'.heard = {} /\ link'.ice = "checking"
      /\ ~link'.open /\ link'.need /\ link'.sig = "stable"
  BY <1>2 DEF NewLink
<1>5. i \in Ids
  BY <1>3, <1>4 DEF Links
<1>6. pc # NoPc => pc \in Pcs /\ pc.link # i
  BY <1>3, PcIs DEF LinksNamed
<1>7. None(to["receiver"], OffersOf(i))
  <2>1. SUFFICES ASSUME NEW k \in 1 .. Len(to["receiver"]),
                        to["receiver"][k] \in OffersOf(i)
                 PROVE  FALSE
    BY DEF None
  <2>2. to["receiver"][k].t = "offer" /\ to["receiver"][k].link = i
    BY <2>1 DEF OffersOf
  <2>3. i \in LinksNamed
    BY <2>1, <2>2 DEF LinksNamed, SentTo
  <2> QED  BY <2>3, <1>3
<1>8. Conn(link', pc, to["sender"], to["receiver"])
  BY <1>2, <1>5, <1>6, <1>7, ConnNewLink DEF ConnInv
<1> QED  BY <1>3, <1>4, <1>5, <1>6, <1>7, <1>8

LEMMA JoinedConn ==
    ASSUME TypeInv, ConnInv, peerJoined
    PROVE  Conn(link', pc, to["sender"], to["receiver"])
<1>1. CASE ~SenderConnected
  BY <1>1, NewLinkConn DEF peerJoined
<1>2. CASE SenderConnected
  <2>1. link # NoLink /\ link \in Links /\ link' = [link EXCEPT !.gone = FALSE]
    BY <1>2, PcIs DEF SenderConnected, peerJoined
  <2>2. PICK k : k = link'
    OBVIOUS
  <2>3. /\ k.id = link.id /\ k.remote = link.remote /\ k.sig = link.sig
        /\ k.need = link.need /\ k.heard = link.heard /\ k.ice = link.ice
        /\ k.open = link.open /\ k.timer = link.timer
    BY <2>1, <2>2 DEF Links
  <2>4. k # NoLink
    BY <2>1, <2>2, <2>3, LinkFields DEF Links
  <2>5. LinkShape(k, pc, to["receiver"])
    <3>1. Due(k, to["receiver"]) <=> Due(link, to["receiver"])
      BY <2>3 DEF Due
    <3> QED
      BY <2>1, <2>3, <2>4, <3>1 DEF ConnInv, Conn, LinkShape, Applied, Same, Known
  <2>6. Applied(link, pc) => k.ice # "failed"
    BY <2>3 DEF ConnInv, Conn, RoundOK
  <2>7. Conn(k, pc, to["sender"], to["receiver"])
    BY <2>1, <2>3, <2>4, <2>5, <2>6, ConnLink DEF ConnInv
  <2> QED  BY <2>2, <2>7
<1> QED  BY <1>1, <1>2
\* Candidates come in, or the receiver has left: the link is what it was.
LEMMA HeardConn ==
    ASSUME TypeInv, ConnInv, link # NoLink, NEW k,
           \/ k = [link EXCEPT !.gone = TRUE]
           \/ \E i \in Ids : k = [link EXCEPT !.heard = @ \cup {i}]
    PROVE  Conn(k, pc, to["sender"], to["receiver"])
<1>1. link \in Links
  BY PcIs
<1>2. /\ k.id = link.id /\ k.remote = link.remote /\ k.sig = link.sig
      /\ k.need = link.need /\ link.heard \subseteq k.heard /\ k.ice = link.ice
      /\ k.open = link.open /\ k.timer = link.timer /\ k \in Links
  <2>1. CASE k = [link EXCEPT !.gone = TRUE]
    BY <2>1, <1>1 DEF Links
  <2>2. CASE \E i \in Ids : k = [link EXCEPT !.heard = @ \cup {i}]
    <3>1. PICK i \in Ids : k = [link EXCEPT !.heard = @ \cup {i}]
      BY <2>2
    <3>2. PICK h : h = link.heard \cup {i}
      OBVIOUS
    <3>3. h \in SUBSET Ids /\ link.heard \subseteq h
      BY <3>2, <1>1 DEF Links
    <3>4. k = [link EXCEPT !.heard = h]
      BY <3>1, <3>2
    <3> QED  BY <3>3, <3>4, <1>1 DEF Links
  <2> QED  BY <2>1, <2>2
<1>3. k # NoLink
  BY <1>2, LinkFields
<1>4. LinkShape(k, pc, to["receiver"])
  <2>1. Due(k, to["receiver"]) <=> Due(link, to["receiver"])
    BY <1>2 DEF Due
  <2>2. Known(link, pc) => Known(k, pc)
    BY <1>2 DEF Known
  <2> QED
    BY <1>2, <1>3, <2>1, <2>2 DEF ConnInv, Conn, LinkShape, Applied, Same
<1>5. Applied(link, pc) => k.ice # "failed"
  BY <1>2 DEF ConnInv, Conn, RoundOK
<1> QED  BY <1>2, <1>3, <1>4, <1>5, ConnLink DEF ConnInv

\* The queue that has been read from.
LEMMA ReadConn ==
    ASSUME NEW l, NEW c, NEW s \in Seq(ToSender), NEW r \in Seq(ToReceiver), Conn(l, c, s, r)
    PROVE  /\ s # <<>> => Conn(l, c, Tail(s), r)
           /\ r # <<>> => Conn(l, c, s, Tail(r))
<1>1. \A i : /\ NoMore(s, s, AnswersOf(i)) /\ NoMore(r, r, OffersOf(i))
             /\ s # <<>> => NoMore(s, Tail(s), AnswersOf(i))
             /\ r # <<>> => NoMore(r, Tail(r), OffersOf(i))
  BY NoMoreHas
<1> QED  BY <1>1, ConnNoMore

\* The link after a message: what an answer says, or a link that could have
\* been there before it.
LEMMA SenderMessageConn ==
    ASSUME TypeInv, ConnInv, OnSenderMessage
    PROVE  ConnInv'
<1>1. PICK s \in Seq(ToSender), r \in Seq(ToReceiver) : s = to["sender"] /\ r = to["receiver"]
  BY QueuesTyped
<1>2. PICK m \in ToSender : m = Head(s) /\ s # <<>>
  BY <1>1, SenderReads
<1>3. to'["sender"] = Tail(s) /\ to'["receiver"] = r /\ pc' = pc
  BY <1>1, SenderReads
<1>4. \/ m.t = "welcome" /\ (IF m.peer THEN peerJoined ELSE UNCHANGED link)
      \/ m.t = "join" /\ peerJoined
      \/ m.t = "leave"
         /\ link' = IF SenderConnected THEN [link EXCEPT !.gone = TRUE] ELSE NoLink
      \/ m.t = "restart" /\ addLink
      \/ OnAnswer(m)
      \/ OnReceiverIce(m)
  BY <1>1, <1>2, SenderReads
<1>5. SUFFICES Conn(link', pc, Tail(s), r)
  BY <1>3 DEF ConnInv
<1>6. ASSUME Conn(link', pc, s, r) PROVE Conn(link', pc, Tail(s), r)
  BY <1>6, <1>2, ReadConn
<1>7. CASE peerJoined
  BY <1>7, <1>1, <1>6, JoinedConn
<1>8. CASE UNCHANGED link
  BY <1>8, <1>1, <1>6 DEF ConnInv
<1>9. CASE link' = IF SenderConnected THEN [link EXCEPT !.gone = TRUE] ELSE NoLink
  BY <1>9, <1>1, <1>6, HeardConn, ConnNoLink DEF SenderConnected, ConnInv
<1>10. CASE addLink
  BY <1>10, <1>1, <1>6, NewLinkConn
<1>11. CASE OnReceiverIce(m)
  <2>1. m.pc \in Ids
    BY <1>11, SenderMessages DEF OnReceiverIce
  <2>2. CASE link # NoLink /\ link.remote \in {0, m.pc}
    BY <2>1, <2>2, <1>11, <1>1, <1>6, HeardConn DEF OnReceiverIce
  <2>3. CASE ~(link # NoLink /\ link.remote \in {0, m.pc})
    BY <2>3, <1>11, <1>8 DEF OnReceiverIce
  <2> QED  BY <2>2, <2>3
<1>12. CASE OnAnswer(m)
  <2>1. CASE link = NoLink \/ link.sig # "have-local-offer"
    BY <2>1, <1>12, <1>8 DEF OnAnswer
  <2>2. CASE ~(link = NoLink \/ link.sig # "have-local-offer")
    <3>1. link \in Links /\ link # NoLink /\ m.t = "answer" /\ m.pc \in Ids
      BY <2>2, <1>12, PcIs, SenderMessages DEF OnAnswer
    <3>2. PICK k : k = link'
      OBVIOUS
    <3>3. k = [link EXCEPT !.sig = "stable", !.remote = m.pc, !.heard = @ \cap {m.pc},
                           !.ice = IF @ = "failed" THEN "checking" ELSE @]
      BY <2>2, <1>12, <3>2 DEF OnAnswer
    <3>4. /\ k.sig = "stable" /\ k.id = link.id /\ k.remote = m.pc
          /\ k.need = link.need /\ k.open = link.open /\ k.timer = link.timer
          /\ k.ice = (IF link.ice = "failed" THEN "checking" ELSE link.ice)
          /\ k \in Links
      <4>1. /\ k.sig = "stable" /\ k.id = link.id /\ k.remote = m.pc
            /\ k.need = link.need /\ k.open = link.open /\ k.timer = link.timer
            /\ k.ice = (IF link.ice = "failed" THEN "checking" ELSE link.ice)
        BY <3>1, <3>3 DEF Links
      <4>2. k.heard = link.heard \cap {m.pc} /\ link.heard \cap {m.pc} \in SUBSET Ids
        BY <3>1, <3>3 DEF Links
      <4>4. k \in Links
        BY <3>1, <3>3, <4>2 DEF Links, IceStates
      <4> QED  BY <4>1, <4>4
    <3>5. k # NoLink /\ Head(s) \in AnswersOf(m.pc) /\ m.pc # 0
      BY <3>1, <3>4, <1>2, LinkFields DEF AnswersOf, Ids
    <3>6. Conn(link, pc, s, r) /\ link.sig # "stable"
      BY <1>1, <2>2 DEF ConnInv
    <3>7. Conn(k, pc, Tail(s), r)
      BY <3>1, <3>4, <3>5, <3>6, <1>2, ConnApplied
    <3> QED  BY <3>7, <3>2
  <2> QED  BY <2>1, <2>2
<1> QED  BY <1>4, <1>7, <1>8, <1>9, <1>10, <1>11, <1>12
LEMMA OfferConn ==
    ASSUME TypeInv, ConnInv, offer
    PROVE  ConnInv'
<1>1. PICK s \in Seq(ToSender), r \in Seq(ToReceiver) : s = to["sender"] /\ r = to["receiver"]
  BY QueuesTyped
<1>2. PICK k, ms : k = link' /\ ms = <<Offer(link.id), IceOfLink(link.id)>>
  OBVIOUS
<1>3. /\ link # NoLink /\ link.need /\ link.sig = "stable" /\ pc' = pc
      /\ k = [link EXCEPT !.need = FALSE, !.sig = "have-local-offer"]
      /\ to'["sender"] = s
      /\ to'["receiver"] \in {r, r \o ms}
  BY <1>1, <1>2, OfferDoes
<1>4. link \in Links
  BY <1>3, PcIs
<1>5. /\ k.id = link.id /\ k.remote = link.remote /\ ~k.need
      /\ k.heard = link.heard /\ k.ice = link.ice
      /\ k.open = link.open /\ k.timer = link.timer /\ k \in Links
  BY <1>3, <1>4 DEF Links
<1>6. k # NoLink
  BY <1>5, LinkFields
<1>7. None(r, OffersOf(link.id)) /\ AtMostOne(r, OffersOf(link.id))
  BY <1>1, <1>3 DEF ConnInv, Conn, RoundOK
<1>8. ms \in Seq(ToReceiver) /\ AtMostOne(ms, OffersOf(link.id))
  <2>1. Offer(link.id) \in ToReceiver /\ IceOfLink(link.id) \in ToReceiver
    BY <1>4, MessagesTyped DEF Links
  <2>2. IceOfLink(link.id) \notin OffersOf(link.id)
    BY Silent
  <2> QED  BY <2>1, <2>2, <1>2, TwoHas
<1>9. AtMostOne(to'["receiver"], OffersOf(link.id))
  BY <1>3, <1>7, <1>8, AppendHas
<1>10. Conn(k, pc, s, to'["receiver"])
  BY <1>1, <1>3, <1>5, <1>6, <1>9, ConnOffers DEF ConnInv
<1> QED  BY <1>2, <1>3, <1>10 DEF ConnInv

LEMMA AnswerConn ==
    ASSUME TypeInv, ConnInv, answer
    PROVE  ConnInv'
<1>1. PICK s \in Seq(ToSender), r \in Seq(ToReceiver) : s = to["sender"] /\ r = to["receiver"]
  BY QueuesTyped
<1>2. PICK d, ms : d = pc' /\ ms = <<Answer(pc.link, pc.id), IceOfPc(pc.id)>>
  OBVIOUS
<1>3. /\ pc # NoPc /\ pc.setting /\ link' = link
      /\ d = [pc EXCEPT !.setting = FALSE, !.remote = TRUE,
                        !.cand = IF @ = "queued" THEN "added" ELSE @]
      /\ to'["receiver"] = r
      /\ to'["sender"] \in {s, s \o ms}
  BY <1>1, <1>2, AnswerDoes
<1>4. pc \in Pcs
  BY <1>3, PcIs
<1>5. /\ d.id = pc.id /\ d.link = pc.link /\ ~d.setting /\ d.remote
      /\ d.ice = pc.ice /\ d.dc = pc.dc
      /\ pc.cand = "added" => d.cand = "added"
  BY <1>3, <1>4 DEF Pcs
<1>6. d # NoPc
  BY <1>4, <1>5 DEF Pcs, Ids, NoPc
<1>7. Same(link, pc) => None(s, AnswersOf(pc.id)) /\ AtMostOne(s, AnswersOf(pc.id))
  BY <1>1, <1>3 DEF ConnInv, Conn, RoundOK
<1>8. ms \in Seq(ToSender) /\ AtMostOne(ms, AnswersOf(pc.id))
  <2>1. Answer(pc.link, pc.id) \in ToSender /\ IceOfPc(pc.id) \in ToSender
    BY <1>4, MessagesTyped DEF Pcs
  <2>2. IceOfPc(pc.id) \notin AnswersOf(pc.id)
    BY Silent
  <2> QED  BY <2>1, <2>2, <1>2, TwoHas
<1>9. Same(link, pc) => AtMostOne(to'["sender"], AnswersOf(pc.id))
  BY <1>3, <1>7, <1>8, AppendHas
<1>10. Known(link, pc) => Known(link, d)
  BY <1>5 DEF Known
<1>11. Conn(link, d, to'["sender"], r)
  <2>1. PICK s2 : s2 = to'["sender"]
    OBVIOUS
  <2>2. Conn(link, pc, s, r)
    BY <1>1 DEF ConnInv
  <2>3. Same(link, pc) => AtMostOne(s2, AnswersOf(pc.id))
    BY <2>1, <1>9
  <2>4. Conn(link, d, s2, r)
    BY <2>2, <2>3, <1>3, <1>5, <1>6, <1>10, ConnAnswers
  <2> QED  BY <2>1, <2>4
<1> QED  BY <1>2, <1>3, <1>11 DEF ConnInv

\* An offer that has been read, of the link there is or of an earlier one.
LEMMA ReadOffer ==
    ASSUME NEW r \in Seq(ToReceiver), r # <<>>, Head(r).t = "offer",
           LinkOK(link), RoundOK(link, pc, to["sender"], r), link # NoLink
    PROVE  /\ AtMostOne(Tail(r), OffersOf(link.id))
           /\ None(r, OffersOf(link.id)) =>
                  None(Tail(r), OffersOf(link.id)) /\ Head(r).link # link.id
           /\ Head(r).link = link.id => None(Tail(r), OffersOf(link.id))
<1>1. AtMostOne(r, OffersOf(link.id))
  BY DEF RoundOK
<1>2. Head(r) \in ToReceiver
  OBVIOUS
<1>3. Head(r).link = link.id => Head(r) \in OffersOf(link.id)
  BY <1>2 DEF OffersOf
<1> QED  BY <1>1, <1>3, TailHas
LEMMA NewPcConn ==
    ASSUME TypeInv, ConnInv, NEW r \in Seq(ToReceiver), r = to["receiver"], r # <<>>,
           NEW m, m = Head(r), m.t = "offer",
           NEW d, d = NewPc(Fresh(PcsNamed), m.link)
    PROVE  /\ Conn(link, d, to["sender"], Tail(r))
           /\ d # NoPc /\ d \in Pcs
           /\ None(to["sender"], AnswersOf(d.id))
           /\ d.link = m.link /\ d.setting /\ ~d.remote /\ d.cand = "none"
           /\ d.ice = "checking" /\ d.dc = "none"
           /\ link # NoLink => link.remote # d.id /\ d.id \notin link.heard
<1>1. PICK i : i = Fresh(PcsNamed)
  OBVIOUS
<1>2. m.link \in Ids
  <2>1. m \in ToReceiver
    OBVIOUS
  <2> QED  BY <2>1, ReceiverMessages
<1>3. d = NewPc(i, m.link) /\ d \in Pcs /\ i \notin PcsNamed
  BY <1>1, <1>2, NewPcTyped DEF NewPc
<1>4. /\ d.id = i /\ d.link = m.link /\ d.setting = TRUE /\ d.remote = FALSE
      /\ d.cand = "none" /\ d.ice = "checking" /\ d.dc = "none"
  BY <1>3 DEF NewPc
<1>5. i \in Ids
  BY <1>3, <1>4 DEF Pcs
<1>6. link # NoLink => link.remote # i /\ i \notin link.heard
  BY <1>3 DEF PcsNamed
<1>7. None(to["sender"], AnswersOf(i))
  <2>1. SUFFICES ASSUME NEW k \in 1 .. Len(to["sender"]),
                        to["sender"][k] \in AnswersOf(i)
                 PROVE  FALSE
    BY DEF None
  <2>2. to["sender"][k].t = "answer" /\ to["sender"][k].pc = i
    BY <2>1 DEF AnswersOf
  <2>3. i \in PcsNamed
    BY <2>1, <2>2 DEF PcsNamed, SentTo
  <2> QED  BY <2>3, <1>3
<1>8. LinkOK(link) /\ RoundOK(link, pc, to["sender"], r)
  BY DEF TypeInv, ConnInv, Conn
<1>9. link # NoLink =>
           /\ AtMostOne(Tail(r), OffersOf(link.id))
           /\ None(r, OffersOf(link.id)) =>
                  None(Tail(r), OffersOf(link.id)) /\ m.link # link.id
           /\ m.link = link.id => None(Tail(r), OffersOf(link.id))
  BY <1>8, ReadOffer
<1>10. Conn(link, NewPc(i, m.link), to["sender"], Tail(r))
  <2>1. Conn(link, pc, to["sender"], r)
    BY DEF ConnInv
  <2> QED  BY <2>1, <1>5, <1>6, <1>7, <1>8, <1>9, ConnNewPc
<1>11. d # NoPc
  BY <1>4, <1>5 DEF NoPc, Ids
<1> QED  BY <1>3, <1>4, <1>6, <1>7, <1>10, <1>11

LEMMA SettingConn ==
    ASSUME TypeInv, ConnInv, NEW r \in Seq(ToReceiver), r = to["receiver"], r # <<>>,
           NEW m, m = Head(r), m.t = "offer",
           pc.link = m.link, pc.ice \notin {"failed", "closed"},
           NEW d, d = [pc EXCEPT !.setting = TRUE]
    PROVE  Conn(link, d, to["sender"], Tail(r))
<1>1. pc # NoPc /\ pc \in Pcs
  BY PcIs DEF NoPc
<1>2. /\ d.setting /\ d.remote = pc.remote /\ d.id = pc.id /\ d.link = pc.link
      /\ d.ice = pc.ice /\ d.dc = pc.dc /\ d.cand = pc.cand
  BY <1>1 DEF Pcs
<1>3. d # NoPc
  BY <1>1, <1>2 DEF NoPc, Pcs, Ids
<1>4. LinkOK(link) /\ RoundOK(link, pc, to["sender"], r) /\ Conn(link, pc, to["sender"], r)
  BY DEF TypeInv, ConnInv, Conn
<1>5. link # NoLink =>
           /\ AtMostOne(Tail(r), OffersOf(link.id))
           /\ None(r, OffersOf(link.id)) =>
                  None(Tail(r), OffersOf(link.id)) /\ pc.link # link.id
           /\ pc.link = link.id => None(Tail(r), OffersOf(link.id))
  BY <1>4, ReadOffer
<1> QED  BY <1>1, <1>2, <1>3, <1>4, <1>5, ConnSetting

\* Candidates come in.
LEMMA CandConn ==
    ASSUME TypeInv, ConnInv, pc # NoPc,
           NEW d, d = [pc EXCEPT !.cand = IF pc.remote THEN "added" ELSE "queued"]
    PROVE  Conn(link, d, to["sender"], to["receiver"])
<1>1. pc \in Pcs
  BY PcIs
<1>2. /\ d.setting = pc.setting /\ d.remote = pc.remote /\ d.id = pc.id
      /\ d.link = pc.link /\ d.ice = pc.ice /\ d.dc = pc.dc
      /\ pc.remote => d.cand = "added"
  BY <1>1 DEF Pcs
<1>3. d # NoPc
  BY <1>1, <1>2 DEF NoPc, Pcs, Ids
<1>4. Conn(link, pc, to["sender"], to["receiver"])
  BY DEF ConnInv
<1>5. pc.remote => Known(link, d)
  BY <1>2 DEF Known
<1>6. PcShape(link, d, to["sender"])
  <2>1. /\ Same(link, d) <=> Same(link, pc)
        /\ Applied(link, d) <=> Applied(link, pc)
    BY <1>2, <1>3 DEF Same, Applied
  <2> QED  BY <2>1, <1>2, <1>3, <1>4, <1>5 DEF Conn, PcShape
<1> QED  BY <1>2, <1>3, <1>4, <1>5, <1>6, ConnPc
\* A request for a restart, sent or not, is no answer.
LEMMA AskedConn ==
    ASSUME NEW l, NEW c, NEW s \in Seq(ToSender), NEW r \in Seq(ToReceiver), NEW s2,
           Conn(l, c, s, r), s2 = s \/ s2 = s \o <<Restart>>
    PROVE  Conn(l, c, s2, r)
<1>1. \A i : /\ NoMore(s, s, AnswersOf(i)) /\ NoMore(r, r, OffersOf(i))
             /\ NoMore(s, s \o <<Restart>>, AnswersOf(i))
  BY NoMoreHas, Silent, MessagesTyped
<1> QED  BY <1>1, ConnNoMore

LEMMA ReceiverMessageConn ==
    ASSUME TypeInv, ConnInv, Enough, OnReceiverMessage
    PROVE  ConnInv'
<1>1. PICK s \in Seq(ToSender), r \in Seq(ToReceiver) : s = to["sender"] /\ r = to["receiver"]
  BY QueuesTyped
<1>2. PICK m \in ToReceiver, q \in Seq(ToReceiver) :
          /\ r # <<>> /\ m = Head(r) /\ q = Tail(r)
          /\ OnReceiverWelcome(m, q) \/ OnMaster(m, q) \/ OnOffer(m, q) \/ OnSenderIce(m, q)
  BY <1>1, ReceiverReads
<1>3. link' = link /\ MAX_RESTARTS > 0
  BY ReceiverReads, NegotiationAssumption DEF Enough
<1>4. Conn(link, pc, s, r)
  BY <1>1 DEF ConnInv
<1>5. Conn(link, pc, s, q)
  BY <1>2, <1>4, ReadConn
<1>6. CASE OnReceiverWelcome(m, q)
  BY <1>6, <1>1, <1>3, <1>5, WelcomeReads DEF ConnInv
<1>7. CASE OnMaster(m, q)
  <2>1. /\ to'["receiver"] = q /\ pc' = pc
        /\ to'["sender"] = s \/ to'["sender"] = s \o <<Restart>>
    BY <1>7, <1>1, <1>3, MasterReads
  <2>2. Conn(link, pc, to'["sender"], q)
    BY <2>1, <1>5, AskedConn
  <2> QED  BY <2>1, <2>2, <1>3 DEF ConnInv
<1>8. CASE OnOffer(m, q)
  <2>1. /\ m.t = "offer" /\ to'["receiver"] = q /\ to'["sender"] = s
        /\ \/ pc' = NewPc(Fresh(PcsNamed), m.link)
           \/ /\ pc.link = m.link /\ pc.ice \notin {"failed", "closed"}
              /\ pc' = [pc EXCEPT !.setting = TRUE]
    BY <1>8, <1>1, OfferReads
  <2>2. Conn(link, pc', s, q)
    <3>1. PICK d : d = pc'
      OBVIOUS
    <3>2. CASE d = NewPc(Fresh(PcsNamed), m.link)
      BY <3>1, <3>2, <2>1, <1>1, <1>2, NewPcConn
    <3>3. CASE /\ pc.link = m.link /\ pc.ice \notin {"failed", "closed"}
               /\ d = [pc EXCEPT !.setting = TRUE]
      BY <3>1, <3>3, <2>1, <1>1, <1>2, SettingConn
    <3> QED  BY <3>1, <3>2, <3>3, <2>1
  <2> QED  BY <2>1, <2>2, <1>3 DEF ConnInv
<1>9. CASE OnSenderIce(m, q)
  <2>1. /\ to'["receiver"] = q /\ to'["sender"] = s
        /\ pc' = IF pc # NoPc /\ pc.link = m.link
                 THEN [pc EXCEPT !.cand = IF pc.remote THEN "added" ELSE "queued"]
                 ELSE pc
    BY <1>9, <1>1, IceReads
  <2>2. Conn(link, pc', s, r)
    BY <2>1, <1>1, <1>4, CandConn
  <2>3. Conn(link, pc', s, q)
    BY <2>2, <1>2, ReadConn
  <2> QED  BY <2>1, <2>3, <1>3 DEF ConnInv
<1> QED  BY <1>2, <1>6, <1>7, <1>8, <1>9

-----------------------------------------------------------------------------
(* ICE and the data channel.                                               *)

LEMMA SenderOpensConn ==
    ASSUME TypeInv, ConnInv, path, SenderOpens
    PROVE  ConnInv'
<1>1. UNCHANGED <<to, pc>>
  BY LinkStepsSame
<1>2. /\ Applied(link, pc) /\ Known(link, pc) /\ ~link.open /\ link.ice = "checking"
      /\ link # NoLink
  BY PairedIs DEF SenderOpens, SenderMayOpen, Applied, Same
<1>3. PICK l : l = [link EXCEPT !.ice = "connected", !.timer = "none", !.restarts = 0]
  OBVIOUS
<1>4. PICK k : k = link'
  OBVIOUS
<1>5. k = onOpen(l)
  BY <1>3, <1>4 DEF SenderOpens, SenderLinkStep
<1>6. link \in Links
  BY <1>2, PcIs
<1>7. /\ k.id = link.id /\ k.remote = link.remote /\ k.sig = link.sig
      /\ k.need = link.need /\ k.heard = link.heard /\ k.ice = "connected"
      /\ k.open = TRUE /\ k.timer = "none"
  BY <1>3, <1>5, <1>6 DEF Links, onOpen
<1>8. k # NoLink
  BY <1>6, <1>7 DEF NoLink, Links, Ids
<1>9. pc # NoPc /\ pc \in Pcs /\ Conn(link, pc, to["sender"], to["receiver"])
  BY <1>2, PcIs DEF Applied, Same, ConnInv
<1>10. LinkShape(k, pc, to["receiver"])
  <2>1. Applied(k, pc) /\ Known(k, pc) /\ k.remote # 0
    BY <1>2, <1>7, <1>8, <1>9 DEF Applied, Same, Known, Pcs, Ids
  <2>2. k.sig = "stable" /\ ~Due(k, to["receiver"])
    BY <1>2, <1>7, <1>9 DEF Conn, RoundOK, Due
  <2> QED  BY <2>1, <2>2, <1>7 DEF LinkShape
<1>11. Conn(k, pc, to["sender"], to["receiver"])
  BY <1>2, <1>7, <1>8, <1>9, <1>10, ConnLink
<1> QED  BY <1>1, <1>4, <1>11 DEF ConnInv

\* A connection that is open, and stays so, comes and goes.
LEMMA OpenLinkConn ==
    ASSUME TypeInv, ConnInv, link # NoLink, link.open, NEW k \in Links,
           k.id = link.id, k.remote = link.remote, k.sig = link.sig,
           k.need = link.need, k.heard = link.heard, k.open = link.open,
           k.ice \in {"connected", "disconnected"},
           k.timer = "none" \/ (k.timer = "disconnect" /\ k.ice = "disconnected")
    PROVE  Conn(k, pc, to["sender"], to["receiver"])
<1>1. k # NoLink
  BY LinkFields
<1>2. Conn(link, pc, to["sender"], to["receiver"])
  BY DEF ConnInv
<1>3. LinkShape(k, pc, to["receiver"])
  <2>1. /\ Due(k, to["receiver"]) <=> Due(link, to["receiver"])
        /\ Known(link, pc) <=> Known(k, pc)
        /\ Same(k, pc) <=> Same(link, pc)
        /\ Applied(k, pc) <=> Applied(link, pc)
    BY <1>1 DEF Due, Known, Same, Applied
  <2> QED  BY <1>1, <1>2, <2>1 DEF Conn, LinkShape
<1> QED  BY <1>1, <1>2, <1>3, ConnLink

LEMMA SenderIceConn ==
    ASSUME TypeInv, ConnInv, SenderIceReturns \/ SenderIceDisconnects
    PROVE  ConnInv'
<1>1. UNCHANGED <<to, pc>>
  BY LinkStepsSame
<1>2. link # NoLink /\ link.open /\ link \in Links
  <2>1. CASE SenderIceReturns
    BY <2>1, PcIs DEF SenderIceReturns, SenderMayReturn, Paired
  <2>2. CASE SenderIceDisconnects
    <3>1. link # NoLink /\ link.ice = "connected"
      BY <2>2 DEF SenderIceDisconnects, SenderMayLose
    <3> QED  BY <3>1, PcIs DEF ConnInv, Conn, LinkShape, Links
  <2> QED  BY <2>1, <2>2
<1>3. PICK k : k = link'
  OBVIOUS
<1>4. /\ k.id = link.id /\ k.remote = link.remote /\ k.sig = link.sig
      /\ k.need = link.need /\ k.heard = link.heard /\ k.open = link.open
      /\ k.ice \in {"connected", "disconnected"}
      /\ k.timer = "none" \/ (k.timer = "disconnect" /\ k.ice = "disconnected")
      /\ k \in Links
  <2>1. CASE SenderIceReturns
    <3>1. PICK v : v = IF link.view = "reconnecting" THEN "connected" ELSE link.view
      OBVIOUS
    <3>2. k = [link EXCEPT !.ice = "connected", !.timer = "none", !.restarts = 0, !.view = v]
      BY <2>1, <3>1, <1>3 DEF SenderIceReturns, SenderLinkStep
    <3>3. v \in {"connecting", "connected", "reconnecting"} /\ 0 \in 0 .. MAX_ICE_RESTARTS
      BY <3>1, <1>2, NegotiationAssumption DEF Links
    <3> QED  BY <3>2, <3>3, <1>2 DEF Links, IceStates
  <2>2. CASE SenderIceDisconnects
    <3>1. k = [link EXCEPT !.ice = "disconnected", !.timer = "disconnect"]
      BY <2>2, <1>3 DEF SenderIceDisconnects, SenderLinkStep
    <3> QED  BY <3>1, <1>2 DEF Links, IceStates
  <2> QED  BY <2>1, <2>2
<1>5. Conn(k, pc, to["sender"], to["receiver"])
  BY <1>2, <1>4, OpenLinkConn
<1> QED  BY <1>1, <1>3, <1>5 DEF ConnInv
-----------------------------------------------------------------------------
(* The sender's timers.                                                    *)

\* Where the path is not out, a link that opened never disconnects for long.
LEMMA NoDisconnectTimeout ==
    ASSUME TypeInv, ConnInv, path
    PROVE  ~DisconnectTimeout
  BY QuietMeans DEF DisconnectTimeout

\* ICE fails only for a link whose receiver has another connection, or none;
\* the link is restarted, or given up.
LEMMA SenderIceFailsDoes ==
    ASSUME TypeInv, ConnInv, path, SenderIceFails
    PROVE  /\ link # NoLink /\ ~link.open /\ ~Applied(link, pc)
           /\ link.ice = "checking" /\ link.remote # 0
           /\ to["sender"] = <<>> /\ to["receiver"] = <<>>
           /\ pc # NoPc => ~pc.setting
           /\ \/ link' = NoLink
              \/ /\ link' \in Links /\ link' # NoLink
                 /\ link'.id = link.id /\ link'.remote = link.remote
                 /\ link'.sig = link.sig /\ link'.heard = link.heard
                 /\ link'.open = link.open /\ link'.timer = link.timer
                 /\ link'.need /\ link'.ice = "failed"
<1>1. link # NoLink /\ ~Paired /\ TimersRun /\ link \in Links
  BY PcIs DEF SenderIceFails
<1>2. ~Applied(link, pc)
  BY <1>1, PairedIs
<1>3. /\ ~link.open /\ link.timer # "disconnect"
      /\ to["sender"] = <<>> /\ to["receiver"] = <<>>
      /\ pc # NoPc => ~pc.setting
  BY <1>1, <1>2, QuietMeans
<1>4. link.ice = "checking" /\ link.remote # 0
  BY <1>1, <1>3 DEF SenderIceFails, ConnInv, Conn, LinkShape
<1>5. PICK l : l = [link EXCEPT !.ice = "failed",
                                !.timer = IF @ = "disconnect" THEN "none" ELSE @]
  OBVIOUS
<1>6. /\ l.id = link.id /\ l.remote = link.remote /\ l.sig = link.sig
      /\ l.heard = link.heard /\ l.open = link.open /\ l.timer = link.timer
      /\ l.ice = "failed" /\ l \in Links
  BY <1>1, <1>3, <1>5 DEF Links, IceStates
<1>7. link' = restartIce(l)
  BY <1>5 DEF SenderIceFails, SenderLinkStep
<1>8. CASE l.gone \/ l.restarts >= MAX_ICE_RESTARTS
  BY <1>1, <1>2, <1>3, <1>4, <1>6, <1>7, <1>8 DEF restartIce
<1>9. CASE ~(l.gone \/ l.restarts >= MAX_ICE_RESTARTS)
  <2>1. PICK k : k = link'
    OBVIOUS
  <2>2. k = [l EXCEPT !.restarts = @ + 1, !.view = "reconnecting", !.need = TRUE]
    BY <2>1, <1>7, <1>9 DEF restartIce
  <2>3. l.restarts + 1 \in 0 .. MAX_ICE_RESTARTS
    BY <1>6, <1>9, NegotiationAssumption DEF Links
  <2>4. /\ k.id = l.id /\ k.remote = l.remote /\ k.sig = l.sig /\ k.heard = l.heard
        /\ k.open = l.open /\ k.timer = l.timer /\ k.ice = l.ice /\ k.need
        /\ k \in Links
    BY <2>2, <2>3, <1>6 DEF Links
  <2>5. k # NoLink
    BY <2>4, LinkFields
  <2> QED  BY <2>1, <2>4, <2>5, <1>1, <1>2, <1>3, <1>4, <1>6
<1> QED  BY <1>8, <1>9

LEMMA SenderTimerConn ==
    ASSUME TypeInv, ConnInv, path, SenderTimer \/ SenderChannelCloses
    PROVE  ConnInv'
<1>1. UNCHANGED <<to, pc>>
  BY LinkStepsSame
<1>2. Conn(link, pc, to["sender"], to["receiver"])
  BY DEF ConnInv
<1>3. CASE SenderIceFails
  <2>1. CASE link' = NoLink
    BY <2>1, <1>1, <1>2, ConnNoLink DEF ConnInv
  <2>2. CASE link' # NoLink
    <3>1. PICK k : k = link'
      OBVIOUS
    <3>2. /\ link # NoLink /\ ~link.open /\ ~Applied(link, pc)
          /\ to["sender"] = <<>> /\ to["receiver"] = <<>>
          /\ pc # NoPc => ~pc.setting
          /\ k # NoLink /\ k \in Links
          /\ k.id = link.id /\ k.remote = link.remote
          /\ k.sig = link.sig /\ k.heard = link.heard
          /\ k.open = link.open /\ k.timer = link.timer
          /\ k.need /\ k.ice = "failed"
      BY <1>3, <2>2, <3>1, SenderIceFailsDoes
    <3>3. /\ None(to["receiver"], OffersOf(link.id))
          /\ \A i : None(to["sender"], AnswersOf(i))
      BY <3>2, EmptyHas
    <3>4. link.timer # "disconnect"
      BY <1>3, QuietMeans, <3>2 DEF SenderIceFails
    <3>5. LinkShape(k, pc, to["receiver"])
      BY <3>2, <3>4 DEF LinkShape
    <3>6. Conn(k, pc, to["sender"], to["receiver"])
      BY <1>2, <3>2, <3>3, <3>5, ConnRestarts
    <3> QED  BY <3>1, <3>6, <1>1 DEF ConnInv
  <2> QED  BY <2>1, <2>2
<1>4. CASE ConnectTimeout \/ SenderChannelCloses
  <2>1. link' = NoLink
    BY <1>4 DEF ConnectTimeout, SenderChannelCloses, close, SenderLinkStep
  <2> QED  BY <2>1, <1>1, <1>2, ConnNoLink DEF ConnInv
<1> QED  BY <1>3, <1>4, NoDisconnectTimeout DEF SenderTimer

-----------------------------------------------------------------------------
(* The receiver's connection.                                              *)

LEMMA ReceiverOpensConn ==
    ASSUME TypeInv, ConnInv, path, ReceiverOpens
    PROVE  ConnInv'
<1>1. UNCHANGED <<to, link>>
  BY PcStepsSame
<1>2. /\ Applied(link, pc) /\ Known(link, pc) /\ pc.dc = "none" /\ pc.ice = "checking"
      /\ pc # NoPc
  BY PairedIs DEF ReceiverOpens, ReceiverMayOpen, Applied, Same
<1>3. PICK d : d = pc'
  OBVIOUS
<1>4. d = [pc EXCEPT !.ice = "connected", !.dc = "open"] /\ pc \in Pcs
  BY <1>2, <1>3, PcIs DEF ReceiverOpens
<1>5. /\ d.id = pc.id /\ d.link = pc.link /\ d.remote = pc.remote
      /\ d.setting = pc.setting /\ d.cand = pc.cand /\ d.ice = "connected" /\ d.dc = "open"
  BY <1>4 DEF Pcs
<1>6. d # NoPc
  BY <1>4, <1>5 DEF Pcs, NoPc, Ids
<1>7. Conn(link, pc, to["sender"], to["receiver"])
  BY DEF ConnInv
<1>8. Known(link, d) /\ Applied(link, d) /\ d.remote
  BY <1>2, <1>5, <1>6, <1>7 DEF Known, Applied, Same, Conn, AnsweredOK
<1>9. Conn(link, d, to["sender"], to["receiver"])
  <2>1. PcShape(link, d, to["sender"])
    BY <1>5, <1>8 DEF PcShape
  <2> QED  BY <2>1, <1>2, <1>5, <1>6, <1>7, <1>8, ConnPc
<1> QED  BY <1>1, <1>3, <1>9 DEF ConnInv

LEMMA ReceiverIceConn ==
    ASSUME TypeInv, ConnInv, ReceiverIceReturns \/ ReceiverIceDisconnects
    PROVE  ConnInv'
<1>1. UNCHANGED <<to, link>>
  BY PcStepsSame
<1>2. pc # NoPc /\ pc \in Pcs /\ pc.ice \in {"connected", "disconnected"}
  BY PcIs DEF ReceiverIceReturns, ReceiverMayReturn, ReceiverIceDisconnects,
     ReceiverMayLose, Paired
<1>3. PICK d : d = pc'
  OBVIOUS
<1>4. d = [pc EXCEPT !.ice = "connected"] \/ d = [pc EXCEPT !.ice = "disconnected"]
  BY <1>3 DEF ReceiverIceReturns, ReceiverIceDisconnects
<1>5. /\ d.id = pc.id /\ d.link = pc.link /\ d.remote = pc.remote
      /\ d.setting = pc.setting /\ d.cand = pc.cand /\ d.dc = pc.dc
      /\ d.ice \in {"connected", "disconnected"}
  BY <1>2, <1>4 DEF Pcs
<1>6. d # NoPc
  BY <1>2, <1>5 DEF Pcs, NoPc, Ids
<1>7. Conn(link, pc, to["sender"], to["receiver"])
  BY DEF ConnInv
<1>8. PcShape(link, d, to["sender"])
  <2>1. /\ Same(link, d) <=> Same(link, pc)
        /\ Applied(link, d) <=> Applied(link, pc)
        /\ Known(link, d) <=> Known(link, pc)
    BY <1>2, <1>5, <1>6 DEF Same, Applied, Known
  <2> QED  BY <2>1, <1>2, <1>5, <1>6, <1>7 DEF Conn, PcShape
<1>9. Conn(link, d, to["sender"], to["receiver"])
  <2>1. Known(link, pc) => Known(link, d)
    BY <1>5 DEF Known
  <2> QED  BY <2>1, <1>2, <1>5, <1>6, <1>7, <1>8, ConnPc
<1> QED  BY <1>1, <1>3, <1>9 DEF ConnInv
\* What becomes of the receiver when its connection d is lost.
Loses(d) ==
    \/ GivesUp \/ Attempts(d)
    \/ /\ rcv'.restarts = rcv.restarts /\ rcv'.status = "reconnecting"
       /\ pc' = d /\ sock' = sock /\ to' = to

\* The channel of a connection is closed only by the end of its link.
LEMMA ClosesDoes ==
    ASSUME TypeInv, ConnInv, path, ReceiverChannelCloses
    PROVE  /\ UNCHANGED <<path, link, spent>>
           /\ pc # NoPc /\ pc.dc = "open" /\ ~Same(link, pc)
           /\ \E d \in Pcs :
                  /\ Conn(link, d, to["sender"], to["receiver"]) /\ d # NoPc
                  /\ d.id = pc.id /\ d.link = pc.link /\ d.remote = pc.remote
                  /\ d.setting = pc.setting /\ d.cand = pc.cand
                  /\ d.ice = pc.ice /\ d.dc = "closed"
                  /\ Loses(d)
<1>1. /\ pc # NoPc /\ pc.dc = "open" /\ pc.ice # "failed" /\ link.id # pc.link
      /\ UNCHANGED <<path, link, spent>>
  BY DEF ReceiverChannelCloses, ReceiverHearsClose
<1>2. PICK d : d = [pc EXCEPT !.dc = "closed"]
  OBVIOUS
<1>3. pc \in Pcs /\ ~Same(link, pc)
  BY <1>1, PcIs DEF Same
<1>4. /\ d.id = pc.id /\ d.link = pc.link /\ d.remote = pc.remote
      /\ d.setting = pc.setting /\ d.cand = pc.cand /\ d.ice = pc.ice
      /\ d.dc = "closed" /\ d \in Pcs
  BY <1>2, <1>3 DEF Pcs
<1>5. d # NoPc
  BY <1>3, <1>4 DEF Pcs, NoPc, Ids
<1>6. Conn(link, pc, to["sender"], to["receiver"])
  BY DEF ConnInv
<1>7. ~Same(link, d) /\ ~Applied(link, d)
  BY <1>3, <1>4, <1>1 DEF Same, Applied
<1>8. PcShape(link, d, to["sender"])
  BY <1>1, <1>4, <1>6, <1>7 DEF Conn, PcShape
<1>9. Conn(link, d, to["sender"], to["receiver"])
  <2>1. Known(link, pc) => Known(link, d)
    BY <1>4 DEF Known
  <2> QED  BY <2>1, <1>1, <1>4, <1>5, <1>6, <1>8, ConnPc
<1>10. Loses(d)
  BY <1>2, LostDoes DEF ReceiverChannelCloses, Loses
<1> QED  BY <1>1, <1>3, <1>4, <1>5, <1>9, <1>10

\* ICE fails only where the channel is not open.
LEMMA FailsDoes ==
    ASSUME TypeInv, ConnInv, path, ReceiverIceFails
    PROVE  /\ UNCHANGED <<path, link, spent>> /\ TimersRun
           /\ pc # NoPc /\ pc.dc # "open" /\ ~pc.setting /\ pc.ice # "failed"
           /\ ~Applied(link, pc)
           /\ to["sender"] = <<>> /\ to["receiver"] = <<>>
           /\ \E d \in Pcs :
                  /\ Conn(link, d, to["sender"], to["receiver"]) /\ d # NoPc
                  /\ d.id = pc.id /\ d.link = pc.link /\ d.remote = pc.remote
                  /\ d.setting = pc.setting /\ d.cand = pc.cand
                  /\ d.ice = "failed" /\ d.dc = pc.dc
                  /\ Loses(d)
<1>1. /\ pc # NoPc /\ ~Paired /\ TimersRun /\ pc.ice \in {"disconnected", "checking"}
      /\ UNCHANGED <<path, link, spent>>
  BY DEF ReceiverIceFails
<1>2. PICK d : d = [pc EXCEPT !.ice = "failed"]
  OBVIOUS
<1>3. pc \in Pcs /\ ~Applied(link, pc) /\ pc.dc # "open" /\ ~pc.setting
        /\ to["sender"] = <<>> /\ to["receiver"] = <<>>
  BY <1>1, PcIs, PairedIs, QuietMeans
<1>4. /\ d.id = pc.id /\ d.link = pc.link /\ d.remote = pc.remote
      /\ d.setting = pc.setting /\ d.cand = pc.cand /\ d.ice = "failed"
      /\ d.dc = pc.dc /\ d \in Pcs
  BY <1>2, <1>3 DEF Pcs, IceStates
<1>5. d # NoPc
  BY <1>3, <1>4 DEF Pcs, NoPc, Ids
<1>6. Conn(link, pc, to["sender"], to["receiver"])
  BY DEF ConnInv
<1>7. ~Applied(link, d) /\ (Same(link, d) <=> Same(link, pc))
  BY <1>3, <1>4, <1>5, <1>1 DEF Same, Applied
<1>8. PcShape(link, d, to["sender"])
  <2>1. None(to["sender"], AnswersOf(d.id))
    BY <1>3, EmptyHas
  <2> QED  BY <1>1, <1>3, <1>4, <1>6, <1>7, <2>1 DEF Conn, PcShape
<1>9. Conn(link, d, to["sender"], to["receiver"])
  <2>1. Known(link, pc) => Known(link, d)
    BY <1>4 DEF Known
  <2> QED  BY <2>1, <1>1, <1>4, <1>5, <1>6, <1>8, ConnPc
<1>10. Loses(d)
  BY <1>2, LostDoes DEF ReceiverIceFails, Loses
<1> QED  BY <1>1, <1>3, <1>4, <1>5, <1>9, <1>10

LEMMA LosesConn ==
    ASSUME TypeInv, ConnInv, UNCHANGED link, NEW d,
           Conn(link, d, to["sender"], to["receiver"]), Loses(d)
    PROVE  ConnInv'
<1>1. PICK s \in Seq(ToSender), r \in Seq(ToReceiver) : s = to["sender"] /\ r = to["receiver"]
  BY QueuesTyped
<1>2. CASE GivesUp
  <2>1. to'["sender"] = s /\ to'["receiver"] = <<>> /\ pc' = NoPc
    BY <1>1, <1>2 DEF GivesUp
  <2>2. Conn(link, NoPc, s, r)
    BY <1>1, ConnNoPc
  <2>3. \A i : NoMore(s, s, AnswersOf(i)) /\ NoMore(r, <<>>, OffersOf(i))
    BY NoMoreHas
  <2>4. Conn(link, NoPc, s, <<>>)
    BY <2>2, <2>3, ConnNoMore
  <2> QED  BY <2>1, <2>4 DEF ConnInv
<1>3. CASE Attempts(d)
  <2>1. /\ to'["receiver"] = r /\ pc' = d
        /\ to'["sender"] = s \/ to'["sender"] = s \o <<Restart>>
    BY <1>1, <1>3 DEF Attempts
  <2>2. PICK s2 : s2 = to'["sender"]
    OBVIOUS
  <2>3. Conn(link, d, s2, r)
    BY <2>1, <2>2, <1>1, AskedConn
  <2>4. link' = link
    OBVIOUS
  <2> QED  BY <2>1, <2>2, <2>3, <2>4 DEF ConnInv
<1>4. CASE pc' = d /\ to' = to
  BY <1>4 DEF ConnInv
<1> QED  BY <1>2, <1>3, <1>4 DEF Loses

LEMMA ReceiverTimerConn ==
    ASSUME TypeInv, ConnInv, path, ReceiverTimer \/ ReceiverChannelCloses
    PROVE  ConnInv'
<1>1. CASE ReceiverChannelCloses
  BY <1>1, ClosesDoes, LosesConn
<1>2. CASE ReceiverIceFails
  BY <1>2, FailsDoes, LosesConn
<1>3. CASE Watchdog
  <2>1. /\ link' = link
        /\ \/ pc' = pc /\ to' = to
           \/ Loses(pc)
    BY <1>3, WatchdogDoes DEF Loses
  <2>2. Conn(link, pc, to["sender"], to["receiver"])
    BY DEF ConnInv
  <2> QED  BY <2>1, <2>2, LosesConn DEF ConnInv
<1> QED  BY <1>1, <1>2, <1>3 DEF ReceiverTimer

-----------------------------------------------------------------------------
(* Sockets, reloads, and a receiver that leaves.                           *)

LEMMA SocketMoves ==
    ASSUME TypeInv, NEW p \in Pages,
           PageNotices(p) \/ RoomNotices(p) \/ Reconnect(p) \/ Drop(p)
    PROVE  /\ SenderQueueMoves(to') /\ ReceiverQueueMoves(to')
           /\ UNCHANGED <<path, link, pc, rcv>>
<1>b. Present("sender") \in BOOLEAN /\ Present("receiver") \in BOOLEAN
  BY WelcomeMessages
<1>1. CASE PageNotices(p)
  BY <1>1, PageNoticesDoes DEF SenderQueueMoves, ReceiverQueueMoves
<1>2. CASE RoomNotices(p)
  BY <1>2, RoomNoticesDoes DEF SenderQueueMoves, ReceiverQueueMoves, Pages
<1>3. CASE Reconnect(p)
  <2>1. CASE p = "sender"
    BY <1>3, <2>1, <1>b, SenderReconnects DEF SenderQueueMoves, ReceiverQueueMoves
  <2>2. CASE p = "receiver"
    BY <1>3, <2>2, <1>b, ReceiverReconnects DEF SenderQueueMoves, ReceiverQueueMoves
  <2> QED  BY <2>1, <2>2 DEF Pages
<1>4. CASE Drop(p)
  <2>1. \A o \in Pages : to'[o] = to[o] \/ to'[o] = <<>>
    BY <1>4, DropDoes
  <2> QED  BY <2>1, <1>4, DropDoes DEF SenderQueueMoves, ReceiverQueueMoves, Pages
<1> QED  BY <1>1, <1>2, <1>3, <1>4

LEMMA ConnKeeps ==
    ASSUME TypeInv, ConnInv, path, path', Enough, [Next]_vars
    PROVE  ConnInv'
<1>1. CASE OnSenderMessage \/ OnReceiverMessage
  BY <1>1, SenderMessageConn, ReceiverMessageConn
<1>2. CASE offer \/ answer
  BY <1>2, OfferConn, AnswerConn
<1>3. CASE SenderOpens \/ SenderIceReturns \/ SenderIceDisconnects
               \/ SenderChannelCloses \/ SenderTimer
  BY <1>3, SenderOpensConn, SenderIceConn, SenderTimerConn
<1>4. CASE ReceiverOpens \/ ReceiverIceReturns \/ ReceiverIceDisconnects
  BY <1>4, ReceiverOpensConn, ReceiverIceConn
<1>5. CASE ReceiverTimer \/ ReceiverChannelCloses
  BY <1>5, ReceiverTimerConn
<1>6. CASE \E p \in Pages : PageNotices(p) \/ RoomNotices(p) \/ Reconnect(p) \/ Drop(p)
  BY <1>6, SocketMoves, SocketsConn
<1>7. CASE SenderReloads
  <2>1. SenderQueueMoves(to') /\ ReceiverQueueMoves(to')
    BY <1>7, SenderReloadsDoes DEF SenderQueueMoves, ReceiverQueueMoves
  <2> QED  BY <2>1, <1>7, SenderReloadsDoes, SocketsConn
<1>8. CASE ReceiverReloads
  <2>1. SenderQueueMoves(to') /\ ReceiverQueueMoves(to')
    BY <1>8, ReceiverReloadsDoes DEF SenderQueueMoves, ReceiverQueueMoves
  <2> QED  BY <2>1, <1>8, ReceiverReloadsDoes, SocketsConn
<1>9. CASE leave
  <2>1. RcvOK(rcv) /\ finish(rcv, "closed") /\ link' = link
    BY <1>9 DEF leave, TypeInv
  <2>2. pc' = NoPc /\ SenderQueueMoves(to') /\ ReceiverQueueMoves(to')
    BY <2>1, FinishDoes DEF SenderQueueMoves, ReceiverQueueMoves
  <2> QED  BY <2>1, <2>2, SocketsConn
<1>10. CASE Outage \/ PathReturns
  BY <1>10 DEF Outage, PathReturns
<1>11. CASE UNCHANGED vars
  BY <1>11 DEF vars, ConnInv
<1> QED
  BY <1>1, <1>2, <1>3, <1>4, <1>5, <1>6, <1>7, <1>8, <1>9, <1>10, <1>11
  DEF Next, System, Progress, Environment
-----------------------------------------------------------------------------
(* How a receiver asks for a link, and how the link comes to be.           *)

Signals == {m \in ToReceiver : m.t \in {"offer", "ice"}}
Masters == {m \in ToReceiver : m.t = "master"}

\* The receiver's connection, if any, is not open, and takes up no offer.
Quiet(c) == c # NoPc => ~c.setting /\ c.dc # "open"

\* The link, if any, is not open, and will not open.
Shut(l, c) == l # NoLink => ~l.open /\ ~(Applied(l, c) /\ Known(l, c))

\* Nothing is on its way to the receiver that changes its connection, or has it
\* ask for a new one.
Early(r, c) == None(r, Signals) /\ (c # NoPc => None(r, Masters))

\* What has a sender make a new link, unless the old one is connected.
Triggers == {Restart, Join, WelcomeMaster(TRUE)}

\* One of these is on its way, after absences at most; the old link offers
\* nothing any more.
Asked(l, c, s, r, st) ==
    /\ Quiet(c) /\ Early(r, c) /\ Shut(l, c)
    /\ \E p \in Seq({Leave}), t \in Triggers : s = p \o <<t>>
    /\ l # NoLink /\ l.need => l.sig # "stable" \/ st = "joining"

\* A link that has done nothing yet but offer itself.
Brand(l) ==
    l # NoLink /\ l.remote = 0 /\ l.heard = {} /\ l.ice = "checking" /\ ~l.open

Offering(l, c, s, r) ==
    /\ Brand(l) /\ l.need /\ l.sig = "stable" /\ s = <<>>
    /\ ~Same(l, c) /\ Quiet(c) /\ Early(r, c)

Offered(l, c, s, r) ==
    /\ Brand(l) /\ ~l.need /\ l.sig = "have-local-offer" /\ s = <<>>
    /\ ~Same(l, c) /\ Quiet(c)
    /\ \E p \in Seq(ToReceiver) :
           Early(p, c) /\ r = p \o <<Offer(l.id), IceOfLink(l.id)>>

Answering(l, c, s, r) ==
    /\ Brand(l) /\ ~l.need /\ l.sig = "have-local-offer" /\ s = <<>>
    /\ Same(l, c) /\ c.setting /\ ~c.remote /\ c.ice = "checking" /\ c.dc = "none"
    /\ \/ r = <<IceOfLink(l.id)>> /\ c.cand = "none"
       \/ r = <<>> /\ c.cand = "queued"

\* The link has taken the answer, and may be connected already.
Bound(l, c) ==
    l.sig = "stable" /\ l.remote = c.id /\ l.ice \in {"checking", "connected"}

Answered(l, c, s, r) ==
    /\ Same(l, c) /\ ~l.need
    /\ ~c.setting /\ c.remote /\ c.ice = "checking" /\ c.dc = "none"
    /\ \/ r = <<IceOfLink(l.id)>>
       \/ r = <<>> /\ c.cand = "added"
    /\ \/ /\ Brand(l) /\ l.sig = "have-local-offer"
          /\ s = <<Answer(l.id, c.id), IceOfPc(c.id)>>
       \/ /\ Bound(l, c)
          /\ s = <<IceOfPc(c.id)>> \/ (s = <<>> /\ c.id \in l.heard)

\* The connection is open at the receiver's end.
Opened(l, c, s, r) ==
    /\ Same(l, c) /\ Bound(l, c)
    /\ ~c.setting /\ c.ice = "connected" /\ c.dc = "open"
    /\ r = <<>> \/ r = <<IceOfLink(l.id)>>
    /\ s = <<>> \/ s = <<IceOfPc(c.id)>>

Underway(l, c, s, r) ==
    \/ Offering(l, c, s, r) \/ Offered(l, c, s, r)
    \/ Answering(l, c, s, r) \/ Answered(l, c, s, r)

BothWired == Wired("sender") /\ Wired("receiver")

Chain ==
    /\ BothWired
    /\ \/ Asked(link, pc, to["sender"], to["receiver"], sock["sender"])
       \/ Underway(link, pc, to["sender"], to["receiver"])

-----------------------------------------------------------------------------

\* The receiver's connection but for its ICE.
Alike(c, d) ==
    /\ c # NoPc /\ d # NoPc /\ d.id = c.id /\ d.link = c.link
    /\ d.setting = c.setting /\ d.remote = c.remote /\ d.cand = c.cand /\ d.dc = c.dc

LEMMA AlikeIs ==
    ASSUME NEW c, NEW d, Alike(c, d), NEW l, NEW r
    PROVE  /\ Same(l, d) <=> Same(l, c)
           /\ Applied(l, d) <=> Applied(l, c)
           /\ Known(l, d) <=> Known(l, c)
           /\ Quiet(c) => Quiet(d)
           /\ Shut(l, c) => Shut(l, d)
           /\ Early(r, c) => Early(r, d)
<1>1. /\ Same(l, d) <=> Same(l, c)
      /\ Applied(l, d) <=> Applied(l, c)
      /\ Known(l, d) <=> Known(l, c)
  BY DEF Alike, Same, Applied, Known
<1>2. Quiet(c) => Quiet(d)
  BY DEF Alike, Quiet
<1>3. Shut(l, c) => Shut(l, d)
  BY <1>1 DEF Shut
<1>4. Early(r, c) => Early(r, d)
  BY DEF Alike, Early
<1> QED  BY <1>1, <1>2, <1>3, <1>4

LEMMA FadesDoes ==
    ASSUME TypeInv, ReceiverIceDisconnects
    PROVE  /\ Alike(pc, pc') /\ pc.ice = "connected"
           /\ rcv'.restarts = rcv.restarts /\ rcv'.watchdog = rcv.watchdog
           /\ rcv'.status = "reconnecting"
           /\ UNCHANGED <<sock, to, path, link, spent>>
<1>1. /\ pc # NoPc /\ pc.ice = "connected" /\ UNCHANGED <<sock, to, path, link, spent>>
      /\ rcv' = [rcv EXCEPT !.status = "reconnecting"]
  BY DEF ReceiverIceDisconnects, ReceiverMayLose
<1>2. PICK d : d = pc'
  OBVIOUS
<1>3. d = [pc EXCEPT !.ice = "disconnected"] /\ pc \in Pcs
  BY <1>1, <1>2, PcIs DEF ReceiverIceDisconnects
<1>4. /\ d.id = pc.id /\ d.link = pc.link /\ d.setting = pc.setting
      /\ d.remote = pc.remote /\ d.cand = pc.cand /\ d.dc = pc.dc
  BY <1>3 DEF Pcs
<1>5. d # NoPc
  BY <1>3, <1>4 DEF Pcs, NoPc, Ids
<1>6. /\ rcv'.restarts = rcv.restarts /\ rcv'.watchdog = rcv.watchdog
      /\ rcv'.status = "reconnecting"
  BY <1>1 DEF TypeInv, RcvOK
<1> QED  BY <1>1, <1>2, <1>4, <1>5, <1>6 DEF Alike

\* Where no end is open, nothing happens by itself but messages, offers and
\* answers, and ICE that loses a channel closed already.
LEMMA ShutSteps ==
    ASSUME TypeInv, ConnInv, path, Shut(link, pc), pc # NoPc => pc.dc # "open", Progress
    PROVE  \/ OnSenderMessage \/ OnReceiverMessage \/ offer \/ answer
           \/ ReceiverIceDisconnects
<1>1. ~SenderOpens
  BY PairedIs DEF SenderOpens, SenderMayOpen, Shut, Applied, Same
<1>2. ~SenderIceReturns
  BY DEF SenderIceReturns, SenderMayReturn, Shut, Paired
<1>3. ~SenderIceDisconnects
  BY DEF SenderIceDisconnects, SenderMayLose, Shut, ConnInv, Conn, LinkShape
<1>4. ~SenderChannelCloses
  BY DEF SenderChannelCloses, SenderHearsClose, Shut
<1>5. ~ReceiverOpens
  BY PairedIs DEF ReceiverOpens, ReceiverMayOpen, Shut, Applied, Same
<1>6. ~ReceiverIceReturns
  <2>1. SUFFICES ASSUME Paired, pc.ice = "disconnected" PROVE FALSE
    BY DEF ReceiverIceReturns, ReceiverMayReturn
  <2>2. pc # NoPc /\ pc \in Pcs /\ Same(link, pc)
    BY <2>1, PcIs DEF Paired, Same
  <2>3. pc.dc \in {"none", "closed"}
    BY <2>2 DEF Pcs
  <2> QED  BY <2>1, <2>2, <2>3 DEF ConnInv, Conn, PcShape
<1>7. ~ReceiverChannelCloses
  BY DEF ReceiverChannelCloses, ReceiverHearsClose
<1> QED  BY <1>1, <1>2, <1>3, <1>4, <1>5, <1>6, <1>7 DEF Progress
LEMMA SpendCounts ==
    ASSUME TypeInv, NEW k \in FaultKinds, Spend(k)
    PROVE  /\ spent[k] \in Nat /\ spent'[k] = spent[k] + 1 /\ spent' # spent
           /\ \A j \in FaultKinds \ {k} : spent'[j] = spent[j]
<1>1. spent \in [FaultKinds -> 0 .. Faults] /\ spent' = [spent EXCEPT ![k] = @ + 1]
  BY DEF TypeInv, Spend
<1>2. spent[k] \in Nat
  BY <1>1, NegotiationAssumption
<1> QED  BY <1>1, <1>2

\* Every fault is counted, and so is the receiver's leave.
LEMMA EnvironmentSpends ==
    ASSUME TypeInv, Environment
    PROVE  spent' # spent
<1>1. CASE \E p \in Pages : Drop(p)
  BY <1>1, SpendCounts DEF Drop, FaultKinds
<1>2. CASE Outage
  BY <1>2, SpendCounts DEF Outage, FaultKinds
<1>3. CASE SenderReloads
  BY <1>3, SpendCounts DEF SenderReloads, FaultKinds
<1>4. CASE ReceiverReloads
  BY <1>4, SpendCounts DEF ReceiverReloads, FaultKinds
<1>5. CASE leave
  BY <1>5, SpendCounts DEF leave, FaultKinds
<1> QED  BY <1>1, <1>2, <1>3, <1>4, <1>5 DEF Environment

LEMMA TimersNeedQuiet == SenderTimer \/ ReceiverTimer => TimersRun
  BY DEF SenderTimer, ReceiverTimer, DisconnectTimeout, SenderIceFails, ConnectTimeout,
     ReceiverIceFails, Watchdog

\* Sockets change at a page that is not connected.
LEMMA WiredStays ==
    ASSUME TypeInv, BothWired, NEW p \in Pages
    PROVE  ~PageNotices(p) /\ ~RoomNotices(p) /\ ~Reconnect(p)
<1>1. sock[p] \in {"joining", "up"}
  BY DEF BothWired, Wired, Pages
<1> QED  BY <1>1 DEF PageNotices, RoomNotices, Reconnect

LEMMA BusySteps ==
    ASSUME TypeInv, path, BothWired, ~TimersRun, [Next]_vars, spent' = spent
    PROVE  Progress \/ UNCHANGED vars
<1>1. ~PathReturns
  BY DEF PathReturns
<1> QED
  BY <1>1, EnvironmentSpends, TimersNeedQuiet, WiredStays DEF Next, System

\* A message that is neither an offer nor a candidate, nor of the sender's
\* coming and going where there is a connection, leaves the connection alone.
LEMMA EarlyReads ==
    ASSUME TypeInv, OnReceiverMessage, Enough,
           NEW r \in Seq(ToReceiver), r = to["receiver"],
           Head(r) \notin Signals, pc # NoPc => Head(r) \notin Masters
    PROVE  /\ r # <<>> /\ to'["receiver"] = Tail(r) /\ Tail(r) \in Seq(ToReceiver)
           /\ to'["sender"] = to["sender"]
           /\ sock'["sender"] = sock["sender"]
           /\ sock'["receiver"] \in {sock["receiver"], "up"}
           /\ rcv'.restarts = rcv.restarts /\ rcv'.status \in {rcv.status, "waiting"}
           /\ UNCHANGED <<pc, link, path, spent>>
<1>1. PICK m \in ToReceiver, q \in Seq(ToReceiver) :
          /\ r # <<>> /\ m = Head(r) /\ q = Tail(r)
          /\ OnReceiverWelcome(m, q) \/ OnMaster(m, q) \/ OnOffer(m, q) \/ OnSenderIce(m, q)
  BY ReceiverReads
<1>2. UNCHANGED <<path, link, spent>> /\ MAX_RESTARTS > 0
  BY ReceiverReads, NegotiationAssumption DEF Enough
<1>3. m.t \notin {"offer", "ice"} /\ (pc # NoPc => m.t # "master")
  BY <1>1 DEF Signals, Masters
<1>4. CASE OnReceiverWelcome(m, q)
  BY <1>4, <1>1, <1>2, WelcomeReads
<1>5. CASE OnMaster(m, q)
  <2>1. pc = NoPc
    BY <1>3, <1>5 DEF OnMaster
  <2> QED  BY <2>1, <1>5, <1>1, <1>2, MasterReads
<1> QED  BY <1>1, <1>3, <1>4, <1>5 DEF OnOffer, OnSenderIce

\* What is left of such messages.
LEMMA EarlyTail ==
    ASSUME NEW c, NEW r \in Seq(ToReceiver), r # <<>>, Early(r, c)
    PROVE  /\ Head(r) \notin Signals /\ (c # NoPc => Head(r) \notin Masters)
           /\ Early(Tail(r), c) /\ Tail(r) \in Seq(ToReceiver)
  BY TailHas DEF Early

LEMMA LeavesFirst ==
    ASSUME NEW p \in Seq({Leave}), NEW t \in Triggers, NEW s, s = p \o <<t>>
    PROVE  /\ s # <<>>
           /\ p = <<>> => Head(s) = t /\ Tail(s) = <<>>
           /\ p # <<>> => /\ Head(s) = Leave /\ Tail(s) = Tail(p) \o <<t>>
                          /\ Tail(p) \in Seq({Leave})
<1>1. <<t>> # <<>> /\ Head(<<t>>) = t /\ Tail(<<t>>) = <<>>
  OBVIOUS
<1>2. p \in Seq({Leave, t}) /\ <<t>> \in Seq({Leave, t})
  OBVIOUS
<1>3. p = <<>> => s = <<t>>
  BY <1>1, <1>2, ConcatHead
<1>4. p # <<>> => /\ s # <<>> /\ Head(s) = Head(p) /\ Tail(s) = Tail(p) \o <<t>>
  BY <1>1, <1>2, ConcatHead
<1>5. p # <<>> => Head(p) = Leave /\ Tail(p) \in Seq({Leave})
  OBVIOUS
<1> QED  BY <1>1, <1>3, <1>4, <1>5
\* A trigger has the sender make a new link.
LEMMA TriggerMakes ==
    ASSUME TypeInv, ConnInv, OnSenderMessage, Shut(link, pc),
           Head(to["sender"]) \in Triggers
    PROVE  addLink
<1>1. PICK m : m = Head(to["sender"])
  OBVIOUS
<1>2. \/ m.t = "welcome" /\ (IF m.peer THEN peerJoined ELSE UNCHANGED link)
      \/ m.t = "join" /\ peerJoined
      \/ m.t = "leave"
      \/ m.t = "restart" /\ addLink
      \/ m.t = "answer"
      \/ m.t = "ice"
  BY <1>1, SenderReads DEF OnAnswer, OnReceiverIce
<1>3. /\ m.t \in {"restart", "join", "welcome"}
      /\ m.t = "welcome" => m.peer
  BY <1>1 DEF Triggers, Restart, Join, WelcomeMaster
<1>4. ~SenderConnected
  BY DEF Shut, SenderConnected
<1> QED  BY <1>2, <1>3, <1>4 DEF peerJoined

LEMMA LeaveReads ==
    ASSUME TypeInv, OnSenderMessage, Shut(link, pc), Head(to["sender"]) = Leave
    PROVE  link' = NoLink /\ sock' = sock
<1>1. PICK m : m = Head(to["sender"]) /\ m.t = "leave"
  BY DEF Leave
<1>2. link' = IF SenderConnected THEN [link EXCEPT !.gone = TRUE] ELSE NoLink
  BY <1>1, SenderReads DEF OnAnswer, OnReceiverIce
<1>3. sock' = sock
  BY <1>1 DEF OnSenderMessage, OnSenderWelcome, OnJoin, OnLeave, OnRestart, OnAnswer,
     OnReceiverIce
<1> QED  BY <1>2, <1>3 DEF Shut, SenderConnected

AskedNow == Asked(link, pc, to["sender"], to["receiver"], sock["sender"])

LEMMA AskedKeeps ==
    ASSUME TypeInv, ConnInv, WelcomeInv, Enough, path, BothWired, AskedNow,
           [Next]_vars, spent' = spent
    PROVE  /\ BothWired' /\ rcv'.restarts = rcv.restarts
           /\ rcv'.status \in {rcv.status, "waiting", "reconnecting"}
           /\ \/ AskedNow' /\ (link = NoLink => link' = NoLink)
              \/ Offering(link', pc', to'["sender"], to'["receiver"])
<1>1. PICK s \in Seq(ToSender), r \in Seq(ToReceiver) : s = to["sender"] /\ r = to["receiver"]
  BY QueuesTyped
<1>2. PICK p \in Seq({Leave}), t \in Triggers : s = p \o <<t>>
  BY <1>1 DEF AskedNow, Asked
<1>3. /\ Quiet(pc) /\ Early(r, pc) /\ Shut(link, pc)
      /\ link # NoLink /\ link.need => link.sig # "stable" \/ sock["sender"] = "joining"
  BY <1>1 DEF AskedNow, Asked
<1>4. s # <<>>
  BY <1>2, LeavesFirst
<1>5. ~TimersRun
  BY <1>1, <1>4 DEF TimersRun, Pages
<1>6. \/ OnSenderMessage \/ OnReceiverMessage \/ offer \/ answer
      \/ ReceiverIceDisconnects \/ UNCHANGED vars
  <2>1. pc # NoPc => pc.dc # "open"
    BY <1>3 DEF Quiet
  <2> QED  BY <2>1, <1>3, <1>5, BusySteps, ShutSteps
<1>7. CASE OnSenderMessage
  <2>1. /\ to'["sender"] = Tail(s) /\ to'["receiver"] = r
        /\ sock'["receiver"] = sock["receiver"]
        /\ sock'["sender"] \in {"up", sock["sender"]}
        /\ UNCHANGED <<path, pc, rcv, spent>>
    BY <1>1, <1>7, SenderReads
  <2>2. BothWired'
    BY <2>1 DEF BothWired, Wired
  <2>3. CASE p = <<>>
    <3>1. Head(s) = t /\ Tail(s) = <<>>
      BY <2>3, <1>2, LeavesFirst
    <3>2. addLink
      BY <3>1, <1>1, <1>3, <1>7, TriggerMakes
    <3>3. /\ link' # NoLink /\ (pc # NoPc => pc.link # link'.id)
          /\ link'.remote = 0 /\ link'.heard = {} /\ link'.ice = "checking"
          /\ ~link'.open /\ link'.need /\ link'.sig = "stable"
      BY <3>2, NewLinkConn
    <3>4. ~Same(link', pc)
      BY <3>3 DEF Same
    <3>5. Offering(link', pc, <<>>, r)
      BY <3>3, <3>4, <1>3 DEF Offering, Brand
    <3> QED  BY <3>1, <3>5, <2>1, <2>2
  <2>4. CASE p # <<>>
    <3>1. Head(s) = Leave /\ Tail(s) = Tail(p) \o <<t>> /\ Tail(p) \in Seq({Leave})
      BY <2>4, <1>2, LeavesFirst
    <3>2. link' = NoLink /\ sock' = sock
      BY <3>1, <1>1, <1>3, <1>7, LeaveReads
    <3>3. Asked(NoLink, pc, Tail(s), r, sock["sender"])
      BY <3>1, <1>3 DEF Asked, Shut
    <3>4. AskedNow'
      BY <3>2, <3>3, <2>1 DEF AskedNow
    <3> QED  BY <3>2, <3>4, <2>1, <2>2
  <2> QED  BY <2>3, <2>4
<1>8. CASE OnReceiverMessage
  <2>0. r # <<>>
    BY <1>1, <1>8, ReceiverReads
  <2>1. /\ Head(r) \notin Signals /\ (pc # NoPc => Head(r) \notin Masters)
        /\ Early(Tail(r), pc)
    BY <2>0, <1>3, EarlyTail
  <2>2. /\ to'["receiver"] = Tail(r) /\ to'["sender"] = s
        /\ sock'["sender"] = sock["sender"]
        /\ sock'["receiver"] \in {sock["receiver"], "up"}
        /\ rcv'.restarts = rcv.restarts /\ rcv'.status \in {rcv.status, "waiting"}
        /\ UNCHANGED <<pc, link, path, spent>>
    BY <2>1, <1>1, <1>8, EarlyReads
  <2>3. BothWired'
    BY <2>2 DEF BothWired, Wired
  <2>4. Asked(link, pc, s, Tail(r), sock["sender"])
    BY <2>1, <1>2, <1>3 DEF Asked
  <2>5. AskedNow'
    BY <2>2, <2>4 DEF AskedNow
  <2> QED  BY <2>2, <2>3, <2>5
<1>9. CASE offer
  <2>1. /\ link # NoLink /\ link.need /\ link.sig = "stable" /\ link \in Links
        /\ link' = [link EXCEPT !.need = FALSE, !.sig = "have-local-offer"]
        /\ to'["sender"] = s
        /\ to'["receiver"] = IF sock["sender"] = "up" /\ Wired("receiver")
                             THEN r \o <<Offer(link.id), IceOfLink(link.id)>> ELSE r
        /\ UNCHANGED <<sock, path, pc, rcv, spent>>
    BY <1>1, <1>9, OfferDoes, PcIs
  <2>2. to'["receiver"] = r
    BY <2>1, <1>3
  <2>3. PICK k : k = link'
    OBVIOUS
  <2>4. /\ k.id = link.id /\ k.remote = link.remote /\ k.heard = link.heard
        /\ k.open = link.open /\ ~k.need
    BY <2>1, <2>3 DEF Links
  <2>5. Shut(k, pc)
    <3>1. Applied(k, pc) /\ Known(k, pc) => Applied(link, pc) /\ Known(link, pc)
      BY <2>1, <2>4 DEF Applied, Same, Known
    <3> QED  BY <3>1, <2>1, <2>4, <1>3 DEF Shut
  <2>6. Asked(k, pc, s, r, sock["sender"])
    BY <2>4, <2>5, <1>2, <1>3 DEF Asked
  <2>7. AskedNow' /\ BothWired'
    BY <2>1, <2>2, <2>3, <2>6 DEF AskedNow, BothWired, Wired
  <2> QED  BY <2>1, <2>7
<1>10. CASE answer
  BY <1>3, <1>10, AnswerDoes DEF Quiet
<1>11. CASE ReceiverIceDisconnects
  <2>1. /\ Alike(pc, pc')
        /\ rcv'.restarts = rcv.restarts
        /\ rcv'.status = "reconnecting"
        /\ UNCHANGED <<sock, to, path, link, spent>>
    BY <1>11, FadesDoes
  <2>2. PICK d : d = pc'
    OBVIOUS
  <2>3. Quiet(d) /\ Early(r, d) /\ Shut(link, d)
    BY <2>1, <2>2, <1>3, AlikeIs
  <2>4. Asked(link, d, s, r, sock["sender"])
    BY <2>3, <1>2, <1>3 DEF Asked
  <2>5. AskedNow' /\ BothWired'
    BY <2>1, <2>2, <2>4, <1>1 DEF AskedNow, BothWired, Wired
  <2> QED  BY <2>1, <2>5
<1>12. CASE UNCHANGED vars
  BY <1>12 DEF vars, AskedNow, BothWired, Wired
<1> QED  BY <1>6, <1>7, <1>8, <1>9, <1>10, <1>11, <1>12
LEMMA BrandShut ==
    ASSUME TypeInv, Brand(link)
    PROVE  Shut(link, pc) /\ ~Applied(link, pc) /\ link # NoLink /\ link \in Links
<1>1. link # NoLink /\ link \in Links
  BY PcIs DEF Brand
<1>2. pc # NoPc => pc.id # 0
  BY PcIs DEF Pcs, Ids
<1>3. ~Applied(link, pc)
  BY <1>2 DEF Brand, Applied, Same
<1> QED  BY <1>1, <1>3 DEF Shut, Brand

\* A page that has read all its messages is past the welcome.
LEMMA UpToDate ==
    ASSUME TypeInv, WelcomeInv, NEW p \in Pages, Wired(p),
           to[p] = <<>> \/ Head(to[p]) \notin Welcomes
    PROVE  sock[p] = "up"
  BY WiredIs DEF WelcomeInv, WelcomeOK, Pages

\* What a step of the round leaves as it was.
Calm ==
    /\ BothWired' /\ rcv'.restarts = rcv.restarts
    /\ rcv'.status \in {rcv.status, "waiting", "reconnecting"}

LEMMA OfferingKeeps ==
    ASSUME TypeInv, ConnInv, WelcomeInv, Enough, path, BothWired,
           Offering(link, pc, to["sender"], to["receiver"]),
           [Next]_vars, spent' = spent
    PROVE  /\ Calm
           /\ \/ Offering(link', pc', to'["sender"], to'["receiver"])
              \/ Offered(link', pc', to'["sender"], to'["receiver"])
<1>1. PICK s \in Seq(ToSender), r \in Seq(ToReceiver) : s = to["sender"] /\ r = to["receiver"]
  BY QueuesTyped
<1>2. /\ Brand(link) /\ link.need /\ link.sig = "stable" /\ s = <<>>
      /\ ~Same(link, pc) /\ Quiet(pc) /\ Early(r, pc)
  BY <1>1 DEF Offering
<1>3. Shut(link, pc) /\ link # NoLink /\ link \in Links
  BY <1>2, BrandShut
<1>4. \/ OnSenderMessage \/ OnReceiverMessage \/ offer \/ answer
      \/ ReceiverIceDisconnects \/ UNCHANGED vars
  <2>1. pc # NoPc => pc.dc # "open"
    BY <1>2 DEF Quiet
  <2>2. ~TimersRun
    BY <1>2, <1>3 DEF TimersRun, OfferPending
  <2> QED  BY <2>1, <2>2, <1>3, BusySteps, ShutSteps
<1>5. ~OnSenderMessage
  BY <1>1, <1>2, SenderReads
<1>6. ~answer
  BY <1>2, AnswerDoes DEF Quiet
<1>7. CASE OnReceiverMessage
  <2>0. r # <<>>
    BY <1>1, <1>7, ReceiverReads
  <2>1. /\ Head(r) \notin Signals /\ (pc # NoPc => Head(r) \notin Masters)
        /\ Early(Tail(r), pc)
    BY <2>0, <1>2, EarlyTail
  <2>2. /\ to'["receiver"] = Tail(r) /\ to'["sender"] = s
        /\ sock'["sender"] = sock["sender"]
        /\ sock'["receiver"] \in {sock["receiver"], "up"}
        /\ rcv'.restarts = rcv.restarts /\ rcv'.status \in {rcv.status, "waiting"}
        /\ UNCHANGED <<pc, link, path, spent>>
    BY <2>1, <1>1, <1>7, EarlyReads
  <2>3. Calm
    BY <2>2 DEF Calm, BothWired, Wired
  <2>4. Offering(link, pc, s, Tail(r))
    BY <2>1, <1>2 DEF Offering
  <2> QED  BY <2>2, <2>3, <2>4
<1>8. CASE offer
  <2>1. /\ link' = [link EXCEPT !.need = FALSE, !.sig = "have-local-offer"]
        /\ to'["sender"] = s
        /\ to'["receiver"] = IF sock["sender"] = "up" /\ Wired("receiver")
                             THEN r \o <<Offer(link.id), IceOfLink(link.id)>> ELSE r
        /\ UNCHANGED <<sock, path, pc, rcv, spent>>
    BY <1>1, <1>8, OfferDoes
  <2>2. sock["sender"] = "up"
    BY <1>1, <1>2, UpToDate DEF BothWired, Pages
  <2>3. PICK k : k = link'
    OBVIOUS
  <2>4. /\ k.id = link.id /\ k.remote = link.remote /\ k.heard = link.heard
        /\ k.open = link.open /\ k.ice = link.ice /\ ~k.need
        /\ k.sig = "have-local-offer" /\ k \in Links
    BY <2>1, <2>3, <1>3 DEF Links
  <2>5. k # NoLink
    BY <2>4, LinkFields
  <2>6. Offered(k, pc, s, r \o <<Offer(k.id), IceOfLink(k.id)>>)
    <3>1. Brand(k)
      BY <2>4, <2>5, <1>2 DEF Brand
    <3>2. ~Same(k, pc)
      BY <2>4, <1>2, <1>3 DEF Same
    <3> QED  BY <3>1, <3>2, <2>4, <1>2 DEF Offered
  <2>7. Calm
    BY <2>1 DEF Calm, BothWired, Wired
  <2>8. to'["receiver"] = r \o <<Offer(k.id), IceOfLink(k.id)>>
    BY <2>1, <2>2, <2>4 DEF BothWired
  <2> QED  BY <2>1, <2>3, <2>6, <2>7, <2>8
<1>9. CASE ReceiverIceDisconnects
  <2>1. /\ Alike(pc, pc') /\ rcv'.restarts = rcv.restarts
        /\ rcv'.status = "reconnecting"
        /\ UNCHANGED <<sock, to, path, link, spent>>
    BY <1>9, FadesDoes
  <2>2. PICK d : d = pc'
    OBVIOUS
  <2>3. Quiet(d) /\ Early(r, d) /\ ~Same(link, d)
    BY <2>1, <2>2, <1>2, AlikeIs
  <2>4. Offering(link, d, s, r)
    BY <2>3, <1>2 DEF Offering
  <2>5. Calm
    BY <2>1 DEF Calm, BothWired, Wired
  <2> QED  BY <2>1, <2>2, <2>4, <2>5, <1>1
<1>10. CASE UNCHANGED vars
  BY <1>10 DEF vars, Calm, BothWired, Wired
<1> QED  BY <1>4, <1>5, <1>6, <1>7, <1>8, <1>9, <1>10

LEMMA OfferedKeeps ==
    ASSUME TypeInv, ConnInv, WelcomeInv, Enough, path, BothWired,
           Offered(link, pc, to["sender"], to["receiver"]),
           [Next]_vars, spent' = spent
    PROVE  /\ Calm
           /\ \/ Offered(link', pc', to'["sender"], to'["receiver"])
              \/ Answering(link', pc', to'["sender"], to'["receiver"])
<1>1. PICK s \in Seq(ToSender), r \in Seq(ToReceiver) : s = to["sender"] /\ r = to["receiver"]
  BY QueuesTyped
<1>2. /\ Brand(link) /\ ~link.need /\ link.sig = "have-local-offer" /\ s = <<>>
      /\ ~Same(link, pc) /\ Quiet(pc)
  BY <1>1 DEF Offered
<1>3. Shut(link, pc) /\ link # NoLink /\ link \in Links /\ link.id \in Ids
  BY <1>2, BrandShut DEF Links
<1>4. PICK p \in Seq(ToReceiver), o \in {Offer(link.id)},
          i \in {IceOfLink(link.id)} :
          /\ o = Offer(link.id) /\ i = IceOfLink(link.id)
          /\ Early(p, pc) /\ r = p \o <<o, i>>
  BY <1>1 DEF Offered
<1>5. o \in ToReceiver /\ i \in ToReceiver
  BY <1>3, <1>4, MessagesTyped
<1>6. /\ <<o, i>> # <<>> /\ Head(<<o, i>>) = o /\ Tail(<<o, i>>) = <<i>>
      /\ <<o, i>> \in Seq(ToReceiver)
  BY <1>5
<1>7. /\ r # <<>>
      /\ p = <<>> => r = <<o, i>>
      /\ p # <<>> => Head(r) = Head(p) /\ Tail(r) = Tail(p) \o <<o, i>>
  <2>1. PICK z \in Seq(ToReceiver) : z = <<o, i>> /\ z # <<>>
    BY <1>6
  <2>2. r = p \o z
    BY <2>1, <1>4
  <2>3. /\ p \o z # <<>>
        /\ p = <<>> => p \o z = z
        /\ p # <<>> => Head(p \o z) = Head(p) /\ Tail(p \o z) = Tail(p) \o z
    <3>1. z # <<>>
      BY <2>1
    <3> QED  BY <3>1, ConcatHead
  <2>4. z = <<o, i>>
    BY <2>1
  <2> QED  BY <2>2, <2>3, <2>4
<1>8. \/ OnSenderMessage \/ OnReceiverMessage \/ offer \/ answer
      \/ ReceiverIceDisconnects \/ UNCHANGED vars
  <2>1. pc # NoPc => pc.dc # "open"
    BY <1>2 DEF Quiet
  <2>2. ~TimersRun
    BY <1>1, <1>7 DEF TimersRun, Pages
  <2> QED  BY <2>1, <2>2, <1>3, BusySteps, ShutSteps
<1>9. ~OnSenderMessage /\ ~answer /\ ~offer
  BY <1>1, <1>2, SenderReads, AnswerDoes, OfferDoes DEF Quiet
<1>10. CASE OnReceiverMessage /\ p # <<>>
  <2>1. /\ Head(p) \notin Signals /\ (pc # NoPc => Head(p) \notin Masters)
        /\ Early(Tail(p), pc) /\ Tail(p) \in Seq(ToReceiver)
    BY <1>4, <1>10, EarlyTail
  <2>2. /\ to'["receiver"] = Tail(r) /\ to'["sender"] = s
        /\ sock'["sender"] = sock["sender"]
        /\ sock'["receiver"] \in {sock["receiver"], "up"}
        /\ rcv'.restarts = rcv.restarts /\ rcv'.status \in {rcv.status, "waiting"}
        /\ UNCHANGED <<pc, link, path, spent>>
    BY <2>1, <1>1, <1>7, <1>10, EarlyReads
  <2>3. Calm
    BY <2>2 DEF Calm, BothWired, Wired
  <2>4. Offered(link, pc, s, Tail(r))
    BY <2>1, <1>2, <1>4, <1>7, <1>10 DEF Offered
  <2> QED  BY <2>2, <2>3, <2>4
<1>11. CASE OnReceiverMessage /\ p = <<>>
  <2>1. r = <<o, i>> /\ Head(r) = o /\ Tail(r) = <<i>> /\ o.t = "offer" /\ o.link = link.id
    BY <1>4, <1>6, <1>7, <1>11 DEF Offer
  <2>2. OnOffer(o, <<i>>)
    <3>1. \/ OnReceiverWelcome(o, <<i>>) \/ OnMaster(o, <<i>>)
          \/ OnOffer(o, <<i>>) \/ OnSenderIce(o, <<i>>)
      BY <1>1, <1>11, <2>1, ReceiverReads
    <3> QED  BY <3>1, <2>1 DEF OnReceiverWelcome, OnMaster, OnSenderIce
  <2>3. /\ sock' = sock /\ rcv' = rcv /\ to'["receiver"] = <<i>> /\ to'["sender"] = s
        /\ pc.link # o.link \/ pc.ice \in {"failed", "closed"}
              => pc' = NewPc(Fresh(PcsNamed), o.link)
    BY <2>2, <1>1, OfferReads
  <2>4. pc.link # o.link
    <3>1. CASE pc = NoPc
      BY <3>1, <2>1, <1>3 DEF NoPc, Ids
    <3>2. CASE pc # NoPc
      BY <3>2, <2>1, <1>2, <1>3 DEF Same
    <3> QED  BY <3>1, <3>2
  <2>5. PICK d : d = NewPc(Fresh(PcsNamed), o.link)
    OBVIOUS
  <2>6. /\ d # NoPc /\ d.link = link.id /\ d.setting /\ ~d.remote /\ d.cand = "none"
        /\ d.ice = "checking" /\ d.dc = "none"
    <3>1. r # <<>> /\ o = Head(r) /\ r = to["receiver"] /\ o.t = "offer"
      BY <2>1, <1>1, <1>7
    <3>2. /\ d # NoPc /\ d.link = o.link /\ d.setting /\ ~d.remote /\ d.cand = "none"
          /\ d.ice = "checking" /\ d.dc = "none"
      BY <3>1, <2>5, NewPcConn
    <3> QED  BY <3>2, <2>1
  <2>7. Answering(link, d, s, <<i>>)
    BY <2>6, <1>2, <1>3, <1>4 DEF Answering, Same
  <2>8. link' = link /\ pc' = d
    BY <1>11, <2>3, <2>4, <2>5, ReceiverReads
  <2>9. Calm
    BY <2>3 DEF Calm, BothWired, Wired
  <2> QED  BY <2>3, <2>7, <2>8, <2>9
<1>12. CASE ReceiverIceDisconnects
  <2>1. /\ Alike(pc, pc') /\ rcv'.restarts = rcv.restarts
        /\ rcv'.status = "reconnecting"
        /\ UNCHANGED <<sock, to, path, link, spent>>
    BY <1>12, FadesDoes
  <2>2. PICK d : d = pc'
    OBVIOUS
  <2>3. Quiet(d) /\ Early(p, d) /\ ~Same(link, d)
    BY <2>1, <2>2, <1>2, <1>4, AlikeIs
  <2>4. Offered(link, d, s, r)
    BY <2>3, <1>2, <1>4 DEF Offered
  <2>5. Calm
    BY <2>1 DEF Calm, BothWired, Wired
  <2> QED  BY <2>1, <2>2, <2>4, <2>5, <1>1
<1>13. CASE UNCHANGED vars
  BY <1>13 DEF vars, Calm, BothWired, Wired
<1> QED  BY <1>8, <1>9, <1>10, <1>11, <1>12, <1>13

\* The receiver reads a candidate of its own link.
LEMMA OwnIceReads ==
    ASSUME TypeInv, OnReceiverMessage, Same(link, pc),
           to["receiver"] = <<IceOfLink(link.id)>>
    PROVE  /\ to'["receiver"] = <<>> /\ to'["sender"] = to["sender"]
           /\ pc' = [pc EXCEPT !.cand = IF pc.remote THEN "added" ELSE "queued"]
           /\ UNCHANGED <<sock, path, link, rcv, spent>>
<1>1. PICK m : m = IceOfLink(link.id)
  OBVIOUS
<1>2. Head(to["receiver"]) = m /\ Tail(to["receiver"]) = <<>>
  BY <1>1
<1>3. m.t = "ice" /\ m.link = link.id
  BY <1>1 DEF IceOfLink
<1>4. \/ OnReceiverWelcome(m, <<>>) \/ OnMaster(m, <<>>)
      \/ OnOffer(m, <<>>) \/ OnSenderIce(m, <<>>)
  BY <1>2, ReceiverReads
<1>5. OnSenderIce(m, <<>>)
  BY <1>3, <1>4 DEF OnReceiverWelcome, OnMaster, OnOffer
<1>6. UNCHANGED <<path, link, spent>>
  BY ReceiverReads
<1> QED  BY <1>3, <1>5, <1>6, IceReads DEF Same

LEMMA NoWelcomeFirst ==
    /\ \A l : Head(<<IceOfLink(l)>>) \notin Welcomes
    /\ \A i : Head(<<IceOfPc(i)>>) \notin Welcomes
  BY DEF Welcomes, IceOfLink, IceOfPc

LEMMA TwoMessages ==
    ASSUME NEW T, NEW m \in T, NEW n \in T
    PROVE  <<m, n>> \in Seq(T)
  OBVIOUS

LEMMA AnsweringKeeps ==
    ASSUME TypeInv, ConnInv, WelcomeInv, Enough, path, BothWired,
           Answering(link, pc, to["sender"], to["receiver"]),
           [Next]_vars, spent' = spent
    PROVE  /\ Calm
           /\ \/ Answering(link', pc', to'["sender"], to'["receiver"])
              \/ Answered(link', pc', to'["sender"], to'["receiver"])
<1>1. /\ Brand(link) /\ ~link.need /\ link.sig = "have-local-offer" /\ to["sender"] = <<>>
      /\ Same(link, pc) /\ pc.setting /\ ~pc.remote /\ pc.ice = "checking" /\ pc.dc = "none"
      /\ \/ to["receiver"] = <<IceOfLink(link.id)>> /\ pc.cand = "none"
         \/ to["receiver"] = <<>> /\ pc.cand = "queued"
  BY DEF Answering
<1>2. Shut(link, pc) /\ pc # NoPc /\ pc \in Pcs
  BY <1>1, BrandShut, PcIs DEF Same
<1>3. \/ OnSenderMessage \/ OnReceiverMessage \/ offer \/ answer
      \/ ReceiverIceDisconnects \/ UNCHANGED vars
  <2>1. pc.dc # "open"
    BY <1>1
  <2>2. ~TimersRun
    BY <1>1, <1>2 DEF TimersRun, AnswerPending
  <2> QED  BY <2>1, <2>2, <1>2, BusySteps, ShutSteps
<1>4. ~OnSenderMessage /\ ~offer /\ ~ReceiverIceDisconnects
  BY <1>1, SenderReads, OfferDoes, FadesDoes
<1>5. CASE OnReceiverMessage
  <2>0. to["receiver"] = <<IceOfLink(link.id)>>
    BY <1>1, <1>5, ReceiverReads
  <2>1. /\ to'["receiver"] = <<>> /\ to'["sender"] = <<>>
        /\ pc' = [pc EXCEPT !.cand = "queued"]
        /\ UNCHANGED <<sock, path, link, rcv, spent>>
    BY <2>0, <1>1, <1>5, OwnIceReads
  <2>2. PICK d : d = pc'
    OBVIOUS
  <2>3. /\ d.id = pc.id /\ d.link = pc.link /\ d.setting /\ ~d.remote
        /\ d.ice = "checking" /\ d.dc = "none" /\ d.cand = "queued"
    BY <2>1, <2>2, <1>1, <1>2 DEF Pcs
  <2>4. d # NoPc
    BY <2>3, <1>2 DEF NoPc, Pcs, Ids
  <2>5. Answering(link, d, <<>>, <<>>)
    BY <2>3, <2>4, <1>1 DEF Answering, Same
  <2>6. Calm
    BY <2>1 DEF Calm, BothWired, Wired
  <2> QED  BY <2>1, <2>2, <2>5, <2>6
<1>6. CASE answer
  <2>1. /\ pc' = [pc EXCEPT !.setting = FALSE, !.remote = TRUE,
                            !.cand = IF @ = "queued" THEN "added" ELSE @]
        /\ to'["receiver"] = to["receiver"]
        /\ to'["sender"] = IF sock["receiver"] = "up" /\ Wired("sender")
                           THEN to["sender"] \o <<Answer(pc.link, pc.id), IceOfPc(pc.id)>>
                           ELSE to["sender"]
        /\ UNCHANGED <<sock, path, link, rcv, spent>>
    BY <1>6, AnswerDoes
  <2>2. sock["receiver"] = "up"
    BY <1>1, UpToDate, NoWelcomeFirst DEF BothWired, Pages
  <2>3. PICK d : d = pc'
    OBVIOUS
  <2>4. /\ d.id = pc.id /\ d.link = pc.link /\ ~d.setting /\ d.remote
        /\ d.ice = "checking" /\ d.dc = "none"
        /\ pc.cand = "queued" => d.cand = "added"
    BY <2>1, <2>3, <1>1, <1>2 DEF Pcs
  <2>5. d # NoPc
    BY <2>4, <1>2 DEF NoPc, Pcs, Ids
  <2>6. PICK z \in Seq(ToSender) : z = <<Answer(link.id, d.id), IceOfPc(d.id)>>
    <3>1. link.id \in Ids /\ d.id \in Ids
      BY <2>4, <1>1, <1>2 DEF Same, Pcs
    <3>2. Answer(link.id, d.id) \in ToSender /\ IceOfPc(d.id) \in ToSender
      BY <3>1, MessagesTyped
    <3>3. <<Answer(link.id, d.id), IceOfPc(d.id)>> \in Seq(ToSender)
      BY <3>2, TwoMessages
    <3> QED  BY <3>3
  <2>7. to'["sender"] = z
    <3>1. to'["sender"] = <<>> \o z
      BY <2>1, <2>2, <2>4, <2>6, <1>1 DEF BothWired, Same
    <3> QED  BY <3>1
  <2>8. Same(link, d)
    BY <2>4, <2>5, <1>1 DEF Same
  <2>9. Answered(link, d, z, to["receiver"])
    BY <2>4, <2>6, <2>8, <1>1 DEF Answered
  <2>10. Calm
    BY <2>1 DEF Calm, BothWired, Wired
  <2> QED  BY <2>1, <2>3, <2>7, <2>9, <2>10
<1>7. CASE UNCHANGED vars
  BY <1>7 DEF vars, Calm, BothWired, Wired
<1> QED  BY <1>3, <1>4, <1>5, <1>6, <1>7

LEMMA ReceiverOpensDoes ==
    ASSUME TypeInv, ConnInv, path, ReceiverOpens
    PROVE  /\ Applied(link, pc) /\ Known(link, pc)
           /\ pc' # NoPc /\ pc'.id = pc.id /\ pc'.link = pc.link /\ pc'.setting = pc.setting
           /\ pc'.remote = pc.remote /\ pc'.cand = pc.cand
           /\ pc'.ice = "connected" /\ pc'.dc = "open"
           /\ rcv'.restarts = 0 /\ rcv'.watchdog = FALSE /\ rcv'.status = "connected"
           /\ UNCHANGED <<sock, to, path, link, spent>>
<1>1. Applied(link, pc) /\ Known(link, pc) /\ pc # NoPc /\ pc \in Pcs
  BY PairedIs, PcIs DEF ReceiverOpens, ReceiverMayOpen, Applied, Same
<1>2. PICK d : d = pc'
  OBVIOUS
<1>3. d = [pc EXCEPT !.ice = "connected", !.dc = "open"]
  BY <1>2 DEF ReceiverOpens
<1>4. /\ d.id = pc.id /\ d.link = pc.link /\ d.setting = pc.setting
      /\ d.remote = pc.remote /\ d.cand = pc.cand /\ d.ice = "connected" /\ d.dc = "open"
  BY <1>1, <1>3 DEF Pcs
<1>5. d # NoPc
  BY <1>1, <1>4 DEF NoPc, Pcs, Ids
<1>6. /\ rcv'.restarts = 0 /\ rcv'.watchdog = FALSE /\ rcv'.status = "connected"
      /\ UNCHANGED <<sock, to, path, link, spent>>
  BY DEF ReceiverOpens, TypeInv, RcvOK
<1> QED  BY <1>1, <1>2, <1>4, <1>5, <1>6

\* The sender reads the candidates of the connection whose answer it took.
LEMMA IceTaken ==
    ASSUME TypeInv, OnSenderMessage, Same(link, pc), link.remote = pc.id,
           to["sender"] = <<IceOfPc(pc.id)>>
    PROVE  /\ link' # NoLink /\ link'.id = link.id /\ link'.remote = link.remote
           /\ link'.sig = link.sig /\ link'.need = link.need /\ link'.ice = link.ice
           /\ link'.open = link.open /\ link'.timer = link.timer /\ pc.id \in link'.heard
           /\ to'["sender"] = <<>> /\ to'["receiver"] = to["receiver"]
           /\ UNCHANGED <<sock, path, pc, rcv, spent>>
<1>1. link # NoLink /\ link \in Links /\ pc \in Pcs
  BY PcIs DEF Same
<1>2. PICK m : m = IceOfPc(pc.id)
  OBVIOUS
<1>3. m.t = "ice" /\ m.pc = pc.id /\ Head(to["sender"]) = m /\ Tail(to["sender"]) = <<>>
  BY <1>2 DEF IceOfPc
<1>4. OnReceiverIce(m)
  BY <1>3, SenderReads DEF OnAnswer
<1>5. PICK h : h = link.heard \cup {pc.id}
  OBVIOUS
<1>6. link' = [link EXCEPT !.heard = h] /\ sock' = sock
  BY <1>1, <1>3, <1>4, <1>5 DEF OnReceiverIce
<1>7. PICK k : k = link'
  OBVIOUS
<1>8. /\ k.id = link.id /\ k.remote = link.remote /\ k.sig = link.sig
      /\ k.need = link.need /\ k.ice = link.ice /\ k.open = link.open
      /\ k.timer = link.timer /\ k.heard = h
  BY <1>1, <1>6, <1>7 DEF Links
<1>9. k # NoLink
  BY <1>1, <1>8 DEF NoLink, Links, Ids
<1>10. /\ to'["sender"] = <<>> /\ to'["receiver"] = to["receiver"]
       /\ UNCHANGED <<path, pc, rcv, spent>>
  BY <1>3, SenderReads
<1> QED  BY <1>5, <1>6, <1>7, <1>8, <1>9, <1>10

\* It takes the answer it waits for.
LEMMA AnswerTaken ==
    ASSUME TypeInv, OnSenderMessage, Brand(link), link.sig = "have-local-offer",
           NEW i \in Ids, NEW j,
           to["sender"] = <<Answer(j, i), IceOfPc(i)>>
    PROVE  /\ link' # NoLink /\ link'.id = link.id /\ link'.remote = i
           /\ link'.sig = "stable" /\ link'.need = link.need /\ link'.ice = "checking"
           /\ link'.open = link.open /\ link'.timer = link.timer
           /\ to'["sender"] = <<IceOfPc(i)>> /\ to'["receiver"] = to["receiver"]
           /\ UNCHANGED <<sock, path, pc, rcv, spent>>
<1>1. link # NoLink /\ link \in Links /\ link.ice = "checking"
  BY PcIs DEF Brand
<1>2. PICK m : m = Answer(j, i)
  OBVIOUS
<1>3. /\ m.t = "answer" /\ m.pc = i /\ Head(to["sender"]) = m
      /\ Tail(to["sender"]) = <<IceOfPc(i)>>
  BY <1>2 DEF Answer
<1>4. OnAnswer(m)
  BY <1>3, SenderReads DEF OnReceiverIce
<1>5. PICK h : h = link.heard \cap {i}
  OBVIOUS
<1>6. /\ link' = [link EXCEPT !.sig = "stable", !.remote = i, !.heard = h, !.ice = "checking"]
      /\ sock' = sock
  BY <1>1, <1>3, <1>4, <1>5 DEF OnAnswer
<1>7. PICK k : k = link'
  OBVIOUS
<1>8. /\ k.id = link.id /\ k.remote = i /\ k.sig = "stable" /\ k.need = link.need
      /\ k.ice = "checking" /\ k.open = link.open /\ k.timer = link.timer
  BY <1>1, <1>6, <1>7 DEF Links
<1>9. k # NoLink
  BY <1>1, <1>8 DEF NoLink, Links, Ids
<1>10. /\ to'["sender"] = <<IceOfPc(i)>> /\ to'["receiver"] = to["receiver"]
       /\ UNCHANGED <<path, pc, rcv, spent>>
  BY <1>3, SenderReads
<1> QED  BY <1>6, <1>7, <1>8, <1>9, <1>10

LEMMA SenderOpensDoes ==
    ASSUME TypeInv, SenderOpens
    PROVE  /\ link' # NoLink /\ link'.id = link.id /\ link'.remote = link.remote
           /\ link'.sig = link.sig /\ link'.need = link.need /\ link'.heard = link.heard
           /\ link'.ice = "connected" /\ link'.open /\ link'.timer = "none"
<1>1. link # NoLink /\ link \in Links
  BY PcIs DEF SenderOpens, SenderMayOpen, Reachable, Paired
<1>2. PICK l : l = [link EXCEPT !.ice = "connected", !.timer = "none", !.restarts = 0]
  OBVIOUS
<1>3. PICK k : k = link'
  OBVIOUS
<1>4. k = onOpen(l)
  BY <1>2, <1>3 DEF SenderOpens, SenderLinkStep
<1>5. /\ k.id = link.id /\ k.remote = link.remote /\ k.sig = link.sig
      /\ k.need = link.need /\ k.heard = link.heard /\ k.ice = "connected"
      /\ k.open = TRUE /\ k.timer = "none"
  BY <1>1, <1>2, <1>4 DEF Links, onOpen
<1>6. k # NoLink
  BY <1>1, <1>5 DEF NoLink, Links, Ids
<1> QED  BY <1>3, <1>5, <1>6

\* Until the receiver is connected, only messages, and the opening at either
\* end, can happen to a link that is answered.
LEMMA AnsweredSteps ==
    ASSUME TypeInv, ConnInv, path, BothWired,
           Answered(link, pc, to["sender"], to["receiver"]),
           [Next]_vars, spent' = spent
    PROVE  \/ OnSenderMessage \/ OnReceiverMessage \/ SenderOpens \/ ReceiverOpens
           \/ UNCHANGED vars
<1>1. /\ Same(link, pc) /\ ~link.need /\ link # NoLink /\ pc # NoPc
      /\ ~pc.setting /\ pc.ice = "checking" /\ pc.dc = "none"
  BY DEF Answered, Same
<1>2. Bound(link, pc) => Applied(link, pc) /\ Paired
  BY <1>1, PairedIs DEF Bound, Applied
<1>3. \/ Brand(link) /\ to["sender"] # <<>>
      \/ Bound(link, pc)
  <2>1. \/ Brand(link) /\ to["sender"] = <<Answer(link.id, pc.id), IceOfPc(pc.id)>>
        \/ Bound(link, pc)
    BY DEF Answered
  <2>2. \A m, n : <<m, n>> # <<>>
    OBVIOUS
  <2> QED  BY <2>1, <2>2
<1>4. ~TimersRun
  <2>1. SUFFICES ASSUME to["sender"] = <<>>, to["receiver"] = <<>> PROVE ~TimersRun
    BY DEF TimersRun, Pages
  <2>2. Bound(link, pc) /\ Known(link, pc)
    BY <2>1 DEF Answered, Known
  <2>3. Reachable
    BY <2>2, <1>2, PairedIs
  <2> QED  BY <2>3, <1>1 DEF TimersRun, ReceiverMayOpen
<1>5. Progress \/ UNCHANGED vars
  BY <1>4, BusySteps
<1>6. ~offer /\ ~answer
  BY <1>1 DEF offer, OfferPending, answer, AnswerPending
<1>7. ~SenderIceReturns /\ ~SenderIceDisconnects /\ ~SenderChannelCloses
  <2>1. CASE Brand(link)
    BY <2>1 DEF Brand, SenderIceReturns, SenderMayReturn, SenderIceDisconnects,
       SenderMayLose, SenderChannelCloses, SenderHearsClose
  <2>2. CASE Bound(link, pc)
    <3>1. link.open => link.ice # "checking"
      BY <1>1 DEF ConnInv, Conn, LinkShape
    <3> QED
      BY <2>2, <3>1, <1>2 DEF Bound, SenderIceReturns, SenderMayReturn,
         SenderIceDisconnects, SenderMayLose, SenderChannelCloses, SenderHearsClose
  <2> QED  BY <2>1, <2>2, <1>3
<1>8. ~ReceiverIceReturns /\ ~ReceiverIceDisconnects /\ ~ReceiverChannelCloses
  BY <1>1 DEF ReceiverIceReturns, ReceiverMayReturn, ReceiverIceDisconnects,
     ReceiverMayLose, ReceiverChannelCloses, ReceiverHearsClose
<1> QED  BY <1>5, <1>6, <1>7, <1>8 DEF Progress

LEMMA AnsweredKeeps ==
    ASSUME TypeInv, ConnInv, path, BothWired,
           Answered(link, pc, to["sender"], to["receiver"]),
           [Next]_vars, spent' = spent
    PROVE  \/ /\ Calm
              /\ Answered(link', pc', to'["sender"], to'["receiver"])
           \/ /\ BothWired'
              /\ Opened(link', pc', to'["sender"], to'["receiver"])
              /\ rcv'.restarts = 0 /\ rcv'.status = "connected"
<1>1. PICK s, r : s = to["sender"] /\ r = to["receiver"]
  OBVIOUS
<1>2. /\ Same(link, pc) /\ ~link.need /\ ~pc.setting /\ pc.remote
      /\ pc.ice = "checking" /\ pc.dc = "none"
      /\ link # NoLink /\ pc # NoPc /\ pc \in Pcs
      /\ \/ r = <<IceOfLink(link.id)>>
         \/ r = <<>> /\ pc.cand = "added"
  BY <1>1, PcIs DEF Answered, Same
<1>3. \/ /\ Brand(link) /\ link.sig = "have-local-offer"
         /\ s = <<Answer(link.id, pc.id), IceOfPc(pc.id)>>
      \/ /\ Bound(link, pc)
         /\ s = <<IceOfPc(pc.id)>> \/ (s = <<>> /\ pc.id \in link.heard)
  BY <1>1 DEF Answered
<1>4. \/ OnSenderMessage \/ OnReceiverMessage \/ SenderOpens \/ ReceiverOpens
      \/ UNCHANGED vars
  BY AnsweredSteps
<1>5. Applied(link, pc) => Bound(link, pc)
  BY <1>2, <1>3 DEF Applied, Brand, Pcs, Ids
<1>6. CASE OnSenderMessage
  <2>1. s # <<>>
    BY <1>1, <1>6, SenderReads
  <2>2. PICK k : k = link'
    OBVIOUS
  <2>3. CASE Brand(link) /\ link.sig = "have-local-offer"
             /\ s = <<Answer(link.id, pc.id), IceOfPc(pc.id)>>
    <3>1. pc.id \in Ids
      BY <1>2 DEF Pcs
    <3>2. /\ k # NoLink /\ k.id = link.id /\ k.remote = pc.id /\ k.sig = "stable"
          /\ k.need = link.need /\ k.ice = "checking"
          /\ to'["sender"] = <<IceOfPc(pc.id)>> /\ to'["receiver"] = r
          /\ UNCHANGED <<sock, path, pc, rcv, spent>>
      BY <2>2, <2>3, <3>1, <1>1, <1>6, AnswerTaken
    <3>3. Same(k, pc) /\ Bound(k, pc)
      BY <3>2, <1>2 DEF Same, Bound
    <3>4. Answered(k, pc, <<IceOfPc(pc.id)>>, r)
      BY <3>2, <3>3, <1>2 DEF Answered
    <3>5. Calm
      BY <3>2 DEF Calm, BothWired, Wired
    <3> QED  BY <2>2, <3>2, <3>4, <3>5
  <2>4. CASE Bound(link, pc) /\ s = <<IceOfPc(pc.id)>>
    <3>1. link.remote = pc.id
      BY <2>4 DEF Bound
    <3>2. /\ k # NoLink /\ k.id = link.id /\ k.remote = link.remote /\ k.sig = link.sig
          /\ k.need = link.need /\ k.ice = link.ice /\ pc.id \in k.heard
          /\ to'["sender"] = <<>> /\ to'["receiver"] = r
          /\ UNCHANGED <<sock, path, pc, rcv, spent>>
      BY <2>2, <2>4, <3>1, <1>1, <1>2, <1>6, IceTaken
    <3>3. Same(k, pc) /\ Bound(k, pc)
      BY <2>4, <3>2, <1>2 DEF Same, Bound
    <3>4. Answered(k, pc, <<>>, r)
      BY <3>2, <3>3, <1>2 DEF Answered
    <3>5. Calm
      BY <3>2 DEF Calm, BothWired, Wired
    <3> QED  BY <2>2, <3>2, <3>4, <3>5
  <2> QED  BY <2>1, <2>3, <2>4, <1>3
<1>7. CASE OnReceiverMessage
  <2>1. r = <<IceOfLink(link.id)>>
    BY <1>1, <1>2, <1>7, ReceiverReads
  <2>2. /\ to'["receiver"] = <<>> /\ to'["sender"] = s
        /\ pc' = [pc EXCEPT !.cand = "added"]
        /\ UNCHANGED <<sock, path, link, rcv, spent>>
    BY <2>1, <1>1, <1>2, <1>7, OwnIceReads
  <2>3. PICK d : d = pc'
    OBVIOUS
  <2>4. /\ d.id = pc.id /\ d.link = pc.link /\ ~d.setting /\ d.remote
        /\ d.ice = "checking" /\ d.dc = "none" /\ d.cand = "added"
    BY <2>2, <2>3, <1>2 DEF Pcs
  <2>5. d # NoPc
    BY <2>4, <1>2 DEF NoPc, Pcs, Ids
  <2>6. Same(link, d) /\ (Bound(link, pc) => Bound(link, d))
    BY <2>4, <2>5, <1>2 DEF Same, Bound
  <2>7. Answered(link, d, s, <<>>)
    BY <2>4, <2>6, <1>2, <1>3 DEF Answered
  <2>8. Calm
    BY <2>2 DEF Calm, BothWired, Wired
  <2> QED  BY <2>2, <2>3, <2>7, <2>8
<1>8. CASE SenderOpens
  <2>1. PICK k : k = link'
    OBVIOUS
  <2>2. /\ k # NoLink /\ k.id = link.id /\ k.remote = link.remote /\ k.sig = link.sig
        /\ k.need = link.need /\ k.heard = link.heard /\ k.ice = "connected"
    BY <2>1, <1>8, SenderOpensDoes
  <2>3. UNCHANGED <<sock, to, path, pc, rcv, spent>>
    BY <1>8, LinkStepsSame
  <2>4. Applied(link, pc)
    BY <1>8, PairedIs DEF SenderOpens, SenderMayOpen
  <2>5. Same(k, pc) /\ Bound(k, pc) /\ Bound(link, pc)
    BY <2>2, <2>4, <1>2, <1>5 DEF Same, Bound
  <2>6. s = <<IceOfPc(pc.id)>> \/ (s = <<>> /\ pc.id \in k.heard)
    <3>1. ~Brand(link)
      BY <2>4, <1>2 DEF Brand, Applied, Pcs, Ids
    <3> QED  BY <3>1, <2>2, <1>3
  <2>7. Answered(k, pc, s, r)
    BY <2>2, <2>5, <2>6, <1>2 DEF Answered
  <2>8. Calm
    BY <2>3 DEF Calm, BothWired, Wired
  <2> QED  BY <2>1, <2>3, <2>7, <2>8, <1>1
<1>9. CASE ReceiverOpens
  <2>1. PICK d : d = pc'
    OBVIOUS
  <2>2. /\ Applied(link, pc)
        /\ d # NoPc /\ d.id = pc.id /\ d.link = pc.link /\ d.setting = pc.setting
        /\ d.ice = "connected" /\ d.dc = "open"
        /\ rcv'.restarts = 0 /\ rcv'.status = "connected"
        /\ UNCHANGED <<sock, to, path, link, spent>>
    BY <2>1, <1>9, ReceiverOpensDoes
  <2>3. Same(link, d) /\ Bound(link, d)
    BY <2>2, <1>2, <1>5 DEF Same, Bound
  <2>4. s = <<>> \/ s = <<IceOfPc(d.id)>>
    <3>1. ~Brand(link)
      BY <2>2, <1>2 DEF Brand, Applied, Pcs, Ids
    <3> QED  BY <3>1, <2>2, <1>3
  <2>5. Opened(link, d, s, r)
    BY <2>2, <2>3, <2>4, <1>2 DEF Opened
  <2>6. BothWired'
    BY <2>2 DEF BothWired, Wired
  <2> QED  BY <2>1, <2>2, <2>5, <2>6, <1>1
<1>10. CASE UNCHANGED vars
  BY <1>10 DEF vars, Calm, BothWired, Wired
<1> QED  BY <1>4, <1>6, <1>7, <1>8, <1>9, <1>10

\* The round goes on, or the receiver's end opens.
LEMMA UnderwayKeeps ==
    ASSUME TypeInv, ConnInv, WelcomeInv, Enough, path, BothWired,
           Underway(link, pc, to["sender"], to["receiver"]),
           [Next]_vars, spent' = spent
    PROVE  \/ /\ Calm
              /\ Underway(link', pc', to'["sender"], to'["receiver"])
           \/ /\ BothWired'
              /\ Opened(link', pc', to'["sender"], to'["receiver"])
              /\ rcv'.restarts = 0 /\ rcv'.status = "connected"
<1>1. CASE Offering(link, pc, to["sender"], to["receiver"])
  BY <1>1, OfferingKeeps DEF Underway
<1>2. CASE Offered(link, pc, to["sender"], to["receiver"])
  BY <1>2, OfferedKeeps DEF Underway
<1>3. CASE Answering(link, pc, to["sender"], to["receiver"])
  BY <1>3, AnsweringKeeps DEF Underway
<1>4. CASE Answered(link, pc, to["sender"], to["receiver"])
  BY <1>4, AnsweredKeeps DEF Underway
<1> QED  BY <1>1, <1>2, <1>3, <1>4 DEF Underway

LEMMA ChainKeeps ==
    ASSUME TypeInv, ConnInv, WelcomeInv, Enough, path, Chain, [Next]_vars, spent' = spent
    PROVE  \/ Calm /\ Chain'
           \/ BothWired' /\ rcv'.restarts = 0 /\ rcv'.status = "connected"
<1>1. BothWired
  BY DEF Chain
<1>2. CASE Asked(link, pc, to["sender"], to["receiver"], sock["sender"])
  <2>1. /\ Calm
        /\ \/ AskedNow'
           \/ Offering(link', pc', to'["sender"], to'["receiver"])
    BY <1>1, <1>2, AskedKeeps DEF AskedNow, Calm
  <2> QED  BY <2>1 DEF Calm, Chain, AskedNow, Underway
<1>3. CASE Underway(link, pc, to["sender"], to["receiver"])
  BY <1>1, <1>3, UnderwayKeeps DEF Calm, Chain
<1> QED  BY <1>2, <1>3 DEF Chain

\* A connection that has opened, and that nothing disturbs, stays.
LEMMA OpenedKeeps ==
    ASSUME TypeInv, ConnInv, WelcomeInv, Enough, path, BothWired,
           Opened(link, pc, to["sender"], to["receiver"]),
           [Next]_vars, spent' = spent
    PROVE  /\ BothWired' /\ rcv'.restarts = rcv.restarts /\ rcv'.status = rcv.status
           /\ Opened(link', pc', to'["sender"], to'["receiver"])
<1>1. PICK s, r : s = to["sender"] /\ r = to["receiver"]
  OBVIOUS
<1>2. /\ Same(link, pc) /\ Bound(link, pc) /\ link # NoLink /\ pc # NoPc /\ pc \in Pcs
      /\ ~pc.setting /\ pc.ice = "connected" /\ pc.dc = "open"
      /\ r = <<>> \/ r = <<IceOfLink(link.id)>>
      /\ s = <<>> \/ s = <<IceOfPc(pc.id)>>
  BY <1>1, PcIs DEF Opened, Same
<1>3. Applied(link, pc) /\ Paired /\ Known(link, pc) /\ Reachable
  BY <1>2, PairedIs DEF Bound, Applied, ConnInv, Conn, PcShape
<1>4. Healthy /\ ~link.need /\ link.ice \in {"checking", "connected"} /\ pc.id = link.remote
  BY <1>2, <1>3 DEF Healthy, Bound, ConnInv, Conn, RoundOK, Due
<1>5. /\ link.open => link.ice = "connected"
      /\ ~link.open => link.ice = "checking"
      /\ link.timer = "disconnect" => link.ice = "disconnected"
      /\ link.timer = "connect" => ~link.open
  BY <1>2, <1>4 DEF ConnInv, Conn, LinkShape
<1>6. \/ Progress \/ ConnectTimeout \/ Watchdog \/ UNCHANGED vars
  <2>1. ~PathReturns
    BY DEF PathReturns
  <2>2. ~DisconnectTimeout /\ ~SenderIceFails /\ ~ReceiverIceFails
    BY <1>3, <1>4, <1>5 DEF DisconnectTimeout, SenderIceFails, ReceiverIceFails
  <2> QED
    BY <2>1, <2>2, EnvironmentSpends, WiredStays DEF Next, System, SenderTimer, ReceiverTimer
<1>7. ~ConnectTimeout
  BY <1>2, <1>3, <1>5 DEF ConnectTimeout, TimersRun, SenderMayOpen
<1>8. ASSUME Progress
      PROVE  OnSenderMessage \/ OnReceiverMessage \/ SenderOpens
  <2>1. ~offer /\ ~answer
    BY <1>2, <1>4 DEF offer, OfferPending, answer, AnswerPending
  <2>2. ~SenderIceReturns /\ ~SenderIceDisconnects /\ ~SenderChannelCloses
    BY <1>3, <1>4, <1>5 DEF SenderIceReturns, SenderMayReturn, SenderIceDisconnects,
       SenderMayLose, SenderChannelCloses, SenderHearsClose
  <2>3. /\ ~ReceiverOpens /\ ~ReceiverIceReturns /\ ~ReceiverIceDisconnects
        /\ ~ReceiverChannelCloses
    BY <1>2, <1>3 DEF ReceiverOpens, ReceiverMayOpen, ReceiverIceReturns,
       ReceiverMayReturn, ReceiverIceDisconnects, ReceiverMayLose,
       ReceiverChannelCloses, ReceiverHearsClose, Same
  <2> QED  BY <1>8, <2>1, <2>2, <2>3 DEF Progress
<1>9. CASE OnSenderMessage
  <2>1. s = <<IceOfPc(pc.id)>>
    BY <1>1, <1>2, <1>9, SenderReads
  <2>2. PICK k : k = link'
    OBVIOUS
  <2>3. /\ k # NoLink /\ k.id = link.id /\ k.remote = link.remote /\ k.sig = link.sig
        /\ k.ice = link.ice
        /\ to'["sender"] = <<>> /\ to'["receiver"] = r
        /\ UNCHANGED <<sock, path, pc, rcv, spent>>
    BY <2>1, <2>2, <1>1, <1>2, <1>4, <1>9, IceTaken
  <2>4. Opened(k, pc, <<>>, r)
    BY <2>3, <1>2 DEF Opened, Same, Bound
  <2>5. BothWired'
    BY <2>3 DEF BothWired, Wired
  <2> QED  BY <2>2, <2>3, <2>4, <2>5
<1>10. CASE OnReceiverMessage
  <2>1. r = <<IceOfLink(link.id)>>
    BY <1>1, <1>2, <1>10, ReceiverReads
  <2>2. /\ to'["receiver"] = <<>> /\ to'["sender"] = s
        /\ \E c : pc' = [pc EXCEPT !.cand = c]
        /\ UNCHANGED <<sock, path, link, rcv, spent>>
    BY <2>1, <1>1, <1>2, <1>10, OwnIceReads
  <2>3. PICK d : d = pc'
    OBVIOUS
  <2>4. /\ d.id = pc.id /\ d.link = pc.link /\ ~d.setting
        /\ d.ice = "connected" /\ d.dc = "open"
    BY <2>2, <2>3, <1>2 DEF Pcs
  <2>5. d # NoPc
    BY <2>4, <1>2 DEF NoPc, Pcs, Ids
  <2>6. Opened(link, d, s, <<>>)
    BY <2>4, <2>5, <1>2 DEF Opened, Same, Bound
  <2>7. BothWired'
    BY <2>2 DEF BothWired, Wired
  <2> QED  BY <2>2, <2>3, <2>6, <2>7
<1>11. CASE SenderOpens
  <2>1. PICK k : k = link'
    OBVIOUS
  <2>2. /\ k # NoLink /\ k.id = link.id /\ k.remote = link.remote /\ k.sig = link.sig
        /\ k.ice = "connected"
    BY <2>1, <1>11, SenderOpensDoes
  <2>3. UNCHANGED <<sock, to, path, pc, rcv, spent>>
    BY <1>11, LinkStepsSame
  <2>4. Opened(k, pc, s, r)
    BY <2>2, <1>2 DEF Opened, Same, Bound
  <2>5. BothWired'
    BY <2>3 DEF BothWired, Wired
  <2> QED  BY <2>1, <2>3, <2>4, <2>5, <1>1
<1>12. CASE Watchdog
  <2>1. /\ UNCHANGED <<link, pc, sock, to>>
        /\ rcv'.restarts = rcv.restarts /\ rcv'.status = rcv.status
    BY <1>4, <1>12, WatchdogDoes
  <2> QED  BY <2>1 DEF BothWired, Wired
<1>13. CASE UNCHANGED vars
  BY <1>13 DEF vars, BothWired, Wired
<1> QED  BY <1>6, <1>7, <1>8, <1>9, <1>10, <1>11, <1>12, <1>13

-----------------------------------------------------------------------------
(* Until the first interruption.                                           *)

\* Nothing has happened to the receiver's page yet, or it was reloaded.
Untouched == ~rcv.watchdog /\ pc = NoPc /\ rcv.restarts = 0

Start ==
    /\ Untouched /\ sock["receiver"] = "off" /\ Wired("sender")
    /\ to["sender"] = <<>> /\ link = NoLink

First ==
    \/ Start
    \/ /\ BothWired
       /\ \/ AskedNow /\ link = NoLink
          \/ Underway(link, pc, to["sender"], to["receiver"])
          \/ Opened(link, pc, to["sender"], to["receiver"])

LEMMA UnwiredQueue ==
    ASSUME TypeInv, WelcomeInv, NEW p \in Pages, ~Wired(p)
    PROVE  to[p] = <<>>
  BY WiredIs DEF WelcomeInv, WelcomeOK, Unwired, Pages

\* A page that is not touched only comes back, if nothing disturbs it.
LEMMA UntouchedSteps ==
    ASSUME TypeInv, WelcomeInv, Untouched, ~Wired("receiver"), [Next]_vars, spent' = spent
    PROVE  /\ rcv' = rcv /\ pc' = pc
           /\ \/ OnSenderMessage \/ offer \/ SenderChannelCloses \/ SenderTimer
              \/ SenderIceDisconnects
              \/ \E p \in Pages : PageNotices(p) \/ RoomNotices(p) \/ Reconnect(p)
              \/ PathReturns \/ UNCHANGED vars
<1>1. pc = NoPc /\ ~rcv.watchdog /\ to["receiver"] = <<>>
  BY UnwiredQueue DEF Untouched, Pages
<1>2. ~OnReceiverMessage /\ ~answer /\ ~SenderOpens /\ ~SenderIceReturns
  BY <1>1 DEF OnReceiverMessage, answer, AnswerPending, SenderOpens, SenderMayOpen,
     Reachable, SenderIceReturns, SenderMayReturn, Paired
<1>3. /\ ~ReceiverOpens /\ ~ReceiverIceReturns /\ ~ReceiverIceDisconnects
      /\ ~ReceiverChannelCloses /\ ~ReceiverTimer
  BY <1>1 DEF ReceiverOpens, ReceiverMayOpen, Reachable, ReceiverIceReturns,
     ReceiverMayReturn, Paired, ReceiverIceDisconnects, ReceiverMayLose,
     ReceiverChannelCloses, ReceiverHearsClose, ReceiverTimer, ReceiverIceFails, Watchdog
<1>4. \/ OnSenderMessage \/ offer \/ SenderChannelCloses \/ SenderTimer
      \/ SenderIceDisconnects
      \/ \E p \in Pages : PageNotices(p) \/ RoomNotices(p) \/ Reconnect(p)
      \/ PathReturns \/ UNCHANGED vars
  BY <1>2, <1>3, EnvironmentSpends DEF Next, System, Progress
<1>5. rcv' = rcv /\ pc' = pc
  BY <1>4, LinkStepsSame DEF OnSenderMessage, offer, PageNotices, RoomNotices, Reconnect,
     PathReturns, vars
<1> QED  BY <1>4, <1>5

LEMMA StartKeeps ==
    ASSUME TypeInv, WelcomeInv, path, Start, [Next]_vars, spent' = spent
    PROVE  /\ rcv' = rcv
           /\ Start' \/ (BothWired' /\ AskedNow' /\ link' = NoLink)
<1>1. /\ Untouched /\ pc = NoPc /\ link = NoLink /\ to["sender"] = <<>>
      /\ sock["receiver"] = "off" /\ ~Wired("receiver") /\ Wired("sender")
  BY DEF Start, Untouched, Wired
<1>2. /\ rcv' = rcv /\ pc' = pc
      /\ \/ OnSenderMessage \/ offer \/ SenderChannelCloses \/ SenderTimer
         \/ SenderIceDisconnects
         \/ \E p \in Pages : PageNotices(p) \/ RoomNotices(p) \/ Reconnect(p)
         \/ PathReturns \/ UNCHANGED vars
  BY <1>1, UntouchedSteps
<1>3. /\ ~OnSenderMessage /\ ~offer /\ ~SenderChannelCloses /\ ~SenderTimer
      /\ ~SenderIceDisconnects /\ ~PathReturns
  BY <1>1 DEF OnSenderMessage, offer, OfferPending, SenderChannelCloses,
     SenderHearsClose, SenderTimer, DisconnectTimeout, SenderIceFails, ConnectTimeout,
     SenderIceDisconnects, SenderMayLose, PathReturns
<1>4. /\ \A p \in Pages : ~PageNotices(p) /\ ~RoomNotices(p)
      /\ ~Reconnect("sender")
  BY <1>1 DEF Pages, PageNotices, RoomNotices, Reconnect, Wired
<1>5. CASE Reconnect("receiver")
  <2>1. /\ sock'["receiver"] = "joining" /\ sock'["sender"] = sock["sender"]
        /\ to'["receiver"] = <<WelcomePeer(Present("sender"))>>
        /\ to'["sender"] = <<>> \o <<Join>>
        /\ UNCHANGED <<path, link, pc, rcv, spent>>
    BY <1>1, <1>5, ReceiverReconnects
  <2>2. PICK w : w = WelcomePeer(Present("sender"))
    OBVIOUS
  <2>3. None(<<w>>, Signals)
    <3>1. w \notin Signals
      BY <2>2 DEF Signals, WelcomePeer
    <3> QED  BY <3>1, OneHas
  <2>4. Asked(NoLink, NoPc, <<>> \o <<Join>>, <<w>>, sock["sender"])
    <3>1. <<>> \in Seq({Leave}) /\ Join \in Triggers
      BY DEF Triggers
    <3>2. \E p \in Seq({Leave}), t \in Triggers : <<>> \o <<Join>> = p \o <<t>>
      BY <3>1
    <3> QED  BY <2>3, <3>2 DEF Asked, Quiet, Early, Shut
  <2>5. BothWired'
    BY <2>1, <1>1 DEF BothWired, Wired
  <2> QED  BY <2>1, <2>2, <2>4, <2>5, <1>1 DEF AskedNow
<1>6. CASE UNCHANGED vars
  BY <1>6 DEF vars, Start, Untouched, Wired
<1> QED  BY <1>2, <1>3, <1>4, <1>5, <1>6 DEF Pages

LEMMA FirstKeeps ==
    ASSUME TypeInv, ConnInv, WelcomeInv, Enough, path, First, rcv.restarts = 0,
           [Next]_vars, spent' = spent
    PROVE  /\ First' /\ rcv'.restarts = 0
           /\ rcv'.status \in {rcv.status, "waiting", "reconnecting", "connected"}
<1>1. CASE Start
  BY <1>1, StartKeeps DEF First
<1>2. CASE BothWired /\ AskedNow /\ link = NoLink
  <2>1. /\ BothWired' /\ rcv'.restarts = rcv.restarts
        /\ rcv'.status \in {rcv.status, "waiting", "reconnecting"}
        /\ \/ AskedNow' /\ link' = NoLink
           \/ Offering(link', pc', to'["sender"], to'["receiver"])
    BY <1>2, AskedKeeps
  <2> QED  BY <2>1 DEF First, Underway
<1>3. CASE BothWired /\ Underway(link, pc, to["sender"], to["receiver"])
  BY <1>3, UnderwayKeeps DEF First, Calm
<1>4. CASE BothWired /\ Opened(link, pc, to["sender"], to["receiver"])
  BY <1>4, OpenedKeeps DEF First
<1> QED  BY <1>1, <1>2, <1>3, <1>4 DEF First

-----------------------------------------------------------------------------
(* Once interrupted: what the receiver's attempts can add up to.           *)

Most == IF NoticedBy > 2 THEN NoticedBy ELSE 2

\* Two attempts at most are spent, and one only where the connection may yet
\* lose its channel.
Low ==
    /\ rcv.restarts <= 2
    /\ pc # NoPc /\ pc.dc = "open" => rcv.restarts <= 1

\* The watchdog stops asking before the budget is used up, and ICE fails once.
Spared ==
    \/ rcv.restarts <= Most
    \/ rcv.restarts <= Most + 1 /\ pc # NoPc /\ pc.ice = "failed"

\* The sender is away, and the receiver waits.
SenderAway ==
    /\ ~Wired("sender") /\ Wired("receiver") /\ Spared /\ Quiet(pc)
    /\ None(to["receiver"], Signals)
    /\ pc = NoPc => link = NoLink \/ ~link.open

\* It is back, and the receiver will ask, with a fresh budget.
MasterBack ==
    /\ pc # NoPc /\ pc.dc # "open"
    /\ ~None(to["receiver"], {MasterMsg(TRUE)})

\* The receiver is away; its link offers nothing, and is not open.
ReceiverAway ==
    /\ Wired("sender") /\ ~Wired("receiver") /\ Spared /\ Quiet(pc)
    /\ to["sender"] \in Seq({Leave})
    /\ Shut(link, pc)
    /\ link # NoLink => ~link.need /\ (link.remote = 0 \/ Applied(link, pc))

\* What the steps that ask for nothing do to the receiver.
LEMMA CalmReads ==
    ASSUME TypeInv, Enough, OnReceiverMessage
    PROVE  /\ rcv'.status \in {rcv.status, "waiting"}
           /\ \/ rcv'.restarts = 1
              \/ /\ rcv'.restarts = rcv.restarts
                 /\ pc' # NoPc /\ pc'.dc = "open" => pc # NoPc /\ pc.dc = "open"
<1>1. PICK m \in ToReceiver, q \in Seq(ToReceiver) :
          OnReceiverWelcome(m, q) \/ OnMaster(m, q) \/ OnOffer(m, q) \/ OnSenderIce(m, q)
  BY ReceiverReads
<1>2. MAX_RESTARTS > 0
  BY NegotiationAssumption DEF Enough
<1>3. CASE OnReceiverWelcome(m, q)
  BY <1>3, WelcomeReads
<1>4. CASE OnMaster(m, q)
  BY <1>2, <1>4, MasterReads
<1>5. CASE OnOffer(m, q)
  <2>1. rcv' = rcv
    BY <1>5, OfferReads
  <2>2. CASE pc' = NewPc(Fresh(PcsNamed), m.link)
    BY <2>1, <2>2 DEF NewPc
  <2>3. CASE pc.ice # "closed" /\ pc' = [pc EXCEPT !.setting = TRUE]
    <3>1. pc # NoPc
      BY <2>3 DEF NoPc
    <3>2. pc \in Pcs
      BY <3>1, PcIs
    <3> QED  BY <2>1, <2>3, <3>1, <3>2 DEF Pcs
  <2> QED  BY <2>2, <2>3, <1>5, OfferReads
<1>6. CASE OnSenderIce(m, q)
  <2>1. rcv' = rcv
    BY <1>6, IceReads
  <2>2. CASE pc' = pc
    BY <2>1, <2>2
  <2>3. CASE pc # NoPc /\ \E c : pc' = [pc EXCEPT !.cand = c]
    BY <2>1, <2>3, PcIs DEF Pcs
  <2> QED  BY <2>2, <2>3, <1>6, IceReads
<1> QED  BY <1>1, <1>3, <1>4, <1>5, <1>6

LEMMA CalmSteps ==
    ASSUME TypeInv, ConnInv, Enough, path, [Next]_vars, spent' = spent
    PROVE  \/ ReceiverChannelCloses \/ ReceiverTimer
           \/ /\ rcv'.status \in {rcv.status, "waiting", "reconnecting", "connected"}
              /\ \/ rcv'.restarts \in {0, 1}
                 \/ /\ rcv'.restarts = rcv.restarts
                    /\ pc' # NoPc /\ pc'.dc = "open" => pc # NoPc /\ pc.dc = "open"
<1>1. CASE OnReceiverMessage
  BY <1>1, CalmReads
<1>2. CASE ReceiverOpens
  BY <1>2, ReceiverOpensDoes
<1>3. CASE ReceiverIceReturns \/ ReceiverIceDisconnects
  <2>1. pc # NoPc /\ pc \in Pcs
    BY <1>3, PcIs DEF ReceiverIceReturns, ReceiverMayReturn, Paired,
       ReceiverIceDisconnects, ReceiverMayLose
  <2>2. \E i : pc' = [pc EXCEPT !.ice = i]
    BY <1>3 DEF ReceiverIceReturns, ReceiverIceDisconnects
  <2>3. /\ rcv'.restarts = rcv.restarts
        /\ rcv'.status \in {rcv.status, "reconnecting", "connected"}
    BY <1>3 DEF ReceiverIceReturns, ReceiverIceDisconnects, TypeInv, RcvOK
  <2> QED  BY <2>1, <2>2, <2>3 DEF Pcs
<1>4. CASE answer
  <2>1. pc # NoPc /\ pc \in Pcs /\ rcv' = rcv
    BY <1>4, PcIs, AnswerDoes
  <2>2. PICK c : c = IF pc.cand = "queued" THEN "added" ELSE pc.cand
    OBVIOUS
  <2>3. pc' = [pc EXCEPT !.setting = FALSE, !.remote = TRUE, !.cand = c]
    BY <2>2, <1>4, AnswerDoes
  <2> QED  BY <2>1, <2>3 DEF Pcs
<1>5. CASE rcv' = rcv /\ pc' = pc
  BY <1>5
<1>6. ASSUME OnSenderMessage \/ offer \/ SenderOpens \/ SenderIceReturns
                 \/ SenderIceDisconnects \/ SenderChannelCloses \/ SenderTimer
      PROVE  rcv' = rcv /\ pc' = pc
  BY <1>6, LinkStepsSame DEF OnSenderMessage, offer
<1>7. ASSUME NEW p \in Pages, PageNotices(p) \/ RoomNotices(p) \/ Reconnect(p)
      PROVE  rcv' = rcv /\ pc' = pc
  BY <1>7 DEF PageNotices, RoomNotices, Reconnect
<1>8. ASSUME PathReturns \/ UNCHANGED vars
      PROVE  rcv' = rcv /\ pc' = pc
  BY <1>8 DEF PathReturns, vars
<1> QED
  BY <1>1, <1>2, <1>3, <1>4, <1>5, <1>6, <1>7, <1>8, EnvironmentSpends
  DEF Next, System, Progress

\* A page's socket is lost only to a fault, or as the receiver gives up, and
\* comes back by reconnecting.
LEMMA WiresKept ==
    ASSUME TypeInv, WelcomeInv, Enough, [Next]_vars, spent' = spent
    PROVE  \/ GivesUp
           \/ /\ Wired("sender") => Wired("sender")'
              /\ Wired("receiver") => Wired("receiver")'
              /\ ~Wired("sender") => ~Wired("sender")' \/ Reconnect("sender")
              /\ ~Wired("receiver") => ~Wired("receiver")' \/ Reconnect("receiver")
<1>1. CASE OnSenderMessage
  <2>1. /\ sock'["receiver"] = sock["receiver"]
        /\ sock'["sender"] \in {"up", sock["sender"]}
        /\ Wired("sender")
    BY <1>1, SenderReads, UnwiredQueue DEF Pages
  <2> QED  BY <2>1 DEF Wired
<1>2. CASE OnReceiverMessage
  <2>1. Wired("receiver")
    BY <1>2, ReceiverReads, UnwiredQueue DEF Pages
  <2>2. /\ sock'["sender"] = sock["sender"]
        /\ sock'["receiver"] \in {"up", sock["receiver"]} \/ GivesUp
    <3>1. PICK m \in ToReceiver, q \in Seq(ToReceiver) :
              OnReceiverWelcome(m, q) \/ OnMaster(m, q) \/ OnOffer(m, q) \/ OnSenderIce(m, q)
      BY <1>2, ReceiverReads
    <3>2. MAX_RESTARTS > 0
      BY NegotiationAssumption DEF Enough
    <3> QED  BY <3>1, <3>2, WelcomeReads, MasterReads, OfferReads, IceReads
  <2> QED  BY <2>1, <2>2 DEF Wired
<1>3. ASSUME NEW p \in Pages, PageNotices(p) \/ RoomNotices(p)
      PROVE  /\ sock[p] \in Unwired /\ sock'[p] \in Unwired
             /\ \A o \in Pages \ {p} : sock'[o] = sock[o]
  BY <1>3, PageNoticesDoes, RoomNoticesDoes
<1>4. CASE \E p \in Pages : PageNotices(p) \/ RoomNotices(p)
  BY <1>3, <1>4 DEF Pages, Wired, Unwired
<1>5. CASE Reconnect("sender")
  BY <1>5, SenderReconnects DEF Wired, Unwired
<1>6. CASE Reconnect("receiver")
  BY <1>6, ReceiverReconnects DEF Wired, Unwired
<1>7. CASE sock' = sock
  BY <1>7 DEF Wired
<1>8. ASSUME ReceiverChannelCloses \/ ReceiverTimer
      PROVE  GivesUp \/ sock' = sock
  BY <1>8, LossDoes, WatchdogDoes DEF ReceiverTimer, Attempts
<1>9. ASSUME offer \/ answer \/ SenderOpens \/ SenderIceReturns
                 \/ SenderIceDisconnects \/ SenderChannelCloses \/ SenderTimer
                 \/ ReceiverOpens \/ ReceiverIceReturns \/ ReceiverIceDisconnects
                 \/ PathReturns \/ UNCHANGED vars
      PROVE  sock' = sock
  BY <1>9, LinkStepsSame, PcStepsSame DEF offer, answer, PathReturns, vars
<1> QED
  BY <1>1, <1>2, <1>4, <1>5, <1>6, <1>7, <1>8, <1>9, EnvironmentSpends
  DEF Next, System, Progress, Pages

\* While the receiver is away nothing is on its way to the sender that would
\* have its link take up an older connection than the receiver's.
AnyAnswer == {m \in ToSender : m.t = "answer"}

Changes == {m \in ToSender : m.t \in {"join", "leave", "restart", "welcome"}}

Down(l, c, s) ==
    /\ l # NoLink => /\ l.remote = 0 \/ Applied(l, c)
                     /\ l.need => l.remote = 0 /\ l.sig = "stable"
    /\ None(s, AnyAnswer) \/ (Same(l, c) /\ None(s, AnyAnswer \ AnswersOf(c.id)))
    /\ NotAfter(s, Changes, AnyAnswer)

\* One attempt more, when nothing is under way any more: the sender is asked,
\* or one of the pages is away.
LEMMA Attempted ==
    ASSUME TypeInv, ConnInv, WelcomeInv, path, TimersRun, NEW d, Attempts(d), link' = link,
           Quiet(d), Shut(link, d), Applied(link, pc) => Applied(link, d),
           Wired("sender") \/ Wired("receiver"),
           BothWired \/ \/ rcv.restarts < Most
                        \/ rcv.restarts <= Most /\ d # NoPc /\ d.ice = "failed",
           Wired("receiver") \/ Down(link, pc, to["sender"])
    PROVE  Chain' \/ SenderAway' \/ ReceiverAway'
<1>1. /\ to["sender"] = <<>> /\ to["receiver"] = <<>>
      /\ link # NoLink /\ link.need => link.sig # "stable"
  BY QuietMeans
<1>2. /\ rcv'.restarts = rcv.restarts + 1 /\ pc' = d /\ sock' = sock
      /\ to'["receiver"] = <<>>
      /\ to'["sender"] = IF sock["receiver"] = "up" /\ Wired("sender")
                         THEN to["sender"] \o <<Restart>> ELSE <<>>
  BY <1>1 DEF Attempts
<1>3. Early(<<>>, d) /\ None(<<>>, Signals)
  BY EmptyHas DEF Early
<1>4. ASSUME ~BothWired PROVE Spared'
  <2>1. rcv.restarts \in Nat /\ Most \in Nat
    BY NegotiationAssumption DEF TypeInv, RcvOK, Most
  <2>2. \/ rcv'.restarts <= Most
        \/ rcv'.restarts <= Most + 1 /\ d # NoPc /\ d.ice = "failed"
    BY <2>1, <1>2, <1>4
  <2> QED  BY <2>2, <1>2 DEF Spared, Most
<1>5. CASE BothWired
  <2>1. sock["receiver"] = "up"
    BY <1>1, <1>5, UpToDate DEF BothWired, Pages
  <2>2. to'["sender"] = <<>> \o <<Restart>>
    BY <2>1, <1>1, <1>2, <1>5 DEF BothWired
  <2>3. \E p \in Seq({Leave}), t \in Triggers : <<>> \o <<Restart>> = p \o <<t>>
    <3>1. <<>> \in Seq({Leave}) /\ Restart \in Triggers
      BY DEF Triggers
    <3> QED  BY <3>1
  <2>4. Asked(link, d, <<>> \o <<Restart>>, <<>>, sock["sender"])
    BY <2>3, <1>1, <1>3 DEF Asked
  <2>5. BothWired'
    BY <1>2, <1>5 DEF BothWired, Wired
  <2> QED  BY <2>2, <2>4, <2>5, <1>2 DEF Chain
<1>6. CASE ~Wired("sender")
  <2>1. ~Wired("sender")' /\ Wired("receiver")' /\ Spared'
    BY <1>2, <1>4, <1>6 DEF BothWired, Wired
  <2>2. link = NoLink \/ ~link.open
    BY DEF Shut
  <2> QED  BY <2>1, <2>2, <1>2, <1>3 DEF SenderAway
<1>7. CASE ~Wired("receiver")
  <2>1. Wired("sender")' /\ ~Wired("receiver")' /\ Spared'
    BY <1>2, <1>4, <1>7 DEF BothWired, Wired
  <2>2. to'["sender"] = <<>>
    BY <1>2, <1>7 DEF Wired
  <2>3. link # NoLink => ~link.need /\ (link.remote = 0 \/ Applied(link, d))
    BY <1>1, <1>7 DEF Down
  <2> QED  BY <2>1, <2>2, <2>3, <1>2 DEF ReceiverAway
<1> QED  BY <1>5, <1>6, <1>7 DEF BothWired

\* Where the receiver is not connected, its link is shut.
LEMMA QuietShut ==
    ASSUME TypeInv, ConnInv, path, TimersRun, ~Healthy
    PROVE  /\ Shut(link, pc) /\ Quiet(pc)
           /\ pc # NoPc => pc.dc # "open"
<1>1. /\ pc # NoPc => ~pc.setting
      /\ pc # NoPc => pc.dc # "open"
      /\ ~(Applied(link, pc) /\ Known(link, pc))
      /\ link # NoLink /\ link.open => Applied(link, pc)
  BY QuietMeans
<1>2. link # NoLink => ~link.open
  BY <1>1 DEF ConnInv, Conn, LinkShape, Applied
<1> QED  BY <1>1, <1>2 DEF Shut, Quiet

\* The receiver's timers use up no more than there is.
LEMMA TimersSpare ==
    ASSUME TypeInv, ConnInv, WelcomeInv, Enough, path, ReceiverTimer,
           Wired("sender") \/ Wired("receiver"),
           Wired("receiver") \/ Down(link, pc, to["sender"]),
           Spared, BothWired => rcv.restarts <= 2
    PROVE  /\ link' = link /\ rcv'.status \in {rcv.status, "reconnecting"}
           /\ \/ Chain' \/ SenderAway' \/ ReceiverAway'
              \/ /\ rcv'.restarts = rcv.restarts /\ Spared'
                 /\ Alike(pc, pc') /\ sock' = sock /\ to' = to
<1>1. /\ rcv.restarts \in Nat /\ Most \in Nat /\ MAX_RESTARTS \in Nat
      /\ Most >= NoticedBy /\ Most >= 2 /\ Most < MAX_RESTARTS
      /\ NoticedBy \in Nat
  BY NegotiationAssumption DEF TypeInv, RcvOK, Most, Enough
<1>2. CASE ReceiverIceFails
  <2>1. /\ UNCHANGED <<path, link, spent>> /\ TimersRun
        /\ pc # NoPc /\ pc.dc # "open" /\ ~pc.setting /\ pc.ice # "failed"
        /\ ~Applied(link, pc)
    BY <1>2, FailsDoes
  <2>2. PICK d \in Pcs :
            /\ d # NoPc /\ d.id = pc.id /\ d.link = pc.link /\ d.remote = pc.remote
            /\ d.setting = pc.setting /\ d.cand = pc.cand
            /\ d.ice = "failed" /\ d.dc = pc.dc
            /\ Loses(d)
    BY <1>2, FailsDoes
  <2>3. rcv.restarts <= Most
    BY <2>1 DEF Spared
  <2>4. ~GivesUp
    BY <2>3, <1>1 DEF GivesUp
  <2>5. Alike(pc, d)
    BY <2>1, <2>2 DEF Alike
  <2>6. ~Healthy
    BY <2>1 DEF Healthy
  <2>7. Shut(link, d) /\ Quiet(d) /\ (Applied(link, pc) => Applied(link, d))
    BY <2>1, <2>5, <2>6, QuietShut, AlikeIs
  <2>8. CASE Attempts(d)
    <3>1. Chain' \/ SenderAway' \/ ReceiverAway'
      BY <2>1, <2>2, <2>3, <2>7, <2>8, Attempted
    <3>2. rcv'.status \in {rcv.status, "reconnecting"}
      BY <2>8 DEF Attempts
    <3> QED  BY <3>1, <3>2, <2>1
  <2>9. CASE /\ rcv'.restarts = rcv.restarts /\ rcv'.status = "reconnecting"
             /\ pc' = d /\ sock' = sock /\ to' = to
    <3>1. Spared'
      BY <2>3, <2>9 DEF Spared, Most
    <3> QED  BY <3>1, <2>1, <2>5, <2>9
  <2> QED  BY <2>2, <2>4, <2>8, <2>9 DEF Loses
<1>3. CASE Watchdog
  <2>1. /\ TimersRun /\ link' = link
        /\ rcv.restarts >= NoticedBy => \A p \in Pages : Wired(p)
    BY <1>3, WatchdogDoes
  <2>2. CASE /\ Healthy /\ rcv'.restarts = rcv.restarts /\ rcv'.status = rcv.status
             /\ pc' = pc /\ sock' = sock /\ to' = to
    <3>1. Spared' /\ Alike(pc, pc)
      BY <2>2 DEF Spared, Most, Alike, Healthy
    <3> QED  BY <3>1, <2>1, <2>2
  <2>3. CASE ~Healthy /\ (GivesUp \/ Attempts(pc))
    <3>1. BothWired \/ rcv.restarts < Most
      BY <2>1, <1>1 DEF BothWired, Pages
    <3>2. ~GivesUp
      BY <3>1, <1>1 DEF GivesUp
    <3>3. Shut(link, pc) /\ Quiet(pc)
      BY <2>1, <2>3, QuietShut
    <3>4. Chain' \/ SenderAway' \/ ReceiverAway'
      BY <2>1, <2>3, <3>1, <3>2, <3>3, Attempted
    <3>5. rcv'.status \in {rcv.status, "reconnecting"}
      BY <2>3, <3>2 DEF Attempts
    <3> QED  BY <3>4, <3>5, <2>1
  <2> QED  BY <2>2, <2>3, <1>3, WatchdogDoes
<1> QED  BY <1>2, <1>3 DEF ReceiverTimer

\* A channel that closes costs one attempt; what was spent before it opened
\* has been forgotten.
LEMMA ClosesSpare ==
    ASSUME TypeInv, ConnInv, Enough, path, Low, ReceiverChannelCloses
    PROVE  Low' /\ ~GivesUp /\ rcv'.status \in {rcv.status, "reconnecting"}
<1>1. pc # NoPc /\ pc.dc = "open"
  BY ClosesDoes
<1>2. PICK d : d # NoPc /\ d.dc = "closed" /\ Loses(d)
  BY ClosesDoes
<1>3. rcv.restarts \in Nat /\ rcv.restarts <= 1 /\ MAX_RESTARTS \in Nat /\ MAX_RESTARTS >= 3
  BY <1>1, NegotiationAssumption DEF TypeInv, RcvOK, Low, Enough
<1>4. ~GivesUp
  BY <1>3 DEF GivesUp
<1>5. /\ pc' = d /\ rcv'.status \in {rcv.status, "reconnecting"}
      /\ rcv'.restarts = rcv.restarts \/ rcv'.restarts = rcv.restarts + 1
  BY <1>2, <1>4 DEF Loses, Attempts
<1>6. Low'
  BY <1>2, <1>3, <1>5 DEF Low
<1> QED  BY <1>4, <1>5, <1>6

-----------------------------------------------------------------------------
(* Once interrupted: every step keeps to what the receiver can afford.     *)

Afforded == Low \/ Chain \/ SenderAway \/ MasterBack \/ ReceiverAway

\* One page at least is there to hear of the other, once the receiver's page
\* has been touched at all.
WiredOK == Wired("sender") \/ Wired("receiver") \/ Untouched

DownOK == Wired("receiver") \/ Untouched \/ Down(link, pc, to["sender"])

GoesOn == rcv'.status \in {rcv.status, "waiting", "reconnecting", "connected"}

LEMMA TouchedTimers ==
    ASSUME ReceiverTimer
    PROVE  ~Untouched /\ TimersRun
  BY TimersNeedQuiet DEF ReceiverTimer, ReceiverIceFails, Watchdog, Untouched

LEMMA FewIsLow ==
    ASSUME rcv'.restarts \in {0, 1}
    PROVE  Low'
  BY DEF Low

LEMMA LowKeeps ==
    ASSUME TypeInv, ConnInv, WelcomeInv, Enough, path, WiredOK, DownOK, Low,
           [Next]_vars, spent' = spent
    PROVE  Afforded' /\ GoesOn
<1>1. rcv.restarts \in Nat /\ Most \in Nat /\ Most >= 2
  BY NegotiationAssumption DEF TypeInv, RcvOK, Most
<1>2. CASE ReceiverChannelCloses
  BY <1>2, ClosesSpare DEF Afforded, GoesOn
<1>3. CASE ReceiverTimer
  <2>1. Spared /\ rcv.restarts <= 2
    BY <1>1 DEF Low, Spared
  <2>2. (Wired("sender") \/ Wired("receiver"))
          /\ (Wired("receiver") \/ Down(link, pc, to["sender"]))
    BY <1>3, TouchedTimers DEF WiredOK, DownOK
  <2>3. /\ rcv'.status \in {rcv.status, "reconnecting"}
        /\ \/ Chain' \/ SenderAway' \/ ReceiverAway'
           \/ rcv'.restarts = rcv.restarts /\ Alike(pc, pc')
    BY <2>1, <2>2, <1>3, TimersSpare
  <2>4. rcv'.restarts = rcv.restarts /\ Alike(pc, pc') => Low'
    BY DEF Low, Alike
  <2> QED  BY <2>3, <2>4 DEF Afforded, GoesOn
<1>4. CASE /\ rcv'.status \in {rcv.status, "waiting", "reconnecting", "connected"}
           /\ \/ rcv'.restarts \in {0, 1}
              \/ /\ rcv'.restarts = rcv.restarts
                 /\ pc' # NoPc /\ pc'.dc = "open" => pc # NoPc /\ pc.dc = "open"
  <2>1. CASE rcv'.restarts \in {0, 1}
    BY <2>1, <1>4, FewIsLow DEF Afforded, GoesOn
  <2>2. CASE /\ rcv'.restarts = rcv.restarts
             /\ pc' # NoPc /\ pc'.dc = "open" => pc # NoPc /\ pc.dc = "open"
    <3>1. Low'
      BY <2>2 DEF Low
    <3> QED  BY <3>1, <1>4 DEF Afforded, GoesOn
  <2> QED  BY <2>1, <2>2, <1>4
<1> QED  BY <1>2, <1>3, <1>4, CalmSteps

\* The receiver's connection after its ICE comes or goes.
LEMMA IceDoes ==
    ASSUME TypeInv, ReceiverIceReturns \/ ReceiverIceDisconnects
    PROVE  /\ Alike(pc, pc') /\ pc.ice # "failed" /\ pc'.ice # "failed"
           /\ rcv'.restarts = rcv.restarts
           /\ UNCHANGED <<sock, to, path, link, spent>>
<1>1. /\ pc # NoPc /\ pc \in Pcs /\ pc.ice # "failed"
      /\ UNCHANGED <<sock, to, path, link, spent>>
      /\ rcv'.restarts = rcv.restarts
  BY PcIs DEF ReceiverIceReturns, ReceiverMayReturn, Paired,
     ReceiverIceDisconnects, ReceiverMayLose, TypeInv, RcvOK
<1>2. PICK d : d = pc'
  OBVIOUS
<1>3. d = [pc EXCEPT !.ice = "connected"] \/ d = [pc EXCEPT !.ice = "disconnected"]
  BY <1>2 DEF ReceiverIceReturns, ReceiverIceDisconnects
<1>4. /\ d.id = pc.id /\ d.link = pc.link /\ d.setting = pc.setting
      /\ d.remote = pc.remote /\ d.cand = pc.cand /\ d.dc = pc.dc /\ d.ice # "failed"
  BY <1>1, <1>3 DEF Pcs
<1>5. d # NoPc
  BY <1>1, <1>4 DEF NoPc, Pcs, Ids
<1> QED  BY <1>1, <1>2, <1>4, <1>5 DEF Alike

\* The receiver reads on, up to the news that the sender is back.
LEMMA MasterBackReads ==
    ASSUME TypeInv, ConnInv, Enough, MasterBack, OnReceiverMessage
    PROVE  MasterBack' \/ rcv'.restarts = 1
<1>1. PICK r \in Seq(ToReceiver) : r = to["receiver"] /\ r # <<>>
  BY QueuesTyped, ReceiverReads
<1>2. PICK m \in ToReceiver, q \in Seq(ToReceiver) :
          /\ m = Head(r) /\ q = Tail(r)
          /\ OnReceiverWelcome(m, q) \/ OnMaster(m, q) \/ OnOffer(m, q) \/ OnSenderIce(m, q)
  BY <1>1, ReceiverReads
<1>3. MAX_RESTARTS > 0
  BY NegotiationAssumption DEF Enough
<1>4. pc # NoPc /\ pc.dc # "open" /\ pc \in Pcs /\ ~Healthy
  BY PcIs DEF MasterBack, Healthy
<1>5. CASE m = MasterMsg(TRUE)
  <2>1. m.t = "master" /\ m.online
    BY <1>5 DEF MasterMsg
  <2>2. OnMaster(m, q)
    BY <2>1, <1>2 DEF OnReceiverWelcome, OnOffer, OnSenderIce
  <2> QED  BY <2>1, <2>2, <1>3, <1>4, MasterReads
<1>6. CASE m # MasterMsg(TRUE)
  <2>1. ~None(q, {MasterMsg(TRUE)})
    <3>1. ~None(r, {MasterMsg(TRUE)}) /\ Head(r) \notin {MasterMsg(TRUE)}
      BY <1>1, <1>2, <1>6 DEF MasterBack
    <3>2. ~None(Tail(r), {MasterMsg(TRUE)})
      BY <3>1, <1>1, TailHas
    <3> QED  BY <3>2, <1>2
  <2>2. CASE OnReceiverWelcome(m, q)
    BY <2>1, <2>2, <1>4, WelcomeReads DEF MasterBack
  <2>3. CASE OnMaster(m, q)
    BY <2>1, <2>3, <1>3, <1>4, MasterReads DEF MasterBack
  <2>4. CASE OnOffer(m, q)
    <3>1. to'["receiver"] = q /\ m.t = "offer"
      BY <2>4, OfferReads
    <3>2. CASE pc' = NewPc(Fresh(PcsNamed), m.link)
      <4>1. pc' # NoPc /\ pc'.dc = "none"
        BY <3>1, <3>2, <1>1, <1>2, NewPcConn
      <4> QED  BY <4>1, <3>1, <2>1 DEF MasterBack
    <3>3. CASE pc' = [pc EXCEPT !.setting = TRUE]
      <4>1. pc'.id = pc.id /\ pc'.dc = pc.dc
        BY <3>3, <1>4 DEF Pcs
      <4>2. pc' # NoPc
        BY <4>1, <1>4 DEF NoPc, Pcs, Ids
      <4> QED  BY <4>1, <4>2, <3>1, <2>1, <1>4 DEF MasterBack
    <3> QED  BY <3>2, <3>3, <2>4, OfferReads
  <2>5. CASE OnSenderIce(m, q)
    <3>1. to'["receiver"] = q
      BY <2>5, IceReads
    <3>2. pc' = pc \/ \E c : pc' = [pc EXCEPT !.cand = c]
      BY <2>5, IceReads
    <3>3. pc'.id = pc.id /\ pc'.dc = pc.dc
      BY <3>2, <1>4 DEF Pcs
    <3>4. pc' # NoPc
      BY <3>3, <1>4 DEF NoPc, Pcs, Ids
    <3> QED  BY <3>1, <3>3, <3>4, <2>1, <1>4 DEF MasterBack
  <2> QED  BY <1>2, <2>2, <2>3, <2>4, <2>5
<1> QED  BY <1>5, <1>6

LEMMA MasterBackKeeps ==
    ASSUME TypeInv, ConnInv, WelcomeInv, Enough, path, MasterBack,
           [Next]_vars, spent' = spent
    PROVE  Afforded' /\ GoesOn
<1>1. PICK r \in Seq(ToReceiver) : r = to["receiver"]
  BY QueuesTyped
<1>2. pc # NoPc /\ pc.dc # "open" /\ pc \in Pcs /\ ~None(r, {MasterMsg(TRUE)})
  BY <1>1, PcIs DEF MasterBack
<1>3. r # <<>>
  BY <1>2, EmptyHas
<1>4. Wired("receiver") /\ ~TimersRun
  BY <1>1, <1>3, UnwiredQueue DEF TimersRun, Pages
<1>5. ~ReceiverChannelCloses /\ ~ReceiverTimer /\ ~SenderTimer /\ ~PathReturns
  BY <1>2, <1>4, TimersNeedQuiet DEF ReceiverChannelCloses, ReceiverHearsClose, PathReturns
<1>6. GoesOn
  BY <1>5, CalmSteps DEF GoesOn
<1>7. ASSUME pc' # NoPc, pc'.dc = pc.dc,
             to'["receiver"] = r
                 \/ \E ms \in Seq(ToReceiver) : to'["receiver"] = r \o ms
      PROVE  MasterBack'
  <2>1. ~None(to'["receiver"], {MasterMsg(TRUE)})
    BY <1>2, <1>7, AppendHas
  <2> QED  BY <2>1, <1>2, <1>7 DEF MasterBack
<1>8. CASE OnReceiverMessage
  BY <1>6, <1>8, MasterBackReads, FewIsLow DEF Afforded
<1>9. CASE ReceiverOpens
  BY <1>6, <1>9, ReceiverOpensDoes, FewIsLow DEF Afforded
<1>10. CASE OnSenderMessage \/ SenderOpens \/ SenderIceReturns
                \/ SenderIceDisconnects \/ SenderChannelCloses
  <2>1. pc' = pc /\ to'["receiver"] = r
    BY <1>1, <1>10, LinkStepsSame, SenderReads
  <2> QED  BY <2>1, <1>2, <1>6, <1>7 DEF Afforded
<1>11. CASE offer
  <2>1. link.id \in Ids
    BY <1>11, OfferDoes, PcIs DEF Links
  <2>2. <<Offer(link.id), IceOfLink(link.id)>> \in Seq(ToReceiver)
    BY <2>1, MessagesTyped, TwoMessages
  <2>3. pc' = pc /\ (to'["receiver"] = r
                         \/ to'["receiver"] = r \o <<Offer(link.id), IceOfLink(link.id)>>)
    BY <1>1, <1>11, OfferDoes
  <2> QED  BY <2>2, <2>3, <1>2, <1>6, <1>7 DEF Afforded
<1>12. CASE answer
  <2>1. PICK c : c = IF pc.cand = "queued" THEN "added" ELSE pc.cand
    OBVIOUS
  <2>2. /\ pc' = [pc EXCEPT !.setting = FALSE, !.remote = TRUE, !.cand = c]
        /\ to'["receiver"] = r
    BY <2>1, <1>1, <1>12, AnswerDoes
  <2>3. pc'.id = pc.id /\ pc'.dc = pc.dc
    BY <2>2, <1>2 DEF Pcs
  <2>4. pc' # NoPc
    BY <2>3, <1>2 DEF NoPc, Pcs, Ids
  <2> QED  BY <2>2, <2>3, <2>4, <1>6, <1>7 DEF Afforded
<1>13. CASE ReceiverIceReturns \/ ReceiverIceDisconnects
  <2>1. Alike(pc, pc') /\ to' = to
    BY <1>13, IceDoes
  <2>2. pc' # NoPc /\ pc'.dc = pc.dc /\ to'["receiver"] = r
    BY <2>1, <1>1 DEF Alike
  <2> QED  BY <2>2, <1>6, <1>7 DEF Afforded
<1>14. CASE \E p \in Pages : PageNotices(p) \/ RoomNotices(p) \/ Reconnect(p)
  <2>1. ~PageNotices("receiver") /\ ~RoomNotices("receiver") /\ ~Reconnect("receiver")
    BY <1>4 DEF PageNotices, RoomNotices, Reconnect, Wired
  <2>2. /\ <<MasterMsg(TRUE)>> \in Seq(ToReceiver)
        /\ <<MasterMsg(FALSE)>> \in Seq(ToReceiver)
    BY MessagesTyped, OneMessage
  <2>3. CASE PageNotices("sender")
    <3>1. pc' = pc /\ to'["receiver"] = r
      BY <2>3, <1>1, PageNoticesDoes DEF Pages
    <3> QED  BY <3>1, <1>2, <1>6, <1>7 DEF Afforded
  <2>4. CASE RoomNotices("sender")
    <3>1. pc' = pc /\ to'["receiver"] = r \o <<MasterMsg(FALSE)>>
      BY <2>4, <1>1, <1>4, RoomNoticesDoes DEF Pages
    <3> QED  BY <3>1, <2>2, <1>2, <1>6, <1>7 DEF Afforded
  <2>5. CASE Reconnect("sender")
    <3>1. pc' = pc /\ to'["receiver"] = r \o <<MasterMsg(TRUE)>>
      BY <2>5, <1>1, <1>4, SenderReconnects
    <3> QED  BY <3>1, <2>2, <1>2, <1>6, <1>7 DEF Afforded
  <2> QED  BY <2>1, <2>3, <2>4, <2>5, <1>14 DEF Pages
<1>15. CASE UNCHANGED vars
  <2>1. pc' = pc /\ to'["receiver"] = r
    BY <1>1, <1>15 DEF vars
  <2> QED  BY <2>1, <1>2, <1>6, <1>7 DEF Afforded
<1> QED
  BY <1>5, <1>8, <1>9, <1>10, <1>11, <1>12, <1>13, <1>14, <1>15, EnvironmentSpends
  DEF Next, System, Progress

\* The receiver reads on while the sender is away.
LEMMA SenderAwayReads ==
    ASSUME TypeInv, WelcomeInv, Enough, SenderAway, OnReceiverMessage
    PROVE  SenderAway' \/ rcv'.restarts = 1
<1>1. PICK r \in Seq(ToReceiver) : r = to["receiver"] /\ r # <<>>
  BY QueuesTyped, ReceiverReads
<1>2. PICK m \in ToReceiver, q \in Seq(ToReceiver) :
          /\ m = Head(r) /\ q = Tail(r)
          /\ OnReceiverWelcome(m, q) \/ OnMaster(m, q) \/ OnOffer(m, q) \/ OnSenderIce(m, q)
  BY <1>1, ReceiverReads
<1>3. MAX_RESTARTS > 0 /\ link' = link
  BY NegotiationAssumption, ReceiverReads DEF Enough
<1>4. /\ ~Wired("sender") /\ Wired("receiver") /\ Spared /\ Quiet(pc)
      /\ None(r, Signals) /\ (pc = NoPc => link = NoLink \/ ~link.open)
  BY <1>1 DEF SenderAway
<1>5. None(q, Signals) /\ m \notin Signals
  BY <1>1, <1>2, <1>4, TailHas
<1>6. OnReceiverWelcome(m, q) \/ OnMaster(m, q)
  BY <1>2, <1>5 DEF Signals, OnOffer, OnSenderIce
<1>7. \/ rcv'.restarts = 1
      \/ /\ rcv'.restarts = rcv.restarts /\ pc' = pc /\ to'["receiver"] = q
         /\ sock'["sender"] = sock["sender"]
         /\ sock'["receiver"] \in {sock["receiver"], "up"}
  BY <1>3, <1>6, WelcomeReads, MasterReads
<1>8. ASSUME /\ rcv'.restarts = rcv.restarts /\ pc' = pc /\ to'["receiver"] = q
             /\ sock'["sender"] = sock["sender"]
             /\ sock'["receiver"] \in {sock["receiver"], "up"}
      PROVE  SenderAway'
  <2>1. ~Wired("sender")' /\ Wired("receiver")'
    BY <1>4, <1>8 DEF Wired
  <2>2. Spared'
    BY <1>4, <1>8 DEF Spared, Most
  <2> QED  BY <2>1, <2>2, <1>3, <1>4, <1>5, <1>8 DEF SenderAway
<1> QED  BY <1>7, <1>8

\* The sender's page comes back.
LEMMA SenderComesBack ==
    ASSUME TypeInv, SenderAway, Reconnect("sender")
    PROVE  MasterBack' \/ Chain'
<1>1. PICK r \in Seq(ToReceiver) : r = to["receiver"]
  BY QueuesTyped
<1>2. /\ ~Wired("sender") /\ Wired("receiver") /\ Quiet(pc)
      /\ None(r, Signals) /\ (pc = NoPc => link = NoLink \/ ~link.open)
  BY <1>1 DEF SenderAway
<1>3. Present("receiver") = TRUE
  BY <1>2 DEF Present, Wired
<1>4. /\ sock'["sender"] = "joining" /\ sock'["receiver"] = sock["receiver"]
      /\ to'["sender"] = <<WelcomeMaster(TRUE)>>
      /\ to'["receiver"] = r \o <<MasterMsg(TRUE)>>
      /\ UNCHANGED <<path, link, pc, rcv, spent>>
  BY <1>1, <1>2, <1>3, SenderReconnects
<1>5. /\ <<MasterMsg(TRUE)>> \in Seq(ToReceiver)
      /\ None(<<MasterMsg(TRUE)>>, Signals)
      /\ ~None(<<MasterMsg(TRUE)>>, {MasterMsg(TRUE)})
  <2>1. MasterMsg(TRUE) \notin Signals
    BY DEF MasterMsg, Signals
  <2> QED  BY <2>1, MessagesTyped, OneMessage, OneHas
<1>6. /\ None(r \o <<MasterMsg(TRUE)>>, Signals)
      /\ ~None(r \o <<MasterMsg(TRUE)>>, {MasterMsg(TRUE)})
  BY <1>2, <1>5, AppendHas
<1>7. CASE pc # NoPc
  BY <1>2, <1>4, <1>6, <1>7 DEF MasterBack, Quiet
<1>8. CASE pc = NoPc
  <2>1. <<WelcomeMaster(TRUE)>> = <<>> \o <<WelcomeMaster(TRUE)>>
    OBVIOUS
  <2>2. <<>> \in Seq({Leave}) /\ WelcomeMaster(TRUE) \in Triggers
    BY DEF Triggers
  <2>3. \E p \in Seq({Leave}), t \in Triggers : <<WelcomeMaster(TRUE)>> = p \o <<t>>
    BY <2>1, <2>2
  <2>4. Shut(link, pc)
    BY <1>2, <1>8 DEF Shut, Applied, Same
  <2>5. Asked(link, pc, <<WelcomeMaster(TRUE)>>, r \o <<MasterMsg(TRUE)>>, "joining")
    BY <2>3, <2>4, <1>2, <1>6, <1>8 DEF Asked, Early
  <2>6. BothWired'
    BY <1>2, <1>4 DEF BothWired, Wired
  <2> QED  BY <2>5, <2>6, <1>4 DEF Chain
<1> QED  BY <1>7, <1>8

LEMMA SenderAwayKeeps ==
    ASSUME TypeInv, ConnInv, WelcomeInv, Enough, path, SenderAway,
           [Next]_vars, spent' = spent
    PROVE  Afforded' /\ GoesOn
<1>1. PICK r \in Seq(ToReceiver) : r = to["receiver"]
  BY QueuesTyped
<1>2. /\ ~Wired("sender") /\ Wired("receiver") /\ Spared /\ Quiet(pc)
      /\ None(r, Signals) /\ (pc = NoPc => link = NoLink \/ ~link.open)
  BY <1>1 DEF SenderAway
<1>3. to["sender"] = <<>>
  BY <1>2, UnwiredQueue DEF Pages
<1>4. ~ReceiverChannelCloses /\ ~OnSenderMessage /\ ~answer /\ ~PathReturns
  BY <1>2, <1>3, SenderReads, AnswerDoes
  DEF Quiet, ReceiverChannelCloses, ReceiverHearsClose, PathReturns
\* The receiver's side is as it was, and the link is not opened without it.
<1>5. ASSUME rcv'.restarts = rcv.restarts, pc' = pc, None(to'["receiver"], Signals),
             ~Wired("sender")', Wired("receiver")',
             pc = NoPc => link' = NoLink \/ ~link'.open
      PROVE  SenderAway'
  <2>1. Spared'
    BY <1>2, <1>5 DEF Spared, Most
  <2> QED  BY <2>1, <1>2, <1>5 DEF SenderAway
<1>6. ASSUME sock' = sock PROVE ~Wired("sender")' /\ Wired("receiver")'
  BY <1>2, <1>6 DEF Wired
<1>8. CASE ReceiverTimer
  <2>1. Wired("receiver") /\ ~BothWired
    BY <1>2 DEF BothWired
  <2>2. /\ link' = link /\ rcv'.status \in {rcv.status, "reconnecting"}
        /\ \/ Chain' \/ SenderAway' \/ ReceiverAway'
           \/ /\ rcv'.restarts = rcv.restarts /\ Spared'
              /\ Alike(pc, pc') /\ sock' = sock /\ to' = to
    BY <2>1, <1>2, <1>8, TimersSpare
  <2>3. ASSUME rcv'.restarts = rcv.restarts, Spared', Alike(pc, pc'), sock' = sock, to' = to
        PROVE  SenderAway'
    <3>1. Quiet(pc)'
      BY <2>3, <1>2, AlikeIs
    <3>2. pc' # NoPc
      BY <2>3 DEF Alike
    <3>3. to'["receiver"] = r
      BY <2>3, <1>1
    <3> QED  BY <2>3, <3>1, <3>2, <3>3, <1>2, <1>6 DEF SenderAway
  <2> QED  BY <2>2, <2>3 DEF Afforded, GoesOn
<1>9. CASE OnReceiverMessage
  <2>1. GoesOn
    BY <1>9, CalmReads DEF GoesOn
  <2> QED  BY <2>1, <1>9, SenderAwayReads, FewIsLow DEF Afforded
<1>10. CASE offer
  <2>1. /\ link \in Links /\ UNCHANGED <<sock, pc, rcv>> /\ to'["receiver"] = r
        /\ link' = [link EXCEPT !.need = FALSE, !.sig = "have-local-offer"]
        /\ link # NoLink
    BY <1>1, <1>2, <1>10, OfferDoes, PcIs DEF Wired
  <2>2. link'.open = link.open
    BY <2>1 DEF Links
  <2>3. GoesOn
    BY <2>1 DEF GoesOn
  <2> QED  BY <2>1, <2>2, <2>3, <1>2, <1>5, <1>6 DEF Afforded
<1>11. CASE SenderOpens \/ SenderIceReturns
  <2>1. pc # NoPc
    BY <1>11 DEF SenderOpens, SenderMayOpen, Reachable, SenderIceReturns,
       SenderMayReturn, Paired
  <2>2. UNCHANGED <<sock, to, pc, rcv>>
    BY <1>11, LinkStepsSame
  <2> QED  BY <2>1, <2>2, <1>1, <1>2, <1>5, <1>6 DEF Afforded, GoesOn
<1>12. CASE SenderIceDisconnects
  <2>1. UNCHANGED <<sock, to, pc, rcv>>
    BY <1>12, LinkStepsSame
  <2>2. link \in Links /\ link' = [link EXCEPT !.ice = "disconnected", !.timer = "disconnect"]
    BY <1>12, PcIs DEF SenderIceDisconnects, SenderMayLose, SenderLinkStep
  <2>3. link # NoLink
    BY <1>12 DEF SenderIceDisconnects, SenderMayLose
  <2>4. link'.open = link.open
    BY <2>2 DEF Links
  <2> QED  BY <2>1, <2>3, <2>4, <1>1, <1>2, <1>5, <1>6 DEF Afforded, GoesOn
<1>13. CASE SenderChannelCloses \/ ConnectTimeout
  <2>1. UNCHANGED <<sock, to, pc, rcv>> /\ link' = NoLink
    BY <1>13 DEF SenderChannelCloses, ConnectTimeout, close, SenderLinkStep
  <2> QED  BY <2>1, <1>1, <1>2, <1>5, <1>6 DEF Afforded, GoesOn
<1>14. CASE SenderIceFails
  <2>1. UNCHANGED <<sock, to, pc, rcv>>
    BY <1>14, LinkStepsSame DEF SenderTimer
  <2>2. link # NoLink /\ (link' = NoLink \/ link'.open = link.open)
    BY <1>14, SenderIceFailsDoes
  <2> QED  BY <2>1, <2>2, <1>1, <1>2, <1>5, <1>6 DEF Afforded, GoesOn
<1>15. CASE ReceiverOpens
  BY <1>15, ReceiverOpensDoes, FewIsLow DEF Afforded, GoesOn
<1>16. CASE ReceiverIceReturns \/ ReceiverIceDisconnects
  <2>1. /\ Alike(pc, pc') /\ pc.ice # "failed" /\ rcv'.restarts = rcv.restarts
        /\ UNCHANGED <<sock, to, link>>
    BY <1>16, IceDoes
  <2>2. Quiet(pc)' /\ pc' # NoPc
    BY <2>1, <1>2, AlikeIs DEF Alike
  <2>3. Spared'
    BY <2>1, <1>2 DEF Spared, Most
  <2>4. SenderAway'
    BY <2>1, <2>2, <2>3, <1>1, <1>2, <1>6 DEF SenderAway
  <2>5. GoesOn
    BY <1>16 DEF GoesOn, ReceiverIceReturns, ReceiverIceDisconnects, TypeInv, RcvOK
  <2> QED  BY <2>4, <2>5 DEF Afforded
<1>17. CASE \E p \in Pages : PageNotices(p) \/ RoomNotices(p) \/ Reconnect(p)
  <2>1. ~PageNotices("receiver") /\ ~RoomNotices("receiver") /\ ~Reconnect("receiver")
    BY <1>2 DEF PageNotices, RoomNotices, Reconnect, Wired
  <2>2. CASE PageNotices("sender")
    <3>1. /\ sock'["sender"] \in Unwired /\ sock'["receiver"] = sock["receiver"]
          /\ UNCHANGED <<to, link, pc, rcv>>
      BY <2>2, PageNoticesDoes DEF Pages
    <3>2. ~Wired("sender")' /\ Wired("receiver")'
      BY <3>1, <1>2 DEF Wired, Unwired
    <3> QED  BY <3>1, <3>2, <1>1, <1>2, <1>5 DEF Afforded, GoesOn
  <2>3. CASE RoomNotices("sender")
    <3>1. /\ sock'["sender"] \in Unwired /\ sock'["receiver"] = sock["receiver"]
          /\ to'["receiver"] = r \o <<MasterMsg(FALSE)>>
          /\ UNCHANGED <<link, pc, rcv>>
      BY <2>3, <1>1, <1>2, RoomNoticesDoes DEF Pages
    <3>2. ~Wired("sender")' /\ Wired("receiver")'
      BY <3>1, <1>2 DEF Wired, Unwired
    <3>3. /\ <<MasterMsg(FALSE)>> \in Seq(ToReceiver)
          /\ None(<<MasterMsg(FALSE)>>, Signals)
      <4>1. MasterMsg(FALSE) \notin Signals
        BY DEF MasterMsg, Signals
      <4> QED  BY <4>1, MessagesTyped, OneMessage, OneHas
    <3>4. None(to'["receiver"], Signals)
      <4>1. None(r \o <<MasterMsg(FALSE)>>, Signals)
        BY <3>3, <1>2, AppendHas
      <4> QED  BY <4>1, <3>1
    <3> QED  BY <3>1, <3>2, <3>4, <1>2, <1>5 DEF Afforded, GoesOn
  <2>4. CASE Reconnect("sender")
    <3>1. rcv' = rcv
      BY <2>4, SenderReconnects
    <3> QED  BY <3>1, <2>4, SenderComesBack DEF Afforded, GoesOn
  <2> QED  BY <2>1, <2>2, <2>3, <2>4, <1>17 DEF Pages
<1>18. CASE UNCHANGED vars
  <2>1. UNCHANGED <<sock, to, link, pc, rcv>>
    BY <1>18 DEF vars
  <2> QED  BY <2>1, <1>1, <1>2, <1>5, <1>6 DEF Afforded, GoesOn
<1> QED
  BY <1>4, <1>8, <1>9, <1>10, <1>11, <1>12, <1>13, <1>14, <1>15, <1>16, <1>17, <1>18,
     NoDisconnectTimeout, EnvironmentSpends
  DEF Next, System, Progress, SenderTimer

\* The receiver's page comes back.
LEMMA ReceiverComesBack ==
    ASSUME TypeInv, ReceiverAway, Reconnect("receiver")
    PROVE  Chain' /\ rcv' = rcv
<1>1. PICK s : s = to["sender"]
  OBVIOUS
<1>2. /\ Wired("sender") /\ Quiet(pc) /\ s \in Seq({Leave}) /\ Shut(link, pc)
      /\ link # NoLink => ~link.need
  BY <1>1 DEF ReceiverAway
<1>3. PICK w : w = WelcomePeer(Present("sender"))
  OBVIOUS
<1>4. /\ sock'["receiver"] = "joining" /\ sock'["sender"] = sock["sender"]
      /\ to'["receiver"] = <<w>> /\ to'["sender"] = s \o <<Join>>
      /\ UNCHANGED <<path, link, pc, rcv, spent>>
  BY <1>1, <1>2, <1>3, ReceiverReconnects
<1>5. Early(<<w>>, pc)
  <2>1. w \notin Signals /\ w \notin Masters
    BY <1>3 DEF WelcomePeer, Signals, Masters
  <2> QED  BY <2>1, OneHas DEF Early
<1>6. \E p \in Seq({Leave}), t \in Triggers : s \o <<Join>> = p \o <<t>>
  <2>1. Join \in Triggers
    BY DEF Triggers
  <2> QED  BY <2>1, <1>2
<1>7. Asked(link, pc, s \o <<Join>>, <<w>>, sock["sender"])
  BY <1>2, <1>5, <1>6 DEF Asked
<1>8. BothWired'
  BY <1>2, <1>4 DEF BothWired, Wired
<1> QED  BY <1>4, <1>7, <1>8 DEF Chain

LEMMA ReceiverAwayKeeps ==
    ASSUME TypeInv, ConnInv, WelcomeInv, Enough, path, DownOK, ReceiverAway,
           [Next]_vars, spent' = spent
    PROVE  Afforded' /\ GoesOn
<1>1. PICK s : s = to["sender"]
  OBVIOUS
<1>2. /\ Wired("sender") /\ ~Wired("receiver") /\ Spared /\ Quiet(pc)
      /\ s \in Seq({Leave}) /\ Shut(link, pc)
      /\ link # NoLink => ~link.need /\ (link.remote = 0 \/ Applied(link, pc))
  BY <1>1 DEF ReceiverAway
<1>3. to["receiver"] = <<>>
  BY <1>2, UnwiredQueue DEF Pages
\* The pages are where they were, and so are the link, if it is there, and the
\* connection.
<1>4. ASSUME rcv'.restarts = rcv.restarts, pc' = pc, to'["sender"] \in Seq({Leave}),
             Wired("sender")', ~Wired("receiver")', link' = NoLink \/ link' = link
      PROVE  ReceiverAway'
  <2>1. Spared'
    BY <1>2, <1>4 DEF Spared, Most
  <2>2. Shut(NoLink, pc)
    BY DEF Shut
  <2> QED  BY <2>1, <2>2, <1>2, <1>4 DEF ReceiverAway
<1>5. ASSUME sock' = sock PROVE Wired("sender")' /\ ~Wired("receiver")'
  BY <1>2, <1>5 DEF Wired
<1>6. ~ReceiverChannelCloses /\ ~offer /\ ~answer /\ ~PathReturns /\ ~OnReceiverMessage
  BY <1>2, <1>3, OfferDoes, AnswerDoes, ReceiverReads
  DEF Quiet, ReceiverChannelCloses, ReceiverHearsClose, PathReturns
<1>7. CASE ReceiverTimer
  <2>1. Wired("sender") /\ Down(link, pc, to["sender"]) /\ ~BothWired
    BY <1>2, <1>7, TouchedTimers DEF BothWired, DownOK
  <2>2. /\ link' = link /\ rcv'.status \in {rcv.status, "reconnecting"}
        /\ \/ Chain' \/ SenderAway' \/ ReceiverAway'
           \/ /\ rcv'.restarts = rcv.restarts /\ Spared'
              /\ Alike(pc, pc') /\ sock' = sock /\ to' = to
    BY <2>1, <1>2, <1>7, TimersSpare
  <2>3. ASSUME rcv'.restarts = rcv.restarts, Spared', Alike(pc, pc'), sock' = sock, to' = to
        PROVE  ReceiverAway'
    <3>1. PICK d : d = pc'
      OBVIOUS
    <3>2. Quiet(d) /\ Shut(link, d) /\ (Applied(link, pc) <=> Applied(link, d))
      BY <2>3, <3>1, <1>2, AlikeIs
    <3> QED  BY <2>2, <2>3, <3>1, <3>2, <1>1, <1>2, <1>5 DEF ReceiverAway
  <2> QED  BY <2>2, <2>3 DEF Afforded, GoesOn
<1>8. CASE OnSenderMessage
  <2>1. s # <<>> /\ to'["sender"] = Tail(s) /\ UNCHANGED <<path, pc, rcv, spent>>
    BY <1>1, <1>8, SenderReads
  <2>2. Head(s) = Leave /\ Tail(s) \in Seq({Leave})
    BY <2>1, <1>2
  <2>3. link' = NoLink /\ sock' = sock
    BY <2>2, <1>1, <1>2, <1>8, LeaveReads
  <2> QED  BY <2>1, <2>2, <2>3, <1>4, <1>5 DEF Afforded, GoesOn
<1>9. CASE ReceiverIceDisconnects
  <2>1. /\ Alike(pc, pc') /\ pc.ice # "failed" /\ rcv'.restarts = rcv.restarts
        /\ UNCHANGED <<sock, to, link>>
    BY <1>9, IceDoes
  <2>2. PICK d : d = pc'
    OBVIOUS
  <2>3. Quiet(d) /\ Shut(link, d) /\ (Applied(link, pc) <=> Applied(link, d))
    BY <2>1, <2>2, <1>2, AlikeIs
  <2>4. Spared'
    BY <2>1, <1>2 DEF Spared, Most
  <2>5. ReceiverAway'
    BY <2>1, <2>2, <2>3, <2>4, <1>1, <1>2, <1>5 DEF ReceiverAway
  <2>6. GoesOn
    BY <1>9 DEF GoesOn, ReceiverIceDisconnects, TypeInv, RcvOK
  <2> QED  BY <2>5, <2>6 DEF Afforded
<1>10. CASE ConnectTimeout
  <2>1. UNCHANGED <<sock, to, pc, rcv>> /\ link' = NoLink
    BY <1>10 DEF ConnectTimeout, close, SenderLinkStep
  <2> QED  BY <2>1, <1>1, <1>2, <1>4, <1>5 DEF Afforded, GoesOn
<1>11. ~SenderIceFails
  BY <1>2, SenderIceFailsDoes
<1>12. CASE \E p \in Pages : PageNotices(p) \/ RoomNotices(p) \/ Reconnect(p)
  <2>1. ~PageNotices("sender") /\ ~RoomNotices("sender") /\ ~Reconnect("sender")
    BY <1>2 DEF PageNotices, RoomNotices, Reconnect, Wired
  <2>2. CASE PageNotices("receiver")
    <3>1. /\ sock'["receiver"] \in Unwired /\ sock'["sender"] = sock["sender"]
          /\ UNCHANGED <<to, link, pc, rcv>>
      BY <2>2, PageNoticesDoes DEF Pages
    <3>2. Wired("sender")' /\ ~Wired("receiver")'
      BY <3>1, <1>2 DEF Wired, Unwired
    <3> QED  BY <3>1, <3>2, <1>1, <1>2, <1>4 DEF Afforded, GoesOn
  <2>3. CASE RoomNotices("receiver")
    <3>1. /\ sock'["receiver"] \in Unwired /\ sock'["sender"] = sock["sender"]
          /\ to'["sender"] = s \o <<Leave>>
          /\ UNCHANGED <<link, pc, rcv>>
      BY <2>3, <1>1, <1>2, RoomNoticesDoes DEF Pages
    <3>2. Wired("sender")' /\ ~Wired("receiver")'
      BY <3>1, <1>2 DEF Wired, Unwired
    <3>3. s \o <<Leave>> \in Seq({Leave})
      BY <1>2
    <3> QED  BY <3>1, <3>2, <3>3, <1>2, <1>4 DEF Afforded, GoesOn
  <2>4. CASE Reconnect("receiver")
    BY <2>4, ReceiverComesBack DEF Afforded, GoesOn
  <2> QED  BY <2>1, <2>2, <2>3, <2>4, <1>12 DEF Pages
<1>13. CASE UNCHANGED vars
  <2>1. UNCHANGED <<sock, to, link, pc, rcv>>
    BY <1>13 DEF vars
  <2> QED  BY <2>1, <1>1, <1>2, <1>4, <1>5 DEF Afforded, GoesOn
<1>14. ASSUME Progress
       PROVE  OnSenderMessage \/ ReceiverIceDisconnects
  BY <1>2, <1>6, <1>14, ShutSteps DEF Quiet
<1> QED
  BY <1>6, <1>7, <1>8, <1>9, <1>10, <1>11, <1>12, <1>13, <1>14,
     NoDisconnectTimeout, EnvironmentSpends
  DEF Next, System, SenderTimer

-----------------------------------------------------------------------------
(* While the receiver is away.                                             *)

LEMMA DownAlike ==
    ASSUME NEW l, NEW c, NEW s, Down(l, c, s), NEW k, NEW d,
           k # NoLink <=> l # NoLink,
           l # NoLink => /\ k.id = l.id /\ k.remote = l.remote
                         /\ k.need => l.need /\ k.sig = l.sig,
           d # NoPc <=> c # NoPc,
           c # NoPc => d.id = c.id /\ d.link = c.link
    PROVE  Down(k, d, s)
<1>1. (Same(k, d) <=> Same(l, c)) /\ (Applied(k, d) <=> Applied(l, c))
  BY DEF Same, Applied
<1>2. Same(l, c) => d.id = c.id
  BY DEF Same
<1> QED  BY <1>1, <1>2 DEF Down

\* The sender reads on.
LEMMA DownReads ==
    ASSUME TypeInv, ConnInv, Down(link, pc, to["sender"]), OnSenderMessage
    PROVE  Down(link', pc', to'["sender"])
<1>1. PICK s \in Seq(ToSender) : s = to["sender"] /\ s # <<>>
  BY QueuesTyped, SenderReads
<1>2. PICK m \in ToSender : m = Head(s)
  BY <1>1
<1>3. pc' = pc /\ to'["sender"] = Tail(s)
  BY <1>1, SenderReads
<1>4. /\ link # NoLink => /\ link.remote = 0 \/ Applied(link, pc)
                          /\ link.need => link.remote = 0 /\ link.sig = "stable"
      /\ None(s, AnyAnswer) \/ (Same(link, pc) /\ None(s, AnyAnswer \ AnswersOf(pc.id)))
      /\ NotAfter(s, Changes, AnyAnswer)
  BY <1>1 DEF Down
<1>5. /\ NotAfter(Tail(s), Changes, AnyAnswer)
      /\ m \in Changes => None(Tail(s), AnyAnswer)
  BY <1>1, <1>2, <1>4, TailNotAfter
<1>6. \A S : None(s, S) => None(Tail(s), S) /\ m \notin S
  BY <1>1, <1>2, TailHas
<1>7. PICK k : k = link'
  OBVIOUS
<1>8. ASSUME /\ k # NoLink <=> link # NoLink
             /\ link # NoLink => /\ k.id = link.id /\ k.remote = link.remote
                                 /\ k.need = link.need /\ k.sig = link.sig
      PROVE  Down(k, pc, Tail(s))
  <2>1. Down(link, pc, Tail(s))
    BY <1>4, <1>5, <1>6 DEF Down
  <2> QED  BY <2>1, <1>8, DownAlike
<1>9. ASSUME k = link \/ (link # NoLink /\ \E g : k = [link EXCEPT !.gone = g])
      PROVE  Down(k, pc, Tail(s))
  <2>1. CASE k = link
    BY <2>1, <1>8
  <2>2. CASE link # NoLink /\ \E g : k = [link EXCEPT !.gone = g]
    <3>1. link \in Links
      BY <2>2, PcIs
    <3>2. /\ k.id = link.id /\ k.remote = link.remote
          /\ k.need = link.need /\ k.sig = link.sig
      BY <2>2, <3>1 DEF Links
    <3>3. k # NoLink
      BY <3>1, <3>2 DEF NoLink, Links, Ids
    <3> QED  BY <2>2, <3>2, <3>3, <1>8
  <2> QED  BY <2>1, <2>2, <1>9
<1>10. ASSUME addLink, m \in Changes
       PROVE  Down(k, pc, Tail(s))
  <2>1. k # NoLink /\ k.remote = 0 /\ k.sig = "stable"
    BY <1>7, <1>10, NewLinkConn
  <2> QED  BY <2>1, <1>5, <1>10 DEF Down
<1>11. ASSUME peerJoined, m \in Changes
       PROVE  Down(k, pc, Tail(s))
  <2>1. addLink \/ (link # NoLink /\ k = [link EXCEPT !.gone = FALSE])
    BY <1>7, <1>11 DEF peerJoined, SenderConnected
  <2> QED  BY <2>1, <1>9, <1>10, <1>11
<1>12. CASE m.t = "welcome" /\ (IF m.peer THEN peerJoined ELSE UNCHANGED link)
  <2>1. m \in Changes
    BY <1>12 DEF Changes
  <2> QED  BY <2>1, <1>3, <1>7, <1>9, <1>11, <1>12
<1>13. CASE m.t = "join" /\ peerJoined
  <2>1. m \in Changes
    BY <1>13 DEF Changes
  <2> QED  BY <2>1, <1>3, <1>7, <1>11, <1>13
<1>14. CASE /\ m.t = "leave"
            /\ link' = IF SenderConnected THEN [link EXCEPT !.gone = TRUE] ELSE NoLink
  <2>1. m \in Changes
    BY <1>14 DEF Changes
  <2>2. CASE link' = NoLink
    <3>1. Down(NoLink, pc, Tail(s))
      BY <2>1, <1>5 DEF Down
    <3> QED  BY <2>2, <3>1, <1>3
  <2>3. CASE SenderConnected
    <3>1. link # NoLink /\ k = [link EXCEPT !.gone = TRUE]
      BY <2>3, <1>7, <1>14 DEF SenderConnected
    <3> QED  BY <3>1, <1>3, <1>7, <1>9
  <2> QED  BY <2>2, <2>3, <1>14
<1>15. CASE m.t = "restart" /\ addLink
  <2>1. m \in Changes
    BY <1>15 DEF Changes
  <2> QED  BY <2>1, <1>3, <1>7, <1>10, <1>15
<1>16. CASE OnAnswer(m)
  <2>1. m \in AnyAnswer
    BY <1>16 DEF OnAnswer, AnyAnswer
  <2>2. Same(link, pc) /\ m.pc = pc.id /\ None(s, AnyAnswer \ AnswersOf(pc.id))
    <3>1. Same(link, pc) /\ None(s, AnyAnswer \ AnswersOf(pc.id))
      BY <2>1, <1>4, <1>6
    <3>2. m \notin AnyAnswer \ AnswersOf(pc.id)
      BY <3>1, <1>6
    <3> QED  BY <3>1, <3>2, <2>1 DEF AnswersOf
  <2>3. link # NoLink /\ link \in Links
    BY <2>2, PcIs DEF Same
  <2>4. CASE link.sig # "have-local-offer"
    <3>1. k = link
      BY <2>3, <2>4, <1>7, <1>16 DEF OnAnswer
    <3> QED  BY <3>1, <1>3, <1>7, <1>9
  <2>5. CASE link.sig = "have-local-offer"
    <3>1. PICK h, i : h = link.heard \cap {pc.id}
                      /\ i = IF link.ice = "failed" THEN "checking" ELSE link.ice
      OBVIOUS
    <3>2. k = [link EXCEPT !.sig = "stable", !.remote = pc.id, !.heard = h, !.ice = i]
      BY <2>2, <2>3, <2>5, <3>1, <1>7, <1>16 DEF OnAnswer
    <3>3. k.id = link.id /\ k.remote = pc.id /\ k.need = link.need
      BY <2>3, <3>2 DEF Links
    <3>4. k # NoLink /\ ~k.need
      BY <2>3, <2>5, <3>3, <1>4 DEF NoLink, Links, Ids
    <3>5. Same(k, pc) /\ Applied(k, pc)
      BY <2>2, <3>3, <3>4 DEF Same, Applied
    <3>6. Down(k, pc, Tail(s))
      BY <2>2, <3>4, <3>5, <1>5, <1>6 DEF Down
    <3> QED  BY <3>6, <1>3, <1>7
  <2> QED  BY <2>4, <2>5
<1>17. CASE OnReceiverIce(m)
  <2>1. CASE k = link
    BY <2>1, <1>3, <1>7, <1>9
  <2>2. CASE link # NoLink /\ link' = [link EXCEPT !.heard = @ \cup {m.pc}]
    <3>1. PICK h : h = link.heard \cup {m.pc}
      OBVIOUS
    <3>2. k = [link EXCEPT !.heard = h] /\ link \in Links
      BY <2>2, <3>1, <1>7, PcIs
    <3>3. /\ k.id = link.id /\ k.remote = link.remote
          /\ k.need = link.need /\ k.sig = link.sig
      BY <3>2 DEF Links
    <3>4. k # NoLink
      BY <3>2, <3>3 DEF NoLink, Links, Ids
    <3> QED  BY <2>2, <3>3, <3>4, <1>3, <1>7, <1>8
  <2> QED  BY <2>1, <2>2, <1>7, <1>17 DEF OnReceiverIce
<1> QED
  BY <1>1, <1>2, <1>12, <1>13, <1>14, <1>15, <1>16, <1>17, SenderReads

\* The link is as it was, or it is gone; so is what the sender has to read.
LEMMA DownStays ==
    ASSUME TypeInv, ConnInv, WelcomeInv, Enough, path, Wired("sender"), ~Wired("receiver"),
           Down(link, pc, to["sender"]), [Next]_vars, spent' = spent, ~GivesUp
    PROVE  Wired("receiver")' \/ Down(link', pc', to'["sender"])
<1>1. PICK s \in Seq(ToSender) : s = to["sender"]
  BY QueuesTyped
<1>2. to["receiver"] = <<>> /\ sock["receiver"] # "up"
  BY UnwiredQueue DEF Pages, Wired
<1>3. Down(link, pc, s)
  BY <1>1
<1>4. link # NoLink => link.remote = 0 \/ Applied(link, pc)
  BY <1>3 DEF Down
<1>5. CASE OnSenderMessage
  BY <1>5, DownReads
<1>6. ASSUME link # NoLink, link' # NoLink, link'.id = link.id, link'.remote = link.remote,
             link'.need => link.need, link'.sig = link.sig, pc' = pc, to' = to
      PROVE  Down(link', pc', to'["sender"])
  <2>1. PICK k : k = link'
    OBVIOUS
  <2>2. Down(k, pc, s)
    BY <1>3, <1>6, <2>1, DownAlike
  <2> QED  BY <1>1, <1>6, <2>1, <2>2
<1>7. CASE offer
  <2>1. /\ link # NoLink /\ link.need /\ link.sig = "stable" /\ link \in Links
        /\ link' = [link EXCEPT !.need = FALSE, !.sig = "have-local-offer"]
        /\ to'["sender"] = s /\ pc' = pc
    BY <1>1, <1>7, OfferDoes, PcIs
  <2>2. PICK k : k = link'
    OBVIOUS
  <2>3. k.id = link.id /\ k.remote = link.remote /\ ~k.need
    BY <2>1, <2>2 DEF Links
  <2>4. k # NoLink
    BY <2>1, <2>3 DEF Links, NoLink, Ids
  <2>5. (Same(k, pc) <=> Same(link, pc)) /\ (Applied(k, pc) <=> Applied(link, pc))
    BY <2>1, <2>3, <2>4 DEF Same, Applied
  <2>6. Down(k, pc, s)
    BY <1>3, <2>1, <2>3, <2>5 DEF Down
  <2> QED  BY <2>1, <2>2, <2>6
<1>8. CASE SenderOpens
  <2>1. link # NoLink
    BY <1>8 DEF SenderOpens, SenderMayOpen, Reachable, Paired
  <2> QED  BY <2>1, <1>6, <1>8, SenderOpensDoes, LinkStepsSame
<1>9. CASE SenderIceReturns
  <2>1. link # NoLink /\ link \in Links
    BY <1>9, PcIs DEF SenderIceReturns, SenderMayReturn, Paired
  <2>2. PICK k : k = link'
    OBVIOUS
  <2>3. \E v : k = [link EXCEPT !.ice = "connected", !.timer = "none", !.restarts = 0,
                                !.view = v]
    BY <1>9, <2>2 DEF SenderIceReturns, SenderLinkStep
  <2>4. /\ k.id = link.id /\ k.remote = link.remote /\ k.need = link.need
        /\ k.sig = link.sig
    BY <2>1, <2>3 DEF Links
  <2>5. k # NoLink
    BY <2>1, <2>4 DEF Links, NoLink, Ids
  <2>6. pc' = pc /\ to' = to
    BY <1>9, LinkStepsSame
  <2> QED  BY <2>1, <2>2, <2>4, <2>5, <2>6, <1>6
<1>10. ~SenderIceDisconnects /\ ~SenderChannelCloses
  <2>1. ASSUME link # NoLink, link.ice = "connected" \/ link.open
        PROVE  Applied(link, pc)
    BY <2>1, <1>4 DEF ConnInv, Conn, LinkShape
  <2>2. ~SenderIceDisconnects
    BY <2>1, PairedIs DEF SenderIceDisconnects, SenderMayLose
  <2>3. ~SenderChannelCloses
    BY <2>1 DEF SenderChannelCloses, SenderHearsClose, Applied
  <2> QED  BY <2>2, <2>3
<1>11. CASE ConnectTimeout
  <2>1. link' = NoLink /\ to'["sender"] = <<>>
    BY <1>11, QuietMeans DEF ConnectTimeout, close, SenderLinkStep
  <2> QED  BY <2>1, EmptyHas DEF Down
<1>12. ~SenderIceFails
  BY <1>4, SenderIceFailsDoes
\* The receiver's connection goes on, and what it asks for is not sent.
<1>13. ASSUME link' = link, Alike(pc, pc') \/ pc' = pc, to'["sender"] = s
       PROVE  Down(link', pc', to'["sender"])
  <2>1. CASE pc' = pc
    BY <1>3, <1>13, <2>1
  <2>2. CASE Alike(pc, pc')
    <3>1. PICK d : d = pc'
      OBVIOUS
    <3>2. /\ pc # NoPc /\ d # NoPc /\ d.id = pc.id /\ d.link = pc.link
      BY <2>2, <3>1 DEF Alike
    <3>3. Down(link, d, s)
      BY <1>3, <3>2, DownAlike
    <3> QED  BY <3>1, <3>3, <1>13
  <2> QED  BY <2>1, <2>2, <1>13
<1>14. ASSUME NEW d \in Pcs, pc # NoPc, d # NoPc, d.id = pc.id, d.link = pc.link,
              Loses(d), link' = link
       PROVE  Down(link', pc', to'["sender"])
  <2>1. pc' = d /\ to'["sender"] = s
    BY <1>1, <1>2, <1>14 DEF Loses, Attempts
  <2>2. Down(link, d, s)
    BY <1>3, <1>14, DownAlike
  <2> QED  BY <2>1, <2>2, <1>14
<1>15. CASE ReceiverChannelCloses
  BY <1>14, <1>15, ClosesDoes
<1>16. CASE ReceiverIceFails
  BY <1>14, <1>16, FailsDoes
<1>17. CASE Watchdog
  <2>1. link' = link /\ pc' = pc /\ to'["sender"] = s
    BY <1>1, <1>2, <1>17, WatchdogDoes DEF Attempts
  <2> QED  BY <2>1, <1>13
<1>18. CASE answer
  <2>1. /\ pc # NoPc /\ pc \in Pcs /\ link' = link /\ to'["sender"] = s
    BY <1>1, <1>2, <1>18, AnswerDoes, PcIs
  <2>2. PICK c : c = IF pc.cand = "queued" THEN "added" ELSE pc.cand
    OBVIOUS
  <2>3. PICK d : d = pc'
    OBVIOUS
  <2>4. d = [pc EXCEPT !.setting = FALSE, !.remote = TRUE, !.cand = c]
    BY <2>2, <2>3, <1>18, AnswerDoes
  <2>5. d.id = pc.id /\ d.link = pc.link
    BY <2>1, <2>4 DEF Pcs
  <2>6. d # NoPc
    BY <2>1, <2>5 DEF Pcs, NoPc, Ids
  <2>7. Down(link, d, s)
    BY <1>3, <2>1, <2>5, <2>6, DownAlike
  <2> QED  BY <2>1, <2>3, <2>7
<1>19. CASE ReceiverOpens
  <2>1. /\ pc # NoPc /\ pc \in Pcs /\ link' = link /\ to'["sender"] = s
    BY <1>1, <1>19, PcIs DEF ReceiverOpens, ReceiverMayOpen, Reachable, Paired
  <2>2. PICK d : d = pc'
    OBVIOUS
  <2>3. d = [pc EXCEPT !.ice = "connected", !.dc = "open"]
    BY <2>2, <1>19 DEF ReceiverOpens
  <2>4. d.id = pc.id /\ d.link = pc.link
    BY <2>1, <2>3 DEF Pcs
  <2>5. d # NoPc
    BY <2>1, <2>4 DEF Pcs, NoPc, Ids
  <2>6. Down(link, d, s)
    BY <1>3, <2>1, <2>4, <2>5, DownAlike
  <2> QED  BY <2>1, <2>2, <2>6
<1>20. CASE ReceiverIceReturns \/ ReceiverIceDisconnects
  BY <1>1, <1>13, <1>20, IceDoes
<1>21. CASE \E p \in Pages : PageNotices(p) \/ RoomNotices(p) \/ Reconnect(p)
  <2>1. ~PageNotices("sender") /\ ~RoomNotices("sender") /\ ~Reconnect("sender")
    BY DEF PageNotices, RoomNotices, Reconnect, Wired
  <2>2. CASE PageNotices("receiver")
    BY <2>2, <1>1, <1>13, PageNoticesDoes DEF Pages
  <2>3. CASE RoomNotices("receiver")
    <3>1. UNCHANGED <<link, pc>> /\ to'["sender"] = s \o <<Leave>>
      BY <2>3, <1>1, RoomNoticesDoes DEF Pages
    <3>2. /\ Leave \notin AnyAnswer /\ <<Leave>> \in Seq(ToSender)
      BY MessagesTyped, OneMessage DEF AnyAnswer, Leave
    <3>3. None(<<Leave>>, AnyAnswer) /\ None(<<Leave>>, AnyAnswer \ AnswersOf(pc.id))
      BY <3>2, OneHas
    <3>4. /\ NotAfter(s, Changes, AnyAnswer)
          /\ None(s, AnyAnswer) \/ (Same(link, pc) /\ None(s, AnyAnswer \ AnswersOf(pc.id)))
      BY <1>3 DEF Down
    <3>5. NotAfter(s \o <<Leave>>, Changes, AnyAnswer)
      BY <3>2, <3>3, <3>4, AppendNotAfter
    <3>6. \/ None(s \o <<Leave>>, AnyAnswer)
          \/ Same(link, pc) /\ None(s \o <<Leave>>, AnyAnswer \ AnswersOf(pc.id))
      <4>1. ASSUME NEW S, None(s, S), None(<<Leave>>, S) PROVE None(s \o <<Leave>>, S)
        BY <4>1, <3>2, AppendHas
      <4> QED  BY <4>1, <3>3, <3>4
    <3>7. Down(link, pc, s \o <<Leave>>)
      BY <3>5, <3>6, <1>3 DEF Down
    <3> QED  BY <3>1, <3>7
  <2>4. CASE Reconnect("receiver")
    BY <2>4, ReceiverReconnects DEF Wired
  <2> QED  BY <2>1, <2>2, <2>3, <2>4, <1>21 DEF Pages
<1>22. CASE UNCHANGED vars
  BY <1>22, <1>1, <1>13 DEF vars
<1>23. ~OnReceiverMessage /\ ~PathReturns
  BY <1>2, ReceiverReads DEF PathReturns
<1> QED
  BY <1>5, <1>7, <1>8, <1>9, <1>10, <1>11, <1>12, <1>15, <1>16, <1>17, <1>18, <1>19,
     <1>20, <1>21, <1>22, <1>23, NoDisconnectTimeout, EnvironmentSpends
  DEF Next, System, Progress, SenderTimer, ReceiverTimer

LEMMA DownKeeps ==
    ASSUME TypeInv, ConnInv, WelcomeInv, Enough, path, WiredOK, DownOK,
           [Next]_vars, spent' = spent, ~GivesUp
    PROVE  WiredOK' /\ DownOK'
<1>1. /\ Wired("sender") => Wired("sender")'
      /\ Wired("receiver") => Wired("receiver")'
  BY WiresKept
<1>2. CASE Wired("receiver")
  BY <1>1, <1>2 DEF WiredOK, DownOK
<1>3. CASE ~Wired("receiver") /\ Untouched
  <2>1. Untouched'
    BY <1>3, UntouchedSteps DEF Untouched
  <2> QED  BY <2>1 DEF WiredOK, DownOK
<1>4. CASE ~Wired("receiver") /\ ~Untouched
  <2>1. Wired("sender") /\ Down(link, pc, to["sender"])
    BY <1>4 DEF WiredOK, DownOK
  <2>2. Wired("receiver")' \/ Down(link', pc', to'["sender"])
    BY <1>4, <2>1, DownStays
  <2> QED  BY <1>1, <2>1, <2>2 DEF WiredOK, DownOK
<1> QED  BY <1>2, <1>3, <1>4

-----------------------------------------------------------------------------
(* When the receiver's session is over.                                    *)

\* It was left, and nothing of it comes back.
Gone ==
    /\ rcv.status = "closed" /\ ~rcv.watchdog /\ pc = NoPc /\ ~Wired("receiver")

LEMMA GoneKeeps ==
    ASSUME TypeInv, WelcomeInv, Enough, Gone, [Next]_vars
    PROVE  Gone'
<1>1. pc = NoPc /\ ~rcv.watchdog /\ to["receiver"] = <<>> /\ Ended
  BY UnwiredQueue DEF Gone, Pages, Ended
<1>2. ~OnReceiverMessage /\ ~answer /\ ~SenderOpens /\ ~SenderIceReturns
  BY <1>1, ReceiverReads, AnswerDoes DEF SenderOpens, SenderMayOpen,
     Reachable, SenderIceReturns, SenderMayReturn, Paired
<1>3. /\ ~ReceiverOpens /\ ~ReceiverIceReturns /\ ~ReceiverIceDisconnects
      /\ ~ReceiverChannelCloses /\ ~ReceiverTimer
  BY <1>1 DEF ReceiverOpens, ReceiverMayOpen, Reachable, ReceiverIceReturns,
     ReceiverMayReturn, Paired, ReceiverIceDisconnects, ReceiverMayLose,
     ReceiverChannelCloses, ReceiverHearsClose, ReceiverTimer, ReceiverIceFails, Watchdog
<1>4. ~ReceiverReloads /\ ~leave
  BY <1>1 DEF ReceiverReloads, leave
<1>5. CASE sock' = sock /\ rcv' = rcv /\ pc' = pc
  BY <1>5 DEF Gone, Wired
<1>6. CASE OnSenderMessage
  BY <1>6, SenderReads DEF Gone, Wired
<1>7. CASE offer \/ SenderIceDisconnects \/ SenderChannelCloses \/ SenderTimer
  BY <1>5, <1>7, OfferDoes, LinkStepsSame
<1>8. CASE Outage \/ PathReturns \/ UNCHANGED vars
  BY <1>5, <1>8 DEF Outage, PathReturns, vars
<1>9. ASSUME NEW p \in Pages, PageNotices(p) \/ RoomNotices(p) \/ Reconnect(p) \/ Drop(p)
      PROVE  Gone'
  <2>1. ~Reconnect("receiver") /\ ~Drop("receiver")
    BY <1>1 DEF Reconnect, Drop, Gone
  <2>2. rcv' = rcv /\ pc' = pc
    BY <1>9 DEF PageNotices, RoomNotices, Reconnect, Drop
  <2>3. CASE p = "sender"
    BY <2>2, <2>3, <1>9, PageNoticesDoes, RoomNoticesDoes, SenderReconnects, DropDoes
    DEF Gone, Wired, Pages
  <2>4. CASE p = "receiver"
    <3>1. PageNotices("receiver") \/ RoomNotices("receiver")
      BY <2>1, <2>4, <1>9
    <3>2. sock'["receiver"] \in Unwired
      BY <3>1, PageNoticesDoes, RoomNoticesDoes DEF Pages
    <3> QED  BY <2>2, <3>2 DEF Gone, Wired, Unwired
  <2> QED  BY <2>3, <2>4 DEF Pages
<1>10. CASE SenderReloads
  BY <1>10, SenderReloadsDoes DEF Gone, Wired
<1> QED
  BY <1>2, <1>3, <1>4, <1>6, <1>7, <1>8, <1>9, <1>10
  DEF Next, System, Progress, Environment

-----------------------------------------------------------------------------
(* The first interruption.                                                 *)

LEMMA NoneNotAfter ==
    ASSUME NEW q, NEW A, NEW B, None(q, B)
    PROVE  NotAfter(q, A, B)
  BY DEF None, NotAfter

\* Up to it, nothing is under way to the sender that Down excludes.
LEMMA FirstDown ==
    ASSUME TypeInv, ConnInv, BothWired, First
    PROVE  Down(link, pc, to["sender"])
<1>1. PICK s : s = to["sender"]
  OBVIOUS
<1>2. ASSUME None(s, AnyAnswer), link = NoLink \/ link.remote = 0 \/ Applied(link, pc),
             link = NoLink \/ ~link.need \/ (link.remote = 0 /\ link.sig = "stable")
      PROVE  Down(link, pc, s)
  BY <1>2, NoneNotAfter DEF Down
<1>3. None(<<>>, AnyAnswer)
  BY EmptyHas
<1>4. None(<<IceOfPc(pc.id)>>, AnyAnswer)
  BY OneHas DEF AnyAnswer, IceOfPc
<1>5. ~Start
  BY DEF Start, BothWired, Wired
<1>6. CASE AskedNow /\ link = NoLink
  <2>1. PICK q \in Seq({Leave}), t \in Triggers : s = q \o <<t>>
    BY <1>1, <1>6 DEF AskedNow, Asked
  <2>2. t \in ToSender /\ Leave \in ToSender /\ t \notin AnyAnswer /\ Leave \notin AnyAnswer
    <3>1. t \in ToSender /\ Leave \in ToSender
      BY MessagesTyped DEF Triggers
    <3>2. t.t # "answer"
      BY DEF Triggers, Restart, Join, WelcomeMaster
    <3>3. Leave.t # "answer"
      BY DEF Leave
    <3> QED  BY <3>1, <3>2, <3>3 DEF AnyAnswer
  <2>3. q \in Seq(ToSender) /\ <<t>> \in Seq(ToSender)
    BY <2>2, OneMessage
  <2>4. \A k \in 1 .. Len(q) : q[k] = Leave
    BY <2>1
  <2>5. None(q, AnyAnswer)
    BY <2>2, <2>4 DEF None
  <2>6. None(<<t>>, AnyAnswer)
    BY <2>2, OneHas
  <2>7. None(s, AnyAnswer)
    BY <2>1, <2>3, <2>5, <2>6, AppendHas
  <2> QED  BY <2>7, <1>1, <1>2, <1>6
<1>7. CASE Underway(link, pc, to["sender"], to["receiver"])
  <2>1. CASE \/ Offering(link, pc, s, to["receiver"])
             \/ Offered(link, pc, s, to["receiver"])
             \/ Answering(link, pc, s, to["receiver"])
    <3>1. /\ link.remote = 0 /\ s = <<>>
          /\ ~link.need \/ link.sig = "stable"
      BY <2>1 DEF Offering, Offered, Answering, Brand
    <3> QED  BY <3>1, <1>1, <1>2, <1>3
  <2>2. CASE Answered(link, pc, s, to["receiver"])
    <3>1. Same(link, pc) /\ ~link.need /\ link # NoLink /\ pc # NoPc
      BY <2>2 DEF Answered, Same
    <3>2. CASE Brand(link) /\ s = <<Answer(link.id, pc.id), IceOfPc(pc.id)>>
      <4>1. link \in Links /\ pc \in Pcs
        BY <3>1, PcIs
      <4>2. link.id \in Ids /\ pc.id \in Ids
        BY <4>1 DEF Links, Pcs
      <4>3. Answer(link.id, pc.id) \in AnswersOf(pc.id)
        BY <4>2, MessagesTyped DEF AnswersOf, Answer
      <4>4. IceOfPc(pc.id) \notin AnyAnswer
        BY DEF AnyAnswer, IceOfPc
      <4>5. None(s, AnyAnswer \ AnswersOf(pc.id))
        BY <3>2, <4>3, <4>4, TwoHas
      <4>6. NotAfter(s, Changes, AnyAnswer)
        <5>1. Len(s) = 2 /\ s[2] = IceOfPc(pc.id)
          BY <3>2
        <5>2. SUFFICES ASSUME NEW j \in 1 .. 2, NEW k \in 1 .. 2, j < k
                       PROVE  s[k] \notin AnyAnswer
          BY <5>1 DEF NotAfter
        <5>3. k = 2
          BY <5>2
        <5> QED  BY <5>1, <5>3, <4>4
      <4> QED  BY <3>1, <3>2, <4>5, <4>6, <1>1 DEF Down, Brand
    <3>3. CASE Bound(link, pc) /\ (s = <<IceOfPc(pc.id)>> \/ s = <<>>)
      <4>1. Applied(link, pc)
        BY <3>1, <3>3 DEF Applied, Bound
      <4> QED  BY <3>1, <3>3, <4>1, <1>1, <1>2, <1>3, <1>4
    <3> QED  BY <2>2, <3>2, <3>3 DEF Answered
  <2> QED  BY <2>1, <2>2, <1>1, <1>7 DEF Underway
<1>8. CASE Opened(link, pc, to["sender"], to["receiver"])
  <2>1. /\ Applied(link, pc)
        /\ s = <<>> \/ s = <<IceOfPc(pc.id)>>
    BY <1>1, <1>8 DEF Opened, Applied, Bound
  <2>2. ~link.need
    BY <2>1 DEF ConnInv, Conn, RoundOK, Due
  <2> QED  BY <2>1, <2>2, <1>1, <1>2, <1>3, <1>4
<1> QED  BY <1>5, <1>6, <1>7, <1>8 DEF First

LEMMA FirstFault ==
    ASSUME TypeInv, ConnInv, First, rcv.restarts = 0,
           (\E p \in Pages : Drop(p)) \/ SenderReloads \/ ReceiverReloads
    PROVE  /\ Low' /\ WiredOK' /\ DownOK'
           /\ rcv'.status \in {rcv.status, "connecting"}
<1>1. Wired("receiver") => BothWired
  BY DEF First, Start, Wired
<1>2. ~Wired("receiver") => Untouched
  BY DEF First, Start, BothWired
<1>3. ASSUME rcv' = rcv, pc' = pc, sock'["receiver"] = sock["receiver"]
      PROVE  Low' /\ WiredOK' /\ DownOK' /\ rcv'.status = rcv.status
  <2>1. Low'
    BY <1>3 DEF Low
  <2>2. Wired("receiver") => Wired("receiver")'
    BY <1>3 DEF Wired
  <2>3. Untouched => Untouched'
    BY <1>3 DEF Untouched
  <2> QED  BY <2>1, <2>2, <2>3, <1>2, <1>3 DEF WiredOK, DownOK
<1>4. CASE Drop("sender") \/ SenderReloads
  BY <1>3, <1>4, DropDoes, SenderReloadsDoes DEF Pages
<1>5. CASE ReceiverReloads
  <2>1. /\ pc' = NoPc /\ rcv' = NewReceiver
    BY <1>5, ReceiverReloadsDoes
  <2>2. Untouched' /\ Low' /\ rcv'.status = "connecting"
    BY <2>1 DEF Untouched, Low, NewReceiver
  <2> QED  BY <2>2 DEF WiredOK, DownOK
<1>6. CASE Drop("receiver")
  <2>1. /\ sock'["sender"] = sock["sender"] /\ to'["sender"] = to["sender"]
        /\ UNCHANGED <<link, pc, rcv>> /\ Wired("receiver")
    BY <1>6, DropDoes DEF Pages
  <2>2. Down(link, pc, to["sender"]) /\ Wired("sender")
    BY <2>1, <1>1, FirstDown DEF BothWired
  <2>3. Low'
    BY <2>1 DEF Low
  <2>4. Wired("sender")'
    BY <2>1, <2>2 DEF Wired
  <2>5. Down(link', pc', to'["sender"])
    BY <2>1, <2>2
  <2> QED  BY <2>1, <2>3, <2>4, <2>5 DEF WiredOK, DownOK
<1> QED  BY <1>4, <1>5, <1>6 DEF Pages

-----------------------------------------------------------------------------
(* The invariant.                                                          *)

Interrupted == spent["drops"] + spent["senderReloads"] + spent["receiverReloads"]

Phase ==
    /\ path /\ ConnInv
    /\ Ended => Gone
    /\ ~Ended => /\ WiredOK /\ DownOK
                 /\ Interrupted = 0 => rcv.restarts = 0 /\ First
                 /\ Interrupted = 1 => Afforded

OneFaultInv ==
    /\ WelcomeInv
    /\ spent["outages"] = 0 /\ Interrupted <= 1 => Phase

LEMMA OneFaultInit == Init => OneFaultInv
<1> SUFFICES ASSUME Init PROVE OneFaultInv
  OBVIOUS
<1>1. /\ sock["sender"] = "up" /\ sock["receiver"] = "off"
      /\ to["sender"] = <<>> /\ to["receiver"] = <<>>
      /\ path /\ link = NoLink /\ pc = NoPc /\ rcv = NewReceiver
  BY DEF Init, Pages
<1>2. WelcomeInv
  BY <1>1, WelcomeEmpty, EmptyHas DEF WelcomeInv
<1>3. ConnInv
  BY <1>1 DEF ConnInv, Conn, RoundOK, AnsweredOK, PcShape, LinkShape, Same, Applied
<1>4. Untouched /\ rcv.restarts = 0 /\ ~Ended
  BY <1>1 DEF Untouched, NewReceiver, Ended
<1>5. First /\ WiredOK /\ DownOK
  BY <1>1, <1>4 DEF First, Start, Wired, WiredOK, DownOK
<1>6. Interrupted = 0
  BY DEF Init, Interrupted, FaultKinds
<1> QED  BY <1>1, <1>2, <1>3, <1>4, <1>5, <1>6 DEF OneFaultInv, Phase

\* Only an outage breaks the path, and only faults are counted.
LEMMA PathLost ==
    ASSUME [Next]_vars
    PROVE  /\ spent' = spent \/ Environment
           /\ path /\ ~Outage => path'
<1>1. CASE PathReturns
  BY <1>1 DEF PathReturns
<1>2. ASSUME NEW p \in Pages, PageNotices(p) \/ RoomNotices(p) \/ Reconnect(p)
      PROVE  UNCHANGED <<path, spent>>
  BY <1>2 DEF PageNotices, RoomNotices, Reconnect
<1>3. CASE OnSenderMessage \/ OnReceiverMessage \/ offer \/ answer
  BY <1>3 DEF OnSenderMessage, OnReceiverMessage, offer, answer
<1>4. CASE SenderOpens \/ SenderIceReturns \/ SenderIceDisconnects
               \/ SenderChannelCloses \/ SenderTimer
  BY <1>4, LinkStepsSame
<1>5. CASE ReceiverOpens \/ ReceiverIceReturns \/ ReceiverIceDisconnects
               \/ ReceiverChannelCloses \/ ReceiverTimer
  BY <1>5 DEF ReceiverOpens, ReceiverIceReturns, ReceiverIceDisconnects,
     ReceiverChannelCloses, ReceiverTimer, ReceiverIceFails, Watchdog
<1>6. CASE UNCHANGED vars
  BY <1>6 DEF vars
<1>7. CASE Environment
  <2>1. ~Outage => path' = path
    BY <1>7 DEF Environment, Drop, SenderReloads, ReceiverReloads, leave
  <2> QED  BY <2>1, <1>7
<1> QED  BY <1>1, <1>2, <1>3, <1>4, <1>5, <1>6, <1>7 DEF Next, System, Progress

\* A step that is no fault.
LEMMA PhaseKeeps ==
    ASSUME TypeInv, WelcomeInv, Enough, Phase, Interrupted <= 1, [Next]_vars,
           spent' = spent
    PROVE  Phase'
<1>1. path /\ ConnInv
  BY DEF Phase
<1>2. path'
  BY <1>1, PathLost, EnvironmentSpends DEF Environment
<1>3. ConnInv'
  BY <1>1, <1>2, ConnKeeps
<1>4. Interrupted' = Interrupted /\ Interrupted \in {0, 1}
  BY DEF Interrupted, TypeInv, FaultKinds
<1>5. CASE Ended
  <2>1. Gone'
    BY <1>5, GoneKeeps DEF Phase
  <2>2. Ended'
    BY <2>1 DEF Gone, Ended
  <2> QED  BY <1>2, <1>3, <2>1, <2>2 DEF Phase
<1>6. CASE ~Ended
  <2>1. WiredOK /\ DownOK
    BY <1>6 DEF Phase
  <2>2. ASSUME Interrupted = 0 PROVE First' /\ rcv'.restarts = 0 /\ GoesOn
    <3>1. First /\ rcv.restarts = 0
      BY <1>6, <2>2 DEF Phase
    <3> QED  BY <3>1, <1>1, FirstKeeps DEF GoesOn
  <2>3. ASSUME Interrupted = 1 PROVE Afforded' /\ GoesOn
    <3>1. Afforded
      BY <1>6, <2>3 DEF Phase
    <3>2. CASE Chain
      <4>1. \/ Calm /\ Chain'
            \/ BothWired' /\ rcv'.restarts = 0 /\ rcv'.status = "connected"
        BY <3>2, <1>1, ChainKeeps
      <4>2. CASE Calm /\ Chain'
        BY <4>2 DEF Calm, Afforded, GoesOn
      <4>3. CASE rcv'.restarts = 0 /\ rcv'.status = "connected"
        <5>1. rcv'.restarts \in {0, 1}
          BY <4>3
        <5>2. Low'
          BY <5>1, FewIsLow
        <5> QED  BY <4>3, <5>2 DEF Afforded, GoesOn
      <4> QED  BY <4>1, <4>2, <4>3
    <3>3. CASE Low
      BY <3>3, <1>1, <2>1, LowKeeps
    <3>4. CASE SenderAway
      BY <3>4, <1>1, SenderAwayKeeps
    <3>5. CASE MasterBack
      BY <3>5, <1>1, MasterBackKeeps
    <3>6. CASE ReceiverAway
      BY <3>6, <1>1, <2>1, ReceiverAwayKeeps
    <3> QED  BY <3>1, <3>2, <3>3, <3>4, <3>5, <3>6 DEF Afforded
  <2>4. /\ GoesOn
        /\ Interrupted' = 0 => rcv'.restarts = 0 /\ First'
        /\ Interrupted' = 1 => Afforded'
    BY <2>2, <2>3, <1>4
  <2>5. ~Ended'
    BY <2>4, <1>6 DEF GoesOn, Ended
  <2>6. ~GivesUp
    BY <2>5 DEF GivesUp, Ended
  <2>7. WiredOK' /\ DownOK'
    BY <2>1, <2>6, <1>1, DownKeeps
  <2> QED  BY <1>2, <1>3, <2>4, <2>5, <2>7 DEF Phase
<1> QED  BY <1>5, <1>6

\* What faults and the receiver's leave do to the counts.
LEMMA FaultsAdd ==
    ASSUME TypeInv
    PROVE  /\ spent["outages"] \in Nat /\ Interrupted \in Nat
           /\ Outage => spent'["outages"] = spent["outages"] + 1
           /\ leave => spent'["outages"] = spent["outages"] /\ Interrupted' = Interrupted
           /\ (\E p \in Pages : Drop(p)) \/ SenderReloads \/ ReceiverReloads =>
                  spent'["outages"] = spent["outages"] /\ Interrupted' = Interrupted + 1
<1>1. PICK d \in Nat, s \in Nat, r \in Nat, o \in Nat :
          /\ d = spent["drops"] /\ s = spent["senderReloads"]
          /\ r = spent["receiverReloads"] /\ o = spent["outages"]
  BY NegotiationAssumption DEF TypeInv, FaultKinds
<1>2. Interrupted = d + s + r
  BY <1>1 DEF Interrupted
<1>4. ASSUME leave
      PROVE  spent'["outages"] = o /\ Interrupted' = Interrupted
  BY <1>1, <1>2, <1>4, SpendCounts DEF leave, FaultKinds, Interrupted
<1>5. ASSUME Spend("drops")
      PROVE  spent'["outages"] = o /\ Interrupted' = Interrupted + 1
  BY <1>1, <1>2, <1>5, SpendCounts DEF FaultKinds, Interrupted
<1>6. ASSUME Spend("senderReloads")
      PROVE  spent'["outages"] = o /\ Interrupted' = Interrupted + 1
  BY <1>1, <1>2, <1>6, SpendCounts DEF FaultKinds, Interrupted
<1>7. ASSUME Spend("receiverReloads")
      PROVE  spent'["outages"] = o /\ Interrupted' = Interrupted + 1
  BY <1>1, <1>2, <1>7, SpendCounts DEF FaultKinds, Interrupted
<1>8. ASSUME Outage PROVE spent'["outages"] = o + 1
  BY <1>1, <1>8, SpendCounts DEF Outage, FaultKinds
<1>9. ASSUME (\E p \in Pages : Drop(p)) \/ SenderReloads \/ ReceiverReloads
      PROVE  spent'["outages"] = o /\ Interrupted' = Interrupted + 1
  BY <1>5, <1>6, <1>7, <1>9 DEF Drop, SenderReloads, ReceiverReloads
<1>10. spent["outages"] = o /\ Interrupted \in Nat
  BY <1>1, <1>2
<1>11. Outage => spent'["outages"] = spent["outages"] + 1
  BY <1>8, <1>10
<1>12. leave => spent'["outages"] = spent["outages"] /\ Interrupted' = Interrupted
  BY <1>4, <1>10
<1>13. (\E p \in Pages : Drop(p)) \/ SenderReloads \/ ReceiverReloads =>
           spent'["outages"] = spent["outages"] /\ Interrupted' = Interrupted + 1
  BY <1>9, <1>10
<1> QED  BY <1>1, <1>10, <1>11, <1>12, <1>13

LEMMA OneFaultStep ==
    ASSUME TypeInv, OneFaultInv, Enough, [Next]_vars
    PROVE  OneFaultInv'
<1>1. WelcomeInv /\ WelcomeInv'
  BY WelcomeKeeps DEF OneFaultInv
<1>2. SUFFICES ASSUME spent'["outages"] = 0, Interrupted' <= 1
               PROVE  Phase'
  BY <1>1 DEF OneFaultInv
<1>3. CASE spent' = spent
  <2>1. spent["outages"] = 0 /\ Interrupted <= 1
    BY <1>2, <1>3 DEF Interrupted
  <2> QED  BY <2>1, <1>1, <1>3, PhaseKeeps DEF OneFaultInv
<1>4. CASE Outage
  BY <1>2, <1>4, FaultsAdd
<1>5. CASE leave
  <2>1. spent["outages"] = 0 /\ Interrupted <= 1
    BY <1>2, <1>5, FaultsAdd
  <2>2. Phase /\ path' = path
    BY <2>1, <1>5 DEF OneFaultInv, leave
  <2>3. path' /\ ConnInv'
    BY <2>2, ConnKeeps DEF Phase
  <2>4. RcvOK(rcv) /\ finish(rcv, "closed")
    BY <1>5 DEF leave, TypeInv
  <2>5. Gone'
    BY <2>4, FinishDoes DEF Gone, Wired
  <2>6. Ended'
    BY <2>5 DEF Gone, Ended
  <2> QED  BY <2>3, <2>5, <2>6 DEF Phase
<1>6. CASE (\E p \in Pages : Drop(p)) \/ SenderReloads \/ ReceiverReloads
  <2>1. spent["outages"] = 0 /\ Interrupted = 0 /\ Interrupted' = 1
    BY <1>2, <1>6, FaultsAdd
  <2>2. Phase /\ path' = path
    BY <2>1, <1>6 DEF OneFaultInv, Drop, SenderReloads, ReceiverReloads
  <2>3. path' /\ ConnInv'
    BY <2>2, ConnKeeps DEF Phase
  <2>4. CASE Ended
    <3>1. Gone'
      BY <2>2, <2>4, <1>1, GoneKeeps DEF Phase
    <3>2. Ended'
      BY <3>1 DEF Gone, Ended
    <3> QED  BY <2>3, <3>1, <3>2 DEF Phase
  <2>5. CASE ~Ended
    <3>1. ConnInv /\ First /\ rcv.restarts = 0
      BY <2>1, <2>2, <2>5 DEF Phase
    <3>2. /\ Low' /\ WiredOK' /\ DownOK'
          /\ rcv'.status \in {rcv.status, "connecting"}
      BY <3>1, <1>6, FirstFault
    <3>3. ~Ended'
      BY <3>2, <2>5 DEF Ended
    <3> QED  BY <2>1, <2>3, <3>2, <3>3 DEF Phase, Afforded
  <2> QED  BY <2>4, <2>5
<1> QED
  BY <1>3, <1>4, <1>5, <1>6, PathLost DEF Environment

\* With a budget of three attempts at least, and a watchdog that is slower than
\* the heartbeat before the last of them, one dropped socket or one reload
\* never makes the receiver give up (receiver.ts:264-286, 298-310).
THEOREM OneFaultSurvived ==
    ASSUME Enough
    PROVE  Spec => []OneFaultIsSurvived
<1>1. Init => OneFaultInv
  BY OneFaultInit
<1>2. ASSUME IInv, OneFaultInv, [Next]_vars PROVE OneFaultInv'
  BY <1>2, OneFaultStep DEF IInv
<1>3. IInv /\ OneFaultInv => OneFaultIsSurvived
  <2> SUFFICES ASSUME IInv, OneFaultInv, rcv.status = "error"
               PROVE  \/ spent["outages"] > 0
                      \/ Interrupted > 1
    BY DEF OneFaultIsSurvived, Interrupted
  <2>1. ~Phase
    BY DEF Phase, Ended, Gone
  <2>2. ~(spent["outages"] = 0 /\ Interrupted <= 1)
    BY <2>1 DEF OneFaultInv
  <2>3. spent["outages"] \in Nat /\ Interrupted \in Nat
    BY FaultsAdd DEF IInv
  <2> QED  BY <2>2, <2>3
<1> QED  BY <1>1, <1>2, <1>3, InvHolds, PTL DEF Spec

=============================================================================
