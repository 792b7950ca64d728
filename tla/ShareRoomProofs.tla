-------------------------- MODULE ShareRoomProofs --------------------------
(***************************************************************************)
(* That a share's PIN leads to its room, that a closed room leaves nothing *)
(* behind, and that a share is closed when its sender stays away: what     *)
(* closeRoom() and restore() do in pieces, between calls to the directory, *)
(* adds up.                                                                *)
(*                                                                         *)
(* All of it holds as long as the sender's page restores its share on one  *)
(* socket at a time, Limit["twins"] = 0, and the last part as long as that *)
(* socket lasts until the share is restored, Limit["earlyLosses"] = 0.     *)
(***************************************************************************)
EXTENDS ShareProofs

USE DirectoryAssumption, RoomAssumption, ShareAssumption

-----------------------------------------------------------------------------
(* The inductive invariant. *)

\* The calls of closeRoom() among cs.
Wipers(cs) == {i \in DOMAIN cs : cs[i].op \in {"releasePin", "withdraw"}}

\* A share that is being created has no page yet.
Early ==
    /\ creating.step # "done" => shown = NoPin /\ calls = <<>> /\ net = {}
    /\ shown = NoPin =>
          /\ \A c \in Pages : status[c] = "off"
          /\ \A s \in Sockets : sock[s] = NoSocket
          /\ RestoreCalls(calls) = {}
    /\ creating.step \in {"new", "claimed"} => ~meta.open /\ ~stored.open
    /\ creating.step = "inited" => meta.open

\* A share is restored on one socket at a time.
OneRestore(cs) == \A i, j \in RestoreCalls(cs) : i = j

\* What closeRoom() and restore() still have to do, in the order they will:
\* a room is only opened again when the PIN of the one before has been given
\* back, and is only listed again when the one before is no longer.
CallOrder(cs, open, d) ==
    /\ \A i \in DOMAIN cs :
          /\ cs[i].discoverable = d
          /\ cs[i].op \in {"withdraw", "announce"} => d = TRUE
    /\ \A i \in DOMAIN cs :
          cs[i].op = "claimPin" =>
              ~open /\ \A j \in DOMAIN cs : j > i => cs[j].op = "withdraw"
    /\ open =>
          \A j \in Wipers(cs) :
              /\ cs[j].op = "withdraw"
              /\ \E i \in DOMAIN cs : cs[i].op = "announce" /\ j < i
    /\ ~open =>
          \A i \in DOMAIN cs :
              cs[i].op = "announce" => \E j \in Wipers(cs) : i < j

\* Storage and memory differ only while closeRoom() or restore() is suspended.
SavedOK(saved, room, cs) ==
    \/ saved = room
    \/ Wipers(cs) # {}
    \/ room.open /\ \E i \in DOMAIN cs : cs[i].op = "announce"

\* The PINs of the share: the room's, and those that will be given back.
PinsOK(owner, room, cs, new) ==
    /\ room.open => owner[room.pin] = "ours"
    /\ new.step = "claimed" => owner[new.pin] = "ours"
    /\ \A p \in Pins : owner[p] = "ours" =>
          \/ room.open /\ p = room.pin
          \/ new.step = "claimed" /\ p = new.pin
          \/ \E i \in DOMAIN cs : cs[i].op = "releasePin" /\ cs[i].pin = p

\* When the share is listed.
ListedWhen(N, cs, open, d) ==
    /\ N # {} => d = TRUE /\ (open \/ Wipers(cs) # {})
    /\ \A i \in DOMAIN cs : cs[i].op = "announce" =>
          \/ N = {}
          \/ \E j \in DOMAIN cs : j < i /\ cs[j].op = "withdraw"

\* The two entries that list it, and what its watchers see.
ListedOK ==
    /\ net = listedUnder
    /\ \A w \in Watchers :
          watching[w] # {} /\ nearby[w] => watching[w] \cap net # {}

\* Whether a share is listed never changes.
AuthsTrue(k, d) ==
    \A i \in DOMAIN k.toServer :
        k.toServer[i].t = "auth" /\ k.toServer[i].role = "master" =>
            k.toServer[i].discoverable = d

Holds(k, w) == k.welcome = w \/ \E i \in DOMAIN k.toClient : k.toClient[i] = w

\* A sender in use is in an open room, and is welcomed with its PIN.
MasterIn(k, room) ==
    k.role = "master" /\ k.server = "open" =>
        /\ room.open
        /\ \A w \in Welcomes : Holds(k, w) => w.pin = room.pin

SendersOK(sk, room, d) ==
    \A s \in Sockets : AuthsTrue(sk[s], d) /\ MasterIn(sk[s], room)

\* The PIN a connected sender's page shows is its room's.
ShownOK(sk, s, st, pin, room) ==
    s # NoWs /\ st = "open" /\ sk[s].server = "open" => pin = room.pin

Books(cs, room, saved, owner, new, N) ==
    /\ OneRestore(cs)
    /\ CallOrder(cs, room.open, new.discoverable)
    /\ room.open => room.discoverable = new.discoverable
    /\ SavedOK(saved, room, cs)
    /\ PinsOK(owner, room, cs, new)
    /\ ListedWhen(N, cs, room.open, new.discoverable)

BooksInv ==
    /\ Early
    /\ Books(calls, meta, stored, pins, creating, net)
    /\ ListedOK
    /\ SendersOK(sock, meta, creating.discoverable)
    /\ ShownOK(sock, ws[Sender], status[Sender], shown, meta)

\* A socket that is being restored is still there.
Stay(cs, sk) == \A s \in Restorers(cs) : sk[s].server # "gone"

\* The grace period runs whenever no sender is connected or about to be.
GraceSet(room, sk, cs, al) ==
    /\ room.open /\ Masters(sk) = {}
    /\ \A i \in DOMAIN cs : cs[i].op # "announce"
    => al = "grace" /\ (room.masterSeen => room.masterGone)

GraceInv ==
    Limit["earlyLosses"] = 0 =>
        Stay(calls, sock) /\ GraceSet(meta, sock, calls, alarm)

FullInv == BaseInv /\ BooksInv /\ GraceInv

-----------------------------------------------------------------------------
(* Queues of calls. *)

\* ds is cs with c after it.
Grown(cs, ds, c) ==
    \E n \in Nat \ DOMAIN cs :
        /\ DOMAIN ds = DOMAIN cs \cup {n} /\ ds[n] = c
        /\ \A i \in DOMAIN cs : i \in Nat /\ i < n /\ ds[i] = cs[i]

LEMMA AppendAt ==
    ASSUME NEW cs \in Seq(Calls), NEW c \in Calls, NEW ds, ds = Append(cs, c)
    PROVE  ds \in Seq(Calls) /\ Grown(cs, ds, c)
<1>1. /\ Append(cs, c) \in Seq(Calls) /\ Len(Append(cs, c)) = Len(cs) + 1
      /\ Len(cs) \in Nat /\ Append(cs, c)[Len(cs) + 1] = c
      /\ \A i \in 1 .. Len(cs) : Append(cs, c)[i] = cs[i]
      /\ DOMAIN cs = 1 .. Len(cs)
      /\ DOMAIN Append(cs, c) = 1 .. Len(Append(cs, c))
  BY AppendProperties
<1>2. /\ Len(cs) + 1 \in Nat \ DOMAIN cs
      /\ DOMAIN ds = DOMAIN cs \cup {Len(cs) + 1}
      /\ ds[Len(cs) + 1] = c
      /\ \A i \in DOMAIN cs : i \in Nat /\ i < Len(cs) + 1 /\ ds[i] = cs[i]
  BY <1>1
<1>3. QED
  BY <1>1, <1>2 DEF Grown

LEMMA TailAt ==
    ASSUME NEW cs \in Seq(Calls), cs # <<>>
    PROVE  /\ 1 \in DOMAIN cs /\ cs[1] = Head(cs)
           /\ Tail(cs) \in Seq(Calls) /\ Head(cs) \in Calls
           /\ \A i \in DOMAIN Tail(cs) :
                 /\ i \in Nat /\ i + 1 \in DOMAIN cs /\ Tail(cs)[i] = cs[i + 1]
           /\ \A j \in DOMAIN cs :
                 /\ j \in Nat /\ j >= 1
                 /\ j # 1 => j - 1 \in DOMAIN Tail(cs) /\ Tail(cs)[j - 1] = cs[j]
<1> DEFINE ds == Tail(cs)
<1>1. /\ Head(cs) \in Calls /\ ds \in Seq(Calls) /\ Head(cs) = cs[1]
      /\ Len(ds) = Len(cs) - 1 /\ Len(cs) \in Nat \ {0}
      /\ \A i \in 1 .. Len(ds) : ds[i] = cs[i + 1]
      /\ DOMAIN cs = 1 .. Len(cs) /\ DOMAIN ds = 1 .. Len(ds)
  BY EmptySeq, HeadTailProperties
<1> HIDE DEF ds
<1>2. /\ \A i \in DOMAIN ds :
            /\ i \in Nat /\ i + 1 \in DOMAIN cs /\ ds[i] = cs[i + 1]
      /\ \A j \in DOMAIN cs :
            /\ j \in Nat /\ j >= 1
            /\ j # 1 => j - 1 \in DOMAIN ds /\ ds[j - 1] = cs[j]
  BY <1>1
<1>3. QED
  BY <1>1, <1>2 DEF ds

-----------------------------------------------------------------------------
(* What the handlers do to the books. *)

\* The room is only visited.
LEMMA BooksSame ==
    ASSUME NEW cs, NEW room, NEW saved, NEW owner, NEW new, NEW N,
           Books(cs, room, saved, owner, new, N), NEW room2, NEW saved2,
           room2.open = room.open, room2.pin = room.pin,
           room2.discoverable = room.discoverable,
           saved2 = room2 \/ (saved2 = saved /\ room2 = room)
    PROVE  Books(cs, room2, saved2, owner, new, N)
<1>1. CallOrder(cs, room2.open, new.discoverable)
  BY DEF Books
<1>2. PinsOK(owner, room2, cs, new)
  BY DEF Books, PinsOK
<1>3. SavedOK(saved2, room2, cs)
  BY DEF Books, SavedOK
<1>4. QED
  BY <1>1, <1>2, <1>3 DEF Books

\* closeRoom() starts.
LEMMA BooksClose ==
    ASSUME NEW cs \in Seq(Calls), NEW room, NEW saved, NEW owner, NEW new, NEW N,
           Books(cs, room, saved, owner, new, N), RoomOK(room), room.open,
           NEW c, c = [op |-> "releasePin", pin |-> room.pin,
                       discoverable |-> room.discoverable],
           NEW ds, ds = Append(cs, c)
    PROVE  Books(ds, NoRoom, saved, owner, new, N)
<1>1. c \in Calls /\ c.op = "releasePin" /\ c.pin = room.pin
      /\ c.discoverable = new.discoverable
  BY DEF RoomOK, RoomMeta, Calls, Books
<1>2. PICK n \in Nat \ DOMAIN cs :
          /\ DOMAIN ds = DOMAIN cs \cup {n} /\ ds[n] = c
          /\ \A i \in DOMAIN cs : i \in Nat /\ i < n /\ ds[i] = cs[i]
  BY <1>1, AppendAt DEF Grown
<1>3. /\ OneRestore(cs) /\ CallOrder(cs, TRUE, new.discoverable)
      /\ SavedOK(saved, room, cs) /\ PinsOK(owner, room, cs, new)
      /\ ListedWhen(N, cs, TRUE, new.discoverable) /\ NoRoom.open = FALSE
      /\ room.open = TRUE
  BY DEF Books, RoomOK, RoomMeta, NoRoom
<1>4. OneRestore(ds)
  BY <1>1, <1>2, <1>3 DEF OneRestore, RestoreCalls
<1>5. n \in Wipers(ds) /\ \A j \in Wipers(cs) : j \in Wipers(ds)
  BY <1>1, <1>2 DEF Wipers
<1>6. CallOrder(ds, FALSE, new.discoverable)
  <2>1. ASSUME NEW i \in DOMAIN ds
        PROVE  /\ ds[i].discoverable = new.discoverable
               /\ ds[i].op \in {"withdraw", "announce"} => new.discoverable = TRUE
               /\ ds[i].op # "claimPin"
               /\ ds[i].op = "announce" => \E j \in Wipers(ds) : i < j
    <3>1. CASE i = n
      BY <1>1, <1>2, <3>1
    <3>2. CASE i \in DOMAIN cs
      BY <1>2, <1>3, <1>5, <3>2 DEF CallOrder
    <3>3. QED
      BY <1>2, <3>1, <3>2
  <2>2. QED
    BY <2>1 DEF CallOrder
<1>7. PinsOK(owner, NoRoom, ds, new)
  BY <1>1, <1>2, <1>3 DEF PinsOK
<1>8. ListedWhen(N, ds, FALSE, new.discoverable)
  <2>1. N # {} => new.discoverable = TRUE /\ Wipers(ds) # {}
    BY <1>3, <1>5 DEF ListedWhen
  <2>2. ASSUME NEW i \in DOMAIN ds, ds[i].op = "announce", N # {}
        PROVE  \E j \in DOMAIN ds : j < i /\ ds[j].op = "withdraw"
    <3>1. i \in DOMAIN cs /\ cs[i].op = "announce"
      BY <1>1, <1>2, <2>2
    <3>2. PICK j \in DOMAIN cs : j < i /\ cs[j].op = "withdraw"
      BY <1>3, <2>2, <3>1 DEF ListedWhen
    <3>3. QED
      BY <1>2, <3>2
  <2>3. QED
    BY <2>1, <2>2 DEF ListedWhen
<1>9. SavedOK(saved, NoRoom, ds)
  BY <1>5 DEF SavedOK
<1>10. QED
  BY <1>3, <1>4, <1>6, <1>7, <1>8, <1>9 DEF Books

\* restore() starts.
LEMMA BooksRestore ==
    ASSUME NEW cs \in Seq(Calls), NEW room, NEW saved, NEW owner, NEW new, NEW N,
           Books(cs, room, saved, owner, new, N), room.open = FALSE,
           RestoreCalls(cs) = {},
           NEW c \in Calls, c.op = "claimPin", c.discoverable = new.discoverable,
           NEW ds, ds = Append(cs, c)
    PROVE  Books(ds, room, saved, owner, new, N)
<1>1. PICK n \in Nat \ DOMAIN cs :
          /\ DOMAIN ds = DOMAIN cs \cup {n} /\ ds[n] = c
          /\ \A i \in DOMAIN cs : i \in Nat /\ i < n /\ ds[i] = cs[i]
  BY AppendAt DEF Grown
<1>2. /\ CallOrder(cs, FALSE, new.discoverable)
      /\ SavedOK(saved, room, cs) /\ PinsOK(owner, room, cs, new)
      /\ ListedWhen(N, cs, FALSE, new.discoverable)
  BY DEF Books
<1>3. RestoreCalls(ds) = {n} /\ \A i \in DOMAIN ds : ds[i].op # "announce"
  BY <1>1 DEF RestoreCalls
<1>4. OneRestore(ds)
  BY <1>3 DEF OneRestore
<1>5. \A j \in Wipers(cs) : j \in Wipers(ds)
  BY <1>1 DEF Wipers
<1>6. CallOrder(ds, FALSE, new.discoverable)
  <2>1. ASSUME NEW i \in DOMAIN ds
        PROVE  /\ ds[i].discoverable = new.discoverable
               /\ ds[i].op = "withdraw" => new.discoverable = TRUE
               /\ ds[i].op = "claimPin" => i = n
    <3>1. CASE i = n
      BY <1>1, <3>1
    <3>2. CASE i \in DOMAIN cs
      BY <1>1, <1>2, <3>2 DEF CallOrder, RestoreCalls
    <3>3. QED
      BY <1>1, <3>1, <3>2
  <2>2. \A j \in DOMAIN ds : ~(j > n)
    BY <1>1
  <2>3. QED
    BY <1>3, <2>1, <2>2 DEF CallOrder
<1>7. PinsOK(owner, room, ds, new)
  BY <1>1, <1>2 DEF PinsOK
<1>8. ListedWhen(N, ds, FALSE, new.discoverable)
  BY <1>2, <1>3, <1>5 DEF ListedWhen
<1>9. SavedOK(saved, room, ds)
  BY <1>2, <1>5 DEF SavedOK
<1>10. QED
  BY <1>4, <1>6, <1>7, <1>8, <1>9 DEF Books

\* What is left of the queue once its first call, c, has been answered.
TailIs(c, rest, open, d) ==
    /\ c.discoverable = d
    /\ c.op \in {"withdraw", "announce"} => d = TRUE
    /\ \A i \in DOMAIN rest :
          /\ rest[i].discoverable = d
          /\ rest[i].op \in {"withdraw", "announce"} => d = TRUE
          /\ rest[i].op = "claimPin" =>
                /\ ~open
                /\ \A j \in DOMAIN rest : j > i => rest[j].op = "withdraw"
    /\ ~open =>
          \A i \in DOMAIN rest :
              rest[i].op = "announce" => \E j \in Wipers(rest) : i < j
    /\ open /\ c.op # "announce" =>
          \A j \in Wipers(rest) :
              /\ rest[j].op = "withdraw"
              /\ \E i \in DOMAIN rest : rest[i].op = "announce" /\ j < i
    /\ c.op \in {"claimPin", "announce"} => RestoreCalls(rest) = {}
    /\ open /\ c.op = "announce" => Wipers(rest) = {}
    /\ ~open /\ c.op = "announce" => Wipers(rest) # {}
    /\ open => c.op \notin {"releasePin", "claimPin"}
    /\ c.op = "claimPin" =>
          \A j \in DOMAIN rest : rest[j].op = "withdraw"

LEMMA TailOrder ==
    ASSUME NEW cs \in Seq(Calls), cs # <<>>, NEW open, NEW d,
           OneRestore(cs), CallOrder(cs, open, d),
           NEW rest, rest = Tail(cs)
    PROVE  /\ OneRestore(rest) /\ rest \in Seq(Calls)
           /\ TailIs(Head(cs), rest, open, d)
<1>1. /\ 1 \in DOMAIN cs /\ cs[1] = Head(cs) /\ rest \in Seq(Calls)
      /\ \A i \in DOMAIN rest :
            i \in Nat /\ i + 1 \in DOMAIN cs /\ rest[i] = cs[i + 1]
      /\ \A j \in DOMAIN cs :
            /\ j \in Nat /\ j >= 1
            /\ j # 1 => j - 1 \in DOMAIN rest /\ rest[j - 1] = cs[j]
  BY TailAt
<1>2. /\ \A i \in RestoreCalls(rest) : i \in Nat /\ i + 1 \in RestoreCalls(cs)
      /\ \A i \in Wipers(rest) : i \in Nat /\ i + 1 \in Wipers(cs)
      /\ \A j \in Wipers(cs) : j \in Nat /\ (j # 1 => j - 1 \in Wipers(rest))
  BY <1>1 DEF RestoreCalls, Wipers
<1>3. OneRestore(rest)
  BY <1>2 DEF OneRestore
<1>4. \A i \in DOMAIN rest :
          /\ rest[i].discoverable = d
          /\ rest[i].op \in {"withdraw", "announce"} => d = TRUE
  BY <1>1 DEF CallOrder
<1>5. \A i \in DOMAIN rest : rest[i].op = "claimPin" =>
          /\ ~open
          /\ \A j \in DOMAIN rest : j > i => rest[j].op = "withdraw"
  <2> SUFFICES ASSUME NEW i \in DOMAIN rest, rest[i].op = "claimPin"
               PROVE  /\ ~open
                      /\ \A j \in DOMAIN rest : j > i => rest[j].op = "withdraw"
    OBVIOUS
  <2>1. i + 1 \in DOMAIN cs /\ cs[i + 1].op = "claimPin" /\ i \in Nat
    BY <1>1
  <2>2. ~open /\ \A j \in DOMAIN cs : j > i + 1 => cs[j].op = "withdraw"
    BY <2>1 DEF CallOrder
  <2>3. ASSUME NEW j \in DOMAIN rest, j > i PROVE rest[j].op = "withdraw"
    <3>1. j + 1 \in DOMAIN cs /\ j + 1 > i + 1 /\ rest[j] = cs[j + 1]
      BY <1>1, <2>1, <2>3
    <3>2. QED
      BY <2>2, <3>1
  <2>4. QED
    BY <2>2, <2>3
<1>6. ASSUME ~open, NEW i \in DOMAIN rest, rest[i].op = "announce"
      PROVE  \E j \in Wipers(rest) : i < j
  <2>1. i + 1 \in DOMAIN cs /\ cs[i + 1].op = "announce" /\ i \in Nat
    BY <1>1, <1>6
  <2>2. PICK j \in Wipers(cs) : i + 1 < j
    BY <1>6, <2>1 DEF CallOrder
  <2>3. j - 1 \in Wipers(rest) /\ i < j - 1
    BY <1>2, <2>1, <2>2
  <2>4. QED
    BY <2>3
<1>7. ASSUME open, Head(cs).op # "announce", NEW j \in Wipers(rest)
      PROVE  /\ rest[j].op = "withdraw"
             /\ \E i \in DOMAIN rest : rest[i].op = "announce" /\ j < i
  <2>1. j + 1 \in Wipers(cs) /\ j \in Nat /\ rest[j] = cs[j + 1]
    BY <1>1, <1>2 DEF Wipers
  <2>2. PICK i \in DOMAIN cs : cs[i].op = "announce" /\ j + 1 < i
    BY <1>7, <2>1 DEF CallOrder
  <2>3. i - 1 \in DOMAIN rest /\ rest[i - 1].op = "announce" /\ j < i - 1
    BY <1>1, <1>7, <2>1, <2>2
  <2>4. rest[j].op = "withdraw"
    BY <1>7, <2>1 DEF CallOrder
  <2>5. QED
    BY <2>3, <2>4
<1>8. Head(cs).op \in {"claimPin", "announce"} =>
          RestoreCalls(rest) = {} /\ 1 \in RestoreCalls(cs)
  <2>1. ASSUME Head(cs).op \in {"claimPin", "announce"}, NEW i \in RestoreCalls(rest)
        PROVE  FALSE
    <3>1. 1 \in RestoreCalls(cs) /\ i + 1 \in RestoreCalls(cs) /\ i \in Nat
      BY <1>1, <1>2, <2>1 DEF RestoreCalls
    <3>2. 1 = i + 1 /\ i >= 1
      BY <1>1, <3>1, <2>1 DEF OneRestore, RestoreCalls
    <3>3. QED
      BY <3>1, <3>2
  <2>2. QED
    BY <1>1, <2>1 DEF RestoreCalls
<1>9. ASSUME open, Head(cs).op = "announce", NEW j \in Wipers(rest)
      PROVE  FALSE
  <2>1. j + 1 \in Wipers(cs) /\ j \in Nat
    BY <1>2
  <2>2. PICK i \in DOMAIN cs : cs[i].op = "announce" /\ j + 1 < i
    BY <1>9, <2>1 DEF CallOrder
  <2>3. i \in RestoreCalls(cs) /\ i \in Nat
    BY <1>1, <2>2 DEF RestoreCalls
  <2>4. i = 1
    BY <1>8, <1>9, <2>3 DEF OneRestore
  <2>5. QED
    BY <2>1, <2>2, <2>4
<1>10. ~open /\ Head(cs).op = "announce" => Wipers(rest) # {}
  <2> SUFFICES ASSUME ~open, Head(cs).op = "announce" PROVE Wipers(rest) # {}
    OBVIOUS
  <2>1. PICK j \in Wipers(cs) : 1 < j
    BY <1>1 DEF CallOrder
  <2>2. QED
    BY <1>2, <2>1
<1>11. open => Head(cs).op \notin {"releasePin", "claimPin"}
  BY <1>1 DEF CallOrder, Wipers
<1>12. ASSUME Head(cs).op = "claimPin", NEW j \in DOMAIN rest
       PROVE  rest[j].op = "withdraw"
  <2>1. j + 1 \in DOMAIN cs /\ j + 1 > 1 /\ rest[j] = cs[j + 1]
    <3>1. j \in Nat /\ j # 0
      BY <1>1, TailAt
    <3>2. QED
      BY <1>1, <3>1
  <2>2. QED
    BY <1>1, <1>12, <2>1 DEF CallOrder
<1>13. /\ Head(cs).discoverable = d
       /\ Head(cs).op \in {"withdraw", "announce"} => d = TRUE
  BY <1>1 DEF CallOrder
<1>14. QED
  BY <1>1, <1>3, <1>4, <1>5, <1>6, <1>7, <1>8, <1>9, <1>10, <1>11, <1>12, <1>13
     DEF TailIs

\* The PIN is given back; closeRoom() goes on if the share is listed.
LEMMA BooksRelease ==
    ASSUME NEW cs \in Seq(Calls), cs # <<>>,
           NEW room, NEW saved, NEW owner \in [Pins -> {"free", "ours", "other"}],
           NEW new, new.pin \in Pins \cup {NoPin}, NEW N,
           Books(cs, room, saved, owner, new, N), RoomOK(room),
           NEW c, c = Head(cs), c.op = "releasePin", new.step # "claimed",
           NEW owner2,
           \A p \in Pins : owner2[p] = "ours" => owner[p] = "ours" /\ p # c.pin,
           NEW w \in Calls, w.op = "withdraw", w.discoverable = c.discoverable,
           NEW ds, NEW saved2,
           \/ c.discoverable /\ saved2 = saved /\ ds = Append(Tail(cs), w)
           \/ ~c.discoverable /\ saved2 = NoRoom /\ ds = Tail(cs)
    PROVE  Books(ds, room, saved2, owner2, new, N) /\ ds \in Seq(Calls)
<1> DEFINE rest == Tail(cs)
           d    == new.discoverable
<1>1. /\ OneRestore(cs) /\ CallOrder(cs, room.open, d)
      /\ SavedOK(saved, room, cs) /\ PinsOK(owner, room, cs, new)
      /\ ListedWhen(N, cs, room.open, d)
  BY DEF Books
<1>2. /\ 1 \in DOMAIN cs /\ cs[1] = c /\ rest \in Seq(Calls) /\ c \in Calls
      /\ \A j \in DOMAIN cs :
            /\ j \in Nat /\ j >= 1
            /\ j # 1 => j - 1 \in DOMAIN rest /\ rest[j - 1] = cs[j]
  BY TailAt
<1>3. /\ OneRestore(rest) /\ c.discoverable = d /\ ~room.open
      /\ \A i \in DOMAIN rest :
            /\ rest[i].discoverable = d
            /\ rest[i].op \in {"withdraw", "announce"} => d = TRUE
            /\ rest[i].op = "claimPin" =>
                  \A j \in DOMAIN rest : j > i => rest[j].op = "withdraw"
            /\ rest[i].op = "announce" => \E j \in Wipers(rest) : i < j
  <2>1. TailIs(c, rest, room.open, d) /\ OneRestore(rest)
    BY <1>1, TailOrder
  <2>2. QED
    BY <2>1 DEF TailIs
<1>4. /\ w \in Calls /\ w.op = "withdraw" /\ w.discoverable = c.discoverable
      /\ c.discoverable \in BOOLEAN /\ c.pin \in Pins
  BY <1>2, CallTypes
<1>5. /\ \A i \in DOMAIN rest : i \in DOMAIN ds /\ ds[i] = rest[i] /\ i \in Nat
      /\ \A i \in DOMAIN ds : i \in DOMAIN rest \/
            (/\ c.discoverable /\ ds[i] = w
             /\ \A j \in DOMAIN rest : j < i)
      /\ c.discoverable => \E i \in DOMAIN ds : ds[i] = w
      /\ ~c.discoverable => ds = rest /\ saved2 = NoRoom
      /\ ds \in Seq(Calls)
  <2>1. CASE c.discoverable
    <3>1. ds = Append(rest, w)
      BY <2>1
    <3> HIDE DEF rest
    <3>2. ds \in Seq(Calls) /\ Grown(rest, ds, w)
      BY <1>2, <1>4, <3>1, AppendAt
    <3>3. PICK n \in Nat \ DOMAIN rest :
              /\ DOMAIN ds = DOMAIN rest \cup {n} /\ ds[n] = w
              /\ \A i \in DOMAIN rest : i \in Nat /\ i < n /\ ds[i] = rest[i]
      BY <3>2 DEF Grown
    <3>4. QED
      BY <2>1, <3>2, <3>3
  <2>2. CASE ~c.discoverable
    BY <1>2, <2>2, TailAt
  <2>3. QED
    BY <2>1, <2>2
<1> HIDE DEF rest
<1>6. RestoreCalls(ds) = RestoreCalls(rest) /\ OneRestore(ds)
  <2>1. RestoreCalls(ds) = RestoreCalls(rest)
    BY <1>4, <1>5 DEF RestoreCalls
  <2>2. QED
    BY <1>3, <1>5, <2>1 DEF OneRestore, RestoreCalls
<1>7. /\ \A j \in Wipers(rest) : j \in Wipers(ds)
      /\ c.discoverable => Wipers(ds) # {}
  BY <1>4, <1>5 DEF Wipers
<1>8. CallOrder(ds, room.open, d)
  <2>1. ASSUME NEW i \in DOMAIN ds
        PROVE  /\ ds[i].discoverable = d
               /\ ds[i].op \in {"withdraw", "announce"} => d = TRUE
               /\ ds[i].op = "claimPin" =>
                     \A j \in DOMAIN ds : j > i => ds[j].op = "withdraw"
               /\ ds[i].op = "announce" => \E j \in Wipers(ds) : i < j
    <3>1. CASE i \in DOMAIN rest
      BY <1>3, <1>4, <1>5, <1>7, <3>1
    <3>2. CASE i \notin DOMAIN rest
      BY <1>3, <1>4, <1>5, <3>2
    <3>3. QED
      BY <3>1, <3>2
  <2>2. QED
    BY <1>3, <2>1 DEF CallOrder
<1>9. PinsOK(owner2, room, ds, new)
  <2> SUFFICES ASSUME NEW p \in Pins, owner2[p] = "ours"
               PROVE  \E i \in DOMAIN ds : ds[i].op = "releasePin" /\ ds[i].pin = p
    BY <1>3 DEF PinsOK
  <2>1. owner[p] = "ours" /\ p # c.pin
    BY <1>4
  <2>2. PICK i \in DOMAIN cs : cs[i].op = "releasePin" /\ cs[i].pin = p
    BY <1>1, <1>3, <2>1 DEF PinsOK
  <2>3. i - 1 \in DOMAIN rest /\ rest[i - 1] = cs[i]
    BY <1>2, <2>1, <2>2
  <2>4. QED
    BY <1>5, <2>2, <2>3
<1>10. SavedOK(saved2, room, ds)
  BY <1>3, <1>5, <1>7 DEF SavedOK, RoomOK
<1>11. ListedWhen(N, ds, room.open, d)
  <2>1. N # {} => d = TRUE /\ Wipers(ds) # {}
    BY <1>1, <1>3, <1>7 DEF ListedWhen
  <2>2. ASSUME NEW i \in DOMAIN ds, ds[i].op = "announce", N # {}
        PROVE  \E j \in DOMAIN ds : j < i /\ ds[j].op = "withdraw"
    <3>1. i \in DOMAIN rest /\ rest[i].op = "announce" /\ i \in Nat
      BY <1>4, <1>5, <2>2
    <3>2. i + 1 \in DOMAIN cs /\ cs[i + 1].op = "announce"
      BY <3>1, TailAt DEF rest
    <3>3. PICK j \in DOMAIN cs : j < i + 1 /\ cs[j].op = "withdraw"
      BY <1>1, <2>2, <3>2 DEF ListedWhen
    <3>4. j - 1 \in DOMAIN rest /\ rest[j - 1] = cs[j] /\ j - 1 < i
      BY <1>2, <3>1, <3>3
    <3>5. QED
      BY <1>5, <3>3, <3>4
  <2>3. QED
    BY <1>3, <2>1, <2>2 DEF ListedWhen
<1>12. QED
  BY <1>3, <1>5, <1>6, <1>8, <1>9, <1>10, <1>11 DEF Books

\* The share is listed no longer; nothing is left in storage.
LEMMA BooksWithdraw ==
    ASSUME NEW cs \in Seq(Calls), cs # <<>>,
           NEW room, NEW saved, NEW owner, NEW new, NEW N,
           Books(cs, room, saved, owner, new, N), RoomOK(room),
           NEW c, c = Head(cs), c.op = "withdraw",
           NEW ds, ds = Tail(cs)
    PROVE  Books(ds, room, NoRoom, owner, new, {})
<1> DEFINE d == new.discoverable
<1>1. /\ OneRestore(cs) /\ CallOrder(cs, room.open, d)
      /\ PinsOK(owner, room, cs, new)
  BY DEF Books
<1>2. /\ 1 \in DOMAIN cs /\ cs[1] = c
      /\ \A j \in DOMAIN cs :
            /\ j \in Nat /\ j >= 1
            /\ j # 1 => j - 1 \in DOMAIN ds /\ ds[j - 1] = cs[j]
  BY TailAt
<1>3. OneRestore(ds)
  BY <1>1, TailOrder
<1>4. CallOrder(ds, room.open, d)
  <2>1. TailIs(c, ds, room.open, d)
    BY <1>1, TailOrder
  <2>2. QED
    BY <2>1 DEF CallOrder, TailIs
<1>5. PinsOK(owner, room, ds, new)
  <2>1. \A p : (\E i \in DOMAIN cs : cs[i].op = "releasePin" /\ cs[i].pin = p)
            => \E i \in DOMAIN ds : ds[i].op = "releasePin" /\ ds[i].pin = p
    BY <1>2
  <2>2. QED
    BY <1>1, <2>1 DEF PinsOK
<1>6. SavedOK(NoRoom, room, ds)
  <2>1. CASE ~room.open
    BY <2>1 DEF SavedOK, RoomOK
  <2>2. CASE room.open
    <3>1. 1 \in Wipers(cs)
      BY <1>2 DEF Wipers
    <3>2. PICK i \in DOMAIN cs : cs[i].op = "announce" /\ 1 < i
      BY <1>1, <2>2, <3>1 DEF CallOrder
    <3>3. i - 1 \in DOMAIN ds /\ ds[i - 1] = cs[i]
      BY <1>2, <3>2
    <3>4. QED
      BY <2>2, <3>2, <3>3 DEF SavedOK
  <2>3. QED
    BY <2>1, <2>2
<1>7. ListedWhen({}, ds, room.open, d)
  BY DEF ListedWhen
<1>8. QED
  BY <1>3, <1>4, <1>5, <1>6, <1>7 DEF Books

\* A PIN is claimed: the room is open again, and may have to be listed.
Claiming(cs, owner, pin, owner2, room2, a, ds) ==
    /\ cs # <<>> /\ Head(cs).op = "claimPin"
    /\ owner2[pin] = "ours"
    /\ \A p \in Pins : owner2[p] = "ours" => owner[p] = "ours" \/ p = pin
    /\ room2.open = TRUE /\ room2.pin = pin
    /\ room2.discoverable = Head(cs).discoverable
    /\ a.op = "announce" /\ a.discoverable = Head(cs).discoverable
    /\ \/ Head(cs).discoverable /\ ds = Append(Tail(cs), a)
       \/ ~Head(cs).discoverable /\ ds = Tail(cs)

LEMMA BooksClaim ==
    ASSUME NEW cs \in Seq(Calls), NEW room, NEW saved,
           NEW owner \in [Pins -> {"free", "ours", "other"}],
           NEW new, NEW N, NEW pin \in Pins, NEW owner2, NEW room2,
           NEW a \in Calls, NEW ds,
           Books(cs, room, saved, owner, new, N), new.step = "done",
           Claiming(cs, owner, pin, owner2, room2, a, ds)
    PROVE  /\ Books(ds, room2, room2, owner2, new, N) /\ ds \in Seq(Calls)
           /\ ~room.open
<1> USE DEF Claiming
<1> DEFINE rest == Tail(cs)
           d    == new.discoverable
<1>1. /\ OneRestore(cs) /\ CallOrder(cs, room.open, d)
      /\ PinsOK(owner, room, cs, new)
      /\ ListedWhen(N, cs, room.open, d)
  BY DEF Books
<1>2. /\ 1 \in DOMAIN cs /\ cs[1] = Head(cs) /\ rest \in Seq(Calls) /\ Head(cs) \in Calls
      /\ \A j \in DOMAIN cs :
            /\ j \in Nat /\ j >= 1
            /\ j # 1 => j - 1 \in DOMAIN rest /\ rest[j - 1] = cs[j]
  BY TailAt
<1>3. /\ Head(cs).discoverable = d /\ ~room.open /\ RestoreCalls(rest) = {}
      /\ \A i \in DOMAIN rest :
            /\ rest[i].discoverable = d
            /\ rest[i].op = "withdraw" /\ d = TRUE
  <2>1. TailIs(Head(cs), rest, room.open, d)
    BY <1>1, TailOrder
  <2>2. QED
    BY <1>2, <2>1 DEF TailIs
<1>4. /\ a \in Calls /\ a.op = "announce" /\ a.discoverable = Head(cs).discoverable
      /\ Head(cs).discoverable \in BOOLEAN
  BY <1>2, CallTypes
<1>5. \/ Head(cs).discoverable /\ ds = Append(rest, a)
      \/ ~Head(cs).discoverable /\ ds = rest
  OBVIOUS
<1> HIDE DEF rest
<1>6. PinsOK(owner2, room2, ds, new)
  <2> SUFFICES ASSUME NEW p \in Pins, owner2[p] = "ours", p # pin
               PROVE  new.step = "claimed" /\ p = new.pin
    BY <1>1 DEF PinsOK
  <2>1. owner[p] = "ours"
    OBVIOUS
  <2>2. \A i \in DOMAIN cs : cs[i].op # "releasePin"
    BY <1>2, <1>3
  <2>3. QED
    BY <1>1, <1>3, <2>1, <2>2 DEF PinsOK
<1>7. SavedOK(room2, room2, ds)
  BY DEF SavedOK
<1>8. CASE ~Head(cs).discoverable
  <2>1. ds = rest /\ DOMAIN rest = {}
    BY <1>3, <1>4, <1>5, <1>8
  <2>2. /\ OneRestore(ds) /\ CallOrder(ds, TRUE, d)
    BY <2>1 DEF OneRestore, RestoreCalls, CallOrder, Wipers
  <2>3. ListedWhen(N, ds, TRUE, d)
    BY <1>1, <2>1 DEF ListedWhen
  <2>4. QED
    BY <1>2, <1>3, <1>6, <1>7, <2>1, <2>2, <2>3 DEF Books
<1>9. CASE Head(cs).discoverable
  <2>1. ds = Append(rest, a) /\ d = TRUE
    BY <1>3, <1>4, <1>5, <1>9
  <2>2. ds \in Seq(Calls) /\ Grown(rest, ds, a)
    BY <1>2, <1>4, <2>1, AppendAt
  <2>3. PICK n \in Nat \ DOMAIN rest :
            /\ DOMAIN ds = DOMAIN rest \cup {n} /\ ds[n] = a
            /\ \A i \in DOMAIN rest : i \in Nat /\ i < n /\ ds[i] = rest[i]
    BY <2>2 DEF Grown
  <2>4. OneRestore(ds)
    BY <1>3, <2>3 DEF OneRestore, RestoreCalls
  <2>5. CallOrder(ds, TRUE, d)
    <3>1. ASSUME NEW i \in DOMAIN ds
          PROVE  /\ ds[i].discoverable = d
                 /\ (ds[i].op = "withdraw" /\ i < n) \/ ds[i].op = "announce"
      BY <1>3, <1>4, <2>3
    <3>2. QED
      BY <1>4, <2>1, <2>3, <3>1 DEF CallOrder, Wipers
  <2>6. ListedWhen(N, ds, TRUE, d)
    <3>1. ASSUME NEW i \in DOMAIN ds, ds[i].op = "announce", N # {}
          PROVE  \E j \in DOMAIN ds : j < i /\ ds[j].op = "withdraw"
      <4>1. i = n
        BY <1>3, <2>3, <3>1
      <4>2. PICK j \in Wipers(cs) : TRUE
        BY <1>1, <1>3, <3>1 DEF ListedWhen
      <4>3. j \in DOMAIN cs /\ j # 1
        BY <1>2 DEF Wipers
      <4>4. j - 1 \in DOMAIN rest
        BY <1>2, <4>3
      <4>5. QED
        BY <1>3, <2>3, <4>1, <4>4
    <3>2. QED
      BY <2>1, <3>1 DEF ListedWhen
  <2>7. QED
    BY <1>3, <1>6, <1>7, <2>2, <2>4, <2>5, <2>6 DEF Books
<1>10. QED
  BY <1>8, <1>9

\* The share is listed again, and restore() goes on: the room is open, or was
\* closed meanwhile.
Listing(cs, room, saved, room2, saved2, ds) ==
    /\ cs # <<>> /\ Head(cs).op = "announce" /\ ds = Tail(cs)
    /\ room.open \in BOOLEAN
    /\ room2.open = room.open /\ room2.pin = room.pin
    /\ room2.discoverable = room.discoverable
    /\ \/ saved2 = room2
       \/ ~room.open /\ saved2 = saved /\ room2 = room

LEMMA BooksAnnounce ==
    ASSUME NEW cs \in Seq(Calls), NEW room, NEW saved, NEW owner, NEW new,
           NEW N, NEW room2, NEW saved2, NEW ds, NEW K,
           Books(cs, room, saved, owner, new, N),
           Listing(cs, room, saved, room2, saved2, ds)
    PROVE  N = {} /\ Books(ds, room2, saved2, owner, new, K)
<1> DEFINE d == new.discoverable
<1> USE DEF Listing
<1>1. /\ OneRestore(cs) /\ CallOrder(cs, room.open, d)
      /\ PinsOK(owner, room, cs, new) /\ SavedOK(saved, room, cs)
      /\ ListedWhen(N, cs, room.open, d)
      /\ room.open => room.discoverable = new.discoverable
  BY DEF Books
<1>2. /\ 1 \in DOMAIN cs /\ cs[1] = Head(cs)
      /\ \A j \in DOMAIN cs :
            /\ j \in Nat /\ j >= 1
            /\ j # 1 => j - 1 \in DOMAIN ds /\ ds[j - 1] = cs[j]
  BY TailAt
<1>3. TailIs(Head(cs), ds, room.open, d) /\ OneRestore(ds)
  BY <1>1, TailOrder
<1>4. /\ d = TRUE /\ RestoreCalls(ds) = {}
      /\ room.open => Wipers(ds) = {}
      /\ ~room.open => Wipers(ds) # {}
  BY <1>3 DEF TailIs
<1>5. \A i \in DOMAIN ds : ds[i].op \notin {"claimPin", "announce"}
  BY <1>4 DEF RestoreCalls
<1>6. N = {}
  <2>1. ~ \E j \in DOMAIN cs : j < 1
    BY <1>2
  <2>2. QED
    BY <1>1, <1>2, <2>1 DEF ListedWhen
<1>7. CallOrder(ds, room.open, d)
  BY <1>3, <1>4, <1>5 DEF TailIs, CallOrder
<1>8. PinsOK(owner, room2, ds, new)
  <2>1. \A p : (\E i \in DOMAIN cs : cs[i].op = "releasePin" /\ cs[i].pin = p)
            => \E i \in DOMAIN ds : ds[i].op = "releasePin" /\ ds[i].pin = p
    BY <1>2
  <2>2. QED
    BY <1>1, <2>1 DEF PinsOK
<1>9. SavedOK(saved2, room2, ds)
  BY <1>4 DEF SavedOK
<1>10. ListedWhen(K, ds, room.open, d)
  BY <1>4, <1>5 DEF ListedWhen
<1>11. QED
  BY <1>1, <1>3, <1>6, <1>7, <1>8, <1>9, <1>10 DEF Books

\* POST /api/rooms: nothing else happens to the share meanwhile.
LEMMA BooksEmpty ==
    ASSUME NEW cs, cs = <<>>
    PROVE  /\ DOMAIN cs = {} /\ RestoreCalls(cs) = {} /\ Wipers(cs) = {}
           /\ OneRestore(cs) /\ \A open, d : CallOrder(cs, open, d)
<1>1. DOMAIN cs = {} /\ RestoreCalls(cs) = {} /\ Wipers(cs) = {}
  BY EmptySeq DEF RestoreCalls, Wipers
<1>2. QED
  BY <1>1 DEF OneRestore, CallOrder

LEMMA BooksClaimed ==
    ASSUME NEW room, NEW saved, NEW owner \in [Pins -> {"free", "ours", "other"}],
           NEW new, NEW N, NEW cs, cs = <<>>, N = {},
           Books(cs, room, saved, owner, new, N), ~room.open, new.step = "new",
           NEW pin \in Pins, NEW owner2, owner2 = [owner EXCEPT ![pin] = "ours"],
           NEW new2, new2.pin = pin, new2.step = "claimed"
    PROVE  Books(cs, room, saved, owner2, new2, N)
<1>1. /\ PinsOK(owner, room, cs, new) /\ SavedOK(saved, room, cs)
  BY DEF Books
<1>2. PinsOK(owner2, room, cs, new2)
  BY <1>1, BooksEmpty DEF PinsOK
<1>3. ListedWhen(N, cs, room.open, new2.discoverable)
  BY BooksEmpty DEF ListedWhen
<1>4. QED
  BY <1>1, <1>2, <1>3, BooksEmpty DEF Books

LEMMA BooksInited ==
    ASSUME NEW room, NEW saved, NEW owner, NEW new, NEW N, NEW cs, cs = <<>>,
           N = {}, Books(cs, room, saved, owner, new, N), ~room.open,
           new.step = "claimed",
           NEW room2, room2.open = TRUE, room2.pin = new.pin,
           room2.discoverable = new.discoverable,
           NEW new2, new2.step = "inited", new2.discoverable = new.discoverable
    PROVE  Books(cs, room2, room2, owner, new2, N)
<1>1. PinsOK(owner, room, cs, new)
  BY DEF Books
<1>2. PinsOK(owner, room2, cs, new2)
  BY <1>1, BooksEmpty DEF PinsOK
<1>3. ListedWhen(N, cs, room2.open, new2.discoverable) /\ SavedOK(room2, room2, cs)
  BY BooksEmpty DEF ListedWhen, SavedOK
<1>4. QED
  BY <1>2, <1>3, BooksEmpty DEF Books

LEMMA BooksListed ==
    ASSUME NEW room, NEW saved, NEW owner, NEW new, NEW N, NEW cs, cs = <<>>,
           Books(cs, room, saved, owner, new, N), room.open,
           new.step = "inited",
           NEW new2, new2.step = "done", new2.discoverable = new.discoverable,
           NEW N2, N2 # {} => new.discoverable = TRUE
    PROVE  Books(cs, room, saved, owner, new2, N2)
<1>1. /\ PinsOK(owner, room, cs, new) /\ SavedOK(saved, room, cs)
      /\ room.discoverable = new.discoverable
  BY DEF Books
<1>2. PinsOK(owner, room, cs, new2)
  BY <1>1 DEF PinsOK
<1>3. ListedWhen(N2, cs, room.open, new2.discoverable)
  BY BooksEmpty DEF ListedWhen
<1>4. QED
  BY <1>1, <1>2, <1>3, BooksEmpty DEF Books

-----------------------------------------------------------------------------
(* Steps that make no sender of a websocket, and take none from the room. *)

Milder(k, k2) ==
    /\ k2.role = "master" => k.role = "master"
    /\ k.role = "master" /\ k.server # "gone" => k2.role = "master"
    /\ k2.server = "open" => k.server = "open"
    /\ k2.server = "gone" <=> k.server = "gone"
    /\ k2.role = "master" => \A w \in Welcomes : Holds(k2, w) => Holds(k, w)
    /\ \A i \in DOMAIN k2.toServer : k2.toServer[i].t = "auth" =>
          \E j \in DOMAIN k.toServer : k.toServer[j] = k2.toServer[i]

AllMild(sk, sk2) == \A s \in Sockets : Milder(sk[s], sk2[s])

LEMMA MildSelf == \A k : Milder(k, k)
BY DEF Milder

LEMMA MildTrans ==
    ASSUME NEW k1, NEW k2, NEW k3, Milder(k1, k2), Milder(k2, k3)
    PROVE  Milder(k1, k3)
BY DEF Milder

LEMMA AllMildTrans ==
    ASSUME NEW sk1, NEW sk2, NEW sk3, AllMild(sk1, sk2), AllMild(sk2, sk3)
    PROVE  AllMild(sk1, sk3)
BY MildTrans DEF AllMild

LEMMA MildSenders ==
    ASSUME NEW sk, NEW sk2, AllMild(sk, sk2), NEW room, NEW d,
           SendersOK(sk, room, d)
    PROVE  SendersOK(sk2, room, d) /\ Masters(sk2) = Masters(sk)
<1>1. ASSUME NEW s \in Sockets
      PROVE  /\ AuthsTrue(sk2[s], d) /\ MasterIn(sk2[s], room)
             /\ s \in Masters(sk2) <=> s \in Masters(sk)
  <2>1. Milder(sk[s], sk2[s]) /\ AuthsTrue(sk[s], d) /\ MasterIn(sk[s], room)
    BY DEF AllMild, SendersOK
  <2>2. AuthsTrue(sk2[s], d)
    BY <2>1 DEF Milder, AuthsTrue
  <2>3. MasterIn(sk2[s], room)
    BY <2>1 DEF Milder, MasterIn
  <2>4. s \in Masters(sk2) <=> s \in Masters(sk)
    BY <2>1 DEF Milder, Masters, Present
  <2>5. QED
    BY <2>2, <2>3, <2>4
<1>2. QED
  BY <1>1 DEF SendersOK, Masters, Present

\* What the room sends and closes.
LEMMA HeardMild ==
    ASSUME NEW k, NEW k2, Heard(k, k2, Plain)
    PROVE  Milder(k, k2)
<1>1. ASSUME NEW w \in Welcomes, Holds(k2, w) PROVE Holds(k, w)
  <2>1. w # NoWelcome /\ w.t = "welcome"
    BY WelcomeTypes
  <2>2. CASE k2.welcome = w
    BY <2>1, <2>2 DEF Heard, Holds
  <2>3. CASE \E i \in DOMAIN k2.toClient : k2.toClient[i] = w
    BY <2>1, <2>3 DEF Heard, Longer, Holds, Plain
  <2>4. QED
    BY <1>1, <2>2, <2>3 DEF Holds
<1>2. QED
  BY <1>1 DEF Heard, Milder

LEMMA SteadyMild ==
    ASSUME NEW sk, NEW sk2, Steady(sk, sk2)
    PROVE  AllMild(sk, sk2)
BY HeardMild DEF Steady, AllMild

\* One websocket changes.
LEMMA OneMild ==
    ASSUME NEW sk \in SockMap, NEW s \in Sockets, NEW k2, Milder(sk[s], k2),
           NEW sk2, sk2 = [sk EXCEPT ![s] = k2]
    PROVE  AllMild(sk, sk2)
<1>1. \A q \in Sockets : sk2[q] = IF q = s THEN k2 ELSE sk[q]
  BY DEF SockMap
<1>2. QED
  BY <1>1, MildSelf DEF AllMild

\* A message is taken from a websocket, by the room or by its page, or its
\* page sends one.
LEMMA TakeMild ==
    ASSUME NEW k \in Socket
    PROVE  /\ k.toServer # <<>> => Milder(k, [k EXCEPT !.toServer = Tail(@)])
           /\ k.toClient # <<>> => Milder(k, [k EXCEPT !.toClient = Tail(@)])
           /\ \A m : m \in ClientMsg /\ m.t # "auth" =>
                 Milder(k, [k EXCEPT !.toServer = Append(@, m)])
           /\ Milder(k, [k EXCEPT !.up = FALSE, !.toServer = <<>>,
                                  !.toClient = <<>>])
<1>1. ASSUME k.toServer # <<>>
      PROVE  Milder(k, [k EXCEPT !.toServer = Tail(@)])
  <2> DEFINE k2 == [k EXCEPT !.toServer = Tail(@)]
  <2>1. /\ k2.toServer = Tail(k.toServer) /\ k2.role = k.role
        /\ k2.server = k.server /\ k2.welcome = k.welcome
        /\ k2.toClient = k.toClient
    BY DEF Socket
  <2>2. k.toServer \in Seq(ClientMsg)
    BY FieldTypes
  <2> HIDE DEF k2
  <2>3. \A i \in DOMAIN k2.toServer :
            i + 1 \in DOMAIN k.toServer /\ k.toServer[i + 1] = k2.toServer[i]
    BY <1>1, <2>1, <2>2, EmptySeq, HeadTailProperties
  <2>4. QED
    BY <2>1, <2>3 DEF Milder, Holds, k2
<1>2. ASSUME k.toClient # <<>>
      PROVE  Milder(k, [k EXCEPT !.toClient = Tail(@)])
  <2> DEFINE k2 == [k EXCEPT !.toClient = Tail(@)]
  <2>1. /\ k2.toClient = Tail(k.toClient) /\ k2.role = k.role
        /\ k2.server = k.server /\ k2.welcome = k.welcome
        /\ k2.toServer = k.toServer
    BY DEF Socket
  <2>2. k.toClient \in Seq(ServerMsg)
    BY FieldTypes
  <2> HIDE DEF k2
  <2>3. \A i \in DOMAIN k2.toClient :
            i + 1 \in DOMAIN k.toClient /\ k.toClient[i + 1] = k2.toClient[i]
    BY <1>2, <2>1, <2>2, EmptySeq, HeadTailProperties
  <2>4. QED
    BY <2>1, <2>3 DEF Milder, Holds, k2
<1>3. ASSUME NEW m \in ClientMsg, m.t # "auth"
      PROVE  Milder(k, [k EXCEPT !.toServer = Append(@, m)])
  <2> DEFINE k2 == [k EXCEPT !.toServer = Append(@, m)]
  <2>1. /\ k2.toServer = Append(k.toServer, m) /\ k2.role = k.role
        /\ k2.server = k.server /\ k2.welcome = k.welcome
        /\ k2.toClient = k.toClient
    BY DEF Socket
  <2>2. k.toServer \in Seq(ClientMsg)
    BY FieldTypes
  <2> HIDE DEF k2
  <2>3. \A i \in DOMAIN k2.toServer :
            \/ k2.toServer[i] = m
            \/ i \in DOMAIN k.toServer /\ k.toServer[i] = k2.toServer[i]
    BY <2>1, <2>2, AppendProperties
  <2>4. QED
    BY <1>3, <2>1, <2>3 DEF Milder, Holds, k2
<1>4. Milder(k, [k EXCEPT !.up = FALSE, !.toServer = <<>>, !.toClient = <<>>])
  <2> DEFINE k2 == [k EXCEPT !.up = FALSE, !.toServer = <<>>, !.toClient = <<>>]
  <2>1. /\ k2.toServer = <<>> /\ k2.role = k.role
        /\ k2.server = k.server /\ k2.welcome = k.welcome
        /\ k2.toClient = <<>>
    BY DEF Socket
  <2> HIDE DEF k2
  <2>2. QED
    BY <2>1, EmptySeq DEF Milder, Holds, k2
<1>5. QED
  BY <1>1, <1>2, <1>3, <1>4

\* A page closes its websocket.
LEMMA HungUpMild ==
    ASSUME NEW sk \in SockMap, NEW s \in Sockets \cup {NoWs},
           NEW sk2, sk2 = HungUp(sk, s)
    PROVE  AllMild(sk, sk2)
<1>1. CASE s = NoWs
  BY <1>1, MildSelf DEF HungUp, AllMild
<1>2. CASE s # NoWs /\ sk[s].server = "gone"
  <2>1. sk2 = [sk EXCEPT ![s] = NoSocket]
    BY <1>2 DEF HungUp
  <2>2. Milder(sk[s], NoSocket)
    BY <1>2, EmptySeq DEF NoSocket, Milder
  <2>3. QED
    BY <1>2, <2>1, <2>2, OneMild
<1>3. CASE s # NoWs /\ sk[s].server # "gone"
  <2>1. PICK k : k = sk[s]
    OBVIOUS
  <2> DEFINE q  == IF k.up THEN Append(k.toServer, Bye) ELSE k.toServer
             k2 == [k EXCEPT !.client = FALSE, !.toClient = <<>>,
                             !.welcome = NoWelcome, !.toServer = q]
  <2>2. sk2 = [sk EXCEPT ![s] = k2]
    BY <1>3, <2>1 DEF HungUp
  <2>3. k \in Socket
    BY <1>3, <2>1 DEF SockMap
  <2>4. k2.role = k.role /\ k2.server = k.server /\ k2.toClient = <<>>
        /\ k2.welcome = NoWelcome /\ k2.toServer = q
    BY <2>3 DEF Socket
  <2>5. \A i \in DOMAIN q : q[i].t = "auth" =>
            i \in DOMAIN k.toServer /\ k.toServer[i] = q[i]
    <3>1. k.toServer \in Seq(ClientMsg) /\ Bye.t # "auth"
      BY <2>3, FieldTypes DEF Bye
    <3>2. QED
      BY <3>1, AppendProperties
  <2> HIDE DEF q, k2
  <2>6. \A w \in Welcomes : ~Holds(k2, w)
    BY <2>4, EmptySeq, WelcomeTypes DEF Holds
  <2>7. Milder(k, k2)
    BY <2>4, <2>5, <2>6 DEF Milder
  <2>8. QED
    BY <1>3, <2>1, <2>2, <2>7, OneMild
<1>4. QED
  BY <1>1, <1>2, <1>3

\* The room no longer has the websocket.
LEMMA GoneSenders ==
    ASSUME sock \in SockMap, NEW s \in Sockets, NEW sk, sk = Gone(s),
           NEW room, NEW d, SendersOK(sock, room, d)
    PROVE  /\ SendersOK(sk, room, d)
           /\ Masters(sk) = Masters(sock) \ {s}
           /\ sk[s].server = "gone"
           /\ \A q \in Sockets : q # s => sk[q] = sock[q]
<1>1. /\ sk[s].server = "gone" /\ sk[s].toServer = <<>>
      /\ \A q \in Sockets : q # s => sk[q] = sock[q]
  BY DEF Gone, SockMap, Socket, NoSocket
<1>2. AuthsTrue(sk[s], d) /\ MasterIn(sk[s], room)
  BY <1>1, EmptySeq DEF AuthsTrue, MasterIn
<1>3. SendersOK(sk, room, d)
  BY <1>1, <1>2 DEF SendersOK
<1>4. Masters(sk) = Masters(sock) \ {s}
  BY <1>1 DEF Masters, Present
<1>5. QED
  BY <1>1, <1>3, <1>4

\* A receiver is welcomed.
LEMMA GreetMild ==
    ASSUME NEW sk \in SockMap, NEW s \in Sockets, sk[s].role # "master",
           NEW w, Greet(sk, s, w)
    PROVE  AllMild(sk, sock')
<1>1. sk[s] \in Socket
  BY DEF SockMap
<1>2. CASE sock' = Tell(sk, {s}, w)
  <2>1. ASSUME NEW q \in Sockets PROVE Milder(sk[q], sock'[q])
    <3>1. CASE q = s
      <4>1. /\ sock'[s].role = sk[s].role /\ sock'[s].server = sk[s].server
            /\ sock'[s].toServer = sk[s].toServer
        BY <1>1, <1>2 DEF Tell, Socket
      <4>2. QED
        BY <3>1, <4>1 DEF Milder
    <3>2. CASE q # s
      BY <1>2, <3>2, MildSelf DEF Tell
    <3>3. QED
      BY <3>1, <3>2
  <2>2. QED
    BY <2>1 DEF AllMild
<1>3. CASE sock' = [sk EXCEPT ![s].welcome = w]
  <2>1. PICK k2 : k2 = [sk[s] EXCEPT !.welcome = w]
    OBVIOUS
  <2>2. sock' = [sk EXCEPT ![s] = k2]
    BY <1>3, <2>1 DEF SockMap
  <2>3. k2.role = sk[s].role /\ k2.server = sk[s].server
        /\ k2.toServer = sk[s].toServer
    BY <1>1, <2>1 DEF Socket
  <2>4. Milder(sk[s], k2)
    BY <2>3 DEF Milder
  <2>5. QED
    BY <2>2, <2>4, OneMild
<1>4. QED
  BY <1>2, <1>3 DEF Greet

LEMMA AuthAsPeerMild ==
    ASSUME NEW sk \in SockMap, NEW s \in Sockets, sk[s].role = "none",
           NEW m, m.resume \in Ids \cup {NoId}, AuthAsPeer(sk, s, m)
    PROVE  AllMild(sk, sock')
<1> DEFINE stale == {p \in Peers(sk) : m.resume # NoId /\ sk[p].peer = m.resume}
<1>1. CASE \E c \in Codes : sock' = Reject(sk, s, c)
  BY <1>1, RejectSteady, SteadyMild
<1>2. CASE \E i \in Ids :
              LET attached == Hang([sk EXCEPT ![s].role = "peer",
                                              ![s].peer = i], stale)
              IN  Greet(Tell(attached, Masters(attached), Join(i)), s,
                        WelcomePeer(i, Masters(attached) # {}))
  <2>1. PICK i \in Ids :
            LET attached == Hang([sk EXCEPT ![s].role = "peer",
                                            ![s].peer = i], stale)
            IN  Greet(Tell(attached, Masters(attached), Join(i)), s,
                      WelcomePeer(i, Masters(attached) # {}))
    BY <1>2
  <2>2. PICK k2 : k2 = [sk[s] EXCEPT !.role = "peer", !.peer = i]
    OBVIOUS
  <2>3. PICK sk1 : sk1 = [sk EXCEPT ![s] = k2]
    OBVIOUS
  <2>4. PICK sk2 : sk2 = Hang(sk1, stale)
    OBVIOUS
  <2>5. PICK sk3 : sk3 = Tell(sk2, Masters(sk2), Join(i))
    OBVIOUS
  <2>6. Greet(sk3, s, WelcomePeer(i, Masters(sk2) # {}))
    <3>1. sk1 = [sk EXCEPT ![s].role = "peer", ![s].peer = i]
      BY <2>2, <2>3 DEF SockMap
    <3> HIDE DEF stale
    <3>2. QED
      BY <2>1, <2>4, <2>5, <3>1
  <2>7. /\ k2 \in Socket /\ k2.role = "peer" /\ k2.server = sk[s].server
        /\ k2.toServer = sk[s].toServer
    <3>1. PICK k : k = sk[s]
      OBVIOUS
    <3>2. k \in Socket /\ k2 = [k EXCEPT !.role = "peer", !.peer = i]
      BY <2>2, <3>1 DEF SockMap
    <3> HIDE DEF stale
    <3>3. k2 \in Socket
      BY <3>2 DEF Socket
    <3>4. k2.role = "peer" /\ k2.server = k.server /\ k2.toServer = k.toServer
      BY <3>2 DEF Socket
    <3>5. QED
      BY <3>1, <3>3, <3>4
  <2>8. Milder(sk[s], k2)
    BY <2>7 DEF Milder
  <2>9. AllMild(sk, sk1) /\ sk1 \in SockMap /\ sk1[s].role = "peer"
    BY <2>3, <2>7, <2>8, OneMild DEF SockMap
  <2> HIDE DEF stale
  <2>10. Steady(sk1, sk2) /\ sk2 \in SockMap
    BY <2>4, <2>9, HangSteady DEF Steady
  <2>11. Steady(sk2, sk3) /\ sk3 \in SockMap
    BY <2>5, <2>10, TellSteady, PlainTypes DEF Steady
  <2>12. sk3[s].role # "master"
    BY <2>9, <2>10, <2>11 DEF Steady, Heard
  <2>13. AllMild(sk3, sock')
    BY <2>6, <2>11, <2>12, GreetMild
  <2>14. AllMild(sk1, sk2) /\ AllMild(sk2, sk3)
    BY <2>10, <2>11, SteadyMild
  <2>15. AllMild(sk, sk2)
    BY <2>9, <2>14, AllMildTrans
  <2>16. AllMild(sk, sk3)
    BY <2>14, <2>15, AllMildTrans
  <2>17. QED
    BY <2>13, <2>16, AllMildTrans
<1>3. m.resume # NoId => m.resume \in Ids
  OBVIOUS
<1>4. QED
  BY <1>1, <1>2, <1>3 DEF AuthAsPeer, Codes

LEMMA CredentialsMild ==
    ASSUME sock \in SockMap, NEW s \in Sockets,
           sock[s].welcome # NoWelcome,
           sock' = Tell([sock EXCEPT ![s].welcome = NoWelcome], {s},
                        sock[s].welcome)
    PROVE  AllMild(sock, sock')
<1> DEFINE k == sock[s]
           w == k.welcome
<1>1. k \in Socket /\ w \in Welcomes
  BY FieldTypes DEF SockMap
<1>2. \A q \in Sockets : q # s => sock'[q] = sock[q]
  BY DEF Tell, SockMap
<1>3. /\ sock'[s].role = k.role /\ sock'[s].server = k.server
      /\ sock'[s].toServer = k.toServer /\ sock'[s].welcome = NoWelcome
      /\ sock'[s].toClient \in {k.toClient, Append(k.toClient, w)}
  BY <1>1 DEF Tell, SockMap, Socket
<1>4. k.toClient \in Seq(ServerMsg) /\ w \in ServerMsg
  BY <1>1, FieldTypes, MessageTypes
<1>5. \A i \in DOMAIN sock'[s].toClient :
          \/ i \in DOMAIN k.toClient /\ sock'[s].toClient[i] = k.toClient[i]
          \/ sock'[s].toClient[i] = w
  <2>1. PICK q, p, v : q = sock'[s].toClient /\ p = k.toClient /\ v = w
    OBVIOUS
  <2> HIDE DEF k, w
  <2>2. p \in Seq(ServerMsg) /\ v \in ServerMsg /\ (q = p \/ q = Append(p, v))
    BY <1>3, <1>4, <2>1
  <2>3. \A i \in DOMAIN q : (i \in DOMAIN p /\ q[i] = p[i]) \/ q[i] = v
    <3>1. CASE q = p
      BY <3>1
    <3>2. CASE q = Append(p, v)
      BY <2>2, <3>2, AppendProperties
    <3>3. QED
      BY <2>2, <3>1, <3>2
  <2>4. QED
    BY <2>1, <2>3
<1> HIDE DEF k
<1>6. Milder(k, sock'[s])
  <2>1. ASSUME NEW v \in Welcomes, Holds(sock'[s], v) PROVE Holds(k, v)
    <3>1. v # NoWelcome
      BY WelcomeTypes
    <3>2. QED
      BY <1>3, <1>5, <2>1, <3>1 DEF Holds
  <2>2. QED
    BY <1>3, <2>1 DEF Milder
<1>7. QED
  BY <1>2, <1>6, MildSelf DEF AllMild, k

-----------------------------------------------------------------------------
(* What the steps of the room have in common. *)

\* No websocket comes back to the room, and none is taken from it.
NoneOpens(sk, sk2) ==
    \A q \in Sockets : sk2[q].server = "open" => sk[q].server = "open"
NoneGoes(sk, sk2) ==
    \A q \in Sockets : sk[q].server # "gone" => sk2[q].server # "gone"

LEMMA MildServers ==
    ASSUME NEW sk, NEW sk2, AllMild(sk, sk2)
    PROVE  NoneOpens(sk, sk2) /\ NoneGoes(sk, sk2)
BY DEF AllMild, Milder, NoneOpens, NoneGoes

LEMMA ServersTrans ==
    ASSUME NEW sk1, NEW sk2, NEW sk3
    PROVE  /\ NoneOpens(sk1, sk2) /\ NoneOpens(sk2, sk3) => NoneOpens(sk1, sk3)
           /\ NoneGoes(sk1, sk2) /\ NoneGoes(sk2, sk3) => NoneGoes(sk1, sk3)
BY DEF NoneOpens, NoneGoes

LEMMA SendersRoom ==
    ASSUME NEW sk, NEW room, NEW d, SendersOK(sk, room, d), NEW room2,
           \/ ~room.open
           \/ room2.open = room.open /\ room2.pin = room.pin
    PROVE  SendersOK(sk, room2, d)
BY DEF SendersOK, MasterIn

\* k2 is k once it has been welcomed with w.
Greeted(k, k2, w) ==
    /\ k2.role = k.role /\ k2.server = k.server /\ k2.toServer = k.toServer
    /\ \A v \in Welcomes : Holds(k2, v) => Holds(k, v) \/ v = w

LEMMA GreetHolds ==
    ASSUME NEW sk \in SockMap, NEW s \in Sockets, NEW w \in Welcomes,
           Greet(sk, s, w)
    PROVE  /\ Greeted(sk[s], sock'[s], w)
           /\ \A q \in Sockets : q # s => sock'[q] = sk[q]
<1>1. PICK k, k2 : k = sk[s] /\ k2 = sock'[s]
  OBVIOUS
<1>2. k \in Socket /\ k.toClient \in Seq(ServerMsg) /\ w \in ServerMsg
  BY <1>1, FieldTypes, MessageTypes DEF SockMap
<1>3. \A q \in Sockets : q # s => sock'[q] = sk[q]
  BY GreetFields
<1>4. \/ k2 = k
      \/ k2 = [k EXCEPT !.toClient = Append(@, w)]
      \/ k2 = [k EXCEPT !.welcome = w]
  BY <1>1 DEF Greet, Tell, SockMap
<1>5. CASE k2 = k
  BY <1>1, <1>3, <1>5 DEF Greeted
<1>6. CASE k2 = [k EXCEPT !.toClient = Append(@, w)]
  <2>1. /\ k2.role = k.role /\ k2.server = k.server
        /\ k2.toServer = k.toServer /\ k2.welcome = k.welcome
        /\ k2.toClient = Append(k.toClient, w)
    BY <1>2, <1>6 DEF Socket
  <2>2. \A i \in DOMAIN k2.toClient :
            \/ i \in DOMAIN k.toClient /\ k2.toClient[i] = k.toClient[i]
            \/ k2.toClient[i] = w
    BY <1>2, <2>1, AppendProperties
  <2>3. QED
    BY <1>1, <1>3, <2>1, <2>2 DEF Greeted, Holds
<1>7. CASE k2 = [k EXCEPT !.welcome = w]
  <2>1. /\ k2.role = k.role /\ k2.server = k.server
        /\ k2.toServer = k.toServer /\ k2.welcome = w
        /\ k2.toClient = k.toClient
    BY <1>2, <1>7 DEF Socket
  <2>2. QED
    BY <1>1, <1>3, <2>1 DEF Greeted, Holds
<1>8. QED
  BY <1>4, <1>5, <1>6, <1>7

\* A socket becomes the sender's.
LEMMA BecomeMasterSenders ==
    ASSUME NEW sk \in SockMap, NEW s \in Sockets, NEW R,
           sk[s].role = "none", Settled(sk[s], s, R),
           NEW room, room.open => room.pin \in Pins,
           ~room.open => sk[s].server # "open",
           NEW d, SendersOK(sk, room, d),
           \A sk2 : Steady(sk, sk2) =>
               PeerIds([sk2 EXCEPT ![s].role = "master"]) \in SUBSET Ids,
           BecomeMaster(sk, s, room)
    PROVE  /\ SendersOK(sock', room, d)
           /\ NoneOpens(sk, sock') /\ NoneGoes(sk, sock')
           /\ room.open /\ sk[s].server # "gone" => Masters(sock') # {}
<1>1. PICK h : h = Hang(sk, Masters(sk) \ {s})
  OBVIOUS
<1>2. Steady(sk, h) /\ h \in SockMap /\ h[s] = sk[s]
  BY <1>1, HangSteady, HangHeard DEF Steady
<1>3. PICK k : k = sk[s]
  OBVIOUS
<1>4. k \in Socket /\ k.role = "none" /\ Settled(k, s, R)
  BY <1>3 DEF SockMap
<1>5. PICK k2 : k2 = [k EXCEPT !.role = "master"]
  OBVIOUS
<1>6. /\ k2 \in Socket /\ k2.role = "master" /\ k2.server = k.server
      /\ k2.toServer = k.toServer /\ k2.toClient = k.toClient
      /\ k2.welcome = k.welcome
  BY <1>4, <1>5, AttachType
<1>7. PICK a : a = [h EXCEPT ![s] = k2]
  OBVIOUS
<1>8. /\ a \in SockMap /\ a[s] = k2
      /\ \A q \in Sockets : q # s => a[q] = h[q]
  BY <1>2, <1>6, <1>7 DEF SockMap
<1>9. a = [h EXCEPT ![s].role = "master"]
  BY <1>2, <1>3, <1>5, <1>7
<1>10. SendersOK(h, room, d) /\ NoneOpens(sk, h) /\ NoneGoes(sk, h)
  BY <1>2, SteadyMild, MildSenders, MildServers
<1>11. \A w \in Welcomes : ~Holds(k2, w)
  BY <1>4, <1>6, WelcomeTypes DEF Settled, HasWelcome, Holds
<1>12. AuthsTrue(k2, d) /\ MasterIn(k2, room)
  <2>1. AuthsTrue(k, d)
    BY <1>3 DEF SendersOK
  <2>2. AuthsTrue(k2, d)
    BY <1>6, <2>1 DEF AuthsTrue
  <2>3. k2.server = "open" => room.open
    BY <1>3, <1>6
  <2>4. QED
    BY <1>11, <2>2, <2>3 DEF MasterIn
<1>13. SendersOK(a, room, d)
  BY <1>8, <1>10, <1>12 DEF SendersOK
<1>14. NoneOpens(sk, a) /\ NoneGoes(sk, a)
  BY <1>2, <1>3, <1>6, <1>8, <1>10 DEF NoneOpens, NoneGoes
<1>15. CASE ~room.open
  <2>1. sock' = a
    BY <1>1, <1>9, <1>15 DEF BecomeMaster
  <2>2. QED
    BY <1>13, <1>14, <1>15, <2>1
<1>16. CASE room.open
  <2>1. PICK t, w : /\ t = Tell(a, Peers(a), Master(TRUE))
                   /\ w = WelcomeMaster(PeerIds(a), room.pin)
    OBVIOUS
  <2>2. Greet(t, s, w)
    BY <1>1, <1>9, <1>16, <2>1 DEF BecomeMaster
  <2>3. Steady(a, t) /\ t \in SockMap
    BY <1>8, <2>1, TellSteady, PlainTypes DEF Steady
  <2>4. w \in Welcomes /\ w.pin = room.pin
    <3>1. PeerIds(a) \in SUBSET Ids
      BY <1>2, <1>9
    <3>2. QED
      BY <1>16, <2>1, <3>1, WelcomeTypes DEF WelcomeMaster
  <2>5. SendersOK(t, room, d) /\ NoneOpens(a, t) /\ NoneGoes(a, t)
    BY <1>13, <2>3, SteadyMild, MildSenders, MildServers
  <2>6. Greeted(t[s], sock'[s], w) /\ \A q \in Sockets : q # s => sock'[q] = t[q]
    BY <2>2, <2>3, <2>4, GreetHolds
  <2>7. t[s].role = "master" /\ (t[s].server = "gone" <=> k.server = "gone")
    BY <1>6, <1>8, <2>3 DEF Steady, Heard
  <2>8. AuthsTrue(sock'[s], d) /\ MasterIn(sock'[s], room)
    <3>1. AuthsTrue(t[s], d) /\ MasterIn(t[s], room)
      BY <2>5 DEF SendersOK
    <3>2. AuthsTrue(sock'[s], d)
      BY <2>6, <3>1 DEF AuthsTrue, Greeted
    <3>3. \A v \in Welcomes : Holds(sock'[s], v) => Holds(t[s], v) \/ v = w
      BY <2>6, WelcomeTypes DEF Greeted
    <3>4. QED
      BY <1>16, <2>4, <2>6, <3>1, <3>2, <3>3 DEF MasterIn, Greeted
  <2>9. SendersOK(sock', room, d)
    BY <2>5, <2>6, <2>8 DEF SendersOK
  <2>10. NoneOpens(t, sock') /\ NoneGoes(t, sock')
    BY <2>6 DEF NoneOpens, NoneGoes, Greeted
  <2>11. NoneOpens(sk, sock') /\ NoneGoes(sk, sock')
    BY <1>14, <2>5, <2>10, ServersTrans
  <2>12. sk[s].server # "gone" => s \in Masters(sock')
    BY <1>3, <2>6, <2>7 DEF Masters, Present, Greeted
  <2>13. QED
    BY <2>9, <2>11, <2>12
<1>17. QED
  BY <1>15, <1>16

\* The receivers a sender is welcomed with.
LEMMA WelcomedWith ==
    ASSUME NEW sk, NEW given \in SUBSET Ids, NEW R, NEW W, NEW st,
           SocksInv(sk, given, R, W, st), NEW s \in Sockets,
           NEW sk2, Steady(sk, sk2)
    PROVE  PeerIds([sk2 EXCEPT ![s].role = "master"]) \in SUBSET Ids
<1>1. PICK a : a = [sk2 EXCEPT ![s].role = "master"]
  OBVIOUS
<1>2. \A q \in Sockets : a[q].role = "peer" =>
          sk2[q].role = "peer" /\ a[q].peer = sk2[q].peer
  BY <1>1 DEF Steady, SockMap, Socket
<1>3. \A q \in Sockets : sk2[q].role = "peer" => sk2[q].peer \in Ids
  BY DEF SocksInv, SockOK, Steady, Heard
<1>4. QED
  BY <1>1, <1>2, <1>3 DEF PeerIds, Peers, Present

-----------------------------------------------------------------------------
(* Steps of the room: what is left to show. *)

\* What only the directory and the request that creates the room touch.
Untouched == UNCHANGED <<pageVars, creating, directoryVars>>

LEMMA EarlyKept ==
    ASSUME Early, creating.step = "done", UNCHANGED <<creating, status, shown>>,
           shown = NoPin =>
               /\ UNCHANGED sock
               /\ RestoreCalls(calls) = {} => RestoreCalls(calls') = {}
    PROVE  Early'
BY DEF Early

\* Once there is a websocket, the sender's page shows a PIN.
LEMMA Begun ==
    ASSUME Early, NEW s \in Sockets, sock[s] # NoSocket
    PROVE  shown # NoPin /\ creating.step = "done"
BY DEF Early

LEMMA ShownKept ==
    ASSUME FullInv, UNCHANGED pageVars, NoneOpens(sock, sock'),
           \/ meta.open => meta'.pin = meta.pin
           \/ \A q \in Sockets : sock'[q].server # "open"
    PROVE  ShownOK(sock', ws'[Sender], status'[Sender], shown', meta')
<1>1. /\ ws' = ws /\ status' = status /\ shown' = shown
      /\ ws[Sender] \in Sockets \cup {NoWs} /\ Sender \in Pages
  BY InvParts DEF pageVars, FullInv, Pages
<1> SUFFICES ASSUME ws[Sender] # NoWs, status[Sender] = "open",
                    sock'[ws[Sender]].server = "open"
             PROVE  shown = meta'.pin
  BY <1>1 DEF ShownOK
<1>2. PICK s \in Sockets : s = ws[Sender]
  BY <1>1
<1>3. sock[s].server = "open" /\ shown = meta.pin
  BY <1>2 DEF NoneOpens, FullInv, BooksInv, ShownOK
<1>4. sock[s].role = "master"
  BY <1>1, <1>2, InvParts DEF FullInv, Good, SocksInv, Welcomed, Side
<1>5. meta.open
  BY <1>3, <1>4 DEF FullInv, BooksInv, SendersOK, MasterIn
<1>6. QED
  BY <1>2, <1>3, <1>5

LEMMA UntouchedParts ==
    ASSUME FullInv, Untouched
    PROVE  /\ UNCHANGED <<pageVars, creating, status, shown>>
           /\ pins' = pins /\ net' = net /\ ListedOK'
BY DEF Untouched, FullInv, BooksInv, ListedOK, pageVars, directoryVars

\* The room is only visited.
LEMMA VisitBooks ==
    ASSUME FullInv, Untouched, UNCHANGED calls, shown # NoPin,
           creating.step = "done",
           meta'.open = meta.open, meta'.pin = meta.pin,
           meta'.discoverable = meta.discoverable,
           stored' = meta' \/ UNCHANGED <<meta, stored>>,
           SendersOK(sock', meta, creating.discoverable), NoneOpens(sock, sock')
    PROVE  BooksInv'
<1>1. Early'
  BY UntouchedParts, EarlyKept DEF FullInv, BooksInv
<1>2. Books(calls', meta', stored', pins', creating', net')
  <2>1. Books(calls, meta, stored, pins, creating, net)
    BY DEF FullInv, BooksInv
  <2>2. Books(calls, meta', stored', pins, creating, net)
    BY <2>1, BooksSame
  <2>3. QED
    BY <2>2, UntouchedParts
<1>3. SendersOK(sock', meta', creating'.discoverable)
  BY UntouchedParts, SendersRoom
<1>4. ShownOK(sock', ws'[Sender], status'[Sender], shown', meta')
  BY UntouchedParts, ShownKept
<1>5. QED
  BY <1>1, <1>2, <1>3, <1>4, UntouchedParts DEF BooksInv

LEMMA StayKept ==
    ASSUME NEW cs \in Seq(Calls), NEW sk, NEW sk2, Stay(cs, sk), NoneGoes(sk, sk2)
    PROVE  Stay(cs, sk2)
<1>1. \A s \in Restorers(cs) : s \in Sockets
  <2>1. \A i \in DOMAIN cs : cs[i] \in Calls
    BY ElementOfSeq
  <2>2. QED
    BY <2>1, CallTypes DEF Restorers, RestoreCalls
<1>2. QED
  BY <1>1 DEF Stay, NoneGoes

LEMMA CallsSeq ==
    ASSUME FullInv
    PROVE  /\ calls \in Seq(Calls) /\ RestoreOnce(calls)
           /\ RoomOK(meta) /\ RoomOK(stored) /\ sock \in SockMap
           /\ Books(calls, meta, stored, pins, creating, net)
           /\ SendersOK(sock, meta, creating.discoverable)
           /\ pins \in [Pins -> {"free", "ours", "other"}]
BY InvParts DEF FullInv, BaseInv, RoomInv, CallsOK, BooksInv, DirectoryTypeOK

\* No websocket becomes or stops being the sender's.
LEMMA MildStep ==
    ASSUME FullInv, Untouched, AllMild(sock, sock'), shown # NoPin,
           creating.step = "done", UNCHANGED <<meta, stored, alarm, calls>>
    PROVE  BooksInv' /\ GraceInv'
<1>1. /\ SendersOK(sock', meta, creating.discoverable)
      /\ Masters(sock') = Masters(sock)
      /\ NoneOpens(sock, sock') /\ NoneGoes(sock, sock')
  BY CallsSeq, MildSenders, MildServers
<1>2. BooksInv'
  BY <1>1, VisitBooks
<1>3. GraceInv'
  <2> SUFFICES ASSUME Limit["earlyLosses"] = 0
               PROVE  Stay(calls, sock') /\ GraceSet(meta, sock', calls, alarm)
    BY DEF GraceInv
  <2>1. Stay(calls, sock) /\ GraceSet(meta, sock, calls, alarm)
    BY DEF FullInv, GraceInv
  <2>2. Stay(calls, sock')
    BY <1>1, <2>1, CallsSeq, StayKept
  <2>3. GraceSet(meta, sock', calls, alarm)
    BY <1>1, <2>1 DEF GraceSet
  <2>4. QED
    BY <2>2, <2>3
<1>4. QED
  BY <1>2, <1>3

-----------------------------------------------------------------------------
(* The handlers of the room. *)

\* What the bounds on the network say of a step of the room on s.
LEMMA NoMishap ==
    ASSUME FullInv, NEW s \in Sockets, Mishap(s)
    PROVE  /\ Limit["earlyLosses"] = 0 => s \notin Restorers(calls)
           /\ Limit["twins"] = 0 /\ s \notin Restorers(calls)
              /\ (\E i \in DOMAIN calls' :
                     calls'[i].op = "claimPin" /\ calls'[i].socket = s) =>
                 RestoreCalls(calls) = {}
<1>1. \A b \in Budget : spent[b] \in Nat
  BY DEF FullInv, BaseInv, ShareTypeOK
<1>2. \A b \in Budget : Limit[b] = 0 => ~Spend(b)
  BY <1>1 DEF Spend
<1>3. "earlyLosses" \in Budget /\ "twins" \in Budget
  BY DEF Budget
<1>4. Restoring(s) <=> s \in Restorers(calls)
  BY DEF Restoring, Restorers, RestoreCalls
<1>5. Limit["earlyLosses"] = 0 => s \notin Restorers(calls)
  BY <1>2, <1>3, <1>4 DEF Mishap
<1>6. ASSUME Limit["twins"] = 0, s \notin Restorers(calls),
             \E i \in DOMAIN calls' :
                 calls'[i].op = "claimPin" /\ calls'[i].socket = s,
             NEW i \in RestoreCalls(calls)
      PROVE  FALSE
  <2>1. Restoring(s)'
    BY <1>6 DEF Restoring
  <2>2. \E q \in Sockets : Restoring(q)
    <3>1. i \in DOMAIN calls /\ calls[i] \in Calls
      BY CallsSeq, ElementOfSeq DEF RestoreCalls
    <3>2. calls[i].socket \in Sockets
      BY <3>1, CallTypes DEF RestoreCalls
    <3>3. QED
      BY <3>1, <3>2 DEF Restoring, RestoreCalls
  <2>3. Spend("twins")
    BY <1>4, <1>6, <2>1, <2>2 DEF Mishap, SpendIf
  <2>4. QED
    BY <1>2, <1>3, <1>6, <2>3
<1>7. QED
  BY <1>5, <1>6

LEMMA OnGoneBooks ==
    ASSUME FullInv, Untouched, NEW s \in Sockets, sock[s].server # "gone",
           Limit["earlyLosses"] = 0 => s \notin Restorers(calls),
           OnGone(Gone(s), s)
    PROVE  BooksInv' /\ GraceInv'
<1>1. shown # NoPin /\ creating.step = "done"
  <2>1. sock[s] # NoSocket
    BY DEF NoSocket
  <2>2. QED
    BY <2>1, Begun DEF FullInv, BooksInv
<1>2. PICK sk, d : sk = Gone(s) /\ d = creating.discoverable
  OBVIOUS
<1>3. /\ SendersOK(sk, meta, d) /\ Masters(sk) = Masters(sock) \ {s}
      /\ sk[s].server = "gone" /\ \A q \in Sockets : q # s => sk[q] = sock[q]
  BY <1>2, CallsSeq, GoneSenders
<1>4. sk \in SockMap
  BY <1>2, InvGood, GoneOK DEF SocksInv, FullInv, BaseInv
<1>5. OnGone(sk, s)
  BY <1>2
<1>6. Steady(sk, sock') /\ calls' = calls
  <2>1. \/ sock' = sk
        \/ sock' = Tell(sk, Peers(sk), Master(FALSE))
        \/ sock[s].role = "peer" /\ sock' = Tell(sk, Masters(sk), Leave(sock[s].peer))
    BY <1>5 DEF OnGone
  <2>2. sock[s].role = "peer" => sock[s].peer \in Ids
    BY InvGood DEF SockOK, FullInv, BaseInv
  <2>3. calls' = calls
    BY <1>5 DEF OnGone
  <2>4. CASE sock' = sk
    BY <1>4, <2>4, <2>3, SteadySelf
  <2>5. CASE sock' = Tell(sk, Peers(sk), Master(FALSE))
    BY <1>4, <2>5, <2>3, TellSteady, PlainTypes
  <2>6. CASE /\ sock[s].role = "peer"
             /\ sock' = Tell(sk, Masters(sk), Leave(sock[s].peer))
    <3>1. Leave(sock[s].peer) \in Plain
      BY <2>2, <2>6, PlainTypes
    <3>2. QED
      BY <1>4, <2>6, <2>3, <3>1, TellSteady
  <2>7. QED
    BY <2>1, <2>4, <2>5, <2>6
<1>7. /\ SendersOK(sock', meta, d) /\ Masters(sock') = Masters(sock) \ {s}
      /\ NoneOpens(sk, sock') /\ NoneGoes(sk, sock')
  BY <1>3, <1>6, SteadyMild, MildSenders, MildServers
<1>8. NoneOpens(sock, sock')
  BY <1>3, <1>7 DEF NoneOpens
<1>9. /\ meta'.open = meta.open /\ meta'.pin = meta.pin
      /\ meta'.discoverable = meta.discoverable
      /\ stored' = meta' \/ UNCHANGED <<meta, stored>>
  <2>1. meta \in RoomMeta
    BY CallsSeq DEF RoomOK
  <2>2. QED
    BY <1>5, <2>1 DEF OnGone, RoomMeta
<1>10. BooksInv'
  BY <1>1, <1>2, <1>6, <1>7, <1>8, <1>9, VisitBooks
<1>11. GraceInv'
  <2> SUFFICES ASSUME Limit["earlyLosses"] = 0
               PROVE  Stay(calls, sock') /\ GraceSet(meta', sock', calls, alarm')
    BY <1>6 DEF GraceInv
  <2>1. /\ Stay(calls, sock) /\ GraceSet(meta, sock, calls, alarm)
        /\ s \notin Restorers(calls)
    BY DEF FullInv, GraceInv
  <2>2. Stay(calls, sk)
    <3>1. \A q \in Restorers(calls) : q \in Sockets
      <4>1. \A i \in DOMAIN calls : calls[i] \in Calls
        BY CallsSeq, ElementOfSeq
      <4>2. QED
        BY <4>1, CallTypes DEF Restorers, RestoreCalls
    <3>2. QED
      BY <1>3, <2>1, <3>1 DEF Stay
  <2>3. Stay(calls, sock')
    BY <1>7, <2>2, CallsSeq, StayKept
  <2>4. GraceSet(meta', sock', calls, alarm')
    <3>1. CASE meta.open /\ sock[s].role = "master" /\ Masters(sk) = {}
      <4>1. meta' = [meta EXCEPT !.masterGone = TRUE] /\ alarm' = "grace"
        BY <1>5, <3>1 DEF OnGone
      <4>2. meta'.masterGone = TRUE
        BY <4>1, CallsSeq DEF RoomOK, RoomMeta
      <4>3. QED
        BY <4>1, <4>2 DEF GraceSet
    <3>2. CASE ~(meta.open /\ sock[s].role = "master" /\ Masters(sk) = {})
      <4>1. UNCHANGED <<meta, alarm>>
        BY <1>5, <3>2 DEF OnGone
      <4>2. meta.open /\ Masters(sock') = {} => Masters(sock) = {}
        BY <1>3, <1>7, <3>2 DEF Masters
      <4>3. QED
        BY <2>1, <4>1, <4>2 DEF GraceSet
    <3>3. QED
      BY <3>1, <3>2
  <2>5. QED
    BY <2>3, <2>4
<1>12. QED
  BY <1>10, <1>11

\* closeRoom()
LEMMA CloseBooks ==
    ASSUME FullInv, Untouched, creating.step = "done", meta.open,
           NEW sk \in SockMap, AllMild(sock, sk), CloseRoom(sk),
           shown = NoPin => sk = sock
    PROVE  BooksInv' /\ GraceInv'
<1>1. PICK c, tk, d : /\ c = [op |-> "releasePin", pin |-> meta.pin,
                             discoverable |-> meta.discoverable]
                     /\ tk = Tell(sk, Present(sk), Closed)
                     /\ d = creating.discoverable
  OBVIOUS
<1>2. /\ sock' = Hang(tk, Present(sk)) /\ meta' = NoRoom
      /\ calls' = Append(calls, c) /\ stored' = stored
  BY <1>1 DEF CloseRoom
<1>3. AllMild(sock, sock') /\ \A q \in Sockets : sock'[q].server # "open"
  <2>1. Steady(sk, tk) /\ tk \in SockMap
    BY <1>1, TellSteady, PlainTypes DEF Steady
  <2>2. Steady(tk, sock')
    BY <1>2, <2>1, HangSteady
  <2>3. AllMild(sk, tk) /\ AllMild(tk, sock')
    BY <2>1, <2>2, SteadyMild
  <2>4. AllMild(sk, sock')
    BY <2>3, AllMildTrans
  <2>5. AllMild(sock, sock')
    BY <2>4, AllMildTrans
  <2>6. ASSUME NEW q \in Sockets PROVE sock'[q].server # "open"
    <3>1. CASE q \in Present(sk)
      BY <1>2, <2>1, <3>1, HangHeard
    <3>2. CASE q \notin Present(sk)
      BY <2>1, <2>2, <3>2 DEF Present, Steady, Heard
    <3>3. QED
      BY <3>1, <3>2
  <2>7. QED
    BY <2>5, <2>6
<1>4. c \in Calls /\ c.op = "releasePin"
  BY <1>1, CallsSeq DEF RoomOK, RoomMeta, Calls
<1>5. calls' \in Seq(Calls) /\ Restorers(calls') = Restorers(calls)
      /\ (RestoreCalls(calls) = {} => RestoreCalls(calls') = {})
  <2>1. calls' \in Seq(Calls) /\ Restorers(calls') = Restorers(calls)
    BY <1>2, <1>4, CallsSeq, CallsAppend
  <2>2. \A cs : Restorers(cs) = {} <=> RestoreCalls(cs) = {}
    BY DEF Restorers
  <2>3. QED
    BY <2>1, <2>2
<1>6. Books(calls', meta', stored', pins', creating', net')
  <2>1. Books(calls', NoRoom, stored, pins, creating, net)
    BY <1>1, <1>2, CallsSeq, BooksClose
  <2>2. QED
    BY <1>2, <2>1, UntouchedParts
<1>7. SendersOK(sock', meta', creating'.discoverable)
  <2>1. SendersOK(sock', meta, d)
    BY <1>1, <1>3, CallsSeq, MildSenders
  <2>2. \A q \in Sockets : MasterIn(sock'[q], meta')
    BY <1>3 DEF MasterIn
  <2>3. QED
    BY <1>1, <2>1, <2>2, UntouchedParts DEF SendersOK
<1>8. NoneOpens(sock, sock') /\ NoneGoes(sock, sock')
  BY <1>3, MildServers
<1>9. ShownOK(sock', ws'[Sender], status'[Sender], shown', meta')
  BY <1>3, <1>8, ShownKept, UntouchedParts
<1>10. Early'
  <2>1. ASSUME shown = NoPin PROVE sock' = sock
    <3>1. \A q \in Sockets : sock[q] = NoSocket
      BY <2>1 DEF FullInv, BooksInv, Early
    <3>2. \A q \in Sockets : sk[q].server = "gone"
      BY <2>1, <3>1 DEF NoSocket
    <3>3. tk = sk
      BY <1>1, <3>2 DEF Tell, Present, SockMap
    <3>4. sock' = sk
      BY <1>2, <3>2, <3>3 DEF Hang, Present, SockMap
    <3>5. QED
      BY <2>1, <3>4
  <2>2. QED
    BY <1>5, <2>1, EarlyKept, UntouchedParts DEF FullInv, BooksInv
<1>11. GraceInv'
  <2>1. ASSUME Limit["earlyLosses"] = 0 PROVE Stay(calls', sock')
    <3>1. Stay(calls, sock)
      BY <2>1 DEF FullInv, GraceInv
    <3>2. Stay(calls, sock')
      BY <1>8, <3>1, CallsSeq, StayKept
    <3>3. QED
      BY <1>5, <3>2 DEF Stay
  <2>2. GraceSet(meta', sock', calls', alarm')
    BY <1>2 DEF GraceSet, NoRoom
  <2>3. QED
    BY <2>1, <2>2 DEF GraceInv
<1>12. QED
  BY <1>6, <1>7, <1>9, <1>10, <1>11, UntouchedParts DEF BooksInv

\* auth() for the sender.
LEMMA AuthMasterBooks ==
    ASSUME FullInv, Untouched, Limit["twins"] = 0, NEW s \in Sockets, Mishap(s),
           shown # NoPin, creating.step = "done",
           NEW sk, AllMild(sock, sk),
           Good(sk, ids, Restorers(calls), ws, status, told),
           sk[s].role = "none", Settled(sk[s], s, Restorers(calls)),
           sk[s].server # "gone",
           NEW m, m.pin \in Pins \cup {NoPin}, m.keys \in SUBSET Keys,
           m.discoverable = creating.discoverable, AuthAsMaster(sk, s, m)
    PROVE  BooksInv' /\ GraceInv'
<1>1. PICK R, d : R = Restorers(calls) /\ d = creating.discoverable
  OBVIOUS
<1>2. /\ SocksInv(sk, ids, R, ws, status) /\ sk \in SockMap
      /\ ids \in SUBSET Ids /\ Settled(sk[s], s, R)
  BY <1>1, InvGood DEF Good, SocksInv, FullInv, BaseInv
<1>3. /\ SendersOK(sk, meta, d) /\ NoneOpens(sock, sk) /\ NoneGoes(sock, sk)
  BY <1>1, CallsSeq, MildSenders, MildServers
<1>4. CASE meta.open
  <2>1. BecomeMaster(sk, s, meta) /\ calls' = calls
    BY <1>4 DEF AuthAsMaster
  <2>2. meta.pin \in Pins
    BY <1>4, CallsSeq DEF RoomOK
  <2>3. \A sk2 : Steady(sk, sk2) =>
            PeerIds([sk2 EXCEPT ![s].role = "master"]) \in SUBSET Ids
    BY <1>2, WelcomedWith
  <2>4. /\ SendersOK(sock', meta, d)
        /\ NoneOpens(sk, sock') /\ NoneGoes(sk, sock')
        /\ Masters(sock') # {}
    BY <1>2, <1>3, <1>4, <2>1, <2>2, <2>3, BecomeMasterSenders
  <2>5. /\ meta'.open = meta.open /\ meta'.pin = meta.pin
        /\ meta'.discoverable = meta.discoverable /\ stored' = meta'
    <3>1. /\ meta' = [meta EXCEPT !.masterSeen = TRUE, !.masterGone = FALSE]
          /\ stored' = meta'
      BY <1>4, <2>1 DEF BecomeMaster
    <3>2. QED
      BY <3>1, CallsSeq DEF RoomOK, RoomMeta
  <2>6. NoneOpens(sock, sock') /\ NoneGoes(sock, sock')
    BY <1>3, <2>4, ServersTrans
  <2>7. BooksInv'
    BY <1>1, <2>1, <2>4, <2>5, <2>6, VisitBooks
  <2>8. ASSUME Limit["earlyLosses"] = 0 PROVE Stay(calls', sock')
    <3>1. Stay(calls, sock)
      BY <2>8 DEF FullInv, GraceInv
    <3>2. QED
      BY <2>1, <2>6, <3>1, CallsSeq, StayKept
  <2>9. GraceInv'
    BY <2>4, <2>8 DEF GraceInv, GraceSet
  <2>10. QED
    BY <2>7, <2>9
<1>5. CASE ~meta.open /\ m.restore
  <2>1. PICK c : c = [op |-> "claimPin", socket |-> s, pin |-> m.pin,
                      discoverable |-> m.discoverable, keys |-> m.keys]
    OBVIOUS
  <2>2. /\ sock' = sk /\ calls' = Append(calls, c)
        /\ UNCHANGED <<meta, stored, alarm>>
    BY <1>5, <2>1 DEF AuthAsMaster
  <2>3. /\ c \in Calls /\ c.op = "claimPin" /\ c.socket = s
        /\ c.discoverable = creating.discoverable
    <3>1. creating.discoverable \in BOOLEAN
      BY DEF FullInv, BaseInv, CreatingOK
    <3>2. QED
      BY <2>1, <3>1 DEF Calls
  <2>4. s \notin Restorers(calls)
    BY DEF Settled
  <2>5. calls' \in Seq(Calls) /\ Restorers(calls') = Restorers(calls) \cup {s}
    BY <2>2, <2>3, <2>4, CallsSeq, CallsAppend
  <2>6. RestoreCalls(calls) = {}
    <3>1. \E i \in DOMAIN calls' :
              calls'[i].op = "claimPin" /\ calls'[i].socket = s
      <4>1. PICK n \in Nat \ DOMAIN calls :
                DOMAIN calls' = DOMAIN calls \cup {n} /\ calls'[n] = c
        BY <2>2, <2>3, CallsSeq, AppendAt DEF Grown
      <4>2. QED
        BY <2>3, <4>1
    <3>2. QED
      BY <2>4, <3>1, NoMishap
  <2>7. Books(calls', meta', stored', pins', creating', net')
    <3>1. meta.open = FALSE
      BY <1>5, CallsSeq DEF RoomOK, RoomMeta
    <3>2. Books(calls', meta, stored, pins, creating, net)
      BY <2>2, <2>3, <2>6, <3>1, CallsSeq, BooksRestore
    <3>3. QED
      BY <2>2, <3>2, UntouchedParts
  <2>8. Early'
    BY EarlyKept, UntouchedParts DEF FullInv, BooksInv
  <2>9. SendersOK(sock', meta', creating'.discoverable)
    BY <1>1, <1>3, <2>2, UntouchedParts
  <2>10. ShownOK(sock', ws'[Sender], status'[Sender], shown', meta')
    BY <1>3, <2>2, ShownKept, UntouchedParts
  <2>11. BooksInv'
    BY <2>7, <2>8, <2>9, <2>10, UntouchedParts DEF BooksInv
  <2>12. ASSUME Limit["earlyLosses"] = 0 PROVE Stay(calls', sock')
    <3>1. Stay(calls, sock)
      BY <2>12 DEF FullInv, GraceInv
    <3>2. Stay(calls, sk)
      BY <1>3, <3>1, CallsSeq, StayKept
    <3>3. QED
      BY <2>2, <2>5, <3>2 DEF Stay
  <2>13. GraceInv'
    BY <1>5, <2>2, <2>12 DEF GraceInv, GraceSet
  <2>14. QED
    BY <2>11, <2>13
<1>6. CASE ~meta.open /\ ~m.restore
  <2>1. /\ sock' = Reject(sk, s, "room_not_found")
        /\ UNCHANGED <<meta, stored, alarm, calls>>
        /\ "room_not_found" \in Codes
    BY <1>6 DEF AuthAsMaster, Codes
  <2>2. AllMild(sock, sock')
    <3>1. AllMild(sk, sock')
      BY <1>2, <2>1, RejectSteady, SteadyMild
    <3>2. QED
      BY <3>1, AllMildTrans
  <2>3. QED
    BY <2>1, <2>2, MildStep
<1>7. QED
  BY <1>4, <1>5, <1>6

\* A message from s is taken, and acted upon.
LEMMA OnSocketEventBooks ==
    ASSUME FullInv, UNCHANGED pageVars, Limit["twins"] = 0, NEW s \in Sockets,
           Mishap(s), OnSocketEvent(s)
    PROVE  BooksInv' /\ GraceInv'
<1>1. PICK m, sk, R : /\ m = Head(sock[s].toServer)
                     /\ sk = [sock EXCEPT ![s].toServer = Tail(@)]
                     /\ R = Restorers(calls)
  OBVIOUS
<1>2. /\ Untouched /\ sock[s].toServer # <<>> /\ sock[s].server # "gone"
  BY DEF OnSocketEvent, Untouched
<1>3. shown # NoPin /\ creating.step = "done"
  <2>1. sock[s] # NoSocket
    BY <1>2 DEF NoSocket
  <2>2. QED
    BY <2>1, Begun DEF FullInv, BooksInv
<1>4. /\ Good(sock, ids, R, ws, status, told) /\ sock \in SockMap
      /\ ws \in [Pages -> Sockets \cup {NoWs}] /\ ids \in SUBSET Ids
  BY <1>1, InvGood DEF FullInv, BaseInv
<1>5. /\ Good(sk, ids, R, ws, status, told)
      /\ m \in ClientMsg
      /\ m.t = "auth" => sock[s].role = "none" /\ Settled(sk[s], s, R)
      /\ \A q \in Sockets :
            sk[q].role = sock[q].role /\ sk[q].server = sock[q].server
  <2> DEFINE sk0 == [sock EXCEPT ![s].toServer = Tail(@)]
  <2>1. Good(sk0, ids, R, ws, status, told)
    BY <1>2, <1>4, PopGood
  <2>2. Head(sock[s].toServer) \in ClientMsg
    BY <1>2, <1>4, PopGood
  <2>3. ASSUME Head(sock[s].toServer).t = "auth"
        PROVE  sock[s].role = "none" /\ Settled(sk0[s], s, R)
    <3>1. sock[s].role = "none"
      <4>1. sock[s] \in Socket /\ SockOK(sock[s], s, ids, R)
        BY <1>4, SocksAt DEF Good
      <4>2. 1 \in DOMAIN sock[s].toServer
            /\ sock[s].toServer[1] = Head(sock[s].toServer)
        BY <1>2, <4>1, FieldTypes, EmptySeq, HeadTailProperties
      <4>3. QED
        BY <2>3, <4>1, <4>2 DEF SockOK, HasAuth
    <3>2. Settled(sk0[s], s, R)
      BY <1>2, <1>4, <2>3, PopGood
    <3>3. QED
      BY <3>1, <3>2
  <2>4. \A q \in Sockets :
            sk0[q].role = sock[q].role /\ sk0[q].server = sock[q].server
    BY <1>2, <1>4, PopGood
  <2>5. sk = sk0
    BY <1>1
  <2> HIDE DEF sk0
  <2>6. QED
    BY <1>1, <2>1, <2>2, <2>3, <2>4, <2>5
<1>6. AllMild(sock, sk) /\ sk \in SockMap
  <2>1. PICK k, k2 : k = sock[s] /\ k2 = [k EXCEPT !.toServer = Tail(@)]
    OBVIOUS
  <2>2. k \in Socket /\ sk = [sock EXCEPT ![s] = k2]
    BY <1>1, <1>4, <2>1 DEF SockMap
  <2>3. Milder(sock[s], k2)
    BY <1>2, <2>1, <2>2, TakeMild
  <2>4. AllMild(sock, sk)
    BY <1>4, <2>2, <2>3, OneMild
  <2>5. QED
    BY <1>5, <2>4 DEF Good, SocksInv
<1>7. CASE OnGone(Gone(s), s)
  BY <1>2, <1>7, NoMishap, OnGoneBooks
<1>8. CASE AllMild(sk, sock') /\ UNCHANGED <<meta, stored, alarm, calls>>
  <2>1. AllMild(sock, sock')
    BY <1>6, <1>8, AllMildTrans
  <2>2. QED
    BY <1>2, <1>3, <1>8, <2>1, MildStep
<1>9. CASE /\ sock' \in {Reject(sk, s, "bad_request"), Reject(sk, s, "room_not_found")}
           /\ UNCHANGED <<meta, stored, alarm, calls, ids>>
  <2>1. {"bad_request", "room_not_found"} \subseteq Codes
    BY DEF Codes
  <2>2. AllMild(sk, sock')
    BY <1>6, <1>9, <2>1, RejectSteady, SteadyMild
  <2>3. QED
    BY <1>8, <1>9, <2>2
<1>10. CASE m.t = "auth" /\ m.role = "master" /\ AuthAsMaster(sk, s, m)
  <2>1. m.pin \in Pins \cup {NoPin} /\ m.keys \in SUBSET Keys
    BY <1>5, <1>10, AuthFields
  <2>2. m.discoverable = creating.discoverable
    <3>1. sock[s].toServer \in Seq(ClientMsg)
      BY <1>4, FieldTypes DEF SockMap
    <3>2. 1 \in DOMAIN sock[s].toServer /\ sock[s].toServer[1] = m
      BY <1>1, <1>2, <3>1, EmptySeq, HeadTailProperties
    <3>3. AuthsTrue(sock[s], creating.discoverable)
      BY CallsSeq DEF SendersOK
    <3>4. QED
      BY <1>10, <3>2, <3>3 DEF AuthsTrue
  <2>3. sk[s].role = "none" /\ Settled(sk[s], s, Restorers(calls))
        /\ sk[s].server # "gone" /\ Good(sk, ids, Restorers(calls), ws, status, told)
    BY <1>1, <1>2, <1>5, <1>10
  <2>4. QED
    BY <1>2, <1>3, <1>6, <1>10, <2>1, <2>2, <2>3, AuthMasterBooks
<1>11. CASE m.t = "auth" /\ m.role # "master" /\ AuthAsPeer(sk, s, m)
  <2>1. m.resume \in Ids \cup {NoId}
    BY <1>5, <1>11, AuthFields
  <2>2. sk[s].role = "none"
    BY <1>5, <1>11
  <2>3. AllMild(sk, sock')
    BY <1>6, <1>11, <2>1, <2>2, AuthAsPeerMild
  <2>4. UNCHANGED <<meta, stored, alarm, calls>>
    BY <1>11 DEF AuthAsPeer
  <2>5. QED
    BY <1>8, <2>3, <2>4
<1>12. CASE RelayFromMaster(sk, s, m) \/ RelayFromPeer(sk, s)
  <2>1. UNCHANGED <<meta, stored, alarm, calls>>
    BY <1>12 DEF RelayFromMaster, RelayFromPeer
  <2>2. sk[s].peer \in Ids \cup {NoId}
    BY <1>6, FieldTypes DEF SockMap
  <2>3. \E to, msg : msg \in Plain /\ sock' = Tell(sk, to, msg)
    <3>1. /\ Error("peer_not_found") \in Plain /\ Error("master_absent") \in Plain
          /\ Signal(NoId) \in Plain /\ Signal(sk[s].peer) \in Plain
      BY <2>2, PlainTypes DEF Codes
    <3>2. CASE RelayFromMaster(sk, s, m)
      BY <3>1, <3>2 DEF RelayFromMaster
    <3>3. CASE RelayFromPeer(sk, s)
      BY <3>1, <3>3 DEF RelayFromPeer
    <3>4. QED
      BY <1>12, <3>2, <3>3
  <2>4. AllMild(sk, sock')
    BY <1>6, <2>3, TellSteady, SteadyMild
  <2>5. QED
    BY <1>8, <2>1, <2>4
<1>13. CASE meta.open /\ CloseRoom(sk)
  BY <1>2, <1>3, <1>6, <1>13, CloseBooks
<1>14. \/ OnGone(Gone(s), s)
       \/ /\ sock' \in {Reject(sk, s, "bad_request"),
                        Reject(sk, s, "room_not_found")}
          /\ UNCHANGED <<meta, stored, alarm, calls, ids>>
       \/ m.t = "auth" /\ m.role = "master" /\ AuthAsMaster(sk, s, m)
       \/ m.t = "auth" /\ m.role # "master" /\ AuthAsPeer(sk, s, m)
       \/ RelayFromMaster(sk, s, m) \/ RelayFromPeer(sk, s)
       \/ meta.open /\ CloseRoom(sk)
  BY <1>1 DEF OnSocketEvent
<1>15. QED
  BY <1>7, <1>9, <1>10, <1>11, <1>12, <1>13, <1>14

LEMMA OtherEventsBooks ==
    ASSUME FullInv, UNCHANGED pageVars, NEW s \in Sockets,
           (SocketLost(s) /\ Mishap(s)) \/ CredentialsArrive(s)
    PROVE  BooksInv' /\ GraceInv'
<1>1. CASE SocketLost(s) /\ Mishap(s)
  BY <1>1, NoMishap, OnGoneBooks DEF SocketLost, Untouched
<1>2. CASE CredentialsArrive(s)
  <2>1. shown # NoPin /\ creating.step = "done"
    <3>1. sock[s] # NoSocket
      BY <1>2 DEF NoSocket, CredentialsArrive
    <3>2. QED
      BY <3>1, Begun DEF FullInv, BooksInv
  <2>2. AllMild(sock, sock')
    BY <1>2, CallsSeq, CredentialsMild DEF CredentialsArrive
  <2>3. QED
    BY <1>2, <2>1, <2>2, MildStep DEF CredentialsArrive, Untouched
<1>3. QED
  BY <1>1, <1>2

-----------------------------------------------------------------------------
(* The alarm, and the answers of the directory. *)

LEMMA StillBooks ==
    ASSUME FullInv, Untouched, UNCHANGED <<meta, stored, sock, calls>>
    PROVE  BooksInv'
BY DEF FullInv, BooksInv, Early, ListedOK, Untouched, directoryVars, pageVars

LEMMA AlarmBooks ==
    ASSUME FullInv, UNCHANGED pageVars, AlarmRings
    PROVE  BooksInv' /\ GraceInv'
<1>1. Untouched /\ creating.step = "done" /\ calls = <<>>
  BY DEF AlarmRings, Untouched
<1>2. CASE meta.open /\ CloseRoom(sock)
  <2>1. AllMild(sock, sock) /\ sock \in SockMap
    BY MildSelf, CallsSeq DEF AllMild
  <2>2. QED
    BY <1>1, <1>2, <2>1, CloseBooks
<1>3. CASE /\ UNCHANGED <<meta, stored, sock, calls>>
           /\ meta.open =>
                 /\ alarm # "expiry" /\ meta.masterSeen
                 /\ ~(Masters(sock) = {} /\ meta.masterGone)
  <2>1. BooksInv'
    BY <1>1, <1>3, StillBooks
  <2>2. ASSUME Limit["earlyLosses"] = 0
        PROVE  Stay(calls', sock') /\ GraceSet(meta', sock', calls', alarm')
    <3>1. Stay(calls, sock) /\ GraceSet(meta, sock, calls, alarm)
      BY <2>2 DEF FullInv, GraceInv
    <3>2. QED
      BY <1>3, <3>1 DEF GraceSet
  <2>3. GraceInv'
    BY <2>2 DEF GraceInv
  <2>4. QED
    BY <2>1, <2>3
<1>4. QED
  BY <1>2, <1>3 DEF AlarmRings

\* What is in storage is what was in memory.
LEMMA HibernateBooks ==
    ASSUME FullInv, UNCHANGED pageVars, Hibernate
    PROVE  BooksInv' /\ GraceInv'
<1>1. Untouched /\ calls = <<>> /\ meta' = stored
      /\ UNCHANGED <<stored, alarm, sock, calls>>
  BY DEF Hibernate, Untouched
<1>2. stored = meta
  <2>1. SavedOK(stored, meta, calls)
    BY CallsSeq DEF Books
  <2>2. DOMAIN calls = {} /\ Wipers(calls) = {}
    BY <1>1, BooksEmpty
  <2>3. QED
    BY <2>1, <2>2 DEF SavedOK
<1>3. BooksInv'
  BY <1>1, <1>2, StillBooks
<1>4. GraceInv'
  BY <1>1, <1>2 DEF FullInv, GraceInv
<1>5. QED
  BY <1>3, <1>4

\* The call at the head of the queue.
LEMMA FirstCall ==
    ASSUME FullInv, calls # <<>>, NEW c, c = Head(calls)
    PROVE  /\ c \in Calls /\ creating.step = "done"
           /\ 1 \in DOMAIN calls /\ calls[1] = c
           /\ Tail(calls) \in Seq(Calls) /\ RestoreOnce(Tail(calls))
           /\ c.op \in {"claimPin", "announce"} =>
                 /\ shown # NoPin /\ c.socket \in Restorers(calls)
                 /\ c.socket \in Sockets
                 /\ Restorers(Tail(calls)) = Restorers(calls) \ {c.socket}
           /\ c.op \in {"releasePin", "withdraw"} =>
                 Restorers(Tail(calls)) = Restorers(calls)
<1>1. calls \in Seq(Calls) /\ RestoreOnce(calls)
  BY CallsSeq
<1>2. /\ c \in Calls /\ Tail(calls) \in Seq(Calls) /\ RestoreOnce(Tail(calls))
      /\ c.op \in {"claimPin", "announce"} =>
            /\ c.socket \in Restorers(calls)
            /\ Restorers(Tail(calls)) = Restorers(calls) \ {c.socket}
      /\ c.op \in {"releasePin", "withdraw"} =>
            Restorers(Tail(calls)) = Restorers(calls)
  BY <1>1, CallsTail
<1>3. 1 \in DOMAIN calls /\ calls[1] = c
  BY <1>1, TailAt
<1>4. creating.step = "done"
  BY DEF FullInv, BooksInv, Early
<1>5. c.op \in {"claimPin", "announce"} => shown # NoPin /\ c.socket \in Sockets
  <2>1. c.op \in {"claimPin", "announce"} => 1 \in RestoreCalls(calls)
    BY <1>3 DEF RestoreCalls
  <2>2. QED
    BY <1>2, <2>1, CallTypes DEF FullInv, BooksInv, Early
<1>6. QED
  BY <1>2, <1>3, <1>4, <1>5

\* The calls of closeRoom() are answered.
LEMMA WipedBooks ==
    ASSUME FullInv, UNCHANGED <<pageVars, creating, meta, sock>>,
           creating.step = "done", Restorers(calls') = Restorers(calls),
           Books(calls', meta, stored', pins', creating, net'), ListedOK',
           meta.open => \E i \in DOMAIN calls' : calls'[i].op = "announce"
    PROVE  BooksInv' /\ GraceInv'
<1>1. /\ ws' = ws /\ status' = status /\ shown' = shown
      /\ creating' = creating /\ meta' = meta /\ sock' = sock
  BY DEF pageVars
<1>2. Early'
  <2>1. \A cs : Restorers(cs) = {} <=> RestoreCalls(cs) = {}
    BY DEF Restorers
  <2>2. QED
    BY <1>1, <2>1, EarlyKept DEF FullInv, BooksInv
<1>3. BooksInv'
  BY <1>1, <1>2 DEF FullInv, BooksInv
<1>4. Stay(calls, sock) => Stay(calls', sock')
  BY <1>1 DEF Stay
<1>5. GraceSet(meta', sock', calls', alarm')
  BY <1>1 DEF GraceSet
<1>6. GraceInv'
  BY <1>4, <1>5 DEF FullInv, GraceInv
<1>7. QED
  BY <1>3, <1>6

LEMMA ReleasedBooks ==
    ASSUME FullInv, UNCHANGED <<pageVars, creating>>, calls # <<>>,
           NEW c, c = Head(calls), c.op = "releasePin",
           PinReleased(c, Tail(calls))
    PROVE  BooksInv' /\ GraceInv'
<1>1. PICK w : w = [c EXCEPT !.op = "withdraw"]
  OBVIOUS
<1>2. /\ pins' = [pins EXCEPT ![c.pin] = IF @ = "ours" THEN "free" ELSE @]
      /\ \/ /\ c.discoverable /\ stored' = stored
            /\ calls' = Append(Tail(calls), w)
         \/ ~c.discoverable /\ stored' = NoRoom /\ calls' = Tail(calls)
      /\ UNCHANGED <<meta, sock, listedUnder, net, watching, nearby>>
  BY <1>1 DEF PinReleased, ReleasePin, WipeStorage
<1>3. /\ c \in Calls /\ creating.step = "done"
      /\ Tail(calls) \in Seq(Calls) /\ RestoreOnce(Tail(calls))
      /\ Restorers(Tail(calls)) = Restorers(calls)
      /\ 1 \in DOMAIN calls /\ calls[1] = c
  BY FirstCall
<1>4. w \in Calls /\ w.op = "withdraw" /\ w.discoverable = c.discoverable
  BY <1>1, <1>3, CallTypes DEF Calls
<1>5. Restorers(calls') = Restorers(calls)
  BY <1>2, <1>3, <1>4, CallsAppend
<1>6. creating.pin \in Pins \cup {NoPin}
  BY DEF FullInv, BaseInv, CreatingOK
<1>7. Books(calls', meta, stored', pins', creating, net)
  <2>1. /\ Books(calls, meta, stored, pins, creating, net)
        /\ calls \in Seq(Calls) /\ RoomOK(meta) /\ creating.step # "claimed"
        /\ pins \in [Pins -> {"free", "ours", "other"}]
    BY <1>3, CallsSeq
  <2>2. PICK ds, saved, owner : ds = calls' /\ saved = stored' /\ owner = pins'
    OBVIOUS
  <2>3. \/ c.discoverable /\ saved = stored /\ ds = Append(Tail(calls), w)
        \/ ~c.discoverable /\ saved = NoRoom /\ ds = Tail(calls)
    BY <1>2, <2>2
  <2>4. \A p \in Pins : owner[p] = "ours" => pins[p] = "ours" /\ p # c.pin
    BY <1>2, <2>1, <2>2
  <2>5. Books(ds, meta, saved, owner, creating, net)
    BY <1>4, <1>6, <2>1, <2>3, <2>4, BooksRelease
  <2>6. QED
    BY <2>2, <2>5
<1>8. ~meta.open
  <2>1. CallOrder(calls, meta.open, creating.discoverable) /\ 1 \in Wipers(calls)
    BY <1>3, CallsSeq DEF Books, Wipers
  <2>2. QED
    BY <1>3, <2>1 DEF CallOrder
<1>9. ListedOK'
  BY <1>2 DEF FullInv, BooksInv, ListedOK
<1>10. QED
  BY <1>2, <1>3, <1>5, <1>7, <1>8, <1>9, WipedBooks

LEMMA WithdrawnBooks ==
    ASSUME FullInv, UNCHANGED <<pageVars, creating>>, calls # <<>>,
           NEW c, c = Head(calls), c.op = "withdraw",
           Withdrawn(c, Tail(calls))
    PROVE  BooksInv' /\ GraceInv'
<1>1. /\ stored' = NoRoom /\ calls' = Tail(calls) /\ pins' = pins
      /\ UNCHANGED <<meta, sock, watching>>
      /\ listedUnder' = {} /\ net' = net \ listedUnder
      /\ nearby' = [w \in Watchers |->
                       nearby[w] /\ watching[w] \cap listedUnder = {}]
  BY DEF Withdrawn, WipeStorage, Withdraw, OnRemove
<1>2. /\ c \in Calls /\ creating.step = "done"
      /\ Restorers(Tail(calls)) = Restorers(calls)
      /\ 1 \in DOMAIN calls /\ calls[1] = c
  BY FirstCall
<1>3. net' = {} /\ ListedOK'
  BY <1>1 DEF FullInv, BooksInv, ListedOK
<1>4. Books(calls', meta, stored', pins', creating, net')
  <2>1. /\ Books(calls, meta, stored, pins, creating, net)
        /\ calls \in Seq(Calls) /\ RoomOK(meta)
    BY CallsSeq
  <2>2. PICK ds : ds = Tail(calls)
    OBVIOUS
  <2>3. Books(ds, meta, NoRoom, pins, creating, {})
    BY <2>1, <2>2, BooksWithdraw
  <2>4. QED
    BY <1>1, <1>3, <2>2, <2>3
<1>5. meta.open => \E i \in DOMAIN calls' : calls'[i].op = "announce"
  <2> SUFFICES ASSUME meta.open
               PROVE  \E i \in DOMAIN calls' : calls'[i].op = "announce"
    OBVIOUS
  <2>1. CallOrder(calls, meta.open, creating.discoverable) /\ 1 \in Wipers(calls)
    BY <1>2, CallsSeq DEF Books, Wipers
  <2>2. PICK i \in DOMAIN calls : calls[i].op = "announce" /\ 1 < i
    BY <2>1 DEF CallOrder
  <2>3. i - 1 \in DOMAIN Tail(calls) /\ Tail(calls)[i - 1] = calls[i]
    BY <2>2, CallsSeq, TailAt
  <2>4. QED
    BY <1>1, <2>2, <2>3
<1>6. QED
  BY <1>1, <1>2, <1>3, <1>4, <1>5, WipedBooks

\* restore() is done, and its socket becomes the sender's.
LEMMA RestoredBooks ==
    ASSUME FullInv, UNCHANGED <<pageVars, creating>>, calls # <<>>,
           NEW c, c = Head(calls), c.op \in {"claimPin", "announce"},
           calls' = Tail(calls), NEW room, RoomOK(room),
           \/ room.open /\ ~meta.open
           \/ room = meta /\ c.op = "announce",
           BecomeMaster(sock, c.socket, room),
           Books(calls', meta', stored', pins', creating, net'), ListedOK'
    PROVE  BooksInv' /\ GraceInv'
<1>1. PICK s, R, d : /\ s = c.socket /\ R = Restorers(calls) \ {s}
                    /\ d = creating.discoverable
  OBVIOUS
<1>2. /\ creating.step = "done" /\ shown # NoPin /\ s \in Sockets
      /\ s \in Restorers(calls) /\ Restorers(calls') = R
      /\ calls' \in Seq(Calls)
  BY <1>1, FirstCall
<1>3. /\ Good(sock, ids, Restorers(calls), ws, status, told)
      /\ sock \in SockMap /\ ids \in SUBSET Ids
      /\ ws \in [Pages -> Sockets \cup {NoWs}]
  BY InvGood DEF FullInv, BaseInv
<1>4. /\ Good(sock, ids, R, ws, status, told)
      /\ sock[s].role = "none" /\ Settled(sock[s], s, R)
  <2>1. PICK Q : Q = Restorers(calls)
    OBVIOUS
  <2>2. /\ Good(sock, ids, Q, ws, status, told) /\ s \in Sockets /\ s \in Q
        /\ ws \in [Pages -> Sockets \cup {NoWs}]
    BY <1>2, <1>3, <2>1
  <2>3. /\ Good(sock, ids, Q \ {s}, ws, status, told)
        /\ sock[s].role = "none" /\ Settled(sock[s], s, Q \ {s})
    BY <2>2, BeingRestored
  <2>4. QED
    BY <1>1, <2>1, <2>3
<1>5. room.open => room.pin \in Pins
  BY DEF RoomOK
<1>6. ~room.open => sock[s].server # "open"
  <2>1. c.op = "announce" /\ ~meta.open => sock[s].server # "open"
    BY <1>1, CallsLeft DEF FullInv, BaseInv
  <2>2. QED
    BY <2>1
<1>7. SendersOK(sock, room, d)
  BY <1>1, CallsSeq, SendersRoom
<1>8. \A sk2 : Steady(sock, sk2) =>
          PeerIds([sk2 EXCEPT ![s].role = "master"]) \in SUBSET Ids
  BY <1>2, <1>3, WelcomedWith DEF Good
<1>9. BecomeMaster(sock, s, room)
  BY <1>1
<1>10. /\ SendersOK(sock', room, d)
       /\ NoneOpens(sock, sock') /\ NoneGoes(sock, sock')
       /\ room.open /\ sock[s].server # "gone" => Masters(sock') # {}
  BY <1>2, <1>3, <1>4, <1>5, <1>6, <1>7, <1>8, <1>9, BecomeMasterSenders
<1>11. meta'.open = room.open /\ meta'.pin = room.pin
  <2>1. meta' \in {room, [room EXCEPT !.masterSeen = TRUE, !.masterGone = FALSE]}
    BY <1>9 DEF BecomeMaster
  <2>2. QED
    BY <2>1 DEF RoomOK, RoomMeta
<1>12. /\ ws' = ws /\ status' = status /\ shown' = shown
       /\ creating' = creating
  BY DEF pageVars
<1>13. Early'
  BY <1>2, <1>12, EarlyKept DEF FullInv, BooksInv
<1>14. SendersOK(sock', meta', d)
  BY <1>10, <1>11, SendersRoom
<1>15. ShownOK(sock', ws'[Sender], status'[Sender], shown', meta')
  BY <1>10, <1>11, ShownKept
<1>16. BooksInv'
  BY <1>1, <1>12, <1>13, <1>14, <1>15 DEF BooksInv
<1>17. ASSUME Limit["earlyLosses"] = 0
       PROVE  Stay(calls', sock') /\ GraceSet(meta', sock', calls', alarm')
  <2>1. Stay(calls, sock)
    BY <1>17 DEF FullInv, GraceInv
  <2>2. Stay(calls, sock')
    BY <1>10, <2>1, CallsSeq, StayKept
  <2>3. Stay(calls', sock')
    BY <1>1, <1>2, <2>2 DEF Stay
  <2>4. sock[s].server # "gone"
    BY <1>2, <2>1 DEF Stay
  <2>5. GraceSet(meta', sock', calls', alarm')
    BY <1>10, <1>11, <2>4 DEF GraceSet
  <2>6. QED
    BY <2>3, <2>5
<1>18. GraceInv'
  BY <1>17 DEF GraceInv
<1>19. QED
  BY <1>16, <1>18

LEMMA AnnouncedBooks ==
    ASSUME FullInv, UNCHANGED <<pageVars, creating>>, calls # <<>>,
           NEW c, c = Head(calls), c.op = "announce", Announced(c, Tail(calls))
    PROVE  BooksInv' /\ GraceInv'
<1>1. /\ calls' = Tail(calls) /\ pins' = pins
      /\ BecomeMaster(sock, c.socket, meta)
      /\ listedUnder' = (IF c.keys = {} THEN listedUnder ELSE c.keys)
      /\ net' = net \cup c.keys /\ watching' = watching
      /\ nearby' = [w \in Watchers |->
                       nearby[w] \/ watching[w] \cap c.keys # {}]
  BY DEF Announced, Announce, OnAdd
<1>2. /\ Books(calls, meta, stored, pins, creating, net)
      /\ calls \in Seq(Calls) /\ RoomOK(meta) /\ meta.open \in BOOLEAN
  BY CallsSeq DEF RoomOK, RoomMeta
<1>3. /\ meta'.open = meta.open /\ meta'.pin = meta.pin
      /\ meta'.discoverable = meta.discoverable
      /\ \/ stored' = meta'
         \/ ~meta.open /\ stored' = stored /\ meta' = meta
  <2>1. \/ ~meta.open /\ stored' = stored /\ meta' = meta
        \/ /\ meta' = [meta EXCEPT !.masterSeen = TRUE, !.masterGone = FALSE]
           /\ stored' = meta'
    BY <1>1 DEF BecomeMaster
  <2>2. QED
    BY <1>2, <2>1 DEF RoomOK, RoomMeta
<1>4. net = {} /\ \A K : Books(calls', meta', stored', pins', creating, K)
  <2>1. PICK ds, room2, saved2 :
            ds = Tail(calls) /\ room2 = meta' /\ saved2 = stored'
    OBVIOUS
  <2>2. /\ room2.open = meta.open /\ room2.pin = meta.pin
        /\ room2.discoverable = meta.discoverable
        /\ \/ saved2 = room2
           \/ ~meta.open /\ saved2 = stored /\ room2 = meta
    BY <1>3, <2>1
  <2>3. ASSUME NEW K PROVE net = {} /\ Books(ds, room2, saved2, pins, creating, K)
    <3>1. Books(calls, meta, stored, pins, creating, net)
      BY <1>2
    <3>2. calls \in Seq(Calls) /\ meta.open \in BOOLEAN /\ ds = Tail(calls)
      BY <1>2, <2>1
    <3>3. Listing(calls, meta, stored, room2, saved2, ds)
      BY <2>2, <3>2 DEF Listing
    <3>4. QED
      BY <3>1, <3>2, <3>3, BooksAnnounce
  <2>4. QED
    BY <1>1, <2>1, <2>3
<1>5. ListedOK'
  BY <1>1, <1>4 DEF FullInv, BooksInv, ListedOK
<1>6. QED
  BY <1>1, <1>2, <1>4, <1>5, RestoredBooks

LEMMA ClaimedBooks ==
    ASSUME FullInv, UNCHANGED <<pageVars, creating>>, calls # <<>>,
           NEW c, c = Head(calls), c.op = "claimPin", PinClaimed(c, Tail(calls))
    PROVE  BooksInv' /\ GraceInv'
<1>1. PICK a : a = [c EXCEPT !.op = "announce"]
  OBVIOUS
<1>2. PICK pin, room :
          /\ pin \in Claimable(c.pin)
          /\ room = NewRoom(pin, c.discoverable, TRUE)
          /\ pins' = [pins EXCEPT ![pin] = "ours"]
          /\ IF c.discoverable
             THEN /\ calls' = Append(Tail(calls), a)
                  /\ meta' = room /\ stored' = room
                  /\ UNCHANGED <<alarm, sock>>
             ELSE /\ BecomeMaster(sock, c.socket, room)
                  /\ calls' = Tail(calls)
  BY <1>1 DEF PinClaimed
<1>3. UNCHANGED <<listedUnder, net, watching, nearby>>
  BY DEF PinClaimed
<1>4. /\ c \in Calls /\ creating.step = "done" /\ shown # NoPin
      /\ Tail(calls) \in Seq(Calls) /\ RestoreOnce(Tail(calls))
      /\ c.socket \in Restorers(calls) /\ c.socket \in Sockets
      /\ Restorers(Tail(calls)) = Restorers(calls) \ {c.socket}
  BY FirstCall
<1>5. /\ a \in Calls /\ a.op = "announce" /\ a.socket = c.socket
      /\ a.discoverable = c.discoverable /\ c.discoverable \in BOOLEAN
  BY <1>1, <1>4, CallTypes DEF Calls
<1>6. pin \in Pins
  BY <1>2 DEF Claimable, Free
<1>7. /\ RoomOK(room) /\ room.open = TRUE /\ room.pin = pin
      /\ room.discoverable = c.discoverable
  BY <1>2, <1>5, <1>6, RoomsOK DEF NewRoom
<1>8. /\ Books(calls, meta, stored, pins, creating, net)
      /\ calls \in Seq(Calls)
      /\ pins \in [Pins -> {"free", "ours", "other"}]
  BY CallsSeq
<1>9. /\ pins'[pin] = "ours"
      /\ \A p \in Pins : pins'[p] = "ours" => pins[p] = "ours" \/ p = pin
  BY <1>2, <1>6, <1>8
<1>10. ASSUME NEW room2, room2.open = TRUE, room2.pin = pin,
              room2.discoverable = c.discoverable
       PROVE  Books(calls', room2, room2, pins', creating, net) /\ ~meta.open
  <2>1. PICK ds, owner : ds = calls' /\ owner = pins'
    OBVIOUS
  <2>2. \/ c.discoverable /\ ds = Append(Tail(calls), a)
        \/ ~c.discoverable /\ ds = Tail(calls)
    BY <1>2, <2>1
  <2>3. /\ owner[pin] = "ours"
        /\ \A p \in Pins : owner[p] = "ours" => pins[p] = "ours" \/ p = pin
    BY <1>9, <2>1
  <2>4. Claiming(calls, pins, pin, owner, room2, a, ds)
    BY <1>5, <1>10, <2>2, <2>3 DEF Claiming
  <2>5. Books(ds, room2, room2, owner, creating, net) /\ ~meta.open
    BY <1>4, <1>5, <1>6, <1>8, <2>4, BooksClaim
  <2>6. QED
    BY <2>1, <2>5
<1>11. ListedOK'
  BY <1>3 DEF FullInv, BooksInv, ListedOK
<1>12. ~meta.open
  BY <1>7, <1>10
<1>13. CASE ~c.discoverable
  <2>1. BecomeMaster(sock, c.socket, room) /\ calls' = Tail(calls)
    BY <1>2, <1>13
  <2>2. /\ meta'.open = TRUE /\ meta'.pin = pin
        /\ meta'.discoverable = c.discoverable /\ stored' = meta'
    <3>1. /\ meta' = [room EXCEPT !.masterSeen = TRUE, !.masterGone = FALSE]
          /\ stored' = meta'
      BY <1>7, <2>1 DEF BecomeMaster
    <3>2. QED
      BY <1>7, <3>1 DEF RoomOK, RoomMeta
  <2>3. Books(calls', meta', stored', pins', creating, net')
    BY <1>3, <1>10, <2>2
  <2>4. QED
    BY <1>7, <1>11, <1>12, <2>1, <2>3, RestoredBooks
<1>14. CASE c.discoverable
  <2>1. /\ calls' = Append(Tail(calls), a) /\ meta' = room /\ stored' = room
        /\ sock' = sock
    BY <1>2, <1>14
  <2>2. /\ ws' = ws /\ status' = status /\ shown' = shown
        /\ creating' = creating
    BY DEF pageVars
  <2>3. Books(calls', meta', stored', pins', creating', net')
    BY <1>3, <1>7, <1>10, <2>1, <2>2
  <2>4. Early'
    BY <1>4, <2>2, EarlyKept DEF FullInv, BooksInv
  <2>5. SendersOK(sock', meta', creating'.discoverable)
    BY <1>12, <2>1, <2>2, CallsSeq, SendersRoom
  <2>6. ShownOK(sock', ws'[Sender], status'[Sender], shown', meta')
    BY <1>12, <2>1, ShownKept DEF NoneOpens
  <2>7. BooksInv'
    BY <1>11, <2>3, <2>4, <2>5, <2>6 DEF BooksInv
  <2>8. Restorers(calls') = Restorers(calls)
    <3>1. a.socket \notin Restorers(Tail(calls))
      BY <1>4, <1>5
    <3>2. Restorers(calls') = Restorers(Tail(calls)) \cup {a.socket}
      BY <1>4, <1>5, <2>1, <3>1, CallsAppend
    <3>3. QED
      BY <1>4, <1>5, <3>2
  <2>9. Stay(calls, sock) => Stay(calls', sock')
    BY <2>1, <2>8 DEF Stay
  <2>10. GraceSet(meta', sock', calls', alarm')
    <3>1. \E i \in DOMAIN calls' : calls'[i].op = "announce"
      <4>1. PICK n : n \in DOMAIN calls' /\ calls'[n] = a
        BY <1>4, <1>5, <2>1, AppendAt DEF Grown
      <4>2. QED
        BY <1>5, <4>1
    <3>2. QED
      BY <3>1 DEF GraceSet
  <2>11. GraceInv'
    BY <2>9, <2>10 DEF FullInv, GraceInv
  <2>12. QED
    BY <2>7, <2>11
<1>15. QED
  BY <1>13, <1>14

LEMMA DirectoryAnswersBooks ==
    ASSUME FullInv, UNCHANGED pageVars, DirectoryAnswers
    PROVE  BooksInv' /\ GraceInv'
<1>1. calls # <<>> /\ UNCHANGED <<pageVars, creating>>
  BY DEF DirectoryAnswers
<1>2. PICK c : c = Head(calls)
  OBVIOUS
<1>3. \/ c.op = "releasePin" /\ PinReleased(c, Tail(calls))
      \/ c.op = "withdraw" /\ Withdrawn(c, Tail(calls))
      \/ c.op = "claimPin" /\ PinClaimed(c, Tail(calls))
      \/ c.op = "announce" /\ Announced(c, Tail(calls))
  BY <1>2 DEF DirectoryAnswers
<1>4. QED
  BY <1>1, <1>2, <1>3, ReleasedBooks, WithdrawnBooks, ClaimedBooks,
     AnnouncedBooks

-----------------------------------------------------------------------------
(* The request that creates the room, the watchers and other shares. *)

LEMMA EmptyBooks ==
    ASSUME FullInv, UNCHANGED <<pageVars, sock, calls>>, creating.step # "done",
           Early', ListedOK',
           Books(calls, meta', stored', pins', creating', net'),
           UNCHANGED <<meta, alarm>> \/ (alarm' = "grace" /\ ~meta'.masterSeen)
    PROVE  BooksInv' /\ GraceInv'
<1>1. /\ shown = NoPin /\ \A c \in Pages : status[c] = "off"
      /\ \A s \in Sockets : sock[s] = NoSocket
      /\ RestoreCalls(calls) = {}
  BY DEF FullInv, BooksInv, Early
<1>2. /\ status' = status /\ sock' = sock /\ calls' = calls
  BY DEF pageVars
<1>3. SendersOK(sock', meta', creating'.discoverable)
  <2>1. \A d : AuthsTrue(NoSocket, d)
    BY EmptySeq DEF AuthsTrue, NoSocket
  <2>2. \A room : MasterIn(NoSocket, room)
    BY DEF MasterIn, NoSocket
  <2>3. QED
    BY <1>1, <1>2, <2>1, <2>2 DEF SendersOK
<1>4. ShownOK(sock', ws'[Sender], status'[Sender], shown', meta')
  BY <1>1, <1>2 DEF ShownOK, Pages
<1>5. BooksInv'
  BY <1>2, <1>3, <1>4 DEF BooksInv
<1>6. Stay(calls', sock')
  BY <1>1, <1>2 DEF Stay, Restorers
<1>7. ASSUME Limit["earlyLosses"] = 0
      PROVE  GraceSet(meta', sock', calls', alarm')
  <2>1. GraceSet(meta, sock, calls, alarm)
    BY <1>7 DEF FullInv, GraceInv
  <2>2. CASE UNCHANGED <<meta, alarm>>
    BY <1>2, <2>1, <2>2 DEF GraceSet
  <2>3. CASE alarm' = "grace" /\ ~meta'.masterSeen
    BY <2>3 DEF GraceSet
  <2>4. QED
    BY <2>2, <2>3
<1>8. GraceInv'
  BY <1>6, <1>7 DEF GraceInv
<1>9. QED
  BY <1>5, <1>8

LEMMA CreateBooks ==
    ASSUME FullInv, UNCHANGED pageVars, CreateStep
    PROVE  BooksInv' /\ GraceInv'
<1>1. /\ Books(calls, meta, stored, pins, creating, net)
      /\ pins \in [Pins -> {"free", "ours", "other"}]
      /\ Early /\ ListedOK
  BY CallsSeq DEF FullInv, BooksInv
<1>2. status' = status /\ shown' = shown
  BY DEF pageVars
<1>3. ASSUME NEW d \in BOOLEAN, NEW keys \in Networks, CreateClaims(d, keys)
      PROVE  BooksInv' /\ GraceInv'
  <2>1. PICK pin \in Claimable(NoPin) :
            /\ pins' = [pins EXCEPT ![pin] = "ours"]
            /\ creating' = [step |-> "claimed", pin |-> pin,
                            discoverable |-> d, keys |-> keys]
    BY <1>3 DEF CreateClaims
  <2>2. /\ creating.step = "new" /\ pin \in Pins
        /\ UNCHANGED <<meta, stored, alarm, sock, calls, listedUnder, net,
                       watching, nearby>>
    BY <1>3 DEF CreateClaims, Claimable, Free
  <2>3. shown = NoPin /\ calls = <<>> /\ net = {} /\ ~meta.open /\ ~stored.open
    BY <1>1, <2>2 DEF Early
  <2>4. Books(calls, meta', stored', pins', creating', net')
    <3>1. PICK owner2, new2 : owner2 = pins' /\ new2 = creating'
      OBVIOUS
    <3>2. new2.pin = pin /\ new2.step = "claimed"
      BY <2>1, <3>1
    <3>3. Books(calls, meta, stored, owner2, new2, net)
      BY <1>1, <2>1, <2>2, <2>3, <3>1, <3>2, BooksClaimed
    <3>4. QED
      BY <2>2, <3>1, <3>3
  <2>5. Early'
    BY <1>1, <1>2, <2>1, <2>2, <2>3 DEF Early
  <2>6. ListedOK'
    BY <1>1, <2>2 DEF ListedOK
  <2>7. QED
    BY <2>2, <2>4, <2>5, <2>6, EmptyBooks
<1>4. CASE CreateInits
  <2>1. /\ creating.step = "claimed" /\ stored' = meta' /\ alarm' = "grace"
        /\ meta' = NewRoom(creating.pin, creating.discoverable, FALSE)
        /\ creating' = [creating EXCEPT !.step = "inited"]
        /\ UNCHANGED <<sock, calls, pins, listedUnder, net, watching, nearby>>
    BY <1>4 DEF CreateInits, directoryVars
  <2>2. shown = NoPin /\ calls = <<>> /\ net = {} /\ ~meta.open
    BY <1>1, <2>1 DEF Early
  <2>3. /\ meta'.open = TRUE /\ meta'.pin = creating.pin
        /\ meta'.discoverable = creating.discoverable
        /\ meta'.masterSeen = FALSE
    BY <2>1 DEF NewRoom
  <2>4. /\ creating'.step = "inited"
        /\ creating'.discoverable = creating.discoverable
    BY <2>1 DEF FullInv, BaseInv, CreatingOK
  <2>5. Books(calls, meta', stored', pins', creating', net')
    <3>1. PICK room2, new2 : room2 = meta' /\ new2 = creating'
      OBVIOUS
    <3>2. /\ room2.open = TRUE /\ room2.pin = creating.pin
          /\ room2.discoverable = creating.discoverable
          /\ new2.step = "inited" /\ new2.discoverable = creating.discoverable
      BY <2>3, <2>4, <3>1
    <3>3. Books(calls, room2, room2, pins, new2, net)
      BY <1>1, <2>1, <2>2, <3>2, BooksInited
    <3>4. QED
      BY <2>1, <3>1, <3>3
  <2>6. Early'
    BY <1>1, <1>2, <2>1, <2>2, <2>3, <2>4 DEF Early
  <2>7. ListedOK'
    BY <1>1, <2>1 DEF ListedOK
  <2>8. QED
    BY <2>1, <2>3, <2>5, <2>6, <2>7, EmptyBooks
<1>5. CASE CreateAnnounces
  <2>1. PICK K : K = IF creating.discoverable THEN creating.keys ELSE {}
    OBVIOUS
  <2>2. /\ creating.step = "inited"
        /\ listedUnder' = (IF K = {} THEN listedUnder ELSE K)
        /\ net' = net \cup K
        /\ nearby' = [w \in Watchers |-> nearby[w] \/ watching[w] \cap K # {}]
        /\ creating' = [creating EXCEPT !.step = "done"]
        /\ UNCHANGED <<meta, stored, alarm, sock, calls, pins, watching>>
    BY <1>5, <2>1 DEF CreateAnnounces, Announce, OnAdd
  <2>3. shown = NoPin /\ calls = <<>> /\ net = {} /\ meta.open
    BY <1>1, <2>2 DEF Early
  <2>4. /\ creating'.step = "done"
        /\ creating'.discoverable = creating.discoverable
    BY <2>2 DEF FullInv, BaseInv, CreatingOK
  <2>5. net' # {} => creating.discoverable = TRUE
    <3>1. creating.discoverable \in BOOLEAN
      BY DEF FullInv, BaseInv, CreatingOK
    <3>2. QED
      BY <2>1, <2>2, <2>3, <3>1
  <2>6. Books(calls, meta', stored', pins', creating', net')
    <3>1. PICK N2, new2 : N2 = net' /\ new2 = creating'
      OBVIOUS
    <3>2. /\ new2.step = "done" /\ new2.discoverable = creating.discoverable
          /\ N2 # {} => creating.discoverable = TRUE
      BY <2>4, <2>5, <3>1
    <3>3. Books(calls, meta, stored, pins, new2, N2)
      BY <1>1, <2>2, <2>3, <3>2, BooksListed
    <3>4. QED
      BY <2>2, <3>1, <3>3
  <2>7. Early'
    BY <1>1, <1>2, <2>2, <2>3, <2>4 DEF Early
  <2>8. ListedOK'
    BY <1>1, <2>2, <2>3 DEF ListedOK
  <2>9. QED
    BY <2>2, <2>6, <2>7, <2>8, EmptyBooks
<1>6. QED
  BY <1>3, <1>4, <1>5 DEF CreateStep

\* Nothing of the share changes.
LEMMA AsideBooks ==
    ASSUME FullInv, UNCHANGED <<roomVars, pageVars>>, net' = net, ListedOK',
           PinsOK(pins', meta, calls, creating)
    PROVE  BooksInv' /\ GraceInv'
<1>1. /\ meta' = meta /\ stored' = stored /\ alarm' = alarm /\ sock' = sock
      /\ calls' = calls /\ creating' = creating
      /\ ws' = ws /\ status' = status /\ shown' = shown
  BY DEF roomVars, pageVars
<1>2. Books(calls, meta, stored, pins', creating, net)
  BY DEF FullInv, BooksInv, Books
<1>3. Early'
  BY <1>1 DEF FullInv, BooksInv, Early
<1>4. BooksInv'
  BY <1>1, <1>2, <1>3 DEF FullInv, BooksInv
<1>5. GraceInv'
  BY <1>1 DEF FullInv, GraceInv
<1>6. QED
  BY <1>4, <1>5

LEMMA OthersBooks ==
    ASSUME FullInv, UNCHANGED <<roomVars, pageVars>>,
           WatcherStep \/ OtherShareClaims
    PROVE  BooksInv' /\ GraceInv'
<1>1. PinsOK(pins, meta, calls, creating) /\ ListedOK
      /\ pins \in [Pins -> {"free", "ours", "other"}]
      /\ watching \in [Watchers -> SUBSET Keys]
      /\ nearby \in [Watchers -> BOOLEAN]
  BY CallsSeq DEF FullInv, BooksInv, Books, BaseInv, DirectoryTypeOK
<1>2. CASE OtherShareClaims
  <2>1. \A p : pins'[p] = "ours" <=> pins[p] = "ours"
    BY <1>1, <1>2 DEF OtherShareClaims, Free
  <2>2. PinsOK(pins', meta, calls, creating)
    BY <1>1, <2>1 DEF PinsOK
  <2>3. net' = net /\ ListedOK'
    BY <1>1, <1>2 DEF OtherShareClaims, ListedOK
  <2>4. QED
    BY <2>2, <2>3, AsideBooks
<1>3. ASSUME NEW w \in Watchers, NEW keys \in Networks, Watch(w, keys)
      PROVE  BooksInv' /\ GraceInv'
  <2>1. /\ watching' = [watching EXCEPT ![w] = keys]
        /\ nearby' = [nearby EXCEPT ![w] = keys \cap net # {}]
        /\ UNCHANGED <<pins, listedUnder, net>>
    BY <1>3 DEF Watch, OnOpen
  <2>2. ListedOK'
    BY <1>1, <2>1 DEF ListedOK
  <2>3. QED
    BY <1>1, <2>1, <2>2, AsideBooks
<1>4. ASSUME NEW w \in Watchers, Unwatch(w)
      PROVE  BooksInv' /\ GraceInv'
  <2>1. /\ watching' = [watching EXCEPT ![w] = {}]
        /\ UNCHANGED <<pins, listedUnder, net, nearby>>
    BY <1>4 DEF Unwatch
  <2>2. ListedOK'
    BY <1>1, <2>1 DEF ListedOK
  <2>3. QED
    BY <1>1, <2>1, <2>2, AsideBooks
<1>5. QED
  BY <1>2, <1>3, <1>4 DEF WatcherStep

-----------------------------------------------------------------------------
(* The pages and the network. *)

\* Once a page does anything, the share it belongs to has been created.
LEMMA Acting ==
    ASSUME FullInv, NEW c \in Pages, ws[c] # NoWs \/ status[c] # "off"
    PROVE  creating.step = "done" /\ shown # NoPin
<1>1. PagesOK /\ Early
  BY InvParts DEF FullInv, BooksInv
<1>2. status[c] # "off"
  BY <1>1 DEF PagesOK, Stopped
<1>3. QED
  BY <1>1, <1>2 DEF Early

\* What is left to show of a step of the pages or of the network.
LEMMA PageBooks ==
    ASSUME FullInv, UNCHANGED roomsOwn, creating.step = "done", shown' # NoPin,
           SendersOK(sock', meta, creating.discoverable),
           Masters(sock') = Masters(sock), NoneGoes(sock, sock'),
           ShownOK(sock', ws'[Sender], status'[Sender], shown', meta)
    PROVE  BooksInv' /\ GraceInv'
<1>1. /\ UNCHANGED <<meta, stored, alarm, calls, creating>>
      /\ UNCHANGED <<pins, net, listedUnder, watching, nearby>>
  BY DEF roomsOwn, directoryVars
<1>2. Early'
  BY <1>1 DEF Early
<1>3. BooksInv'
  BY <1>1, <1>2 DEF FullInv, BooksInv, ListedOK
<1>4. ASSUME Limit["earlyLosses"] = 0
      PROVE  Stay(calls, sock') /\ GraceSet(meta, sock', calls, alarm)
  <2>1. Stay(calls, sock) /\ GraceSet(meta, sock, calls, alarm)
    BY <1>4 DEF FullInv, GraceInv
  <2>2. Stay(calls, sock')
    BY <2>1, CallsSeq, StayKept
  <2>3. GraceSet(meta, sock', calls, alarm)
    BY <2>1 DEF GraceSet
  <2>4. QED
    BY <2>2, <2>3
<1>5. GraceInv'
  BY <1>1, <1>4 DEF GraceInv
<1>6. QED
  BY <1>3, <1>5

\* A page does what makes no sender of a websocket, nor takes one away.
LEMMA MildBooks ==
    ASSUME FullInv, UNCHANGED roomsOwn, AllMild(sock, sock'),
           creating.step = "done", shown' # NoPin,
           ShownOK(sock', ws'[Sender], status'[Sender], shown', meta)
    PROVE  BooksInv' /\ GraceInv'
<1>1. /\ SendersOK(sock', meta, creating.discoverable)
      /\ Masters(sock') = Masters(sock) /\ NoneGoes(sock, sock')
  BY CallsSeq, MildSenders, MildServers
<1>2. QED
  BY <1>1, PageBooks

\* The sender's page is not connected, or is as it was.
LEMMA ShownStays ==
    ASSUME FullInv, NoneOpens(sock, sock'),
           \/ ws'[Sender] = NoWs \/ status'[Sender] # "open"
           \/ /\ ws'[Sender] = ws[Sender] /\ status'[Sender] = status[Sender]
              /\ shown' = shown
    PROVE  ShownOK(sock', ws'[Sender], status'[Sender], shown', meta)
<1>1. /\ ws[Sender] \in Sockets \cup {NoWs}
      /\ ShownOK(sock, ws[Sender], status[Sender], shown, meta)
  BY InvParts DEF FullInv, BooksInv, Pages
<1>2. QED
  BY <1>1 DEF ShownOK, NoneOpens

\* A page lets go of its websocket.
LEMMA StopBooks ==
    ASSUME FullInv, UNCHANGED roomsOwn, NEW c \in Pages,
           ws[c] # NoWs \/ status[c] # "off",
           NEW sk \in SockMap, AllMild(sock, sk), sock' = HungUp(sk, ws[c]),
           ws' = [ws EXCEPT ![c] = NoWs],
           shown' # NoPin,
           c # Sender => status'[Sender] = status[Sender] /\ shown' = shown
    PROVE  BooksInv' /\ GraceInv'
<1>1. ws \in [Pages -> Sockets \cup {NoWs}]
  BY InvParts DEF FullInv
<1>2. PICK sk2 : sk2 = sock'
  OBVIOUS
<1>3. AllMild(sk, sk2)
  BY <1>1, <1>2, HungUpMild
<1>4. AllMild(sock, sock') /\ NoneOpens(sock, sock')
  BY <1>2, <1>3, AllMildTrans, MildServers
<1>5. ShownOK(sock', ws'[Sender], status'[Sender], shown', meta)
  BY <1>1, <1>4, ShownStays DEF Pages
<1>6. QED
  BY <1>4, <1>5, Acting, MildBooks

\* A page has sent m, or has read what was first on its websocket.
LEMMA SentMild ==
    ASSUME FullInv, NEW c \in Pages, ws[c] # NoWs, NEW sk \in SockMap,
           NEW m \in ClientMsg, m.t # "auth",
           NEW sk2, sk2 = Sent(sk, c, m)
    PROVE  AllMild(sk, sk2)
<1>1. ws[c] \in Sockets
  BY InvParts DEF FullInv
<1>2. PICK s : s = ws[c]
  OBVIOUS
<1>3. s \in Sockets
  BY <1>1, <1>2
<1>4. CASE sk2 = sk
  BY <1>4, MildSelf DEF AllMild
<1>5. CASE sk2 = [sk EXCEPT ![s].toServer = Append(@, m)]
  <2>1. sk2 = [sk EXCEPT ![s] = [sk[s] EXCEPT !.toServer = Append(@, m)]]
    BY <1>5, Zenon
  <2>2. PICK k2 : k2 = [sk[s] EXCEPT !.toServer = Append(@, m)]
    OBVIOUS
  <2>3. Milder(sk[s], k2)
    BY <1>3, <2>2, TakeMild DEF SockMap
  <2>4. QED
    BY <1>3, <2>1, <2>2, <2>3, OneMild
<1>6. QED
  BY <1>2, <1>4, <1>5 DEF Sent

LEMMA PoppedMild ==
    ASSUME FullInv, NEW c \in Pages, ws[c] # NoWs, sock[ws[c]].toClient # <<>>,
           NEW sk, sk = Popped(ws[c])
    PROVE  AllMild(sock, sk) /\ sk \in SockMap
<1>1. ws[c] \in Sockets /\ sock \in SockMap
  BY InvParts DEF FullInv
<1>2. PICK s : s = ws[c]
  OBVIOUS
<1>3. s \in Sockets /\ sock[s] \in Socket /\ sock[s].toClient # <<>>
  BY <1>1, <1>2 DEF SockMap
<1>4. PICK k2 : k2 = [sock[s] EXCEPT !.toClient = Tail(@)]
  OBVIOUS
<1>5. Milder(sock[s], k2) /\ k2 \in Socket
  <2>1. Tail(sock[s].toClient) \in Seq(ServerMsg)
    BY <1>3, FieldTypes, EmptySeq, HeadTailProperties
  <2>2. QED
    BY <1>3, <1>4, <2>1, TakeMild, ToClientType
<1>6. sk = [sock EXCEPT ![s] = k2]
  BY <1>2, <1>4, Zenon DEF Popped
<1>7. QED
  BY <1>1, <1>3, <1>5, <1>6, OneMild DEF SockMap

\* It is still connected.
LEMMA KeepBooks ==
    ASSUME FullInv, UNCHANGED roomsOwn, UNCHANGED <<ws, status, shown>>,
           AllMild(sock, sock'), creating.step = "done", shown # NoPin
    PROVE  BooksInv' /\ GraceInv'
<1>1. ShownOK(sock', ws'[Sender], status'[Sender], shown', meta)
  BY MildServers, ShownStays
<1>2. QED
  BY <1>1, MildBooks

LEMMA UsersBooks ==
    ASSUME FullInv,
           \/ \E c \in Pages : Hurry(c) \/ NoticeLoss(c) \/ SendSignal(c)
           \/ SenderStarts \/ \E c \in Receivers : ReceiverOpens(c)
           \/ SenderEnds \/ \E c \in Receivers : ReceiverLeaves(c)
           \/ SenderReloads
           \/ \E s \in Sockets : Drop(s)
    PROVE  BooksInv' /\ GraceInv'
<1>1. /\ ws \in [Pages -> Sockets \cup {NoWs}] /\ status \in [Pages -> Status]
      /\ sock \in SockMap /\ PagesOK /\ Sender \in Pages
      /\ Receivers \subseteq Pages /\ Sender \notin Receivers
  BY InvParts DEF FullInv, Pages
<1>2. AllMild(sock, sock)
  BY MildSelf DEF AllMild
<1>3. ASSUME NEW c \in Pages, Hurry(c) \/ NoticeLoss(c)
      PROVE  BooksInv' /\ GraceInv'
  <2>1. /\ UNCHANGED roomsOwn /\ ws[c] # NoWs
        /\ sock' = HungUp(sock, ws[c]) /\ ws' = [ws EXCEPT ![c] = NoWs]
        /\ shown' = shown
        /\ c # Sender => status'[Sender] = status[Sender]
    BY <1>1, <1>3 DEF Hurry, NoticeLoss, Lost, roomsOwn
  <2>2. QED
    BY <1>1, <1>2, <2>1, Acting, StopBooks
<1>4. ASSUME NEW c \in Pages, SendSignal(c)
      PROVE  BooksInv' /\ GraceInv'
  <2>1. /\ status[c] = "open" /\ UNCHANGED roomsOwn
        /\ UNCHANGED <<ws, status, shown>>
    BY <1>4 DEF SendSignal, roomsOwn, pageVars
  <2>2. PICK i \in Ids \cup {NoId} : sock' = Sent(sock, c, Signal(i))
    BY <1>4, InvParts DEF SendSignal, FullInv, ShareTypeOK
  <2>3. Signal(i) \in ClientMsg /\ Signal(i).t # "auth"
    BY MessageTypes DEF Signal
  <2>4. ws[c] # NoWs
    BY <2>1, InvParts DEF FullInv, Good, SocksInv, Welcomed
  <2>5. AllMild(sock, sock')
    BY <1>1, <2>2, <2>3, <2>4, SentMild
  <2>6. QED
    BY <2>1, <2>4, <2>5, Acting, KeepBooks
<1>5. CASE SenderStarts
  <2>1. /\ creating.step = "done" /\ shown' = creating.pin
        /\ UNCHANGED roomsOwn /\ sock' = sock /\ ws' = ws
        /\ status' = [status EXCEPT ![Sender] = "connecting"]
    BY <1>5 DEF SenderStarts, SenderSession, roomVars, roomsOwn
  <2>2. shown' # NoPin
    BY <2>1, PinCreated DEF FullInv
  <2>3. ShownOK(sock', ws'[Sender], status'[Sender], shown', meta)
    BY <1>1, <2>1 DEF ShownOK
  <2>4. QED
    BY <1>2, <2>1, <2>2, <2>3, MildBooks
<1>6. ASSUME NEW c \in Receivers, ReceiverOpens(c)
      PROVE  BooksInv' /\ GraceInv'
  <2>1. /\ shown # NoPin /\ shown' = shown
        /\ UNCHANGED roomsOwn /\ sock' = sock /\ ws' = ws
        /\ status' = [status EXCEPT ![c] = "connecting"]
    BY <1>6 DEF ReceiverOpens, roomVars, roomsOwn
  <2>2. creating.step = "done"
    BY <2>1 DEF FullInv, BooksInv, Early
  <2>3. status'[Sender] = status[Sender]
    BY <1>1, <2>1
  <2>4. ShownOK(sock', ws'[Sender], status'[Sender], shown', meta)
    BY <2>1, <2>3 DEF FullInv, BooksInv
  <2>5. QED
    BY <1>2, <2>1, <2>2, <2>4, MildBooks
<1>7. CASE SenderEnds
  <2>1. PICK sk : /\ sk = IF status[Sender] = "open"
                          THEN Sent(sock, Sender, Close) ELSE sock
                  /\ sock' = HungUp(sk, ws[Sender])
    BY <1>7 DEF SenderEnds, Stop
  <2>2. /\ ~Stopped(Sender) /\ UNCHANGED roomsOwn /\ shown' = shown
        /\ ws' = [ws EXCEPT ![Sender] = NoWs]
    BY <1>7 DEF SenderEnds, Stop, roomsOwn
  <2>3. sk \in SockMap /\ AllMild(sock, sk)
    <3>1. CASE status[Sender] = "open"
      <4>1. ws[Sender] # NoWs
        BY <1>1, <3>1, InvParts DEF FullInv, Good, SocksInv, Welcomed
      <4>2. Close \in ClientMsg /\ Close.t # "auth"
        BY MessageTypes DEF Close
      <4>3. sk \in SockMap
        BY <1>1, <2>1, <3>1, <4>1, <4>2, InvParts, SentGood
           DEF FullInv, Good, SocksInv
      <4>4. QED
        BY <1>1, <2>1, <3>1, <4>1, <4>2, <4>3, SentMild
    <3>2. CASE status[Sender] # "open"
      BY <1>1, <1>2, <2>1, <3>2
    <3>3. QED
      BY <3>1, <3>2
  <2>4. QED
    BY <1>1, <2>1, <2>2, <2>3, Acting, StopBooks DEF Stopped
<1>8. ASSUME NEW c \in Receivers, ReceiverLeaves(c)
      PROVE  BooksInv' /\ GraceInv'
  <2>1. /\ ~Stopped(c) /\ UNCHANGED roomsOwn /\ shown' = shown
        /\ sock' = HungUp(sock, ws[c]) /\ ws' = [ws EXCEPT ![c] = NoWs]
        /\ status' = [status EXCEPT ![c] = "closed"]
    BY <1>8 DEF ReceiverLeaves, Stop, roomsOwn
  <2>2. c \in Pages /\ status'[Sender] = status[Sender]
    BY <1>1, <2>1
  <2>3. QED
    BY <1>1, <1>2, <2>1, <2>2, Acting, StopBooks DEF Stopped
<1>9. CASE SenderReloads
  <2>1. /\ ~Stopped(Sender) /\ UNCHANGED roomsOwn /\ shown' = creating.pin
        /\ sock' = HungUp(sock, ws[Sender]) /\ ws' = [ws EXCEPT ![Sender] = NoWs]
    BY <1>9 DEF SenderReloads, endShare, Stop, savedShare, roomsOwn
  <2>2. shown' # NoPin
    BY <1>1, <2>1, Active, PinCreated DEF FullInv
  <2>3. QED
    BY <1>1, <1>2, <2>1, <2>2, StopBooks DEF Stopped
<1>10. ASSUME NEW s \in Sockets, Drop(s)
       PROVE  BooksInv' /\ GraceInv'
  <2>1. /\ sock[s].server # "gone" /\ UNCHANGED roomsOwn
        /\ UNCHANGED <<ws, status, shown>>
        /\ sock' = [sock EXCEPT ![s].up = FALSE, ![s].toServer = <<>>,
                                ![s].toClient = <<>>]
    BY <1>10 DEF Drop, roomsOwn, pageVars
  <2>2. PICK k2 : k2 = [sock[s] EXCEPT !.up = FALSE, !.toServer = <<>>,
                                       !.toClient = <<>>]
    OBVIOUS
  <2>3. sock' = [sock EXCEPT ![s] = k2]
    BY <1>1, <2>1, <2>2 DEF SockMap, Socket
  <2>4. AllMild(sock, sock')
    BY <1>1, <2>2, <2>3, TakeMild, OneMild DEF SockMap
  <2>5. sock[s] # NoSocket
    BY <2>1 DEF NoSocket
  <2>6. QED
    BY <2>1, <2>4, <2>5, Begun, KeepBooks DEF FullInv, BooksInv
<1>11. QED
  BY <1>3, <1>4, <1>5, <1>6, <1>7, <1>8, <1>9, <1>10

\* A page connects.  The sender's asks for what its share was created with.
LEMMA ConnectBooks ==
    ASSUME FullInv, NEW c \in Pages, Connect(c)
    PROVE  BooksInv' /\ GraceInv'
<1>1. /\ ws \in [Pages -> Sockets \cup {NoWs}] /\ sock \in SockMap
      /\ SendersOK(sock, meta, creating.discoverable)
  BY InvParts, CallsSeq DEF FullInv
<1>2. PICK s, keys : /\ s \in Sockets /\ keys \in Networks /\ Unused(s)
                     /\ ws' = [ws EXCEPT ![c] = s]
                     /\ sock' = [sock EXCEPT ![s] = Accepted(Auth(c, keys))]
  BY DEF Connect
<1>3. /\ UNCHANGED roomsOwn /\ status' = status /\ shown' = shown
      /\ status[c] \in {"connecting", "reconnecting", "ending"}
  BY DEF Connect, roomsOwn
<1>4. creating.step = "done" /\ shown # NoPin
  BY <1>3, Acting
<1>5. PICK m : m = Auth(c, keys)
  OBVIOUS
<1>6. PICK k : k = Accepted(m)
  OBVIOUS
<1>7. /\ k.role = "none" /\ k.server = "open" /\ k.toServer = <<m>>
  BY <1>6 DEF Accepted, NoSocket
<1>8. /\ sock[s] = NoSocket /\ sock'[s] = k
      /\ \A q \in Sockets : q # s => sock'[q] = sock[q]
  BY <1>1, <1>2, <1>5, <1>6 DEF Unused, SockMap
<1>9. /\ NoSocket.role = "none" /\ NoSocket.server = "gone"
  BY DEF NoSocket
<1>10. AuthsTrue(k, creating.discoverable)
  <2>1. m.role = "master" => m.discoverable = creating.discoverable
    BY <1>5 DEF Auth, AuthMaster, AuthPeer
  <2>2. \A i \in DOMAIN <<m>> : <<m>>[i] = m
    OBVIOUS
  <2>3. QED
    BY <1>7, <2>1, <2>2 DEF AuthsTrue
<1>11. SendersOK(sock', meta, creating.discoverable)
  BY <1>1, <1>7, <1>8, <1>10 DEF SendersOK, MasterIn
<1>12. Masters(sock') = Masters(sock) /\ NoneGoes(sock, sock')
  BY <1>7, <1>8, <1>9 DEF Masters, Present, NoneGoes
<1>13. ShownOK(sock', ws'[Sender], status'[Sender], shown', meta)
  <2>1. CASE c = Sender
    BY <1>3, <2>1 DEF ShownOK
  <2>2. CASE c # Sender
    <3>1. ws'[Sender] = ws[Sender] /\ ws[Sender] \in Sockets \cup {NoWs}
      BY <1>1, <1>2, <2>2 DEF Pages
    <3>2. ASSUME status[Sender] = "open"
          PROVE  ws[Sender] # s
      <4>1. sock[ws[Sender]].role = "master"
        BY <3>2, InvParts DEF FullInv, Good, SocksInv, Welcomed, Side, Pages
      <4>2. QED
        BY <1>8, <1>9, <4>1
    <3>3. ShownOK(sock, ws[Sender], status[Sender], shown, meta)
      BY DEF FullInv, BooksInv
    <3>4. QED
      BY <1>3, <1>8, <3>1, <3>2, <3>3 DEF ShownOK
  <2>3. QED
    BY <2>1, <2>2
<1>14. QED
  BY <1>3, <1>4, <1>11, <1>12, <1>13, PageBooks

\* What the sender's page is welcomed with is its room's PIN.
LEMMA OnWelcomeBooks ==
    ASSUME FullInv, NEW c \in Pages, ws[c] # NoWs, sock[ws[c]].toClient # <<>>,
           NEW m, m = Head(sock[ws[c]].toClient), m.t = "welcome",
           OnWelcome(c, m), UNCHANGED roomsOwn
    PROVE  BooksInv' /\ GraceInv'
<1>1. /\ ws[c] \in Sockets /\ sock \in SockMap /\ ws' = ws /\ m \in ServerMsg
      /\ Sender \in Pages /\ status \in [Pages -> Status]
  BY InvParts, FirstMessage DEF FullInv, OnWelcome, Pages
<1>2. PICK s \in Sockets : s = ws[c]
  BY <1>1
<1>3. PICK sk : sk = Popped(s)
  OBVIOUS
<1>4. AllMild(sock, sk) /\ sk \in SockMap
  BY <1>2, <1>3, PoppedMild
<1>5. creating.step = "done" /\ shown # NoPin
  BY Acting
<1>6. CASE status[c] = "ending"
  <2>1. /\ sock' = Sent(sk, c, Close) /\ UNCHANGED <<ws, status, shown>>
    BY <1>2, <1>3, <1>6 DEF OnWelcome
  <2>2. Close \in ClientMsg /\ Close.t # "auth"
    BY MessageTypes DEF Close
  <2>3. PICK sk2 : sk2 = sock'
    OBVIOUS
  <2>4. AllMild(sk, sk2)
    BY <1>4, <2>1, <2>2, <2>3, SentMild
  <2>5. AllMild(sock, sock')
    BY <1>4, <2>3, <2>4, AllMildTrans
  <2>6. QED
    BY <1>5, <2>1, <2>5, KeepBooks
<1>7. CASE status[c] # "ending" /\ c # Sender
  <2>1. /\ sock' = sk /\ shown' = shown
        /\ status' = [status EXCEPT ![c] = "open"]
    BY <1>2, <1>3, <1>7 DEF OnWelcome
  <2>2. status'[Sender] = status[Sender]
    BY <1>1, <1>7, <2>1
  <2>3. ShownOK(sock', ws'[Sender], status'[Sender], shown', meta)
    BY <1>1, <1>4, <2>1, <2>2, MildServers, ShownStays
  <2>4. QED
    BY <1>4, <1>5, <2>1, <2>3, MildBooks
<1>8. CASE status[c] # "ending" /\ c = Sender
  <2>1. sock' = sk /\ shown' = m.pin
    BY <1>2, <1>3, <1>8 DEF OnWelcome
  <2>2. m.role = "master" /\ sk[s].role = "master"
    <3>1. PICK T2 : T2 = told \cup m.peers
      OBVIOUS
    <3>2. Heeds(c, m, status, told, T2)
      BY <1>1, <1>8, <3>1, Learned DEF Heeds
    <3>3. WelcomedAs(m, c, sk[s], s, Restorers(calls))
      BY <1>2, <1>3, <3>2, ReadInv DEF FullInv
    <3>4. QED
      BY <1>8, <3>3 DEF WelcomedAs, Side
  <2>3. m \in Welcomes /\ m.pin \in Pins
    BY <1>1, <2>2, MessageFields DEF ServerMsg
  <2>4. Holds(sock[s], m)
    <3>1. sock[s].toClient \in Seq(ServerMsg)
      BY <1>1, FieldTypes DEF SockMap
    <3>2. 1 \in DOMAIN sock[s].toClient /\ sock[s].toClient[1] = m
      BY <1>2, <3>1, EmptySeq, HeadTailProperties
    <3>3. QED
      BY <3>2 DEF Holds
  <2>5. sk[s].server = "open" => m.pin = meta.pin
    <3>1. Milder(sock[s], sk[s]) /\ MasterIn(sock[s], meta)
      BY <1>4, CallsSeq DEF AllMild, SendersOK
    <3>2. QED
      BY <2>2, <2>3, <2>4, <3>1 DEF Milder, MasterIn
  <2>6. ShownOK(sock', ws'[Sender], status'[Sender], shown', meta)
    BY <1>1, <1>2, <1>8, <2>1, <2>5 DEF ShownOK
  <2>7. shown' # NoPin
    BY <2>1, <2>3
  <2>8. QED
    BY <1>4, <1>5, <2>1, <2>6, <2>7, MildBooks
<1>9. QED
  BY <1>6, <1>7, <1>8

LEMMA OnMessageBooks ==
    ASSUME FullInv, NEW c \in Pages, OnMessage(c)
    PROVE  BooksInv' /\ GraceInv'
<1> DEFINE m == Head(sock[ws[c]].toClient)
<1>1. /\ ws[c] # NoWs /\ sock[ws[c]].toClient # <<>> /\ UNCHANGED roomsOwn
      /\ status \in [Pages -> Status] /\ Sender \in Pages
  BY InvParts DEF OnMessage, roomsOwn, FullInv, Pages
<1>2. PICK sk : sk = Popped(ws[c])
  OBVIOUS
<1>3. AllMild(sock, sk) /\ sk \in SockMap
  BY <1>1, <1>2, PoppedMild
<1>4. creating.step = "done" /\ shown # NoPin
  BY <1>1, Acting
<1>5. CASE m.t = "welcome" /\ OnWelcome(c, m)
  BY <1>1, <1>5, OnWelcomeBooks
<1>6. CASE sock' = Popped(ws[c]) /\ UNCHANGED <<ws, status, shown>>
  BY <1>1, <1>2, <1>3, <1>4, <1>6, KeepBooks
<1>7. ASSUME NEW st, Stop(c, st, Popped(ws[c])), shown' = shown
      PROVE  BooksInv' /\ GraceInv'
  <2>1. /\ sock' = HungUp(sk, ws[c]) /\ ws' = [ws EXCEPT ![c] = NoWs]
        /\ status' = [status EXCEPT ![c] = st]
    BY <1>2, <1>7 DEF Stop
  <2>2. c # Sender => status'[Sender] = status[Sender]
    BY <1>1, <2>1
  <2>3. QED
    BY <1>1, <1>3, <1>4, <1>7, <2>1, <2>2, StopBooks
<1>8. CASE Lost(c) /\ sock' = HungUp(Popped(ws[c]), ws[c]) /\ shown' = shown
  <2>1. PICK st : status' = [status EXCEPT ![c] = st]
    BY <1>8 DEF Lost
  <2>2. Stop(c, st, Popped(ws[c]))
    BY <1>8, <2>1 DEF Lost, Stop
  <2>3. QED
    BY <1>7, <1>8, <2>2
<1>9. QED
  <2>1. CASE OnPresence(c, m)
    BY <1>6, <2>1 DEF OnPresence
  <2>2. CASE OnError(c, m)
    BY <1>6, <1>7, <2>2 DEF OnError
  <2>3. QED
    BY <1>5, <1>7, <1>8, <2>1, <2>2 DEF OnMessage

-----------------------------------------------------------------------------
(* The invariant. *)

LEMMA InitFull == Init => FullInv
<1> SUFFICES ASSUME Init PROVE FullInv
  OBVIOUS
<1>1. /\ calls = <<>> /\ DOMAIN calls = {} /\ net = {} /\ listedUnder = {}
      /\ ~meta.open /\ stored = meta /\ meta.open = FALSE
      /\ creating.step = "new" /\ shown = NoPin
      /\ \A c \in Pages : status[c] = "off"
      /\ \A s \in Sockets : sock[s] = NoSocket
      /\ \A p \in Pins : pins[p] = "free"
      /\ \A w \in Watchers : nearby[w] = FALSE
  BY EmptySeq DEF Init, RoomInit, NoRoom
<1>2. RestoreCalls(calls) = {} /\ Wipers(calls) = {}
  BY <1>1 DEF RestoreCalls, Wipers
<1>3. Early /\ ListedOK
  BY <1>1, <1>2 DEF Early, ListedOK
<1>4. Books(calls, meta, stored, pins, creating, net)
  BY <1>1, <1>2 DEF Books, OneRestore, CallOrder, SavedOK, PinsOK, ListedWhen
<1>5. SendersOK(sock, meta, creating.discoverable)
  <2>1. \A d : AuthsTrue(NoSocket, d)
    BY EmptySeq DEF AuthsTrue, NoSocket
  <2>2. \A room : MasterIn(NoSocket, room)
    BY DEF MasterIn, NoSocket
  <2>3. QED
    BY <1>1, <2>1, <2>2 DEF SendersOK
<1>6. ShownOK(sock, ws[Sender], status[Sender], shown, meta)
  BY <1>1 DEF ShownOK, Pages
<1>7. GraceInv
  BY <1>1, <1>2 DEF GraceInv, Stay, Restorers, GraceSet
<1>8. QED
  BY <1>3, <1>4, <1>5, <1>6, <1>7, InitInv DEF FullInv, BooksInv

LEMMA NextFull ==
    ASSUME Limit["twins"] = 0
    PROVE  FullInv /\ [Next]_vars => FullInv'
<1> SUFFICES ASSUME FullInv, [Next]_vars PROVE BooksInv' /\ GraceInv'
  BY NextInv DEF FullInv
<1>1. CASE UNCHANGED vars
  <2>1. UNCHANGED <<roomVars, pageVars>> /\ net' = net /\ pins' = pins /\ ListedOK'
    BY <1>1 DEF vars, directoryVars, FullInv, BooksInv, ListedOK
  <2>2. PinsOK(pins', meta, calls, creating)
    BY <2>1 DEF FullInv, BooksInv, Books
  <2>3. QED
    BY <2>1, <2>2, AsideBooks
<1>2. CASE RoomStep /\ UNCHANGED pageVars
  BY <1>2, OnSocketEventBooks, OtherEventsBooks, DirectoryAnswersBooks,
     AlarmBooks, HibernateBooks DEF RoomStep
<1>3. CASE CreateStep /\ UNCHANGED <<pageVars, spent>>
  BY <1>3, CreateBooks
<1>4. CASE \/ WatcherStep /\ UNCHANGED <<roomVars, pageVars, spent>>
           \/ Spend("others") /\ OtherShareClaims /\ UNCHANGED <<roomVars, pageVars>>
  BY <1>4, OthersBooks
<1>5. CASE \/ \E c \in Pages : Hurry(c) \/ NoticeLoss(c)
           \/ SenderStarts /\ UNCHANGED spent
           \/ \E c \in Receivers : ReceiverOpens(c) /\ UNCHANGED spent
           \/ SenderEnds /\ UNCHANGED spent
           \/ \E c \in Receivers : Spend("leaves") /\ ReceiverLeaves(c)
           \/ Spend("reloads") /\ SenderReloads
           \/ \E c \in Pages : Spend("signals") /\ SendSignal(c)
           \/ \E s \in Sockets : Spend("drops") /\ Drop(s)
  BY <1>5, UsersBooks
<1>6. CASE \E c \in Pages : Connect(c) \/ OnMessage(c)
  BY <1>6, ConnectBooks, OnMessageBooks
<1>7. QED
  BY <1>1, <1>2, <1>3, <1>4, <1>5, <1>6 DEF Next

\* The books of a share are kept, as long as its sender's page restores it on
\* one socket at a time.
THEOREM BooksKept ==
    ASSUME Limit["twins"] = 0
    PROVE  Spec => []FullInv
<1>1. FullInv /\ [Next]_vars => FullInv'
  BY NextFull
<1>2. QED
  BY <1>1, InitFull, PTL DEF Spec

-----------------------------------------------------------------------------
(* What it gives. *)

\* The PIN a connected sender's page shows leads its receivers to the room
\* that the sender is in: restore() tells it of a PIN it had to change, and no
\* close, crash or other share's claim in between gives the PIN away.
THEOREM PinShownHolds ==
    ASSUME Limit["twins"] = 0
    PROVE  Spec => []PinShown
<1>1. ASSUME FullInv PROVE PinShown
  <2> SUFFICES ASSUME status[Sender] = "open", meta.open,
                      sock[ws[Sender]].server = "open"
               PROVE  shown = meta.pin /\ lookup(shown) = "ours"
    BY DEF PinShown
  <2>1. ws[Sender] # NoWs
    BY <1>1, InvParts DEF FullInv, Good, SocksInv, Welcomed, Pages
  <2>2. shown = meta.pin /\ pins[meta.pin] = "ours"
    BY <1>1, <2>1 DEF FullInv, BooksInv, ShownOK, Books, PinsOK
  <2>3. QED
    BY <2>2 DEF lookup
<1>2. QED
  BY <1>1, BooksKept, PTL

\* Once closeRoom() has done all it has to, nothing of the share is left: no
\* PIN is its own, no directory lists it, and nobody nearby still sees it.
THEOREM NothingLeftBehindHolds ==
    ASSUME Limit["twins"] = 0
    PROVE  Spec => []NothingLeftBehind
<1>1. ASSUME FullInv, Idle, ~meta.open
      PROVE  /\ \A p \in Pins : pins[p] # "ours"
             /\ net = {} /\ listedUnder = {}
             /\ \A w \in Watchers : watching[w] # {} => ~nearby[w]
  <2>1. /\ PinsOK(pins, meta, calls, creating) /\ ListedOK
        /\ ListedWhen(net, calls, meta.open, creating.discoverable)
    BY <1>1 DEF FullInv, BooksInv, Books
  <2>2. /\ DOMAIN calls = {} /\ Wipers(calls) = {}
        /\ creating.step # "claimed"
    BY <1>1, BooksEmpty DEF Idle
  <2>3. \A p \in Pins : pins[p] # "ours"
    BY <1>1, <2>1, <2>2 DEF PinsOK
  <2>4. net = {}
    BY <1>1, <2>1, <2>2 DEF ListedWhen
  <2>5. QED
    BY <2>1, <2>3, <2>4 DEF ListedOK
<1>2. FullInv => NothingLeftBehind
  BY <1>1 DEF NothingLeftBehind
<1>3. QED
  BY <1>2, BooksKept, PTL

\* A share closes when its sender stays away: whenever nothing is under way
\* and no sender is connected, the alarm is set for the end of the grace
\* period, and will not take the sender for one that is still to come.
THEOREM GraceHoldsAlways ==
    ASSUME Limit["twins"] = 0, Limit["earlyLosses"] = 0
    PROVE  Spec => []GraceHolds
<1>1. ASSUME FullInv PROVE GraceHolds
  <2> SUFFICES ASSUME Idle, meta.open, Masters(sock) = {}
               PROVE  alarm = "grace" /\ (meta.masterSeen => meta.masterGone)
    BY DEF GraceHolds
  <2>1. DOMAIN calls = {}
    BY EmptySeq DEF Idle
  <2>2. GraceSet(meta, sock, calls, alarm)
    BY <1>1 DEF FullInv, GraceInv
  <2>3. QED
    BY <2>1, <2>2 DEF GraceSet
<1>2. QED
  BY <1>1, BooksKept, PTL

=============================================================================
