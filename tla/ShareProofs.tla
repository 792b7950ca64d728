---------------------------- MODULE ShareProofs ----------------------------
(***************************************************************************)
(* What holds of Share for every set of pages, websockets, ids and PINs,   *)
(* and every bound on the environment.                                     *)
(***************************************************************************)
EXTENDS Share, SequenceTheorems, TLAPS

USE DirectoryAssumption, RoomAssumption, ShareAssumption

-----------------------------------------------------------------------------
(* What holds of the websockets. *)

SockMap == [Sockets -> Socket]

HasAuth(k)    == \E i \in DOMAIN k.toServer : k.toServer[i].t = "auth"
HasWelcome(k) == \E i \in DOMAIN k.toClient : k.toClient[i].t = "welcome"

OneWelcome(q) ==
    \A i, j \in DOMAIN q : q[i].t = "welcome" /\ q[j].t = "welcome" => i = j

\* A websocket authenticates once, with its first message, and is welcomed
\* once, when it has a role.  A receiver's has an id that was given out.
SockOK(k, s, given, R) ==
    /\ k.role = "peer" => k.peer \in given
    /\ k.role # "peer" => k.peer = NoId
    /\ \A i \in DOMAIN k.toServer : k.toServer[i].t = "auth" => i = 1
    /\ HasAuth(k) => s \notin R
    /\ HasAuth(k) \/ s \in R => k.role = "none"
    /\ k.role = "none" => k.welcome = NoWelcome /\ ~HasWelcome(k)
    /\ k.welcome # NoWelcome => ~HasWelcome(k)
    /\ OneWelcome(k.toClient)

\* Nothing more comes of the websocket's authentication.
Settled(k, s, R) ==
    /\ ~HasAuth(k) /\ s \notin R
    /\ k.welcome = NoWelcome /\ ~HasWelcome(k)

AuthsOf(q, r)    == \A i \in DOMAIN q : q[i].t = "auth" => q[i].role = r
WelcomesOf(q, r) == \A i \in DOMAIN q : q[i].t = "welcome" => q[i].role = r

\* What is on a page's websocket is of its side.
SideOf(k, r) ==
    /\ k.client
    /\ k.role \in {"none", r}
    /\ AuthsOf(k.toServer, r)
    /\ WelcomesOf(k.toClient, r)
    /\ k.welcome # NoWelcome => k.welcome.role = r

Side(c) == IF c = Sender THEN "master" ELSE "peer"

PageOK(c, W, sk, R) ==
    W[c] # NoWs =>
        /\ SideOf(sk[W[c]], Side(c))
        /\ c # Sender => W[c] \notin R

\* A page that is connected has been welcomed on the websocket it has.
Welcomed(c, W, st, sk, R) ==
    st[c] = "open" =>
        /\ W[c] # NoWs
        /\ sk[W[c]].role = Side(c)
        /\ Settled(sk[W[c]], W[c], R)

OneEach(W) == \A c, d \in Pages : W[c] # NoWs /\ W[c] = W[d] => c = d

\* The websockets sk, when the ids given have been given out, those of R are
\* being restored, and the pages are in the states st with the websockets W.
SocksInv(sk, given, R, W, st) ==
    /\ sk \in SockMap
    /\ \A s \in Sockets : SockOK(sk[s], s, given, R)
    /\ \A c \in Pages : PageOK(c, W, sk, R) /\ Welcomed(c, W, st, sk, R)

\* Two sockets in use are not the same page's.
Unique(sk) ==
    \A s, q \in Sockets :
        /\ sk[s].server = "open" /\ sk[q].server = "open"
        /\ sk[s].role = sk[q].role /\ sk[s].role # "none"
        /\ sk[s].peer = sk[q].peer
        => s = q

Gives(m, i) ==
    \/ m.t = "join" /\ m.peer = i
    \/ m.t = "welcome" /\ i \in m.peers

\* A sender with the websocket k that has been told of T knows of i, or will
\* when it has read what is on its way.
KnownTo(k, T, i) ==
    \/ k.welcome # NoWelcome /\ i \in k.welcome.peers
    \/ \E a \in DOMAIN k.toClient :
          /\ Gives(k.toClient[a], i)
          /\ \A b \in DOMAIN k.toClient : b > a => k.toClient[b] # Leave(i)
    \/ /\ i \in T
       /\ \A b \in DOMAIN k.toClient : k.toClient[b] # Leave(i)

\* A receiver whose socket is in use.
InUse(sk, p) == sk[p].role = "peer" /\ sk[p].server = "open"

AllKnown(sk, w, st, T) ==
    /\ w # NoWs /\ st # "ending"
    /\ sk[w].role = "master" /\ sk[w].server = "open" /\ sk[w].up
    => \A p \in Sockets : InUse(sk, p) => KnownTo(sk[w], T, sk[p].peer)

Good(sk, given, R, W, st, T) ==
    /\ SocksInv(sk, given, R, W, st)
    /\ OneEach(W)
    /\ Unique(sk)
    /\ AllKnown(sk, W[Sender], st[Sender], T)

-----------------------------------------------------------------------------
(* Messages and sockets. *)

Codes == {"room_not_found", "room_full", "bad_request", "peer_not_found",
          "master_absent"}

LEMMA MessageTypes ==
    /\ {Bye, Closed} \subseteq ServerMsg
    /\ {Bye, Close} \subseteq ClientMsg
    /\ \A b \in BOOLEAN : Master(b) \in ServerMsg
    /\ \A i \in Ids : Join(i) \in ServerMsg /\ Leave(i) \in ServerMsg
    /\ \A i \in Ids \cup {NoId} : Signal(i) \in ServerMsg \cap ClientMsg
    /\ \A c \in Codes : Error(c) \in ServerMsg
    /\ Welcomes \subseteq ServerMsg
BY DEF Bye, Closed, Close, Master, Join, Leave, Signal, Error, Codes,
       ServerMsg, ClientMsg

LEMMA WelcomeTypes ==
    /\ \A P \in SUBSET Ids, p \in Pins :
          /\ WelcomeMaster(P, p) \in Welcomes
          /\ WelcomeMaster(P, p).role = "master"
    /\ \A i \in Ids, b \in BOOLEAN :
          /\ WelcomePeer(i, b) \in Welcomes
          /\ WelcomePeer(i, b).role = "peer"
    /\ \A w \in Welcomes : w.t = "welcome" /\ w # NoWelcome
BY DEF WelcomeMaster, WelcomePeer, Welcomes, NoWelcome

\* Messages that are no welcomes.
Plain == {m \in ServerMsg : m.t # "welcome"}

LEMMA PlainTypes ==
    /\ {Bye, Closed} \subseteq Plain
    /\ \A b \in BOOLEAN : Master(b) \in Plain
    /\ \A i \in Ids : Join(i) \in Plain /\ Leave(i) \in Plain
    /\ \A i \in Ids \cup {NoId} : Signal(i) \in Plain
    /\ \A c \in Codes : Error(c) \in Plain
<1> USE MessageTypes
<1>1. {Bye, Closed} \subseteq Plain
  BY DEF Plain, Bye, Closed
<1>2. \A b \in BOOLEAN : Master(b) \in Plain
  BY DEF Plain, Master
<1>3. \A i \in Ids : Join(i) \in Plain /\ Leave(i) \in Plain
  BY DEF Plain, Join, Leave
<1>4. \A i \in Ids \cup {NoId} : Signal(i) \in Plain
  BY DEF Plain, Signal
<1>5. \A c \in Codes : Error(c) \in Plain
  BY DEF Plain, Error
<1>6. QED
  BY <1>1, <1>2, <1>3, <1>4, <1>5

LEMMA FieldTypes ==
    ASSUME NEW k \in Socket
    PROVE  /\ k.role \in {"none", "master", "peer"}
           /\ k.peer \in Ids \cup {NoId}
           /\ k.server \in {"open", "closing", "gone"}
           /\ k.client \in BOOLEAN
           /\ k.up \in BOOLEAN
           /\ k.toServer \in Seq(ClientMsg)
           /\ k.toClient \in Seq(ServerMsg)
           /\ k.welcome \in Welcomes \cup {NoWelcome}
BY DEF Socket

LEMMA ToClientType ==
    ASSUME NEW k \in Socket, NEW q \in Seq(ServerMsg)
    PROVE  [k EXCEPT !.toClient = q] \in Socket
BY DEF Socket

LEMMA ToServerType ==
    ASSUME NEW k \in Socket, NEW q \in Seq(ClientMsg)
    PROVE  [k EXCEPT !.toServer = q] \in Socket
BY DEF Socket

LEMMA WelcomeType ==
    ASSUME NEW k \in Socket, NEW w \in Welcomes \cup {NoWelcome}
    PROVE  [k EXCEPT !.welcome = w] \in Socket
BY DEF Socket

LEMMA HungType ==
    ASSUME NEW k \in Socket, NEW q \in Seq(ServerMsg)
    PROVE  [k EXCEPT !.server = "closing", !.welcome = NoWelcome,
                     !.toClient = q] \in Socket
BY DEF Socket

LEMMA NoSocketType == NoSocket \in Socket
BY EmptySeq DEF NoSocket, Socket

LEMMA TellType ==
    ASSUME NEW sk \in SockMap, NEW to, NEW m \in ServerMsg
    PROVE  Tell(sk, to, m) \in SockMap
<1>1. ASSUME NEW s \in Sockets
      PROVE  [sk[s] EXCEPT !.toClient = Append(@, m)] \in Socket
  <2>1. sk[s] \in Socket
    BY DEF SockMap
  <2>2. Append(sk[s].toClient, m) \in Seq(ServerMsg)
    BY <2>1, FieldTypes, AppendProperties
  <2>3. QED
    BY <2>1, <2>2, ToClientType
<1>2. QED
  BY <1>1 DEF Tell, SockMap

LEMMA HangType ==
    ASSUME NEW sk \in SockMap, NEW to
    PROVE  Hang(sk, to) \in SockMap
<1>1. ASSUME NEW s \in Sockets, NEW q \in Seq(ServerMsg)
      PROVE  [sk[s] EXCEPT !.server = "closing", !.welcome = NoWelcome,
                           !.toClient = q] \in Socket
  BY HungType DEF SockMap
<1>2. ASSUME NEW s \in Sockets
      PROVE  /\ sk[s].toClient \in Seq(ServerMsg)
             /\ Append(sk[s].toClient, Bye) \in Seq(ServerMsg)
  BY FieldTypes, MessageTypes, AppendProperties DEF SockMap
<1>3. ASSUME NEW s \in Sockets
      PROVE  [sk[s] EXCEPT !.server = "closing", !.welcome = NoWelcome,
                           !.toClient = IF Reachable(sk, s)
                                        THEN Append(@, Bye) ELSE @] \in Socket
  BY <1>1, <1>2
<1>4. QED
  BY <1>3 DEF Hang, SockMap

-----------------------------------------------------------------------------
(* What the room's sends and closes do to a websocket. *)

\* q2 is q with messages of M after it.
Longer(q, q2, M) ==
    /\ \A i \in DOMAIN q : i \in DOMAIN q2 /\ q2[i] = q[i]
    /\ \A i \in DOMAIN q2 : i \in DOMAIN q \/ (q2[i] \in M /\ \A j \in DOMAIN q : j < i)

\* k2 is k after messages of M may have been sent to it, and it may have been
\* closed.
Heard(k, k2, M) ==
    /\ k2.role = k.role /\ k2.peer = k.peer
    /\ k2.client = k.client /\ k2.up = k.up
    /\ k2.toServer = k.toServer
    /\ k2.server = k.server \/ (k.server = "open" /\ k2.server = "closing")
    /\ k2.welcome = k.welcome \/ k2.welcome = NoWelcome
    /\ k2.server = k.server => k2.welcome = k.welcome
    /\ Longer(k.toClient, k2.toClient, M)

LEMMA LongerAppend ==
    ASSUME NEW q \in Seq(ServerMsg), NEW m, NEW M, m \in M
    PROVE  Longer(q, Append(q, m), M)
BY DEF Longer

LEMMA LongerSelf ==
    ASSUME NEW q, NEW M
    PROVE  Longer(q, q, M)
BY DEF Longer

LEMMA LongerTrans ==
    ASSUME NEW q1, NEW q2, NEW q3, NEW M, NEW N,
           Longer(q1, q2, M), Longer(q2, q3, N)
    PROVE  Longer(q1, q3, M \cup N)
BY DEF Longer

LEMMA HeardTrans ==
    ASSUME NEW k1, NEW k2, NEW k3, NEW M, NEW N,
           Heard(k1, k2, M), Heard(k2, k3, N)
    PROVE  Heard(k1, k3, M \cup N)
<1>1. Longer(k1.toClient, k3.toClient, M \cup N)
  BY LongerTrans DEF Heard
<1>2. QED
  BY <1>1 DEF Heard

LEMMA TellHeard ==
    ASSUME NEW sk \in SockMap, NEW to, NEW m, NEW s \in Sockets
    PROVE  Heard(sk[s], Tell(sk, to, m)[s], {m})
<1>1. sk[s] \in Socket
  BY DEF SockMap
<1>2. Longer(sk[s].toClient, Append(sk[s].toClient, m), {m})
  BY <1>1, FieldTypes, LongerAppend
<1>3. Longer(sk[s].toClient, sk[s].toClient, {m})
  BY LongerSelf
<1>4. Heard(sk[s], sk[s], {m})
  BY <1>3 DEF Heard
<1>5. Heard(sk[s], [sk[s] EXCEPT !.toClient = Append(@, m)], {m})
  BY <1>1, <1>2 DEF Heard, Socket
<1>6. QED
  BY <1>4, <1>5 DEF Tell

\* A message that reaches the socket is the last it has been sent.
LEMMA TellTold ==
    ASSUME NEW sk \in SockMap, NEW to, NEW m, NEW s \in Sockets, s \in to,
           Reachable(sk, s)
    PROVE  Tell(sk, to, m)[s].toClient = Append(sk[s].toClient, m)
BY DEF Tell, SockMap, Socket

LEMMA HangHeard ==
    ASSUME NEW sk \in SockMap, NEW to, NEW s \in Sockets
    PROVE  /\ Heard(sk[s], Hang(sk, to)[s], {Bye})
           /\ s \in to => Hang(sk, to)[s].server # "open"
           /\ s \notin to => Hang(sk, to)[s] = sk[s]
<1>1. sk[s] \in Socket
  BY DEF SockMap
<1>2. \A q : Longer(sk[s].toClient, q, {Bye}) /\ sk[s].server = "open" =>
          LET k2 == [sk[s] EXCEPT !.server = "closing", !.welcome = NoWelcome,
                                  !.toClient = q]
          IN  Heard(sk[s], k2, {Bye}) /\ k2.server # "open"
  BY <1>1 DEF Heard, Socket
<1>3. /\ Longer(sk[s].toClient, sk[s].toClient, {Bye})
      /\ Longer(sk[s].toClient, Append(sk[s].toClient, Bye), {Bye})
  BY <1>1, FieldTypes, LongerSelf, LongerAppend
<1>4. CASE s \in to /\ sk[s].server = "open"
  <2>1. Hang(sk, to)[s] =
           [sk[s] EXCEPT !.server = "closing", !.welcome = NoWelcome,
                         !.toClient = IF Reachable(sk, s)
                                      THEN Append(@, Bye) ELSE @]
    BY <1>4 DEF Hang
  <2>2. QED
    BY <1>2, <1>3, <1>4, <2>1
<1>5. CASE ~(s \in to /\ sk[s].server = "open")
  <2>1. Hang(sk, to)[s] = sk[s]
    BY <1>5 DEF Hang
  <2>2. Heard(sk[s], sk[s], {Bye})
    BY <1>3 DEF Heard
  <2>3. QED
    BY <1>5, <2>1, <2>2
<1>6. QED
  BY <1>4, <1>5

\* sk2 is sk after the room may have sent plain messages and closed sockets.
Steady(sk, sk2) ==
    /\ sk2 \in SockMap
    /\ \A s \in Sockets : Heard(sk[s], sk2[s], Plain)

LEMMA HeardMore ==
    ASSUME NEW k1, NEW k2, NEW M, NEW N, M \subseteq N, Heard(k1, k2, M)
    PROVE  Heard(k1, k2, N)
<1>1. Longer(k1.toClient, k2.toClient, N)
  BY DEF Heard, Longer
<1>2. QED
  BY <1>1 DEF Heard

LEMMA SteadySelf ==
    ASSUME NEW sk \in SockMap PROVE Steady(sk, sk)
BY DEF Steady, Heard, Longer

LEMMA SteadyTrans ==
    ASSUME NEW sk1, NEW sk2, NEW sk3, Steady(sk1, sk2), Steady(sk2, sk3)
    PROVE  Steady(sk1, sk3)
<1>1. Plain \cup Plain = Plain
  OBVIOUS
<1>2. QED
  BY <1>1, HeardTrans DEF Steady

LEMMA TellSteady ==
    ASSUME NEW sk \in SockMap, NEW to, NEW m \in Plain
    PROVE  Steady(sk, Tell(sk, to, m))
<1>1. m \in ServerMsg /\ {m} \subseteq Plain
  BY DEF Plain
<1>2. Tell(sk, to, m) \in SockMap
  BY <1>1, TellType
<1>3. ASSUME NEW s \in Sockets
      PROVE  Heard(sk[s], Tell(sk, to, m)[s], Plain)
  <2>1. Heard(sk[s], Tell(sk, to, m)[s], {m})
    BY TellHeard
  <2>2. QED
    BY <1>1, <2>1, HeardMore
<1>4. QED
  BY <1>2, <1>3 DEF Steady

LEMMA HangSteady ==
    ASSUME NEW sk \in SockMap, NEW to
    PROVE  Steady(sk, Hang(sk, to))
BY HangType, HangHeard, HeardMore, PlainTypes DEF Steady

LEMMA RejectSteady ==
    ASSUME NEW sk \in SockMap, NEW s, NEW c \in Codes
    PROVE  Steady(sk, Reject(sk, s, c))
<1>1. Steady(sk, Tell(sk, {s}, Error(c)))
  BY TellSteady, PlainTypes
<1>2. Steady(Tell(sk, {s}, Error(c)), Reject(sk, s, c))
  BY <1>1, HangSteady DEF Steady, Reject
<1>3. QED
  BY <1>1, <1>2, SteadyTrans

\* Such steps leave the websockets in order.
LEMMA HeardOK ==
    ASSUME NEW k, NEW k2, Heard(k, k2, Plain), NEW s, NEW given, NEW R
    PROVE  /\ SockOK(k, s, given, R) => SockOK(k2, s, given, R)
           /\ \A r : SideOf(k, r) => SideOf(k2, r)
           /\ Settled(k, s, R) => Settled(k2, s, R)
<1>1. \A i \in DOMAIN k2.toClient : k2.toClient[i].t = "welcome" =>
          i \in DOMAIN k.toClient /\ k2.toClient[i] = k.toClient[i]
  BY DEF Heard, Longer, Plain
<1>2. /\ HasWelcome(k2) => HasWelcome(k)
      /\ HasAuth(k2) <=> HasAuth(k)
      /\ OneWelcome(k.toClient) => OneWelcome(k2.toClient)
      /\ \A r : WelcomesOf(k.toClient, r) => WelcomesOf(k2.toClient, r)
  BY <1>1 DEF HasWelcome, HasAuth, OneWelcome, WelcomesOf, Heard
<1>3. SockOK(k, s, given, R) => SockOK(k2, s, given, R)
  BY <1>2 DEF SockOK, Heard
<1>4. \A r : SideOf(k, r) => SideOf(k2, r)
  BY <1>2 DEF SideOf, Heard
<1>5. Settled(k, s, R) => Settled(k2, s, R)
  BY <1>2 DEF Settled, Heard
<1>6. QED
  BY <1>3, <1>4, <1>5

LEMMA SteadyOK ==
    ASSUME NEW sk, NEW sk2, Steady(sk, sk2),
           NEW given, NEW R, NEW W \in [Pages -> Sockets \cup {NoWs}], NEW st,
           SocksInv(sk, given, R, W, st)
    PROVE  SocksInv(sk2, given, R, W, st)
<1>1. \A s \in Sockets : SockOK(sk2[s], s, given, R)
  BY HeardOK DEF Steady, SocksInv
<1>2. ASSUME NEW c \in Pages
      PROVE  PageOK(c, W, sk2, R) /\ Welcomed(c, W, st, sk2, R)
  <2>1. CASE W[c] = NoWs
    BY <2>1 DEF PageOK, Welcomed, SocksInv
  <2>2. CASE W[c] \in Sockets
    <3>1. /\ Heard(sk[W[c]], sk2[W[c]], Plain)
          /\ sk2[W[c]].role = sk[W[c]].role
      BY <2>2 DEF Steady, Heard
    <3>2. PageOK(c, W, sk, R) /\ Welcomed(c, W, st, sk, R)
      BY DEF SocksInv
    <3>3. QED
      BY <2>2, <3>1, <3>2, HeardOK DEF PageOK, Welcomed
  <2>3. QED
    BY <2>1, <2>2
<1>3. QED
  BY <1>1, <1>2 DEF SocksInv, Steady

-----------------------------------------------------------------------------
(* What a handler does to the websocket whose event it is. *)

LEMMA SocksAt ==
    ASSUME NEW sk, NEW given, NEW R, NEW W, NEW st,
           SocksInv(sk, given, R, W, st), NEW s \in Sockets
    PROVE  sk[s] \in Socket /\ SockOK(sk[s], s, given, R)
BY DEF SocksInv, SockMap

\* One socket changes, and stays in order for its page.
LEMMA OneChanges ==
    ASSUME NEW sk, NEW given, NEW R, NEW given2, NEW R2,
           NEW W \in [Pages -> Sockets \cup {NoWs}], NEW st,
           SocksInv(sk, given, R, W, st),
           NEW s \in Sockets, NEW k \in Socket,
           given \subseteq given2, R2 \subseteq R \cup {s}, R \subseteq R2 \cup {s},
           SockOK(k, s, given2, R2),
           \A c \in Pages : W[c] = s =>
               /\ SideOf(k, Side(c))
               /\ c # Sender => s \notin R2
               /\ st[c] = "open" => k.role = Side(c) /\ Settled(k, s, R2)
    PROVE  SocksInv([sk EXCEPT ![s] = k], given2, R2, W, st)
<1> DEFINE sk2 == [sk EXCEPT ![s] = k]
<1>1. sk2 \in SockMap
  BY DEF SocksInv, SockMap
<1>2. /\ sk2[s] = k
      /\ \A q \in Sockets : q # s => sk2[q] = sk[q]
  BY DEF SocksInv, SockMap
<1>3. \A q \in Sockets : q # s => (q \in R2 <=> q \in R)
  OBVIOUS
<1>4. ASSUME NEW q \in Sockets
      PROVE  SockOK(sk2[q], q, given2, R2)
  <2>1. CASE q = s
    BY <1>2, <2>1
  <2>2. CASE q # s
    <3>1. SockOK(sk[q], q, given, R)
      BY DEF SocksInv
    <3>2. QED
      BY <1>2, <1>3, <2>2, <3>1 DEF SockOK
  <2>3. QED
    BY <2>1, <2>2
<1>5. ASSUME NEW c \in Pages
      PROVE  PageOK(c, W, sk2, R2) /\ Welcomed(c, W, st, sk2, R2)
  <2>1. PageOK(c, W, sk, R) /\ Welcomed(c, W, st, sk, R)
    BY DEF SocksInv
  <2>2. CASE W[c] = s
    BY <1>2, <2>2 DEF PageOK, Welcomed
  <2>3. CASE W[c] # s /\ W[c] # NoWs
    <3>1. sk2[W[c]] = sk[W[c]] /\ (W[c] \in R2 <=> W[c] \in R)
      BY <1>2, <1>3, <2>3
    <3>2. QED
      BY <2>1, <3>1 DEF PageOK, Welcomed, Settled
  <2>4. CASE W[c] = NoWs
    BY <2>1, <2>4 DEF PageOK, Welcomed
  <2>5. QED
    BY <2>2, <2>3, <2>4
<1>6. QED
  BY <1>1, <1>4, <1>5 DEF SocksInv

LEMMA TailToServer ==
    ASSUME NEW k \in Socket, k.toServer # <<>>,
           NEW s, NEW given, NEW R, SockOK(k, s, given, R)
    PROVE  LET k2 == [k EXCEPT !.toServer = Tail(@)]
           IN  /\ k2 \in Socket
               /\ Head(k.toServer) \in ClientMsg
               /\ SockOK(k2, s, given, R)
               /\ ~HasAuth(k2)
               /\ Head(k.toServer).t = "auth" =>
                      k.role = "none" /\ Settled(k2, s, R)
               /\ \A r : SideOf(k, r) => SideOf(k2, r)
               /\ Settled(k, s, R) => Settled(k2, s, R)
               /\ k2.role = k.role /\ k2.peer = k.peer
               /\ k2.server = k.server /\ k2.client = k.client
               /\ k2.up = k.up /\ k2.toClient = k.toClient
               /\ k2.welcome = k.welcome
<1> DEFINE q  == k.toServer
           k2 == [k EXCEPT !.toServer = Tail(q)]
<1>1. /\ q \in Seq(ClientMsg) /\ q # <<>>
      /\ Tail(q) \in Seq(ClientMsg)
      /\ Head(q) = q[1] /\ q[1] \in ClientMsg /\ 1 \in DOMAIN q
      /\ \A i \in DOMAIN Tail(q) :
             i + 1 \in DOMAIN q /\ i + 1 # 1 /\ Tail(q)[i] = q[i + 1]
  BY FieldTypes, HeadTailProperties
<1>2. /\ k2 \in Socket
      /\ k2.toServer = Tail(q)
      /\ k2.role = k.role /\ k2.peer = k.peer
      /\ k2.server = k.server /\ k2.client = k.client
      /\ k2.up = k.up /\ k2.toClient = k.toClient
      /\ k2.welcome = k.welcome
  BY <1>1, ToServerType DEF Socket
<1>3. ~HasAuth(k2)
  BY <1>1, <1>2 DEF HasAuth, SockOK
<1>4. HasWelcome(k2) <=> HasWelcome(k)
  BY <1>2 DEF HasWelcome
<1>5. SockOK(k2, s, given, R)
  BY <1>2, <1>3, <1>4 DEF SockOK, HasAuth
<1>6. Head(q).t = "auth" => k.role = "none" /\ Settled(k2, s, R)
  BY <1>1, <1>2, <1>3, <1>4 DEF HasAuth, SockOK, Settled
<1>7. \A r : SideOf(k, r) => SideOf(k2, r)
  BY <1>2, <1>3, <1>4 DEF SideOf, AuthsOf, HasAuth
<1>8. Settled(k, s, R) => Settled(k2, s, R)
  BY <1>2, <1>3, <1>4 DEF Settled
<1>9. QED
  BY <1>1, <1>2, <1>3, <1>5, <1>6, <1>7, <1>8

\* What of a page follows for a socket of its own.
LEMMA PageAt ==
    ASSUME NEW sk, NEW given, NEW R, NEW W, NEW st,
           SocksInv(sk, given, R, W, st), NEW s \in Sockets,
           NEW c \in Pages, W[c] = s
    PROVE  /\ SideOf(sk[s], Side(c))
           /\ c # Sender => s \notin R
           /\ st[c] = "open" => sk[s].role = Side(c) /\ Settled(sk[s], s, R)
BY DEF SocksInv, PageOK, Welcomed

LEMMA PopServer ==
    ASSUME NEW sk, NEW given, NEW R,
           NEW W \in [Pages -> Sockets \cup {NoWs}], NEW st,
           SocksInv(sk, given, R, W, st),
           NEW s \in Sockets, sk[s].toServer # <<>>
    PROVE  SocksInv([sk EXCEPT ![s].toServer = Tail(@)], given, R, W, st)
<1> DEFINE k2 == [sk[s] EXCEPT !.toServer = Tail(@)]
<1>1. sk[s] \in Socket /\ SockOK(sk[s], s, given, R)
  BY SocksAt
<1>2. /\ k2 \in Socket
      /\ SockOK(k2, s, given, R)
      /\ \A r : SideOf(sk[s], r) => SideOf(k2, r)
      /\ Settled(sk[s], s, R) => Settled(k2, s, R)
      /\ k2.role = sk[s].role
  BY <1>1, TailToServer
<1> HIDE DEF k2
<1>3. \A c \in Pages : W[c] = s =>
          /\ SideOf(k2, Side(c))
          /\ c # Sender => s \notin R
          /\ st[c] = "open" => k2.role = Side(c) /\ Settled(k2, s, R)
  BY <1>2, PageAt
<1>4. SocksInv([sk EXCEPT ![s] = k2], given, R, W, st)
  BY <1>2, <1>3, OneChanges
<1>5. QED
  BY <1>4 DEF k2

LEMMA Expand ==
    ASSUME NEW sk \in SockMap, NEW s \in Sockets
    PROVE  [sk EXCEPT ![s] = sk[s]] = sk
BY DEF SockMap

\* A socket is no longer restored, or begins to be, and more ids are given out.
LEMMA Restored ==
    ASSUME NEW sk, NEW given, NEW R, NEW given2, NEW R2,
           NEW W \in [Pages -> Sockets \cup {NoWs}], NEW st,
           SocksInv(sk, given, R, W, st), NEW s \in Sockets,
           given \subseteq given2, R2 = R \/ R2 = R \ {s}
    PROVE  SocksInv(sk, given2, R2, W, st)
<1>1. sk[s] \in Socket /\ SockOK(sk[s], s, given, R)
  BY SocksAt
<1>2. SockOK(sk[s], s, given2, R2)
  BY <1>1 DEF SockOK
<1>3. Settled(sk[s], s, R) => Settled(sk[s], s, R2)
  BY DEF Settled
<1>4. \A c \in Pages : W[c] = s =>
          /\ SideOf(sk[s], Side(c))
          /\ c # Sender => s \notin R2
          /\ st[c] = "open" => sk[s].role = Side(c) /\ Settled(sk[s], s, R2)
  BY <1>3, PageAt
<1>5. SocksInv([sk EXCEPT ![s] = sk[s]], given2, R2, W, st)
  BY <1>1, <1>2, <1>4, OneChanges
<1>6. QED
  BY <1>5, Expand DEF SocksInv

LEMMA Restoring2 ==
    ASSUME NEW sk, NEW given, NEW R,
           NEW W \in [Pages -> Sockets \cup {NoWs}], NEW st,
           SocksInv(sk, given, R, W, st), NEW s \in Sockets,
           sk[s].role = "none", ~HasAuth(sk[s]),
           \A c \in Pages : W[c] = s => c = Sender
    PROVE  SocksInv(sk, given, R \cup {s}, W, st)
<1> DEFINE R2 == R \cup {s}
<1>1. sk[s] \in Socket /\ SockOK(sk[s], s, given, R)
  BY SocksAt
<1>2. SockOK(sk[s], s, given, R2)
  BY <1>1 DEF SockOK
<1>3. \A c \in Pages : W[c] = s =>
          /\ SideOf(sk[s], Side(c))
          /\ c # Sender => s \notin R2
          /\ st[c] = "open" => sk[s].role = Side(c) /\ Settled(sk[s], s, R2)
  BY PageAt DEF Side
<1>4. SocksInv([sk EXCEPT ![s] = sk[s]], given, R2, W, st)
  BY <1>1, <1>2, <1>3, OneChanges
<1>5. QED
  BY <1>4, Expand DEF SocksInv

\* attach(): a socket that has authenticated gets its role and id.
\* No page that is connected has the websocket s.
Unwelcomed(W, st, s) == \A c \in Pages : W[c] = s => st[c] # "open"

LEMMA NotYetWelcomed ==
    ASSUME NEW sk, NEW given, NEW R, NEW W, NEW st,
           SocksInv(sk, given, R, W, st), NEW s, sk[s].role = "none"
    PROVE  Unwelcomed(W, st, s)
<1>1. \A c \in Pages : Side(c) # "none"
  BY DEF Side
<1>2. QED
  BY <1>1 DEF SocksInv, Welcomed, Unwelcomed

LEMMA Attach ==
    ASSUME NEW sk, NEW given, NEW R,
           NEW W \in [Pages -> Sockets \cup {NoWs}], NEW st,
           SocksInv(sk, given, R, W, st), NEW s \in Sockets,
           sk[s].role = "none", Settled(sk[s], s, R),
           NEW k2 \in Socket, k2.role \in {"master", "peer"},
           k2.role = "master" => k2.peer = NoId,
           k2.role = "peer" => k2.peer \in given,
           k2.toServer = sk[s].toServer, k2.toClient = sk[s].toClient,
           k2.client = sk[s].client, k2.welcome = sk[s].welcome,
           \A c \in Pages : W[c] = s => Side(c) = k2.role
    PROVE  /\ SocksInv([sk EXCEPT ![s] = k2], given, R, W, st)
           /\ Settled(k2, s, R)
<1>1. sk[s] \in Socket /\ SockOK(sk[s], s, given, R)
  BY SocksAt
<1>2. (HasAuth(k2) <=> HasAuth(sk[s])) /\ (HasWelcome(k2) <=> HasWelcome(sk[s]))
  BY DEF HasAuth, HasWelcome
<1>3. Settled(k2, s, R)
  BY <1>2 DEF Settled
<1>4. SockOK(k2, s, given, R)
  BY <1>1, <1>2, <1>3 DEF SockOK, Settled
<1>5. \A c \in Pages : W[c] = s => st[c] # "open"
  BY NotYetWelcomed DEF Unwelcomed
<1>6. \A c \in Pages : W[c] = s =>
          /\ SideOf(k2, Side(c))
          /\ c # Sender => s \notin R
          /\ st[c] = "open" => k2.role = Side(c) /\ Settled(k2, s, R)
  BY <1>5, PageAt DEF SideOf
<1>7. given \subseteq given
  OBVIOUS
<1>8. SocksInv([sk EXCEPT ![s] = k2], given, R, W, st)
  BY <1>4, <1>6, <1>7, OneChanges
<1>9. QED
  BY <1>3, <1>8

LEMMA AttachType ==
    ASSUME NEW k \in Socket
    PROVE  LET k2 == [k EXCEPT !.role = "master"]
           IN  /\ k2 \in Socket /\ k2.role = "master" /\ k2.peer = k.peer
               /\ k2.server = k.server /\ k2.client = k.client
               /\ k2.up = k.up /\ k2.toServer = k.toServer
               /\ k2.toClient = k.toClient /\ k2.welcome = k.welcome
BY DEF Socket

LEMMA AttachPeerType ==
    ASSUME NEW k \in Socket, NEW i \in Ids
    PROVE  LET k2 == [k EXCEPT !.role = "peer", !.peer = i]
           IN  /\ k2 \in Socket /\ k2.role = "peer" /\ k2.peer = i
               /\ k2.server = k.server /\ k2.client = k.client
               /\ k2.up = k.up /\ k2.toServer = k.toServer
               /\ k2.toClient = k.toClient /\ k2.welcome = k.welcome
BY DEF Socket

\* A welcome on its way.
LEMMA Welcoming ==
    ASSUME NEW k \in Socket, NEW s, NEW given, NEW R, SockOK(k, s, given, R),
           Settled(k, s, R), NEW w \in Welcomes, k.role # "none",
           NEW k2, \/ k2 = [k EXCEPT !.welcome = w]
                   \/ k2 = [k EXCEPT !.toClient = Append(@, w)]
    PROVE  /\ k2 \in Socket /\ SockOK(k2, s, given, R)
           /\ \A r : SideOf(k, r) /\ w.role = r => SideOf(k2, r)
<1>1. /\ w.t = "welcome" /\ w # NoWelcome /\ w \in ServerMsg
      /\ w.role \in {"master", "peer"}
  BY WelcomeTypes, MessageTypes DEF Welcomes
<1>2. CASE k2 = [k EXCEPT !.welcome = w]
  <2>1. /\ k2 \in Socket /\ k2.welcome = w
        /\ k2.role = k.role /\ k2.peer = k.peer /\ k2.client = k.client
        /\ k2.toServer = k.toServer /\ k2.toClient = k.toClient
    BY <1>2, WelcomeType DEF Socket
  <2>2. (HasAuth(k2) <=> HasAuth(k)) /\ (HasWelcome(k2) <=> HasWelcome(k))
    BY <2>1 DEF HasAuth, HasWelcome
  <2>3. SockOK(k2, s, given, R)
    BY <1>1, <2>1, <2>2 DEF SockOK, Settled
  <2>4. \A r : SideOf(k, r) /\ w.role = r => SideOf(k2, r)
    BY <1>1, <2>1 DEF SideOf
  <2>5. QED
    BY <2>1, <2>3, <2>4
<1>3. CASE k2 = [k EXCEPT !.toClient = Append(@, w)]
  <2> DEFINE q == k.toClient
  <2>1. /\ q \in Seq(ServerMsg) /\ Append(q, w) \in Seq(ServerMsg)
        /\ \A i \in DOMAIN Append(q, w) :
              (i \in DOMAIN q /\ Append(q, w)[i] = q[i])
              \/ (i = Len(q) + 1 /\ Append(q, w)[i] = w)
    BY <1>1, FieldTypes, AppendProperties
  <2>2. /\ k2 \in Socket /\ k2.toClient = Append(q, w)
        /\ k2.role = k.role /\ k2.peer = k.peer /\ k2.client = k.client
        /\ k2.toServer = k.toServer /\ k2.welcome = k.welcome
    BY <1>3, <2>1, ToClientType DEF Socket
  <2>3. HasAuth(k2) <=> HasAuth(k)
    BY <2>2 DEF HasAuth
  <2>4. OneWelcome(k2.toClient)
    BY <2>1, <2>2 DEF OneWelcome, Settled, HasWelcome
  <2>5. SockOK(k2, s, given, R)
    BY <1>1, <2>2, <2>3, <2>4 DEF SockOK, Settled
  <2>6. \A r : SideOf(k, r) /\ w.role = r => SideOf(k2, r)
    BY <1>1, <2>1, <2>2 DEF SideOf, WelcomesOf
  <2>7. QED
    BY <2>2, <2>5, <2>6
<1>4. QED
  BY <1>2, <1>3

\* A page that waits for a welcome to the role r has the websocket s, or none.
Awaits(W, st, s, r) ==
    \A c \in Pages : W[c] = s => Side(c) = r /\ st[c] # "open"

LEMMA WelcomeOK ==
    ASSUME NEW sk, NEW given, NEW R,
           NEW W \in [Pages -> Sockets \cup {NoWs}], NEW st,
           SocksInv(sk, given, R, W, st), NEW s \in Sockets,
           Settled(sk[s], s, R), NEW w \in Welcomes, sk[s].role # "none",
           Awaits(W, st, s, w.role)
    PROVE  /\ SocksInv([sk EXCEPT ![s].welcome = w], given, R, W, st)
           /\ SocksInv(Tell(sk, {s}, w), given, R, W, st)
<1>1. sk[s] \in Socket /\ SockOK(sk[s], s, given, R) /\ sk \in SockMap
  BY SocksAt DEF SocksInv
<1>2. ASSUME NEW k2, \/ k2 = [sk[s] EXCEPT !.welcome = w]
                     \/ k2 = [sk[s] EXCEPT !.toClient = Append(@, w)]
      PROVE  SocksInv([sk EXCEPT ![s] = k2], given, R, W, st)
  <2>1. /\ k2 \in Socket /\ SockOK(k2, s, given, R)
        /\ \A r : SideOf(sk[s], r) /\ w.role = r => SideOf(k2, r)
    BY <1>1, <1>2, Welcoming
  <2>2. \A c \in Pages : W[c] = s =>
            /\ SideOf(k2, Side(c))
            /\ c # Sender => s \notin R
            /\ st[c] = "open" => k2.role = Side(c) /\ Settled(k2, s, R)
    BY <2>1, PageAt DEF Awaits
  <2>3. QED
    BY <2>1, <2>2, OneChanges
<1>3. Tell(sk, {s}, w) = sk
      \/ Tell(sk, {s}, w) = [sk EXCEPT ![s] =
                                [sk[s] EXCEPT !.toClient = Append(@, w)]]
  BY <1>1 DEF Tell, SockMap
<1>4. [sk EXCEPT ![s].welcome = w] =
          [sk EXCEPT ![s] = [sk[s] EXCEPT !.welcome = w]]
  OBVIOUS
<1>5. SocksInv([sk EXCEPT ![s].welcome = w], given, R, W, st)
  BY <1>2, <1>4
<1>6. SocksInv(Tell(sk, {s}, w), given, R, W, st)
  <2>1. CASE Tell(sk, {s}, w) = sk
    BY <2>1
  <2>2. CASE Tell(sk, {s}, w) = [sk EXCEPT ![s] =
                                   [sk[s] EXCEPT !.toClient = Append(@, w)]]
    BY <1>2, <2>2
  <2>3. QED
    BY <1>3, <2>1, <2>2
<1>7. QED
  BY <1>5, <1>6

LEMMA GreetOK ==
    ASSUME NEW sk, NEW given, NEW R,
           NEW W \in [Pages -> Sockets \cup {NoWs}], NEW st,
           SocksInv(sk, given, R, W, st), NEW s \in Sockets,
           Settled(sk[s], s, R), NEW w \in Welcomes, sk[s].role = w.role,
           Unwelcomed(W, st, s),
           Greet(sk, s, w)
    PROVE  SocksInv(sock', given, R, W, st)
<1>1. w.role # "none"
  BY DEF Welcomes
<1>2. Awaits(W, st, s, w.role)
  BY <1>1, PageAt DEF Awaits, SideOf, Unwelcomed
<1>3. /\ SocksInv([sk EXCEPT ![s].welcome = w], given, R, W, st)
      /\ SocksInv(Tell(sk, {s}, w), given, R, W, st)
  BY <1>1, <1>2, WelcomeOK
<1>4. QED
  BY <1>3 DEF Greet

\* The other end of a websocket.
LEMMA NoSocketOK ==
    ASSUME NEW s, NEW given, NEW R
    PROVE  SockOK(NoSocket, s, given, R)
<1>1. /\ NoSocket.role = "none" /\ NoSocket.peer = NoId
      /\ NoSocket.welcome = NoWelcome
      /\ NoSocket.toServer = <<>> /\ NoSocket.toClient = <<>>
  BY DEF NoSocket
<1>2. ~HasAuth(NoSocket) /\ ~HasWelcome(NoSocket) /\ OneWelcome(NoSocket.toClient)
  BY <1>1 DEF HasAuth, HasWelcome, OneWelcome
<1>3. QED
  BY <1>1, <1>2 DEF SockOK

LEMMA LoseServer ==
    ASSUME NEW k \in Socket, NEW s, NEW given, NEW R, SockOK(k, s, given, R)
    PROVE  LET k2 == [k EXCEPT !.server = "gone", !.toServer = <<>>,
                               !.welcome = NoWelcome]
           IN  /\ k2 \in Socket /\ SockOK(k2, s, given, R)
               /\ \A r : SideOf(k, r) => SideOf(k2, r)
               /\ Settled(k, s, R) => Settled(k2, s, R)
               /\ k2.role = k.role /\ k2.peer = k.peer /\ k2.server = "gone"
<1> DEFINE k2 == [k EXCEPT !.server = "gone", !.toServer = <<>>,
                           !.welcome = NoWelcome]
<1>1. <<>> \in Seq(ClientMsg)
  BY EmptySeq
<1>2. /\ k2 \in Socket
      /\ k2.role = k.role /\ k2.peer = k.peer /\ k2.client = k.client
      /\ k2.toServer = <<>> /\ k2.toClient = k.toClient
      /\ k2.welcome = NoWelcome /\ k2.server = "gone"
  BY <1>1 DEF Socket
<1> HIDE DEF k2
<1>3. ~HasAuth(k2) /\ (HasWelcome(k2) <=> HasWelcome(k))
  BY <1>2 DEF HasAuth, HasWelcome
<1>4. SockOK(k2, s, given, R)
  BY <1>2, <1>3 DEF SockOK
<1>5. \A r : SideOf(k, r) => SideOf(k2, r)
  BY <1>2 DEF SideOf, AuthsOf
<1>6. Settled(k, s, R) => Settled(k2, s, R)
  BY <1>2, <1>3 DEF Settled
<1>7. QED
  BY <1>2, <1>4, <1>5, <1>6 DEF k2

LEMMA GoneOK ==
    ASSUME NEW given, NEW R,
           NEW W \in [Pages -> Sockets \cup {NoWs}], NEW st,
           SocksInv(sock, given, R, W, st), NEW s \in Sockets
    PROVE  /\ SocksInv(Gone(s), given, R, W, st)
           /\ Gone(s)[s].server = "gone"
           /\ \A q \in Sockets : q # s => Gone(s)[q] = sock[q]
<1> DEFINE k  == sock[s]
           k2 == [k EXCEPT !.server = "gone", !.toServer = <<>>,
                           !.welcome = NoWelcome]
<1>1. k \in Socket /\ SockOK(k, s, given, R) /\ sock \in SockMap
  BY SocksAt DEF SocksInv
<1>2. /\ k2 \in Socket /\ SockOK(k2, s, given, R)
      /\ \A r : SideOf(k, r) => SideOf(k2, r)
      /\ Settled(k, s, R) => Settled(k2, s, R)
      /\ k2.role = k.role /\ k2.server = "gone"
  BY <1>1, LoseServer
<1>3. Gone(s) = [sock EXCEPT ![s] = IF ~k.client THEN NoSocket ELSE k2]
  BY DEF Gone
<1> HIDE DEF k2
<1>4. CASE ~k.client
  <2>1. \A c \in Pages : W[c] # s
    BY <1>4, PageAt DEF SideOf
  <2>2. SocksInv([sock EXCEPT ![s] = NoSocket], given, R, W, st)
    BY <2>1, NoSocketOK, NoSocketType, OneChanges
  <2>3. NoSocket.server = "gone"
    BY DEF NoSocket
  <2>4. QED
    BY <1>1, <1>3, <1>4, <2>2, <2>3 DEF SockMap
<1>5. CASE k.client
  <2>1. \A c \in Pages : W[c] = s =>
            /\ SideOf(k2, Side(c))
            /\ c # Sender => s \notin R
            /\ st[c] = "open" => k2.role = Side(c) /\ Settled(k2, s, R)
    BY <1>2, PageAt
  <2>2. SocksInv([sock EXCEPT ![s] = k2], given, R, W, st)
    BY <1>2, <2>1, OneChanges
  <2>3. QED
    BY <1>1, <1>2, <1>3, <1>5, <2>2 DEF SockMap
<1>6. QED
  BY <1>1, <1>4, <1>5, FieldTypes

\* A page gives up its websocket.
LEMMA PageLeaves ==
    ASSUME NEW sk, NEW given, NEW R,
           NEW W \in [Pages -> Sockets \cup {NoWs}], NEW st, NEW st2,
           SocksInv(sk, given, R, W, st), NEW c \in Pages,
           st2[c] # "open", \A d \in Pages : d # c => st2[d] = st[d]
    PROVE  SocksInv(sk, given, R, [W EXCEPT ![c] = NoWs], st2)
<1> DEFINE W2 == [W EXCEPT ![c] = NoWs]
<1>1. W2[c] = NoWs /\ \A d \in Pages : d # c => W2[d] = W[d]
  OBVIOUS
<1> HIDE DEF W2
<1>2. ASSUME NEW d \in Pages
      PROVE  PageOK(d, W2, sk, R) /\ Welcomed(d, W2, st2, sk, R)
  <2>1. CASE d = c
    BY <1>1, <2>1 DEF PageOK, Welcomed
  <2>2. CASE d # c
    <3>1. PageOK(d, W, sk, R) /\ Welcomed(d, W, st, sk, R)
      BY DEF SocksInv
    <3>2. W2[d] = W[d] /\ st2[d] = st[d]
      BY <1>1, <2>2
    <3>3. QED
      BY <3>1, <3>2 DEF PageOK, Welcomed
  <2>3. QED
    BY <2>1, <2>2
<1>3. SocksInv(sk, given, R, W2, st2)
  BY <1>2 DEF SocksInv
<1>4. QED
  BY <1>3 DEF W2

LEMMA HungUpRecord ==
    ASSUME NEW k \in Socket, NEW s, NEW given, NEW R, SockOK(k, s, given, R)
    PROVE  LET k2 == [k EXCEPT !.client = FALSE, !.toClient = <<>>,
                               !.welcome = NoWelcome,
                               !.toServer = IF k.up THEN Append(@, Bye) ELSE @]
           IN  /\ k2 \in Socket /\ SockOK(k2, s, given, R)
               /\ k2.role = k.role /\ k2.peer = k.peer
               /\ k2.server = k.server /\ k2.up = k.up
<1> DEFINE q  == IF k.up THEN Append(k.toServer, Bye) ELSE k.toServer
           k2 == [k EXCEPT !.client = FALSE, !.toClient = <<>>,
                           !.welcome = NoWelcome, !.toServer = q]
<1>1. /\ q \in Seq(ClientMsg)
      /\ \A i \in DOMAIN q : q[i].t = "auth" =>
            i \in DOMAIN k.toServer /\ q[i] = k.toServer[i]
  <2>1. k.toServer \in Seq(ClientMsg) /\ Bye \in ClientMsg /\ Bye.t # "auth"
    BY FieldTypes, MessageTypes DEF Bye
  <2>2. QED
    BY <2>1, AppendProperties
<1>2. <<>> \in Seq(ServerMsg)
  BY EmptySeq
<1> HIDE DEF q
<1>3. /\ k2 \in Socket
      /\ k2.role = k.role /\ k2.peer = k.peer /\ k2.server = k.server
      /\ k2.toServer = q /\ k2.toClient = <<>> /\ k2.welcome = NoWelcome
      /\ k2.up = k.up
  BY <1>1, <1>2 DEF Socket
<1> HIDE DEF k2
<1>4. (HasAuth(k2) => HasAuth(k)) /\ ~HasWelcome(k2)
  BY <1>1, <1>3 DEF HasAuth, HasWelcome
<1>5. OneWelcome(k2.toClient)
  BY <1>3 DEF OneWelcome
<1>6. SockOK(k2, s, given, R)
  BY <1>1, <1>3, <1>4, <1>5 DEF SockOK
<1>7. QED
  BY <1>3, <1>6 DEF k2, q

\* The room sees of a page's step no more than a socket it has lost disappear.
Seen(sk, sk2) ==
    \A s \in Sockets :
        \/ /\ sk2[s].role = sk[s].role /\ sk2[s].peer = sk[s].peer
           /\ sk2[s].server = sk[s].server
        \/ sk[s].server = "gone" /\ sk2[s] = NoSocket

\* The other pages' states are the same.
Others(st, st2, c) == \A d \in Pages : d # c => st2[d] = st[d]

\* Only s differs.
Apart(sk, sk2, s) == \A q \in Sockets : q # s => sk2[q] = sk[q]

LEMMA HungUpOK ==
    ASSUME NEW sk, NEW given, NEW R,
           NEW W \in [Pages -> Sockets \cup {NoWs}], NEW st, NEW st2,
           SocksInv(sk, given, R, W, st), OneEach(W), NEW c \in Pages,
           st2[c] # "open", Others(st, st2, c),
           NEW W2, W2 = [W EXCEPT ![c] = NoWs],
           NEW sk2, sk2 = HungUp(sk, W[c])
    PROVE  /\ SocksInv(sk2, given, R, W2, st2) /\ OneEach(W2)
           /\ Apart(sk, sk2, W[c]) /\ Seen(sk, sk2)
<1> USE DEF Others, Apart
<1> DEFINE s  == W[c]
           k  == sk[s]
           k2 == [k EXCEPT !.client = FALSE, !.toClient = <<>>,
                           !.welcome = NoWelcome,
                           !.toServer = IF k.up THEN Append(@, Bye) ELSE @]
<1>1. /\ W2 \in [Pages -> Sockets \cup {NoWs}] /\ OneEach(W2)
      /\ SocksInv(sk, given, R, W2, st2)
  BY PageLeaves DEF OneEach
<1>2. CASE s = NoWs
  <2>1. sk2 = sk
    BY <1>2 DEF HungUp
  <2>2. QED
    BY <1>1, <2>1 DEF Seen
<1>3. CASE s \in Sockets
  <2>1. k \in Socket /\ SockOK(k, s, given, R) /\ sk \in SockMap
    BY <1>3, SocksAt DEF SocksInv
  <2>2. /\ k2 \in Socket /\ SockOK(k2, s, given, R)
        /\ k2.role = k.role /\ k2.peer = k.peer /\ k2.server = k.server
    BY <2>1, HungUpRecord
  <2>3. \A d \in Pages : W2[d] # s
    BY <1>3 DEF OneEach
  <2>4. sk2 = [sk EXCEPT ![s] = IF k.server = "gone" THEN NoSocket ELSE k2]
    BY <1>3 DEF HungUp
  <2> HIDE DEF k2
  <2>5. CASE k.server = "gone"
    <3>1. SocksInv([sk EXCEPT ![s] = NoSocket], given, R, W2, st2)
      BY <1>1, <1>3, <2>3, NoSocketOK, NoSocketType, OneChanges
    <3>2. QED
      BY <1>1, <1>3, <2>1, <2>4, <2>5, <3>1 DEF SockMap, Seen
  <2>6. CASE k.server # "gone"
    <3>1. SocksInv([sk EXCEPT ![s] = k2], given, R, W2, st2)
      BY <1>1, <1>3, <2>2, <2>3, OneChanges
    <3>2. QED
      BY <1>1, <1>3, <2>1, <2>2, <2>4, <2>6, <3>1 DEF SockMap, Seen
  <2>7. QED
    BY <2>5, <2>6
<1>4. QED
  BY <1>2, <1>3

\* A message is taken from what a page has received.
LEMMA TailToClient ==
    ASSUME NEW k \in Socket, k.toClient # <<>>,
           NEW s, NEW given, NEW R, SockOK(k, s, given, R)
    PROVE  LET k2 == [k EXCEPT !.toClient = Tail(@)]
           IN  /\ k2 \in Socket /\ SockOK(k2, s, given, R)
               /\ Head(k.toClient) \in ServerMsg
               /\ Head(k.toClient).t = "welcome" =>
                      k.role # "none" /\ Settled(k2, s, R)
               /\ \A r : SideOf(k, r) =>
                     /\ SideOf(k2, r)
                     /\ Head(k.toClient).t = "welcome" =>
                            Head(k.toClient).role = r /\ k2.role = r
               /\ Settled(k, s, R) => Settled(k2, s, R)
               /\ k2.role = k.role /\ k2.peer = k.peer
               /\ k2.server = k.server /\ k2.up = k.up
               /\ k2.client = k.client /\ k2.welcome = k.welcome
               /\ k2.toServer = k.toServer
<1> DEFINE q  == k.toClient
           k2 == [k EXCEPT !.toClient = Tail(q)]
<1>1. /\ q \in Seq(ServerMsg) /\ q # <<>>
      /\ Tail(q) \in Seq(ServerMsg)
      /\ Head(q) = q[1] /\ q[1] \in ServerMsg /\ 1 \in DOMAIN q
      /\ \A i \in DOMAIN Tail(q) :
             i + 1 \in DOMAIN q /\ i + 1 # 1 /\ Tail(q)[i] = q[i + 1]
      /\ \A i, j \in DOMAIN Tail(q) : i + 1 = j + 1 => i = j
  BY FieldTypes, HeadTailProperties
<1>2. /\ k2 \in Socket
      /\ k2.toClient = Tail(q)
      /\ k2.role = k.role /\ k2.peer = k.peer
      /\ k2.server = k.server /\ k2.client = k.client
      /\ k2.up = k.up /\ k2.toServer = k.toServer
      /\ k2.welcome = k.welcome
  BY <1>1, ToClientType DEF Socket
<1> HIDE DEF k2
<1>3. /\ HasWelcome(k2) => HasWelcome(k)
      /\ q[1].t = "welcome" => HasWelcome(k)
      /\ OneWelcome(k2.toClient)
      /\ q[1].t = "welcome" => ~HasWelcome(k2)
      /\ \A r : WelcomesOf(q, r) => WelcomesOf(k2.toClient, r)
  <2>1. OneWelcome(q)
    BY DEF SockOK
  <2>2. QED
    BY <1>1, <1>2, <2>1 DEF HasWelcome, OneWelcome, WelcomesOf
<1>4. HasAuth(k2) <=> HasAuth(k)
  BY <1>2 DEF HasAuth
<1>5. SockOK(k2, s, given, R)
  BY <1>2, <1>3, <1>4 DEF SockOK
<1>6. q[1].t = "welcome" => k.role # "none" /\ Settled(k2, s, R)
  BY <1>2, <1>3, <1>4 DEF SockOK, Settled
<1>7. ASSUME NEW r, SideOf(k, r)
      PROVE  /\ SideOf(k2, r)
             /\ q[1].t = "welcome" => q[1].role = r /\ k2.role = r
  BY <1>1, <1>2, <1>3, <1>6, <1>7 DEF SideOf, WelcomesOf
<1>8. Settled(k, s, R) => Settled(k2, s, R)
  BY <1>2, <1>3, <1>4 DEF Settled
<1>9. QED
  BY <1>1, <1>2, <1>5, <1>6, <1>7, <1>8 DEF k2

\* A page sends on its websocket.
LEMMA Sends ==
    ASSUME NEW k \in Socket, NEW m \in ClientMsg, m.t # "auth",
           NEW s, NEW given, NEW R, SockOK(k, s, given, R)
    PROVE  LET k2 == [k EXCEPT !.toServer = Append(@, m)]
           IN  /\ k2 \in Socket /\ SockOK(k2, s, given, R)
               /\ \A r : SideOf(k, r) => SideOf(k2, r)
               /\ Settled(k, s, R) => Settled(k2, s, R)
               /\ k2.role = k.role /\ k2.peer = k.peer
               /\ k2.server = k.server /\ k2.up = k.up
               /\ k2.welcome = k.welcome /\ k2.toClient = k.toClient
<1> DEFINE q  == Append(k.toServer, m)
           k2 == [k EXCEPT !.toServer = q]
<1>1. /\ q \in Seq(ClientMsg)
      /\ \A i \in DOMAIN q : q[i].t = "auth" =>
            i \in DOMAIN k.toServer /\ q[i] = k.toServer[i]
  BY FieldTypes, AppendProperties
<1> HIDE DEF q
<1>2. /\ k2 \in Socket
      /\ k2.role = k.role /\ k2.peer = k.peer /\ k2.server = k.server
      /\ k2.toServer = q /\ k2.toClient = k.toClient
      /\ k2.welcome = k.welcome /\ k2.up = k.up /\ k2.client = k.client
  BY <1>1, ToServerType DEF Socket
<1> HIDE DEF k2
<1>3. /\ HasAuth(k2) => HasAuth(k)
      /\ HasWelcome(k2) <=> HasWelcome(k)
      /\ \A r : AuthsOf(k.toServer, r) => AuthsOf(q, r)
  BY <1>1, <1>2 DEF HasAuth, HasWelcome, AuthsOf
<1>4. SockOK(k2, s, given, R)
  BY <1>1, <1>2, <1>3 DEF SockOK
<1>5. \A r : SideOf(k, r) => SideOf(k2, r)
  BY <1>2, <1>3 DEF SideOf
<1>6. Settled(k, s, R) => Settled(k2, s, R)
  BY <1>2, <1>3 DEF Settled
<1>7. QED
  BY <1>2, <1>4, <1>5, <1>6 DEF k2, q

-----------------------------------------------------------------------------
(* The same of what two pages, and the sender and its receivers, rely on. *)

LEMMA KnownHeard ==
    ASSUME NEW k \in Socket, NEW k2 \in Socket, NEW M, NEW T, NEW i,
           Heard(k, k2, M), Leave(i) \notin M, k2.server = k.server,
           KnownTo(k, T, i)
    PROVE  KnownTo(k2, T, i)
<1>1. /\ \A b \in DOMAIN k.toClient :
            b \in DOMAIN k2.toClient /\ k2.toClient[b] = k.toClient[b]
      /\ \A b \in DOMAIN k2.toClient :
            b \in DOMAIN k.toClient \/ k2.toClient[b] \in M
      /\ k2.welcome = k.welcome
  BY DEF Heard, Longer
<1>2. CASE k.welcome # NoWelcome /\ i \in k.welcome.peers
  BY <1>1, <1>2 DEF KnownTo
<1>3. CASE \E a \in DOMAIN k.toClient :
              /\ Gives(k.toClient[a], i)
              /\ \A b \in DOMAIN k.toClient : b > a => k.toClient[b] # Leave(i)
  <2>1. PICK a \in DOMAIN k.toClient :
              /\ Gives(k.toClient[a], i)
              /\ \A b \in DOMAIN k.toClient : b > a => k.toClient[b] # Leave(i)
    BY <1>3
  <2>2. a \in DOMAIN k2.toClient /\ Gives(k2.toClient[a], i)
    BY <1>1, <2>1
  <2>3. \A b \in DOMAIN k2.toClient : b > a => k2.toClient[b] # Leave(i)
    BY <1>1, <2>1
  <2>4. QED
    BY <2>2, <2>3 DEF KnownTo
<1>4. CASE i \in T /\ \A b \in DOMAIN k.toClient : k.toClient[b] # Leave(i)
  BY <1>1, <1>4 DEF KnownTo
<1>5. QED
  BY <1>2, <1>3, <1>4 DEF KnownTo

\* Every socket may have heard messages of M.
AllHeard(sk, sk2, M) ==
    /\ sk2 \in SockMap
    /\ \A s \in Sockets : Heard(sk[s], sk2[s], M)

LEMMA HeardUnique ==
    ASSUME NEW sk, NEW sk2, NEW M, AllHeard(sk, sk2, M), Unique(sk)
    PROVE  Unique(sk2)
<1>1. \A s \in Sockets :
          /\ sk2[s].role = sk[s].role /\ sk2[s].peer = sk[s].peer
          /\ sk2[s].server = "open" => sk[s].server = "open"
  BY DEF AllHeard, Heard
<1>2. QED
  BY <1>1 DEF Unique

LEMMA HeardKnown ==
    ASSUME NEW sk \in SockMap, NEW sk2, NEW M, AllHeard(sk, sk2, M),
           NEW w \in Sockets \cup {NoWs}, NEW st, NEW T,
           AllKnown(sk, w, st, T),
           \A p \in Sockets : InUse(sk, p) => Leave(sk[p].peer) \notin M
    PROVE  AllKnown(sk2, w, st, T)
<1> SUFFICES ASSUME w # NoWs, st # "ending", sk2[w].role = "master",
                    sk2[w].server = "open", sk2[w].up,
                    NEW p \in Sockets, InUse(sk2, p)
             PROVE  KnownTo(sk2[w], T, sk2[p].peer)
  BY DEF AllKnown
<1>1. /\ w \in Sockets
      /\ Heard(sk[w], sk2[w], M) /\ Heard(sk[p], sk2[p], M)
      /\ sk[w] \in Socket /\ sk2[w] \in Socket
  BY DEF AllHeard, SockMap
<1>2. /\ sk[w].role = "master" /\ sk[w].server = "open" /\ sk[w].up
      /\ InUse(sk, p) /\ sk2[p].peer = sk[p].peer
  BY <1>1 DEF Heard, InUse
<1>3. KnownTo(sk[w], T, sk[p].peer)
  BY <1>2 DEF AllKnown
<1>4. QED
  BY <1>1, <1>2, <1>3, KnownHeard

LEMMA HeardGood ==
    ASSUME NEW sk, NEW sk2, NEW M, AllHeard(sk, sk2, M), M \subseteq Plain,
           NEW given, NEW R, NEW W \in [Pages -> Sockets \cup {NoWs}],
           NEW st, NEW T, Good(sk, given, R, W, st, T),
           \A p \in Sockets : InUse(sk, p) => Leave(sk[p].peer) \notin M
    PROVE  Good(sk2, given, R, W, st, T)
<1>1. Steady(sk, sk2)
  BY HeardMore DEF Steady, AllHeard
<1>2. SocksInv(sk2, given, R, W, st)
  BY <1>1, SteadyOK DEF Good
<1>3. W[Sender] \in Sockets \cup {NoWs} /\ sk \in SockMap
  BY DEF Pages, Good, SocksInv
<1>4. AllKnown(sk2, W[Sender], st[Sender], T)
  BY <1>3, HeardKnown DEF Good
<1>5. QED
  BY <1>2, <1>4, HeardUnique DEF Good

\* A message that is not a departure.
LEMMA TellGood ==
    ASSUME NEW sk, NEW to, NEW m \in Plain, m.t # "leave",
           NEW given, NEW R, NEW W \in [Pages -> Sockets \cup {NoWs}],
           NEW st, NEW T, Good(sk, given, R, W, st, T)
    PROVE  Good(Tell(sk, to, m), given, R, W, st, T)
<1>1. sk \in SockMap /\ m \in ServerMsg
  BY DEF Good, SocksInv, Plain
<1>2. AllHeard(sk, Tell(sk, to, m), {m})
  BY <1>1, TellType, TellHeard DEF AllHeard
<1>3. \A i : Leave(i) \notin {m}
  BY DEF Leave
<1>4. QED
  BY <1>2, <1>3, HeardGood

LEMMA HangGood ==
    ASSUME NEW sk, NEW to,
           NEW given, NEW R, NEW W \in [Pages -> Sockets \cup {NoWs}],
           NEW st, NEW T, Good(sk, given, R, W, st, T)
    PROVE  Good(Hang(sk, to), given, R, W, st, T)
<1>1. sk \in SockMap
  BY DEF Good, SocksInv
<1>2. AllHeard(sk, Hang(sk, to), {Bye})
  BY <1>1, HangType, HangHeard DEF AllHeard
<1>3. \A i : Leave(i) \notin {Bye}
  BY DEF Leave, Bye
<1>4. QED
  BY <1>2, <1>3, HeardGood, PlainTypes

LEMMA RejectGood ==
    ASSUME NEW sk, NEW s, NEW c \in Codes,
           NEW given, NEW R, NEW W \in [Pages -> Sockets \cup {NoWs}],
           NEW st, NEW T, Good(sk, given, R, W, st, T)
    PROVE  Good(Reject(sk, s, c), given, R, W, st, T)
<1>1. Error(c) \in Plain /\ Error(c).t # "leave"
  BY PlainTypes DEF Error
<1>2. QED
  BY <1>1, TellGood, HangGood DEF Reject

\* Two states of the websockets that differ only in what pages send.
\* What has been sent on the websockets is all that differs.
Same(sk, sk2) ==
    \A s \in Sockets :
        /\ sk2[s].role = sk[s].role /\ sk2[s].peer = sk[s].peer
        /\ sk2[s].server = sk[s].server /\ sk2[s].up = sk[s].up
        /\ sk2[s].toClient = sk[s].toClient
        /\ sk2[s].welcome = sk[s].welcome

LEMMA SameGood ==
    ASSUME NEW sk, NEW sk2, Same(sk, sk2),
           NEW given, NEW R, NEW W \in [Pages -> Sockets \cup {NoWs}],
           NEW st, NEW T, Good(sk, given, R, W, st, T),
           SocksInv(sk2, given, R, W, st)
    PROVE  Good(sk2, given, R, W, st, T)
<1> USE DEF Same
<1>1. Unique(sk2)
  <2>1. Unique(sk)
    BY DEF Good
  <2>2. QED
    BY <2>1 DEF Unique
<1>2. W[Sender] \in Sockets \cup {NoWs}
  BY DEF Pages
<1>3. \A w \in Sockets : \A i :
          KnownTo(sk[w], T, i) => KnownTo(sk2[w], T, i)
  BY DEF KnownTo
<1>4. \A p \in Sockets : InUse(sk2, p) => InUse(sk, p)
  BY DEF InUse
<1>5. AllKnown(sk, W[Sender], st[Sender], T)
  BY DEF Good
<1>6. AllKnown(sk2, W[Sender], st[Sender], T)
  BY <1>2, <1>3, <1>4, <1>5 DEF AllKnown
<1>7. QED
  BY <1>1, <1>6 DEF Good

LEMMA PopGood ==
    ASSUME NEW sk, NEW given, NEW R,
           NEW W \in [Pages -> Sockets \cup {NoWs}], NEW st, NEW T,
           Good(sk, given, R, W, st, T),
           NEW s \in Sockets, sk[s].toServer # <<>>
    PROVE  LET sk2 == [sk EXCEPT ![s].toServer = Tail(@)]
           IN  /\ Good(sk2, given, R, W, st, T)
               /\ Head(sk[s].toServer) \in ClientMsg
               /\ ~HasAuth(sk2[s])
               /\ Head(sk[s].toServer).t = "auth" =>
                     /\ sk[s].role = "none" /\ Settled(sk2[s], s, R)
                     /\ \A c \in Pages :
                           W[c] = s => Head(sk[s].toServer).role = Side(c)
               /\ \A q \in Sockets :
                     /\ sk2[q].role = sk[q].role /\ sk2[q].peer = sk[q].peer
                     /\ sk2[q].server = sk[q].server
<1> DEFINE k   == sk[s]
           k2  == [k EXCEPT !.toServer = Tail(@)]
           sk2 == [sk EXCEPT ![s].toServer = Tail(@)]
<1>1. k \in Socket /\ SockOK(k, s, given, R) /\ sk \in SockMap
  BY SocksAt DEF Good, SocksInv
<1>2. /\ Head(k.toServer) \in ClientMsg /\ ~HasAuth(k2)
      /\ Head(k.toServer).t = "auth" => k.role = "none" /\ Settled(k2, s, R)
      /\ k2.role = k.role /\ k2.peer = k.peer
      /\ k2.server = k.server /\ k2.up = k.up
      /\ k2.toClient = k.toClient /\ k2.welcome = k.welcome
  BY <1>1, TailToServer
<1>3. sk2[s] = k2 /\ \A q \in Sockets : q # s => sk2[q] = sk[q]
  BY <1>1 DEF SockMap
<1>4. SocksInv(sk2, given, R, W, st)
  BY PopServer DEF Good
<1> HIDE DEF k2, sk2
<1>5. Good(sk2, given, R, W, st, T)
  <2>1. Same(sk, sk2)
    BY <1>2, <1>3 DEF Same
  <2>2. QED
    BY <1>4, <2>1, SameGood
<1>6. ASSUME NEW c \in Pages, W[c] = s, Head(k.toServer).t = "auth"
      PROVE  Head(k.toServer).role = Side(c)
  <2>1. SideOf(k, Side(c))
    <3>1. SocksInv(sk, given, R, W, st)
      BY DEF Good
    <3>2. QED
      BY <1>6, <3>1, PageAt
  <2>2. k.toServer # <<>> /\ k.toServer \in Seq(ClientMsg)
    BY <1>1, FieldTypes
  <2>3. 1 \in DOMAIN k.toServer /\ Head(k.toServer) = k.toServer[1]
    BY <2>2, HeadTailProperties
  <2>4. QED
    BY <1>6, <2>1, <2>3 DEF SideOf, AuthsOf
<1>7. \A q \in Sockets : /\ sk2[q].role = sk[q].role /\ sk2[q].peer = sk[q].peer
                        /\ sk2[q].server = sk[q].server
  BY <1>2, <1>3
<1>8. QED
  BY <1>2, <1>3, <1>5, <1>6, <1>7 DEF sk2

-----------------------------------------------------------------------------
(* The handlers of the room, one by one. *)

LEMMA PeersType ==
    ASSUME NEW sk, NEW given \in SUBSET Ids, NEW R, NEW W, NEW st,
           SocksInv(sk, given, R, W, st)
    PROVE  PeerIds(sk) \in SUBSET Ids
BY DEF PeerIds, Peers, Present, SocksInv, SockOK

LEMMA GreetFields ==
    ASSUME NEW sk \in SockMap, NEW s \in Sockets, NEW w \in Welcomes,
           Greet(sk, s, w)
    PROVE  /\ \A q \in Sockets :
                 /\ sock'[q].role = sk[q].role /\ sock'[q].peer = sk[q].peer
                 /\ sock'[q].server = sk[q].server /\ sock'[q].up = sk[q].up
                 /\ sock'[q].client = sk[q].client
                 /\ q # s => sock'[q] = sk[q]
           /\ \/ sock'[s].welcome = w
              \/ Reachable(sk, s) =>
                     sock'[s].toClient = Append(sk[s].toClient, w)
<1>1. sk[s] \in Socket
  BY DEF SockMap
<1>2. CASE sock' = [sk EXCEPT ![s].welcome = w]
  BY <1>1, <1>2 DEF SockMap, Socket
<1>3. CASE sock' = Tell(sk, {s}, w)
  BY <1>1, <1>3 DEF SockMap, Socket, Tell
<1>4. QED
  BY <1>2, <1>3 DEF Greet

LEMMA KnownWelcome ==
    ASSUME NEW k, NEW q \in Seq(ServerMsg), NEW P, NEW pin, NEW T, NEW i \in P,
           \/ k.welcome = WelcomeMaster(P, pin)
           \/ k.toClient = Append(q, WelcomeMaster(P, pin))
    PROVE  KnownTo(k, T, i)
<1> DEFINE w == WelcomeMaster(P, pin)
<1>1. w.t = "welcome" /\ w # NoWelcome /\ w.peers = P
  BY DEF WelcomeMaster, NoWelcome
<1> HIDE DEF w
<1>2. CASE k.welcome = w
  BY <1>1, <1>2 DEF KnownTo
<1>3. CASE k.toClient = Append(q, w)
  <2>1. /\ Len(q) + 1 \in DOMAIN k.toClient
        /\ k.toClient[Len(q) + 1] = w
        /\ \A b \in DOMAIN k.toClient : ~(b > Len(q) + 1)
    BY <1>3
  <2>2. Gives(k.toClient[Len(q) + 1], i)
    BY <1>1, <2>1 DEF Gives
  <2>3. QED
    BY <2>1, <2>2 DEF KnownTo
<1>4. QED
  BY <1>2, <1>3 DEF w

LEMMA BecomeMasterGood ==
    ASSUME NEW sk, NEW given \in SUBSET Ids, NEW R,
           NEW W \in [Pages -> Sockets \cup {NoWs}], NEW st, NEW T,
           Good(sk, given, R, W, st, T), NEW s \in Sockets,
           sk[s].role = "none", Settled(sk[s], s, R),
           \A c \in Pages : W[c] = s => c = Sender,
           NEW room, room.open => room.pin \in Pins,
           room.open \/ sk[s].server # "open",
           BecomeMaster(sk, s, room)
    PROVE  Good(sock', given, R, W, st, T)
<1> DEFINE stale == Masters(sk) \ {s}
           h == Hang(sk, stale)
           a == [h EXCEPT ![s].role = "master"]
           b == Tell(a, Peers(a), Master(TRUE))
           w == W[Sender]
<1>1. SocksInv(sk, given, R, W, st) /\ sk \in SockMap /\ OneEach(W)
  BY DEF Good, SocksInv
<1>2. /\ Good(h, given, R, W, st, T) /\ h \in SockMap
      /\ SocksInv(h, given, R, W, st)
  BY HangGood DEF Good, SocksInv
<1>3. /\ h[s] = sk[s]
      /\ \A q \in Sockets :
            /\ q # s /\ h[q].role = "master" => h[q].server # "open"
            /\ h[q].role = sk[q].role
  <2>1. s \notin stale
    OBVIOUS
  <2> HIDE DEF stale
  <2>2. ASSUME NEW q \in Sockets
        PROVE  /\ Heard(sk[q], h[q], {Bye})
               /\ q \in stale => h[q].server # "open"
    <3>1. Heard(sk[q], h[q], {Bye})
      BY <1>1, HangHeard
    <3>2. q \in stale => h[q].server # "open"
      BY <1>1, HangHeard
    <3>3. QED
      BY <3>1, <3>2
  <2>3. h[s] = sk[s]
    BY <1>1, <2>1, HangHeard
  <2> HIDE DEF h
  <2>4. QED
    BY <2>2, <2>3 DEF Heard, stale, Masters, Present
<1> HIDE DEF h
<1>4. /\ SockOK(h[s], s, given, R) /\ h[s] \in Socket
      /\ h[s].role = "none" /\ h[s].peer = NoId /\ Settled(h[s], s, R)
  <2>1. SockOK(h[s], s, given, R) /\ h[s] \in Socket
    BY <1>2, SocksAt
  <2>2. h[s].role = "none" /\ Settled(h[s], s, R)
    BY <1>3
  <2>3. h[s].peer = NoId
    BY <2>1, <2>2 DEF SockOK
  <2>4. QED
    BY <2>1, <2>2, <2>3
<1> DEFINE k2 == [h[s] EXCEPT !.role = "master"]
<1>5. /\ k2 \in Socket /\ k2.role = "master" /\ k2.peer = NoId
      /\ k2.server = h[s].server /\ k2.client = h[s].client
      /\ k2.toServer = h[s].toServer /\ k2.toClient = h[s].toClient
      /\ k2.welcome = h[s].welcome
  BY <1>4, AttachType
<1>13. a = [h EXCEPT ![s] = k2]
  OBVIOUS
<1> HIDE DEF a, k2
<1>6. /\ SocksInv(a, given, R, W, st) /\ Settled(a[s], s, R)
      /\ a[s].role = "master" /\ a[s].peer = NoId
      /\ a[s].server = sk[s].server
      /\ a \in SockMap
      /\ \A q \in Sockets : q # s => a[q] = h[q]
      /\ Unwelcomed(W, st, s)
  <2>1. \A c \in Pages : W[c] = s => Side(c) = k2.role
    BY <1>5 DEF Side
  <2>2. /\ SocksInv([h EXCEPT ![s] = k2], given, R, W, st)
        /\ Settled(k2, s, R)
    BY <1>2, <1>4, <1>5, <2>1, Attach
  <2>3. a[s] = k2 /\ \A q \in Sockets : q # s => a[q] = h[q]
    BY <1>2, <1>13 DEF SockMap
  <2>4. QED
    BY <1>2, <1>3, <1>4, <1>5, <1>13, <2>2, <2>3, NotYetWelcomed DEF SocksInv
<1>7. \A q \in Sockets : q # s /\ a[q].role = "master" => a[q].server # "open"
  BY <1>3, <1>6
<1>8. Unique(a)
  <2>1. Unique(h)
    BY <1>2 DEF Good
  <2>2. QED
    BY <1>6, <1>7, <2>1 DEF Unique
<1>9. CASE ~room.open
  <2>1. sock' = a
    BY <1>9 DEF BecomeMaster, a, h, stale
  <2>2. AllKnown(a, w, st[Sender], T)
    <3>1. w \in Sockets \cup {NoWs}
      BY DEF Pages
    <3>2. QED
      BY <1>6, <1>7, <1>9, <3>1 DEF AllKnown
  <2>3. QED
    BY <1>1, <1>6, <1>8, <2>1, <2>2 DEF Good
<1>10. CASE room.open
  <2> DEFINE wl == WelcomeMaster(PeerIds(a), room.pin)
  <2>1. Greet(b, s, wl)
    BY <1>10 DEF BecomeMaster, b, a, h, stale
  <2>2. wl \in Welcomes /\ wl.role = "master"
    BY <1>6, <1>10, PeersType, WelcomeTypes
  <2>3. Master(TRUE) \in Plain /\ Master(TRUE) \in ServerMsg
    BY PlainTypes, MessageTypes
  <2>4. Steady(a, b) /\ AllHeard(a, b, {Master(TRUE)})
    BY <1>6, <2>3, TellSteady, TellHeard, TellType DEF AllHeard
  <2>5. SocksInv(b, given, R, W, st) /\ Unique(b) /\ b \in SockMap
    BY <1>6, <1>8, <2>4, SteadyOK, HeardUnique DEF Steady
  <2>6. b[s] = a[s]
    BY <1>6 DEF b, Tell, Peers, Present
  <2> HIDE DEF b, wl
  <2>7. SocksInv(sock', given, R, W, st)
    BY <1>6, <2>1, <2>2, <2>5, <2>6, GreetOK
  <2>8. /\ \A q \in Sockets :
             /\ sock'[q].role = b[q].role /\ sock'[q].peer = b[q].peer
             /\ sock'[q].server = b[q].server /\ sock'[q].up = b[q].up
             /\ sock'[q].client = b[q].client
        /\ \/ sock'[s].welcome = wl
           \/ Reachable(b, s) => sock'[s].toClient = Append(b[s].toClient, wl)
    BY <2>1, <2>2, <2>5, GreetFields
  <2>9. Unique(sock')
    BY <2>5, <2>8 DEF Unique
  <2>10. AllKnown(sock', w, st[Sender], T)
    <3> SUFFICES ASSUME w # NoWs, st[Sender] # "ending",
                        sock'[w].role = "master", sock'[w].server = "open",
                        sock'[w].up,
                        NEW p \in Sockets, InUse(sock', p)
                 PROVE  KnownTo(sock'[w], T, sock'[p].peer)
      BY DEF AllKnown
    <3>1. w \in Sockets
      BY DEF Pages
    <3>2. /\ \A q \in Sockets :
               /\ b[q].role = a[q].role /\ b[q].peer = a[q].peer
               /\ b[q].server = "open" => a[q].server = "open"
      BY <2>4 DEF AllHeard, Heard
    <3>3. w = s
      BY <1>7, <2>8, <3>1, <3>2
    <3>4. b[s].client
      <4>1. SideOf(b[s], Side(Sender))
        BY <2>5, <3>3, PageAt DEF Pages
      <4>2. QED
        BY <4>1 DEF SideOf
    <3>5. Reachable(b, s)
      BY <2>8, <3>3, <3>4 DEF Reachable
    <3>6. sock'[p].peer \in PeerIds(a)
      BY <2>8, <3>2 DEF InUse, PeerIds, Peers, Present
    <3>7. b[s].toClient \in Seq(ServerMsg)
      BY <2>5, FieldTypes DEF SockMap
    <3>8. QED
      BY <2>8, <3>3, <3>5, <3>6, <3>7, KnownWelcome DEF wl
  <2>11. QED
    BY <1>1, <2>7, <2>9, <2>10 DEF Good
<1>11. QED
  BY <1>9, <1>10

LEMMA KnownTold ==
    ASSUME NEW k, NEW k2, NEW m, NEW T, NEW i,
           k.toClient \in Seq(ServerMsg), k2.toClient = Append(k.toClient, m),
           m # Leave(i)
    PROVE  /\ Gives(m, i) => KnownTo(k2, T, i)
           /\ KnownTo(k, T, i) =>
                 (k.welcome # NoWelcome /\ i \in k.welcome.peers)
                 \/ KnownTo(k2, T, i)
<1> DEFINE q == k.toClient
<1>1. /\ Len(q) + 1 \in DOMAIN k2.toClient
      /\ k2.toClient[Len(q) + 1] = m
      /\ \A b \in DOMAIN k2.toClient :
            ~(b > Len(q) + 1) /\ (b = Len(q) + 1 \/ b \in DOMAIN q)
      /\ \A b \in DOMAIN q :
            b \in DOMAIN k2.toClient /\ k2.toClient[b] = q[b]
  OBVIOUS
<1>2. Gives(m, i) => KnownTo(k2, T, i)
  BY <1>1 DEF KnownTo
<1>3. CASE \E a \in DOMAIN q :
              Gives(q[a], i) /\ \A b \in DOMAIN q : b > a => q[b] # Leave(i)
  <2>1. PICK a \in DOMAIN q :
              Gives(q[a], i) /\ \A b \in DOMAIN q : b > a => q[b] # Leave(i)
    BY <1>3
  <2>2. a \in DOMAIN k2.toClient /\ Gives(k2.toClient[a], i)
    BY <1>1, <2>1
  <2>3. \A b \in DOMAIN k2.toClient : b > a => k2.toClient[b] # Leave(i)
    BY <1>1, <2>1
  <2>4. KnownTo(k2, T, i)
    BY <2>2, <2>3 DEF KnownTo
  <2>5. QED
    BY <1>2, <2>4
<1>4. CASE i \in T /\ \A b \in DOMAIN q : q[b] # Leave(i)
  <2>1. \A b \in DOMAIN k2.toClient : k2.toClient[b] # Leave(i)
    BY <1>1, <1>4
  <2>2. KnownTo(k2, T, i)
    BY <1>4, <2>1 DEF KnownTo
  <2>3. QED
    BY <1>2, <2>2
<1>5. QED
  BY <1>2, <1>3, <1>4 DEF KnownTo

LEMMA TellFields ==
    ASSUME NEW sk \in SockMap, NEW to, NEW m
    PROVE  \A q \in Sockets :
             LET k2 == Tell(sk, to, m)[q]
             IN  /\ k2.role = sk[q].role /\ k2.peer = sk[q].peer
                 /\ k2.server = sk[q].server /\ k2.up = sk[q].up
                 /\ k2.client = sk[q].client /\ k2.welcome = sk[q].welcome
                 /\ q \notin to => k2 = sk[q]
<1> SUFFICES ASSUME NEW q \in Sockets
             PROVE  LET k2 == Tell(sk, to, m)[q]
                    IN  /\ k2.role = sk[q].role /\ k2.peer = sk[q].peer
                        /\ k2.server = sk[q].server /\ k2.up = sk[q].up
                        /\ k2.client = sk[q].client /\ k2.welcome = sk[q].welcome
                        /\ q \notin to => k2 = sk[q]
  OBVIOUS
<1>1. sk[q] \in Socket
  BY DEF SockMap
<1>2. CASE q \in to /\ Reachable(sk, q)
  BY <1>1, <1>2 DEF Tell, Socket
<1>3. CASE ~(q \in to /\ Reachable(sk, q))
  BY <1>3 DEF Tell
<1>4. QED
  BY <1>2, <1>3

\* CredentialsArrive()
LEMMA CredentialsGood ==
    ASSUME NEW given, NEW R,
           NEW W \in [Pages -> Sockets \cup {NoWs}], NEW st, NEW T,
           Good(sock, given, R, W, st, T), NEW s \in Sockets,
           sock[s].welcome # NoWelcome,
           sock' = Tell([sock EXCEPT ![s].welcome = NoWelcome], {s},
                        sock[s].welcome)
    PROVE  Good(sock', given, R, W, st, T)
<1> DEFINE k == sock[s]
           w == k.welcome
           k0 == [k EXCEPT !.welcome = NoWelcome]
           sk == [sock EXCEPT ![s] = k0]
<1>1. /\ SocksInv(sock, given, R, W, st)
      /\ k \in Socket /\ SockOK(k, s, given, R) /\ sock \in SockMap
  BY SocksAt DEF Good, SocksInv
<1>2. w \in Welcomes /\ k.role # "none" /\ Settled(k0, s, R)
  <2>1. w \in Welcomes /\ k.role # "none" /\ ~HasAuth(k) /\ s \notin R
        /\ ~HasWelcome(k)
    BY <1>1, FieldTypes DEF SockOK
  <2>2. /\ k0.toServer = k.toServer /\ k0.toClient = k.toClient
        /\ k0.welcome = NoWelcome
    BY <1>1 DEF Socket
  <2> HIDE DEF k0
  <2>3. Settled(k0, s, R)
    BY <2>1, <2>2 DEF Settled, HasAuth, HasWelcome
  <2>4. QED
    BY <2>1, <2>3
<1>3. /\ k0 \in Socket /\ k0.role = k.role /\ k0.peer = k.peer
      /\ k0.server = k.server /\ k0.client = k.client /\ k0.up = k.up
      /\ k0.toServer = k.toServer /\ k0.toClient = k.toClient
      /\ k0.welcome = NoWelcome
  BY <1>1, WelcomeType DEF Socket
<1>4. sock' = Tell(sk, {s}, w)
  OBVIOUS
<1> HIDE DEF k0
<1>5. /\ sk \in SockMap /\ sk[s] = k0
      /\ \A q \in Sockets : q # s => sk[q] = sock[q]
  BY <1>1, <1>3 DEF SockMap
<1>6. Awaits(W, st, s, w.role)
  <2>1. ASSUME NEW c \in Pages, W[c] = s
        PROVE  Side(c) = w.role /\ st[c] # "open"
    <3>1. SideOf(k, Side(c)) /\ (st[c] = "open" => Settled(k, s, R))
      BY <1>1, <2>1, PageAt
    <3>2. QED
      BY <3>1 DEF SideOf, Settled
  <2>2. QED
    BY <2>1 DEF Awaits
<1>7. SocksInv(sk, given, R, W, st)
  <2>1. SockOK(k0, s, given, R)
    BY <1>1, <1>2, <1>3 DEF SockOK, Settled
  <2>2. \A c \in Pages : W[c] = s =>
            /\ SideOf(k0, Side(c))
            /\ c # Sender => s \notin R
            /\ st[c] = "open" => k0.role = Side(c) /\ Settled(k0, s, R)
    BY <1>1, <1>2, <1>3, PageAt DEF SideOf
  <2>3. given \subseteq given
    OBVIOUS
  <2>4. QED
    BY <1>1, <1>3, <2>1, <2>2, <2>3, OneChanges
<1> HIDE DEF sk, w
<1>8. SocksInv(sock', given, R, W, st)
  <2>1. Settled(sk[s], s, R) /\ sk[s].role # "none"
    BY <1>2, <1>3, <1>5
  <2>2. SocksInv(Tell(sk, {s}, w), given, R, W, st)
    BY <1>2, <1>6, <1>7, <2>1, WelcomeOK
  <2>3. QED
    BY <1>4, <2>2
<1>9. /\ \A q \in Sockets :
             /\ sock'[q].role = sock[q].role /\ sock'[q].peer = sock[q].peer
             /\ sock'[q].server = sock[q].server /\ sock'[q].up = sock[q].up
             /\ q # s => sock'[q] = sock[q]
      /\ Reachable(sk, s) => sock'[s].toClient = Append(k.toClient, w)
  <2>1. \A q \in Sockets :
             /\ sock'[q].role = sk[q].role /\ sock'[q].peer = sk[q].peer
             /\ sock'[q].server = sk[q].server /\ sock'[q].up = sk[q].up
             /\ q # s => sock'[q] = sk[q]
    BY <1>4, <1>5, TellFields
  <2>2. Reachable(sk, s) => sock'[s].toClient = Append(k.toClient, w)
    <3>1. Reachable(sk, s) =>
              Tell(sk, {s}, w)[s].toClient = Append(sk[s].toClient, w)
      BY <1>5, TellTold
    <3>2. sk[s].toClient = k.toClient
      BY <1>3, <1>5
    <3>3. QED
      BY <1>4, <3>1, <3>2
  <2>3. /\ sk[s].role = sock[s].role /\ sk[s].peer = sock[s].peer
        /\ sk[s].server = sock[s].server /\ sk[s].up = sock[s].up
    BY <1>3, <1>5
  <2>4. QED
    BY <1>5, <2>1, <2>2, <2>3
<1>10. Unique(sock')
  BY <1>9 DEF Good, Unique
<1>11. AllKnown(sock', W[Sender], st[Sender], T)
  <2> DEFINE v == W[Sender]
  <2> SUFFICES ASSUME v # NoWs, st[Sender] # "ending",
                      sock'[v].role = "master", sock'[v].server = "open",
                      sock'[v].up,
                      NEW p \in Sockets, InUse(sock', p)
               PROVE  KnownTo(sock'[v], T, sock'[p].peer)
    BY DEF AllKnown
  <2>1. v \in Sockets
    BY DEF Pages
  <2>2. KnownTo(sock[v], T, sock[p].peer)
    BY <1>9, <2>1 DEF InUse, Good, AllKnown
  <2>3. CASE v # s
    BY <1>9, <2>1, <2>2, <2>3
  <2>4. CASE v = s
    <3>1. k.client
      <4>1. SideOf(k, Side(Sender))
        BY <1>1, <2>4, PageAt DEF Pages
      <4>2. QED
        BY <4>1 DEF SideOf
    <3>2. sock'[s].toClient = Append(k.toClient, w)
      <4>1. sock'[s].server = "open" /\ sock'[s].up
        BY <2>4
      <4>2. sock[s].server = "open" /\ sock[s].up
        BY <1>9, <4>1
      <4>3. sk[s].server = "open" /\ sk[s].up /\ sk[s].client
        BY <1>3, <1>5, <3>1, <4>2
      <4>4. QED
        BY <1>9, <4>3 DEF Reachable
    <3>3. /\ k.toClient \in Seq(ServerMsg)
          /\ w.t = "welcome" /\ \A i : w # Leave(i)
      BY <1>1, <1>2, FieldTypes, WelcomeTypes DEF Leave
    <3>4. PICK i : i = sock[p].peer
      OBVIOUS
    <3>5. i \in w.peers => Gives(w, i)
      BY <3>3 DEF Gives
    <3>6. KnownTo(k, T, i) => (i \in w.peers \/ KnownTo(sock'[s], T, i))
      BY <3>2, <3>3, KnownTold DEF w
    <3>7. Gives(w, i) => KnownTo(sock'[s], T, i)
      BY <3>2, <3>3, KnownTold
    <3>8. QED
      BY <1>9, <2>2, <2>4, <3>4, <3>5, <3>6, <3>7
  <2>5. QED
    BY <2>3, <2>4
<1>12. QED
  BY <1>8, <1>10, <1>11 DEF Good

\* closeRoom(): no socket is in use any more.
LEMMA CloseGood ==
    ASSUME NEW sk, NEW given, NEW R,
           NEW W \in [Pages -> Sockets \cup {NoWs}], NEW st, NEW T,
           Good(sk, given, R, W, st, T)
    PROVE  LET sk2 == Hang(Tell(sk, Present(sk), Closed), Present(sk))
           IN  /\ Good(sk2, given, R, W, st, T)
               /\ \A s \in Sockets : sk2[s].server # "open"
<1> DEFINE to  == Present(sk)
           tk  == Tell(sk, to, Closed)
           sk2 == Hang(tk, to)
<1>1. Closed \in Plain /\ Closed.t # "leave"
  BY PlainTypes DEF Closed
<1>2. Good(tk, given, R, W, st, T) /\ sk \in SockMap
  BY <1>1, TellGood DEF Good, SocksInv
<1>3. tk \in SockMap
  BY <1>2 DEF Good, SocksInv
<1>4. Good(sk2, given, R, W, st, T)
  BY <1>2, HangGood
<1>5. \A s \in Sockets : s \notin to => sk[s].server = "gone"
  BY DEF Present
<1> HIDE DEF to
<1>6. \A s \in Sockets : tk[s].server = sk[s].server
  BY <1>2, TellFields
<1> HIDE DEF tk
<1>7. \A s \in Sockets : s \in to => sk2[s].server # "open"
  BY <1>3, HangHeard
<1>8. \A s \in Sockets : s \notin to => sk2[s] = tk[s]
  BY <1>3, HangHeard
<1>9. \A s \in Sockets : sk2[s].server # "open"
  BY <1>5, <1>6, <1>7, <1>8
<1>10. QED
  BY <1>4, <1>9 DEF to, tk

\* The socket that is gone is not in use; the others are as they were.
LEMMA GoneGood ==
    ASSUME NEW given, NEW R,
           NEW W \in [Pages -> Sockets \cup {NoWs}], NEW st, NEW T,
           Good(sock, given, R, W, st, T), NEW s \in Sockets
    PROVE  Good(Gone(s), given, R, W, st, T)
<1> DEFINE sk == Gone(s)
<1>1. /\ SocksInv(sk, given, R, W, st) /\ OneEach(W)
      /\ sk[s].server = "gone"
      /\ \A q \in Sockets : q # s => sk[q] = sock[q]
  BY GoneOK DEF Good
<1> HIDE DEF sk
<1>2. Unique(sk)
  BY <1>1 DEF Good, Unique
<1>3. AllKnown(sk, W[Sender], st[Sender], T)
  <2>1. W[Sender] \in Sockets \cup {NoWs}
    BY DEF Pages
  <2>2. AllKnown(sock, W[Sender], st[Sender], T)
    BY DEF Good
  <2>3. CASE W[Sender] = s
    BY <1>1, <2>3 DEF AllKnown
  <2>4. CASE W[Sender] # s
    <3>1. \A p \in Sockets :
              InUse(sk, p) => InUse(sock, p) /\ sk[p].peer = sock[p].peer
      BY <1>1 DEF InUse
    <3>2. W[Sender] # NoWs => sk[W[Sender]] = sock[W[Sender]]
      BY <1>1, <2>1, <2>4
    <3>3. QED
      BY <2>2, <3>1, <3>2 DEF AllKnown
  <2>5. QED
    BY <2>3, <2>4
<1>4. QED
  BY <1>1, <1>2, <1>3 DEF Good, sk

LEMMA OnGoneGood ==
    ASSUME NEW sk, NEW given \in SUBSET Ids, NEW R,
           NEW W \in [Pages -> Sockets \cup {NoWs}], NEW st, NEW T,
           Good(sk, given, R, W, st, T), NEW s \in Sockets,
           SockOK(sock[s], s, given, R),
           OnGone(sk, s)
    PROVE  Good(sock', given, R, W, st, T)
<1> DEFINE i == sock[s].peer
<1>1. sk \in SockMap
  BY DEF Good, SocksInv
<1>2. CASE sock' = Tell(sk, Peers(sk), Master(FALSE))
  <2>1. Master(FALSE) \in Plain /\ Master(FALSE).t # "leave"
    BY PlainTypes DEF Master
  <2>2. QED
    BY <1>2, <2>1, TellGood
<1>3. CASE /\ sock[s].role = "peer" /\ i \notin PeerIds(sk)
           /\ sock' = Tell(sk, Masters(sk), Leave(i))
  <2>1. i \in Ids
    BY <1>3 DEF SockOK
  <2>2. Leave(i) \in Plain /\ Leave(i) \in ServerMsg
    BY <2>1, PlainTypes, MessageTypes
  <2>3. \A p \in Sockets : InUse(sk, p) => sk[p].peer # i
    BY <1>3 DEF InUse, PeerIds, Peers, Present
  <2>4. \A p \in Sockets : InUse(sk, p) => Leave(sk[p].peer) \notin {Leave(i)}
    BY <2>3 DEF Leave
  <2> HIDE DEF i
  <2>5. AllHeard(sk, sock', {Leave(i)})
    BY <1>1, <1>3, <2>2, TellType, TellHeard DEF AllHeard
  <2>6. {Leave(i)} \subseteq Plain
    BY <2>2
  <2>7. QED
    BY <2>4, <2>5, <2>6, HeardGood
<1>4. CASE sock' = sk
  BY <1>4
<1>5. QED
  BY <1>2, <1>3, <1>4 DEF OnGone

LEMMA RelayGood ==
    ASSUME NEW sk, NEW given \in SUBSET Ids, NEW R,
           NEW W \in [Pages -> Sockets \cup {NoWs}], NEW st, NEW T,
           Good(sk, given, R, W, st, T), NEW s \in Sockets, NEW m,
           RelayFromMaster(sk, s, m) \/ RelayFromPeer(sk, s)
    PROVE  Good(sock', given, R, W, st, T)
<1>1. /\ Error("peer_not_found") \in Plain /\ Error("peer_not_found").t # "leave"
      /\ Error("master_absent") \in Plain /\ Error("master_absent").t # "leave"
  BY PlainTypes DEF Error, Codes
<1>2. \A i \in Ids \cup {NoId} : Signal(i) \in Plain /\ Signal(i).t # "leave"
  BY PlainTypes DEF Signal
<1>3. sk[s].peer \in Ids \cup {NoId}
  BY FieldTypes DEF Good, SocksInv, SockMap
<1>4. CASE RelayFromMaster(sk, s, m)
  <2>1. \/ sock' = Tell(sk, {s}, Error("peer_not_found"))
        \/ \E p \in Peers(sk) : sock' = Tell(sk, {p}, Signal(NoId))
    BY <1>4 DEF RelayFromMaster
  <2>2. CASE sock' = Tell(sk, {s}, Error("peer_not_found"))
    BY <1>1, <2>2, TellGood
  <2>3. CASE \E p \in Peers(sk) : sock' = Tell(sk, {p}, Signal(NoId))
    <3>1. PICK p \in Peers(sk) : sock' = Tell(sk, {p}, Signal(NoId))
      BY <2>3
    <3>2. Signal(NoId) \in Plain /\ Signal(NoId).t # "leave"
      BY <1>2
    <3>3. QED
      BY <3>1, <3>2, TellGood
  <2>4. QED
    BY <2>1, <2>2, <2>3
<1>5. CASE RelayFromPeer(sk, s)
  <2>1. \/ sock' = Tell(sk, {s}, Error("master_absent"))
        \/ sock' = Tell(sk, Masters(sk), Signal(sk[s].peer))
    BY <1>5 DEF RelayFromPeer
  <2>2. QED
    BY <1>1, <1>2, <1>3, <2>1, TellGood
<1>6. QED
  BY <1>4, <1>5

LEMMA AuthAsPeerGood ==
    ASSUME NEW sk, NEW R,
           NEW W \in [Pages -> Sockets \cup {NoWs}], NEW st, NEW T,
           ids \in SUBSET Ids,
           Good(sk, ids, R, W, st, T), NEW s \in Sockets,
           sk[s].role = "none", Settled(sk[s], s, R),
           \A c \in Pages : W[c] = s => Side(c) = "peer",
           NEW m, m.resume \in Ids \cup {NoId},
           AuthAsPeer(sk, s, m)
    PROVE  Good(sock', ids', R, W, st, T) /\ ids' \in SUBSET Ids
<1> DEFINE stale == {p \in Peers(sk) : m.resume # NoId /\ sk[p].peer = m.resume}
           w == W[Sender]
<1>1. /\ SocksInv(sk, ids, R, W, st) /\ sk \in SockMap /\ OneEach(W)
      /\ Unique(sk) /\ AllKnown(sk, w, st[Sender], T)
      /\ sk[s] \in Socket
  BY SocksAt DEF Good, SocksInv
<1>2. CASE \E c \in Codes : sock' = Reject(sk, s, c) /\ UNCHANGED ids
  BY <1>2, RejectGood
<1>3. ASSUME NEW i \in IF m.resume = NoId THEN Ids \ ids ELSE {m.resume},
             ids' = ids \cup {i},
             NEW h, h = Hang([sk EXCEPT ![s].role = "peer", ![s].peer = i], stale),
             Greet(Tell(h, Masters(h), Join(i)), s,
                   WelcomePeer(i, Masters(h) # {}))
      PROVE  Good(sock', ids', R, W, st, T) /\ ids' \in SUBSET Ids
  <2> DEFINE k2 == [sk[s] EXCEPT !.role = "peer", !.peer = i]
             a  == [sk EXCEPT ![s] = k2]
             b  == Tell(h, Masters(h), Join(i))
             wl == WelcomePeer(i, Masters(h) # {})
  <2>1. /\ i \in Ids /\ ids' \in SUBSET Ids /\ i \in ids'
        /\ \A q \in Sockets : sk[q].role = "peer" /\ sk[q].peer = i
               /\ sk[q].server = "open" => q \in stale
    BY <1>1, <1>3 DEF SocksInv, SockOK, Peers, Present
  <2>2. s \notin stale
    BY DEF Peers
  <2> HIDE DEF stale
  <2>3. /\ k2 \in Socket /\ k2.role = "peer" /\ k2.peer = i
        /\ k2.server = sk[s].server /\ k2.client = sk[s].client
        /\ k2.up = sk[s].up /\ k2.toServer = sk[s].toServer
        /\ k2.toClient = sk[s].toClient /\ k2.welcome = sk[s].welcome
    BY <1>1, <2>1, AttachPeerType
  <2>4. a = [sk EXCEPT ![s].role = "peer", ![s].peer = i]
    BY <1>1 DEF SockMap, Socket
  <2> HIDE DEF k2
  <2>5. h = Hang(a, stale)
    BY <1>3, <2>4
  <2>6. SocksInv(sk, ids', R, W, st)
    <3>1. ids \subseteq ids'
      BY <1>3
    <3>2. QED
      BY <1>1, <3>1, Restored
  <2>7. /\ SocksInv(a, ids', R, W, st) /\ Settled(k2, s, R)
        /\ Unwelcomed(W, st, s)
    <3>1. /\ k2.role \in {"master", "peer"} /\ k2.role # "master"
          /\ \A c \in Pages : W[c] = s => Side(c) = k2.role
      BY <2>3
    <3>2. Settled(k2, s, R) /\ SocksInv([sk EXCEPT ![s] = k2], ids', R, W, st)
      BY <2>1, <2>3, <2>6, <3>1, Attach
    <3>3. QED
      BY <1>1, <3>2, NotYetWelcomed
  <2>8. /\ a[s] = k2 /\ a \in SockMap
        /\ \A q \in Sockets : q # s => a[q] = sk[q]
    BY <1>1, <2>3 DEF SockMap
  <2> HIDE DEF a
  <2>9. /\ h \in SockMap /\ Steady(a, h) /\ AllHeard(a, h, {Bye})
        /\ h[s] = k2
        /\ \A q \in stale : h[q].server # "open"
    <3>1. \A q \in stale : q \in Sockets
      BY DEF stale, Peers, Present
    <3>2. Steady(a, h)
      BY <2>5, <2>8, HangSteady
    <3>3. AllHeard(a, h, {Bye})
      BY <2>5, <2>8, HangType, HangHeard DEF AllHeard
    <3>4. h[s] = k2
      BY <2>2, <2>5, <2>8, HangHeard
    <3>5. ASSUME NEW q \in stale PROVE h[q].server # "open"
      <4>1. q \in Sockets
        BY <3>1
      <4>2. Hang(a, stale)[q].server # "open"
        BY <2>8, <4>1, HangHeard
      <4>3. QED
        BY <2>5, <4>2
    <3>6. QED
      BY <3>2, <3>3, <3>4, <3>5 DEF AllHeard
  <2>10. Join(i) \in Plain /\ Join(i) \in ServerMsg
    BY <2>1, PlainTypes, MessageTypes
  <2>11. /\ b \in SockMap /\ Steady(h, b) /\ AllHeard(h, b, {Join(i)})
    BY <2>9, <2>10, TellSteady, TellType, TellHeard DEF AllHeard
  <2>12. b[s] = k2
    BY <2>3, <2>9, TellFields DEF Masters
  <2>13. SocksInv(b, ids', R, W, st)
    BY <2>7, <2>9, <2>11, SteadyOK
  <2>14. wl \in Welcomes /\ wl.role = "peer"
    BY <2>1, WelcomeTypes
  <2>15. Greet(b, s, wl)
    BY <1>3
  <2>16. SocksInv(sock', ids', R, W, st)
    <3> HIDE DEF b, wl
    <3>1. QED
      BY <2>3, <2>7, <2>12, <2>13, <2>14, <2>15, GreetOK
  <2>17. /\ \A q \in Sockets :
             /\ sock'[q].role = b[q].role /\ sock'[q].peer = b[q].peer
             /\ sock'[q].server = b[q].server /\ sock'[q].up = b[q].up
             /\ q # s => sock'[q] = b[q]
    <3> HIDE DEF b, wl
    <3>1. QED
      BY <2>11, <2>14, <2>15, GreetFields
  <2>18. \A q \in Sockets :
             /\ sock'[q].role = a[q].role /\ sock'[q].peer = a[q].peer
             /\ sock'[q].up = a[q].up
             /\ sock'[q].server = "open" => a[q].server = "open" /\ q \notin stale
    BY <2>9, <2>11, <2>17 DEF AllHeard, Heard
  <2>19. Unique(sock')
    <3> SUFFICES ASSUME NEW p \in Sockets, NEW q \in Sockets,
                        sock'[p].server = "open", sock'[q].server = "open",
                        sock'[p].role = sock'[q].role, sock'[p].role # "none",
                        sock'[p].peer = sock'[q].peer
                 PROVE  p = q
      BY DEF Unique
    <3>1. CASE p # s /\ q # s
      BY <1>1, <2>8, <2>18, <3>1 DEF Unique
    <3>2. CASE p = s /\ q # s
      BY <2>1, <2>3, <2>8, <2>18, <3>2
    <3>3. CASE p # s /\ q = s
      BY <2>1, <2>3, <2>8, <2>18, <3>3
    <3>4. QED
      BY <3>1, <3>2, <3>3
  <2>20. AllKnown(sock', w, st[Sender], T)
    <3> SUFFICES ASSUME w # NoWs, st[Sender] # "ending",
                        sock'[w].role = "master", sock'[w].server = "open",
                        sock'[w].up,
                        NEW p \in Sockets, InUse(sock', p)
                 PROVE  KnownTo(sock'[w], T, sock'[p].peer)
      BY DEF AllKnown
    <3>1. w \in Sockets /\ Sender \in Pages /\ W[Sender] = w
      BY DEF Pages
    <3> HIDE DEF w
    <3>2. w # s
      BY <2>3, <2>8, <2>18, <3>1
    <3>3. /\ sock'[w] = b[w] /\ a[w] = sk[w]
          /\ Heard(a[w], h[w], {Bye}) /\ Heard(h[w], b[w], {Join(i)})
          /\ a[w] \in Socket /\ h[w] \in Socket /\ b[w] \in Socket
      BY <2>8, <2>9, <2>11, <2>17, <3>1, <3>2 DEF AllHeard, SockMap
    <3>4. /\ sk[w].role = "master" /\ sk[w].server = "open" /\ sk[w].up
          /\ h[w].role = "master" /\ h[w].server = "open" /\ h[w].up
          /\ b[w].server = "open"
      BY <3>3 DEF Heard
    <3>5. CASE p = s
      <4>1. sock'[p].peer = i
        BY <2>3, <2>8, <2>18, <3>5
      <4>2. h[w].client
        <5>1. SocksInv(h, ids', R, W, st)
          BY <2>7, <2>9, SteadyOK
        <5>2. PageOK(Sender, W, h, R)
          BY <3>1, <5>1 DEF SocksInv
        <5>3. SideOf(h[w], Side(Sender))
          BY <3>1, <5>2 DEF PageOK
        <5>4. QED
          BY <5>3 DEF SideOf
      <4>3. Reachable(h, w) /\ w \in Masters(h)
        BY <3>1, <3>4, <4>2 DEF Reachable, Masters, Present
      <4>4. b[w].toClient = Append(h[w].toClient, Join(i))
        BY <2>9, <3>1, <4>3, TellTold
      <4>5. /\ Gives(Join(i), i) /\ Join(i) # Leave(i)
            /\ h[w].toClient \in Seq(ServerMsg)
        BY <3>3, FieldTypes DEF Gives, Join, Leave
      <4>6. KnownTo(b[w], T, i)
        BY <4>4, <4>5, KnownTold
      <4>7. QED
        BY <3>3, <4>1, <4>6
    <3>6. CASE p # s
      <4> DEFINE j == sk[p].peer
      <4>1. InUse(sk, p) /\ sock'[p].peer = j
        BY <2>8, <2>18, <3>6 DEF InUse
      <4>2. KnownTo(sk[w], T, j)
        BY <1>1, <3>4, <4>1 DEF AllKnown
      <4> HIDE DEF j
      <4>3. Leave(j) \notin {Bye} /\ Leave(j) \notin {Join(i)}
        BY DEF Leave, Bye, Join
      <4>4. KnownTo(h[w], T, j)
        BY <3>3, <3>4, <4>2, <4>3, KnownHeard
      <4>5. KnownTo(b[w], T, j)
        BY <3>3, <3>4, <4>3, <4>4, KnownHeard
      <4>6. QED
        BY <3>3, <4>1, <4>5
    <3>7. QED
      BY <3>5, <3>6
  <2>21. QED
    BY <1>1, <2>1, <2>16, <2>19, <2>20 DEF Good
<1>4. QED
  BY <1>2, <1>3 DEF AuthAsPeer, Codes

-----------------------------------------------------------------------------
(* What pages do with their websockets. *)

\* A page lets go of its websocket.
LEMMA LeaveGood ==
    ASSUME NEW sk, NEW given, NEW R,
           NEW W \in [Pages -> Sockets \cup {NoWs}], NEW st, NEW st2,
           NEW T, NEW T2, Good(sk, given, R, W, st, T), NEW c \in Pages,
           st2[c] # "open", Others(st, st2, c), c = Sender \/ T2 = T,
           NEW W2, W2 = [W EXCEPT ![c] = NoWs],
           NEW sk2, sk2 = HungUp(sk, W[c])
    PROVE  Good(sk2, given, R, W2, st2, T2) /\ Seen(sk, sk2)
<1>1. SocksInv(sk, given, R, W, st) /\ OneEach(W) /\ Unique(sk)
      /\ AllKnown(sk, W[Sender], st[Sender], T)
  BY DEF Good
<1>2. /\ SocksInv(sk2, given, R, W2, st2) /\ OneEach(W2)
      /\ Apart(sk, sk2, W[c]) /\ Seen(sk, sk2)
  BY <1>1, HungUpOK, ZenonT(60)
<1>3. SocksInv(sk2, given, R, W2, st2) /\ OneEach(W2)
  BY <1>2
<1>4. \A s \in Sockets : s # W[c] => sk2[s] = sk[s]
  BY <1>2 DEF Apart
<1>5. Seen(sk, sk2)
  BY <1>2
<1>6. Unique(sk2)
  <2> SUFFICES ASSUME NEW s \in Sockets, NEW q \in Sockets,
                      sk2[s].server = "open", sk2[q].server = "open",
                      sk2[s].role = sk2[q].role, sk2[s].role # "none",
                      sk2[s].peer = sk2[q].peer
               PROVE  s = q
    BY DEF Unique
  <2>1. sk2[s] # NoSocket /\ sk2[q] # NoSocket
    BY DEF NoSocket
  <2>2. QED
    BY <1>1, <1>5, <2>1 DEF Seen, Unique
<1>7. \A p \in Sockets : InUse(sk2, p) => InUse(sk, p) /\ sk2[p].peer = sk[p].peer
  <2>1. NoSocket.server # "open"
    BY DEF NoSocket
  <2>2. QED
    BY <1>5, <2>1 DEF Seen, InUse
<1>8. AllKnown(sk2, W2[Sender], st2[Sender], T2)
  <2>1. CASE c = Sender
    <3>1. W2[Sender] = NoWs
      BY <2>1 DEF Pages
    <3>2. QED
      BY <3>1 DEF AllKnown
  <2>2. CASE c # Sender
    <3>1. /\ W2[Sender] = W[Sender] /\ st2[Sender] = st[Sender] /\ T2 = T
          /\ Sender \in Pages
      BY <2>2 DEF Pages, Others
    <3>2. ASSUME W[Sender] # NoWs PROVE sk2[W[Sender]] = sk[W[Sender]]
      <4>1. W[Sender] \in Sockets
        BY <3>1, <3>2
      <4>2. W[Sender] # W[c]
        BY <1>1, <2>2, <3>1, <3>2 DEF OneEach
      <4>3. QED
        BY <1>4, <4>1, <4>2
    <3>3. QED
      BY <1>1, <1>7, <3>1, <3>2 DEF AllKnown
  <2>3. QED
    BY <2>1, <2>2
<1>9. QED
  BY <1>3, <1>5, <1>6, <1>8 DEF Good

\* What a sender knows once it has read the message m.
Learns(m, T, T2) ==
    /\ \A i : Gives(m, i) => i \in T2
    /\ \A i \in T : m # Leave(i) => i \in T2

LEMMA KnownTail ==
    ASSUME NEW k \in Socket, k.toClient # <<>>, NEW T, NEW T2,
           Learns(Head(k.toClient), T, T2), NEW i, KnownTo(k, T, i),
           NEW k2, k2.toClient = Tail(k.toClient), k2.welcome = k.welcome
    PROVE  KnownTo(k2, T2, i)
<1> DEFINE q == k.toClient
           r == Tail(q)
<1>1. /\ q \in Seq(ServerMsg) /\ q # <<>> /\ Head(q) = q[1] /\ 1 \in DOMAIN q
      /\ Len(q) \in Nat /\ DOMAIN q = 1 .. Len(q) /\ DOMAIN r = 1 .. Len(r)
      /\ Len(r) = Len(q) - 1
      /\ \A a \in DOMAIN r : a \in Nat \ {0} /\ a + 1 \in DOMAIN q /\ r[a] = q[a + 1]
      /\ \A a \in DOMAIN q : a \in Nat /\ (a = 1 \/ a - 1 \in DOMAIN r)
  BY FieldTypes, EmptySeq, HeadTailProperties
<1> HIDE DEF r, q
<1>2. k2.toClient = r /\ k.toClient = q
  BY DEF r, q
<1>3. CASE k.welcome # NoWelcome /\ i \in k.welcome.peers
  BY <1>3 DEF KnownTo
<1>4. CASE /\ i \in T
           /\ \A b \in DOMAIN q : q[b] # Leave(i)
  <2>1. i \in T2
    BY <1>1, <1>2, <1>4 DEF Learns
  <2>2. \A b \in DOMAIN r : r[b] # Leave(i)
    BY <1>1, <1>4
  <2>3. QED
    BY <1>2, <2>1, <2>2 DEF KnownTo
<1>5. ASSUME NEW a \in DOMAIN q, Gives(q[a], i),
             \A b \in DOMAIN q : b > a => q[b] # Leave(i)
      PROVE  KnownTo(k2, T2, i)
  <2>1. CASE a = 1
    <3>1. i \in T2
      BY <1>1, <1>2, <1>5, <2>1 DEF Learns
    <3>2. ASSUME NEW b \in DOMAIN r PROVE r[b] # Leave(i)
      <4>1. b + 1 \in DOMAIN q /\ b + 1 > 1 /\ r[b] = q[b + 1]
        BY <1>1
      <4>2. QED
        BY <1>5, <2>1, <4>1
    <3>3. QED
      BY <1>2, <3>1, <3>2 DEF KnownTo
  <2>2. CASE a # 1
    <3>1. /\ a - 1 \in DOMAIN r /\ r[a - 1] = q[a] /\ a \in Nat
      <4>1. a - 1 \in DOMAIN r /\ a \in Nat
        BY <1>1, <2>2
      <4>2. r[a - 1] = q[(a - 1) + 1] /\ (a - 1) + 1 = a
        BY <1>1, <4>1
      <4>3. QED
        BY <4>1, <4>2
    <3>2. ASSUME NEW b \in DOMAIN r, b > a - 1 PROVE r[b] # Leave(i)
      <4>1. b + 1 \in DOMAIN q /\ b + 1 > a /\ r[b] = q[b + 1]
        BY <1>1, <3>1, <3>2
      <4>2. QED
        BY <1>5, <4>1
    <3>3. QED
      BY <1>2, <1>5, <3>1, <3>2 DEF KnownTo
  <2>3. QED
    BY <2>1, <2>2
<1>6. QED
  BY <1>2, <1>3, <1>4, <1>5 DEF KnownTo

\* The room's ends of the websockets are the same.
Servers(sk, sk2) == \A q \in Sockets : sk2[q].server = sk[q].server

\* The sockets once a page has read the first message on s, and once s is down.
Read(sk, s) == [sk EXCEPT ![s].toClient = Tail(@)]
Dropped(sk, s) == [sk EXCEPT ![s].up = FALSE, ![s].toServer = <<>>,
                             ![s].toClient = <<>>]

\* What c knows after it has read m.
Heeds(c, m, st, T, T2) ==
    /\ c = Sender => Learns(m, T, T2) \/ st[c] = "ending"
    /\ c # Sender => T2 = T

\* A page is welcomed as what it is, on a socket that has settled.
WelcomedAs(m, c, k2, s, R) ==
    m.t = "welcome" => m.role = Side(c) /\ k2.role = Side(c) /\ Settled(k2, s, R)

\* A page takes the message m from its websocket.
LEMMA ReadGood ==
    ASSUME NEW sk, NEW given, NEW R,
           NEW W \in [Pages -> Sockets \cup {NoWs}], NEW st, NEW T, NEW T2,
           Good(sk, given, R, W, st, T), NEW c \in Pages,
           NEW s \in Sockets, W[c] = s, sk[s].toClient # <<>>,
           NEW m, m = Head(sk[s].toClient),
           Heeds(c, m, st, T, T2),
           NEW sk2, sk2 = Read(sk, s)
    PROVE  /\ Good(sk2, given, R, W, st, T2)
           /\ m \in ServerMsg
           /\ WelcomedAs(m, c, sk2[s], s, R)
           /\ Servers(sk, sk2)
<1> DEFINE k  == sk[s]
           k2 == [k EXCEPT !.toClient = Tail(@)]
<1>1. /\ SocksInv(sk, given, R, W, st) /\ OneEach(W) /\ Unique(sk)
      /\ AllKnown(sk, W[Sender], st[Sender], T) /\ sk \in SockMap
  BY DEF Good, SocksInv
<1>2. k \in Socket /\ SockOK(k, s, given, R) /\ k.toClient # <<>>
  BY <1>1, SocksAt
<1>3. /\ SideOf(k, Side(c))
      /\ c # Sender => s \notin R
      /\ st[c] = "open" => k.role = Side(c) /\ Settled(k, s, R)
  <2>1. PageOK(c, W, sk, R) /\ Welcomed(c, W, st, sk, R) /\ W[c] # NoWs
    BY <1>1 DEF SocksInv
  <2>2. QED
    BY <2>1 DEF PageOK, Welcomed
<1>4. k2 \in Socket /\ SockOK(k2, s, given, R) /\ m \in ServerMsg
  BY <1>2, TailToClient
<1>5. /\ SideOf(k2, Side(c))
      /\ m.t = "welcome" => m.role = Side(c) /\ k2.role = Side(c)
  <2>1. \A r : SideOf(k, r) =>
            /\ SideOf(k2, r)
            /\ Head(k.toClient).t = "welcome" =>
                   Head(k.toClient).role = r /\ k2.role = r
    BY <1>2, TailToClient
  <2> HIDE DEF k, k2
  <2>2. m = Head(k.toClient)
    BY DEF k
  <2>3. QED
    BY <1>3, <2>1, <2>2
<1>6. m.t = "welcome" => Settled(k2, s, R)
  BY <1>2, TailToClient
<1>7. Settled(k, s, R) => Settled(k2, s, R)
  BY <1>2, TailToClient
<1>8. /\ k2.role = k.role /\ k2.peer = k.peer /\ k2.server = k.server
      /\ k2.up = k.up /\ k2.welcome = k.welcome
      /\ k2.toClient = Tail(k.toClient)
  BY <1>2 DEF Socket
<1> HIDE DEF k2
<1>9. sk2 = [sk EXCEPT ![s] = k2]
  BY DEF k2, Read
<1>10. /\ sk2[s] = k2
       /\ \A q \in Sockets : q # s => sk2[q] = sk[q]
  BY <1>1, <1>9 DEF SockMap
<1>11. SocksInv(sk2, given, R, W, st)
  <2>1. \A d \in Pages : W[d] = s => d = c
    BY <1>1 DEF OneEach
  <2>2. \A d \in Pages : W[d] = s =>
            /\ SideOf(k2, Side(d))
            /\ d # Sender => s \notin R
            /\ st[d] = "open" => k2.role = Side(d) /\ Settled(k2, s, R)
    BY <1>3, <1>5, <1>7, <1>8, <2>1
  <2>3. SocksInv([sk EXCEPT ![s] = k2], given, R, W, st)
    BY <1>1, <1>4, <2>2, OneChanges
  <2>4. QED
    BY <1>9, <2>3
<1>12. \A q \in Sockets :
           /\ sk2[q].role = sk[q].role /\ sk2[q].peer = sk[q].peer
           /\ sk2[q].server = sk[q].server /\ sk2[q].up = sk[q].up
  BY <1>8, <1>10
<1>13. Unique(sk2)
  BY <1>1, <1>12 DEF Unique
<1>14. AllKnown(sk2, W[Sender], st[Sender], T2)
  <2>1. CASE c # Sender
    <3>1. Sender \in Pages /\ W[Sender] # s
      BY <1>1, <2>1 DEF OneEach, Pages
    <3>2. W[Sender] # NoWs => W[Sender] \in Sockets /\ sk2[W[Sender]] = sk[W[Sender]]
      BY <1>10, <3>1
    <3>3. QED
      BY <1>1, <1>12, <2>1, <3>2 DEF AllKnown, InUse, Heeds
  <2>2. CASE c = Sender
    <3> SUFFICES ASSUME st[Sender] # "ending",
                        sk2[s].role = "master", sk2[s].server = "open", sk2[s].up,
                        NEW p \in Sockets, InUse(sk2, p)
                 PROVE  KnownTo(sk2[s], T2, sk2[p].peer)
      BY <2>2 DEF AllKnown
    <3>1. InUse(sk, p) /\ sk2[p].peer = sk[p].peer
      BY <1>12 DEF InUse
    <3>2. KnownTo(k, T, sk[p].peer)
      <4>1. AllKnown(sk, s, st[Sender], T)
        BY <1>1, <2>2
      <4>2. k.role = "master" /\ k.server = "open" /\ k.up
        BY <1>8, <1>10
      <4>3. QED
        BY <3>1, <4>1, <4>2 DEF AllKnown
    <3>3. Learns(m, T, T2)
      BY <2>2 DEF Heeds
    <3> HIDE DEF k
    <3>4. KnownTo(k2, T2, sk[p].peer)
      BY <1>2, <1>8, <3>2, <3>3, KnownTail DEF k
    <3>5. QED
      BY <1>10, <3>1, <3>4
  <2>3. QED
    BY <2>1, <2>2
<1>15. Good(sk2, given, R, W, st, T2)
  BY <1>1, <1>11, <1>13, <1>14 DEF Good
<1>16. QED
  BY <1>4, <1>5, <1>6, <1>10, <1>12, <1>15 DEF Servers, WelcomedAs

LEMMA OpenGood ==
    ASSUME NEW sk, NEW given, NEW R,
           NEW W \in [Pages -> Sockets \cup {NoWs}], NEW st, NEW st2, NEW T,
           Good(sk, given, R, W, st, T), NEW c \in Pages, W[c] # NoWs,
           sk[W[c]].role = Side(c), Settled(sk[W[c]], W[c], R),
           st[c] # "ending", Others(st, st2, c)
    PROVE  Good(sk, given, R, W, st2, T)
<1>1. SocksInv(sk, given, R, W, st2)
  <2>1. \A d \in Pages : Welcomed(d, W, st2, sk, R)
    BY DEF Good, SocksInv, Welcomed, Others
  <2>2. QED
    BY <2>1 DEF Good, SocksInv
<1>2. AllKnown(sk, W[Sender], st2[Sender], T)
  BY DEF Good, AllKnown, Pages, Others
<1>3. QED
  BY <1>1, <1>2 DEF Good

LEMMA SendGood ==
    ASSUME NEW sk, NEW given, NEW R,
           NEW W \in [Pages -> Sockets \cup {NoWs}], NEW st, NEW T,
           Good(sk, given, R, W, st, T), NEW s \in Sockets,
           NEW m \in ClientMsg, m.t # "auth",
           NEW sk2, sk2 = [sk EXCEPT ![s].toServer = Append(@, m)]
    PROVE  /\ Good(sk2, given, R, W, st, T)
           /\ Servers(sk, sk2)
<1> DEFINE k  == sk[s]
           k2 == [k EXCEPT !.toServer = Append(@, m)]
<1>1. SocksInv(sk, given, R, W, st) /\ sk \in SockMap
  BY DEF Good, SocksInv
<1>2. k \in Socket /\ SockOK(k, s, given, R)
  BY <1>1, SocksAt
<1>3. k2 \in Socket /\ SockOK(k2, s, given, R)
  BY <1>2, Sends
<1>4. \A r : SideOf(k, r) => SideOf(k2, r)
  BY <1>2, Sends
<1>5. Settled(k, s, R) => Settled(k2, s, R)
  BY <1>2, Sends
<1>6. /\ k2.role = k.role /\ k2.peer = k.peer /\ k2.server = k.server
      /\ k2.up = k.up /\ k2.welcome = k.welcome /\ k2.toClient = k.toClient
  BY <1>2 DEF Socket
<1> HIDE DEF k2
<1>7. sk2 = [sk EXCEPT ![s] = k2]
  BY DEF k2
<1>8. SocksInv(sk2, given, R, W, st)
  <2>1. \A d \in Pages : W[d] = s =>
            /\ SideOf(k2, Side(d))
            /\ d # Sender => s \notin R
            /\ st[d] = "open" => k2.role = Side(d) /\ Settled(k2, s, R)
    <3>1. \A d \in Pages : PageOK(d, W, sk, R) /\ Welcomed(d, W, st, sk, R)
      BY <1>1 DEF SocksInv
    <3>2. QED
      BY <1>4, <1>5, <1>6, <3>1 DEF PageOK, Welcomed
  <2>2. SocksInv([sk EXCEPT ![s] = k2], given, R, W, st)
    BY <1>1, <1>3, <2>1, OneChanges
  <2>3. QED
    BY <1>7, <2>2
<1>9. Same(sk, sk2)
  BY <1>1, <1>6, <1>7 DEF SockMap, Same
<1>10. Good(sk2, given, R, W, st, T)
  BY <1>8, <1>9, SameGood
<1>11. QED
  BY <1>9, <1>10 DEF Same, Servers

\* A link goes down with everything on it.
LEMMA DropGood ==
    ASSUME NEW sk, NEW given, NEW R,
           NEW W \in [Pages -> Sockets \cup {NoWs}], NEW st, NEW T,
           Good(sk, given, R, W, st, T), NEW s \in Sockets,
           NEW sk2, sk2 = Dropped(sk, s)
    PROVE  /\ Good(sk2, given, R, W, st, T)
           /\ Servers(sk, sk2)
<1> DEFINE k  == sk[s]
           k2 == [k EXCEPT !.up = FALSE, !.toServer = <<>>, !.toClient = <<>>]
<1>1. /\ SocksInv(sk, given, R, W, st) /\ sk \in SockMap /\ Unique(sk)
      /\ OneEach(W) /\ AllKnown(sk, W[Sender], st[Sender], T)
  BY DEF Good, SocksInv
<1>2. k \in Socket /\ SockOK(k, s, given, R)
  BY <1>1, SocksAt
<1>3. sk2 = [sk EXCEPT ![s] = k2]
  BY <1>1 DEF SockMap, Dropped
<1>4. /\ k2.role = k.role /\ k2.peer = k.peer /\ k2.server = k.server
      /\ k2.client = k.client /\ ~k2.up /\ k2.welcome = k.welcome
      /\ k2.toServer = <<>> /\ k2.toClient = <<>>
  BY <1>2 DEF Socket
<1>5. k2 \in Socket
  BY <1>2, EmptySeq DEF Socket
<1> HIDE DEF k2
<1>6. /\ ~HasAuth(k2) /\ ~HasWelcome(k2) /\ OneWelcome(k2.toClient)
      /\ \A r : AuthsOf(k2.toServer, r) /\ WelcomesOf(k2.toClient, r)
      /\ DOMAIN k2.toServer = {}
  BY <1>4, EmptySeq DEF HasAuth, HasWelcome, OneWelcome, AuthsOf, WelcomesOf
<1>7. SockOK(k2, s, given, R)
  BY <1>2, <1>4, <1>6 DEF SockOK
<1>8. /\ \A r : SideOf(k, r) => SideOf(k2, r)
      /\ Settled(k, s, R) => Settled(k2, s, R)
  BY <1>4, <1>6 DEF SideOf, Settled
<1>9. SocksInv(sk2, given, R, W, st)
  <2>1. \A d \in Pages : W[d] = s =>
            /\ SideOf(k2, Side(d))
            /\ d # Sender => s \notin R
            /\ st[d] = "open" => k2.role = Side(d) /\ Settled(k2, s, R)
    <3>1. \A d \in Pages : PageOK(d, W, sk, R) /\ Welcomed(d, W, st, sk, R)
      BY <1>1 DEF SocksInv
    <3>2. QED
      BY <1>4, <1>8, <3>1 DEF PageOK, Welcomed
  <2>2. SocksInv([sk EXCEPT ![s] = k2], given, R, W, st)
    BY <1>1, <1>5, <1>7, <2>1, OneChanges
  <2>3. QED
    BY <1>3, <2>2
<1>10. /\ sk2[s] = k2
       /\ \A q \in Sockets : q # s => sk2[q] = sk[q]
  BY <1>1, <1>3 DEF SockMap
<1>11. \A q \in Sockets :
          /\ sk2[q].role = sk[q].role /\ sk2[q].peer = sk[q].peer
          /\ sk2[q].server = sk[q].server
  BY <1>4, <1>10
<1>12. Unique(sk2)
  BY <1>1, <1>11 DEF Unique
<1>13. AllKnown(sk2, W[Sender], st[Sender], T)
  <2> SUFFICES ASSUME W[Sender] # NoWs, st[Sender] # "ending",
                      sk2[W[Sender]].role = "master",
                      sk2[W[Sender]].server = "open", sk2[W[Sender]].up,
                      NEW p \in Sockets, InUse(sk2, p)
               PROVE  KnownTo(sk2[W[Sender]], T, sk2[p].peer)
    BY DEF AllKnown
  <2>1. W[Sender] \in Sockets /\ W[Sender] # s
    BY <1>4, <1>10 DEF Pages
  <2>2. sk2[W[Sender]] = sk[W[Sender]]
    BY <1>10, <2>1
  <2>3. InUse(sk, p) /\ sk2[p].peer = sk[p].peer
    BY <1>11 DEF InUse
  <2>4. QED
    BY <1>1, <2>2, <2>3 DEF AllKnown
<1>14. QED
  BY <1>1, <1>9, <1>11, <1>12, <1>13 DEF Good, Servers

\* A page connects with a websocket that nothing is left of.
LEMMA ConnectGood ==
    ASSUME NEW sk, NEW given, NEW R,
           NEW W \in [Pages -> Sockets \cup {NoWs}], NEW st, NEW T,
           Good(sk, given, R, W, st, T), NEW c \in Pages, st[c] # "open",
           NEW s \in Sockets, sk[s] = NoSocket, s \notin R,
           NEW m \in ClientMsg, m.t = "auth", m.role = Side(c),
           NEW sk2, sk2 = [sk EXCEPT ![s] = Accepted(m)]
    PROVE  Good(sk2, given, R, [W EXCEPT ![c] = s], st, T)
<1> DEFINE k2 == Accepted(m)
           W2 == [W EXCEPT ![c] = s]
<1>1. /\ SocksInv(sk, given, R, W, st) /\ sk \in SockMap /\ Unique(sk)
      /\ OneEach(W) /\ AllKnown(sk, W[Sender], st[Sender], T)
  BY DEF Good, SocksInv
<1>2. /\ k2.role = "none" /\ k2.peer = NoId /\ k2.server = "open" /\ k2.client
      /\ k2.up /\ k2.toServer = <<m>> /\ k2.toClient = <<>>
      /\ k2.welcome = NoWelcome
  BY DEF Accepted, NoSocket
<1>3. k2 \in Socket
  <2>1. <<m>> \in Seq(ClientMsg)
    OBVIOUS
  <2>2. NoSocket \in Socket
    BY NoSocketType
  <2>3. QED
    BY <2>1, <2>2 DEF Accepted, Socket
<1> HIDE DEF k2
<1>4. /\ DOMAIN k2.toServer = {1} /\ k2.toServer[1] = m
      /\ DOMAIN k2.toClient = {}
  BY <1>2
<1>5. SockOK(k2, s, given, R) /\ SideOf(k2, Side(c))
  BY <1>2, <1>4 DEF SockOK, SideOf, HasAuth, HasWelcome, OneWelcome, AuthsOf,
     WelcomesOf
<1>6. \A d \in Pages : W[d] # s
  <2>1. \A d \in Pages : PageOK(d, W, sk, R)
    BY <1>1 DEF SocksInv
  <2>2. ~NoSocket.client
    BY DEF NoSocket
  <2>3. QED
    BY <2>1, <2>2 DEF PageOK, SideOf
<1>7. SocksInv(sk2, given, R, W, st)
  <2>1. sk2 = [sk EXCEPT ![s] = k2]
    BY DEF k2
  <2>2. SocksInv([sk EXCEPT ![s] = k2], given, R, W, st)
    BY <1>1, <1>3, <1>5, <1>6, OneChanges
  <2>3. QED
    BY <2>1, <2>2
<1>8. /\ W2 \in [Pages -> Sockets \cup {NoWs}] /\ W2[c] = s
      /\ \A d \in Pages : d # c => W2[d] = W[d]
  OBVIOUS
<1>9. /\ sk2[s] = k2
      /\ \A q \in Sockets : q # s => sk2[q] = sk[q]
  BY <1>1 DEF SockMap, k2
<1> HIDE DEF W2
<1>10. SocksInv(sk2, given, R, W2, st)
  <2>1. \A d \in Pages : PageOK(d, W2, sk2, R) /\ Welcomed(d, W2, st, sk2, R)
    BY <1>5, <1>7, <1>8, <1>9 DEF SocksInv, PageOK, Welcomed
  <2>2. QED
    BY <1>7, <2>1 DEF SocksInv
<1>11. OneEach(W2)
  BY <1>1, <1>6, <1>8 DEF OneEach
<1>12. Unique(sk2)
  BY <1>1, <1>2, <1>9 DEF Unique
<1>13. AllKnown(sk2, W2[Sender], st[Sender], T)
  <2> SUFFICES ASSUME W2[Sender] # NoWs, st[Sender] # "ending",
                      sk2[W2[Sender]].role = "master",
                      sk2[W2[Sender]].server = "open", sk2[W2[Sender]].up,
                      NEW p \in Sockets, InUse(sk2, p)
               PROVE  KnownTo(sk2[W2[Sender]], T, sk2[p].peer)
    BY DEF AllKnown
  <2>1. p # s /\ InUse(sk, p) /\ sk2[p] = sk[p]
    BY <1>2, <1>9 DEF InUse
  <2>2. W2[Sender] \in Sockets /\ W2[Sender] # s
    BY <1>2, <1>8, <1>9 DEF Pages
  <2>3. W2[Sender] = W[Sender] /\ sk2[W[Sender]] = sk[W[Sender]]
    BY <1>8, <1>9, <2>2 DEF Pages
  <2>4. QED
    BY <1>1, <2>1, <2>3 DEF AllKnown
<1>14. QED
  BY <1>10, <1>11, <1>12, <1>13 DEF Good, W2

-----------------------------------------------------------------------------
(* The inductive invariant. *)

\* A room that is open has a PIN, one that is closed nothing.
RoomOK(room) ==
    /\ room \in RoomMeta
    /\ room.open => room.pin \in Pins
    /\ ~room.open => room = NoRoom

CreatingOK ==
    /\ creating \in [step : {"new", "claimed", "inited", "done"},
                     pin : Pins \cup {NoPin}, discoverable : BOOLEAN,
                     keys : SUBSET Keys]
    /\ creating.step # "new" => creating.pin \in Pins

\* The calls among cs that restore() waits for, and on behalf of what sockets.
RestoreCalls(cs) == {i \in DOMAIN cs : cs[i].op \in {"claimPin", "announce"}}
Restorers(cs) == {cs[i].socket : i \in RestoreCalls(cs)}

\* A socket is restored once.
RestoreOnce(cs) ==
    \A i, j \in RestoreCalls(cs) : cs[i].socket = cs[j].socket => i = j

\* A room that closes meanwhile closes the sockets that are being restored.
AnnouncersOK(open, cs, sk) ==
    ~open =>
        \A i \in DOMAIN cs :
            cs[i].op = "announce" => sk[cs[i].socket].server # "open"

CallsOK ==
    /\ calls \in Seq(Calls)
    /\ RestoreOnce(calls)
    /\ AnnouncersOK(meta.open, calls, sock)

AlarmOK == alarm \in {"none", "grace", "expiry"}

RoomInv ==
    /\ RoomOK(meta) /\ RoomOK(stored)
    /\ AlarmOK
    /\ ids \in SUBSET Ids
    /\ Good(sock, ids, Restorers(calls), ws, status, told)
    /\ CallsOK

\* A page that has stopped has no websocket, and the sender's page shows a PIN
\* once it has opened the share it created.
PagesOK ==
    /\ \A c \in Pages : Stopped(c) => ws[c] = NoWs
    /\ shown = NoPin => status[Sender] = "off"
    /\ status[Sender] # "off" => creating.step # "new"

BaseInv ==
    /\ DirectoryTypeOK
    /\ CreatingOK
    /\ RoomInv
    /\ ShareTypeOK
    /\ PagesOK

-----------------------------------------------------------------------------
(* Calls to the directory. *)

LEMMA CallTypes ==
    ASSUME NEW c \in Calls
    PROVE  /\ c.op \in {"releasePin", "withdraw", "claimPin", "announce"}
           /\ c.discoverable \in BOOLEAN
           /\ c.op \in {"releasePin", "withdraw"} => c.pin \in Pins
           /\ c.op \in {"claimPin", "announce"} =>
                 /\ c.socket \in Sockets /\ c.pin \in Pins \cup {NoPin}
                 /\ c.keys \in SUBSET Keys
           /\ c.op = "releasePin" => [c EXCEPT !.op = "withdraw"] \in Calls
           /\ c.op = "claimPin" => [c EXCEPT !.op = "announce"] \in Calls
BY DEF Calls

LEMMA CallsAppend ==
    ASSUME NEW cs \in Seq(Calls), NEW c \in Calls, RestoreOnce(cs)
    PROVE  /\ Append(cs, c) \in Seq(Calls)
           /\ c.op \in {"releasePin", "withdraw"} =>
                 /\ Restorers(Append(cs, c)) = Restorers(cs)
                 /\ RestoreOnce(Append(cs, c))
           /\ c.op \in {"claimPin", "announce"} /\ c.socket \notin Restorers(cs) =>
                 /\ Restorers(Append(cs, c)) = Restorers(cs) \cup {c.socket}
                 /\ RestoreOnce(Append(cs, c))
<1> DEFINE ds == Append(cs, c)
<1>1. /\ ds \in Seq(Calls) /\ Len(ds) = Len(cs) + 1 /\ Len(cs) \in Nat
      /\ ds[Len(cs) + 1] = c
      /\ \A i \in 1 .. Len(cs) : ds[i] = cs[i]
      /\ DOMAIN cs = 1 .. Len(cs) /\ DOMAIN ds = 1 .. Len(ds)
  BY AppendProperties
<1> HIDE DEF ds
<1>2. CASE c.op \in {"releasePin", "withdraw"}
  <2>1. RestoreCalls(ds) = RestoreCalls(cs)
    BY <1>1, <1>2 DEF RestoreCalls
  <2>2. \A i \in RestoreCalls(cs) : ds[i] = cs[i]
    BY <1>1 DEF RestoreCalls
  <2>3. Restorers(ds) = Restorers(cs) /\ RestoreOnce(ds)
    BY <2>1, <2>2 DEF Restorers, RestoreOnce
  <2>4. QED
    BY <1>1, <1>2, <2>3 DEF ds
<1>3. CASE c.op \in {"claimPin", "announce"}
  <2>1. RestoreCalls(ds) = RestoreCalls(cs) \cup {Len(cs) + 1}
    BY <1>1, <1>3 DEF RestoreCalls
  <2>2. \A i \in RestoreCalls(cs) : ds[i] = cs[i]
    BY <1>1 DEF RestoreCalls
  <2>3. Restorers(ds) = Restorers(cs) \cup {c.socket}
    BY <1>1, <2>1, <2>2 DEF Restorers
  <2>4. c.socket \notin Restorers(cs) => RestoreOnce(ds)
    BY <1>1, <2>1, <2>2 DEF Restorers, RestoreOnce
  <2>5. QED
    BY <1>1, <1>3, <2>3, <2>4 DEF ds
<1>4. QED
  BY <1>2, <1>3, CallTypes

LEMMA CallsTail ==
    ASSUME NEW cs \in Seq(Calls), cs # <<>>, RestoreOnce(cs)
    PROVE  /\ Head(cs) \in Calls /\ Tail(cs) \in Seq(Calls)
           /\ RestoreOnce(Tail(cs))
           /\ Head(cs).op \in {"releasePin", "withdraw"} =>
                 Restorers(Tail(cs)) = Restorers(cs)
           /\ Head(cs).op \in {"claimPin", "announce"} =>
                 /\ Head(cs).socket \in Restorers(cs)
                 /\ Restorers(Tail(cs)) = Restorers(cs) \ {Head(cs).socket}
           /\ \A i \in DOMAIN Tail(cs) : \E j \in DOMAIN cs : Tail(cs)[i] = cs[j]
<1> DEFINE c == Head(cs)
           ds == Tail(cs)
<1>1. /\ c \in Calls /\ ds \in Seq(Calls) /\ c = cs[1] /\ 1 \in DOMAIN cs
      /\ Len(ds) = Len(cs) - 1 /\ Len(cs) \in Nat \ {0}
      /\ \A i \in 1 .. Len(ds) : ds[i] = cs[i + 1]
      /\ DOMAIN cs = 1 .. Len(cs) /\ DOMAIN ds = 1 .. Len(ds)
  BY EmptySeq, HeadTailProperties
<1> HIDE DEF c, ds
<1>2. \A i \in RestoreCalls(ds) : i + 1 \in RestoreCalls(cs) /\ ds[i] = cs[i + 1]
  BY <1>1 DEF RestoreCalls
<1>3. \A i \in RestoreCalls(cs) :
          i \in Nat /\ (i = 1 \/ (i - 1 \in RestoreCalls(ds) /\ ds[i - 1] = cs[i]))
  BY <1>1 DEF RestoreCalls
<1>4. \A i \in RestoreCalls(ds) : i \in Nat \ {0}
  BY <1>1 DEF RestoreCalls
<1>5. RestoreOnce(ds)
  <2> SUFFICES ASSUME NEW i \in RestoreCalls(ds), NEW j \in RestoreCalls(ds),
                      ds[i].socket = ds[j].socket
               PROVE  i = j
    BY DEF RestoreOnce
  <2>1. i + 1 = j + 1
    BY <1>2 DEF RestoreOnce
  <2>2. QED
    BY <1>4, <2>1
<1>6. CASE c.op \in {"releasePin", "withdraw"}
  <2>1. 1 \notin RestoreCalls(cs)
    BY <1>1, <1>6 DEF RestoreCalls
  <2>2. Restorers(ds) = Restorers(cs)
    BY <1>2, <1>3, <2>1 DEF Restorers
  <2>3. QED
    BY <1>1, <1>5, <1>6, <2>2 DEF c, ds
<1>7. CASE c.op \in {"claimPin", "announce"}
  <2>1. 1 \in RestoreCalls(cs)
    BY <1>1, <1>7 DEF RestoreCalls
  <2>2. c.socket \in Restorers(cs)
    BY <1>1, <2>1 DEF Restorers
  <2>3. ASSUME NEW i \in RestoreCalls(ds) PROVE ds[i].socket # c.socket
    <3>1. i + 1 \in RestoreCalls(cs) /\ i + 1 # 1 /\ ds[i] = cs[i + 1]
      BY <1>2, <1>4
    <3>2. QED
      BY <1>1, <2>1, <3>1 DEF RestoreOnce
  <2>4. ASSUME NEW s \in Restorers(ds)
        PROVE  s \in Restorers(cs) /\ s # c.socket
    BY <1>2, <2>3 DEF Restorers
  <2>5. ASSUME NEW s \in Restorers(cs), s # c.socket
        PROVE  s \in Restorers(ds)
    <3>1. PICK i \in RestoreCalls(cs) : cs[i].socket = s
      BY DEF Restorers
    <3>2. i - 1 \in RestoreCalls(ds) /\ ds[i - 1].socket = s
      BY <1>1, <1>3, <2>5, <3>1
    <3>3. QED
      BY <3>2 DEF Restorers
  <2>6. Restorers(ds) = Restorers(cs) \ {c.socket}
    BY <2>4, <2>5
  <2>7. QED
    BY <1>1, <1>5, <1>7, <2>2, <2>6 DEF c, ds
<1>8. QED
  BY <1>1, <1>6, <1>7, CallTypes

LEMMA RoomsOK ==
    /\ RoomOK(NoRoom) /\ ~NoRoom.open
    /\ \A p \in Pins, d \in BOOLEAN, b \in BOOLEAN :
          RoomOK(NewRoom(p, d, b)) /\ NewRoom(p, d, b).open
    /\ \A room : RoomOK(room) /\ room.open =>
          LET seen == [room EXCEPT !.masterSeen = TRUE, !.masterGone = FALSE]
              gone == [room EXCEPT !.masterGone = TRUE]
          IN  RoomOK(seen) /\ seen.open /\ RoomOK(gone) /\ gone.open
<1>1. RoomOK(NoRoom) /\ ~NoRoom.open
  BY DEF RoomOK, NoRoom, RoomMeta
<1>2. \A p \in Pins, d \in BOOLEAN, b \in BOOLEAN :
          RoomOK(NewRoom(p, d, b)) /\ NewRoom(p, d, b).open
  BY DEF RoomOK, NewRoom, RoomMeta
<1>3. ASSUME NEW room, RoomOK(room), room.open
      PROVE  LET seen == [room EXCEPT !.masterSeen = TRUE, !.masterGone = FALSE]
                 gone == [room EXCEPT !.masterGone = TRUE]
             IN  RoomOK(seen) /\ seen.open /\ RoomOK(gone) /\ gone.open
  BY <1>3 DEF RoomOK, RoomMeta
<1>4. QED
  BY <1>1, <1>2, <1>3

LEMMA AnnouncersKeep ==
    ASSUME NEW open, NEW cs, NEW sk, AnnouncersOK(open, cs, sk),
           NEW cs2, NEW sk2, cs \in Seq(Calls),
           \A i \in DOMAIN cs2 : cs2[i].op = "announce" =>
               \E j \in DOMAIN cs : cs2[i] = cs[j],
           \A s \in Sockets : sk2[s].server = "open" => sk[s].server = "open"
    PROVE  AnnouncersOK(open, cs2, sk2)
<1> SUFFICES ASSUME ~open, NEW i \in DOMAIN cs2, cs2[i].op = "announce"
             PROVE  sk2[cs2[i].socket].server # "open"
  BY DEF AnnouncersOK
<1>1. PICK j \in DOMAIN cs : cs2[i] = cs[j]
  OBVIOUS
<1>2. cs[j] \in Calls
  BY ElementOfSeq
<1>3. cs[j].socket \in Sockets /\ sk[cs[j].socket].server # "open"
  BY <1>1, <1>2, CallTypes DEF AnnouncersOK
<1>4. QED
  BY <1>1, <1>3

\* Only the sender's page can be at the other end of s.
SendersOnly(W, s) == \A c \in Pages : W[c] = s => c = Sender

\* A socket being restored can be attached once it no longer is.
LEMMA BeingRestored ==
    ASSUME NEW R, NEW W \in [Pages -> Sockets \cup {NoWs}], NEW st, NEW T,
           NEW sk, NEW given, Good(sk, given, R, W, st, T),
           NEW s \in Sockets, s \in R
    PROVE  /\ Good(sk, given, R \ {s}, W, st, T)
           /\ sk[s].role = "none" /\ Settled(sk[s], s, R \ {s})
           /\ SendersOnly(W, s)
<1>1. SocksInv(sk, given, R, W, st)
  BY DEF Good
<1>2. SocksInv(sk, given, R \ {s}, W, st)
  BY <1>1, Restored
<1>3. Good(sk, given, R \ {s}, W, st, T)
  BY <1>2 DEF Good
<1>4. sk[s].role = "none" /\ Settled(sk[s], s, R \ {s})
  BY <1>1, SocksAt DEF SockOK, Settled
<1>5. SendersOnly(W, s)
  BY <1>1, PageAt DEF SendersOnly
<1>6. QED
  BY <1>3, <1>4, <1>5

LEMMA BecomeMasterRoom ==
    ASSUME NEW sk \in SockMap, NEW s \in Sockets, NEW room,
           RoomOK(room), RoomOK(stored), AlarmOK, BecomeMaster(sk, s, room)
    PROVE  /\ RoomOK(meta') /\ RoomOK(stored') /\ AlarmOK'
           /\ meta'.open = room.open
           /\ ~room.open =>
                 \A q \in Sockets :
                     sock'[q].server = "open" => sk[q].server = "open"
<1> DEFINE h == Hang(sk, Masters(sk) \ {s})
<1>1. /\ h \in SockMap
      /\ \A q \in Sockets : Heard(sk[q], h[q], {Bye})
  BY HangType, HangHeard
<1>2. CASE ~room.open
  <2>1. /\ sock' = [h EXCEPT ![s].role = "master"]
        /\ meta' = room /\ UNCHANGED <<stored, alarm>>
    BY <1>2 DEF BecomeMaster
  <2> HIDE DEF h
  <2>2. \A q \in Sockets : sock'[q].server = h[q].server
    BY <1>1, <2>1 DEF SockMap, Socket
  <2>3. \A q \in Sockets : sock'[q].server = "open" => sk[q].server = "open"
    BY <1>1, <2>2 DEF Heard
  <2>4. QED
    BY <1>2, <2>1, <2>3 DEF AlarmOK
<1>3. CASE room.open
  <2>1. /\ meta' = [room EXCEPT !.masterSeen = TRUE, !.masterGone = FALSE]
        /\ stored' = meta' /\ alarm' = "expiry"
    BY <1>3 DEF BecomeMaster
  <2>2. RoomOK(meta') /\ meta'.open
    BY <1>3, <2>1, RoomsOK
  <2>3. RoomOK(stored') /\ AlarmOK'
    BY <2>1, <2>2 DEF AlarmOK
  <2>4. room.open \in BOOLEAN
    BY DEF RoomOK, RoomMeta
  <2>5. QED
    BY <1>3, <2>2, <2>3, <2>4
<1>4. QED
  BY <1>2, <1>3

-----------------------------------------------------------------------------
(* Every step of the room keeps the invariant. *)

LEMMA InvGood ==
    ASSUME RoomInv, ShareTypeOK
    PROVE  /\ sock \in SockMap /\ OneEach(ws) /\ Unique(sock)
           /\ SocksInv(sock, ids, Restorers(calls), ws, status)
           /\ Good(sock, ids, Restorers(calls), ws, status, told)
           /\ ws \in [Pages -> Sockets \cup {NoWs}]
           /\ \A s \in Sockets : SockOK(sock[s], s, ids, Restorers(calls))
           /\ ids \in SUBSET Ids
BY DEF RoomInv, Good, SocksInv, ShareTypeOK

\* What is left to show of a step that makes no calls.
LEMMA NoCalls ==
    ASSUME RoomInv, UNCHANGED calls, UNCHANGED <<ws, status, told>>,
           RoomOK(meta'), RoomOK(stored'), AlarmOK', ids' \in SUBSET Ids,
           Good(sock', ids', Restorers(calls), ws, status, told),
           \/ meta'.open
           \/ /\ ~meta.open
              /\ \A s \in Sockets :
                    sock'[s].server = "open" => sock[s].server = "open"
           \/ calls = <<>>
    PROVE  RoomInv'
<1>1. CallsOK /\ calls' = calls
  BY DEF RoomInv
<1>2. AnnouncersOK(meta'.open, calls, sock')
  <2>1. CASE meta'.open
    BY <2>1 DEF AnnouncersOK
  <2>2. CASE /\ ~meta.open
             /\ \A s \in Sockets :
                   sock'[s].server = "open" => sock[s].server = "open"
    <3>1. AnnouncersOK(meta.open, calls, sock) /\ calls \in Seq(Calls)
      BY <1>1 DEF CallsOK
    <3>2. AnnouncersOK(meta.open, calls, sock')
      BY <2>2, <3>1, AnnouncersKeep
    <3>3. QED
      BY <2>2, <3>2 DEF AnnouncersOK
  <2>3. CASE calls = <<>>
    BY <2>3 DEF AnnouncersOK
  <2>4. QED
    BY <2>1, <2>2, <2>3
<1>3. CallsOK'
  BY <1>1, <1>2 DEF CallsOK
<1>4. Restorers(calls') = Restorers(calls)
  BY <1>1
<1>5. QED
  BY <1>3, <1>4 DEF RoomInv

LEMMA OnGoneInv ==
    ASSUME RoomInv, ShareTypeOK, NEW s \in Sockets, OnGone(Gone(s), s),
           UNCHANGED <<ws, status, told>>
    PROVE  RoomInv'
<1> DEFINE R == Restorers(calls)
           sk == Gone(s)
<1>1. /\ Good(sk, ids, R, ws, status, told) /\ SockOK(sock[s], s, ids, R)
      /\ SocksInv(sock, ids, R, ws, status)
      /\ ws \in [Pages -> Sockets \cup {NoWs}] /\ ids \in SUBSET Ids
  BY InvGood, GoneGood
<1>2. \A q \in Sockets : sk[q].server = "open" => sock[q].server = "open"
  BY <1>1, GoneOK
<1> HIDE DEF R, sk
<1>3. OnGone(sk, s)
  BY DEF sk
<1>4. Good(sock', ids, R, ws, status, told)
  BY <1>1, <1>3, OnGoneGood
<1>5. /\ RoomOK(meta) /\ RoomOK(stored) /\ AlarmOK
  BY DEF RoomInv
<1>6. CASE /\ meta.open /\ meta' = [meta EXCEPT !.masterGone = TRUE]
           /\ stored' = meta' /\ alarm' = "grace"
  <2>1. RoomOK(meta') /\ RoomOK(stored') /\ AlarmOK' /\ meta'.open
    BY <1>5, <1>6, RoomsOK DEF AlarmOK
  <2>2. ids' \in SUBSET Ids /\ ids' = ids /\ calls' = calls
    BY <1>1, <1>3 DEF OnGone
  <2>3. QED
    BY <1>4, <2>1, <2>2, NoCalls DEF R
<1>7. CASE /\ UNCHANGED <<meta, stored, alarm>>
           /\ ~meta.open => sock' = sk
  <2>1. RoomOK(meta') /\ RoomOK(stored') /\ AlarmOK'
    BY <1>5, <1>7 DEF AlarmOK
  <2>2. ids' \in SUBSET Ids /\ ids' = ids /\ calls' = calls
    BY <1>1, <1>3 DEF OnGone
  <2>3. meta'.open \/ (~meta.open /\ sock' = sk)
    BY <1>5, <1>7 DEF RoomOK, RoomMeta
  <2>4. QED
    BY <1>2, <1>4, <2>1, <2>2, <2>3, NoCalls DEF R
<1>8. QED
  BY <1>3, <1>6, <1>7 DEF OnGone

\* sk is like sock, as far as the room tells its websockets apart.
Alike(sk) ==
    /\ Good(sk, ids, Restorers(calls), ws, status, told)
    /\ \A q \in Sockets : sk[q].server = sock[q].server

LEMMA RejectInv ==
    ASSUME RoomInv, ShareTypeOK, NEW sk, Alike(sk), NEW s \in Sockets,
           NEW code \in Codes, sock' = Reject(sk, s, code),
           UNCHANGED <<meta, stored, alarm, calls, ids, ws, status, told>>
    PROVE  RoomInv'
<1> DEFINE R == Restorers(calls)
<1>1. Good(sk, ids, R, ws, status, told) /\ sk \in SockMap
  BY DEF Alike, Good, SocksInv
<1>2. ws \in [Pages -> Sockets \cup {NoWs}] /\ ids \in SUBSET Ids
  BY InvGood
<1> HIDE DEF R
<1>3. Good(sock', ids', R, ws, status, told)
  BY <1>1, <1>2, RejectGood
<1>4. Steady(sk, sock')
  BY <1>1, RejectSteady
<1>5. \A q \in Sockets : sock'[q].server = "open" => sock[q].server = "open"
  BY <1>4 DEF Steady, Heard, Alike
<1>6. RoomOK(meta') /\ RoomOK(stored') /\ AlarmOK'
  BY DEF RoomInv, AlarmOK
<1>7. meta'.open \/ ~meta.open
  OBVIOUS
<1>8. QED
  BY <1>2, <1>3, <1>5, <1>6, <1>7, NoCalls DEF R

LEMMA RelayInv ==
    ASSUME RoomInv, ShareTypeOK, NEW sk, Alike(sk), NEW s \in Sockets, NEW m,
           meta.open, RelayFromMaster(sk, s, m) \/ RelayFromPeer(sk, s),
           UNCHANGED <<ws, status, told>>
    PROVE  RoomInv'
<1> DEFINE R == Restorers(calls)
<1>1. Good(sk, ids, R, ws, status, told)
  BY DEF Alike
<1>2. ws \in [Pages -> Sockets \cup {NoWs}] /\ ids \in SUBSET Ids
  BY InvGood
<1> HIDE DEF R
<1>3. UNCHANGED <<meta, stored, alarm, calls, ids>>
  BY DEF RelayFromMaster, RelayFromPeer
<1>4. Good(sock', ids', R, ws, status, told)
  BY <1>1, <1>2, <1>3, RelayGood
<1>5. RoomOK(meta') /\ RoomOK(stored') /\ AlarmOK' /\ meta'.open
  BY <1>3 DEF RoomInv, AlarmOK
<1>6. QED
  BY <1>2, <1>3, <1>4, <1>5, NoCalls DEF R

LEMMA CloseInv ==
    ASSUME RoomInv, ShareTypeOK, NEW sk, Alike(sk), meta.open, CloseRoom(sk),
           AlarmOK', UNCHANGED <<ws, status, told>>
    PROVE  RoomInv'
<1> DEFINE R == Restorers(calls)
           c == [op |-> "releasePin", pin |-> meta.pin,
                 discoverable |-> meta.discoverable]
<1>1. Good(sk, ids, R, ws, status, told)
  BY DEF Alike
<1>2. ws \in [Pages -> Sockets \cup {NoWs}] /\ ids \in SUBSET Ids
  BY InvGood
<1>3. /\ sock' = Hang(Tell(sk, Present(sk), Closed), Present(sk))
      /\ meta' = NoRoom /\ calls' = Append(calls, c)
      /\ stored' = stored /\ ids' = ids
  BY DEF CloseRoom
<1>4. c \in Calls /\ c.op = "releasePin"
  BY DEF RoomInv, RoomOK, RoomMeta, Calls
<1>5. calls \in Seq(Calls) /\ RestoreOnce(calls)
  BY DEF RoomInv, CallsOK
<1> HIDE DEF c, R
<1>6. /\ calls' \in Seq(Calls) /\ RestoreOnce(calls')
      /\ Restorers(calls') = R
  BY <1>3, <1>4, <1>5, CallsAppend DEF R
<1>7. /\ Good(sock', ids, R, ws, status, told)
      /\ \A s \in Sockets : sock'[s].server # "open"
  BY <1>1, <1>2, <1>3, CloseGood
<1>8. AnnouncersOK(meta'.open, calls', sock')
  <2> SUFFICES ASSUME NEW i \in DOMAIN calls', calls'[i].op = "announce"
               PROVE  sock'[calls'[i].socket].server # "open"
    BY DEF AnnouncersOK
  <2>1. calls'[i] \in Calls
    BY <1>6, ElementOfSeq
  <2>2. calls'[i].socket \in Sockets
    BY <2>1, CallTypes
  <2>3. QED
    BY <1>7, <2>2
<1>9. RoomOK(meta') /\ RoomOK(stored')
  BY <1>3, RoomsOK DEF RoomInv
<1>10. CallsOK'
  BY <1>6, <1>8 DEF CallsOK
<1>11. QED
  BY <1>2, <1>3, <1>6, <1>7, <1>9, <1>10 DEF RoomInv

LEMMA AuthPeerInv ==
    ASSUME RoomInv, ShareTypeOK, NEW sk, Alike(sk), NEW s \in Sockets,
           sk[s].role = "none", Settled(sk[s], s, Restorers(calls)),
           \A c \in Pages : ws[c] = s => Side(c) = "peer",
           NEW m, m.resume \in Ids \cup {NoId}, AuthAsPeer(sk, s, m),
           UNCHANGED <<ws, status, told>>
    PROVE  RoomInv'
<1> DEFINE R == Restorers(calls)
<1>1. Good(sk, ids, R, ws, status, told)
  BY DEF Alike
<1>2. ws \in [Pages -> Sockets \cup {NoWs}] /\ ids \in SUBSET Ids
  BY InvGood
<1>3. Good(sock', ids', R, ws, status, told) /\ ids' \in SUBSET Ids
  BY <1>1, <1>2, AuthAsPeerGood
<1>4. UNCHANGED <<meta, stored, alarm, calls>>
  BY DEF AuthAsPeer
<1>5. CASE ~meta.open
  <2>1. /\ sock' = Reject(sk, s, "room_not_found") /\ ids' = ids
        /\ "room_not_found" \in Codes
    BY <1>5 DEF AuthAsPeer, Codes
  <2>2. QED
    BY <1>4, <2>1, RejectInv
<1>6. CASE meta.open
  <2>1. RoomOK(meta') /\ RoomOK(stored') /\ AlarmOK' /\ meta'.open
    BY <1>4, <1>6 DEF RoomInv, AlarmOK
  <2>2. QED
    BY <1>3, <1>4, <2>1, NoCalls
<1>7. QED
  BY <1>5, <1>6

LEMMA AuthMasterInv ==
    ASSUME RoomInv, ShareTypeOK, NEW sk, Alike(sk), NEW s \in Sockets,
           sk[s].role = "none", Settled(sk[s], s, Restorers(calls)),
           \A c \in Pages : ws[c] = s => Side(c) = "master",
           NEW m, m.pin \in Pins \cup {NoPin}, m.discoverable \in BOOLEAN,
           m.keys \in SUBSET Keys, AuthAsMaster(sk, s, m),
           UNCHANGED <<ws, status, told>>
    PROVE  RoomInv'
<1> DEFINE R == Restorers(calls)
           c == [op |-> "claimPin", socket |-> s, pin |-> m.pin,
                 discoverable |-> m.discoverable, keys |-> m.keys]
<1>1. Good(sk, ids, R, ws, status, told) /\ sk \in SockMap
  BY DEF Alike, Good, SocksInv
<1>2. ws \in [Pages -> Sockets \cup {NoWs}] /\ ids \in SUBSET Ids
  BY InvGood
<1>3. \A d \in Pages : ws[d] = s => d = Sender
  BY DEF Side
<1>4. /\ RoomOK(meta) /\ RoomOK(stored) /\ AlarmOK
      /\ calls \in Seq(Calls) /\ RestoreOnce(calls)
      /\ AnnouncersOK(meta.open, calls, sock)
  BY DEF RoomInv, CallsOK
<1>5. CASE meta.open
  <2>1. BecomeMaster(sk, s, meta) /\ UNCHANGED <<calls, ids>>
    BY <1>5 DEF AuthAsMaster
  <2>2. Good(sock', ids, R, ws, status, told)
    <3>1. meta.open => meta.pin \in Pins
      BY <1>4 DEF RoomOK
    <3> HIDE DEF R
    <3>2. Settled(sk[s], s, R)
      BY DEF R
    <3>3. QED
      BY <1>1, <1>2, <1>3, <1>5, <2>1, <3>1, <3>2, BecomeMasterGood
  <2>3. RoomOK(meta') /\ RoomOK(stored') /\ AlarmOK' /\ meta'.open
    BY <1>1, <1>4, <1>5, <2>1, BecomeMasterRoom
  <2>4. QED
    BY <1>2, <2>1, <2>2, <2>3, NoCalls
<1>6. CASE ~meta.open /\ m.restore
  <2>1. /\ sock' = sk /\ calls' = Append(calls, c)
        /\ UNCHANGED <<meta, stored, alarm, ids>>
    BY <1>6 DEF AuthAsMaster
  <2>2. c \in Calls /\ c.op = "claimPin" /\ c.socket = s
    BY DEF Calls
  <2> HIDE DEF c
  <2>3. s \notin R
    BY DEF Settled
  <2>4. /\ calls' \in Seq(Calls) /\ RestoreOnce(calls')
        /\ Restorers(calls') = R \cup {s}
    BY <1>4, <2>1, <2>2, <2>3, CallsAppend
  <2>5. SocksInv(sk, ids, R \cup {s}, ws, status)
    <3>1. SocksInv(sk, ids, R, ws, status) /\ ~HasAuth(sk[s])
      BY <1>1 DEF Good, Settled
    <3> HIDE DEF R
    <3>2. QED
      BY <1>2, <1>3, <3>1, Restoring2
  <2>6. Good(sock', ids', Restorers(calls'), ws, status, told)
    BY <1>1, <2>1, <2>4, <2>5 DEF Good
  <2>7. AnnouncersOK(meta'.open, calls', sock')
    <3>1. \A i \in DOMAIN calls' : calls'[i].op = "announce" =>
              \E j \in DOMAIN calls : calls'[i] = calls[j]
      BY <1>4, <2>1, <2>2, AppendProperties
    <3>2. \A q \in Sockets : sock'[q].server = "open" => sock[q].server = "open"
      BY <2>1 DEF Alike
    <3>3. AnnouncersOK(meta.open, calls', sock')
      BY <1>4, <3>1, <3>2, AnnouncersKeep
    <3>4. QED
      BY <2>1, <3>3
  <2>8. CallsOK' /\ RoomOK(meta') /\ RoomOK(stored') /\ AlarmOK'
    BY <1>4, <2>1, <2>4, <2>7 DEF CallsOK, AlarmOK
  <2>9. QED
    BY <1>2, <2>1, <2>6, <2>8 DEF RoomInv
<1>7. CASE ~meta.open /\ ~m.restore
  <2>1. /\ sock' = Reject(sk, s, "room_not_found")
        /\ UNCHANGED <<meta, stored, alarm, calls, ids>>
        /\ "room_not_found" \in Codes
    BY <1>7 DEF AuthAsMaster, Codes
  <2>2. QED
    BY <2>1, RejectInv
<1>8. QED
  BY <1>5, <1>6, <1>7

LEMMA AuthFields ==
    ASSUME NEW m \in ClientMsg, m.t = "auth"
    PROVE  /\ m.role \in {"master", "peer"}
           /\ m.role = "master" =>
                 /\ m.pin \in Pins \cup {NoPin} /\ m.discoverable \in BOOLEAN
                 /\ m.keys \in SUBSET Keys
           /\ m.role = "peer" => m.resume \in Ids \cup {NoId}
BY DEF ClientMsg

LEMMA OnSocketEventInv ==
    ASSUME RoomInv, ShareTypeOK, NEW s \in Sockets, OnSocketEvent(s),
           UNCHANGED <<ws, status, told>>
    PROVE  RoomInv'
<1> DEFINE R  == Restorers(calls)
           m  == Head(sock[s].toServer)
           sk == [sock EXCEPT ![s].toServer = Tail(@)]
<1>1. /\ Good(sock, ids, R, ws, status, told)
      /\ ws \in [Pages -> Sockets \cup {NoWs}]
  BY InvGood
<1>2. sock[s].toServer # <<>>
  BY DEF OnSocketEvent
<1>3. /\ Good(sk, ids, R, ws, status, told)
      /\ m \in ClientMsg
      /\ m.t = "auth" =>
            /\ sock[s].role = "none" /\ Settled(sk[s], s, R)
            /\ \A c \in Pages : ws[c] = s => m.role = Side(c)
      /\ \A q \in Sockets :
            sk[q].role = sock[q].role /\ sk[q].server = sock[q].server
  <2> HIDE DEF R
  <2>1. Good(sk, ids, R, ws, status, told)
    BY <1>1, <1>2, PopGood
  <2>2. m \in ClientMsg
    BY <1>1, <1>2, PopGood
  <2>3. ASSUME m.t = "auth"
        PROVE  /\ sock[s].role = "none" /\ Settled(sk[s], s, R)
               /\ \A c \in Pages : ws[c] = s => m.role = Side(c)
    <3>1. SocksInv(sock, ids, R, ws, status)
      BY <1>1 DEF Good
    <3>2. sock[s] \in Socket /\ SockOK(sock[s], s, ids, R)
      BY <3>1, SocksAt
    <3>3. 1 \in DOMAIN sock[s].toServer /\ sock[s].toServer[1] = m
      BY <1>2, <3>2, FieldTypes, EmptySeq, HeadTailProperties
    <3>4. sock[s].role = "none"
      BY <2>3, <3>2, <3>3 DEF SockOK, HasAuth
    <3>5. Settled(sk[s], s, R)
      BY <1>1, <1>2, <2>3, PopGood
    <3>6. ASSUME NEW c \in Pages, ws[c] = s PROVE m.role = Side(c)
      <4>1. PageOK(c, ws, sock, R) /\ ws[c] # NoWs
        BY <3>1, <3>6 DEF SocksInv
      <4>2. SideOf(sock[s], Side(c))
        BY <3>6, <4>1 DEF PageOK
      <4>3. QED
        BY <2>3, <3>3, <4>2 DEF SideOf, AuthsOf
    <3>7. QED
      BY <3>4, <3>5, <3>6
  <2>4. \A q \in Sockets :
            sk[q].role = sock[q].role /\ sk[q].server = sock[q].server
    BY <1>1, <1>2, PopGood
  <2>5. QED
    BY <2>1, <2>2, <2>3, <2>4
<1>4. Alike(sk)
  BY <1>3 DEF Alike
<1>5. CASE OnGone(Gone(s), s)
  BY <1>5, OnGoneInv
<1>6. CASE /\ sock' \in {Reject(sk, s, "bad_request"), Reject(sk, s, "room_not_found")}
           /\ UNCHANGED <<meta, stored, alarm, calls, ids>>
  <2> HIDE DEF sk
  <2>1. {"bad_request", "room_not_found"} \subseteq Codes
    BY DEF Codes
  <2>2. QED
    BY <1>4, <1>6, <2>1, RejectInv
<1>7. CASE m.t = "auth" /\ m.role = "master" /\ AuthAsMaster(sk, s, m)
  <2>1. /\ \A c \in Pages : ws[c] = s => Side(c) = "master"
        /\ sk[s].role = "none" /\ Settled(sk[s], s, Restorers(calls))
    BY <1>3, <1>7
  <2>2. /\ m.pin \in Pins \cup {NoPin} /\ m.discoverable \in BOOLEAN
        /\ m.keys \in SUBSET Keys
    BY <1>3, <1>7, AuthFields
  <2> HIDE DEF sk, m
  <2>3. QED
    BY <1>4, <1>7, <2>1, <2>2, AuthMasterInv
<1>8. CASE m.t = "auth" /\ m.role # "master" /\ AuthAsPeer(sk, s, m)
  <2>1. m.role = "peer" /\ m.resume \in Ids \cup {NoId}
    BY <1>3, <1>8, AuthFields
  <2>2. /\ \A c \in Pages : ws[c] = s => Side(c) = "peer"
        /\ sk[s].role = "none" /\ Settled(sk[s], s, Restorers(calls))
    BY <1>3, <1>8, <2>1
  <2> HIDE DEF sk, m
  <2>3. QED
    BY <1>4, <1>8, <2>1, <2>2, AuthPeerInv
<1>9. CASE meta.open /\ (RelayFromMaster(sk, s, m) \/ RelayFromPeer(sk, s))
  <2> HIDE DEF sk, m
  <2>1. QED
    BY <1>4, <1>9, RelayInv
<1>10. CASE meta.open /\ CloseRoom(sk) /\ UNCHANGED alarm
  <2>1. AlarmOK'
    BY <1>10 DEF RoomInv, AlarmOK
  <2> HIDE DEF sk
  <2>2. QED
    BY <1>4, <1>10, <2>1, CloseInv
<1>11. \/ OnGone(Gone(s), s)
       \/ /\ sock' \in {Reject(sk, s, "bad_request"),
                        Reject(sk, s, "room_not_found")}
          /\ UNCHANGED <<meta, stored, alarm, calls, ids>>
       \/ m.t = "auth" /\ m.role = "master" /\ AuthAsMaster(sk, s, m)
       \/ m.t = "auth" /\ m.role # "master" /\ AuthAsPeer(sk, s, m)
       \/ meta.open /\ (RelayFromMaster(sk, s, m) \/ RelayFromPeer(sk, s))
       \/ meta.open /\ CloseRoom(sk) /\ UNCHANGED alarm
  BY DEF OnSocketEvent
<1>12. QED
  BY <1>5, <1>6, <1>7, <1>8, <1>9, <1>10, <1>11

LEMMA CredentialsInv ==
    ASSUME RoomInv, ShareTypeOK, NEW s \in Sockets, CredentialsArrive(s),
           UNCHANGED <<ws, status, told>>
    PROVE  RoomInv'
<1> DEFINE R == Restorers(calls)
           a == [sock EXCEPT ![s].welcome = NoWelcome]
<1>1. /\ Good(sock, ids, R, ws, status, told) /\ sock \in SockMap
      /\ ws \in [Pages -> Sockets \cup {NoWs}] /\ ids \in SUBSET Ids
  BY InvGood
<1>2. /\ sock[s].welcome # NoWelcome
      /\ sock' = Tell(a, {s}, sock[s].welcome)
      /\ UNCHANGED <<meta, stored, alarm, ids, calls>>
  BY DEF CredentialsArrive
<1>3. Good(sock', ids', R, ws, status, told)
  <2> HIDE DEF R
  <2>1. QED
    BY <1>1, <1>2, CredentialsGood
<1>4. \A q \in Sockets : sock'[q].server = sock[q].server
  <2>1. [sock[s] EXCEPT !.welcome = NoWelcome] \in Socket
    BY <1>1, WelcomeType DEF SockMap
  <2>2. a \in SockMap
    BY <1>1, <2>1 DEF SockMap
  <2>3. \A q \in Sockets : a[q].server = sock[q].server
    BY <1>1 DEF SockMap, Socket
  <2> HIDE DEF a
  <2>4. QED
    BY <1>2, <2>2, <2>3, TellFields
<1>5. /\ RoomOK(meta') /\ RoomOK(stored') /\ AlarmOK' /\ ids' \in SUBSET Ids
      /\ meta'.open \/ ~meta.open
  BY <1>1, <1>2 DEF RoomInv, AlarmOK
<1>6. QED
  BY <1>2, <1>3, <1>4, <1>5, NoCalls

LEMMA AlarmInv ==
    ASSUME RoomInv, ShareTypeOK, AlarmRings \/ Hibernate,
           UNCHANGED <<ws, status, told>>
    PROVE  RoomInv'
<1>1. /\ Good(sock, ids, Restorers(calls), ws, status, told)
      /\ ids \in SUBSET Ids
      /\ RoomOK(meta) /\ RoomOK(stored) /\ AlarmOK /\ calls = <<>>
  BY InvGood DEF AlarmRings, Hibernate, RoomInv
<1>2. CASE meta.open /\ CloseRoom(sock) /\ alarm' = "none"
  <2>1. Alike(sock) /\ AlarmOK'
    BY <1>1, <1>2 DEF Alike, AlarmOK
  <2>2. QED
    BY <1>2, <2>1, CloseInv
<1>3. CASE /\ meta' \in {meta, stored} /\ alarm' \in {"none", "expiry", alarm}
           /\ UNCHANGED <<stored, sock, ids, calls>>
  <2>1. /\ RoomOK(meta') /\ RoomOK(stored') /\ AlarmOK' /\ ids' \in SUBSET Ids
        /\ Good(sock', ids', Restorers(calls), ws, status, told)
    BY <1>1, <1>3 DEF AlarmOK
  <2>2. QED
    BY <1>1, <1>3, <2>1, NoCalls
<1>4. QED
  BY <1>2, <1>3 DEF AlarmRings, Hibernate

LEMMA CallsLeft ==
    ASSUME RoomInv, calls # <<>>
    PROVE  /\ Head(calls) \in Calls /\ Tail(calls) \in Seq(Calls)
           /\ RestoreOnce(Tail(calls))
           /\ AnnouncersOK(meta.open, Tail(calls), sock)
           /\ Head(calls).op = "announce" /\ ~meta.open =>
                 sock[Head(calls).socket].server # "open"
<1>1. calls \in Seq(Calls) /\ RestoreOnce(calls)
      /\ AnnouncersOK(meta.open, calls, sock)
  BY DEF RoomInv, CallsOK
<1>2. /\ Head(calls) \in Calls /\ Tail(calls) \in Seq(Calls)
      /\ RestoreOnce(Tail(calls))
      /\ \A i \in DOMAIN Tail(calls) : \E j \in DOMAIN calls :
             Tail(calls)[i] = calls[j]
  BY <1>1, CallsTail
<1>3. AnnouncersOK(meta.open, Tail(calls), sock)
  BY <1>1, <1>2, AnnouncersKeep
<1>4. Head(calls) = calls[1] /\ 1 \in DOMAIN calls
  BY <1>1, EmptySeq, HeadTailProperties
<1>5. QED
  BY <1>1, <1>2, <1>3, <1>4 DEF AnnouncersOK

\* The calls of closeRoom() are answered.
LEMMA WipedInv ==
    ASSUME RoomInv, ShareTypeOK, calls # <<>>,
           \/ /\ Head(calls).op = "releasePin"
              /\ PinReleased(Head(calls), Tail(calls))
           \/ /\ Head(calls).op = "withdraw"
              /\ Withdrawn(Head(calls), Tail(calls)),
           UNCHANGED <<ws, status, told>>
    PROVE  RoomInv'
<1> DEFINE c    == Head(calls)
           rest == Tail(calls)
           c2   == [c EXCEPT !.op = "withdraw"]
<1>1. /\ c \in Calls /\ rest \in Seq(Calls) /\ RestoreOnce(rest)
      /\ AnnouncersOK(meta.open, rest, sock)
  BY CallsLeft
<1>2. calls \in Seq(Calls) /\ RestoreOnce(calls)
  BY DEF RoomInv, CallsOK
<1>3. Restorers(rest) = Restorers(calls)
  BY <1>2, CallsTail
<1>4. /\ UNCHANGED <<meta, sock, ids>>
      /\ stored' \in {stored, NoRoom} /\ alarm' \in {alarm, "none"}
      /\ calls' = rest \/ (c.op = "releasePin" /\ calls' = Append(rest, c2))
  BY DEF PinReleased, Withdrawn, WipeStorage
<1>5. c.op = "releasePin" => c2 \in Calls /\ c2.op = "withdraw"
  BY <1>1, CallTypes DEF Calls
<1> HIDE DEF c, c2, rest
<1>6. /\ calls' \in Seq(Calls) /\ RestoreOnce(calls')
      /\ Restorers(calls') = Restorers(calls)
      /\ AnnouncersOK(meta.open, calls', sock)
  <2>1. CASE calls' = rest
    BY <1>1, <1>3, <2>1
  <2>2. CASE c.op = "releasePin" /\ calls' = Append(rest, c2)
    <3>1. /\ calls' \in Seq(Calls) /\ RestoreOnce(calls')
          /\ Restorers(calls') = Restorers(calls)
      BY <1>1, <1>3, <1>5, <2>2, CallsAppend
    <3>2. \A i \in DOMAIN calls' : calls'[i].op = "announce" =>
              \E j \in DOMAIN rest : calls'[i] = rest[j]
      BY <1>1, <1>5, <2>2, AppendProperties
    <3>3. AnnouncersOK(meta.open, calls', sock)
      BY <1>1, <3>2, AnnouncersKeep
    <3>4. QED
      BY <3>1, <3>3
  <2>3. QED
    BY <1>4, <2>1, <2>2
<1>7. CallsOK'
  BY <1>4, <1>6 DEF CallsOK
<1>8. RoomOK(meta') /\ RoomOK(stored') /\ AlarmOK'
  BY <1>4, RoomsOK DEF RoomInv, AlarmOK
<1>9. QED
  BY <1>4, <1>6, <1>7, <1>8 DEF RoomInv

\* restore() is done, and its socket attached.
LEMMA RestoredInv ==
    ASSUME RoomInv, ShareTypeOK, calls # <<>>,
           Head(calls).op \in {"claimPin", "announce"},
           NEW room, RoomOK(room),
           room.open \/ (Head(calls).op = "announce" /\ ~meta.open),
           BecomeMaster(sock, Head(calls).socket, room),
           calls' = Tail(calls), UNCHANGED <<ids, ws, status, told>>
    PROVE  RoomInv'
<1> DEFINE c == Head(calls)
           s == c.socket
           R == Restorers(calls)
<1>1. /\ c \in Calls /\ Tail(calls) \in Seq(Calls) /\ RestoreOnce(Tail(calls))
      /\ AnnouncersOK(meta.open, Tail(calls), sock)
      /\ c.op = "announce" /\ ~meta.open => sock[s].server # "open"
  BY CallsLeft
<1>2. calls \in Seq(Calls) /\ RestoreOnce(calls)
  BY DEF RoomInv, CallsOK
<1>3. s \in Sockets /\ s \in R /\ Restorers(calls') = R \ {s}
  BY <1>1, <1>2, CallsTail, CallTypes
<1>4. /\ Good(sock, ids, R, ws, status, told) /\ sock \in SockMap
      /\ ws \in [Pages -> Sockets \cup {NoWs}] /\ ids \in SUBSET Ids
  BY InvGood
<1> HIDE DEF c, s, R
<1>5. /\ Good(sock, ids, R \ {s}, ws, status, told)
      /\ sock[s].role = "none" /\ Settled(sock[s], s, R \ {s})
      /\ SendersOnly(ws, s)
  BY <1>3, <1>4, BeingRestored
<1>6. BecomeMaster(sock, s, room)
  BY DEF s, c
<1>7. room.open \/ (~room.open /\ ~meta.open /\ sock[s].server # "open")
  BY <1>1 DEF RoomOK, RoomMeta, c
<1>8. Good(sock', ids, R \ {s}, ws, status, told)
  <2>1. room.open => room.pin \in Pins
    BY DEF RoomOK
  <2>2. room.open \/ sock[s].server # "open"
    BY <1>7
  <2>3. \A d \in Pages : ws[d] = s => d = Sender
    BY <1>5 DEF SendersOnly
  <2>4. QED
    BY <1>3, <1>4, <1>5, <1>6, <2>1, <2>2, <2>3, BecomeMasterGood
<1>9. /\ RoomOK(meta') /\ RoomOK(stored') /\ AlarmOK'
      /\ meta'.open = room.open
      /\ ~room.open =>
            \A q \in Sockets :
                sock'[q].server = "open" => sock[q].server = "open"
  <2>1. RoomOK(stored) /\ AlarmOK
    BY DEF RoomInv
  <2>2. QED
    BY <1>3, <1>4, <1>6, <2>1, BecomeMasterRoom
<1>10. AnnouncersOK(meta'.open, calls', sock')
  <2>1. CASE room.open
    BY <1>9, <2>1 DEF AnnouncersOK
  <2>2. CASE ~room.open
    <3>1. AnnouncersOK(meta.open, Tail(calls), sock')
      BY <1>1, <1>9, <2>2, AnnouncersKeep
    <3>2. QED
      BY <1>7, <1>9, <2>2, <3>1 DEF AnnouncersOK
  <2>3. QED
    BY <2>1, <2>2
<1>11. CallsOK'
  BY <1>1, <1>10 DEF CallsOK
<1>12. QED
  BY <1>3, <1>4, <1>8, <1>9, <1>11 DEF RoomInv

LEMMA DirectoryAnswersInv ==
    ASSUME RoomInv, ShareTypeOK, DirectoryAnswers, UNCHANGED <<ws, status, told>>
    PROVE  RoomInv'
<1> DEFINE c    == Head(calls)
           rest == Tail(calls)
           c2   == [c EXCEPT !.op = "announce"]
           R    == Restorers(calls)
<1>1. calls # <<>>
  BY DEF DirectoryAnswers
<1>2. /\ c \in Calls /\ rest \in Seq(Calls) /\ RestoreOnce(rest)
      /\ AnnouncersOK(meta.open, rest, sock)
  BY <1>1, CallsLeft
<1>3. CASE \/ c.op = "releasePin" /\ PinReleased(c, rest)
           \/ c.op = "withdraw" /\ Withdrawn(c, rest)
  BY <1>1, <1>3, WipedInv
<1>4. CASE c.op = "announce" /\ Announced(c, rest)
  <2>1. /\ BecomeMaster(sock, c.socket, meta) /\ calls' = rest /\ ids' = ids
        /\ RoomOK(meta)
    BY <1>4 DEF Announced, RoomInv
  <2>2. QED
    BY <1>1, <1>4, <2>1, RestoredInv
<1>5. CASE c.op = "claimPin" /\ PinClaimed(c, rest)
  <2>1. PICK pin \in Claimable(c.pin) :
            LET room == NewRoom(pin, c.discoverable, TRUE)
            IN  IF c.discoverable
                THEN /\ calls' = Append(rest, c2)
                     /\ meta' = room /\ stored' = room
                     /\ UNCHANGED <<alarm, sock>>
                ELSE /\ BecomeMaster(sock, c.socket, room)
                     /\ calls' = rest
    BY <1>5 DEF PinClaimed
  <2> DEFINE room == NewRoom(pin, c.discoverable, TRUE)
  <2>2. ids' = ids
    BY <1>5 DEF PinClaimed
  <2>3. RoomOK(room) /\ room.open
    <3>1. pin \in Pins /\ c.discoverable \in BOOLEAN
      BY <1>2, CallTypes DEF Claimable, Free
    <3>2. QED
      BY <3>1, RoomsOK
  <2>4. CASE ~c.discoverable
    <3>1. BecomeMaster(sock, c.socket, room) /\ calls' = rest
      BY <2>1, <2>4
    <3> HIDE DEF room
    <3>2. QED
      BY <1>1, <1>5, <2>2, <2>3, <3>1, RestoredInv
  <2>5. CASE c.discoverable
    <3>1. /\ calls' = Append(rest, c2) /\ meta' = room /\ stored' = room
          /\ UNCHANGED <<alarm, sock>>
      BY <2>1, <2>5
    <3>2. /\ c2 \in Calls /\ c2.op = "announce" /\ c2.socket = c.socket
          /\ c.socket \in Sockets
      BY <1>2, <1>5, CallTypes DEF Calls
    <3>3. c.socket \in R /\ Restorers(rest) = R \ {c.socket}
      <4>1. calls \in Seq(Calls) /\ RestoreOnce(calls)
        BY DEF RoomInv, CallsOK
      <4>2. QED
        BY <1>1, <1>5, <4>1, CallsTail
    <3> HIDE DEF room, c2, rest, c
    <3>4. /\ calls' \in Seq(Calls) /\ RestoreOnce(calls')
          /\ Restorers(calls') = Restorers(rest) \cup {c2.socket}
      <4>1. c2.socket \notin Restorers(rest)
        BY <3>2, <3>3
      <4>2. QED
        BY <1>2, <3>1, <3>2, <4>1, CallsAppend
    <3>5. Restorers(calls') = R
      BY <3>2, <3>3, <3>4
    <3>6. AnnouncersOK(meta'.open, calls', sock')
      BY <2>3, <3>1 DEF AnnouncersOK
    <3>7. CallsOK' /\ RoomOK(meta') /\ RoomOK(stored') /\ AlarmOK'
      BY <2>3, <3>1, <3>4, <3>6 DEF CallsOK, AlarmOK, RoomInv
    <3>8. Good(sock', ids', Restorers(calls'), ws, status, told)
      BY <2>2, <3>1, <3>5, InvGood
    <3>9. QED
      BY <2>2, <3>7, <3>8 DEF RoomInv
  <2>6. QED
    BY <2>4, <2>5
<1>6. QED
  BY <1>3, <1>4, <1>5 DEF DirectoryAnswers

-----------------------------------------------------------------------------
(* The directory, and the request that creates the room. *)

PinsType == pins \in [Pins -> {"free", "ours", "other"}]

LEMMA DirectoryTypes ==
    ASSUME DirectoryTypeOK, PinsType'
    PROVE  /\ UNCHANGED <<listedUnder, net, watching, nearby>> => DirectoryTypeOK'
           /\ \A K \in SUBSET Keys : Announce(K) => DirectoryTypeOK'
           /\ Withdraw => DirectoryTypeOK'
<1>1. UNCHANGED <<listedUnder, net, watching, nearby>> => DirectoryTypeOK'
  BY DEF DirectoryTypeOK, PinsType
<1>2. \A K \in SUBSET Keys : Announce(K) => DirectoryTypeOK'
  BY DEF DirectoryTypeOK, PinsType, Announce, OnAdd
<1>3. Withdraw => DirectoryTypeOK'
  BY DEF DirectoryTypeOK, PinsType, Withdraw, OnRemove
<1>4. QED
  BY <1>1, <1>2, <1>3

LEMMA DirectoryAnswersTypes ==
    ASSUME DirectoryTypeOK, RoomInv, DirectoryAnswers
    PROVE  DirectoryTypeOK'
<1> DEFINE c    == Head(calls)
           rest == Tail(calls)
<1>1. PinsType
  BY DEF DirectoryTypeOK, PinsType
<1>2. c \in Calls
  BY CallsLeft DEF DirectoryAnswers
<1>3. CASE c.op = "releasePin" /\ PinReleased(c, rest)
  <2>1. PinsType' /\ UNCHANGED <<listedUnder, net, watching, nearby>>
    BY <1>1, <1>3 DEF PinReleased, ReleasePin, PinsType
  <2>2. QED
    BY <2>1, DirectoryTypes
<1>4. CASE c.op = "withdraw" /\ Withdrawn(c, rest)
  <2>1. PinsType' /\ Withdraw
    BY <1>1, <1>4 DEF Withdrawn, PinsType
  <2>2. QED
    BY <2>1, DirectoryTypes
<1>5. CASE c.op = "claimPin" /\ PinClaimed(c, rest)
  <2>1. PinsType' /\ UNCHANGED <<listedUnder, net, watching, nearby>>
    BY <1>1, <1>5 DEF PinClaimed, PinsType
  <2>2. QED
    BY <2>1, DirectoryTypes
<1>6. CASE c.op = "announce" /\ Announced(c, rest)
  <2>1. PinsType' /\ Announce(c.keys) /\ c.keys \in SUBSET Keys
    BY <1>1, <1>2, <1>6, CallTypes DEF Announced, PinsType
  <2>2. QED
    BY <2>1, DirectoryTypes
<1>7. QED
  BY <1>3, <1>4, <1>5, <1>6 DEF DirectoryAnswers

LEMMA WatcherTypes ==
    ASSUME DirectoryTypeOK, WatcherStep \/ OtherShareClaims
    PROVE  DirectoryTypeOK'
<1>1. CASE OtherShareClaims
  BY <1>1 DEF OtherShareClaims, DirectoryTypeOK
<1>2. ASSUME NEW w \in Watchers, NEW K \in Networks, Watch(w, K)
      PROVE  DirectoryTypeOK'
  BY <1>2 DEF Watch, OnOpen, DirectoryTypeOK
<1>3. ASSUME NEW w \in Watchers, Unwatch(w)
      PROVE  DirectoryTypeOK'
  BY <1>3 DEF Unwatch, DirectoryTypeOK
<1>4. QED
  BY <1>1, <1>2, <1>3 DEF WatcherStep

LEMMA CreateInv ==
    ASSUME BaseInv, CreateStep, UNCHANGED <<pageVars, spent>>
    PROVE  BaseInv'
<1>1. ShareTypeOK' /\ UNCHANGED <<ws, status, told>> /\ PagesOK'
  <2>1. creating'.step # "new"
    <3>1. CASE \E d \in BOOLEAN, keys \in Networks : CreateClaims(d, keys)
      BY <3>1 DEF CreateClaims
    <3>2. CASE CreateInits
      BY <3>2 DEF CreateInits, BaseInv, CreatingOK
    <3>3. CASE CreateAnnounces
      BY <3>3 DEF CreateAnnounces, BaseInv, CreatingOK
    <3>4. QED
      BY <3>1, <3>2, <3>3 DEF CreateStep
  <2>2. QED
    BY <2>1 DEF BaseInv, ShareTypeOK, pageVars, PagesOK, Stopped
<1>2. PinsType /\ DirectoryTypeOK /\ CreatingOK /\ RoomInv /\ ShareTypeOK
  BY DEF BaseInv, DirectoryTypeOK, PinsType
<1>3. ASSUME NEW d \in BOOLEAN, NEW keys \in Networks, CreateClaims(d, keys)
      PROVE  BaseInv'
  <2>1. PICK pin \in Claimable(NoPin) :
            /\ pins' = [pins EXCEPT ![pin] = "ours"]
            /\ creating' = [step |-> "claimed", pin |-> pin,
                            discoverable |-> d, keys |-> keys]
    BY <1>3 DEF CreateClaims
  <2>2. pin \in Pins
    BY DEF Claimable, Free
  <2>3. PinsType' /\ CreatingOK'
    BY <1>2, <2>1, <2>2 DEF PinsType, CreatingOK
  <2>4. DirectoryTypeOK'
    BY <1>2, <1>3, <2>3, DirectoryTypes DEF CreateClaims
  <2>5. RoomInv'
    BY <1>1, <1>2, <1>3 DEF RoomInv, CreateClaims, RoomOK, AlarmOK, CallsOK
  <2>6. QED
    BY <1>1, <2>3, <2>4, <2>5 DEF BaseInv
<1>4. CASE CreateInits
  <2>1. DirectoryTypeOK'
    BY <1>2, <1>4 DEF CreateInits, directoryVars, DirectoryTypeOK
  <2>2. CreatingOK' /\ creating.pin \in Pins /\ creating.discoverable \in BOOLEAN
    BY <1>2, <1>4 DEF CreateInits, CreatingOK
  <2>3. RoomOK(meta') /\ RoomOK(stored') /\ meta'.open /\ AlarmOK'
    <3>1. /\ meta' = NewRoom(creating.pin, creating.discoverable, FALSE)
          /\ stored' = meta' /\ alarm' = "grace"
      BY <1>4 DEF CreateInits
    <3>2. RoomOK(meta') /\ meta'.open
      BY <2>2, <3>1, RoomsOK
    <3>3. QED
      BY <3>1, <3>2 DEF AlarmOK
  <2>4. RoomInv'
    <3>1. Good(sock', ids', Restorers(calls), ws, status, told)
      BY <1>2, <1>4, InvGood DEF CreateInits
    <3>2. ids' \in SUBSET Ids /\ calls' = calls
      BY <1>2, <1>4, InvGood DEF CreateInits
    <3>3. QED
      BY <1>1, <1>2, <2>3, <3>1, <3>2, NoCalls
  <2>5. QED
    BY <1>1, <2>1, <2>2, <2>4 DEF BaseInv
<1>5. CASE CreateAnnounces
  <2>1. CreatingOK' /\ creating.keys \in SUBSET Keys
    BY <1>2, <1>5 DEF CreateAnnounces, CreatingOK
  <2>2. \E K \in SUBSET Keys : Announce(K)
    BY <1>5, <2>1 DEF CreateAnnounces
  <2>3. PinsType'
    BY <1>2, <1>5 DEF CreateAnnounces, PinsType
  <2>4. DirectoryTypeOK'
    BY <1>2, <2>2, <2>3, DirectoryTypes
  <2>5. RoomInv'
    BY <1>1, <1>2, <1>5 DEF RoomInv, CreateAnnounces, AlarmOK, CallsOK
  <2>6. QED
    BY <1>1, <2>1, <2>4, <2>5 DEF BaseInv
<1>6. QED
  BY <1>3, <1>4, <1>5 DEF CreateStep

LEMMA SpendType ==
    ASSUME ShareTypeOK
    PROVE  /\ \A b \in Budget : Spend(b) => spent' \in [Budget -> Nat]
           /\ \A s : Mishap(s) => spent' \in [Budget -> Nat]
<1>1. spent \in [Budget -> Nat]
  BY DEF ShareTypeOK
<1>2. ASSUME NEW b \in Budget, Spend(b) PROVE spent' \in [Budget -> Nat]
  <2>1. spent' = [spent EXCEPT ![b] = spent[b] + 1] /\ spent[b] + 1 \in Nat
    BY <1>1, <1>2 DEF Spend
  <2>2. QED
    BY <1>1, <2>1
<1>3. ASSUME NEW s, Mishap(s) PROVE spent' \in [Budget -> Nat]
  <2>1. Spend("earlyLosses") \/ Spend("twins") \/ UNCHANGED spent
    BY <1>3 DEF Mishap, SpendIf
  <2>2. QED
    BY <1>1, <1>2, <2>1 DEF Budget
<1>4. QED
  BY <1>2, <1>3

LEMMA RoomStepInv ==
    ASSUME BaseInv, RoomStep, UNCHANGED pageVars
    PROVE  BaseInv'
<1>1. UNCHANGED <<ws, status, told>> /\ RoomInv /\ ShareTypeOK
      /\ DirectoryTypeOK /\ CreatingOK
  BY DEF BaseInv, pageVars
<1>2. RoomInv'
  BY <1>1, OnGoneInv, OnSocketEventInv, CredentialsInv, DirectoryAnswersInv,
     AlarmInv DEF RoomStep, SocketLost
<1>3. spent' \in [Budget -> Nat]
  <2>1. spent \in [Budget -> Nat]
    BY <1>1 DEF ShareTypeOK
  <2>2. QED
    BY <1>1, <2>1, SpendType DEF RoomStep
<1>4. ShareTypeOK'
  BY <1>1, <1>3 DEF ShareTypeOK, pageVars
<1>5. CreatingOK' /\ PagesOK'
  <2>1. creating' = creating
    BY DEF RoomStep, SocketLost, OnSocketEvent, CredentialsArrive,
           DirectoryAnswers, AlarmRings, Hibernate
  <2>2. QED
    BY <1>1, <2>1 DEF CreatingOK, PagesOK, BaseInv, pageVars, Stopped
<1>6. DirectoryTypeOK'
  <2>1. DirectoryAnswers \/ UNCHANGED directoryVars
    BY DEF RoomStep, SocketLost, OnSocketEvent, CredentialsArrive,
           AlarmRings, Hibernate
  <2>2. UNCHANGED directoryVars => DirectoryTypeOK'
    BY <1>1 DEF DirectoryTypeOK, directoryVars
  <2>3. QED
    BY <1>1, <2>1, <2>2, DirectoryAnswersTypes
<1>7. QED
  BY <1>2, <1>4, <1>5, <1>6 DEF BaseInv

-----------------------------------------------------------------------------
(* Every step of a page keeps the invariant. *)

roomsOwn == <<directoryVars, meta, stored, alarm, ids, calls, creating>>

\* What is left to show of a step of the pages or of the network.
LEMMA PageStepInv ==
    ASSUME BaseInv, UNCHANGED roomsOwn, ShareTypeOK', PagesOK',
           Good(sock', ids, Restorers(calls), ws', status', told'),
           \A i \in DOMAIN calls : calls[i].op = "announce" =>
               LET s == calls[i].socket
               IN  sock'[s].server = "open" => sock[s].server = "open"
    PROVE  BaseInv'
<1>1. /\ DirectoryTypeOK /\ CreatingOK /\ RoomInv
      /\ UNCHANGED <<meta, stored, alarm, ids, calls, creating>>
      /\ UNCHANGED <<pins, listedUnder, net, watching, nearby>>
  BY DEF BaseInv, roomsOwn, directoryVars
<1>2. DirectoryTypeOK' /\ CreatingOK'
  BY <1>1 DEF DirectoryTypeOK, CreatingOK
<1>3. CallsOK'
  BY <1>1 DEF RoomInv, CallsOK, AnnouncersOK
<1>4. RoomInv'
  BY <1>1, <1>3 DEF RoomInv, AlarmOK
<1>5. QED
  BY <1>2, <1>4 DEF BaseInv

LEMMA InvParts ==
    ASSUME BaseInv
    PROVE  /\ ws \in [Pages -> Sockets \cup {NoWs}] /\ status \in [Pages -> Status]
           /\ Good(sock, ids, Restorers(calls), ws, status, told)
           /\ sock \in SockMap /\ ShareTypeOK /\ PagesOK /\ RoomInv
           /\ \A i \in DOMAIN calls : calls[i].op = "announce" =>
                 calls[i].socket \in Sockets
<1>1. RoomInv /\ ShareTypeOK /\ PagesOK
  BY DEF BaseInv
<1>2. ASSUME NEW i \in DOMAIN calls, calls[i].op = "announce"
      PROVE  calls[i].socket \in Sockets
  <2>1. calls[i] \in Calls
    BY <1>1, ElementOfSeq DEF RoomInv, CallsOK
  <2>2. QED
    BY <1>2, <2>1, CallTypes
<1>3. QED
  BY <1>1, <1>2, InvGood DEF ShareTypeOK

\* A page lets go of its websocket, for the status st.
LEMMA StopInv ==
    ASSUME BaseInv, UNCHANGED roomsOwn, NEW c \in Pages, NEW st \in Status,
           st # "open",
           NEW sk, NEW T, Good(sk, ids, Restorers(calls), ws, status, T),
           Servers(sock, sk),
           sock' = HungUp(sk, ws[c]), ws' = [ws EXCEPT ![c] = NoWs],
           status' = [status EXCEPT ![c] = st],
           c = Sender \/ told' = T,
           ShareTypeOK',
           c = Sender => st # "off" /\ creating.step # "new" /\ shown' # NoPin,
           c # Sender => shown' = shown
    PROVE  BaseInv'
<1> DEFINE R == Restorers(calls)
<1>1. /\ ws \in [Pages -> Sockets \cup {NoWs}] /\ status \in [Pages -> Status]
      /\ PagesOK
      /\ \A i \in DOMAIN calls : calls[i].op = "announce" =>
             calls[i].socket \in Sockets
  BY InvParts
<1>2. status'[c] # "open" /\ Others(status, status', c)
  BY <1>1 DEF Others
<1> HIDE DEF R
<1>3. Good(sk, ids, R, ws, status, T)
  BY DEF R
<1>4. Good(sock', ids, R, ws', status', told') /\ Seen(sk, sock')
  BY <1>1, <1>2, <1>3, LeaveGood
<1>5. Good(sock', ids, Restorers(calls), ws', status', told')
  BY <1>4 DEF R
<1>6. \A q \in Sockets : sock'[q].server = "open" => sock[q].server = "open"
  <2>1. NoSocket.server = "gone"
    BY DEF NoSocket
  <2>2. QED
    BY <1>4, <2>1 DEF Seen, Servers
<1>7. creating' = creating
  BY DEF roomsOwn
<1>8. PagesOK'
  BY <1>1, <1>7 DEF PagesOK, Stopped, Pages
<1>9. QED
  BY <1>1, <1>5, <1>6, <1>8, PageStepInv

LEMMA Active ==
    ASSUME BaseInv, NEW c \in Pages, ws[c] # NoWs \/ ~Stopped(c)
    PROVE  /\ status[c] # "off" /\ ~Stopped(c)
           /\ c = Sender => creating.step # "new" /\ shown # NoPin
BY DEF BaseInv, PagesOK, Stopped

LEMMA HurryInv ==
    ASSUME BaseInv, NEW c \in Pages, Hurry(c) \/ NoticeLoss(c)
    PROVE  BaseInv'
<1>1. /\ ws \in [Pages -> Sockets \cup {NoWs}] /\ status \in [Pages -> Status]
      /\ Good(sock, ids, Restorers(calls), ws, status, told) /\ ShareTypeOK
  BY InvParts
<1>2. /\ UNCHANGED roomsOwn /\ ws[c] # NoWs
      /\ sock' = HungUp(sock, ws[c]) /\ ws' = [ws EXCEPT ![c] = NoWs]
      /\ UNCHANGED <<opened, peerId, online, told, shown>>
      /\ spent' \in [Budget -> Nat]
  <2>1. CASE Hurry(c)
    <3>1. spent' \in [Budget -> Nat]
      BY <1>1, <2>1, SpendType DEF Hurry, Budget
    <3>2. QED
      BY <2>1, <3>1 DEF Hurry, roomsOwn
  <2>2. CASE NoticeLoss(c)
    BY <1>1, <2>2 DEF NoticeLoss, Lost, roomsOwn, ShareTypeOK
  <2>3. QED
    BY <2>1, <2>2
<1>3. PICK st \in Status : /\ status' = [status EXCEPT ![c] = st]
                          /\ st # "open" /\ st # "off"
  <2>1. CASE Hurry(c)
    <3>1. /\ status' = [status EXCEPT ![c] = status[c]] /\ status[c] \in Status
          /\ status[c] \in {"connecting", "reconnecting"}
      BY <1>1, <2>1 DEF Hurry
    <3>2. QED
      BY <3>1
  <2>2. CASE NoticeLoss(c)
    BY <2>2 DEF NoticeLoss, Lost, Status
  <2>3. QED
    BY <2>1, <2>2
<1>4. ShareTypeOK'
  BY <1>1, <1>2, <1>3 DEF ShareTypeOK
<1>5. c = Sender => creating.step # "new" /\ shown' # NoPin
  BY <1>2, Active
<1>6. Servers(sock, sock)
  BY DEF Servers
<1>7. QED
  BY <1>1, <1>2, <1>3, <1>4, <1>5, <1>6, StopInv

LEMMA PinCreated ==
    ASSUME BaseInv, creating.step # "new"
    PROVE  creating.pin \in Pins /\ creating.pin # NoPin
BY DEF BaseInv, CreatingOK

LEMMA SentGood ==
    ASSUME BaseInv, NEW c \in Pages, ws[c] # NoWs,
           NEW sk, NEW T, Good(sk, ids, Restorers(calls), ws, status, T),
           NEW m \in ClientMsg, m.t # "auth"
    PROVE  /\ Good(Sent(sk, c, m), ids, Restorers(calls), ws, status, T)
           /\ Servers(sk, Sent(sk, c, m))
<1> DEFINE s == ws[c]
           R == Restorers(calls)
<1>1. ws \in [Pages -> Sockets \cup {NoWs}] /\ s \in Sockets
  BY InvParts
<1>2. \/ Sent(sk, c, m) = sk
      \/ Sent(sk, c, m) = [sk EXCEPT ![s].toServer = Append(@, m)]
  BY DEF Sent
<1> HIDE DEF s, R
<1>3. Good(sk, ids, R, ws, status, T)
  BY DEF R
<1>4. CASE Sent(sk, c, m) = [sk EXCEPT ![s].toServer = Append(@, m)]
  <2>1. PICK sk2 : sk2 = [sk EXCEPT ![s].toServer = Append(@, m)]
    OBVIOUS
  <2>2. /\ Good(sk2, ids, R, ws, status, T)
        /\ Servers(sk, sk2)
    BY <1>1, <1>3, <2>1, SendGood, ZenonT(60)
  <2>3. QED
    BY <1>4, <2>1, <2>2 DEF R
<1>5. CASE Sent(sk, c, m) = sk
  BY <1>5 DEF Servers
<1>6. QED
  BY <1>2, <1>4, <1>5

LEMMA SenderEndsInv ==
    ASSUME BaseInv, SenderEnds, UNCHANGED spent
    PROVE  BaseInv'
<1> DEFINE sk == IF status[Sender] = "open" THEN Sent(sock, Sender, Close) ELSE sock
<1>1. /\ ws \in [Pages -> Sockets \cup {NoWs}] /\ status \in [Pages -> Status]
      /\ Good(sock, ids, Restorers(calls), ws, status, told) /\ ShareTypeOK
      /\ Sender \in Pages
  BY InvParts DEF Pages
<1>2. /\ Good(sk, ids, Restorers(calls), ws, status, told)
      /\ Servers(sock, sk)
  <2>1. CASE status[Sender] = "open"
    <3>1. ws[Sender] # NoWs
      BY <1>1, <2>1 DEF Good, SocksInv, Welcomed
    <3>2. Close \in ClientMsg /\ Close.t # "auth"
      BY MessageTypes DEF Close
    <3>3. QED
      BY <1>1, <2>1, <3>1, <3>2, SentGood
  <2>2. CASE status[Sender] # "open"
    BY <1>1, <2>2 DEF Servers
  <2>3. QED
    BY <2>1, <2>2
<1>3. /\ UNCHANGED roomsOwn /\ ~Stopped(Sender)
      /\ sock' = HungUp(sk, ws[Sender]) /\ ws' = [ws EXCEPT ![Sender] = NoWs]
      /\ status' = [status EXCEPT ![Sender] = "closed"]
      /\ UNCHANGED <<opened, peerId, online, told, shown>>
  BY DEF SenderEnds, Stop, roomsOwn
<1> HIDE DEF sk
<1>4. "closed" \in Status
  BY DEF Status
<1>5. ShareTypeOK'
  BY <1>1, <1>3, <1>4 DEF ShareTypeOK
<1>6. creating.step # "new" /\ shown' # NoPin
  BY <1>1, <1>3, Active
<1>7. QED
  BY <1>1, <1>2, <1>3, <1>4, <1>5, <1>6, StopInv

LEMMA ReceiverLeavesInv ==
    ASSUME BaseInv, NEW c \in Receivers, Spend("leaves"), ReceiverLeaves(c)
    PROVE  BaseInv'
<1>1. /\ ws \in [Pages -> Sockets \cup {NoWs}] /\ status \in [Pages -> Status]
      /\ Good(sock, ids, Restorers(calls), ws, status, told) /\ ShareTypeOK
      /\ c \in Pages /\ c # Sender
  BY InvParts DEF Pages
<1>2. /\ UNCHANGED roomsOwn /\ ~Stopped(c)
      /\ sock' = HungUp(sock, ws[c]) /\ ws' = [ws EXCEPT ![c] = NoWs]
      /\ status' = [status EXCEPT ![c] = "closed"]
      /\ UNCHANGED <<opened, peerId, online, told, shown>>
  BY DEF ReceiverLeaves, Stop, roomsOwn
<1>3. "closed" \in Status
  BY DEF Status
<1>4. spent' \in [Budget -> Nat]
  BY <1>1, SpendType DEF Budget
<1>5. ShareTypeOK'
  BY <1>1, <1>2, <1>3, <1>4 DEF ShareTypeOK
<1>6. Servers(sock, sock)
  BY DEF Servers
<1>7. QED
  BY <1>1, <1>2, <1>3, <1>5, <1>6, StopInv

LEMMA SenderReloadsInv ==
    ASSUME BaseInv, Spend("reloads"), SenderReloads
    PROVE  BaseInv'
<1>1. /\ ws \in [Pages -> Sockets \cup {NoWs}] /\ status \in [Pages -> Status]
      /\ Good(sock, ids, Restorers(calls), ws, status, told) /\ ShareTypeOK
      /\ Sender \in Pages
  BY InvParts DEF Pages
<1>2. PICK st \in {"connecting", "ending"} :
          /\ sock' = HungUp(sock, ws[Sender]) /\ ws' = [ws EXCEPT ![Sender] = NoWs]
          /\ status' = [status EXCEPT ![Sender] = st]
  BY DEF SenderReloads, endShare, Stop
<1>3. /\ UNCHANGED roomsOwn /\ ~Stopped(Sender)
      /\ opened' = opened \ {Sender} /\ told' = {} /\ shown' = creating.pin
      /\ UNCHANGED <<peerId, online>>
  BY DEF SenderReloads, roomsOwn, savedShare
<1>4. st \in Status /\ st # "open" /\ st # "off"
  BY DEF Status
<1>5. spent' \in [Budget -> Nat]
  BY <1>1, SpendType DEF Budget
<1>6. /\ creating.step # "new" /\ shown' # NoPin
      /\ shown' \in Pins
  BY <1>1, <1>3, Active, PinCreated
<1>7. ShareTypeOK'
  BY <1>1, <1>2, <1>3, <1>4, <1>5, <1>6 DEF ShareTypeOK
<1>8. Servers(sock, sock)
  BY DEF Servers
<1>9. QED
  BY <1>1, <1>2, <1>3, <1>4, <1>6, <1>7, <1>8, StopInv

LEMMA AuthType ==
    ASSUME BaseInv, NEW c \in Pages, NEW keys \in Networks
    PROVE  /\ Auth(c, keys) \in ClientMsg
           /\ Auth(c, keys).t = "auth" /\ Auth(c, keys).role = Side(c)
<1>1. CASE c = Sender
  <2>1. /\ shown \in Pins \cup {NoPin} /\ creating.discoverable \in BOOLEAN
        /\ keys \in SUBSET Keys /\ (status[c] # "ending") \in BOOLEAN
    BY DEF BaseInv, ShareTypeOK, CreatingOK
  <2> DEFINE b == status[c] # "ending"
  <2>2. Auth(c, keys) = AuthMaster(b, shown, creating.discoverable, keys)
    BY <1>1 DEF Auth
  <2> HIDE DEF b
  <2>3. b \in BOOLEAN
    BY DEF b
  <2>4. QED
    BY <1>1, <2>1, <2>2, <2>3 DEF AuthMaster, ClientMsg, Side
<1>2. CASE c # Sender
  <2>1. c \in Receivers
    BY <1>2 DEF Pages
  <2>2. peerId[c] \in Ids \cup {NoId}
    BY <2>1 DEF BaseInv, ShareTypeOK
  <2>3. QED
    BY <1>2, <2>2 DEF Auth, AuthPeer, ClientMsg, Side
<1>3. QED
  BY <1>1, <1>2

LEMMA ConnectInv ==
    ASSUME BaseInv, NEW c \in Pages, Connect(c)
    PROVE  BaseInv'
<1> DEFINE R == Restorers(calls)
<1>1. /\ ws \in [Pages -> Sockets \cup {NoWs}] /\ status \in [Pages -> Status]
      /\ Good(sock, ids, R, ws, status, told) /\ ShareTypeOK
      /\ sock \in SockMap /\ PagesOK
  BY InvParts
<1>2. PICK s \in Sockets, keys \in Networks :
          /\ Unused(s)
          /\ ws' = [ws EXCEPT ![c] = s]
          /\ sock' = [sock EXCEPT ![s] = Accepted(Auth(c, keys))]
  BY DEF Connect
<1>3. /\ UNCHANGED roomsOwn /\ Spend("connects")
      /\ UNCHANGED <<status, opened, peerId, online, told, shown>>
      /\ status[c] \in {"connecting", "reconnecting", "ending"}
  BY DEF Connect, roomsOwn
<1>4. /\ sock[s] = NoSocket /\ s \notin R
      /\ \A i \in DOMAIN calls : calls[i].op = "announce" => calls[i].socket # s
  BY <1>2 DEF Unused, Restorers, RestoreCalls
<1>5. Good(sock', ids, R, ws', status', told')
  <2> DEFINE m == Auth(c, keys)
  <2>1. m \in ClientMsg /\ m.t = "auth" /\ m.role = Side(c) /\ status[c] # "open"
    BY <1>3, AuthType
  <2>2. sock' = [sock EXCEPT ![s] = Accepted(m)]
    BY <1>2
  <2> HIDE DEF m, R
  <2>3. Good(sock', ids, R, [ws EXCEPT ![c] = s], status, told)
    BY <1>1, <1>4, <2>1, <2>2, ConnectGood
  <2>4. QED
    BY <1>2, <1>3, <2>3
<1>6. spent' \in [Budget -> Nat]
  BY <1>1, <1>3, SpendType DEF Budget
<1>7. ShareTypeOK'
  BY <1>1, <1>2, <1>3, <1>6 DEF ShareTypeOK
<1>8. PagesOK'
  BY <1>1, <1>2, <1>3 DEF PagesOK, Stopped, roomsOwn
<1>9. \A i \in DOMAIN calls : calls[i].op = "announce" =>
          LET q == calls[i].socket
          IN  sock'[q].server = "open" => sock[q].server = "open"
  BY <1>1, <1>2, <1>4, InvParts DEF SockMap
<1>10. QED
  BY <1>3, <1>5, <1>7, <1>8, <1>9, PageStepInv

\* What is left to show of a step that neither opens nor closes a websocket.
LEMMA QuietInv ==
    ASSUME BaseInv, UNCHANGED roomsOwn, ShareTypeOK', PagesOK',
           Good(sock', ids, Restorers(calls), ws', status', told'),
           Servers(sock, sock')
    PROVE  BaseInv'
<1>1. \A i \in DOMAIN calls : calls[i].op = "announce" =>
          LET s == calls[i].socket
          IN  sock'[s].server = "open" => sock[s].server = "open"
  BY InvParts DEF Servers
<1>2. QED
  BY <1>1, PageStepInv

LEMMA PagesStartInv ==
    ASSUME BaseInv, UNCHANGED spent,
           SenderStarts \/ \E c \in Receivers : ReceiverOpens(c)
    PROVE  BaseInv'
<1>1. /\ ws \in [Pages -> Sockets \cup {NoWs}] /\ status \in [Pages -> Status]
      /\ Good(sock, ids, Restorers(calls), ws, status, told) /\ ShareTypeOK
      /\ PagesOK
  BY InvParts
<1>2. /\ UNCHANGED roomsOwn
      /\ UNCHANGED <<sock, ws, opened, peerId, online, told>>
  BY DEF SenderStarts, ReceiverOpens, roomsOwn, roomVars
<1>3. "connecting" \in Status
  BY DEF Status
<1>4. PICK c \in Pages :
          /\ status' = [status EXCEPT ![c] = "connecting"]
          /\ ws[c] = NoWs
          /\ \/ c # Sender /\ shown' = shown
             \/ c = Sender /\ shown' = creating.pin /\ creating.step # "new"
  <2>1. CASE SenderStarts
    <3>1. status[Sender] = "off" /\ Sender \in Pages
      BY <1>1, <2>1 DEF SenderStarts, PagesOK, Pages
    <3>2. QED
      BY <1>1, <2>1, <3>1 DEF SenderStarts, SenderSession, PagesOK, Stopped
  <2>2. CASE \E c \in Receivers : ReceiverOpens(c)
    BY <1>1, <2>2 DEF ReceiverOpens, PagesOK, Stopped, Pages
  <2>3. QED
    BY <2>1, <2>2
<1>5. shown' \in Pins \cup {NoPin} /\ (c = Sender => shown' # NoPin)
  BY <1>1, <1>4, PinCreated DEF ShareTypeOK
<1>6. Good(sock', ids, Restorers(calls), ws', status', told')
  <2> DEFINE R == Restorers(calls)
  <2>1. /\ SocksInv(sock, ids, R, ws, status) /\ OneEach(ws) /\ Unique(sock)
        /\ AllKnown(sock, ws[Sender], status[Sender], told)
    BY <1>1 DEF Good
  <2> HIDE DEF R
  <2>2. /\ status'[c] = "connecting"
        /\ \A d \in Pages : d # c => status'[d] = status[d]
    BY <1>1, <1>4
  <2>3. SocksInv(sock, ids, R, ws, status')
    <3>1. \A d \in Pages : Welcomed(d, ws, status', sock, R)
      BY <2>1, <2>2 DEF SocksInv, Welcomed
    <3>2. QED
      BY <2>1, <3>1 DEF SocksInv
  <2>4. AllKnown(sock, ws[Sender], status'[Sender], told)
    BY <1>4, <2>1, <2>2 DEF AllKnown, Pages
  <2>5. Good(sock, ids, R, ws, status', told)
    BY <2>1, <2>3, <2>4 DEF Good
  <2>6. QED
    BY <1>2, <2>5 DEF R
<1>7. ShareTypeOK'
  BY <1>1, <1>2, <1>3, <1>4, <1>5 DEF ShareTypeOK
<1>8. PagesOK'
  BY <1>1, <1>2, <1>4, <1>5 DEF PagesOK, Stopped, roomsOwn, Pages
<1>9. QED
  BY <1>2, <1>6, <1>7, <1>8, QuietInv DEF Servers

LEMMA SendSignalInv ==
    ASSUME BaseInv, NEW c \in Pages, Spend("signals"), SendSignal(c)
    PROVE  BaseInv'
<1>1. /\ Good(sock, ids, Restorers(calls), ws, status, told) /\ ShareTypeOK
      /\ PagesOK
  BY InvParts
<1>2. PICK i \in IF c = Sender THEN told ELSE {NoId} :
          sock' = Sent(sock, c, Signal(i))
  BY DEF SendSignal
<1>3. /\ UNCHANGED roomsOwn /\ UNCHANGED pageVars /\ status[c] = "open"
  BY DEF SendSignal, roomsOwn
<1>4. ws[c] # NoWs
  BY <1>1, <1>3 DEF Good, SocksInv, Welcomed
<1>5. Signal(i) \in ClientMsg /\ Signal(i).t # "auth"
  <2>1. i \in Ids \cup {NoId}
    BY <1>1 DEF ShareTypeOK
  <2>2. Signal(i).t # "auth"
    BY DEF Signal
  <2>3. QED
    BY <2>1, <2>2, MessageTypes
<1>6. Good(sock', ids, Restorers(calls), ws, status, told) /\ Servers(sock, sock')
  BY <1>1, <1>2, <1>4, <1>5, SentGood
<1>7. spent' \in [Budget -> Nat]
  BY <1>1, SpendType DEF Budget
<1>8. ShareTypeOK' /\ PagesOK'
  BY <1>1, <1>3, <1>7 DEF ShareTypeOK, PagesOK, Stopped, roomsOwn, pageVars
<1>9. QED
  BY <1>3, <1>6, <1>8, QuietInv DEF pageVars

LEMMA DropInv ==
    ASSUME BaseInv, NEW s \in Sockets, Spend("drops"), Drop(s)
    PROVE  BaseInv'
<1> DEFINE R == Restorers(calls)
<1>1. /\ Good(sock, ids, R, ws, status, told) /\ ShareTypeOK
      /\ PagesOK /\ ws \in [Pages -> Sockets \cup {NoWs}]
  BY InvParts
<1>2. /\ sock' = Dropped(sock, s)
      /\ UNCHANGED roomsOwn /\ UNCHANGED pageVars
  BY DEF Drop, Dropped, roomsOwn
<1>3. Good(sock', ids, R, ws, status, told) /\ Servers(sock, sock')
  <2> HIDE DEF R
  <2>1. QED
    BY <1>1, <1>2, DropGood
<1>4. spent' \in [Budget -> Nat]
  BY <1>1, SpendType DEF Budget
<1>5. ShareTypeOK' /\ PagesOK'
  BY <1>1, <1>2, <1>4 DEF ShareTypeOK, PagesOK, Stopped, roomsOwn, pageVars
<1>6. QED
  BY <1>2, <1>3, <1>5, QuietInv DEF pageVars

LEMMA MessageFields ==
    ASSUME NEW m \in ServerMsg
    PROVE  /\ m.t = "welcome" =>
                 /\ m.role \in {"master", "peer"}
                 /\ m.role = "master" => m.peers \in SUBSET Ids /\ m.pin \in Pins
                 /\ m.role = "peer" => m.peer \in Ids /\ m.online \in BOOLEAN
           /\ m.t \in {"join", "leave"} => m.peer \in Ids
           /\ m.t = "leave" => m = Leave(m.peer)
           /\ m.t = "master" => m.online \in BOOLEAN
<1>1. m.t = "leave" => m = Leave(m.peer)
  BY DEF ServerMsg, Welcomes, Leave
<1>2. QED
  BY <1>1 DEF ServerMsg, Welcomes

LEMMA Learned ==
    ASSUME NEW m \in ServerMsg, NEW T
    PROVE  /\ m.t = "welcome" => Learns(m, T, T \cup m.peers)
           /\ m.t = "join" => Learns(m, T, T \cup {m.peer})
           /\ m.t = "leave" => Learns(m, T, T \ {m.peer})
           /\ m.t \notin {"welcome", "join", "leave"} => Learns(m, T, T)
<1>1. m.t = "leave" => m = Leave(m.peer)
  BY MessageFields
<1>2. QED
  BY <1>1 DEF Learns, Gives

\* A page takes a message from its websocket.
LEMMA ReadInv ==
    ASSUME BaseInv, NEW c \in Pages, ws[c] # NoWs, sock[ws[c]].toClient # <<>>,
           NEW m, m = Head(sock[ws[c]].toClient),
           NEW T, Heeds(c, m, status, told, T), NEW sk, sk = Popped(ws[c])
    PROVE  /\ Good(sk, ids, Restorers(calls), ws, status, T)
           /\ m \in ServerMsg
           /\ WelcomedAs(m, c, sk[ws[c]], ws[c], Restorers(calls))
           /\ Servers(sock, sk)
<1>1. /\ ws \in [Pages -> Sockets \cup {NoWs}]
      /\ Good(sock, ids, Restorers(calls), ws, status, told)
  BY InvParts
<1>2. PICK s \in Sockets : ws[c] = s
  BY <1>1
<1>3. sk = Read(sock, s) /\ m = Head(sock[s].toClient) /\ sock[s].toClient # <<>>
  BY <1>2 DEF Popped, Read
<1>4. PICK R : R = Restorers(calls)
  OBVIOUS
<1>5. Good(sock, ids, R, ws, status, told)
  BY <1>1, <1>4
<1>6. /\ Good(sk, ids, R, ws, status, T)
      /\ m \in ServerMsg
      /\ WelcomedAs(m, c, sk[s], s, R)
      /\ Servers(sock, sk)
  BY <1>1, <1>2, <1>3, <1>5, ReadGood
<1>7. QED
  BY <1>2, <1>4, <1>6

\* The first message on a page's websocket.
LEMMA FirstMessage ==
    ASSUME BaseInv, NEW c \in Pages, ws[c] # NoWs, sock[ws[c]].toClient # <<>>
    PROVE  Head(sock[ws[c]].toClient) \in ServerMsg
<1>1. sock[ws[c]] \in Socket
  <2>1. /\ Good(sock, ids, Restorers(calls), ws, status, told)
        /\ ws \in [Pages -> Sockets \cup {NoWs}]
    BY InvParts
  <2>2. QED
    BY <2>1, SocksAt DEF Good
<1>2. QED
  BY <1>1, FieldTypes, EmptySeq, HeadTailProperties

LEMMA OnWelcomeInv ==
    ASSUME BaseInv, NEW c \in Pages, ws[c] # NoWs, sock[ws[c]].toClient # <<>>,
           NEW m, m = Head(sock[ws[c]].toClient), m.t = "welcome",
           OnWelcome(c, m), UNCHANGED roomsOwn, UNCHANGED spent
    PROVE  BaseInv'
<1> DEFINE R == Restorers(calls)
           s == ws[c]
<1>1. /\ ws \in [Pages -> Sockets \cup {NoWs}] /\ status \in [Pages -> Status]
      /\ Good(sock, ids, R, ws, status, told) /\ ShareTypeOK
      /\ PagesOK /\ s \in Sockets /\ ws' = ws
  BY InvParts DEF OnWelcome
<1>2. c # Sender => c \in Receivers
  BY DEF Pages
<1>3. PICK sk : sk = Popped(s)
  OBVIOUS
<1> HIDE DEF R, s
<1>5. s = ws[c] /\ m \in ServerMsg
  BY FirstMessage DEF s
<1>6. /\ m.role = Side(c) /\ sk[s].role = Side(c) /\ Settled(sk[s], s, R)
      /\ Servers(sock, sk)
  <2>1. PICK T2 : T2 = IF c = Sender THEN told \cup m.peers ELSE told
    OBVIOUS
  <2>2. Heeds(c, m, status, told, T2)
    BY <1>5, <2>1, Learned DEF Heeds
  <2>3. WelcomedAs(m, c, sk[s], s, R) /\ Servers(sock, sk)
    BY <1>3, <2>2, ReadInv DEF R, s
  <2>4. QED
    BY <2>3 DEF WelcomedAs
<1>7. CASE status[c] = "ending"
  <2>1. /\ sock' = Sent(sk, c, Close)
        /\ UNCHANGED <<status, opened, peerId, online, told, shown>>
    BY <1>3, <1>7 DEF OnWelcome, s
  <2>2. Good(sk, ids, R, ws, status, told)
    <3>1. Heeds(c, m, status, told, told)
      BY <1>7 DEF Heeds
    <3>2. QED
      BY <1>3, <3>1, ReadInv DEF R, s
  <2>3. Close \in ClientMsg /\ Close.t # "auth"
    BY MessageTypes DEF Close
  <2>4. Good(sock', ids, R, ws, status, told) /\ Servers(sk, sock')
    BY <2>1, <2>2, <2>3, SentGood DEF R
  <2>5. Servers(sock, sock')
    BY <1>6, <2>4 DEF Servers
  <2>6. ShareTypeOK' /\ PagesOK'
    BY <1>1, <2>1 DEF ShareTypeOK, PagesOK, Stopped, roomsOwn
  <2>7. QED
    BY <1>1, <2>1, <2>4, <2>5, <2>6, QuietInv DEF R
<1>8. CASE status[c] # "ending"
  <2>1. /\ sock' = sk /\ status' = [status EXCEPT ![c] = "open"]
        /\ opened' = opened \cup {c}
        /\ c = Sender => /\ told' = told \cup m.peers /\ shown' = m.pin
                        /\ UNCHANGED <<peerId, online>>
        /\ c # Sender => /\ peerId' = [peerId EXCEPT ![c] = m.peer]
                        /\ online' = [online EXCEPT ![c] = m.online]
                        /\ UNCHANGED <<told, shown>>
    BY <1>3, <1>8 DEF OnWelcome, s
  <2>2. PICK T2 : T2 = told'
    OBVIOUS
  <2>3. Heeds(c, m, status, told, T2)
    BY <1>5, <2>1, <2>2, Learned DEF Heeds
  <2>4. Good(sk, ids, R, ws, status, T2)
    BY <1>3, <2>3, ReadInv DEF R, s
  <2>5. PICK st2 : st2 = status'
    OBVIOUS
  <2>6. Others(status, st2, c)
    BY <1>1, <2>1, <2>5 DEF Others
  <2>7. Good(sk, ids, R, ws, st2, T2)
    <3>1. sk[ws[c]].role = Side(c) /\ Settled(sk[ws[c]], ws[c], R)
      BY <1>5, <1>6
    <3>2. QED
      BY <1>1, <1>8, <2>4, <2>6, <3>1, OpenGood
  <2>8. Good(sock', ids, R, ws', status', told')
    BY <1>1, <2>1, <2>2, <2>5, <2>7
  <2>9. /\ c = Sender => told' \in SUBSET Ids /\ shown' \in Pins
        /\ c # Sender => m.peer \in Ids /\ m.online \in BOOLEAN
    BY <1>1, <1>5, <1>6, <2>1, MessageFields DEF Side, ShareTypeOK
  <2>10. "open" \in Status
    BY DEF Status
  <2>11. ShareTypeOK'
    BY <1>1, <1>2, <2>1, <2>9, <2>10 DEF ShareTypeOK
  <2>12. PagesOK'
    <3>1. c = Sender => creating.step # "new"
      BY Active
    <3>2. QED
      BY <1>1, <2>1, <2>9, <3>1 DEF PagesOK, Stopped, roomsOwn, Pages
  <2>13. QED
    BY <1>6, <2>1, <2>8, <2>11, <2>12, QuietInv DEF R
<1>9. QED
  BY <1>7, <1>8


LEMMA OnPresenceInv ==
    ASSUME BaseInv, NEW c \in Pages, ws[c] # NoWs, sock[ws[c]].toClient # <<>>,
           NEW m, m = Head(sock[ws[c]].toClient),
           m.t \in {"join", "leave", "master", "signal"},
           OnPresence(c, m), UNCHANGED roomsOwn, UNCHANGED spent
    PROVE  BaseInv'
<1>1. /\ ShareTypeOK /\ PagesOK /\ m \in ServerMsg
      /\ sock' = Popped(ws[c])
      /\ UNCHANGED <<ws, status, opened, peerId, shown>>
  BY InvParts, FirstMessage DEF OnPresence
<1>2. c # Sender => c \in Receivers
  BY DEF Pages
<1>3. /\ Heeds(c, m, status, told, told')
      /\ told' \in SUBSET Ids /\ online' \in [Receivers -> BOOLEAN]
  <2>1. CASE status[c] = "ending" \/ m.t \notin heeded(c)
    <3>1. UNCHANGED <<online, told>>
      BY <2>1 DEF OnPresence
    <3>2. c = Sender /\ status[c] # "ending" => Learns(m, told, told)
      BY <1>1, <2>1, Learned DEF heeded
    <3>3. QED
      BY <1>1, <3>1, <3>2 DEF Heeds, ShareTypeOK
  <2>2. CASE status[c] # "ending" /\ m.t \in heeded(c) /\ c = Sender
    <3>1. /\ m.t = "join" => told' = told \cup {m.peer}
          /\ m.t = "leave" => told' = told \ {m.peer}
          /\ m.t \in {"join", "leave"} /\ online' = online
      BY <2>2 DEF OnPresence, heeded
    <3>2. m.peer \in Ids
      BY <1>1, <3>1, MessageFields
    <3>3. Learns(m, told, told')
      BY <1>1, <3>1, Learned
    <3>4. QED
      BY <1>1, <2>2, <3>1, <3>2, <3>3 DEF Heeds, ShareTypeOK
  <2>3. CASE status[c] # "ending" /\ m.t \in heeded(c) /\ c # Sender
    <3>1. /\ m.t = "master" /\ told' = told
          /\ online' = [online EXCEPT ![c] = m.online]
      BY <2>3 DEF OnPresence, heeded
    <3>2. m.online \in BOOLEAN
      BY <1>1, <3>1, MessageFields
    <3>3. QED
      BY <1>1, <1>2, <2>3, <3>1, <3>2 DEF Heeds, ShareTypeOK
  <2>4. QED
    BY <2>1, <2>2, <2>3
<1>4. PICK T2 : T2 = told'
  OBVIOUS
<1>5. PICK sk : sk = Popped(ws[c])
  OBVIOUS
<1>6. Good(sk, ids, Restorers(calls), ws, status, T2) /\ Servers(sock, sk)
  BY <1>3, <1>4, <1>5, ReadInv
<1>7. ShareTypeOK' /\ PagesOK'
  BY <1>1, <1>3 DEF ShareTypeOK, PagesOK, Stopped, roomsOwn
<1>8. QED
  BY <1>1, <1>4, <1>5, <1>6, <1>7, QuietInv

\* The messages that end a websocket or a session tell nobody's coming.
LEMMA EndInv ==
    ASSUME BaseInv, NEW c \in Pages, ws[c] # NoWs, sock[ws[c]].toClient # <<>>,
           NEW m, m = Head(sock[ws[c]].toClient), m.t \in {"error", "closed", "bye"},
           NEW st \in Status, st # "open", st # "off",
           Stop(c, st, Popped(ws[c])), UNCHANGED <<opened, peerId, online, told, shown>>,
           UNCHANGED roomsOwn, UNCHANGED spent
    PROVE  BaseInv'
<1>1. /\ ws \in [Pages -> Sockets \cup {NoWs}] /\ status \in [Pages -> Status]
      /\ ShareTypeOK /\ m \in ServerMsg
  BY InvParts, FirstMessage
<1>2. PICK sk : sk = Popped(ws[c])
  OBVIOUS
<1>3. Heeds(c, m, status, told, told)
  BY <1>1, Learned DEF Heeds
<1>4. Good(sk, ids, Restorers(calls), ws, status, told) /\ Servers(sock, sk)
  BY <1>2, <1>3, ReadInv
<1>5. /\ sock' = HungUp(sk, ws[c]) /\ ws' = [ws EXCEPT ![c] = NoWs]
      /\ status' = [status EXCEPT ![c] = st]
  BY <1>2 DEF Stop
<1>6. ShareTypeOK'
  BY <1>1, <1>5 DEF ShareTypeOK
<1>7. c = Sender => creating.step # "new" /\ shown # NoPin
  BY Active
<1>8. QED
  BY <1>4, <1>5, <1>6, <1>7, StopInv

LEMMA OnErrorInv ==
    ASSUME BaseInv, NEW c \in Pages, ws[c] # NoWs, sock[ws[c]].toClient # <<>>,
           NEW m, m = Head(sock[ws[c]].toClient), m.t = "error",
           OnError(c, m), UNCHANGED roomsOwn, UNCHANGED spent
    PROVE  BaseInv'
<1>1. UNCHANGED <<opened, peerId, online, told, shown>>
  BY DEF OnError
<1>2. ASSUME NEW st \in {"failed", "closed"}, Stop(c, st, Popped(ws[c]))
      PROVE  BaseInv'
  BY <1>1, <1>2, EndInv DEF Status
<1>3. CASE sock' = Popped(ws[c]) /\ UNCHANGED <<ws, status>>
  <2>1. m \in ServerMsg /\ ShareTypeOK /\ PagesOK
    BY FirstMessage, InvParts
  <2>2. Heeds(c, m, status, told, told)
    BY <2>1, Learned DEF Heeds
  <2>3. PICK sk : sk = Popped(ws[c])
    OBVIOUS
  <2>4. Good(sk, ids, Restorers(calls), ws, status, told) /\ Servers(sock, sk)
    BY <2>2, <2>3, ReadInv
  <2>5. ShareTypeOK' /\ PagesOK'
    BY <1>1, <1>3, <2>1 DEF ShareTypeOK, PagesOK, Stopped, roomsOwn
  <2>6. QED
    BY <1>1, <1>3, <2>3, <2>4, <2>5, QuietInv
<1>4. QED
  BY <1>2, <1>3 DEF OnError

LEMMA OnMessageInv ==
    ASSUME BaseInv, NEW c \in Pages, OnMessage(c)
    PROVE  BaseInv'
<1> DEFINE m == Head(sock[ws[c]].toClient)
<1>1. /\ ws[c] # NoWs /\ sock[ws[c]].toClient # <<>>
      /\ UNCHANGED roomsOwn /\ UNCHANGED spent
  BY DEF OnMessage, roomsOwn
<1>2. CASE m.t = "welcome" /\ OnWelcome(c, m)
  BY <1>1, <1>2, OnWelcomeInv
<1>3. CASE m.t \in {"join", "leave", "master", "signal"} /\ OnPresence(c, m)
  BY <1>1, <1>3, OnPresenceInv
<1>4. CASE m.t = "error" /\ OnError(c, m)
  BY <1>1, <1>4, OnErrorInv
<1>5. CASE /\ m.t = "closed"
           /\ Stop(c, "closed", Popped(ws[c]))
           /\ UNCHANGED <<opened, peerId, online, told, shown>>
  BY <1>1, <1>5, EndInv DEF Status
<1>6. CASE /\ m.t = "bye"
           /\ Lost(c)
           /\ sock' = HungUp(Popped(ws[c]), ws[c])
           /\ UNCHANGED <<opened, peerId, online, told, shown>>
  <2>1. PICK st \in {"closed", "reconnecting"} :
            status' = [status EXCEPT ![c] = st]
    BY <1>6 DEF Lost
  <2>2. Stop(c, st, Popped(ws[c]))
    BY <1>6, <2>1 DEF Lost, Stop
  <2>3. st \in Status /\ st # "open" /\ st # "off"
    BY DEF Status
  <2>4. QED
    BY <1>1, <1>6, <2>2, <2>3, EndInv
<1>7. QED
  BY <1>2, <1>3, <1>4, <1>5, <1>6 DEF OnMessage

-----------------------------------------------------------------------------
(* The invariant. *)

LEMMA InitInv == Init => BaseInv
<1> SUFFICES ASSUME Init PROVE BaseInv
  OBVIOUS
<1>1. DirectoryTypeOK /\ CreatingOK
  BY DEF Init, RoomInit, DirectoryTypeOK, CreatingOK
<1>2. ShareTypeOK /\ PagesOK
  BY DEF Init, RoomInit, ShareTypeOK, PagesOK, Stopped, Status, Pages
<1>3. RoomOK(meta) /\ RoomOK(stored) /\ AlarmOK /\ ids \in SUBSET Ids
  BY DEF Init, RoomInit, RoomOK, NoRoom, RoomMeta, AlarmOK
<1>4. CallsOK /\ Restorers(calls) = {}
  <2>1. calls = <<>> /\ DOMAIN calls = {} /\ calls \in Seq(Calls)
    BY EmptySeq DEF Init, RoomInit
  <2>2. QED
    BY <2>1 DEF CallsOK, RestoreOnce, RestoreCalls, AnnouncersOK, Restorers
<1>5. Good(sock, ids, {}, ws, status, told)
  <2>1. sock = [s \in Sockets |-> NoSocket] /\ ws = [c \in Pages |-> NoWs]
        /\ status = [c \in Pages |-> "off"]
    BY DEF Init, RoomInit
  <2>2. /\ NoSocket \in Socket /\ \A s \in Sockets : SockOK(NoSocket, s, ids, {})
    BY EmptySeq DEF NoSocket, Socket, SockOK, HasAuth, HasWelcome, OneWelcome
  <2>3. SocksInv(sock, ids, {}, ws, status)
    BY <2>1, <2>2 DEF SocksInv, SockMap, PageOK, Welcomed
  <2>4. OneEach(ws) /\ Unique(sock) /\ AllKnown(sock, ws[Sender], status[Sender], told)
    BY <2>1 DEF OneEach, Unique, AllKnown, NoSocket, InUse, Pages
  <2>5. QED
    BY <2>3, <2>4 DEF Good
<1>6. QED
  BY <1>1, <1>2, <1>3, <1>4, <1>5 DEF BaseInv, RoomInv

LEMMA OtherStepsInv ==
    ASSUME BaseInv, UNCHANGED <<roomVars, pageVars>>,
           \/ UNCHANGED <<directoryVars, spent>>
           \/ WatcherStep /\ UNCHANGED spent
           \/ Spend("others") /\ OtherShareClaims
    PROVE  BaseInv'
<1>1. DirectoryTypeOK'
  BY WatcherTypes DEF BaseInv, directoryVars, DirectoryTypeOK
<1>2. spent' \in [Budget -> Nat]
  BY SpendType DEF BaseInv, ShareTypeOK, Budget
<1>3. ShareTypeOK' /\ PagesOK' /\ CreatingOK'
  BY <1>2 DEF BaseInv, ShareTypeOK, PagesOK, Stopped, CreatingOK, pageVars, roomVars
<1>4. RoomInv'
  BY DEF BaseInv, RoomInv, AlarmOK, CallsOK, pageVars, roomVars
<1>5. QED
  BY <1>1, <1>3, <1>4 DEF BaseInv

LEMMA NextInv == BaseInv /\ [Next]_vars => BaseInv'
<1> SUFFICES ASSUME BaseInv, [Next]_vars PROVE BaseInv'
  OBVIOUS
<1>1. CASE UNCHANGED vars
  BY <1>1, OtherStepsInv DEF vars
<1>2. CASE RoomStep /\ UNCHANGED pageVars
  BY <1>2, RoomStepInv
<1>3. CASE CreateStep /\ UNCHANGED <<pageVars, spent>>
  BY <1>3, CreateInv
<1>4. CASE \/ WatcherStep /\ UNCHANGED <<roomVars, pageVars, spent>>
           \/ Spend("others") /\ OtherShareClaims /\ UNCHANGED <<roomVars, pageVars>>
  BY <1>4, OtherStepsInv
<1>5. CASE \E c \in Pages : Connect(c) \/ Hurry(c) \/ NoticeLoss(c) \/ OnMessage(c)
  BY <1>5, ConnectInv, HurryInv, OnMessageInv
<1>6. CASE \/ SenderStarts /\ UNCHANGED spent
           \/ \E c \in Receivers : ReceiverOpens(c) /\ UNCHANGED spent
  BY <1>6, PagesStartInv
<1>7. CASE \/ SenderEnds /\ UNCHANGED spent
           \/ \E c \in Receivers : Spend("leaves") /\ ReceiverLeaves(c)
           \/ Spend("reloads") /\ SenderReloads
  BY <1>7, SenderEndsInv, ReceiverLeavesInv, SenderReloadsInv
<1>8. CASE \E c \in Pages : Spend("signals") /\ SendSignal(c)
  BY <1>8, SendSignalInv
<1>9. CASE \E s \in Sockets : Spend("drops") /\ Drop(s)
  BY <1>9, DropInv
<1>10. QED
  BY <1>1, <1>2, <1>3, <1>4, <1>5, <1>6, <1>7, <1>8, <1>9 DEF Next

\* A share's room, directory, websockets and pages stay in BaseInv.
THEOREM Invariance == Spec => []BaseInv
<1>1. QED
  BY InitInv, NextInv, PTL DEF Spec

-----------------------------------------------------------------------------
(* What it gives. *)

\* Every variable of the worker and of the pages keeps its type: no handler
\* sends a message, makes a call or writes a room that the others cannot read.
THEOREM TypesHold == Spec => []TypeOK
<1>1. BaseInv => TypeOK
  BY InvGood DEF BaseInv, TypeOK, RoomTypeOK, CreatingOK, RoomInv, RoomOK,
     AlarmOK, CallsOK, SockMap
<1>2. QED
  BY <1>1, Invariance, PTL

\* A page that reconnects takes over from its stale socket: the room never has
\* two sockets in use that claim to be the sender, or the same receiver.
THEOREM OneSocketEachHolds == Spec => []OneSocketEach
<1>1. BaseInv => OneSocketEach
  BY DEF BaseInv, RoomInv, Good, Unique, OneSocketEach
<1>2. QED
  BY <1>1, Invariance, PTL

\* A sender that has read all that was sent to it has been told of every
\* receiver the room relays to it, in whatever order they joined, left and
\* came back, and its own welcome and theirs were sent.
THEOREM SenderKnowsHolds == Spec => []SenderKnows
<1>1. ASSUME BaseInv PROVE SenderKnows
  <2> DEFINE s == ws[Sender]
             k == sock[s]
  <2> SUFFICES ASSUME status[Sender] = "open",
                      k.up, k.server = "open", k.toClient = <<>>,
                      NEW p \in Peers(sock), sock[p].server = "open"
               PROVE  sock[p].peer \in told
    BY DEF SenderKnows
  <2>1. /\ SocksInv(sock, ids, Restorers(calls), ws, status)
        /\ AllKnown(sock, s, status[Sender], told) /\ Sender \in Pages
    BY <1>1 DEF BaseInv, RoomInv, Good, Pages
  <2>2. s # NoWs /\ k.role = "master" /\ Settled(k, s, Restorers(calls))
    BY <2>1 DEF SocksInv, Welcomed, Side
  <2>3. p \in Sockets /\ InUse(sock, p)
    BY DEF Peers, Present, InUse
  <2>4. KnownTo(k, told, sock[p].peer)
    BY <2>1, <2>2, <2>3 DEF AllKnown
  <2>5. k.welcome = NoWelcome
    BY <2>2 DEF Settled
  <2> HIDE DEF k
  <2>6. DOMAIN k.toClient = {}
    BY EmptySeq
  <2>7. QED
    BY <2>4, <2>5, <2>6 DEF KnownTo
<1>2. QED
  BY <1>1, Invariance, PTL

=============================================================================
