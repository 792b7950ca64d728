-------------------------------- MODULE Room --------------------------------
(***************************************************************************)
(* The worker's object of one share (worker/src/room.ts), the calls it     *)
(* makes to the directory, and the request that creates it                 *)
(* (worker/src/index.ts).                                                  *)
(*                                                                         *)
(* The runtime holds other events back while a handler waits for storage,  *)
(* but not while it waits for the directory or for TURN credentials.  A    *)
(* handler is therefore one step up to such a wait, and one after it.      *)
(* Calls to the directory are answered in the order they are made, and     *)
(* calls holds those under way with what their caller does next.           *)
(*                                                                         *)
(* Time is left out: an alarm set for the end of the grace period or of    *)
(* the share's lifetime may ring at any moment, and whether that moment is *)
(* late enough is what it was set for.                                     *)
(***************************************************************************)
EXTENDS Directory

CONSTANTS
    Sockets,    \* room websockets, as numbers
    Ids,        \* ids of receivers
    NoId,
    MaxPeers,   \* maxPeers()
    Turn        \* whether welcomes may have to wait for TURN credentials

ASSUME RoomAssumption ==
    /\ Sockets \subseteq Nat
    /\ NoId \notin Ids
    /\ MaxPeers \in Nat
    /\ Turn \in SUBSET BOOLEAN

VARIABLES
    meta,       \* the room, in memory
    stored,     \* the room, in storage
    alarm,      \* what the alarm is set for
    sock,       \* both ends of every websocket
    ids,        \* the receiver ids given out so far
    calls,      \* calls to the directory under way
    creating    \* how far POST /api/rooms has come

roomVars == <<meta, stored, alarm, sock, ids, calls, creating>>

RoomMeta ==
    [open : BOOLEAN, pin : Pins \cup {NoPin}, discoverable : BOOLEAN,
     masterSeen : BOOLEAN, masterGone : BOOLEAN]

NoRoom ==
    [open |-> FALSE, pin |-> NoPin, discoverable |-> FALSE,
     masterSeen |-> FALSE, masterGone |-> FALSE]

NewRoom(pin, discoverable, seen) ==
    [open |-> TRUE, pin |-> pin, discoverable |-> discoverable,
     masterSeen |-> seen, masterGone |-> FALSE]

-----------------------------------------------------------------------------
(* Messages.  "bye" is the closing of the websocket, in its place among    *)
(* the messages sent before it.                                            *)

Bye       == [t |-> "bye"]
Closed    == [t |-> "closed"]
Close     == [t |-> "close"]
Master(b) == [t |-> "master", online |-> b]
Join(i)   == [t |-> "join", peer |-> i]
Leave(i)  == [t |-> "leave", peer |-> i]
Error(c)  == [t |-> "error", code |-> c]
Signal(i) == [t |-> "signal", peer |-> i]   \* its "to" or "from"

AuthMaster(restore, pin, discoverable, keys) ==
    [t |-> "auth", role |-> "master", restore |-> restore, pin |-> pin,
     discoverable |-> discoverable, keys |-> keys]
AuthPeer(resume) == [t |-> "auth", role |-> "peer", resume |-> resume]

NoWelcome == [t |-> "none"]
WelcomeMaster(peers, pin) ==
    [t |-> "welcome", role |-> "master", peers |-> peers, pin |-> pin]
WelcomePeer(i, online) ==
    [t |-> "welcome", role |-> "peer", peer |-> i, online |-> online]

Welcomes ==
    [t : {"welcome"}, role : {"master"}, peers : SUBSET Ids, pin : Pins]
        \cup [t : {"welcome"}, role : {"peer"}, peer : Ids, online : BOOLEAN]

ServerMsg ==
    Welcomes
        \cup [t : {"bye", "closed"}]
        \cup [t : {"master"}, online : BOOLEAN]
        \cup [t : {"join", "leave"}, peer : Ids]
        \cup [t : {"signal"}, peer : Ids \cup {NoId}]
        \cup [t : {"error"}, code : {"room_not_found", "room_full",
                 "bad_request", "peer_not_found", "master_absent"}]

ClientMsg ==
    [t : {"bye", "close"}]
        \cup [t : {"signal"}, peer : Ids \cup {NoId}]
        \cup [t : {"auth"}, role : {"master"}, restore : BOOLEAN,
              pin : Pins \cup {NoPin}, discoverable : BOOLEAN,
              keys : SUBSET Keys]
        \cup [t : {"auth"}, role : {"peer"}, resume : Ids \cup {NoId}]

\* A websocket.  server is "closing" once the room has closed it and until the
\* runtime reports it gone; welcome waits for TURN credentials.  One that is
\* gone at both ends is NoSocket: nothing can be told of it any more.
Socket ==
    [role : {"none", "master", "peer"}, peer : Ids \cup {NoId},
     server : {"open", "closing", "gone"}, client : BOOLEAN, up : BOOLEAN,
     toServer : Seq(ClientMsg), toClient : Seq(ServerMsg),
     welcome : Welcomes \cup {NoWelcome}]

NoSocket ==
    [role |-> "none", peer |-> NoId, server |-> "gone", client |-> FALSE,
     up |-> FALSE, toServer |-> <<>>, toClient |-> <<>>,
     welcome |-> NoWelcome]

\* fetch(): a websocket accepted by the room, with what its page sends at once.
Accepted(m) ==
    [NoSocket EXCEPT !.server = "open", !.client = TRUE, !.up = TRUE,
                     !.toServer = <<m>>]

\* A call, and what its caller needs to go on: closeRoom() the PIN, restore()
\* the socket and what it asked for.
Calls ==
    [op : {"releasePin", "withdraw"}, pin : Pins, discoverable : BOOLEAN]
        \cup [op : {"claimPin", "announce"}, socket : Sockets,
              pin : Pins \cup {NoPin}, discoverable : BOOLEAN,
              keys : SUBSET Keys]

RoomTypeOK ==
    /\ meta \in RoomMeta
    /\ stored \in RoomMeta
    /\ alarm \in {"none", "grace", "expiry"}
    /\ sock \in [Sockets -> Socket]
    /\ ids \in SUBSET Ids
    /\ calls \in Seq(Calls)
    /\ creating \in [step : {"new", "claimed", "inited", "done"},
                     pin : Pins \cup {NoPin}, discoverable : BOOLEAN,
                     keys : SUBSET Keys]

-----------------------------------------------------------------------------
(* Websockets, in a state sk of them. *)

Present(sk) == {s \in Sockets : sk[s].server # "gone"}
Masters(sk) == {s \in Present(sk) : sk[s].role = "master"}
Peers(sk)   == {s \in Present(sk) : sk[s].role = "peer"}
PeerIds(sk) == {sk[s].peer : s \in Peers(sk)}

\* A message sent to s now would arrive.
Reachable(sk, s) == sk[s].server = "open" /\ sk[s].up /\ sk[s].client

\* send(): a socket that is closing, or whose link is down, loses it.
Tell(sk, to, m) ==
    [s \in Sockets |->
        IF s \in to /\ Reachable(sk, s)
        THEN [sk[s] EXCEPT !.toClient = Append(@, m)]
        ELSE sk[s]]

\* A websocket closed by the room; a welcome it still waits for would be lost.
Hang(sk, to) ==
    [s \in Sockets |->
        IF s \in to /\ sk[s].server = "open"
        THEN [sk[s] EXCEPT !.server = "closing", !.welcome = NoWelcome,
                           !.toClient = IF Reachable(sk, s)
                                        THEN Append(@, Bye) ELSE @]
        ELSE sk[s]]

\* fail()
Reject(sk, s, code) == Hang(Tell(sk, {s}, Error(code)), {s})

\* The welcome is sent now, or once credentials have been fetched.
Greet(sk, s, w) ==
    \/ FALSE \in Turn /\ sock' = Tell(sk, {s}, w)
    \/ TRUE \in Turn /\ sock' = [sk EXCEPT ![s].welcome = w]

-----------------------------------------------------------------------------
(* The handlers of the room. *)

\* closeRoom() up to its first call.
CloseRoom(sk) ==
    /\ sock' = Hang(Tell(sk, Present(sk), Closed), Present(sk))
    /\ meta' = NoRoom
    /\ calls' = Append(calls, [op |-> "releasePin", pin |-> meta.pin,
                               discoverable |-> meta.discoverable])
    /\ UNCHANGED <<stored, ids>>

\* Mutant: the stale socket is not closed.
BecomeSecondMaster(sk, s, room) ==
    /\ room.open
    /\ meta' = [room EXCEPT !.masterSeen = TRUE, !.masterGone = FALSE]
    /\ stored' = meta'
    /\ alarm' = "expiry"
    /\ Greet(Tell([sk EXCEPT ![s].role = "master"], Peers(sk), Master(TRUE)),
             s, WelcomeMaster(PeerIds(sk), room.pin))

\* The second half of auth() for the sender, which takes over from its stale
\* sockets.  If the room was closed meanwhile it throws half-way.
BecomeMaster(sk, s, room) ==
    LET attached == [Hang(sk, Masters(sk) \ {s}) EXCEPT ![s].role = "master"]
    IN  IF ~room.open THEN
            /\ sock' = attached
            /\ meta' = room
            /\ UNCHANGED <<stored, alarm>>
        ELSE
            /\ meta' = [room EXCEPT !.masterSeen = TRUE, !.masterGone = FALSE]
            /\ stored' = meta'
            /\ alarm' = "expiry"
            /\ Greet(Tell(attached, Peers(attached), Master(TRUE)), s,
                     WelcomeMaster(PeerIds(attached), room.pin))

AuthAsMaster(sk, s, m) ==
    /\ UNCHANGED ids
    /\ IF meta.open THEN
           /\ BecomeMaster(sk, s, meta)
           /\ UNCHANGED calls
       ELSE IF m.restore THEN
           /\ sock' = sk
           /\ calls' = Append(calls, [op |-> "claimPin", socket |-> s,
                            pin |-> m.pin, discoverable |-> m.discoverable,
                            keys |-> m.keys])
           /\ UNCHANGED <<meta, stored, alarm>>
       ELSE
           /\ sock' = Reject(sk, s, "room_not_found")
           /\ UNCHANGED <<meta, stored, alarm, calls>>

\* A receiver that reconnects reclaims its id from its stale socket; ids are
\* long and random, and a new one is never one given out before.
AuthAsPeer(sk, s, m) ==
    LET stale == {p \in Peers(sk) : m.resume # NoId /\ sk[p].peer = m.resume}
        full  == Cardinality(Peers(sk) \ stale) >= MaxPeers
    IN  /\ UNCHANGED <<meta, stored, alarm, calls>>
        /\ IF ~meta.open \/ full THEN
               /\ sock' = Reject(sk, s, IF full /\ meta.open THEN "room_full"
                                        ELSE "room_not_found")
               /\ UNCHANGED ids
           ELSE \E i \in IF m.resume = NoId THEN Ids \ ids ELSE {m.resume} :
               LET attached == Hang([sk EXCEPT ![s].role = "peer",
                                               ![s].peer = i], stale)
               IN  /\ ids' = ids \cup {i}
                   /\ Greet(Tell(attached, Masters(attached), Join(i)), s,
                            WelcomePeer(i, Masters(attached) # {}))

\* Relaying between the sender and a receiver.
RelayFromMaster(sk, s, m) ==
    LET to == {p \in Peers(sk) : sk[p].peer = m.peer}
    IN  /\ IF to = {}
           THEN sock' = Tell(sk, {s}, Error("peer_not_found"))
           ELSE \E p \in to : sock' = Tell(sk, {p}, Signal(NoId))
        /\ UNCHANGED <<meta, stored, alarm, calls, ids>>

RelayFromPeer(sk, s) ==
    /\ sock' = IF Masters(sk) = {}
               THEN Tell(sk, {s}, Error("master_absent"))
               ELSE Tell(sk, Masters(sk), Signal(sk[s].peer))
    /\ UNCHANGED <<meta, stored, alarm, calls, ids>>

\* Mutant: the departure is not saved.
OnGoneUnsaved(sk, s) ==
    /\ UNCHANGED <<stored, calls, ids>>
    /\ IF meta.open /\ sock[s].role = "master" /\ Masters(sk) = {}
       THEN /\ meta' = [meta EXCEPT !.masterGone = TRUE]
            /\ alarm' = "grace"
            /\ sock' = Tell(sk, Peers(sk), Master(FALSE))
       ELSE /\ sock' = sk
            /\ UNCHANGED <<meta, alarm>>

\* Mutant: every closed socket of a receiver counts as its departure.
OnGoneAlways(sk, s) ==
    /\ UNCHANGED <<meta, stored, alarm, calls, ids>>
    /\ sock' = IF meta.open /\ sock[s].role = "peer"
               THEN Tell(sk, Masters(sk), Leave(sock[s].peer))
               ELSE sk

\* onGone(): sk no longer has s among its sockets.
OnGone(sk, s) ==
    /\ UNCHANGED <<calls, ids>>
    /\ IF meta.open /\ sock[s].role = "master" /\ Masters(sk) = {} THEN
           /\ meta' = [meta EXCEPT !.masterGone = TRUE]
           /\ stored' = meta'
           /\ alarm' = "grace"
           /\ sock' = Tell(sk, Peers(sk), Master(FALSE))
       ELSE
           /\ sock' = IF meta.open /\ sock[s].role = "peer"
                         /\ sock[s].peer \notin PeerIds(sk)
                      THEN Tell(sk, Masters(sk), Leave(sock[s].peer))
                      ELSE sk
           /\ UNCHANGED <<meta, stored, alarm>>

Gone(s) ==
    [sock EXCEPT ![s] =
        IF ~@.client THEN NoSocket
        ELSE [@ EXCEPT !.server = "gone", !.toServer = <<>>,
                       !.welcome = NoWelcome]]

\* webSocketMessage() and webSocketClose().
OnSocketEvent(s) ==
    /\ sock[s].server # "gone" /\ sock[s].toServer # <<>>
    /\ LET m  == Head(sock[s].toServer)
           sk == [sock EXCEPT ![s].toServer = Tail(@)]
           role == sock[s].role
       IN  \/ m.t = "bye" /\ OnGone(Gone(s), s)
           \/ /\ m.t # "bye" /\ role = "none"
              /\ IF m.t # "auth" THEN
                     /\ sock' = Reject(sk, s, "bad_request")
                     /\ UNCHANGED <<meta, stored, alarm, calls, ids>>
                 ELSE IF m.role = "master" THEN AuthAsMaster(sk, s, m)
                 ELSE AuthAsPeer(sk, s, m)
           \/ /\ m.t # "bye" /\ role # "none" /\ ~meta.open
              /\ sock' = Reject(sk, s, "room_not_found")
              /\ UNCHANGED <<meta, stored, alarm, calls, ids>>
           \/ /\ meta.open /\ role = "master" /\ m.t = "signal"
              /\ RelayFromMaster(sk, s, m)
           \/ /\ meta.open /\ role = "master" /\ m.t = "close"
              /\ CloseRoom(sk)
              /\ UNCHANGED alarm
           \/ /\ meta.open /\ role = "peer" /\ m.t = "signal"
              /\ RelayFromPeer(sk, s)
    /\ UNCHANGED <<creating, directoryVars>>

\* The runtime finds out that the link of a websocket is down.
SocketLost(s) ==
    /\ sock[s].server # "gone" /\ ~sock[s].up
    /\ OnGone(Gone(s), s)
    /\ UNCHANGED <<creating, directoryVars>>

\* The credentials for a welcome arrive; what it says was true before.
CredentialsArrive(s) ==
    /\ sock[s].welcome # NoWelcome
    /\ sock' = Tell([sock EXCEPT ![s].welcome = NoWelcome], {s},
                    sock[s].welcome)
    /\ UNCHANGED <<meta, stored, alarm, ids, calls, creating, directoryVars>>

\* Mutant: only a sender that has been there can be missed.
AlarmGraceOnly ==
    /\ alarm # "none" /\ creating.step = "done" /\ calls = <<>>
    /\ IF meta.open /\ Masters(sock) = {} /\ meta.masterGone
       THEN /\ CloseRoom(sock)
            /\ alarm' = "none"
       ELSE /\ alarm' = IF meta.open THEN "expiry" ELSE "none"
            /\ UNCHANGED <<meta, stored, sock, ids, calls>>
    /\ UNCHANGED <<creating, directoryVars>>

\* alarm(): it has rung, and is set for nothing until it is set again.  The
\* directory answers long before any alarm.
AlarmRings ==
    /\ alarm # "none" /\ creating.step = "done" /\ calls = <<>>
    /\ IF ~meta.open THEN
           /\ alarm' = "none"
           /\ UNCHANGED <<meta, stored, sock, ids, calls>>
       ELSE IF alarm = "expiry" \/ ~meta.masterSeen
               \/ (Masters(sock) = {} /\ meta.masterGone) THEN
           /\ CloseRoom(sock)
           /\ alarm' = "none"
       ELSE
           /\ alarm' = "expiry"
           /\ UNCHANGED <<meta, stored, sock, ids, calls>>
    /\ UNCHANGED <<creating, directoryVars>>

\* An idle object leaves memory, and comes back from storage.
Hibernate ==
    /\ calls = <<>> /\ \A s \in Sockets : sock[s].welcome = NoWelcome
    /\ meta' = stored
    /\ UNCHANGED <<stored, alarm, sock, ids, calls, creating, directoryVars>>

-----------------------------------------------------------------------------
(* The directory answers the call at the head of calls. *)

\* The rest of closeRoom(): nothing is left in storage.
WipeStorage(rest) ==
    /\ stored' = NoRoom
    /\ alarm' = "none"
    /\ calls' = rest
    /\ UNCHANGED <<meta, sock, ids>>

\* Mutant: the share stays listed.
PinReleasedOnly(c, rest) ==
    /\ ReleasePin(c.pin)
    /\ WipeStorage(rest)
    /\ UNCHANGED <<listedUnder, net, watching, nearby>>

PinReleased(c, rest) ==
    /\ ReleasePin(c.pin)
    /\ IF c.discoverable
       THEN /\ calls' = Append(rest, [c EXCEPT !.op = "withdraw"])
            /\ UNCHANGED <<meta, stored, alarm, sock, ids>>
       ELSE WipeStorage(rest)
    /\ UNCHANGED <<listedUnder, net, watching, nearby>>

Withdrawn(c, rest) ==
    /\ Withdraw
    /\ WipeStorage(rest)
    /\ UNCHANGED pins

\* restore() goes on: the room exists again, and may have to be listed.
PinClaimed(c, rest) ==
    /\ \E pin \in Claimable(c.pin) :
          LET room == NewRoom(pin, c.discoverable, TRUE)
          IN  /\ pins' = [pins EXCEPT ![pin] = "ours"]
              /\ IF c.discoverable
                 THEN /\ calls' = Append(rest, [c EXCEPT !.op = "announce"])
                      /\ meta' = room
                      /\ stored' = room
                      /\ UNCHANGED <<alarm, sock>>
                 ELSE /\ BecomeMaster(sock, c.socket, room)
                      /\ calls' = rest
    /\ UNCHANGED <<ids, listedUnder, net, watching, nearby>>

Announced(c, rest) ==
    /\ Announce(c.keys)
    /\ BecomeMaster(sock, c.socket, meta)
    /\ calls' = rest
    /\ UNCHANGED <<ids, pins>>

DirectoryAnswers ==
    /\ calls # <<>>
    /\ LET c == Head(calls)
           rest == Tail(calls)
       IN  \/ c.op = "releasePin" /\ PinReleased(c, rest)
           \/ c.op = "withdraw" /\ Withdrawn(c, rest)
           \/ c.op = "claimPin" /\ PinClaimed(c, rest)
           \/ c.op = "announce" /\ Announced(c, rest)
    /\ UNCHANGED creating

-----------------------------------------------------------------------------
(* POST /api/rooms.  It is answered long before the first alarm. *)

CreateClaims(discoverable, keys) ==
    /\ creating.step = "new"
    /\ \E pin \in Claimable(NoPin) :
          /\ pins' = [pins EXCEPT ![pin] = "ours"]
          /\ creating' = [step |-> "claimed", pin |-> pin,
                          discoverable |-> discoverable, keys |-> keys]
    /\ UNCHANGED <<meta, stored, alarm, sock, ids, calls,
                   listedUnder, net, watching, nearby>>

\* init()
CreateInits ==
    /\ creating.step = "claimed"
    /\ meta' = NewRoom(creating.pin, creating.discoverable, FALSE)
    /\ stored' = meta'
    /\ alarm' = "grace"
    /\ creating' = [creating EXCEPT !.step = "inited"]
    /\ UNCHANGED <<sock, ids, calls, directoryVars>>

CreateAnnounces ==
    /\ creating.step = "inited"
    /\ Announce(IF creating.discoverable THEN creating.keys ELSE {})
    /\ creating' = [creating EXCEPT !.step = "done"]
    /\ UNCHANGED <<meta, stored, alarm, sock, ids, calls, pins>>

RoomInit ==
    /\ meta = NoRoom
    /\ stored = NoRoom
    /\ alarm = "none"
    /\ sock = [s \in Sockets |-> NoSocket]
    /\ ids = {}
    /\ calls = <<>>
    /\ creating = [step |-> "new", pin |-> NoPin, discoverable |-> FALSE,
                   keys |-> {}]
=============================================================================
