------------------------------- MODULE Share -------------------------------
(***************************************************************************)
(* A share's room and directory with the pages that use it: the sender's,  *)
(* its receivers' and watchers of its network.  A page talks to the room   *)
(* through a SignalSocket (src/lib/signal.ts) that reconnects by itself;   *)
(* of the sessions behind it (src/lib/sender.ts, src/lib/receiver.ts) only *)
(* what they learn from the room is kept here.                             *)
(*                                                                         *)
(* spent counts what the users, the network and other shares have done,    *)
(* and Limit says how often each may happen.                               *)
(***************************************************************************)
EXTENDS Room

CONSTANTS
    Sender,
    Receivers,
    Networks,   \* the key sets a page may be matched on
    NoWs,       \* stands for no websocket
    Limit

Pages == {Sender} \cup Receivers

Budget == {"connects", "hurries", "drops", "signals", "reloads", "others",
           "leaves", "earlyLosses", "twins"}

ASSUME ShareAssumption ==
    /\ Sender \notin Receivers
    /\ NoWs \notin Sockets
    /\ Networks \subseteq SUBSET Keys
    /\ Limit \in [Budget -> Nat]

VARIABLES
    ws,       \* a page's websocket
    status,   \* SignalStatus; "ending" is the websocket of endShare()
    opened,   \* the pages whose SignalSocket has been open before
    peerId,   \* the id a receiver was given
    online,   \* whether a receiver's page shows the sender as online
    told,     \* the receivers the sender has been told are there
    shown,    \* the PIN the sender's page shows
    spent

pageVars == <<ws, status, opened, peerId, online, told, shown>>
vars == <<directoryVars, roomVars, pageVars, spent>>

Status == {"off", "connecting", "open", "reconnecting", "failed", "closed",
           "ending"}

Stopped(c) == status[c] \in {"off", "failed", "closed"}

ShareTypeOK ==
    /\ ws \in [Pages -> Sockets \cup {NoWs}]
    /\ status \in [Pages -> Status]
    /\ opened \in SUBSET Pages
    /\ peerId \in [Receivers -> Ids \cup {NoId}]
    /\ online \in [Receivers -> BOOLEAN]
    /\ told \in SUBSET Ids
    /\ shown \in Pins \cup {NoPin}
    /\ spent \in [Budget -> Nat]

TypeOK == DirectoryTypeOK /\ RoomTypeOK /\ ShareTypeOK

Init ==
    /\ RoomInit
    /\ pins = [p \in Pins |-> "free"]
    /\ listedUnder = {}
    /\ net = {}
    /\ watching = [w \in Watchers |-> {}]
    /\ nearby = [w \in Watchers |-> FALSE]
    /\ ws = [c \in Pages |-> NoWs]
    /\ status = [c \in Pages |-> "off"]
    /\ opened = {}
    /\ peerId = [c \in Receivers |-> NoId]
    /\ online = [c \in Receivers |-> TRUE]
    /\ told = {}
    /\ shown = NoPin
    /\ spent = [b \in Budget |-> 0]

Spend(b) ==
    /\ spent[b] < Limit[b]
    /\ spent' = [spent EXCEPT ![b] = @ + 1]

\* Something that counts against b only if it is of the kind P.
SpendIf(P, b) == IF P THEN Spend(b) ELSE UNCHANGED spent

-----------------------------------------------------------------------------
(* SignalSocket. *)

\* A websocket closed by its page at the end of what it has sent.
HungUp(sk, s) ==
    IF s = NoWs THEN sk
    ELSE [sk EXCEPT ![s] =
             IF @.server = "gone" THEN NoSocket
             ELSE [@ EXCEPT !.client = FALSE, !.toClient = <<>>,
                            !.welcome = NoWelcome,
                            !.toServer = IF sk[s].up
                                         THEN Append(sk[s].toServer, Bye)
                                         ELSE sk[s].toServer]]

Unused(s) ==
    /\ sock[s] = NoSocket
    /\ \A i \in DOMAIN calls :
          calls[i].op \in {"claimPin", "announce"} => calls[i].socket # s

\* What a page authenticates with.  endShare() restores nothing.
Auth(c, keys) ==
    IF c = Sender
    THEN AuthMaster(status[c] # "ending", shown, creating.discoverable, keys)
    ELSE AuthPeer(peerId[c])

\* connect(): a new websocket opens and authenticates.
Connect(c) ==
    /\ status[c] \in {"connecting", "reconnecting", "ending"}
    /\ ws[c] = NoWs
    /\ Spend("connects")
    /\ \E s \in Sockets, keys \in Networks :
          /\ Unused(s) /\ \A q \in Sockets : Unused(q) => s <= q
          /\ ws' = [ws EXCEPT ![c] = s]
          /\ sock' = [sock EXCEPT ![s] = Accepted(Auth(c, keys))]
    /\ UNCHANGED <<directoryVars, meta, stored, alarm, ids, calls, creating,
                   status, opened, peerId, online, told, shown>>

\* reconnectNow(), with the websocket of an attempt under way.
Hurry(c) ==
    /\ status[c] \in {"connecting", "reconnecting"} /\ ws[c] # NoWs
    /\ Spend("hurries")
    /\ sock' = HungUp(sock, ws[c])
    /\ ws' = [ws EXCEPT ![c] = NoWs]
    /\ UNCHANGED <<directoryVars, meta, stored, alarm, ids, calls, creating,
                   status, opened, peerId, online, told, shown>>

\* scheduleReconnect(), or the end of endShare().
Lost(c) ==
    /\ ws' = [ws EXCEPT ![c] = NoWs]
    /\ status' = [status EXCEPT ![c] = IF @ = "ending" THEN "closed"
                                       ELSE "reconnecting"]

\* The websocket is down, and its page notices: onclose, or no heartbeat.
NoticeLoss(c) ==
    /\ ws[c] # NoWs /\ ~sock[ws[c]].up
    /\ Lost(c)
    /\ sock' = HungUp(sock, ws[c])
    /\ UNCHANGED <<directoryVars, meta, stored, alarm, ids, calls, creating,
                   opened, peerId, online, told, shown, spent>>

\* close() or a fatal error: nothing more is sent or received.
Stop(c, st, sk) ==
    /\ sock' = HungUp(sk, ws[c])
    /\ ws' = [ws EXCEPT ![c] = NoWs]
    /\ status' = [status EXCEPT ![c] = st]

Popped(s) == [sock EXCEPT ![s].toClient = Tail(@)]

\* What is sent on c's websocket while it works.
Sent(sk, c, m) ==
    IF sk[ws[c]].up /\ sk[ws[c]].server # "gone"
    THEN [sk EXCEPT ![ws[c]].toServer = Append(@, m)]
    ELSE sk

\* Mutant: the sender's page goes on showing the PIN it had.
OnWelcomeSamePin(c, m) ==
    /\ UNCHANGED <<ws, shown>>
    /\ status' = [status EXCEPT ![c] = IF @ = "ending" THEN @ ELSE "open"]
    /\ sock' = IF status[c] = "ending" THEN Sent(Popped(ws[c]), c, Close)
               ELSE Popped(ws[c])
    /\ opened' = IF status[c] = "ending" THEN opened ELSE opened \cup {c}
    /\ told' = IF c = Sender /\ status[c] # "ending" THEN told \cup m.peers
               ELSE told
    /\ peerId' = IF c = Sender THEN peerId ELSE [peerId EXCEPT ![c] = m.peer]
    /\ online' = IF c = Sender THEN online
                 ELSE [online EXCEPT ![c] = m.online]

\* handle(), "welcome".
OnWelcome(c, m) ==
    /\ UNCHANGED ws
    /\ IF status[c] = "ending" THEN
           /\ sock' = Sent(Popped(ws[c]), c, Close)
           /\ UNCHANGED <<status, opened, peerId, online, told, shown>>
       ELSE
           /\ sock' = Popped(ws[c])
           /\ status' = [status EXCEPT ![c] = "open"]
           /\ opened' = opened \cup {c}
           /\ IF c = Sender
              THEN /\ told' = told \cup m.peers
                   /\ shown' = m.pin
                   /\ UNCHANGED <<peerId, online>>
              ELSE /\ peerId' = [peerId EXCEPT ![c] = m.peer]
                   /\ online' = [online EXCEPT ![c] = m.online]
                   /\ UNCHANGED <<told, shown>>

\* Errors end a session that cannot go on.  Receivers retry when the room is
\* not found, for as long as the sender may need to restore it.
OnError(c, m) ==
    LET fatal == m.code \in {"room_full", "bad_request"}
                 \/ (m.code = "room_not_found" /\ c \notin opened)
    IN  /\ UNCHANGED <<opened, peerId, online, told, shown>>
        /\ \/ /\ status[c] # "ending"
              /\ fatal \/ m.code = "room_not_found"
              /\ Stop(c, "failed", Popped(ws[c]))
           \/ /\ status[c] # "ending" /\ ~fatal
              /\ sock' = Popped(ws[c])
              /\ UNCHANGED <<ws, status>>
           \/ /\ status[c] = "ending"
              /\ Stop(c, "closed", Popped(ws[c]))

\* What a page listens for.
heeded(c) == IF c = Sender THEN {"join", "leave"} ELSE {"master"}

\* The sender keeps the link to a receiver that is still connected to it.
OnPresence(c, m) ==
    /\ sock' = Popped(ws[c])
    /\ UNCHANGED <<ws, status, opened, peerId, shown>>
    /\ IF status[c] = "ending" \/ m.t \notin heeded(c)
       THEN UNCHANGED <<online, told>>
       ELSE \/ /\ m.t = "join"
               /\ told' = told \cup {m.peer}
               /\ UNCHANGED online
            \/ /\ m.t = "leave"
               /\ told' = told \ {m.peer}
               /\ UNCHANGED online
            \/ /\ m.t = "master"
               /\ online' = [online EXCEPT ![c] = m.online]
               /\ UNCHANGED told

\* handle(), and the websocket's own onclose.
OnMessage(c) ==
    /\ ws[c] # NoWs /\ sock[ws[c]].toClient # <<>>
    /\ LET m == Head(sock[ws[c]].toClient)
       IN  \/ m.t = "welcome" /\ OnWelcome(c, m)
           \/ m.t \in {"join", "leave", "master", "signal"} /\ OnPresence(c, m)
           \/ m.t = "error" /\ OnError(c, m)
           \/ /\ m.t = "closed"
              /\ Stop(c, "closed", Popped(ws[c]))
              /\ UNCHANGED <<opened, peerId, online, told, shown>>
           \/ /\ m.t = "bye"
              /\ Lost(c)
              /\ sock' = HungUp(Popped(ws[c]), ws[c])
              /\ UNCHANGED <<opened, peerId, online, told, shown>>
    /\ UNCHANGED <<directoryVars, meta, stored, alarm, ids, calls, creating,
                   spent>>

-----------------------------------------------------------------------------
(* The users. *)

\* A new SenderSession shows the PIN it was created with, and connects.
SenderSession(created) ==
    /\ status' = [status EXCEPT ![Sender] = "connecting"]
    /\ shown' = created.pin

\* start(), once the room is created.
SenderStarts ==
    /\ creating.step = "done" /\ shown = NoPin
    /\ SenderSession(creating)
    /\ UNCHANGED <<directoryVars, roomVars, ws, opened, peerId, online, told>>

\* A receiver opens the link.
ReceiverOpens(c) ==
    /\ shown # NoPin /\ status[c] = "off"
    /\ status' = [status EXCEPT ![c] = "connecting"]
    /\ UNCHANGED <<directoryVars, roomVars, ws, opened, peerId, online, told,
                   shown>>

\* end(): the room is only told while the socket is open.  Or endShare() gives
\* up.
SenderEnds ==
    /\ ~Stopped(Sender)
    /\ Stop(Sender, "closed", IF status[Sender] = "open"
                              THEN Sent(sock, Sender, Close) ELSE sock)
    /\ UNCHANGED <<directoryVars, meta, stored, alarm, ids, calls, creating,
                   opened, peerId, online, told, shown>>

ReceiverLeaves(c) ==
    /\ ~Stopped(c)
    /\ Stop(c, "closed", sock)
    /\ UNCHANGED <<directoryVars, meta, stored, alarm, ids, calls, creating,
                   opened, peerId, online, told, shown>>

\* What saveShare() kept when the room was created.
savedShare == creating

\* A websocket of its own, for as long as it takes to say "close".
endShare == Stop(Sender, "ending", sock)

\* The sender's page reloads, and goes back to the share it has saved.  Its
\* user adds the files again, or ends the share.
SenderReloads ==
    /\ ~Stopped(Sender) /\ status[Sender] # "ending"
    /\ Stop(Sender, "connecting", sock) \/ endShare
    /\ opened' = opened \ {Sender}
    /\ told' = {}
    /\ shown' = savedShare.pin
    /\ UNCHANGED <<directoryVars, meta, stored, alarm, ids, calls, creating,
                   peerId, online>>

SendSignal(c) ==
    /\ status[c] = "open"
    /\ \E i \in IF c = Sender THEN told ELSE {NoId} :
          sock' = Sent(sock, c, Signal(i))
    /\ UNCHANGED <<directoryVars, meta, stored, alarm, ids, calls, creating,
                   pageVars>>

-----------------------------------------------------------------------------
(* The network. *)

\* The link of a websocket goes down, with everything on it.
Drop(s) ==
    /\ sock[s].server # "gone" /\ sock[s].client /\ sock[s].up
    /\ sock' = [sock EXCEPT ![s].up = FALSE, ![s].toServer = <<>>,
                            ![s].toClient = <<>>]
    /\ UNCHANGED <<directoryVars, meta, stored, alarm, ids, calls, creating,
                   pageVars>>

\* restore() waits for the directory on behalf of s.
Restoring(s) ==
    \E i \in DOMAIN calls :
        calls[i].op \in {"claimPin", "announce"} /\ calls[i].socket = s

\* What a step of the room counts against: the socket of a restore that goes
\* before the restore is done, or two restores at once.
Mishap(s) ==
    IF Restoring(s) THEN Spend("earlyLosses")
    ELSE SpendIf((\E q \in Sockets : Restoring(q)) /\ Restoring(s)', "twins")

-----------------------------------------------------------------------------

RoomStep ==
    \/ \E s \in Sockets :
          /\ SocketLost(s) \/ OnSocketEvent(s)
          /\ Mishap(s)
    \/ \E s \in Sockets : CredentialsArrive(s) /\ UNCHANGED spent
    \/ DirectoryAnswers /\ UNCHANGED spent
    \/ AlarmRings /\ UNCHANGED spent
    \/ Hibernate /\ UNCHANGED spent

CreateStep ==
    \/ \E d \in BOOLEAN, keys \in Networks : CreateClaims(d, keys)
    \/ CreateInits
    \/ CreateAnnounces

WatcherStep ==
    \/ \E w \in Watchers, keys \in Networks : Watch(w, keys)
    \/ \E w \in Watchers : Unwatch(w)

Next ==
    \/ RoomStep /\ UNCHANGED pageVars
    \/ CreateStep /\ UNCHANGED <<pageVars, spent>>
    \/ WatcherStep /\ UNCHANGED <<roomVars, pageVars, spent>>
    \/ Spend("others") /\ OtherShareClaims /\ UNCHANGED <<roomVars, pageVars>>
    \/ \E c \in Pages : Connect(c) \/ Hurry(c) \/ NoticeLoss(c) \/ OnMessage(c)
    \/ SenderStarts /\ UNCHANGED spent
    \/ \E c \in Receivers : ReceiverOpens(c) /\ UNCHANGED spent
    \/ SenderEnds /\ UNCHANGED spent
    \/ \E c \in Receivers : Spend("leaves") /\ ReceiverLeaves(c)
    \/ Spend("reloads") /\ SenderReloads
    \/ \E c \in Pages : Spend("signals") /\ SendSignal(c)
    \/ \E s \in Sockets : Spend("drops") /\ Drop(s)

Spec == Init /\ [][Next]_vars

-----------------------------------------------------------------------------
(* Safety. *)

\* No handler of the room is suspended.
Idle == calls = <<>> /\ creating.step \in {"new", "done"}

\* A sender that reconnects takes over from its stale socket, and so does a
\* receiver: no two sockets in use claim to be the same page.
OneSocketEach ==
    \A s, q \in Sockets :
        /\ sock[s].server = "open" /\ sock[q].server = "open"
        /\ sock[s].role = sock[q].role /\ sock[s].role # "none"
        /\ sock[s].peer = sock[q].peer
        => s = q

\* A sender whose socket has settled knows every receiver that waits in the
\* room, whatever joins, leaves, reconnects and welcomes crossed on the way.
SenderKnows ==
    LET s == ws[Sender]
    IN  /\ status[Sender] = "open"
        /\ sock[s].up /\ sock[s].server = "open" /\ sock[s].toClient = <<>>
        => \A p \in Peers(sock) : sock[p].server = "open" => sock[p].peer \in told

\* The PIN on a settled sender's page leads to its room.
PinShown ==
    LET s == ws[Sender]
    IN  /\ status[Sender] = "open" /\ meta.open
        /\ sock[s].up /\ sock[s].server = "open" /\ sock[s].toClient = <<>>
        => shown = meta.pin /\ lookup(shown) = "ours"

\* A closed room leaves nothing behind: no PIN leads to it, and it is listed
\* nowhere.
NothingLeftBehind ==
    Idle /\ ~meta.open =>
        /\ \A p \in Pins : pins[p] # "ours"
        /\ net = {} /\ listedUnder = {}
        /\ \A w \in Watchers : watching[w] # {} => ~nearby[w]

\* A share closes when its sender has been away for the grace period: whenever
\* no sender is connected, the alarm is set for the end of that period, and
\* will find that the sender was gone.
GraceHolds ==
    Idle /\ meta.open /\ Masters(sock) = {} =>
        /\ alarm = "grace"
        /\ meta.masterSeen => meta.masterGone

\* A receiver whose socket has settled shows the sender as online exactly while
\* the room has it.
OnlineIsTrue ==
    \A c \in Receivers :
        LET s == ws[c]
        IN  /\ status[c] = "open" /\ meta.open
            /\ sock[s].up /\ sock[s].server = "open" /\ sock[s].toClient = <<>>
            => online[c] = (Masters(sock) # {})

-----------------------------------------------------------------------------
(* Liveness. *)

\* The runtime delivers events, answers calls, rings alarms, and finds out in
\* the end that a link is down.  Nothing is assumed of the users.
Fairness ==
    /\ \A s \in Sockets :
          /\ WF_vars(SocketLost(s) /\ UNCHANGED <<pageVars, spent>>)
          /\ WF_vars(OnSocketEvent(s) /\ UNCHANGED <<pageVars, spent>>)
          /\ WF_vars(CredentialsArrive(s) /\ UNCHANGED <<pageVars, spent>>)
    /\ WF_vars(DirectoryAnswers /\ UNCHANGED <<pageVars, spent>>)
    /\ WF_vars(AlarmRings /\ UNCHANGED <<pageVars, spent>>)

FairSpec == Spec /\ Fairness

\* A share whose sender has ended it is closed in the end, and stays closed.
ShareEnds ==
    (status[Sender] = "closed") ~> [](~meta.open)
=============================================================================
