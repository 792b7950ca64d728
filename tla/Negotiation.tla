---------------------------- MODULE Negotiation -----------------------------
(***************************************************************************)
(* How a sender and one receiver get, lose and regain the connection       *)
(* between their pages: SenderSession with its SenderLink, ReceiverSession,*)
(* and the relay between them, under dropped sockets, a network path that  *)
(* breaks, and pages that reload.                                          *)
(*                                                                         *)
(* The room is reduced to what the negotiation sees of it: it forwards at  *)
(* once, tells each page of the other's coming and going, and has only one *)
(* queue per page, from itself to the page; Room and Share model the rest. *)
(* WebRTC is external, and modelled by what the two sessions rely on: the  *)
(* signaling state, the states of ICE, and an open data channel.           *)
(*                                                                         *)
(* Connections are named as the code names them, at random.  Only whether  *)
(* two names are equal matters, so a new connection takes a number that no *)
(* page and no message refers to.                                          *)
(***************************************************************************)
EXTENDS Integers, Sequences, FiniteSets

CONSTANTS
    MAX_ICE_RESTARTS,
    MAX_RESTARTS,
    NoticedBy,     \* the watchdog's attempts by which a broken socket has been
                   \* noticed and replaced
    Faults         \* events of the environment, of whatever kind

FaultKinds ==
    {"drops", "outages", "senderReloads", "receiverReloads", "leaves"}

ASSUME NegotiationAssumption ==
    /\ MAX_ICE_RESTARTS \in Nat
    /\ MAX_RESTARTS \in Nat
    /\ NoticedBy \in Nat
    /\ Faults \in Nat

Pages == {"sender", "receiver"}

Other(p) == IF p = "sender" THEN "receiver" ELSE "sender"

VARIABLES
    sock,     \* each page's socket, as the page and the room see it
    to,       \* the messages under way from the room to each page
    path,     \* whether packets pass between the two devices
    link,     \* the sender's connection to the receiver
    pc,       \* the receiver's connection
    rcv,      \* the rest of the ReceiverSession
    spent

vars == <<sock, to, path, link, pc, rcv, spent>>

Ids == Nat \ {0}

NoLink == [id |-> 0]
NewLink(i) ==
    [id |-> i,
     sig |-> "stable",      \* signalingState
     need |-> TRUE,         \* the data channel calls for negotiation
     remote |-> 0,          \* whose answer is the remote description
     heard |-> {},          \* whose candidates are queued or added
     ice |-> "checking",
     open |-> FALSE,        \* the data channel has opened
     timer |-> "connect",   \* connectTimer, then disconnectTimer
     restarts |-> 0,
     gone |-> FALSE,        \* signallingGone
     view |-> "connecting"]

NoPc == [id |-> 0, link |-> 0, ice |-> "closed"]
NewPc(i, l) ==
    [id |-> i,
     link |-> l,            \* pcLink
     setting |-> TRUE,      \* awaiting setRemoteDescription and the answer
     remote |-> FALSE,      \* there is a remote description
     cand |-> "none",       \* the sender's candidates
     ice |-> "checking",
     dc |-> "none"]

IceStates == {"checking", "connected", "disconnected", "failed"}

Links ==
    [id : Ids, sig : {"stable", "have-local-offer"}, need : BOOLEAN,
     remote : Ids \cup {0}, heard : SUBSET Ids, ice : IceStates,
     open : BOOLEAN, timer : {"connect", "disconnect", "none"},
     restarts : 0 .. MAX_ICE_RESTARTS, gone : BOOLEAN,
     view : {"connecting", "connected", "reconnecting"}]

Pcs ==
    [id : Ids, link : Ids, setting : BOOLEAN, remote : BOOLEAN,
     cand : {"none", "queued", "added"}, ice : IceStates,
     dc : {"none", "open", "closed"}]

Offer(l) == [t |-> "offer", link |-> l]
IceOfLink(l) == [t |-> "ice", link |-> l]
MasterMsg(on) == [t |-> "master", online |-> on]
WelcomePeer(on) == [t |-> "welcome", online |-> on]
Answer(l, i) == [t |-> "answer", link |-> l, pc |-> i]
IceOfPc(i) == [t |-> "ice", pc |-> i]
Restart == [t |-> "restart"]
Join == [t |-> "join"]
Leave == [t |-> "leave"]
WelcomeMaster(peer) == [t |-> "welcome", peer |-> peer]

ToReceiver ==
    [t : {"offer", "ice"}, link : Ids] \cup [t : {"master", "welcome"}, online : BOOLEAN]
ToSender ==
    [t : {"answer"}, link : Ids, pc : Ids] \cup [t : {"ice"}, pc : Ids]
    \cup [t : {"restart", "join", "leave"}] \cup [t : {"welcome"}, peer : BOOLEAN]

SockStates ==
    {"off",      \* no socket, and the room knows
     "joining",  \* authenticated; the page has not read the welcome yet
     "up",
     "dead",     \* broken, and neither side knows
     "late",     \* the page knows, the room does not
     "ghost"}    \* the room knows, the page does not

TypeOK ==
    /\ sock \in [Pages -> SockStates]
    /\ to["sender"] \in Seq(ToSender)
    /\ to["receiver"] \in Seq(ToReceiver)
    /\ path \in BOOLEAN
    /\ link = NoLink \/ link \in Links
    /\ pc = NoPc \/ pc \in Pcs
    /\ rcv \in [status : {"connecting", "waiting", "connected",
                          "reconnecting", "closed", "error"},
                senderOnline : BOOLEAN, restarts : 0 .. MAX_RESTARTS,
                watchdog : BOOLEAN]
    /\ spent \in [FaultKinds -> 0 .. Faults]

NewReceiver ==
    [status |-> "connecting", senderOnline |-> TRUE, restarts |-> 0,
     watchdog |-> FALSE]

\* The sender is in its room; the receiver's page has just loaded.
Init ==
    /\ sock = [sender |-> "up", receiver |-> "off"]
    /\ to = [p \in Pages |-> <<>>]
    /\ path = TRUE
    /\ link = NoLink
    /\ pc = NoPc
    /\ rcv = NewReceiver
    /\ spent = [k \in FaultKinds |-> 0]

Spend(k) ==
    /\ spent["drops"] + spent["outages"] + spent["senderReloads"]
           + spent["receiverReloads"] + spent["leaves"] < Faults
    /\ spent' = [spent EXCEPT ![k] = @ + 1]

-----------------------------------------------------------------------------
(* The relay.                                                              *)

Wired(p) == sock[p] \in {"joining", "up"}

\* The room still holds a socket of the page, working or not.
Present(p) == sock[p] \in {"joining", "up", "dead", "late"}

\* The queues after the room has told page p something.
Told(p, ms) == IF Wired(p) THEN [to EXCEPT ![p] = @ \o ms] ELSE to

\* signal(): forgotten unless the socket is open; lost if it is dead or the
\* other page cannot be reached.
Signalled(p, ms) == IF sock[p] = "up" THEN Told(Other(p), ms) ELSE to

\* The socket breaks; what was under way to the page is lost.
Drop(p) ==
    /\ Wired(p)
    /\ Spend("drops")
    /\ sock' = [sock EXCEPT ![p] = "dead"]
    /\ to' = [to EXCEPT ![p] = <<>>]
    /\ UNCHANGED <<path, link, pc, rcv>>

\* The heartbeat finds out, or the browser says so.
PageNotices(p) ==
    /\ sock[p] \in {"dead", "ghost"}
    /\ sock' = [sock EXCEPT ![p] = IF @ = "dead" THEN "late" ELSE "off"]
    /\ UNCHANGED <<to, path, link, pc, rcv, spent>>

Absence(p) == IF p = "sender" THEN MasterMsg(FALSE) ELSE Leave

RoomNotices(p) ==
    /\ sock[p] \in {"dead", "late"}
    /\ sock' = [sock EXCEPT ![p] = IF @ = "dead" THEN "ghost" ELSE "off"]
    /\ to' = Told(Other(p), <<Absence(p)>>)
    /\ UNCHANGED <<path, link, pc, rcv, spent>>

Ended == rcv.status \in {"closed", "error"}

\* The page authenticates on a new socket, taking over from one the room still
\* holds: no absence is reported then.
Reconnect(p) ==
    /\ sock[p] \in {"late", "off"}
    /\ p = "receiver" => ~Ended
    /\ sock' = [sock EXCEPT ![p] = "joining"]
    /\ to' = IF p = "sender"
             THEN [Told("receiver", <<MasterMsg(TRUE)>>)
                       EXCEPT !["sender"] = <<WelcomeMaster(Present("receiver"))>>]
             ELSE [Told("sender", <<Join>>)
                       EXCEPT !["receiver"] = <<WelcomePeer(Present("sender"))>>]
    /\ UNCHANGED <<path, link, pc, rcv, spent>>

\* A page that closes its socket; the room has yet to hear of it.
Closed(p) ==
    [sock EXCEPT ![p] = CASE @ \in {"joining", "up", "dead", "late"} -> "late"
                          [] @ \in {"ghost", "off"} -> "off"]

-----------------------------------------------------------------------------
(* The connection, as far as the browsers make it.                         *)

\* Both ends describe each other, and packets pass.
Paired ==
    /\ path
    /\ link # NoLink /\ pc # NoPc
    /\ pc.link = link.id
    /\ pc.remote
    /\ link.remote = pc.id

\* One end at least knows an address of the other.
Reachable == Paired /\ (pc.id \in link.heard \/ pc.cand = "added")

SenderConnected == link # NoLink /\ link.ice = "connected" /\ link.open

Healthy == pc # NoPc /\ pc.ice = "connected" /\ pc.dc = "open"

SenderMayOpen == Reachable /\ ~link.open /\ link.ice = "checking"
ReceiverMayOpen == Reachable /\ pc.dc = "none" /\ pc.ice = "checking"

\* A hiccup is over, or an ICE restart has worked.
SenderMayReturn ==
    Paired /\ link.open /\ link.ice \in {"checking", "disconnected"}
ReceiverMayReturn == Paired /\ pc.ice = "disconnected"

\* No packets come any more.
SenderMayLose == link # NoLink /\ link.ice = "connected" /\ ~Paired
ReceiverMayLose == pc # NoPc /\ pc.ice = "connected" /\ ~Paired

\* The other end of the data channel was closed, and says so.
SenderHearsClose ==
    /\ link # NoLink /\ link.open /\ path /\ link.ice # "failed"
    /\ pc.id # link.remote
ReceiverHearsClose ==
    /\ pc # NoPc /\ pc.dc = "open" /\ path /\ pc.ice # "failed"
    /\ link.id # pc.link

OfferPending == link # NoLink /\ link.need /\ link.sig = "stable"
AnswerPending == pc # NoPc /\ pc.setting

Outage ==
    /\ path
    /\ Spend("outages")
    /\ path' = FALSE
    /\ UNCHANGED <<sock, to, link, pc, rcv>>

PathReturns ==
    /\ ~path
    /\ path' = TRUE
    /\ UNCHANGED <<sock, to, link, pc, rcv, spent>>

-----------------------------------------------------------------------------
(* SenderSession and SenderLink.                                           *)

\* A number that is not in S: of 1 .. n + 1 the n members of S cannot take all.
Fresh(S) == CHOOSE i \in 1 .. Cardinality(S) + 1 : i \notin S

SentTo(p) == {to[p][k] : k \in 1 .. Len(to[p])}

LinksNamed ==
    {link.id} \cup (IF pc = NoPc THEN {} ELSE {pc.link})
    \cup {m.link : m \in {x \in SentTo("receiver") : x.t \in {"offer", "ice"}}}
    \cup {m.link : m \in {x \in SentTo("sender") : x.t = "answer"}}

PcsNamed ==
    {pc.id} \cup (IF link = NoLink THEN {} ELSE link.heard \cup {link.remote})
    \cup {m.pc : m \in {x \in SentTo("sender") : x.t \in {"answer", "ice"}}}

\* The old link, if any, is closed first; its row is kept for the new one.
addLink == link' = NewLink(Fresh(LinksNamed))

\* Mutant: a receiver that is back always gets a new connection.
peerRejoined == addLink

\* A receiver (re)connected to signalling.
peerJoined ==
    IF SenderConnected
    THEN link' = [link EXCEPT !.gone = FALSE]
    ELSE addLink

OnSenderWelcome(m) ==
    /\ m.t = "welcome"
    /\ sock' = [sock EXCEPT !["sender"] = "up"]
    /\ IF m.peer THEN peerJoined ELSE UNCHANGED link

OnJoin(m) ==
    /\ m.t = "join"
    /\ peerJoined
    /\ UNCHANGED sock

\* An established connection outlives the receiver's socket.
OnLeave(m) ==
    /\ m.t = "leave"
    /\ link' = IF SenderConnected THEN [link EXCEPT !.gone = TRUE] ELSE NoLink
    /\ UNCHANGED sock

OnRestart(m) ==
    /\ m.t = "restart"
    /\ addLink
    /\ UNCHANGED sock

\* Applied whichever link it answers, if an answer is due at all.  It starts
\* ICE over, and only candidates of the answering connection are of use.
OnAnswer(m) ==
    /\ m.t = "answer"
    /\ link' = IF link = NoLink THEN NoLink
               ELSE IF link.sig # "have-local-offer" THEN link
               ELSE [link EXCEPT !.sig = "stable",
                                 !.remote = m.pc,
                                 !.heard = @ \cap {m.pc},
                                 !.ice = IF @ = "failed" THEN "checking" ELSE @]
    /\ UNCHANGED sock

\* Queued before the answer; after it, of use only if they belong to it.
OnReceiverIce(m) ==
    /\ m.t = "ice"
    /\ link' = IF link # NoLink /\ link.remote \in {0, m.pc}
               THEN [link EXCEPT !.heard = @ \cup {m.pc}]
               ELSE link
    /\ UNCHANGED sock

OnSenderMessage ==
    /\ to["sender"] # <<>>
    /\ to' = [to EXCEPT !["sender"] = Tail(@)]
    /\ LET m == Head(to["sender"])
       IN  \/ OnSenderWelcome(m)
           \/ OnJoin(m)
           \/ OnLeave(m)
           \/ OnRestart(m)
           \/ OnAnswer(m)
           \/ OnReceiverIce(m)
    /\ UNCHANGED <<path, pc, rcv, spent>>

\* negotiationneeded: fired for the data channel and for an ICE restart, only
\* in the stable state.  The candidates follow the offer.
offer ==
    /\ OfferPending
    /\ link' = [link EXCEPT !.need = FALSE, !.sig = "have-local-offer"]
    /\ to' = Signalled("sender", <<Offer(link.id), IceOfLink(link.id)>>)
    /\ UNCHANGED <<sock, path, pc, rcv, spent>>

SenderLinkStep(l) ==
    /\ link' = l
    /\ UNCHANGED <<sock, to, path, pc, rcv, spent>>

\* The data channel opens: the server starts, and the row says so.
onOpen(l) == [l EXCEPT !.open = TRUE, !.view = "connected"]

\* connectionState "connected", and the data channel opens.
SenderOpens ==
    /\ SenderMayOpen
    /\ SenderLinkStep(onOpen([link EXCEPT !.ice = "connected", !.timer = "none",
                                          !.restarts = 0]))

\* Timers, server, channel and connection all end; the row stays a while.
close == SenderLinkStep(NoLink)

SenderIceReturns ==
    /\ SenderMayReturn
    /\ SenderLinkStep([link EXCEPT !.ice = "connected", !.timer = "none",
                                   !.restarts = 0,
                                   !.view = IF @ = "reconnecting"
                                            THEN "connected" ELSE @])

SenderIceDisconnects ==
    /\ SenderMayLose
    /\ SenderLinkStep([link EXCEPT !.ice = "disconnected",
                                   !.timer = "disconnect"])

\* Mutant: a link whose receiver has left is neither restarted nor closed.
restartIceUnlessGone(l) ==
    IF l.gone \/ l.restarts >= MAX_ICE_RESTARTS THEN l
    ELSE [l EXCEPT !.restarts = @ + 1, !.view = "reconnecting", !.need = TRUE]

\* close() if there is no more to try and ICE has failed for good.
restartIce(l) ==
    IF l.gone \/ l.restarts >= MAX_ICE_RESTARTS
    THEN IF l.ice = "failed" THEN NoLink ELSE l
    ELSE [l EXCEPT !.restarts = @ + 1, !.view = "reconnecting", !.need = TRUE]

SenderChannelCloses == SenderHearsClose /\ close

\* A new SenderSession for the same room; the old page's socket closes.
SenderReloads ==
    /\ Spend("senderReloads")
    /\ link' = NoLink
    /\ sock' = Closed("sender")
    /\ to' = [to EXCEPT !["sender"] = <<>>]
    /\ UNCHANGED <<path, pc, rcv>>

-----------------------------------------------------------------------------
(* ReceiverSession.                                                        *)

\* The socket is open as far as the page knows.
SignalOpen == sock["receiver"] \in {"up", "dead", "ghost"}

\* finish(): the connection and the socket are closed for good.
finish(r, status) ==
    /\ rcv' = [r EXCEPT !.status = status, !.watchdog = FALSE]
    /\ pc' = NoPc
    /\ sock' = Closed("receiver")
    /\ to' = [to EXCEPT !["receiver"] = <<>>]

\* Mutant: one attempt too many.
requestRestartOnceMore(r, c, q) ==
    \/ /\ r.restarts > MAX_RESTARTS
       /\ finish(r, "error")
    \/ /\ r.restarts <= MAX_RESTARTS
       /\ rcv' = [r EXCEPT !.restarts = @ + 1, !.watchdog = TRUE]
       /\ pc' = c
       /\ to' = [Signalled("receiver", <<Restart>>) EXCEPT !["receiver"] = q]
       /\ UNCHANGED sock

\* Mutant: attempts used up end without a word.
requestRestartSilently(r, c, q) ==
    \/ /\ r.restarts >= MAX_RESTARTS
       /\ rcv' = [r EXCEPT !.watchdog = FALSE]
       /\ pc' = c
       /\ to' = [to EXCEPT !["receiver"] = q]
       /\ UNCHANGED sock
    \/ /\ r.restarts < MAX_RESTARTS
       /\ rcv' = [r EXCEPT !.restarts = @ + 1, !.watchdog = TRUE]
       /\ pc' = c
       /\ to' = [Signalled("receiver", <<Restart>>) EXCEPT !["receiver"] = q]
       /\ UNCHANGED sock

\* requestRestart(), then armWatchdog() as every caller does; c is the
\* connection as its caller leaves it, q the queue it has read from.  The
\* attempt counts even if the request goes nowhere.
requestRestart(r, c, q) ==
    \/ /\ r.restarts >= MAX_RESTARTS
       /\ finish(r, "error")
    \/ /\ r.restarts < MAX_RESTARTS
       /\ rcv' = [r EXCEPT !.restarts = @ + 1, !.watchdog = TRUE]
       /\ pc' = c
       /\ to' = [Signalled("receiver", <<Restart>>) EXCEPT !["receiver"] = q]
       /\ UNCHANGED sock

\* While the sender is away no attempt is spent.
onConnectionLost(r, c) ==
    \/ /\ r.senderOnline
       /\ requestRestart([r EXCEPT !.status = "reconnecting"], c, to["receiver"])
    \/ /\ ~r.senderOnline
       /\ rcv' = [r EXCEPT !.status = "reconnecting", !.watchdog = TRUE]
       /\ pc' = c
       /\ UNCHANGED <<sock, to>>

\* Mutant: a receiver that is back waits, connected or not.
OnReceiverWelcomeWaits(m, q) ==
    /\ m.t = "welcome"
    /\ sock' = [sock EXCEPT !["receiver"] = "up"]
    /\ rcv' = [rcv EXCEPT !.senderOnline = m.online,
                          !.status = "waiting", !.watchdog = TRUE]
    /\ to' = [to EXCEPT !["receiver"] = q]
    /\ UNCHANGED pc

OnReceiverWelcome(m, q) ==
    /\ m.t = "welcome"
    /\ sock' = [sock EXCEPT !["receiver"] = "up"]
    /\ rcv' = IF Healthy
              THEN [rcv EXCEPT !.senderOnline = m.online]
              ELSE [rcv EXCEPT !.senderOnline = m.online,
                               !.status = "waiting", !.watchdog = TRUE]
    /\ to' = [to EXCEPT !["receiver"] = q]
    /\ UNCHANGED pc

\* The sender is back: ask again, with a fresh budget, if there is a
\* connection and it has died meanwhile.
OnMaster(m, q) ==
    /\ m.t = "master"
    /\ LET r == [rcv EXCEPT !.senderOnline = m.online]
           ask == m.online /\ ~Healthy /\ pc # NoPc
       IN  \/ /\ ask
              /\ requestRestart([r EXCEPT !.restarts = 0], pc, q)
           \/ /\ ~ask
              /\ rcv' = r
              /\ to' = [to EXCEPT !["receiver"] = q]
              /\ UNCHANGED <<pc, sock>>

\* Mutant: whose offer it is is not looked at.
OnOfferAnyLink(m, q) ==
    /\ m.t = "offer"
    /\ LET fresh == pc = NoPc \/ pc.ice \in {"failed", "closed"}
       IN  \/ /\ fresh
              /\ pc' = NewPc(Fresh(PcsNamed), m.link)
           \/ /\ ~fresh /\ ~pc.setting
              /\ pc' = [pc EXCEPT !.setting = TRUE]
    /\ to' = [to EXCEPT !["receiver"] = q]
    /\ UNCHANGED <<rcv, sock>>

\* Another link, or the same one after a failure, needs a new connection; the
\* same link is an ICE restart of this one.
OnOffer(m, q) ==
    /\ m.t = "offer"
    /\ LET fresh == pc.link # m.link \/ pc.ice \in {"failed", "closed"}
       IN  \/ /\ fresh
              /\ pc' = NewPc(Fresh(PcsNamed), m.link)
           \/ /\ ~fresh /\ ~pc.setting
              /\ pc' = [pc EXCEPT !.setting = TRUE]
    /\ to' = [to EXCEPT !["receiver"] = q]
    /\ UNCHANGED <<rcv, sock>>

\* Of another link: ignored.  Before the offer is set: queued.
OnSenderIce(m, q) ==
    /\ m.t = "ice"
    /\ pc' = IF pc # NoPc /\ pc.link = m.link
             THEN [pc EXCEPT !.cand = IF pc.remote THEN "added" ELSE "queued"]
             ELSE pc
    /\ to' = [to EXCEPT !["receiver"] = q]
    /\ UNCHANGED <<rcv, sock>>

OnReceiverMessage ==
    /\ to["receiver"] # <<>>
    /\ LET m == Head(to["receiver"])
           q == Tail(to["receiver"])
       IN  \/ OnReceiverWelcome(m, q)
           \/ OnMaster(m, q)
           \/ OnOffer(m, q)
           \/ OnSenderIce(m, q)
    /\ UNCHANGED <<path, link, spent>>

\* The offer is set, queued candidates are flushed, and the answer goes out.
answer ==
    /\ AnswerPending
    /\ pc' = [pc EXCEPT !.setting = FALSE, !.remote = TRUE,
                        !.cand = IF @ = "queued" THEN "added" ELSE @]
    /\ to' = Signalled("receiver", <<Answer(pc.link, pc.id), IceOfPc(pc.id)>>)
    /\ UNCHANGED <<sock, path, link, rcv, spent>>

ReceiverOpens ==
    /\ ReceiverMayOpen
    /\ pc' = [pc EXCEPT !.ice = "connected", !.dc = "open"]
    /\ rcv' = [rcv EXCEPT !.restarts = 0, !.watchdog = FALSE,
                          !.status = "connected"]
    /\ UNCHANGED <<sock, to, path, link, spent>>

ReceiverIceReturns ==
    /\ ReceiverMayReturn
    /\ pc' = [pc EXCEPT !.ice = "connected"]
    /\ rcv' = [rcv EXCEPT !.status = IF pc.dc = "open" THEN "connected" ELSE @]
    /\ UNCHANGED <<sock, to, path, link, spent>>

ReceiverIceDisconnects ==
    /\ ReceiverMayLose
    /\ pc' = [pc EXCEPT !.ice = "disconnected"]
    /\ rcv' = [rcv EXCEPT !.status = "reconnecting"]
    /\ UNCHANGED <<sock, to, path, link, spent>>

ReceiverChannelCloses ==
    /\ ReceiverHearsClose
    /\ onConnectionLost(rcv, [pc EXCEPT !.dc = "closed"])
    /\ UNCHANGED <<path, link, spent>>

ReceiverReloads ==
    /\ ~Ended
    /\ Spend("receiverReloads")
    /\ pc' = NoPc
    /\ rcv' = NewReceiver
    /\ sock' = Closed("receiver")
    /\ to' = [to EXCEPT !["receiver"] = <<>>]
    /\ UNCHANGED <<path, link>>

leave ==
    /\ ~Ended
    /\ Spend("leaves")
    /\ finish(rcv, "closed")
    /\ UNCHANGED <<path, link>>


-----------------------------------------------------------------------------

\* What pages and browsers do by themselves, within milliseconds.
Progress ==
    \/ OnSenderMessage
    \/ OnReceiverMessage
    \/ offer
    \/ answer
    \/ SenderOpens
    \/ SenderIceReturns
    \/ SenderIceDisconnects
    \/ SenderChannelCloses
    \/ ReceiverOpens
    \/ ReceiverIceReturns
    \/ ReceiverIceDisconnects
    \/ ReceiverChannelCloses

-----------------------------------------------------------------------------
(* Timers, and the browser's patience with addresses that do not answer.   *)

\* They take seconds, and run out only after everything that takes
\* milliseconds has happened: no action of Progress has its guard.  What takes
\* longer, such as noticing a broken socket or a way around an outage, they may
\* overtake.
TimersRun ==
    /\ \A p \in Pages : to[p] = <<>>
    /\ ~OfferPending /\ ~AnswerPending
    /\ ~SenderMayOpen /\ ~SenderMayReturn /\ ~SenderMayLose /\ ~SenderHearsClose
    /\ ~ReceiverMayOpen /\ ~ReceiverMayReturn /\ ~ReceiverMayLose
    /\ ~ReceiverHearsClose

DisconnectTimeout ==
    /\ link # NoLink /\ link.timer = "disconnect" /\ TimersRun
    /\ SenderLinkStep(restartIce([link EXCEPT !.timer = "none"]))

\* ICE gives up on addresses that do not answer.
SenderIceFails ==
    /\ link # NoLink /\ ~Paired /\ TimersRun
    /\ \/ link.ice = "disconnected"
       \/ link.ice = "checking" /\ link.remote # 0 /\ link.heard # {}
    /\ SenderLinkStep(restartIce([link EXCEPT
           !.ice = "failed",
           !.timer = IF @ = "disconnect" THEN "none" ELSE @]))

ConnectTimeout ==
    /\ link # NoLink /\ link.timer = "connect" /\ TimersRun
    /\ close

ReceiverIceFails ==
    /\ pc # NoPc /\ ~Paired /\ TimersRun
    /\ \/ pc.ice = "disconnected"
       \/ pc.ice = "checking" /\ pc.cand = "added"
    /\ onConnectionLost(rcv, [pc EXCEPT !.ice = "failed"])
    /\ UNCHANGED <<path, link, spent>>

\* Rearmed until the connection is healthy, but it asks only if it can.  Its
\* period grows from 15 s with every attempt: before the fourth (NoticedBy) the
\* heartbeat, and ICE, have noticed what is broken.
Watchdog ==
    /\ rcv.watchdog /\ TimersRun
    /\ rcv.restarts >= NoticedBy =>
           (\A p \in Pages : Wired(p)) /\ pc.ice # "disconnected"
    /\ \/ /\ Healthy
          /\ rcv' = [rcv EXCEPT !.watchdog = FALSE]
          /\ UNCHANGED <<pc, to, sock>>
       \/ /\ ~Healthy /\ rcv.senderOnline /\ SignalOpen
          /\ requestRestart(rcv, pc, to["receiver"])
    /\ UNCHANGED <<path, link, spent>>

SenderTimer == DisconnectTimeout \/ SenderIceFails \/ ConnectTimeout
ReceiverTimer == ReceiverIceFails \/ Watchdog

-----------------------------------------------------------------------------

Environment ==
    \/ \E p \in Pages : Drop(p)
    \/ Outage
    \/ SenderReloads
    \/ ReceiverReloads
    \/ leave

\* What happens by itself: messages are delivered, timers run out, broken
\* sockets are noticed and replaced, and the network comes back.
System ==
    \/ Progress
    \/ SenderTimer
    \/ ReceiverTimer
    \/ \E p \in Pages : PageNotices(p) \/ RoomNotices(p) \/ Reconnect(p)
    \/ PathReturns

Next == System \/ Environment

Spec == Init /\ [][Next]_vars

\* It goes on for as long as there is something to do, in whatever order: no
\* part of it needs a fairness of its own.
FairSpec == Spec /\ WF_vars(System)

-----------------------------------------------------------------------------
(* Properties.                                                             *)

\* Whatever happened, the two pages end up connected, or the receiver's
\* session is over: a watchdog, a restart or a new link gets every half-open
\* connection going again.
Recovers == <>[](Healthy \/ Ended)

\* A receiver gives up (requestRestart's "error") only if the network was out
\* or it was interrupted twice: no single dropped socket and no single reload
\* can use up the budget of attempts.
OneFaultIsSurvived ==
    rcv.status = "error" =>
        \/ spent["outages"] > 0
        \/ spent["drops"] + spent["senderReloads"] + spent["receiverReloads"] > 1

\* In the end both pages show the connection a receiver has: the sender's row
\* and the receiver's status say "connected", and the receiver knows that the
\* sender is online.  Each is set by events of its own, of the socket, of ICE
\* and of the data channel, which come in any order.
BothShowIt ==
    <>[](Healthy =>
            /\ SenderConnected /\ link.id = pc.link
            /\ link.view = "connected"
            /\ rcv.status = "connected" /\ rcv.senderOnline)

\* A link kept although its receiver has left the room is taken up again or
\* given up (restartIce, close): it is not shown as connected for ever.
GoneIsSettled ==
    (link # NoLink /\ link.gone) ~> (link = NoLink \/ ~link.gone)

\* Both ends are connected, and neither an offer nor a request for a new
\* connection is due or under way.
Settled ==
    /\ Paired /\ SenderConnected /\ Healthy /\ ~link.need
    /\ Restart \notin SentTo("sender")
    /\ \A m \in SentTo("receiver") : m.t # "offer"

\* "Keep established connections": from then on sockets may drop, be noticed
\* late on one side or the other, and be replaced, without the connection
\* ending or being negotiated again.
DropsDoNotDisturb ==
    [][/\ Settled
       /\ \A k \in FaultKinds \ {"drops"} : spent'[k] = spent[k]
       => Settled']_vars
=============================================================================
