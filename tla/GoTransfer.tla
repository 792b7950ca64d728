----------------------------- MODULE GoTransfer -----------------------------
(***************************************************************************)
(* The command-line program at both ends of a transfer: a Server for every *)
(* channel and one Client, over channels that break and are replaced.      *)
(*                                                                         *)
(* A server that was closed winds down on its own.  It shares nothing with *)
(* the next one but the cache of finished hashes, so the next channel is   *)
(* taken to open once that is over.                                        *)
(***************************************************************************)
EXTENDS GoServer, GoClient

CONSTANTS
    MaxChannels,   \* how many channels may be opened
    MaxFaults,     \* how many operations on disks may fail
    LeaveBy        \* the last channel on which the receiver may leave

ASSUME GoEnvironmentAssumption ==
    {MaxChannels, MaxFaults, LeaveBy} \subseteq Nat

VARIABLE faults

vars == <<channelVars, goServerVars, goClientVars, faults>>

Init ==
    /\ sOpen = FALSE
    /\ cOpen = FALSE
    /\ toClient = <<>>
    /\ toServer = <<>>
    /\ srv = NewServer
    /\ loop = NoLoop
    /\ calls = {}
    /\ buffered = 0
    /\ items = FALSE
    /\ states = [f \in Files |-> "idle"]
    /\ queue = <<>>
    /\ active = NoDownload
    /\ part = {}
    /\ saved = {}
    /\ channel = 0
    /\ old = <<>>
    /\ wanted = <<>>
    /\ caller = 0
    /\ ended = FALSE
    /\ cancelling = <<>>
    /\ faults = 0

-----------------------------------------------------------------------------

\* n operations fail in the step.
Failing(n) == faults + n <= MaxFaults /\ faults' = faults + n

\* How many sinks in a row may fail to open.
Fails == 0 .. MaxFaults

Connect ==
    /\ ~sOpen /\ calls = {} /\ loop = NoLoop
    /\ channel < MaxChannels /\ ~ended
    /\ Attach
    /\ sOpen' = TRUE
    /\ cOpen' = TRUE
    /\ toClient' = <<Hello>>
    /\ toServer' = <<>>
    /\ srv' = NewServer
    /\ buffered' = 0
    /\ UNCHANGED <<loop, calls, faults>>

Call == GoRun \/ Close \/ \E c \in Calls : PokeBy(c)

ServerStep ==
    /\ OnServerMessage \/ Call \/ LoopStep
    /\ UNCHANGED <<goClientVars, faults>>

Timer == TimerFires /\ UNCHANGED <<goClientVars, faults>>

\* A message of the channel, and the event its bytes may be for the sender.
Message ==
    /\ \E ok \in BOOLEAN, n \in Fails :
           /\ OnClientMessage(ok, n)
           /\ Failing(IF ok THEN n ELSE n + 1)
    /\ Drain(Head(toClient))
    /\ UNCHANGED <<srv, loop>>

OldMessage ==
    /\ \E ch \in DOMAIN old, ok \in BOOLEAN, n \in Fails :
           /\ OnOldMessage(ch, ok, n)
           /\ Failing(IF ok THEN n ELSE n + 1)
    /\ UNCHANGED goServerVars

Ask ==
    /\ \E n \in Fails : Download(n) /\ Failing(n)
    /\ UNCHANGED goServerVars

CancelNext ==
    /\ \E n \in Fails : Cancel(n) /\ Failing(n)
    /\ UNCHANGED goServerVars

SessionEnds ==
    /\ channel <= LeaveBy /\ Leave
    /\ UNCHANGED <<goServerVars, faults>>

\* An end breaks if another channel can follow, once its other end or its
\* server is closed, or when the session is over.
MayBreak ==
    \/ channel < MaxChannels
    \/ ~sOpen
    \/ srv.closed
    \/ ~cOpen
    \/ ended /\ cancelling = <<>>

ServerBreaks ==
    MayBreak /\ ServerEndCloses /\ UNCHANGED <<goClientVars, faults>>

LinkCloses ==
    MayBreak /\ Shutdown /\ UNCHANGED <<goClientVars, faults>>

ClientBreaks ==
    MayBreak /\ ClientEndCloses /\ UNCHANGED <<goServerVars, faults>>

ReadError ==
    ReadFails /\ Failing(1) /\ UNCHANGED goClientVars

Next ==
    \/ Connect
    \/ ServerStep
    \/ Timer
    \/ Message
    \/ OldMessage
    \/ Ask
    \/ CancelNext
    \/ SessionEnds
    \/ ServerBreaks
    \/ LinkCloses
    \/ ClientBreaks
    \/ ReadError

Spec == Init /\ [][Next]_vars

-----------------------------------------------------------------------------

TypeOK ==
    /\ ChannelTypeOK
    /\ GoServerTypeOK
    /\ GoClientTypeOK
    /\ faults \in 0 .. MaxFaults

-----------------------------------------------------------------------------
(* Liveness. *)

\* Goroutines that can run do, a channel with one end or its server closed
\* closes, and a receiver that lost its channel gets another.  Nothing is asked
\* of the timer of capacity(), nor of an old channel.
Fairness ==
    /\ WF_vars(Connect)
    /\ WF_vars(OnServerMessage /\ UNCHANGED <<goClientVars, faults>>)
    /\ WF_vars(Call /\ UNCHANGED <<goClientVars, faults>>)
    /\ WF_vars(LoopStep /\ UNCHANGED <<goClientVars, faults>>)
    /\ WF_vars(Message)
    /\ WF_vars(Ask \/ CancelNext)
    /\ WF_vars(IF sOpen THEN (~cOpen \/ ended \/ srv.closed) /\ ServerBreaks
               ELSE ClientBreaks)

FairSpec == Spec /\ Fairness

\* Once the share is known, every file of it is saved or has failed, unless
\* the receiver leaves: no lost event, late message or broken channel leaves a
\* download waiting (client.go:278-285, 331-340; server.go:336-354).
EveryFileEnds ==
    items ~> (ended \/ \A f \in Files : states[f] \in Finished)

\* A closed server leaves no goroutine behind (server.go:93-101, 329-343).
ServerWindsDown == srv.closed ~> loop.pc = "none"
=============================================================================
