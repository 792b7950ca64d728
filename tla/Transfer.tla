------------------------------ MODULE Transfer ------------------------------
(***************************************************************************)
(* One ItemServer and one ItemClient over a channel that breaks and is     *)
(* replaced: the transfer part of one receiver's connection to a share.    *)
(*                                                                         *)
(* The environment is bounded: spent counts what the user and the faults   *)
(* have done, and Limit says how often each may happen.                    *)
(***************************************************************************)
EXTENDS ItemServer, ItemClient

CONSTANTS
    Wasm,    \* whether hashing can be available to the receiver
    Limit    \* how often each event of the environment may happen

Budget == {"connections", "downloads", "cancels", "stalls", "reloads",
           "evictions", "faults"}

ASSUME EnvironmentAssumption ==
    /\ Wasm \in SUBSET BOOLEAN
    /\ Limit \in [Budget -> Nat]

VARIABLE spent

vars == <<channelVars, serverVars, clientVars, spent>>

Init ==
    /\ sOpen = FALSE
    /\ cOpen = FALSE
    /\ toClient = <<>>
    /\ toServer = <<>>
    /\ srv = IdleServer
    /\ items = FALSE
    /\ states = [f \in Files |-> "idle"]
    /\ verified = [f \in Files |-> FALSE]
    /\ queue = <<>>
    /\ active = NoDownload
    /\ orphans = [f \in Files |-> 0]
    /\ late = {}
    /\ disk = [f \in Files |-> <<>>]
    /\ opfsDirs = [f \in Files |-> "none"]
    /\ saved = [f \in Files |-> NoResume]
    /\ spent = [b \in Budget |-> 0]

-----------------------------------------------------------------------------

Spend(b) ==
    /\ spent[b] < Limit[b]
    /\ spent' = [spent EXCEPT ![b] = @ + 1]

\* What was under way to the client on the channel before is not heard.
attach(opening) ==
    /\ cOpen' = TRUE
    /\ toClient' = opening

\* A fresh channel opens: a new ItemServer says hello, the client is attached.
Connect ==
    /\ ~sOpen /\ ~cOpen
    /\ Spend("connections")
    /\ sOpen' = TRUE
    /\ attach(<<Hello>>)
    /\ toServer' = <<>>
    /\ srv' = IdleServer
    /\ UNCHANGED clientVars

\* An end may only break if another connection can follow; its other end then
\* notices.
MayBreak == spent["connections"] < Limit["connections"] \/ ~sOpen \/ ~cOpen

ServerStep ==
    \/ OnServerMessage
    \/ BlockRead
    \/ SendChunk
    \/ HashReady(TRUE)

ClientStep ==
    \/ OnClientMessage
    \/ \E wasm \in Wasm : SinkOpened(wasm)
    \/ \E f \in Files : OrphanOpened(f)
    \/ WriteDone
    \/ active.closing /\ WriteFails
    \/ CloseDone
    \/ AbortRemoves
    \/ AbortDone
    \/ \E l \in late : LateWriteFails(l)
    \/ \E l \in late : LateAbortDone(l)

Fault ==
    \/ (HashReady(FALSE) \/ ReadFails) /\ UNCHANGED clientVars
    \/ SinkOpenFails /\ UNCHANGED serverVars
    \/ ~active.closing /\ WriteFails /\ UNCHANGED serverVars
    \/ CloseFails /\ UNCHANGED serverVars

User ==
    \/ Spend("downloads") /\ \E f \in Files : UserDownload(f)
    \/ Spend("cancels") /\ (CancelActive \/ \E f \in Files : CancelQueued(f))
    \/ Spend("stalls") /\ AbortStalled
    \/ Spend("reloads") /\ MayBreak /\ Reload
    \/ Spend("evictions") /\ Evict

Break ==
    /\ MayBreak
    /\ \/ ServerClose /\ UNCHANGED clientVars
       \/ ClientClose /\ UNCHANGED serverVars

Next ==
    \/ Connect
    \/ ServerStep /\ UNCHANGED <<clientVars, spent>>
    \/ ClientStep /\ UNCHANGED <<serverVars, spent>>
    \/ Spend("faults") /\ Fault
    \/ User /\ UNCHANGED serverVars
    \/ Break /\ UNCHANGED spent

Spec == Init /\ [][Next]_vars

-----------------------------------------------------------------------------
(* Safety. *)

TypeOK ==
    /\ ChannelTypeOK
    /\ ServerTypeOK
    /\ ClientTypeOK
    /\ spent \in [Budget -> Nat]

\* What has been written for the active download is exactly the first bytes of
\* that file, across resyncs, reconnects and reloads.
SinkIsPrefix ==
    active.ready /\ ~active.closing /\ active.failed = "no" =>
        disk[active.id] = Prefix(active.id, active.written)

\* A file shown as verified is the file that was shared, byte for byte, unless
\* an abort that came while it was being closed is about to take it back.
VerifiedIsIntact ==
    \A f \in Files :
        states[f] = "done" /\ verified[f] /\ (\A l \in late : l.id # f) =>
            disk[f] = Whole(f)

\* The page shows a file as queued, receiving or verifying exactly while the
\* client has it in its line: no file is shown as under way that nobody works
\* on, and none is worked on that the user cannot see and cancel.
StatusMatchesLine ==
    \A f \in Files :
        /\ states[f] = "queued" <=> \E i \in DOMAIN queue : queue[i].id = f
        /\ states[f] \in {"receiving", "verifying"} <=> active.id = f

\* A checkpoint never claims bytes the disk does not hold, and its hash state
\* is the state after exactly those bytes.  Only a download that is aborted has
\* its folder removed a little before its checkpoint is dropped.
CheckpointOnDisk ==
    \A f \in Files :
        saved[f].offset > 0 /\ ~(active.id = f /\ active.removed) =>
            /\ saved[f].dir = "own"
            /\ saved[f].offset <= Len(disk[f])
            /\ saved[f].hasState =>
                   saved[f].hashed = SubSeq(disk[f], 1, saved[f].offset)

\* Only the active download, or the one a reload interrupted, has one.
OneCheckpoint ==
    \A f \in Files :
        saved[f].offset > 0 =>
            /\ \A g \in Files : saved[g].offset > 0 => g = f
            /\ items => active.id = f

\* Of the first file a page asks for, the bytes taken off the channel that the
\* disk has not acknowledged are bounded by one window for each connection:
\* resuming counts what was received as acknowledged, so every reconnect lets
\* another window into memory while the disk is behind (server.ts:157, 214).
\* A later request may find what is left of an earlier one of the same file,
\* take its bytes and resume from them, which lets in yet another.
Backpressure ==
    spent["downloads"] <= 1 =>
        active.received - active.lastAck
            <= spent["connections"] * (WINDOW + CHUNK)

\* The downloads of a page as Delivery sees them: the active one and the queue
\* behind it are the line, and a download that CloseDone completed while an
\* abort of it was under way is in doubt.
Ids(q) == [i \in DOMAIN q |-> q[i].id]
Line == IF active.id = NoFile THEN Ids(queue) ELSE <<active.id>> \o Ids(queue)
InLine(f) == f = active.id \/ \E i \in DOMAIN queue : queue[i].id = f
Outcome == [f \in Files |-> IF InLine(f) THEN "asked" ELSE states[f]]
Doubt == {l.id : l \in late}

D == INSTANCE Delivery WITH line <- Line, outcome <- Outcome, doubt <- Doubt

\* Requests are served one at a time in the order they were made, each ends
\* once, with the outcome the page shows, and no late answer of a sink or
\* message of the sender changes the outcome of a request that has ended, save
\* that of a file in doubt.
ImplementsDelivery == D!Spec

-----------------------------------------------------------------------------
(* Liveness. *)

\* Timers, sinks, disks and the network answer in the end, and a receiver that
\* lost its channel gets another one.
Fairness ==
    /\ WF_vars(Connect)
    /\ WF_vars(OnServerMessage /\ UNCHANGED <<clientVars, spent>>)
    /\ WF_vars(BlockRead /\ UNCHANGED <<clientVars, spent>>)
    /\ WF_vars(SendChunk /\ UNCHANGED <<clientVars, spent>>)
    /\ WF_vars(HashReady(TRUE) /\ UNCHANGED <<clientVars, spent>>)
    /\ WF_vars(ClientClose /\ ~sOpen /\ UNCHANGED <<serverVars, spent>>)
    /\ WF_vars(ServerClose /\ ~cOpen /\ UNCHANGED <<clientVars, spent>>)
    /\ WF_vars(OnClientMessage /\ UNCHANGED <<serverVars, spent>>)
    /\ WF_vars((\E w \in Wasm : SinkOpened(w)) /\ UNCHANGED <<serverVars, spent>>)
    /\ WF_vars(WriteDone /\ UNCHANGED <<serverVars, spent>>)
    /\ WF_vars(CloseDone /\ UNCHANGED <<serverVars, spent>>)
    /\ WF_vars(AbortDone /\ UNCHANGED <<serverVars, spent>>)

FairSpec == Spec /\ Fairness

\* Some file is asked for again before the page hears that its completed
\* download had a write refused: the cancel sent then is taken for the new one.
CancelsAnother == \E l \in late : l.refused /\ InLine(l.id)

\* Every download the user asks for comes to an end, without the help of the
\* stall timer unless CancelsAnother.
DownloadsEnd ==
    []~CancelsAnother =>
        \A f \in Files :
            (states[f] \in Busy) ~> (states[f] \in Ended \cup {"idle"})
=============================================================================
