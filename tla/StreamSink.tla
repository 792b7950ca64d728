----------------------------- MODULE StreamSink -----------------------------
(***************************************************************************)
(* One file saved as a browser download: how the page chooses where the    *)
(* file goes, the page's StreamSink, the service worker that answers the   *)
(* download with a stream, and the browser that reads the stream to disk.  *)
(*                                                                         *)
(* The two ends of the MessagePort are FIFO queues.  What the page posts   *)
(* is always some chunks and then at most one "done" or "abort", so that   *)
(* direction is a count and an ending.  The other direction is at most one *)
(* opening message, then credits, then at most one "cancelled"; credits    *)
(* under way are counted, and may be delivered in any portions, which      *)
(* allows every grouping of them into messages.  A closed port hears       *)
(* nothing more, and what is posted to it is lost.                         *)
(***************************************************************************)
EXTENDS Integers

CONSTANTS
    CREDITS,        \* chunks the page may post before it hears of a credit
    highWaterMark,  \* chunks the stream queues before it withholds credits
    Chunks,         \* chunks of the file
    Platforms       \* the browsers to consider

Features ==
    {"hasSavePicker", "controller", "hasOPFS", "isSafari", "isIOS"}

Strategies == {"picker", "stream", "opfs", "memory"}

ASSUME StreamAssumption ==
    /\ CREDITS \in Nat \ {0}
    /\ highWaterMark \in Nat \ {0}
    /\ Chunks \in Nat
    /\ Platforms \subseteq SUBSET Features

VARIABLES
    platform,    \* the features this browser has
    page,        \* what the page is doing for the file
    kind,        \* the sink it got
    credits,     \* chunks it may still post
    cancelled,   \* it was told that the download was cancelled
    written,     \* chunks written, that is posted
    opening,     \* the handshake that starts the download
    out,         \* chunks under way to the worker
    ending,      \* what follows them
    grants,      \* credits under way to the page
    notice,      \* "cancelled" under way to the page
    stream,      \* the worker's ReadableStream
    queue,       \* chunks it holds
    pendingCredits,
    saved        \* chunks the browser has read from the stream

pageVars == <<platform, page, kind, credits, cancelled, written>>
portVars == <<out, ending, grants, notice>>
workerVars == <<stream, queue, pendingCredits, saved>>
vars == <<pageVars, opening, portVars, workerVars>>

PageStates ==
    {"choosing",
     "opening",    \* awaiting StreamSink.open
     "ready",      \* no write under way
     "waiting",    \* a write waits for a credit
     "finished",   \* close() has returned: the file is reported done
     "aborted",
     "elsewhere",  \* the file goes to another sink
     "refused"}    \* no sink: the device has no space left

Openings ==
    {"none",
     "registering",  \* the page has asked the worker for a download
     "url",          \* the worker has sent the address of the download
     "requested",    \* the page has opened that address in a frame
     "started",      \* the worker serves it and has said so
     "over"}         \* the page has heard so, or nothing will come of it

\* closing: controller.close() was called with chunks still queued.
\* errored: aborted by the page, or the worker was stopped with it.
StreamStates == {"none", "open", "closing", "complete", "errored", "cancelled"}

TypeOK ==
    /\ platform \in Platforms
    /\ page \in PageStates
    /\ kind \in Strategies \cup {"none"}
    /\ credits \in Nat
    /\ cancelled \in BOOLEAN
    /\ written \in 0 .. Chunks
    /\ opening \in Openings
    /\ out \in Nat
    /\ ending \in {"none", "done", "abort"}
    /\ grants \in Nat
    /\ notice \in BOOLEAN
    /\ stream \in StreamStates
    /\ queue \in Nat
    /\ pendingCredits \in Nat
    /\ saved \in Nat

Init ==
    /\ platform \in Platforms
    /\ page = "choosing"
    /\ kind = "none"
    /\ credits = CREDITS
    /\ cancelled = FALSE
    /\ written = 0
    /\ opening = "none"
    /\ out = 0
    /\ ending = "none"
    /\ grants = 0
    /\ notice = FALSE
    /\ stream = "none"
    /\ queue = 0
    /\ pendingCredits = 0
    /\ saved = 0

-----------------------------------------------------------------------------
(* Choosing a sink.                                                        *)

Has(f) == f \in platform

StreamAvailable == ~Has("isSafari") /\ ~Has("isIOS") /\ Has("controller")

bestStrategy ==
    CASE Has("hasSavePicker") -> "picker"
      [] ~Has("hasSavePicker") /\ StreamAvailable -> "stream"
      [] /\ ~Has("hasSavePicker") /\ ~StreamAvailable /\ Has("hasOPFS")
         /\ Has("isSafari") \/ Has("isIOS") \/ ~Has("controller") -> "opfs"
      [] OTHER -> "memory"

\* Past the switch of chooseSink: device storage if it opens, memory if it
\* does not, and an error if that is for lack of space.
FallBack ==
    \/ /\ Has("hasOPFS")
       /\ page' = "elsewhere"
       /\ kind' = "opfs"
    \/ /\ Has("hasOPFS")
       /\ page' = "refused"
       /\ kind' = "none"
    \/ /\ page' = "elsewhere"
       /\ kind' = "memory"

\* download() with the best strategy, or one picked in the click handler: a
\* picker needs the file or the folder that was picked, or falls through.
ChooseSink(picked) ==
    /\ page = "choosing"
    /\ \/ /\ bestStrategy = "stream"
          /\ page' = "opening"
          /\ opening' = "registering"
          /\ UNCHANGED kind
       \/ /\ bestStrategy = "picker" /\ picked
          /\ page' = "elsewhere"
          /\ kind' = "picker"
          /\ UNCHANGED opening
       \/ /\ bestStrategy = "memory"
          /\ page' = "elsewhere"
          /\ kind' = "memory"
          /\ UNCHANGED opening
       \/ /\ bestStrategy = "opfs" \/ (bestStrategy = "picker" /\ ~picked)
          /\ FallBack
          /\ UNCHANGED opening
    /\ UNCHANGED <<platform, credits, cancelled, written, portVars, workerVars>>

-----------------------------------------------------------------------------
(* StreamSink.open: the handshake.                                         *)

\* The worker answers a registration with the address it will serve.
RegisterDownload ==
    /\ opening = "registering"
    /\ opening' = "url"
    /\ UNCHANGED <<pageVars, portVars, workerVars>>

OnUrl ==
    /\ opening = "url" /\ page = "opening"
    /\ opening' = "requested"
    /\ UNCHANGED <<pageVars, portVars, workerVars>>

\* The browser requests the address and the registration is still there.  It
\* may do so after the page has given up: the frame is gone, but a request
\* already under way becomes a download all the same.
ServeDownload ==
    /\ opening = "requested"
    /\ opening' = "started"
    /\ stream' = "open"
    /\ UNCHANGED <<pageVars, portVars, queue, pendingCredits, saved>>

\* The registration is lost: the worker was stopped, or the entry was pruned
\* after a minute by the next registration.  A later request finds nothing.
ForgetDownload ==
    /\ opening \in {"registering", "url", "requested"}
    /\ opening' = "over"
    /\ UNCHANGED <<pageVars, portVars, workerVars>>

OnStarted ==
    /\ opening = "started" /\ page = "opening"
    /\ opening' = "over"
    /\ page' = "ready"
    /\ kind' = "stream"
    /\ UNCHANGED <<platform, credits, cancelled, written, portVars, workerVars>>

\* Mutant: the first timer is not followed by another.
OpenTimeoutOnce ==
    /\ page = "opening" /\ opening # "requested"
    /\ FallBack
    /\ UNCHANGED <<platform, credits, cancelled, written, opening, portVars,
                   workerVars>>

\* "Service worker did not respond", "Browser did not start the download".
OpenTimeout ==
    /\ page = "opening"
    /\ FallBack
    /\ UNCHANGED <<platform, credits, cancelled, written, opening, portVars,
                   workerVars>>

-----------------------------------------------------------------------------
(* The page writes.                                                        *)

\* The page's end of the port is open from the handshake on, until it gives
\* up or aborts; what comes with "started" is heard by the StreamSink.
PortOpen == page \in {"opening", "ready", "waiting", "finished"}

Listening == PortOpen /\ page # "opening"

\* A posted chunk is lost if the worker has closed its end or was stopped.
PostChunk ==
    /\ written' = written + 1
    /\ out' = IF stream = "open" THEN out + 1 ELSE out

\* abort(): the worker hears of it if its end is open; the page hears no more.
PostAbort ==
    /\ page' = "aborted"
    /\ ending' = IF stream = "open" THEN "abort" ELSE ending
    /\ grants' = 0
    /\ notice' = FALSE

\* Mutant: a write does not wait for a credit.
WriteUnpaced ==
    /\ page = "ready" /\ written < Chunks /\ ~cancelled
    /\ PostChunk
    /\ credits' = credits - 1
    /\ UNCHANGED <<platform, page, kind, cancelled, opening, ending, grants,
                   notice, workerVars>>

\* ItemClient writes one chunk at a time; a write that throws makes it abort.
Write ==
    /\ page = "ready" /\ written < Chunks
    /\ \/ /\ cancelled
          /\ PostAbort
          /\ UNCHANGED <<credits, written, out>>
       \/ /\ ~cancelled /\ credits > 0
          /\ PostChunk
          /\ credits' = credits - 1
          /\ UNCHANGED <<page, ending, grants, notice>>
       \/ /\ ~cancelled /\ credits = 0
          /\ page' = "waiting"
          /\ UNCHANGED <<credits, written, portVars>>
    /\ UNCHANGED <<platform, kind, cancelled, opening, workerVars>>

\* A waiting write goes on at once with a credit it is given.
OnCredit(n) ==
    /\ Listening /\ n \in 1 .. grants
    /\ grants' = grants - n
    /\ \/ /\ page = "waiting"
          /\ page' = "ready"
          /\ PostChunk
          /\ credits' = credits + n - 1
       \/ /\ page # "waiting"
          /\ credits' = credits + n
          /\ UNCHANGED <<page, written, out>>
    /\ UNCHANGED <<platform, kind, cancelled, opening, ending, notice,
                   workerVars>>

\* A waiting write throws, and ItemClient aborts.
OnCancelled ==
    /\ Listening /\ notice /\ grants = 0
    /\ cancelled' = TRUE
    /\ \/ /\ page = "waiting"
          /\ PostAbort
       \/ /\ page # "waiting"
          /\ notice' = FALSE
          /\ UNCHANGED <<page, ending, grants>>
    /\ UNCHANGED <<platform, kind, credits, written, opening, out, workerVars>>

\* Mutant: close() only returns.
CloseSilently ==
    /\ page = "ready" /\ written = Chunks
    /\ page' = "finished"
    /\ UNCHANGED <<platform, kind, credits, cancelled, written, opening,
                   portVars, workerVars>>

\* The file is whole and its hash is right: close() posts "done" and returns.
Close ==
    /\ page = "ready" /\ written = Chunks
    /\ page' = "finished"
    /\ ending' = IF stream = "open" THEN "done" ELSE ending
    /\ UNCHANGED <<platform, kind, credits, cancelled, written, opening, out,
                   grants, notice, workerVars>>

\* ItemClient gives up: cancelled by the user, stalled, sender's error, or a
\* hash that does not match.
Abort ==
    /\ page \in {"ready", "waiting"}
    /\ PostAbort
    /\ UNCHANGED <<platform, kind, credits, cancelled, written, opening, out,
                   workerVars>>

-----------------------------------------------------------------------------
(* The service worker and the browser.                                     *)

desiredSize == highWaterMark - queue

\* A message to a page that has closed its end is lost.
Grant(n) == grants' = IF PortOpen THEN grants + n ELSE grants

\* Mutant: every chunk is answered with a credit.
OnChunkAlwaysGrants ==
    /\ stream = "open" /\ out > 0
    /\ out' = out - 1
    /\ queue' = queue + 1
    /\ Grant(1)
    /\ UNCHANGED <<pageVars, opening, ending, notice, stream, pendingCredits,
                   saved>>

\* Another write is granted once the queue has room.
OnChunk ==
    /\ stream = "open" /\ out > 0
    /\ out' = out - 1
    /\ queue' = queue + 1
    /\ \/ /\ desiredSize - 1 > 0
          /\ Grant(1)
          /\ UNCHANGED pendingCredits
       \/ /\ desiredSize - 1 <= 0
          /\ pendingCredits' = pendingCredits + 1
          /\ UNCHANGED grants
    /\ UNCHANGED <<pageVars, opening, ending, notice, stream, saved>>

\* Mutant: an abort closes the stream.
OnEndingCloses ==
    /\ stream = "open" /\ out = 0 /\ ending # "none"
    /\ stream' = IF queue = 0 THEN "complete" ELSE "closing"
    /\ UNCHANGED <<pageVars, opening, portVars, queue, pendingCredits, saved>>

\* controller.close() lets the browser read what is queued;
\* controller.error() drops it and fails the download.
OnEnding ==
    /\ stream = "open" /\ out = 0 /\ ending # "none"
    /\ \/ /\ ending = "done"
          /\ stream' = IF queue = 0 THEN "complete" ELSE "closing"
          /\ UNCHANGED queue
       \/ /\ ending = "abort"
          /\ stream' = "errored"
          /\ queue' = 0
    /\ UNCHANGED <<pageVars, opening, portVars, pendingCredits, saved>>

\* Mutant: credits that were granted stay pending.
BrowserReadsKeepsPending ==
    /\ stream \in {"open", "closing"} /\ queue > 0
    /\ queue' = queue - 1
    /\ saved' = saved + 1
    /\ IF stream = "open" THEN Grant(pendingCredits) ELSE UNCHANGED grants
    /\ stream' = IF stream = "closing" /\ queue = 1 THEN "complete" ELSE stream
    /\ UNCHANGED <<pageVars, opening, out, ending, notice, pendingCredits>>

\* Mutant: the stream never pulls.
BrowserReadsSilently ==
    /\ stream \in {"open", "closing"} /\ queue > 0
    /\ queue' = queue - 1
    /\ saved' = saved + 1
    /\ stream' = IF stream = "closing" /\ queue = 1 THEN "complete" ELSE stream
    /\ UNCHANGED <<pageVars, opening, portVars, pendingCredits>>

\* The browser takes a chunk; the stream pulls if that leaves room, unless it
\* is closing.
BrowserReads ==
    /\ stream \in {"open", "closing"} /\ queue > 0
    /\ queue' = queue - 1
    /\ saved' = saved + 1
    /\ \/ /\ stream = "open" /\ desiredSize + 1 > 0
          /\ Grant(pendingCredits)
          /\ pendingCredits' = 0
       \/ /\ stream = "open" => desiredSize + 1 <= 0
          /\ UNCHANGED <<grants, pendingCredits>>
    /\ stream' = IF stream = "closing" /\ queue = 1 THEN "complete" ELSE stream
    /\ UNCHANGED <<pageVars, opening, out, ending, notice>>

\* The user cancels the browser's download.  The worker tells the page, if
\* "done" has not closed its end before.
UserCancels ==
    /\ stream \in {"open", "closing"}
    /\ stream' = "cancelled"
    /\ queue' = 0
    /\ out' = 0
    /\ notice' = (notice \/ (stream = "open" /\ PortOpen))
    /\ UNCHANGED <<pageVars, opening, ending, grants, pendingCredits, saved>>

\* The browser stops the worker with the stream open: the download fails and
\* nobody tells the page.
WorkerStops ==
    /\ stream \in {"open", "closing"}
    /\ stream' = "errored"
    /\ queue' = 0
    /\ out' = 0
    /\ UNCHANGED <<pageVars, opening, ending, grants, notice, pendingCredits,
                   saved>>

PageStep ==
    \/ OnUrl
    \/ OnStarted
    \/ OpenTimeout
    \/ Write
    \/ \E n \in 1 .. CREDITS : OnCredit(n)
    \/ OnCancelled
    \/ Close

WorkerStep == RegisterDownload \/ OnChunk \/ OnEnding

Next ==
    \/ \E picked \in BOOLEAN : ChooseSink(picked)
    \/ PageStep
    \/ WorkerStep
    \/ ServeDownload
    \/ ForgetDownload
    \/ Abort
    \/ BrowserReads
    \/ UserCancels
    \/ WorkerStops

Spec == Init /\ [][Next]_vars

\* Messages are delivered, handlers and timers run, and the browser goes on
\* reading a download it has begun.  That it begins one, that the user
\* cancels, and that the worker is stopped is nobody's duty.
FairSpec ==
    /\ Spec
    /\ WF_vars(PageStep)
    /\ WF_vars(WorkerStep)
    /\ WF_vars(BrowserReads)

-----------------------------------------------------------------------------
(* Properties.                                                             *)

\* Credits neither leak nor multiply: while page and worker talk, every one
\* of the CREDITS is with the page, with a chunk under way, on its way back,
\* or withheld by the worker.  A lost one would slow the download down until
\* it stops, an extra one would let the queue grow (sw.ts:112-118).
CreditsConserved ==
    (stream = "open" /\ page \in {"ready", "waiting"}) =>
        credits + out + grants + pendingCredits = CREDITS

\* "large files never sit in memory": what the page has posted and the
\* browser has not read stays below the sum of the two limits, however slow
\* the disk is (sw.ts:77-79).
BoundedQueue == queue + out <= highWaterMark + CREDITS - 1

\* A download the browser shows as complete is the whole file, and the page
\* has found its hash right: an aborted, stopped or never fed download is not
\* taken for a short file (sw.ts:119-125).
CompleteIsWhole ==
    stream = "complete" => saved = Chunks /\ page = "finished"

\* No lost wake-up: a write that waits for a credit goes on, as long as the
\* worker is alive (stream.ts:85-88, sw.ts:127-132).
WriteGoesOn == page = "waiting" ~> page # "waiting" \/ stream = "errored"

\* A file reported as done reaches the disk in full, unless the browser's
\* user cancels its download or the worker is stopped (stream.ts:97-99).
DoneIsSaved ==
    page = "finished" ~> stream \in {"complete", "cancelled", "errored"}

\* Opening comes to an end even if the worker never answers or the browser
\* never asks for the download: another sink, or an error (stream.ts:50-66).
OpenSettles == page = "opening" ~> page # "opening"
=============================================================================
