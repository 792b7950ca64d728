-------------------------- MODULE StreamSinkProofs --------------------------
(***************************************************************************)
(* Theorems about StreamSink for every number of credits, every high water *)
(* mark and every file: no credit is lost or made up, the memory between   *)
(* the page and the disk is bounded, and a download that the browser shows *)
(* as complete is the whole file.                                          *)
(*                                                                         *)
(* The three follow from one inductive invariant, IInv.  Conservation of   *)
(* credits alone is not inductive: an aborted page loses credits, and the  *)
(* bound on the queue needs to know that every chunk beyond the mark has   *)
(* its credit withheld.                                                    *)
(***************************************************************************)
EXTENDS StreamSink, TLAPS

\* Before a StreamSink exists, or if none ever does, nothing has moved.
Untouched ==
    page \in {"choosing", "opening", "elsewhere", "refused"} =>
        /\ written = 0 /\ saved = 0
        /\ credits = CREDITS
        /\ out = 0 /\ grants = 0
        /\ queue = 0 /\ pendingCredits = 0
        /\ ending = "none"

\* A StreamSink exists only after the worker's stream.
StreamFirst ==
    /\ opening \in {"none", "registering", "url", "requested"} => stream = "none"
    /\ opening = "started" => stream # "none"
    /\ page = "choosing" => opening = "none"
    /\ page \in {"ready", "waiting", "finished", "aborted"} =>
           opening = "over" /\ stream # "none"

\* Credits are lost to a page that has aborted, and to nobody else.
CreditsAccounted ==
    stream = "open" =>
        /\ credits + out + grants + pendingCredits <= CREDITS
        /\ page # "aborted" =>
               credits + out + grants + pendingCredits = CREDITS

\* Every chunk beyond the mark has its credit withheld.
BeyondTheMark ==
    stream = "open" /\ queue >= highWaterMark =>
        pendingCredits >= queue - highWaterMark + 1

\* Every chunk written is under way, queued or saved.
ChunksAccounted ==
    /\ stream \in {"open", "closing", "complete"} =>
           saved + queue + out = written
    /\ stream # "open" => out = 0
    /\ stream = "complete" => queue = 0

\* The ending tells what the page has done, and a waiting write has a chunk.
EndingTrue ==
    /\ page = "finished" => written = Chunks
    /\ page = "waiting" => written < Chunks
    /\ ending = "done" => page = "finished"
    /\ ending = "abort" => page = "aborted"
    /\ stream \in {"closing", "complete"} => page = "finished"

IInv ==
    /\ TypeOK
    /\ Untouched
    /\ StreamFirst
    /\ CreditsAccounted
    /\ BeyondTheMark
    /\ ChunksAccounted
    /\ EndingTrue
    /\ BoundedQueue

-----------------------------------------------------------------------------

\* A new session satisfies the invariant.
LEMMA InitInv == Init => IInv
<1> SUFFICES ASSUME Init PROVE IInv
  OBVIOUS
<1> USE StreamAssumption DEF Init
<1>1. TypeOK
  <2>1. cancelled \in BOOLEAN /\ notice \in BOOLEAN
    BY Zenon
  <2> QED
    BY <2>1 DEF TypeOK, PageStates, Strategies, Openings, StreamStates
<1>2. Untouched /\ StreamFirst /\ CreditsAccounted /\ BeyondTheMark
  BY DEF Untouched, StreamFirst, CreditsAccounted, BeyondTheMark
<1>3. ChunksAccounted /\ EndingTrue
  BY DEF ChunksAccounted, EndingTrue
<1>4. BoundedQueue
  BY DEF BoundedQueue
<1> QED
  BY <1>1, <1>2, <1>3, <1>4 DEF IInv

\* Choosing a sink and the handshake keep it.
LEMMA OpeningKeeps ==
    ASSUME IInv,
           \/ \E picked \in BOOLEAN : ChooseSink(picked)
           \/ RegisterDownload \/ OnUrl \/ ServeDownload \/ ForgetDownload
           \/ OnStarted \/ OpenTimeout
    PROVE  IInv'
<1> USE StreamAssumption
        DEF IInv, TypeOK, Untouched, StreamFirst, CreditsAccounted,
            BeyondTheMark, ChunksAccounted, EndingTrue, BoundedQueue,
            PageStates, Strategies, Openings, StreamStates, portVars,
            workerVars, pageVars
<1>1. ASSUME NEW picked \in BOOLEAN, ChooseSink(picked)
      PROVE  IInv'
  BY <1>1 DEF ChooseSink, FallBack
<1>2. CASE RegisterDownload
  BY <1>2 DEF RegisterDownload
<1>3. CASE OnUrl
  BY <1>3 DEF OnUrl
<1>4. CASE ServeDownload
  BY <1>4 DEF ServeDownload
<1>5. CASE ForgetDownload
  BY <1>5 DEF ForgetDownload
<1>6. CASE OnStarted
  BY <1>6 DEF OnStarted
<1>7. CASE OpenTimeout
  BY <1>7 DEF OpenTimeout, FallBack
<1> QED
  BY <1>1, <1>2, <1>3, <1>4, <1>5, <1>6, <1>7

\* What the page does with an open StreamSink keeps it.
LEMMA PageKeeps ==
    ASSUME IInv,
           \/ Write \/ (\E n \in 1 .. CREDITS : OnCredit(n)) \/ OnCancelled
           \/ Close \/ Abort
    PROVE  IInv'
<1> USE StreamAssumption
        DEF IInv, TypeOK, Untouched, StreamFirst, CreditsAccounted,
            BeyondTheMark, ChunksAccounted, EndingTrue, BoundedQueue,
            PageStates, Strategies, Openings, StreamStates, portVars,
            workerVars, pageVars, PortOpen, Listening, PostAbort, PostChunk
<1>1. CASE Write
  <2>1. CASE cancelled
    <3>1. notice' \in BOOLEAN /\ cancelled' \in BOOLEAN
      BY <1>1, <2>1, Zenon DEF Write
    <3>2. TypeOK'
      BY <1>1, <2>1, <3>1 DEF Write
    <3>3. Untouched' /\ StreamFirst' /\ EndingTrue'
      BY <1>1, <2>1 DEF Write
    <3>4. CreditsAccounted' /\ BeyondTheMark'
      BY <1>1, <2>1 DEF Write
    <3>5. ChunksAccounted' /\ BoundedQueue'
      BY <1>1, <2>1 DEF Write
    <3> QED
      BY <3>2, <3>3, <3>4, <3>5
  <2>2. CASE ~cancelled /\ credits > 0
    <3>1. TypeOK' /\ Untouched' /\ StreamFirst' /\ EndingTrue'
      BY <1>1, <2>2 DEF Write
    <3>2. CreditsAccounted' /\ BeyondTheMark'
      BY <1>1, <2>2 DEF Write
    <3>3. ChunksAccounted'
      BY <1>1, <2>2 DEF Write
    <3>4. BoundedQueue'
      BY <1>1, <2>2 DEF Write
    <3> QED
      BY <3>1, <3>2, <3>3, <3>4
  <2>3. CASE ~cancelled /\ credits = 0
    BY <1>1, <2>3 DEF Write
  <2> QED
    BY <1>1, <2>1, <2>2, <2>3 DEF Write
<1>2. ASSUME NEW n \in 1 .. CREDITS, OnCredit(n)
      PROVE  IInv'
  <2>1. TypeOK'
    BY <1>2 DEF OnCredit
  <2>2. Untouched' /\ StreamFirst' /\ EndingTrue'
    BY <1>2 DEF OnCredit
  <2>3. CreditsAccounted' /\ BeyondTheMark'
    BY <1>2 DEF OnCredit
  <2>4. ChunksAccounted'
    BY <1>2 DEF OnCredit
  <2>5. BoundedQueue'
    BY <1>2 DEF OnCredit
  <2> QED
    BY <2>1, <2>2, <2>3, <2>4, <2>5
<1>3. CASE OnCancelled
  BY <1>3 DEF OnCancelled
<1>4. CASE Close
  BY <1>4 DEF Close
<1>5. CASE Abort
  <2>1. TypeOK' /\ Untouched' /\ StreamFirst' /\ EndingTrue'
    BY <1>5 DEF Abort
  <2>2. CreditsAccounted' /\ BeyondTheMark'
    BY <1>5 DEF Abort
  <2>3. ChunksAccounted' /\ BoundedQueue'
    BY <1>5 DEF Abort
  <2> QED
    BY <2>1, <2>2, <2>3
<1> QED
  BY <1>1, <1>2, <1>3, <1>4, <1>5

\* What the worker and the browser do keeps it.
LEMMA WorkerKeeps ==
    ASSUME IInv,
           OnChunk \/ OnEnding \/ BrowserReads \/ UserCancels \/ WorkerStops
    PROVE  IInv'
<1> USE StreamAssumption
        DEF IInv, TypeOK, Untouched, StreamFirst, CreditsAccounted,
            BeyondTheMark, ChunksAccounted, EndingTrue, BoundedQueue,
            PageStates, Strategies, Openings, StreamStates, portVars,
            workerVars, pageVars, PortOpen, Listening, desiredSize, Grant
<1>1. CASE OnChunk
  BY <1>1 DEF OnChunk
<1>2. CASE OnEnding
  BY <1>2 DEF OnEnding
<1>3. CASE BrowserReads
  BY <1>3 DEF BrowserReads
<1>4. CASE UserCancels
  BY <1>4 DEF UserCancels
<1>5. CASE WorkerStops
  BY <1>5 DEF WorkerStops
<1> QED
  BY <1>1, <1>2, <1>3, <1>4, <1>5

\* The invariant holds in every state of every behaviour.
THEOREM Invariance == Spec => []IInv
<1>1. Init => IInv
  BY InitInv
<1>2. IInv /\ [Next]_vars => IInv'
  <2> SUFFICES ASSUME IInv, [Next]_vars PROVE IInv'
    OBVIOUS
  <2>1. CASE Next
    BY <2>1, OpeningKeeps, PageKeeps, WorkerKeeps
       DEF Next, PageStep, WorkerStep
  <2>2. CASE UNCHANGED vars
    BY <2>2 DEF vars, pageVars, portVars, workerVars, IInv, TypeOK, Untouched,
                StreamFirst, CreditsAccounted, BeyondTheMark, ChunksAccounted,
                EndingTrue, BoundedQueue
  <2> QED
    BY <2>1, <2>2
<1> QED
  BY <1>1, <1>2, PTL DEF Spec

-----------------------------------------------------------------------------

\* Page, port and service worker only ever exchange what the other can take.
THEOREM TypesHold == Spec => []TypeOK
<1>1. IInv => TypeOK
  BY DEF IInv
<1> QED
  BY <1>1, Invariance, PTL

\* No credit leaks or multiplies (sw.ts:112-118, stream.ts:25-34, 85-95).
THEOREM CreditsNeverLost == Spec => []CreditsConserved
<1>1. IInv => CreditsConserved
  BY DEF IInv, CreditsAccounted, CreditsConserved
<1> QED
  BY <1>1, Invariance, PTL

\* However slow the disk, at most highWaterMark + CREDITS - 1 chunks are in
\* memory between the page and the browser (sw.ts:77-79, 139).
THEOREM MemoryBounded == Spec => []BoundedQueue
<1>1. IInv => BoundedQueue
  BY DEF IInv
<1> QED
  BY <1>1, Invariance, PTL

\* A download shown as complete is the whole file (sw.ts:119-125).
THEOREM NoTruncatedDownload == Spec => []CompleteIsWhole
<1>1. IInv => CompleteIsWhole
  BY DEF IInv, TypeOK, ChunksAccounted, EndingTrue, CompleteIsWhole
<1> QED
  BY <1>1, Invariance, PTL
=============================================================================
