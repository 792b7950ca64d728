-------------------------- MODULE TransferProtocol --------------------------
(***************************************************************************)
(* The data-channel protocol between one ItemServer and one ItemClient     *)
(* (src/lib/transfer/protocol.ts): its tunables, its messages and the      *)
(* ordered, reliable channel they travel on.                               *)
(*                                                                         *)
(* Sizes and offsets count an abstract unit of bytes.  A byte of a file is *)
(* named by the pair <<file, offset>>, so that what reaches a disk can be  *)
(* compared with what was shared.  A chunk carries that name as a ghost    *)
(* (id and at); on the wire it is anonymous, and no action of the receiver *)
(* reads the ghost except to say which bytes it hashed and wrote.          *)
(***************************************************************************)
EXTENDS Integers, Sequences

CONSTANTS
    Files,        \* ids of the file items of the share
    NoFile,       \* stands for an undefined transfer
    Size,         \* the size of every file
    CHUNK,        \* ServerOptions.chunkSize, what chunkSizeFor() returned
    READ_BLOCK,   \* bytes read from disk per File.slice() call
    WINDOW,       \* most bytes sent beyond the receiver's last ack
    HIGH_WATER,   \* pause while the channel buffers more than this
    ACK_EVERY     \* the receiver acks after writing this many bytes

ASSUME ProtocolAssumption ==
    /\ NoFile \notin Files
    /\ Size \in [Files -> Nat]
    /\ CHUNK \in Nat \ {0}
    /\ READ_BLOCK \in Nat \ {0}
    /\ WINDOW \in Nat
    /\ HIGH_WATER \in Nat
    /\ ACK_EVERY \in Nat \ {0}

VARIABLES
    sOpen,      \* the sender's end of the channel is open
    cOpen,      \* the receiver's end is open and the client is attached to it
    toClient,   \* messages under way to the client, buffered ones included
    toServer    \* messages under way to the server

channelVars == <<sOpen, cOpen, toClient, toServer>>

-----------------------------------------------------------------------------
(* Bytes. *)

Least(a, b) == IF a <= b THEN a ELSE b

\* The bytes of file f from offset a up to, not including, offset b.
Bytes(f, a, b) == [i \in 1..(b - a) |-> <<f, a + i - 1>>]

\* The first n bytes of file f.
Prefix(f, n) == Bytes(f, 0, n)

Whole(f) == Prefix(f, Size[f])

\* The file's SHA-256 as the sender reports it; FALSE is the empty string it
\* falls back to when hashing failed.
Sha256 == BOOLEAN

-----------------------------------------------------------------------------
(* Messages. *)

Hello          == [t |-> "hello"]
Start(f, o)    == [t |-> "start", id |-> f, offset |-> o]
Chunk(f, a, n) == [t |-> "chunk", id |-> f, at |-> a, len |-> n]
End(f, sha)    == [t |-> "end", id |-> f, sha256 |-> sha]
ErrorMsg(f)    == [t |-> "error", id |-> f]

Get(f, o)      == [t |-> "get", id |-> f, offset |-> o]
Ack(f, n)      == [t |-> "ack", id |-> f, received |-> n]
Done(f, ok)    == [t |-> "done", id |-> f, ok |-> ok]
CancelMsg(f)   == [t |-> "cancel", id |-> f]

Chunks == [t : {"chunk"}, id : Files, at : Nat, len : Nat]

SenderMsg ==
    [t : {"hello"}]
        \cup [t : {"start"}, id : Files, offset : Nat]
        \cup Chunks
        \cup [t : {"end"}, id : Files, sha256 : Sha256]
        \cup [t : {"error"}, id : Files]

ReceiverMsg ==
    [t : {"get"}, id : Files, offset : Nat]
        \cup [t : {"ack"}, id : Files, received : Nat]
        \cup [t : {"done"}, id : Files, ok : BOOLEAN]
        \cup [t : {"cancel"}, id : Files]

ChannelTypeOK ==
    /\ sOpen \in BOOLEAN
    /\ cOpen \in BOOLEAN
    /\ toClient \in Seq(SenderMsg)
    /\ toServer \in Seq(ReceiverMsg)

-----------------------------------------------------------------------------
(* What is sent while either end is closed never arrives. *)

Deliver(box, msgs) == IF sOpen /\ cOpen THEN box \o msgs ELSE box
=============================================================================
