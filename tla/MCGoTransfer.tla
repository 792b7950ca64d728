---------------------------- MODULE MCGoTransfer ----------------------------
(* Instances of GoTransfer for TLC: a file of several chunks and a short one. *)
EXTENDS GoTransfer

CONSTANTS a, b, SizeA, SizeB

MCSize == [f \in Files |-> IF f = a THEN SizeA ELSE SizeB]

MCShared == SetToSeq(Files)
=============================================================================
