--------------------------- MODULE MCNegotiation ---------------------------
(* Instances of Negotiation for TLC; its constants are plain values. *)
EXTENDS Negotiation
=============================================================================
