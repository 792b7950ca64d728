----------------------------- MODULE MCTransfer -----------------------------
(* Instances of Transfer for TLC: up to three files, bounded environment. *)
EXTENDS Transfer

CONSTANTS
    a, b, z,     \* files, as model values; a run shares a, a and b, or all
    SizeA,
    SizeB,       \* the size of b and of z
    Connections, Downloads, Cancels, Stalls, Reloads, Evictions, Faults

MCSize == [f \in Files |-> IF f = a THEN SizeA ELSE SizeB]

MCLimit ==
    [connections |-> Connections, downloads |-> Downloads,
     cancels |-> Cancels, stalls |-> Stalls, reloads |-> Reloads,
     evictions |-> Evictions, faults |-> Faults]
=============================================================================
