------------------------------ MODULE MCShare ------------------------------
(* Instances of Share for TLC: one sender, and a receiver or a watcher. *)
EXTENDS Share, TLC

CONSTANTS
    p1, p2, k1, i1, i2, i3, sender, r1, w1,    \* model values
    Connects, Hurries, Drops, Signals, Reloads, Others, Leaves, EarlyLosses,
    Twins

MCNetworks == {{k1}}

\* Ids and PINs are random; nothing tells one from another.
MCSymmetry == Permutations(Ids) \cup Permutations(Pins)

MCLimit ==
    [connects |-> Connects, hurries |-> Hurries, drops |-> Drops,
     signals |-> Signals, reloads |-> Reloads, others |-> Others,
     leaves |-> Leaves, earlyLosses |-> EarlyLosses,
     twins |-> Twins]
=============================================================================
