----------------------------- MODULE Directory -----------------------------
(***************************************************************************)
(* The global object of the worker (worker/src/directory.ts), as far as it *)
(* concerns one share: which PINs lead to it, under which networks it is   *)
(* listed, and what the watchers of those networks see                     *)
(* (src/lib/discovery.ts).                                                 *)
(*                                                                         *)
(* Its methods only wait for its own storage.  The runtime delivers no     *)
(* other event meanwhile, so each of them is one step.  Events reach a     *)
(* watcher in order, and nearby is what its page shows once they have.     *)
(***************************************************************************)
EXTENDS Integers, Sequences, FiniteSets

CONSTANTS
    Pins,      \* the PINs there are
    NoPin,
    Keys,      \* network keys
    Watchers   \* pages that look for shares nearby

ASSUME DirectoryAssumption == NoPin \notin Pins

VARIABLES
    pins,          \* pin:<pin>, by owner: this share, another one, or none
    listedUnder,   \* room:<id>, the keys the share is listed under
    net,           \* the keys k with an entry net:<k>:<id>
    watching,      \* the keys a watcher's open socket is tagged with
    nearby         \* whether a watcher's page shows the share

directoryVars == <<pins, listedUnder, net, watching, nearby>>

DirectoryTypeOK ==
    /\ pins \in [Pins -> {"free", "ours", "other"}]
    /\ listedUnder \in SUBSET Keys
    /\ net \in SUBSET Keys
    /\ watching \in [Watchers -> SUBSET Keys]
    /\ nearby \in [Watchers -> BOOLEAN]

-----------------------------------------------------------------------------

Free == {p \in Pins : pins[p] = "free"}

\* Mutant: the preferred PIN is taken as it comes.
ClaimableUnchecked(preferred) == {preferred}

\* claimPin(): the preferred PIN, if it is free or already ours, or a random
\* free one.
Claimable(preferred) ==
    IF preferred \in Pins /\ pins[preferred] # "other" THEN {preferred}
    ELSE Free

ReleasePin(pin) ==
    pins' = [pins EXCEPT ![pin] = IF @ = "ours" THEN "free" ELSE @]

\* lookup(): whose room a PIN leads to.  Who asks too often is turned away.
lookup(pin) == pins[pin]

\* What a watcher's page makes of "add" and "remove": one row for the share,
\* whichever keys it is told of under.
OnAdd(keys) ==
    nearby' = [w \in Watchers |-> nearby[w] \/ watching[w] \cap keys # {}]

OnRemove(keys) ==
    nearby' = [w \in Watchers |-> nearby[w] /\ watching[w] \cap keys = {}]

\* Its list starts over with what is listed when its socket opens.
OnOpen(w, keys) == nearby' = [nearby EXCEPT ![w] = keys \cap net # {}]

\* Entries under other keys are left as they are.
Announce(keys) ==
    /\ listedUnder' = IF keys = {} THEN listedUnder ELSE keys
    /\ net' = net \cup keys
    /\ OnAdd(keys)
    /\ UNCHANGED watching

Withdraw ==
    /\ listedUnder' = {}
    /\ net' = net \ listedUnder
    /\ OnRemove(listedUnder)
    /\ UNCHANGED watching

\* A watcher's socket opens.
Watch(w, keys) ==
    /\ watching[w] = {} /\ keys # {}
    /\ watching' = [watching EXCEPT ![w] = keys]
    /\ OnOpen(w, keys)
    /\ UNCHANGED <<pins, listedUnder, net>>

\* A watcher's socket closes; its page keeps the list until the next opens.
Unwatch(w) ==
    /\ watching[w] # {}
    /\ watching' = [watching EXCEPT ![w] = {}]
    /\ UNCHANGED <<pins, listedUnder, net, nearby>>

\* Another share claims a PIN.
OtherShareClaims ==
    /\ \E p \in Free : pins' = [pins EXCEPT ![p] = "other"]
    /\ UNCHANGED <<listedUnder, net, watching, nearby>>
=============================================================================
