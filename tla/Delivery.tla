------------------------------ MODULE Delivery ------------------------------
(***************************************************************************)
(* What a page promises about the files it is asked for: a line in which   *)
(* every file stands once, its head being fetched; a request that leaves   *)
(* the line has an outcome, and keeps it until the file is asked for again.*)
(*                                                                         *)
(* There is one exception.  Completing a file and giving it up can cross,  *)
(* while its sink is being closed: such a file is in doubt, and whatever   *)
(* outcome it has, even of a later request, may still be taken back.       *)
(***************************************************************************)
EXTENDS Sequences, SequencesExt

CONSTANT Files

VARIABLES
    line,       \* the files asked for, in the order they were
    outcome,    \* how the latest request of each file ended
    doubt       \* files whose outcome may be taken back

Outcomes == {"done", "error", "cancelled"}

Init ==
    /\ line = <<>>
    /\ outcome = [f \in Files |-> "idle"]
    /\ doubt = {}

Ask(f) ==
    /\ f \notin Range(line)
    /\ line' = Append(line, f)
    /\ outcome' = [outcome EXCEPT ![f] = "asked"]
    /\ UNCHANGED doubt

\* The file at the head is fetched, or has failed, or is not wanted any more.
End(o) ==
    /\ line # <<>>
    /\ line' = Tail(line)
    /\ outcome' = [outcome EXCEPT ![Head(line)] = o]
    /\ \/ UNCHANGED doubt
       \/ o = "done" /\ doubt' = doubt \cup {Head(line)}

\* A file whose turn has not come is not wanted any more.
Withdraw(i) ==
    /\ line' = RemoveAt(line, i)
    /\ outcome' = [outcome EXCEPT ![line[i]] = "cancelled"]
    /\ UNCHANGED doubt

TakeBack(f, o) ==
    /\ outcome' = IF f \in Range(line) THEN outcome
                  ELSE [outcome EXCEPT ![f] = o]
    /\ \/ UNCHANGED doubt
       \/ doubt' = doubt \ {f}
    /\ UNCHANGED line

\* The page reloads.
Forget ==
    /\ line' = <<>>
    /\ outcome' = [f \in Files |-> "idle"]
    /\ doubt' = {}

Next ==
    \/ \E f \in Files : Ask(f)
    \/ \E o \in Outcomes : End(o)
    \/ \E i \in 2 .. Len(line) : Withdraw(i)
    \/ \E f \in doubt, o \in Outcomes \ {"done"} : TakeBack(f, o)
    \/ Forget

Spec == Init /\ [][Next]_<<line, outcome, doubt>>
=============================================================================
