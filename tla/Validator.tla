------------------------------ MODULE Validator ------------------------------
(***************************************************************************)
(* What any of the validation tools promises, whatever engines it runs and *)
(* however it compares them: it goes through a list, gives every item one  *)
(* verdict and never another, gives PASS only to an item its evidence is   *)
(* sound for, and reports a status that depends on the verdicts alone.     *)
(* Each tool's module says what its evidence is.                           *)
(***************************************************************************)
EXTENDS Integers, Sequences

CONSTANTS
    Lists,     \* the lists a run may be given
    Items,     \* what they list
    Verdicts, Bad,
    Exits      \* Exits[b]: the statuses allowed when some verdict is bad (b) or none

VARIABLES
    order,     \* the list
    done,      \* how many of its items have a verdict
    verdict,
    sound,     \* the items whose evidence supports a pass
    exit
vars == <<order, done, verdict, sound, exit>>

Init ==
    /\ order \in Lists /\ done = 0
    /\ verdict = [i \in Items |-> "none"]
    /\ sound = {} /\ exit = -1

Decide(v) ==
    /\ done < Len(order) /\ exit = -1
    /\ done' = done + 1
    /\ verdict' = [verdict EXCEPT ![order[done + 1]] = v]
    /\ sound' \in {sound, sound \cup {order[done + 1]}}
    /\ v = "PASS" => order[done + 1] \in sound'
    /\ UNCHANGED <<order, exit>>

Stop ==
    /\ done = Len(order) /\ exit = -1
    /\ exit' \in Exits[\E i \in Items : verdict[i] \in Bad]
    /\ UNCHANGED <<order, done, verdict, sound>>

Next == Stop \/ \E v \in Verdicts : Decide(v)
Spec == Init /\ [][Next]_vars
=============================================================================
