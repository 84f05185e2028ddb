------------------------------ MODULE Comparers ------------------------------
(***************************************************************************)
(* The two tools that compare engines or compilers without leaving files   *)
(* behind, tools/three_way_validation.py and                               *)
(* tools/cross_compiler_parity.py; a behaviour is a run of one of them.    *)
(***************************************************************************)
EXTENDS ThreeWay

CONSTANTS Expressions, Programs, NONE   \* Parity's
ASSUME ParityAssumption ==
    /\ Len(Expressions) \in Nat /\ DOMAIN Expressions = 1..Len(Expressions)
    /\ \A j, k \in 1..Len(Expressions) : Expressions[j] = Expressions[k] => j = k
    /\ NONE \notin Programs

VARIABLES tool, at, call, javaHex, cppHex, made, alive, judged, agreed, status
parity == <<at, call, javaHex, cppHex, made, alive, judged, agreed, status>>
P == INSTANCE Parity WITH
    next <- at, step <- call, verdict <- judged, passed <- agreed, exit <- status

ComparersInit == Init /\ P!Init /\ tool \in {"three_way", "parity"}
ComparersNext ==
    \/ tool = "three_way" /\ Next /\ UNCHANGED <<tool, parity>>
    \/ tool = "parity" /\ P!Next /\ UNCHANGED <<tool, vars>>
ComparersSpec == ComparersInit /\ [][ComparersNext]_<<tool, vars, parity>>

(* Parity: the native queries are destroyed but for an exception between   *)
(* the compiler's answer and the copy of its bytes.                        *)
QueriesDestroyed == P!QueriesDestroyed
(* Parity keeps the promise of the validators, but for the status, which   *)
(* is 0 also when programs differ.                                         *)
ParityImplementsValidator == P!ImplementsValidator
=============================================================================
