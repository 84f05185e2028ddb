------------------------------ MODULE ThreeWay ------------------------------
(***************************************************************************)
(* tools/three_way_validation.py: run every vector on the C++ library in   *)
(* this process and on the Java and OCaml engines in processes of their    *)
(* own, which assemble the vector's text themselves, and compare the       *)
(* states the three end in.  Nothing is handed over through files, and     *)
(* the vector's own assertions are not looked at.                          *)
(*                                                                         *)
(* The engines are outside this repository: each ends a vector in one of   *)
(* the states Runs gives it, or fails.  A state records the compared       *)
(* fields and the registers an engine chose to print.                      *)
(***************************************************************************)
EXTENDS Integers, Sequences, FiniteSets

CONSTANTS
    Suites,    \* what sorted(impas_files) may be
    Runs,      \* Runs[e][t]: states, CRASH, and EMPTY from "cpp" (no instruction)
    CRASH, EMPTY,
    Regs, Fields

Engines == {"cpp", "java", "ocaml"}
Tests == DOMAIN Runs["cpp"]
ASSUME SuitesAssumption ==
    \A s \in Suites :
        /\ s \in Seq(Tests)
        /\ \A j, k \in 1..Len(s) : s[j] = s[k] => j = k

VARIABLES
    order, next,   \* sorted(impas_files), and the position of the vector at hand
    step,          \* the call of the loop body to make next
    states,        \* states[t][e]: the state engine e ended t in
    verdict, passed, failed, skipped, exit
vars == <<order, next, step, states, verdict, passed, failed, skipped, exit>>

This == order[next]

Init ==
    /\ order \in Suites /\ next = 1 /\ step = "cpp"
    /\ states = [t \in Tests |-> [e \in Engines |-> EMPTY]]
    /\ verdict = [t \in Tests |-> "none"]
    /\ passed = 0 /\ failed = 0 /\ skipped = 0 /\ exit = -1

At(s) == step = s /\ next <= Len(order) /\ exit = -1

(* run_cpp, run_java and run_ocaml.                                        *)
Run(e, then) ==
    /\ At(e)
    /\ \E s \in Runs[e][This] \ {CRASH, EMPTY} :
          states' = [states EXCEPT ![This][e] = s]
    /\ step' = then
    /\ UNCHANGED <<order, next, verdict, passed, failed, skipped, exit>>
RunCpp == Run("cpp", "java")
RunJava == Run("java", "ocaml")
RunOcaml == Run("ocaml", "compare")

(* The iteration is over. *)
Close(v) ==
    /\ verdict' = [verdict EXCEPT ![This] = v]
    /\ passed' = IF v = "PASS" THEN passed + 1 ELSE passed
    /\ failed' = IF v \in {"FAIL", "ERROR"} THEN failed + 1 ELSE failed
    /\ skipped' = IF v = "SKIP" THEN skipped + 1 ELSE skipped
    /\ next' = next + 1 /\ step' = "cpp"
    /\ UNCHANGED <<order, states, exit>>

SkipEmpty == At("cpp") /\ EMPTY \in Runs["cpp"][This] /\ Close("SKIP")

(* Fault: an engine that is not there skips the vector.                    *)
RaisesSkips == \E e \in Engines : At(e) /\ CRASH \in Runs[e][This] /\ Close("SKIP")
(* The except clause: the vector does not parse, Java returned non-zero,   *)
(* or OCaml printed something that is not a state.                         *)
Raises == \E e \in Engines : At(e) /\ CRASH \in Runs[e][This] /\ Close("ERROR")

(* A register that an engine did not print counts as 0.                    *)
Value(s, r) == IF r \in DOMAIN s.regs THEN s.regs[r] ELSE 0

(* Fault: the loop over the registers looks at those Java printed only.    *)
DiffersWherePrinted(c, j, o) ==
    \/ \E f \in Fields : c[f] # j[f] \/ c[f] # o[f]
    \/ \E r \in DOMAIN j.regs : Value(c, r) # Value(j, r) \/ Value(c, r) # Value(o, r)
(* compare_state; all registers are compared, handles too.                 *)
Differs(c, j, o) ==
    \/ \E f \in Fields : c[f] # j[f] \/ c[f] # o[f]
    \/ \E r \in Regs : Value(c, r) # Value(j, r) \/ Value(c, r) # Value(o, r)

Compare ==
    /\ At("compare")
    /\ Close(IF Differs(states[This]["cpp"], states[This]["java"], states[This]["ocaml"])
             THEN "FAIL" ELSE "PASS")

Finish ==
    /\ next > Len(order) /\ exit = -1
    /\ exit' = IF failed > 0 THEN 1 ELSE 0
    /\ UNCHANGED <<order, next, step, states, verdict, passed, failed, skipped>>

Next ==
    \/ RunCpp \/ SkipEmpty
    \/ RunJava
    \/ RunOcaml
    \/ Raises
    \/ Compare
    \/ Finish
Spec == Init /\ [][Next]_vars

-----------------------------------------------------------------------------
(* Properties. *)

(* "(All 3 match)": any two engines agree on every compared field and on   *)
(* the value of every register, also of those one of them did not print.   *)
Agree(s) ==
    \A d, e \in Engines :
        /\ \A f \in Fields : s[d][f] = s[e][f]
        /\ \A r \in Regs : Value(s[d], r) = Value(s[e], r)
(* Exit status 0 leaves nothing unexplained: each vector found has passed, *)
(* or the parser made no instruction of it.                                *)
GreenIsExplained ==
    exit = 0 =>
        \A k \in 1..Len(order) :
            \/ verdict[order[k]] = "PASS"
            \/ verdict[order[k]] = "SKIP" /\ EMPTY \in Runs["cpp"][order[k]]

(* The tool keeps the promise of the validators, with the agreement of     *)
(* three states as evidence.                                               *)
Sound == {t \in Tests : /\ verdict[t] # "none"
                        /\ \A e \in Engines : states[t][e] # EMPTY
                        /\ Agree(states[t])}
Promise == INSTANCE Validator WITH
    Lists <- Suites, Items <- Tests,
    Verdicts <- {"PASS", "FAIL", "SKIP", "ERROR"}, Bad <- {"FAIL", "ERROR"},
    Exits <- [bad \in BOOLEAN |-> IF bad THEN {1} ELSE {0}],
    done <- next - 1, sound <- Sound
ImplementsValidator == Promise!Spec
=============================================================================
