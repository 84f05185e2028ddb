------------------------------- MODULE FourWay -------------------------------
(***************************************************************************)
(* tools/four_way_validation.py: run every vector on four engines, the C++ *)
(* library with and without optimizations in this process, and the Java    *)
(* and OCaml engines in processes of their own that read the assembled     *)
(* program from a file next to the vector, and compare the states they     *)
(* end in.                                                                 *)
(*                                                                         *)
(* A program is a model value.  The engines are outside this repository:   *)
(* each ends a program in one of the states Runs gives it, or fails.  The  *)
(* program files survive the process, so they may be there, from an        *)
(* earlier version of the vector, when it starts.                          *)
(***************************************************************************)
EXTENDS CompareStates, Sequences, FiniteSets

CONSTANTS
    Suites,    \* what sorted(impas_files) may be
    Parse,     \* Parse[t]: [raises, code]; code is EMPTY for no instruction
    EMPTY, ABSENT,
    Stale,     \* programs earlier versions of a vector may have left on disk
    Runs,      \* Runs[e][code]: the states engine e may end code in, or CRASH
    CRASH,
    Expect     \* Expect[t]: [status, regs] and what else the vector asserts

Tests == DOMAIN Parse
ASSUME VectorsAssumption ==
    \A s \in Suites :
        /\ s \in Seq(Tests)
        /\ \A j, k \in 1..Len(s) : s[j] = s[k] => j = k

VARIABLES
    order,     \* sorted(impas_files)
    next,      \* the position in order of the vector at hand
    step,      \* the call of the loop body to make next
    disk,      \* disk[t]: the program in t.impb
    states,    \* states[t][e]: the state engine e ended t in
    ran,       \* ran[t][e]: the program that engine was given
    verdict,   \* verdict[t]: "none", "PASS", "FAIL" or "ERROR"
    passed, failed, exit

vars == <<order, next, step, disk, states, ran, verdict, passed, failed, exit>>

This == order[next]
Code == Parse[This].code
None == [none |-> TRUE]
ASSUME StatesAssumption ==
    \A e \in Engines, t \in Tests :
        Parse[t].code # EMPTY => None \notin Runs[e][Parse[t].code]

Init ==
    /\ order \in Suites
    /\ next = 1 /\ step = "on"
    /\ disk \in [Tests -> Stale \cup {ABSENT}]
    /\ states = [t \in Tests |-> [e \in Engines |-> None]]
    /\ ran = [t \in Tests |-> [e \in Engines |-> ABSENT]]
    /\ verdict = [t \in Tests |-> "none"]
    /\ passed = 0 /\ failed = 0 /\ exit = -1

At(s) == step = s /\ next <= Len(order) /\ exit = -1

(* Fault: an exception printed but not counted. *)
CloseUncounted(v) ==
    /\ verdict' = [verdict EXCEPT ![This] = v]
    /\ passed' = IF v = "PASS" THEN passed + 1 ELSE passed
    /\ failed' = IF v = "FAIL" THEN failed + 1 ELSE failed
    /\ next' = next + 1 /\ step' = "on"
(* The iteration is over. *)
Close(v) ==
    /\ verdict' = [verdict EXCEPT ![This] = v]
    /\ passed' = IF v = "PASS" THEN passed + 1 ELSE passed
    /\ failed' = IF v \in {"FAIL", "ERROR"} THEN failed + 1 ELSE failed
    /\ next' = next + 1 /\ step' = "on"

Ended(e, code, s, then) ==
    /\ states' = [states EXCEPT ![This][e] = s]
    /\ ran' = [ran EXCEPT ![This][e] = code]
    /\ step' = then
    /\ UNCHANGED <<order, next, disk, verdict, passed, failed, exit>>

(* run_cpp: None for a vector without instructions. *)
RunCpp(e, then) ==
    /\ At(e)
    /\ ~Parse[This].raises
    /\ \E s \in IF Code = EMPTY THEN {None} ELSE Runs[e][Code] \ {CRASH} :
          Ended(e, Code, s, then)
RunOn == RunCpp("on", "off")
RunOff == RunCpp("off", "export")

(* The except clause: the vector does not parse, or has no instruction     *)
(* ("status" in None), or an engine process failed.                        *)
Raises ==
    /\ exit = -1 /\ next <= Len(order)
    /\ \/ step = "on" /\ Parse[This].raises
       \/ step = "export" /\ None \in {states[This]["on"], states[This]["off"]}
       \/ step \in {"java", "ocaml"} /\ CRASH \in Runs[step][disk[This]]
    /\ Close("ERROR")
    /\ UNCHANGED <<order, disk, states, ran, exit>>

(* Fault: program files already there are kept. *)
ExportIfAbsent ==
    /\ At("export")
    /\ None \notin {states[This]["on"], states[This]["off"]}
    /\ disk' = IF disk[This] = ABSENT THEN [disk EXCEPT ![This] = Code] ELSE disk
    /\ step' = "java"
    /\ UNCHANGED <<order, next, states, ran, verdict, passed, failed, exit>>
(* Write t.impb and t.impb_data for the other processes. *)
Export ==
    /\ At("export")
    /\ None \notin {states[This]["on"], states[This]["off"]}
    /\ disk' = [disk EXCEPT ![This] = Code]
    /\ step' = "java"
    /\ UNCHANGED <<order, next, states, ran, verdict, passed, failed, exit>>

(* run_java and run_ocaml. *)
RunProcess(e, then) ==
    /\ At(e)
    /\ \E s \in Runs[e][disk[This]] \ {CRASH} : Ended(e, disk[This], s, then)
RunJava == RunProcess("java", "ocaml")
RunOcaml == RunProcess("ocaml", "compare")

-----------------------------------------------------------------------------
Compare ==
    /\ At("compare")
    /\ Close(IF \/ Mismatch(states[This])
                \/ \E e \in Engines : Unmet(states[This][e], Expect[This])
             THEN "FAIL" ELSE "PASS")
    /\ UNCHANGED <<order, disk, states, ran, exit>>

Finish ==
    /\ next > Len(order) /\ exit = -1
    /\ exit' = IF failed > 0 THEN 1 ELSE 0
    /\ UNCHANGED <<order, next, step, disk, states, ran, verdict, passed, failed>>

Next ==
    \/ RunOn
    \/ RunOff
    \/ Raises
    \/ Export
    \/ RunJava
    \/ RunOcaml
    \/ Compare
    \/ Finish

Spec == Init /\ [][Next]_vars

-----------------------------------------------------------------------------
(* Properties. *)

(* Types.  Proved in FourWayProofs, as a part of its invariant.            *)
TypeOK ==
    /\ order \in Suites /\ next \in 1..(Len(order) + 1)
    /\ step \in {"on", "off", "export", "java", "ocaml", "compare"}
    /\ step # "on" => next <= Len(order)
    /\ verdict \in [Tests -> {"none", "PASS", "FAIL", "ERROR"}]
    /\ passed \in Nat /\ failed \in Nat /\ exit \in {-1, 0, 1}

(* "[PASS] ... (All 4 match)": whichever two of the four engines are taken,*)
(* the states they ended a passing vector in agree on every compared field *)
(* and on every scalar register, though only three pairs are compared.     *)
PassMeansConsensus ==
    \A t \in Tests : verdict[t] = "PASS" => Agree(states[t])

(* A passing vector passed on its present text: the two engines that read  *)
(* the program from disk were given what the parser made of the vector in  *)
(* this run, not a file an earlier run left.                               *)
PassOnOwnProgram ==
    \A t \in Tests : verdict[t] = "PASS" =>
        \A e \in Engines : ran[t][e] = Parse[t].code /\ Parse[t].code # EMPTY

(* Exit status 0 means that every vector found was compared and passed: no *)
(* vector is dropped by an exception, an empty file or an engine failure.  *)
GreenMeansAllPass ==
    exit = 0 => \A k \in 1..Len(order) : verdict[order[k]] = "PASS"

(* The tool is a validator whose evidence is the agreement of four states: *)
(* one verdict per vector, in order and final, PASS only on evidence, and  *)
(* exit status 1 exactly when a verdict is bad.                            *)
Sound == {t \in Tests : /\ verdict[t] # "none"
                        /\ \A e \in Engines : states[t][e] # None
                        /\ Agree(states[t])}
Promise == INSTANCE Validator WITH
    Lists <- Suites, Items <- Tests,
    Verdicts <- {"PASS", "FAIL", "ERROR"}, Bad <- {"FAIL", "ERROR"},
    Exits <- [bad \in BOOLEAN |-> IF bad THEN {1} ELSE {0}],
    done <- next - 1, sound <- Sound
ImplementsValidator == Promise!Spec

=============================================================================
