------------------------------- MODULE Parity -------------------------------
(***************************************************************************)
(* tools/cross_compiler_parity.py: compile each expression with the Java   *)
(* compiler, in a process of its own, and with the C++ one, in a library   *)
(* loaded into this process, and compare the bytecode.                     *)
(*                                                                         *)
(* The compilers are outside this repository: each makes one of Programs   *)
(* of an expression, or goes wrong (a status that is not zero or not ok,   *)
(* no JSON, no library), which all ends in the except clause or a continue.*)
(***************************************************************************)
EXTENDS Integers, Sequences, FiniteSets

CONSTANTS
    Expressions,  \* test_expressions, in order, all different
    Programs,     \* bytecode
    NONE          \* no bytecode

Tests == {Expressions[k] : k \in DOMAIN Expressions}

VARIABLES
    next, step,        \* the expression at hand, the call to make next
    javaHex, cppHex,   \* the local variables of main
    made,              \* made[t][c]: what compiler c made of t
    alive,             \* the expressions whose C++ query has not been destroyed
    verdict, passed, exit
vars == <<next, step, javaHex, cppHex, made, alive, verdict, passed, exit>>

This == Expressions[next]
At(s) == step = s /\ next <= Len(Expressions)

Init ==
    /\ next = 1 /\ step = "java" /\ javaHex = NONE /\ cppHex = NONE
    /\ made = [t \in Tests |-> [c \in {"java", "cpp"} |-> NONE]]
    /\ alive = {}
    /\ verdict = [t \in Tests |-> "none"] /\ passed = 0 /\ exit = -1

(* The iteration is over.                                                  *)
Close(v) ==
    /\ verdict' = [verdict EXCEPT ![This] = v]
    /\ passed' = IF v = "PASS" THEN passed + 1 ELSE passed
    /\ next' = next + 1 /\ step' = "java"
Continue(s) == step' = s /\ UNCHANGED <<next, verdict, passed>>

(* run_java_compiler, and the status in its answer.                        *)
RunJava ==
    /\ At("java")
    /\ \/ \E h \in Programs :
              javaHex' = h /\ made' = [made EXCEPT ![This]["java"] = h] /\ Continue("cpp")
       \/ UNCHANGED <<javaHex, made>> /\ Close("ERROR")
    /\ UNCHANGED <<cppHex, alive, exit>>

(* run_cpp_compiler: impulse_compile_cel,                                  *)
Compile ==
    /\ At("cpp")
    /\ \/ alive' = alive \cup {This} /\ Continue("copy")
       \/ UNCHANGED alive /\ Close("ERROR")
    /\ UNCHANGED <<javaHex, cppHex, made, exit>>

(* Fault: bytes that cannot be read leave the last ones in place. *)
CopyKeepsLast ==
    /\ At("copy") /\ Continue("compare")
    /\ \/ \E h \in Programs : cppHex' = h /\ made' = [made EXCEPT ![This]["cpp"] = h]
       \/ UNCHANGED <<cppHex, made>>
    /\ alive' = alive \ {This}
    /\ UNCHANGED <<javaHex, exit>>
(* Fault: the query is not destroyed. *)
CopyOnly ==
    /\ At("copy")
    /\ \/ /\ \E h \in Programs : cppHex' = h /\ made' = [made EXCEPT ![This]["cpp"] = h]
          /\ Continue("compare")
       \/ UNCHANGED <<cppHex, made>> /\ Close("ERROR")
    /\ UNCHANGED <<javaHex, alive, exit>>
(* then the bytes are copied and the query is destroyed, in this order: an *)
(* exception in between leaves it.                                         *)
Copy ==
    /\ At("copy")
    /\ \/ /\ \E h \in Programs : cppHex' = h /\ made' = [made EXCEPT ![This]["cpp"] = h]
          /\ alive' = alive \ {This} /\ Continue("compare")
       \/ UNCHANGED <<cppHex, made, alive>> /\ Close("ERROR")
    /\ UNCHANGED <<javaHex, exit>>

Compare ==
    /\ At("compare")
    /\ Close(IF javaHex = cppHex THEN "PASS" ELSE "FAIL")
    /\ UNCHANGED <<javaHex, cppHex, made, alive, exit>>

(* The last lines are printed; the status is 0.                            *)
Finish ==
    /\ next > Len(Expressions) /\ exit = -1 /\ exit' = 0
    /\ UNCHANGED <<next, step, javaHex, cppHex, made, alive, verdict, passed>>

Next == RunJava \/ Compile \/ Copy \/ Compare \/ Finish
Spec == Init /\ [][Next]_vars

-----------------------------------------------------------------------------
(* Properties. *)

(* The native queries are not leaked by any success or mismatch, only by   *)
(* an exception between the compiler's answer and the copy of its bytes.   *)
QueriesDestroyed ==
    alive \subseteq {t \in Tests : verdict[t] = "ERROR" /\ made[t]["cpp"] = NONE}
                    \cup (IF At("copy") THEN {This} ELSE {})

(* The harness keeps the promise of the validators, with equal programs of *)
(* both compilers as evidence, but for the status: it is 0 also when       *)
(* programs differ.                                                        *)
Sound == {t \in Tests : verdict[t] # "none" /\ made[t]["java"] # NONE
                            /\ made[t]["java"] = made[t]["cpp"]}
Promise == INSTANCE Validator WITH
    Lists <- {Expressions}, Items <- Tests, order <- Expressions,
    Verdicts <- {"PASS", "FAIL", "ERROR"}, Bad <- {"FAIL", "ERROR"},
    Exits <- [bad \in BOOLEAN |-> {0}],
    done <- next - 1, sound <- Sound
ImplementsValidator == Promise!Spec
=============================================================================
