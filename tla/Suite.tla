-------------------------------- MODULE Suite --------------------------------
(***************************************************************************)
(* main() of tools/run_vm_asm_suite.py: run every test vector against the  *)
(* native engine (or only parse it when there is no engine), check what    *)
(* the vector expects, count opcode coverage, and decide the exit status   *)
(* that continuous integration reads.                                      *)
(*                                                                         *)
(* A vector is parsed in one step: by AssemblerProofs!HistoryIndependent   *)
(* the result is a function of the file.  The engine is outside this       *)
(* repository; it is modelled by what main() uses: contexts that are       *)
(* created and destroyed, fuel, and an execution that ends in some state   *)
(* or, without fuel, may not end.                                          *)
(***************************************************************************)
EXTENDS Integers, Sequences, FiniteSets

CONSTANTS
    Suites,    \* what sorted(impas_files) may be: the directory's contents
    NameOf,    \* NameOf[t]: test_file.name, without its directory
    Parse,     \* Parse[t]: [raises, empty, ops, expect]
    Opcodes,   \* the keys of OPCODES
    RegNo,     \* RegNo[check]: the register an R<n> check reads
    FuelEnv,   \* IMPULSE_TEST_ENABLE_FUEL = "1"
    Halts,     \* Halts[t]: the program stops without running out of fuel
    Ends       \* Ends[t]: the states an execution may stop in when it does

Tests == DOMAIN Parse
(* A directory lists each path once. *)
ASSUME SuitesAssumption ==
    \A s \in Suites :
        /\ s \in Seq(Tests)
        /\ \A j, k \in 1..Len(s) : s[j] = s[k] => j = k

(* The names of the checks are no names of registers, and an execution     *)
(* leaves a state.                                                         *)
NamedChecks == {"STATUS", "THROW_CODE", "ZF", "ST", "PC", "CALL_STACK_DEPTH"}
ASSUME ChecksAssumption ==
    DOMAIN RegNo \cap NamedChecks = {} /\ \A c \in DOMAIN RegNo : RegNo[c] \in Nat
NoState == [status |-> "none"]
ASSUME EndsAssumption == \A t \in Tests : NoState \notin Ends[t]

DEFAULT_FUEL == 1000000
MIN_FILE_THRESHOLD == 2
REGISTERS == 64

VARIABLES
    phase,    \* "load", "test", "running", "verify", "done"
    lib,      \* "unknown", "loaded" or "absent"
    order,    \* sorted(impas_files)
    next,     \* the position in order of the test at hand
    verdict,  \* verdict[t]: the line printed for t; "none" before
    passed, failed,
    files,    \* opcode_file_counts: the names of the files using an opcode
    live,     \* the engine's contexts, each under the test it was made for
    fuel,     \* the fuel of the context in use; 0 for none set
    vm,       \* vm[t]: the VmState the execution of t left
    exit      \* the exit status; -1 while running

vars == <<phase, lib, order, next, verdict, passed, failed, files, live, fuel, vm,
          exit>>

This == order[next]
Expect == Parse[This].expect

Init ==
    /\ phase = "load" /\ lib = "unknown" /\ next = 1
    /\ order \in Suites
    /\ verdict = [t \in Tests |-> "none"]
    /\ passed = 0 /\ failed = 0
    /\ files = [op \in Opcodes |-> {}]
    /\ live = {} /\ fuel = 0
    /\ vm = [t \in Tests |-> NoState]
    /\ exit = -1

(* load_native_library succeeds, or main() goes on without an engine.      *)
LoadLibrary ==
    /\ phase = "load"
    /\ lib' \in {"loaded", "absent"}
    /\ IF order = <<>> THEN phase' = "done" /\ exit' = 1
                       ELSE phase' = "test" /\ exit' = exit
    /\ UNCHANGED <<order, next, verdict, passed, failed, files, live, fuel, vm>>

(* Fault: a skipped test counted as passed. *)
CloseSkipPasses(v) ==
    /\ verdict' = [verdict EXCEPT ![This] = v]
    /\ next' = next + 1
    /\ phase' = "test"
    /\ passed' = IF v # "FAIL" THEN passed + 1 ELSE passed
    /\ failed' = IF v = "FAIL" THEN failed + 1 ELSE failed
(* The iteration for a test ends with a printed line and a counter. *)
Close(v) ==
    /\ verdict' = [verdict EXCEPT ![This] = v]
    /\ next' = next + 1
    /\ phase' = "test"
    /\ passed' = IF v \in {"PASS", "PARSED"} THEN passed + 1 ELSE passed
    /\ failed' = IF v = "FAIL" THEN failed + 1 ELSE failed

AtTest == phase = "test" /\ next <= Len(order)

ParseFails ==
    /\ AtTest
    /\ Parse[This].raises
    /\ Close("FAIL")
    /\ UNCHANGED <<lib, order, files, live, fuel, vm, exit>>

Covered ==
    [op \in Opcodes |-> IF op \in Parse[This].ops
                        THEN files[op] \cup {NameOf[This]} ELSE files[op]]

SkipEmpty ==
    /\ AtTest
    /\ ~Parse[This].raises /\ Parse[This].empty
    /\ files' = Covered
    /\ Close("SKIP")
    /\ UNCHANGED <<lib, order, live, fuel, vm, exit>>

ParseOnly ==
    /\ AtTest
    /\ ~Parse[This].raises /\ ~Parse[This].empty
    /\ lib = "absent"
    /\ files' = Covered
    /\ Close("PARSED")
    /\ UNCHANGED <<lib, order, live, fuel, vm, exit>>

(* Fault: only the environment variable gives fuel. *)
FuelFromEnv == IF FuelEnv THEN DEFAULT_FUEL ELSE 0
FuelFor == IF "fuel" \in DOMAIN Expect THEN Expect["fuel"]
           ELSE IF FuelEnv THEN DEFAULT_FUEL ELSE 0

(* Create a context, set its fuel, bind the data, call the engine. *)
Execute ==
    /\ AtTest
    /\ ~Parse[This].raises /\ ~Parse[This].empty
    /\ lib = "loaded"
    /\ files' = Covered
    /\ live' = live \cup {This}
    /\ fuel' = FuelFor
    /\ phase' = "running"
    /\ UNCHANGED <<lib, order, next, verdict, passed, failed, vm, exit>>

(* The engine: a program that does not stop by itself stops when its fuel  *)
(* is used up, and never when it has none.                                 *)
EngineReturns ==
    /\ phase = "running"
    /\ Halts[This] \/ fuel > 0
    /\ \E s \in Ends[This] : vm' = [vm EXCEPT ![This] = s]
    /\ phase' = "verify"
    /\ UNCHANGED <<lib, order, next, verdict, passed, failed, files, live, fuel, exit>>

-----------------------------------------------------------------------------
(* The checks main() makes, each against what it reads in VmState.         *)
Verified == NamedChecks \cup DOMAIN RegNo

(* Fault: the throw code looked for in register 1. *)
ReadsThrowInR1(s, check) ==
    CASE check = "STATUS" -> s.status
      [] check = "THROW_CODE" -> s.regs[1]
      [] check = "ZF" -> 0 \in s.flags
      [] check = "ST" -> 1 \in s.flags
      [] check = "PC" -> s.pc
      [] check = "CALL_STACK_DEPTH" -> s.depth
      [] OTHER -> s.regs[RegNo[check]]
Reads(s, check) ==
    CASE check = "STATUS" -> s.status
      [] check = "THROW_CODE" -> s.regs[0]
      [] check = "ZF" -> 0 \in s.flags
      [] check = "ST" -> 1 \in s.flags          \* state.flags & 2
      [] check = "PC" -> s.pc
      [] check = "CALL_STACK_DEPTH" -> s.depth
      [] OTHER -> s.regs[RegNo[check]]

(* state.registers[idx] raises past the register bank. *)
ReadRaises(check) == check \in DOMAIN RegNo /\ RegNo[check] >= REGISTERS
Checks == DOMAIN Expect \cap Verified

(* Fault: the context destroyed only when the test passes. *)
VerifyKeepsFailed ==
    /\ phase = "verify"
    /\ \A c \in Checks : ~ReadRaises(c)
    /\ LET ok == \A c \in Checks : Reads(vm[This], c) = Expect[c] IN
         /\ live' = IF ok THEN live \ {This} ELSE live
         /\ Close(IF ok THEN "PASS" ELSE "FAIL")
    /\ UNCHANGED <<lib, order, files, fuel, vm, exit>>
Verify ==
    /\ phase = "verify"
    /\ \A c \in Checks : ~ReadRaises(c)
    /\ live' = live \ {This}
    /\ Close(IF \A c \in Checks : Reads(vm[This], c) = Expect[c]
             THEN "PASS" ELSE "FAIL")
    /\ UNCHANGED <<lib, order, files, fuel, vm, exit>>

(* The except clause: the test fails, its context is never destroyed.      *)
VerifyRaises ==
    /\ phase = "verify"
    /\ \E c \in Checks : ReadRaises(c)
    /\ Close("FAIL")
    /\ UNCHANGED <<lib, order, files, live, fuel, vm, exit>>

-----------------------------------------------------------------------------
(* The coverage report and the exit status. *)
Uncovered == {op \in Opcodes : files[op] = {}}
UnderThreshold ==
    {op \in Opcodes : Cardinality(files[op]) \in 1..(MIN_FILE_THRESHOLD - 1)}

(* Fault: opcodes under the threshold are only reported. *)
ReportOnlyThreshold == IF failed > 0 \/ Uncovered # {} THEN 1 ELSE 0
ExitStatus ==
    IF failed > 0 \/ Uncovered # {} \/ UnderThreshold # {} THEN 1 ELSE 0

Report ==
    /\ phase = "test" /\ next > Len(order)
    /\ exit' = ExitStatus
    /\ phase' = "done"
    /\ UNCHANGED <<lib, order, next, verdict, passed, failed, files, live, fuel, vm>>

Next ==
    \/ LoadLibrary
    \/ ParseFails
    \/ SkipEmpty
    \/ ParseOnly
    \/ Execute
    \/ EngineReturns
    \/ Verify
    \/ VerifyRaises
    \/ Report

Spec == Init /\ [][Next]_vars
(* One process that runs until it exits, calling an engine that returns    *)
(* whenever its program or its fuel lets it.                               *)
FairSpec == Spec /\ WF_vars(Next)

-----------------------------------------------------------------------------
(* Properties. *)

(* Types, and that no vector is run without the library.  Proved in        *)
(* SuiteProofs, as a part of its invariant.                                *)
TypeOK ==
    /\ phase \in {"load", "test", "running", "verify", "done"}
    /\ lib \in {"unknown", "loaded", "absent"}
    /\ order \in Suites /\ next \in 1..(Len(order) + 1)
    /\ verdict \in [Tests -> {"none", "PASS", "PARSED", "SKIP", "FAIL"}]
    /\ passed \in Nat /\ failed \in Nat
    /\ files \in [Opcodes -> SUBSET {NameOf[t] : t \in Tests}]
    /\ live \subseteq Tests
    /\ exit \in {-1, 0, 1}
    /\ phase \in {"running", "verify"} => next <= Len(order) /\ lib = "loaded"

With(v) == {t \in Tests : verdict[t] \in v}

(* No test is lost or counted twice, whichever of the loop's six ways out  *)
(* it leaves by: the counters are the numbers of tests with each outcome,  *)
(* and exactly the tests before the one at hand have one.                  *)
Accounting ==
    /\ passed = Cardinality(With({"PASS", "PARSED"}))
    /\ failed = Cardinality(With({"FAIL"}))
    /\ \A k \in 1..Len(order) : verdict[order[k]] = "none" <=> k >= next
    /\ \A t \in Tests : verdict[t] # "none" => \E k \in 1..Len(order) : order[k] = t

(* A green run is earned: exit status 0 is reached only when no test       *)
(* failed, no vector failed to parse, and every opcode of the table is in  *)
(* at least two vectors.                                                   *)
GreenIsEarned ==
    exit = 0 =>
        /\ \A k \in 1..Len(order) :
              /\ ~Parse[order[k]].raises
              /\ verdict[order[k]] \in {"PASS", "PARSED", "SKIP"}
        /\ \A op \in Opcodes : \E j, k \in 1..Len(order) :
              /\ j # k
              /\ op \in Parse[order[j]].ops /\ op \in Parse[order[k]].ops

(* A test printed as PASS ended in a state that has what its vector        *)
(* expects of the status, the throw code (register 0 after a throw), the   *)
(* zero flag, the program counter, the call depth and the registers.       *)
Asserted(s, check) ==
    [STATUS |-> s.status, THROW_CODE |-> s.regs[0], PC |-> s.pc,
     CALL_STACK_DEPTH |-> s.depth, ZF |-> 0 \in s.flags][check]
Met(t) ==
    \A c \in DOMAIN Parse[t].expect :
        /\ c \in Verified \ ({"ST"} \cup DOMAIN RegNo)
             => Parse[t].expect[c] = Asserted(vm[t], c)
        /\ c \in DOMAIN RegNo =>
             /\ RegNo[c] < REGISTERS
             /\ Parse[t].expect[c] = vm[t].regs[RegNo[c]]
PassMeansExpected == \A t \in Tests : verdict[t] = "PASS" => Met(t)

(* Between two tests the engine holds no context but those of tests that   *)
(* failed on an exception after their context was created.                 *)
ContextsReleased ==
    phase \in {"test", "done"} =>
        \A t \in live : /\ verdict[t] = "FAIL"
                        /\ \E c \in DOMAIN Parse[t].expect : ReadRaises(c)

(* The suite is a validator whose evidence is the state a vector ended in. *)
(* Status 1 may also be due to coverage.                                   *)
Sound == {t \in Tests : verdict[t] # "none" /\ vm[t] # NoState /\ Met(t)}
Promise == INSTANCE Validator WITH
    Lists <- Suites, Items <- Tests,
    Verdicts <- {"PASS", "PARSED", "SKIP", "FAIL"}, Bad <- {"FAIL"},
    Exits <- [bad \in BOOLEAN |-> IF bad THEN {1} ELSE {0, 1}],
    done <- next - 1, sound <- Sound
ImplementsValidator == Promise!Spec

(* The suite ends: every vector with a program that loops forever brings   *)
(* its own fuel, so that main() reaches an exit status.                    *)
Terminates == <>(exit # -1)

-----------------------------------------------------------------------------
(* What the documents say the suite checks. *)

(* docs/VM_SPECIFICATION.md 2.3: the stable flag ST is bit 4 of FLAGS; a   *)
(* vector that expects ST passes only when that bit is as it expects.      *)
StableFlagIsBit4 ==
    \A t \in Tests :
        verdict[t] = "PASS" /\ "ST" \in DOMAIN Parse[t].expect
            => Parse[t].expect["ST"] = (4 \in vm[t].flags)
=============================================================================
