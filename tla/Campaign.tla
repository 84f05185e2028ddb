------------------------------- MODULE Campaign -------------------------------
(***************************************************************************)
(* The campaign of tools/fuzz_vm_contracts.py main(): generate a program   *)
(* from each seed, hand it to four engines through three temporary files   *)
(* of fixed names, compare the states they end in, keep the program when   *)
(* they differ, and remove the files.                                      *)
(*                                                                         *)
(* Procs are processes running the tool in one checkout: they share the    *)
(* files, and nothing locks them.  A write truncates the file and fills it *)
(* when it is closed.  A process may be killed or interrupted, or a write  *)
(* may fail, MISHAPS times; and it may be started again, STARTS times.     *)
(*                                                                         *)
(* What generate_program makes of a seed (module Fuzzer) is a model value  *)
(* here, and the engines are outside this repository: each ends a program  *)
(* in one of the states Runs gives it, or fails, and when the files it     *)
(* reads do not agree it may do anything in Mixed.                         *)
(***************************************************************************)
EXTENDS CompareStates, Sequences, FiniteSets

CONSTANTS
    Procs,
    Args,              \* command lines: [seed, iterations, max]
    Prog,              \* Prog[<<seed, max>>]: the generated program
    ABSENT, EMPTY,     \* no file; a file that is truncated and not yet filled
    Runs, CRASH, Mixed,
    STARTS, MISHAPS

Files == <<"impas", "impb", "data">>
Seeds == {key[1] : key \in DOMAIN Prog}
ASSUME ArgsAssumption ==
    /\ Args # {}
    /\ \A a \in Args :
          /\ a.seed \in Int /\ a.iterations \in Nat \ {0}
          /\ \A j \in 0..(a.iterations - 1) : <<a.seed + j, a.max>> \in DOMAIN Prog
    /\ EMPTY # ABSENT /\ \A key \in DOMAIN Prog : Prog[key] \notin {EMPTY, ABSENT}
(* Runs knows every engine and every program that may be generated.        *)
ASSUME EnginesAssumption ==
    \A e \in Engines, key \in DOMAIN Prog : Prog[key] \in DOMAIN Runs[e]

VARIABLES
    at,          \* at[p]: the call to make next
    args, i,     \* the command line; the iteration
    parsed,      \* what parse_impas_file made of the file
    seen,        \* seen[p][e]: the programs in the files engine e read
    states,      \* states[p][e]: the state it ended in
    passed, diverged,
    log,         \* log[p][i]: what became of iteration i (printed, not kept)
    disk,        \* disk[f]: the program in temporary file f
    dump,        \* dump[s]: the program in fuzz_repro_seed_<s>.impas
    starts, mishaps,
    alone        \* the checkout has one process, ended and started again
vars == <<at, args, i, parsed, seen, states, passed, diverged, log, disk, dump,
          starts, mishaps, alone>>

Idle == {"idle", "done", "dead"}
(* The three conditional unlinks of the finally clause, then the for.      *)
Exists == <<"exists 1", "exists 2", "exists 3", "next">>
Unlink == <<"unlink 1", "unlink 2", "unlink 3">>
None == [none |-> TRUE]
NoRun == [e \in Engines |-> {}]
Text(p) == Prog[<<args[p].seed + i[p], args[p].max>>]

Init ==
    /\ at = [p \in Procs |-> "idle"] /\ args = [p \in Procs |-> CHOOSE a \in Args : TRUE]
    /\ i = [p \in Procs |-> 0]
    /\ parsed = [p \in Procs |-> ABSENT]
    /\ seen = [p \in Procs |-> NoRun] /\ states = [p \in Procs |-> [e \in Engines |-> None]]
    /\ passed = [p \in Procs |-> 0] /\ diverged = [p \in Procs |-> 0]
    /\ log = [p \in Procs |-> <<>>]
    /\ disk = [f \in {Files[k] : k \in 1..3} |-> ABSENT]
    /\ dump = [s \in Seeds |-> ABSENT]
    /\ starts = 0 /\ mishaps = 0 /\ alone \in BOOLEAN

Goto(p, l) == at' = [at EXCEPT ![p] = l]
KeepFiles == UNCHANGED <<disk, dump>>
KeepRun == UNCHANGED <<args, i, parsed, seen, states>>
KeepCounts == UNCHANGED <<passed, diverged, log>>
(* What the try clause computed is not used after it.                      *)
Forget(p) ==
    /\ parsed' = [parsed EXCEPT ![p] = ABSENT]
    /\ seen' = [seen EXCEPT ![p] = NoRun]
    /\ states' = [states EXCEPT ![p] = [e \in Engines |-> None]]
    /\ UNCHANGED <<args, i>>
KeepWorld == UNCHANGED <<starts, mishaps, alone>>

Start(p) ==
    /\ at[p] \in Idle /\ starts < STARTS
    /\ alone => \A q \in Procs \ {p} : at[q] = "idle"
    /\ starts' = starts + 1
    /\ \E a \in Args : args' = [args EXCEPT ![p] = a]
    /\ i' = [i EXCEPT ![p] = 0]
    /\ passed' = [passed EXCEPT ![p] = 0] /\ diverged' = [diverged EXCEPT ![p] = 0]
    /\ log' = [log EXCEPT ![p] = <<>>]
    /\ Goto(p, "open")
    /\ UNCHANGED <<parsed, seen, states, disk, dump, mishaps, alone>>

-----------------------------------------------------------------------------
(* Writing a temporary file: open truncates, the end of the with fills.    *)
Truncate(p, l, f, then) ==
    /\ at[p] = l /\ Goto(p, then)
    /\ disk' = [disk EXCEPT ![f] = EMPTY]
    /\ UNCHANGED dump /\ KeepRun /\ KeepCounts /\ KeepWorld
Fill(p, l, f, text, then) ==
    /\ at[p] = l /\ Goto(p, then)
    /\ disk' = [disk EXCEPT ![f] = text]
    /\ UNCHANGED dump /\ KeepRun /\ KeepCounts /\ KeepWorld

WriteText(p) == Truncate(p, "open", "impas", "text") \/ Fill(p, "text", "impas", Text(p), "parse")

Parse(p) ==
    /\ at[p] = "parse" /\ disk["impas"] # ABSENT
    /\ parsed' = [parsed EXCEPT ![p] = disk["impas"]]
    /\ Goto(p, "impb")
    /\ UNCHANGED <<args, i, seen, states>> /\ KeepFiles /\ KeepCounts /\ KeepWorld

(* Fault: a binary already there is taken to be this program's.            *)
WriteBinaryOnce(p) ==
    \/ IF disk["impb"] = ABSENT THEN Truncate(p, "impb", "impb", "code")
       ELSE Fill(p, "impb", "impb", disk["impb"], "data")
    \/ Fill(p, "code", "impb", parsed[p], "data")
    \/ Truncate(p, "data", "data", "bytes") \/ Fill(p, "bytes", "data", parsed[p], "on")
WriteBinary(p) ==
    \/ Truncate(p, "impb", "impb", "code") \/ Fill(p, "code", "impb", parsed[p], "data")
    \/ Truncate(p, "data", "data", "bytes") \/ Fill(p, "bytes", "data", parsed[p], "on")

(* What an engine reads: the two libraries are given the text, parsed      *)
(* again from the file, Java all three files and OCaml the two binaries.   *)
Reads(e) ==
    CASE e \in {"on", "off"} -> {disk["impas"]}
      [] e = "java" -> {disk["impas"], disk["impb"], disk["data"]}
      [] e = "ocaml" -> {disk["impb"], disk["data"]}
Outcomes(e) ==
    CASE e \in {"on", "off"} /\ Reads(e) = {ABSENT} -> {CRASH}
      [] e \in {"on", "off"} /\ Reads(e) = {EMPTY} -> {None}
      [] \E g \in DOMAIN Runs[e] : Reads(e) = {g} -> Runs[e][CHOOSE g \in Reads(e) : TRUE]
      [] OTHER -> Mixed

Run(p, e, then) ==
    /\ at[p] = e
    /\ seen' = [seen EXCEPT ![p][e] = Reads(e)]
    /\ \E s \in Outcomes(e) \ {CRASH} : states' = [states EXCEPT ![p][e] = s]
    /\ Goto(p, then)
    /\ UNCHANGED <<args, i, parsed>> /\ KeepFiles /\ KeepCounts /\ KeepWorld
RunEngine(p) ==
    \/ Run(p, "on", "off") \/ Run(p, "off", "java")
    \/ Run(p, "java", "ocaml") \/ Run(p, "ocaml", "compare")

-----------------------------------------------------------------------------
Log(p, outcome) == log' = [log EXCEPT ![p] = Append(@, outcome)]

Compare(p) ==
    /\ at[p] = "compare" /\ None \notin {states[p]["on"], states[p]["off"]}
    /\ IF Mismatch(states[p])
       THEN /\ diverged' = [diverged EXCEPT ![p] = @ + 1]
            /\ Goto(p, "dump") /\ UNCHANGED <<passed, log>>
       ELSE /\ passed' = [passed EXCEPT ![p] = @ + 1]
            /\ Log(p, "CONSENSUS") /\ Goto(p, Exists[1]) /\ UNCHANGED diverged
    /\ Forget(p) /\ KeepFiles /\ KeepWorld

(* Fault: reproductions numbered by divergence instead of by seed.         *)
ReproByCount(p) == args[p].seed + diverged[p] - 1
Repro(p) == args[p].seed + i[p]
Dump(p) ==
    /\ \/ /\ at[p] = "dump" /\ Goto(p, "saving")
          /\ dump' = [dump EXCEPT ![Repro(p)] = EMPTY]
          /\ UNCHANGED log
       \/ /\ at[p] = "saving" /\ Goto(p, Exists[1])
          /\ dump' = [dump EXCEPT ![Repro(p)] = Text(p)]
          /\ Log(p, "DIVERGENCE")
    /\ UNCHANGED <<passed, diverged, disk>> /\ KeepRun /\ KeepWorld

(* Fault: an iteration that raises counted as passed.                      *)
ExceptPasses(p) ==
    /\ passed' = [passed EXCEPT ![p] = @ + 1]
    /\ Log(p, "ERROR") /\ Goto(p, Exists[1])
    /\ UNCHANGED diverged /\ Forget(p) /\ KeepFiles
(* Fault: the removals after the except clause instead of in a finally.    *)
ExceptSkipsFinally(p) ==
    /\ Log(p, "ERROR") /\ Goto(p, "next")
    /\ UNCHANGED <<passed, diverged>> /\ Forget(p) /\ KeepFiles
(* The except clause prints and counts nothing, then the finally clause.   *)
Except(p) ==
    /\ Log(p, "ERROR") /\ Goto(p, Exists[1])
    /\ UNCHANGED <<passed, diverged>> /\ Forget(p) /\ KeepFiles

Raises(p) ==
    /\ \/ at[p] = "parse" /\ disk["impas"] = ABSENT
       \/ at[p] \in Engines /\ CRASH \in Outcomes(at[p])
       \/ at[p] = "compare" /\ None \in {states[p]["on"], states[p]["off"]}
    /\ Except(p) /\ KeepWorld

(* Fault: the binaries removed only if their text still is there.          *)
CleanUpChained(p) ==
    /\ \E k \in 1..3 :
        \/ /\ at[p] = Exists[k]
           /\ Goto(p, IF disk[Files[k]] # ABSENT THEN Unlink[k] ELSE "next")
           /\ UNCHANGED disk
        \/ /\ at[p] = Unlink[k] /\ disk[Files[k]] # ABSENT
           /\ disk' = [disk EXCEPT ![Files[k]] = ABSENT]
           /\ Goto(p, Exists[k + 1])
    /\ UNCHANGED dump /\ KeepRun /\ KeepCounts /\ KeepWorld
(* The finally clause, file by file.                                       *)
CleanUp(p) ==
    /\ \E k \in 1..3 :
        \/ /\ at[p] = Exists[k]
           /\ Goto(p, IF disk[Files[k]] # ABSENT THEN Unlink[k] ELSE Exists[k + 1])
           /\ UNCHANGED disk
        \/ /\ at[p] = Unlink[k] /\ disk[Files[k]] # ABSENT
           /\ disk' = [disk EXCEPT ![Files[k]] = ABSENT]
           /\ Goto(p, Exists[k + 1])
    /\ UNCHANGED dump /\ KeepRun /\ KeepCounts /\ KeepWorld
(* Another process removed the file after exists() saw it: unlink raises   *)
(* out of the finally clause and ends this one.                            *)
UnlinkRaises(p) ==
    /\ \E k \in 1..3 : at[p] = Unlink[k] /\ disk[Files[k]] = ABSENT
    /\ Goto(p, "dead")
    /\ KeepRun /\ KeepFiles /\ KeepCounts /\ KeepWorld

Advance(p) ==
    /\ at[p] = "next"
    /\ IF i[p] + 1 < args[p].iterations
       THEN i' = [i EXCEPT ![p] = @ + 1] /\ Goto(p, "open")
       ELSE Goto(p, "done") /\ UNCHANGED i
    /\ UNCHANGED <<args, parsed, seen, states>> /\ KeepWorld
    /\ KeepFiles /\ KeepCounts

-----------------------------------------------------------------------------
Mishap(p) ==
    /\ at[p] \notin Idle /\ mishaps < MISHAPS /\ mishaps' = mishaps + 1
    /\ UNCHANGED <<starts, alone>>

(* A write fails: in the try clause it is one more exception; the program  *)
(* text is written before it, and nothing cleans up.                       *)
WriteFails(p) ==
    /\ Mishap(p)
    /\ \/ /\ at[p] \in {"impb", "code", "data", "bytes", "dump", "saving"}
          /\ Except(p)
       \/ /\ at[p] \in {"open", "text"}
          /\ Goto(p, "dead")
          /\ KeepRun /\ KeepFiles /\ KeepCounts

Killed(p) ==
    /\ Mishap(p) /\ Goto(p, "dead")
    /\ Forget(p) /\ KeepFiles /\ KeepCounts

Step(p) ==
    \/ WriteText(p) \/ Parse(p) \/ WriteBinary(p) \/ RunEngine(p)
    \/ Compare(p) \/ Dump(p) \/ Raises(p)
    \/ CleanUp(p) \/ UnlinkRaises(p)
    \/ Advance(p)
Next == \E p \in Procs : Start(p) \/ Step(p) \/ WriteFails(p) \/ Killed(p)
Spec == Init /\ [][Next]_vars

-----------------------------------------------------------------------------
(* Properties. *)

(* What is compared, counted and saved is the program of this iteration:   *)
(* with one process at a time no engine read a file that an earlier        *)
(* iteration, or a process that was killed, has left.                      *)
AloneRunsOwnProgram ==
    alone => \A p \in Procs :
        at[p] = "compare" => \A e \in Engines : seen[p][e] = {Text(p)}

(* The printed totals are those of the iterations: a consensus and a       *)
(* divergence are counted once and an error is neither, whatever raises.   *)
Totals ==
    \A p \in Procs :
        LET Count(o) == Cardinality({k \in 1..Len(log[p]) : log[p][k] = o})
        IN /\ passed[p] = Count("CONSENSUS")
           /\ mishaps = 0 /\ at[p] \notin {"dump", "saving"}
                => diverged[p] = Count("DIVERGENCE")
           /\ at[p] = "open" => Len(log[p]) = i[p]
           /\ at[p] = "done" => Len(log[p]) = args[p].iterations

(* Two campaigns in one checkout may compare each other's programs, but a  *)
(* reproduction is generated from the seed in its name even then.          *)
OfItsSeed(s) == dump[s] \in {Prog[key] : key \in {k \in DOMAIN Prog : k[1] = s}}
ReprosKeepTheirSeed ==
    \A s \in Seeds : dump[s] \notin {ABSENT, EMPTY} => OfItsSeed(s)

(* With one process at a time the four engines do disagree on what a       *)
(* complete reproduction holds.                                            *)
Disagree(g) ==
    \E s \in [Engines -> UNION {Runs[e][g] : e \in Engines}] :
        (\A e \in Engines : s[e] \in Runs[e][g] \ {CRASH}) /\ Mismatch(s)
AloneReproduces ==
    alone => \A s \in Seeds : dump[s] \notin {ABSENT, EMPTY} => Disagree(dump[s])

(* A campaign that has the checkout to itself and ends normally leaves no  *)
(* temporary file, not even those of a run that was killed before it.      *)
Clean == \A k \in 1..3 : disk[Files[k]] = ABSENT
AloneEndsClean == alone => \A p \in Procs : at[p] = "done" => Clean

(* When all campaigns have stopped and none was killed, no temporary file  *)
(* is left, though one may have died in its clean-up because another       *)
(* removed a file between its exists() and its unlink().                   *)
TidyTogether == mishaps = 0 /\ (\A p \in Procs : at[p] \in Idle) => Clean
=============================================================================
