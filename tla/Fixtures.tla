------------------------------ MODULE Fixtures ------------------------------
(***************************************************************************)
(* tools/generate_fixtures.py: have the impulse-graph tool make the eight  *)
(* canonical fixtures, one after the other and in place, five of them from *)
(* edge lists staged in a temporary directory, then inspect every fixture  *)
(* in the output directory.                                                *)
(*                                                                         *)
(* The tool is outside this repository: a call of it succeeds and writes   *)
(* the fixture, or fails and leaves what it likes.                         *)
(***************************************************************************)
EXTENDS Integers, Sequences, SequencesExt, FiniteSets

CONSTANTS
    Strays,    \* other files of the output directory that match g*.imps, sorted
    RUNS,      \* bound: how often the generator is run
    ABSENT, TORN
ASSUME FixturesAssumption ==
    /\ RUNS \in Nat /\ Strays \in Seq(STRING)
    /\ ABSENT \notin Nat /\ TORN \notin Nat

(* In the order they are made.                                             *)
Order == <<"g0", "g1", "g2", "g3", "g4", "g5", "g7", "g6">>
Fixtures == ToSet(Order)
Sorted == <<"g0", "g1", "g2", "g3", "g4", "g5", "g6", "g7">> \o Strays
Staged == {"g2", "g3", "g4", "g5", "g7"}

(* Fault: the cycle closed one node early. *)
CycleShort == {<<i, (i + 1) % 64>> : i \in 0..64}
(* g3. *)
Cycle == {<<i, (i + 1) % 65>> : i \in 0..64}
(* The edge lists, a set for every relation.                               *)
Edges ==
    [g2 |-> <<{<<0, 1>>, <<0, 2>>, <<1, 3>>, <<2, 3>>}>>,
     g3 |-> <<Cycle>>,
     g4 |-> <<({0} \X (1..5)) \cup ({10} \X (11..15)) \cup ({20} \X (21..24))>>,
     g5 |-> <<{<<"u0", "d0">>, <<"u1", "d1">>, <<"u2", "d2">>},
              {<<"d0", "ip0">>, <<"d1", "ip1">>, <<"d2", "ip2">>}>>,
     g7 |-> <<{<<"alice", "doc1">>, <<"alice", "doc2">>, <<"bob", "doc2">>},
              {<<"alice", "doc1">>, <<"charlie", "doc3">>}>>]

VARIABLES
    run,       \* the runs begun so far
    next,      \* the fixture made next, by its place in Order; 0 when no run is on
    staging,   \* the temporary directories, as the runs they belong to
    staged,    \* the edge lists are written for the fixture made next
    files,     \* files[f]: the run that made it
    list, ok,  \* the files left to inspect; those that passed in this run
    exit       \* of the last run; -1 before its end, and when it was killed
vars == <<run, next, staging, staged, files, list, ok, exit>>

All == Len(Order) + 1
This == Order[next]
Making == next \in 1..Len(Order)

Init ==
    /\ run = 0 /\ next = 0 /\ staging = {} /\ staged = FALSE
    /\ files \in {[f \in ToSet(Sorted) |-> IF f \in Fixtures THEN v ELSE 0] : v \in {0, ABSENT}}
    /\ list = {} /\ ok = {} /\ exit = -1

(* find_impulse_cli raises when there is no tool.                          *)
Start ==
    /\ next = 0 /\ run < RUNS /\ run' = run + 1
    /\ ok' = {} /\ list' = {}
    /\ \/ next' = 1 /\ exit' = -1
       \/ next' = 0 /\ exit' = 1
    /\ UNCHANGED <<staging, staged, files>>

(* The end of a run that leaves the with block on its way.                 *)
End(status) ==
    /\ next' = 0 /\ exit' = status /\ staged' = FALSE
    /\ staging' = staging \ {run}

Stage ==
    /\ Making /\ This \in Staged /\ ~staged
    /\ staged' = TRUE /\ staging' = staging \cup {run}
    /\ UNCHANGED <<run, next, files, list, ok, exit>>
(* A directory that cannot be made, an edge list or a manifest that cannot *)
(* be written.                                                             *)
StageFails ==
    /\ Making /\ This \in Staged /\ ~staged
    /\ End(1) /\ UNCHANGED <<run, files, list, ok>>

Ready == Making /\ (This \in Staged => staged)
(* The next fixture; g6 is made after the with block.                      *)
Advance ==
    /\ next' = next + 1 /\ staged' = FALSE
    /\ staging' = IF next < Len(Order) /\ Order[next + 1] \in Staged THEN staging
                  ELSE staging \ {run}
    /\ UNCHANGED <<run, list, ok, exit>>
(* Fault: a fixture that is already there is not made again. *)
SucceedsIfMissing ==
    /\ Ready /\ Advance
    /\ files' = [files EXCEPT ![This] = IF @ = ABSENT THEN run ELSE @]
Succeeds ==
    /\ Ready /\ Advance
    /\ files' = [files EXCEPT ![This] = run]
Damage == files' \in {[files EXCEPT ![This] = v] : v \in {files[This], TORN, ABSENT}}
(* Fault: check=True forgotten. *)
FailsUnchecked == Ready /\ Damage /\ Advance
(* CalledProcessError. *)
Fails == Ready /\ Damage /\ End(1) /\ UNCHANGED <<run, list, ok>>

(* sorted(fixtures_dir.glob("g*.imps")): what is there.                    *)
Glob ==
    /\ next = All /\ next' = All + 1
    /\ list' = {f \in ToSet(Sorted) : files[f] # ABSENT}
    /\ UNCHANGED <<run, staging, staged, files, ok, exit>>
First ==
    Sorted[CHOOSE k \in DOMAIN Sorted :
              Sorted[k] \in list /\ \A j \in 1..(k - 1) : Sorted[j] \notin list]
(* The tool may refuse any file, and does refuse a damaged one.            *)
Inspect ==
    /\ next = All + 1 /\ list # {}
    /\ \/ /\ files[First] # TORN
          /\ list' = list \ {First} /\ ok' = ok \cup {First}
          /\ UNCHANGED <<next, staging, staged, exit>>
       \/ End(1) /\ UNCHANGED <<list, ok>>
    /\ UNCHANGED <<run, files>>
Finish ==
    /\ next = All + 1 /\ list = {}
    /\ End(0) /\ UNCHANGED <<run, files, list, ok>>

Killed ==
    /\ next # 0 /\ next' = 0 /\ staged' = FALSE /\ exit' = -1
    /\ \/ UNCHANGED files
       \/ Ready /\ Damage
    /\ UNCHANGED <<run, staging, list, ok>>

Next ==
    \/ Start \/ Stage \/ StageFails \/ Succeeds \/ Fails
    \/ Glob \/ Inspect \/ Finish
    \/ Killed
Spec == Init /\ [][Next]_vars

-----------------------------------------------------------------------------
(* Properties. *)

(* Exit status 0: all eight fixtures are of this run, none is left over    *)
(* from an earlier one or damaged by it, and all passed inspection, with   *)
(* whatever else lies in the directory.                                    *)
GreenIsFresh ==
    exit = 0 =>
        /\ \A f \in Fixtures : files[f] = run
        /\ DOMAIN files \subseteq ok

(* Whatever runs failed and were killed, and whatever they damaged: the    *)
(* fixtures of the latest run are the ones it came to.  A fixture is of no *)
(* later run than one that is made before it, unless that one is damaged   *)
(* or missing.                                                             *)
MadeInOrder ==
    \A j, k \in 1..Len(Order) :
        j < k /\ files[Order[k]] \in Nat =>
            \/ files[Order[j]] \in {ABSENT, TORN}
            \/ files[Order[j]] >= files[Order[k]]

(* The comments of the script (lines 62 to 207) name the shape of what it  *)
(* builds: a diamond, one directed cycle of 65 nodes, three stars, a chain *)
(* of domains, a bipartite graph.                                          *)
Ends(E) == {e[1] : e \in E} \cup {e[2] : e \in E}
Successors(S, E) == S \cup {e[2] : e \in {d \in E : d[1] \in S}}
Closure(S, E) == FoldLeft(LAMBDA T, k : Successors(T, E), S, [k \in 1..Cardinality(Ends(E)) |-> k])
Symmetric(E) == E \cup {<<e[2], e[1]>> : e \in E}
Components(E) == {Closure({v}, Symmetric(E)) : v \in Ends(E)}
Shape(f) ==
    LET E == Edges[f][1]
        R == Edges[f][Len(Edges[f])]
    IN CASE f = "g2" -> /\ Cardinality(Ends(E)) = 4 /\ Closure({0}, E) = Ends(E)
                        /\ \A v \in Ends(E) : v \notin Closure(Successors({v}, E) \ {v}, E)
         [] f = "g3" -> /\ Cardinality(Ends(E)) = 65 /\ Cardinality(E) = 65
                        /\ Closure({0}, E) = Ends(E) /\ Closure({64}, E) = Ends(E)
         [] f = "g4" -> /\ Cardinality(Components(E)) = 3
                        /\ {e[1] : e \in E} = {0, 10, 20}
         [] f = "g5" -> {e[2] : e \in E} = {e[1] : e \in R}
         [] f = "g7" -> {e[1] : e \in E \cup R} \cap {e[2] : e \in E \cup R} = {}
ShapesAsNamed == exit = 0 => \A f \in Staged : files[f] = run => Shape(f)

=============================================================================
