---------------------------- MODULE CampaignProofs ----------------------------
(***************************************************************************)
(* Proofs about Campaign, for any number of processes in one checkout and  *)
(* any command lines: the temporary files are always somebody's to remove, *)
(* a reproduction always is of the seed in its name, and every finished    *)
(* iteration is counted once.  For a campaign alone in its checkout: the   *)
(* engines run the program of the iteration at hand, a reproduction is a   *)
(* program they can disagree on, and nothing is left at the end.           *)
(*                                                                         *)
(* The first needs an invariant on who owes a removal.  A process dies in  *)
(* its clean-up when another removed the file it was about to unlink, and  *)
(* leaves its later files behind: the one that removed it is then still    *)
(* before those files in its own clean-up.                                 *)
(***************************************************************************)
EXTENDS Campaign, FiniteSetTheorems, TLAPS

InTry == {"parse", "impb", "code", "data", "bytes", "on", "off", "java", "ocaml",
          "compare", "dump", "saving"}
(* The calls from which a process still comes to the removal of file k.    *)
Owing(k) ==
    {"text"} \cup InTry \cup {Exists[j] : j \in 1..k} \cup {Unlink[j] : j \in 1..k}
Doomed(p) == \E j \in 1..3 : at[p] = Unlink[j] /\ disk[Files[j]] = ABSENT
Owed ==
    \A k \in 1..3 : disk[Files[k]] # ABSENT =>
        \E p \in Procs : at[p] \in Owing(k) /\ ~Doomed(p)

Shape ==
    /\ DOMAIN at = Procs /\ DOMAIN disk = {"impas", "impb", "data"}
    /\ DOMAIN parsed = Procs /\ DOMAIN i = Procs /\ DOMAIN args = Procs
    /\ DOMAIN dump = Seeds /\ mishaps \in Nat
    /\ \A p \in Procs : args[p] \in Args /\ i[p] \in 0..(args[p].iterations - 1)
HasProgram ==
    \A p \in Procs : at[p] \in {"impb", "code", "data", "bytes"} => parsed[p] # ABSENT
Inv == Shape /\ HasProgram /\ ReprosKeepTheirSeed /\ (mishaps = 0 => Owed)

LEMMA Three ==
    /\ \A k : k \in 1..1 <=> k = 1
    /\ \A k : k \in 1..2 <=> k = 1 \/ k = 2
    /\ \A k : k \in 1..3 <=> k = 1 \/ k = 2 \/ k = 3
OBVIOUS

LEMMA Labels ==
    /\ Exists[1] = "exists 1" /\ Exists[2] = "exists 2" /\ Exists[3] = "exists 3"
    /\ Exists[4] = "next" /\ Exists[1 + 1] = Exists[2] /\ Exists[2 + 1] = Exists[3]
    /\ Exists[3 + 1] = Exists[4]
    /\ Unlink[1] = "unlink 1" /\ Unlink[2] = "unlink 2" /\ Unlink[3] = "unlink 3"
BY DEF Exists, Unlink

LEMMA OwingIs ==
    /\ Owing(1) = {"text"} \cup InTry \cup {"exists 1", "unlink 1"}
    /\ Owing(2) = {"text"} \cup InTry \cup {"exists 1", "unlink 1", "exists 2", "unlink 2"}
    /\ Owing(3) = {"text"} \cup InTry \cup {"exists 1", "unlink 1", "exists 2", "unlink 2",
                                           "exists 3", "unlink 3"}
<1>1. ASSUME NEW x PROVE x \in Owing(1) <=> x \in {"text"} \cup InTry \cup {"exists 1", "unlink 1"}
  BY Three, Labels DEF Owing
<1>2. ASSUME NEW x
      PROVE  x \in Owing(2) <=> x \in {"text"} \cup InTry
                 \cup {"exists 1", "unlink 1", "exists 2", "unlink 2"}
  BY Three, Labels DEF Owing
<1>3. ASSUME NEW x
      PROVE  x \in Owing(3) <=> x \in {"text"} \cup InTry
                 \cup {"exists 1", "unlink 1", "exists 2", "unlink 2", "exists 3", "unlink 3"}
  BY Three, Labels DEF Owing
<1> QED BY <1>1, <1>2, <1>3

(* What is left to remove from the clean-up of file k on.                  *)
LEMMA Later ==
    \A k, m \in 1..3 :
        /\ Exists[k] \in Owing(m) => Unlink[k] \in Owing(m)
        /\ m # k /\ Exists[k] \in Owing(m) => Exists[k + 1] \in Owing(m)
<1>1. /\ Exists[1] \notin InTry \cup {"text"} /\ Exists[2] \notin InTry \cup {"text"}
      /\ Exists[3] \notin InTry \cup {"text"}
  BY Labels DEF InTry
<1>2. /\ \A m \in 1..3 : Unlink[1] \in Owing(m)
      /\ \A m \in 1..3 : m # 1 => Exists[2] \in Owing(m) /\ Unlink[2] \in Owing(m)
      /\ Exists[3] \in Owing(3) /\ Unlink[3] \in Owing(3)
  BY Three, Labels, OwingIs
<1>3. Exists[2] \notin Owing(1) /\ Exists[3] \notin Owing(1) /\ Exists[3] \notin Owing(2)
  BY <1>1, Labels, OwingIs
<1> QED BY <1>2, <1>3, Three, Labels

LEMMA IdleOwesNothing == \A l \in Idle : \A k \in 1..3 : l \notin Owing(k)
BY Three, OwingIs DEF Idle, InTry

LEMMA InvInit == Init => Inv
<1> SUFFICES ASSUME Init PROVE Inv
  OBVIOUS
<1>1. (CHOOSE a \in Args : TRUE) \in Args
  BY ArgsAssumption
<1>2. \A p \in Procs : args[p] \in Args /\ i[p] \in 0..(args[p].iterations - 1)
  BY <1>1, ArgsAssumption DEF Init
<1>3. Shape
  BY <1>2 DEF Init, Shape, Files
<1>4. HasProgram /\ ReprosKeepTheirSeed /\ Owed
  BY DEF Init, HasProgram, ReprosKeepTheirSeed, Owed, Files
<1> QED BY <1>3, <1>4 DEF Inv

(* The program of the iteration at hand exists.                            *)
LEMMA TextIsProgram ==
    ASSUME Inv, NEW p \in Procs
    PROVE  /\ <<Repro(p), args[p].max>> \in DOMAIN Prog /\ Repro(p) \in Seeds
           /\ Text(p) = Prog[<<Repro(p), args[p].max>>] /\ Text(p) \notin {EMPTY, ABSENT}
<1>1. <<Repro(p), args[p].max>> \in DOMAIN Prog
  BY ArgsAssumption DEF Inv, Shape, Repro
<1>2. Repro(p) \in Seeds
  BY <1>1 DEF Seeds
<1> QED BY <1>1, <1>2, ArgsAssumption DEF Text, Repro

(* A process that moves on without touching the files.                     *)
LEMMA MoveKeeps ==
    ASSUME Inv, mishaps = 0, NEW p \in Procs, NEW l, Goto(p, l), disk' = disk,
           \A k \in 1..3 : disk[Files[k]] # ABSENT /\ at[p] \in Owing(k) /\ ~Doomed(p)
                              => l \in Owing(k),
           \A k \in 1..3 : l = Unlink[k] => disk[Files[k]] # ABSENT
    PROVE  Owed'
<1> SUFFICES ASSUME NEW k \in 1..3, disk[Files[k]] # ABSENT
             PROVE  \E r \in Procs : at'[r] \in Owing(k) /\ ~Doomed(r)'
  BY DEF Owed, Owing
<1>1. PICK r \in Procs : at[r] \in Owing(k) /\ ~Doomed(r)
  BY DEF Inv, Owed
<1>2. at'[p] = l /\ \A s \in Procs : s # p => at'[s] = at[s]
  BY DEF Goto, Inv, Shape
<1>3. CASE r = p
  BY <1>1, <1>2, <1>3 DEF Doomed
<1>4. CASE r # p
  BY <1>1, <1>2, <1>4 DEF Doomed
<1> QED BY <1>3, <1>4

(* A process that writes a file owes all three, and dooms nobody.          *)
LEMMA WriteKeeps ==
    ASSUME Inv, mishaps = 0, NEW p \in Procs, NEW l \in {"text"} \cup InTry, Goto(p, l),
           NEW f \in {"impas", "impb", "data"}, NEW t, t # ABSENT,
           disk' = [disk EXCEPT ![f] = t]
    PROVE  Owed'
<1>1. at'[p] = l
  BY DEF Goto, Inv, Shape
<1>2. \A k \in 1..3 : l \in Owing(k)
  BY DEF Owing
<1>3. ~Doomed(p)'
  BY <1>1, Three, Labels DEF Doomed, InTry
<1> QED BY <1>1, <1>2, <1>3 DEF Owed, Owing

(* A process that removes file k still owes the later ones; those that     *)
(* are doomed by it owe none that it does not.                             *)
LEMMA UnlinkKeeps ==
    ASSUME Inv, mishaps = 0, NEW p \in Procs, NEW k \in 1..3,
           at[p] = Unlink[k], Goto(p, Exists[k + 1]),
           disk' = [disk EXCEPT ![Files[k]] = ABSENT]
    PROVE  Owed'
<1> SUFFICES ASSUME NEW m \in 1..3, disk'[Files[m]] # ABSENT
             PROVE  \E r \in Procs : at'[r] \in Owing(m) /\ ~Doomed(r)'
  BY DEF Owed, Owing
<1>1. /\ at'[p] = Exists[k + 1] /\ \A s \in Procs : s # p => at'[s] = at[s]
      /\ Files[k] \in {"impas", "impb", "data"}
  BY DEF Goto, Inv, Shape, Files
<1>2. m # k /\ disk'[Files[m]] = disk[Files[m]]
  BY <1>1 DEF Inv, Shape, Files
<1>3. ~Doomed(p)'
  <2>1. Exists[k + 1] \notin {Unlink[1], Unlink[2], Unlink[3]}
    BY Three, Labels
  <2> QED BY <1>1, <2>1, Three DEF Doomed
<1>4. CASE m > k
  <2>1. Exists[k + 1] \in Owing(m)
    BY <1>4 DEF Owing
  <2> QED BY <1>1, <1>3, <2>1
<1>5. CASE m < k
  <2>1. PICK r \in Procs : at[r] \in Owing(m) /\ ~Doomed(r)
    BY <1>2 DEF Inv, Owed
  <2>2. at[r] # Unlink[k] /\ r # p
    <3>1. (m = 1 /\ k = 2) \/ (m = 1 /\ k = 3) \/ (m = 2 /\ k = 3)
      BY <1>5
    <3>2. Unlink[k] \notin Owing(m)
      BY <3>1, OwingIs, Labels DEF InTry
    <3> QED BY <2>1, <3>2
  <2>3. ~Doomed(r)'
    <3> SUFFICES ASSUME NEW j \in 1..3, at'[r] = Unlink[j], disk'[Files[j]] = ABSENT
                 PROVE  FALSE
      BY DEF Doomed
    <3>1. at[r] = Unlink[j] /\ j # k
      BY <1>1, <2>2
    <3>2. disk[Files[j]] = ABSENT
      BY <1>1, <3>1 DEF Inv, Shape, Files
    <3> QED BY <2>1, <3>1, <3>2 DEF Doomed
  <2> QED BY <1>1, <2>1, <2>2, <2>3
<1> QED BY <1>2, <1>4, <1>5

(* The parts of the invariant that only few steps disturb.                 *)
LEMMA RestKeeps ==
    ASSUME Inv, NEW p \in Procs, NEW l, Goto(p, l), DOMAIN disk' = DOMAIN disk,
           UNCHANGED <<args, i, dump, mishaps>>,
           \/ parsed' = parsed /\ (l \in {"code", "data", "bytes"} => parsed[p] # ABSENT)
                               /\ l # "impb"
           \/ parsed' = [parsed EXCEPT ![p] = ABSENT] /\ l \notin {"impb", "code", "data", "bytes"}
    PROVE  Shape' /\ HasProgram' /\ ReprosKeepTheirSeed'
<1>1. Shape'
  BY DEF Inv, Shape, Goto
<1>2. HasProgram'
  BY DEF Inv, Shape, HasProgram, Goto
<1>3. ReprosKeepTheirSeed'
  BY DEF Inv, ReprosKeepTheirSeed, OfItsSeed
<1> QED BY <1>1, <1>2, <1>3

LEMMA InvStep == Inv /\ [Next]_vars => Inv'
<1> SUFFICES ASSUME Inv, [Next]_vars PROVE Inv'
  OBVIOUS
<1> USE DEF KeepFiles, KeepRun, KeepCounts, KeepWorld
<1>0. \A k \in 1..3 : /\ Unlink[k] \notin InTry \cup {"text", "open", "next", "dead", "done"}
                      /\ Unlink[k] \notin {Exists[1], Exists[2], Exists[3], Exists[4]}
                      /\ Unlink[k] # Exists[k + 1]
                      /\ \A m \in 1..3 : Unlink[k] = Unlink[m] => m = k
  <2>1. /\ Unlink[1] \notin InTry \cup {"text", "open", "next", "dead", "done"}
        /\ Unlink[2] \notin InTry \cup {"text", "open", "next", "dead", "done"}
        /\ Unlink[3] \notin InTry \cup {"text", "open", "next", "dead", "done"}
    BY Labels DEF InTry
  <2>2. \A k \in 1..3 : Unlink[k] \notin InTry \cup {"text", "open", "next", "dead", "done"}
    BY <2>1, Three
  <2>3. \A k \in 1..3 : Unlink[k] \notin {Exists[1], Exists[2], Exists[3], Exists[4]}
    BY Three, Labels
  <2>4. \A k \in 1..3 : Unlink[k] # Exists[k + 1]
    <3>1. /\ Unlink[1] # Exists[1 + 1] /\ Unlink[2] # Exists[2 + 1]
          /\ Unlink[3] # Exists[3 + 1]
      BY Labels
    <3> QED BY <3>1, Three
  <2>5. \A k, m \in 1..3 : Unlink[k] = Unlink[m] => m = k
    <3>1. Unlink[1] # Unlink[2] /\ Unlink[1] # Unlink[3] /\ Unlink[2] # Unlink[3]
      BY Labels
    <3> QED BY <3>1, Three
  <2> QED BY <2>2, <2>3, <2>4, <2>5
<1>1. ASSUME NEW p \in Procs, Start(p) PROVE Inv'
  <2>1. PICK a \in Args : args' = [args EXCEPT ![p] = a]
    BY <1>1 DEF Start
  <2>2. Shape' /\ HasProgram' /\ ReprosKeepTheirSeed'
    BY <1>1, <2>1, ArgsAssumption
       DEF Start, Inv, Shape, HasProgram, ReprosKeepTheirSeed, OfItsSeed, Goto
  <2>3. mishaps' = 0 => Owed'
    <3>1. \A k \in 1..3 : at[p] \notin Owing(k)
      BY <1>1, IdleOwesNothing DEF Start
    <3> QED BY <1>0, <1>1, <3>1, MoveKeeps DEF Start
  <2> QED BY <2>2, <2>3 DEF Inv
<1>2. ASSUME NEW p \in Procs, NEW l \in {"text"} \cup InTry, NEW f \in {"impas", "impb", "data"},
             NEW t, t # ABSENT, disk' = [disk EXCEPT ![f] = t], Goto(p, l), l # "impb",
             l \in {"code", "data", "bytes"} => parsed[p] # ABSENT,
             UNCHANGED <<args, i, parsed, dump, mishaps>>
      PROVE  Inv'
  <2>1. Shape' /\ HasProgram' /\ ReprosKeepTheirSeed'
    BY <1>2, RestKeeps
  <2>2. mishaps' = 0 => Owed'
    BY <1>2, WriteKeeps
  <2> QED BY <2>1, <2>2 DEF Inv
<1>3. ASSUME NEW p \in Procs, WriteText(p) PROVE Inv'
  BY <1>2, <1>3, TextIsProgram, ArgsAssumption DEF WriteText, Truncate, Fill, InTry
<1>4. ASSUME NEW p \in Procs, WriteBinary(p) PROVE Inv'
  <2>1. parsed[p] # ABSENT
    BY <1>4 DEF WriteBinary, Truncate, Fill, Inv, HasProgram
  <2> QED BY <1>2, <1>4, <2>1, ArgsAssumption DEF WriteBinary, Truncate, Fill, InTry
<1>5. ASSUME NEW p \in Procs, Parse(p) PROVE Inv'
  <2>1. Shape' /\ HasProgram' /\ ReprosKeepTheirSeed'
    BY <1>5 DEF Parse, Inv, Shape, HasProgram, ReprosKeepTheirSeed, OfItsSeed, Goto
  <2>2. mishaps' = 0 => Owed'
    BY <1>0, <1>5, MoveKeeps DEF Parse, Owing, InTry
  <2> QED BY <2>1, <2>2 DEF Inv
<1>6. ASSUME NEW p \in Procs, NEW l \in InTry \cup {Exists[1]},
             Goto(p, l), disk' = disk, at[p] \in {"text"} \cup InTry,
             UNCHANGED <<args, i, dump, mishaps>>,
             parsed' \in {parsed, [parsed EXCEPT ![p] = ABSENT]},
             l \notin {"impb", "code", "data", "bytes"}
      PROVE  Inv'
  <2>1. Shape' /\ HasProgram' /\ ReprosKeepTheirSeed'
    BY <1>6, RestKeeps
  <2>2. \A k \in 1..3 : l \in Owing(k)
    BY <1>6 DEF Owing
  <2>3. mishaps' = 0 => Owed'
    BY <1>0, <1>6, <2>2, MoveKeeps
  <2> QED BY <2>1, <2>3 DEF Inv
<1>7. ASSUME NEW p \in Procs, RunEngine(p) PROVE Inv'
  BY <1>6, <1>7 DEF RunEngine, Run, InTry
<1>8. ASSUME NEW p \in Procs, Compare(p) PROVE Inv'
  <2>1. Goto(p, "dump") \/ Goto(p, Exists[1])
    BY <1>8 DEF Compare
  <2> QED BY <1>6, <1>8, <2>1 DEF Compare, Forget, InTry, Exists
<1>9. ASSUME NEW p \in Procs, Dump(p) PROVE Inv'
  <2>1. PICK l \in {"saving", Exists[1]} : Goto(p, l)
    BY <1>9 DEF Dump
  <2>2. PICK t \in {EMPTY, Text(p)} : dump' = [dump EXCEPT ![Repro(p)] = t]
    BY <1>9 DEF Dump
  <2>3. Shape' /\ HasProgram'
    BY <1>9, <2>1, <2>2 DEF Dump, Inv, Shape, HasProgram, Goto, Exists
  <2>4. ReprosKeepTheirSeed'
    <3> SUFFICES ASSUME NEW s \in Seeds, dump'[s] \notin {ABSENT, EMPTY} PROVE OfItsSeed(s)'
      BY DEF ReprosKeepTheirSeed
    <3>1. CASE s = Repro(p)
      <4>1. dump'[s] = Prog[<<s, args[p].max>>] /\ <<s, args[p].max>> \in DOMAIN Prog
        BY <2>2, <3>1, TextIsProgram DEF Inv, Shape
      <4> QED BY <4>1 DEF OfItsSeed
    <3>2. CASE s # Repro(p)
      BY <2>2, <3>2 DEF Inv, Shape, ReprosKeepTheirSeed, OfItsSeed
    <3> QED BY <3>1, <3>2
  <2>5. mishaps' = 0 => Owed'
    <3>1. \A k \in 1..3 : l \in Owing(k)
      BY DEF Owing, InTry
    <3> QED BY <1>0, <1>9, <2>1, <3>1, MoveKeeps DEF Dump, InTry
  <2> QED BY <2>3, <2>4, <2>5 DEF Inv
<1>10. ASSUME NEW p \in Procs, Raises(p) PROVE Inv'
  BY <1>6, <1>10 DEF Raises, Except, Forget, InTry, Exists, Engines
<1>11. ASSUME NEW p \in Procs, CleanUp(p) PROVE Inv'
  <2>1. PICK k \in 1..3 :
            \/ /\ at[p] = Exists[k] /\ disk' = disk
               /\ Goto(p, IF disk[Files[k]] # ABSENT THEN Unlink[k] ELSE Exists[k + 1])
            \/ /\ at[p] = Unlink[k] /\ Goto(p, Exists[k + 1])
               /\ disk' = [disk EXCEPT ![Files[k]] = ABSENT]
    BY <1>11 DEF CleanUp
  <2>2. PICK l \in {Unlink[k], Exists[k + 1]} : Goto(p, l)
    BY <2>1
  <2>3. l \notin {"impb", "code", "data", "bytes"}
    BY <2>2, Three, Labels
  <2>4. Shape' /\ HasProgram' /\ ReprosKeepTheirSeed'
    BY <1>11, <2>1, <2>2, <2>3, RestKeeps DEF CleanUp
  <2>5. ASSUME mishaps = 0, at[p] = Exists[k], disk' = disk,
               disk[Files[k]] # ABSENT, Goto(p, Unlink[k])
        PROVE  Owed'
    <3>1. \A m \in 1..3 : at[p] \in Owing(m) => Unlink[k] \in Owing(m)
      BY <2>5, Later
    <3> QED BY <1>0, <2>5, <3>1, MoveKeeps
  <2>6. ASSUME mishaps = 0, at[p] = Exists[k], disk' = disk,
               disk[Files[k]] = ABSENT, Goto(p, Exists[k + 1])
        PROVE  Owed'
    <3>1. \A m \in 1..3 : m # k /\ at[p] \in Owing(m) => Exists[k + 1] \in Owing(m)
      BY <2>6, Later
    <3> QED BY <1>0, <2>6, <3>1, MoveKeeps
  <2>7. mishaps' = 0 => Owed'
    BY <1>11, <2>1, <2>5, <2>6, UnlinkKeeps DEF CleanUp
  <2> QED BY <2>4, <2>7 DEF Inv
<1>12. ASSUME NEW p \in Procs, UnlinkRaises(p) PROVE Inv'
  <2>1. Shape' /\ HasProgram' /\ ReprosKeepTheirSeed'
    BY <1>12, RestKeeps DEF UnlinkRaises
  <2>2. Doomed(p)
    BY <1>12 DEF UnlinkRaises, Doomed
  <2>3. mishaps' = 0 => Owed'
    BY <1>0, <1>12, <2>2, MoveKeeps DEF UnlinkRaises
  <2> QED BY <2>1, <2>3 DEF Inv
<1>13. ASSUME NEW p \in Procs, Advance(p) PROVE Inv'
  <2>1. PICK l \in {"open", "done"} : Goto(p, l)
    BY <1>13 DEF Advance
  <2>2. Shape' /\ HasProgram' /\ ReprosKeepTheirSeed'
    BY <1>13, <2>1, ArgsAssumption
       DEF Advance, Inv, Shape, HasProgram, ReprosKeepTheirSeed, OfItsSeed, Goto
  <2>3. \A k \in 1..3 : at[p] \notin Owing(k)
    BY <1>13, Three, Labels, OwingIs DEF Advance, InTry
  <2>4. mishaps' = 0 => Owed'
    BY <1>0, <1>13, <2>1, <2>3, MoveKeeps DEF Advance
  <2> QED BY <2>2, <2>4 DEF Inv
<1>14. ASSUME NEW p \in Procs, WriteFails(p) \/ Killed(p) PROVE Inv'
  <2>1. mishaps' = mishaps + 1 /\ mishaps' # 0
    BY <1>14 DEF WriteFails, Killed, Mishap, Inv, Shape
  <2>2. Shape' /\ HasProgram' /\ ReprosKeepTheirSeed'
    <3>1. PICK l \in {"dead", Exists[1]} : Goto(p, l)
      BY <1>14 DEF WriteFails, Killed, Except
    <3>2. l \notin {"impb", "code", "data", "bytes"}
      BY <3>1, Labels
    <3>3. /\ UNCHANGED <<args, i, disk, dump>>
          /\ parsed' \in {parsed, [parsed EXCEPT ![p] = ABSENT]}
      BY <1>14 DEF WriteFails, Killed, Except, Forget
    <3> QED BY <2>1, <3>1, <3>2, <3>3
            DEF Goto, Inv, Shape, HasProgram, ReprosKeepTheirSeed, OfItsSeed
  <2> QED BY <2>1, <2>2 DEF Inv
<1>15. CASE UNCHANGED vars
  <2>1. Shape' /\ HasProgram' /\ ReprosKeepTheirSeed'
    BY <1>15 DEF vars, Inv, Shape, HasProgram, ReprosKeepTheirSeed, OfItsSeed
  <2>2. mishaps' = 0 => Owed'
    BY <1>15 DEF vars, Inv, Owed, Owing, Doomed
  <2> QED BY <2>1, <2>2 DEF Inv
<1> QED BY <1>1, <1>3, <1>4, <1>5, <1>7, <1>8, <1>9, <1>10, <1>11, <1>12, <1>13, <1>14, <1>15
       DEF Next, Step

LEMMA InvHolds == Spec => []Inv
BY InvInit, InvStep, PTL DEF Spec

(* However many campaigns run in one checkout, and whichever of them die   *)
(* of a file another removed, nothing is left when all have stopped.       *)
THEOREM CampaignsTidyUp == Spec => []TidyTogether
<1>1. Inv => TidyTogether
  <2> SUFFICES ASSUME Inv, mishaps = 0, \A p \in Procs : at[p] \in Idle,
                      NEW k \in 1..3, disk[Files[k]] # ABSENT
               PROVE  FALSE
    BY DEF TidyTogether, Clean
  <2>1. PICK p \in Procs : at[p] \in Owing(k)
    BY DEF Inv, Owed
  <2> QED BY <2>1, IdleOwesNothing
<1> QED BY <1>1, InvHolds, PTL

(* The reproduction of a seed holds a program of that seed or is torn,     *)
(* whatever other campaigns do to the temporary files.                     *)
THEOREM ReprosAreOfTheirSeed == Spec => []ReprosKeepTheirSeed
<1>1. Inv => ReprosKeepTheirSeed
  BY DEF Inv
<1> QED BY <1>1, InvHolds, PTL
-----------------------------------------------------------------------------
(* The totals.  A divergence is counted when it is found and logged when   *)
(* its reproduction is saved.                                              *)

Early == {"open", "text", "parse", "impb", "code", "data", "bytes", "on", "off", "java",
          "ocaml", "compare"}
Late == {"exists 1", "unlink 1", "exists 2", "unlink 2", "exists 3", "unlink 3", "next"}
Saving == {"dump", "saving"}
Words == {"CONSENSUS", "DIVERGENCE", "ERROR"}
Logged(l, o) == {k \in 1..Len(l) : l[k] = o}
Tallied(p) ==
    /\ passed[p] = Cardinality(Logged(log[p], "CONSENSUS"))
    /\ mishaps = 0 =>
         diverged[p] = Cardinality(Logged(log[p], "DIVERGENCE"))
                         + (IF at[p] \in Saving THEN 1 ELSE 0)
    /\ at[p] \in Early \cup Saving => Len(log[p]) = i[p]
    /\ at[p] \in Late => Len(log[p]) = i[p] + 1
    /\ at[p] = "done" => Len(log[p]) = args[p].iterations
Booked ==
    /\ DOMAIN at = Procs /\ DOMAIN args = Procs /\ DOMAIN i = Procs /\ DOMAIN log = Procs
    /\ DOMAIN passed = Procs /\ DOMAIN diverged = Procs /\ mishaps \in Nat
    /\ \A p \in Procs : /\ log[p] \in Seq(Words)
                        /\ args[p] \in Args /\ i[p] \in 0..(args[p].iterations - 1)
Books == Booked /\ \A p \in Procs : Tallied(p)

(* One more entry is counted under its own outcome and no other.           *)
LEMMA LoggedAppend ==
    ASSUME NEW l \in Seq(Words), NEW x \in Words, NEW o
    PROVE  /\ Cardinality(Logged(l, o)) \in Nat
           /\ Cardinality(Logged(Append(l, x), o))
                = Cardinality(Logged(l, o)) + (IF x = o THEN 1 ELSE 0)
<1>1. /\ Len(l) \in Nat /\ Len(Append(l, x)) = Len(l) + 1
      /\ \A k \in 1..Len(l) : Append(l, x)[k] = l[k]
      /\ Append(l, x)[Len(l) + 1] = x
  OBVIOUS
<1> DEFINE n == Len(l)
           m == Append(l, x)
<1>a. /\ n \in Nat /\ \A k : k \in 1..(n + 1) <=> k \in 1..n \/ k = n + 1
      /\ \A k \in 1..n : m[k] = l[k]
      /\ m[n + 1] = x /\ n + 1 \notin 1..n
  BY <1>1
<1>b. /\ Logged(m, o) = {k \in 1..(n + 1) : m[k] = o}
      /\ Logged(l, o) = {k \in 1..n : l[k] = o}
  BY <1>1 DEF Logged
<1> HIDE DEF n, m
<1>2. IsFiniteSet(Logged(l, o))
  <2>1. IsFiniteSet(1..Len(l))
    BY <1>1, FS_Interval
  <2>2. Logged(l, o) \subseteq 1..Len(l)
    BY DEF Logged
  <2> QED BY <2>1, <2>2, FS_Subset
<1>3. Cardinality(Logged(l, o)) \in Nat
  BY <1>2, FS_CardinalityType
<1>4. CASE x = o
  <2>1. Logged(m, o) = Logged(l, o) \cup {n + 1}
    BY <1>a, <1>b, <1>4, Zenon
  <2>2. n + 1 \notin Logged(l, o)
    BY <1>a, <1>b
  <2>3. Cardinality(Logged(l, o) \cup {n + 1}) = Cardinality(Logged(l, o)) + 1
    BY <1>2, <2>2, FS_AddElement
  <2> QED BY <1>3, <1>4, <2>1, <2>3 DEF m
<1>5. CASE x # o
  <2>1. Logged(m, o) = Logged(l, o)
    BY <1>a, <1>b, <1>5, Zenon
  <2> QED BY <1>3, <1>5, <2>1 DEF m
<1> QED BY <1>3, <1>4, <1>5

LEMMA LoggedIsNat ==
    ASSUME NEW l \in Seq(Words), NEW o
    PROVE  Cardinality(Logged(l, o)) \in Nat
BY LoggedAppend DEF Words

LEMMA NothingLogged == \A o : Cardinality(Logged(<<>>, o)) = 0
<1>1. \A o : Logged(<<>>, o) = {}
  BY DEF Logged
<1> QED BY <1>1, FS_EmptySet

LEMMA BooksInit == Init => Books
<1> SUFFICES ASSUME Init PROVE Books
  OBVIOUS
<1>1. (CHOOSE a \in Args : TRUE) \in Args
  BY ArgsAssumption
<1>2. Booked
  BY <1>1, ArgsAssumption DEF Init, Booked
<1>3. ASSUME NEW p \in Procs PROVE Tallied(p)
  BY <1>3, NothingLogged DEF Init, Tallied, Early, Late, Saving
<1> QED BY <1>2, <1>3 DEF Books

(* An iteration is in one part of its life at a time.                      *)
LEMMA Parts ==
    /\ \A x \in Early : x \notin Late /\ x \notin Saving /\ x # "done" /\ x # "dead"
    /\ \A x \in Saving : x \notin Late /\ x \notin Early /\ x # "done" /\ x # "dead"
    /\ \A x \in Late : x \notin Early /\ x \notin Saving /\ x # "done" /\ x # "dead"
    /\ \A x \in {"done", "dead"} : x \notin Early /\ x \notin Saving /\ x \notin Late
    /\ "dump" \in Saving /\ "saving" \in Saving /\ "done" # "dead"
BY DEF Early, Late, Saving
LEMMA LateIs ==
    /\ \A k \in 1..3 : Exists[k] \in Late /\ Unlink[k] \in Late /\ Exists[k + 1] \in Late
    /\ Exists[1] = "exists 1" /\ "exists 1" \in Late /\ "next" \in Late /\ "open" \in Early
<1>1. /\ {Exists[1], Exists[2], Exists[3], Exists[4], Unlink[1], Unlink[2], Unlink[3]} \subseteq Late
      /\ Exists[1] = "exists 1" /\ "exists 1" \in Late /\ "next" \in Late /\ "open" \in Early
  BY Labels DEF Late, Early
<1> QED BY <1>1, Three, Labels, Zenon

(* Only the process that takes a step writes its books.                    *)
LEMMA OthersTallied ==
    ASSUME Books, NEW p \in Procs, NEW l, Goto(p, l), mishaps' \in {mishaps, mishaps + 1},
           \A q \in Procs \ {p} : /\ passed'[q] = passed[q] /\ diverged'[q] = diverged[q]
                                  /\ log'[q] = log[q] /\ i'[q] = i[q] /\ args'[q] = args[q],
           Booked', Tallied(p)'
    PROVE  Books'
<1> SUFFICES ASSUME NEW q \in Procs, q # p PROVE Tallied(q)'
  BY DEF Books
<1>1. at'[q] = at[q] /\ mishaps \in Nat
  BY DEF Goto, Books, Booked
<1> QED BY <1>1 DEF Books, Tallied

(* A step within one part of the iteration that counts nothing.            *)
LEMMA BooksMove ==
    ASSUME Books, NEW p \in Procs, NEW l, Goto(p, l),
           UNCHANGED <<passed, diverged, log, args, i>>, mishaps' \in {mishaps, mishaps + 1},
           \/ at[p] \in Early /\ l \in Early
           \/ at[p] \in Late /\ l \in Late
           \/ at[p] = "dump" /\ l = "saving"
           \/ l = "dead" /\ (at[p] \in Saving => mishaps' # 0)
    PROVE  Books'
<1>1. at'[p] = l /\ mishaps \in Nat
  BY DEF Goto, Books, Booked
<1>2. Booked'
  BY DEF Goto, Books, Booked
<1>3. Tallied(p)'
  <2>1. /\ passed' = passed /\ diverged' = diverged /\ log' = log /\ args' = args /\ i' = i
        /\ mishaps' = 0 => mishaps = 0
        /\ Tallied(p)
    BY <1>1 DEF Books
  <2>2. /\ mishaps' = 0 => (l \in Saving <=> at[p] \in Saving)
        /\ l \in Early \cup Saving => at[p] \in Early \cup Saving
        /\ l \in Late => at[p] \in Late
        /\ l # "done"
    BY Parts
  <2> QED BY <1>1, <2>1, <2>2 DEF Tallied
<1> QED BY <1>2, <1>3, OthersTallied

(* The step that ends the try clause logs its outcome.                     *)
Outcome(p, o) ==
    /\ Goto(p, Exists[1]) /\ Log(p, o)
    /\ passed' = IF o = "CONSENSUS" THEN [passed EXCEPT ![p] = @ + 1] ELSE passed
    /\ UNCHANGED <<diverged, args, i>>
LEMMA BooksLog ==
    ASSUME Books, NEW p \in Procs, NEW o \in Words, Outcome(p, o),
           mishaps' \in {mishaps, mishaps + 1},
           at[p] \in Early \/ at[p] \in Saving,
           mishaps' = 0 => (at[p] \in Saving <=> o = "DIVERGENCE")
    PROVE  Books'
<1>1. /\ at'[p] = "exists 1" /\ DOMAIN at' = Procs
  BY LateIs, Zenon DEF Goto, Books, Booked, Outcome
<1>2. /\ log'[p] = Append(log[p], o) /\ log[p] \in Seq(Words) /\ DOMAIN log' = Procs
      /\ \A q \in Procs \ {p} : log'[q] = log[q] /\ log[q] \in Seq(Words)
  BY Zenon DEF Log, Books, Booked, Outcome
<1>3. /\ passed'[p] = IF o = "CONSENSUS" THEN passed[p] + 1 ELSE passed[p]
      /\ DOMAIN passed' = Procs /\ \A q \in Procs \ {p} : passed'[q] = passed[q]
      /\ diverged' = diverged /\ args' = args /\ i' = i
  BY DEF Books, Booked, Outcome
<1>4. mishaps \in Nat /\ mishaps' \in Nat /\ (mishaps' = 0 => mishaps = 0)
  BY DEF Books, Booked
<1>5. log'[p] \in Seq(Words) /\ Len(log'[p]) = Len(log[p]) + 1 /\ Len(log[p]) \in Nat
  BY <1>2
<1>6. Booked'
  <2>1. \A q \in Procs : log'[q] \in Seq(Words)
    BY <1>2, <1>5
  <2> QED BY <1>1, <1>2, <1>3, <1>4, <2>1, Zenon DEF Books, Booked
<1>7. \A c : /\ Cardinality(Logged(log[p], c)) \in Nat
             /\ Cardinality(Logged(log'[p], c))
                  = Cardinality(Logged(log[p], c)) + (IF o = c THEN 1 ELSE 0)
  BY <1>2, LoggedAppend
<1>8. Tallied(p)'
  <2>1. Tallied(p)
    BY DEF Books
  <2>2. at'[p] \in Late /\ at'[p] \notin Early /\ at'[p] \notin Saving /\ at'[p] # "done"
    BY <1>1, LateIs, Parts, Zenon
  <2>3. passed'[p] = Cardinality(Logged(log'[p], "CONSENSUS"))
    BY <1>3, <1>7, <2>1 DEF Tallied
  <2>4. mishaps' = 0 => diverged'[p] = Cardinality(Logged(log'[p], "DIVERGENCE")) + 0
    BY <1>3, <1>4, <1>7, <2>1 DEF Tallied
  <2>5. Len(log'[p]) = i'[p] + 1
    BY <1>3, <1>5, <2>1 DEF Tallied
  <2> QED BY <2>2, <2>3, <2>4, <2>5, Zenon DEF Tallied
<1> QED BY <1>1, <1>2, <1>3, <1>6, <1>8, OthersTallied DEF Outcome

LEMMA BooksStep == Books /\ [Next]_vars => Books'
<1> SUFFICES ASSUME Books, [Next]_vars PROVE Books'
  OBVIOUS
<1> USE DEF KeepFiles, KeepRun, KeepCounts, KeepWorld
<1>0. mishaps \in Nat
  BY DEF Books, Booked
<1>1. ASSUME NEW p \in Procs, Start(p) PROVE Books'
  <2>1. PICK a \in Args : args' = [args EXCEPT ![p] = a]
    BY <1>1 DEF Start
  <2>2. /\ at'[p] = "open" /\ i'[p] = 0 /\ log'[p] = <<>> /\ passed'[p] = 0
        /\ diverged'[p] = 0 /\ a.iterations \in Nat \ {0} /\ Goto(p, "open")
    BY <1>1, ArgsAssumption DEF Start, Goto, Books, Booked
  <2>3. Booked'
    <3>1. ASSUME NEW q \in Procs
          PROVE  /\ log'[q] \in Seq(Words)
                 /\ args'[q] \in Args /\ i'[q] \in 0..(args'[q].iterations - 1)
      <4>1. CASE q = p
        <5>1. args'[p] = a
          BY <2>1, Zenon DEF Books, Booked
        <5>2. <<>> \in Seq(Words) /\ 0 \in 0..(a.iterations - 1)
          BY <2>2
        <5> QED BY <2>2, <4>1, <5>1, <5>2, Zenon
      <4>2. CASE q # p
        BY <1>1, <2>1, <4>2 DEF Start, Books, Booked
      <4> QED BY <4>1, <4>2
    <3>2. /\ DOMAIN at' = Procs /\ DOMAIN args' = Procs /\ DOMAIN i' = Procs
          /\ DOMAIN log' = Procs /\ DOMAIN passed' = Procs /\ DOMAIN diverged' = Procs
          /\ mishaps' \in Nat
      BY <1>1, <2>1, Zenon DEF Start, Goto, Books, Booked
    <3> QED BY <3>1, <3>2, Zenon DEF Booked
  <2>4. Tallied(p)'
    BY <2>2, NothingLogged DEF Tallied, Early, Late, Saving
  <2> QED BY <1>1, <2>1, <2>2, <2>3, <2>4, OthersTallied DEF Start, Books, Booked
<1>2. ASSUME NEW p \in Procs, WriteText(p) \/ Parse(p) \/ WriteBinary(p) \/ RunEngine(p)
      PROVE  Books'
  BY <1>2, BooksMove
     DEF WriteText, Parse, WriteBinary, RunEngine, Truncate, Fill, Run, Early
<1>3. ASSUME NEW p \in Procs, Compare(p) PROVE Books'
  <2>1. CASE Mismatch(states[p])
    <3>1. /\ Goto(p, "dump") /\ diverged' = [diverged EXCEPT ![p] = @ + 1]
          /\ UNCHANGED <<passed, log, args, i, mishaps>> /\ at[p] = "compare"
      BY <1>3, <2>1 DEF Compare, Forget
    <3>2. at'[p] = "dump" /\ diverged'[p] = diverged[p] + 1
      BY <3>1 DEF Goto, Books, Booked
    <3>3. Booked'
      BY <3>1 DEF Goto, Books, Booked
    <3>4. Tallied(p)'
      <4>1. Tallied(p) /\ log[p] \in Seq(Words)
        BY DEF Books, Booked
      <4>2. /\ at[p] \in Early /\ at[p] \notin Saving
            /\ at'[p] \in Saving /\ at'[p] \notin Late /\ at'[p] # "done"
        BY <3>1, <3>2, Parts DEF Early
      <4>3. mishaps' = 0 => diverged'[p] = Cardinality(Logged(log'[p], "DIVERGENCE")) + 1
        <5>1. Cardinality(Logged(log[p], "DIVERGENCE")) \in Nat
          BY <4>1, LoggedIsNat
        <5> QED BY <3>1, <3>2, <4>1, <4>2, <5>1 DEF Tallied
      <4>4. Len(log'[p]) = i'[p] /\ passed'[p] = Cardinality(Logged(log'[p], "CONSENSUS"))
        BY <3>1, <4>1, <4>2, Zenon DEF Tallied
      <4> QED BY <4>2, <4>3, <4>4, Zenon DEF Tallied
    <3> QED BY <3>1, <3>3, <3>4, OthersTallied DEF Books, Booked
  <2>2. CASE ~Mismatch(states[p])
    <3>1. Outcome(p, "CONSENSUS") /\ mishaps' = mishaps /\ at[p] = "compare"
      BY <1>3, <2>2 DEF Compare, Forget, Outcome
    <3> QED BY <3>1, BooksLog DEF Early, Saving, Words
  <2> QED BY <2>1, <2>2
<1>4. ASSUME NEW p \in Procs, Dump(p) PROVE Books'
  <2>1. CASE at[p] = "dump" /\ Goto(p, "saving") /\ UNCHANGED log
    BY <1>4, <2>1, BooksMove DEF Dump
  <2>2. CASE at[p] = "saving" /\ Goto(p, Exists[1]) /\ Log(p, "DIVERGENCE")
    <3>1. Outcome(p, "DIVERGENCE") /\ mishaps' = mishaps
      BY <1>4, <2>2 DEF Dump, Outcome
    <3> QED BY <2>2, <3>1, BooksLog DEF Saving, Words
  <2> QED BY <1>4, <2>1, <2>2 DEF Dump
<1>5. ASSUME NEW p \in Procs, Raises(p) PROVE Books'
  <2>1. Outcome(p, "ERROR") /\ mishaps' = mishaps
    BY <1>5 DEF Raises, Except, Forget, Outcome
  <2>2. at[p] \in Early /\ at[p] \notin Saving
    BY <1>5 DEF Raises, Engines, Early, Saving
  <2> QED BY <2>1, <2>2, BooksLog DEF Words
<1>6. ASSUME NEW p \in Procs, CleanUp(p) PROVE Books'
  <2>1. PICK k \in 1..3 : /\ at[p] \in {Exists[k], Unlink[k]}
                          /\ Goto(p, Unlink[k]) \/ Goto(p, Exists[k + 1])
    BY <1>6 DEF CleanUp
  <2>2. {Exists[k], Unlink[k], Exists[k + 1]} \subseteq Late
    BY LateIs
  <2> QED BY <1>6, <2>1, <2>2, BooksMove DEF CleanUp
<1>7. ASSUME NEW p \in Procs, UnlinkRaises(p) PROVE Books'
  <2>1. at[p] \in Late
    BY <1>7, LateIs DEF UnlinkRaises
  <2> QED BY <1>7, <2>1, BooksMove, Parts DEF UnlinkRaises
<1>8. ASSUME NEW p \in Procs, Advance(p) PROVE Books'
  <2>1. PICK l \in {"open", "done"} : Goto(p, l)
    BY <1>8 DEF Advance
  <2>2. /\ at[p] = "next" /\ at'[p] = l /\ Tallied(p) /\ args[p] \in Args
        /\ i[p] \in 0..(args[p].iterations - 1) /\ args[p].iterations \in Nat \ {0}
        /\ UNCHANGED <<passed, diverged, log, args, mishaps>>
        /\ \/ l = "open" /\ i' = [i EXCEPT ![p] = @ + 1] /\ i[p] + 1 < args[p].iterations
           \/ l = "done" /\ i' = i /\ ~(i[p] + 1 < args[p].iterations)
    BY <1>8, <2>1, ArgsAssumption DEF Advance, Goto, Books, Booked
  <2>3. Booked'
    <3>1. /\ DOMAIN at = Procs /\ DOMAIN args = Procs /\ DOMAIN i = Procs
          /\ DOMAIN log = Procs /\ DOMAIN passed = Procs
          /\ DOMAIN diverged = Procs /\ mishaps \in Nat
          /\ \A q \in Procs : /\ log[q] \in Seq(Words) /\ args[q] \in Args
                             /\ i[q] \in 0..(args[q].iterations - 1)
      BY DEF Books, Booked
    <3>2. DOMAIN at' = Procs /\ DOMAIN i' = Procs
      BY <2>1, <2>2, <3>1 DEF Goto
    <3>3. i'[p] \in 0..(args[p].iterations - 1)
      BY <2>2, <3>1
    <3>4. \A q \in Procs \ {p} : i'[q] = i[q]
      BY <2>2, <3>1
    <3>5. \A q \in Procs : i'[q] \in 0..(args[q].iterations - 1)
      BY <3>1, <3>3, <3>4
    <3> HIDE DEF Words
    <3> QED BY <2>2, <3>1, <3>2, <3>5, Zenon DEF Booked
  <2>4. Tallied(p)'
    <3>1. /\ Len(log[p]) = i[p] + 1 /\ at[p] \notin Saving /\ "done" \notin Early \cup Saving
          /\ "done" \notin Late /\ "open" \notin Late /\ "open" \notin Saving
      BY <2>2, LateIs, Parts, Zenon DEF Tallied
    <3>2. /\ l = "open" => Len(log'[p]) = i'[p]
          /\ l = "done" => Len(log'[p]) = args'[p].iterations
      BY <2>2, <3>1 DEF Books, Booked
    <3> QED BY <2>1, <2>2, <3>1, <3>2, Zenon DEF Tallied
  <2> QED BY <2>1, <2>2, <2>3, <2>4, OthersTallied DEF Books, Booked
<1>9. ASSUME NEW p \in Procs, WriteFails(p) \/ Killed(p) PROVE Books'
  <2>1. mishaps' = mishaps + 1 /\ mishaps' # 0
    BY <1>0, <1>9 DEF WriteFails, Killed, Mishap
  <2>2. CASE Goto(p, "dead") /\ UNCHANGED <<passed, diverged, log, args, i>>
    BY <2>1, <2>2, BooksMove
  <2>3. CASE /\ at[p] \in {"impb", "code", "data", "bytes", "dump", "saving"}
             /\ Except(p)
    <3>1. Outcome(p, "ERROR")
      BY <2>3 DEF Except, Forget, Outcome
    <3>2. at[p] \in Early \/ at[p] \in Saving
      BY <2>3 DEF Early, Saving
    <3> QED BY <2>1, <3>1, <3>2, BooksLog DEF Words
  <2> QED BY <1>9, <2>2, <2>3 DEF WriteFails, Killed, Forget
<1>10. CASE UNCHANGED vars
  BY <1>10 DEF vars, Books, Booked, Tallied
<1> QED BY <1>1, <1>2, <1>3, <1>4, <1>5, <1>6, <1>7, <1>8, <1>9, <1>10 DEF Next, Step

(* Whatever is raised, killed or interleaved, the totals a campaign prints *)
(* are those of its iterations: a consensus and a divergence count once,   *)
(* an error for neither, and none is lost unless a write or a process was. *)
THEOREM TotalsAreOfIterations == Spec => []Totals
<1>1. Books => Totals
  <2> SUFFICES ASSUME Books, NEW p \in Procs
               PROVE  /\ passed[p] = Cardinality(Logged(log[p], "CONSENSUS"))
                      /\ mishaps = 0 /\ at[p] \notin {"dump", "saving"}
                           => diverged[p] = Cardinality(Logged(log[p], "DIVERGENCE"))
                      /\ at[p] = "open" => Len(log[p]) = i[p]
                      /\ at[p] = "done" => Len(log[p]) = args[p].iterations
    BY DEF Totals, Logged
  <2>1. Cardinality(Logged(log[p], "DIVERGENCE")) \in Nat
    BY LoggedIsNat DEF Books, Booked
  <2> QED BY <2>1 DEF Books, Tallied, Early, Saving
<1> QED BY <1>1, BooksInit, BooksStep, PTL DEF Spec

-----------------------------------------------------------------------------
(* A campaign that has the checkout to itself.  The files a killed one     *)
(* left are there when it starts: what it reads must be what it wrote.     *)

(* The calls before which engine e has ended in this iteration.            *)
Ran(e) ==
    CASE e = "on" -> {"off", "java", "ocaml", "compare"}
      [] e = "off" -> {"java", "ocaml", "compare"}
      [] e = "java" -> {"ocaml", "compare"}
      [] e = "ocaml" -> {"compare"}
FilesAreOwn(p) ==
    /\ at[p] \in InTry => disk["impas"] = Text(p)
    /\ at[p] \in {"impb", "code", "data", "bytes"} => parsed[p] = Text(p)
    /\ at[p] \in {"data", "bytes", "on", "off", "java", "ocaml"} => disk["impb"] = Text(p)
    /\ at[p] \in {"on", "off", "java", "ocaml"} => disk["data"] = Text(p)
EnginesAreOwn(p) ==
    \A e \in Engines : at[p] \in Ran(e) =>
        /\ seen[p][e] = {Text(p)}
        /\ states[p][e] \in Runs[e][Text(p)] \ {CRASH}
Gone(p) ==
    /\ at[p] \in {"exists 2", "unlink 2", "exists 3", "unlink 3", "next", "done"}
         => disk["impas"] = ABSENT
    /\ at[p] \in {"exists 3", "unlink 3", "next", "done"} => disk["impb"] = ABSENT
    /\ at[p] \in {"next", "done"} => disk["data"] = ABSENT
Own(p) ==
    /\ FilesAreOwn(p) /\ EnginesAreOwn(p) /\ Gone(p)
    /\ at[p] \in Saving => Disagree(Text(p))
OneProcess == \A p, q \in Procs : at[p] # "idle" /\ at[q] # "idle" => p = q
Kept == \A s \in Seeds : dump[s] \notin {ABSENT, EMPTY} => Disagree(dump[s])
Records ==
    /\ DOMAIN seen = Procs /\ DOMAIN states = Procs /\ alone \in BOOLEAN
    /\ \A p \in Procs : DOMAIN seen[p] = Engines /\ DOMAIN states[p] = Engines
                        /\ states[p] = [e \in Engines |-> states[p][e]]
Alone == Inv /\ Records /\ (alone => OneProcess /\ Kept /\ \A p \in Procs : Own(p))

(* Before its text is written and after the try clause has failed a        *)
(* process claims nothing, and a process that never ran never does.        *)
Claimless == {"idle", "open", "text", "exists 1", "unlink 1", "dead"}
OwnAll == \A p \in Procs : at[p] \in Claimless => Own(p)
LEMMA ClaimsNothing == OwnAll
<1> SUFFICES ASSUME NEW p \in Procs, at[p] \in Claimless PROVE Own(p)
  BY DEF OwnAll
<1>1. FilesAreOwn(p)
  BY DEF FilesAreOwn, InTry, Claimless
<1>2. EnginesAreOwn(p)
  BY DEF EnginesAreOwn, Ran, Claimless, Engines
<1>3. Gone(p) /\ at[p] \notin Saving
  BY DEF Gone, Saving, Claimless
<1> QED BY <1>1, <1>2, <1>3 DEF Own

LEMMA AloneInit == Init => Alone
<1> SUFFICES ASSUME Init PROVE Alone
  OBVIOUS
<1>1. Inv
  BY InvInit
<1>2. Records
  BY DEF Init, Records, NoRun
<1>3. OneProcess /\ Kept
  BY DEF Init, OneProcess, Kept
<1>4. ASSUME NEW p \in Procs PROVE Own(p)
  BY <1>4, ClaimsNothing DEF Init, OwnAll, Claimless
<1> QED BY <1>1, <1>2, <1>3, <1>4 DEF Alone

(* The one process takes a step: the others stay as they are, idle.        *)
LEMMA OwnStep ==
    ASSUME Alone, Inv', Records', NEW p \in Procs, NEW l, Goto(p, l), alone' = alone,
           alone => \A q \in Procs \ {p} : at[q] = "idle",
           alone => Kept' /\ Own(p)'
    PROVE  Alone'
<1> SUFFICES ASSUME alone PROVE OneProcess' /\ \A q \in Procs : Own(q)'
  BY DEF Alone
<1>1. \A q \in Procs \ {p} : at'[q] = "idle"
  BY DEF Goto, Alone, Inv, Shape
<1>2. ASSUME NEW q \in Procs, q # p PROVE Own(q)'
  <2>1. at'[q] \in Claimless
    BY <1>1, <1>2 DEF Claimless
  <2>2. OwnAll'
    BY ClaimsNothing, PTL
  <2> QED BY <2>1, <2>2 DEF OwnAll
<1> QED BY <1>1, <1>2 DEF OneProcess

LEMMA Sole ==
    ASSUME Alone, alone, NEW p \in Procs, at[p] # "idle"
    PROVE  /\ \A q \in Procs \ {p} : at[q] = "idle"
           /\ Own(p) /\ Kept
BY DEF Alone, OneProcess

(* Steps to a call before which nothing is claimed.                        *)
LEMMA DropStep ==
    ASSUME Alone, Inv', Records', NEW p \in Procs, NEW l \in Claimless, Goto(p, l),
           alone' = alone, alone => \A q \in Procs \ {p} : at[q] = "idle", dump' = dump
    PROVE  Alone'
<1>1. at'[p] = l
  BY DEF Goto, Alone, Inv, Shape
<1>2. OwnAll'
  BY ClaimsNothing, PTL
<1>3. Own(p)'
  BY <1>1, <1>2 DEF OwnAll
<1>4. alone => Kept'
  BY DEF Alone, Kept
<1> QED BY <1>3, <1>4, OwnStep

(* Steps within the try clause and the clean-up that keep the iteration.   *)
LEMMA WorkStep ==
    ASSUME Alone, Inv', Records', NEW p \in Procs, NEW l, Goto(p, l), at[p] # "idle",
           UNCHANGED <<alone, dump, args, i>>,
           alone /\ Own(p) => (FilesAreOwn(p) /\ EnginesAreOwn(p) /\ Gone(p))',
           alone /\ Own(p) /\ l \in Saving => Disagree(Text(p))
    PROVE  Alone'
<1>1. at'[p] = l /\ Text(p)' = Text(p)
  BY DEF Goto, Alone, Inv, Shape, Text
<1>2. alone => Kept' /\ Own(p)' /\ \A q \in Procs \ {p} : at[q] = "idle"
  BY <1>1, Sole DEF Kept, Own
<1> QED BY <1>2, OwnStep

(* An engine that finds one program in the files it reads runs that one.   *)
LEMMA OwnOutcomes ==
    ASSUME NEW e \in Engines, NEW g, Reads(e) = {g}, g \in DOMAIN Runs[e],
           g # ABSENT, g # EMPTY
    PROVE  Outcomes(e) = Runs[e][g]
<1>1. (CHOOSE h \in Reads(e) : TRUE) = g
  OBVIOUS
<1>2. Reads(e) # {ABSENT} /\ Reads(e) # {EMPTY} /\ \E h \in DOMAIN Runs[e] : Reads(e) = {h}
  OBVIOUS
<1> QED BY <1>1, <1>2, Zenon DEF Outcomes

(* Four states of the program that compare_state tells apart.              *)
LEMMA Disagreed ==
    ASSUME NEW g, NEW s, s = [e \in Engines |-> s[e]],
           \A e \in Engines : s[e] \in Runs[e][g] \ {CRASH}, Mismatch(s)
    PROVE  Disagree(g)
<1>1. s \in [Engines -> UNION {Runs[e][g] : e \in Engines}]
  <2>1. \A e \in Engines : s[e] \in UNION {Runs[d][g] : d \in Engines}
    OBVIOUS
  <2> QED BY <2>1
<1> QED BY <1>1 DEF Disagree

LEMMA AloneStep == Alone /\ [Next]_vars => Alone'
<1> SUFFICES ASSUME Alone, [Next]_vars PROVE Alone'
  OBVIOUS
<1> USE DEF KeepFiles, KeepRun, KeepCounts, KeepWorld
<1>0. Inv /\ Inv' /\ Shape
  BY InvStep DEF Alone, Inv
<1>a. ASSUME UNCHANGED <<seen, states, alone>> PROVE Records'
  BY <1>a DEF Alone, Records
<1>b. ASSUME NEW p \in Procs, Forget(p), alone' = alone PROVE Records'
  BY <1>b DEF Forget, NoRun, Alone, Records
<1>c. /\ \A p \in Procs : at[p] \in {"open", "text", "parse", "impb", "code", "data", "bytes",
                          "on", "off", "java", "ocaml", "compare", "dump", "saving", "next"}
           => at[p] # "idle"
      /\ \A k \in 1..3 : Exists[k] # "idle" /\ Unlink[k] # "idle"
  BY Three, Labels
<1>1. ASSUME NEW p \in Procs, Start(p) PROVE Alone'
  <2>1. Records' /\ dump' = dump /\ alone' = alone
    BY <1>1, <1>a DEF Start
  <2>2. "open" \in Claimless
    BY DEF Claimless
  <2> QED BY <1>0, <1>1, <2>1, <2>2, DropStep DEF Start
<1>2. ASSUME NEW p \in Procs, Truncate(p, "open", "impas", "text") PROVE Alone'
  <2>1. Records' /\ at[p] # "idle" /\ dump' = dump /\ alone' = alone
    BY <1>2, <1>a DEF Truncate
  <2>2. "text" \in Claimless
    BY DEF Claimless
  <2>3. alone => \A q \in Procs \ {p} : at[q] = "idle"
    BY <2>1, Sole
  <2> QED BY <1>0, <1>2, <2>1, <2>2, <2>3, DropStep DEF Truncate
<1>3. ASSUME NEW p \in Procs, Fill(p, "text", "impas", Text(p), "parse") PROVE Alone'
  <2>1. /\ Records' /\ at[p] # "idle" /\ UNCHANGED <<alone, dump, args, i>>
        /\ at'[p] = "parse" /\ disk'["impas"] = Text(p) /\ Text(p)' = Text(p)
    BY <1>0, <1>3, <1>a DEF Fill, Goto, Shape, Text
  <2>2. (FilesAreOwn(p) /\ EnginesAreOwn(p) /\ Gone(p))'
    BY <2>1 DEF FilesAreOwn, EnginesAreOwn, Gone, Ran, Engines
  <2> QED BY <1>0, <1>3, <2>1, <2>2, WorkStep DEF Fill, Saving
<1>4. ASSUME NEW p \in Procs, Parse(p) PROVE Alone'
  <2>1. /\ Records' /\ at[p] # "idle" /\ UNCHANGED <<alone, dump, args, i, disk>>
        /\ at[p] = "parse" /\ at'[p] = "impb" /\ parsed'[p] = disk["impas"]
        /\ Text(p)' = Text(p)
    BY <1>0, <1>4, <1>a DEF Parse, Goto, Shape, Text
  <2>2. ASSUME FilesAreOwn(p) PROVE (FilesAreOwn(p) /\ EnginesAreOwn(p) /\ Gone(p))'
    BY <2>1, <2>2 DEF FilesAreOwn, EnginesAreOwn, Gone, Ran, Engines, InTry
  <2> QED BY <1>0, <1>4, <2>1, <2>2, WorkStep DEF Parse, Saving, Own
<1>5. ASSUME NEW p \in Procs, WriteBinary(p) PROVE Alone'
  <2>1. /\ Records' /\ at[p] # "idle" /\ UNCHANGED <<alone, dump, args, i, parsed>>
        /\ Text(p)' = Text(p)
    BY <1>0, <1>5, <1>a DEF WriteBinary, Truncate, Fill, Text
  <2>2. PICK l \in {"code", "data", "bytes", "on"} : Goto(p, l)
    BY <1>5 DEF WriteBinary, Truncate, Fill
  <2>3. /\ at'[p] = l /\ disk'["impas"] = disk["impas"] /\ at[p] \in InTry
        /\ l = "code" => at[p] = "impb"
        /\ l = "data" => at[p] = "code" /\ disk'["impb"] = parsed[p]
        /\ l = "bytes" => at[p] = "data" /\ disk'["impb"] = disk["impb"]
        /\ l = "on" => at[p] = "bytes" /\ disk'["impb"] = disk["impb"]
                       /\ disk'["data"] = parsed[p]
    <3>1. at'[p] = l
      BY <1>0, <2>2 DEF Goto, Shape
    <3>2. CASE Truncate(p, "impb", "impb", "code")
      BY <1>0, <3>1, <3>2 DEF Truncate, Goto, Shape, InTry
    <3>3. CASE Fill(p, "code", "impb", parsed[p], "data")
      BY <1>0, <3>1, <3>3 DEF Fill, Goto, Shape, InTry
    <3>4. CASE Truncate(p, "data", "data", "bytes")
      BY <1>0, <3>1, <3>4 DEF Truncate, Goto, Shape, InTry
    <3>5. CASE Fill(p, "bytes", "data", parsed[p], "on")
      BY <1>0, <3>1, <3>5 DEF Fill, Goto, Shape, InTry
    <3> QED BY <1>5, <3>2, <3>3, <3>4, <3>5 DEF WriteBinary
  <2>4. ASSUME FilesAreOwn(p) PROVE FilesAreOwn(p)'
    BY <2>1, <2>3, <2>4 DEF FilesAreOwn
  <2>5. (EnginesAreOwn(p) /\ Gone(p))'
    BY <2>2, <2>3 DEF EnginesAreOwn, Gone, Ran, Engines
  <2>6. l \notin Saving
    BY <2>2 DEF Saving
  <2> QED BY <1>0, <2>1, <2>2, <2>4, <2>5, <2>6, WorkStep DEF Own
<1>6. ASSUME NEW p \in Procs, NEW e \in Engines, NEW l \in {"off", "java", "ocaml", "compare"},
             Run(p, e, l), \A d \in Engines : l \in Ran(d) => d = e \/ e \in Ran(d)
      PROVE  Alone'
  <2>1. /\ at[p] = e /\ at[p] # "idle" /\ UNCHANGED <<alone, dump, args, i, disk>>
        /\ at'[p] = l /\ Goto(p, l) /\ Text(p)' = Text(p)
    BY <1>0, <1>6 DEF Run, Goto, Shape, Text, Engines
  <2>2. PICK t \in Outcomes(e) \ {CRASH} : states' = [states EXCEPT ![p][e] = t]
    BY <1>6 DEF Run
  <2>3. Records'
    BY <1>6, <2>2 DEF Run, Alone, Records
  <2>4. /\ seen'[p][e] = Reads(e) /\ states'[p][e] = t
        /\ \A d \in Engines \ {e} : seen'[p][d] = seen[p][d] /\ states'[p][d] = states[p][d]
    BY <1>6, <2>2 DEF Run, Alone, Records
  <2>5. Text(p) \notin {EMPTY, ABSENT} /\ \A d \in Engines : Text(p) \in DOMAIN Runs[d]
    BY <1>0, TextIsProgram, EnginesAssumption
  <2>6. ASSUME FilesAreOwn(p), EnginesAreOwn(p) PROVE EnginesAreOwn(p)'
    <3>1. Reads(e) = {Text(p)}
      BY <2>1, <2>6 DEF FilesAreOwn, Reads, InTry, Engines
    <3>2. Outcomes(e) = Runs[e][Text(p)]
      BY <2>5, <3>1, OwnOutcomes
    <3>3. ASSUME NEW d \in Engines, l \in Ran(d)
          PROVE  seen'[p][d] = {Text(p)} /\ states'[p][d] \in Runs[d][Text(p)] \ {CRASH}
      <4>1. CASE d = e
        BY <2>2, <2>4, <3>1, <3>2, <4>1
      <4>2. CASE d # e
        BY <1>6, <2>1, <2>4, <2>6, <3>3, <4>2 DEF EnginesAreOwn
      <4> QED BY <4>1, <4>2
    <3> QED BY <2>1, <3>3 DEF EnginesAreOwn, Ran
  <2>7. ASSUME FilesAreOwn(p) PROVE (FilesAreOwn(p) /\ Gone(p))'
    BY <1>6, <2>1, <2>7 DEF FilesAreOwn, Gone, InTry, Engines, Run
  <2>8. l \notin Saving
    BY DEF Saving
  <2> QED BY <1>0, <2>1, <2>3, <2>6, <2>7, <2>8, WorkStep DEF Own
<1>7. ASSUME NEW p \in Procs, RunEngine(p) PROVE Alone'
  <2>1. /\ \A d \in Engines : "off" \in Ran(d) => d = "on" \/ "on" \in Ran(d)
        /\ \A d \in Engines : "java" \in Ran(d) => d = "off" \/ "off" \in Ran(d)
        /\ \A d \in Engines : "ocaml" \in Ran(d) => d = "java" \/ "java" \in Ran(d)
        /\ \A d \in Engines : "compare" \in Ran(d) => d = "ocaml" \/ "ocaml" \in Ran(d)
    BY DEF Ran, Engines
  <2>2. {"on", "off", "java", "ocaml"} \subseteq Engines
    BY DEF Engines
  <2> QED BY <1>6, <1>7, <2>1, <2>2 DEF RunEngine
<1>8. ASSUME NEW p \in Procs, Compare(p) PROVE Alone'
  <2>1. /\ Records' /\ at[p] = "compare" /\ at[p] # "idle"
        /\ UNCHANGED <<alone, dump, args, i>>
    BY <1>8, <1>b DEF Compare, Forget
  <2>2. CASE Mismatch(states[p])
    <3>1. Goto(p, "dump") /\ at'[p] = "dump"
      BY <1>0, <1>8, <2>2 DEF Compare, Goto, Shape
    <3>2. ASSUME FilesAreOwn(p) PROVE (FilesAreOwn(p) /\ EnginesAreOwn(p) /\ Gone(p))'
      BY <1>8, <2>1, <3>1, <3>2
         DEF Compare, FilesAreOwn, EnginesAreOwn, Gone, Ran, Engines, InTry, Text
    <3>3. ASSUME EnginesAreOwn(p) PROVE Disagree(Text(p))
      <4>1. \A e \in Engines : states[p][e] \in Runs[e][Text(p)] \ {CRASH}
        BY <2>1, <3>3 DEF EnginesAreOwn, Ran, Engines
      <4>2. states[p] = [e \in Engines |-> states[p][e]]
        BY DEF Alone, Records
      <4> QED BY <2>2, <4>1, <4>2, Disagreed
    <3> QED BY <1>0, <2>1, <3>1, <3>2, <3>3, WorkStep DEF Own
  <2>3. CASE ~Mismatch(states[p])
    <3>1. Goto(p, "exists 1") /\ "exists 1" \in Claimless
      BY <1>8, <2>3, Labels DEF Compare, Claimless
    <3>2. alone => \A q \in Procs \ {p} : at[q] = "idle"
      BY <2>1, Sole
    <3> QED BY <1>0, <2>1, <3>1, <3>2, DropStep
  <2> QED BY <2>2, <2>3
<1>9. ASSUME NEW p \in Procs, Dump(p) PROVE Alone'
  <2>1. Records' /\ at[p] # "idle" /\ at[p] \in Saving /\ UNCHANGED <<alone, args, i, disk>>
    BY <1>9, <1>a DEF Dump, Saving
  <2>2. alone => /\ \A q \in Procs \ {p} : at[q] = "idle"
                 /\ Own(p) /\ Kept /\ Disagree(Text(p))
    BY <2>1, Sole DEF Own
  <2>3. CASE at[p] = "dump" /\ Goto(p, "saving")
    <3>1. at'[p] = "saving" /\ Text(p)' = Text(p) /\ dump' = [dump EXCEPT ![Repro(p)] = EMPTY]
      BY <1>0, <1>9, <2>1, <2>3, Labels DEF Dump, Goto, Shape, Text
    <3>2. Kept => Kept'
      BY <1>0, <3>1 DEF Kept, Shape
    <3>3. ASSUME FilesAreOwn(p) PROVE (FilesAreOwn(p) /\ EnginesAreOwn(p) /\ Gone(p))'
      BY <2>1, <2>3, <3>1, <3>3 DEF FilesAreOwn, EnginesAreOwn, Gone, Ran, Engines, InTry
    <3>4. alone => Own(p)'
      BY <2>2, <3>1, <3>3 DEF Own
    <3> QED BY <1>0, <2>1, <2>2, <2>3, <3>2, <3>4, OwnStep
  <2>4. CASE at[p] = "saving" /\ Goto(p, Exists[1])
    <3>1. /\ Goto(p, "exists 1") /\ at'[p] = "exists 1"
          /\ dump' = [dump EXCEPT ![Repro(p)] = Text(p)]
      BY <1>0, <1>9, <2>4, Labels DEF Dump, Goto, Shape
    <3>2. Kept /\ Disagree(Text(p)) => Kept'
      BY <1>0, <3>1 DEF Kept, Shape
    <3>3. OwnAll'
      BY ClaimsNothing, PTL
    <3>4. Own(p)'
      BY <3>1, <3>3 DEF OwnAll, Claimless
    <3> QED BY <1>0, <2>1, <2>2, <3>1, <3>2, <3>4, OwnStep
  <2> QED BY <1>9, <2>3, <2>4 DEF Dump
<1>10. ASSUME NEW p \in Procs, at[p] # "idle", Goto(p, "exists 1") \/ Goto(p, "dead"),
              Forget(p) \/ KeepRun, UNCHANGED <<alone, dump>>
       PROVE  Alone'
  <2>1. Records' /\ "exists 1" \in Claimless /\ "dead" \in Claimless
    BY <1>10, <1>a, <1>b DEF Claimless
  <2>2. alone => \A q \in Procs \ {p} : at[q] = "idle"
    BY <1>10, Sole
  <2> QED BY <1>0, <1>10, <2>1, <2>2, DropStep
<1>11. ASSUME NEW p \in Procs, Raises(p) \/ UnlinkRaises(p) \/ WriteFails(p) \/ Killed(p)
       PROVE  Alone'
  <2>1. at[p] # "idle"
    BY <1>11, <1>c DEF Raises, UnlinkRaises, WriteFails, Killed, Mishap, Idle, Engines
  <2>2. Goto(p, "exists 1") \/ Goto(p, "dead")
    BY <1>11, Labels DEF Raises, UnlinkRaises, WriteFails, Killed, Except
  <2>3. /\ Forget(p) \/ KeepRun
        /\ UNCHANGED <<alone, dump>>
    BY <1>11 DEF Raises, UnlinkRaises, WriteFails, Killed, Mishap, Except
  <2> QED BY <1>10, <2>1, <2>2, <2>3
<1>12. ASSUME NEW p \in Procs, CleanUp(p) PROVE Alone'
  <2>1. /\ Records' /\ UNCHANGED <<alone, dump, args, i>>
    BY <1>12, <1>a DEF CleanUp
  <2>2. PICK k \in 1..3 :
        \/ /\ at[p] = Exists[k] /\ disk' = disk
           /\ Goto(p, IF disk[Files[k]] # ABSENT THEN Unlink[k] ELSE Exists[k + 1])
        \/ /\ at[p] = Unlink[k] /\ Goto(p, Exists[k + 1])
           /\ disk' = [disk EXCEPT ![Files[k]] = ABSENT]
    BY <1>12 DEF CleanUp
  <2>3. at[p] # "idle"
    BY <2>2, <1>c
  <2>4. PICK l : Goto(p, l) /\ at'[p] = l /\ l \in {Unlink[k], Exists[k + 1]}
    BY <1>0, <2>2 DEF Goto, Shape
  <2>5. ASSUME Gone(p) PROVE Gone(p)'
    <3>1. CASE k = 1
      BY <1>0, <2>2, <2>4, <2>5, <3>1, Labels DEF Goto, Shape, Files, Gone
    <3>2. CASE k = 2
      BY <1>0, <2>2, <2>4, <2>5, <3>2, Labels DEF Goto, Shape, Files, Gone
    <3>3. CASE k = 3
      BY <1>0, <2>2, <2>4, <2>5, <3>3, Labels DEF Goto, Shape, Files, Gone
    <3> QED BY <3>1, <3>2, <3>3, Three
  <2>6. l \notin InTry /\ l \notin Saving
    BY <2>4, Three, Labels DEF InTry, Saving
  <2>7. (FilesAreOwn(p) /\ EnginesAreOwn(p))'
    BY <2>4, <2>6 DEF FilesAreOwn, EnginesAreOwn, Ran, Engines, InTry
  <2> QED BY <1>0, <2>1, <2>3, <2>4, <2>5, <2>6, <2>7, WorkStep DEF Own
<1>13. ASSUME NEW p \in Procs, Advance(p) PROVE Alone'
  <2>1. Records' /\ at[p] = "next" /\ at[p] # "idle" /\ UNCHANGED <<alone, dump, args, disk>>
    BY <1>13, <1>a DEF Advance
  <2>2. CASE Goto(p, "open")
    <3>1. "open" \in Claimless
      BY DEF Claimless
    <3>2. alone => \A q \in Procs \ {p} : at[q] = "idle"
      BY <2>1, Sole
    <3> QED BY <1>0, <2>1, <2>2, <3>1, <3>2, DropStep
  <2>3. CASE Goto(p, "done") /\ UNCHANGED i
    <3>1. at'[p] = "done" /\ "done" \notin Saving
      BY <1>0, <2>3 DEF Goto, Shape, Saving
    <3>2. ASSUME Gone(p) PROVE (FilesAreOwn(p) /\ EnginesAreOwn(p) /\ Gone(p))'
      BY <2>1, <3>1, <3>2 DEF FilesAreOwn, EnginesAreOwn, Gone, Ran, Engines, InTry
    <3> QED BY <1>0, <2>1, <2>3, <3>1, <3>2, WorkStep DEF Own
  <2> QED BY <1>13, <2>2, <2>3 DEF Advance
<1>14. CASE UNCHANGED vars
  <2>1. Records' /\ (OneProcess => OneProcess') /\ (Kept => Kept')
    BY <1>14, <1>a DEF vars, OneProcess, Kept
  <2>2. ASSUME NEW p \in Procs, Own(p) PROVE Own(p)'
    BY <1>14, <2>2 DEF vars, Own, FilesAreOwn, EnginesAreOwn, Gone, Ran, Text
  <2> QED BY <1>0, <1>14, <2>1, <2>2 DEF Alone, vars
<1> QED BY <1>1, <1>2, <1>3, <1>4, <1>5, <1>7, <1>8, <1>9, <1>11, <1>12, <1>13, <1>14
       DEF Next, Step, WriteText

LEMMA AloneHolds == Spec => []Alone
BY AloneInit, AloneStep, PTL DEF Spec

(* With one process at a time every engine was given the program of this   *)
(* iteration, whatever a killed run has left in the three files.           *)
THEOREM OwnProgramsRun == Spec => []AloneRunsOwnProgram
<1>1. Alone => AloneRunsOwnProgram
  BY DEF Alone, AloneRunsOwnProgram, Own, EnginesAreOwn, Ran, Engines
<1> QED BY <1>1, AloneHolds, PTL

(* With one process at a time the four engines can end in states that      *)
(* differ on what a complete reproduction file holds.                      *)
THEOREM ReprosDisagree == Spec => []AloneReproduces
<1>1. Alone => AloneReproduces
  BY DEF Alone, AloneReproduces, Kept
<1> QED BY <1>1, AloneHolds, PTL

(* With one process at a time a campaign that ends leaves no temporary     *)
(* file, those of a killed one before it included.                         *)
THEOREM AloneTidiesUp == Spec => []AloneEndsClean
<1>1. Alone => AloneEndsClean
  <2> SUFFICES ASSUME Alone, alone, NEW p \in Procs, at[p] = "done" PROVE Clean
    BY DEF AloneEndsClean
  <2>1. disk["impas"] = ABSENT /\ disk["impb"] = ABSENT /\ disk["data"] = ABSENT
    BY DEF Alone, Own, Gone
  <2>2. Files[1] = "impas" /\ Files[2] = "impb" /\ Files[3] = "data"
    BY DEF Files
  <2> QED BY <2>1, <2>2, Three DEF Clean
<1> QED BY <1>1, AloneHolds, PTL
=============================================================================
