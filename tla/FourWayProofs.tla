---------------------------- MODULE FourWayProofs ----------------------------
(***************************************************************************)
(* Proofs about FourWay, for any vectors, engines and states: a pass is a  *)
(* consensus of all four engines, and a green run is one of passes only.   *)
(*                                                                         *)
(* Both need that the loop never returns to a vector it has closed, so     *)
(* that the states a verdict was given on are still the ones recorded.     *)
(***************************************************************************)
EXTENDS FourWay, TLAPS

(* The vectors closed are those before the one at hand, a count of no      *)
(* failures means none of them failed, and the loop is over at exit.       *)
Progress ==
    /\ order \in Seq(Tests)
    /\ \A j, k \in 1..Len(order) : order[j] = order[k] => j = k
    /\ DOMAIN states = Tests
    /\ \A k \in 1..Len(order) : verdict[order[k]] = "none" <=> k >= next
    /\ failed = 0 => \A t \in Tests : verdict[t] \notin {"FAIL", "ERROR"}
    /\ exit = 0 => failed = 0 /\ next > Len(order)
FourWayInv == TypeOK /\ Progress /\ PassMeansConsensus

LEMMA FourWayInit == Init => FourWayInv
<1> SUFFICES ASSUME Init PROVE FourWayInv
  OBVIOUS
<1>1. /\ order \in Suites /\ order \in Seq(Tests) /\ Len(order) \in Nat
      /\ \A j, k \in 1..Len(order) : order[j] = order[k] => j = k
      /\ \A k \in 1..Len(order) : order[k] \in Tests
  BY VectorsAssumption DEF Init
<1>2. TypeOK
  BY <1>1 DEF Init, TypeOK
<1>3. \A t \in Tests : verdict[t] = "none"
  BY DEF Init
<1>4. Progress
  BY <1>1, <1>3 DEF Init, Progress
<1>5. PassMeansConsensus
  BY <1>3 DEF PassMeansConsensus
<1> QED BY <1>2, <1>4, <1>5 DEF FourWayInv

(* The vector at hand has no verdict yet.                                  *)
LEMMA OpenVector ==
    ASSUME FourWayInv, next <= Len(order)
    PROVE  next \in 1..Len(order) /\ This \in Tests /\ verdict[This] = "none"
<1>1. next \in 1..Len(order)
  BY DEF FourWayInv, TypeOK, Progress
<1> QED BY <1>1 DEF FourWayInv, Progress, This

(* Closing the vector at hand keeps the count and the order.               *)
LEMMA CloseKeeps ==
    ASSUME FourWayInv, next <= Len(order), exit = -1,
           NEW v \in {"PASS", "FAIL", "ERROR"}, Close(v),
           v = "PASS" => Agree(states[This]),
           UNCHANGED <<order, states, exit>>
    PROVE  FourWayInv'
<1>1. next \in 1..Len(order) /\ This \in Tests /\ verdict[This] = "none" /\ Len(order) \in Nat
  BY OpenVector DEF FourWayInv, Progress
<1>2. /\ verdict \in [Tests -> {"none", "PASS", "FAIL", "ERROR"}]
      /\ verdict' = [verdict EXCEPT ![This] = v]
      /\ next' = next + 1 /\ step' = "on"
  BY DEF Close, FourWayInv, TypeOK
<1>3. passed \in Nat /\ failed \in Nat
  BY DEF FourWayInv, TypeOK
<1>4. TypeOK'
  <2>1. passed' \in Nat /\ failed' \in Nat
    BY <1>3 DEF Close
  <2>2. next' \in 1..(Len(order') + 1) /\ order' \in Suites
    BY <1>1, <1>2 DEF FourWayInv, TypeOK
  <2>3. verdict' \in [Tests -> {"none", "PASS", "FAIL", "ERROR"}]
    BY <1>2
  <2> QED BY <1>2, <2>1, <2>2, <2>3 DEF TypeOK
<1>5. Progress'
  <2>1. \A k \in 1..Len(order') : verdict'[order'[k]] = "none" <=> k >= next'
    <3> SUFFICES ASSUME NEW k \in 1..Len(order)
                 PROVE  verdict'[order[k]] = "none" <=> k >= next + 1
      BY <1>2
    <3>1. order[k] \in Tests /\ (order[k] = This <=> k = next)
      BY <1>1 DEF FourWayInv, Progress, This
    <3>2. verdict[order[k]] = "none" <=> k >= next
      BY DEF FourWayInv, Progress
    <3> QED BY <1>1, <1>2, <3>1, <3>2
  <2>2. failed' = 0 => \A t \in Tests : verdict'[t] \notin {"FAIL", "ERROR"}
    <3> SUFFICES ASSUME failed' = 0, NEW t \in Tests
                 PROVE  verdict'[t] \notin {"FAIL", "ERROR"}
      OBVIOUS
    <3>1. v = "PASS" /\ failed = 0
      BY <1>3 DEF Close
    <3> QED BY <1>2, <3>1 DEF FourWayInv, Progress
  <2> QED BY <2>1, <2>2 DEF FourWayInv, Progress
<1>6. PassMeansConsensus'
  <2> SUFFICES ASSUME NEW t \in Tests, verdict'[t] = "PASS" PROVE Agree(states[t])'
    BY DEF PassMeansConsensus
  <2>1. CASE t = This
    BY <1>1, <1>2, <2>1 DEF Agree
  <2>2. CASE t # This
    <3>1. verdict[t] = "PASS"
      BY <1>1, <1>2, <2>2
    <3> QED BY <3>1 DEF FourWayInv, PassMeansConsensus
  <2> QED BY <2>1, <2>2
<1> QED BY <1>4, <1>5, <1>6 DEF FourWayInv

(* Recording a state for the vector at hand disturbs no verdict given.     *)
LEMMA EndedKeeps ==
    ASSUME FourWayInv, next <= Len(order),
           NEW e, NEW code, NEW s, NEW then \in {"off", "export", "ocaml", "compare"},
           Ended(e, code, s, then), UNCHANGED order
    PROVE  FourWayInv'
<1>1. This \in Tests /\ verdict[This] = "none"
  BY OpenVector
<1>2. TypeOK'
  BY DEF Ended, FourWayInv, TypeOK
<1>3. Progress'
  BY DEF Ended, FourWayInv, Progress
<1>4. \A t \in Tests : t # This => states'[t] = states[t]
  BY DEF Ended, FourWayInv, Progress
<1>5. PassMeansConsensus'
  <2> SUFFICES ASSUME NEW t \in Tests, verdict'[t] = "PASS" PROVE Agree(states[t])'
    BY DEF PassMeansConsensus
  <2>1. verdict[t] = "PASS" /\ states'[t] = states[t]
    BY <1>1, <1>4 DEF Ended
  <2> QED BY <2>1 DEF FourWayInv, PassMeansConsensus
<1> QED BY <1>2, <1>3, <1>5 DEF FourWayInv

(* Three comparisons make a consensus of four.                             *)
LEMMA ComparedAgree == ~Mismatch(states[This]) => Agree(states[This])
<1>1. ASSUME NEW v, v["on"] = v["java"], v["on"] = v["ocaml"], v["off"] = v["java"]
      PROVE  \A d, e \in Engines : v[d] = v[e]
  BY <1>1 DEF Engines
<1> SUFFICES ASSUME ~Mismatch(states[This]) PROVE Agree(states[This])
  OBVIOUS
<1>2. ASSUME NEW f \in Fields, NEW d \in Engines, NEW e \in Engines
      PROVE  states[This][d][f] = states[This][e][f]
  <2>1. ~OneDiffers([g \in Engines |-> states[This][g][f]])
    BY DEF Mismatch
  <2> QED BY <2>1 DEF OneDiffers, Engines
<1>3. ASSUME NEW r \in Scalar(states[This]["on"]), NEW d \in Engines, NEW e \in Engines
      PROVE  states[This][d].regs[r] = states[This][e].regs[r]
  <2>1. ~OneDiffers([g \in Engines |-> states[This][g].regs[r]])
    BY DEF Mismatch
  <2> QED BY <2>1 DEF OneDiffers, Engines
<1> QED BY <1>2, <1>3 DEF Agree

LEMMA FourWayStep == FourWayInv /\ [Next]_vars => FourWayInv'
<1> SUFFICES ASSUME FourWayInv, [Next]_vars PROVE FourWayInv'
  OBVIOUS
<1>1. CASE RunOn
  BY <1>1, EndedKeeps DEF RunOn, RunCpp, At, Ended
<1>2. CASE RunOff
  BY <1>2, EndedKeeps DEF RunOff, RunCpp, At, Ended
<1>3. CASE Raises
  BY <1>3, CloseKeeps DEF Raises
<1>4. CASE Export
  <2>1. TypeOK' /\ Progress'
    BY <1>4 DEF Export, At, FourWayInv, TypeOK, Progress
  <2>2. PassMeansConsensus'
    BY <1>4 DEF Export, FourWayInv, PassMeansConsensus, Scalar
  <2> QED BY <2>1, <2>2 DEF FourWayInv
<1>5. CASE RunJava
  <2>1. PICK s : Ended("java", disk[This], s, "ocaml")
    BY <1>5 DEF RunJava, RunProcess
  <2>2. next <= Len(order) /\ UNCHANGED order
    BY <1>5, <2>1 DEF RunJava, RunProcess, At, Ended
  <2> QED BY <2>1, <2>2, EndedKeeps
<1>6. CASE RunOcaml
  <2>1. PICK s : Ended("ocaml", disk[This], s, "compare")
    BY <1>6 DEF RunOcaml, RunProcess
  <2>2. next <= Len(order) /\ UNCHANGED order
    BY <1>6, <2>1 DEF RunOcaml, RunProcess, At, Ended
  <2> QED BY <2>1, <2>2, EndedKeeps
<1>7. CASE Compare
  <2>1. CASE Mismatch(states[This]) \/ \E e \in Engines : Unmet(states[This][e], Expect[This])
    BY <1>7, <2>1, CloseKeeps DEF Compare, At
  <2>2. CASE ~(Mismatch(states[This]) \/ \E e \in Engines : Unmet(states[This][e], Expect[This]))
    BY <1>7, <2>2, CloseKeeps, ComparedAgree DEF Compare, At
  <2> QED BY <2>1, <2>2
<1>8. CASE Finish
  <2>1. TypeOK' /\ Progress'
    BY <1>8 DEF Finish, FourWayInv, TypeOK, Progress
  <2>2. PassMeansConsensus'
    BY <1>8 DEF Finish, FourWayInv, PassMeansConsensus, Scalar
  <2> QED BY <2>1, <2>2 DEF FourWayInv
<1>9. CASE UNCHANGED vars
  BY <1>9 DEF vars, FourWayInv, TypeOK, Progress, PassMeansConsensus, Scalar
<1> QED BY <1>1, <1>2, <1>3, <1>4, <1>5, <1>6, <1>7, <1>8, <1>9 DEF Next

LEMMA FourWayHolds == Spec => []FourWayInv
BY FourWayInit, FourWayStep, PTL DEF Spec

(* A vector is printed as passing only if all four engines agree on every  *)
(* compared field and scalar register, whatever states they end in.        *)
THEOREM PassesAreConsensus == Spec => []PassMeansConsensus
<1>1. FourWayInv => PassMeansConsensus
  BY DEF FourWayInv
<1> QED BY <1>1, FourWayHolds, PTL

(* Exit status 0 is reached only when every vector found has passed.       *)
THEOREM GreenRunsPassed == Spec => []GreenMeansAllPass
<1>1. FourWayInv => GreenMeansAllPass
  <2> SUFFICES ASSUME FourWayInv, exit = 0, NEW k \in 1..Len(order)
               PROVE  verdict[order[k]] = "PASS"
    BY DEF GreenMeansAllPass
  <2>1. order[k] \in Tests /\ ~(k >= next)
    BY DEF FourWayInv, Progress, TypeOK
  <2>2. verdict[order[k]] \notin {"none", "FAIL", "ERROR"}
    BY <2>1 DEF FourWayInv, Progress
  <2> QED BY <2>1, <2>2 DEF FourWayInv, TypeOK
<1> QED BY <1>1, FourWayHolds, PTL

-----------------------------------------------------------------------------
(* Where the loop body is tells what it has collected for the vector at    *)
(* hand, and closed vectors keep what they passed on.                      *)
Collected(e) == ran[This][e] = Code /\ states[This][e] # None
Chain ==
    next <= Len(order) =>
        /\ step # "on" => ran[This]["on"] = Code /\ (Code = EMPTY => states[This]["on"] = None)
        /\ step \notin {"on", "off"} => ran[This]["off"] = Code
        /\ step \in {"java", "ocaml", "compare"} =>
              disk[This] = Code /\ Code # EMPTY /\ Collected("on") /\ Collected("off")
        /\ step \in {"ocaml", "compare"} => Collected("java")
        /\ step = "compare" => Collected("ocaml")
Shape ==
    /\ DOMAIN states = Tests /\ DOMAIN ran = Tests /\ DOMAIN disk = Tests
    /\ \A t \in Tests : DOMAIN states[t] = Engines /\ DOMAIN ran[t] = Engines
Evidence ==
    \A t \in Tests : verdict[t] = "PASS" => \A e \in Engines : states[t][e] # None
Blame == failed # 0 => \E t \in Tests : verdict[t] \in {"FAIL", "ERROR"}
EvidenceInv ==
    FourWayInv /\ Shape /\ Chain /\ Evidence /\ PassOnOwnProgram /\ Blame

LEMMA EvidenceInit == Init => EvidenceInv
<1> SUFFICES ASSUME Init PROVE EvidenceInv
  OBVIOUS
<1>1. Shape /\ Chain /\ Evidence /\ PassOnOwnProgram /\ Blame
  BY DEF Init, Shape, Chain, Evidence, PassOnOwnProgram, Blame
<1> QED BY <1>1, FourWayInit DEF EvidenceInv

(* A step of an engine adds to what is collected.                          *)
LEMMA EndedCollects ==
    ASSUME EvidenceInv, next <= Len(order), NEW e \in Engines, NEW code, NEW s, NEW then,
           Ended(e, code, s, then)
    PROVE  /\ Shape' /\ Evidence' /\ PassOnOwnProgram' /\ Blame'
           /\ This' = This /\ Code' = Code /\ order' = order /\ next' = next
           /\ disk' = disk /\ step' = then
           /\ ran'[This][e] = code /\ states'[This][e] = s
           /\ \A d \in Engines : d # e => /\ ran'[This][d] = ran[This][d]
                                          /\ states'[This][d] = states[This][d]
<1>1. This \in Tests /\ verdict[This] = "none"
  BY OpenVector DEF EvidenceInv
<1>2. Shape' /\ \A t \in Tests : t # This => states'[t] = states[t] /\ ran'[t] = ran[t]
  BY <1>1 DEF EvidenceInv, Shape, Ended
<1>3. Evidence' /\ PassOnOwnProgram' /\ Blame'
  BY <1>1, <1>2 DEF EvidenceInv, Evidence, PassOnOwnProgram, Blame, Ended
<1>4. This' = This /\ Code' = Code
  BY DEF Ended, This, Code
<1> QED BY <1>1, <1>2, <1>3, <1>4 DEF EvidenceInv, Shape, Ended

(* A verdict is final, and a pass needs four states of its own program.    *)
LEMMA CloseDecides ==
    ASSUME EvidenceInv, next <= Len(order), NEW v \in {"PASS", "FAIL", "ERROR"}, Close(v),
           v = "PASS" => Code # EMPTY /\ \A e \in Engines : Collected(e),
           UNCHANGED <<order, disk, states, ran, exit>>
    PROVE  Shape' /\ Chain' /\ Evidence' /\ PassOnOwnProgram' /\ Blame'
<1>1. /\ This \in Tests /\ verdict[This] = "none"
      /\ verdict \in [Tests -> {"none", "PASS", "FAIL", "ERROR"}]
      /\ passed \in Nat /\ failed \in Nat
  BY OpenVector DEF EvidenceInv, FourWayInv, TypeOK
<1>2. Shape'
  BY DEF EvidenceInv, Shape
<1>3. Chain'
  BY DEF Close, Chain
<1>4. Evidence' /\ PassOnOwnProgram'
  BY <1>1 DEF EvidenceInv, Evidence, PassOnOwnProgram, Collected, Close, This, Code
<1>5. Blame'
  BY <1>1 DEF EvidenceInv, Blame, Close
<1> QED BY <1>2, <1>3, <1>4, <1>5

LEMMA EvidenceStep == EvidenceInv /\ [Next]_vars => EvidenceInv'
<1> SUFFICES ASSUME EvidenceInv, [Next]_vars
             PROVE  Shape' /\ Chain' /\ Evidence' /\ PassOnOwnProgram' /\ Blame'
  BY FourWayStep DEF EvidenceInv
<1> USE DEF Engines
<1>1. CASE RunOn
  <2>1. PICK s : Ended("on", Code, s, "off") /\ (Code = EMPTY => s = None)
    BY <1>1 DEF RunOn, RunCpp
  <2>2. next <= Len(order)
    BY <1>1 DEF RunOn, RunCpp, At
  <2> QED BY <2>1, <2>2, EndedCollects DEF Chain
<1>2. CASE RunOff
  <2>1. PICK s : Ended("off", Code, s, "export")
    BY <1>2 DEF RunOff, RunCpp
  <2>2. next <= Len(order) /\ step = "off"
    BY <1>2 DEF RunOff, RunCpp, At
  <2> QED BY <2>1, <2>2, EndedCollects DEF Chain, EvidenceInv
<1>3. CASE Raises
  BY <1>3, CloseDecides DEF Raises
<1>4. CASE Export
  <2>1. /\ This \in Tests /\ Code' = Code /\ This' = This
        /\ UNCHANGED <<order, next, states, ran, verdict, failed>>
    BY <1>4, OpenVector DEF Export, At, EvidenceInv, Code, This
  <2>2. Shape' /\ Evidence' /\ PassOnOwnProgram' /\ Blame'
    BY <1>4, <2>1 DEF Export, EvidenceInv, Shape, Evidence, PassOnOwnProgram, Blame
  <2>3. disk'[This] = Code /\ step = "export" /\ step' = "java"
    BY <1>4, <2>1 DEF Export, At, EvidenceInv, Shape
  <2>4. Code # EMPTY /\ Collected("on")' /\ Collected("off")'
    BY <1>4, <2>1, <2>3 DEF Export, At, EvidenceInv, Chain, Collected
  <2>5. disk'[This'] = Code' /\ Code' # EMPTY
        /\ ran'[This']["on"] = Code' /\ ran'[This']["off"] = Code'
    BY <2>1, <2>3, <2>4 DEF Collected
  <2> QED BY <2>2, <2>3, <2>4, <2>5 DEF Chain
<1>5. CASE RunJava
  <2>1. PICK s \in Runs["java"][disk[This]] : Ended("java", disk[This], s, "ocaml")
    BY <1>5 DEF RunJava, RunProcess
  <2>2. next <= Len(order) /\ step = "java" /\ This \in Tests
    BY <1>5, OpenVector DEF RunJava, RunProcess, At, EvidenceInv
  <2>3. disk[This] = Code /\ s # None
    BY <2>1, <2>2, StatesAssumption DEF EvidenceInv, Chain, Code
  <2> QED BY <2>1, <2>2, <2>3, EndedCollects DEF Chain, Collected, EvidenceInv
<1>6. CASE RunOcaml
  <2>1. PICK s \in Runs["ocaml"][disk[This]] : Ended("ocaml", disk[This], s, "compare")
    BY <1>6 DEF RunOcaml, RunProcess
  <2>2. next <= Len(order) /\ step = "ocaml" /\ This \in Tests
    BY <1>6, OpenVector DEF RunOcaml, RunProcess, At, EvidenceInv
  <2>3. disk[This] = Code /\ s # None
    BY <2>1, <2>2, StatesAssumption DEF EvidenceInv, Chain, Code
  <2> QED BY <2>1, <2>2, <2>3, EndedCollects DEF Chain, Collected, EvidenceInv
<1>7. CASE Compare
  <2>1. Code # EMPTY /\ \A e \in Engines : Collected(e)
    BY <1>7 DEF Compare, At, EvidenceInv, Chain
  <2>2. PICK v \in {"PASS", "FAIL"} : Close(v)
    BY <1>7 DEF Compare
  <2> QED BY <1>7, <2>1, <2>2, CloseDecides DEF Compare, At
<1>8. CASE Finish
  BY <1>8 DEF Finish, EvidenceInv, Shape, Chain, Evidence, PassOnOwnProgram, Blame,
       Collected, This, Code
<1>9. CASE UNCHANGED vars
  BY <1>9 DEF vars, EvidenceInv, Shape, Chain, Evidence, PassOnOwnProgram, Blame,
       Collected, This, Code
<1> QED BY <1>1, <1>2, <1>3, <1>4, <1>5, <1>6, <1>7, <1>8, <1>9 DEF Next

LEMMA EvidenceHolds == Spec => []EvidenceInv
BY EvidenceInit, EvidenceStep, PTL DEF Spec

(* A passing vector passed on the program the parser made of it in this    *)
(* run, whatever files earlier runs have left.                             *)
THEOREM PassesOnOwnProgram == Spec => []PassOnOwnProgram
<1>1. EvidenceInv => PassOnOwnProgram
  BY DEF EvidenceInv
<1> QED BY <1>1, EvidenceHolds, PTL

-----------------------------------------------------------------------------
(* The refinement: closing a vector is the abstract Decide, Finish is the  *)
(* abstract Stop, and every other step leaves verdicts and evidence alone. *)
LEMMA PromiseInit == Init => Promise!Init
BY VectorsAssumption DEF Init, Promise!Init, Sound

LEMMA DecideRefined ==
    ASSUME EvidenceInv, next <= Len(order), exit = -1,
           NEW v \in {"PASS", "FAIL", "ERROR"}, Close(v),
           v = "PASS" => Agree(states[This]) /\ \A e \in Engines : Collected(e),
           UNCHANGED <<order, states, exit>>
    PROVE  Promise!Decide(v)
<1>1. /\ This \in Tests /\ verdict[This] = "none"
      /\ verdict \in [Tests -> {"none", "PASS", "FAIL", "ERROR"}]
      /\ next \in Int /\ Len(order) \in Int
  BY OpenVector DEF EvidenceInv, FourWayInv, TypeOK, Progress
<1>2. order[(next - 1) + 1] = This /\ next - 1 < Len(order) /\ next' - 1 = (next - 1) + 1
  BY <1>1 DEF This, Close
<1>3. verdict' = [verdict EXCEPT ![This] = v]
  BY DEF Close
<1>4. Sound' \in {Sound, Sound \cup {This}}
  <2>1. \A t \in Tests : t # This => (t \in Sound' <=> t \in Sound)
    BY <1>1, <1>3 DEF Sound
  <2>2. This \notin Sound
    BY <1>1 DEF Sound
  <2>3. Sound \subseteq Tests /\ Sound' \subseteq Tests
    BY DEF Sound
  <2> QED BY <1>1, <2>1, <2>2, <2>3
<1>5. v = "PASS" => This \in Sound'
  BY <1>1, <1>3 DEF Sound, Collected
<1> QED BY <1>2, <1>3, <1>4, <1>5 DEF Promise!Decide

LEMMA StutterRefined ==
    ASSUME EvidenceInv, next <= Len(order),
           \A t \in Tests : t # This => states'[t] = states[t],
           UNCHANGED <<order, next, verdict, exit>>
    PROVE  UNCHANGED Promise!vars
<1>1. This \in Tests /\ verdict[This] = "none"
  BY OpenVector DEF EvidenceInv
<1>2. Sound' = Sound
  BY <1>1 DEF Sound
<1> QED BY <1>2 DEF Promise!vars

LEMMA StepRefined == EvidenceInv /\ [Next]_vars => [Promise!Next]_(Promise!vars)
<1> SUFFICES ASSUME EvidenceInv, [Next]_vars PROVE [Promise!Next]_(Promise!vars)
  OBVIOUS
<1>1. CASE RunOn \/ RunOff \/ RunJava \/ RunOcaml
  <2>1. next <= Len(order)
    BY <1>1 DEF RunOn, RunOff, RunCpp, RunJava, RunOcaml, RunProcess, At
  <2>2. \E e \in Engines : \E code, s, then : Ended(e, code, s, then)
    BY <1>1 DEF RunOn, RunOff, RunCpp, RunJava, RunOcaml, RunProcess, Engines
  <2>3. \A t \in Tests : t # This => states'[t] = states[t]
    BY <2>2 DEF Ended, EvidenceInv, Shape
  <2> QED BY <2>1, <2>2, <2>3, StutterRefined DEF Ended
<1>2. CASE Export
  BY <1>2, StutterRefined DEF Export, At
<1>3. CASE Raises
  <2>1. Promise!Decide("ERROR")
    BY <1>3, DecideRefined DEF Raises
  <2> QED BY <2>1 DEF Promise!Next
<1>4. CASE Compare
  <2>1. \A e \in Engines : Collected(e)
    BY <1>4 DEF Compare, At, EvidenceInv, Chain, Engines
  <2>2. PICK v \in {"PASS", "FAIL"} : Close(v) /\ (v = "PASS" => Agree(states[This]))
    BY <1>4, ComparedAgree DEF Compare
  <2>3. Promise!Decide(v)
    BY <1>4, <2>1, <2>2, DecideRefined DEF Compare, At
  <2> QED BY <2>3 DEF Promise!Next
<1>5. CASE Finish
  <2>1. /\ next \in 1..(Len(order) + 1) /\ Len(order) \in Nat /\ next > Len(order)
        /\ exit = -1 /\ exit' = IF failed > 0 THEN 1 ELSE 0
        /\ UNCHANGED <<order, next, verdict, states>> /\ failed \in Nat
    BY <1>5 DEF Finish, EvidenceInv, FourWayInv, TypeOK, Progress
  <2>2. next - 1 = Len(order) /\ UNCHANGED Sound
    BY <2>1 DEF Sound
  <2> DEFINE bad == \E t \in Tests : verdict[t] \in {"FAIL", "ERROR"}
  <2>3. exit' = IF bad THEN 1 ELSE 0
    BY <2>1 DEF EvidenceInv, Blame, FourWayInv, Progress
  <2>4. exit' \in [b \in BOOLEAN |-> IF b THEN {1} ELSE {0}][bad]
    <3>1. bad \in BOOLEAN
      OBVIOUS
    <3> HIDE DEF bad
    <3> QED BY <2>3, <3>1
  <2>5. Promise!Stop
    BY <2>1, <2>2, <2>4 DEF Promise!Stop
  <2> QED BY <2>5 DEF Promise!Next
<1>6. CASE UNCHANGED vars
  BY <1>6 DEF vars, Promise!vars, Sound
<1> QED BY <1>1, <1>2, <1>3, <1>4, <1>5, <1>6 DEF Next

(* The four-way validator keeps the validators' promise for any vectors,   *)
(* engines and states: verdicts in order and final, a pass only on four    *)
(* agreeing states, the exit status by the verdicts alone.                 *)
THEOREM FourWayIsValidator == Spec => ImplementsValidator
BY PromiseInit, StepRefined, EvidenceHolds, PTL
   DEF Spec, ImplementsValidator, Promise!Spec
=============================================================================
