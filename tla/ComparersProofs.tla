---------------------------- MODULE ComparersProofs ----------------------------
(***************************************************************************)
(* Proofs about ThreeWay, for any vectors, engines and states: it is a     *)
(* validator whose passes are agreements, and a green run is explained.    *)
(* And about Parity, for any expressions and programs: it is a validator   *)
(* whose passes are equal programs, and it leaks no query but by an        *)
(* exception.                                                              *)
(***************************************************************************)
EXTENDS Comparers, TLAPS

Verdicts == {"PASS", "FAIL", "SKIP", "ERROR"}
(* Where the loop is, and whom a failure is counted for. *)
Progress ==
    /\ order \in Suites /\ next \in 1..(Len(order) + 1)
    /\ verdict \in [Tests -> {"none"} \cup Verdicts]
    /\ DOMAIN states = Tests /\ \A t \in Tests : DOMAIN states[t] = Engines
    /\ \A k \in 1..Len(order) : verdict[order[k]] = "none" <=> k >= next
    /\ \A t \in Tests : verdict[t] = "SKIP" => EMPTY \in Runs["cpp"][t]
    /\ failed \in Nat
    /\ failed # 0 <=> \E t \in Tests : verdict[t] \in {"FAIL", "ERROR"}
    /\ exit = 0 => failed = 0 /\ next > Len(order)
(* What the loop body has collected for the vector at hand.                *)
Has(e) == states[This][e] # EMPTY
Collected ==
    next <= Len(order) =>
        /\ step \in {"java", "ocaml", "compare"} => Has("cpp")
        /\ step \in {"ocaml", "compare"} => Has("java")
        /\ step = "compare" => Has("ocaml")
Inv == Progress /\ Collected

LEMMA OrderFacts ==
    ASSUME Progress
    PROVE  /\ order \in Seq(Tests) /\ Len(order) \in Nat
           /\ \A k \in 1..Len(order) : order[k] \in Tests
           /\ \A j, k \in 1..Len(order) : order[j] = order[k] => j = k
BY SuitesAssumption DEF Progress

LEMMA OpenVector ==
    ASSUME Progress, next <= Len(order)
    PROVE  This \in Tests /\ verdict[This] = "none" /\ next \in 1..Len(order)
BY OrderFacts DEF Progress, This

LEMMA InvInit == Init => Inv
<1> SUFFICES ASSUME Init PROVE Inv
  OBVIOUS
<1>1. order \in Seq(Tests) /\ Len(order) \in Nat /\ \A k \in 1..Len(order) : order[k] \in Tests
  BY SuitesAssumption DEF Init
<1> QED BY <1>1 DEF Init, Inv, Progress, Collected

LEMMA RunKeeps ==
    ASSUME Inv, NEW e \in Engines, NEW then, Run(e, then),
           <<e, then>> \in {<<"cpp", "java">>, <<"java", "ocaml">>, <<"ocaml", "compare">>}
    PROVE  Inv' /\ UNCHANGED Promise!vars
<1>1. PICK s : s # EMPTY /\ states' = [states EXCEPT ![This][e] = s]
  BY DEF Run
<1>2. /\ This \in Tests /\ verdict[This] = "none" /\ This' = This /\ step = e
      /\ UNCHANGED <<order, next, verdict, failed, exit>>
  BY OpenVector DEF Inv, Run, At, This
<1>3. /\ DOMAIN states' = Tests /\ \A t \in Tests : DOMAIN states'[t] = Engines
      /\ \A t \in Tests : t # This => states'[t] = states[t]
      /\ states'[This][e] # EMPTY
      /\ \A d \in Engines : d # e => states'[This][d] = states[This][d]
  BY <1>1, <1>2 DEF Inv, Progress
<1>4. Progress'
  BY <1>2, <1>3 DEF Inv, Progress
<1>5. Collected'
  BY <1>2, <1>3 DEF Inv, Collected, Has, Run, Engines
<1>6. Sound' = Sound
  BY <1>2, <1>3 DEF Sound
<1> QED BY <1>2, <1>4, <1>5, <1>6 DEF Inv, Promise!vars

(* Closing the vector at hand is the abstract Decide.                      *)
LEMMA CloseDecides ==
    ASSUME Inv, next <= Len(order), exit = -1, NEW v \in Verdicts, Close(v),
           v = "SKIP" => EMPTY \in Runs["cpp"][This],
           v = "PASS" => Agree(states[This]) /\ \A e \in Engines : Has(e)
    PROVE  Inv' /\ Promise!Decide(v)
<1>1. /\ This \in Tests /\ verdict[This] = "none" /\ next \in 1..Len(order)
      /\ Len(order) \in Nat /\ This = order[next]
  BY OpenVector, OrderFacts DEF Inv, This
<1>2. /\ verdict' = [verdict EXCEPT ![This] = v] /\ next' = next + 1 /\ step' = "cpp"
      /\ failed' = IF v \in {"FAIL", "ERROR"} THEN failed + 1 ELSE failed
      /\ UNCHANGED <<order, states, exit>>
  BY DEF Close
<1>3. \A k \in 1..Len(order) : verdict'[order[k]] = "none" <=> k >= next'
  <2> SUFFICES ASSUME NEW k \in 1..Len(order)
               PROVE  verdict'[order[k]] = "none" <=> k >= next + 1
    BY <1>2
  <2>1. order[k] \in Tests /\ (order[k] = This => k = next)
    BY <1>1, OrderFacts DEF Inv
  <2> QED BY <1>1, <1>2, <2>1 DEF Inv, Progress, Verdicts
<1>4. failed' \in Nat /\ (failed' # 0 <=> \E t \in Tests : verdict'[t] \in {"FAIL", "ERROR"})
  <2>1. failed \in Nat /\ verdict \in [Tests -> {"none"} \cup Verdicts]
    BY DEF Inv, Progress
  <2>2. CASE v \in {"FAIL", "ERROR"}
    BY <1>1, <1>2, <2>1, <2>2
  <2>3. CASE v \notin {"FAIL", "ERROR"}
    <3>1. \A t \in Tests : verdict'[t] \in {"FAIL", "ERROR"} <=> verdict[t] \in {"FAIL", "ERROR"}
      BY <1>1, <1>2, <2>1, <2>3
    <3> QED BY <1>2, <2>1, <2>3, <3>1 DEF Inv, Progress
  <2> QED BY <2>2, <2>3
<1>5. Progress'
  BY <1>1, <1>2, <1>3, <1>4 DEF Inv, Progress
<1>6. Collected'
  BY <1>2 DEF Collected
<1>7. Promise!Decide(v)
  <2>1. order[(next - 1) + 1] = This /\ next - 1 < Len(order) /\ next' - 1 = (next - 1) + 1
    BY <1>1, <1>2
  <2>2. \A t \in Tests : t # This => (t \in Sound' <=> t \in Sound)
    BY <1>1, <1>2 DEF Sound, Inv, Progress
  <2>3. This \notin Sound /\ Sound \subseteq Tests /\ Sound' \subseteq Tests
    BY <1>1 DEF Sound
  <2>4. Sound' \in {Sound, Sound \cup {This}}
    <3>1. CASE This \in Sound'
      <4>1. Sound' = Sound \cup {This}
        BY <1>1, <2>2, <2>3, <3>1
      <4> QED BY <4>1
    <3>2. CASE This \notin Sound'
      <4>1. Sound' = Sound
        BY <2>2, <2>3, <3>2
      <4> QED BY <4>1
    <3> QED BY <3>1, <3>2
  <2>5. v = "PASS" => This \in Sound'
    BY <1>1, <1>2 DEF Sound, Has, Inv, Progress
  <2> QED BY <1>2, <2>1, <2>4, <2>5 DEF Promise!Decide
<1> QED BY <1>5, <1>6, <1>7 DEF Inv

(* Two comparisons with C++ are the third one, of Java and OCaml.          *)
LEMMA ComparedAgree ==
    ASSUME NEW s, ~Differs(s["cpp"], s["java"], s["ocaml"])
    PROVE  Agree(s)
BY DEF Differs, Agree, Engines

LEMMA InvStep == Inv /\ [Next]_vars => Inv' /\ [Promise!Next]_(Promise!vars)
<1> SUFFICES ASSUME Inv, [Next]_vars PROVE Inv' /\ [Promise!Next]_(Promise!vars)
  OBVIOUS
<1>1. ASSUME NEW v \in Verdicts, Promise!Decide(v) PROVE Promise!Next
  BY <1>1 DEF Promise!Next, Verdicts
<1>2. CASE RunCpp \/ RunJava \/ RunOcaml
  BY <1>2, RunKeeps DEF RunCpp, RunJava, RunOcaml, Engines
<1>3. CASE SkipEmpty
  BY <1>1, <1>3, CloseDecides DEF SkipEmpty, At, Verdicts
<1>4. CASE Raises
  BY <1>1, <1>4, CloseDecides DEF Raises, At, Verdicts
<1>5. CASE Compare
  <2> DEFINE s == states[This]
             differ == Differs(s["cpp"], s["java"], s["ocaml"])
  <2>1. /\ Close(IF differ THEN "FAIL" ELSE "PASS") /\ exit = -1
        /\ next <= Len(order) /\ step = "compare"
    BY <1>5 DEF Compare, At
  <2>2. ~differ => Agree(s)
    BY ComparedAgree
  <2>3. PICK v \in {"PASS", "FAIL"} : Close(v) /\ (v = "PASS" => ~differ)
    BY <2>1
  <2>4. \A e \in Engines : Has(e)
    BY <2>1 DEF Inv, Collected, Engines
  <2> HIDE DEF differ
  <2> QED BY <1>1, <2>1, <2>2, <2>3, <2>4, CloseDecides DEF Verdicts
<1>6. CASE Finish
  <2> DEFINE bad == \E t \in Tests : verdict[t] \in {"FAIL", "ERROR"}
  <2>1. /\ next \in 1..(Len(order) + 1) /\ Len(order) \in Nat /\ next > Len(order)
        /\ exit = -1 /\ exit' = IF failed > 0 THEN 1 ELSE 0
        /\ UNCHANGED <<order, next, verdict, states, failed, step>>
        /\ failed \in Nat /\ (failed # 0 <=> bad)
    BY <1>6, OrderFacts DEF Finish, Inv, Progress
  <2>2. next - 1 = Len(order) /\ Sound' = Sound /\ exit' = IF bad THEN 1 ELSE 0
    BY <2>1 DEF Sound
  <2>3. Inv'
    BY <2>1 DEF Inv, Progress, Collected
  <2>4. exit' \in [b \in BOOLEAN |-> IF b THEN {1} ELSE {0}][bad]
    <3>1. bad \in BOOLEAN
      OBVIOUS
    <3> HIDE DEF bad
    <3> QED BY <2>2, <3>1
  <2>5. Promise!Stop
    BY <2>1, <2>2, <2>4 DEF Promise!Stop
  <2> QED BY <2>3, <2>5 DEF Promise!Next
<1>7. CASE UNCHANGED vars
  BY <1>7 DEF vars, Inv, Progress, Collected, Has, This, Promise!vars, Sound
<1> QED BY <1>2, <1>3, <1>4, <1>5, <1>6, <1>7 DEF Next

LEMMA InvHolds == Spec => []Inv
BY InvInit, InvStep, PTL DEF Spec

LEMMA PromiseInit == Init => Promise!Init
BY DEF Init, Promise!Init, Sound

(* The three-way validator keeps the validators' promise for any vectors,  *)
(* engines and states, with three agreeing states behind every pass.       *)
THEOREM ThreeWayIsValidator == Spec => ImplementsValidator
BY InvInit, InvStep, PromiseInit, PTL DEF Spec, ImplementsValidator, Promise!Spec

(* Status 0 leaves only passes and vectors without instructions.           *)
THEOREM GreenRunsAreExplained == Spec => []GreenIsExplained
<1>1. Inv => GreenIsExplained
  <2> SUFFICES ASSUME Inv, exit = 0, NEW k \in 1..Len(order)
               PROVE  \/ verdict[order[k]] = "PASS"
                      \/ verdict[order[k]] = "SKIP" /\ EMPTY \in Runs["cpp"][order[k]]
    BY DEF GreenIsExplained
  <2>1. order[k] \in Tests /\ verdict[order[k]] # "none"
    BY OrderFacts DEF Inv, Progress
  <2> QED BY <2>1 DEF Inv, Progress, Verdicts
<1> QED BY <1>1, InvHolds, PTL

-----------------------------------------------------------------------------
(* Parity. *)

ParityVerdicts == {"PASS", "FAIL", "ERROR"}
Compilers == {"java", "cpp"}
Here == Expressions[at]
(* Where the loop is.                                                      *)
ParityProgress ==
    /\ at \in 1..(Len(Expressions) + 1)
    /\ judged \in [P!Tests -> {"none"} \cup ParityVerdicts]
    /\ DOMAIN made = P!Tests /\ \A t \in P!Tests : DOMAIN made[t] = Compilers
    /\ \A k \in 1..Len(Expressions) : judged[Expressions[k]] = "none" <=> k >= at
    /\ at <= Len(Expressions) => status = -1
(* What the loop body has made of the expression at hand, and that nothing *)
(* has been made of the later ones.                                        *)
ParityCollected ==
    /\ \A k \in 1..Len(Expressions) :
          k > at => made[Expressions[k]]["java"] = NONE /\ made[Expressions[k]]["cpp"] = NONE
    /\ at <= Len(Expressions) =>
          /\ call = "java" => made[Here]["java"] = NONE
          /\ call # "java" => made[Here]["java"] = javaHex /\ javaHex # NONE
          /\ call # "compare" => made[Here]["cpp"] = NONE
          /\ call = "compare" => made[Here]["cpp"] = cppHex /\ cppHex # NONE
ParityInv == ParityProgress /\ ParityCollected /\ P!QueriesDestroyed

LEMMA ExpressionFacts ==
    /\ Len(Expressions) \in Nat
    /\ \A k \in 1..Len(Expressions) : Expressions[k] \in P!Tests
    /\ \A t \in P!Tests : \E k \in 1..Len(Expressions) : t = Expressions[k]
    /\ \A j, k \in 1..Len(Expressions) : Expressions[j] = Expressions[k] => j = k
BY ParityAssumption DEF P!Tests

LEMMA OpenExpression ==
    ASSUME ParityProgress, at <= Len(Expressions)
    PROVE  /\ Here \in P!Tests /\ judged[Here] = "none" /\ at \in 1..Len(Expressions)
           /\ P!This = Here
BY ExpressionFacts DEF ParityProgress, Here, P!This

LEMMA ParityInitially == P!Init => ParityInv /\ P!Promise!Init
<1> SUFFICES ASSUME P!Init PROVE ParityInv /\ P!Promise!Init
  OBVIOUS
<1>1. ParityProgress
  BY ExpressionFacts DEF P!Init, ParityProgress, Compilers
<1>2. ParityCollected
  BY ExpressionFacts DEF P!Init, ParityCollected, Here
<1>3. P!QueriesDestroyed
  BY DEF P!Init, P!QueriesDestroyed
<1>4. P!Promise!Init
  BY DEF P!Init, P!Promise!Init, P!Sound
<1> QED BY <1>1, <1>2, <1>3, <1>4 DEF ParityInv

(* A call that makes h, or nothing, of the expression at hand.             *)
LEMMA MakingKeeps ==
    ASSUME ParityInv, at <= Len(Expressions), NEW c \in Compilers, NEW h,
           made' = [made EXCEPT ![Here][c] = h],
           UNCHANGED <<at, judged, status>>
    PROVE  /\ ParityProgress' /\ UNCHANGED P!Promise!vars
           /\ made'[Here][c] = h
           /\ \A d \in Compilers : d # c => made'[Here][d] = made[Here][d]
           /\ \A t \in P!Tests : t # Here => made'[t] = made[t]
           /\ Here' = Here
<1>1. /\ Here \in P!Tests /\ judged[Here] = "none" /\ Here' = Here
      /\ DOMAIN made = P!Tests /\ \A t \in P!Tests : DOMAIN made[t] = Compilers
  BY OpenExpression DEF ParityInv, ParityProgress, Here
<1>2. /\ DOMAIN made' = P!Tests /\ \A t \in P!Tests : DOMAIN made'[t] = Compilers
      /\ \A t \in P!Tests : t # Here => made'[t] = made[t]
      /\ made'[Here][c] = h
      /\ \A d \in Compilers : d # c => made'[Here][d] = made[Here][d]
  BY <1>1
<1>3. ParityProgress'
  BY <1>2 DEF ParityInv, ParityProgress
<1>4. P!Sound' = P!Sound
  BY <1>1, <1>2 DEF P!Sound
<1> QED BY <1>1, <1>2, <1>3, <1>4 DEF P!Promise!vars

(* Closing the expression at hand is the abstract Decide.                  *)
LEMMA ParityCloses ==
    ASSUME ParityInv, at <= Len(Expressions), NEW v \in ParityVerdicts, P!Close(v),
           UNCHANGED <<made, alive, status>>,
           v = "PASS" => made[Here]["java"] # NONE /\ made[Here]["java"] = made[Here]["cpp"],
           call = "copy" => v = "ERROR"
    PROVE  ParityInv' /\ P!Promise!Next
<1>1. /\ Here \in P!Tests /\ judged[Here] = "none" /\ at \in 1..Len(Expressions)
      /\ Len(Expressions) \in Nat /\ Here = Expressions[at] /\ P!This = Here
      /\ judged \in [P!Tests -> {"none"} \cup ParityVerdicts] /\ status = -1
  BY OpenExpression, ExpressionFacts DEF ParityInv, ParityProgress, Here
<1>2. judged' = [judged EXCEPT ![Here] = v] /\ at' = at + 1 /\ call' = "java"
  BY <1>1 DEF P!Close
<1>3. \A k \in 1..Len(Expressions) : judged'[Expressions[k]] = "none" <=> k >= at'
  <2> SUFFICES ASSUME NEW k \in 1..Len(Expressions)
               PROVE  judged'[Expressions[k]] = "none" <=> k >= at + 1
    BY <1>2
  <2>1. Expressions[k] \in P!Tests /\ (Expressions[k] = Here => k = at)
    BY <1>1, ExpressionFacts
  <2>2. k = at => judged'[Expressions[k]] = v /\ v # "none"
    BY <1>1, <1>2 DEF ParityVerdicts
  <2>3. k # at => judged'[Expressions[k]] = judged[Expressions[k]]
    BY <1>1, <1>2, <2>1
  <2>4. judged[Expressions[k]] = "none" <=> k >= at
    BY DEF ParityInv, ParityProgress
  <2> QED BY <1>1, <2>2, <2>3, <2>4
<1>4. ParityProgress'
  BY <1>1, <1>2, <1>3 DEF ParityInv, ParityProgress
<1>5. ParityCollected'
  <2>1. \A k \in 1..Len(Expressions) : k > at =>
           made[Expressions[k]]["java"] = NONE /\ made[Expressions[k]]["cpp"] = NONE
    BY DEF ParityInv, ParityCollected
  <2> QED BY <1>1, <1>2, <2>1 DEF ParityCollected, Here
<1>6. P!QueriesDestroyed'
  <2> SUFFICES ASSUME NEW t \in alive
               PROVE  t \in P!Tests /\ judged'[t] = "ERROR" /\ made[t]["cpp"] = NONE
    BY <1>2 DEF P!QueriesDestroyed, P!At
  <2>1. \/ t \in P!Tests /\ judged[t] = "ERROR" /\ made[t]["cpp"] = NONE
        \/ call = "copy" /\ t = Here
    BY <1>1 DEF ParityInv, P!QueriesDestroyed, P!At
  <2>2. call = "copy" => made[Here]["cpp"] = NONE
    BY DEF ParityInv, ParityCollected
  <2> QED BY <1>1, <1>2, <2>1, <2>2
<1>7. P!Promise!Decide(v)
  <2>1. Expressions[(at - 1) + 1] = Here /\ at - 1 < Len(Expressions) /\ at' - 1 = (at - 1) + 1
    BY <1>1, <1>2
  <2>2. \A t \in P!Tests : t # Here => (t \in P!Sound' <=> t \in P!Sound)
    BY <1>1, <1>2 DEF P!Sound
  <2>3. Here \notin P!Sound /\ P!Sound \subseteq P!Tests /\ P!Sound' \subseteq P!Tests
    BY <1>1 DEF P!Sound
  <2>4. P!Sound' \in {P!Sound, P!Sound \cup {Here}}
    <3>1. CASE Here \in P!Sound'
      <4>1. P!Sound' = P!Sound \cup {Here}
        BY <1>1, <2>2, <2>3, <3>1
      <4> QED BY <4>1
    <3>2. CASE Here \notin P!Sound'
      <4>1. P!Sound' = P!Sound
        BY <2>2, <2>3, <3>2
      <4> QED BY <4>1
    <3> QED BY <3>1, <3>2
  <2>5. v = "PASS" => Here \in P!Sound'
    BY <1>1, <1>2 DEF P!Sound
  <2> QED BY <1>1, <1>2, <2>1, <2>4, <2>5 DEF P!Promise!Decide
<1> QED BY <1>4, <1>5, <1>6, <1>7 DEF ParityInv, P!Promise!Next, ParityVerdicts

LEMMA ParityStep ==
    ParityInv /\ [P!Next]_parity => ParityInv' /\ [P!Promise!Next]_(P!Promise!vars)
<1> SUFFICES ASSUME ParityInv, [P!Next]_parity
             PROVE  ParityInv' /\ [P!Promise!Next]_(P!Promise!vars)
  OBVIOUS
<1>1. CASE P!RunJava
  <2>1. at <= Len(Expressions) /\ call = "java" /\ P!This = Here
        /\ UNCHANGED <<cppHex, alive, status>>
    BY <1>1, OpenExpression DEF P!RunJava, P!At, ParityInv
  <2>2. CASE UNCHANGED <<javaHex, made>> /\ P!Close("ERROR")
    BY <2>1, <2>2, ParityCloses DEF ParityVerdicts
  <2>3. CASE \E h \in Programs :
                javaHex' = h /\ made' = [made EXCEPT ![P!This]["java"] = h] /\ P!Continue("cpp")
    <3>1. PICK h \in Programs :
             javaHex' = h /\ made' = [made EXCEPT ![P!This]["java"] = h] /\ P!Continue("cpp")
      BY <2>3
    <3>2. /\ ParityProgress' /\ UNCHANGED P!Promise!vars
          /\ made'[Here]["java"] = h /\ made'[Here]["cpp"] = made[Here]["cpp"]
          /\ \A t \in P!Tests : t # Here => made'[t] = made[t]
          /\ Here' = Here /\ UNCHANGED <<at, judged>> /\ call' = "cpp"
      BY <2>1, <3>1, MakingKeeps DEF P!Continue, Compilers
    <3>3. ParityCollected'
      BY <2>1, <3>1, <3>2, ExpressionFacts, OpenExpression, ParityAssumption
         DEF ParityInv, ParityCollected, Here
    <3>4. P!QueriesDestroyed'
      BY <2>1, <3>2, OpenExpression DEF ParityInv, P!QueriesDestroyed, P!At
    <3> QED BY <3>2, <3>3, <3>4 DEF ParityInv
  <2> QED BY <1>1, <2>2, <2>3 DEF P!RunJava
<1>2. CASE P!Compile
  <2>1. at <= Len(Expressions) /\ call = "cpp" /\ P!This = Here
        /\ UNCHANGED <<javaHex, cppHex, made, status>>
    BY <1>2, OpenExpression DEF P!Compile, P!At, ParityInv
  <2>2. CASE UNCHANGED alive /\ P!Close("ERROR")
    BY <2>1, <2>2, ParityCloses DEF ParityVerdicts
  <2>3. CASE alive' = alive \cup {P!This} /\ P!Continue("copy")
    <3>1. UNCHANGED <<at, judged>> /\ call' = "copy" /\ Here' = Here
      BY <2>3 DEF P!Continue, Here
    <3>2. ParityProgress' /\ UNCHANGED P!Promise!vars
      BY <2>1, <3>1 DEF ParityInv, ParityProgress, P!Promise!vars, P!Sound
    <3>3. ParityCollected'
      BY <2>1, <3>1 DEF ParityInv, ParityCollected
    <3>4. P!QueriesDestroyed'
      BY <2>1, <2>3, <3>1 DEF ParityInv, P!QueriesDestroyed, P!At, P!This
    <3> QED BY <3>2, <3>3, <3>4 DEF ParityInv
  <2> QED BY <1>2, <2>2, <2>3 DEF P!Compile
<1>3. CASE P!Copy
  <2>1. at <= Len(Expressions) /\ call = "copy" /\ P!This = Here
        /\ UNCHANGED <<javaHex, status>>
    BY <1>3, OpenExpression DEF P!Copy, P!At, ParityInv
  <2>2. CASE UNCHANGED <<cppHex, made, alive>> /\ P!Close("ERROR")
    BY <2>1, <2>2, ParityCloses DEF ParityVerdicts
  <2>3. CASE /\ \E h \in Programs :
                   cppHex' = h /\ made' = [made EXCEPT ![P!This]["cpp"] = h]
             /\ alive' = alive \ {P!This} /\ P!Continue("compare")
    <3>1. PICK h \in Programs : cppHex' = h /\ made' = [made EXCEPT ![P!This]["cpp"] = h]
      BY <2>3
    <3>2. /\ ParityProgress' /\ UNCHANGED P!Promise!vars
          /\ made'[Here]["cpp"] = h /\ made'[Here]["java"] = made[Here]["java"]
          /\ \A t \in P!Tests : t # Here => made'[t] = made[t]
          /\ Here' = Here /\ UNCHANGED <<at, judged>> /\ call' = "compare"
      BY <2>1, <2>3, <3>1, MakingKeeps DEF P!Continue, Compilers
    <3>3. ParityCollected'
      BY <2>1, <3>1, <3>2, ExpressionFacts, OpenExpression, ParityAssumption
         DEF ParityInv, ParityCollected, Here
    <3>4. P!QueriesDestroyed'
      BY <2>1, <2>3, <3>2, OpenExpression DEF ParityInv, P!QueriesDestroyed, P!At
    <3> QED BY <3>2, <3>3, <3>4 DEF ParityInv
  <2> QED BY <1>3, <2>2, <2>3 DEF P!Copy
<1>4. CASE P!Compare
  <2>1. /\ at <= Len(Expressions) /\ call = "compare" /\ UNCHANGED <<made, alive, status>>
        /\ P!Close(IF javaHex = cppHex THEN "PASS" ELSE "FAIL")
    BY <1>4 DEF P!Compare, P!At
  <2>2. PICK v \in {"PASS", "FAIL"} : P!Close(v) /\ (v = "PASS" => javaHex = cppHex)
    BY <2>1
  <2>3. /\ made[Here]["java"] = javaHex /\ javaHex # NONE
        /\ made[Here]["cpp"] = cppHex
    BY <2>1 DEF ParityInv, ParityCollected
  <2> QED BY <2>1, <2>2, <2>3, ParityCloses DEF ParityVerdicts
<1>5. CASE P!Finish
  <2>1. /\ at > Len(Expressions) /\ status = -1 /\ status' = 0 /\ at' = at
        /\ UNCHANGED <<call, javaHex, cppHex, made, alive, judged>>
        /\ at \in 1..(Len(Expressions) + 1) /\ Len(Expressions) \in Nat
    BY <1>5, ExpressionFacts DEF P!Finish, ParityInv, ParityProgress
  <2>2. at - 1 = Len(Expressions) /\ P!Sound' = P!Sound
    BY <2>1 DEF P!Sound
  <2>3. P!Promise!Stop
    BY <2>1, <2>2 DEF P!Promise!Stop
  <2>4. ParityInv'
    BY <2>1 DEF ParityInv, ParityProgress, ParityCollected, Here, P!QueriesDestroyed, P!At, P!This
  <2> QED BY <2>3, <2>4 DEF P!Promise!Next
<1>6. CASE UNCHANGED parity
  BY <1>6 DEF parity, ParityInv, ParityProgress, ParityCollected, Here, P!QueriesDestroyed,
     P!At, P!This, P!Promise!vars, P!Sound
<1> QED BY <1>1, <1>2, <1>3, <1>4, <1>5, <1>6 DEF P!Next

LEMMA ParityInvHolds == ComparersSpec => []ParityInv
<1>1. ComparersInit => ParityInv
  BY ParityInitially DEF ComparersInit
<1>2. [ComparersNext]_<<tool, vars, parity>> => [P!Next]_parity
  BY DEF ComparersNext
<1> QED BY <1>1, <1>2, ParityStep, PTL DEF ComparersSpec

(* A native query is left undestroyed only by an exception between the     *)
(* compiler's answer and the copy of its bytes, for any expressions.       *)
THEOREM QueriesAreDestroyed == ComparersSpec => []QueriesDestroyed
<1>1. ParityInv => QueriesDestroyed
  BY DEF ParityInv, QueriesDestroyed
<1> QED BY <1>1, ParityInvHolds, PTL

(* The parity harness keeps the validators' promise, with equal programs   *)
(* of both compilers behind every pass, and a status that says nothing.    *)
THEOREM ParityIsValidator == ComparersSpec => ParityImplementsValidator
<1>1. ComparersInit => ParityInv /\ P!Promise!Init
  BY ParityInitially DEF ComparersInit
<1>2. [ComparersNext]_<<tool, vars, parity>> => [P!Next]_parity
  BY DEF ComparersNext
<1> QED BY <1>1, <1>2, ParityStep, PTL
        DEF ComparersSpec, ParityImplementsValidator, P!ImplementsValidator, P!Promise!Spec
=============================================================================
