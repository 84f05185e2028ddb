----------------------------- MODULE SuiteProofs -----------------------------
(* Theorems about Suite, for any test vectors, any directory contents and  *)
(* any behaviour of the engine.                                            *)
EXTENDS Suite, FiniteSetTheorems, TLAPS

Outcomes == {"PASS", "PARSED", "SKIP", "FAIL"}

(* The tests with an outcome are finitely many; one whose text does not    *)
(* parse can only have failed; the coverage table holds names of listed    *)
(* vectors that use the opcode; nothing moves after the exit.              *)
Strengthening ==
    /\ IsFiniteSet(With(Outcomes))
    /\ \A t \in Tests : verdict[t] \in {"PASS", "PARSED", "SKIP"}
                          => ~Parse[t].raises
    /\ phase \in {"running", "verify"} => ~Parse[This].raises
    /\ \A op \in Opcodes : \A name \in files[op] :
          \E k \in 1..Len(order) :
             op \in Parse[order[k]].ops /\ NameOf[order[k]] = name
    /\ exit # -1 => phase = "done"
SuiteInv == TypeOK /\ Accounting /\ Strengthening /\ GreenIsEarned

LEMMA OrderFacts ==
    ASSUME TypeOK
    PROVE  /\ order \in Seq(Tests) /\ Len(order) \in Nat
           /\ \A k \in 1..Len(order) : order[k] \in Tests
           /\ \A j, k \in 1..Len(order) : order[j] = order[k] => j = k
BY SuitesAssumption DEF TypeOK

(* Closing the test at hand with outcome v adds it to the tests with that  *)
(* outcome and to no other.                                                *)
LEMMA CloseStep ==
    ASSUME TypeOK, Accounting, Strengthening, next <= Len(order),
           NEW v \in Outcomes, Close(v), order' = order
    PROVE  /\ Accounting'
           /\ IsFiniteSet(With(Outcomes))'
           /\ next' \in 1..(Len(order) + 1) /\ passed' \in Nat /\ failed' \in Nat
           /\ verdict' = [verdict EXCEPT ![This] = v]
           /\ verdict' \in [Tests -> {"none", "PASS", "PARSED", "SKIP", "FAIL"}]
           /\ This \in Tests /\ phase' = "test"
<1>1. /\ order \in Seq(Tests) /\ Len(order) \in Nat /\ next \in 1..Len(order)
      /\ This \in Tests
      /\ \A j, k \in 1..Len(order) : order[j] = order[k] => j = k
  BY OrderFacts DEF TypeOK, This
<1>2. verdict[This] = "none"
  BY <1>1 DEF Accounting, This
<1>3. /\ verdict' = [verdict EXCEPT ![This] = v] /\ next' = next + 1
      /\ phase' = "test"
      /\ passed' = IF v \in {"PASS", "PARSED"} THEN passed + 1 ELSE passed
      /\ failed' = IF v = "FAIL" THEN failed + 1 ELSE failed
  BY DEF Close
<1>4. verdict \in [Tests -> {"none", "PASS", "PARSED", "SKIP", "FAIL"}]
      /\ passed \in Nat /\ failed \in Nat
  BY DEF TypeOK
<1>5. ASSUME NEW S \in SUBSET Outcomes
      PROVE  /\ IsFiniteSet(With(S)) /\ This \notin With(S)
             /\ With(S)' = IF v \in S THEN With(S) \cup {This} ELSE With(S)
  <2>1. With(S) \subseteq With(Outcomes)
    BY DEF With
  <2>2. IsFiniteSet(With(S))
    BY <2>1, FS_Subset DEF Strengthening
  <2>3. This \notin With(S)
    BY <1>2 DEF With, Outcomes
  <2>4. With(S)' = IF v \in S THEN With(S) \cup {This} ELSE With(S)
    BY <1>1, <1>2, <1>3, <1>4 DEF With, Outcomes
  <2> QED BY <2>2, <2>3, <2>4
<1>6. ASSUME NEW S \in SUBSET Outcomes
      PROVE  /\ IsFiniteSet(With(S)')
             /\ Cardinality(With(S)') = IF v \in S THEN Cardinality(With(S)) + 1
                                                  ELSE Cardinality(With(S))
  <2>1. IsFiniteSet(With(S)) /\ This \notin With(S)
    BY <1>5
  <2>2. /\ IsFiniteSet(With(S) \cup {This})
        /\ Cardinality(With(S) \cup {This}) = Cardinality(With(S)) + 1
    BY <2>1, FS_AddElement
  <2> QED BY <1>5, <2>1, <2>2
<1>7. passed' = Cardinality(With({"PASS", "PARSED"}))'
  BY <1>3, <1>6 DEF Accounting, Outcomes
<1>8. failed' = Cardinality(With({"FAIL"}))'
  BY <1>3, <1>6 DEF Accounting, Outcomes
<1>9. \A k \in 1..Len(order') : verdict'[order'[k]] = "none" <=> k >= next'
  <2> SUFFICES ASSUME NEW k \in 1..Len(order)
               PROVE  verdict'[order[k]] = "none" <=> k >= next + 1
    BY <1>3
  <2>1. order[k] \in Tests
    BY <1>1
  <2>2. CASE k = next
    BY <1>1, <1>3, <1>4, <2>2 DEF This, Outcomes
  <2>3. CASE k # next
    <3>1. order[k] # This
      BY <1>1, <2>3 DEF This
    <3>2. verdict[order[k]] = "none" <=> k >= next
      BY DEF Accounting
    <3> QED BY <1>1, <1>3, <1>4, <2>1, <2>3, <3>1, <3>2
  <2> QED BY <2>2, <2>3
<1>10. \A t \in Tests : verdict'[t] # "none" =>
          \E k \in 1..Len(order) : order[k] = t
  BY <1>1, <1>3, <1>4 DEF Accounting, This
<1>11. Accounting'
  BY <1>7, <1>8, <1>9, <1>10 DEF Accounting
<1> QED
  BY <1>1, <1>3, <1>4, <1>6, <1>11 DEF Outcomes

(* Adding the test at hand to the coverage table keeps the table honest.   *)
LEMMA CoverStep ==
    ASSUME TypeOK, Strengthening, next <= Len(order)
    PROVE  /\ Covered \in [Opcodes -> SUBSET {NameOf[t] : t \in Tests}]
           /\ \A op \in Opcodes : \A name \in Covered[op] :
                \E k \in 1..Len(order) :
                   op \in Parse[order[k]].ops /\ NameOf[order[k]] = name
<1>1. next \in 1..Len(order) /\ This \in Tests /\ This = order[next]
  BY OrderFacts DEF TypeOK, This
<1>2. files \in [Opcodes -> SUBSET {NameOf[t] : t \in Tests}]
  BY DEF TypeOK
<1>3. ASSUME NEW op \in Opcodes
      PROVE  Covered[op] = IF op \in Parse[This].ops
                           THEN files[op] \cup {NameOf[This]} ELSE files[op]
  BY DEF Covered
<1>4. Covered \in [Opcodes -> SUBSET {NameOf[t] : t \in Tests}]
  BY <1>1, <1>2 DEF Covered
<1>5. ASSUME NEW op \in Opcodes, NEW name \in Covered[op]
      PROVE  \E k \in 1..Len(order) :
                op \in Parse[order[k]].ops /\ NameOf[order[k]] = name
  <2>1. CASE name \in files[op]
    BY <2>1 DEF Strengthening
  <2>2. CASE name \notin files[op]
    BY <1>1, <1>3, <1>5, <2>2
  <2> QED BY <2>1, <2>2
<1> QED BY <1>4, <1>5

(* A table that passes the threshold test names two different vectors.     *)
LEMMA TwoFiles ==
    ASSUME TypeOK, Strengthening, Uncovered = {}, UnderThreshold = {},
           NEW op \in Opcodes
    PROVE  \E j, k \in 1..Len(order) :
              j # k /\ op \in Parse[order[j]].ops /\ op \in Parse[order[k]].ops
<1>1. files[op] # {}
  BY DEF Uncovered
<1>2. Cardinality(files[op]) # 1
  BY DEF UnderThreshold, MIN_FILE_THRESHOLD
<1>3. PICK a \in files[op] : TRUE
  BY <1>1
<1>4. files[op] # {a}
  BY <1>2, FS_Singleton
<1>5. PICK b \in files[op] : b # a
  BY <1>3, <1>4
<1>6. PICK j \in 1..Len(order) : op \in Parse[order[j]].ops /\ NameOf[order[j]] = a
  BY DEF Strengthening
<1>7. PICK k \in 1..Len(order) : op \in Parse[order[k]].ops /\ NameOf[order[k]] = b
  BY DEF Strengthening
<1> QED BY <1>5, <1>6, <1>7

LEMMA SuiteStep == SuiteInv /\ [Next]_vars => SuiteInv'
<1> SUFFICES ASSUME SuiteInv, [Next]_vars
             PROVE  SuiteInv'
  OBVIOUS
<1> USE DEF SuiteInv
<1>1. CASE LoadLibrary
  <2>1. TypeOK' /\ Accounting'
    BY <1>1 DEF LoadLibrary, TypeOK, Accounting, With
  <2>2. Strengthening'
    BY <1>1 DEF LoadLibrary, Strengthening, With
  <2>3. GreenIsEarned'
    <3>1. exit = -1
      BY <1>1 DEF LoadLibrary, Strengthening
    <3>2. exit' # 0
      BY <1>1, <3>1 DEF LoadLibrary
    <3> QED BY <3>2 DEF GreenIsEarned
  <2> QED BY <2>1, <2>2, <2>3
(* Any step that closes the test at hand. *)
<1>2. ASSUME phase # "done", next <= Len(order),
             NEW v \in Outcomes, Close(v),
             Parse[This].raises => v = "FAIL",
             files' = files \/ files' = Covered,
             live' \in {live, live \ {This}},
             UNCHANGED <<lib, order, exit>>
      PROVE  SuiteInv'
  <2>1. /\ Accounting'
        /\ IsFiniteSet(With(Outcomes))'
        /\ next' \in 1..(Len(order) + 1) /\ passed' \in Nat /\ failed' \in Nat
        /\ verdict' = [verdict EXCEPT ![This] = v]
        /\ verdict' \in [Tests -> {"none", "PASS", "PARSED", "SKIP", "FAIL"}]
        /\ This \in Tests /\ phase' = "test"
    BY <1>2, CloseStep
  <2>2. /\ files' \in [Opcodes -> SUBSET {NameOf[t] : t \in Tests}]
        /\ \A op \in Opcodes : \A name \in files'[op] :
              \E k \in 1..Len(order) :
                 op \in Parse[order[k]].ops /\ NameOf[order[k]] = name
    BY <1>2, CoverStep DEF TypeOK, Strengthening
  <2>3. TypeOK'
    BY <1>2, <2>1, <2>2 DEF TypeOK
  <2>4. \A t \in Tests : verdict'[t] \in {"PASS", "PARSED", "SKIP"}
                           => ~Parse[t].raises
    <3> SUFFICES ASSUME NEW t \in Tests, verdict'[t] \in {"PASS", "PARSED", "SKIP"}
                 PROVE  ~Parse[t].raises
      OBVIOUS
    <3>1. CASE t = This
      BY <1>2, <2>1, <3>1 DEF TypeOK
    <3>2. CASE t # This
      BY <2>1, <3>2 DEF TypeOK, Strengthening
    <3> QED BY <3>1, <3>2
  <2>5. exit' = -1
    BY <1>2 DEF Strengthening
  <2>6. Strengthening'
    BY <1>2, <2>1, <2>2, <2>4, <2>5 DEF Strengthening
  <2> QED BY <2>1, <2>3, <2>5, <2>6 DEF GreenIsEarned
<1>3. CASE ParseFails
  BY <1>2, <1>3 DEF ParseFails, AtTest, Outcomes
<1>4. CASE SkipEmpty
  BY <1>2, <1>4 DEF SkipEmpty, AtTest, Outcomes
<1>5. CASE ParseOnly
  BY <1>2, <1>5 DEF ParseOnly, AtTest, Outcomes
<1>6. CASE Execute
  <2>1. This \in Tests
    BY <1>6, OrderFacts DEF Execute, AtTest, TypeOK, This
  <2>2. /\ files' \in [Opcodes -> SUBSET {NameOf[t] : t \in Tests}]
        /\ \A op \in Opcodes : \A name \in files'[op] :
              \E k \in 1..Len(order) :
                 op \in Parse[order[k]].ops /\ NameOf[order[k]] = name
    BY <1>6, CoverStep DEF Execute, AtTest
  <2>3. TypeOK' /\ Accounting'
    BY <1>6, <2>1, <2>2 DEF Execute, AtTest, TypeOK, Accounting, With
  <2>4. exit' = -1 /\ This' = This
    BY <1>6 DEF Execute, AtTest, Strengthening, This
  <2>5. Strengthening'
    BY <1>6, <2>2, <2>4 DEF Execute, Strengthening, With
  <2> QED BY <2>3, <2>4, <2>5 DEF GreenIsEarned
<1>7. CASE EngineReturns
  <2>1. TypeOK' /\ Accounting'
    BY <1>7 DEF EngineReturns, TypeOK, Accounting, With
  <2>2. exit' = -1 /\ This' = This
    BY <1>7 DEF EngineReturns, Strengthening, This
  <2>3. Strengthening'
    BY <1>7, <2>2 DEF EngineReturns, Strengthening, With
  <2> QED BY <2>1, <2>2, <2>3 DEF GreenIsEarned
<1>8. CASE Verify
  <2> DEFINE v == IF \A c \in Checks : Reads(vm[This], c) = Expect[c]
                  THEN "PASS" ELSE "FAIL"
  <2>1. v \in Outcomes
    BY DEF Outcomes
  <2>2. Close(v) /\ phase = "verify" /\ live' = live \ {This}
        /\ UNCHANGED <<lib, order, files, exit>>
    BY <1>8 DEF Verify
  <2> HIDE DEF v
  <2>3. next <= Len(order) /\ ~Parse[This].raises
    BY <2>2 DEF TypeOK, Strengthening
  <2> QED BY <1>2, <2>1, <2>2, <2>3
<1>9. CASE VerifyRaises
  BY <1>2, <1>9 DEF VerifyRaises, TypeOK, Outcomes
<1>10. CASE Report
  <2>1. TypeOK' /\ Accounting'
    BY <1>10 DEF Report, ExitStatus, TypeOK, Accounting, With
  <2>2. Strengthening'
    BY <1>10 DEF Report, Strengthening, With
  <2>3. ASSUME exit' = 0 PROVE GreenIsEarned'
    <3>1. /\ failed = 0 /\ Uncovered = {} /\ UnderThreshold = {}
          /\ next > Len(order) /\ UNCHANGED <<order, verdict>>
      BY <1>10, <2>3 DEF Report, ExitStatus, TypeOK
    <3>2. With({"FAIL"}) = {}
      <4>1. With({"FAIL"}) \subseteq With(Outcomes)
        BY DEF With, Outcomes
      <4>2. IsFiniteSet(With({"FAIL"}))
        BY <4>1, FS_Subset DEF Strengthening
      <4> QED BY <3>1, <4>2, FS_EmptySet DEF Accounting
    <3>3. ASSUME NEW k \in 1..Len(order)
          PROVE  /\ ~Parse[order[k]].raises
                 /\ verdict[order[k]] \in {"PASS", "PARSED", "SKIP"}
      <4>1. order[k] \in Tests
        BY OrderFacts
      <4>2. verdict[order[k]] # "none"
        BY <3>1, OrderFacts DEF Accounting, TypeOK
      <4>3. verdict[order[k]] # "FAIL"
        BY <3>2, <4>1 DEF With
      <4>4. verdict[order[k]] \in {"PASS", "PARSED", "SKIP"}
        BY <4>1, <4>2, <4>3 DEF TypeOK
      <4> QED BY <4>1, <4>4 DEF Strengthening
    <3>4. \A op \in Opcodes : \E j, k \in 1..Len(order) :
             j # k /\ op \in Parse[order[j]].ops /\ op \in Parse[order[k]].ops
      BY <3>1, TwoFiles
    <3> QED BY <3>1, <3>3, <3>4 DEF GreenIsEarned
  <2> QED BY <2>1, <2>2, <2>3 DEF GreenIsEarned
<1>11. CASE UNCHANGED vars
  BY <1>11 DEF vars, TypeOK, Accounting, Strengthening, GreenIsEarned, With, This
<1> QED
  BY <1>1, <1>3, <1>4, <1>5, <1>6, <1>7, <1>8, <1>9, <1>10, <1>11 DEF Next

LEMMA SuiteInit == Init => SuiteInv
<1> SUFFICES ASSUME Init PROVE SuiteInv
  OBVIOUS
<1>1. order \in Suites /\ order \in Seq(Tests) /\ Len(order) \in Nat
  BY SuitesAssumption DEF Init
<1>2. TypeOK
  BY <1>1 DEF Init, TypeOK
<1>3. \A S \in SUBSET Outcomes : With(S) = {}
  BY DEF Init, With, Outcomes
<1>4. With({"PASS", "PARSED"}) = {} /\ With({"FAIL"}) = {} /\ With(Outcomes) = {}
  BY <1>3 DEF Outcomes
<1>5. Cardinality({}) = 0 /\ IsFiniteSet({})
  BY FS_EmptySet
<1>6. \A k \in 1..Len(order) : order[k] \in Tests
  BY <1>1
<1>7. Accounting
  <2>1. passed = Cardinality(With({"PASS", "PARSED"}))
    BY <1>4, <1>5 DEF Init
  <2>2. failed = Cardinality(With({"FAIL"}))
    BY <1>4, <1>5 DEF Init
  <2>3. \A k \in 1..Len(order) : verdict[order[k]] = "none" <=> k >= next
    BY <1>1, <1>6 DEF Init
  <2>4. \A t \in Tests : verdict[t] = "none"
    BY DEF Init
  <2> QED BY <2>1, <2>2, <2>3, <2>4 DEF Accounting
<1>8. Strengthening
  BY <1>4, <1>5 DEF Init, Strengthening
<1>9. GreenIsEarned
  BY DEF Init, GreenIsEarned
<1> QED BY <1>2, <1>7, <1>8, <1>9 DEF SuiteInv

(* Every listed vector gets exactly one outcome, and the two counters are  *)
(* the numbers of passing and failing vectors, whichever way each          *)
(* iteration of the loop ended.                                            *)
THEOREM EveryTestCounted == Spec => []Accounting
<1>1. SuiteInv => Accounting
  BY DEF SuiteInv
<1> QED BY <1>1, SuiteInit, SuiteStep, PTL DEF Spec

(* Exit status 0 is never reached with a failed vector, a vector that does *)
(* not parse, or an opcode used by fewer than two vectors.                 *)
THEOREM GreenRunsAreEarned == Spec => []GreenIsEarned
<1>1. SuiteInv => GreenIsEarned
  BY DEF SuiteInv
<1> QED BY <1>1, SuiteInit, SuiteStep, PTL DEF Spec

-----------------------------------------------------------------------------
(* What a verdict rests on, and whose contexts are alive.                  *)
Leaked(t) == verdict[t] = "FAIL" /\ \E c \in DOMAIN Parse[t].expect : ReadRaises(c)
InCall == phase \in {"running", "verify"}
Evidence ==
    /\ DOMAIN vm = Tests
    /\ phase = "verify" => vm[This] # NoState
    /\ \A t \in Tests : verdict[t] = "PASS" => vm[t] # NoState /\ Met(t)
    /\ \A t \in live : Leaked(t) \/ (InCall /\ t = This)
EvidenceInv == SuiteInv /\ Evidence

(* The vector at hand has no verdict yet.                                  *)
LEMMA OpenTest ==
    ASSUME SuiteInv, next <= Len(order)
    PROVE  This \in Tests /\ verdict[This] = "none"
BY OrderFacts DEF SuiteInv, TypeOK, Accounting, This

(* The checks made are those a pass stands for.                            *)
LEMMA ChecksMet ==
    ASSUME \A c \in Checks : ~ReadRaises(c) /\ Reads(vm[This], c) = Expect[c]
    PROVE  Met(This)
<1> SUFFICES ASSUME NEW c \in DOMAIN Expect
             PROVE  /\ c \in Verified \ ({"ST"} \cup DOMAIN RegNo)
                         => Expect[c] = Asserted(vm[This], c)
                    /\ c \in DOMAIN RegNo => /\ RegNo[c] < REGISTERS
                                            /\ Expect[c] = vm[This].regs[RegNo[c]]
  BY DEF Met, Expect
<1>1. CASE c \in DOMAIN RegNo
  <2>1. c \in Checks /\ c \notin NamedChecks /\ RegNo[c] \in Nat
    BY <1>1, ChecksAssumption DEF Checks, Verified
  <2>2. Reads(vm[This], c) = vm[This].regs[RegNo[c]]
    BY <2>1 DEF Reads, NamedChecks
  <2> QED BY <1>1, <2>1, <2>2 DEF ReadRaises, REGISTERS
<1>2. CASE c \in NamedChecks \ {"ST"}
  <2>1. c \in Checks /\ c \notin DOMAIN RegNo
    BY <1>2, ChecksAssumption DEF Checks, Verified
  <2>2. Reads(vm[This], c) = Asserted(vm[This], c)
    BY <1>2 DEF Reads, Asserted, NamedChecks
  <2> QED BY <2>1, <2>2
<1> QED BY <1>1, <1>2 DEF Verified

(* A test that is closed keeps its verdict and its state.                  *)
LEMMA CloseKeepsEvidence ==
    ASSUME SuiteInv, Evidence, next <= Len(order), NEW v \in Outcomes, Close(v),
           v = "PASS" => vm[This] # NoState /\ Met(This),
           \A t \in live' : t \in live /\ (t = This /\ InCall => Leaked(t)'),
           UNCHANGED <<order, vm>>
    PROVE  Evidence'
<1>1. /\ This \in Tests /\ verdict[This] = "none" /\ live \subseteq Tests
      /\ verdict \in [Tests -> {"none", "PASS", "PARSED", "SKIP", "FAIL"}]
      /\ verdict' = [verdict EXCEPT ![This] = v] /\ phase' = "test"
  BY OpenTest DEF SuiteInv, TypeOK, Close
<1>2. \A t \in Tests : verdict'[t] = "PASS" => vm'[t] # NoState /\ Met(t)'
  BY <1>1 DEF Evidence, Met, Asserted
<1>3. \A t \in live' : Leaked(t)'
  BY <1>1 DEF Evidence, Leaked
<1> QED BY <1>1, <1>2, <1>3 DEF Evidence

LEMMA EvidenceInit == Init => EvidenceInv
BY SuiteInit DEF Init, EvidenceInv, Evidence

LEMMA EvidenceStep == EvidenceInv /\ [Next]_vars => EvidenceInv'
<1> SUFFICES ASSUME SuiteInv, Evidence, [Next]_vars PROVE Evidence'
  BY SuiteStep DEF EvidenceInv
<1>1. CASE LoadLibrary
  BY <1>1 DEF LoadLibrary, Evidence, Leaked, InCall, Met, Asserted
<1>2. CASE ParseFails
  BY <1>2, CloseKeepsEvidence DEF ParseFails, AtTest, Outcomes, InCall
<1>3. CASE SkipEmpty
  BY <1>3, CloseKeepsEvidence DEF SkipEmpty, AtTest, Outcomes, InCall
<1>4. CASE ParseOnly
  BY <1>4, CloseKeepsEvidence DEF ParseOnly, AtTest, Outcomes, InCall
<1>5. CASE Execute
  BY <1>5 DEF Execute, AtTest, Evidence, Leaked, InCall, This, Met, Asserted
<1>6. CASE EngineReturns
  <2>1. /\ This \in Tests /\ verdict[This] = "none" /\ This' = This
        /\ UNCHANGED <<verdict, live>> /\ InCall /\ InCall' /\ phase' = "verify"
    BY <1>6, OpenTest DEF EngineReturns, SuiteInv, TypeOK, InCall, This
  <2>2. PICK s \in Ends[This] : vm' = [vm EXCEPT ![This] = s]
    BY <1>6 DEF EngineReturns
  <2>3. /\ DOMAIN vm' = Tests /\ vm'[This'] # NoState
        /\ \A t \in Tests : t # This => vm'[t] = vm[t]
    BY <2>1, <2>2, EndsAssumption DEF Evidence
  <2>4. \A t \in Tests : verdict'[t] = "PASS" => vm'[t] # NoState /\ Met(t)'
    BY <2>1, <2>3 DEF Evidence, Met, Asserted
  <2>5. \A t \in live' : Leaked(t)' \/ (InCall' /\ t = This')
    BY <2>1 DEF Evidence, Leaked
  <2> QED BY <2>3, <2>4, <2>5 DEF Evidence
<1>7. CASE Verify
  <2> DEFINE ok == \A c \in Checks : Reads(vm[This], c) = Expect[c]
  <2>1. next <= Len(order) /\ vm[This] # NoState /\ live' = live \ {This}
    BY <1>7 DEF Verify, SuiteInv, TypeOK, Evidence
  <2>2. Close(IF ok THEN "PASS" ELSE "FAIL") /\ UNCHANGED <<order, vm>>
    BY <1>7 DEF Verify
  <2>3. ok => Met(This)
    BY <1>7, ChecksMet DEF Verify
  <2>4. PICK v \in {"PASS", "FAIL"} : Close(v) /\ (v = "PASS" => ok)
    BY <2>2
  <2> HIDE DEF ok
  <2> QED BY <2>1, <2>2, <2>3, <2>4, CloseKeepsEvidence DEF Outcomes
<1>8. CASE VerifyRaises
  <2>1. /\ next <= Len(order) /\ Close("FAIL") /\ UNCHANGED <<order, vm, live>>
        /\ \E c \in DOMAIN Expect : ReadRaises(c)
    BY <1>8 DEF VerifyRaises, SuiteInv, TypeOK, Checks
  <2>2. This \in Tests /\ verdict'[This] = "FAIL"
    BY <2>1, OpenTest DEF Close, SuiteInv, TypeOK
  <2>3. \A t : t = This => Leaked(t)'
    BY <2>1, <2>2 DEF Leaked, Expect, ReadRaises
  <2> QED BY <2>1, <2>3, CloseKeepsEvidence DEF Outcomes
<1>9. CASE Report
  BY <1>9 DEF Report, Evidence, Leaked, InCall, This, Met, Asserted
<1>10. CASE UNCHANGED vars
  BY <1>10 DEF vars, Evidence, Leaked, InCall, This, Met, Asserted
<1> QED
  BY <1>1, <1>2, <1>3, <1>4, <1>5, <1>6, <1>7, <1>8, <1>9, <1>10 DEF Next

LEMMA EvidenceHolds == Spec => []EvidenceInv
BY EvidenceInit, EvidenceStep, PTL DEF Spec

(* A vector printed as PASS ended in a state that has what it asserts.     *)
THEOREM PassesAreExpected == Spec => []PassMeansExpected
<1>1. EvidenceInv => PassMeansExpected
  BY DEF EvidenceInv, Evidence, PassMeansExpected
<1> QED BY <1>1, EvidenceHolds, PTL

(* Only an exception between two calls of the engine leaves a context.     *)
THEOREM ContextsAreReleased == Spec => []ContextsReleased
<1>1. EvidenceInv => ContextsReleased
  BY DEF EvidenceInv, Evidence, ContextsReleased, InCall, Leaked
<1> QED BY <1>1, EvidenceHolds, PTL

-----------------------------------------------------------------------------
(* The refinement: closing a vector is the abstract Decide, reaching an    *)
(* exit status is the abstract Stop, and the other steps, executions       *)
(* included, are none of the abstract validator's.                         *)
LEMMA PromiseInit == Init => Promise!Init
BY DEF Init, Promise!Init, Sound

LEMMA DecideRefined ==
    ASSUME EvidenceInv, next <= Len(order), exit = -1, NEW v \in Outcomes, Close(v),
           v = "PASS" => vm[This] # NoState /\ Met(This),
           UNCHANGED <<order, vm, exit>>
    PROVE  Promise!Decide(v)
<1>1. /\ This \in Tests /\ verdict[This] = "none"
      /\ verdict \in [Tests -> {"none", "PASS", "PARSED", "SKIP", "FAIL"}]
      /\ next \in Int /\ Len(order) \in Int
  BY OpenTest, OrderFacts DEF EvidenceInv, SuiteInv, TypeOK
<1>2. order[(next - 1) + 1] = This /\ next - 1 < Len(order) /\ next' - 1 = (next - 1) + 1
  BY <1>1 DEF This, Close
<1>3. verdict' = [verdict EXCEPT ![This] = v] /\ v # "none"
  BY DEF Close, Outcomes
<1>4. \A t : Met(t)' = Met(t)
  BY DEF Met, Asserted
<1>5. Sound' \in {Sound, Sound \cup {This}}
  <2>1. \A t \in Tests : t # This => (t \in Sound' <=> t \in Sound)
    BY <1>1, <1>3, <1>4 DEF Sound
  <2>2. This \notin Sound
    BY <1>1 DEF Sound
  <2>3. Sound \subseteq Tests /\ Sound' \subseteq Tests
    BY DEF Sound
  <2>4. CASE This \in Sound'
    <3>1. Sound' = Sound \cup {This}
      BY <1>1, <2>1, <2>3, <2>4
    <3> QED BY <3>1
  <2>5. CASE This \notin Sound'
    <3>1. Sound' = Sound
      BY <2>1, <2>2, <2>3, <2>5
    <3> QED BY <3>1
  <2> QED BY <2>4, <2>5
<1>6. v = "PASS" => This \in Sound'
  BY <1>1, <1>3, <1>4 DEF Sound
<1> QED BY <1>2, <1>3, <1>5, <1>6 DEF Promise!Decide

(* Sound speaks of closed vectors only. *)
LEMMA StutterRefined ==
    ASSUME EvidenceInv, \A t \in Tests : verdict[t] # "none" => vm'[t] = vm[t],
           UNCHANGED <<order, next, verdict, exit>>
    PROVE  UNCHANGED Promise!vars
<1>1. \A t \in Tests : verdict[t] # "none" => Met(t)' = Met(t)
  BY DEF Met, Asserted
<1>2. Sound' = Sound
  BY <1>1 DEF Sound
<1> QED BY <1>2 DEF Promise!vars

LEMMA StepRefined == EvidenceInv /\ [Next]_vars => [Promise!Next]_(Promise!vars)
<1> SUFFICES ASSUME EvidenceInv, [Next]_vars PROVE [Promise!Next]_(Promise!vars)
  OBVIOUS
<1>1. phase # "done" => exit = -1
  BY DEF EvidenceInv, SuiteInv, Strengthening
<1>2. ASSUME NEW v \in Outcomes, Promise!Decide(v) PROVE Promise!Next
  BY <1>2 DEF Promise!Next, Outcomes
<1>3. CASE LoadLibrary
  <2>1. CASE order = <<>>
    <3>1. /\ exit' = 1 /\ exit = -1 /\ next = 1 /\ UNCHANGED <<order, next, verdict, vm>>
          /\ Len(order) = 0
      BY <1>1, <1>3, <2>1 DEF LoadLibrary, EvidenceInv, SuiteInv, TypeOK
    <3>2. \A t : Met(t)' = Met(t)
      BY <3>1 DEF Met, Asserted
    <3>3. next - 1 = Len(order) /\ Sound' = Sound
      BY <3>1, <3>2 DEF Sound
    <3>4. \A b \in BOOLEAN : 1 \in [bad \in BOOLEAN |-> IF bad THEN {1} ELSE {0, 1}][b]
      OBVIOUS
    <3>5. Promise!Stop
      BY <3>1, <3>3, <3>4 DEF Promise!Stop
    <3> QED BY <3>5 DEF Promise!Next
  <2>2. CASE order # <<>>
    BY <1>3, <2>2, StutterRefined DEF LoadLibrary
  <2> QED BY <2>1, <2>2
<1>4. CASE ParseFails
  BY <1>1, <1>2, <1>4, DecideRefined DEF ParseFails, AtTest, Outcomes
<1>5. CASE SkipEmpty
  BY <1>1, <1>2, <1>5, DecideRefined DEF SkipEmpty, AtTest, Outcomes
<1>6. CASE ParseOnly
  BY <1>1, <1>2, <1>6, DecideRefined DEF ParseOnly, AtTest, Outcomes
<1>7. CASE Execute
  BY <1>7, StutterRefined DEF Execute
<1>8. CASE EngineReturns
  <2>1. verdict[This] = "none" /\ UNCHANGED <<order, next, verdict, exit>>
    BY <1>8, OpenTest DEF EngineReturns, EvidenceInv, SuiteInv, TypeOK
  <2>2. \A t \in Tests : verdict[t] # "none" => vm'[t] = vm[t]
    BY <1>8, <2>1 DEF EngineReturns, EvidenceInv, Evidence
  <2> QED BY <2>1, <2>2, StutterRefined
<1>9. CASE Verify
  <2> DEFINE ok == \A c \in Checks : Reads(vm[This], c) = Expect[c]
  <2>1. next <= Len(order) /\ vm[This] # NoState /\ exit = -1
    BY <1>1, <1>9 DEF Verify, EvidenceInv, SuiteInv, TypeOK, Evidence
  <2>2. Close(IF ok THEN "PASS" ELSE "FAIL") /\ UNCHANGED <<order, vm, exit>>
    BY <1>9 DEF Verify
  <2>3. ok => Met(This)
    BY <1>9, ChecksMet DEF Verify
  <2>4. PICK v \in {"PASS", "FAIL"} : Close(v) /\ (v = "PASS" => ok)
    BY <2>2
  <2> HIDE DEF ok
  <2> QED BY <1>2, <2>1, <2>2, <2>3, <2>4, DecideRefined DEF Outcomes
<1>10. CASE VerifyRaises
  <2>1. next <= Len(order)
    BY <1>10 DEF VerifyRaises, EvidenceInv, SuiteInv, TypeOK
  <2> QED BY <1>1, <1>2, <1>10, <2>1, DecideRefined DEF VerifyRaises, Outcomes
<1>11. CASE Report
  <2> DEFINE bad == \E t \in Tests : verdict[t] \in {"FAIL"}
  <2>1. /\ next \in 1..(Len(order) + 1) /\ Len(order) \in Nat /\ next > Len(order)
        /\ exit = -1 /\ exit' = ExitStatus /\ UNCHANGED <<order, next, verdict, vm>>
        /\ failed \in Nat
    BY <1>1, <1>11, OrderFacts DEF Report, EvidenceInv, SuiteInv, TypeOK
  <2>2. next - 1 = Len(order)
    BY <2>1
  <2>3. Sound' = Sound
    BY <2>1 DEF Sound, Met, Asserted
  <2>4. bad => failed # 0
    <3> SUFFICES ASSUME bad, failed = 0 PROVE FALSE
      OBVIOUS
    <3>1. With({"FAIL"}) \subseteq With(Outcomes)
      BY DEF With, Outcomes
    <3>2. IsFiniteSet(With({"FAIL"})) /\ Cardinality(With({"FAIL"})) = 0
      BY <3>1, FS_Subset DEF EvidenceInv, SuiteInv, Strengthening, Accounting
    <3>3. With({"FAIL"}) = {}
      BY <3>2, FS_EmptySet
    <3> QED BY <3>3 DEF With
  <2>5. exit' \in {0, 1} /\ (bad => exit' = 1)
    BY <2>1, <2>4 DEF ExitStatus
  <2>6. exit' \in [b \in BOOLEAN |-> IF b THEN {1} ELSE {0, 1}][bad]
    <3>1. bad \in BOOLEAN
      OBVIOUS
    <3> HIDE DEF bad
    <3> QED BY <2>5, <3>1
  <2>7. Promise!Stop
    BY <2>1, <2>2, <2>3, <2>6 DEF Promise!Stop
  <2> QED BY <2>7 DEF Promise!Next
<1>12. CASE UNCHANGED vars
  BY <1>12, StutterRefined DEF vars
<1> QED
  BY <1>3, <1>4, <1>5, <1>6, <1>7, <1>8, <1>9, <1>10, <1>11, <1>12 DEF Next

(* The suite keeps the validators' promise: verdicts in order and final, a *)
(* pass only for a vector whose state has what it asserts, status 1 when a *)
(* vector failed.                                                          *)
THEOREM SuiteIsValidator == Spec => ImplementsValidator
BY PromiseInit, StepRefined, EvidenceHolds, PTL
   DEF Spec, ImplementsValidator, Promise!Spec
=============================================================================
