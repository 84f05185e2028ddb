----------------------------- MODULE FuzzerProofs -----------------------------
(***************************************************************************)
(* Proofs about Fuzzer: on every contract table, of whatever rows, an      *)
(* instruction of a faithful row is accepted when its operands are sound.  *)
(* The argument is that the generator tracks the very type a sound         *)
(* register has, so that an operand chosen to fit the row picked fits the  *)
(* row selected.  Registers that are not sound may hold anything.          *)
(***************************************************************************)
EXTENDS Fuzzer, TLAPS

(* No element-wise result on sound registers is a vector of doubles,       *)
(* because no other faithful row writes one; register 0 is never a         *)
(* destination.                                                            *)
Reached ==
    /\ actual[0] = "NULL" /\ 0 \in sound
    /\ \A r \in sound : actual[r] # "DOUBLE_VECTOR"
FuzzInv == TypeOK /\ TrackedIsActual /\ Reached /\ FaithfullyTyped

LEMMA FuzzInit == Init => FuzzInv
<1> SUFFICES ASSUME Init PROVE FuzzInv
  OBVIOUS
<1>1. TypeOK
  <2>1. \A r \in Regs : Preamble[r] \in Types
    BY TableAssumption
  <2>2. reg_state \in [Regs -> (SUBSET Types) \ {{}}]
    BY <2>1 DEF Init
  <2>3. actual \in [Regs -> Types] /\ left \in 0..MAX_INSTRUCTIONS
    BY TableAssumption DEF Init
  <2>5. ended \in BOOLEAN
    BY DEF Init
  <2>4. last.src \in Types /\ last.aux1 \in Types /\ last.trusted \in BOOLEAN /\ sound \subseteq Regs
    BY TableAssumption DEF Init, NoInstruction
  <2> QED BY <2>2, <2>3, <2>4, <2>5 DEF TypeOK
<1>2. TrackedIsActual
  BY DEF Init, TrackedIsActual
<1>3. Reached
  BY TableAssumption DEF Init, Reached
<1>4. FaithfullyTyped
  <2>1. \A c \in Contracts : c.op # "none"
    BY TableAssumption
  <2> QED BY <2>1 DEF Init, NoInstruction, FaithfullyTyped, Accepted, Selected
<1> QED BY <1>1, <1>2, <1>3, <1>4 DEF FuzzInv

(* An operand fits the row it was chosen for, if it is sound.              *)
LEMMA ChosenFits ==
    ASSUME TrackedIsActual, Reached, 0 \in Regs,
           NEW mask, NEW skip \in BOOLEAN, NEW r \in Choices(mask, skip)
    PROVE  /\ r \in Regs
           /\ mask = {} => r = 0
           /\ mask # {} /\ ~skip /\ r \in sound => actual[r] \in mask
BY DEF Choices, Fits, TrackedIsActual

(* The type tracked for the result of a faithful row is the one the engine *)
(* leaves: that of sound operands, or the single one written.              *)
LEMMA TrackedResult ==
    ASSUME FuzzInv,
           NEW c \in FaithfulRows, c.op \in Formatted,
           NEW dst \in DstRegs,
           NEW src \in Choices(Allowed(c, c.src), FALSE),
           NEW aux1 \in Choices(Allowed(c, c.aux1), c.skip1),
           src \in sound, aux1 \in sound,
           dst \in sound \/ Written(c) # {},
           NEW new \in Retyped(c, dst, src, aux1),
           NEW row \in Selected(c.op),
           NEW t \in Results(row, dst, actual[Shown(c.op, src)], actual[ShownAux(c.op, aux1)])
    PROVE  new = {t} /\ t # "DOUBLE_VECTOR"
<1>1. c \in Contracts /\ FaithfulRow(c)
  BY DEF FaithfulRows
<1>2. /\ reg_state[src] = {actual[src]} /\ reg_state[aux1] = {actual[aux1]}
      /\ dst \in sound => reg_state[dst] = {actual[dst]}
  BY DEF FuzzInv, TrackedIsActual
<1>3. /\ actual[src] # "DOUBLE_VECTOR" /\ actual[aux1] # "DOUBLE_VECTOR"
      /\ dst \in sound => actual[dst] # "DOUBLE_VECTOR"
  BY DEF FuzzInv, Reached
<1>4. row \in Contracts /\ row.op = c.op
  BY DEF Selected
<1>5. CASE c.op = "OP_MOV"
  BY <1>2, <1>3, <1>4, <1>5 DEF Retyped, Results, Shown, ShowsNone, TracksBitset, TracksInt, SetOps
<1>6. CASE c.op = "OP_VEC_MATH_UNARY"
  <2>1. Allowed(c, c.src) = c.src /\ c.src # {} /\ c.src \subseteq {"FLOAT", "FLOAT_VECTOR", "DOUBLE_VECTOR"}
    BY <1>1, <1>6 DEF FaithfulRow, Math, Allowed, SetOps
  <2>2. actual[src] \in {"FLOAT", "FLOAT_VECTOR"}
    BY <2>1, <1>3, ChosenFits, TableAssumption DEF FuzzInv
  <2>3. new = {Floats({src})} /\ t = actual[src]
    BY <1>4, <1>6 DEF Retyped, Results, Shown, ShowsNone, TracksBitset, TracksInt, SetOps
  <2> QED BY <2>2, <2>3, <1>2 DEF Floats
<1>7. CASE c.op = "OP_VEC_MATH_BINARY"
  <2>1. /\ Allowed(c, c.src) = c.src /\ c.src # {} /\ c.src \subseteq {"FLOAT", "FLOAT_VECTOR", "DOUBLE_VECTOR"}
        /\ Allowed(c, c.aux1) = c.aux1 /\ c.aux1 # {} /\ c.aux1 \subseteq {"FLOAT", "FLOAT_VECTOR", "DOUBLE_VECTOR"}
        /\ c.skip1 = FALSE
    BY <1>1, <1>7, TableAssumption DEF FaithfulRow, Math, Allowed, SetOps
  <2>2. actual[src] \in {"FLOAT", "FLOAT_VECTOR"} /\ actual[aux1] \in {"FLOAT", "FLOAT_VECTOR"}
    BY <2>1, <1>3, ChosenFits, TableAssumption DEF FuzzInv
  <2>3. /\ new = {Floats({src, aux1})}
        /\ t \in IF actual[src] = actual[aux1] THEN {actual[src]} ELSE {actual[src], actual[aux1]} \ {"FLOAT"}
    BY <1>4, <1>7 DEF Retyped, Results, Shown, ShownAux, ShowsNone, ShowsBoth,
                        TracksBitset, TracksInt, SetOps
  <2> QED BY <2>2, <2>3, <1>2 DEF Floats
<1>8. CASE c.op \notin Math \cup {"OP_MOV"}
  <2>1. PICK u \in Types \ {"DOUBLE_VECTOR"} : Written(c) \in {{}, {u}}
    BY <1>1, <1>8 DEF FaithfulRow
  <2>2. Effect(row) = Written(c) /\ (row.modifies <=> Effect(row) # {})
    BY <1>1, <1>8 DEF FaithfulRow
  <2>3. Results(row, dst, actual[Shown(c.op, src)], actual[ShownAux(c.op, aux1)])
          = IF Written(c) = {} THEN {actual[dst]} ELSE Written(c)
    BY <1>4, <1>8, <2>2 DEF Results, Effect, Math
  <2>4. new \in IF Written(c) = {} THEN {reg_state[dst]} ELSE {{x} : x \in Written(c)}
    BY <1>8 DEF Retyped, Written, Math, TracksBitset, TracksInt, SetOps
  <2> QED BY <2>1, <2>3, <2>4, <1>2, <1>3
<1> QED BY <1>5, <1>6, <1>7, <1>8 DEF Math

(* Whatever the row, what is tracked for its result is a set of types.     *)
LEMMA TrackedSet ==
    ASSUME FuzzInv, NEW c \in Contracts, NEW dst \in Regs, NEW src \in Regs, NEW aux1,
           NEW new \in Retyped(c, dst, src, aux1)
    PROVE  new \in (SUBSET Types) \ {{}}
<1>1. reg_state[dst] \in (SUBSET Types) \ {{}} /\ reg_state[src] \in (SUBSET Types) \ {{}}
  BY DEF FuzzInv, TypeOK
<1>2. c.out \subseteq Types
  BY TableAssumption
<1>3. {"BITSET"} \in (SUBSET Types) \ {{}} /\ {"INT64"} \in (SUBSET Types) \ {{}}
      /\ {"NULL"} \in (SUBSET Types) \ {{}}
  BY TableAssumption
<1>4. \A operands : {Floats(operands)} \in (SUBSET Types) \ {{}}
  BY TableAssumption DEF Floats
<1> QED BY <1>1, <1>2, <1>3, <1>4 DEF Retyped

(* A trusted instruction just written is accepted.                         *)
LEMMA EmittedValid ==
    ASSUME FuzzInv,
           NEW c \in Contracts, c.op \in Formatted,
           NEW row, NEW dst \in DstRegs,
           NEW src \in Choices(Allowed(c, c.src), FALSE),
           NEW aux1 \in Choices(Allowed(c, c.aux1), c.skip1),
           Trusted(c, src, aux1),
           Emit(c, row, dst, src, aux1)
    PROVE  Accepted'
<1>1. last'.op = c.op /\ last'.src = actual[Shown(c.op, src)]
      /\ last'.aux1 = actual[ShownAux(c.op, aux1)]
  BY DEF Emit
<1>2. SUFFICES ASSUME NEW r \in Selected(c.op)
               PROVE  /\ r.src # {} => actual[Shown(c.op, src)] \in r.src
                      /\ r.aux1 # {} /\ ~r.skip1 => actual[ShownAux(c.op, aux1)] \in r.aux1
  BY <1>1 DEF Accepted
<1>3. FaithfulRow(c) /\ src \in sound /\ aux1 \in sound
  BY DEF Trusted, FaithfulRows
<1>4. ASSUME r.src # {} PROVE actual[Shown(c.op, src)] \in r.src
  <2>1. CASE c.op \in ShowsNone
    BY <1>4, <1>3, <2>1 DEF FaithfulRow, Shown, FuzzInv, Reached
  <2>2. CASE c.op \notin ShowsNone
    <3>1. Allowed(c, c.src) # {} /\ Allowed(c, c.src) \subseteq r.src
      BY <1>4, <1>3, <2>2 DEF FaithfulRow
    <3>2. actual[src] \in Allowed(c, c.src)
      BY <1>3, <3>1, ChosenFits, TableAssumption DEF FuzzInv
    <3> QED BY <2>2, <3>1, <3>2 DEF Shown
  <2> QED BY <2>1, <2>2
<1>5. ASSUME r.aux1 # {}, ~r.skip1 PROVE actual[ShownAux(c.op, aux1)] \in r.aux1
  <2>1. /\ c.op \in ShowsBoth /\ ~c.skip1 /\ Allowed(c, c.aux1) # {}
        /\ Allowed(c, c.aux1) \subseteq r.aux1
    BY <1>5, <1>3 DEF FaithfulRow
  <2>2. c.skip1 \in BOOLEAN
    BY TableAssumption
  <2>3. actual[aux1] \in Allowed(c, c.aux1)
    BY <1>3, <2>1, <2>2, ChosenFits, TableAssumption DEF FuzzInv
  <2> QED BY <2>1, <2>3 DEF ShownAux
<1> QED BY <1>4, <1>5

LEMMA EmitKeeps ==
    ASSUME FuzzInv,
           NEW c \in Contracts, c.op \in Formatted, left > 0,
           NEW row \in Selected(c.op), NEW dst \in DstRegs,
           NEW src \in Choices(Allowed(c, c.src), FALSE),
           NEW aux1 \in Choices(Allowed(c, c.aux1), c.skip1),
           Emit(c, row, dst, src, aux1)
    PROVE  FuzzInv'
<1>1. PICK new \in Retyped(c, dst, src, aux1) : reg_state' = [reg_state EXCEPT ![dst] = new]
  BY DEF Emit
<1>2. PICK t \in Results(row, dst, actual[Shown(c.op, src)], actual[ShownAux(c.op, aux1)]) \cap Types :
        actual' = [actual EXCEPT ![dst] = t]
  BY DEF Emit
<1> DEFINE grown == Trusted(c, src, aux1) /\ (dst \in sound \/ Written(c) # {})
<1>3. sound' = IF grown THEN sound \cup {dst} ELSE sound \ {dst}
  BY DEF Emit
<1>4. last'.trusted = Trusted(c, src, aux1)
  BY DEF Emit
<1>5. /\ reg_state \in [Regs -> (SUBSET Types) \ {{}}] /\ actual \in [Regs -> Types]
      /\ left \in 0..MAX_INSTRUCTIONS /\ ended \in BOOLEAN /\ sound \subseteq Regs
  BY DEF FuzzInv, TypeOK
<1>6. dst \in Regs \ {0} /\ 0 \in Regs /\ src \in Regs /\ aux1 \in Regs
  BY TableAssumption, ChosenFits DEF FuzzInv
<1>7. ASSUME grown PROVE new = {t} /\ t # "DOUBLE_VECTOR"
  <2>1. c \in FaithfulRows /\ src \in sound /\ aux1 \in sound /\ (dst \in sound \/ Written(c) # {})
    BY <1>7 DEF Trusted
  <2> HIDE DEF grown
  <2> QED BY <2>1, <1>1, <1>2, TrackedResult
<1> HIDE DEF grown
<1>8. TypeOK'
  <2>1. left' \in 0..MAX_INSTRUCTIONS
    BY <1>5, TableAssumption DEF Emit
  <2>2. ended' \in BOOLEAN
    BY <1>5 DEF Emit
  <2>3. last'.src \in Types /\ last'.aux1 \in Types
    BY <1>5, <1>6 DEF Emit, Shown, ShownAux
  <2>4. last'.trusted \in BOOLEAN
    <3>1. Trusted(c, src, aux1) \in BOOLEAN
      BY DEF Trusted
    <3> QED BY <1>4, <3>1
  <2>5. new \in (SUBSET Types) \ {{}}
    BY <1>1, <1>6, TrackedSet
  <2>6. reg_state' \in [Regs -> (SUBSET Types) \ {{}}] /\ actual' \in [Regs -> Types]
    BY <1>1, <1>2, <1>5, <2>5
  <2>7. sound' \subseteq Regs
    BY <1>3, <1>5, <1>6
  <2> QED BY <2>1, <2>2, <2>3, <2>4, <2>6, <2>7 DEF TypeOK
<1>9. ASSUME NEW r \in sound' PROVE reg_state'[r] = {actual'[r]} /\ actual'[r] # "DOUBLE_VECTOR"
  <2>1. CASE r = dst
    <3>1. grown
      BY <1>3, <1>9, <2>1
    <3> QED BY <1>1, <1>2, <1>5, <1>6, <1>7, <2>1, <3>1
  <2>2. CASE r # dst
    <3>1. r \in sound /\ r \in Regs
      BY <1>3, <1>5, <1>9, <2>2
    <3>2. reg_state[r] = {actual[r]} /\ actual[r] # "DOUBLE_VECTOR"
      BY <3>1 DEF FuzzInv, TrackedIsActual, Reached
    <3> QED BY <1>1, <1>2, <1>5, <2>2, <3>1, <3>2
  <2> QED BY <2>1, <2>2
<1>10. actual'[0] = "NULL" /\ 0 \in sound'
  BY <1>2, <1>3, <1>5, <1>6 DEF FuzzInv, Reached
<1>11. TrackedIsActual' /\ Reached'
  BY <1>9, <1>10 DEF TrackedIsActual, Reached
<1>12. FaithfullyTyped'
  <2>1. ASSUME Trusted(c, src, aux1) PROVE Accepted'
    BY <2>1, EmittedValid
  <2> QED BY <2>1, <1>4 DEF FaithfullyTyped
<1> QED BY <1>8, <1>11, <1>12 DEF FuzzInv

LEMMA FuzzStep == FuzzInv /\ [Next]_vars => FuzzInv'
<1> SUFFICES ASSUME FuzzInv, [Next]_vars PROVE FuzzInv'
  OBVIOUS
<1>1. ASSUME NEW c \in Contracts, Write(c) PROVE FuzzInv'
  <2>1. PICK row \in Selected(c.op), dst \in DstRegs,
             src \in Choices(Allowed(c, c.src), FALSE),
             aux1 \in Choices(Allowed(c, c.aux1), c.skip1) : Emit(c, row, dst, src, aux1)
    BY <1>1 DEF Write
  <2>2. c.op \in Formatted /\ left > 0
    BY <1>1 DEF Write
  <2> QED BY <2>1, <2>2, EmitKeeps
<1>2. ASSUME NEW c \in Contracts, Waste(c) PROVE FuzzInv'
  <2>1. left' \in 0..MAX_INSTRUCTIONS
    BY <1>2, TableAssumption DEF Waste, FuzzInv, TypeOK
  <2>2. TypeOK'
    BY <1>2, <2>1 DEF Waste, FuzzInv, TypeOK
  <2>3. TrackedIsActual' /\ Reached' /\ FaithfullyTyped'
    BY <1>2 DEF Waste, FuzzInv, TrackedIsActual, Reached, FaithfullyTyped, Accepted
  <2> QED BY <2>2, <2>3 DEF FuzzInv
<1>3. CASE Halt
  <2>1. last' = [op |-> "OP_HALT", src |-> "NULL", aux1 |-> "NULL", trusted |-> TRUE]
    BY <1>3 DEF Halt, NoInstruction
  <2>2. TypeOK'
    <3>1. last'.src \in Types /\ last'.aux1 \in Types /\ last'.trusted \in BOOLEAN
      BY <2>1, TableAssumption
    <3> QED BY <1>3, <3>1 DEF Halt, FuzzInv, TypeOK
  <2>3. TrackedIsActual' /\ Reached'
    BY <1>3 DEF Halt, FuzzInv, TrackedIsActual, Reached
  <2>4. FaithfullyTyped'
    BY <2>1, TableAssumption DEF FaithfullyTyped, Accepted, Selected
  <2> QED BY <2>2, <2>3, <2>4 DEF FuzzInv
<1>4. CASE UNCHANGED vars
  BY <1>4 DEF vars, FuzzInv, TypeOK, TrackedIsActual, Reached, FaithfullyTyped, Accepted
<1> QED BY <1>1, <1>2, <1>3, <1>4 DEF Next

LEMMA FuzzHolds == Spec => []FuzzInv
BY FuzzInit, FuzzStep, PTL DEF Spec

(* How far the generator's claim holds, on every contract table, any bank  *)
(* of registers and any length of program: an instruction of a faithful    *)
(* row given sound registers meets only types its contract accepts,        *)
(* whatever unfaithful instructions the program holds besides.             *)
THEOREM FaithfulRowsStayValid == Spec => []FaithfullyTyped
<1>1. FuzzInv => FaithfullyTyped
  BY DEF FuzzInv
<1> QED BY <1>1, FuzzHolds, PTL

(* The generator's picture of every sound register is exact, on every      *)
(* table: an unfaithful row spoils its destination and what is computed    *)
(* from it, and nothing else.                                              *)
THEOREM TrackingIsExact == Spec => []TrackedIsActual
<1>1. FuzzInv => TrackedIsActual
  BY DEF FuzzInv
<1> QED BY <1>1, FuzzHolds, PTL
=============================================================================
