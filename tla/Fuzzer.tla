-------------------------------- MODULE Fuzzer --------------------------------
(***************************************************************************)
(* VmContractFuzzer.generate_program of tools/fuzz_vm_contracts.py: it     *)
(* writes a random program, one instruction at a time, from the rows of    *)
(* contracts.json, choosing operands by the types it believes the          *)
(* registers to have.                                                      *)
(*                                                                         *)
(* reg_state is what the generator believes; actual is the type a register *)
(* really has when the assembled program runs, given by the row of the     *)
(* contract table that the assembled flags select.  The two are kept by    *)
(* different rules.  They agree where a row of the table is faithful to    *)
(* the one its text selects, and sound follows how far that carries.       *)
(***************************************************************************)
EXTENDS Integers, FiniteSets

CONSTANTS
    Contracts,   \* rows [op, flags, src, aux1, aux2, skip1, skip2, out, modifies]
    Types,       \* the register types of the table
    Regs,        \* the register bank
    DstRegs,     \* R10..R31
    Preamble,    \* the types the seven preamble instructions leave
    MAX_INSTRUCTIONS

(* A mask is a set of types; the generator drops the rows that end a       *)
(* program.  Register 0 is left empty by the preamble and no destination   *)
(* is below 10.                                                            *)
ASSUME TableAssumption ==
    /\ {"NULL", "INT64", "BITSET", "FLOAT", "FLOAT_VECTOR", "DOUBLE_VECTOR"} \subseteq Types
    /\ \A c \in Contracts :
          /\ c.op \notin {"none", "OP_HALT"}
          /\ c.src \subseteq Types /\ c.aux1 \subseteq Types /\ c.aux2 \subseteq Types
          /\ c.out \subseteq Types
          /\ {c.skip1, c.skip2, c.modifies} \subseteq BOOLEAN
    /\ 0 \in Regs /\ DstRegs \subseteq Regs \ {0}
    /\ Preamble \in [Regs -> Types \ {"DOUBLE_VECTOR"}] /\ Preamble[0] = "NULL"
    /\ MAX_INSTRUCTIONS \in Nat

VARIABLES
    reg_state,   \* the types the generator tracks for each register
    left,        \* iterations of the loop still to run
    ended,       \* the loop ended and OP_HALT was written
    actual,      \* the type each register has when the program runs
    last,        \* the instruction written last, with its operands' types
    sound        \* history: the registers whose contents come from instructions
                 \* of faithful rows alone; no guard reads it

vars == <<reg_state, left, ended, actual, last, sound>>

SetOps == {"OP_SET_UNION", "OP_SET_INTERSECT", "OP_SET_DIFFERENCE"}
SetTypes == {"BITSET", "NODE_ID", "INT64", "NODE_VECTOR", "UINT64_VECTOR", "LANE"}
Allowed(c, mask) == IF c.op \in SetOps THEN mask \cap SetTypes ELSE mask

(* The registers that hold a type of a mask; an empty one counts only if   *)
(* it is register 0.                                                       *)
Fits(mask) == {r \in Regs : \E t \in reg_state[r] \cap mask : t # "NULL" \/ r = 0}
Eligible(c) ==
    /\ Allowed(c, c.src) = {} \/ Fits(Allowed(c, c.src)) # {}
    /\ Allowed(c, c.aux1) = {} \/ c.skip1 \/ Fits(Allowed(c, c.aux1)) # {}
    /\ c.aux2 = {} \/ c.skip2 \/ Fits(c.aux2) # {}

(* The choices of an operand: register 0 for one the row does not have or  *)
(* may leave out.                                                          *)
Choices(mask, skip) ==
    IF mask = {} THEN {0}
    ELSE IF skip THEN {0} \cup Fits(mask)
    ELSE Fits(mask)

-----------------------------------------------------------------------------
(* _format_instruction: which mnemonics have a text form, and which of the *)
(* chosen operands it shows.                                               *)
ShowsSrc ==
    {"OP_CSR_WALK", "OP_CSC_WALK", "OP_ADAPTIVE_WALK", "OP_CSR_DEGREE",
     "OP_SET_CARDINALITY", "OP_MOV", "OP_VEC_MATH_UNARY", "OP_VECTOR_REDUCE_SUM",
     "OP_FLOAT_VECTOR_SCALE", "OP_EXTRACT_VALIDITY", "OP_LANE_INIT_GROUPS",
     "OP_LANE_CSR_WALK", "OP_LANE_CSC_WALK", "OP_LANE_FILTER_QUORUM",
     "OP_LANE_REDUCE_AND", "OP_VECTOR_ANN_SEARCH", "OP_ASSERT"}
ShowsBoth ==
    SetOps \cup {"OP_VEC_CMP_EQ", "OP_VEC_CMP_GT", "OP_VEC_CMP_LT",
                 "OP_VEC_MATH_BINARY", "OP_VECTOR_RERANK_DOT"}
ShowsNone ==
    {"OP_CLEAR_REG", "OP_LANE_INIT_SEEDS", "OP_LOAD_CONST_INT", "OP_LOAD_CONST_FLOAT"}
Formatted == ShowsSrc \cup ShowsBoth \cup ShowsNone

(* The flags the assembler gives those text forms: none carries FLAG=, and *)
(* only a scaling by "R<src>, 2" is read as a scaling by register.         *)
EncodedFlags(op) == IF op = "OP_FLOAT_VECTOR_SCALE" THEN 1 ELSE 0
Selected(op) == {r \in Contracts : r.op = op /\ r.flags = EncodedFlags(op)}
ASSUME SelectedAssumption == \A c \in Contracts : c.op \in Formatted => Selected(c.op) # {}

-----------------------------------------------------------------------------
(* What the generator takes the destination to hold afterwards: the sets   *)
(* it may put into reg_state[dst].                                         *)
TracksBitset ==
    SetOps \cup {"OP_CSR_WALK", "OP_CSC_WALK", "OP_ADAPTIVE_WALK",
                 "OP_INIT_INPUT_SET", "OP_EXTRACT_VALIDITY"}
TracksInt == {"OP_SET_CARDINALITY", "OP_CSR_DEGREE"}
Floats(operands) ==
    IF \A r \in operands : reg_state[r] = {"FLOAT"} THEN "FLOAT" ELSE "FLOAT_VECTOR"

(* Fault: unary math always taken to give a vector. *)
RetypedUnaryVector(c, dst, src, aux1) ==
    CASE c.op = "OP_VEC_MATH_UNARY" -> {{"FLOAT_VECTOR"}}
      [] c.op = "OP_VEC_MATH_BINARY" -> {{Floats({src, aux1})}}
      [] c.op \in TracksBitset -> {{"BITSET"}}
      [] c.op \in TracksInt -> {{"INT64"}}
      [] c.op = "OP_CLEAR_REG" -> {{"NULL"}}
      [] c.op = "OP_MOV" -> {reg_state[src]}
      [] c.op = "OP_FLOAT_VECTOR_SCALE" -> {reg_state[dst]}
      [] OTHER -> IF c.out # {} /\ c.modifies THEN {{t} : t \in c.out}
                  ELSE {reg_state[dst]}
Retyped(c, dst, src, aux1) ==
    CASE c.op = "OP_VEC_MATH_UNARY" -> {{Floats({src})}}
      [] c.op = "OP_VEC_MATH_BINARY" -> {{Floats({src, aux1})}}
      [] c.op \in TracksBitset -> {{"BITSET"}}
      [] c.op \in TracksInt -> {{"INT64"}}
      [] c.op = "OP_CLEAR_REG" -> {{"NULL"}}
      [] c.op = "OP_MOV" -> {reg_state[src]}
      [] c.op = "OP_FLOAT_VECTOR_SCALE" -> {reg_state[dst]}
      [] OTHER -> IF c.out # {} /\ c.modifies THEN {{t} : t \in c.out}
                  ELSE {reg_state[dst]}

(* What the engine leaves there, by the row r the flags select: a move     *)
(* copies a type, element-wise math keeps that of its operands, a scalar   *)
(* spreading over a vector.                                                *)
Results(r, dst, s, a) ==
    CASE r.op = "OP_MOV" -> {s}
      [] r.op = "OP_VEC_MATH_UNARY" -> {s}
      [] r.op = "OP_VEC_MATH_BINARY" -> IF s = a THEN {s} ELSE {s, a} \ {"FLOAT"}
      [] OTHER -> IF r.modifies THEN r.out ELSE {actual[dst]}

-----------------------------------------------------------------------------
(* What makes the generator right about a row with a text form: the row    *)
(* asks at least what the one its flags select asks, and writes just what  *)
(* that one writes, a single type, no more and no less than the tracker    *)
(* assumes.                                                                *)
Math == {"OP_VEC_MATH_UNARY", "OP_VEC_MATH_BINARY"}
Written(c) ==
    CASE c.op \in TracksBitset -> {"BITSET"}
      [] c.op \in TracksInt -> {"INT64"}
      [] c.op = "OP_CLEAR_REG" -> {"NULL"}
      [] c.op = "OP_FLOAT_VECTOR_SCALE" -> {}
      [] OTHER -> IF c.modifies THEN c.out ELSE {}
Effect(r) == IF r.modifies THEN r.out ELSE {}
FaithfulRow(c) ==
    /\ c.op \in Math =>
          /\ (c.src \cup c.aux1) \subseteq {"FLOAT", "FLOAT_VECTOR", "DOUBLE_VECTOR"}
          /\ c.src # {}
    /\ c.op = "OP_VEC_MATH_BINARY" => c.aux1 # {} /\ ~c.skip1
    /\ c.op \notin Math \cup {"OP_MOV"} =>
          \E t \in Types \ {"DOUBLE_VECTOR"} : Written(c) \in {{}, {t}}
    /\ \A r \in Selected(c.op) :
          /\ c.op \notin Math \cup {"OP_MOV"} =>
                /\ Effect(r) = Written(c)
                /\ r.modifies <=> Effect(r) # {}
          /\ r.src # {} =>
                /\ c.op \in ShowsNone => "NULL" \in r.src
                /\ c.op \notin ShowsNone => Allowed(c, c.src) # {} /\ Allowed(c, c.src) \subseteq r.src
          /\ r.aux1 # {} /\ ~r.skip1 =>
                /\ c.op \in ShowsBoth
                /\ ~c.skip1 /\ Allowed(c, c.aux1) # {}
                /\ Allowed(c, c.aux1) \subseteq r.aux1
FaithfulRows == {c \in Contracts : FaithfulRow(c)}
Trusted(c, src, aux1) == c \in FaithfulRows /\ {src, aux1} \subseteq sound

-----------------------------------------------------------------------------
NoInstruction == [op |-> "none", src |-> "NULL", aux1 |-> "NULL", trusted |-> TRUE]

Init ==
    /\ reg_state = [r \in Regs |-> {Preamble[r]}]
    /\ actual = Preamble
    /\ left = MAX_INSTRUCTIONS /\ ended = FALSE
    /\ last = NoInstruction /\ sound = Regs

Shown(op, src) == IF op \in ShowsNone THEN 0 ELSE src
ShownAux(op, aux1) == IF op \in ShowsBoth THEN aux1 ELSE 0

(* Append the instruction, assembled to the row r, and update the         *)
(* destination.                                                            *)
Emit(c, r, dst, src, aux1) ==
    LET s == actual[Shown(c.op, src)]
        a == actual[ShownAux(c.op, aux1)]
        trusted == Trusted(c, src, aux1)
    IN  /\ left' = left - 1 /\ ended' = ended
        /\ last' = [op |-> c.op, src |-> s, aux1 |-> a, trusted |-> trusted]
        /\ sound' = IF trusted /\ (dst \in sound \/ Written(c) # {})
                    THEN sound \cup {dst} ELSE sound \ {dst}
        /\ \E new \in Retyped(c, dst, src, aux1) :
              reg_state' = [reg_state EXCEPT ![dst] = new]
        /\ \E t \in Results(r, dst, s, a) \cap Types :
              actual' = [actual EXCEPT ![dst] = t]

(* One iteration that writes an instruction. *)
Write(c) ==
    /\ left > 0 /\ ~ended
    /\ c.op \in Formatted /\ Eligible(c)
    /\ \E r \in Selected(c.op), dst \in DstRegs,
          src \in Choices(Allowed(c, c.src), FALSE),
          aux1 \in Choices(Allowed(c, c.aux1), c.skip1) : Emit(c, r, dst, src, aux1)

(* One that picks a contract with no text form: the iteration is spent.    *)
Waste(c) ==
    /\ left > 0 /\ ~ended
    /\ c.op \notin Formatted /\ Eligible(c)
    /\ left' = left - 1
    /\ UNCHANGED <<reg_state, ended, actual, last, sound>>

(* The loop is over, or no contract is eligible: OP_HALT is appended.      *)
Halt ==
    /\ ~ended /\ (left = 0 \/ \A c \in Contracts : ~Eligible(c))
    /\ ended' = TRUE
    /\ last' = [NoInstruction EXCEPT !.op = "OP_HALT"]
    /\ UNCHANGED <<reg_state, left, actual, sound>>

Next ==
    \/ \E c \in Contracts : Write(c)
    \/ \E c \in Contracts : Waste(c)
    \/ Halt

Spec == Init /\ [][Next]_vars

-----------------------------------------------------------------------------
(* Properties. *)

(* Types: no register is ever without one.  Proved in FuzzerProofs.        *)
TypeOK ==
    /\ reg_state \in [Regs -> (SUBSET Types) \ {{}}]
    /\ actual \in [Regs -> Types]
    /\ left \in 0..MAX_INSTRUCTIONS /\ ended \in BOOLEAN
    /\ last.src \in Types /\ last.aux1 \in Types /\ last.trusted \in BOOLEAN
    /\ sound \subseteq Regs

(* The instruction written last finds in its registers, when it runs,      *)
(* types that the contract of the variant it was assembled to accepts.     *)
Accepted ==
    \A r \in Selected(last.op) :
        /\ r.src # {} => last.src \in r.src
        /\ r.aux1 # {} /\ ~r.skip1 => last.aux1 \in r.aux1

(* fuzz_vm_contracts.py:4: "Generates syntactically and type-valid         *)
(* bytecode instruction sequences", whatever rows the table has.           *)
TypeValid == Accepted

(* How far that is so: an instruction of a faithful row is accepted when   *)
(* the registers it was given come from such instructions too, whatever    *)
(* else was written before and to whichever registers.                     *)
FaithfullyTyped == last.trusted => Accepted

(* The generator's picture of those registers is the engine's: none holds  *)
(* a type other than the one tracked for it.                               *)
TrackedIsActual == \A r \in sound : reg_state[r] = {actual[r]}
=============================================================================
