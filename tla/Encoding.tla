------------------------------ MODULE Encoding ------------------------------
(***************************************************************************)
(* The instruction encoder of tools/run_vm_asm_suite.py: how one line of   *)
(* assembly becomes one 64-bit word, or two when a relation or attribute   *)
(* identifier does not fit in eight bits.                                  *)
(*                                                                         *)
(* A machine integer is the set of positions of its 1 bits, so that the    *)
(* code's masks, shifts and ORs are intersections, translations and        *)
(* unions, exact at every width.                                           *)
(*                                                                         *)
(* The encoder sees a line as a record ins:                                *)
(*   op   the mnemonic as written (aliases included)                       *)
(*   n    the number of tokens, the mnemonic being token 0                 *)
(*   v    v[i]: the value parse_val gives to token i                       *)
(*   f    f[i]: the bits of the IEEE single float(token i)                 *)
(*   reg  the positions of the tokens that start with "R"                  *)
(*   hex  the positions of the tokens that start with "0x"                 *)
(***************************************************************************)
EXTENDS Integers, Sequences, FiniteSets

(* Fault: a mask left out. *)
Unmasked(width, x) == x
(* x & (2^width - 1) and x << k *)
Low(width, x) == x \cap 0..(width - 1)
Shl(x, k) == {b + k : b \in x}

(* The bits of a natural below 2^31 (TLC's integers). *)
Bits(n) == {b \in 0..30 : (n \div 2^b) % 2 = 1}

(* The bit that stands for the sign of a Python integer: a negative one    *)
(* holds it, and every bit between its own and this one.  It is past every *)
(* width the encoder masks to.                                             *)
SIGN == 40

(* struct.pack("<f", 1.0) read as an unsigned integer. *)
OneF == 23..29

-----------------------------------------------------------------------------
(* Families of mnemonics: the tuples the branches of the encoder test. *)
BranchOps == {"OP_JMP", "OP_JZ", "OP_JNZ", "OP_CALL", "OP_TRAP", "OP_NOP",
              "OP_HALT", "OP_RET", "OP_LEAVE_FRAME"}
InlineOps == {"OP_INIT_MOCK_GRAPH", "OP_LOAD_INLINE_ARRAY",
              "OP_LOAD_INLINE_INT_ARRAY", "OP_LOAD_INLINE_SET",
              "OP_LOAD_INLINE_SET_DENSE", "OP_LOAD_INLINE_SET_ROARING",
              "OP_LOAD_INLINE_NODE_ARRAY"}
MockAttrOps == {"OP_INIT_MOCK_NODE_ATTR", "OP_INIT_MOCK_EDGE_ATTR"}
PairOps == {"OP_VECTOR_DIV", "OP_VECTOR_STR_CONCAT", "OP_L1_NORM_DIFF",
            "OP_ROARING_BITMAP_AND", "OP_ROARING_BITMAP_OR",
            "OP_ROARING_BITMAP_AND_NOT", "OP_BITSET_AND", "OP_BITSET_OR",
            "OP_BITSET_AND_NOT", "OP_BITSET_XOR"}
NodeFilterOps == {"OP_NODE_FILTER", "OP_NODE_FILTER_STR_PREFIX",
                  "OP_VECTOR_TIME_VALID_AT"}
EwiseOps == {"OP_EWISE_ADD", "OP_EWISE_MULT"}
CompareOps == {"OP_VEC_CMP_EQ", "OP_VEC_CMP_GT", "OP_VEC_CMP_LT",
               "OP_MASK_AND", "OP_MASK_OR"}
WalkStreamOps == {"OP_COO_WALK_STREAM", "OP_CSR_WALK_STREAM",
                  "OP_CSC_WALK_STREAM"}
StreamOps == {"OP_STREAM_FUNC_BEGIN", "OP_STREAM_FUNC_END",
              "OP_STREAM_LOAD_SRC", "OP_STREAM_LOAD_EDGE",
              "OP_STREAM_LOAD_TGT", "OP_STREAM_MATH_ADD",
              "OP_STREAM_MATH_SUB", "OP_STREAM_MATH_MUL",
              "OP_STREAM_MATH_DIV", "OP_STREAM_MATH_MOD",
              "OP_STREAM_MATH_UNARY", "OP_STREAM_FILTER",
              "OP_STREAM_REDUCE", "OP_STREAM_CMP_EQ", "OP_STREAM_CMP_NEQ",
              "OP_STREAM_CMP_GT", "OP_STREAM_CMP_LT", "OP_STREAM_LOGIC_AND",
              "OP_STREAM_LOGIC_OR", "OP_STREAM_LOGIC_NOT",
              "OP_STREAM_SELECT", "OP_STREAM_REDUCE_ARGMIN",
              "OP_STREAM_REDUCE_ARGMAX", "OP_STREAM_LOAD_SRC_ID",
              "OP_STREAM_LOAD_TGT_ID", "OP_STREAM_LOAD_EDGE_ID",
              "OP_STREAM_YIELD", "OP_STREAM_SCATTER_REDUCE"}
SetOps == {"OP_SET_UNION", "OP_SET_INTERSECT", "OP_SET_DIFFERENCE"}
FrameOps == {"OP_LOAD_INDIRECT", "OP_ENTER_FRAME"}
WordOps == {"OP_LOAD_CONST_INT", "OP_STREAM_LOAD_CONST", "OP_ALLOC_SCRATCH",
            "OP_ASSERT_SCRATCH_BYTES", "OP_SET_MAX_DOP"}
LaneOps == {"OP_LANE_INIT_GROUPS", "OP_LANE_SET_EDGE_MASK",
            "OP_LANE_REDUCE_ATTR", "OP_LANE_SET_COVER",
            "OP_VECTOR_ANN_SEARCH", "OP_VECTOR_RERANK_DOT"}

(* The mnemonics whose wide identifiers take a second word. *)
ExtendedOps == {"OP_CSR_WALK", "OP_CSR_WALK_FILTERED", "OP_CSR_DEGREE",
                "OP_CSR_WALK_2HOP", "OP_CSR_WALK_STATE",
                "OP_CSR_WALK_REDUCE_SUM", "OP_CSR_WALK_PREDICATE",
                "OP_CSC_WALK", "OP_GATHER_NODE_ATTR"}

Aliases == [OP_LOAD_INLINE_INT_ARRAY   |-> "OP_LOAD_INLINE_ARRAY",
            OP_LOAD_INLINE_NODE_ARRAY  |-> "OP_LOAD_INLINE_SET",
            OP_LOAD_INLINE_SET_DENSE   |-> "OP_LOAD_INLINE_SET",
            OP_LOAD_INLINE_SET_ROARING |-> "OP_LOAD_INLINE_SET",
            OP_INIT_MOCK_EDGE_ATTR     |-> "OP_INIT_MOCK_NODE_ATTR"]
Canonical(op) == IF op \in DOMAIN Aliases THEN Aliases[op] ELSE op

-----------------------------------------------------------------------------
(* A field: the low width bits of token tok, moved up by at. *)
F(tok, width, at) == [tok |-> tok, width |-> width, at |-> at]

F8_8     == {F(2, 8, 0), F(3, 8, 8)}
F8_16    == {F(2, 8, 0), F(3, 16, 8)}
F8_8_8   == F8_8 \cup {F(4, 8, 16)}
F8_8_8_8 == F8_8_8 \cup {F(5, 8, 24)}
F8_8_16  == F8_8 \cup {F(4, 16, 16)}
F16_16   == {F(2, 16, 0), F(3, 16, 16)}
F16_8_8  == {F(2, 16, 0), F(3, 8, 16), F(4, 8, 24)}
FWord    == {F(2, 32, 0)}
Twice(w) == {F(2, w, 0), F(2, w, w)}

(* Mnemonics whose layout does not depend on the number of tokens. *)
PlainLayout(op) ==
    CASE op \in NodeFilterOps \cup {"OP_VEC_MATH_TERNARY"} -> F8_8_8_8
      [] op \in {"OP_COLLECT_VALUE_MAP", "OP_CSR_WALK_PREDICATE", "OP_MXV",
                 "OP_VXM", "OP_GATHER_NODE_ATTR", "OP_COO_WALK_FILTERED"}
            \cup EwiseOps                                  -> F8_8_16
      [] op \in {"OP_VEC_BLEND", "OP_VEC_MATH_BINARY"}     -> F8_8_8
      [] op \in {"OP_FRONTIER_DIFF", "OP_VEC_MATH_UNARY"}  -> F8_8
      [] op = "OP_MAP_DENSE_TO_KEYS"                       -> F8_16
      [] op = "OP_MASK_NOT"                                -> {F(2, 8, 0)}
      [] op = "OP_EXTRACT_VALIDITY"                        -> {F(2, 16, 0)}
      [] op \in StreamOps                                  -> F16_8_8
      [] op \in WordOps                                    -> FWord
      [] OTHER                                             -> F16_16

(* Mnemonics whose branch looks at the number of tokens. *)
Layout(ins) ==
    LET op == ins.op  n == ins.n IN
    CASE op \in PairOps /\ n = 3                           -> Twice(16)
      [] op = "OP_ISLAND_DETECT"      -> IF n = 3 THEN Twice(8) ELSE F8_8_16
      [] op = "OP_READ_EDGE_WEIGHT"   ->
            (CASE n = 3 -> Twice(8)
               [] n = 4 -> Twice(8) \cup {F(3, 16, 16)}
               [] OTHER -> F8_8_16)
      [] op = "OP_CSC_WALK"           -> IF n = 4 THEN F16_16 ELSE F16_8_8
      [] op = "OP_CSR_WALK_FILTERED"  ->
            (CASE n = 4 -> F16_16 [] n > 4 -> F8_8_16 [] OTHER -> {})
      [] op = "OP_CSR_WALK_2HOP"      ->
            (CASE n = 4 -> F16_16
               [] n > 4 -> {F(2, 8, 0), F(3, 16, 8), F(4, 16, 16)}
               [] OTHER -> {})
      [] op = "OP_VEC_CMP_BETWEEN"    ->
            IF n = 4 /\ 2 \in ins.hex THEN F16_16 ELSE F8_8_8
      [] op \in CompareOps            -> IF n = 3 THEN {F(2, 16, 0)} ELSE F8_8
      [] op = "OP_ASSERT"             -> IF n = 3 THEN FWord ELSE F16_16
      [] op \in LaneOps               ->
            (CASE n = 3 -> {F(2, 16, 0)} [] n = 4 -> F16_16
               [] OTHER -> F8_8_16)
      [] op = "OP_LANE_PRUNE_MASK"    -> IF n >= 6 THEN F8_8_8_8 ELSE F8_8
      [] op = "OP_LANE_FILTER_QUORUM" -> IF n >= 6 THEN F8_8_8_8 ELSE F16_16
      [] OTHER                        -> PlainLayout(op)

(* The payload: every field whose token is there, ORed together. *)
Pack(ins, fields) ==
    UNION {Shl(Low(g.width, ins.v[g.tok]), g.at) :
             g \in {h \in fields : h.tok < ins.n}}

(* The token the flags byte comes from; 0 when no token carries it. *)
FlagToken(ins) ==
    LET op == ins.op  n == ins.n IN
    CASE op \in PairOps \cup WalkStreamOps \cup SetOps \cup FrameOps
                \cup {"OP_ASSERT", "OP_VEC_MATH_UNARY"}    -> 4
      [] op \in LaneOps \cup {"OP_VEC_MATH_BINARY"}        -> 5
      [] op = "OP_VEC_MATH_TERNARY"                        -> 6
      [] op \in {"OP_LANE_PRUNE_MASK", "OP_LANE_FILTER_QUORUM"} ->
            IF n >= 6 THEN 6 ELSE 4
      [] OTHER                                             -> 0

FlagsAt(ins, tok, default) == IF tok < ins.n THEN ins.v[tok] ELSE default

-----------------------------------------------------------------------------
(* One operator per kind of branch; each yields [flags, dst, payload].     *)
(* Dst: every branch but the branch instructions' takes dst from token 1.  *)
Dst(ins) == IF ins.n > 1 THEN ins.v[1] ELSE {}

EncodeBranch(ins) ==
    [flags |-> {}, dst |-> {}, payload |-> Dst(ins)]

EncodeStableCheck(ins) ==
    [flags |-> {}, dst |-> IF ins.n > 2 THEN ins.v[1] ELSE {},
     payload |-> Pack(ins, {F(1, 16, 0), F(2, 16, 16)})]

(* sym: the [off, cnt] of token 2's symbol, or the absent one, whose       *)
(* fields are empty; isInt: it was packed by the integer pass.             *)
EncodeInline(ins, sym, isInt) ==
    [flags   |-> IF ins.n > 2 /\ \/ ins.op = "OP_LOAD_INLINE_INT_ARRAY"
                                 \/ ins.op = "OP_LOAD_INLINE_ARRAY" /\ isInt
                 THEN {0} ELSE {},
     dst     |-> Dst(ins),
     payload |-> sym.off \cup Shl(sym.cnt, 16)]

EncodeConstFloat(ins) ==
    [flags |-> {}, dst |-> Dst(ins),
     payload |-> IF ins.n > 2 THEN ins.f[2] ELSE {}]

(* A validity register past the bank (R255: none) becomes R0. *)
EncodeMockAttr(ins) ==
    LET m == Low(8, ins.v[3]) IN
    [flags |-> {}, dst |-> Dst(ins),
     payload |-> Pack(ins, {F(2, 8, 0)}) \cup
                 IF ins.n > 3 /\ m \subseteq 0..5 THEN Shl(m, 8) ELSE {}]

EncodeScale(ins) ==
    LET n == ins.n
        dynamic(p) == [flags |-> FlagsAt(ins, 4, {0}), dst |-> Dst(ins),
                       payload |-> p]
        constant(p) == [flags |-> {}, dst |-> Dst(ins), payload |-> p]
    IN  CASE n = 3 /\ 2 \in ins.reg  -> constant(OneF)
          [] n >= 4 /\ 3 \in ins.reg -> dynamic(Low(16, ins.v[3]))
          [] n >= 4 /\ 3 \notin ins.reg /\ 2 \in ins.reg ->
                dynamic(Pack(ins, F16_16))
          [] n < 3                   -> constant({})
          [] OTHER                   -> constant(ins.f[2])

(* EWISE_MULT without an operator operand means BINARY_OP_MUL = 1. *)
EncodeByLayout(ins) ==
    [flags   |-> IF FlagToken(ins) = 0 THEN {}
                 ELSE FlagsAt(ins, FlagToken(ins),
                              IF ins.op = "OP_LANE_FILTER_QUORUM"
                                 /\ ins.n >= 6 THEN {0} ELSE {}),
     dst     |-> Dst(ins),
     payload |-> Pack(ins, Layout(ins)) \cup
                 IF ins.op = "OP_EWISE_MULT" /\ ins.n <= 4 THEN {16} ELSE {}]

(* The last else: a first operand that is no register is payload, not dst. *)
EncodeDefault(ins) ==
    LET regFirst == ins.n > 1 /\ 1 \in ins.reg IN
    [flags   |-> FlagsAt(ins, 4, {}),
     dst     |-> IF regFirst THEN ins.v[1] ELSE {},
     payload |-> Pack(ins, F16_16) \cup
                 IF regFirst \/ ins.n <= 1 THEN {} ELSE ins.v[1]]

LayoutOps ==
    PairOps \cup NodeFilterOps \cup EwiseOps \cup CompareOps
    \cup WalkStreamOps \cup StreamOps \cup SetOps \cup FrameOps \cup WordOps
    \cup LaneOps
    \cup {"OP_READ_EDGE_WEIGHT", "OP_ISLAND_DETECT", "OP_FRONTIER_DIFF",
          "OP_MAP_DENSE_TO_KEYS", "OP_COLLECT_VALUE_MAP", "OP_COALESCE",
          "OP_EXTRACT_VALIDITY", "OP_CSC_WALK", "OP_CSR_WALK_FILTERED",
          "OP_CSR_WALK_PREDICATE", "OP_CSR_WALK_2HOP", "OP_MXV", "OP_VXM",
          "OP_VEC_BLEND", "OP_VEC_CMP_BETWEEN", "OP_MASK_NOT",
          "OP_VEC_MATH_UNARY", "OP_VEC_MATH_BINARY", "OP_VEC_MATH_TERNARY",
          "OP_GATHER_NODE_ATTR", "OP_COO_WALK_FILTERED", "OP_ASSERT",
          "OP_LANE_PRUNE_MASK", "OP_LANE_FILTER_QUORUM"}

Encode(ins, sym, isInt) ==
    CASE ins.op \in BranchOps               -> EncodeBranch(ins)
      [] ins.op = "OP_STABLE_CHECK"         -> EncodeStableCheck(ins)
      [] ins.op \in InlineOps               -> EncodeInline(ins, sym, isInt)
      [] ins.op = "OP_LOAD_CONST_FLOAT"     -> EncodeConstFloat(ins)
      [] ins.op \in MockAttrOps             -> EncodeMockAttr(ins)
      [] ins.op = "OP_FLOAT_VECTOR_SCALE"   -> EncodeScale(ins)
      [] ins.op \in LayoutOps               -> EncodeByLayout(ins)
      [] OTHER                              -> EncodeDefault(ins)

(* The tokens the branch hands to parse_val, and those it hands to float(). *)
ParsedTokens(ins) ==
    LET op == ins.op
        wanted == CASE op \in BranchOps \cup InlineOps
                          \cup {"OP_LOAD_CONST_FLOAT"}   -> {1}
                    [] op = "OP_STABLE_CHECK"            -> {1, 2}
                    [] op \in MockAttrOps                -> {1, 2, 3}
                    [] op = "OP_FLOAT_VECTOR_SCALE"      ->
                          {1} \cup IF ins.n < 4 THEN {}
                                   ELSE IF 3 \in ins.reg THEN {3, 4}
                                   ELSE IF 2 \in ins.reg THEN {2, 3, 4}
                                   ELSE {}
                    [] op \in LayoutOps                  ->
                          {1, FlagToken(ins)} \cup {g.tok : g \in Layout(ins)}
                    [] OTHER                             -> 1..4
    IN  wanted \cap 1..(ins.n - 1)
FloatTokens(ins) ==
    IF \/ ins.op = "OP_LOAD_CONST_FLOAT"
       \/ ins.op = "OP_FLOAT_VECTOR_SCALE" /\ 2 \notin ins.reg
                                           /\ 3 \notin ins.reg
    THEN {2} \cap 1..(ins.n - 1) ELSE {}

-----------------------------------------------------------------------------
(* Words.  Instruction(...) stores through c_uint8/16/32 fields, which     *)
(* drop the bits that do not fit.                                          *)
Word(op, flags, dst, payload) ==
    [op |-> op, flags |-> Low(8, flags), dst |-> Low(16, dst),
     payload |-> Low(32, payload)]

EXTENSION == "0xFF"    \* the tombstone opcode of the second word

(* (payload >> 16) > 255, which no negative payload is: Python's integers  *)
(* keep their sign through the ORs and the shift.                          *)
NeedsExtension(op, e) ==
    /\ op \in ExtendedOps
    /\ SIGN \notin e.payload
    /\ \E b \in e.payload : b >= 24

(* Fault: flag bit 7 not set. *)
EmitUnflagged(op, e) ==
    IF NeedsExtension(op, e)
    THEN << Word(Canonical(op), e.flags, e.dst, Low(16, e.payload)),
            Word(EXTENSION, {}, {b \in 0..15 : b + 16 \in e.payload}, {}) >>
    ELSE << Word(Canonical(op), e.flags, e.dst, e.payload) >>
(* Fault: the wide identifier cut to a byte (40000 becomes 64). *)
EmitByteId(op, e) ==
    IF NeedsExtension(op, e)
    THEN << Word(Canonical(op), e.flags \cup {7}, e.dst, Low(16, e.payload)),
            Word(EXTENSION, {}, {b \in 0..7 : b + 16 \in e.payload}, {}) >>
    ELSE << Word(Canonical(op), e.flags, e.dst, e.payload) >>
(* The words one encoded line appends to the program: the second one has   *)
(* the upper half of the payload for its dst.                              *)
Emit(op, e) ==
    IF NeedsExtension(op, e)
    THEN << Word(Canonical(op), e.flags \cup {7}, e.dst, Low(16, e.payload)),
            Word(EXTENSION, {}, {b \in 0..15 : b + 16 \in e.payload}, {}) >>
    ELSE << Word(Canonical(op), e.flags, e.dst, e.payload) >>

-----------------------------------------------------------------------------
(* The virtual machine's reading of a program (VM_SPECIFICATION 3.2.1):    *)
(* a word with flag bit 7 takes the next word as its extension.  The       *)
(* machine is not in this repository; this is the contract the encoder     *)
(* must meet.                                                              *)
IsHead(words, i) == words[i].op # EXTENSION
Fetch(words, i) ==
    LET w == words[i]
        extended == 7 \in w.flags /\ i < Len(words)
    IN  [op |-> w.op, flags |-> w.flags \ {7}, dst |-> w.dst,
         payload |-> IF extended
                     THEN Low(16, w.payload) \cup Shl(words[i + 1].dst, 16)
                     ELSE w.payload]
=============================================================================
