----------------------------- MODULE MCAssembler -----------------------------
(* Small files for Assembler, each after a situation of the test vectors.  *)
EXTENDS Assembler, TLC

NoAssert == [form |-> "", key |-> "", val |-> 0, int |-> TRUE]
NoCode == [kind |-> "none", op |-> "", toks |-> <<>>]
Is(op, toks) ==
    [assert |-> NoAssert, code |-> [kind |-> "instr", op |-> op, toks |-> toks]]
Expects(form, key, val) ==
    [assert |-> [form |-> form, key |-> key, val |-> val, int |-> TRUE],
     code |-> NoCode]
Fuel(t) ==
    [assert |-> NoAssert, code |-> [kind |-> "fuel", op |-> "", toks |-> <<t>>]]
D(kind, name, body) == [kind |-> kind, name |-> name, body |-> body]
Row(src, tgts) == [src |-> src, tgts |-> tgts]

(* Operand texts. *)
Lit(bits) == [lit |-> bits, flt |-> bits, bad |-> FALSE, badflt |-> FALSE,
              reg |-> FALSE, hex |-> FALSE]
Reg(bits) == [Lit(bits) EXCEPT !.reg = TRUE, !.badflt = TRUE]
Name == [Lit({}) EXCEPT !.badflt = TRUE]
MCLex ==
    [R0 |-> Reg({}), R1 |-> Reg({0}), R2 |-> Reg({1}), R3 |-> Reg({0, 1}),
     n7 |-> Lit({0, 1, 2}), n40000 |-> Lit({6, 10, 11, 12, 15}),
     n200 |-> Lit({3, 6, 7}), neg |-> Lit(0..SIGN),
     h10 |-> [Lit({4}) EXCEPT !.hex = TRUE],
     KNOWS |-> Name, LIKES |-> Name, ANY |-> Name, A |-> Name, G |-> Name,
     REACHES |-> [Name EXCEPT !.reg = TRUE, !.bad = TRUE],
     BINARY_OP_MIN |-> Name]

MCFile == {"graph", "wide", "clash", "virtual", "broken", "leak", "noint"}

(* Two graphs, an empty row and arrays of both kinds under one buffer. *)
GraphDirs ==
    << D("int", "A", <<5, 6>>), D("csr", "G", <<Row(0, <<1, 2>>), Row(1, <<>>),
                                               Row(2, <<0>>)>>),
       D("float", "F", <<9>>), D("csr", "H", <<Row(0, <<0>>)>>),
       D("rel", "KNOWS", {1}) >>
GraphLines ==
    << Is("OP_INIT_MOCK_GRAPH", <<"KNOWS", "G">>),
       Is("OP_LOAD_INLINE_ARRAY", <<"R1", "A">>),
       Expects("{", "STATUS", "SUCCESS"), Expects("{", "R1", 7),
       Is("OP_CSR_WALK", <<"R2", "R1", "KNOWS">>), Is("OP_HALT", <<>>) >>

(* Relations under names other files bind to other numbers. *)
WideDirs == << D("rel", "KNOWS", {6, 10, 11, 12, 15}), D("rel", "LIKES", {2}) >>
RelsLines ==
    << Is("OP_CSR_WALK", <<"R1", "R0", "KNOWS">>), Fuel("n200"),
       Is("OP_LANE_FILTER_QUORUM", <<"R1", "R2", "n7", "LIKES", "R3">>),
       Expects("{", "FLAG", "notST"), Is("OP_JZ", <<"n7">>) >>

(* Identifiers on both sides of every width. *)
WideLines ==
    << Is("OP_CSR_WALK_PREDICATE", <<"R2", "R0", "R1", "n40000">>),
       Is("OP_GATHER_NODE_ATTR", <<"R2", "n200", "R3", "n200">>),
       Is("OP_CSC_WALK", <<"R1", "R2", "n7", "n200">>),
       Is("OP_NODE_FILTER", <<"R2", "R1", "R0", "n40000">>),
       Is("OP_LOAD_CONST_INT", <<"R1", "neg">>),
       Is("OP_CSR_DEGREE", <<"neg", "n40000", "n40000">>),
       Is("OP_EWISE_MULT", <<"R1", "R2", "R3", "BINARY_OP_MIN">>),
       Is("OP_MXV", <<"n40000", "R1", "R2", "n7">>),
       Is("OP_VEC_CMP_BETWEEN", <<"R1", "h10", "R2">>),
       Is("OP_CSR_WALK_2HOP", <<"R1", "R2", "n7", "n40000">>),
       Is("OP_STABLE_CHECK", <<"R1", "R2">>),
       Is("OP_LOAD_CONST_FLOAT", <<"R1", "n7">>),
       Is("OP_FLOAT_VECTOR_SCALE", <<"R1", "R2", "n7">>),
       Is("OP_INIT_MOCK_NODE_ATTR", <<"n40000", "R1", "n200">>) >>

(* One name for a graph, an array, a relation and a virtual relation. *)
ClashDirs ==
    << D("rel", "A", {3}), D("int", "A", <<1>>), D("csr", "A", <<Row(0, <<>>)>>),
       D("rel", "A", {4}), D("int", "G", <<2, 3>>), D("vrel", "LIKES", <<"A">>),
       D("vrel", "KNOWS", <<"A", "LIKES">>) >>
ClashLines ==
    << Is("OP_LOAD_INLINE_SET", <<"R1", "G">>),
       Is("OP_CSR_WALK", <<"A", "R1", "KNOWS">>),
       Is("OP_LOAD_INLINE_INT_ARRAY", <<"R1", "LIKES">>) >>

VirtualDirs ==
    << D("vrel", "ANY", <<"KNOWS", "R0">>), D("rel", "KNOWS", {5}),
       D("vrel", "REACHES", <<"ANY">>) >>
VirtualLines ==
    << Is("OP_CSR_WALK", <<"R1", "R0", "ANY">>), Is("OP_CSR_DEGREE",
       <<"REACHES", "R0", "KNOWS">>), Expects("{{", "FLAG", "ZF") >>

(* Defines relations, then fails: an unknown mnemonic. *)
BrokenDirs == << D("rel", "KNOWS", {7}), D("rel", "A", {8}) >>
BrokenLines == << Is("OP_NO_SUCH", <<>>) >>

(* Not self-contained: it names relations only other files bind. *)
LeakDirs == << D("vrel", "LIKES", <<"REACHES">>) >>
LeakLines ==
    << Is("OP_CSR_WALK", <<"R1", "R0", "KNOWS">>), Is("OP_CSR_WALK",
       <<"R1", "R0", "REACHES">>) >>

(* An array element that is not a number. *)
NoIntDirs == << D("int", "A", <<4, -1>>) >>

MCDirs == [graph |-> GraphDirs, wide |-> WideDirs,
           clash |-> ClashDirs, virtual |-> VirtualDirs, broken |-> BrokenDirs,
           leak |-> LeakDirs, noint |-> NoIntDirs]
MCLines == [graph |-> GraphLines, wide |-> RelsLines \o WideLines,
            clash |-> ClashLines, virtual |-> VirtualLines,
            broken |-> BrokenLines, leak |-> LeakLines, noint |-> <<>>]

MCRegKeys == {"R0", "R1"}
MCBadRegKeys == {"REG[R0]"}
MCOpcodes ==
    {Canonical(MCLines[f][p].code.op) :
        f \in {"graph"}, p \in {1}} \cup
    {Canonical(op) : op \in LayoutOps \cup BranchOps \cup InlineOps
        \cup MockAttrOps \cup ExtendedOps
        \cup {"OP_STABLE_CHECK", "OP_LOAD_CONST_FLOAT",
              "OP_FLOAT_VECTOR_SCALE", "OP_INIT_INPUT_NODE"}}
=============================================================================
