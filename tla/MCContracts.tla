------------------------------ MODULE MCContracts ------------------------------
(* The rows of tools/contracts.json whose mnemonics _format_instruction    *)
(* has a text form for, and one row without, for Fuzzer.                   *)
EXTENDS Fuzzer, TLC

MCTypes ==
    {"NULL", "INT64", "NODE_ID", "BITSET", "NODE_VECTOR", "BOOLEAN", "FLOAT",
     "DOUBLE", "FLOAT_VECTOR", "DOUBLE_VECTOR", "UINT64_VECTOR", "LANE", "REL",
     "CSR_SPAN", "VALUE_MAP", "STRING_VECTOR", "FRONTIER"}
MCRegs == 0..6 \cup {10, 11}
MCDstRegs == {10, 11}
MCPreamble ==
    [r \in MCRegs |->
        CASE r = 1 -> "INT64" [] r = 2 -> "FLOAT" [] r = 3 -> "NODE_ID"
          [] r = 4 -> "BITSET" [] r = 5 -> "FLOAT_VECTOR" [] r = 6 -> "NODE_VECTOR"
          [] OTHER -> "NULL"]

Row(op, flags, src, aux1, out) ==
    [op |-> op, flags |-> flags, src |-> src, aux1 |-> aux1, aux2 |-> {},
     skip1 |-> FALSE, skip2 |-> FALSE, out |-> out, modifies |-> out # {}]
Unary(ops, flags, src, out) == {Row(op, f, src, {}, out) : op \in ops, f \in flags}
Binary(ops, src, out) == {Row(op, 0, src, src, out) : op \in ops}

Walkable == {"NULL", "INT64", "NODE_ID", "BITSET", "NODE_VECTOR", "UINT64_VECTOR"}
Unionable == Walkable \cup {"FLOAT", "DOUBLE", "FLOAT_VECTOR", "DOUBLE_VECTOR"}
Floating == {"FLOAT", "FLOAT_VECTOR", "DOUBLE_VECTOR"}
Vectors == {"NODE_VECTOR", "UINT64_VECTOR"}
Comparable == Floating \cup Vectors \cup {"INT64", "NODE_ID"}
Whole == {"INT64", "NODE_ID"}

(* A scaling by a constant, which no text form selects: it asks nothing.   *)
ScaleByConstant == Row("OP_FLOAT_VECTOR_SCALE", 0, {}, {}, {})
AdaptiveWalk == Row("OP_ADAPTIVE_WALK", 0, Walkable, {}, {})
ReduceSum ==
    Row("OP_VECTOR_REDUCE_SUM", 0, {"FLOAT", "DOUBLE", "FLOAT_VECTOR", "DOUBLE_VECTOR"}, {},
        {"FLOAT", "DOUBLE"})
AnnFrontier == Row("OP_VECTOR_ANN_SEARCH", 1, {"FLOAT_VECTOR"}, {}, {"LANE"})

ShippedRows ==
    Unary({"OP_LOAD_CONST_INT"}, {0}, {}, {"INT64"})
    \cup Unary({"OP_LOAD_CONST_FLOAT"}, {0}, {}, {"FLOAT"})
    \cup Unary({"OP_CLEAR_REG"}, {0}, {}, {"NULL"})
    \cup Unary({"OP_MOV"}, {0}, MCTypes, MCTypes)
    \cup Unary({"OP_ASSERT"}, {0}, Whole \cup {"BOOLEAN", "FLOAT"}, {})
    \cup Unary({"OP_CSR_WALK"}, {0, 4}, Walkable, {"BITSET"})
    \cup Unary({"OP_CSC_WALK"}, {0}, Walkable, {"BITSET"})
    \cup Unary({"OP_CSR_DEGREE"}, {0}, Whole \cup {"BITSET"}, {"INT64"})
    \cup Unary({"OP_SET_CARDINALITY"}, {0}, Walkable \ {"NULL"}, {"INT64"})
    \cup Unary({"OP_EXTRACT_VALIDITY"}, {0}, Vectors \cup {"FLOAT_VECTOR", "DOUBLE_VECTOR"},
               {"BITSET"})
    \cup Unary({"OP_VEC_MATH_UNARY"}, {0}, Floating, Floating)
    \cup Unary({"OP_FLOAT_VECTOR_SCALE"}, {1}, Whole \cup {"FLOAT", "DOUBLE"}, {})
    \cup Unary({"OP_LANE_INIT_SEEDS"}, {0}, Walkable, {"LANE"})
    \cup Unary({"OP_LANE_INIT_SEEDS"}, {1}, {}, {"LANE"})
    \cup Unary({"OP_LANE_INIT_GROUPS"}, {0, 1}, Vectors, {"LANE"})
    \cup Unary({"OP_LANE_CSR_WALK", "OP_LANE_CSC_WALK"}, {0, 1}, {"LANE"}, {"LANE"})
    \cup Unary({"OP_LANE_FILTER_QUORUM"}, {0}, {"LANE"}, {"BITSET"})
    \cup Unary({"OP_LANE_REDUCE_AND"}, {0, 1, 2}, {"LANE"}, {"INT64"})
    \cup Unary({"OP_VECTOR_ANN_SEARCH"}, {0}, {"FLOAT_VECTOR"}, {"BITSET"})
    \cup Binary({"OP_SET_UNION", "OP_SET_INTERSECT", "OP_SET_DIFFERENCE"}, Unionable, {"BITSET"})
    \cup Binary({"OP_VEC_CMP_EQ", "OP_VEC_CMP_GT", "OP_VEC_CMP_LT"}, Comparable, {"BITSET"})
    \cup Binary({"OP_VEC_MATH_BINARY"}, Floating, Floating)
    \cup Binary({"OP_VECTOR_DIV"}, {"FLOAT_VECTOR"}, {"FLOAT_VECTOR"})
    \cup {ScaleByConstant, AdaptiveWalk, ReduceSum, AnnFrontier,
          Row("OP_VECTOR_RERANK_DOT", 0, {"BITSET", "LANE"}, {"FLOAT_VECTOR"}, {"FLOAT_VECTOR"}),
          [Row("OP_LANE_FILTER_QUORUM", 1, {"LANE"}, Whole, {"BITSET"})
             EXCEPT !.aux2 = Whole, !.skip1 = TRUE, !.skip2 = TRUE]}
=============================================================================
