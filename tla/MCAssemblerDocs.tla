--------------------------- MODULE MCAssemblerDocs ---------------------------
(* A graph that lists the row of node 1 before the row of node 0.          *)
EXTENDS Assembler

Literal == [lit |-> {}, flt |-> {}, bad |-> FALSE, badflt |-> TRUE,
            reg |-> FALSE, hex |-> FALSE]
RowOf(src, tgts) == [src |-> src, tgts |-> tgts]

DocFile == {"graph"}
DocLex == [R0 |-> [Literal EXCEPT !.reg = TRUE], G |-> Literal]
DocDirs ==
    [graph |-> <<[kind |-> "csr", name |-> "G",
                  body |-> <<RowOf(1, <<0>>), RowOf(0, <<1, 1>>)>>]>>]
DocLines ==
    [graph |-> <<[assert |-> [form |-> "", key |-> "", val |-> 0, int |-> TRUE],
                  code |-> [kind |-> "instr", op |-> "OP_INIT_MOCK_GRAPH",
                            toks |-> <<"R0", "G">>]]>>]
DocRegKeys == {"R0"}
DocBadRegKeys == {"REG[R0]"}
DocOpcodes == {"OP_INIT_MOCK_GRAPH"}
=============================================================================
