------------------------------- MODULE MCSuite -------------------------------
(* Small suites for Suite.                                                 *)
EXTENDS Suite, TLC

End(status, r0, r1, flags, pc) ==
    [status |-> status, regs |-> [r \in {0, 1} |-> IF r = 0 THEN r0 ELSE r1],
     flags |-> flags, pc |-> pc, depth |-> 0]
OK == "IMPULSE_VM_OK"
THROW == "IMPULSE_VM_ERR_USER_THROW"
GAS == "IMPULSE_VM_ERR_GAS_EXHAUSTED"

Good(ops, expect) ==
    [raises |-> FALSE, empty |-> FALSE, ops |-> ops, expect |-> expect]

MCOpcodes == {"OP_HALT", "OP_JMP"}
MCRegNo == [R0 |-> 0, R1 |-> 1, R64 |-> 64]

(* In sorted order: two plain vectors, one in two directories under one    *)
(* name, an endless loop with fuel, a throw, an empty file, a register     *)
(* past the bank, and one whose text may not parse.                        *)
FullOrder == <<"a", "b", "b2", "loop", "throw", "empty", "r64", "bad">>
MCNameOf == [a |-> "a", b |-> "b", b2 |-> "b", loop |-> "loop",
             throw |-> "throw", empty |-> "empty", r64 |-> "r64",
             bad |-> "bad"]
MCParse ==
    [a     |-> Good({"OP_HALT"}, [STATUS |-> OK, R1 |-> 7, ZF |-> FALSE]),
     b     |-> Good({"OP_HALT"}, [STATUS |-> OK, PC |-> 2]),
     b2    |-> Good({"OP_HALT", "OP_JMP"}, [STATUS |-> OK, CALL_STACK_DEPTH |-> 0]),
     loop  |-> Good({"OP_JMP"}, [STATUS |-> GAS, fuel |-> 3]),
     throw |-> Good({}, [STATUS |-> THROW, THROW_CODE |-> 9]),
     empty |-> [Good({}, [STATUS |-> OK]) EXCEPT !.empty = TRUE],
     r64   |-> Good({"OP_HALT"}, [STATUS |-> OK, R64 |-> 0]),
     bad   |-> [Good({}, [STATUS |-> OK]) EXCEPT !.raises = TRUE]]
MCHalts == [t \in DOMAIN MCParse |-> t # "loop"]
MCEnds ==
    [t \in DOMAIN MCParse |->
        CASE t = "a"     -> {End(OK, 0, 7, {}, 3), End(OK, 0, 7, {0}, 3),
                             End(OK, 0, 6, {}, 3)}
          [] t = "b"     -> {End(OK, 0, 0, {}, 2), End(OK, 0, 0, {}, 3)}
          [] t = "loop"  -> {End(GAS, 0, 0, {}, 1)}
          [] t = "throw" -> {End(THROW, 9, 0, {}, 1), End(OK, 9, 9, {}, 1),
                             End(THROW, 0, 9, {}, 1)}
          [] OTHER       -> {End(OK, 0, 0, {}, 0)}]

(* A suite that can be green: every vector parses and stays in the bank.   *)
GreenOrder == <<"a", "b", "b2", "loop", "throw", "empty">>
(* The same without the vector that gives OP_JMP its second file.          *)
ThinOrder == <<"a", "b", "b2", "empty">>

MCSuites == {FullOrder, GreenOrder, ThinOrder, <<>>}

(* A vector that asserts the stable flag.                                  *)
DocSuites == {<<"stable">>}
DocNameOf == [t \in {"stable"} |-> t]
DocParse == [stable |-> Good({"OP_HALT", "OP_JMP"}, [STATUS |-> OK, ST |-> TRUE])]
DocHalts == [t \in {"stable"} |-> TRUE]
DocEnds == [t \in {"stable"} |-> {End(OK, 0, 0, flags, 0) : flags \in SUBSET {1, 4}}]
=============================================================================
