---------------------------- MODULE MCComparers ----------------------------
(* ThreeWay: vectors that agree, differ in a field or in a register one    *)
(* engine does not print, crash an engine, do not parse or have no         *)
(* instruction.  Parity: the four expressions of the script and two        *)
(* programs.                                                               *)
EXTENDS Comparers, TLC

CONSTANTS crash, empty

MCExpressions == <<"filter age", "project fuel", "filter sqrt", "project visited">>

MCFields == {"status", "pc", "zf", "st"}
MCRegs == {0, 5}
State(pc, regs) ==
    [status |-> "IMPULSE_VM_OK", pc |-> pc, zf |-> FALSE, st |-> FALSE, regs |-> regs]
All(r0, r5) == 0 :> r0 @@ 5 :> r5
Ends == {State(2, All(7, 0)), State(2, All(7, 1)), State(2, 0 :> 7)}
MCRuns ==
    [cpp |-> [a |-> Ends \ {State(2, 0 :> 7)}, b |-> {State(3, All(0, 0))},
              bad |-> {crash}, none |-> {empty}],
     java |-> [a |-> Ends, b |-> {State(3, <<>>), crash}, bad |-> {crash},
               none |-> {State(0, <<>>)}],
     ocaml |-> [a |-> Ends \cup {crash}, b |-> {State(3, 5 :> 0), State(2, 5 :> 0)},
                bad |-> {crash}, none |-> {State(0, <<>>)}]]
MCSuites == {<<"a", "b">>, <<"a", "bad", "b", "none">>, <<"none">>, <<>>}
=============================================================================
