------------------------------ MODULE MCFourWay ------------------------------
(* Two plain vectors, an empty one and one that does not parse.            *)
EXTENDS FourWay, TLC

CONSTANTS p1, p2, old, empty, absent, crash

MCFields == {"status", "pc", "zf", "st", "hash"}
MCRegs == {0, 5}
State(status, pc, hash, r0, r5, t5) ==
    [status |-> status, pc |-> pc, zf |-> FALSE, st |-> FALSE, hash |-> hash,
     regs |-> [r \in MCRegs |-> IF r = 0 THEN r0 ELSE r5],
     types |-> [r \in MCRegs |-> IF r = 0 THEN 1 ELSE t5]]
OK == "IMPULSE_VM_OK"

(* p1 ends with a bitset in R5, whose handle is an address; an engine may  *)
(* leave another R0.  p2 may end early, or in another scalar.              *)
P1(handle) == {State(OK, 2, "h1", 7, handle, 4), State(OK, 2, "h1", 6, handle, 4)}
P2 == {State(OK, 3, "h2", 0, 1, 1), State(OK, 2, "h3", 0, 1, 1), State(OK, 3, "h2", 0, 2, 1)}
MCRuns ==
    [e \in {"on", "off", "java", "ocaml"} |->
        (p1 :> (P1(IF e = "java" THEN 100 ELSE 200)
                \cup IF e = "ocaml" THEN {crash} ELSE {}))
        @@ (p2 :> (P2 \cup IF e = "java" THEN {crash} ELSE {}))
        @@ (old :> P1(300))]
Header(status, regs) == [status |-> status, regs |-> regs]
MCParse ==
    [a |-> [raises |-> FALSE, code |-> p1], b |-> [raises |-> FALSE, code |-> p2],
     none |-> [raises |-> FALSE, code |-> empty],
     bad |-> [raises |-> TRUE, code |-> empty]]
MCExpect ==
    [a |-> Header("SUCCESS", 0 :> 7), b |-> Header(OK, <<>>),
     none |-> Header(OK, <<>>), bad |-> Header(OK, <<>>)]
MCStale == {old}
MCSuites == {<<"a", "b">>, <<"a", "bad", "b", "none">>}
=============================================================================
