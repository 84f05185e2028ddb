----------------------------- MODULE MCCampaign -----------------------------
(* Programs on which the engines agree, may differ, or one of them fails.  *)
EXTENDS Campaign, TLC

CONSTANTS same, split, fails, longer, absent, empty, crash, p, q

MCFields == {"hash"}
State(h) == [hash |-> h, regs |-> <<>>, types |-> <<>>]
Always(h) == {State(h)}
MCRuns ==
    [e \in {"on", "off", "java", "ocaml"} |->
        same :> Always("h1")
        @@ split :> (IF e = "ocaml" THEN {State("h2"), State("h3")} ELSE Always("h2"))
        @@ fails :> (IF e = "java" THEN {crash} ELSE Always("h4"))
        @@ longer :> (IF e = "off" THEN Always("h6") ELSE Always("h5"))]
MCMixed == {crash, State("h2")}
MCProg ==
    <<1, 12>> :> same @@ <<2, 12>> :> split @@ <<3, 12>> :> fails @@
    <<2, 40>> :> longer @@ <<3, 40>> :> same
Line(seed, iterations, max) == [seed |-> seed, iterations |-> iterations, max |-> max]

(* Either one process is all there is, killed and started again, or two    *)
(* are on at once, on the same and on different programs.                  *)
TwoProcs == {p, q}
Alike == Permutations(TwoProcs)
AloneArgs == {Line(1, 3, 12), Line(2, 2, 40), Line(2, 1, 12)}
TogetherArgs == {Line(1, 2, 12), Line(2, 1, 40)}
MCArgs == AloneArgs \cup TogetherArgs

Situation ==
    IF alone
    THEN \A r \in Procs : at'[r] \notin Idle => args'[r] \in AloneArgs
    ELSE /\ starts' <= 2 /\ mishaps' = 0
         /\ \A r \in Procs : at'[r] \notin Idle => args'[r] \in TogetherArgs
MCSpec == Init /\ [][Next /\ Situation]_vars
=============================================================================
