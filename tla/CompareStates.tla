---------------------------- MODULE CompareStates ----------------------------
(***************************************************************************)
(* compare_state of tools/four_way_validation.py, which the contract       *)
(* fuzzer imports: what makes the final states of the four engines differ. *)
(* A state is a record of the compared fields, the registers (regs) and    *)
(* their type tags (types).                                                *)
(***************************************************************************)
EXTENDS Integers

CONSTANTS
    Regs,      \* 0..63
    Fields     \* what is compared besides the registers

Engines == {"on", "off", "java", "ocaml"}

(* Fault: the unoptimized library compared with nothing. *)
OneDiffersIgnoresOff(v) == v["on"] # v["java"] \/ v["on"] # v["ocaml"]
(* Three of the six pairs are compared. *)
OneDiffers(v) == v["on"] # v["java"] \/ v["on"] # v["ocaml"] \/ v["off"] # v["java"]

(* Registers whose type is at least 4 on the optimized library hold        *)
(* pointers and handles, which differ from engine to engine.               *)
Scalar(s) == {r \in Regs : s.types[r] < 4}
Mismatch(s) ==
    \/ \E f \in Fields : OneDiffers([e \in Engines |-> s[e][f]])
    \/ \E r \in Scalar(s["on"]) : OneDiffers([e \in Engines |-> s[e].regs[r]])

(* The names a header may give to the status of a run that went well. *)
Aliases == {"IMPULSE_VM_SUCCESS", "SUCCESS", "0"}
Wanted(f, x) == IF f = "status" /\ x \in Aliases THEN "IMPULSE_VM_OK" ELSE x
(* The header expectations that compare_state looks at: the four compared  *)
(* fields and registers; an empty status expects nothing.                  *)
Expected(expect) ==
    {f \in (Fields \ {"hash"}) \cap DOMAIN expect : f = "status" => expect[f] # ""}
Unmet(s, expect) ==
    \/ \E f \in Expected(expect) : s[f] # Wanted(f, expect[f])
    \/ \E r \in DOMAIN expect.regs : s.regs[r] # expect.regs[r]

(* What a pass claims ("All 4 match"): whichever two engines are taken.    *)
Agree(s) ==
    \A d, e \in Engines :
        /\ \A f \in Fields : s[d][f] = s[e][f]
        /\ \A r \in Scalar(s["on"]) : s[d].regs[r] = s[e].regs[r]
=============================================================================
