-------------------------------- MODULE Codegen --------------------------------
(***************************************************************************)
(* main() of tools/codegen.py: load the schema, render it and write the    *)
(* generated files one after the other, in place.  The schema is a Python  *)
(* table that is edited between runs; spec/v0.9.0.yaml is not read.  A run *)
(* may be killed, and it raises where the Java renderer wants a number for *)
(* the length of an array.                                                 *)
(*                                                                         *)
(* Schemas are numbered in the order they are edited: number 0 is the      *)
(* table as committed, and every edit adds a field to a struct.            *)
(***************************************************************************)
EXTENDS Layout

CONSTANTS
    Added,        \* the fields that edits add to the table, in order
    Unrendered,   \* schemas with an array length that is not a number
    ABSENT, TORN

ASSUME SchemaAssumption ==
    /\ Added \in Seq(Fields)
    /\ ABSENT \notin Nat /\ TORN \notin Nat /\ ABSENT # TORN

(* The table after that many edits.                                        *)
Table(v) == [Structs EXCEPT !.domain = @ \o SubSeq(Added, 1, v)]

(* In the order they are written; the hub page does not depend on the      *)
(* schema and comes last.                                                  *)
Outputs == <<"impulse_format.h", "ImpulseLayouts.java", "spec.md", "web_spec.md">>
N == Len(Outputs)

VARIABLES
    table,         \* the schema in codegen.py
    loaded,        \* the schema a run works with
    next, open,    \* the output it writes next; it is open and truncated
    out            \* out[k]: the schema output k was generated from
vars == <<table, loaded, next, open, out>>

Stopped == next = 0
Init ==
    /\ table = 0 /\ loaded = 0
    /\ next = 0 /\ open = FALSE
    /\ out \in {[k \in 1..N |-> v] : v \in {0, ABSENT}}

EditTable ==
    /\ table < Len(Added) /\ table' = table + 1
    /\ UNCHANGED <<loaded, next, open, out>>

Start ==
    /\ Stopped /\ next' = 1 /\ loaded' = table
    /\ UNCHANGED <<table, open, out>>

(* Fault: the documents before the code. *)
WrittenBackwards(k) == N + 1 - k
(* The k-th output to be written. *)
Written(k) == k

Raises == next = 2 /\ ~open /\ loaded \in Unrendered
(* Render, then open for writing. *)
Open ==
    /\ next \in 1..N /\ ~open /\ ~Raises
    /\ open' = TRUE
    /\ out' = [out EXCEPT ![Written(next)] = TORN]
    /\ UNCHANGED <<table, loaded, next>>

(* Fault: the schema asked for again at every output. *)
FillReloaded ==
    /\ open /\ open' = FALSE
    /\ out' = [out EXCEPT ![Written(next)] = table]
    /\ next' = next + 1
    /\ UNCHANGED <<table, loaded>>
Fill ==
    /\ open /\ open' = FALSE
    /\ out' = [out EXCEPT ![Written(next)] = loaded]
    /\ next' = next + 1
    /\ UNCHANGED <<table, loaded>>

(* The hub page is written, and the run is over.                           *)
Finish ==
    /\ next = N + 1 /\ next' = 0
    /\ UNCHANGED <<table, loaded, open, out>>
(* A ValueError, a failed write or a signal ends the run where it is.      *)
Dies ==
    /\ next \in 1..(N + 1) /\ next' = 0 /\ open' = FALSE
    /\ UNCHANGED <<table, loaded, out>>

Next == EditTable \/ Start \/ Open \/ Fill \/ Finish \/ Dies
Spec == Init /\ [][Next]_vars

-----------------------------------------------------------------------------
(* Properties. *)

(* When all outputs of a run are written they are of one schema, the one   *)
(* the run began with, though the table was edited meanwhile and earlier   *)
(* runs died between two files.                                            *)
OneSchema == next = N + 1 => \A k \in 1..N : out[k] = loaded

(* Whoever compiles against the header of a finished run has every field   *)
(* where it is documented, with nothing but declaration order and packing  *)
(* to put it there.                                                        *)
CLayoutDocumented ==
    next = N + 1 /\ out[1] = 0 =>
        \A s \in DOMAIN Structs :
            CStarts(Table(out[1])[s]) = Append(Documented[s], ExpectedSize[s])

(* How far a program compiled against the header of a finished run and one *)
(* that uses its Java layouts agree, for any fields added to the table:    *)
(* they find a field (or the end of the struct) at the same byte if no     *)
(* array of elements wider than a byte comes before it, and never if one   *)
(* does.  codegen.py:218 keeps the element type of an array, :272 renders  *)
(* as many bytes as it has elements.                                       *)
SameOffsets ==
    next = N + 1 =>
        \A s \in DOMAIN Structs : \A k \in 1..(Len(Table(out[1])[s]) + 1) :
            JavaStarts(Table(out[2])[s])[k] = CStarts(Table(out[1])[s])[k]
                <=> \A j \in 1..(k - 1) : ByteArray(Table(out[1])[s][j])

(* A run that dies leaves a mixture, but never a document that is ahead of *)
(* the code: an output is of no later schema than those written before it. *)
Ahead(j, k) == out[k] \in Nat => out[j] = TORN \/ (out[j] \in Nat /\ out[j] >= out[k])
NeverAhead == \A j, k \in 1..N : j < k => Ahead(j, k)

(* README.md:20: an emitter for "Java FFM layout files", which             *)
(* templates/java_ffm.j2:27 spells with unaligned value layouts.           *)
(* MemoryLayout.structLayout refuses a member at an offset that is not a   *)
(* multiple of its alignment: the generated class can be initialised.      *)
JavaLayoutsLoad ==
    next = N + 1 =>
        \A s \in DOMAIN Structs : \A k \in 1..Len(Table(out[2])[s]) :
            JavaStarts(Table(out[2])[s])[k] % JavaAlignment(Table(out[2])[s][k]) = 0
=============================================================================
