------------------------------ MODULE MCCodegen ------------------------------
(* Five edits of the table: a scalar of each unaligned size, an array of   *)
(* bytes and one of wider elements between them; the length of the last    *)
(* array is a name, so that no schema from then on renders.                *)
EXTENDS Codegen

added == <<U16, Bytes(3), Array("uint16", 2), U64, Bytes(1)>>
=============================================================================
