-------------------------------- MODULE Layout --------------------------------
(***************************************************************************)
(* The binary structs of tools/codegen.py and the two layouts rendered     *)
(* from them: the packed C structs and the Java FFM struct layouts.        *)
(*                                                                         *)
(* A field is its element type and its length, 0 for a scalar; names and   *)
(* comments decide nothing.                                                *)
(***************************************************************************)
EXTENDS Integers, Sequences

Scalar(type) == [type |-> type, length |-> 0]
Array(type, length) == [type |-> type, length |-> length]
Types == {"uint8", "int8", "uint16", "int16", "uint32", "int32", "uint64", "int64"}
Fields == [type : Types, length : Nat]
ByteArray(f) == f.length > 0 => f.type \in {"uint8", "int8"}
U8 == Scalar("uint8")
U16 == Scalar("uint16")
U32 == Scalar("uint32")
U64 == Scalar("uint64")
Bytes(n) == Array("uint8", n)

(* get_v0_9_schema. *)
Structs ==
    [header |-> <<U32, U16, U32, U16, U16, U64, U64, U64, U64, Bytes(16), U16, Bytes(4032)>>,
     domain |-> <<U16, U8, U8, U32, U64>>,
     relation |-> <<U16, U16, U16, U8, U8, U8, Bytes(3), U32, U64, U64, U64,
                    U64, U64, U64, U64, U64, U64, U64, U64, U16, Bytes(22)>>,
     attribute |-> <<U32, U8, U8, U16, U32, U64, U64, U64, U64>>,
     trailer |-> <<U64, U32, U32>>]
ExpectedSize ==
    [header |-> 4096, domain |-> 16, relation |-> 128, attribute |-> 44, trailer |-> 16]

Width(type) ==
    CASE type \in {"uint8", "int8"} -> 1
      [] type \in {"uint16", "int16"} -> 2
      [] type \in {"uint32", "int32"} -> 4
      [] type \in {"uint64", "int64"} -> 8

(* render_cpp_header: an array keeps its element type.                     *)
CSize(f) == IF f.length > 0 THEN f.length * Width(f.type) ELSE Width(f.type)

(* Fault: 16-bit scalars rendered as ints. *)
JavaSizeShortAsInt(f) ==
    IF f.length > 0 THEN f.length
    ELSE IF f.type = "uint16" THEN 4 ELSE Width(f.type)
(* render_java_ffm: an array is that many JAVA_BYTE, whatever its elements *)
JavaSize(f) == IF f.length > 0 THEN f.length ELSE Width(f.type)
(* and a scalar is an aligned value layout.                                *)
JavaAlignment(f) == IF f.length > 0 THEN 1 ELSE Width(f.type)

(* Where members of these sizes start, one after the other, and where the  *)
(* last ends.                                                              *)
Starts(sizes) ==
    LET start[k \in 1..(Len(sizes) + 1)] == IF k = 1 THEN 0 ELSE start[k - 1] + sizes[k - 1]
    IN start

(* Fault: the C structs without #pragma pack. *)
CStartsUnpacked(fs) ==
    LET Aligned(at, f) == ((at + JavaAlignment(f) - 1) \div JavaAlignment(f)) * JavaAlignment(f)
        start[k \in 1..(Len(fs) + 1)] ==
            IF k = 1 THEN 0
            ELSE LET end == start[k - 1] + CSize(fs[k - 1])
                 IN IF k > Len(fs) THEN end ELSE Aligned(end, fs[k])
    IN start
(* #pragma pack(push, 1). *)
CStarts(fs) == Starts([k \in 1..Len(fs) |-> CSize(fs[k])])

JavaStarts(fs) == Starts([k \in 1..Len(fs) |-> JavaSize(fs[k])])

(* docs/FORMAT_SPECIFICATION.md: the byte offset tables of sections 2,     *)
(* 3.2, 3.3, 3.4 and 6.2.                                                  *)
Documented ==
    [header |-> <<0, 4, 6, 10, 12, 14, 22, 30, 38, 46, 62, 64>>,
     domain |-> <<0, 2, 3, 4, 8>>,
     relation |-> <<0, 2, 4, 6, 7, 8, 9, 12, 16, 24, 32, 40, 48, 56, 64, 72, 80, 88, 96,
                    104, 106>>,
     attribute |-> <<0, 4, 5, 6, 8, 12, 20, 28, 36>>,
     trailer |-> <<0, 8, 12>>]
=============================================================================
