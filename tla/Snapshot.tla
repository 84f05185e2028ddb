------------------------------ MODULE Snapshot ------------------------------
(***************************************************************************)
(* The snapshot vectors that tools/generate_string_fuzz_vectors.py (tc32   *)
(* to tc36) and tools/generate_null_vectors.py (tc37) build byte by byte.  *)
(*                                                                         *)
(* The 64 active bytes of the header are bytes; everything else is a       *)
(* sequence of segments, a part of known size with what the reader takes   *)
(* from it (a length, the pool, the offset of a name).  The order of the   *)
(* scripts' calls, which no test looks at, is kept.                        *)
(***************************************************************************)
EXTENDS Integers, Sequences, SequencesExt

CONSTANTS
    TORN,    \* a file opened for writing
    DEATHS   \* bound: how often a script dies

OLD == <<>>            \* a file as committed, of which nothing is looked at
LARGE == 2147483647    \* bound: stands for 0xFFFFFFFF
NUL == 0
TEXT == 65
NOTUTF8 == 255
Text(n) == [k \in 1..n |-> TEXT]

Strings == <<"tc32", "tc33", "tc34", "tc35", "tc36">>
Nulls == <<"tc37">>
Vectors == ToSet(Strings \o Nulls)

Status == [tc32 |-> "STRING_OFFSET_OUT_OF_BOUNDS", tc33 |-> "STRING_UNTERMINATED",
           tc34 |-> "STRING_TABLE_OVERFLOW", tc35 |-> "INVALID_UTF8_STRING",
           tc36 |-> "EMPTY_STRING_POOL", tc37 |-> "OK"]
Pool == [tc32 |-> <<NUL>> \o Text(4) \o <<NUL>>, tc33 |-> Text(29),
         tc34 |-> <<NUL>> \o Text(4) \o <<NUL>>,
         tc35 |-> <<NUL, NOTUTF8, NOTUTF8, NOTUTF8, NOTUTF8, NUL>>, tc36 |-> <<>>,
         tc37 |-> <<NUL>> \o Text(3) \o <<NUL>> \o Text(7) \o <<NUL>>]
Name == [tc32 |-> LARGE, tc33 |-> 0, tc35 |-> 1, tc36 |-> 0, tc37 |-> 1]
Entities == 5000

(* Fault: the length counts its own four bytes. *)
LengthWithPrefix(v) == IF v = "tc34" THEN LARGE ELSE Len(Pool[v]) + 4
(* StringTableBytes. *)
Length(v) == IF v = "tc34" THEN LARGE ELSE Len(Pool[v])

-----------------------------------------------------------------------------
(* crc16, the register and the bytes as the sets of their one bits.  (The  *)
(* UNION of one set makes TLC compute it before it goes on.)               *)
Bits(n) == {e \in 0..15 : (n \div 2^e) % 2 = 1}
Number(bits) ==
    LET number[k \in 0..16] ==
            IF k = 0 THEN 0 ELSE 2 * number[k - 1] + IF 16 - k \in bits THEN 1 ELSE 0
    IN number[16]
Shift(crc) ==
    LET left == {e + 1 : e \in crc \ {15}}
    IN IF 15 \in crc THEN SymDiff(left, {12, 5, 0}) ELSE left
Crc16(bytes) ==
    LET Eight(c) == Shift(Shift(Shift(Shift(Shift(Shift(Shift(Shift(c))))))))
        Xor(c, b) == SymDiff(c, {e + 8 : e \in Bits(b)})
        crc[k \in 0..Len(bytes)] ==
            IF k = 0 THEN 0..15
            ELSE UNION {Eight(Xor(c, bytes[k])) : c \in {crc[k - 1]}}
    IN crc[Len(bytes)]

(* Segments, and the calls of the scripts.                                 *)
Segment(part, size, value) == [part |-> part, size |-> size, value |-> value]
Size(segments) ==
    LET size[k \in 0..Len(segments)] == IF k = 0 THEN 0 ELSE size[k - 1] + segments[k].size
    IN size[Len(segments)]
(* Fault: extended by the remainder. *)
PaddingOfRemainder(n, align) == n % align
(* align_buffer. *)
Padding(n, align) == IF n % align = 0 THEN 0 ELSE align - (n % align)

Pack(at, bytes) == [call |-> "pack", at |-> at, bytes |-> bytes]
PackSize(at) == [call |-> "size", at |-> at]
Sum == [call |-> "sum"]
Extend(b, part, size, value) ==
    [call |-> "extend", buf |-> b, segment |-> Segment(part, size, value)]
Align(b, n) == [call |-> "align", buf |-> b, align |-> n]
Join(b) == [call |-> "join", buf |-> b]
Write(file) == <<[call |-> "open", file |-> file], [call |-> "write", file |-> file]>>

Quad(n) == <<n % 256, (n \div 256) % 256, 0, 0, 0, 0, 0, 0>>
Header(v) ==
    <<Pack(0, <<83, 80, 77, 73>>), Pack(4, <<9, 0>>), Pack(6, <<0, 16, 0, 0>>),
      Pack(10, <<1, 0>>), Pack(12, <<IF v = "tc37" THEN 1 ELSE 0, 0>>)>>
    \o IF v \in {"tc34", "tc36"} THEN <<>>
       ELSE <<Pack(14, <<0, 104, 229, 207, 139, 1, 0, 0>>), Pack(22, Quad(1))>>

StringTable(v) ==
    <<Extend("dir", "length", 4, <<Length(v)>>), Extend("dir", "pool", Len(Pool[v]), Pool[v])>>
Catalog(v) ==
    IF v = "tc34" THEN <<>>
    ELSE <<Align("dir", 128), Extend("dir", "domain", 16, <<Name[v]>>)>>

(* Fault: the manifest before the snapshot. *)
FilesManifestFirst == Write("manifest") \o Write("snapshot")
(* What the string vectors are saved as. *)
Files == Write("snapshot") \o Write("manifest")

(* build_v09_snapshot, and tc34 and tc36 spelled out in main.              *)
StringVector(v) ==
    Header(v) \o <<Sum>> \o StringTable(v) \o Catalog(v)
    \o <<Align("dir", 4096), Join("hdr"), Join("dir")>> \o Files

Relation ==
    <<Align("dir", 128), Extend("dir", "relation", 128, <<1>>),
      Extend("dir", "attribute", 44, <<5>>), Align("dir", 128)>>
(* Fault: the directory's place filled in after the checksum. *)
SealTooEarly == <<Sum, Pack(30, Quad(4096)), PackSize(38)>>
(* Where the directory is, and the checksum. *)
Seal == <<Pack(30, Quad(4096)), PackSize(38), Sum>>
Attribute ==
    <<Extend("data", "validity", 768, <<>>), Extend("data", "values", Entities * 4, <<>>),
      Align("data", 4096)>>

(* build_null_snapshot.                                                    *)
NullVector(v) ==
    Header(v) \o StringTable(v) \o Catalog(v) \o Relation \o Seal \o Attribute
    \o <<Join("hdr"), Join("dir"), Align("full", 8192), Join("data")>> \o Write("snapshot")

Program(v) == IF v = "tc37" THEN NullVector(v) ELSE StringVector(v)

-----------------------------------------------------------------------------
VARIABLES
    todo,      \* the vectors the running script has still to build
    pc,        \* the next call for the first of them
    hdr, buf,  \* the header's active bytes; the buffers
    disk,      \* disk[v]: the vector's two files
    deaths     \* how often a script has died
vars == <<todo, pc, hdr, buf, disk, deaths>>

This == Head(todo)
Call == Program(This)[pc]
Running(call) == todo # <<>> /\ pc <= Len(Program(This)) /\ Call.call = call

NewHeader == [k \in 0..63 |-> 0]
NewBuffers == [dir |-> <<>>, data |-> <<>>, full |-> <<>>]
Manifest(v, relations, digest) ==
    [status |-> Status[v], domains |-> 1, relations |-> relations, sha256 |-> digest]

Init ==
    /\ todo = <<>> /\ pc = 1 /\ hdr = NewHeader /\ buf = NewBuffers
    /\ deaths = 0
    /\ disk = [v \in Vectors |-> [snapshot |-> OLD, manifest |-> Manifest(v, 0, OLD)]]

Start(script) ==
    /\ todo = <<>> /\ todo' = script
    /\ UNCHANGED <<pc, hdr, buf, disk, deaths>>

Packed(at, bytes) ==
    [k \in 0..63 |-> IF k - at \in 0..(Len(bytes) - 1) THEN bytes[k - at + 1] ELSE hdr[k]]
DoPack ==
    /\ Running("pack") /\ hdr' = Packed(Call.at, Call.bytes) /\ pc' = pc + 1
    /\ UNCHANGED <<todo, buf, disk, deaths>>
DoSize ==
    /\ Running("size") /\ hdr' = Packed(Call.at, Quad(Size(buf.dir))) /\ pc' = pc + 1
    /\ UNCHANGED <<todo, buf, disk, deaths>>
DoSum ==
    /\ Running("sum") /\ pc' = pc + 1
    /\ LET crc == Number(Crc16([k \in 1..62 |-> hdr[k - 1]]))
       IN hdr' = Packed(62, <<crc % 256, crc \div 256>>)
    /\ UNCHANGED <<todo, buf, disk, deaths>>

Grow(b, segments) ==
    /\ buf' = [buf EXCEPT ![b] = @ \o segments] /\ pc' = pc + 1
    /\ UNCHANGED <<todo, hdr, disk, deaths>>
DoExtend == Running("extend") /\ Grow(Call.buf, <<Call.segment>>)
DoAlign ==
    /\ Running("align")
    /\ Grow(Call.buf, <<Segment("pad", Padding(Size(buf[Call.buf]), Call.align), <<>>)>>)
DoJoin ==
    /\ Running("join")
    /\ Grow("full", IF Call.buf = "hdr"
                    THEN <<Segment("header", 4096, [k \in 1..64 |-> hdr[k - 1]])>>
                    ELSE buf[Call.buf])

DoOpen ==
    /\ Running("open") /\ disk' = [disk EXCEPT ![This][Call.file] = TORN] /\ pc' = pc + 1
    /\ UNCHANGED <<todo, hdr, buf, deaths>>
DoWrite ==
    /\ Running("write") /\ pc' = pc + 1
    /\ disk' = [disk EXCEPT ![This][Call.file] =
                    IF Call.file = "snapshot" THEN buf.full ELSE Manifest(This, 0, buf.full)]
    /\ UNCHANGED <<todo, hdr, buf, deaths>>

Over(rest) ==
    /\ todo' = rest /\ pc' = 1 /\ hdr' = NewHeader /\ buf' = NewBuffers
    /\ UNCHANGED disk
Built == todo # <<>> /\ pc > Len(Program(This)) /\ Over(Tail(todo)) /\ UNCHANGED deaths
Dies == todo # <<>> /\ deaths < DEATHS /\ Over(<<>>) /\ deaths' = deaths + 1

Next ==
    \/ Start(Strings) \/ Start(Nulls)
    \/ DoPack \/ DoSize \/ DoSum
    \/ DoExtend \/ DoAlign \/ DoJoin
    \/ DoOpen \/ DoWrite
    \/ Built \/ Dies
Spec == Init /\ [][Next]_vars

-----------------------------------------------------------------------------
(* Properties: what a reader of docs/FORMAT_SPECIFICATION.md makes of the  *)
(* snapshots.                                                              *)
New(v) == disk[v].snapshot \notin {OLD, TORN}
Place(v, part) == SelectInSeq(disk[v].snapshot, LAMBDA s : s.part = part)
Value(v, part) == disk[v].snapshot[Place(v, part)].value
Starts(v, part) ==
    {Size(SubSeq(disk[v].snapshot, 1, k - 1)) :
        k \in {j \in DOMAIN disk[v].snapshot : disk[v].snapshot[j].part = part}}
Word(v, at) == Value(v, "header")[at + 1] + 256 * Value(v, "header")[at + 2]
Aligned(n) == ((n + 127) \div 128) * 128

(* CRC-16-CCITT, by the book: the message, with 0xFFFF before it, is a     *)
(* polynomial over the bits, a set of exponents; its remainder modulo      *)
(* x^16 + x^12 + x^5 + 1 is taken byte by byte.                            *)
Reduce(P) ==
    LET Divide(e, r) == IF e \in r THEN SymDiff(r, {e, e - 4, e - 11, e - 16}) ELSE r
    IN Divide(16, Divide(17, Divide(18, Divide(19,
           Divide(20, Divide(21, Divide(22, Divide(23, P))))))))
Ccitt(bytes) ==
    LET Times(P, k) == {e + k : e \in P}
        rest[k \in 0..Len(bytes)] ==
            IF k = 0 THEN 0..15
            ELSE UNION {Reduce(SymDiff(Times(r, 8), Times(Bits(bytes[k]), 16))) :
                            r \in {rest[k - 1]}}
    IN rest[Len(bytes)]

(* Section 2: whenever no script is running, the checksum of every header  *)
(* saved is the CRC-16-CCITT of the 62 bytes before it, whichever fields   *)
(* were packed last.                                                       *)
ChecksumVerifies ==
    todo = <<>> =>
        \A v \in Vectors : New(v) =>
            Bits(Word(v, 62)) = Ccitt(SubSeq(Value(v, "header"), 1, 62))

(* Section 3: the reader computes where the string table, the catalog, the *)
(* relations and the attributes begin from DataOffset, the stored length   *)
(* and the header's counts, and finds each of them there.                  *)
SectionsFound ==
    \A v \in Vectors \ {"tc34"} : New(v) =>
        LET table == Word(v, 6)
            catalog == Aligned(table + 4 + Value(v, "length")[1])
            relations == Aligned(catalog + 16 * Word(v, 10))
            attributes == relations + 128 * Word(v, 12)
        IN /\ Starts(v, "length") = {table}
           /\ Starts(v, "domain") = {catalog}
           /\ Word(v, 12) > 0 =>
                 /\ Starts(v, "relation") = {relations}
                 /\ Starts(v, "attribute") = {attributes}
                 /\ Starts(v, "validity") = {8192}

(* The document's rules on the string table and the names (section 3.1)    *)
(* and on the end of the file (6.2) that a snapshot breaks: all of them,   *)
(* in no order.  The pool is judged if the table fits in the file and has  *)
(* one; what a reader sees past it is padding.                             *)
Rules == {"STRING_TABLE_OVERFLOW", "EMPTY_STRING_POOL", "LEADING_NUL",
          "STRING_OFFSET_OUT_OF_BOUNDS", "STRING_UNTERMINATED", "INVALID_UTF8_STRING",
          "FOOTER_TRAILER"}
Names(v) ==
    {Value(v, p)[1] : p \in {q \in {"domain", "relation", "attribute"} : Place(v, q) # 0}}
Byte(v, k) == IF k < Len(Value(v, "pool")) THEN Value(v, "pool")[k + 1] ELSE NUL
Breaks(v, rule) ==
    LET length == Value(v, "length")[1]
        room == Size(disk[v].snapshot) - Word(v, 6) - 4
        judged == length \in 1..room
        Inside == {o \in Names(v) : o < length}
        Ends(o) == {k \in o..(length - 1) : Byte(v, k) = NUL}
        Read(o) == {k \in o..(length - 1) : \A j \in Ends(o) : k < j}
    IN CASE rule = "STRING_TABLE_OVERFLOW" -> length > room
         [] rule = "EMPTY_STRING_POOL" -> length = 0
         [] rule = "LEADING_NUL" -> judged /\ Byte(v, 0) # NUL
         [] rule = "STRING_OFFSET_OUT_OF_BOUNDS" -> judged /\ Names(v) # Inside
         [] rule = "STRING_UNTERMINATED" -> judged /\ \E o \in Inside : Ends(o) = {}
         [] rule = "INVALID_UTF8_STRING" ->
               judged /\ \E o \in Inside : \E k \in Read(o) : Byte(v, k) = NOTUTF8
         [] rule = "FOOTER_TRAILER" -> Last(disk[v].snapshot).part # "trailer"

(* Which rules each vector breaks: the one its manifest names, and those   *)
(* the scripts do not mention.  No vector ends with the 16-byte trailer of *)
(* FORMAT_SPECIFICATION.md:328, so that tc37, whose manifest says OK, is   *)
(* compliant but for that; and the pool of tc33 does not begin with the    *)
(* NUL of :88.  A reader that checks those first stops there.              *)
Unnamed(v) == {"FOOTER_TRAILER"} \cup IF v = "tc33" THEN {"LEADING_NUL"} ELSE {}
NamedDefect ==
    \A v \in Vectors : New(v) =>
        {r \in Rules : Breaks(v, r)} = ({Status[v]} \ {"OK"}) \cup Unnamed(v)

(* However often scripts die, a manifest that is not the committed one has *)
(* the digest and the counts of the snapshot beside it, if that is whole;  *)
(* and a manifest is begun only when the committed snapshot is gone.       *)
ManifestNotAhead ==
    \A v \in Vectors :
        LET m == disk[v].manifest
        IN /\ m = TORN => disk[v].snapshot # OLD
           /\ m # TORN /\ disk[v].snapshot # TORN =>
                 \/ m.sha256 = OLD
                 \/ /\ m.sha256 = disk[v].snapshot
                    /\ m.domains = Word(v, 10) /\ m.relations = Word(v, 12)
=============================================================================
