---------------------------- MODULE CodegenProofs ----------------------------
(***************************************************************************)
(* Proofs about Codegen, for every sequence of edits of the table, whatever*)
(* fields they add, and however runs are killed; and about the offsets of  *)
(* the committed structs.                                                  *)
(***************************************************************************)
EXTENDS Codegen, WellFoundedInduction, TLAPS

(* Offsets.  Starts is defined by recursion on the place of a member; the  *)
(* library states induction for an operator P(_), here it is stated for a  *)
(* set, from the well-foundedness of < on Nat.                             *)
LEMMA SetInduction ==
    ASSUME NEW S, 0 \in S, \A n \in Nat : n \in S => n + 1 \in S
    PROVE  Nat \subseteq S
<1> SUFFICES ASSUME NEW m \in Nat, m \notin S PROVE FALSE
  OBVIOUS
<1> DEFINE T == Nat \ S
           R == OpToRel(<, Nat)
<1>1. T \subseteq Nat /\ T # {}
  OBVIOUS
<1>2. IsWellFoundedOn(R, Nat)
  BY NatLessThanWellFounded DEF OpToRel
<1> HIDE DEF R, T
<1>3. PICK x \in T : \A y \in T : ~ (<<y, x>> \in R)
  BY <1>1, <1>2, WFMin
<1>4. x \in Nat /\ x \notin S /\ x # 0 /\ x - 1 \in Nat
  BY DEF T
<1>5. x - 1 \in S
  <2>1. <<x - 1, x>> \in R
    BY <1>4 DEF R, OpToRel
  <2> QED BY <1>3, <1>4, <2>1 DEF T
<1> QED BY <1>4, <1>5

(* Numbers that begin at 0 and grow by the size of each member are where   *)
(* the members start.                                                      *)
LEMMA StartsAre ==
    ASSUME NEW sizes, NEW w, NEW n \in Nat, Len(sizes) = n,
           w = [k \in 1..(n + 1) |-> w[k]],
           w[1] = 0, \A k \in 1..n : w[k + 1] = w[k] + sizes[k]
    PROVE  Starts(sizes) = w
<1> DEFINE Begins(g) == g = [k \in 1..(n + 1) |-> IF k = 1 THEN 0 ELSE g[k - 1] + sizes[k - 1]]
           g == Starts(sizes)
<1>1. g = CHOOSE f : Begins(f)
  BY DEF Starts
<1>2. Begins(w)
  <2>1. ASSUME NEW k \in 1..(n + 1)
        PROVE  w[k] = IF k = 1 THEN 0 ELSE w[k - 1] + sizes[k - 1]
    <3>1. CASE k = 1
      BY <3>1
    <3>2. CASE k # 1
      <4>1. k - 1 \in 1..n /\ (k - 1) + 1 = k
        BY <3>2
      <4> QED BY <3>2, <4>1
    <3> QED BY <3>1, <3>2
  <2>2. [k \in 1..(n + 1) |-> w[k]]
          = [k \in 1..(n + 1) |-> IF k = 1 THEN 0 ELSE w[k - 1] + sizes[k - 1]]
    BY <2>1, Zenon
  <2> QED BY <2>2, Zenon
<1>3. Begins(g)
  <2> HIDE DEF Begins, g
  <2> QED BY <1>1, <1>2
<1> HIDE DEF g
<1>4. g[1] = 0 /\ \A k \in 1..n : g[k + 1] = g[k] + sizes[k]
  <2>1. g[1] = 0
    BY <1>3
  <2>2. ASSUME NEW k \in 1..n PROVE g[k + 1] = g[k] + sizes[k]
    <3>1. k + 1 \in 1..(n + 1) /\ k + 1 # 1 /\ (k + 1) - 1 = k
      OBVIOUS
    <3> QED BY <1>3, <3>1
  <2> QED BY <2>1, <2>2
<1>5. g = [k \in 1..(n + 1) |-> g[k]]
  BY <1>3
<1> HIDE DEF Begins
<1> DEFINE S == {k \in Nat : k <= n => g[k + 1] = w[k + 1]}
<1>6. 0 \in S
  BY <1>4
<1>7. ASSUME NEW k \in Nat, k \in S PROVE k + 1 \in S
  <2>1. CASE k + 1 <= n
    <3>1. g[k + 1] = w[k + 1] /\ k + 1 \in 1..n
      BY <1>7, <2>1
    <3>2. g[(k + 1) + 1] = g[k + 1] + sizes[k + 1] /\ w[(k + 1) + 1] = w[k + 1] + sizes[k + 1]
      BY <1>4, <3>1
    <3>3. g[(k + 1) + 1] = w[(k + 1) + 1]
      BY <3>1, <3>2
    <3> QED BY <3>3
  <2>2. CASE ~(k + 1 <= n)
    BY <2>2
  <2> QED BY <2>1, <2>2
<1> HIDE DEF S
<1>8. Nat \subseteq S
  BY <1>6, <1>7, SetInduction
<1>9. ASSUME NEW k \in 1..(n + 1) PROVE g[k] = w[k]
  <2>1. k - 1 \in S /\ k - 1 <= n /\ (k - 1) + 1 = k
    BY <1>8
  <2> QED BY <2>1 DEF S
<1>10. [k \in 1..(n + 1) |-> g[k]] = [k \in 1..(n + 1) |-> w[k]]
  BY <1>9, Zenon
<1> QED BY <1>5, <1>10, Zenon DEF g

(* There are such numbers for any sizes, so Starts has them.               *)
Sums(w, sizes, m) ==
    /\ w \in [1..(m + 1) -> Nat]
    /\ w[1] = 0 /\ \A k \in 1..m : w[k + 1] = w[k] + sizes[k]
LEMMA StartsSum ==
    ASSUME NEW n \in Nat, NEW sizes \in [1..n -> Nat], Len(sizes) = n
    PROVE  Sums(Starts(sizes), sizes, n)
<1> DEFINE S == {m \in Nat : m <= n => \E w : Sums(w, sizes, m)}
<1>1. 0 \in S
  <2>1. Sums([k \in 1..(0 + 1) |-> 0], sizes, 0)
    BY DEF Sums
  <2> QED BY <2>1
<1>2. ASSUME NEW m \in Nat, m \in S PROVE m + 1 \in S
  <2> SUFFICES ASSUME m + 1 <= n PROVE \E v : Sums(v, sizes, m + 1)
    OBVIOUS
  <2>1. PICK w : Sums(w, sizes, m)
    BY <1>2
  <2> DEFINE v == [k \in 1..((m + 1) + 1) |-> IF k = m + 2 THEN w[m + 1] + sizes[m + 1]
                                              ELSE w[k]]
  <2>2. m + 1 \in 1..n /\ sizes[m + 1] \in Nat /\ w[m + 1] \in Nat
    BY <2>1 DEF Sums
  <2>3. v \in [1..((m + 1) + 1) -> Nat]
    BY <2>1, <2>2 DEF Sums
  <2>4. v[1] = 0
    BY <2>1 DEF Sums
  <2>5. ASSUME NEW k \in 1..(m + 1) PROVE v[k + 1] = v[k] + sizes[k]
    <3>1. CASE k = m + 1
      BY <3>1
    <3>2. CASE k # m + 1
      <4>1. k \in 1..m /\ k + 1 # m + 2 /\ k # m + 2
        BY <3>2
      <4> QED BY <2>1, <4>1 DEF Sums
    <3> QED BY <3>1, <3>2
  <2> HIDE DEF v
  <2>6. Sums(v, sizes, m + 1)
    BY <2>3, <2>4, <2>5 DEF Sums
  <2> QED BY <2>6
<1> HIDE DEF S
<1>3. n \in S
  BY <1>1, <1>2, SetInduction
<1>4. PICK w : Sums(w, sizes, n)
  BY <1>3 DEF S
<1>5. Starts(sizes) = w
  <2>1. w = [k \in 1..(n + 1) |-> w[k]]
    BY <1>4 DEF Sums
  <2> QED BY <1>4, <2>1, StartsAre DEF Sums
<1> QED BY <1>4, <1>5

(* An array of wide elements takes less space in the Java layout than in   *)
(* the C struct; every other field takes the same.                         *)
LEMMA FieldSizes ==
    ASSUME NEW f \in Fields
    PROVE  /\ CSize(f) \in Nat /\ JavaSize(f) \in Nat /\ JavaSize(f) <= CSize(f)
           /\ JavaSize(f) = CSize(f) <=> ByteArray(f)
<1>1. f.length \in Nat /\ f.type \in Types
  BY DEF Fields
<1>2. /\ Width(f.type) \in {1, 2, 4, 8}
      /\ Width(f.type) = 1 <=> f.type \in {"uint8", "int8"}
  BY <1>1 DEF Types, Width
<1>3. CASE f.length = 0
  BY <1>2, <1>3 DEF CSize, JavaSize, ByteArray
<1>4. CASE f.length > 0
  <2>1. CSize(f) = f.length * Width(f.type) /\ JavaSize(f) = f.length
    BY <1>4 DEF CSize, JavaSize
  <2>2. CASE Width(f.type) = 1
    BY <1>1, <1>2, <1>4, <2>1, <2>2 DEF ByteArray
  <2>3. CASE Width(f.type) # 1
    <3>1. f.length * Width(f.type) \in Nat /\ f.length * Width(f.type) > f.length
      BY <1>1, <1>2, <1>4, <2>3
    <3> QED BY <1>1, <1>2, <1>4, <2>1, <2>3, <3>1 DEF ByteArray
  <2> QED BY <2>2, <2>3
<1> QED BY <1>1, <1>3, <1>4

(* So the two layouts of a struct agree up to its first array of wide      *)
(* elements, and from its end on the Java layout is behind.                *)
LEMMA HowFarTheyAgree ==
    ASSUME NEW fs \in Seq(Fields), NEW place \in 1..(Len(fs) + 1)
    PROVE  JavaStarts(fs)[place] = CStarts(fs)[place]
             <=> \A j \in 1..(place - 1) : ByteArray(fs[j])
<1> DEFINE n == Len(fs)
           c == [k \in 1..n |-> CSize(fs[k])]
           j == [k \in 1..n |-> JavaSize(fs[k])]
           C == Starts(c)
           J == Starts(j)
<1>1. n \in Nat /\ \A k \in 1..n : fs[k] \in Fields
  OBVIOUS
<1>2. c \in [1..n -> Nat] /\ j \in [1..n -> Nat] /\ Len(c) = n /\ Len(j) = n
  BY <1>1, FieldSizes
<1>3. \A k \in 1..n : c[k] = CSize(fs[k]) /\ j[k] = JavaSize(fs[k])
  OBVIOUS
<1>4. CStarts(fs) = C /\ JavaStarts(fs) = J
  BY DEF CStarts, JavaStarts
<1> HIDE DEF c, j, n
<1>5. Sums(C, c, n) /\ Sums(J, j, n)
  BY <1>1, <1>2, StartsSum
<1> HIDE DEF C, J
<1>6. /\ C \in [1..(n + 1) -> Nat] /\ C[1] = 0
      /\ J \in [1..(n + 1) -> Nat] /\ J[1] = 0
      /\ \A k \in 1..n : C[k + 1] = C[k] + CSize(fs[k]) /\ J[k + 1] = J[k] + JavaSize(fs[k])
  BY <1>3, <1>5 DEF Sums
<1> DEFINE Narrow(k) == \A i \in 1..k : ByteArray(fs[i])
           S == {k \in Nat : k <= n => /\ J[k + 1] <= C[k + 1]
                                       /\ J[k + 1] = C[k + 1] <=> Narrow(k)}
<1>7. 0 \in S
  BY <1>6
<1>8. ASSUME NEW k \in Nat, k \in S PROVE k + 1 \in S
  <2> SUFFICES ASSUME k + 1 <= n
               PROVE  /\ J[(k + 1) + 1] <= C[(k + 1) + 1]
                      /\ J[(k + 1) + 1] = C[(k + 1) + 1] <=> Narrow(k + 1)
    OBVIOUS
  <2>1. k + 1 \in 1..n /\ k + 1 \in 1..(n + 1)
    BY <1>1
  <2>2. /\ J[(k + 1) + 1] = J[k + 1] + JavaSize(fs[k + 1])
        /\ C[(k + 1) + 1] = C[k + 1] + CSize(fs[k + 1])
        /\ J[k + 1] \in Nat /\ C[k + 1] \in Nat
    BY <1>6, <2>1
  <2>3. /\ CSize(fs[k + 1]) \in Nat /\ JavaSize(fs[k + 1]) \in Nat
        /\ JavaSize(fs[k + 1]) <= CSize(fs[k + 1])
        /\ JavaSize(fs[k + 1]) = CSize(fs[k + 1]) <=> ByteArray(fs[k + 1])
    BY <1>1, <2>1, FieldSizes
  <2>4. Narrow(k + 1) <=> Narrow(k) /\ ByteArray(fs[k + 1])
    <3>1. 1..(k + 1) = 1..k \cup {k + 1}
      OBVIOUS
    <3> QED BY <3>1
  <2>5. J[k + 1] <= C[k + 1] /\ (J[k + 1] = C[k + 1] <=> Narrow(k))
    BY <1>8, <1>1
  <2> HIDE DEF Narrow
  <2> QED BY <2>2, <2>3, <2>4, <2>5
<1> HIDE DEF S
<1>9. place - 1 \in S
  BY <1>7, <1>8, SetInduction
<1> QED BY <1>1, <1>4, <1>9 DEF S, n

-----------------------------------------------------------------------------
(* Every struct of the committed table is a sequence of fields,            *)
LEMMA CommittedStructs == \A s \in DOMAIN Structs : Structs[s] \in Seq(Fields)
<1> USE DEF Fields, Types, Scalar, Array, Bytes, U8, U16, U32, U64
<1>1. U8 \in Fields /\ U16 \in Fields /\ U32 \in Fields /\ U64 \in Fields
  OBVIOUS
<1>2. \A n \in Nat : Bytes(n) \in Fields
  OBVIOUS
<1> HIDE DEF Fields, Types, Scalar, Array, Bytes, U8, U16, U32, U64
<1>3. Structs.header \in Seq(Fields)
  BY <1>1, <1>2 DEF Structs
<1>4. Structs.domain \in Seq(Fields)
  BY <1>1, <1>2 DEF Structs
<1>5. Structs.relation \in Seq(Fields)
  BY <1>1, <1>2 DEF Structs
<1>6. Structs.attribute \in Seq(Fields)
  BY <1>1, <1>2 DEF Structs
<1>7. Structs.trailer \in Seq(Fields)
  BY <1>1, <1>2 DEF Structs
<1>8. DOMAIN Structs = {"header", "domain", "relation", "attribute", "trailer"}
  BY DEF Structs
<1> QED
  BY <1>3, <1>4, <1>5, <1>6, <1>7, <1>8

(* and so is every struct of the table after any of the edits.             *)
LEMMA TableStructs ==
  ASSUME NEW v \in 0..Len(Added), NEW s \in DOMAIN Structs
  PROVE  Table(v)[s] \in Seq(Fields)
<1>1. CASE s # "domain"
  BY <1>1, CommittedStructs DEF Table
<1>2. CASE s = "domain"
  <2> DEFINE old == Structs.domain
             new == SubSeq(Added, 1, v)
  <2>1. Table(v)[s] = old \o new
    BY <1>2 DEF Table
  <2>2. old \in Seq(Fields)
    BY <1>2, CommittedStructs
  <2>3. new \in Seq(Fields)
    BY SchemaAssumption
  <2> HIDE DEF old, new
  <2> QED
    BY <2>1, <2>2, <2>3
<1> QED
  BY <1>1, <1>2

-----------------------------------------------------------------------------
(* What a run has written is of the schema it loaded; what it has not yet  *)
(* reached is of no later one, and no output is ahead of one before it.    *)
Typed ==
    /\ table \in 0..Len(Added) /\ loaded \in 0..table
    /\ next \in 0..(N + 1) /\ open \in BOOLEAN /\ (open => next \in 1..N)
    /\ out \in [1..N -> Nat \cup {ABSENT, TORN}]
InOrder ==
    /\ \A k \in 1..N : k < next => out[k] = loaded
    /\ \A k \in 1..N : out[k] \in Nat => out[k] <= loaded
IInv == Typed /\ InOrder /\ NeverAhead

LEMMA NumberOfOutputs == N = 4
  BY DEF N, Outputs

LEMMA Constants == Len(Added) \in Nat /\ ABSENT \notin Nat /\ TORN \notin Nat /\ ABSENT # TORN
  BY SchemaAssumption

LEMMA Initially == Init => IInv
<1> SUFFICES ASSUME Init PROVE IInv
  OBVIOUS
<1>1. PICK v \in {0, ABSENT} : out = [k \in 1..N |-> v]
  BY DEF Init
<1> USE NumberOfOutputs, Constants
<1>2. out \in [1..N -> Nat \cup {ABSENT, TORN}]
  BY <1>1
<1>3. open \in BOOLEAN /\ ~open
  BY Zenon DEF Init
<1>4. Typed
  <2>1. table = 0 /\ loaded = 0 /\ next = 0
    BY DEF Init
  <2> QED
    BY <1>2, <1>3, <2>1 DEF Typed
<1>5. InOrder
  BY <1>1 DEF Init, InOrder
<1>6. NeverAhead
  BY <1>1 DEF NeverAhead, Ahead
<1> QED
  BY <1>4, <1>5, <1>6 DEF IInv

LEMMA Inductive == IInv /\ [Next]_vars => IInv'
<1> SUFFICES ASSUME IInv, [Next]_vars PROVE IInv'
  OBVIOUS
<1> USE NumberOfOutputs, Constants DEF IInv, Typed
<1>1. CASE EditTable
  BY <1>1 DEF EditTable, InOrder, NeverAhead, Ahead
<1>2. CASE Start
  BY <1>2 DEF Start, Stopped, InOrder, NeverAhead, Ahead
<1>3. CASE Open
  <2>1. out' = [out EXCEPT ![next] = TORN] /\ next \in 1..N
    BY <1>3 DEF Open, Written
  <2>2. Typed'
    BY <1>3, <2>1 DEF Open
  <2>3. InOrder'
    BY <1>3, <2>1 DEF Open, InOrder
  <2>4. NeverAhead'
    BY <1>3, <2>1 DEF Open, NeverAhead, Ahead
  <2> QED
    BY <2>2, <2>3, <2>4
<1>4. CASE Fill
  <2>1. out' = [out EXCEPT ![next] = loaded] /\ next \in 1..N
    BY <1>4 DEF Fill, Written
  <2>2. Typed'
    <3>1. next' \in 0..(N + 1) /\ open' = FALSE
      BY <1>4, <2>1 DEF Fill
    <3>2. out' \in [1..N -> Nat \cup {ABSENT, TORN}]
      BY <2>1
    <3> QED
      BY <1>4, <3>1, <3>2 DEF Fill
  <2>3. InOrder'
    BY <1>4, <2>1 DEF Fill, InOrder
  <2>4. NeverAhead'
    BY <1>4, <2>1 DEF Fill, InOrder, NeverAhead, Ahead
  <2> QED
    BY <2>2, <2>3, <2>4
<1>5. CASE Finish
  BY <1>5 DEF Finish, InOrder, NeverAhead, Ahead
<1>6. CASE Dies
  <2>1. Typed'
    <3>1. open' = FALSE /\ next' = 0
      BY <1>6, Zenon DEF Dies
    <3>2. open' \in BOOLEAN /\ ~open'
      BY <3>1, Zenon
    <3>3. next' \in 0..(N + 1)
      BY <3>1
    <3>4. UNCHANGED <<table, loaded, out>>
      BY <1>6 DEF Dies
    <3> QED
      BY <3>2, <3>3, <3>4
  <2>2. InOrder' /\ NeverAhead'
    BY <1>6 DEF Dies, InOrder, NeverAhead, Ahead
  <2> QED
    BY <2>1, <2>2
<1>7. CASE UNCHANGED vars
  BY <1>7 DEF vars, InOrder, NeverAhead, Ahead
<1> QED
  BY <1>1, <1>2, <1>3, <1>4, <1>5, <1>6, <1>7 DEF Next

LEMMA Invariant == Spec => []IInv
  BY Initially, Inductive, PTL DEF Spec

(* However runs die and the table is edited, no generated file is of a     *)
(* later schema than one that main() writes before it.                     *)
THEOREM DocumentsNeverAhead == Spec => []NeverAhead
<1>1. IInv => NeverAhead
  BY DEF IInv
<1> QED
  BY Invariant, <1>1, PTL

(* The files of a finished run are all of the schema it loaded.            *)
THEOREM FinishedRunsAgree == Spec => []OneSchema
<1>1. IInv => OneSchema
  BY NumberOfOutputs DEF IInv, Typed, InOrder, OneSchema
<1> QED
  BY Invariant, <1>1, PTL

(* In the files of a finished run the header and the Java layouts put a    *)
(* field at the same byte exactly if no array of elements wider than a     *)
(* byte comes before it, for any number of fields of any type and length   *)
(* added to the table.                                                     *)
THEOREM HeaderAndJavaAgree == Spec => []SameOffsets
<1>1. IInv => SameOffsets
  <2> SUFFICES ASSUME IInv, next = N + 1, NEW s \in DOMAIN Structs,
                      NEW k \in 1..(Len(Table(out[1])[s]) + 1)
               PROVE  JavaStarts(Table(out[2])[s])[k] = CStarts(Table(out[1])[s])[k]
                        <=> \A j \in 1..(k - 1) : ByteArray(Table(out[1])[s][j])
    BY DEF SameOffsets
  <2>1. out[1] = loaded /\ out[2] = loaded
    BY NumberOfOutputs DEF IInv, InOrder
  <2>2. loaded \in 0..Len(Added)
    BY SchemaAssumption DEF IInv, Typed
  <2>3. Table(loaded)[s] \in Seq(Fields)
    BY <2>2, TableStructs
  <2> QED
    BY <2>1, <2>3, HowFarTheyAgree
<1> QED
  BY Invariant, <1>1, PTL

-----------------------------------------------------------------------------
(* The committed offsets.                                                  *)

(* The documented offsets of a struct, and its size, are such numbers.     *)
Fitting(fs, n, d, size) ==
    /\ n \in Nat \ {0} /\ Len(fs) = n /\ d \in Seq(Int) /\ Len(d) = n /\ size \in Int
    /\ d[1] = 0 /\ \A k \in 1..(n - 1) : d[k + 1] = d[k] + CSize(fs[k])
    /\ size = d[n] + CSize(fs[n])
LEMMA StructStarts ==
    ASSUME NEW fs, NEW n, NEW d, NEW size, Fitting(fs, n, d, size)
    PROVE  CStarts(fs) = Append(d, size)
<1> USE DEF Fitting
<1> DEFINE w == Append(d, size)
           sizes == [k \in 1..Len(fs) |-> CSize(fs[k])]
<1>1. w \in Seq(Int) /\ Len(w) = n + 1
  OBVIOUS
<1>2. (\A k \in 1..n : w[k] = d[k]) /\ w[n + 1] = size
  OBVIOUS
<1> HIDE DEF w
<1>3. w = [k \in 1..(n + 1) |-> w[k]]
  BY <1>1
<1>4. Len(sizes) = n /\ \A k \in 1..n : sizes[k] = CSize(fs[k])
  OBVIOUS
<1> HIDE DEF sizes
<1>5. w[1] = 0
  BY <1>2
<1>6. ASSUME NEW k \in 1..n PROVE w[k + 1] = w[k] + sizes[k]
  <2>1. CASE k = n
    BY <1>2, <1>4, <2>1
  <2>2. CASE k # n
    <3>1. k \in 1..(n - 1) /\ k + 1 \in 1..n
      BY <2>2
    <3> QED BY <1>2, <1>4, <3>1
  <2> QED BY <2>1, <2>2
<1>7. Starts(sizes) = w
  BY <1>3, <1>4, <1>5, <1>6, StartsAre
<1> QED BY <1>7 DEF CStarts, sizes, w

LEMMA Sizes ==
    /\ CSize(U8) = 1 /\ CSize(U16) = 2 /\ CSize(U32) = 4 /\ CSize(U64) = 8
    /\ \A n \in Nat \ {0} : CSize(Bytes(n)) = n
BY DEF CSize, Width, U8, U16, U32, U64, Bytes, Scalar, Array

LEMMA CommittedStarts ==
    \A s \in DOMAIN Structs : CStarts(Structs[s]) = Append(Documented[s], ExpectedSize[s])
<1> HIDE DEF U8, U16, U32, U64, Bytes
<1>1. CStarts(Structs.domain) = Append(Documented.domain, ExpectedSize.domain)
  <2> DEFINE fs == <<U16, U8, U8, U32, U64>>
             d == <<0, 2, 3, 4, 8>>
  <2>1. Len(fs) = 5 /\ Len(d) = 5 /\ d \in Seq(Int) /\ d[1] = 0 /\ 16 = d[5] + CSize(fs[5])
    BY Sizes
  <2>2. \A k \in 1..(5 - 1) : d[k + 1] = d[k] + CSize(fs[k])
    BY Sizes
  <2>3. Structs.domain = fs /\ Documented.domain = d /\ ExpectedSize.domain = 16
    BY DEF Structs, Documented, ExpectedSize
  <2> HIDE DEF fs, d
  <2>4. Fitting(fs, 5, d, 16)
    BY <2>1, <2>2 DEF Fitting
  <2> QED BY <2>3, <2>4, StructStarts
<1>2. CStarts(Structs.trailer) = Append(Documented.trailer, ExpectedSize.trailer)
  <2> DEFINE fs == <<U64, U32, U32>>
             d == <<0, 8, 12>>
  <2>1. Len(fs) = 3 /\ Len(d) = 3 /\ d \in Seq(Int) /\ d[1] = 0 /\ 16 = d[3] + CSize(fs[3])
    BY Sizes
  <2>2. \A k \in 1..(3 - 1) : d[k + 1] = d[k] + CSize(fs[k])
    BY Sizes
  <2>3. Structs.trailer = fs /\ Documented.trailer = d /\ ExpectedSize.trailer = 16
    BY DEF Structs, Documented, ExpectedSize
  <2> HIDE DEF fs, d
  <2>4. Fitting(fs, 3, d, 16)
    BY <2>1, <2>2 DEF Fitting
  <2> QED BY <2>3, <2>4, StructStarts
<1>3. CStarts(Structs.attribute) = Append(Documented.attribute, ExpectedSize.attribute)
  <2> DEFINE fs == <<U32, U8, U8, U16, U32, U64, U64, U64, U64>>
             d == <<0, 4, 5, 6, 8, 12, 20, 28, 36>>
  <2>1. Len(fs) = 9 /\ Len(d) = 9 /\ d \in Seq(Int) /\ d[1] = 0 /\ 44 = d[9] + CSize(fs[9])
    BY Sizes
  <2>2. \A k \in 1..(9 - 1) : d[k + 1] = d[k] + CSize(fs[k])
    BY Sizes
  <2>3. Structs.attribute = fs /\ Documented.attribute = d /\ ExpectedSize.attribute = 44
    BY DEF Structs, Documented, ExpectedSize
  <2> HIDE DEF fs, d
  <2>4. Fitting(fs, 9, d, 44)
    BY <2>1, <2>2 DEF Fitting
  <2> QED BY <2>3, <2>4, StructStarts
<1>4. CStarts(Structs.header) = Append(Documented.header, ExpectedSize.header)
  <2> DEFINE fs == <<U32, U16, U32, U16, U16, U64, U64, U64, U64, Bytes(16), U16, Bytes(4032)>>
             d == <<0, 4, 6, 10, 12, 14, 22, 30, 38, 46, 62, 64>>
  <2>1. Len(fs) = 12 /\ Len(d) = 12 /\ d \in Seq(Int) /\ d[1] = 0 /\ 4096 = d[12] + CSize(fs[12])
    BY Sizes, SMT
  <2>2. \A k \in 1..(12 - 1) : d[k + 1] = d[k] + CSize(fs[k])
    BY Sizes, SMT
  <2>3. Structs.header = fs /\ Documented.header = d /\ ExpectedSize.header = 4096
    BY SMT DEF Structs, Documented, ExpectedSize
  <2> HIDE DEF fs, d
  <2>4. Fitting(fs, 12, d, 4096)
    BY <2>1, <2>2 DEF Fitting
  <2> QED BY <2>3, <2>4, StructStarts
<1>5. CStarts(Structs.relation) = Append(Documented.relation, ExpectedSize.relation)
  <2> DEFINE fs == <<U16, U16, U16, U8, U8, U8, Bytes(3), U32, U64, U64, U64,
                     U64, U64, U64, U64, U64, U64, U64, U64, U16, Bytes(22)>>
             d == <<0, 2, 4, 6, 7, 8, 9, 12, 16, 24, 32, 40, 48, 56, 64, 72, 80, 88, 96,
                    104, 106>>
  <2>1. Len(fs) = 21 /\ Len(d) = 21 /\ d \in Seq(Int) /\ d[1] = 0 /\ 128 = d[21] + CSize(fs[21])
    BY Sizes, SMT
  <2>2. \A k \in 1..(21 - 1) : d[k + 1] = d[k] + CSize(fs[k])
    BY Sizes, SMT
  <2>3. Structs.relation = fs /\ Documented.relation = d /\ ExpectedSize.relation = 128
    BY SMT DEF Structs, Documented, ExpectedSize
  <2> HIDE DEF fs, d
  <2>4. Fitting(fs, 21, d, 128)
    BY <2>1, <2>2 DEF Fitting
  <2> QED BY <2>3, <2>4, StructStarts
<1>6. DOMAIN Structs = {"header", "domain", "relation", "attribute", "trailer"}
  BY DEF Structs
<1> QED BY <1>1, <1>2, <1>3, <1>4, <1>5, <1>6

LEMMA TableAsCommitted == \A s \in DOMAIN Structs : Table(0)[s] = Structs[s]
<1>1. SubSeq(Added, 1, 0) = <<>>
  BY SchemaAssumption
<1>2. ASSUME NEW s \in DOMAIN Structs, s = "domain" PROVE Table(0)[s] = Structs[s]
  <2>1. Table(0)["domain"] = Structs.domain \o <<>>
    BY <1>1, <1>2 DEF Table
  <2>2. Structs.domain \in Seq(Fields)
    BY <1>2, CommittedStructs
  <2>3. Structs.domain \o <<>> = Structs.domain
    BY <2>2
  <2> QED BY <1>2, <2>1, <2>3
<1>3. ASSUME NEW s \in DOMAIN Structs, s # "domain" PROVE Table(0)[s] = Structs[s]
  BY <1>3 DEF Table
<1> QED BY <1>2, <1>3

(* Compiled against the header of a finished run that loaded the table as  *)
(* committed, every field is at its documented byte and every struct has   *)
(* its documented size.                                                    *)
THEOREM HeaderIsDocumented == Spec => []CLayoutDocumented
<1>1. CLayoutDocumented
  <2> SUFFICES ASSUME out[1] = 0, NEW s \in DOMAIN Structs
               PROVE  CStarts(Table(out[1])[s]) = Append(Documented[s], ExpectedSize[s])
    BY DEF CLayoutDocumented
  <2> QED BY TableAsCommitted, CommittedStarts
<1> QED BY <1>1, PTL
=============================================================================
