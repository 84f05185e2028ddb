---------------------------- MODULE BuildersProofs ----------------------------
(***************************************************************************)
(* Proofs about the scripts that make test data.  Fixtures: for any other  *)
(* files in the output directory, any number of runs, and runs that fail   *)
(* or are killed anywhere.  Snapshot: for any number of deaths.            *)
(***************************************************************************)
EXTENDS MCBuilders, WellFoundedInduction, TLAPS

Canonical == {"g0", "g1", "g2", "g3", "g4", "g5", "g6", "g7"}
Names == ToSet(Sorted)

LEMMA EightFixtures ==
    /\ Len(Order) = 8 /\ All = 9
    /\ Fixtures = Canonical
    /\ \A k \in 1..8 : Order[k] \in Canonical
    /\ \A f \in Canonical : \E k \in 1..8 : f = Order[k]
    /\ \A j, k \in 1..8 : Order[j] = Order[k] => j = k
<1>1. Len(Order) = 8 /\ All = 9 /\ DOMAIN Order = 1..8
  BY DEF Order, All
<1>2. /\ Order[1] = "g0" /\ Order[2] = "g1" /\ Order[3] = "g2" /\ Order[4] = "g3"
      /\ Order[5] = "g4" /\ Order[6] = "g5" /\ Order[7] = "g7" /\ Order[8] = "g6"
  BY DEF Order
<1>3. \A k \in 1..8 : k = 1 \/ k = 2 \/ k = 3 \/ k = 4 \/ k = 5 \/ k = 6 \/ k = 7 \/ k = 8
  OBVIOUS
<1>4. \A k \in 1..8 : Order[k] \in Canonical
  BY <1>2, <1>3 DEF Canonical
<1>5. \A f \in Canonical : \E k \in 1..8 : f = Order[k]
  BY <1>2 DEF Canonical
<1>6. \A j, k \in 1..8 : Order[j] = Order[k] => j = k
  BY <1>2, <1>3
<1>7. Fixtures = Canonical
  BY <1>1, <1>4, <1>5 DEF Fixtures, ToSet
<1> QED BY <1>1, <1>4, <1>5, <1>6, <1>7

LEMMA CanonicalAreNames == Canonical \subseteq Names
<1> DEFINE eight == <<"g0", "g1", "g2", "g3", "g4", "g5", "g6", "g7">>
<1> DEFINE W == STRING
<1>1. Sorted = eight \o Strays /\ Strays \in Seq(W)
  BY FixturesAssumption DEF Sorted
<1>3. eight \in Seq(Canonical) /\ Len(eight) = 8
  BY DEF Canonical
<1>4. \A f \in Canonical : \E k \in 1..8 : f = eight[k]
  BY DEF Canonical, eight
<1> HIDE DEF eight, W
<1>5. \A k \in 1..8 : k \in DOMAIN Sorted /\ Sorted[k] = eight[k]
  <2> DEFINE U == Canonical \cup W
  <2>1. eight \in Seq(U)
    BY <1>3
  <2>2. Strays \in Seq(U)
    BY <1>1
  <2> HIDE DEF U
  <2>3. \A k \in 1..Len(eight) : (eight \o Strays)[k] = eight[k]
    BY <2>1, <2>2
  <2>4. DOMAIN (eight \o Strays) = 1..(Len(eight) + Len(Strays)) /\ Len(Strays) \in Nat
    BY <2>1, <2>2
  <2> QED BY <1>1, <1>3, <2>3, <2>4
<1> SUFFICES ASSUME NEW f \in Canonical PROVE f \in Names
  OBVIOUS
<1>6. PICK k \in 1..8 : f = eight[k]
  BY <1>4
<1>7. k \in DOMAIN Sorted /\ f = Sorted[k]
  BY <1>5, <1>6
<1> QED BY <1>7 DEF Names, ToSet

-----------------------------------------------------------------------------
(* What the run under way has made and inspected, and what earlier ones    *)
(* may have left.                                                          *)
Typed ==
    /\ run \in Nat /\ next \in 0..10 /\ exit \in {-1, 0, 1}
    /\ DOMAIN files = Names
    /\ next # 0 => exit = -1 /\ run > 0
Earlier(file) == file \in {ABSENT, TORN} \/ (file \in Nat /\ file <= run)
MadeByRun ==
    /\ \A k \in 1..8 : k < next => files[Order[k]] = run
    /\ \A k \in 1..8 : Earlier(files[Order[k]])
    /\ \A f \in Names \ Canonical : files[f] = 0
Inspected == next = 10 => Names \subseteq ok \cup list
FInv == Typed /\ MadeByRun /\ Inspected /\ GreenIsFresh /\ MadeInOrder

LEMMA FInvInit == Init => FInv
<1> SUFFICES ASSUME Init PROVE FInv
  OBVIOUS
<1>1. PICK v \in {0, ABSENT} : files = [f \in Names |-> IF f \in Canonical THEN v ELSE 0]
  BY EightFixtures DEF Init, Names
<1>2. Typed
  BY <1>1 DEF Init, Typed
<1>3. \A k \in 1..8 : files[Order[k]] = v
  BY <1>1, EightFixtures, CanonicalAreNames
<1>4. MadeInOrder
  BY <1>3, EightFixtures DEF MadeInOrder
<1>5. MadeByRun
  BY <1>1, <1>3 DEF Init, MadeByRun, Earlier
<1> QED BY <1>1, <1>2, <1>4, <1>5 DEF Init, FInv, Inspected, GreenIsFresh

(* The end of a run that is not green, when it leaves the files alone.     *)
LEMMA Ended ==
    ASSUME FInv, next # 0, next' = 0, run' = run, exit' \in {-1, 1}, files' = files
    PROVE  FInv'
BY DEF FInv, Typed, MadeByRun, Earlier, Inspected, GreenIsFresh, MadeInOrder

(* The same when it damages the fixture it was making.                     *)
LEMMA DamageKeeps ==
    ASSUME FInv, Making, Damage, next' = 0, run' = run, exit' \in {-1, 1}
    PROVE  FInv'
<1>1. next \in 1..8 /\ This = Order[next] /\ This \in Canonical /\ This \in Names
  BY EightFixtures, CanonicalAreNames DEF Making, This
<1>2. PICK v \in {files[This], TORN, ABSENT} : files' = [files EXCEPT ![This] = v]
  BY DEF Damage
<1>3. DOMAIN files = Names /\ Earlier(files[This])
  BY <1>1 DEF FInv, Typed, MadeByRun
<1>4. /\ DOMAIN files' = Names
      /\ \A f \in Names \ Canonical : files'[f] = files[f]
      /\ \A k \in 1..8 : files'[Order[k]] = files[Order[k]] \/ files'[Order[k]] \in {ABSENT, TORN}
  BY <1>1, <1>2, <1>3, EightFixtures, CanonicalAreNames
<1>5. MadeByRun'
  BY <1>4 DEF FInv, MadeByRun, Earlier
<1>6. MadeInOrder'
  BY <1>4, EightFixtures, FixturesAssumption DEF FInv, MadeInOrder
<1> QED BY <1>4, <1>5, <1>6 DEF FInv, Typed, Inspected, GreenIsFresh

LEMMA FInvNext == FInv /\ [Next]_vars => FInv'
<1> SUFFICES ASSUME FInv, [Next]_vars PROVE FInv'
  OBVIOUS
<1>1. CASE Start
  <2>1. run \in Nat /\ run' = run + 1 /\ UNCHANGED files
    BY <1>1 DEF Start, FInv, Typed
  <2>2. \A k \in 1..8 : Earlier(files[Order[k]])'
    BY <2>1 DEF FInv, MadeByRun, Earlier
  <2>3. MadeByRun'
    BY <1>1, <2>1, <2>2 DEF Start, FInv, MadeByRun
  <2>4. MadeInOrder'
    BY <2>1 DEF FInv, MadeInOrder
  <2> QED BY <1>1, <2>3, <2>4 DEF Start, FInv, Typed, Inspected, GreenIsFresh
<1>2. CASE Stage
  <2>1. next \in 1..8
    BY <1>2, EightFixtures DEF Stage, Making
  <2> QED BY <1>2, <2>1
          DEF Stage, FInv, Typed, MadeByRun, Earlier, Inspected, GreenIsFresh, MadeInOrder
<1>3. CASE StageFails
  BY <1>3, EightFixtures, Ended DEF StageFails, Making, End
<1>4. CASE Succeeds
  <2>1. /\ next \in 1..8 /\ next' = next + 1 /\ files' = [files EXCEPT ![Order[next]] = run]
        /\ UNCHANGED <<run, list, ok, exit>>
    BY <1>4, EightFixtures DEF Succeeds, Ready, Making, Advance, This
  <2>2. Order[next] \in Canonical /\ exit = -1
    BY <2>1, EightFixtures DEF FInv, Typed
  <2>3. Typed'
    BY <2>1, <2>2 DEF FInv, Typed
  <2>4. /\ files'[Order[next]] = run
        /\ \A k \in 1..8 : k # next => files'[Order[k]] = files[Order[k]]
    <3>1. \A k \in 1..8 : Order[k] \in Names /\ (k # next => Order[k] # Order[next])
      BY <2>1, EightFixtures, CanonicalAreNames
    <3>2. DOMAIN files = Names
      BY DEF FInv, Typed
    <3> QED BY <2>1, <3>1, <3>2
  <2>5. MadeByRun'
    <3>1. \A k \in 1..8 : k < next' => files'[Order[k]] = run'
      BY <2>1, <2>4 DEF FInv, MadeByRun
    <3>2. \A k \in 1..8 : Earlier(files[Order[k]])'
      BY <2>1, <2>4 DEF FInv, Typed, MadeByRun, Earlier
    <3>3. \A f \in Names \ Canonical : files'[f] = 0
      BY <2>1, <2>2 DEF FInv, Typed, MadeByRun
    <3> QED BY <3>1, <3>2, <3>3 DEF MadeByRun
  <2>6. MadeInOrder'
    <3> SUFFICES ASSUME NEW j \in 1..8, NEW k \in 1..8, j < k, files'[Order[k]] \in Nat,
                        files'[Order[j]] \notin {ABSENT, TORN}
                 PROVE  files'[Order[j]] >= files'[Order[k]]
      BY EightFixtures DEF MadeInOrder
    <3>1. CASE j <= next
      <4>1. files'[Order[j]] = run /\ run \in Nat
        BY <2>1, <2>4, <3>1 DEF FInv, Typed, MadeByRun
      <4>2. files'[Order[k]] \in {ABSENT, TORN} \/ files'[Order[k]] <= run
        BY <2>1, <2>5 DEF MadeByRun, Earlier
      <4>3. files'[Order[k]] <= run
        BY <4>2, FixturesAssumption
      <4> QED BY <4>1, <4>3
    <3>2. CASE j > next
      BY <2>4, <3>2, <2>1, EightFixtures DEF FInv, MadeInOrder
    <3> QED BY <2>1, <3>1, <3>2
  <2>7. next' # 10
    BY <2>1
  <2> QED BY <2>1, <2>2, <2>3, <2>5, <2>6, <2>7 DEF FInv, Inspected, GreenIsFresh
<1>5. CASE Fails
  <2>1. Making /\ Damage /\ End(1) /\ run' = run
    BY <1>5 DEF Fails, Ready
  <2> QED BY <2>1, DamageKeeps DEF End
<1>6. CASE Glob
  <2>1. /\ next = 9 /\ next' = 10 /\ list' = {f \in Names : files[f] # ABSENT}
        /\ UNCHANGED <<run, files, ok, exit>>
    BY <1>6, EightFixtures DEF Glob, Names
  <2>2. \A f \in Names : files[f] \in Nat
    <3>1. \A f \in Canonical : files[f] = run
      BY <2>1, EightFixtures DEF FInv, MadeByRun
    <3> QED BY <3>1 DEF FInv, MadeByRun, Typed
  <2>3. Names \subseteq list'
    BY <2>1, <2>2, FixturesAssumption
  <2> QED BY <2>1, <2>3
          DEF FInv, Typed, MadeByRun, Earlier, Inspected, GreenIsFresh, MadeInOrder
<1>7. CASE Inspect
  <2>1. next = 10 /\ UNCHANGED <<run, files>>
    BY <1>7, EightFixtures DEF Inspect
  <2>2. CASE /\ list' = list \ {First} /\ ok' = ok \cup {First}
             /\ UNCHANGED <<next, staging, staged, exit>>
    BY <2>1, <2>2
    DEF FInv, Typed, MadeByRun, Earlier, Inspected, GreenIsFresh, MadeInOrder
  <2>3. CASE End(1) /\ UNCHANGED <<list, ok>>
    BY <2>1, <2>3, Ended DEF End
  <2> QED BY <1>7, <2>2, <2>3 DEF Inspect
<1>8. CASE Finish
  <2>1. /\ next = 10 /\ list = {} /\ next' = 0 /\ exit' = 0
        /\ UNCHANGED <<run, files, list, ok>>
    BY <1>8, EightFixtures DEF Finish, End
  <2>2. \A f \in Canonical : files[f] = run
    BY <2>1, EightFixtures DEF FInv, MadeByRun
  <2>3. DOMAIN files \subseteq ok
    BY <2>1 DEF FInv, Typed, Inspected
  <2> QED BY <2>1, <2>2, <2>3, EightFixtures
          DEF FInv, Typed, MadeByRun, Earlier, Inspected, GreenIsFresh, MadeInOrder
<1>9. CASE Killed
  <2>1. next # 0 /\ next' = 0 /\ exit' = -1 /\ run' = run
    BY <1>9 DEF Killed
  <2>2. CASE UNCHANGED files
    BY <2>1, <2>2, Ended
  <2>3. CASE Ready /\ Damage
    BY <2>1, <2>3, DamageKeeps DEF Ready
  <2> QED BY <1>9, <2>2, <2>3 DEF Killed
<1>10. CASE UNCHANGED vars
  BY <1>10 DEF vars, FInv, Typed, MadeByRun, Earlier, Inspected, GreenIsFresh, MadeInOrder
<1> QED BY <1>1, <1>2, <1>3, <1>4, <1>5, <1>6, <1>7, <1>8, <1>9, <1>10 DEF Next

LEMMA FInvHolds == Spec => []FInv
BY FInvInit, FInvNext, PTL DEF Spec

(* Exit status 0: all eight fixtures are of this run and every file of the *)
(* directory passed inspection, whatever earlier runs left behind.         *)
THEOREM GreenRunsAreFresh == Spec => []GreenIsFresh
<1>1. FInv => GreenIsFresh
  BY DEF FInv
<1> QED BY <1>1, FInvHolds, PTL

(* However many runs fail or are killed, and whatever they damage, a       *)
(* fixture is of no later run than the ones made before it that are whole. *)
THEOREM FixturesAreInOrder == Spec => []MadeInOrder
<1>1. FInv => MadeInOrder
  BY DEF FInv
<1> QED BY <1>1, FInvHolds, PTL

-----------------------------------------------------------------------------
(* The programs.  A string vector's is a front part, in which only header  *)
(* bytes and the directory grow, and seven calls that put the file         *)
(* together and write it.                                                  *)
StringVectors == {"tc32", "tc33", "tc34", "tc35", "tc36"}
Opening(v) == S!Header(v) \o <<S!Sum>> \o S!StringTable(v) \o S!Catalog(v)
IsSeq(s) == \E X : s \in Seq(X)

(* A call that leaves bytes 10 to 13 and the other buffers alone.          *)
Quiet(c) ==
    /\ c.call \in {"pack", "sum", "extend", "align"}
    /\ c.call = "pack" => c.at \in {14, 22}
    /\ c.call \in {"extend", "align"} => c.buf = "dir"

(* c is a with b after it.                                                 *)
Joined(a, b, c) ==
    /\ IsSeq(c) /\ Len(a) \in Nat /\ Len(b) \in Nat /\ Len(c) = Len(a) + Len(b)
    /\ DOMAIN c = 1..Len(c)
    /\ \A k \in 1..Len(a) : c[k] = a[k]
    /\ \A k \in 1..Len(b) : c[Len(a) + k] = b[k]
LEMMA Appended ==
    ASSUME NEW a, NEW b, IsSeq(a), IsSeq(b)
    PROVE  Joined(a, b, a \o b)
<1>1. PICK X : a \in Seq(X)
  BY DEF IsSeq
<1>2. PICK Y : b \in Seq(Y)
  BY DEF IsSeq
<1> DEFINE Z == X \cup Y
<1>3. a \in Seq(Z) /\ b \in Seq(Z)
  BY <1>1, <1>2
<1> HIDE DEF Z
<1>4. a \o b \in Seq(Z)
  BY <1>3
<1>5. IsSeq(a \o b)
  BY <1>4 DEF IsSeq
<1> QED BY <1>3, <1>5 DEF Joined

LEMMA QuietJoined ==
    ASSUME NEW a, NEW b, NEW c, Joined(a, b, c), NEW m \in Nat \ {0}, m <= Len(a) + 1,
           \A k \in m..Len(a) : Quiet(a[k]), \A k \in 1..Len(b) : Quiet(b[k])
    PROVE  \A k \in m..Len(c) : Quiet(c[k])
<1> SUFFICES ASSUME NEW k \in m..Len(c) PROVE Quiet(c[k])
  OBVIOUS
<1>1. CASE k <= Len(a)
  BY <1>1 DEF Joined
<1>2. CASE k > Len(a)
  <2>1. k - Len(a) \in 1..Len(b) /\ k = Len(a) + (k - Len(a))
    BY <1>2 DEF Joined
  <2>2. c[Len(a) + (k - Len(a))] = b[k - Len(a)]
    BY <2>1 DEF Joined
  <2> QED BY <2>1, <2>2
<1> QED BY <1>1, <1>2 DEF Joined

LEMMA Tuples ==
    /\ IsSeq(<<>>) /\ Len(<<>>) = 0
    /\ \A a : IsSeq(<<a>>) /\ Len(<<a>>) = 1
    /\ \A a, b : IsSeq(<<a, b>>) /\ Len(<<a, b>>) = 2
    /\ \A a, b, c : IsSeq(<<a, b, c>>) /\ Len(<<a, b, c>>) = 3
    /\ \A a, b, c, d : IsSeq(<<a, b, c, d>>) /\ Len(<<a, b, c, d>>) = 4
    /\ \A a, b, c, d, e : IsSeq(<<a, b, c, d, e>>) /\ Len(<<a, b, c, d, e>>) = 5
<1>0. <<>> \in Seq({})
  OBVIOUS
<1>1. ASSUME NEW a PROVE <<a>> \in Seq({a})
  OBVIOUS
<1>2. ASSUME NEW a, NEW b PROVE <<a, b>> \in Seq({a, b})
  OBVIOUS
<1>3. ASSUME NEW a, NEW b, NEW c PROVE <<a, b, c>> \in Seq({a, b, c})
  OBVIOUS
<1>4. ASSUME NEW a, NEW b, NEW c, NEW d PROVE <<a, b, c, d>> \in Seq({a, b, c, d})
  OBVIOUS
<1>5. ASSUME NEW a, NEW b, NEW c, NEW d, NEW e
      PROVE  <<a, b, c, d, e>> \in Seq({a, b, c, d, e})
  OBVIOUS
<1> QED BY <1>0, <1>1, <1>2, <1>3, <1>4, <1>5 DEF IsSeq

LEMMA VectorsAre == S!Vectors = StringVectors \cup {"tc37"} /\ "tc37" \notin StringVectors
<1> DEFINE five == <<"tc32", "tc33", "tc34", "tc35", "tc36">>
           one == <<"tc37">>
<1>1. /\ five[1] = "tc32" /\ five[2] = "tc33" /\ five[3] = "tc34" /\ five[4] = "tc35"
      /\ five[5] = "tc36" /\ one[1] = "tc37"
  OBVIOUS
<1>2. IsSeq(five) /\ IsSeq(one) /\ Len(five) = 5 /\ Len(one) = 1
  BY Tuples
<1> DEFINE six == five \o one
<1>3. S!Vectors = {six[k] : k \in DOMAIN six}
  BY DEF S!Vectors, S!Strings, S!Nulls, S!ToSet
<1> HIDE DEF five, one
<1>4. Joined(five, one, six)
  BY <1>2, Appended, Zenon
<1> HIDE DEF six
<1>5. /\ DOMAIN six = 1..6
      /\ six[1] = "tc32" /\ six[2] = "tc33" /\ six[3] = "tc34" /\ six[4] = "tc35"
      /\ six[5] = "tc36" /\ six[6] = "tc37"
  BY <1>1, <1>2, <1>4 DEF Joined
<1>6. \A k \in 1..6 : k = 1 \/ k = 2 \/ k = 3 \/ k = 4 \/ k = 5 \/ k = 6
  OBVIOUS
<1>7. \A x : x \in S!Vectors <=> x \in StringVectors \cup {"tc37"}
  BY <1>3, <1>5, <1>6 DEF StringVectors
<1> QED BY <1>7 DEF StringVectors

LEMMA HeaderFacts ==
    ASSUME NEW v \in StringVectors
    PROVE  /\ IsSeq(S!Header(v)) /\ Len(S!Header(v)) \in Nat /\ Len(S!Header(v)) >= 5
           /\ S!Header(v)[4] = S!Pack(10, <<1, 0>>) /\ S!Header(v)[5] = S!Pack(12, <<0, 0>>)
           /\ \A k \in 1..5 : S!Header(v)[k].call = "pack"
           /\ \A k \in 6..Len(S!Header(v)) : Quiet(S!Header(v)[k])
<1> DEFINE five == <<S!Pack(0, <<83, 80, 77, 73>>), S!Pack(4, <<9, 0>>),
                     S!Pack(6, <<0, 16, 0, 0>>), S!Pack(10, <<1, 0>>), S!Pack(12, <<0, 0>>)>>
           two == <<S!Pack(14, <<0, 104, 229, 207, 139, 1, 0, 0>>), S!Pack(22, S!Quad(1))>>
           more == IF v \in {"tc34", "tc36"} THEN <<>> ELSE two
<1>1. S!Header(v) = five \o more
  BY Zenon DEF S!Header, StringVectors
<1>2. Len(five) = 5 /\ IsSeq(five)
  BY Tuples, Zenon
<1>3. two[1] = S!Pack(14, <<0, 104, 229, 207, 139, 1, 0, 0>>) /\ two[2] = S!Pack(22, S!Quad(1))
  OBVIOUS
<1>4. Quiet(two[1]) /\ Quiet(two[2])
  BY <1>3 DEF Quiet, S!Pack
<1>5. IsSeq(two) /\ Len(two) = 2
  BY Tuples, Zenon
<1>6. /\ five[4] = S!Pack(10, <<1, 0>>) /\ five[5] = S!Pack(12, <<0, 0>>)
      /\ \A k \in 1..5 : five[k].call = "pack"
  BY DEF S!Pack
<1> HIDE DEF five, two
<1>7. IsSeq(more) /\ Len(more) \in Nat
  BY <1>5, Tuples
<1>8. \A k \in 1..Len(more) : Quiet(more[k])
  <2>1. CASE v \in {"tc34", "tc36"}
    <3>1. Len(more) = 0
      BY <2>1, Tuples
    <3> QED BY <3>1
  <2>2. CASE v \notin {"tc34", "tc36"}
    <3>1. more = two
      BY <2>2
    <3> HIDE DEF more
    <3>2. \A k \in 1..2 : k = 1 \/ k = 2
      OBVIOUS
    <3> QED BY <3>1, <3>2, <1>4, <1>5
  <2> QED BY <2>1, <2>2
<1> HIDE DEF more
<1> DEFINE all == five \o more
<1>9. Joined(five, more, all)
  BY <1>2, <1>7, Appended, Zenon
<1>10. S!Header(v) = all
  BY <1>1
<1> HIDE DEF all
<1>11. \A k \in 6..Len(all) : Quiet(all[k])
  <2>1. \A k \in 6..Len(five) : Quiet(five[k])
    BY <1>2
  <2> QED BY <1>2, <1>8, <1>9, <2>1, QuietJoined, SMTT(40)
<1>12. /\ IsSeq(all) /\ Len(all) \in Nat /\ Len(all) >= 5
       /\ \A k \in 1..5 : all[k] = five[k]
  BY <1>2, <1>7, <1>9 DEF Joined
<1> QED BY <1>6, <1>10, <1>11, <1>12

(* What a front part is. *)
Fronted(f) ==
    /\ IsSeq(f) /\ Len(f) \in Nat /\ Len(f) >= 5
    /\ f[4] = S!Pack(10, <<1, 0>>) /\ f[5] = S!Pack(12, <<0, 0>>)
    /\ \A k \in 1..5 : f[k].call = "pack"
    /\ \A k \in 6..Len(f) : Quiet(f[k])

LEMMA FrontedJoined ==
    ASSUME NEW f, NEW b, Fronted(f), IsSeq(b), \A k \in 1..Len(b) : Quiet(b[k])
    PROVE  Fronted(f \o b)
<1> DEFINE c == f \o b
<1>1. Joined(f, b, c)
  BY Appended, Zenon DEF Fronted
<1> HIDE DEF c
<1>2. \A k \in 6..Len(c) : Quiet(c[k])
  <2>1. 6 \in Nat \ {0} /\ 6 <= Len(f) + 1 /\ \A k \in 6..Len(f) : Quiet(f[k])
    BY DEF Fronted
  <2> QED BY <1>1, <2>1, QuietJoined
<1>3. IsSeq(c) /\ Len(c) \in Nat /\ Len(c) >= 5 /\ \A k \in 1..5 : c[k] = f[k]
  BY <1>1 DEF Joined, Fronted
<1>4. Fronted(c)
  BY <1>2, <1>3 DEF Fronted
<1> QED BY <1>4 DEF c

LEMMA QuietPieces ==
    ASSUME NEW v \in StringVectors
    PROVE  /\ IsSeq(<<S!Sum>>) /\ \A k \in 1..Len(<<S!Sum>>) : Quiet(<<S!Sum>>[k])
           /\ IsSeq(S!StringTable(v))
           /\ \A k \in 1..Len(S!StringTable(v)) : Quiet(S!StringTable(v)[k])
           /\ IsSeq(S!Catalog(v))
           /\ \A k \in 1..Len(S!Catalog(v)) : Quiet(S!Catalog(v)[k])
<1>1. ASSUME NEW a, Quiet(a)
      PROVE  IsSeq(<<a>>) /\ \A k \in 1..Len(<<a>>) : Quiet(<<a>>[k])
  BY <1>1, Tuples
<1>2. ASSUME NEW a, NEW b, Quiet(a), Quiet(b)
      PROVE  IsSeq(<<a, b>>) /\ \A k \in 1..Len(<<a, b>>) : Quiet(<<a, b>>[k])
  <2>1. \A k \in 1..2 : k = 1 \/ k = 2
    OBVIOUS
  <2> QED BY <1>2, <2>1, Tuples
<1>3. IsSeq(<<>>) /\ \A k \in 1..Len(<<>>) : Quiet(<<>>[k])
  BY Tuples
<1>4. Quiet(S!Sum)
  BY DEF Quiet, S!Sum
<1>5. ASSUME NEW part, NEW size, NEW value PROVE Quiet(S!Extend("dir", part, size, value))
  BY DEF Quiet, S!Extend
<1>6. ASSUME NEW n PROVE Quiet(S!Align("dir", n))
  BY DEF Quiet, S!Align
<1>7. IsSeq(S!StringTable(v)) /\ \A k \in 1..Len(S!StringTable(v)) : Quiet(S!StringTable(v)[k])
  BY <1>2, <1>5, Zenon DEF S!StringTable
<1>8. IsSeq(S!Catalog(v)) /\ \A k \in 1..Len(S!Catalog(v)) : Quiet(S!Catalog(v)[k])
  <2>1. CASE v = "tc34"
    BY <1>3, <2>1, Zenon DEF S!Catalog
  <2>2. CASE v # "tc34"
    BY <1>2, <1>5, <1>6, <2>2, ZenonT(40) DEF S!Catalog
  <2> QED BY <2>1, <2>2
<1> QED BY <1>1, <1>4, <1>7, <1>8, Zenon

LEMMA FrontIsFronted == ASSUME NEW v \in StringVectors PROVE Fronted(Opening(v))
<1>1. Fronted(S!Header(v))
  BY HeaderFacts DEF Fronted
<1>2. Fronted(S!Header(v) \o <<S!Sum>>)
  BY <1>1, QuietPieces, FrontedJoined, Zenon
<1>3. Fronted(S!Header(v) \o <<S!Sum>> \o S!StringTable(v))
  BY <1>2, QuietPieces, FrontedJoined, Zenon
<1>4. Fronted(S!Header(v) \o <<S!Sum>> \o S!StringTable(v) \o S!Catalog(v))
  BY <1>3, QuietPieces, FrontedJoined, Zenon
<1> QED BY <1>4, Zenon DEF Opening

(* The program of a string vector, call by call after the front part f.    *)
Written(c, f) ==
    LET n == Len(f)
    IN /\ n \in Nat /\ n >= 5 /\ Len(c) = n + 7 /\ \A k \in 1..n : c[k] = f[k]
       /\ c[n + 1] = S!Align("dir", 4096)
       /\ c[n + 2] = S!Join("hdr") /\ c[n + 3] = S!Join("dir")
       /\ c[n + 4] = [call |-> "open", file |-> "snapshot"]
       /\ c[n + 5] = [call |-> "write", file |-> "snapshot"]
       /\ c[n + 6] = [call |-> "open", file |-> "manifest"]
       /\ c[n + 7] = [call |-> "write", file |-> "manifest"]

LEMMA StringProgram ==
    ASSUME NEW v \in StringVectors PROVE Written(S!Program(v), Opening(v))
<1> DEFINE front == Opening(v)
           n == Len(front)
           mid == <<S!Align("dir", 4096), S!Join("hdr"), S!Join("dir")>>
           one == S!Write("snapshot")
           two == S!Write("manifest")
           a == front \o mid
           b == one \o two
           c == a \o b
<1>1. S!Program(v) = c
  <2>1. v # "tc37"
    BY VectorsAre
  <2>2. S!Program(v) = S!StringVector(v)
    BY <2>1 DEF S!Program
  <2> QED BY <2>2 DEF S!StringVector, Opening, S!Files
<1>2. /\ IsSeq(one) /\ Len(one) = 2 /\ IsSeq(two) /\ Len(two) = 2
      /\ IsSeq(mid) /\ Len(mid) = 3
  <2>1. ASSUME NEW x, NEW y PROVE IsSeq(<<x, y>>) /\ Len(<<x, y>>) = 2
    BY Tuples
  <2>2. ASSUME NEW x, NEW y, NEW z PROVE IsSeq(<<x, y, z>>) /\ Len(<<x, y, z>>) = 3
    BY Tuples
  <2>3. IsSeq(one) /\ Len(one) = 2
    BY <2>1, Zenon DEF S!Write
  <2>4. IsSeq(two) /\ Len(two) = 2
    BY <2>1, Zenon DEF S!Write
  <2>5. IsSeq(mid) /\ Len(mid) = 3
    BY <2>2, SMT
  <2> QED BY <2>3, <2>4, <2>5, SMT
<1>3. IsSeq(front) /\ Len(front) \in Nat /\ Len(front) >= 5
  BY FrontIsFronted DEF Fronted
<1>4. /\ mid[1] = S!Align("dir", 4096) /\ mid[2] = S!Join("hdr") /\ mid[3] = S!Join("dir")
      /\ one[1] = [call |-> "open", file |-> "snapshot"]
      /\ one[2] = [call |-> "write", file |-> "snapshot"]
      /\ two[1] = [call |-> "open", file |-> "manifest"]
      /\ two[2] = [call |-> "write", file |-> "manifest"]
  BY DEF S!Write
<1> HIDE DEF front, mid, one, two
<1>5. Joined(front, mid, a) /\ Joined(one, two, b)
  BY <1>2, <1>3, Appended, Zenon
<1> HIDE DEF a, b
<1>6. Joined(a, b, c)
  <2>1. IsSeq(a) /\ IsSeq(b)
    BY <1>5 DEF Joined
  <2> QED BY <2>1, Appended, Zenon
<1> HIDE DEF c
<1>7. /\ Len(a) = n + 3 /\ \A k \in 1..n : a[k] = front[k]
      /\ a[n + 1] = mid[1] /\ a[n + 2] = mid[2] /\ a[n + 3] = mid[3]
  BY <1>2, <1>3, <1>5 DEF Joined
<1>8. Len(b) = 4 /\ b[1] = one[1] /\ b[2] = one[2] /\ b[3] = two[1] /\ b[4] = two[2]
  BY <1>2, <1>5 DEF Joined
<1>9. n \in Nat /\ n >= 5
  BY <1>3 
<1>10. /\ Len(c) = n + 7 /\ \A k \in 1..(n + 3) : c[k] = a[k]
       /\ c[n + 3 + 1] = b[1] /\ c[n + 3 + 2] = b[2]
       /\ c[n + 3 + 3] = b[3] /\ c[n + 3 + 4] = b[4]
  BY <1>6, <1>7, <1>8, <1>9 DEF Joined
<1>11. /\ n + 3 + 1 = n + 4 /\ n + 3 + 2 = n + 5
       /\ n + 3 + 3 = n + 6 /\ n + 3 + 4 = n + 7
       /\ n + 1 \in 1..(n + 3) /\ n + 2 \in 1..(n + 3)
       /\ n + 3 \in 1..(n + 3) /\ 1..n \subseteq 1..(n + 3)
  BY <1>9
<1>12. \A k \in 1..n : c[k] = front[k]
  BY <1>7, <1>10, <1>11
<1>13. c[n + 1] = mid[1] /\ c[n + 2] = mid[2] /\ c[n + 3] = mid[3]
  BY <1>7, <1>10, <1>11
<1>14. /\ c[n + 4] = one[1] /\ c[n + 5] = one[2]
       /\ c[n + 6] = two[1] /\ c[n + 7] = two[2]
  BY <1>8, <1>10, <1>11
<1>15. Written(c, front)
  BY <1>4, <1>9, <1>10, <1>12, <1>13, <1>14 DEF Written
<1> QED BY <1>1, <1>15 DEF front

(* The program of tc37 writes no manifest.                                 *)
Harmless(c) == c.call \in {"open", "write"} => c.file = "snapshot"
AllHarmless(s) == IsSeq(s) /\ \A k \in 1..Len(s) : Harmless(s[k])

LEMMA HarmlessJoined ==
    ASSUME NEW a, NEW b, AllHarmless(a), AllHarmless(b) PROVE AllHarmless(a \o b)
<1> DEFINE c == a \o b
<1>1. Joined(a, b, c)
  BY Appended, Zenon DEF AllHarmless
<1> HIDE DEF c
<1>2. ASSUME NEW k \in 1..Len(c) PROVE Harmless(c[k])
  <2>1. CASE k \in 1..Len(a)
    BY <1>1, <2>1 DEF Joined, AllHarmless
  <2>2. CASE k \notin 1..Len(a)
    <3>1. k - Len(a) \in 1..Len(b) /\ k = Len(a) + (k - Len(a))
      BY <1>1, <2>2 DEF Joined
    <3>2. c[Len(a) + (k - Len(a))] = b[k - Len(a)]
      BY <1>1, <3>1 DEF Joined
    <3> QED BY <3>1, <3>2 DEF AllHarmless
  <2> QED BY <2>1, <2>2
<1>3. AllHarmless(c)
  BY <1>1, <1>2 DEF AllHarmless, Joined
<1> QED BY <1>3 DEF c

LEMMA HarmlessTuples ==
    /\ \A a, b : Harmless(a) /\ Harmless(b) => AllHarmless(<<a, b>>)
    /\ \A a, b, c : Harmless(a) /\ Harmless(b) /\ Harmless(c) => AllHarmless(<<a, b, c>>)
    /\ \A a, b, c, d : Harmless(a) /\ Harmless(b) /\ Harmless(c) /\ Harmless(d)
            => AllHarmless(<<a, b, c, d>>)
    /\ \A a, b, c, d, e :
            Harmless(a) /\ Harmless(b) /\ Harmless(c) /\ Harmless(d) /\ Harmless(e)
            => AllHarmless(<<a, b, c, d, e>>)
<1>1. \A k \in 1..5 : k = 1 \/ k = 2 \/ k = 3 \/ k = 4 \/ k = 5
  OBVIOUS
<1>2. ASSUME NEW a, NEW b, Harmless(a), Harmless(b) PROVE AllHarmless(<<a, b>>)
  BY <1>1, <1>2, Tuples DEF AllHarmless
<1>3. ASSUME NEW a, NEW b, NEW c, Harmless(a), Harmless(b), Harmless(c)
      PROVE  AllHarmless(<<a, b, c>>)
  BY <1>1, <1>3, Tuples DEF AllHarmless
<1>4. ASSUME NEW a, NEW b, NEW c, NEW d, Harmless(a), Harmless(b), Harmless(c), Harmless(d)
      PROVE  AllHarmless(<<a, b, c, d>>)
  BY <1>1, <1>4, Tuples DEF AllHarmless
<1>5. ASSUME NEW a, NEW b, NEW c, NEW d, NEW e,
             Harmless(a), Harmless(b), Harmless(c), Harmless(d), Harmless(e)
      PROVE  AllHarmless(<<a, b, c, d, e>>)
  BY <1>1, <1>5, Tuples DEF AllHarmless
<1> QED BY <1>2, <1>3, <1>4, <1>5

LEMMA NullProgram == AllHarmless(S!Program("tc37"))
<1>1. \A at, bytes : Harmless(S!Pack(at, bytes))
  BY DEF Harmless, S!Pack
<1>2. \A b, part, size, value : Harmless(S!Extend(b, part, size, value))
  BY DEF Harmless, S!Extend
<1>3. \A b, n : Harmless(S!Align(b, n)) /\ Harmless(S!Join(b))
  BY DEF Harmless, S!Align, S!Join
<1>4. Harmless(S!Sum) /\ \A at : Harmless(S!PackSize(at))
  BY DEF Harmless, S!Sum, S!PackSize
<1>5. AllHarmless(S!Header("tc37"))
  <2> DEFINE one == S!Pack(12, <<IF "tc37" = "tc37" THEN 1 ELSE 0, 0>>)
             five == <<S!Pack(0, <<83, 80, 77, 73>>), S!Pack(4, <<9, 0>>),
                       S!Pack(6, <<0, 16, 0, 0>>), S!Pack(10, <<1, 0>>), one>>
             two == <<S!Pack(14, <<0, 104, 229, 207, 139, 1, 0, 0>>), S!Pack(22, S!Quad(1))>>
  <2>1. S!Header("tc37") = five \o two
    BY DEF S!Header
  <2>2. AllHarmless(five)
    BY <1>1, HarmlessTuples
  <2>3. AllHarmless(two)
    BY <1>1, HarmlessTuples
  <2> HIDE DEF five, two
  <2> QED BY <2>1, <2>2, <2>3, HarmlessJoined
<1>6. AllHarmless(S!StringTable("tc37"))
  BY <1>2, HarmlessTuples DEF S!StringTable
<1>7. AllHarmless(S!Catalog("tc37"))
  <2>1. S!Catalog("tc37") = <<S!Align("dir", 128), S!Extend("dir", "domain", 16, <<S!Name["tc37"]>>)>>
    BY DEF S!Catalog
  <2> QED BY <1>2, <1>3, <2>1, HarmlessTuples
<1>8. AllHarmless(S!Relation)
  BY <1>2, <1>3, HarmlessTuples DEF S!Relation
<1>9. AllHarmless(S!Seal)
  BY <1>1, <1>4, HarmlessTuples DEF S!Seal
<1>10. AllHarmless(S!Attribute)
  BY <1>2, <1>3, HarmlessTuples DEF S!Attribute
<1> DEFINE four == <<S!Join("hdr"), S!Join("dir"), S!Align("full", 8192), S!Join("data")>>
<1>11. AllHarmless(four)
  BY <1>3, HarmlessTuples
<1>12. AllHarmless(S!Write("snapshot"))
  <2> DEFINE o == [call |-> "open", file |-> "snapshot"]
             w == [call |-> "write", file |-> "snapshot"]
  <2>1. Harmless(o) /\ Harmless(w)
    BY DEF Harmless
  <2>2. S!Write("snapshot") = <<o, w>>
    BY DEF S!Write
  <2> HIDE DEF o, w
  <2> QED BY <2>1, <2>2, HarmlessTuples
<1>13. S!Program("tc37")
         = S!Header("tc37") \o S!StringTable("tc37") \o S!Catalog("tc37") \o S!Relation
           \o S!Seal \o S!Attribute \o four \o S!Write("snapshot")
  BY DEF S!Program, S!NullVector
<1> HIDE DEF four
<1>14. AllHarmless(S!Header("tc37") \o S!StringTable("tc37"))
  BY <1>5, <1>6, HarmlessJoined, Zenon
<1>15. AllHarmless(S!Header("tc37") \o S!StringTable("tc37") \o S!Catalog("tc37"))
  BY <1>7, <1>14, HarmlessJoined, Zenon
<1>16. AllHarmless(S!Header("tc37") \o S!StringTable("tc37") \o S!Catalog("tc37") \o S!Relation)
  BY <1>8, <1>15, HarmlessJoined, Zenon
<1>17. AllHarmless(S!Header("tc37") \o S!StringTable("tc37") \o S!Catalog("tc37") \o S!Relation
                   \o S!Seal)
  BY <1>9, <1>16, HarmlessJoined, Zenon
<1>18. AllHarmless(S!Header("tc37") \o S!StringTable("tc37") \o S!Catalog("tc37") \o S!Relation
                   \o S!Seal \o S!Attribute)
  BY <1>10, <1>17, HarmlessJoined, Zenon
<1>19. AllHarmless(S!Header("tc37") \o S!StringTable("tc37") \o S!Catalog("tc37") \o S!Relation
                   \o S!Seal \o S!Attribute \o four)
  BY <1>11, <1>18, HarmlessJoined, Zenon
<1> QED BY <1>12, <1>13, <1>19, HarmlessJoined, Zenon

-----------------------------------------------------------------------------
(* Runs.  What a call makes of the header and the buffers is determined by *)
(* the call, so a program has one run: the same calls make the same bytes  *)
(* however often and after whatever they are made.                         *)
LEMMA SetInduction ==
    ASSUME NEW I, 0 \in I, \A n \in Nat : n \in I => n + 1 \in I
    PROVE  Nat \subseteq I
<1> SUFFICES ASSUME NEW m \in Nat, m \notin I PROVE FALSE
  OBVIOUS
<1> DEFINE T == Nat \ I
           R == OpToRel(<, Nat)
<1>1. T \subseteq Nat /\ T # {}
  OBVIOUS
<1>2. IsWellFoundedOn(R, Nat)
  BY NatLessThanWellFounded DEF OpToRel
<1> HIDE DEF R, T
<1>3. PICK x \in T : \A y \in T : ~ (<<y, x>> \in R)
  BY <1>1, <1>2, WFMin
<1>4. x \in Nat /\ x \notin I /\ x # 0 /\ x - 1 \in Nat
  BY DEF T
<1>5. x - 1 \in I
  <2>1. <<x - 1, x>> \in R
    BY <1>4 DEF R, OpToRel
  <2> QED BY <1>3, <1>4, <2>1 DEF T
<1> QED BY <1>4, <1>5

PackedIn(h, at, bytes) ==
    [k \in 0..63 |-> IF k - at \in 0..(Len(bytes) - 1) THEN bytes[k - at + 1] ELSE h[k]]
SealedIn(h) ==
    LET crc == S!Number(S!Crc16([k \in 1..62 |-> h[k - 1]]))
    IN PackedIn(h, 62, <<crc % 256, crc \div 256>>)
HdrAfter(c, h, b) ==
    IF c.call = "pack" THEN PackedIn(h, c.at, c.bytes)
    ELSE IF c.call = "size" THEN PackedIn(h, c.at, S!Quad(S!Size(b.dir)))
    ELSE IF c.call = "sum" THEN SealedIn(h) ELSE h
Joining(c, h, b) ==
    IF c.buf = "hdr" THEN <<S!Segment("header", 4096, [k \in 1..64 |-> h[k - 1]])>> ELSE b[c.buf]
BufAfter(c, h, b) ==
    IF c.call = "extend" THEN [b EXCEPT ![c.buf] = @ \o <<c.segment>>]
    ELSE IF c.call = "align"
    THEN [b EXCEPT ![c.buf] = @ \o <<S!Segment("pad", S!Padding(S!Size(b[c.buf]), c.align), <<>>)>>]
    ELSE IF c.call = "join" THEN [b EXCEPT !["full"] = @ \o Joining(c, h, b)] ELSE b
After(c, s) == <<HdrAfter(c, s[1], s[2]), BufAfter(c, s[1], s[2])>>

(* t is the run of program p before its n-th call.                         *)
Run(p, n, t) ==
    /\ t[1] = <<S!NewHeader, S!NewBuffers>>
    /\ \A k \in 1..(n - 1) : t[k + 1] = After(p[k], t[k])
Reached(p, n, s) == \E t : Run(p, n, t) /\ t[n] = s

LEMMA ReachedFirst == ASSUME NEW p PROVE Reached(p, 1, <<S!NewHeader, S!NewBuffers>>)
<1> DEFINE t == [k \in 1..1 |-> <<S!NewHeader, S!NewBuffers>>]
<1>1. t[1] = <<S!NewHeader, S!NewBuffers>>
  OBVIOUS
<1>2. \A k \in 1..(1 - 1) : FALSE
  OBVIOUS
<1> HIDE DEF t
<1>3. Run(p, 1, t)
  BY <1>1, <1>2 DEF Run
<1> QED BY <1>1, <1>3 DEF Reached

LEMMA ReachedNext ==
    ASSUME NEW p, NEW n \in Nat \ {0}, NEW s, Reached(p, n, s)
    PROVE  Reached(p, n + 1, After(p[n], s))
<1>1. PICK t : Run(p, n, t) /\ t[n] = s
  BY DEF Reached
<1> DEFINE a(k) == After(p[k], t[k])
           u == [k \in 1..(n + 1) |-> IF k <= n THEN t[k] ELSE a(n)]
<1> HIDE DEF a
<1>2. u[n + 1] = a(n) /\ \A k \in 1..n : u[k] = t[k]
  OBVIOUS
<1>3. u[1] = t[1]
  BY <1>2
<1> HIDE DEF u
<1>4. ASSUME NEW k \in 1..((n + 1) - 1) PROVE u[k + 1] = After(p[k], u[k])
  <2>1. CASE k = n
    BY <1>2, <2>1 DEF a
  <2>2. CASE k # n
    <3>1. k \in 1..(n - 1) /\ k \in 1..n /\ k + 1 \in 1..n
      BY <2>2
    <3>2. t[k + 1] = After(p[k], t[k])
      BY <1>1, <3>1 DEF Run
    <3> QED BY <1>2, <3>1, <3>2
  <2> QED BY <2>1, <2>2
<1>5. Run(p, n + 1, u)
  BY <1>1, <1>3, <1>4 DEF Run
<1> QED BY <1>1, <1>2, <1>5 DEF Reached, a

LEMMA OneRun ==
    ASSUME NEW p, NEW n \in Nat \ {0}, NEW r, NEW s, Reached(p, n, r), Reached(p, n, s)
    PROVE  r = s
<1>1. PICK t : Run(p, n, t) /\ t[n] = r
  BY DEF Reached
<1>2. PICK u : Run(p, n, u) /\ u[n] = s
  BY DEF Reached
<1> DEFINE E == {k \in Nat : k < n => t[k + 1] = u[k + 1]}
<1>3. 0 \in E
  BY <1>1, <1>2 DEF Run
<1>4. ASSUME NEW k \in Nat, k \in E PROVE k + 1 \in E
  <2>1. SUFFICES ASSUME k + 1 < n PROVE t[(k + 1) + 1] = u[(k + 1) + 1]
    OBVIOUS
  <2>2. t[k + 1] = u[k + 1] /\ k + 1 \in 1..(n - 1)
    BY <1>4, <2>1
  <2>3. t[(k + 1) + 1] = After(p[k + 1], t[k + 1]) /\ u[(k + 1) + 1] = After(p[k + 1], u[k + 1])
    BY <1>1, <1>2, <2>2 DEF Run
  <2> QED BY <2>2, <2>3
<1> HIDE DEF E
<1>5. Nat \subseteq E
  BY <1>3, <1>4, SetInduction
<1>6. n - 1 \in E /\ n - 1 < n /\ (n - 1) + 1 = n
  BY <1>5
<1> QED BY <1>1, <1>2, <1>6 DEF E

-----------------------------------------------------------------------------
(* What a string vector's run has made before its k-th call.               *)
Buffers == {"dir", "data", "full"}
Buffered(b) == DOMAIN b = Buffers /\ \A x \in Buffers : IsSeq(b[x])
(* One domain and no relation.                                             *)
Counted(h) == h[10] = 1 /\ h[11] = 0 /\ h[12] = 0 /\ h[13] = 0
(* A snapshot begins with a header that says so.                           *)
Headed(f) ==
    /\ IsSeq(f) /\ Len(f) \in Nat \ {0} /\ f[1].part = "header"
    /\ f[1].value[11] = 1 /\ f[1].value[12] = 0 /\ f[1].value[13] = 0 /\ f[1].value[14] = 0
Bytes(v, k, s) ==
    LET n == Len(Opening(v))
    IN /\ Reached(S!Program(v), k, s) /\ Buffered(s[2])
       /\ k = 5 => s[1][10] = 1 /\ s[1][11] = 0
       /\ k \in 6..(n + 2) => Counted(s[1])
       /\ k <= n + 2 => s[2].full = <<>>
       /\ k > n + 2 => Headed(s[2].full)

LEMMA PackedBefore ==
    ASSUME NEW h, NEW at \in Nat, NEW bytes, NEW k \in 0..63, k < at
    PROVE  PackedIn(h, at, bytes)[k] = h[k]
BY DEF PackedIn

LEMMA PackedTwo ==
    ASSUME NEW h, NEW x, NEW y
    PROVE  /\ PackedIn(h, 10, <<x, y>>)[10] = x /\ PackedIn(h, 10, <<x, y>>)[11] = y
           /\ PackedIn(h, 12, <<x, y>>)[12] = x /\ PackedIn(h, 12, <<x, y>>)[13] = y
BY DEF PackedIn

LEMMA QuietKeeps ==
    ASSUME NEW c, NEW s, Quiet(c), Buffered(s[2]), Counted(s[1])
    PROVE  /\ Buffered(After(c, s)[2]) /\ Counted(After(c, s)[1])
           /\ After(c, s)[2].full = s[2].full
<1> DEFINE h == s[1]
           b == s[2]
<1>1. After(c, s)[1] = HdrAfter(c, h, b) /\ After(c, s)[2] = BufAfter(c, h, b)
  BY DEF After
<1>2. Counted(HdrAfter(c, h, b))
  <2>1. ASSUME NEW at \in Nat, at >= 14, NEW bytes PROVE Counted(PackedIn(h, at, bytes))
    <3>1. \A k \in 10..13 : k \in 0..63 /\ k < at
      BY <2>1
    <3>2. \A k \in 10..13 : PackedIn(h, at, bytes)[k] = h[k]
      BY <3>1, PackedBefore
    <3> QED BY <3>2 DEF Counted
  <2>2. CASE c.call = "pack"
    BY <2>1, <2>2 DEF HdrAfter, Quiet
  <2>3. CASE c.call = "sum"
    BY <2>1, <2>3 DEF HdrAfter, SealedIn
  <2>4. CASE c.call \in {"extend", "align"}
    BY <2>4 DEF HdrAfter
  <2> QED BY <2>2, <2>3, <2>4 DEF Quiet
<1>3. Buffered(BufAfter(c, h, b)) /\ BufAfter(c, h, b).full = b.full
  <2>1. ASSUME NEW x
        PROVE  /\ Buffered([b EXCEPT !["dir"] = @ \o <<x>>])
               /\ [b EXCEPT !["dir"] = @ \o <<x>>].full = b.full
    <3>1. IsSeq(b["dir"] \o <<x>>)
      BY Appended, Tuples DEF Buffered, Buffers, Joined
    <3> QED BY <3>1 DEF Buffered, Buffers
  <2>2. CASE c.call = "extend"
    BY <2>1, <2>2 DEF BufAfter, Quiet
  <2>3. CASE c.call = "align"
    BY <2>1, <2>3 DEF BufAfter, Quiet
  <2>4. CASE c.call \in {"pack", "sum"}
    BY <2>4 DEF BufAfter
  <2> QED BY <2>2, <2>3, <2>4 DEF Quiet
<1> QED BY <1>1, <1>2, <1>3

LEMMA HeadedOne ==
    ASSUME NEW one, one.part = "header", one.value[11] = 1, one.value[12] = 0,
           one.value[13] = 0, one.value[14] = 0
    PROVE  Headed(<<one>>)
<1> DEFINE w == <<one>>
<1>1. IsSeq(w) /\ Len(w) = 1 /\ w[1] = one
  BY Tuples
<1> HIDE DEF w
<1>2. Headed(w)
  BY <1>1 DEF Headed
<1> QED BY <1>2 DEF w

LEMMA HeadedJoined ==
    ASSUME NEW f, NEW b, Headed(f), IsSeq(b) PROVE Headed(f \o b) /\ IsSeq(f \o b)
<1> DEFINE c == f \o b
<1>1. Joined(f, b, c)
  BY Appended, Zenon DEF Headed
<1> HIDE DEF c
<1>2. 1 \in 1..Len(f) /\ Len(c) \in Nat \ {0} /\ IsSeq(c)
  BY <1>1 DEF Joined, Headed
<1>3. c[1] = f[1]
  BY <1>1, <1>2 DEF Joined
<1>4. Headed(c)
  BY <1>2, <1>3 DEF Headed
<1> QED BY <1>2, <1>4 DEF c

LEMMA BytesNext ==
    ASSUME NEW v \in StringVectors, NEW k \in 1..(Len(Opening(v)) + 3), NEW s, Bytes(v, k, s)
    PROVE  Bytes(v, k + 1, After(S!Program(v)[k], s))
<1> DEFINE f == Opening(v)
           p == S!Program(v)
           n == Len(f)
           c == p[k]
           h == s[1]
           b == s[2]
           r == After(c, s)
<1>1. Written(p, f) /\ Fronted(f)
  BY StringProgram, FrontIsFronted
<1>a. /\ Bytes(v, k + 1, r) <=>
          /\ Reached(p, k + 1, r) /\ Buffered(r[2])
          /\ k + 1 = 5 => r[1][10] = 1 /\ r[1][11] = 0
          /\ k + 1 \in 6..(n + 2) => Counted(r[1])
          /\ k + 1 <= n + 2 => r[2].full = <<>>
          /\ k + 1 > n + 2 => Headed(r[2].full)
      /\ Reached(p, k, s)
  BY DEF Bytes
<1>4. /\ Buffered(b)
      /\ k = 5 => h[10] = 1 /\ h[11] = 0
      /\ k \in 6..(n + 2) => Counted(h)
      /\ k <= n + 2 => b.full = <<>>
      /\ k > n + 2 => Headed(b.full)
  BY DEF Bytes
<1> HIDE DEF f, p
<1>2. n \in Nat /\ n >= 5 /\ k \in 1..(n + 3)
  BY <1>1 DEF Written, f
<1>3. Reached(p, k + 1, r)
  BY <1>2, <1>a, ReachedNext
<1>5. r[1] = HdrAfter(c, h, b) /\ r[2] = BufAfter(c, h, b)
  BY DEF After
<1> HIDE DEF r, h, b
<1>6. SUFFICES /\ Buffered(r[2])
               /\ k = 4 => r[1][10] = 1 /\ r[1][11] = 0
               /\ k \in 5..(n + 1) => Counted(r[1])
               /\ k <= n + 1 => r[2].full = <<>>
               /\ k > n + 1 => Headed(r[2].full)
  <2>1. Bytes(v, k + 1, r)
    BY <1>2, <1>3, <1>6, <1>a
  <2> QED BY <2>1 DEF r, p
<1>7. CASE k <= 5
  <2>1. c = f[k] /\ c.call = "pack"
    <3>1. k \in 1..5 /\ k \in 1..n
      BY <1>2, <1>7
    <3> QED BY <1>1, <3>1, SMTT(40) DEF Written, Fronted
  <2>2. r[2] = b /\ r[1] = PackedIn(h, c.at, c.bytes)
    BY <1>5, <2>1 DEF HdrAfter, BufAfter
  <2>3. k = 4 => r[1][10] = 1 /\ r[1][11] = 0
    <3>1. k = 4 => c = S!Pack(10, <<1, 0>>)
      BY <1>1, <2>1 DEF Fronted
    <3>2. k = 4 => r[1] = PackedIn(h, 10, <<1, 0>>)
      BY <2>2, <3>1 DEF S!Pack
    <3>3. PackedIn(h, 10, <<1, 0>>)[10] = 1 /\ PackedIn(h, 10, <<1, 0>>)[11] = 0
      BY PackedTwo
    <3> QED BY <3>2, <3>3
  <2>4. k = 5 => Counted(r[1])
    <3>1. SUFFICES ASSUME k = 5 PROVE Counted(r[1])
      OBVIOUS
    <3>2. c = S!Pack(12, <<0, 0>>)
      BY <1>1, <2>1, <3>1 DEF Fronted
    <3>3. r[1] = PackedIn(h, 12, <<0, 0>>)
      BY <2>2, <3>2 DEF S!Pack
    <3>4. r[1][12] = 0 /\ r[1][13] = 0
      <4>1. PackedIn(h, 12, <<0, 0>>)[12] = 0 /\ PackedIn(h, 12, <<0, 0>>)[13] = 0
        BY PackedTwo
      <4> QED BY <3>3, <4>1
    <3>5. r[1][10] = h[10] /\ r[1][11] = h[11]
      BY <3>3, PackedBefore
    <3> QED BY <1>4, <3>1, <3>4, <3>5 DEF Counted
  <2> QED BY <1>2, <1>4, <1>7, <2>2, <2>3, <2>4
<1>8. CASE k > 5 /\ k <= n + 1
  <2>1. Quiet(c)
    <3>1. CASE k <= n
      BY <1>1, <1>2, <1>8, <3>1 DEF Written, Fronted
    <3>2. CASE k = n + 1
      BY <1>1, <3>2 DEF Written, Quiet, S!Align
    <3> QED BY <1>2, <1>8, <3>1, <3>2
  <2>2. Counted(h)
    BY <1>2, <1>4, <1>8
  <2>3. Buffered(r[2]) /\ Counted(r[1]) /\ r[2].full = b.full
    BY <1>4, <2>1, <2>2, QuietKeeps DEF r, h, b
  <2> QED BY <1>2, <1>4, <1>8, <2>3
<1>9. CASE k = n + 2
  <2> DEFINE one == S!Segment("header", 4096, [j \in 1..64 |-> h[j - 1]])
  <2>1. c = S!Join("hdr")
    BY <1>1, <1>9 DEF Written
  <2>2. r[2] = [b EXCEPT !["full"] = @ \o <<one>>]
    BY <1>5, <2>1 DEF BufAfter, Joining, S!Join
  <2>3. Counted(h) /\ b.full = <<>> /\ Buffered(b)
    BY <1>2, <1>4, <1>9
  <2>4. one.part = "header" /\ one.value = [j \in 1..64 |-> h[j - 1]]
    BY SMT DEF S!Segment
  <2> HIDE DEF one
  <2>5. one.value[11] = 1 /\ one.value[12] = 0 /\ one.value[13] = 0 /\ one.value[14] = 0
    BY <2>3, <2>4 DEF Counted
  <2>6. r[2].full = <<one>>
    <3>1. r[2].full = <<>> \o <<one>>
      BY <2>2, <2>3 DEF Buffered, Buffers
    <3> QED BY <3>1
  <2>7. Headed(r[2].full)
    BY <2>4, <2>5, <2>6, HeadedOne
  <2>8. Buffered(r[2])
    BY <2>2, <2>3, <2>7 DEF Buffered, Buffers, Headed
  <2> QED BY <1>2, <1>9, <2>7, <2>8
<1>10. CASE k = n + 3
  <2>1. c = S!Join("dir")
    BY <1>1, <1>10 DEF Written
  <2>2. r[2] = [b EXCEPT !["full"] = @ \o b["dir"]]
    BY <1>5, <2>1 DEF BufAfter, Joining, S!Join
  <2>3. Buffered(b) /\ Headed(b.full)
    BY <1>2, <1>4, <1>10
  <2>4. r[2].full = b["full"] \o b["dir"]
    BY <2>2, <2>3 DEF Buffered, Buffers
  <2>5. Headed(r[2].full) /\ IsSeq(r[2].full)
    BY <2>3, <2>4, HeadedJoined DEF Buffered, Buffers
  <2>6. Buffered(r[2])
    BY <2>2, <2>3, <2>5 DEF Buffered, Buffers
  <2> QED BY <1>2, <1>10, <2>5, <2>6
<1> QED BY <1>2, <1>7, <1>8, <1>9, <1>10

LEMMA BytesFirst ==
    ASSUME NEW v \in StringVectors PROVE Bytes(v, 1, <<S!NewHeader, S!NewBuffers>>)
<1> DEFINE n == Len(Opening(v))
           b == S!NewBuffers
<1>1. n \in Nat /\ n >= 5
  BY FrontIsFronted DEF Fronted
<1>2. Buffered(b) /\ b.full = <<>>
  BY Tuples DEF Buffered, Buffers, S!NewBuffers
<1>3. Reached(S!Program(v), 1, <<S!NewHeader, b>>)
  BY ReachedFirst
<1> HIDE DEF n, b
<1>4. 1 \notin 6..(n + 2) /\ 1 # 5 /\ ~(1 > n + 2)
  BY <1>1
<1> QED BY <1>2, <1>3, <1>4 DEF Bytes, n, b

-----------------------------------------------------------------------------
(* The files.  A snapshot is as committed, torn or what a whole run makes; *)
(* once its manifest has been touched it is not as committed.              *)
Made(v, f) == \E s : Bytes(v, Len(Opening(v)) + 4, s) /\ f = s[2].full
Saved(v) ==
    LET m == disk[v].manifest
        f == disk[v].snapshot
    IN /\ f \in {S!OLD, torn} \/ Made(v, f)
       /\ \/ m = S!Manifest(v, 0, S!OLD)
          \/ /\ f = torn \/ Made(v, f)
             /\ m = torn \/ \E g : Made(v, g) /\ m = S!Manifest(v, 0, g)
(* The script that runs: where it is in the program of its vector v.       *)
Building(v) ==
    LET n == Len(Opening(v))
    IN /\ pc <= n + 4 => Bytes(v, pc, <<hdr, buf>>)
       /\ pc > n + 4 => Bytes(v, n + 4, <<hdr, buf>>)
       /\ pc \in {n + 6, n + 7} => disk[v].snapshot = buf.full
Fresh == pc = 1 /\ hdr = S!NewHeader /\ buf = S!NewBuffers
Typing ==
    /\ todo \in Seq(S!Vectors) /\ pc \in Nat \ {0}
    /\ DOMAIN disk = S!Vectors
    /\ \A v \in S!Vectors : DOMAIN disk[v] = {"snapshot", "manifest"}
SInv ==
    /\ Typing
    /\ todo = <<>> => Fresh
    /\ disk["tc37"].manifest = S!Manifest("tc37", 0, S!OLD)
    /\ \A v \in StringVectors : Saved(v)
    /\ todo # <<>> => \A v \in StringVectors : v = S!This => Building(v)

FreshIsBuilding == Fresh => \A v \in StringVectors : Building(v)
LEMMA FreshBuilds == FreshIsBuilding
<1> SUFFICES ASSUME NEW v \in StringVectors, Fresh PROVE Building(v)
  BY DEF FreshIsBuilding
<1>1. Len(Opening(v)) \in Nat /\ Len(Opening(v)) >= 5
  BY FrontIsFronted DEF Fronted
<1>2. Bytes(v, 1, <<hdr, buf>>)
  BY BytesFirst DEF Fresh
<1> QED BY <1>1, <1>2 DEF Building, Fresh

LEMMA ByteStep ==
    ASSUME S!DoPack \/ S!DoSize \/ S!DoSum \/ S!DoExtend \/ S!DoAlign \/ S!DoJoin
    PROVE  /\ todo # <<>> /\ pc <= Len(S!Program(S!This))
           /\ S!Call.call \in {"pack", "size", "sum", "extend", "align", "join"}
           /\ pc' = pc + 1 /\ UNCHANGED <<todo, disk>>
           /\ <<hdr', buf'>> = After(S!Call, <<hdr, buf>>)
<1> DEFINE c == S!Call
           s == <<hdr, buf>>
<1>0. After(c, s) = <<HdrAfter(c, hdr, buf), BufAfter(c, hdr, buf)>>
  BY DEF After
<1>a. \A at, bytes : S!Packed(at, bytes) = PackedIn(hdr, at, bytes)
  BY DEF S!Packed, PackedIn
<1>1. CASE S!DoPack
  BY <1>1, <1>0, <1>a DEF S!DoPack, S!Running, HdrAfter, BufAfter
<1>2. CASE S!DoSize
  BY <1>2, <1>0, <1>a DEF S!DoSize, S!Running, HdrAfter, BufAfter
<1>3. CASE S!DoSum
  BY <1>3, <1>0, <1>a DEF S!DoSum, S!Running, HdrAfter, BufAfter, SealedIn
<1>4. CASE S!DoExtend
  BY <1>4, <1>0 DEF S!DoExtend, S!Running, S!Grow, HdrAfter, BufAfter
<1>5. CASE S!DoAlign
  BY <1>5, <1>0 DEF S!DoAlign, S!Running, S!Grow, HdrAfter, BufAfter
<1>6. CASE S!DoJoin
  BY <1>6, <1>0 DEF S!DoJoin, S!Running, S!Grow, HdrAfter, BufAfter, Joining
<1> QED BY <1>1, <1>2, <1>3, <1>4, <1>5, <1>6

LEMMA FileStep ==
    ASSUME S!DoOpen \/ S!DoWrite
    PROVE  /\ todo # <<>> /\ pc <= Len(S!Program(S!This)) /\ S!Call.call \in {"open", "write"}
           /\ pc' = pc + 1 /\ UNCHANGED <<todo, hdr, buf>>
           /\ disk' = [disk EXCEPT ![S!This][S!Call.file] =
                          IF S!Call.call = "open" THEN torn
                          ELSE IF S!Call.file = "snapshot" THEN buf.full
                          ELSE S!Manifest(S!This, 0, buf.full)]
<1>1. CASE S!DoOpen
  BY <1>1 DEF S!DoOpen, S!Running
<1>2. CASE S!DoWrite
  BY <1>2 DEF S!DoWrite, S!Running
<1> QED BY <1>1, <1>2

(* Where the open and write calls of a string vector's program are.        *)
LEMMA CallsByPlace ==
    ASSUME NEW v \in StringVectors, NEW k \in 1..Len(S!Program(v))
    PROVE  /\ Len(Opening(v)) \in Nat /\ k <= Len(Opening(v)) + 7
           /\ S!Program(v)[k].call \in {"open", "write"} <=> k > Len(Opening(v)) + 3
<1> DEFINE f == Opening(v)
           p == S!Program(v)
           n == Len(f)
<1>1. Written(p, f) /\ Fronted(f)
  BY StringProgram, FrontIsFronted
<1> HIDE DEF f, p
<1>2. n \in Nat /\ n >= 5 /\ Len(p) = n + 7
  BY <1>1 DEF Written, n
<1>3. k \in 1..(n + 7)
  BY <1>2 DEF p
<1>4. CASE k <= n
  <2>1. p[k] = f[k]
    BY <1>1, <1>2, <1>3, <1>4 DEF Written
  <2>2. f[k].call \notin {"open", "write"}
    <3>1. CASE k \in 1..5
      <4>1. f[k].call = "pack"
        BY <1>1, <3>1 DEF Fronted
      <4> QED BY <4>1
    <3>2. CASE k \in 6..n
      <4>1. Quiet(f[k])
        BY <1>1, <3>2 DEF Fronted
      <4> QED BY <4>1 DEF Quiet
    <3>3. k \in 1..5 \/ k \in 6..n
      BY <1>2, <1>3, <1>4
    <3> QED BY <3>1, <3>2, <3>3
  <2> QED BY <1>2, <1>3, <1>4, <2>1, <2>2 DEF f, p
<1>5. CASE k > n
  <2>1. /\ p[n + 1].call = "align" /\ p[n + 2].call = "join" /\ p[n + 3].call = "join"
        /\ p[n + 4].call = "open" /\ p[n + 5].call = "write"
        /\ p[n + 6].call = "open" /\ p[n + 7].call = "write"
    BY <1>1 DEF Written, S!Align, S!Join
  <2>2. k \in {n + 1, n + 2, n + 3, n + 4, n + 5, n + 6, n + 7}
    BY <1>2, <1>3, <1>5
  <2>3. p[k].call \in {"open", "write"} <=> k \in {n + 4, n + 5, n + 6, n + 7}
    BY <1>2, <2>1, <2>2
  <2> QED BY <1>2, <1>3, <1>5, <2>2, <2>3 DEF f, p
<1> QED BY <1>2, <1>3, <1>4, <1>5

LEMMA SInvInit == S!Init => SInv
<1> SUFFICES ASSUME S!Init PROVE SInv
  OBVIOUS
<1>1. /\ todo = <<>> /\ pc = 1 /\ hdr = S!NewHeader /\ buf = S!NewBuffers
      /\ disk = [v \in S!Vectors |->
                    [snapshot |-> S!OLD, manifest |-> S!Manifest(v, 0, S!OLD)]]
  BY DEF S!Init
<1>2. Typing /\ Fresh
  BY <1>1 DEF Typing, Fresh
<1>3. \A v \in S!Vectors :
          disk[v].snapshot = S!OLD /\ disk[v].manifest = S!Manifest(v, 0, S!OLD)
  BY <1>1
<1>4. \A v \in StringVectors : Saved(v)
  BY <1>3, VectorsAre DEF Saved
<1> QED BY <1>1, <1>2, <1>3, <1>4, VectorsAre DEF SInv

LEMMA RunningFacts ==
    ASSUME SInv, todo # <<>>
    PROVE  S!This \in S!Vectors /\ Tail(todo) \in Seq(S!Vectors)
BY DEF SInv, Typing, S!This

LEMMA SavedSame ==
    ASSUME NEW v, Saved(v), disk'[v] = disk[v] PROVE Saved(v)'
<1>1. ASSUME NEW f PROVE Made(v, f)' = Made(v, f)
  BY DEF Made, Bytes, Reached, Run
<1> QED BY <1>1 DEF Saved

LEMMA BytesKeep ==
    ASSUME SInv,
           S!DoPack \/ S!DoSize \/ S!DoSum \/ S!DoExtend \/ S!DoAlign \/ S!DoJoin
    PROVE  SInv'
<1>1. /\ todo # <<>> /\ pc <= Len(S!Program(S!This))
      /\ S!Call.call \in {"pack", "size", "sum", "extend", "align", "join"}
      /\ pc' = pc + 1 /\ UNCHANGED <<todo, disk>>
      /\ <<hdr', buf'>> = After(S!Call, <<hdr, buf>>)
  BY ByteStep
<1>2. Typing' /\ todo' # <<>> /\ S!This' = S!This
  BY <1>1 DEF SInv, Typing, S!This
<1>3. \A v \in StringVectors : Saved(v)'
  BY <1>1, SavedSame DEF SInv
<1>4. ASSUME NEW v \in StringVectors, v = S!This PROVE Building(v)'
  <2> DEFINE n == Len(Opening(v))
  <2>1. pc \in 1..Len(S!Program(v)) /\ S!Program(v)[pc] = S!Call
    <3>1. Len(S!Program(v)) \in Nat
      BY StringProgram DEF Written
    <3> QED BY <1>1, <1>4, <3>1 DEF SInv, Typing, S!Call
  <2>2. n \in Nat /\ pc \in 1..(n + 3)
    BY <1>1, <2>1, CallsByPlace DEF SInv, Typing
  <2>3. Bytes(v, pc, <<hdr, buf>>)
    BY <1>1, <1>4, <2>2 DEF SInv, Building
  <2>4. Bytes(v, pc + 1, <<hdr', buf'>>)
    BY <1>1, <2>1, <2>2, <2>3, BytesNext
  <2> QED BY <1>1, <2>2, <2>4 DEF Building
<1> QED BY <1>1, <1>2, <1>3, <1>4 DEF SInv

LEMMA FilesKeep == ASSUME SInv, S!DoOpen \/ S!DoWrite PROVE SInv'
<1> DEFINE t == S!This
           c == S!Call
           x == IF c.call = "open" THEN torn
                ELSE IF c.file = "snapshot" THEN buf.full
                ELSE S!Manifest(t, 0, buf.full)
<1>1. /\ todo # <<>> /\ pc <= Len(S!Program(t)) /\ c.call \in {"open", "write"}
      /\ pc' = pc + 1 /\ UNCHANGED <<todo, hdr, buf>>
      /\ disk' = [disk EXCEPT ![t][c.file] = x]
  BY FileStep
<1>2. /\ t \in S!Vectors /\ t' = t /\ todo' # <<>>
      /\ DOMAIN disk = S!Vectors /\ \A v \in S!Vectors : DOMAIN disk[v] = {"snapshot", "manifest"}
  BY <1>1, RunningFacts DEF SInv, Typing, S!This
<1> HIDE DEF t, c, x
<1>3. Typing'
  BY <1>1, <1>2 DEF SInv, Typing
<1>4. \A v \in S!Vectors : v # t => disk'[v] = disk[v]
  BY <1>1, <1>2
<1>5. \A v \in StringVectors : v # t => Saved(v)'
  BY <1>4, SavedSame, VectorsAre DEF SInv
<1>6. CASE t = "tc37"
  <2>1. c.file = "snapshot"
    <3>1. pc \in 1..Len(S!Program("tc37")) /\ c = S!Program("tc37")[pc]
      <4>1. Len(S!Program("tc37")) \in Nat
        BY NullProgram DEF AllHarmless, IsSeq
      <4> QED BY <1>1, <1>6, <4>1 DEF SInv, Typing, c, t, S!Call
    <3> QED BY <1>1, <3>1, NullProgram DEF AllHarmless, Harmless
  <2>2. disk'["tc37"].manifest = disk["tc37"].manifest
    BY <1>1, <1>2, <1>6, <2>1
  <2>3. \A v \in StringVectors : v # t
    BY <1>6, VectorsAre
  <2> QED BY <1>2, <1>3, <1>5, <2>2, <2>3 DEF SInv, t
<1>7. CASE t # "tc37"
  <2>0. PICK v : v = t
    OBVIOUS
  <2> DEFINE n == Len(Opening(v))
  <2>1. v \in StringVectors
    BY <1>2, <1>7, <2>0, VectorsAre
  <2>2. pc \in 1..Len(S!Program(v)) /\ c = S!Program(v)[pc]
    <3>1. Len(S!Program(v)) \in Nat
      BY <2>1, StringProgram DEF Written
    <3> QED BY <1>1, <2>0, <3>1 DEF SInv, Typing, c, t, S!Call
  <2>3. n \in Nat /\ pc \in {n + 4, n + 5, n + 6, n + 7}
    <3>1. n \in Nat /\ pc <= n + 7 /\ pc > n + 3
      BY <1>1, <2>1, <2>2, CallsByPlace
    <3> QED BY <2>2, <3>1
  <2>4. /\ pc = n + 4 => c = [call |-> "open", file |-> "snapshot"]
        /\ pc = n + 5 => c = [call |-> "write", file |-> "snapshot"]
        /\ pc = n + 6 => c = [call |-> "open", file |-> "manifest"]
        /\ pc = n + 7 => c = [call |-> "write", file |-> "manifest"]
    BY <2>1, <2>2, StringProgram DEF Written
  <2>5. /\ Bytes(v, n + 4, <<hdr, buf>>)
        /\ pc \in {n + 6, n + 7} => disk[v].snapshot = buf.full
    BY <1>1, <2>0, <2>1, <2>3 DEF SInv, Building, t
  <2>6. Made(v, buf.full)
    BY <2>5 DEF Made
  <2> DEFINE m == disk[v].manifest
             f == disk[v].snapshot
  <2>7. /\ c.file = "snapshot" => disk'[v].snapshot = x /\ disk'[v].manifest = m
        /\ c.file = "manifest" => disk'[v].manifest = x /\ disk'[v].snapshot = f
    BY <1>1, <1>2, <2>0
  <2>8. /\ pc = n + 4 => disk'[v].snapshot = torn /\ disk'[v].manifest = m
        /\ pc = n + 5 => disk'[v].snapshot = buf.full /\ disk'[v].manifest = m
        /\ pc = n + 6 => disk'[v].snapshot = f /\ disk'[v].manifest = torn
        /\ pc = n + 7 => disk'[v].snapshot = f /\ disk'[v].manifest = S!Manifest(v, 0, buf.full)
    BY <2>0, <2>4, <2>7 DEF x
  <2>9. ASSUME NEW g PROVE Made(v, g)' = Made(v, g)
    BY DEF Made, Bytes, Reached, Run
  <2>10. Saved(v)'
    BY <1>2, <2>1, <2>3, <2>5, <2>6, <2>8, <2>9 DEF SInv, Saved
  <2>11. Building(v)'
    BY <1>1, <2>3, <2>5, <2>8 DEF Building
  <2>12. disk'["tc37"] = disk["tc37"]
    BY <1>4, <1>7, VectorsAre
  <2>13. \A w \in StringVectors : Saved(w)'
    BY <1>5, <2>0, <2>10
  <2>14. \A w \in StringVectors : w = t' => Building(w)'
    BY <1>2, <2>0, <2>11
  <2> QED BY <1>2, <1>3, <2>12, <2>13, <2>14 DEF SInv, t
<1> QED BY <1>6, <1>7

LEMMA SInvNext == SInv /\ [S!Next]_(S!vars) => SInv'
<1> SUFFICES ASSUME SInv, [S!Next]_(S!vars) PROVE SInv'
  OBVIOUS
<1>0. FreshIsBuilding'
  BY FreshBuilds, PTL
<1>1. ASSUME UNCHANGED disk, todo' \in Seq(S!Vectors), Fresh' PROVE SInv'
  <2>1. Typing'
    BY <1>1 DEF SInv, Typing, Fresh
  <2>2. ASSUME NEW v \in StringVectors PROVE Saved(v)'
    BY <1>1, SavedSame DEF SInv
  <2> QED BY <1>0, <1>1, <2>1, <2>2 DEF SInv, FreshIsBuilding
<1>2. ASSUME NEW names \in {S!Strings, S!Nulls}, S!Start(names) PROVE SInv'
  <2>1. names \in Seq(S!Vectors)
    <3>1. S!Strings \in Seq(StringVectors) /\ S!Nulls \in Seq({"tc37"})
      BY DEF S!Strings, S!Nulls, StringVectors
    <3> QED BY <3>1, VectorsAre
  <2>2. UNCHANGED disk /\ todo' = names /\ Fresh'
    BY <1>2 DEF S!Start, SInv, Fresh
  <2> QED BY <1>1, <2>1, <2>2
<1>3. CASE S!DoPack \/ S!DoSize \/ S!DoSum \/ S!DoExtend \/ S!DoAlign \/ S!DoJoin
  BY <1>3, BytesKeep
<1>4. CASE S!DoOpen \/ S!DoWrite
  BY <1>4, FilesKeep
<1>5. CASE S!Built
  <2>1. UNCHANGED disk /\ todo' = Tail(todo) /\ todo # <<>> /\ Fresh'
    BY <1>5 DEF S!Built, S!Over, Fresh
  <2> QED BY <1>1, <2>1, RunningFacts
<1>6. CASE S!Dies
  <2>1. UNCHANGED disk /\ todo' = <<>> /\ Fresh'
    BY <1>6 DEF S!Dies, S!Over, Fresh
  <2> QED BY <1>1, <2>1
<1>7. CASE UNCHANGED S!vars
  <2>1. UNCHANGED <<todo, pc, hdr, buf, disk>>
    BY <1>7 DEF S!vars
  <2>2. ASSUME NEW v \in StringVectors PROVE Saved(v)'
    BY <2>1, SavedSame DEF SInv
  <2>3. ASSUME NEW v \in StringVectors, Building(v) PROVE Building(v)'
    BY <2>1, <2>3 DEF Building
  <2>4. Typing' /\ (Fresh <=> Fresh') /\ S!This' = S!This
    BY <2>1 DEF SInv, Typing, Fresh, S!This
  <2> QED BY <2>1, <2>2, <2>3, <2>4 DEF SInv
<1> QED BY <1>2, <1>3, <1>4, <1>5, <1>6, <1>7 DEF S!Next

LEMMA SInvHolds == S!Spec => []SInv
BY SInvInit, SInvNext, PTL DEF S!Spec

(* The reader takes the header where the file begins with one.             *)
LEMMA LeastIsOne ==
    \A I : (1 \in I /\ I \subseteq Nat \ {0}) =>
        (IF I # {} THEN CHOOSE x \in I : \A y \in I : x <= y ELSE 0) = 1
<1> SUFFICES ASSUME NEW I, 1 \in I, I \subseteq Nat \ {0}
    PROVE  (CHOOSE x \in I : \A y \in I : x <= y) = 1
  OBVIOUS
<1>1. \A y \in I : 1 <= y
  OBVIOUS
<1>2. \A x \in I : (\A y \in I : x <= y) => x = 1
  OBVIOUS
<1> QED BY <1>1, <1>2

LEMMA FirstIsFound ==
    ASSUME NEW v, Len(disk[v].snapshot) \in Nat \ {0}, disk[v].snapshot[1].part = "header"
    PROVE  S!Value(v, "header") = disk[v].snapshot[1].value
<1> DEFINE f == disk[v].snapshot
           I == {i \in 1..Len(f) : f[i].part = "header"}
           least == IF I # {} THEN CHOOSE x \in I : \A y \in I : x <= y ELSE 0
<1>1. 1 \in I /\ I \subseteq Nat \ {0}
  OBVIOUS
<1>2. S!Place(v, "header") = least
  BY DEF S!Place, S!SelectInSeq, S!Min
<1> HIDE DEF I
<1>3. S!Place(v, "header") = 1
  <2>1. least = 1
    BY <1>1, LeastIsOne, Zenon
  <2> HIDE DEF least
  <2> QED BY <1>2, <2>1
<1> QED BY <1>3 DEF S!Value

(* The header of a snapshot that begins with one is what a reader finds.   *)
LEMMA HeaderFound ==
    ASSUME NEW v, Headed(disk[v].snapshot)
    PROVE  S!Word(v, 10) = 1 /\ S!Word(v, 12) = 0
<1>1. Len(disk[v].snapshot) \in Nat \ {0} /\ disk[v].snapshot[1].part = "header"
  BY DEF Headed
<1>2. S!Value(v, "header") = disk[v].snapshot[1].value
  BY <1>1, FirstIsFound
<1> QED BY <1>2 DEF S!Word, Headed

(* What was saved is of the one run, and a header it has. *)
LEMMA SInvIsEnough == SInv => ManifestNotAhead
<1> SUFFICES ASSUME SInv, NEW v \in S!Vectors
    PROVE  /\ disk[v].manifest = torn => disk[v].snapshot # S!OLD
           /\ disk[v].manifest # torn /\ disk[v].snapshot # torn =>
                 \/ disk[v].manifest.sha256 = S!OLD
                 \/ /\ disk[v].manifest.sha256 = disk[v].snapshot
                    /\ disk[v].manifest.domains = S!Word(v, 10)
                    /\ disk[v].manifest.relations = S!Word(v, 12)
  BY DEF ManifestNotAhead, S!ManifestNotAhead
<1>1. \A w \in S!Vectors : torn # S!OLD /\ torn # S!Manifest(w, 0, S!OLD)
  BY TornAssumption
<1>2. \A d : /\ S!Manifest(v, 0, d).sha256 = d /\ S!Manifest(v, 0, d).domains = 1
            /\ S!Manifest(v, 0, d).relations = 0
  BY DEF S!Manifest
<1>3. CASE disk[v].manifest = S!Manifest(v, 0, S!OLD)
  BY <1>1, <1>2, <1>3
<1>4. CASE disk[v].manifest # S!Manifest(v, 0, S!OLD)
  <2>1. v \in StringVectors
    BY <1>4, VectorsAre DEF SInv
  <2>2. /\ disk[v].snapshot = torn \/ Made(v, disk[v].snapshot)
        /\ disk[v].manifest = torn
           \/ \E g : Made(v, g) /\ disk[v].manifest = S!Manifest(v, 0, g)
    BY <1>4, <2>1 DEF SInv, Saved
  <2>3. ASSUME NEW g, Made(v, g) PROVE Headed(g) /\ g # S!OLD
    <3>1. PICK s : Bytes(v, Len(Opening(v)) + 4, s) /\ g = s[2].full
      BY <2>3 DEF Made
    <3>2. Len(Opening(v)) \in Nat
      BY <2>1, FrontIsFronted DEF Fronted
    <3>3. Headed(s[2].full)
      BY <3>1, <3>2 DEF Bytes
    <3>4. ASSUME Headed(<<>>) PROVE FALSE
      BY <3>4, Tuples DEF Headed
    <3> QED BY <3>1, <3>3, <3>4 DEF S!OLD
  <2>4. ASSUME NEW f, NEW g, Made(v, f), Made(v, g) PROVE f = g
    <3>1. PICK s : Bytes(v, Len(Opening(v)) + 4, s) /\ f = s[2].full
      BY <2>4 DEF Made
    <3>2. PICK t : Bytes(v, Len(Opening(v)) + 4, t) /\ g = t[2].full
      BY <2>4 DEF Made
    <3>3. Len(Opening(v)) + 4 \in Nat \ {0}
      BY <2>1, FrontIsFronted DEF Fronted
    <3>4. s = t
      BY <3>1, <3>2, <3>3, OneRun DEF Bytes
    <3> QED BY <3>1, <3>2, <3>4
  <2>5. disk[v].snapshot # S!OLD
    BY <1>1, <2>2, <2>3
  <2>6. ASSUME disk[v].manifest # torn, disk[v].snapshot # torn
        PROVE  /\ disk[v].manifest.sha256 = disk[v].snapshot
               /\ disk[v].manifest.domains = S!Word(v, 10)
               /\ disk[v].manifest.relations = S!Word(v, 12)
    <3>1. PICK g : Made(v, g) /\ disk[v].manifest = S!Manifest(v, 0, g)
      BY <2>2, <2>6
    <3>2. g = disk[v].snapshot
      BY <2>2, <2>4, <2>6, <3>1
    <3>3. S!Word(v, 10) = 1 /\ S!Word(v, 12) = 0
      BY <2>3, <3>1, <3>2, HeaderFound
    <3> QED BY <1>2, <3>1, <3>2, <3>3
  <2> QED BY <2>5, <2>6
<1> QED BY <1>3, <1>4

(* However often the scripts die and are run again, a manifest written is  *)
(* of the whole snapshot beside it, and is not begun before that.          *)
THEOREM ManifestsAreNotAhead == S!Spec => []ManifestNotAhead
BY SInvHolds, SInvIsEnough, PTL

-----------------------------------------------------------------------------
(* The checksum.  One round of the register is one division of the         *)
(* remainder, moved up by what is left of the byte.                        *)
Registers == SUBSET (0..15)
Up(X, m) == {e + m : e \in X}
Divided(e, r) == IF e \in r THEN S!SymDiff(r, {e, e - 4, e - 11, e - 16}) ELSE r

LEMMA RoundDivides ==
    ASSUME NEW X \in Registers, NEW k \in 1..8
    PROVE  S!Shift(X) \in Registers /\ Divided(24 - k, Up(X, 9 - k)) = Up(S!Shift(X), 8 - k)
<1> DEFINE L == {e + 1 : e \in X \ {15}}
           P == Up(X, 9 - k)
           Q == Up(L, 8 - k)
<1>1. X \subseteq 0..15 /\ L \subseteq 1..15
  <2>1. X \subseteq 0..15
    BY DEF Registers
  <2>2. \A e \in 0..15 : e # 15 => e + 1 \in 1..15
    OBVIOUS
  <2> QED BY <2>1, <2>2
<1>2. 24 - k \in P <=> 15 \in X
  BY <1>1 DEF Up
<1>3. CASE 15 \notin X
  <2>1. S!Shift(X) = L
    BY <1>3 DEF S!Shift
  <2>2. Divided(24 - k, P) = P
    BY <1>2, <1>3 DEF Divided
  <2>3. P = Q
    <3>1. ASSUME NEW x \in P PROVE x \in Q
      <4>1. PICK e \in X : x = e + (9 - k)
        BY DEF Up
      <4>2. e + 1 \in L /\ x = (e + 1) + (8 - k)
        BY <1>1, <1>3, <4>1
      <4> HIDE DEF L
      <4> QED BY <4>2 DEF Up
    <3>2. ASSUME NEW x \in Q PROVE x \in P
      <4>1. PICK e \in X : x = (e + 1) + (8 - k)
        BY DEF Up
      <4>2. x = e + (9 - k)
        BY <1>1, <4>1
      <4> QED BY <4>2 DEF Up
    <3> QED BY <3>1, <3>2
  <2>4. L \in Registers
    BY <1>1 DEF Registers
  <2> QED BY <2>1, <2>2, <2>3, <2>4
<1>4. CASE 15 \in X
  <2>1. S!Shift(X) = S!SymDiff(L, {12, 5, 0})
    BY <1>4 DEF S!Shift
  <2>2. Divided(24 - k, P) = S!SymDiff(P, {24 - k, 20 - k, 13 - k, 8 - k})
    <3>1. (24 - k) - 4 = 20 - k /\ (24 - k) - 11 = 13 - k /\ (24 - k) - 16 = 8 - k
      OBVIOUS
    <3> QED BY <1>2, <1>4, <3>1 DEF Divided
  <2>3. P = Q \cup {24 - k} /\ 24 - k \notin Q
    <3>1. ASSUME NEW x \in P PROVE x \in Q \cup {24 - k}
      <4>1. PICK e \in X : x = e + (9 - k)
        BY DEF Up
      <4>2. CASE e = 15
        BY <4>1, <4>2
      <4>3. CASE e # 15
        <5>1. e + 1 \in L /\ x = (e + 1) + (8 - k)
          BY <1>1, <4>1, <4>3
        <5> HIDE DEF L
        <5> QED BY <5>1 DEF Up
      <4> QED BY <4>2, <4>3
    <3>2. ASSUME NEW x \in Q PROVE x \in P /\ x # 24 - k
      <4>1. PICK e \in X \ {15} : x = (e + 1) + (8 - k)
        BY DEF Up
      <4>2. x = e + (9 - k) /\ e # 15 /\ e \in 0..15
        BY <1>1, <4>1
      <4> QED BY <4>2 DEF Up
    <3>3. 24 - k \in P
      BY <1>2, <1>4
    <3> QED BY <3>1, <3>2, <3>3
  <2> DEFINE D == {12, 5, 0}
             E == {20 - k, 13 - k, 8 - k}
  <2>4. S!SymDiff(P, {24 - k, 20 - k, 13 - k, 8 - k}) = S!SymDiff(Q, E)
    <3>1. ASSUME NEW q, NEW d, NEW a, a \notin q, a \notin d
          PROVE  S!SymDiff(q \cup {a}, d \cup {a}) = S!SymDiff(q, d)
      BY <3>1 DEF S!SymDiff
    <3>2. 24 - k \notin E /\ {24 - k, 20 - k, 13 - k, 8 - k} = E \cup {24 - k}
      OBVIOUS
    <3> HIDE DEF P, Q, E
    <3> QED BY <2>3, <3>1, <3>2, SMTT(40)
  <2>5. E = Up(D, 8 - k)
    BY DEF Up
  <2>6. S!SymDiff(Up(L, 8 - k), Up(D, 8 - k)) = Up(S!SymDiff(L, D), 8 - k)
    <3>1. L \subseteq Int /\ D \subseteq Int
      BY <1>1, SMTT(40)
    <3> HIDE DEF L, D
    <3>2. \A x : x \in S!SymDiff(Up(L, 8 - k), Up(D, 8 - k)) => x \in Up(S!SymDiff(L, D), 8 - k)
      BY <3>1, SMTT(40) DEF Up, S!SymDiff
    <3>3. \A x : x \in Up(S!SymDiff(L, D), 8 - k) => x \in S!SymDiff(Up(L, 8 - k), Up(D, 8 - k))
      BY <3>1, SMTT(40) DEF Up, S!SymDiff
    <3> QED BY <3>2, <3>3
  <2>7. S!SymDiff(L, D) \in Registers
    BY <1>1 DEF Registers, S!SymDiff
  <2> QED BY <2>1, <2>2, <2>4, <2>5, <2>6, <2>7
<1> QED BY <1>3, <1>4

(* A byte of the message: its bits enter above the register.               *)
Eight(c) == S!Shift(S!Shift(S!Shift(S!Shift(S!Shift(S!Shift(S!Shift(S!Shift(c))))))))
Entered(c, b) == S!SymDiff(c, {e + 8 : e \in S!Bits(b)})

LEMMA BitsOfByte == ASSUME NEW b \in 0..255 PROVE S!Bits(b) \subseteq 0..7
<1>1. /\ b \div 2^8 = 0 /\ b \div 2^9 = 0 /\ b \div 2^10 = 0 /\ b \div 2^11 = 0
      /\ b \div 2^12 = 0 /\ b \div 2^13 = 0 /\ b \div 2^14 = 0 /\ b \div 2^15 = 0
  OBVIOUS
<1>2. \A e \in 8..15 : e = 8 \/ e = 9 \/ e = 10 \/ e = 11 \/ e = 12 \/ e = 13 \/ e = 14 \/ e = 15
  OBVIOUS
<1>3. \A e \in 8..15 : b \div 2^e = 0
  BY <1>1, <1>2, ZenonT(40)
<1>4. 0 % 2 # 1
  OBVIOUS
<1>5. \A e \in 8..15 : (b \div 2^e) % 2 # 1
  BY <1>3, <1>4, Zenon
<1>6. \A e \in 0..15 : e \in 8..15 \/ e \in 0..7
  OBVIOUS
<1>7. \A e \in S!Bits(b) : e \in 0..15 /\ (b \div 2^e) % 2 = 1
  BY Zenon DEF S!Bits
<1> QED BY <1>5, <1>6, <1>7, Zenon

LEMMA ByteDivides ==
    ASSUME NEW c \in Registers, NEW b \in 0..255
    PROVE  /\ Eight(Entered(c, b)) \in Registers
           /\ S!Reduce(S!SymDiff({e + 8 : e \in c}, {e + 16 : e \in S!Bits(b)}))
                = Eight(Entered(c, b))
<1> DEFINE X == Entered(c, b)
           B == {e + 8 : e \in S!Bits(b)}
<1>0. B \subseteq 8..15
  BY BitsOfByte
<1>1. X \in Registers
  <2>1. X = S!SymDiff(c, B)
    BY DEF Entered
  <2> HIDE DEF B, X
  <2> QED BY <1>0, <2>1 DEF Registers, S!SymDiff
<1>2. S!SymDiff({e + 8 : e \in c}, {e + 16 : e \in S!Bits(b)}) = Up(X, 8)
  <2>1. {e + 16 : e \in S!Bits(b)} = {d + 8 : d \in B}
    <3>1. \A e \in S!Bits(b) : (e + 8) + 8 = e + 16
      BY BitsOfByte
    <3> QED BY <3>1
  <2>2. c \subseteq Int /\ B \subseteq Int
    BY <1>0, SMTT(40) DEF Registers
  <2>3. X = S!SymDiff(c, B)
    BY DEF Entered
  <2> HIDE DEF B, X
  <2>4. \A x : x \in S!SymDiff({e + 8 : e \in c}, {d + 8 : d \in B}) <=> x \in {e + 8 : e \in S!SymDiff(c, B)}
    BY <2>2 DEF S!SymDiff
  <2>5. S!SymDiff({e + 8 : e \in c}, {d + 8 : d \in B}) = {e + 8 : e \in S!SymDiff(c, B)}
    BY <2>4, SMTT(40)
  <2> QED BY <2>1, <2>3, <2>5 DEF Up
<1> HIDE DEF X
<1> DEFINE s1 == S!Shift(X)
           s2 == S!Shift(s1)
           s3 == S!Shift(s2)
           s4 == S!Shift(s3)
           s5 == S!Shift(s4)
           s6 == S!Shift(s5)
           s7 == S!Shift(s6)
           s8 == S!Shift(s7)
<1>3. S!Reduce(Up(X, 8))
        = Divided(16, Divided(17, Divided(18, Divided(19, Divided(20, Divided(21,
              Divided(22, Divided(23, Up(X, 8)))))))))
  BY ZenonT(40) DEF S!Reduce, Divided
<1>4. s8 = Eight(X)
  BY DEF Eight
<1>5. ASSUME NEW Y \in Registers, NEW k \in 1..8
      PROVE  S!Shift(Y) \in Registers /\ Divided(24 - k, Up(Y, 9 - k)) = Up(S!Shift(Y), 8 - k)
  BY RoundDivides
<1>6. ASSUME NEW Y \in Registers
      PROVE  /\ S!Shift(Y) \in Registers
             /\ Divided(23, Up(Y, 8)) = Up(S!Shift(Y), 7)
             /\ Divided(22, Up(Y, 7)) = Up(S!Shift(Y), 6)
             /\ Divided(21, Up(Y, 6)) = Up(S!Shift(Y), 5)
             /\ Divided(20, Up(Y, 5)) = Up(S!Shift(Y), 4)
             /\ Divided(19, Up(Y, 4)) = Up(S!Shift(Y), 3)
             /\ Divided(18, Up(Y, 3)) = Up(S!Shift(Y), 2)
             /\ Divided(17, Up(Y, 2)) = Up(S!Shift(Y), 1)
             /\ Divided(16, Up(Y, 1)) = Up(S!Shift(Y), 0)
  <2>1. Divided(23, Up(Y, 8)) = Up(S!Shift(Y), 7)
    BY <1>5, 1 \in 1..8, 24 - 1 = 23, 9 - 1 = 8, 8 - 1 = 7
  <2>2. Divided(22, Up(Y, 7)) = Up(S!Shift(Y), 6)
    BY <1>5, 2 \in 1..8, 24 - 2 = 22, 9 - 2 = 7, 8 - 2 = 6
  <2>3. Divided(21, Up(Y, 6)) = Up(S!Shift(Y), 5)
    BY <1>5, 3 \in 1..8, 24 - 3 = 21, 9 - 3 = 6, 8 - 3 = 5
  <2>4. Divided(20, Up(Y, 5)) = Up(S!Shift(Y), 4)
    BY <1>5, 4 \in 1..8, 24 - 4 = 20, 9 - 4 = 5, 8 - 4 = 4
  <2>5. Divided(19, Up(Y, 4)) = Up(S!Shift(Y), 3)
    BY <1>5, 5 \in 1..8, 24 - 5 = 19, 9 - 5 = 4, 8 - 5 = 3
  <2>6. Divided(18, Up(Y, 3)) = Up(S!Shift(Y), 2)
    BY <1>5, 6 \in 1..8, 24 - 6 = 18, 9 - 6 = 3, 8 - 6 = 2
  <2>7. Divided(17, Up(Y, 2)) = Up(S!Shift(Y), 1)
    BY <1>5, 7 \in 1..8, 24 - 7 = 17, 9 - 7 = 2, 8 - 7 = 1
  <2>8. Divided(16, Up(Y, 1)) = Up(S!Shift(Y), 0)
    BY <1>5, 8 \in 1..8, 24 - 8 = 16, 9 - 8 = 1, 8 - 8 = 0
  <2>9. S!Shift(Y) \in Registers
    BY <1>5, 1 \in 1..8
  <2> QED BY <2>1, <2>2, <2>3, <2>4, <2>5, <2>6, <2>7, <2>8, <2>9, Zenon
<1> HIDE DEF s1, s2, s3, s4, s5, s6, s7, s8
<1>7. s1 \in Registers /\ Divided(23, Up(X, 8)) = Up(s1, 7)
  BY <1>1, <1>6, Zenon DEF s1
<1>8. s2 \in Registers /\ Divided(22, Up(s1, 7)) = Up(s2, 6)
  BY <1>6, <1>7, Zenon DEF s2
<1>9. s3 \in Registers /\ Divided(21, Up(s2, 6)) = Up(s3, 5)
  BY <1>6, <1>8, Zenon DEF s3
<1>10. s4 \in Registers /\ Divided(20, Up(s3, 5)) = Up(s4, 4)
  BY <1>6, <1>9, Zenon DEF s4
<1>11. s5 \in Registers /\ Divided(19, Up(s4, 4)) = Up(s5, 3)
  BY <1>6, <1>10, Zenon DEF s5
<1>12. s6 \in Registers /\ Divided(18, Up(s5, 3)) = Up(s6, 2)
  BY <1>6, <1>11, Zenon DEF s6
<1>13. s7 \in Registers /\ Divided(17, Up(s6, 2)) = Up(s7, 1)
  BY <1>6, <1>12, Zenon DEF s7
<1>14. s8 \in Registers /\ Divided(16, Up(s7, 1)) = Up(s8, 0)
  BY <1>6, <1>13, Zenon DEF s8
<1>15. Up(s8, 0) = s8
  <2>1. \A e \in s8 : e + 0 = e
    BY <1>14 DEF Registers
  <2>2. \A x : x \in Up(s8, 0) <=> x \in s8
    BY <2>1 DEF Up
  <2> QED BY <2>2
<1>16. S!Reduce(Up(X, 8)) = s8
  BY <1>3, <1>7, <1>8, <1>9, <1>10, <1>11, <1>12, <1>13, <1>14, <1>15, ZenonT(40)
<1>17. s8 = Eight(Entered(c, b))
  BY <1>4, Zenon DEF X
<1> QED BY <1>2, <1>14, <1>16, <1>17, Zenon

-----------------------------------------------------------------------------
(* f is the n-step recursion from base whose k-th step is G[k].            *)
Recursive(f, base, n, G) == f = [k \in 0..n |-> IF k = 0 THEN base ELSE G[k][f[k - 1]]]

LEMMA RecursionExists ==
    ASSUME NEW base, NEW G, NEW n \in Nat PROVE \E f : Recursive(f, base, n, G)
<1> DEFINE I == {m \in Nat : \E f : Recursive(f, base, m, G)}
<1>1. 0 \in I
  <2> DEFINE f == [k \in 0..0 |-> base]
  <2>1. Recursive(f, base, 0, G)
    BY DEF Recursive
  <2> QED BY <2>1
<1>2. ASSUME NEW m \in Nat, m \in I PROVE m + 1 \in I
  <2>1. PICK f : Recursive(f, base, m, G)
    BY <1>2
  <2> DEFINE H(g, i) == IF i = 0 THEN base ELSE G[i][g[i - 1]]
             h == [i \in 0..(m + 1) |-> H(f, i)]
  <2>2. f = [i \in 0..m |-> H(f, i)]
    BY <2>1 DEF Recursive
  <2>3. \A i \in 0..m : i \in 0..(m + 1)
    OBVIOUS
  <2>4. ASSUME NEW i \in 0..(m + 1) PROVE H(h, i) = H(f, i)
    <3>1. CASE i = 0
      BY <3>1
    <3>2. CASE i # 0
      <4>1. i - 1 \in 0..m
        BY <3>2
      <4> HIDE DEF H
      <4>2. f[i - 1] = H(f, i - 1)
        BY <2>2, <4>1
      <4>3. h[i - 1] = H(f, i - 1)
        BY <2>3, <4>1
      <4> QED BY <3>2, <4>2, <4>3 DEF H
    <3> QED BY <3>1, <3>2
  <2> HIDE DEF H
  <2>5. h = [i \in 0..(m + 1) |-> H(h, i)]
    BY <2>4, Zenon
  <2>6. Recursive(h, base, m + 1, G)
    BY <2>5 DEF Recursive, H
  <2> QED BY <2>6
<1> HIDE DEF I
<1>3. Nat \subseteq I
  BY <1>1, <1>2, SetInduction
<1> QED BY <1>3 DEF I

Closed(D, base, n, G) == base \in D /\ \A k \in 1..n : \A x \in D : G[k][x] \in D

LEMMA RecursionStays ==
    ASSUME NEW base, NEW G, NEW n \in Nat, NEW f, Recursive(f, base, n, G),
           NEW D, Closed(D, base, n, G)
    PROVE  /\ f[0] = base
           /\ \A k \in 1..n : f[k] = G[k][f[k - 1]]
           /\ \A k \in 0..n : f[k] \in D
<1>1. f[0] = base /\ \A k \in 1..n : f[k] = G[k][f[k - 1]]
  <2>1. 0 \in 0..n /\ \A k \in 1..n : k \in 0..n /\ k # 0
    OBVIOUS
  <2>2. \A k \in 0..n : f[k] = IF k = 0 THEN base ELSE G[k][f[k - 1]]
    BY DEF Recursive
  <2> QED BY <2>1, <2>2
<1> DEFINE I == {m \in Nat : m <= n => f[m] \in D}
<1>2. 0 \in I
  BY <1>1 DEF Closed
<1>3. ASSUME NEW m \in Nat, m \in I PROVE m + 1 \in I
  <2>1. SUFFICES ASSUME m + 1 <= n PROVE f[m + 1] \in D
    OBVIOUS
  <2>2. f[m] \in D /\ m + 1 \in 1..n /\ (m + 1) - 1 = m
    BY <1>3, <2>1
  <2> QED BY <1>1, <2>2 DEF Closed
<1> HIDE DEF I
<1>4. Nat \subseteq I
  BY <1>2, <1>3, SetInduction
<1>5. \A k \in 0..n : f[k] \in D
  BY <1>4 DEF I
<1> QED BY <1>1, <1>5

(* A sequence of segments of known size.                                   *)
Sized(s) == IsSeq(s) /\ Len(s) \in Nat /\ \A k \in 1..Len(s) : s[k].size \in Nat

LEMMA SizeIsNat == ASSUME NEW s, Sized(s) PROVE S!Size(s) \in Nat
<1> DEFINE n == Len(s)
           G == [k \in 1..n |-> [x \in Nat |-> x + s[k].size]]
           Sums(f) == f = [k \in 0..n |-> IF k = 0 THEN 0 ELSE f[k - 1] + s[k].size]
           size == CHOOSE f : Sums(f)
<1>0. n \in Nat /\ \A k \in 1..n : s[k].size \in Nat
  BY DEF Sized
<1>1. S!Size(s) = size[n]
  BY DEF S!Size
<1> HIDE DEF n
<1>2. \A k \in 1..n : \A x \in Nat : G[k][x] = x + s[k].size /\ G[k][x] \in Nat
  BY <1>0
<1> HIDE DEF G
<1>3. \E f : Sums(f)
  <2>1. PICK f : Recursive(f, 0, n, G)
    BY <1>0, RecursionExists
  <2>a. Closed(Nat, 0, n, G)
    BY <1>2 DEF Closed
  <2>2. \A k \in 0..n : f[k] \in Nat
    BY <1>0, <2>1, <2>a, RecursionStays, Zenon
  <2>3. \A k \in 0..n : k # 0 => k \in 1..n /\ f[k - 1] \in Nat
    BY <1>0, <2>2
  <2>4. f = [k \in 0..n |-> IF k = 0 THEN 0 ELSE f[k - 1] + s[k].size]
    BY <1>2, <2>1, <2>3 DEF Recursive
  <2> QED BY <2>4
<1>4. Sums(size)
  BY <1>3, Zenon
<1> HIDE DEF size
<1>5. size[0] = 0 /\ \A k \in 1..n : size[k] = size[k - 1] + s[k].size
  BY <1>0, <1>4
<1> DEFINE I == {m \in Nat : m <= n => size[m] \in Nat}
<1>6. 0 \in I
  BY <1>5
<1>7. ASSUME NEW m \in Nat, m \in I PROVE m + 1 \in I
  <2>1. SUFFICES ASSUME m + 1 <= n PROVE size[m + 1] \in Nat
    OBVIOUS
  <2>2. size[m] \in Nat /\ m + 1 \in 1..n /\ (m + 1) - 1 = m
    BY <1>0, <1>7, <2>1
  <2> QED BY <1>0, <1>5, <2>2
<1> HIDE DEF I
<1>8. Nat \subseteq I
  BY <1>6, <1>7, SetInduction
<1>9. size[n] \in Nat
  BY <1>0, <1>8 DEF I
<1> QED BY <1>1, <1>9

(* The registers of the builders are the remainders of the reader.         *)
Message(bytes) == Len(bytes) \in Nat /\ \A k \in 1..Len(bytes) : bytes[k] \in 0..255

LEMMA CrcIsRemainder ==
    ASSUME NEW bytes, Message(bytes)
    PROVE  S!Crc16(bytes) \in Registers /\ S!Crc16(bytes) = S!Ccitt(bytes)
<1> DEFINE n == Len(bytes)
           Step(c, k) == Eight(Entered(c, bytes[k]))
           Divide(r, k) ==
               S!Reduce(S!SymDiff({e + 8 : e \in r}, {e + 16 : e \in S!Bits(bytes[k])}))
           G == [k \in 1..n |-> [x \in Registers |-> Step(x, k)]]
           C(f) == f = [k \in 0..n |-> IF k = 0 THEN 0..15
                                       ELSE UNION {Step(c, k) : c \in {f[k - 1]}}]
           R(f) == f = [k \in 0..n |-> IF k = 0 THEN 0..15
                                       ELSE UNION {Divide(r, k) : r \in {f[k - 1]}}]
           crc == CHOOSE f : C(f)
           rest == CHOOSE f : R(f)
<1>0. n \in Nat /\ 0..15 \in Registers
  BY DEF Message, Registers
<1>1. S!Crc16(bytes) = crc[n]
  BY Zenon DEF S!Crc16, Eight, Entered
<1>2. S!Ccitt(bytes) = rest[n]
  BY Zenon DEF S!Ccitt
<1>3. ASSUME NEW c \in Registers, NEW k \in 1..n
      PROVE  Step(c, k) \in Registers /\ Divide(c, k) = Step(c, k)
  <2>1. bytes[k] \in 0..255
    BY DEF Message
  <2> QED BY <2>1, ByteDivides, Zenon
<1>4. \A x, k : /\ UNION {Step(c, k) : c \in {x}} = Step(x, k)
                /\ UNION {Divide(r, k) : r \in {x}} = Divide(x, k)
  OBVIOUS
<1> HIDE DEF Step, Divide, n
<1>5. \A k \in 1..n : \A x \in Registers : G[k][x] = Step(x, k) /\ G[k][x] \in Registers
  BY <1>3
<1> HIDE DEF G
<1>6. PICK g : Recursive(g, 0..15, n, G)
  BY <1>0, RecursionExists
<1>7. \A k \in 0..n : g[k] \in Registers
  <2> DEFINE ones == 0..15
  <2>1. Closed(Registers, ones, n, G) /\ Recursive(g, ones, n, G)
    BY <1>0, <1>5, <1>6 DEF Closed
  <2> HIDE DEF ones
  <2> QED BY <1>0, <2>1, RecursionStays, Zenon
<1>8. \A k \in 0..n : k # 0 => k \in 1..n /\ g[k - 1] \in Registers
  BY <1>0, <1>7
<1>9. C(g)
  <2>1. ASSUME NEW k \in 0..n, k # 0
        PROVE  G[k][g[k - 1]] = UNION {Step(c, k) : c \in {g[k - 1]}}
    <3>1. G[k][g[k - 1]] = Step(g[k - 1], k)
      BY <1>5, <1>8, <2>1, Zenon
    <3> QED BY <1>4, <3>1, Zenon
  <2> QED BY <1>6, <2>1, Zenon DEF Recursive
<1>10. R(g)
  <2>1. ASSUME NEW k \in 0..n, k # 0
        PROVE  G[k][g[k - 1]] = UNION {Divide(r, k) : r \in {g[k - 1]}}
    <3>1. G[k][g[k - 1]] = Divide(g[k - 1], k)
      BY <1>3, <1>5, <1>8, <2>1, Zenon
    <3> QED BY <1>4, <3>1, Zenon
  <2> QED BY <1>6, <2>1, Zenon DEF Recursive
<1>11. C(crc) /\ R(rest)
  BY <1>9, <1>10, Zenon
<1> HIDE DEF crc, rest
<1>12. /\ crc[0] = 0..15 /\ rest[0] = 0..15
       /\ \A k \in 1..n : crc[k] = Step(crc[k - 1], k) /\ rest[k] = Divide(rest[k - 1], k)
  <2>1. 0 \in 0..n /\ \A k \in 1..n : k \in 0..n /\ k # 0
    BY <1>0
  <2>2. crc[0] = 0..15 /\ rest[0] = 0..15
    BY <1>11, <2>1, Zenon
  <2>3. ASSUME NEW k \in 1..n PROVE crc[k] = UNION {Step(c, k) : c \in {crc[k - 1]}}
    BY <1>11, <2>1, Zenon
  <2>4. ASSUME NEW k \in 1..n PROVE rest[k] = UNION {Divide(r, k) : r \in {rest[k - 1]}}
    BY <1>11, <2>1, Zenon
  <2> QED BY <1>4, <2>2, <2>3, <2>4, Zenon
<1> DEFINE I == {m \in Nat : m <= n => crc[m] \in Registers /\ rest[m] = crc[m]}
<1>13. 0 \in I
  BY <1>0, <1>12
<1>14. ASSUME NEW m \in Nat, m \in I PROVE m + 1 \in I
  <2>1. SUFFICES ASSUME m + 1 <= n PROVE crc[m + 1] \in Registers /\ rest[m + 1] = crc[m + 1]
    OBVIOUS
  <2>2. /\ crc[m] \in Registers /\ rest[m] = crc[m]
        /\ m + 1 \in 1..n /\ (m + 1) - 1 = m
    BY <1>0, <1>14, <2>1
  <2>3. crc[m + 1] = Step(crc[m], m + 1) /\ rest[m + 1] = Divide(rest[m], m + 1)
    BY <1>12, <2>2
  <2> QED BY <1>3, <2>2, <2>3, Zenon
<1> HIDE DEF I
<1>15. Nat \subseteq I
  BY <1>13, <1>14, SetInduction
<1>16. crc[n] \in Registers /\ rest[n] = crc[n]
  BY <1>0, <1>15 DEF I
<1> QED BY <1>1, <1>2, <1>16
-----------------------------------------------------------------------------
(* A register is the number it is written as.                              *)
LEMMA BitsOfNumber ==
    ASSUME NEW X \in Registers
    PROVE  S!Number(X) \in Nat /\ S!Number(X) <= 65535 /\ S!Bits(S!Number(X)) = X
<1> DEFINE bit(e) == IF e \in X THEN 1 ELSE 0
           N(f) == f = [k \in 0..16 |-> IF k = 0 THEN 0 ELSE 2 * f[k - 1] + bit(16 - k)]
           G == [k \in 1..16 |-> [x \in Nat |-> 2 * x + bit(16 - k)]]
           number == CHOOSE f : N(f)
<1>1. S!Number(X) = number[16]
  BY Zenon DEF S!Number
<1>2. \A e : bit(e) \in {0, 1} /\ (bit(e) = 1 <=> e \in X)
  OBVIOUS
<1> HIDE DEF bit
<1>3. \A k \in 1..16 : \A x \in Nat : G[k][x] = 2 * x + bit(16 - k) /\ G[k][x] \in Nat
  <2>1. \A k \in 1..16 : \A x \in Nat : 2 * x + bit(16 - k) \in Nat
    BY <1>2
  <2>2. \A k \in 1..16 : \A x \in Nat : G[k][x] = 2 * x + bit(16 - k)
    BY Zenon
  <2> HIDE DEF G
  <2> QED BY <2>1, <2>2
<1> HIDE DEF G
<1>4. \E f : N(f)
  <2>1. PICK f : Recursive(f, 0, 16, G)
    BY RecursionExists
  <2>2. Closed(Nat, 0, 16, G)
    BY <1>3 DEF Closed
  <2>3. \A k \in 0..16 : f[k] \in Nat
    <3> DEFINE n == 16
    <3>1. n \in Nat /\ Recursive(f, 0, n, G) /\ Closed(Nat, 0, n, G)
      BY <2>1, <2>2
    <3> HIDE DEF n
    <3>2. \A k \in 0..n : f[k] \in Nat
      BY <3>1, RecursionStays, Zenon
    <3> QED BY <3>2 DEF n
  <2>4. \A k \in 0..16 : k # 0 => G[k][f[k - 1]] = 2 * f[k - 1] + bit(16 - k)
    BY <1>3, <2>3, SMTT(40)
  <2>5. N(f)
    BY <2>1, <2>4, Zenon DEF Recursive
  <2> QED BY <2>5
<1>5. N(number)
  BY <1>4, Zenon
<1> HIDE DEF number
<1>6. number[0] = 0 /\ \A k \in 1..16 : number[k] = 2 * number[k - 1] + bit(16 - k)
  BY <1>5
<1>7. \A k \in 0..16 : number[k] \in Nat
  <2> DEFINE I == {m \in Nat : m <= 16 => number[m] \in Nat}
  <2>1. 0 \in I
    BY <1>6
  <2>2. ASSUME NEW m \in Nat, m \in I PROVE m + 1 \in I
    <3>1. SUFFICES ASSUME m + 1 <= 16 PROVE number[m + 1] \in Nat
      OBVIOUS
    <3>2. number[m] \in Nat /\ m + 1 \in 1..16 /\ (m + 1) - 1 = m
      BY <2>2, <3>1
    <3> QED BY <1>2, <1>6, <3>2
  <2> HIDE DEF I
  <2>3. Nat \subseteq I
    BY <2>1, <2>2, SetInduction
  <2> QED BY <2>3 DEF I
<1>8. \A k \in 1..16 : number[k] \div 2 = number[k - 1] /\ number[k] % 2 = bit(16 - k)
  <2>1. \A x \in Nat, b \in {0, 1} : (2 * x + b) \div 2 = x /\ (2 * x + b) % 2 = b
    OBVIOUS
  <2> SUFFICES ASSUME NEW k \in 1..16
      PROVE  number[k] \div 2 = number[k - 1] /\ number[k] % 2 = bit(16 - k)
    OBVIOUS
  <2>2. number[k - 1] \in Nat /\ bit(16 - k) \in {0, 1}
    BY <1>2, <1>7
  <2>3. number[k] = 2 * number[k - 1] + bit(16 - k)
    BY <1>6
  <2> QED BY <2>1, <2>2, <2>3
<1> DEFINE q(e) == number[16] \div 2^e
<1>a. number[16] \in Nat
  BY <1>7
<1>9. q(0) = number[16] /\ \A e \in 1..15 : q(e) = q(e - 1) \div 2
  <2>1. /\ q(0) = number[16] /\ q(1) = q(0) \div 2 /\ q(2) = q(1) \div 2
        /\ q(3) = q(2) \div 2 /\ q(4) = q(3) \div 2 /\ q(5) = q(4) \div 2
        /\ q(6) = q(5) \div 2 /\ q(7) = q(6) \div 2 /\ q(8) = q(7) \div 2
        /\ q(9) = q(8) \div 2 /\ q(10) = q(9) \div 2 /\ q(11) = q(10) \div 2
        /\ q(12) = q(11) \div 2 /\ q(13) = q(12) \div 2 /\ q(14) = q(13) \div 2
        /\ q(15) = q(14) \div 2
    BY <1>a
  <2> HIDE DEF q
  <2>2. \A e \in 1..15 : \/ e = 1 \/ e = 2 \/ e = 3 \/ e = 4 \/ e = 5 \/ e = 6 \/ e = 7 \/ e = 8
                         \/ e = 9 \/ e = 10 \/ e = 11 \/ e = 12 \/ e = 13 \/ e = 14 \/ e = 15
    OBVIOUS
  <2> QED BY <2>1, <2>2
<1>b. 2^15 = 32768 /\ q(15) = number[16] \div 2^15
  OBVIOUS
<1> HIDE DEF q
<1>10. \A e \in 0..15 : q(e) = number[16 - e]
  <2> DEFINE I == {m \in Nat : m <= 15 => q(m) = number[16 - m]}
  <2>1. 0 \in I
    BY <1>9
  <2>2. ASSUME NEW m \in Nat, m \in I PROVE m + 1 \in I
    <3>1. SUFFICES ASSUME m + 1 <= 15 PROVE q(m + 1) = number[16 - (m + 1)]
      OBVIOUS
    <3>2. /\ q(m) = number[16 - m] /\ m + 1 \in 1..15 /\ (m + 1) - 1 = m
          /\ 16 - m \in 1..16 /\ (16 - m) - 1 = 16 - (m + 1)
      BY <2>2, <3>1
    <3>3. q(m + 1) = q(m) \div 2
      BY <1>9, <3>2
    <3> QED BY <1>8, <3>2, <3>3
  <2> HIDE DEF I
  <2>3. Nat \subseteq I
    BY <2>1, <2>2, SetInduction
  <2> QED BY <2>3 DEF I
<1>11. \A e \in 0..15 : q(e) % 2 = bit(e)
  <2>1. \A e \in 0..15 : 16 - e \in 1..16 /\ 16 - (16 - e) = e
    OBVIOUS
  <2> QED BY <1>8, <1>10, <2>1
<1>12. number[16] <= 65535
  <2>1. q(15) = number[1] /\ number[1] = 2 * 0 + bit(15)
    BY <1>6, <1>10
  <2>2. q(15) <= 1
    BY <1>2, <2>1
  <2> QED BY <1>a, <1>b, <2>2
<1>13. S!Bits(number[16]) = X
  <2>1. X \subseteq 0..15
    BY DEF Registers
  <2>2. S!Bits(number[16]) = {e \in 0..15 : q(e) % 2 = 1}
    BY DEF S!Bits, q
  <2> QED BY <1>2, <1>11, <2>1, <2>2
<1> QED BY <1>1, <1>a, <1>12, <1>13

-----------------------------------------------------------------------------
(* Where a program is with its header: the fields are packed before the    *)
(* checksum, nothing but the buffers grows until the header is joined, and *)
(* whatever is opened or written comes after that.                         *)
Octets == 0..255
Fills(c) ==
    \/ c.call = "extend" /\ c.buf \in Buffers /\ c.segment.size \in Nat
    \/ c.call = "align" /\ c.buf \in Buffers /\ c.align \in Nat \ {0}
Packs(c) ==
    \/ c.call = "pack" /\ c.at \in Nat /\ Message(c.bytes)
    \/ c.call = "size" /\ c.at \in Nat
Finishes(c) ==
    \/ c.call = "join" /\ c.buf \in Buffers
    \/ c.call \in {"open", "write"}
Takes(c, x, y) ==
    \/ x = "packing" /\ y = "packing" /\ (Packs(c) \/ (Fills(c) /\ c.buf # "full"))
    \/ x = "packing" /\ y = "sealed" /\ c = S!Sum
    \/ x = "sealed" /\ y = "sealed" /\ Fills(c) /\ c.buf # "full"
    \/ x = "sealed" /\ y = "joined" /\ c = S!Join("hdr")
    \/ x = "joined" /\ y = "joined" /\ (Fills(c) \/ Finishes(c))

(* f follows the calls of s.                                               *)
Follows(f, s) == \A k \in 1..Len(s) : Takes(s[k], f[k - 1], f[k])
Goes(s, x, y) == IsSeq(s) /\ \E f : f[0] = x /\ f[Len(s)] = y /\ Follows(f, s)

LEMMA GoesJoined ==
    ASSUME NEW a, NEW b, NEW x, NEW y, NEW z, Goes(a, x, y), Goes(b, y, z)
    PROVE  Goes(a \o b, x, z)
<1> DEFINE c == a \o b
           m == Len(a)
           n == Len(b)
<1>1. Joined(a, b, c)
  BY Appended, Zenon DEF Goes
<1> HIDE DEF c
<1>2. m \in Nat /\ n \in Nat /\ Len(c) = m + n /\ IsSeq(c)
  BY <1>1 DEF Joined
<1>3. PICK f : f[0] = x /\ f[m] = y /\ Follows(f, a)
  BY DEF Goes
<1>4. PICK g : g[0] = y /\ g[n] = z /\ Follows(g, b)
  BY DEF Goes
<1> DEFINE h == [k \in 0..(m + n) |-> IF k <= m THEN f[k] ELSE g[k - m]]
<1>5. h[0] = x /\ h[m + n] = z
  <2>1. 0 \in 0..(m + n) /\ 0 <= m /\ m + n \in 0..(m + n)
    BY <1>2
  <2>2. CASE n = 0
    BY <1>2, <1>3, <1>4, <2>1, <2>2
  <2>3. CASE n # 0
    <3>1. ~(m + n <= m) /\ (m + n) - m = n
      BY <1>2, <2>3
    <3> QED BY <1>3, <1>4, <2>1, <3>1
  <2> QED BY <2>2, <2>3
<1>6. ASSUME NEW k \in 1..Len(c) PROVE Takes(c[k], h[k - 1], h[k])
  <2>1. CASE k <= m
    <3>1. /\ k \in 1..m /\ k - 1 <= m
          /\ k \in 0..(m + n) /\ k - 1 \in 0..(m + n)
      BY <1>2, <2>1
    <3>2. h[k] = f[k] /\ h[k - 1] = f[k - 1] /\ c[k] = a[k]
      BY <1>1, <2>1, <3>1 DEF Joined
    <3> QED BY <1>3, <3>1, <3>2 DEF Follows
  <2>2. CASE k > m
    <3>1. /\ k - m \in 1..n /\ k = m + (k - m) /\ ~(k <= m)
          /\ k \in 0..(m + n) /\ k - 1 \in 0..(m + n)
          /\ (k - 1) - m = (k - m) - 1 /\ k - 1 <= m => k - 1 = m /\ (k - m) - 1 = 0
      BY <1>2, <2>2
    <3>2. c[k] = b[k - m] /\ h[k] = g[k - m]
      BY <1>1, <3>1 DEF Joined
    <3>3. h[k - 1] = g[(k - m) - 1]
      <4>1. CASE k - 1 <= m
        BY <1>3, <1>4, <3>1, <4>1
      <4>2. CASE ~(k - 1 <= m)
        BY <3>1, <4>2
      <4> QED BY <4>1, <4>2
    <3> QED BY <1>4, <3>1, <3>2, <3>3 DEF Follows
  <2> QED BY <1>2, <2>1, <2>2
<1> HIDE DEF h
<1>7. Goes(c, x, z)
  BY <1>2, <1>5, <1>6 DEF Goes, Follows
<1> QED BY <1>7 DEF c

LEMMA GoesTuples ==
    /\ \A x : Goes(<<>>, x, x)
    /\ \A a, x, y : Takes(a, x, y) => Goes(<<a>>, x, y)
    /\ \A a, b, w, x, y :
            Takes(a, w, x) /\ Takes(b, x, y)
            => Goes(<<a, b>>, w, y)
    /\ \A a, b, c, w, x, y, z :
            Takes(a, w, x) /\ Takes(b, x, y) /\ Takes(c, y, z)
            => Goes(<<a, b, c>>, w, z)
    /\ \A a, b, c, d, w, x, y, z, u :
            Takes(a, w, x) /\ Takes(b, x, y) /\ Takes(c, y, z) /\ Takes(d, z, u)
            => Goes(<<a, b, c, d>>, w, u)
    /\ \A a, b, c, d, e, x :
            Takes(a, x, x) /\ Takes(b, x, x) /\ Takes(c, x, x) /\ Takes(d, x, x) /\ Takes(e, x, x)
            => Goes(<<a, b, c, d, e>>, x, x)
<1>0. \A s, f, n : IsSeq(s) /\ Len(s) = n /\ Follows(f, s) => Goes(s, f[0], f[n])
  BY DEF Goes
<1>1. ASSUME NEW x PROVE Goes(<<>>, x, x)
  <2> DEFINE f == [k \in 0..0 |-> x]
  <2>1. f[0] = x /\ Len(<<>>) = 0 /\ IsSeq(<<>>)
    BY Tuples
  <2> HIDE DEF f
  <2>2. Follows(f, <<>>)
    BY <2>1 DEF Follows
  <2> QED BY <1>0, <2>1, <2>2
<1>2. ASSUME NEW a, NEW w, NEW x,
             Takes(a, w, x)
      PROVE  Goes(<<a>>, w, x)
  <2> DEFINE f == [k \in 0..1 |-> IF k = 0 THEN w ELSE x]
             s == <<a>>
  <2>1. f[0] = w /\ f[1] = x
    OBVIOUS
  <2>2. Len(s) = 1 /\ IsSeq(s) /\ s[1] = a
    BY Tuples
  <2> HIDE DEF f, s
  <2>3. \A k \in 1..1 : k = 1
    OBVIOUS
  <2>4. 1 - 1 = 0
    OBVIOUS
  <2>5. Follows(f, s)
    BY <1>2, <2>1, <2>2, <2>3, <2>4 DEF Follows
  <2>6. Goes(s, w, x)
    BY <1>0, <2>1, <2>2, <2>5
  <2> QED BY <2>6 DEF s
<1>3. ASSUME NEW a, NEW b, NEW w, NEW x, NEW y,
             Takes(a, w, x), Takes(b, x, y)
      PROVE  Goes(<<a, b>>, w, y)
  <2> DEFINE f == [k \in 0..2 |-> IF k = 0 THEN w ELSE IF k = 1 THEN x ELSE y]
             s == <<a, b>>
  <2>1. f[0] = w /\ f[1] = x /\ f[2] = y
    OBVIOUS
  <2>2. Len(s) = 2 /\ IsSeq(s) /\ s[1] = a /\ s[2] = b
    BY Tuples
  <2> HIDE DEF f, s
  <2>3. \A k \in 1..2 : k = 1 \/ k = 2
    OBVIOUS
  <2>4. 1 - 1 = 0 /\ 2 - 1 = 1
    OBVIOUS
  <2>5. Follows(f, s)
    BY <1>3, <2>1, <2>2, <2>3, <2>4 DEF Follows
  <2>6. Goes(s, w, y)
    BY <1>0, <2>1, <2>2, <2>5
  <2> QED BY <2>6 DEF s
<1>4. ASSUME NEW a, NEW b, NEW c, NEW w, NEW x, NEW y, NEW z,
             Takes(a, w, x), Takes(b, x, y), Takes(c, y, z)
      PROVE  Goes(<<a, b, c>>, w, z)
  <2> DEFINE f == [k \in 0..3 |-> IF k = 0 THEN w ELSE IF k = 1 THEN x ELSE IF k = 2 THEN y ELSE z]
             s == <<a, b, c>>
  <2>1. f[0] = w /\ f[1] = x /\ f[2] = y /\ f[3] = z
    OBVIOUS
  <2>2. Len(s) = 3 /\ IsSeq(s) /\ s[1] = a /\ s[2] = b /\ s[3] = c
    BY Tuples
  <2> HIDE DEF f, s
  <2>3. \A k \in 1..3 : k = 1 \/ k = 2 \/ k = 3
    OBVIOUS
  <2>4. 1 - 1 = 0 /\ 2 - 1 = 1 /\ 3 - 1 = 2
    OBVIOUS
  <2>5. Follows(f, s)
    BY <1>4, <2>1, <2>2, <2>3, <2>4 DEF Follows
  <2>6. Goes(s, w, z)
    BY <1>0, <2>1, <2>2, <2>5
  <2> QED BY <2>6 DEF s
<1>5. ASSUME NEW a, NEW b, NEW c, NEW d, NEW w, NEW x, NEW y, NEW z, NEW u,
             Takes(a, w, x), Takes(b, x, y), Takes(c, y, z), Takes(d, z, u)
      PROVE  Goes(<<a, b, c, d>>, w, u)
  <2> DEFINE f == [k \in 0..4 |-> IF k = 0 THEN w ELSE IF k = 1 THEN x ELSE IF k = 2 THEN y ELSE IF k = 3 THEN z ELSE u]
             s == <<a, b, c, d>>
  <2>1. f[0] = w /\ f[1] = x /\ f[2] = y /\ f[3] = z /\ f[4] = u
    OBVIOUS
  <2>2. Len(s) = 4 /\ IsSeq(s) /\ s[1] = a /\ s[2] = b /\ s[3] = c /\ s[4] = d
    BY Tuples
  <2> HIDE DEF f, s
  <2>3. \A k \in 1..4 : k = 1 \/ k = 2 \/ k = 3 \/ k = 4
    OBVIOUS
  <2>4. 1 - 1 = 0 /\ 2 - 1 = 1 /\ 3 - 1 = 2 /\ 4 - 1 = 3
    OBVIOUS
  <2>5. Follows(f, s)
    BY <1>5, <2>1, <2>2, <2>3, <2>4 DEF Follows
  <2>6. Goes(s, w, u)
    BY <1>0, <2>1, <2>2, <2>5
  <2> QED BY <2>6 DEF s
<1>6. ASSUME NEW a, NEW b, NEW c, NEW d, NEW e, NEW x,
             Takes(a, x, x), Takes(b, x, x), Takes(c, x, x), Takes(d, x, x), Takes(e, x, x)
      PROVE  Goes(<<a, b, c, d, e>>, x, x)
  <2> DEFINE f == [k \in 0..5 |-> x]
             s == <<a, b, c, d, e>>
  <2>1. f[0] = x /\ f[1] = x /\ f[2] = x /\ f[3] = x /\ f[4] = x /\ f[5] = x
    OBVIOUS
  <2>2. Len(s) = 5 /\ IsSeq(s) /\ s[1] = a /\ s[2] = b /\ s[3] = c /\ s[4] = d /\ s[5] = e
    BY Tuples
  <2> HIDE DEF f, s
  <2>3. \A k \in 1..5 : k = 1 \/ k = 2 \/ k = 3 \/ k = 4 \/ k = 5
    OBVIOUS
  <2>4. 1 - 1 = 0 /\ 2 - 1 = 1 /\ 3 - 1 = 2 /\ 4 - 1 = 3 /\ 5 - 1 = 4
    OBVIOUS
  <2>5. Follows(f, s)
    BY <1>6, <2>1, <2>2, <2>3, <2>4 DEF Follows
  <2>6. Goes(s, x, x)
    BY <1>0, <2>1, <2>2, <2>5
  <2> QED BY <2>6 DEF s
<1> QED BY <1>1, <1>2, <1>3, <1>4, <1>5, <1>6

LEMMA PoolsAreSequences == \A v \in S!Vectors : Len(S!Pool[v]) \in Nat
<1>1. \A s : IsSeq(s) => Len(s) \in Nat
  BY DEF IsSeq
<1>2. \A a, b : IsSeq(a) /\ IsSeq(b) => IsSeq(a \o b)
  BY Appended DEF Joined
<1>3. \A n \in Nat : IsSeq(S!Text(n))
  <2>1. \A n \in Nat : S!Text(n) \in Seq({S!TEXT})
    BY DEF S!Text
  <2> QED BY <2>1 DEF IsSeq
<1>4. IsSeq(<<S!NUL>>) /\ IsSeq(<<>>) /\ IsSeq(S!Text(3)) /\ IsSeq(S!Text(4)) /\ IsSeq(S!Text(7))
      /\ IsSeq(S!Text(29))
  BY <1>3, Tuples
<1>5. IsSeq(<<S!NUL, S!NOTUTF8, S!NOTUTF8, S!NOTUTF8, S!NOTUTF8, S!NUL>>)
  <2>1. <<S!NUL, S!NOTUTF8, S!NOTUTF8, S!NOTUTF8, S!NOTUTF8, S!NUL>> \in Seq({S!NUL, S!NOTUTF8})
    OBVIOUS
  <2> QED BY <2>1 DEF IsSeq
<1>6. IsSeq(<<S!NUL>> \o S!Text(4) \o <<S!NUL>>)
  BY <1>2, <1>4, Zenon
<1>7. IsSeq(<<S!NUL>> \o S!Text(3) \o <<S!NUL>> \o S!Text(7) \o <<S!NUL>>)
  BY <1>2, <1>4, Zenon
<1>8. /\ S!Pool["tc32"] = <<S!NUL>> \o S!Text(4) \o <<S!NUL>> /\ S!Pool["tc33"] = S!Text(29)
      /\ S!Pool["tc34"] = <<S!NUL>> \o S!Text(4) \o <<S!NUL>>
      /\ S!Pool["tc35"] = <<S!NUL, S!NOTUTF8, S!NOTUTF8, S!NOTUTF8, S!NOTUTF8, S!NUL>>
      /\ S!Pool["tc36"] = <<>>
      /\ S!Pool["tc37"] = <<S!NUL>> \o S!Text(3) \o <<S!NUL>> \o S!Text(7) \o <<S!NUL>>
  BY DEF S!Pool
<1>9. \A v \in S!Vectors : v \in {"tc32", "tc33", "tc34", "tc35", "tc36", "tc37"}
  BY VectorsAre DEF StringVectors
<1>10. \A v \in S!Vectors : IsSeq(S!Pool[v])
  BY <1>4, <1>5, <1>6, <1>7, <1>8, <1>9, Zenon
<1> QED BY <1>1, <1>10

LEMMA Messages ==
    /\ \A a, b \in Octets : Message(<<a, b>>)
    /\ \A a, b, c, d \in Octets : Message(<<a, b, c, d>>)
    /\ \A a, b, c, d, e, f, g, h \in Octets : Message(<<a, b, c, d, e, f, g, h>>)
<1>1. ASSUME NEW a \in Octets, NEW b \in Octets PROVE Message(<<a, b>>)
  BY DEF Message, Octets
<1>2. ASSUME NEW a \in Octets, NEW b \in Octets, NEW c \in Octets, NEW d \in Octets
      PROVE  Message(<<a, b, c, d>>)
  BY DEF Message, Octets
<1>3. ASSUME NEW a \in Octets, NEW b \in Octets, NEW c \in Octets, NEW d \in Octets,
             NEW e \in Octets, NEW f \in Octets, NEW g \in Octets, NEW h \in Octets
      PROVE  Message(<<a, b, c, d, e, f, g, h>>)
  BY SMTT(40) DEF Message, Octets
<1> QED BY <1>1, <1>2, <1>3, Zenon

LEMMA QuadIsMessage == \A n \in Nat : Message(S!Quad(n))
<1> SUFFICES ASSUME NEW n \in Nat PROVE Message(S!Quad(n))
  OBVIOUS
<1>1. n % 256 \in Octets /\ (n \div 256) % 256 \in Octets /\ 0 \in Octets
  BY DEF Octets
<1> QED BY <1>1, Messages, SMT DEF S!Quad

(* The pieces of the programs.                                             *)
LEMMA HeaderGoes == \A v \in S!Vectors : Goes(S!Header(v), "packing", "packing")
<1> SUFFICES ASSUME NEW v \in S!Vectors PROVE Goes(S!Header(v), "packing", "packing")
  OBVIOUS
<1> DEFINE n == IF v = "tc37" THEN 1 ELSE 0
           five == <<S!Pack(0, <<83, 80, 77, 73>>), S!Pack(4, <<9, 0>>),
                     S!Pack(6, <<0, 16, 0, 0>>), S!Pack(10, <<1, 0>>), S!Pack(12, <<n, 0>>)>>
           two == <<S!Pack(14, <<0, 104, 229, 207, 139, 1, 0, 0>>), S!Pack(22, S!Quad(1))>>
           more == IF v \in {"tc34", "tc36"} THEN <<>> ELSE two
<1>1. S!Header(v) = five \o more
  BY DEF S!Header
<1>2. \A at \in Nat : \A bytes :
          Message(bytes) => Takes(S!Pack(at, bytes), "packing", "packing")
  BY DEF Takes, Packs, S!Pack
<1>a. n \in {0, 1}
  OBVIOUS
<1> HIDE DEF n
<1>3. /\ Message(<<83, 80, 77, 73>>) /\ Message(<<9, 0>>) /\ Message(<<0, 16, 0, 0>>)
      /\ Message(<<1, 0>>) /\ Message(<<n, 0>>)
  BY <1>a DEF Message
<1>4. Message(<<0, 104, 229, 207, 139, 1, 0, 0>>) /\ Message(S!Quad(1))
  <2>1. Message(<<0, 104, 229, 207, 139, 1, 0, 0>>)
    BY DEF Message
  <2> QED BY <2>1, QuadIsMessage
<1>5. Goes(five, "packing", "packing")
  <2>1. /\ Takes(S!Pack(0, <<83, 80, 77, 73>>), "packing", "packing")
        /\ Takes(S!Pack(4, <<9, 0>>), "packing", "packing")
        /\ Takes(S!Pack(6, <<0, 16, 0, 0>>), "packing", "packing")
        /\ Takes(S!Pack(10, <<1, 0>>), "packing", "packing")
        /\ Takes(S!Pack(12, <<n, 0>>), "packing", "packing")
    BY <1>2, <1>3
  <2> QED BY <2>1, GoesTuples, ZenonT(40)
<1>6. Goes(two, "packing", "packing")
  <2>1. /\ Takes(S!Pack(14, <<0, 104, 229, 207, 139, 1, 0, 0>>), "packing", "packing")
        /\ Takes(S!Pack(22, S!Quad(1)), "packing", "packing")
    BY <1>2, <1>4
  <2> QED BY <2>1, GoesTuples, ZenonT(40)
<1>7. Goes(more, "packing", "packing")
  BY <1>6, GoesTuples, Zenon
<1> HIDE DEF five, more
<1> QED BY <1>1, <1>5, <1>7, GoesJoined

LEMMA FillsGoOn ==
    /\ \A b \in {"dir", "data"} : \A size \in Nat : \A part, value :
          \A x \in {"packing", "sealed", "joined"} : Takes(S!Extend(b, part, size, value), x, x)
    /\ \A b \in {"dir", "data"} : \A n \in Nat \ {0} :
          \A x \in {"packing", "sealed", "joined"} : Takes(S!Align(b, n), x, x)
BY DEF Takes, Fills, Buffers, S!Extend, S!Segment, S!Align

LEMMA TablesGo ==
    \A v \in S!Vectors : \A x \in {"packing", "sealed"} :
        Goes(S!StringTable(v), x, x) /\ Goes(S!Catalog(v), x, x)
<1> SUFFICES ASSUME NEW v \in S!Vectors, NEW x \in {"packing", "sealed"}
    PROVE  Goes(S!StringTable(v), x, x) /\ Goes(S!Catalog(v), x, x)
  OBVIOUS
<1>1. /\ Takes(S!Extend("dir", "length", 4, <<S!Length(v)>>), x, x)
      /\ Takes(S!Extend("dir", "pool", Len(S!Pool[v]), S!Pool[v]), x, x)
      /\ Takes(S!Align("dir", 128), x, x)
      /\ Takes(S!Extend("dir", "domain", 16, <<S!Name[v]>>), x, x)
  <2>1. /\ "dir" \in {"dir", "data"} /\ x \in {"packing", "sealed", "joined"}
        /\ 4 \in Nat /\ 16 \in Nat /\ 128 \in Nat \ {0} /\ Len(S!Pool[v]) \in Nat
    BY PoolsAreSequences
  <2>2. \A size \in Nat : \A part, value : Takes(S!Extend("dir", part, size, value), x, x)
    BY <2>1, FillsGoOn, ZenonT(40)
  <2>3. \A n \in Nat \ {0} : Takes(S!Align("dir", n), x, x)
    BY <2>1, FillsGoOn, Zenon
  <2> QED BY <2>1, <2>2, <2>3
<1>2. Goes(S!StringTable(v), x, x)
  BY <1>1, GoesTuples, Zenon DEF S!StringTable
<1>3. Goes(S!Catalog(v), x, x)
  BY <1>1, GoesTuples, Zenon DEF S!Catalog
<1> QED BY <1>2, <1>3

LEMMA ProgramGoes == \A v \in S!Vectors : Goes(S!Program(v), "packing", "joined")
<1> SUFFICES ASSUME NEW v \in S!Vectors PROVE Goes(S!Program(v), "packing", "joined")
  OBVIOUS
<1> DEFINE mid == <<S!Align("dir", 4096), S!Join("hdr"), S!Join("dir")>>
           four == <<S!Join("hdr"), S!Join("dir"), S!Align("full", 8192), S!Join("data")>>
<1>1. Takes(S!Sum, "packing", "sealed") /\ Takes(S!Join("hdr"), "sealed", "joined")
  BY DEF Takes
<1>2. /\ Takes(S!Join("dir"), "joined", "joined") /\ Takes(S!Join("data"), "joined", "joined")
  BY DEF Takes, Finishes, Buffers, S!Join
<1>3. \A file : Goes(S!Write(file), "joined", "joined")
  <2>1. \A file : /\ Takes([call |-> "open", file |-> file], "joined", "joined")
                  /\ Takes([call |-> "write", file |-> file], "joined", "joined")
    BY DEF Takes, Finishes
  <2> QED BY <2>1, GoesTuples, Zenon DEF S!Write
<1>4. Goes(S!Files, "joined", "joined")
  BY <1>3, GoesJoined, Zenon DEF S!Files
<1>5. Goes(<<S!Sum>>, "packing", "sealed")
  BY <1>1, GoesTuples, Zenon
<1>6. Goes(mid, "sealed", "joined")
  <2> DEFINE a == S!Align("dir", 4096)
  <2>1. Takes(a, "sealed", "sealed")
    BY FillsGoOn
  <2>2. mid = <<a, S!Join("hdr"), S!Join("dir")>>
    OBVIOUS
  <2> HIDE DEF a, mid
  <2> QED BY <1>1, <1>2, <2>1, <2>2, GoesTuples, Zenon
<1>7. Goes(four, "sealed", "joined")
  <2> DEFINE c == S!Align("full", 8192)
  <2>1. Takes(c, "joined", "joined")
    BY DEF Takes, Fills, Buffers, S!Align
  <2>2. four = <<S!Join("hdr"), S!Join("dir"), c, S!Join("data")>>
    OBVIOUS
  <2> HIDE DEF c, four
  <2> QED BY <1>1, <1>2, <2>1, <2>2, GoesTuples, Zenon
<1>8. Goes(S!Relation, "packing", "packing")
  <2> DEFINE a == S!Align("dir", 128)
             b == S!Extend("dir", "relation", 128, <<1>>)
             c == S!Extend("dir", "attribute", 44, <<5>>)
  <2>1. /\ Takes(a, "packing", "packing") /\ Takes(b, "packing", "packing")
        /\ Takes(c, "packing", "packing")
    BY FillsGoOn
  <2>2. S!Relation = <<a, b, c, a>>
    BY DEF S!Relation
  <2> HIDE DEF a, b, c
  <2> QED BY <2>1, <2>2, GoesTuples, Zenon
<1>9. Goes(S!Seal, "packing", "sealed")
  <2> DEFINE a == S!Pack(30, S!Quad(4096))
             b == S!PackSize(38)
  <2>1. Takes(a, "packing", "packing")
    BY QuadIsMessage DEF Takes, Packs, S!Pack
  <2>2. Takes(b, "packing", "packing")
    BY DEF Takes, Packs, S!PackSize
  <2>3. S!Seal = <<a, b, S!Sum>>
    BY DEF S!Seal
  <2> HIDE DEF a, b
  <2> QED BY <1>1, <2>1, <2>2, <2>3, GoesTuples, Zenon
<1>10. Goes(S!Attribute, "sealed", "sealed")
  <2> DEFINE a == S!Extend("data", "validity", 768, <<>>)
             b == S!Extend("data", "values", S!Entities * 4, <<>>)
             c == S!Align("data", 4096)
  <2>1. /\ Takes(a, "sealed", "sealed") /\ Takes(b, "sealed", "sealed")
        /\ Takes(c, "sealed", "sealed")
    BY FillsGoOn DEF S!Entities
  <2>2. S!Attribute = <<a, b, c>>
    BY DEF S!Attribute
  <2> HIDE DEF a, b, c
  <2> QED BY <2>1, <2>2, GoesTuples, Zenon
<1>11. /\ Goes(S!Header(v), "packing", "packing")
       /\ Goes(S!StringTable(v), "packing", "packing") /\ Goes(S!Catalog(v), "packing", "packing")
       /\ Goes(S!StringTable(v), "sealed", "sealed") /\ Goes(S!Catalog(v), "sealed", "sealed")
  BY HeaderGoes, TablesGo
<1>12. CASE v = "tc37"
  <2>1. S!Program(v) = S!Header(v) \o S!StringTable(v) \o S!Catalog(v) \o S!Relation \o S!Seal
                       \o S!Attribute \o four \o S!Write("snapshot")
    BY <1>12 DEF S!Program, S!NullVector
  <2> HIDE DEF four
  <2>2. Goes(S!Header(v) \o S!StringTable(v), "packing", "packing")
    BY <1>11, GoesJoined, Zenon
  <2>3. Goes(S!Header(v) \o S!StringTable(v) \o S!Catalog(v), "packing", "packing")
    BY <1>11, <2>2, GoesJoined, Zenon
  <2>4. Goes(S!Header(v) \o S!StringTable(v) \o S!Catalog(v) \o S!Relation, "packing", "packing")
    BY <1>8, <2>3, GoesJoined, Zenon
  <2>5. Goes(S!Header(v) \o S!StringTable(v) \o S!Catalog(v) \o S!Relation \o S!Seal,
             "packing", "sealed")
    BY <1>9, <2>4, GoesJoined, Zenon
  <2>6. Goes(S!Header(v) \o S!StringTable(v) \o S!Catalog(v) \o S!Relation \o S!Seal
             \o S!Attribute, "packing", "sealed")
    BY <1>10, <2>5, GoesJoined, Zenon
  <2>7. Goes(S!Header(v) \o S!StringTable(v) \o S!Catalog(v) \o S!Relation \o S!Seal
             \o S!Attribute \o four, "packing", "joined")
    BY <1>7, <2>6, GoesJoined, Zenon
  <2> QED BY <1>3, <2>1, <2>7, GoesJoined, Zenon
<1>13. CASE v # "tc37"
  <2>1. S!Program(v) = S!Header(v) \o <<S!Sum>> \o S!StringTable(v) \o S!Catalog(v) \o mid
                       \o S!Files
    BY <1>13 DEF S!Program, S!StringVector
  <2> HIDE DEF mid
  <2>2. Goes(S!Header(v) \o <<S!Sum>>, "packing", "sealed")
    BY <1>5, <1>11, GoesJoined, Zenon
  <2>3. Goes(S!Header(v) \o <<S!Sum>> \o S!StringTable(v), "packing", "sealed")
    BY <1>11, <2>2, GoesJoined, Zenon
  <2>4. Goes(S!Header(v) \o <<S!Sum>> \o S!StringTable(v) \o S!Catalog(v), "packing", "sealed")
    BY <1>11, <2>3, GoesJoined, Zenon
  <2>5. Goes(S!Header(v) \o <<S!Sum>> \o S!StringTable(v) \o S!Catalog(v) \o mid,
             "packing", "joined")
    BY <1>6, <2>4, GoesJoined, Zenon
  <2> QED BY <1>4, <2>1, <2>5, GoesJoined, Zenon
<1> QED BY <1>12, <1>13

-----------------------------------------------------------------------------
(* The header and the buffers of a script that is so far.                  *)
Headers == [0..63 -> Octets]
Checked(h) == S!Bits(h[62] + 256 * h[63]) = S!Ccitt([k \in 1..62 |-> h[k - 1]])
Begun(f) ==
    /\ Sized(f) /\ Len(f) # 0 /\ f[1].part = "header"
    /\ \E h \in Headers : Checked(h) /\ f[1].value = [k \in 1..64 |-> h[k - 1]]
AllSized(b) == DOMAIN b = Buffers /\ \A z \in Buffers : Sized(b[z])
Holds(x, h, b) ==
    /\ h \in Headers /\ AllSized(b)
    /\ x \in {"packing", "sealed"} => b.full = <<>>
    /\ x = "sealed" => Checked(h)
    /\ x = "joined" => Begun(b.full)

LEMMA PackKeeps ==
    ASSUME NEW h \in Headers, NEW at \in Nat, NEW bytes, Message(bytes)
    PROVE  PackedIn(h, at, bytes) \in Headers
<1> SUFFICES ASSUME NEW k \in 0..63
    PROVE  (IF k - at \in 0..(Len(bytes) - 1) THEN bytes[k - at + 1] ELSE h[k]) \in Octets
  BY DEF PackedIn, Headers
<1>1. CASE k - at \in 0..(Len(bytes) - 1)
  <2>1. k - at + 1 \in 1..Len(bytes)
    BY <1>1 DEF Message
  <2>2. bytes[k - at + 1] \in Octets
    BY <2>1 DEF Message, Octets
  <2> QED BY <1>1, <2>2
<1>2. CASE k - at \notin 0..(Len(bytes) - 1)
  BY <1>2 DEF Headers
<1> QED BY <1>1, <1>2

LEMMA SumSeals == ASSUME NEW h \in Headers PROVE SealedIn(h) \in Headers /\ Checked(SealedIn(h))
<1> DEFINE bytes == [k \in 1..62 |-> h[k - 1]]
           crc == S!Number(S!Crc16(bytes))
           two == <<crc % 256, crc \div 256>>
           g == PackedIn(h, 62, two)
<1>1. SealedIn(h) = g
  BY DEF SealedIn
<1>2. Message(bytes)
  <2>1. Len(bytes) = 62 /\ DOMAIN bytes = 1..62
    OBVIOUS
  <2>2. \A k \in 1..62 : k - 1 \in 0..63 /\ bytes[k] = h[k - 1]
    OBVIOUS
  <2>3. \A i \in 0..63 : h[i] \in Octets
    BY DEF Headers
  <2> HIDE DEF bytes
  <2>4. \A k \in 1..62 : bytes[k] \in Octets
    BY <2>2, <2>3, Zenon
  <2>5. Len(bytes) \in Nat /\ 1..Len(bytes) = 1..62
    BY <2>1, SMTT(40)
  <2> DEFINE O == 0..255
  <2>6. \A k \in 1..62 : bytes[k] \in O
    BY <2>4 DEF Octets
  <2>7. Message(bytes) <=> Len(bytes) \in Nat /\ \A k \in 1..Len(bytes) : bytes[k] \in O
    BY Zenon DEF Message, O
  <2> HIDE DEF O
  <2> QED BY <2>5, <2>6, <2>7, Zenon
<1> HIDE DEF bytes
<1>3. /\ crc \in Nat /\ crc <= 65535
      /\ S!Bits(crc) = S!Ccitt(bytes)
  BY <1>2, CrcIsRemainder, BitsOfNumber
<1> HIDE DEF crc
<1>4. /\ crc % 256 \in Octets /\ crc \div 256 \in Octets
      /\ (crc % 256) + 256 * (crc \div 256) = crc
  BY <1>3 DEF Octets
<1>5. Message(two)
  BY <1>4, Messages
<1>6. g \in Headers
  BY <1>5, PackKeeps, 62 \in Nat
<1>7. g[62] = crc % 256 /\ g[63] = crc \div 256 /\ \A k \in 0..61 : g[k] = h[k]
  <2>1. \A x, y : /\ PackedIn(h, 62, <<x, y>>)[62] = x /\ PackedIn(h, 62, <<x, y>>)[63] = y
                  /\ \A k \in 0..61 : PackedIn(h, 62, <<x, y>>)[k] = h[k]
    BY DEF PackedIn
  <2> QED BY <2>1
<1> HIDE DEF g
<1>8. [k \in 1..62 |-> g[k - 1]] = bytes
  <2>1. \A k \in 1..62 : k - 1 \in 0..61
    OBVIOUS
  <2> QED BY <1>7, <2>1 DEF bytes
<1>9. Checked(g)
  BY <1>3, <1>4, <1>7, <1>8 DEF Checked
<1> QED BY <1>1, <1>6, <1>9

LEMMA SizedJoined ==
    ASSUME NEW a, NEW b, Sized(a), Sized(b)
    PROVE  Sized(a \o b) /\ (Begun(a) => Begun(a \o b))
<1> DEFINE c == a \o b
<1>1. Joined(a, b, c)
  BY Appended, Zenon DEF Sized
<1> HIDE DEF c
<1>2. ASSUME NEW k \in 1..Len(c) PROVE c[k].size \in Nat
  <2>1. CASE k \in 1..Len(a)
    BY <1>1, <2>1 DEF Joined, Sized
  <2>2. CASE k \notin 1..Len(a)
    <3>1. k - Len(a) \in 1..Len(b) /\ k = Len(a) + (k - Len(a))
      BY <1>1, <2>2 DEF Joined
    <3>2. c[Len(a) + (k - Len(a))] = b[k - Len(a)]
      BY <1>1, <3>1 DEF Joined
    <3> QED BY <3>1, <3>2 DEF Sized
  <2> QED BY <2>1, <2>2
<1>3. Sized(c)
  BY <1>1, <1>2 DEF Sized, Joined
<1>4. ASSUME Begun(a) PROVE Begun(c)
  <2>1. Len(a) \in Nat /\ Len(a) # 0 /\ Len(c) # 0 /\ 1 \in 1..Len(a)
    <3>1. Len(a) # 0
      BY <1>4, Zenon DEF Begun
    <3>2. Len(a) \in Nat /\ Len(b) \in Nat /\ Len(c) = Len(a) + Len(b)
      BY <1>1 DEF Joined
    <3> QED BY <3>1, <3>2
  <2>2. c[1] = a[1]
    BY <1>1, <2>1 DEF Joined
  <2> QED BY <1>3, <1>4, <2>1, <2>2 DEF Begun
<1> QED BY <1>3, <1>4 DEF c

LEMMA SizedOne == ASSUME NEW s, s.size \in Nat PROVE Sized(<<s>>)
<1> DEFINE w == <<s>>
<1>1. IsSeq(w) /\ Len(w) = 1 /\ w[1] = s
  BY Tuples
<1> HIDE DEF w
<1>2. Sized(w)
  BY <1>1 DEF Sized
<1> QED BY <1>2 DEF w

LEMMA HoldsNext ==
    ASSUME NEW c, NEW x, NEW y, Takes(c, x, y), c.call \notin {"open", "write"},
           NEW h, NEW b, Holds(x, h, b)
    PROVE  Holds(y, HdrAfter(c, h, b), BufAfter(c, h, b))
<1>0. h \in Headers /\ AllSized(b)
  BY DEF Holds
<1>1. CASE Packs(c)
  <2>1. x = "packing" /\ y = "packing"
    BY <1>1 DEF Takes, Packs, Fills, Finishes, S!Sum, S!Join
  <2>2. BufAfter(c, h, b) = b
    BY <1>1 DEF Packs, BufAfter
  <2>3. HdrAfter(c, h, b) \in Headers
    <3>1. CASE c.call = "pack"
      <4>1. c.at \in Nat /\ Message(c.bytes) /\ HdrAfter(c, h, b) = PackedIn(h, c.at, c.bytes)
        BY <1>1, <3>1 DEF Packs, HdrAfter
      <4> QED BY <1>0, <4>1, PackKeeps
    <3>2. CASE c.call = "size"
      <4>1. c.at \in Nat /\ HdrAfter(c, h, b) = PackedIn(h, c.at, S!Quad(S!Size(b.dir)))
        BY <1>1, <3>2 DEF Packs, HdrAfter
      <4>2. Message(S!Quad(S!Size(b.dir)))
        BY <1>0, SizeIsNat, QuadIsMessage DEF AllSized, Buffers
      <4> QED BY <1>0, <4>1, <4>2, PackKeeps
    <3> QED BY <1>1, <3>1, <3>2 DEF Packs
  <2> QED BY <1>0, <2>1, <2>2, <2>3 DEF Holds
<1>2. CASE c = S!Sum
  <2>1. x = "packing" /\ y = "sealed"
    BY <1>2 DEF Takes, Packs, Fills, Finishes, S!Sum, S!Join
  <2>2. BufAfter(c, h, b) = b /\ HdrAfter(c, h, b) = SealedIn(h)
    BY <1>2 DEF BufAfter, HdrAfter, S!Sum
  <2> QED BY <1>0, <2>1, <2>2, SumSeals DEF Holds
<1>3. CASE Fills(c)
  <2>1. y = x /\ x \in {"packing", "sealed", "joined"} /\ (x # "joined" => c.buf # "full")
    BY <1>3 DEF Takes, Packs, Fills, S!Sum, S!Join
  <2>2. HdrAfter(c, h, b) = h
    BY <1>3 DEF Fills, HdrAfter
  <2>3. PICK s : s.size \in Nat /\ BufAfter(c, h, b) = [b EXCEPT ![c.buf] = @ \o <<s>>]
    <3>1. CASE c.call = "extend"
      BY <1>3, <3>1 DEF Fills, BufAfter
    <3>2. CASE c.call = "align"
      <4> DEFINE s == S!Segment("pad", S!Padding(S!Size(b[c.buf]), c.align), <<>>)
      <4>1. S!Size(b[c.buf]) \in Nat /\ c.align \in Nat \ {0}
        BY <1>0, <1>3, <3>2, SizeIsNat DEF Fills, AllSized
      <4>2. \A n \in Nat : \A m \in Nat \ {0} : S!Padding(n, m) \in Nat
        BY DEF S!Padding
      <4>3. s.size \in Nat
        BY <4>1, <4>2 DEF S!Segment
      <4>4. BufAfter(c, h, b) = [b EXCEPT ![c.buf] = @ \o <<s>>]
        BY <3>2 DEF BufAfter
      <4> QED BY <4>3, <4>4
    <3> QED BY <1>3, <3>1, <3>2 DEF Fills
  <2>4. c.buf \in Buffers
    BY <1>3 DEF Fills
  <2>5. Sized(b[c.buf] \o <<s>>) /\ (Begun(b[c.buf]) => Begun(b[c.buf] \o <<s>>))
    BY <1>0, <2>3, <2>4, SizedOne, SizedJoined DEF AllSized
  <2> DEFINE d == BufAfter(c, h, b)
  <2>6. AllSized(d)
    BY <1>0, <2>3, <2>4, <2>5 DEF AllSized
  <2>7. d["full"] = IF c.buf = "full" THEN b[c.buf] \o <<s>> ELSE b["full"]
    BY <1>0, <2>3, <2>4 DEF AllSized, Buffers
  <2> QED BY <2>1, <2>2, <2>5, <2>6, <2>7 DEF Holds
<1>4. CASE c.call = "join"
  <2> DEFINE j == Joining(c, h, b)
             d == BufAfter(c, h, b)
  <2>1. HdrAfter(c, h, b) = h /\ d = [b EXCEPT !["full"] = @ \o j]
    BY <1>4 DEF HdrAfter, BufAfter
  <2>2. Sized(j) /\ (x = "joined" \/ (x = "sealed" /\ Begun(j))) /\ y = "joined"
    <3>1. CASE c = S!Join("hdr") /\ x = "sealed" /\ y = "joined"
      <4> DEFINE s == S!Segment("header", 4096, [k \in 1..64 |-> h[k - 1]])
                 w == <<s>>
      <4>1. j = w
        BY <3>1 DEF Joining, S!Join
      <4>2. s.size \in Nat /\ s.part = "header" /\ s.value = [k \in 1..64 |-> h[k - 1]]
        BY SMT DEF S!Segment
      <4> HIDE DEF s
      <4>3. Sized(w) /\ w[1] = s /\ Len(w) # 0
        BY <4>2, SizedOne
      <4> HIDE DEF w
      <4>4. Begun(w)
        BY <1>0, <3>1, <4>2, <4>3 DEF Begun, Holds
      <4> QED BY <3>1, <4>1, <4>3, <4>4
    <3>2. CASE x = "joined" /\ y = "joined" /\ c.buf \in Buffers
      <4>1. j = b[c.buf]
        BY <3>2 DEF Joining, Buffers
      <4> QED BY <1>0, <3>2, <4>1 DEF AllSized
    <3> QED BY <1>4, <3>1, <3>2 DEF Takes, Packs, Fills, Finishes, S!Sum
  <2> HIDE DEF j
  <2>3. Sized(b["full"]) /\ Sized(b["full"] \o j)
    BY <1>0, <2>2, SizedJoined DEF AllSized, Buffers
  <2>4. Begun(b["full"] \o j)
    <3>1. CASE x = "joined"
      BY <2>2, <2>3, <3>1, SizedJoined DEF Holds
    <3>2. CASE x = "sealed" /\ Begun(j)
      <4>1. b["full"] = <<>>
        BY <3>2 DEF Holds
      <4>2. <<>> \o j = j
        BY <2>2 DEF Sized, IsSeq
      <4> QED BY <3>2, <4>1, <4>2
    <3> QED BY <2>2, <3>1, <3>2
  <2>5. AllSized(d) /\ d["full"] = b["full"] \o j
    BY <1>0, <2>1, <2>3 DEF AllSized, Buffers
  <2> QED BY <1>0, <2>1, <2>2, <2>4, <2>5 DEF Holds
<1> QED BY <1>1, <1>2, <1>3, <1>4 DEF Takes, Finishes, S!Join

(* The script that runs has made what its place in the program says; and   *)
(* a snapshot is as committed, torn, or begins with a header whose         *)
(* checksum verifies.                                                      *)
UnderWay(v) == \E f : f[0] = "packing" /\ Follows(f, S!Program(v)) /\ Holds(f[pc - 1], hdr, buf)
Verifies(v) == disk[v].snapshot \in {S!OLD, torn} \/ Begun(disk[v].snapshot)
Checks ==
    /\ Typing
    /\ todo = <<>> => Fresh
    /\ \A v \in S!Vectors : Verifies(v)
    /\ todo # <<>> => \A v \in S!Vectors : v = S!This => UnderWay(v)

FreshIsUnderWay == Fresh => \A v \in S!Vectors : UnderWay(v)
LEMMA FreshStarts == FreshIsUnderWay
<1> SUFFICES ASSUME NEW v \in S!Vectors, Fresh PROVE UnderWay(v)
  BY DEF FreshIsUnderWay
<1>1. PICK f : f[0] = "packing" /\ Follows(f, S!Program(v))
  BY ProgramGoes DEF Goes
<1>2. hdr \in Headers
  BY DEF Fresh, S!NewHeader, Headers, Octets
<1>3. AllSized(buf) /\ buf.full = <<>>
  <2>1. Sized(<<>>)
    BY Tuples DEF Sized
  <2> QED BY <2>1 DEF Fresh, S!NewBuffers, AllSized, Buffers
<1>4. Holds("packing", hdr, buf)
  BY <1>2, <1>3 DEF Holds
<1>5. pc - 1 = 0
  BY DEF Fresh
<1> QED BY <1>1, <1>4, <1>5 DEF UnderWay

LEMMA ChecksInit == S!Init => Checks
<1> SUFFICES ASSUME S!Init PROVE Checks
  OBVIOUS
<1>1. SInv
  BY SInvInit
<1>2. todo = <<>> /\ \A v \in S!Vectors : disk[v].snapshot = S!OLD
  BY DEF S!Init
<1> QED BY <1>1, <1>2 DEF SInv, Checks, Verifies

LEMMA VerifiesSame ==
    ASSUME NEW v, Verifies(v), disk'[v].snapshot = disk[v].snapshot PROVE Verifies(v)'
BY DEF Verifies

LEMMA ChecksBytes ==
    ASSUME Checks,
           S!DoPack \/ S!DoSize \/ S!DoSum \/ S!DoExtend \/ S!DoAlign \/ S!DoJoin
    PROVE  Checks'
<1>1. /\ todo # <<>> /\ pc <= Len(S!Program(S!This))
      /\ S!Call.call \in {"pack", "size", "sum", "extend", "align", "join"}
      /\ pc' = pc + 1 /\ UNCHANGED <<todo, disk>>
      /\ <<hdr', buf'>> = After(S!Call, <<hdr, buf>>)
  BY ByteStep
<1>2. Typing' /\ todo' # <<>> /\ S!This' = S!This
  BY <1>1 DEF Checks, Typing, S!This
<1>3. \A v \in S!Vectors : Verifies(v)'
  BY <1>1, VerifiesSame DEF Checks
<1>4. ASSUME NEW v \in S!Vectors, v = S!This PROVE UnderWay(v)'
  <2>1. PICK f : f[0] = "packing" /\ Follows(f, S!Program(v)) /\ Holds(f[pc - 1], hdr, buf)
    BY <1>1, <1>4 DEF Checks, UnderWay
  <2>2. pc \in 1..Len(S!Program(v)) /\ S!Program(v)[pc] = S!Call
    <3>1. Len(S!Program(v)) \in Nat
      BY ProgramGoes DEF Goes, IsSeq
    <3> QED BY <1>1, <1>4, <3>1 DEF Checks, Typing, S!Call
  <2>3. Takes(S!Call, f[pc - 1], f[pc])
    BY <2>1, <2>2 DEF Follows
  <2>4. hdr' = HdrAfter(S!Call, hdr, buf) /\ buf' = BufAfter(S!Call, hdr, buf)
    BY <1>1 DEF After
  <2>5. Holds(f[pc], hdr', buf')
    <3>1. S!Call.call \notin {"open", "write"}
      BY <1>1
    <3> QED BY <2>1, <2>3, <2>4, <3>1, HoldsNext
  <2>6. pc' - 1 = pc
    BY <1>1, <2>2
  <2> QED BY <2>1, <2>5, <2>6 DEF UnderWay
<1> QED BY <1>1, <1>2, <1>3, <1>4 DEF Checks

LEMMA ChecksFiles == ASSUME Checks, S!DoOpen \/ S!DoWrite PROVE Checks'
<1> DEFINE t == S!This
           c == S!Call
           x == IF c.call = "open" THEN torn
                ELSE IF c.file = "snapshot" THEN buf.full
                ELSE S!Manifest(t, 0, buf.full)
<1>1. /\ todo # <<>> /\ pc <= Len(S!Program(t)) /\ c.call \in {"open", "write"}
      /\ pc' = pc + 1 /\ UNCHANGED <<todo, hdr, buf>>
      /\ disk' = [disk EXCEPT ![t][c.file] = x]
  BY FileStep
<1>2. /\ t \in S!Vectors /\ t' = t /\ todo' # <<>>
      /\ DOMAIN disk = S!Vectors /\ \A v \in S!Vectors : DOMAIN disk[v] = {"snapshot", "manifest"}
  BY <1>1 DEF Checks, Typing, S!This
<1>a. PICK v \in S!Vectors : v = t
  BY <1>2
<1>3. PICK f : f[0] = "packing" /\ Follows(f, S!Program(v)) /\ Holds(f[pc - 1], hdr, buf)
  BY <1>1, <1>a DEF Checks, UnderWay
<1>4. pc \in 1..Len(S!Program(v)) /\ S!Program(v)[pc] = c
  <2>1. Len(S!Program(v)) \in Nat
    BY ProgramGoes DEF Goes, IsSeq
  <2> QED BY <1>1, <1>a, <2>1 DEF Checks, Typing, S!Call
<1>5. Takes(c, f[pc - 1], f[pc])
  BY <1>3, <1>4 DEF Follows
<1> HIDE DEF t, c, x
<1>6. f[pc - 1] = "joined" /\ f[pc] = "joined"
  BY <1>1, <1>5 DEF Takes, Packs, Fills, S!Sum, S!Join
<1>7. Begun(buf.full)
  BY <1>3, <1>6 DEF Holds
<1>8. Typing'
  BY <1>1, <1>2 DEF Checks, Typing
<1>9. ASSUME NEW w \in S!Vectors PROVE Verifies(w)'
  <2>1. CASE w = v /\ c.file = "snapshot"
    <3>1. disk'[w].snapshot = x
      BY <1>1, <1>2, <1>a, <2>1
    <3>2. x = torn \/ x = buf.full
      BY <2>1 DEF x
    <3> QED BY <1>7, <3>1, <3>2 DEF Verifies
  <2>2. CASE ~(w = v /\ c.file = "snapshot")
    <3>1. disk'[w].snapshot = disk[w].snapshot
      BY <1>1, <1>2, <1>a, <2>2
    <3> QED BY <3>1, VerifiesSame DEF Checks
  <2> QED BY <2>1, <2>2
<1>10. UnderWay(v)'
  <2>1. pc' - 1 = pc
    BY <1>1, <1>4
  <2>2. Holds(f[pc], hdr', buf')
    BY <1>1, <1>3, <1>6
  <2> QED BY <1>3, <2>1, <2>2 DEF UnderWay
<1> QED BY <1>2, <1>a, <1>8, <1>9, <1>10 DEF Checks, t

LEMMA ChecksNext == Checks /\ [S!Next]_(S!vars) => Checks'
<1> SUFFICES ASSUME Checks, [S!Next]_(S!vars) PROVE Checks'
  OBVIOUS
<1>0. FreshIsUnderWay'
  BY FreshStarts, PTL
<1>1. ASSUME UNCHANGED disk, todo' \in Seq(S!Vectors), Fresh' PROVE Checks'
  <2>1. Typing'
    BY <1>1 DEF Checks, Typing, Fresh
  <2>2. ASSUME NEW v \in S!Vectors PROVE Verifies(v)'
    BY <1>1, VerifiesSame DEF Checks
  <2> QED BY <1>0, <1>1, <2>1, <2>2 DEF Checks, FreshIsUnderWay
<1>2. ASSUME NEW names \in {S!Strings, S!Nulls}, S!Start(names) PROVE Checks'
  <2>1. names \in Seq(S!Vectors)
    <3>1. S!Strings \in Seq(StringVectors) /\ S!Nulls \in Seq({"tc37"})
      BY DEF S!Strings, S!Nulls, StringVectors
    <3> QED BY <3>1, VectorsAre
  <2>2. UNCHANGED disk /\ todo' = names /\ Fresh'
    BY <1>2 DEF S!Start, Checks, Fresh
  <2> QED BY <1>1, <2>1, <2>2
<1>3. CASE S!DoPack \/ S!DoSize \/ S!DoSum \/ S!DoExtend \/ S!DoAlign \/ S!DoJoin
  BY <1>3, ChecksBytes
<1>4. CASE S!DoOpen \/ S!DoWrite
  BY <1>4, ChecksFiles
<1>5. CASE S!Built
  <2>1. UNCHANGED disk /\ todo' = Tail(todo) /\ todo # <<>> /\ Fresh'
    BY <1>5 DEF S!Built, S!Over, Fresh
  <2>2. Tail(todo) \in Seq(S!Vectors)
    BY <2>1 DEF Checks, Typing
  <2> QED BY <1>1, <2>1, <2>2
<1>6. CASE S!Dies
  <2>1. UNCHANGED disk /\ todo' = <<>> /\ Fresh'
    BY <1>6 DEF S!Dies, S!Over, Fresh
  <2> QED BY <1>1, <2>1
<1>7. CASE UNCHANGED S!vars
  <2>1. UNCHANGED <<todo, pc, hdr, buf, disk>>
    BY <1>7 DEF S!vars
  <2>2. ASSUME NEW v \in S!Vectors PROVE Verifies(v)'
    BY <2>1, VerifiesSame DEF Checks
  <2>3. ASSUME NEW v \in S!Vectors, UnderWay(v) PROVE UnderWay(v)'
    BY <2>1, <2>3 DEF UnderWay
  <2>4. Typing' /\ (Fresh <=> Fresh') /\ S!This' = S!This
    BY <2>1 DEF Checks, Typing, Fresh, S!This
  <2> QED BY <2>1, <2>2, <2>3, <2>4 DEF Checks
<1> QED BY <1>2, <1>3, <1>4, <1>5, <1>6, <1>7 DEF S!Next

LEMMA ChecksIsEnough == Checks => ChecksumVerifies
<1> SUFFICES ASSUME Checks, NEW v \in S!Vectors, S!New(v)
    PROVE  S!Bits(S!Word(v, 62)) = S!Ccitt(SubSeq(S!Value(v, "header"), 1, 62))
  BY DEF ChecksumVerifies, S!ChecksumVerifies
<1> DEFINE f == disk[v].snapshot
           w == S!Value(v, "header")
<1>1. Begun(f)
  BY DEF Checks, Verifies, S!New
<1>2. PICK h \in Headers : Checked(h) /\ f[1].value = [k \in 1..64 |-> h[k - 1]]
  BY <1>1 DEF Begun
<1>3. w = [k \in 1..64 |-> h[k - 1]]
  <2>1. Len(f) \in Nat \ {0} /\ f[1].part = "header"
    BY <1>1 DEF Begun, Sized
  <2> QED BY <1>2, <2>1, FirstIsFound
<1>4. S!Word(v, 62) = h[62] + 256 * h[63]
  BY <1>3 DEF S!Word
<1> HIDE DEF w
<1>5. SubSeq(w, 1, 62) = [k \in 1..62 |-> h[k - 1]]
  <2>1. \A k \in 1..64 : w[k] = h[k - 1]
    BY <1>3
  <2>2. SubSeq(w, 1, 62) = [k \in 1..62 |-> w[k]]
    OBVIOUS
  <2>3. \A k \in 1..62 : w[k] = h[k - 1]
    BY <2>1
  <2> QED BY <2>2, <2>3
<1>6. S!Value(v, "header") = w
  BY DEF w
<1> QED BY <1>2, <1>4, <1>5, <1>6, Zenon DEF Checked

(* However often the scripts die, the checksum in the header of every      *)
(* snapshot they leave whole is the CRC-16-CCITT of the 62 bytes before    *)
(* it: nothing is packed after the checksum was.                           *)
THEOREM ChecksumsVerify == S!Spec => []ChecksumVerifies
<1>1. S!Spec => []Checks
  BY ChecksInit, ChecksNext, PTL DEF S!Spec
<1> QED BY <1>1, ChecksIsEnough, PTL
=============================================================================
