--------------------------- MODULE AssemblerProofs ---------------------------
(***************************************************************************)
(* Theorems about Assembler, for any files, directives, lines and opcode   *)
(* table: types, extension words, the meaning of names, the regions of     *)
(* symbols, the graphs packed in them, parsing again, and decoding.        *)
(***************************************************************************)
EXTENDS Assembler, FiniteSetTheorems, WellFoundedInduction, TLAPS

(* The operator every Emit branch builds its words with yields a word that *)
(* fits the C struct, whatever is stored through it.                       *)
LEMMA WordFits ==
    ASSUME NEW op \in Opcodes \cup {EXTENSION}, NEW flags, NEW dst, NEW payload
    PROVE  Word(op, flags, dst, payload) \in WordType
BY DEF Word, WordType, Low

(* One line appends one or two words, all of which fit.                    *)
LEMMA EmitFits ==
    ASSUME NEW op, NEW e, Canonical(op) \in Opcodes
    PROVE  Emit(op, e) \in Seq(WordType)
<1> DEFINE hi == {b \in 0..15 : b + 16 \in e.payload}
<1>1. Word(EXTENSION, {}, hi, {}) \in WordType
  BY WordFits
<1>2. Word(Canonical(op), e.flags \cup {7}, e.dst, Low(16, e.payload)) \in WordType
  BY WordFits
<1>3. Word(Canonical(op), e.flags, e.dst, e.payload) \in WordType
  BY WordFits
<1> QED BY <1>1, <1>2, <1>3 DEF Emit

(* The mnemonics that may be extended have no alias.                       *)
LEMMA ExtendedIsCanonical ==
    ASSUME NEW op \in ExtendedOps
    PROVE  Canonical(op) = op
BY DEF ExtendedOps, Canonical, Aliases

-----------------------------------------------------------------------------
(* Type correctness: every word any sequence of calls emits fits the C     *)
(* struct Instruction, and no scan leaves its file.                        *)
THEOREM TypeCorrect == Spec => []TypeOK
<1>1. Init => TypeOK
  BY DEF Init, TypeOK, LinePass
<1>2. TypeOK /\ [Next]_vars => TypeOK'
  <2> SUFFICES ASSUME TypeOK, [Next]_vars
               PROVE  TypeOK'
    OBVIOUS
  <2> USE NoFileAssumption
  <2>0. ASSUME NEW r, Leave(r) PROVE TypeOK'
    BY <2>0 DEF Leave, TypeOK, LinePass
  <2>1. ASSUME NEW f \in File, Call(f) PROVE TypeOK'
    BY <2>1 DEF Call, TypeOK
  <2>2. ASSUME NEW q, Finds(q), pos' = q + 1, UNCHANGED <<cur, pass, words, used>>
        PROVE  TypeOK'
    <3>1. q \in Nat /\ cur # NoFile
      BY <2>2 DEF Finds, TypeOK
    <3> QED BY <2>2, <3>1 DEF TypeOK
  <2>3. ASSUME NEW q, \/ PackData(q) \/ DefineRel(q) \/ DefineVrel(q)
        PROVE  TypeOK'
    BY <2>2, <2>3 DEF PackData, DefineRel, DefineVrel, scan
  <2>4. ASSUME NEW q, PackRaises(q) \/ VrelRaises(q) PROVE TypeOK'
    BY <2>0, <2>4 DEF PackRaises, VrelRaises
  <2>5. CASE EndPass
    BY <2>5 DEF EndPass, TypeOK, LinePass, locals
  <2>6. CASE ReadInstruction
    <3> DEFINE code == Lines[cur][pos].code
    <3>1. Canonical(code.op) \in Opcodes
      BY <2>6 DEF ReadInstruction, LineRaises
    <3>2. Emit(code.op, EncodeLine(code)) \in Seq(WordType)
      BY <3>1, EmitFits
    <3>3. words' \in Seq(WordType) /\ used' \subseteq Opcodes
      BY <2>6, <3>1, <3>2 DEF ReadInstruction, TypeOK
    <3>4. cur' = cur /\ pass' = pass /\ cur # NoFile /\ pos' \in Nat \ {0}
      BY <2>6 DEF ReadInstruction, AtLine, scan, TypeOK
    <3> QED BY <3>3, <3>4 DEF TypeOK
  <2>7. CASE ReadOther
    BY <2>7 DEF ReadOther, AtLine, TypeOK, scan
  <2>8. CASE ReadFuel
    BY <2>8 DEF ReadFuel, AtLine, TypeOK, scan
  <2>9. CASE LineFails \/ Return
    BY <2>0, <2>9 DEF LineFails, Return
  <2>10. CASE UNCHANGED vars
    BY <2>10 DEF vars, TypeOK
  <2> QED
    BY <2>1, <2>3, <2>4, <2>5, <2>6, <2>7, <2>8, <2>9, <2>10 DEF Next
<1> QED BY <1>1, <1>2, PTL DEF Spec

-----------------------------------------------------------------------------
(* What one line appends is sound on its own: if it has an extension word, *)
(* that is its second word and the first one announces it.                 *)
LEMMA EmitPairs ==
    ASSUME NEW op, NEW e, Canonical(op) \in Opcodes
    PROVE  LET w == Emit(op, e) IN
           /\ Len(w) \in 1..2
           /\ \A i \in 1..Len(w) : w[i].op = EXTENSION =>
                /\ i = 2 /\ w[1].op \in ExtendedOps /\ 7 \in w[1].flags
                /\ w[2].flags = {} /\ w[2].payload = {}
<1>1. CASE NeedsExtension(op, e)
  <2>1. op \in ExtendedOps /\ Canonical(op) = op
    BY <1>1, ExtendedIsCanonical DEF NeedsExtension
  <2>2. Canonical(op) # EXTENSION
    BY OpcodesAssumption
  <2> QED BY <1>1, <2>1, <2>2 DEF Emit, Word, Low
<1>2. CASE ~NeedsExtension(op, e)
  <2>1. Canonical(op) # EXTENSION
    BY OpcodesAssumption
  <2> QED BY <1>2, <2>1 DEF Emit, Word
<1> QED BY <1>1, <1>2

(* No word the machine may take for an instruction is an orphan extension: *)
(* in every reachable program each 0xFF word follows the instruction it    *)
(* extends.                                                                *)
THEOREM TombstonesFollow == Spec => []Tombstones
<1>1. Init => Tombstones
  BY DEF Init, Tombstones
<1>2. TypeOK /\ Tombstones /\ [Next]_vars => Tombstones'
  <2> SUFFICES ASSUME TypeOK, Tombstones, [Next]_vars
               PROVE  Tombstones'
    OBVIOUS
  <2>1. CASE words' = words
    BY <2>1 DEF Tombstones
  <2>2. CASE words' = <<>>
    BY <2>2 DEF Tombstones
  <2>3. CASE ReadInstruction
    <3> DEFINE code == Lines[cur][pos].code
               w == Emit(code.op, EncodeLine(code))
    <3>1. Canonical(code.op) \in Opcodes /\ words' = words \o w
      BY <2>3 DEF ReadInstruction, LineRaises
    <3>2. /\ Len(w) \in 1..2
          /\ \A i \in 1..Len(w) : w[i].op = EXTENSION =>
               /\ i = 2 /\ w[1].op \in ExtendedOps /\ 7 \in w[1].flags
               /\ w[2].flags = {} /\ w[2].payload = {}
      BY <3>1, EmitPairs
    <3>3. w \in Seq(WordType) /\ words \in Seq(WordType)
      BY <3>1, EmitFits DEF TypeOK
    <3> HIDE DEF w
    <3>4. ASSUME NEW i \in 1..Len(words'), words'[i].op = EXTENSION
          PROVE  /\ i > 1
                 /\ words'[i - 1].op \in ExtendedOps
                 /\ 7 \in words'[i - 1].flags
                 /\ words'[i].flags = {} /\ words'[i].payload = {}
      <4>1. CASE i <= Len(words)
        <5>1. words'[i] = words[i] /\ i \in 1..Len(words)
          BY <3>1, <3>3, <4>1
        <5>2. i > 1 => words'[i - 1] = words[i - 1]
          BY <3>1, <3>3, <4>1
        <5> QED BY <3>4, <5>1, <5>2 DEF Tombstones
      <4>2. CASE i > Len(words)
        <5> DEFINE j == i - Len(words)
        <5>1. j \in 1..Len(w) /\ words'[i] = w[j]
          BY <3>1, <3>3, <4>2
        <5>2. j = 2
          BY <3>2, <3>4, <5>1
        <5>3. words'[i - 1] = w[1] /\ i > 1
          BY <3>1, <3>3, <5>1, <5>2
        <5> QED BY <3>2, <3>4, <5>1, <5>2, <5>3
      <4> QED BY <3>3, <4>1, <4>2
    <3> QED BY <3>4 DEF Tombstones
  <2> QED
    BY <2>1, <2>2, <2>3
    DEF Next, Call, Leave, PackData, PackRaises, DefineRel, DefineVrel,
        VrelRaises, EndPass, ReadOther, ReadFuel, LineFails, Return, vars,
        locals
<1> QED BY <1>1, <1>2, TypeCorrect, PTL DEF Spec

-----------------------------------------------------------------------------
(* History independence.  What survives a call is env alone, so the proof  *)
(* describes env at every moment of a call: the names no file binds are as *)
(* the program started, and the names this file has bound so far hold what *)
(* its last binder so far gave them.                                       *)

LastSoFar(q) ==
    /\ q \in Binders(cur) /\ Done(q)
    /\ \A r \in Binders(cur) :
          Done(r) /\ Dirs[cur][r].name = Dirs[cur][q].name /\ r # q
            => Before(cur, r, q)
NamesDone ==
    {Dirs[cur][r].name : r \in {s \in 1..Len(Dirs[cur]) : Done(s)}}

UnboundNames ==
    \A t : t \notin BoundAnywhere =>
        /\ t \in DOMAIN env <=> t \in DOMAIN Builtin
        /\ t \in DOMAIN Builtin => env[t] = Builtin[t]
BoundNames ==
    /\ \A q \in Binders(cur) : LastSoFar(q) =>
          /\ Dirs[cur][q].name \in DOMAIN env
          /\ env[Dirs[cur][q].name] = IdOf(cur, q)
    /\ \A q \in Binders(cur) : Done(q) =>
          \E r \in Binders(cur) :
             LastSoFar(r) /\ Dirs[cur][r].name = Dirs[cur][q].name
EnvInv ==
    /\ UnboundNames
    /\ cur # NoFile => DOMAIN symbols = NamesDone /\ BoundNames

LEMMA PassNumbers ==
    ASSUME NEW f \in File, NEW q \in 1..Len(Dirs[f])
    PROVE  /\ Pass[Dirs[f][q].kind] \in 0..5
           /\ Dirs[f][q].kind \in {"rel", "vrel"} => Pass[Dirs[f][q].kind] > 3
           /\ Dirs[f][q].kind \in {"csr", "float", "int", "other"}
                => Pass[Dirs[f][q].kind] < 4
BY TextAssumption DEF Pass

(* Processing directive q adds q, and nothing else, to what is done; and   *)
(* what was done is what comes before q.                                   *)
LEMMA OneMoreDone ==
    ASSUME TypeOK, NEW q, Finds(q), pos' = q + 1, UNCHANGED <<cur, pass>>
    PROVE  /\ cur \in File /\ q \in 1..Len(Dirs[cur])
           /\ \A r \in 1..Len(Dirs[cur]) :
                /\ Done(r)' <=> Done(r) \/ r = q
                /\ Done(r) <=> /\ Pass[Dirs[cur][r].kind] > 0
                               /\ Before(cur, r, q)
           /\ ~Done(q) /\ ~Before(cur, q, q)
<1>1. cur \in File /\ q \in 1..Len(Dirs[cur]) /\ pass \in 1..5 /\ pos \in Nat \ {0}
  BY TextAssumption DEF Finds, TypeOK, LinePass
<1>2. Pass[Dirs[cur][q].kind] = pass
  BY DEF Finds
<1>3. \A r \in pos..(q - 1) : Pass[Dirs[cur][r].kind] # pass
  BY DEF Finds
<1>4. ~Done(q) /\ ~Before(cur, q, q)
  BY <1>1, <1>2 DEF Done, Before, Finds
<1>5. ASSUME NEW r \in 1..Len(Dirs[cur])
      PROVE  /\ Done(r)' <=> Done(r) \/ r = q
             /\ Done(r) <=> Pass[Dirs[cur][r].kind] > 0 /\ Before(cur, r, q)
  <2>1. Pass[Dirs[cur][r].kind] \in 0..5
    BY <1>1, PassNumbers
  <2>2. q >= pos /\ Len(Dirs[cur]) \in Nat
    BY <1>1, TextAssumption DEF Finds
  <2>3. Pass[Dirs[cur][r].kind] = pass /\ r < q => r < pos
    BY <1>1, <1>3, <2>2
  <2> QED BY <1>1, <1>2, <2>1, <2>2, <2>3 DEF Done, Before
<1> QED BY <1>1, <1>4, <1>5

(* Two binders of one file come one before the other, never both ways.     *)
LEMMA BeforeIsStrict ==
    ASSUME NEW f \in File, NEW q \in 1..Len(Dirs[f]), NEW r \in 1..Len(Dirs[f]),
           Before(f, q, r)
    PROVE  ~Before(f, r, q)
<1>1. Pass[Dirs[f][q].kind] \in 0..5 /\ Pass[Dirs[f][r].kind] \in 0..5
  BY PassNumbers
<1>2. q \in Int /\ r \in Int
  OBVIOUS
<1> DEFINE kq == Pass[Dirs[f][q].kind]
           kr == Pass[Dirs[f][r].kind]
<1>3. kq < kr \/ (kq = kr /\ q < r)
  BY DEF Before
<1>4. ~(kr < kq \/ (kr = kq /\ r < q))
  BY <1>1, <1>2, <1>3
<1> QED BY <1>4 DEF Before

(* A .rel or .vrel step: env takes the binder's identifier.                *)
LEMMA BindStep ==
    ASSUME TypeOK, EnvInv, NEW q, Finds(q), pos' = q + 1, UNCHANGED <<cur, pass>>,
           Dirs[cur][q].kind \in {"rel", "vrel"},
           env' = Put(env, Dirs[cur][q].name, IdOf(cur, q)),
           DOMAIN symbols' = DOMAIN symbols \cup {Dirs[cur][q].name}
    PROVE  EnvInv'
<1> DEFINE name == Dirs[cur][q].name
<1>0. cur # NoFile
  BY DEF Finds
<1>1. /\ cur \in File /\ q \in 1..Len(Dirs[cur]) /\ q \in Binders(cur)
      /\ \A r \in 1..Len(Dirs[cur]) : Done(r)' <=> Done(r) \/ r = q
      /\ \A r \in 1..Len(Dirs[cur]) : Done(r) => Before(cur, r, q)
      /\ ~Done(q)
  BY OneMoreDone DEF Binders
<1>2. /\ DOMAIN env' = DOMAIN env \cup {name}
      /\ env'[name] = IdOf(cur, q)
      /\ \A x \in DOMAIN env : x # name => env'[x] = env[x]
  BY DEF Put
<1>3. name \in BoundAnywhere
  BY <1>1 DEF BoundAnywhere, Bound
<1>4. UnboundNames'
  <2> SUFFICES ASSUME NEW t, t \notin BoundAnywhere
               PROVE  /\ t \in DOMAIN env' <=> t \in DOMAIN Builtin
                      /\ t \in DOMAIN Builtin => env'[t] = Builtin[t]
    BY DEF UnboundNames
  <2>1. /\ t \in DOMAIN env <=> t \in DOMAIN Builtin
        /\ t \in DOMAIN Builtin => env[t] = Builtin[t]
    BY DEF EnvInv, UnboundNames
  <2> QED BY <1>2, <1>3, <2>1
<1>5. (DOMAIN symbols = NamesDone)'
  <2>1. DOMAIN symbols = NamesDone
    BY <1>0 DEF EnvInv
  <2>2. NamesDone' = NamesDone \cup {name}
    BY <1>1 DEF NamesDone
  <2> QED BY <2>1, <2>2
<1>6. \A r \in Binders(cur) : r \in 1..Len(Dirs[cur])
  BY DEF Binders
<1>7. BoundNames
  BY <1>0 DEF EnvInv
<1>8. LastSoFar(q)'
  BY <1>1, <1>6 DEF LastSoFar
<1>9. ASSUME NEW r \in Binders(cur), Dirs[cur][r].name # name
      PROVE  LastSoFar(r)' <=> LastSoFar(r)
  BY <1>1, <1>6, <1>9 DEF LastSoFar
<1>10. ASSUME NEW r \in Binders(cur), LastSoFar(r)'
       PROVE  /\ Dirs[cur][r].name \in DOMAIN env'
              /\ env'[Dirs[cur][r].name] = IdOf(cur, r)
  <2>1. CASE Dirs[cur][r].name # name
    <3>1. /\ Dirs[cur][r].name \in DOMAIN env
          /\ env[Dirs[cur][r].name] = IdOf(cur, r)
      BY <1>7, <1>9, <1>10, <2>1 DEF BoundNames
    <3> QED BY <1>2, <2>1, <3>1
  <2>2. CASE Dirs[cur][r].name = name
    <3>1. r = q
      <4> SUFFICES ASSUME r # q PROVE FALSE
        OBVIOUS
      <4>1. Before(cur, q, r)
        BY <1>1, <1>10, <2>2 DEF LastSoFar
      <4>2. Before(cur, r, q)
        BY <1>1, <1>6, <1>10 DEF LastSoFar
      <4> QED BY <1>1, <1>6, <4>1, <4>2, BeforeIsStrict
    <3> QED BY <1>2, <3>1
  <2> QED BY <2>1, <2>2
<1>11. ASSUME NEW p \in Binders(cur), Done(p)'
       PROVE  \E r \in Binders(cur) :
                 LastSoFar(r)' /\ Dirs[cur][r].name = Dirs[cur][p].name
  <2>1. CASE Dirs[cur][p].name = name
    BY <1>1, <1>8, <2>1
  <2>2. CASE Dirs[cur][p].name # name
    <3>1. Done(p)
      BY <1>1, <1>6, <1>11, <2>2
    <3>2. PICK r \in Binders(cur) :
             LastSoFar(r) /\ Dirs[cur][r].name = Dirs[cur][p].name
      BY <1>7, <3>1 DEF BoundNames
    <3> QED BY <1>9, <2>2, <3>2
  <2> QED BY <2>1, <2>2
<1>12. BoundNames'
  BY <1>10, <1>11 DEF BoundNames
<1> QED BY <1>4, <1>5, <1>12 DEF EnvInv

(* A data directive leaves env alone and binds nothing.                    *)
LEMMA PackStep ==
    ASSUME TypeOK, EnvInv, NEW q, Finds(q), pos' = q + 1, UNCHANGED <<cur, pass>>,
           Dirs[cur][q].kind \in {"csr", "float", "int"}, env' = env,
           DOMAIN symbols' = DOMAIN symbols \cup {Dirs[cur][q].name}
    PROVE  EnvInv'
<1>0. cur # NoFile
  BY DEF Finds
<1>1. /\ cur \in File /\ q \in 1..Len(Dirs[cur]) /\ q \notin Binders(cur)
      /\ \A r \in 1..Len(Dirs[cur]) : Done(r)' <=> Done(r) \/ r = q
  BY OneMoreDone DEF Binders
<1>2. \A r \in Binders(cur) : Done(r)' <=> Done(r)
  BY <1>1 DEF Binders
<1>3. \A r \in Binders(cur) : LastSoFar(r)' <=> LastSoFar(r)
  BY <1>2 DEF LastSoFar
<1>4. NamesDone' = NamesDone \cup {Dirs[cur][q].name}
  BY <1>1 DEF NamesDone
<1>5. UnboundNames'
  BY DEF EnvInv, UnboundNames
<1>6. BoundNames'
  BY <1>0, <1>2, <1>3 DEF EnvInv, BoundNames
<1> QED BY <1>0, <1>4, <1>5, <1>6 DEF EnvInv

(* Steps that read the lines or end a pass do not touch what is done.      *)
LEMMA QuietStep ==
    ASSUME EnvInv, UNCHANGED <<env, cur, symbols>>,
           cur # NoFile => \A r \in 1..Len(Dirs[cur]) : Done(r)' <=> Done(r)
    PROVE  EnvInv'
<1>1. UnboundNames'
  BY DEF EnvInv, UnboundNames
<1>2. ASSUME cur # NoFile PROVE (DOMAIN symbols = NamesDone /\ BoundNames)'
  <2>1. \A r \in Binders(cur) : Done(r)' <=> Done(r)
    BY <1>2 DEF Binders
  <2>2. \A r \in Binders(cur) : LastSoFar(r)' <=> LastSoFar(r)
    BY <2>1 DEF LastSoFar
  <2>3. NamesDone' = NamesDone
    BY <1>2 DEF NamesDone
  <2> QED BY <1>2, <2>1, <2>2, <2>3 DEF EnvInv, BoundNames
<1> QED BY <1>1, <1>2 DEF EnvInv

(* Ending a pass and reading a line process no directive.                  *)
LEMMA ScanningKeepsDone ==
    ASSUME TypeOK, EndPass \/ ReadInstruction \/ ReadOther \/ ReadFuel
    PROVE  /\ cur # NoFile /\ UNCHANGED <<env, cur, symbols, data>>
           /\ \A r \in 1..Len(Dirs[cur]) : Done(r)' <=> Done(r)
<1>1. CASE EndPass
  <2>1. cur # NoFile /\ cur \in File /\ pass \in 1..5 /\ pass' = pass + 1 /\ pos' = 1
        /\ pos \in Nat \ {0} /\ UNCHANGED <<env, cur, symbols, data>>
    BY <1>1 DEF EndPass, TypeOK, LinePass, locals
  <2>2. ASSUME NEW r \in 1..Len(Dirs[cur]) PROVE Done(r)' <=> Done(r)
    <3>1. Pass[Dirs[cur][r].kind] \in 0..5 /\ Len(Dirs[cur]) \in Nat
      BY <2>1, PassNumbers, TextAssumption
    <3>2. Pass[Dirs[cur][r].kind] = pass => r < pos
      BY <1>1, <2>1, <3>1 DEF EndPass
    <3> QED BY <2>1, <3>1, <3>2 DEF Done
  <2> QED BY <2>1, <2>2
<1>2. CASE ReadInstruction \/ ReadOther \/ ReadFuel
  <2>1. cur # NoFile /\ pass = LinePass /\ UNCHANGED <<env, cur, pass, symbols, data>>
    BY <1>2 DEF ReadInstruction, ReadOther, ReadFuel, AtLine, scan
  <2>2. ASSUME NEW r \in 1..Len(Dirs[cur]) PROVE Done(r)' <=> Done(r)
    <3>1. Pass[Dirs[cur][r].kind] \in 0..5
      BY <2>1, PassNumbers DEF TypeOK
    <3> QED BY <2>1, <3>1 DEF Done, LinePass
  <2> QED BY <2>1, <2>2
<1> QED BY <1>1, <1>2

(* Nothing is done when a call begins.                                     *)
LEMMA CallsStartFresh ==
    ASSUME TypeOK, NEW f \in File, Call(f)
    PROVE  \A r \in 1..Len(Dirs[f]) : ~Done(r)'
<1> SUFFICES ASSUME NEW r \in 1..Len(Dirs[f]) PROVE ~Done(r)'
  OBVIOUS
<1>1. cur' = f /\ pass' = 1 /\ pos' = 1
  BY DEF Call, TypeOK
<1>2. Pass[Dirs[f][r].kind] \in 0..5
  BY PassNumbers
<1> QED BY <1>1, <1>2, TextAssumption DEF Done

LEMMA EnvStep == TypeOK /\ EnvInv /\ [Next]_vars => EnvInv'
<1> SUFFICES ASSUME TypeOK, EnvInv, [Next]_vars
             PROVE  EnvInv'
  OBVIOUS
<1> USE NoFileAssumption
<1>1. ASSUME NEW f \in File, Call(f) PROVE EnvInv'
  <2>1. cur = NoFile /\ cur' = f /\ pass = 1 /\ pos = 1 /\ symbols' = Empty
        /\ pass' = 1 /\ pos' = 1 /\ env' = env
    BY <1>1 DEF Call, TypeOK
  <2>2. \A r \in 1..Len(Dirs[f]) : ~Done(r)'
    BY <1>1, CallsStartFresh
  <2>3. NamesDone' = {} /\ DOMAIN symbols' = {}
    BY <2>1, <2>2 DEF NamesDone, Empty
  <2>4. BoundNames'
    BY <2>1, <2>2 DEF BoundNames, LastSoFar, Binders
  <2>5. UnboundNames'
    BY <2>1 DEF EnvInv, UnboundNames
  <2> QED BY <2>3, <2>4, <2>5 DEF EnvInv
<1>2. ASSUME NEW r, Leave(r), env' = env PROVE EnvInv'
  BY <1>2 DEF Leave, EnvInv, UnboundNames
<1>3. ASSUME NEW q, PackData(q) PROVE EnvInv'
  <2>1. /\ Finds(q) /\ pos' = q + 1 /\ UNCHANGED <<cur, pass>> /\ env' = env
        /\ Dirs[cur][q].kind \in {"csr", "float", "int"}
        /\ symbols' = Put(symbols, Dirs[cur][q].name,
                          Symbol(Bits(ByteOffset), Bits(Len(Dirs[cur][q].body))))
    BY <1>3 DEF PackData, scan
  <2>2. DOMAIN symbols' = DOMAIN symbols \cup {Dirs[cur][q].name}
    BY <2>1 DEF Put
  <2> QED BY <2>1, <2>2, PackStep
<1>4. ASSUME NEW q, DefineRel(q) PROVE EnvInv'
  <2>1. /\ Finds(q) /\ pos' = q + 1 /\ UNCHANGED <<cur, pass>>
        /\ Dirs[cur][q].kind = "rel"
        /\ env' = Put(env, Dirs[cur][q].name, Dirs[cur][q].body)
        /\ symbols' = Put(symbols, Dirs[cur][q].name,
                          Symbol(Dirs[cur][q].body, {}))
    BY <1>4 DEF DefineRel, Bind, scan
  <2>2. DOMAIN symbols' = DOMAIN symbols \cup {Dirs[cur][q].name}
    BY <2>1 DEF Put
  <2>3. IdOf(cur, q) = Dirs[cur][q].body
    BY <2>1 DEF IdOf
  <2> QED BY <2>1, <2>2, <2>3, BindStep
<1>5. ASSUME NEW q, DefineVrel(q) PROVE EnvInv'
  <2> DEFINE v == [Symbol(VrelId, {}) EXCEPT !.vrel = TRUE]
  <2>1. /\ Finds(q) /\ pos' = q + 1 /\ UNCHANGED <<cur, pass>>
        /\ Dirs[cur][q].kind = "vrel"
        /\ env' = Put(env, Dirs[cur][q].name, VrelId)
    BY <1>5 DEF DefineVrel, Bind, scan
  <2>2. symbols' = Put(symbols, Dirs[cur][q].name, v)
    BY <1>5, Zenon DEF DefineVrel
  <2> HIDE DEF v
  <2>3. DOMAIN symbols' = DOMAIN symbols \cup {Dirs[cur][q].name}
    BY <2>2 DEF Put
  <2>4. VrelId = IdOf(cur, q)
    <3>1. DOMAIN symbols = NamesDone
      BY <2>1 DEF EnvInv, Finds
    <3>2. \A r \in 1..Len(Dirs[cur]) :
             Done(r) <=> Pass[Dirs[cur][r].kind] > 0 /\ Before(cur, r, q)
      BY <2>1, OneMoreDone
    <3>3. NamesDone = NamesBefore(cur, q)
      BY <3>2 DEF NamesDone, NamesBefore
    <3> QED BY <2>1, <3>1, <3>3 DEF VrelId, IdOf
  <2> QED BY <2>1, <2>3, <2>4, BindStep
<1>6. ASSUME NEW q, PackRaises(q) \/ VrelRaises(q) PROVE EnvInv'
  BY <1>2, <1>6 DEF PackRaises, VrelRaises
<1>7. CASE EndPass \/ ReadInstruction \/ ReadOther \/ ReadFuel
  BY <1>7, ScanningKeepsDone, QuietStep
<1>9. CASE LineFails \/ Return
  BY <1>2, <1>9 DEF LineFails, Return
<1>10. CASE UNCHANGED vars
  BY <1>10, QuietStep DEF vars, Done
<1> QED
  BY <1>1, <1>3, <1>4, <1>5, <1>6, <1>7, <1>9, <1>10 DEF Next

(* In the line pass every directive is done, so env says what the file     *)
(* alone means.                                                            *)
LEMMA EnvGivesMeaning == TypeOK /\ EnvInv => TokenMeaning
<1> SUFFICES ASSUME TypeOK, EnvInv, cur # NoFile, pass = LinePass,
                    SelfContained(cur), NEW t \in LineTexts(cur)
             PROVE  /\ Val(t) = Meaning(cur, t)
                    /\ ValRaises(t) <=> /\ t \notin Bound(cur) \cup DOMAIN Builtin
                                        /\ Lex[t].bad
  BY DEF TokenMeaning
<1>0. cur \in File
  BY DEF TypeOK
<1>1. CASE t \in Bound(cur)
  <2>1. PICK p \in Binders(cur) : Dirs[cur][p].name = t
    BY <1>1 DEF Bound
  <2>2. \A r \in Binders(cur) : Done(r) /\ r \in 1..Len(Dirs[cur])
    <3> SUFFICES ASSUME NEW r \in Binders(cur)
                 PROVE  Done(r) /\ r \in 1..Len(Dirs[cur])
      OBVIOUS
    <3>1. r \in 1..Len(Dirs[cur]) /\ Dirs[cur][r].kind \in {"rel", "vrel"}
      BY DEF Binders
    <3>2. Pass[Dirs[cur][r].kind] \in 4..5
      BY <1>0, <3>1, PassNumbers
    <3> QED BY <3>1, <3>2 DEF Done, LinePass
  <2>3. PICK r \in Binders(cur) : LastSoFar(r) /\ Dirs[cur][r].name = t
    BY <2>1, <2>2 DEF EnvInv, BoundNames
  <2>4. IsLastBinder(cur, r, t)
    BY <2>2, <2>3 DEF LastSoFar, IsLastBinder
  <2>5. ASSUME NEW s \in Binders(cur), IsLastBinder(cur, s, t) PROVE s = r
    <3> SUFFICES ASSUME s # r PROVE FALSE
      OBVIOUS
    <3>1. Before(cur, s, r) /\ Before(cur, r, s)
      BY <2>3, <2>4, <2>5 DEF IsLastBinder
    <3> QED BY <1>0, <2>2, <3>1, BeforeIsStrict
  <2>6. Meaning(cur, t) = IdOf(cur, r)
    BY <1>1, <2>4, <2>5 DEF Meaning
  <2>7. t \in DOMAIN env /\ env[t] = IdOf(cur, r)
    BY <2>3 DEF EnvInv, BoundNames
  <2> QED BY <1>1, <2>6, <2>7 DEF Val, ValRaises
<1>2. CASE t \notin Bound(cur)
  <2>1. t \notin BoundAnywhere
    BY <1>2 DEF SelfContained
  <2>2. /\ t \in DOMAIN env <=> t \in DOMAIN Builtin
        /\ t \in DOMAIN Builtin => env[t] = Builtin[t]
    BY <2>1 DEF EnvInv, UnboundNames
  <2> QED BY <1>2, <2>2 DEF Val, ValRaises, Meaning
<1> QED BY <1>1, <1>2

(* History independence: whatever files were parsed before and however     *)
(* those calls ended, the operands of a self-contained file mean what the  *)
(* file alone says they mean.                                              *)
THEOREM HistoryIndependent == Spec => []TokenMeaning
<1>1. Init => EnvInv
  BY DEF Init, EnvInv, UnboundNames
<1>2. TypeOK /\ EnvInv /\ [Next]_vars => EnvInv'
  BY EnvStep
<1>3. TypeOK /\ EnvInv => TokenMeaning
  BY EnvGivesMeaning
<1> QED BY <1>1, <1>2, <1>3, TypeCorrect, PTL DEF Spec

-----------------------------------------------------------------------------
(* Concatenating the rows of a graph.  Targets is defined by recursion on  *)
(* the number of rows; the library states induction for an operator P(_),  *)
(* here it is stated for a set, from the well-foundedness of < on Nat.     *)
LEMMA SetInduction ==
    ASSUME NEW S, 0 \in S, \A n \in Nat : n \in S => n + 1 \in S
    PROVE  Nat \subseteq S
<1> SUFFICES ASSUME NEW m \in Nat, m \notin S PROVE FALSE
  OBVIOUS
<1> DEFINE T == Nat \ S
           R == OpToRel(<, Nat)
<1>1. T \subseteq Nat /\ T # {}
  OBVIOUS
<1>2. IsWellFoundedOn(R, Nat)
  BY NatLessThanWellFounded DEF OpToRel
<1> HIDE DEF R, T
<1>3. PICK x \in T : \A y \in T : ~ (<<y, x>> \in R)
  BY <1>1, <1>2, WFMin
<1>4. x \in Nat /\ x \notin S /\ x # 0 /\ x - 1 \in Nat
  BY DEF T
<1>5. x - 1 \in S
  <2>1. <<x - 1, x>> \in R
    BY <1>4 DEF R, OpToRel
  <2> QED BY <1>3, <1>4, <2>1 DEF T
<1> QED BY <1>4, <1>5

-----------------------------------------------------------------------------
(* Bits tells the naturals below 2^31 apart.                               *)
LEMMA DivideTwice ==
    ASSUME NEW n \in Nat, NEW c \in Nat, c > 0
    PROVE  n \div (2 * c) = (n \div c) \div 2
<1> DEFINE x == n \div c
           h == x \div 2
<1>1. x \in Nat /\ c * x <= n /\ n < c * (x + 1)
  OBVIOUS
<1> HIDE DEF x
<1>2. h \in Nat /\ (x = 2 * h \/ x = 2 * h + 1)
  BY <1>1
<1> HIDE DEF h
<1>3. (2 * c) * h <= n /\ n < (2 * c) * (h + 1)
  BY <1>1, <1>2, SMTT(30)
<1>4. n \div (2 * c) = h
  BY <1>3, <1>2, SMTT(30)
<1> QED BY <1>4 DEF h, x

LEMMA Digit ==
    ASSUME NEW n \in Nat, NEW m \in Nat, Bits(n) = Bits(m),
           NEW b \in 0..30, NEW c \in Nat \ {0}, 2^b = c
    PROVE  (n \div c) % 2 = (m \div c) % 2
<1>1. (n \div c) % 2 = 1 <=> b \in Bits(n)
  BY DEF Bits
<1>2. (m \div c) % 2 = 1 <=> b \in Bits(m)
  BY DEF Bits
<1>3. (m \div c) \in Nat /\ (n \div c) \in Nat
  OBVIOUS
<1> DEFINE x == n \div c
           y == m \div c
<1> HIDE DEF x, y
<1>4. x % 2 \in {0, 1} /\ y % 2 \in {0, 1}
  BY <1>3 DEF x, y
<1> QED BY <1>1, <1>2, <1>4 DEF x, y

LEMMA Powers == \A b \in 0..30 : 2^b \in Nat \ {0} /\ 2^(b + 1) = 2 * 2^b
<1> DEFINE Doubles(b) == 2^b \in Nat \ {0} /\ 2^(b + 1) = 2 * 2^b
<1>1. /\ Doubles(0) /\ Doubles(1) /\ Doubles(2) /\ Doubles(3)
      /\ Doubles(4) /\ Doubles(5) /\ Doubles(6) /\ Doubles(7)
  BY SMT
<1>2. /\ Doubles(8) /\ Doubles(9) /\ Doubles(10) /\ Doubles(11)
      /\ Doubles(12) /\ Doubles(13) /\ Doubles(14) /\ Doubles(15)
  BY SMT
<1>3. /\ Doubles(16) /\ Doubles(17) /\ Doubles(18) /\ Doubles(19)
      /\ Doubles(20) /\ Doubles(21) /\ Doubles(22) /\ Doubles(23)
  BY SMT
<1>4. /\ Doubles(24) /\ Doubles(25) /\ Doubles(26) /\ Doubles(27)
      /\ Doubles(28) /\ Doubles(29) /\ Doubles(30)
  BY SMT
<1> SUFFICES ASSUME NEW b \in 0..30 PROVE Doubles(b)
  OBVIOUS
<1>5. b = 0 \/ b = 1 \/ b = 2 \/ b = 3 \/ b = 4 \/ b = 5 \/ b = 6 \/ b = 7 \/
      b = 8 \/ b = 9 \/ b = 10 \/ b = 11 \/ b = 12 \/ b = 13 \/ b = 14 \/ b = 15 \/
      b = 16 \/ b = 17 \/ b = 18 \/ b = 19 \/ b = 20 \/ b = 21 \/ b = 22 \/ b = 23 \/
      b = 24 \/ b = 25 \/ b = 26 \/ b = 27 \/ b = 28 \/ b = 29 \/ b = 30
  BY SMT
<1> HIDE DEF Doubles
<1> QED BY <1>1, <1>2, <1>3, <1>4, <1>5

(* From the highest bit down.                                              *)
LEMMA BitsInjective ==
    ASSUME NEW n \in Nat, NEW m \in Nat, n < 2^31, m < 2^31, Bits(n) = Bits(m)
    PROVE  n = m
<1> DEFINE S == {i \in Nat : i <= 31 => n \div 2^(31 - i) = m \div 2^(31 - i)}
<1>0. 2^31 \in Nat \ {0} /\ n \in Nat /\ m \in Nat /\ n < 2^31 /\ m < 2^31
  <2>1. 2^30 \in Nat \ {0} /\ 2^31 = 2 * 2^30
    <3>1. 30 \in 0..30 /\ 30 + 1 = 31
      OBVIOUS
    <3> QED BY <3>1, Powers, SMT
  <2> QED BY <2>1, SMT
<1>1. 0 \in S
  <2> DEFINE top == 2^31
  <2> HIDE DEF top
  <2>1. top \in Nat \ {0} /\ n < top /\ m < top
    BY <1>0 DEF top
  <2>2. n \div top = 0 /\ m \div top = 0
    BY <1>0, <2>1, SMT
  <2>3. 31 - 0 = 31
    OBVIOUS
  <2> QED BY <2>2, <2>3, Zenon DEF top
<1>2. ASSUME NEW i \in Nat, i \in S PROVE i + 1 \in S
  <2> SUFFICES ASSUME i + 1 <= 31
               PROVE n \div 2^(31 - (i + 1)) = m \div 2^(31 - (i + 1))
    OBVIOUS
  <2> DEFINE b == 31 - (i + 1)
             c == 2^b
  <2>1. b \in 0..30 /\ 31 - i = b + 1 /\ i <= 31
    OBVIOUS
  <2>2. c \in Nat \ {0} /\ 2^(31 - i) = 2 * c
    BY <2>1, Powers
  <2>3. (n \div c) % 2 = (m \div c) % 2
    BY <1>0, <2>1, <2>2, Digit
  <2>4. n \div (2 * c) = m \div (2 * c)
    BY <1>2, <2>1, <2>2
  <2> HIDE DEF c
  <2>5. (n \div c) \div 2 = (m \div c) \div 2
    BY <1>0, <2>2, <2>4, DivideTwice
  <2> DEFINE x == n \div c
             y == m \div c
  <2>6. x \in Nat /\ y \in Nat
    BY <1>0, <2>2
  <2> HIDE DEF x, y
  <2>7. x \div 2 = y \div 2 /\ x % 2 = y % 2 => x = y
    BY <2>6
  <2> QED BY <2>3, <2>5, <2>7 DEF x, y, c
<1> HIDE DEF S
<1>3. Nat \subseteq S
  BY <1>1, <1>2, SetInduction
<1>4. n \div 2^0 = m \div 2^0
  <2>1. 31 \in S
    BY <1>3
  <2> QED BY <2>1 DEF S
<1> QED
  <2>1. 2^0 = 1 /\ n \div 1 = n /\ m \div 1 = m
    BY <1>0, SMT
  <2> QED BY <1>4, <2>1, Zenon

-----------------------------------------------------------------------------
(* g concatenates the first n rows.                                        *)
Joins(rows, n, g) ==
    g = [i \in 0..n |-> IF i = 0 THEN <<>> ELSE g[i - 1] \o rows[i].tgts]

(* There is such a g, so Targets is one.                                   *)
LEMMA JoinsExist == \A rows : \A n \in Nat : \E g : Joins(rows, n, g)
<1> SUFFICES ASSUME NEW rows PROVE \A n \in Nat : \E g : Joins(rows, n, g)
  OBVIOUS
<1> DEFINE S == {n \in Nat : \E g : Joins(rows, n, g)}
<1>1. 0 \in S
  <2> DEFINE g == [i \in 0..0 |-> <<>>]
  <2>1. Joins(rows, 0, g)
    BY DEF Joins
  <2> QED BY <2>1
<1>2. ASSUME NEW n \in Nat, n \in S PROVE n + 1 \in S
  <2>1. PICK g : Joins(rows, n, g)
    BY <1>2
  <2> DEFINE H(f, i) == IF i = 0 THEN <<>> ELSE f[i - 1] \o rows[i].tgts
             h == [i \in 0..(n + 1) |-> H(g, i)]
  <2>2. g = [i \in 0..n |-> H(g, i)]
    BY <2>1 DEF Joins
  <2>3. \A i \in 0..n : i \in 0..(n + 1)
    OBVIOUS
  <2>4. ASSUME NEW i \in 0..(n + 1) PROVE H(h, i) = H(g, i)
    <3>1. CASE i = 0
      BY <3>1
    <3>2. CASE i # 0
      <4>1. i - 1 \in 0..n
        BY <3>2
      <4> HIDE DEF H
      <4>2. g[i - 1] = H(g, i - 1)
        BY <2>2, <4>1
      <4>3. h[i - 1] = H(g, i - 1)
        BY <2>3, <4>1
      <4> QED BY <3>2, <4>2, <4>3 DEF H
    <3> QED BY <3>1, <3>2
  <2> HIDE DEF H
  <2>5. h = [i \in 0..(n + 1) |-> H(h, i)]
    BY <2>4, Zenon
  <2>6. Joins(rows, n + 1, h)
    BY <2>5 DEF Joins, H
  <2> QED BY <2>6
<1> HIDE DEF S
<1>3. Nat \subseteq S
  BY <1>1, <1>2, SetInduction
<1> QED BY <1>3 DEF S

LEMMA TargetsUnfold ==
    ASSUME NEW rows, Len(rows) \in Nat
    PROVE  /\ Targets(rows)[0] = <<>>
           /\ \A i \in 1..Len(rows) : Targets(rows)[i] = Targets(rows)[i - 1] \o rows[i].tgts
<1>1. \E g : Joins(rows, Len(rows), g)
  BY JoinsExist
<1>2. Targets(rows) = CHOOSE g : Joins(rows, Len(rows), g)
  BY DEF Targets, Joins
<1>3. Joins(rows, Len(rows), Targets(rows))
  BY <1>1, <1>2
<1> HIDE DEF Targets
<1> QED BY <1>3 DEF Joins

IsGraph(rows) == Len(rows) \in Nat /\ \A i \in 1..Len(rows) : rows[i].tgts \in Seq(Int)

(* What the first n rows give is a sequence of numbers, and stays the      *)
(* beginning of what more rows give.                                       *)
LEMMA TargetsTyped ==
    ASSUME NEW rows, IsGraph(rows)
    PROVE  \A n \in 0..Len(rows) : Targets(rows)[n] \in Seq(Int)
<1> DEFINE join == Targets(rows)
           S == {n \in Nat : n <= Len(rows) => join[n] \in Seq(Int)}
<1>0. /\ join[0] = <<>> /\ Len(rows) \in Nat
      /\ \A i \in 1..Len(rows) : join[i] = join[i - 1] \o rows[i].tgts /\ rows[i].tgts \in Seq(Int)
  BY TargetsUnfold DEF IsGraph
<1>a. Len(rows) \in Nat
  BY <1>0
<1> HIDE DEF join
<1>1. 0 \in S
  <2>1. <<>> \in Seq(Int)
    OBVIOUS
  <2>2. join[0] \in Seq(Int)
    BY <1>0, <2>1
  <2> QED BY <2>2
<1>2. ASSUME NEW n \in Nat, n \in S PROVE n + 1 \in S
  <2> SUFFICES ASSUME n + 1 <= Len(rows) PROVE join[n + 1] \in Seq(Int)
    OBVIOUS
  <2>1. n + 1 \in 1..Len(rows) /\ (n + 1) - 1 = n /\ n <= Len(rows)
    BY <1>a
  <2> DEFINE b == join[n]
             t == rows[n + 1].tgts
  <2>2. b \in Seq(Int)
    BY <1>2, <2>1
  <2>3. t \in Seq(Int) /\ join[n + 1] = b \o t
    BY <1>0, <2>1
  <2> HIDE DEF b, t
  <2>4. b \o t \in Seq(Int)
    BY <2>2, <2>3
  <2> QED BY <2>3, <2>4
<1> HIDE DEF S
<1>3. Nat \subseteq S
  BY <1>1, <1>2, SetInduction
<1> QED BY <1>0, <1>3 DEF S, join

LEMMA TargetsGrow ==
    ASSUME NEW rows, IsGraph(rows)
    PROVE  \A n \in 0..Len(rows) : \A i \in 0..n :
              /\ Len(Targets(rows)[i]) <= Len(Targets(rows)[n])
              /\ \A j \in 1..Len(Targets(rows)[i]) : Targets(rows)[n][j] = Targets(rows)[i][j]
<1> DEFINE join == Targets(rows)
           Begins(i, n) == /\ Len(join[i]) <= Len(join[n])
                           /\ \A j \in 1..Len(join[i]) : join[n][j] = join[i][j]
           S == {n \in Nat : n <= Len(rows) => \A i \in 0..n : Begins(i, n)}
<1>0. /\ join[0] = <<>> /\ Len(rows) \in Nat /\ \A i \in 0..Len(rows) : join[i] \in Seq(Int)
      /\ \A i \in 1..Len(rows) : join[i] = join[i - 1] \o rows[i].tgts /\ rows[i].tgts \in Seq(Int)
  BY TargetsUnfold, TargetsTyped DEF IsGraph
<1>a. Len(rows) \in Nat
  BY <1>0
<1> HIDE DEF join
<1>1. 0 \in S
  BY <1>0
<1>2. ASSUME NEW n \in Nat, n \in S PROVE n + 1 \in S
  <2> SUFFICES ASSUME n + 1 <= Len(rows), NEW i \in 0..(n + 1) PROVE Begins(i, n + 1)
    BY <1>2
  <2> DEFINE t == rows[n + 1].tgts
             a == join[i]
             b == join[n]
             c == join[n + 1]
  <2>1. n + 1 \in 1..Len(rows) /\ (n + 1) - 1 = n /\ n \in 0..Len(rows) /\ i \in 0..Len(rows)
    BY <1>a
  <2>2. a \in Seq(Int) /\ b \in Seq(Int) /\ t \in Seq(Int) /\ c = b \o t
    BY <1>0, <2>1
  <2> SUFFICES Len(a) <= Len(c) /\ \A j \in 1..Len(a) : c[j] = a[j]
    OBVIOUS
  <2>3. CASE i = n + 1
    BY <1>0, <2>3
  <2>4. CASE i # n + 1
    <3>1. i \in 0..n
      BY <2>4
    <3>2. Len(a) <= Len(b) /\ \A j \in 1..Len(a) : b[j] = a[j]
      BY <1>0, <1>2, <3>1
    <3> HIDE DEF a, b, c, t
    <3>3. /\ Len(a) \in Nat /\ Len(b) \in Nat /\ Len(b) <= Len(c) /\ Len(c) \in Nat
          /\ \A j \in 1..Len(b) : c[j] = b[j]
      BY <2>2
    <3> QED BY <3>2, <3>3
  <2> QED BY <2>3, <2>4
<1> HIDE DEF S
<1>3. Nat \subseteq S
  BY <1>1, <1>2, SetInduction
<1> HIDE DEF Begins
<1>4. ASSUME NEW n \in 0..Len(rows), NEW i \in 0..n PROVE Begins(i, n)
  <2>1. n \in Nat /\ n <= Len(rows)
    BY <1>a
  <2> QED BY <1>3, <2>1 DEF S
<1> QED BY <1>4 DEF Begins, join

(* What a graph's directive packs: the lengths of the beginnings, then the *)
(* targets of all rows.                                                    *)
LEMMA CsrShape ==
    ASSUME NEW rows, IsGraph(rows)
    PROVE  LET n == Len(rows)  all == Targets(rows)[Len(rows)] IN
           /\ n \in Nat /\ all \in Seq(Int)
           /\ CsrWords(rows) \in Seq(Int)
           /\ Len(CsrWords(rows)) = n + 1 + Len(all)
           /\ \A i \in 1..(n + 1) : CsrWords(rows)[i] = Len(Targets(rows)[i - 1])
           /\ \A j \in 1..Len(all) : CsrWords(rows)[n + 1 + j] = all[j]
<1> DEFINE n == Len(rows)
           all == Targets(rows)[n]
           offsets == [i \in 1..(n + 1) |-> Len(Targets(rows)[i - 1])]
<1>1. n \in Nat
  BY DEF IsGraph
<1>2. \A i \in 0..n : Targets(rows)[i] \in Seq(Int)
  BY TargetsTyped
<1>3. CsrWords(rows) = offsets \o all
  BY DEF CsrWords
<1>4. all \in Seq(Int)
  BY <1>1, <1>2
<1>5. \A i \in 1..(n + 1) : Len(Targets(rows)[i - 1]) \in Int
  <2> SUFFICES ASSUME NEW i \in 1..(n + 1) PROVE Len(Targets(rows)[i - 1]) \in Int
    OBVIOUS
  <2>1. i - 1 \in 0..n
    BY <1>1
  <2>2. Targets(rows)[i - 1] \in Seq(Int)
    BY <1>2, <2>1
  <2> QED BY <2>2
<1>6. offsets \in Seq(Int) /\ Len(offsets) = n + 1
  <2>1. offsets \in [1..(n + 1) -> Int] /\ n + 1 \in Nat
    BY <1>1, <1>5
  <2> HIDE DEF offsets, n
  <2> QED BY <2>1
<1>7. \A i \in 1..(n + 1) : offsets[i] = Len(Targets(rows)[i - 1])
  OBVIOUS
<1> HIDE DEF n, all, offsets
<1>8. /\ offsets \o all \in Seq(Int) /\ Len(offsets \o all) = n + 1 + Len(all)
      /\ \A i \in 1..(n + 1) : (offsets \o all)[i] = offsets[i]
      /\ \A j \in 1..Len(all) : (offsets \o all)[n + 1 + j] = all[j]
  BY <1>1, <1>4, <1>6
<1> QED BY <1>1, <1>3, <1>4, <1>7, <1>8, Zenon DEF n, all

LEMMA PackedTyped ==
    ASSUME NEW f \in File, NEW q \in 1..Len(Dirs[f]),
           Dirs[f][q].kind \in {"csr", "float", "int"}
    PROVE  /\ Packed(Dirs[f][q]) \in Seq(Int)
           /\ Dirs[f][q].kind = "csr" => IsGraph(Dirs[f][q].body)
<1>1. CASE Dirs[f][q].kind = "csr"
  <2>1. IsGraph(Dirs[f][q].body)
    BY <1>1, DataAssumption DEF IsGraph
  <2>2. CsrWords(Dirs[f][q].body) \in Seq(Int)
    BY <2>1, CsrShape
  <2> QED BY <1>1, <2>1, <2>2 DEF Packed
<1>2. CASE Dirs[f][q].kind # "csr"
  BY <1>2, DataAssumption DEF Packed
<1> QED BY <1>1, <1>2

-----------------------------------------------------------------------------
(* Symbols keep pointing at their data.                                    *)
Region(r) ==
    \E k \in 0..Len(data) :
        /\ symbols[Dirs[cur][r].name]
             = Symbol(Bits(4 * k), Bits(Len(Dirs[cur][r].body)))
        /\ k + Len(Packed(Dirs[cur][r])) <= Len(data)
        /\ \A j \in 1..Len(Packed(Dirs[cur][r])) :
              data[k + j] = Packed(Dirs[cur][r])[j]
Regions ==
    /\ data \in Seq(Int)
    /\ cur # NoFile => \A r \in 1..Len(Dirs[cur]) : Standing(r) => Region(r)

(* Steps that touch neither buffer nor symbols.                            *)
LEMMA RegionsQuiet ==
    ASSUME Regions, UNCHANGED <<cur, data, symbols>>,
           cur # NoFile => \A r \in 1..Len(Dirs[cur]) : Done(r)' <=> Done(r)
    PROVE  Regions'
<1>1. ASSUME cur # NoFile, NEW r \in 1..Len(Dirs[cur]), Standing(r)'
      PROVE  Standing(r)
  BY <1>1 DEF Standing
<1> QED BY <1>1 DEF Regions, Region

(* A directive whose symbol stands after directive q was processed is q    *)
(* itself or stood before, under another name than q's.                    *)
LEMMA StandingStep ==
    ASSUME TypeOK, EnvInv, NEW q, Finds(q), pos' = q + 1, UNCHANGED <<cur, pass>>,
           NEW r \in 1..Len(Dirs[cur]), Standing(r)', r # q
    PROVE  /\ Standing(r) /\ Dirs[cur][r].name # Dirs[cur][q].name
           /\ Dirs[cur][r].name \in DOMAIN symbols
<1>1. /\ cur \in File /\ q \in 1..Len(Dirs[cur]) /\ cur # NoFile
      /\ \A s \in 1..Len(Dirs[cur]) : Done(s)' <=> Done(s) \/ s = q
      /\ \A s \in 1..Len(Dirs[cur]) : Done(s) => Before(cur, s, q)
  BY OneMoreDone DEF Finds
<1>2. Done(r)
  BY <1>1 DEF Standing
<1>3. Standing(r)
  BY <1>1, <1>2 DEF Standing
<1>4. Dirs[cur][r].name # Dirs[cur][q].name
  <2> SUFFICES ASSUME Dirs[cur][r].name = Dirs[cur][q].name PROVE FALSE
    OBVIOUS
  <2>1. Before(cur, q, r)
    BY <1>1 DEF Standing
  <2>2. Before(cur, r, q)
    BY <1>1, <1>2
  <2> QED BY <1>1, <2>1, <2>2, BeforeIsStrict
<1>5. Dirs[cur][r].name \in DOMAIN symbols
  BY <1>1, <1>2 DEF EnvInv, NamesDone
<1> QED BY <1>3, <1>4, <1>5

(* Processing a directive: the buffer keeps its elements, the directive's  *)
(* name gets a symbol, and a data directive's symbol is its own region.    *)
LEMMA RegionsStep ==
    ASSUME TypeOK, EnvInv, Regions, NEW q, Finds(q), pos' = q + 1,
           UNCHANGED <<cur, pass>>, NEW s,
           symbols' = Put(symbols, Dirs[cur][q].name, s),
           NEW new \in Seq(Int), data' = data \o new,
           Dirs[cur][q].kind \in {"csr", "float", "int"} =>
              /\ new = Packed(Dirs[cur][q])
              /\ s = Symbol(Bits(ByteOffset), Bits(Len(Dirs[cur][q].body)))
    PROVE  Regions'
<1>0. cur # NoFile /\ cur' = cur
  BY DEF Finds
<1>1. /\ data \in Seq(Int) /\ data' \in Seq(Int)
      /\ Len(data) \in Nat /\ Len(new) \in Nat
      /\ Len(data') = Len(data) + Len(new)
      /\ \A i \in 1..Len(data) : data'[i] = data[i]
      /\ \A j \in 1..Len(new) : data'[Len(data) + j] = new[j]
  BY DEF Regions
<1>2. /\ symbols'[Dirs[cur][q].name] = s
      /\ \A x \in DOMAIN symbols : x # Dirs[cur][q].name => symbols'[x] = symbols[x]
  BY DEF Put
<1> SUFFICES ASSUME NEW r \in 1..Len(Dirs[cur]), Standing(r)'
             PROVE  Region(r)'
  BY <1>0, <1>1 DEF Regions
<1> DEFINE d == Dirs[cur][r]
           p == Packed(Dirs[cur][r])
<1>3. CASE r = q
  <2>1. d.kind \in {"csr", "float", "int"}
    BY <1>0 DEF Standing
  <2>2. symbols'[d.name] = Symbol(Bits(4 * Len(data)), Bits(Len(d.body))) /\ new = p
    BY <1>2, <1>3, <2>1 DEF ByteOffset
  <2> DEFINE k == Len(data)
  <2> HIDE DEF d, p
  <2>3. k \in 0..Len(data') /\ k + Len(p) <= Len(data')
    BY <1>1, <2>2
  <2>4. \A j \in 1..Len(p) : data'[k + j] = p[j]
    BY <1>1, <2>2
  <2>5. symbols'[d.name] = Symbol(Bits(4 * k), Bits(Len(d.body)))
    BY <2>2
  <2> HIDE DEF k
  <2> QED BY <1>0, <2>3, <2>4, <2>5 DEF Region, d, p
<1>4. CASE r # q
  <2>1. Standing(r) /\ d.name # Dirs[cur][q].name /\ d.name \in DOMAIN symbols
    BY <1>4, StandingStep
  <2>2. PICK k \in 0..Len(data) :
           /\ symbols[d.name] = Symbol(Bits(4 * k), Bits(Len(d.body)))
           /\ k + Len(p) <= Len(data)
           /\ \A j \in 1..Len(p) : data[k + j] = p[j]
    BY <1>0, <2>1 DEF Regions, Region
  <2>3. p \in Seq(Int) /\ Len(p) \in Nat
    <3>1. p \in Seq(Int)
      BY <1>0, <2>1, PackedTyped DEF Standing, TypeOK
    <3> HIDE DEF p
    <3> QED BY <3>1
  <2>4. symbols'[d.name] = Symbol(Bits(4 * k), Bits(Len(d.body)))
    BY <1>2, <2>1, <2>2
  <2> HIDE DEF d, p
  <2>5. \A j \in 1..Len(p) : data'[k + j] = p[j]
    <3> SUFFICES ASSUME NEW j \in 1..Len(p) PROVE data'[k + j] = p[j]
      OBVIOUS
    <3>1. k + j \in 1..Len(data)
      BY <1>1, <2>2, <2>3
    <3> QED BY <1>1, <2>2, <3>1
  <2>6. k \in 0..Len(data') /\ k + Len(p) <= Len(data')
    BY <1>1, <2>2, <2>3
  <2> QED BY <1>0, <2>4, <2>5, <2>6 DEF Region, d, p
<1> QED BY <1>3, <1>4

LEMMA RegionsNext == TypeOK /\ EnvInv /\ Regions /\ [Next]_vars => Regions'
<1> SUFFICES ASSUME TypeOK, EnvInv, Regions, [Next]_vars
             PROVE  Regions'
  OBVIOUS
<1> USE NoFileAssumption
<1>1. ASSUME NEW f \in File, Call(f) PROVE Regions'
  <2>1. cur' = f /\ data' = data /\ data \in Seq(Int)
    BY <1>1 DEF Call, Regions
  <2>2. \A r \in 1..Len(Dirs[f]) : ~Done(r)'
    BY <1>1, CallsStartFresh
  <2> QED BY <2>1, <2>2 DEF Regions, Standing
<1>2. ASSUME NEW r, Leave(r) PROVE Regions'
  BY <1>2 DEF Leave, Regions
<1>3. ASSUME NEW q, PackData(q) PROVE Regions'
  <2>1. /\ Finds(q) /\ pos' = q + 1 /\ UNCHANGED <<cur, pass>>
        /\ Dirs[cur][q].kind \in {"csr", "float", "int"}
        /\ data' = data \o Packed(Dirs[cur][q])
        /\ symbols' = Put(symbols, Dirs[cur][q].name,
                          Symbol(Bits(ByteOffset), Bits(Len(Dirs[cur][q].body))))
    BY <1>3 DEF PackData, scan
  <2>2. Packed(Dirs[cur][q]) \in Seq(Int)
    BY <2>1, OneMoreDone, PackedTyped
  <2> QED BY <2>1, <2>2, RegionsStep
<1>4. ASSUME NEW q, DefineRel(q) \/ DefineVrel(q) PROVE Regions'
  <2>1. /\ Finds(q) /\ pos' = q + 1 /\ UNCHANGED <<cur, pass>> /\ data' = data
        /\ Dirs[cur][q].kind \in {"rel", "vrel"}
    BY <1>4 DEF DefineRel, DefineVrel, scan
  <2>2. \E s : symbols' = Put(symbols, Dirs[cur][q].name, s)
    BY <1>4, Zenon DEF DefineRel, DefineVrel
  <2>3. << >> \in Seq(Int) /\ data' = data \o << >>
    BY <2>1 DEF Regions
  <2> QED BY <2>1, <2>2, <2>3, RegionsStep
<1>5. ASSUME NEW q, PackRaises(q) \/ VrelRaises(q) PROVE Regions'
  BY <1>2, <1>5 DEF PackRaises, VrelRaises
<1>6. CASE EndPass \/ ReadInstruction \/ ReadOther \/ ReadFuel
  BY <1>6, ScanningKeepsDone, RegionsQuiet
<1>7. CASE LineFails \/ Return
  BY <1>2, <1>7 DEF LineFails, Return
<1>8. CASE UNCHANGED vars
  BY <1>8, RegionsQuiet DEF vars, Done
<1> QED BY <1>1, <1>3, <1>4, <1>5, <1>6, <1>7, <1>8 DEF Next

(* Whatever directives follow and whatever files came before, the symbol   *)
(* of a graph or array that is not redefined points at the elements its    *)
(* own directive packed, with its own count.                               *)
THEOREM SymbolsKeepTheirRegions == Spec => []SymbolRegions
<1>1. Init => EnvInv /\ Regions
  BY DEF Init, EnvInv, UnboundNames, Regions
<1>2. TypeOK /\ EnvInv /\ Regions /\ [Next]_vars => EnvInv' /\ Regions'
  BY EnvStep, RegionsNext
<1>3. Regions => SymbolRegions
  BY DEF Regions, Region, SymbolRegions
<1> QED BY <1>1, <1>2, <1>3, TypeCorrect, PTL DEF Spec

-----------------------------------------------------------------------------
(* A reader of a graph's region gets its rows back.                        *)
LEMMA Slice ==
    ASSUME NEW s \in Seq(Int), NEW t \in Seq(Int), NEW z \in Nat,
           z + Len(t) <= Len(s), \A j \in 1..Len(t) : s[z + j] = t[j]
    PROVE  SubSeq(s, z + 1, z + Len(t)) = t
<1> DEFINE u == SubSeq(s, z + 1, z + Len(t))
<1>1. Len(t) \in Nat /\ Len(s) \in Nat
  OBVIOUS
<1>2. u = [j \in 1..Len(t) |-> s[z + j]]
  <2>1. (z + Len(t)) - (z + 1) + 1 = Len(t)
    BY <1>1
  <2> QED BY <2>1
<1>3. t = [j \in 1..Len(t) |-> t[j]]
  OBVIOUS
<1> QED BY <1>2, <1>3

(* The graph rows lies at word k of the buffer b.                          *)
LiesAt(b, k, rows) ==
    /\ k \in Nat /\ k + Len(CsrWords(rows)) <= Len(b)
    /\ \A j \in 1..Len(CsrWords(rows)) : b[k + j] = CsrWords(rows)[j]

LEMMA GraphRead ==
    ASSUME NEW b \in Seq(Int), NEW rows, IsGraph(rows), NEW k, LiesAt(b, k, rows)
    PROVE  LET n == Len(rows)  base == k + Len(rows) + 1 IN
           /\ b[k + 1] = 0 /\ base + b[k + n + 1] <= Len(b)
           /\ \A i \in 1..n :
                 /\ b[k + i] <= b[k + i + 1]
                 /\ SubSeq(b, base + b[k + i] + 1, base + b[k + i + 1]) = rows[i].tgts
<1> DEFINE n == Len(rows)
           join == Targets(rows)
           all == join[n]
           base == k + n + 1
           p == CsrWords(rows)
<1>1. /\ n \in Nat /\ k \in Nat /\ Len(b) \in Nat
      /\ all \in Seq(Int) /\ Len(all) \in Nat /\ Len(p) = n + 1 + Len(all)
      /\ k + Len(p) <= Len(b)
  <2>1. all \in Seq(Int) /\ n \in Nat /\ Len(p) = n + 1 + Len(all)
    BY CsrShape
  <2> HIDE DEF all, p, n
  <2>2. Len(all) \in Nat /\ Len(b) \in Nat
    BY <2>1
  <2> QED BY <2>1, <2>2 DEF LiesAt, p
<1>a. /\ n \in Nat /\ k \in Nat /\ Len(b) \in Nat /\ Len(all) \in Nat
      /\ Len(p) = n + 1 + Len(all)
  BY <1>1
<1>2. \A i \in 1..(n + 1) : b[k + i] = Len(join[i - 1])
  <2> SUFFICES ASSUME NEW i \in 1..(n + 1) PROVE b[k + i] = Len(join[i - 1])
    OBVIOUS
  <2>1. i \in 1..Len(p)
    <3> HIDE DEF all, p
    <3> QED BY <1>a
  <2>2. p[i] = Len(join[i - 1])
    BY CsrShape
  <2> QED BY <2>1, <2>2 DEF LiesAt
<1>3. \A j \in 1..Len(all) : b[base + j] = all[j]
  <2> SUFFICES ASSUME NEW j \in 1..Len(all) PROVE b[base + j] = all[j]
    OBVIOUS
  <2>1. n + 1 + j \in 1..Len(p) /\ k + (n + 1 + j) = base + j
    BY <1>1
  <2>2. p[n + 1 + j] = all[j]
    BY CsrShape
  <2>3. b[k + (n + 1 + j)] = p[n + 1 + j]
    BY <2>1 DEF LiesAt
  <2> QED BY <2>1, <2>2, <2>3
<1>4. b[k + 1] = 0 /\ base + b[k + n + 1] <= Len(b)
  <2>1. 1 \in 1..(n + 1) /\ n + 1 \in 1..(n + 1) /\ k + (n + 1) = k + n + 1
        /\ 1 - 1 = 0 /\ (n + 1) - 1 = n
    BY <1>1
  <2>2. b[k + 1] = Len(join[0]) /\ b[k + n + 1] = Len(all)
    BY <1>2, <2>1
  <2>3. Len(join[0]) = 0
    <3>1. join[0] = <<>>
      BY <1>1, TargetsUnfold, Zenon
    <3> QED BY <3>1
  <2> HIDE DEF join, all, p
  <2> QED BY <1>1, <2>2, <2>3
<1>5. ASSUME NEW i \in 1..n
      PROVE  /\ b[k + i] <= b[k + i + 1]
             /\ SubSeq(b, base + b[k + i] + 1, base + b[k + i + 1]) = rows[i].tgts
  <2> DEFINE t == rows[i].tgts
             w == join[i - 1]
             v == join[i]
             z == base + Len(w)
  <2>1. /\ i \in 1..(n + 1) /\ i + 1 \in 1..(n + 1) /\ (i + 1) - 1 = i
        /\ k + (i + 1) = k + i + 1
        /\ i - 1 \in 0..n /\ i \in 0..n /\ n \in 0..n
    BY <1>1
  <2>2. b[k + i] = Len(w) /\ b[k + i + 1] = Len(v)
    BY <1>2, <2>1
  <2>3. v = w \o t /\ t \in Seq(Int)
    BY <1>1, TargetsUnfold DEF IsGraph
  <2>4. w \in Seq(Int)
    BY <2>1, TargetsTyped
  <2>5. Len(v) <= Len(all) /\ \A j \in 1..Len(v) : all[j] = v[j]
    BY <2>1, TargetsGrow
  <2> HIDE DEF t, w, v
  <2>6. /\ Len(t) \in Nat /\ Len(w) \in Nat /\ Len(v) = Len(w) + Len(t)
        /\ \A j \in 1..Len(t) : v[Len(w) + j] = t[j]
    BY <2>3, <2>4
  <2> HIDE DEF all, join, p
  <2>7. z \in Nat /\ z + Len(t) <= Len(b) /\ base + Len(v) = z + Len(t)
    BY <1>1, <2>5, <2>6
  <2>8. \A j \in 1..Len(t) : b[z + j] = t[j]
    <3> SUFFICES ASSUME NEW j \in 1..Len(t) PROVE b[z + j] = t[j]
      OBVIOUS
    <3>1. /\ Len(w) + j \in 1..Len(v) /\ Len(w) + j \in 1..Len(all)
          /\ base + (Len(w) + j) = z + j
      <4>1. /\ Len(t) \in Nat /\ Len(w) \in Nat /\ Len(v) = Len(w) + Len(t)
            /\ Len(v) <= Len(all)
        BY <2>5, <2>6
      <4> QED BY <1>a, <4>1
    <3>2. b[base + (Len(w) + j)] = all[Len(w) + j]
      BY <1>3, <3>1
    <3> QED BY <2>5, <2>6, <3>1, <3>2
  <2>9. SubSeq(b, z + 1, z + Len(t)) = t
    <3> HIDE DEF z
    <3> QED BY <2>3, <2>7, <2>8, Slice
  <2>10. Len(w) <= Len(v)
    BY <2>6
  <2> QED BY <2>2, <2>7, <2>9, <2>10 DEF t
<1> QED BY <1>4, <1>5

LEMMA RegionsGiveGraphs == TypeOK /\ Regions => AdjacencyRecovered
<1> SUFFICES ASSUME TypeOK, Regions, cur # NoFile, Len(data) < 2^29,
                    NEW q \in 1..Len(Dirs[cur]),
                    Standing(q), Dirs[cur][q].kind = "csr"
             PROVE  LET rows == Dirs[cur][q].body
                        n == Len(rows)
                        s == symbols[Dirs[cur][q].name]
                        k == CHOOSE j \in 0..Len(data) : Bits(4 * j) = s.off
                        off(i) == data[k + i]
                        base == k + n + 1
                    IN  /\ off(1) = 0 /\ base + off(n + 1) <= Len(data)
                        /\ \A i \in 1..n :
                              /\ off(i) <= off(i + 1)
                              /\ SubSeq(data, base + off(i) + 1, base + off(i + 1))
                                   = rows[i].tgts
  BY DEF AdjacencyRecovered
<1> DEFINE rows == Dirs[cur][q].body
           s == symbols[Dirs[cur][q].name]
           k == CHOOSE j \in 0..Len(data) : Bits(4 * j) = s.off
<1>1. data \in Seq(Int) /\ Len(data) \in Nat /\ IsGraph(rows) /\ Len(rows) \in Nat
  BY PackedTyped DEF TypeOK, Regions, IsGraph
<1>2. PICK m \in 0..Len(data) : s.off = Bits(4 * m) /\ LiesAt(data, m, rows)
  <2>1. Packed(Dirs[cur][q]) = CsrWords(rows)
    BY DEF Packed
  <2>2. PICK m \in 0..Len(data) :
           /\ s = Symbol(Bits(4 * m), Bits(Len(rows)))
           /\ m + Len(CsrWords(rows)) <= Len(data)
           /\ \A j \in 1..Len(CsrWords(rows)) : data[m + j] = CsrWords(rows)[j]
    BY <2>1 DEF Regions, Region
  <2>3. s.off = Bits(4 * m)
    BY <2>2 DEF Symbol
  <2>4. m \in Nat
    BY <1>1
  <2> QED BY <2>2, <2>3, <2>4 DEF LiesAt
<1>3. k \in 0..Len(data) /\ Bits(4 * k) = Bits(4 * m)
  BY <1>2
<1>4. k = m
  <2>1. 2^29 = 536870912 /\ 2^31 = 2147483648
    BY SMT
  <2> HIDE DEF k
  <2>2. 4 * k \in Nat /\ 4 * m \in Nat /\ 4 * k < 2^31 /\ 4 * m < 2^31
    BY <1>1, <1>3, <2>1, SMT
  <2>3. 4 * k = 4 * m
    BY <1>3, <2>2, BitsInjective
  <2> QED BY <1>1, <1>3, <2>3
<1> HIDE DEF k
<1>5. \A i \in 1..Len(rows) : k + (i + 1) = k + i + 1
  BY <1>1, <1>3
<1>6. k + (Len(rows) + 1) = k + Len(rows) + 1
  BY <1>1, <1>3
<1>7. LET n == Len(rows)  base == k + Len(rows) + 1 IN
      /\ data[k + 1] = 0 /\ base + data[k + n + 1] <= Len(data)
      /\ \A i \in 1..n :
            /\ data[k + i] <= data[k + i + 1]
            /\ SubSeq(data, base + data[k + i] + 1, base + data[k + i + 1]) = rows[i].tgts
  BY <1>1, <1>2, <1>4, GraphRead
<1> HIDE DEF rows
<1> QED BY <1>5, <1>6, <1>7 DEF k, rows

(* A reader that only has the buffer, a graph's offset and its node count  *)
(* gets back every row's targets: for graphs of any number of rows of any  *)
(* length, whatever was packed before and after them.                      *)
THEOREM GraphsAreRecovered == Spec => []AdjacencyRecovered
<1>1. Init => EnvInv /\ Regions
  BY DEF Init, EnvInv, UnboundNames, Regions
<1>2. TypeOK /\ EnvInv /\ Regions /\ [Next]_vars => EnvInv' /\ Regions'
  BY EnvStep, RegionsNext
<1>3. TypeOK /\ Regions => AdjacencyRecovered
  BY RegionsGiveGraphs
<1> QED BY <1>1, <1>2, <1>3, TypeCorrect, PTL DEF Spec

-----------------------------------------------------------------------------
(* Parsing again.  What a call does to its locals is written once more, as *)
(* a relation between two of their values that reads the file and never    *)
(* env.  It leaves at most one way on, so two runs of it over one file are *)
(* the same run and end in the same result.  For a self-contained file     *)
(* every step of Next is a step of the relation, in whatever env earlier   *)
(* files left behind: each result that was delivered is the result of the  *)
(* one run.                                                                *)
State == [pass |-> pass, pos |-> pos, data |-> data, symbols |-> symbols,
          ints |-> ints, words |-> words, expect |-> expect, used |-> used]
StartState == [pass |-> 1, pos |-> 1, data |-> <<>>, symbols |-> Empty,
               ints |-> {}, words |-> <<>>, expect |-> NoExpectations, used |-> {}]

(* The directives. *)
FindsIn(f, s, q) ==
    /\ s.pass < LinePass
    /\ q \in s.pos..Len(Dirs[f])
    /\ Pass[Dirs[f][q].kind] = s.pass
    /\ \A r \in s.pos..(q - 1) : Pass[Dirs[f][r].kind] # s.pass

Packs(f, q) == Dirs[f][q].kind \in {"csr", "float", "int"}
BodyRaises(t) == t \notin BoundAnywhere \cup DOMAIN Builtin /\ Lex[t].bad
DirectiveRaises(f, q) ==
    LET d == Dirs[f][q] IN
    \/ Packs(f, q) /\ \E i \in 1..Len(Packed(d)) : ~Fits(Packed(d)[i])
    \/ d.kind = "vrel" /\ \E i \in 1..Len(d.body) : BodyRaises(d.body[i])
SymbolDefined(f, s, q) ==
    LET d == Dirs[f][q]  id == Bits(10 + Cardinality(DOMAIN s.symbols)) IN
    IF Packs(f, q) THEN Symbol(Bits(4 * Len(s.data)), Bits(Len(d.body)))
    ELSE IF d.kind = "rel" THEN Symbol(d.body, {})
    ELSE [Symbol(id, {}) EXCEPT !.vrel = TRUE]
AfterDirective(f, s, q) ==
    LET d == Dirs[f][q] IN
    [pass |-> s.pass, pos |-> q + 1,
     data |-> IF Packs(f, q) THEN s.data \o Packed(d) ELSE s.data,
     symbols |-> Put(s.symbols, d.name, SymbolDefined(f, s, q)),
     ints |-> IF d.kind = "int" THEN s.ints \cup {d.name} ELSE s.ints,
     words |-> s.words, expect |-> s.expect, used |-> s.used]
AfterPass(s) ==
    [pass |-> s.pass + 1, pos |-> 1, data |-> s.data, symbols |-> s.symbols,
     ints |-> s.ints, words |-> s.words, expect |-> s.expect, used |-> s.used]

(* The lines. *)
TextRaises(f, t) == t \notin Bound(f) \cup DOMAIN Builtin /\ Lex[t].bad
InsOf(f, code) ==
    LET T == 1..Len(code.toks) IN
    [op |-> code.op, n |-> Len(code.toks) + 1,
     v |-> [i \in T |-> Meaning(f, code.toks[i])],
     f |-> [i \in T |-> Lex[code.toks[i]].flt],
     reg |-> {i \in T : Lex[code.toks[i]].reg},
     hex |-> {i \in T : Lex[code.toks[i]].hex}]
InstructionRaises(f, s, code) ==
    \/ Canonical(code.op) \notin Opcodes
    \/ \E i \in ParsedTokens(InsOf(f, code)) : TextRaises(f, code.toks[i])
    \/ \E i \in FloatTokens(InsOf(f, code)) : Lex[code.toks[i]].badflt
    \/ code.op \in InlineOps /\ SymbolOf(s.symbols, code).vrel
WordsOf(f, s, code) ==
    Emit(code.op, Encode(InsOf(f, code), SymbolOf(s.symbols, code),
                         SymbolName(code) \in s.ints))
LineRaisesIn(f, s) ==
    LET l == Lines[f][s.pos] IN
    \/ AssertRaises(l.assert)
    \/ l.code.kind = "instr" /\ InstructionRaises(f, s, l.code)
    \/ l.code.kind = "fuel" /\ TextRaises(f, l.code.toks[1])
AfterLine(f, s) ==
    LET l == Lines[f][s.pos]
        instr == l.code.kind = "instr"
        e == Expecting(s.expect, l.assert)
    IN  [pass |-> s.pass, pos |-> s.pos + 1, data |-> s.data,
         symbols |-> s.symbols, ints |-> s.ints,
         words |-> IF instr THEN s.words \o WordsOf(f, s, l.code) ELSE s.words,
         expect |-> IF l.code.kind = "fuel"
                    THEN Put(e, "fuel", Meaning(f, l.code.toks[1])) ELSE e,
         used |-> IF instr THEN s.used \cup {Canonical(l.code.op)} ELSE s.used]

Scanning(f, s) == s.pass \in 1..5 /\ s.pos \in Nat
Reading(f, s) == s.pass = LinePass /\ s.pos \in 1..Len(Lines[f])
Moves(f, s, t) ==
    \/ /\ Scanning(f, s)
       /\ \/ \E q \in 1..Len(Dirs[f]) : /\ FindsIn(f, s, q)
                                        /\ ~DirectiveRaises(f, q)
                                        /\ t = AfterDirective(f, s, q)
          \/ /\ \A q \in 1..Len(Dirs[f]) : ~FindsIn(f, s, q)
             /\ t = AfterPass(s)
    \/ Reading(f, s) /\ ~LineRaisesIn(f, s) /\ t = AfterLine(f, s)
Parsed(s) == [kind |-> "parsed", words |-> s.words, data |-> s.data,
              expect |-> s.expect, used |-> s.used]
Ends(f, s, r) ==
    \/ /\ Scanning(f, s) /\ r = Raised
       /\ \E q \in 1..Len(Dirs[f]) : FindsIn(f, s, q) /\ DirectiveRaises(f, q)
    \/ Reading(f, s) /\ LineRaisesIn(f, s) /\ r = Raised
    \/ /\ s.pass = LinePass /\ s.pos \in Nat /\ s.pos > Len(Lines[f])
       /\ r = Parsed(s)

(* The scan finds one directive at a time. *)
LEMMA FindsOne ==
    ASSUME NEW f \in File, NEW s, Scanning(f, s),
           NEW q \in 1..Len(Dirs[f]), FindsIn(f, s, q),
           NEW r \in 1..Len(Dirs[f]), FindsIn(f, s, r)
    PROVE  q = r
<1>1. Len(Dirs[f]) \in Nat
  BY TextAssumption
<1>2. s.pos \in Nat /\ q \in s.pos..Len(Dirs[f]) /\ r \in s.pos..Len(Dirs[f])
  BY DEF Scanning, FindsIn
<1>3. ~(q < r)
  <2> SUFFICES ASSUME q < r PROVE FALSE
    OBVIOUS
  <2>1. q \in s.pos..(r - 1)
    BY <1>1, <1>2
  <2> QED BY <2>1 DEF FindsIn
<1>4. ~(r < q)
  <2> SUFFICES ASSUME r < q PROVE FALSE
    OBVIOUS
  <2>1. r \in s.pos..(q - 1)
    BY <1>1, <1>2
  <2> QED BY <2>1 DEF FindsIn
<1> QED BY <1>1, <1>2, <1>3, <1>4

(* A value of the locals goes on in one way, or ends in one. *)
LEMMA OneWayOn ==
    ASSUME NEW f \in File, NEW s
    PROVE  /\ \A t, u : Moves(f, s, t) /\ Moves(f, s, u) => t = u
           /\ \A t, r : ~(Moves(f, s, t) /\ Ends(f, s, r))
           /\ \A r, x : Ends(f, s, r) /\ Ends(f, s, x) => r = x
<1>1. /\ Scanning(f, s) => s.pass # LinePass /\ ~Reading(f, s)
      /\ Reading(f, s) => s.pass = LinePass /\ ~(s.pos > Len(Lines[f]))
  BY TextAssumption DEF Scanning, Reading, LinePass
<1>2. \A q, r \in 1..Len(Dirs[f]) :
         Scanning(f, s) /\ FindsIn(f, s, q) /\ FindsIn(f, s, r) => q = r
  BY FindsOne
<1>3. ASSUME NEW t, NEW u, Moves(f, s, t), Moves(f, s, u) PROVE t = u
  <2>1. CASE Scanning(f, s) /\ \E q \in 1..Len(Dirs[f]) : FindsIn(f, s, q)
    <3>1. PICK q \in 1..Len(Dirs[f]) : FindsIn(f, s, q)
      BY <2>1
    <3>2. t = AfterDirective(f, s, q)
      BY <1>1, <1>2, <1>3, <2>1, <3>1 DEF Moves
    <3>3. u = AfterDirective(f, s, q)
      BY <1>1, <1>2, <1>3, <2>1, <3>1 DEF Moves
    <3> QED BY <3>2, <3>3
  <2>2. CASE Scanning(f, s) /\ ~\E q \in 1..Len(Dirs[f]) : FindsIn(f, s, q)
    <3>1. t = AfterPass(s)
      BY <1>1, <1>3, <2>2, Zenon DEF Moves
    <3>2. u = AfterPass(s)
      BY <1>1, <1>3, <2>2, Zenon DEF Moves
    <3> QED BY <3>1, <3>2
  <2>3. CASE ~Scanning(f, s)
    <3>1. t = AfterLine(f, s)
      BY <1>3, <2>3, Zenon DEF Moves
    <3>2. u = AfterLine(f, s)
      BY <1>3, <2>3, Zenon DEF Moves
    <3> QED BY <3>1, <3>2
  <2> QED BY <2>1, <2>2, <2>3
<1>4. ASSUME NEW t, NEW r, Moves(f, s, t), Ends(f, s, r) PROVE FALSE
  <2>1. CASE Scanning(f, s)
    BY <1>1, <1>2, <1>4, <2>1, Zenon DEF Moves, Ends
  <2>2. CASE ~Scanning(f, s)
    BY <1>1, <1>4, <2>2, Zenon DEF Moves, Ends
  <2> QED BY <2>1, <2>2
<1>5. ASSUME NEW r, NEW x, Ends(f, s, r), Ends(f, s, x) PROVE r = x
  <2>1. CASE s.pass = LinePass /\ s.pos > Len(Lines[f])
    <3>1. r = Parsed(s)
      BY <1>1, <1>5, <2>1, Zenon DEF Ends
    <3>2. x = Parsed(s)
      BY <1>1, <1>5, <2>1, Zenon DEF Ends
    <3> QED BY <3>1, <3>2
  <2>2. CASE ~(s.pass = LinePass /\ s.pos > Len(Lines[f]))
    <3>1. r = Raised
      BY <1>5, <2>2, Zenon DEF Ends
    <3>2. x = Raised
      BY <1>5, <2>2, Zenon DEF Ends
    <3> QED BY <3>1, <3>2
  <2> QED BY <2>1, <2>2
<1> QED BY <1>3, <1>4, <1>5

-----------------------------------------------------------------------------
(* Runs over one file from the start: they agree wherever both are defined *)
(* and have one result.                                                    *)
IsRun(f, n, g) ==
    g[0] = StartState /\ \A i \in Nat : i < n => Moves(f, g[i], g[i + 1])
Reaches(f, s) == \E n \in Nat : \E g : IsRun(f, n, g) /\ g[n] = s
Yields(f, r) == \E n \in Nat : \E g : IsRun(f, n, g) /\ Ends(f, g[n], r)

LEMMA RunsAgree ==
    ASSUME NEW f \in File, NEW n \in Nat, NEW m \in Nat, NEW g, NEW h,
           IsRun(f, n, g), IsRun(f, m, h), NEW i \in Nat, i <= n, i <= m
    PROVE  g[i] = h[i]
<1> DEFINE S == {j \in Nat : j <= n /\ j <= m => g[j] = h[j]}
<1>1. 0 \in S
  BY DEF IsRun
<1>2. ASSUME NEW j \in Nat, j \in S PROVE j + 1 \in S
  <2> SUFFICES ASSUME j + 1 <= n, j + 1 <= m PROVE g[j + 1] = h[j + 1]
    OBVIOUS
  <2>1. j < n /\ j < m /\ g[j] = h[j]
    BY <1>2
  <2>2. Moves(f, g[j], g[j + 1]) /\ Moves(f, h[j], h[j + 1])
    BY <2>1 DEF IsRun
  <2> QED BY <2>1, <2>2, OneWayOn
<1> HIDE DEF S
<1>3. Nat \subseteq S
  BY <1>1, <1>2, SetInduction
<1> QED BY <1>3 DEF S

LEMMA YieldsOne ==
    ASSUME NEW f \in File, NEW r, NEW x, Yields(f, r), Yields(f, x)
    PROVE  r = x
<1>1. PICK n \in Nat : \E g : IsRun(f, n, g) /\ Ends(f, g[n], r)
  BY DEF Yields
<1>2. PICK g : IsRun(f, n, g) /\ Ends(f, g[n], r)
  BY <1>1
<1>3. PICK m \in Nat : \E h : IsRun(f, m, h) /\ Ends(f, h[m], x)
  BY DEF Yields
<1>4. PICK h : IsRun(f, m, h) /\ Ends(f, h[m], x)
  BY <1>3
<1>5. n <= m => g[n] = h[n]
  BY <1>2, <1>4, RunsAgree
<1>6. m <= n => g[m] = h[m]
  BY <1>2, <1>4, RunsAgree
<1>7. ~(n < m)
  <2> SUFFICES ASSUME n < m PROVE FALSE
    OBVIOUS
  <2>1. Moves(f, h[n], h[n + 1]) /\ g[n] = h[n]
    BY <1>4, <1>5 DEF IsRun
  <2> QED BY <1>2, <2>1, OneWayOn
<1>8. ~(m < n)
  <2> SUFFICES ASSUME m < n PROVE FALSE
    OBVIOUS
  <2>1. Moves(f, g[m], g[m + 1]) /\ g[m] = h[m]
    BY <1>2, <1>6 DEF IsRun
  <2> QED BY <1>4, <2>1, OneWayOn
<1>9. n = m
  BY <1>7, <1>8
<1> QED BY <1>2, <1>4, <1>5, <1>9, OneWayOn

LEMMA ReachesNext ==
    ASSUME NEW f, NEW s, NEW t, Reaches(f, s), Moves(f, s, t)
    PROVE  Reaches(f, t)
<1>1. PICK n \in Nat : \E g : IsRun(f, n, g) /\ g[n] = s
  BY DEF Reaches
<1>2. PICK g : IsRun(f, n, g) /\ g[n] = s
  BY <1>1
<1> DEFINE h == [i \in Nat |-> IF i <= n THEN g[i] ELSE t]
<1>3. h[0] = StartState /\ h[n + 1] = t /\ h[n] = s
  BY <1>2 DEF IsRun
<1>4. ASSUME NEW i \in Nat, i < n + 1 PROVE Moves(f, h[i], h[i + 1])
  <2>1. CASE i < n
    <3>1. Moves(f, g[i], g[i + 1])
      BY <1>2, <2>1 DEF IsRun
    <3>2. h[i] = g[i] /\ h[i + 1] = g[i + 1]
      BY <2>1
    <3> QED BY <3>1, <3>2
  <2>2. CASE i = n
    BY <1>3, <2>2
  <2> QED BY <1>4, <2>1, <2>2
<1>5. IsRun(f, n + 1, h)
  BY <1>3, <1>4 DEF IsRun
<1> QED BY <1>3, <1>5 DEF Reaches

LEMMA ReachesEnds ==
    ASSUME NEW f, NEW s, NEW r, Reaches(f, s), Ends(f, s, r)
    PROVE  Yields(f, r)
BY DEF Reaches, Yields

LEMMA StartReached == ASSUME NEW f PROVE Reaches(f, StartState)
<1> DEFINE g == [i \in Nat |-> StartState]
<1>1. IsRun(f, 0, g) /\ g[0] = StartState
  BY DEF IsRun
<1> QED BY <1>1 DEF Reaches

-----------------------------------------------------------------------------
(* The steps of a call.  By EnvInv, env gives the texts of self-contained  *)
(* files the values the file alone gives them: those of its lines in the   *)
(* line pass, those of a .vrel body when its directive is reached.         *)
LEMMA TextsKnown ==
    ASSUME TypeOK, EnvInv, cur # NoFile, SelfContained(cur), pass = LinePass,
           pos \in 1..Len(Lines[cur])
    PROVE  LET code == Lines[cur][pos].code IN
           \A i \in 1..Len(code.toks) :
              /\ Val(code.toks[i]) = Meaning(cur, code.toks[i])
              /\ ValRaises(code.toks[i]) <=> TextRaises(cur, code.toks[i])
<1> DEFINE code == Lines[cur][pos].code
<1> SUFFICES ASSUME NEW i \in 1..Len(code.toks)
             PROVE  /\ Val(code.toks[i]) = Meaning(cur, code.toks[i])
                    /\ ValRaises(code.toks[i]) <=> TextRaises(cur, code.toks[i])
  BY Zenon
<1>1. code.toks[i] \in LineTexts(cur)
  <2> DEFINE Of(l) == {l.code.toks[j] : j \in 1..Len(l.code.toks)}
             ls == {Lines[cur][p] : p \in 1..Len(Lines[cur])}
  <2>1. Lines[cur][pos] \in ls /\ code.toks[i] \in Of(Lines[cur][pos])
    BY Zenon
  <2>2. LineTexts(cur) = UNION {Of(l) : l \in ls}
    BY Zenon DEF LineTexts
  <2> HIDE DEF Of, ls
  <2> QED BY <2>1, <2>2, Zenon
<1>2. TokenMeaning
  BY EnvGivesMeaning
<1> QED BY <1>1, <1>2, Zenon DEF TokenMeaning, TextRaises

LEMMA LineSame ==
    ASSUME TypeOK, EnvInv, cur # NoFile, SelfContained(cur), pass = LinePass,
           pos \in 1..Len(Lines[cur])
    PROVE  LET code == Lines[cur][pos].code IN
           /\ Ins(code) = InsOf(cur, code)
           /\ LineRaises(code) <=> InstructionRaises(cur, State, code)
           /\ Emit(code.op, EncodeLine(code)) = WordsOf(cur, State, code)
<1> DEFINE code == Lines[cur][pos].code
<1>1. \A i \in 1..Len(code.toks) :
              /\ Val(code.toks[i]) = Meaning(cur, code.toks[i])
              /\ ValRaises(code.toks[i]) <=> TextRaises(cur, code.toks[i])
  BY TextsKnown
<1> HIDE DEF code
<1>2. Ins(code) = InsOf(cur, code)
  <2> DEFINE T == 1..Len(code.toks)
  <2>1. [i \in T |-> Val(code.toks[i])] = [i \in T |-> Meaning(cur, code.toks[i])]
    BY <1>1, Zenon
  <2> QED BY <2>1, Zenon DEF Ins, InsOf
<1>3. State.symbols = symbols /\ State.ints = ints /\ State.expect = expect
  BY DEF State
<1>6. InsOf(cur, code).n = Len(code.toks) + 1
  BY DEF InsOf
<1>7. ParsedTokens(InsOf(cur, code)) \subseteq 1..Len(code.toks)
  <2>1. Len(code.toks) \in Int => (Len(code.toks) + 1) - 1 = Len(code.toks)
    OBVIOUS
  <2> QED BY <1>6, <2>1 DEF ParsedTokens
<1>8. LineRaises(code) <=> InstructionRaises(cur, State, code)
  BY <1>1, <1>2, <1>3, <1>7, Zenon DEF LineRaises, InstructionRaises
<1>9. Emit(code.op, EncodeLine(code)) = WordsOf(cur, State, code)
  BY <1>2, <1>3, Zenon DEF EncodeLine, WordsOf
<1> QED BY <1>2, <1>8, <1>9, Zenon DEF code

LEMMA BodyKnown ==
    ASSUME TypeOK, EnvInv, NEW q, Finds(q), SelfContained(cur),
           Dirs[cur][q].kind = "vrel", NEW i \in 1..Len(Dirs[cur][q].body)
    PROVE  ValRaises(Dirs[cur][q].body[i]) <=> BodyRaises(Dirs[cur][q].body[i])
<1> DEFINE t == Dirs[cur][q].body[i]
<1>0. cur \in File /\ cur # NoFile /\ q \in 1..Len(Dirs[cur])
  BY TextAssumption DEF Finds, TypeOK
<1>1. CASE t \notin BoundAnywhere
  <2>1. t \in DOMAIN env <=> t \in DOMAIN Builtin
    BY <1>1 DEF EnvInv, UnboundNames
  <2> QED BY <1>1, <2>1 DEF ValRaises, BodyRaises
<1>2. CASE t \in BoundAnywhere
  <2>1. q \in Binders(cur)
    BY <1>0 DEF Binders
  <2>2. PICK r \in Binders(cur) : Before(cur, r, q) /\ Dirs[cur][r].name = t
    BY <1>2, <2>1 DEF SelfContained
  <2>3. r \in 1..Len(Dirs[cur]) /\ Pass[Dirs[cur][r].kind] > 0
    <3>1. r \in 1..Len(Dirs[cur]) /\ Dirs[cur][r].kind \in {"rel", "vrel"}
      BY DEF Binders
    <3> QED BY <1>0, <3>1, PassNumbers
  <2>4. Done(r)
    <3>1. Pass[Dirs[cur][q].kind] = pass /\ pass \in 1..5 /\ pos \in Nat /\ q \in pos..Len(Dirs[cur])
      BY DEF Finds, TypeOK, LinePass
    <3>2. \A x \in pos..(q - 1) : Pass[Dirs[cur][x].kind] # pass
      BY DEF Finds
    <3>3. Pass[Dirs[cur][r].kind] \in 0..5 /\ Len(Dirs[cur]) \in Nat
      BY <1>0, <2>3, PassNumbers, TextAssumption
    <3>4. Pass[Dirs[cur][r].kind] = pass /\ r < q => r < pos
      BY <2>3, <3>1, <3>2, <3>3
    <3> QED BY <2>2, <2>3, <3>1, <3>3, <3>4 DEF Before, Done
  <2>5. t \in DOMAIN env
    BY <1>0, <2>2, <2>4 DEF EnvInv, BoundNames
  <2> QED BY <1>2, <2>5 DEF ValRaises, BodyRaises
<1> QED BY <1>1, <1>2

LEMMA FindsSame ==
    ASSUME TypeOK, cur # NoFile
    PROVE  /\ \A q : Finds(q) <=> FindsIn(cur, State, q)
           /\ \A q : Finds(q) => /\ Scanning(cur, State) /\ q \in 1..Len(Dirs[cur])
                               /\ Dirs[cur][q].kind \in
                                     {"csr", "float", "int", "rel", "vrel"}
<1>1. State.pass = pass /\ State.pos = pos
  BY DEF State
<1>2. pass \in 1..6 /\ pos \in Nat \ {0} /\ cur \in File
  BY DEF TypeOK, LinePass
<1>3. ASSUME NEW q, Finds(q)
      PROVE  /\ Scanning(cur, State) /\ q \in 1..Len(Dirs[cur])
             /\ Dirs[cur][q].kind \in {"csr", "float", "int", "rel", "vrel"}
  <2>1. pass \in 1..5 /\ q \in 1..Len(Dirs[cur]) /\ Pass[Dirs[cur][q].kind] = pass
    BY <1>2, <1>3, TextAssumption DEF Finds, LinePass
  <2>2. Dirs[cur][q].kind \in DOMAIN Pass
    BY <1>2, <2>1, TextAssumption
  <2>3. Dirs[cur][q].kind # "other"
    BY <2>1 DEF Pass
  <2> QED BY <1>1, <1>2, <2>1, <2>2, <2>3 DEF Scanning, Pass
<1>4. \A q : Finds(q) <=> FindsIn(cur, State, q)
  BY <1>1, Zenon DEF Finds, FindsIn
<1> QED BY <1>3, <1>4

(* Steps of a directive, of the end of a pass, and of a line. *)
LEMMA DirectiveStep ==
    ASSUME TypeOK, EnvInv, NEW q, Finds(q), SelfContained(cur)
    PROVE  /\ PackData(q) \/ DefineRel(q) \/ DefineVrel(q)
                => Moves(cur, State, State')
           /\ PackRaises(q) \/ VrelRaises(q) => Ends(cur, State, Raised)
<1> DEFINE d == Dirs[cur][q]
<1>0. cur # NoFile
  BY DEF Finds
<1>1. /\ FindsIn(cur, State, q) /\ Scanning(cur, State) /\ q \in 1..Len(Dirs[cur])
      /\ d.kind \in {"csr", "float", "int", "rel", "vrel"}
  BY <1>0, FindsSame
<1>2. \/ PackRaises(q)
      \/ VrelRaises(q)
      => DirectiveRaises(cur, q)
  BY BodyKnown DEF PackRaises, VrelRaises, DirectiveRaises, Packs
<1>3. PackData(q) \/ DefineRel(q) \/ DefineVrel(q) => ~DirectiveRaises(cur, q)
  BY BodyKnown DEF PackData, DefineRel, DefineVrel, DirectiveRaises, Packs
<1>4. PackData(q) => State' = AfterDirective(cur, State, q)
  <2> SUFFICES ASSUME PackData(q) PROVE State' = AfterDirective(cur, State, q)
    OBVIOUS
  <2>1. Packs(cur, q)
    BY DEF PackData, Packs
  <2> QED BY <2>1 DEF PackData, AfterDirective, SymbolDefined, State, ByteOffset, scan
<1>5. DefineRel(q) => State' = AfterDirective(cur, State, q)
  <2> SUFFICES ASSUME DefineRel(q) PROVE State' = AfterDirective(cur, State, q)
    OBVIOUS
  <2>1. ~Packs(cur, q) /\ d.kind = "rel"
    BY DEF DefineRel, Packs
  <2> QED BY <2>1 DEF DefineRel, AfterDirective, SymbolDefined, State, scan
<1>6. DefineVrel(q) => State' = AfterDirective(cur, State, q)
  <2> SUFFICES ASSUME DefineVrel(q) PROVE State' = AfterDirective(cur, State, q)
    OBVIOUS
  <2>1. ~Packs(cur, q) /\ d.kind = "vrel"
    BY DEF DefineVrel, Packs
  <2> QED BY <2>1 DEF DefineVrel, AfterDirective, SymbolDefined, State, VrelId, scan
<1>7. PackData(q) \/ DefineRel(q) \/ DefineVrel(q) => Moves(cur, State, State')
  BY <1>1, <1>3, <1>4, <1>5, <1>6, Zenon DEF Moves
<1>8. PackRaises(q) \/ VrelRaises(q) => Ends(cur, State, Raised)
  BY <1>1, <1>2, Zenon DEF Ends
<1> QED BY <1>7, <1>8

LEMMA PassStep ==
    ASSUME TypeOK, EndPass
    PROVE  Moves(cur, State, State')
<1>1. cur # NoFile /\ pass \in 1..5 /\ pos \in Nat
  BY DEF EndPass, TypeOK, LinePass
<1>2. Scanning(cur, State)
  BY <1>1 DEF Scanning, State
<1>3. \A q \in 1..Len(Dirs[cur]) : ~FindsIn(cur, State, q)
  <2>1. \A q : ~Finds(q)
    BY DEF EndPass, Finds
  <2> QED BY <1>1, <2>1, FindsSame
<1>4. State' = AfterPass(State)
  BY DEF EndPass, State, AfterPass, locals
<1> QED BY <1>2, <1>3, <1>4, Zenon DEF Moves

LEMMA LineStep ==
    ASSUME TypeOK, EnvInv, cur # NoFile, SelfContained(cur)
    PROVE  /\ ReadInstruction \/ ReadOther \/ ReadFuel => Moves(cur, State, State')
           /\ LineFails => Ends(cur, State, Raised)
           /\ Return => Ends(cur, State, Parsed(State))
<1>1. State.pass = pass /\ State.pos = pos
  BY DEF State
<1>2. pos \in Nat \ {0} /\ cur \in File /\ Len(Lines[cur]) \in Nat
  BY TextAssumption DEF TypeOK
<1>3. Return => Ends(cur, State, Parsed(State))
  BY <1>1, <1>2 DEF Return, Ends
<1> SUFFICES ASSUME AtLine
             PROVE  /\ ReadInstruction \/ ReadOther \/ ReadFuel
                          => Moves(cur, State, State')
                    /\ LineFails => Ends(cur, State, Raised)
  BY <1>3 DEF ReadInstruction, ReadOther, ReadFuel, LineFails
<1> DEFINE l == Lines[cur][pos]
<1>4. pass = LinePass /\ pos \in 1..Len(Lines[cur]) /\ Reading(cur, State)
  BY <1>1, <1>2 DEF AtLine, Reading
<1>5. /\ LineRaises(l.code) <=> InstructionRaises(cur, State, l.code)
      /\ Emit(l.code.op, EncodeLine(l.code)) = WordsOf(cur, State, l.code)
  BY <1>4, LineSame
<1>6. l.code.kind = "fuel" =>
         /\ Val(l.code.toks[1]) = Meaning(cur, l.code.toks[1])
         /\ ValRaises(l.code.toks[1]) <=> TextRaises(cur, l.code.toks[1])
  <2>1. l.code.kind = "fuel" => Len(l.code.toks) = 1
    BY <1>2, <1>4, TextAssumption, Zenon
  <2>2. 1 \in 1..1
    OBVIOUS
  <2>3. l.code.kind = "fuel" => 1 \in 1..Len(l.code.toks)
    BY <2>1, <2>2, Zenon
  <2> QED BY <1>4, <2>3, TextsKnown
<1>7. LineFails => Ends(cur, State, Raised)
  BY <1>1, <1>4, <1>5, <1>6 DEF LineFails, LineRaisesIn, Ends
<1>8. /\ ReadInstruction \/ ReadOther \/ ReadFuel => ~LineRaisesIn(cur, State)
  BY <1>1, <1>5, <1>6 DEF ReadInstruction, ReadOther, ReadFuel, LineRaisesIn
<1>9. ReadInstruction => State' = AfterLine(cur, State)
  <2> SUFFICES ASSUME ReadInstruction PROVE State' = AfterLine(cur, State)
    OBVIOUS
  <2>1. l.code.kind = "instr"
    BY DEF ReadInstruction
  <2> QED BY <1>5, <2>1 DEF ReadInstruction, AfterLine, State, scan
<1>10. ReadOther => State' = AfterLine(cur, State)
  <2> SUFFICES ASSUME ReadOther PROVE State' = AfterLine(cur, State)
    OBVIOUS
  <2>1. l.code.kind = "none"
    BY DEF ReadOther
  <2> QED BY <2>1 DEF ReadOther, AfterLine, State, scan
<1>11. ReadFuel => State' = AfterLine(cur, State)
  <2> SUFFICES ASSUME ReadFuel PROVE State' = AfterLine(cur, State)
    OBVIOUS
  <2>1. l.code.kind = "fuel"
    BY DEF ReadFuel
  <2> QED BY <1>6, <2>1 DEF ReadFuel, AfterLine, State, scan
<1>12. ReadInstruction \/ ReadOther \/ ReadFuel => Moves(cur, State, State')
  BY <1>4, <1>8, <1>9, <1>10, <1>11, Zenon DEF Moves
<1> QED BY <1>7, <1>12

-----------------------------------------------------------------------------
(* The locals of a call are on the run of its file, and what a finished    *)
(* call delivered is the result of that run.                               *)
Settled ==
    /\ DOMAIN out = File
    /\ cur = NoFile => State = StartState
    /\ cur # NoFile /\ SelfContained(cur) => Reaches(cur, State)
    /\ \A f \in File : SelfContained(f) /\ out[f] # Nothing => Yields(f, out[f])

(* A call goes on, or ends with the result of the run. *)
LEMMA GoesOn ==
    ASSUME Settled, cur # NoFile, cur' = cur, out' = out,
           SelfContained(cur) => Moves(cur, State, State')
    PROVE  Settled'
<1>1. SelfContained(cur) => Reaches(cur, State')
  BY ReachesNext DEF Settled
<1>2. DOMAIN out' = File /\ cur' # NoFile
  BY DEF Settled
<1>3. \A f \in File : SelfContained(f) /\ out'[f] # Nothing => Yields(f, out'[f])
  BY DEF Settled
<1>4. SelfContained(cur') => Reaches(cur', State')
  BY <1>1
<1> QED BY <1>2, <1>3, <1>4 DEF Settled

LEMMA Left ==
    ASSUME TypeOK, Settled, cur # NoFile, NEW r, r # Nothing, Leave(r),
           SelfContained(cur) => Ends(cur, State, r)
    PROVE  /\ Settled'
           /\ \A f \in File : SelfContained(f) /\ out[f] # Nothing
                               => out'[f] = out[f]
<1>1. cur \in File /\ DOMAIN out = File /\ out' = [out EXCEPT ![cur] = r]
  BY DEF TypeOK, Settled, Leave
<1>2. SelfContained(cur) => Yields(cur, r)
  BY ReachesEnds DEF Settled
<1>3. out'[cur] = r /\ \A f \in File : f # cur => out'[f] = out[f]
  BY <1>1
<1>4. \A f \in File : SelfContained(f) /\ out'[f] # Nothing => Yields(f, out'[f])
  BY <1>2, <1>3 DEF Settled
<1>5. \A f \in File : SelfContained(f) /\ out[f] # Nothing => out'[f] = out[f]
  <2> SUFFICES ASSUME SelfContained(cur), out[cur] # Nothing PROVE r = out[cur]
    BY <1>3
  <2>1. Yields(cur, out[cur])
    BY <1>1 DEF Settled
  <2> QED BY <1>1, <1>2, <2>1, YieldsOne
<1>6. State' = StartState /\ cur' = NoFile /\ DOMAIN out' = File
  BY <1>1 DEF Leave, State, StartState
<1>7. Settled'
  BY <1>4, <1>6 DEF Settled
<1> QED BY <1>5, <1>7

LEMMA SettledStep ==
    ASSUME TypeOK, EnvInv, Settled, [Next]_vars
    PROVE  /\ Settled'
           /\ \A f \in File : SelfContained(f) /\ out[f] # Nothing
                               => out'[f] = out[f]
<1>1. CASE UNCHANGED vars
  <2>1. State' = State /\ cur' = cur /\ out' = out
    BY <1>1 DEF vars, State
  <2> QED BY <2>1 DEF Settled
<1>2. ASSUME NEW f \in File, Call(f) PROVE Settled' /\ out' = out
  <2>1. cur = NoFile /\ cur' = f /\ out' = out /\ State' = State
    BY <1>2 DEF Call, State
  <2>2. f # NoFile /\ State' = StartState
    BY <2>1, NoFileAssumption DEF Settled
  <2>3. Reaches(f, State')
    BY <2>2, StartReached
  <2> QED BY <2>1, <2>2, <2>3 DEF Settled
<1>3. ASSUME NEW q, PackData(q) \/ DefineRel(q) \/ DefineVrel(q)
      PROVE  Settled' /\ out' = out
  <2>1. Finds(q) /\ cur # NoFile /\ cur' = cur /\ out' = out
    BY <1>3 DEF PackData, DefineRel, DefineVrel, Finds, scan
  <2>2. SelfContained(cur) => Moves(cur, State, State')
    BY <1>3, <2>1, DirectiveStep
  <2> QED BY <2>1, <2>2, GoesOn
<1>4. ASSUME NEW q, PackRaises(q) \/ VrelRaises(q)
      PROVE  /\ Settled'
             /\ \A f \in File : SelfContained(f) /\ out[f] # Nothing
                               => out'[f] = out[f]
  <2>1. Finds(q) /\ cur # NoFile /\ Leave(Raised)
    BY <1>4 DEF PackRaises, VrelRaises, Finds
  <2>2. SelfContained(cur) => Ends(cur, State, Raised)
    BY <1>4, <2>1, DirectiveStep
  <2>3. Raised # Nothing
    BY DEF Raised, Nothing
  <2> QED BY <2>1, <2>2, <2>3, Left
<1>5. CASE EndPass
  <2>1. cur # NoFile /\ cur' = cur /\ out' = out
    BY <1>5 DEF EndPass
  <2> QED BY <1>5, <2>1, PassStep, GoesOn
<1>6. CASE ReadInstruction \/ ReadOther \/ ReadFuel
  <2>1. cur # NoFile /\ cur' = cur /\ out' = out
    BY <1>6 DEF ReadInstruction, ReadOther, ReadFuel, AtLine, scan
  <2> QED BY <1>6, <2>1, LineStep, GoesOn
<1>7. CASE LineFails
  <2>1. cur # NoFile /\ Leave(Raised)
    BY <1>7 DEF LineFails, AtLine
  <2>2. Raised # Nothing
    BY DEF Raised, Nothing
  <2> QED BY <1>7, <2>1, <2>2, LineStep, Left
<1>8. CASE Return
  <2>1. cur # NoFile /\ Leave(Parsed(State))
    BY <1>8 DEF Return, Parsed, State
  <2>2. Parsed(State) # Nothing
    BY DEF Parsed, Nothing
  <2> QED BY <1>8, <2>1, <2>2, LineStep, Left
<1> QED BY <1>1, <1>2, <1>3, <1>4, <1>5, <1>6, <1>7, <1>8, Zenon DEF Next

(* Parsing a self-contained file again gives what it gave the first time:  *)
(* words, data, assertions and exceptions alike, whatever was parsed in    *)
(* between and however it ended.                                           *)
THEOREM RepeatedParses == Spec => Repeatable
<1>1. Init => Settled
  <2> SUFFICES ASSUME Init PROVE Settled
    OBVIOUS
  <2>1. State = StartState /\ cur = NoFile /\ out = [f \in File |-> Nothing]
    BY DEF Init, State, StartState
  <2> QED BY <2>1 DEF Settled
<1>2. Init => EnvInv
  BY DEF Init, EnvInv, UnboundNames
<1>3. TypeOK /\ EnvInv /\ [Next]_vars => EnvInv'
  BY EnvStep
<1>4. TypeOK /\ EnvInv /\ Settled /\ [Next]_vars => Settled'
  BY SettledStep
<1>5. TypeOK /\ EnvInv /\ Settled /\ [Next]_vars
      => [\A f \in File : SelfContained(f) /\ out[f] # Nothing
                           => out'[f] = out[f]]_vars
  BY SettledStep
<1> QED BY <1>1, <1>2, <1>3, <1>4, <1>5, TypeCorrect, PTL DEF Spec, Repeatable

-----------------------------------------------------------------------------
(* Decoding.  What one line appends is fetched as the instruction it asks  *)
(* for, and nothing a later line appends changes a fetch: a word with flag *)
(* bit 7 already has its extension after it.                               *)
LEMMA EmitDecodes ==
    ASSUME NEW op, NEW e, Canonical(op) \in Opcodes, 7 \notin Low(8, e.flags)
    PROVE  LET w == Emit(op, e) IN
           /\ Len(w) \in 1..2 /\ w[1].op # EXTENSION
           /\ 7 \in w[1].flags <=> Len(w) = 2
           /\ Len(w) = 2 => w[2].op = EXTENSION
           /\ Fetch(w, 1) = Word(Canonical(op), e.flags, e.dst, e.payload)
<1> DEFINE c == Canonical(op)
           p == e.payload
           low == Word(c, e.flags \cup {7}, e.dst, Low(16, p))
           high == Word(EXTENSION, {}, {b \in 0..15 : b + 16 \in p}, {})
           all == Word(c, e.flags, e.dst, p)
<1>0. c # EXTENSION
  BY OpcodesAssumption
<1>1. CASE NeedsExtension(op, e)
  <2>1. Emit(op, e) = <<low, high>>
    BY <1>1, Zenon DEF Emit
  <2>2. low.op = c /\ high.op = EXTENSION /\ low.dst = all.dst /\ all.op = c
    BY DEF Word
  <2>3. 7 \in low.flags /\ low.flags \ {7} = all.flags
    BY DEF Word, Low
  <2>4. Low(16, low.payload) \cup Shl(high.dst, 16) = all.payload
    <3>1. low.payload = (p \cap 0..15) \cap 0..31 /\ all.payload = p \cap 0..31
      BY DEF Word, Low
    <3>2. high.dst = {b \in 0..15 : b + 16 \in p}
      BY DEF Word, Low
    <3>3. Shl(high.dst, 16) = p \cap 16..31
      <4>1. \A x \in p \cap 16..31 : x - 16 \in high.dst /\ x = (x - 16) + 16
        BY <3>2
      <4>2. \A b \in high.dst : b + 16 \in p \cap 16..31
        BY <3>2
      <4> HIDE DEF high, p
      <4> QED BY <4>1, <4>2 DEF Shl
    <3>4. Low(16, low.payload) = p \cap 0..15
      BY <3>1 DEF Low
    <3> HIDE DEF low, high, all, p
    <3> QED BY <3>1, <3>3, <3>4
  <2> HIDE DEF low, high, all, c, p
  <2>5. Len(<<low, high>>) = 2 /\ <<low, high>>[1] = low /\ <<low, high>>[2] = high
    OBVIOUS
  <2>6. Fetch(<<low, high>>, 1)
          = [op |-> c, flags |-> all.flags, dst |-> all.dst, payload |-> all.payload]
    BY <2>2, <2>3, <2>4, <2>5 DEF Fetch
  <2>7. all = [op |-> c, flags |-> all.flags, dst |-> all.dst, payload |-> all.payload]
    BY DEF all, Word
  <2> QED BY <1>0, <2>1, <2>2, <2>3, <2>5, <2>6, <2>7 DEF all, c, p
<1>2. CASE ~NeedsExtension(op, e)
  <2>1. Emit(op, e) = <<all>>
    BY <1>2, Zenon DEF Emit
  <2>2. all.op = c /\ 7 \notin all.flags
    BY DEF Word
  <2>3. all = [op |-> c, flags |-> all.flags, dst |-> all.dst, payload |-> all.payload]
    BY DEF Word
  <2> HIDE DEF all, c, p
  <2>4. Len(<<all>>) = 1 /\ <<all>>[1] = all
    OBVIOUS
  <2>5. all.flags \ {7} = all.flags
    BY <2>2
  <2>6. Fetch(<<all>>, 1) = all
    BY <2>2, <2>3, <2>4, <2>5 DEF Fetch
  <2> QED BY <1>0, <2>1, <2>2, <2>4, <2>6 DEF all, c, p
<1> QED BY <1>1, <1>2

(* The n-th of a set of integers, when a larger one is added.              *)
LEMMA RankLast ==
    ASSUME NEW S, IsFiniteSet(S), S \subseteq Int,
           NEW m \in Int, \A y \in S : y < m
    PROVE  /\ Cardinality(S \cup {m}) = Cardinality(S) + 1
           /\ Rank(S \cup {m}, m) = Cardinality(S) + 1
           /\ Cardinality(S) \in Nat
           /\ \A x \in S : /\ Rank(S \cup {m}, x) = Rank(S, x)
                           /\ Rank(S, x) \in Nat /\ Rank(S, x) <= Cardinality(S)
<1>1. m \notin S
  OBVIOUS
<1>2. Cardinality(S \cup {m}) = Cardinality(S) + 1 /\ Cardinality(S) \in Nat
  BY <1>1, FS_AddElement, FS_CardinalityType
<1>3. {y \in S \cup {m} : y <= m} = S \cup {m}
  <2>1. \A y \in S \cup {m} : y <= m
    OBVIOUS
  <2> QED BY <2>1, Zenon
<1>4. ASSUME NEW x \in S
      PROVE  /\ Rank(S \cup {m}, x) = Rank(S, x)
             /\ Rank(S, x) \in Nat /\ Rank(S, x) <= Cardinality(S)
  <2> DEFINE T == {y \in S : y <= x}
  <2>1. {y \in S \cup {m} : y <= x} = T
    OBVIOUS
  <2>2. T \in SUBSET S
    OBVIOUS
  <2>3. Cardinality(T) \in Nat /\ Cardinality(T) <= Cardinality(S)
    BY <2>2, FS_Subset, FS_CardinalityType
  <2> QED BY <2>1, <2>3 DEF Rank
<1> QED BY <1>2, <1>3, <1>4 DEF Rank

Fetched(p, i) == Fetch(words, i) = Asked(cur, Lines[cur][p].code)
Decoded ==
    /\ Cardinality(Heads) = Cardinality(Asking)
    /\ \A p \in Asking, i \in Heads : Rank(Asking, p) = Rank(Heads, i) => Fetched(p, i)
    /\ \A i \in Heads : 7 \in words[i].flags => i < Len(words)
Decoding ==
    /\ pass < LinePass => words = <<>>
    /\ cur # NoFile /\ pass = LinePass /\ SelfContained(cur) /\ BitSevenFree => Decoded

LEMMA AskedSame ==
    ASSUME UNCHANGED <<env, cur, symbols, ints>>
    PROVE  \A p : Asked(cur, Lines[cur][p].code)' = Asked(cur, Lines[cur][p].code)
<1>1. ASSUME NEW c PROVE Ins(c)' = Ins(c)
  <2>1. \A t : Val(t)' = Val(t)
    BY Zenon DEF Val
  <2>2. [i \in 1..Len(c.toks) |-> Val(c.toks[i])]' = [i \in 1..Len(c.toks) |-> Val(c.toks[i])]
    BY <2>1, Zenon
  <2> QED BY <2>2, Zenon DEF Ins
<1>2. ASSUME NEW f, NEW c PROVE Asked(f, c)' = Asked(f, c)
  <2>1. SymbolOf(symbols, c)' = SymbolOf(symbols, c)
    BY Zenon DEF SymbolOf
  <2> QED BY <1>1, <2>1, Zenon DEF Asked
<1> SUFFICES ASSUME NEW p
             PROVE  Asked(cur, Lines[cur][p].code)' = Asked(cur, Lines[cur][p].code)
  OBVIOUS
<1>3. cur' = cur /\ (Lines[cur][p].code)' = Lines[cur][p].code
  BY Zenon
<1> QED BY <1>2, <1>3, Zenon

(* What the line at hand asks for is what is encoded.                      *)
LEMMA AskedEncoded ==
    ASSUME TypeOK, EnvInv, cur # NoFile, SelfContained(cur), pass = LinePass,
           pos \in 1..Len(Lines[cur])
    PROVE  LET code == Lines[cur][pos].code  e == EncodeLine(code) IN
           Asked(cur, code) = Word(Canonical(code.op), e.flags, e.dst, e.payload)
<1> DEFINE code == Lines[cur][pos].code
           T == 1..Len(code.toks)
           v == [i \in T |-> Meaning(cur, code.toks[i])]
<1>1. Ins(code) = InsOf(cur, code)
  BY LineSame
<1>2. [Ins(code) EXCEPT !.v = v] = InsOf(cur, code)
  <2>1. Ins(code).v = v
    <3> HIDE DEF v
    <3>1. InsOf(cur, code).v = v
      BY DEF InsOf, v
    <3> QED BY <1>1, <3>1
  <2>2. [Ins(code) EXCEPT !.v = v] = Ins(code)
    <3> DEFINE r == Ins(code)
    <3>1. r = [op |-> r.op, n |-> r.n, v |-> r.v, f |-> r.f, reg |-> r.reg, hex |-> r.hex]
      BY DEF Ins
    <3> HIDE DEF r, v
    <3>2. r.v = v
      BY <2>1 DEF r
    <3>3. [r EXCEPT !.v = v] = r
      BY <3>1, <3>2
    <3> QED BY <3>3 DEF r
  <2> QED BY <1>1, <2>2
<1>3. EncodeLine(code)
        = Encode([Ins(code) EXCEPT !.v = v], SymbolOf(symbols, code), SymbolName(code) \in ints)
  BY <1>1, <1>2, Zenon DEF EncodeLine
<1> QED BY <1>3, Zenon DEF Asked

LEMMA HeadsTyped ==
    /\ TypeOK => IsFiniteSet(Heads) /\ Heads \subseteq Int /\ \A i \in Heads : i <= Len(words)
    /\ TypeOK => IsFiniteSet(Asking) /\ Asking \subseteq Int /\ \A p \in Asking : p < pos
<1> SUFFICES ASSUME TypeOK
             PROVE  /\ IsFiniteSet(Heads) /\ Heads \subseteq Int
                    /\ \A i \in Heads : i <= Len(words)
                    /\ IsFiniteSet(Asking) /\ Asking \subseteq Int
                    /\ \A p \in Asking : p < pos
  OBVIOUS
<1>1. Len(words) \in Nat /\ pos \in Nat \ {0}
  BY DEF TypeOK
<1>2. IsFiniteSet(1..Len(words)) /\ IsFiniteSet(1..(pos - 1))
  BY <1>1, FS_Interval
<1>3. Heads \in SUBSET (1..Len(words)) /\ Asking \in SUBSET (1..(pos - 1))
  BY DEF Heads, Asking
<1>4. IsFiniteSet(Heads) /\ IsFiniteSet(Asking)
  <2>1. ASSUME NEW S, IsFiniteSet(S), NEW T \in SUBSET S PROVE IsFiniteSet(T)
    BY <2>1, FS_Subset
  <2> QED BY <1>2, <1>3, <2>1, Zenon
<1>5. Heads \subseteq Int /\ \A i \in Heads : i <= Len(words)
  BY <1>1, <1>3
<1>6. Asking \subseteq Int /\ \A p \in Asking : p < pos
  BY <1>1, <1>3
<1> QED BY <1>4, <1>5, <1>6

(* A line with an instruction adds one line that asks and one head.        *)
LEMMA InstructionDecoded ==
    ASSUME TypeOK, EnvInv, Decoding, ReadInstruction, SelfContained(cur), BitSevenFree'
    PROVE  Decoded'
<1> DEFINE code == Lines[cur][pos].code
           e == EncodeLine(code)
           w == Emit(code.op, e)
           n == Len(words)
<1>1. /\ cur # NoFile /\ pass = LinePass /\ pos \in 1..Len(Lines[cur])
      /\ code.kind = "instr" /\ Canonical(code.op) \in Opcodes
      /\ words' = words \o w /\ pos' = pos + 1
      /\ UNCHANGED <<env, cur, pass, symbols, ints>>
  <2>1. AtLine /\ code.kind = "instr" /\ ~LineRaises(code)
    BY Zenon DEF ReadInstruction
  <2>2. Canonical(code.op) \in Opcodes
    BY <2>1, Zenon DEF LineRaises
  <2>3. words' = words \o w /\ pos' = pos + 1
    BY Zenon DEF ReadInstruction
  <2>4. UNCHANGED <<env, cur, pass, symbols, ints>>
    BY Zenon DEF ReadInstruction, scan
  <2>5. cur # NoFile /\ pass = LinePass /\ pos <= Len(Lines[cur])
    BY <2>1, Zenon DEF AtLine
  <2>6. cur \in File /\ pos \in Nat \ {0}
    BY <2>5 DEF TypeOK
  <2>7. Len(Lines[cur]) \in Nat
    BY <2>6, TextAssumption
  <2>8. pos \in 1..Len(Lines[cur])
    BY <2>5, <2>6, <2>7
  <2> QED BY <2>1, <2>2, <2>3, <2>4, <2>5, <2>8, Zenon
<1>2. pos \in Nat \ {0} /\ words \in Seq(WordType) /\ n \in Nat
  BY DEF TypeOK
<1>3. Asking' = Asking \cup {pos} /\ pos \notin Asking
  BY <1>1, <1>2 DEF Asking
<1>4. \A p : Asked(cur, Lines[cur][p].code)' = Asked(cur, Lines[cur][p].code)
  BY <1>1, AskedSame
<1>5. BitSevenFree
  BY <1>3, <1>4 DEF BitSevenFree
<1>6. Decoded
  BY <1>1, <1>5 DEF Decoding
<1>7. Asked(cur, code) = Word(Canonical(code.op), e.flags, e.dst, e.payload)
  BY <1>1, AskedEncoded
<1>8. 7 \notin Low(8, e.flags)
  <2>1. 7 \notin Asked(cur, code).flags
    BY <1>3, <1>4 DEF BitSevenFree
  <2> QED BY <1>7, <2>1 DEF Word
<1>9. /\ Len(w) \in 1..2 /\ w[1].op # EXTENSION
      /\ 7 \in w[1].flags <=> Len(w) = 2
      /\ Len(w) = 2 => w[2].op = EXTENSION
      /\ Fetch(w, 1) = Asked(cur, code)
  BY <1>1, <1>7, <1>8, EmitDecodes
<1>10. w \in Seq(WordType)
  BY <1>1, EmitFits
<1> HIDE DEF w, e, code
<1>11. /\ Len(words') = n + Len(w)
       /\ \A i \in 1..n : words'[i] = words[i]
       /\ \A j \in 1..Len(w) : words'[n + j] = w[j]
  BY <1>1, <1>2, <1>10
<1>12. Heads' = Heads \cup {n + 1}
  <2>1. \A i \in 1..Len(words') : i \in 1..n \/ i = n + 1 \/ (i = n + 2 /\ Len(w) = 2)
    <3> DEFINE k == Len(w)  m == Len(words')
    <3>1. n \in Nat /\ k \in {1, 2} /\ m = n + k
      BY <1>2, <1>9, <1>11
    <3> HIDE DEF n, k, m
    <3>2. \A i \in 1..m : i \in 1..n \/ i = n + 1 \/ (i = n + 2 /\ k = 2)
      BY <3>1
    <3> QED BY <3>2 DEF n, k, m
  <2>2. words'[n + 1].op # EXTENSION /\ n + 1 \in 1..Len(words')
    BY <1>2, <1>9, <1>11
  <2>3. Len(w) = 2 => words'[n + 2].op = EXTENSION
    BY <1>9, <1>11
  <2>4. 1..n \subseteq 1..Len(words')
    BY <1>2, <1>9, <1>11
  <2> QED BY <1>11, <2>1, <2>2, <2>3, <2>4 DEF Heads, IsHead
<1>13. \A i \in Heads : Fetch(words', i) = Fetch(words, i)
  <2> SUFFICES ASSUME NEW i \in Heads PROVE Fetch(words', i) = Fetch(words, i)
    OBVIOUS
  <2>1. i \in 1..n /\ words'[i] = words[i]
    BY <1>11 DEF Heads
  <2>2. CASE 7 \in words[i].flags
    <3>1. i < n
      BY <1>6, <2>2 DEF Decoded
    <3>2. i < Len(words') /\ words'[i + 1] = words[i + 1]
      BY <1>2, <1>9, <1>11, <2>1, <3>1
    <3> QED BY <2>1, <3>1, <3>2, Zenon DEF Fetch
  <2>3. CASE 7 \notin words[i].flags
    BY <2>1, <2>3, Zenon DEF Fetch
  <2> QED BY <2>2, <2>3
<1>14. Fetch(words', n + 1) = Asked(cur, code)
  <2>1. words'[n + 1] = w[1]
    BY <1>9, <1>11
  <2>2. n + 1 < Len(words') <=> 1 < Len(w)
    BY <1>2, <1>9, <1>11
  <2>3. 1 < Len(w) => words'[(n + 1) + 1] = w[1 + 1]
    BY <1>2, <1>9, <1>11
  <2>4. Fetch(words', n + 1) = Fetch(w, 1)
    BY <2>1, <2>2, <2>3, Zenon DEF Fetch
  <2> QED BY <1>9, <2>4
<1>15. /\ Cardinality(Asking') = Cardinality(Asking) + 1
       /\ Rank(Asking', pos) = Cardinality(Asking) + 1
       /\ Cardinality(Asking) \in Nat
       /\ \A p \in Asking : /\ Rank(Asking', p) = Rank(Asking, p)
                            /\ Rank(Asking, p) \in Nat
                            /\ Rank(Asking, p) <= Cardinality(Asking)
  <2>1. IsFiniteSet(Asking) /\ Asking \subseteq Int /\ \A p \in Asking : p < pos
    BY HeadsTyped, Zenon
  <2>2. pos \in Int
    BY <1>2
  <2> HIDE DEF n
  <2> QED BY <1>3, <2>1, <2>2, RankLast
<1>16. /\ Cardinality(Heads') = Cardinality(Heads) + 1
       /\ Rank(Heads', n + 1) = Cardinality(Heads) + 1
       /\ \A i \in Heads : /\ Rank(Heads', i) = Rank(Heads, i)
                           /\ Rank(Heads, i) \in Nat
                           /\ Rank(Heads, i) <= Cardinality(Heads)
  <2>1. IsFiniteSet(Heads) /\ Heads \subseteq Int /\ \A i \in Heads : i <= n
    BY HeadsTyped, Zenon
  <2>2. n + 1 \in Int /\ \A i \in Heads : i < n + 1
    BY <1>2, <2>1
  <2> DEFINE m == n + 1
  <2> HIDE DEF m
  <2>3. Heads' = Heads \cup {m} /\ m \in Int /\ \A i \in Heads : i < m
    BY <1>12, <2>2 DEF m
  <2>4. /\ Cardinality(Heads') = Cardinality(Heads) + 1
        /\ Rank(Heads', m) = Cardinality(Heads) + 1
        /\ \A i \in Heads : /\ Rank(Heads', i) = Rank(Heads, i)
                            /\ Rank(Heads, i) \in Nat
                            /\ Rank(Heads, i) <= Cardinality(Heads)
    BY <2>1, <2>3, RankLast
  <2> QED BY <2>4 DEF m
<1>17. Cardinality(Heads) = Cardinality(Asking)
  BY <1>6 DEF Decoded
<1>18. ASSUME NEW p \in Asking', NEW i \in Heads', Rank(Asking', p) = Rank(Heads', i)
       PROVE  Fetch(words', i) = Asked(cur, Lines[cur][p].code)
  <2>1. CASE p \in Asking /\ i \in Heads
    BY <1>6, <1>13, <1>15, <1>16, <1>18, <2>1 DEF Decoded, Fetched
  <2>2. CASE p = pos /\ i = n + 1
    BY <1>14, <2>2 DEF code
  <2>3. CASE p = pos /\ i \in Heads
    BY <1>15, <1>16, <1>17, <1>18, <2>3
  <2>4. CASE p \in Asking /\ i = n + 1
    BY <1>15, <1>16, <1>17, <1>18, <2>4
  <2> QED BY <1>3, <1>12, <2>1, <2>2, <2>3, <2>4
<1>19. ASSUME NEW i \in Heads', 7 \in words'[i].flags PROVE i < Len(words')
  <2>1. CASE i \in Heads
    <3>1. i \in 1..n
      BY <2>1 DEF Heads
    <3> QED BY <1>2, <1>9, <1>11, <3>1
  <2>2. CASE i = n + 1
    <3>1. 7 \in w[1].flags
      BY <1>9, <1>11, <1>19, <2>2
    <3> QED BY <1>2, <1>9, <1>11, <2>2, <3>1
  <2> QED BY <1>12, <2>1, <2>2
<1>20. \A p, i : Fetched(p, i)' <=> Fetch(words', i) = Asked(cur, Lines[cur][p].code)
  BY <1>4, Zenon DEF Fetched
<1> QED BY <1>15, <1>16, <1>17, <1>18, <1>19, <1>20 DEF Decoded

LEMMA DecodingStep == TypeOK /\ TypeOK' /\ EnvInv /\ Decoding /\ [Next]_vars => Decoding'
<1> SUFFICES ASSUME TypeOK, TypeOK', EnvInv, Decoding, [Next]_vars PROVE Decoding'
  OBVIOUS
<1>1. ASSUME NEW r, Leave(r) PROVE Decoding'
  BY <1>1 DEF Leave, Decoding, LinePass
<1>2. ASSUME NEW f \in File, Call(f) PROVE Decoding'
  BY <1>2 DEF Call, Decoding, TypeOK, LinePass
<1>3. ASSUME NEW q, PackData(q) \/ DefineRel(q) \/ DefineVrel(q) PROVE Decoding'
  <2>1. pass < LinePass /\ pass' = pass /\ words' = words
    BY <1>3 DEF PackData, DefineRel, DefineVrel, Finds, scan
  <2> QED BY <2>1 DEF Decoding, LinePass, TypeOK
<1>4. ASSUME NEW q, PackRaises(q) \/ VrelRaises(q) PROVE Decoding'
  BY <1>1, <1>4 DEF PackRaises, VrelRaises
<1>5. CASE EndPass
  <2>1. words' = <<>> /\ pos' = 1
    BY <1>5 DEF EndPass, Decoding, locals
  <2>2. Heads' = {} /\ Asking' = {}
    BY <2>1 DEF Heads, Asking
  <2>3. Decoded'
    BY <2>2 DEF Decoded
  <2> QED BY <2>1, <2>3 DEF Decoding
<1>6. CASE ReadInstruction
  <2>1. cur' = cur /\ pass' = LinePass
    BY <1>6 DEF ReadInstruction, AtLine, scan
  <2>2. SelfContained(cur) /\ BitSevenFree' => Decoded'
    BY <1>6, InstructionDecoded
  <2>3. ~(pass' < LinePass)
    BY <2>1 DEF LinePass
  <2> QED BY <2>1, <2>2, <2>3 DEF Decoding
<1>7. CASE ReadOther \/ ReadFuel
  <2>1. /\ cur' = cur /\ pass = LinePass /\ pass' = pass /\ words' = words /\ pos' = pos + 1
        /\ cur # NoFile /\ UNCHANGED <<env, cur, symbols, ints>>
        /\ Lines[cur][pos].code.kind # "instr"
    BY <1>7 DEF ReadOther, ReadFuel, AtLine, scan
  <2>2. Heads' = Heads
    BY <2>1 DEF Heads
  <2>3. Asking' = Asking
    <3>1. pos \in Nat \ {0}
      BY DEF TypeOK
    <3> QED BY <2>1, <3>1 DEF Asking
  <2>4. \A p : Asked(cur, Lines[cur][p].code)' = Asked(cur, Lines[cur][p].code)
    BY <2>1, AskedSame
  <2>5. BitSevenFree' <=> BitSevenFree
    BY <2>3, <2>4 DEF BitSevenFree
  <2>6. \A p, i : Fetched(p, i)' <=> Fetched(p, i)
    BY <2>1, <2>4 DEF Fetched
  <2>7. Decoded => Decoded'
    BY <2>1, <2>2, <2>3, <2>6 DEF Decoded
  <2> QED BY <2>1, <2>5, <2>7 DEF Decoding, LinePass
<1>8. CASE LineFails \/ Return
  BY <1>1, <1>8 DEF LineFails, Return
<1>9. CASE UNCHANGED vars
  <2>1. /\ UNCHANGED <<env, cur, pass, pos, symbols, ints, words>>
    BY <1>9 DEF vars
  <2>2. \A p : Asked(cur, Lines[cur][p].code)' = Asked(cur, Lines[cur][p].code)
    BY <2>1, AskedSame
  <2>3. Heads' = Heads /\ Asking' = Asking
    BY <2>1 DEF Heads, Asking
  <2>4. BitSevenFree' <=> BitSevenFree
    BY <2>2, <2>3 DEF BitSevenFree
  <2>5. \A p, i : Fetched(p, i)' <=> Fetched(p, i)
    BY <2>1, <2>2 DEF Fetched
  <2>6. Decoded => Decoded'
    BY <2>1, <2>3, <2>5 DEF Decoded
  <2> QED BY <2>1, <2>4, <2>6 DEF Decoding
<1> QED BY <1>2, <1>3, <1>4, <1>5, <1>6, <1>7, <1>8, <1>9, Zenon DEF Next

(* Fetching the program word after word gives the instructions its lines   *)
(* ask for, one each and in order, for any lines and identifiers up to 16  *)
(* bits.                                                                   *)
THEOREM ProgramsDecode == Spec => []DecodesToSource
<1>1. Init => Decoding
  BY DEF Init, Decoding, LinePass
<1>2. Init => EnvInv
  BY DEF Init, EnvInv, UnboundNames
<1>3. TypeOK /\ EnvInv /\ [Next]_vars => EnvInv'
  BY EnvStep
<1>4. TypeOK /\ TypeOK' /\ EnvInv /\ Decoding /\ [Next]_vars => Decoding'
  BY DecodingStep
<1>5. Decoding => DecodesToSource
  BY DEF Decoding, Decoded, Fetched, DecodesToSource
<1> QED BY <1>1, <1>2, <1>3, <1>4, <1>5, TypeCorrect, PTL DEF Spec
=============================================================================
