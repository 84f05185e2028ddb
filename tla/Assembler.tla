------------------------------ MODULE Assembler ------------------------------
(***************************************************************************)
(* parse_impas_file of tools/run_vm_asm_suite.py, called over and over by  *)
(* one process (the suite, and the three- and four-way validators) on any  *)
(* files in any order.  Its locals die with each call; the module-level    *)
(* dictionary CONSTANTS (env here) does not: .rel and .vrel write to it,   *)
(* and every later operand of every later file is looked up in it.         *)
(*                                                                         *)
(* A call makes six passes over the text: one per kind of data directive,  *)
(* each in text order, then one over the lines.                            *)
(***************************************************************************)
EXTENDS Encoding

CONSTANTS
    File,   \* the files that may be parsed
    Dirs,   \* Dirs[f]: the directives of f's text, in text order
    Lines,  \* Lines[f]: the lines of f's text
    Lex     \* Lex[t]: what parse_val and float() make of the operand text t

(***************************************************************************)
(* Dirs[f][q] = [kind, name, body]; body is                                *)
(*   csr         rows of [src, tgts]          float, int   the elements    *)
(*   rel         the identifier               vrel         operand texts   *)
(*   other       directives no pass matches (.vrel <name> = <id>)          *)
(* Lines[f][p] = [assert, code]:                                           *)
(*   assert = [form, key, val, int], form "{" or "{{" ("" when there is    *)
(*     none), int: int(val) does not raise                                 *)
(*   code   = [kind, op, toks], kind "none", "fuel" or "instr"             *)
(* Lex[t] = [lit, flt, bad, badflt, reg, hex]: the value of t as a literal *)
(*   and as a float, whether int(t[1:]) or float(t) raises, and how t      *)
(*   starts.                                                               *)
(***************************************************************************)
(* The pass that matches a directive; no pass matches the other ones. *)
Pass == [csr |-> 1, float |-> 2, int |-> 3, rel |-> 4, vrel |-> 5, other |-> 0]
LinePass == 6

VARIABLES
    env,      \* CONSTANTS: survives from call to call
    cur,      \* the file being parsed; NoFile between calls
    pass,     \* the pass under way, 1..LinePass
    pos,      \* where its scan goes on
    data,     \* data_bytes, as 32-bit words
    symbols,  \* symbols[name] = [off, cnt, vrel]
    ints,     \* int_symbols
    words,    \* instructions
    expect,   \* expectations
    used,     \* opcodes_used
    out       \* out[f]: what the latest finished call on f gave

vars == <<env, cur, pass, pos, data, symbols, ints, words, expect, used, out>>
scan == <<cur, pass>>
locals == <<data, symbols, ints, words, expect, used>>

CONSTANT NoFile
CONSTANT Opcodes        \* the keys of OPCODES
ASSUME NoFileAssumption == NoFile \notin File
(* No row of the opcode table is the tombstone (0xFF). *)
ASSUME OpcodesAssumption == EXTENSION \notin Opcodes
ASSUME TextAssumption ==
    \A f \in File : /\ Len(Dirs[f]) \in Nat /\ Len(Lines[f]) \in Nat
                    /\ \A q \in 1..Len(Dirs[f]) :
                          Dirs[f][q].kind \in DOMAIN Pass
                    /\ \A p \in 1..Len(Lines[f]) :
                          Lines[f][p].code.kind = "fuel" =>
                              Len(Lines[f][p].code.toks) = 1

Builtin ==
    [SEMIRING_PLUS_TIMES |-> {}, SEMIRING_MIN_PLUS |-> {0},
     SEMIRING_MAX_MIN |-> {1}, SEMIRING_BOOL |-> {0, 1},
     BINARY_OP_ADD |-> {}, BINARY_OP_MUL |-> {0}, BINARY_OP_MIN |-> {1},
     BINARY_OP_MAX |-> {0, 1}, BINARY_OP_AND |-> {2}, BINARY_OP_OR |-> {0, 2},
     BINARY_OP_ARGMIN |-> {1, 2}, BINARY_OP_ARGMAX |-> {0, 1, 2}]

Put(fn, key, value) ==
    [x \in DOMAIN fn \cup {key} |-> IF x = key THEN value ELSE fn[x]]

Nothing == [kind |-> "none"]
Raised == [kind |-> "raised"]
Empty == [x \in {} |-> {}]
NoExpectations == [STATUS |-> "IMPULSE_VM_OK"]

-----------------------------------------------------------------------------
(* parse_val: CONSTANTS first, then the literal forms.  An "R" text that   *)
(* is neither a constant nor a register number raises.                     *)
Val(t) == IF t \in DOMAIN env THEN env[t] ELSE Lex[t].lit
ValRaises(t) == t \notin DOMAIN env /\ Lex[t].bad

(* struct.pack("<I", v) raises on a negative v; an element that int() or   *)
(* float() raises on is one too.                                           *)
Fits(v) == v >= 0

Targets(rows) ==
    LET join[i \in 0..Len(rows)] ==
            IF i = 0 THEN <<>> ELSE join[i - 1] \o rows[i].tgts
    IN  join
(* Fault: each offset appended before its row's targets. *)
CsrWordsLate(rows) ==
    LET join == Targets(rows)
    IN  [i \in 1..(Len(rows) + 1) |-> IF i = 1 THEN 0 ELSE Len(join[i - 2])]
        \o join[Len(rows)]
(* offsets, then targets; the source number on a row is not looked at. *)
CsrWords(rows) ==
    LET join == Targets(rows)
    IN  [i \in 1..(Len(rows) + 1) |-> Len(join[i - 1])] \o join[Len(rows)]
Packed(d) == IF d.kind = "csr" THEN CsrWords(d.body) ELSE d.body
(* A graph lists rows of numbers, an array numbers. *)
ASSUME DataAssumption ==
    \A f \in File : \A q \in 1..Len(Dirs[f]) :
        LET d == Dirs[f][q] IN
        /\ d.kind \in {"float", "int"} => d.body \in Seq(Int)
        /\ d.kind = "csr" => /\ Len(d.body) \in Nat
                             /\ \A i \in 1..Len(d.body) : d.body[i].tgts \in Seq(Int)

Symbol(off, cnt) == [off |-> off, cnt |-> cnt, vrel |-> FALSE]

(* Fault: the offset counted in elements. *)
WordOffset == Len(data)
(* offset_start.  The alignment loops never run: all data is in words. *)
ByteOffset == 4 * Len(data)

(* Fault: the first definition of a name stays. *)
BindOnce(name, id) == IF name \in DOMAIN env THEN env ELSE Put(env, name, id)
(* CONSTANTS[name] = id: a new definition replaces the older one. *)
Bind(name, id) == Put(env, name, id)

(* Fault: virtual relations numbered across calls. *)
VrelIdOfEnv == Bits(10 + Cardinality(DOMAIN env))
(* The identifier of the next virtual relation. *)
VrelId == Bits(10 + Cardinality(DOMAIN symbols))

-----------------------------------------------------------------------------
Init ==
    /\ env = Builtin
    /\ cur = NoFile /\ pass = 1 /\ pos = 1
    /\ data = <<>> /\ symbols = Empty /\ ints = {}
    /\ words = <<>> /\ expect = NoExpectations /\ used = {}
    /\ out = [f \in File |-> Nothing]

Call(f) ==
    /\ cur = NoFile
    /\ cur' = f
    /\ UNCHANGED <<env, pass, pos, data, symbols, ints, words, expect, used,
                   out>>

(* The call ends, by return or by exception: its locals are gone. *)
Leave(result) ==
    /\ cur' = NoFile /\ pass' = 1 /\ pos' = 1
    /\ data' = <<>> /\ symbols' = Empty /\ ints' = {}
    /\ words' = <<>> /\ expect' = NoExpectations /\ used' = {}
    /\ out' = [out EXCEPT ![cur] = result]

(* q is the next directive the pass under way finds. *)
Finds(q) ==
    /\ cur # NoFile /\ pass < LinePass
    /\ q \in pos..Len(Dirs[cur])
    /\ Pass[Dirs[cur][q].kind] = pass
    /\ \A r \in pos..(q - 1) : Pass[Dirs[cur][r].kind] # pass

PackData(q) ==
    LET d == Dirs[cur][q] IN
    /\ Finds(q)
    /\ d.kind \in {"csr", "float", "int"}
    /\ \A i \in 1..Len(Packed(d)) : Fits(Packed(d)[i])
    /\ data' = data \o Packed(d)
    /\ symbols' = Put(symbols, d.name,
                      Symbol(Bits(ByteOffset), Bits(Len(d.body))))
    /\ ints' = IF d.kind = "int" THEN ints \cup {d.name} ELSE ints
    /\ pos' = q + 1
    /\ UNCHANGED <<env, scan, words, expect, used, out>>

PackRaises(q) ==
    LET d == Dirs[cur][q] IN
    /\ Finds(q)
    /\ d.kind \in {"csr", "float", "int"}
    /\ \E i \in 1..Len(Packed(d)) : ~Fits(Packed(d)[i])
    /\ Leave(Raised)
    /\ UNCHANGED env

DefineRel(q) ==
    LET d == Dirs[cur][q] IN
    /\ Finds(q)
    /\ d.kind = "rel"
    /\ env' = Bind(d.name, d.body)
    /\ symbols' = Put(symbols, d.name, Symbol(d.body, {}))
    /\ pos' = q + 1
    /\ UNCHANGED <<scan, data, ints, words, expect, used, out>>

DefineVrel(q) ==
    LET d == Dirs[cur][q] IN
    /\ Finds(q)
    /\ d.kind = "vrel"
    /\ \A i \in 1..Len(d.body) : ~ValRaises(d.body[i])
    /\ env' = Bind(d.name, VrelId)
    /\ symbols' = Put(symbols, d.name,
                      [Symbol(VrelId, {}) EXCEPT !.vrel = TRUE])
    /\ pos' = q + 1
    /\ UNCHANGED <<scan, data, ints, words, expect, used, out>>

VrelRaises(q) ==
    LET d == Dirs[cur][q] IN
    /\ Finds(q)
    /\ d.kind = "vrel"
    /\ \E i \in 1..Len(d.body) : ValRaises(d.body[i])
    /\ Leave(Raised)
    /\ UNCHANGED env

EndPass ==
    /\ cur # NoFile /\ pass < LinePass
    /\ \A q \in pos..Len(Dirs[cur]) : Pass[Dirs[cur][q].kind] # pass
    /\ pass' = pass + 1 /\ pos' = 1
    /\ UNCHANGED <<env, cur, locals, out>>

-----------------------------------------------------------------------------
(* The assertion of a line.  Only the "{EXPECT:" form is matched; a key    *)
(* that starts with R must go on with a number; unknown keys and flags are *)
(* passed over.                                                            *)
IntKeys == {"THROW_CODE", "PC", "CALL_STACK_DEPTH", "SCRATCH_BYTES", "MAX_DOP"}
CONSTANTS RegKeys, BadRegKeys   \* "R<n>"; the other texts that start with R
FlagChecks == [ZF |-> <<"ZF", TRUE>>, notZF |-> <<"ZF", FALSE>>,
               ST |-> <<"ST", TRUE>>, notST |-> <<"ST", FALSE>>]

Matched(a) == a.form = "{"
AssertRaises(a) ==
    /\ Matched(a)
    /\ a.key \in BadRegKeys \/ (a.key \in IntKeys \cup RegKeys /\ ~a.int)
Expecting(e, a) ==
    IF ~Matched(a) THEN e
    ELSE CASE a.key = "STATUS" ->
                Put(e, "STATUS",
                    IF a.val \in {"IMPULSE_VM_SUCCESS", "SUCCESS", "0"}
                    THEN "IMPULSE_VM_OK" ELSE a.val)
           [] a.key = "FLAG" /\ a.val \in DOMAIN FlagChecks ->
                Put(e, FlagChecks[a.val][1], FlagChecks[a.val][2])
           [] a.key \in IntKeys \cup RegKeys -> Put(e, a.key, a.val)
           [] OTHER -> e

(* The line's operands, as the encoder sees them. *)
Ins(code) ==
    LET T == 1..Len(code.toks) IN
    [op |-> code.op, n |-> Len(code.toks) + 1,
     v |-> [i \in T |-> Val(code.toks[i])],
     f |-> [i \in T |-> Lex[code.toks[i]].flt],
     reg |-> {i \in T : Lex[code.toks[i]].reg},
     hex |-> {i \in T : Lex[code.toks[i]].hex}]

(* The symbol an inline load names; a name that is no symbol leaves the    *)
(* payload 0, and a .vrel's count, a list, cannot be shifted.              *)
SymbolName(code) == IF Len(code.toks) > 1 THEN code.toks[2] ELSE ""
SymbolOf(syms, code) ==
    IF SymbolName(code) \in DOMAIN syms THEN syms[SymbolName(code)]
                                        ELSE Symbol({}, {})
EncodeLine(code) ==
    Encode(Ins(code), SymbolOf(symbols, code), SymbolName(code) \in ints)

LineRaises(code) ==
    \/ Canonical(code.op) \notin Opcodes
    \/ \E i \in ParsedTokens(Ins(code)) : ValRaises(code.toks[i])
    \/ \E i \in FloatTokens(Ins(code)) : Lex[code.toks[i]].badflt
    \/ code.op \in InlineOps /\ SymbolOf(symbols, code).vrel

AtLine == cur # NoFile /\ pass = LinePass /\ pos <= Len(Lines[cur])

ReadInstruction ==
    /\ AtLine
    /\ LET l == Lines[cur][pos] IN
         /\ l.code.kind = "instr"
         /\ ~AssertRaises(l.assert) /\ ~LineRaises(l.code)
         /\ expect' = Expecting(expect, l.assert)
         /\ words' = words \o Emit(l.code.op, EncodeLine(l.code))
         /\ used' = used \cup {Canonical(l.code.op)}
    /\ pos' = pos + 1
    /\ UNCHANGED <<env, scan, data, symbols, ints, out>>

ReadOther ==
    /\ AtLine
    /\ LET l == Lines[cur][pos] IN
         /\ l.code.kind = "none"
         /\ ~AssertRaises(l.assert)
         /\ expect' = Expecting(expect, l.assert)
    /\ pos' = pos + 1
    /\ UNCHANGED <<env, scan, data, symbols, ints, words, used, out>>

ReadFuel ==
    /\ AtLine
    /\ LET l == Lines[cur][pos] IN
         /\ l.code.kind = "fuel"
         /\ ~AssertRaises(l.assert) /\ ~ValRaises(l.code.toks[1])
         /\ expect' = Put(Expecting(expect, l.assert), "fuel", Val(l.code.toks[1]))
    /\ pos' = pos + 1
    /\ UNCHANGED <<env, scan, data, symbols, ints, words, used, out>>

LineFails ==
    /\ AtLine
    /\ LET l == Lines[cur][pos] IN
         \/ AssertRaises(l.assert)
         \/ l.code.kind = "instr" /\ LineRaises(l.code)
         \/ l.code.kind = "fuel" /\ ValRaises(l.code.toks[1])
    /\ Leave(Raised)
    /\ UNCHANGED env

Return ==
    /\ cur # NoFile /\ pass = LinePass /\ pos > Len(Lines[cur])
    /\ Leave([kind |-> "parsed", words |-> words, data |-> data,
              expect |-> expect, used |-> used])
    /\ UNCHANGED env

Next ==
    \/ \E f \in File : Call(f)
    \/ \E q \in 1..(IF cur = NoFile THEN 0 ELSE Len(Dirs[cur])) :
          \/ PackData(q)
          \/ PackRaises(q)
          \/ DefineRel(q)
          \/ DefineVrel(q)
          \/ VrelRaises(q)
    \/ EndPass
    \/ ReadInstruction
    \/ ReadOther
    \/ ReadFuel
    \/ LineFails
    \/ Return

Spec == Init /\ [][Next]_vars
-----------------------------------------------------------------------------
(* What the texts of a file mean, from the file alone. *)

(* Directive r of f is processed before directive q. *)
Before(f, r, q) ==
    LET kr == Pass[Dirs[f][r].kind]  kq == Pass[Dirs[f][q].kind]
    IN  kr < kq \/ (kr = kq /\ r < q)
Binders(f) == {q \in 1..Len(Dirs[f]) : Dirs[f][q].kind \in {"rel", "vrel"}}
Bound(f) == {Dirs[f][q].name : q \in Binders(f)}
NamesBefore(f, q) ==
    {Dirs[f][r].name : r \in {s \in 1..Len(Dirs[f]) :
                               Pass[Dirs[f][s].kind] > 0 /\ Before(f, s, q)}}
IdOf(f, q) ==
    IF Dirs[f][q].kind = "rel" THEN Dirs[f][q].body
    ELSE Bits(10 + Cardinality(NamesBefore(f, q)))
IsLastBinder(f, q, t) ==
    /\ q \in Binders(f) /\ Dirs[f][q].name = t
    /\ \A r \in Binders(f) : Dirs[f][r].name = t /\ r # q => Before(f, r, q)
Meaning(f, t) ==
    IF t \in Bound(f)
    THEN IdOf(f, CHOOSE q \in Binders(f) : IsLastBinder(f, q, t))
    ELSE IF t \in DOMAIN Builtin THEN Builtin[t] ELSE Lex[t].lit

LineTexts(f) ==
    UNION {{l.code.toks[i] : i \in 1..Len(l.code.toks)} :
             l \in {Lines[f][p] : p \in 1..Len(Lines[f])}}
BoundAnywhere == UNION {Bound(g) : g \in File}
(* Every operand text of f is bound by f before it is looked up, or by no  *)
(* file at all; the vectors under test-vectors/vm-impas are like this.     *)
SelfContained(f) ==
    /\ LineTexts(f) \cap BoundAnywhere \subseteq Bound(f)
    /\ \A q \in Binders(f) : Dirs[f][q].kind = "vrel" =>
          \A i \in 1..Len(Dirs[f][q].body) :
             Dirs[f][q].body[i] \in BoundAnywhere =>
                \E r \in Binders(f) : /\ Before(f, r, q)
                                      /\ Dirs[f][r].name = Dirs[f][q].body[i]

-----------------------------------------------------------------------------
(* Properties. *)

WordType == [op : Opcodes \cup {EXTENSION}, flags : SUBSET (0..7),
             dst : SUBSET (0..15), payload : SUBSET (0..31)]

(* Types: every emitted word fits the C struct Instruction (8 bits of     *)
(* flags, 16 of dst, 32 of payload), and the scan stays inside the file.   *)
TypeOK ==
    /\ cur \in File \cup {NoFile}
    /\ pass \in 1..LinePass
    /\ pos \in Nat \ {0}
    /\ words \in Seq(WordType)
    /\ used \subseteq Opcodes
    /\ cur = NoFile => /\ pass = 1 /\ pos = 1 /\ words = <<>>
                       /\ data = <<>> /\ symbols = Empty

(* Whatever was parsed before, and however it ended, in the line pass of a *)
(* self-contained file parse_val gives every operand the value the file    *)
(* alone defines: names left in CONSTANTS by other files never reach it.   *)
TokenMeaning ==
    cur # NoFile /\ pass = LinePass =>
        (SelfContained(cur) =>
            \A t \in LineTexts(cur) :
                /\ Val(t) = Meaning(cur, t)
                /\ ValRaises(t) <=> /\ t \notin Bound(cur) \cup DOMAIN Builtin
                                   /\ Lex[t].bad)

(* The data directives already packed whose symbol still stands. *)
Done(q) ==
    LET k == Pass[Dirs[cur][q].kind] IN
    k > 0 /\ (k < pass \/ (k = pass /\ q < pos))
Standing(q) ==
    /\ q \in 1..Len(Dirs[cur])
    /\ Dirs[cur][q].kind \in {"csr", "float", "int"}
    /\ Done(q)
    /\ \A r \in 1..Len(Dirs[cur]) :
          Done(r) /\ Dirs[cur][r].name = Dirs[cur][q].name /\ r # q
            => Before(cur, r, q)

(* A symbol that is not redefined keeps pointing at its own elements,      *)
(* whatever later passes append: at its byte offset the buffer holds       *)
(* exactly what its directive packed.                                      *)
SymbolRegions ==
    cur # NoFile =>
        \A q \in 1..Len(Dirs[cur]) : Standing(q) =>
            \E k \in 0..Len(data) :
                LET d == Dirs[cur][q]  p == Packed(Dirs[cur][q]) IN
                /\ symbols[d.name] = Symbol(Bits(4 * k), Bits(Len(d.body)))
                /\ k + Len(p) <= Len(data)
                /\ \A j \in 1..Len(p) : data[k + j] = p[j]

(* A reader that only has the buffer, a graph's offset and its node count  *)
(* (what OP_INIT_MOCK_GRAPH is given) gets back every row's targets, with  *)
(* offsets that never decrease, in a buffer whose offsets Bits can tell    *)
(* apart (below 2^31 bytes).                                               *)
AdjacencyRecovered ==
    cur # NoFile /\ Len(data) < 2^29 =>
        \A q \in 1..Len(Dirs[cur]) :
            Standing(q) /\ Dirs[cur][q].kind = "csr" =>
                LET rows == Dirs[cur][q].body
                    n == Len(rows)
                    s == symbols[Dirs[cur][q].name]
                    k == CHOOSE j \in 0..Len(data) : Bits(4 * j) = s.off
                    off(i) == data[k + i]
                    base == k + n + 1
                IN  /\ off(1) = 0 /\ base + off(n + 1) <= Len(data)
                    /\ \A i \in 1..n :
                          /\ off(i) <= off(i + 1)
                          /\ SubSeq(data, base + off(i) + 1, base + off(i + 1))
                               = rows[i].tgts

(* An extension word never stands alone: the word before it is one of the  *)
(* instructions that may be extended, with flag bit 7 set, and the word    *)
(* itself has zero flags (the alignment padding).                          *)
Tombstones ==
    \A i \in 1..Len(words) : words[i].op = EXTENSION =>
        /\ i > 1
        /\ words[i - 1].op \in ExtendedOps
        /\ 7 \in words[i - 1].flags
        /\ words[i].flags = {} /\ words[i].payload = {}

(* The instruction a line asks for, in one piece. *)
Asked(f, code) ==
    LET T == 1..Len(code.toks)
        ins == [Ins(code) EXCEPT !.v = [i \in T |-> Meaning(f, code.toks[i])]]
        e == Encode(ins, SymbolOf(symbols, code), SymbolName(code) \in ints)
    IN  Word(Canonical(code.op), e.flags, e.dst, e.payload)
Asking == {p \in 1..(pos - 1) : Lines[cur][p].code.kind = "instr"}
Heads == {i \in 1..Len(words) : IsHead(words, i)}
BitSevenFree == \A p \in Asking : 7 \notin Asked(cur, Lines[cur][p].code).flags
Rank(S, x) == Cardinality({y \in S : y <= x})

(* The machine, fetching the words one after the other, gets exactly the   *)
(* instructions the lines ask for, in order, each with all of its operand  *)
(* bits, whether it took one word or two (for files whose authored flags   *)
(* leave bit 7 alone): as many heads as lines, and the n-th for the n-th.  *)
DecodesToSource ==
    cur # NoFile /\ pass = LinePass /\ SelfContained(cur) /\ BitSevenFree =>
        /\ Cardinality(Heads) = Cardinality(Asking)
        /\ \A p \in Asking, i \in Heads :
              Rank(Asking, p) = Rank(Heads, i)
                => Fetch(words, i) = Asked(cur, Lines[cur][p].code)

(* Parsing a self-contained file again gives what it gave before, words,   *)
(* data, assertions and exceptions alike, whatever was parsed in between.  *)
Repeatable ==
    [][\A f \in File : SelfContained(f) /\ out[f] # Nothing
                         => out'[f] = out[f]]_vars

-----------------------------------------------------------------------------
(* What docs/IMPAS_SPECIFICATION.md says of the assembler. *)

(* Section 1.1.2: .csr_inline "explicitly" maps source nodes to target     *)
(* nodes: what a reader finds at a source's row are that source's targets. *)
RowsFollowTheirSources ==
    cur # NoFile =>
        \A q \in 1..Len(Dirs[cur]) :
            Standing(q) /\ Dirs[cur][q].kind = "csr" =>
                LET rows == Dirs[cur][q].body
                    k == CHOOSE j \in 0..Len(data) :
                            Bits(4 * j) = symbols[Dirs[cur][q].name].off
                    base == k + Len(rows) + 1
                IN  \A i \in 1..Len(rows) :
                      /\ rows[i].src < Len(rows)
                      /\ SubSeq(data, base + data[k + rows[i].src + 1] + 1,
                                      base + data[k + rows[i].src + 2])
                           = rows[i].tgts
=============================================================================
