# A TLA+ development of the ImpulseVM tools

This directory models the executable part of `impulse-graph-spec`: the Python
tools that assemble ImpulseVM test vectors, run them against the engines,
compare the engines with each other and generate random programs. The virtual
machine and the snapshot engine themselves live in other repositories; this one
specifies them in documents and tests them with vectors, and what the tools do
decides whether a green run means anything.

## 1. Inventory

| component | source | state | operations | correct when |
|---|---|---|---|---|
| assembler | `tools/run_vm_asm_suite.py` `parse_val`, `parse_impas_file` | the module-level `CONSTANTS`, which outlives a call; per call the data buffer, symbols, instructions, expectations | six passes over a text: graphs, float arrays, integer arrays, `.rel`, `.vrel`, lines; an exception may end any of them | what a file assembles to depends on that file only; symbols point at their data; the words decode to the lines |
| suite runner | same file, `main` | counters, coverage sets, engine contexts, exit status | parse, skip, parse-only, execute, verify, exception, report | no vector lost; exit 0 earned; contexts released; the run ends |
| four-way validator | `tools/four_way_validation.py` | `.impb` files on disk, four states per vector, counters | run twice in process, export, run two processes, compare | a pass is a consensus on the vector's present text; exit 0 means all passed |
| three-way validator | `tools/three_way_validation.py` | three states per vector, counters | run in process and in two others, skip empty vectors, compare | a pass is an agreement; exit 0 leaves nothing unexplained |
| contract fuzzer | `tools/fuzz_vm_contracts.py` | the tracked type of each register; three temporary files of fixed names, shared by all processes in a checkout; reproductions | draw a contract and operands, format, retype the destination; campaign loop with clean-up | programs are type-valid; engines run the program at hand; reproductions are what their name says; nothing is left behind |
| code generator | `tools/codegen.py` | the schema table; five output files, in place | load, render C header, Java layouts, documents | C and Java agree on every byte; outputs of one version |
| snapshot vector builders | `tools/generate_string_fuzz_vectors.py`, `generate_null_vectors.py` | a byte buffer; snapshot and manifest files | pack the header, seal it, append sections, write both files | the checksum covers what is written; a reader finds the sections; each vector breaks the rule its manifest names |
| fixture generator | `tools/generate_fixtures.py` | staging directory, eight fixtures in place | stage edge lists, call the tool, inspect | green means made and inspected by this run; what failed runs leave tells which of them made it |
| cross-compiler parity | `tools/cross_compiler_parity.py` | two bytecode locals, native queries | compile twice, copy, destroy, compare | a match is a match of this expression; queries destroyed |
| assembly generators and one-shot scripts | `tools/generate_pathological_impas.py`, `generate_frontier_matrix.py`, `run_one_val.py` | none | print vectors, run one | - |
| virtual machine, snapshot format | `docs/`, `spec/`, `test-vectors/` | external | - | - |

How they interact: the suite, both validators and the fuzzer call
`parse_impas_file` in one process, one file after the other, and so share
`CONSTANTS`. The four-way validator and the fuzzer hand programs to the Java and
OCaml engines through files; the fuzzer feeds generated text to the same parser,
uses the validator's `compare_state` and engine runners, and shares its
temporary files with every other fuzzer in the checkout. Fixtures and vectors
are read by engines elsewhere. Continuous integration reads only the exit status
of the suite.

What is hard here: state that leaks from one parse to the next; exceptions half
way through a parse or a loop body, with a `finally` clause in between; numbering
that depends on the order of passes; field widths and the two-word instruction
form; one process that calls an engine without a timeout; files that survive a
run that was killed, or belong to another process; several files written in
place that should be of one version; two independently kept pictures of the
register types and of the struct layouts. There are no threads. `PROJECT.json`
lists each hazard at its line with the property that covers it, or why none does.

## 2. Modules

| module | models |
|---|---|
| `Encoding` | one line of assembly to one or two words: every branch of the encoder, the field layouts, flags, truncation, the extension word; and, as external contract, the machine's fetch |
| `Assembler` (extends `Encoding`) | the parser as a state machine: `env` is `CONSTANTS`, `cur/pass/pos` the scan, the other variables the locals of a call; one action per directive, line kind and failure |
| `Validator` | abstract: what every comparing tool promises. Items get one verdict each, in order and for good; PASS needs sound evidence; the exit status follows from the verdicts |
| `Suite` | `main` of the suite; `Parse`, a function of the file, stands for the parser (that it is a function is what `Assembler` proves). Implements `Validator` |
| `CompareStates` | `compare_state`, shared by the four-way validator and the fuzzer |
| `FourWay` (extends `CompareStates`) | the four-way validator; `disk` is what the `.impb` files hold. Implements `Validator` |
| `ThreeWay` | the three-way validator and its own comparison. Implements `Validator` |
| `Parity` | the parity harness. Implements `Validator` but for the status |
| `Comparers` (extends `ThreeWay`, instantiates `Parity`) | the two comparers that leave no files: a behaviour is a run of one of them |
| `Fuzzer` | the program generator together with the types the registers really get |
| `Campaign` (extends `CompareStates`) | the fuzzer's loop: processes, shared temporary files, exceptions, kills, restarts |
| `Layout` | the struct tables, C and Java sizes and offsets |
| `Codegen` (extends `Layout`) | runs of the generator between edits of the table |
| `Snapshot` | the two snapshot builders call by call, the header byte for byte |
| `Fixtures` | the fixture generator around the external tool, and its edge lists |
| `MCAssembler`, `MCAssemblerDocs`, `MCSuite`, `MCFourWay`, `MCContracts`, `MCFuzzer`, `MCComparers`, `MCCampaign`, `MCCodegen`, `MCBuilders` | small instances for TLC. `MCBuilders` holds `Fixtures` and `Snapshot`: a behaviour runs one of the two |
| `AssemblerProofs`, `SuiteProofs`, `FuzzerProofs`, `FourWayProofs`, `ComparersProofs`, `CampaignProofs`, `CodegenProofs`, `BuildersProofs` | theorems |

### Conventions

A machine integer is the set of positions of its 1 bits (`{0, 2}` is 5): masks
are intersections, shifts translate, `|` is union, and widths are exact, also at
16, 32 and 41 bits and for negative numbers. Operand texts are abstract: `Lex`
gives each its literal value, its float bits, and whether `int` or `float`
raises on it. A directive is a record of its kind, name and body; a text that no
pattern of the parser matches is a directive of kind `other`. An element of a
data directive that `int`, `float` or `struct.pack` would raise on is a negative
number; the instances stay below 2^31. Regular expressions and line layout are
not modelled beyond what they accept.

Operators whose comment begins with "Fault:" are not used by the specification.
Each is the neighbouring definition with a plausible bug, kept to show that the
properties notice it.

### Assembler

`Call(f)` begins a parse when none is under way, `PackData`, `DefineRel`,
`DefineVrel` handle one match of a pass's pattern (a pass takes its directives
in text order), `EndPass` goes on to the next pass, `ReadInstruction`,
`ReadOther`, `ReadFuel` handle one line, `Return` delivers the result.
`PackRaises`, `VrelRaises` and `LineFails` are the exceptions; all of them drop
the locals and keep `env`, as the code does. Any file may be parsed at any time,
again and again, so the histories checked are all sequences of calls.

`DecodesToSource` compares two countings: the lines of the file that ask for an
instruction, and the words that are not extensions. There are as many of the one
as of the other, and the word with n heads up to it is fetched, together with its
extension, as the instruction the n-th line asks for.

### Suite

The engine is a set of states per vector (`Ends`) and whether the program halts
by itself (`Halts`). `EngineReturns` is enabled when it does or when there is
fuel: a vector without either hangs the process, as in the code. The except
clause is reached by parse errors (`ParseFails`) and by a register assertion
past the bank (`VerifyRaises`), which leaves the context undestroyed.

### FourWay

Each engine ends each program in one of several states, or crashes, so that
every combination of agreement is explored; `disk` starts with nothing or an
older program. `Raises` is the except clause with the three ways into it. The
value compared as `hash` stands for the context hash. `None` states, which a
vector without instructions gives, raise at `"status" not in None`.

### Fuzzer

`reg_state` is the generator's picture, `actual` what running the program
gives: the type written by the contract row that the assembled flags select.
The generator draws a row of a mnemonic, while the text form always selects the
same one. Types of destinations the table leaves open (element-wise math, moves)
follow the operands.

`FaithfulRow` says when the generator is right about a row: the row asks at least
what the selected one asks, and writes what that one writes, a single type. Of the
39 rows of `contracts.json` with a text form, 35 are faithful and four are not, which
`MCFuzzer` has TLC evaluate: the scaling by a constant, which no text selects; the
adaptive walk, which is tracked as giving a bitset where its row gives nothing; the sum
of a vector, whose row leaves open which of two types it gives; and the second row of
`OP_VECTOR_ANN_SEARCH`, tracked as a lane frontier where the selected one gives a
bitset. So the claim that programs are type-valid is false of the table (run
`fuzzed_types`), and what is checked and proved is how far the damage goes. The
history variable `sound` holds the registers that only faithful rows wrote, from
registers that were sound themselves: `TrackedIsActual` is about those, and
`FaithfullyTyped` about the instructions of faithful rows that read nothing else.
All rows are drawn in the run.

### Validator and its implementations

`Validator` has a list, the number of items decided, their verdicts, the items
whose evidence supports a pass, and the status. Each tool maps its loop position
to `done` and keeps its own reading of `sound`, an expression of its present
state: for the suite, that the recorded machine state meets every assertion it
looks at (a vector that was only parsed has a verdict of its own); for the validators, that the recorded
states agree pairwise; for parity, that both compilers made the same bytes of
the expression at hand. Since `sound` is evaluated in every state, a loop that
gives PASS on a state of an earlier vector, revises a verdict or leaves the loop body
without a verdict is not an implementation. `Exits` says which status a tool may
report: the validators report 1 exactly when a verdict is bad, the suite also for
coverage below the threshold, and parity always 0.

### ThreeWay and Parity

Both follow the loop body call by call (`step`), and every call may raise. An
engine state of `ThreeWay` records only the registers the engine printed: what is
missing counts as 0. `Parity` keeps the two local variables `javaHex` and
`cppHex` over iterations, as Python does, and the native queries that are alive.

### Campaign

A process of `Procs` goes through `at`, one value per call of the loop body; each
call that touches a file is its own step, so two processes interleave between
any two of them. A write truncates, then fills. Every call may raise into the
except clause; the `finally` clause tests and removes three files, and an
`unlink` of a file another process removed in between ends the process. `Killed`
stops a process anywhere; `Start` begins another campaign over what is left. An
engine that reads files that do not belong together may do anything in `Mixed`.
`alone` marks the behaviours in which one process has the checkout, stopped or
killed and started again any number of times; the properties with `Alone` in their
name are about those.

### Layout and Codegen

Structs are sequences of fields (type, length). `Table(v)` is the table after `v`
edits. A run loads the table once (`loaded`), truncates and fills each output in
turn, may be killed at any point and raises in the Java renderer on a length that
is no number. Edits may add scalars and arrays of any type and length. The two
renderers do not agree on all of them (`tools/codegen.py:218` keeps the element type
of an array, line 272 renders one byte for each element), so `SameOffsets` says exactly
where they do: in front of the first array of wider elements, and nowhere behind it.
The committed table has none. The header and the documents are modelled by the schema they are
rendered from; the layouts follow from it.

### Snapshot and Fixtures

`Snapshot` keeps the scripts' order of calls: the header fields packed before and
after the checksum is computed, the sections appended with the padding the
scripts compute, then snapshot and manifest. CRC-16-CCITT is computed on bits. A
reader (`Word`, `Starts`, `Breaks`) is written after the format document, as
external contract. `NamedDefect` has no order of checks: a vector breaks a set of the
document's rules on strings and on the end of the file, and that set is the rule its
manifest names and the ones listed in `Unnamed`. In `Fixtures` a call of the external
tool succeeds or fails and may leave a damaged file, staging may fail before it, and the
inspection, which takes whatever matches `g*.imps` one after the other in sorted order
(`First`), may refuse any file.

## 3. Runs

| run | module | shows |
|---|---|---|
| `assembler` | MCAssembler | history independence, symbol regions, adjacency, extension words, decoding, repeatability |
| `suite` | MCSuite | accounting, earned green, checks against the right fields, contexts, termination, implements `Validator` |
| `fuzzer` | MCFuzzer | all rows of the shipped table: faithful rows on sound registers are type-valid, and the tracking of sound registers is exact |
| `four_way` | MCFourWay | consensus, own program, green means all pass, implements `Validator` |
| `comparers` | MCComparers | three-way validator: a green run is explained, implements `Validator`; parity: queries destroyed, implements `Validator` but for the status |
| `campaign` | MCCampaign | one process at a time, killed and restarted: engines run the program at hand, totals, reproductions that reproduce, no leftovers; two at once: reproductions keep their seed, the last one out has tidied up |
| `codegen` | MCCodegen | finished runs are of one schema, C at the documented bytes, Java at the same ones up to the first array of wide elements; a run that dies leaves no document ahead of the code |
| `builders` | MCBuilders | fixtures: green means fresh, made in order, shapes; snapshots: checksum, sections, the rules each vector breaks, manifest not ahead |
| `csr_rows` | MCAssemblerDocs | violated: the source numbers of a graph's rows are not used |
| `stable_flag` | MCSuite | violated: the stable flag is read at another bit than documented |
| `fuzzed_types` | MCContracts | violated: on the shipped rows generated programs are not type-valid |
| `java_layout` | MCCodegen | violated: Java layouts with aligned elements at unaligned offsets do not load |

The last four each check one sentence of the repository (quoted in `PROJECT.json`
under `findings`) against the code. The type invariants of `Suite`, `Fuzzer` and
`FourWay` are proved and not run.

### Bounds

*MCAssembler*: seven files, each after a situation in the vectors: two
graphs with an empty row among arrays; relations whose names other files bind to
other numbers, one of them 40000, with operands on both sides of 8, 16 and 32 bits;
one name for a graph, an array and relations; virtual relations made of others;
an unknown mnemonic after relations were bound; a file that uses names it does
not bind; an array element that is not a number. Calls are not bounded: `env`
and `out` take finitely many values. Two files suffice for any leak, since a leak
is one file's binding read by another. *MCSuite*: up to eight vectors, one for
each way through the loop, and directories that are full, able to be green,
below the coverage threshold and empty. *MCFuzzer*: `MAX_INSTRUCTIONS = 3` (two
instructions set up a mismatch, the third runs into it), all 39 rows with a text form
and one without, nine of the 64
registers: the seven of the preamble, R0 among them, and two destinations. *MCFourWay*: four
vectors: two that run, one empty and one that does not parse, two or three end
states per engine so that each of the six pairs can differ alone. *MCComparers*:
four vectors and lists of up to four, with states that differ in a field, in a
register, and in a register that is not printed; the four expressions of the
parity script and two programs. *MCCampaign* (the largest, 525 280 states): one
process at a time with `STARTS = 3` and `MISHAPS = 2` (a kill that leaves files
behind, a second one over those leftovers, and a run that ends), or two
processes at once, two starts, no mishap; symmetry exchanges the two processes,
which no property tells apart. Three iterations reach an iteration after an
exception that follows a good one. *MCCodegen*: five edits, which add scalars of
two sizes, arrays of bytes before and behind one of 16-bit elements; the last schema
cannot be rendered. Runs are not bounded. *MCBuilders*: `RUNS = 3` of the generator (one to make all, one
to fail over them, one more), `DEATHS = 1` per snapshot script, with every call as
a place to die; one foreign file in the output directory.

Deadlock is checked for the assembler and the code generator, which can always
be called again. The others are processes that stop, or a bounded number of them
(`CHECK_DEADLOCK FALSE`).

### Fairness

Only `Suite!FairSpec` has any: `WF_vars(Next)`. `main` is one
sequential process that keeps running, and `EngineReturns` is part of `Next`
only when the program or its fuel lets the engine return, so fairness assumes
nothing of the engine that its fuel contract does not give. The instance's
looping vector brings fuel; with fuel from the environment only, `Terminates`
fails. The other tools call subprocesses with no fuel of their own, so nothing in
the code justifies fairness for them; what they are shown is safety.

### Disagreements noticed without a run of their own

Each is a sentence of a document against a line of the code that a model could
only restate:

* `docs/IMPAS_SPECIFICATION.md:95` documents `; {{EXPECT: ...}}`; the pattern
  at `tools/run_vm_asm_suite.py:410` takes one brace.
* `docs/IMPAS_SPECIFICATION.md:26` documents `.vrel <NAME> = <ID>`; line 397 wants
  an expression in brackets.
* `docs/IMPAS_SPECIFICATION.md:117` lists the scratch and parallelism assertions;
  they are parsed (line 427 and following) and never compared.
* The four-way validator compares no `throw_code`, call stack depth or later
  header assertion (`tools/four_way_validation.py:143`).
* `--shrink` is declared and never read (`tools/fuzz_vm_contracts.py:296`).
* `docs/spec_v0.9.md:3` says it is generated from the YAML schema;
  `tools/codegen.py:367` uses the table in the script.
* `tools/generate_null_vectors.py`: the manifest of tc37 counts no relation where
  the snapshot has one (97); its bitmap has 768 bytes where
  `docs/FORMAT_SPECIFICATION.md:217` gives 640 (83).
* No snapshot of either script ends with the 16-byte trailer that
  `docs/FORMAT_SPECIFICATION.md:328` asks for, so a reader that looks for it first
  gives all six the same verdict, tc37 included, whose manifest says OK; and the pool
  of tc33 does not begin with the NUL of line 88. `Unnamed` in `Snapshot` holds both.
* `tools/codegen.py:272` renders an array of any type as that many bytes. The
  committed table has arrays of bytes only; `SameOffsets` says what a wider one does.
* `tools/generate_fixtures.py:261` announces that all eight files exist; line 263
  inspects the files that match a pattern. (An earlier failure ends the run, so
  a green run does have all eight: `GreenIsFresh`.)

## 4. Theorems

All are proved for every value of the constants.

*Assembler.*

* `TypeCorrect`: `[]TypeOK`, inductive as it stands. The lemma
  `WordFits` carries it: whatever bits the encoder produces, the stored fields
  have 8, 16 and 32.
* `TombstonesFollow`: `[]Tombstones`, by the lemma that what one
  line appends is one word, or a flagged word of the extended family and its
  extension, and that appending such pieces preserves the property.
* `HistoryIndependent`: `[]TokenMeaning`. The property speaks of
  the line pass only and is not inductive. What survives a call is `env` alone,
  so the strengthening `EnvInv` describes it at every moment of every call: a
  name no file binds is as the program started with it, and a name the current
  file has bound so far has the value of its last binder processed. (The value of
  a virtual relation counts the symbols known so far, so the invariant also says
  that the domain of `symbols` is exactly the names done.) In the line pass all
  binders are processed; the operand texts of a self-contained file are bound by
  it, or by no file, and for both the value is the file's own.
* `SymbolsKeepTheirRegions`: `[]SymbolRegions`, with `EnvInv`. The buffer only
  grows at its end, and a directive whose symbol stands after another one was
  processed has another name (`StandingStep`), so its region and its symbol are
  both untouched.
* `GraphsAreRecovered`: `[]AdjacencyRecovered`. With the region of a graph's symbol
  known, what is left is arithmetic about data: the recursive function that
  concatenates the rows exists and unfolds (`JoinsExist`, `TargetsUnfold`), what the
  first rows give is the beginning of what all give (`TargetsGrow`), and two byte
  offsets below 2^31 with the same bits are the same (`BitsInjective`).
* `RepeatedParses`: `Repeatable`. What a call does to its locals is stated once more
  as a relation that reads the file and never `env`. It leaves one way on at each
  point (`OneWayOn`), so a file has one run and one result. By `EnvInv` every step
  of `Next` over a self-contained file is a step of that relation, whatever earlier
  files left in `env`; the invariant `Settled` says that the locals of the call under
  way are on the run of its file and that what was delivered is the run's result.
* `ProgramsDecode`: `[]DecodesToSource`. `EmitDecodes` is the heart: what one line
  appends is fetched as what the line asks for, with all 32 bits of the payload, in
  one word or two. The invariant `Decoding` adds to the property that no flagged
  word is the last one, since otherwise the next line would change what it is
  fetched as. By `EnvInv` what is encoded is what the file asks for.

*Suite.*

* `EveryTestCounted`: `[]Accounting`, inductive with the typing of
  the loop position; the cardinalities step by one because the vector at hand
  had no verdict.
* `GreenRunsAreEarned`: from accounting (no failure counted means no
  FAIL verdict, and only a FAIL verdict is given to a vector that does not parse)
  and from an invariant that each coverage set holds only names of vectors before
  the one at hand which use the opcode. Two names are two vectors.
* `PassesAreExpected`, `ContextsAreReleased`: the states recorded for the vectors
  before the one at hand no longer change, and a vector at hand has at most its
  own context.
* `SuiteIsValidator`: the refinement. Steps between two verdicts stutter:
  they record evidence only of the vector at hand, which has no verdict yet.

*Validators.*

* `FourWayProofs!PassesAreConsensus`: three inequalities out of six and a
  register filter by one engine's tags still give pairwise agreement.
* `GreenRunsPassed`: every way out of the loop body other than PASS increments
  `failed_count`.
* `PassesOnOwnProgram`: `export_impb` rewrites the file before each of the engines
  that read it is run, whatever was there before.
* `FourWayIsValidator`, `ComparersProofs!ThreeWayIsValidator`: the refinements.
* `GreenRunsAreExplained`: a vector is skipped only when the
  in-process engine found no instruction in it, which the invariant carries with
  the verdicts.
* `ParityIsValidator`, `QueriesAreDestroyed`: about `Comparers`. The two locals
  outlive the iteration, so the invariant says at which calls they hold what was
  made of the expression at hand; and that a query is alive only between the
  compiler's answer and its destruction, or after an exception between the two.

*Fuzzer.*

* `FuzzerProofs!TrackingIsExact` and `FaithfulRowsStayValid`: for every table and
  programs of any length, with no assumption that the table is faithful. The
  invariant: the set tracked for a sound register is the singleton of its actual
  type, which is no double vector, since the generator's rule for element-wise math
  would mistake one; and R0 is sound and empty. An operand of a faithful row that is
  sound then fits the row its text selects, and the result is of the tracked type; any
  other instruction takes its destination out of `sound`.
* `CampaignProofs!CampaignsTidyUp`: for any number of processes. The invariant
  `Owed`: while nothing was killed, each file that exists is owed a removal by some
  process that still comes to it. A process that dies in its clean-up because
  another removed the file leaves its later files to that other one, which
  is still before them in its own clean-up.
* `ReprosAreOfTheirSeed`: a process writes what is in its locals, never what is in
  the shared files.
* `TotalsAreOfIterations`: for any number of processes. A divergence is counted when
  it is found and logged when its reproduction is saved, so the counters and the log
  agree only up to the part of the iteration a process is in; the invariant `Booked`
  names the parts and what is due in each.
* `OwnProgramsRun`, `ReprosDisagree`, `AloneTidiesUp`: a campaign that has the
  checkout to itself finds the files a killed one left. The invariant says, for each
  call of the loop body, which files already hold the program at hand, and that all
  others are written before an engine reads them.

*Fixture generator.*

* `BuildersProofs!GreenRunsAreFresh`, `FixturesAreInOrder`: for any other files in
  the directory and any failures. The fixtures before the one made next are of this
  run (the names in `Order` are distinct), files nobody makes are never touched, and
  what is there when the directory is listed has passed or is still to be inspected.
  For the order: a run that has come to a fixture has made all before it, and no file
  is of a run later than the present one.

*Snapshot builders*, for any number of deaths.

* `ManifestsAreNotAhead`: `[]ManifestNotAhead`. A script that died between its two
  writes is run again over the manifest of the earlier run, so a manifest is of the
  snapshot beside it only because both runs make the same file. A call is a function
  of the header and the buffers, so a program has one run (`Reached`, `OneRun`). The
  invariant `SInv` says that the script under way is on the run of its vector's
  program, and that what is on disk is torn, from before, or what that run makes.
* `ChecksumsVerify`: `[]ChecksumVerifies`, in three parts. The arithmetic: a round of
  the register is a step of the division by the polynomial, with the register held
  above what is left of the byte (`RoundDivides`), so `Crc16` is the remainder
  `Ccitt` for every message (`CrcIsRemainder`), and what 16 bits are packed as has
  those bits (`BitsOfNumber`). The programs: each passes through three phases,
  `packing`, `sealed` and `joined`, and no call of a program packs a field after the
  checksum, nor fills the file before the header was joined to it (`ProgramGoes`). The
  state: what a phase promises of header and buffers (`Holds`) is kept by every call
  that a phase allows (`HoldsNext`). The invariant `Checks` joins them: there are
  phases for the program under way, the present one holds, and every whole
  snapshot on disk begins with a sealed header.

*Code generator.*

* `CodegenProofs!NeverAhead`, as `DocumentsNeverAhead`: the outputs are in the
  order of their schemas, and the schema of a run is at least that of any output.
* `FinishedRunsAgree`, `HeaderAndJavaAgree`: the latter for any fields. A field is
  never smaller in C than in Java, and larger exactly when it is an array of wide
  elements (`FieldSizes`); so the distance between the two running sums never shrinks,
  and it is 0 as long as no such array was passed (`HowFarTheyAgree`).
* `HeaderIsDocumented`: `[]CLayoutDocumented`. Numbers that begin at 0 and grow by
  the size of each member are where the members start (`StartsAre`); the documented
  offsets of the five structs are such numbers, and the documented sizes come next.

Assumptions on constants are named in the modules: the sorted lists of vectors
have no repetition (paths of one directory), `NoFile` is no file, no opcode row
is the extension's number, texts have finitely many directives and lines and a fuel
line has one operand (`TextAssumption`), graphs list rows of numbers and arrays
numbers (`DataAssumption`), contract rows are well formed, register assertions have
numbers and other names than the fixed ones (`ChecksAssumption`), no engine state is
the record that stands for none (`EndsAssumption`, `StatesAssumption`), every
iteration of a command line has a program (`ArgsAssumption`) and every engine knows
how each may end (`EnginesAssumption`), the expressions of the parity script are
distinct and `None` is no program (`ParityAssumption`), foreign files have names
(`FixturesAssumption`), a torn file is no whole one (`TornAssumption`),
and edits add fields (`SchemaAssumption`).

Only model-checked: `Terminates` (liveness under fairness and `ENABLED` are outside
the prover); `ShapesAsNamed`, which folds over closures of concrete graphs; and
`SectionsFound` and `NamedDefect`, which ask for the exact contents of the directory
of each of the concrete byte programs, read back through filtered sequences. Of those
two TLC visits every state but for the number of deaths: the programs are the code's own,
and the proof of `ManifestsAreNotAhead` shows that a death changes nothing in what a
later run writes. The library's induction theorems take an operator as a parameter,
which no installed back end can instantiate. Where induction is over a set of numbers
the proofs get it from the well-foundedness of `<` on the naturals (`SetInduction`):
that is how the concatenation of graph rows, the offsets of a struct, the rounds of the
checksum and the runs of a file or of a program are reasoned about.

## 5. Not modelled

* The engines, compilers and the `impulse-graph` tool. What the code uses of them
  is in `EngineReturns`, `Runs`, `Results`, `Fetch`, `Programs` and the outcomes of
  tool calls, marked external in `PROJECT.json`; so is the reader of `Snapshot`.
* What precedes the loops: argument parsing, library search paths, the Maven
  call and the class path, FFI signatures; and printing and colours.
* Payloads of inline data at byte offsets of 65536 or more, where the offset
  runs into the count; no instance is that large.
* An engine subprocess that never ends: OCaml and Java get no fuel in the
  validators, and what a hang means is shown once, in `Suite`.
* Enumerations, constants and the wording of the generated documents; the YAML
  schema, which nothing reads.
* The assembly generators and `run_one_val.py`: straight-line scripts that print
  text; their output is the kind of file `MCAssembler` has.
* An interrupt from the keyboard inside a handler or a `finally` clause.
* Overlapping patterns, for instance a directive inside a comment (the passes
  scan the whole text, comments included): `Dirs` lists what the patterns match,
  so such a match is simply one of its entries.

## 6. Plan

Every component with state is modelled, and every property of the runs is proved
except the four just listed. What could follow is proof: the sections of `Snapshot` for
pools of any length, for which the phases of `ProgramGoes` would have to carry the
sizes written so far, and a statement of the shapes of `Fixtures` for which the
closure need not be computed.
