# apo-tools in TLA+

apo-tools is a pair of command-line programs for the Apogee BK-01, an i8080
home computer: `bkasm`, an assembler, and `rkaexchange`, which packs and unpacks
tape files.  Both are sequential C programs.  There are no threads and no messages
in them; what makes `bkasm` hard is *state that outlives the step that wrote
it*: a symbol table filled while the source is parsed and filled again by two
link passes, expression trees that rewrite themselves while they are
evaluated, a stack of half-read include files, globals (`code_org`,
`bkasm_stage`) that nobody resets, and an output file from the run before.  What
makes `rkaexchange` hard is the directory it shares with other processes: it puts
its text through a temporary file of a fixed name.  These modules model those
parts, check them with TLC on small instances and prove, with TLAPS, what holds
for every instance.

## 1. The system and its components

```
 source text --> inbuf --> lexer --> parser --> asmast (list of nodes) --> codegen_link --> prog.bin
                  ^                   |  |            |                      |   EVAL_STAGE
                  +---- INCLUDE ------+  |            v                      |   GENERATE_STAGE
                                         +--> asmvars / hashtbl <------------+
                                         +--> mathexpr (operands) <----------+
```

| component | files (`bkasm/src/`) | state | operations | what makes it correct |
|---|---|---|---|---|
| symbol table | `hashtbl.c`, `asmvars.c` | `asmvars[1024]` of (name, value) | `asmvars_add`, `asmvars_value`, in three stages | a name has one slot; a lookup finds what was stored, through collisions and wrap-around; names are lost only when the table is full |
| tree and linker | `asmast.c`, `codegen.c` | node list, `pc`, `code_org`, `prog[65536]` | `ast_add_statement`, `codegen_link` with one case per kind of node | both passes put every node at the same address; every byte is stored inside `prog[]`, at its address; errors stop the link |
| expressions | `mathexpr.c`, `nodes.c` | heap of `Expr` | `const_create`, `var_create`, `math_create_*`, `evaluate`, `math_free` | an evaluation returns the value of the expression as written however often it was folded; memory is freed exactly once |
| source reader | `inbuf.c` | current buffer, position, line number; frames of the including files | `inbuf_next_char`, `inbuf_push_file`, `inbuf_cleanup` | the text delivered is the source with every include in its place; line numbers; buffers owned by one frame |
| lexer | `lexer.c`, `bkints.c`, `symbols.c` | `ch`, `token` | `nextTok`, `skipOne`, `skipWhile`, `skipUntil` | no character is lost or read twice, also after errors |
| parser | `parser.c` | `error` | one function per construct | a statement becomes its nodes or an error that stops the link |
| program | `main.c`, `bkasm.c` | files, exit code | `main`, `exit_nicely` | an output file is complete or the exit code says so |
| messages | `errors.c`, `clog.h` | none | `throw_error` | prints only |
| `rkaexchange` | `rkaexchange/src/`: `edb.c`, `main.c`, `inbuf.c`, ... | files, a temporary file, stdio's and a 512-byte buffer | `pack`, `unpack`, `encode` | the output is the whole of the text in the other code, whoever is killed before or after; what was packed decodes to itself; no temporary file stays |

How they interact: the parser pulls characters through the lexer from
`inbuf`, pushes included files, and calls `ast_add_statement`, which stores
labels and EQUs in the symbol table at once.  `codegen_link` then walks the
node list twice; operands are evaluated through function pointers in the `Expr`
nodes, which read the symbol table.  Errors go to `throw_error`, which only
prints; what ends the run is a call of `exit_nicely`, which cleans up the
include stack.  `main` links when the parser has not set `Parser.error`, and
ends with 0 when nobody has called `exit_nicely` before.  The two programs share
no code and no state.

## 2. Modules

| module | models | role |
|---|---|---|
| `SymbolMap` | what the symbol table promises: a dictionary with room for `Capacity` names | abstract specification |
| `HashTbl` | `hashtbl.c`, `asmvars.c` | implements `SymbolMap` |
| `HashTblProofs` | theorems about `HashTbl` | TLAPS |
| `MCHashTbl` | instances: three slots, four names | TLC |
| `Ast` | nodes and operands (`nodes.h`, `mathexpr.h`), `evaluate` as a function of the table | data |
| `Assembly` | what an assembler promises: a program has one meaning, the output is its bytes; one step, no passes | abstract specification |
| `Linker` | `asmast.c`, `codegen.c` | uses `SymbolMap` for its table, implements `Assembly` |
| `LinkerProps` | the properties of `Linker` | |
| `LinkerProofs` | theorems about `Linker`, also that it implements `Assembly` | TLAPS |
| `MCLinker` | instances: sets of statements | TLC |
| `MathExpr` | `mathexpr.c` on the heap, with folding and `math_free` | checked by itself |
| `MathExprProofs` | theorems about `MathExpr` | TLAPS |
| `Inbuf`, `MCInbuf` | `inbuf.c`, the parser's INCLUDE, `exit_nicely`'s cleanup | checked against textual inclusion |
| `InbufProofs` | theorems about `Inbuf` | TLAPS |
| `Lexer` | `lexer.c`, `bkints.c`: the operations that move through the text | used by `Parser` |
| `Parser` | `parser.c` | reads what `Inbuf` delivers, makes what `Linker` links |
| `ParserProofs` | theorems about `Lexer` and `Parser` | TLAPS |
| `MCParser` | sources written by the grammar of `asmast.h`, with their meaning, and lines of random words | TLC |
| `Bkasm` | `main.c`, `bkasm.c`; the nodes of `Parser` as `Linker` takes them | composes `Parser`, `Linker` and the files |
| `BkasmProofs` | theorems about a run of `Bkasm` | TLAPS |
| `MCBkasm` | command lines and sources, with the bytes the manual gives them | TLC, against `Assembly` |
| `RkaText` | the character tables of `edb.c` as functions of a text | data |
| `RkaExchange` | `rkaexchange`: processes in one directory | checked against `RkaText` |
| `MCRka` | instances: pairs of processes, listings, tapes | TLC |
| `RkaProofs` | theorems about `RkaExchange` | TLAPS |
| `SeqLemmas` | lemmas about sets of naturals and sequences | TLAPS |

The chain is: `HashTbl` implements `SymbolMap`; `Linker` uses `SymbolMap` in
place of the table, and the function `Value` of `Ast` in place of the heap of
`MathExpr`, which shows that evaluation returns that value (`ValueKept`);
`Linker` implements `Assembly`.  `Parser` reads one sequence, the expanded text
that `Inbuf` is shown to deliver (`DeliversExpansion`).  `Bkasm` runs `Parser` and
`Linker` one after the other over one symbol table and one tree, and
`EndToEnd` compares the bytes in the output file with what `Assembly` says of the
*source*, without parser, tree or passes.

### HashTbl

`asmvars` is the array; a name is a model value.  `Home` is `hashf(key) %
size`, any function from names to slots; `Stored` is what `strncpy(.., 49)`
keeps of a name.  The two loops are not unrolled: `hash_push` acts on *the first*
slot along the probe path where its loop stops (`PushStop`) and does nothing
when it stops nowhere, and so does `hash_value` (`ValueStop`).  `ParseLabel` is
`ast_add_statement` for a label or an EQU, `LinkLabel` the same name met again
in a link pass, `Lookup` the evaluation of a variable, `NextStage` the loop of
`codegen_link`.  `exit_nicely` on a duplicate label is `outcome = "duplicate"`.

### Linker

One action for each kind of node in `codegen_evaluate_ast`.  Mnemonics that
`codegen.c` treats alike are one kind: `op` (one byte), `imm8`, `imm16`, `db`,
`dw`, `rst`, `org`, `ds`, `label`, `equ`.  In EVAL_STAGE code is only measured
(`MeasureCode`), in GENERATE_STAGE it is stored (`GenerateCode`) or refused
(`RefuseCode`: no room in `prog[]`, no immediate operand, out of range).
`SecondPass` resets `pc` and, like the code, leaves `code_org` alone.
`WriteOutput` is the `fwrite` of `pc - code_org` bytes, with what a negative
or too large count does.  `addr`, `reported` and `ub` are history variables:
the address of each node in the latest pass, the names complained of, and
whether `prog[]` was accessed outside its bounds.

`Assembly` has the programs this is promised for: `Legal` excludes forward
references in EQU, ORG and DS, undefined names, an ORG after code, RST with
anything but a number, and more names than the table holds; `Tame` excludes
negative space and negative words.  For the rest `ImplementsAssembly` and
`InsideProg` say nothing: not of code before the first ORG, which the second pass
stores relative to the last ORG of the first (`code_org` is kept), nor of
an ORG after code, whose `pc - code_org` may be negative when `prog[]` is indexed and
when it is the size given to `fwrite`.  The runs in section 4 that expect a violation show
some of what happens there (`linker_section` the kept `code_org`).  Beyond those,
a chain of forward EQUs (`X: EQU Y`, `Y: EQU Z`, ...) longer than the passes
leaves constants with old values, a DS at the end may take the program past
`MAX_PROG_SIZE` unnoticed (only code is compared with the limit), and
declarations beyond the table's size are dropped silently.

### MathExpr

Cells of the heap hold constants, variables and operations.  An evaluation is
a stack of activations of `math_evaluate_*`, each with the copy of the operands
(`props`) that the C code takes; `RightReturns` folds an operation
whose operands *have become* constants, as the code does after evaluating them.
`math_free` is a list of pending visits and releases.  `meaning` is history:
the value of each expression in every table, fixed when it was built.

### Inbuf

A file is a sequence of characters, line ends and INCLUDE directives (one item:
the parser pushes the file when the directive has been read, and has read no
character beyond it).  `PushFile` saves the place in the including file, takes
a block and starts at line 1; `Pop` restores; `PushFails` and
`ParserGivesUp` end the run through `inbuf_cleanup`.  `Expansion` is the
reference: textual inclusion to the depth that the frames allow.

### Lexer and Parser

The text is a sequence of items: words, digits, symbols, other characters (`Chars`;
`Ident` are the names, `Unknown` the characters that belong to nothing).  The
lexer is a record: how much has been read, the current character (`ch`), the
token, and, since both can end the program, whether the process still runs.  The
operations are operators from one such record to the next, with the names of
the code; `Follow` is the pair `skipWhile(' ')`, `nextTok` that the parser
calls all the time, `Pass` the same after a `skipOne`; `Then` only names an intermediate result.
The base of a number is told by the character behind its digits (`radix`,
`strtol`); B is a digit itself and never found there, so binary numbers cannot be
written (`101B` is decimal 101, the B of `10BH` is eleven).  The expression functions
call each other, so they are one recursive function, `parse`, of the construct and the
lexer; the loops of `parse_multiplication`, `parse_addition` and `parse_op` are
calls too (`Factors`, `Summands`, `DataList`).  Each kind of token that a statement can start with has one
action; what follows a label or END is the next action, as it is a call of
`parse_statement` in the place of a return.  After an exit the operations still
pending in an operator find the text at its end.  Of the symbol table the parser needs to know which
names are in it: the first `MAX_VAR_COUNT` that were declared (`Stored`).  History
is `taken`, where statements were started, `entered`, where the text of an included
file begins, and the lexer's `quoted`, what was read as part of a string; the
last two tell which line ends of the text end a line (`Breaks`).

What the parser does beyond the grammar follows from tokens read ahead, and is
part of the model: up to two words or numbers behind an operand are swallowed
(`ADI 5 6 7` is `ADI 5`, `DB 1 2` one byte; the suffix in `10H` is skipped
just so, and therefore `10H*2` is refused and `2*10H` is not); commas may be
missing or repeated; a list of DB may not begin with a parenthesis; a string
behind a complete operand reads from its *closing* quote on; `END;` makes the
comment a statement, since END skips one character, and END does not end
anything; a number, register or string where a statement should begin is an
assertion failure, and a number behind a complete statement a null pointer.  In one
place it does less than the grammar: `asmast.h:18` has a unary plus (`<addop> <term>`),
`parse_term` takes a minus only and exits at a plus.  The model does the same, and the
grammatical sources of `MCParser` have no unary plus, so `GrammarParsed`,
`GrammarAccepted` and `EndToEnd` are checked of the grammar without it.  Of
the messages only those for a stray symbol, an unknown keyword and a failed
INCLUDE set `Parser.error`; unknown names, unknown characters and unfit
operands leave it at 0, and the program is linked.

The outcomes of the model (normal end, exit or crash, whether a message was printed
and whether `main` would link) were compared with those of a compiled `bkasm` for
8471 sources of `MCParser` that include no file: they agree.

### Bkasm

One run, from the command line to the exit code.  `argv` and `disk` are the
world, `before` what was on the disk at the start; `main` says which function is active.  `CannotOpen` and `ReadSource` empty a named
output before anything is known of the input, as `fopen(.., "w")` does; `prog.bin`,
the output when none is named, is opened by `codegen_link` only.  `ParseStep` is a step of `Parser`
together with `StoreName`, the symbol table's share in `ast_add_statement`.
`LinkBegins` turns the nodes of the parser into those of the linker
(`Compiled`: the register bits are ORed into the opcode kept in the tree by each
of the two passes), and `LinkStep` is a step of `Linker`.

What a user meets here, all in the model: an error of the parser leaves exit code
0 and, when no output was named, the `prog.bin` of an earlier run
(`ParserRefused`; `SilentMeansFresh` says that a message at least is printed);
`bkasm a a` empties its own source before it is read, and succeeds; a
source larger than `MAX_PROG_SIZE` is cut without a word; operands that do not fit
(`INX A`, `MOV 5,A`) are complained of and linked.  `MAX_PROG_SIZE` bounds the
buffer of the source and `prog[]` alike; the model has a constant for each, since
its text is counted in items.

Exit code and the bytes of the output file were compared, for 10046 runs
of the model, with a `bkasm` compiled with 17 bytes of `prog[]` and 3 symbols,
the constants of the run: all are equal.  35 more were left out, because
they access `prog[]` outside its bounds.

### RkaText and RkaExchange

`RkaText` has the tables of `charCodeAt` and `getUnicodeSymbol` and what they make of a
text.  `charCodeAt` indexes, by byte, a table whose first rows are written in characters of two
and three bytes; the offset of 11 puts the letters right.  Bytes from 177 on
are looked up behind the table: what is there is the parameter `EncodeBehind`
(`DecodeBehind` for the other table).

`RkaExchange` runs processes over a directory of inodes.  Between two steps of a
process any step of another may come, so an action is at most one system call: an
`fopen`, one `read` or `write` of stdio's buffers (`Refill`, `WriteOut`,
`Rewind`, `ExitNicely`), `remove`; what happens in a process's own
memory (`EncodeByte`, `UnpackChar`, `CopyBlock`) is an action for one character
or block.  `Kill` may come anywhere.  Of `unpack` the model keeps the part of the
tape that the next character belongs to and how many of it were read.
`meddled` (another process has written or emptied one of my files) and `origin`
(what my input held when I opened it) are history; `Undisturbed` is what the
promises of a single run assume.

What a user meets here: two `pack`s at a time write each other's text (the
hazard that `Undisturbed` excludes; that both end, in the 12 pairs that are run, and
leave no file behind, holds even so);
the tests `fd_in < 0`, `fd_out < 0` of `main.c` compare pointers, so
a missing input is an assertion failure that leaves the temporary file and an
emptied output, and an output that cannot be created a null pointer (`NoOutput`,
`ExitFails`); a call without a command ends with exit code 0, the number of its error
(`E_CMDREQ`).  `pack` writes no header and `unpack` needs one, as the format
document admits, so `PackedDecodes` speaks of the characters only.

The code and `doc/RKA_FORMAT_SPEC.md` disagree on the Russian letters.  The document
puts the capitals at 80 to 9F, recognised by the high bit, leaves 60 to 7E to
ASCII (139-142, 148), and has `pack` make "r", "s", "t", ... of the second bytes 90, 91, 92, ...
(158, 159).  `edb.c` has the capitals at 60 to 7E and makes "a" of 90, and no code
has the high bit set.  The repository's own tape is on the side of the code: `test.rka`,
behind its header, decoded with the tables of `edb.c` is `test.asm` but for the first 11 bytes.
`PackedDecodes` therefore states what the code does, that a packed listing is in 7-bit codes
(`IsKoi7`) and decodes to itself; by the document's table no listing with Russian letters
would.  `OutputIsPrefix` and `ResultIsWhole` take the tables of the code
as the meaning of a text: they say that it is transported whole and in order, not that its
encoding is the documented one.

## 3. What is checked, and the bounds

| run | module | checks | bounds, and why they are enough |
|---|---|---|---|
| `hashtbl` | `MCHashTbl` | type; one slot per name; no gap on a probe path; names lost, and duplicates accepted, only because the table is full; link passes move nothing; implements `SymbolMap` | 3 slots, 4 names (one more than fits), 3 of them with home in the last slot so that paths wrap around and cross the home of the fourth, 5 declarations, 2 values: full table, duplicates of lost names and updates in all stages occur |
| `linker` | `MCLinker` | type; passes agree; accesses inside `prog[]`; undefined names reported; symbols settled; implements `Assembly`; the link ends | all programs of up to 4 statements out of 12 that move addresses, or out of 11 with values around -128, 255 and 256, undefined names, registers for immediates and RST 8; 6 bytes of `prog[]`, 2 names in the table, so that both limits are passed |
| `mathexpr` | `MathExpr` | no use after free; values kept under folding; one owner; nothing leaked; evaluation returns | 7 cells: every tree of up to 4 leaves, with 1 variable and 2 constants, so operations fold at once, late and never |
| `inbuf` | `MCInbuf` | delivers the expansion; line numbers; buffers; reading ends | 2 files of up to 3 items each or unreadable, 3 frames: self-inclusion, mutual inclusion, failure at every depth |
| `bkasm` | `MCBkasm` | type; grammatical lines become their nodes, without complaint, whatever stands around them; lines are taken one by one; every statement starts behind the one before; from source to file the bytes of the manual, or an error code; a refused program leaves no code; exit code 0 without a message means fresh output; the run ends | 720 expressions (every pair of terms under `+` and `-`, products of terms, three-term sums, nested signs and parentheses), each as an 8-bit and a 16-bit operand; the statements in 4 layouts beside 5 kinds of neighbour, as first line, behind a definition and at the head of an included file; all rows of up to 3 out of 14 words, spaced and tight, between good lines, and longer names and other bases behind 3 of them; 9 command lines with forward jumps, operands that do not fit and scrap.  Strings of up to 3 bytes, 17 bytes of `prog[]` and 3 names, all passed by some sources, and one source longer than the buffer |
| `rka` | `MCRka` | type; the output is a beginning of the result, and all of it at the exit; what was packed is 7-bit KOI7 and decodes to itself; no temporary file stays; processes end | two processes with 12 pairs of commands over common inputs and outputs; one process with 17 command lines, every byte, every printable character, tapes with names and zeros from none to one more than the limit.  2 bytes per read and write, names of 3, padding of 2: every text takes several reads, and every limit is passed |

The passing runs take from seconds to three minutes.  Deadlock is not checked,
since every one of these programs ends: a state without successor is a finished
or failed run.

Each property has a mutant: a variation of one definition, kept beside the
definition it varies (comment `Mutant:`), under which TLC finds the property
violated.

## 4. Runs that expect a violation

| run | what the repository says | what the code does |
|---|---|---|
| `hashtbl_long` | duplicate labels are an error (`tests/test_org_equ_range.py:69`) | the table keeps 49 characters of a name, `bkasm.h` allows 50: a 50-character label may be declared twice |
| `linker_shift` | a label is the current address (`doc/kr580vm80.md:159`) | a DS sized by a forward reference shifts the code between the passes, and a jump ahead of the label keeps the old address |
| `linker_section` | the output is the code from the ORG address on (`:163`) | a second ORG stores from `prog[0]` again, over the first section |
| `linker_negative` | words are little-endian (`:28`) | `value / 256` rounds towards zero: `DW 0-78` gives `B2 00` |
| `parser_margin` | a statement may have spaces before it (`src/asmast.h:3`) | the first line of a file is dropped when it is indented, with a message, and the rest is linked |
| `linker_restart` | RST n is `0xC7 + (n<<3)` (`:123`) | a constant's name as n is never evaluated and counts as 0 |

## 5. Fairness

`FairSpec` of `Linker` has weak fairness for `LinkStep` only: `codegen_link` is a
loop in a sequential program, and nothing else runs while it is in it.  Nothing
is assumed of how much source there is: that the link *begins* is not promised.
`MathExpr` has weak fairness for the steps of an evaluation that has begun,
`Inbuf` for reading: the parser asks for the next character until it
gets to an end; that the parser gives up before is possible at any time and
never required.  `Parser` assumes none: that it ends follows from
`StatementsAdvance`, a measure that grows with every step.  `Bkasm` has weak
fairness for `RunStep`, the one thread of the program, which does nothing else.
`RkaExchange` has it for each process's own `Step`, as a scheduler that runs
every process again and again; nobody has to be killed.

## 6. What is proved

Each of these theorems is about every value of the module's constants, and
about `Spec`, so it holds under `FairSpec` too.  The constants' assumptions are
the named ASSUMEs of the modules; TLC evaluates them in the runs.  Every inductive
invariant was checked on small instances before it was proved.

`HashTblProofs`, for every set of names, every hash function, every table
size and every number of declarations (assumed: a table of at least one slot,
homes inside it, marks that are no names):

- `TypeCorrect`: the types, without further assumptions.
- `TableSound`: the inductive invariant `TableInv`.  It is needed because none of
  the properties is inductive alone: that a name has one slot depends on paths
  without gaps (a second `hash_push` must meet the first entry before an empty
  slot), and paths without gaps depend on one slot per name and on the mark
  of a removed entry (`name[0] == -1`), which the code looks for, never being set.
- from it `OneSlot`, `NoGap`, `NothingLostBeforeFull`, `DuplicatesFound` and
  `Settled`, and `TableIsDictionary`: `HashTbl` implements `SymbolMap`.  The
  refinement rests on one count, that a table without an empty slot holds as many
  names as slots; each step is then a step of the dictionary or a stutter.

All but `TypeCorrect` assume `ShortNames` (no name is cut), which `hashtbl_long`
shows to be necessary.  The argument is in the lemmas: the probe path
visits every slot exactly once (`ProbeInjective`, `ProbeOnto`, from arithmetic
modulo the size); what `hash_push` does to each slot; then one step for each
action and conjunct.

`LinkerProofs`, for every set of names, every set of statements over them whose
operands are nested no deeper than those of `Ast` (`StatementsAssumption`,
`StatementsOver`; the parser nests to any depth), programs of any length, every size of
`prog[]` and of the table.  It begins with what it needs of the operators of `Ast`:
a value depends only on the variables the operand reads, and the size of a
node's code only on its kind.

- `TypeCorrect`.
- `LinkSound`: `LinkInv`, of four parts.  `TableInv` relates the table to the program (a
  name stored is one the program declares); `StageInv` says what is over in each
  stage; `WalkInv` that, without forward references in EQU, ORG and DS, the addresses met
  so far follow from the sizes and labels and EQUs have their final values;
  `ReportInv` that the names complained of are just those read without a slot.
- from it `SameAddresses` (`PassesAgree`), `ValuesSettled` (`SymbolsSettled`) and
  `ComplaintsComplete` (`UndefinedReported`).

- `NoStrayAccess` (`InsideProg`) and `LinkerImplementsAssembly`: all of the walk maps to a
  stutter, and the step in which it ends to the one step of `Assembly`.  The invariant
  `SpaceInv` adds to `LinkInv` what `code_org` is while the ORG is ahead or behind
  (`OriginInv`), the room that is left (`RoomInv`), that what was passed was fit to be put out
  (`FineInv`), and that `prog[]` holds the bytes of the statements passed, as
  `Assembly` counts them (`ImageInv`).

`MathExprProofs`, for expressions and evaluations of any number and a heap of any
size (`NumAssumption`: literals are integers, a null pointer is neither a cell nor
an integer):

- `TreesSound`: there is a division of the heap into the sets of cells below each cell,
  two of them nested or disjoint, in which the meaning of each cell is made of its
  operands' (`MeaningInv`), the stack of activations is a path down one tree
  (`StackInv`), and the pending releases are just what is still allocated
  (`FreeInv`).  The division stands for the recursion over trees, which no
  operator of the prover's could do.  That a folded operation keeps its meaning
  needs nearly all of them: the copy of the operands that an activation took before it
  evaluated them is still true only because what is folded meanwhile is in
  another tree.
- from it `TypeCorrect`, `NothingFreedIsUsed` (`NoFault`), `ValuesKept` (`ValueKept`),
  `OneOwnerEach` (`OneOwner`) and `AllFreed` (`NothingLeaked`).

`InbufProofs`, for every set of files with texts of any length and every
`MAX_INCLUDE_DEPTH` of at least one:

- `TypeCorrect`; with `FramesInv` (frames hold different buffers, and each knows a place in
  its text and the line of that place) `LinesCounted` (`LineIsRight`) and
  `BuffersFreedOnce` (`BuffersOwned`).
- `TextDelivered` (`DeliversExpansion`): what was delivered is the textual inclusion, for
  sources that include each other in any way.  The invariant `TextInv` says what had
  been delivered when each frame was begun: what the frame below had delivered
  when *it* was begun, its own text up to the INCLUDE, and the mark of that line.
  `Expansion` is a recursive function of depth and file; that its recursion is well
  founded, and so what it is at each argument, is proved by induction over the set
  of depths.

`RkaProofs`, for any number of processes over a finite directory of byte files, any
sizes of stdio's buffers, and any bytes behind the tables (`RkaAssumption`,
`BehindAssumption`):

- `TypeCorrect`, and `RkaSound`: `RkaInv`.  For each place in the program it says
  which FILEs a process holds (`OpensInv`), that what is in the input's buffer is
  what follows in the file (`InputInv`, `StdoutInv`), how far the text has got between
  input, buffers, temporary file and output (`TransferInv`), and who is still to
  remove the temporary file (`TmpInv`).  The statements about text are for
  processes that are `Undisturbed`, those about files for all.
- from it `PrefixWritten` (`OutputIsPrefix`), `ResultWritten` (`ResultIsWhole`),
  `PackedReadable` (`PackedDecodes`) and `TmpGone` (`TmpRemoved`).

`ParserProofs`, for every text, of any length and with any mistakes in it, and every set of
names (`CharAssumption`: names and unknown characters are no keywords, and no marks
of the reader; `MaxVarAssumption`):

- `ParserInvariant`: `ParserInv`.  Between two statements the reader is at the token
  that a statement starts with, or just behind it (`AtToken`), at the beginning nowhere
  else; an error was complained of; each statement has a place that was taken; and of
  the lines up to the current statement it says which were taken and what
  statements may have before them on their line (`LinesBefore`).  From it
  `ParserTypes` (`TypeOK`), `LinesTaken` (`LinesTakenOneByOne`) and `ParserAdvances`
  (`StatementsAdvance`).
- The argument goes up from the lexer: every operator goes forward in the text or
  ends the process, prints what it prints for good, and a token is made of the
  characters where it stands (`Inline`: and no line end is passed over).  The next level
  is that of expressions and lists.  `parse` and `DataList` are recursive functions on
  lexers, and it has to be shown first that there are such functions: with less of
  the text left at each inner call, there is a solution up to every remainder and
  they agree (`SolutionExists`, `ParseIs`, `ListSolutionExists`, `DataListIs`), by
  induction over the set of remainders.  Then each statement either goes on in its line
  with nothing but labels and spaces passed, begins the next line, or ends the
  process (`Moved`), and each of the three keeps what is said of the lines
  (`MovedKeeps`).
- What is needed and was not obvious: an included file's text begins a line although no line
  end stands before it (`entered`), a line end in a string ends none (`quoted`), and
  a statement after END begins behind the one character that END drops.

`BkasmProofs`, for every command line, every source, every set of files and of
files that can be created, every size of the buffer (`BufferAssumption`):

- `RunInvariant`: `RunInv`.  What each stage of `main` relies on: nothing is read before
  the files are open, the parser's invariant until its end, no error of the parser once
  the linker runs; the output file holds the linker's output just when the link has
  succeeded, and every other file is as it was.
- from it `SilenceMeansOutput` (`SilentMeansFresh`), `RefusalWritesNothing`
  (`RefusedWritesNothing`) and `OnlyOutputChanges` (`OthersKept`).  The first needs of
  the parser that an error is never set without a message, the second that the linker
  takes no step after its first outcome.
- `RunParses` (`TypeOK`, `LinesTakenOneByOne`) and `RunAdvances` (`StatementsAdvance`): what
  is proved of the parser alone holds in a run, whose text is what one `fread` of the
  input gave.

`SeqLemmas` has what `InbufProofs`, `RkaProofs` and `ParserProofs` need beside the libraries: induction
over a set of naturals, and that `FlattenSeq` of a longer sequence is that of the
shorter one with the last item behind.

Model-checked only: `GrammarParsed`, `GrammarAccepted` and `EndToEnd`, which compare a run with
the meaning that `MCParser` and `MCBkasm` give to the sources they make, and so speak of
those sources only; and all liveness (`LinkEnds`, `EvaluationReturns`, `ReadingEnds`,
`RunEnds`, `ProcessesEnd`), which is beyond the prover.

## 7. What is not modelled

Bytes 0 and 255 in a source (the lexer takes the one for a digit, the other for the
end of the file).  An operation where a
register belongs (`ADD 1+2`), whose bits would come from a pointer.  Printing
(`hash_printsorted`, `node_print`, the text of messages, the copy of the current line that
they quote) and the logger change no state.  Failures of `malloc` end the run at once.
Integers are unbounded: sums that overflow `int` are undefined behaviour and
need operands near 2^31.  In `rkaexchange` the line count of `inbuf.c` has no
reader, `set_error_dipatcher` no caller, and the errors beyond the first two are
never thrown; failures of reads and writes (a full disk) are looked at by neither
program and left out.

## 8. Plan

Done: the models of section 2, and the proofs of section 6, which cover every
invariant and action property that the passing runs check, but the three about the
sources of `MCParser` and `MCBkasm`, and both refinements.  What could follow: the step from
a line of the grammar to its nodes for lines of any length, which needs the grammar of
`asmast.h` as a definition of its own instead of a set of sources; and from there
`EndToEnd` for every program, with operands nested to any depth in `Ast`.
