-------------------------------- MODULE Bkasm -------------------------------
(***************************************************************************)
(* The whole of bkasm (bkasm/src/main.c): one run of the program, from the *)
(* command line to the exit code.  main opens the files, reads the source, *)
(* has it parsed (module Parser), and unless the parser set its error has  *)
(* it linked (module Linker).  The modules meet in the tree, whose nodes   *)
(* the linker takes as codegen_evaluate_ast sees them, and in the symbol   *)
(* table, into which the parser stores every name at once.                 *)
(***************************************************************************)
EXTENDS Parser, FiniteSetsExt

CONSTANTS
    MAX_PROG_SIZE,  \* 65536 in bkasm.h: the size of prog[]
    MAX_TEXT,       \* the same constant as the size of buf[], in items of the text
    TOK_REGPC,      \* the token number a label's target evaluates to
    Creatable       \* the files that fopen can open for writing

ASSUME BufferAssumption == MAX_TEXT \in Nat

VARIABLES
    argv,           \* without the program's own name
    before,         \* history: the disk when the program was started
    disk,           \* the files and what is in them
    main,           \* where main is: "start", "parsing", "linking", "ended"
    code,           \* the exit code, NoCode while the program runs
    tree,           \* the nodes as the linker takes them, once it has begun
    \* the linker's:
    asmvars, bkasm_stage, outcome, it, pc, code_org, prog, output,
    addr, reported, ub

linkvars == <<asmvars, bkasm_stage, outcome, it, pc, code_org, prog, output,
              addr, reported, ub>>
command == <<argv, before>>
bkvars == <<vars, command, disk, main, code, tree, linkvars>>

NoCode == -1

E_SUCCESS == 0
E_UNKIDENT == 1
E_UNEXPSYM == 2
E_UNEXPTOKEN == 3
E_SYNTAXERROR == 5
E_LINKERERROR == 6
MinusOne == 255     \* exit_nicely(-1)
Killed == 128       \* a signal: an assertion or a bad pointer

-----------------------------------------------------------------------------
(* The nodes as the linker takes them.                                     *)

(* The opcodes of the keyword table.                                       *)
opcode == [NOP |-> 0, MOV |-> 64, ADD |-> 128, INX |-> 3, PUSH |-> 197,
           ADI |-> 198, MVI |-> 6, LXI |-> 1]

(* data.value of an operand: a variable's is 0.  An operation has pointers *)
(* there; operations in the place of a register are not in the sources.    *)
DataValue(e) == IF e.type \in {"EXPR_REG", "EXPR_CONST"} THEN e.value ELSE 0

(* The | of C, for numbers that are not negative.                          *)
Bit(n, i) == (n \div 2^i) % 2
Or(m, n) == MapThenSumSet(LAMBDA i : IF Bit(m, i) = 1 \/ Bit(n, i) = 1 THEN 2^i ELSE 0, 0..30)

RegisterBits(n) ==
    CASE n.op = "MOV" -> Or(8 * DataValue(n.lparam), DataValue(n.rparam))
      [] n.op = "ADD" -> DataValue(n.lparam)
      [] n.op \in {"INX", "PUSH", "MVI", "LXI"} -> 8 * DataValue(n.lparam)
      [] OTHER -> 0

(* Mutant: each pass adds the bits.                                        *)
Encoded_Added(n) == opcode[n.op] + RegisterBits(n) + RegisterBits(n)

(* Each of the two passes ORs the bits into the opcode of the node; when   *)
(* the second one stores it, it has done so twice.                         *)
Encoded(n) == Or(Or(opcode[n.op], RegisterBits(n)), RegisterBits(n))

(* The second operand unless it is missing or a register, or the first     *)
(* unless that one is a register.                                          *)
Immediate(n) == IF n.rparam.type \notin {"NULL", "EXPR_REG"} THEN n.rparam ELSE n.lparam

(* What codegen_evaluate_ast makes of a node.  A keyword that is no        *)
(* instruction gets a message there and no room.                           *)
Compiled(n) ==
    CASE n.kind \in DeclKinds -> n
      [] n.kind \notin DeclKinds ->
            CASE n.op \in {"NOP", "MOV", "ADD", "INX", "PUSH"} -> Op(Encoded(n))
              [] n.op \in {"ADI", "MVI"} -> Imm8(Encoded(n), Immediate(n))
              [] n.op = "LXI" -> Imm16(Encoded(n), Immediate(n))
              [] n.op = "DB" -> Db(n.lparam)
              [] n.op = "DW" -> Dw(n.lparam)
              [] n.op = "ORG" -> Org(n.lparam)
              [] n.op = "DS" -> Ds(n.lparam)
              [] OTHER -> Ds(Const(0))

Link == INSTANCE Linker WITH ast <- tree, Name <- {}, Statements <- {}, MaxNodes <- 0

-----------------------------------------------------------------------------
(* main: the files.                                                        *)

infile == IF Len(argv) = 0 THEN "stdin" ELSE argv[1]
outfile == IF Len(argv) < 2 THEN "prog.bin" ELSE argv[2]

Store(f, bytes) == [g \in DOMAIN disk \cup {f} |-> IF g = f THEN bytes ELSE disk[g]]

(* The disk when both files have been opened.  The output is emptied, also *)
(* when it is the input; prog.bin is only opened to be written.            *)
Opened == IF Len(argv) >= 2 /\ argv[2] \in Creatable THEN Store(argv[2], <<>>) ELSE disk

RunInit ==
    /\ text = <<>> /\ lexer = NewLexer /\ error = NoError
    /\ ast = <<>> /\ taken = {} /\ entered = {}
    /\ tree = <<>>
    /\ Link!Init
    /\ main = "start" /\ code = NoCode
    /\ before = disk

(* Any command line and any files, the input being a text.                 *)
RunStart ==
    /\ RunInit
    /\ argv \in Seq(STRING)
    /\ infile \in DOMAIN disk => disk[infile] \in Source

Ends(c) == main' = "ended" /\ code' = c

AsksForHelp == Len(argv) >= 1 /\ argv[1] \in {"--help", "-h"}

Help ==
    /\ main = "start"
    /\ AsksForHelp
    /\ Ends(E_SUCCESS)
    /\ UNCHANGED <<vars, command, disk, tree, linkvars>>

CannotOpen ==
    /\ main = "start"
    /\ ~AsksForHelp
    /\ infile \notin DOMAIN disk \/ (Len(argv) >= 2 /\ outfile \notin Creatable)
    /\ disk' = Opened
    /\ Ends(MinusOne)
    /\ UNCHANGED <<vars, command, tree, linkvars>>

(* One fread of at most MAX_PROG_SIZE characters.                          *)
Read(file) == IF Len(file) <= MAX_TEXT THEN file ELSE SubSeq(file, 1, MAX_TEXT)

ReadSource ==
    /\ main = "start"
    /\ ~AsksForHelp
    /\ infile \in DOMAIN disk /\ (Len(argv) < 2 \/ outfile \in Creatable)
    /\ disk' = Opened
    /\ text' = Read(Opened[infile])
    /\ lexer' = Loop(NewLexer)'
    /\ main' = "parsing"
    /\ UNCHANGED <<error, ast, taken, entered, command, code, tree, linkvars>>

-----------------------------------------------------------------------------
(* main: the parser and the linker.                                        *)

(* ast_add_statement gives a declared name its first value.                *)
StoreName ==
    IF Len(ast') = Len(ast) \/ Last(ast').node.kind \notin DeclKinds
      THEN UNCHANGED linkvars
      ELSE /\ LET new == Last(ast').node
              IN  Link!Symbols!Define(new.ident, IF new.kind = "label" THEN TOK_REGPC
                                                 ELSE Value(new.arg, asmvars))
           /\ UNCHANGED <<it, pc, code_org, prog, output, addr, reported, ub>>

ParseStep ==
    /\ main = "parsing"
    /\ Next
    /\ StoreName
    /\ UNCHANGED <<command, disk, main, code, tree>>

(* asmvars_add, the lexer and the parser leave with different codes.       *)
ParserExits ==
    /\ main = "parsing"
    /\ lexer.process = "exited"
    /\ \E c \in (IF outcome = "duplicate" THEN {E_LINKERERROR}
                 ELSE {E_UNKIDENT, E_UNEXPSYM, E_UNEXPTOKEN, E_SYNTAXERROR}) : Ends(c)
    /\ UNCHANGED <<vars, command, disk, tree, linkvars>>

ParserCrashes ==
    /\ main = "parsing"
    /\ lexer.process = "crashed"
    /\ Ends(Killed)
    /\ UNCHANGED <<vars, command, disk, tree, linkvars>>

(* No link, and no exit code that would say so.                            *)
ParserRefused ==
    /\ main = "parsing"
    /\ lexer.process = "done"
    /\ error # NoError
    /\ Ends(E_SUCCESS)
    /\ UNCHANGED <<vars, command, disk, tree, linkvars>>

(* Mutant: Parser.error is not looked at.                                  *)
LinkBegins_Always ==
    /\ main = "parsing"
    /\ lexer.process = "done"
    /\ main' = "linking"
    /\ tree' = [i \in DOMAIN ast |-> Compiled(ast[i].node)]
    /\ bkasm_stage' = Link!EVAL_STAGE
    /\ UNCHANGED <<vars, command, disk, code, asmvars, outcome, it, pc, code_org, prog, output,
                   addr, reported, ub>>

LinkBegins ==
    /\ main = "parsing"
    /\ lexer.process = "done"
    /\ error = NoError
    /\ main' = "linking"
    /\ tree' = [i \in DOMAIN ast |-> Compiled(ast[i].node)]
    /\ bkasm_stage' = Link!EVAL_STAGE
    /\ UNCHANGED <<vars, command, disk, code, asmvars, outcome, it, pc, code_org, prog, output,
                   addr, reported, ub>>

(* The output goes to the file that main opened; prog.bin is opened here,  *)
(* which may fail.                                                         *)
LinkStep ==
    /\ main = "linking"
    /\ UNCHANGED <<vars, command, main, code>>
    /\ Link!LinkStep
    /\ outcome' = "nofile" => Len(argv) < 2
    /\ disk' = IF outcome' = "linked" THEN Store(outfile, output') ELSE disk

LinkReturns ==
    /\ main = "linking"
    /\ outcome # "running"
    /\ Ends(IF outcome = "linked" THEN E_SUCCESS ELSE E_LINKERERROR)
    /\ UNCHANGED <<vars, command, disk, tree, linkvars>>

RunStep ==
    \/ Help \/ CannotOpen \/ ReadSource
    \/ ParseStep \/ ParserExits \/ ParserCrashes \/ ParserRefused
    \/ LinkBegins \/ LinkStep \/ LinkReturns

RunSpec == RunStart /\ [][RunStep]_bkvars

(* A sequential program: while it runs, it takes its next step.            *)
Fairness == WF_bkvars(RunStep)

-----------------------------------------------------------------------------
(* A run that ends with exit code 0 and without any message has written    *)
(* this program's code: it was parsed to its end and linked.               *)
SilentMeansFresh ==
    main = "ended" /\ code = E_SUCCESS /\ ~AsksForHelp /\ ~lexer.told /\ reported = {}
        => outcome = "linked" /\ disk[outfile] = output

(* A program that is refused leaves no code: when the parser has set its   *)
(* error or the run has ended with an error code, every file is what it    *)
(* was before, but the one that was named is empty if it could be opened.  *)
RefusedWritesNothing ==
    error # NoError \/ code > E_SUCCESS =>
        \A f \in DOMAIN disk : \/ f \in DOMAIN before /\ disk[f] = before[f]
                               \/ f = outfile /\ disk[f] = <<>>

(* Every run of the program ends.                                          *)
RunEnds == main = "start" ~> main = "ended"
=============================================================================
