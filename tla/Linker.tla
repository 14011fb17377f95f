------------------------------- MODULE Linker -------------------------------
(***************************************************************************)
(* The two-pass linker of bkasm: bkasm/src/asmast.c builds the tree while  *)
(* the source is parsed, bkasm/src/codegen.c walks it twice, in EVAL_STAGE *)
(* to give every label its address and in GENERATE_STAGE to write the      *)
(* bytes, and puts the result into the output file.  The symbol table is   *)
(* the dictionary of SymbolMap (see HashTbl for its implementation).       *)
(***************************************************************************)
EXTENDS Ast, FiniteSets

CONSTANTS
    Name,           \* identifiers
    Statements,     \* the statements programs are made of
    MaxNodes,       \* bound: statements in a program
    MAX_PROG_SIZE,  \* 65536 in bkasm.h
    MAX_VAR_COUNT,  \* 1024 in bkasm.h
    TOK_REGPC       \* the token number a label's target evaluates to

ASSUME SizesAssumption == /\ MAX_PROG_SIZE \in Nat \ {0}
                          /\ MAX_VAR_COUNT \in Nat \ {0}
                          /\ MaxNodes \in Nat
ASSUME RegPCAssumption == TOK_REGPC \in Int
ASSUME StatementsAssumption == Statements \subseteq StatementsOver(Name)

VARIABLES
    ast,            \* the statements, in program order
    asmvars,        \* the symbol table: names to values
    bkasm_stage,
    outcome,        \* "running", "linked", or why the run ended
    it,             \* the node codegen_link is at
    pc,
    code_org,
    prog,           \* unsigned char prog[MAX_PROG_SIZE]
    output,         \* what fwrite puts into the output file
    \* history:
    addr,           \* pc at each node, and at the end, in the latest pass there
    reported,       \* names reported as undefined
    ub              \* prog[] was accessed outside its bounds

vars == <<ast, asmvars, bkasm_stage, outcome, it, pc, code_org, prog, output,
          addr, reported, ub>>

PARSE_STAGE == 0
EVAL_STAGE == 1
GENERATE_STAGE == 2

Outcomes == {"running", "linked", "duplicate", "size", "range", "missing", "nofile"}

TypeOK ==
    /\ ast \in Seq(Statements)
    /\ DOMAIN asmvars \subseteq Name /\ \A n \in DOMAIN asmvars : asmvars[n] \in Int
    /\ bkasm_stage \in PARSE_STAGE..GENERATE_STAGE
    /\ outcome \in Outcomes
    /\ it \in 1..(Len(ast) + 1)
    /\ pc \in Int /\ code_org \in Int
    /\ prog \in [0..MAX_PROG_SIZE-1 -> 0..255]
    /\ output \in Seq(0..255)
    /\ addr \in Seq(Int)
    /\ reported \subseteq Name
    /\ ub \in BOOLEAN

(* asmvars_add, with its duplicate check in PARSE_STAGE.  Its answer to a  *)
(* lookup is used through Value, in Ast.                                   *)
Symbols == INSTANCE SymbolMap WITH
    Val <- Int, NoVal <- "none", Capacity <- MAX_VAR_COUNT,
    map <- asmvars, stage <- bkasm_stage,
    answer <- [code |-> 0, val |-> "none", complained |-> FALSE]

Init ==
    /\ ast = <<>>
    /\ Symbols!Init
    /\ it = 1 /\ pc = 0 /\ code_org = 0
    /\ prog = [a \in 0..MAX_PROG_SIZE-1 |-> 0]
    /\ output = <<>>
    /\ addr = <<>> /\ reported = {} /\ ub = FALSE

-----------------------------------------------------------------------------
(* ast_add_statement: the parser appends a node; a label or an EQU is also *)
(* given a first value, which is only TOK_REGPC for a label and takes      *)
(* undeclared names for 0.                                                 *)
AddStatement(s) ==
    /\ outcome = "running"
    /\ bkasm_stage = PARSE_STAGE
    /\ Len(ast) < MaxNodes
    /\ ast' = Append(ast, s)
    /\ CASE s.kind = "label" -> Symbols!Define(s.ident, TOK_REGPC)
         [] s.kind = "equ" -> Symbols!Define(s.ident, Value(s.arg, asmvars))
         [] OTHER -> UNCHANGED <<asmvars, outcome, bkasm_stage>>
    /\ UNCHANGED <<it, pc, code_org, prog, output, addr, reported, ub>>

(* codegen_link begins: the parser has seen the end of the source.         *)
LinkBegin ==
    /\ outcome = "running"
    /\ bkasm_stage = PARSE_STAGE
    /\ bkasm_stage' = EVAL_STAGE
    /\ UNCHANGED <<ast, asmvars, outcome, it, pc, code_org, prog, output, addr,
                   reported, ub>>

-----------------------------------------------------------------------------
(* codegen_evaluate_ast, one action per kind of node.                      *)

node == ast[it]
operand == Value(node.arg, asmvars)

Visiting(kinds) ==
    /\ outcome = "running"
    /\ bkasm_stage > PARSE_STAGE
    /\ it <= Len(ast)
    /\ node.kind \in kinds

LogPc == addr' = IF it <= Len(addr) THEN [addr EXCEPT ![it] = pc] ELSE Append(addr, pc)

Advance(newpc) ==
    /\ it' = it + 1
    /\ pc' = newpc
    /\ LogPc

(* Mutant: complaints are due after GENERATE_STAGE.                        *)
Report_TooLate ==
    reported' = IF bkasm_stage > GENERATE_STAGE
                  THEN reported \cup (Reads(node) \ DOMAIN asmvars) ELSE reported

(* var_evaluate complains of the variables that have no value.             *)
Report == reported' = reported \cup (Reads(node) \ DOMAIN asmvars)

VisitLabel ==
    /\ Visiting({"label"})
    /\ Symbols!Update(node.ident, pc)
    /\ Advance(pc)
    /\ UNCHANGED <<ast, code_org, prog, output, reported, ub>>

VisitEqu ==
    /\ Visiting({"equ"})
    /\ Symbols!Update(node.ident, operand)
    /\ Report
    /\ Advance(pc)
    /\ UNCHANGED <<ast, code_org, prog, output, ub>>

(* Mutant: pc does not follow code_org.                                    *)
VisitOrg_KeepPc ==
    /\ Visiting({"org"})
    /\ code_org' = operand
    /\ Report
    /\ Advance(pc)
    /\ UNCHANGED <<ast, asmvars, bkasm_stage, outcome, prog, output, ub>>

VisitOrg ==
    /\ Visiting({"org"})
    /\ code_org' = operand
    /\ Report
    /\ Advance(operand)
    /\ UNCHANGED <<ast, asmvars, bkasm_stage, outcome, prog, output, ub>>

VisitDs ==
    /\ Visiting({"ds"})
    /\ Report
    /\ Advance(pc + operand)
    /\ UNCHANGED <<ast, asmvars, bkasm_stage, outcome, code_org, prog, output, ub>>

(* Mutant: operand bytes do not count in the first pass.                   *)
MeasureCode_OpcodeOnly ==
    /\ Visiting(CodeKinds)
    /\ bkasm_stage = EVAL_STAGE
    /\ Report
    /\ Advance(pc + 1)
    /\ UNCHANGED <<ast, asmvars, bkasm_stage, outcome, code_org, prog, output, ub>>

(* The first pass only needs the size of an instruction.                   *)
MeasureCode ==
    /\ Visiting(CodeKinds)
    /\ bkasm_stage = EVAL_STAGE
    /\ Report
    /\ Advance(pc + CodeSize[node.kind])
    /\ UNCHANGED <<ast, asmvars, bkasm_stage, outcome, code_org, prog, output, ub>>

-----------------------------------------------------------------------------
(* codegen_generate.                                                       *)

(* Mutant: only the first byte has to fit.                                 *)
NoRoom_FirstByte(size) == pc - code_org + 1 > MAX_PROG_SIZE

NoRoom(size) == pc - code_org + size > MAX_PROG_SIZE

(* A register where an immediate operand belongs: immediate stays NULL.    *)
NoImmediate == node.kind \in {"imm8", "imm16"} /\ node.arg.type = "EXPR_REG"

OutOfRange == node.kind \in {"imm8", "db"} /\ operand \notin -128..255

(* Storing an int into an unsigned char, and C's division.                 *)
Byte(v) == v % 256
Quotient(v) == IF v >= 0 THEN v \div 256 ELSE -((-v) \div 256)

Bytes ==
    CASE node.kind = "op"    -> <<node.opcode>>
      [] node.kind = "imm8"  -> <<node.opcode, Byte(operand)>>
      [] node.kind = "imm16" -> <<node.opcode, Byte(operand), Byte(Quotient(operand))>>
      [] node.kind = "db"    -> <<Byte(operand)>>
      [] node.kind = "dw"    -> <<Byte(operand), Byte(Quotient(operand))>>

(* prog[pc - code_org + i] = bytes[i]; what lies around prog is not        *)
(* modelled, only that it was written.                                     *)
Store(bytes) ==
    /\ prog' = [a \in DOMAIN prog |->
                  LET i == a - (pc - code_org) + 1
                  IN  IF i \in DOMAIN bytes THEN bytes[i] ELSE prog[a]]
    /\ ub' = (ub \/ pc < code_org \/ pc - code_org + Len(bytes) > MAX_PROG_SIZE)

GenerateCode ==
    /\ Visiting(CodeKinds)
    /\ bkasm_stage = GENERATE_STAGE
    /\ ~NoRoom(CodeSize[node.kind]) /\ ~NoImmediate /\ ~OutOfRange
    /\ Store(Bytes)
    /\ Report
    /\ Advance(pc + CodeSize[node.kind])
    /\ UNCHANGED <<ast, asmvars, bkasm_stage, outcome, code_org, output>>

(* throw_error, then exit_nicely(E_LINKERERROR).                           *)
RefuseCode ==
    /\ Visiting(CodeKinds)
    /\ bkasm_stage = GENERATE_STAGE
    /\ \/ NoRoom(CodeSize[node.kind]) /\ outcome' = "size"
       \/ ~NoRoom(CodeSize[node.kind]) /\ NoImmediate /\ outcome' = "missing"
       \/ /\ ~NoRoom(CodeSize[node.kind]) /\ ~NoImmediate /\ OutOfRange
          /\ outcome' = "range"
    /\ Report
    /\ LogPc
    /\ UNCHANGED <<ast, asmvars, bkasm_stage, it, pc, code_org, prog, output, ub>>

(* RST looks at data.value and evaluates nothing: a variable's is 0 as     *)
(* var_create left it, a sum's is the address of an operand, which is no   *)
(* number from 0 to 7.                                                     *)
RstVector == IF node.arg.type = "EXPR_VAR" THEN 0 ELSE node.arg.value
(* Mutant: vector 8 passes.                                                *)
RstValid_UpTo8 == node.arg.type # "EXPR_MATH" /\ RstVector \in 0..8

RstValid == node.arg.type # "EXPR_MATH" /\ RstVector \in 0..7

VisitRst ==
    /\ Visiting({"rst"})
    /\ RstValid
    /\ IF bkasm_stage = GENERATE_STAGE
         THEN ~NoRoom(1) /\ Store(<<199 + 8 * RstVector>>)
         ELSE UNCHANGED <<prog, ub>>
    /\ Advance(pc + 1)
    /\ UNCHANGED <<ast, asmvars, bkasm_stage, outcome, code_org, output, reported>>

RefuseRst ==
    /\ Visiting({"rst"})
    /\ \/ ~RstValid /\ outcome' = "range"
       \/ RstValid /\ bkasm_stage = GENERATE_STAGE /\ NoRoom(1) /\ outcome' = "size"
    /\ LogPc
    /\ UNCHANGED <<ast, asmvars, bkasm_stage, it, pc, code_org, prog, output,
                   reported, ub>>

-----------------------------------------------------------------------------
(* codegen_link between the passes and after them.                         *)

AtEnd == outcome = "running" /\ bkasm_stage > PARSE_STAGE /\ it > Len(ast)

(* Mutant: the second pass goes on at the address where the first ended.   *)
SecondPass_KeepPc ==
    /\ AtEnd
    /\ bkasm_stage = EVAL_STAGE
    /\ bkasm_stage' = GENERATE_STAGE
    /\ it' = 1
    /\ LogPc
    /\ UNCHANGED <<ast, asmvars, outcome, pc, code_org, prog, output, reported, ub>>

(* Mutant: the first pass is started again.                                *)
SecondPass_SameStage ==
    /\ AtEnd
    /\ bkasm_stage = EVAL_STAGE
    /\ pc' = 0
    /\ it' = 1
    /\ LogPc
    /\ UNCHANGED <<ast, asmvars, bkasm_stage, outcome, code_org, prog, output,
                   reported, ub>>

(* code_org keeps the value the first pass left there.                     *)
SecondPass ==
    /\ AtEnd
    /\ bkasm_stage = EVAL_STAGE
    /\ bkasm_stage' = GENERATE_STAGE
    /\ pc' = 0
    /\ it' = 1
    /\ LogPc
    /\ UNCHANGED <<ast, asmvars, outcome, code_org, prog, output, reported, ub>>

codesize == pc - code_org

(* fwrite(prog, 1, codesize, file): a negative count is a huge size_t and  *)
(* nothing gets written; past the end of prog it reads what follows.       *)
WriteOutput ==
    /\ AtEnd
    /\ bkasm_stage = GENERATE_STAGE
    /\ outcome' = "linked"
    /\ output' = [i \in 1..(CASE codesize < 0 -> 0
                              [] codesize > MAX_PROG_SIZE -> MAX_PROG_SIZE
                              [] OTHER -> codesize) |-> prog[i - 1]]
    /\ ub' = (ub \/ codesize > MAX_PROG_SIZE)
    /\ LogPc
    /\ UNCHANGED <<ast, asmvars, bkasm_stage, it, pc, code_org, prog, reported>>

(* fopen("prog.bin", "wb") fails.                                          *)
CannotCreate ==
    /\ AtEnd
    /\ bkasm_stage = GENERATE_STAGE
    /\ outcome' = "nofile"
    /\ LogPc
    /\ UNCHANGED <<ast, asmvars, bkasm_stage, it, pc, code_org, prog, output,
                   reported, ub>>

LinkStep ==
    \/ VisitLabel \/ VisitEqu \/ VisitOrg \/ VisitDs
    \/ MeasureCode \/ GenerateCode \/ RefuseCode
    \/ VisitRst \/ RefuseRst
    \/ SecondPass \/ WriteOutput \/ CannotCreate

Next == (\E s \in Statements : AddStatement(s)) \/ LinkBegin \/ LinkStep

Spec == Init /\ [][Next]_vars

(* A sequential program: once codegen_link runs, its next step is taken.   *)
FairSpec == Spec /\ WF_vars(LinkStep)
=============================================================================
