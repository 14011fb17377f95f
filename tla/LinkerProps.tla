---------------------------- MODULE LinkerProps ----------------------------
(***************************************************************************)
(* What the linker of bkasm gets right, and, in the second half, what its  *)
(* manual says and the runs that expect a violation refute.                *)
(***************************************************************************)
EXTENDS Linker

Generating == outcome = "running" /\ bkasm_stage = GENERATE_STAGE

(* The two passes put every node at the same address: what GENERATE_STAGE  *)
(* emits is where the labels of EVAL_STAGE said it would be.               *)
PassesAgree ==
    Generating /\ NoForwardRefs(ast) => pc = addr[it]

(* GENERATE_STAGE stores every label and constant again (codegen.c:311,    *)
(* 314), with the value it already has.                                    *)
SymbolsSettled ==
    [][Generating /\ NoForwardRefs(ast) => UNCHANGED asmvars]_vars

(* A finished link has complained of every name that its operands read and *)
(* the table has no value for, and of no other; RST operands are not read. *)
UndefinedReported ==
    outcome = "linked" =>
        reported = (UNION {Reads(ast[i]) : i \in {j \in 1..Len(ast) :
                               ast[j].kind # "rst"}}) \ DOMAIN asmvars

Promise == INSTANCE Assembly WITH
    Limit <- MAX_PROG_SIZE, Capacity <- MAX_VAR_COUNT,
    program <- ast,
    phase <- CASE outcome = "running" -> "source"
               [] outcome = "linked" -> "done"
               [] outcome = "nofile" -> "nofile"
               [] OTHER -> "failed",
    env <- IF outcome \in {"running", "duplicate"} THEN <<>> ELSE asmvars,
    place <- IF outcome \in {"running", "duplicate"} THEN <<>> ELSE addr,
    image <- output

(* For a legal program every access to prog[] is inside it, in spite of    *)
(* the missing check of pc - code_org < 0 (codegen.c:23, 50, 62, 93).      *)
InsideProg ==
    Promise!Legal(ast) /\ ub =>
        ~Promise!SpaceIsReal(ast, asmvars, addr)

(* bkasm links a legal program as Assembly says, in two passes.            *)
ImplementsAssembly == Promise!Spec

(* Once it began, the link ends: with output or with an error.             *)
LinkEnds == bkasm_stage = EVAL_STAGE ~> outcome # "running"

-----------------------------------------------------------------------------
(* Statements of the manual that the code does not keep.                   *)

Linked == outcome = "linked"

(* The bytes of node i are where the last pass put node i.                 *)
Emitted(i, bytes) ==
    \A k \in DOMAIN bytes :
        LET x == addr[i] - code_org + k
        IN  x \in DOMAIN output /\ output[x] = bytes[k]

(* doc/kr580vm80.md:159: a label is the current address.  A jump to it     *)
(* holds an older address when DS has moved the code between the passes.   *)
JumpsReachTheirLabel ==
    Linked => \A i, j \in 1..Len(ast) :
        ast[i].kind = "imm16" /\ ast[j].kind = "label" /\ ast[i].arg = Var(ast[j].ident)
            => Emitted(i, <<ast[i].opcode>> \o Promise!Word(addr[j]))

(* doc/kr580vm80.md:163: the output is the machine code from the ORG       *)
(* address on.  A second ORG overwrites it from its first byte.            *)
OutputStartsAtOrg ==
    Linked /\ Len(ast) > 0 /\ ast[1].kind = "org" =>
        \A i \in 1..Len(ast) : ast[i].kind = "op" =>
            LET x == addr[i] - addr[2] + 1
            IN  x \in DOMAIN output /\ output[x] = ast[i].opcode

(* doc/kr580vm80.md:28: 16-bit data is little-endian.  The high byte of a  *)
(* negative word is one too high unless the low byte is 0.                 *)
WordsAreLittleEndian ==
    Linked => \A i \in 1..Len(ast) : ast[i].kind = "dw" =>
                  Emitted(i, Promise!Word(Value(ast[i].arg, asmvars)))

(* doc/kr580vm80.md:123: RST n is 0xC7 + (n << 3).  A constant's name as n *)
(* counts as 0.                                                            *)
RestartsEncodeTheirVector ==
    Linked => \A i \in 1..Len(ast) : ast[i].kind = "rst" =>
                  Emitted(i, <<199 + 8 * Value(ast[i].arg, asmvars)>>)
=============================================================================
