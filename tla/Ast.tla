-------------------------------- MODULE Ast --------------------------------
(***************************************************************************)
(* The statements bkasm's parser hands over (bkasm/src/nodes.h) and the    *)
(* operand expressions in them (bkasm/src/mathexpr.c): a constant, a       *)
(* register, a variable, or an operation on two expressions.  MathExpr     *)
(* models how an evaluation folds the tree that it walks.                  *)
(***************************************************************************)
EXTENDS Integers, Sequences

Const(n) == [type |-> "EXPR_CONST", value |-> n]
Reg(n) == [type |-> "EXPR_REG", value |-> n]
Var(id) == [type |-> "EXPR_VAR", ident |-> id]
Math(op, l, r) == [type |-> "EXPR_MATH", op |-> op, lparam |-> l, rparam |-> r]

(* The variables that an expression reads and its value (op.evaluate), for *)
(* expressions of up to three nested operations.  A variable that is not   *)
(* in the table counts as 0.                                               *)
AtomVars(e) == IF e.type = "EXPR_VAR" THEN {e.ident} ELSE {}

AtomValue(e, table) ==
    IF e.type # "EXPR_VAR" THEN e.value
    ELSE IF e.ident \in DOMAIN table THEN table[e.ident] ELSE 0

Nested(e, AtomOf(_), Join(_, _, _)) ==
    LET IsMath(x) == x.type = "EXPR_MATH"
        Of1(x) == IF IsMath(x) THEN Join(x.op, AtomOf(x.lparam), AtomOf(x.rparam)) ELSE AtomOf(x)
        Of2(x) == IF IsMath(x) THEN Join(x.op, Of1(x.lparam), Of1(x.rparam)) ELSE AtomOf(x)
    IN  IF IsMath(e) THEN Join(e.op, Of2(e.lparam), Of2(e.rparam)) ELSE AtomOf(e)

Calc(op, l, r) == CASE op = "+" -> l + r [] op = "-" -> l - r [] op = "*" -> l * r

VarsOf(e) == Nested(e, AtomVars, LAMBDA op, l, r : l \cup r)

Value(e, table) == Nested(e, LAMBDA x : AtomValue(x, table), Calc)

-----------------------------------------------------------------------------
(* Statements.  "op" stands for the instructions without immediate operand,*)
(* "imm8" and "imm16" for those followed by one and two operand bytes.     *)

Label(id) == [kind |-> "label", ident |-> id]
Equ(id, e) == [kind |-> "equ", ident |-> id, arg |-> e]
Org(e) == [kind |-> "org", arg |-> e]
Ds(e) == [kind |-> "ds", arg |-> e]
Db(e) == [kind |-> "db", arg |-> e]
Dw(e) == [kind |-> "dw", arg |-> e]
Rst(e) == [kind |-> "rst", arg |-> e]
Op(c) == [kind |-> "op", opcode |-> c]
Imm8(c, e) == [kind |-> "imm8", opcode |-> c, arg |-> e]
Imm16(c, e) == [kind |-> "imm16", opcode |-> c, arg |-> e]

(* What the parser builds: expressions over names, and statements of them. *)
AtomsOver(names) ==
    [type : {"EXPR_CONST", "EXPR_REG"}, value : Int] \cup [type : {"EXPR_VAR"}, ident : names]

OperationsOn(S) == S \cup [type : {"EXPR_MATH"}, op : {"+", "-", "*"}, lparam : S, rparam : S]

ExprsOver(names) == OperationsOn(OperationsOn(OperationsOn(AtomsOver(names))))

StatementsOver(names) ==
    [kind : {"label"}, ident : names]
    \cup [kind : {"equ"}, ident : names, arg : ExprsOver(names)]
    \cup [kind : {"org", "ds", "db", "dw", "rst"}, arg : ExprsOver(names)]
    \cup [kind : {"op"}, opcode : 0..255]
    \cup [kind : {"imm8", "imm16"}, opcode : 0..255, arg : ExprsOver(names)]

DeclKinds == {"label", "equ"}
CodeKinds == {"op", "imm8", "imm16", "db", "dw"}

CodeSize == [k \in CodeKinds |-> CASE k \in {"op", "db"} -> 1
                                   [] k \in {"imm8", "dw"} -> 2
                                   [] k = "imm16" -> 3]

(* The names a statement's operand reads.                                  *)
Reads(s) == IF s.kind \in {"label", "op"} THEN {} ELSE VarsOf(s.arg)

Declares(s, id) == s.kind \in DeclKinds /\ s.ident = id

(* The EQU, ORG and DS operands refer only to names declared before them,  *)
(* so that a single pass knows their values.                               *)
NoForwardRefs(prog) ==
    \A i \in 1..Len(prog) : prog[i].kind \in {"equ", "org", "ds"} =>
        \A id \in Reads(prog[i]) : \E j \in 1..(i-1) : Declares(prog[j], id)
=============================================================================
