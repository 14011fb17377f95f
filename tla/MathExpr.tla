------------------------------ MODULE MathExpr ------------------------------
(***************************************************************************)
(* Operand expressions on the heap: bkasm/src/mathexpr.c.  The parser      *)
(* builds a tree bottom-up, the linker evaluates it any number of times    *)
(* while the symbol table changes, and an evaluation rewrites the tree: an *)
(* operation whose operands have become constants turns into a constant in *)
(* place and frees them.  nodelist_destroy frees what is left.             *)
(***************************************************************************)
EXTENDS Integers, SequencesExt

CONSTANTS
    Cell,       \* addresses malloc can return; bounds the size of a tree
    Id,         \* variables
    Num,        \* constants and values of variables
    Null

ASSUME NumAssumption == Num \subseteq Int /\ Null \notin Cell /\ Null \notin Int

Ops == {"+", "-", "*"}

Calc(op, l, r) == CASE op = "+" -> l + r [] op = "-" -> l - r [] op = "*" -> l * r

VARIABLES
    heap,       \* [Cell -> Expr, or a cell that malloc does not hold]
    operands,   \* the expressions the parser has in hand
    table,      \* asmvars: the value of each variable
    phase,      \* "parse", "idle", "evaluate", "free", "end"
    callee,     \* the expression whose evaluate was just called
    frames,     \* activations of math_evaluate_*, the innermost last
    ret,        \* the value just returned
    todo,       \* pending steps of math_free, the next one first
    meaning,    \* history: what each expression is worth in each table
    fault       \* history: a freed cell was read, or freed again

vars == <<heap, operands, table, phase, callee, frames, ret, todo, meaning, fault>>

Free == [type |-> "FREE"]
ConstCell(n) == [type |-> "EXPR_CONST", value |-> n]
VarCell(id) == [type |-> "EXPR_VAR", ident |-> id]
MathCell(op, l, r) == [type |-> "EXPR_MATH", opcode |-> op, lparam |-> l, rparam |-> r]

Tables == [Id -> Num]
Live(c) == heap[c].type # "FREE"

Init ==
    /\ heap = [c \in Cell |-> Free]
    /\ operands = <<>>
    /\ table \in Tables
    /\ phase = "parse"
    /\ callee = Null /\ frames = <<>> /\ ret = Null /\ todo = <<>>
    /\ meaning = [c \in Cell |-> [t \in Tables |-> 0]]
    /\ fault = FALSE

Quiet == UNCHANGED <<table, callee, frames, ret, todo, fault>>

(* malloc for a new expression; which free cell it gets does not matter.   *)
Alloc(c, expr, worth) ==
    /\ ~Live(c)
    /\ c = CHOOSE f \in Cell : ~Live(f)
    /\ heap' = [heap EXCEPT ![c] = expr]
    /\ meaning' = [meaning EXCEPT ![c] = worth]

const_create(n) ==
    /\ phase = "parse"
    /\ \E c \in Cell : /\ Alloc(c, ConstCell(n), [t \in Tables |-> n])
                       /\ operands' = Append(operands, c)
    /\ UNCHANGED phase
    /\ Quiet

var_create(id) ==
    /\ phase = "parse"
    /\ \E c \in Cell : /\ Alloc(c, VarCell(id), [t \in Tables |-> t[id]])
                       /\ operands' = Append(operands, c)
    /\ UNCHANGED phase
    /\ Quiet

(* math_create_*, setlparam and setrparam: the two expressions last parsed *)
(* become the operands of a new one.                                       *)
math_create(op) ==
    /\ phase = "parse"
    /\ Len(operands) >= 2
    /\ LET n == Len(operands)
           l == operands[n - 1]
           r == operands[n]
       IN  \E c \in Cell :
             /\ Alloc(c, MathCell(op, l, r),
                      [t \in Tables |-> Calc(op, meaning[l][t], meaning[r][t])])
             /\ operands' = Append(SubSeq(operands, 1, n - 2), c)
    /\ UNCHANGED phase
    /\ Quiet

Parsed ==
    /\ phase = "parse"
    /\ Len(operands) = 1
    /\ phase' = "idle"
    /\ UNCHANGED <<heap, operands, meaning>>
    /\ Quiet

-----------------------------------------------------------------------------
(* op.evaluate                                                             *)

root == operands[1]
top == frames[Len(frames)]

Evaluate ==
    /\ phase = "idle"
    /\ phase' = "evaluate"
    /\ callee' = root
    /\ ret' = Null
    /\ UNCHANGED <<heap, operands, table, frames, todo, meaning, fault>>

(* const_evaluate, var_evaluate.                                           *)
EvaluateLeaf ==
    /\ callee # Null
    /\ heap[callee].type # "EXPR_MATH"
    /\ fault' = (fault \/ ~Live(callee))
    /\ ret' = CASE heap[callee].type = "EXPR_CONST" -> heap[callee].value
                [] heap[callee].type = "EXPR_VAR" -> table[heap[callee].ident]
                [] OTHER -> 0
    /\ callee' = Null
    /\ UNCHANGED <<heap, operands, table, phase, frames, todo, meaning>>

(* math_evaluate_* copies data.mathExpr and evaluates lparam first.        *)
EvaluateMath ==
    /\ callee # Null
    /\ heap[callee].type = "EXPR_MATH"
    /\ frames' = Append(frames, [self |-> callee, props |-> heap[callee], lvalue |-> Null])
    /\ callee' = heap[callee].lparam
    /\ UNCHANGED <<heap, operands, table, phase, ret, todo, meaning, fault>>

(* Mutant: the left operand is evaluated again and again.                  *)
LeftReturns_Again ==
    /\ ret # Null /\ frames # <<>> /\ top.lvalue = Null
    /\ ret' = Null
    /\ callee' = top.props.lparam
    /\ UNCHANGED <<heap, operands, table, phase, frames, todo, meaning, fault>>

LeftReturns ==
    /\ ret # Null /\ frames # <<>> /\ top.lvalue = Null
    /\ frames' = [frames EXCEPT ![Len(frames)].lvalue = ret]
    /\ ret' = Null
    /\ callee' = top.props.rparam
    /\ UNCHANGED <<heap, operands, table, phase, todo, meaning, fault>>

(* Mutant: one constant operand is enough.                                 *)
Foldable_LeftOnly == heap[top.props.lparam].type = "EXPR_CONST"

(* Folding: both operands are constants, which may be so since a moment    *)
(* ago only; the operation becomes one and its operands are freed.         *)
Foldable == /\ heap[top.props.lparam].type = "EXPR_CONST"
            /\ heap[top.props.rparam].type = "EXPR_CONST"

(* Mutants: the value is not stored; the type is not changed.              *)
Folded_NoValue(result) == ConstCell(Null)
Folded_StillMath(result) == heap[top.self]

Folded(result) == ConstCell(result)

(* Mutant: the right operand is forgotten.                                 *)
FoldFrees_LeftOnly == {top.props.lparam}

FoldFrees == {top.props.lparam, top.props.rparam}

RightReturns ==
    /\ ret # Null /\ frames # <<>> /\ top.lvalue # Null
    /\ LET result == Calc(top.props.opcode, top.lvalue, ret)
       IN  /\ ret' = result
           /\ heap' = IF Foldable
                        THEN [c \in Cell |-> CASE c = top.self -> Folded(result)
                                               [] c \in FoldFrees -> Free
                                               [] OTHER -> heap[c]]
                        ELSE heap
    /\ fault' = (fault \/ \E c \in {top.self} \cup FoldFrees : ~Live(c))
    /\ frames' = Front(frames)
    /\ UNCHANGED <<operands, table, phase, callee, todo, meaning>>

Evaluated ==
    /\ phase = "evaluate" /\ ret # Null /\ frames = <<>>
    /\ phase' = "idle"
    /\ UNCHANGED <<heap, operands, table, callee, frames, ret, todo, meaning, fault>>

(* Between evaluations the linker stores labels.                           *)
StoreLabel(id, n) ==
    /\ phase = "idle"
    /\ table[id] # n
    /\ table' = [table EXCEPT ![id] = n]
    /\ ret' = Null
    /\ UNCHANGED <<heap, operands, phase, callee, frames, todo, meaning, fault>>

-----------------------------------------------------------------------------
(* math_free, called for the root by node_clear.                           *)

Visit(c) == [do |-> "visit", cell |-> c]
Release(c) == [do |-> "release", cell |-> c]

(* Mutant: the right operand is forgotten.                                 *)
Below_LeftOnly(e) == <<Visit(e.lparam)>>

Below(e) == <<Visit(e.lparam), Visit(e.rparam)>>

math_free ==
    /\ phase = "idle"
    /\ phase' = "free"
    /\ todo' = <<Visit(root)>>
    /\ ret' = Null
    /\ UNCHANGED <<heap, operands, table, callee, frames, meaning, fault>>

FreeStep ==
    /\ phase = "free" /\ todo # <<>>
    /\ LET c == Head(todo).cell
           e == heap[c]
       IN  /\ fault' = (fault \/ ~Live(c))
           /\ IF Head(todo).do = "visit" /\ e.type = "EXPR_MATH"
                THEN /\ todo' = Below(e) \o <<Release(c)>> \o Tail(todo)
                     /\ UNCHANGED heap
                ELSE /\ todo' = Tail(todo)
                     /\ heap' = [heap EXCEPT ![c] = Free]
    /\ UNCHANGED <<operands, table, phase, callee, frames, ret, meaning>>

Freed ==
    /\ phase = "free" /\ todo = <<>>
    /\ phase' = "end"
    /\ UNCHANGED <<heap, operands, table, callee, frames, ret, todo, meaning, fault>>

Next ==
    \/ \E n \in Num : const_create(n)
    \/ \E id \in Id : var_create(id)
    \/ \E op \in Ops : math_create(op)
    \/ Parsed
    \/ Evaluate \/ EvaluateLeaf \/ EvaluateMath \/ LeftReturns \/ RightReturns \/ Evaluated
    \/ \E id \in Id, n \in Num : StoreLabel(id, n)
    \/ math_free \/ FreeStep \/ Freed

Running == EvaluateLeaf \/ EvaluateMath \/ LeftReturns \/ RightReturns \/ Evaluated
Spec == Init /\ [][Next]_vars /\ WF_vars(Running)

-----------------------------------------------------------------------------
TypeOK ==
    /\ \A c \in Cell : heap[c] \in
         {Free} \cup [type : {"EXPR_CONST"}, value : Int] \cup [type : {"EXPR_VAR"}, ident : Id]
         \cup [type : {"EXPR_MATH"}, opcode : Ops, lparam : Cell, rparam : Cell]
    /\ operands \in Seq(Cell)
    /\ table \in Tables
    /\ phase \in {"parse", "idle", "evaluate", "free", "end"}
    /\ callee \in Cell \cup {Null}
    /\ ret \in Int \cup {Null}
    /\ fault \in BOOLEAN

(* No evaluation and no math_free reads a cell that was freed, or frees it *)
(* again, although folding frees cells below an expression that stays.     *)
NoFault == ~fault

(* Whatever was folded in between, and however the labels have changed     *)
(* since then, an evaluation returns the value of the expression that was  *)
(* written: only parts without variables turn into constants.              *)
ValueKept == phase = "idle" /\ ret # Null => ret = meaning[root][table]

Children(c) == IF heap[c].type = "EXPR_MATH" THEN {heap[c].lparam, heap[c].rparam} ELSE {}

(* The live cells are the operands and what hangs below them, each below   *)
(* one other only: folding cuts off just what it frees.                    *)
OneOwner ==
    phase \in {"parse", "idle"} =>
        \A c \in Cell : Live(c) =>
            Cardinality({p \in Cell : c \in Children(p)})
              + Cardinality({i \in 1..Len(operands) : operands[i] = c}) = 1

(* node_clear leaves nothing behind.                                       *)
NothingLeaked == phase = "end" => \A c \in Cell : ~Live(c)

(* Every evaluation returns.                                               *)
EvaluationReturns == phase = "evaluate" ~> phase = "idle"
=============================================================================
