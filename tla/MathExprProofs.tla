--------------------------- MODULE MathExprProofs ---------------------------
(***************************************************************************)
(* Theorems about MathExpr, for expressions and evaluations of any number, *)
(* tables of any labels and a heap of any size.                            *)
(***************************************************************************)
EXTENDS MathExpr, FiniteSetTheorems, SequenceTheorems, TLAPS

MathType == [type : {"EXPR_MATH"}, opcode : Ops, lparam : Cell, rparam : Cell]

CellType == {Free} \cup [type : {"EXPR_CONST"}, value : Int]
            \cup [type : {"EXPR_VAR"}, ident : Id] \cup MathType

Frame == [self : Cell, props : MathType, lvalue : Int \cup {Null}]

Step == [do : {"visit", "release"}, cell : Cell]

Building == phase \in {"parse", "idle", "evaluate"}
IsMath(c) == heap[c].type = "EXPR_MATH"

(* What a frame has called last, and the expression in evaluation.         *)
Kid(f) == IF f.lvalue = Null THEN f.props.lparam ELSE f.props.rparam
Current == IF frames = <<>> THEN root ELSE Kid(top)

TypeInv ==
    /\ heap \in [Cell -> CellType]
    /\ operands \in Seq(Cell)
    /\ table \in Tables
    /\ phase \in {"parse", "idle", "evaluate", "free", "end"}
    /\ callee \in Cell \cup {Null}
    /\ frames \in Seq(Frame)
    /\ ret \in Int \cup {Null}
    /\ todo \in Seq(Step)
    /\ meaning \in [Cell -> [Tables -> Int]]
    /\ fault \in BOOLEAN

(* An expression is worth what its parts are worth.                        *)
MeaningInv ==
    \A c \in Cell, t \in Tables :
        /\ heap[c].type = "EXPR_CONST" => meaning[c][t] = heap[c].value
        /\ heap[c].type = "EXPR_VAR" => meaning[c][t] = t[heap[c].ident]
        /\ Building /\ IsMath(c) =>
             meaning[c][t] =
               Calc(heap[c].opcode, meaning[heap[c].lparam][t], meaning[heap[c].rparam][t])

(* Every expression is the operand of one other, or in the parser's hand.  *)
OwnInv ==
    /\ \A c \in Cell : IsMath(c) => /\ heap[c].lparam # heap[c].rparam
                                    /\ Live(heap[c].lparam) /\ Live(heap[c].rparam)
    /\ \A p, q \in Cell : \A c \in Children(p) : c \in Children(q) => p = q
    /\ \A i, j \in 1..Len(operands) : operands[i] = operands[j] => i = j
    /\ \A i \in 1..Len(operands) : Live(operands[i])
    /\ \A i \in 1..Len(operands), p \in Cell : operands[i] \notin Children(p)
    /\ \A c \in Cell : Live(c) =>
         (\E p \in Cell : c \in Children(p)) \/ (\E i \in 1..Len(operands) : operands[i] = c)
    /\ phase # "parse" => Len(operands) = 1

(* sub[c] are the cells of the expression in c: those of its operands, that*)
(* have none in common, and c.                                             *)
TreeInv(sub) ==
    /\ sub \in [Cell -> SUBSET Cell]
    /\ \A c \in Cell : Live(c) => c \in sub[c]
    /\ \A c \in Cell : Live(c) /\ ~IsMath(c) => sub[c] = {c}
    /\ \A c \in Cell : IsMath(c) =>
         LET l == heap[c].lparam
             r == heap[c].rparam
         IN  /\ l \in sub[l] /\ r \in sub[r]
             /\ sub[c] = {c} \cup sub[l] \cup sub[r]
             /\ c \notin sub[l] /\ c \notin sub[r]
             /\ sub[l] \cap sub[r] = {}

(* Until it is freed, an expression is whole, and belongs to one operand.  *)
WholeInv(sub) ==
    /\ \A c \in Cell : Live(c) => \A d \in sub[c] : Live(d)
    /\ \A c \in Cell : Live(c) => \E i \in 1..Len(operands) : c \in sub[operands[i]]
    /\ \A i, j \in 1..Len(operands) : i # j => sub[operands[i]] \cap sub[operands[j]] = {}

(* The frames descend from the root; each has a true copy of its operation *)
(* and of the value that its left operand has returned.                    *)
StackInv(sub) ==
    /\ phase # "evaluate" => frames = <<>> /\ callee = Null
    /\ phase = "parse" => ret = Null
    /\ phase = "evaluate" => (callee = Null <=> ret # Null)
    /\ phase = "evaluate" /\ callee # Null => callee = Current
    /\ phase \in {"idle", "evaluate"} /\ ret # Null => ret = meaning[Current][table]
    /\ \A k \in 1..Len(frames) :
         /\ frames[k].props = heap[frames[k].self]
         /\ frames[k].lvalue # Null =>
              frames[k].lvalue = meaning[frames[k].props.lparam][table]
    /\ Len(frames) >= 1 => frames[1].self = root
    /\ \A k \in 2..Len(frames) : frames[k].self = Kid(frames[k - 1])
    /\ \A k \in 1..Len(frames) : \A j \in 1..(k - 1) :
         sub[frames[k].self] \subseteq sub[Kid(frames[j])]

(* What is pending in math_free are all the cells left, each of them once. *)
Span(sub, s) == IF s.do = "visit" THEN sub[s.cell] ELSE {s.cell}

FreeInv(sub) ==
    /\ phase = "free" =>
         /\ \A i \in 1..Len(todo) : \A c \in Span(sub, todo[i]) : Live(c)
         /\ \A i \in 1..Len(todo) : todo[i].cell \in Span(sub, todo[i])
         /\ \A i, j \in 1..Len(todo) : i # j => Span(sub, todo[i]) \cap Span(sub, todo[j]) = {}
         /\ \A c \in Cell : Live(c) => \E i \in 1..Len(todo) : c \in Span(sub, todo[i])
    /\ phase = "end" => \A c \in Cell : ~Live(c)

(* The inductive invariant, for some division of the heap into subtrees.   *)
Inv(sub) ==
    /\ TypeInv
    /\ ~fault
    /\ MeaningInv
    /\ Building => OwnInv
    /\ TreeInv(sub)
    /\ Building => WholeInv(sub)
    /\ StackInv(sub)
    /\ FreeInv(sub)

TreesInv == \E sub \in [Cell -> SUBSET Cell] : Inv(sub)

-----------------------------------------------------------------------------
(* Cells and values.                                                       *)

LEMMA CellKinds ==
    ASSUME NEW e \in CellType
    PROVE  /\ e.type \in {"FREE", "EXPR_CONST", "EXPR_VAR", "EXPR_MATH"}
           /\ e.type = "FREE" => e = Free
           /\ e.type = "EXPR_CONST" => e.value \in Int
           /\ e.type = "EXPR_VAR" => e.ident \in Id
           /\ e.type = "EXPR_MATH" =>
                e \in MathType /\ e.opcode \in Ops /\ e.lparam \in Cell /\ e.rparam \in Cell
BY DEF CellType, MathType, Free

LEMMA MathKind ==
    ASSUME NEW e \in MathType
    PROVE  /\ e.type = "EXPR_MATH" /\ e.opcode \in Ops
           /\ e.lparam \in Cell /\ e.rparam \in Cell
BY DEF MathType

LEMMA CellsMade ==
    /\ Free \in CellType /\ Free.type = "FREE"
    /\ \A n \in Int : /\ ConstCell(n) \in CellType
                      /\ ConstCell(n).type = "EXPR_CONST" /\ ConstCell(n).value = n
    /\ \A id \in Id : /\ VarCell(id) \in CellType
                      /\ VarCell(id).type = "EXPR_VAR" /\ VarCell(id).ident = id
    /\ \A op \in Ops, l, r \in Cell :
         /\ MathCell(op, l, r) \in CellType
         /\ MathCell(op, l, r).type = "EXPR_MATH" /\ MathCell(op, l, r).opcode = op
         /\ MathCell(op, l, r).lparam = l /\ MathCell(op, l, r).rparam = r
BY DEF CellType, MathType, Free, ConstCell, VarCell, MathCell

LEMMA CalcType ==
    ASSUME NEW op \in Ops, NEW l \in Int, NEW r \in Int
    PROVE  Calc(op, l, r) \in Int
BY DEF Ops, Calc

LEMMA TableValue ==
    ASSUME NEW t \in Tables, NEW id \in Id
    PROVE  t[id] \in Int
BY NumAssumption DEF Tables

LEMMA FrameKind ==
    ASSUME NEW f \in Frame
    PROVE  /\ f.self \in Cell /\ f.props \in MathType /\ f.lvalue \in Int \cup {Null}
           /\ Kid(f) \in Cell
BY MathKind DEF Frame, Kid

LEMMA FrameMade ==
    ASSUME NEW c \in Cell, NEW p \in MathType, NEW v \in Int \cup {Null}
    PROVE  /\ [self |-> c, props |-> p, lvalue |-> v] \in Frame
           /\ [self |-> c, props |-> p, lvalue |-> v].self = c
           /\ [self |-> c, props |-> p, lvalue |-> v].props = p
           /\ [self |-> c, props |-> p, lvalue |-> v].lvalue = v
BY DEF Frame

LEMMA FrameChanged ==
    ASSUME NEW f \in Frame, NEW v \in Int
    PROVE  /\ [f EXCEPT !.lvalue = v] \in Frame
           /\ [f EXCEPT !.lvalue = v].self = f.self
           /\ [f EXCEPT !.lvalue = v].props = f.props
           /\ [f EXCEPT !.lvalue = v].lvalue = v
BY DEF Frame

LEMMA StepMade ==
    ASSUME NEW c \in Cell
    PROVE  /\ Visit(c) \in Step /\ Visit(c).do = "visit" /\ Visit(c).cell = c
           /\ Release(c) \in Step /\ Release(c).do = "release" /\ Release(c).cell = c
BY DEF Visit, Release, Step

-----------------------------------------------------------------------------
(* Sequences.                                                              *)

LEMMA SeqElement ==
    ASSUME NEW S, NEW s \in Seq(S), NEW i \in 1..Len(s)
    PROVE  s[i] \in S
BY ElementOfSeq

LEMMA FrontFacts ==
    ASSUME NEW S, NEW s \in Seq(S), s # <<>>
    PROVE  /\ Len(s) \in Nat \ {0}
           /\ Front(s) \in Seq(S) /\ Len(Front(s)) = Len(s) - 1
           /\ \A i \in 1..(Len(s) - 1) : Front(s)[i] = s[i]
<1>1. Len(s) \in Nat /\ Len(s) # 0
  BY LenProperties, EmptySeq
<1>2. \A i \in 1..(Len(s) - 1) : s[i] \in S
  BY <1>1, SeqElement
<1>3. /\ Front(s) \in Seq(S)
      /\ Len(Front(s)) = IF 1 <= Len(s) - 1 THEN Len(s) - 1 - 1 + 1 ELSE 0
      /\ \A i \in 1..(Len(s) - 1 - 1 + 1) : Front(s)[i] = s[1 + i - 1]
  BY <1>1, <1>2, SubSeqProperties DEF Front
<1>4. Len(Front(s)) = Len(s) - 1
  <2>1. Len(Front(s)) = IF 1 <= Len(s) - 1 THEN Len(s) - 1 - 1 + 1 ELSE 0
    BY <1>3
  <2>2. CASE 1 <= Len(s) - 1
    BY <1>1, <2>1, <2>2
  <2>3. CASE Len(s) - 1 < 1
    <3> \A k \in Nat : k # 0 /\ k - 1 < 1 => k = 1
      OBVIOUS
    <3>1. Len(s) = 1
      BY <1>1, <2>3, Zenon
    <3>2. Len(Front(s)) = 0
      BY <2>1, <3>1
    <3> QED BY <3>1, <3>2
  <2> QED BY <1>1, <2>2, <2>3
<1>5. ASSUME NEW i \in 1..(Len(s) - 1)
      PROVE  Front(s)[i] = s[i]
  <2>1. i \in 1..(Len(s) - 1 - 1 + 1) /\ 1 + i - 1 = i
    BY <1>1, <1>5
  <2>2. Front(s)[i] = s[1 + i - 1]
    BY <1>3, <2>1, Zenon
  <2> QED BY <2>1, <2>2
<1> QED BY <1>1, <1>3, <1>4, <1>5

(* The last two elements are replaced by one.                              *)
LEMMA JoinFacts ==
    ASSUME NEW S, NEW s \in Seq(S), NEW e \in S, Len(s) >= 2
    PROVE  LET t == Append(SubSeq(s, 1, Len(s) - 2), e)
           IN  /\ Len(s) \in Nat
               /\ t \in Seq(S) /\ Len(t) = Len(s) - 1
               /\ \A i \in 1..(Len(s) - 2) : t[i] = s[i]
               /\ t[Len(s) - 1] = e
<1> DEFINE n == Len(s)
           f == SubSeq(s, 1, n - 2)
           t == Append(f, e)
<1>1. n \in Nat /\ n - 2 \in Int
  BY LenProperties
<1>2. \A i \in 1..(n - 2) : s[i] \in S
  BY <1>1, SeqElement
<1>3. /\ f \in Seq(S)
      /\ Len(f) = IF 1 <= n - 2 THEN n - 2 - 1 + 1 ELSE 0
      /\ \A i \in 1..(n - 2 - 1 + 1) : f[i] = s[1 + i - 1]
  BY <1>1, <1>2, SubSeqProperties
<1>4. Len(f) = n - 2
  <2>1. Len(f) = IF 1 <= n - 2 THEN n - 2 - 1 + 1 ELSE 0
    BY <1>3
  <2> HIDE DEF f
  <2>2. CASE 1 <= n - 2
    BY <1>1, <2>1, <2>2
  <2>3. CASE n - 2 < 1
    <3> \A k \in Nat : k >= 2 /\ k - 2 < 1 => k = 2
      OBVIOUS
    <3>1. n = 2
      BY <1>1, <2>3, Zenon
    <3>2. Len(f) = 0
      BY <2>1, <3>1
    <3> QED BY <3>1, <3>2
  <2> QED BY <1>1, <2>2, <2>3
<1>5. ASSUME NEW i \in 1..(n - 2)
      PROVE  f[i] = s[i]
  <2>1. i \in 1..(n - 2 - 1 + 1) /\ 1 + i - 1 = i
    BY <1>1, <1>5
  <2>2. f[i] = s[1 + i - 1]
    BY <1>3, <2>1, Zenon
  <2> QED BY <2>1, <2>2
<1>6. /\ t \in Seq(S) /\ Len(t) = Len(f) + 1
      /\ \A i \in 1..Len(f) : t[i] = f[i]
      /\ t[Len(f) + 1] = e
  BY <1>3, AppendProperties
<1> HIDE DEF f, t
<1>7. Len(f) + 1 = n - 1
  BY <1>1, <1>4
<1>8. /\ t \in Seq(S) /\ Len(t) = n - 1
      /\ \A i \in 1..(n - 2) : t[i] = s[i]
      /\ t[n - 1] = e
  BY <1>1, <1>4, <1>5, <1>6, <1>7
<1> QED BY <1>1, <1>8 DEF f, t

(* The first element is replaced by three.                                 *)
LEMMA ThreeFacts ==
    ASSUME NEW S, NEW s \in Seq(S), s # <<>>, NEW a \in S, NEW b \in S, NEW d \in S,
           NEW t, t = <<a, b>> \o <<d>> \o Tail(s)
    PROVE  /\ Len(s) \in Nat \ {0}
           /\ t \in Seq(S) /\ Len(t) = Len(s) + 2
           /\ t[1] = a /\ t[2] = b /\ t[3] = d
           /\ \A i \in 4..(Len(s) + 2) : i - 2 \in 2..Len(s) /\ t[i] = s[i - 2]
<1>1. Len(s) \in Nat \ {0}
  BY LenProperties, EmptySeq
<1> DEFINE h == <<a, b>> \o <<d>>
<1>2. /\ <<a, b>> \in Seq(S) /\ Len(<<a, b>>) = 2 /\ <<a, b>>[1] = a /\ <<a, b>>[2] = b
      /\ <<d>> \in Seq(S) /\ Len(<<d>>) = 1 /\ <<d>>[1] = d
  OBVIOUS
<1>3. h \in Seq(S) /\ Len(h) = 3 /\ h[1] = a /\ h[2] = b /\ h[3] = d
  <2> DEFINE x == <<a, b>>
             y == <<d>>
  <2> HIDE DEF x, y
  <2>1. /\ x \o y \in Seq(S) /\ Len(x \o y) = Len(x) + Len(y)
        /\ \A i \in 1..(Len(x) + Len(y)) : (x \o y)[i] = IF i <= Len(x) THEN x[i] ELSE y[i - Len(x)]
    BY <1>2, ConcatProperties DEF x, y
  <2>2. x \o y \in Seq(S) /\ Len(x \o y) = 3 /\ (x \o y)[1] = a /\ (x \o y)[2] = b /\ (x \o y)[3] = d
    <3>1. /\ Len(x) = 2 /\ x[1] = a /\ x[2] = b /\ Len(y) = 1 /\ y[1] = d
      BY <1>2 DEF x, y
    <3> QED BY <2>1, <3>1
  <2> QED BY <2>2 DEF x, y
<1>4. /\ Tail(s) \in Seq(S) /\ Len(Tail(s)) = Len(s) - 1
      /\ \A i \in 1..Len(Tail(s)) : Tail(s)[i] = s[i + 1]
  BY HeadTailProperties
<1> HIDE DEF h
<1>5. /\ h \o Tail(s) \in Seq(S)
      /\ Len(h \o Tail(s)) = Len(h) + Len(Tail(s))
      /\ \A i \in 1..(Len(h) + Len(Tail(s))) :
           (h \o Tail(s))[i] = IF i <= Len(h) THEN h[i] ELSE Tail(s)[i - Len(h)]
  BY <1>3, <1>4, ConcatProperties
<1>6. t = h \o Tail(s)
  BY DEF h
<1>7. \A i \in 1..(3 + (Len(s) - 1)) : t[i] = IF i <= 3 THEN h[i] ELSE Tail(s)[i - 3]
  BY <1>3, <1>4, <1>5, <1>6
<1>8. t \in Seq(S) /\ Len(t) = Len(s) + 2
  BY <1>1, <1>3, <1>4, <1>5, <1>6
<1>9. t[1] = a /\ t[2] = b /\ t[3] = d
  BY <1>1, <1>3, <1>7
<1>10. ASSUME NEW i \in 4..(Len(s) + 2)
       PROVE  i - 2 \in 2..Len(s) /\ t[i] = s[i - 2]
  <2>1. /\ i \in 1..(3 + (Len(s) - 1)) /\ ~(i <= 3)
        /\ i - 3 \in 1..(Len(s) - 1) /\ i - 3 + 1 = i - 2 /\ i - 2 \in 2..Len(s)
    BY <1>1, <1>10
  <2>2. t[i] = Tail(s)[i - 3]
    BY <1>7, <2>1
  <2>3. Tail(s)[i - 3] = s[i - 3 + 1]
    BY <1>4, <2>1
  <2> QED BY <2>1, <2>2, <2>3
<1> QED BY <1>1, <1>8, <1>9, <1>10

LEMMA TailFacts ==
    ASSUME NEW S, NEW s \in Seq(S), s # <<>>
    PROVE  /\ Len(s) \in Nat \ {0} /\ Head(s) = s[1] /\ s[1] \in S
           /\ Tail(s) \in Seq(S) /\ Len(Tail(s)) = Len(s) - 1
           /\ \A i \in 1..(Len(s) - 1) : i + 1 \in 2..Len(s) /\ Tail(s)[i] = s[i + 1]
<1>1. Len(s) \in Nat \ {0}
  BY LenProperties, EmptySeq
<1>2. s[1] \in S
  BY <1>1, SeqElement
<1>3. /\ Tail(s) \in Seq(S) /\ Len(Tail(s)) = Len(s) - 1
      /\ \A i \in 1..Len(Tail(s)) : Tail(s)[i] = s[i + 1]
  BY HeadTailProperties
<1>4. \A i \in 1..(Len(s) - 1) : i + 1 \in 2..Len(s)
  BY <1>1
<1>5. Head(s) = s[1]
  OBVIOUS
<1> QED BY <1>1, <1>2, <1>3, <1>4, <1>5

-----------------------------------------------------------------------------
(* Types.                                                                  *)

LEMMA HeapKind ==
    ASSUME TypeInv, NEW c \in Cell
    PROVE  /\ heap[c] \in CellType
           /\ heap[c].type \in {"FREE", "EXPR_CONST", "EXPR_VAR", "EXPR_MATH"}
           /\ ~Live(c) <=> heap[c].type = "FREE"
           /\ heap[c].type = "EXPR_CONST" => heap[c].value \in Int
           /\ heap[c].type = "EXPR_VAR" => heap[c].ident \in Id
           /\ IsMath(c) => /\ heap[c] \in MathType /\ heap[c].opcode \in Ops
                           /\ heap[c].lparam \in Cell /\ heap[c].rparam \in Cell
                           /\ Children(c) = {heap[c].lparam, heap[c].rparam}
           /\ ~IsMath(c) => Children(c) = {}
<1>1. heap[c] \in CellType
  BY DEF TypeInv
<1> QED BY <1>1, CellKinds DEF Live, IsMath, Children

LEMMA RootLive ==
    ASSUME TypeInv, OwnInv, phase # "parse"
    PROVE  Len(operands) = 1 /\ root \in Cell /\ Live(root)
<1>1. Len(operands) = 1 /\ operands \in Seq(Cell)
  BY DEF TypeInv, OwnInv
<1>2. operands[1] \in Cell
  BY <1>1, SeqElement
<1> QED BY <1>1, <1>2 DEF OwnInv, root

LEMMA TopKind ==
    ASSUME TypeInv, frames # <<>>
    PROVE  /\ Len(frames) \in Nat \ {0} /\ Len(frames) \in 1..Len(frames)
           /\ top \in Frame /\ top.self \in Cell /\ top.props \in MathType
           /\ top.lvalue \in Int \cup {Null} /\ Kid(top) \in Cell
           /\ top.props.opcode \in Ops
           /\ top.props.lparam \in Cell /\ top.props.rparam \in Cell
<1>1. frames \in Seq(Frame)
  BY DEF TypeInv
<1>2. Len(frames) \in Nat \ {0}
  BY <1>1, FrontFacts
<1>3. Len(frames) \in 1..Len(frames)
  BY <1>2
<1>4. top \in Frame
  BY <1>1, <1>3, SeqElement DEF top
<1> QED BY <1>2, <1>3, <1>4, FrameKind, MathKind

LEMMA TypeStep ==
    ASSUME TypeInv, Building => OwnInv, [Next]_vars
    PROVE  TypeInv'
<1> USE DEF TypeInv
<1>1. ASSUME NEW n \in Num, const_create(n)
      PROVE  TypeInv'
  <2>1. n \in Int /\ ConstCell(n) \in CellType
    BY NumAssumption, CellsMade
  <2>2. PICK c \in Cell : /\ Alloc(c, ConstCell(n), [t \in Tables |-> n])
                          /\ operands' = Append(operands, c)
    BY <1>1 DEF const_create
  <2>3. operands' \in Seq(Cell)
    BY <2>2, AppendProperties
  <2>4. [t \in Tables |-> n] \in [Tables -> Int]
    BY <2>1
  <2>5. heap' \in [Cell -> CellType] /\ meaning' \in [Cell -> [Tables -> Int]]
    BY <2>1, <2>2, <2>4 DEF Alloc
  <2> QED BY <1>1, <2>3, <2>5 DEF const_create, Quiet
<1>2. ASSUME NEW id \in Id, var_create(id)
      PROVE  TypeInv'
  <2>1. VarCell(id) \in CellType
    BY CellsMade
  <2>2. PICK c \in Cell : /\ Alloc(c, VarCell(id), [t \in Tables |-> t[id]])
                          /\ operands' = Append(operands, c)
    BY <1>2 DEF var_create
  <2>3. operands' \in Seq(Cell)
    BY <2>2, AppendProperties
  <2>4. [t \in Tables |-> t[id]] \in [Tables -> Int]
    BY TableValue
  <2>5. heap' \in [Cell -> CellType] /\ meaning' \in [Cell -> [Tables -> Int]]
    BY <2>1, <2>2, <2>4 DEF Alloc
  <2> QED BY <1>2, <2>3, <2>5 DEF var_create, Quiet
<1>3. ASSUME NEW op \in Ops, math_create(op)
      PROVE  TypeInv'
  <2> DEFINE n == Len(operands)
             l == operands[n - 1]
             r == operands[n]
             w == [t \in Tables |-> Calc(op, meaning[l][t], meaning[r][t])]
  <2>1. PICK c \in Cell : /\ Alloc(c, MathCell(op, l, r), w)
                          /\ operands' = Append(SubSeq(operands, 1, n - 2), c)
    BY <1>3 DEF math_create
  <2>2. n >= 2 /\ n \in Nat
    BY <1>3, LenProperties DEF math_create
  <2>3. l \in Cell /\ r \in Cell
    <3>1. n - 1 \in 1..n /\ n \in 1..n
      BY <2>2
    <3> QED BY <3>1, SeqElement
  <2>4. operands' \in Seq(Cell)
    BY <2>1, <2>2, JoinFacts
  <2>5. w \in [Tables -> Int]
    BY <2>3, CalcType
  <2>6. MathCell(op, l, r) \in CellType
    BY <2>3, CellsMade
  <2> HIDE DEF w, l, r
  <2>7. heap' \in [Cell -> CellType] /\ meaning' \in [Cell -> [Tables -> Int]]
    BY <2>1, <2>5, <2>6 DEF Alloc
  <2> QED BY <1>3, <2>4, <2>7 DEF math_create, Quiet
<1>4. ASSUME Parsed
      PROVE  TypeInv'
  BY <1>4 DEF Parsed, Quiet
<1>5. ASSUME Evaluate
      PROVE  TypeInv'
  <2>1. root \in Cell
    BY <1>5, RootLive DEF Evaluate, Building
  <2> QED BY <1>5, <2>1 DEF Evaluate
<1>6. ASSUME EvaluateLeaf
      PROVE  TypeInv'
  <2>1. callee \in Cell /\ ~IsMath(callee)
    BY <1>6 DEF EvaluateLeaf, IsMath
  <2>2. ret' \in Int
    <3>1. CASE heap[callee].type = "EXPR_CONST"
      BY <1>6, <2>1, <3>1, HeapKind DEF EvaluateLeaf
    <3>2. CASE heap[callee].type = "EXPR_VAR"
      <4>1. table[heap[callee].ident] \in Int
        BY <2>1, <3>2, HeapKind, TableValue
      <4> QED BY <1>6, <3>2, <4>1 DEF EvaluateLeaf
    <3>3. CASE heap[callee].type \notin {"EXPR_CONST", "EXPR_VAR"}
      <4>1. ret' = 0
        BY <1>6, <3>3 DEF EvaluateLeaf
      <4> QED BY <4>1
    <3> QED BY <3>1, <3>2, <3>3
  <2>3. fault' \in BOOLEAN
    BY <1>6 DEF EvaluateLeaf
  <2> QED BY <1>6, <2>2, <2>3 DEF EvaluateLeaf
<1>7. ASSUME EvaluateMath
      PROVE  TypeInv'
  <2>1. callee \in Cell /\ IsMath(callee)
    BY <1>7 DEF EvaluateMath, IsMath
  <2>2. heap[callee] \in MathType /\ heap[callee].lparam \in Cell
    BY <2>1, HeapKind
  <2>3. [self |-> callee, props |-> heap[callee], lvalue |-> Null] \in Frame
    BY <2>1, <2>2, FrameMade
  <2>4. frames' \in Seq(Frame)
    BY <1>7, <2>3, AppendProperties DEF EvaluateMath
  <2> QED BY <1>7, <2>2, <2>4 DEF EvaluateMath
<1>8. ASSUME LeftReturns
      PROVE  TypeInv'
  <2>1. ret \in Int /\ frames # <<>>
    BY <1>8 DEF LeftReturns
  <2>2. [top EXCEPT !.lvalue = ret] \in Frame
    BY <2>1, TopKind, FrameChanged
  <2>3. frames' = [frames EXCEPT ![Len(frames)] = [top EXCEPT !.lvalue = ret]]
    BY <1>8 DEF LeftReturns, top
  <2>4. frames' \in Seq(Frame)
    BY <2>1, <2>2, <2>3, TopKind, ExceptSeq
  <2>5. callee' \in Cell
    BY <1>8, <2>1, TopKind DEF LeftReturns
  <2> QED BY <1>8, <2>4, <2>5 DEF LeftReturns
<1>9. ASSUME RightReturns
      PROVE  TypeInv'
  <2> DEFINE result == Calc(top.props.opcode, top.lvalue, ret)
  <2>1. ret \in Int /\ frames # <<>> /\ top.lvalue \in Int
    BY <1>9, TopKind DEF RightReturns
  <2>2. result \in Int
    BY <2>1, TopKind, CalcType
  <2>3. Folded(result) \in CellType /\ Free \in CellType
    BY <2>2, CellsMade DEF Folded
  <2> HIDE DEF result
  <2>4. heap' = IF Foldable
                  THEN [c \in Cell |-> CASE c = top.self -> Folded(result)
                                         [] c \in FoldFrees -> Free
                                         [] OTHER -> heap[c]]
                  ELSE heap
    BY <1>9 DEF RightReturns, result
  <2>5. heap' \in [Cell -> CellType]
    <3>1. CASE ~Foldable
      BY <2>4, <3>1
    <3>2. CASE Foldable
      <4>1. ASSUME NEW c \in Cell
            PROVE  (CASE c = top.self -> Folded(result)
                      [] c \in FoldFrees -> Free
                      [] OTHER -> heap[c]) \in CellType
        BY <2>3
      <4> QED BY <2>4, <3>2, <4>1
    <3> QED BY <3>1, <3>2
  <2>6. frames' \in Seq(Frame)
    BY <1>9, <2>1, FrontFacts DEF RightReturns
  <2>7. ret' \in Int /\ fault' \in BOOLEAN
    BY <1>9, <2>2 DEF RightReturns, result
  <2> QED BY <1>9, <2>5, <2>6, <2>7 DEF RightReturns
<1>10. ASSUME Evaluated
       PROVE  TypeInv'
  BY <1>10 DEF Evaluated
<1>11. ASSUME NEW id \in Id, NEW n \in Num, StoreLabel(id, n)
       PROVE  TypeInv'
  <2>1. table' \in Tables
    BY <1>11 DEF StoreLabel, Tables
  <2> QED BY <1>11, <2>1 DEF StoreLabel
<1>12. ASSUME math_free
       PROVE  TypeInv'
  <2>1. Visit(root) \in Step
    BY <1>12, RootLive, StepMade DEF math_free, Building
  <2>2. todo' \in Seq(Step)
    BY <1>12, <2>1 DEF math_free
  <2> QED BY <1>12, <2>2 DEF math_free
<1>13. ASSUME FreeStep
       PROVE  TypeInv'
  <2> DEFINE c == Head(todo).cell
             e == heap[c]
  <2>1. todo # <<>>
    BY <1>13 DEF FreeStep
  <2>2. Head(todo) \in Step /\ Tail(todo) \in Seq(Step)
    BY <2>1, TailFacts
  <2>3. c \in Cell
    BY <2>2 DEF Step
  <2>4. fault' \in BOOLEAN
    BY <1>13 DEF FreeStep
  <2>5. CASE Head(todo).do = "visit" /\ e.type = "EXPR_MATH"
    <3>1. e.lparam \in Cell /\ e.rparam \in Cell
      BY <2>3, <2>5, HeapKind DEF IsMath
    <3>2. Visit(e.lparam) \in Step /\ Visit(e.rparam) \in Step /\ Release(c) \in Step
      BY <2>3, <3>1, StepMade
    <3>3. todo' = <<Visit(e.lparam), Visit(e.rparam)>> \o <<Release(c)>> \o Tail(todo)
          /\ heap' = heap
      BY <1>13, <2>5 DEF FreeStep, Below
    <3>4. todo' \in Seq(Step)
      BY <2>1, <3>2, <3>3, ThreeFacts
    <3> QED BY <1>13, <2>4, <3>3, <3>4 DEF FreeStep
  <2>6. CASE ~(Head(todo).do = "visit" /\ e.type = "EXPR_MATH")
    <3>1. todo' = Tail(todo) /\ heap' = [heap EXCEPT ![c] = Free]
      BY <1>13, <2>6 DEF FreeStep
    <3>2. heap' \in [Cell -> CellType]
      BY <2>3, <3>1, CellsMade
    <3> QED BY <1>13, <2>2, <2>4, <3>1, <3>2 DEF FreeStep
  <2> QED BY <2>5, <2>6
<1>14. ASSUME Freed
       PROVE  TypeInv'
  BY <1>14 DEF Freed
<1>15. CASE UNCHANGED vars
  BY <1>15 DEF vars
<1> QED BY <1>1, <1>2, <1>3, <1>4, <1>5, <1>6, <1>7, <1>8, <1>9, <1>10, <1>11, <1>12,
           <1>13, <1>14, <1>15 DEF Next

-----------------------------------------------------------------------------
(* The steps of an evaluation that leave the heap alone.                   *)

LEMMA InitTrees ==
    ASSUME Init
    PROVE  TreesInv
<1> DEFINE sub == [c \in Cell |-> {c}]
<1>1. sub \in [Cell -> SUBSET Cell]
  OBVIOUS
<1>2. \A c \in Cell : heap[c] = Free /\ ~Live(c) /\ ~IsMath(c) /\ Children(c) = {}
  BY CellsMade DEF Init, Live, IsMath, Children, Free
<1>3. TypeInv
  <2>1. heap \in [Cell -> CellType] /\ meaning \in [Cell -> [Tables -> Int]]
    BY CellsMade DEF Init
  <2>2. <<>> \in Seq(Cell) /\ <<>> \in Seq(Frame) /\ <<>> \in Seq(Step)
    OBVIOUS
  <2>3. /\ operands = <<>> /\ frames = <<>> /\ todo = <<>> /\ table \in Tables
        /\ phase = "parse" /\ callee = Null /\ ret = Null /\ fault = FALSE
    BY DEF Init
  <2> HIDE DEF sub
  <2> QED BY <2>1, <2>2, <2>3 DEF TypeInv
<1>4. MeaningInv
  BY <1>2 DEF MeaningInv, Free, IsMath
<1>5. Len(operands) = 0 /\ frames = <<>> /\ Len(frames) = 0 /\ phase = "parse"
  BY DEF Init
<1>6. OwnInv
  BY <1>2, <1>5 DEF OwnInv
<1>7. TreeInv(sub)
  BY <1>1, <1>2 DEF TreeInv
<1>8. WholeInv(sub)
  BY <1>2, <1>5 DEF WholeInv
<1>9. StackInv(sub)
  BY <1>5 DEF StackInv, Init
<1>10. FreeInv(sub)
  BY <1>5 DEF FreeInv
<1> HIDE DEF sub
<1> QED BY <1>1, <1>3, <1>4, <1>6, <1>7, <1>8, <1>9, <1>10 DEF TreesInv, Inv, Init

LEMMA SameHeap ==
    ASSUME NEW sub \in [Cell -> SUBSET Cell], Inv(sub), UNCHANGED <<heap, operands, meaning>>,
           Building' => Building,
           Building' /\ phase' # "parse" => Len(operands) = 1
    PROVE  /\ MeaningInv'
           /\ Building' => OwnInv' /\ WholeInv(sub)'
           /\ TreeInv(sub)'
<1>1. \A c \in Cell : (Live(c)' <=> Live(c)) /\ (IsMath(c)' <=> IsMath(c)) /\ Children(c)' = Children(c)
  BY DEF Live, IsMath, Children
<1>2. MeaningInv'
  <2>1. MeaningInv
    BY DEF Inv
  <2> QED BY <2>1 DEF MeaningInv, IsMath
<1>3. TreeInv(sub)'
  <2>1. TreeInv(sub)
    BY DEF Inv
  <2> QED BY <2>1 DEF TreeInv, Live, IsMath
<1>4. ASSUME Building'
      PROVE  OwnInv' /\ WholeInv(sub)'
  <2>1. OwnInv /\ WholeInv(sub)
    BY <1>4 DEF Inv
  <2>2. WholeInv(sub)'
    BY <2>1 DEF WholeInv, Live
  <2>3. phase' # "parse" => Len(operands') = 1
    BY <1>4
  <2>4. OwnInv'
    BY <2>1, <2>3 DEF OwnInv, Live, IsMath, Children
  <2> QED BY <2>2, <2>4
<1> QED BY <1>2, <1>3, <1>4

(* An empty stack.                                                         *)
LEMMA NoFrames ==
    ASSUME NEW sub, frames' = <<>>, callee' = Null, phase' # "evaluate",
           phase' = "parse" => ret' = Null,
           phase' = "idle" /\ ret' # Null => ret' = meaning'[operands'[1]][table']
    PROVE  StackInv(sub)'
<1>1. Len(frames') = 0 /\ Current' = operands'[1]
  BY DEF Current, root
<1> QED BY <1>1 DEF StackInv

LEMMA NotFreeing ==
    ASSUME NEW sub, phase' \in {"parse", "idle", "evaluate"}
    PROVE  FreeInv(sub)'
BY DEF FreeInv

LEMMA ParsedTrees ==
    ASSUME NEW sub \in [Cell -> SUBSET Cell], Inv(sub), TypeInv', Parsed
    PROVE  Inv(sub)'
<1>1. /\ UNCHANGED <<heap, operands, meaning>> /\ phase' = "idle" /\ phase = "parse"
      /\ Len(operands) = 1 /\ UNCHANGED <<table, callee, frames, ret, todo, fault>>
  BY DEF Parsed, Quiet
<1>2. MeaningInv' /\ (Building' => OwnInv' /\ WholeInv(sub)') /\ TreeInv(sub)'
  BY <1>1, SameHeap DEF Building
<1>3. StackInv(sub)'
  <2>1. frames = <<>> /\ callee = Null /\ ret = Null
    BY <1>1 DEF Inv, StackInv
  <2> QED BY <1>1, <2>1, NoFrames
<1> QED BY <1>1, <1>2, <1>3, NotFreeing DEF Inv

LEMMA EvaluateTrees ==
    ASSUME NEW sub \in [Cell -> SUBSET Cell], Inv(sub), TypeInv', Evaluate
    PROVE  Inv(sub)'
<1>1. /\ UNCHANGED <<heap, operands, table, frames, todo, meaning, fault>>
      /\ phase = "idle" /\ phase' = "evaluate" /\ callee' = root /\ ret' = Null
  BY DEF Evaluate
<1>2. TypeInv /\ OwnInv
  BY <1>1 DEF Inv, Building
<1>3. Len(operands) = 1 /\ root \in Cell
  BY <1>1, <1>2, RootLive
<1>4. MeaningInv' /\ (Building' => OwnInv' /\ WholeInv(sub)') /\ TreeInv(sub)'
  BY <1>1, <1>3, SameHeap DEF Building
<1>5. StackInv(sub)'
  <2>1. frames' = <<>> /\ Len(frames') = 0
    BY <1>1 DEF Inv, StackInv
  <2>2. Current' = root /\ callee' # Null
    BY <1>1, <1>3, <2>1, NumAssumption DEF Current, root
  <2> QED BY <1>1, <2>1, <2>2 DEF StackInv
<1> QED BY <1>1, <1>4, <1>5, NotFreeing DEF Inv

LEMMA EvaluatedTrees ==
    ASSUME NEW sub \in [Cell -> SUBSET Cell], Inv(sub), TypeInv', Evaluated
    PROVE  Inv(sub)'
<1>1. /\ UNCHANGED <<heap, operands, table, callee, frames, ret, todo, meaning, fault>>
      /\ phase = "evaluate" /\ phase' = "idle" /\ frames = <<>> /\ ret # Null
  BY DEF Evaluated
<1>2. TypeInv /\ OwnInv
  BY <1>1 DEF Inv, Building
<1>3. Len(operands) = 1
  BY <1>1, <1>2, RootLive
<1>4. MeaningInv' /\ (Building' => OwnInv' /\ WholeInv(sub)') /\ TreeInv(sub)'
  BY <1>1, <1>3, SameHeap DEF Building
<1>5. StackInv(sub)'
  <2>1. callee = Null /\ ret = meaning[operands[1]][table]
    BY <1>1 DEF Inv, StackInv, Current, root
  <2> QED BY <1>1, <2>1, NoFrames
<1> QED BY <1>1, <1>4, <1>5, NotFreeing DEF Inv

LEMMA StoreLabelTrees ==
    ASSUME NEW sub \in [Cell -> SUBSET Cell], Inv(sub), TypeInv',
           NEW id \in Id, NEW n \in Num, StoreLabel(id, n)
    PROVE  Inv(sub)'
<1>1. /\ UNCHANGED <<heap, operands, phase, callee, frames, todo, meaning, fault>>
      /\ phase = "idle" /\ ret' = Null
  BY DEF StoreLabel
<1>2. TypeInv /\ OwnInv
  BY <1>1 DEF Inv, Building
<1>3. Len(operands) = 1
  BY <1>1, <1>2, RootLive
<1>4. MeaningInv' /\ (Building' => OwnInv' /\ WholeInv(sub)') /\ TreeInv(sub)'
  BY <1>1, <1>3, SameHeap DEF Building
<1>5. StackInv(sub)'
  <2>1. callee = Null /\ frames = <<>>
    BY <1>1 DEF Inv, StackInv
  <2> QED BY <1>1, <2>1, NoFrames
<1> QED BY <1>1, <1>4, <1>5, NotFreeing DEF Inv

LEMMA CalleeLive ==
    ASSUME NEW sub \in [Cell -> SUBSET Cell], Inv(sub), callee # Null
    PROVE  /\ phase = "evaluate" /\ ret = Null
           /\ callee \in Cell /\ callee = Current /\ Live(callee)
           /\ TypeInv /\ OwnInv /\ Len(operands) = 1
<1>1. phase = "evaluate" /\ TypeInv /\ OwnInv /\ StackInv(sub)
  BY DEF Inv, StackInv, Building
<1>2. callee \in Cell /\ callee = Current /\ ret = Null
  BY <1>1 DEF TypeInv, StackInv
<1>3. Len(operands) = 1 /\ root \in Cell /\ Live(root)
  BY <1>1, RootLive
<1>4. Live(Current)
  <2>1. CASE frames = <<>>
    BY <1>3, <2>1 DEF Current
  <2>2. CASE frames # <<>>
    <3>1. Len(frames) \in 1..Len(frames) /\ top.self \in Cell /\ top.props \in MathType
      BY <1>1, <2>2, TopKind
    <3>2. top.props = heap[top.self]
      BY <1>1, <3>1 DEF StackInv, top
    <3>3. IsMath(top.self)
      BY <3>1, <3>2, MathKind DEF IsMath
    <3>4. Live(top.props.lparam) /\ Live(top.props.rparam)
      BY <1>1, <3>1, <3>2, <3>3 DEF OwnInv
    <3> QED BY <2>2, <3>4 DEF Current, Kid
  <2> QED BY <2>1, <2>2
<1> QED BY <1>1, <1>2, <1>3, <1>4

LEMMA EvaluateLeafTrees ==
    ASSUME NEW sub \in [Cell -> SUBSET Cell], Inv(sub), TypeInv', EvaluateLeaf
    PROVE  Inv(sub)'
<1>1. /\ UNCHANGED <<heap, operands, table, phase, frames, todo, meaning>>
      /\ callee # Null /\ callee' = Null /\ ~IsMath(callee)
      /\ fault' = (fault \/ ~Live(callee))
  BY DEF EvaluateLeaf, IsMath
<1>2. /\ phase = "evaluate" /\ callee \in Cell /\ callee = Current /\ Live(callee)
      /\ TypeInv /\ Len(operands) = 1
  BY <1>1, CalleeLive
<1>3. ~fault'
  BY <1>1, <1>2 DEF Inv
<1>4. table \in Tables
  BY <1>2 DEF TypeInv
<1>5. ret' \in Int /\ ret' = meaning[callee][table]
  <2>1. MeaningInv
    BY DEF Inv
  <2>2. CASE heap[callee].type = "EXPR_CONST"
    <3>1. ret' = heap[callee].value
      BY <2>2 DEF EvaluateLeaf
    <3> QED BY <1>2, <1>4, <2>1, <2>2, <3>1, HeapKind DEF MeaningInv
  <2>3. CASE heap[callee].type = "EXPR_VAR"
    <3>1. ret' = table[heap[callee].ident]
      BY <2>3 DEF EvaluateLeaf
    <3>2. ret' \in Int
      BY <1>2, <1>4, <2>3, <3>1, HeapKind, TableValue
    <3> QED BY <1>2, <1>4, <2>1, <2>3, <3>1, <3>2 DEF MeaningInv
  <2> QED BY <1>1, <1>2, <2>2, <2>3, HeapKind DEF IsMath
<1>6. MeaningInv' /\ (Building' => OwnInv' /\ WholeInv(sub)') /\ TreeInv(sub)'
  BY <1>1, <1>2, SameHeap DEF Building
<1>7. StackInv(sub)'
  <2>1. StackInv(sub)
    BY DEF Inv
  <2>2. Current' = Current /\ ret' # Null
    BY <1>1, <1>5, NumAssumption DEF Current, root, top
  <2>3. ret' = meaning'[Current'][table']
    BY <1>1, <1>2, <1>5, <2>2
  <2> QED BY <1>1, <1>2, <2>1, <2>2, <2>3 DEF StackInv, root
<1> QED BY <1>1, <1>2, <1>3, <1>6, <1>7, NotFreeing DEF Inv

LEMMA EvaluateMathTrees ==
    ASSUME NEW sub \in [Cell -> SUBSET Cell], Inv(sub), TypeInv', EvaluateMath
    PROVE  Inv(sub)'
<1> DEFINE n == Len(frames)
           f == [self |-> callee, props |-> heap[callee], lvalue |-> Null]
<1>1. /\ UNCHANGED <<heap, operands, table, phase, ret, todo, meaning, fault>>
      /\ callee # Null /\ IsMath(callee) /\ callee' = heap[callee].lparam
      /\ frames' = Append(frames, f)
  BY DEF EvaluateMath, IsMath
<1>2. /\ phase = "evaluate" /\ ret = Null /\ callee \in Cell /\ callee = Current
      /\ TypeInv /\ Len(operands) = 1
  BY <1>1, CalleeLive
<1>3. heap[callee] \in MathType /\ heap[callee].lparam \in Cell
  BY <1>1, <1>2, HeapKind
<1>4. f \in Frame /\ f.self = callee /\ f.props = heap[callee] /\ f.lvalue = Null
  BY <1>2, <1>3, FrameMade
<1> HIDE DEF f
<1>5. frames \in Seq(Frame) /\ n \in Nat
  BY <1>2, LenProperties DEF TypeInv
<1>6. /\ frames' # <<>> /\ Len(frames') = n + 1
      /\ \A k \in 1..n : frames'[k] = frames[k]
      /\ frames'[n + 1] = f
  BY <1>1, <1>4, <1>5, AppendProperties
<1>7. MeaningInv' /\ (Building' => OwnInv' /\ WholeInv(sub)') /\ TreeInv(sub)'
  BY <1>1, <1>2, SameHeap DEF Building
<1>8. StackInv(sub)'
  <2>0. StackInv(sub) /\ TreeInv(sub)
    BY DEF Inv
  <2>1. Current' = heap[callee].lparam
    BY <1>4, <1>6 DEF Current, Kid, top
  <2>2. callee' # Null /\ callee' = Current'
    BY <1>1, <1>3, <2>1, NumAssumption
  <2>3. ASSUME NEW k \in 1..(n + 1)
        PROVE  /\ frames'[k].props = heap[frames'[k].self]
               /\ frames'[k].lvalue # Null =>
                    frames'[k].lvalue = meaning[frames'[k].props.lparam][table]
    <3>1. CASE k \in 1..n
      BY <1>6, <2>0, <3>1 DEF StackInv
    <3>2. CASE k = n + 1
      BY <1>4, <1>6, <3>2
    <3> QED BY <1>5, <3>1, <3>2
  <2>4. frames'[1].self = root
    <3>1. CASE n = 0
      <4>1. frames = <<>>
        BY <1>5, <3>1, EmptySeq
      <4>2. frames'[1] = f
        BY <1>6, <3>1
      <4> QED BY <1>2, <1>4, <4>1, <4>2 DEF Current
    <3>2. CASE n # 0
      <4>1. 1 \in 1..n /\ n >= 1
        BY <1>5, <3>2
      <4> QED BY <1>6, <2>0, <4>1 DEF StackInv
    <3> QED BY <3>1, <3>2
  <2>5. n # 0 => frames # <<>> /\ callee = Kid(frames[n])
    <3>1. n # 0 => frames # <<>>
      BY EmptySeq
    <3> QED BY <1>2, <3>1 DEF Current, top
  <2>6. ASSUME NEW k \in 2..(n + 1)
        PROVE  frames'[k].self = Kid(frames'[k - 1])
    <3>1. CASE k \in 2..n
      <4>1. k \in 1..n /\ k - 1 \in 1..n
        BY <1>5, <3>1
      <4> QED BY <1>6, <2>0, <3>1, <4>1 DEF StackInv
    <3>2. CASE k = n + 1
      <4>1. n # 0 /\ k - 1 = n /\ n \in 1..n
        BY <1>5, <3>2
      <4> QED BY <1>4, <1>6, <2>5, <3>2, <4>1
    <3> QED BY <1>5, <3>1, <3>2
  <2>7. ASSUME NEW k \in 1..(n + 1), NEW j \in 1..(k - 1)
        PROVE  sub[frames'[k].self] \subseteq sub[Kid(frames'[j])]
    <3>1. CASE k \in 1..n
      <4>1. j \in 1..n
        BY <1>5, <3>1
      <4> QED BY <1>6, <2>0, <3>1, <4>1 DEF StackInv
    <3>2. CASE k = n + 1
      <4>1. n # 0 /\ n \in 1..n /\ j \in 1..n
        BY <1>5, <3>2
      <4>2. frames'[k].self = callee /\ frames'[j] = frames[j]
        BY <1>4, <1>6, <3>2, <4>1
      <4>3. CASE j = n
        BY <2>5, <4>1, <4>2, <4>3
      <4>4. CASE j \in 1..(n - 1)
        <5>1. sub[frames[n].self] \subseteq sub[Kid(frames[j])]
          BY <2>0, <4>1, <4>4 DEF StackInv
        <5>2. frames[n] = top /\ callee = Kid(top) /\ frames # <<>>
          BY <2>5, <4>1 DEF top
        <5>3. top.self \in Cell /\ top.props \in MathType /\ top.props = heap[top.self]
          BY <1>2, <2>0, <4>1, <5>2, TopKind DEF StackInv, top
        <5>4. IsMath(top.self) /\ Kid(top) \in {heap[top.self].lparam, heap[top.self].rparam}
          BY <5>3, MathKind DEF IsMath, Kid
        <5>5. sub[Kid(top)] \subseteq sub[top.self]
          BY <2>0, <5>3, <5>4 DEF TreeInv
        <5> QED BY <4>2, <5>1, <5>2, <5>5
      <4> QED BY <1>5, <4>1, <4>3, <4>4
    <3> QED BY <1>5, <3>1, <3>2
  <2>8. root' = root
    BY <1>1 DEF root
  <2> QED BY <1>1, <1>2, <1>6, <2>2, <2>3, <2>4, <2>6, <2>7, <2>8 DEF StackInv
<1> QED BY <1>1, <1>2, <1>7, <1>8, NotFreeing DEF Inv

(* A value comes back to the last frame.                                   *)
LEMMA ReturnsTo ==
    ASSUME NEW sub \in [Cell -> SUBSET Cell], Inv(sub), ret # Null, frames # <<>>
    PROVE  /\ phase = "evaluate" /\ callee = Null /\ ret \in Int
           /\ TypeInv /\ OwnInv /\ TreeInv(sub) /\ WholeInv(sub) /\ StackInv(sub)
           /\ Len(operands) = 1
           /\ ret = meaning[Kid(top)][table]
           /\ top.props = heap[top.self] /\ IsMath(top.self)
           /\ top.lvalue # Null => top.lvalue = meaning[top.props.lparam][table]
<1>1. TypeInv /\ StackInv(sub)
  BY DEF Inv
<1>2. phase = "evaluate"
  BY <1>1 DEF StackInv
<1>3. OwnInv /\ WholeInv(sub) /\ TreeInv(sub)
  BY <1>2 DEF Inv, Building
<1>4. callee = Null /\ ret = meaning[Kid(top)][table]
  BY <1>1, <1>2 DEF StackInv, Current
<1>5. Len(frames) \in 1..Len(frames) /\ top.props \in MathType
  BY <1>1, TopKind
<1>6. /\ top.props = heap[top.self]
      /\ top.lvalue # Null => top.lvalue = meaning[top.props.lparam][table]
  BY <1>1, <1>5 DEF StackInv, top
<1>7. IsMath(top.self)
  BY <1>5, <1>6, MathKind DEF IsMath
<1>8. Len(operands) = 1
  BY <1>2, <1>3 DEF OwnInv
<1>9. ret \in Int
  BY <1>1 DEF TypeInv
<1> QED BY <1>1, <1>2, <1>3, <1>4, <1>6, <1>7, <1>8, <1>9

LEMMA LeftReturnsTrees ==
    ASSUME NEW sub \in [Cell -> SUBSET Cell], Inv(sub), TypeInv', LeftReturns
    PROVE  Inv(sub)'
<1> DEFINE n == Len(frames)
           f == [top EXCEPT !.lvalue = ret]
<1>1. /\ UNCHANGED <<heap, operands, table, phase, todo, meaning, fault>>
      /\ ret # Null /\ frames # <<>> /\ top.lvalue = Null
      /\ ret' = Null /\ callee' = top.props.rparam
      /\ frames' = [frames EXCEPT ![n] = f]
  BY DEF LeftReturns, top
<1>2. /\ phase = "evaluate" /\ ret \in Int /\ TypeInv /\ StackInv(sub) /\ Len(operands) = 1
      /\ ret = meaning[top.props.lparam][table]
  BY <1>1, ReturnsTo DEF Kid
<1>3. /\ n \in Nat \ {0} /\ n \in 1..n /\ top \in Frame
      /\ top.props \in MathType /\ top.props.rparam \in Cell
  BY <1>1, <1>2, TopKind
<1>4. f \in Frame /\ f.self = top.self /\ f.props = top.props /\ f.lvalue = ret
  BY <1>2, <1>3, FrameChanged
<1> HIDE DEF f
<1>5. frames \in Seq(Frame)
  BY <1>2 DEF TypeInv
<1>6. /\ Len(frames') = n
      /\ \A k \in 1..n : frames'[k] = IF k = n THEN f ELSE frames[k]
  BY <1>1, <1>3, <1>4, <1>5, ExceptSeq
<1>7. MeaningInv' /\ (Building' => OwnInv' /\ WholeInv(sub)') /\ TreeInv(sub)'
  BY <1>1, <1>2, SameHeap DEF Building
<1>8. StackInv(sub)'
  <2>1. frames' # <<>> /\ frames'[n] = f
    BY <1>3, <1>6, EmptySeq
  <2>2. Current' = callee'
    BY <1>1, <1>2, <1>4, <1>6, <2>1 DEF Current, Kid, top
  <2>3. callee' # Null
    BY <1>1, <1>3, NumAssumption
  <2>4. ASSUME NEW k \in 1..n
        PROVE  /\ frames'[k].self = frames[k].self
               /\ frames'[k].props = heap[frames'[k].self]
               /\ frames'[k].lvalue # Null =>
                    frames'[k].lvalue = meaning[frames'[k].props.lparam][table]
    <3>1. CASE k = n
      BY <1>2, <1>4, <1>6, <3>1 DEF StackInv, top
    <3>2. CASE k # n
      BY <1>2, <1>6, <3>2 DEF StackInv
    <3> QED BY <3>1, <3>2
  <2>5. ASSUME NEW k \in 1..n, NEW j \in 1..(k - 1)
        PROVE  j \in 1..n /\ frames'[j] = frames[j]
    <3>1. j \in 1..n /\ j # n
      BY <1>3
    <3> QED BY <1>6, <3>1
  <2>6. frames'[1].self = root
    <3>1. 1 \in 1..n /\ n >= 1
      BY <1>3
    <3> QED BY <1>2, <2>4, <3>1 DEF StackInv
  <2>7. ASSUME NEW k \in 2..n
        PROVE  frames'[k].self = Kid(frames'[k - 1])
    <3>1. k \in 1..n /\ k - 1 \in 1..(k - 1)
      BY <1>3
    <3> QED BY <1>2, <2>4, <2>5, <3>1 DEF StackInv
  <2>8. ASSUME NEW k \in 1..n, NEW j \in 1..(k - 1)
        PROVE  sub[frames'[k].self] \subseteq sub[Kid(frames'[j])]
    BY <1>2, <2>4, <2>5 DEF StackInv
  <2>9. root' = root
    BY <1>1 DEF root
  <2>10. /\ heap' = heap /\ meaning' = meaning /\ table' = table
         /\ phase' = "evaluate" /\ ret' = Null /\ Len(frames') = n
    BY <1>1, <1>2, <1>6
  <2> HIDE DEF n
  <2> QED BY <2>2, <2>3, <2>4, <2>6, <2>7, <2>8, <2>9, <2>10 DEF StackInv
<1> QED BY <1>1, <1>2, <1>7, <1>8, NotFreeing DEF Inv

(* The cells of an operation that returns, and its value.                  *)
LEMMA ReturnFacts ==
    ASSUME NEW sub \in [Cell -> SUBSET Cell], Inv(sub), ret # Null, frames # <<>>,
           top.lvalue # Null,
           NEW s, s = top.self, NEW l, l = heap[s].lparam, NEW r, r = heap[s].rparam,
           NEW result, result = Calc(top.props.opcode, top.lvalue, ret)
    PROVE  /\ top.props = heap[s] /\ s \in Cell /\ l \in Cell /\ r \in Cell
           /\ IsMath(s) /\ Live(s) /\ Live(l) /\ Live(r) /\ l # r
           /\ Children(s) = {l, r}
           /\ sub[s] = {s} \cup sub[l] \cup sub[r] /\ s \notin {l, r}
           /\ table \in Tables
           /\ result \in Int /\ result = meaning[s][table]
           /\ \A t \in Tables : meaning[s][t] = Calc(heap[s].opcode, meaning[l][t], meaning[r][t])
<1>1. /\ TypeInv /\ OwnInv /\ TreeInv(sub) /\ phase = "evaluate"
      /\ top.props = heap[s] /\ IsMath(s) /\ ret \in Int
      /\ ret = meaning[r][table] /\ top.lvalue = meaning[l][table]
  BY ReturnsTo DEF Kid
<1>2. /\ s \in Cell /\ l \in Cell /\ r \in Cell /\ heap[s].opcode \in Ops /\ top.lvalue \in Int
      /\ Children(s) = {l, r}
  BY <1>1, TopKind, HeapKind
<1>3. /\ Live(l) /\ Live(r) /\ l # r
  BY <1>1, <1>2 DEF OwnInv
<1>4. Live(s)
  BY <1>1, <1>2, HeapKind DEF IsMath
<1>5. /\ sub[s] = {s} \cup sub[l] \cup sub[r] /\ s \notin sub[l] /\ s \notin sub[r]
      /\ l \in sub[l] /\ r \in sub[r]
  BY <1>1, <1>2 DEF TreeInv
<1>6. table \in Tables
  BY <1>1 DEF TypeInv
<1>7. \A t \in Tables : meaning[s][t] = Calc(heap[s].opcode, meaning[l][t], meaning[r][t])
  <2>1. MeaningInv /\ Building
    BY <1>1 DEF Inv, Building
  <2> QED BY <1>1, <1>2, <2>1 DEF MeaningInv
<1>8. result \in Int
  BY <1>1, <1>2, CalcType
<1>9. result = meaning[s][table]
  BY <1>1, <1>6, <1>7
<1> QED BY <1>1, <1>2, <1>3, <1>4, <1>5, <1>6, <1>7, <1>8, <1>9

(* Folding leaves the heap as it should be.                                *)
LEMMA FoldTrees ==
    ASSUME NEW sub \in [Cell -> SUBSET Cell], Inv(sub), RightReturns, Foldable,
           NEW s, s = top.self, NEW l, l = heap[s].lparam, NEW r, r = heap[s].rparam,
           NEW fsub, fsub = [x \in Cell |-> sub[x] \ {l, r}]
    PROVE  /\ \A c \in Cell : IsMath(c) /\ c # s => heap'[c] = heap[c]
           /\ MeaningInv' /\ OwnInv' /\ TreeInv(fsub)' /\ WholeInv(fsub)'
<1> DEFINE result == Calc(top.props.opcode, top.lvalue, ret)
<1>1. ret # Null /\ frames # <<>> /\ top.lvalue # Null
  BY DEF RightReturns
<1>2. /\ TypeInv /\ OwnInv /\ TreeInv(sub) /\ WholeInv(sub) /\ MeaningInv
      /\ phase = "evaluate" /\ Len(operands) = 1
  BY <1>1, ReturnsTo DEF Inv
<1>3. /\ top.props = heap[s] /\ s \in Cell /\ l \in Cell /\ r \in Cell
      /\ IsMath(s) /\ Live(s) /\ Live(l) /\ Live(r) /\ l # r
      /\ Children(s) = {l, r}
      /\ sub[s] = {s} \cup sub[l] \cup sub[r] /\ s \notin {l, r}
      /\ table \in Tables
      /\ result \in Int /\ result = meaning[s][table]
      /\ \A t \in Tables : meaning[s][t] = Calc(heap[s].opcode, meaning[l][t], meaning[r][t])
  BY <1>1, ReturnFacts
<1>4. /\ heap[l].type = "EXPR_CONST" /\ heap[r].type = "EXPR_CONST" /\ FoldFrees = {l, r}
  BY <1>3 DEF Foldable, FoldFrees
<1>5. /\ ~IsMath(l) /\ ~IsMath(r) /\ Children(l) = {} /\ Children(r) = {}
  BY <1>4 DEF IsMath, Children
<1> HIDE DEF result
<1>6. /\ UNCHANGED <<operands, table, phase, callee, todo, meaning>>
      /\ heap' = [c \in Cell |-> CASE c = s -> ConstCell(result)
                                   [] c \in {l, r} -> Free
                                   [] OTHER -> heap[c]]
  BY <1>4 DEF RightReturns, Folded, result
<1>7. /\ heap'[s] = ConstCell(result) /\ heap'[l] = Free /\ heap'[r] = Free
      /\ \A c \in Cell : c \notin {s, l, r} => heap'[c] = heap[c]
  BY <1>3, <1>6
<1>8. heap'[s].type = "EXPR_CONST" /\ heap'[s].value = result
      /\ heap'[l].type = "FREE" /\ heap'[r].type = "FREE"
  BY <1>3, <1>7, CellsMade
<1>9. /\ \A c \in Cell : Live(c)' <=> Live(c) /\ c \notin {l, r}
      /\ \A c \in Cell : IsMath(c)' <=> IsMath(c) /\ c # s
      /\ \A c \in Cell : IsMath(c) /\ c # s => c \notin {s, l, r} /\ heap'[c] = heap[c]
      /\ \A c \in Cell : IsMath(c) /\ c # s => Children(c)' = Children(c)
      /\ \A c \in Cell : ~(IsMath(c) /\ c # s) => Children(c)' = {}
  <2>1. \A c \in Cell : Live(c)' <=> Live(c) /\ c \notin {l, r}
    BY <1>3, <1>7, <1>8 DEF Live
  <2>2. \A c \in Cell : IsMath(c) /\ c # s => c \notin {s, l, r} /\ heap'[c] = heap[c]
    BY <1>5, <1>7
  <2>3. \A c \in Cell : IsMath(c)' <=> IsMath(c) /\ c # s
    BY <1>3, <1>5, <1>7, <1>8, <2>2 DEF IsMath
  <2>4. \A c \in Cell : IsMath(c) /\ c # s => Children(c)' = Children(c)
    BY <2>2 DEF Children
  <2>5. \A c \in Cell : ~(IsMath(c) /\ c # s) => Children(c)' = {}
    BY <2>3 DEF Children, IsMath
  <2> QED BY <2>1, <2>2, <2>3, <2>4, <2>5
(* An operation that stays has operands that stay.                         *)
<1>10. ASSUME NEW c \in Cell, IsMath(c), c # s
       PROVE  /\ heap[c].lparam \in Cell \ {l, r} /\ heap[c].rparam \in Cell \ {l, r}
              /\ Children(c) = {heap[c].lparam, heap[c].rparam}
  <2>1. /\ Children(c) = {heap[c].lparam, heap[c].rparam}
        /\ heap[c].lparam \in Cell /\ heap[c].rparam \in Cell
    BY <1>2, <1>10, HeapKind
  <2>2. l \notin Children(c) /\ r \notin Children(c)
    BY <1>2, <1>3, <1>10 DEF OwnInv
  <2> QED BY <2>1, <2>2
<1>11. MeaningInv'
  <2>1. \A t \in Tables : meaning[s][t] = result
    <3>1. \A t \in Tables : meaning[l][t] = heap[l].value /\ meaning[r][t] = heap[r].value
      BY <1>2, <1>3, <1>4 DEF MeaningInv
    <3> QED BY <1>3, <3>1
  <2>2. \A c \in Cell : c \notin {s, l, r} => (IsMath(c)' <=> IsMath(c))
    BY <1>9
  <2>3. Building /\ Building'
    BY <1>2, <1>6 DEF Building
  <2>4. ASSUME NEW c \in Cell, NEW t \in Tables
        PROVE  /\ heap'[c].type = "EXPR_CONST" => meaning'[c][t] = heap'[c].value
               /\ heap'[c].type = "EXPR_VAR" => meaning'[c][t] = t[heap'[c].ident]
               /\ IsMath(c)' => meaning'[c][t] =
                     Calc(heap'[c].opcode, meaning'[heap'[c].lparam][t], meaning'[heap'[c].rparam][t])
    <3>1. CASE c = s
      BY <1>6, <1>8, <1>9, <2>1, <3>1
    <3>2. CASE c \in {l, r}
      BY <1>5, <1>8, <1>9, <3>2
    <3>3. CASE c \notin {s, l, r}
      BY <1>2, <1>6, <1>7, <2>2, <2>3, <3>3 DEF MeaningInv
    <3> QED BY <3>1, <3>2, <3>3
  <2> QED BY <2>4 DEF MeaningInv
<1>12. OwnInv'
  <2>1. \A c \in Cell : IsMath(c)' => /\ heap'[c].lparam # heap'[c].rparam
                                      /\ heap'[heap'[c].lparam].type # "FREE"
                                      /\ heap'[heap'[c].rparam].type # "FREE"
    <3>1. ASSUME NEW c \in Cell, IsMath(c), c # s
          PROVE  /\ heap'[c].lparam # heap'[c].rparam
                 /\ heap'[heap'[c].lparam].type # "FREE"
                 /\ heap'[heap'[c].rparam].type # "FREE"
      <4>1. heap'[c] = heap[c]
        BY <1>9, <3>1
      <4>2. heap[c].lparam # heap[c].rparam /\ Live(heap[c].lparam) /\ Live(heap[c].rparam)
        BY <1>2, <3>1 DEF OwnInv
      <4>3. heap[c].lparam \in Cell \ {l, r} /\ heap[c].rparam \in Cell \ {l, r}
        BY <1>10, <3>1
      <4>4. \A d \in Cell \ {l, r} : Live(d) => heap'[d].type # "FREE"
        BY <1>9 DEF Live
      <4> QED BY <4>1, <4>2, <4>3, <4>4
    <3> QED BY <1>9, <3>1
  <2>2. \A c \in Cell : Children(c)' \subseteq Children(c)
    BY <1>9
  <2>3. \A p, q \in Cell : \A c \in Children(p)' : c \in Children(q)' => p = q
    BY <1>2, <2>2 DEF OwnInv
  <2>4. \A i \in 1..Len(operands) : operands[i] \in Cell /\ operands[i] \notin {l, r}
    BY <1>2, <1>3, SeqElement DEF OwnInv, TypeInv
  <2>5. \A i \in 1..Len(operands') : Live(operands[i])'
    <3>1. \A c \in Cell \ {l, r} : Live(c) => heap'[c].type # "FREE"
      BY <1>9 DEF Live
    <3>2. \A i \in 1..Len(operands) : heap'[operands[i]].type # "FREE"
      BY <1>2, <2>4, <3>1 DEF OwnInv
    <3> QED BY <1>6, <3>2 DEF Live
  <2>6. \A i \in 1..Len(operands'), p \in Cell : operands'[i] \notin Children(p)'
    BY <1>2, <1>6, <2>2 DEF OwnInv
  <2>7. ASSUME NEW c \in Cell, Live(c)'
        PROVE  (\E p \in Cell : c \in Children(p)') \/ (\E i \in 1..Len(operands') : operands'[i] = c)
    <3>1. Live(c) /\ c \notin {l, r}
      BY <1>9, <2>7
    <3>2. CASE \E i \in 1..Len(operands) : operands[i] = c
      BY <1>6, <3>2
    <3>3. CASE \E p \in Cell : c \in Children(p)
      <4>1. PICK p \in Cell : c \in Children(p)
        BY <3>3
      <4>2. IsMath(p) /\ p # s
        BY <1>3, <3>1, <4>1 DEF Children, IsMath
      <4> QED BY <1>9, <4>1, <4>2
    <3> QED BY <1>2, <3>1, <3>2, <3>3 DEF OwnInv
  <2>8. /\ Len(operands') = 1
        /\ \A i, j \in 1..Len(operands') : operands'[i] = operands'[j] => i = j
    BY <1>2, <1>6 DEF OwnInv
  <2>9. \A c \in Cell : IsMath(c)' => /\ heap'[c].lparam # heap'[c].rparam
                                      /\ Live(heap[c].lparam)' /\ Live(heap[c].rparam)'
    BY <2>1 DEF Live
  <2> QED BY <2>3, <2>5, <2>6, <2>7, <2>8, <2>9 DEF OwnInv
<1>13. TreeInv(fsub)'
  <2>1. fsub \in [Cell -> SUBSET Cell] /\ \A c \in Cell : fsub[c] = sub[c] \ {l, r}
    OBVIOUS
  <2>2. \A c \in Cell : Live(c)' => c \in fsub[c]
    BY <1>2, <1>9, <2>1 DEF TreeInv
  <2>3. ASSUME NEW c \in Cell, Live(c)', ~IsMath(c)'
        PROVE  fsub[c] = {c}
    <3>1. Live(c) /\ c \notin {l, r}
      BY <1>9, <2>3
    <3>2. CASE c = s
      <4>1. sub[l] = {l} /\ sub[r] = {r}
        BY <1>2, <1>3, <1>5 DEF TreeInv
      <4> QED BY <1>3, <2>1, <3>2, <4>1
    <3>3. CASE c # s
      <4>1. ~IsMath(c)
        BY <1>9, <2>3, <3>3
      <4>2. sub[c] = {c}
        BY <1>2, <3>1, <4>1 DEF TreeInv
      <4> QED BY <2>1, <3>1, <4>2
    <3> QED BY <3>2, <3>3
  <2>4. ASSUME NEW c \in Cell, IsMath(c)'
        PROVE  /\ heap'[c].lparam \in fsub[heap'[c].lparam] /\ heap'[c].rparam \in fsub[heap'[c].rparam]
               /\ fsub[c] = {c} \cup fsub[heap'[c].lparam] \cup fsub[heap'[c].rparam]
               /\ c \notin fsub[heap'[c].lparam] /\ c \notin fsub[heap'[c].rparam]
               /\ fsub[heap'[c].lparam] \cap fsub[heap'[c].rparam] = {}
    <3> DEFINE a == heap'[c].lparam
               b == heap'[c].rparam
    <3>1. IsMath(c) /\ c # s /\ heap'[c] = heap[c] /\ c \notin {l, r}
      BY <1>9, <2>4
    <3>2. a \in Cell \ {l, r} /\ b \in Cell \ {l, r}
      BY <1>10, <2>4, <3>1
    <3>3. /\ a \in sub[a] /\ b \in sub[b] /\ sub[c] = {c} \cup sub[a] \cup sub[b]
          /\ c \notin sub[a] /\ c \notin sub[b] /\ sub[a] \cap sub[b] = {}
      BY <1>2, <3>1 DEF TreeInv
    <3> HIDE DEF a, b
    <3>4. /\ a \in fsub[a] /\ b \in fsub[b]
          /\ fsub[c] = {c} \cup fsub[a] \cup fsub[b]
          /\ c \notin fsub[a] /\ c \notin fsub[b] /\ fsub[a] \cap fsub[b] = {}
      BY <2>1, <3>1, <3>2, <3>3
    <3> QED BY <3>4 DEF a, b
  <2> QED BY <2>1, <2>2, <2>3, <2>4 DEF TreeInv
<1>14. WholeInv(fsub)'
  <2>1. \A c \in Cell : fsub[c] = sub[c] \ {l, r} /\ sub[c] \subseteq Cell
    OBVIOUS
  <2>2. ASSUME NEW c \in Cell, Live(c)'
        PROVE  \A d \in fsub[c] : Live(d)'
    <3>1. ASSUME NEW d \in fsub[c]
          PROVE  d \in Cell /\ Live(d) /\ d \notin {l, r}
      BY <1>2, <1>9, <2>1, <2>2 DEF WholeInv
    <3> QED BY <1>9, <3>1
  <2>3. \A i \in 1..Len(operands) : operands[i] \in Cell
    BY <1>2, SeqElement DEF TypeInv
  <2>4. ASSUME NEW c \in Cell, Live(c)'
        PROVE  \E i \in 1..Len(operands') : c \in fsub[operands'[i]]
    <3>1. Live(c) /\ c \notin {l, r}
      BY <1>9, <2>4
    <3>2. PICK i \in 1..Len(operands) : c \in sub[operands[i]]
      BY <1>2, <3>1 DEF WholeInv
    <3> QED BY <1>6, <2>1, <2>3, <3>1, <3>2
  <2>5. \A i, j \in 1..Len(operands') : i # j => fsub[operands'[i]] \cap fsub[operands'[j]] = {}
    BY <1>2, <1>6, <2>1, <2>3 DEF WholeInv
  <2> QED BY <2>2, <2>4, <2>5 DEF WholeInv
<1> QED BY <1>9, <1>11, <1>12, <1>13, <1>14

(* A frame that stays is not the one of the expression that returns.       *)
LEMMA OtherFrame ==
    ASSUME NEW sub \in [Cell -> SUBSET Cell], TypeInv, TreeInv(sub), StackInv(sub),
           frames # <<>>, NEW k \in 1..(Len(frames) - 1)
    PROVE  /\ k \in 1..Len(frames) /\ frames[k] \in Frame
           /\ frames[k].self \in Cell /\ Kid(frames[k]) \in Cell
           /\ frames[k].props = heap[frames[k].self] /\ IsMath(frames[k].self)
           /\ frames[k].self # top.self
<1>1. /\ frames \in Seq(Frame) /\ Len(frames) \in Nat \ {0} /\ Len(frames) \in 1..Len(frames)
      /\ top.self \in Cell /\ top.props \in MathType
  BY TopKind DEF TypeInv
<1>2. k \in 1..Len(frames)
  BY <1>1
<1>3. /\ frames[k] \in Frame /\ frames[k].self \in Cell /\ frames[k].props \in MathType
      /\ Kid(frames[k]) \in Cell
  BY <1>1, <1>2, SeqElement, FrameKind
<1>4. frames[k].props = heap[frames[k].self] /\ top.props = heap[top.self]
  BY <1>1, <1>2 DEF StackInv, top
<1>5. IsMath(frames[k].self) /\ IsMath(top.self)
  BY <1>1, <1>3, <1>4, MathKind DEF IsMath
<1>6. top.self \in sub[Kid(frames[k])]
  <2>1. Live(top.self)
    BY <1>5 DEF IsMath, Live
  <2>2. top.self \in sub[top.self]
    BY <1>1, <2>1 DEF TreeInv
  <2>3. sub[top.self] \subseteq sub[Kid(frames[k])]
    BY <1>1 DEF StackInv, top
  <2> QED BY <2>2, <2>3
<1>7. frames[k].self \notin sub[Kid(frames[k])]
  <2>1. Kid(frames[k]) \in {heap[frames[k].self].lparam, heap[frames[k].self].rparam}
    BY <1>4 DEF Kid
  <2> QED BY <1>3, <1>5, <2>1 DEF TreeInv
<1> QED BY <1>2, <1>3, <1>4, <1>5, <1>6, <1>7

LEMMA PopStack ==
    ASSUME NEW sub \in [Cell -> SUBSET Cell], Inv(sub), RightReturns,
           NEW s, s = top.self,
           \A c \in Cell : IsMath(c) /\ c # s => heap'[c] = heap[c],
           NEW D, NEW fsub, fsub = [x \in Cell |-> sub[x] \ D]
    PROVE  StackInv(fsub)'
<1> DEFINE n == Len(frames)
           result == Calc(top.props.opcode, top.lvalue, ret)
<1>1. /\ UNCHANGED <<operands, table, phase, callee, todo, meaning>>
      /\ ret # Null /\ frames # <<>> /\ top.lvalue # Null
      /\ ret' = result /\ frames' = Front(frames)
  BY DEF RightReturns
<1>2. /\ phase = "evaluate" /\ callee = Null
      /\ TypeInv /\ OwnInv /\ TreeInv(sub) /\ StackInv(sub)
  BY <1>1, ReturnsTo
<1>3. s \in Cell /\ result \in Int /\ result = meaning[s][table]
  BY <1>1, ReturnFacts
<1> HIDE DEF result
<1>4. /\ frames \in Seq(Frame) /\ n \in Nat \ {0} /\ n \in 1..n
      /\ Len(frames') = n - 1
      /\ \A k \in 1..(n - 1) : frames'[k] = frames[k]
  BY <1>1, <1>2, FrontFacts, TopKind DEF TypeInv
<1>5. frames[n].self = s
  BY DEF top
<1>6. Current' = s
  <2>1. CASE n = 1
    <3>1. frames' = <<>>
      <4>1. frames' \in Seq(Frame) /\ Len(frames') = 0
        BY <1>1, <1>4, <2>1, FrontFacts
      <4> QED BY <4>1, EmptySeq
    <3>2. root = s
      BY <1>2, <1>5, <2>1 DEF StackInv
    <3> QED BY <1>1, <3>1, <3>2 DEF Current, root
  <2>2. CASE n # 1
    <3>1. n - 1 \in 1..(n - 1) /\ n \in 2..n /\ n - 1 # 0
      BY <1>4, <2>2
    <3>2. frames' # <<>>
      BY <1>4, <3>1, EmptySeq
    <3>3. Current' = Kid(frames'[n - 1])
      BY <1>4, <3>2 DEF Current, Kid, top
    <3>4. frames'[n - 1] = frames[n - 1]
      BY <1>4, <3>1
    <3>5. frames[n].self = Kid(frames[n - 1])
      BY <1>2, <3>1 DEF StackInv
    <3> QED BY <1>5, <3>3, <3>4, <3>5
  <2> QED BY <2>1, <2>2
<1>7. ret' # Null /\ ret' = meaning'[Current'][table']
  BY <1>1, <1>3, <1>6, NumAssumption
<1>8. ASSUME NEW k \in 1..(n - 1)
      PROVE  /\ frames'[k].props = heap'[frames'[k].self]
             /\ frames'[k].lvalue # Null =>
                  frames'[k].lvalue = meaning'[frames'[k].props.lparam][table']
  <2>1. /\ k \in 1..n /\ frames[k].props = heap[frames[k].self]
        /\ heap'[frames[k].self] = heap[frames[k].self]
    BY <1>1, <1>2, OtherFrame
  <2>2. frames[k].lvalue # Null => frames[k].lvalue = meaning[frames[k].props.lparam][table]
    BY <1>2, <2>1 DEF StackInv
  <2> QED BY <1>1, <1>4, <2>1, <2>2
<1>9. n - 1 >= 1 => frames'[1].self = root'
  <2>1. n - 1 >= 1 => 1 \in 1..(n - 1) /\ n >= 1
    BY <1>4
  <2> QED BY <1>1, <1>2, <1>4, <2>1 DEF StackInv, root
<1>10. ASSUME NEW k \in 2..(n - 1)
       PROVE  frames'[k].self = Kid(frames'[k - 1])
  <2>1. k \in 2..n /\ k \in 1..(n - 1) /\ k - 1 \in 1..(n - 1)
    BY <1>4
  <2> QED BY <1>2, <1>4, <2>1 DEF StackInv
<1>11. ASSUME NEW k \in 1..(n - 1), NEW j \in 1..(k - 1)
       PROVE  fsub[frames'[k].self] \subseteq fsub[Kid(frames'[j])]
  <2>1. k \in 1..n /\ j \in 1..(n - 1)
    BY <1>4
  <2>2. frames'[k] = frames[k] /\ frames'[j] = frames[j]
    BY <1>4, <2>1
  <2>3. frames[k].self \in Cell /\ Kid(frames[j]) \in Cell
    BY <1>1, <1>2, <2>1, OtherFrame
  <2>4. sub[frames[k].self] \subseteq sub[Kid(frames[j])]
    BY <1>2, <2>1 DEF StackInv
  <2> QED BY <2>2, <2>3, <2>4
<1>12. phase' = "evaluate" /\ callee' = Null /\ Len(frames') = n - 1
  BY <1>1, <1>2, <1>4
<1> HIDE DEF n
<1> QED BY <1>7, <1>8, <1>9, <1>10, <1>11, <1>12 DEF StackInv

LEMMA RightReturnsTrees ==
    ASSUME NEW sub \in [Cell -> SUBSET Cell], Inv(sub), TypeInv', RightReturns
    PROVE  TreesInv'
<1> DEFINE s == top.self
           l == heap[s].lparam
           r == heap[s].rparam
           result == Calc(top.props.opcode, top.lvalue, ret)
<1>1. /\ UNCHANGED <<operands, table, phase, callee, todo, meaning>>
      /\ ret # Null /\ frames # <<>> /\ top.lvalue # Null
  BY DEF RightReturns
<1>2. phase = "evaluate" /\ Len(operands) = 1
  BY <1>1, ReturnsTo
<1>3. Live(s) /\ Live(l) /\ Live(r) /\ FoldFrees = {l, r}
  <2>1. /\ top.props = heap[s] /\ Live(s) /\ Live(l) /\ Live(r)
    BY <1>1, ReturnFacts
  <2> QED BY <2>1 DEF FoldFrees
<1>4. fault' = (fault \/ \E c \in {s} \cup {l, r} : ~Live(c))
  BY <1>3 DEF RightReturns
<1>5. ~fault'
  <2>1. ~\E c \in {s} \cup {l, r} : ~Live(c)
    BY <1>3, Zenon
  <2> QED BY <1>4, <2>1 DEF Inv
<1>6. Building' /\ phase' \in {"parse", "idle", "evaluate"}
  BY <1>1, <1>2 DEF Building
<1> HIDE DEF l, r
<1>7. CASE Foldable
  <2>0. PICK fsub : fsub = [x \in Cell |-> sub[x] \ {l, r}]
    OBVIOUS
  <2>1. fsub \in [Cell -> SUBSET Cell]
    BY <2>0
  <2>2. /\ \A c \in Cell : IsMath(c) /\ c # s => heap'[c] = heap[c]
        /\ MeaningInv' /\ OwnInv' /\ TreeInv(fsub)' /\ WholeInv(fsub)'
    BY <1>7, <2>0, FoldTrees DEF l, r
  <2>3. StackInv(fsub)'
    BY <2>0, <2>2, PopStack
  <2>4. FreeInv(fsub)'
    BY <1>6, NotFreeing
  <2>5. Inv(fsub)'
    BY <1>5, <2>2, <2>3, <2>4 DEF Inv
  <2> QED BY <2>1, <2>5 DEF TreesInv
<1>8. CASE ~Foldable
  <2>1. heap' = heap
    BY <1>8 DEF RightReturns
  <2>2. MeaningInv' /\ (Building' => OwnInv' /\ WholeInv(sub)') /\ TreeInv(sub)'
    BY <1>1, <1>2, <2>1, SameHeap DEF Building
  <2>3. sub = [x \in Cell |-> sub[x] \ {}]
    OBVIOUS
  <2>4. StackInv(sub)'
    BY <2>1, <2>3, PopStack
  <2>5. FreeInv(sub)'
    BY <1>6, NotFreeing
  <2> QED BY <1>5, <2>2, <2>4, <2>5 DEF TreesInv, Inv
<1> QED BY <1>7, <1>8

-----------------------------------------------------------------------------
(* The parser's steps.                                                     *)

LEMMA NewCell ==
    ASSUME NEW sub \in [Cell -> SUBSET Cell], Inv(sub), phase = "parse", NEW c \in Cell, ~Live(c)
    PROVE  /\ TypeInv /\ OwnInv /\ WholeInv(sub) /\ TreeInv(sub) /\ MeaningInv
           /\ frames = <<>> /\ callee = Null /\ ret = Null
           /\ ~IsMath(c) /\ Children(c) = {}
           /\ \A p \in Cell : c \notin Children(p)
           /\ \A i \in 1..Len(operands) : operands[i] \in Cell /\ operands[i] # c /\ Live(operands[i])
           /\ \A d \in Cell : Live(d) => c \notin sub[d]
           /\ \A p \in Cell : IsMath(p) =>
                /\ heap[p].lparam \in Cell \ {c} /\ heap[p].rparam \in Cell \ {c}
                /\ Children(p) = {heap[p].lparam, heap[p].rparam}
                /\ Live(heap[p].lparam) /\ Live(heap[p].rparam)
<1>1. TypeInv /\ OwnInv /\ WholeInv(sub) /\ TreeInv(sub) /\ MeaningInv /\ StackInv(sub)
  BY DEF Inv, Building
<1>2. frames = <<>> /\ callee = Null /\ ret = Null
  BY <1>1 DEF StackInv
<1>3. ~IsMath(c) /\ Children(c) = {}
  BY DEF Live, IsMath, Children
<1>4. \A p \in Cell : IsMath(p) =>
        /\ heap[p].lparam \in Cell \ {c} /\ heap[p].rparam \in Cell \ {c}
        /\ Children(p) = {heap[p].lparam, heap[p].rparam}
        /\ Live(heap[p].lparam) /\ Live(heap[p].rparam)
  BY <1>1, HeapKind DEF OwnInv
<1>5. \A p \in Cell : c \notin Children(p)
  BY <1>4 DEF Children, IsMath
<1>6. \A i \in 1..Len(operands) : operands[i] \in Cell /\ operands[i] # c /\ Live(operands[i])
  BY <1>1, SeqElement DEF TypeInv, OwnInv
<1>7. \A d \in Cell : Live(d) => c \notin sub[d]
  BY <1>1 DEF WholeInv
<1> QED BY <1>1, <1>2, <1>3, <1>4, <1>5, <1>6, <1>7

(* What malloc changes, for a cell with an expression e.                   *)
LEMMA NewHeap ==
    ASSUME TypeInv, NEW c \in Cell, NEW e \in CellType, e.type # "FREE", NEW worth, Alloc(c, e, worth)
    PROVE  /\ heap'[c] = e /\ meaning'[c] = worth
           /\ \A x \in Cell : x # c => heap'[x] = heap[x] /\ meaning'[x] = meaning[x]
           /\ \A x \in Cell : Live(x)' <=> Live(x) \/ x = c
           /\ \A x \in Cell : x # c => (IsMath(x)' <=> IsMath(x)) /\ Children(x)' = Children(x)
<1>1. /\ heap'[c] = e /\ meaning'[c] = worth
      /\ \A x \in Cell : x # c => heap'[x] = heap[x] /\ meaning'[x] = meaning[x]
  BY DEF Alloc, TypeInv
<1>2. \A x \in Cell : Live(x)' <=> Live(x) \/ x = c
  BY <1>1 DEF Live
<1>3. \A x \in Cell : x # c => (IsMath(x)' <=> IsMath(x)) /\ Children(x)' = Children(x)
  BY <1>1 DEF IsMath, Children
<1> QED BY <1>1, <1>2, <1>3

LEMMA LeafTrees ==
    ASSUME NEW sub \in [Cell -> SUBSET Cell], Inv(sub), TypeInv', phase = "parse",
           NEW c \in Cell, NEW e \in CellType, e.type \in {"EXPR_CONST", "EXPR_VAR"},
           NEW worth, Alloc(c, e, worth),
           \A t \in Tables : /\ e.type = "EXPR_CONST" => worth[t] = e.value
                             /\ e.type = "EXPR_VAR" => worth[t] = t[e.ident],
           operands' = Append(operands, c), UNCHANGED phase, Quiet
    PROVE  TreesInv'
<1> DEFINE n == Len(operands)
<1>0. PICK fsub : fsub = [sub EXCEPT ![c] = {c}]
  OBVIOUS
<1>1. ~Live(c)
  BY DEF Alloc
<1>2. /\ TypeInv /\ OwnInv /\ WholeInv(sub) /\ TreeInv(sub) /\ MeaningInv
      /\ frames = <<>> /\ callee = Null /\ ret = Null
      /\ ~IsMath(c) /\ Children(c) = {}
      /\ \A p \in Cell : c \notin Children(p)
      /\ \A i \in 1..n : operands[i] \in Cell /\ operands[i] # c /\ Live(operands[i])
      /\ \A d \in Cell : Live(d) => c \notin sub[d]
      /\ \A p \in Cell : IsMath(p) =>
           /\ heap[p].lparam \in Cell \ {c} /\ heap[p].rparam \in Cell \ {c}
           /\ Children(p) = {heap[p].lparam, heap[p].rparam}
           /\ Live(heap[p].lparam) /\ Live(heap[p].rparam)
  BY <1>1, NewCell
<1>3. /\ heap'[c] = e /\ meaning'[c] = worth
      /\ \A x \in Cell : x # c => heap'[x] = heap[x] /\ meaning'[x] = meaning[x]
      /\ \A x \in Cell : Live(x)' <=> Live(x) \/ x = c
      /\ \A x \in Cell : x # c => (IsMath(x)' <=> IsMath(x)) /\ Children(x)' = Children(x)
  BY <1>2, NewHeap
<1>4. ~IsMath(c)' /\ Children(c)' = {}
  BY <1>3 DEF IsMath, Children
<1>5. \A x \in Cell : /\ IsMath(x)' <=> IsMath(x)
                      /\ Children(x)' = Children(x)
                      /\ IsMath(x) => x # c
  BY <1>2, <1>3, <1>4
<1>6. /\ operands \in Seq(Cell) /\ n \in Nat
      /\ Len(operands') = n + 1 /\ operands'[n + 1] = c
      /\ \A i \in 1..n : operands'[i] = operands[i]
  BY <1>2, AppendProperties, LenProperties DEF TypeInv
<1>7. \A i \in 1..(n + 1) : i \in 1..n \/ i = n + 1
  BY <1>6
<1>8. /\ fsub \in [Cell -> SUBSET Cell] /\ fsub[c] = {c}
      /\ \A x \in Cell : x # c => fsub[x] = sub[x]
  BY <1>0
<1> HIDE DEF n
<1>9. MeaningInv'
  <2>1. Building /\ Building'
    BY DEF Building
  <2>2. ASSUME NEW x \in Cell, NEW t \in Tables
        PROVE  /\ heap'[x].type = "EXPR_CONST" => meaning'[x][t] = heap'[x].value
               /\ heap'[x].type = "EXPR_VAR" => meaning'[x][t] = t[heap'[x].ident]
               /\ IsMath(x)' => meaning'[x][t] =
                     Calc(heap'[x].opcode, meaning'[heap'[x].lparam][t], meaning'[heap'[x].rparam][t])
    <3>1. CASE x = c
      BY <1>3, <1>4, <3>1
    <3>2. CASE x # c
      <4>1. heap'[x] = heap[x] /\ meaning'[x] = meaning[x]
        BY <1>3, <3>2
      <4>2. IsMath(x) => /\ meaning'[heap[x].lparam] = meaning[heap[x].lparam]
                         /\ meaning'[heap[x].rparam] = meaning[heap[x].rparam]
        BY <1>2, <1>3
      <4> QED BY <1>2, <1>5, <2>1, <4>1, <4>2 DEF MeaningInv
    <3> QED BY <3>1, <3>2
  <2> QED BY <2>2 DEF MeaningInv
<1>10. OwnInv'
  <2>1. \A x \in Cell : IsMath(x)' => /\ heap'[x].lparam # heap'[x].rparam
                                      /\ Live(heap[x].lparam)' /\ Live(heap[x].rparam)'
    <3>1. ASSUME NEW x \in Cell, IsMath(x)'
          PROVE  /\ heap'[x].lparam # heap'[x].rparam
                 /\ heap'[heap'[x].lparam].type # "FREE" /\ heap'[heap'[x].rparam].type # "FREE"
      <4>1. IsMath(x) /\ heap'[x] = heap[x]
        BY <1>3, <1>5, <3>1
      <4>2. heap[x].lparam # heap[x].rparam
        BY <1>2, <4>1 DEF OwnInv
      <4>3. /\ heap[x].lparam \in Cell \ {c} /\ heap[x].rparam \in Cell \ {c}
            /\ Live(heap[x].lparam) /\ Live(heap[x].rparam)
        BY <1>2, <4>1
      <4>4. \A d \in Cell \ {c} : Live(d) => heap'[d].type # "FREE"
        BY <1>3 DEF Live
      <4> QED BY <4>1, <4>2, <4>3, <4>4
    <3> QED BY <3>1 DEF Live
  <2>2. \A p, q \in Cell : \A x \in Children(p)' : x \in Children(q)' => p = q
    BY <1>2, <1>5 DEF OwnInv
  <2>3. \A i, j \in 1..Len(operands') : operands'[i] = operands'[j] => i = j
    <3>1. ASSUME NEW i \in 1..(n + 1), NEW j \in 1..(n + 1), operands'[i] = operands'[j]
          PROVE  i = j
      <4>1. CASE i \in 1..n /\ j \in 1..n
        BY <1>2, <1>6, <3>1, <4>1 DEF OwnInv, n
      <4>2. CASE i = n + 1 \/ j = n + 1
        BY <1>2, <1>6, <1>7, <3>1, <4>2
      <4> QED BY <1>7, <4>1, <4>2
    <3> QED BY <1>6, <3>1
  <2>4. ASSUME NEW i \in 1..(n + 1)
        PROVE  /\ heap'[operands'[i]].type # "FREE"
               /\ \A p \in Cell : operands'[i] \notin Children(p)'
    <3>1. CASE i = n + 1
      BY <1>2, <1>3, <1>5, <1>6, <3>1
    <3>2. CASE i \in 1..n
      <4>1. operands[i] \in Cell /\ operands[i] # c /\ Live(operands[i])
        BY <1>2, <3>2
      <4>2. \A p \in Cell : operands[i] \notin Children(p)
        BY <1>2, <3>2 DEF OwnInv, n
      <4> QED BY <1>3, <1>5, <1>6, <3>2, <4>1, <4>2 DEF Live
    <3> QED BY <1>7, <3>1, <3>2
  <2>5. ASSUME NEW x \in Cell, Live(x)'
        PROVE  (\E p \in Cell : x \in Children(p)') \/ (\E i \in 1..(n + 1) : operands'[i] = x)
    <3>1. CASE x = c
      <4>1. n + 1 \in 1..(n + 1)
        BY <1>6
      <4> QED BY <1>6, <3>1, <4>1
    <3>2. CASE x # c
      <4>1. Live(x)
        BY <1>3, <2>5, <3>2
      <4>2. CASE \E p \in Cell : x \in Children(p)
        BY <1>5, <4>2
      <4>3. CASE \E i \in 1..n : operands[i] = x
        <5>1. \A i \in 1..n : i \in 1..(n + 1)
          BY <1>6
        <5> QED BY <1>6, <4>3, <5>1
      <4> QED BY <1>2, <4>1, <4>2, <4>3 DEF OwnInv, n
    <3> QED BY <3>1, <3>2
  <2>6. \A i \in 1..Len(operands') : Live(operands[i])'
    BY <1>6, <2>4 DEF Live
  <2> QED BY <1>6, <2>1, <2>2, <2>3, <2>4, <2>5, <2>6 DEF OwnInv
<1>11. TreeInv(fsub)'
  <2>1. \A x \in Cell : Live(x)' => x \in fsub[x]
    BY <1>2, <1>3, <1>8 DEF TreeInv
  <2>2. \A x \in Cell : Live(x)' /\ ~IsMath(x)' => fsub[x] = {x}
    BY <1>2, <1>3, <1>5, <1>8 DEF TreeInv
  <2>3. ASSUME NEW x \in Cell, IsMath(x)'
        PROVE  /\ heap'[x].lparam \in fsub[heap'[x].lparam] /\ heap'[x].rparam \in fsub[heap'[x].rparam]
               /\ fsub[x] = {x} \cup fsub[heap'[x].lparam] \cup fsub[heap'[x].rparam]
               /\ x \notin fsub[heap'[x].lparam] /\ x \notin fsub[heap'[x].rparam]
               /\ fsub[heap'[x].lparam] \cap fsub[heap'[x].rparam] = {}
    <3>1. IsMath(x) /\ x # c /\ heap'[x] = heap[x]
      BY <1>3, <1>5, <2>3
    <3>2. /\ fsub[x] = sub[x] /\ fsub[heap[x].lparam] = sub[heap[x].lparam]
          /\ fsub[heap[x].rparam] = sub[heap[x].rparam]
      BY <1>2, <1>8, <3>1
    <3> QED BY <1>2, <3>1, <3>2 DEF TreeInv
  <2> QED BY <1>8, <2>1, <2>2, <2>3 DEF TreeInv
<1>12. WholeInv(fsub)'
  <2>1. ASSUME NEW x \in Cell, Live(x)'
        PROVE  \A d \in fsub[x] : Live(d)'
    <3>1. CASE x = c
      BY <1>3, <1>8, <3>1
    <3>2. CASE x # c
      <4>1. Live(x) /\ fsub[x] = sub[x] /\ sub[x] \subseteq Cell
        BY <1>3, <1>8, <2>1, <3>2
      <4> QED BY <1>2, <1>3, <4>1 DEF WholeInv
    <3> QED BY <3>1, <3>2
  <2>2. ASSUME NEW x \in Cell, Live(x)'
        PROVE  \E i \in 1..(n + 1) : x \in fsub[operands'[i]]
    <3>1. n + 1 \in 1..(n + 1) /\ \A i \in 1..n : i \in 1..(n + 1)
      BY <1>6
    <3>2. CASE x = c
      BY <1>6, <1>8, <3>1, <3>2
    <3>3. CASE x # c
      <4>1. Live(x)
        BY <1>3, <2>2, <3>3
      <4>2. PICK i \in 1..n : x \in sub[operands[i]]
        BY <1>2, <4>1 DEF WholeInv, n
      <4>3. operands'[i] = operands[i] /\ fsub[operands[i]] = sub[operands[i]]
        BY <1>2, <1>6, <1>8
      <4> QED BY <3>1, <4>2, <4>3
    <3> QED BY <3>2, <3>3
  <2>3. ASSUME NEW i \in 1..(n + 1), NEW j \in 1..(n + 1), i # j
        PROVE  fsub[operands'[i]] \cap fsub[operands'[j]] = {}
    <3>1. \A k \in 1..n : /\ operands'[k] = operands[k] /\ fsub[operands[k]] = sub[operands[k]]
                          /\ c \notin sub[operands[k]]
      BY <1>2, <1>6, <1>8
    <3>2. CASE i \in 1..n /\ j \in 1..n
      BY <1>2, <2>3, <3>1, <3>2 DEF WholeInv, n
    <3>3. CASE i = n + 1 /\ j \in 1..n
      BY <1>6, <1>8, <3>1, <3>3
    <3>4. CASE i \in 1..n /\ j = n + 1
      BY <1>6, <1>8, <3>1, <3>4
    <3> QED BY <1>7, <2>3, <3>2, <3>3, <3>4
  <2> QED BY <1>6, <2>1, <2>2, <2>3 DEF WholeInv
<1>13. StackInv(fsub)'
  BY <1>2, NoFrames DEF Quiet
<1>14. FreeInv(fsub)'
  BY NotFreeing
<1>15. ~fault'
  BY DEF Quiet, Inv
<1>16. Inv(fsub)'
  BY <1>9, <1>10, <1>11, <1>12, <1>13, <1>14, <1>15 DEF Inv
<1> QED BY <1>8, <1>16 DEF TreesInv

LEMMA ConstTrees ==
    ASSUME NEW sub \in [Cell -> SUBSET Cell], Inv(sub), TypeInv', NEW m \in Num, const_create(m)
    PROVE  TreesInv'
<1> DEFINE worth == [t \in Tables |-> m]
<1>1. PICK c \in Cell : Alloc(c, ConstCell(m), worth) /\ operands' = Append(operands, c)
  BY DEF const_create
<1>2. /\ ConstCell(m) \in CellType /\ ConstCell(m).type = "EXPR_CONST"
      /\ \A t \in Tables : worth[t] = ConstCell(m).value
  BY NumAssumption, CellsMade
<1>3. phase = "parse" /\ UNCHANGED phase /\ Quiet
  BY DEF const_create
<1> HIDE DEF worth
<1> QED BY <1>1, <1>2, <1>3, LeafTrees

LEMMA VarTrees ==
    ASSUME NEW sub \in [Cell -> SUBSET Cell], Inv(sub), TypeInv', NEW id \in Id, var_create(id)
    PROVE  TreesInv'
<1> DEFINE worth == [t \in Tables |-> t[id]]
<1>1. PICK c \in Cell : Alloc(c, VarCell(id), worth) /\ operands' = Append(operands, c)
  BY DEF var_create
<1>2. /\ VarCell(id) \in CellType /\ VarCell(id).type = "EXPR_VAR"
      /\ \A t \in Tables : worth[t] = t[VarCell(id).ident]
  BY CellsMade
<1>3. phase = "parse" /\ UNCHANGED phase /\ Quiet
  BY DEF var_create
<1> HIDE DEF worth
<1> QED BY <1>1, <1>2, <1>3, LeafTrees

LEMMA MathTrees ==
    ASSUME NEW sub \in [Cell -> SUBSET Cell], Inv(sub), TypeInv', NEW op \in Ops, math_create(op)
    PROVE  TreesInv'
<1> DEFINE n == Len(operands)
           l == operands[n - 1]
           r == operands[n]
           e == MathCell(op, l, r)
           worth == [t \in Tables |-> Calc(op, meaning[l][t], meaning[r][t])]
<1>1. PICK c \in Cell : /\ Alloc(c, e, worth)
                        /\ operands' = Append(SubSeq(operands, 1, n - 2), c)
  BY DEF math_create
<1>2. ~Live(c) /\ phase = "parse" /\ phase' = "parse" /\ Quiet /\ n >= 2
  BY <1>1 DEF math_create, Alloc
<1>3. PICK fsub : fsub = [sub EXCEPT ![c] = {c} \cup sub[l] \cup sub[r]]
  OBVIOUS
<1>4. /\ TypeInv /\ OwnInv /\ WholeInv(sub) /\ TreeInv(sub) /\ MeaningInv
      /\ frames = <<>> /\ callee = Null /\ ret = Null
      /\ ~IsMath(c) /\ Children(c) = {}
      /\ \A p \in Cell : c \notin Children(p)
      /\ \A i \in 1..n : operands[i] \in Cell /\ operands[i] # c /\ Live(operands[i])
      /\ \A d \in Cell : Live(d) => c \notin sub[d]
      /\ \A p \in Cell : IsMath(p) =>
           /\ heap[p].lparam \in Cell \ {c} /\ heap[p].rparam \in Cell \ {c}
           /\ Children(p) = {heap[p].lparam, heap[p].rparam}
           /\ Live(heap[p].lparam) /\ Live(heap[p].rparam)
  BY <1>2, NewCell
<1>5. /\ n \in Nat /\ operands \in Seq(Cell) /\ Len(operands') = n - 1
      /\ \A i \in 1..(n - 2) : operands'[i] = operands[i]
      /\ operands'[n - 1] = c
  <2>1. operands \in Seq(Cell) /\ n \in Nat
    BY <1>4, LenProperties DEF TypeInv
  <2>2. n >= 2 /\ operands' = Append(SubSeq(operands, 1, n - 2), c)
    BY <1>1, <1>2
  <2>3. /\ Len(operands') = n - 1
        /\ operands'[n - 1] = c
        /\ \A i \in 1..(n - 2) : operands'[i] = operands[i]
    <3>1. LET t == Append(SubSeq(operands, 1, n - 2), c)
          IN  /\ Len(t) = n - 1
              /\ \A i \in 1..(n - 2) : t[i] = operands[i]
              /\ t[n - 1] = c
      BY <2>1, <2>2, JoinFacts
    <3> QED BY <2>2, <3>1
  <2> QED BY <2>1, <2>3
<1>6. /\ \A i \in 1..(n - 1) : i \in 1..(n - 2) \/ i = n - 1
      /\ \A i \in 1..n : i \in 1..(n - 2) \/ i = n - 1 \/ i = n
      /\ \A i \in 1..(n - 2) : i \in 1..n /\ i # n - 1 /\ i # n /\ i \in 1..(n - 1)
      /\ n \in 1..n /\ n - 1 \in 1..n /\ n - 1 # n /\ n - 1 \in 1..(n - 1)
  BY <1>2, <1>5
<1>7. /\ l \in Cell /\ r \in Cell /\ l # c /\ r # c /\ Live(l) /\ Live(r) /\ l # r
      /\ \A p \in Cell : l \notin Children(p) /\ r \notin Children(p)
      /\ sub[l] \cap sub[r] = {} /\ c \notin sub[l] /\ c \notin sub[r]
      /\ l \in sub[l] /\ r \in sub[r]
      /\ \A i \in 1..(n - 2) : /\ operands[i] # l /\ operands[i] # r
                               /\ sub[operands[i]] \cap sub[l] = {}
                               /\ sub[operands[i]] \cap sub[r] = {}
  <2>1. l \in Cell /\ r \in Cell /\ l # c /\ r # c /\ Live(l) /\ Live(r)
    BY <1>4, <1>6
  <2>2. /\ l # r /\ \A p \in Cell : l \notin Children(p) /\ r \notin Children(p)
        /\ \A i \in 1..(n - 2) : operands[i] # l /\ operands[i] # r
    BY <1>4, <1>6 DEF OwnInv
  <2>3. /\ sub[l] \cap sub[r] = {}
        /\ \A i \in 1..(n - 2) : /\ sub[operands[i]] \cap sub[l] = {}
                                 /\ sub[operands[i]] \cap sub[r] = {}
    BY <1>4, <1>6 DEF WholeInv
  <2>4. c \notin sub[l] /\ c \notin sub[r] /\ l \in sub[l] /\ r \in sub[r]
    BY <1>4, <2>1 DEF TreeInv
  <2> QED BY <2>1, <2>2, <2>3, <2>4
<1>8. /\ e \in CellType /\ e.type = "EXPR_MATH" /\ e.opcode = op /\ e.lparam = l /\ e.rparam = r
  BY <1>7, CellsMade
<1>9. \A t \in Tables : worth[t] = Calc(op, meaning[l][t], meaning[r][t])
  OBVIOUS
<1> HIDE DEF e, worth
<1>10. /\ heap'[c] = e /\ meaning'[c] = worth
       /\ \A x \in Cell : x # c => heap'[x] = heap[x] /\ meaning'[x] = meaning[x]
       /\ \A x \in Cell : Live(x)' <=> Live(x) \/ x = c
       /\ \A x \in Cell : x # c => (IsMath(x)' <=> IsMath(x)) /\ Children(x)' = Children(x)
  BY <1>1, <1>4, <1>8, NewHeap
<1>11. IsMath(c)' /\ Children(c)' = {l, r}
  BY <1>8, <1>10 DEF IsMath, Children
<1>12. \A x \in Cell : IsMath(x)' <=> IsMath(x) \/ x = c
  BY <1>4, <1>10, <1>11
<1>13. /\ fsub \in [Cell -> SUBSET Cell] /\ fsub[c] = {c} \cup sub[l] \cup sub[r]
       /\ \A x \in Cell : x # c => fsub[x] = sub[x]
  BY <1>3, <1>7
<1> HIDE DEF l, r
<1>14. MeaningInv'
  <2>1. Building /\ Building'
    BY <1>2 DEF Building
  <2>2. ASSUME NEW x \in Cell, NEW t \in Tables
        PROVE  /\ heap'[x].type = "EXPR_CONST" => meaning'[x][t] = heap'[x].value
               /\ heap'[x].type = "EXPR_VAR" => meaning'[x][t] = t[heap'[x].ident]
               /\ IsMath(x)' => meaning'[x][t] =
                     Calc(heap'[x].opcode, meaning'[heap'[x].lparam][t], meaning'[heap'[x].rparam][t])
    <3>1. CASE x = c
      BY <1>7, <1>8, <1>9, <1>10, <3>1
    <3>2. CASE x # c
      <4>1. heap'[x] = heap[x] /\ meaning'[x] = meaning[x]
        BY <1>10, <3>2
      <4>2. IsMath(x) => /\ meaning'[heap[x].lparam] = meaning[heap[x].lparam]
                         /\ meaning'[heap[x].rparam] = meaning[heap[x].rparam]
        BY <1>4, <1>10
      <4> QED BY <1>4, <1>12, <2>1, <3>2, <4>1, <4>2 DEF MeaningInv
    <3> QED BY <3>1, <3>2
  <2> QED BY <2>2 DEF MeaningInv
<1>15. OwnInv'
  <2>1. \A x \in Cell : IsMath(x)' => /\ heap'[x].lparam # heap'[x].rparam
                                      /\ Live(heap[x].lparam)' /\ Live(heap[x].rparam)'
    <3>1. ASSUME NEW x \in Cell, IsMath(x)'
          PROVE  /\ heap'[x].lparam # heap'[x].rparam
                 /\ heap'[heap'[x].lparam].type # "FREE" /\ heap'[heap'[x].rparam].type # "FREE"
      <4>0. \A d \in Cell \ {c} : Live(d) => heap'[d].type # "FREE"
        BY <1>10 DEF Live
      <4>1. CASE x # c
        <5>1. IsMath(x) /\ heap'[x] = heap[x]
          BY <1>10, <1>12, <3>1, <4>1
        <5>2. heap[x].lparam # heap[x].rparam
          BY <1>4, <5>1 DEF OwnInv
        <5>3. /\ heap[x].lparam \in Cell \ {c} /\ heap[x].rparam \in Cell \ {c}
              /\ Live(heap[x].lparam) /\ Live(heap[x].rparam)
          BY <1>4, <5>1
        <5> QED BY <4>0, <5>1, <5>2, <5>3
      <4>2. CASE x = c
        BY <1>7, <1>8, <1>10, <4>0, <4>2
      <4> QED BY <4>1, <4>2
    <3> QED BY <3>1 DEF Live
  <2>2. ASSUME NEW p \in Cell, NEW q \in Cell, NEW x \in Children(p)', x \in Children(q)'
        PROVE  p = q
    <3>1. CASE p # c /\ q # c
      BY <1>4, <1>10, <2>2, <3>1 DEF OwnInv
    <3>2. CASE p = c /\ q # c
      BY <1>7, <1>10, <1>11, <2>2, <3>2
    <3>3. CASE p # c /\ q = c
      BY <1>7, <1>10, <1>11, <2>2, <3>3
    <3> QED BY <3>1, <3>2, <3>3
  <2>3. ASSUME NEW i \in 1..(n - 1), NEW j \in 1..(n - 1), operands'[i] = operands'[j]
        PROVE  i = j
    <3>1. CASE i \in 1..(n - 2) /\ j \in 1..(n - 2)
      BY <1>4, <1>5, <1>6, <2>3, <3>1 DEF OwnInv
    <3>2. CASE i = n - 1 \/ j = n - 1
      BY <1>4, <1>5, <1>6, <2>3, <3>2
    <3> QED BY <1>6, <3>1, <3>2
  <2>4. ASSUME NEW i \in 1..(n - 1)
        PROVE  /\ heap'[operands'[i]].type # "FREE"
               /\ \A p \in Cell : operands'[i] \notin Children(p)'
    <3>1. CASE i = n - 1
      BY <1>4, <1>5, <1>7, <1>8, <1>10, <1>11, <3>1
    <3>2. CASE i \in 1..(n - 2)
      <4>1. operands[i] \in Cell /\ operands[i] # c /\ Live(operands[i])
        BY <1>4, <1>6, <3>2
      <4>2. \A p \in Cell : operands[i] \notin Children(p)
        BY <1>4, <1>6, <3>2 DEF OwnInv
      <4>3. operands[i] \notin {l, r}
        BY <1>7, <3>2
      <4> QED BY <1>5, <1>10, <1>11, <3>2, <4>1, <4>2, <4>3 DEF Live
    <3> QED BY <1>6, <3>1, <3>2
  <2>5. ASSUME NEW x \in Cell, Live(x)'
        PROVE  (\E p \in Cell : x \in Children(p)') \/ (\E i \in 1..(n - 1) : operands'[i] = x)
    <3>1. CASE x = c
      BY <1>5, <1>6, <3>1
    <3>2. CASE x # c
      <4>1. Live(x)
        BY <1>10, <2>5, <3>2
      <4>2. CASE \E p \in Cell : x \in Children(p)
        BY <1>4, <1>10, <4>2
      <4>3. CASE \E i \in 1..n : operands[i] = x
        <5>1. PICK i \in 1..n : operands[i] = x
          BY <4>3
        <5>2. CASE i \in 1..(n - 2)
          BY <1>5, <1>6, <5>1, <5>2
        <5>3. CASE i \in {n - 1, n}
          BY <1>11, <5>1, <5>3 DEF l, r
        <5> QED BY <1>6, <5>2, <5>3
      <4> QED BY <1>4, <4>1, <4>2, <4>3 DEF OwnInv
    <3> QED BY <3>1, <3>2
  <2>6. \A i \in 1..Len(operands') : Live(operands[i])'
    BY <1>5, <2>4 DEF Live
  <2> HIDE DEF n
  <2> QED BY <1>2, <1>5, <2>1, <2>2, <2>3, <2>4, <2>5, <2>6 DEF OwnInv
<1>16. TreeInv(fsub)'
  <2>1. \A x \in Cell : Live(x)' => x \in fsub[x]
    BY <1>4, <1>10, <1>13 DEF TreeInv
  <2>2. \A x \in Cell : Live(x)' /\ ~IsMath(x)' => fsub[x] = {x}
    BY <1>4, <1>10, <1>12, <1>13 DEF TreeInv
  <2>3. ASSUME NEW x \in Cell, IsMath(x)'
        PROVE  /\ heap'[x].lparam \in fsub[heap'[x].lparam] /\ heap'[x].rparam \in fsub[heap'[x].rparam]
               /\ fsub[x] = {x} \cup fsub[heap'[x].lparam] \cup fsub[heap'[x].rparam]
               /\ x \notin fsub[heap'[x].lparam] /\ x \notin fsub[heap'[x].rparam]
               /\ fsub[heap'[x].lparam] \cap fsub[heap'[x].rparam] = {}
    <3>1. CASE x # c
      <4>1. IsMath(x) /\ heap'[x] = heap[x]
        BY <1>10, <1>12, <2>3, <3>1
      <4>2. /\ fsub[x] = sub[x] /\ fsub[heap[x].lparam] = sub[heap[x].lparam]
            /\ fsub[heap[x].rparam] = sub[heap[x].rparam]
        BY <1>4, <1>13, <3>1, <4>1
      <4> QED BY <1>4, <4>1, <4>2 DEF TreeInv
    <3>2. CASE x = c
      BY <1>7, <1>8, <1>10, <1>13, <3>2
    <3> QED BY <3>1, <3>2
  <2> QED BY <1>13, <2>1, <2>2, <2>3 DEF TreeInv
<1>17. WholeInv(fsub)'
  <2>1. ASSUME NEW x \in Cell, Live(x)'
        PROVE  \A d \in fsub[x] : Live(d)'
    <3>1. \A y \in Cell : Live(y) => \A d \in sub[y] : d \in Cell /\ Live(d)'
      BY <1>4, <1>10 DEF WholeInv
    <3>2. CASE x = c
      BY <1>7, <1>10, <1>13, <3>1, <3>2
    <3>3. CASE x # c
      BY <1>10, <1>13, <2>1, <3>1, <3>3
    <3> QED BY <3>2, <3>3
  <2>2. ASSUME NEW x \in Cell, Live(x)'
        PROVE  \E i \in 1..(n - 1) : x \in fsub[operands'[i]]
    <3>1. CASE x = c
      BY <1>5, <1>6, <1>13, <3>1
    <3>2. CASE x # c
      <4>1. Live(x)
        BY <1>10, <2>2, <3>2
      <4>2. PICK i \in 1..n : x \in sub[operands[i]]
        BY <1>4, <4>1 DEF WholeInv
      <4>3. CASE i \in 1..(n - 2)
        <5>1. operands'[i] = operands[i] /\ fsub[operands[i]] = sub[operands[i]]
          BY <1>4, <1>5, <1>6, <1>13, <4>3
        <5> QED BY <1>6, <4>2, <4>3, <5>1
      <4>4. CASE i \in {n - 1, n}
        <5>1. x \in sub[l] \cup sub[r]
          BY <4>2, <4>4 DEF l, r
        <5> QED BY <1>5, <1>6, <1>13, <5>1
      <4> QED BY <1>6, <4>3, <4>4
    <3> QED BY <3>1, <3>2
  <2>3. ASSUME NEW i \in 1..(n - 1), NEW j \in 1..(n - 1), i # j
        PROVE  fsub[operands'[i]] \cap fsub[operands'[j]] = {}
    <3>1. ASSUME NEW k \in 1..(n - 2)
          PROVE  /\ operands'[k] = operands[k] /\ fsub[operands[k]] = sub[operands[k]]
                 /\ sub[operands[k]] \cap fsub[c] = {}
      <4>1. operands'[k] = operands[k]
        BY <1>5
      <4>2. operands[k] \in Cell /\ operands[k] # c /\ Live(operands[k])
        BY <1>4, <1>6
      <4>3. c \notin sub[operands[k]]
        BY <1>4, <4>2
      <4>4. sub[operands[k]] \cap sub[l] = {} /\ sub[operands[k]] \cap sub[r] = {}
        BY <1>7
      <4> QED BY <1>13, <4>1, <4>2, <4>3, <4>4
    <3>2. CASE i \in 1..(n - 2) /\ j \in 1..(n - 2)
      <4>1. i \in 1..n /\ j \in 1..n
        BY <1>6, <3>2
      <4>2. sub[operands[i]] \cap sub[operands[j]] = {}
        BY <1>4, <2>3, <4>1 DEF WholeInv
      <4> QED BY <3>1, <3>2, <4>2
    <3>3. CASE i = n - 1 /\ j \in 1..(n - 2)
      BY <1>5, <3>1, <3>3
    <3>4. CASE i \in 1..(n - 2) /\ j = n - 1
      BY <1>5, <3>1, <3>4
    <3> QED BY <1>6, <2>3, <3>2, <3>3, <3>4
  <2> HIDE DEF n
  <2> QED BY <1>5, <2>1, <2>2, <2>3 DEF WholeInv
<1>18. StackInv(fsub)'
  BY <1>2, <1>4, NoFrames DEF Quiet
<1>19. FreeInv(fsub)'
  BY <1>2, NotFreeing
<1>20. ~fault'
  BY <1>2 DEF Quiet, Inv
<1>21. Inv(fsub)'
  BY <1>14, <1>15, <1>16, <1>17, <1>18, <1>19, <1>20 DEF Inv
<1> QED BY <1>13, <1>21 DEF TreesInv

-----------------------------------------------------------------------------
(* The steps of math_free.                                                 *)

LEMMA SpanOf ==
    ASSUME NEW sub \in [Cell -> SUBSET Cell], NEW c \in Cell
    PROVE  /\ Span(sub, Visit(c)) = sub[c] /\ Visit(c).cell = c
           /\ Span(sub, Release(c)) = {c} /\ Release(c).cell = c
BY StepMade DEF Span

LEMMA FreeStartTrees ==
    ASSUME NEW sub \in [Cell -> SUBSET Cell], Inv(sub), TypeInv', math_free
    PROVE  Inv(sub)'
<1>1. /\ UNCHANGED <<heap, operands, table, callee, frames, meaning, fault>>
      /\ phase = "idle" /\ phase' = "free" /\ ret' = Null /\ todo' = <<Visit(root)>>
  BY DEF math_free
<1>2. TypeInv /\ OwnInv /\ WholeInv(sub) /\ TreeInv(sub) /\ StackInv(sub)
  BY <1>1 DEF Inv, Building
<1>3. Len(operands) = 1 /\ root \in Cell /\ Live(root)
  BY <1>1, <1>2, RootLive
<1>4. MeaningInv' /\ (Building' => OwnInv' /\ WholeInv(sub)') /\ TreeInv(sub)'
  BY <1>1, <1>3, SameHeap DEF Building
<1>5. StackInv(sub)'
  <2>1. callee = Null /\ frames = <<>>
    BY <1>1, <1>2 DEF StackInv
  <2> QED BY <1>1, <2>1, NoFrames
<1>6. FreeInv(sub)'
  <2>1. /\ Len(todo') = 1 /\ todo'[1] = Visit(root)
        /\ \A i \in 1..1 : i = 1
    BY <1>1
  <2>2. Span(sub, todo'[1]) = sub[root] /\ todo'[1].cell = root
    BY <1>3, <2>1, SpanOf
  <2>3. root \in sub[root] /\ \A c \in sub[root] : Live(c)'
    BY <1>1, <1>2, <1>3 DEF TreeInv, WholeInv, Live
  <2>4. \A c \in Cell : Live(c)' => c \in sub[root]
    BY <1>1, <1>2, <1>3 DEF WholeInv, Live, root
  <2>5. 1 \in 1..1
    OBVIOUS
  <2> QED BY <1>1, <2>1, <2>2, <2>3, <2>4, <2>5 DEF FreeInv
<1> QED BY <1>1, <1>4, <1>5, <1>6 DEF Inv, Building

LEMMA FreedTrees ==
    ASSUME NEW sub \in [Cell -> SUBSET Cell], Inv(sub), TypeInv', Freed
    PROVE  Inv(sub)'
<1>1. /\ UNCHANGED <<heap, operands, table, callee, frames, ret, todo, meaning, fault>>
      /\ phase = "free" /\ phase' = "end" /\ todo = <<>>
  BY DEF Freed
<1>2. MeaningInv' /\ (Building' => OwnInv' /\ WholeInv(sub)') /\ TreeInv(sub)'
  BY <1>1, SameHeap DEF Building
<1>3. StackInv(sub)'
  <2>1. callee = Null /\ frames = <<>>
    BY <1>1 DEF Inv, StackInv
  <2> QED BY <1>1, <2>1, NoFrames
<1>4. FreeInv(sub)'
  <2>1. Len(todo) = 0 /\ FreeInv(sub)
    BY <1>1 DEF Inv
  <2>2. \A c \in Cell : ~Live(c)
    BY <1>1, <2>1 DEF FreeInv
  <2> QED BY <1>1, <2>2 DEF FreeInv, Live
<1> QED BY <1>1, <1>2, <1>3, <1>4 DEF Inv, Building

(* The step that is next, and what is pending after it.                    *)
LEMMA NextToFree ==
    ASSUME NEW sub \in [Cell -> SUBSET Cell], Inv(sub), phase = "free", todo # <<>>,
           NEW c, c = Head(todo).cell
    PROVE  /\ TypeInv /\ TreeInv(sub) /\ MeaningInv /\ frames = <<>> /\ callee = Null
           /\ todo \in Seq(Step) /\ Len(todo) \in Nat \ {0}
           /\ Head(todo) = todo[1] /\ todo[1] \in Step
           /\ c \in Cell /\ Live(c) /\ c \in Span(sub, todo[1])
           /\ \A i \in 1..Len(todo) : /\ Span(sub, todo[i]) \subseteq Cell
                                      /\ \A d \in Span(sub, todo[i]) : Live(d)
                                      /\ todo[i].cell \in Span(sub, todo[i])
           /\ \A i, j \in 1..Len(todo) :
                i # j => Span(sub, todo[i]) \cap Span(sub, todo[j]) = {}
           /\ \A d \in Cell : Live(d) => \E i \in 1..Len(todo) : d \in Span(sub, todo[i])
<1>1. TypeInv /\ TreeInv(sub) /\ MeaningInv /\ FreeInv(sub) /\ StackInv(sub)
  BY DEF Inv
<1>2. frames = <<>> /\ callee = Null
  BY <1>1 DEF StackInv
<1>3. todo \in Seq(Step)
  BY <1>1 DEF TypeInv
<1>4. Len(todo) \in Nat \ {0} /\ Head(todo) = todo[1] /\ todo[1] \in Step
  BY <1>3, TailFacts
<1>5. c \in Cell /\ c = todo[1].cell
  BY <1>4 DEF Step
<1>6. /\ \A i \in 1..Len(todo) : \A d \in Span(sub, todo[i]) : Live(d)
      /\ \A i \in 1..Len(todo) : todo[i].cell \in Span(sub, todo[i])
      /\ \A i, j \in 1..Len(todo) : i # j => Span(sub, todo[i]) \cap Span(sub, todo[j]) = {}
      /\ \A d \in Cell : Live(d) => \E i \in 1..Len(todo) : d \in Span(sub, todo[i])
  BY <1>1 DEF FreeInv
<1>7. ASSUME NEW i \in 1..Len(todo)
      PROVE  Span(sub, todo[i]) \subseteq Cell
  <2>1. todo[i] \in Step
    BY <1>3, SeqElement
  <2>2. todo[i].cell \in Cell
    BY <2>1 DEF Step
  <2> QED BY <2>2 DEF Span
<1>8. 1 \in 1..Len(todo)
  BY <1>4
<1>9. Live(c) /\ c \in Span(sub, todo[1])
  BY <1>5, <1>6, <1>8
<1> QED BY <1>1, <1>2, <1>3, <1>4, <1>5, <1>6, <1>7, <1>9

LEMMA FreeStepTrees ==
    ASSUME NEW sub \in [Cell -> SUBSET Cell], Inv(sub), TypeInv', FreeStep
    PROVE  Inv(sub)'
<1> DEFINE n == Len(todo)
           c == Head(todo).cell
           e == heap[c]
           S(i) == Span(sub, todo[i])
<1>1. /\ UNCHANGED <<operands, table, phase, callee, frames, ret, meaning>>
      /\ phase = "free" /\ todo # <<>>
      /\ fault' = (fault \/ ~Live(c))
  BY DEF FreeStep
<1>2. /\ TypeInv /\ TreeInv(sub) /\ MeaningInv /\ frames = <<>> /\ callee = Null
      /\ todo \in Seq(Step) /\ n \in Nat \ {0}
      /\ Head(todo) = todo[1] /\ todo[1] \in Step
      /\ c \in Cell /\ Live(c) /\ c \in S(1)
      /\ \A i \in 1..n : /\ S(i) \subseteq Cell
                         /\ \A d \in S(i) : Live(d)
                         /\ todo[i].cell \in S(i)
      /\ \A i, j \in 1..n : i # j => S(i) \cap S(j) = {}
      /\ \A d \in Cell : Live(d) => \E i \in 1..n : d \in S(i)
  BY <1>1, NextToFree
<1>3. ~fault'
  BY <1>1, <1>2 DEF Inv
<1>4. ~Building' /\ phase' = "free"
  BY <1>1 DEF Building
<1>5. 1 \in 1..n /\ \A i \in 2..n : i \in 1..n /\ i # 1
  BY <1>2
<1>6. \A i \in 1..n : i = 1 \/ i \in 2..n
  BY <1>2
<1>7. StackInv(sub)'
  BY <1>1, <1>2, NoFrames
<1> HIDE DEF c
(* An operation is visited: its operands are next, and then itself.        *)
<1>8. CASE Head(todo).do = "visit" /\ e.type = "EXPR_MATH"
  <2> DEFINE l == e.lparam
             r == e.rparam
  <2>1. /\ heap' = heap
        /\ todo' = <<Visit(l), Visit(r)>> \o <<Release(c)>> \o Tail(todo)
    BY <1>8 DEF FreeStep, Below, c
  <2>2. IsMath(c) /\ l \in Cell /\ r \in Cell
    BY <1>2, <1>8, HeapKind DEF IsMath
  <2>3. /\ l \in sub[l] /\ r \in sub[r] /\ sub[c] = {c} \cup sub[l] \cup sub[r]
        /\ c \notin sub[l] /\ c \notin sub[r] /\ sub[l] \cap sub[r] = {}
    BY <1>2, <2>2 DEF TreeInv
  <2>4. S(1) = sub[c]
    BY <1>2, <1>8 DEF Span, c
  <2>5. Visit(l) \in Step /\ Visit(r) \in Step /\ Release(c) \in Step
    BY <1>2, <2>2, StepMade
  <2>6. /\ Len(todo') = n + 2
        /\ todo'[1] = Visit(l) /\ todo'[2] = Visit(r) /\ todo'[3] = Release(c)
        /\ \A i \in 4..(n + 2) : i - 2 \in 2..n /\ todo'[i] = todo[i - 2]
    BY <1>1, <1>2, <2>1, <2>5, ThreeFacts
  <2> DEFINE T(i) == Span(sub, todo'[i])
  <2>7. /\ T(1) = sub[l] /\ T(2) = sub[r] /\ T(3) = {c}
        /\ todo'[1].cell = l /\ todo'[2].cell = r /\ todo'[3].cell = c
        /\ \A i \in 4..(n + 2) : /\ i - 2 \in 2..n /\ T(i) = S(i - 2)
                                 /\ todo'[i].cell = todo[i - 2].cell
    BY <1>2, <2>2, <2>6, SpanOf
  <2>8. \A i \in 1..(n + 2) : i \in {1, 2, 3} \/ i \in 4..(n + 2)
    BY <1>2
  <2>9. /\ \A i \in {1, 2, 3} : i \in 1..(n + 2)
        /\ \A i \in 2..n : i + 2 \in 4..(n + 2) /\ i + 2 \in 1..(n + 2) /\ i + 2 - 2 = i
        /\ \A i, j \in 4..(n + 2) : i # j => i - 2 # j - 2
    BY <1>2
  <2> HIDE DEF S, T, n, e, l, r
  <2>10. \A i \in {1, 2, 3} : T(i) \subseteq S(1) /\ todo'[i].cell \in T(i)
    BY <2>3, <2>4, <2>7
  <2>11. ASSUME NEW i \in 1..(n + 2)
         PROVE  /\ \A d \in T(i) : d \in Cell /\ Live(d)
                /\ todo'[i].cell \in T(i)
    <3>1. CASE i \in {1, 2, 3}
      BY <1>2, <1>5, <2>10, <3>1
    <3>2. CASE i \in 4..(n + 2)
      BY <1>2, <1>5, <2>7, <3>2
    <3> QED BY <2>8, <3>1, <3>2
  <2>12. ASSUME NEW i \in 1..(n + 2), NEW j \in 1..(n + 2), i # j
         PROVE  T(i) \cap T(j) = {}
    <3>0. \A k \in 4..(n + 2) : T(k) \cap S(1) = {}
      BY <1>2, <1>5, <2>7
    <3>1. CASE i \in {1, 2, 3} /\ j \in {1, 2, 3}
      BY <2>3, <2>7, <2>12, <3>1
    <3>2. CASE i \in {1, 2, 3} /\ j \in 4..(n + 2)
      BY <2>10, <3>0, <3>2
    <3>3. CASE i \in 4..(n + 2) /\ j \in {1, 2, 3}
      BY <2>10, <3>0, <3>3
    <3>4. CASE i \in 4..(n + 2) /\ j \in 4..(n + 2)
      <4>1. i - 2 \in 1..n /\ j - 2 \in 1..n /\ i - 2 # j - 2
        BY <1>5, <2>7, <2>9, <2>12, <3>4
      <4> QED BY <1>2, <2>7, <3>4, <4>1
    <3> QED BY <2>8, <3>1, <3>2, <3>3, <3>4
  <2>13. ASSUME NEW d \in Cell, Live(d)
         PROVE  \E i \in 1..(n + 2) : d \in T(i)
    <3>1. PICK i \in 1..n : d \in S(i)
      BY <1>2, <2>13
    <3>2. CASE i = 1
      BY <2>3, <2>4, <2>7, <2>9, <3>1, <3>2
    <3>3. CASE i \in 2..n
      <4>1. i + 2 \in 1..(n + 2) /\ T(i + 2) = S(i)
        BY <2>7, <2>9, <3>3
      <4> QED BY <3>1, <4>1
    <3> QED BY <1>6, <3>2, <3>3
  <2>14. FreeInv(sub)'
    <3>1. \A d \in Cell : Live(d)' <=> Live(d)
      BY <2>1 DEF Live
    <3> QED BY <1>4, <2>6, <2>11, <2>12, <2>13, <3>1 DEF FreeInv, T
  <2>15. MeaningInv' /\ TreeInv(sub)'
    BY <1>1, <1>4, <2>1, SameHeap DEF Building
  <2> QED BY <1>3, <1>4, <1>7, <2>14, <2>15 DEF Inv
(* A cell is freed, which is all that was pending of its expression.       *)
<1>9. CASE ~(Head(todo).do = "visit" /\ e.type = "EXPR_MATH")
  <2>1. todo' = Tail(todo) /\ heap' = [heap EXCEPT ![c] = Free]
    BY <1>9 DEF FreeStep, c
  <2>2. S(1) = {c}
    <3>1. CASE todo[1].do = "visit"
      <4>1. ~IsMath(c)
        BY <1>2, <1>9, <3>1 DEF IsMath
      <4>2. sub[c] = {c}
        BY <1>2, <4>1 DEF TreeInv
      <4> QED BY <1>2, <3>1, <4>2 DEF Span, c
    <3>2. CASE todo[1].do # "visit"
      BY <1>2, <3>2 DEF Span, c
    <3> QED BY <3>1, <3>2
  <2>3. /\ heap'[c] = Free /\ Free.type = "FREE"
        /\ \A x \in Cell : x # c => heap'[x] = heap[x]
    BY <1>2, <2>1, CellsMade DEF TypeInv
  <2>4. /\ \A x \in Cell : Live(x)' <=> Live(x) /\ x # c
        /\ \A x \in Cell : IsMath(x)' <=> IsMath(x) /\ x # c
    BY <2>3 DEF Live, IsMath
  <2>5. /\ Len(todo') = n - 1
        /\ \A i \in 1..(n - 1) : i + 1 \in 2..n /\ todo'[i] = todo[i + 1]
    BY <1>1, <1>2, <2>1, TailFacts
  <2> DEFINE T(i) == Span(sub, todo'[i])
  <2>6. \A i \in 1..(n - 1) : /\ i + 1 \in 2..n /\ T(i) = S(i + 1)
                              /\ todo'[i].cell = todo[i + 1].cell
    BY <2>5
  <2>7. /\ \A i \in 2..n : i - 1 \in 1..(n - 1) /\ i - 1 + 1 = i
        /\ \A i, j \in 1..(n - 1) : i # j => i + 1 # j + 1
    BY <1>2
  <2> HIDE DEF S, T, n, e
  <2>8. \A i \in 2..n : c \notin S(i)
    BY <1>2, <1>5
  <2>9. ASSUME NEW i \in 1..(n - 1)
        PROVE  /\ \A d \in T(i) : d \in Cell /\ Live(d)'
               /\ todo'[i].cell \in T(i)
    <3>1. i + 1 \in 1..n /\ T(i) = S(i + 1) /\ c \notin S(i + 1)
      BY <1>5, <2>6, <2>8
    <3> QED BY <1>2, <2>4, <2>6, <3>1
  <2>10. ASSUME NEW i \in 1..(n - 1), NEW j \in 1..(n - 1), i # j
         PROVE  T(i) \cap T(j) = {}
    <3>1. i + 1 \in 1..n /\ j + 1 \in 1..n /\ i + 1 # j + 1
      BY <1>5, <2>6, <2>7, <2>10
    <3> QED BY <1>2, <2>6, <3>1
  <2>11. ASSUME NEW d \in Cell, Live(d)'
         PROVE  \E i \in 1..(n - 1) : d \in T(i)
    <3>1. Live(d) /\ d # c
      BY <2>4, <2>11
    <3>2. PICK i \in 1..n : d \in S(i)
      BY <1>2, <3>1
    <3>3. i \in 2..n
      BY <1>6, <2>2, <3>1, <3>2
    <3>4. i - 1 \in 1..(n - 1) /\ T(i - 1) = S(i)
      BY <2>6, <2>7, <3>3
    <3> QED BY <3>2, <3>4
  <2>12. FreeInv(sub)'
    BY <1>4, <2>5, <2>9, <2>10, <2>11 DEF FreeInv, T
  <2>13. MeaningInv'
    <3>1. \A x \in Cell, t \in Tables :
            /\ heap'[x].type = "EXPR_CONST" => meaning'[x][t] = heap'[x].value
            /\ heap'[x].type = "EXPR_VAR" => meaning'[x][t] = t[heap'[x].ident]
      BY <1>1, <1>2, <2>3 DEF MeaningInv
    <3> QED BY <1>4, <3>1 DEF MeaningInv
  <2>14. TreeInv(sub)'
    <3>1. \A x \in Cell : Live(x)' => x \in sub[x]
      BY <1>2, <2>4 DEF TreeInv
    <3>2. \A x \in Cell : Live(x)' /\ ~IsMath(x)' => sub[x] = {x}
      BY <1>2, <2>4 DEF TreeInv
    <3>3. \A x \in Cell : IsMath(x)' => IsMath(x) /\ heap'[x] = heap[x]
      BY <2>3, <2>4
    <3> QED BY <1>2, <3>1, <3>2, <3>3 DEF TreeInv
  <2> QED BY <1>3, <1>4, <1>7, <2>12, <2>13, <2>14 DEF Inv
<1> QED BY <1>8, <1>9

-----------------------------------------------------------------------------
(* The theorems.                                                           *)

LEMMA StepTrees ==
    ASSUME TreesInv, [Next]_vars
    PROVE  TreesInv'
<1>1. PICK sub \in [Cell -> SUBSET Cell] : Inv(sub)
  BY DEF TreesInv
<1>2. TypeInv'
  BY <1>1, TypeStep DEF Inv
<1>3. Inv(sub)' => TreesInv'
  BY DEF TreesInv
<1>4. ASSUME NEW m \in Num, const_create(m)
      PROVE  TreesInv'
  BY <1>1, <1>2, <1>4, ConstTrees
<1>5. ASSUME NEW id \in Id, var_create(id)
      PROVE  TreesInv'
  BY <1>1, <1>2, <1>5, VarTrees
<1>6. ASSUME NEW op \in Ops, math_create(op)
      PROVE  TreesInv'
  BY <1>1, <1>2, <1>6, MathTrees
<1>7. CASE Parsed
  BY <1>1, <1>2, <1>3, <1>7, ParsedTrees
<1>8. CASE Evaluate
  BY <1>1, <1>2, <1>3, <1>8, EvaluateTrees
<1>9. CASE EvaluateLeaf
  BY <1>1, <1>2, <1>3, <1>9, EvaluateLeafTrees
<1>10. CASE EvaluateMath
  BY <1>1, <1>2, <1>3, <1>10, EvaluateMathTrees
<1>11. CASE LeftReturns
  BY <1>1, <1>2, <1>3, <1>11, LeftReturnsTrees
<1>12. CASE RightReturns
  BY <1>1, <1>2, <1>12, RightReturnsTrees
<1>13. CASE Evaluated
  BY <1>1, <1>2, <1>3, <1>13, EvaluatedTrees
<1>14. ASSUME NEW id \in Id, NEW m \in Num, StoreLabel(id, m)
       PROVE  TreesInv'
  BY <1>1, <1>2, <1>3, <1>14, StoreLabelTrees
<1>15. CASE math_free
  BY <1>1, <1>2, <1>3, <1>15, FreeStartTrees
<1>16. CASE FreeStep
  BY <1>1, <1>2, <1>3, <1>16, FreeStepTrees
<1>17. CASE Freed
  BY <1>1, <1>2, <1>3, <1>17, FreedTrees
<1>18. CASE UNCHANGED vars
  <2>1. UNCHANGED <<heap, operands, table, phase, callee, frames, ret, todo, meaning, fault>>
    BY <1>18 DEF vars
  <2>2. StackInv(sub) /\ FreeInv(sub) /\ ~fault /\ TypeInv
    BY <1>1 DEF Inv
  <2>3. Building' = Building
    BY <2>1 DEF Building
  <2>4. Building' /\ phase' # "parse" => Len(operands) = 1
    <3>1. Building /\ phase # "parse" => Len(operands) = 1
      BY <1>1 DEF Inv, OwnInv
    <3> QED BY <2>1, <2>3, <3>1
  <2>5. MeaningInv' /\ (Building' => OwnInv' /\ WholeInv(sub)') /\ TreeInv(sub)'
    BY <1>1, <2>1, <2>3, <2>4, SameHeap
  <2>6. StackInv(sub)'
    BY <2>1, <2>2 DEF StackInv, Current, root, top
  <2>7. FreeInv(sub)'
    BY <2>1, <2>2 DEF FreeInv, Live
  <2> QED BY <1>2, <1>3, <2>1, <2>2, <2>5, <2>6, <2>7 DEF Inv
<1> QED BY <1>4, <1>5, <1>6, <1>7, <1>8, <1>9, <1>10, <1>11, <1>12, <1>13, <1>14, <1>15,
           <1>16, <1>17, <1>18 DEF Next

(* The heap of mathexpr.c always divides into the trees of the expressions *)
(* in hand, and the activations of math_evaluate_* are a path of the tree  *)
(* in evaluation, however much of it has been folded.                      *)
THEOREM TreesSound == Spec => []TreesInv
<1>1. Init => TreesInv
  BY InitTrees
<1>2. TreesInv /\ [Next]_vars => TreesInv'
  BY StepTrees
<1> QED BY <1>1, <1>2, PTL DEF Spec

(* Every variable of mathexpr.c's model has its type.                      *)
THEOREM TypeCorrect == Spec => []TypeOK
<1>1. TreesInv => TypeOK
  <2> SUFFICES ASSUME TreesInv PROVE TypeOK
    OBVIOUS
  <2>1. TypeInv
    BY DEF TreesInv, Inv
  <2> QED BY <2>1 DEF TypeInv, TypeOK, CellType, MathType
<1> QED BY <1>1, TreesSound, PTL

(* No evaluation and no math_free reads a freed cell or frees one twice.   *)
THEOREM NothingFreedIsUsed == Spec => []NoFault
<1>1. TreesInv => NoFault
  BY DEF TreesInv, Inv, NoFault
<1> QED BY <1>1, TreesSound, PTL

(* An evaluation returns the value of the expression as it was written:    *)
(* what folding has stored depends on no variable.                         *)
THEOREM ValuesKept == Spec => []ValueKept
<1>1. TreesInv => ValueKept
  <2> SUFFICES ASSUME TreesInv, phase = "idle", ret # Null
               PROVE  ret = meaning[root][table]
    BY DEF ValueKept
  <2>1. PICK sub : StackInv(sub)
    BY DEF TreesInv, Inv
  <2>2. frames = <<>> /\ ret = meaning[Current][table]
    BY <2>1 DEF StackInv
  <2> QED BY <2>2 DEF Current
<1> QED BY <1>1, TreesSound, PTL

(* Between evaluations every live cell is the operand of one other, or the *)
(* parser's: folding cuts off what it frees and nothing else.              *)
THEOREM OneOwnerEach == Spec => []OneOwner
<1>1. TreesInv => OneOwner
  <2> SUFFICES ASSUME TreesInv, phase \in {"parse", "idle"}, NEW c \in Cell, Live(c)
               PROVE  Cardinality({p \in Cell : c \in Children(p)})
                        + Cardinality({i \in 1..Len(operands) : operands[i] = c}) = 1
    BY DEF OneOwner
  <2>1. OwnInv
    BY DEF TreesInv, Inv, Building
  <2> DEFINE P == {p \in Cell : c \in Children(p)}
             I == {i \in 1..Len(operands) : operands[i] = c}
  <2>2. CASE \E p \in Cell : c \in Children(p)
    <3>1. PICK p \in Cell : c \in Children(p)
      BY <2>2
    <3>2. P = {p} /\ I = {}
      BY <2>1, <3>1 DEF OwnInv
    <3> HIDE DEF P, I
    <3>3. Cardinality(P) = 1 /\ Cardinality(I) = 0
      BY <3>2, FS_Singleton, FS_EmptySet, Zenon
    <3>4. Cardinality(P) + Cardinality(I) = 1
      BY <3>3
    <3> QED BY <3>4 DEF P, I
  <2>3. CASE \E i \in 1..Len(operands) : operands[i] = c
    <3>1. PICK i \in 1..Len(operands) : operands[i] = c
      BY <2>3
    <3>2. P = {} /\ I = {i}
      BY <2>1, <3>1 DEF OwnInv
    <3> HIDE DEF P, I
    <3>3. Cardinality(P) = 0 /\ Cardinality(I) = 1
      BY <3>2, FS_Singleton, FS_EmptySet, Zenon
    <3>4. Cardinality(P) + Cardinality(I) = 1
      BY <3>3
    <3> QED BY <3>4 DEF P, I
  <2> QED BY <2>1, <2>2, <2>3 DEF OwnInv
<1> QED BY <1>1, TreesSound, PTL

(* When node_clear's math_free is done, no cell of the expression is left. *)
THEOREM AllFreed == Spec => []NothingLeaked
<1>1. TreesInv => NothingLeaked
  BY DEF TreesInv, Inv, FreeInv, NothingLeaked
<1> QED BY <1>1, TreesSound, PTL

=============================================================================
