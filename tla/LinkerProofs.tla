---------------------------- MODULE LinkerProofs ----------------------------
(***************************************************************************)
(* Theorems about Linker, for every set of names and of statements over    *)
(* them, every size of prog[] and of the table, programs of any length.    *)
(* They begin with what an expression's value depends on and how large a   *)
(* statement's code is, and end with Linker implementing Assembly.         *)
(***************************************************************************)
EXTENDS LinkerProps, FiniteSetTheorems, SequenceTheorems, TLAPS

-----------------------------------------------------------------------------
(* The operators of Ast.                                                   *)

(* Nested, one level of operations at a time.                              *)
IsMath(e) == e.type = "EXPR_MATH"

Vars1(e) == IF IsMath(e) THEN AtomVars(e.lparam) \cup AtomVars(e.rparam) ELSE AtomVars(e)
Vars2(e) == IF IsMath(e) THEN Vars1(e.lparam) \cup Vars1(e.rparam) ELSE AtomVars(e)

Value1(e, t) == IF IsMath(e) THEN Calc(e.op, AtomValue(e.lparam, t), AtomValue(e.rparam, t))
                             ELSE AtomValue(e, t)
Value2(e, t) == IF IsMath(e) THEN Calc(e.op, Value1(e.lparam, t), Value1(e.rparam, t))
                             ELSE AtomValue(e, t)

LEMMA VarsByLevel ==
    ASSUME NEW e
    PROVE  VarsOf(e) = IF IsMath(e) THEN Vars2(e.lparam) \cup Vars2(e.rparam) ELSE AtomVars(e)
BY DEF VarsOf, Nested, Vars1, Vars2, IsMath

LEMMA ValueByLevel ==
    ASSUME NEW e, NEW t
    PROVE  Value(e, t) = IF IsMath(e) THEN Calc(e.op, Value2(e.lparam, t), Value2(e.rparam, t))
                                      ELSE AtomValue(e, t)
BY DEF Value, Nested, Value1, Value2, IsMath

Table(t) == \A n \in DOMAIN t : t[n] \in Int

LEMMA CalcType ==
    ASSUME NEW op \in {"+", "-", "*"}, NEW l \in Int, NEW r \in Int
    PROVE  Calc(op, l, r) \in Int
BY DEF Calc

LEMMA AtomType ==
    ASSUME NEW names, NEW e \in AtomsOver(names), NEW t, Table(t)
    PROVE  AtomValue(e, t) \in Int /\ AtomVars(e) \subseteq names /\ ~IsMath(e)
BY DEF AtomsOver, AtomValue, AtomVars, Table, IsMath

LEMMA SumsCases ==
    ASSUME NEW S, NEW e \in OperationsOn(S)
    PROVE  \/ e \in S
           \/ IsMath(e) /\ e.op \in {"+", "-", "*"} /\ e.lparam \in S /\ e.rparam \in S
BY DEF OperationsOn, IsMath

(* The value of an expression is a number and its variables are names.     *)
LEMMA ValueType ==
    ASSUME NEW names, NEW e \in ExprsOver(names), NEW t, Table(t)
    PROVE  Value(e, t) \in Int /\ VarsOf(e) \subseteq names
<1>1. ASSUME NEW x \in OperationsOn(AtomsOver(names))
      PROVE  Value1(x, t) \in Int /\ Vars1(x) \subseteq names
  <2>1. CASE IsMath(x)
    <3>1. x.op \in {"+", "-", "*"} /\ x.lparam \in AtomsOver(names) /\ x.rparam \in AtomsOver(names)
      BY <2>1, SumsCases, AtomType
    <3> QED BY <2>1, <3>1, AtomType, CalcType DEF Value1, Vars1
  <2>2. CASE ~IsMath(x)
    BY <2>2, SumsCases, AtomType DEF Value1, Vars1
  <2> QED BY <2>1, <2>2
<1>2. ASSUME NEW x \in OperationsOn(OperationsOn(AtomsOver(names)))
      PROVE  Value2(x, t) \in Int /\ Vars2(x) \subseteq names
  <2>1. CASE IsMath(x)
    <3>1. x.op \in {"+", "-", "*"} /\ x.lparam \in OperationsOn(AtomsOver(names)) /\ x.rparam \in OperationsOn(AtomsOver(names))
      BY <2>1, SumsCases, AtomType DEF OperationsOn
    <3> QED BY <1>1, <2>1, <3>1, CalcType DEF Value2, Vars2
  <2>2. CASE ~IsMath(x)
    <3>1. x \in AtomsOver(names)
      BY <2>2, SumsCases
    <3> QED BY <2>2, <3>1, AtomType DEF Value2, Vars2
  <2> QED BY <2>1, <2>2
<1>3. CASE IsMath(e)
  <2>1. e.op \in {"+", "-", "*"} /\ e.lparam \in OperationsOn(OperationsOn(AtomsOver(names)))
        /\ e.rparam \in OperationsOn(OperationsOn(AtomsOver(names)))
    BY <1>3, SumsCases, AtomType DEF OperationsOn, ExprsOver
  <2> QED BY <1>2, <1>3, <2>1, CalcType, ValueByLevel, VarsByLevel
<1>4. CASE ~IsMath(e)
  BY <1>4, SumsCases, AtomType, ValueByLevel, VarsByLevel DEF ExprsOver
<1> QED BY <1>3, <1>4

(* Two tables agree on a name: both have it with the same value, or none.  *)
AgreeOn(n, t, u) == (n \in DOMAIN t <=> n \in DOMAIN u) /\ (n \in DOMAIN t => t[n] = u[n])

(* The value depends on the variables of the expression and nothing else.  *)
LEMMA ValueAgrees ==
    ASSUME NEW e, NEW t, NEW u, \A n \in VarsOf(e) : AgreeOn(n, t, u)
    PROVE  Value(e, t) = Value(e, u)
<1>1. ASSUME NEW x, \A n \in AtomVars(x) : AgreeOn(n, t, u)
      PROVE  AtomValue(x, t) = AtomValue(x, u)
  BY <1>1 DEF AtomValue, AtomVars, AgreeOn
<1>2. ASSUME NEW x, \A n \in Vars1(x) : AgreeOn(n, t, u)
      PROVE  Value1(x, t) = Value1(x, u)
  BY <1>1, <1>2 DEF Value1, Vars1
<1>3. ASSUME NEW x, \A n \in Vars2(x) : AgreeOn(n, t, u)
      PROVE  Value2(x, t) = Value2(x, u)
  BY <1>1, <1>2, <1>3 DEF Value2, Vars2
<1> QED BY <1>1, <1>3, ValueByLevel, VarsByLevel

(* The bytes a statement takes.                                            *)
LEMMA CodeSizes ==
    /\ CodeSize["op"] = 1 /\ CodeSize["db"] = 1
    /\ CodeSize["imm8"] = 2 /\ CodeSize["dw"] = 2
    /\ CodeSize["imm16"] = 3
    /\ \A k \in CodeKinds : CodeSize[k] \in 1..3
BY DEF CodeSize, CodeKinds

(* The fields of a statement, by its kind.                                 *)
LEMMA StatementFields ==
    ASSUME NEW names, NEW s \in StatementsOver(names)
    PROVE  /\ s.kind \in {"label", "equ", "org", "ds", "db", "dw", "rst", "op", "imm8", "imm16"}
           /\ s.kind \in DeclKinds => s.ident \in names
           /\ s.kind \notin {"label", "op"} => s.arg \in ExprsOver(names)
           /\ s.kind \in {"op", "imm8", "imm16"} => s.opcode \in 0..255
           /\ s.kind \in CodeKinds <=> s.kind \in {"db", "dw", "op", "imm8", "imm16"}
<1> HIDE DEF ExprsOver
<1> QED BY DEF StatementsOver, DeclKinds, CodeKinds

LEMMA ReadsType ==
    ASSUME NEW names, NEW s \in StatementsOver(names)
    PROVE  Reads(s) \subseteq names
<1> DEFINE t == [n \in {} |-> 0]
<1>1. Table(t)
  BY DEF Table
<1> QED BY <1>1, StatementFields, ValueType DEF Reads

USE DEF PARSE_STAGE, EVAL_STAGE, GENERATE_STAGE

-----------------------------------------------------------------------------
(* Type correctness.                                                       *)

(* The node codegen_link is at.                                            *)
LEMMA NodeFacts ==
    ASSUME TypeOK, it <= Len(ast)
    PROVE  /\ it \in 1..Len(ast) /\ it + 1 \in 1..(Len(ast) + 1)
           /\ node \in StatementsOver(Name)
           /\ node.kind \notin {"label", "op"} => operand \in Int
           /\ Reads(node) \subseteq Name
<1>1. it \in 1..Len(ast) /\ it + 1 \in 1..(Len(ast) + 1)
  BY DEF TypeOK
<1>2. node \in StatementsOver(Name)
  BY <1>1, StatementsAssumption DEF TypeOK, node
<1>3. Table(asmvars)
  BY DEF TypeOK, Table
<1>4. node.kind \notin {"label", "op"} => operand \in Int
  BY <1>2, <1>3, StatementFields, ValueType DEF operand
<1> QED BY <1>1, <1>2, <1>4, ReadsType

LEMMA LogPcType ==
    ASSUME TypeOK, LogPc
    PROVE  addr' \in Seq(Int)
BY DEF TypeOK, LogPc

LEMMA AdvanceType ==
    ASSUME TypeOK, it <= Len(ast), UNCHANGED ast, NEW x \in Int, Advance(x)
    PROVE  it' \in 1..(Len(ast') + 1) /\ pc' \in Int /\ addr' \in Seq(Int)
BY NodeFacts, LogPcType DEF Advance

LEMMA BindType ==
    ASSUME TypeOK, NEW k \in Name, NEW v \in Int
    PROVE  LET t == Symbols!Bind(k, v)
           IN  DOMAIN t \subseteq Name /\ \A n \in DOMAIN t : t[n] \in Int
BY DEF TypeOK, Symbols!Bind

LEMMA UpdateType ==
    ASSUME TypeOK, NEW k \in Name, NEW v \in Int, Symbols!Update(k, v)
    PROVE  /\ DOMAIN asmvars' \subseteq Name /\ \A n \in DOMAIN asmvars' : asmvars'[n] \in Int
           /\ UNCHANGED <<bkasm_stage, outcome>>
<1>1. asmvars' = Symbols!Bind(k, v) \/ asmvars' = asmvars
  BY DEF Symbols!Update
<1> QED BY <1>1, BindType DEF TypeOK, Symbols!Update

LEMMA DefineType ==
    ASSUME TypeOK, NEW k \in Name, NEW v \in Int, Symbols!Define(k, v)
    PROVE  /\ DOMAIN asmvars' \subseteq Name /\ \A n \in DOMAIN asmvars' : asmvars'[n] \in Int
           /\ outcome' \in {outcome, "duplicate"}
           /\ UNCHANGED bkasm_stage
<1>1. asmvars' = Symbols!Bind(k, v) \/ asmvars' = asmvars
  BY DEF Symbols!Define
<1> QED BY <1>1, BindType DEF TypeOK, Symbols!Define

LEMMA ByteType ==
    ASSUME NEW v \in Int
    PROVE  Byte(v) \in 0..255 /\ Quotient(v) \in Int
BY DEF Byte, Quotient

(* What GENERATE_STAGE writes: as many bytes as EVAL_STAGE counted.        *)
LEMMA ByteTuples ==
    ASSUME NEW a \in 0..255, NEW b \in 0..255, NEW c \in 0..255
    PROVE  /\ <<a>> \in Seq(0..255) /\ Len(<<a>>) = 1
           /\ <<a, b>> \in Seq(0..255) /\ Len(<<a, b>>) = 2
           /\ <<a, b, c>> \in Seq(0..255) /\ Len(<<a, b, c>>) = 3
OBVIOUS

LEMMA BytesType ==
    ASSUME TypeOK, it <= Len(ast), node.kind \in CodeKinds
    PROVE  Bytes \in Seq(0..255) /\ Len(Bytes) = CodeSize[node.kind]
<1>1. CASE node.kind = "op"
  <2>1. Bytes = <<node.opcode>> /\ CodeSize[node.kind] = 1
    BY <1>1, CodeSizes DEF Bytes
  <2>2. node.opcode \in 0..255
    BY <1>1, NodeFacts, StatementFields
  <2> QED BY <2>1, <2>2, ByteTuples, ZenonT(40)
<1>2. CASE node.kind = "imm8"
  <2>1. Bytes = <<node.opcode, Byte(operand)>> /\ CodeSize[node.kind] = 2
    BY <1>2, CodeSizes DEF Bytes
  <2>2. node.opcode \in 0..255 /\ Byte(operand) \in 0..255
    BY <1>2, NodeFacts, StatementFields, ByteType
  <2> QED BY <2>1, <2>2, ByteTuples, ZenonT(40)
<1>3. CASE node.kind = "imm16"
  <2>1. Bytes = <<node.opcode, Byte(operand), Byte(Quotient(operand))>> /\ CodeSize[node.kind] = 3
    BY <1>3, CodeSizes DEF Bytes
  <2>2. node.opcode \in 0..255 /\ Byte(operand) \in 0..255 /\ Byte(Quotient(operand)) \in 0..255
    BY <1>3, NodeFacts, StatementFields, ByteType
  <2> QED BY <2>1, <2>2, ByteTuples, ZenonT(40)
<1>4. CASE node.kind = "db"
  <2>1. Bytes = <<Byte(operand)>> /\ CodeSize[node.kind] = 1
    BY <1>4, CodeSizes DEF Bytes
  <2>2. Byte(operand) \in 0..255
    BY <1>4, NodeFacts, StatementFields, ByteType
  <2> QED BY <2>1, <2>2, ByteTuples, ZenonT(40)
<1>5. CASE node.kind = "dw"
  <2>1. Bytes = <<Byte(operand), Byte(Quotient(operand))>> /\ CodeSize[node.kind] = 2
    BY <1>5, CodeSizes DEF Bytes
  <2>2. Byte(operand) \in 0..255 /\ Byte(Quotient(operand)) \in 0..255
    BY <1>5, NodeFacts, StatementFields, ByteType
  <2> QED BY <2>1, <2>2, ByteTuples, ZenonT(40)
<1> QED BY <1>1, <1>2, <1>3, <1>4, <1>5 DEF CodeKinds

LEMMA NextPcType ==
    ASSUME TypeOK, NEW k \in CodeKinds
    PROVE  CodeSize[k] \in 1..3 /\ pc + CodeSize[k] \in Int
<1>1. CodeSize[k] \in 1..3
  BY CodeSizes
<1> QED BY <1>1 DEF TypeOK

LEMMA StoreType ==
    ASSUME TypeOK, NEW bytes \in Seq(0..255), Store(bytes)
    PROVE  prog' \in [0..MAX_PROG_SIZE-1 -> 0..255] /\ ub' \in BOOLEAN
<1>1. \A i \in DOMAIN bytes : bytes[i] \in 0..255
  BY ElementOfSeq, LenProperties, ZenonT(30)
<1>2. DOMAIN prog = 0..MAX_PROG_SIZE-1 /\ \A a \in DOMAIN prog : prog[a] \in 0..255
  BY ZenonT(40) DEF TypeOK
<1>3. prog' = [a \in DOMAIN prog |->
                 IF a - (pc - code_org) + 1 \in DOMAIN bytes
                   THEN bytes[a - (pc - code_org) + 1] ELSE prog[a]]
  BY DEF Store
<1>4. ub' \in BOOLEAN
  BY DEF TypeOK, Store
<1> QED BY <1>1, <1>2, <1>3, <1>4, Zenon

LEMMA RstByte ==
    ASSUME TypeOK, it <= Len(ast), node.kind = "rst", RstValid
    PROVE  RstVector \in 0..7 /\ <<199 + 8 * RstVector>> \in Seq(0..255)
BY DEF RstValid

(* Every variable stays of its type, in both passes and after every error. *)
THEOREM TypeCorrect == Spec => []TypeOK
<1>1. Init => TypeOK
  BY SizesAssumption DEF Init, Symbols!Init, TypeOK, Outcomes
<1>2. TypeOK /\ [Next]_vars => TypeOK'
  <2> SUFFICES ASSUME TypeOK, [Next]_vars PROVE TypeOK'
    OBVIOUS
  <2>1. ASSUME NEW s \in Statements, AddStatement(s) PROVE TypeOK'
    <3>1. s \in StatementsOver(Name) /\ Table(asmvars)
      BY StatementsAssumption DEF TypeOK, Table
    <3>2. ast' \in Seq(Statements) /\ Len(ast') = Len(ast) + 1
      BY <2>1 DEF AddStatement, TypeOK
    <3>3. /\ DOMAIN asmvars' \subseteq Name /\ \A n \in DOMAIN asmvars' : asmvars'[n] \in Int
          /\ outcome' \in {outcome, "duplicate"}
          /\ UNCHANGED bkasm_stage
      <4>1. CASE s.kind = "label"
        <5>1. Symbols!Define(s.ident, TOK_REGPC) /\ s.ident \in Name
          BY <2>1, <3>1, <4>1, StatementFields DEF AddStatement, DeclKinds
        <5> QED BY <5>1, RegPCAssumption, DefineType
      <4>2. CASE s.kind = "equ"
        <5>1. Symbols!Define(s.ident, Value(s.arg, asmvars)) /\ s.ident \in Name
          BY <2>1, <3>1, <4>2, StatementFields DEF AddStatement, DeclKinds
        <5>2. Value(s.arg, asmvars) \in Int
          BY <3>1, <4>2, StatementFields, ValueType
        <5> QED BY <5>1, <5>2, DefineType
      <4>3. CASE s.kind \notin {"label", "equ"}
        BY <2>1, <4>3 DEF AddStatement, TypeOK
      <4> QED BY <4>1, <4>2, <4>3
    <3> QED BY <2>1, <3>2, <3>3, SMTT(30) DEF AddStatement, TypeOK, Outcomes
  <2>2. CASE LinkBegin
    BY <2>2, SMTT(30) DEF LinkBegin, TypeOK
  <2>3. CASE VisitLabel
    <3>1. node.ident \in Name /\ pc \in Int /\ it <= Len(ast) /\ UNCHANGED ast
      BY <2>3, NodeFacts, StatementFields DEF VisitLabel, Visiting, DeclKinds, TypeOK
    <3>2. Symbols!Update(node.ident, pc) /\ Advance(pc)
      BY <2>3 DEF VisitLabel
    <3> QED BY <2>3, <3>1, <3>2, UpdateType, AdvanceType DEF VisitLabel, TypeOK
  <2>4. CASE VisitEqu
    <3>1. node.ident \in Name /\ operand \in Int /\ it <= Len(ast) /\ UNCHANGED ast
      BY <2>4, NodeFacts, StatementFields DEF VisitEqu, Visiting, DeclKinds, TypeOK
    <3>2. Symbols!Update(node.ident, operand) /\ Advance(pc) /\ pc \in Int
      BY <2>4 DEF VisitEqu, TypeOK
    <3> QED BY <2>4, <3>1, <3>2, UpdateType, AdvanceType, NodeFacts DEF VisitEqu, TypeOK, Report
  <2>5. CASE VisitOrg
    <3>1. operand \in Int /\ it <= Len(ast) /\ UNCHANGED ast /\ Advance(operand)
      BY <2>5, NodeFacts DEF VisitOrg, Visiting
    <3> QED BY <2>5, <3>1, AdvanceType, NodeFacts DEF VisitOrg, TypeOK, Report
  <2>6. CASE VisitDs
    <3>1. pc + operand \in Int /\ it <= Len(ast) /\ UNCHANGED ast /\ Advance(pc + operand)
      BY <2>6, NodeFacts, SMTT(30) DEF VisitDs, Visiting, TypeOK
    <3> QED BY <2>6, <3>1, AdvanceType, NodeFacts DEF VisitDs, TypeOK, Report
  <2>7. CASE MeasureCode
    <3>1. pc + CodeSize[node.kind] \in Int
      BY <2>7, NextPcType DEF MeasureCode, Visiting
    <3>2. it <= Len(ast) /\ UNCHANGED ast /\ Advance(pc + CodeSize[node.kind])
      BY <2>7 DEF MeasureCode, Visiting
    <3> QED BY <2>7, <3>1, <3>2, AdvanceType, NodeFacts DEF MeasureCode, TypeOK, Report
  <2>8. CASE GenerateCode
    <3>1. pc + CodeSize[node.kind] \in Int
      BY <2>8, NextPcType DEF GenerateCode, Visiting
    <3>2. it <= Len(ast) /\ UNCHANGED ast /\ Advance(pc + CodeSize[node.kind]) /\ Store(Bytes)
          /\ node.kind \in CodeKinds
      BY <2>8 DEF GenerateCode, Visiting
    <3>3. prog' \in [0..MAX_PROG_SIZE-1 -> 0..255] /\ ub' \in BOOLEAN
      BY <3>2, BytesType, StoreType
    <3> QED BY <2>8, <3>1, <3>2, <3>3, AdvanceType, NodeFacts DEF GenerateCode, TypeOK, Report
  <2>9. CASE RefuseCode
    BY <2>9, LogPcType, NodeFacts DEF RefuseCode, Visiting, TypeOK, Report, Outcomes
  <2>10. CASE VisitRst
    <3>1. it <= Len(ast) /\ UNCHANGED ast /\ Advance(pc + 1) /\ pc + 1 \in Int
      BY <2>10 DEF VisitRst, Visiting, TypeOK
    <3>2. prog' \in [0..MAX_PROG_SIZE-1 -> 0..255] /\ ub' \in BOOLEAN
      <4>1. CASE bkasm_stage = GENERATE_STAGE
        <5>1. Store(<<199 + 8 * RstVector>>) /\ <<199 + 8 * RstVector>> \in Seq(0..255)
          BY <2>10, <4>1, RstByte DEF VisitRst, Visiting
        <5> QED BY <5>1, StoreType
      <4>2. CASE bkasm_stage # GENERATE_STAGE
        BY <2>10, <4>2 DEF VisitRst, TypeOK
      <4> QED BY <4>1, <4>2
    <3> QED BY <2>10, <3>1, <3>2, AdvanceType DEF VisitRst, TypeOK
  <2>11. CASE RefuseRst
    BY <2>11, LogPcType DEF RefuseRst, TypeOK, Outcomes
  <2>12. CASE SecondPass
    BY <2>12, LogPcType, SMTT(30) DEF SecondPass, TypeOK
  <2>13. CASE WriteOutput
    <3>1. output' \in Seq(0..255)
      <4> DEFINE n == CASE codesize < 0 -> 0
                        [] codesize > MAX_PROG_SIZE -> MAX_PROG_SIZE
                        [] OTHER -> codesize
      <4>1. n \in Nat /\ n <= MAX_PROG_SIZE
        BY SizesAssumption DEF TypeOK, codesize
      <4>2. output' = [i \in 1..n |-> prog[i - 1]]
        BY <2>13 DEF WriteOutput
      <4> HIDE DEF n
      <4>3. \A i \in 1..n : prog[i - 1] \in 0..255
        <5> SUFFICES ASSUME NEW i \in 1..n PROVE prog[i - 1] \in 0..255
          OBVIOUS
        <5>1. i - 1 \in 0..MAX_PROG_SIZE-1
          BY <4>1, SizesAssumption
        <5> QED BY <5>1 DEF TypeOK
      <4> QED BY <4>1, <4>2, <4>3
    <3> QED BY <2>13, <3>1, LogPcType DEF WriteOutput, TypeOK, Outcomes
  <2>14. CASE CannotCreate
    BY <2>14, LogPcType DEF CannotCreate, TypeOK, Outcomes
  <2>15. CASE UNCHANGED vars
    BY <2>15 DEF vars, TypeOK
  <2> QED
    BY <2>1, <2>2, <2>3, <2>4, <2>5, <2>6, <2>7, <2>8, <2>9, <2>10, <2>11, <2>12, <2>13,
       <2>14, <2>15
    DEF Next, LinkStep
<1> QED BY <1>1, <1>2, PTL DEF Spec
-----------------------------------------------------------------------------
(* The operators of Assembly are those of Ast.                             *)

LEMMA PromiseOperators ==
    /\ \A e, t : Promise!Value(e, t) = Value(e, t)
    /\ \A s : Promise!Reads(s) = Reads(s)
    /\ \A s, n : Promise!Declares(s, n) <=> Declares(s, n)
    /\ Promise!DeclKinds = DeclKinds
    /\ Promise!CodeKinds = CodeKinds
    /\ Promise!CodeSize = CodeSize
<1>1. ASSUME NEW e, NEW t PROVE Promise!Value(e, t) = Value(e, t)
  BY DEF Promise!Value, Value, Promise!Nested, Nested, Promise!AtomValue, AtomValue,
         Promise!Calc, Calc
<1>2. ASSUME NEW s PROVE Promise!Reads(s) = Reads(s)
  BY DEF Promise!Reads, Reads, Promise!VarsOf, VarsOf, Promise!Nested, Nested,
         Promise!AtomVars, AtomVars
<1>3. Promise!DeclKinds = DeclKinds /\ Promise!CodeKinds = CodeKinds
  BY DEF Promise!DeclKinds, DeclKinds, Promise!CodeKinds, CodeKinds
<1>4. Promise!CodeSize = CodeSize
  BY DEF Promise!CodeSize, CodeSize, Promise!CodeKinds, CodeKinds
<1>5. ASSUME NEW s, NEW n PROVE Promise!Declares(s, n) <=> Declares(s, n)
  BY <1>3 DEF Promise!Declares, Declares
<1> QED BY <1>1, <1>2, <1>3, <1>4, <1>5

(* The address after a statement.                                          *)
LEMMA NextAddress ==
    ASSUME NEW s, NEW x, NEW e
    PROVE  /\ s.kind = "org" => Promise!Next1(s, x, e) = Value(s.arg, e)
           /\ s.kind = "ds" => Promise!Next1(s, x, e) = x + Value(s.arg, e)
           /\ s.kind = "rst" => Promise!Next1(s, x, e) = x + 1
           /\ s.kind \in DeclKinds => Promise!Next1(s, x, e) = x
           /\ s.kind \in CodeKinds => Promise!Next1(s, x, e) = x + CodeSize[s.kind]
BY PromiseOperators DEF Promise!Next1, DeclKinds, CodeKinds

(* It depends on the table through the operand only.                       *)
LEMMA NextAddressAgrees ==
    ASSUME NEW s \in StatementsOver(Name), NEW x, NEW e, NEW f,
           s.kind \in {"equ", "org", "ds"} => Value(s.arg, e) = Value(s.arg, f)
    PROVE  Promise!Next1(s, x, e) = Promise!Next1(s, x, f)
<1>1. \/ s.kind = "org" \/ s.kind = "ds" \/ s.kind = "rst" \/ s.kind \in DeclKinds
      \/ s.kind \in CodeKinds
  BY StatementFields DEF DeclKinds
<1> QED BY <1>1, NextAddress

-----------------------------------------------------------------------------
(* The inductive invariant: what the table holds, ...                      *)

TableInv ==
    /\ asmvars = [n \in DOMAIN asmvars |-> asmvars[n]]
    /\ \A n \in DOMAIN asmvars : \E i \in 1..Len(ast) : Declares(ast[i], n)
    /\ \A i \in 1..Len(ast) : ast[i].kind \in DeclKinds
         => ast[i].ident \in DOMAIN asmvars \/ Symbols!Full
    /\ outcome # "duplicate" =>
         \A i, j \in 1..Len(ast) : \A n \in DOMAIN asmvars :
            Declares(ast[i], n) /\ Declares(ast[j], n) => i = j

(* ... what has been done in each stage, ...                               *)
Blank == \A a \in DOMAIN prog : prog[a] = 0

StageInv ==
    /\ bkasm_stage = PARSE_STAGE =>
         /\ it = 1 /\ pc = 0 /\ code_org = 0
         /\ addr = <<>> /\ reported = {}
         /\ Blank /\ ~ub
         /\ outcome \in {"running", "duplicate"}
    /\ bkasm_stage = EVAL_STAGE =>
         /\ outcome \in {"running", "range"}
         /\ outcome = "running" => Len(addr) = it - 1
         /\ Blank /\ ~ub
    /\ bkasm_stage = GENERATE_STAGE =>
         /\ outcome # "duplicate"
         /\ Len(addr) = Len(ast) + 1
         /\ outcome = "linked" => it = Len(ast) + 1

(* ... and the addresses: walk is how far they are known, the end of the   *)
(* program in GENERATE_STAGE and the current node before.                  *)
Walking == bkasm_stage = GENERATE_STAGE \/ (bkasm_stage = EVAL_STAGE /\ outcome = "running")

walk == IF bkasm_stage = GENERATE_STAGE THEN addr ELSE Append(addr, pc)

NodeSettled(i, e, a) ==
    /\ a[i + 1] = Promise!Next1(ast[i], a[i], e)
    /\ ast[i].kind = "label" /\ ast[i].ident \in DOMAIN e => e[ast[i].ident] = a[i]
    /\ ast[i].kind = "equ" /\ ast[i].ident \in DOMAIN e => e[ast[i].ident] = Value(ast[i].arg, e)

WalkInv ==
    Walking /\ NoForwardRefs(ast) =>
        /\ walk[1] = 0
        /\ pc = walk[it]
        /\ \A i \in 1..(Len(walk) - 1) : NodeSettled(i, asmvars, walk)

(* The names that the first n statements read, except in RST.              *)
ReadBy(n) == UNION {Reads(ast[i]) : i \in {j \in 1..n : ast[j].kind # "rst"}}

ReportInv == Walking => reported = ReadBy(Len(walk) - 1) \ DOMAIN asmvars

LinkInv == TableInv /\ StageInv /\ WalkInv /\ ReportInv

-----------------------------------------------------------------------------
(* The steps of codegen_link are of three kinds: it goes on to the next    *)
(* node, it stops, or it starts the second pass.                           *)

(* The bytes of a statement, and what keeps codegen_generate from storing  *)
(* them.                                                                   *)
Machine == CodeKinds \cup {"rst"}

MachineCode == IF node.kind = "rst" THEN <<199 + 8 * RstVector>> ELSE Bytes

Accepted ==
    /\ IF node.kind = "rst" THEN RstValid ELSE ~NoImmediate /\ ~OutOfRange
    /\ ~NoRoom(Len(MachineCode))

Visit ==
    /\ outcome = "running" /\ bkasm_stage > PARSE_STAGE /\ it <= Len(ast)
    /\ Advance(Promise!Next1(node, pc, asmvars))
    /\ IF node.kind \in DeclKinds
         THEN Symbols!Update(node.ident, IF node.kind = "label" THEN pc ELSE operand)
         ELSE UNCHANGED asmvars
    /\ IF node.kind = "org" THEN code_org' = operand ELSE UNCHANGED code_org
    /\ IF bkasm_stage = GENERATE_STAGE /\ node.kind \in Machine
         THEN Accepted /\ Store(MachineCode)
         ELSE UNCHANGED <<prog, ub>>
    /\ reported' = reported \cup (IF node.kind = "rst" THEN {} ELSE Reads(node) \ DOMAIN asmvars)
    /\ UNCHANGED <<ast, bkasm_stage, outcome, output>>

Stop ==
    /\ outcome = "running" /\ bkasm_stage > PARSE_STAGE
    /\ outcome' \in {"linked", "size", "range", "missing", "nofile"}
    /\ LogPc
    /\ bkasm_stage = EVAL_STAGE => outcome' = "range" /\ UNCHANGED <<prog, ub>>
    /\ outcome' = "linked" => it = Len(ast) + 1
    /\ \/ UNCHANGED reported
       \/ /\ it <= Len(ast) /\ node.kind # "rst"
          /\ reported' = reported \cup (Reads(node) \ DOMAIN asmvars)
    /\ RefuseCode \/ RefuseRst \/ WriteOutput \/ CannotCreate
    /\ UNCHANGED <<ast, asmvars, bkasm_stage, it, pc, code_org, prog>>

LEMMA MachineCodeType ==
    ASSUME TypeOK, it <= Len(ast), node.kind \in Machine, node.kind = "rst" => RstValid
    PROVE  /\ MachineCode \in Seq(0..255)
           /\ Len(MachineCode) = IF node.kind = "rst" THEN 1 ELSE CodeSize[node.kind]
<1>1. CASE node.kind = "rst"
  <2>1. MachineCode = <<199 + 8 * RstVector>>
    BY <1>1 DEF MachineCode
  <2>2. 199 + 8 * RstVector \in 0..255
    BY <1>1, RstByte DEF RstValid
  <2> QED BY <1>1, <2>1, <2>2, ByteTuples, ZenonT(40)
<1>2. CASE node.kind # "rst"
  BY <1>2, BytesType DEF MachineCode, Machine
<1> QED BY <1>1, <1>2

LEMMA VisitCases ==
    ASSUME TypeOK,
           VisitLabel \/ VisitEqu \/ VisitOrg \/ VisitDs \/ MeasureCode \/ GenerateCode \/ VisitRst
    PROVE  Visit
<1>1. CASE VisitLabel
  <2>1. /\ node.kind = "label" /\ node.kind \in DeclKinds /\ node.kind \notin Machine
        /\ node.kind # "org" /\ node.kind # "rst" /\ Reads(node) = {}
    BY <1>1 DEF VisitLabel, Visiting, DeclKinds, CodeKinds, Machine, Reads
  <2>2. Promise!Next1(node, pc, asmvars) = pc
    BY <2>1, NextAddress
  <2> QED BY <1>1, <2>1, <2>2 DEF Visit, VisitLabel, Visiting, Symbols!Update
<1>2. CASE VisitEqu
  <2>1. /\ node.kind # "label" /\ node.kind \in DeclKinds /\ node.kind \notin Machine
        /\ node.kind # "org" /\ node.kind # "rst"
    BY <1>2 DEF VisitEqu, Visiting, DeclKinds, CodeKinds, Machine
  <2>2. Promise!Next1(node, pc, asmvars) = pc
    BY <2>1, NextAddress
  <2> QED BY <1>2, <2>1, <2>2 DEF Visit, VisitEqu, Visiting, Report, Symbols!Update
<1>3. CASE VisitOrg
  <2>1. node.kind \notin DeclKinds /\ node.kind \notin Machine /\ node.kind # "rst"
    BY <1>3 DEF VisitOrg, Visiting, DeclKinds, CodeKinds, Machine
  <2>2. Promise!Next1(node, pc, asmvars) = operand
    BY <1>3, NextAddress DEF VisitOrg, Visiting, operand
  <2> QED BY <1>3, <2>1, <2>2 DEF Visit, VisitOrg, Visiting, Report
<1>4. CASE VisitDs
  <2>1. /\ node.kind \notin DeclKinds /\ node.kind \notin Machine
        /\ node.kind # "org" /\ node.kind # "rst"
    BY <1>4 DEF VisitDs, Visiting, DeclKinds, CodeKinds, Machine
  <2>2. Promise!Next1(node, pc, asmvars) = pc + operand
    BY <1>4, NextAddress DEF VisitDs, Visiting, operand
  <2> QED BY <1>4, <2>1, <2>2 DEF Visit, VisitDs, Visiting, Report
<1>5. CASE MeasureCode
  <2>1. node.kind \notin DeclKinds /\ node.kind # "org" /\ node.kind # "rst"
    BY <1>5 DEF MeasureCode, Visiting, DeclKinds, CodeKinds
  <2>2. Promise!Next1(node, pc, asmvars) = pc + CodeSize[node.kind]
    BY <1>5, NextAddress DEF MeasureCode, Visiting
  <2> QED BY <1>5, <2>1, <2>2 DEF Visit, MeasureCode, Visiting, Report
<1>6. CASE GenerateCode
  <2>1. /\ node.kind \notin DeclKinds /\ node.kind \in Machine
        /\ node.kind # "org" /\ node.kind # "rst"
    BY <1>6 DEF GenerateCode, Visiting, DeclKinds, CodeKinds, Machine
  <2>2. Promise!Next1(node, pc, asmvars) = pc + CodeSize[node.kind]
    BY <1>6, NextAddress DEF GenerateCode, Visiting
  <2>3. Len(MachineCode) = CodeSize[node.kind] /\ MachineCode = Bytes
    BY <1>6, <2>1, MachineCodeType DEF GenerateCode, Visiting, MachineCode
  <2> QED BY <1>6, <2>1, <2>2, <2>3 DEF Visit, Accepted, GenerateCode, Visiting, Report
<1>7. CASE VisitRst
  <2>1. /\ node.kind \notin DeclKinds /\ node.kind \in Machine
        /\ node.kind # "org" /\ node.kind = "rst"
    BY <1>7 DEF VisitRst, Visiting, DeclKinds, Machine
  <2>2. Promise!Next1(node, pc, asmvars) = pc + 1
    BY <1>7, NextAddress DEF VisitRst, Visiting
  <2>3. Len(MachineCode) = 1 /\ MachineCode = <<199 + 8 * RstVector>>
    BY <1>7, <2>1, MachineCodeType DEF VisitRst, Visiting, MachineCode
  <2> QED BY <1>7, <2>1, <2>2, <2>3 DEF Visit, Accepted, VisitRst, Visiting
<1> QED BY <1>1, <1>2, <1>3, <1>4, <1>5, <1>6, <1>7

LEMMA StopCases ==
    ASSUME TypeOK, RefuseCode \/ RefuseRst \/ WriteOutput \/ CannotCreate
    PROVE  Stop
<1>1. CASE RefuseCode
  <2>1. node.kind # "rst" /\ it <= Len(ast)
    BY <1>1 DEF RefuseCode, Visiting, CodeKinds
  <2> QED BY <1>1, <2>1 DEF Stop, RefuseCode, Visiting, Report
<1>2. CASE RefuseRst
  BY <1>2 DEF Stop, RefuseRst, Visiting
<1>3. CASE WriteOutput
  <2>1. it = Len(ast) + 1
    BY <1>3 DEF WriteOutput, AtEnd, TypeOK
  <2> QED BY <1>3, <2>1 DEF Stop, WriteOutput, AtEnd
<1>4. CASE CannotCreate
  BY <1>4 DEF Stop, CannotCreate, AtEnd
<1> QED BY <1>1, <1>2, <1>3, <1>4

LEMMA StepCases ==
    ASSUME TypeOK, [Next]_vars
    PROVE  \/ \E s \in Statements : AddStatement(s)
           \/ LinkBegin
           \/ Visit
           \/ Stop
           \/ SecondPass
           \/ UNCHANGED vars
BY VisitCases, StopCases DEF Next, LinkStep

-----------------------------------------------------------------------------
(* The table.                                                              *)

(* A link pass changes the value of at most one name and binds none.       *)
LEMMA UpdateKeepsNames ==
    ASSUME NEW k, NEW v, Symbols!Update(k, v)
    PROVE  /\ DOMAIN asmvars' = DOMAIN asmvars
           /\ Symbols!Full' <=> Symbols!Full
           /\ \A n \in DOMAIN asmvars : n # k => asmvars'[n] = asmvars[n]
           /\ k \in DOMAIN asmvars => asmvars'[k] = v /\ asmvars' = Symbols!Bind(k, v)
           /\ k \notin DOMAIN asmvars => UNCHANGED asmvars
<1>1. DOMAIN asmvars' = DOMAIN asmvars
  BY DEF Symbols!Update, Symbols!Bind
<1>2. Symbols!Full' <=> Symbols!Full
  BY <1>1 DEF Symbols!Full
<1> QED BY <1>1, <1>2 DEF Symbols!Update, Symbols!Bind

LEMMA VisitKeepsNames ==
    ASSUME Visit
    PROVE  DOMAIN asmvars' = DOMAIN asmvars /\ (Symbols!Full' <=> Symbols!Full)
<1>1. CASE UNCHANGED asmvars
  BY <1>1 DEF Symbols!Full
<1>2. CASE ~UNCHANGED asmvars
  BY <1>2, UpdateKeepsNames DEF Visit
<1> QED BY <1>1, <1>2

LEMMA VisitKeepsFunction ==
    ASSUME TableInv, Visit
    PROVE  asmvars' = [n \in DOMAIN asmvars' |-> asmvars'[n]]
<1>1. CASE UNCHANGED asmvars
  BY <1>1 DEF TableInv
<1>2. ASSUME NEW k, NEW v, Symbols!Update(k, v)
      PROVE  asmvars' = [n \in DOMAIN asmvars' |-> asmvars'[n]]
  BY <1>2, ZenonT(40) DEF Symbols!Update, Symbols!Bind, TableInv
<1> QED BY <1>1, <1>2 DEF Visit

LEMMA AddKeepsTable ==
    ASSUME TypeOK, TableInv, NEW s \in Statements, AddStatement(s)
    PROVE  TableInv'
<1>1. /\ Len(ast') = Len(ast) + 1 /\ Len(ast) \in Nat
      /\ \A i \in 1..Len(ast) : ast'[i] = ast[i]
      /\ ast'[Len(ast) + 1] = s
      /\ outcome = "running"
  BY DEF AddStatement, TypeOK
<1>2. ASSUME UNCHANGED asmvars, s.kind \in DeclKinds =>
                 \/ s.ident \in DOMAIN asmvars /\ outcome' = "duplicate"
                 \/ s.ident \notin DOMAIN asmvars /\ Symbols!Full
      PROVE  TableInv'
  <2>1. Symbols!Full' <=> Symbols!Full
    BY <1>2 DEF Symbols!Full
  <2>2. \A n \in DOMAIN asmvars' : \E i \in 1..Len(ast') : Declares(ast'[i], n)
    BY <1>1, <1>2 DEF TableInv
  <2>3. \A i \in 1..Len(ast') : ast'[i].kind \in DeclKinds
          => ast'[i].ident \in DOMAIN asmvars' \/ Symbols!Full'
    BY <1>1, <1>2, <2>1 DEF TableInv
  <2>4. ASSUME outcome' # "duplicate",
               NEW i \in 1..Len(ast'), NEW j \in 1..Len(ast'), NEW n \in DOMAIN asmvars,
               Declares(ast'[i], n), Declares(ast'[j], n)
        PROVE  i = j
    <3>1. ~Declares(s, n)
      BY <1>2, <2>4 DEF Declares
    <3>2. i \in 1..Len(ast) /\ j \in 1..Len(ast)
      BY <1>1, <2>4, <3>1
    <3> QED BY <1>1, <2>4, <3>2 DEF TableInv
  <2> QED BY <1>2, <2>2, <2>3, <2>4 DEF TableInv
<1>3. ASSUME s.kind \in DeclKinds, s.ident \notin DOMAIN asmvars, ~Symbols!Full,
             NEW v, asmvars' = Symbols!Bind(s.ident, v)
      PROVE  TableInv'
  <2>1. DOMAIN asmvars' = DOMAIN asmvars \cup {s.ident}
        /\ asmvars' = [n \in DOMAIN asmvars' |-> asmvars'[n]]
    BY <1>3 DEF Symbols!Bind
  <2>2. \A n \in DOMAIN asmvars' : \E i \in 1..Len(ast') : Declares(ast'[i], n)
    BY <1>1, <1>3, <2>1 DEF TableInv, Declares
  <2>3. \A i \in 1..Len(ast) : ast[i].kind \in DeclKinds => ast[i].ident \in DOMAIN asmvars
    BY <1>3 DEF TableInv
  <2>4. \A i \in 1..Len(ast') : ast'[i].kind \in DeclKinds
          => ast'[i].ident \in DOMAIN asmvars' \/ Symbols!Full'
    BY <1>1, <2>1, <2>3
  <2>5. ASSUME NEW i \in 1..Len(ast'), NEW j \in 1..Len(ast'), NEW n \in DOMAIN asmvars',
               Declares(ast'[i], n), Declares(ast'[j], n)
        PROVE  i = j
    <3>1. CASE n = s.ident
      <4>1. \A h \in 1..Len(ast) : ~Declares(ast[h], n)
        BY <1>3, <2>3, <3>1 DEF Declares
      <4> QED BY <1>1, <2>5, <4>1
    <3>2. CASE n # s.ident
      <4>1. ~Declares(s, n) /\ n \in DOMAIN asmvars
        BY <2>1, <2>5, <3>2 DEF Declares
      <4>2. i \in 1..Len(ast) /\ j \in 1..Len(ast)
        BY <1>1, <2>5, <4>1
      <4> QED BY <1>1, <2>5, <4>1, <4>2 DEF TableInv
    <3> QED BY <3>1, <3>2
  <2> QED BY <2>1, <2>2, <2>4, <2>5 DEF TableInv
<1>4. ASSUME s.kind \in DeclKinds, NEW v, Symbols!Define(s.ident, v) PROVE TableInv'
  <2>1. CASE s.ident \in DOMAIN asmvars
    <3>1. UNCHANGED asmvars /\ outcome' = "duplicate"
      BY <1>4, <2>1 DEF Symbols!Define
    <3> QED BY <1>2, <2>1, <3>1
  <2>2. CASE s.ident \notin DOMAIN asmvars /\ Symbols!Full
    <3>1. UNCHANGED asmvars
      BY <1>4, <2>2 DEF Symbols!Define
    <3> QED BY <1>2, <2>2, <3>1
  <2>3. CASE s.ident \notin DOMAIN asmvars /\ ~Symbols!Full
    <3>1. asmvars' = Symbols!Bind(s.ident, v)
      BY <1>4, <2>3 DEF Symbols!Define
    <3> QED BY <1>3, <1>4, <2>3, <3>1
  <2> QED BY <2>1, <2>2, <2>3
<1>5. CASE s.kind = "label"
  BY <1>4, <1>5 DEF AddStatement, DeclKinds
<1>6. CASE s.kind = "equ"
  BY <1>4, <1>6 DEF AddStatement, DeclKinds
<1>7. CASE s.kind \notin {"label", "equ"}
  BY <1>2, <1>7 DEF AddStatement, DeclKinds
<1> QED BY <1>5, <1>6, <1>7

LEMMA TableInductive ==
    ASSUME TypeOK, StageInv, TableInv, [Next]_vars
    PROVE  TableInv'
<1>1. ASSUME UNCHANGED <<ast, asmvars>>, outcome = "duplicate" => outcome' = "duplicate"
      PROVE  TableInv'
  <2>1. Symbols!Full' <=> Symbols!Full
    BY <1>1 DEF Symbols!Full
  <2> QED BY <1>1, <2>1 DEF TableInv
<1>2. CASE Visit
  <2>1. UNCHANGED <<ast, outcome>>
    BY <1>2 DEF Visit
  <2> QED BY <1>2, <2>1, VisitKeepsNames, VisitKeepsFunction DEF TableInv
<1>3. CASE Stop
  BY <1>1, <1>3 DEF Stop
<1>4. CASE LinkBegin \/ SecondPass \/ UNCHANGED vars
  BY <1>1, <1>4 DEF LinkBegin, SecondPass, vars
<1> QED BY <1>2, <1>3, <1>4, AddKeepsTable, StepCases
-----------------------------------------------------------------------------
(* The record of addresses.                                                *)

LEMMA LogPcAppends ==
    ASSUME TypeOK, Len(addr) = it - 1, LogPc
    PROVE  addr' = Append(addr, pc) /\ Len(addr') = it
BY DEF TypeOK, LogPc

LEMMA LogPcReplaces ==
    ASSUME TypeOK, Len(addr) = Len(ast) + 1, LogPc
    PROVE  addr' = [addr EXCEPT ![it] = pc] /\ Len(addr') = Len(addr)
BY DEF TypeOK, LogPc

(* Logging the address that is there changes nothing.                      *)
LEMMA LogPcIdle ==
    ASSUME TypeOK, Len(addr) = Len(ast) + 1, LogPc, pc = addr[it]
    PROVE  UNCHANGED addr
<1>1. addr \in Seq(Int) /\ it \in 1..Len(addr) /\ pc \in Int
  BY DEF TypeOK
<1>2. addr' = [addr EXCEPT ![it] = pc] /\ Len(addr') = Len(addr) /\ addr' \in Seq(Int)
  BY LogPcReplaces, LogPcType
<1>3. \A j \in 1..Len(addr) : addr'[j] = addr[j]
  BY <1>1, <1>2
<1> QED BY <1>1, <1>2, <1>3, SeqEqual, Zenon

(* A statement leaves the parser in PARSE_STAGE.                           *)
LEMMA AddStaysParsing ==
    ASSUME NEW s \in Statements, AddStatement(s)
    PROVE  /\ bkasm_stage = PARSE_STAGE /\ UNCHANGED bkasm_stage
           /\ outcome = "running" /\ outcome' \in {"running", "duplicate"}
<1>1. CASE s.kind = "label"
  BY <1>1 DEF AddStatement, Symbols!Define
<1>2. CASE s.kind = "equ"
  BY <1>2 DEF AddStatement, Symbols!Define
<1>3. CASE s.kind \notin {"label", "equ"}
  BY <1>3 DEF AddStatement
<1> QED BY <1>1, <1>2, <1>3

LEMMA StageInductive ==
    ASSUME TypeOK, StageInv, [Next]_vars
    PROVE  StageInv'
<1>1. ASSUME NEW s \in Statements, AddStatement(s) PROVE StageInv'
  BY <1>1, AddStaysParsing DEF AddStatement, StageInv, Blank
<1>2. CASE LinkBegin
  <2>1. Len(addr) = 0 /\ it = 1
    BY <1>2 DEF LinkBegin, StageInv
  <2> QED BY <1>2, <2>1 DEF LinkBegin, StageInv, Blank
<1>3. CASE Visit
  <2>1. bkasm_stage \in {1, 2} /\ it <= Len(ast) /\ it \in Nat /\ Len(ast) \in Nat
    BY <1>3 DEF Visit, TypeOK
  <2>2. CASE bkasm_stage = EVAL_STAGE
    <3>1. Len(addr') = it /\ it' = it + 1
      BY <1>3, <2>2, LogPcAppends DEF Visit, Advance, StageInv
    <3> QED BY <1>3, <2>1, <2>2, <3>1 DEF Visit, StageInv, Blank
  <2>3. CASE bkasm_stage = GENERATE_STAGE
    <3>1. Len(addr') = Len(ast) + 1
      BY <1>3, <2>3, LogPcReplaces DEF Visit, Advance, StageInv
    <3> QED BY <1>3, <2>1, <2>3, <3>1 DEF Visit, StageInv
  <2> QED BY <2>1, <2>2, <2>3
<1>4. CASE Stop
  <2>1. bkasm_stage \in {1, 2}
    BY <1>4 DEF Stop, TypeOK
  <2>2. CASE bkasm_stage = EVAL_STAGE
    BY <1>4, <2>2 DEF Stop, StageInv, Blank
  <2>3. CASE bkasm_stage = GENERATE_STAGE
    <3>1. Len(addr') = Len(ast) + 1
      BY <1>4, <2>3, LogPcReplaces DEF Stop, StageInv
    <3> QED BY <1>4, <2>3, <3>1 DEF Stop, StageInv
  <2> QED BY <2>1, <2>2, <2>3
<1>5. CASE SecondPass
  <2>1. it = Len(ast) + 1 /\ Len(addr) = it - 1
    BY <1>5 DEF SecondPass, AtEnd, TypeOK, StageInv
  <2>2. Len(addr') = Len(ast) + 1
    BY <1>5, <2>1, LogPcAppends DEF SecondPass
  <2> QED BY <1>5, <2>2 DEF SecondPass, AtEnd, StageInv
<1>6. CASE UNCHANGED vars
  BY <1>6 DEF vars, StageInv, Blank
<1> QED BY <1>1, <1>2, <1>3, <1>4, <1>5, <1>6, StepCases

(* How a step changes walk: the first pass adds an address, the second one *)
(* finds those it logs.                                                    *)
LEMMA WalkShape ==
    ASSUME TypeOK, StageInv, Walking
    PROVE  /\ walk \in Seq(Int)
           /\ it \in 1..Len(walk)
           /\ bkasm_stage = EVAL_STAGE => Len(walk) = it /\ walk[it] = pc
           /\ bkasm_stage = GENERATE_STAGE => walk = addr /\ Len(walk) = Len(ast) + 1
<1>1. CASE bkasm_stage = GENERATE_STAGE
  BY <1>1 DEF TypeOK, StageInv, walk
<1>2. CASE bkasm_stage = EVAL_STAGE /\ outcome = "running"
  BY <1>2 DEF TypeOK, StageInv, walk
<1> QED BY <1>1, <1>2 DEF Walking

LEMMA WalkExtends ==
    ASSUME TypeOK, StageInv, Visit, bkasm_stage = EVAL_STAGE
    PROVE  /\ Len(walk) = it /\ Len(walk') = it + 1
           /\ \A i \in 1..it : walk'[i] = walk[i]
           /\ walk'[it + 1] = pc'
<1>1. addr' = Append(addr, pc) /\ UNCHANGED bkasm_stage
  BY LogPcAppends DEF Visit, Advance, StageInv
<1>2. walk' = Append(walk, pc')
  BY <1>1 DEF walk
<1>3. walk \in Seq(Int) /\ Len(walk) = it
  BY WalkShape DEF Visit, Walking
<1> QED BY <1>2, <1>3

(* A step of the first pass gives a name its value, and the statements     *)
(* before it do not read that name: they are settled and stay so.          *)
LEMMA SettledBefore ==
    ASSUME TypeOK, TableInv, NoForwardRefs(ast), Visit, NEW i \in 1..it,
           ast[i].kind \in {"equ", "org", "ds"}
    PROVE  Value(ast[i].arg, asmvars') = Value(ast[i].arg, asmvars)
<1>1. CASE UNCHANGED asmvars
  BY <1>1
<1>2. CASE node.kind \in DeclKinds
  <2>1. it \in 1..Len(ast) /\ i \in 1..Len(ast) /\ outcome # "duplicate"
    BY DEF Visit, TypeOK
  <2>2. PICK v : Symbols!Update(node.ident, v)
    BY <1>2 DEF Visit
  <2>3. ASSUME NEW n \in Reads(ast[i]) PROVE AgreeOn(n, asmvars, asmvars')
    <3>1. PICK j \in 1..(i-1) : Declares(ast[j], n)
      BY <2>1 DEF NoForwardRefs
    <3>2. j \in 1..Len(ast) /\ j # it
      BY <2>1, <3>1
    <3>3. n = node.ident => n \notin DOMAIN asmvars
      <4> SUFFICES ASSUME n = node.ident, n \in DOMAIN asmvars PROVE FALSE
        OBVIOUS
      <4>1. Declares(ast[it], n)
        BY <1>2 DEF Declares, node
      <4> QED BY <2>1, <3>1, <3>2, <4>1 DEF TableInv
    <3> QED BY <2>2, <3>3, UpdateKeepsNames DEF AgreeOn
  <2>4. Reads(ast[i]) = VarsOf(ast[i].arg)
    BY DEF Reads
  <2> QED BY <2>3, <2>4, ValueAgrees
<1> QED BY <1>1, <1>2 DEF Visit

LEMMA SettledStays ==
    ASSUME TypeOK, StageInv, TableInv, NoForwardRefs(ast), Visit, bkasm_stage = EVAL_STAGE,
           NEW i \in 1..(it - 1), NodeSettled(i, asmvars, walk)
    PROVE  NodeSettled(i, asmvars, walk)'
<1>1. /\ i \in 1..it /\ i + 1 \in 1..it /\ i # it /\ i \in 1..Len(ast) /\ it \in 1..Len(ast)
      /\ UNCHANGED ast /\ outcome # "duplicate"
  BY DEF Visit, TypeOK
<1>2. walk'[i] = walk[i] /\ walk'[i + 1] = walk[i + 1]
  BY <1>1, WalkExtends
<1>3. ast[i].kind \in {"equ", "org", "ds"} =>
        Value(ast[i].arg, asmvars') = Value(ast[i].arg, asmvars)
  BY <1>1, SettledBefore
<1>4. Promise!Next1(ast[i], walk[i], asmvars') = Promise!Next1(ast[i], walk[i], asmvars)
  BY <1>1, <1>3, NextAddressAgrees, StatementsAssumption DEF TypeOK
<1>5. ASSUME ast[i].kind \in DeclKinds, ast[i].ident \in DOMAIN asmvars
      PROVE  asmvars'[ast[i].ident] = asmvars[ast[i].ident]
  <2>1. CASE UNCHANGED asmvars
    BY <2>1
  <2>2. CASE node.kind \in DeclKinds
    <3>1. PICK v : Symbols!Update(node.ident, v)
      BY <2>2 DEF Visit
    <3>2. node.ident # ast[i].ident
      <4> SUFFICES ASSUME node.ident = ast[i].ident PROVE FALSE
        OBVIOUS
      <4>1. Declares(ast[i], ast[i].ident) /\ Declares(ast[it], ast[i].ident)
        BY <1>5, <2>2 DEF Declares, node
      <4> QED BY <1>1, <1>5, <4>1 DEF TableInv
    <3> QED BY <1>5, <3>1, <3>2, UpdateKeepsNames
  <2> QED BY <2>1, <2>2 DEF Visit
<1>6. DOMAIN asmvars' = DOMAIN asmvars
  BY VisitKeepsNames
<1> QED BY <1>1, <1>2, <1>3, <1>4, <1>5, <1>6 DEF NodeSettled, DeclKinds

(* The statement that the first pass is at becomes settled.                *)
LEMMA VisitSettles ==
    ASSUME TypeOK, StageInv, TableInv, NoForwardRefs(ast), Visit, bkasm_stage = EVAL_STAGE,
           NEW i \in Nat, i = it
    PROVE  NodeSettled(i, asmvars, walk)'
<1>1. i \in 1..Len(ast) /\ i \in 1..i /\ UNCHANGED ast /\ ast[i] = node
  BY DEF Visit, TypeOK, node
<1>2. walk'[i] = pc /\ walk'[i + 1] = pc'
  BY <1>1, WalkExtends, WalkShape DEF Visit, Walking
<1>3. ast[i].kind \in {"equ", "org", "ds"} =>
        Value(ast[i].arg, asmvars') = Value(ast[i].arg, asmvars)
  BY <1>1, SettledBefore
<1>4. Promise!Next1(ast[i], pc, asmvars') = Promise!Next1(ast[i], pc, asmvars)
  BY <1>1, <1>3, NextAddressAgrees, StatementsAssumption DEF TypeOK
<1>5. pc' = Promise!Next1(ast[i], pc, asmvars)
  BY <1>1 DEF Visit, Advance
<1>6. DOMAIN asmvars' = DOMAIN asmvars
  BY VisitKeepsNames
<1>7. ASSUME ast[i].kind = "label", ast[i].ident \in DOMAIN asmvars
      PROVE  asmvars'[ast[i].ident] = pc
  <2>1. Symbols!Update(node.ident, pc)
    BY <1>1, <1>7 DEF Visit, DeclKinds
  <2> QED BY <1>1, <1>7, <2>1, UpdateKeepsNames
<1>8. ASSUME ast[i].kind = "equ", ast[i].ident \in DOMAIN asmvars
      PROVE  asmvars'[ast[i].ident] = Value(ast[i].arg, asmvars')
  <2>1. Symbols!Update(node.ident, operand)
    BY <1>1, <1>8 DEF Visit, DeclKinds
  <2>2. operand = Value(ast[i].arg, asmvars)
    BY <1>1 DEF operand
  <2> QED BY <1>1, <1>3, <1>8, <2>1, <2>2, UpdateKeepsNames
<1>9. NodeSettled(i, asmvars, walk)'
        <=> /\ walk'[i + 1] = Promise!Next1(ast'[i], walk'[i], asmvars')
            /\ ast'[i].kind = "label" /\ ast'[i].ident \in DOMAIN asmvars'
                 => asmvars'[ast'[i].ident] = walk'[i]
            /\ ast'[i].kind = "equ" /\ ast'[i].ident \in DOMAIN asmvars'
                 => asmvars'[ast'[i].ident] = Value(ast'[i].arg, asmvars')
  BY DEF NodeSettled
<1> QED BY <1>1, <1>2, <1>4, <1>5, <1>6, <1>7, <1>8, <1>9
(* The second pass stores the values and logs the addresses of the first.  *)
LEMMA RebindSame ==
    ASSUME asmvars = [n \in DOMAIN asmvars |-> asmvars[n]], NEW k \in DOMAIN asmvars,
           NEW v, asmvars[k] = v
    PROVE  Symbols!Bind(k, v) = asmvars
<1>1. DOMAIN asmvars \cup {k} = DOMAIN asmvars
  OBVIOUS
<1>2. Symbols!Bind(k, v) = [n \in DOMAIN asmvars |-> asmvars[n]]
  BY <1>1 DEF Symbols!Bind
<1> QED BY <1>2

LEMMA SecondPassAgrees ==
    ASSUME TypeOK, StageInv, TableInv, WalkInv, NoForwardRefs(ast),
           bkasm_stage = GENERATE_STAGE, Visit
    PROVE  UNCHANGED <<asmvars, addr>> /\ pc = addr[it] /\ pc' = addr[it + 1]
<1>1. walk = addr /\ Len(walk) = Len(ast) + 1 /\ it \in 1..Len(ast)
  BY WalkShape DEF Walking, Visit, TypeOK
<1>2. it \in 1..(Len(walk) - 1)
  BY <1>1 DEF TypeOK
<1>3. pc = addr[it] /\ NodeSettled(it, asmvars, addr)
  BY <1>1, <1>2 DEF WalkInv, Walking
<1>4. UNCHANGED addr
  BY <1>1, <1>3, LogPcIdle DEF Visit, Advance
<1>5. pc' = addr[it + 1]
  BY <1>3 DEF Visit, Advance, NodeSettled, node
<1>6. ASSUME node.kind \in DeclKinds, node.ident \in DOMAIN asmvars
      PROVE  UNCHANGED asmvars
  <2>1. asmvars[node.ident] = IF node.kind = "label" THEN pc ELSE operand
    BY <1>3, <1>6 DEF NodeSettled, node, operand, DeclKinds
  <2>2. asmvars' = Symbols!Bind(node.ident, IF node.kind = "label" THEN pc ELSE operand)
    BY <1>6, UpdateKeepsNames DEF Visit
  <2> QED BY <1>6, <2>1, <2>2, RebindSame DEF TableInv
<1>7. ASSUME node.kind \in DeclKinds, node.ident \notin DOMAIN asmvars
      PROVE  UNCHANGED asmvars
  BY <1>7, UpdateKeepsNames DEF Visit
<1>8. node.kind \notin DeclKinds => UNCHANGED asmvars
  BY DEF Visit
<1> QED BY <1>3, <1>4, <1>5, <1>6, <1>7, <1>8

LEMMA WalkInductive ==
    ASSUME TypeOK, StageInv, TableInv, WalkInv, [Next]_vars
    PROVE  WalkInv'
<1>1. ASSUME NEW s \in Statements, AddStatement(s) PROVE ~Walking'
  BY <1>1, AddStaysParsing DEF Walking
<1>2. CASE LinkBegin
  <2>1. walk' = Append(<<>>, 0) /\ it' = 1 /\ pc' = 0
    BY <1>2 DEF LinkBegin, walk, StageInv
  <2>2. Len(walk') = 1 /\ walk'[1] = 0
    BY <2>1
  <2> QED BY <2>1, <2>2 DEF WalkInv
<1>3. CASE Visit /\ bkasm_stage = EVAL_STAGE
  <2> SUFFICES ASSUME NoForwardRefs(ast)
               PROVE  /\ walk'[1] = 0
                      /\ pc' = walk'[it']
                      /\ \A i \in 1..(Len(walk') - 1) : NodeSettled(i, asmvars, walk)'
    BY <1>3 DEF WalkInv, Visit
  <2>1. /\ Len(walk) = it /\ Len(walk') = it + 1 /\ it \in Nat /\ it >= 1 /\ it' = it + 1
        /\ walk'[it + 1] = pc' /\ \A i \in 1..it : walk'[i] = walk[i]
    BY <1>3, WalkExtends, SMTT(30) DEF TypeOK, Visit, Advance
  <2>2. walk[1] = 0 /\ \A i \in 1..(it - 1) : NodeSettled(i, asmvars, walk)
    BY <1>3, <2>1 DEF WalkInv, Walking, Visit
  <2>3. \A i \in 1..(it - 1) : NodeSettled(i, asmvars, walk)'
    BY <1>3, <2>2, SettledStays
  <2>4. \A i \in Nat : i = it => NodeSettled(i, asmvars, walk)'
    BY <1>3, VisitSettles
  <2>5. \A i \in 1..(Len(walk') - 1) : i \in 1..(it - 1) \/ (i \in Nat /\ i = it)
    BY <2>1
  <2> QED BY <2>1, <2>2, <2>3, <2>4, <2>5
<1>4. CASE Visit /\ bkasm_stage = GENERATE_STAGE
  <2> SUFFICES ASSUME NoForwardRefs(ast)
               PROVE  /\ walk'[1] = 0
                      /\ pc' = walk'[it']
                      /\ \A i \in 1..(Len(walk') - 1) : NodeSettled(i, asmvars, walk)'
    BY <1>4 DEF WalkInv, Visit
  <2>1. UNCHANGED <<ast, asmvars, addr, bkasm_stage>> /\ pc' = addr[it + 1] /\ it' = it + 1
    BY <1>4, SecondPassAgrees DEF Visit, Advance
  <2>2. walk' = walk /\ walk = addr
    BY <1>4, <2>1 DEF walk
  <2> QED BY <1>4, <2>1, <2>2 DEF WalkInv, Walking, NodeSettled
<1>5. CASE Stop
  <2>1. CASE bkasm_stage = GENERATE_STAGE
    <3> SUFFICES ASSUME NoForwardRefs(ast)
                 PROVE  WalkInv'
      BY <1>5 DEF WalkInv, Stop
    <3>1. pc = addr[it] /\ Len(addr) = Len(ast) + 1
      BY <2>1 DEF WalkInv, Walking, walk, StageInv
    <3>2. UNCHANGED <<ast, asmvars, addr, bkasm_stage, it, pc>>
      BY <1>5, <3>1, LogPcIdle DEF Stop
    <3>3. walk' = walk
      BY <3>2 DEF walk
    <3> QED BY <2>1, <3>2, <3>3 DEF WalkInv, Walking, NodeSettled
  <2>2. CASE bkasm_stage # GENERATE_STAGE
    BY <1>5, <2>2 DEF WalkInv, Walking, Stop
  <2> QED BY <2>1, <2>2
<1>6. CASE SecondPass
  <2>1. Len(addr) = it - 1 /\ bkasm_stage = EVAL_STAGE /\ outcome = "running"
    BY <1>6 DEF SecondPass, AtEnd, StageInv
  <2>2. walk' = walk /\ pc' = 0 /\ it' = 1 /\ UNCHANGED <<ast, asmvars>>
    BY <1>6, <2>1, LogPcAppends DEF SecondPass, walk
  <2> QED BY <2>1, <2>2 DEF WalkInv, Walking, NodeSettled
<1>7. CASE UNCHANGED vars
  <2>1. walk' = walk
    BY <1>7 DEF vars, walk
  <2> QED BY <1>7, <2>1 DEF vars, WalkInv, Walking, NodeSettled
<1>8. Visit => bkasm_stage \in {EVAL_STAGE, GENERATE_STAGE}
  BY DEF Visit, TypeOK
<1>9. ~Walking' => WalkInv'
  BY DEF WalkInv
<1> QED BY <1>1, <1>2, <1>3, <1>4, <1>5, <1>6, <1>7, <1>8, <1>9, StepCases

-----------------------------------------------------------------------------
(* The complaints.                                                         *)

LEMMA ReadByNext ==
    ASSUME NEW n \in Nat
    PROVE  ReadBy(n + 1) = ReadBy(n) \cup (IF ast[n + 1].kind = "rst" THEN {} ELSE Reads(ast[n + 1]))
<1>1. 1..(n + 1) = 1..n \cup {n + 1}
  OBVIOUS
<1> QED BY <1>1 DEF ReadBy

LEMMA ReportInductive ==
    ASSUME TypeOK, StageInv, ReportInv, [Next]_vars
    PROVE  ReportInv'
<1>1. ASSUME NEW s \in Statements, AddStatement(s) PROVE ~Walking'
  BY <1>1, AddStaysParsing DEF Walking
<1>2. CASE LinkBegin
  <2>1. walk' = Append(<<>>, 0) /\ reported' = {}
    BY <1>2 DEF LinkBegin, walk, StageInv
  <2>2. Len(walk') - 1 = 0
    BY <2>1
  <2> QED BY <2>1, <2>2 DEF ReportInv, ReadBy
<1>3. CASE Visit /\ bkasm_stage = EVAL_STAGE
  <2>1. /\ Len(walk) - 1 = it - 1 /\ Len(walk') - 1 = it /\ it - 1 \in Nat /\ (it - 1) + 1 = it
    BY <1>3, WalkExtends DEF TypeOK
  <2>2. reported = ReadBy(it - 1) \ DOMAIN asmvars
    BY <1>3, <2>1 DEF ReportInv, Walking, Visit
  <2>3. ReadBy(it) = ReadBy(it - 1) \cup (IF node.kind = "rst" THEN {} ELSE Reads(node))
    BY <2>1, ReadByNext DEF node
  <2>4. \A n \in Nat : ReadBy(n)' = ReadBy(n)
    BY <1>3 DEF ReadBy, Visit
  <2>5. reported' = ReadBy(it) \ DOMAIN asmvars
    BY <1>3, <2>2, <2>3 DEF Visit
  <2>6. DOMAIN asmvars' = DOMAIN asmvars
    BY <1>3, VisitKeepsNames
  <2>7. UNCHANGED ast
    BY <1>3 DEF Visit
  <2> QED BY <2>1, <2>5, <2>6, <2>7 DEF ReportInv, ReadBy
<1>4. CASE (Visit \/ Stop) /\ bkasm_stage = GENERATE_STAGE
  <2>1. Len(walk) - 1 = Len(ast) /\ Len(walk') - 1 = Len(ast) /\ Len(ast) \in Nat
        /\ UNCHANGED <<ast, bkasm_stage>>
    <3>1. LogPc /\ UNCHANGED <<ast, bkasm_stage>>
      BY <1>4 DEF Visit, Advance, Stop
    <3>2. Len(addr) = Len(ast) + 1 /\ Len(addr') = Len(addr)
      BY <1>4, <3>1, LogPcReplaces DEF StageInv
    <3> QED BY <1>4, <3>1, <3>2 DEF walk, TypeOK
  <2>2. DOMAIN asmvars' = DOMAIN asmvars
    BY <1>4, VisitKeepsNames DEF Stop
  <2>3. reported = ReadBy(Len(ast)) \ DOMAIN asmvars
    BY <1>4, <2>1 DEF ReportInv, Walking
  <2>4. it <= Len(ast) /\ node.kind # "rst" => Reads(node) \subseteq ReadBy(Len(ast))
    BY DEF ReadBy, node, TypeOK
  <2>5. reported' = reported
    BY <1>4, <2>3, <2>4 DEF Visit, Stop
  <2> QED BY <2>1, <2>2, <2>3, <2>5 DEF ReportInv, ReadBy
<1>5. CASE Stop /\ bkasm_stage # GENERATE_STAGE
  BY <1>5 DEF Stop, ReportInv, Walking
<1>6. CASE SecondPass
  <2>1. Len(addr) = it - 1 /\ bkasm_stage = EVAL_STAGE /\ outcome = "running"
    BY <1>6 DEF SecondPass, AtEnd, StageInv
  <2>2. walk' = walk /\ UNCHANGED <<ast, asmvars, reported>>
    BY <1>6, <2>1, LogPcAppends DEF SecondPass, walk
  <2> QED BY <2>1, <2>2 DEF ReportInv, Walking, ReadBy
<1>7. CASE UNCHANGED vars
  <2>1. walk' = walk
    BY <1>7 DEF vars, walk
  <2> QED BY <1>7, <2>1 DEF vars, ReportInv, Walking, ReadBy
<1>8. Visit => bkasm_stage \in {EVAL_STAGE, GENERATE_STAGE}
  BY DEF Visit, TypeOK
<1>9. ~Walking' => ReportInv'
  BY DEF ReportInv
<1> QED BY <1>1, <1>2, <1>3, <1>4, <1>5, <1>6, <1>7, <1>8, <1>9, StepCases
-----------------------------------------------------------------------------
(* The invariant and what follows from it at once.                         *)

LEMMA InitLinkInv == ASSUME Init PROVE LinkInv
<1>1. /\ ast = <<>> /\ Len(ast) = 0 /\ asmvars = [n \in {} |-> 0]
      /\ bkasm_stage = PARSE_STAGE /\ outcome = "running"
  BY DEF Init, Symbols!Init
<1>2. TableInv
  BY <1>1 DEF TableInv
<1>3. StageInv
  BY <1>1 DEF StageInv, Init, Blank
<1>4. WalkInv /\ ReportInv
  BY <1>1 DEF WalkInv, ReportInv, Walking
<1> QED BY <1>2, <1>3, <1>4 DEF LinkInv

(* LinkInv holds in every state.                                           *)
THEOREM LinkSound == Spec => [](TypeOK /\ LinkInv)
<1>1. Init => LinkInv
  BY InitLinkInv
<1>2. TypeOK /\ LinkInv /\ [Next]_vars => LinkInv'
  BY TableInductive, StageInductive, WalkInductive, ReportInductive DEF LinkInv
<1> QED BY <1>1, <1>2, TypeCorrect, PTL DEF Spec

(* The second pass puts every node where the first one put it, for every   *)
(* program whose EQU, ORG and DS operands refer back only, also when the   *)
(* table has lost names.                                                   *)
THEOREM SameAddresses == Spec => []PassesAgree
<1>1. TypeOK /\ LinkInv => PassesAgree
  <2> SUFFICES ASSUME TypeOK, LinkInv, Generating, NoForwardRefs(ast)
               PROVE  pc = addr[it]
    BY DEF PassesAgree
  <2> QED BY DEF LinkInv, WalkInv, Walking, walk, Generating
<1> QED BY <1>1, LinkSound, PTL

(* ... and stores again the values that the table holds.                   *)
THEOREM ValuesSettled == Spec => SymbolsSettled
<1> DEFINE A == Generating /\ NoForwardRefs(ast) => UNCHANGED asmvars
<1>1. TypeOK /\ LinkInv /\ [Next]_vars => [A]_vars
  <2> SUFFICES ASSUME TypeOK, LinkInv, [Next]_vars, Generating, NoForwardRefs(ast)
               PROVE  UNCHANGED asmvars
    OBVIOUS
  <2>1. CASE Visit
    BY <2>1, SecondPassAgrees DEF LinkInv, Generating
  <2>2. CASE Stop
    BY <2>2 DEF Stop
  <2>3. \A s \in Statements : ~AddStatement(s)
    BY AddStaysParsing DEF Generating
  <2>4. ~LinkBegin
    BY DEF LinkBegin, Generating
  <2>5. CASE SecondPass \/ UNCHANGED vars
    BY <2>5 DEF SecondPass, vars
  <2> QED BY <2>1, <2>2, <2>3, <2>4, <2>5, StepCases
<1> QED BY <1>1, LinkSound, PTL DEF Spec, SymbolsSettled

(* A finished link has complained of exactly the names that are read and   *)
(* have no value.                                                          *)
THEOREM ComplaintsComplete == Spec => []UndefinedReported
<1>1. TypeOK /\ LinkInv => UndefinedReported
  <2>0. UndefinedReported <=>
          (outcome = "linked" => reported = ReadBy(Len(ast)) \ DOMAIN asmvars)
    BY DEF UndefinedReported, ReadBy
  <2> SUFFICES ASSUME TypeOK, LinkInv, outcome = "linked"
               PROVE  reported = ReadBy(Len(ast)) \ DOMAIN asmvars
    BY <2>0
  <2>1. bkasm_stage = GENERATE_STAGE
    BY DEF LinkInv, StageInv, TypeOK
  <2>2. Len(walk) - 1 = Len(ast)
    BY <2>1 DEF LinkInv, StageInv, walk, TypeOK
  <2> QED BY <2>1, <2>2 DEF LinkInv, ReportInv, Walking
<1> QED BY <1>1, LinkSound, PTL

-----------------------------------------------------------------------------
(* Linker implements Assembly: for every legal program the output is the   *)
(* image of the one meaning the program has, and prog[] is never accessed  *)
(* outside its bounds.                                                     *)

Legal == Promise!Legal(ast)
Origin == Promise!Origin(ast, asmvars)
SpaceIsReal == Promise!SpaceIsReal(ast, asmvars, addr)
Tame == Promise!Tame(ast, asmvars, addr)

(* code_org is the address of the ORG that has been visited, if one has.   *)
OriginInv ==
    Walking /\ Legal =>
        /\ \A i \in 1..(Len(walk) - 1) : ast[i].kind = "org" => code_org = walk[i + 1]
        /\ (\A i \in 1..(Len(walk) - 1) : ast[i].kind # "org") => code_org = 0

(* The second pass is inside prog[] once the ORG is behind it.             *)
OrgAhead == \E i \in it..Len(ast) : ast[i].kind = "org"

RoomInv ==
    bkasm_stage = GENERATE_STAGE /\ Legal /\ SpaceIsReal =>
        /\ ~ub
        /\ OrgAhead \/ (code_org <= pc /\ pc - code_org <= MAX_PROG_SIZE)

(* What the second pass has passed was fit to be put out.                  *)
NodeFine(i) ==
    /\ ast[i].kind = "rst" => ast[i].arg.value \in 0..7
    /\ ast[i].kind \in {"imm8", "db"} => Value(ast[i].arg, asmvars) \in -128..255
    /\ ast[i].kind \in {"imm8", "imm16"} => ast[i].arg.type # "EXPR_REG"
    /\ ast[i].kind \in Machine => addr[i + 1] - code_org <= MAX_PROG_SIZE

FineInv ==
    bkasm_stage = GENERATE_STAGE /\ Legal => \A i \in 1..(it - 1) : NodeFine(i)

(* prog[] holds the bytes of the statements before the current one.        *)
Code(i) == Promise!Encoding(ast[i], asmvars)

Holders(n, x) == {i \in 1..n : x - addr[i] + 1 \in DOMAIN Code(i)}

ByteSoFar(n, x) ==
    IF Holders(n, x) = {} THEN 0
    ELSE LET i == Promise!Max(Holders(n, x)) IN Code(i)[x - addr[i] + 1]

ImageInv ==
    bkasm_stage = GENERATE_STAGE /\ Legal /\ Tame =>
        \A a \in 0..MAX_PROG_SIZE-1 : prog[a] = ByteSoFar(it - 1, code_org + a)

SpaceInv == OriginInv /\ RoomInv /\ FineInv /\ ImageInv
-----------------------------------------------------------------------------
(* What a legal program is, in the terms of Linker.                        *)

LEMMA LegalParts ==
    ASSUME Legal
    PROVE  /\ NoForwardRefs(ast)
           /\ \A i \in 1..Len(ast) : ast[i].kind = "org" =>
                \A j \in 1..(i-1) : ast[j].kind \in DeclKinds
           /\ \A i \in 1..Len(ast) : ast[i].kind = "rst" => ast[i].arg.type = "EXPR_CONST"
           /\ Promise!FitsTable(ast)
BY PromiseOperators
   DEF Legal, Promise!Legal, Promise!NoForwardRefs, NoForwardRefs, Promise!OrgLeads,
       Promise!RstIsNumber

LEMMA OneOrg ==
    ASSUME TypeOK, Legal, NEW i \in 1..Len(ast), NEW j \in 1..Len(ast),
           ast[i].kind = "org", ast[j].kind = "org"
    PROVE  i = j
<1>1. ASSUME NEW g \in 1..Len(ast), NEW h \in 1..Len(ast), g < h,
             ast[g].kind = "org", ast[h].kind = "org"
      PROVE  FALSE
  <2>1. g \in 1..(h-1)
    BY <1>1 DEF TypeOK
  <2> QED BY <1>1, <2>1, LegalParts DEF DeclKinds
<1>2. i < j \/ j < i \/ i = j
  BY DEF TypeOK
<1> QED BY <1>1, <1>2

(* The steps of the second pass, and the one before it.                    *)
LEMMA GenerateCases ==
    ASSUME TypeOK, LinkInv, NoForwardRefs(ast), bkasm_stage = GENERATE_STAGE, [Next]_vars
    PROVE  /\ UNCHANGED <<ast, asmvars, addr, bkasm_stage>> /\ walk' = walk
           /\ \/ Visit /\ pc = addr[it] /\ pc' = addr[it + 1] /\ it' = it + 1
              \/ Stop
              \/ UNCHANGED vars
<1>1. CASE Visit
  <2>1. UNCHANGED <<asmvars, addr>> /\ pc = addr[it] /\ pc' = addr[it + 1]
    BY <1>1, SecondPassAgrees DEF LinkInv
  <2>2. UNCHANGED <<ast, bkasm_stage>> /\ it' = it + 1
    BY <1>1 DEF Visit, Advance
  <2> QED BY <1>1, <2>1, <2>2 DEF walk
<1>2. CASE Stop
  <2>1. pc = addr[it] /\ Len(addr) = Len(ast) + 1
    BY DEF LinkInv, WalkInv, Walking, walk, StageInv
  <2>2. UNCHANGED addr
    BY <1>2, <2>1, LogPcIdle DEF Stop
  <2> QED BY <1>2, <2>2 DEF Stop, walk
<1>3. \A s \in Statements : ~AddStatement(s)
  BY AddStaysParsing
<1>4. ~LinkBegin /\ ~SecondPass
  BY DEF LinkBegin, SecondPass
<1>5. CASE UNCHANGED vars
  BY <1>5 DEF vars, walk
<1> QED BY <1>1, <1>2, <1>3, <1>4, <1>5, StepCases

LEMMA GenerateBegins ==
    ASSUME TypeOK, LinkInv, bkasm_stage # GENERATE_STAGE, bkasm_stage' = GENERATE_STAGE,
           [Next]_vars
    PROVE  /\ bkasm_stage = EVAL_STAGE /\ Walking
           /\ it' = 1 /\ pc' = 0 /\ addr' = walk /\ walk' = walk /\ Len(walk) = Len(ast) + 1
           /\ Blank /\ ~ub
           /\ UNCHANGED <<ast, asmvars, code_org, prog, ub>>
<1>1. SecondPass
  <2>1. \A s \in Statements : ~AddStatement(s)
    BY AddStaysParsing
  <2> QED BY <2>1, StepCases DEF LinkBegin, Visit, Stop, vars
<1>2. /\ bkasm_stage = EVAL_STAGE /\ outcome = "running"
      /\ it = Len(ast) + 1 /\ Len(addr) = it - 1
      /\ Blank /\ ~ub
  BY <1>1 DEF SecondPass, AtEnd, TypeOK, LinkInv, StageInv
<1>3. addr' = walk /\ walk' = walk /\ Len(walk) = it
  BY <1>1, <1>2, LogPcAppends, WalkShape DEF SecondPass, walk, Walking
<1> QED BY <1>1, <1>2, <1>3 DEF SecondPass, Walking

-----------------------------------------------------------------------------
(* code_org.                                                               *)

LEMMA OriginKept ==
    ASSUME TypeOK, LinkInv, OriginInv, Legal, bkasm_stage = GENERATE_STAGE, [Next]_vars
    PROVE  UNCHANGED code_org
<1>1. NoForwardRefs(ast)
  BY LegalParts
<1>2. CASE Visit /\ pc' = addr[it + 1]
  <2>1. it \in 1..Len(ast) /\ it \in 1..(Len(walk) - 1) /\ walk = addr
    BY <1>2, WalkShape, SMTT(30) DEF Visit, TypeOK, LinkInv, Walking
  <2>2. CASE node.kind = "org"
    <3>1. code_org = addr[it + 1]
      BY <2>1, <2>2 DEF OriginInv, Walking, node
    <3>2. code_org' = pc'
      BY <1>2, <2>2, NextAddress DEF Visit, Advance, operand
    <3> QED BY <1>2, <3>1, <3>2
  <2>3. CASE node.kind # "org"
    BY <1>2, <2>3 DEF Visit
  <2> QED BY <2>2, <2>3
<1>3. CASE Stop \/ UNCHANGED vars
  BY <1>3 DEF Stop, vars
<1> QED BY <1>1, <1>2, <1>3, GenerateCases

LEMMA OriginInductive ==
    ASSUME TypeOK, LinkInv, OriginInv, [Next]_vars
    PROVE  OriginInv'
<1> SUFFICES ASSUME Walking', Legal'
             PROVE  OriginInv'
  BY DEF OriginInv
<1>1. CASE bkasm_stage = GENERATE_STAGE
  <2>1. Legal
    <3>1. UNCHANGED ast
      <4>1. \A s \in Statements : ~AddStatement(s)
        BY <1>1, AddStaysParsing
      <4> QED BY <4>1, StepCases DEF LinkBegin, Visit, Stop, SecondPass, vars
    <3> QED BY <3>1 DEF Legal
  <2>2. UNCHANGED <<ast, code_org>> /\ walk' = walk
    BY <1>1, <2>1, LegalParts, OriginKept, GenerateCases
  <2> QED BY <1>1, <2>1, <2>2 DEF OriginInv, Walking
<1>2. CASE bkasm_stage # GENERATE_STAGE /\ bkasm_stage' = GENERATE_STAGE
  <2>1. UNCHANGED <<ast, code_org>> /\ walk' = walk /\ Walking
    BY <1>2, GenerateBegins
  <2> QED BY <2>1 DEF OriginInv, Legal
<1>3. CASE bkasm_stage # GENERATE_STAGE /\ bkasm_stage' # GENERATE_STAGE
  <2>1. CASE LinkBegin
    <3>1. walk' = Append(<<>>, 0) /\ code_org' = 0
      BY <2>1 DEF LinkBegin, walk, LinkInv, StageInv
    <3>2. Len(walk') - 1 = 0
      BY <3>1
    <3> QED BY <3>1, <3>2 DEF OriginInv
  <2>2. CASE Visit
    <3>1. /\ bkasm_stage = EVAL_STAGE /\ Walking /\ Legal /\ UNCHANGED ast
          /\ it \in 1..Len(ast) /\ Len(walk) = it /\ Len(walk') = it + 1
          /\ \A i \in 1..it : walk'[i] = walk[i]
          /\ walk'[it + 1] = pc'
      BY <1>3, <2>2, WalkExtends DEF Visit, TypeOK, LinkInv, Walking, Legal
    <3>2. CASE node.kind = "org"
      <4>1. code_org' = walk'[it + 1]
        BY <2>2, <3>1, <3>2, NextAddress DEF Visit, Advance, operand
      <4>2. \A i \in 1..(Len(walk') - 1) : ast'[i].kind = "org" => code_org' = walk'[i + 1]
        <5> SUFFICES ASSUME NEW i \in 1..it, ast[i].kind = "org"
                     PROVE  code_org' = walk'[i + 1]
          BY <3>1 DEF TypeOK
        <5>1. i \in 1..Len(ast)
          BY <3>1
        <5>2. i = it
          BY <3>1, <3>2, <5>1, OneOrg DEF node
        <5> QED BY <4>1, <5>2
      <4>3. ~\A i \in 1..(Len(walk') - 1) : ast'[i].kind # "org"
        BY <3>1, <3>2 DEF node, TypeOK
      <4> QED BY <4>2, <4>3 DEF OriginInv
    <3>3. CASE node.kind # "org"
      <4>1. UNCHANGED code_org
        BY <2>2, <3>3 DEF Visit
      <4>2. /\ \A i \in 1..(it - 1) : ast[i].kind = "org" => code_org = walk[i + 1]
            /\ (\A i \in 1..(it - 1) : ast[i].kind # "org") => code_org = 0
        BY <3>1 DEF OriginInv
      <4>3. ASSUME NEW i \in 1..(Len(walk') - 1), ast'[i].kind = "org"
            PROVE  code_org' = walk'[i + 1]
        <5>1. i \in 1..(it - 1) /\ i + 1 \in 1..it
          BY <3>1, <3>3, <4>3 DEF node, TypeOK
        <5> QED BY <3>1, <4>1, <4>2, <4>3, <5>1
      <4>4. ASSUME \A i \in 1..(Len(walk') - 1) : ast'[i].kind # "org"
            PROVE  code_org' = 0
        <5>1. \A i \in 1..(it - 1) : i \in 1..(Len(walk') - 1)
          BY <3>1
        <5> QED BY <3>1, <4>1, <4>2, <4>4, <5>1
      <4> QED BY <4>3, <4>4 DEF OriginInv
    <3> QED BY <3>2, <3>3
  <2>3. CASE UNCHANGED vars
    BY <2>3 DEF vars, OriginInv, Walking, walk, Legal
  <2>4. ~Stop /\ ~SecondPass /\ \A s \in Statements : ~AddStatement(s)
    BY <1>3, AddStaysParsing DEF Stop, SecondPass, Walking
  <2> QED BY <2>1, <2>2, <2>3, <2>4, StepCases
<1> QED BY <1>1, <1>2, <1>3

(* It is the origin that Assembly gives the program.                       *)
LEMMA OriginFound ==
    ASSUME TypeOK, LinkInv, OriginInv, Legal, bkasm_stage = GENERATE_STAGE
    PROVE  code_org = Origin
<1> DEFINE orgs == {i \in 1..Len(ast) : ast[i].kind = "org"}
<1>1. Origin = IF orgs = {} THEN 0 ELSE Value(ast[Promise!Max(orgs)].arg, asmvars)
  BY PromiseOperators DEF Origin, Promise!Origin
<1>2. Len(walk) - 1 = Len(ast) /\ NoForwardRefs(ast) /\ Walking
  BY WalkShape, LegalParts DEF LinkInv, Walking, TypeOK
<1>3. CASE orgs = {}
  BY <1>1, <1>2, <1>3 DEF OriginInv
<1>4. CASE orgs # {}
  <2>1. PICK g \in 1..Len(ast) : ast[g].kind = "org"
    BY <1>4
  <2>2. orgs = {g}
    BY <2>1, OneOrg
  <2>3. Promise!Max({g}) = g
    BY DEF Promise!Max
  <2>4. code_org = walk[g + 1]
    BY <1>2, <2>1 DEF OriginInv
  <2>5. walk[g + 1] = Value(ast[g].arg, asmvars)
    BY <1>2, <2>1, NextAddress DEF LinkInv, WalkInv, NodeSettled
  <2> HIDE DEF orgs
  <2> QED BY <1>1, <1>4, <2>2, <2>3, <2>4, <2>5
<1> QED BY <1>3, <1>4

-----------------------------------------------------------------------------
(* prog[] and its bounds.                                                  *)

LEMMA SpaceFixed ==
    ASSUME UNCHANGED <<ast, asmvars, addr>>
    PROVE  (SpaceIsReal' <=> SpaceIsReal) /\ (Tame' <=> Tame) /\ (Legal' <=> Legal)
BY DEF SpaceIsReal, Tame, Legal

(* Code and DS, as seen from the address where prog[] begins.              *)
LEMMA VisitInside ==
    ASSUME TypeOK, LinkInv, OriginInv, Legal, SpaceIsReal, bkasm_stage = GENERATE_STAGE,
           Visit, pc = addr[it], pc' = addr[it + 1],
           node.kind # "org", ~ub, code_org <= pc, pc - code_org <= MAX_PROG_SIZE
    PROVE  ~ub' /\ code_org <= pc' /\ pc' - code_org <= MAX_PROG_SIZE
<1>1. /\ it \in 1..Len(ast) /\ node = ast[it] /\ node \in StatementsOver(Name)
      /\ pc' = Promise!Next1(node, pc, asmvars)
  BY NodeFacts DEF Visit, Advance, node
<1>2. CASE node.kind \in DeclKinds
  <2>1. node.kind \notin Machine
    BY <1>2 DEF DeclKinds, Machine, CodeKinds
  <2> QED BY <1>1, <1>2, <2>1, NextAddress DEF Visit
<1>3. CASE node.kind = "ds"
  <2>1. node.kind \notin Machine
    BY <1>3 DEF Machine, CodeKinds
  <2>2. addr[it] <= addr[it + 1] /\ addr[it + 1] - Origin <= MAX_PROG_SIZE
    BY <1>1, <1>3 DEF SpaceIsReal, Promise!SpaceIsReal, Origin
  <2>3. code_org = Origin
    BY OriginFound
  <2>4. pc \in Int /\ code_org \in Int /\ pc' \in Int
    <3>1. node.kind \notin {"label", "op"}
      BY <1>3
    <3>2. pc' = pc + operand
      BY <1>1, <1>3, NextAddress DEF operand
    <3> QED BY <1>1, <3>1, <3>2, NodeFacts DEF TypeOK
  <2> QED BY <2>1, <2>2, <2>3, <2>4 DEF Visit
<1>4. CASE node.kind \in Machine
  <2>1. /\ pc - code_org + Len(MachineCode) <= MAX_PROG_SIZE
        /\ ub' = (ub \/ pc < code_org \/ pc - code_org + Len(MachineCode) > MAX_PROG_SIZE)
        /\ node.kind = "rst" => RstValid
    <3>1. Accepted /\ Store(MachineCode)
      BY <1>4 DEF Visit
    <3>2. node.kind = "rst" => RstValid
      BY <3>1 DEF Accepted
    <3>3. Len(MachineCode) \in Nat
      BY <1>1, <1>4, <3>2, MachineCodeType
    <3>4. ub' = (ub \/ pc < code_org \/ pc - code_org + Len(MachineCode) > MAX_PROG_SIZE)
      BY <3>1 DEF Store
    <3>5. ~(pc - code_org + Len(MachineCode) > MAX_PROG_SIZE)
      BY <3>1 DEF Accepted, NoRoom
    <3>6. pc \in Int /\ code_org \in Int /\ MAX_PROG_SIZE \in Int
      BY SizesAssumption DEF TypeOK
    <3> HIDE DEF MachineCode
    <3> QED BY <3>2, <3>3, <3>4, <3>5, <3>6
  <2>2. Len(MachineCode) = (IF node.kind = "rst" THEN 1 ELSE CodeSize[node.kind])
        /\ Len(MachineCode) \in Nat
    BY <1>1, <1>4, <2>1, MachineCodeType
  <2>3. pc' = pc + Len(MachineCode)
    BY <1>1, <1>4, <2>2, NextAddress DEF Machine
  <2>4. pc \in Int /\ code_org \in Int /\ MAX_PROG_SIZE \in Int
    BY SizesAssumption DEF TypeOK
  <2> HIDE DEF MachineCode
  <2>5. Len(MachineCode) \in Nat
    BY <2>2
  <2>6. ~(pc < code_org) /\ ~(pc - code_org + Len(MachineCode) > MAX_PROG_SIZE)
    BY <2>1, <2>4, <2>5
  <2>7. ~ub'
    BY <2>1, <2>6, Zenon
  <2>8. code_org <= pc' /\ pc' - code_org <= MAX_PROG_SIZE
    BY <2>1, <2>3, <2>4, <2>5
  <2> QED BY <2>7, <2>8
<1>5. node.kind \in DeclKinds \/ node.kind = "ds" \/ node.kind \in Machine
  BY <1>1, StatementFields DEF DeclKinds, Machine
<1> QED BY <1>2, <1>3, <1>4, <1>5

LEMMA RoomInductive ==
    ASSUME TypeOK, LinkInv, OriginInv, RoomInv, [Next]_vars
    PROVE  RoomInv'
<1> SUFFICES ASSUME bkasm_stage' = GENERATE_STAGE, Legal', SpaceIsReal'
             PROVE  /\ ~ub'
                    /\ OrgAhead' \/ (code_org' <= pc' /\ pc' - code_org' <= MAX_PROG_SIZE)
  BY DEF RoomInv
<1>1. CASE bkasm_stage # GENERATE_STAGE
  <2>1. /\ Walking /\ it' = 1 /\ pc' = 0 /\ ~ub /\ UNCHANGED <<ast, code_org, ub>>
        /\ Len(walk) - 1 = Len(ast)
    BY <1>1, GenerateBegins DEF TypeOK
  <2>2. CASE ~OrgAhead'
    <3>1. \A i \in 1..Len(ast) : ast[i].kind # "org"
      BY <2>1, <2>2 DEF OrgAhead
    <3>2. code_org = 0
      BY <2>1, <3>1 DEF OriginInv, Legal
    <3> QED BY <2>1, <3>2, SizesAssumption
  <2> QED BY <2>1, <2>2
<1>2. CASE bkasm_stage = GENERATE_STAGE
  <2>1. Legal /\ SpaceIsReal /\ UNCHANGED <<ast, asmvars, addr, code_org>>
    <3>1. UNCHANGED ast
      <4>1. \A s \in Statements : ~AddStatement(s)
        BY <1>2, AddStaysParsing
      <4> QED BY <4>1, StepCases DEF LinkBegin, Visit, Stop, SecondPass, vars
    <3>2. Legal
      BY <3>1 DEF Legal
    <3>3. UNCHANGED <<ast, asmvars, addr>>
      BY <1>2, <3>2, LegalParts, GenerateCases
    <3> QED BY <1>2, <3>2, <3>3, SpaceFixed, OriginKept
  <2>2. ~ub /\ (OrgAhead \/ (code_org <= pc /\ pc - code_org <= MAX_PROG_SIZE))
    BY <1>2, <2>1 DEF RoomInv
  <2>3. CASE Visit /\ pc = addr[it] /\ pc' = addr[it + 1] /\ it' = it + 1
    <3>1. it \in 1..Len(ast)
      BY <2>3 DEF Visit, TypeOK
    <3>2. CASE node.kind = "org"
      <4>1. node.kind \notin Machine
        BY <3>2 DEF Machine, CodeKinds
      <4>2. pc' = operand /\ code_org' = operand /\ ~ub'
        BY <2>2, <2>3, <3>2, <4>1, NextAddress DEF Visit, Advance, operand
      <4>3. operand \in Int
        BY <3>1, <3>2, NodeFacts
      <4> QED BY <4>2, <4>3, SizesAssumption
    <3>3. CASE node.kind # "org" /\ OrgAhead
      <4>1. PICK i \in it..Len(ast) : ast[i].kind = "org"
        BY <3>3 DEF OrgAhead
      <4>2. i \in (it + 1)..Len(ast) /\ i \in 1..Len(ast) /\ it \in 1..(i - 1)
        BY <3>1, <3>3, <4>1 DEF node
      <4>3. node.kind \in DeclKinds
        BY <2>1, <4>1, <4>2, LegalParts DEF node
      <4>4. ~ub'
        BY <2>2, <2>3, <4>3 DEF Visit, DeclKinds, Machine, CodeKinds
      <4> QED BY <2>1, <2>3, <4>1, <4>2, <4>4 DEF OrgAhead
    <3>4. CASE node.kind # "org" /\ ~OrgAhead
      BY <1>2, <2>1, <2>2, <2>3, <3>4, VisitInside
    <3> QED BY <3>2, <3>3, <3>4
  <2>4. CASE Stop
    <3>1. UNCHANGED <<it, pc, ast, code_org>>
      BY <2>4 DEF Stop
    <3>2. CASE UNCHANGED ub
      BY <2>2, <3>1, <3>2 DEF OrgAhead
    <3>3. CASE WriteOutput
      <4>1. ~OrgAhead /\ ub' = (ub \/ pc - code_org > MAX_PROG_SIZE)
        BY <3>3 DEF WriteOutput, AtEnd, codesize, OrgAhead, TypeOK
      <4> QED BY <2>2, <3>1, <4>1, SizesAssumption DEF TypeOK
    <3> QED BY <2>4, <3>2, <3>3 DEF Stop, RefuseCode, RefuseRst, CannotCreate
  <2>5. CASE UNCHANGED vars
    BY <2>2, <2>5 DEF vars, OrgAhead
  <2> QED BY <1>2, <2>1, <2>3, <2>4, <2>5, LegalParts, GenerateCases
<1> QED BY <1>1, <1>2

-----------------------------------------------------------------------------
(* The statements behind the second pass.                                  *)

LEMMA FineInductive ==
    ASSUME TypeOK, LinkInv, OriginInv, FineInv, [Next]_vars
    PROVE  FineInv'
<1> SUFFICES ASSUME bkasm_stage' = GENERATE_STAGE, Legal'
             PROVE  \A i \in 1..(it' - 1) : NodeFine(i)'
  BY DEF FineInv
<1>1. CASE bkasm_stage # GENERATE_STAGE
  BY <1>1, GenerateBegins
<1>2. CASE bkasm_stage = GENERATE_STAGE
  <2>1. Legal /\ UNCHANGED <<ast, asmvars, addr, code_org>>
    <3>1. UNCHANGED ast
      <4>1. \A s \in Statements : ~AddStatement(s)
        BY <1>2, AddStaysParsing
      <4> QED BY <4>1, StepCases DEF LinkBegin, Visit, Stop, SecondPass, vars
    <3>2. Legal
      BY <3>1 DEF Legal
    <3> QED BY <1>2, <3>2, LegalParts, GenerateCases, OriginKept
  <2>2. \A i \in Nat : NodeFine(i)' <=> NodeFine(i)
    BY <2>1 DEF NodeFine
  <2>3. \A i \in 1..(it - 1) : NodeFine(i)'
    BY <1>2, <2>1, <2>2 DEF FineInv
  <2>4. CASE Visit /\ pc = addr[it] /\ pc' = addr[it + 1] /\ it' = it + 1
    <3>1. /\ it \in 1..Len(ast) /\ node = ast[it] /\ node \in StatementsOver(Name)
          /\ pc' = Promise!Next1(node, pc, asmvars)
      BY <2>4, NodeFacts DEF Visit, Advance, node
    <3>2. ASSUME node.kind \in Machine
          PROVE  /\ Accepted
                 /\ addr[it + 1] - code_org <= MAX_PROG_SIZE
      <4>1. Accepted
        BY <1>2, <2>4, <3>2 DEF Visit
      <4>2. Len(MachineCode) = (IF node.kind = "rst" THEN 1 ELSE CodeSize[node.kind])
            /\ Len(MachineCode) \in Nat
        BY <3>1, <3>2, <4>1, MachineCodeType DEF Accepted
      <4>3. pc' = pc + Len(MachineCode)
        BY <3>1, <3>2, <4>2, NextAddress DEF Machine
      <4>4. ~(pc - code_org + Len(MachineCode) > MAX_PROG_SIZE)
        BY <4>1 DEF Accepted, NoRoom
      <4>5. pc \in Int /\ code_org \in Int /\ MAX_PROG_SIZE \in Int
        BY SizesAssumption DEF TypeOK
      <4>6. Len(MachineCode) \in Nat
        BY <4>2
      <4> HIDE DEF MachineCode
      <4> QED BY <2>4, <4>1, <4>3, <4>4, <4>5, <4>6
    <3>3. ASSUME node.kind = "rst" PROVE node.arg.value \in 0..7
      <4>1. node.arg.type = "EXPR_CONST"
        BY <2>1, <3>1, <3>3, LegalParts
      <4>2. RstValid
        BY <3>2, <3>3 DEF Accepted, Machine
      <4> QED BY <4>1, <4>2 DEF RstValid, RstVector
    <3>4. ASSUME node.kind \in {"imm8", "db"} PROVE Value(node.arg, asmvars) \in -128..255
      BY <3>2, <3>4 DEF Accepted, Machine, CodeKinds, OutOfRange, operand
    <3>5. ASSUME node.kind \in {"imm8", "imm16"} PROVE node.arg.type # "EXPR_REG"
      BY <3>2, <3>5 DEF Accepted, Machine, CodeKinds, NoImmediate
    <3>6. NodeFine(it)
      BY <3>1, <3>2, <3>3, <3>4, <3>5 DEF NodeFine
    <3>7. \A i \in 1..(it' - 1) : i \in Nat /\ (i \in 1..(it - 1) \/ i = it)
      BY <2>4, <3>1
    <3>8. \A i \in Nat : i = it => NodeFine(i)
      BY <3>6
    <3> QED BY <2>2, <2>3, <3>7, <3>8
  <2>5. CASE Stop \/ UNCHANGED vars
    BY <2>3, <2>5 DEF Stop, vars
  <2> QED BY <1>2, <2>1, <2>4, <2>5, LegalParts, GenerateCases
<1> QED BY <1>1, <1>2

-----------------------------------------------------------------------------
(* The bytes.                                                              *)

LEMMA Concatenation ==
    ASSUME NEW a, NEW b, NEW c
    PROVE  <<a>> \o <<b, c>> = <<a, b, c>>
<1> DEFINE S == {a, b, c}
           s == <<a>>
           t == <<b, c>>
           u == <<a, b, c>>
<1>1. /\ s \in Seq(S) /\ Len(s) = 1 /\ s[1] = a
      /\ t \in Seq(S) /\ Len(t) = 2 /\ t[1] = b /\ t[2] = c
      /\ u \in Seq(S) /\ Len(u) = 3 /\ u[1] = a /\ u[2] = b /\ u[3] = c
  OBVIOUS
<1> HIDE DEF S, s, t, u
<1>2. /\ s \o t \in Seq(S) /\ Len(s \o t) = 3
      /\ (s \o t)[1] = a /\ (s \o t)[2] = b /\ (s \o t)[3] = c
  <2>1. /\ s \o t \in Seq(S) /\ Len(s \o t) = Len(s) + Len(t)
        /\ \A i \in 1..Len(s) + Len(t) :
             (s \o t)[i] = IF i <= Len(s) THEN s[i] ELSE t[i - Len(s)]
    BY <1>1, ConcatProperties
  <2> QED BY <1>1, <2>1
<1>3. \A i \in 1..Len(u) : (s \o t)[i] = u[i]
  BY <1>1, <1>2
<1>4. s \o t = u
  BY <1>1, <1>2, <1>3, SeqEqual
<1> QED BY <1>4 DEF s, t, u

LEMMA NonNegativeWord ==
    ASSUME NEW v \in Int, v >= 0
    PROVE  Promise!Word(v) = <<Byte(v), Byte(Quotient(v))>>
BY DEF Promise!Word, Byte, Quotient

(* What codegen_generate stores is the encoding of the statement.          *)
LEMMA MachineCodeIsEncoding ==
    ASSUME TypeOK, it <= Len(ast), node.kind \in Machine, Accepted,
           node.kind = "rst" => node.arg.type = "EXPR_CONST",
           node.kind \in {"imm16", "dw"} => operand >= 0
    PROVE  MachineCode = Promise!Encoding(node, asmvars)
<1>1. operand = Promise!Value(node.arg, asmvars)
  BY PromiseOperators DEF operand
<1>2. node.kind \notin {"label", "op"} => operand \in Int
  BY NodeFacts
<1>3. CASE node.kind = "op"
  <2>1. MachineCode = <<node.opcode>>
    BY <1>3 DEF MachineCode, Bytes
  <2> QED BY <1>3, <2>1 DEF Promise!Encoding
<1>4. CASE node.kind = "imm8"
  <2>1. MachineCode = <<node.opcode, Byte(operand)>>
    BY <1>4 DEF MachineCode, Bytes
  <2> QED BY <1>1, <1>4, <2>1 DEF Promise!Encoding, Byte
<1>5. CASE node.kind = "imm16"
  <2>1. MachineCode = <<node.opcode, Byte(operand), Byte(Quotient(operand))>>
    BY <1>5 DEF MachineCode, Bytes
  <2>2. Promise!Encoding(node, asmvars) = <<node.opcode>> \o Promise!Word(operand)
    BY <1>1, <1>5 DEF Promise!Encoding
  <2>3. Promise!Word(operand) = <<Byte(operand), Byte(Quotient(operand))>>
    BY <1>2, <1>5, NonNegativeWord
  <2> QED BY <2>1, <2>2, <2>3, Concatenation
<1>6. CASE node.kind = "db"
  <2>1. MachineCode = <<Byte(operand)>>
    BY <1>6 DEF MachineCode, Bytes
  <2> QED BY <1>1, <1>6, <2>1 DEF Promise!Encoding, Byte
<1>7. CASE node.kind = "dw"
  <2>1. MachineCode = <<Byte(operand), Byte(Quotient(operand))>>
    BY <1>7 DEF MachineCode, Bytes
  <2>2. Promise!Encoding(node, asmvars) = Promise!Word(operand)
    BY <1>1, <1>7 DEF Promise!Encoding
  <2> QED BY <1>2, <1>7, <2>1, <2>2, NonNegativeWord
<1>8. CASE node.kind = "rst"
  <2>1. MachineCode = <<199 + 8 * RstVector>>
    BY <1>8 DEF MachineCode
  <2>2. RstVector = node.arg.value
    BY <1>8 DEF RstVector
  <2>3. operand = node.arg.value
    BY <1>8, ValueByLevel DEF operand, IsMath, AtomValue
  <2>4. Promise!Encoding(node, asmvars) = <<199 + 8 * operand>>
    BY <1>1, <1>8 DEF Promise!Encoding
  <2> QED BY <2>1, <2>2, <2>3, <2>4
<1> QED BY <1>3, <1>4, <1>5, <1>6, <1>7, <1>8 DEF Machine, CodeKinds

LEMMA NoCode ==
    ASSUME NEW s, s.kind \notin Machine, NEW e
    PROVE  DOMAIN Promise!Encoding(s, e) = {}
<1>1. Promise!Encoding(s, e) = <<>>
  BY DEF Promise!Encoding, Machine, CodeKinds
<1> QED BY <1>1

LEMMA MaxIsLast ==
    ASSUME NEW n \in Nat, NEW S, n \in S, S \subseteq 1..n
    PROVE  Promise!Max(S) = n
<1>1. \A y \in S : n >= y
  OBVIOUS
<1>2. \A x \in S : (\A y \in S : x >= y) => x = n
  OBVIOUS
<1> QED BY <1>1, <1>2 DEF Promise!Max

(* One more statement.                                                     *)
LEMMA ByteSoFarNext ==
    ASSUME NEW n \in Nat \ {0}, NEW x \in Int
    PROVE  ByteSoFar(n, x) = IF x - addr[n] + 1 \in DOMAIN Code(n)
                               THEN Code(n)[x - addr[n] + 1] ELSE ByteSoFar(n - 1, x)
<1>1. 1..n = 1..(n - 1) \cup {n}
  OBVIOUS
<1>2. CASE x - addr[n] + 1 \in DOMAIN Code(n)
  <2>1. n \in Holders(n, x) /\ Holders(n, x) \subseteq 1..n
    BY <1>1, <1>2 DEF Holders
  <2>2. Promise!Max(Holders(n, x)) = n
    BY <2>1, MaxIsLast
  <2> QED BY <1>2, <2>1, <2>2 DEF ByteSoFar
<1>3. CASE x - addr[n] + 1 \notin DOMAIN Code(n)
  <2>1. Holders(n, x) = Holders(n - 1, x)
    BY <1>1, <1>3 DEF Holders
  <2> QED BY <1>3, <2>1 DEF ByteSoFar
<1> QED BY <1>2, <1>3

LEMMA ImageInductive ==
    ASSUME TypeOK, LinkInv, OriginInv, ImageInv, [Next]_vars
    PROVE  ImageInv'
<1> SUFFICES ASSUME bkasm_stage' = GENERATE_STAGE, Legal', Tame',
                    NEW a \in 0..MAX_PROG_SIZE-1
             PROVE  (prog[a] = ByteSoFar(it - 1, code_org + a))'
  BY DEF ImageInv
<1> SUFFICES ASSUME NEW n, n = it' - 1, NEW x, x = code_org' + a
             PROVE  prog'[a] = ByteSoFar(n, x)'
  BY DEF ByteSoFar, Holders, Code
<1>1. CASE bkasm_stage # GENERATE_STAGE
  <2>1. it' = 1 /\ Blank /\ prog' = prog /\ a \in DOMAIN prog
    BY <1>1, GenerateBegins DEF TypeOK
  <2>2. n = 0 /\ prog'[a] = 0
    BY <2>1 DEF Blank
  <2> QED BY <2>2 DEF ByteSoFar, Holders
<1>2. CASE bkasm_stage = GENERATE_STAGE
  <2>1. Legal /\ Tame /\ UNCHANGED <<ast, asmvars, addr, code_org>>
    <3>1. UNCHANGED ast
      <4>1. \A s \in Statements : ~AddStatement(s)
        BY <1>2, AddStaysParsing
      <4> QED BY <4>1, StepCases DEF LinkBegin, Visit, Stop, SecondPass, vars
    <3>2. Legal
      BY <3>1 DEF Legal
    <3>3. UNCHANGED <<ast, asmvars, addr>>
      BY <1>2, <3>2, LegalParts, GenerateCases
    <3> QED BY <1>2, <3>2, <3>3, SpaceFixed, OriginKept
  <2>2. ByteSoFar(n, x)' = ByteSoFar(n, code_org + a)
    <3>1. \A i : Code(i)' = Code(i)
      BY <2>1 DEF Code
    <3>2. Holders(n, x)' = Holders(n, x)
      BY <2>1, <3>1 DEF Holders
    <3>3. x = code_org + a
      BY <2>1
    <3> QED BY <2>1, <3>1, <3>2, <3>3 DEF ByteSoFar
  <2>3. prog[a] = ByteSoFar(it - 1, code_org + a)
    BY <1>2, <2>1 DEF ImageInv
  <2>4. CASE Visit /\ pc = addr[it] /\ pc' = addr[it + 1] /\ it' = it + 1
    <3>1. it \in 1..Len(ast) /\ it \in Nat \ {0} /\ it' - 1 = it /\ node = ast[it]
      BY <2>4 DEF Visit, TypeOK, node
    <3>2. code_org + a \in Int /\ (code_org + a) - addr[it] + 1 = a - (pc - code_org) + 1
      BY <2>4, SMTT(30) DEF TypeOK
    <3>3. ByteSoFar(it, code_org + a) =
            IF a - (pc - code_org) + 1 \in DOMAIN Code(it)
              THEN Code(it)[a - (pc - code_org) + 1] ELSE prog[a]
      BY <2>3, <3>1, <3>2, ByteSoFarNext
    <3>4. CASE node.kind \in Machine
      <4>1. Accepted /\ Store(MachineCode)
        BY <1>2, <2>4, <3>4 DEF Visit
      <4>2. node.kind = "rst" => node.arg.type = "EXPR_CONST"
        BY <2>1, <3>1, LegalParts
      <4>3. node.kind \in {"imm16", "dw"} => operand >= 0
        BY <2>1, <3>1, PromiseOperators
        DEF Tame, Promise!Tame, Promise!WordsUnsigned, operand
      <4>4. MachineCode = Code(it)
        BY <3>1, <3>4, <4>1, <4>2, <4>3, MachineCodeIsEncoding DEF Code
      <4>5. prog'[a] = IF a - (pc - code_org) + 1 \in DOMAIN Code(it)
                         THEN Code(it)[a - (pc - code_org) + 1] ELSE prog[a]
        BY <4>1, <4>4 DEF Store, TypeOK
      <4> QED BY <2>2, <3>1, <3>3, <4>5
    <3>5. CASE node.kind \notin Machine
      <4>1. prog' = prog
        BY <2>4, <3>5 DEF Visit
      <4>2. DOMAIN Code(it) = {}
        BY <3>1, <3>5, NoCode DEF Code
      <4> QED BY <2>2, <3>1, <3>3, <4>1, <4>2
    <3> QED BY <3>4, <3>5
  <2>5. CASE Stop \/ UNCHANGED vars
    BY <2>2, <2>3, <2>5 DEF Stop, vars
  <2> QED BY <1>2, <2>1, <2>4, <2>5, LegalParts, GenerateCases
<1> QED BY <1>1, <1>2

LEMMA InitSpaceInv == ASSUME Init PROVE SpaceInv
<1>1. bkasm_stage = PARSE_STAGE
  BY DEF Init, Symbols!Init
<1> QED BY <1>1 DEF SpaceInv, OriginInv, RoomInv, FineInv, ImageInv, Walking

(* SpaceInv holds in every state.                                          *)
THEOREM SpaceSound == Spec => [](TypeOK /\ LinkInv /\ SpaceInv)
<1>1. Init => SpaceInv
  BY InitSpaceInv
<1>2. TypeOK /\ LinkInv /\ SpaceInv /\ [Next]_vars => SpaceInv'
  BY OriginInductive, RoomInductive, FineInductive, ImageInductive DEF SpaceInv
<1> QED BY <1>1, <1>2, LinkSound, PTL DEF Spec

(* No legal program whose DS leave room has bkasm access prog[] outside    *)
(* its bounds, although codegen.c never compares pc with code_org.         *)
THEOREM NoStrayAccess == Spec => []InsideProg
<1>1. TypeOK /\ LinkInv /\ SpaceInv => InsideProg
  <2> SUFFICES ASSUME TypeOK, LinkInv, SpaceInv, Legal, ub, SpaceIsReal
               PROVE  FALSE
    BY DEF InsideProg, Legal, SpaceIsReal
  <2>1. bkasm_stage = GENERATE_STAGE
    BY DEF LinkInv, StageInv, TypeOK
  <2> QED BY <2>1 DEF SpaceInv, RoomInv
<1> QED BY <1>1, SpaceSound, PTL

-----------------------------------------------------------------------------
(* The meaning.                                                            *)

LEMMA DeclaredIsFinite ==
    ASSUME TypeOK
    PROVE  IsFiniteSet(Promise!Declared(ast))
<1> DEFINE D == {j \in 1..Len(ast) : ast[j].kind \in DeclKinds}
           f == [i \in D |-> ast[i].ident]
<1>1. IsFiniteSet(1..Len(ast)) /\ D \subseteq 1..Len(ast)
  BY FS_Interval DEF TypeOK
<1>2. IsFiniteSet(D)
  BY <1>1, FS_Subset
<1>3. Promise!Declared(ast) = {ast[i].ident : i \in D}
  BY PromiseOperators DEF Promise!Declared
<1>4. f \in Surjection(D, {ast[i].ident : i \in D})
  BY DEF Surjection
<1> HIDE DEF D, f
<1> QED BY <1>2, <1>3, <1>4, FS_Surjection

(* The table has lost none of the names of a program that fits.            *)
LEMMA NoneLost ==
    ASSUME TypeOK, TableInv, Promise!FitsTable(ast)
    PROVE  DOMAIN asmvars = Promise!Declared(ast)
<1> DEFINE D == Promise!Declared(ast)
           M == DOMAIN asmvars
<1>1. D = {ast[i].ident : i \in {j \in 1..Len(ast) : ast[j].kind \in DeclKinds}}
  BY PromiseOperators DEF Promise!Declared
<1>2. M \subseteq D
  <2> SUFFICES ASSUME NEW n \in M PROVE n \in D
    OBVIOUS
  <2>1. PICK i \in 1..Len(ast) : Declares(ast[i], n)
    BY DEF TableInv
  <2> QED BY <1>1, <2>1 DEF Declares
<1>3. ASSUME NEW n \in D, n \notin M PROVE FALSE
  <2>1. PICK i \in 1..Len(ast) : ast[i].kind \in DeclKinds /\ ast[i].ident = n
    BY <1>1
  <2>2. Symbols!Full
    BY <1>3, <2>1 DEF TableInv
  <2>3. IsFiniteSet(D)
    BY DeclaredIsFinite
  <2>9. Cardinality(M) \in Nat /\ Cardinality(D) \in Nat
    BY <1>2, <2>3, FS_Subset, FS_CardinalityType
  <2>4. M # D /\ Cardinality(M) < Cardinality(D)
    BY <1>2, <1>3, <2>3, <2>9, FS_Subset
  <2>5. Cardinality(D) <= MAX_VAR_COUNT
    BY DEF Promise!FitsTable, Promise!Cardinality, Cardinality
  <2>6. Cardinality(M) = MAX_VAR_COUNT
    BY <2>2 DEF Symbols!Full, Symbols!Cardinality, Cardinality
  <2> HIDE DEF M, D
  <2> QED BY <2>4, <2>5, <2>6, <2>9, SizesAssumption
<1> QED BY <1>2, <1>3

(* In the second pass the table and the record of addresses are the one    *)
(* meaning that a legal program has.                                       *)
LEMMA MeaningFound ==
    ASSUME TypeOK, LinkInv, Legal, bkasm_stage = GENERATE_STAGE
    PROVE  Promise!Meaning(ast, asmvars, addr)
<1>1. walk = addr /\ Len(addr) = Len(ast) + 1 /\ NoForwardRefs(ast) /\ Walking
  BY WalkShape, LegalParts DEF LinkInv, Walking
<1>2. addr[1] = 0 /\ \A i \in 1..Len(ast) : NodeSettled(i, asmvars, addr)
  BY <1>1 DEF LinkInv, WalkInv, TypeOK
<1>3. DOMAIN asmvars = Promise!Declared(ast)
  BY NoneLost, LegalParts DEF LinkInv
<1>4. \A i \in 1..Len(ast) : ast[i].kind \in DeclKinds => ast[i].ident \in DOMAIN asmvars
  BY <1>3, PromiseOperators DEF Promise!Declared
<1>5. ASSUME NEW i \in 1..Len(ast)
      PROVE  /\ addr[i + 1] = Promise!Next1(ast[i], addr[i], asmvars)
             /\ ast[i].kind = "label" => asmvars[ast[i].ident] = addr[i]
             /\ ast[i].kind = "equ" => asmvars[ast[i].ident] = Value(ast[i].arg, asmvars)
  BY <1>2, <1>4 DEF NodeSettled, DeclKinds
<1> QED BY <1>1, <1>2, <1>3, <1>5, PromiseOperators DEF Promise!Meaning

-----------------------------------------------------------------------------
(* The steps of the linker as steps of Assembly.                           *)

Phase == CASE outcome = "running" -> "source"
           [] outcome = "linked" -> "done"
           [] outcome = "nofile" -> "nofile"
           [] OTHER -> "failed"
Env == IF outcome \in {"running", "duplicate"} THEN <<>> ELSE asmvars
Place == IF outcome \in {"running", "duplicate"} THEN <<>> ELSE addr

(* A step that leaves the program, its outcome and the output alone.       *)
LEMMA Stutters ==
    ASSUME UNCHANGED <<ast, output>>, outcome = "running", outcome' = "running"
    PROVE  UNCHANGED Promise!avars
BY DEF Promise!avars

LEMMA AddExtends ==
    ASSUME TypeOK, LinkInv, NEW s \in Statements, AddStatement(s)
    PROVE  Promise!Extend(s)
<1>1. /\ outcome = "running" /\ outcome' \in {"running", "duplicate"}
      /\ ast' = Append(ast, s) /\ output' = output
  BY AddStaysParsing DEF AddStatement
<1>2. DOMAIN asmvars \subseteq Promise!Declared(ast)
  <2> SUFFICES ASSUME NEW n \in DOMAIN asmvars PROVE n \in Promise!Declared(ast)
    OBVIOUS
  <2>1. PICK i \in 1..Len(ast) : Declares(ast[i], n)
    BY DEF LinkInv, TableInv
  <2> QED BY <2>1, PromiseOperators DEF Promise!Declared, Declares
<1>3. ASSUME s.kind \in DeclKinds
      PROVE  outcome' = IF s.ident \in DOMAIN asmvars THEN "duplicate" ELSE "running"
  <2>1. PICK v : Symbols!Define(s.ident, v)
    BY <1>3 DEF AddStatement, DeclKinds
  <2> QED BY <1>1, <2>1 DEF Symbols!Define
<1>4. s.kind \notin DeclKinds => outcome' = "running"
  BY <1>1 DEF AddStatement, DeclKinds
<1>5. Promise!FitsTable(ast) => DOMAIN asmvars = Promise!Declared(ast)
  BY NoneLost DEF LinkInv
<1>6. Phase = "source" /\ Phase' = IF outcome' = "running" THEN "source" ELSE "failed"
  BY <1>1 DEF Phase
<1>7. Env' = Env /\ Place' = Place
  BY <1>1 DEF Env, Place
<1>8. LET twice == s.kind \in DeclKinds /\ s.ident \in Promise!Declared(ast)
      IN  /\ Phase' \in {"source", "failed"}
          /\ Phase' = "failed" => twice
          /\ twice /\ Promise!FitsTable(ast) => Phase' = "failed"
  BY <1>1, <1>2, <1>3, <1>4, <1>5, <1>6
<1> QED BY <1>1, <1>6, <1>7, <1>8, PromiseOperators DEF Promise!Extend, Phase, Env, Place

(* The second pass stops with the table and the addresses it found.        *)
LEMMA StopMeaning ==
    ASSUME TypeOK, LinkInv, Legal, bkasm_stage = GENERATE_STAGE, Stop
    PROVE  Env' = asmvars /\ Place' = addr
<1>1. pc = addr[it] /\ Len(addr) = Len(ast) + 1
  BY LegalParts DEF LinkInv, WalkInv, Walking, walk, StageInv
<1>2. UNCHANGED <<asmvars, addr>>
  BY <1>1, LogPcIdle DEF Stop
<1>3. outcome' \notin {"running", "duplicate"}
  BY DEF Stop
<1> QED BY <1>2, <1>3 DEF Env, Place

(* The output is the image.                                                *)
LEMMA OutputIsImage ==
    ASSUME TypeOK, LinkInv, SpaceInv, Legal, Tame, WriteOutput
    PROVE  output' = Promise!Image(ast, asmvars, addr)
<1>1. it = Len(ast) + 1 /\ bkasm_stage = GENERATE_STAGE /\ outcome = "running"
  BY DEF WriteOutput, AtEnd, TypeOK
<1>2. pc = addr[Len(ast) + 1] /\ code_org = Origin /\ pc \in Int /\ code_org \in Int
  BY <1>1, LegalParts, OriginFound
  DEF LinkInv, WalkInv, Walking, walk, SpaceInv, TypeOK
<1>3. codesize = addr[Len(ast) + 1] - Origin /\ codesize \in 0..MAX_PROG_SIZE
  <2>1. ~OrgAhead
    BY <1>1 DEF OrgAhead, TypeOK
  <2>2. code_org <= pc /\ pc - code_org <= MAX_PROG_SIZE
    BY <1>1, <2>1 DEF SpaceInv, RoomInv, Tame, SpaceIsReal, Promise!Tame
  <2> QED BY <1>2, <2>2, SizesAssumption DEF codesize
<1>4. output' = [b \in 1..codesize |-> prog[b - 1]]
  <2>1. ~(codesize < 0) /\ ~(codesize > MAX_PROG_SIZE)
    BY <1>3, SizesAssumption
  <2> QED BY <2>1 DEF WriteOutput
<1>5. ASSUME NEW b \in 1..codesize
      PROVE  prog[b - 1] = Promise!ByteAt(ast, asmvars, addr, Origin + b - 1)
  <2>1. b - 1 \in 0..MAX_PROG_SIZE-1
    BY <1>3, SizesAssumption
  <2>2. prog[b - 1] = ByteSoFar(it - 1, code_org + (b - 1))
    BY <1>1, <2>1 DEF SpaceInv, ImageInv
  <2>3. it - 1 = Len(ast) /\ code_org + (b - 1) = Origin + b - 1
    BY <1>1, <1>2, <1>3 DEF TypeOK
  <2>4. \A x : ByteSoFar(Len(ast), x) = Promise!ByteAt(ast, asmvars, addr, x)
    BY DEF ByteSoFar, Holders, Code, Promise!ByteAt
  <2> QED BY <2>2, <2>3, <2>4
<1>6. Promise!Image(ast, asmvars, addr) =
        [b \in 1..codesize |-> Promise!ByteAt(ast, asmvars, addr, Origin + b - 1)]
  BY <1>3 DEF Promise!Image, Origin
<1> QED BY <1>4, <1>5, <1>6

(* A program that came through the second pass has no fault.               *)
LEMMA NoFaultLeft ==
    ASSUME TypeOK, LinkInv, SpaceInv, Legal, bkasm_stage = GENERATE_STAGE, it = Len(ast) + 1
    PROVE  ~Promise!BadVector(ast) /\ ~Promise!Faulty(ast, asmvars, addr)
<1>1. it - 1 = Len(ast) /\ \A i \in 1..(it - 1) : NodeFine(i)
  BY DEF SpaceInv, FineInv, TypeOK
<1>2. \A i \in 1..Len(ast) : NodeFine(i)
  BY <1>1
<1>3. ~Promise!BadVector(ast)
  BY <1>2 DEF Promise!BadVector, NodeFine
<1>4. Promise!Origin(ast, asmvars) = code_org
  BY OriginFound DEF SpaceInv, Origin
<1>5. SUFFICES ASSUME NEW i \in 1..Len(ast), ast[i].kind \in Machine,
                      addr[i + 1] - code_org > MAX_PROG_SIZE
               PROVE  FALSE
  BY <1>2, <1>3, <1>4, PromiseOperators DEF Promise!Faulty, NodeFine, Machine
<1>6. i + 1 \in 1..Len(addr) /\ addr[i + 1] \in Int
  BY DEF LinkInv, StageInv, TypeOK
<1>7. addr[i + 1] - code_org <= MAX_PROG_SIZE
  BY <1>2, <1>5 DEF NodeFine
<1> QED BY <1>5, <1>6, <1>7, SizesAssumption, SMTT(30) DEF TypeOK

LEMMA WriteTranslates ==
    ASSUME TypeOK, LinkInv, SpaceInv, WriteOutput
    PROVE  Promise!Translate
<1>1. outcome = "running" /\ outcome' = "linked" /\ UNCHANGED ast
  BY DEF WriteOutput, AtEnd
<1>2. Phase = "source" /\ Phase' = "done"
  BY <1>1 DEF Phase
<1>3. ASSUME Legal
      PROVE  /\ ~Promise!BadVector(ast)
             /\ Promise!Meaning(ast, Env', Place')
             /\ Promise!Tame(ast, Env', Place') =>
                  /\ ~Promise!Faulty(ast, Env', Place')
                  /\ output' = Promise!Image(ast, Env', Place')
  <2>1. bkasm_stage = GENERATE_STAGE /\ it = Len(ast) + 1
    BY DEF WriteOutput, AtEnd, TypeOK
  <2>2. Env' = asmvars /\ Place' = addr
    BY <1>3, <2>1, StopMeaning, StopCases
  <2>3. Promise!Meaning(ast, asmvars, addr)
    BY <1>3, <2>1, MeaningFound
  <2>4. ~Promise!BadVector(ast) /\ ~Promise!Faulty(ast, asmvars, addr)
    BY <1>3, <2>1, NoFaultLeft
  <2>5. Promise!Tame(ast, asmvars, addr) => output' = Promise!Image(ast, asmvars, addr)
    BY <1>3, OutputIsImage DEF Tame
  <2> QED BY <2>2, <2>3, <2>4, <2>5
<1> QED BY <1>1, <1>2, <1>3 DEF Promise!Translate, Phase, Env, Place, Legal

(* What codegen_generate refuses is a fault in Assembly's terms too.       *)
LEMMA RefusedIsFaulty ==
    ASSUME TypeOK, LinkInv, OriginInv, Legal, bkasm_stage = GENERATE_STAGE,
           RefuseCode \/ (RefuseRst /\ RstValid)
    PROVE  Promise!Faulty(ast, asmvars, addr)
<1>1. it \in 1..Len(ast) /\ node = ast[it] /\ node \in StatementsOver(Name)
  BY NodeFacts DEF RefuseCode, RefuseRst, Visiting, TypeOK, node
<1>2. Promise!Origin(ast, asmvars) = code_org
  BY OriginFound DEF Origin
<1>3. pc = addr[it] /\ NodeSettled(it, asmvars, addr)
  <2>1. walk = addr /\ it \in 1..(Len(walk) - 1)
    BY <1>1, WalkShape, SMTT(30) DEF LinkInv, Walking, TypeOK
  <2> QED BY <2>1, LegalParts DEF LinkInv, WalkInv, Walking
<1>4. addr[it + 1] = Promise!Next1(node, pc, asmvars)
  BY <1>1, <1>3 DEF NodeSettled
<1>5. pc \in Int /\ code_org \in Int /\ MAX_PROG_SIZE \in Int
  BY SizesAssumption DEF TypeOK
<1>6. ASSUME node.kind \in CodeKinds, NoRoom(CodeSize[node.kind])
      PROVE  Promise!Faulty(ast, asmvars, addr)
  <2>1. CodeSize[node.kind] \in Nat
    BY <1>6, CodeSizes
  <2>2. addr[it + 1] = pc + CodeSize[node.kind]
    BY <1>4, <1>6, NextAddress
  <2>3. addr[it + 1] - code_org > MAX_PROG_SIZE
    BY <1>5, <1>6, <2>1, <2>2 DEF NoRoom
  <2> QED BY <1>1, <1>2, <1>6, <2>3, PromiseOperators DEF Promise!Faulty
<1>7. ASSUME node.kind = "rst", NoRoom(1) PROVE Promise!Faulty(ast, asmvars, addr)
  <2>1. addr[it + 1] = pc + 1
    BY <1>4, <1>7, NextAddress
  <2>2. addr[it + 1] - code_org > MAX_PROG_SIZE
    BY <1>5, <1>7, <2>1 DEF NoRoom
  <2> QED BY <1>1, <1>2, <1>7, <2>2 DEF Promise!Faulty
<1>8. ASSUME NoImmediate \/ OutOfRange PROVE Promise!Faulty(ast, asmvars, addr)
  BY <1>1, <1>8, PromiseOperators DEF NoImmediate, OutOfRange, operand, Promise!Faulty
<1>9. CASE RefuseCode
  <2>1. node.kind \in CodeKinds
    BY <1>9 DEF RefuseCode, Visiting
  <2> QED BY <1>6, <1>8, <1>9, <2>1 DEF RefuseCode
<1>10. CASE RefuseRst /\ RstValid
  <2>1. node.kind = "rst" /\ NoRoom(1)
    BY <1>10 DEF RefuseRst, Visiting
  <2> QED BY <1>7, <2>1
<1> QED BY <1>9, <1>10

LEMMA RefuseRefuses ==
    ASSUME TypeOK, LinkInv, SpaceInv, RefuseCode \/ RefuseRst
    PROVE  Promise!Refuse
<1>1. /\ outcome = "running" /\ outcome' \in {"size", "range", "missing"}
      /\ UNCHANGED <<ast, output>> /\ bkasm_stage > PARSE_STAGE
  BY DEF RefuseCode, RefuseRst, Visiting
<1>2. Phase = "source" /\ Phase' = "failed"
  BY <1>1 DEF Phase
<1>3. ASSUME Legal
      PROVE  \/ Promise!BadVector(ast)
             \/ /\ Promise!Meaning(ast, Env', Place')
                /\ Promise!Tame(ast, Env', Place') => Promise!Faulty(ast, Env', Place')
  <2>1. CASE RefuseRst /\ ~RstValid
    <3>1. it \in 1..Len(ast) /\ node = ast[it] /\ node.kind = "rst"
      BY <2>1 DEF RefuseRst, Visiting, TypeOK, node
    <3>2. node.arg.type = "EXPR_CONST"
      BY <1>3, <3>1, LegalParts
    <3>3. node.arg.value \notin 0..7
      BY <2>1, <3>2 DEF RstValid, RstVector
    <3> QED BY <3>1, <3>3 DEF Promise!BadVector
  <2>2. CASE RefuseCode \/ (RefuseRst /\ RstValid)
    <3>1. bkasm_stage = GENERATE_STAGE
      BY <2>2 DEF RefuseCode, RefuseRst
    <3>2. Env' = asmvars /\ Place' = addr
      BY <1>3, <3>1, StopMeaning, StopCases
    <3>3. Promise!Meaning(ast, asmvars, addr) /\ Promise!Faulty(ast, asmvars, addr)
      BY <1>3, <2>2, <3>1, MeaningFound, RefusedIsFaulty DEF SpaceInv
    <3> QED BY <3>2, <3>3
  <2> QED BY <2>1, <2>2
<1> QED BY <1>1, <1>2, <1>3 DEF Promise!Refuse, Phase, Env, Place, Legal

LEMMA CannotCreateStores ==
    ASSUME CannotCreate
    PROVE  Promise!CannotStore
<1>1. outcome = "running" /\ outcome' = "nofile" /\ UNCHANGED <<ast, output>>
  BY DEF CannotCreate, AtEnd
<1>2. Phase = "source" /\ Phase' = "nofile"
  BY <1>1 DEF Phase
<1> QED BY <1>1, <1>2 DEF Promise!CannotStore, Phase

LEMMA InitImplements == ASSUME Init PROVE Promise!Init
BY DEF Init, Symbols!Init, Promise!Init

LEMMA StepImplements ==
    ASSUME TypeOK, LinkInv, SpaceInv, [Next]_vars
    PROVE  [Promise!Next]_(Promise!avars)
<1>1. ASSUME NEW s \in Statements, AddStatement(s) PROVE Promise!Next
  BY <1>1, AddExtends DEF Promise!Next
<1>2. CASE LinkBegin \/ SecondPass \/ Visit
  <2>1. UNCHANGED <<ast, output>> /\ outcome = "running" /\ outcome' = "running"
    BY <1>2 DEF LinkBegin, SecondPass, AtEnd, Visit
  <2> QED BY <2>1, Stutters
<1>3. CASE WriteOutput
  BY <1>3, WriteTranslates DEF Promise!Next
<1>4. CASE RefuseCode \/ RefuseRst
  BY <1>4, RefuseRefuses DEF Promise!Next
<1>5. CASE CannotCreate
  BY <1>5, CannotCreateStores DEF Promise!Next
<1>6. CASE UNCHANGED vars
  BY <1>6 DEF vars, Promise!avars
<1> QED BY <1>1, <1>2, <1>3, <1>4, <1>5, <1>6, StepCases DEF Stop

(* The linker implements Assembly: whatever the program, whatever the      *)
(* sizes, the two passes are one translation to the program's meaning.     *)
THEOREM LinkerImplementsAssembly == Spec => ImplementsAssembly
<1>1. Init => Promise!Init
  BY InitImplements
<1>2. TypeOK /\ LinkInv /\ SpaceInv /\ [Next]_vars => [Promise!Next]_(Promise!avars)
  BY StepImplements
<1> QED BY <1>1, <1>2, SpaceSound, PTL DEF Spec, ImplementsAssembly, Promise!Spec
=============================================================================
