------------------------------ MODULE MCLinker ------------------------------
(***************************************************************************)
(* Instances of Linker.  L, M are labels, X, Y constants.                  *)
(***************************************************************************)
EXTENDS LinkerProps

CONSTANTS L, M, X, Y

(* Layout: everything that moves addresses, with references both ways.     *)
LayoutStatements ==
    {Label(L), Equ(X, Const(2)), Equ(X, Var(L)), Equ(Y, Math("+", Var(X), Const(1))),
     Org(Const(3)), Org(Var(X)), Ds(Var(X)), Ds(Math("-", Const(0), Const(1))),
     Op(118), Imm16(195, Var(L)), Dw(Var(Y)), Rst(Const(7))}

(* Values: operands in and out of range, undefined names, odd operands.    *)
ValueStatements ==
    {Label(L), Equ(X, Const(300)), Equ(Y, Math("*", Var(L), Const(100))), Org(Const(200)),
     Db(Var(L)), Imm8(62, Var(Y)), Imm8(62, Reg(1)), Dw(Var(X)), Dw(Math("-", Var(X), Var(M))),
     Imm16(33, Reg(2)), Rst(Const(8))}

(* Programs are made of one set or of the other.                           *)
AllStatements == LayoutStatements \cup ValueStatements

WithinOneSet(s) ==
    \E S \in {LayoutStatements, ValueStatements} : {ast[i] : i \in DOMAIN ast} \cup {s} \subseteq S

MCNext == (\E s \in Statements : AddStatement(s) /\ WithinOneSet(s)) \/ LinkBegin \/ LinkStep

MCSpec == Init /\ [][MCNext]_vars /\ WF_vars(LinkStep)

-----------------------------------------------------------------------------
(* One small set of statements for each statement of the manual.           *)

ShiftStatements ==
    {Imm16(195, Var(L)), Ds(Var(X)), Label(L), Equ(X, Var(Y)), Equ(Y, Const(2))}

SectionStatements == {Org(Const(0)), Org(Const(3)), Op(118), Op(251)}

NegativeStatements == {Label(L), Dw(Math("-", Const(0), Const(78))), Op(118)}

RestartStatements == {Equ(X, Const(3)), Rst(Var(X)), Rst(Const(1))}
=============================================================================
