------------------------------ MODULE MCParser -----------------------------
(***************************************************************************)
(* Sources for Parser, and what they mean.  A line is written by the       *)
(* grammar at the head of bkasm/src/asmast.h together with the nodes it    *)
(* stands for, or it is any row of words with no meaning at all; programs  *)
(* are made of both.                                                       *)
(***************************************************************************)
EXTENDS Parser

CONSTANT FirstMargins   \* what may stand before a file's first statement

VARIABLE source         \* the lines the text was made of

-----------------------------------------------------------------------------
(* Expressions with their meaning; "open" at the right end is a number     *)
(* whose suffix is still to be read, which no "*" may follow.              *)

Phrase(s, e, o) == [items |-> s, expr |-> e, open |-> o]

Five == Phrase(<<"5">>, Const(5), FALSE)
NameX == Phrase(<<"X">>, Var("X"), FALSE)
Sixteen == Phrase(<<"10", "H">>, Const(16), TRUE)
Eight == Phrase(<<"10", "O">>, Const(8), TRUE)
Atoms == {Five, NameX, Sixteen}

(* The grammar has a unary plus too (asmast.h:18); parse_term and           *)
(* parse_param take a minus only and exit at a plus, so none is made here.  *)
Neg(p) == Phrase(<<"-">> \o p.items, Math("-", Const(0), p.expr), p.open)
Paren(p) == Phrase(<<"(">> \o p.items \o <<" ", ")">>, p.expr, FALSE)
Binary(op, l, r, sp) ==
    Phrase(l.items \o sp \o <<op>> \o sp \o r.items, Math(op, l.expr, r.expr), r.open)

Gaps == {<<>>, <<" ">>}
NoMargin == {<<>>}
AnyMargin == Gaps

Terms ==
    LET inner == Atoms \cup {Binary("+", Five, NameX, <<>>), Binary("*", NameX, Sixteen, <<" ">>)}
    IN  Atoms \cup {Neg(p) : p \in Atoms} \cup {Neg(Neg(Five))} \cup {Paren(p) : p \in inner}

Products == Terms \cup {Binary("*", l, r, sp) :
                            l \in {t \in Terms : ~t.open}, r \in Terms, sp \in Gaps}

AtomProducts == {Binary("*", l, r, <<>>) : l \in {Five, NameX}, r \in Atoms}

Sums == {Binary(op, l, r, <<" ">>) : op \in {"+", "-"}, l \in Terms, r \in Terms}
        \cup {Binary(op, l, r, <<>>) : op \in {"+", "-"}, l \in AtomProducts, r \in AtomProducts}

LongSums == {Binary(op, s, t, <<>>) :
                op \in {"+", "-"}, t \in Atoms,
                s \in {Binary(o, l, r, <<>>) : o \in {"+", "-"}, l \in Atoms, r \in Atoms}}

Exprs == Products \cup Sums \cup LongSums

-----------------------------------------------------------------------------
(* Statements.                                                             *)

St(s, ns) == [items |-> s, nodes |-> ns]

One(op, p) == St(<<op, " ">> \o p.items, <<Instruction(op, p.expr, NoExpr)>>)

Two(op, l, r, sep) ==
    St(<<op, " ">> \o l.items \o sep \o r.items, <<Instruction(op, l.expr, r.expr)>>)

R(id) == Phrase(<<id>>, Register(id), FALSE)

Commas == {<<",">>, <<" ", ",", " ">>}

Sample == {Sixteen, Neg(NameX), Binary("+", Five, Paren(NameX), <<" ">>)}

(* "A; ", as long as a string may be.                                      *)
Text3 == <<Quote, "A", ";", " ", Quote>>
Byte(e) == Instruction("DB", e, NoExpr)
Bytes3 == <<Byte(Const(65)), Byte(Const(59)), Byte(Const(32))>>

Operations ==
    {St(<<"NOP">>, <<Instruction("NOP", NoExpr, NoExpr)>>),
     One("ADI", Eight), One("ADD", R("A")), One("INX", R("SP")), One("PUSH", R("PSW")),
     St(<<"DB", " ">> \o Text3, Bytes3),
     St(<<"DB">> \o Text3 \o <<",", " ", "5">>, Bytes3 \o <<Byte(Const(5))>>),
     St(<<"DB", " ", "5", ",">> \o Text3, <<Byte(Const(5))>> \o Bytes3)}
    \cup {One(op, p) : op \in {"ADI", "ORG", "DS", "DB", "DW"}, p \in Sample}
    \cup {Two("MOV", R("A"), R("H"), sep) : sep \in Commas}
    \cup {Two(op, R("H"), p, sep) : op \in {"MVI", "LXI"}, p \in Sample, sep \in Commas}
    \cup {St(<<"DW", " ">> \o p.items \o <<",", " ">> \o q.items,
             <<Instruction("DW", p.expr, NoExpr), Instruction("DW", q.expr, NoExpr)>>) :
             p \in {Sixteen, NameX}, q \in Sample}

Nothing == St(<<>>, <<>>)
Remark == <<";", "@", "NOP">>

Prefixed(margin, s) == [s EXCEPT !.items = margin \o @]
Suffixed(s, tail) == [s EXCEPT !.items = @ \o tail]
Labelled(id, gap, s) == St(<<id, ":">> \o gap \o s.items, <<Label(id)>> \o s.nodes)
Equate(id, p) == St(<<id, ":", " ", "EQU", " ">> \o p.items, <<Equ(id, p.expr)>>)
EndOf(s) == St(<<"END", " ">> \o s.items, <<Label("ENDPRG")>> \o s.nodes)
AtEnd == St(<<"END">>, <<Label("ENDPRG")>>)

Statements ==
    Operations \cup {Nothing, AtEnd, EndOf(Nothing)} \cup {Equate("X", p) : p \in Sample}
    \cup {Labelled("LOOP", <<" ">>, s) : s \in Operations \cup {Nothing, Equate("X", Five), AtEnd}}
    \cup {Labelled("LOOP", <<>>, Labelled("X", <<>>, Nothing))}

-----------------------------------------------------------------------------
(* Lines.  An INCLUDE has no line of its own: the file it names begins     *)
(* right behind it.                                                        *)

Good(s) == [items |-> s.items, nodes |-> s.nodes, good |-> TRUE]

WithRemark(s) == IF Last(<<"NOP">> \o s.items) = "END" THEN Suffixed(s, <<" ">> \o Remark)
                 ELSE Suffixed(s, Remark)

Eol(s) == Suffixed(s, <<eol_sym>>)

FirstLines == {Good(Eol(Prefixed(m, s))) : m \in FirstMargins, s \in Statements}

Inclusion == Good(St(<<"INCLUDE", " ", Quote, "@", Quote>>, <<>>))

OtherLines ==
    {Good(Eol(Prefixed(<<" ">>, s))) : s \in Statements}
    \cup {Good(Eol(WithRemark(s))) : s \in Statements}
    \cup {Good(Suffixed(s, <<" ">>)) : s \in Statements}

(* Rows of words, with spaces everywhere or only where words need them.    *)
(* There are no quotes in them: one behind a complete operand opens a      *)
(* string that may take lines away.                                        *)
Scrap == {"NOP", "ADI", "DB", "EQU", "X", "5", "A", "@", ":", ";", ",", "*", "(", "END"}

Spaced(ws) == FlattenSeq([i \in DOMAIN ws |-> <<ws[i], " ">>])

Tight(ws) ==
    FlattenSeq([i \in DOMAIN ws |->
        IF i > 1 /\ {ws[i - 1], ws[i]} \cap (Symbols \cup {"@"}) = {}
          THEN <<" ", ws[i]>> ELSE <<ws[i]>>])

Row(s) == [items |-> Append(s, eol_sym), nodes |-> <<>>, good |-> FALSE]

Rows == UNION {{Row(Spaced(ws)), Row(Tight(ws))} :
                  ws \in UNION {[1..n -> Scrap] : n \in 1..3}}

(* Words that are only interesting behind a few others.                    *)
OddRows ==
    UNION {{Row(Spaced(<<v, w, x>>)), Row(Tight(<<v, w, x>>))} :
              v \in {"ADI", "DB", "X"}, w \in {"10B", "O", "=", LongName}, x \in Scrap}

Plain == Good(Eol(Prefixed(<<" ">>, One("ADI", Five))))
Before == Good(Eol(Labelled("LOOP", <<" ">>, One("DB", NameX))))

(* Lines that leave the parser in different ways.                          *)
Neighbours == {Before, Good(Eol(Equate("X", Sixteen))), Good(Eol(AtEnd)),
               Good(Eol(WithRemark(Nothing))), Good(Eol(One("DW", NameX)))}

Programs ==
    {<<Good(Eol(One("ADI", p)))>> : p \in Exprs}
    \cup {<<l, Plain>> : l \in FirstLines}
    \cup {<<n, m>> : n \in Neighbours, m \in OtherLines}
    \cup {<<Before, Inclusion, l, Plain>> : l \in FirstLines}
    \cup {<<Before, r, Plain>> : r \in Rows \cup OddRows}

-----------------------------------------------------------------------------
mcvars == <<vars, source>>

Text(lines) == FlattenSeq([i \in DOMAIN lines |-> lines[i].items])

MCInit == source \in Programs /\ text = Text(source) /\ Started
MCSpec == MCInit /\ [][Next /\ UNCHANGED source]_mcvars

Begin(i) == 1 + Len(Text(SubSeq(source, 1, i - 1)))

NodesOf(i) ==
    LET own == SelectSeq(ast, LAMBDA n : n.at \in Begin(i)..(Begin(i + 1) - 1))
    IN  [j \in DOMAIN own |-> own[j].node]

Behind(i) ==
    \/ lexer.process = "done"
    \/ lexer.process = "running" /\ lexer.token.at >= Begin(i + 1)

(* A line that has been read, and not cut off at the buffer's end.         *)
WhollyRead(i) == Begin(i + 1) <= Len(text) + 1

LineParsed(i) ==
    source[i].good /\ WhollyRead(i) /\ Behind(i) => NodesOf(i) = source[i].nodes

(* A line of the grammar becomes its nodes, each operator with the         *)
(* operands it has by precedence and from left to right, whatever the      *)
(* lines around it contain.                                                *)
GrammarParsed == \A i \in DOMAIN source : LineParsed(i)

(* asmast.h: a statement may have spaces before it; so may the first one.  *)
FirstLineParsed == LineParsed(1)

DeclaredIn(i) == {n.ident : n \in {m \in Range(source[i].nodes) : m.kind \in DeclKinds}}

NoDuplicates ==
    /\ \A i, j \in DOMAIN source : i # j => DeclaredIn(i) \cap DeclaredIn(j) = {}

(* A program of such lines that declares nothing twice is parsed without a *)
(* message and without an error, and the run goes on to its end; only a    *)
(* file that cannot be included stops it.                                  *)
GrammarAccepted ==
    (\A i \in DOMAIN source : source[i].good /\ WhollyRead(i)) /\ NoDuplicates =>
        \/ lexer.process \in {"running", "done"} /\ error = NoError /\ ~lexer.told
        \/ lexer.process = "exited" /\ Inclusion \in Range(source)
=============================================================================
