------------------------------- MODULE Parser ------------------------------
(***************************************************************************)
(* The parser of bkasm (bkasm/src/parser.c): one action for each kind of   *)
(* token a statement can start with.  It keeps no structure of its own;    *)
(* where one statement ends and the next begins is a matter of which       *)
(* lexer operations each path happens to call, and the expression          *)
(* functions ask for up to two tokens more than they use.                  *)
(***************************************************************************)
EXTENDS Lexer, Ast

CONSTANT MAX_VAR_COUNT  \* 1024 in bkasm.h: names in the table, characters in a string of DB

ASSUME MaxVarAssumption == MAX_VAR_COUNT \in Nat

VARIABLES
    lexer,  \* Lexer, its token the one the statement starts with
    error,  \* Parser.error: main links only when it is 0
    ast,    \* the statements, each with the place it was parsed from
    taken,  \* history: where statements were started
    entered \* history: where an included file's text begins, the place before it

vars == <<text, lexer, error, ast, taken, entered>>

-----------------------------------------------------------------------------
(* Expressions.  Each function returns the lexer and the expression, the   *)
(* loop of one what it has to append.  f stands for the function that all  *)
(* of them call: parse, below.                                             *)

Parsed(lx, e) == [lexer |-> lx, expr |-> e]

NoExpr == [type |-> "NULL"]

RegCode == [A |-> 7, H |-> 4, SP |-> 6, PSW |-> 6]

Register(id) == [type |-> "EXPR_REG", value |-> RegCode[id], ident |-> id]

(* A character as a number.                                                *)
Code(c) == CASE c = "A" -> 65 [] c = ";" -> 59 [] OTHER -> 32

Call(name, lx) == [of |-> name, lexer |-> lx]
Calls == [of : {"term", "factors", "summands"}, lexer : {lx \in Lexers : AtToken(lx)}]

(* Operators of one rank, from left to right.                              *)
Chain(e, rest) == FoldLeft(LAMBDA l, r : Math(r.op, l, r.expr), e, rest)

Multiplication(f, lx) ==
    Then(f[Call("term", lx)], LAMBDA first :
        Then(f[Call("factors", Follow(first.lexer))], LAMBDA rest :
            Parsed(rest.lexer, Chain(first.expr, rest.expr))))

Addition(f, lx) ==
    Then(Multiplication(f, lx), LAMBDA first :
        Then(f[Call("summands", Follow(first.lexer))], LAMBDA rest :
            Parsed(rest.lexer, Chain(first.expr, rest.expr))))

Negation(f, lx) ==
    Then(f[Call("term", Pass(lx))], LAMBDA r : Parsed(r.lexer, Math("-", Const(0), r.expr)))

Parenthesis(f, lx) ==
    Then(Addition(f, Pass(lx)), LAMBDA r :
        Parsed(IF r.lexer.token.type = ")" THEN skipOne(r.lexer) ELSE Tell(r.lexer), r.expr))

Term(f, lx) ==
    CASE lx.token.type = "-" -> Negation(f, lx)
      [] lx.token.type = "TOK_NUM" -> Parsed(lx, Const(lx.token.value))
      [] lx.token.type = "TOK_IDENT" -> Parsed(lx, Var(lx.token.ident[1]))
      [] lx.token.type = "(" -> Parenthesis(f, lx)
      [] OTHER -> Parsed(Tell(lx), Const(0))

(* One more operand r behind an operator, and the loop goes on.            *)
Appended(f, loop, op, operand) ==
    Then(operand, LAMBDA r :
        Then(f[Call(loop, Follow(r.lexer))], LAMBDA rest :
            Parsed(rest.lexer, <<[op |-> op, expr |-> r.expr]>> \o rest.expr)))

(* The loop of parse_multiplication.                                       *)
Factors(f, lx) ==
    IF lx.token.type # "*" THEN Parsed(lx, <<>>)
    ELSE Appended(f, "factors", "*", f[Call("term", Pass(lx))])

(* The loop of parse_addition.                                             *)
Summands(f, lx) ==
    IF lx.token.type \notin {"+", "-"} THEN Parsed(lx, <<>>)
    ELSE Appended(f, "summands", lx.token.type, Multiplication(f, Pass(lx)))

Body(f, c) ==
    CASE c.of = "term" -> Term(f, c.lexer)
      [] c.of = "factors" -> Factors(f, c.lexer)
      [] c.of = "summands" -> Summands(f, c.lexer)

parse[c \in Calls] == Body(parse, c)

parse_addition(lx) == Addition(parse, lx)

(* An operand.  What is neither register nor expression ends the run.      *)
Operand(lx) ==
    CASE lx.token.kind = "REG" -> Parsed(lx, Register(lx.token.type))
      [] lx.token.kind \in {"VAR", "CONST"} \/ lx.token.type \in {"(", "-"} ->
             parse_addition(lx)
      [] OTHER -> Parsed(Exit(lx), NoExpr)

parse_param(lx) ==
    Then(Then(lx, Operand), LAMBDA p : Parsed(skipWhile(p.lexer, Space), p.expr))

-----------------------------------------------------------------------------
(* Instructions.  Each operator returns the lexer and the nodes made.      *)

Instruction(op, l, r) == [kind |-> "instruction", op |-> op, lparam |-> l, rparam |-> r]

Made(lx, ns) == [lexer |-> lx, nodes |-> ns]

(* Mutant: the closing quote stays the current character.                  *)
StringBytes_KeepQuote(lx) ==
    LET n == IF Len(lx.token.ident) < MAX_VAR_COUNT THEN Len(lx.token.ident)
             ELSE MAX_VAR_COUNT
    IN  Made(lx, [i \in 1..n |-> Instruction("DB", Const(Code(lx.token.ident[i])), NoExpr)])

(* parse_db_param on a string: a byte for each character.                  *)
StringBytes(lx) ==
    LET n == IF Len(lx.token.ident) < MAX_VAR_COUNT THEN Len(lx.token.ident)
             ELSE MAX_VAR_COUNT
    IN  Made(skipOne(lx),
             [i \in 1..n |-> Instruction("DB", Const(Code(lx.token.ident[i])), NoExpr)])

(* parse_db_param, parse_dw_param: no nodes at a symbol, where the list    *)
(* ends.                                                                   *)
DataItem(op, lx) ==
    IF lx.token.kind = "STRING" /\ op = "DB" THEN StringBytes(lx)
    ELSE IF lx.token.kind = "SYM" /\ lx.token.type # "-" THEN Made(lx, <<>>)
    ELSE Then(parse_param(lx), LAMBDA p :
             Made(p.lexer, IF p.lexer.process # "running" THEN <<>>
                           ELSE <<Instruction(op, p.expr, NoExpr)>>))

(* The loop for DB and DW; the commas between the items may be missing.    *)
Lists == [op : {"DB", "DW"}, lexer : {lx \in Lexers : AtToken(lx)}]

ListBody(f, c) ==
    Then(DataItem(c.op, c.lexer), LAMBDA item :
        IF item.nodes = <<>> THEN item
        ELSE Then(f[[op |-> c.op, lexer |-> Follow(skipWhile(item.lexer, ","))]], LAMBDA rest :
                 Made(rest.lexer, item.nodes \o rest.nodes)))

DataList[c \in Lists] == ListBody(DataList, c)

IsReg(e) == e.type = "EXPR_REG"

(* The operands do not fit the mnemonic: a message, and no more than that. *)
(* is_register_pair knows SP from PSW, which share a code, by their names. *)
Unfit(op, l, r) ==
    CASE op = "MOV" -> ~(IsReg(l) /\ IsReg(r))
      [] op = "MVI" -> ~IsReg(l) \/ IsReg(r)
      [] op = "ADD" -> ~IsReg(l)
      [] op = "INX" -> ~(IsReg(l) /\ l.ident \in {"H", "SP"})
      [] op = "PUSH" -> ~(IsReg(l) /\ l.ident \in {"H", "PSW"})
      [] OTHER -> FALSE

Checked(lx, op, l, r) ==
    Made(IF Unfit(op, l, r) THEN Tell(lx) ELSE lx, <<Instruction(op, l, r)>>)

(* EQU without a label is the one keyword parse_op does not know; its node *)
(* is made all the same.                                                   *)
parse_op(lx) ==
    LET op == lx.token.type
    IN  CASE op = "NOP" -> Made(skipWhile(lx, Space), <<Instruction(op, NoExpr, NoExpr)>>)
          [] op \in {"ADI", "ADD", "INX", "PUSH", "ORG", "DS"} ->
                 Then(parse_param(Follow(lx)), LAMBDA l :
                     Checked(l.lexer, op, l.expr, NoExpr))
          [] op \in {"MOV", "MVI", "LXI"} ->
                 Then(parse_param(Follow(lx)), LAMBDA l :
                     Then(parse_param(Follow(skipWhile(l.lexer, ","))), LAMBDA r :
                         Checked(r.lexer, op, l.expr, r.expr)))
          [] op \in {"DB", "DW"} -> DataList[[op |-> op, lexer |-> Follow(lx)]]
          [] OTHER -> Made(skipUntil(Tell(lx), eol_sym), <<Instruction(op, NoExpr, NoExpr)>>)

-----------------------------------------------------------------------------
(* The rest of a line.                                                     *)

SkipLine(lx) == skipOne(skipUntil(lx, eol_sym))

(* What may follow a statement on its line.                                *)
LineEnds(lx) == lx.token.type \in {eol_sym, "L_EOF", ";"}

(* Mutant: what is left of the line is skipped without a word.             *)
parse_comment_Silent(lx) ==
    CASE lx.token.type \in {eol_sym, "L_EOF"} -> skipOne(lx)
      [] lx.token.type = ";" -> SkipLine(lx)
      [] ~LineEnds(lx) /\ lx.token.ident = NoIdent -> Halt(lx, "crashed")
      [] ~LineEnds(lx) /\ lx.token.ident # NoIdent -> skipUntil(lx, eol_sym)

(* parse_comment.  The message shows the first character of the token,     *)
(* and a number or an unknown character has none to show.                  *)
parse_comment(lx) ==
    CASE lx.token.type \in {eol_sym, "L_EOF"} -> skipOne(lx)
      [] lx.token.type = ";" -> SkipLine(lx)
      [] ~LineEnds(lx) /\ lx.token.ident = NoIdent -> Halt(lx, "crashed")
      [] ~LineEnds(lx) /\ lx.token.ident # NoIdent -> skipUntil(Tell(lx), eol_sym)

(* The loop of parser_parse goes on to the next statement.                 *)
Loop(lx) == Follow(lx)

(* The names declared in the first statements, and those that the symbol   *)
(* table had room for.                                                     *)
Declared(i) == {ast[j].node.ident : j \in {k \in 1..i : ast[k].node.kind \in DeclKinds}}
Stored == UNION {Declared(i) : i \in {j \in DOMAIN ast : Cardinality(Declared(j)) <= MAX_VAR_COUNT}}

(* ast_add_statement: a name in the table ends the run (SymbolMap).        *)
Declare(lx, id) == IF id \in Stored THEN Exit(lx) ELSE lx

AddStatements(ns) ==
    /\ ast' = ast \o [i \in DOMAIN ns |-> [at |-> lexer.token.at, node |-> ns[i]]]
    /\ taken' = taken \cup {lexer.token.at}
    /\ UNCHANGED text

NoError == "0"

SetError(code) == error' = code

-----------------------------------------------------------------------------
(* parse_statement.                                                        *)

Started ==
    /\ lexer = Loop(NewLexer)
    /\ error = NoError
    /\ ast = <<>>
    /\ taken = {} /\ entered = {}

(* Any source.                                                             *)
Init == text \in Source /\ Started

Begins(kind) ==
    /\ lexer.process = "running"
    /\ lexer.token.kind = kind

(* parse_op, and the end of the line.                                      *)
Operation ==
    /\ Begins("OP")
    /\ \E made \in {parse_op(lexer)} : \E behind \in {nextTok(made.lexer)} :
         /\ lexer' = Loop(parse_comment(behind))
         /\ AddStatements(IF made.lexer.process = "running" THEN made.nodes ELSE <<>>)
         /\ IF ~LineEnds(behind) THEN SetError("E_UNEXPSYM")
            ELSE IF lexer.token.type = "EQU" THEN SetError("E_UNKKEYWORD")
            ELSE UNCHANGED error
    /\ UNCHANGED entered

(* parse_var, by what follows the name.  No space may come before a colon. *)
Name == lexer.token.ident[1]
AfterName == nextTok(lexer)
AfterColon == Pass(AfterName)

(* The operand is all that is read of an EQU; the rest of the line is      *)
(* dropped.                                                                *)
EquStatement ==
    /\ Begins("VAR")
    /\ AfterName.token.type = ":"
    /\ AfterColon.token.type = "EQU"
    /\ \E p \in {parse_param(Follow(AfterColon))} :
         \/ /\ p.lexer.process # "running"
            /\ lexer' = p.lexer
            /\ AddStatements(<<>>)
         \/ /\ p.lexer.process = "running"
            /\ \E behind \in {skipUntil(p.lexer, eol_sym)} :
                 lexer' = Loop(Declare(parse_comment(behind), Name))
            /\ AddStatements(<<Equ(Name, p.expr)>>)
    /\ UNCHANGED <<error, entered>>

(* The statement behind a label is parsed by the same function, called     *)
(* again: the next action.                                                 *)
LabelStatement ==
    /\ Begins("VAR")
    /\ AfterName.token.type = ":"
    /\ AfterColon.token.type # "EQU"
    /\ lexer' = Declare(AfterColon, Name)
    /\ AddStatements(<<Label(Name)>>)
    /\ UNCHANGED <<error, entered>>

(* Mutant: the rest of the line is not dropped.                            *)
UnknownName_KeepLine ==
    /\ Begins("VAR")
    /\ AfterName.token.type # ":"
    /\ lexer' = Loop(Tell(AfterName))
    /\ AddStatements(<<>>)
    /\ UNCHANGED <<error, entered>>

(* A name without colon: a message, but Parser.error stays.                *)
UnknownName ==
    /\ Begins("VAR")
    /\ AfterName.token.type # ":"
    /\ lexer' = Loop(SkipLine(Tell(AfterName)))
    /\ AddStatements(<<>>)
    /\ UNCHANGED <<error, entered>>

Comment ==
    /\ Begins("SYM")
    /\ lexer.token.type = ";"
    /\ lexer' = Loop(parse_comment(lexer))
    /\ AddStatements(<<>>)
    /\ UNCHANGED <<error, entered>>

(* Mutant: the line end is not skipped.                                    *)
EmptyLine_Stay ==
    /\ Begins("SYM")
    /\ lexer.token.type = eol_sym
    /\ lexer' = Loop(lexer)
    /\ AddStatements(<<>>)
    /\ UNCHANGED <<error, entered>>

EmptyLine ==
    /\ Begins("SYM")
    /\ lexer.token.type = eol_sym
    /\ lexer' = Loop(skipOne(lexer))
    /\ AddStatements(<<>>)
    /\ UNCHANGED <<error, entered>>

EndOfText ==
    /\ Begins("SYM")
    /\ lexer.token.type = "L_EOF"
    /\ lexer' = [lexer EXCEPT !.process = "done"]
    /\ UNCHANGED <<text, error, ast, taken, entered>>

StraySymbol ==
    /\ Begins("SYM")
    /\ ~LineEnds(lexer)
    /\ lexer' = Exit(lexer)
    /\ AddStatements(<<>>)
    /\ SetError("E_UNEXPSYM")
    /\ UNCHANGED entered

(* The file's text follows at once, with no character read of it yet.  A   *)
(* file that cannot be opened ends the run.                                *)
IncludeStatement ==
    /\ Begins("INT")
    /\ lexer.token.type = "INCLUDE"
    /\ \E name \in {Follow(lexer)} :
           \/ /\ name.token.kind = "STRING"
              /\ lexer' = Loop([name EXCEPT !.ch = CH_NULL])
              /\ entered' = entered \cup {name.cursym}
              /\ UNCHANGED error
           \/ /\ lexer' = Exit(name)
              /\ UNCHANGED entered
              /\ IF name.process = "running" THEN SetError("E_SYNTAXERROR")
                 ELSE UNCHANGED error
    /\ AddStatements(<<>>)

(* END declares ENDPRG, skips one character, whatever it is, and goes on.  *)
EndStatement ==
    /\ Begins("INT")
    /\ lexer.token.type = "END"
    /\ lexer' = Pass(Declare(lexer, "ENDPRG"))
    /\ AddStatements(<<Label("ENDPRG")>>)
    /\ UNCHANGED <<error, entered>>

(* A character the lexer does not know: its message, but no error.         *)
Unlexable ==
    /\ Begins("KIND_NONE")
    /\ lexer' = Loop(SkipLine(lexer))
    /\ AddStatements(<<>>)
    /\ UNCHANGED <<error, entered>>

(* A number, a register or a string: assert(0).                            *)
Misplaced ==
    /\ \E kind \in {"CONST", "REG", "STRING"} : Begins(kind)
    /\ lexer' = Halt(Tell(lexer), "crashed")
    /\ AddStatements(<<>>)
    /\ SetError("E_UNEXPTOKEN")
    /\ UNCHANGED entered

Next ==
    \/ Operation \/ EquStatement \/ LabelStatement \/ UnknownName
    \/ Comment \/ EmptyLine \/ EndOfText \/ StraySymbol
    \/ IncludeStatement \/ EndStatement \/ Unlexable \/ Misplaced

Spec == Init /\ [][Next]_vars

-----------------------------------------------------------------------------
(* The types, the error codes, and the place of the reader in the text:    *)
(* between two statements it is just behind the token it has made, or at   *)
(* the symbol that is one.                                                 *)
TypeOK ==
    /\ text \in Source
    /\ lexer \in Lexers
    /\ lexer = NewLexer \/ AtToken(lexer)
    /\ error \in {NoError, "E_UNEXPSYM", "E_UNKKEYWORD", "E_SYNTAXERROR", "E_UNEXPTOKEN"}
    /\ taken \cup entered \subseteq DOMAIN text
    /\ ast \in Seq([at : taken, node : {ast[i].node : i \in DOMAIN ast}])

(* Line breaks: line ends, if they are no part of a string, and the end of *)
(* an INCLUDE directive, where the included file's first line begins.      *)
Breaks == {p \in DOMAIN text : text[p] = eol_sym /\ p \notin lexer.quoted} \cup entered

LineStart(p) == IF \E b \in Breaks : b < p
                  THEN 1 + CHOOSE b \in Breaks : b < p /\ \A c \in Breaks : c < p => c <= b
                  ELSE 1

(* What a statement may have before it on its line.  END takes the         *)
(* character behind it along.                                              *)
IsLabelPart(q) ==
    \/ text[q] \in Ident /\ At(q + 1) = ":"
    \/ text[q] = ":" /\ q > 1 /\ text[q - 1] \in Ident
MayPrecede(q) ==
    \/ text[q] \in {Space, "END"} \/ IsLabelPart(q)
    \/ q > 1 /\ text[q - 1] = "END"

(* Lines are taken one by one, also after errors: no statement is started  *)
(* in the middle of a line, where the refused rest of another one is, and  *)
(* no line is passed over: it is taken at its first word, or at the space  *)
(* that a file begins with (FirstLineParsed of MCParser).                  *)
LinesTakenOneByOne ==
    /\ \A p \in taken : text[p] = eol_sym \/ \A q \in LineStart(p)..(p - 1) : MayPrecede(q)
    /\ lexer.process \in {"running", "done"} =>
         \A p \in 1..(lexer.token.at - 1) :
             (text[p] # Space /\ \A q \in LineStart(p)..(p - 1) : text[q] = Space)
             => p \in taken \/ LineStart(p) \in taken

(* Every statement starts behind the one before it: no text is parsed      *)
(* twice, and since a text is finite the loop of parser_parse ends, also   *)
(* where a refused line leaves its line end to the next statement.         *)
StatementsAdvance ==
    [][lexer'.process = "running" => lexer'.token.at > lexer.token.at]_vars
=============================================================================
