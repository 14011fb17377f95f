------------------------------- MODULE Lexer -------------------------------
(***************************************************************************)
(* The lexer of bkasm (bkasm/src/lexer.c): the character read last, the    *)
(* token made of the ones before it, and the operations by which the       *)
(* parser moves through the text.  What matters is where each operation    *)
(* leaves the reader: a word or a number is read with the character behind *)
(* it, a symbol stays the current character until somebody skips it, and a *)
(* string stops at its closing quote.                                      *)
(*                                                                         *)
(* The text is what inbuf_next_char delivers, includes expanded (module    *)
(* Inbuf).  A word, the digits of a number, a symbol and any other         *)
(* character are one item of it each.                                      *)
(***************************************************************************)
EXTENDS Integers, SequencesExt

CONSTANTS
    Ident,      \* names that are no keywords
    Unknown     \* characters that the lexer does not know

VARIABLE text

Space == " "
Quote == "\""
CH_NULL == "NUL"    \* no character has been read yet
eol_sym == "EOL"
eof_sym == "EOF"    \* 0xff

-----------------------------------------------------------------------------
(* The keyword tables.  A mnemonic stands for all that parse_op treats     *)
(* alike; the type of a keyword's token is the keyword itself.             *)

Words == [OP  |-> {"NOP", "ADI", "ADD", "INX", "PUSH", "MOV", "MVI", "LXI",
                   "DB", "DW", "ORG", "DS", "EQU"},
          REG |-> {"A", "H", "SP", "PSW"},
          INT |-> {"END", "INCLUDE"}]

Symbols == {":", ";", ",", "=", ">", "<", "+", "-", "*", "(", ")", eol_sym}

Digits == {"5", "10", "10B"}

(* A name of 255 characters or more.                                       *)
LongName == "NAME255"

NoIdent == <<>>

Token(kind, type, ident, value, at) ==
    [kind |-> kind, type |-> type, ident |-> ident, value |-> value, at |-> at]

Mnemonics == UNION {Words[k] : k \in DOMAIN Words}

(* What a text is made of.  The bytes 0 and 255 mean something to the      *)
(* reader and are no part of it.                                           *)
Keywords == Mnemonics \cup Symbols \cup Digits \cup {Space, Quote, LongName}
Chars == Keywords \cup Ident \cup Unknown
Source == Seq(Chars)

ASSUME CharAssumption ==
    /\ Ident \cap Unknown = {}
    /\ (Ident \cup Unknown) \cap (Keywords \cup {CH_NULL, eof_sym}) = {}

KindOf(w) == CHOOSE k \in DOMAIN Words : w \in Words[k]

(* Mutant: every number is decimal.                                        *)
radix_Decimal(suffix) == 10

(* The base of a number, told by the character behind its digits.  B would *)
(* be the suffix of base 2, but is a digit and never found behind them.    *)
radix(suffix) == CASE suffix = "H" -> 16 [] suffix = "O" -> 8 [] OTHER -> 10

(* "10" is the base in any base; a base without the digit B stops there.   *)
strtol(digits, base) ==
    CASE digits = "5" -> 5
      [] digits = "10B" /\ base = 16 -> 267
      [] OTHER -> base

-----------------------------------------------------------------------------
(* F of the value x.  The operators below are chains in which each step    *)
(* looks at the result of the one before in several places.                *)
Then(x, F(_)) == CHOOSE y \in {F(v) : v \in {x}} : TRUE

(* The lexer with the reader under it: cursym items have been read, ch is  *)
(* the last of them.  "process" and "told" are about the whole program:    *)
(* whether it goes on, and whether a message was printed.  "quoted" is     *)
(* history: the places in the text that were read as parts of strings.     *)

NewLexer == [cursym |-> 0, ch |-> CH_NULL, process |-> "running", told |-> FALSE,
             token |-> Token("KIND_NONE", "TOK_NONE", NoIdent, 0, 0), quoted |-> {}]

(* The end of the text, which the lexer takes for a symbol.                *)
EofToken == Token("SYM", "L_EOF", <<eof_sym>>, 0, Len(text) + 1)

Kinds == {"KIND_NONE", "OP", "REG", "SYM", "CONST", "VAR", "INT", "STRING"}
Types == Mnemonics \cup Symbols \cup {"TOK_NONE", "TOK_NUM", "TOK_IDENT", "L_EOF"}
Tokens == [kind : Kinds, type : Types, ident : Seq(Chars \cup {eof_sym}), value : Int,
           at : 0..(Len(text) + 1)]

(* The place in the text that the current character has or, behind the     *)
(* last one, would have.                                                   *)
Place(lx) == IF lx.ch = eof_sym THEN lx.cursym + 1 ELSE lx.cursym

(* What a lexer can be: the current character is the one read last, unless *)
(* none has been read or none is left; strings lie behind it, up to their  *)
(* closing quotes; a process that has ended reads no more.                 *)
Placed(lx) ==
    /\ \/ lx.ch = CH_NULL /\ (lx.cursym = 0 \/ text[lx.cursym] = Quote)
       \/ lx.ch = eof_sym /\ lx.cursym = Len(text)
       \/ lx.cursym \in DOMAIN text /\ lx.ch = text[lx.cursym]
    /\ \A q \in lx.quoted : q < lx.cursym \/ (q = lx.cursym /\ text[q] = Quote)
    /\ lx.process # "running" => lx.ch = eof_sym /\ lx.token = EofToken

Lexers == {lx \in [cursym : 0..Len(text), ch : Chars \cup {CH_NULL, eof_sym}, told : BOOLEAN,
                   token : Tokens, process : {"running", "done", "exited", "crashed"},
                   quoted : SUBSET DOMAIN text] : Placed(lx)}

(* The token is the one at the current character, or ends just before it.  *)
AtToken(lx) ==
    LET tok == lx.token
    IN  /\ lx.ch # CH_NULL
        /\ \/ tok = EofToken /\ lx.ch = eof_sym
           \/ /\ tok.at \in 1..lx.cursym
              /\ tok.kind \in {"SYM", "KIND_NONE"} => tok.at = lx.cursym /\ lx.ch = text[tok.at]
              /\ tok.kind = "STRING" => tok.at < lx.cursym /\ lx.ch = Quote
              /\ tok.kind \in {"VAR", "CONST", "OP", "REG", "INT"} => tok.at + 1 = Place(lx)
              /\ tok.kind = "SYM" => tok.type \in Symbols /\ text[tok.at] = tok.type
              /\ tok.kind = "VAR" => /\ tok.type = "TOK_IDENT" /\ text[tok.at] \in Ident
                                    /\ tok.ident = <<text[tok.at]>>
              /\ tok.kind = "CONST" => tok.type = "TOK_NUM" /\ text[tok.at] \in Digits
              /\ tok.kind \in {"OP", "REG", "INT"} =>
                    tok.type \in Words[tok.kind] /\ text[tok.at] = tok.type
              /\ tok.kind \in {"KIND_NONE", "STRING"} =>
                    tok.type = "TOK_NONE" /\ text[tok.at] \notin Symbols

(* throw_error prints.                                                     *)
Tell(lx) == [lx EXCEPT !.told = TRUE]

(* The process ends here: the operations that are still pending in an      *)
(* expression of the model find nothing left to read.                      *)
Halt(lx, how) ==
    Then(lx, LAMBDA l :
        IF l.process # "running" THEN l
        ELSE [l EXCEPT !.process = how, !.cursym = Len(text), !.ch = eof_sym, !.token = EofToken])

Exit(lx) == Halt(Tell(lx), "exited")

At(p) == IF p <= Len(text) THEN text[p] ELSE eof_sym

ReadUpto(lx, p) == [lx EXCEPT !.cursym = p, !.ch = At(p)]

(* Mutant: the end of the text is not noticed.                             *)
skipOne_PastEnd(lx) == Then(lx, LAMBDA l : ReadUpto(l, l.cursym + 1))

(* inbuf_next_char, which has 0xff to give when there is nothing more.     *)
skipOne(lx) ==
    Then(lx, LAMBDA l : IF l.cursym < Len(text) THEN ReadUpto(l, l.cursym + 1)
                        ELSE [l EXCEPT !.ch = eof_sym])

(* Reading on up to the first character in "stops".                        *)
ReadTo(lx, stops) ==
    Then(SelectInSubSeq(text, lx.cursym + 1, Len(text), LAMBDA c : c \in stops), LAMBDA p :
        IF p # 0 THEN ReadUpto(lx, p) ELSE [lx EXCEPT !.cursym = Len(text), !.ch = eof_sym])

skipWhile(lx, c) ==
    Then(lx, LAMBDA l : IF l.ch # c THEN l ELSE ReadTo(l, Range(text) \ {c}))

-----------------------------------------------------------------------------
(* lexer_next_tok, by the kind of the current character.                   *)

NumberToken(lx) ==
    LET behind == skipOne(lx)
    IN  [behind EXCEPT !.token = Token("CONST", "TOK_NUM", NoIdent,
                                       strtol(lx.ch, radix(behind.ch)), lx.cursym)]

WordToken(lx) ==
    LET tok == IF lx.ch \in Mnemonics
                 THEN Token(KindOf(lx.ch), lx.ch, <<lx.ch>>, 0, lx.cursym)
                 ELSE Token("VAR", "TOK_IDENT", <<lx.ch>>, 0, lx.cursym)
    IN  IF lx.ch = LongName THEN Exit(lx) ELSE [skipOne(lx) EXCEPT !.token = tok]

(* A string that is not closed ends the run.                               *)
StringToken(lx) ==
    Then(ReadTo(lx, {Quote}), LAMBDA close :
        IF close.ch = eof_sym THEN Exit(lx)
        ELSE [close EXCEPT
                !.token = Token("STRING", "TOK_NONE",
                                SubSeq(text, lx.cursym + 1, close.cursym - 1), 0, lx.cursym),
                !.quoted = @ \cup (lx.cursym .. close.cursym)])

(* Symbols, the end of the text and unknown characters are not consumed.   *)
TokenAt(l) ==
    CASE l.ch = eof_sym -> [l EXCEPT !.token = EofToken]
      [] l.ch \in Symbols -> [l EXCEPT !.token = Token("SYM", l.ch, <<l.ch>>, 0, l.cursym)]
      [] l.ch \in Digits -> NumberToken(l)
      [] l.ch \in Mnemonics \cup Ident \cup {LongName} -> WordToken(l)
      [] l.ch = Quote -> StringToken(l)
      [] OTHER -> [Tell(l) EXCEPT !.token =
                      Token("KIND_NONE", "TOK_NONE", NoIdent, 0, l.cursym)]

nextTok(lx) ==
    Then(Then(lx, LAMBDA l : IF l.ch = CH_NULL THEN skipOne(l) ELSE l), TokenAt)

(* lexer_skip_until ends with a token: the character that was looked for.  *)
skipUntil(lx, c) ==
    nextTok(Then(lx, LAMBDA l : IF l.ch \in {c, eof_sym} THEN l ELSE ReadTo(l, {c})))

(* The parser moves on by skipWhile(' '), nextTok, with or without a       *)
(* skipOne before them.                                                    *)
Follow(lx) == nextTok(skipWhile(lx, Space))
Pass(lx) == Follow(skipOne(lx))
=============================================================================
