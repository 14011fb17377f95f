---------------------------- MODULE ParserProofs ---------------------------
(***************************************************************************)
(* Theorems about Parser, for every text: where the reader is between two  *)
(* statements, that lines are taken one by one, also after errors, and     *)
(* that no text is parsed twice.  The lemmas go from the operators of the  *)
(* lexer over the expressions and the lists, which are recursive           *)
(* functions of what is left of the text, to the statements.               *)
(***************************************************************************)
EXTENDS Parser, SeqLemmas

-----------------------------------------------------------------------------
(* The lexer's operators: what each does to the reader's place, to the     *)
(* token and to what is a string.                                          *)

(* A lexer before it is known to be placed.                                *)
Records == [cursym : 0..Len(text), ch : Chars \cup {CH_NULL, eof_sym}, told : BOOLEAN,
            token : Tokens, process : {"running", "done", "exited", "crashed"},
            quoted : SUBSET DOMAIN text]

LEMMA LexerFields ==
    ASSUME NEW lx
    PROVE  lx \in Lexers <=> lx \in Records /\ Placed(lx)
BY DEF Lexers, Records

LEMMA WordFacts ==
    Mnemonics = {"NOP", "ADI", "ADD", "INX", "PUSH", "MOV", "MVI", "LXI", "DB", "DW", "ORG",
                 "DS", "EQU", "A", "H", "SP", "PSW", "END", "INCLUDE"}
<1>1. DOMAIN Words = {"OP", "REG", "INT"}
  BY DEF Words
<1>2. Mnemonics = Words["OP"] \cup Words["REG"] \cup Words["INT"]
  BY <1>1 DEF Mnemonics
<1> QED BY <1>2 DEF Words

LEMMA CharFacts ==
    \A c \in Chars : c # CH_NULL /\ c # eof_sym
<1>1. \A c \in Keywords : c # CH_NULL /\ c # eof_sym
  <2>1. \A c \in Mnemonics : c # CH_NULL /\ c # eof_sym
    BY WordFacts DEF CH_NULL, eof_sym
  <2>2. \A c \in Symbols \cup Digits \cup {Space, Quote, LongName} : c # CH_NULL /\ c # eof_sym
    BY DEF Symbols, Digits, Space, Quote, LongName, CH_NULL, eof_sym, eol_sym
  <2> QED BY <2>1, <2>2 DEF Keywords
<1>2. \A c \in Ident \cup Unknown : c # CH_NULL /\ c # eof_sym
  BY CharAssumption
<1> QED BY <1>1, <1>2 DEF Chars

LEMMA TextFacts ==
    ASSUME text \in Source
    PROVE  /\ Len(text) \in Nat
           /\ DOMAIN text = 1..Len(text)
           /\ \A p \in DOMAIN text : text[p] \in Chars /\ text[p] # CH_NULL /\ text[p] # eof_sym
BY LenProperties, ElementOfSeq, CharFacts DEF Source

(* From lx the reader has gone on to ly.                                   *)
Later(lx, ly) ==
    /\ ly \in Lexers
    /\ Place(lx) <= Place(ly)
    /\ lx.told => ly.told
    /\ lx.process # "running" => ly.process = lx.process
    /\ ly.process = "done" => lx.process = "done"
    /\ lx.quoted \subseteq ly.quoted
    /\ \A q \in ly.quoted : q \notin lx.quoted => q >= Place(lx)
    /\ ly.ch = CH_NULL => lx.ch = CH_NULL

(* No line end between the places i and j, except in strings.              *)
Unbroken(i, j, lx) ==
    \A p \in DOMAIN text : i <= p /\ p < j /\ text[p] = eol_sym => p \in lx.quoted

(* ... without leaving the line.                                           *)
Inline(lx, ly) ==
    /\ Later(lx, ly)
    /\ ly.process = "running" => Unbroken(Place(lx), Place(ly), ly)

LEMMA PlaceType ==
    ASSUME text \in Source, NEW lx \in Lexers
    PROVE  /\ Place(lx) \in 0..(Len(text) + 1)
           /\ lx.cursym <= Place(lx)
           /\ lx.ch = eof_sym => Place(lx) = Len(text) + 1
           /\ lx.ch # eof_sym => Place(lx) = lx.cursym
BY TextFacts DEF Lexers, Placed, Place, CH_NULL, eof_sym

LEMMA LaterTrans ==
    ASSUME text \in Source, NEW lx \in Lexers, NEW ly, NEW lz, Later(lx, ly), Later(ly, lz)
    PROVE  Later(lx, lz)
<1>1. ly \in Lexers /\ lz \in Lexers
  BY DEF Later
<1>2. Place(lx) \in Int /\ Place(ly) \in Int /\ Place(lz) \in Int
  BY <1>1, PlaceType
<1>3. \A q \in lz.quoted : q \in Int
  BY <1>1, TextFacts DEF Lexers
<1> QED BY <1>1, <1>2, <1>3 DEF Later

LEMMA InlineTrans ==
    ASSUME text \in Source, NEW lx \in Lexers, NEW ly, NEW lz, Inline(lx, ly), Inline(ly, lz)
    PROVE  Inline(lx, lz)
<1>1. Later(lx, lz)
  BY LaterTrans DEF Inline
<1>2. ly \in Lexers /\ lz \in Lexers
  BY DEF Inline, Later
<1>3. Place(lx) \in Int /\ Place(ly) \in Int /\ Place(lz) \in Int
  BY <1>2, PlaceType
<1>4. DOMAIN text \subseteq Int
  BY TextFacts
<1>5. ASSUME lz.process = "running" PROVE Unbroken(Place(lx), Place(lz), lz)
  <2>1. ly.process = "running" /\ ly.quoted \subseteq lz.quoted
    BY <1>5 DEF Inline, Later
  <2> QED BY <1>3, <1>4, <1>5, <2>1 DEF Inline, Unbroken
<1> QED BY <1>1, <1>5 DEF Inline

LEMMA InlineRefl ==
    ASSUME text \in Source, NEW lx \in Lexers
    PROVE  Inline(lx, lx)
<1>1. Place(lx) \in Int /\ DOMAIN text \subseteq Int
  BY PlaceType, TextFacts
<1> QED BY <1>1 DEF Inline, Later, Unbroken

(* Then is F applied to x.                                                 *)
LEMMA TellIs ==
    ASSUME text \in Source, NEW lx \in Lexers
    PROVE  /\ Inline(lx, Tell(lx))
           /\ Tell(lx).told
           /\ Place(Tell(lx)) = Place(lx)
           /\ Tell(lx).ch = lx.ch
           /\ Tell(lx).cursym = lx.cursym
           /\ Tell(lx).token = lx.token
           /\ Tell(lx).process = lx.process
           /\ Tell(lx).quoted = lx.quoted
<1>1. lx \in Records /\ Placed(lx)
  BY LexerFields
<1>2. /\ Tell(lx) \in Records
      /\ Tell(lx).told = TRUE
      /\ Tell(lx).ch = lx.ch
      /\ Tell(lx).cursym = lx.cursym
      /\ Tell(lx).token = lx.token
      /\ Tell(lx).process = lx.process
      /\ Tell(lx).quoted = lx.quoted
  BY <1>1 DEF Tell, Records
<1>3. Placed(Tell(lx))
  BY <1>1, <1>2 DEF Placed
<1>4. Tell(lx) \in Lexers
  BY <1>2, <1>3, LexerFields
<1>5. Place(Tell(lx)) = Place(lx) /\ Place(lx) \in Int /\ DOMAIN text \subseteq Int
  BY <1>2, PlaceType, TextFacts DEF Place
<1> QED BY <1>2, <1>4, <1>5 DEF Inline, Later, Unbroken

LEMMA SingletonType ==
    ASSUME NEW S, NEW x \in S
    PROVE  <<x>> \in Seq(S)
OBVIOUS

LEMMA EofTokenType ==
    ASSUME text \in Source
    PROVE  /\ EofToken \in Tokens
           /\ EofToken.kind = "SYM" /\ EofToken.type = "L_EOF" /\ EofToken.ident = <<eof_sym>>
           /\ EofToken.at = Len(text) + 1
<1>2. Len(text) + 1 \in 0..(Len(text) + 1)
  BY TextFacts
<1>3. <<eof_sym>> \in Seq(Chars \cup {eof_sym})
  BY SingletonType
<1>4. "SYM" \in Kinds /\ "L_EOF" \in Types /\ 0 \in Int
  BY DEF Kinds, Types
<1> HIDE DEF Kinds, Types
<1> QED BY <1>2, <1>3, <1>4 DEF EofToken, Token, Tokens

LEMMA HaltIs ==
    ASSUME text \in Source, NEW lx \in Lexers, NEW how \in {"exited", "crashed"}
    PROVE  /\ Inline(lx, Halt(lx, how))
           /\ AtToken(Halt(lx, how))
           /\ Halt(lx, how).process # "running"
           /\ lx.process = "running" => Halt(lx, how).process = how
           /\ Halt(lx, how).told = lx.told
<1> DEFINE h == [lx EXCEPT !.process = how, !.cursym = Len(text), !.ch = eof_sym, !.token = EofToken]
<1>1. lx \in Records /\ Placed(lx)
  BY LexerFields
<1>2. Halt(lx, how) = IF lx.process # "running" THEN lx ELSE h
  BY DEF Halt, Then
<1>3. CASE lx.process # "running"
  <2>1. AtToken(lx)
    BY <1>1, <1>3 DEF AtToken, Placed, CH_NULL, eof_sym
  <2> QED BY <1>2, <1>3, <2>1, InlineRefl
<1>4. CASE lx.process = "running"
  <2>1. /\ h \in Records
        /\ h.told = lx.told
        /\ h.ch = eof_sym
        /\ h.cursym = Len(text)
        /\ h.token = EofToken
        /\ h.process = how
        /\ h.quoted = lx.quoted
    <3>1. EofToken \in Tokens
      BY EofTokenType
    <3>2. Len(text) \in 0..Len(text)
      BY TextFacts
    <3> QED BY <1>1, <3>1, <3>2 DEF Records
  <2> HIDE DEF h
  <2>2. \A q \in lx.quoted : q \in Int /\ q <= Len(text)
    BY <1>1, TextFacts DEF Records
  <2>3. lx.cursym \in Int /\ lx.cursym <= Len(text) /\ Len(text) \in Int
    BY <1>1, TextFacts DEF Records
  <2>4. Placed(h)
    BY <1>1, <2>1, <2>2, <2>3 DEF Placed
  <2>5. h \in Lexers
    BY <2>1, <2>4, LexerFields
  <2>6. Place(lx) <= Place(h)
    BY <2>5, <2>1, PlaceType
  <2>7. Inline(lx, h)
    BY <1>4, <2>1, <2>2, <2>5, <2>6 DEF Inline, Later, CH_NULL, eof_sym
  <2>8. AtToken(h)
    BY <2>1 DEF AtToken, CH_NULL, eof_sym
  <2> QED BY <1>2, <1>4, <2>1, <2>7, <2>8
<1> QED BY <1>3, <1>4

LEMMA ExitIs ==
    ASSUME text \in Source, NEW lx \in Lexers
    PROVE  /\ Inline(lx, Exit(lx))
           /\ AtToken(Exit(lx))
           /\ Exit(lx).process # "running"
           /\ Exit(lx).told
<1>1. Inline(lx, Tell(lx)) /\ Tell(lx) \in Lexers /\ Tell(lx).told
  BY TellIs DEF Inline, Later
<1> QED BY <1>1, HaltIs, InlineTrans DEF Exit

LEMMA ReadUptoIs ==
    ASSUME text \in Source, NEW lx \in Lexers, lx.process = "running",
           NEW p \in DOMAIN text, lx.cursym < p
    PROVE  /\ Later(lx, ReadUpto(lx, p))
           /\ ReadUpto(lx, p).cursym = p
           /\ ReadUpto(lx, p).ch = text[p]
           /\ Place(ReadUpto(lx, p)) = p
           /\ ReadUpto(lx, p).told = lx.told
           /\ ReadUpto(lx, p).token = lx.token
           /\ ReadUpto(lx, p).process = "running"
           /\ ReadUpto(lx, p).quoted = lx.quoted
<1> DEFINE r == ReadUpto(lx, p)
<1>1. lx \in Records /\ Placed(lx)
  BY LexerFields
<1>2. p \in 0..Len(text) /\ At(p) = text[p] /\ text[p] \in Chars /\ text[p] # eof_sym /\ text[p] # CH_NULL
  BY TextFacts DEF At
<1>3. /\ r \in Records
      /\ r.cursym = p
      /\ r.ch = text[p]
      /\ r.told = lx.told
      /\ r.token = lx.token
      /\ r.process = lx.process
      /\ r.quoted = lx.quoted
  BY <1>1, <1>2 DEF ReadUpto, Records
<1> HIDE DEF r
<1>4. \A q \in lx.quoted : q \in Int /\ q <= lx.cursym
  BY <1>1, TextFacts DEF Placed, Records
<1>5. lx.cursym \in Int /\ p \in Int
  BY <1>1, <1>2 DEF Records
<1>6. Placed(r)
  BY <1>3, <1>4, <1>5 DEF Placed
<1>7. r \in Lexers /\ Place(r) = p
  BY <1>2, <1>3, <1>6, LexerFields DEF Place
<1>8. Place(lx) = lx.cursym
  <2>1. lx.ch # eof_sym
    BY <1>1, <1>2, <1>5, TextFacts DEF Placed, CH_NULL, eof_sym
  <2> QED BY <2>1 DEF Place
<1>9. Later(lx, r)
  BY <1>2, <1>3, <1>5, <1>7, <1>8 DEF Later
<1> QED BY <1>3, <1>7, <1>9 DEF r

(* To the end of the text.                                                 *)
ToEnd(lx) == [lx EXCEPT !.cursym = Len(text), !.ch = eof_sym]

LEMMA ToEndIs ==
    ASSUME text \in Source, NEW lx \in Lexers
    PROVE  /\ Later(lx, ToEnd(lx))
           /\ ToEnd(lx).cursym = Len(text)
           /\ ToEnd(lx).ch = eof_sym
           /\ Place(ToEnd(lx)) = Len(text) + 1
           /\ ToEnd(lx).told = lx.told
           /\ ToEnd(lx).token = lx.token
           /\ ToEnd(lx).process = lx.process
           /\ ToEnd(lx).quoted = lx.quoted
<1> DEFINE r == ToEnd(lx)
<1>1. lx \in Records /\ Placed(lx)
  BY LexerFields
<1>2. Len(text) \in 0..Len(text)
  BY TextFacts
<1>3. /\ r \in Records
      /\ r.cursym = Len(text)
      /\ r.ch = eof_sym
      /\ r.told = lx.told
      /\ r.token = lx.token
      /\ r.process = lx.process
      /\ r.quoted = lx.quoted
  BY <1>1, <1>2 DEF ToEnd, Records
<1> HIDE DEF r
<1>4. \A q \in lx.quoted : q \in Int
  BY <1>1, TextFacts DEF Records
<1>5. lx.cursym \in Int /\ lx.cursym <= Len(text) /\ Len(text) \in Int
  BY <1>1, TextFacts DEF Records
<1>6. Placed(r)
  BY <1>1, <1>3, <1>4, <1>5 DEF Placed
<1>7. r \in Lexers /\ Place(r) = Len(text) + 1
  BY <1>3, <1>6, LexerFields DEF Place
<1>8. Place(lx) <= Len(text) + 1
  BY PlaceType, <1>5
<1>9. r.ch # CH_NULL
  BY <1>3 DEF CH_NULL, eof_sym
<1>10. Later(lx, r)
  BY <1>3, <1>7, <1>8, <1>9 DEF Later
<1> QED BY <1>3, <1>7, <1>10 DEF r

(* One character on, unless there is none.                                 *)
LEMMA SkipOneIs ==
    ASSUME text \in Source, NEW lx \in Lexers
    PROVE  /\ Later(lx, skipOne(lx))
           /\ Place(skipOne(lx)) = IF lx.ch = eof_sym THEN Place(lx) ELSE Place(lx) + 1
           /\ skipOne(lx).ch = IF Place(skipOne(lx)) \in DOMAIN text
                                 THEN text[Place(skipOne(lx))] ELSE eof_sym
           /\ skipOne(lx).ch # CH_NULL
           /\ skipOne(lx).told = lx.told
           /\ skipOne(lx).process = lx.process
           /\ skipOne(lx).token = lx.token
           /\ skipOne(lx).quoted = lx.quoted
<1>0. Len(text) \in Nat /\ lx.cursym \in 0..Len(text) /\ eof_sym # CH_NULL
  BY TextFacts DEF Lexers, eof_sym, CH_NULL
<1>1. CASE lx.cursym < Len(text)
  <2>1. skipOne(lx) = ReadUpto(lx, lx.cursym + 1)
    BY <1>1 DEF skipOne, Then
  <2>2. lx.cursym + 1 \in DOMAIN text /\ lx.cursym < lx.cursym + 1
    BY <1>0, <1>1, TextFacts
  <2>3. lx.ch # eof_sym
    BY <1>0, <1>1, TextFacts DEF Lexers, Placed
  <2>4. lx.process = "running"
    BY <2>3 DEF Lexers, Placed
  <2>5. Place(lx) = lx.cursym
    BY <2>3 DEF Place
  <2> QED BY <2>1, <2>2, <2>3, <2>4, <2>5, ReadUptoIs, TextFacts
<1>2. CASE lx.cursym = Len(text)
  <2>1. ~(lx.cursym < Len(text))
    BY <1>0, <1>2
  <2>2. skipOne(lx) = [lx EXCEPT !.ch = eof_sym]
    BY <2>1 DEF skipOne, Then
  <2>3. lx \in Records
    BY LexerFields
  <2>4. [lx EXCEPT !.ch = eof_sym] = ToEnd(lx)
    BY <1>2, <2>3 DEF ToEnd, Records
  <2>5. Place(lx) = IF lx.ch = eof_sym THEN Len(text) + 1 ELSE Len(text)
    BY <1>2 DEF Place
  <2>6. Len(text) + 1 \notin DOMAIN text
    BY <1>0, TextFacts
  <2> QED BY <1>0, <2>2, <2>4, <2>5, <2>6, ToEndIs
<1> QED BY <1>0, <1>1, <1>2

(* Reading on up to the first of the characters looked for.                *)
First(lx, stops) == SelectInSubSeq(text, lx.cursym + 1, Len(text), LAMBDA c : c \in stops)

LEMMA FirstIs ==
    ASSUME text \in Source, NEW lx \in Lexers, NEW stops
    PROVE  \/ /\ First(lx, stops) = 0
              /\ \A q \in DOMAIN text : lx.cursym < q => text[q] \notin stops
           \/ /\ First(lx, stops) \in DOMAIN text
              /\ lx.cursym < First(lx, stops)
              /\ text[First(lx, stops)] \in stops
              /\ \A q \in DOMAIN text : lx.cursym < q /\ q < First(lx, stops) => text[q] \notin stops
<1> DEFINE I == {i \in (lx.cursym + 1)..Len(text) : text[i] \in stops}
<1>0. Len(text) \in Nat /\ lx.cursym \in 0..Len(text)
  BY TextFacts DEF Lexers
<1>1. First(lx, stops) = IF I # {} THEN Min(I) ELSE 0
  BY DEF First, SelectInSubSeq
<1>2. CASE I = {}
  <2>1. \A q \in DOMAIN text : lx.cursym < q => q \in (lx.cursym + 1)..Len(text)
    BY <1>0, TextFacts
  <2>2. \A q \in (lx.cursym + 1)..Len(text) : text[q] \notin stops
    BY <1>2
  <2>3. \A q \in DOMAIN text : lx.cursym < q => text[q] \notin stops
    BY <2>1, <2>2
  <2> HIDE DEF I
  <2> QED BY <1>1, <1>2, <2>3
<1>3. CASE I # {}
  <2>1. I \subseteq Nat
    BY <1>0
  <2>2. \E x \in I : \A y \in I : x <= y
    <3> HIDE DEF I
    <3> QED BY <1>3, <2>1, LeastNat
  <2>3. Min(I) \in I /\ \A y \in I : Min(I) <= y
    <3> HIDE DEF I
    <3> QED BY <2>2 DEF Min
  <2>4. First(lx, stops) = Min(I)
    <3> HIDE DEF I
    <3> QED BY <1>1, <1>3
  <2>5. Min(I) \in (lx.cursym + 1)..Len(text) /\ text[Min(I)] \in stops
    BY <2>3
  <2>6. ASSUME NEW q \in DOMAIN text, lx.cursym < q, q < Min(I) PROVE text[q] \notin stops
    <3>1. q \in (lx.cursym + 1)..Len(text)
      BY <1>0, <2>6, TextFacts
    <3>2. text[q] \in stops => q \in I
      BY <3>1
    <3>3. Min(I) \in Int /\ q \in Int
      BY <2>5, <3>1
    <3> HIDE DEF I
    <3> QED BY <2>3, <2>6, <3>2, <3>3
  <2>7. Min(I) \in DOMAIN text /\ lx.cursym < Min(I)
    <3> HIDE DEF I
    <3> QED BY <1>0, <2>5, TextFacts
  <2> HIDE DEF I
  <2> QED BY <2>4, <2>5, <2>6, <2>7
<1> QED BY <1>2, <1>3

LEMMA ReadToIs ==
    ASSUME text \in Source, NEW lx \in Lexers, lx.process = "running", NEW stops
    PROVE  /\ Later(lx, ReadTo(lx, stops))
           /\ ReadTo(lx, stops).ch \in stops \/ ReadTo(lx, stops).ch = eof_sym
           /\ ReadTo(lx, stops).ch # CH_NULL
           /\ ReadTo(lx, stops).ch # eof_sym => lx.cursym < ReadTo(lx, stops).cursym
           /\ \A q \in DOMAIN text : lx.cursym < q /\ q < Place(ReadTo(lx, stops))
                                     => text[q] \notin stops
           /\ ReadTo(lx, stops).told = lx.told
           /\ ReadTo(lx, stops).token = lx.token
           /\ ReadTo(lx, stops).process = "running"
           /\ ReadTo(lx, stops).quoted = lx.quoted
<1> DEFINE p == First(lx, stops)
<1>1. ReadTo(lx, stops) = IF p # 0 THEN ReadUpto(lx, p) ELSE ToEnd(lx)
  BY DEF ReadTo, Then, First, ToEnd, SelectInSubSeq
<1> HIDE DEF p
<1>2. CASE p = 0
  <2>1. \A q \in DOMAIN text : lx.cursym < q => text[q] \notin stops
    BY <1>2, FirstIs, TextFacts DEF p
  <2>2. eof_sym # CH_NULL
    BY DEF eof_sym, CH_NULL
  <2> QED BY <1>1, <1>2, <2>1, <2>2, ToEndIs
<1>3. CASE p # 0
  <2>1. /\ p \in DOMAIN text /\ lx.cursym < p /\ text[p] \in stops
        /\ \A q \in DOMAIN text : lx.cursym < q /\ q < p => text[q] \notin stops
    BY <1>3, FirstIs DEF p
  <2> QED BY <1>1, <1>3, <2>1, ReadUptoIs, TextFacts
<1> QED BY <1>2, <1>3

(* Over a row of equal characters.                                         *)
LEMMA SkipWhileIs ==
    ASSUME text \in Source, NEW lx \in Lexers, NEW c, c # eof_sym, c # CH_NULL
    PROVE  /\ Later(lx, skipWhile(lx, c))
           /\ skipWhile(lx, c).ch # c
           /\ \A q \in DOMAIN text : Place(lx) <= q /\ q < Place(skipWhile(lx, c)) => text[q] = c
           /\ skipWhile(lx, c).told = lx.told
           /\ skipWhile(lx, c).token = lx.token
           /\ skipWhile(lx, c).process = lx.process
           /\ skipWhile(lx, c).quoted = lx.quoted
<1> DEFINE r == ReadTo(lx, Range(text) \ {c})
<1>0. DOMAIN text \subseteq Int /\ Place(lx) \in Int
  BY TextFacts, PlaceType
<1>1. CASE lx.ch # c
  <2>1. skipWhile(lx, c) = lx
    BY <1>1 DEF skipWhile, Then
  <2>2. Later(lx, lx)
    BY InlineRefl DEF Inline
  <2> QED BY <1>0, <1>1, <2>1, <2>2
<1>2. CASE lx.ch = c
  <2>1. skipWhile(lx, c) = r
    BY <1>2 DEF skipWhile, Then
  <2>2. lx.process = "running" /\ lx.cursym \in DOMAIN text /\ text[lx.cursym] = c
    BY <1>2 DEF Lexers, Placed
  <2>3. Place(lx) = lx.cursym
    BY <1>2, PlaceType
  <2>4. \A q \in DOMAIN text : text[q] \in Range(text)
    BY DEF Range
  <2>5. ASSUME NEW q \in DOMAIN text, Place(lx) <= q, q < Place(r) PROVE text[q] = c
    <3>1. CASE q = lx.cursym
      BY <2>2, <3>1
    <3>2. CASE lx.cursym < q
      BY <2>2, <2>4, <2>5, <3>2, ReadToIs
    <3> QED BY <1>0, <2>3, <2>5, <3>1, <3>2
  <2>6. r.ch # c
    BY <2>2, ReadToIs
  <2> QED BY <2>1, <2>2, <2>5, <2>6, ReadToIs
<1> QED BY <1>1, <1>2

LEMMA SkipWhileInline ==
    ASSUME text \in Source, NEW lx \in Lexers, NEW c, c # eof_sym, c # CH_NULL, c # eol_sym
    PROVE  Inline(lx, skipWhile(lx, c))
BY SkipWhileIs DEF Inline, Unbroken

LEMMA SkipOneInline ==
    ASSUME text \in Source, NEW lx \in Lexers, lx.ch # eol_sym
    PROVE  Inline(lx, skipOne(lx))
<1>1. DOMAIN text \subseteq Int /\ Place(lx) \in Int
  BY TextFacts, PlaceType
<1>2. ASSUME NEW q \in DOMAIN text, Place(lx) <= q, q < Place(skipOne(lx)) PROVE text[q] # eol_sym
  <2>1. lx.ch # eof_sym /\ q = Place(lx)
    BY <1>1, <1>2, SkipOneIs
  <2>2. q = lx.cursym
    BY <2>1, PlaceType
  <2>3. text[q] = Quote \/ text[q] = lx.ch
    BY <2>1, <2>2, TextFacts DEF Lexers, Placed
  <2> QED BY <2>3 DEF Quote, eol_sym
<1> QED BY <1>2, SkipOneIs DEF Inline, Unbroken

(* The kinds of characters are told apart.                                 *)
Wordlike == Mnemonics \cup Ident \cup {LongName}

LEMMA KindsApart ==
    /\ eof_sym \notin Symbols \cup Digits \cup Wordlike \cup {Quote, Space}
    /\ Symbols \cap (Digits \cup Wordlike \cup {Quote, Space}) = {}
    /\ Digits \cap (Wordlike \cup {Quote, Space}) = {}
    /\ Wordlike \cap {Quote, Space} = {}
    /\ Mnemonics \cap (Ident \cup {LongName}) = {}
    /\ LongName \notin Ident
    /\ eol_sym \in Symbols
    /\ Quote # Space
<1>1. /\ eof_sym \notin Symbols \cup Digits \cup {LongName, Quote, Space}
      /\ Symbols \cap (Digits \cup {LongName, Quote, Space}) = {}
      /\ Digits \cap {LongName, Quote, Space} = {}
      /\ LongName \notin {Quote, Space}
      /\ eol_sym \in Symbols
      /\ Quote # Space
  BY DEF Symbols, Digits, Space, Quote, LongName, eof_sym, eol_sym
<1>2. Mnemonics \cap (Symbols \cup Digits \cup {LongName, Quote, Space, eof_sym}) = {}
  BY WordFacts DEF Symbols, Digits, Space, Quote, LongName, eof_sym, eol_sym
<1>3. Ident \cap (Mnemonics \cup Symbols \cup Digits \cup {LongName, Quote, Space, eof_sym}) = {}
  BY CharAssumption DEF Keywords
<1> QED BY <1>1, <1>2, <1>3 DEF Wordlike

WithToken(lx, tok) == [lx EXCEPT !.token = tok]

LEMMA WithTokenIs ==
    ASSUME text \in Source, NEW lx \in Lexers, NEW tok \in Tokens,
           lx.process = "running" \/ tok = EofToken
    PROVE  /\ Inline(lx, WithToken(lx, tok))
           /\ Place(WithToken(lx, tok)) = Place(lx)
           /\ WithToken(lx, tok).token = tok
           /\ WithToken(lx, tok).ch = lx.ch
           /\ WithToken(lx, tok).cursym = lx.cursym
           /\ WithToken(lx, tok).told = lx.told
           /\ WithToken(lx, tok).process = lx.process
           /\ WithToken(lx, tok).quoted = lx.quoted
<1> DEFINE r == WithToken(lx, tok)
<1>1. lx \in Records /\ Placed(lx)
  BY LexerFields
<1>2. /\ r \in Records
      /\ r.token = tok
      /\ r.ch = lx.ch
      /\ r.cursym = lx.cursym
      /\ r.told = lx.told
      /\ r.process = lx.process
      /\ r.quoted = lx.quoted
  BY <1>1 DEF WithToken, Records
<1> HIDE DEF r
<1>3. Placed(r)
  BY <1>1, <1>2 DEF Placed
<1>4. r \in Lexers
  BY <1>2, <1>3, LexerFields
<1>5. Place(r) = Place(lx) /\ Place(lx) \in Int /\ DOMAIN text \subseteq Int
  BY <1>2, PlaceType, TextFacts DEF Place
<1>6. Inline(lx, r)
  BY <1>2, <1>4, <1>5 DEF Inline, Later, Unbroken
<1> QED BY <1>2, <1>5, <1>6 DEF r

(* A string has been read: its places are noted.                           *)
WithString(lx, tok, places) == [lx EXCEPT !.token = tok, !.quoted = @ \cup places]

LEMMA WithStringIs ==
    ASSUME text \in Source, NEW lx \in Lexers, NEW tok \in Tokens, lx.process = "running",
           lx.ch = Quote, NEW i \in DOMAIN text, i <= lx.cursym
    PROVE  LET r == WithString(lx, tok, i .. lx.cursym)
           IN  /\ r \in Lexers
               /\ Place(r) = Place(lx)
               /\ r.token = tok
               /\ r.ch = lx.ch
               /\ r.cursym = lx.cursym
               /\ r.told = lx.told
               /\ r.process = lx.process
               /\ r.quoted = lx.quoted \cup (i .. lx.cursym)
<1> DEFINE r == WithString(lx, tok, i .. lx.cursym)
<1>0. Len(text) \in Nat /\ DOMAIN text = 1..Len(text)
  BY TextFacts
<1>1. lx \in Records /\ Placed(lx)
  BY LexerFields
<1>2. i .. lx.cursym \subseteq DOMAIN text
  BY <1>0, <1>1 DEF Records
<1>3. /\ r \in Records
      /\ r.token = tok
      /\ r.ch = lx.ch
      /\ r.cursym = lx.cursym
      /\ r.told = lx.told
      /\ r.process = lx.process
      /\ r.quoted = lx.quoted \cup (i .. lx.cursym)
  <2>1. lx.quoted \cup (i .. lx.cursym) \in SUBSET DOMAIN text
    BY <1>1, <1>2 DEF Records
  <2> DEFINE w == i .. lx.cursym
  <2> HIDE DEF w
  <2>2. WithString(lx, tok, w).quoted = lx.quoted \cup w
    BY <1>1 DEF WithString, Records
  <2> QED BY <1>1, <2>1, <2>2 DEF WithString, Records, w
<1> HIDE DEF r
<1>4. text[lx.cursym] = Quote
  <2>1. Quote # eof_sym /\ Quote # CH_NULL
    BY DEF Quote, eof_sym, CH_NULL
  <2> QED BY <1>1, <2>1 DEF Placed
<1>5. lx.cursym \in Int
  BY <1>1 DEF Records
<1>6. \A q \in i .. lx.cursym : q < lx.cursym \/ q = lx.cursym
  BY <1>0, <1>5
<1>7. Placed(r)
  BY <1>1, <1>3, <1>4, <1>6 DEF Placed
<1>8. r \in Lexers /\ Place(r) = Place(lx)
  BY <1>3, <1>7, LexerFields DEF Place
<1> QED BY <1>3, <1>8 DEF r

(* From l the reader has made the token at its place.                      *)
Tokened(l, t) ==
    /\ Inline(l, t)
    /\ AtToken(t)
    /\ t.process = "running" => t.token.at = Place(l)

LEMMA TokenType ==
    ASSUME NEW kind \in Kinds, NEW type \in Types, NEW ident \in Seq(Chars \cup {eof_sym}),
           NEW value \in Int, NEW at \in 0..(Len(text) + 1)
    PROVE  /\ Token(kind, type, ident, value, at) \in Tokens
           /\ Token(kind, type, ident, value, at).kind = kind
           /\ Token(kind, type, ident, value, at).type = type
           /\ Token(kind, type, ident, value, at).ident = ident
           /\ Token(kind, type, ident, value, at).value = value
           /\ Token(kind, type, ident, value, at).at = at
BY DEF Token, Tokens

LEMMA NoIdentType == NoIdent \in Seq(Chars \cup {eof_sym})
BY DEF NoIdent

(* The place of a lexer that has a character of the text.                  *)
LEMMA AtChar ==
    ASSUME text \in Source, NEW l \in Lexers, l.ch # CH_NULL, l.ch # eof_sym
    PROVE  /\ l.cursym \in DOMAIN text
           /\ l.ch = text[l.cursym]
           /\ l.ch \in Chars
           /\ Place(l) = l.cursym
           /\ l.process = "running"
           /\ l.cursym \in 0..(Len(text) + 1)
           /\ l.cursym \in 1..l.cursym
           /\ <<l.ch>> \in Seq(Chars \cup {eof_sym})
<1>1. /\ l.cursym \in DOMAIN text
      /\ l.ch = text[l.cursym]
      /\ Place(l) = l.cursym
      /\ l.process = "running"
  BY DEF Lexers, Placed, Place
<1>2. l.ch \in Chars
  BY <1>1, TextFacts
<1>3. l.cursym \in 0..(Len(text) + 1) /\ l.cursym \in 1..l.cursym
  BY <1>1, TextFacts
<1> QED BY <1>1, <1>2, <1>3, SingletonType

LEMMA TokenAtEof ==
    ASSUME text \in Source, NEW l \in Lexers, l.ch = eof_sym
    PROVE  /\ Tokened(l, TokenAt(l))
           /\ TokenAt(l).token.type = "L_EOF"
           /\ TokenAt(l) = WithToken(l, EofToken)
<1>1. TokenAt(l) = WithToken(l, EofToken)
  BY KindsApart DEF TokenAt, WithToken, Wordlike
<1>2. AtToken(WithToken(l, EofToken))
  BY EofTokenType, WithTokenIs DEF AtToken, eof_sym, CH_NULL
<1>3. Place(l) = Len(text) + 1
  BY PlaceType
<1> QED BY <1>1, <1>2, <1>3, WithTokenIs, EofTokenType DEF Tokened

LEMMA TokenAtSymbol ==
    ASSUME text \in Source, NEW l \in Lexers, l.ch \in Symbols
    PROVE  /\ Tokened(l, TokenAt(l))
           /\ TokenAt(l).token.type = l.ch
           /\ TokenAt(l) = WithToken(l, Token("SYM", l.ch, <<l.ch>>, 0, l.cursym))
<1> DEFINE tok == Token("SYM", l.ch, <<l.ch>>, 0, l.cursym)
<1>1. TokenAt(l) = WithToken(l, tok)
  BY KindsApart DEF TokenAt, WithToken, Wordlike
<1>2. l.ch # CH_NULL /\ l.ch # eof_sym
  BY KindsApart DEF Symbols, CH_NULL, eol_sym
<1>3. l.ch \in Types /\ "SYM" \in Kinds
  BY DEF Types, Kinds
<1>4. /\ tok \in Tokens
      /\ tok.kind = "SYM"
      /\ tok.type = l.ch
      /\ tok.at = l.cursym
  <2>1. l.cursym \in 0..(Len(text) + 1) /\ <<l.ch>> \in Seq(Chars \cup {eof_sym}) /\ 0 \in Int
    BY <1>2, AtChar
  <2> QED BY <1>3, <2>1 DEF Token, Tokens
<1> HIDE DEF tok
<1>5. AtToken(WithToken(l, tok))
  BY <1>2, <1>4, AtChar, WithTokenIs DEF AtToken
<1> QED BY <1>1, <1>2, <1>4, <1>5, AtChar, WithTokenIs DEF Tokened, tok

LEMMA TokenAtUnknown ==
    ASSUME text \in Source, NEW l \in Lexers, l.ch # CH_NULL,
           l.ch \notin {eof_sym, Quote} \cup Symbols \cup Digits \cup Wordlike
    PROVE  Tokened(l, TokenAt(l))
<1> DEFINE tok == Token("KIND_NONE", "TOK_NONE", NoIdent, 0, l.cursym)
<1>1. TokenAt(l) = WithToken(Tell(l), tok)
  BY DEF TokenAt, WithToken, Wordlike
<1>3. "TOK_NONE" \in Types /\ "KIND_NONE" \in Kinds
  BY DEF Types, Kinds
<1>4. /\ tok \in Tokens
      /\ tok.kind = "KIND_NONE"
      /\ tok.type = "TOK_NONE"
      /\ tok.at = l.cursym
  <2>1. l.cursym \in 0..(Len(text) + 1) /\ 0 \in Int
    BY AtChar
  <2> QED BY <1>3, <2>1, TokenType, NoIdentType
<1> HIDE DEF tok
<1>5. Inline(l, Tell(l)) /\ Tell(l) \in Lexers /\ Tell(l).cursym = l.cursym /\ Tell(l).ch = l.ch
      /\ Tell(l).process = "running"
  BY TellIs, AtChar DEF Inline, Later
<1>6. /\ Inline(Tell(l), WithToken(Tell(l), tok))
      /\ WithToken(Tell(l), tok).token = tok
      /\ WithToken(Tell(l), tok).cursym = l.cursym
      /\ WithToken(Tell(l), tok).ch = l.ch
  BY <1>4, <1>5, WithTokenIs
<1>7. AtToken(WithToken(Tell(l), tok))
  BY <1>4, <1>6, AtChar DEF AtToken
<1> QED BY <1>1, <1>4, <1>5, <1>6, <1>7, AtChar, InlineTrans DEF Tokened

LEMMA NumberType ==
    ASSUME NEW digits, NEW base \in Int
    PROVE  strtol(digits, base) \in Int
BY DEF strtol

(* A token that ends before the current character.                         *)
LEMMA TokenBefore ==
    ASSUME text \in Source, NEW l \in Lexers, l.ch # CH_NULL, l.ch # eof_sym, l.ch # eol_sym,
           NEW tok \in Tokens, tok.at = l.cursym
    PROVE  LET t == WithToken(skipOne(l), tok)
           IN  /\ Inline(l, t)
               /\ t.token = tok
               /\ t.ch # CH_NULL
               /\ Place(t) = tok.at + 1
               /\ tok.at \in 1..t.cursym
<1> DEFINE s == skipOne(l)
           t == WithToken(s, tok)
<1>1. Inline(l, s) /\ s \in Lexers /\ s.process = "running" /\ s.ch # CH_NULL /\ Place(s) = l.cursym + 1
  BY SkipOneInline, SkipOneIs, AtChar DEF Later
<1>2. Inline(s, t) /\ t.token = tok /\ t.ch = s.ch /\ Place(t) = Place(s) /\ t.cursym = s.cursym
  BY <1>1, WithTokenIs
<1>3. l.cursym \in 1..s.cursym
  <2>1. s.cursym \in Int /\ l.cursym \in Int /\ 1 <= l.cursym /\ Len(text) \in Nat
    BY <1>1, AtChar, TextFacts DEF Lexers
  <2>2. s.cursym = l.cursym \/ s.cursym = l.cursym + 1
    BY <1>1, <2>1 DEF Place
  <2> QED BY <2>1, <2>2
<1> QED BY <1>1, <1>2, <1>3, InlineTrans

LEMMA TokenAtDigits ==
    ASSUME text \in Source, NEW l \in Lexers, l.ch \in Digits
    PROVE  Tokened(l, TokenAt(l))
<1> DEFINE value == strtol(l.ch, radix(skipOne(l).ch))
           tok == Token("CONST", "TOK_NUM", NoIdent, value, l.cursym)
           t == WithToken(skipOne(l), tok)
<1>1. TokenAt(l) = NumberToken(l)
  BY KindsApart DEF TokenAt, Wordlike
<1>2. NumberToken(l) = t
  BY DEF NumberToken, WithToken
<1>3. value \in Int
  <2>1. radix(skipOne(l).ch) \in Int
    BY DEF radix
  <2> QED BY <2>1, NumberType
<1>4. l.ch # CH_NULL /\ l.ch # eof_sym /\ l.ch # eol_sym
  BY KindsApart DEF Digits, CH_NULL
<1>5. "CONST" \in Kinds /\ "TOK_NUM" \in Types
  BY DEF Kinds, Types
<1> HIDE DEF value
<1>6. tok \in Tokens /\ tok.kind = "CONST" /\ tok.type = "TOK_NUM" /\ tok.at = l.cursym
  <2>1. l.cursym \in 0..(Len(text) + 1)
    BY <1>4, AtChar
  <2> QED BY <1>3, <1>5, <2>1, TokenType, NoIdentType
<1> HIDE DEF tok
<1>7. Inline(l, t) /\ t.token = tok /\ t.ch # CH_NULL /\ Place(t) = tok.at + 1 /\ tok.at \in 1..t.cursym
  BY <1>4, <1>6, TokenBefore
<1> HIDE DEF t
<1>8. AtToken(t)
  BY <1>4, <1>6, <1>7, AtChar DEF AtToken
<1> QED BY <1>1, <1>2, <1>4, <1>6, <1>7, <1>8, AtChar DEF Tokened

LEMMA WordsOf == \A k \in {"OP", "REG", "INT"} : Words[k] \subseteq Mnemonics
<1>1. DOMAIN Words = {"OP", "REG", "INT"}
  BY DEF Words
<1> QED BY <1>1 DEF Mnemonics

LEMMA KindOfWord ==
    ASSUME NEW w \in Mnemonics
    PROVE  KindOf(w) \in {"OP", "REG", "INT"} /\ w \in Words[KindOf(w)]
<1>1. DOMAIN Words = {"OP", "REG", "INT"}
  BY DEF Words
<1>2. \E k \in DOMAIN Words : w \in Words[k]
  BY DEF Mnemonics
<1>3. KindOf(w) \in DOMAIN Words /\ w \in Words[KindOf(w)]
  BY <1>2 DEF KindOf
<1> QED BY <1>1, <1>3

LEMMA TokenAtWord ==
    ASSUME text \in Source, NEW l \in Lexers, l.ch \in Wordlike
    PROVE  Tokened(l, TokenAt(l))
<1> DEFINE word == Token(KindOf(l.ch), l.ch, <<l.ch>>, 0, l.cursym)
           name == Token("VAR", "TOK_IDENT", <<l.ch>>, 0, l.cursym)
           tok == IF l.ch \in Mnemonics THEN word ELSE name
           t == WithToken(skipOne(l), tok)
<1>1. TokenAt(l) = WordToken(l)
  BY KindsApart DEF TokenAt, Wordlike
<1>2. WordToken(l) = IF l.ch = LongName THEN Exit(l) ELSE t
  BY DEF WordToken, WithToken
<1>4. l.ch # CH_NULL /\ l.ch # eof_sym /\ l.ch # eol_sym
  <2>1. CH_NULL \notin Mnemonics /\ CH_NULL # LongName
    BY WordFacts DEF CH_NULL, LongName
  <2> QED BY <2>1, KindsApart, CharAssumption DEF Wordlike
<1>5. {"VAR", "OP", "REG", "INT"} \subseteq Kinds /\ "TOK_IDENT" \in Types /\ Mnemonics \subseteq Types
  BY DEF Kinds, Types
<1>6. CASE l.ch = LongName
  <2>1. Inline(l, Exit(l)) /\ AtToken(Exit(l)) /\ Exit(l).process # "running"
    BY ExitIs
  <2> QED BY <1>1, <1>2, <1>6, <2>1 DEF Tokened
<1>7. CASE l.ch # LongName /\ l.ch \in Mnemonics
  <2>1. KindOf(l.ch) \in {"OP", "REG", "INT"} /\ l.ch \in Words[KindOf(l.ch)]
    BY <1>7, KindOfWord
  <2>2. word \in Tokens /\ word.kind = KindOf(l.ch) /\ word.type = l.ch /\ word.at = l.cursym
    <3>1. l.cursym \in 0..(Len(text) + 1) /\ <<l.ch>> \in Seq(Chars \cup {eof_sym}) /\ 0 \in Int
      BY <1>4, AtChar
    <3>2. KindOf(l.ch) \in Kinds /\ l.ch \in Types
      BY <1>5, <1>7, <2>1
    <3> QED BY <3>1, <3>2 DEF Token, Tokens
  <2>3. tok = word
    BY <1>7
  <2> HIDE DEF word, tok
  <2>4. Inline(l, t) /\ t.token = tok /\ t.ch # CH_NULL /\ Place(t) = tok.at + 1 /\ tok.at \in 1..t.cursym
    BY <1>4, <2>2, <2>3, TokenBefore
  <2> HIDE DEF t
  <2>5. AtToken(t)
    BY <1>4, <2>1, <2>2, <2>3, <2>4, AtChar DEF AtToken
  <2> QED BY <1>1, <1>2, <1>4, <1>7, <2>2, <2>3, <2>4, <2>5, AtChar DEF Tokened
<1>8. CASE l.ch # LongName /\ l.ch \notin Mnemonics
  <2>1. l.ch \in Ident
    BY <1>8 DEF Wordlike
  <2>2. /\ name \in Tokens /\ name.kind = "VAR" /\ name.type = "TOK_IDENT" /\ name.at = l.cursym
        /\ name.ident = <<l.ch>>
    <3>1. l.cursym \in 0..(Len(text) + 1) /\ <<l.ch>> \in Seq(Chars \cup {eof_sym}) /\ 0 \in Int
      BY <1>4, AtChar
    <3>2. "VAR" \in Kinds /\ "TOK_IDENT" \in Types
      BY <1>5
    <3> QED BY <3>1, <3>2 DEF Token, Tokens
  <2>3. tok = name
    BY <1>8
  <2> HIDE DEF name, tok
  <2>4. Inline(l, t) /\ t.token = tok /\ t.ch # CH_NULL /\ Place(t) = tok.at + 1 /\ tok.at \in 1..t.cursym
    BY <1>4, <2>2, <2>3, TokenBefore
  <2> HIDE DEF t
  <2>5. AtToken(t)
    BY <1>4, <2>1, <2>2, <2>3, <2>4, AtChar DEF AtToken
  <2> QED BY <1>1, <1>2, <1>4, <1>8, <2>2, <2>3, <2>4, <2>5, AtChar DEF Tokened
<1> QED BY <1>6, <1>7, <1>8

LEMMA TokenAtQuote ==
    ASSUME text \in Source, NEW l \in Lexers, l.ch = Quote
    PROVE  Tokened(l, TokenAt(l))
<1> DEFINE close == ReadTo(l, {Quote})
           string == SubSeq(text, l.cursym + 1, close.cursym - 1)
           tok == Token("STRING", "TOK_NONE", string, 0, l.cursym)
           t == WithString(close, tok, l.cursym .. close.cursym)
<1>1. TokenAt(l) = StringToken(l)
  BY KindsApart DEF TokenAt, Wordlike
<1>2. StringToken(l) = IF close.ch = eof_sym THEN Exit(l) ELSE t
  BY DEF StringToken, Then, WithString
<1>3. Quote # CH_NULL /\ Quote # eof_sym /\ Quote # eol_sym
  BY DEF Quote, CH_NULL, eof_sym, eol_sym
<1>4. /\ l.cursym \in DOMAIN text /\ text[l.cursym] = Quote /\ Place(l) = l.cursym /\ l.process = "running"
      /\ l.cursym \in 0..(Len(text) + 1)
  BY <1>3, AtChar
<1>5. /\ Later(l, close) /\ close.ch \in {Quote, eof_sym} /\ close.process = "running"
      /\ close.quoted = l.quoted /\ close.told = l.told
      /\ close.ch # eof_sym => l.cursym < close.cursym
  BY <1>4, ReadToIs
<1>6. CASE close.ch = eof_sym
  <2>1. Inline(l, Exit(l)) /\ AtToken(Exit(l)) /\ Exit(l).process # "running"
    BY ExitIs
  <2> QED BY <1>1, <1>2, <1>6, <2>1 DEF Tokened
<1>7. CASE close.ch # eof_sym
  <2>1. close \in Lexers /\ close.ch = Quote /\ l.cursym < close.cursym /\ Place(close) = close.cursym
    BY <1>5, <1>7 DEF Later, Place
  <2>2. "STRING" \in Kinds /\ "TOK_NONE" \in Types
    BY DEF Kinds, Types
  <2>3. string \in Seq(Chars \cup {eof_sym})
    <3>1. string \in Seq(Chars)
      <4>1. \A i \in (l.cursym + 1)..(close.cursym - 1) : text[i] \in Chars
        <5>1. close.cursym \in 0..Len(text) /\ Len(text) \in Nat
          BY <2>1, TextFacts DEF Lexers
        <5> QED BY <1>4, <5>1, TextFacts
      <4>2. l.cursym + 1 \in Int /\ close.cursym - 1 \in Int
        BY <1>4, <2>1, TextFacts DEF Lexers
      <4> QED BY <4>1, <4>2, SubSeqProperties DEF Source
    <3>2. \A u \in Seq(Chars) : u \in Seq(Chars \cup {eof_sym})
      OBVIOUS
    <3> QED BY <3>1, <3>2
  <2>4. tok \in Tokens /\ tok.kind = "STRING" /\ tok.type = "TOK_NONE" /\ tok.at = l.cursym
    <3> HIDE DEF string
    <3>1. 0 \in Int
      OBVIOUS
    <3> QED BY <1>4, <2>2, <2>3, <3>1 DEF Token, Tokens
  <2> HIDE DEF tok, close
  <2>5. l.cursym \in Int /\ close.cursym \in Int
    BY <1>4, <2>1, TextFacts DEF Lexers
  <2>6. l.cursym <= close.cursym
    BY <2>1, <2>5
  <2>7. /\ t \in Lexers /\ Place(t) = Place(close) /\ t.token = tok /\ t.ch = Quote /\ t.cursym = close.cursym
        /\ t.told = close.told /\ t.process = "running"
        /\ t.quoted = close.quoted \cup (l.cursym .. close.cursym)
    BY <1>4, <1>5, <2>1, <2>4, <2>6, WithStringIs
  <2> HIDE DEF t
  <2>8. \A q \in l.cursym .. close.cursym : q >= Place(l)
    BY <1>4, <2>5
  <2>9. Later(l, t)
    BY <1>3, <1>4, <1>5, <2>7, <2>8 DEF Later
  <2>10. Unbroken(Place(l), Place(t), t)
    <3>1. \A p \in DOMAIN text : Place(l) <= p /\ p < Place(t) => p \in l.cursym .. close.cursym
      BY <1>4, <2>1, <2>5, <2>7, TextFacts
    <3> QED BY <2>7, <3>1 DEF Unbroken
  <2>11. AtToken(t)
    <3>1. l.cursym \in 1..t.cursym
      BY <1>4, <2>1, <2>5, <2>7, TextFacts
    <3> QED BY <1>3, <1>4, <2>1, <2>4, <2>7, <3>1, KindsApart DEF AtToken
  <2> QED BY <1>1, <1>2, <1>4, <1>7, <2>4, <2>7, <2>9, <2>10, <2>11 DEF Tokened, Inline
<1> QED BY <1>6, <1>7

LEMMA TokenAtIs ==
    ASSUME text \in Source, NEW l \in Lexers, l.ch # CH_NULL
    PROVE  Tokened(l, TokenAt(l))
BY TokenAtEof, TokenAtSymbol, TokenAtUnknown, TokenAtDigits, TokenAtWord, TokenAtQuote

LEMMA PlaceChar ==
    ASSUME text \in Source, NEW lx \in Lexers, lx.ch # CH_NULL, Place(lx) \in DOMAIN text
    PROVE  text[Place(lx)] = lx.ch
<1>1. lx.ch # eof_sym
  BY TextFacts, PlaceType
<1> QED BY <1>1, AtChar

(* The next token.                                                         *)
LEMMA NextTokIs ==
    ASSUME text \in Source, NEW lx \in Lexers
    PROVE  /\ Inline(lx, nextTok(lx))
           /\ AtToken(nextTok(lx))
           /\ nextTok(lx).process = "running" =>
                nextTok(lx).token.at = IF lx.ch = CH_NULL THEN Place(lx) + 1 ELSE Place(lx)
<1> DEFINE l == IF lx.ch = CH_NULL THEN skipOne(lx) ELSE lx
<1>1. nextTok(lx) = TokenAt(l)
  BY DEF nextTok, Then
<1>2. CH_NULL # eol_sym /\ CH_NULL # eof_sym
  BY DEF CH_NULL, eol_sym, eof_sym
<1>3. CASE lx.ch = CH_NULL
  <2>1. Inline(lx, l) /\ l \in Lexers /\ l.ch # CH_NULL /\ Place(l) = Place(lx) + 1
    BY <1>2, <1>3, SkipOneIs, SkipOneInline DEF Later
  <2> HIDE DEF l
  <2>2. Tokened(l, TokenAt(l))
    BY <2>1, TokenAtIs
  <2> QED BY <1>1, <1>3, <2>1, <2>2, InlineTrans DEF Tokened
<1>4. CASE lx.ch # CH_NULL
  <2>1. l = lx
    BY <1>4
  <2> QED BY <1>1, <1>4, <2>1, TokenAtIs DEF Tokened
<1> QED BY <1>3, <1>4

(* At a symbol or at the end.                                              *)
LEMMA NextTokSymbol ==
    ASSUME text \in Source, NEW lx \in Lexers, lx.ch \in Symbols \cup {eof_sym}
    PROVE  LET t == nextTok(lx)
           IN  /\ t.token.type = IF lx.ch = eof_sym THEN "L_EOF" ELSE lx.ch
               /\ t.ch = lx.ch
               /\ t.cursym = lx.cursym
               /\ t.told = lx.told
               /\ t.process = lx.process
               /\ t.quoted = lx.quoted
<1>1. lx.ch # CH_NULL
  BY DEF CH_NULL, eof_sym, eol_sym, Symbols
<1>2. nextTok(lx) = TokenAt(lx)
  BY <1>1 DEF nextTok, Then
<1>3. CASE lx.ch = eof_sym
  BY <1>2, <1>3, TokenAtEof, WithTokenIs, EofTokenType
<1>4. CASE lx.ch # eof_sym /\ lx.ch \in Symbols
  <2> DEFINE tok == Token("SYM", lx.ch, <<lx.ch>>, 0, lx.cursym)
  <2>1. "SYM" \in Kinds /\ lx.ch \in Types /\ 0 \in Int
    BY <1>4 DEF Kinds, Types
  <2>2. lx.cursym \in 0..(Len(text) + 1) /\ <<lx.ch>> \in Seq(Chars \cup {eof_sym}) /\ lx.process = "running"
    BY <1>1, <1>4, AtChar
  <2>3. tok \in Tokens
    BY <2>1, <2>2 DEF Token, Tokens
  <2>4. nextTok(lx) = WithToken(lx, tok) /\ nextTok(lx).token.type = lx.ch
    BY <1>2, <1>4, TokenAtSymbol
  <2> HIDE DEF tok
  <2> QED BY <1>4, <2>2, <2>3, <2>4, WithTokenIs
<1> QED BY <1>3, <1>4

(* The place of a lexer that is at its token.                              *)
LEMMA AtTokenPlace ==
    ASSUME text \in Source, NEW lx \in Lexers, AtToken(lx)
    PROVE  /\ lx.ch # CH_NULL
           /\ lx.token.at \in 1..(Len(text) + 1)
           /\ lx.token.at <= Place(lx)
           /\ lx.token.kind \in Kinds
           /\ lx.token.kind \in {"VAR", "CONST", "OP", "REG", "INT"} => lx.token.at < Place(lx)
           /\ lx.token.kind = "STRING" => lx.token.at < Place(lx) /\ lx.ch = Quote
           /\ lx.token.kind \in {"SYM", "KIND_NONE"} => lx.token.at = Place(lx)
<1>1. /\ lx.cursym \in 0..Len(text) /\ lx.token.kind \in Kinds /\ Len(text) \in Nat
  BY TextFacts DEF Lexers, Tokens
<1>2. CASE lx.token = EofToken /\ lx.ch = eof_sym
  BY <1>1, <1>2, EofTokenType, PlaceType DEF AtToken
<1>3. CASE ~(lx.token = EofToken /\ lx.ch = eof_sym)
  <2>1. lx.token.at \in 1..lx.cursym
    BY <1>3 DEF AtToken
  <2>2. lx.token.kind \in {"SYM", "KIND_NONE"} => lx.token.at = lx.cursym /\ lx.ch = text[lx.token.at]
    BY <1>3 DEF AtToken
  <2>3. lx.token.kind = "STRING" => lx.token.at < lx.cursym /\ lx.ch = Quote
    BY <1>3 DEF AtToken
  <2>4. lx.token.kind \in {"VAR", "CONST", "OP", "REG", "INT"} => lx.token.at + 1 = Place(lx)
    BY <1>3 DEF AtToken
  <2>5. lx.ch # CH_NULL
    BY DEF AtToken
  <2>6. lx.token.at \in DOMAIN text /\ text[lx.token.at] # eof_sym
    BY <1>1, <2>1, TextFacts
  <2>7. lx.ch # eof_sym => Place(lx) = lx.cursym
    BY DEF Place
  <2>8. lx.cursym <= Place(lx) /\ Place(lx) \in Int
    BY PlaceType
  <2> QED BY <1>1, <2>1, <2>2, <2>3, <2>4, <2>5, <2>6, <2>7, <2>8
<1> QED BY <1>2, <1>3

(* A token by its type.                                                    *)
LEMMA SymbolTokenIs ==
    ASSUME text \in Source, NEW lx \in Lexers, AtToken(lx), lx.token.type \in Symbols
    PROVE  /\ lx.token.kind = "SYM"
           /\ lx.ch = lx.token.type
           /\ lx.process = "running"
           /\ lx.token.at = Place(lx)
           /\ lx.token.at \in DOMAIN text /\ text[lx.token.at] = lx.token.type
<1>1. lx.token.kind \in Kinds
  BY AtTokenPlace
<1>2. lx.token # EofToken
  BY EofTokenType DEF Symbols, eol_sym
<1>3. \A k \in {"OP", "REG", "INT"} : Words[k] \cap Symbols = {}
  <2>1. \A k \in {"OP", "REG", "INT"} : Words[k] \subseteq Mnemonics
    BY WordsOf
  <2> QED BY <2>1, KindsApart DEF Wordlike
<1>4. "TOK_IDENT" \notin Symbols /\ "TOK_NUM" \notin Symbols /\ "TOK_NONE" \notin Symbols
  BY DEF Symbols, eol_sym
<1>5. lx.token.kind = "SYM"
  BY <1>1, <1>2, <1>3, <1>4 DEF AtToken, Kinds
<1>6. lx.token.at = lx.cursym /\ lx.ch = text[lx.token.at] /\ text[lx.token.at] = lx.token.type
      /\ lx.token.at \in 1..lx.cursym
  BY <1>2, <1>5 DEF AtToken
<1>7. lx.ch # CH_NULL /\ lx.ch # eof_sym
  BY <1>6, KindsApart, AtTokenPlace
<1> QED BY <1>5, <1>6, <1>7, AtChar

LEMMA EofTokenIs ==
    ASSUME text \in Source, NEW lx \in Lexers, AtToken(lx), lx.token.type = "L_EOF"
    PROVE  lx.ch = eof_sym /\ lx.token = EofToken
<1>1. lx.token.kind \in Kinds
  BY AtTokenPlace
<1>2. \A k \in {"OP", "REG", "INT"} : "L_EOF" \notin Words[k]
  BY DEF Words
<1>3. "L_EOF" \notin Symbols
  BY DEF Symbols, eol_sym
<1> QED BY <1>1, <1>2, <1>3 DEF AtToken, Kinds

LEMMA StoppedAtEnd ==
    ASSUME text \in Source, NEW lx \in Lexers, lx.process # "running"
    PROVE  lx.ch = eof_sym /\ lx.token = EofToken
BY DEF Lexers, Placed

-----------------------------------------------------------------------------
(* Moving on: over the spaces, to the next token.                          *)
Spaces(i, j) == \A q \in DOMAIN text : i <= q /\ q < j => text[q] = Space

LEMMA FollowIs ==
    ASSUME text \in Source, NEW lx \in Lexers
    PROVE  LET t == Follow(lx)
           IN  /\ Inline(lx, t)
               /\ AtToken(t)
               /\ t.process = "running" /\ lx.ch = CH_NULL => t.token.at = Place(lx) + 1
               /\ t.process = "running" /\ lx.ch # CH_NULL =>
                      /\ Place(lx) <= t.token.at
                      /\ Spaces(Place(lx), t.token.at)
                      /\ t.token.at \in DOMAIN text => text[t.token.at] # Space
               /\ t.process = "running" /\ lx.ch \notin {CH_NULL, Space} => t.token.at = Place(lx)
<1> DEFINE s == skipWhile(lx, Space)
           t == Follow(lx)
<1>1. Space # eof_sym /\ Space # CH_NULL /\ Space # eol_sym
  BY DEF Space, eof_sym, CH_NULL, eol_sym
<1>2. Inline(lx, s) /\ s \in Lexers
  BY <1>1, SkipWhileInline DEF Inline, Later
<1>3. s.ch # Space /\ Spaces(Place(lx), Place(s)) /\ (s.ch = CH_NULL => lx.ch = CH_NULL)
      /\ Place(lx) <= Place(s)
  BY <1>1, SkipWhileIs DEF Spaces, Later
<1>4. lx.ch # Space => s = lx
  BY DEF skipWhile, Then
<1>5. t = nextTok(s)
  BY DEF Follow
<1> HIDE DEF s, t
<1>6. /\ Inline(s, t) /\ AtToken(t)
      /\ t.process = "running" => t.token.at = IF s.ch = CH_NULL THEN Place(s) + 1 ELSE Place(s)
  BY <1>2, <1>5, NextTokIs
<1>7. s.ch # CH_NULL /\ Place(s) \in DOMAIN text => text[Place(s)] = s.ch
  BY <1>2, PlaceChar
<1>8. Inline(lx, t)
  BY <1>2, <1>6, InlineTrans
<1> QED BY <1>1, <1>3, <1>4, <1>6, <1>7, <1>8 DEF t

(* One character, the spaces behind it, and the next token.                *)
LEMMA PassIs ==
    ASSUME text \in Source, NEW lx \in Lexers, lx.ch # eof_sym, lx.ch # eol_sym
    PROVE  LET t == Pass(lx)
           IN  /\ Inline(lx, t)
               /\ AtToken(t)
               /\ t \in Lexers
               /\ Place(lx) < Place(t)
               /\ t.process = "running" =>
                      /\ Place(lx) < t.token.at
                      /\ Spaces(Place(lx) + 1, t.token.at)
                      /\ t.token.at \in DOMAIN text => text[t.token.at] # Space
<1> DEFINE s == skipOne(lx)
           t == Pass(lx)
<1>1. Inline(lx, s) /\ s \in Lexers /\ s.ch # CH_NULL /\ Place(s) = Place(lx) + 1
  BY SkipOneInline, SkipOneIs DEF Inline, Later
<1>2. t = Follow(s)
  BY DEF Pass
<1> HIDE DEF s, t
<1>3. /\ Inline(s, t) /\ AtToken(t)
      /\ t.process = "running" =>
            /\ Place(s) <= t.token.at
            /\ Spaces(Place(s), t.token.at)
            /\ t.token.at \in DOMAIN text => text[t.token.at] # Space
  BY <1>1, <1>2, FollowIs
<1>4. t \in Lexers /\ Place(s) <= Place(t)
  BY <1>3 DEF Inline, Later
<1>5. Place(lx) \in Int /\ Place(t) \in Int /\ t.token.at \in Int
  BY <1>3, <1>4, PlaceType, AtTokenPlace
<1>6. Place(lx) < Place(t) /\ (Place(s) <= t.token.at => Place(lx) < t.token.at)
  BY <1>1, <1>4, <1>5
<1> QED BY <1>1, <1>3, <1>4, <1>6, InlineTrans DEF t

(* To the end of the line.                                                 *)
LEMMA SkipUntilIs ==
    ASSUME text \in Source, NEW lx \in Lexers
    PROVE  LET t == skipUntil(lx, eol_sym)
           IN  /\ Inline(lx, t)
               /\ AtToken(t)
               /\ t.ch \in {eol_sym, eof_sym}
               /\ t.token.type = IF t.ch = eof_sym THEN "L_EOF" ELSE eol_sym
               /\ t.process = lx.process
               /\ t.told = lx.told
               /\ t.quoted = lx.quoted
<1> DEFINE m == IF lx.ch \in {eol_sym, eof_sym} THEN lx ELSE ReadTo(lx, {eol_sym})
           t == skipUntil(lx, eol_sym)
<1>1. t = nextTok(m)
  BY DEF skipUntil, Then
<1>2. /\ Inline(lx, m) /\ m.ch \in {eol_sym, eof_sym}
      /\ m.process = lx.process /\ m.told = lx.told /\ m.quoted = lx.quoted
  <2>1. CASE lx.ch \in {eol_sym, eof_sym}
    BY <2>1, InlineRefl
  <2>2. CASE lx.ch \notin {eol_sym, eof_sym}
    <3>1. m = ReadTo(lx, {eol_sym})
      BY <2>2
    <3>2. lx.process = "running"
      BY <2>2, StoppedAtEnd
    <3> HIDE DEF m
    <3>3. /\ Later(lx, m) /\ m.ch \in {eol_sym, eof_sym}
          /\ \A q \in DOMAIN text : lx.cursym < q /\ q < Place(m) => text[q] # eol_sym
          /\ m.process = lx.process /\ m.told = lx.told /\ m.quoted = lx.quoted
      BY <3>1, <3>2, ReadToIs
    <3>4. ASSUME NEW q \in DOMAIN text, Place(lx) <= q, q < Place(m) PROVE text[q] # eol_sym
      <4>1. Place(lx) = lx.cursym /\ lx.cursym \in Int /\ q \in Int
        BY <2>2, PlaceType, TextFacts
      <4>2. CASE lx.cursym < q
        BY <3>3, <3>4, <4>2
      <4>3. CASE lx.cursym = q
        <5>1. text[q] = Quote \/ text[q] = lx.ch
          BY <2>2, <4>3, TextFacts DEF Lexers, Placed
        <5> QED BY <2>2, <5>1 DEF Quote, eol_sym
      <4> QED BY <3>4, <4>1, <4>2, <4>3
    <3> QED BY <3>3, <3>4 DEF Inline, Unbroken
  <2> QED BY <2>1, <2>2
<1> HIDE DEF m, t
<1>3. m \in Lexers /\ m.ch \in Symbols \cup {eof_sym}
  BY <1>2, KindsApart DEF Inline, Later
<1>4. /\ t.token.type = IF m.ch = eof_sym THEN "L_EOF" ELSE m.ch
      /\ t.ch = m.ch /\ t.told = m.told /\ t.process = m.process /\ t.quoted = m.quoted
  BY <1>1, <1>3, NextTokSymbol
<1>5. Inline(m, t) /\ AtToken(t)
  BY <1>1, <1>3, NextTokIs
<1> QED BY <1>2, <1>4, <1>5, InlineTrans DEF t

(* From lx the reader has come to the line end at e, or past it.           *)
LineDone(lx, ly) ==
    /\ Later(lx, ly)
    /\ ly.ch # CH_NULL
    /\ ly.process = "running" =>
         \E e \in 1..(Len(text) + 1) :
            /\ Place(lx) <= e
            /\ Unbroken(Place(lx), e, ly)
            /\ e \in DOMAIN text => text[e] = eol_sym /\ e \notin ly.quoted /\ Place(ly) \in {e, e + 1}
            /\ e \notin DOMAIN text => Place(ly) = e

LEMMA LineDoneTrans ==
    ASSUME text \in Source, NEW lx \in Lexers, NEW ly, NEW lz, Inline(lx, ly), LineDone(ly, lz)
    PROVE  LineDone(lx, lz)
<1>1. Later(lx, lz) /\ ly \in Lexers /\ lz \in Lexers
  BY LaterTrans DEF Inline, LineDone, Later
<1>2. ASSUME lz.process = "running"
      PROVE  \E e \in 1..(Len(text) + 1) :
                /\ Place(lx) <= e
                /\ Unbroken(Place(lx), e, lz)
                /\ e \in DOMAIN text => text[e] = eol_sym /\ e \notin lz.quoted /\ Place(lz) \in {e, e + 1}
                /\ e \notin DOMAIN text => Place(lz) = e
  <2>1. PICK e \in 1..(Len(text) + 1) :
                /\ Place(ly) <= e
                /\ Unbroken(Place(ly), e, lz)
                /\ e \in DOMAIN text => text[e] = eol_sym /\ e \notin lz.quoted /\ Place(lz) \in {e, e + 1}
                /\ e \notin DOMAIN text => Place(lz) = e
    BY <1>2 DEF LineDone
  <2>2. ly.process = "running" /\ ly.quoted \subseteq lz.quoted
    BY <1>2 DEF LineDone, Later
  <2>3. Place(lx) <= Place(ly) /\ Unbroken(Place(lx), Place(ly), ly)
    BY <2>2 DEF Inline, Later
  <2>4. e \in Int /\ Place(lx) \in Int /\ Place(ly) \in Int /\ DOMAIN text \subseteq Int
    BY <1>1, PlaceType, TextFacts
  <2>5. Place(lx) <= e /\ Unbroken(Place(lx), e, lz)
    BY <2>1, <2>2, <2>3, <2>4 DEF Unbroken
  <2> QED BY <2>1, <2>5
<1> QED BY <1>1, <1>2 DEF LineDone

(* At the line end, and past it.                                           *)
LEMMA LineDoneHere ==
    ASSUME text \in Source, NEW lx \in Lexers, lx.ch \in {eol_sym, eof_sym}
    PROVE  LineDone(lx, lx) /\ LineDone(lx, skipOne(lx))
<1>1. lx.ch # CH_NULL /\ Place(lx) \in 0..(Len(text) + 1) /\ Len(text) \in Nat
  BY PlaceType, TextFacts DEF CH_NULL, eol_sym, eof_sym
<1>2. Place(lx) \in 1..(Len(text) + 1) /\ (Place(lx) \in DOMAIN text <=> lx.ch = eol_sym)
  <2>1. CASE lx.ch = eof_sym
    BY <1>1, <2>1, PlaceType, TextFacts DEF eol_sym, eof_sym
  <2>2. CASE lx.ch = eol_sym
    <3>1. lx.ch # eof_sym
      BY <2>2 DEF eol_sym, eof_sym
    <3> QED BY <1>1, <2>2, <3>1, AtChar, TextFacts
  <2> QED BY <2>1, <2>2
<1>3. Place(lx) \in DOMAIN text => text[Place(lx)] = eol_sym /\ Place(lx) \notin lx.quoted
  <2> SUFFICES ASSUME Place(lx) \in DOMAIN text PROVE text[Place(lx)] = eol_sym /\ Place(lx) \notin lx.quoted
    OBVIOUS
  <2>1. text[Place(lx)] = eol_sym
    BY <1>1, <1>2, PlaceChar
  <2>2. Place(lx) = lx.cursym /\ lx.cursym \in Int
    BY <1>2, PlaceType, TextFacts DEF eol_sym, eof_sym
  <2>3. Quote # eol_sym
    BY DEF Quote, eol_sym
  <2> QED BY <2>1, <2>2, <2>3 DEF Lexers, Placed
<1>4. \A r : Unbroken(Place(lx), Place(lx), r)
  BY <1>1, TextFacts DEF Unbroken
<1>5. Later(lx, lx)
  BY InlineRefl DEF Inline
<1>6. LineDone(lx, lx)
  BY <1>1, <1>2, <1>3, <1>4, <1>5 DEF LineDone
<1> DEFINE s == skipOne(lx)
<1>7. Later(lx, s) /\ s.ch # CH_NULL /\ s.quoted = lx.quoted
      /\ Place(s) = IF lx.ch = eof_sym THEN Place(lx) ELSE Place(lx) + 1
  BY SkipOneIs
<1> HIDE DEF s
<1>8. eol_sym # eof_sym /\ Place(lx) <= Place(lx)
  BY <1>1 DEF eol_sym, eof_sym
<1>9. LineDone(lx, s)
  BY <1>2, <1>3, <1>4, <1>7, <1>8 DEF LineDone
<1> QED BY <1>6, <1>9 DEF s

LEMMA SkipLineDone ==
    ASSUME text \in Source, NEW lx \in Lexers
    PROVE  /\ LineDone(lx, skipUntil(lx, eol_sym))
           /\ LineDone(lx, skipOne(skipUntil(lx, eol_sym)))
<1> DEFINE t == skipUntil(lx, eol_sym)
<1>1. Inline(lx, t) /\ t \in Lexers /\ t.ch \in {eol_sym, eof_sym}
  BY SkipUntilIs DEF Inline, Later
<1> HIDE DEF t
<1>2. LineDone(t, t) /\ LineDone(t, skipOne(t))
  BY <1>1, LineDoneHere
<1> QED BY <1>1, <1>2, LineDoneTrans DEF t

(* The next statement is reached.                                          *)
Stepped(lx, lf) ==
    /\ Later(lx, lf)
    /\ AtToken(lf)
    /\ lf.process = "running" =>
         \E e \in 1..(Len(text) + 1) :
            /\ Place(lx) <= e
            /\ Unbroken(Place(lx), e, lf)
            /\ \/ lf.token.at = e /\ (e \in DOMAIN text => text[e] = eol_sym)
               \/ /\ e \in DOMAIN text /\ text[e] = eol_sym /\ e \notin lf.quoted
                  /\ e < lf.token.at
                  /\ Spaces(e + 1, lf.token.at)
                  /\ lf.token.at \in DOMAIN text => text[lf.token.at] # Space

LEMMA FollowSteps ==
    ASSUME text \in Source, NEW lx \in Lexers, NEW ly, LineDone(lx, ly)
    PROVE  Stepped(lx, Follow(ly))
<1> DEFINE t == Follow(ly)
<1>1. ly \in Lexers /\ ly.ch # CH_NULL /\ Later(lx, ly)
  BY DEF LineDone, Later
<1>2. Inline(ly, t) /\ AtToken(t)
  BY <1>1, FollowIs
<1>3. t.process = "running" =>
        /\ Place(ly) <= t.token.at
        /\ Spaces(Place(ly), t.token.at)
        /\ t.token.at \in DOMAIN text => text[t.token.at] # Space
  BY <1>1, FollowIs
<1>4. t.process = "running" /\ ly.ch # Space => t.token.at = Place(ly)
  BY <1>1, FollowIs
<1> HIDE DEF t
<1>5. Later(lx, t) /\ t \in Lexers
  BY <1>1, <1>2, LaterTrans DEF Inline, Later
<1>6. ASSUME t.process = "running"
      PROVE  \E e \in 1..(Len(text) + 1) :
                /\ Place(lx) <= e
                /\ Unbroken(Place(lx), e, t)
                /\ \/ t.token.at = e /\ (e \in DOMAIN text => text[e] = eol_sym)
                   \/ /\ e \in DOMAIN text /\ text[e] = eol_sym /\ e \notin t.quoted
                      /\ e < t.token.at
                      /\ Spaces(e + 1, t.token.at)
                      /\ t.token.at \in DOMAIN text => text[t.token.at] # Space
  <2>1. ly.process = "running" /\ ly.quoted \subseteq t.quoted
        /\ \A q \in t.quoted : q \notin ly.quoted => q >= Place(ly)
    BY <1>2, <1>6 DEF Inline, Later
  <2>2. PICK e \in 1..(Len(text) + 1) :
            /\ Place(lx) <= e
            /\ Unbroken(Place(lx), e, ly)
            /\ e \in DOMAIN text => text[e] = eol_sym /\ e \notin ly.quoted /\ Place(ly) \in {e, e + 1}
            /\ e \notin DOMAIN text => Place(ly) = e
    BY <2>1 DEF LineDone
  <2>3. Unbroken(Place(lx), e, t)
    BY <2>1, <2>2 DEF Unbroken
  <2>4. e \in Int /\ Place(ly) \in Int /\ t.token.at \in Int /\ Len(text) \in Nat
    BY <1>1, <1>2, <1>5, PlaceType, AtTokenPlace, TextFacts
  <2>5. CASE Place(ly) = e
    <3>1. t.token.at = e
      <4>1. CASE ly.ch = Space
        <5>1. e \in DOMAIN text
          BY <1>1, <2>5, <4>1, AtChar DEF Space, eof_sym, CH_NULL
        <5>2. text[e] = Space
          BY <1>1, <2>5, <4>1, <5>1, PlaceChar
        <5> QED BY <2>2, <5>1, <5>2 DEF Space, eol_sym
      <4>2. CASE ly.ch # Space
        BY <1>4, <1>6, <2>5, <4>2
      <4> QED BY <4>1, <4>2
    <3> QED BY <2>2, <2>3, <3>1
  <2>6. CASE Place(ly) # e
    <3>1. e \in DOMAIN text /\ text[e] = eol_sym /\ e \notin ly.quoted /\ Place(ly) = e + 1
      BY <2>2, <2>6
    <3>2. e \notin t.quoted /\ e < t.token.at
      BY <1>3, <1>6, <2>1, <2>4, <3>1
    <3> QED BY <1>3, <1>6, <2>2, <2>3, <3>1, <3>2
  <2> QED BY <2>5, <2>6
<1> QED BY <1>2, <1>5, <1>6 DEF Stepped, t

-----------------------------------------------------------------------------
(* The recursion of the expression functions.  What is left of the text    *)
(* bounds it: behind an operator or a parenthesis there is less.           *)
Left(lx) == Len(text) + 1 - Place(lx)

LEMMA LeftType ==
    ASSUME text \in Source, NEW lx \in Lexers
    PROVE  Left(lx) \in Nat /\ Left(lx) < Len(text) + 2
BY PlaceType, TextFacts DEF Left

LEMMA LeftLater ==
    ASSUME text \in Source, NEW lx \in Lexers, NEW ly, Later(lx, ly)
    PROVE  ly \in Lexers /\ Left(ly) <= Left(lx) /\ (Place(lx) < Place(ly) => Left(ly) < Left(lx))
<1>1. ly \in Lexers /\ Place(lx) <= Place(ly)
  BY DEF Later
<1>2. Place(lx) \in Int /\ Place(ly) \in Int /\ Len(text) \in Nat
  BY <1>1, PlaceType, TextFacts
<1> QED BY <1>1, <1>2 DEF Left

Ready == {lx \in Lexers : AtToken(lx)}

LEMMA CallType ==
    ASSUME NEW name \in {"term", "factors", "summands"}, NEW lx \in Ready
    PROVE  Call(name, lx) \in Calls /\ Call(name, lx).of = name /\ Call(name, lx).lexer = lx
BY DEF Call, Calls, Ready

LEMMA CallFields ==
    ASSUME NEW c \in Calls
    PROVE  c.of \in {"term", "factors", "summands"} /\ c.lexer \in Ready /\ c.lexer \in Lexers
BY DEF Calls, Ready

(* What a call gives: the reader has gone on in the line; a loop ends with *)
(* a token.                                                                *)
Good(c, r) ==
    /\ Inline(c.lexer, r.lexer)
    /\ c.of # "term" => AtToken(r.lexer)
    /\ c.of = "term" /\ c.lexer.token.type = "-" => Place(c.lexer) < Place(r.lexer)

GoodBelow(f, n) == \A c \in Calls : Left(c.lexer) < n => Good(c, f[c])
SameBelow(f, g, n) == \A c \in Calls : Left(c.lexer) < n => f[c] = g[c]

(* Of a product and a sum.                                                 *)
Grown(lx, r) ==
    /\ Inline(lx, r.lexer)
    /\ AtToken(r.lexer)
    /\ lx.token.type = "-" => Place(lx) < Place(r.lexer)

LEMMA FollowReady ==
    ASSUME text \in Source, NEW lx \in Lexers
    PROVE  Inline(lx, Follow(lx)) /\ Follow(lx) \in Ready /\ Follow(lx) \in Lexers /\ Left(Follow(lx)) <= Left(lx)
<1>1. Inline(lx, Follow(lx)) /\ AtToken(Follow(lx))
  BY FollowIs
<1> QED BY <1>1, LeftLater DEF Inline, Ready, Later

LEMMA ParsedFields ==
    ASSUME NEW lx, NEW e
    PROVE  Parsed(lx, e).lexer = lx /\ Parsed(lx, e).expr = e
BY DEF Parsed

(* A call, the token behind its result, and the loop from there.           *)
LEMMA CallThenLoop ==
    ASSUME text \in Source, NEW f, NEW g, NEW n \in Nat, GoodBelow(f, n), SameBelow(f, g, n),
           NEW lx \in Lexers, NEW r, Inline(lx, r.lexer), Left(lx) < n,
           NEW loop \in {"factors", "summands"}
    PROVE  LET rest == f[Call(loop, Follow(r.lexer))]
           IN  /\ Inline(lx, rest.lexer)
               /\ Inline(r.lexer, rest.lexer)
               /\ AtToken(rest.lexer)
               /\ g[Call(loop, Follow(r.lexer))] = rest
<1> DEFINE c == Call(loop, Follow(r.lexer))
<1>1. r.lexer \in Lexers /\ Left(r.lexer) <= Left(lx)
  BY LeftLater DEF Inline
<1>2. Inline(r.lexer, Follow(r.lexer)) /\ Follow(r.lexer) \in Ready /\ Follow(r.lexer) \in Lexers
      /\ Left(Follow(r.lexer)) <= Left(r.lexer)
  BY <1>1, FollowReady
<1>3. c \in Calls /\ c.of = loop /\ c.lexer = Follow(r.lexer)
  BY <1>2, CallType
<1>4. Left(c.lexer) < n
  BY <1>1, <1>2, <1>3, LeftType
<1> HIDE DEF c
<1>5. Good(c, f[c]) /\ f[c] = g[c]
  BY <1>3, <1>4 DEF GoodBelow, SameBelow
<1>6. Inline(Follow(r.lexer), f[c].lexer) /\ AtToken(f[c].lexer)
  BY <1>3, <1>5 DEF Good
<1>7. Inline(r.lexer, f[c].lexer)
  BY <1>1, <1>2, <1>6, InlineTrans
<1>8. Inline(lx, f[c].lexer)
  BY <1>7, InlineTrans
<1> QED BY <1>5, <1>6, <1>7, <1>8 DEF c

LEMMA MultiplicationIs ==
    ASSUME text \in Source, NEW f, NEW g, NEW n \in Nat, GoodBelow(f, n), SameBelow(f, g, n),
           NEW lx \in Ready, Left(lx) < n
    PROVE  /\ Grown(lx, Multiplication(f, lx))
           /\ Multiplication(f, lx) = Multiplication(g, lx)
<1> DEFINE c == Call("term", lx)
           r == f[c]
           rest == f[Call("factors", Follow(r.lexer))]
           m == Parsed(rest.lexer, Chain(r.expr, rest.expr))
<1>0. lx \in Lexers
  BY DEF Ready
<1>1. c \in Calls /\ c.of = "term" /\ c.lexer = lx
  BY CallType
<1>2. Good(c, r) /\ g[c] = r
  BY <1>1 DEF GoodBelow, SameBelow
<1>3. Inline(lx, r.lexer) /\ (lx.token.type = "-" => Place(lx) < Place(r.lexer))
  BY <1>1, <1>2 DEF Good
<1>4. Multiplication(f, lx) = m
  BY DEF Multiplication, Then
<1>5. /\ Inline(lx, rest.lexer) /\ AtToken(rest.lexer) /\ Inline(r.lexer, rest.lexer)
      /\ g[Call("factors", Follow(r.lexer))] = rest
  <2> HIDE DEF r
  <2> QED BY <1>0, <1>3, CallThenLoop
<1>6. Multiplication(g, lx) = m
  BY <1>2, <1>5 DEF Multiplication, Then
<1>7. Place(lx) \in Int /\ Place(r.lexer) \in Int /\ Place(rest.lexer) \in Int
      /\ Place(r.lexer) <= Place(rest.lexer)
  <2>1. r.lexer \in Lexers /\ rest.lexer \in Lexers /\ Place(r.lexer) <= Place(rest.lexer)
    BY <1>3, <1>5 DEF Inline, Later
  <2> QED BY <1>0, <2>1, PlaceType
<1> HIDE DEF r, rest
<1>8. m.lexer = rest.lexer
  BY ParsedFields
<1> HIDE DEF m
<1> QED BY <1>3, <1>4, <1>5, <1>6, <1>7, <1>8 DEF Grown

LEMMA AdditionIs ==
    ASSUME text \in Source, NEW f, NEW g, NEW n \in Nat, GoodBelow(f, n), SameBelow(f, g, n),
           NEW lx \in Ready, Left(lx) < n
    PROVE  /\ Grown(lx, Addition(f, lx))
           /\ Addition(f, lx) = Addition(g, lx)
<1> DEFINE r == Multiplication(f, lx)
           rest == f[Call("summands", Follow(r.lexer))]
           m == Parsed(rest.lexer, Chain(r.expr, rest.expr))
<1>0. lx \in Lexers
  BY DEF Ready
<1>2. Grown(lx, r) /\ Multiplication(g, lx) = r
  BY MultiplicationIs
<1>3. Inline(lx, r.lexer) /\ (lx.token.type = "-" => Place(lx) < Place(r.lexer))
  BY <1>2 DEF Grown
<1>4. Addition(f, lx) = m
  BY DEF Addition, Then
<1>5. /\ Inline(lx, rest.lexer) /\ AtToken(rest.lexer) /\ Inline(r.lexer, rest.lexer)
      /\ g[Call("summands", Follow(r.lexer))] = rest
  <2> HIDE DEF r
  <2> QED BY <1>0, <1>3, CallThenLoop
<1>6. Addition(g, lx) = m
  BY <1>2, <1>5 DEF Addition, Then
<1>7. Place(lx) \in Int /\ Place(r.lexer) \in Int /\ Place(rest.lexer) \in Int
      /\ Place(r.lexer) <= Place(rest.lexer)
  <2>1. r.lexer \in Lexers /\ rest.lexer \in Lexers /\ Place(r.lexer) <= Place(rest.lexer)
    BY <1>3, <1>5 DEF Inline, Later
  <2> QED BY <1>0, <2>1, PlaceType
<1> HIDE DEF r, rest
<1>8. m.lexer = rest.lexer
  BY ParsedFields
<1> HIDE DEF m
<1> QED BY <1>3, <1>4, <1>5, <1>6, <1>7, <1>8 DEF Grown

(* Behind an operator.                                                     *)
LEMMA PassOperator ==
    ASSUME text \in Source, NEW lx \in Ready, lx.token.type \in Symbols \ {eol_sym}
    PROVE  /\ Inline(lx, Pass(lx)) /\ Pass(lx) \in Ready /\ Pass(lx) \in Lexers
           /\ Left(Pass(lx)) < Left(lx) /\ Place(lx) < Place(Pass(lx))
<1>1. lx \in Lexers /\ AtToken(lx)
  BY DEF Ready
<1>2. lx.ch # eol_sym /\ lx.ch # eof_sym
  BY <1>1, SymbolTokenIs, KindsApart
<1>3. Inline(lx, Pass(lx)) /\ AtToken(Pass(lx)) /\ Pass(lx) \in Lexers /\ Place(lx) < Place(Pass(lx))
  BY <1>1, <1>2, PassIs
<1> QED BY <1>1, <1>3, LeftLater DEF Ready, Inline

Operators == {"+", "-", "*", "(", ")"}

LEMMA OperatorSymbols == Operators \subseteq Symbols \ {eol_sym}
BY DEF Operators, Symbols, eol_sym

LEMMA TermIs ==
    ASSUME text \in Source, NEW f, NEW g, NEW n \in Nat, GoodBelow(f, n), SameBelow(f, g, n),
           NEW lx \in Ready, Left(lx) < n + 1
    PROVE  /\ Inline(lx, Term(f, lx).lexer)
           /\ lx.token.type = "-" => Place(lx) < Place(Term(f, lx).lexer)
           /\ Term(f, lx) = Term(g, lx)
<1> DEFINE type == lx.token.type
           next == Pass(lx)
<1>0. lx \in Lexers /\ AtToken(lx)
  BY DEF Ready
<1>1. CASE type \in {"-", "("}
  <2>1. /\ Inline(lx, next) /\ next \in Ready /\ next \in Lexers
        /\ Left(next) < Left(lx) /\ Place(lx) < Place(next)
    BY <1>1, PassOperator, OperatorSymbols DEF Operators
  <2>2. Left(next) < n
    BY <1>0, <2>1, LeftType
  <2>3. CASE type = "-"
    <3> DEFINE c == Call("term", next)
               m == Parsed(f[c].lexer, Math("-", Const(0), f[c].expr))
    <3>1. c \in Calls /\ c.lexer = next
      BY <2>1, CallType
    <3>2. Good(c, f[c]) /\ g[c] = f[c]
      BY <2>2, <3>1 DEF GoodBelow, SameBelow
    <3>3. Term(f, lx) = Negation(f, lx) /\ Term(g, lx) = Negation(g, lx)
      BY <2>3 DEF Term
    <3>4. Negation(f, lx) = m /\ Negation(g, lx) = m
      BY <3>2 DEF Negation, Then
    <3>5. m.lexer = f[c].lexer
      BY ParsedFields
    <3> HIDE DEF m, c
    <3>6. Inline(next, m.lexer) /\ Place(next) <= Place(m.lexer) /\ m.lexer \in Lexers
      BY <3>1, <3>2, <3>5 DEF Good, Inline, Later
    <3>7. Place(lx) < Place(m.lexer)
      BY <1>0, <2>1, <3>6, PlaceType
    <3> QED BY <1>0, <2>1, <3>3, <3>4, <3>6, <3>7, InlineTrans
  <2>4. CASE type = "("
    <3> DEFINE r == Addition(f, next)
               m == Parsed(IF r.lexer.token.type = ")" THEN skipOne(r.lexer) ELSE Tell(r.lexer), r.expr)
    <3>1. Grown(next, r) /\ Addition(g, next) = r
      BY <2>1, <2>2, AdditionIs
    <3>2. Term(f, lx) = Parenthesis(f, lx) /\ Term(g, lx) = Parenthesis(g, lx)
      BY <2>4 DEF Term
    <3>3. Parenthesis(f, lx) = m /\ Parenthesis(g, lx) = m
      BY <3>1 DEF Parenthesis, Then
    <3>4. m.lexer = IF r.lexer.token.type = ")" THEN skipOne(r.lexer) ELSE Tell(r.lexer)
      BY ParsedFields
    <3> HIDE DEF m, r
    <3>5. Inline(next, r.lexer) /\ AtToken(r.lexer) /\ r.lexer \in Lexers
      BY <3>1 DEF Grown, Inline, Later
    <3>6. Inline(r.lexer, m.lexer)
      <4>1. CASE r.lexer.token.type = ")"
        <5>1. r.lexer.ch # eol_sym
          BY <3>5, <4>1, SymbolTokenIs, OperatorSymbols DEF Operators
        <5> QED BY <3>4, <3>5, <4>1, <5>1, SkipOneInline
      <4>2. CASE r.lexer.token.type # ")"
        BY <3>4, <3>5, <4>2, TellIs
      <4> QED BY <4>1, <4>2
    <3> QED BY <1>0, <2>1, <2>4, <3>2, <3>3, <3>5, <3>6, InlineTrans
  <2> QED BY <1>1, <2>3, <2>4
<1>2. CASE type \in {"TOK_NUM", "TOK_IDENT"}
  <2>1. Term(f, lx) = Term(g, lx) /\ Term(f, lx).lexer = lx
    BY <1>2, ParsedFields DEF Term
  <2> QED BY <1>0, <1>2, <2>1, InlineRefl
<1>3. CASE type \notin {"-", "(", "TOK_NUM", "TOK_IDENT"}
  <2>1. Term(f, lx) = Parsed(Tell(lx), Const(0)) /\ Term(g, lx) = Parsed(Tell(lx), Const(0))
    BY <1>3 DEF Term
  <2>2. Term(f, lx) = Term(g, lx) /\ Term(f, lx).lexer = Tell(lx)
    BY <2>1, ParsedFields
  <2> QED BY <1>0, <1>3, <2>2, TellIs
<1> QED BY <1>1, <1>2, <1>3

LEMMA FactorsIs ==
    ASSUME text \in Source, NEW f, NEW g, NEW n \in Nat, GoodBelow(f, n), SameBelow(f, g, n),
           NEW lx \in Ready, Left(lx) < n + 1
    PROVE  /\ Inline(lx, Factors(f, lx).lexer)
           /\ AtToken(Factors(f, lx).lexer)
           /\ Factors(f, lx) = Factors(g, lx)
<1> DEFINE next == Pass(lx)
           c == Call("term", next)
           r == f[c]
           rest == f[Call("factors", Follow(r.lexer))]
           m == Parsed(rest.lexer, <<[op |-> "*", expr |-> r.expr]>> \o rest.expr)
<1>0. lx \in Lexers /\ AtToken(lx)
  BY DEF Ready
<1>1. CASE lx.token.type # "*"
  <2>1. Factors(f, lx) = Parsed(lx, <<>>) /\ Factors(g, lx) = Parsed(lx, <<>>)
    BY <1>1 DEF Factors
  <2> QED BY <1>0, <2>1, ParsedFields, InlineRefl
<1>2. CASE lx.token.type = "*"
  <2>1. /\ Inline(lx, next) /\ next \in Ready /\ next \in Lexers
        /\ Left(next) < Left(lx) /\ Place(lx) < Place(next)
    BY <1>2, PassOperator, OperatorSymbols DEF Operators
  <2>2. Left(next) < n
    BY <1>0, <2>1, LeftType
  <2>3. c \in Calls /\ c.lexer = next
    BY <2>1, CallType
  <2>4. Good(c, r) /\ g[c] = r
    BY <2>2, <2>3 DEF GoodBelow, SameBelow
  <2>5. Factors(f, lx) = m
    BY <1>2 DEF Factors, Appended, Then
  <2>6. Inline(next, r.lexer)
    BY <2>3, <2>4 DEF Good
  <2>7. Inline(next, rest.lexer) /\ AtToken(rest.lexer) /\ g[Call("factors", Follow(r.lexer))] = rest
    <3> HIDE DEF r, next
    <3> QED BY <2>1, <2>2, <2>6, CallThenLoop
  <2>8. Factors(g, lx) = m
    BY <1>2, <2>4, <2>7 DEF Factors, Appended, Then
  <2>9. m.lexer = rest.lexer
    BY ParsedFields
  <2> HIDE DEF m, rest
  <2> QED BY <1>0, <2>1, <2>5, <2>7, <2>8, <2>9, InlineTrans
<1> QED BY <1>1, <1>2

LEMMA SummandsIs ==
    ASSUME text \in Source, NEW f, NEW g, NEW n \in Nat, GoodBelow(f, n), SameBelow(f, g, n),
           NEW lx \in Ready, Left(lx) < n + 1
    PROVE  /\ Inline(lx, Summands(f, lx).lexer)
           /\ AtToken(Summands(f, lx).lexer)
           /\ Summands(f, lx) = Summands(g, lx)
<1> DEFINE next == Pass(lx)
           r == Multiplication(f, next)
           rest == f[Call("summands", Follow(r.lexer))]
           m == Parsed(rest.lexer, <<[op |-> lx.token.type, expr |-> r.expr]>> \o rest.expr)
<1>0. lx \in Lexers /\ AtToken(lx)
  BY DEF Ready
<1>1. CASE lx.token.type \notin {"+", "-"}
  <2>1. Summands(f, lx) = Parsed(lx, <<>>) /\ Summands(g, lx) = Parsed(lx, <<>>)
    BY <1>1 DEF Summands
  <2> QED BY <1>0, <2>1, ParsedFields, InlineRefl
<1>2. CASE lx.token.type \in {"+", "-"}
  <2>1. /\ Inline(lx, next) /\ next \in Ready /\ next \in Lexers
        /\ Left(next) < Left(lx) /\ Place(lx) < Place(next)
    BY <1>2, PassOperator, OperatorSymbols DEF Operators
  <2>2. Left(next) < n
    BY <1>0, <2>1, LeftType
  <2>4. Grown(next, r) /\ Multiplication(g, next) = r
    BY <2>1, <2>2, MultiplicationIs
  <2>5. Summands(f, lx) = m
    BY <1>2 DEF Summands, Appended, Then
  <2>6. Inline(next, r.lexer)
    BY <2>4 DEF Grown
  <2>7. Inline(next, rest.lexer) /\ AtToken(rest.lexer) /\ g[Call("summands", Follow(r.lexer))] = rest
    <3> HIDE DEF r, next
    <3> QED BY <2>1, <2>2, <2>6, CallThenLoop
  <2>8. Summands(g, lx) = m
    BY <1>2, <2>4, <2>7 DEF Summands, Appended, Then
  <2>9. m.lexer = rest.lexer
    BY ParsedFields
  <2> HIDE DEF m, rest
  <2> QED BY <1>0, <2>1, <2>5, <2>7, <2>8, <2>9, InlineTrans
<1> QED BY <1>1, <1>2

LEMMA BodyIs ==
    ASSUME text \in Source, NEW f, NEW g, NEW n \in Nat, GoodBelow(f, n), SameBelow(f, g, n),
           NEW c \in Calls, Left(c.lexer) < n + 1
    PROVE  Good(c, Body(f, c)) /\ Body(f, c) = Body(g, c)
<1>0. c.of \in {"term", "factors", "summands"} /\ c.lexer \in Ready
  BY CallFields
<1>1. CASE c.of = "term"
  <2>1. Body(f, c) = Term(f, c.lexer) /\ Body(g, c) = Term(g, c.lexer)
    BY <1>1 DEF Body
  <2> QED BY <1>0, <1>1, <2>1, TermIs DEF Good
<1>2. CASE c.of = "factors"
  <2>1. Body(f, c) = Factors(f, c.lexer) /\ Body(g, c) = Factors(g, c.lexer)
    BY <1>2 DEF Body
  <2> QED BY <1>0, <1>2, <2>1, FactorsIs DEF Good
<1>3. CASE c.of = "summands"
  <2>1. Body(f, c) = Summands(f, c.lexer) /\ Body(g, c) = Summands(g, c.lexer)
    BY <1>3 DEF Body
  <2> QED BY <1>0, <1>3, <2>1, SummandsIs DEF Good
<1> QED BY <1>0, <1>1, <1>2, <1>3

(* g is what parse should be, for calls with less than n left.             *)
SolvesBelow(g, n) ==
    /\ g = [c \in Calls |-> g[c]]
    /\ \A c \in Calls : Left(c.lexer) < n => g[c] = Body(g, c)

LEMMA SolutionGood ==
    ASSUME text \in Source, NEW g, NEW n \in Nat, SolvesBelow(g, n)
    PROVE  GoodBelow(g, n)
<1> DEFINE T == {m \in Nat : m <= n => GoodBelow(g, m)}
<1>1. 0 \in T
  <2>1. \A c \in Calls : ~(Left(c.lexer) < 0)
    BY CallFields, LeftType
  <2> QED BY <2>1 DEF GoodBelow
<1>2. ASSUME NEW m \in Nat, m \in T PROVE m + 1 \in T
  <2> SUFFICES ASSUME m + 1 <= n PROVE GoodBelow(g, m + 1)
    OBVIOUS
  <2>1. GoodBelow(g, m) /\ SameBelow(g, g, m)
    BY <1>2 DEF SameBelow
  <2>2. ASSUME NEW c \in Calls, Left(c.lexer) < m + 1 PROVE Good(c, g[c])
    <3>1. Good(c, Body(g, c))
      BY <2>1, <2>2, BodyIs
    <3>2. Left(c.lexer) \in Nat
      BY CallFields, LeftType
    <3>3. Left(c.lexer) < n
      BY <2>2, <3>2
    <3> QED BY <3>1, <3>3 DEF SolvesBelow
  <2> QED BY <2>2 DEF GoodBelow
<1>3. \A m \in Nat : m \in T
  <2> HIDE DEF T
  <2> QED BY <1>1, <1>2, NatSetInduction
<1> QED BY <1>3

LEMMA SolutionExists ==
    ASSUME text \in Source
    PROVE  \E g : SolvesBelow(g, Len(text) + 2)
<1> DEFINE T == {n \in Nat : \E g : SolvesBelow(g, n)}
<1>1. 0 \in T
  <2> DEFINE g == [c \in Calls |-> 0]
  <2>1. \A c \in Calls : ~(Left(c.lexer) < 0)
    BY CallFields, LeftType
  <2>2. g = [c \in Calls |-> g[c]]
    OBVIOUS
  <2> HIDE DEF g
  <2> QED BY <2>1, <2>2 DEF SolvesBelow
<1>2. ASSUME NEW n \in Nat, n \in T PROVE n + 1 \in T
  <2>1. PICK g : SolvesBelow(g, n)
    BY <1>2
  <2> DEFINE h == [c \in Calls |-> IF Left(c.lexer) < n THEN g[c] ELSE Body(g, c)]
  <2>2. GoodBelow(g, n)
    BY <2>1, SolutionGood
  <2>3. SameBelow(g, h, n)
    BY DEF SameBelow
  <2>4. h = [c \in Calls |-> h[c]]
    OBVIOUS
  <2>5. ASSUME NEW c \in Calls, Left(c.lexer) < n + 1 PROVE h[c] = Body(h, c)
    <3>1. Body(g, c) = Body(h, c)
      <4> HIDE DEF h
      <4> QED BY <2>2, <2>3, <2>5, BodyIs
    <3>2. h[c] = Body(g, c)
      BY <2>1 DEF SolvesBelow
    <3> QED BY <3>1, <3>2
  <2> HIDE DEF h
  <2>6. SolvesBelow(h, n + 1)
    BY <2>4, <2>5 DEF SolvesBelow
  <2> QED BY <2>6
<1>3. \A n \in Nat : n \in T
  <2> HIDE DEF T
  <2> QED BY <1>1, <1>2, NatSetInduction
<1>4. Len(text) + 2 \in Nat
  BY TextFacts
<1> QED BY <1>3, <1>4

(* The functions call each other as the code has them do, and every call   *)
(* returns further on in the line.                                         *)
LEMMA ParseIs ==
    ASSUME text \in Source
    PROVE  SolvesBelow(parse, Len(text) + 2)
<1> DEFINE Solution(g) == g = [c \in Calls |-> Body(g, c)]
<1>1. PICK g : SolvesBelow(g, Len(text) + 2)
  BY SolutionExists
<1>2. \A c \in Calls : Left(c.lexer) < Len(text) + 2
  BY CallFields, LeftType
<1>3. \A c \in Calls : g[c] = Body(g, c)
  BY <1>1, <1>2 DEF SolvesBelow
<1>4. Solution(g)
  BY <1>1, <1>3 DEF SolvesBelow
<1>5. parse = CHOOSE p : Solution(p)
  BY DEF parse
<1>6. Solution(parse)
  <2> HIDE DEF Solution
  <2> QED BY <1>4, <1>5
<1>7. \A c \in Calls : parse[c] = Body(parse, c)
  BY <1>6
<1>8. parse = [c \in Calls |-> parse[c]]
  BY <1>6, <1>7
<1> QED BY <1>7, <1>8 DEF SolvesBelow

LEMMA ParseGood ==
    ASSUME text \in Source
    PROVE  GoodBelow(parse, Len(text) + 2)
<1>1. Len(text) + 2 \in Nat
  BY TextFacts
<1> QED BY <1>1, ParseIs, SolutionGood

LEMMA ParseAdditionIs ==
    ASSUME text \in Source, NEW lx \in Ready
    PROVE  Grown(lx, parse_addition(lx))
<1>1. Len(text) + 2 \in Nat /\ Left(lx) < Len(text) + 2
  BY TextFacts, LeftType DEF Ready
<1>2. GoodBelow(parse, Len(text) + 2) /\ SameBelow(parse, parse, Len(text) + 2)
  BY ParseGood DEF SameBelow
<1> QED BY <1>1, <1>2, AdditionIs DEF parse_addition

-----------------------------------------------------------------------------
(* Operands.                                                               *)

LEMMA OperandIs ==
    ASSUME text \in Source, NEW lx \in Ready
    PROVE  /\ Inline(lx, Operand(lx).lexer)
           /\ Operand(lx).lexer.process = "running" /\ lx.token.type # "("
                 => lx.token.at < Place(Operand(lx).lexer)
<1> DEFINE o == Operand(lx)
<1>0. lx \in Lexers /\ AtToken(lx) /\ lx.token.kind \in Kinds
  BY AtTokenPlace DEF Ready
<1>1. CASE lx.token.kind = "REG"
  <2>1. lx.token.type \notin {"(", "-"}
    BY <1>0, <1>1, SymbolTokenIs, OperatorSymbols DEF Operators
  <2>2. o = Parsed(lx, Register(lx.token.type))
    BY <1>1, <2>1 DEF Operand
  <2>3. o.lexer = lx
    BY <2>2, ParsedFields
  <2> QED BY <1>0, <1>1, <2>3, InlineRefl, AtTokenPlace
<1>2. CASE lx.token.kind # "REG" /\ (lx.token.kind \in {"VAR", "CONST"} \/ lx.token.type \in {"(", "-"})
  <2>1. o = parse_addition(lx)
    BY <1>2 DEF Operand
  <2>2. Grown(lx, o)
    BY <2>1, ParseAdditionIs
  <2> HIDE DEF o
  <2>3. Inline(lx, o.lexer) /\ o.lexer \in Lexers /\ Place(lx) <= Place(o.lexer)
        /\ (lx.token.type = "-" => Place(lx) < Place(o.lexer))
    BY <2>2 DEF Grown, Inline, Later
  <2>4. lx.token.at \in Int /\ Place(lx) \in Int /\ Place(o.lexer) \in Int /\ lx.token.at <= Place(lx)
    BY <1>0, <2>3, AtTokenPlace, PlaceType
  <2>5. lx.token.kind \in {"VAR", "CONST"} => lx.token.at < Place(lx)
    BY <1>0, AtTokenPlace
  <2> QED BY <1>2, <2>3, <2>4, <2>5 DEF o
<1>3. CASE ~(lx.token.kind = "REG" \/ lx.token.kind \in {"VAR", "CONST"} \/ lx.token.type \in {"(", "-"})
  <2>1. o = Parsed(Exit(lx), NoExpr)
    BY <1>3 DEF Operand
  <2>2. o.lexer = Exit(lx)
    BY <2>1, ParsedFields
  <2> HIDE DEF o
  <2> QED BY <1>0, <2>2, ExitIs DEF o
<1> QED BY <1>1, <1>2, <1>3

LEMMA SkipSpaces ==
    ASSUME text \in Source, NEW lx \in Lexers, NEW c \in {Space, ","}
    PROVE  Inline(lx, skipWhile(lx, c)) /\ skipWhile(lx, c) \in Lexers
           /\ skipWhile(lx, c).process = lx.process
<1>1. c # eof_sym /\ c # CH_NULL /\ c # eol_sym
  BY DEF Space, eof_sym, CH_NULL, eol_sym
<1> QED BY <1>1, SkipWhileInline, SkipWhileIs DEF Later

LEMMA ParamIs ==
    ASSUME text \in Source, NEW lx \in Ready
    PROVE  LET p == parse_param(lx)
           IN  /\ Inline(lx, p.lexer)
               /\ p.lexer \in Lexers
               /\ p.lexer.process = "running" /\ lx.token.type # "(" => lx.token.at < Place(p.lexer)
<1> DEFINE o == Operand(lx)
           p == parse_param(lx)
<1>0. lx \in Lexers /\ AtToken(lx)
  BY DEF Ready
<1>1. p = Parsed(skipWhile(o.lexer, Space), o.expr)
  BY DEF parse_param, Then
<1>2. p.lexer = skipWhile(o.lexer, Space)
  BY <1>1, ParsedFields
<1>3. /\ Inline(lx, o.lexer) /\ o.lexer \in Lexers
      /\ o.lexer.process = "running" /\ lx.token.type # "(" => lx.token.at < Place(o.lexer)
  BY OperandIs DEF Inline, Later
<1> HIDE DEF o, p
<1>4. Inline(o.lexer, p.lexer) /\ p.lexer \in Lexers /\ p.lexer.process = o.lexer.process
      /\ Place(o.lexer) <= Place(p.lexer)
  <2>1. Inline(o.lexer, p.lexer) /\ p.lexer \in Lexers /\ p.lexer.process = o.lexer.process
    BY <1>2, <1>3, SkipSpaces
  <2> QED BY <2>1 DEF Inline, Later
<1>5. lx.token.at \in Int /\ Place(o.lexer) \in Int /\ Place(p.lexer) \in Int
  BY <1>0, <1>3, <1>4, AtTokenPlace, PlaceType
<1> QED BY <1>0, <1>3, <1>4, <1>5, InlineTrans DEF p

-----------------------------------------------------------------------------
(* Instructions.                                                           *)
IsSeq(ns) == \E S : ns \in Seq(S)

LEMMA EmptyIsSeq == IsSeq(<<>>)
<1>1. <<>> \in Seq({})
  OBVIOUS
<1> QED BY <1>1 DEF IsSeq

LEMMA OneIsSeq ==
    ASSUME NEW x
    PROVE  IsSeq(<<x>>)
<1>1. <<x>> \in Seq({x})
  OBVIOUS
<1> QED BY <1>1 DEF IsSeq

LEMMA ConcatIsSeq ==
    ASSUME NEW a, NEW b, IsSeq(a), IsSeq(b)
    PROVE  IsSeq(a \o b)
<1>1. PICK S : a \in Seq(S)
  BY DEF IsSeq
<1>2. PICK T : b \in Seq(T)
  BY DEF IsSeq
<1>3. a \in Seq(S \cup T) /\ b \in Seq(S \cup T)
  BY <1>1, <1>2
<1>4. a \o b \in Seq(S \cup T)
  BY <1>3, ConcatProperties
<1> QED BY <1>4 DEF IsSeq

LEMMA MadeFields ==
    ASSUME NEW lx, NEW ns
    PROVE  Made(lx, ns).lexer = lx /\ Made(lx, ns).nodes = ns
BY DEF Made

LEMMA StringBytesIs ==
    ASSUME text \in Source, NEW lx \in Ready, lx.token.kind = "STRING"
    PROVE  LET m == StringBytes(lx)
           IN  /\ Inline(lx, m.lexer)
               /\ lx.token.at < Place(m.lexer)
               /\ IsSeq(m.nodes)
<1> DEFINE n == IF Len(lx.token.ident) < MAX_VAR_COUNT THEN Len(lx.token.ident) ELSE MAX_VAR_COUNT
           F(i) == Instruction("DB", Const(Code(lx.token.ident[i])), NoExpr)
           m == StringBytes(lx)
<1>0. lx \in Lexers /\ AtToken(lx) /\ lx.token \in Tokens
  BY DEF Ready, Lexers
<1>1. n \in Nat
  <2>1. lx.token.ident \in Seq(Chars \cup {eof_sym})
    BY <1>0 DEF Tokens
  <2>2. Len(lx.token.ident) \in Nat
    BY <2>1, LenProperties
  <2> QED BY <2>2, MaxVarAssumption
<1>2. m = Made(skipOne(lx), [i \in 1..n |-> F(i)])
  BY DEF StringBytes
<1> HIDE DEF n
<1>3. m.lexer = skipOne(lx) /\ m.nodes = [i \in 1..n |-> F(i)]
  BY <1>2, MadeFields
<1>4. IsSeq([i \in 1..n |-> F(i)])
  <2> DEFINE S == {F(i) : i \in 1..n}
  <2>1. \A i \in 1..n : F(i) \in S
    OBVIOUS
  <2> HIDE DEF F, S
  <2>2. [i \in 1..n |-> F(i)] \in Seq(S)
    BY <1>1, <2>1
  <2> QED BY <2>2 DEF IsSeq
<1> HIDE DEF m
<1>5. lx.token.at < Place(lx) /\ lx.ch = Quote
  BY <1>0, AtTokenPlace
<1>6. lx.ch # eol_sym
  BY <1>5 DEF Quote, eol_sym
<1>7. Inline(lx, m.lexer) /\ m.lexer \in Lexers /\ Place(lx) <= Place(m.lexer)
  BY <1>0, <1>3, <1>6, SkipOneInline DEF Inline, Later
<1>8. lx.token.at \in Int /\ Place(lx) \in Int /\ Place(m.lexer) \in Int
  BY <1>0, <1>7, AtTokenPlace, PlaceType
<1> QED BY <1>3, <1>4, <1>5, <1>7, <1>8 DEF m

LEMMA DataItemIs ==
    ASSUME text \in Source, NEW op \in {"DB", "DW"}, NEW lx \in Ready
    PROVE  LET m == DataItem(op, lx)
           IN  /\ Inline(lx, m.lexer)
               /\ IsSeq(m.nodes)
               /\ m.nodes # <<>> => lx.token.at < Place(m.lexer)
<1> DEFINE m == DataItem(op, lx)
<1>0. lx \in Lexers /\ AtToken(lx)
  BY DEF Ready
<1>1. CASE lx.token.kind = "STRING" /\ op = "DB"
  <2>1. m = StringBytes(lx)
    BY <1>1 DEF DataItem
  <2> QED BY <1>1, <2>1, StringBytesIs
<1>2. CASE ~(lx.token.kind = "STRING" /\ op = "DB") /\ lx.token.kind = "SYM" /\ lx.token.type # "-"
  <2>1. m = Made(lx, <<>>)
    BY <1>2 DEF DataItem
  <2> QED BY <1>0, <2>1, MadeFields, InlineRefl, EmptyIsSeq
<1>3. CASE ~(lx.token.kind = "STRING" /\ op = "DB") /\ ~(lx.token.kind = "SYM" /\ lx.token.type # "-")
  <2> DEFINE p == parse_param(lx)
             ns == IF p.lexer.process # "running" THEN <<>> ELSE <<Instruction(op, p.expr, NoExpr)>>
  <2>1. m = Made(p.lexer, ns)
    BY <1>3 DEF DataItem, Then
  <2> HIDE DEF p
  <2>2. m.lexer = p.lexer /\ m.nodes = ns
    BY <2>1, MadeFields
  <2>3. IsSeq(ns)
    BY EmptyIsSeq, OneIsSeq
  <2>4. ns # <<>> => p.lexer.process = "running"
    OBVIOUS
  <2> HIDE DEF ns
  <2>5. lx.token.type # "("
    BY <1>0, <1>3, SymbolTokenIs, OperatorSymbols DEF Operators
  <2> QED BY <2>2, <2>3, <2>4, <2>5, ParamIs DEF p
<1> QED BY <1>1, <1>2, <1>3

(* The list recurs like the expressions do; each item takes a token.       *)
LeftAt(lx) == Len(text) + 1 - lx.token.at

LEMMA LeftAtType ==
    ASSUME text \in Source, NEW lx \in Ready
    PROVE  LeftAt(lx) \in Nat /\ LeftAt(lx) < Len(text) + 2
BY AtTokenPlace, TextFacts DEF LeftAt, Ready

ListGood(c, r) == Inline(c.lexer, r.lexer) /\ IsSeq(r.nodes)
ListGoodBelow(f, n) == \A c \in Lists : LeftAt(c.lexer) < n => ListGood(c, f[c])
ListSameBelow(f, g, n) == \A c \in Lists : LeftAt(c.lexer) < n => f[c] = g[c]

LEMMA ListFields ==
    ASSUME NEW c \in Lists
    PROVE  c.op \in {"DB", "DW"} /\ c.lexer \in Ready
BY DEF Lists, Ready

LEMMA ListBodyIs ==
    ASSUME text \in Source, NEW f, NEW g, NEW n \in Nat, ListGoodBelow(f, n), ListSameBelow(f, g, n),
           NEW c \in Lists, LeftAt(c.lexer) < n + 1
    PROVE  ListGood(c, ListBody(f, c)) /\ ListBody(f, c) = ListBody(g, c)
<1> DEFINE item == DataItem(c.op, c.lexer)
           behind == skipWhile(item.lexer, ",")
           next == Follow(behind)
           d == [op |-> c.op, lexer |-> next]
           rest == f[d]
           m == Made(rest.lexer, item.nodes \o rest.nodes)
<1>0. c.op \in {"DB", "DW"} /\ c.lexer \in Ready /\ c.lexer \in Lexers /\ AtToken(c.lexer)
  BY ListFields DEF Ready
<1>1. /\ Inline(c.lexer, item.lexer) /\ IsSeq(item.nodes)
      /\ item.nodes # <<>> => c.lexer.token.at < Place(item.lexer)
  BY <1>0, DataItemIs
<1>2. CASE item.nodes = <<>>
  <2>1. ListBody(f, c) = item /\ ListBody(g, c) = item
    BY <1>2 DEF ListBody, Then
  <2> QED BY <1>1, <2>1 DEF ListGood
<1>3. CASE item.nodes # <<>>
  <2>1. ListBody(f, c) = m
    BY <1>3 DEF ListBody, Then
  <2>2. ListBody(g, c) = Made(g[d].lexer, item.nodes \o g[d].nodes)
    BY <1>3 DEF ListBody, Then
  <2> HIDE DEF item
  <2>3. item.lexer \in Lexers /\ c.lexer.token.at < Place(item.lexer)
    BY <1>1, <1>3 DEF Inline, Later
  <2>4. Inline(item.lexer, behind) /\ behind \in Lexers /\ Place(item.lexer) <= Place(behind)
    BY <2>3, SkipSpaces DEF Inline, Later
  <2> HIDE DEF behind
  <2>5. Inline(behind, next) /\ next \in Ready /\ next \in Lexers /\ AtToken(next)
        /\ Place(behind) <= Place(next)
    BY <2>4, FollowReady DEF Ready, Inline, Later
  <2>6. next.process = "running" => Place(behind) <= next.token.at
    <3>1. next.process = "running" /\ behind.ch = CH_NULL => next.token.at = Place(behind) + 1
      BY <2>4, FollowIs
    <3>2. next.process = "running" /\ behind.ch # CH_NULL => Place(behind) <= next.token.at
      BY <2>4, FollowIs
    <3>3. Place(behind) \in Int
      BY <2>4, PlaceType
    <3> HIDE DEF next
    <3> QED BY <3>1, <3>2, <3>3
  <2>7. next.process # "running" => next.token.at = Len(text) + 1
    <3> HIDE DEF next
    <3> QED BY <2>5, StoppedAtEnd, EofTokenType
  <2> HIDE DEF next
  <2>8. /\ Place(item.lexer) \in 0..(Len(text) + 1) /\ Place(behind) \in 0..(Len(text) + 1)
        /\ c.lexer.token.at \in Int /\ next.token.at \in Int /\ Len(text) \in Nat
    BY <1>0, <2>3, <2>4, <2>5, PlaceType, AtTokenPlace, TextFacts
  <2>9. c.lexer.token.at < next.token.at
    BY <2>3, <2>4, <2>6, <2>7, <2>8
  <2>10. d \in Lists /\ d.lexer = next /\ d.op = c.op
    BY <1>0, <2>5 DEF Lists, Ready
  <2>11. LeftAt(next) < n
    BY <2>8, <2>9, SMTT(30) DEF LeftAt
  <2> HIDE DEF d
  <2>12. ListGood(d, rest) /\ g[d] = rest
    BY <2>10, <2>11 DEF ListGoodBelow, ListSameBelow
  <2> HIDE DEF rest
  <2>13. m.lexer = rest.lexer /\ m.nodes = item.nodes \o rest.nodes
    BY MadeFields
  <2>14. IsSeq(m.nodes)
    BY <1>1, <2>12, <2>13, ConcatIsSeq DEF ListGood
  <2>15. ListBody(g, c) = m
    BY <2>2, <2>12
  <2> HIDE DEF m
  <2>16. Inline(next, m.lexer)
    BY <2>10, <2>12, <2>13 DEF ListGood
  <2>17. Inline(c.lexer, behind)
    BY <1>0, <1>1, <2>4, InlineTrans
  <2>18. Inline(c.lexer, next)
    BY <1>0, <2>5, <2>17, InlineTrans
  <2>19. Inline(c.lexer, m.lexer)
    BY <1>0, <2>16, <2>18, InlineTrans
  <2> QED BY <2>1, <2>14, <2>15, <2>19 DEF ListGood
<1> QED BY <1>2, <1>3

ListSolvesBelow(g, n) ==
    /\ g = [c \in Lists |-> g[c]]
    /\ \A c \in Lists : LeftAt(c.lexer) < n => g[c] = ListBody(g, c)

LEMMA ListSolutionGood ==
    ASSUME text \in Source, NEW g, NEW n \in Nat, ListSolvesBelow(g, n)
    PROVE  ListGoodBelow(g, n)
<1> DEFINE T == {m \in Nat : m <= n => ListGoodBelow(g, m)}
<1>1. 0 \in T
  <2>1. \A c \in Lists : ~(LeftAt(c.lexer) < 0)
    BY ListFields, LeftAtType
  <2> QED BY <2>1 DEF ListGoodBelow
<1>2. ASSUME NEW m \in Nat, m \in T PROVE m + 1 \in T
  <2> SUFFICES ASSUME m + 1 <= n PROVE ListGoodBelow(g, m + 1)
    OBVIOUS
  <2>1. ListGoodBelow(g, m) /\ ListSameBelow(g, g, m)
    BY <1>2 DEF ListSameBelow
  <2>2. ASSUME NEW c \in Lists, LeftAt(c.lexer) < m + 1 PROVE ListGood(c, g[c])
    <3>1. ListGood(c, ListBody(g, c))
      BY <2>1, <2>2, ListBodyIs
    <3>2. LeftAt(c.lexer) \in Nat
      BY ListFields, LeftAtType
    <3>3. LeftAt(c.lexer) < n
      BY <2>2, <3>2
    <3> QED BY <3>1, <3>3 DEF ListSolvesBelow
  <2> QED BY <2>2 DEF ListGoodBelow
<1>3. \A m \in Nat : m \in T
  <2> HIDE DEF T
  <2> QED BY <1>1, <1>2, NatSetInduction
<1> QED BY <1>3

LEMMA ListSolutionExists ==
    ASSUME text \in Source
    PROVE  \E g : ListSolvesBelow(g, Len(text) + 2)
<1> DEFINE T == {n \in Nat : \E g : ListSolvesBelow(g, n)}
<1>1. 0 \in T
  <2> DEFINE g == [c \in Lists |-> 0]
  <2>1. \A c \in Lists : ~(LeftAt(c.lexer) < 0)
    BY ListFields, LeftAtType
  <2>2. g = [c \in Lists |-> g[c]]
    OBVIOUS
  <2> HIDE DEF g
  <2> QED BY <2>1, <2>2 DEF ListSolvesBelow
<1>2. ASSUME NEW n \in Nat, n \in T PROVE n + 1 \in T
  <2>1. PICK g : ListSolvesBelow(g, n)
    BY <1>2
  <2> DEFINE h == [c \in Lists |-> IF LeftAt(c.lexer) < n THEN g[c] ELSE ListBody(g, c)]
  <2>2. ListGoodBelow(g, n)
    BY <2>1, ListSolutionGood
  <2>3. ListSameBelow(g, h, n)
    BY DEF ListSameBelow
  <2>4. h = [c \in Lists |-> h[c]]
    OBVIOUS
  <2>5. ASSUME NEW c \in Lists, LeftAt(c.lexer) < n + 1 PROVE h[c] = ListBody(h, c)
    <3>1. ListBody(g, c) = ListBody(h, c)
      <4> HIDE DEF h
      <4> QED BY <2>2, <2>3, <2>5, ListBodyIs
    <3>2. h[c] = ListBody(g, c)
      BY <2>1 DEF ListSolvesBelow
    <3> QED BY <3>1, <3>2
  <2> HIDE DEF h
  <2>6. ListSolvesBelow(h, n + 1)
    BY <2>4, <2>5 DEF ListSolvesBelow
  <2> QED BY <2>6
<1>3. \A n \in Nat : n \in T
  <2> HIDE DEF T
  <2> QED BY <1>1, <1>2, NatSetInduction
<1>4. Len(text) + 2 \in Nat
  BY TextFacts
<1> QED BY <1>3, <1>4

LEMMA DataListIs ==
    ASSUME text \in Source, NEW c \in Lists
    PROVE  Inline(c.lexer, DataList[c].lexer) /\ IsSeq(DataList[c].nodes)
<1> DEFINE Solution(g) == g = [e \in Lists |-> ListBody(g, e)]
<1>1. PICK g : ListSolvesBelow(g, Len(text) + 2)
  BY ListSolutionExists
<1>2. \A e \in Lists : LeftAt(e.lexer) < Len(text) + 2
  BY ListFields, LeftAtType
<1>3. \A e \in Lists : g[e] = ListBody(g, e)
  BY <1>1, <1>2 DEF ListSolvesBelow
<1>4. Solution(g)
  BY <1>1, <1>3 DEF ListSolvesBelow
<1>5. DataList = CHOOSE p : Solution(p)
  BY DEF DataList
<1>6. Solution(DataList)
  <2> HIDE DEF Solution
  <2> QED BY <1>4, <1>5
<1>7. \A e \in Lists : DataList[e] = ListBody(DataList, e)
  BY <1>6
<1>8. DataList = [e \in Lists |-> DataList[e]]
  BY <1>6, <1>7
<1>9. ListSolvesBelow(DataList, Len(text) + 2)
  BY <1>7, <1>8 DEF ListSolvesBelow
<1>10. ListGoodBelow(DataList, Len(text) + 2)
  <2>1. Len(text) + 2 \in Nat
    BY TextFacts
  <2> QED BY <1>9, <2>1, ListSolutionGood
<1> QED BY <1>2, <1>10 DEF ListGoodBelow, ListGood

LEMMA CheckedIs ==
    ASSUME text \in Source, NEW lx \in Lexers, NEW op, NEW l, NEW r
    PROVE  Inline(lx, Checked(lx, op, l, r).lexer) /\ IsSeq(Checked(lx, op, l, r).nodes)
<1>1. /\ Checked(lx, op, l, r).lexer = IF Unfit(op, l, r) THEN Tell(lx) ELSE lx
      /\ Checked(lx, op, l, r).nodes = <<Instruction(op, l, r)>>
  BY MadeFields DEF Checked
<1> QED BY <1>1, TellIs, InlineRefl, OneIsSeq

(* parse_op goes on in the line of the mnemonic; what it does not know, it *)
(* tells.                                                                  *)
LEMMA ParseOpIs ==
    ASSUME text \in Source, NEW lx \in Ready, lx.token.kind = "OP"
    PROVE  LET m == parse_op(lx)
           IN  /\ Inline(lx, m.lexer)
               /\ IsSeq(m.nodes)
               /\ lx.token.type = "EQU" => m.lexer.told
<1> DEFINE op == lx.token.type
           m == parse_op(lx)
           first == Follow(lx)
           p == parse_param(first)
<1>0. lx \in Lexers /\ AtToken(lx)
  BY DEF Ready
<1>1. op \in Words["OP"]
  <2>1. lx.token # EofToken
    BY EofTokenType
  <2> QED BY <1>0, <2>1 DEF AtToken
<1>2. op \in {"NOP", "ADI", "ADD", "INX", "PUSH", "ORG", "DS", "MOV", "MVI", "LXI", "DB", "DW", "EQU"}
  BY <1>1 DEF Words
<1>3. Inline(lx, first) /\ first \in Ready /\ first \in Lexers
  BY <1>0, FollowReady
<1> HIDE DEF first
<1>4. Inline(first, p.lexer) /\ p.lexer \in Lexers
  BY <1>3, ParamIs
<1>5. Inline(lx, p.lexer)
  <2> HIDE DEF p
  <2> QED BY <1>0, <1>3, <1>4, InlineTrans
<1>6. CASE op = "NOP"
  <2>1. m = Made(skipWhile(lx, Space), <<Instruction(op, NoExpr, NoExpr)>>)
    BY <1>6 DEF parse_op
  <2>2. m.lexer = skipWhile(lx, Space) /\ m.nodes = <<Instruction(op, NoExpr, NoExpr)>>
    BY <2>1, MadeFields
  <2> HIDE DEF m
  <2> QED BY <1>0, <1>6, <2>2, SkipSpaces, OneIsSeq DEF m
<1>7. CASE op \in {"ADI", "ADD", "INX", "PUSH", "ORG", "DS"}
  <2>1. m = Checked(p.lexer, op, p.expr, NoExpr)
    BY <1>7 DEF parse_op, Then, p, first
  <2> HIDE DEF m, p
  <2>2. Inline(p.lexer, m.lexer) /\ IsSeq(m.nodes)
    BY <1>4, <2>1, CheckedIs
  <2> QED BY <1>0, <1>5, <1>7, <2>2, InlineTrans DEF m
<1>8. CASE op \in {"MOV", "MVI", "LXI"}
  <2> DEFINE behind == skipWhile(p.lexer, ",")
             second == Follow(behind)
             r == parse_param(second)
  <2>1. m = Checked(r.lexer, op, p.expr, r.expr)
    BY <1>8 DEF parse_op, Then, first
  <2> HIDE DEF m, p
  <2>2. Inline(p.lexer, behind) /\ behind \in Lexers
    BY <1>4, SkipSpaces
  <2> HIDE DEF behind
  <2>3. Inline(behind, second) /\ second \in Ready /\ second \in Lexers
    BY <2>2, FollowReady
  <2> HIDE DEF second
  <2>4. Inline(second, r.lexer) /\ r.lexer \in Lexers
    BY <2>3, ParamIs
  <2> HIDE DEF r
  <2>5. Inline(r.lexer, m.lexer) /\ IsSeq(m.nodes)
    BY <2>1, <2>4, CheckedIs
  <2>6. Inline(lx, behind)
    BY <1>0, <1>5, <2>2, InlineTrans
  <2>7. Inline(lx, second)
    BY <1>0, <2>3, <2>6, InlineTrans
  <2>8. Inline(lx, r.lexer)
    BY <1>0, <2>4, <2>7, InlineTrans
  <2>9. Inline(lx, m.lexer)
    BY <1>0, <2>5, <2>8, InlineTrans
  <2> QED BY <1>8, <2>5, <2>9 DEF m
<1>9. CASE op \in {"DB", "DW"}
  <2> DEFINE c == [op |-> op, lexer |-> first]
  <2>1. m = DataList[c]
    BY <1>9 DEF parse_op, first
  <2>2. c \in Lists /\ c.lexer = first
    BY <1>3, <1>9 DEF Lists, Ready
  <2> HIDE DEF c, m
  <2>3. Inline(first, m.lexer) /\ IsSeq(m.nodes)
    BY <2>1, <2>2, DataListIs
  <2> QED BY <1>0, <1>3, <1>9, <2>3, InlineTrans DEF m
<1>10. CASE op = "EQU"
  <2>1. m = Made(skipUntil(Tell(lx), eol_sym), <<Instruction(op, NoExpr, NoExpr)>>)
    BY <1>10 DEF parse_op
  <2>2. m.lexer = skipUntil(Tell(lx), eol_sym) /\ m.nodes = <<Instruction(op, NoExpr, NoExpr)>>
    BY <2>1, MadeFields
  <2> HIDE DEF m
  <2>3. Inline(lx, Tell(lx)) /\ Tell(lx) \in Lexers /\ Tell(lx).told
    BY <1>0, TellIs DEF Inline, Later
  <2>4. Inline(Tell(lx), m.lexer) /\ m.lexer.told
    BY <2>2, <2>3, SkipUntilIs
  <2> QED BY <1>0, <2>2, <2>3, <2>4, InlineTrans, OneIsSeq DEF m
<1> QED BY <1>2, <1>6, <1>7, <1>8, <1>9, <1>10

-----------------------------------------------------------------------------
(* The rest of the line.                                                   *)

LEMMA LineDoneTells ==
    ASSUME text \in Source, NEW lx \in Lexers, NEW ly, LineDone(lx, ly), lx.told
    PROVE  ly.told
BY DEF LineDone, Later

LEMMA ParseCommentIs ==
    ASSUME text \in Source, NEW lx \in Ready
    PROVE  LET ly == parse_comment(lx)
           IN  /\ LineDone(lx, ly)
               /\ ~LineEnds(lx) => ly.told \/ ly.process = "crashed"
               /\ lx.token.type \in {eol_sym, ";"} => Place(lx) < Place(ly)
<1> DEFINE ly == parse_comment(lx)
           type == lx.token.type
<1>5. Place(lx) \in Int
  <2>1. lx \in Lexers
    BY DEF Ready
  <2>2. Place(lx) \in 0..(Len(text) + 1)
    BY <2>1, PlaceType
  <2> QED BY <2>2
<1>0. lx \in Lexers /\ AtToken(lx) /\ eol_sym # "L_EOF" /\ eol_sym # ";"
  BY DEF Ready, eol_sym
<1>1. CASE type \in {eol_sym, "L_EOF"}
  <2>1. lx.ch \in {eol_sym, eof_sym}
    BY <1>0, <1>1, SymbolTokenIs, EofTokenIs, KindsApart
  <2>2. ly = skipOne(lx)
    BY <1>0, <1>1 DEF parse_comment, LineEnds
  <2>3. type = eol_sym => Place(lx) < Place(ly)
    <3> SUFFICES ASSUME type = eol_sym PROVE Place(lx) < Place(ly)
      OBVIOUS
    <3>1. lx.ch # eof_sym
      BY <1>0, SymbolTokenIs, KindsApart
    <3>2. Place(skipOne(lx)) = Place(lx) + 1
      BY <1>0, <3>1, SkipOneIs
    <3> QED BY <1>5, <2>2, <3>2
  <2> HIDE DEF ly
  <2> QED BY <1>0, <1>1, <2>1, <2>2, <2>3, LineDoneHere DEF ly, LineEnds
<1>2. CASE type = ";"
  <2> DEFINE u == skipUntil(lx, eol_sym)
  <2>1. ly = skipOne(u)
    BY <1>0, <1>2 DEF parse_comment, LineEnds, SkipLine
  <2>2. LineDone(lx, ly)
    BY <1>0, <2>1, SkipLineDone
  <2>3. Inline(lx, u) /\ u \in Lexers /\ u.ch \in {eol_sym, eof_sym} /\ Place(lx) <= Place(u)
    BY <1>0, SkipUntilIs DEF Inline, Later
  <2> HIDE DEF u
  <2>4. Place(ly) = IF u.ch = eof_sym THEN Place(u) ELSE Place(u) + 1
    BY <2>1, <2>3, SkipOneIs
  <2>5. Place(lx) \in DOMAIN text
    BY <1>0, <1>2, SymbolTokenIs DEF Symbols
  <2>6. u.ch = eof_sym => Place(u) = Len(text) + 1
    BY <2>3, PlaceType
  <2>7. Place(lx) < Place(ly)
    <3>1. Place(lx) \in 1..Len(text) /\ Len(text) \in Nat
      BY <2>5, TextFacts
    <3>2. Place(u) \in Int
      BY <2>3, PlaceType
    <3> QED BY <2>3, <2>4, <2>6, <3>1, <3>2
  <2> HIDE DEF ly
  <2> QED BY <1>2, <2>2, <2>7 DEF ly, LineEnds
<1>3. CASE ~LineEnds(lx) /\ lx.token.ident = NoIdent
  <2>1. ly = Halt(lx, "crashed")
    BY <1>3 DEF parse_comment, LineEnds
  <2>2. Inline(lx, ly) /\ ly.process # "running" /\ ly \in Lexers
        /\ (lx.process = "running" => ly.process = "crashed")
    <3>1. Inline(lx, ly) /\ ly.process # "running" /\ (lx.process = "running" => ly.process = "crashed")
      BY <1>0, <2>1, HaltIs
    <3> QED BY <3>1 DEF Inline, Later
  <2>3. lx.process = "running"
    <3>1. lx.process # "running" => type = "L_EOF"
      BY <1>0, StoppedAtEnd, EofTokenType
    <3> QED BY <1>3, <3>1 DEF LineEnds
  <2> HIDE DEF ly
  <2>4. ly.ch # CH_NULL
    BY <2>2, StoppedAtEnd DEF eof_sym, CH_NULL
  <2> QED BY <1>3, <2>2, <2>3, <2>4 DEF LineDone, Inline, LineEnds, ly
<1>4. CASE ~LineEnds(lx) /\ lx.token.ident # NoIdent
  <2>1. ly = skipUntil(Tell(lx), eol_sym)
    BY <1>4 DEF parse_comment, LineEnds
  <2>2. Inline(lx, Tell(lx)) /\ Tell(lx) \in Lexers /\ Tell(lx).told
    BY <1>0, TellIs DEF Inline, Later
  <2>3. LineDone(Tell(lx), ly) /\ ly.told
    BY <2>1, <2>2, SkipLineDone, SkipUntilIs
  <2> HIDE DEF ly
  <2> QED BY <1>0, <1>4, <2>2, <2>3, LineDoneTrans DEF LineEnds, ly
<1> QED BY <1>1, <1>2, <1>3, <1>4 DEF LineEnds

-----------------------------------------------------------------------------
(* Where a line starts, as a function of the breaks.                       *)

StartIn(B, p) == IF \E b \in B : b < p
                   THEN 1 + CHOOSE b \in B : b < p /\ \A c \in B : c < p => c <= b
                   ELSE 1

(* s is where the line of p starts.                                        *)
IsStart(B, p, s) ==
    \/ s = 1 /\ \A b \in B : ~(b < p)
    \/ s - 1 \in B /\ s - 1 < p /\ \A c \in B : c < p => c <= s - 1

LEMMA StartInIs ==
    ASSUME NEW B, B \subseteq Nat, NEW p \in Int
    PROVE  StartIn(B, p) \in Nat /\ IsStart(B, p, StartIn(B, p))
<1>1. CASE \E b \in B : b < p
  <2> DEFINE T == {n \in Nat : \E b \in B : b < p /\ n = p - b}
             Is(b) == b \in B /\ b < p /\ \A c \in B : c < p => c <= b
  <2>1. T \subseteq Nat /\ T # {}
    <3>1. PICK b \in B : b < p
      BY <1>1
    <3>2. p - b \in T
      BY <3>1
    <3> QED BY <3>2
  <2>2. PICK n \in T : \A m \in T : n <= m
    <3> HIDE DEF T
    <3> QED BY <2>1, LeastNat
  <2>3. PICK b \in B : b < p /\ n = p - b
    BY <2>2
  <2>4. \A c \in B : c < p => c <= b
    <3> SUFFICES ASSUME NEW c \in B, c < p PROVE c <= b
      OBVIOUS
    <3>1. p - c \in T
      OBVIOUS
    <3>2. n <= p - c
      BY <2>2, <3>1
    <3> QED BY <2>3, <3>2
  <2>5. Is(b)
    BY <2>3, <2>4
  <2> DEFINE m == CHOOSE d : Is(d)
  <2>6. Is(m)
    <3> HIDE DEF Is
    <3> QED BY <2>5
  <2>7. StartIn(B, p) = 1 + (CHOOSE d \in B : d < p /\ \A c \in B : c < p => c <= d)
    BY <1>1 DEF StartIn
  <2>8. (CHOOSE d \in B : d < p /\ \A c \in B : c < p => c <= d) = m
    BY <2>5, <2>6
  <2> HIDE DEF m
  <2>9. StartIn(B, p) = 1 + m
    BY <2>7, <2>8
  <2>10. m \in Nat /\ (1 + m) - 1 = m
    BY <2>6
  <2> QED BY <2>6, <2>9, <2>10 DEF IsStart
<1>2. CASE ~\E b \in B : b < p
  BY <1>2 DEF StartIn, IsStart
<1> QED BY <1>1, <1>2

LEMMA StartUnique ==
    ASSUME NEW B, B \subseteq Nat, NEW p \in Int, NEW s \in Nat, NEW r \in Nat,
           IsStart(B, p, s), IsStart(B, p, r)
    PROVE  s = r
BY DEF IsStart

(* The same breaks below t.                                                *)
AgreeBelow(B, C, t) == \A b \in Nat : b < t => (b \in B <=> b \in C)

NoneIn(C, i, j) == \A c \in C : ~(i <= c /\ c < j)

(* No break from p to q: the line of q is that of p, also when breaks have *)
(* come up behind.                                                         *)
LEMMA StartSame ==
    ASSUME NEW B, B \subseteq Nat, NEW C, C \subseteq Nat, NEW p \in Int, NEW q \in Int, p <= q,
           AgreeBelow(B, C, p), NoneIn(C, p, q)
    PROVE  StartIn(C, q) = StartIn(B, p)
<1> DEFINE s == StartIn(B, p)
           r == StartIn(C, q)
<1>1. s \in Nat /\ IsStart(B, p, s)
  BY StartInIs
<1>2. r \in Nat /\ IsStart(C, q, r)
  BY StartInIs
<1> HIDE DEF s, r
<1>3. IsStart(C, q, s)
  BY <1>1 DEF IsStart, AgreeBelow, NoneIn
<1>4. s = r
  BY <1>1, <1>2, <1>3, StartUnique
<1> QED BY <1>4 DEF s, r

(* A line starts behind a break.                                           *)
LEMMA StartNext ==
    ASSUME NEW C, C \subseteq Nat, NEW e \in C, NEW q \in Int, e < q,
           \A c \in C : ~(e < c /\ c < q)
    PROVE  StartIn(C, q) = e + 1
<1> DEFINE r == StartIn(C, q)
<1>1. r \in Nat /\ IsStart(C, q, r)
  BY StartInIs
<1> HIDE DEF r
<1>2. IsStart(C, q, e + 1) /\ e + 1 \in Nat
  BY DEF IsStart
<1>3. r = e + 1
  BY <1>1, <1>2, StartUnique
<1> QED BY <1>3 DEF r

-----------------------------------------------------------------------------
(* What the lines before the statement at t have to do with each other: B  *)
(* are the breaks, S the places where statements were started.             *)

Fits(B, p) == text[p] = eol_sym \/ \A q \in StartIn(B, p) .. (p - 1) : MayPrecede(q)

Accounted(B, S, p) ==
    (text[p] # Space /\ \A q \in StartIn(B, p) .. (p - 1) : text[q] = Space)
    => p \in S \/ StartIn(B, p) \in S

LinesBefore(B, S, t, live) ==
    /\ \A p \in S : p \in DOMAIN text /\ p < t /\ Fits(B, p)
    /\ t \in DOMAIN text => Fits(B, t) /\ (text[t] = Space => StartIn(B, t) = t)
    /\ live => \A p \in 1 .. (t - 1) : Accounted(B, S, p)

LEMMA AgreeStart ==
    ASSUME NEW B, B \subseteq Nat, NEW C, C \subseteq Nat, NEW t \in Int, AgreeBelow(B, C, t),
           NEW p \in Int, p <= t
    PROVE  StartIn(C, p) = StartIn(B, p)
<1>1. AgreeBelow(B, C, p)
  BY DEF AgreeBelow
<1>2. NoneIn(C, p, p) /\ p <= p
  BY DEF NoneIn
<1> QED BY <1>1, <1>2, StartSame, ZenonT(30)

(* What was said of the places up to t stays true of them.                 *)
LEMMA EarlierKept ==
    ASSUME text \in Source, NEW B, B \subseteq Nat, NEW C, C \subseteq Nat, NEW t \in DOMAIN text,
           AgreeBelow(B, C, t), NEW S, LinesBefore(B, S, t, TRUE)
    PROVE  /\ \A p \in S \cup {t} : p \in DOMAIN text /\ p <= t /\ Fits(C, p)
           /\ \A p \in 1 .. t : Accounted(C, S \cup {t}, p)
<1>1. \A p \in DOMAIN text : p \in Int
  BY TextFacts
<1>2. ASSUME NEW p \in Int, p <= t PROVE StartIn(C, p) = StartIn(B, p)
  BY <1>1, <1>2, AgreeStart
<1>3. \A p \in S : p \in DOMAIN text /\ p < t /\ Fits(B, p)
  BY DEF LinesBefore
<1>4. Fits(B, t)
  BY DEF LinesBefore
<1>5. \A p \in S \cup {t} : p \in DOMAIN text /\ p <= t /\ Fits(B, p)
  BY <1>1, <1>3, <1>4
<1>6. \A p \in S \cup {t} : Fits(C, p)
  BY <1>1, <1>2, <1>5 DEF Fits
<1>7. \A p \in 1 .. (t - 1) : Accounted(B, S, p)
  BY DEF LinesBefore
<1>8. \A p \in 1 .. (t - 1) : Accounted(C, S \cup {t}, p)
  BY <1>1, <1>2, <1>7 DEF Accounted
<1>9. Accounted(C, S \cup {t}, t)
  BY DEF Accounted
<1>10. \A p \in 1 .. t : p \in 1 .. (t - 1) \/ p = t
  BY <1>1
<1> QED BY <1>5, <1>6, <1>8, <1>9, <1>10

(* Places behind t in its line: nothing else can be taken there, for only  *)
(* a space at the line's start would let it be the first word.             *)
LEMMA SameLineAccounted ==
    ASSUME text \in Source, NEW B, B \subseteq Nat, NEW C, C \subseteq Nat, NEW t \in DOMAIN text,
           AgreeBelow(B, C, t), NEW S, LinesBefore(B, S, t, TRUE),
           NEW p \in Int, t < p, NoneIn(C, t, p)
    PROVE  Accounted(C, S \cup {t}, p) /\ StartIn(C, p) = StartIn(B, t) /\ StartIn(C, p) <= t
<1>1. t \in Int
  BY TextFacts
<1>2. StartIn(C, p) = StartIn(B, t)
  <2>1. t <= p
    BY <1>1
  <2> QED BY <1>1, <2>1, StartSame
<1> DEFINE s == StartIn(B, t)
<1>3. s \in Nat /\ s <= t
  <2>1. s \in Nat /\ IsStart(B, t, s)
    BY <1>1, StartInIs
  <2>2. t >= 1
    BY TextFacts
  <2> HIDE DEF s
  <2> QED BY <1>1, <2>1, <2>2 DEF IsStart
<1>4. text[t] = Space => s = t
  BY DEF LinesBefore
<1> HIDE DEF s
<1>5. t \in s .. (p - 1)
  BY <1>1, <1>3
<1>6. StartIn(C, p) = s
  BY <1>2 DEF s
<1> QED BY <1>2, <1>3, <1>4, <1>5, <1>6 DEF Accounted

(* The next statement stands in the same line ...                          *)
LEMMA SameLineKeeps ==
    ASSUME text \in Source, NEW B, B \subseteq Nat, NEW C, C \subseteq Nat, NEW t \in DOMAIN text,
           AgreeBelow(B, C, t), NEW S, LinesBefore(B, S, t, TRUE),
           NEW u \in Int, t < u, NoneIn(C, t, u),
           u \in DOMAIN text => /\ text[u] # Space
                                /\ \/ text[u] = eol_sym
                                   \/ text[t] # eol_sym /\ \A q \in t .. (u - 1) : MayPrecede(q)
    PROVE  LinesBefore(C, S \cup {t}, u, TRUE)
<1>1. t \in Int
  BY TextFacts
<1>2. /\ \A p \in S \cup {t} : p \in DOMAIN text /\ p <= t /\ Fits(C, p)
      /\ \A p \in 1 .. t : Accounted(C, S \cup {t}, p)
  BY EarlierKept
<1>3. \A p \in S \cup {t} : p \in DOMAIN text /\ p < u /\ Fits(C, p)
  <2>1. \A p \in DOMAIN text : p \in Int
    BY TextFacts
  <2> QED BY <1>1, <1>2, <2>1
<1>4. ASSUME NEW p \in 1 .. (u - 1) PROVE Accounted(C, S \cup {t}, p)
  <2>1. CASE p <= t
    <3>1. p \in 1 .. t
      BY <1>1, <2>1
    <3> QED BY <1>2, <3>1
  <2>2. CASE t < p
    <3>1. NoneIn(C, t, p) /\ p \in Int
      BY <1>1, <2>2 DEF NoneIn
    <3> QED BY <2>2, <3>1, SameLineAccounted
  <2> QED BY <1>1, <2>1, <2>2
<1>5. u \in DOMAIN text => Fits(C, u)
  <2> SUFFICES ASSUME u \in DOMAIN text, text[u] # eol_sym PROVE Fits(C, u)
    BY DEF Fits
  <2>1. StartIn(C, u) = StartIn(B, t)
    BY SameLineAccounted
  <2>2. \A q \in StartIn(B, t) .. (t - 1) : MayPrecede(q)
    BY DEF LinesBefore, Fits
  <2>3. StartIn(B, t) \in Nat
    BY <1>1, StartInIs
  <2>4. \A q \in StartIn(B, t) .. (u - 1) : q \in StartIn(B, t) .. (t - 1) \/ q \in t .. (u - 1)
    BY <1>1, <2>3
  <2> QED BY <2>1, <2>2, <2>4 DEF Fits
<1> QED BY <1>3, <1>4, <1>5 DEF LinesBefore

(* ... or in the line behind the break at e, perhaps after spaces.         *)
LEMMA NextLineKeeps ==
    ASSUME text \in Source, NEW B, B \subseteq Nat, NEW C, C \subseteq Nat, NEW t \in DOMAIN text,
           AgreeBelow(B, C, t), NEW S, LinesBefore(B, S, t, TRUE),
           NEW e \in C, t <= e, NoneIn(C, t, e), NEW u \in Int, e < u, NoneIn(C, e + 1, u),
           Spaces(e + 1, u), u \in DOMAIN text /\ text[u] = Space => u = e + 1,
           u <= Len(text) + 1
    PROVE  LinesBefore(C, S \cup {t}, u, TRUE)
<1>1. t \in Int /\ t >= 1 /\ e \in Nat /\ Len(text) \in Nat /\ DOMAIN text = 1 .. Len(text)
  BY TextFacts
<1>2. /\ \A p \in S \cup {t} : p \in DOMAIN text /\ p <= t /\ Fits(C, p)
      /\ \A p \in 1 .. t : Accounted(C, S \cup {t}, p)
  BY EarlierKept
<1>3. \A p \in S \cup {t} : p \in DOMAIN text /\ p < u /\ Fits(C, p)
  BY <1>1, <1>2
<1>4. ASSUME NEW p \in 1 .. (u - 1) PROVE Accounted(C, S \cup {t}, p)
  <2>1. CASE p <= t
    <3>1. p \in 1 .. t
      BY <1>1, <2>1
    <3> QED BY <1>2, <3>1
  <2>2. CASE t < p /\ p <= e
    <3>1. NoneIn(C, t, p) /\ p \in Int
      BY <1>1, <2>2 DEF NoneIn
    <3> QED BY <2>2, <3>1, SameLineAccounted
  <2>3. CASE e < p
    <3>1. text[p] = Space
      BY <1>1, <2>3 DEF Spaces
    <3> QED BY <3>1 DEF Accounted
  <2> QED BY <1>1, <2>1, <2>2, <2>3
<1>5. StartIn(C, u) = e + 1
  <2>1. \A c \in C : ~(e < c /\ c < u)
    BY <1>1 DEF NoneIn
  <2> QED BY <2>1, StartNext
<1>6. \A q \in (e + 1) .. (u - 1) : MayPrecede(q)
  <2>1. \A q \in (e + 1) .. (u - 1) : text[q] = Space
    BY <1>1 DEF Spaces
  <2> QED BY <2>1 DEF MayPrecede
<1>7. u \in DOMAIN text => Fits(C, u) /\ (text[u] = Space => StartIn(C, u) = u)
  BY <1>5, <1>6 DEF Fits
<1> QED BY <1>3, <1>4, <1>7 DEF LinesBefore

(* The run is over.                                                        *)
LEMMA StoppedKeeps ==
    ASSUME text \in Source, NEW B, B \subseteq Nat, NEW C, C \subseteq Nat, NEW t \in DOMAIN text,
           AgreeBelow(B, C, t), NEW S, LinesBefore(B, S, t, TRUE), NEW u, u = Len(text) + 1
    PROVE  LinesBefore(C, S \cup {t}, u, FALSE)
<1>1. t \in Int /\ u \notin DOMAIN text /\ t < u /\ Len(text) \in Nat /\ DOMAIN text = 1 .. Len(text)
  BY TextFacts
<1>2. \A p \in S \cup {t} : p \in DOMAIN text /\ p <= t /\ Fits(C, p)
  BY EarlierKept
<1> QED BY <1>1, <1>2 DEF LinesBefore

-----------------------------------------------------------------------------
(* From one statement to the next, for the reader.                         *)

BreaksOf(quoted, news) == {p \in DOMAIN text : text[p] = eol_sym /\ p \notin quoted} \cup news

SameLine(lx, lf) ==
    /\ Unbroken(lx.token.at, lf.token.at, lf)
    /\ lf.token.at \in DOMAIN text =>
          /\ text[lf.token.at] # Space
          /\ \/ text[lf.token.at] = eol_sym
             \/ /\ text[lx.token.at] # eol_sym
                /\ \A q \in lx.token.at .. (lf.token.at - 1) : MayPrecede(q)

NextLine(lx, lf, news) ==
    \E e \in DOMAIN text :
       /\ lx.token.at <= e /\ e < lf.token.at
       /\ Unbroken(lx.token.at, e, lf)
       /\ news = {e} \/ (news = {} /\ text[e] = eol_sym /\ e \notin lf.quoted)
       /\ Spaces(e + 1, lf.token.at)
       /\ lf.token.at \in DOMAIN text /\ text[lf.token.at] = Space => lf.token.at = e + 1

(* news are the included files begun in between.                           *)
Moved(lx, lf, news) ==
    /\ Later(lx, lf)
    /\ AtToken(lf)
    /\ \A e \in news : e \in DOMAIN text /\ lx.token.at <= e /\ e < lf.token.at
    /\ lf.process = "running" =>
          /\ lx.token.at < lf.token.at
          /\ (news = {} /\ SameLine(lx, lf)) \/ NextLine(lx, lf, news)

LEMMA MovedKeeps ==
    ASSUME text \in Source, NEW lx \in Ready, lx.process = "running", lx.token.at \in DOMAIN text,
           NEW E, E \subseteq DOMAIN text, \A e \in E : e < lx.token.at, NEW S,
           LinesBefore(BreaksOf(lx.quoted, E), S, lx.token.at, TRUE),
           NEW lf, NEW news, Moved(lx, lf, news)
    PROVE  LinesBefore(BreaksOf(lf.quoted, E \cup news), S \cup {lx.token.at}, lf.token.at,
                       lf.process = "running")
<1> DEFINE B == BreaksOf(lx.quoted, E)
           C == BreaksOf(lf.quoted, E \cup news)
           t == lx.token.at
           u == lf.token.at
<1>1. Later(lx, lf) /\ AtToken(lf) /\ lf \in Lexers /\ lx \in Lexers /\ AtToken(lx)
      /\ \A e \in news : e \in DOMAIN text /\ t <= e /\ e < u
  BY DEF Moved, Later, Ready
<1>2. /\ t \in Int /\ t <= Place(lx) /\ Place(lx) \in Int /\ u \in 1 .. (Len(text) + 1)
      /\ Len(text) \in Nat /\ DOMAIN text = 1 .. Len(text)
  BY <1>1, AtTokenPlace, PlaceType, TextFacts
<1>3. B \subseteq Nat /\ C \subseteq Nat
  BY <1>1, <1>2 DEF BreaksOf
<1>4. AgreeBelow(B, C, t)
  <2>1. lx.quoted \subseteq lf.quoted /\ \A q \in lf.quoted : q \notin lx.quoted => q >= Place(lx)
    BY <1>1 DEF Later
  <2> QED BY <1>1, <1>2, <2>1 DEF AgreeBelow, BreaksOf
<1>5. LinesBefore(B, S, t, TRUE)
  OBVIOUS
<1> HIDE DEF B
<1>6. CASE lf.process # "running"
  <2>1. u = Len(text) + 1
    BY <1>1, <1>6, StoppedAtEnd, EofTokenType
  <2> HIDE DEF C, t, u
  <2>2. LinesBefore(C, S \cup {t}, u, FALSE)
    BY <1>3, <1>4, <1>5, <2>1, StoppedKeeps DEF t
  <2> QED BY <1>6, <2>2 DEF C, t, u
<1>7. CASE lf.process = "running" /\ news = {} /\ SameLine(lx, lf)
  <2>1. t < u
    BY <1>7 DEF Moved
  <2>2. NoneIn(C, t, u)
    BY <1>2, <1>7 DEF SameLine, Unbroken, BreaksOf, NoneIn
  <2>3. u \in DOMAIN text => /\ text[u] # Space
                             /\ \/ text[u] = eol_sym
                                \/ text[t] # eol_sym /\ \A q \in t .. (u - 1) : MayPrecede(q)
    BY <1>7 DEF SameLine
  <2>4. u \in Int /\ t \in DOMAIN text
    BY <1>2
  <2> HIDE DEF C, t, u
  <2>5. LinesBefore(C, S \cup {t}, u, TRUE)
    BY <1>3, <1>4, <1>5, <2>1, <2>2, <2>3, <2>4, SameLineKeeps
  <2> QED BY <1>7, <2>5 DEF C, t, u
<1>8. CASE lf.process = "running" /\ NextLine(lx, lf, news)
  <2>1. PICK e \in DOMAIN text :
            /\ t <= e /\ e < u
            /\ Unbroken(t, e, lf)
            /\ news = {e} \/ (news = {} /\ text[e] = eol_sym /\ e \notin lf.quoted)
            /\ Spaces(e + 1, u)
            /\ u \in DOMAIN text /\ text[u] = Space => u = e + 1
    BY <1>8 DEF NextLine
  <2>2. e \in C /\ e \in Int
    BY <1>2, <2>1 DEF BreaksOf
  <2>3. NoneIn(C, t, e)
    BY <1>2, <2>1, <2>2 DEF Unbroken, BreaksOf, NoneIn
  <2>4. NoneIn(C, e + 1, u)
    <3>1. Space # eol_sym
      BY DEF Space, eol_sym
    <3> QED BY <1>2, <2>1, <2>2, <3>1 DEF Spaces, BreaksOf, NoneIn
  <2>5. u \in Int /\ t \in DOMAIN text /\ u <= Len(text) + 1
    BY <1>2
  <2> HIDE DEF C, t, u
  <2>6. LinesBefore(C, S \cup {t}, u, TRUE)
    BY <1>3, <1>4, <1>5, <2>1, <2>2, <2>3, <2>4, <2>5, NextLineKeeps
  <2> QED BY <1>8, <2>6 DEF C, t, u
<1> QED BY <1>6, <1>7, <1>8 DEF Moved

(* A statement's first token, unless it is a string, has no line end in it. *)
LEMMA TokenUnbroken ==
    ASSUME text \in Source, NEW lx \in Ready, lx.token.kind # "STRING", NEW p \in DOMAIN text,
           lx.token.at <= p, p < Place(lx)
    PROVE  text[p] # eol_sym
<1>1. lx \in Lexers /\ AtToken(lx)
  BY DEF Ready
<1>2. lx.token.kind \in Kinds /\ lx.token.at \in Int /\ Place(lx) \in Int /\ p \in Int
  BY <1>1, AtTokenPlace, PlaceType, TextFacts
<1>3. lx.token.kind \in {"VAR", "CONST", "OP", "REG", "INT"}
  BY <1>1, <1>2, AtTokenPlace DEF Kinds
<1>4. lx.token # EofToken
  BY <1>3, EofTokenType
<1>5. lx.token.at + 1 = Place(lx)
  BY <1>1, <1>3, <1>4 DEF AtToken
<1>6. p = lx.token.at
  BY <1>2, <1>5
<1>7. text[p] \in Ident \cup Digits \cup Mnemonics
  BY <1>1, <1>3, <1>4, <1>6, WordsOf DEF AtToken
<1> QED BY <1>7, KindsApart DEF Wordlike

LEMMA SteppedMoves ==
    ASSUME text \in Source, NEW lx \in Ready, lx.token.kind # "STRING", NEW lf, Stepped(lx, lf),
           lf.process = "running" => lx.token.at < lf.token.at
    PROVE  Moved(lx, lf, {})
<1>1. lx \in Lexers /\ AtToken(lx) /\ Later(lx, lf) /\ AtToken(lf) /\ lf \in Lexers
  BY DEF Ready, Stepped, Later
<1>2. /\ lx.token.at \in Int /\ Place(lx) \in Int /\ lx.token.at <= Place(lx) /\ lf.token.at \in Int
      /\ Len(text) \in Nat /\ DOMAIN text = 1 .. Len(text)
  BY <1>1, AtTokenPlace, PlaceType, TextFacts
<1>3. ASSUME NEW e \in Int, Unbroken(Place(lx), e, lf)
      PROVE  Unbroken(lx.token.at, e, lf)
  BY <1>2, <1>3, TokenUnbroken DEF Unbroken
<1>4. ASSUME lf.process = "running" PROVE SameLine(lx, lf) \/ NextLine(lx, lf, {})
  <2>1. PICK e \in 1 .. (Len(text) + 1) :
            /\ Place(lx) <= e
            /\ Unbroken(Place(lx), e, lf)
            /\ \/ lf.token.at = e /\ (e \in DOMAIN text => text[e] = eol_sym)
               \/ /\ e \in DOMAIN text /\ text[e] = eol_sym /\ e \notin lf.quoted
                  /\ e < lf.token.at
                  /\ Spaces(e + 1, lf.token.at)
                  /\ lf.token.at \in DOMAIN text => text[lf.token.at] # Space
    BY <1>4 DEF Stepped
  <2>2. Unbroken(lx.token.at, e, lf) /\ lx.token.at <= e
    BY <1>2, <1>3, <2>1
  <2>3. CASE lf.token.at = e
    <3>1. Space # eol_sym
      BY DEF Space, eol_sym
    <3> QED BY <2>1, <2>2, <2>3, <3>1 DEF SameLine
  <2>4. CASE lf.token.at # e
    BY <2>1, <2>2, <2>4 DEF NextLine
  <2> QED BY <2>3, <2>4
<1> QED BY <1>1, <1>4 DEF Moved

(* Behind the line end.                                                    *)
LEMMA LineDoneMoves ==
    ASSUME text \in Source, NEW lx \in Ready, lx.token.kind # "STRING", NEW ly, LineDone(lx, ly),
           lx.token.at < Place(ly)
    PROVE  Moved(lx, Follow(ly), {})
<1> DEFINE t == Follow(ly)
<1>1. lx \in Lexers /\ AtToken(lx) /\ ly \in Lexers /\ ly.ch # CH_NULL
  BY DEF Ready, LineDone, Later
<1>2. Stepped(lx, t)
  BY <1>1, FollowSteps
<1>3. t.process = "running" => Place(ly) <= t.token.at
  BY <1>1, FollowIs
<1> HIDE DEF t
<1>4. lx.token.at \in Int /\ Place(ly) \in Int /\ t.token.at \in Int
  <2>1. t \in Lexers /\ AtToken(t)
    BY <1>2 DEF Stepped, Later
  <2> QED BY <1>1, <2>1, AtTokenPlace, PlaceType
<1>5. t.process = "running" => lx.token.at < t.token.at
  BY <1>3, <1>4
<1> QED BY <1>2, <1>5, SteppedMoves DEF t

(* At the end of the run.                                                  *)
LEMMA StoppedMoves ==
    ASSUME text \in Source, NEW lx \in Lexers, NEW lf, Later(lx, lf), lf.process # "running"
    PROVE  Moved(lx, lf, {})
<1>1. lf \in Lexers
  BY DEF Later
<1>2. lf.ch = eof_sym /\ lf.token = EofToken
  BY <1>1, StoppedAtEnd
<1>3. AtToken(lf)
  BY <1>2 DEF AtToken, eof_sym, CH_NULL
<1> QED BY <1>3 DEF Moved

-----------------------------------------------------------------------------
(* The statements.                                                         *)

ErrorCodes == {NoError, "E_UNEXPSYM", "E_UNKKEYWORD", "E_SYNTAXERROR", "E_UNEXPTOKEN"}

(* A statement is taken, at a token of the text.                           *)
StatementStep ==
    /\ text' = text
    /\ lexer.token # EofToken
    /\ taken' = taken \cup {lexer.token.at}
    /\ \E ns : IsSeq(ns) /\ ast' = ast \o [i \in DOMAIN ns |-> [at |-> lexer.token.at, node |-> ns[i]]]
    /\ \E news : Moved(lexer, lexer', news) /\ entered' = entered \cup news
    /\ \/ error' = error
       \/ error' \in ErrorCodes /\ (lexer'.told \/ lexer'.process = "crashed")

LEMMA TokenInText ==
    ASSUME text \in Source, NEW lx \in Ready, lx.token # EofToken
    PROVE  lx.token.at \in DOMAIN text
<1>1. lx.token.at \in 1 .. lx.cursym
  BY DEF Ready, AtToken
<1>2. lx.cursym \in 0 .. Len(text)
  BY DEF Ready, Lexers
<1> QED BY <1>1, <1>2, TextFacts

LEMMA KindInText ==
    ASSUME text \in Source, NEW lx \in Ready, lx.token.kind # "SYM" \/ lx.token.type # "L_EOF"
    PROVE  lx.token # EofToken
BY EofTokenType

LEMMA DeclareIs ==
    ASSUME text \in Source, NEW lx \in Lexers, NEW id
    PROVE  /\ Later(lx, Declare(lx, id))
           /\ Declare(lx, id).process = "running" => Declare(lx, id) = lx
           /\ AtToken(lx) => AtToken(Declare(lx, id))
<1>1. Declare(lx, id) = lx \/ Declare(lx, id) = Exit(lx)
  BY DEF Declare
<1>2. Later(lx, lx) /\ Later(lx, Exit(lx)) /\ AtToken(Exit(lx)) /\ Exit(lx).process # "running"
  BY InlineRefl, ExitIs DEF Inline
<1> QED BY <1>1, <1>2

LEMMA DeclareDone ==
    ASSUME text \in Source, NEW lx \in Lexers, NEW ly, LineDone(lx, ly), NEW id
    PROVE  LineDone(lx, Declare(ly, id)) /\ Place(ly) <= Place(Declare(ly, id))
<1> DEFINE lz == Declare(ly, id)
<1>1. ly \in Lexers /\ Later(lx, ly) /\ ly.ch # CH_NULL
  BY DEF LineDone, Later
<1>2. Later(ly, lz) /\ (lz.process = "running" => lz = ly)
  BY <1>1, DeclareIs
<1> HIDE DEF lz
<1>3. Later(lx, lz) /\ lz.ch # CH_NULL
  BY <1>1, <1>2, LaterTrans DEF Later
<1> QED BY <1>2, <1>3 DEF LineDone, Later, lz

LEMMA PassLater ==
    ASSUME text \in Source, NEW lx \in Lexers
    PROVE  Later(lx, Pass(lx)) /\ Pass(lx) \in Ready
<1> DEFINE s == skipOne(lx)
<1>1. Later(lx, s) /\ s \in Lexers
  BY SkipOneIs DEF Later
<1>2. Pass(lx) = Follow(s)
  BY DEF Pass
<1> HIDE DEF s
<1>3. Later(s, Follow(s)) /\ Follow(s) \in Ready
  BY <1>1, FollowReady DEF Inline
<1> QED BY <1>1, <1>2, <1>3, LaterTrans

LEMMA SkipLineAdvances ==
    ASSUME text \in Source, NEW lx \in Lexers, Place(lx) \in DOMAIN text
    PROVE  Place(lx) < Place(SkipLine(lx))
<1> DEFINE u == skipUntil(lx, eol_sym)
<1>1. u \in Lexers /\ Place(lx) <= Place(u)
  BY SkipUntilIs DEF Inline, Later
<1>2. SkipLine(lx) = skipOne(u)
  BY DEF SkipLine
<1> HIDE DEF u
<1>3. Place(skipOne(u)) = IF u.ch = eof_sym THEN Place(u) ELSE Place(u) + 1
  BY <1>1, SkipOneIs
<1>4. Place(lx) \in 1 .. Len(text) /\ Len(text) \in Nat /\ Place(u) \in Int
      /\ (u.ch = eof_sym => Place(u) = Len(text) + 1)
  BY <1>1, PlaceType, TextFacts
<1> QED BY <1>1, <1>2, <1>3, <1>4

(* The line of a mnemonic.                                                 *)
LEMMA OperationStep ==
    ASSUME text \in Source, lexer \in Ready, Operation
    PROVE  StatementStep
<1>1. PICK made \in {parse_op(lexer)} : \E behind \in {nextTok(made.lexer)} :
         /\ lexer' = Loop(parse_comment(behind))
         /\ AddStatements(IF made.lexer.process = "running" THEN made.nodes ELSE <<>>)
         /\ IF ~LineEnds(behind) THEN SetError("E_UNEXPSYM")
            ELSE IF lexer.token.type = "EQU" THEN SetError("E_UNKKEYWORD")
            ELSE UNCHANGED error
  BY DEF Operation
<1>2. PICK behind \in {nextTok(made.lexer)} :
         /\ lexer' = Loop(parse_comment(behind))
         /\ AddStatements(IF made.lexer.process = "running" THEN made.nodes ELSE <<>>)
         /\ IF ~LineEnds(behind) THEN SetError("E_UNEXPSYM")
            ELSE IF lexer.token.type = "EQU" THEN SetError("E_UNKKEYWORD")
            ELSE UNCHANGED error
  BY <1>1
<1> DEFINE ly == parse_comment(behind)
           ns == IF made.lexer.process = "running" THEN made.nodes ELSE <<>>
<1>3. lexer.token.kind = "OP" /\ lexer.process = "running" /\ entered' = entered
      /\ lexer \in Lexers /\ AtToken(lexer)
  BY DEF Operation, Begins, Ready
<1>4. /\ Inline(lexer, made.lexer) /\ IsSeq(made.nodes) /\ made.lexer \in Lexers
      /\ lexer.token.type = "EQU" => made.lexer.told
  BY <1>3, ParseOpIs DEF Inline, Later
<1>5. Inline(made.lexer, behind) /\ behind \in Ready /\ behind \in Lexers
  BY <1>4, NextTokIs DEF Ready, Inline, Later
<1>6. Inline(lexer, behind)
  BY <1>3, <1>4, <1>5, InlineTrans
<1>7. LineDone(behind, ly) /\ (~LineEnds(behind) => ly.told \/ ly.process = "crashed")
  BY <1>5, ParseCommentIs
<1> HIDE DEF ly
<1>8. LineDone(lexer, ly) /\ ly \in Lexers /\ Place(lexer) <= Place(ly)
  BY <1>3, <1>6, <1>7, LineDoneTrans DEF LineDone, Later
<1>9. lexer.token.at < Place(ly)
  <2>1. lexer.token.at < Place(lexer) /\ lexer.token.at \in Int
    BY <1>3, AtTokenPlace
  <2>2. Place(lexer) \in Int /\ Place(ly) \in Int
    BY <1>3, <1>8, PlaceType
  <2> QED BY <1>8, <2>1, <2>2
<1>10. Moved(lexer, lexer', {}) /\ lexer' = Follow(ly)
  BY <1>2, <1>3, <1>8, <1>9, LineDoneMoves DEF Loop, ly
<1>11. /\ ly.told => lexer'.told
       /\ ly.process = "crashed" => lexer'.process = "crashed"
  BY <1>8, <1>10, FollowReady DEF Inline, Later
<1>12. lexer.token.type = "EQU" => ly.told
  BY <1>4, <1>5, <1>7 DEF Inline, LineDone, Later
<1>13. \/ error' = error
       \/ error' \in ErrorCodes /\ (lexer'.told \/ lexer'.process = "crashed")
  BY <1>2, <1>7, <1>11, <1>12 DEF SetError, ErrorCodes
<1>14. IsSeq(ns)
  BY <1>4, EmptyIsSeq
<1>15. lexer.token # EofToken
  BY <1>3, KindInText
<1>16. text' = text /\ taken' = taken \cup {lexer.token.at}
       /\ ast' = ast \o [i \in DOMAIN ns |-> [at |-> lexer.token.at, node |-> ns[i]]]
  BY <1>2 DEF AddStatements
<1>17. entered' = entered \cup {}
  BY <1>3
<1> HIDE DEF ns
<1> QED BY <1>10, <1>13, <1>14, <1>15, <1>16, <1>17 DEF StatementStep

(* What the other statements have in common.                               *)
LEMMA PlainStep ==
    ASSUME text \in Source, lexer.token # EofToken, Moved(lexer, lexer', {}),
           NEW ns, IsSeq(ns), AddStatements(ns), entered' = entered,
           \/ error' = error
           \/ error' \in ErrorCodes /\ (lexer'.told \/ lexer'.process = "crashed")
    PROVE  StatementStep
<1>1. entered' = entered \cup {}
  OBVIOUS
<1> QED BY <1>1 DEF StatementStep, AddStatements

LEMMA EquStatementStep ==
    ASSUME text \in Source, lexer \in Ready, EquStatement
    PROVE  StatementStep
<1>1. /\ lexer.token.kind = "VAR" /\ lexer.process = "running" /\ entered' = entered /\ error' = error
      /\ lexer \in Lexers /\ AtToken(lexer)
  BY DEF EquStatement, Begins, Ready
<1>2. PICK p \in {parse_param(Follow(AfterColon))} :
         \/ /\ p.lexer.process # "running"
            /\ lexer' = p.lexer
            /\ AddStatements(<<>>)
         \/ /\ p.lexer.process = "running"
            /\ \E behind \in {skipUntil(p.lexer, eol_sym)} :
                 lexer' = Loop(Declare(parse_comment(behind), Name))
            /\ AddStatements(<<Equ(Name, p.expr)>>)
  BY DEF EquStatement
<1>3. Later(lexer, AfterName) /\ AfterName \in Lexers
  BY <1>1, NextTokIs DEF AfterName, Inline, Later
<1>4. Later(AfterName, AfterColon) /\ AfterColon \in Ready /\ AfterColon \in Lexers
  BY <1>3, PassLater DEF AfterColon, Ready
<1>5. Later(AfterColon, Follow(AfterColon)) /\ Follow(AfterColon) \in Ready /\ Follow(AfterColon) \in Lexers
  BY <1>4, FollowReady DEF Inline
<1>6. Inline(lexer, p.lexer) /\ p.lexer \in Lexers
  <2>1. AfterName.token.type = ":"
    BY DEF EquStatement
  <2>2. Inline(lexer, AfterName) /\ AtToken(AfterName)
    BY <1>1, NextTokIs DEF AfterName
  <2>3. ":" \in Symbols /\ ":" # eol_sym /\ ":" # eof_sym
    BY DEF Symbols, eol_sym, eof_sym
  <2>4. AfterName.ch = ":"
    BY <1>3, <2>1, <2>2, <2>3, SymbolTokenIs
  <2>5. Inline(AfterName, AfterColon)
    BY <1>3, <2>3, <2>4, PassIs DEF AfterColon
  <2>6. Inline(AfterColon, Follow(AfterColon))
    BY <1>4, FollowReady
  <2>7. Inline(Follow(AfterColon), p.lexer) /\ p.lexer \in Lexers
    BY <1>2, <1>5, ParamIs
  <2>8. Inline(lexer, AfterColon)
    BY <1>1, <2>2, <2>5, InlineTrans
  <2>9. Inline(lexer, Follow(AfterColon))
    BY <1>1, <2>6, <2>8, InlineTrans
  <2> QED BY <1>1, <2>7, <2>9, InlineTrans
<1>7. lexer.token # EofToken
  BY <1>1, KindInText
<1>8. CASE p.lexer.process # "running" /\ lexer' = p.lexer /\ AddStatements(<<>>)
  <2>1. Moved(lexer, lexer', {})
    BY <1>1, <1>6, <1>8, StoppedMoves DEF Inline
  <2> QED BY <1>1, <1>7, <1>8, <2>1, EmptyIsSeq, PlainStep
<1>9. CASE /\ p.lexer.process = "running"
           /\ \E behind \in {skipUntil(p.lexer, eol_sym)} :
                lexer' = Loop(Declare(parse_comment(behind), Name))
           /\ AddStatements(<<Equ(Name, p.expr)>>)
  <2> DEFINE behind == skipUntil(p.lexer, eol_sym)
             ly == parse_comment(behind)
             lz == Declare(ly, Name)
  <2>1. lexer' = Follow(lz)
    BY <1>9 DEF Loop
  <2>2. Inline(p.lexer, behind) /\ behind \in Ready
    BY <1>6, SkipUntilIs DEF Ready, Inline, Later
  <2> HIDE DEF behind
  <2>3. LineDone(behind, ly)
    BY <2>2, ParseCommentIs
  <2> HIDE DEF ly
  <2>4. LineDone(lexer, ly) /\ Place(lexer) <= Place(ly)
    BY <1>1, <1>6, <2>2, <2>3, InlineTrans, LineDoneTrans DEF LineDone, Later
  <2>5. LineDone(lexer, lz) /\ Place(ly) <= Place(lz) /\ lz \in Lexers /\ ly \in Lexers
    BY <1>1, <2>4, DeclareDone DEF LineDone, Later
  <2> HIDE DEF lz
  <2>6. lexer.token.at < Place(lz)
    <3>1. lexer.token.at < Place(lexer) /\ lexer.token.at \in Int
      BY <1>1, AtTokenPlace
    <3>2. Place(lexer) \in Int /\ Place(ly) \in Int /\ Place(lz) \in Int
      BY <1>1, <2>5, PlaceType
    <3> QED BY <2>4, <2>5, <3>1, <3>2
  <2>7. Moved(lexer, lexer', {})
    BY <1>1, <2>1, <2>5, <2>6, LineDoneMoves
  <2>8. IsSeq(<<Equ(Name, p.expr)>>)
    BY OneIsSeq
  <2> QED BY <1>1, <1>7, <1>9, <2>7, <2>8, PlainStep
<1> QED BY <1>2, <1>8, <1>9

(* A label and its colon may precede a statement.                          *)
LEMMA LabelStatementStep ==
    ASSUME text \in Source, lexer \in Ready, LabelStatement
    PROVE  StatementStep
<1> DEFINE t == lexer.token.at
           u == AfterColon.token.at
<1>1. /\ lexer.token.kind = "VAR" /\ lexer.process = "running" /\ entered' = entered /\ error' = error
      /\ lexer' = Declare(AfterColon, Name) /\ AddStatements(<<Label(Name)>>)
      /\ AfterName.token.type = ":" /\ lexer \in Lexers /\ AtToken(lexer)
  BY DEF LabelStatement, Begins, Ready
<1>2. lexer.token # EofToken
  BY <1>1, KindInText
<1>3. t \in DOMAIN text /\ t \in Int /\ t + 1 = Place(lexer) /\ text[t] \in Ident
  BY <1>1, <1>2, TokenInText, TextFacts DEF AtToken
<1>4. ":" \in Symbols /\ ":" # eol_sym /\ ":" # eof_sym
  BY DEF Symbols, eol_sym, eof_sym
<1>5. Inline(lexer, AfterName) /\ AtToken(AfterName) /\ AfterName \in Lexers
  BY <1>1, NextTokIs DEF AfterName, Inline, Later
<1>6. /\ AfterName.ch = ":" /\ AfterName.process = "running" /\ AfterName.token.at = Place(AfterName)
      /\ AfterName.token.at \in DOMAIN text /\ text[AfterName.token.at] = ":"
  BY <1>1, <1>4, <1>5, SymbolTokenIs
<1>7. AfterName.token.at = t + 1
  <2>1. lexer.ch # CH_NULL
    BY <1>1, AtTokenPlace
  <2> QED BY <1>1, <1>3, <1>6, <2>1, NextTokIs DEF AfterName
<1>8. /\ Inline(AfterName, AfterColon) /\ AtToken(AfterColon) /\ AfterColon \in Lexers
      /\ AfterColon.process = "running" =>
             /\ t + 1 < u
             /\ Spaces(t + 2, u)
             /\ u \in DOMAIN text => text[u] # Space
  <2>1. /\ Inline(AfterName, AfterColon) /\ AtToken(AfterColon) /\ AfterColon \in Lexers
        /\ AfterColon.process = "running" =>
             /\ Place(AfterName) < u
             /\ Spaces(Place(AfterName) + 1, u)
             /\ u \in DOMAIN text => text[u] # Space
    BY <1>4, <1>5, <1>6, PassIs DEF AfterColon
  <2>2. Place(AfterName) = t + 1 /\ Place(AfterName) + 1 = t + 2
    BY <1>3, <1>6, <1>7
  <2> QED BY <2>1, <2>2
<1>9. Inline(lexer, AfterColon)
  BY <1>1, <1>5, <1>8, InlineTrans
<1>10. /\ Later(AfterColon, lexer') /\ AtToken(lexer')
       /\ lexer'.process = "running" => lexer' = AfterColon
  BY <1>1, <1>8, DeclareIs
<1>11. Later(lexer, lexer')
  BY <1>1, <1>9, <1>10, LaterTrans DEF Inline
<1>12. ASSUME lexer'.process = "running" PROVE t < u /\ SameLine(lexer, AfterColon)
  <2>1. AfterColon.process = "running"
    BY <1>10, <1>12
  <2>2. u \in Int /\ u <= Place(AfterColon) /\ Place(AfterColon) \in Int
    BY <1>8, AtTokenPlace, PlaceType
  <2>3. t + 1 < u /\ Spaces(t + 2, u) /\ (u \in DOMAIN text => text[u] # Space)
    BY <1>8, <2>1
  <2>4. text[t] # eol_sym
    BY <1>3, KindsApart DEF Wordlike
  <2>5. Unbroken(t, u, AfterColon)
    <3>1. Unbroken(t + 1, Place(AfterColon), AfterColon)
      BY <1>3, <1>9, <2>1 DEF Inline
    <3>2. \A p \in DOMAIN text : p \in Int
      BY TextFacts
    <3> QED BY <1>3, <2>2, <2>4, <3>1, <3>2 DEF Unbroken
  <2>6. u \in DOMAIN text => \A q \in t .. (u - 1) : MayPrecede(q)
    <3> SUFFICES ASSUME u \in DOMAIN text, NEW q \in t .. (u - 1) PROVE MayPrecede(q)
      OBVIOUS
    <3>1. CASE q = t
      <4>1. At(q + 1) = ":"
        BY <1>6, <1>7, <3>1, TextFacts DEF At
      <4> QED BY <1>3, <3>1, <4>1 DEF MayPrecede, IsLabelPart
    <3>2. CASE q = t + 1
      <4>1. q > 1 /\ q - 1 = t /\ text[q] = ":"
        BY <1>3, <1>6, <1>7, <3>2, TextFacts
      <4> QED BY <1>3, <4>1 DEF MayPrecede, IsLabelPart
    <3>3. CASE q # t /\ q # t + 1
      <4>0. t \in 1 .. Len(text) /\ u \in 1 .. Len(text) /\ Len(text) \in Nat
            /\ DOMAIN text = 1 .. Len(text)
        BY <1>3, TextFacts
      <4>1. q \in DOMAIN text /\ t + 2 <= q /\ q < u
        <5> HIDE DEF t, u
        <5> QED BY <4>0, <3>3
      <4>2. text[q] = Space
        BY <2>3, <4>1 DEF Spaces
      <4> QED BY <4>2 DEF MayPrecede
    <3> QED BY <3>1, <3>2, <3>3
  <2> QED BY <1>3, <2>2, <2>3, <2>4, <2>5, <2>6 DEF SameLine
<1>13. Moved(lexer, lexer', {})
  BY <1>10, <1>11, <1>12 DEF Moved
<1>14. IsSeq(<<Label(Name)>>)
  BY OneIsSeq
<1> QED BY <1>1, <1>2, <1>13, <1>14, PlainStep

LEMMA UnknownNameStep ==
    ASSUME text \in Source, lexer \in Ready, UnknownName
    PROVE  StatementStep
<1> DEFINE told == Tell(AfterName)
           ly == SkipLine(told)
<1>1. /\ lexer.token.kind = "VAR" /\ entered' = entered /\ error' = error
      /\ lexer' = Follow(ly) /\ AddStatements(<<>>)
      /\ lexer \in Lexers /\ AtToken(lexer)
  BY DEF UnknownName, Begins, Ready, Loop
<1>2. Inline(lexer, AfterName) /\ AfterName \in Lexers
  BY <1>1, NextTokIs DEF AfterName, Inline, Later
<1>3. Inline(AfterName, told) /\ told \in Lexers
  BY <1>2, TellIs DEF Inline, Later
<1> HIDE DEF told
<1>4. Inline(lexer, told)
  BY <1>1, <1>2, <1>3, InlineTrans
<1>5. LineDone(told, ly)
  BY <1>3, SkipLineDone DEF SkipLine
<1> HIDE DEF ly
<1>6. LineDone(lexer, ly) /\ Place(lexer) <= Place(ly) /\ ly \in Lexers
  BY <1>1, <1>4, <1>5, LineDoneTrans DEF LineDone, Later
<1>7. lexer.token.at < Place(ly)
  <2>1. lexer.token.at < Place(lexer) /\ lexer.token.at \in Int
    BY <1>1, AtTokenPlace
  <2>2. Place(lexer) \in Int /\ Place(ly) \in Int
    BY <1>1, <1>6, PlaceType
  <2> QED BY <1>6, <2>1, <2>2
<1>8. Moved(lexer, lexer', {})
  BY <1>1, <1>6, <1>7, LineDoneMoves
<1> QED BY <1>1, <1>8, KindInText, EmptyIsSeq, PlainStep

(* A symbol is the current character, and there is more of the text.       *)
LEMMA SymbolStep ==
    ASSUME text \in Source, lexer \in Ready, lexer.token.kind = "SYM", lexer.token # EofToken,
           NEW ly, LineDone(lexer, ly), Place(lexer) < Place(ly), lexer' = Loop(ly),
           AddStatements(<<>>), entered' = entered, error' = error
    PROVE  StatementStep
<1>1. lexer \in Lexers /\ AtToken(lexer)
  BY DEF Ready
<1>2. lexer.token.at = Place(lexer)
  BY <1>1, AtTokenPlace
<1>3. Moved(lexer, lexer', {})
  BY <1>2, LineDoneMoves DEF Loop
<1> QED BY <1>3, EmptyIsSeq, PlainStep

LEMMA CommentStep ==
    ASSUME text \in Source, lexer \in Ready, Comment
    PROVE  StatementStep
<1>1. /\ lexer.token.kind = "SYM" /\ lexer.token.type = ";" /\ entered' = entered /\ error' = error
      /\ lexer' = Loop(parse_comment(lexer)) /\ AddStatements(<<>>)
  BY DEF Comment, Begins
<1>2. LineDone(lexer, parse_comment(lexer)) /\ Place(lexer) < Place(parse_comment(lexer))
  BY <1>1, ParseCommentIs
<1>3. lexer.token # EofToken
  BY <1>1, KindInText
<1> QED BY <1>1, <1>2, <1>3, SymbolStep

LEMMA EmptyLineStep ==
    ASSUME text \in Source, lexer \in Ready, EmptyLine
    PROVE  StatementStep
<1>1. /\ lexer.token.kind = "SYM" /\ lexer.token.type = eol_sym /\ entered' = entered /\ error' = error
      /\ lexer' = Loop(skipOne(lexer)) /\ AddStatements(<<>>) /\ lexer \in Lexers /\ AtToken(lexer)
  BY DEF EmptyLine, Begins, Ready
<1>2. lexer.ch = eol_sym /\ eol_sym # eof_sym /\ eol_sym # "L_EOF"
  BY <1>1, SymbolTokenIs, KindsApart DEF eol_sym, eof_sym
<1>3. LineDone(lexer, skipOne(lexer)) /\ Place(skipOne(lexer)) = Place(lexer) + 1
  BY <1>1, <1>2, LineDoneHere, SkipOneIs
<1>4. Place(lexer) < Place(skipOne(lexer))
  <2>1. Place(lexer) \in 0 .. (Len(text) + 1)
    BY <1>1, PlaceType
  <2> QED BY <1>3, <2>1
<1>5. lexer.token # EofToken
  BY <1>1, <1>2, KindInText
<1> QED BY <1>1, <1>3, <1>4, <1>5, SymbolStep

LEMMA StraySymbolStep ==
    ASSUME text \in Source, lexer \in Ready, StraySymbol
    PROVE  StatementStep
<1>1. /\ entered' = entered /\ error' = "E_UNEXPSYM" /\ lexer' = Exit(lexer) /\ AddStatements(<<>>)
      /\ lexer.token.type # "L_EOF" /\ lexer \in Lexers
  BY DEF StraySymbol, Ready, SetError, LineEnds
<1>2. Later(lexer, lexer') /\ lexer'.process # "running" /\ lexer'.told
  BY <1>1, ExitIs DEF Inline
<1>3. Moved(lexer, lexer', {})
  BY <1>1, <1>2, StoppedMoves
<1>4. error' \in ErrorCodes
  BY <1>1 DEF ErrorCodes
<1> QED BY <1>1, <1>2, <1>3, <1>4, KindInText, EmptyIsSeq, PlainStep

LEMMA MisplacedStep ==
    ASSUME text \in Source, lexer \in Ready, Misplaced
    PROVE  StatementStep
<1> DEFINE told == Tell(lexer)
<1>1. /\ entered' = entered /\ error' = "E_UNEXPTOKEN" /\ lexer' = Halt(told, "crashed")
      /\ AddStatements(<<>>) /\ lexer.token.kind # "SYM" /\ lexer \in Lexers
  BY DEF Misplaced, Begins, Ready, SetError
<1>2. Later(lexer, told) /\ told \in Lexers /\ told.told
  BY <1>1, TellIs DEF Inline, Later
<1> HIDE DEF told
<1>3. Later(told, lexer') /\ lexer'.process # "running" /\ lexer'.told
  BY <1>1, <1>2, HaltIs DEF Inline
<1>4. Moved(lexer, lexer', {})
  BY <1>1, <1>2, <1>3, LaterTrans, StoppedMoves
<1>5. error' \in ErrorCodes
  BY <1>1 DEF ErrorCodes
<1> QED BY <1>1, <1>3, <1>4, <1>5, KindInText, EmptyIsSeq, PlainStep

(* The lexer's own message; the rest of the line is skipped.               *)
LEMMA UnlexableStep ==
    ASSUME text \in Source, lexer \in Ready, Unlexable
    PROVE  StatementStep
<1> DEFINE ly == SkipLine(lexer)
<1>1. /\ lexer.token.kind = "KIND_NONE" /\ entered' = entered /\ error' = error
      /\ lexer' = Follow(ly) /\ AddStatements(<<>>) /\ lexer \in Lexers /\ AtToken(lexer)
  BY DEF Unlexable, Begins, Ready, Loop
<1>2. lexer.token # EofToken
  BY <1>1, KindInText
<1>3. lexer.token.at = Place(lexer) /\ lexer.token.at \in DOMAIN text
  BY <1>1, <1>2, AtTokenPlace, TokenInText
<1>4. LineDone(lexer, ly) /\ Place(lexer) < Place(ly)
  BY <1>1, <1>3, SkipLineDone, SkipLineAdvances DEF SkipLine
<1> HIDE DEF ly
<1>5. Moved(lexer, lexer', {})
  BY <1>1, <1>3, <1>4, LineDoneMoves
<1> QED BY <1>1, <1>2, <1>5, EmptyIsSeq, PlainStep

(* The included text begins behind the closing quote of its name.          *)
LEMMA FileBegins ==
    ASSUME text \in Source, NEW lx \in Ready, lx.token.kind \in {"INT"}, NEW name, name = Follow(lx),
           name.token.kind = "STRING"
    PROVE  Moved(lx, Follow([name EXCEPT !.ch = CH_NULL]), {name.cursym})
<1> DEFINE w == [name EXCEPT !.ch = CH_NULL]
           lf == Follow(w)
           e == name.cursym
           t == lx.token.at
<1>1. lx \in Lexers /\ AtToken(lx)
  BY DEF Ready
<1>2. Inline(lx, name) /\ Later(lx, name) /\ name \in Lexers /\ AtToken(name)
  BY <1>1, FollowReady DEF Inline, Ready
<1>3. name.ch = Quote /\ Quote # eof_sym /\ Quote # CH_NULL /\ eof_sym # CH_NULL /\ Quote # eol_sym
  BY <1>2, AtTokenPlace DEF Quote, eof_sym, CH_NULL, eol_sym
<1>4. e \in DOMAIN text /\ text[e] = Quote /\ Place(name) = e /\ name.process = "running"
  BY <1>2, <1>3, AtChar
<1>5. name \in Records /\ Placed(name)
  BY <1>2, LexerFields
<1>6. /\ w \in Records /\ w.ch = CH_NULL /\ w.cursym = e /\ w.told = name.told
      /\ w.process = "running" /\ w.quoted = name.quoted
  <2>1. CH_NULL \in Chars \cup {CH_NULL, eof_sym}
    OBVIOUS
  <2> QED BY <1>4, <1>5, <2>1 DEF Records
<1> HIDE DEF w
<1>7. Placed(w)
  <2>1. \A q \in name.quoted : q < e \/ (q = e /\ text[q] = Quote)
    BY <1>5 DEF Placed
  <2> QED BY <1>4, <1>6, <2>1 DEF Placed
<1>8. w \in Lexers /\ Place(w) = e
  BY <1>3, <1>6, <1>7, LexerFields DEF Place
<1>9. /\ Later(w, lf) /\ AtToken(lf) /\ lf \in Lexers
      /\ lf.process = "running" => lf.token.at = e + 1
  BY <1>6, <1>8, FollowIs DEF Inline, Later
<1> HIDE DEF lf
<1>10. /\ t \in Int /\ Place(lx) \in Int /\ t <= Place(lx) /\ Place(lf) \in Int /\ lf.token.at \in Int
       /\ Len(text) \in Nat /\ DOMAIN text = 1 .. Len(text) /\ e \in Int
  BY <1>1, <1>4, <1>9, AtTokenPlace, PlaceType, TextFacts
<1>11. Place(lx) <= e /\ e <= Place(lf) /\ t <= e
  BY <1>2, <1>4, <1>8, <1>9, <1>10 DEF Later
<1>12. lf.quoted \subseteq DOMAIN text /\ name.quoted \subseteq lf.quoted
  BY <1>6, <1>9 DEF Lexers, Later
<1>13. Later(lx, lf)
  <2>1. lf.ch # CH_NULL
    BY <1>9, AtTokenPlace
  <2>2. lx.told => lf.told
    BY <1>2, <1>6, <1>9 DEF Later
  <2>3. lx.process # "running" => lf.process = lx.process
    BY <1>2, <1>4 DEF Later
  <2>4. lx.quoted \subseteq lf.quoted
    BY <1>2, <1>12 DEF Later
  <2>6. lf.process # "done"
    BY <1>6, <1>9 DEF Later
  <2>5. \A q \in lf.quoted : q \notin lx.quoted => q >= Place(lx)
    <3>1. \A q \in lf.quoted : q \in Int
      BY <1>10, <1>12
    <3>2. \A q \in lf.quoted : q \notin name.quoted => q >= e
      BY <1>6, <1>8, <1>9 DEF Later
    <3>3. \A q \in name.quoted : q \notin lx.quoted => q >= Place(lx)
      BY <1>2 DEF Later
    <3> QED BY <1>10, <1>11, <3>1, <3>2, <3>3
  <2> QED BY <1>9, <1>10, <1>11, <2>1, <2>2, <2>3, <2>4, <2>5, <2>6 DEF Later
<1>14. lf.process # "running" => lf.token.at = Len(text) + 1
  BY <1>9, StoppedAtEnd, EofTokenType
<1>15. e < lf.token.at
  BY <1>4, <1>9, <1>10, <1>14
<1>16. Unbroken(t, e, lf)
  <2>1. Unbroken(Place(lx), e, name)
    BY <1>2, <1>4 DEF Inline
  <2>2. \A p \in DOMAIN text : t <= p /\ p < Place(lx) => text[p] # eol_sym
    BY TokenUnbroken
  <2> QED BY <1>10, <1>12, <2>1, <2>2 DEF Unbroken
<1>17. ASSUME lf.process = "running" PROVE NextLine(lx, lf, {e})
  <2>1. lf.token.at = e + 1
    BY <1>9, <1>17
  <2>2. Spaces(e + 1, e + 1)
    BY <1>10 DEF Spaces
  <2> QED BY <1>4, <1>11, <1>15, <1>16, <2>1, <2>2 DEF NextLine
<1>18. lf.process = "running" => t < lf.token.at
  BY <1>10, <1>11, <1>15
<1>19. Moved(lx, lf, {e})
  BY <1>4, <1>9, <1>11, <1>13, <1>15, <1>17, <1>18 DEF Moved
<1> QED BY <1>19 DEF lf, w

LEMMA IncludeStep ==
    ASSUME text \in Source, lexer \in Ready, IncludeStatement
    PROVE  StatementStep
<1>1. /\ lexer.token.kind = "INT" /\ AddStatements(<<>>) /\ lexer \in Lexers /\ AtToken(lexer)
  BY DEF IncludeStatement, Begins, Ready
<1>2. PICK name \in {Follow(lexer)} :
           \/ /\ name.token.kind = "STRING"
              /\ lexer' = Loop([name EXCEPT !.ch = CH_NULL])
              /\ entered' = entered \cup {name.cursym}
              /\ UNCHANGED error
           \/ /\ lexer' = Exit(name)
              /\ UNCHANGED entered
              /\ IF name.process = "running" THEN SetError("E_SYNTAXERROR")
                 ELSE UNCHANGED error
  BY DEF IncludeStatement
<1>3. lexer.token # EofToken
  BY <1>1, KindInText
<1>4. CASE /\ name.token.kind = "STRING"
           /\ lexer' = Loop([name EXCEPT !.ch = CH_NULL])
           /\ entered' = entered \cup {name.cursym}
           /\ UNCHANGED error
  <2>1. Moved(lexer, lexer', {name.cursym})
    BY <1>1, <1>2, <1>4, FileBegins DEF Loop
  <2> QED BY <1>1, <1>3, <1>4, <2>1, EmptyIsSeq DEF StatementStep, AddStatements
<1>5. CASE /\ lexer' = Exit(name)
           /\ UNCHANGED entered
           /\ IF name.process = "running" THEN SetError("E_SYNTAXERROR") ELSE UNCHANGED error
  <2>1. Later(lexer, name) /\ name \in Lexers
    BY <1>1, <1>2, FollowReady DEF Inline
  <2>2. Later(name, lexer') /\ lexer'.process # "running" /\ lexer'.told
    BY <1>5, <2>1, ExitIs DEF Inline
  <2>3. Moved(lexer, lexer', {})
    BY <1>1, <2>1, <2>2, LaterTrans, StoppedMoves
  <2>4. error' = error \/ error' \in ErrorCodes
    BY <1>5 DEF SetError, ErrorCodes
  <2> QED BY <1>1, <1>3, <1>5, <2>2, <2>3, <2>4, EmptyIsSeq, PlainStep
<1> QED BY <1>2, <1>4, <1>5

(* END and the character behind it may precede a statement.                *)
LEMMA EndStatementStep ==
    ASSUME text \in Source, lexer \in Ready, EndStatement
    PROVE  StatementStep
<1> DEFINE t == lexer.token.at
           d == Declare(lexer, "ENDPRG")
           u == Pass(lexer).token.at
<1>1. /\ lexer.token.kind = "INT" /\ lexer.token.type = "END" /\ entered' = entered /\ error' = error
      /\ lexer' = Pass(d) /\ AddStatements(<<Label("ENDPRG")>>) /\ lexer \in Lexers /\ AtToken(lexer)
  BY DEF EndStatement, Begins, Ready
<1>2. lexer.token # EofToken
  BY <1>1, KindInText
<1>3. t \in DOMAIN text /\ t \in Int /\ t + 1 = Place(lexer) /\ text[t] = "END" /\ lexer.ch # CH_NULL
  BY <1>1, <1>2, TokenInText, TextFacts DEF AtToken
<1>4. Later(lexer, d) /\ d \in Lexers /\ (d.process = "running" => d = lexer)
  BY <1>1, DeclareIs DEF Later
<1> HIDE DEF d
<1>5. Later(d, lexer') /\ lexer' \in Ready
  BY <1>1, <1>4, PassLater
<1>6. Later(lexer, lexer')
  BY <1>1, <1>4, <1>5, LaterTrans
<1>7. ASSUME lexer'.process # "running" PROVE Moved(lexer, lexer', {})
  BY <1>1, <1>6, <1>7, StoppedMoves
<1>8. ASSUME lexer'.process = "running" /\ lexer.ch \in {eol_sym, eof_sym} PROVE Moved(lexer, lexer', {})
  <2>1. lexer' = Follow(skipOne(lexer))
    BY <1>1, <1>4, <1>5, <1>8 DEF Pass, Later
  <2>2. LineDone(lexer, skipOne(lexer)) /\ Place(lexer) <= Place(skipOne(lexer)) /\ skipOne(lexer) \in Lexers
    BY <1>1, <1>8, LineDoneHere DEF LineDone, Later
  <2>3. t < Place(skipOne(lexer))
    <3>1. Place(lexer) \in Int /\ Place(skipOne(lexer)) \in Int
      BY <1>1, <2>2, PlaceType
    <3> QED BY <1>3, <2>2, <3>1
  <2> QED BY <1>1, <2>1, <2>2, <2>3, LineDoneMoves
<1>9. ASSUME lexer'.process = "running" /\ lexer.ch \notin {eol_sym, eof_sym} PROVE Moved(lexer, lexer', {})
  <2>1. lexer' = Pass(lexer)
    BY <1>1, <1>4, <1>5, <1>9 DEF Later
  <2>2. /\ Inline(lexer, lexer') /\ AtToken(lexer') /\ lexer' \in Lexers
        /\ Place(lexer) < u
        /\ Spaces(Place(lexer) + 1, u)
        /\ u \in DOMAIN text => text[u] # Space
    BY <1>1, <1>9, <2>1, PassIs
  <2>3. u \in Int /\ Place(lexer) \in Int /\ u <= Place(lexer') /\ Place(lexer') \in Int
    BY <1>1, <2>1, <2>2, AtTokenPlace, PlaceType
  <2>4. t < u
    BY <1>3, <2>2, <2>3
  <2>5. text[t] # eol_sym
    BY <1>3 DEF eol_sym
  <2>6. Unbroken(t, u, lexer')
    <3>1. Unbroken(t + 1, Place(lexer'), lexer')
      BY <1>3, <1>9, <2>2 DEF Inline
    <3>2. \A p \in DOMAIN text : p \in Int
      BY TextFacts
    <3> QED BY <1>3, <2>3, <2>5, <3>1, <3>2 DEF Unbroken
  <2>7. u \in DOMAIN text => \A q \in t .. (u - 1) : MayPrecede(q)
    <3> SUFFICES ASSUME u \in DOMAIN text, NEW q \in t .. (u - 1) PROVE MayPrecede(q)
      OBVIOUS
    <3>1. CASE q = t
      BY <1>3, <3>1 DEF MayPrecede
    <3>2. CASE q = t + 1
      <4>1. q > 1 /\ q - 1 = t
        BY <1>3, <3>2, TextFacts
      <4> QED BY <1>3, <4>1 DEF MayPrecede
    <3>3. CASE q # t /\ q # t + 1
      <4>0. t \in 1 .. Len(text) /\ u \in 1 .. Len(text) /\ Len(text) \in Nat
            /\ DOMAIN text = 1 .. Len(text)
        BY <1>3, TextFacts
      <4>1. q \in DOMAIN text /\ t + 2 <= q /\ q < u
        <5> HIDE DEF t, u
        <5> QED BY <4>0, <3>3
      <4>2. t + 2 = Place(lexer) + 1
        BY <1>3
      <4>3. text[q] = Space
        BY <2>2, <4>1, <4>2 DEF Spaces
      <4> QED BY <4>3 DEF MayPrecede
    <3> QED BY <3>1, <3>2, <3>3
  <2>8. SameLine(lexer, lexer')
    BY <2>1, <2>2, <2>5, <2>6, <2>7 DEF SameLine
  <2> QED BY <1>6, <2>1, <2>2, <2>4, <2>8 DEF Moved
<1>10. IsSeq(<<Label("ENDPRG")>>)
  BY OneIsSeq
<1>11. Moved(lexer, lexer', {})
  BY <1>7, <1>8, <1>9
<1> QED BY <1>1, <1>2, <1>10, <1>11, PlainStep

-----------------------------------------------------------------------------
(* The invariant.  The lexer's place must be known from its token, a line  *)
(* from the statements taken in it, and what is said of the lines before   *)
(* the current statement has to be said of that statement, too.            *)

Live == lexer.process \in {"running", "done"}

ParserInv ==
    /\ text \in Source
    /\ lexer \in Lexers /\ AtToken(lexer)
    /\ error \in ErrorCodes
    /\ error # NoError => lexer.told \/ lexer.process = "crashed"
    /\ entered \subseteq DOMAIN text /\ \A e \in entered : e < lexer.token.at
    /\ ast \in Seq([at : taken, node : {ast[i].node : i \in DOMAIN ast}])
    /\ LinesBefore(BreaksOf(lexer.quoted, entered), taken, lexer.token.at, Live)

(* The text stays, and what it says with it.                               *)
LEMMA SameText ==
    ASSUME text' = text
    PROVE  /\ Source' = Source
           /\ Lexers' = Lexers
           /\ (AtToken(lexer))' <=> AtToken(lexer')
           /\ (BreaksOf(lexer.quoted, entered))' = BreaksOf(lexer'.quoted, entered')
           /\ (LinesBefore(BreaksOf(lexer.quoted, entered), taken, lexer.token.at, Live))'
                <=> LinesBefore(BreaksOf(lexer'.quoted, entered'), taken', lexer'.token.at, Live')
<1>1. Source' = Source
  BY DEF Source, Chars, Keywords
<1>2. EofToken' = EofToken /\ Tokens' = Tokens
  BY DEF EofToken, Tokens
<1>3. Lexers' = Lexers
  BY <1>2 DEF Lexers, Placed
<1>4. (AtToken(lexer))' <=> AtToken(lexer')
  BY <1>2 DEF AtToken, Place
<1>5. (BreaksOf(lexer.quoted, entered))' = BreaksOf(lexer'.quoted, entered')
  BY DEF BreaksOf
<1>6. \A q : (MayPrecede(q))' <=> MayPrecede(q)
  BY DEF MayPrecede, IsLabelPart, At
<1>7. (LinesBefore(BreaksOf(lexer.quoted, entered), taken, lexer.token.at, Live))'
        <=> LinesBefore(BreaksOf(lexer'.quoted, entered'), taken', lexer'.token.at, Live')
  BY <1>5, <1>6 DEF LinesBefore, Fits, Accounted
<1> QED BY <1>1, <1>3, <1>4, <1>5, <1>7

LEMMA NewLexerIs ==
    ASSUME text \in Source
    PROVE  NewLexer \in Lexers /\ Place(NewLexer) = 0 /\ NewLexer.ch = CH_NULL
           /\ NewLexer.process = "running"
<1>1. Token("KIND_NONE", "TOK_NONE", NoIdent, 0, 0) \in Tokens
  <2>1. NoIdent \in Seq(Chars \cup {eof_sym})
    BY NoIdentType
  <2> QED BY <2>1, TextFacts DEF Token, Tokens, Kinds, Types
<1>2. NewLexer.cursym = 0 /\ NewLexer.ch = CH_NULL /\ NewLexer.quoted = {} /\ NewLexer.process = "running"
  BY DEF NewLexer
<1>3. NewLexer \in Records
  BY <1>1, TextFacts DEF NewLexer, Records
<1>4. Placed(NewLexer)
  BY <1>2 DEF Placed
<1>5. CH_NULL # eof_sym
  BY DEF CH_NULL, eof_sym
<1> QED BY <1>2, <1>3, <1>4, <1>5, LexerFields DEF Place

LEMMA StartedInv ==
    ASSUME text \in Source, Started
    PROVE  ParserInv
<1>1. lexer = Follow(NewLexer) /\ error = NoError /\ ast = <<>> /\ taken = {} /\ entered = {}
  BY DEF Started, Loop
<1>2. NewLexer \in Lexers /\ Place(NewLexer) = 0 /\ NewLexer.ch = CH_NULL /\ NewLexer.process = "running"
  BY NewLexerIs
<1>3. /\ Later(NewLexer, lexer) /\ AtToken(lexer) /\ lexer \in Lexers
      /\ lexer.process = "running" => lexer.token.at = 1
  BY <1>1, <1>2, FollowIs DEF Inline, Later
<1>4. lexer.process # "running" => lexer.token.at = Len(text) + 1
  BY <1>3, StoppedAtEnd, EofTokenType
<1>5. lexer.process # "done"
  BY <1>2, <1>3 DEF Later
<1>6. ast \in Seq([at : taken, node : {ast[i].node : i \in DOMAIN ast}])
  BY <1>1, EmptySeq
<1> DEFINE B == BreaksOf(lexer.quoted, entered)
           t == lexer.token.at
<1>7. B \subseteq Nat /\ \A b \in B : ~(b < 1)
  BY <1>1, TextFacts DEF BreaksOf
<1>8. StartIn(B, 1) = 1
  BY <1>7 DEF StartIn
<1> HIDE DEF B
<1>9. LinesBefore(B, {}, t, Live)
  <2>1. CASE lexer.process = "running"
    <3>1. t = 1
      BY <1>3, <2>1
    <3>2. Fits(B, 1)
      BY <1>8 DEF Fits
    <3> HIDE DEF t
    <3> QED BY <1>8, <3>1, <3>2 DEF LinesBefore
  <2>2. CASE lexer.process # "running"
    <3>1. t \notin DOMAIN text /\ ~Live
      BY <1>4, <1>5, <2>2, TextFacts DEF Live
    <3> HIDE DEF t
    <3> QED BY <3>1 DEF LinesBefore
  <2> QED BY <2>1, <2>2
<1> QED BY <1>1, <1>3, <1>6, <1>9 DEF ParserInv, ErrorCodes, B

(* Each statement has the place it was parsed from.                        *)
AstType(S, a) == a \in Seq([at : S, node : {a[i].node : i \in DOMAIN a}])

LEMMA AstGrows ==
    ASSUME NEW S, NEW a, AstType(S, a),
           NEW ns, IsSeq(ns), NEW t,
           NEW b, b = a \o [i \in DOMAIN ns |-> [at |-> t, node |-> ns[i]]]
    PROVE  AstType(S \cup {t}, b)
<1> DEFINE A == [at : S, node : {a[i].node : i \in DOMAIN a}]
           new == [i \in DOMAIN ns |-> [at |-> t, node |-> ns[i]]]
           R == A \cup {new[i] : i \in DOMAIN new}
           W == {b[i].node : i \in DOMAIN b}
<1>1. PICK T : ns \in Seq(T)
  BY DEF IsSeq
<1>2. Len(ns) \in Nat /\ DOMAIN ns = 1 .. Len(ns)
  BY <1>1, LenProperties
<1>3. new \in Seq({new[i] : i \in DOMAIN new})
  <2>1. new = [i \in 1 .. Len(ns) |-> new[i]] /\ DOMAIN new = 1 .. Len(ns)
    BY <1>2
  <2> HIDE DEF new
  <2> QED BY <1>2, <2>1
<1>4. \A i \in DOMAIN new : new[i] = [at |-> t, node |-> new[i].node]
  OBVIOUS
<1>5. a \in Seq(A)
  BY DEF AstType
<1>6. b = a \o new
  OBVIOUS
<1>7. \A x \in A : x.at \in S /\ x = [at |-> x.at, node |-> x.node]
  OBVIOUS
<1> HIDE DEF new, A
<1>8. a \in Seq(R) /\ new \in Seq(R)
  BY <1>3, <1>5
<1>9. b \in Seq(R)
  BY <1>6, <1>8, ConcatProperties, ZenonT(30)
<1>10. \A x \in R : x.at \in S \cup {t} /\ x = [at |-> x.at, node |-> x.node]
  BY <1>4, <1>7
<1> HIDE DEF R
<1>11. DOMAIN b = 1 .. Len(b) /\ Len(b) \in Nat /\ b = [i \in 1 .. Len(b) |-> b[i]]
       /\ \A i \in 1 .. Len(b) : b[i] \in R
  BY <1>9, LenProperties, ElementOfSeq
<1>12. \A i \in 1 .. Len(b) : b[i] \in [at : S \cup {t}, node : W]
  <2> SUFFICES ASSUME NEW i \in 1 .. Len(b) PROVE b[i] \in [at : S \cup {t}, node : W]
    OBVIOUS
  <2>1. b[i].node \in W
    BY <1>11
  <2>2. b[i].at \in S \cup {t} /\ b[i] = [at |-> b[i].at, node |-> b[i].node]
    BY <1>10, <1>11
  <2> HIDE DEF W
  <2> QED BY <2>1, <2>2
<1> HIDE DEF W
<1>13. b \in Seq([at : S \cup {t}, node : W])
  <2> DEFINE X == [at : S \cup {t}, node : W]
  <2>1. \A i \in 1 .. Len(b) : b[i] \in X
    BY <1>12
  <2> HIDE DEF X
  <2>2. b \in [1 .. Len(b) -> X]
    BY <1>11, <2>1
  <2>3. b \in Seq(X)
    BY <1>11, <2>2, SeqDef, ZenonT(30)
  <2> QED BY <2>3 DEF X
<1> QED BY <1>13 DEF W, AstType

LEMMA NextRuns ==
    ASSUME Next
    PROVE  lexer.process = "running"
BY DEF Next, Operation, EquStatement, LabelStatement, UnknownName, Comment, EmptyLine, EndOfText,
       StraySymbol, IncludeStatement, EndStatement, Unlexable, Misplaced, Begins

LEMMA NextIsStep ==
    ASSUME text \in Source, lexer \in Ready, Next
    PROVE  StatementStep \/ EndOfText
BY OperationStep, EquStatementStep, LabelStatementStep, UnknownNameStep, CommentStep, EmptyLineStep,
   StraySymbolStep, IncludeStep, EndStatementStep, UnlexableStep, MisplacedStep DEF Next

LEMMA StatementStepInv ==
    ASSUME ParserInv, lexer.process = "running", StatementStep
    PROVE  ParserInv'
<1> DEFINE t == lexer.token.at
<1>1. PICK news : Moved(lexer, lexer', news) /\ entered' = entered \cup news
  BY DEF StatementStep
<1>2. /\ text \in Source /\ lexer \in Ready /\ lexer \in Lexers /\ entered \subseteq DOMAIN text
      /\ \A e \in entered : e < t
      /\ text' = text /\ taken' = taken \cup {t} /\ lexer.token # EofToken
  BY DEF ParserInv, StatementStep, Ready
<1>3. t \in DOMAIN text
  BY <1>2, TokenInText
<1>4. LinesBefore(BreaksOf(lexer.quoted, entered), taken, t, TRUE)
  <2>1. Live
    BY DEF Live
  <2> QED BY <2>1 DEF ParserInv
<1>5. LinesBefore(BreaksOf(lexer'.quoted, entered'), taken', lexer'.token.at, lexer'.process = "running")
  <2>1. LinesBefore(BreaksOf(lexer'.quoted, entered \cup news), taken \cup {t}, lexer'.token.at,
                    lexer'.process = "running")
    BY <1>1, <1>2, <1>3, <1>4, MovedKeeps
  <2> QED BY <1>1, <1>2, <2>1
<1>6. Later(lexer, lexer') /\ AtToken(lexer') /\ lexer' \in Lexers
  BY <1>1 DEF Moved, Later
<1>7. Live' => lexer'.process = "running"
  BY <1>6 DEF Live, Later
<1>8. LinesBefore(BreaksOf(lexer'.quoted, entered'), taken', lexer'.token.at, Live')
  BY <1>5, <1>7 DEF LinesBefore
<1>9. entered' \subseteq DOMAIN text /\ \A e \in entered' : e < lexer'.token.at
  <2>1. \A e \in news : e \in DOMAIN text /\ e < lexer'.token.at
    BY <1>1 DEF Moved
  <2>2. t < lexer'.token.at
    <3>1. lexer'.process = "running" => t < lexer'.token.at
      BY <1>1 DEF Moved
    <3>2. lexer'.process # "running" => lexer'.token.at = Len(text) + 1
      BY <1>2, <1>6, StoppedAtEnd, EofTokenType
    <3> QED BY <1>2, <1>3, <3>1, <3>2, TextFacts
  <2>3. \A e \in entered : e < lexer'.token.at
    <3>1. lexer'.token.at \in Int /\ t \in Int /\ \A e \in entered : e \in Int
      BY <1>2, <1>6, AtTokenPlace, TextFacts DEF Ready
    <3> QED BY <1>2, <2>2, <3>1
  <2> QED BY <1>1, <1>2, <2>1, <2>3
<1>10. error' \in ErrorCodes /\ (error' # NoError => lexer'.told \/ lexer'.process = "crashed")
  <2>1. error # NoError => lexer'.told
    BY <1>6 DEF ParserInv, Later
  <2> QED BY <2>1 DEF ParserInv, StatementStep
<1>11. ast' \in Seq([at : taken', node : {ast'[i].node : i \in DOMAIN ast'}])
  <2>1. PICK ns : IsSeq(ns) /\ ast' = ast \o [i \in DOMAIN ns |-> [at |-> t, node |-> ns[i]]]
    BY DEF StatementStep
  <2>2. AstType(taken, ast)
    BY DEF ParserInv, AstType
  <2> HIDE DEF t
  <2>3. AstType(taken \cup {t}, ast')
    BY <2>1, <2>2, AstGrows
  <2>4. taken' = taken \cup {t}
    BY <1>2
  <2> QED BY <2>3, <2>4 DEF AstType
<1>12. (LinesBefore(BreaksOf(lexer.quoted, entered), taken, lexer.token.at, Live))'
  BY <1>2, <1>8, SameText
<1> QED BY <1>2, <1>6, <1>9, <1>10, <1>11, <1>12, SameText DEF ParserInv, ErrorCodes

(* The end of the text: nothing is taken.                                  *)
LEMMA EndOfTextInv ==
    ASSUME ParserInv, EndOfText
    PROVE  ParserInv'
<1>1. /\ text' = text /\ error' = error /\ ast' = ast /\ taken' = taken /\ entered' = entered
      /\ lexer' = [lexer EXCEPT !.process = "done"] /\ lexer.process = "running"
      /\ lexer.token.type = "L_EOF"
  BY DEF EndOfText, Begins
<1>2. text \in Source /\ lexer \in Lexers /\ AtToken(lexer)
  BY DEF ParserInv
<1>3. lexer.ch = eof_sym /\ lexer.token = EofToken
  BY <1>1, <1>2, EofTokenIs
<1>4. lexer \in Records /\ Placed(lexer)
  BY <1>2, LexerFields
<1>5. /\ lexer' \in Records /\ lexer'.cursym = lexer.cursym /\ lexer'.ch = lexer.ch
      /\ lexer'.token = lexer.token /\ lexer'.quoted = lexer.quoted /\ lexer'.told = lexer.told
      /\ lexer'.process = "done"
  BY <1>1, <1>4 DEF Records
<1>6. Placed(lexer') /\ AtToken(lexer')
  BY <1>2, <1>3, <1>4, <1>5 DEF Placed, AtToken
<1>7. lexer' \in Lexers
  BY <1>5, <1>6, LexerFields
<1>8. LinesBefore(BreaksOf(lexer'.quoted, entered'), taken', lexer'.token.at, Live')
  <2>1. Live /\ Live'
    BY <1>1, <1>5 DEF Live
  <2> QED BY <1>1, <1>5, <2>1 DEF ParserInv
<1>9. error' # NoError => lexer'.told
  BY <1>1, <1>5 DEF ParserInv
<1>10. lexer'.token = lexer.token
  BY <1>5
<1> QED BY <1>1, <1>2, <1>6, <1>7, <1>8, <1>9, <1>10, SameText DEF ParserInv, ErrorCodes

LEMMA NextInv ==
    ASSUME ParserInv, Next
    PROVE  ParserInv'
<1>1. text \in Source /\ lexer \in Ready
  BY DEF ParserInv, Ready
<1> QED BY <1>1, NextRuns, NextIsStep, StatementStepInv, EndOfTextInv

LEMMA StutterInv ==
    ASSUME ParserInv, UNCHANGED vars
    PROVE  ParserInv'
<1>1. /\ text' = text /\ error' = error /\ ast' = ast /\ taken' = taken /\ entered' = entered
      /\ lexer' = lexer
  BY DEF vars
<1>2. LinesBefore(BreaksOf(lexer'.quoted, entered'), taken', lexer'.token.at, Live')
  BY <1>1 DEF ParserInv, Live
<1> QED BY <1>1, <1>2, SameText DEF ParserInv, ErrorCodes

(* The invariant holds for every source and every set of names.            *)
THEOREM ParserInvariant == Spec => []ParserInv
<1>1. Init => ParserInv
  BY StartedInv DEF Init
<1>2. ParserInv /\ [Next]_vars => ParserInv'
  BY NextInv, StutterInv
<1> QED BY <1>1, <1>2, PTL DEF Spec

LEMMA InvIsTyped ==
    ASSUME ParserInv
    PROVE  TypeOK
<1>1. taken \subseteq DOMAIN text
  BY DEF ParserInv, LinesBefore
<1> QED BY <1>1 DEF ParserInv, TypeOK, ErrorCodes

(* TypeOK: where the reader is between two statements, for every source.   *)
THEOREM ParserTypes == Spec => []TypeOK
<1>1. ParserInv => TypeOK
  BY InvIsTyped
<1> QED BY <1>1, ParserInvariant, PTL

LEMMA InvTakesLines ==
    ASSUME ParserInv
    PROVE  LinesTakenOneByOne
<1> DEFINE B == BreaksOf(lexer.quoted, entered)
<1>1. \A p : LineStart(p) = StartIn(B, p)
  BY DEF LineStart, Breaks, StartIn, BreaksOf
<1>2. LinesBefore(B, taken, lexer.token.at, Live)
  BY DEF ParserInv
<1> HIDE DEF B
<1> QED BY <1>1, <1>2 DEF LinesBefore, Fits, Accounted, Live, LinesTakenOneByOne

(* LinesTakenOneByOne: after an error the next line is taken at its start, *)
(* and no line is passed over.                                             *)
THEOREM LinesTaken == Spec => []LinesTakenOneByOne
<1>1. ParserInv => LinesTakenOneByOne
  BY InvTakesLines
<1> QED BY <1>1, ParserInvariant, PTL

LEMMA NextAdvances ==
    ASSUME ParserInv, Next, lexer'.process = "running"
    PROVE  lexer'.token.at > lexer.token.at
<1>1. text \in Source /\ lexer \in Ready
  BY DEF ParserInv, Ready
<1>2. CASE StatementStep
  <2>1. lexer.token.at < lexer'.token.at
    BY <1>2 DEF StatementStep, Moved
  <2> QED BY <2>1
<1>3. CASE EndOfText
  <2>1. lexer \in Records
    BY <1>1, LexerFields DEF Ready
  <2>2. lexer'.process = "done"
    BY <1>3, <2>1 DEF EndOfText, Records
  <2> QED BY <2>2
<1> QED BY <1>1, <1>2, <1>3, NextIsStep

(* StatementsAdvance: no text is parsed twice.                             *)
THEOREM ParserAdvances == Spec => StatementsAdvance
<1>1. ParserInv /\ [Next]_vars
      => [lexer'.process = "running" => lexer'.token.at > lexer.token.at]_vars
  BY NextAdvances
<1> QED BY <1>1, ParserInvariant, PTL DEF Spec, StatementsAdvance
=============================================================================
