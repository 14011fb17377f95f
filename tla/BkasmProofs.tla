----------------------------- MODULE BkasmProofs ----------------------------
(***************************************************************************)
(* Theorems about a run of bkasm, for every command line, every source and *)
(* every file: what the exit code says of the output file.  What Parser    *)
(* guarantees by itself holds in a run, too.                               *)
(***************************************************************************)
EXTENDS Bkasm, ParserProofs

-----------------------------------------------------------------------------
(* The invariant: what each stage of main may rely on.                     *)

(* Nothing has been read.                                                  *)
Fresh ==
    /\ text = <<>> /\ lexer = NewLexer /\ error = NoError
    /\ ast = <<>> /\ taken = {} /\ entered = {}

Untouched ==
    \A f \in DOMAIN disk : \/ f \in DOMAIN before /\ disk[f] = before[f]
                           \/ f = outfile /\ disk[f] = <<>>

(* No file but the output is created, changed or removed.                  *)
OthersKept ==
    /\ DOMAIN before \subseteq DOMAIN disk
    /\ \A f \in DOMAIN disk \ {outfile} : f \in DOMAIN before /\ disk[f] = before[f]

Starting ==
    /\ Fresh /\ disk = before /\ code = NoCode /\ outcome = "running"
    /\ infile \in DOMAIN disk => disk[infile] \in Source

Parsing == ParserInv /\ code = NoCode /\ outcome # "linked"

Linking == ParserInv /\ code = NoCode /\ error = NoError

(* The linker's output is written when it has succeeded and never else.    *)
OutputInv ==
    /\ outcome = "linked" => disk[outfile] = output /\ error = NoError
                             /\ code \in {NoCode, E_SUCCESS}
    /\ outcome # "linked" => Untouched
    /\ OthersKept

EndedInv ==
    code = E_SUCCESS /\ ~AsksForHelp => outcome = "linked" \/ lexer.told

RunInv ==
    /\ argv \in Seq(STRING)
    /\ Fresh \/ ParserInv
    /\ main \in {"start", "parsing", "linking", "ended"}
    /\ main = "start" => Starting
    /\ main = "parsing" => Parsing
    /\ main = "linking" => Linking
    /\ main = "ended" => EndedInv
    /\ OutputInv

-----------------------------------------------------------------------------
(* The files.                                                              *)

LEMMA Arguments ==
    ASSUME argv \in Seq(STRING)
    PROVE  Len(argv) \in Nat
BY LenProperties

(* The command line stays, and with it the names of the files.             *)
LEMMA SameCommand ==
    ASSUME UNCHANGED command
    PROVE  argv' = argv /\ before' = before /\ infile' = infile /\ outfile' = outfile
           /\ (AsksForHelp' <=> AsksForHelp)
BY DEF command, infile, outfile, AsksForHelp

LEMMA OpenedIs ==
    ASSUME argv \in Seq(STRING)
    PROVE  /\ \A f \in DOMAIN Opened : \/ f \in DOMAIN disk /\ Opened[f] = disk[f]
                                       \/ f = outfile /\ Opened[f] = <<>>
           /\ DOMAIN disk \subseteq DOMAIN Opened
BY Arguments DEF Opened, Store, outfile

LEMMA OpenedUntouched ==
    ASSUME argv \in Seq(STRING), disk = before, UNCHANGED command, disk' = Opened
    PROVE  Untouched' /\ OthersKept'
BY OpenedIs, SameCommand DEF Untouched, OthersKept

LEMMA StoredIs ==
    ASSUME NEW bytes
    PROVE  /\ Store(outfile, bytes)[outfile] = bytes
           /\ DOMAIN Store(outfile, bytes) = DOMAIN disk \cup {outfile}
           /\ \A f \in DOMAIN disk \ {outfile} : Store(outfile, bytes)[f] = disk[f]
BY DEF Store

LEMMA EmptySource == <<>> \in Source
BY DEF Source

(* One fread takes a text's first part.                                    *)
LEMMA ReadIsSource ==
    ASSUME NEW file \in Source
    PROVE  Read(file) \in Source
<1>1. Len(file) \in Nat
  BY LenProperties DEF Source
<1>2. CASE Len(file) <= MAX_TEXT
  BY <1>2 DEF Read
<1>3. CASE ~(Len(file) <= MAX_TEXT)
  <2>1. MAX_TEXT \in Nat /\ MAX_TEXT <= Len(file)
    BY <1>1, <1>3, BufferAssumption
  <2>2. SubSeq(file, 1, MAX_TEXT) \in Seq(Chars)
    BY <2>1, SubSeqProperties DEF Source
  <2> QED BY <1>3, <2>2 DEF Read, Source
<1> QED BY <1>2, <1>3

-----------------------------------------------------------------------------
(* The steps.                                                              *)

(* The parser's state stays.                                               *)
LEMMA ParserStays ==
    ASSUME UNCHANGED vars
    PROVE  /\ text' = text /\ lexer' = lexer /\ error' = error
           /\ (ParserInv => ParserInv')
           /\ (Fresh => Fresh')
BY StutterInv DEF vars, Fresh

(* The files stay.                                                         *)
LEMMA FilesStay ==
    ASSUME UNCHANGED command, UNCHANGED disk
    PROVE  /\ Untouched => Untouched'
           /\ OthersKept => OthersKept'
BY SameCommand DEF Untouched, OthersKept

(* The end of the run, with the files as they are.                         *)
LEMMA EndKeeps ==
    ASSUME RunInv, NEW c, Ends(c), UNCHANGED <<vars, command, disk, linkvars>>,
           outcome = "linked" => c = E_SUCCESS,
           c = E_SUCCESS => AsksForHelp \/ outcome = "linked" \/ lexer.told
    PROVE  RunInv'
<1>1. /\ argv' = argv /\ disk' = disk /\ output' = output /\ outcome' = outcome
      /\ outfile' = outfile /\ (AsksForHelp' <=> AsksForHelp)
      /\ lexer' = lexer /\ error' = error
  BY SameCommand, ParserStays DEF linkvars
<1>2. main' = "ended" /\ code' = c
  BY DEF Ends
<1>3. (Fresh \/ ParserInv)'
  BY ParserStays DEF RunInv
<1>4. EndedInv'
  BY <1>1, <1>2 DEF EndedInv, E_SUCCESS
<1>5. OutputInv'
  BY <1>1, <1>2, FilesStay DEF RunInv, OutputInv, E_SUCCESS
<1> QED BY <1>1, <1>2, <1>3, <1>4, <1>5 DEF RunInv

LEMMA HelpKeeps ==
    ASSUME RunInv, Help
    PROVE  RunInv'
BY EndKeeps DEF Help, RunInv, Starting

LEMMA CannotOpenKeeps ==
    ASSUME RunInv, CannotOpen
    PROVE  RunInv'
<1>1. Starting /\ argv \in Seq(STRING)
  BY DEF RunInv, CannotOpen
<1>2. /\ UNCHANGED vars /\ UNCHANGED command /\ outcome' = outcome
      /\ disk' = Opened /\ main' = "ended" /\ code' = MinusOne
  BY DEF CannotOpen, Ends, linkvars
<1>3. Untouched' /\ OthersKept'
  BY <1>1, <1>2, OpenedUntouched DEF Starting
<1>4. OutputInv'
  BY <1>1, <1>2, <1>3 DEF Starting, OutputInv
<1>5. EndedInv'
  BY <1>2 DEF EndedInv, MinusOne, E_SUCCESS
<1>6. Fresh'
  BY <1>1, <1>2, ParserStays DEF Starting
<1> QED BY <1>1, <1>2, <1>4, <1>5, <1>6, SameCommand DEF RunInv

LEMMA StartedIsInv == text \in Source /\ Started => ParserInv
BY StartedInv

(* What is read is a text, and parser_parse begins at its first token.     *)
LEMMA ReadSourceParser ==
    ASSUME RunInv, ReadSource
    PROVE  ParserInv'
<1>1. Starting /\ argv \in Seq(STRING) /\ infile \in DOMAIN disk
  BY DEF RunInv, ReadSource
<1>2. Opened[infile] \in Source
  BY <1>1, OpenedIs, EmptySource DEF Starting
<1>3. text' \in Source
  BY <1>2, ReadIsSource DEF ReadSource
<1>4. (text \in Source)'
  BY <1>3 DEF Source, Chars, Keywords
<1>5. Started'
  BY <1>1 DEF ReadSource, Starting, Fresh, Started
<1>6. (text \in Source /\ Started => ParserInv)'
  BY StartedIsInv, PTL
<1> QED BY <1>4, <1>5, <1>6

LEMMA ReadSourceKeeps ==
    ASSUME RunInv, ReadSource
    PROVE  RunInv'
<1>1. Starting /\ argv \in Seq(STRING)
  BY DEF RunInv, ReadSource
<1>2. /\ UNCHANGED command /\ outcome' = outcome /\ code' = code
      /\ disk' = Opened /\ main' = "parsing"
  BY DEF ReadSource, linkvars
<1>3. OutputInv'
  BY <1>1, <1>2, OpenedUntouched DEF Starting, OutputInv
<1>4. Parsing'
  BY <1>1, <1>2, ReadSourceParser DEF Starting, Parsing
<1> QED BY <1>1, <1>2, <1>3, <1>4, SameCommand DEF RunInv, Parsing

(* A declaration can only turn out to be a duplicate.                      *)
LEMMA StoreNameOutcome ==
    ASSUME StoreName
    PROVE  outcome' \in {outcome, "duplicate"}
BY DEF StoreName, linkvars, Link!Symbols!Define

LEMMA ParseStepKeeps ==
    ASSUME RunInv, ParseStep
    PROVE  RunInv'
<1>1. Parsing /\ argv \in Seq(STRING) /\ Untouched /\ OthersKept
  BY DEF RunInv, ParseStep, OutputInv, Parsing
<1>2. /\ UNCHANGED command /\ disk' = disk /\ main' = "parsing" /\ code' = code
      /\ outcome' \in {outcome, "duplicate"}
  BY StoreNameOutcome DEF ParseStep
<1>3. ParserInv'
  BY <1>1, NextInv DEF ParseStep, Parsing
<1>4. Parsing'
  BY <1>1, <1>2, <1>3 DEF Parsing
<1>5. OutputInv'
  BY <1>1, <1>2, FilesStay DEF OutputInv, Parsing
<1> QED BY <1>1, <1>2, <1>3, <1>4, <1>5, SameCommand DEF RunInv

LEMMA ParserEndKeeps ==
    ASSUME RunInv, ParserExits \/ ParserCrashes \/ ParserRefused
    PROVE  RunInv'
<1>1. Parsing
  BY DEF RunInv, ParserExits, ParserCrashes, ParserRefused
<1>2. CASE ParserExits
  <2>1. PICK c \in {E_LINKERERROR, E_UNKIDENT, E_UNEXPSYM, E_UNEXPTOKEN, E_SYNTAXERROR} : Ends(c)
    BY <1>2 DEF ParserExits
  <2>2. c # E_SUCCESS
    BY DEF E_SUCCESS, E_LINKERERROR, E_UNKIDENT, E_UNEXPSYM, E_UNEXPTOKEN, E_SYNTAXERROR
  <2> QED BY <1>1, <1>2, <2>1, <2>2, EndKeeps DEF ParserExits, Parsing
<1>3. CASE ParserCrashes
  <2>1. Killed # E_SUCCESS
    BY DEF Killed, E_SUCCESS
  <2> QED BY <1>1, <1>3, <2>1, EndKeeps DEF ParserCrashes, Parsing
<1>4. CASE ParserRefused
  <2>1. lexer.told
    BY <1>1, <1>4 DEF ParserRefused, Parsing, ParserInv
  <2> QED BY <1>1, <1>4, <2>1, EndKeeps DEF ParserRefused, Parsing
<1> QED BY <1>2, <1>3, <1>4

LEMMA LinkBeginsKeeps ==
    ASSUME RunInv, LinkBegins
    PROVE  RunInv'
<1>1. Parsing /\ argv \in Seq(STRING) /\ Untouched /\ OthersKept /\ error = NoError
  BY DEF RunInv, LinkBegins, OutputInv, Parsing
<1>2. /\ UNCHANGED vars /\ UNCHANGED command /\ disk' = disk /\ main' = "linking" /\ code' = code
      /\ outcome' = outcome
  BY DEF LinkBegins
<1>3. ParserInv' /\ error' = error
  BY <1>1, <1>2, ParserStays DEF Parsing
<1>4. Linking'
  BY <1>1, <1>2, <1>3 DEF Linking, Parsing
<1>5. OutputInv'
  BY <1>1, <1>2, FilesStay DEF OutputInv, Parsing
<1> QED BY <1>1, <1>2, <1>3, <1>4, <1>5, SameCommand DEF RunInv

(* The linker stops with its first outcome.                                *)
LEMMA LinkStepRuns ==
    ASSUME Link!LinkStep
    PROVE  outcome = "running"
BY DEF Link!LinkStep, Link!VisitLabel, Link!VisitEqu, Link!VisitOrg, Link!VisitDs,
       Link!MeasureCode, Link!GenerateCode, Link!RefuseCode, Link!VisitRst, Link!RefuseRst,
       Link!SecondPass, Link!WriteOutput, Link!CannotCreate, Link!Visiting, Link!AtEnd

LEMMA LinkStepKeeps ==
    ASSUME RunInv, LinkStep
    PROVE  RunInv'
<1>1. Linking /\ argv \in Seq(STRING)
  BY DEF RunInv, LinkStep
<1>2. UNCHANGED vars /\ UNCHANGED command /\ main' = "linking" /\ code' = code
  BY DEF LinkStep
<1>3. Untouched /\ OthersKept
  BY LinkStepRuns DEF LinkStep, RunInv, OutputInv
<1>4. ParserInv' /\ error' = error
  BY <1>1, <1>2, ParserStays DEF Linking
<1>5. Linking'
  BY <1>1, <1>2, <1>4 DEF Linking
<1>6. OutputInv'
  <2>1. CASE outcome' = "linked"
    <3>1. disk' = Store(outfile, output')
      BY <2>1 DEF LinkStep
    <3>2. disk'[outfile'] = output'
      BY <1>2, <3>1, StoredIs, SameCommand
    <3>3. OthersKept'
      BY <1>2, <1>3, <3>1, StoredIs, SameCommand DEF OthersKept
    <3> QED BY <1>1, <1>2, <1>4, <2>1, <3>2, <3>3 DEF OutputInv, Linking
  <2>2. CASE outcome' # "linked"
    <3>1. disk' = disk
      BY <2>2 DEF LinkStep
    <3> QED BY <1>2, <1>3, <2>2, <3>1, FilesStay DEF OutputInv
  <2> QED BY <2>1, <2>2
<1> QED BY <1>1, <1>2, <1>4, <1>5, <1>6, SameCommand DEF RunInv

LEMMA LinkReturnsKeeps ==
    ASSUME RunInv, LinkReturns
    PROVE  RunInv'
<1>1. E_LINKERERROR # E_SUCCESS
  BY DEF E_LINKERERROR, E_SUCCESS
<1>2. CASE outcome = "linked"
  BY <1>2, EndKeeps DEF LinkReturns
<1>3. CASE outcome # "linked"
  BY <1>1, <1>3, EndKeeps DEF LinkReturns
<1> QED BY <1>2, <1>3

LEMMA RunStutterKeeps ==
    ASSUME RunInv, UNCHANGED bkvars
    PROVE  RunInv'
<1>1. /\ UNCHANGED vars /\ UNCHANGED command /\ disk' = disk /\ main' = main /\ code' = code
      /\ output' = output /\ outcome' = outcome
  BY DEF bkvars, linkvars
<1>2. /\ (ParserInv => ParserInv') /\ (Fresh => Fresh') /\ (Untouched => Untouched')
      /\ (OthersKept => OthersKept') /\ lexer' = lexer /\ error' = error
  BY <1>1, ParserStays, FilesStay
<1>3. argv' = argv /\ infile' = infile /\ outfile' = outfile /\ (AsksForHelp' <=> AsksForHelp)
      /\ before' = before
  BY <1>1, SameCommand
<1>4. Source' = Source
  BY DEF Source, Chars, Keywords
<1>5. OutputInv'
  BY <1>1, <1>2, <1>3 DEF RunInv, OutputInv
<1>6. Starting => Starting'
  BY <1>1, <1>2, <1>3, <1>4 DEF Starting
<1>7. (Parsing => Parsing') /\ (Linking => Linking') /\ (EndedInv => EndedInv')
  BY <1>1, <1>2, <1>3 DEF Parsing, Linking, EndedInv
<1> QED BY <1>1, <1>2, <1>3, <1>5, <1>6, <1>7 DEF RunInv

-----------------------------------------------------------------------------
(* The theorems.                                                           *)

(* RunInv holds whatever the command line, the files and the source.       *)
THEOREM RunInvariant == RunSpec => []RunInv
<1>1. RunStart => RunInv
  <2> SUFFICES ASSUME RunStart PROVE RunInv
    OBVIOUS
  <2>1. /\ Fresh /\ main = "start" /\ code = NoCode /\ before = disk /\ argv \in Seq(STRING)
        /\ infile \in DOMAIN disk => disk[infile] \in Source
    BY DEF RunStart, RunInit, Fresh
  <2>2. outcome = "running"
    BY DEF RunStart, RunInit, Link!Init, Link!Symbols!Init
  <2>3. OutputInv
    BY <2>1, <2>2 DEF OutputInv, Untouched, OthersKept
  <2> QED BY <2>1, <2>2, <2>3 DEF RunInv, Starting
<1>2. RunInv /\ [RunStep]_bkvars => RunInv'
  BY HelpKeeps, CannotOpenKeeps, ReadSourceKeeps, ParseStepKeeps, ParserEndKeeps,
     LinkBeginsKeeps, LinkStepKeeps, LinkReturnsKeeps, RunStutterKeeps DEF RunStep
<1> QED BY <1>1, <1>2, PTL DEF RunSpec

(* SilentMeansFresh: exit code 0 and no message mean that the output file  *)
(* holds this program's code.                                              *)
THEOREM SilenceMeansOutput == RunSpec => []SilentMeansFresh
<1>1. RunInv => SilentMeansFresh
  BY DEF RunInv, EndedInv, OutputInv, SilentMeansFresh
<1> QED BY <1>1, RunInvariant, PTL

(* RefusedWritesNothing: no code is written for a program that is refused, *)
(* and no file but the output is changed.                                  *)
THEOREM RefusalWritesNothing == RunSpec => []RefusedWritesNothing
<1>1. RunInv => RefusedWritesNothing
  <2> SUFFICES ASSUME RunInv, error # NoError \/ code > E_SUCCESS PROVE Untouched
    BY DEF RefusedWritesNothing, Untouched
  <2>1. outcome # "linked"
    BY DEF RunInv, OutputInv, NoCode, E_SUCCESS
  <2> QED BY <2>1 DEF RunInv, OutputInv
<1> QED BY <1>1, RunInvariant, PTL

(* However a run ends, and at each moment before, every file but the       *)
(* output is as it was: sources are only read, and a link that fails       *)
(* halfway has no other file to spoil.                                     *)
THEOREM OnlyOutputChanges == RunSpec => []OthersKept
<1>1. RunInv => OthersKept
  BY DEF RunInv, OutputInv
<1> QED BY <1>1, RunInvariant, PTL

(* What Parser guarantees by itself holds in a run of the program: TypeOK  *)
(* and LinesTakenOneByOne, also before the source has been read.           *)
LEMMA FreshIs ==
    ASSUME Fresh
    PROVE  TypeOK /\ LinesTakenOneByOne
<1>1. /\ text \in Source /\ lexer = NewLexer /\ error = NoError
      /\ ast = <<>> /\ taken = {} /\ entered = {}
  BY EmptySource DEF Fresh
<1>2. lexer \in Lexers
  BY <1>1, NewLexerIs
<1>3. TypeOK
  BY <1>1, <1>2 DEF TypeOK
<1>4. lexer.token.at = 0
  BY <1>1 DEF NewLexer, Token
<1>5. LinesTakenOneByOne
  BY <1>1, <1>4 DEF LinesTakenOneByOne
<1> QED BY <1>3, <1>5

THEOREM RunParses == RunSpec => [](TypeOK /\ LinesTakenOneByOne)
<1>1. RunInv => TypeOK /\ LinesTakenOneByOne
  BY FreshIs, InvIsTyped, InvTakesLines DEF RunInv
<1> QED BY <1>1, RunInvariant, PTL

LEMMA TokenHasPlace == ParserInv => lexer.token.at \in Nat \ {0}
BY AtTokenPlace, TextFacts DEF ParserInv

(* StatementsAdvance in a run of the program: main calls parser_parse once *)
(* and leaves what it has parsed alone.                                    *)
THEOREM RunAdvances == RunSpec => StatementsAdvance
<1>1. RunInv /\ [RunStep]_bkvars
      => [lexer'.process = "running" => lexer'.token.at > lexer.token.at]_vars
  <2> SUFFICES ASSUME RunInv, [RunStep]_bkvars, vars' # vars, lexer'.process = "running"
               PROVE  lexer'.token.at > lexer.token.at
    OBVIOUS
  <2>1. ReadSource \/ ParseStep
    BY DEF RunStep, bkvars, Help, CannotOpen, ParserExits, ParserCrashes, ParserRefused,
           LinkBegins, LinkStep, LinkReturns
  <2>2. CASE ReadSource
    <3>1. lexer.token.at = 0
      BY <2>2 DEF RunInv, ReadSource, Starting, Fresh, NewLexer, Token
    <3>2. ParserInv'
      BY <2>2, ReadSourceParser
    <3>3. (ParserInv => lexer.token.at \in Nat \ {0})'
      BY TokenHasPlace, PTL
    <3> QED BY <3>1, <3>2, <3>3
  <2>3. CASE ParseStep
    BY <2>3, NextAdvances DEF ParseStep, RunInv, Parsing
  <2> QED BY <2>1, <2>2, <2>3
<1> QED BY <1>1, RunInvariant, PTL DEF RunSpec, StatementsAdvance
=============================================================================
