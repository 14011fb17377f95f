------------------------------- MODULE MCBkasm ------------------------------
(***************************************************************************)
(* Runs of bkasm on the sources of MCParser and some more, and what the    *)
(* manual says the files hold afterwards.                                  *)
(***************************************************************************)
EXTENDS MCParser, Bkasm

-----------------------------------------------------------------------------
(* Sources.                                                                *)

DefX == Good(Eol(Equate("X", Sixteen)))

NameLoop == Phrase(<<"LOOP">>, Var("LOOP"), FALSE)

(* A reference forward, over every operation.                              *)
Jumps ==
    {<<DefX, Good(Eol(Two("LXI", R("H"), NameLoop, <<",">>))), Good(Eol(s)),
       Good(Eol(Labelled("LOOP", <<" ">>, One("DW", NameLoop))))>> : s \in Operations}

(* Operands that do not fit, which are complained of and linked.           *)
Unfitting ==
    {<<Row(<<"INX", " ", "A">>), Plain>>, <<Row(<<"ADD", " ", "5">>), Plain>>,
     <<Row(<<"MOV", " ", "5", ",", "A">>), Plain>>, <<Row(<<"PUSH", " ", "SP">>), Plain>>,
     <<Row(<<"MVI", " ", "A", ",", "H">>), Plain>>, <<Row(<<"LXI", " ", "5", ",", "10", "H">>), Plain>>}

(* More than the buffer holds.                                             *)
Long == [i \in 1..12 |-> Good(Eol(One("DB", Five)))]

Sources ==
    Programs \cup Jumps \cup Unfitting \cup {Long}
    \cup {<<DefX, Good(Eol(One("ADI", p)))>> : p \in Exprs}
    \cup {<<DefX, Good(Eol(Two("LXI", R("H"), p, <<",">>)))>> : p \in Exprs}
    \cup {<<DefX, l, Plain>> : l \in FirstLines}

-----------------------------------------------------------------------------
(* Command lines: all of them with a few sources, one of them with all.    *)

Usual == <<"source">>

CommandLines ==
    {<<>>, Usual, <<"-h">>, <<"--help", "named">>, <<"absent">>, <<"absent", "named">>,
     <<"source", "named">>, <<"source", "locked">>, <<"source", "source">>}

Samples == Jumps \cup Unfitting \cup {<<Before, r, Plain>> : r \in {Row(<<w>>) : w \in Scrap}}

(* What a file held before the run.                                        *)
Old == <<-1>>

MCCreatable == {"named", "source"}

BkInit ==
    /\ \/ source \in Sources /\ argv = Usual
       \/ source \in Samples /\ argv \in CommandLines \ {Usual}
    /\ disk = [f \in {"stdin", "source", "named", "prog.bin"} |->
                  IF f \in {"stdin", "source"} THEN Text(source) ELSE Old]
    /\ RunStart

BkSpec == BkInit /\ [][RunStep /\ UNCHANGED source]_<<bkvars, source>> /\ WF_bkvars(RunStep)

-----------------------------------------------------------------------------
(* The manual's encoding of the instructions.                              *)

Pair == [H |-> 2, SP |-> 3, PSW |-> 3]

ManualCode(n) ==
    CASE n.op = "NOP" -> 0
      [] n.op = "MOV" -> 64 + 8 * n.lparam.value + n.rparam.value
      [] n.op = "ADD" -> 128 + n.lparam.value
      [] n.op = "INX" -> 3 + 16 * Pair[n.lparam.ident]
      [] n.op = "PUSH" -> 197 + 16 * Pair[n.lparam.ident]
      [] n.op = "ADI" -> 198
      [] n.op = "MVI" -> 6 + 8 * n.lparam.value
      [] n.op = "LXI" -> 1 + 16 * Pair[n.lparam.ident]

ManualNode(n) ==
    CASE n.kind \in DeclKinds -> n
      [] n.kind \notin DeclKinds ->
            CASE n.op \in {"NOP", "MOV", "ADD", "INX", "PUSH"} -> Op(ManualCode(n))
              [] n.op = "ADI" -> Imm8(ManualCode(n), n.lparam)
              [] n.op = "MVI" -> Imm8(ManualCode(n), n.rparam)
              [] n.op = "LXI" -> Imm16(ManualCode(n), n.rparam)
              [] OTHER -> Compiled(n)

Meant ==
    LET nodes == FlattenSeq([i \in DOMAIN source |-> source[i].nodes])
    IN  [i \in DOMAIN nodes |-> ManualNode(nodes[i])]

Manual == INSTANCE Assembly WITH
    Statements <- {}, Limit <- MAX_PROG_SIZE, Capacity <- MAX_VAR_COUNT,
    program <- Meant, phase <- main, env <- asmvars, place <- addr, image <- disk[outfile]

(* The source is grammatical, fits the buffer and can be read; the output  *)
(* does not overwrite it.                                                  *)
Proper ==
    /\ ~AsksForHelp
    /\ infile # "absent" /\ outfile # "locked" /\ infile # outfile
    /\ \A i \in DOMAIN source : source[i].good /\ source[i] # Inclusion
    /\ NoDuplicates
    /\ Len(Text(source)) <= MAX_TEXT

(* From the source text to the bytes in the file: a run on a legal program *)
(* ends with exit code 0 and the bytes the manual gives its lines, each at *)
(* its address, in the output file; or with an error code, because the     *)
(* program cannot be encoded or the file not be created.                   *)
EndToEnd ==
    main = "ended" /\ Proper => \A p \in {Meant} : Manual!Legal(p) =>
        /\ Manual!Meaning(p, asmvars, addr)
        /\ Manual!Tame(p, asmvars, addr) =>
             \/ /\ code = E_SUCCESS
                /\ ~Manual!Faulty(p, asmvars, addr)
                /\ disk[outfile] = Manual!Image(p, asmvars, addr)
             \/ /\ code # E_SUCCESS
                /\ Manual!Faulty(p, asmvars, addr) \/ outcome = "nofile"
=============================================================================
