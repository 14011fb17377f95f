------------------------------- MODULE Inbuf -------------------------------
(***************************************************************************)
(* The source reader of bkasm, bkasm/src/inbuf.c: the text of the main     *)
(* file and of the files it INCLUDEs, character by character, through a    *)
(* stack of at most MAX_INCLUDE_DEPTH frames.  A frame holds what is       *)
(* needed to go on in a file once a file included there is exhausted.  The *)
(* parser (bkasm/src/parser.c:642-667) pushes a file as soon as it has     *)
(* read an INCLUDE directive; a directive is one item of the text here.    *)
(***************************************************************************)
EXTENDS Integers, FiniteSets, SequencesExt

CONSTANTS
    File,               \* names of source files
    Main,               \* the one named on the command line
    Texts,              \* contents a file may have
    MAX_INCLUDE_DEPTH,  \* 16 in inbuf.h
    Buf,                \* blocks malloc can return
    Static              \* main's buffer, never freed

ASSUME DepthAssumption == MAX_INCLUDE_DEPTH \in Nat \ {0}
ASSUME MainAssumption == Main \in File
ASSUME BufAssumption == Static \notin Buf

Char == <<"char">>          \* a character of a statement
Eol == <<"eol">>            \* a line feed
Include(f) == <<"include", f>>

Unreadable == <<<<"unreadable">>>>

ASSUME TextsAssumption == Texts \subseteq Seq({Char, Eol} \cup {Include(f) : f \in File})

VARIABLES
    files,      \* what the files contain, or Unreadable
    inbuf,      \* the buffer being read
    cursym,     \* how many items of it were read
    num,        \* currStr.num: the line number error messages give
    frames,     \* frames[0..frame_count-1]
    status,     \* "reading"; "done", "failed", "aborted" after exit_nicely
    live,       \* blocks malloc holds
    content,    \* the file each block was filled from
    delivered,  \* history: what inbuf_next_char returned, by file and position
    fault       \* history: a block was freed that is not allocated

vars == <<files, inbuf, cursym, num, frames, status, live, content, delivered, fault>>

frame_count == Len(frames)
Source(b) == IF b = Static THEN Main ELSE content[b]
Text == files[Source(inbuf)]
bufsize == Len(Text)

Frame(b, c, n) == [buf |-> b, cursym |-> c, num |-> n]

(* inbuf_init; main has read the main file.                                *)
Init ==
    /\ files \in [File -> Texts \cup {Unreadable}]
    /\ files[Main] # Unreadable
    /\ inbuf = Static /\ cursym = 0 /\ num = 1
    /\ frames = <<Frame(Static, 0, 1)>>
    /\ status = "reading"
    /\ live = {} /\ content = [b \in Buf |-> Main]
    /\ delivered = <<>> /\ fault = FALSE

Here == <<Source(inbuf), cursym + 1>>

(* inbuf_next_char finds a character.                                      *)
NextChar ==
    /\ status = "reading"
    /\ cursym < bufsize
    /\ Text[cursym + 1] \in {Char, Eol}
    /\ cursym' = cursym + 1
    /\ num' = IF Text[cursym + 1] = Eol THEN num + 1 ELSE num
    /\ delivered' = Append(delivered, Here)
    /\ UNCHANGED <<files, inbuf, frames, status, live, content, fault>>

(* Mutant: the line number of the included file stays.                     *)
Pop_KeepLine ==
    /\ status = "reading"
    /\ cursym >= bufsize
    /\ frame_count > 1
    /\ live' = live \ {Last(frames).buf}
    /\ fault' = (fault \/ Last(frames).buf \notin live)
    /\ frames' = Front(frames)
    /\ inbuf' = Last(frames').buf
    /\ cursym' = Last(frames').cursym
    /\ UNCHANGED <<files, num, status, content, delivered>>

(* inbuf_next_char at the end of an included file: inbuf_pop, and again.   *)
Pop ==
    /\ status = "reading"
    /\ cursym >= bufsize
    /\ frame_count > 1
    /\ live' = live \ {Last(frames).buf}
    /\ fault' = (fault \/ Last(frames).buf \notin live)
    /\ frames' = Front(frames)
    /\ inbuf' = Last(frames').buf
    /\ cursym' = Last(frames').cursym
    /\ num' = Last(frames').num
    /\ UNCHANGED <<files, status, content, delivered>>

(* Mutant: the innermost frame is not cleaned up.                          *)
Exit_OneShort(how) ==
    /\ status' = how
    /\ LET owned == {frames[i].buf : i \in 2..(frame_count - 1)}
       IN  live' = live \ owned /\ fault' = (fault \/ ~(owned \subseteq live))
    /\ frames' = <<>>

(* exit_nicely calls inbuf_cleanup, which frees the buffers of the frames  *)
(* above the first.                                                        *)
Exit(how) ==
    /\ status' = how
    /\ LET owned == {frames[i].buf : i \in 2..frame_count}
       IN  live' = live \ owned /\ fault' = (fault \/ ~(owned \subseteq live))
    /\ frames' = <<>>

(* Mutant: the last frame is not taken for the last.                       *)
EndOfInput_Never ==
    /\ status = "reading"
    /\ cursym >= bufsize
    /\ frame_count = 0
    /\ Exit("done")
    /\ UNCHANGED <<files, inbuf, cursym, num, content, delivered>>

(* ... at the end of the main file: 0xff, and the parser is done.          *)
EndOfInput ==
    /\ status = "reading"
    /\ cursym >= bufsize
    /\ frame_count = 1
    /\ Exit("done")
    /\ UNCHANGED <<files, inbuf, cursym, num, content, delivered>>

-----------------------------------------------------------------------------
(* INCLUDE: inbuf_push_file.                                               *)

(* Mutant: one frame more than there is.                                   *)
FramesUsedUp_OneMore == frame_count > MAX_INCLUDE_DEPTH

FramesUsedUp == frame_count >= MAX_INCLUDE_DEPTH

(* The parser has just read the directive INCLUDE "f".                     *)
AtInclude(f) == status = "reading" /\ cursym < bufsize /\ Text[cursym + 1] = Include(f)

(* Mutant: the frame keeps the place where the file began.                 *)
SavedFrames_Stale == frames

SavedFrames == [frames EXCEPT ![frame_count] = Frame(inbuf, cursym + 1, num)]

(* The included text starts at its first line; the place to go on is kept. *)
PushFile(f) ==
    /\ AtInclude(f)
    /\ ~FramesUsedUp
    /\ files[f] # Unreadable
    /\ \E b \in Buf \ live :
         /\ b = CHOOSE x \in Buf : x \notin live
         /\ live' = live \cup {b}
         /\ content' = [content EXCEPT ![b] = f]
         /\ inbuf' = b
         /\ frames' = Append(SavedFrames, Frame(b, 0, 1))
    /\ cursym' = 0
    /\ num' = 1
    /\ delivered' = Append(delivered, Here)
    /\ UNCHANGED <<files, status, fault>>

(* No frame is left, or the file cannot be read: exit_nicely.              *)
PushFails(f) ==
    /\ AtInclude(f)
    /\ FramesUsedUp \/ files[f] = Unreadable
    /\ Exit("failed")
    /\ delivered' = Append(delivered, Here)
    /\ UNCHANGED <<files, inbuf, cursym, num, content>>

(* An error elsewhere in the parser ends the run at any point.             *)
ParserGivesUp ==
    /\ status = "reading"
    /\ Exit("aborted")
    /\ UNCHANGED <<files, inbuf, cursym, num, content, delivered>>

Read ==
    \/ NextChar \/ Pop \/ EndOfInput
    \/ \E f \in File : PushFile(f) \/ PushFails(f)

Next == Read \/ ParserGivesUp

(* The parser asks for characters until it gets to an end.                 *)
Spec == Init /\ [][Next]_vars /\ WF_vars(Read)

-----------------------------------------------------------------------------
TypeOK ==
    /\ files \in [File -> Texts \cup {Unreadable}]
    /\ inbuf \in Buf \cup {Static}
    /\ cursym \in 0..bufsize
    /\ num \in Nat \ {0}
    /\ frames \in Seq([buf : Buf \cup {Static}, cursym : Nat, num : Nat])
    /\ frame_count <= MAX_INCLUDE_DEPTH
    /\ status \in {"reading", "done", "failed", "aborted"}
    /\ live \subseteq Buf
    /\ content \in [Buf -> File]
    /\ delivered \in Seq(File \X (Nat \ {0}))
    /\ fault \in BOOLEAN

(* Textual inclusion, the reference: what file f stands for when d frames  *)
(* are left for it and its includes.  Reading stops behind a directive     *)
(* that cannot be followed.                                                *)
Stop == <<Main, 0>>

UpToStop(s) ==
    IF Stop \in Range(s)
      THEN SubSeq(s, 1, CHOOSE i \in DOMAIN s :
                          s[i] = Stop /\ \A j \in 1..(i - 1) : s[j] # Stop)
      ELSE s

Expansion[d \in 1..MAX_INCLUDE_DEPTH] ==
    [f \in {g \in File : files[g] # Unreadable} |->
        UpToStop(FlattenSeq([i \in DOMAIN files[f] |->
            IF files[f][i] \in {Char, Eol} THEN << <<f, i>> >>
            ELSE LET g == files[f][i][2]
                 IN  << <<f, i>> >> \o
                     IF d = 1 \/ files[g] = Unreadable THEN <<Stop>>
                     ELSE Expansion[d - 1][g]]))]

Expected == Expansion[MAX_INCLUDE_DEPTH][Main]

(* The reader delivers the text with every included file in the place of   *)
(* its directive, nothing lost, repeated or reordered; all of it when the  *)
(* run ends well, and else everything before the failure.                  *)
DeliversExpansion ==
    /\ IsPrefix(delivered, Expected)
    /\ status = "done" => delivered = Expected
    /\ status = "failed" => Append(delivered, Stop) = Expected

(* Line numbers are those of the file being read, also back in a file that *)
(* included others (currStr is part of the frame).                         *)
LineIsRight ==
    status = "reading" =>
        num = 1 + Cardinality({i \in 1..cursym : Text[i] = Eol})

(* malloc's blocks are exactly those of the frames above the first, each   *)
(* in one frame; none is left, and none was freed twice, after the exit.   *)
BuffersOwned ==
    /\ ~fault
    /\ live = {frames[i].buf : i \in 2..frame_count}
    /\ Cardinality(live) = IF status = "reading" THEN frame_count - 1 ELSE 0

(* Every source is read to an end, also one that includes itself.          *)
ReadingEnds == <>(status # "reading")
=============================================================================
