---------------------------- MODULE RkaExchange ----------------------------
(***************************************************************************)
(* rkaexchange: processes that pack a listing or unpack a tape in one      *)
(* directory (rkaexchange/src: main.c, edb.c, inbuf.c, globals.c,          *)
(* errors.c).  A process shares nothing with another but files, and pack   *)
(* puts its text through a file of a fixed name, so what matters is the    *)
(* order of the system calls: opening (which empties a file), the reads    *)
(* and writes of stdio's buffers, and the removal of the temporary file.   *)
(* A process can be killed before any of them.                             *)
(*                                                                         *)
(* Files are inodes with a name or without: 2p - 1 is the standard input   *)
(* of process p, 2p its standard output, and 0 is the null FILE pointer.   *)
(***************************************************************************)
EXTENDS RkaText

CONSTANTS
    N,              \* number of processes
    Names,          \* file names of the directory, present or not
    tmpfile,        \* the name of pack's temporary file
    ReadOnly,       \* names that cannot be opened for writing
    BUF,            \* bytes that one read or write moves
    NAME_MAX,       \* 255: sizeof filename - 1
    PADDING,        \* 512
    Worlds          \* [args, files, typed]: arguments of each process, initial
                    \* contents of the directory, standard input

ASSUME RkaAssumption ==
    /\ N \in Nat /\ BUF \in Nat \ {0} /\ NAME_MAX \in Nat /\ PADDING \in Nat
    /\ tmpfile \in Names /\ ReadOnly \subseteq Names
    /\ \A w \in Worlds :
         /\ w.args \in [1 .. N -> Seq(STRING)]
         /\ \A p \in 1 .. N : \A i \in 2 .. Len(w.args[p]) : w.args[p][i] \in Names
         /\ IsFiniteSet(DOMAIN w.files) /\ DOMAIN w.files \subseteq Names
         /\ \A n \in DOMAIN w.files : w.files[n] \in Seq(0 .. 255)
         /\ w.typed \in Seq(0 .. 255)

VARIABLES
    dir,        \* name -> inode, 0 when there is no such file
    data,       \* inode -> contents
    proc,       \* process -> its FILEs, buffers and place in the program
    origin,     \* history: what the input file held when it was opened
    meddled     \* history: who had a file written or emptied by another

vars == <<dir, data, proc, origin, meddled>>

Procs == 1 .. N

E_CMDREQ == 0
E_UNKNOWNCMD == 1

-----------------------------------------------------------------------------
(* Files *)

Rest(bytes, offset) == SubSeq(bytes, offset + 1, Len(bytes))

FirstOf(bytes, n) == SubSeq(bytes, 1, IF Len(bytes) < n THEN Len(bytes) ELSE n)

(* A write behind the end of a file fills the gap with zeros.              *)
Overwrite(bytes, offset, new) ==
    [i \in 1 .. offset |-> IF i <= Len(bytes) THEN bytes[i] ELSE 0]
        \o new \o Rest(bytes, offset + Len(new))

Used(p) == {proc[p].fd_in, proc[p].fd_tmp, proc[p].fd_out} \ {0}

(* p empties inode i or writes to it.                                      *)
Disturb(p, i) ==
    meddled' = [q \in Procs |-> meddled[q] \/ (q # p /\ i \in Used(q))]

Write(p, i, offset, bytes) ==
    /\ data' = [data EXCEPT ![i] = Overwrite(@, offset, bytes)]
    /\ Disturb(p, i)

(* The inode that fopen(name, "w") gives p.                                *)
Opened(name) == CASE name \in ReadOnly -> 0
                  [] name \notin ReadOnly /\ dir[name] # 0 -> dir[name]
                  [] OTHER -> Len(data) + 1

(* Mutant: what a file held before is still there.                         *)
FopenW_Keep(p, name) ==
    /\ dir' = [dir EXCEPT ![name] = IF Opened(name) = 0 THEN @ ELSE Opened(name)]
    /\ data' = IF Opened(name) > Len(data) THEN Append(data, <<>>) ELSE data
    /\ Disturb(p, Opened(name))

FopenW(p, name) ==
    /\ dir' = [dir EXCEPT ![name] = IF Opened(name) = 0 THEN @ ELSE Opened(name)]
    /\ data' = CASE Opened(name) = 0         -> data
                 [] Opened(name) > Len(data) -> Append(data, <<>>)
                 [] OTHER                    -> [data EXCEPT ![Opened(name)] = <<>>]
    /\ Disturb(p, Opened(name))

-----------------------------------------------------------------------------
(* Processes *)

Running == {"main", "outfile", "pack", "encode", "copy", "remove", "unpack", "exit"}
Ended == {"exited", "aborted", "killed"}

Started(args) == [args |-> args, at |-> "main", code |-> 0, told |-> FALSE,
                  fd_in |-> 0, fd_out |-> 0, fd_tmp |-> 0,
                  rpos |-> 0, ibuf |-> <<>>, eof |-> FALSE, wpos |-> 0, obuf |-> <<>>,
                  part |-> "header", count |-> 0]

Init ==
    \E w \in Worlds :
        LET present == SetToSeq(DOMAIN w.files)
        IN  /\ dir = [n \in Names |-> IF n \notin DOMAIN w.files THEN 0
                                      ELSE 2 * N + CHOOSE i \in DOMAIN present : present[i] = n]
            /\ data = [i \in 1 .. 2 * N |-> IF i % 2 = 1 THEN w.typed ELSE <<>>]
                        \o [i \in DOMAIN present |-> w.files[present[i]]]
            /\ proc = [p \in Procs |-> Started(w.args[p])]
            /\ origin = [p \in Procs |-> <<>>]
            /\ meddled = [p \in Procs |-> FALSE]

argc(p) == Len(proc[p].args) + 1

Command(p) == proc[p].args[1]

(* exit() without anything left to write.                                  *)
Exits(p, code) ==
    /\ proc' = [proc EXCEPT ![p].at = "exited", ![p].code = code, ![p].told = TRUE]
    /\ UNCHANGED <<dir, data, origin, meddled>>

(* throw_error(E_CMDREQ): the number of the error is the exit code.        *)
CommandRequired(p) == proc[p].at = "main" /\ argc(p) <= 1 /\ Exits(p, E_CMDREQ)

UnknownCommand(p) ==
    /\ proc[p].at = "main" /\ argc(p) > 1 /\ Command(p) \notin {"pack", "unpack"}
    /\ Exits(p, E_UNKNOWNCMD)

(* fopen(argv[2], "r"), or stdin.  A file that does not exist is a null    *)
(* pointer, which "fd_in < 0" does not find.                               *)
OpenInput(p) ==
    /\ proc[p].at = "main" /\ argc(p) > 1 /\ Command(p) \in {"pack", "unpack"}
    /\ LET i == IF argc(p) > 2 THEN dir[proc[p].args[2]] ELSE 2 * p - 1
       IN  /\ proc' = [proc EXCEPT ![p].at = "outfile", ![p].fd_in = i]
           /\ origin' = [origin EXCEPT ![p] = IF i = 0 THEN <<>> ELSE data[i]]
    /\ UNCHANGED <<dir, data, meddled>>

(* fopen(argv[3], "w"), or stdout.                                         *)
OpenOutput(p) ==
    /\ proc[p].at = "outfile"
    /\ IF argc(p) > 3
       THEN /\ FopenW(p, proc[p].args[3])
            /\ proc' = [proc EXCEPT ![p].at = Command(p), ![p].fd_out = Opened(proc[p].args[3])]
       ELSE /\ proc' = [proc EXCEPT ![p].at = Command(p), ![p].fd_out = 2 * p]
            /\ UNCHANGED <<dir, data, meddled>>
    /\ UNCHANGED origin

-----------------------------------------------------------------------------
(* stdio: one read or one write of the kernel's *)

Reading(p) == IF proc[p].at = "copy" THEN proc[p].fd_tmp ELSE proc[p].fd_in

Writing(p) == IF proc[p].at = "encode" THEN proc[p].fd_tmp ELSE proc[p].fd_out

(* Mutant: nobody empties a full buffer.                                   *)
HasRoom_Ignored(p) == proc[p].at \in Running

(* p can go on: what it has written fits its buffer.                       *)
HasRoom(p) == Len(proc[p].obuf) <= BUF

Refill(p) ==
    /\ proc[p].at \in {"encode", "copy", "unpack"} /\ HasRoom(p)
    /\ Reading(p) # 0 /\ (proc[p].at # "copy" => Writing(p) # 0)
    /\ proc[p].ibuf = <<>> /\ ~proc[p].eof
    /\ LET bytes == FirstOf(Rest(data[Reading(p)], proc[p].rpos), BUF)
       IN  proc' = [proc EXCEPT ![p].ibuf = bytes, ![p].rpos = @ + Len(bytes),
                                ![p].eof = bytes = <<>>]
    /\ UNCHANGED <<dir, data, origin, meddled>>

WriteOut(p) ==
    /\ proc[p].at \in Running /\ ~HasRoom(p)
    /\ Write(p, Writing(p), proc[p].wpos, FirstOf(proc[p].obuf, BUF))
    /\ proc' = [proc EXCEPT ![p].wpos = @ + BUF, ![p].obuf = Rest(@, BUF)]
    /\ UNCHANGED <<dir, origin>>

-----------------------------------------------------------------------------
(* pack *)

OpenTmp(p) ==
    /\ proc[p].at = "pack"
    /\ FopenW(p, tmpfile)
    /\ proc' = [proc EXCEPT ![p].at = "encode", ![p].fd_tmp = Opened(tmpfile)]
    /\ UNCHANGED origin

(* assert() in encode and unpack; what stdio holds is not written.         *)
AssertFails(p) ==
    /\ \/ proc[p].at = "encode" /\ (proc[p].fd_in = 0 \/ proc[p].fd_tmp = 0)
       \/ proc[p].at = "unpack" /\ (proc[p].fd_in = 0 \/ proc[p].fd_out = 0)
    /\ proc' = [proc EXCEPT ![p].at = "aborted", ![p].told = TRUE]
    /\ UNCHANGED <<dir, data, origin, meddled>>

EncodeByte(p) ==
    /\ proc[p].at = "encode" /\ HasRoom(p) /\ proc[p].ibuf # <<>>
    /\ proc' = [proc EXCEPT ![p].ibuf = Tail(@),
                            ![p].obuf = @ \o EncodedChar(Head(proc[p].ibuf))]
    /\ UNCHANGED <<dir, data, origin, meddled>>

(* fseek: writes what is left, goes back to the first byte.                *)
Rewind(p) ==
    /\ proc[p].at = "encode" /\ HasRoom(p) /\ proc[p].eof
    /\ Write(p, proc[p].fd_tmp, proc[p].wpos, proc[p].obuf)
    /\ proc' = [proc EXCEPT ![p].at = "copy", ![p].obuf = <<>>, ![p].eof = FALSE,
                            ![p].rpos = 0, ![p].wpos = 0]
    /\ UNCHANGED <<dir, origin>>

CopyBlock(p) ==
    /\ proc[p].at = "copy" /\ HasRoom(p) /\ proc[p].ibuf # <<>> /\ proc[p].fd_out # 0
    /\ proc' = [proc EXCEPT ![p].ibuf = <<>>, ![p].obuf = @ \o proc[p].ibuf]
    /\ UNCHANGED <<dir, data, origin, meddled>>

(* The output could not be opened: fwrite to a null pointer.               *)
NoOutput(p) ==
    /\ proc[p].at = "copy" /\ proc[p].ibuf # <<>> /\ proc[p].fd_out = 0
    /\ proc' = [proc EXCEPT ![p].at = "aborted"]
    /\ UNCHANGED <<dir, data, origin, meddled>>

(* Mutant: pack returns without removing the file.                         *)
CopyEnds_KeepTmp(p) ==
    /\ proc[p].at = "copy" /\ HasRoom(p) /\ proc[p].eof
    /\ proc' = [proc EXCEPT ![p].at = "exit", ![p].fd_tmp = 0]
    /\ UNCHANGED <<dir, data, origin, meddled>>

CopyEnds(p) ==
    /\ proc[p].at = "copy" /\ HasRoom(p) /\ proc[p].eof
    /\ proc' = [proc EXCEPT ![p].at = "remove", ![p].fd_tmp = 0]
    /\ UNCHANGED <<dir, data, origin, meddled>>

(* Whatever file has the name now, if any.                                 *)
RemoveTmp(p) ==
    /\ proc[p].at = "remove"
    /\ dir' = [dir EXCEPT ![tmpfile] = 0]
    /\ proc' = [proc EXCEPT ![p].at = "exit"]
    /\ UNCHANGED <<data, origin, meddled>>

-----------------------------------------------------------------------------
(* unpack: the part of the tape that the next character belongs to, and    *)
(* how many of the part have been read.  The four marks are all read       *)
(* before they are compared ("address" once one of them differs).          *)

At(part, count) == [part |-> part, count |-> count]

Marks(u, c) ==
    LET same == u.part = "header" /\ c = SYNC
    IN  IF u.count < 3 THEN At(IF same THEN "header" ELSE "address", u.count + 1)
        ELSE At(IF same THEN "name" ELSE "binary", 0)

(* Mutant: one character too few is taken for the name.                    *)
Name_OneShort(u, c) == IF c = 0 \/ u.count + 1 = NAME_MAX THEN At("padding", 0)
                       ELSE At("name", u.count + 1)

(* Mutant: the name has no limit but its terminator.                       *)
Name_Unlimited(u, c) == IF c = 0 THEN At("padding", 0)
                        ELSE At("name", IF u.count < NAME_MAX THEN u.count + 1 ELSE u.count)

(* filename[] takes NAME_MAX characters; the one after them, if it is not  *)
(* the terminator, is skipped as if it were.                               *)
Name(u, c) == IF c = 0 \/ u.count = NAME_MAX THEN At("padding", 0)
              ELSE At("name", u.count + 1)

(* What ends the zeros is the first of three service bytes.                *)
Zeros(u, c) == IF c = 0 /\ u.count < PADDING THEN At("padding", u.count + 1)
               ELSE At("service", 1)

Service(u, c) == IF u.count < 2 THEN At("service", u.count + 1) ELSE At("body", 0)

Body(u, c) == At(IF c = END_OF_BODY THEN "end" ELSE "body", 0)

NextPart(u, c) ==
    CASE u.part \in {"header", "address"} -> Marks(u, c)
      [] u.part = "name"    -> Name(u, c)
      [] u.part = "padding" -> Zeros(u, c)
      [] u.part = "service" -> Service(u, c)
      [] u.part = "body"    -> Body(u, c)

(* inbuf_next_char and what unpack does with its answer, which is FF for   *)
(* ever at the end of the file.  A tape without the four marks is told of  *)
(* and given up; main does not look at the result.                         *)
UnpackChar(p) ==
    /\ proc[p].at = "unpack" /\ HasRoom(p) /\ (proc[p].ibuf # <<>> \/ proc[p].eof)
    /\ LET c == IF proc[p].eof THEN 255 ELSE Head(proc[p].ibuf)
           u == NextPart(At(proc[p].part, proc[p].count), c)
       IN  proc' = [proc EXCEPT
                      ![p].ibuf = IF @ = <<>> THEN @ ELSE Tail(@),
                      ![p].obuf = IF proc[p].part = "body" /\ u.part = "body"
                                  THEN @ \o DecodedChar(c) ELSE @,
                      ![p].part = u.part, ![p].count = u.count,
                      ![p].told = @ \/ u.part = "binary",
                      ![p].at = IF u.part \in {"binary", "end"} THEN "exit" ELSE @]
    /\ UNCHANGED <<dir, data, origin, meddled>>

-----------------------------------------------------------------------------
(* fclose of both, which writes the rest of the output; exit(0).           *)
ExitNicely(p) ==
    /\ proc[p].at = "exit" /\ HasRoom(p) /\ proc[p].fd_in # 0 /\ proc[p].fd_out # 0
    /\ Write(p, proc[p].fd_out, proc[p].wpos, proc[p].obuf)
    /\ proc' = [proc EXCEPT ![p].at = "exited", ![p].obuf = <<>>]
    /\ UNCHANGED <<dir, origin>>

(* fclose of a null pointer.                                               *)
ExitFails(p) ==
    /\ proc[p].at = "exit" /\ proc[p].fd_out = 0
    /\ proc' = [proc EXCEPT ![p].at = "aborted"]
    /\ UNCHANGED <<dir, data, origin, meddled>>

(* A signal, at any time: nothing is written any more and nothing removed. *)
Kill(p) ==
    /\ proc[p].at \in Running
    /\ proc' = [proc EXCEPT ![p].at = "killed"]
    /\ UNCHANGED <<dir, data, origin, meddled>>

Step(p) ==
    \/ CommandRequired(p) \/ UnknownCommand(p) \/ OpenInput(p) \/ OpenOutput(p)
    \/ Refill(p) \/ WriteOut(p) \/ AssertFails(p)
    \/ OpenTmp(p) \/ EncodeByte(p) \/ Rewind(p) \/ CopyBlock(p) \/ NoOutput(p)
    \/ CopyEnds(p) \/ RemoveTmp(p) \/ UnpackChar(p) \/ ExitNicely(p) \/ ExitFails(p)

Next == \E p \in Procs : Step(p) \/ Kill(p)

Spec == Init /\ [][Next]_vars

FairSpec == Spec /\ \A p \in Procs : WF_vars(Step(p))

-----------------------------------------------------------------------------
(* Properties *)

(* Every FILE of a process is an inode or null, offsets and buffers are    *)
(* within what stdio allows, and names refer to inodes.                    *)
TypeOK ==
    /\ data \in Seq(Seq(0 .. 255)) /\ dir \in [Names -> 0 .. Len(data)]
    /\ meddled \in [Procs -> BOOLEAN] /\ origin \in [Procs -> Seq(0 .. 255)]
    /\ \A p \in Procs :
         /\ proc[p].at \in Running \cup Ended
         /\ proc[p].code \in {E_CMDREQ, E_UNKNOWNCMD}
         /\ {proc[p].fd_in, proc[p].fd_out, proc[p].fd_tmp} \subseteq 0 .. Len(data)
         /\ proc[p].rpos \in Nat /\ proc[p].wpos \in Nat
         /\ Len(proc[p].ibuf) <= BUF /\ Len(proc[p].obuf) <= 2 * BUF + 1

(* p reads, writes and buffers in three files, and nobody else touched     *)
(* them since p opened them.                                               *)
Undisturbed(p) ==
    /\ proc[p].fd_in # 0 /\ proc[p].fd_out # 0 /\ proc[p].fd_in # proc[p].fd_out
    /\ proc[p].fd_tmp \notin {proc[p].fd_in, proc[p].fd_out}
    /\ tmpfile \notin {proc[p].args[i] : i \in 2 .. Len(proc[p].args)}
    /\ ~meddled[p]

(* A tape as doc/RKA_FORMAT_SPEC.md draws it, with at most NAME_MAX        *)
(* characters of name and PADDING zeros, and where its body begins.        *)
FirstFrom(s, i, S) == LET places == {j \in i .. Len(s) : s[j] \in S}
                      IN  IF places = {} THEN Len(s) + 1
                          ELSE CHOOSE j \in places : \A k \in places : j <= k

NameEnd(t) == FirstFrom(t, 5, {0})
SyncAt(t) == FirstFrom(t, NameEnd(t) + 1, 1 .. 255)

IsTape(t) ==
    /\ Len(t) > 4 /\ \A i \in 1 .. 4 : t[i] = SYNC
    /\ NameEnd(t) - 5 <= NAME_MAX
    /\ SyncAt(t) + 2 <= Len(t)
    /\ SyncAt(t) - NameEnd(t) - 1 <= PADDING

TapeBody(t) == SubSeq(t, SyncAt(t) + 3, FirstFrom(t, SyncAt(t) + 3, {END_OF_BODY}) - 1)

Promised(p) == Command(p) = "pack" \/ IsTape(origin[p])

Result(p) == IF Command(p) = "pack" THEN Encoded(origin[p]) ELSE Decoded(TapeBody(origin[p]))

Busy(p) == argc(p) > 1 /\ Command(p) \in {"pack", "unpack"}

(* A process that nobody interferes with writes its result from the first  *)
(* byte on and nothing else, also when it is killed or fails on the way,   *)
(* and whatever a killed run has left in the temporary file.               *)
OutputIsPrefix ==
    \A p \in Procs :
        Busy(p) /\ Undisturbed(p) /\ Promised(p)
            => IsPrefix(data[proc[p].fd_out], Result(p))

(* When it exits, all of the result is in the file.                        *)
ResultIsWhole ==
    \A p \in Procs :
        proc[p].at = "exited" /\ Busy(p) /\ Undisturbed(p) /\ Promised(p)
            => data[proc[p].fd_out] = Result(p)

(* A listing of characters that the tape has is packed into KOI7, codes of *)
(* 7 bits with the capitals at 60 to 7E, and decodes to the same listing:  *)
(* the two tables of edb.c, written in different orders and indexed in     *)
(* different ways, agree, as they do with the repository's own tape        *)
(* (test.rka, which holds test.asm).  doc/RKA_FORMAT_SPEC.md does not:     *)
(* there 60 to 7E are ASCII, the capitals are 80 to 9F with the high bit   *)
(* set (139-142, 148), and pack makes "r" of 90 (158, 159), where the code *)
(* makes "a".  Read by the document, no Russian tape of pack's is right.   *)
PackedDecodes ==
    \A p \in Procs :
        proc[p].at = "exited" /\ Busy(p) /\ Undisturbed(p) /\ Command(p) = "pack" /\ Printable(origin[p])
            => LET tape == data[proc[p].fd_out]
               IN  IsKoi7(tape) /\ Decoded(tape) = origin[p]

(* When all have ended, none of them killed or failed, and one has packed, *)
(* there is no temporary file, in whatever order they made and removed it. *)
TmpRemoved ==
    (/\ \A p \in Procs : proc[p].at = "exited" /\ \A i \in 2 .. argc(p) - 1 : proc[p].args[i] # tmpfile
     /\ \E p \in Procs : Busy(p) /\ Command(p) = "pack")
        => dir[tmpfile] = 0

(* Every process ends, also while another one writes, empties and removes  *)
(* the files it works on.                                                  *)
ProcessesEnd == \A p \in Procs : <>(proc[p].at \in Ended)
=============================================================================
