----------------------------- MODULE InbufProofs -----------------------------
(***************************************************************************)
(* Theorems about Inbuf, for every set of files with texts of any length   *)
(* and every MAX_INCLUDE_DEPTH.                                            *)
(***************************************************************************)
EXTENDS Inbuf, SeqLemmas, FiniteSetTheorems, TLAPS

Frames == [buf : Buf \cup {Static}, cursym : Nat, num : Nat]

(* The line feeds among the first n items of the text in buffer b.         *)
LineFeeds(b, n) == {i \in 1..n : files[Source(b)][i] = Eol}

(* The inductive invariant.  The frames hold different buffers, the first  *)
(* main's; the texts in them are there and stay there; and a frame below   *)
(* the last knows a place in its text and the line of that place.          *)
FramesInv ==
    /\ ~fault
    /\ IsFiniteSet(live)
    /\ status # "reading" => frames = <<>> /\ live = {}
    /\ status = "reading" =>
         /\ frame_count > 0
         /\ frames[1].buf = Static
         /\ inbuf = frames[frame_count].buf
         /\ live = {frames[i].buf : i \in 2..frame_count}
         /\ Cardinality(live) = frame_count - 1
         /\ \A i \in 2..frame_count : frames[i].buf \in Buf
         /\ \A i, j \in 2..frame_count : frames[i].buf = frames[j].buf => i = j
         /\ \A i \in 1..frame_count : files[Source(frames[i].buf)] # Unreadable
         /\ \A i \in 1..(frame_count - 1) :
              /\ frames[i].cursym <= Len(files[Source(frames[i].buf)])
              /\ frames[i].num = 1 + Cardinality(LineFeeds(frames[i].buf, frames[i].cursym))
         /\ num = 1 + Cardinality(LineFeeds(inbuf, cursym))

-----------------------------------------------------------------------------
(* Texts and lines.                                                        *)

LEMMA SourceType ==
    ASSUME TypeOK, NEW b \in Buf \cup {Static}
    PROVE  Source(b) \in File /\ files[Source(b)] \in Texts \cup {Unreadable}
BY MainAssumption DEF TypeOK, Source

LEMMA TextType ==
    ASSUME TypeOK, NEW b \in Buf \cup {Static}
    PROVE  Len(files[Source(b)]) \in Nat
<1>1. files[Source(b)] \in Texts \cup {Unreadable}
  BY SourceType
<1>2. \A t \in Texts : Len(t) \in Nat
  BY TextsAssumption
<1>3. Len(Unreadable) \in Nat
  BY DEF Unreadable
<1> QED BY <1>1, <1>2, <1>3

LEMMA FrameFields ==
    ASSUME TypeOK, NEW i \in 1..frame_count
    PROVE  frames[i].buf \in Buf \cup {Static} /\ frames[i].cursym \in Nat /\ frames[i].num \in Nat
<1>1. frames \in Seq(Frames)
  BY DEF TypeOK, Frames
<1>2. frames[i] \in Frames
  BY <1>1 DEF frame_count
<1> QED BY <1>2 DEF Frames

(* The number of a line goes up with the line feed that ends it.           *)
LEMMA LineFeedsNext ==
    ASSUME NEW b, NEW n \in Nat
    PROVE  /\ IsFiniteSet(LineFeeds(b, n)) /\ Cardinality(LineFeeds(b, n)) \in Nat
           /\ Cardinality(LineFeeds(b, n + 1)) =
                IF files[Source(b)][n + 1] = Eol THEN Cardinality(LineFeeds(b, n)) + 1
                                                 ELSE Cardinality(LineFeeds(b, n))
<1>1. IsFiniteSet(1..n) /\ LineFeeds(b, n) \subseteq 1..n
  BY FS_Interval DEF LineFeeds
<1>2. IsFiniteSet(LineFeeds(b, n))
  BY <1>1, FS_Subset
<1>3. 1..(n + 1) = 1..n \cup {n + 1} /\ n + 1 \notin LineFeeds(b, n)
  BY DEF LineFeeds
<1>4. LineFeeds(b, n + 1) = IF files[Source(b)][n + 1] = Eol THEN LineFeeds(b, n) \cup {n + 1}
                                                             ELSE LineFeeds(b, n)
  BY <1>3 DEF LineFeeds
<1> QED BY <1>2, <1>3, <1>4, FS_AddElement, FS_CardinalityType

LEMMA NoLineFeedsYet ==
    ASSUME NEW b
    PROVE  Cardinality(LineFeeds(b, 0)) = 0
<1>1. LineFeeds(b, 0) = {}
  BY DEF LineFeeds
<1> QED BY <1>1, FS_EmptySet

-----------------------------------------------------------------------------
(* The steps.                                                              *)

LEMMA NextCharKeeps ==
    ASSUME TypeOK, FramesInv, NextChar
    PROVE  TypeOK' /\ FramesInv'
<1>1. inbuf \in Buf \cup {Static} /\ cursym \in Nat /\ bufsize \in Nat
  BY TextType DEF TypeOK, bufsize, Text
<1>2. cursym' = cursym + 1 /\ cursym' \in 0..bufsize /\ bufsize' = bufsize
  BY <1>1 DEF NextChar, bufsize, Text, Source
<1>3. \A b : Source(b)' = Source(b)
  BY DEF NextChar, Source
<1>4. Here \in File \X (Nat \ {0})
  BY <1>1, SourceType DEF Here
<1>5. TypeOK'
  BY <1>1, <1>2, <1>4 DEF NextChar, TypeOK, frame_count
<1>6. \A b, n : LineFeeds(b, n)' = LineFeeds(b, n)
  BY <1>3 DEF NextChar, LineFeeds
<1>7. num' = 1 + Cardinality(LineFeeds(inbuf, cursym + 1))
  <2>1. num = 1 + Cardinality(LineFeeds(inbuf, cursym))
    BY DEF FramesInv, NextChar
  <2>2. num' = IF files[Source(inbuf)][cursym + 1] = Eol THEN num + 1 ELSE num
    BY DEF NextChar, Text
  <2>3. /\ Cardinality(LineFeeds(inbuf, cursym)) \in Nat
        /\ Cardinality(LineFeeds(inbuf, cursym + 1)) =
             IF files[Source(inbuf)][cursym + 1] = Eol
               THEN Cardinality(LineFeeds(inbuf, cursym)) + 1
               ELSE Cardinality(LineFeeds(inbuf, cursym))
    BY <1>1, LineFeedsNext
  <2> QED BY <2>1, <2>2, <2>3
<1>8. num' = 1 + Cardinality(LineFeeds(inbuf, cursym)')
  BY <1>1, <1>2, <1>3, <1>7 DEF LineFeeds, NextChar
<1>9. UNCHANGED <<files, inbuf, frames, status, live, content, fault>> /\ status = "reading"
  BY DEF NextChar
<1>10. FramesInv'
  <2> DEFINE Below(i) ==
        /\ frames[i].cursym <= Len(files[Source(frames[i].buf)])
        /\ frames[i].num = 1 + Cardinality(LineFeeds(frames[i].buf, frames[i].cursym))
  <2>1. \A i : Below(i)' <=> Below(i)
    BY <1>3, <1>6, <1>9
  <2>2. \A i : (files[Source(frames[i].buf)] # Unreadable)'
                <=> files[Source(frames[i].buf)] # Unreadable
    BY <1>3, <1>9
  <2>3. \A i \in 1..(frame_count - 1) : Below(i)
    BY <1>9 DEF FramesInv
  <2> QED BY <1>8, <1>9, <2>1, <2>2, <2>3 DEF FramesInv, frame_count
<1> QED BY <1>5, <1>10

LEMMA ExitKeeps ==
    ASSUME TypeOK, FramesInv, status = "reading",
           NEW how \in {"done", "failed", "aborted"}, Exit(how),
           UNCHANGED <<files, inbuf, cursym, num, content>>,
           delivered' \in Seq(File \X (Nat \ {0}))
    PROVE  TypeOK' /\ FramesInv'
<1>1. live' = {} /\ fault' = fault /\ frames' = <<>> /\ status' = how
  <2>1. live = {frames[i].buf : i \in 2..frame_count} /\ ~fault
    BY DEF FramesInv
  <2> QED BY <2>1 DEF Exit, TypeOK
<1>2. bufsize' = bufsize
  BY DEF bufsize, Text, Source
<1>3. TypeOK'
  BY <1>1, <1>2, DepthAssumption DEF TypeOK, frame_count
<1>4. FramesInv'
  BY <1>1, FS_EmptySet DEF FramesInv
<1> QED BY <1>3, <1>4

LEMMA PopFacts ==
    ASSUME TypeOK, FramesInv, Pop
    PROVE  /\ frames' \in Seq(Frames)
           /\ frame_count' = frame_count - 1 /\ frame_count' \in Nat \ {0}
           /\ \A i \in 1..(frame_count - 1) : frames'[i] = frames[i]
           /\ inbuf' = frames[frame_count - 1].buf
           /\ cursym' = frames[frame_count - 1].cursym
           /\ num' = frames[frame_count - 1].num
           /\ frames[frame_count].buf \in live
           /\ live' = live \ {frames[frame_count].buf}
           /\ UNCHANGED <<files, status, content, delivered, fault>>
           /\ status = "reading"
<1>1. frames \in Seq(Frames) /\ Len(frames) > 1 /\ Len(frames) \in Nat /\ status = "reading"
  BY DEF TypeOK, Frames, Pop, frame_count
<1>2. /\ Front(frames) \in Seq(Frames) /\ Len(Front(frames)) = Len(frames) - 1
      /\ \A i \in 1..(Len(frames) - 1) : Front(frames)[i] = frames[i]
  BY <1>1 DEF Front
<1>3. Last(Front(frames)) = frames[Len(frames) - 1] /\ Last(frames) = frames[Len(frames)]
  BY <1>1, <1>2 DEF Last
<1>4. frames[frame_count].buf \in live
  BY <1>1 DEF FramesInv, frame_count
<1>5. fault' = fault
  BY <1>3, <1>4 DEF Pop, TypeOK, frame_count
<1> QED BY <1>1, <1>2, <1>3, <1>4, <1>5 DEF Pop, frame_count

LEMMA PopKeeps ==
    ASSUME TypeOK, FramesInv, Pop
    PROVE  TypeOK' /\ FramesInv'
<1> DEFINE n == frame_count
<1>1. /\ frames' \in Seq(Frames)
      /\ frame_count' = n - 1 /\ n - 1 \in Nat \ {0} /\ n \in Nat \ {0}
      /\ \A i \in 1..(n - 1) : frames'[i] = frames[i]
      /\ inbuf' = frames[n - 1].buf /\ cursym' = frames[n - 1].cursym
      /\ num' = frames[n - 1].num
      /\ frames[n].buf \in live /\ live' = live \ {frames[n].buf}
      /\ UNCHANGED <<files, status, content, delivered, fault>>
      /\ status = "reading"
  <2>1. n \in Nat
    BY DEF TypeOK, frame_count
  <2>2. n - 1 \in Nat \ {0}
    BY PopFacts
  <2>3. n \in Nat \ {0}
    BY <2>1, <2>2
  <2> QED BY <2>2, <2>3, PopFacts
<1>2. \A b : Source(b)' = Source(b)
  BY <1>1 DEF Source
<1>3. \A b, k : LineFeeds(b, k)' = LineFeeds(b, k)
  BY <1>1, <1>2 DEF LineFeeds
<1> HIDE DEF n
<1>4. /\ frames[n - 1].cursym <= Len(files[Source(frames[n - 1].buf)])
      /\ frames[n - 1].num = 1 + Cardinality(LineFeeds(frames[n - 1].buf, frames[n - 1].cursym))
      /\ frames[n - 1].buf \in Buf \cup {Static} /\ frames[n - 1].cursym \in Nat
  BY <1>1, FrameFields DEF FramesInv, n
<1>5. num' = 1 + Cardinality(LineFeeds(inbuf', cursym')) /\ num' \in Nat \ {0}
  <2>1. Cardinality(LineFeeds(frames[n - 1].buf, frames[n - 1].cursym)) \in Nat
    BY <1>4, LineFeedsNext
  <2> QED BY <1>1, <1>4, <2>1
<1>6. TypeOK'
  <2>1. bufsize' = Len(files[Source(inbuf')]) /\ bufsize' \in Nat
    BY <1>1, <1>4, TextType DEF bufsize, Text, Source
  <2>2. cursym' \in 0..bufsize'
    BY <1>1, <1>4, <2>1
  <2>3. frame_count' <= MAX_INCLUDE_DEPTH
    BY <1>1, DepthAssumption DEF TypeOK, n
  <2> QED BY <1>1, <1>4, <1>5, <2>2, <2>3 DEF TypeOK, Frames
<1>7. live' = {frames'[i].buf : i \in 2..(n - 1)}
  <2>1. live = {frames[i].buf : i \in 2..n}
    BY <1>1 DEF FramesInv, n
  <2>2. \A i \in 2..n : frames[i].buf = frames[n].buf => i = n
    BY <1>1 DEF FramesInv, n
  <2>3. \A x : x \in live' <=> \E i \in 2..(n - 1) : x = frames[i].buf
    BY <1>1, <2>1, <2>2, SMTT(30)
  <2>4. \A i \in 2..(n - 1) : frames'[i].buf = frames[i].buf
    BY <1>1
  <2> QED BY <2>3, <2>4
<1>8. IsFiniteSet(live') /\ Cardinality(live') = n - 2
  <2>1. Cardinality(live) = n - 1 /\ IsFiniteSet(live)
    BY <1>1 DEF FramesInv, n
  <2>2. IsFiniteSet(live') /\ Cardinality(live') = Cardinality(live) - 1
    BY <1>1, <2>1, FS_RemoveElement
  <2> QED BY <1>1, <2>1, <2>2
<1>9. num' = 1 + Cardinality(LineFeeds(inbuf, cursym)')
  BY <1>1, <1>2, <1>5 DEF LineFeeds
<1>10. ASSUME NEW i \in 1..(n - 2)
       PROVE  /\ frames'[i].cursym <= Len(files'[Source(frames[i].buf)'])
              /\ frames'[i].num = 1 + Cardinality(LineFeeds(frames[i].buf, frames[i].cursym)')
  <2>1. i \in 1..(n - 1) /\ frames'[i] = frames[i]
    BY <1>1
  <2>2. Source(frames[i].buf)' = Source(frames[i].buf)
    BY <1>1, <2>1 DEF Source
  <2>3. LineFeeds(frames[i].buf, frames[i].cursym)' = LineFeeds(frames[i].buf, frames[i].cursym)
    BY <1>1, <2>1, <2>2 DEF LineFeeds
  <2> QED BY <1>1, <2>1, <2>2, <2>3 DEF FramesInv, n
<1>11. \A i \in 1..(n - 1) : (files[Source(frames[i].buf)] # Unreadable)'
  BY <1>1, <1>2 DEF FramesInv, n, Source
<1>12. /\ \A i \in 2..(n - 1) : frames'[i].buf \in Buf
       /\ \A i, j \in 2..(n - 1) : frames'[i].buf = frames'[j].buf => i = j
       /\ frames'[1].buf = Static
       /\ inbuf' = frames'[n - 1].buf
  BY <1>1 DEF FramesInv, n
<1>13. (n - 1) - 1 = n - 2 /\ n - 1 > 0
  BY <1>1
<1>14. ~fault
  BY DEF FramesInv
<1>15. FramesInv'
  BY <1>1, <1>7, <1>8, <1>9, <1>10, <1>11, <1>12, <1>13, <1>14 DEF FramesInv
<1> QED BY <1>6, <1>15

LEMMA PushFacts ==
    ASSUME TypeOK, FramesInv, NEW f \in File, PushFile(f), NEW n, n = frame_count
    PROVE  \E b \in Buf \ live :
           /\ frames' \in Seq(Frames) /\ n \in Nat \ {0}
           /\ Len(frames') = n + 1 /\ n + 1 <= MAX_INCLUDE_DEPTH
           /\ \A i \in 1..(n - 1) : frames'[i] = frames[i]
           /\ frames'[n] = Frame(inbuf, cursym + 1, num)
           /\ frames'[n + 1] = Frame(b, 0, 1)
           /\ inbuf' = b /\ cursym' = 0 /\ num' = 1
           /\ live' = live \cup {b}
           /\ content' = [content EXCEPT ![b] = f]
           /\ files[f] # Unreadable
           /\ UNCHANGED <<files, status, fault>> /\ status = "reading"
<1>1. /\ n \in Nat \ {0} /\ n + 1 <= MAX_INCLUDE_DEPTH /\ status = "reading"
      /\ frames \in Seq(Frames)
  BY DepthAssumption
  DEF PushFile, AtInclude, FramesUsedUp, FramesInv, TypeOK, frame_count, Frames
<1>2. Frame(inbuf, cursym + 1, num) \in Frames /\ \A b \in Buf : Frame(b, 0, 1) \in Frames
  <2>1. cursym + 1 \in Nat /\ num \in Nat /\ inbuf \in Buf \cup {Static}
    BY DEF TypeOK
  <2> QED BY <2>1 DEF Frame, Frames
<1>3. /\ SavedFrames \in Seq(Frames) /\ Len(SavedFrames) = n
      /\ \A i \in 1..n : SavedFrames[i] =
           IF i = n THEN Frame(inbuf, cursym + 1, num) ELSE frames[i]
  <2>1. n \in 1..Len(frames) /\ Len(frames) = n
    BY <1>1 DEF frame_count
  <2> QED BY <1>1, <1>2, <2>1, ExceptSeq DEF SavedFrames, frame_count
<1>4. PICK b \in Buf \ live :
        /\ live' = live \cup {b} /\ content' = [content EXCEPT ![b] = f] /\ inbuf' = b
        /\ frames' = Append(SavedFrames, Frame(b, 0, 1))
  BY DEF PushFile
<1>5. /\ frames' \in Seq(Frames) /\ Len(frames') = n + 1
      /\ \A i \in 1..n : frames'[i] = SavedFrames[i]
      /\ frames'[n + 1] = Frame(b, 0, 1)
  BY <1>2, <1>3, <1>4, AppendProperties
<1>6. n \in 1..n /\ \A i \in 1..(n - 1) : i \in 1..n /\ i # n
  BY <1>1
<1> QED BY <1>1, <1>3, <1>4, <1>5, <1>6 DEF PushFile

LEMMA PushKeeps ==
    ASSUME TypeOK, FramesInv, NEW f \in File, PushFile(f)
    PROVE  TypeOK' /\ FramesInv'
<1> DEFINE n == frame_count
<1>1. PICK b \in Buf \ live :
           /\ frames' \in Seq(Frames) /\ n \in Nat \ {0}
           /\ Len(frames') = n + 1 /\ n + 1 <= MAX_INCLUDE_DEPTH
           /\ \A i \in 1..(n - 1) : frames'[i] = frames[i]
           /\ frames'[n] = Frame(inbuf, cursym + 1, num)
           /\ frames'[n + 1] = Frame(b, 0, 1)
           /\ inbuf' = b /\ cursym' = 0 /\ num' = 1
           /\ live' = live \cup {b}
           /\ content' = [content EXCEPT ![b] = f]
           /\ files[f] # Unreadable
           /\ UNCHANGED <<files, status, fault>> /\ status = "reading"
  BY PushFacts
<1>2. frame_count' = n + 1
  BY <1>1 DEF frame_count
<1>3. /\ ~fault /\ IsFiniteSet(live)
      /\ frames[1].buf = Static /\ inbuf = frames[n].buf
      /\ live = {frames[i].buf : i \in 2..n} /\ Cardinality(live) = n - 1
      /\ \A i \in 2..n : frames[i].buf \in Buf
      /\ \A i, j \in 2..n : frames[i].buf = frames[j].buf => i = j
      /\ \A i \in 1..n : files[Source(frames[i].buf)] # Unreadable
      /\ num = 1 + Cardinality(LineFeeds(inbuf, cursym))
  BY <1>1 DEF FramesInv
<1> HIDE DEF n
<1>4. \A i \in 1..n : frames'[i].buf = frames[i].buf
  <2>1. frames'[n].buf = frames[n].buf
    BY <1>1, <1>3 DEF Frame
  <2> QED BY <1>1, <2>1
<1>5. frames'[n + 1].buf = b
  BY <1>1 DEF Frame
<1>6. \A i \in 1..n : frames[i].buf # b
  BY <1>1, <1>3, BufAssumption
<1> DEFINE src(c) == IF c = Static THEN Main ELSE content'[c]
           lines(c, k) == {j \in 1..k : files'[src(c)][j] = Eol}
<1>7. /\ src(b) = f
      /\ \A c \in Buf \cup {Static} : c # b => src(c) = Source(c)
      /\ \A c \in Buf \cup {Static} : c # b => \A k : lines(c, k) = LineFeeds(c, k)
  BY <1>1, BufAssumption DEF Source, TypeOK, LineFeeds
<1>8. \A i \in 1..n : frames'[i].buf \in Buf \cup {Static} /\ frames'[i].buf # b
  BY <1>1, <1>3, <1>4, <1>6, FrameFields DEF n
<1>9. \A i \in 1..n : src(frames'[i].buf) = Source(frames[i].buf)
  BY <1>4, <1>7, <1>8
<1> HIDE DEF src, lines
<1>10. TypeOK'
  <2>1. Here \in File \X (Nat \ {0})
    BY SourceType DEF Here, TypeOK
  <2>2. delivered' \in Seq(File \X (Nat \ {0}))
    BY <2>1 DEF PushFile, TypeOK
  <2>3. content' \in [Buf -> File] /\ live' \subseteq Buf
    BY <1>1 DEF TypeOK
  <2>4. bufsize' \in Nat
    <3>1. bufsize' = Len(files[f])
      BY <1>1, <1>7 DEF bufsize, Text, Source, src
    <3>2. files[f] \in Texts
      BY <1>1 DEF TypeOK
    <3> QED BY <3>1, <3>2, TextsAssumption
  <2>5. cursym' \in 0..bufsize' /\ num' \in Nat \ {0}
    BY <1>1, <2>4
  <2> QED BY <1>1, <1>2, <2>2, <2>3, <2>5 DEF TypeOK, Frames
<1>11. live' = {frames'[i].buf : i \in 2..(n + 1)}
  <2>1. \A x : x \in live' <=> \E i \in 2..(n + 1) : x = frames'[i].buf
    BY <1>1, <1>3, <1>4, <1>5
  <2> QED BY <2>1
<1>12. IsFiniteSet(live') /\ Cardinality(live') = n
  <2>1. IsFiniteSet(live') /\ Cardinality(live') = Cardinality(live) + 1
    BY <1>1, <1>3, FS_AddElement
  <2> QED BY <1>1, <1>3, <2>1
<1>13. /\ frames'[1].buf = Static /\ inbuf' = frames'[n + 1].buf
       /\ \A i \in 2..(n + 1) : frames'[i].buf \in Buf
       /\ \A i, j \in 2..(n + 1) : frames'[i].buf = frames'[j].buf => i = j
  BY <1>1, <1>3, <1>4, <1>5, <1>6
<1>14. \A i \in 1..(n + 1) : (files[Source(frames[i].buf)] # Unreadable)'
  <2>1. \A i \in 1..n : files'[src(frames'[i].buf)] # Unreadable
    BY <1>1, <1>3, <1>9
  <2>2. files'[src(frames'[n + 1].buf)] # Unreadable
    BY <1>1, <1>5, <1>7
  <2>3. \A i \in 1..(n + 1) : i \in 1..n \/ i = n + 1
    BY <1>1
  <2> QED BY <2>1, <2>2, <2>3 DEF Source, src
<1>15. ASSUME NEW i \in 1..n
       PROVE  /\ frames'[i].cursym <= Len(files'[src(frames'[i].buf)])
              /\ frames'[i].num = 1 + Cardinality(lines(frames'[i].buf, frames'[i].cursym))
  <2>1. lines(frames'[i].buf, frames'[i].cursym) = LineFeeds(frames'[i].buf, frames'[i].cursym)
    BY <1>7, <1>8
  <2>2. CASE i # n
    <3>1. i \in 1..(n - 1) /\ frames'[i] = frames[i]
      BY <1>1, <2>2
    <3>2. /\ frames[i].cursym <= Len(files[Source(frames[i].buf)])
          /\ frames[i].num = 1 + Cardinality(LineFeeds(frames[i].buf, frames[i].cursym))
      BY <1>1, <3>1 DEF FramesInv, n
    <3> QED BY <1>1, <1>9, <2>1, <3>1, <3>2
  <2>3. CASE i = n
    <3>1. frames'[n].cursym = cursym + 1 /\ frames'[n].num = num /\ frames'[n].buf = inbuf
      BY <1>1 DEF Frame
    <3>2. cursym \in Nat /\ cursym + 1 <= Len(files[Source(inbuf)])
      BY TextType DEF PushFile, AtInclude, bufsize, Text, TypeOK
    <3>3. files[Source(inbuf)][cursym + 1] # Eol
      BY DEF PushFile, AtInclude, Text, Include, Eol
    <3>4. Cardinality(LineFeeds(inbuf, cursym + 1)) = Cardinality(LineFeeds(inbuf, cursym))
      BY <3>2, <3>3, LineFeedsNext
    <3>5. src(frames'[n].buf) = Source(inbuf)
      BY <1>3, <1>9, <2>3
    <3> QED BY <1>1, <1>3, <2>1, <2>3, <3>1, <3>2, <3>4, <3>5
  <2> QED BY <2>2, <2>3
<1>16. ASSUME NEW i \in 1..n
       PROVE  /\ frames'[i].cursym <= Len((files[Source(frames[i].buf)])')
              /\ frames'[i].num = 1 + Cardinality(LineFeeds(frames[i].buf, frames[i].cursym)')
  BY <1>15 DEF Source, LineFeeds, src, lines
<1>17. num' = 1 + Cardinality(LineFeeds(inbuf, cursym)')
  <2>1. 1..0 = {}
    OBVIOUS
  <2>2. LineFeeds(inbuf, cursym)' = {}
    BY <1>1, <2>1 DEF LineFeeds
  <2>3. Cardinality(LineFeeds(inbuf, cursym)') = 0
    BY <2>2, FS_EmptySet
  <2> QED BY <1>1, <2>3
<1>18. (n + 1) - 1 = n /\ n + 1 > 0
  BY <1>1
<1>19. FramesInv'
  BY <1>1, <1>2, <1>3, <1>11, <1>12, <1>13, <1>14, <1>16, <1>17, <1>18 DEF FramesInv
<1> QED BY <1>10, <1>19

-----------------------------------------------------------------------------
(* The theorems.                                                           *)

LEMMA InitFrames == ASSUME Init PROVE TypeOK /\ FramesInv
<1>1. /\ frames = <<Frame(Static, 0, 1)>> /\ Len(frames) = 1 /\ frames[1] = Frame(Static, 0, 1)
      /\ frames \in Seq(Frames)
  BY DEF Init, Frame, Frames
<1>2. bufsize \in Nat
  <2>1. Source(inbuf) = Main /\ files[Main] \in Texts
    BY MainAssumption DEF Init, Source
  <2> QED BY <2>1, TextsAssumption DEF bufsize, Text
<1>3. TypeOK
  <2>1. content \in [Buf -> File] /\ live \subseteq Buf /\ delivered \in Seq(File \X (Nat \ {0}))
    BY MainAssumption DEF Init
  <2>2. frame_count <= MAX_INCLUDE_DEPTH
    BY <1>1, DepthAssumption DEF frame_count
  <2>3. cursym \in 0..bufsize
    BY <1>2 DEF Init
  <2>4. frames \in Seq([buf : Buf \cup {Static}, cursym : Nat, num : Nat])
    BY <1>1 DEF Frames
  <2>5. /\ files \in [File -> Texts \cup {Unreadable}] /\ inbuf \in Buf \cup {Static}
        /\ num \in Nat \ {0} /\ status = "reading"
    BY DEF Init
  <2>6. fault \in BOOLEAN
    BY Zenon DEF Init
  <2> QED BY <2>1, <2>2, <2>3, <2>4, <2>5, <2>6 DEF TypeOK
<1>4. Cardinality(LineFeeds(inbuf, cursym)) = 0
  BY NoLineFeedsYet DEF Init
<1>5. FramesInv
  BY <1>1, <1>4, FS_EmptySet DEF Init, FramesInv, Frame, Source, frame_count
<1> QED BY <1>3, <1>5

(* FramesInv holds in every state.                                         *)
THEOREM FramesSound == Spec => [](TypeOK /\ FramesInv)
<1>1. Init => TypeOK /\ FramesInv
  BY InitFrames
<1>2. TypeOK /\ FramesInv /\ [Next]_vars => TypeOK' /\ FramesInv'
  <2> SUFFICES ASSUME TypeOK, FramesInv, [Next]_vars PROVE TypeOK' /\ FramesInv'
    OBVIOUS
  <2>1. CASE NextChar
    BY <2>1, NextCharKeeps
  <2>2. CASE Pop
    BY <2>2, PopKeeps
  <2>3. CASE EndOfInput
    <3>1. delivered' \in Seq(File \X (Nat \ {0}))
      BY <2>3 DEF EndOfInput, TypeOK
    <3> QED BY <2>3, <3>1, ExitKeeps DEF EndOfInput
  <2>4. ASSUME NEW f \in File, PushFile(f) PROVE TypeOK' /\ FramesInv'
    BY <2>4, PushKeeps
  <2>5. ASSUME NEW f \in File, PushFails(f) PROVE TypeOK' /\ FramesInv'
    <3>1. Here \in File \X (Nat \ {0})
      BY SourceType DEF Here, TypeOK
    <3>2. delivered' \in Seq(File \X (Nat \ {0}))
      BY <2>5, <3>1 DEF PushFails, TypeOK
    <3> QED BY <2>5, <3>2, ExitKeeps DEF PushFails, AtInclude
  <2>6. CASE ParserGivesUp
    <3>1. delivered' \in Seq(File \X (Nat \ {0}))
      BY <2>6 DEF ParserGivesUp, TypeOK
    <3> QED BY <2>6, <3>1, ExitKeeps DEF ParserGivesUp
  <2>7. CASE UNCHANGED vars
    <3>1. TypeOK'
      BY <2>7 DEF vars, TypeOK, frame_count, bufsize, Text, Source
    <3>2. FramesInv'
      BY <2>7 DEF vars, FramesInv, frame_count, Source, LineFeeds
    <3> QED BY <3>1, <3>2
  <2> QED BY <2>1, <2>2, <2>3, <2>4, <2>5, <2>6, <2>7 DEF Next, Read
<1> QED BY <1>1, <1>2, PTL DEF Spec

(* At most MAX_INCLUDE_DEPTH frames, and never a place outside a text.     *)
THEOREM TypeCorrect == Spec => []TypeOK
BY FramesSound, PTL

(* The line number of an error message is the one of the place where the   *)
(* reader is, also when it is back in a file that included others.         *)
THEOREM LinesCounted == Spec => []LineIsRight
<1>1. TypeOK /\ FramesInv => LineIsRight
  <2> SUFFICES ASSUME TypeOK, FramesInv, status = "reading"
               PROVE  num = 1 + Cardinality({i \in 1..cursym : Text[i] = Eol})
    BY DEF LineIsRight
  <2>1. LineFeeds(inbuf, cursym) = {i \in 1..cursym : Text[i] = Eol}
    BY DEF LineFeeds, Text
  <2> QED BY <2>1 DEF FramesInv
<1> QED BY <1>1, FramesSound, PTL

(* Every buffer of an included file is freed once, when the file ends or   *)
(* with the run.                                                           *)
THEOREM BuffersFreedOnce == Spec => []BuffersOwned
<1>1. TypeOK /\ FramesInv => BuffersOwned
  <2> SUFFICES ASSUME TypeOK, FramesInv PROVE BuffersOwned
    OBVIOUS
  <2>1. CASE status = "reading"
    BY <2>1 DEF BuffersOwned, FramesInv
  <2>2. CASE status # "reading"
    <3>1. frame_count = 0 /\ live = {}
      BY <2>2 DEF FramesInv, frame_count
    <3>2. {frames[i].buf : i \in 2..frame_count} = {}
      BY <3>1
    <3> QED BY <2>2, <3>1, <3>2, FS_EmptySet DEF BuffersOwned, FramesInv
  <2> QED BY <2>1, <2>2
<1> QED BY <1>1, FramesSound, PTL

-----------------------------------------------------------------------------
(* Expansions: the recursion of Expansion is well founded.                 *)

Mark == File \X Nat

Readable == {g \in File : files[g] # Unreadable}

(* What item i of file f stands for when E gives what files stand for with *)
(* fewer frames left.                                                      *)
Part(d, E, f, i) ==
    IF files[f][i] \in {Char, Eol} THEN << <<f, i>> >>
    ELSE LET g == files[f][i][2]
         IN  << <<f, i>> >> \o
             IF d = 1 \/ files[g] = Unreadable THEN <<Stop>> ELSE E[d - 1][g]

Layer(d, E) ==
    [f \in Readable |-> UpToStop(FlattenSeq([i \in DOMAIN files[f] |-> Part(d, E, f, i)]))]

LEMMA LayerBelow ==
    ASSUME NEW d, NEW E, NEW F, d # 1 => E[d - 1] = F[d - 1]
    PROVE  Layer(d, E) = Layer(d, F)
<1>1. \A f, i : Part(d, E, f, i) = Part(d, F, f, i)
  BY DEF Part
<1>2. \A f : [i \in DOMAIN files[f] |-> Part(d, E, f, i)] = [i \in DOMAIN files[f] |-> Part(d, F, f, i)]
  BY <1>1
<1> HIDE DEF Part
<1> QED BY <1>2 DEF Layer

LEMMA LayersExist == \E E : E = [d \in 1..MAX_INCLUDE_DEPTH |-> Layer(d, E)]
<1> DEFINE T == {n \in Nat : \E E : E = [d \in 1..n |-> Layer(d, E)]}
<1>1. 0 \in T
  <2>1. 1..0 = {}
    OBVIOUS
  <2>2. [d \in {} |-> d] = [d \in 1..0 |-> Layer(d, [e \in {} |-> e])]
    BY <2>1
  <2> QED BY <2>1, <2>2
<1>2. ASSUME NEW n \in Nat, n \in T PROVE n + 1 \in T
  <2>1. PICK E : E = [d \in 1..n |-> Layer(d, E)]
    BY <1>2
  <2> DEFINE F == [d \in 1..(n + 1) |-> IF d = n + 1 THEN Layer(d, E) ELSE E[d]]
  <2>2. \A d \in 1..n : F[d] = E[d] /\ d \in 1..(n + 1) /\ d # n + 1
    OBVIOUS
  <2>3. ASSUME NEW d \in 1..(n + 1) PROVE F[d] = Layer(d, F)
    <3>1. d # 1 => F[d - 1] = E[d - 1]
      <4>1. d # 1 => d - 1 \in 1..n
        OBVIOUS
      <4> QED BY <4>1, <2>2
    <3>2. Layer(d, F) = Layer(d, E)
      <4> HIDE DEF F
      <4> QED BY <3>1, LayerBelow
    <3>3. d # n + 1 => d \in 1..n /\ E[d] = Layer(d, E)
      BY <2>1
    <3> QED BY <3>2, <3>3
  <2>4. F = [d \in 1..(n + 1) |-> F[d]]
    OBVIOUS
  <2> HIDE DEF F
  <2>5. F = [d \in 1..(n + 1) |-> Layer(d, F)]
    BY <2>3, <2>4
  <2>6. n + 1 \in Nat
    OBVIOUS
  <2> QED BY <2>5, <2>6
<1>3. \A n \in Nat : n \in T
  <2> HIDE DEF T
  <2> QED BY <1>1, <1>2, NatSetInduction
<1> QED BY <1>3, DepthAssumption

LEMMA ExpansionLayers == Expansion = [d \in 1..MAX_INCLUDE_DEPTH |-> Layer(d, Expansion)]
<1> QED BY LayersExist DEF Expansion, Layer, Part, Readable

LEMMA ExpansionStays ==
    ASSUME files' = files
    PROVE  Expansion' = Expansion
BY DEF Expansion, UpToStop, Stop
-----------------------------------------------------------------------------
(* Up to the first Stop.                                                   *)

StopFree(s) == \A i \in DOMAIN s : s[i] # Stop

(* Stop comes last in s if it comes at all.                                *)
StopLast(s) == \A i \in DOMAIN s : s[i] = Stop => i = Len(s)

LEMMA StopIsMark == Stop \in Mark
BY MainAssumption DEF Stop, Mark

LEMMA StopFirst ==
    ASSUME NEW s \in Seq(Mark), ~StopFree(s)
    PROVE  \E c \in 1..Len(s) : /\ s[c] = Stop /\ \A j \in 1..(c - 1) : s[j] # Stop
                                /\ UpToStop(s) = SubSeq(s, 1, c)
<1> DEFINE First(i) == i \in DOMAIN s /\ s[i] = Stop /\ \A j \in 1..(i - 1) : s[j] # Stop
           T == {i \in DOMAIN s : s[i] = Stop}
<1>1. DOMAIN s = 1..Len(s) /\ Len(s) \in Nat
  BY LenProperties
<1>2. PICK x \in T : \A y \in T : x <= y
  <2>1. T \subseteq Nat /\ T # {}
    BY <1>1 DEF StopFree
  <2> HIDE DEF T
  <2> QED BY <2>1, LeastNat
<1>3. First(x)
  BY <1>1, <1>2
<1>4. First(CHOOSE i \in DOMAIN s : s[i] = Stop /\ \A j \in 1..(i - 1) : s[j] # Stop)
  BY <1>3
<1>5. Stop \in Range(s)
  BY <1>2 DEF Range
<1> QED BY <1>1, <1>4, <1>5 DEF UpToStop

LEMMA UpToStopWhole ==
    ASSUME NEW s, StopFree(s)
    PROVE  UpToStop(s) = s
BY DEF UpToStop, StopFree, Range

LEMMA UpToStopType ==
    ASSUME NEW s \in Seq(Mark)
    PROVE  UpToStop(s) \in Seq(Mark) /\ StopLast(UpToStop(s))
<1>1. CASE StopFree(s)
  BY <1>1, UpToStopWhole DEF StopFree, StopLast
<1>2. CASE ~StopFree(s)
  <2>1. PICK c \in 1..Len(s) : /\ \A j \in 1..(c - 1) : s[j] # Stop
                               /\ UpToStop(s) = SubSeq(s, 1, c)
    BY <1>2, StopFirst
  <2>2. Len(s) \in Nat /\ c \in Nat /\ c <= Len(s)
    BY <2>1, LenProperties
  <2>3. /\ SubSeq(s, 1, c) \in Seq(Mark) /\ Len(SubSeq(s, 1, c)) = c
        /\ \A i \in 1..c : SubSeq(s, 1, c)[i] = s[i]
    BY <2>2, SubSeqType
  <2>4. DOMAIN SubSeq(s, 1, c) = 1..c
    BY <2>3, LenProperties
  <2> QED BY <2>1, <2>2, <2>3, <2>4 DEF StopLast
<1> QED BY <1>1, <1>2

(* What a text begins with its part up to the first Stop begins with, too. *)
LEMMA UpToStopBegins ==
    ASSUME NEW y \in Seq(Mark), NEW r \in Seq(Mark), StopLast(y)
    PROVE  \E q \in Seq(Mark) : UpToStop(y \o r) = y \o q
<1> DEFINE s == y \o r
<1>1. /\ s \in Seq(Mark) /\ Len(s) = Len(y) + Len(r) /\ Len(y) \in Nat /\ Len(r) \in Nat
      /\ \A i \in 1..Len(y) : s[i] = y[i]
  BY ConcatProperties, LenProperties
<1>2. CASE StopFree(s)
  BY <1>2, UpToStopWhole
<1>3. CASE ~StopFree(s)
  <2> HIDE DEF s
  <2>1. PICK c \in 1..Len(s) : /\ s[c] = Stop /\ \A j \in 1..(c - 1) : s[j] # Stop
                               /\ UpToStop(s) = SubSeq(s, 1, c)
    BY <1>1, <1>3, StopFirst
  <2>2. Len(y) <= c
    <3> SUFFICES ASSUME c < Len(y) PROVE FALSE
      BY <1>1, <2>1
    <3>1. c \in DOMAIN y /\ y[c] = Stop
      <4>1. y \in [1..Len(y) -> Mark]
        BY LenProperties
      <4>2. c \in 1..Len(y)
        BY <1>1, <2>1
      <4> QED BY <4>1, <4>2, <1>1, <2>1
    <3> QED BY <3>1, <1>1, <2>1 DEF StopLast
  <2>3. SubSeq(s, 1, c) = SubSeq(s, 1, Len(y)) \o SubSeq(s, Len(y) + 1, c)
    <3>1. 1 \in 1..Len(s) + 1 /\ Len(y) \in 1 - 1..Len(s) /\ c \in Len(y)..Len(s)
      BY <1>1, <2>1, <2>2
    <3> QED BY <1>1, <3>1, ConcatAdjacentSubSeq
  <2>4. SubSeq(s, 1, Len(y)) = y
    <3>1. /\ SubSeq(s, 1, Len(y)) \in Seq(Mark) /\ Len(SubSeq(s, 1, Len(y))) = Len(y)
          /\ \A i \in 1..Len(y) : SubSeq(s, 1, Len(y))[i] = s[i]
      BY <1>1, SubSeqType
    <3> QED BY <1>1, <3>1, SeqEqual
  <2>5. SubSeq(s, Len(y) + 1, c) \in Seq(Mark)
    <3>1. Len(y) + 1 \in Nat \ {0} /\ c \in Nat /\ c <= Len(s)
      BY <1>1, <2>1
    <3> QED BY <1>1, <3>1, SubSeqType
  <2> QED BY <2>1, <2>3, <2>4, <2>5 DEF s
<1> QED BY <1>2, <1>3

(* A text that ends with its only Stop begins with no longer one.          *)
LEMMA StopEndsIt ==
    ASSUME NEW y \in Seq(Mark), NEW r \in Seq(Mark), StopLast(y \o r),
           y # <<>>, y[Len(y)] = Stop
    PROVE  y \o r = y
<1>1. /\ Len(y \o r) = Len(y) + Len(r) /\ Len(y) \in Nat \ {0} /\ Len(r) \in Nat
      /\ \A i \in 1..Len(y) : (y \o r)[i] = y[i]
      /\ y \o r \in Seq(Mark)
  BY ConcatProperties, LenProperties, EmptySeq
<1>2. Len(y) \in DOMAIN (y \o r) /\ (y \o r)[Len(y)] = Stop
  BY <1>1, LenProperties
<1>3. Len(y) = Len(y) + Len(r)
  BY <1>1, <1>2 DEF StopLast
<1>4. r = <<>>
  BY <1>1, <1>3, EmptySeq
<1> QED BY <1>4, ConcatEmptySeq
-----------------------------------------------------------------------------
(* What the first n items of file f stand for when d frames are left.      *)

Parts(d, f) == [i \in DOMAIN files[f] |-> Part(d, Expansion, f, i)]

Upto(d, f, n) == FlattenSeq(SubSeq(Parts(d, f), 1, n))

LEMMA ReadableText ==
    ASSUME TypeOK, NEW f \in Readable
    PROVE  /\ files[f] \in Seq({Char, Eol} \cup {Include(g) : g \in File})
           /\ DOMAIN files[f] = 1..Len(files[f]) /\ Len(files[f]) \in Nat
           /\ \A i \in 1..Len(files[f]) : files[f][i] \in {Char, Eol}
                                          \/ \E g \in File : files[f][i] = Include(g)
<1>1. files[f] \in Seq({Char, Eol} \cup {Include(g) : g \in File})
  <2>1. f \in File /\ files[f] \in Texts \cup {Unreadable} /\ files[f] # Unreadable
    BY DEF TypeOK, Readable
  <2> QED BY <2>1, TextsAssumption
<1>2. DOMAIN files[f] = 1..Len(files[f]) /\ Len(files[f]) \in Nat
  BY <1>1, LenProperties
<1>3. ASSUME NEW i \in 1..Len(files[f])
      PROVE  files[f][i] \in {Char, Eol} \/ \E g \in File : files[f][i] = Include(g)
  <2>1. files[f][i] \in {Char, Eol} \cup {Include(g) : g \in File}
    BY <1>1, ElementOfSeq
  <2> QED BY <2>1
<1> QED BY <1>1, <1>2, <1>3

LEMMA NoInclude == \A g : Include(g) \notin {Char, Eol} /\ Include(g)[2] = g
BY DEF Include, Char, Eol

LEMMA PartType ==
    ASSUME TypeOK, NEW d \in 1..MAX_INCLUDE_DEPTH, NEW f \in Readable,
           d # 1 => \A g \in Readable : Expansion[d - 1][g] \in Seq(Mark)
    PROVE  Parts(d, f) \in Seq(Seq(Mark)) /\ Len(Parts(d, f)) = Len(files[f])
<1>1. ASSUME NEW i \in 1..Len(files[f])
      PROVE  Part(d, Expansion, f, i) \in Seq(Mark)
  <2>1. <<f, i>> \in Mark /\ << <<f, i>> >> \in Seq(Mark) /\ <<Stop>> \in Seq(Mark)
    <3>1. f \in File /\ i \in Nat
      BY ReadableText DEF Readable
    <3>2. <<f, i>> \in Mark
      BY <3>1 DEF Mark
    <3> QED BY <3>2, StopIsMark
  <2>2. CASE files[f][i] \in {Char, Eol}
    BY <2>1, <2>2 DEF Part
  <2>3. CASE files[f][i] \notin {Char, Eol}
    <3>1. PICK g \in File : files[f][i] = Include(g)
      BY <2>3, ReadableText
    <3>2. files[f][i][2] = g
      BY <3>1, NoInclude
    <3> DEFINE below == IF d = 1 \/ files[g] = Unreadable THEN <<Stop>> ELSE Expansion[d - 1][g]
    <3>3. below \in Seq(Mark)
      BY <2>1 DEF Readable
    <3>4. Part(d, Expansion, f, i) = << <<f, i>> >> \o below
      BY <2>3, <3>2 DEF Part
    <3> HIDE DEF below
    <3> QED BY <2>1, <3>3, <3>4, ConcatProperties
  <2> QED BY <2>2, <2>3
<1>2. DOMAIN files[f] = 1..Len(files[f]) /\ Len(files[f]) \in Nat
  BY ReadableText
<1>3. Parts(d, f) = [i \in 1..Len(files[f]) |-> Part(d, Expansion, f, i)]
  BY <1>2 DEF Parts
<1>4. Parts(d, f) \in [1..Len(files[f]) -> Seq(Mark)]
  BY <1>1, <1>3
<1> QED BY <1>2, <1>4

LEMMA ExpansionIs ==
    ASSUME NEW d \in 1..MAX_INCLUDE_DEPTH, NEW f \in Readable
    PROVE  Expansion[d][f] = UpToStop(FlattenSeq(Parts(d, f)))
<1>1. Expansion[d] = Layer(d, Expansion)
  BY ExpansionLayers
<1> QED BY <1>1 DEF Layer, Parts

LEMMA ExpansionType ==
    ASSUME TypeOK, NEW d \in 1..MAX_INCLUDE_DEPTH, NEW f \in Readable
    PROVE  /\ Parts(d, f) \in Seq(Seq(Mark)) /\ Len(Parts(d, f)) = Len(files[f])
           /\ Expansion[d][f] \in Seq(Mark) /\ StopLast(Expansion[d][f])
<1> DEFINE T == {n \in Nat : n \in 1..MAX_INCLUDE_DEPTH => \A g \in Readable : Expansion[n][g] \in Seq(Mark)}
<1>1. ASSUME NEW n \in 1..MAX_INCLUDE_DEPTH, NEW g \in Readable, n # 1 => n - 1 \in T
      PROVE  /\ Parts(n, g) \in Seq(Seq(Mark)) /\ Len(Parts(n, g)) = Len(files[g])
             /\ Expansion[n][g] \in Seq(Mark) /\ StopLast(Expansion[n][g])
  <2>1. n # 1 => \A h \in Readable : Expansion[n - 1][h] \in Seq(Mark)
    BY <1>1, DepthAssumption
  <2>2. Parts(n, g) \in Seq(Seq(Mark)) /\ Len(Parts(n, g)) = Len(files[g])
    BY <2>1, PartType
  <2>3. FlattenSeq(Parts(n, g)) \in Seq(Mark)
    BY <2>2, FlattenType
  <2> QED BY <2>2, <2>3, ExpansionIs, UpToStopType
<1>2. 0 \in T
  OBVIOUS
<1>3. ASSUME NEW n \in Nat, n \in T PROVE n + 1 \in T
  <2>1. n + 1 - 1 = n
    OBVIOUS
  <2> QED BY <1>1, <1>3, <2>1
<1>4. \A n \in Nat : n \in T
  <2> HIDE DEF T
  <2> QED BY <1>2, <1>3, NatSetInduction
<1> HIDE DEF T
<1>5. d # 1 => d - 1 \in Nat
  BY DepthAssumption
<1> QED BY <1>1, <1>4, <1>5

LEMMA UptoStarts ==
    ASSUME NEW d, NEW f
    PROVE  Upto(d, f, 0) = <<>>
<1>1. SubSeq(Parts(d, f), 1, 0) = <<>>
  BY SubSeqEmpty
<1> QED BY <1>1, FlattenEmpty DEF Upto

LEMMA UptoGrows ==
    ASSUME TypeOK, NEW d \in 1..MAX_INCLUDE_DEPTH, NEW f \in Readable, NEW n \in 0..Len(files[f])
    PROVE  /\ Upto(d, f, n) \in Seq(Mark)
           /\ \E r \in Seq(Mark) : FlattenSeq(Parts(d, f)) = Upto(d, f, n) \o r
           /\ n = Len(files[f]) => Upto(d, f, n) = FlattenSeq(Parts(d, f))
           /\ n < Len(files[f]) =>
                /\ Part(d, Expansion, f, n + 1) \in Seq(Mark)
                /\ Upto(d, f, n + 1) = Upto(d, f, n) \o Part(d, Expansion, f, n + 1)
<1> DEFINE P == Parts(d, f)
<1>1. P \in Seq(Seq(Mark)) /\ Len(P) = Len(files[f]) /\ Len(P) \in Nat
  BY ExpansionType, LenProperties
<1>2. n \in 0..Len(P) /\ n \in Nat
  BY <1>1
<1>3. DOMAIN files[f] = 1..Len(P)
  BY <1>1, ReadableText
<1>4. n < Len(P) => n + 1 \in 1..Len(P) /\ P[n + 1] = Part(d, Expansion, f, n + 1)
  BY <1>2, <1>3 DEF Parts
<1> HIDE DEF P
<1>5. SubSeq(P, 1, n) \in Seq(Seq(Mark))
  BY <1>1, <1>2, SubSeqType
<1>6. FlattenSeq(SubSeq(P, 1, n)) \in Seq(Mark)
  BY <1>5, FlattenType
<1>7. \E r \in Seq(Mark) : FlattenSeq(P) = FlattenSeq(SubSeq(P, 1, n)) \o r
  BY <1>1, <1>2, FlattenPrefix
<1>8. n = Len(P) => SubSeq(P, 1, n) = P
  BY <1>1, SubSeqFull
<1>9. ASSUME n < Len(P)
      PROVE  /\ P[n + 1] \in Seq(Mark)
             /\ FlattenSeq(SubSeq(P, 1, n + 1)) = FlattenSeq(SubSeq(P, 1, n)) \o P[n + 1]
  <2>1. P[n + 1] \in Seq(Mark)
    BY <1>1, <1>4, <1>9, ElementOfSeq
  <2>2. SubSeq(P, 1, n + 1) = Append(SubSeq(P, 1, n), P[n + 1])
    <3>1. n + 1 <= Len(P) /\ 1 <= n + 1 /\ 1 \in Nat \ {0}
      BY <1>1, <1>2, <1>9
    <3> QED BY <1>1, <1>2, <3>1, SubSeqAppend
  <2> QED BY <1>5, <2>1, <2>2, FlattenAppend
<1> QED BY <1>1, <1>4, <1>6, <1>7, <1>8, <1>9 DEF Upto, P
-----------------------------------------------------------------------------
(* The text delivered.                                                     *)

FileOf(i) == Source(frames[i].buf)

(* The frames that are left for the file of frame i and its includes.      *)
Depth(i) == MAX_INCLUDE_DEPTH + 1 - i

(* W[i] is what had been delivered when frame i was pushed: from there to  *)
(* the next frame it went up to the directive that pushed that one.        *)
BegunAt(W, i) ==
    /\ frames[i].cursym \in 1..Len(files[FileOf(i)])
    /\ files[FileOf(i)][frames[i].cursym] = Include(FileOf(i + 1))
    /\ W[i + 1] = (W[i] \o Upto(Depth(i), FileOf(i), frames[i].cursym - 1))
                    \o << <<FileOf(i), frames[i].cursym>> >>

Begun(W) ==
    /\ W \in [1..frame_count -> Seq(Mark)]
    /\ W[1] = <<>>
    /\ \A i \in 1..(frame_count - 1) : BegunAt(W, i)

(* The inductive invariant.                                                *)
TextInv ==
    IF status = "reading"
      THEN \E W : /\ Begun(W)
                  /\ delivered = W[frame_count] \o Upto(Depth(frame_count), FileOf(frame_count), cursym)
      ELSE DeliversExpansion

LEMMA FramesReadable ==
    ASSUME TypeOK, FramesInv, status = "reading"
    PROVE  /\ frame_count \in Nat \ {0} /\ frame_count <= MAX_INCLUDE_DEPTH
           /\ \A i \in 1..frame_count : FileOf(i) \in Readable /\ Depth(i) \in 1..MAX_INCLUDE_DEPTH
           /\ FileOf(1) = Main /\ Depth(1) = MAX_INCLUDE_DEPTH
           /\ FileOf(frame_count) = Source(inbuf)
           /\ cursym \in 0..Len(files[Source(inbuf)]) /\ Len(files[Source(inbuf)]) \in Nat
<1>1. frame_count \in Nat \ {0} /\ frame_count <= MAX_INCLUDE_DEPTH
  <2>1. frame_count \in Nat
    BY DEF TypeOK, frame_count
  <2> QED BY <2>1 DEF TypeOK, FramesInv
<1>2. ASSUME NEW i \in 1..frame_count
      PROVE  FileOf(i) \in Readable /\ Depth(i) \in 1..MAX_INCLUDE_DEPTH
  <2>1. FileOf(i) \in File /\ files[FileOf(i)] # Unreadable
    BY FrameFields, SourceType DEF FramesInv, FileOf
  <2> QED BY <1>1, <2>1, DepthAssumption DEF Readable, Depth
<1>3. FileOf(1) = Main /\ Depth(1) = MAX_INCLUDE_DEPTH
  BY <1>1, DepthAssumption DEF FramesInv, FileOf, Source, Depth
<1>4. FileOf(frame_count) = Source(inbuf)
  BY DEF FramesInv, FileOf
<1>5. cursym \in 0..Len(files[Source(inbuf)]) /\ Len(files[Source(inbuf)]) \in Nat
  BY TextType DEF TypeOK, bufsize, Text
<1> QED BY <1>1, <1>2, <1>3, <1>4, <1>5

LEMMA DeliveredFree ==
    ASSUME NEW s \in Seq(File \X (Nat \ {0}))
    PROVE  s \in Seq(Mark) /\ StopFree(s)
<1>1. s \in Seq(Mark)
  <2>1. File \X (Nat \ {0}) \subseteq Mark
    BY DEF Mark
  <2> QED BY <2>1, SeqMonotonic
<1>2. s \in [1..Len(s) -> File \X (Nat \ {0})]
  BY LenProperties
<1>3. Stop \notin File \X (Nat \ {0})
  BY DEF Stop
<1> QED BY <1>1, <1>2, <1>3 DEF StopFree

LEMMA SuffixStops ==
    ASSUME NEW s \in Seq(Mark), NEW t \in Seq(Mark)
    PROVE  /\ StopFree(s \o t) => StopFree(t)
           /\ StopLast(s \o t) => StopLast(t)
<1>1. /\ Len(s) \in Nat /\ Len(t) \in Nat /\ Len(s \o t) = Len(s) + Len(t)
      /\ DOMAIN t = 1..Len(t) /\ DOMAIN (s \o t) = 1..(Len(s) + Len(t))
      /\ \A i \in 1..(Len(s) + Len(t)) : (s \o t)[i] = IF i <= Len(s) THEN s[i] ELSE t[i - Len(s)]
  BY ConcatProperties, LenProperties
<1>2. \A i, m, n \in Nat : m + i = m + n => i = n
  OBVIOUS
<1>3. ASSUME NEW i \in 1..Len(t)
      PROVE  /\ Len(s) + i \in 1..(Len(s) + Len(t)) /\ (s \o t)[Len(s) + i] = t[i]
             /\ Len(s) + i = Len(s) + Len(t) => i = Len(t)
  <2>1. Len(s) + i \in 1..(Len(s) + Len(t)) /\ ~(Len(s) + i <= Len(s)) /\ Len(s) + i - Len(s) = i
    BY <1>1
  <2>2. (s \o t)[Len(s) + i] = t[Len(s) + i - Len(s)]
    BY <1>1, <2>1
  <2>3. i \in Nat
    OBVIOUS
  <2>4. Len(s) + i = Len(s) + Len(t) => i = Len(t)
    BY <1>1, <1>2, <2>3, Zenon
  <2> QED BY <2>1, <2>2, <2>4
<1> QED BY <1>1, <1>3 DEF StopFree, StopLast

LEMMA FreeStopsLast ==
    ASSUME NEW s \in Seq(Mark), StopFree(s)
    PROVE  /\ StopLast(s) /\ StopLast(Append(s, Stop)) /\ Append(s, Stop) \in Seq(Mark)
           /\ Append(s, Stop) # <<>> /\ Append(s, Stop)[Len(Append(s, Stop))] = Stop
<1>1. /\ Len(s) \in Nat /\ DOMAIN s = 1..Len(s)
      /\ Append(s, Stop) \in Seq(Mark) /\ Len(Append(s, Stop)) = Len(s) + 1
      /\ DOMAIN Append(s, Stop) = 1..(Len(s) + 1)
      /\ \A i \in 1..Len(s) : Append(s, Stop)[i] = s[i]
      /\ Append(s, Stop)[Len(s) + 1] = Stop
      /\ Append(s, Stop) # <<>>
  BY StopIsMark, LenProperties, AppendProperties
<1>2. \A i \in 1..(Len(s) + 1) : i \in 1..Len(s) \/ i = Len(s) + 1
  BY <1>1
<1> QED BY <1>1, <1>2 DEF StopFree, StopLast

(* Concatenation, in a form that the provers take for a name.              *)
Marks == Seq(Mark)

Cat(s, t) == s \o t

LEMMA Concats ==
    /\ \A a, b \in Marks : Cat(a, b) \in Marks
    /\ \A a, b, c \in Marks : Cat(Cat(a, b), c) = Cat(a, Cat(b, c))
<1>1. \A a, b \in Seq(Mark) : a \o b \in Seq(Mark)
  BY ConcatProperties
<1>2. \A a, b, c \in Seq(Mark) : (a \o b) \o c = a \o (b \o c)
  BY ConcatAssociative
<1> QED BY <1>1, <1>2 DEF Marks, Cat

(* A directive that can be followed stands for itself and the file.        *)
LEMMA FollowedPart ==
    ASSUME NEW d \in Nat \ {0, 1}, NEW f, NEW i, NEW g \in Readable, files[f][i] = Include(g)
    PROVE  Part(d, Expansion, f, i) = << <<f, i>> >> \o Expansion[d - 1][g]
BY NoInclude DEF Part, Readable

(* What the innermost file may still begin with, the source may.           *)
LEMMA Climb ==
    ASSUME TypeOK, FramesInv, status = "reading", NEW W, Begun(W),
           NEW y \in Seq(Mark), NEW r \in Seq(Mark),
           FlattenSeq(Parts(Depth(frame_count), FileOf(frame_count))) = y \o r,
           NEW z \in Seq(Mark), z = W[frame_count] \o y, StopLast(z)
    PROVE  \E q \in Seq(Mark) : Expected = z \o q
<1> DEFINE k == frame_count
           T == {n \in Nat : n \in 0..(k - 1) =>
                   \E x, s \in Seq(Mark) :
                     /\ z = W[k - n] \o x
                     /\ FlattenSeq(Parts(Depth(k - n), FileOf(k - n))) = x \o s}
<1>1. /\ k \in Nat \ {0} /\ k <= MAX_INCLUDE_DEPTH
      /\ \A i \in 1..k : FileOf(i) \in Readable /\ Depth(i) \in 1..MAX_INCLUDE_DEPTH
      /\ FileOf(1) = Main /\ Depth(1) = MAX_INCLUDE_DEPTH
  BY FramesReadable
<1> HIDE DEF k
<1>2. W \in [1..k -> Seq(Mark)] /\ W[1] = <<>>
  BY DEF Begun, k
<1>3. 0 \in T
  <2>1. k - 0 = k
    BY <1>1
  <2> QED BY <2>1 DEF k
<1>4. ASSUME NEW n \in Nat, n \in T PROVE n + 1 \in T
  <2>0. n + 1 \in Nat
    OBVIOUS
  <2> SUFFICES ASSUME n + 1 \in 0..(k - 1)
               PROVE  \E x, s \in Seq(Mark) :
                        /\ z = W[k - (n + 1)] \o x
                        /\ FlattenSeq(Parts(Depth(k - (n + 1)), FileOf(k - (n + 1)))) = x \o s
    BY <2>0
  <2> DEFINE i == k - (n + 1)
             c == frames[i].cursym
             u == Upto(Depth(i), FileOf(i), c - 1)
             m == << <<FileOf(i), c>> >>
  <2>1. i \in 1..(k - 1) /\ i + 1 = k - n /\ i \in 1..k /\ i + 1 \in 1..k /\ n \in 0..(k - 1)
    BY <1>1, <1>4
  <2>2. PICK x, s \in Seq(Mark) :
               z = W[i + 1] \o x /\ FlattenSeq(Parts(Depth(i + 1), FileOf(i + 1))) = x \o s
    BY <1>4, <2>1
  <2> HIDE DEF i
  <2>3. Depth(i + 1) = Depth(i) - 1 /\ Depth(i) \in Nat \ {0, 1}
    <3>1. Depth(i) \in 1..MAX_INCLUDE_DEPTH /\ Depth(i + 1) \in 1..MAX_INCLUDE_DEPTH
      BY <1>1, <2>1
    <3> QED BY <1>1, <2>1, <3>1, DepthAssumption DEF Depth
  <2>4. /\ c \in 1..Len(files[FileOf(i)]) /\ files[FileOf(i)][c] = Include(FileOf(i + 1))
        /\ W[i + 1] = (W[i] \o u) \o m
    BY <2>1 DEF Begun, BegunAt, k
  <2>5. Len(files[FileOf(i)]) \in Nat /\ c - 1 \in 0..Len(files[FileOf(i)]) /\ c \in 0..Len(files[FileOf(i)])
        /\ c - 1 < Len(files[FileOf(i)]) /\ c - 1 + 1 = c
    <3>1. Len(files[FileOf(i)]) \in Nat
      BY <1>1, <2>1, ReadableText
    <3>2. c \in 1..Len(files[FileOf(i)])
      BY <2>4
    <3> HIDE DEF c
    <3> QED BY <3>1, <3>2
  <2> HIDE DEF c
  <2>6. m \in Seq(Mark) /\ u \in Seq(Mark)
    <3>1. FileOf(i) \in File /\ c \in Nat
      BY <1>1, <2>1, <2>5 DEF Readable
    <3>2. u \in Seq(Mark)
      BY <1>1, <2>1, <2>5, UptoGrows
    <3> QED BY <3>1, <3>2 DEF Mark
  <2>7. StopLast(x)
    <3>1. W[i + 1] \in Seq(Mark)
      BY <1>2, <2>1
    <3> QED BY <2>2, <3>1, SuffixStops
  <2>8. PICK q \in Seq(Mark) : Expansion[Depth(i + 1)][FileOf(i + 1)] = x \o q
    <3>1. \E q \in Seq(Mark) : UpToStop(x \o s) = x \o q
      BY <2>2, <2>7, UpToStopBegins
    <3>2. Expansion[Depth(i + 1)][FileOf(i + 1)] = UpToStop(x \o s)
      BY <1>1, <2>1, <2>2, ExpansionIs
    <3> QED BY <3>1, <3>2
  <2>9. Upto(Depth(i), FileOf(i), c) = u \o (m \o (x \o q))
    <3>1. Part(Depth(i), Expansion, FileOf(i), c) = m \o (x \o q)
      <4>1. FileOf(i + 1) \in Readable
        BY <1>1, <2>1
      <4>2. Part(Depth(i), Expansion, FileOf(i), c) = m \o Expansion[Depth(i) - 1][FileOf(i + 1)]
        BY <2>3, <2>4, <4>1, FollowedPart
      <4> QED BY <2>3, <2>8, <4>2
    <3>2. Upto(Depth(i), FileOf(i), c - 1 + 1) = u \o Part(Depth(i), Expansion, FileOf(i), c - 1 + 1)
      BY <1>1, <2>1, <2>5, UptoGrows
    <3> QED BY <2>5, <3>1, <3>2
  <2>10. PICK r2 \in Seq(Mark) : FlattenSeq(Parts(Depth(i), FileOf(i))) = Upto(Depth(i), FileOf(i), c) \o r2
    BY <1>1, <2>1, <2>5, UptoGrows
  <2> HIDE DEF u, m
  <2>11. z = ((W[i] \o u) \o m) \o x
    BY <2>2, <2>4
  <2>12. FlattenSeq(Parts(Depth(i), FileOf(i))) = (u \o (m \o (x \o q))) \o r2
    BY <2>9, <2>10
  <2>13. /\ W[i] \in Marks /\ u \in Marks /\ m \in Marks /\ x \in Marks
         /\ q \in Marks /\ r2 \in Marks
    BY <1>2, <2>1, <2>6 DEF Marks
  <2>14. \E x2, s2 \in Marks : z = W[i] \o x2 /\ FlattenSeq(Parts(Depth(i), FileOf(i))) = x2 \o s2
    <3> DEFINE w == W[i]
               v == FlattenSeq(Parts(Depth(i), FileOf(i)))
    <3>1. /\ z = Cat(Cat(Cat(w, u), m), x) /\ v = Cat(Cat(u, Cat(m, Cat(x, q))), r2)
          /\ w \in Marks
      BY <2>11, <2>12, <2>13 DEF Cat
    <3> HIDE DEF w, v
    <3>2. Cat(u, m) \in Marks /\ Cat(x, q) \in Marks /\ Cat(q, r2) \in Marks
      BY <2>13, Concats
    <3>3. Cat(Cat(u, m), x) \in Marks
      BY <2>13, <3>2, Concats
    <3>4. Cat(Cat(Cat(w, u), m), x) = Cat(w, Cat(Cat(u, m), x))
      BY <2>13, <3>1, <3>2, Concats
    <3>5. Cat(u, Cat(m, Cat(x, q))) = Cat(Cat(Cat(u, m), x), q)
      BY <2>13, <3>2, Concats
    <3>6. Cat(Cat(Cat(Cat(u, m), x), q), r2) = Cat(Cat(Cat(u, m), x), Cat(q, r2))
      BY <2>13, <3>3, Concats
    <3>7. z = Cat(w, Cat(Cat(u, m), x)) /\ v = Cat(Cat(Cat(u, m), x), Cat(q, r2))
      BY <3>1, <3>4, <3>5, <3>6
    <3>8. \E x2, s2 \in Marks : z = Cat(w, x2) /\ v = Cat(x2, s2)
      BY <3>2, <3>3, <3>7
    <3> QED BY <3>8 DEF Cat, w, v
  <2> QED BY <2>14 DEF i, Marks
<1>5. k - 1 \in T
  <2>1. k - 1 \in Nat
    BY <1>1
  <2> HIDE DEF T
  <2> QED BY <1>3, <1>4, <2>1, NatSetInduction
<1>6. PICK x, s \in Seq(Mark) : z = W[1] \o x /\ FlattenSeq(Parts(Depth(1), FileOf(1))) = x \o s
  <2>1. k - 1 \in 0..(k - 1) /\ k - (k - 1) = 1
    BY <1>1
  <2> QED BY <1>5, <2>1
<1>7. z = x
  BY <1>2, <1>6, ConcatEmptySeq
<1>8. Expected = UpToStop(z \o s)
  <2>1. 1 \in 1..k
    BY <1>1
  <2> QED BY <1>1, <1>6, <1>7, <2>1, ExpansionIs DEF Expected
<1> QED BY <1>8, UpToStopBegins
-----------------------------------------------------------------------------
(* The steps of the reader, and what they do to the text delivered.        *)

LEMMA UptoStays ==
    ASSUME files' = files
    PROVE  \A d, f, n : Upto(d, f, n)' = Upto(d, f, n)
BY ExpansionStays DEF Upto, Parts, Part, Stop

LEMMA ExpectedStays ==
    ASSUME files' = files
    PROVE  Expected' = Expected
BY ExpansionStays DEF Expected

LEMMA DeliveredText ==
    ASSUME TypeOK
    PROVE  delivered \in Seq(Mark) /\ StopFree(delivered)
BY DeliveredFree DEF TypeOK

LEMMA BegunStays ==
    ASSUME NEW W, NEW V, NEW i, BegunAt(W, i), files' = files,
           frames'[i].cursym = frames[i].cursym,
           FileOf(i)' = FileOf(i), FileOf(i + 1)' = FileOf(i + 1),
           V[i] = W[i], V[i + 1] = W[i + 1]
    PROVE  BegunAt(V, i)'
<1> DEFINE c == frames[i].cursym
<1>1. Upto(Depth(i), FileOf(i), frames[i].cursym - 1)' = Upto(Depth(i), FileOf(i), c - 1)
  BY UptoStays DEF Depth
<1> QED BY <1>1 DEF BegunAt

LEMMA NextCharText ==
    ASSUME TypeOK, FramesInv, TextInv, NextChar
    PROVE  TextInv'
<1> DEFINE k == frame_count
           f == FileOf(k)
           d == Depth(k)
<1>1. /\ k \in Nat \ {0} /\ d \in 1..MAX_INCLUDE_DEPTH /\ f \in Readable /\ f = Source(inbuf)
      /\ cursym \in 0..Len(files[f]) /\ cursym < Len(files[f])
  BY FramesReadable DEF NextChar, bufsize, Text
<1>2. /\ UNCHANGED <<files, frames, inbuf, status, content>> /\ status = "reading"
      /\ cursym' = cursym + 1 /\ delivered' = Append(delivered, <<f, cursym + 1>>)
  BY <1>1 DEF NextChar, Here
<1>3. PICK W : Begun(W) /\ delivered = W[k] \o Upto(d, f, cursym)
  BY <1>2 DEF TextInv
<1>4. /\ frame_count' = frame_count /\ \A i : FileOf(i)' = FileOf(i)
      /\ \A i, n : Upto(Depth(i), FileOf(i), n)' = Upto(Depth(i), FileOf(i), n)
  BY <1>2, UptoStays DEF frame_count, FileOf, Source, Depth
<1>5. Begun(W)'
  <2>1. \A i \in 1..(k - 1) : BegunAt(W, i)'
    BY <1>2, <1>3, <1>4, BegunStays DEF Begun
  <2> QED BY <1>3, <1>4, <2>1 DEF Begun
<1> HIDE DEF k, f, d
<1>6. Upto(d, f, cursym + 1) = Upto(d, f, cursym) \o << <<f, cursym + 1>> >>
  <2>1. Part(d, Expansion, f, cursym + 1) = << <<f, cursym + 1>> >>
    BY <1>1 DEF NextChar, Text, Part
  <2>2. Upto(d, f, cursym + 1) = Upto(d, f, cursym) \o Part(d, Expansion, f, cursym + 1)
    BY <1>1, UptoGrows
  <2> QED BY <2>1, <2>2
<1>7. Upto(d, f, cursym) \in Seq(Mark) /\ W[k] \in Seq(Mark) /\ << <<f, cursym + 1>> >> \in Seq(Mark)
      /\ <<f, cursym + 1>> \in Mark
  <2>1. Upto(d, f, cursym) \in Seq(Mark)
    BY <1>1, UptoGrows
  <2>2. f \in File /\ cursym + 1 \in Nat
    BY <1>1, ReadableText DEF Readable
  <2>3. W[k] \in Seq(Mark)
    BY <1>1, <1>3 DEF Begun, k
  <2> QED BY <2>1, <2>2, <2>3 DEF Mark
<1>8. delivered' = delivered \o << <<f, cursym + 1>> >>
  BY <1>2, <1>7, DeliveredText, AppendIsConcat
<1>9. delivered' = W[k] \o Upto(d, f, cursym + 1)
  <2>1. delivered' = Cat(Cat(W[k], Upto(d, f, cursym)), << <<f, cursym + 1>> >>)
    BY <1>3, <1>8 DEF Cat, k, f, d
  <2>2. W[k] \o Upto(d, f, cursym + 1) = Cat(W[k], Cat(Upto(d, f, cursym), << <<f, cursym + 1>> >>))
    BY <1>6 DEF Cat
  <2> DEFINE s == W[k]
             t == Upto(d, f, cursym)
             h == << <<f, cursym + 1>> >>
  <2>3. s \in Marks /\ t \in Marks /\ h \in Marks
    BY <1>7 DEF Marks
  <2>4. Cat(Cat(s, t), h) = Cat(s, Cat(t, h))
    <3> HIDE DEF s, t, h
    <3> QED BY <2>3, Concats
  <2> QED BY <2>1, <2>2, <2>4
<1>10. delivered' = W[frame_count'] \o Upto(Depth(frame_count), FileOf(frame_count), cursym)'
  BY <1>2, <1>4, <1>9, UptoStays DEF k, f, d
<1> QED BY <1>2, <1>5, <1>10 DEF TextInv

LEMMA PopText ==
    ASSUME TypeOK, FramesInv, TextInv, Pop
    PROVE  TextInv'
<1> DEFINE n == frame_count
           k == n - 1
           f == FileOf(k)
           d == Depth(k)
           c == frames[k].cursym
           x == Upto(Depth(n), FileOf(n), cursym)
           u == Upto(d, f, c - 1)
           m == << <<f, c>> >>
<1>1. /\ k \in Nat \ {0} /\ n = k + 1 /\ n \in 1..n /\ k \in 1..n /\ k \in 1..(n - 1)
      /\ frame_count' = k
      /\ \A i \in 1..k : frames'[i] = frames[i]
      /\ cursym' = c
      /\ UNCHANGED <<files, status, content, delivered>>
      /\ status = "reading"
  <2>1. n \in Nat
    BY DEF TypeOK, frame_count
  <2> QED BY <2>1, PopFacts
<1>2. /\ d \in 1..MAX_INCLUDE_DEPTH /\ f \in Readable
      /\ Depth(n) \in 1..MAX_INCLUDE_DEPTH /\ FileOf(n) \in Readable
      /\ cursym \in 0..Len(files[FileOf(n)]) /\ cursym = Len(files[FileOf(n)])
      /\ Depth(n) = d - 1 /\ d \in Nat \ {0, 1}
  <2>1. /\ \A i \in 1..n : FileOf(i) \in Readable /\ Depth(i) \in 1..MAX_INCLUDE_DEPTH
        /\ FileOf(n) = Source(inbuf)
        /\ cursym \in 0..Len(files[Source(inbuf)]) /\ Len(files[Source(inbuf)]) \in Nat
    BY <1>1, FramesReadable
  <2>2. d \in 1..MAX_INCLUDE_DEPTH /\ f \in Readable /\ Depth(n) \in 1..MAX_INCLUDE_DEPTH
        /\ FileOf(n) \in Readable
    BY <1>1, <2>1
  <2>3. cursym >= Len(files[Source(inbuf)])
    BY DEF Pop, bufsize, Text
  <2>4. Depth(n) = d - 1
    BY <1>1, DepthAssumption DEF Depth
  <2> QED BY <2>1, <2>2, <2>3, <2>4
<1>3. PICK W : Begun(W) /\ delivered = W[n] \o x
  BY <1>1 DEF TextInv
<1>4. /\ c \in 1..Len(files[f]) /\ files[f][c] = Include(FileOf(n))
      /\ W[n] = (W[k] \o u) \o m /\ W[n] \in Seq(Mark) /\ W[k] \in Seq(Mark)
  BY <1>1, <1>3 DEF Begun, BegunAt
<1>5. /\ \A i \in 1..k : FileOf(i)' = FileOf(i) /\ Depth(i)' = Depth(i)
      /\ \A i \in 1..k : \A j : Upto(Depth(i), FileOf(i), j)' = Upto(Depth(i), FileOf(i), j)
  <2>1. \A i \in 1..k : FileOf(i)' = FileOf(i)
    BY <1>1 DEF FileOf, Source
  <2> QED BY <1>1, <2>1, UptoStays DEF Depth
<1> HIDE DEF n, k
<1>6. PICK V : V = [i \in 1..k |-> W[i]]
  OBVIOUS
<1>7. Begun(V)'
  <2>1. W \in [1..n -> Seq(Mark)] /\ W[1] = <<>> /\ \A i \in 1..(n - 1) : BegunAt(W, i)
    BY <1>3 DEF Begun, n
  <2>2. V \in [1..k -> Seq(Mark)] /\ V[1] = <<>>
    BY <1>1, <1>6, <2>1
  <2>3. ASSUME NEW i \in 1..(k - 1) PROVE BegunAt(V, i)'
    <3>1. i \in 1..(n - 1) /\ i \in 1..k /\ i + 1 \in 1..k
      BY <1>1
    <3>2. /\ BegunAt(W, i) /\ files' = files /\ frames'[i].cursym = frames[i].cursym
          /\ FileOf(i)' = FileOf(i) /\ FileOf(i + 1)' = FileOf(i + 1)
          /\ V[i] = W[i] /\ V[i + 1] = W[i + 1]
      BY <1>1, <1>5, <1>6, <2>1, <3>1
    <3> QED BY <3>2, BegunStays
  <2> QED BY <1>1, <2>2, <2>3 DEF Begun
<1>8. /\ Len(files[f]) \in Nat /\ c \in Nat /\ c - 1 \in 0..Len(files[f]) /\ c - 1 < Len(files[f])
      /\ c - 1 + 1 = c
  <2>1. Len(files[f]) \in Nat
    BY <1>2, ReadableText
  <2> HIDE DEF c, f
  <2> QED BY <1>4, <2>1
<1>9. x \in Seq(Mark) /\ x = FlattenSeq(Parts(Depth(n), FileOf(n)))
  BY <1>2, UptoGrows
<1>10. StopFree(x)
  BY <1>3, <1>4, <1>9, DeliveredText, SuffixStops
<1>11. Expansion[Depth(n)][FileOf(n)] = x
  BY <1>2, <1>9, <1>10, ExpansionIs, UpToStopWhole
<1>12. Upto(d, f, c) = u \o (m \o x)
  <2>1. Part(d, Expansion, f, c) = m \o x
    <3>1. Part(d, Expansion, f, c) = m \o Expansion[d - 1][FileOf(n)]
      <4> HIDE DEF d, f, c
      <4> QED BY <1>2, <1>4, FollowedPart
    <3> QED BY <1>2, <1>11, <3>1
  <2>2. Upto(d, f, c - 1 + 1) = u \o Part(d, Expansion, f, c - 1 + 1)
    BY <1>2, <1>8, UptoGrows
  <2> QED BY <1>8, <2>1, <2>2
<1>13. u \in Seq(Mark) /\ m \in Seq(Mark)
  <2>1. u \in Seq(Mark)
    BY <1>2, <1>8, UptoGrows
  <2>2. <<f, c>> \in Mark
    BY <1>2, <1>8 DEF Mark, Readable
  <2> QED BY <2>1, <2>2
<1>14. delivered' = V[k] \o Upto(d, f, c)
  <2> DEFINE w == W[k]
  <2>1. delivered' = Cat(Cat(Cat(w, u), m), x)
    BY <1>1, <1>3, <1>4 DEF Cat
  <2>2. V[k] \o Upto(d, f, c) = Cat(w, Cat(u, Cat(m, x)))
    <3>1. k \in 1..k
      BY <1>1
    <3> QED BY <1>6, <1>12, <3>1 DEF Cat
  <2>3. w \in Marks /\ u \in Marks /\ m \in Marks /\ x \in Marks
    BY <1>4, <1>9, <1>13 DEF Marks
  <2> HIDE DEF w, u, m, x
  <2>4. Cat(w, u) \in Marks /\ Cat(m, x) \in Marks
    BY <2>3, Concats
  <2>5. Cat(Cat(Cat(w, u), m), x) = Cat(Cat(w, u), Cat(m, x))
    BY <2>3, <2>4, Concats
  <2>6. Cat(Cat(w, u), Cat(m, x)) = Cat(w, Cat(u, Cat(m, x)))
    BY <2>3, <2>4, Concats
  <2> QED BY <2>1, <2>2, <2>5, <2>6 DEF w
<1>15. delivered' = V[frame_count'] \o Upto(Depth(frame_count), FileOf(frame_count), cursym)'
  <2>1. Upto(Depth(frame_count), FileOf(frame_count), cursym)' = Upto(d, f, c)
    <3>1. k \in 1..k
      BY <1>1
    <3>2. Depth(frame_count)' = d /\ FileOf(frame_count)' = f
      BY <1>1, <1>5, <3>1 DEF Depth
    <3> QED BY <1>1, <3>2, UptoStays
  <2> QED BY <1>1, <1>14, <2>1
<1> QED BY <1>1, <1>7, <1>15 DEF TextInv
LEMMA PushText ==
    ASSUME TypeOK, FramesInv, TextInv, NEW g \in File, PushFile(g)
    PROVE  TextInv'
<1>0. PICK n : n = frame_count
  OBVIOUS
<1> DEFINE f == FileOf(n)
           d == Depth(n)
           c == cursym + 1
<1>1. PICK b \in Buf \ live :
           /\ frames' \in Seq(Frames) /\ n \in Nat \ {0}
           /\ Len(frames') = n + 1 /\ n + 1 <= MAX_INCLUDE_DEPTH
           /\ \A i \in 1..(n - 1) : frames'[i] = frames[i]
           /\ frames'[n] = Frame(inbuf, cursym + 1, num)
           /\ frames'[n + 1] = Frame(b, 0, 1)
           /\ inbuf' = b /\ cursym' = 0 /\ num' = 1
           /\ live' = live \cup {b}
           /\ content' = [content EXCEPT ![b] = g]
           /\ files[g] # Unreadable
           /\ UNCHANGED <<files, status, fault>> /\ status = "reading"
  BY <1>0, PushFacts
<1>2. /\ f \in Readable /\ d \in 1..MAX_INCLUDE_DEPTH /\ f = Source(inbuf)
      /\ cursym \in 0..Len(files[f]) /\ cursym < Len(files[f]) /\ Len(files[f]) \in Nat
      /\ files[f][c] = Include(g)
  <2>1. n \in 1..n
    BY <1>1
  <2> QED BY <1>0, <1>1, <2>1, FramesReadable DEF PushFile, AtInclude, bufsize, Text
<1>3. PICK W : Begun(W) /\ delivered = W[n] \o Upto(d, f, cursym)
  BY <1>0, <1>1 DEF TextInv
<1>4. /\ \A i \in 1..n : frames'[i].buf = frames[i].buf /\ frames[i].buf # b
      /\ \A i \in 1..n : frames[i].buf \in Buf \cup {Static}
  <2>1. inbuf = frames[n].buf /\ frames[1].buf = Static
        /\ \A i \in 2..n : frames[i].buf \in Buf
        /\ live = {frames[j].buf : j \in 2..n}
    BY <1>0, <1>1 DEF FramesInv
  <2>2. frames'[n].buf = frames[n].buf
    BY <1>1, <2>1 DEF Frame
  <2>3. \A i \in 1..n : frames[i].buf # b
    BY <1>1, <2>1, BufAssumption
  <2>4. \A i \in 1..n : i \in 1..(n - 1) \/ i = n
    BY <1>1
  <2> QED BY <1>0, <1>1, <2>2, <2>3, <2>4, FrameFields
<1>5. /\ \A i \in 1..n : FileOf(i)' = FileOf(i)
      /\ FileOf(n + 1)' = g /\ frames'[n].cursym = c
  <2>1. \A i \in 1..n : FileOf(i)' = FileOf(i)
    BY <1>1, <1>4 DEF FileOf, Source, TypeOK
  <2>2. FileOf(n + 1)' = g
    BY <1>1, BufAssumption DEF FileOf, Source, Frame, TypeOK
  <2> QED BY <1>1, <2>1, <2>2 DEF Frame
<1>6. frame_count' = n + 1 /\ delivered' = Append(delivered, <<f, c>>)
  BY <1>1, <1>2 DEF PushFile, Here, frame_count
<1> HIDE DEF c
<1>7. /\ <<f, c>> \in Mark /\ c \in 1..Len(files[f]) /\ c - 1 = cursym
      /\ W \in [1..n -> Seq(Mark)] /\ W[1] = <<>>
      /\ \A i \in 1..(n - 1) : BegunAt(W, i)
  <2>1. c \in 1..Len(files[f]) /\ c - 1 = cursym /\ f \in File /\ c \in Nat
    <3> HIDE DEF f
    <3> QED BY <1>2 DEF Readable, c
  <2> QED BY <1>0, <1>3, <2>1 DEF Begun, Mark
<1>8. /\ delivered' = delivered \o << <<f, c>> >> /\ delivered' \in Seq(Mark)
  <2>1. <<f, c>> \in Mark /\ delivered \in Seq(Mark)
    BY <1>7, DeliveredText
  <2> QED BY <1>6, <2>1, AppendIsConcat, AppendProperties
<1>9. PICK V : V = [i \in 1..(n + 1) |-> IF i = n + 1 THEN delivered \o << <<f, c>> >> ELSE W[i]]
  OBVIOUS
<1>10. Begun(V)'
  <2>1. \A i \in 1..n : V[i] = W[i] /\ i \in 1..(n + 1)
    BY <1>1, <1>9
  <2>2. n + 1 \in 1..(n + 1) /\ V[n + 1] = delivered'
    BY <1>1, <1>8, <1>9
  <2>3. V \in [1..(n + 1) -> Seq(Mark)] /\ V[1] = <<>>
    BY <1>1, <1>7, <1>8, <1>9
  <2>4. ASSUME NEW i \in 1..(n - 1) PROVE BegunAt(V, i)'
    <3>1. i \in 1..n /\ i + 1 \in 1..n
      BY <1>1
    <3>2. /\ BegunAt(W, i) /\ files' = files /\ frames'[i].cursym = frames[i].cursym
          /\ FileOf(i)' = FileOf(i) /\ FileOf(i + 1)' = FileOf(i + 1)
          /\ V[i] = W[i] /\ V[i + 1] = W[i + 1]
      BY <1>1, <1>5, <1>7, <2>1, <3>1
    <3> QED BY <3>2, BegunStays
  <2>5. ASSUME NEW i \in 1..n, i = n PROVE BegunAt(V, i)'
    <3>1. n \in 1..n /\ FileOf(n)' = f /\ V[n] = W[n]
      BY <1>1, <1>5, <2>1
    <3>2. Upto(Depth(n), FileOf(n), frames[n].cursym - 1)' = Upto(d, f, cursym)
      <4>1. Depth(n)' = d
        BY <1>1 DEF Depth
      <4> QED BY <1>1, <1>5, <1>7, <3>1, <4>1, UptoStays
    <3>3. V[n + 1] = (W[n] \o Upto(d, f, cursym)) \o << <<f, c>> >>
      BY <1>3, <1>8, <2>2
    <3> QED BY <1>1, <1>2, <1>5, <1>7, <2>5, <3>1, <3>2, <3>3 DEF BegunAt
  <2>6. ASSUME NEW i \in 1..n PROVE BegunAt(V, i)'
    <3>1. i \in 1..(n - 1) \/ i = n
      BY <1>1
    <3> QED BY <2>4, <2>5, <3>1
  <2>7. frame_count' - 1 = n
    BY <1>1, <1>6
  <2>8. /\ V \in [1..frame_count' -> Seq(Mark)]
        /\ \A i \in 1..(frame_count' - 1) : BegunAt(V, i)'
    BY <1>6, <2>3, <2>6, <2>7
  <2> QED BY <2>3, <2>8 DEF Begun
<1>11. delivered' = V[frame_count'] \o Upto(Depth(frame_count), FileOf(frame_count), cursym)'
  <2>1. Upto(Depth(frame_count), FileOf(frame_count), cursym)' = <<>>
    <3>1. \A d2, f2 : Upto(d2, f2, 0)' = Upto(d2, f2, 0)
      BY <1>1, UptoStays
    <3> QED BY <1>1, <3>1, UptoStarts
  <2>2. V[frame_count'] = delivered'
    BY <1>1, <1>6, <1>8, <1>9
  <2> QED BY <1>8, <2>1, <2>2, ConcatEmptySeq
<1> QED BY <1>1, <1>10, <1>11 DEF TextInv

(* What is delivered is a beginning of the text, wherever reading stops.   *)
LEMMA DeliveredBegins ==
    ASSUME TypeOK, FramesInv, TextInv, status = "reading"
    PROVE  IsPrefix(delivered, Expected) /\ Expected \in Seq(Mark) /\ StopLast(Expected)
<1> DEFINE k == frame_count
           f == FileOf(k)
           d == Depth(k)
<1>1. /\ k \in 1..k /\ f \in Readable /\ d \in 1..MAX_INCLUDE_DEPTH
      /\ cursym \in 0..Len(files[f]) /\ Main \in Readable /\ MAX_INCLUDE_DEPTH \in 1..MAX_INCLUDE_DEPTH
  <2>1. k \in 1..k /\ 1 \in 1..k
    BY FramesReadable
  <2> QED BY <2>1, FramesReadable, DepthAssumption
<1>2. PICK W : Begun(W) /\ delivered = W[k] \o Upto(d, f, cursym)
  BY DEF TextInv
<1>3. Upto(d, f, cursym) \in Seq(Mark)
      /\ \E r \in Seq(Mark) : FlattenSeq(Parts(d, f)) = Upto(d, f, cursym) \o r
  BY <1>1, UptoGrows
<1>4. delivered \in Seq(Mark) /\ StopLast(delivered)
  BY DeliveredText, FreeStopsLast
<1>5. \E q \in Seq(Mark) : Expected = delivered \o q
  BY <1>2, <1>3, <1>4, Climb
<1>6. IsPrefix(delivered, Expected)
  BY <1>4, <1>5, PrefixOfConcat
<1> QED BY <1>1, <1>6, ExpansionType DEF Expected

LEMMA GivesUpText ==
    ASSUME TypeOK, FramesInv, TextInv, ParserGivesUp
    PROVE  TextInv'
<1>1. /\ status = "reading" /\ status' = "aborted" /\ files' = files /\ delivered' = delivered
  BY DEF ParserGivesUp, Exit
<1>2. IsPrefix(delivered, Expected)' 
  BY <1>1, DeliveredBegins, ExpectedStays
<1> QED BY <1>1, <1>2 DEF TextInv, DeliversExpansion

LEMMA EndText ==
    ASSUME TypeOK, FramesInv, TextInv, EndOfInput
    PROVE  TextInv'
<1>1. /\ status = "reading" /\ status' = "done" /\ files' = files /\ delivered' = delivered
      /\ frame_count = 1
  BY DEF EndOfInput, Exit
<1>2. /\ Main \in Readable /\ MAX_INCLUDE_DEPTH \in 1..MAX_INCLUDE_DEPTH
      /\ FileOf(1) = Main /\ Depth(1) = MAX_INCLUDE_DEPTH
      /\ cursym \in 0..Len(files[Main]) /\ cursym = Len(files[Main])
  <2>1. 1 \in 1..1
    OBVIOUS
  <2>2. cursym >= Len(files[Source(inbuf)])
    BY DEF EndOfInput, bufsize, Text
  <2> QED BY <1>1, <2>1, <2>2, FramesReadable, DepthAssumption
<1>3. delivered = FlattenSeq(Parts(MAX_INCLUDE_DEPTH, Main))
  <2>1. PICK W : Begun(W) /\ delivered = W[1] \o Upto(Depth(1), FileOf(1), cursym)
    BY <1>1 DEF TextInv
  <2>2. W[1] = <<>>
    BY <2>1 DEF Begun
  <2>3. Upto(MAX_INCLUDE_DEPTH, Main, cursym) = FlattenSeq(Parts(MAX_INCLUDE_DEPTH, Main))
        /\ Upto(MAX_INCLUDE_DEPTH, Main, cursym) \in Seq(Mark)
    BY <1>2, UptoGrows
  <2> QED BY <1>2, <2>1, <2>2, <2>3, ConcatEmptySeq
<1>4. Expected = delivered
  BY <1>2, <1>3, DeliveredText, UpToStopWhole, ExpansionIs DEF Expected
<1>5. IsPrefix(delivered, Expected)
  BY <1>1, DeliveredBegins
<1> QED BY <1>1, <1>4, <1>5, ExpectedStays DEF TextInv, DeliversExpansion

LEMMA PushFailsText ==
    ASSUME TypeOK, FramesInv, TextInv, NEW g \in File, PushFails(g), TypeOK'
    PROVE  TextInv'
<1> DEFINE k == frame_count
           f == FileOf(k)
           d == Depth(k)
           c == cursym + 1
           u == Upto(d, f, cursym)
           h == << <<f, c>> >>
           end == <<Stop>>
<1>1. /\ k \in Nat \ {0} /\ k \in 1..k /\ k <= MAX_INCLUDE_DEPTH /\ f \in Readable /\ d \in 1..MAX_INCLUDE_DEPTH
      /\ f = Source(inbuf) /\ cursym \in 0..Len(files[f]) /\ Len(files[f]) \in Nat
  <2>1. status = "reading"
    BY DEF PushFails, AtInclude
  <2>2. k \in Nat \ {0} /\ k \in 1..k
    BY <2>1, FramesReadable
  <2> QED BY <2>1, <2>2, FramesReadable
<1>2. /\ status = "reading" /\ status' = "failed" /\ files' = files
      /\ delivered' = Append(delivered, <<f, c>>)
      /\ files[f][c] = Include(g) /\ cursym < Len(files[f])
      /\ d = 1 \/ files[g] = Unreadable
  <2>1. FramesUsedUp => d = 1
    BY <1>1, DepthAssumption DEF FramesUsedUp, Depth
  <2> QED BY <1>1, <2>1 DEF PushFails, AtInclude, Exit, bufsize, Text, Here
<1>3. PICK W : Begun(W) /\ delivered = W[k] \o u
  BY <1>2 DEF TextInv
<1>4. Part(d, Expansion, f, c) = h \o end
  BY <1>2, NoInclude DEF Part
<1>5. /\ u \in Seq(Mark) /\ Part(d, Expansion, f, c) \in Seq(Mark)
      /\ Upto(d, f, c) = u \o Part(d, Expansion, f, c)
  BY <1>1, <1>2, UptoGrows
<1>6. c \in 0..Len(files[f]) /\ c \in Nat
  BY <1>1, <1>2
<1>7. /\ <<f, c>> \in Mark /\ h \in Seq(Mark) /\ end \in Seq(Mark) /\ W[k] \in Seq(Mark)
      /\ delivered \in Seq(Mark)
  <2>1. <<f, c>> \in Mark
    BY <1>1, <1>6 DEF Readable, Mark
  <2>2. W[k] \in Seq(Mark)
    BY <1>1, <1>3 DEF Begun
  <2> QED BY <2>1, <2>2, DeliveredText, StopIsMark
<1> HIDE DEF k, f, d, c
<1>8. PICK z : z = Append(delivered', Stop)
  OBVIOUS
<1>9. /\ delivered' \in Seq(Mark) /\ z \in Seq(Mark) /\ StopLast(z) /\ z # <<>> /\ z[Len(z)] = Stop
  <2>1. delivered' \in Seq(File \X (Nat \ {0}))
    BY DEF TypeOK
  <2>2. delivered' \in Seq(Mark) /\ StopFree(delivered')
    BY <2>1, DeliveredFree
  <2> QED BY <1>8, <2>2, FreeStopsLast
<1>10. z = W[k] \o Upto(d, f, c)
  <2>1. delivered' = delivered \o h
    BY <1>2, <1>7, AppendIsConcat
  <2>2. z = delivered' \o end
    BY <1>8, <1>9, StopIsMark, AppendIsConcat
  <2> DEFINE w == W[k]
  <2>3. z = Cat(Cat(Cat(w, u), h), end)
    BY <1>3, <2>1, <2>2 DEF Cat
  <2>4. W[k] \o Upto(d, f, c) = Cat(w, Cat(u, Cat(h, end)))
    BY <1>4, <1>5 DEF Cat
  <2>5. w \in Marks /\ u \in Marks /\ h \in Marks /\ end \in Marks
    BY <1>5, <1>7 DEF Marks
  <2> HIDE DEF w, u, h, end
  <2>6. Cat(w, u) \in Marks /\ Cat(h, end) \in Marks
    BY <2>5, Concats
  <2>7. Cat(Cat(Cat(w, u), h), end) = Cat(Cat(w, u), Cat(h, end))
    BY <2>5, <2>6, Concats
  <2>8. Cat(Cat(w, u), Cat(h, end)) = Cat(w, Cat(u, Cat(h, end)))
    BY <2>5, <2>6, Concats
  <2> QED BY <2>3, <2>4, <2>7, <2>8
<1>11. \E q \in Seq(Mark) : Expected = z \o q
  <2>1. Upto(d, f, c) \in Seq(Mark) /\ \E r \in Seq(Mark) : FlattenSeq(Parts(d, f)) = Upto(d, f, c) \o r
    BY <1>1, <1>6, UptoGrows
  <2> QED BY <1>2, <1>3, <1>9, <1>10, <2>1, Climb DEF k, f, d
<1>12. Expected = z
  BY <1>2, <1>9, <1>11, DeliveredBegins, StopEndsIt
<1>13. IsPrefix(delivered', z)
  <2>1. z = delivered' \o <<Stop>> /\ <<Stop>> \in Seq(Mark)
    BY <1>8, <1>9, StopIsMark, AppendIsConcat
  <2> QED BY <1>9, <2>1, PrefixOfConcat
<1>14. Expected' = Append(delivered', Stop)
  BY <1>2, <1>8, <1>12, ExpectedStays
<1> QED BY <1>2, <1>8, <1>12, <1>13, <1>14 DEF TextInv, DeliversExpansion, Stop

LEMMA TextStays ==
    ASSUME TypeOK, FramesInv, TextInv, UNCHANGED vars
    PROVE  TextInv'
<1>1. UNCHANGED <<files, inbuf, frames, status, content, cursym, delivered>>
  BY DEF vars
<1>2. CASE status = "reading"
  <2>1. PICK W : Begun(W) /\ delivered = W[frame_count] \o Upto(Depth(frame_count), FileOf(frame_count), cursym)
    BY <1>2 DEF TextInv
  <2>2. frame_count' = frame_count /\ \A i : FileOf(i)' = FileOf(i)
    BY <1>1 DEF frame_count, FileOf, Source
  <2>3. \A i \in 1..(frame_count - 1) : BegunAt(W, i)'
    BY <1>1, <2>1, <2>2, BegunStays DEF Begun
  <2>4. Begun(W)'
    BY <2>1, <2>2, <2>3 DEF Begun
  <2>5. delivered' = W[frame_count'] \o Upto(Depth(frame_count), FileOf(frame_count), cursym)'
    <3>1. Upto(Depth(frame_count), FileOf(frame_count), cursym)' = Upto(Depth(frame_count), FileOf(frame_count), cursym)
      BY <1>1, <2>2, UptoStays DEF Depth, FileOf, Source
    <3> QED BY <1>1, <2>1, <2>2, <3>1
  <2> QED BY <1>1, <1>2, <2>4, <2>5 DEF TextInv
<1>3. CASE status # "reading"
  BY <1>1, <1>3, ExpectedStays DEF TextInv, DeliversExpansion
<1> QED BY <1>2, <1>3

LEMMA InitText ==
    ASSUME Init, TypeOK
    PROVE  TextInv
<1>1. PICK W : W = [i \in 1..1 |-> <<>>]
  OBVIOUS
<1>2. frame_count = 1 /\ delivered = <<>> /\ cursym = 0 /\ status = "reading"
  BY DEF Init, frame_count
<1>3. Begun(W)
  <2>1. W \in [1..1 -> Seq(Mark)] /\ W[1] = <<>> /\ 1..(1 - 1) = {}
    BY <1>1, EmptySeq
  <2> QED BY <1>2, <2>1 DEF Begun
<1>4. delivered = W[1] \o Upto(Depth(1), FileOf(1), 0)
  BY <1>1, <1>2, UptoStarts
<1> QED BY <1>2, <1>3, <1>4 DEF TextInv

(* The text delivered is the source with every INCLUDE replaced by the     *)
(* file it names, to any depth, through every Pop and every failure.       *)
THEOREM TextDelivered == Spec => []DeliversExpansion
<1>1. Init /\ TypeOK => TextInv
  BY InitText
<1>2. TypeOK /\ FramesInv /\ TextInv /\ TypeOK' /\ [Next]_vars => TextInv'
  <2> SUFFICES ASSUME TypeOK, FramesInv, TextInv, TypeOK', [Next]_vars PROVE TextInv'
    OBVIOUS
  <2>1. CASE NextChar
    BY <2>1, NextCharText
  <2>2. CASE Pop
    BY <2>2, PopText
  <2>3. CASE EndOfInput
    BY <2>3, EndText
  <2>4. ASSUME NEW f \in File, PushFile(f) PROVE TextInv'
    BY <2>4, PushText
  <2>5. ASSUME NEW f \in File, PushFails(f) PROVE TextInv'
    BY <2>5, PushFailsText
  <2>6. CASE ParserGivesUp
    BY <2>6, GivesUpText
  <2>7. CASE UNCHANGED vars
    BY <2>7, TextStays
  <2> QED BY <2>1, <2>2, <2>3, <2>4, <2>5, <2>6, <2>7 DEF Next, Read
<1>3. TypeOK /\ FramesInv /\ TextInv => DeliversExpansion
  <2> SUFFICES ASSUME TypeOK, FramesInv, TextInv PROVE DeliversExpansion
    OBVIOUS
  <2>1. CASE status = "reading"
    BY <2>1, DeliveredBegins DEF DeliversExpansion
  <2>2. CASE status # "reading"
    BY <2>2 DEF TextInv
  <2> QED BY <2>1, <2>2
<1> QED BY <1>1, <1>2, <1>3, FramesSound, PTL DEF Spec
=============================================================================
