----------------------------- MODULE RkaProofs -----------------------------
(***************************************************************************)
(* Theorems about RkaExchange: for every number of processes, directory,   *)
(* size of stdio's buffers and contents of the files.                      *)
(***************************************************************************)
EXTENDS RkaExchange, SeqLemmas, FiniteSetTheorems

Byte == 0 .. 255
Bytes == Seq(Byte)

-----------------------------------------------------------------------------
(* The tables give bytes, at most two for a character.                     *)

LEMMA LetterCodes == TapeLetters \in [1 .. 32 -> 33 .. 126]
BY DEF TapeLetters

LEMMA LetterPlaces == Letters \in [1 .. 31 -> 0 .. 31]
BY DEF Letters

LEMMA BehindBytes == \A c \in 177 .. 255 : EncodeBehind[c] \in 0 .. 255
<1>1. EncodeBehind \in [177 .. 255 -> 0 .. 255]
  BY BehindAssumption
<1> QED BY <1>1

LEMMA BehindWide == \A c \in 129 .. 254 : DecodeBehind[c] \in Int
<1>1. DecodeBehind \in [129 .. 254 -> Int]
  BY BehindAssumption
<1> QED BY <1>1

LEMMA CodeIsByte == ASSUME NEW c \in Byte PROVE charCodeAt(c) \in Byte
<1>1. CASE c < 128
  BY <1>1 DEF charCodeAt, Byte
<1>2. CASE c \in 128 .. 143
  BY <1>2 DEF charCodeAt, Byte
<1>3. CASE c \in 144 .. 175
  <2>1. c - 143 \in 1 .. 32
    BY <1>3
  <2>2. TapeLetters[c - 143] \in 33 .. 126
    BY <2>1, LetterCodes
  <2> QED BY <1>3, <2>2 DEF charCodeAt, Byte
<1>4. CASE c = 176
  BY <1>4 DEF charCodeAt, Byte
<1>5. CASE c \in 177 .. 255
  <2>1. EncodeBehind[c] \in 0 .. 255
    BY <1>5, BehindBytes
  <2> QED BY <1>5, <2>1 DEF charCodeAt, Byte
<1> QED BY <1>1, <1>2, <1>3, <1>4, <1>5 DEF Byte

LEMMA EncodedCharType ==
    ASSUME NEW c \in Byte PROVE EncodedChar(c) \in Bytes /\ Len(EncodedChar(c)) <= 1
<1>1. <<charCodeAt(c)>> \in Bytes /\ Len(<<charCodeAt(c)>>) = 1
  BY CodeIsByte DEF Bytes
<1>2. <<>> \in Bytes /\ Len(<<>>) = 0
  BY EmptySeq DEF Bytes
<1> QED BY <1>1, <1>2 DEF EncodedChar

LEMMA NarrowType ==
    ASSUME NEW sym \in Int PROVE Narrow(sym) \in Bytes /\ Len(Narrow(sym)) \in 1 .. 2
<1>1. sym % 256 \in Byte /\ (sym + 128) % 256 \in Byte /\ utfRu \in Byte
  BY DEF Byte, utfRu
<1>2. \A a, b \in Byte : <<a>> \in Bytes /\ <<a, b>> \in Bytes /\ Len(<<a>>) = 1 /\ Len(<<a, b>>) = 2
  BY DEF Bytes
<1>3. PICK a \in Byte : a = sym % 256
  BY <1>1
<1>4. PICK b \in Byte : b = (sym + 128) % 256
  BY <1>1
<1>5. PICK u \in Byte : u = utfRu
  BY <1>1
<1>6. Narrow(sym) = <<u, b>> \/ Narrow(sym) = <<a>>
  BY <1>3, <1>4, <1>5, SMTT(30) DEF Narrow
<1>7. <<u, b>> \in Bytes /\ <<a>> \in Bytes /\ Len(<<u, b>>) = 2 /\ Len(<<a>>) = 1
  BY <1>2, Zenon
<1> QED BY <1>6, <1>7

LEMMA SymbolIsInt == ASSUME NEW c \in 0 .. 254 PROVE getUnicodeSymbol(c) \in Int
<1>1. CASE c \in 96 .. 126
  <2>1. c - 95 \in 1 .. 31
    BY <1>1
  <2>2. Letters[c - 95] \in 0 .. 31
    BY <2>1, LetterPlaces
  <2> QED BY <1>1, <2>2 DEF getUnicodeSymbol
<1>2. CASE c \in 129 .. 254
  <2>1. DecodeBehind[c] \in Int
    BY <1>2, BehindWide
  <2> QED BY <1>2, <2>1 DEF getUnicodeSymbol
<1>3. CASE c \notin 96 .. 126 /\ c \notin 129 .. 254
  BY <1>3 DEF getUnicodeSymbol
<1> QED BY <1>1, <1>2, <1>3

LEMMA DecodedCharType ==
    ASSUME NEW c \in 0 .. 254 PROVE DecodedChar(c) \in Bytes /\ Len(DecodedChar(c)) \in 1 .. 2
<1>1. <<10>> \in Bytes /\ Len(<<10>>) = 1
  BY DEF Byte, Bytes
<1>2. Narrow(getUnicodeSymbol(c)) \in Bytes /\ Len(Narrow(getUnicodeSymbol(c))) \in 1 .. 2
  BY SymbolIsInt, NarrowType
<1> QED BY <1>1, <1>2 DEF DecodedChar

-----------------------------------------------------------------------------
(* Texts, character by character.                                          *)

LEMMA EmptyText == Encoded(<<>>) = <<>> /\ Decoded(<<>>) = <<>>
<1>1. [i \in DOMAIN <<>> |-> EncodedChar(<<>>[i])] = <<>>
  OBVIOUS
<1>2. [i \in DOMAIN <<>> |-> DecodedChar(<<>>[i])] = <<>>
  OBVIOUS
<1> QED BY <1>1, <1>2, FlattenEmpty DEF Encoded, Decoded

LEMMA EncodedPieces ==
    ASSUME NEW t \in Bytes, NEW c \in Byte
    PROVE  /\ Encoded(t) \in Bytes
           /\ Encoded(Append(t, c)) = Encoded(t) \o EncodedChar(c)
<1> DEFINE pieces(u) == [i \in DOMAIN u |-> EncodedChar(u[i])]
<1>1. ASSUME NEW u \in Bytes PROVE pieces(u) \in Seq(Bytes) /\ Len(pieces(u)) = Len(u)
  <2>1. Len(u) \in Nat /\ DOMAIN u = 1 .. Len(u)
    BY LenProperties DEF Bytes
  <2>2. \A i \in 1 .. Len(u) : EncodedChar(u[i]) \in Bytes
    BY EncodedCharType, ElementOfSeq DEF Bytes
  <2>3. pieces(u) \in [1 .. Len(u) -> Bytes]
    BY <2>1, <2>2
  <2> QED BY <2>1, <2>3
<1>2. Append(t, c) \in Bytes /\ Len(Append(t, c)) = Len(t) + 1 /\ Append(t, c)[Len(t) + 1] = c
      /\ \A i \in 1 .. Len(t) : Append(t, c)[i] = t[i]
  BY AppendProperties DEF Bytes
<1>3. EncodedChar(c) \in Bytes /\ Len(t) \in Nat
  BY EncodedCharType, LenProperties DEF Bytes
<1>4. pieces(Append(t, c)) = Append(pieces(t), EncodedChar(c))
  <2>1. DOMAIN t = 1 .. Len(t) /\ DOMAIN Append(t, c) = 1 .. Len(t) + 1
    BY <1>2, LenProperties DEF Bytes
  <2>2. \A i \in 1 .. Len(t) : pieces(t)[i] = EncodedChar(t[i])
    BY <2>1
  <2>3. \A i \in 1 .. Len(t) + 1 : pieces(Append(t, c))[i] = EncodedChar(Append(t, c)[i])
    BY <2>1
  <2> DEFINE l == pieces(Append(t, c))
             r == Append(pieces(t), EncodedChar(c))
  <2>4. l \in Seq(Bytes) /\ Len(l) = Len(t) + 1
    BY <1>1, <1>2
  <2>5. r \in Seq(Bytes) /\ Len(r) = Len(t) + 1 /\ r[Len(t) + 1] = EncodedChar(c)
        /\ \A i \in 1 .. Len(t) : r[i] = pieces(t)[i]
    <3>1. pieces(t) \in Seq(Bytes) /\ Len(pieces(t)) = Len(t)
      BY <1>1
    <3> HIDE DEF pieces
    <3> QED BY <1>3, <3>1, AppendProperties
  <2>6. \A i \in 1 .. Len(t) + 1 : l[i] = r[i]
    <3> HIDE DEF r, pieces
    <3> QED BY <1>2, <1>3, <2>2, <2>3, <2>5
  <2> HIDE DEF l, r
  <2>7. l = r
    BY <2>4, <2>5, <2>6, SeqEqual
  <2> QED BY <2>7 DEF l, r
<1>5. pieces(t) \in Seq(Seq(Byte)) /\ EncodedChar(c) \in Seq(Byte)
  BY <1>1, <1>3 DEF Bytes
<1>6. Encoded(t) = FlattenSeq(pieces(t)) /\ Encoded(Append(t, c)) = FlattenSeq(pieces(Append(t, c)))
  BY DEF Encoded
<1> HIDE DEF pieces
<1> QED BY <1>4, <1>5, <1>6, FlattenType, FlattenAppend DEF Bytes

LEMMA DecodedPieces ==
    ASSUME NEW t \in Seq(0 .. 254), NEW c \in 0 .. 254
    PROVE  /\ Decoded(t) \in Bytes
           /\ Decoded(Append(t, c)) = Decoded(t) \o DecodedChar(c)
<1> DEFINE pieces(u) == [i \in DOMAIN u |-> DecodedChar(u[i])]
<1>1. ASSUME NEW u \in Seq(0 .. 254) PROVE pieces(u) \in Seq(Bytes) /\ Len(pieces(u)) = Len(u)
  <2>1. Len(u) \in Nat /\ DOMAIN u = 1 .. Len(u)
    BY LenProperties
  <2>2. \A i \in 1 .. Len(u) : DecodedChar(u[i]) \in Bytes
    <3>1. \A i \in 1 .. Len(u) : u[i] \in 0 .. 254
      BY ElementOfSeq
    <3> QED BY <3>1, DecodedCharType
  <2>3. pieces(u) \in [1 .. Len(u) -> Bytes]
    BY <2>1, <2>2
  <2> QED BY <2>1, <2>3
<1>2. Append(t, c) \in Seq(0 .. 254) /\ Len(Append(t, c)) = Len(t) + 1 /\ Append(t, c)[Len(t) + 1] = c
      /\ \A i \in 1 .. Len(t) : Append(t, c)[i] = t[i]
  BY AppendProperties
<1>3. DecodedChar(c) \in Bytes /\ Len(t) \in Nat
  BY DecodedCharType, LenProperties
<1>4. pieces(Append(t, c)) = Append(pieces(t), DecodedChar(c))
  <2>1. DOMAIN t = 1 .. Len(t) /\ DOMAIN Append(t, c) = 1 .. Len(t) + 1
    BY <1>2, LenProperties
  <2>2. \A i \in 1 .. Len(t) : pieces(t)[i] = DecodedChar(t[i])
    BY <2>1
  <2>3. \A i \in 1 .. Len(t) + 1 : pieces(Append(t, c))[i] = DecodedChar(Append(t, c)[i])
    BY <2>1
  <2> DEFINE l == pieces(Append(t, c))
             r == Append(pieces(t), DecodedChar(c))
  <2>4. l \in Seq(Bytes) /\ Len(l) = Len(t) + 1
    BY <1>1, <1>2
  <2>5. r \in Seq(Bytes) /\ Len(r) = Len(t) + 1 /\ r[Len(t) + 1] = DecodedChar(c)
        /\ \A i \in 1 .. Len(t) : r[i] = pieces(t)[i]
    <3>1. pieces(t) \in Seq(Bytes) /\ Len(pieces(t)) = Len(t)
      BY <1>1
    <3> HIDE DEF pieces
    <3> QED BY <1>3, <3>1, AppendProperties
  <2>6. \A i \in 1 .. Len(t) + 1 : l[i] = r[i]
    <3> HIDE DEF r, pieces
    <3> QED BY <1>2, <1>3, <2>2, <2>3, <2>5
  <2> HIDE DEF l, r
  <2>7. l = r
    BY <2>4, <2>5, <2>6, SeqEqual
  <2> QED BY <2>7 DEF l, r
<1>5. pieces(t) \in Seq(Seq(Byte)) /\ DecodedChar(c) \in Seq(Byte)
  BY <1>1, <1>3 DEF Bytes
<1>6. Decoded(t) = FlattenSeq(pieces(t)) /\ Decoded(Append(t, c)) = FlattenSeq(pieces(Append(t, c)))
  BY DEF Decoded
<1> HIDE DEF pieces
<1> QED BY <1>4, <1>5, <1>6, FlattenType, FlattenAppend DEF Bytes

(* What the first characters become is a beginning of what all become.     *)
LEMMA DecodedPrefix ==
    ASSUME NEW t \in Seq(0 .. 254), NEW k \in 0 .. Len(t)
    PROVE  \E r \in Bytes : Decoded(t) = Decoded(SubSeq(t, 1, k)) \o r
<1> DEFINE pieces(u) == [i \in DOMAIN u |-> DecodedChar(u[i])]
           l == pieces(SubSeq(t, 1, k))
           r == SubSeq(pieces(t), 1, k)
<1>0. Len(t) \in Nat /\ DOMAIN t = 1 .. Len(t) /\ k \in Nat /\ k <= Len(t)
  BY LenProperties
<1>1. \A i \in 1 .. Len(t) : t[i] \in 0 .. 254 /\ DecodedChar(t[i]) \in Bytes
  BY ElementOfSeq, DecodedCharType
<1>2. pieces(t) \in Seq(Bytes) /\ Len(pieces(t)) = Len(t)
      /\ \A i \in 1 .. Len(t) : pieces(t)[i] = DecodedChar(t[i])
  <2>1. pieces(t) \in [1 .. Len(t) -> Bytes]
    BY <1>0, <1>1
  <2> QED BY <1>0, <2>1
<1>3. SubSeq(t, 1, k) \in Seq(0 .. 254) /\ Len(SubSeq(t, 1, k)) = k
      /\ \A i \in 1 .. k : SubSeq(t, 1, k)[i] = t[i]
  BY <1>0, SubSeqType
<1>4. r \in Seq(Bytes) /\ Len(r) = k /\ \A i \in 1 .. k : r[i] = pieces(t)[i]
  <2> HIDE DEF pieces
  <2> QED BY <1>0, <1>2, SubSeqType
<1>5. l \in Seq(Bytes) /\ Len(l) = k /\ \A i \in 1 .. k : l[i] = DecodedChar(t[i])
  <2>1. DOMAIN SubSeq(t, 1, k) = 1 .. k
    BY <1>3, LenProperties
  <2>2. \A i \in 1 .. k : DecodedChar(SubSeq(t, 1, k)[i]) \in Bytes
    BY <1>0, <1>1, <1>3
  <2>3. l \in [1 .. k -> Bytes]
    BY <2>1, <2>2
  <2> QED BY <1>0, <1>3, <2>1, <2>3
<1>6. l = r
  <2>1. \A i \in 1 .. k : l[i] = r[i]
    <3> HIDE DEF l, r, pieces
    <3> QED BY <1>0, <1>2, <1>4, <1>5
  <2> HIDE DEF l, r
  <2> QED BY <1>4, <1>5, <2>1, SeqEqual
<1>7. \E s \in Bytes : FlattenSeq(pieces(t)) = FlattenSeq(r) \o s
  <2> HIDE DEF pieces
  <2> QED BY <1>0, <1>2, FlattenPrefix, ZenonT(40) DEF Bytes
<1>8. Decoded(t) = FlattenSeq(pieces(t)) /\ Decoded(SubSeq(t, 1, k)) = FlattenSeq(l)
  BY DEF Decoded
<1> HIDE DEF pieces, l, r
<1> QED BY <1>6, <1>7, <1>8

-----------------------------------------------------------------------------
(* A printable text reads the same when it has been packed and decoded.    *)

LEMMA TablesInverse ==
    \A k \in (1 .. 32) \ {27} : TapeLetters[k] \in 96 .. 126 /\ Letters[TapeLetters[k] - 95] = k - 1
BY DEF TapeLetters, Letters

LEMMA CapitalDecodes ==
    ASSUME NEW b \in (144 .. 175) \ {170}
    PROVE  charCodeAt(b) \in 0 .. 127 /\ DecodedChar(charCodeAt(b)) = <<utfRu, b>>
<1>1. PICK k \in (1 .. 32) \ {27} : k = b - 143
  OBVIOUS
<1>2. TapeLetters[k] \in 96 .. 126 /\ Letters[TapeLetters[k] - 95] = k - 1
  BY <1>1, TablesInverse
<1>3. charCodeAt(b) = TapeLetters[k]
  BY <1>1 DEF charCodeAt
<1>4. getUnicodeSymbol(charCodeAt(b)) = 1040 + (k - 1)
  BY <1>2, <1>3 DEF getUnicodeSymbol
<1>5. (1040 + (k - 1) + 128) % 256 = b /\ 1040 + (k - 1) > 1024
  BY <1>1
<1>6. Narrow(1040 + (k - 1)) = <<utfRu, b>>
  BY <1>5 DEF Narrow
<1> QED BY <1>2, <1>3, <1>4, <1>6 DEF DecodedChar

LEMMA AsciiDecodes ==
    ASSUME NEW c \in Byte, IsAscii(c)
    PROVE  charCodeAt(c) = c /\ c \in 0 .. 127 /\ DecodedChar(c) = <<c>>
<1>1. charCodeAt(c) = c /\ c \in 0 .. 95
  BY DEF charCodeAt, IsAscii, Byte
<1>2. CASE c = 10
  BY <1>1, <1>2 DEF DecodedChar
<1>3. CASE c # 10
  <2>1. getUnicodeSymbol(c) = c /\ c % 256 = c
    BY <1>1, <1>3 DEF getUnicodeSymbol, IsAscii
  <2> QED BY <1>1, <1>3, <2>1 DEF DecodedChar, Narrow, IsAscii
<1> QED BY <1>1, <1>2, <1>3

LEMMA NarrowCodes ==
    /\ \A s \in Seq(0 .. 127) : s \in Seq(0 .. 254) /\ IsKoi7(s)
    /\ 0 .. 127 \subseteq 0 .. 254
<1>1. 0 .. 127 \subseteq 0 .. 254
  OBVIOUS
<1>2. ASSUME NEW s \in Seq(0 .. 127)
      PROVE  s \in Seq(0 .. 254) /\ IsKoi7(s)
  <2>1. s \in Seq(0 .. 254)
    BY <1>1, SeqMonotonic
  <2>2. DOMAIN s = 1 .. Len(s) /\ \A i \in 1 .. Len(s) : s[i] \in 0 .. 127
    BY LenProperties, ElementOfSeq
  <2>3. \A code \in 0 .. 127 : code < 128
    OBVIOUS
  <2>4. IsKoi7(s)
    BY <2>2, <2>3, Zenon DEF IsKoi7
  <2> QED BY <2>1, <2>4, Zenon
<1> QED BY <1>1, <1>2

(* The first of two bytes is dropped and comes back with the second.       *)
LEMMA RoundTrip ==
    ASSUME NEW t \in Bytes, Printable(t)
    PROVE  Decoded(Encoded(t)) = t /\ IsKoi7(Encoded(t))
<1> DEFINE first(n) == SubSeq(t, 1, n)
           Split(n) == n > 0 /\ t[n] = utfRu
           Back(n) == /\ Encoded(first(n)) \in Seq(0 .. 127)
                      /\ Decoded(Encoded(first(n))) = IF Split(n) THEN first(n - 1) ELSE first(n)
           T == {n \in Nat : n <= Len(t) => Back(n)}
<1>0. Len(t) \in Nat /\ DOMAIN t = 1 .. Len(t) /\ \A i \in 1 .. Len(t) : t[i] \in Byte
  BY LenProperties, ElementOfSeq DEF Bytes
<1>1. ASSUME NEW n \in Nat, n <= Len(t)
      PROVE  first(n) \in Bytes /\ (n < Len(t) => first(n + 1) = Append(first(n), t[n + 1]))
  BY <1>0, <1>1, SubSeqType, SubSeqAppend DEF Bytes
<1>2. Back(0)
  <2>1. first(0) = <<>>
    BY SubSeqEmpty
  <2>2. Encoded(first(0)) = <<>> /\ Decoded(<<>>) = <<>> /\ <<>> \in Seq(0 .. 127)
    BY <2>1, EmptyText, EmptySeq
  <2>3. ~Split(0)
    OBVIOUS
  <2> HIDE DEF first, Split
  <2> QED BY <2>1, <2>2, <2>3
<1>3. ASSUME NEW n \in Nat, n + 1 <= Len(t), Back(n) PROVE Back(n + 1)
  <2> DEFINE c == t[n + 1]
  <2>1. n <= Len(t) /\ n < Len(t) /\ n + 1 \in 1 .. Len(t) /\ n + 1 - 1 = n /\ c \in Byte
    BY <1>0, <1>3
  <2>2. first(n + 1) = Append(first(n), c) /\ first(n) \in Bytes /\ first(n + 1) \in Bytes
    BY <1>0, <1>1, <1>3, <2>1
  <2>3. Encoded(first(n + 1)) = Encoded(first(n)) \o EncodedChar(c)
    BY <2>1, <2>2, EncodedPieces
  <2>4. IsAscii(c) \/ (n + 1 < Len(t) /\ IsCapital(c, t[n + 2])) \/ (n > 0 /\ IsCapital(t[n], c))
    <3>1. PICK m \in 1 .. Len(t) : m = n + 1
      BY <2>1
    <3>2. IsAscii(t[m]) \/ (m < Len(t) /\ IsCapital(t[m], t[m + 1])) \/ (m > 1 /\ IsCapital(t[m - 1], t[m]))
      BY <1>0, <3>1 DEF Printable
    <3>3. m + 1 = n + 2 /\ m - 1 = n /\ (m > 1 <=> n > 0)
      BY <3>1
    <3> QED BY <3>1, <3>2, <3>3
  <2>5. Split(n) => IsCapital(t[n], c)
    <3>1. ASSUME Split(n)
          PROVE  n \in 1 .. Len(t) /\ ~IsAscii(t[n]) /\ ~IsCapital(t[n - 1], t[n])
      BY <2>1, <3>1 DEF IsAscii, IsCapital, utfRu
    <3> QED BY <1>0, <3>1 DEF Printable
  <2>6. CASE c = utfRu
    <3>1. ~Split(n)
      BY <2>5, <2>6 DEF IsCapital, utfRu
    <3>2. Encoded(first(n + 1)) = Encoded(first(n))
      <4>1. EncodedChar(c) = <<>>
        BY <2>6 DEF EncodedChar
      <4>2. Encoded(first(n)) \in Seq(0 .. 127)
        BY <1>3
      <4> HIDE DEF first
      <4> QED BY <2>3, <4>1, <4>2, ConcatEmptySeq
    <3>3. Split(n + 1)
      BY <2>6
    <3>4. Decoded(Encoded(first(n))) = first(n) /\ Encoded(first(n)) \in Seq(0 .. 127)
      BY <1>3, <3>1
    <3> HIDE DEF first, Split
    <3> QED BY <2>1, <3>2, <3>3, <3>4
  <2>7. CASE c # utfRu
    <3> DEFINE e == charCodeAt(c)
    <3>1. e \in 0 .. 127 /\ DecodedChar(e) = IF Split(n) THEN <<utfRu, c>> ELSE <<c>>
      <4>1. CASE Split(n)
        <5>1. c \in (144 .. 175) \ {170}
          BY <2>5, <4>1 DEF IsCapital
        <5> QED BY <4>1, <5>1, CapitalDecodes
      <4>2. CASE ~Split(n)
        <5>1. IsAscii(c)
          BY <2>1, <2>4, <2>7, <4>2 DEF IsCapital
        <5> QED BY <2>1, <4>2, <5>1, AsciiDecodes
      <4> QED BY <4>1, <4>2
    <3> HIDE DEF e
    <3>2. Encoded(first(n)) \in Seq(0 .. 127)
          /\ Decoded(Encoded(first(n))) = IF Split(n) THEN first(n - 1) ELSE first(n)
      BY <1>3
    <3>3. Encoded(first(n + 1)) = Append(Encoded(first(n)), e)
      <4>1. EncodedChar(c) = <<e>>
        BY <2>7 DEF EncodedChar, e
      <4> HIDE DEF first
      <4> QED BY <2>3, <3>1, <3>2, <4>1, AppendIsConcat
    <3>4. Encoded(first(n + 1)) \in Seq(0 .. 127)
      <4> HIDE DEF first
      <4>1. \A s \in Seq(0 .. 127), x \in 0 .. 127 : Append(s, x) \in Seq(0 .. 127)
        BY AppendProperties
      <4> QED BY <3>1, <3>2, <3>3, <4>1
    <3>5. Decoded(Encoded(first(n + 1))) = Decoded(Encoded(first(n))) \o DecodedChar(e)
      <4>1. Encoded(first(n)) \in Seq(0 .. 254) /\ e \in 0 .. 254
        <5> HIDE DEF first
        <5> QED BY <3>1, <3>2, NarrowCodes
      <4> HIDE DEF first
      <4> QED BY <3>3, <4>1, DecodedPieces
    <3>6. Decoded(Encoded(first(n + 1))) = first(n + 1)
      <4>1. CASE Split(n)
        <5>1. n > 0 /\ t[n] = utfRu /\ n - 1 \in Nat /\ n - 1 + 1 = n
          BY <4>1
        <5>2. first(n) = Append(first(n - 1), utfRu) /\ first(n - 1) \in Bytes
          BY <1>0, <1>1, <2>1, <5>1
        <5>3. utfRu \in Byte
          BY DEF utfRu, Byte
        <5>4. PICK f \in Bytes : f = first(n - 1)
          BY <5>2
        <5>5. f \o <<utfRu, c>> = Append(Append(f, utfRu), c)
          BY <2>1, <5>3 DEF Bytes
        <5> HIDE DEF first, Split
        <5> QED BY <2>2, <3>1, <3>2, <3>5, <4>1, <5>2, <5>4, <5>5
      <4>2. CASE ~Split(n)
        <5>1. first(n) \o <<c>> = Append(first(n), c)
          <6> HIDE DEF first
          <6> QED BY <2>1, <2>2, AppendIsConcat DEF Bytes
        <5> HIDE DEF first, Split
        <5> QED BY <2>2, <3>1, <3>2, <3>5, <4>2, <5>1
      <4> QED BY <4>1, <4>2
    <3>7. ~Split(n + 1)
      BY <2>7
    <3> HIDE DEF first, Split
    <3> QED BY <3>4, <3>6, <3>7
  <2> QED BY <2>6, <2>7
<1>4. \A n \in Nat : n \in T
  <2>1. 0 \in T
    BY <1>2
  <2>2. ASSUME NEW n \in Nat, n \in T PROVE n + 1 \in T
    <3>1. n + 1 <= Len(t) => n <= Len(t)
      BY <1>0
    <3> HIDE DEF Back
    <3> QED BY <1>3, <2>2, <3>1
  <2> HIDE DEF T
  <2> QED BY <2>1, <2>2, NatSetInduction
<1>5. Back(Len(t))
  <2> HIDE DEF Back
  <2> QED BY <1>0, <1>4
<1>6. ~Split(Len(t))
  <2> SUFFICES ASSUME Split(Len(t)) PROVE FALSE
    OBVIOUS
  <2>1. Len(t) \in 1 .. Len(t) /\ t[Len(t)] = utfRu
    BY <1>0
  <2>2. ~IsAscii(utfRu) /\ \A b : ~IsCapital(b, utfRu)
    BY DEF IsAscii, IsCapital, utfRu
  <2> QED BY <1>0, <2>1, <2>2 DEF Printable
<1>7. first(Len(t)) = t
  BY SubSeqFull DEF Bytes
<1> HIDE DEF first, Split
<1> QED BY <1>5, <1>6, <1>7, NarrowCodes

-----------------------------------------------------------------------------
(* The invariant.  TypeInv: the types, with those of the fields of a       *)
(* process.                                                                *)

Parts == {"header", "address", "name", "padding", "service", "body", "end", "binary"}

ProcType ==
    [args : Seq(STRING), at : Running \cup Ended, code : {E_CMDREQ, E_UNKNOWNCMD}, told : BOOLEAN,
     fd_in : Nat, fd_out : Nat, fd_tmp : Nat,
     rpos : Nat, ibuf : Bytes, eof : BOOLEAN, wpos : Nat, obuf : Bytes,
     part : Parts, count : Nat]

TypeInv ==
    /\ data \in Seq(Bytes) /\ 2 * N <= Len(data)
    /\ dir \in [Names -> 0 .. Len(data)]
    /\ meddled \in [Procs -> BOOLEAN] /\ origin \in [Procs -> Bytes]
    /\ proc \in [Procs -> ProcType]
    /\ \A p \in Procs :
         /\ proc[p].fd_in <= Len(data) /\ proc[p].fd_out <= Len(data) /\ proc[p].fd_tmp <= Len(data)
         /\ Len(proc[p].ibuf) <= BUF /\ Len(proc[p].obuf) <= 2 * BUF + 1

(* No two names are one file, and none is a standard stream.               *)
DirInv == \A n \in Names : dir[n] # 0 => dir[n] > 2 * N /\ \A m \in Names : dir[m] = dir[n] => m = n

(* What a process has open, and what its buffers hold, at each place.      *)
Place(p) ==
    LET P == proc[p]
    IN  /\ \A i \in 2 .. Len(P.args) : P.args[i] \in Names
        /\ P.at \notin {"main", "exited", "killed"} => Busy(p)
        /\ P.at \in {"pack", "encode", "copy", "remove"} => Command(p) = "pack"
        /\ P.at = "unpack" => Command(p) = "unpack" /\ P.part \notin {"binary", "end"}
        /\ P.at = "main" => P.fd_in = 0
        /\ P.at \in {"main", "outfile"} => P.fd_out = 0
        /\ P.at \in {"main", "outfile", "pack", "remove", "unpack", "exit", "exited"} => P.fd_tmp = 0
        /\ P.at \in {"main", "outfile", "pack"} =>
             /\ P.rpos = 0 /\ P.wpos = 0 /\ P.ibuf = <<>> /\ P.obuf = <<>> /\ ~P.eof
             /\ P.part = "header" /\ P.count = 0
        /\ P.at = "copy" => P.fd_tmp # 0
        /\ P.at \in Running /\ P.obuf # <<>> => Writing(p) # 0
        /\ P.at \in {"encode", "unpack"} /\ (P.ibuf # <<>> \/ P.eof) => P.fd_in # 0 /\ Writing(p) # 0

PlaceInv == \A p \in Procs : Place(p)

(* The files a process has open are those its arguments name, as long as   *)
(* they do not name the temporary file, which others may replace.          *)
Opens(p) ==
    LET P == proc[p]
    IN  /\ P.fd_in # 0 => IF Len(P.args) < 2 THEN P.fd_in = 2 * p - 1
                          ELSE P.fd_in > 2 * N /\ (P.args[2] # tmpfile => dir[P.args[2]] = P.fd_in)
        /\ P.fd_out # 0 => IF Len(P.args) < 3 THEN P.fd_out = 2 * p
                           ELSE P.fd_out > 2 * N /\ (P.args[3] # tmpfile => dir[P.args[3]] = P.fd_out)
        /\ P.fd_tmp # 0 => P.fd_tmp > 2 * N /\ \A n \in Names \ {tmpfile} : dir[n] # P.fd_tmp

OpensInv == \A p \in Procs : Opens(p)

-----------------------------------------------------------------------------
(* Reading and writing.                                                    *)

LEMMA NumbersOfFiles ==
    ASSUME NEW p \in Procs
    PROVE  p \in Nat /\ N \in Nat /\ 2 * p \in 1 .. 2 * N /\ 2 * p - 1 \in 1 .. 2 * N
BY RkaAssumption DEF Procs

LEMMA FirstOfType ==
    ASSUME NEW b \in Bytes, NEW n \in Nat
    PROVE  /\ FirstOf(b, n) \in Bytes
           /\ Len(FirstOf(b, n)) = IF Len(b) < n THEN Len(b) ELSE n
           /\ \A i \in 1 .. Len(FirstOf(b, n)) : FirstOf(b, n)[i] = b[i]
<1> DEFINE m == IF Len(b) < n THEN Len(b) ELSE n
<1>1. Len(b) \in Nat /\ m \in Nat /\ m <= Len(b)
  BY LenProperties DEF Bytes
<1> HIDE DEF m
<1>2. SubSeq(b, 1, m) \in Bytes /\ Len(SubSeq(b, 1, m)) = m
      /\ \A i \in 1 .. m : SubSeq(b, 1, m)[i] = b[i]
  BY <1>1, SubSeqType DEF Bytes
<1>3. FirstOf(b, n) = SubSeq(b, 1, m)
  BY DEF FirstOf, m
<1> QED BY <1>1, <1>2, <1>3 DEF m

LEMMA RestType ==
    ASSUME NEW b \in Bytes, NEW n \in Nat
    PROVE  /\ Rest(b, n) \in Bytes
           /\ Len(Rest(b, n)) = IF n < Len(b) THEN Len(b) - n ELSE 0
           /\ \A i \in 1 .. Len(Rest(b, n)) : Rest(b, n)[i] = b[n + i]
<1>1. Len(b) \in Nat /\ n + 1 \in Nat \ {0}
  BY LenProperties DEF Bytes
<1>2. /\ SubSeq(b, n + 1, Len(b)) \in Bytes
      /\ Len(SubSeq(b, n + 1, Len(b))) = IF n + 1 <= Len(b) THEN Len(b) - (n + 1) + 1 ELSE 0
      /\ \A i \in 1 .. Len(b) - (n + 1) + 1 : SubSeq(b, n + 1, Len(b))[i] = b[n + 1 + i - 1]
  BY <1>1, SubSeqType DEF Bytes
<1>3. ASSUME NEW i \in 1 .. Len(Rest(b, n)) PROVE Rest(b, n)[i] = b[n + i]
  <2>1. i \in 1 .. Len(b) - (n + 1) + 1 /\ n + 1 + i - 1 = n + i
    BY <1>1, <1>2, <1>3 DEF Rest
  <2> QED BY <1>2, <2>1 DEF Rest
<1> QED BY <1>1, <1>2, <1>3 DEF Rest

LEMMA OverwriteType ==
    ASSUME NEW b \in Bytes, NEW n \in Nat, NEW new \in Bytes
    PROVE  Overwrite(b, n, new) \in Bytes
<1> DEFINE before == [i \in 1 .. n |-> IF i <= Len(b) THEN b[i] ELSE 0]
<1>1. Len(b) \in Nat /\ Len(new) \in Nat
  BY LenProperties DEF Bytes
<1>2. \A i \in 1 .. n : i <= Len(b) => b[i] \in Byte
  BY <1>1, ElementOfSeq DEF Bytes
<1>3. before \in [1 .. n -> Byte]
  BY <1>2 DEF Byte
<1>4. before \in Bytes
  BY <1>3 DEF Bytes
<1>5. n + Len(new) \in Nat
  BY <1>1
<1>6. Rest(b, n + Len(new)) \in Bytes
  BY <1>5, RestType
<1> HIDE DEF before
<1>7. before \o new \in Bytes
  BY <1>4, ConcatProperties DEF Bytes
<1>8. (before \o new) \o Rest(b, n + Len(new)) \in Bytes
  BY <1>6, <1>7, ConcatProperties DEF Bytes
<1> QED BY <1>8 DEF Overwrite, before

(* Behind the last byte a write appends.                                   *)
LEMMA OverwriteAppends ==
    ASSUME NEW b \in Bytes, NEW new \in Bytes
    PROVE  Overwrite(b, Len(b), new) = b \o new
<1> DEFINE n == Len(b)
           before == [i \in 1 .. n |-> IF i <= n THEN b[i] ELSE 0]
<1>1. n \in Nat /\ Len(new) \in Nat /\ b \in [1 .. n -> Byte]
  BY LenProperties DEF Bytes
<1>2. before = b
  BY <1>1
<1>3. n + Len(new) \in Nat /\ ~(n + Len(new) < n)
  BY <1>1
<1>4. Rest(b, n + Len(new)) = <<>>
  BY <1>1, <1>3, SubSeqEmpty DEF Rest
<1>5. b \o new \in Bytes
  BY ConcatProperties DEF Bytes
<1>6. (b \o new) \o <<>> = b \o new
  BY <1>5, ConcatEmptySeq DEF Bytes
<1> QED BY <1>2, <1>4, <1>6 DEF Overwrite

-----------------------------------------------------------------------------
(* What a process that nobody interferes with has read and written.        *)

Alone(p) ==
    LET P == proc[p]
    IN  /\ P.fd_in # 0 /\ P.fd_in # P.fd_out /\ ~meddled[p]
        /\ tmpfile \notin {P.args[i] : i \in 2 .. Len(P.args)}

(* The input is as it was when it was opened, and what goes to the         *)
(* terminal goes there by one process.                                     *)
InputInv == \A p \in Procs : Alone(p) => data[proc[p].fd_in] = origin[p]

StdoutInv == \A p \in Procs : proc[p].fd_out # 2 * p => data[2 * p] = <<>>

Consumed(P) == P.rpos - Len(P.ibuf)

Reads(P, text) ==
    /\ Len(P.ibuf) <= P.rpos /\ P.rpos <= Len(text)
    /\ P.ibuf = SubSeq(text, Consumed(P) + 1, P.rpos)
    /\ P.eof => P.rpos = Len(text) /\ P.ibuf = <<>>

Writes(P, bytes, text) == bytes \o P.obuf = text /\ P.wpos = Len(bytes)

(* k characters of the tape t have been read, which take unpack to a       *)
(* character of a part.                                                    *)
Parsed(P, t, k) ==
    CASE P.part = "header"  -> k < 4 /\ P.count = k
      [] P.part = "name"    -> 4 <= k /\ k < NameEnd(t) /\ P.count = k - 4
      [] P.part = "padding" -> NameEnd(t) <= k /\ k < SyncAt(t) /\ P.count = k - NameEnd(t)
      [] P.part = "service" -> P.count \in 1 .. 2 /\ k = SyncAt(t) + P.count - 1
      [] P.part = "body"    -> SyncAt(t) + 2 <= k /\ k < FirstFrom(t, SyncAt(t) + 3, {END_OF_BODY})
      [] OTHER              -> FALSE

Unpacked(P, t, k) == IF P.part = "body" THEN Decoded(SubSeq(t, SyncAt(t) + 3, k)) ELSE <<>>

(* P has read text, and out is what the output file holds, tmp what the    *)
(* temporary one holds, result what the output is to become.               *)
Transferred(P, text, tmp, out, result) ==
    /\ P.at = "pack" => out = <<>>
    /\ P.at = "encode" =>
         /\ out = <<>> /\ Reads(P, text)
         /\ P.fd_tmp # 0 => Writes(P, tmp, Encoded(SubSeq(text, 1, Consumed(P))))
    /\ P.at = "copy" =>
         /\ tmp = Encoded(text) /\ Reads(P, tmp)
         /\ Writes(P, out, SubSeq(tmp, 1, Consumed(P)))
    /\ P.at = "unpack" =>
         /\ Reads(P, text) /\ Parsed(P, text, Consumed(P))
         /\ Writes(P, out, Unpacked(P, text, Consumed(P)))
    /\ P.at \in {"remove", "exit"} => Writes(P, out, result)
    /\ P.at = "exited" => out = result
    /\ P.at \in {"aborted", "killed"} => IsPrefix(out, result)

Transfer(p) ==
    Transferred(proc[p], origin[p], data[proc[p].fd_tmp], data[proc[p].fd_out], Result(p))

(* What p has to do, nobody interferes with, and can end well.             *)
Kept(p) == Alone(p) /\ proc[p].fd_out # 0 /\ Busy(p) /\ Promised(p)

TransferInv == \A p \in Procs : Kept(p) => Transfer(p)

(* While the temporary file is there, somebody who was to remove it has    *)
(* not come to it.                                                         *)
TmpInv ==
    (/\ \A p \in Procs : \A i \in 2 .. Len(proc[p].args) : proc[p].args[i] # tmpfile
     /\ \E p \in Procs : proc[p].at \in {"exit", "exited"} /\ Busy(p) /\ Command(p) = "pack"
     /\ dir[tmpfile] # 0)
        => \E q \in Procs : proc[q].at \in {"encode", "copy", "remove", "aborted", "killed"}

RkaInv == TypeInv /\ DirInv /\ PlaceInv /\ OpensInv /\ InputInv /\ StdoutInv /\ TransferInv /\ TmpInv

-----------------------------------------------------------------------------
(* The invariant holds when the processes start.                           *)

LEMMA SetToSeqBijective ==
    ASSUME NEW S, IsFiniteSet(S)
    PROVE  /\ DOMAIN SetToSeq(S) = 1 .. Cardinality(S) /\ Cardinality(S) \in Nat
           /\ \A i \in 1 .. Cardinality(S) : SetToSeq(S)[i] \in S
           /\ \A x \in S : \E i \in 1 .. Cardinality(S) : SetToSeq(S)[i] = x
<1> DEFINE n == Cardinality(S)
<1>1. n \in Nat /\ \E f : f \in Bijection(1 .. n, S)
  BY FS_CardinalityType DEF ExistsBijection
<1>2. \E f \in [1 .. n -> S] : IsInjective(f)
  BY <1>1 DEF Bijection, Injection
<1>3. SetToSeq(S) \in [1 .. n -> S] /\ IsInjective(SetToSeq(S))
  BY <1>2 DEF SetToSeq
<1>4. SetToSeq(S) \in Injection(1 .. n, S)
  BY <1>3 DEF Injection
<1>5. Cardinality(1 .. n) = n
  BY <1>1, FS_Interval
<1>6. SetToSeq(S) \in Surjection(1 .. n, S)
  BY <1>4, <1>5, FS_Injection
<1> QED BY <1>1, <1>3, <1>6 DEF Surjection

LEMMA InitInv == ASSUME Init PROVE RkaInv
<1>1. PICK w \in Worlds :
        LET present == SetToSeq(DOMAIN w.files)
        IN  /\ dir = [n \in Names |-> IF n \notin DOMAIN w.files THEN 0
                                      ELSE 2 * N + CHOOSE i \in DOMAIN present : present[i] = n]
            /\ data = [i \in 1 .. 2 * N |-> IF i % 2 = 1 THEN w.typed ELSE <<>>]
                        \o [i \in DOMAIN present |-> w.files[present[i]]]
            /\ proc = [p \in Procs |-> Started(w.args[p])]
            /\ origin = [p \in Procs |-> <<>>]
            /\ meddled = [p \in Procs |-> FALSE]
  BY DEF Init
<1> DEFINE present == SetToSeq(DOMAIN w.files)
           n == Cardinality(DOMAIN w.files)
           streams == [i \in 1 .. 2 * N |-> IF i % 2 = 1 THEN w.typed ELSE <<>>]
           stored == [i \in DOMAIN present |-> w.files[present[i]]]
<1>2. /\ w.args \in [1 .. N -> Seq(STRING)]
      /\ \A p \in 1 .. N : \A i \in 2 .. Len(w.args[p]) : w.args[p][i] \in Names
      /\ IsFiniteSet(DOMAIN w.files) /\ DOMAIN w.files \subseteq Names
      /\ \A x \in DOMAIN w.files : w.files[x] \in Bytes
      /\ w.typed \in Bytes
  BY RkaAssumption DEF Bytes, Byte
<1>3. N \in Nat /\ 2 * N \in Nat
  BY RkaAssumption
<1>4. /\ DOMAIN present = 1 .. n /\ n \in Nat
      /\ \A i \in 1 .. n : present[i] \in DOMAIN w.files
      /\ \A x \in DOMAIN w.files : \E i \in 1 .. n : present[i] = x
  BY <1>2, SetToSeqBijective
<1> HIDE DEF present, n
<1>5. streams \in Bytes \cup [1 .. 2 * N -> Bytes] /\ streams \in Seq(Bytes) /\ Len(streams) = 2 * N
  BY <1>2, <1>3, EmptySeq DEF Bytes
<1>6. stored \in Seq(Bytes) /\ Len(stored) = n
  BY <1>2, <1>4
<1>7. data = streams \o stored
  BY <1>1 DEF present
<1>8. /\ data \in Seq(Bytes) /\ Len(data) = 2 * N + n
      /\ \A i \in 1 .. 2 * N : data[i] = streams[i]
  <2> HIDE DEF streams, stored
  <2>1. \A a, b \in Seq(Bytes) :
            /\ a \o b \in Seq(Bytes) /\ Len(a \o b) = Len(a) + Len(b)
            /\ \A i \in 1 .. Len(a) + Len(b) : (a \o b)[i] = IF i <= Len(a) THEN a[i] ELSE b[i - Len(a)]
    BY ConcatProperties
  <2>2. /\ data \in Seq(Bytes) /\ Len(data) = 2 * N + n
        /\ \A i \in 1 .. 2 * N + n : data[i] = IF i <= 2 * N THEN streams[i] ELSE stored[i - 2 * N]
    <3>1. PICK a \in Seq(Bytes) : a = streams
      BY <1>5
    <3>2. PICK b \in Seq(Bytes) : b = stored
      BY <1>6
    <3>3. /\ a \o b \in Seq(Bytes) /\ Len(a \o b) = Len(a) + Len(b)
          /\ \A i \in 1 .. Len(a) + Len(b) : (a \o b)[i] = IF i <= Len(a) THEN a[i] ELSE b[i - Len(a)]
      BY <2>1, Zenon
    <3>4. data = a \o b /\ Len(a) = 2 * N /\ Len(b) = n
      BY <1>5, <1>6, <1>7, <3>1, <3>2
    <3> QED BY <3>1, <3>2, <3>3, <3>4
  <2>3. \A i \in 1 .. 2 * N : i \in 1 .. 2 * N + n /\ i <= 2 * N
    BY <1>3, <1>4
  <2> QED BY <2>2, <2>3
<1>9. \A x \in Names : dir[x] = IF x \notin DOMAIN w.files THEN 0
                                ELSE 2 * N + CHOOSE i \in DOMAIN present : present[i] = x
  BY <1>1 DEF present
<1>10. ASSUME NEW x \in DOMAIN w.files
       PROVE  \E i \in 1 .. n : dir[x] = 2 * N + i /\ present[i] = x
  <2>1. \E j \in DOMAIN present : present[j] = x
    BY <1>4
  <2>2. PICK i : i = CHOOSE j \in DOMAIN present : present[j] = x
    OBVIOUS
  <2>3. i \in DOMAIN present /\ present[i] = x
    BY <2>1, <2>2
  <2>4. dir[x] = 2 * N + i
    BY <1>2, <1>9, <2>2
  <2> QED BY <1>4, <2>3, <2>4
<1>11. dir \in [Names -> 0 .. Len(data)] /\ DirInv
  <2>1. \A x \in Names : x \notin DOMAIN w.files => dir[x] = 0
    BY <1>9
  <2>2. DOMAIN dir = Names /\ dir = [x \in Names |-> dir[x]]
    BY <1>1
  <2>3. \A x \in Names : dir[x] \in 0 .. Len(data)
    BY <1>3, <1>4, <1>8, <1>10, <2>1, SMTT(30)
  <2>4. \A x \in Names : dir[x] # 0 => dir[x] > 2 * N
    BY <1>3, <1>10, <2>1
  <2>5. ASSUME NEW x \in Names, NEW y \in Names, dir[x] # 0, dir[x] = dir[y] PROVE x = y
    <3>1. x \in DOMAIN w.files /\ y \in DOMAIN w.files
      BY <2>1, <2>5
    <3>2. PICK i \in 1 .. n : dir[x] = 2 * N + i /\ present[i] = x
      BY <1>10, <3>1
    <3>3. PICK j \in 1 .. n : dir[y] = 2 * N + j /\ present[j] = y
      BY <1>10, <3>1
    <3>4. 2 * N + i = 2 * N + j
      BY <2>5, <3>2, <3>3
    <3>5. i = j
      BY <1>3, <1>4, <3>4
    <3> QED BY <3>2, <3>3, <3>5
  <2> QED BY <2>2, <2>3, <2>4, <2>5 DEF DirInv
<1>12. ASSUME NEW p \in Procs
       PROVE  /\ proc[p] = Started(w.args[p]) /\ meddled[p] = FALSE /\ origin[p] = <<>>
              /\ proc[p].args = w.args[p] /\ proc[p].at = "main"
              /\ proc[p].fd_in = 0 /\ proc[p].fd_out = 0 /\ proc[p].fd_tmp = 0
              /\ proc[p].rpos = 0 /\ proc[p].wpos = 0 /\ proc[p].ibuf = <<>> /\ proc[p].obuf = <<>>
              /\ ~proc[p].eof /\ proc[p].part = "header" /\ proc[p].count = 0
  BY <1>1 DEF Started
<1>13. TypeInv
  <2>1. ASSUME NEW p \in Procs PROVE Started(w.args[p]) \in ProcType
    <3>1. w.args[p] \in Seq(STRING) /\ <<>> \in Bytes
      BY <1>2, EmptySeq DEF Procs, Bytes
    <3> QED BY <3>1 DEF Started, ProcType, Running, Parts, E_CMDREQ
  <2>2. proc \in [Procs -> ProcType]
    BY <1>1, <2>1
  <2>3. meddled \in [Procs -> BOOLEAN] /\ origin \in [Procs -> Bytes]
    BY <1>1, EmptySeq DEF Bytes
  <2>4. BUF \in Nat /\ 2 * N <= Len(data) /\ 0 <= Len(data)
    BY <1>3, <1>4, <1>8, RkaAssumption
  <2>5. ASSUME NEW p \in Procs
        PROVE  /\ proc[p].fd_in <= Len(data) /\ proc[p].fd_out <= Len(data) /\ proc[p].fd_tmp <= Len(data)
               /\ Len(proc[p].ibuf) <= BUF /\ Len(proc[p].obuf) <= 2 * BUF + 1
    <3>3. proc[p].ibuf = <<>> /\ proc[p].obuf = <<>> /\ Len(<<>>) = 0
      BY <1>12, EmptySeq
    <3>1. Len(proc[p].ibuf) = 0 /\ Len(proc[p].obuf) = 0
      BY <3>3
    <3>2. 0 <= BUF /\ 0 <= 2 * BUF + 1
      BY <2>4
    <3> QED BY <1>12, <2>4, <3>1, <3>2
  <2> QED BY <1>8, <1>11, <2>2, <2>3, <2>4, <2>5 DEF TypeInv
<1>14. PlaceInv
  BY <1>2, <1>12 DEF PlaceInv, Place, Procs
<1>15. OpensInv
  BY <1>12 DEF OpensInv, Opens
<1>16. InputInv /\ TransferInv
  BY <1>12 DEF InputInv, TransferInv, Kept, Alone
<1>17. StdoutInv
  <2>1. ASSUME NEW p \in Procs PROVE data[2 * p] = <<>>
    <3>1. 2 * p \in 1 .. 2 * N /\ (2 * p) % 2 # 1
      BY NumbersOfFiles
    <3> QED BY <1>8, <3>1
  <2> QED BY <2>1 DEF StdoutInv
<1>18. TmpInv
  BY <1>12 DEF TmpInv
<1> QED BY <1>11, <1>13, <1>14, <1>15, <1>16, <1>17, <1>18 DEF RkaInv

-----------------------------------------------------------------------------
(* The two calls that change files.                                        *)

Untouched(i) == \A j \in 1 .. Len(data) : j # i => data'[j] = data[j]

LEMMA WriteEffect ==
    ASSUME TypeInv, NEW p \in Procs, NEW i \in 1 .. Len(data), NEW n \in Nat, NEW b \in Bytes,
           Write(p, i, n, b)
    PROVE  /\ data' \in Seq(Bytes) /\ Len(data') = Len(data)
           /\ data'[i] = Overwrite(data[i], n, b) /\ Untouched(i)
           /\ meddled' \in [Procs -> BOOLEAN]
<1>1. data \in Seq(Bytes) /\ data[i] \in Bytes
  BY ElementOfSeq DEF TypeInv
<1>2. Overwrite(data[i], n, b) \in Bytes
  BY <1>1, OverwriteType
<1>3. data' = [data EXCEPT ![i] = Overwrite(data[i], n, b)]
  BY DEF Write
<1>4. meddled' \in [Procs -> BOOLEAN]
  BY DEF Write, Disturb, TypeInv
<1> QED BY <1>1, <1>2, <1>3, <1>4, ExceptSeq DEF Untouched

LEMMA FopenEffect ==
    ASSUME TypeInv, DirInv, NEW p \in Procs, NEW name \in Names, FopenW(p, name)
    PROVE  LET i == Opened(name)
           IN  /\ i \in 0 .. Len(data) + 1 /\ (i # 0 => i > 2 * N)
               /\ data' \in Seq(Bytes) /\ Len(data') = IF i = Len(data) + 1 THEN i ELSE Len(data)
               /\ Untouched(i) /\ (i # 0 => data'[i] = <<>>)
               /\ dir' \in [Names -> 0 .. Len(data')]
               /\ dir'[name] = IF i = 0 THEN dir[name] ELSE i
               /\ dir[name] \in {0, i} \/ i = 0
               /\ \A x \in Names \ {name} : dir'[x] = dir[x] /\ (i # 0 => dir[x] # i)
               /\ meddled' \in [Procs -> BOOLEAN]
<1> DEFINE i == Opened(name)
<1>0. /\ data \in Seq(Bytes) /\ Len(data) \in Nat /\ 2 * N \in Nat /\ 2 * N <= Len(data)
      /\ dir \in [Names -> 0 .. Len(data)] /\ <<>> \in Bytes
  BY LenProperties, EmptySeq, RkaAssumption DEF TypeInv, Bytes
<1>1. i = 0 \/ (i = dir[name] /\ i # 0) \/ (i = Len(data) + 1 /\ dir[name] = 0)
  BY DEF Opened
<1>2. i \in 0 .. Len(data) + 1 /\ (i # 0 => i > 2 * N)
  BY <1>0, <1>1 DEF DirInv
<1>3. \A x \in Names \ {name} : i # 0 => dir[x] # i
  BY <1>0, <1>1 DEF DirInv
<1>4. dir' = [dir EXCEPT ![name] = IF i = 0 THEN dir[name] ELSE i]
  BY DEF FopenW
<1>5. meddled' \in [Procs -> BOOLEAN]
  BY DEF FopenW, Disturb, TypeInv
<1>6. data' = CASE i = 0         -> data
                [] i > Len(data) -> Append(data, <<>>)
                [] OTHER         -> [data EXCEPT ![i] = <<>>]
  BY DEF FopenW
<1> HIDE DEF i
<1>7. /\ data' \in Seq(Bytes) /\ Len(data') = IF i = Len(data) + 1 THEN i ELSE Len(data)
      /\ Untouched(i) /\ (i # 0 => data'[i] = <<>>)
  <2>1. CASE i = 0
    <3>1. data' = data
      BY <1>6, <2>1
    <3>2. Untouched(i)
      BY <3>1 DEF Untouched
    <3> QED BY <1>0, <2>1, <3>1, <3>2
  <2>2. CASE i = Len(data) + 1
    <3>1. data' = Append(data, <<>>)
      BY <1>0, <1>6, <2>2
    <3>2. \A s \in Seq(Bytes), e \in Bytes :
              /\ Append(s, e) \in Seq(Bytes) /\ Len(Append(s, e)) = Len(s) + 1
              /\ \A j \in 1 .. Len(s) : Append(s, e)[j] = s[j]
              /\ Append(s, e)[Len(s) + 1] = e
      BY AppendProperties
    <3>3. /\ data' \in Seq(Bytes) /\ Len(data') = Len(data) + 1
          /\ \A j \in 1 .. Len(data) : data'[j] = data[j]
          /\ data'[Len(data) + 1] = <<>>
      BY <1>0, <3>1, <3>2
    <3> QED BY <2>2, <3>3 DEF Untouched
  <2>3. CASE i \in 1 .. Len(data)
    <3>1. data' = [data EXCEPT ![i] = <<>>]
      BY <1>0, <1>6, <2>3
    <3>2. /\ data' \in Seq(Bytes) /\ Len(data') = Len(data)
          /\ \A j \in 1 .. Len(data) : data'[j] = IF j = i THEN <<>> ELSE data[j]
      BY <1>0, <2>3, <3>1, ExceptSeq
    <3>3. i # Len(data) + 1
      BY <1>0, <2>3
    <3> QED BY <2>3, <3>2, <3>3 DEF Untouched
  <2> QED BY <1>0, <1>2, <2>1, <2>2, <2>3
<1>8. dir' \in [Names -> 0 .. Len(data')]
  <2>1. Len(data) <= Len(data') /\ Len(data') \in Nat /\ i <= Len(data')
    BY <1>0, <1>2, <1>7
  <2>2. \A x \in Names : dir[x] \in 0 .. Len(data')
    BY <1>0, <2>1
  <2>3. i \in 0 .. Len(data')
    BY <1>2, <2>1
  <2> QED BY <1>0, <1>4, <2>2, <2>3
<1>9. /\ dir'[name] = IF i = 0 THEN dir[name] ELSE i
      /\ \A x \in Names \ {name} : dir'[x] = dir[x]
  BY <1>0, <1>4
<1> QED BY <1>1, <1>2, <1>3, <1>5, <1>7, <1>8, <1>9 DEF i

(* What nobody else has written to is as it was.                           *)
LEMMA DisturbMeddles ==
    ASSUME TypeInv, NEW p \in Procs, NEW i \in Nat, Disturb(p, i), NEW q \in Procs \ {p}, ~meddled'[q]
    PROVE  ~meddled[q] /\ i \notin Used(q)
BY DEF Disturb, TypeInv

LEMMA DisturbSelf ==
    ASSUME TypeInv, NEW p \in Procs, NEW i \in Nat, Disturb(p, i)
    PROVE  meddled'[p] = meddled[p]
BY DEF Disturb, TypeInv

-----------------------------------------------------------------------------
(* Steps.  Other processes go on where they were, with the arguments they  *)
(* were given.                                                             *)

LEMMA StepCases ==
    ASSUME NEW p \in Procs, Step(p) \/ Kill(p), NEW G,
           CommandRequired(p) => G, UnknownCommand(p) => G, OpenInput(p) => G, OpenOutput(p) => G,
           Refill(p) => G, WriteOut(p) => G, AssertFails(p) => G, OpenTmp(p) => G,
           EncodeByte(p) => G, Rewind(p) => G, CopyBlock(p) => G, NoOutput(p) => G,
           CopyEnds(p) => G, RemoveTmp(p) => G, UnpackChar(p) => G, ExitNicely(p) => G,
           ExitFails(p) => G, Kill(p) => G
    PROVE  G
BY DEF Step

(* p gets the fields r, which are those it had but for some.               *)
Becomes(p, r) ==
    /\ r \in ProcType /\ r.args = proc[p].args
    /\ proc' = [proc EXCEPT ![p] = r]

LEMMA BecomesEffect ==
    ASSUME TypeInv, NEW p \in Procs, NEW r, Becomes(p, r)
    PROVE  /\ proc' \in [Procs -> ProcType] /\ proc'[p] = r /\ proc'[p].args = proc[p].args
           /\ \A q \in Procs \ {p} : proc'[q] = proc[q]
BY DEF TypeInv, Becomes

LEMMA EndType ==
    ASSUME NEW P \in ProcType, NEW a \in Running \cup Ended, NEW c \in {E_CMDREQ, E_UNKNOWNCMD}
    PROVE  /\ [P EXCEPT !.at = a] \in ProcType
           /\ [P EXCEPT !.at = a, !.told = TRUE] \in ProcType
           /\ [P EXCEPT !.at = a, !.code = c, !.told = TRUE] \in ProcType
BY DEF ProcType

LEMMA OpenType ==
    ASSUME NEW P \in ProcType, NEW a \in Running \cup Ended, NEW f \in Nat
    PROVE  /\ [P EXCEPT !.at = a, !.fd_in = f] \in ProcType
           /\ [P EXCEPT !.at = a, !.fd_out = f] \in ProcType
           /\ [P EXCEPT !.at = a, !.fd_tmp = f] \in ProcType
BY DEF ProcType

LEMMA BufferType ==
    ASSUME NEW P \in ProcType, NEW i \in Bytes, NEW o \in Bytes, NEW n \in Nat, NEW b \in BOOLEAN,
           NEW a \in Running \cup Ended
    PROVE  /\ [P EXCEPT !.ibuf = i, !.rpos = n, !.eof = b] \in ProcType
           /\ [P EXCEPT !.wpos = n, !.obuf = o] \in ProcType
           /\ [P EXCEPT !.ibuf = i, !.obuf = o] \in ProcType
           /\ [P EXCEPT !.at = a, !.obuf = o] \in ProcType
           /\ [P EXCEPT !.at = a, !.obuf = o, !.eof = b, !.rpos = n, !.wpos = n] \in ProcType
BY DEF ProcType

LEMMA UnpackType ==
    ASSUME NEW P \in ProcType, NEW i \in Bytes, NEW o \in Bytes, NEW u \in Parts, NEW n \in Nat,
           NEW b \in BOOLEAN, NEW a \in Running \cup Ended
    PROVE  [P EXCEPT !.ibuf = i, !.obuf = o, !.part = u, !.count = n, !.told = b, !.at = a] \in ProcType
BY DEF ProcType

LEMMA FieldTypes ==
    ASSUME NEW P \in ProcType
    PROVE  /\ P.args \in Seq(STRING) /\ P.at \in Running \cup Ended /\ P.told \in BOOLEAN
           /\ P.fd_in \in Nat /\ P.fd_out \in Nat /\ P.fd_tmp \in Nat
           /\ P.rpos \in Nat /\ P.ibuf \in Bytes /\ P.eof \in BOOLEAN /\ P.wpos \in Nat /\ P.obuf \in Bytes
           /\ P.part \in Parts /\ P.count \in Nat
BY DEF ProcType

LEMMA EndsBecome ==
    ASSUME TypeInv, NEW p \in Procs
    PROVE  /\ CommandRequired(p) => Becomes(p, [proc[p] EXCEPT !.at = "exited", !.code = E_CMDREQ, !.told = TRUE])
           /\ UnknownCommand(p) => Becomes(p, [proc[p] EXCEPT !.at = "exited", !.code = E_UNKNOWNCMD, !.told = TRUE])
           /\ AssertFails(p) => Becomes(p, [proc[p] EXCEPT !.at = "aborted", !.told = TRUE])
           /\ NoOutput(p) \/ ExitFails(p) => Becomes(p, [proc[p] EXCEPT !.at = "aborted"])
           /\ Kill(p) => Becomes(p, [proc[p] EXCEPT !.at = "killed"])
           /\ RemoveTmp(p) => Becomes(p, [proc[p] EXCEPT !.at = "exit"])
           /\ CopyEnds(p) => Becomes(p, [proc[p] EXCEPT !.at = "remove", !.fd_tmp = 0])
           /\ ExitNicely(p) => Becomes(p, [proc[p] EXCEPT !.at = "exited", !.obuf = <<>>])
<1> DEFINE P == proc[p]
<1>1. P \in ProcType /\ <<>> \in Bytes /\ 0 \in Nat
      /\ {"exited", "aborted", "killed", "exit", "remove"} \subseteq Running \cup Ended
  BY EmptySeq DEF TypeInv, Bytes, Running, Ended
<1>2. \A c \in {E_CMDREQ, E_UNKNOWNCMD} :
        /\ [P EXCEPT !.at = "exited", !.code = c, !.told = TRUE] \in ProcType
        /\ [P EXCEPT !.at = "exited", !.code = c, !.told = TRUE].args = P.args
  BY <1>1, EndType DEF ProcType
<1>3. /\ [P EXCEPT !.at = "aborted", !.told = TRUE] \in ProcType
      /\ [P EXCEPT !.at = "aborted", !.told = TRUE].args = P.args
  BY <1>1, EndType DEF ProcType
<1>4. ASSUME NEW a \in {"aborted", "killed", "exit"}
      PROVE  [P EXCEPT !.at = a] \in ProcType /\ [P EXCEPT !.at = a].args = P.args
  <2>1. a \in Running \cup Ended
    BY <1>1
  <2>2. [P EXCEPT !.at = a] \in ProcType
    BY <1>1, <2>1, EndType
  <2>3. [P EXCEPT !.at = a].args = P.args
    BY <1>1 DEF ProcType
  <2> QED BY <2>2, <2>3
<1>5. /\ [P EXCEPT !.at = "remove", !.fd_tmp = 0] \in ProcType
      /\ [P EXCEPT !.at = "remove", !.fd_tmp = 0].args = P.args
  BY <1>1, OpenType DEF ProcType
<1>6. /\ [P EXCEPT !.at = "exited", !.obuf = <<>>] \in ProcType
      /\ [P EXCEPT !.at = "exited", !.obuf = <<>>].args = P.args
  <2>1. [P EXCEPT !.at = "exited", !.obuf = <<>>] \in ProcType
    BY <1>1, BufferType
  <2>2. [P EXCEPT !.at = "exited", !.obuf = <<>>].args = P.args
    BY <1>1 DEF ProcType
  <2> QED BY <2>1, <2>2
<1>7. CommandRequired(p) => Becomes(p, [P EXCEPT !.at = "exited", !.code = E_CMDREQ, !.told = TRUE])
  BY <1>2 DEF CommandRequired, Exits, Becomes
<1>8. UnknownCommand(p) => Becomes(p, [P EXCEPT !.at = "exited", !.code = E_UNKNOWNCMD, !.told = TRUE])
  BY <1>2 DEF UnknownCommand, Exits, Becomes
<1>9. AssertFails(p) => Becomes(p, [P EXCEPT !.at = "aborted", !.told = TRUE])
  BY <1>3 DEF AssertFails, Becomes
<1>10. NoOutput(p) \/ ExitFails(p) => Becomes(p, [P EXCEPT !.at = "aborted"])
  BY <1>4 DEF NoOutput, ExitFails, Becomes
<1>11. Kill(p) => Becomes(p, [P EXCEPT !.at = "killed"])
  BY <1>4 DEF Kill, Becomes
<1>12. RemoveTmp(p) => Becomes(p, [P EXCEPT !.at = "exit"])
  BY <1>4 DEF RemoveTmp, Becomes
<1>13. CopyEnds(p) => Becomes(p, [P EXCEPT !.at = "remove", !.fd_tmp = 0])
  BY <1>5 DEF CopyEnds, Becomes
<1>14. ExitNicely(p) => Becomes(p, [P EXCEPT !.at = "exited", !.obuf = <<>>])
  BY <1>6 DEF ExitNicely, Becomes
<1> QED BY <1>7, <1>8, <1>9, <1>10, <1>11, <1>12, <1>13, <1>14

LEMMA OpenInputBecomes ==
    ASSUME TypeInv, PlaceInv, NEW p \in Procs, OpenInput(p)
    PROVE  LET i == IF argc(p) > 2 THEN dir[proc[p].args[2]] ELSE 2 * p - 1
           IN  /\ i \in 0 .. Len(data)
               /\ Becomes(p, [proc[p] EXCEPT !.at = "outfile", !.fd_in = i])
<1> DEFINE i == IF argc(p) > 2 THEN dir[proc[p].args[2]] ELSE 2 * p - 1
<1>1. proc[p] \in ProcType /\ "outfile" \in Running \cup Ended
  BY DEF TypeInv, Running
<1>2. i \in 0 .. Len(data)
  <2>1. CASE argc(p) > 2
    <3>1. Len(proc[p].args) \in Nat /\ 2 \in 2 .. Len(proc[p].args)
      BY <1>1, <2>1, FieldTypes, LenProperties DEF argc
    <3>2. proc[p].args[2] \in Names
      BY <3>1 DEF PlaceInv, Place
    <3> QED BY <2>1, <3>2 DEF TypeInv
  <2>2. CASE ~(argc(p) > 2)
    <3>1. Len(data) \in Nat
      BY LenProperties DEF TypeInv
    <3> QED BY <2>2, <3>1, NumbersOfFiles DEF TypeInv
  <2> QED BY <2>1, <2>2
<1>3. proc' = [proc EXCEPT ![p] = [proc[p] EXCEPT !.at = "outfile", !.fd_in = i]]
  BY DEF OpenInput
<1> HIDE DEF i
<1>4. i \in Nat
  BY <1>2
<1>5. [proc[p] EXCEPT !.at = "outfile", !.fd_in = i] \in ProcType
  BY <1>1, <1>4, OpenType
<1>6. [proc[p] EXCEPT !.at = "outfile", !.fd_in = i].args = proc[p].args
  BY <1>1 DEF ProcType
<1> QED BY <1>2, <1>3, <1>5, <1>6 DEF Becomes, i

LEMMA OutputName ==
    ASSUME TypeInv, PlaceInv, NEW p \in Procs, argc(p) > 3
    PROVE  proc[p].args[3] \in Names
<1>1. Len(proc[p].args) \in Nat
  BY FieldTypes, LenProperties DEF TypeInv
<1>2. 3 \in 2 .. Len(proc[p].args)
  BY <1>1 DEF argc
<1> QED BY <1>2 DEF PlaceInv, Place

LEMMA OpenOutputBecomes ==
    ASSUME TypeInv, DirInv, PlaceInv, NEW p \in Procs, OpenOutput(p)
    PROVE  LET i == IF argc(p) > 3 THEN Opened(proc[p].args[3]) ELSE 2 * p
           IN  /\ i \in 0 .. Len(data') /\ Command(p) \in {"pack", "unpack"}
               /\ Becomes(p, [proc[p] EXCEPT !.at = Command(p), !.fd_out = i])
<1> DEFINE i == IF argc(p) > 3 THEN Opened(proc[p].args[3]) ELSE 2 * p
<1>1. proc[p] \in ProcType /\ Len(data) \in Nat
  BY LenProperties DEF TypeInv
<1>2. Command(p) \in {"pack", "unpack"} /\ {"pack", "unpack"} \subseteq Running \cup Ended
  BY DEF OpenOutput, PlaceInv, Place, Busy, Running
<1>3. i \in 0 .. Len(data')
  <2>1. CASE argc(p) > 3
    <3>1. proc[p].args[3] \in Names /\ FopenW(p, proc[p].args[3])
      BY <2>1, OutputName DEF OpenOutput
    <3>2. Opened(proc[p].args[3]) \in 0 .. Len(data) + 1
          /\ Len(data') = IF Opened(proc[p].args[3]) = Len(data) + 1 THEN Opened(proc[p].args[3]) ELSE Len(data)
      BY <3>1, FopenEffect
    <3> QED BY <1>1, <2>1, <3>2
  <2>2. CASE ~(argc(p) > 3)
    <3>1. data' = data
      BY <2>2 DEF OpenOutput
    <3> QED BY <1>1, <2>2, <3>1, NumbersOfFiles DEF TypeInv
  <2> QED BY <2>1, <2>2
<1>4. proc' = [proc EXCEPT ![p] = [proc[p] EXCEPT !.at = Command(p), !.fd_out = i]]
  BY DEF OpenOutput
<1> HIDE DEF i
<1>5. i \in Nat /\ Command(p) \in Running \cup Ended
  BY <1>2, <1>3
<1>6. [proc[p] EXCEPT !.at = Command(p), !.fd_out = i] \in ProcType
  BY <1>1, <1>5, OpenType
<1>7. [proc[p] EXCEPT !.at = Command(p), !.fd_out = i].args = proc[p].args
  BY <1>1 DEF ProcType
<1> QED BY <1>2, <1>3, <1>4, <1>6, <1>7 DEF Becomes, i

LEMMA OpenTmpBecomes ==
    ASSUME TypeInv, DirInv, NEW p \in Procs, OpenTmp(p)
    PROVE  /\ Opened(tmpfile) \in 0 .. Len(data')
           /\ Becomes(p, [proc[p] EXCEPT !.at = "encode", !.fd_tmp = Opened(tmpfile)])
<1> DEFINE i == Opened(tmpfile)
<1>1. proc[p] \in ProcType /\ Len(data) \in Nat /\ "encode" \in Running \cup Ended
  BY LenProperties DEF TypeInv, Running
<1>2. tmpfile \in Names /\ FopenW(p, tmpfile)
  BY RkaAssumption DEF OpenTmp
<1>3. i \in 0 .. Len(data')
  BY <1>1, <1>2, FopenEffect
<1>4. proc' = [proc EXCEPT ![p] = [proc[p] EXCEPT !.at = "encode", !.fd_tmp = i]]
  BY DEF OpenTmp
<1> HIDE DEF i
<1>5. i \in Nat
  BY <1>3
<1>6. [proc[p] EXCEPT !.at = "encode", !.fd_tmp = i] \in ProcType
  BY <1>1, <1>5, OpenType
<1>7. [proc[p] EXCEPT !.at = "encode", !.fd_tmp = i].args = proc[p].args
  BY <1>1 DEF ProcType
<1> QED BY <1>3, <1>4, <1>6, <1>7 DEF Becomes, i

LEMMA RefillBecomes ==
    ASSUME TypeInv, NEW p \in Procs, Refill(p)
    PROVE  LET b == FirstOf(Rest(data[Reading(p)], proc[p].rpos), BUF)
           IN  /\ b \in Bytes /\ Len(b) <= BUF
               /\ Becomes(p, [proc[p] EXCEPT !.ibuf = b, !.rpos = proc[p].rpos + Len(b), !.eof = (b = <<>>)])
<1> DEFINE b == FirstOf(Rest(data[Reading(p)], proc[p].rpos), BUF)
<1>1. proc[p] \in ProcType /\ Len(data) \in Nat /\ BUF \in Nat
  BY LenProperties, RkaAssumption DEF TypeInv
<1>2. proc[p].rpos \in Nat /\ proc[p].fd_tmp \in Nat /\ proc[p].fd_in \in Nat
  BY <1>1, FieldTypes
<1>3. Reading(p) \in 1 .. Len(data)
  BY <1>1, <1>2 DEF Refill, Reading, TypeInv
<1>4. data[Reading(p)] \in Bytes
  BY <1>3, ElementOfSeq DEF TypeInv
<1>5. Rest(data[Reading(p)], proc[p].rpos) \in Bytes
  BY <1>2, <1>4, RestType
<1>6. b \in Bytes /\ Len(b) = IF Len(Rest(data[Reading(p)], proc[p].rpos)) < BUF
                              THEN Len(Rest(data[Reading(p)], proc[p].rpos)) ELSE BUF
  BY <1>1, <1>5, FirstOfType
<1>7. proc' = [proc EXCEPT ![p] = [proc[p] EXCEPT !.ibuf = b, !.rpos = proc[p].rpos + Len(b), !.eof = (b = <<>>)]]
  BY DEF Refill
<1>8. Len(b) \in Nat /\ Len(b) <= BUF
  BY <1>1, <1>5, <1>6, LenProperties DEF Bytes
<1> HIDE DEF b
<1>9. proc[p].rpos + Len(b) \in Nat /\ (b = <<>>) \in BOOLEAN
  BY <1>2, <1>8
<1>10. "exited" \in Running \cup Ended
  BY DEF Ended
<1>11. [proc[p] EXCEPT !.ibuf = b, !.rpos = proc[p].rpos + Len(b), !.eof = (b = <<>>)] \in ProcType
  <2>1. PICK n \in Nat : n = proc[p].rpos + Len(b)
    BY <1>9
  <2>2. PICK e \in BOOLEAN : e = (b = <<>>)
    BY <1>9
  <2>3. [proc[p] EXCEPT !.ibuf = b, !.rpos = n, !.eof = e] \in ProcType
    BY <1>1, <1>6, <1>10, BufferType
  <2> QED BY <2>1, <2>2, <2>3
<1>12. [proc[p] EXCEPT !.ibuf = b, !.rpos = proc[p].rpos + Len(b), !.eof = (b = <<>>)].args = proc[p].args
  BY <1>1 DEF ProcType
<1> QED BY <1>6, <1>7, <1>8, <1>11, <1>12 DEF Becomes, b

(* HasRoom bounds what is added to the output buffer.                      *)
LEMMA BufferRoom ==
    ASSUME TypeInv, NEW p \in Procs, NEW b \in Bytes
    PROVE  /\ proc[p].obuf \o b \in Bytes
           /\ Len(proc[p].obuf \o b) = Len(proc[p].obuf) + Len(b)
           /\ HasRoom(p) => Len(proc[p].obuf \o b) <= BUF + Len(b)
<1>1. proc[p].obuf \in Bytes
  BY FieldTypes DEF TypeInv
<1>2. \A s, t \in Bytes : s \o t \in Bytes /\ Len(s \o t) = Len(s) + Len(t)
  BY ConcatProperties DEF Bytes
<1>3. Len(proc[p].obuf) \in Nat /\ Len(b) \in Nat /\ BUF \in Nat
  BY <1>1, LenProperties, RkaAssumption DEF Bytes
<1>4. PICK o \in Bytes : o = proc[p].obuf
  BY <1>1
<1>5. o \o b \in Bytes /\ Len(o \o b) = Len(o) + Len(b)
  BY <1>2, Zenon
<1> QED BY <1>3, <1>4, <1>5 DEF HasRoom

LEMMA WriteOutBecomes ==
    ASSUME TypeInv, PlaceInv, NEW p \in Procs, WriteOut(p)
    PROVE  /\ Writing(p) \in 1 .. Len(data) /\ FirstOf(proc[p].obuf, BUF) \in Bytes
           /\ Len(FirstOf(proc[p].obuf, BUF)) = BUF
           /\ Rest(proc[p].obuf, BUF) \in Bytes /\ Len(Rest(proc[p].obuf, BUF)) <= 2 * BUF + 1
           /\ Becomes(p, [proc[p] EXCEPT !.wpos = proc[p].wpos + BUF, !.obuf = Rest(proc[p].obuf, BUF)])
<1> DEFINE o == proc[p].obuf
<1>1. proc[p] \in ProcType /\ Len(data) \in Nat /\ BUF \in Nat
  BY LenProperties, RkaAssumption DEF TypeInv
<1>2. o \in Bytes /\ proc[p].wpos \in Nat /\ proc[p].fd_tmp \in Nat /\ proc[p].fd_out \in Nat
  BY <1>1, FieldTypes
<1>3. Len(o) \in Nat /\ Len(o) > BUF /\ Len(o) <= 2 * BUF + 1
  BY <1>1, <1>2, LenProperties DEF WriteOut, HasRoom, Bytes, TypeInv
<1>4. o # <<>>
  BY <1>1, <1>2, <1>3, EmptySeq DEF Bytes
<1>5. Writing(p) # 0
  BY <1>4 DEF PlaceInv, Place, WriteOut
<1>6. Writing(p) \in 1 .. Len(data)
  BY <1>1, <1>2, <1>5 DEF Writing, TypeInv
<1>7. /\ FirstOf(o, BUF) \in Bytes /\ Len(FirstOf(o, BUF)) = IF Len(o) < BUF THEN Len(o) ELSE BUF
      /\ Rest(o, BUF) \in Bytes /\ Len(Rest(o, BUF)) = IF BUF < Len(o) THEN Len(o) - BUF ELSE 0
  <2> HIDE DEF o
  <2> QED BY <1>1, <1>2, FirstOfType, RestType
<1>8. proc' = [proc EXCEPT ![p] = [proc[p] EXCEPT !.wpos = proc[p].wpos + BUF, !.obuf = Rest(o, BUF)]]
  BY DEF WriteOut
<1>9. "exited" \in Running \cup Ended /\ <<>> \in Bytes
  BY EmptySeq DEF Ended, Bytes
<1>10. [proc[p] EXCEPT !.wpos = proc[p].wpos + BUF, !.obuf = Rest(o, BUF)] \in ProcType
  <2>1. PICK n \in Nat : n = proc[p].wpos + BUF
    BY <1>1, <1>2
  <2>2. PICK r \in Bytes : r = Rest(o, BUF)
    BY <1>7
  <2>3. [proc[p] EXCEPT !.wpos = n, !.obuf = r] \in ProcType
    BY <1>1, <1>9, BufferType
  <2> QED BY <2>1, <2>2, <2>3
<1>11. [proc[p] EXCEPT !.wpos = proc[p].wpos + BUF, !.obuf = Rest(o, BUF)].args = proc[p].args
  BY <1>1 DEF ProcType
<1>12. Len(FirstOf(o, BUF)) = BUF /\ Len(Rest(o, BUF)) <= 2 * BUF + 1
  <2> HIDE DEF o
  <2> QED BY <1>1, <1>3, <1>7
<1>13. Becomes(p, [proc[p] EXCEPT !.wpos = proc[p].wpos + BUF, !.obuf = Rest(o, BUF)])
  BY <1>8, <1>10, <1>11 DEF Becomes
<1> HIDE DEF o
<1>14. /\ Writing(p) \in 1 .. Len(data) /\ FirstOf(o, BUF) \in Bytes
       /\ Len(FirstOf(o, BUF)) = BUF
       /\ Rest(o, BUF) \in Bytes /\ Len(Rest(o, BUF)) <= 2 * BUF + 1
  BY <1>6, <1>7, <1>12
<1> QED BY <1>13, <1>14 DEF o

LEMMA EncodeByteBecomes ==
    ASSUME TypeInv, NEW p \in Procs, EncodeByte(p)
    PROVE  LET c == Head(proc[p].ibuf)
           IN  /\ c \in Byte /\ EncodedChar(c) \in Bytes /\ Tail(proc[p].ibuf) \in Bytes
               /\ Len(proc[p].ibuf) \in Nat \ {0} /\ Len(Tail(proc[p].ibuf)) = Len(proc[p].ibuf) - 1
               /\ proc[p].obuf \o EncodedChar(c) \in Bytes
               /\ Len(proc[p].obuf \o EncodedChar(c)) <= 2 * BUF + 1
               /\ Becomes(p, [proc[p] EXCEPT !.ibuf = Tail(proc[p].ibuf), !.obuf = proc[p].obuf \o EncodedChar(c)])
<1> DEFINE c == Head(proc[p].ibuf)
           i == Tail(proc[p].ibuf)
           o == proc[p].obuf \o EncodedChar(c)
<1>1. proc[p] \in ProcType /\ BUF \in Nat
  BY RkaAssumption DEF TypeInv
<1>2. proc[p].ibuf \in Bytes /\ proc[p].obuf \in Bytes /\ proc[p].ibuf # <<>>
  BY <1>1, FieldTypes DEF EncodeByte
<1>3. c \in Byte /\ i \in Bytes /\ Len(proc[p].ibuf) \in Nat \ {0} /\ Len(i) = Len(proc[p].ibuf) - 1
  <2>1. \A s \in Bytes : s # <<>> => /\ Head(s) \in Byte /\ Tail(s) \in Bytes
                                     /\ Len(s) \in Nat \ {0} /\ Len(Tail(s)) = Len(s) - 1
    BY HeadTailProperties, LenProperties, EmptySeq DEF Bytes
  <2> QED BY <1>2, <2>1
<1>4. proc' = [proc EXCEPT ![p] = [proc[p] EXCEPT !.ibuf = i, !.obuf = o]]
  BY DEF EncodeByte
<1>5. EncodedChar(c) \in Bytes /\ Len(EncodedChar(c)) <= 1 /\ Len(EncodedChar(c)) \in Nat
  BY <1>3, EncodedCharType, LenProperties DEF Bytes
<1>6. o \in Bytes /\ Len(o) <= BUF + Len(EncodedChar(c))
  BY <1>5, BufferRoom DEF EncodeByte
<1>7. Len(o) <= 2 * BUF + 1
  <2>1. Len(o) \in Nat
    BY <1>6, LenProperties DEF Bytes
  <2> HIDE DEF o
  <2> QED BY <1>1, <1>5, <1>6, <2>1
<1>8. "exited" \in Running \cup Ended
  BY DEF Ended
<1> HIDE DEF i, o, c
<1>9. [proc[p] EXCEPT !.ibuf = i, !.obuf = o] \in ProcType
  BY <1>1, <1>3, <1>6, <1>8, BufferType
<1>10. [proc[p] EXCEPT !.ibuf = i, !.obuf = o].args = proc[p].args
  BY <1>1 DEF ProcType
<1>11. Becomes(p, [proc[p] EXCEPT !.ibuf = i, !.obuf = o])
  BY <1>4, <1>9, <1>10 DEF Becomes
<1> QED BY <1>3, <1>5, <1>6, <1>7, <1>11 DEF i, o, c

LEMMA RewindBecomes ==
    ASSUME TypeInv, PlaceInv, NEW p \in Procs, Rewind(p)
    PROVE  /\ proc[p].fd_tmp \in 1 .. Len(data)
           /\ Becomes(p, [proc[p] EXCEPT !.at = "copy", !.obuf = <<>>, !.eof = FALSE, !.rpos = 0, !.wpos = 0])
<1>1. proc[p] \in ProcType /\ "copy" \in Running \cup Ended /\ <<>> \in Bytes /\ Len(data) \in Nat
  BY EmptySeq, LenProperties DEF TypeInv, Running, Bytes
<1>2. proc[p].fd_tmp # 0
  BY DEF Rewind, PlaceInv, Place, Writing
<1>3. proc[p].fd_tmp \in 1 .. Len(data)
  BY <1>1, <1>2, FieldTypes DEF TypeInv
<1>4. proc' = [proc EXCEPT ![p] = [proc[p] EXCEPT !.at = "copy", !.obuf = <<>>, !.eof = FALSE, !.rpos = 0, !.wpos = 0]]
  BY DEF Rewind
<1>5. [proc[p] EXCEPT !.at = "copy", !.obuf = <<>>, !.eof = FALSE, !.rpos = 0, !.wpos = 0] \in ProcType
  BY <1>1, BufferType
<1>6. [proc[p] EXCEPT !.at = "copy", !.obuf = <<>>, !.eof = FALSE, !.rpos = 0, !.wpos = 0].args = proc[p].args
  BY <1>1 DEF ProcType
<1> QED BY <1>3, <1>4, <1>5, <1>6 DEF Becomes

LEMMA CopyBlockBecomes ==
    ASSUME TypeInv, NEW p \in Procs, CopyBlock(p)
    PROVE  LET o == proc[p].obuf \o proc[p].ibuf
           IN  /\ o \in Bytes /\ Len(o) <= 2 * BUF + 1
               /\ Becomes(p, [proc[p] EXCEPT !.ibuf = <<>>, !.obuf = o])
<1> DEFINE o == proc[p].obuf \o proc[p].ibuf
<1>1. proc[p] \in ProcType /\ BUF \in Nat /\ <<>> \in Bytes /\ "exited" \in Running \cup Ended
  BY RkaAssumption, EmptySeq DEF TypeInv, Bytes, Ended
<1>2. proc[p].ibuf \in Bytes /\ Len(proc[p].ibuf) \in Nat /\ Len(proc[p].ibuf) <= BUF
  BY <1>1, FieldTypes, LenProperties DEF TypeInv, Bytes
<1>3. o \in Bytes /\ Len(o) <= BUF + Len(proc[p].ibuf)
  BY <1>2, BufferRoom DEF CopyBlock
<1>4. proc' = [proc EXCEPT ![p] = [proc[p] EXCEPT !.ibuf = <<>>, !.obuf = o]]
  BY DEF CopyBlock
<1> HIDE DEF o
<1>5. Len(o) <= 2 * BUF + 1
  BY <1>1, <1>2, <1>3, LenProperties DEF Bytes
<1>6. [proc[p] EXCEPT !.ibuf = <<>>, !.obuf = o] \in ProcType
  BY <1>1, <1>3, BufferType
<1>7. [proc[p] EXCEPT !.ibuf = <<>>, !.obuf = o].args = proc[p].args
  BY <1>1 DEF ProcType
<1> QED BY <1>3, <1>4, <1>5, <1>6, <1>7 DEF Becomes, o

LEMMA NextPartType ==
    ASSUME NEW part \in Parts \ {"binary", "end"}, NEW count \in Nat, NEW c \in Byte
    PROVE  LET u == NextPart(At(part, count), c)
           IN  /\ u.part \in Parts /\ u.count \in Nat
               /\ part = "body" /\ u.part = "body" => c \in 0 .. 254
<1> DEFINE v == At(part, count)
           u == NextPart(v, c)
<1>0. \A a, b : At(a, b).part = a /\ At(a, b).count = b
  BY DEF At
<1>1. v.part = part /\ v.count = count
  BY <1>0
<1> SUFFICES u.part \in Parts /\ u.count \in Nat /\ (part = "body" /\ u.part = "body" => c \in 0 .. 254)
  OBVIOUS
<1> HIDE DEF v, u
<1>2. CASE part \in {"header", "address"}
  <2>1. u = Marks(v, c)
    BY <1>1, <1>2 DEF NextPart, u
  <2> QED BY <1>0, <1>1, <1>2, <2>1 DEF Marks, Parts
<1>3. CASE part = "name"
  <2>1. u = Name(v, c)
    BY <1>1, <1>3 DEF NextPart, u
  <2> QED BY <1>0, <1>1, <1>3, <2>1 DEF Name, Parts
<1>4. CASE part = "padding"
  <2>1. u = Zeros(v, c)
    BY <1>1, <1>4 DEF NextPart, u
  <2> QED BY <1>0, <1>1, <1>4, <2>1 DEF Zeros, Parts
<1>5. CASE part = "service"
  <2>1. u = Service(v, c)
    BY <1>1, <1>5 DEF NextPart, u
  <2> QED BY <1>0, <1>1, <1>5, <2>1 DEF Service, Parts
<1>6. CASE part = "body"
  <2>1. u = Body(v, c)
    BY <1>1, <1>6 DEF NextPart, u
  <2> QED BY <1>0, <1>1, <1>6, <2>1 DEF Body, Parts, Byte, END_OF_BODY
<1> QED BY <1>2, <1>3, <1>4, <1>5, <1>6 DEF Parts

(* The character that unpack takes and what it does to p.                  *)
CharTaken(p) == IF proc[p].eof THEN 255 ELSE Head(proc[p].ibuf)
PartAfter(p) == NextPart(At(proc[p].part, proc[p].count), CharTaken(p))
OutAfter(p) == IF proc[p].part = "body" /\ PartAfter(p).part = "body"
               THEN proc[p].obuf \o DecodedChar(CharTaken(p)) ELSE proc[p].obuf
InAfter(p) == IF proc[p].ibuf = <<>> THEN proc[p].ibuf ELSE Tail(proc[p].ibuf)
AtAfter(p) == IF PartAfter(p).part \in {"binary", "end"} THEN "exit" ELSE proc[p].at

LEMMA UnpackCharBecomes ==
    ASSUME TypeInv, PlaceInv, NEW p \in Procs, UnpackChar(p)
    PROVE  /\ CharTaken(p) \in Byte /\ OutAfter(p) \in Bytes /\ Len(OutAfter(p)) <= 2 * BUF + 1
           /\ proc[p].part = "body" /\ PartAfter(p).part = "body" => CharTaken(p) \in 0 .. 254
           /\ InAfter(p) \in Bytes /\ Len(InAfter(p)) = IF proc[p].ibuf = <<>> THEN 0 ELSE Len(proc[p].ibuf) - 1
           /\ Len(InAfter(p)) <= BUF
           /\ Becomes(p, [proc[p] EXCEPT
                !.ibuf = InAfter(p), !.obuf = OutAfter(p), !.part = PartAfter(p).part,
                !.count = PartAfter(p).count, !.told = (proc[p].told \/ PartAfter(p).part = "binary"),
                !.at = AtAfter(p)])
<1>1. proc[p] \in ProcType /\ BUF \in Nat \ {0}
  BY RkaAssumption DEF TypeInv
<1>2. /\ proc[p].ibuf \in Bytes /\ proc[p].obuf \in Bytes /\ Len(proc[p].ibuf) <= BUF /\ Len(proc[p].obuf) <= BUF
      /\ proc[p].part \in Parts \ {"binary", "end"} /\ proc[p].count \in Nat
      /\ proc[p].eof \/ proc[p].ibuf # <<>>
  <2>1. /\ proc[p].ibuf \in Bytes /\ proc[p].obuf \in Bytes
        /\ proc[p].part \in Parts /\ proc[p].count \in Nat
    BY <1>1, FieldTypes
  <2>2. proc[p].part \notin {"binary", "end"}
    BY DEF UnpackChar, PlaceInv, Place
  <2>3. Len(proc[p].ibuf) <= BUF /\ Len(proc[p].obuf) <= BUF /\ (proc[p].eof \/ proc[p].ibuf # <<>>)
    BY DEF UnpackChar, HasRoom, TypeInv
  <2> QED BY <2>1, <2>2, <2>3
<1>3. \A s \in Bytes : s # <<>> => /\ Head(s) \in Byte /\ Tail(s) \in Bytes
                                   /\ Len(s) \in Nat \ {0} /\ Len(Tail(s)) = Len(s) - 1
  BY HeadTailProperties, LenProperties, EmptySeq DEF Bytes
<1>4. CharTaken(p) \in Byte
  BY <1>2, <1>3, SMTT(30) DEF CharTaken, Byte
<1>5. Len(<<>>) = 0
  BY EmptySeq
<1>6. InAfter(p) \in Bytes /\ Len(InAfter(p)) = IF proc[p].ibuf = <<>> THEN 0 ELSE Len(proc[p].ibuf) - 1
  BY <1>2, <1>3, <1>5 DEF InAfter
<1>7. Len(InAfter(p)) <= BUF
  BY <1>1, <1>2, <1>3, <1>6
<1>8. /\ PartAfter(p).part \in Parts /\ PartAfter(p).count \in Nat
      /\ proc[p].part = "body" /\ PartAfter(p).part = "body" => CharTaken(p) \in 0 .. 254
  BY <1>2, <1>4, NextPartType DEF PartAfter
<1>9. OutAfter(p) \in Bytes /\ Len(OutAfter(p)) <= 2 * BUF + 1
  <2>1. CASE proc[p].part = "body" /\ PartAfter(p).part = "body"
    <3>1. OutAfter(p) = proc[p].obuf \o DecodedChar(CharTaken(p))
      BY <2>1 DEF OutAfter
    <3>2. DecodedChar(CharTaken(p)) \in Bytes /\ Len(DecodedChar(CharTaken(p))) \in 1 .. 2
      BY <1>8, <2>1, DecodedCharType
    <3>3. OutAfter(p) \in Bytes /\ Len(OutAfter(p)) <= BUF + Len(DecodedChar(CharTaken(p)))
      BY <3>1, <3>2, BufferRoom DEF UnpackChar
    <3>4. Len(OutAfter(p)) \in Nat
      BY <3>3, LenProperties DEF Bytes
    <3>5. PICK n \in 1 .. 2 : n = Len(DecodedChar(CharTaken(p)))
      BY <3>2
    <3>6. PICK m \in Nat : m = Len(OutAfter(p))
      BY <3>4
    <3>7. m <= BUF + n
      BY <3>3, <3>5, <3>6
    <3>8. m <= 2 * BUF + 1
      BY <1>1, <3>7
    <3> QED BY <3>3, <3>6, <3>8
  <2>2. CASE ~(proc[p].part = "body" /\ PartAfter(p).part = "body")
    <3>1. OutAfter(p) = proc[p].obuf /\ Len(proc[p].obuf) \in Nat
      BY <1>2, <2>2, LenProperties DEF OutAfter, Bytes
    <3> QED BY <1>1, <1>2, <3>1
  <2> QED BY <2>1, <2>2
<1>10. AtAfter(p) \in Running \cup Ended
  BY DEF AtAfter, UnpackChar, Running
<1>11. proc' = [proc EXCEPT ![p] = [proc[p] EXCEPT
                !.ibuf = InAfter(p), !.obuf = OutAfter(p), !.part = PartAfter(p).part,
                !.count = PartAfter(p).count, !.told = (proc[p].told \/ PartAfter(p).part = "binary"),
                !.at = AtAfter(p)]]
  <2>1. proc' = [proc EXCEPT
                      ![p].ibuf = InAfter(p), ![p].obuf = OutAfter(p), ![p].part = PartAfter(p).part,
                      ![p].count = PartAfter(p).count,
                      ![p].told = (proc[p].told \/ PartAfter(p).part = "binary"),
                      ![p].at = AtAfter(p)]
    BY Zenon DEF UnpackChar, InAfter, OutAfter, PartAfter, CharTaken, AtAfter
  <2> QED BY <2>1
<1>12. (proc[p].told \/ PartAfter(p).part = "binary") \in BOOLEAN
  OBVIOUS
<1>13. [proc[p] EXCEPT
                !.ibuf = InAfter(p), !.obuf = OutAfter(p), !.part = PartAfter(p).part,
                !.count = PartAfter(p).count, !.told = (proc[p].told \/ PartAfter(p).part = "binary"),
                !.at = AtAfter(p)] \in ProcType
  <2>1. PICK b \in BOOLEAN : b = (proc[p].told \/ PartAfter(p).part = "binary")
    BY <1>12
  <2>2. [proc[p] EXCEPT
                !.ibuf = InAfter(p), !.obuf = OutAfter(p), !.part = PartAfter(p).part,
                !.count = PartAfter(p).count, !.told = b, !.at = AtAfter(p)] \in ProcType
    BY <1>1, <1>6, <1>8, <1>9, <1>10, UnpackType
  <2> QED BY <2>1, <2>2
<1>14. [proc[p] EXCEPT
                !.ibuf = InAfter(p), !.obuf = OutAfter(p), !.part = PartAfter(p).part,
                !.count = PartAfter(p).count, !.told = (proc[p].told \/ PartAfter(p).part = "binary"),
                !.at = AtAfter(p)].args = proc[p].args
  BY <1>1 DEF ProcType
<1>15. Becomes(p, [proc[p] EXCEPT
                !.ibuf = InAfter(p), !.obuf = OutAfter(p), !.part = PartAfter(p).part,
                !.count = PartAfter(p).count, !.told = (proc[p].told \/ PartAfter(p).part = "binary"),
                !.at = AtAfter(p)])
  BY <1>11, <1>13, <1>14 DEF Becomes
<1> QED BY <1>4, <1>6, <1>7, <1>8, <1>9, <1>15

LEMMA StepMoves ==
    ASSUME TypeInv, DirInv, PlaceInv, NEW p \in Procs, Step(p) \/ Kill(p)
    PROVE  /\ proc' \in [Procs -> ProcType] /\ proc'[p].args = proc[p].args
           /\ \A q \in Procs \ {p} : proc'[q] = proc[q]
<1> DEFINE Some == \E r : Becomes(p, r)
<1>1. CommandRequired(p) \/ UnknownCommand(p) \/ AssertFails(p) \/ NoOutput(p) \/ ExitFails(p)
      \/ Kill(p) \/ RemoveTmp(p) \/ CopyEnds(p) \/ ExitNicely(p) => Some
  BY EndsBecome
<1>2. OpenInput(p) \/ OpenOutput(p) \/ OpenTmp(p) => Some
  BY OpenInputBecomes, OpenOutputBecomes, OpenTmpBecomes
<1>3. Refill(p) \/ WriteOut(p) => Some
  BY RefillBecomes, WriteOutBecomes
<1>4. EncodeByte(p) \/ Rewind(p) \/ CopyBlock(p) \/ UnpackChar(p) => Some
  BY EncodeByteBecomes, RewindBecomes, CopyBlockBecomes, UnpackCharBecomes
<1>5. Some
  <2> HIDE DEF Some
  <2> QED BY <1>1, <1>2, <1>3, <1>4 DEF Step
<1> QED BY <1>5, BecomesEffect

(* What a step leaves of a process.                                        *)
SameFiles(p) ==
    proc'[p].fd_in = proc[p].fd_in /\ proc'[p].fd_out = proc[p].fd_out /\ proc'[p].fd_tmp = proc[p].fd_tmp

SameInput(p) == proc'[p].rpos = proc[p].rpos /\ proc'[p].ibuf = proc[p].ibuf /\ proc'[p].eof = proc[p].eof

SameOutput(p) == proc'[p].wpos = proc[p].wpos /\ proc'[p].obuf = proc[p].obuf

SamePart(p) == proc'[p].part = proc[p].part /\ proc'[p].count = proc[p].count

EndsAt(p, a) == proc'[p].at = a /\ SameFiles(p) /\ SameInput(p) /\ SameOutput(p) /\ SamePart(p)

LEMMA EndEffects ==
    ASSUME TypeInv, NEW p \in Procs
    PROVE  /\ CommandRequired(p) \/ UnknownCommand(p) => EndsAt(p, "exited")
           /\ AssertFails(p) \/ NoOutput(p) \/ ExitFails(p) => EndsAt(p, "aborted")
           /\ Kill(p) => EndsAt(p, "killed")
           /\ RemoveTmp(p) => EndsAt(p, "exit")
           /\ CopyEnds(p) => /\ proc'[p].at = "remove" /\ proc'[p].fd_tmp = 0
                             /\ proc'[p].fd_in = proc[p].fd_in /\ proc'[p].fd_out = proc[p].fd_out
                             /\ SameInput(p) /\ SameOutput(p) /\ SamePart(p)
           /\ ExitNicely(p) => /\ proc'[p].at = "exited" /\ proc'[p].obuf = <<>> /\ proc'[p].wpos = proc[p].wpos
                               /\ SameFiles(p) /\ SameInput(p) /\ SamePart(p)
<1>1. proc[p] \in ProcType
  BY DEF TypeInv
<1>2. ASSUME NEW a, Becomes(p, [proc[p] EXCEPT !.at = a]) PROVE EndsAt(p, a)
  <2>1. proc'[p] = [proc[p] EXCEPT !.at = a]
    BY <1>2, BecomesEffect
  <2> QED BY <1>1, <2>1 DEF ProcType, EndsAt, SameFiles, SameInput, SameOutput, SamePart
<1>3. ASSUME NEW a, Becomes(p, [proc[p] EXCEPT !.at = a, !.told = TRUE]) PROVE EndsAt(p, a)
  <2>1. proc'[p] = [proc[p] EXCEPT !.at = a, !.told = TRUE]
    BY <1>3, BecomesEffect
  <2> QED BY <1>1, <2>1 DEF ProcType, EndsAt, SameFiles, SameInput, SameOutput, SamePart
<1>4. ASSUME NEW a, NEW c, Becomes(p, [proc[p] EXCEPT !.at = a, !.code = c, !.told = TRUE]) PROVE EndsAt(p, a)
  <2>1. proc'[p] = [proc[p] EXCEPT !.at = a, !.code = c, !.told = TRUE]
    BY <1>4, BecomesEffect
  <2> QED BY <1>1, <2>1 DEF ProcType, EndsAt, SameFiles, SameInput, SameOutput, SamePart
<1>5. CopyEnds(p) => /\ proc'[p].at = "remove" /\ proc'[p].fd_tmp = 0
                     /\ proc'[p].fd_in = proc[p].fd_in /\ proc'[p].fd_out = proc[p].fd_out
                     /\ SameInput(p) /\ SameOutput(p) /\ SamePart(p)
  <2> SUFFICES ASSUME CopyEnds(p)
               PROVE  /\ proc'[p].at = "remove" /\ proc'[p].fd_tmp = 0
                      /\ proc'[p].fd_in = proc[p].fd_in /\ proc'[p].fd_out = proc[p].fd_out
                      /\ SameInput(p) /\ SameOutput(p) /\ SamePart(p)
    OBVIOUS
  <2>1. proc'[p] = [proc[p] EXCEPT !.at = "remove", !.fd_tmp = 0]
    BY EndsBecome, BecomesEffect
  <2> QED BY <1>1, <2>1 DEF ProcType, SameInput, SameOutput, SamePart
<1>6. ExitNicely(p) => /\ proc'[p].at = "exited" /\ proc'[p].obuf = <<>> /\ proc'[p].wpos = proc[p].wpos
                       /\ SameFiles(p) /\ SameInput(p) /\ SamePart(p)
  <2> SUFFICES ASSUME ExitNicely(p)
               PROVE  /\ proc'[p].at = "exited" /\ proc'[p].obuf = <<>> /\ proc'[p].wpos = proc[p].wpos
                      /\ SameFiles(p) /\ SameInput(p) /\ SamePart(p)
    OBVIOUS
  <2>1. proc'[p] = [proc[p] EXCEPT !.at = "exited", !.obuf = <<>>]
    BY EndsBecome, BecomesEffect
  <2> QED BY <1>1, <2>1 DEF ProcType, SameFiles, SameInput, SamePart
<1> QED BY <1>2, <1>3, <1>4, <1>5, <1>6, EndsBecome

LEMMA OpenEffects ==
    ASSUME TypeInv, DirInv, PlaceInv, NEW p \in Procs
    PROVE  /\ OpenInput(p) =>
                /\ proc'[p].at = "outfile" /\ proc'[p].fd_out = proc[p].fd_out /\ proc'[p].fd_tmp = proc[p].fd_tmp
                /\ proc'[p].fd_in = IF argc(p) > 2 THEN dir[proc[p].args[2]] ELSE 2 * p - 1
                /\ SameInput(p) /\ SameOutput(p) /\ SamePart(p)
           /\ OpenOutput(p) =>
                /\ proc'[p].at = Command(p) /\ proc'[p].fd_in = proc[p].fd_in /\ proc'[p].fd_tmp = proc[p].fd_tmp
                /\ proc'[p].fd_out = IF argc(p) > 3 THEN Opened(proc[p].args[3]) ELSE 2 * p
                /\ SameInput(p) /\ SameOutput(p) /\ SamePart(p)
           /\ OpenTmp(p) =>
                /\ proc'[p].at = "encode" /\ proc'[p].fd_in = proc[p].fd_in /\ proc'[p].fd_out = proc[p].fd_out
                /\ proc'[p].fd_tmp = Opened(tmpfile)
                /\ SameInput(p) /\ SameOutput(p) /\ SamePart(p)
<1>1. proc[p] \in ProcType
  BY DEF TypeInv
<1>2. ASSUME NEW f, Becomes(p, [proc[p] EXCEPT !.at = "outfile", !.fd_in = f])
      PROVE  /\ proc'[p].at = "outfile" /\ proc'[p].fd_out = proc[p].fd_out /\ proc'[p].fd_tmp = proc[p].fd_tmp
             /\ proc'[p].fd_in = f
             /\ SameInput(p) /\ SameOutput(p) /\ SamePart(p)
  <2>1. proc'[p] = [proc[p] EXCEPT !.at = "outfile", !.fd_in = f]
    BY <1>2, BecomesEffect
  <2> QED BY <1>1, <2>1 DEF ProcType, SameInput, SameOutput, SamePart
<1>3. ASSUME NEW a, NEW f, Becomes(p, [proc[p] EXCEPT !.at = a, !.fd_out = f])
      PROVE  /\ proc'[p].at = a /\ proc'[p].fd_in = proc[p].fd_in /\ proc'[p].fd_tmp = proc[p].fd_tmp
             /\ proc'[p].fd_out = f
             /\ SameInput(p) /\ SameOutput(p) /\ SamePart(p)
  <2>1. proc'[p] = [proc[p] EXCEPT !.at = a, !.fd_out = f]
    BY <1>3, BecomesEffect
  <2> QED BY <1>1, <2>1 DEF ProcType, SameInput, SameOutput, SamePart
<1>4. ASSUME NEW f, Becomes(p, [proc[p] EXCEPT !.at = "encode", !.fd_tmp = f])
      PROVE  /\ proc'[p].at = "encode" /\ proc'[p].fd_in = proc[p].fd_in /\ proc'[p].fd_out = proc[p].fd_out
             /\ proc'[p].fd_tmp = f
             /\ SameInput(p) /\ SameOutput(p) /\ SamePart(p)
  <2>1. proc'[p] = [proc[p] EXCEPT !.at = "encode", !.fd_tmp = f]
    BY <1>4, BecomesEffect
  <2> QED BY <1>1, <2>1 DEF ProcType, SameInput, SameOutput, SamePart
<1> QED BY <1>2, <1>3, <1>4, OpenInputBecomes, OpenOutputBecomes, OpenTmpBecomes

LEMMA BufferEffects ==
    ASSUME TypeInv, PlaceInv, NEW p \in Procs
    PROVE  /\ Refill(p) =>
                /\ proc'[p].at = proc[p].at /\ SameFiles(p) /\ SameOutput(p) /\ SamePart(p)
                /\ LET b == FirstOf(Rest(data[Reading(p)], proc[p].rpos), BUF)
                   IN  /\ b \in Bytes /\ Len(b) <= BUF
                       /\ proc'[p].ibuf = b /\ proc'[p].rpos = proc[p].rpos + Len(b)
                       /\ proc'[p].eof <=> b = <<>>
           /\ WriteOut(p) =>
                /\ proc'[p].at = proc[p].at /\ SameFiles(p) /\ SameInput(p) /\ SamePart(p)
                /\ proc'[p].wpos = proc[p].wpos + BUF /\ proc'[p].obuf = Rest(proc[p].obuf, BUF)
           /\ EncodeByte(p) =>
                /\ proc'[p].at = proc[p].at /\ SameFiles(p) /\ SamePart(p)
                /\ proc'[p].rpos = proc[p].rpos /\ proc'[p].eof = proc[p].eof /\ proc'[p].wpos = proc[p].wpos
                /\ proc'[p].ibuf = Tail(proc[p].ibuf)
                /\ proc'[p].obuf = proc[p].obuf \o EncodedChar(Head(proc[p].ibuf))
           /\ CopyBlock(p) =>
                /\ proc'[p].at = proc[p].at /\ SameFiles(p) /\ SamePart(p)
                /\ proc'[p].rpos = proc[p].rpos /\ proc'[p].eof = proc[p].eof /\ proc'[p].wpos = proc[p].wpos
                /\ proc'[p].ibuf = <<>> /\ proc'[p].obuf = proc[p].obuf \o proc[p].ibuf
<1>1. proc[p] \in ProcType
  BY DEF TypeInv
<1>2. ASSUME NEW b, NEW n, NEW e, Becomes(p, [proc[p] EXCEPT !.ibuf = b, !.rpos = n, !.eof = e])
      PROVE  /\ proc'[p].at = proc[p].at /\ SameFiles(p) /\ SameOutput(p) /\ SamePart(p)
             /\ proc'[p].ibuf = b /\ proc'[p].rpos = n /\ proc'[p].eof = e
  <2>1. proc'[p] = [proc[p] EXCEPT !.ibuf = b, !.rpos = n, !.eof = e]
    BY <1>2, BecomesEffect
  <2> QED BY <1>1, <2>1 DEF ProcType, SameFiles, SameOutput, SamePart
<1>3. ASSUME NEW n, NEW o, Becomes(p, [proc[p] EXCEPT !.wpos = n, !.obuf = o])
      PROVE  /\ proc'[p].at = proc[p].at /\ SameFiles(p) /\ SameInput(p) /\ SamePart(p)
             /\ proc'[p].wpos = n /\ proc'[p].obuf = o
  <2>1. proc'[p] = [proc[p] EXCEPT !.wpos = n, !.obuf = o]
    BY <1>3, BecomesEffect
  <2> QED BY <1>1, <2>1 DEF ProcType, SameFiles, SameInput, SamePart
<1>4. ASSUME NEW i, NEW o, Becomes(p, [proc[p] EXCEPT !.ibuf = i, !.obuf = o])
      PROVE  /\ proc'[p].at = proc[p].at /\ SameFiles(p) /\ SamePart(p)
             /\ proc'[p].rpos = proc[p].rpos /\ proc'[p].eof = proc[p].eof /\ proc'[p].wpos = proc[p].wpos
             /\ proc'[p].ibuf = i /\ proc'[p].obuf = o
  <2>1. proc'[p] = [proc[p] EXCEPT !.ibuf = i, !.obuf = o]
    BY <1>4, BecomesEffect
  <2> QED BY <1>1, <2>1 DEF ProcType, SameFiles, SamePart
<1>5. ASSUME Refill(p)
      PROVE  /\ proc'[p].at = proc[p].at /\ SameFiles(p) /\ SameOutput(p) /\ SamePart(p)
             /\ LET b == FirstOf(Rest(data[Reading(p)], proc[p].rpos), BUF)
                IN  /\ b \in Bytes /\ Len(b) <= BUF
                    /\ proc'[p].ibuf = b /\ proc'[p].rpos = proc[p].rpos + Len(b)
                    /\ proc'[p].eof <=> b = <<>>
  <2>1. PICK b : b = FirstOf(Rest(data[Reading(p)], proc[p].rpos), BUF)
    OBVIOUS
  <2>2. /\ b \in Bytes /\ Len(b) <= BUF
        /\ Becomes(p, [proc[p] EXCEPT !.ibuf = b, !.rpos = proc[p].rpos + Len(b), !.eof = (b = <<>>)])
    BY <1>5, <2>1, RefillBecomes
  <2>3. PICK n : n = proc[p].rpos + Len(b)
    OBVIOUS
  <2>4. PICK e : e = (b = <<>>)
    OBVIOUS
  <2>5. Becomes(p, [proc[p] EXCEPT !.ibuf = b, !.rpos = n, !.eof = e])
    BY <2>2, <2>3, <2>4
  <2>6. /\ proc'[p].at = proc[p].at /\ SameFiles(p) /\ SameOutput(p) /\ SamePart(p)
        /\ proc'[p].ibuf = b /\ proc'[p].rpos = n /\ proc'[p].eof = e
    BY <1>2, <2>5
  <2> QED BY <2>1, <2>2, <2>3, <2>4, <2>6
<1>6. WriteOut(p) => Becomes(p, [proc[p] EXCEPT !.wpos = proc[p].wpos + BUF, !.obuf = Rest(proc[p].obuf, BUF)])
  BY WriteOutBecomes
<1>7. EncodeByte(p) => Becomes(p, [proc[p] EXCEPT !.ibuf = Tail(proc[p].ibuf),
                                         !.obuf = proc[p].obuf \o EncodedChar(Head(proc[p].ibuf))])
  BY EncodeByteBecomes
<1>8. CopyBlock(p) => Becomes(p, [proc[p] EXCEPT !.ibuf = <<>>, !.obuf = proc[p].obuf \o proc[p].ibuf])
  BY CopyBlockBecomes
<1> QED BY <1>3, <1>4, <1>5, <1>6, <1>7, <1>8

LEMMA OtherEffects ==
    ASSUME TypeInv, PlaceInv, NEW p \in Procs
    PROVE  /\ Rewind(p) =>
                /\ proc'[p].at = "copy" /\ SameFiles(p) /\ SamePart(p) /\ proc'[p].ibuf = proc[p].ibuf
                /\ proc'[p].obuf = <<>> /\ ~proc'[p].eof /\ proc'[p].rpos = 0 /\ proc'[p].wpos = 0
           /\ UnpackChar(p) =>
                /\ proc'[p].at = AtAfter(p) /\ SameFiles(p)
                /\ proc'[p].rpos = proc[p].rpos /\ proc'[p].eof = proc[p].eof /\ proc'[p].wpos = proc[p].wpos
                /\ proc'[p].ibuf = InAfter(p) /\ proc'[p].obuf = OutAfter(p)
                /\ proc'[p].part = PartAfter(p).part /\ proc'[p].count = PartAfter(p).count
<1>1. proc[p] \in ProcType
  BY DEF TypeInv
<1>2. ASSUME Rewind(p)
      PROVE  /\ proc'[p].at = "copy" /\ SameFiles(p) /\ SamePart(p) /\ proc'[p].ibuf = proc[p].ibuf
             /\ proc'[p].obuf = <<>> /\ ~proc'[p].eof /\ proc'[p].rpos = 0 /\ proc'[p].wpos = 0
  <2>1. proc'[p] = [proc[p] EXCEPT !.at = "copy", !.obuf = <<>>, !.eof = FALSE, !.rpos = 0, !.wpos = 0]
    BY <1>2, RewindBecomes, BecomesEffect
  <2> QED BY <1>1, <2>1 DEF ProcType, SameFiles, SamePart
<1>3. ASSUME NEW i, NEW o, NEW u, NEW n, NEW t, NEW a,
             Becomes(p, [proc[p] EXCEPT !.ibuf = i, !.obuf = o, !.part = u, !.count = n, !.told = t, !.at = a])
      PROVE  /\ proc'[p].at = a /\ SameFiles(p)
             /\ proc'[p].rpos = proc[p].rpos /\ proc'[p].eof = proc[p].eof /\ proc'[p].wpos = proc[p].wpos
             /\ proc'[p].ibuf = i /\ proc'[p].obuf = o
             /\ proc'[p].part = u /\ proc'[p].count = n
  <2>1. proc'[p] = [proc[p] EXCEPT !.ibuf = i, !.obuf = o, !.part = u, !.count = n, !.told = t, !.at = a]
    BY <1>3, BecomesEffect
  <2> QED BY <1>1, <2>1 DEF ProcType, SameFiles
<1>4. ASSUME UnpackChar(p)
      PROVE  /\ proc'[p].at = AtAfter(p) /\ SameFiles(p)
             /\ proc'[p].rpos = proc[p].rpos /\ proc'[p].eof = proc[p].eof /\ proc'[p].wpos = proc[p].wpos
             /\ proc'[p].ibuf = InAfter(p) /\ proc'[p].obuf = OutAfter(p)
             /\ proc'[p].part = PartAfter(p).part /\ proc'[p].count = PartAfter(p).count
  <2>1. Becomes(p, [proc[p] EXCEPT
                !.ibuf = InAfter(p), !.obuf = OutAfter(p), !.part = PartAfter(p).part,
                !.count = PartAfter(p).count, !.told = (proc[p].told \/ PartAfter(p).part = "binary"),
                !.at = AtAfter(p)])
    BY <1>4, UnpackCharBecomes
  <2> DEFINE t == (proc[p].told \/ PartAfter(p).part = "binary")
             u == PartAfter(p).part
             n == PartAfter(p).count
  <2>2. Becomes(p, [proc[p] EXCEPT !.ibuf = InAfter(p), !.obuf = OutAfter(p), !.part = u,
                                   !.count = n, !.told = t, !.at = AtAfter(p)])
    BY <2>1
  <2> HIDE DEF t, u, n
  <2>3. /\ proc'[p].at = AtAfter(p) /\ SameFiles(p)
        /\ proc'[p].rpos = proc[p].rpos /\ proc'[p].eof = proc[p].eof /\ proc'[p].wpos = proc[p].wpos
        /\ proc'[p].ibuf = InAfter(p) /\ proc'[p].obuf = OutAfter(p)
        /\ proc'[p].part = u /\ proc'[p].count = n
    BY <1>3, <2>2
  <2> QED BY <2>3 DEF u, n, Zenon
<1> QED BY <1>2, <1>4

(* A step of p writes to inode i, if any, and gives a file to a name that  *)
(* had none or removes the temporary one.                                  *)
FileStep(p, i, name) ==
    /\ data' \in Seq(Bytes) /\ Len(data) <= Len(data') /\ Untouched(i)
    /\ i \in {0, proc'[p].fd_out, proc'[p].fd_tmp}
    /\ meddled' \in [Procs -> BOOLEAN] /\ meddled'[p] = meddled[p]
    /\ \A q \in Procs \ {p} : ~meddled'[q] => ~meddled[q] /\ i \notin Used(q)
    /\ dir' \in [Names -> 0 .. Len(data')]
    /\ \A x \in Names \ {name} : dir'[x] = dir[x]
    /\ \/ dir'[name] = dir[name]
       \/ dir[name] = 0 /\ dir'[name] = Len(data) + 1
       \/ name = tmpfile /\ dir'[name] = 0

LEMMA QuietStep ==
    ASSUME TypeInv, NEW p \in Procs, UNCHANGED <<dir, data, meddled>>
    PROVE  FileStep(p, 0, tmpfile)
<1>1. data \in Seq(Bytes) /\ Len(data) \in Nat /\ tmpfile \in Names
  BY LenProperties, RkaAssumption DEF TypeInv
<1>2. 0 \notin UNION {Used(q) : q \in Procs}
  BY DEF Used
<1>3. Untouched(0)
  BY DEF Untouched
<1>4. \A q \in Procs \ {p} : ~meddled'[q] => ~meddled[q] /\ 0 \notin Used(q)
  BY <1>2
<1> QED BY <1>1, <1>3, <1>4 DEF FileStep, TypeInv


LEMMA WriteStep ==
    ASSUME TypeInv, NEW p \in Procs, NEW i \in 1 .. Len(data),
           i \in {proc[p].fd_out, proc[p].fd_tmp}, SameFiles(p),
           NEW n \in Nat, NEW b \in Bytes, Write(p, i, n, b), UNCHANGED dir
    PROVE  FileStep(p, i, tmpfile)
<1>1. Len(data) \in Nat /\ i \in Nat /\ i # 0 /\ tmpfile \in Names
  BY LenProperties, RkaAssumption DEF TypeInv
<1>2. /\ data' \in Seq(Bytes) /\ Len(data') = Len(data) /\ Untouched(i)
      /\ meddled' \in [Procs -> BOOLEAN]
  BY WriteEffect
<1>3. i \in {proc'[p].fd_out, proc'[p].fd_tmp}
  BY DEF SameFiles
<1>4. meddled'[p] = meddled[p] /\ \A q \in Procs \ {p} : ~meddled'[q] => ~meddled[q] /\ i \notin Used(q)
  BY <1>1, DisturbMeddles, DisturbSelf DEF Write
<1> QED BY <1>1, <1>2, <1>3, <1>4 DEF FileStep, TypeInv

LEMMA FopenStep ==
    ASSUME TypeInv, DirInv, NEW p \in Procs, NEW name \in Names, FopenW(p, name),
           Opened(name) \in {proc'[p].fd_out, proc'[p].fd_tmp}
    PROVE  FileStep(p, Opened(name), name)
<1> DEFINE i == Opened(name)
<1>1. Len(data) \in Nat
  BY LenProperties DEF TypeInv
<1>2. /\ i \in 0 .. Len(data) + 1 /\ (i # 0 => i > 2 * N)
      /\ data' \in Seq(Bytes) /\ Len(data') = IF i = Len(data) + 1 THEN i ELSE Len(data)
      /\ Untouched(i)
      /\ dir' \in [Names -> 0 .. Len(data')]
      /\ dir'[name] = IF i = 0 THEN dir[name] ELSE i
      /\ \A x \in Names \ {name} : dir'[x] = dir[x]
      /\ meddled' \in [Procs -> BOOLEAN]
  BY FopenEffect
<1>3. i \in Nat /\ Len(data) <= Len(data')
  BY <1>1, <1>2
<1>4. Disturb(p, i)
  BY DEF FopenW
<1>5. meddled'[p] = meddled[p] /\ \A q \in Procs \ {p} : ~meddled'[q] => ~meddled[q] /\ i \notin Used(q)
  BY <1>3, <1>4, DisturbMeddles, DisturbSelf
<1>6. i = 0 \/ i = dir[name] \/ (dir[name] = 0 /\ i = Len(data) + 1)
  BY DEF Opened
<1>7. \/ dir'[name] = dir[name]
      \/ dir[name] = 0 /\ dir'[name] = Len(data) + 1
  BY <1>2, <1>6
<1>8. i \in {proc'[p].fd_out, proc'[p].fd_tmp}
  OBVIOUS
<1> HIDE DEF i
<1>9. FileStep(p, i, name)
  BY <1>2, <1>3, <1>5, <1>7, <1>8 DEF FileStep
<1> QED BY <1>9 DEF i

LEMMA StepFiles ==
    ASSUME TypeInv, DirInv, PlaceInv, NEW p \in Procs, Step(p) \/ Kill(p)
    PROVE  \E i \in Nat, name \in Names : FileStep(p, i, name)
<1> DEFINE Some == \E i \in Nat, name \in Names : FileStep(p, i, name)
<1>0. tmpfile \in Names /\ 0 \in Nat /\ Len(data) \in Nat
  BY RkaAssumption, LenProperties DEF TypeInv
<1>1. UNCHANGED <<dir, data, meddled>> => Some
  BY <1>0, QuietStep
<1>2. ASSUME NEW name \in Names, FopenW(p, name), Opened(name) \in {proc'[p].fd_out, proc'[p].fd_tmp}
      PROVE  Some
  <2>1. Opened(name) \in Nat
    BY <1>0, <1>2, FopenEffect
  <2> QED BY <1>2, <2>1, FopenStep
<1>3. ASSUME NEW i \in 1 .. Len(data), i \in {proc[p].fd_out, proc[p].fd_tmp}, SameFiles(p), NEW n \in Nat,
             NEW b \in Bytes, Write(p, i, n, b), UNCHANGED dir
      PROVE  Some
  <2>1. i \in Nat
    OBVIOUS
  <2> QED BY <1>0, <1>3, <2>1, WriteStep
<1>4. proc[p].wpos \in Nat /\ proc[p].obuf \in Bytes /\ proc[p].fd_out \in Nat /\ proc[p].fd_out <= Len(data)
  BY FieldTypes DEF TypeInv
<1> HIDE DEF Some
<1>5. CommandRequired(p) \/ UnknownCommand(p) \/ OpenInput(p) \/ Refill(p) \/ AssertFails(p) \/ EncodeByte(p)
      \/ CopyBlock(p) \/ NoOutput(p) \/ CopyEnds(p) \/ UnpackChar(p) \/ ExitFails(p) \/ Kill(p) => Some
  BY <1>1 DEF CommandRequired, UnknownCommand, Exits, OpenInput, Refill, AssertFails, EncodeByte,
              CopyBlock, NoOutput, CopyEnds, UnpackChar, ExitFails, Kill
<1>6. OpenOutput(p) => Some
  <2> SUFFICES ASSUME OpenOutput(p) PROVE Some
    OBVIOUS
  <2>1. CASE argc(p) > 3
    BY <1>2, <2>1, OutputName, OpenEffects DEF OpenOutput
  <2>2. CASE ~(argc(p) > 3)
    BY <1>1, <2>2 DEF OpenOutput
  <2> QED BY <2>1, <2>2
<1>7. OpenTmp(p) => Some
  BY <1>0, <1>2, OpenEffects DEF OpenTmp
<1>8. WriteOut(p) => Some
  <2> SUFFICES ASSUME WriteOut(p) PROVE Some
    OBVIOUS
  <2>1. Writing(p) \in {proc[p].fd_out, proc[p].fd_tmp}
    BY DEF Writing
  <2>2. Writing(p) \in 1 .. Len(data) /\ FirstOf(proc[p].obuf, BUF) \in Bytes
    BY WriteOutBecomes
  <2>3. Write(p, Writing(p), proc[p].wpos, FirstOf(proc[p].obuf, BUF)) /\ UNCHANGED dir /\ SameFiles(p)
    BY BufferEffects DEF WriteOut
  <2> QED BY <1>3, <1>4, <2>1, <2>2, <2>3
<1>9. Rewind(p) => Some
  <2> SUFFICES ASSUME Rewind(p) PROVE Some
    OBVIOUS
  <2>1. proc[p].fd_tmp \in 1 .. Len(data)
    BY RewindBecomes
  <2>2. Write(p, proc[p].fd_tmp, proc[p].wpos, proc[p].obuf) /\ UNCHANGED dir /\ SameFiles(p)
    BY OtherEffects DEF Rewind
  <2> QED BY <1>3, <1>4, <2>1, <2>2
<1>10. ExitNicely(p) => Some
  <2> SUFFICES ASSUME ExitNicely(p) PROVE Some
    OBVIOUS
  <2>1. proc[p].fd_out \in 1 .. Len(data)
    BY <1>0, <1>4 DEF ExitNicely
  <2>2. Write(p, proc[p].fd_out, proc[p].wpos, proc[p].obuf) /\ UNCHANGED dir /\ SameFiles(p)
    BY EndEffects DEF ExitNicely
  <2> QED BY <1>3, <1>4, <2>1, <2>2
<1>11. RemoveTmp(p) => Some
  <2> SUFFICES ASSUME RemoveTmp(p) PROVE FileStep(p, 0, tmpfile)
    BY <1>0 DEF Some
  <2>1. dir' = [dir EXCEPT ![tmpfile] = 0] /\ UNCHANGED <<data, meddled>>
    BY DEF RemoveTmp
  <2>2. Untouched(0) /\ \A q \in Procs : 0 \notin Used(q)
    BY <2>1 DEF Untouched, Used
  <2>3. dir' \in [Names -> 0 .. Len(data')] /\ dir'[tmpfile] = 0
        /\ \A x \in Names \ {tmpfile} : dir'[x] = dir[x]
    BY <1>0, <2>1 DEF TypeInv
  <2> QED BY <1>0, <2>1, <2>2, <2>3 DEF FileStep, TypeInv
<1> QED BY <1>5, <1>6, <1>7, <1>8, <1>9, <1>10, <1>11 DEF Step, Some

LEMMA DirStep ==
    ASSUME TypeInv, DirInv, NEW p \in Procs, NEW i \in Nat, NEW name \in Names, FileStep(p, i, name)
    PROVE  DirInv'
<1>1. Len(data) \in Nat /\ 2 * N \in Nat /\ 2 * N <= Len(data) /\ dir \in [Names -> 0 .. Len(data)]
  BY LenProperties, RkaAssumption DEF TypeInv
<1>2. \A n \in Names : dir'[n] # 0 => (dir'[n] = dir[n] /\ dir[n] \in 1 .. Len(data)) \/ (n = name /\ dir'[n] = Len(data) + 1)
  BY <1>1 DEF FileStep
<1>3. ASSUME NEW n \in Names, dir'[n] # 0 PROVE dir'[n] > 2 * N
  BY <1>1, <1>2, <1>3 DEF DirInv
<1>4. ASSUME NEW n \in Names, dir'[n] # 0, NEW m \in Names, dir'[m] = dir'[n] PROVE m = n
  <2>1. CASE dir'[n] = dir[n] /\ dir[n] \in 1 .. Len(data)
    <3>1. dir'[m] # Len(data) + 1
      BY <1>1, <1>4, <2>1
    <3>2. dir'[m] = dir[m]
      BY <1>2, <1>4, <3>1
    <3>3. dir[m] = dir[n] /\ dir[n] # 0
      BY <1>4, <2>1, <3>2
    <3> QED BY <3>3 DEF DirInv
  <2>2. CASE n = name /\ dir'[n] = Len(data) + 1
    <3>1. ~(dir'[m] \in 1 .. Len(data))
      BY <1>1, <1>4, <2>2
    <3> QED BY <1>2, <1>4, <2>2, <3>1
  <2> QED BY <1>2, <1>4, <2>1, <2>2
<1> QED BY <1>3, <1>4 DEF DirInv

(* The files of others stay the ones that their arguments name.            *)
LEMMA NamesStay ==
    ASSUME TypeInv, DirInv, NEW p \in Procs, NEW i \in Nat, NEW name \in Names, FileStep(p, i, name)
    PROVE  /\ \A n \in Names \ {tmpfile} : dir[n] # 0 => dir'[n] = dir[n]
           /\ \A n \in Names, f \in 1 .. Len(data) : dir[n] # f => dir'[n] # f
<1>1. Len(data) \in Nat
  BY LenProperties DEF TypeInv
<1> QED BY <1>1 DEF FileStep

-----------------------------------------------------------------------------
(* Types, places and open files.                                           *)

Fits(p) ==
    /\ proc[p].fd_in <= Len(data) /\ proc[p].fd_out <= Len(data) /\ proc[p].fd_tmp <= Len(data)
    /\ Len(proc[p].ibuf) <= BUF /\ Len(proc[p].obuf) <= 2 * BUF + 1

LEMMA FitsStep ==
    ASSUME TypeInv, DirInv, PlaceInv, NEW p \in Procs, Step(p) \/ Kill(p), Len(data) <= Len(data'),
           Len(data') \in Nat, dir' \in [Names -> 0 .. Len(data')]
    PROVE  Fits(p)'
<1>1. Fits(p) /\ proc[p] \in ProcType /\ BUF \in Nat /\ Len(data) \in Nat
  BY LenProperties, RkaAssumption DEF TypeInv, Fits
<1>2. proc[p].fd_in \in Nat /\ proc[p].fd_out \in Nat /\ proc[p].fd_tmp \in Nat
      /\ Len(proc[p].ibuf) \in Nat /\ Len(proc[p].obuf) \in Nat /\ Len(<<>>) = 0
  BY <1>1, FieldTypes, LenProperties, EmptySeq DEF Bytes
<1>3. SameFiles(p) => /\ proc'[p].fd_in <= Len(data') /\ proc'[p].fd_out <= Len(data')
                      /\ proc'[p].fd_tmp <= Len(data')
  BY <1>1, <1>2 DEF Fits, SameFiles
<1>4. SameInput(p) => Len(proc'[p].ibuf) <= BUF
  BY <1>1 DEF Fits, SameInput
<1>5. SameOutput(p) => Len(proc'[p].obuf) <= 2 * BUF + 1
  BY <1>1 DEF Fits, SameOutput
<1>6. \A a : EndsAt(p, a) => Fits(p)'
  BY <1>3, <1>4, <1>5 DEF EndsAt, Fits
<1>7. CommandRequired(p) \/ UnknownCommand(p) \/ AssertFails(p) \/ NoOutput(p) \/ ExitFails(p)
      \/ Kill(p) \/ RemoveTmp(p) => Fits(p)'
  BY <1>6, EndEffects
<1>8. CopyEnds(p) => Fits(p)'
  BY <1>1, <1>2, <1>4, <1>5, EndEffects, SMTT(30) DEF Fits
<1>9. ExitNicely(p) => Fits(p)'
  BY <1>1, <1>2, <1>3, <1>4, EndEffects DEF Fits
<1>10. OpenInput(p) => Fits(p)'
  <2> SUFFICES ASSUME OpenInput(p) PROVE Fits(p)'
    OBVIOUS
  <2> DEFINE i == IF argc(p) > 2 THEN dir[proc[p].args[2]] ELSE 2 * p - 1
  <2>1. i \in 0 .. Len(data)
    BY OpenInputBecomes
  <2>2. proc'[p].fd_in = i
    BY OpenEffects
  <2> HIDE DEF i
  <2>3. proc'[p].fd_in <= Len(data')
    BY <1>1, <2>1, <2>2
  <2> QED BY <1>1, <1>2, <1>4, <1>5, <2>3, OpenEffects, SMTT(30) DEF Fits
<1>11. OpenOutput(p) => Fits(p)'
  <2> SUFFICES ASSUME OpenOutput(p) PROVE Fits(p)'
    OBVIOUS
  <2> DEFINE i == IF argc(p) > 3 THEN Opened(proc[p].args[3]) ELSE 2 * p
  <2>1. i \in 0 .. Len(data')
    BY OpenOutputBecomes
  <2>2. proc'[p].fd_out = i
    BY OpenEffects
  <2> HIDE DEF i
  <2>3. proc'[p].fd_out <= Len(data')
    BY <2>1, <2>2
  <2> QED BY <1>1, <1>2, <1>4, <1>5, <2>3, OpenEffects, SMTT(30) DEF Fits
<1>12. OpenTmp(p) => Fits(p)'
  <2> SUFFICES ASSUME OpenTmp(p) PROVE Fits(p)'
    OBVIOUS
  <2>1. Opened(tmpfile) \in 0 .. Len(data')
    BY OpenTmpBecomes
  <2>2. proc'[p].fd_tmp = Opened(tmpfile)
    BY OpenEffects
  <2>3. proc'[p].fd_tmp <= Len(data')
    BY <2>1, <2>2
  <2> QED BY <1>1, <1>2, <1>4, <1>5, <2>3, OpenEffects, SMTT(30) DEF Fits
<1>13. Refill(p) => Fits(p)'
  BY <1>3, <1>5, BufferEffects DEF Fits
<1>14. WriteOut(p) => Fits(p)'
  BY <1>3, <1>4, BufferEffects, WriteOutBecomes DEF Fits
<1>15. EncodeByte(p) => Fits(p)'
  <2> SUFFICES ASSUME EncodeByte(p) PROVE Fits(p)'
    OBVIOUS
  <2>1. Len(proc'[p].ibuf) = Len(proc[p].ibuf) - 1 /\ Len(proc'[p].obuf) <= 2 * BUF + 1
    BY EncodeByteBecomes, BufferEffects
  <2>2. Len(proc'[p].ibuf) <= BUF
    BY <1>1, <1>2, <2>1 DEF Fits
  <2> QED BY <1>3, <2>1, <2>2, BufferEffects DEF Fits
<1>16. Rewind(p) => Fits(p)'
  BY <1>1, <1>2, <1>3, OtherEffects DEF Fits
<1>17. CopyBlock(p) => Fits(p)'
  <2> SUFFICES ASSUME CopyBlock(p) PROVE Fits(p)'
    OBVIOUS
  <2>1. proc'[p].ibuf = <<>> /\ Len(proc'[p].obuf) <= 2 * BUF + 1 /\ SameFiles(p)
    BY BufferEffects, CopyBlockBecomes
  <2>2. Len(proc'[p].ibuf) <= BUF
    BY <1>1, <1>2, <2>1
  <2> QED BY <1>3, <2>1, <2>2 DEF Fits
<1>18. UnpackChar(p) => Fits(p)'
  BY <1>3, OtherEffects, UnpackCharBecomes DEF Fits
<1> HIDE DEF Fits
<1> QED BY <1>7, <1>8, <1>9, <1>10, <1>11, <1>12, <1>13, <1>14, <1>15, <1>16, <1>17, <1>18 DEF Step

LEMMA OriginStep ==
    ASSUME TypeInv, PlaceInv, NEW p \in Procs, Step(p) \/ Kill(p)
    PROVE  /\ origin' \in [Procs -> Bytes]
           /\ \A q \in Procs \ {p} : origin'[q] = origin[q]
           /\ ~OpenInput(p) => origin' = origin
           /\ OpenInput(p) => origin'[p] = IF proc'[p].fd_in = 0 THEN <<>> ELSE data[proc'[p].fd_in]
<1>1. ~OpenInput(p) => origin' = origin
  BY DEF Step, Kill, CommandRequired, UnknownCommand, Exits, OpenOutput, Refill, WriteOut, AssertFails,
         OpenTmp, EncodeByte, Rewind, CopyBlock, NoOutput, CopyEnds, RemoveTmp, UnpackChar, ExitNicely, ExitFails
<1>2. ASSUME OpenInput(p)
      PROVE  /\ origin' \in [Procs -> Bytes]
             /\ \A q \in Procs \ {p} : origin'[q] = origin[q]
             /\ origin'[p] = IF proc'[p].fd_in = 0 THEN <<>> ELSE data[proc'[p].fd_in]
  <2> DEFINE i == IF argc(p) > 2 THEN dir[proc[p].args[2]] ELSE 2 * p - 1
  <2>1. i \in 0 .. Len(data) /\ Becomes(p, [proc[p] EXCEPT !.at = "outfile", !.fd_in = i])
    BY <1>2, OpenInputBecomes
  <2>2. origin' = [origin EXCEPT ![p] = IF i = 0 THEN <<>> ELSE data[i]]
    BY <1>2 DEF OpenInput
  <2> HIDE DEF i
  <2>3. proc'[p].fd_in = i
    <3>1. proc'[p] = [proc[p] EXCEPT !.at = "outfile", !.fd_in = i] /\ proc[p] \in ProcType
      BY <2>1, BecomesEffect DEF TypeInv
    <3> QED BY <3>1 DEF ProcType
  <2>4. data \in Seq(Bytes) /\ Len(data) \in Nat /\ <<>> \in Bytes
    BY LenProperties, EmptySeq DEF TypeInv, Bytes
  <2>5. i # 0 => data[i] \in Bytes
    BY <2>1, <2>4, ElementOfSeq
  <2> QED BY <2>2, <2>3, <2>4, <2>5 DEF TypeInv
<1>3. origin \in [Procs -> Bytes]
  BY DEF TypeInv
<1> QED BY <1>1, <1>2, <1>3

LEMMA TypeStep ==
    ASSUME TypeInv, DirInv, PlaceInv, OpensInv, NEW p \in Procs, Step(p) \/ Kill(p)
    PROVE  TypeInv'
<1>1. PICK i \in Nat, name \in Names : FileStep(p, i, name)
  BY StepFiles
<1>2. /\ data' \in Seq(Bytes) /\ Len(data) <= Len(data') /\ dir' \in [Names -> 0 .. Len(data')]
      /\ meddled' \in [Procs -> BOOLEAN]
  BY <1>1 DEF FileStep
<1>3. Len(data) \in Nat /\ Len(data') \in Nat /\ 2 * N \in Nat /\ 2 * N <= Len(data)
  BY <1>2, LenProperties, RkaAssumption DEF TypeInv
<1>4. 2 * N <= Len(data')
  BY <1>2, <1>3
<1>5. /\ proc' \in [Procs -> ProcType] /\ \A q \in Procs \ {p} : proc'[q] = proc[q]
      /\ origin' \in [Procs -> Bytes]
  BY StepMoves, OriginStep
<1>6. Fits(p)'
  BY <1>2, <1>3, FitsStep
<1>7. ASSUME NEW q \in Procs \ {p} PROVE Fits(q)'
  <2>1. Fits(q) /\ proc'[q] = proc[q]
    BY <1>5 DEF TypeInv, Fits
  <2>2. proc[q].fd_in \in Nat /\ proc[q].fd_out \in Nat /\ proc[q].fd_tmp \in Nat
    BY FieldTypes DEF TypeInv
  <2> QED BY <1>2, <1>3, <2>1, <2>2, SMTT(30) DEF Fits
<1> QED BY <1>2, <1>4, <1>5, <1>6, <1>7 DEF TypeInv, Fits

LEMMA SameArguments ==
    ASSUME NEW p \in Procs, proc'[p].args = proc[p].args
    PROVE  argc(p)' = argc(p) /\ Command(p)' = Command(p) /\ Busy(p)' = Busy(p)
BY DEF argc, Command, Busy

LEMMA PlaceStep ==
    ASSUME TypeInv, DirInv, PlaceInv, NEW p \in Procs, Step(p) \/ Kill(p)
    PROVE  PlaceInv'
<1>1. proc'[p].args = proc[p].args /\ \A q \in Procs \ {p} : proc'[q] = proc[q]
  BY StepMoves
<1>2. argc(p)' = argc(p) /\ Command(p)' = Command(p) /\ Busy(p)' = Busy(p)
  BY <1>1, SameArguments
<1>3. ASSUME NEW q \in Procs \ {p} PROVE Place(q)'
  BY <1>1 DEF PlaceInv, Place, Busy, argc, Command, Writing
<1>4. Place(p)
  BY DEF PlaceInv
<1>5. CommandRequired(p) \/ UnknownCommand(p) => Place(p)'
  BY <1>1, <1>4, EndEffects DEF Place, CommandRequired, UnknownCommand, EndsAt, SameFiles, Running
<1>6. AssertFails(p) \/ NoOutput(p) \/ ExitFails(p) => Place(p)'
  BY <1>1, <1>2, <1>4, EndEffects DEF Place, AssertFails, NoOutput, ExitFails, EndsAt, Running
<1>7. Kill(p) => Place(p)'
  BY <1>1, <1>4, EndEffects DEF Place, EndsAt, Running
<1>8. RemoveTmp(p) => Place(p)'
  BY <1>1, <1>2, <1>4, EndEffects DEF Place, RemoveTmp, EndsAt, SameFiles, SameOutput, Running, Writing
<1>9. CopyEnds(p) => Place(p)'
  BY <1>1, <1>2, <1>4, EndEffects DEF Place, CopyEnds, SameOutput, Running, Writing
<1>10. ExitNicely(p) => Place(p)'
  BY <1>1, <1>4, EndEffects DEF Place, ExitNicely, SameFiles, Running
<1>11. OpenInput(p) => Place(p)'
  BY <1>1, <1>2, <1>4, OpenEffects DEF Place, OpenInput, Busy, SameInput, SameOutput, SamePart
<1>12. OpenOutput(p) => Place(p)'
  <2> SUFFICES ASSUME OpenOutput(p) PROVE Place(p)'
    OBVIOUS
  <2>1. proc[p].at = "outfile" /\ Command(p) \in {"pack", "unpack"} /\ Busy(p)
    BY <1>4 DEF OpenOutput, Place, Busy
  <2> QED BY <1>1, <1>2, <1>4, <2>1, OpenEffects DEF Place, SameInput, SameOutput, SamePart
<1>13. OpenTmp(p) => Place(p)'
  BY <1>1, <1>2, <1>4, OpenEffects DEF Place, OpenTmp, SameInput, SameOutput
<1>14. Refill(p) => Place(p)'
  <2> SUFFICES ASSUME Refill(p) PROVE Place(p)'
    OBVIOUS
  <2>1. proc'[p].at = proc[p].at /\ SameFiles(p) /\ SameOutput(p) /\ SamePart(p)
    BY BufferEffects
  <2>2. proc[p].at \in {"encode", "copy", "unpack"} /\ Reading(p) # 0 /\ (proc[p].at # "copy" => Writing(p) # 0)
    BY DEF Refill
  <2> QED BY <1>1, <1>2, <1>4, <2>1, <2>2
          DEF Place, SameFiles, SameOutput, SamePart, Reading, Writing, Running
<1>15. WriteOut(p) => Place(p)'
  <2> SUFFICES ASSUME WriteOut(p) PROVE Place(p)'
    OBVIOUS
  <2>1. proc'[p].at = proc[p].at /\ SameFiles(p) /\ SameInput(p) /\ SamePart(p)
    BY BufferEffects
  <2>2. Writing(p) # 0
    <3>1. Writing(p) \in 1 .. Len(data) /\ Len(data) \in Nat
      BY WriteOutBecomes, LenProperties DEF TypeInv
    <3> QED BY <3>1
  <2>3. Writing(p)' = Writing(p) /\ proc[p].obuf # <<>>
    <3>1. Len(<<>>) = 0 /\ BUF \in Nat
      BY EmptySeq, RkaAssumption
    <3> QED BY <2>1, <3>1 DEF Writing, SameFiles, WriteOut, HasRoom
  <2>4. proc[p].at \notin {"main", "outfile", "pack"}
    BY <1>4, <2>3 DEF Place
  <2> QED BY <1>1, <1>2, <1>4, <2>1, <2>2, <2>3, <2>4 DEF Place, SameFiles, SameInput, SamePart
<1>16. EncodeByte(p) => Place(p)'
  <2> SUFFICES ASSUME EncodeByte(p) PROVE Place(p)'
    OBVIOUS
  <2>1. proc'[p].at = "encode" /\ proc[p].at = "encode" /\ SameFiles(p)
    BY BufferEffects DEF EncodeByte
  <2>2. proc[p].fd_in # 0 /\ Writing(p) # 0 /\ Writing(p)' = Writing(p)
    BY <1>4, <2>1 DEF Place, EncodeByte, SameFiles, Writing
  <2> QED BY <1>1, <1>2, <1>4, <2>1, <2>2 DEF Place, SameFiles
<1>17. Rewind(p) => Place(p)'
  BY <1>1, <1>2, <1>4, OtherEffects DEF Place, Rewind, SameFiles, Writing
<1>18. CopyBlock(p) => Place(p)'
  BY <1>1, <1>2, <1>4, BufferEffects DEF Place, CopyBlock, SameFiles, Writing
<1>19. UnpackChar(p) => Place(p)'
  <2> SUFFICES ASSUME UnpackChar(p) PROVE Place(p)'
    OBVIOUS
  <2>1. /\ proc[p].at = "unpack" /\ proc'[p].at = AtAfter(p) /\ SameFiles(p)
        /\ proc'[p].part = PartAfter(p).part
    BY OtherEffects DEF UnpackChar
  <2>2. proc[p].fd_in # 0 /\ proc[p].fd_out # 0 /\ proc[p].fd_tmp = 0
    BY <1>4, <2>1 DEF Place, UnpackChar, Writing
  <2>3. AtAfter(p) = "exit" \/ (AtAfter(p) = "unpack" /\ PartAfter(p).part \notin {"binary", "end"})
    BY <2>1 DEF AtAfter
  <2> QED BY <1>1, <1>2, <1>4, <2>1, <2>2, <2>3 DEF Place, SameFiles, Writing
<1>20. Place(p)'
  <2> HIDE DEF Place
  <2> QED BY <1>5, <1>6, <1>7, <1>8, <1>9, <1>10, <1>11, <1>12, <1>13, <1>14, <1>15, <1>16, <1>17, <1>18, <1>19
          DEF Step
<1> QED BY <1>3, <1>20 DEF PlaceInv

(* A process opens its input and its output once; the temporary file it    *)
(* opens once and closes.                                                  *)
LEMMA OpenOnce ==
    ASSUME TypeInv, DirInv, PlaceInv, NEW p \in Procs, Step(p) \/ Kill(p)
    PROVE  /\ ~OpenInput(p) => proc'[p].fd_in = proc[p].fd_in
           /\ ~OpenOutput(p) => proc'[p].fd_out = proc[p].fd_out
           /\ ~OpenTmp(p) => proc'[p].fd_tmp \in {0, proc[p].fd_tmp}
<1>1. /\ OpenInput(p) => proc'[p].fd_out = proc[p].fd_out /\ proc'[p].fd_tmp = proc[p].fd_tmp
      /\ OpenOutput(p) => proc'[p].fd_in = proc[p].fd_in /\ proc'[p].fd_tmp = proc[p].fd_tmp
      /\ OpenTmp(p) => proc'[p].fd_in = proc[p].fd_in /\ proc'[p].fd_out = proc[p].fd_out
  BY OpenEffects
<1>2. Refill(p) \/ WriteOut(p) \/ EncodeByte(p) \/ CopyBlock(p) \/ Rewind(p) \/ UnpackChar(p) => SameFiles(p)
  BY BufferEffects, OtherEffects
<1>3. CommandRequired(p) \/ UnknownCommand(p) \/ AssertFails(p) \/ NoOutput(p) \/ ExitFails(p) \/ Kill(p)
      \/ RemoveTmp(p) \/ ExitNicely(p) => SameFiles(p)
  BY EndEffects DEF EndsAt
<1>4. CopyEnds(p) => /\ proc'[p].fd_in = proc[p].fd_in /\ proc'[p].fd_out = proc[p].fd_out
                     /\ proc'[p].fd_tmp = 0
  BY EndEffects
<1> QED BY <1>1, <1>2, <1>3, <1>4 DEF Step, SameFiles

LEMMA OpensStep ==
    ASSUME TypeInv, DirInv, PlaceInv, OpensInv, NEW p \in Procs, Step(p) \/ Kill(p)
    PROVE  OpensInv'
<1>1. proc'[p].args = proc[p].args /\ \A q \in Procs \ {p} : proc'[q] = proc[q]
  BY StepMoves
<1>2. PICK i \in Nat, name \in Names : FileStep(p, i, name)
  BY StepFiles
<1>3. /\ \A n \in Names \ {tmpfile} : dir[n] # 0 => dir'[n] = dir[n]
      /\ \A n \in Names, f \in 1 .. Len(data) : dir[n] # f => dir'[n] # f
  BY <1>2, NamesStay
<1>4. ASSUME NEW q \in Procs
      PROVE  /\ Len(proc[q].args) \in Nat /\ \A k \in 2 .. Len(proc[q].args) : proc[q].args[k] \in Names
             /\ proc[q].fd_tmp # 0 => proc[q].fd_tmp \in 1 .. Len(data)
  <2>1. proc[q] \in ProcType /\ Len(data) \in Nat /\ proc[q].fd_tmp <= Len(data)
    BY LenProperties DEF TypeInv
  <2>2. proc[q].args \in Seq(STRING) /\ proc[q].fd_tmp \in Nat
    BY <2>1, FieldTypes
  <2>3. Len(proc[q].args) \in Nat
    BY <2>2, LenProperties
  <2> QED BY <2>1, <2>2, <2>3 DEF PlaceInv, Place
<1> DEFINE In(q) == proc[q].fd_in # 0 =>
                      IF Len(proc[q].args) < 2 THEN proc[q].fd_in = 2 * q - 1
                      ELSE proc[q].fd_in > 2 * N /\ (proc[q].args[2] # tmpfile => dir[proc[q].args[2]] = proc[q].fd_in)
           Out(q) == proc[q].fd_out # 0 =>
                      IF Len(proc[q].args) < 3 THEN proc[q].fd_out = 2 * q
                      ELSE proc[q].fd_out > 2 * N /\ (proc[q].args[3] # tmpfile => dir[proc[q].args[3]] = proc[q].fd_out)
           Tmp(q) == proc[q].fd_tmp # 0 => proc[q].fd_tmp > 2 * N /\ \A n \in Names \ {tmpfile} : dir[n] # proc[q].fd_tmp
<1>5. \A q \in Procs : In(q) /\ Out(q) /\ Tmp(q)
  BY DEF OpensInv, Opens
<1>6. ASSUME NEW q \in Procs, proc'[q].args = proc[q].args
      PROVE  /\ proc'[q].fd_in = proc[q].fd_in => In(q)'
             /\ proc'[q].fd_out = proc[q].fd_out => Out(q)'
             /\ proc'[q].fd_tmp \in {0, proc[q].fd_tmp} => Tmp(q)'
  <2>1. Len(proc[q].args) >= 2 => proc[q].args[2] \in Names
    BY <1>4
  <2>2. Len(proc[q].args) >= 3 => proc[q].args[3] \in Names
    BY <1>4
  <2>3. proc'[q].fd_in = proc[q].fd_in => In(q)'
    BY <1>3, <1>4, <1>5, <1>6, <2>1
  <2>4. proc'[q].fd_out = proc[q].fd_out => Out(q)'
    BY <1>3, <1>4, <1>5, <1>6, <2>2
  <2>5. proc'[q].fd_tmp \in {0, proc[q].fd_tmp} => Tmp(q)'
    BY <1>3, <1>4, <1>5, <1>6
  <2> QED BY <2>3, <2>4, <2>5
<1>7. OpenInput(p) => In(p)'
  <2> SUFFICES ASSUME OpenInput(p), proc'[p].fd_in # 0
               PROVE  IF Len(proc[p].args) < 2 THEN proc'[p].fd_in = 2 * p - 1
                      ELSE proc'[p].fd_in > 2 * N
                           /\ (proc[p].args[2] # tmpfile => dir'[proc[p].args[2]] = proc'[p].fd_in)
    BY <1>1
  <2>1. proc'[p].fd_in = IF argc(p) > 2 THEN dir[proc[p].args[2]] ELSE 2 * p - 1
    BY OpenEffects
  <2>2. argc(p) > 2 <=> ~(Len(proc[p].args) < 2)
    BY <1>4 DEF argc
  <2>3. dir' = dir
    BY DEF OpenInput
  <2>4. CASE Len(proc[p].args) < 2
    BY <2>1, <2>2, <2>4
  <2>5. CASE ~(Len(proc[p].args) < 2)
    <3>1. proc[p].args[2] \in Names
      BY <1>4, <2>5
    <3>2. proc'[p].fd_in = dir[proc[p].args[2]]
      BY <2>1, <2>2, <2>5
    <3> QED BY <2>3, <2>5, <3>1, <3>2 DEF DirInv
  <2> QED BY <2>4, <2>5
<1>8. OpenOutput(p) => Out(p)'
  <2> SUFFICES ASSUME OpenOutput(p), proc'[p].fd_out # 0
               PROVE  IF Len(proc[p].args) < 3 THEN proc'[p].fd_out = 2 * p
                      ELSE proc'[p].fd_out > 2 * N
                           /\ (proc[p].args[3] # tmpfile => dir'[proc[p].args[3]] = proc'[p].fd_out)
    BY <1>1
  <2>1. proc'[p].fd_out = IF argc(p) > 3 THEN Opened(proc[p].args[3]) ELSE 2 * p
    BY OpenEffects
  <2>2. argc(p) > 3 <=> ~(Len(proc[p].args) < 3)
    BY <1>4 DEF argc
  <2>3. CASE Len(proc[p].args) < 3
    BY <2>1, <2>2, <2>3
  <2>4. CASE ~(Len(proc[p].args) < 3)
    <3>1. proc[p].args[3] \in Names /\ FopenW(p, proc[p].args[3])
      BY <2>2, <2>4, OutputName DEF OpenOutput
    <3>2. proc'[p].fd_out = Opened(proc[p].args[3])
      BY <2>1, <2>2, <2>4
    <3>3. /\ Opened(proc[p].args[3]) # 0 => Opened(proc[p].args[3]) > 2 * N
          /\ dir'[proc[p].args[3]] = IF Opened(proc[p].args[3]) = 0 THEN dir[proc[p].args[3]]
                                     ELSE Opened(proc[p].args[3])
      BY <3>1, FopenEffect
    <3> QED BY <2>4, <3>2, <3>3
  <2> QED BY <2>3, <2>4
<1>9. OpenTmp(p) => Tmp(p)'
  <2> SUFFICES ASSUME OpenTmp(p), proc'[p].fd_tmp # 0
               PROVE  proc'[p].fd_tmp > 2 * N /\ \A n \in Names \ {tmpfile} : dir'[n] # proc'[p].fd_tmp
    OBVIOUS
  <2>1. proc'[p].fd_tmp = Opened(tmpfile) /\ tmpfile \in Names /\ FopenW(p, tmpfile)
    BY OpenEffects, RkaAssumption DEF OpenTmp
  <2>2. /\ Opened(tmpfile) # 0 => Opened(tmpfile) > 2 * N
        /\ \A x \in Names \ {tmpfile} : dir'[x] = dir[x] /\ (Opened(tmpfile) # 0 => dir[x] # Opened(tmpfile))
    BY <2>1, FopenEffect
  <2> QED BY <2>1, <2>2
<1>10. In(p)'
  <2>1. ~OpenInput(p) => proc'[p].fd_in = proc[p].fd_in
    BY OpenOnce
  <2> HIDE DEF In
  <2> QED BY <1>1, <1>6, <1>7, <2>1
<1>11. Out(p)'
  <2>1. ~OpenOutput(p) => proc'[p].fd_out = proc[p].fd_out
    BY OpenOnce
  <2> HIDE DEF Out
  <2> QED BY <1>1, <1>6, <1>8, <2>1
<1>12. Tmp(p)'
  <2>1. ~OpenTmp(p) => proc'[p].fd_tmp \in {0, proc[p].fd_tmp}
    BY OpenOnce
  <2> HIDE DEF Tmp
  <2> QED BY <1>1, <1>6, <1>9, <2>1
<1>13. ASSUME NEW q \in Procs \ {p} PROVE In(q)' /\ Out(q)' /\ Tmp(q)'
  <2>1. proc'[q] = proc[q]
    BY <1>1
  <2> HIDE DEF In, Out, Tmp
  <2> QED BY <1>6, <2>1
<1>14. \A q \in Procs : In(q)' /\ Out(q)' /\ Tmp(q)'
  <2> HIDE DEF In, Out, Tmp
  <2> QED BY <1>10, <1>11, <1>12, <1>13
<1> QED BY <1>14 DEF OpensInv, Opens

-----------------------------------------------------------------------------
(* Who is left alone finds his files as he left them.                      *)

LEMMA ApartNext ==
    ASSUME TypeInv', PlaceInv', OpensInv', NEW q \in Procs, Alone(q)', proc'[q].fd_tmp # 0
    PROVE  proc'[q].fd_tmp \notin {proc'[q].fd_in, proc'[q].fd_out}
<1> DEFINE P == proc'[q]
<1>1. P \in ProcType /\ P.args \in Seq(STRING) /\ Len(P.args) \in Nat
  <2>1. P \in ProcType
    BY DEF TypeInv
  <2>2. P.args \in Seq(STRING)
    BY <2>1, FieldTypes
  <2> QED BY <2>1, <2>2, LenProperties
<1>2. \A k \in 2 .. Len(P.args) : P.args[k] \in Names \ {tmpfile}
  BY DEF PlaceInv, Place, Alone
<1>3. P.fd_tmp > 2 * N /\ \A n \in Names \ {tmpfile} : dir'[n] # P.fd_tmp
  BY DEF OpensInv, Opens
<1>4. 2 * q \in 1 .. 2 * N /\ 2 * q - 1 \in 1 .. 2 * N /\ 2 * N \in Nat
  BY NumbersOfFiles
<1>5. P.fd_in # 0 => P.fd_in = 2 * q - 1 \/ \E n \in Names \ {tmpfile} : dir'[n] = P.fd_in
  <2>1. P.fd_in # 0 => IF Len(P.args) < 2 THEN P.fd_in = 2 * q - 1
                       ELSE P.args[2] # tmpfile => dir'[P.args[2]] = P.fd_in
    BY DEF OpensInv, Opens
  <2>2. ~(Len(P.args) < 2) => P.args[2] \in Names \ {tmpfile}
    BY <1>1, <1>2
  <2> HIDE DEF P
  <2> QED BY <2>1, <2>2
<1>6. P.fd_out # 0 => P.fd_out = 2 * q \/ \E n \in Names \ {tmpfile} : dir'[n] = P.fd_out
  <2>1. P.fd_out # 0 => IF Len(P.args) < 3 THEN P.fd_out = 2 * q
                        ELSE P.args[3] # tmpfile => dir'[P.args[3]] = P.fd_out
    BY DEF OpensInv, Opens
  <2>2. ~(Len(P.args) < 3) => P.args[3] \in Names \ {tmpfile}
    BY <1>1, <1>2
  <2> HIDE DEF P
  <2> QED BY <2>1, <2>2
<1> HIDE DEF P
<1>7. P.fd_tmp # 2 * q /\ P.fd_tmp # 2 * q - 1
  BY <1>3, <1>4
<1>8. P.fd_tmp # 0
  BY DEF P
<1>9. P.fd_tmp \notin {P.fd_in, P.fd_out}
  BY <1>3, <1>5, <1>6, <1>7, <1>8
<1> QED BY <1>9 DEF P

LEMMA OthersUntouched ==
    ASSUME TypeInv, DirInv, PlaceInv, NEW p \in Procs, NEW i \in Nat, NEW name \in Names, FileStep(p, i, name),
           NEW q \in Procs \ {p}, proc'[q] = proc[q], Alone(q)'
    PROVE  Alone(q) /\ \A f \in Used(q) : f \in 1 .. Len(data) /\ data'[f] = data[f]
<1>1. ~meddled'[q]
  BY DEF Alone
<1>2. ~meddled[q] /\ i \notin Used(q)
  BY <1>1 DEF FileStep
<1>3. Alone(q)
  BY <1>2 DEF Alone
<1>4. \A f \in Used(q) : f \in 1 .. Len(data)
  <2>1. proc[q] \in ProcType /\ Len(data) \in Nat
    BY LenProperties DEF TypeInv
  <2> QED BY <2>1, FieldTypes DEF Used, TypeInv
<1> QED BY <1>2, <1>3, <1>4 DEF FileStep, Untouched

LEMMA InputStep ==
    ASSUME TypeInv, DirInv, PlaceInv, InputInv, TypeInv', PlaceInv', OpensInv',
           NEW p \in Procs, Step(p) \/ Kill(p)
    PROVE  InputInv'
<1>1. PICK i \in Nat, name \in Names : FileStep(p, i, name)
  BY StepFiles
<1>2. \A q \in Procs \ {p} : proc'[q] = proc[q] /\ origin'[q] = origin[q]
  BY StepMoves, OriginStep
<1>3. ASSUME NEW q \in Procs \ {p}, Alone(q)' PROVE data'[proc'[q].fd_in] = origin'[q]
  <2>1. Alone(q) /\ \A f \in Used(q) : data'[f] = data[f]
    BY <1>1, <1>2, <1>3, OthersUntouched
  <2>2. proc[q].fd_in \in Used(q)
    BY <2>1 DEF Alone, Used
  <2> QED BY <1>2, <2>1, <2>2 DEF InputInv
<1>4. ASSUME Alone(p)' PROVE data'[proc'[p].fd_in] = origin'[p]
  <2>0. proc'[p].fd_in # 0 /\ proc'[p].fd_in # proc'[p].fd_out /\ ~meddled'[p]
    BY <1>4 DEF Alone
  <2>1. CASE OpenInput(p)
    BY <2>0, <2>1, OriginStep DEF OpenInput
  <2>2. CASE ~OpenInput(p)
    <3>1. proc'[p].fd_in = proc[p].fd_in /\ origin'[p] = origin[p] /\ proc'[p].args = proc[p].args
      BY <2>2, OpenOnce, OriginStep, StepMoves
    <3>2. i # proc[p].fd_in
      BY <1>1, <1>4, <2>0, <3>1, ApartNext DEF FileStep
    <3>3. proc[p].fd_in \in 1 .. Len(data)
      <4>1. proc[p].fd_in \in Nat /\ proc[p].fd_in <= Len(data) /\ Len(data) \in Nat
        BY FieldTypes, LenProperties DEF TypeInv
      <4> QED BY <2>0, <3>1, <4>1
    <3>4. data'[proc[p].fd_in] = data[proc[p].fd_in]
      BY <1>1, <3>2, <3>3 DEF FileStep, Untouched
    <3>5. proc[p].fd_in # proc[p].fd_out
      <4>1. OpenOutput(p) => proc[p].fd_out = 0
        BY DEF OpenOutput, PlaceInv, Place
      <4> QED BY <2>0, <3>1, <4>1, OpenOnce
    <3>6. Alone(p)
      BY <1>1, <1>4, <3>1, <3>5 DEF Alone, FileStep
    <3> QED BY <3>1, <3>4, <3>6 DEF InputInv
  <2> QED BY <2>1, <2>2
<1> QED BY <1>3, <1>4 DEF InputInv

LEMMA StdoutStep ==
    ASSUME TypeInv, DirInv, PlaceInv, OpensInv, StdoutInv, OpensInv', NEW p \in Procs, Step(p) \/ Kill(p)
    PROVE  StdoutInv'
<1>1. PICK i \in Nat, name \in Names : FileStep(p, i, name)
  BY StepFiles
<1>2. \A q \in Procs \ {p} : proc'[q] = proc[q]
  BY StepMoves
<1>3. i = 0 \/ i > 2 * N \/ (i = 2 * p /\ proc'[p].fd_out = 2 * p)
  BY <1>1 DEF FileStep, OpensInv, Opens
<1>4. ASSUME NEW q \in Procs, proc'[q].fd_out # 2 * q PROVE data'[2 * q] = <<>>
  <2>1. 2 * q \in 1 .. Len(data) /\ 2 * q \in 1 .. 2 * N /\ 2 * N \in Nat
    <3>1. 2 * q \in 1 .. 2 * N /\ Len(data) \in Nat /\ 2 * N <= Len(data) /\ N \in Nat
      BY NumbersOfFiles, LenProperties DEF TypeInv
    <3> QED BY <3>1
  <2>2. i # 2 * q
    <3>1. 2 * p = 2 * q => p = q
      BY NumbersOfFiles
    <3> QED BY <1>3, <1>4, <2>1, <3>1
  <2>3. data'[2 * q] = data[2 * q]
    BY <1>1, <2>1, <2>2 DEF FileStep, Untouched
  <2>4. proc[q].fd_out # 2 * q
    <3>1. CASE q # p
      BY <1>2, <1>4, <3>1
    <3>2. CASE q = p
      <4>1. OpenOutput(p) => proc[p].fd_out = 0
        BY DEF OpenOutput, PlaceInv, Place
      <4>2. 2 * p # 0
        BY NumbersOfFiles
      <4> QED BY <1>4, <3>2, <4>1, <4>2, OpenOnce
    <3> QED BY <3>1, <3>2
  <2> QED BY <2>3, <2>4 DEF StdoutInv
<1> QED BY <1>4 DEF StdoutInv

-----------------------------------------------------------------------------
(* The temporary file.                                                     *)

LEMMA TmpMade ==
    ASSUME TypeInv, DirInv, PlaceInv, NEW p \in Procs, Step(p) \/ Kill(p), ~OpenTmp(p), dir[tmpfile] = 0,
           \A k \in 2 .. Len(proc[p].args) : proc[p].args[k] # tmpfile
    PROVE  dir'[tmpfile] = 0
<1>1. tmpfile \in Names
  BY RkaAssumption
<1>2. dir' = dir => dir'[tmpfile] = 0
  OBVIOUS
<1>3. OpenOutput(p) => dir'[tmpfile] = 0
  <2> SUFFICES ASSUME OpenOutput(p) PROVE dir'[tmpfile] = 0
    OBVIOUS
  <2>1. CASE ~(argc(p) > 3)
    BY <2>1 DEF OpenOutput
  <2>2. CASE argc(p) > 3
    <3>1. proc[p].args[3] \in Names /\ FopenW(p, proc[p].args[3])
      BY <2>2, OutputName DEF OpenOutput
    <3>2. proc[p].args[3] # tmpfile
      <4>1. Len(proc[p].args) \in Nat
        BY FieldTypes, LenProperties DEF TypeInv
      <4>2. 3 \in 2 .. Len(proc[p].args)
        BY <2>2, <4>1 DEF argc
      <4> QED BY <4>2
    <3>3. \A x \in Names \ {proc[p].args[3]} : dir'[x] = dir[x]
      BY <3>1, FopenEffect
    <3> QED BY <1>1, <3>2, <3>3
  <2> QED BY <2>1, <2>2
<1>4. RemoveTmp(p) => dir'[tmpfile] = 0
  BY <1>1 DEF RemoveTmp, TypeInv
<1>5. CommandRequired(p) \/ UnknownCommand(p) \/ OpenInput(p) \/ Refill(p) \/ WriteOut(p) \/ AssertFails(p)
      \/ EncodeByte(p) \/ Rewind(p) \/ CopyBlock(p) \/ NoOutput(p) \/ CopyEnds(p) \/ UnpackChar(p)
      \/ ExitNicely(p) \/ ExitFails(p) \/ Kill(p) => dir' = dir
  BY DEF CommandRequired, UnknownCommand, Exits, OpenInput, Refill, WriteOut, AssertFails, EncodeByte, Rewind,
         CopyBlock, NoOutput, CopyEnds, UnpackChar, ExitNicely, ExitFails, Kill
<1> QED BY <1>2, <1>3, <1>4, <1>5 DEF Step

LEMMA TmpStep ==
    ASSUME TypeInv, DirInv, PlaceInv, TmpInv, NEW p \in Procs, Step(p) \/ Kill(p)
    PROVE  TmpInv'
<1> DEFINE S == {"encode", "copy", "remove", "aborted", "killed"}
           E == {"exit", "exited"}
<1>1. proc'[p].args = proc[p].args /\ \A q \in Procs \ {p} : proc'[q] = proc[q]
  BY StepMoves
<1>2. \A q \in Procs : proc'[q].args = proc[q].args /\ Command(q)' = Command(q) /\ Busy(q)' = Busy(q)
  BY <1>1, SameArguments
<1>3. Place(p)
  BY DEF PlaceInv
(* Who has made the temporary file leaves it only by removing it.          *)
<1>4. proc[p].at \in S => proc'[p].at \in S \/ RemoveTmp(p)
  <2>1. Refill(p) \/ WriteOut(p) \/ EncodeByte(p) \/ CopyBlock(p) => proc'[p].at = proc[p].at
    BY BufferEffects
  <2>2. AssertFails(p) \/ NoOutput(p) \/ ExitFails(p) \/ Kill(p) \/ CopyEnds(p) \/ Rewind(p) \/ OpenTmp(p)
        => proc'[p].at \in S
    BY EndEffects, OtherEffects, OpenEffects DEF EndsAt
  <2>3. CommandRequired(p) \/ UnknownCommand(p) \/ OpenInput(p) \/ OpenOutput(p) \/ UnpackChar(p) \/ ExitNicely(p)
        => proc[p].at \notin S
    BY DEF CommandRequired, UnknownCommand, OpenInput, OpenOutput, UnpackChar, ExitNicely
  <2> QED BY <2>1, <2>2, <2>3 DEF Step
(* Who comes to the end of pack was to remove it.                          *)
<1>5. proc'[p].at \in E /\ Busy(p) /\ Command(p) = "pack" => proc[p].at \in E \/ RemoveTmp(p)
  <2>1. Refill(p) \/ WriteOut(p) \/ EncodeByte(p) \/ CopyBlock(p) => proc'[p].at = proc[p].at
    BY BufferEffects
  <2>2. AssertFails(p) \/ NoOutput(p) \/ ExitFails(p) \/ Kill(p) \/ CopyEnds(p) \/ Rewind(p) \/ OpenTmp(p)
        \/ OpenInput(p) => proc'[p].at \notin E
    BY EndEffects, OtherEffects, OpenEffects DEF EndsAt
  <2>3. ExitNicely(p) => proc[p].at \in E
    BY DEF ExitNicely
  <2>4. CommandRequired(p) => ~Busy(p)
    <3>1. Len(proc[p].args) \in Nat
      BY FieldTypes, LenProperties DEF TypeInv
    <3> QED BY <3>1 DEF CommandRequired, Busy, argc
  <2>5. UnknownCommand(p) => ~Busy(p)
    BY DEF UnknownCommand, Busy
  <2>6. UnpackChar(p) => Command(p) # "pack"
    BY <1>3 DEF UnpackChar, Place
  <2>7. OpenOutput(p) => proc'[p].at \notin E
    <3>1. OpenOutput(p) => Command(p) \in {"pack", "unpack"} /\ proc'[p].at = Command(p)
      BY <1>3, OpenEffects DEF OpenOutput, Place, Busy
    <3> QED BY <3>1
  <2> QED BY <2>1, <2>2, <2>3, <2>4, <2>5, <2>6, <2>7 DEF Step
<1>6. ASSUME \A q \in Procs : \A k \in 2 .. Len(proc'[q].args) : proc'[q].args[k] # tmpfile,
             NEW r \in Procs, proc'[r].at \in E, Busy(r)', Command(r)' = "pack",
             dir'[tmpfile] # 0
      PROVE  \E q \in Procs : proc'[q].at \in S
  <2> SUFFICES ASSUME \A q \in Procs : proc'[q].at \notin S PROVE FALSE
    OBVIOUS
  <2>1. ~RemoveTmp(p)
    BY <1>6, RkaAssumption DEF RemoveTmp, TypeInv
  <2>2. \A q \in Procs : proc[q].at \notin S
    BY <1>1, <1>4, <2>1
  <2>3. proc[r].at \in E /\ Busy(r) /\ Command(r) = "pack"
    BY <1>1, <1>2, <1>5, <1>6, <2>1
  <2>4. \A q \in Procs : \A k \in 2 .. Len(proc[q].args) : proc[q].args[k] # tmpfile
    BY <1>2, <1>6
  <2>5. ~OpenTmp(p)
    BY OpenEffects
  <2>6. dir[tmpfile] # 0
    BY <1>6, <2>4, <2>5, TmpMade
  <2> QED BY <2>2, <2>3, <2>4, <2>6 DEF TmpInv
<1> QED BY <1>6 DEF TmpInv

-----------------------------------------------------------------------------
(* What is read and written, as a matter of sequences.                     *)

LEMMA FirstFromIs ==
    ASSUME NEW s \in Bytes, NEW i \in Nat \ {0}, NEW S
    PROVE  LET f == FirstFrom(s, i, S)
           IN  /\ f \in Nat /\ f <= Len(s) + 1 /\ (i <= Len(s) + 1 => i <= f)
               /\ f <= Len(s) => i <= f /\ s[f] \in S
               /\ \A j \in i .. Len(s) : j < f => s[j] \notin S
<1> DEFINE places == {j \in i .. Len(s) : s[j] \in S}
           f == FirstFrom(s, i, S)
<1>1. Len(s) \in Nat
  BY LenProperties DEF Bytes
<1>2. CASE places = {}
  <2>1. f = Len(s) + 1
    BY <1>2 DEF FirstFrom
  <2>2. \A j \in i .. Len(s) : s[j] \notin S
    BY <1>2
  <2> HIDE DEF f
  <2>3. /\ f \in Nat /\ f <= Len(s) + 1 /\ (i <= Len(s) + 1 => i <= f)
        /\ f <= Len(s) => i <= f /\ s[f] \in S
        /\ \A j \in i .. Len(s) : j < f => s[j] \notin S
    BY <1>1, <2>1, <2>2
  <2> QED BY <2>3 DEF f
<1>3. CASE places # {}
  <2>1. places \subseteq Nat
    BY <1>1
  <2>2. \E x \in places : \A y \in places : x <= y
    <3> HIDE DEF places
    <3> QED BY <1>3, <2>1, LeastNat
  <2>3. f = CHOOSE j \in places : \A k \in places : j <= k
    BY <1>3 DEF FirstFrom
  <2>4. f \in places /\ \A k \in places : f <= k
    BY <2>2, <2>3
  <2> HIDE DEF f
  <2>5. /\ f \in Nat /\ f <= Len(s) /\ i <= f /\ s[f] \in S
        /\ \A j \in i .. Len(s) : j < f => s[j] \notin S
    BY <1>1, <2>4
  <2>6. /\ f \in Nat /\ f <= Len(s) + 1 /\ (i <= Len(s) + 1 => i <= f)
        /\ f <= Len(s) => i <= f /\ s[f] \in S
        /\ \A j \in i .. Len(s) : j < f => s[j] \notin S
    BY <1>1, <2>5
  <2> QED BY <2>6 DEF f
<1> QED BY <1>2, <1>3

BodyEnd(t) == FirstFrom(t, SyncAt(t) + 3, {END_OF_BODY})

(* The places of a tape, in their order, and what is at them.              *)
LEMMA TapePlaces ==
    ASSUME NEW t \in Bytes, IsTape(t)
    PROVE  /\ Len(t) \in Nat /\ 4 < Len(t) /\ \A i \in 1 .. 4 : t[i] = SYNC
           /\ NameEnd(t) \in Nat /\ 5 <= NameEnd(t) /\ NameEnd(t) < SyncAt(t)
           /\ NameEnd(t) - 5 <= NAME_MAX /\ SyncAt(t) - NameEnd(t) - 1 <= PADDING
           /\ SyncAt(t) \in Nat /\ SyncAt(t) + 2 <= Len(t)
           /\ BodyEnd(t) \in Nat /\ SyncAt(t) + 3 <= BodyEnd(t) /\ BodyEnd(t) <= Len(t) + 1
           /\ t[NameEnd(t)] = 0 /\ \A i \in 5 .. NameEnd(t) - 1 : t[i] # 0
           /\ t[SyncAt(t)] # 0 /\ \A i \in NameEnd(t) + 1 .. SyncAt(t) - 1 : t[i] = 0
           /\ BodyEnd(t) <= Len(t) => t[BodyEnd(t)] = END_OF_BODY
           /\ \A i \in SyncAt(t) + 3 .. BodyEnd(t) - 1 : t[i] # END_OF_BODY
<1> DEFINE n == NameEnd(t)
           s == SyncAt(t)
           b == BodyEnd(t)
<1>1. Len(t) \in Nat /\ \A i \in 1 .. Len(t) : t[i] \in Byte
  BY LenProperties, ElementOfSeq DEF Bytes
<1>2. /\ Len(t) > 4 /\ \A i \in 1 .. 4 : t[i] = SYNC
      /\ n - 5 <= NAME_MAX /\ s + 2 <= Len(t) /\ s - n - 1 <= PADDING
  BY DEF IsTape
<1>3. /\ n \in Nat /\ n <= Len(t) + 1 /\ (5 <= Len(t) + 1 => 5 <= n)
      /\ n <= Len(t) => 5 <= n /\ t[n] \in {0}
      /\ \A j \in 5 .. Len(t) : j < n => t[j] \notin {0}
  <2>1. 5 \in Nat \ {0}
    OBVIOUS
  <2> QED BY <2>1, FirstFromIs DEF NameEnd
<1>4. PICK m \in Nat : m = n
  BY <1>3
<1>5. /\ s \in Nat /\ s <= Len(t) + 1
      /\ s <= Len(t) => m + 1 <= s /\ t[s] \in 1 .. 255
      /\ \A j \in m + 1 .. Len(t) : j < s => t[j] \notin 1 .. 255
  <2>1. m + 1 \in Nat \ {0} /\ s = FirstFrom(t, m + 1, 1 .. 255)
    BY <1>4 DEF SyncAt
  <2> HIDE DEF s
  <2>2. LET f == FirstFrom(t, m + 1, 1 .. 255)
        IN  /\ f \in Nat /\ f <= Len(t) + 1 /\ (m + 1 <= Len(t) + 1 => m + 1 <= f)
            /\ f <= Len(t) => m + 1 <= f /\ t[f] \in 1 .. 255
            /\ \A j \in m + 1 .. Len(t) : j < f => t[j] \notin 1 .. 255
    BY <2>1, FirstFromIs
  <2> QED BY <2>1, <2>2
<1>6. PICK x \in Nat : x = s
  BY <1>5
<1>7. /\ b \in Nat /\ b <= Len(t) + 1 /\ (x + 3 <= Len(t) + 1 => x + 3 <= b)
      /\ b <= Len(t) => x + 3 <= b /\ t[b] \in {END_OF_BODY}
      /\ \A j \in x + 3 .. Len(t) : j < b => t[j] \notin {END_OF_BODY}
  <2>1. x + 3 \in Nat \ {0} /\ b = FirstFrom(t, x + 3, {END_OF_BODY})
    BY <1>6 DEF BodyEnd
  <2> HIDE DEF b
  <2>2. LET f == FirstFrom(t, x + 3, {END_OF_BODY})
        IN  /\ f \in Nat /\ f <= Len(t) + 1 /\ (x + 3 <= Len(t) + 1 => x + 3 <= f)
            /\ f <= Len(t) => x + 3 <= f /\ t[f] \in {END_OF_BODY}
            /\ \A j \in x + 3 .. Len(t) : j < f => t[j] \notin {END_OF_BODY}
    BY <2>1, FirstFromIs
  <2> QED BY <2>1, <2>2
<1>8. PICK y \in Nat : y = b
  BY <1>7
<1> HIDE DEF n, s, b
<1>9. /\ 5 <= m /\ m < x /\ x <= Len(t) /\ m <= Len(t) /\ x + 3 <= y /\ y <= Len(t) + 1
  BY <1>1, <1>2, <1>3, <1>4, <1>5, <1>6, <1>7, <1>8
<1>10. t[m] = 0 /\ \A i \in 5 .. m - 1 : t[i] # 0
  BY <1>1, <1>3, <1>4, <1>9
<1>11. t[x] # 0 /\ \A i \in m + 1 .. x - 1 : t[i] = 0
  <2>1. t[x] \in 1 .. 255
    BY <1>5, <1>6, <1>9
  <2>2. ASSUME NEW i \in m + 1 .. x - 1 PROVE t[i] = 0
    <3>1. i \in m + 1 .. Len(t) /\ i < x /\ i \in 1 .. Len(t)
      BY <1>1, <1>9
    <3>2. t[i] \notin 1 .. 255 /\ t[i] \in Byte
      BY <1>1, <1>5, <1>6, <3>1
    <3> QED BY <3>2 DEF Byte
  <2> QED BY <2>1, <2>2
<1>12. (y <= Len(t) => t[y] = END_OF_BODY) /\ \A i \in x + 3 .. y - 1 : t[i] # END_OF_BODY
  BY <1>1, <1>7, <1>8, <1>9
<1>13. /\ Len(t) \in Nat /\ 4 < Len(t) /\ \A i \in 1 .. 4 : t[i] = SYNC
       /\ n \in Nat /\ 5 <= n /\ n < s /\ n - 5 <= NAME_MAX /\ s - n - 1 <= PADDING
       /\ s \in Nat /\ s + 2 <= Len(t) /\ b \in Nat /\ s + 3 <= b /\ b <= Len(t) + 1
       /\ t[n] = 0 /\ \A i \in 5 .. n - 1 : t[i] # 0
       /\ t[s] # 0 /\ \A i \in n + 1 .. s - 1 : t[i] = 0
       /\ b <= Len(t) => t[b] = END_OF_BODY
       /\ \A i \in s + 3 .. b - 1 : t[i] # END_OF_BODY
  BY <1>1, <1>2, <1>4, <1>6, <1>8, <1>9, <1>10, <1>11, <1>12
<1> QED BY <1>13 DEF n, s, b

(* One character takes unpack to the next place of a tape, or from the     *)
(* last of the body to its end.                                            *)
LEMMA TapeStep ==
    ASSUME NEW t \in Bytes, IsTape(t), NEW P \in ProcType, NEW k \in Nat, k <= Len(t), Parsed(P, t, k)
    PROVE  LET c == IF k = Len(t) THEN 255 ELSE t[k + 1]
               u == NextPart(At(P.part, P.count), c)
           IN  \/ /\ k < Len(t) /\ u.part \notin {"binary", "end"} /\ Parsed(u, t, k + 1)
                  /\ P.part = "body" => u.part = "body"
                  /\ u.part = "body" => k = SyncAt(t) + 1 \/ P.part = "body"
               \/ P.part = "body" /\ u.part = "end" /\ k + 1 = BodyEnd(t)
<1> DEFINE c == IF k = Len(t) THEN 255 ELSE t[k + 1]
           v == At(P.part, P.count)
           u == NextPart(v, c)
<1> SUFFICES \/ /\ k < Len(t) /\ u.part \notin {"binary", "end"} /\ Parsed(u, t, k + 1)
                /\ P.part = "body" => u.part = "body"
                /\ u.part = "body" => k = SyncAt(t) + 1 \/ P.part = "body"
             \/ P.part = "body" /\ u.part = "end" /\ k + 1 = BodyEnd(t)
  OBVIOUS
<1>0. \A a, b : At(a, b).part = a /\ At(a, b).count = b
  BY DEF At
<1>1. v.part = P.part /\ v.count = P.count
  BY <1>0
<1>2. P.part \in Parts /\ P.count \in Nat
  BY FieldTypes
<1>3. PICK n \in Nat : n = NameEnd(t)
  BY TapePlaces
<1>4. PICK s \in Nat : s = SyncAt(t)
  BY TapePlaces
<1>5. PICK b \in Nat : b = BodyEnd(t)
  BY TapePlaces
<1>6. /\ Len(t) \in Nat /\ 4 < Len(t) /\ \A i \in 1 .. 4 : t[i] = SYNC
      /\ 5 <= n /\ n < s /\ n - 5 <= NAME_MAX /\ s - n - 1 <= PADDING
      /\ s + 2 <= Len(t) /\ s + 3 <= b /\ b <= Len(t) + 1
      /\ t[n] = 0 /\ \A i \in 5 .. n - 1 : t[i] # 0
      /\ t[s] # 0 /\ \A i \in n + 1 .. s - 1 : t[i] = 0
      /\ b <= Len(t) => t[b] = END_OF_BODY
      /\ \A i \in s + 3 .. b - 1 : t[i] # END_OF_BODY
  BY <1>3, <1>4, <1>5, TapePlaces
<1>7. NAME_MAX \in Nat /\ PADDING \in Nat
  BY RkaAssumption
<1> HIDE DEF v
<1>8. ASSUME NEW w, NEW j
      PROVE  /\ w.part = "header"  => (Parsed(w, t, j) <=> j < 4 /\ w.count = j)
             /\ w.part = "name"    => (Parsed(w, t, j) <=> 4 <= j /\ j < n /\ w.count = j - 4)
             /\ w.part = "padding" => (Parsed(w, t, j) <=> n <= j /\ j < s /\ w.count = j - n)
             /\ w.part = "service" => (Parsed(w, t, j) <=> w.count \in 1 .. 2 /\ j = s + w.count - 1)
             /\ w.part = "body"    => (Parsed(w, t, j) <=> s + 2 <= j /\ j < b)
  BY <1>3, <1>4, <1>5 DEF Parsed, BodyEnd
<1>9. P.part \notin {"address", "binary", "end"}
  BY DEF Parsed
<1>10. CASE P.part = "header"
  <2>1. k < 4 /\ P.count = k
    BY <1>8, <1>10
  <2>2. k < Len(t) /\ c = SYNC
    <3>1. k < Len(t) /\ k + 1 \in 1 .. 4 /\ k # Len(t)
      BY <1>6, <2>1
    <3> QED BY <1>6, <3>1
  <2> HIDE DEF c
  <2>3. u = Marks(v, c)
    BY <1>1, <1>10 DEF NextPart
  <2> HIDE DEF u
  <2>4. CASE k < 3
    <3>1. u = At("header", k + 1)
      BY <1>1, <1>10, <2>1, <2>2, <2>3, <2>4 DEF Marks
    <3>2. u.part = "header" /\ u.count = k + 1
      BY <1>0, <3>1
    <3> QED BY <1>8, <1>10, <2>2, <2>4, <3>2
  <2>5. CASE k = 3
    <3>1. u = At("name", 0)
      BY <1>1, <1>10, <2>1, <2>2, <2>3, <2>5 DEF Marks
    <3>2. u.part = "name" /\ u.count = 0
      BY <1>0, <3>1
    <3>3. Parsed(u, t, k + 1)
      BY <1>6, <1>8, <2>5, <3>2, SMTT(30)
    <3> QED BY <1>10, <2>2, <3>2, <3>3
  <2> QED BY <2>1, <2>4, <2>5
<1>11. CASE P.part = "name"
  <2>1. 4 <= k /\ k < n /\ P.count = k - 4
    BY <1>8, <1>11
  <2>2. k < Len(t) /\ c = t[k + 1]
    BY <1>6, <2>1
  <2> HIDE DEF c
  <2>3. u = Name(v, c)
    BY <1>1, <1>11 DEF NextPart
  <2> HIDE DEF u
  <2>4. CASE k + 1 = n
    <3>1. u = At("padding", 0)
      BY <1>6, <2>2, <2>3, <2>4 DEF Name
    <3>2. u.part = "padding" /\ u.count = 0
      BY <1>0, <3>1
    <3>3. n <= k + 1 /\ k + 1 < s /\ 0 = k + 1 - n
      BY <1>6, <2>4
    <3>4. Parsed(u, t, k + 1)
      BY <1>8, <3>2, <3>3
    <3> QED BY <1>11, <2>2, <3>2, <3>4
  <2>5. CASE k + 1 # n
    <3>1. c # 0 /\ v.count # NAME_MAX
      <4>1. k + 1 \in 5 .. n - 1
        BY <2>1, <2>5
      <4>2. k - 4 # NAME_MAX
        BY <1>6, <1>7, <2>1, <2>5
      <4>3. v.count = k - 4
        BY <1>1, <2>1
      <4> QED BY <1>6, <2>2, <4>1, <4>2, <4>3
    <3>2. u = At("name", v.count + 1)
      BY <2>3, <3>1 DEF Name
    <3>3. u.part = "name" /\ u.count = v.count + 1
      BY <1>0, <3>2
    <3>4. Parsed(u, t, k + 1)
      BY <1>1, <1>8, <2>1, <2>5, <3>3
    <3> QED BY <1>11, <2>2, <3>3, <3>4
  <2> QED BY <2>4, <2>5
<1>12. CASE P.part = "padding"
  <2>1. n <= k /\ k < s /\ P.count = k - n
    BY <1>8, <1>12
  <2>2. k < Len(t) /\ c = t[k + 1]
    BY <1>6, <2>1
  <2> HIDE DEF c
  <2>3. u = Zeros(v, c)
    BY <1>1, <1>12 DEF NextPart
  <2> HIDE DEF u
  <2>4. CASE k + 1 = s
    <3>1. u = At("service", 1)
      BY <1>6, <2>2, <2>3, <2>4 DEF Zeros
    <3>2. u.part = "service" /\ u.count = 1
      BY <1>0, <3>1
    <3>3. 1 \in 1 .. 2 /\ k + 1 = s + 1 - 1
      BY <2>4
    <3>4. Parsed(u, t, k + 1)
      BY <1>8, <3>2, <3>3
    <3> QED BY <1>12, <2>2, <3>2, <3>4
  <2>5. CASE k + 1 # s
    <3>1. c = 0 /\ v.count < PADDING
      <4>1. k + 1 \in n + 1 .. s - 1
        BY <2>1, <2>5
      <4>2. k - n < PADDING
        BY <1>6, <1>7, <2>1, <2>5
      <4>3. v.count = k - n
        BY <1>1, <2>1
      <4> QED BY <1>6, <2>2, <4>1, <4>2, <4>3
    <3>2. u = At("padding", v.count + 1)
      BY <2>3, <3>1 DEF Zeros
    <3>3. u.part = "padding" /\ u.count = v.count + 1
      BY <1>0, <3>2
    <3>4. Parsed(u, t, k + 1)
      BY <1>1, <1>8, <2>1, <2>5, <3>3
    <3> QED BY <1>12, <2>2, <3>3, <3>4
  <2> QED BY <2>4, <2>5
<1>13. CASE P.part = "service"
  <2>1. P.count \in 1 .. 2 /\ k = s + P.count - 1
    BY <1>8, <1>13
  <2>2. k < Len(t)
    BY <1>6, <2>1
  <2> HIDE DEF c
  <2>3. u = Service(v, c)
    BY <1>1, <1>13 DEF NextPart
  <2> HIDE DEF u
  <2>4. CASE P.count = 1
    <3>1. u = At("service", 1 + 1)
      BY <1>1, <2>3, <2>4 DEF Service
    <3>2. u.part = "service" /\ u.count = 2
      BY <1>0, <3>1
    <3>3. Parsed(u, t, k + 1)
      BY <1>8, <2>1, <2>4, <3>2
    <3> QED BY <1>13, <2>2, <3>2, <3>3
  <2>5. CASE P.count = 2
    <3>1. u = At("body", 0)
      BY <1>1, <2>3, <2>5 DEF Service
    <3>2. u.part = "body"
      BY <1>0, <3>1
    <3>3. Parsed(u, t, k + 1)
      BY <1>6, <1>8, <2>1, <2>5, <3>2
    <3>4. k = SyncAt(t) + 1
      BY <1>4, <2>1, <2>5
    <3> QED BY <1>13, <2>2, <3>2, <3>3, <3>4
  <2> QED BY <2>1, <2>4, <2>5
<1>14. CASE P.part = "body"
  <2>1. s + 2 <= k /\ k < b
    BY <1>8, <1>14
  <2>2. k + 1 = b => c = END_OF_BODY
    BY <1>6, <2>1 DEF END_OF_BODY
  <2>3. k + 1 # b => k < Len(t) /\ c # END_OF_BODY
    BY <1>6, <2>1
  <2> HIDE DEF c
  <2>4. u = Body(v, c)
    BY <1>1, <1>14 DEF NextPart
  <2> HIDE DEF u
  <2>5. CASE k + 1 = b
    <3>1. u = At("end", 0)
      BY <2>2, <2>4, <2>5 DEF Body
    <3>2. u.part = "end"
      BY <1>0, <3>1
    <3> QED BY <1>5, <1>14, <2>5, <3>2
  <2>6. CASE k + 1 # b
    <3>1. u = At("body", 0)
      BY <2>3, <2>4, <2>6 DEF Body
    <3>2. u.part = "body"
      BY <1>0, <3>1
    <3>3. Parsed(u, t, k + 1)
      BY <1>8, <2>1, <2>6, <3>2
    <3> QED BY <1>14, <2>3, <2>6, <3>2, <3>3
  <2> QED BY <2>5, <2>6
<1> HIDE DEF u
<1> QED BY <1>2, <1>9, <1>10, <1>11, <1>12, <1>13, <1>14 DEF Parts

-----------------------------------------------------------------------------
(* What reading and writing do to the buffers.                             *)

LEMMA RefillReads ==
    ASSUME NEW P \in ProcType, NEW t \in Bytes, Reads(P, t), P.ibuf = <<>>,
           NEW Q, Q.ibuf = FirstOf(Rest(t, P.rpos), BUF), Q.rpos = P.rpos + Len(Q.ibuf), Q.eof <=> Q.ibuf = <<>>
    PROVE  Reads(Q, t) /\ Consumed(Q) = Consumed(P)
<1>1. PICK r \in Nat : r = P.rpos
  BY FieldTypes
<1>2. r <= Len(t) /\ Len(t) \in Nat /\ BUF \in Nat \ {0} /\ Len(P.ibuf) = 0
  BY <1>1, LenProperties, EmptySeq, RkaAssumption DEF Reads, Bytes
<1>3. /\ Rest(t, r) \in Bytes /\ Len(Rest(t, r)) = Len(t) - r
      /\ \A i \in 1 .. Len(t) - r : Rest(t, r)[i] = t[r + i]
  BY <1>2, RestType
<1>4. PICK b : b = FirstOf(Rest(t, r), BUF)
  OBVIOUS
<1>5. PICK m \in Nat : m = IF Len(t) - r < BUF THEN Len(t) - r ELSE BUF
  <2>1. Len(t) - r \in Nat /\ BUF \in Nat
    BY <1>2
  <2>2. (IF Len(t) - r < BUF THEN Len(t) - r ELSE BUF) \in Nat
    BY <2>1
  <2> QED BY <2>2
<1>6. b \in Bytes /\ Len(b) = m /\ \A i \in 1 .. m : b[i] = Rest(t, r)[i]
  <2>1. BUF \in Nat
    BY <1>2
  <2>2. PICK d \in Bytes : d = Rest(t, r)
    BY <1>3
  <2>3. /\ FirstOf(d, BUF) \in Bytes
        /\ Len(FirstOf(d, BUF)) = IF Len(d) < BUF THEN Len(d) ELSE BUF
        /\ \A i \in 1 .. Len(FirstOf(d, BUF)) : FirstOf(d, BUF)[i] = d[i]
    BY <2>1, FirstOfType
  <2>4. b = FirstOf(d, BUF) /\ Len(d) = Len(t) - r
    BY <1>3, <1>4, <2>2
  <2>5. Len(b) = m
    BY <1>5, <2>3, <2>4
  <2> QED BY <2>2, <2>3, <2>4, <2>5
<1>7. r + m <= Len(t) /\ (m = 0 => r = Len(t)) /\ r + m \in Nat /\ r + m - m = r
  BY <1>2, <1>5
<1>8. b = SubSeq(t, r + 1, r + m)
  <2>1. /\ SubSeq(t, r + 1, r + m) \in Bytes
        /\ Len(SubSeq(t, r + 1, r + m)) = IF r + 1 <= r + m THEN r + m - (r + 1) + 1 ELSE 0
        /\ \A i \in 1 .. r + m - (r + 1) + 1 : SubSeq(t, r + 1, r + m)[i] = t[r + 1 + i - 1]
    <3>1. r + 1 \in Nat \ {0}
      OBVIOUS
    <3> QED BY <1>7, <3>1, SubSeqType DEF Bytes
  <2>2. Len(SubSeq(t, r + 1, r + m)) = m
    BY <2>1
  <2>3. ASSUME NEW i \in 1 .. m PROVE b[i] = SubSeq(t, r + 1, r + m)[i]
    <3>1. i \in 1 .. r + m - (r + 1) + 1 /\ r + 1 + i - 1 = r + i /\ i \in 1 .. Len(t) - r
      BY <1>2, <1>7
    <3> QED BY <1>3, <1>6, <2>1, <3>1
  <2> QED BY <1>6, <2>1, <2>2, <2>3, SeqEqual DEF Bytes
<1>9. Q.ibuf = b /\ Q.rpos = r + m /\ (Q.eof <=> b = <<>>)
  BY <1>1, <1>4, <1>6
<1>10. Consumed(Q) = r /\ Consumed(P) = r
  BY <1>1, <1>2, <1>6, <1>7, <1>9 DEF Consumed
<1>11. m <= r + m /\ (b = <<>> => r + m = Len(t))
  <2>1. b = <<>> => m = 0
    BY <1>6, EmptySeq
  <2> QED BY <1>7, <2>1
<1> QED BY <1>6, <1>7, <1>8, <1>9, <1>10, <1>11 DEF Reads

LEMMA ByteRead ==
    ASSUME NEW P \in ProcType, NEW t \in Bytes, Reads(P, t), P.ibuf # <<>>,
           NEW Q, Q.ibuf = Tail(P.ibuf), Q.rpos = P.rpos, Q.eof = P.eof
    PROVE  /\ Reads(Q, t) /\ ~P.eof
           /\ Consumed(P) \in Nat /\ Consumed(P) + 1 <= Len(t) /\ Consumed(Q) = Consumed(P) + 1
           /\ Head(P.ibuf) = t[Consumed(P) + 1]
<1>1. PICK r \in Nat : r = P.rpos
  BY FieldTypes
<1>2. PICK n \in Nat \ {0} : n = Len(P.ibuf)
  BY FieldTypes, EmptySeq DEF Bytes
<1>3. n <= r /\ r <= Len(t) /\ Len(t) \in Nat
  BY <1>1, <1>2, LenProperties DEF Reads, Bytes
<1>4. PICK k \in Nat : k = r - n
  BY <1>3
<1>5. Consumed(P) = k /\ P.ibuf = SubSeq(t, k + 1, r) /\ ~P.eof
  BY <1>1, <1>2, <1>4 DEF Consumed, Reads
<1>6. k + 1 \in 1 .. Len(t) /\ r \in k + 1 .. Len(t)
  BY <1>2, <1>3, <1>4
<1>7. Head(P.ibuf) = t[k + 1] /\ Q.ibuf = SubSeq(t, k + 1 + 1, r)
  <2>1. \A m \in 1 .. Len(t) : \A j \in m .. Len(t) :
           Head(SubSeq(t, m, j)) = t[m] /\ Tail(SubSeq(t, m, j)) = SubSeq(t, m + 1, j)
    BY HeadTailOfSubSeq DEF Bytes
  <2> QED BY <1>5, <1>6, <2>1
<1>8. Len(Q.ibuf) = n - 1
  BY <1>2, FieldTypes, HeadTailProperties DEF Bytes
<1>9. Consumed(Q) = k + 1 /\ Q.rpos = r /\ n - 1 <= r
  <2>1. Q.rpos = r
    BY <1>1
  <2>2. Consumed(Q) = r - (n - 1)
    BY <1>8, <2>1 DEF Consumed
  <2> QED BY <1>2, <1>3, <1>4, <2>1, <2>2
<1>10. Reads(Q, t)
  BY <1>3, <1>5, <1>7, <1>8, <1>9 DEF Reads
<1> QED BY <1>5, <1>6, <1>7, <1>9, <1>10

(* A write to the end of what is there.                                    *)
LEMMA AllWritten ==
    ASSUME NEW P \in ProcType, NEW bytes \in Bytes, NEW text, Writes(P, bytes, text)
    PROVE  Overwrite(bytes, P.wpos, P.obuf) = text
<1>1. P.obuf \in Bytes
  BY FieldTypes
<1> QED BY <1>1, OverwriteAppends DEF Writes

LEMMA MoreBuffered ==
    ASSUME NEW P \in ProcType, NEW bytes \in Bytes, NEW text, Writes(P, bytes, text),
           NEW more \in Bytes, NEW Q, Q.obuf = P.obuf \o more, Q.wpos = P.wpos
    PROVE  Writes(Q, bytes, text \o more)
<1>1. P.obuf \in Bytes
  BY FieldTypes
<1>2. \A s, t, u \in Seq(Byte) : (s \o t) \o u = s \o (t \o u)
  BY ConcatAssociative, SMTT(30)
<1>3. (bytes \o P.obuf) \o more = bytes \o (P.obuf \o more)
  BY <1>1, <1>2 DEF Bytes
<1> QED BY <1>3 DEF Writes

LEMMA BlockWritten ==
    ASSUME NEW P \in ProcType, NEW bytes \in Bytes, NEW text, Writes(P, bytes, text), BUF < Len(P.obuf),
           NEW Q, Q.obuf = Rest(P.obuf, BUF), Q.wpos = P.wpos + BUF
    PROVE  Writes(Q, Overwrite(bytes, P.wpos, FirstOf(P.obuf, BUF)), text)
<1>1. PICK o \in Bytes : o = P.obuf
  BY FieldTypes
<1>2. BUF \in Nat \ {0} /\ Len(o) \in Nat /\ BUF < Len(o) /\ Len(bytes) \in Nat
  BY <1>1, RkaAssumption, LenProperties DEF Bytes
<1>3. FirstOf(o, BUF) \in Bytes /\ Len(FirstOf(o, BUF)) = BUF /\ Rest(o, BUF) \in Bytes
  <2>1. BUF \in Nat /\ ~(Len(o) < BUF)
    BY <1>2
  <2> QED BY <2>1, FirstOfType, RestType
<1>4. FirstOf(o, BUF) \o Rest(o, BUF) = o
  <2>1. 1 \in 1 .. Len(o) + 1 /\ BUF \in 1 - 1 .. Len(o) /\ Len(o) \in BUF .. Len(o) /\ ~(Len(o) < BUF)
    BY <1>2
  <2>2. SubSeq(o, 1, BUF) \o SubSeq(o, BUF + 1, Len(o)) = SubSeq(o, 1, Len(o))
    BY <2>1, ConcatAdjacentSubSeq DEF Bytes
  <2> QED BY <2>1, <2>2, SubSeqFull DEF FirstOf, Rest, Bytes
<1>5. Overwrite(bytes, P.wpos, FirstOf(o, BUF)) = bytes \o FirstOf(o, BUF)
  BY <1>3, OverwriteAppends DEF Writes
<1>6. (bytes \o FirstOf(o, BUF)) \o Rest(o, BUF) = bytes \o (FirstOf(o, BUF) \o Rest(o, BUF))
  <2>1. \A s, t, u \in Seq(Byte) : (s \o t) \o u = s \o (t \o u)
    BY ConcatAssociative
  <2> QED BY <1>3, <2>1 DEF Bytes
<1>7. Len(bytes \o FirstOf(o, BUF)) = Len(bytes) + BUF
  <2>1. \A s, t \in Seq(Byte) : Len(s \o t) = Len(s) + Len(t)
    BY ConcatProperties
  <2> QED BY <1>3, <2>1 DEF Bytes
<1>8. Q.obuf = Rest(o, BUF) /\ Q.wpos = Len(bytes) + BUF /\ bytes \o o = text
  BY <1>1 DEF Writes
<1> QED BY <1>1, <1>4, <1>5, <1>6, <1>7, <1>8 DEF Writes

-----------------------------------------------------------------------------
(* What has been transferred, character by character.                      *)

LEMMA FirstChars ==
    ASSUME NEW S, NEW s \in Seq(S), NEW n \in Nat, n <= Len(s)
    PROVE  /\ SubSeq(s, 1, n) \in Seq(S) /\ Len(SubSeq(s, 1, n)) = n
           /\ \A i \in 1 .. n : SubSeq(s, 1, n)[i] = s[i]
BY LenProperties, SubSeqType

LEMMA TapeBodyPieces ==
    ASSUME NEW t \in Bytes, IsTape(t)
    PROVE  /\ TapeBody(t) \in Seq(0 .. 254) /\ TapeBody(t) = SubSeq(t, SyncAt(t) + 3, BodyEnd(t) - 1)
           /\ SubSeq(t, SyncAt(t) + 3, SyncAt(t) + 2) = <<>>
           /\ \A k \in Nat : SyncAt(t) + 2 <= k /\ k < BodyEnd(t) =>
                /\ SubSeq(t, SyncAt(t) + 3, k) \in Seq(0 .. 254)
                /\ k - SyncAt(t) - 2 \in 0 .. Len(TapeBody(t))
                /\ SubSeq(t, SyncAt(t) + 3, k) = SubSeq(TapeBody(t), 1, k - SyncAt(t) - 2)
           /\ \A k \in Nat : SyncAt(t) + 2 <= k /\ k + 1 < BodyEnd(t) =>
                /\ t[k + 1] \in 0 .. 254
                /\ SubSeq(t, SyncAt(t) + 3, k + 1) = Append(SubSeq(t, SyncAt(t) + 3, k), t[k + 1])
<1>1. PICK s \in Nat : s = SyncAt(t)
  BY TapePlaces
<1>2. PICK b \in Nat : b = BodyEnd(t)
  BY TapePlaces
<1>3. s + 3 <= b /\ b <= Len(t) + 1 /\ Len(t) \in Nat /\ s + 3 \in Nat \ {0}
      /\ \A i \in s + 3 .. b - 1 : t[i] # END_OF_BODY
  BY <1>1, <1>2, TapePlaces, SMTT(30)
<1>4. \A i \in s + 3 .. b - 1 : t[i] \in 0 .. 254
  <2>1. \A i \in 1 .. Len(t) : t[i] \in Byte
    BY ElementOfSeq DEF Bytes
  <2>2. ASSUME NEW i \in s + 3 .. b - 1 PROVE i \in 1 .. Len(t)
    BY <1>3
  <2> QED BY <1>3, <2>1, <2>2 DEF Byte, END_OF_BODY
<1>5. ASSUME NEW k \in Nat, s + 2 <= k, k < b
      PROVE  /\ SubSeq(t, s + 3, k) \in Seq(0 .. 254) /\ Len(SubSeq(t, s + 3, k)) = k - s - 2
             /\ \A i \in 1 .. k - s - 2 : SubSeq(t, s + 3, k)[i] = t[s + 2 + i]
  <2>1. k <= Len(t) /\ k - (s + 3) + 1 = k - s - 2 /\ k - s - 2 \in Nat
    BY <1>3, <1>5
  <2>2. /\ SubSeq(t, s + 3, k) \in Seq(Byte)
        /\ Len(SubSeq(t, s + 3, k)) = IF s + 3 <= k THEN k - (s + 3) + 1 ELSE 0
        /\ \A i \in 1 .. k - (s + 3) + 1 : SubSeq(t, s + 3, k)[i] = t[s + 3 + i - 1]
    BY <1>3, <2>1, SubSeqType DEF Bytes
  <2>3. Len(SubSeq(t, s + 3, k)) = k - s - 2
    BY <1>5, <2>1, <2>2
  <2>4. ASSUME NEW i \in 1 .. k - s - 2 PROVE SubSeq(t, s + 3, k)[i] = t[s + 2 + i] /\ t[s + 2 + i] \in 0 .. 254
    <3>1. s + 3 + i - 1 = s + 2 + i /\ s + 2 + i \in s + 3 .. b - 1
      BY <1>3, <1>5
    <3>2. i \in 1 .. k - (s + 3) + 1
      BY <2>1
    <3> QED BY <1>4, <2>2, <3>1, <3>2
  <2>5. SubSeq(t, s + 3, k) \in [1 .. k - s - 2 -> 0 .. 254]
    <3>1. SubSeq(t, s + 3, k) \in [1 .. k - s - 2 -> Byte]
      BY <2>2, <2>3, LenProperties
    <3> QED BY <2>4, <3>1
  <2>6. SubSeq(t, s + 3, k) \in Seq(0 .. 254)
    <3>1. \A f : f \in [1 .. k - s - 2 -> 0 .. 254] => f \in Seq(0 .. 254)
      BY <2>1
    <3> QED BY <2>5, <3>1
  <2> QED BY <2>3, <2>4, <2>6
<1>6. TapeBody(t) = SubSeq(t, s + 3, b - 1)
  BY <1>1, <1>2 DEF TapeBody, BodyEnd
<1>7. b - 1 \in Nat /\ s + 2 <= b - 1 /\ b - 1 < b /\ b - 1 - s - 2 \in Nat
  BY <1>3
<1>8. TapeBody(t) \in Seq(0 .. 254) /\ Len(TapeBody(t)) = b - 1 - s - 2
      /\ \A i \in 1 .. b - 1 - s - 2 : TapeBody(t)[i] = t[s + 2 + i]
  BY <1>5, <1>6, <1>7
<1>9. ASSUME NEW k \in Nat, s + 2 <= k, k < b
      PROVE  k - s - 2 \in 0 .. Len(TapeBody(t)) /\ SubSeq(t, s + 3, k) = SubSeq(TapeBody(t), 1, k - s - 2)
  <2>1. PICK n \in Nat : n = k - s - 2
    BY <1>9
  <2>2. n <= b - 1 - s - 2
    BY <1>9, <2>1
  <2>3. /\ SubSeq(TapeBody(t), 1, n) \in Seq(0 .. 254) /\ Len(SubSeq(TapeBody(t), 1, n)) = n
        /\ \A i \in 1 .. n : SubSeq(TapeBody(t), 1, n)[i] = TapeBody(t)[i]
    <3>1. n <= Len(TapeBody(t))
      BY <1>8, <2>2
    <3> QED BY <1>8, <3>1, FirstChars
  <2>4. /\ SubSeq(t, s + 3, k) \in Seq(0 .. 254) /\ Len(SubSeq(t, s + 3, k)) = n
        /\ \A i \in 1 .. n : SubSeq(t, s + 3, k)[i] = t[s + 2 + i]
    BY <1>5, <1>9, <2>1
  <2>5. \A i \in 1 .. n : SubSeq(t, s + 3, k)[i] = SubSeq(TapeBody(t), 1, n)[i]
    <3>1. \A i \in 1 .. n : i \in 1 .. b - 1 - s - 2
      BY <2>2
    <3> QED BY <1>8, <2>3, <2>4, <3>1
  <2>6. SubSeq(t, s + 3, k) = SubSeq(TapeBody(t), 1, n)
    BY <2>3, <2>4, <2>5, SeqEqual
  <2> QED BY <1>7, <1>8, <2>1, <2>2, <2>6
<1>10. ASSUME NEW k \in Nat, s + 2 <= k, k + 1 < b
       PROVE  t[k + 1] \in 0 .. 254 /\ SubSeq(t, s + 3, k + 1) = Append(SubSeq(t, s + 3, k), t[k + 1])
  <2>1. k + 1 \in s + 3 .. b - 1 /\ s + 3 <= k + 1 /\ k + 1 <= Len(t)
    BY <1>3, <1>10
  <2> QED BY <1>3, <1>4, <2>1, SubSeqAppend DEF Bytes
<1>11. SubSeq(t, s + 3, s + 2) = <<>>
  BY SubSeqEmpty
<1> QED BY <1>1, <1>2, <1>5, <1>6, <1>8, <1>9, <1>10, <1>11

LEMMA EncodedType == ASSUME NEW t \in Bytes PROVE Encoded(t) \in Bytes
<1>1. 0 \in Byte
  BY DEF Byte
<1> QED BY <1>1, EncodedPieces

LEMMA DecodedType == ASSUME NEW t \in Seq(0 .. 254) PROVE Decoded(t) \in Bytes
<1>1. 0 \in 0 .. 254
  OBVIOUS
<1> QED BY <1>1, DecodedPieces

LEMMA ByteEncoded ==
    ASSUME NEW P \in ProcType, NEW t \in Bytes, Reads(P, t), P.ibuf # <<>>, NEW tmp \in Bytes,
           Writes(P, tmp, Encoded(SubSeq(t, 1, Consumed(P)))),
           NEW Q, Q.ibuf = Tail(P.ibuf), Q.rpos = P.rpos, Q.eof = P.eof, Q.wpos = P.wpos,
           Q.obuf = P.obuf \o EncodedChar(Head(P.ibuf))
    PROVE  Writes(Q, tmp, Encoded(SubSeq(t, 1, Consumed(Q))))
<1>1. PICK k \in Nat : k = Consumed(P)
  BY ByteRead
<1>2. k + 1 <= Len(t) /\ Consumed(Q) = k + 1 /\ Head(P.ibuf) = t[k + 1] /\ Len(t) \in Nat
  BY <1>1, ByteRead, LenProperties DEF Bytes
<1>3. t[k + 1] \in Byte /\ k <= Len(t) /\ 1 <= k + 1 /\ 1 \in Nat \ {0}
  <2>1. k + 1 \in 1 .. Len(t)
    BY <1>2
  <2> QED BY <1>2, <2>1, ElementOfSeq DEF Bytes
<1>4. SubSeq(t, 1, k) \in Bytes /\ SubSeq(t, 1, k + 1) = Append(SubSeq(t, 1, k), t[k + 1])
  BY <1>2, <1>3, SubSeqType, SubSeqAppend DEF Bytes
<1>5. Encoded(SubSeq(t, 1, k + 1)) = Encoded(SubSeq(t, 1, k)) \o EncodedChar(t[k + 1])
  BY <1>3, <1>4, EncodedPieces
<1>6. EncodedChar(t[k + 1]) \in Bytes
  BY <1>3, EncodedCharType
<1>7. Writes(Q, tmp, Encoded(SubSeq(t, 1, k)) \o EncodedChar(t[k + 1]))
  BY <1>1, <1>2, <1>6, MoreBuffered
<1> QED BY <1>2, <1>5, <1>7

LEMMA BlockCopied ==
    ASSUME NEW P \in ProcType, NEW tmp \in Bytes, Reads(P, tmp), P.ibuf # <<>>, NEW out \in Bytes,
           Writes(P, out, SubSeq(tmp, 1, Consumed(P))),
           NEW Q, Q.ibuf = <<>>, Q.rpos = P.rpos, Q.eof = P.eof, Q.wpos = P.wpos, Q.obuf = P.obuf \o P.ibuf
    PROVE  Reads(Q, tmp) /\ Writes(Q, out, SubSeq(tmp, 1, Consumed(Q)))
<1>1. PICK r \in Nat : r = P.rpos
  BY FieldTypes
<1>2. PICK n \in Nat : n = Len(P.ibuf)
  BY FieldTypes, LenProperties DEF Bytes
<1>3. n <= r /\ r <= Len(tmp) /\ Len(tmp) \in Nat /\ P.ibuf \in Bytes /\ ~P.eof
  BY <1>1, <1>2, FieldTypes, LenProperties DEF Reads, Bytes
<1>4. PICK k \in Nat : k = r - n
  BY <1>3
<1>5. Consumed(P) = k /\ P.ibuf = SubSeq(tmp, k + 1, r) /\ k <= r
  BY <1>1, <1>2, <1>3, <1>4 DEF Consumed, Reads
<1>6. Q.rpos = r /\ Len(Q.ibuf) = 0 /\ ~Q.eof /\ Consumed(Q) = r
  <2>1. Q.rpos = r /\ Len(Q.ibuf) = 0 /\ ~Q.eof
    BY <1>1, <1>3, EmptySeq
  <2>2. r - 0 = r
    OBVIOUS
  <2> QED BY <2>1, <2>2 DEF Consumed
<1>7. SubSeq(tmp, 1, k) \o SubSeq(tmp, k + 1, r) = SubSeq(tmp, 1, r)
  <2>1. 1 \in 1 .. Len(tmp) + 1 /\ k \in 1 - 1 .. Len(tmp) /\ r \in k .. Len(tmp)
    BY <1>3, <1>5
  <2> QED BY <2>1, ConcatAdjacentSubSeq DEF Bytes
<1>8. Writes(Q, out, SubSeq(tmp, 1, k) \o P.ibuf)
  BY <1>3, <1>5, MoreBuffered
<1>9. Q.ibuf = SubSeq(tmp, r + 1, r)
  BY SubSeqEmpty
<1>10. Writes(Q, out, SubSeq(tmp, 1, r))
  BY <1>5, <1>7, <1>8
<1>11. Len(Q.ibuf) <= Q.rpos /\ Q.rpos <= Len(tmp)
  BY <1>3, <1>6
<1>12. Reads(Q, tmp)
  BY <1>6, <1>9, <1>11 DEF Reads
<1> QED BY <1>6, <1>10, <1>12

LEMMA CharUnpacked ==
    ASSUME NEW P \in ProcType, NEW t \in Bytes, IsTape(t), Reads(P, t), Parsed(P, t, Consumed(P)),
           P.ibuf # <<>> \/ P.eof,
           NEW out \in Bytes, Writes(P, out, Unpacked(P, t, Consumed(P))),
           NEW c, c = IF P.eof THEN 255 ELSE Head(P.ibuf),
           NEW u, u = NextPart(At(P.part, P.count), c),
           NEW Q, Q.rpos = P.rpos, Q.eof = P.eof, Q.wpos = P.wpos,
           Q.ibuf = IF P.ibuf = <<>> THEN P.ibuf ELSE Tail(P.ibuf),
           Q.obuf = IF P.part = "body" /\ u.part = "body" THEN P.obuf \o DecodedChar(c) ELSE P.obuf,
           Q.part = u.part, Q.count = u.count
    PROVE  \/ /\ u.part \notin {"binary", "end"} /\ Reads(Q, t)
              /\ Parsed(Q, t, Consumed(Q)) /\ Writes(Q, out, Unpacked(Q, t, Consumed(Q)))
           \/ u.part = "end" /\ Writes(Q, out, Decoded(TapeBody(t)))
<1>1. PICK k \in Nat : k = Consumed(P)
  <2>1. P.rpos \in Nat /\ Len(P.ibuf) \in Nat /\ Len(P.ibuf) <= P.rpos
    BY FieldTypes, LenProperties DEF Reads, Bytes
  <2>2. P.rpos - Len(P.ibuf) \in Nat
    BY <2>1
  <2> QED BY <2>2 DEF Consumed
<1>2. PICK s \in Nat : s = SyncAt(t)
  BY TapePlaces
<1>3. PICK b \in Nat : b = BodyEnd(t)
  BY TapePlaces
<1>4. Len(t) \in Nat /\ k <= Len(t) /\ c = IF k = Len(t) THEN 255 ELSE t[k + 1]
  <2>1. Len(t) \in Nat
    BY LenProperties DEF Bytes
  <2>2. CASE P.eof
    <3>1. P.rpos = Len(t) /\ P.ibuf = <<>> /\ Len(P.ibuf) = 0
      BY <2>2, EmptySeq DEF Reads
    <3>2. k = Len(t)
      BY <1>1, <2>1, <3>1 DEF Consumed
    <3> QED BY <2>1, <2>2, <3>2
  <2>3. CASE ~P.eof
    <3>1. P.ibuf # <<>>
      BY <2>3
    <3>2. k + 1 <= Len(t) /\ Head(P.ibuf) = t[k + 1]
      BY <1>1, <3>1, ByteRead
    <3>3. k # Len(t) /\ k <= Len(t)
      BY <2>1, <3>2
    <3> QED BY <2>1, <2>3, <3>2, <3>3
  <2> QED BY <2>2, <2>3
<1>5. \/ /\ k < Len(t) /\ u.part \notin {"binary", "end"} /\ Parsed(u, t, k + 1)
         /\ P.part = "body" => u.part = "body"
         /\ u.part = "body" => k = s + 1 \/ P.part = "body"
      \/ P.part = "body" /\ u.part = "end" /\ k + 1 = b
  BY <1>1, <1>2, <1>3, <1>4, TapeStep
<1>6. P.part = "body" => s + 2 <= k /\ k < b
  BY <1>1, <1>2, <1>3 DEF Parsed, BodyEnd
<1>7. ASSUME k < Len(t), u.part \notin {"binary", "end"}, Parsed(u, t, k + 1),
             P.part = "body" => u.part = "body", u.part = "body" => k = s + 1 \/ P.part = "body"
      PROVE  /\ Reads(Q, t) /\ Parsed(Q, t, Consumed(Q))
             /\ Writes(Q, out, Unpacked(Q, t, Consumed(Q)))
  <2>1. ~P.eof /\ P.ibuf # <<>>
    <3>1. P.eof => P.rpos = Len(t) /\ Len(P.ibuf) = 0
      BY EmptySeq DEF Reads
    <3>2. P.eof => k = Len(t)
      BY <1>1, <1>4, <3>1 DEF Consumed
    <3> QED BY <1>4, <1>7, <3>2
  <2>2. Q.ibuf = Tail(P.ibuf)
    BY <2>1
  <2>3. Reads(Q, t) /\ Consumed(Q) = k + 1
    BY <1>1, <2>1, <2>2, ByteRead
  <2>4. Parsed(Q, t, k + 1)
    BY <1>7 DEF Parsed
  <2>5. CASE P.part = "body"
    <3>0. /\ \A j \in Nat : s + 2 <= j /\ j < b => SubSeq(t, s + 3, j) \in Seq(0 .. 254)
          /\ \A j \in Nat : s + 2 <= j /\ j + 1 < b =>
                /\ t[j + 1] \in 0 .. 254
                /\ SubSeq(t, s + 3, j + 1) = Append(SubSeq(t, s + 3, j), t[j + 1])
      BY <1>2, <1>3, TapeBodyPieces, ZenonT(40)
    <3>1. u.part = "body" /\ s + 2 <= k /\ k + 1 < b
      <4>1. u.part = "body"
        BY <1>7, <2>5
      <4> QED BY <1>2, <1>3, <1>6, <1>7, <2>5, <4>1 DEF Parsed, BodyEnd
    <3>2. c = t[k + 1] /\ c \in 0 .. 254
      <4>1. k # Len(t)
        BY <1>4, <1>7
      <4> QED BY <1>4, <3>0, <3>1, <4>1
    <3>3. /\ SubSeq(t, s + 3, k) \in Seq(0 .. 254)
          /\ SubSeq(t, s + 3, k + 1) = Append(SubSeq(t, s + 3, k), c)
      BY <1>6, <2>5, <3>0, <3>1, <3>2
    <3>4. Decoded(SubSeq(t, s + 3, k + 1)) = Decoded(SubSeq(t, s + 3, k)) \o DecodedChar(c)
      BY <3>2, <3>3, DecodedPieces
    <3>5. DecodedChar(c) \in Bytes /\ Q.obuf = P.obuf \o DecodedChar(c)
      BY <2>5, <3>1, <3>2, DecodedCharType
    <3>6. Writes(P, out, Decoded(SubSeq(t, s + 3, k)))
      BY <1>1, <1>2, <2>5 DEF Unpacked
    <3>7. Writes(Q, out, Decoded(SubSeq(t, s + 3, k)) \o DecodedChar(c))
      <4>1. PICK d : d = Decoded(SubSeq(t, s + 3, k))
        OBVIOUS
      <4>2. PICK m \in Bytes : m = DecodedChar(c)
        BY <3>5
      <4>3. Writes(P, out, d) /\ Q.obuf = P.obuf \o m /\ Q.wpos = P.wpos
        BY <3>5, <3>6, <4>1, <4>2
      <4>4. Writes(Q, out, d \o m)
        BY <4>3, MoreBuffered
      <4> QED BY <4>1, <4>2, <4>4
    <3>8. Unpacked(Q, t, k + 1) = Decoded(SubSeq(t, s + 3, k + 1))
      BY <1>2, <3>1 DEF Unpacked
    <3> QED BY <2>3, <2>4, <3>4, <3>7, <3>8
  <2>6. CASE P.part # "body"
    <3>1. Writes(Q, out, <<>>)
      BY <2>6 DEF Writes, Unpacked
    <3>2. Unpacked(Q, t, k + 1) = <<>>
      <4>1. CASE u.part = "body"
        <5>1. k + 1 = s + 2
          BY <1>7, <2>6, <4>1
        <5>2. SubSeq(t, s + 3, k + 1) = <<>>
          BY <1>2, <5>1, TapeBodyPieces
        <5> QED BY <1>2, <5>2, EmptyText DEF Unpacked
      <4>2. CASE u.part # "body"
        BY <4>2 DEF Unpacked
      <4> QED BY <4>1, <4>2
    <3> QED BY <2>3, <2>4, <3>1, <3>2
  <2> QED BY <2>5, <2>6
<1>8. ASSUME P.part = "body", u.part = "end", k + 1 = b PROVE Writes(Q, out, Decoded(TapeBody(t)))
  <2>1. Q.obuf = P.obuf
    BY <1>8
  <2>2. b - 1 = k
    BY <1>8
  <2>3. TapeBody(t) = SubSeq(t, s + 3, k)
    BY <1>2, <1>3, <2>2, TapeBodyPieces
  <2>4. Writes(P, out, Decoded(SubSeq(t, s + 3, k)))
    BY <1>1, <1>2, <1>8 DEF Unpacked
  <2> QED BY <2>1, <2>3, <2>4 DEF Writes
<1> QED BY <1>5, <1>7, <1>8

(* Whatever happens to a process, it has written a beginning.              *)
LEMMA PartIsPrefix ==
    ASSUME NEW P \in ProcType, NEW text \in Bytes, NEW tmp, NEW out \in Bytes, NEW result \in Bytes,
           Transferred(P, text, tmp, out, result),
           P.at \in {"pack", "encode", "copy", "unpack", "remove", "exit"},
           P.at = "copy" => result = Encoded(text),
           P.at = "unpack" => IsTape(text) /\ result = Decoded(TapeBody(text))
    PROVE  IsPrefix(out, result)
<1>1. \A s, t, u \in Seq(Byte) : (s \o t) \o u = s \o (t \o u)
  BY ConcatAssociative
<1>2. \A s, t \in Seq(Byte) : IsPrefix(s, s \o t) /\ s \o t \in Seq(Byte)
  BY PrefixOfConcat, ConcatProperties
<1>3. P.obuf \in Bytes /\ <<>> \in Bytes
  BY FieldTypes, EmptySeq DEF Bytes
<1>4. out = <<>> => IsPrefix(out, result)
  <2>1. <<>> \o result = result
    BY ConcatEqualIffEmpty, <1>3 DEF Bytes
  <2> QED BY <1>2, <1>3, <2>1 DEF Bytes
<1>5. ASSUME NEW some \in Bytes, NEW more \in Bytes, Writes(P, out, some), result = some \o more
      PROVE  IsPrefix(out, result)
  <2>1. result = out \o (P.obuf \o more)
    <3>1. out \o P.obuf = some
      BY <1>5 DEF Writes
    <3>2. (out \o P.obuf) \o more = out \o (P.obuf \o more)
      <4>1. out \in Seq(Byte) /\ P.obuf \in Seq(Byte) /\ more \in Seq(Byte)
        BY <1>3 DEF Bytes
      <4> QED BY <1>1, <4>1, Zenon
    <3> QED BY <1>5, <3>1, <3>2
  <2>2. P.obuf \o more \in Bytes
    BY <1>2, <1>3 DEF Bytes
  <2> QED BY <1>2, <2>1, <2>2 DEF Bytes
<1>6. CASE P.at \in {"pack", "encode"}
  BY <1>4, <1>6 DEF Transferred
<1>7. CASE P.at = "copy"
  <2>1. tmp = result /\ Reads(P, result) /\ Writes(P, out, SubSeq(result, 1, Consumed(P)))
    BY <1>7 DEF Transferred
  <2>2. Len(result) \in Nat /\ P.rpos \in Nat /\ Len(P.ibuf) \in Nat /\ P.rpos <= Len(result) /\ Len(P.ibuf) <= P.rpos
    BY <2>1, FieldTypes, LenProperties DEF Reads, Bytes
  <2>3. PICK k \in Nat : k = Consumed(P) /\ k <= Len(result)
    <3>1. P.rpos - Len(P.ibuf) \in Nat /\ P.rpos - Len(P.ibuf) <= Len(result)
      BY <2>2
    <3> QED BY <3>1 DEF Consumed
  <2>4. SubSeq(result, 1, k) \o SubSeq(result, k + 1, Len(result)) = result
    <3>1. 1 \in 1 .. Len(result) + 1 /\ k \in 1 - 1 .. Len(result) /\ Len(result) \in k .. Len(result)
      BY <2>2, <2>3
    <3>2. SubSeq(result, 1, k) \o SubSeq(result, k + 1, Len(result)) = SubSeq(result, 1, Len(result))
      BY <3>1, ConcatAdjacentSubSeq DEF Bytes
    <3> QED BY <3>2, SubSeqFull DEF Bytes
  <2>5. SubSeq(result, 1, k) \in Bytes
    BY <2>3, FirstChars DEF Bytes
  <2>6. SubSeq(result, k + 1, Len(result)) \in Bytes
    <3>1. k + 1 \in Nat \ {0} /\ Len(result) <= Len(result)
      BY <2>2
    <3> QED BY <2>2, <3>1, SubSeqType DEF Bytes
  <2> QED BY <1>5, <2>1, <2>3, <2>4, <2>5, <2>6
<1>8. CASE P.at = "unpack"
  <2>1. IsTape(text) /\ result = Decoded(TapeBody(text)) /\ Writes(P, out, Unpacked(P, text, Consumed(P)))
        /\ Parsed(P, text, Consumed(P)) /\ Reads(P, text)
    BY <1>8 DEF Transferred
  <2>2. CASE P.part # "body"
    <3>1. out \o P.obuf = <<>>
      BY <2>1, <2>2 DEF Unpacked, Writes
    <3>2. out = <<>>
      BY <1>3, <3>1, ConcatEqualIffEmpty DEF Bytes
    <3> QED BY <1>4, <3>2
  <2>3. CASE P.part = "body"
    <3>1. PICK k \in Nat : k = Consumed(P)
      <4>1. P.rpos \in Nat /\ Len(P.ibuf) \in Nat /\ Len(P.ibuf) <= P.rpos
        BY <2>1, FieldTypes, LenProperties DEF Reads, Bytes
      <4>2. P.rpos - Len(P.ibuf) \in Nat
        BY <4>1
      <4> QED BY <4>2 DEF Consumed
    <3>2. SyncAt(text) + 2 <= k /\ k < BodyEnd(text)
      BY <2>1, <2>3, <3>1 DEF Parsed, BodyEnd
    <3>3. PICK n \in 0 .. Len(TapeBody(text)) : SubSeq(text, SyncAt(text) + 3, k) = SubSeq(TapeBody(text), 1, n)
      BY <2>1, <3>1, <3>2, TapeBodyPieces
    <3>4. TapeBody(text) \in Seq(0 .. 254) /\ SubSeq(text, SyncAt(text) + 3, k) \in Seq(0 .. 254)
      BY <2>1, <3>1, <3>2, TapeBodyPieces
    <3>5. PICK r \in Bytes : result = Decoded(SubSeq(TapeBody(text), 1, n)) \o r
      BY <2>1, <3>3, <3>4, DecodedPrefix
    <3>6. Decoded(SubSeq(TapeBody(text), 1, n)) \in Bytes
      BY <3>3, <3>4, DecodedType
    <3>7. Writes(P, out, Decoded(SubSeq(TapeBody(text), 1, n)))
      BY <2>1, <2>3, <3>1, <3>3 DEF Unpacked
    <3> QED BY <1>5, <3>5, <3>6, <3>7
  <2> QED BY <2>2, <2>3
<1>9. CASE P.at \in {"remove", "exit"}
  <2>1. out \o P.obuf = result
    BY <1>9 DEF Transferred, Writes
  <2> QED BY <1>2, <1>3, <2>1 DEF Bytes
<1> QED BY <1>6, <1>7, <1>8, <1>9

-----------------------------------------------------------------------------
(* The steps of a process that is left alone take its transfer further.    *)

LEMMA KeptFiles ==
    ASSUME TypeInv, PlaceInv, InputInv, NEW p \in Procs, Kept(p)
    PROVE  /\ proc[p] \in ProcType /\ origin[p] \in Bytes /\ Result(p) \in Bytes
           /\ proc[p].fd_in \in 1 .. Len(data) /\ data[proc[p].fd_in] = origin[p]
           /\ proc[p].fd_out \in 1 .. Len(data) /\ data[proc[p].fd_out] \in Bytes
           /\ proc[p].fd_tmp # 0 => proc[p].fd_tmp \in 1 .. Len(data) /\ data[proc[p].fd_tmp] \in Bytes
           /\ proc[p].at \notin {"main", "outfile"}
           /\ proc[p].at \in {"pack", "encode", "copy", "remove"} => Result(p) = Encoded(origin[p])
           /\ proc[p].at = "unpack" => IsTape(origin[p]) /\ Result(p) = Decoded(TapeBody(origin[p]))
<1>1. proc[p] \in ProcType /\ origin[p] \in Bytes /\ Len(data) \in Nat /\ data \in Seq(Bytes)
  BY LenProperties DEF TypeInv
<1>2. proc[p].fd_in \in 1 .. Len(data) /\ proc[p].fd_out \in 1 .. Len(data)
      /\ (proc[p].fd_tmp # 0 => proc[p].fd_tmp \in 1 .. Len(data))
  <2>1. proc[p].fd_in \in Nat /\ proc[p].fd_out \in Nat /\ proc[p].fd_tmp \in Nat
    BY <1>1, FieldTypes
  <2>2. proc[p].fd_in <= Len(data) /\ proc[p].fd_out <= Len(data) /\ proc[p].fd_tmp <= Len(data)
    BY DEF TypeInv
  <2>3. proc[p].fd_in # 0 /\ proc[p].fd_out # 0
    BY DEF Kept, Alone
  <2> QED BY <1>1, <2>1, <2>2, <2>3
<1>3. \A i \in 1 .. Len(data) : data[i] \in Bytes
  BY <1>1, ElementOfSeq
<1>4. data[proc[p].fd_in] = origin[p]
  BY DEF Kept, InputInv
<1>5. proc[p].at \notin {"main", "outfile"}
  BY DEF Kept, PlaceInv, Place
<1>6. Result(p) \in Bytes
  <2>1. CASE Command(p) = "pack"
    BY <1>1, <2>1, EncodedType DEF Result
  <2>2. CASE Command(p) # "pack"
    <3>1. IsTape(origin[p])
      BY <2>2 DEF Kept, Promised
    <3>2. TapeBody(origin[p]) \in Seq(0 .. 254)
      BY <1>1, <3>1, TapeBodyPieces
    <3> QED BY <2>2, <3>2, DecodedType DEF Result
  <2> QED BY <2>1, <2>2
<1>7. proc[p].at \in {"pack", "encode", "copy", "remove"} => Result(p) = Encoded(origin[p])
  BY DEF PlaceInv, Place, Result
<1>8. proc[p].at = "unpack" => IsTape(origin[p]) /\ Result(p) = Decoded(TapeBody(origin[p]))
  <2>1. proc[p].at = "unpack" => Command(p) # "pack"
    BY DEF PlaceInv, Place
  <2> QED BY <2>1 DEF Kept, Promised, Result
<1> QED BY <1>1, <1>2, <1>3, <1>4, <1>5, <1>6, <1>7, <1>8

(* p was on its way before the step and has the same to do after it.       *)
GoesOn(p) ==
    /\ Kept(p) /\ Transfer(p) /\ origin'[p] = origin[p] /\ Result(p)' = Result(p)
    /\ proc'[p].fd_in = proc[p].fd_in /\ proc'[p].fd_out = proc[p].fd_out

LEMMA KeptBefore ==
    ASSUME RkaInv, NEW p \in Procs, Step(p) \/ Kill(p), ~OpenInput(p), ~OpenOutput(p), Kept(p)'
    PROVE  GoesOn(p)
<1>0. TypeInv /\ DirInv /\ PlaceInv /\ TransferInv
  BY DEF RkaInv
<1>1. proc'[p].fd_in = proc[p].fd_in /\ proc'[p].fd_out = proc[p].fd_out
  BY <1>0, OpenOnce
<1>2. proc'[p].args = proc[p].args
  BY <1>0, StepMoves
<1>3. origin'[p] = origin[p]
  BY <1>0, OriginStep
<1>4. PICK i \in Nat, name \in Names : FileStep(p, i, name)
  BY <1>0, StepFiles
<1>5. Alone(p)
  BY <1>1, <1>2, <1>4 DEF Kept, Alone, FileStep
<1>6. argc(p)' = argc(p) /\ Command(p)' = Command(p) /\ Busy(p)' = Busy(p)
  BY <1>2, SameArguments
<1>7. Promised(p)' = Promised(p) /\ Result(p)' = Result(p)
  BY <1>3, <1>6 DEF Promised, Result
<1>8. Kept(p)
  BY <1>1, <1>5, <1>6, <1>7 DEF Kept
<1>9. Transfer(p)
  BY <1>0, <1>8 DEF TransferInv
<1> QED BY <1>1, <1>3, <1>7, <1>8, <1>9 DEF GoesOn

LEMMA TransferNext ==
    ASSUME NEW p \in Procs, GoesOn(p),
           Transferred(proc'[p], origin[p], data'[proc'[p].fd_tmp], data'[proc[p].fd_out], Result(p))
    PROVE  Transfer(p)'
BY DEF Transfer, GoesOn

(* Its output file stays apart from the temporary one, which it has found  *)
(* under a name of its own.                                                *)
LEMMA TmpApart ==
    ASSUME TypeInv', PlaceInv', OpensInv', NEW p \in Procs, Kept(p)', proc'[p].fd_tmp # 0
    PROVE  proc'[p].fd_tmp # proc'[p].fd_out
<1>1. Alone(p)'
  BY DEF Kept
<1> QED BY <1>1, ApartNext

LEMMA EndTransfers ==
    ASSUME RkaInv, NEW p \in Procs, GoesOn(p),
           CommandRequired(p) \/ UnknownCommand(p) \/ AssertFails(p) \/ NoOutput(p) \/ ExitFails(p) \/ Kill(p)
    PROVE  Transfer(p)'
<1> DEFINE P == proc[p]
           Q == proc'[p]
           out == data[P.fd_out]
<1>0. TypeInv /\ PlaceInv /\ InputInv
  BY DEF RkaInv
<1>1. /\ P \in ProcType /\ origin[p] \in Bytes /\ Result(p) \in Bytes /\ out \in Bytes
      /\ P.at \notin {"main", "outfile"} /\ P.fd_out \in 1 .. Len(data)
      /\ P.at \in {"pack", "encode", "copy", "remove"} => Result(p) = Encoded(origin[p])
      /\ P.at = "unpack" => IsTape(origin[p]) /\ Result(p) = Decoded(TapeBody(origin[p]))
  BY <1>0, KeptFiles DEF GoesOn
<1>2. ~CommandRequired(p) /\ ~UnknownCommand(p)
  BY <1>1 DEF CommandRequired, UnknownCommand
<1>3. P.fd_out # 0
  BY DEF GoesOn, Kept
<1>4. data' = data /\ P.at \in {"pack", "encode", "copy", "unpack", "remove", "exit"} /\ Q.at \in {"aborted", "killed"}
  <2>1. CASE AssertFails(p)
    BY <1>0, <2>1, EndEffects DEF AssertFails, EndsAt
  <2>2. CASE NoOutput(p) \/ ExitFails(p)
    BY <1>3, <2>2 DEF NoOutput, ExitFails
  <2>3. CASE Kill(p)
    BY <1>0, <1>1, <2>3, EndEffects DEF Kill, EndsAt, Running
  <2> QED BY <1>2, <2>1, <2>2, <2>3
<1>5. IsPrefix(out, Result(p))
  <2>1. Transferred(P, origin[p], data[P.fd_tmp], out, Result(p))
    BY DEF GoesOn, Transfer
  <2> HIDE DEF P, out
  <2> QED BY <1>1, <1>4, <2>1, PartIsPrefix
<1>6. Transferred(Q, origin[p], data'[Q.fd_tmp], data'[P.fd_out], Result(p))
  BY <1>4, <1>5 DEF Transferred
<1> QED BY <1>6, TransferNext

LEMMA RemovalTransfers ==
    ASSUME RkaInv, NEW p \in Procs, GoesOn(p), RemoveTmp(p) \/ CopyEnds(p)
    PROVE  Transfer(p)'
<1> DEFINE P == proc[p]
           Q == proc'[p]
           out == data[P.fd_out]
<1>0. TypeInv /\ PlaceInv /\ InputInv
  BY DEF RkaInv
<1>1. /\ P \in ProcType /\ Result(p) \in Bytes
      /\ P.at = "copy" => Result(p) = Encoded(origin[p])
  BY <1>0, KeptFiles DEF GoesOn
<1>2. data' = data /\ Q.wpos = P.wpos /\ Q.obuf = P.obuf /\ Q.at \in {"exit", "remove"}
  BY <1>0, EndEffects DEF RemoveTmp, CopyEnds, EndsAt, SameOutput
<1>3. Transferred(P, origin[p], data[P.fd_tmp], out, Result(p))
  BY DEF GoesOn, Transfer
<1>4. Writes(P, out, Result(p))
  <2>1. CASE RemoveTmp(p)
    BY <1>3, <2>1 DEF RemoveTmp, Transferred
  <2>2. CASE CopyEnds(p)
    <3>1. P.at = "copy" /\ P.eof
      BY <2>2 DEF CopyEnds
    <3>2. Reads(P, Result(p)) /\ Writes(P, out, SubSeq(Result(p), 1, Consumed(P)))
      BY <1>1, <1>3, <3>1 DEF Transferred
    <3>3. Consumed(P) = Len(Result(p))
      <4>1. P.rpos = Len(Result(p)) /\ Len(P.ibuf) = 0 /\ P.rpos \in Nat
        BY <1>1, <3>1, <3>2, FieldTypes, EmptySeq DEF Reads
      <4> QED BY <4>1 DEF Consumed
    <3> QED BY <1>1, <3>2, <3>3, SubSeqFull DEF Bytes
  <2> QED BY <2>1, <2>2
<1>5. Writes(Q, out, Result(p))
  BY <1>2, <1>4 DEF Writes
<1>6. Transferred(Q, origin[p], data'[Q.fd_tmp], data'[P.fd_out], Result(p))
  BY <1>2, <1>5 DEF Transferred
<1> QED BY <1>6, TransferNext

LEMMA ExitTransfers ==
    ASSUME RkaInv, NEW p \in Procs, GoesOn(p), ExitNicely(p)
    PROVE  Transfer(p)'
<1> DEFINE P == proc[p]
           Q == proc'[p]
           out == data[P.fd_out]
<1>0. TypeInv /\ PlaceInv /\ InputInv
  BY DEF RkaInv
<1>1. P \in ProcType /\ out \in Bytes /\ P.fd_out \in 1 .. Len(data)
  BY <1>0, KeptFiles DEF GoesOn
<1>2. P.at = "exit" /\ Q.at = "exited" /\ Write(p, P.fd_out, P.wpos, P.obuf)
  BY <1>0, EndEffects DEF ExitNicely
<1>3. Writes(P, out, Result(p))
  BY <1>2 DEF GoesOn, Transfer, Transferred
<1>4. data'[P.fd_out] = Overwrite(out, P.wpos, P.obuf)
  <2>1. P.wpos \in Nat /\ P.obuf \in Bytes
    BY <1>1, FieldTypes
  <2> QED BY <1>0, <1>1, <1>2, <2>1, WriteEffect
<1>5. data'[P.fd_out] = Result(p)
  BY <1>1, <1>3, <1>4, AllWritten
<1>6. Transferred(Q, origin[p], data'[Q.fd_tmp], data'[P.fd_out], Result(p))
  BY <1>2, <1>5 DEF Transferred
<1> QED BY <1>6, TransferNext

LEMMA RefillTransfers ==
    ASSUME RkaInv, NEW p \in Procs, GoesOn(p), Refill(p)
    PROVE  Transfer(p)'
<1> DEFINE P == proc[p]
           Q == proc'[p]
           out == data[P.fd_out]
           tmp == data[P.fd_tmp]
<1>0. TypeInv /\ PlaceInv /\ InputInv
  BY DEF RkaInv
<1>1. /\ P \in ProcType /\ origin[p] \in Bytes /\ data[P.fd_in] = origin[p] /\ Result(p) \in Bytes
      /\ P.at = "copy" => Result(p) = Encoded(origin[p])
  BY <1>0, KeptFiles DEF GoesOn
<1>2. /\ P.at \in {"encode", "copy", "unpack"} /\ Reading(p) # 0 /\ P.ibuf = <<>> /\ data' = data
      /\ Reading(p) = IF P.at = "copy" THEN P.fd_tmp ELSE P.fd_in
  BY DEF Refill, Reading
<1>3. /\ Q.at = P.at /\ Q.fd_tmp = P.fd_tmp /\ Q.wpos = P.wpos /\ Q.obuf = P.obuf
      /\ Q.part = P.part /\ Q.count = P.count
      /\ Q.ibuf = FirstOf(Rest(data[Reading(p)], P.rpos), BUF) /\ Q.rpos = P.rpos + Len(Q.ibuf)
      /\ Q.eof <=> Q.ibuf = <<>>
  BY <1>0, BufferEffects DEF SameFiles, SameOutput, SamePart
<1>4. Transferred(P, origin[p], tmp, out, Result(p))
  BY DEF GoesOn, Transfer
<1> HIDE DEF P, Q, out, tmp
<1>5. CASE P.at = "encode"
  <2>1. /\ out = <<>> /\ Reads(P, origin[p])
        /\ P.fd_tmp # 0 => Writes(P, tmp, Encoded(SubSeq(origin[p], 1, Consumed(P))))
    BY <1>4, <1>5 DEF Transferred
  <2>2. Reads(Q, origin[p]) /\ Consumed(Q) = Consumed(P)
    <3>1. Q.ibuf = FirstOf(Rest(origin[p], P.rpos), BUF)
      BY <1>1, <1>2, <1>3, <1>5
    <3> QED BY <1>1, <1>2, <1>3, <2>1, <3>1, RefillReads
  <2>3. P.fd_tmp # 0 => Writes(Q, tmp, Encoded(SubSeq(origin[p], 1, Consumed(Q))))
    BY <1>3, <2>1, <2>2 DEF Writes
  <2>4. Transferred(Q, origin[p], tmp, out, Result(p))
    BY <1>3, <1>5, <2>1, <2>2, <2>3 DEF Transferred
  <2> QED BY <1>2, <1>3, <2>4, TransferNext DEF P, Q, tmp, out
<1>6. CASE P.at = "copy"
  <2>1. tmp = Encoded(origin[p]) /\ tmp = Result(p) /\ Reads(P, tmp) /\ Writes(P, out, SubSeq(tmp, 1, Consumed(P)))
    BY <1>1, <1>4, <1>6 DEF Transferred
  <2>2. Reads(Q, tmp) /\ Consumed(Q) = Consumed(P)
    <3>1. tmp \in Bytes /\ Q.ibuf = FirstOf(Rest(tmp, P.rpos), BUF)
      BY <1>1, <1>2, <1>3, <1>6, <2>1 DEF tmp
    <3> QED BY <1>1, <1>2, <1>3, <2>1, <3>1, RefillReads
  <2>3. Writes(Q, out, SubSeq(tmp, 1, Consumed(Q)))
    BY <1>3, <2>1, <2>2 DEF Writes
  <2>4. Transferred(Q, origin[p], tmp, out, Result(p))
    BY <1>3, <1>6, <2>1, <2>2, <2>3 DEF Transferred
  <2> QED BY <1>2, <1>3, <2>4, TransferNext DEF P, Q, tmp, out
<1>7. CASE P.at = "unpack"
  <2>1. /\ Reads(P, origin[p]) /\ Parsed(P, origin[p], Consumed(P))
        /\ Writes(P, out, Unpacked(P, origin[p], Consumed(P)))
    BY <1>4, <1>7 DEF Transferred
  <2>2. Reads(Q, origin[p]) /\ Consumed(Q) = Consumed(P)
    <3>1. Q.ibuf = FirstOf(Rest(origin[p], P.rpos), BUF)
      BY <1>1, <1>2, <1>3, <1>7
    <3> QED BY <1>1, <1>2, <1>3, <2>1, <3>1, RefillReads
  <2>3. Parsed(Q, origin[p], Consumed(Q))
    BY <1>3, <2>1, <2>2 DEF Parsed
  <2>4. Writes(Q, out, Unpacked(Q, origin[p], Consumed(Q)))
    BY <1>3, <2>1, <2>2 DEF Writes, Unpacked
  <2>5. Transferred(Q, origin[p], tmp, out, Result(p))
    BY <1>3, <1>7, <2>2, <2>3, <2>4 DEF Transferred
  <2> QED BY <1>2, <1>3, <2>5, TransferNext DEF P, Q, tmp, out
<1> QED BY <1>2, <1>5, <1>6, <1>7 DEF P

LEMMA WriteOutTransfers ==
    ASSUME RkaInv, TypeInv', PlaceInv', OpensInv', NEW p \in Procs, GoesOn(p), Kept(p)', WriteOut(p)
    PROVE  Transfer(p)'
<1> DEFINE P == proc[p]
           Q == proc'[p]
           out == data[P.fd_out]
           tmp == data[P.fd_tmp]
           w == Writing(p)
           block == FirstOf(P.obuf, BUF)
<1>0. TypeInv /\ PlaceInv /\ InputInv
  BY DEF RkaInv
<1>1. /\ P \in ProcType /\ Result(p) \in Bytes /\ out \in Bytes /\ P.fd_out \in 1 .. Len(data)
      /\ P.fd_tmp # 0 => P.fd_tmp \in 1 .. Len(data) /\ tmp \in Bytes
  BY <1>0, KeptFiles DEF GoesOn
<1>2. /\ w \in 1 .. Len(data) /\ Write(p, w, P.wpos, block) /\ block \in Bytes
      /\ w = IF P.at = "encode" THEN P.fd_tmp ELSE P.fd_out
      /\ P.at \in Running
  BY <1>0, WriteOutBecomes DEF WriteOut, Writing
<1>3. BUF < Len(P.obuf)
  <2>1. Len(P.obuf) \in Nat /\ BUF \in Nat
    BY <1>1, FieldTypes, LenProperties, RkaAssumption DEF Bytes
  <2> QED BY <2>1 DEF WriteOut, HasRoom
<1>4. /\ Q.at = P.at /\ Q.fd_tmp = P.fd_tmp /\ Q.wpos = P.wpos + BUF /\ Q.obuf = Rest(P.obuf, BUF)
      /\ Q.ibuf = P.ibuf /\ Q.rpos = P.rpos /\ Q.eof = P.eof
      /\ Q.part = P.part /\ Q.count = P.count /\ Q.fd_out = P.fd_out
  BY <1>0, BufferEffects DEF SameFiles, SameInput, SamePart
<1>5. data'[w] = Overwrite(data[w], P.wpos, block) /\ \A j \in 1 .. Len(data) : j # w => data'[j] = data[j]
  <2>1. P.wpos \in Nat
    BY <1>1, FieldTypes
  <2> HIDE DEF block, w
  <2> QED BY <1>0, <1>2, <2>1, WriteEffect DEF Untouched
<1>6. P.fd_tmp # 0 => P.fd_tmp # P.fd_out
  BY <1>4, TmpApart
<1>7. Transferred(P, origin[p], tmp, out, Result(p))
  BY DEF GoesOn, Transfer
<1>8. \A text : Reads(P, text) => Reads(Q, text)
  BY <1>4 DEF Reads, Consumed
<1>9. Consumed(Q) = Consumed(P)
  BY <1>4 DEF Consumed
<1>10. \A bytes \in Bytes : \A text : Writes(P, bytes, text) => Writes(Q, Overwrite(bytes, P.wpos, block), text)
  <2> HIDE DEF P, Q
  <2> QED BY <1>1, <1>3, <1>4, BlockWritten
<1> HIDE DEF P, Q, out, tmp, w, block
<1>11. CASE P.at = "encode"
  <2>1. w = P.fd_tmp /\ P.fd_tmp # 0
    BY <1>2, <1>11
  <2>2. out = <<>> /\ Reads(P, origin[p]) /\ Writes(P, tmp, Encoded(SubSeq(origin[p], 1, Consumed(P))))
    BY <1>7, <1>11, <2>1 DEF Transferred
  <2>3. data'[P.fd_out] = out
    BY <1>1, <1>5, <1>6, <2>1 DEF out
  <2>4. data'[Q.fd_tmp] = Overwrite(tmp, P.wpos, block)
    BY <1>4, <1>5, <2>1 DEF tmp
  <2>5. Writes(Q, data'[Q.fd_tmp], Encoded(SubSeq(origin[p], 1, Consumed(Q))))
    BY <1>1, <1>9, <1>10, <2>1, <2>2, <2>4
  <2>6. Transferred(Q, origin[p], data'[Q.fd_tmp], data'[P.fd_out], Result(p))
    BY <1>4, <1>8, <1>11, <2>2, <2>3, <2>5 DEF Transferred
  <2> QED BY <2>6, TransferNext DEF P, Q
<1>12. CASE P.at # "encode"
  <2>1. w = P.fd_out
    BY <1>2, <1>12
  <2>2. data'[P.fd_out] = Overwrite(out, P.wpos, block)
    BY <1>5, <2>1 DEF out
  <2>3. \A text : Writes(P, out, text) => Writes(Q, data'[P.fd_out], text)
    BY <1>1, <1>10, <2>2
  <2>4. CASE P.at = "copy"
    <3>1. tmp = Encoded(origin[p]) /\ Reads(P, tmp) /\ Writes(P, out, SubSeq(tmp, 1, Consumed(P)))
      BY <1>7, <2>4 DEF Transferred
    <3>2. data'[Q.fd_tmp] = tmp
      <4>1. P.fd_tmp # 0
        BY <1>0, <2>4 DEF PlaceInv, Place, P
      <4> QED BY <1>1, <1>4, <1>5, <1>6, <2>1, <4>1 DEF tmp
    <3>3. Transferred(Q, origin[p], data'[Q.fd_tmp], data'[P.fd_out], Result(p))
      BY <1>4, <1>8, <1>9, <2>3, <2>4, <3>1, <3>2 DEF Transferred
    <3> QED BY <3>3, TransferNext DEF P, Q
  <2>5. CASE P.at = "unpack"
    <3>1. /\ Reads(P, origin[p]) /\ Parsed(P, origin[p], Consumed(P))
          /\ Writes(P, out, Unpacked(P, origin[p], Consumed(P)))
      BY <1>7, <2>5 DEF Transferred
    <3>2. Parsed(Q, origin[p], Consumed(Q)) /\ Unpacked(Q, origin[p], Consumed(Q)) = Unpacked(P, origin[p], Consumed(P))
      BY <1>4, <1>9, <3>1 DEF Parsed, Unpacked
    <3>3. Transferred(Q, origin[p], data'[Q.fd_tmp], data'[P.fd_out], Result(p))
      BY <1>4, <1>8, <2>3, <2>5, <3>1, <3>2 DEF Transferred
    <3> QED BY <3>3, TransferNext DEF P, Q
  <2>6. CASE P.at \in {"remove", "exit"}
    <3>1. Writes(P, out, Result(p))
      BY <1>7, <2>6 DEF Transferred
    <3>2. Transferred(Q, origin[p], data'[Q.fd_tmp], data'[P.fd_out], Result(p))
      BY <1>4, <2>3, <2>6, <3>1 DEF Transferred
    <3> QED BY <3>2, TransferNext DEF P, Q
  <2>7. P.at \notin {"main", "outfile", "pack"}
    <3>1. P.at \in {"main", "outfile", "pack"} => P.obuf = <<>>
      BY <1>0 DEF PlaceInv, Place, P
    <3>2. Len(<<>>) = 0 /\ BUF \in Nat
      BY EmptySeq, RkaAssumption
    <3> QED BY <1>3, <3>1, <3>2
  <2> QED BY <1>2, <1>12, <2>4, <2>5, <2>6, <2>7 DEF Running
<1> QED BY <1>11, <1>12

LEMMA BufferTransfers ==
    ASSUME RkaInv, NEW p \in Procs, GoesOn(p), EncodeByte(p) \/ CopyBlock(p)
    PROVE  Transfer(p)'
<1> DEFINE P == proc[p]
           Q == proc'[p]
           out == data[P.fd_out]
           tmp == data[P.fd_tmp]
<1>0. TypeInv /\ PlaceInv /\ InputInv
  BY DEF RkaInv
<1>1. /\ P \in ProcType /\ origin[p] \in Bytes /\ Result(p) \in Bytes /\ out \in Bytes
      /\ P.fd_tmp # 0 => tmp \in Bytes
      /\ P.at = "copy" => Result(p) = Encoded(origin[p])
  BY <1>0, KeptFiles DEF GoesOn
<1>2. /\ data' = data /\ P.ibuf # <<>> /\ P.at \in {"encode", "copy"}
      /\ P.at = "encode" <=> EncodeByte(p)
  BY DEF EncodeByte, CopyBlock
<1>3. /\ Q.at = P.at /\ Q.fd_tmp = P.fd_tmp
      /\ Q.rpos = P.rpos /\ Q.eof = P.eof /\ Q.wpos = P.wpos
      /\ EncodeByte(p) => Q.ibuf = Tail(P.ibuf) /\ Q.obuf = P.obuf \o EncodedChar(Head(P.ibuf))
      /\ CopyBlock(p) => Q.ibuf = <<>> /\ Q.obuf = P.obuf \o P.ibuf
  BY <1>0, BufferEffects DEF SameFiles
<1>4. Transferred(P, origin[p], tmp, out, Result(p))
  BY DEF GoesOn, Transfer
<1> HIDE DEF P, Q, out, tmp
<1>5. CASE EncodeByte(p)
  <2>1. P.at = "encode" /\ Q.ibuf = Tail(P.ibuf) /\ Q.obuf = P.obuf \o EncodedChar(Head(P.ibuf))
    BY <1>2, <1>3, <1>5
  <2>2. /\ out = <<>> /\ Reads(P, origin[p])
        /\ P.fd_tmp # 0 => Writes(P, tmp, Encoded(SubSeq(origin[p], 1, Consumed(P))))
    BY <1>4, <2>1 DEF Transferred
  <2>3. Reads(Q, origin[p])
    BY <1>1, <1>2, <1>3, <2>1, <2>2, ByteRead
  <2>4. P.fd_tmp # 0 => Writes(Q, tmp, Encoded(SubSeq(origin[p], 1, Consumed(Q))))
    BY <1>1, <1>2, <1>3, <2>1, <2>2, ByteEncoded
  <2>5. Transferred(Q, origin[p], tmp, out, Result(p))
    BY <1>3, <2>1, <2>2, <2>3, <2>4 DEF Transferred
  <2> QED BY <1>2, <1>3, <2>5, TransferNext DEF P, Q, tmp, out
<1>6. CASE CopyBlock(p)
  <2>1. P.at = "copy" /\ Q.ibuf = <<>> /\ Q.obuf = P.obuf \o P.ibuf
    BY <1>3, <1>6 DEF CopyBlock, P
  <2>2. tmp = Encoded(origin[p]) /\ tmp = Result(p) /\ Reads(P, tmp) /\ Writes(P, out, SubSeq(tmp, 1, Consumed(P)))
    BY <1>1, <1>4, <2>1 DEF Transferred
  <2>3. Reads(Q, tmp) /\ Writes(Q, out, SubSeq(tmp, 1, Consumed(Q)))
    BY <1>1, <1>2, <1>3, <2>1, <2>2, BlockCopied
  <2>4. Transferred(Q, origin[p], tmp, out, Result(p))
    BY <1>3, <2>1, <2>2, <2>3 DEF Transferred
  <2> QED BY <1>2, <1>3, <2>4, TransferNext DEF P, Q, tmp, out
<1> QED BY <1>5, <1>6

LEMMA RewindTransfers ==
    ASSUME RkaInv, TypeInv', PlaceInv', OpensInv', NEW p \in Procs, GoesOn(p), Kept(p)', Rewind(p)
    PROVE  Transfer(p)'
<1> DEFINE P == proc[p]
           Q == proc'[p]
           out == data[P.fd_out]
           tmp == data[P.fd_tmp]
           text == origin[p]
<1>0. TypeInv /\ PlaceInv /\ InputInv
  BY DEF RkaInv
<1>1. /\ P \in ProcType /\ text \in Bytes /\ P.fd_out \in 1 .. Len(data)
      /\ P.fd_tmp \in 1 .. Len(data) /\ tmp \in Bytes
  <2>1. P.fd_tmp \in 1 .. Len(data)
    BY <1>0, RewindBecomes
  <2>2. P.fd_tmp # 0
    BY <2>1
  <2> QED BY <1>0, <2>1, <2>2, KeptFiles DEF GoesOn
<1>2. P.at = "encode" /\ P.eof /\ Write(p, P.fd_tmp, P.wpos, P.obuf)
  BY DEF Rewind
<1>3. /\ Q.at = "copy" /\ Q.fd_tmp = P.fd_tmp /\ Q.fd_out = P.fd_out /\ Q.ibuf = P.ibuf
      /\ Q.obuf = <<>> /\ ~Q.eof /\ Q.rpos = 0 /\ Q.wpos = 0
  BY <1>0, OtherEffects DEF SameFiles
<1>4. data'[P.fd_tmp] = Overwrite(tmp, P.wpos, P.obuf) /\ \A j \in 1 .. Len(data) : j # P.fd_tmp => data'[j] = data[j]
  <2>1. P.wpos \in Nat /\ P.obuf \in Bytes
    BY <1>1, FieldTypes
  <2> QED BY <1>0, <1>1, <1>2, <2>1, WriteEffect DEF Untouched
<1>5. P.fd_tmp # 0 /\ P.fd_tmp # P.fd_out
  <2>1. P.fd_tmp # 0
    BY <1>1
  <2> QED BY <1>3, <2>1, TmpApart
<1>6. Transferred(P, text, tmp, out, Result(p))
  BY DEF GoesOn, Transfer
<1> HIDE DEF P, Q, tmp, out, text
<1>7. out = <<>> /\ Reads(P, text) /\ Writes(P, tmp, Encoded(SubSeq(text, 1, Consumed(P))))
  BY <1>2, <1>5, <1>6 DEF Transferred
<1>8. Consumed(P) = Len(text) /\ P.ibuf = <<>>
  <2>1. P.rpos = Len(text) /\ Len(P.ibuf) = 0 /\ P.ibuf = <<>> /\ P.rpos \in Nat
    BY <1>1, <1>2, <1>7, FieldTypes, EmptySeq DEF Reads
  <2> QED BY <2>1 DEF Consumed
<1>9. Writes(P, tmp, Encoded(text))
  BY <1>1, <1>7, <1>8, SubSeqFull DEF Bytes
<1>10. data'[P.fd_tmp] = Encoded(text)
  BY <1>1, <1>4, <1>9, AllWritten
<1>11. data'[P.fd_out] = <<>>
  BY <1>1, <1>4, <1>5, <1>7 DEF out
<1>12. Consumed(Q) = 0 /\ Len(Q.ibuf) = 0 /\ Q.ibuf = <<>>
  <2>1. Q.ibuf = <<>> /\ Len(Q.ibuf) = 0 /\ Q.rpos = 0
    BY <1>3, <1>8, EmptySeq
  <2>2. Consumed(Q) = 0 - 0
    BY <2>1, Zenon DEF Consumed
  <2> QED BY <2>1, <2>2
<1>13. Reads(Q, Encoded(text))
  <2>1. SubSeq(Encoded(text), 0 + 1, 0) = <<>>
    BY SubSeqEmpty
  <2>2. Len(Encoded(text)) \in Nat
    BY <1>1, EncodedType, LenProperties DEF Bytes
  <2> QED BY <1>3, <1>12, <2>1, <2>2 DEF Reads
<1>14. Writes(Q, <<>>, SubSeq(Encoded(text), 1, Consumed(Q)))
  <2>1. SubSeq(Encoded(text), 1, 0) = <<>>
    BY SubSeqEmpty
  <2>2. <<>> \o <<>> = <<>> /\ Len(<<>>) = 0
    BY EmptySeq, ConcatEmptySeq
  <2> QED BY <1>3, <1>12, <2>1, <2>2 DEF Writes
<1>15. Transferred(Q, text, data'[Q.fd_tmp], data'[P.fd_out], Result(p))
  BY <1>3, <1>10, <1>11, <1>13, <1>14 DEF Transferred
<1> QED BY <1>15, TransferNext DEF P, Q, text

LEMMA UnpackTransfers ==
    ASSUME RkaInv, NEW p \in Procs, GoesOn(p), UnpackChar(p)
    PROVE  Transfer(p)'
<1> DEFINE P == proc[p]
           Q == proc'[p]
           out == data[P.fd_out]
           t == origin[p]
           c == CharTaken(p)
           u == PartAfter(p)
<1>0. TypeInv /\ PlaceInv /\ InputInv
  BY DEF RkaInv
<1>1. P.at = "unpack" /\ (P.ibuf # <<>> \/ P.eof) /\ data' = data
  BY DEF UnpackChar
<1>2. P \in ProcType /\ t \in Bytes /\ out \in Bytes /\ IsTape(t) /\ Result(p) = Decoded(TapeBody(t))
  BY <1>0, <1>1, KeptFiles DEF GoesOn
<1>3. /\ Q.at = IF u.part \in {"binary", "end"} THEN "exit" ELSE P.at
      /\ Q.rpos = P.rpos /\ Q.eof = P.eof /\ Q.wpos = P.wpos
      /\ Q.ibuf = IF P.ibuf = <<>> THEN P.ibuf ELSE Tail(P.ibuf)
      /\ Q.obuf = IF P.part = "body" /\ u.part = "body" THEN P.obuf \o DecodedChar(c) ELSE P.obuf
      /\ Q.part = u.part /\ Q.count = u.count
  BY <1>0, OtherEffects DEF AtAfter, InAfter, OutAfter
<1>4. c = (IF P.eof THEN 255 ELSE Head(P.ibuf)) /\ u = NextPart(At(P.part, P.count), c)
  BY DEF CharTaken, PartAfter
<1>5. Transferred(P, t, data[P.fd_tmp], out, Result(p))
  BY DEF GoesOn, Transfer
<1>6. Reads(P, t) /\ Parsed(P, t, Consumed(P)) /\ Writes(P, out, Unpacked(P, t, Consumed(P)))
  BY <1>1, <1>5 DEF Transferred
<1> HIDE DEF P, Q, out, t, c, u
<1>7. \/ /\ u.part \notin {"binary", "end"} /\ Reads(Q, t)
         /\ Parsed(Q, t, Consumed(Q)) /\ Writes(Q, out, Unpacked(Q, t, Consumed(Q)))
      \/ u.part = "end" /\ Writes(Q, out, Decoded(TapeBody(t)))
  BY <1>1, <1>2, <1>3, <1>4, <1>6, CharUnpacked
<1>8. Transferred(Q, t, data'[Q.fd_tmp], out, Result(p))
  <2>1. CASE u.part \notin {"binary", "end"}
    <3>1. Q.at = "unpack"
      BY <1>1, <1>3, <2>1
    <3> QED BY <1>7, <2>1, <3>1 DEF Transferred
  <2>2. CASE u.part \in {"binary", "end"}
    <3>1. Q.at = "exit"
      BY <1>3, <2>2
    <3> QED BY <1>2, <1>7, <2>2, <3>1 DEF Transferred
  <2> QED BY <2>1, <2>2
<1> QED BY <1>1, <1>8, TransferNext DEF P, Q, out, t

LEMMA TmpOpened ==
    ASSUME RkaInv, TypeInv', PlaceInv', OpensInv', NEW p \in Procs, GoesOn(p), Kept(p)', OpenTmp(p)
    PROVE  Transfer(p)'
<1> DEFINE P == proc[p]
           Q == proc'[p]
           out == data[P.fd_out]
           t == origin[p]
           i == Opened(tmpfile)
<1>0. TypeInv /\ DirInv /\ PlaceInv /\ InputInv /\ tmpfile \in Names
  BY RkaAssumption DEF RkaInv
<1>1. P \in ProcType /\ t \in Bytes /\ P.fd_out \in 1 .. Len(data) /\ Len(t) \in Nat
  BY <1>0, KeptFiles, LenProperties DEF GoesOn, Bytes
<1>2. P.at = "pack" /\ FopenW(p, tmpfile)
  BY DEF OpenTmp
<1>3. /\ Q.at = "encode" /\ Q.fd_tmp = i /\ Q.fd_out = P.fd_out
      /\ Q.rpos = P.rpos /\ Q.ibuf = P.ibuf /\ Q.eof = P.eof /\ Q.wpos = P.wpos /\ Q.obuf = P.obuf
  BY <1>0, OpenEffects DEF SameInput, SameOutput
<1>4. P.rpos = 0 /\ P.wpos = 0 /\ P.ibuf = <<>> /\ P.obuf = <<>> /\ ~P.eof
  BY <1>0, <1>2 DEF PlaceInv, Place
<1>5. (\A j \in 1 .. Len(data) : j # i => data'[j] = data[j]) /\ (i # 0 => data'[i] = <<>>)
  BY <1>0, <1>2, FopenEffect DEF Untouched
<1>6. i # P.fd_out
  <2>1. i # 0 => i # P.fd_out
    BY <1>3, TmpApart
  <2>2. P.fd_out # 0
    BY <1>1
  <2> HIDE DEF i
  <2> QED BY <2>1, <2>2
<1>7. out = <<>>
  BY <1>2 DEF GoesOn, Transfer, Transferred
<1> HIDE DEF P, Q, out, t, i
<1>8. data'[P.fd_out] = <<>>
  BY <1>1, <1>5, <1>6, <1>7 DEF out
<1>9. Consumed(Q) = 0 /\ Len(Q.ibuf) = 0 /\ Q.ibuf = <<>> /\ Q.rpos = 0 /\ ~Q.eof
  <2>1. Q.ibuf = <<>> /\ Len(Q.ibuf) = 0 /\ Q.rpos = 0 /\ ~Q.eof
    BY <1>3, <1>4, EmptySeq
  <2>2. Consumed(Q) = 0 - 0
    BY <2>1, Zenon DEF Consumed
  <2> QED BY <2>1, <2>2
<1>10. SubSeq(t, 0 + 1, 0) = <<>> /\ SubSeq(t, 1, 0) = <<>>
  BY SubSeqEmpty
<1>11. Reads(Q, t)
  BY <1>1, <1>9, <1>10 DEF Reads
<1>12. Writes(Q, <<>>, Encoded(SubSeq(t, 1, Consumed(Q))))
  <2>1. <<>> \o <<>> = <<>> /\ Len(<<>>) = 0
    BY EmptySeq, ConcatEmptySeq
  <2>2. Encoded(SubSeq(t, 1, Consumed(Q))) = <<>>
    BY <1>9, <1>10, EmptyText
  <2> QED BY <1>3, <1>4, <2>1, <2>2 DEF Writes
<1>13. Transferred(Q, t, data'[Q.fd_tmp], data'[P.fd_out], Result(p))
  BY <1>3, <1>5, <1>8, <1>11, <1>12 DEF Transferred
<1> QED BY <1>13, TransferNext DEF P, Q, t

(* The output begins empty: a file because fopen has emptied it, the       *)
(* standard output because nothing has been written to it.                 *)
LEMMA OutputOpened ==
    ASSUME RkaInv, TypeInv', NEW p \in Procs, OpenOutput(p), Kept(p)'
    PROVE  Transfer(p)'
<1> DEFINE P == proc[p]
           Q == proc'[p]
           t == origin'[p]
           o == Q.fd_out
<1>0. TypeInv /\ DirInv /\ PlaceInv /\ StdoutInv /\ OpenOutput(p)
  BY DEF RkaInv
<1>1. t \in Bytes /\ Len(t) \in Nat
  <2>1. t \in Bytes
    BY DEF TypeInv
  <2> HIDE DEF t
  <2> QED BY <2>1, LenProperties DEF Bytes
<1>2. P.at = "outfile"
  BY DEF OpenOutput
<1>3. /\ Q.at = Command(p) /\ o = (IF argc(p) > 3 THEN Opened(P.args[3]) ELSE 2 * p)
      /\ Q.rpos = P.rpos /\ Q.ibuf = P.ibuf /\ Q.eof = P.eof /\ Q.wpos = P.wpos /\ Q.obuf = P.obuf
      /\ Q.part = P.part /\ Q.count = P.count
  BY <1>0, OpenEffects DEF SameInput, SameOutput, SamePart
<1>4. /\ P.rpos = 0 /\ P.wpos = 0 /\ P.ibuf = <<>> /\ P.obuf = <<>> /\ ~P.eof
      /\ P.part = "header" /\ P.count = 0 /\ P.fd_out = 0 /\ Busy(p)
  BY <1>0, <1>2 DEF PlaceInv, Place
<1>5. Command(p) \in {"pack", "unpack"}
  BY <1>4 DEF Busy
<1>6. o # 0
  BY DEF Kept
<1>7. data'[o] = <<>>
  <2>1. CASE argc(p) > 3
    <3>1. P.args[3] \in Names /\ FopenW(p, P.args[3]) /\ o = Opened(P.args[3])
      BY <1>0, <1>3, <2>1, OutputName DEF OpenOutput
    <3> QED BY <1>0, <1>6, <3>1, FopenEffect
  <2>2. CASE ~(argc(p) > 3)
    <3>1. data' = data /\ o = 2 * p
      BY <1>3, <2>2 DEF OpenOutput
    <3>2. 2 * p # 0
      BY NumbersOfFiles
    <3> QED BY <1>0, <1>4, <3>1, <3>2 DEF StdoutInv
  <2> QED BY <2>1, <2>2
<1> HIDE DEF P, Q, t, o
<1>8. Consumed(Q) = 0 /\ Len(Q.ibuf) = 0 /\ Q.ibuf = <<>> /\ Q.rpos = 0 /\ ~Q.eof
  <2>1. Q.ibuf = <<>> /\ Len(Q.ibuf) = 0 /\ Q.rpos = 0 /\ ~Q.eof
    BY <1>3, <1>4, EmptySeq
  <2>2. Consumed(Q) = 0 - 0
    BY <2>1, Zenon DEF Consumed
  <2> QED BY <2>1, <2>2
<1>9. Reads(Q, t)
  <2>1. SubSeq(t, 0 + 1, 0) = <<>>
    BY SubSeqEmpty
  <2> QED BY <1>1, <1>8, <2>1 DEF Reads
<1>10. Parsed(Q, t, 0) /\ Unpacked(Q, t, 0) = <<>>
  BY <1>3, <1>4 DEF Parsed, Unpacked
<1>11. Writes(Q, <<>>, <<>>)
  <2>1. <<>> \o <<>> = <<>> /\ Len(<<>>) = 0
    BY EmptySeq, ConcatEmptySeq
  <2> QED BY <1>3, <1>4, <2>1 DEF Writes
<1>12. \A tmp, result : Transferred(Q, t, tmp, <<>>, result)
  BY <1>3, <1>5, <1>8, <1>9, <1>10, <1>11 DEF Transferred
<1> QED BY <1>7, <1>12 DEF Transfer, Q, t, o

LEMMA TransferOthers ==
    ASSUME RkaInv, NEW p \in Procs, Step(p) \/ Kill(p), NEW q \in Procs \ {p}, Kept(q)'
    PROVE  Transfer(q)'
<1>0. TypeInv /\ DirInv /\ PlaceInv /\ TransferInv
  BY DEF RkaInv
<1>1. proc'[q] = proc[q] /\ origin'[q] = origin[q]
  BY <1>0, StepMoves, OriginStep
<1>2. PICK i \in Nat, name \in Names : FileStep(p, i, name)
  BY <1>0, StepFiles
<1>3. Alone(q) /\ \A f \in Used(q) : data'[f] = data[f]
  <2>1. Alone(q)'
    BY DEF Kept
  <2> QED BY <1>0, <1>1, <1>2, <2>1, OthersUntouched
<1>4. argc(q)' = argc(q) /\ Command(q)' = Command(q) /\ Busy(q)' = Busy(q)
  BY <1>1, SameArguments
<1>5. Promised(q)' = Promised(q) /\ Result(q)' = Result(q)
  BY <1>1, <1>4 DEF Promised, Result
<1>6. Kept(q) /\ proc[q].fd_out # 0
  BY <1>1, <1>3, <1>4, <1>5 DEF Kept
<1>7. Transferred(proc[q], origin[q], data[proc[q].fd_tmp], data[proc[q].fd_out], Result(q))
  BY <1>0, <1>6 DEF TransferInv, Transfer
<1>8. data'[proc[q].fd_out] = data[proc[q].fd_out]
      /\ (proc[q].fd_tmp # 0 => data'[proc[q].fd_tmp] = data[proc[q].fd_tmp])
  BY <1>3, <1>6 DEF Used
<1>9. proc[q].at = "copy" => proc[q].fd_tmp # 0
  BY <1>0 DEF PlaceInv, Place
<1>10. Transferred(proc[q], origin[q], data'[proc[q].fd_tmp], data'[proc[q].fd_out], Result(q))
  BY <1>7, <1>8, <1>9 DEF Transferred
<1> QED BY <1>1, <1>5, <1>10 DEF Transfer

LEMMA TransferStep ==
    ASSUME RkaInv, TypeInv', PlaceInv', OpensInv', NEW p \in Procs, Step(p) \/ Kill(p)
    PROVE  TransferInv'
<1>1. ASSUME NEW q \in Procs \ {p}, Kept(q)' PROVE Transfer(q)'
  BY <1>1, TransferOthers
<1>2. ASSUME Kept(p)' PROVE Transfer(p)'
  <2>1. CASE OpenInput(p)
    <3>1. proc'[p].at = "outfile"
      BY <2>1, OpenEffects DEF RkaInv
    <3> QED BY <3>1 DEF Transfer, Transferred
  <2>2. CASE OpenOutput(p)
    BY <1>2, <2>2, OutputOpened
  <2>3. CASE ~OpenInput(p) /\ ~OpenOutput(p)
    <3>1. GoesOn(p)
      BY <1>2, <2>3, KeptBefore
    <3>2. CASE CommandRequired(p) \/ UnknownCommand(p) \/ AssertFails(p) \/ NoOutput(p) \/ ExitFails(p) \/ Kill(p)
      BY <3>1, <3>2, EndTransfers
    <3>3. CASE RemoveTmp(p) \/ CopyEnds(p)
      BY <3>1, <3>3, RemovalTransfers
    <3>4. CASE ExitNicely(p)
      BY <3>1, <3>4, ExitTransfers
    <3>5. CASE Refill(p)
      BY <3>1, <3>5, RefillTransfers
    <3>6. CASE WriteOut(p)
      BY <1>2, <3>1, <3>6, WriteOutTransfers
    <3>7. CASE EncodeByte(p) \/ CopyBlock(p)
      BY <3>1, <3>7, BufferTransfers
    <3>8. CASE Rewind(p)
      BY <1>2, <3>1, <3>8, RewindTransfers
    <3>9. CASE UnpackChar(p)
      BY <3>1, <3>9, UnpackTransfers
    <3>10. CASE OpenTmp(p)
      BY <1>2, <3>1, <3>10, TmpOpened
    <3> QED BY <2>3, <3>2, <3>3, <3>4, <3>5, <3>6, <3>7, <3>8, <3>9, <3>10 DEF Step
  <2> QED BY <2>1, <2>2, <2>3
<1> QED BY <1>1, <1>2 DEF TransferInv

-----------------------------------------------------------------------------
(* Theorems *)

LEMMA InvStep == ASSUME RkaInv, [Next]_vars PROVE RkaInv'
<1>0. TypeInv /\ DirInv /\ PlaceInv /\ OpensInv /\ InputInv /\ StdoutInv /\ TransferInv /\ TmpInv
  BY DEF RkaInv
<1>1. ASSUME NEW p \in Procs, Step(p) \/ Kill(p) PROVE RkaInv'
  <2>1. DirInv'
    <3>1. PICK i \in Nat, name \in Names : FileStep(p, i, name)
      BY <1>0, <1>1, StepFiles
    <3> QED BY <1>0, <3>1, DirStep
  <2>2. TypeInv' /\ PlaceInv' /\ OpensInv'
    BY <1>0, <1>1, TypeStep, PlaceStep, OpensStep
  <2>3. InputInv' /\ StdoutInv'
    BY <1>0, <1>1, <2>2, InputStep, StdoutStep
  <2>4. TransferInv'
    BY <1>1, <2>2, TransferStep
  <2>5. TmpInv'
    BY <1>0, <1>1, TmpStep
  <2> QED BY <2>1, <2>2, <2>3, <2>4, <2>5 DEF RkaInv
<1>2. ASSUME UNCHANGED vars PROVE RkaInv'
  <2>1. dir' = dir /\ data' = data /\ proc' = proc /\ origin' = origin /\ meddled' = meddled
    BY <1>2 DEF vars
  <2>2. TypeInv' /\ DirInv'
    BY <1>0, <2>1 DEF TypeInv, DirInv
  <2>3. PlaceInv' /\ OpensInv'
    BY <1>0, <2>1 DEF PlaceInv, Place, OpensInv, Opens, Busy, Command, argc, Writing
  <2>4. InputInv' /\ StdoutInv'
    BY <1>0, <2>1 DEF InputInv, StdoutInv, Alone
  <2>5. TransferInv'
    BY <1>0, <2>1 DEF TransferInv, Transfer, Kept, Alone, Promised, Result, Busy, Command, argc
  <2>6. TmpInv'
    BY <1>0, <2>1 DEF TmpInv, Busy, Command, argc
  <2> QED BY <2>2, <2>3, <2>4, <2>5, <2>6 DEF RkaInv
<1> QED BY <1>1, <1>2 DEF Next

(* The inductive invariant: types and offsets; a name is of one file; at   *)
(* each place of main.c, edb.c and inbuf.c the FILEs a process has and how *)
(* far its buffers have got between input, temporary file and output.      *)
THEOREM RkaSound == Spec => []RkaInv
<1>1. Init => RkaInv
  BY InitInv
<1>2. RkaInv /\ [Next]_vars => RkaInv'
  BY InvStep
<1> QED BY <1>1, <1>2, PTL DEF Spec

(* The state keeps its types: files hold bytes, every FILE of a process is *)
(* an inode or null, and stdio's buffers keep to their bounds.             *)
THEOREM TypeCorrect == Spec => []TypeOK
<1>1. ASSUME TypeInv PROVE TypeOK
  <2>1. data \in Seq(Seq(0 .. 255)) /\ dir \in [Names -> 0 .. Len(data)]
        /\ meddled \in [Procs -> BOOLEAN] /\ origin \in [Procs -> Seq(0 .. 255)]
    BY <1>1 DEF TypeInv, Byte, Bytes
  <2>2. Len(data) \in Nat
    BY <2>1, LenProperties
  <2>3. ASSUME NEW p \in Procs
        PROVE  /\ proc[p].at \in Running \cup Ended /\ proc[p].code \in {E_CMDREQ, E_UNKNOWNCMD}
               /\ proc[p].fd_in \in Nat /\ proc[p].fd_out \in Nat /\ proc[p].fd_tmp \in Nat
               /\ proc[p].rpos \in Nat /\ proc[p].wpos \in Nat
    <3>1. proc[p] \in ProcType
      BY <1>1 DEF TypeInv
    <3> QED BY <3>1 DEF ProcType
  <2>4. \A p \in Procs : {proc[p].fd_in, proc[p].fd_out, proc[p].fd_tmp} \subseteq 0 .. Len(data)
    BY <1>1, <2>2, <2>3 DEF TypeInv
  <2>5. \A p \in Procs : Len(proc[p].ibuf) <= BUF /\ Len(proc[p].obuf) <= 2 * BUF + 1
    BY <1>1 DEF TypeInv
  <2> QED BY <2>1, <2>3, <2>4, <2>5 DEF TypeOK
<1>2. RkaInv => TypeOK
  BY <1>1 DEF RkaInv
<1> QED BY <1>2, RkaSound, PTL

LEMMA UndisturbedIsKept ==
    ASSUME RkaInv, NEW p \in Procs, Busy(p), Undisturbed(p), Promised(p)
    PROVE  /\ Kept(p)
           /\ Transferred(proc[p], origin[p], data[proc[p].fd_tmp], data[proc[p].fd_out], Result(p))
<1>1. Kept(p)
  BY DEF Kept, Alone, Undisturbed
<1> QED BY <1>1 DEF RkaInv, TransferInv, Transfer

(* However processes interleave and wherever one is killed or fails: who   *)
(* is not interfered with has written a beginning of what pack or unpack   *)
(* of its input gives, and nothing else.                                   *)
THEOREM PrefixWritten == Spec => []OutputIsPrefix
<1>1. ASSUME RkaInv, NEW p \in Procs, Busy(p), Undisturbed(p), Promised(p)
      PROVE  IsPrefix(data[proc[p].fd_out], Result(p))
  <2> DEFINE P == proc[p]
             out == data[P.fd_out]
             R == Result(p)
  <2> SUFFICES IsPrefix(out, R)
    OBVIOUS
  <2>1. Kept(p) /\ Transferred(P, origin[p], data[P.fd_tmp], out, R)
    BY <1>1, UndisturbedIsKept
  <2>2. /\ P \in ProcType /\ origin[p] \in Bytes /\ R \in Bytes /\ out \in Bytes
        /\ P.at \notin {"main", "outfile"}
        /\ P.at \in {"pack", "encode", "copy", "remove"} => R = Encoded(origin[p])
        /\ P.at = "unpack" => IsTape(origin[p]) /\ R = Decoded(TapeBody(origin[p]))
    BY <1>1, <2>1, KeptFiles DEF RkaInv
  <2> HIDE DEF P, out, R
  <2>3. P.at \in Running \cup Ended
    BY <2>2, FieldTypes
  <2>4. CASE P.at \in {"pack", "encode", "copy", "unpack", "remove", "exit"}
    BY <2>1, <2>2, <2>4, PartIsPrefix
  <2>5. CASE P.at = "exited"
    <3>1. out = R
      BY <2>1, <2>5 DEF Transferred
    <3>2. <<>> \in Bytes /\ R \o <<>> = R
      BY <2>2, EmptySeq, ConcatEmptySeq DEF Bytes
    <3> QED BY <2>2, <3>1, <3>2, PrefixOfConcat DEF Bytes
  <2>6. CASE P.at \in {"aborted", "killed"}
    BY <2>1, <2>6 DEF Transferred
  <2> QED BY <2>2, <2>3, <2>4, <2>5, <2>6 DEF Running, Ended
<1>2. RkaInv => OutputIsPrefix
  BY <1>1 DEF OutputIsPrefix
<1> QED BY <1>2, RkaSound, PTL

(* Who exits without having been interfered with leaves the whole result,  *)
(* although all of it has gone through buffers and pack's through a file.  *)
THEOREM ResultWritten == Spec => []ResultIsWhole
<1>1. ASSUME RkaInv, NEW p \in Procs, proc[p].at = "exited", Busy(p), Undisturbed(p), Promised(p)
      PROVE  data[proc[p].fd_out] = Result(p)
  <2>1. Transferred(proc[p], origin[p], data[proc[p].fd_tmp], data[proc[p].fd_out], Result(p))
    BY <1>1, UndisturbedIsKept
  <2> QED BY <1>1, <2>1 DEF Transferred
<1>2. RkaInv => ResultIsWhole
  BY <1>1 DEF ResultIsWhole
<1> QED BY <1>2, RkaSound, PTL

(* The tables of pack and of unpack agree on all that a tape can hold: a   *)
(* printable listing is packed into codes of 7 bits, not the document's,   *)
(* and reads the same from the packed file.                                *)
THEOREM PackedReadable == Spec => []PackedDecodes
<1>1. ASSUME RkaInv, NEW p \in Procs, proc[p].at = "exited", Busy(p), Undisturbed(p),
             Command(p) = "pack", Printable(origin[p])
      PROVE  IsKoi7(data[proc[p].fd_out]) /\ Decoded(data[proc[p].fd_out]) = origin[p]
  <2>1. Promised(p) /\ Result(p) = Encoded(origin[p])
    BY <1>1 DEF Promised, Result
  <2>2. Transferred(proc[p], origin[p], data[proc[p].fd_tmp], data[proc[p].fd_out], Result(p))
    BY <1>1, <2>1, UndisturbedIsKept
  <2>3. data[proc[p].fd_out] = Encoded(origin[p])
    BY <1>1, <2>1, <2>2 DEF Transferred
  <2>4. origin[p] \in Bytes
    BY <1>1 DEF RkaInv, TypeInv
  <2> QED BY <1>1, <2>3, <2>4, RoundTrip
<1>2. RkaInv => PackedDecodes
  BY <1>1 DEF PackedDecodes
<1> QED BY <1>2, RkaSound, PTL

(* The temporary file is gone when all have ended well, whoever of them    *)
(* made it and whoever removed it.                                         *)
THEOREM TmpGone == Spec => []TmpRemoved
<1>1. ASSUME RkaInv,
             \A p \in Procs : proc[p].at = "exited" /\ \A i \in 2 .. argc(p) - 1 : proc[p].args[i] # tmpfile,
             \E p \in Procs : Busy(p) /\ Command(p) = "pack"
      PROVE  dir[tmpfile] = 0
  <2>1. \A p \in Procs : argc(p) - 1 = Len(proc[p].args)
    <3>1. \A p \in Procs : Len(proc[p].args) \in Nat
      BY <1>1, FieldTypes, LenProperties DEF RkaInv, TypeInv
    <3> QED BY <3>1 DEF argc
  <2>2. \A p \in Procs : \A i \in 2 .. Len(proc[p].args) : proc[p].args[i] # tmpfile
    BY <1>1, <2>1
  <2>3. \E p \in Procs : proc[p].at \in {"exit", "exited"} /\ Busy(p) /\ Command(p) = "pack"
    BY <1>1
  <2>4. ~\E q \in Procs : proc[q].at \in {"encode", "copy", "remove", "aborted", "killed"}
    BY <1>1
  <2>5. TmpInv
    BY <1>1 DEF RkaInv
  <2> QED BY <2>2, <2>3, <2>4, <2>5 DEF TmpInv
<1>2. RkaInv => TmpRemoved
  BY <1>1 DEF TmpRemoved
<1> QED BY <1>2, RkaSound, PTL
=============================================================================
