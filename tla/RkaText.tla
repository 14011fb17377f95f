------------------------------ MODULE RkaText ------------------------------
(***************************************************************************)
(* The characters of rkaexchange (rkaexchange/src/edb.c): what one byte of *)
(* a listing becomes on tape and back, and what unpack makes of a tape, as *)
(* functions of the whole text.  A listing is UTF-8 and is read byte by    *)
(* byte: of a Russian letter the first byte is dropped and the second      *)
(* looked up.                                                              *)
(***************************************************************************)
EXTENDS Integers, SequencesExt

CONSTANTS
    EncodeBehind,   \* bytes that follow the table of charCodeAt in a build
    DecodeBehind    \* wide characters that follow that of getUnicodeSymbol

ASSUME BehindAssumption ==
    /\ EncodeBehind \in [177 .. 255 -> 0 .. 255]
    /\ DecodeBehind \in [129 .. 254 -> Int]

utfRu == 208            \* D0, which introduces most Russian capitals
SYNC  == 230            \* E6
END_OF_BODY == 255      \* FF, also what inbuf_next_char says at the end

(* Tape codes of the letters whose second byte is 90, 91, ... AF.          *)
TapeLetters == << 97,  98, 119, 103, 100, 101, 118, 122,
                 105, 106, 107, 108, 109, 110, 111, 112,
                 114, 115, 116, 117, 102, 104,  99, 126,
                 123, 125,  46, 121, 120, 124,  96, 113>>

(* Letters (their place in the alphabet, from 0) of the tape codes 60 to 7E *)
Letters == <<30,  0,  1, 22,  4,  5, 20,  3, 21,  8,  9, 10, 11, 12, 13, 14,
             15, 31, 16, 17, 18, 19,  6,  2, 28, 27,  7, 24, 29, 25, 23>>

-----------------------------------------------------------------------------
(* Mutant: the rows with the letters are read one early.                   *)
charCodeAt_Shifted(chr) == IF chr < 128 THEN chr
                           ELSE IF chr \in 145 .. 175 THEN TapeLetters[chr - 144]
                           ELSE 80

(* The table is indexed by byte, and its first rows hold characters of     *)
(* several bytes: index chr + 11 is the row "P.._" for 80 to 8F, the       *)
(* letters for 90 to AF, the end mark for B0, and then what follows.       *)
charCodeAt(chr) ==
    CASE chr < 128          -> chr
      [] chr \in 128 .. 143 -> chr - 48
      [] chr \in 144 .. 175 -> TapeLetters[chr - 143]
      [] chr = 176          -> 0
      [] OTHER              -> EncodeBehind[chr]

(* What encode writes for one byte, and for all of a listing.              *)
EncodedChar(ch) == IF ch = utfRu THEN <<>> ELSE <<charCodeAt(ch)>>

Encoded(listing) == FlattenSeq([i \in DOMAIN listing |-> EncodedChar(listing[i])])

-----------------------------------------------------------------------------
getUnicodeSymbol(chr) ==
    CASE chr = 36           -> 164               \* a currency sign for $
      [] chr \in 96 .. 126  -> 1040 + Letters[chr - 95]
      [] chr = 127          -> 9618
      [] chr = 128          -> 0
      [] chr > 128          -> DecodeBehind[chr]
      [] OTHER              -> chr

Narrow(sym) == IF sym > 1024 THEN <<utfRu, (sym + 128) % 256>> ELSE <<sym % 256>>

(* What unpack writes for one character of the body.                       *)
DecodedChar(chr) == IF chr < 32 THEN <<10>> ELSE Narrow(getUnicodeSymbol(chr))

Decoded(body) == FlattenSeq([i \in DOMAIN body |-> DecodedChar(body[i])])

-----------------------------------------------------------------------------
(* Listings that survive the tape: lines of ASCII without lower case and   *)
(* $, and Russian capitals in two bytes; of those the hard sign shares the *)
(* code of the full stop.                                                  *)

IsAscii(b) == b = 10 \/ b \in (32 .. 95) \ {36}

IsCapital(a, b) == a = utfRu /\ b \in (144 .. 175) \ {170}

Printable(listing) ==
    \A i \in DOMAIN listing :
        \/ IsAscii(listing[i])
        \/ i < Len(listing) /\ IsCapital(listing[i], listing[i + 1])
        \/ i > 1 /\ IsCapital(listing[i - 1], listing[i])

(* KOI7 has no high bit; doc/RKA_FORMAT_SPEC.md, 148, sets it for letters. *)
IsKoi7(tape) == \A i \in DOMAIN tape : tape[i] < 128

(* A tape in the form of a named program: marks, name, zeros, three bytes  *)
(* that begin with SYNC, body.                                             *)
Tape(name, zeros, body) ==
    <<SYNC, SYNC, SYNC, SYNC>> \o name \o <<0>> \o [i \in 1 .. zeros |-> 0]
        \o <<SYNC, 1, 2>> \o body \o <<END_OF_BODY>>
=============================================================================
