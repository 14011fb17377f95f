------------------------------ MODULE MCInbuf ------------------------------
(***************************************************************************)
(* An instance of Inbuf: a main file and a library, every text of up to    *)
(* three items for either, includes of themselves and of each other among  *)
(* them, and three frames.                                                 *)
(***************************************************************************)
EXTENDS Inbuf

CONSTANTS main, lib

Items == {Char, Eol, Include(main), Include(lib)}

ShortTexts == UNION {[1..n -> Items] : n \in 0..3}
=============================================================================
