----------------------------- MODULE MCHashTbl -----------------------------
(***************************************************************************)
(* Instances of HashTbl.  Three slots and four names: one name more than   *)
(* fits.  a, b and d share the last slot, so their probe paths wrap around *)
(* and cross the home of c.                                                *)
(***************************************************************************)
EXTENDS HashTbl

CONSTANTS a, b, c, d

Homes == [k \in Key |-> IF k = c THEN 0 ELSE 2]

AllShort == [k \in Key |-> k]

(* d is an identifier of 50 characters, c the same without the last one.   *)
OneLong == [AllShort EXCEPT ![d] = c]
=============================================================================
