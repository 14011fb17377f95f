----------------------------- MODULE SymbolMap -----------------------------
(***************************************************************************)
(* What the symbol table of bkasm promises to the rest of the assembler:   *)
(* a dictionary from names to values that holds at most Capacity names.    *)
(* While the program is parsed a name is defined once and defining it      *)
(* again ends the run; the two link passes set the values of defined names *)
(* anew.  Nothing is said of slots, probing or hash values: HashTbl shows  *)
(* that bkasm/src/hashtbl.c implements this with an open addressing table. *)
(***************************************************************************)
EXTENDS Integers, FiniteSets

CONSTANTS
    Name,       \* identifiers
    Val,        \* values of labels and constants
    NoVal,      \* *result was not written
    Capacity    \* MAX_VAR_COUNT

VARIABLES
    map,        \* names to values, a function on the names that are stored
    stage,      \* 0 parse, 1 evaluate, 2 generate
    outcome,    \* "running", or "duplicate" once the run ended on E_LINKERERROR
    answer      \* what the last lookup returned

smvars == <<map, stage, outcome, answer>>

Full == Cardinality(DOMAIN map) = Capacity

Bind(k, v) == [n \in DOMAIN map \cup {k} |-> IF n = k THEN v ELSE map[n]]

NoAnswer == [code |-> 0, val |-> NoVal, complained |-> FALSE]

Init == /\ map = [n \in {} |-> 0]
        /\ stage = 0
        /\ outcome = "running"
        /\ answer = NoAnswer

(* A new name is bound unless there is no room for it.                     *)
Define(k, v) ==
    /\ outcome = "running"
    /\ stage = 0
    /\ IF k \in DOMAIN map
         THEN outcome' = "duplicate" /\ UNCHANGED map
         ELSE /\ map' = IF Full THEN map ELSE Bind(k, v)
              /\ UNCHANGED outcome
    /\ UNCHANGED <<stage, answer>>

(* The link passes give a bound name a new value, and bind none: a name    *)
(* that found no room when it was defined stays unbound.                   *)
Update(k, v) ==
    /\ outcome = "running"
    /\ stage > 0
    /\ k \in DOMAIN map \/ Full
    /\ map' = IF k \in DOMAIN map THEN Bind(k, v) ELSE map
    /\ UNCHANGED <<stage, outcome, answer>>

(* A lookup answers with the value, and else tells why there is none: -1   *)
(* when the table has no room left, -2 when it has.                        *)
Ask(k) ==
    /\ outcome = "running"
    /\ answer' = IF k \in DOMAIN map
                   THEN [code |-> 0, val |-> map[k], complained |-> FALSE]
                   ELSE [code |-> IF Full THEN -1 ELSE -2, val |-> NoVal,
                         complained |-> Full /\ stage = 2]
    /\ UNCHANGED <<map, stage, outcome>>

Advance ==
    /\ outcome = "running"
    /\ stage < 2
    /\ stage' = stage + 1
    /\ UNCHANGED <<map, outcome, answer>>

Next == \/ \E k \in Name, v \in Val : Define(k, v) \/ Update(k, v)
        \/ \E k \in Name : Ask(k)
        \/ Advance

Spec == Init /\ [][Next]_smvars
=============================================================================
