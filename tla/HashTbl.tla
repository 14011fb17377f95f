------------------------------ MODULE HashTbl ------------------------------
(***************************************************************************)
(* The symbol table of bkasm: bkasm/src/hashtbl.c (open addressing with    *)
(* linear probing) and the two operations of bkasm/src/asmvars.c that the  *)
(* rest of the assembler calls, in the three stages of a run.  A name is   *)
(* abstract; Home is its hash reduced to a slot (hashtbl.c:17, 36) and     *)
(* Stored is what strncpy(..., 49) keeps of it (hashtbl.c:24-25).          *)
(***************************************************************************)
EXTENDS Integers, Sequences, FiniteSets, Functions

CONSTANTS
    Key,        \* identifiers
    Val,        \* values
    NoVal,      \* content of *result when hash_value does not write it
    Size,       \* MAX_VAR_COUNT, 1024 in bkasm.h
    Home,       \* [Key -> 0..Size-1]: hashf(key) % size
    Stored,     \* [Key -> Key]: the name cut to 49 characters
    Empty,      \* name[0] = 0
    Deleted,    \* name[0] = -1, the mark of a removed entry
    MaxDecls    \* bound: labels a program declares

ASSUME SizeAssumption == Size \in Nat \ {0}
ASSUME HomeAssumption == Home \in [Key -> 0..Size-1]
ASSUME StoredAssumption == Stored \in [Key -> Key]
ASSUME MarkAssumption == Empty \notin Key /\ Deleted \notin Key /\ Empty # Deleted
ASSUME NoValAssumption == NoVal \notin Val
ASSUME MaxDeclsAssumption == MaxDecls \in Nat

VARIABLES
    asmvars,        \* HashVar asmvars[MAX_VAR_COUNT]
    bkasm_stage,
    outcome,        \* "running", or "duplicate" after exit_nicely(E_LINKERERROR)
    answer,         \* what the last asmvars_value returned
    decls           \* names of the AST's label and EQU nodes, in program order

vars == <<asmvars, bkasm_stage, outcome, answer, decls>>

PARSE_STAGE == 0
EVAL_STAGE == 1
GENERATE_STAGE == 2
Stages == PARSE_STAGE..GENERATE_STAGE

Slots == 0..Size-1
Entry == [name : Key \cup {Empty, Deleted}, val : Val \cup {NoVal}]
Answer == [code : {0, -1, -2}, val : Val \cup {NoVal}, complained : BOOLEAN]
NoAnswer == [code |-> 0, val |-> NoVal, complained |-> FALSE]

TypeOK ==
    /\ asmvars \in [Slots -> Entry]
    /\ bkasm_stage \in Stages
    /\ outcome \in {"running", "duplicate"}
    /\ answer \in Answer
    /\ decls \in Seq(Key)

-----------------------------------------------------------------------------
(* Probing.  The d-th slot looked at for a key; the loops of hash_push and *)
(* hash_value stop at the first slot that suits them and give up after     *)
(* Size slots.                                                             *)

Probe(k, d) == (Home[k] + d) % Size

NameAt(k, d) == asmvars[Probe(k, d)].name

(* Mutant: a stored name is not recognized.                                *)
PushStop_NoMatch(k, d) == NameAt(k, d) \in {Empty, Deleted}

PushStop(k, d) == NameAt(k, d) \in {Empty, Deleted, k}

(* Mutant: an empty slot does not end the search.                          *)
ValueStop_PastEmpty(k, d) == NameAt(k, d) = k

ValueStop(k, d) == NameAt(k, d) \in {Empty, k}

(* Mutant: any free slot will do, not just the first one.                  *)
hash_push_AnySlot(key, val) ==
    \/ \E d \in Slots :
         /\ PushStop(key, d)
         /\ asmvars' = [asmvars EXCEPT ![Probe(key, d)] =
                          [name |-> Stored[key], val |-> val]]
    \/ /\ \A d \in Slots : ~PushStop(key, d)
       /\ UNCHANGED asmvars

(* Mutant: the loop ends one slot early.                                   *)
hash_push_OneShort(key, val) ==
    \/ \E d \in 0..Size-2 :
         /\ PushStop(key, d)
         /\ \A e \in Slots : e < d => ~PushStop(key, e)
         /\ asmvars' = [asmvars EXCEPT ![Probe(key, d)] =
                          [name |-> Stored[key], val |-> val]]
    \/ /\ \A d \in 0..Size-2 : ~PushStop(key, d)
       /\ UNCHANGED asmvars

hash_push(key, val) ==
    \/ \E d \in Slots :
         /\ PushStop(key, d)
         /\ \A e \in Slots : e < d => ~PushStop(key, e)
         /\ asmvars' = [asmvars EXCEPT ![Probe(key, d)] =
                          [name |-> Stored[key], val |-> val]]
    \/ /\ \A d \in Slots : ~PushStop(key, d)
       /\ UNCHANGED asmvars

(* HashValueIs(key, code, val): hash_value(key, ...) returns code, with val *)
(* in *result.                                                              *)
HashValueIs(key, code, val) ==
    \/ \E d \in Slots :
         /\ ValueStop(key, d)
         /\ \A e \in Slots : e < d => ~ValueStop(key, e)
         /\ IF NameAt(key, d) = key
              THEN code = 0 /\ val = asmvars[Probe(key, d)].val
              ELSE code = -2 /\ val = NoVal
    \/ /\ \A d \in Slots : ~ValueStop(key, d)
       /\ code = -1
       /\ val = NoVal

Found(key) == \E v \in Val : HashValueIs(key, 0, v)

-----------------------------------------------------------------------------
(* Mutant: no check for duplicates.                                        *)
asmvars_add_Unchecked(key, val) == hash_push(key, val) /\ UNCHANGED outcome

asmvars_add(key, val) ==
    IF bkasm_stage = PARSE_STAGE /\ Found(key)
      THEN outcome' = "duplicate" /\ UNCHANGED asmvars
      ELSE hash_push(key, val) /\ UNCHANGED outcome

asmvars_value(key) ==
    \E code \in {0, -1, -2}, val \in Val \cup {NoVal} :
        /\ HashValueIs(key, code, val)
        /\ answer' = [code |-> code, val |-> val,
                      complained |-> code = -1 /\ bkasm_stage > EVAL_STAGE]

Init ==
    /\ asmvars = [i \in Slots |-> [name |-> Empty, val |-> NoVal]]
    /\ bkasm_stage = PARSE_STAGE
    /\ outcome = "running"
    /\ answer = NoAnswer
    /\ decls = <<>>

(* The parser adds a label or an EQU to the tree and to the table.         *)
ParseLabel(key, val) ==
    /\ outcome = "running"
    /\ bkasm_stage = PARSE_STAGE
    /\ Len(decls) < MaxDecls
    /\ decls' = Append(decls, key)
    /\ asmvars_add(key, val)
    /\ UNCHANGED <<bkasm_stage, answer>>

(* A link pass meets the label or EQU again.                               *)
LinkLabel(key, val) ==
    /\ outcome = "running"
    /\ bkasm_stage > PARSE_STAGE
    /\ key \in Range(decls)
    /\ asmvars_add(key, val)
    /\ UNCHANGED <<bkasm_stage, answer, decls>>

(* An operand names key, declared or not.                                  *)
Lookup(key) ==
    /\ outcome = "running"
    /\ asmvars_value(key)
    /\ UNCHANGED <<asmvars, bkasm_stage, outcome, decls>>

(* Mutant: one stage too many.                                             *)
NextStage_PastEnd ==
    /\ outcome = "running"
    /\ bkasm_stage <= GENERATE_STAGE
    /\ bkasm_stage' = bkasm_stage + 1
    /\ UNCHANGED <<asmvars, outcome, answer, decls>>

NextStage ==
    /\ outcome = "running"
    /\ bkasm_stage < GENERATE_STAGE
    /\ bkasm_stage' = bkasm_stage + 1
    /\ UNCHANGED <<asmvars, outcome, answer, decls>>

Next ==
    \/ \E k \in Key, v \in Val : ParseLabel(k, v)
    \/ \E k \in Key, v \in Val : LinkLabel(k, v)
    \/ \E k \in Key : Lookup(k)
    \/ NextStage

Spec == Init /\ [][Next]_vars

-----------------------------------------------------------------------------
Used(i) == asmvars[i].name \in Key
Names == {asmvars[i].name : i \in {j \in Slots : Used(j)}}

TableFull == \A i \in Slots : Used(i)

(* No name is cut: every identifier has at most 49 characters.             *)
ShortNames == \A k \in Key : Stored[k] = k

(* A name occupies one slot: hash_push never stores a second entry for a   *)
(* name it already holds further along the probe path (hashtbl.c:22).      *)
OneSlotPerName ==
    \A i, j \in Slots : Used(i) /\ asmvars[i].name = asmvars[j].name => i = j

(* The slots between a name's home and its entry are occupied, so that a   *)
(* lookup, which stops at the first empty slot (hashtbl.c:41), gets there. *)
NoGapBeforeEntry ==
    \A k \in Key, d \in Slots :
        NameAt(k, d) = k => \A e \in Slots : e < d => NameAt(k, e) # Empty

(* A label the parser accepted is missing from the table only when every   *)
(* slot is taken: collisions, wrap-around and repeated passes lose nothing *)
(* else (the silent end of the loop at hashtbl.c:30).                      *)
LostOnlyWhenFull ==
    outcome = "running" /\ ~(Range(decls) \subseteq Names)
        => TableFull

(* While the run goes on no two statements declare the same name, whatever *)
(* the length of the name: the second one ends the run (asmvars.c:19-28).  *)
DuplicatesRejected ==
    outcome = "running" =>
        \A i, j \in 1..Len(decls) : decls[i] = decls[j] => i = j

(* Two accepted statements declare the same name only when that name was   *)
(* lost because the table was full: the duplicate check of asmvars.c:19-28 *)
(* finds every name the table holds.                                       *)
DuplicatesOnlyOfLost ==
    outcome = "running" =>
        \A i, j \in 1..Len(decls) :
            i # j /\ decls[i] = decls[j]
                => decls[i] \notin Names /\ TableFull

(* The link passes neither forget a name nor move it: only the values of   *)
(* the table change after parsing (asmvars_add stops checking for          *)
(* duplicates then, asmvars.c:19, and relies on strcmp in hash_push).      *)
SettledAfterParse ==
    [][bkasm_stage > PARSE_STAGE =>
         \A i \in Slots : asmvars'[i].name = asmvars[i].name]_vars

(* The inductive invariant behind these properties: also, no entry is ever *)
(* marked as removed, and an entry in use has a value.                     *)
TableInv ==
    /\ OneSlotPerName
    /\ NoGapBeforeEntry
    /\ \A i \in Slots : asmvars[i].name # Deleted
    /\ \A i \in Slots : Used(i) => asmvars[i].val \in Val
    /\ \A n \in 1..Len(decls) : decls[n] \in Names \/ TableFull
    /\ DuplicatesOnlyOfLost

SlotOf(k) == CHOOSE i \in Slots : asmvars[i].name = k

Dictionary == INSTANCE SymbolMap WITH
    Name <- Key, Capacity <- Size,
    map <- [k \in Names |-> asmvars[SlotOf(k)].val],
    stage <- bkasm_stage

(* The table is the bounded dictionary of SymbolMap: every operation, in   *)
(* every stage, has the effect and the answer the dictionary gives.        *)
ImplementsSymbolMap == Dictionary!Spec
=============================================================================
