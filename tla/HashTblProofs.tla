--------------------------- MODULE HashTblProofs ---------------------------
(***************************************************************************)
(* Theorems about HashTbl, for every table size, hash function and set of  *)
(* names, and for programs of any length.                                  *)
(***************************************************************************)
EXTENDS HashTbl, FiniteSetTheorems, TLAPS

USE DEF Slots, Stages, PARSE_STAGE, EVAL_STAGE, GENERATE_STAGE

(* Probe is addition modulo Size without a carry left over.                *)
LEMMA ProbeValue ==
    ASSUME NEW k \in Key, NEW d \in Slots
    PROVE  Probe(k, d) = IF Home[k] + d < Size THEN Home[k] + d ELSE Home[k] + d - Size
<1> DEFINE x == Home[k] + d
<1>1. Home[k] \in 0..Size-1 /\ d \in 0..Size-1 /\ Size \in Nat \ {0}
  BY HomeAssumption, SizeAssumption
<1>2. CASE x < Size
  BY <1>1, <1>2 DEF Probe
<1>3. CASE x >= Size
  BY <1>1, <1>3 DEF Probe
<1> QED
  BY <1>1, <1>2, <1>3

(* A probe path visits a slot once ...                                     *)
LEMMA ProbeInjective ==
    ASSUME NEW k \in Key, NEW d \in Slots, NEW e \in Slots, Probe(k, d) = Probe(k, e)
    PROVE  d = e
BY ProbeValue, HomeAssumption, SizeAssumption

(* ... and visits every slot.                                              *)
LEMMA ProbeOnto ==
    ASSUME NEW k \in Key, NEW i \in Slots
    PROVE  \E d \in Slots : Probe(k, d) = i
<1>1. Home[k] \in 0..Size-1 /\ Size \in Nat \ {0}
  BY HomeAssumption, SizeAssumption
<1>2. CASE Home[k] <= i
  <2>1. i - Home[k] \in Slots /\ Probe(k, i - Home[k]) = i
    BY <1>1, <1>2, ProbeValue
  <2> QED BY <2>1
<1>3. CASE i < Home[k]
  <2>1. i - Home[k] + Size \in Slots /\ Probe(k, i - Home[k] + Size) = i
    BY <1>1, <1>3, ProbeValue
  <2> QED BY <2>1
<1> QED BY <1>1, <1>2, <1>3

LEMMA ProbeType ==
    ASSUME NEW k \in Key, NEW d \in Slots
    PROVE  Probe(k, d) \in Slots
BY ProbeValue, HomeAssumption, SizeAssumption

-----------------------------------------------------------------------------
(* Type correctness.                                                       *)

LEMMA PushType ==
    ASSUME TypeOK, NEW k \in Key, NEW v \in Val, hash_push(k, v)
    PROVE  asmvars' \in [Slots -> Entry]
<1>1. [name |-> Stored[k], val |-> v] \in Entry
  BY StoredAssumption DEF Entry
<1> QED BY <1>1 DEF hash_push, TypeOK

LEMMA AddType ==
    ASSUME TypeOK, NEW k \in Key, NEW v \in Val, asmvars_add(k, v)
    PROVE  asmvars' \in [Slots -> Entry] /\ outcome' \in {"running", "duplicate"}
BY PushType DEF asmvars_add, TypeOK

(* The table, the stage, the outcome and every answer stay of their types  *)
(* whatever labels are declared, relinked and looked up in whatever order. *)
THEOREM TypeCorrect == Spec => []TypeOK
<1>1. Init => TypeOK
  BY SizeAssumption DEF Init, TypeOK, Entry, Answer, NoAnswer
<1>2. TypeOK /\ [Next]_vars => TypeOK'
  <2> SUFFICES ASSUME TypeOK, [Next]_vars PROVE TypeOK'
    OBVIOUS
  <2>1. ASSUME NEW k \in Key, NEW v \in Val, ParseLabel(k, v) PROVE TypeOK'
    BY <2>1, AddType DEF ParseLabel, TypeOK
  <2>2. ASSUME NEW k \in Key, NEW v \in Val, LinkLabel(k, v) PROVE TypeOK'
    BY <2>2, AddType DEF LinkLabel, TypeOK
  <2>3. ASSUME NEW k \in Key, Lookup(k) PROVE TypeOK'
    <3>1. answer' \in Answer
      BY <2>3 DEF Lookup, asmvars_value, Answer
    <3> QED BY <2>3, <3>1 DEF Lookup, TypeOK
  <2>4. CASE NextStage
    BY <2>4 DEF NextStage, TypeOK
  <2>5. CASE UNCHANGED vars
    BY <2>5 DEF vars, TypeOK
  <2> QED BY <2>1, <2>2, <2>3, <2>4, <2>5 DEF Next
<1> QED BY <1>1, <1>2, PTL DEF Spec

-----------------------------------------------------------------------------
(* The effect of hash_push on the names of a table that satisfies TableInv *)

(* Storing a name that is there, or any name in a full table, moves none.  *)
LEMMA PushMovesNothing ==
    ASSUME TypeOK, ShortNames, TableInv, NEW k \in Key, NEW v \in Val,
           hash_push(k, v), k \in Names \/ TableFull
    PROVE  \A i \in Slots : asmvars'[i].name = asmvars[i].name
<1>1. ASSUME NEW d \in Slots, PushStop(k, d),
             \A e \in Slots : e < d => ~PushStop(k, e)
      PROVE  NameAt(k, d) = k
  <2>1. CASE TableFull
    <3>1. NameAt(k, d) \in Key
      BY <2>1, ProbeType DEF TableFull, Used, NameAt
    <3> QED BY <1>1, <3>1, MarkAssumption DEF PushStop
  <2>2. CASE k \in Names
    <3>1. PICK i \in Slots : asmvars[i].name = k
      BY <2>2 DEF Names
    <3>2. PICK e \in Slots : Probe(k, e) = i
      BY ProbeOnto
    <3>3. NameAt(k, e) = k
      BY <3>1, <3>2 DEF NameAt
    <3>4. d <= e
      BY <1>1, <3>3, SizeAssumption DEF PushStop
    <3>5. CASE d = e
      BY <3>3, <3>5
    <3>6. CASE d < e
      <4>1. NameAt(k, d) # Empty
        BY <3>3, <3>6 DEF TableInv, NoGapBeforeEntry
      <4>2. NameAt(k, d) # Deleted
        BY ProbeType DEF TableInv, NameAt
      <4> QED BY <1>1, <4>1, <4>2 DEF PushStop
    <3> QED BY <3>4, <3>5, <3>6, SizeAssumption
  <2> QED BY <2>1, <2>2
<1>2. ASSUME NEW d \in Slots, PushStop(k, d),
             \A e \in Slots : e < d => ~PushStop(k, e),
             asmvars' = [asmvars EXCEPT ![Probe(k, d)] = [name |-> Stored[k], val |-> v]],
             NEW i \in Slots
      PROVE  asmvars'[i].name = asmvars[i].name
  <2>1. asmvars[Probe(k, d)].name = k
    BY <1>1, <1>2 DEF NameAt
  <2>2. CASE i = Probe(k, d)
    <3>1. asmvars'[i] = [name |-> k, val |-> v]
      BY <1>2, <2>2 DEF TypeOK, ShortNames
    <3> QED BY <2>1, <2>2, <3>1
  <2>3. CASE i # Probe(k, d)
    BY <1>2, <2>3 DEF TypeOK
  <2> QED BY <2>2, <2>3
<1> QED BY <1>2 DEF hash_push

(* A new name gets a slot of its own unless the table is full.             *)
LEMMA PushAddsName ==
    ASSUME TypeOK, ShortNames, NEW k \in Key, NEW v \in Val,
           hash_push(k, v), k \notin Names, ~TableFull
    PROVE  Names' = Names \cup {k}
<1>1. PICK i \in Slots : asmvars[i].name \notin Key
  BY DEF TableFull, Used
<1>2. PICK e \in Slots : Probe(k, e) = i
  BY ProbeOnto
<1>3. PushStop(k, e)
  BY <1>1, <1>2 DEF PushStop, NameAt, TypeOK, Entry
<1>4. PICK d \in Slots :
        /\ PushStop(k, d)
        /\ asmvars' = [asmvars EXCEPT ![Probe(k, d)] = [name |-> Stored[k], val |-> v]]
  BY <1>3 DEF hash_push
<1>5. NameAt(k, d) \notin Key
  <2>1. NameAt(k, d) # k
    BY ProbeType DEF Names, NameAt, Used
  <2> QED BY <1>4, <2>1, MarkAssumption DEF PushStop
<1>6. asmvars'[Probe(k, d)].name = k
  BY <1>4, ProbeType DEF TypeOK, ShortNames
<1>7. \A j \in Slots : j # Probe(k, d) => asmvars'[j] = asmvars[j]
  BY <1>4 DEF TypeOK
<1>8. Names' \subseteq Names \cup {k}
  BY <1>6, <1>7 DEF Names, Used
<1>9. Names \subseteq Names'
  BY <1>5, <1>7 DEF Names, Used, NameAt
<1>10. k \in Names'
  BY <1>6, ProbeType DEF Names, Used
<1> QED BY <1>8, <1>9, <1>10

(* hash_value finds exactly the names of the table.                        *)
LEMMA FoundIsNamed ==
    ASSUME TypeOK, TableInv, NEW k \in Key
    PROVE  Found(k) <=> k \in Names
<1>1. ASSUME Found(k) PROVE k \in Names
  <2>1. PICK d \in Slots : NameAt(k, d) = k
    BY <1>1 DEF Found, HashValueIs
  <2> QED BY <2>1, ProbeType DEF Names, Used, NameAt
<1>2. ASSUME k \in Names PROVE Found(k)
  <2>1. PICK i \in Slots : asmvars[i].name = k
    BY <1>2 DEF Names
  <2>2. PICK d \in Slots : Probe(k, d) = i
    BY ProbeOnto
  <2>3. NameAt(k, d) = k
    BY <2>1, <2>2 DEF NameAt
  <2>4. ASSUME NEW e \in Slots, e < d PROVE ~ValueStop(k, e)
    <3>1. NameAt(k, e) # Empty
      BY <2>3, <2>4 DEF TableInv, NoGapBeforeEntry
    <3>2. Probe(k, e) # i
      BY <2>2, <2>4, ProbeInjective, SizeAssumption
    <3>3. NameAt(k, e) # k
      BY <2>1, <3>2, ProbeType DEF TableInv, OneSlotPerName, NameAt, Used
    <3> QED BY <3>1, <3>3 DEF ValueStop
  <2>5. asmvars[i].val \in Val
    BY <2>1 DEF TableInv, Used
  <2>6. HashValueIs(k, 0, asmvars[i].val)
    BY <2>2, <2>3, <2>4 DEF HashValueIs, ValueStop
  <2> QED BY <2>5, <2>6 DEF Found
<1> QED BY <1>1, <1>2

-----------------------------------------------------------------------------
(* hash_push keeps the shape of the table.                                 *)

LEMMA PushKeepsShape ==
    ASSUME TypeOK, ShortNames, TableInv, NEW k \in Key, NEW v \in Val, hash_push(k, v)
    PROVE  /\ OneSlotPerName'
           /\ NoGapBeforeEntry'
           /\ \A i \in Slots : asmvars'[i].name # Deleted
           /\ \A i \in Slots : Used(i)' => asmvars'[i].val \in Val
<1>1. CASE UNCHANGED asmvars
  BY <1>1 DEF TableInv, OneSlotPerName, NoGapBeforeEntry, NameAt, Used
<1>2. ASSUME NEW d \in Slots, PushStop(k, d),
             \A e \in Slots : e < d => ~PushStop(k, e),
             asmvars' = [asmvars EXCEPT ![Probe(k, d)] = [name |-> Stored[k], val |-> v]]
      PROVE  /\ OneSlotPerName'
             /\ NoGapBeforeEntry'
             /\ \A i \in Slots : asmvars'[i].name # Deleted
             /\ \A i \in Slots : Used(i)' => asmvars'[i].val \in Val
  <2> DEFINE p == Probe(k, d)
  <2>1. p \in Slots
    BY ProbeType
  <2>2. asmvars'[p] = [name |-> k, val |-> v]
    BY <1>2, <2>1 DEF TypeOK, ShortNames
  <2>3. \A i \in Slots : i # p => asmvars'[i] = asmvars[i]
    BY <1>2 DEF TypeOK
  <2> HIDE DEF p
  <2>4. ASSUME NEW i \in Slots, asmvars[i].name = k PROVE i = p
    <3>1. PICK e \in Slots : Probe(k, e) = i
      BY ProbeOnto
    <3>2. NameAt(k, e) = k
      BY <2>4, <3>1 DEF NameAt
    <3>3. ~(e < d)
      BY <1>2, <3>2 DEF PushStop
    <3>4. CASE d < e
      <4>1. NameAt(k, d) # Empty
        BY <3>2, <3>4 DEF TableInv, NoGapBeforeEntry
      <4>2. NameAt(k, d) # Deleted
        BY ProbeType DEF TableInv, NameAt
      <4>3. NameAt(k, d) = k
        BY <1>2, <4>1, <4>2 DEF PushStop
      <4> QED BY <2>1, <2>4, <4>3 DEF TableInv, OneSlotPerName, Used, NameAt, p
    <3>5. CASE d = e
      BY <3>1, <3>5 DEF p
    <3> QED BY <3>3, <3>4, <3>5, SizeAssumption
  <2>5. OneSlotPerName'
    <3> SUFFICES ASSUME NEW i \in Slots, NEW j \in Slots, asmvars'[i].name \in Key,
                        asmvars'[i].name = asmvars'[j].name
                 PROVE  i = j
      BY DEF OneSlotPerName, Used
    <3>1. CASE i = p
      BY <2>2, <2>3, <2>4, <3>1
    <3>2. CASE j = p
      BY <2>2, <2>3, <2>4, <3>2
    <3>3. CASE i # p /\ j # p
      BY <2>3, <3>3 DEF TableInv, OneSlotPerName, Used
    <3> QED BY <3>1, <3>2, <3>3
  <2>6. \A i \in Slots : asmvars[i].name # Empty => asmvars'[i].name # Empty
    BY <2>2, <2>3, MarkAssumption
  <2>7. NoGapBeforeEntry'
    <3> SUFFICES ASSUME NEW n \in Key, NEW c \in Slots, NEW e \in Slots,
                        asmvars'[Probe(n, c)].name = n, e < c
                 PROVE  asmvars'[Probe(n, e)].name # Empty
      BY DEF NoGapBeforeEntry, NameAt
    <3>1. asmvars[Probe(n, e)].name # Empty
      <4>1. CASE Probe(n, c) = p
        <5>1. n = k
          BY <2>2, <4>1
        <5>2. c = d
          BY <4>1, <5>1, ProbeInjective DEF p
        <5> QED BY <1>2, <5>1, <5>2 DEF PushStop, NameAt
      <4>2. CASE Probe(n, c) # p
        BY <2>3, <4>2, ProbeType DEF TableInv, NoGapBeforeEntry, NameAt
      <4> QED BY <4>1, <4>2
    <3> QED BY <2>6, <3>1, ProbeType
  <2>8. \A i \in Slots : asmvars'[i].name # Deleted
    BY <2>2, <2>3, MarkAssumption DEF TableInv
  <2>9. \A i \in Slots : Used(i)' => asmvars'[i].val \in Val
    BY <2>2, <2>3 DEF TableInv, Used
  <2> QED BY <2>5, <2>7, <2>8, <2>9
<1> QED BY <1>1, <1>2 DEF hash_push

-----------------------------------------------------------------------------
(* asmvars_add keeps TableInv; what is left to show concerns decls.        *)

LEMMA NamesUnmoved ==
    ASSUME \A i \in Slots : asmvars'[i].name = asmvars[i].name
    PROVE  Names' = Names /\ (TableFull' <=> TableFull)
BY DEF Names, TableFull, Used

LEMMA UnchangedTable ==
    ASSUME UNCHANGED asmvars
    PROVE  /\ Names' = Names /\ (TableFull' <=> TableFull)
           /\ OneSlotPerName' <=> OneSlotPerName
           /\ NoGapBeforeEntry' <=> NoGapBeforeEntry
           /\ \A i \in Slots : Used(i)' <=> Used(i)
BY DEF Names, TableFull, Used, OneSlotPerName, NoGapBeforeEntry, NameAt

LEMMA ParseLabelKeepsInv ==
    ASSUME TypeOK, ShortNames, TableInv, NEW k \in Key, NEW v \in Val, ParseLabel(k, v)
    PROVE  TableInv'
<1>1. decls' = Append(decls, k) /\ Len(decls') = Len(decls) + 1
      /\ Len(decls) \in Nat
  BY DEF ParseLabel, TypeOK
<1>2. /\ \A n \in 1..Len(decls) : decls'[n] = decls[n] /\ decls[n] \in Key
      /\ decls'[Len(decls) + 1] = k
  BY <1>1 DEF TypeOK
<1>3. CASE Found(k)
  <2>1. UNCHANGED asmvars /\ outcome' = "duplicate"
    BY <1>3 DEF ParseLabel, asmvars_add
  <2>2. k \in Names
    BY <1>3, FoundIsNamed
  <2>3. \A n \in 1..Len(decls') : decls'[n] \in Names' \/ TableFull'
    BY <1>1, <1>2, <2>1, <2>2, UnchangedTable DEF TableInv
  <2>4. DuplicatesOnlyOfLost'
    BY <2>1 DEF DuplicatesOnlyOfLost
  <2> QED BY <2>1, <2>3, <2>4, UnchangedTable DEF TableInv
<1>4. CASE ~Found(k)
  <2>1. hash_push(k, v) /\ UNCHANGED outcome /\ outcome = "running"
    BY <1>4 DEF ParseLabel, asmvars_add
  <2>2. k \notin Names
    BY <1>4, FoundIsNamed
  <2>3. CASE TableFull
    <3>1. Names' = Names /\ TableFull'
      BY <2>1, <2>3, PushMovesNothing, NamesUnmoved
    <3>2. DuplicatesOnlyOfLost'
      <4> SUFFICES ASSUME NEW i \in 1..Len(decls'), NEW j \in 1..Len(decls'),
                          i # j, decls'[i] = decls'[j]
                   PROVE  decls'[i] \notin Names
        BY <3>1 DEF DuplicatesOnlyOfLost
      <4>1. CASE i \in 1..Len(decls) /\ j \in 1..Len(decls)
        BY <1>2, <2>1, <4>1 DEF TableInv, DuplicatesOnlyOfLost
      <4>2. CASE i = Len(decls) + 1 \/ j = Len(decls) + 1
        BY <1>2, <2>2, <4>2
      <4> QED BY <1>1, <4>1, <4>2
    <3> QED BY <2>1, <3>1, <3>2, PushKeepsShape DEF TableInv
  <2>4. CASE ~TableFull
    <3>1. Names' = Names \cup {k}
      BY <2>1, <2>2, <2>4, PushAddsName
    <3>2. \A n \in 1..Len(decls) : decls[n] \in Names
      BY <2>4 DEF TableInv
    <3>3. \A n \in 1..Len(decls') : decls'[n] \in Names'
      BY <1>1, <1>2, <3>1, <3>2
    <3>4. DuplicatesOnlyOfLost'
      <4> SUFFICES ASSUME NEW i \in 1..Len(decls'), NEW j \in 1..Len(decls'),
                          i # j, decls'[i] = decls'[j]
                   PROVE  FALSE
        BY DEF DuplicatesOnlyOfLost
      <4>1. CASE i \in 1..Len(decls) /\ j \in 1..Len(decls)
        BY <1>2, <2>1, <3>2, <4>1 DEF TableInv, DuplicatesOnlyOfLost
      <4>2. CASE i = Len(decls) + 1 \/ j = Len(decls) + 1
        BY <1>1, <1>2, <2>2, <3>2, <4>2
      <4> QED BY <1>1, <4>1, <4>2
    <3> QED BY <2>1, <3>3, <3>4, PushKeepsShape DEF TableInv
  <2> QED BY <2>3, <2>4
<1> QED BY <1>3, <1>4

(* A link pass stores only names that are there or were lost: it moves     *)
(* none, so it keeps what TableInv says of decls.                          *)
LEMMA LinkLabelMovesNothing ==
    ASSUME TypeOK, ShortNames, TableInv, NEW k \in Key, NEW v \in Val, LinkLabel(k, v)
    PROVE  /\ hash_push(k, v) /\ UNCHANGED outcome
           /\ \A i \in Slots : asmvars'[i].name = asmvars[i].name
<1>1. hash_push(k, v) /\ UNCHANGED outcome
  BY DEF LinkLabel, asmvars_add, TypeOK
<1>2. PICK n \in 1..Len(decls) : decls[n] = k
  BY DEF LinkLabel, Range, TypeOK
<1>3. k \in Names \/ TableFull
  BY <1>2 DEF TableInv
<1> QED BY <1>1, <1>3, PushMovesNothing

LEMMA LinkLabelKeepsInv ==
    ASSUME TypeOK, ShortNames, TableInv, NEW k \in Key, NEW v \in Val, LinkLabel(k, v)
    PROVE  TableInv'
<1>1. Names' = Names /\ (TableFull' <=> TableFull)
  BY LinkLabelMovesNothing, NamesUnmoved
<1>2. UNCHANGED <<decls, outcome>>
  BY LinkLabelMovesNothing DEF LinkLabel
<1>3. DuplicatesOnlyOfLost'
  BY <1>1, <1>2 DEF TableInv, DuplicatesOnlyOfLost
<1>4. \A n \in 1..Len(decls') : decls'[n] \in Names' \/ TableFull'
  BY <1>1, <1>2 DEF TableInv
<1> QED BY <1>3, <1>4, LinkLabelMovesNothing, PushKeepsShape DEF TableInv

LEMMA QuietKeepsInv ==
    ASSUME TypeOK, TableInv, UNCHANGED <<asmvars, decls, outcome>>
    PROVE  TableInv'
<1>1. DuplicatesOnlyOfLost'
  BY UnchangedTable DEF TableInv, DuplicatesOnlyOfLost
<1> QED BY <1>1, UnchangedTable DEF TableInv

LEMMA InvInductive ==
    ASSUME TypeOK, ShortNames, TableInv, [Next]_vars
    PROVE  TableInv'
<1>1. ASSUME NEW k \in Key, NEW v \in Val, ParseLabel(k, v) PROVE TableInv'
  BY <1>1, ParseLabelKeepsInv
<1>2. ASSUME NEW k \in Key, NEW v \in Val, LinkLabel(k, v) PROVE TableInv'
  BY <1>2, LinkLabelKeepsInv
<1>3. ASSUME NEW k \in Key, Lookup(k) PROVE TableInv'
  BY <1>3, QuietKeepsInv DEF Lookup
<1>4. CASE NextStage
  BY <1>4, QuietKeepsInv DEF NextStage
<1>5. CASE UNCHANGED vars
  BY <1>5, QuietKeepsInv DEF vars
<1> QED BY <1>1, <1>2, <1>3, <1>4, <1>5 DEF Next

LEMMA InvInit == ASSUME Init PROVE TableInv
<1>1. \A i \in Slots : asmvars[i] = [name |-> Empty, val |-> NoVal]
  BY DEF Init
<1>2. \A k \in Key, d \in Slots : NameAt(k, d) = Empty
  BY <1>1, ProbeType DEF NameAt
<1>3. \A i \in Slots : ~Used(i)
  BY <1>1, MarkAssumption DEF Used
<1>4. Len(decls) = 0
  BY DEF Init
<1> QED
  BY <1>1, <1>2, <1>3, <1>4, MarkAssumption
  DEF TableInv, OneSlotPerName, NoGapBeforeEntry, DuplicatesOnlyOfLost

(* TableInv holds in every state, when no name is cut.                     *)
THEOREM TableSound == ASSUME ShortNames PROVE Spec => [](TypeOK /\ TableInv)
<1>1. Init => TableInv
  BY InvInit
<1>2. TypeOK /\ TableInv /\ [Next]_vars => TableInv'
  BY InvInductive
<1> QED BY <1>1, <1>2, TypeCorrect, PTL DEF Spec

(* A name occupies at most one slot.                                       *)
THEOREM OneSlot == ASSUME ShortNames PROVE Spec => []OneSlotPerName
<1>1. TableInv => OneSlotPerName
  BY DEF TableInv
<1> QED BY <1>1, TableSound, PTL

(* No probe path has a hole before the entry it leads to.                  *)
THEOREM NoGap == ASSUME ShortNames PROVE Spec => []NoGapBeforeEntry
<1>1. TableInv => NoGapBeforeEntry
  BY DEF TableInv
<1> QED BY <1>1, TableSound, PTL

(* A declared name is missing only from a table with no free slot.         *)
THEOREM NothingLostBeforeFull == ASSUME ShortNames PROVE Spec => []LostOnlyWhenFull
<1>1. TypeOK /\ TableInv => LostOnlyWhenFull
  BY DEF TypeOK, TableInv, LostOnlyWhenFull, Range
<1> QED BY <1>1, TableSound, PTL

(* A name is declared twice only when the full table lost it.              *)
THEOREM DuplicatesFound == ASSUME ShortNames PROVE Spec => []DuplicatesOnlyOfLost
<1>1. TableInv => DuplicatesOnlyOfLost
  BY DEF TableInv
<1> QED BY <1>1, TableSound, PTL

(* The link passes change values and nothing else of the table.            *)
THEOREM Settled == ASSUME ShortNames PROVE Spec => SettledAfterParse
<1> DEFINE A == bkasm_stage > PARSE_STAGE =>
                  \A i \in Slots : asmvars'[i].name = asmvars[i].name
<1>1. TypeOK /\ TableInv /\ [Next]_vars => [A]_vars
  <2> SUFFICES ASSUME TypeOK, TableInv, Next, bkasm_stage > PARSE_STAGE,
                      NEW i \in Slots
               PROVE  asmvars'[i].name = asmvars[i].name
    OBVIOUS
  <2>1. ASSUME NEW k \in Key, NEW v \in Val, LinkLabel(k, v)
        PROVE  asmvars'[i].name = asmvars[i].name
    BY <2>1, LinkLabelMovesNothing
  <2>2. CASE UNCHANGED asmvars
    BY <2>2
  <2> QED BY <2>1, <2>2 DEF Next, ParseLabel, Lookup, NextStage
<1> QED BY <1>1, TableSound, PTL DEF Spec, SettledAfterParse
-----------------------------------------------------------------------------
(* The table implements the dictionary of SymbolMap.                       *)

DictMap == [k \in Names |-> asmvars[SlotOf(k)].val]

(* A name is in one slot, which is the one SlotOf finds, in this state and *)
(* in the next.                                                            *)
LEMMA ChosenSlot ==
    ASSUME NEW table, NEW k, NEW i \in Slots, table[i].name = k,
           \A j \in Slots : table[j].name = k => j = i
    PROVE  (CHOOSE j \in Slots : table[j].name = k) = i
OBVIOUS

LEMMA SlotOfName ==
    ASSUME OneSlotPerName, NEW i \in Slots, NEW k \in Key, asmvars[i].name = k
    PROVE  SlotOf(k) = i
<1>1. \A j \in Slots : asmvars[j].name = k => j = i
  BY DEF OneSlotPerName, Used
<1> QED BY <1>1, ChosenSlot DEF SlotOf

LEMMA SlotOfNameNext ==
    ASSUME OneSlotPerName', NEW i \in Slots, NEW k \in Key, asmvars'[i].name = k
    PROVE  SlotOf(k)' = i
<1>1. \A j \in Slots : asmvars'[j].name = k => j = i
  BY DEF OneSlotPerName, Used
<1> HIDE DEF Slots
<1>2. (CHOOSE j \in Slots : asmvars'[j].name = k) = i
  BY <1>1, ChosenSlot
<1> QED BY <1>2 DEF SlotOf, Slots

(* The dictionary has reached its capacity when every slot is in use.      *)
LEMMA FullIsTableFull ==
    ASSUME TypeOK, OneSlotPerName
    PROVE  Dictionary!Full <=> TableFull
<1> DEFINE U == {j \in Slots : Used(j)}
           f == [j \in U |-> asmvars[j].name]
<1>1. IsFiniteSet(Slots) /\ Cardinality(Slots) = Size
  <2>1. 0 \in Int /\ Size - 1 \in Int /\ ~(0 > Size - 1) /\ (Size - 1) - 0 + 1 = Size
    BY SizeAssumption
  <2> QED BY <2>1, FS_Interval
<1>2. /\ IsFiniteSet(U)
      /\ Cardinality(Slots) = Cardinality(U) => Slots = U
  BY <1>1, FS_Subset
<1>3. f \in Bijection(U, Names)
  <2>1. \A i, j \in U : asmvars[i].name = asmvars[j].name => i = j
    BY DEF OneSlotPerName
  <2>2. \A k \in Names : \E j \in U : f[j] = k
    BY DEF Names
  <2> QED BY <2>1, <2>2 DEF Bijection, Injection, Surjection, IsInjective, Names
<1>4. Cardinality(Names) = Cardinality(U)
  BY <1>2, <1>3, FS_Bijection DEF ExistsBijection
<1>5. TableFull <=> U = Slots
  BY DEF TableFull
<1>6. Dictionary!Full <=> Cardinality(Names) = Size
  BY DEF Dictionary!Full, Dictionary!Cardinality, Cardinality
<1> QED BY <1>1, <1>2, <1>4, <1>5, <1>6

LEMMA DictMapUnchanged ==
    ASSUME UNCHANGED asmvars
    PROVE  DictMap' = DictMap
BY DEF DictMap, Names, Used, SlotOf

(* hash_push binds the name, unless it has none of the slots.              *)
LEMMA PushBinds ==
    ASSUME TypeOK, ShortNames, TableInv, NEW k \in Key, NEW v \in Val,
           hash_push(k, v), k \in Names \/ ~TableFull
    PROVE  DictMap' = Dictionary!Bind(k, v)
<1>1. OneSlotPerName /\ OneSlotPerName'
  BY PushKeepsShape DEF TableInv
<1>2. Names' = Names \cup {k}
  <2>1. CASE k \in Names
    BY <2>1, PushMovesNothing, NamesUnmoved
  <2>2. CASE k \notin Names
    BY <2>2, PushAddsName
  <2> QED BY <2>1, <2>2
<1>3. \E e \in Slots : PushStop(k, e)
  <2>1. PICK i \in Slots : asmvars[i].name \in {Empty, Deleted, k}
    <3>1. CASE k \in Names
      BY <3>1 DEF Names
    <3>2. CASE ~TableFull
      BY <3>2 DEF TableFull, Used, TypeOK, Entry
    <3> QED BY <3>1, <3>2
  <2>2. PICK e \in Slots : Probe(k, e) = i
    BY ProbeOnto
  <2> QED BY <2>1, <2>2 DEF PushStop, NameAt
<1>4. PICK p \in Slots :
        asmvars' = [asmvars EXCEPT ![p] = [name |-> k, val |-> v]]
  BY <1>3, ProbeType DEF hash_push, ShortNames
<1>5. asmvars'[p] = [name |-> k, val |-> v]
  BY <1>4 DEF TypeOK
<1>6. SlotOf(k)' = p
  BY <1>1, <1>5, SlotOfNameNext
<1>7. ASSUME NEW n \in Names, n # k
      PROVE  asmvars'[SlotOf(n)'].val = asmvars[SlotOf(n)].val
  <2>1. PICK i \in Slots : asmvars'[i].name = n
    BY <1>2, <1>7 DEF Names, Used
  <2>2. n \in Key
    BY <1>7 DEF Names, Used
  <2>3. i # p
    BY <1>5, <1>7, <2>1
  <2>4. asmvars'[i] = asmvars[i]
    BY <1>4, <2>3 DEF TypeOK
  <2>5. SlotOf(n)' = i /\ SlotOf(n) = i
    BY <1>1, <2>1, <2>2, <2>4, SlotOfName, SlotOfNameNext
  <2> QED BY <2>4, <2>5
<1>8. DictMap' = [n \in Names \cup {k} |-> asmvars'[SlotOf(n)'].val]
  BY <1>2 DEF DictMap
<1>9. Dictionary!Bind(k, v) =
        [n \in Names \cup {k} |-> IF n = k THEN v ELSE asmvars[SlotOf(n)].val]
  BY DEF Dictionary!Bind
<1> QED BY <1>5, <1>6, <1>7, <1>8, <1>9

(* In a full table it does nothing with a name it does not find.           *)
LEMMA PushLosesName ==
    ASSUME NEW k \in Key, NEW v \in Val, hash_push(k, v), k \notin Names, TableFull
    PROVE  UNCHANGED asmvars
<1>1. ASSUME NEW d \in Slots PROVE ~PushStop(k, d)
  <2>1. NameAt(k, d) \in Key
    BY ProbeType DEF TableFull, Used, NameAt
  <2>2. NameAt(k, d) # k
    BY <2>1, ProbeType DEF Names, Used, NameAt
  <2> QED BY <2>1, <2>2, MarkAssumption DEF PushStop
<1> QED BY <1>1 DEF hash_push

(* asmvars_value answers as the dictionary does.                           *)
LEMMA AnswerIsAsked ==
    ASSUME TypeOK, TableInv, NEW k \in Key, asmvars_value(k)
    PROVE  answer' = IF k \in Names
                       THEN [code |-> 0, val |-> DictMap[k], complained |-> FALSE]
                       ELSE [code |-> IF TableFull THEN -1 ELSE -2, val |-> NoVal,
                             complained |-> TableFull /\ bkasm_stage = 2]
<1>1. PICK code \in {0, -1, -2}, val \in Val \cup {NoVal} :
        /\ HashValueIs(k, code, val)
        /\ answer' = [code |-> code, val |-> val,
                      complained |-> code = -1 /\ bkasm_stage > EVAL_STAGE]
  BY DEF asmvars_value
<1>2. ASSUME NEW d \in Slots, NameAt(k, d) = k
      PROVE  k \in Names /\ DictMap[k] = asmvars[Probe(k, d)].val
  <2>1. asmvars[Probe(k, d)].name = k /\ Probe(k, d) \in Slots
    BY <1>2, ProbeType DEF NameAt
  <2>2. SlotOf(k) = Probe(k, d)
    BY <2>1, SlotOfName DEF TableInv
  <2>3. k \in Names
    BY <2>1 DEF Names, Used
  <2> QED BY <2>2, <2>3 DEF DictMap
<1>3. ASSUME k \in Names PROVE \E d \in Slots : NameAt(k, d) = k
  <2>1. PICK i \in Slots : asmvars[i].name = k
    BY <1>3 DEF Names
  <2> QED BY <2>1, ProbeOnto DEF NameAt
<1>4. CASE \E d \in Slots :
             /\ ValueStop(k, d)
             /\ \A e \in Slots : e < d => ~ValueStop(k, e)
             /\ IF NameAt(k, d) = k
                  THEN code = 0 /\ val = asmvars[Probe(k, d)].val
                  ELSE code = -2 /\ val = NoVal
  <2>1. PICK d \in Slots :
             /\ ValueStop(k, d)
             /\ \A e \in Slots : e < d => ~ValueStop(k, e)
             /\ IF NameAt(k, d) = k
                  THEN code = 0 /\ val = asmvars[Probe(k, d)].val
                  ELSE code = -2 /\ val = NoVal
    BY <1>4
  <2>2. CASE NameAt(k, d) = k
    <3>1. code = 0 /\ val = asmvars[Probe(k, d)].val /\ ~(code = -1)
      BY <2>1, <2>2
    <3>2. answer' = [code |-> 0, val |-> asmvars[Probe(k, d)].val, complained |-> FALSE]
      BY <1>1, <3>1, Zenon
    <3> QED BY <1>2, <2>2, <3>2
  <2>3. CASE NameAt(k, d) # k
    <3>1. NameAt(k, d) = Empty /\ code = -2 /\ val = NoVal /\ ~(code = -1)
      BY <2>1, <2>3 DEF ValueStop
    <3>2. k \notin Names
      <4> SUFFICES ASSUME NEW e \in Slots, NameAt(k, e) = k PROVE FALSE
        BY <1>3
      <4>1. ~(e < d) /\ e # d
        BY <2>1, <2>3 DEF ValueStop
      <4>2. d < e
        BY <4>1, SizeAssumption
      <4> QED BY <3>1, <4>2 DEF TableInv, NoGapBeforeEntry
    <3>3. ~TableFull
      BY <3>1, ProbeType, MarkAssumption DEF TableFull, Used, NameAt
    <3>4. answer' = [code |-> -2, val |-> NoVal, complained |-> FALSE]
      BY <1>1, <3>1, Zenon
    <3> QED BY <3>2, <3>3, <3>4
  <2> QED BY <2>2, <2>3
<1>5. CASE (\A d \in Slots : ~ValueStop(k, d)) /\ code = -1 /\ val = NoVal
  <2>1. k \notin Names
    BY <1>3, <1>5 DEF ValueStop
  <2>2. TableFull
    <3> SUFFICES ASSUME NEW i \in Slots PROVE asmvars[i].name \in Key
      BY DEF TableFull, Used
    <3>1. PICK e \in Slots : Probe(k, e) = i
      BY ProbeOnto
    <3>2. asmvars[i].name # Empty
      BY <1>5, <3>1 DEF ValueStop, NameAt
    <3>3. asmvars[i].name # Deleted
      BY DEF TableInv
    <3> QED BY <3>2, <3>3 DEF TypeOK, Entry
  <2>3. (code = -1 /\ bkasm_stage > EVAL_STAGE) <=> bkasm_stage = 2
    BY <1>5 DEF TypeOK
  <2>4. answer' = [code |-> -1, val |-> NoVal, complained |-> bkasm_stage = 2]
    BY <1>1, <1>5, <2>3
  <2> QED BY <2>1, <2>2, <2>4
<1> QED BY <1>1, <1>4, <1>5 DEF HashValueIs

(* Every step of the table is a step of the dictionary or leaves it alone. *)
LEMMA StepImplementsSymbolMap ==
    ASSUME TypeOK, ShortNames, TableInv, [Next]_vars
    PROVE  [Dictionary!Next]_(Dictionary!smvars)
<1>1. ASSUME NEW k \in Key, NEW v \in Val, ParseLabel(k, v)
      PROVE  Dictionary!Define(k, v)
  <2>1. Found(k) <=> k \in Names
    BY FoundIsNamed
  <2>2. CASE k \in Names
    <3>1. UNCHANGED asmvars /\ outcome' = "duplicate"
      BY <1>1, <2>1, <2>2 DEF ParseLabel, asmvars_add
    <3>2. DictMap' = DictMap
      BY <3>1, DictMapUnchanged
    <3> QED BY <1>1, <2>2, <3>1, <3>2 DEF Dictionary!Define, ParseLabel, DictMap
  <2>3. CASE k \notin Names
    <3>1. hash_push(k, v) /\ UNCHANGED outcome
      BY <1>1, <2>1, <2>3 DEF ParseLabel, asmvars_add
    <3>2. CASE TableFull
      <4>1. UNCHANGED asmvars
        BY <2>3, <3>1, <3>2, PushLosesName
      <4>2. DictMap' = DictMap
        BY <4>1, DictMapUnchanged
      <4>3. Dictionary!Full
        BY <3>2, FullIsTableFull DEF TableInv
      <4> QED BY <1>1, <2>3, <3>1, <4>2, <4>3 DEF Dictionary!Define, ParseLabel, DictMap
    <3>3. CASE ~TableFull
      <4>1. DictMap' = Dictionary!Bind(k, v)
        BY <3>1, <3>3, PushBinds
      <4>2. ~Dictionary!Full
        BY <3>3, FullIsTableFull DEF TableInv
      <4> QED BY <1>1, <2>3, <3>1, <4>1, <4>2 DEF Dictionary!Define, ParseLabel, DictMap
    <3> QED BY <3>2, <3>3
  <2> QED BY <2>2, <2>3
<1>2. ASSUME NEW k \in Key, NEW v \in Val, LinkLabel(k, v)
      PROVE  Dictionary!Update(k, v)
  <2>1. hash_push(k, v) /\ UNCHANGED outcome
    BY <1>2, LinkLabelMovesNothing
  <2>2. k \in Names \/ TableFull
    BY <1>2 DEF LinkLabel, Range, TypeOK, TableInv
  <2>3. CASE k \in Names
    <3>1. DictMap' = Dictionary!Bind(k, v)
      BY <2>1, <2>3, PushBinds
    <3> QED BY <1>2, <2>1, <2>3, <3>1 DEF Dictionary!Update, LinkLabel, DictMap
  <2>4. CASE k \notin Names
    <3>1. UNCHANGED asmvars
      BY <2>1, <2>2, <2>4, PushLosesName
    <3>2. DictMap' = DictMap
      BY <3>1, DictMapUnchanged
    <3>3. Dictionary!Full
      BY <2>2, <2>4, FullIsTableFull DEF TableInv
    <3> QED BY <1>2, <2>1, <2>4, <3>2, <3>3 DEF Dictionary!Update, LinkLabel, DictMap
  <2> QED BY <2>3, <2>4
<1>3. ASSUME NEW k \in Key, Lookup(k) PROVE Dictionary!Ask(k)
  <2>1. Dictionary!Full <=> TableFull
    BY FullIsTableFull DEF TableInv
  <2>2. DictMap' = DictMap
    BY <1>3, DictMapUnchanged DEF Lookup
  <2> QED BY <1>3, <2>1, <2>2, AnswerIsAsked DEF Dictionary!Ask, Lookup, DictMap
<1>4. ASSUME NextStage PROVE Dictionary!Advance
  <2>1. DictMap' = DictMap
    BY <1>4, DictMapUnchanged DEF NextStage
  <2> QED BY <1>4, <2>1 DEF Dictionary!Advance, NextStage, DictMap
<1>5. ASSUME UNCHANGED vars PROVE UNCHANGED Dictionary!smvars
  <2>1. DictMap' = DictMap
    BY <1>5, DictMapUnchanged DEF vars
  <2> QED BY <1>5, <2>1 DEF Dictionary!smvars, vars, DictMap
<1> QED BY <1>1, <1>2, <1>3, <1>4, <1>5 DEF Next, Dictionary!Next

LEMMA InitImplementsSymbolMap == ASSUME Init PROVE Dictionary!Init
<1>1. Names = {}
  BY MarkAssumption DEF Init, Names, Used
<1> QED BY <1>1 DEF Init, Dictionary!Init, Dictionary!NoAnswer, NoAnswer

(* The table implements the bounded dictionary: every declaration, update  *)
(* and lookup has the effect and the answer that SymbolMap gives it,       *)
(* whatever the table size, the hash function and the program.             *)
THEOREM TableIsDictionary == ASSUME ShortNames PROVE Spec => ImplementsSymbolMap
<1>1. Init => Dictionary!Init
  BY InitImplementsSymbolMap
<1>2. TypeOK /\ TableInv /\ [Next]_vars => [Dictionary!Next]_(Dictionary!smvars)
  BY StepImplementsSymbolMap
<1> QED BY <1>1, <1>2, TableSound, PTL DEF Spec, ImplementsSymbolMap, Dictionary!Spec
=============================================================================
