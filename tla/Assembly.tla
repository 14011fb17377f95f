------------------------------ MODULE Assembly ------------------------------
(***************************************************************************)
(* What bkasm/doc/kr580vm80.md promises of an assembly: a program has one  *)
(* meaning, values for its names and an address for each statement that    *)
(* agree with each other, and the output is the bytes its instructions     *)
(* have under that meaning, each at its address, from the ORG address on.  *)
(* There are no passes here: a translation is one step.  The promise is    *)
(* for Legal programs; Linker shows that bkasm keeps it for them and,      *)
(* in the runs that expect a violation, what happens to the others.        *)
(***************************************************************************)
EXTENDS Ast, FiniteSets, FiniteSetsExt

CONSTANTS
    Statements,
    Limit,      \* bytes a program may have
    Capacity    \* names a program may declare

VARIABLES
    program,
    phase,      \* "source", "done", "failed", "nofile"
    env,        \* the value of each name once translated
    place,      \* the address of each statement, and of the end
    image       \* the output

avars == <<program, phase, env, place, image>>

Declared(p) == {p[i].ident : i \in {j \in 1..Len(p) : p[j].kind \in DeclKinds}}

Origin(p, e) ==
    LET orgs == {i \in 1..Len(p) : p[i].kind = "org"}
    IN  IF orgs = {} THEN 0 ELSE Value(p[Max(orgs)].arg, e)

Next1(s, x, e) ==
    CASE s.kind = "org" -> Value(s.arg, e)
      [] s.kind = "ds" -> x + Value(s.arg, e)
      [] s.kind = "rst" -> x + 1
      [] s.kind \in DeclKinds -> x
      [] s.kind \in CodeKinds -> x + CodeSize[s.kind]

(* Labels are the addresses where they stand, constants the values of      *)
(* their expressions, addresses follow from the sizes before them.         *)
Meaning(p, e, a) ==
    /\ DOMAIN e = Declared(p)
    /\ Len(a) = Len(p) + 1
    /\ a[1] = 0
    /\ \A i \in 1..Len(p) :
         /\ a[i + 1] = Next1(p[i], a[i], e)
         /\ p[i].kind = "label" => e[p[i].ident] = a[i]
         /\ p[i].kind = "equ" => e[p[i].ident] = Value(p[i].arg, e)

-----------------------------------------------------------------------------
(* The encoding: a word is two bytes, the low one first (two's complement).*)

Word(v) == <<v % 256, (v \div 256) % 256>>

Encoding(s, e) ==
    CASE s.kind = "op"    -> <<s.opcode>>
      [] s.kind = "imm8"  -> <<s.opcode, Value(s.arg, e) % 256>>
      [] s.kind = "imm16" -> <<s.opcode>> \o Word(Value(s.arg, e))
      [] s.kind = "db"    -> <<Value(s.arg, e) % 256>>
      [] s.kind = "dw"    -> Word(Value(s.arg, e))
      [] s.kind = "rst"   -> <<199 + 8 * Value(s.arg, e)>>
      [] OTHER            -> <<>>

ByteAt(p, e, a, x) ==
    LET holders == {i \in 1..Len(p) : x - a[i] + 1 \in DOMAIN Encoding(p[i], e)}
    IN  IF holders = {} THEN 0
        ELSE LET i == Max(holders) IN Encoding(p[i], e)[x - a[i] + 1]

Image(p, e, a) ==
    LET start == Origin(p, e)
    IN  [b \in 1..(a[Len(p) + 1] - start) |-> ByteAt(p, e, a, start + b - 1)]

-----------------------------------------------------------------------------
(* Programs the promise is about.                                          *)

NamesDeclared(p) == \A i \in 1..Len(p) : Reads(p[i]) \subseteq Declared(p)

OrgLeads(p) ==
    \A i \in 1..Len(p) : p[i].kind = "org" =>
        \A j \in 1..(i-1) : p[j].kind \in DeclKinds

RstIsNumber(p) ==
    \A i \in 1..Len(p) : p[i].kind = "rst" => p[i].arg.type = "EXPR_CONST"

FitsTable(p) == Cardinality(Declared(p)) <= Capacity

Legal(p) ==
    /\ NoForwardRefs(p)
    /\ NamesDeclared(p)
    /\ OrgLeads(p)
    /\ RstIsNumber(p)
    /\ FitsTable(p)

(* ... with the values their names have.                                   *)
SpaceIsReal(p, e, a) ==
    \A i \in 1..Len(p) : p[i].kind = "ds" =>
        a[i] <= a[i + 1] /\ a[i + 1] - Origin(p, e) <= Limit

WordsUnsigned(p, e) ==
    \A i \in 1..Len(p) : p[i].kind \in {"imm16", "dw"} => Value(p[i].arg, e) >= 0

Tame(p, e, a) == SpaceIsReal(p, e, a) /\ WordsUnsigned(p, e)

(* Programs that must be refused.                                          *)
BadVector(p) ==
    \E i \in 1..Len(p) : p[i].kind = "rst" /\ p[i].arg.value \notin 0..7

Faulty(p, e, a) ==
    \E i \in 1..Len(p) :
        \/ p[i].kind \in {"imm8", "db"} /\ Value(p[i].arg, e) \notin -128..255
        \/ p[i].kind \in {"imm8", "imm16"} /\ p[i].arg.type = "EXPR_REG"
        \/ /\ p[i].kind \in CodeKinds \cup {"rst"}
           /\ a[i + 1] - Origin(p, e) > Limit

-----------------------------------------------------------------------------
Init ==
    /\ program = <<>>
    /\ phase = "source"
    /\ env = <<>> /\ place = <<>> /\ image = <<>>

(* A program that declares a name twice is refused at once.                *)
Extend(s) ==
    /\ phase = "source"
    /\ program' = Append(program, s)
    /\ LET twice == s.kind \in DeclKinds /\ s.ident \in Declared(program)
       IN  /\ phase' \in {"source", "failed"}
           /\ phase' = "failed" => twice
           /\ twice /\ FitsTable(program) => phase' = "failed"
    /\ UNCHANGED <<env, place, image>>

Translate ==
    /\ phase = "source"
    /\ phase' = "done"
    /\ UNCHANGED program
    /\ Legal(program) =>
         /\ ~BadVector(program)
         /\ Meaning(program, env', place')
         /\ Tame(program, env', place') =>
              /\ ~Faulty(program, env', place')
              /\ image' = Image(program, env', place')

Refuse ==
    /\ phase = "source"
    /\ phase' = "failed"
    /\ UNCHANGED <<program, image>>
    /\ Legal(program) =>
         \/ BadVector(program)
         \/ /\ Meaning(program, env', place')
            /\ Tame(program, env', place') => Faulty(program, env', place')

CannotStore ==
    /\ phase = "source"
    /\ phase' = "nofile"
    /\ UNCHANGED <<program, image>>

Next == (\E s \in Statements : Extend(s)) \/ Translate \/ Refuse \/ CannotStore

Spec == Init /\ [][Next]_avars
=============================================================================
