------------------------------- MODULE MCRka -------------------------------
(***************************************************************************)
(* Instances of RkaExchange: two processes with every pair of commands     *)
(* that a small directory allows, and single runs over texts with every    *)
(* character and tapes of every shape.                                     *)
(***************************************************************************)
EXTENDS RkaExchange, TLC

MCNames == {"a", "b", "c", "tmpfile", "locked"}

MCEncodeBehind == [chr \in 177 .. 255 |-> 63]
MCDecodeBehind == [chr \in 129 .. 254 |-> IF chr < 192 THEN 32 ELSE 1040]

-----------------------------------------------------------------------------
(* "A", a Russian letter, the end of a line.                               *)
Listing == <<65, 208, 144>>
ShortTape == Tape(<<>>, 1, <<97>>)

Disk == "a" :> Listing @@ "b" :> ShortTape

(* Two processes.                                                          *)
Commands == {<<"pack", "a", "b">>, <<"pack", "a", "c">>, <<"pack", "b", "c">>,
             <<"pack", "b", "a">>, <<"unpack", "b", "c">>, <<"unpack", "b", "a">>}

Pairs == {[args |-> <<x, y>>, files |-> f, typed |-> <<>>] :
             x \in {<<"pack", "a", "c">>, <<"unpack", "b", "a">>},
             y \in Commands,
             f \in {Disk @@ "tmpfile" :> <<1, 2, 3, 4, 5>>}}

(* One process: every way to call it.                                      *)
Calls == {<<>>, <<"list">>, <<"pack">>, <<"unpack">>, <<"unpack", "b">>, <<"pack", "a">>,
          <<"pack", "c">>, <<"pack", "c", "a">>, <<"unpack", "c", "a">>, <<"pack", "a", "a">>,
          <<"unpack", "b", "b">>, <<"pack", "a", "tmpfile">>, <<"pack", "tmpfile", "c">>,
          <<"unpack", "b", "tmpfile">>, <<"pack", "a", "locked">>, <<"unpack", "b", "locked">>,
          <<"pack", "b", "locked">>}

Singles == {[args |-> <<x, <<>>>>, files |-> f, typed |-> t] :
              x \in Calls, t \in {<<>>, ShortTape},
              f \in {Disk, Disk @@ "tmpfile" :> <<1, 2, 3, 4, 5>>, "a" :> <<>> @@ "b" :> <<>>}}

(* Every byte, and every character that the tape has, 32 at a time.        *)
Row(k) == [i \in 1 .. 32 |-> 32 * k + i - 1]
Bytes == {Row(k) : k \in 0 .. 7}
AllPrintable ==
    {[i \in 1 .. 32 |-> IF Row(k)[i] = 36 THEN 10 ELSE Row(k)[i]] : k \in 1 .. 2}
        \cup {FlattenSeq([i \in 1 .. 32 |-> IF i = 27 THEN <<10>> ELSE <<208, 143 + i>>])}
Characters == {[args |-> <<<<"pack", "a", "c">>, <<>>>>, files |-> "a" :> t, typed |-> <<>>] :
                  t \in Bytes \cup AllPrintable}

(* Tapes: names and zeros up to the limits and past them, and bodies.      *)
Bodies == {<<>>, <<0, 13, 65>>, <<230, 255, 66>>}
Tapes ==
    {Tape(name, zeros, body) : name \in {<<>>, <<78>>, <<78, 65, 77>>, <<78, 65, 77, 69>>},
                               zeros \in 0 .. PADDING + 1, body \in Bodies}
        \cup {Tape(<<78>>, 2, t) : t \in Bytes}
        \cup {<<>>, <<SYNC, SYNC, SYNC, 1>>, <<1, SYNC, SYNC, SYNC, 65>>, <<SYNC, SYNC, SYNC, SYNC>>,
              <<SYNC, SYNC, SYNC, SYNC, 0, 0, SYNC>>, <<SYNC, SYNC, SYNC, SYNC, 0, SYNC, 1, 2, 65>>}
Unpackings == {[args |-> <<<<"unpack", "a", "c">>, <<>>>>, files |-> "a" :> t, typed |-> <<>>] : t \in Tapes}

MCWorlds == Pairs \cup Singles \cup Characters \cup Unpackings
=============================================================================
