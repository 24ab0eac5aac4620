------------------------------ MODULE MCPrintf ------------------------------
(* Calls with up to two directives: every conversion with the flags that   *)
(* change it, around words at the edges of an eight-bit word, directives   *)
(* that are cut off or malformed, and capacities from none to unbounded.   *)
EXTENDS Printf

Word(w) == [word |-> w, text |-> Null]
Text(s) == [word |-> 0, text |-> s]

Plain(c) == [kind |-> "text", flags |-> <<>>, width |-> 0, conv |-> c, arg |-> Word(0)]
Conv(f, w, c, arg) ==
  [kind |-> "conversion", flags |-> f, width |-> w, conv |-> c, arg |-> arg]
\* '%' behind flags or a width that nothing ends, or after which a '%' or a
\* blank comes.
Percent(f, w) == [kind |-> "percent", flags |-> f, width |-> w, conv |-> "%", arg |-> Word(0)]
Blank(f, w) == [kind |-> "blank", flags |-> f, width |-> w, conv |-> " ", arg |-> Word(0)]

Directives ==
  {Plain(c) : c \in {"a", "7", "%"}}
    \cup {Percent(<<>>, 0), Percent(<<"0">>, 0), Percent(<<>>, 4), Blank(<<>>, 3),
          Blank(<<"#", "-">>, 0)}
    \cup {Conv(f, w, "d", Word(v)) :
            f \in {<<>>, <<"0">>, <<"-">>}, w \in {0, 4}, v \in {0, 128, 251}}
    \cup {Conv(f, w, "x", Word(v)) :
            f \in {<<>>, <<"#">>, <<"#", "0">>, <<"0", "#", "-">>}, w \in {0, 5},
            v \in {0, 171}}
    \cup {Conv(<<"0">>, 10, "b", Word(9)), Conv(<<>>, 0, "o", Word(255)),
          Conv(<<"-">>, 4, "u", Word(255)), Conv(<<>>, 2, "i", Word(127)),
          Conv(<<"#", "0">>, 10, "X", Word(255)), Conv(<<"-", "0">>, 4, "u", Word(5))}
    \cup {Conv(f, w, "s", Text(s)) :
            f \in {<<>>, <<"-">>}, w \in {0, 3}, s \in {<<>>, <<"h", "i">>, Null}}
    \cup {Conv(<<>>, w, "q", Word(3)) : w \in {0, 2}}

\* A letter behind a directive that is cut off would be a conversion the
\* caller passes no argument for.
Calls ==
  {Null, <<>>} \cup {<<d>> : d \in Directives}
    \cup {f \in {<<d, e>> : d, e \in Directives} :
            IsComplete(f[1]) \/ f[2].conv # "a"}

Contents == {<<>>, <<"a", "b">>}
Sizes == {0, 1, 5, SIZE_MAX}
AllLetters == {"a", "b", "d", "h", "i", "o", "q", "s", "u", "x", "X"}
=============================================================================
