------------------------------- MODULE Printf -------------------------------
(***************************************************************************)
(* The formatted output of the C library, printf/printf_impl.cpp with the  *)
(* number formatting of printf/numbers.cpp and the calls of printf.cpp and *)
(* stdio.cpp: the state machine that reads a format, and the formatters    *)
(* that pad, truncate and append through two different bounds.             *)
(*                                                                         *)
(* A character is a one-letter string.  A format is given as a sequence of *)
(* directives, each a record of what the caller wrote ([flags, width,      *)
(* conv] for a conversion, [conv] alone with kind "text" for a plain       *)
(* character) and of the argument it passes for it; the state machine sees *)
(* only the characters and the list of the arguments.  An unsigned long    *)
(* and a size_t have WordBits bits, and an argument is a word.             *)
(***************************************************************************)
EXTENDS Integers, Sequences, SequencesExt

CONSTANTS
  Formats,      \* the formats of the calls, sequences of directives
  Helds,        \* the strings the caller's buffer may hold before the call
  Capacities,   \* the sizes n of the calls; SIZE_MAX is sprintf and files
  Letters,      \* the characters isalpha accepts
  WordBits,     \* the width of a word
  Null,         \* the null pointer
  Nul,          \* the character '\0'
  Running       \* the call has not returned

Modulus == 2 ^ WordBits
SIZE_MAX == Modulus - 1

Digits == <<"0", "1", "2", "3", "4", "5", "6", "7",
            "8", "9", "a", "b", "c", "d", "e", "f">>
isdigit(c) == \E k \in 1..10 : Digits[k] = c
ValueOf(c) == (CHOOSE k \in 1..10 : Digits[k] = c) - 1
isalpha(c) == c \in Letters

ASSUME PrintfAssumption ==
  /\ WordBits \in Nat \ {0} /\ Modulus \in Nat \ {0, 1}
  /\ Capacities \subseteq 0..SIZE_MAX
  /\ Helds \subseteq Seq(STRING)
  /\ {"b", "o", "d", "i", "u", "x", "X", "s"} \subseteq Letters
  /\ {"%", "#", "-"} \cap Letters = {}
  /\ \A c \in Letters : ~isdigit(c)
  /\ Running \notin Nat

VARIABLES
  call,     \* [format, held, allocated]: the call being made
  info,     \* printf_info_t
  va,       \* args_copy: the arguments not yet read
  result    \* what __printf returned, or Running

vars == <<call, info, va, result>>

-----------------------------------------------------------------------------
(* The characters and the arguments of a format.                           *)

\* The digits of v in the given base, by position.
Numeral(v, base) ==
  LET n == CHOOSE k \in 1..WordBits :
             v < base ^ k /\ (k = 1 \/ base ^ (k - 1) <= v)
  IN  [i \in 1..n |-> Digits[((v \div base ^ (n - i)) % base) + 1]]

CharsOf(d) ==
  IF d.kind = "text" THEN <<d.conv>>
  ELSE <<"%">> \o d.flags
         \o (IF d.width = 0 THEN <<>> ELSE Numeral(d.width, 10)) \o <<d.conv>>

Chars(format) == FlattenSeq([i \in DOMAIN format |-> CharsOf(format[i])])

TakesArgument(d) == d.kind = "conversion" /\ isalpha(d.conv)
Arguments(format) ==
  LET d == SelectSeq(format, TakesArgument)
  IN  [i \in DOMAIN d |-> d[i].arg]

\* What the caller of printf counts on: how a character is read in each case
\* of the switch, and which characters end a conversion.
Ends(state, c) == state # "ESC" /\ isalpha(c)
CaseAfter(state, c) ==
  IF state = "PARSE" /\ c # "%"
  THEN IF isalpha(c) THEN "ESC"
       ELSE IF isdigit(c) /\ c # "0" THEN "FORMAT_LENGTH" ELSE "PARSE"
  ELSE IF state = "FORMAT_LENGTH" /\ isdigit(c) THEN "FORMAT_LENGTH"
       ELSE IF state # "PARSE" /\ c = "%" THEN "PARSE" ELSE "ESC"

\* The case and the number of conversions ended behind each character.
Reading(s) ==
  LET reading[k \in 0..Len(s)] ==
        IF k = 0 THEN [state |-> "ESC", ended |-> 0]
        ELSE [state |-> CaseAfter(reading[k - 1].state, s[k]),
              ended |-> reading[k - 1].ended
                          + (IF Ends(reading[k - 1].state, s[k]) THEN 1 ELSE 0)]
  IN  reading

\* Every letter that ends a conversion is one the caller passed an argument
\* for: a call without it is undefined.
PassesArguments(format) ==
  LET s == Chars(format)
      reading == Reading(s)
  IN  \A k \in 1..Len(s) : Ends(reading[k - 1].state, s[k]) =>
        /\ reading[k].ended \in 1..Len(Arguments(format))
        /\ \E d \in DOMAIN format : TakesArgument(format[d]) /\ format[d].conv = s[k]

Texts == Seq(STRING)
ArgumentType == [word : 0..SIZE_MAX, text : {Null} \cup Texts]

ASSUME FormatsAssumption ==
  \A format \in Formats \ {Null} :
    /\ Chars(format) \in Texts
    /\ Arguments(format) \in Seq(ArgumentType)
    /\ PassesArguments(format)

-----------------------------------------------------------------------------
(* Appending a character, string.cpp and printf.cpp.                       *)

Prefix(s, n) == SubSeq(s, 1, IF n < Len(s) THEN n ELSE Len(s))

strnapd_Whole(str, s, n) == str \o Prefix(s, n - Len(str))

\* The first n - 1 places are looked at for the end of the string, and what
\* does not fit is dropped: a character at a time, so a tail of s is.
strnapd(str, s, n) == str \o Prefix(s, ((n - 1) % Modulus) - Len(str))

strapd(str, s) == str \o s

\* file_append is its case without a bound.
buf_append(i, s) ==
  [i EXCEPT !.output = IF i.allocated = SIZE_MAX THEN strapd(@, s)
                       ELSE strnapd(@, s, i.allocated)]

Full(i) == i.written >= i.allocated

\* PRINTF_APPEND of every character of s: those that the count lets through.
PRINTF_APPEND(i, s) ==
  LET passed == Prefix(s, i.allocated - i.written)
  IN  [buf_append(i, passed) EXCEPT !.written = @ + Len(passed)]

PRINTF_PADDING(i, s, align) ==
  IF i.align = align /\ Len(s) < i.length
  THEN PRINTF_APPEND(i, [k \in 1..(i.length - Len(s)) |-> i.padding])
  ELSE i

-----------------------------------------------------------------------------
(* The formatters.                                                         *)

strrvs(str) == Reverse(str)

\* The digits are produced from the last one and the string is reversed.
format_uint(value, base) ==
  LET upTo[v \in 0..SIZE_MAX] ==
        <<Digits[(v % base) + 1]>>
          \o (IF v \div base = 0 THEN <<>> ELSE upTo[v \div base])
  IN  strrvs(upTo[value])

IsNegative(word) == word >= Modulus \div 2

\* The most negative value is its own opposite, and is printed as the
\* unsigned word it then is.
format_int(word, base) ==
  IF IsNegative(word)
  THEN <<"-">> \o format_uint((Modulus - word) % Modulus, base)
  ELSE format_uint(word, base)

BaseOf == [b |-> 2, o |-> 8, d |-> 10, i |-> 10, u |-> 10, x |-> 16, X |-> 16]

\* __printf_format_string, and the end of every other formatter.
Padded(i, s) ==
  PRINTF_PADDING(PRINTF_APPEND(PRINTF_PADDING(i, s, "right"), s), s, "left")

Hexadecimal_NoPrefixWidth(i, word) ==
  LET number == format_uint(word, 16)
  IN  IF ~i.prefix THEN Padded(i, number)
      ELSE PRINTF_APPEND(PRINTF_PADDING(PRINTF_APPEND(i, <<"0", "x">>),
                                    number, "right"), number)

\* __printf_format_hexadecimal: "0x" comes before zeros and after spaces.
Hexadecimal(i, word) ==
  LET number == format_uint(word, 16)
      buffer == <<"0", "x">> \o number
  IN  CASE ~i.prefix -> Padded(i, number)
        [] i.prefix /\ i.padding = "0" /\ i.align = "right" ->
             PRINTF_APPEND(PRINTF_PADDING(PRINTF_APPEND(i, <<"0", "x">>),
                                      buffer, "right"), number)
        [] OTHER -> Padded(i, buffer)

NullText == <<"(", "n", "u", "l", "l", ")">>

Formatted(i, arg) ==
  CASE i.c \in {"x", "X"} -> Hexadecimal(i, arg.word)
    [] i.c \in {"d", "i"} -> Padded(i, format_int(arg.word, 10))
    [] i.c \in {"b", "o", "u"} -> Padded(i, format_uint(arg.word, BaseOf[i.c]))
    [] i.c = "s" -> Padded(i, IF arg.text = Null THEN NullText ELSE arg.text)

\* __printf_format: a letter no formatter has is appended behind a '%', past
\* the bound and the count of PRINTF_APPEND.
Known == DOMAIN BaseOf \cup {"s"}
PrintfFormat(i, arg) ==
  IF i.c \in Known THEN Formatted(i, arg) ELSE buf_append(i, <<"%", i.c>>)

-----------------------------------------------------------------------------
(* __printf: one action for each case of the switch.                       *)

Fresh_KeepsLength(i) ==
  [i EXCEPT !.state = "ESC", !.padding = " ", !.prefix = FALSE,
            !.align = "right"]

\* The part of a conversion's state that the next conversion must not see.
Fresh(i) ==
  [i EXCEPT !.length = 0, !.state = "ESC", !.padding = " ",
            !.prefix = FALSE, !.align = "right"]

PrintfInit ==
  /\ call \in [format : Formats, held : Helds, allocated : Capacities]
  /\ Len(call.held) <= (call.allocated - 1) % Modulus
  /\ call.allocated = 0 => call.held = <<>>
  /\ info = [format |-> IF call.format = Null THEN Null ELSE Chars(call.format),
             c |-> Nul, state |-> "ENTRY", format_offset |-> 0,
             padding |-> Nul, align |-> "left", length |-> 0,
             prefix |-> FALSE, output |-> call.held, written |-> 0,
             allocated |-> call.allocated]
  /\ va = IF call.format = Null THEN <<>> ELSE Arguments(call.format)
  /\ result = Running

Return(i, value) == info' = i /\ result' = value

\* PRINTF_PEEK, the last statement of most cases.
PRINTF_PEEK(i) ==
  LET next == [i EXCEPT !.format_offset = @ + 1]
  IN  IF i.format_offset < Len(i.format)
      THEN /\ info' = [next EXCEPT !.c = i.format[i.format_offset + 1]]
           /\ result' = Running
      ELSE Return([next EXCEPT !.c = Nul], i.written)

At(state) == result = Running /\ info.state = state /\ UNCHANGED call

\* A PRINTF_APPEND and a PRINTF_PEEK: both may return.
AppendAndPeek(i) ==
  IF Full(i) THEN Return(i, i.written) ELSE PRINTF_PEEK(PRINTF_APPEND(i, <<i.c>>))

Enter ==
  /\ At("ENTRY")
  /\ UNCHANGED va
  /\ IF info.format = Null
     THEN LET i == PRINTF_APPEND(info, NullText)
          IN  Return(i, IF i.written < Len(NullText) THEN i.written ELSE 0)
     ELSE PRINTF_PEEK(Fresh(info))

Escape ==
  /\ At("ESC")
  /\ UNCHANGED va
  /\ IF info.c = "%" THEN PRINTF_PEEK([info EXCEPT !.state = "PARSE"])
     ELSE AppendAndPeek(info)

Parse ==
  /\ At("PARSE")
  /\ UNCHANGED va
  /\ CASE info.c = "%" -> AppendAndPeek([info EXCEPT !.state = "ESC"])
       [] info.c = "#" -> PRINTF_PEEK([info EXCEPT !.prefix = TRUE])
       [] info.c = "0" -> PRINTF_PEEK([info EXCEPT !.padding = "0"])
       [] info.c = "-" -> PRINTF_PEEK([info EXCEPT !.align = "left"])
       [] isdigit(info.c) /\ info.c # "0" ->
            Return([info EXCEPT !.state = "FORMAT_LENGTH"], Running)
       [] isalpha(info.c) -> Return([info EXCEPT !.state = "FINALIZE"], Running)
       [] OTHER -> PRINTF_PEEK(info)

\* Bug: a character that cannot end a conversion is read again for ever.
AfterLength_Waits(i) == Return(i, Running)

\* A character that cannot end a conversion leaves with the length kept.
AfterLength(i) == Return([i EXCEPT !.state = "ESC"], Running)

FormatLength ==
  /\ At("FORMAT_LENGTH")
  /\ UNCHANGED va
  /\ CASE isdigit(info.c) ->
            PRINTF_PEEK([info EXCEPT !.length =
                           (@ * 10 + ValueOf(info.c)) % Modulus])
       [] isalpha(info.c) -> Return([info EXCEPT !.state = "FINALIZE"], Running)
       [] OTHER -> AfterLength(info)

Finalize ==
  /\ At("FINALIZE")
  /\ va' = Tail(va)
  /\ \E i \in {PrintfFormat(info, Head(va))} :
       IF i.written = i.allocated THEN Return(i, i.written)
       ELSE PRINTF_PEEK(Fresh(i))

PrintfNext == Enter \/ Escape \/ Parse \/ FormatLength \/ Finalize

\* The call runs on a processor that keeps executing it.
PrintfSpec == PrintfInit /\ [][PrintfNext]_vars /\ WF_vars(PrintfNext)

-----------------------------------------------------------------------------
(* What the caller asked for.  printf_formatters.cpp prints the digits of   *)
(* 'X' and its prefix in lower case, as it does those of 'x'; that is taken *)
(* over here.                                                              *)

Repeat(c, n) == [k \in 1..(IF n > 0 THEN n ELSE 0) |-> c]
Flagged(d, f) == \E k \in DOMAIN d.flags : d.flags[k] = f

\* A conversion the state machine reads to its end and resets after.
IsComplete(d) ==
  \/ d.kind = "text" /\ d.conv # "%"
  \/ d.kind = "percent" /\ d.flags = <<>> /\ d.width = 0
  \/ d.kind = "conversion"

Counts(d) == d.kind # "conversion" \/ d.conv \in Known

\* The sign or the prefix of a conversion, and its digits or its text.
Sign(d) ==
  CASE d.conv \in {"x", "X"} /\ Flagged(d, "#") -> <<"0", "x">>
    [] d.conv \in {"d", "i"} /\ IsNegative(d.arg.word) -> <<"-">>
    [] OTHER -> <<>>
Magnitude(d) ==
  CASE d.conv = "s" -> (IF d.arg.text = Null THEN NullText ELSE d.arg.text)
    [] d.conv \in {"d", "i"} /\ IsNegative(d.arg.word) ->
         Numeral(Modulus - d.arg.word, 10)
    [] OTHER -> Numeral(d.arg.word, BaseOf[d.conv])

Wanted(d) ==
  CASE d.kind # "conversion" -> <<d.conv>>
    [] ~Counts(d) -> <<"%", d.conv>>
    [] OTHER ->
         LET sign == Sign(d)
             body == sign \o Magnitude(d)
             n == d.width - Len(body)
         IN  CASE Flagged(d, "-") -> body \o Repeat(" ", n)
               [] Flagged(d, "0") /\ ~Flagged(d, "-") ->
                    sign \o Repeat("0", n) \o Magnitude(d)
               [] OTHER -> Repeat(" ", n) \o body

\* Two combinations pad with zeros where the value is changed by them: to
\* the right of it, and to the left of a minus sign.
PadsTheValue(d) ==
  /\ d.kind = "conversion"
  /\ Flagged(d, "0")
  /\ Flagged(d, "-") \/ Sign(d) = <<"-">>

IsPlain(format) ==
  format # Null => \A k \in DOMAIN format :
                     IsComplete(format[k]) /\ ~PadsTheValue(format[k])

WantedOf(format) ==
  IF format = Null THEN NullText
  ELSE FlattenSeq([k \in DOMAIN format |-> Wanted(format[k])])

\* The place left for the terminating '\0'.
Room == IF call.allocated = 0 THEN 0 ELSE call.allocated - 1

-----------------------------------------------------------------------------
(* Properties.                                                             *)

\* A call without room writes an unknown conversion all the same.
WritesIntoNothing ==
  /\ call.allocated = 0 /\ call.format # Null
  /\ \E k \in DOMAIN call.format : ~Counts(call.format[k])

\* At every moment the caller's string is still in front, the string with
\* its '\0' fits in the n bytes of the call, whatever the format is, and no
\* more is counted than fits: the two bounds, PRINTF_APPEND's count of what
\* was written and strnapd's scan of the string, agree although one sees
\* the held string and the unknown conversions and the other does not
\* (printf.h:58, printf_impl.cpp:185, string.cpp:94).
OutputStaysInTheBuffer ==
  /\ IsPrefix(call.held, info.output)
  /\ info.written <= call.allocated
  /\ call.allocated # SIZE_MAX /\ ~WritesIntoNothing =>
       Len(info.output) <= Room

\* When the call returns, the buffer holds what it held, followed by every
\* directive as its flags, width and argument ask, cut to the room there
\* is, and the count is that of the characters asked for, cut to n: the
\* state of one conversion never reaches the next one, and a truncated
\* conversion ends the call (printf_impl.cpp:9-277).
OutputIsFormatted ==
  (result # Running /\ IsPlain(call.format) /\ ~WritesIntoNothing) =>
    LET wanted == WantedOf(call.format)
        counted == IF call.format = Null THEN 0
                   ELSE Len(WantedOf(SelectSeq(call.format, Counts)))
    IN  /\ info.output =
             IF call.allocated = SIZE_MAX THEN call.held \o wanted
             ELSE Prefix(call.held \o wanted, Room)
        /\ call.format # Null =>
             result = IF counted < call.allocated THEN counted
                      ELSE call.allocated

\* Every call returns, whatever the format is: no case of the switch waits
\* for a character that it does not read (printf_impl.cpp:211).
PrintfReturns == <>(result # Running)
=============================================================================
