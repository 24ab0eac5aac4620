-------------------------------- MODULE Deque --------------------------------
(***************************************************************************)
(* What a list promises: a sequence of values.  Each call is one step that *)
(* names itself in call and leaves its answer in result.  A call that      *)
(* needs an element and finds none halts the machine.                      *)
(***************************************************************************)
EXTENDS Integers, Sequences, SequencesExt

CONSTANTS Values, Null

VARIABLES contents, call, result, halted

dequeVars == <<contents, call, result, halted>>

Call(name, new, answer) ==
  /\ ~halted
  /\ call' = name /\ contents' = new /\ result' = answer
  /\ UNCHANGED halted

Nonempty == contents # <<>>

\* The elements of s that are not v, in their order.
Without(s, v) ==
  LET kept[i \in 0 .. Len(s)] ==
        IF i = 0 THEN <<>>
        ELSE IF s[i] # v THEN Append(kept[i - 1], s[i]) ELSE kept[i - 1]
  IN  kept[Len(s)]

\* t has the elements of s, each as often, in ascending order.
SortOf(s, t) ==
  /\ \E p \in [DOMAIN s -> DOMAIN s] :
       /\ \A i, j \in DOMAIN s : p[i] = p[j] => i = j
       /\ \A i \in DOMAIN s : t[i] = s[p[i]]
  /\ \A i, j \in DOMAIN s : i < j => t[i] <= t[j]

PushOne(v) ==
  \/ Call("push", <<v>> \o contents, v)
  \/ Call("push_back", Append(contents, v), v)

TakeOne ==
  /\ Nonempty
  /\ \/ Call("pop", Tail(contents), Head(contents))
     \/ Call("pop_back", Front(contents), Last(contents))
     \/ Call("peek", contents, Head(contents))
     \/ Call("peek_back", contents, Last(contents))
     \/ Call("peek_and_pushback",
             Append(Tail(contents), Head(contents)), Head(contents))
     \/ \E t \in [DOMAIN contents -> Values] :
          Call("sort", t, Null) /\ SortOf(contents, t)

NoneToTake ==
  /\ ~halted /\ ~Nonempty
  /\ call' \in {"pop", "pop_back", "peek", "peek_back", "peek_and_pushback", "sort"}
  /\ halted' = TRUE
  /\ UNCHANGED <<contents, result>>

ByValue(v) ==
  \/ \E i \in DOMAIN contents :
       /\ Call("remove", RemoveAt(contents, i), Null)
       /\ contents[i] = v /\ \A j \in 1 .. i - 1 : contents[j] # v
  \/ Call("remove", contents, Null) /\ v \notin ToSet(contents)
  \/ Call("remove_all", Without(contents, v), Null)

DequeInit ==
  /\ contents = <<>> /\ halted = FALSE
  /\ call = "" /\ result = Null

DequeNext ==
  \/ \E v \in Values : PushOne(v) \/ ByValue(v)
  \/ TakeOne \/ NoneToTake
  \/ Call("clear", <<>>, Null)

DequeSpec == DequeInit /\ [][DequeNext]_dequeVars
==============================================================================
