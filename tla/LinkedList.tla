------------------------------ MODULE LinkedList ------------------------------
(***************************************************************************)
(* LinkedList of libsystem/LinkedList.h: nodes with links both ways, a     *)
(* count, and foreach, whose callback may change the list it walks.        *)
(*                                                                         *)
(* The scheduler's callback removes the value it was given from the list.  *)
(* The model lets a callback do that, and push at either end, before it    *)
(* returns.  Everything else is called outside of a foreach.  contains is  *)
(* left out: nothing calls it, and its callback does not compile without a *)
(* warning, which is an error in this build.                               *)
(***************************************************************************)
EXTENDS Integers, Sequences, SequencesExt, FiniteSets

CONSTANTS
  Values,      \* what is stored; sort compares them
  Nodes,       \* bound: the addresses new may return
  Null

ASSUME LinkedListAssumption ==
  /\ Values \subseteq Int /\ Values # {}
  /\ IsFiniteSet(Nodes)
  /\ Null \notin Nodes \cup Values

VARIABLES
  _head, _tail, _count,       \* the fields of that name
  item,                       \* the memory of each node: value, prev, next
  live,                       \* the nodes that are allocated
  walking,                    \* a foreach is under way
  current,                    \* the node whose value its callback may remove
  next,                       \* its local: the node to go on with
  old, seen,                  \* auxiliary: nodes there from its start, visited
  call, result, halted        \* the last call, its answer, the machine stopped

fields == <<_head, _tail, _count, item, live>>
walkVars == <<walking, current, next, old, seen>>
callVars == <<call, result, halted>>
listVars == <<fields, walkVars, callVars>>

-----------------------------------------------------------------------------
(***************************************************************************)
(* Links.                                                                  *)
(***************************************************************************)
SetNext(f, n, m) == [x \in Nodes |-> IF x = n THEN [f[x] EXCEPT !.next = m] ELSE f[x]]
SetPrev(f, n, m) == [x \in Nodes |-> IF x = n THEN [f[x] EXCEPT !.prev = m] ELSE f[x]]

\* The nodes met from p by the links f, at most one visit for each node.
Chain(f, p) ==
  LET further[s \in Seq(Nodes)] ==
        LET n == IF s = <<>> THEN p ELSE f[Last(s)].next
        IN  IF n = Null THEN s ELSE Append(s, n)
      met[k \in 0 .. Cardinality(Nodes)] == IF k = 0 THEN <<>> ELSE further[met[k - 1]]
  IN  met[Cardinality(Nodes)]

ChainOfThis == Chain(item, _head)

Fields == [head |-> _head, tail |-> _tail, item |-> item]

\* Bug: the last node's removal leaves the tail where it was.
Unlink_KeepsTail(l, n) ==
  LET p == l.item[n].prev
      x == l.item[n].next
  IN  [head |-> IF p = Null THEN x ELSE l.head,
       tail |-> l.tail,
       item |-> SetPrev(SetNext(l.item, p, x), x, p)]

\* remove's four assignments, for one node.
Unlink(l, n) ==
  LET p == l.item[n].prev
      x == l.item[n].next
  IN  [head |-> IF p = Null THEN x ELSE l.head,
       tail |-> IF x = Null THEN p ELSE l.tail,
       item |-> SetPrev(SetNext(l.item, p, x), x, p)]

Becomes(l) == _head' = l.head /\ _tail' = l.tail /\ item' = l.item

Delete(S) ==
  /\ live' = live \ S
  /\ old' = old \ S
  /\ seen' = seen \ S

Answers(name, v) == ~halted /\ call' = name /\ result' = v /\ UNCHANGED halted

-----------------------------------------------------------------------------
(***************************************************************************)
(* The calls.                                                              *)
(***************************************************************************)
push(v) ==
  \E n \in Nodes \ live :
    /\ item' = SetPrev([item EXCEPT ![n] = [value |-> v, prev |-> Null, next |-> _head]],
                       _head, n)
    /\ _head' = n
    /\ _tail' = IF _head = Null THEN n ELSE _tail
    /\ _count' = _count + 1
    /\ live' = live \cup {n}
    /\ Answers("push", v)
    /\ UNCHANGED walkVars

push_back(v) ==
  \E n \in Nodes \ live :
    /\ item' = SetNext([item EXCEPT ![n] = [value |-> v, prev |-> _tail, next |-> Null]],
                       _tail, n)
    /\ _tail' = n
    /\ _head' = IF _tail = Null THEN n ELSE _head
    /\ _count' = _count + 1
    /\ live' = live \cup {n}
    /\ Answers("push_back", v)
    /\ UNCHANGED walkVars

pop ==
  LET second == item[_head].next
  IN  /\ _head # Null
      /\ \/ _count = 1 /\ _head' = Null /\ _tail' = Null /\ item' = item
         \/ _count > 1 /\ _head' = second /\ item' = SetPrev(item, second, Null)
                       /\ UNCHANGED _tail
      /\ _count' = _count - 1
      /\ Delete({_head})
      /\ Answers("pop", item[_head].value)
      /\ UNCHANGED <<walking, current, next>>

pop_back ==
  LET second == item[_tail].prev
  IN  /\ _tail # Null
      /\ \/ _count = 1 /\ _head' = Null /\ _tail' = Null /\ item' = item
         \/ _count > 1 /\ _tail' = second /\ item' = SetNext(item, second, Null)
                       /\ UNCHANGED _head
      /\ _count' = _count - 1
      /\ Delete({_tail})
      /\ Answers("pop_back", item[_tail].value)
      /\ UNCHANGED <<walking, current, next>>

peek ==
  /\ _head # Null
  /\ Answers("peek", item[_head].value)
  /\ UNCHANGED <<fields, walkVars>>

peek_back ==
  /\ _tail # Null
  /\ Answers("peek_back", item[_tail].value)
  /\ UNCHANGED <<fields, walkVars>>

peek_and_pushback ==
  LET second == item[_head].next
      cut == SetNext(SetPrev(item, second, Null), _head, Null)
  IN  /\ _head # Null
      /\ \/ _count = 1 /\ UNCHANGED fields
         \/ /\ _count > 1
            /\ _head' = second /\ _tail' = _head
            /\ item' = SetPrev(SetNext(cut, _tail, _head), _head, _tail)
            /\ UNCHANGED <<_count, live>>
      /\ Answers("peek_and_pushback", item[_head].value)
      /\ UNCHANGED walkVars

\* The assertions on _head and _tail, and the null head sort starts from.
CallOnEmpty ==
  /\ ~halted /\ ~walking
  /\ \/ _head = Null /\ call' \in {"pop", "peek", "peek_and_pushback", "sort"}
     \/ _tail = Null /\ call' \in {"pop_back", "peek_back"}
  /\ halted' = TRUE
  /\ UNCHANGED <<fields, walkVars, result>>

\* Bug: a pair already in order is exchanged.
Exchange_Backwards(s, pair) ==
  LET i == pair[1]
      j == pair[2]
  IN  IF s[i] < s[j] THEN [s EXCEPT ![i] = s[j], ![j] = s[i]] ELSE s

\* One comparison of the inner loop, and what it exchanges.
Exchange(s, pair) ==
  LET i == pair[1]
      j == pair[2]
  IN  IF s[i] > s[j] THEN [s EXCEPT ![i] = s[j], ![j] = s[i]] ELSE s

\* The inner loop: the value at i against every value after it.
Pass(s, i) ==
  LET after[j \in 0 .. Len(s)] ==
        IF j = 0 THEN s
        ELSE IF i < j THEN Exchange(after[j - 1], <<i, j>>) ELSE after[j - 1]
  IN  after[Len(s)]

\* The outer loop.
Passes(s) ==
  LET after[i \in 0 .. Len(s)] == IF i = 0 THEN s ELSE Pass(after[i - 1], i)
  IN  after[Len(s)]

sort ==
  LET s == ChainOfThis
      values == Passes([i \in DOMAIN s |-> item[s[i]].value])
  IN  /\ _head # Null
      /\ item' = [n \in Nodes |->
                    IF \E i \in DOMAIN s : s[i] = n
                    THEN [item[n] EXCEPT !.value = values[CHOOSE i \in DOMAIN s : s[i] = n]]
                    ELSE item[n]]
      /\ Answers("sort", Null)
      /\ UNCHANGED <<_head, _tail, _count, live, walkVars>>

\* The places that hold v, counted from the head.
Matches(v) == {i \in DOMAIN ChainOfThis : item[ChainOfThis[i]].value = v}

\* The loop over the nodes that unlinks each one at a place in M.
Unlinked(M) ==
  LET after[i \in 0 .. Len(ChainOfThis)] ==
        IF i = 0 THEN Fields
        ELSE IF i \in M THEN Unlink(after[i - 1], ChainOfThis[i]) ELSE after[i - 1]
  IN  after[Len(ChainOfThis)]

RemoveAll(M) ==
  /\ Becomes(Unlinked(M))
  /\ _count' = _count - Cardinality(M)
  /\ Delete({ChainOfThis[i] : i \in M})

\* Bug: the loop goes on after the node it removed.
remove_NoReturn(v) == RemoveAll(Matches(v)) /\ Answers("remove", Null)

remove(v) ==
  /\ \/ /\ Matches(v) # {}
        /\ LET n == ChainOfThis[Min(Matches(v))]
           IN  Becomes(Unlink(Fields, n)) /\ Delete({n})
        /\ _count' = _count - 1
     \/ Matches(v) = {} /\ UNCHANGED <<fields, old, seen>>
  /\ Answers("remove", Null)

\* The value is the caller's own, not a reference into the list.
remove_all(v) ==
  /\ RemoveAll(Matches(v))
  /\ Answers("remove_all", Null)
  /\ UNCHANGED <<walking, current, next>>

clear ==
  /\ _head' = Null /\ _tail' = Null /\ _count' = 0 /\ item' = item
  /\ Delete(ToSet(ChainOfThis))
  /\ Answers("clear", Null)
  /\ UNCHANGED <<walking, current, next>>

-----------------------------------------------------------------------------
(***************************************************************************)
(* foreach.  current is Null once the callback has removed the value.      *)
(***************************************************************************)
Visit(n) == current' = n /\ next' = item[n].next

foreach ==
  /\ ~walking /\ ~halted /\ _head # Null
  /\ walking' = TRUE
  /\ Visit(_head)
  /\ old' = live /\ seen' = {_head}
  /\ UNCHANGED <<fields, callVars>>

\* The callback returned CONTINUE.
foreach_next ==
  /\ walking /\ next # Null
  /\ Visit(next)
  /\ seen' = seen \cup {next}
  /\ UNCHANGED <<walking, old, fields, callVars>>

\* The end of the list, or a callback that returned STOP.
foreach_return ==
  /\ walking
  /\ walking' = FALSE
  /\ next' = Null /\ current' = Null /\ old' = {} /\ seen' = {}
  /\ UNCHANGED <<fields, callVars>>

CallbackRemoves ==
  /\ walking /\ current # Null
  /\ remove(item[current].value)
  /\ current' = Null
  /\ UNCHANGED <<walking, next>>

-----------------------------------------------------------------------------
ListInit ==
  /\ _head = Null /\ _tail = Null /\ _count = 0
  /\ item = [n \in Nodes |->      \* new writes all three
               [value |-> CHOOSE v \in Values : TRUE, prev |-> Null, next |-> Null]]
  /\ live = {}
  /\ walking = FALSE /\ current = Null /\ next = Null /\ old = {} /\ seen = {}
  /\ call = "" /\ result = Null /\ halted = FALSE

Outside ==
  /\ ~walking
  /\ \/ pop \/ pop_back \/ peek \/ peek_back \/ peek_and_pushback \/ sort \/ clear
     \/ \E v \in Values :
          \/ remove_all(v)
          \/ remove(v) /\ UNCHANGED <<walking, current, next>>

ListNext ==
  \/ \E v \in Values : push(v) \/ push_back(v)
  \/ Outside \/ CallOnEmpty
  \/ foreach \/ foreach_next \/ foreach_return \/ CallbackRemoves

ListSpec == ListInit /\ [][ListNext]_listVars

-----------------------------------------------------------------------------
(***************************************************************************)
(* Properties                                                              *)
(***************************************************************************)

\* The types, and the shape of the list: the nodes met from _head are
\* exactly those that are allocated, as many as _count, and end at _tail; the
\* links back retrace them.  No node is leaked and no link dangles.
LinksAreConsistent ==
  LET s == ChainOfThis
  IN  /\ _count = Len(s) /\ live = ToSet(s) /\ Cardinality(live) = _count
      /\ _head = IF s = <<>> THEN Null ELSE s[1]
      /\ _tail = IF s = <<>> THEN Null ELSE s[Len(s)]
      /\ \A i \in DOMAIN s :
           /\ item[s[i]].prev = IF i = 1 THEN Null ELSE s[i - 1]
           /\ item[s[i]].next = IF i = Len(s) THEN Null ELSE s[i + 1]
      /\ \A n \in Nodes : item[n].value \in Values

\* foreach survives what its callback does: the node it will read next is
\* allocated, every node that was there when it began and still is has been
\* visited or lies ahead, and none it has visited lies ahead.  The links it
\* follows are whole in every state.
ForeachVisitsEach ==
  LET ahead == ToSet(Chain(item, next))
  IN  /\ LinksAreConsistent
      /\ walking => /\ next \in live \cup {Null}
                    /\ old \ seen \subseteq ahead
                    /\ ahead \cap seen = {}

Contents ==
  LET values[s \in Seq(Nodes)] == [i \in DOMAIN s |-> item[s[i]].value]
  IN  values[ChainOfThis]

Abstract == INSTANCE Deque WITH contents <- Contents

\* The list is a sequence: every call changes the sequence of values, and
\* answers, as its name says, from any state the other calls can leave.
ImplementsSequence == Abstract!DequeSpec
===============================================================================
