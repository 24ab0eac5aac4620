-------------------------- MODULE InterruptsProofs --------------------------
(***************************************************************************)
(* Theorems about nested interrupts, for any lines, any number of them and *)
(* any depth of the stack, with the proofs TLAPS checks.                   *)
(*                                                                         *)
(* An end-of-interrupt ends the highest line in service.  That it is the   *)
(* line of the handler that sends it rests on the order of the frames: of  *)
(* two lines in service, the higher was delivered into a frame further in. *)
(***************************************************************************)
EXTENDS Interrupts, Induction
-----------------------------------------------------------------------------
(* The inductive invariant.                                                *)

FrameType ==
  [vector : Nat, line : Lines \cup {NoLine}, enabled : BOOLEAN,
   pc : {"tick", "count", "ack", "ack1", "return"}]

\* A handler acknowledges to the controller of the line that brought it in.
FrameOK(f) ==
  /\ f.line = NoLine => f.vector < 40
  /\ f.line # NoLine => (f.vector >= 40 <=> f.line \in Slave)
  /\ f.pc \in {"tick", "count"} => f.vector = TIMER /\ f.line \in {0, NoLine}

Types ==
  /\ pic \in [offset1 : Nat, offset2 : Nat, irr : SUBSET Lines, isr : SUBSET (0 .. 15)]
  /\ idt # <<>> => pic.offset1 = 32 /\ pic.offset2 = 40
  /\ stack \in Seq(FrameType)
  /\ \A i \in Frames : FrameOK(stack[i])
  /\ enabled \in BOOLEAN /\ stray \in BOOLEAN
  /\ ticks \in 0 .. TickModulus - 1 /\ taken \in Nat
  /\ budget.yields \in 0 .. MaxYields /\ budget.nmis \in 0 .. MaxNmis
  /\ budget \in [requests : [Lines -> Nat], nmis : Nat, yields : Nat]

\* Every line in service has a handler that is yet to acknowledge it.
Covered ==
  \A s \in pic.isr : \E i \in Frames : s \in Unacknowledged(stack[i])

\* Inside the handler of a line there is one of every higher line in service.
Nested(controller) ==
  \A s, t \in pic.isr \cap controller : s < t =>
    \A j \in Frames : t \in Unacknowledged(stack[j]) =>
      \E i \in Frames : i < j /\ s \in Unacknowledged(stack[i])

\* Until a handler has ended another's line, each waits for its own.
Exact ==
  ~stray =>
    /\ \A i \in Frames : Unacknowledged(stack[i]) \subseteq pic.isr
    /\ \A i, j \in Frames :
         Unacknowledged(stack[i]) \cap Unacknowledged(stack[j]) # {} => i = j

InService == Types /\ Covered /\ Nested(Master) /\ Nested(Slave) /\ Exact

Pending(frames) == {i \in DOMAIN frames : frames[i].pc \in {"tick", "count"}}

Counting ==
  /\ (taken - Cardinality(Pending(stack))) % TickModulus = ticks
  /\ ~TicksCanOverlap =>
       /\ ~stray
       /\ \A i \in Frames : /\ stack[i].line # NoLine
                            /\ stack[i].pc = "count" => (ticks + 1) % TickModulus >= ticks

InterruptsInv == InService /\ Counting
-----------------------------------------------------------------------------
(* Frames.                                                                 *)

\* A frame pushed onto the stack.
LEMMA Pushed ==
  ASSUME NEW s \in Seq(FrameType), NEW f \in FrameType
  PROVE  /\ <<f>> \o s \in Seq(FrameType)
         /\ 1 \in DOMAIN (<<f>> \o s) /\ (<<f>> \o s)[1] = f
         /\ \A i \in DOMAIN s : i + 1 \in DOMAIN (<<f>> \o s) /\ (<<f>> \o s)[i + 1] = s[i]
         /\ \A i \in DOMAIN (<<f>> \o s) :
              i # 1 => i - 1 \in DOMAIN s /\ i = (i - 1) + 1 /\ (<<f>> \o s)[i] = s[i - 1]
<1> DEFINE new == <<f>> \o s
           n == Len(s)
<1>1. /\ n \in Nat /\ DOMAIN s = 1 .. n /\ new \in Seq(FrameType) /\ DOMAIN new = 1 .. n + 1
      /\ new[1] = f
  OBVIOUS
<1>2. \A i \in 1 .. n : new[i + 1] = s[i]
  OBVIOUS
<1>3. \A i \in 2 .. n + 1 : new[i] = s[i - 1]
  OBVIOUS
<1> HIDE DEF new, n
<1> QED BY <1>1, <1>2, <1>3 DEF new

\* The innermost frame changes.
LEMMA Resumed ==
  ASSUME NEW s \in Seq(FrameType), s # <<>>, NEW f \in FrameType
  PROVE  /\ <<f>> \o Tail(s) \in Seq(FrameType)
         /\ DOMAIN (<<f>> \o Tail(s)) = DOMAIN s /\ 1 \in DOMAIN s /\ DOMAIN s \subseteq Nat
         /\ Head(s) = s[1] /\ s[1] \in FrameType /\ \A i \in DOMAIN s : i >= 1
         /\ (<<f>> \o Tail(s))[1] = f
         /\ \A i \in DOMAIN s : i # 1 => (<<f>> \o Tail(s))[i] = s[i]
<1> DEFINE new == <<f>> \o Tail(s)
           n == Len(s)
<1>1. /\ n \in Nat /\ n > 0 /\ DOMAIN s = 1 .. n /\ Head(s) = s[1] /\ s[1] \in FrameType
      /\ Tail(s) \in Seq(FrameType) /\ Len(Tail(s)) = n - 1
      /\ \A i \in 1 .. n - 1 : Tail(s)[i] = s[i + 1]
  OBVIOUS
<1>2. /\ new \in Seq(FrameType) /\ Len(new) = n /\ DOMAIN new = 1 .. n /\ new[1] = f
      /\ \A i \in 2 .. n : new[i] = Tail(s)[i - 1]
  BY <1>1
<1>3. \A i \in 2 .. n : new[i] = s[i]
  BY <1>1, <1>2
<1> HIDE DEF new, n
<1> QED BY <1>1, <1>2, <1>3 DEF new

\* The innermost frame goes.
LEMMA Popped ==
  ASSUME NEW s \in Seq(FrameType), s # <<>>
  PROVE  /\ Tail(s) \in Seq(FrameType) /\ 1 \in DOMAIN s /\ s[1] \in FrameType /\ Head(s) = s[1]
         /\ \A i \in DOMAIN Tail(s) : i + 1 \in DOMAIN s /\ Tail(s)[i] = s[i + 1]
         /\ \A i \in DOMAIN s : i # 1 => i - 1 \in DOMAIN Tail(s) /\ i = (i - 1) + 1
         /\ DOMAIN Tail(s) \subseteq Nat /\ DOMAIN s \subseteq Nat \ {0}
         /\ s = <<s[1]>> \o Tail(s)
<1>1. /\ Len(s) \in Nat /\ Len(s) > 0 /\ DOMAIN s = 1 .. Len(s) /\ s[1] \in FrameType
      /\ Tail(s) \in Seq(FrameType) /\ DOMAIN Tail(s) = 1 .. Len(s) - 1
      /\ \A i \in 1 .. Len(s) - 1 : Tail(s)[i] = s[i + 1]
      /\ Head(s) = s[1]
  OBVIOUS
<1>2. s = <<s[1]>> \o Tail(s)
  BY <1>1
<1> QED BY <1>1, <1>2

\* What a handler has yet to acknowledge, to each controller.
LEMMA ToAcknowledge ==
  ASSUME NEW f \in FrameType
  PROVE  /\ Unacknowledged(f) \subseteq 0 .. 15
         /\ f.line = NoLine \/ f.pc = "return" => Unacknowledged(f) = {}
         /\ f.line # NoLine /\ f.pc \in {"tick", "count", "ack"} =>
              Unacknowledged(f) = {f.line, Cascade(f.line)}
         /\ f.line # NoLine /\ f.pc = "ack1" => Unacknowledged(f) = {Cascade(f.line)}
         /\ f.line # NoLine =>
              /\ Cascade(f.line) \in Master
              /\ f.line \in Slave \/ f.line = Cascade(f.line)
  BY InterruptsAssumption DEF FrameType, Unacknowledged, Cascade, NoLine, Master, Slave

\* An end-of-interrupt ends the highest line of its controller, if any.
LEMMA EndsTheHighest ==
  ASSUME NEW isr \in SUBSET (0 .. 15), NEW controller
  PROVE  /\ isr \cap controller = {} => EndOfInterrupt(isr, controller) = isr
         /\ isr \cap controller # {} =>
              \E m \in isr \cap controller :
                 /\ \A s \in isr \cap controller : m <= s
                 /\ EndOfInterrupt(isr, controller) = isr \ {m}
<1>1. ASSUME isr \cap controller # {}
      PROVE  /\ Min(isr \cap controller) \in isr \cap controller
             /\ \A s \in isr \cap controller : Min(isr \cap controller) <= s
  BY <1>1, MinIsLeast
<1> QED BY <1>1 DEF EndOfInterrupt

\* An acknowledgement of the innermost handler, whatever handlers it is inside of.
LEMMA AcknowledgeKeeps ==
  ASSUME InService, stack # <<>>, NEW controller, controller \in {Master, Slave},
         NEW g \in FrameType, stack' = <<g>> \o Tail(stack), NEW own, own \in controller,
         pic'.isr = EndOfInterrupt(pic.isr, controller),
         stray' = (stray \/ (stack[1].line = NoLine /\ pic.isr \cap controller # {})),
         Unacknowledged(g) = Unacknowledged(stack[1]) \ controller,
         stack[1].line = NoLine => Unacknowledged(stack[1]) = {},
         stack[1].line # NoLine => Unacknowledged(stack[1]) \cap controller = {own}
  PROVE  Covered' /\ Nested(Master)' /\ Nested(Slave)' /\ Exact'
<1>1. /\ stack \in Seq(FrameType) /\ pic.isr \in SUBSET (0 .. 15)
  BY DEF InService, Types
<1>2. /\ DOMAIN stack' = DOMAIN stack /\ 1 \in DOMAIN stack /\ stack'[1] = g
      /\ \A i \in DOMAIN stack : i \in Nat /\ i >= 1
      /\ \A i \in DOMAIN stack : i # 1 => stack'[i] = stack[i]
  BY <1>1, Resumed
<1> DEFINE U(i) == Unacknowledged(stack[i])
           V(i) == Unacknowledged(stack'[i])
<1>3. /\ V(1) = U(1) \ controller
      /\ \A i \in DOMAIN stack : i # 1 => V(i) = U(i)
      /\ \A i \in DOMAIN stack : V(i) \subseteq U(i)
      /\ U(1) \cap controller \subseteq {own}
  BY <1>2
\* Its own line, if it is in service, is the one that ends.
<1>4. /\ pic'.isr \subseteq pic.isr
      /\ own \in U(1) => own \notin pic'.isr
      /\ own \in U(1) /\ own \in pic.isr => pic'.isr = pic.isr \ {own}
      /\ pic.isr \cap controller = {} => pic'.isr = pic.isr
  <2> HIDE DEF U, V
  <2>1. PICK here : here = pic.isr \cap controller
    OBVIOUS
  <2>2. /\ here = {} => pic'.isr = pic.isr
        /\ here # {} => \E m \in here : (\A s \in here : m <= s) /\ pic'.isr = pic.isr \ {m}
    BY <1>1, <2>1, EndsTheHighest, ZenonT(30)
  <2>3. ASSUME own \in U(1), own \in pic.isr PROVE pic'.isr = pic.isr \ {own}
    <3>1. own \in here
      BY <2>1, <2>3
    <3>2. PICK m \in here : (\A s \in here : m <= s) /\ pic'.isr = pic.isr \ {m}
      BY <2>2, <3>1
    <3>3. m \in 0 .. 15 /\ own \in 0 .. 15 /\ m <= own
      BY <1>1, <2>1, <3>1, <3>2
    <3>4. ~(m < own)
      <4>1. Nested(controller)
        BY DEF InService
      <4> QED BY <1>2, <2>1, <2>3, <3>1, <3>2, <4>1 DEF Nested, Frames, U
    <3> QED BY <3>2, <3>3, <3>4
  <2> QED BY <2>1, <2>2, <2>3
<1>5. \A s \in pic'.isr, i \in DOMAIN stack : s \in U(i) => s \in V(i)
  BY <1>3, <1>4
<1> HIDE DEF U, V
<1>6. Covered'
  <2>1. \A s \in pic'.isr : \E i \in DOMAIN stack : s \in V(i)
    BY <1>4, <1>5 DEF InService, Covered, Frames, U
  <2> QED BY <1>2, <2>1 DEF Covered, Frames, V
<1>7. ASSUME NEW C, Nested(C) PROVE Nested(C)'
  <2>1. ASSUME NEW s \in pic'.isr \cap C, NEW t \in pic'.isr \cap C, s < t, NEW j \in DOMAIN stack, t \in V(j)
        PROVE  \E i \in DOMAIN stack : i < j /\ s \in V(i)
    BY <1>3, <1>4, <1>5, <1>7, <2>1 DEF Nested, Frames, U
  <2> QED BY <1>2, <2>1 DEF Nested, Frames, V
<1>8. Exact'
  <2>1. ASSUME ~stray'
        PROVE  /\ \A i \in DOMAIN stack : V(i) \subseteq pic'.isr
               /\ \A i, j \in DOMAIN stack : V(i) \cap V(j) # {} => i = j
    <3>1. /\ \A i \in DOMAIN stack : U(i) \subseteq pic.isr
          /\ \A i, j \in DOMAIN stack : U(i) \cap U(j) # {} => i = j
      BY <2>1 DEF InService, Exact, Frames, U
    <3>2. \A i, j \in DOMAIN stack : V(i) \cap V(j) # {} => i = j
      BY <1>3, <3>1
    <3>3. CASE stack[1].line = NoLine
      <4>1. pic'.isr = pic.isr
        BY <1>4, <2>1, <3>3
      <4> QED BY <1>3, <3>1, <3>2, <4>1
    <3>4. CASE stack[1].line # NoLine
      <4>1. own \in U(1)
        BY <3>4 DEF U
      <4>2. pic'.isr = pic.isr \ {own}
        BY <1>2, <1>4, <3>1, <4>1
      <4>3. \A i \in DOMAIN stack : own \notin V(i)
        BY <1>2, <1>3, <3>1, <4>1
      <4> QED BY <1>3, <3>1, <3>2, <4>2, <4>3
    <3> QED BY <3>3, <3>4
  <2> QED BY <1>2, <2>1 DEF Exact, Frames, V
<1> QED BY <1>6, <1>7, <1>8 DEF InService

\* A handler is entered, of a line above all that are in service or of none.
LEMMA PushKeeps ==
  ASSUME InService, NEW f \in FrameType, stack' = <<f>> \o stack, stray' = stray,
         pic'.isr = pic.isr \cup Unacknowledged(f), Unacknowledged(f) \subseteq Nat,
         Unacknowledged(f) \cap pic.isr = {},
         \A C \in {Master, Slave} : \A u \in Unacknowledged(f) \cap C :
           /\ \A s \in pic.isr \cap C : u < s
           /\ \A v \in Unacknowledged(f) \cap C : v = u
  PROVE  Covered' /\ Nested(Master)' /\ Nested(Slave)' /\ Exact'
<1>0. /\ stack \in Seq(FrameType) /\ pic.isr \in SUBSET (0 .. 15)
  BY DEF InService, Types
<1>1. DOMAIN stack \subseteq Nat \ {0} /\ pic'.isr \subseteq Nat
  <2>1. \A s \in Seq(FrameType) : DOMAIN s = 1 .. Len(s) /\ Len(s) \in Nat
    OBVIOUS
  <2>2. DOMAIN stack \subseteq Nat \ {0}
    BY <1>0, <2>1
  <2>3. pic'.isr \subseteq Nat
    BY <1>0
  <2> QED BY <2>2, <2>3
<1>2. /\ 1 \in DOMAIN stack' /\ stack'[1] = f
      /\ \A i \in DOMAIN stack : i + 1 \in DOMAIN stack' /\ stack'[i + 1] = stack[i]
      /\ \A i \in DOMAIN stack' : i # 1 => i - 1 \in DOMAIN stack /\ i = (i - 1) + 1 /\ stack'[i] = stack[i - 1]
  BY <1>0, Pushed
<1> DEFINE U(i) == Unacknowledged(stack[i])
           V(i) == Unacknowledged(stack'[i])
           F == Unacknowledged(f)
<1>3. /\ V(1) = F
      /\ \A i \in DOMAIN stack : V(i + 1) = U(i)
      /\ \A i \in DOMAIN stack' : i # 1 => V(i) = U(i - 1)
  BY <1>2
<1> HIDE DEF U, V, F
<1>4. Covered'
  <2>1. ASSUME NEW s \in pic'.isr PROVE \E i \in DOMAIN stack' : s \in V(i)
    <3>1. CASE s \in F
      BY <1>2, <1>3, <3>1
    <3>2. CASE s \in pic.isr
      <4>1. PICK i \in DOMAIN stack : s \in U(i)
        BY <3>2 DEF InService, Covered, Frames, U
      <4> QED BY <1>2, <1>3, <4>1
    <3> QED BY <3>1, <3>2 DEF F
  <2> QED BY <2>1 DEF Covered, Frames, V
<1>5. ASSUME NEW C \in {Master, Slave}, Nested(C) PROVE Nested(C)'
  <2>1. ASSUME NEW s \in pic'.isr \cap C, NEW t \in pic'.isr \cap C, s < t,
               NEW j \in DOMAIN stack', t \in V(j)
        PROVE  \E i \in DOMAIN stack' : i < j /\ s \in V(i)
    <3>1. t \in pic.isr
      <4>1. t \in F => s \in pic.isr \/ s = t
        BY DEF F
      <4>2. t \in F /\ s \in pic.isr => t < s
        BY DEF F
      <4>3. s \in Nat /\ t \in Nat
        BY <1>1
      <4> QED BY <2>1, <4>1, <4>2, <4>3 DEF F
    <3>2. j # 1 /\ j - 1 \in DOMAIN stack /\ t \in U(j - 1)
      BY <1>2, <1>3, <2>1, <3>1 DEF F
    <3>3. CASE s \in F
      <4>1. 1 < j
        BY <1>1, <3>2
      <4> QED BY <1>2, <1>3, <3>3, <4>1
    <3>4. CASE s \in pic.isr
      <4>1. PICK i \in DOMAIN stack : i < j - 1 /\ s \in U(i)
        BY <1>5, <2>1, <3>1, <3>2, <3>4 DEF Nested, Frames, U
      <4> QED BY <1>1, <1>2, <1>3, <3>2, <4>1
    <3> QED BY <3>3, <3>4 DEF F
  <2> QED BY <2>1 DEF Nested, Frames, V
<1>6. Exact'
  <2>1. ASSUME ~stray'
        PROVE  /\ \A i \in DOMAIN stack' : V(i) \subseteq pic'.isr
               /\ \A i, j \in DOMAIN stack' : V(i) \cap V(j) # {} => i = j
    <3>1. /\ \A i \in DOMAIN stack : U(i) \subseteq pic.isr
          /\ \A i, j \in DOMAIN stack : U(i) \cap U(j) # {} => i = j
      BY <2>1 DEF InService, Exact, Frames, U
    <3>2. \A i \in DOMAIN stack' : V(i) \subseteq pic'.isr
      BY <1>2, <1>3, <3>1 DEF F
    <3>3. ASSUME NEW i \in DOMAIN stack', NEW j \in DOMAIN stack', V(i) \cap V(j) # {} PROVE i = j
      <4>1. CASE i # 1 /\ j # 1
        <5>1. i - 1 = j - 1
          BY <1>2, <1>3, <3>1, <3>3, <4>1
        <5> QED BY <1>2, <4>1, <5>1
      <4>2. CASE i = 1 \/ j = 1
        <5>1. \A k \in DOMAIN stack' : k # 1 => V(k) \cap F = {}
          BY <1>2, <1>3, <3>1 DEF F
        <5> QED BY <1>3, <3>3, <4>2, <5>1
      <4> QED BY <4>1, <4>2
    <3> QED BY <3>2, <3>3
  <2> QED BY <2>1 DEF Exact, Frames, V
<1> QED BY <1>4, <1>5, <1>6 DEF InService

\* Nothing happens that the controllers and the handlers' lines depend on.
LEMMA SameKeeps ==
  ASSUME InService, pic'.isr = pic.isr, stray' = stray, DOMAIN stack' = DOMAIN stack,
         \A i \in DOMAIN stack : Unacknowledged(stack'[i]) = Unacknowledged(stack[i])
  PROVE  Covered' /\ Nested(Master)' /\ Nested(Slave)' /\ Exact'
<1> DEFINE U(i) == Unacknowledged(stack[i])
           V(i) == Unacknowledged(stack'[i])
<1>1. \A i \in DOMAIN stack : V(i) = U(i)
  OBVIOUS
<1> HIDE DEF U, V
<1>2. Covered'
  <2>1. \A s \in pic'.isr : \E i \in DOMAIN stack' : s \in V(i)
    BY <1>1 DEF InService, Covered, Frames, U
  <2> QED BY <2>1 DEF Covered, Frames, V
<1>3. ASSUME NEW C, Nested(C) PROVE Nested(C)'
  <2>1. \A s, t \in pic'.isr \cap C : s < t =>
          \A j \in DOMAIN stack' : t \in V(j) => \E i \in DOMAIN stack' : i < j /\ s \in V(i)
    BY <1>1, <1>3 DEF Nested, Frames, U
  <2> QED BY <2>1 DEF Nested, Frames, V
<1>4. Exact'
  <2>1. ~stray' => /\ \A i \in DOMAIN stack' : V(i) \subseteq pic'.isr
                   /\ \A i, j \in DOMAIN stack' : V(i) \cap V(j) # {} => i = j
    BY <1>1 DEF InService, Exact, Frames, U
  <2> QED BY <2>1 DEF Exact, Frames, V
<1> QED BY <1>2, <1>3, <1>4 DEF InService

\* A handler returns, with nothing left to acknowledge; with the last one any
\* line it ended for another is forgotten.
LEMMA PopKeeps ==
  ASSUME InService, stack # <<>>, stack' = Tail(stack), pic'.isr = pic.isr,
         stray' = (stray /\ Tail(stack) # <<>>), Unacknowledged(stack[1]) = {}
  PROVE  Covered' /\ Nested(Master)' /\ Nested(Slave)' /\ Exact'
<1>1. stack \in Seq(FrameType)
  BY DEF InService, Types
<1>2. /\ 1 \in DOMAIN stack
      /\ \A i \in DOMAIN stack' : i + 1 \in DOMAIN stack /\ stack'[i] = stack[i + 1]
      /\ \A i \in DOMAIN stack : i # 1 => i - 1 \in DOMAIN stack' /\ i = (i - 1) + 1
      /\ DOMAIN stack' \subseteq Nat /\ DOMAIN stack \subseteq Nat \ {0}
  BY <1>1, Popped
<1> DEFINE U(i) == Unacknowledged(stack[i])
           V(i) == Unacknowledged(stack'[i])
<1>3. /\ U(1) = {}
      /\ \A i \in DOMAIN stack' : V(i) = U(i + 1)
      /\ \A i \in DOMAIN stack : i # 1 => U(i) = V(i - 1)
  BY <1>2
<1> HIDE DEF U, V
<1>4. Covered'
  <2>1. ASSUME NEW s \in pic'.isr PROVE \E i \in DOMAIN stack' : s \in V(i)
    <3>1. PICK i \in DOMAIN stack : s \in U(i)
      BY DEF InService, Covered, Frames, U
    <3> QED BY <1>2, <1>3, <3>1
  <2> QED BY <2>1 DEF Covered, Frames, V
<1>5. ASSUME NEW C, Nested(C) PROVE Nested(C)'
  <2>1. ASSUME NEW s \in pic'.isr \cap C, NEW t \in pic'.isr \cap C, s < t,
               NEW j \in DOMAIN stack', t \in V(j)
        PROVE  \E i \in DOMAIN stack' : i < j /\ s \in V(i)
    <3>1. j + 1 \in DOMAIN stack /\ t \in U(j + 1)
      BY <1>2, <1>3, <2>1
    <3>2. PICK i \in DOMAIN stack : i < j + 1 /\ s \in U(i)
      BY <1>5, <2>1, <3>1 DEF Nested, Frames, U
    <3> QED BY <1>2, <1>3, <3>2
  <2> QED BY <2>1 DEF Nested, Frames, V
<1>6. Exact'
  <2>1. ASSUME ~stray'
        PROVE  /\ \A i \in DOMAIN stack' : V(i) \subseteq pic'.isr
               /\ \A i, j \in DOMAIN stack' : V(i) \cap V(j) # {} => i = j
    <3>1. CASE stray
      <4>1. Tail(stack) = <<>>
        BY <2>1, <3>1, Zenon
      <4>2. DOMAIN stack' = {}
        BY <4>1
      <4> QED BY <4>2
    <3>2. CASE ~stray
      <4>1. /\ \A i \in DOMAIN stack : U(i) \subseteq pic.isr
            /\ \A i, j \in DOMAIN stack : U(i) \cap U(j) # {} => i = j
        BY <3>2 DEF InService, Exact, Frames, U
      <4>2. ASSUME NEW i \in DOMAIN stack', NEW j \in DOMAIN stack', V(i) \cap V(j) # {} PROVE i = j
        <5>1. i + 1 = j + 1
          BY <1>2, <1>3, <4>1, <4>2
        <5> QED BY <1>2, <5>1
      <4> QED BY <1>2, <1>3, <4>1, <4>2
    <3> QED BY <3>1, <3>2 DEF InService, Types
  <2> QED BY <2>1 DEF Exact, Frames, V
<1> QED BY <1>4, <1>5, <1>6 DEF InService
-----------------------------------------------------------------------------
(* The steps.                                                              *)

\* An interrupt is delivered.
LEMMA DeliverKeepsInService ==
  ASSUME InService, Deliver
  PROVE  InService'
<1>1. PICK line \in Deliverable :
        /\ Push(VectorOf(line), line)
        /\ pic' = [pic EXCEPT !.irr = @ \ {line}, !.isr = @ \cup {line, Cascade(line)}]
        /\ taken' = IF line = 0 THEN taken + 1 ELSE taken
        /\ UNCHANGED <<idt, ticks, budget, stray>>
  BY DEF Deliver
<1>2. /\ pic \in [offset1 : Nat, offset2 : Nat, irr : SUBSET Lines, isr : SUBSET (0 .. 15)]
      /\ stack \in Seq(FrameType) /\ enabled \in BOOLEAN /\ taken \in Nat
  BY DEF InService, Types
<1>3. line \in Lines /\ line \in 0 .. 15 /\ line # 2 /\ line # NoLine
  <2>1. line \in pic.irr /\ pic.irr \subseteq Lines
    BY <1>1, <1>2 DEF Deliverable
  <2>2. Lines \subseteq (0 .. 15) \ {2}
    BY InterruptsAssumption
  <2>3. line \in Lines /\ line \in 0 .. 15 /\ line # 2
    BY <2>1, <2>2, Zenon
  <2>4. line # -1
    BY <2>3
  <2> QED BY <2>3, <2>4 DEF NoLine
<1>4. PICK vector \in Nat : vector = VectorOf(line)
  BY <1>2, <1>3 DEF VectorOf, Slave
<1>5. /\ pic.offset1 = 32 /\ pic.offset2 = 40 /\ vector \in DOMAIN idt
  <2>1. vector \in DOMAIN idt
    BY <1>1, <1>4 DEF Push
  <2>2. DOMAIN <<>> = {}
    OBVIOUS
  <2> QED BY <2>1, <2>2 DEF InService, Types
<1> DEFINE f == [vector |-> vector, line |-> line, enabled |-> enabled,
                 pc |-> IF vector = TIMER THEN "tick" ELSE "ack"]
<1>6. stack' = <<f>> \o stack /\ enabled' \in BOOLEAN
  BY <1>1, <1>4 DEF Push
<1>7. /\ f \in FrameType /\ FrameOK(f)
      /\ f.line = line /\ f.pc \in {"tick", "ack"}
  <2>1. f \in FrameType /\ f.line = line /\ f.vector = vector /\ f.pc \in {"tick", "ack"}
        /\ (f.pc = "tick" => vector = TIMER)
    BY <1>2, <1>3, <1>4 DEF FrameType
  <2>2. /\ line \in Slave => vector = 40 + line - 8
        /\ line \notin Slave => vector = 32 + line
    BY <1>4, <1>5 DEF VectorOf
  <2>3. (vector >= 40 <=> line \in Slave) /\ (vector = TIMER => line = 0)
    BY <1>3, <2>2 DEF Slave, TIMER
  <2> HIDE DEF f
  <2> QED BY <1>3, <2>1, <2>3 DEF FrameOK
<1> HIDE DEF f
<1>8. Unacknowledged(f) = {line, Cascade(line)}
  BY <1>3, <1>7, ToAcknowledge
<1>9. /\ Cascade(line) \in Master /\ (line \in Slave \/ line = Cascade(line))
  BY <1>3 DEF Cascade, Master, Slave
<1>10. /\ \A s \in pic.isr \cap Master : Cascade(line) < s
       /\ line \in Slave => \A s \in pic.isr \cap Slave : line < s
  BY <1>1 DEF Deliverable
<1>11. Covered' /\ Nested(Master)' /\ Nested(Slave)' /\ Exact'
  <2>1. pic'.isr = pic.isr \cup {line, Cascade(line)}
    BY <1>1, <1>2
  <2>2. {line, Cascade(line)} \cap pic.isr = {} /\ {line, Cascade(line)} \subseteq Nat
    BY <1>3, <1>9, <1>10 DEF Master, Slave
  <2>3. ASSUME NEW C \in {Master, Slave}, NEW u \in {line, Cascade(line)} \cap C
        PROVE  (\A s \in pic.isr \cap C : u < s) /\ \A v \in {line, Cascade(line)} \cap C : v = u
    BY <1>3, <1>9, <1>10 DEF Master, Slave
  <2> QED BY <1>1, <1>6, <1>7, <1>8, <2>1, <2>2, <2>3, PushKeeps
<1>12. Types'
  <2>1. stack' \in Seq(FrameType) /\ \A i \in DOMAIN stack' : FrameOK(stack'[i])
    BY <1>2, <1>6, <1>7, Pushed DEF InService, Types, Frames
  <2>2. pic' \in [offset1 : Nat, offset2 : Nat, irr : SUBSET Lines, isr : SUBSET (0 .. 15)]
        /\ pic'.offset1 = pic.offset1 /\ pic'.offset2 = pic.offset2
    <3>1. {line, Cascade(line)} \subseteq 0 .. 15
      BY <1>3, <1>9 DEF Master
    <3>2. PICK added \in SUBSET (0 .. 15) : added = {line, Cascade(line)}
      BY <3>1
    <3>3. pic' = [pic EXCEPT !.irr = pic.irr \ {line}, !.isr = pic.isr \cup added]
      BY <1>1, <3>2
    <3> QED BY <1>2, <3>3
  <2>3. taken' \in Nat
    BY <1>1, <1>2
  <2> QED BY <1>1, <1>6, <2>1, <2>2, <2>3 DEF InService, Types, Frames
<1> QED BY <1>11, <1>12 DEF InService

\* A handler that no line brings in: of a non-maskable interrupt, or of yield.
LEMMA EnterKeepsInService ==
  ASSUME InService, NonMaskable \/ yield
  PROVE  InService'
<1>1. PICK vector \in {NMI, TIMER} : Push(vector, NoLine)
  BY DEF NonMaskable, yield
<1>2. /\ UNCHANGED <<pic, idt, ticks, stray>> /\ taken' \in {taken, taken + 1}
      /\ \/ budget.nmis > 0 /\ budget' = [budget EXCEPT !.nmis = @ - 1]
         \/ budget.yields > 0 /\ budget' = [budget EXCEPT !.yields = @ - 1]
  BY DEF NonMaskable, yield
<1>3. /\ stack \in Seq(FrameType) /\ enabled \in BOOLEAN /\ taken \in Nat
  BY DEF InService, Types
<1> DEFINE f == [vector |-> vector, line |-> NoLine, enabled |-> enabled,
                 pc |-> IF vector = TIMER THEN "tick" ELSE "ack"]
<1>4. stack' = <<f>> \o stack /\ enabled' \in BOOLEAN
  BY <1>1 DEF Push
<1>5. f \in FrameType /\ f.line = NoLine
  BY <1>3 DEF FrameType, NMI, TIMER
<1>6. FrameOK(f)
  BY DEF FrameOK, NMI, TIMER, NoLine
<1> HIDE DEF f
<1>7. Unacknowledged(f) = {}
  BY <1>5, ToAcknowledge
<1>8. Covered' /\ Nested(Master)' /\ Nested(Slave)' /\ Exact'
  BY <1>2, <1>4, <1>5, <1>7, PushKeeps
<1>9. Types'
  <2>1. stack' \in Seq(FrameType) /\ \A i \in DOMAIN stack' : FrameOK(stack'[i])
    BY <1>3, <1>4, <1>5, <1>6, Pushed DEF InService, Types, Frames
  <2>2. /\ budget'.yields \in 0 .. MaxYields /\ budget'.nmis \in 0 .. MaxNmis
        /\ budget' \in [requests : [Lines -> Nat], nmis : Nat, yields : Nat]
    <3>1. /\ budget.yields \in 0 .. MaxYields /\ budget.nmis \in 0 .. MaxNmis
          /\ budget \in [requests : [Lines -> Nat], nmis : Nat, yields : Nat]
          /\ MaxYields \in Nat /\ MaxNmis \in Nat
      BY InterruptsAssumption DEF InService, Types
    <3>2. CASE budget.nmis > 0 /\ budget' = [budget EXCEPT !.nmis = @ - 1]
      BY <3>1, <3>2
    <3>3. CASE budget.yields > 0 /\ budget' = [budget EXCEPT !.yields = @ - 1]
      BY <3>1, <3>3
    <3> QED BY <1>2, <3>2, <3>3
  <2>3. taken' \in Nat
    BY <1>2, <1>3
  <2> QED BY <1>2, <1>4, <2>1, <2>2, <2>3 DEF InService, Types, Frames
<1> QED BY <1>8, <1>9 DEF InService

\* A handler goes from one of its steps to the next.
LEMMA ResumeTypes ==
  ASSUME InService, NEW p \in {"count", "ack", "ack1", "return"}, stack # <<>>,
         Resume(p), p = "count" => stack[1].pc = "tick"
  PROVE  /\ stack' = <<[stack[1] EXCEPT !.pc = p]>> \o Tail(stack)
         /\ [stack[1] EXCEPT !.pc = p] \in FrameType
         /\ stack' \in Seq(FrameType) /\ DOMAIN stack' = DOMAIN stack /\ 1 \in DOMAIN stack
         /\ stack[1] \in FrameType /\ FrameOK(stack[1])
         /\ stack'[1] = [stack[1] EXCEPT !.pc = p]
         /\ \A i \in DOMAIN stack : i # 1 => stack'[i] = stack[i]
         /\ \A i \in DOMAIN stack' : FrameOK(stack'[i])
<1>1. stack \in Seq(FrameType) /\ \A i \in DOMAIN stack : FrameOK(stack[i])
  BY DEF InService, Types, Frames
<1>2. Head(stack) = stack[1] /\ stack[1] \in FrameType /\ 1 \in DOMAIN stack
  BY <1>1, Popped
<1> DEFINE g == [stack[1] EXCEPT !.pc = p]
<1>3. stack' = <<g>> \o Tail(stack)
  BY <1>2 DEF Resume, Frame
<1>4. g \in FrameType /\ FrameOK(g)
  BY <1>1, <1>2 DEF FrameType, FrameOK
<1> HIDE DEF g
<1>5. /\ stack' \in Seq(FrameType) /\ DOMAIN stack' = DOMAIN stack /\ stack'[1] = g
      /\ \A i \in DOMAIN stack : i # 1 => stack'[i] = stack[i]
  BY <1>1, <1>3, <1>4, Resumed
<1> QED BY <1>1, <1>2, <1>3, <1>4, <1>5 DEF g

\* The steps of the tick, before anything is acknowledged.
LEMMA TickKeepsInService ==
  ASSUME InService, system_tick \/ CountTick
  PROVE  InService'
<1>1. /\ stack # <<>> /\ UNCHANGED <<pic, idt, enabled, taken, budget, stray>>
      /\ ticks' \in {ticks, (ticks + 1) % TickModulus}
  BY DEF system_tick, CountTick, Running
<1>2. ticks' \in 0 .. TickModulus - 1
  BY <1>1, InterruptsAssumption DEF InService, Types
<1>3. CASE UNCHANGED stack
  <2>1. Covered' /\ Nested(Master)' /\ Nested(Slave)' /\ Exact'
    BY <1>1, <1>3, SameKeeps
  <2> QED BY <1>1, <1>2, <1>3, <2>1 DEF InService, Types, Frames
<1>4. ASSUME NEW p \in {"count", "ack"}, Resume(p), stack[1].pc \in {"tick", "count"},
             p = "count" => stack[1].pc = "tick"
      PROVE  InService'
  <2>1. /\ stack' \in Seq(FrameType) /\ DOMAIN stack' = DOMAIN stack
        /\ stack[1] \in FrameType /\ stack'[1] = [stack[1] EXCEPT !.pc = p] /\ stack'[1] \in FrameType
        /\ \A i \in DOMAIN stack : i # 1 => stack'[i] = stack[i]
        /\ \A i \in DOMAIN stack' : FrameOK(stack'[i])
    BY <1>1, <1>4, ResumeTypes
  <2>2. Unacknowledged(stack'[1]) = Unacknowledged(stack[1])
    <3>1. stack'[1].line = stack[1].line /\ stack'[1].pc = p
      BY <2>1 DEF FrameType
    <3>2. CASE stack[1].line = NoLine
      <4>1. Unacknowledged(stack[1]) = {} /\ Unacknowledged(stack'[1]) = {}
        BY <2>1, <3>1, <3>2, ToAcknowledge
      <4> QED BY <4>1
    <3>3. CASE stack[1].line # NoLine
      <4>1. Unacknowledged(stack[1]) = {stack[1].line, Cascade(stack[1].line)}
        BY <1>4, <2>1, <3>3, ToAcknowledge
      <4>2. Unacknowledged(stack'[1]) = {stack'[1].line, Cascade(stack'[1].line)}
        BY <2>1, <3>1, <3>3, ToAcknowledge
      <4> QED BY <3>1, <4>1, <4>2
    <3> QED BY <3>2, <3>3
  <2>3. Covered' /\ Nested(Master)' /\ Nested(Slave)' /\ Exact'
    BY <1>1, <2>1, <2>2, SameKeeps
  <2> QED BY <1>1, <1>2, <2>1, <2>3 DEF InService, Types, Frames
<1>5. stack[1] = Head(stack)
  BY <1>1, Popped DEF InService, Types
<1> QED BY <1>1, <1>3, <1>4, <1>5 DEF system_tick, CountTick, Running, Frame

\* The acknowledgements.
LEMMA AckKeepsInService ==
  ASSUME InService, AckSlave \/ AckMaster
  PROVE  InService'
<1>1. PICK p, q, controller :
        /\ \/ p = "ack" /\ q = "ack1" /\ controller = Slave
           \/ p = "ack1" /\ q = "return" /\ controller = Master
        /\ stack # <<>> /\ Frame.pc = p /\ Resume(q)
        /\ \/ p = "ack" /\ ~(Frame.vector >= 40) /\ UNCHANGED <<pic, stray>>
           \/ (p = "ack" => Frame.vector >= 40) /\ Acknowledge(controller)
        /\ UNCHANGED <<idt, enabled, ticks, taken, budget>>
  <2>1. CASE AckSlave
    BY <2>1 DEF AckSlave, Running
  <2>2. CASE AckMaster
    BY <2>2 DEF AckMaster, Running
  <2> QED BY <2>1, <2>2
<1>2. stack[1] = Frame
  BY <1>1, Popped DEF InService, Types, Frame
<1>3. /\ stack' = <<[stack[1] EXCEPT !.pc = q]>> \o Tail(stack)
      /\ stack' \in Seq(FrameType) /\ DOMAIN stack' = DOMAIN stack
      /\ stack[1] \in FrameType /\ FrameOK(stack[1])
      /\ stack'[1] = [stack[1] EXCEPT !.pc = q] /\ stack'[1] \in FrameType
      /\ \A i \in DOMAIN stack : i # 1 => stack'[i] = stack[i]
      /\ \A i \in DOMAIN stack' : FrameOK(stack'[i])
  BY <1>1, ResumeTypes
<1>4. stack'[1].line = stack[1].line /\ stack'[1].pc = q /\ stack[1].pc = p
  BY <1>1, <1>2, <1>3 DEF FrameType
<1>5. pic \in [offset1 : Nat, offset2 : Nat, irr : SUBSET Lines, isr : SUBSET (0 .. 15)]
  BY DEF InService, Types
\* A line of the first controller is acknowledged to it alone.
<1>6. CASE p = "ack" /\ ~(Frame.vector >= 40) /\ UNCHANGED <<pic, stray>>
  <2>1. Unacknowledged(stack'[1]) = Unacknowledged(stack[1])
    <3>1. CASE stack[1].line = NoLine
      <4>1. Unacknowledged(stack[1]) = {} /\ Unacknowledged(stack'[1]) = {}
        BY <1>3, <1>4, <3>1, ToAcknowledge
      <4> QED BY <4>1
    <3>2. CASE stack[1].line # NoLine
      <4>1. p = "ack" /\ q = "ack1" /\ stack[1].line \notin Slave
        BY <1>1, <1>2, <1>3, <1>6, <3>2 DEF FrameOK
      <4>2. Cascade(stack[1].line) = stack[1].line
        BY <1>3, <3>2, <4>1, ToAcknowledge
      <4>3. Unacknowledged(stack[1]) = {stack[1].line, Cascade(stack[1].line)}
        BY <1>3, <1>4, <3>2, <4>1, ToAcknowledge
      <4>4. Unacknowledged(stack'[1]) = {Cascade(stack[1].line)}
        BY <1>3, <1>4, <3>2, <4>1, ToAcknowledge
      <4> QED BY <4>2, <4>3, <4>4
    <3> QED BY <3>1, <3>2
  <2>2. Covered' /\ Nested(Master)' /\ Nested(Slave)' /\ Exact'
    BY <1>3, <1>6, <2>1, SameKeeps
  <2> QED BY <1>1, <1>3, <1>6, <2>2 DEF InService, Types, Frames
<1>7. CASE (p = "ack" => Frame.vector >= 40) /\ Acknowledge(controller)
  <2>1. /\ pic' = [pic EXCEPT !.isr = EndOfInterrupt(@, controller)]
        /\ stray' = (stray \/ (stack[1].line = NoLine /\ pic.isr \cap controller # {}))
    BY <1>2, <1>7 DEF Acknowledge
  <2>2. pic'.isr = EndOfInterrupt(pic.isr, controller)
    BY <1>5, <2>1
  <2>3. PICK own \in controller :
          /\ Unacknowledged(stack'[1]) = Unacknowledged(stack[1]) \ controller
          /\ stack[1].line = NoLine => Unacknowledged(stack[1]) = {}
          /\ stack[1].line # NoLine => Unacknowledged(stack[1]) \cap controller = {own}
    <3>1. CASE stack[1].line = NoLine
      <4>1. Unacknowledged(stack[1]) = {} /\ Unacknowledged(stack'[1]) = {}
        BY <1>3, <1>4, <3>1, ToAcknowledge
      <4>2. 8 \in Slave /\ 0 \in Master
        BY DEF Slave, Master
      <4> QED BY <1>1, <3>1, <4>1, <4>2
    <3>2. CASE stack[1].line # NoLine /\ p = "ack"
      <4>1. stack[1].line \in Slave /\ Cascade(stack[1].line) \in Master
        BY <1>2, <1>3, <1>7, <3>2, ToAcknowledge DEF FrameOK
      <4>2. /\ Unacknowledged(stack[1]) = {stack[1].line, Cascade(stack[1].line)}
            /\ Unacknowledged(stack'[1]) = {Cascade(stack[1].line)}
        BY <1>1, <1>3, <1>4, <3>2, ToAcknowledge
      <4>3. \A x \in Master : x \notin Slave
        BY DEF Master, Slave
      <4> QED BY <1>1, <3>2, <4>1, <4>2, <4>3
    <3>3. CASE stack[1].line # NoLine /\ p = "ack1"
      <4>1. Cascade(stack[1].line) \in Master
        BY <1>3, <3>3, ToAcknowledge
      <4>2. /\ Unacknowledged(stack[1]) = {Cascade(stack[1].line)}
            /\ Unacknowledged(stack'[1]) = {}
        BY <1>1, <1>3, <1>4, <3>3, ToAcknowledge
      <4> QED BY <1>1, <3>3, <4>1, <4>2
    <3> QED BY <1>1, <3>1, <3>2, <3>3
  <2>4. Covered' /\ Nested(Master)' /\ Nested(Slave)' /\ Exact'
    <3>1. controller \in {Master, Slave}
      BY <1>1
    <3>2. PICK g \in FrameType : g = stack'[1] /\ stack' = <<g>> \o Tail(stack)
      BY <1>3
    <3>3. Unacknowledged(g) = Unacknowledged(stack[1]) \ controller
      BY <2>3, <3>2
    <3> QED BY <1>1, <2>1, <2>2, <2>3, <3>1, <3>2, <3>3, AcknowledgeKeeps
  <2>5. Types'
    <3>1. PICK rest \in SUBSET (0 .. 15) : rest = EndOfInterrupt(pic.isr, controller)
      BY <1>5, EndsTheHighest
    <3>2. pic' = [pic EXCEPT !.isr = rest]
      BY <2>1, <3>1
    <3>3. /\ pic' \in [offset1 : Nat, offset2 : Nat, irr : SUBSET Lines, isr : SUBSET (0 .. 15)]
          /\ pic'.offset1 = pic.offset1 /\ pic'.offset2 = pic.offset2
      BY <1>5, <3>2
    <3>4. stray' \in BOOLEAN
      BY <2>1 DEF InService, Types
    <3> QED BY <1>1, <1>3, <3>3, <3>4 DEF InService, Types, Frames
  <2> QED BY <2>4, <2>5 DEF InService
<1> QED BY <1>1, <1>6, <1>7

\* The return to the code that was interrupted.
LEMMA ReturnKeepsInService ==
  ASSUME InService, Return
  PROVE  InService'
<1>1. /\ stack # <<>> /\ Frame.pc = "return" /\ stack' = Tail(stack) /\ enabled' = Frame.enabled
      /\ stray' = (stray /\ Tail(stack) # <<>>)
      /\ UNCHANGED <<pic, idt, ticks, taken, budget>>
  BY DEF Return, Running
<1>2. stack \in Seq(FrameType) /\ stray \in BOOLEAN
  BY DEF InService, Types
<1>3. /\ Frame = stack[1] /\ stack[1] \in FrameType /\ stack' \in Seq(FrameType)
      /\ \A i \in DOMAIN stack' : i + 1 \in DOMAIN stack /\ stack'[i] = stack[i + 1]
  BY <1>1, <1>2, Popped DEF Frame
<1>4. Unacknowledged(stack[1]) = {} /\ enabled' \in BOOLEAN
  BY <1>1, <1>3, ToAcknowledge DEF FrameType
<1>5. Covered' /\ Nested(Master)' /\ Nested(Slave)' /\ Exact'
  BY <1>1, <1>4, PopKeeps
<1>6. stray' \in BOOLEAN
  BY <1>1, Zenon
<1>7. \A i \in DOMAIN stack' : FrameOK(stack'[i])
  BY <1>3 DEF InService, Types, Frames
<1> QED BY <1>1, <1>3, <1>4, <1>5, <1>6, <1>7 DEF InService, Types, Frames

\* Booting, and the requests of the devices.
LEMMA OtherKeepsInService ==
  ASSUME InService, interrupts_initialize \/ Request \/ UNCHANGED vars
  PROVE  InService'
<1>1. pic \in [offset1 : Nat, offset2 : Nat, irr : SUBSET Lines, isr : SUBSET (0 .. 15)]
  BY DEF InService, Types
<1>2. /\ UNCHANGED <<stack, ticks, taken, stray>> /\ pic'.isr = pic.isr
      /\ pic' \in [offset1 : Nat, offset2 : Nat, irr : SUBSET Lines, isr : SUBSET (0 .. 15)]
      /\ idt' # <<>> => pic'.offset1 = 32 /\ pic'.offset2 = 40
      /\ enabled' \in BOOLEAN
      /\ budget'.yields = budget.yields /\ budget'.nmis = budget.nmis
      /\ budget' \in [requests : [Lines -> Nat], nmis : Nat, yields : Nat]
  <2>1. CASE interrupts_initialize
    BY <1>1, <2>1 DEF interrupts_initialize, pic_remap, InService, Types
  <2>2. CASE Request
    <3>1. PICK line \in Lines :
            /\ budget.requests[line] > 0
            /\ budget' = [budget EXCEPT !.requests[line] = @ - 1]
            /\ pic' = [pic EXCEPT !.irr = @ \cup {line}]
            /\ UNCHANGED <<idt, enabled, stack, ticks, halted, taken, stray>>
      BY <2>2 DEF Request
    <3>2. PICK wanted \in SUBSET Lines : wanted = pic.irr \cup {line}
      BY <1>1
    <3>3. pic' = [pic EXCEPT !.irr = wanted]
      BY <3>1, <3>2
    <3>4. /\ budget'.yields = budget.yields /\ budget'.nmis = budget.nmis
          /\ budget' \in [requests : [Lines -> Nat], nmis : Nat, yields : Nat]
      <4>1. PICK left \in [Lines -> Nat] : left = [budget.requests EXCEPT ![line] = @ - 1]
        <5>1. budget.requests \in [Lines -> Nat] /\ budget.requests[line] \in Nat
          BY DEF InService, Types
        <5>2. budget.requests[line] - 1 \in Nat
          BY <3>1, <5>1
        <5> QED BY <5>1, <5>2
      <4>2. budget' = [budget EXCEPT !.requests = left]
        BY <3>1, <4>1
      <4> QED BY <4>2 DEF InService, Types
    <3> QED BY <1>1, <3>1, <3>3, <3>4 DEF InService, Types
  <2>3. CASE UNCHANGED vars
    BY <1>1, <2>3 DEF vars, InService, Types
  <2> QED BY <2>1, <2>2, <2>3
<1>3. Covered' /\ Nested(Master)' /\ Nested(Slave)' /\ Exact'
  BY <1>2, SameKeeps
<1> QED BY <1>2, <1>3 DEF InService, Types, Frames

\* Nothing is in service at first.
LEMMA InitInService == Init => InService
<1> SUFFICES ASSUME Init PROVE InService
  OBVIOUS
<1>1. Types
  <2>1. pic \in [offset1 : Nat, offset2 : Nat, irr : SUBSET Lines, isr : SUBSET (0 .. 15)]
    BY DEF Init
  <2>2. /\ MaxNmis \in Nat /\ MaxYields \in Nat /\ MaxRequests \in [Lines -> Nat]
        /\ TickModulus \in Nat \ {0}
    BY InterruptsAssumption
  <2>3. budget.yields \in 0 .. MaxYields /\ budget.nmis \in 0 .. MaxNmis
    BY <2>2 DEF Init
  <2>4. budget \in [requests : [Lines -> Nat], nmis : Nat, yields : Nat]
    BY <2>2 DEF Init
  <2>5. stack \in Seq(FrameType) /\ DOMAIN stack = {} /\ ticks \in 0 .. TickModulus - 1
    BY <2>2 DEF Init
  <2> QED BY <2>1, <2>3, <2>4, <2>5 DEF Init, Types, Frames
<1>2. Covered /\ Nested(Master) /\ Nested(Slave) /\ Exact
  BY DEF Init, Covered, Nested, Exact, Frames
<1> QED BY <1>1, <1>2 DEF InService

\* A line is in service from its acknowledgement to its end of interrupt.
LEMMA NextKeepsInService == InService /\ [Next]_vars => InService'
  BY DeliverKeepsInService, EnterKeepsInService, TickKeepsInService, AckKeepsInService,
     ReturnKeepsInService, OtherKeepsInService DEF Next, Processor
-----------------------------------------------------------------------------
(* The ticks.                                                              *)

\* The handlers that have yet to count, when a frame is pushed.
LEMMA PendingPushed ==
  ASSUME NEW s \in Seq(FrameType), NEW f \in FrameType
  PROVE  /\ IsFiniteSet(Pending(s)) /\ Cardinality(Pending(s)) \in Nat
         /\ Cardinality(Pending(<<f>> \o s)) =
              Cardinality(Pending(s)) + IF f.pc \in {"tick", "count"} THEN 1 ELSE 0
<1> DEFINE new == <<f>> \o s
           P == Pending(s)
           Q == {i + 1 : i \in P}
<1>1. /\ 1 \in DOMAIN new /\ new[1] = f
      /\ \A i \in DOMAIN s : i + 1 \in DOMAIN new /\ new[i + 1] = s[i]
      /\ \A i \in DOMAIN new : i # 1 => i - 1 \in DOMAIN s /\ i = (i - 1) + 1 /\ new[i] = s[i - 1]
  BY Pushed
<1>2. DOMAIN s = 1 .. Len(s) /\ Len(s) \in Nat
  OBVIOUS
<1> HIDE DEF new
<1>3. P \subseteq Nat \ {0} /\ \A i \in P : i <= Len(s)
  BY <1>2 DEF Pending
<1>4. IsFiniteSet(P) /\ Cardinality(P) \in Nat
  <2> HIDE DEF P
  <2>1. IsFiniteSet(P)
    BY <1>2, <1>3, FS_BoundedSetOfNaturals
  <2> QED BY <2>1, FS_CardinalityType
<1>5. IsFiniteSet(Q) /\ Cardinality(Q) = Cardinality(P)
  <2> DEFINE h == [i \in P |-> i + 1]
  <2>1. h \in [P -> Q]
    OBVIOUS
  <2>2. \A i, j \in P : h[i] = h[j] => i = j
    BY <1>3
  <2>3. \A y \in Q : \E i \in P : h[i] = y
    OBVIOUS
  <2> HIDE DEF P, Q, h
  <2>4. h \in Bijection(P, Q)
    BY <2>1, <2>2, <2>3 DEF Bijection, Injection, Surjection, IsInjective
  <2> QED BY <1>4, <2>4, FS_Bijection DEF ExistsBijection
<1>6. 1 \notin Q
  BY <1>3
<1>7. CASE f.pc \in {"tick", "count"}
  <2>1. \A i \in Pending(new) : i = 1 \/ i \in Q
    BY <1>1 DEF Pending
  <2>2. \A i \in Q \cup {1} : i \in Pending(new)
    BY <1>1, <1>7 DEF Pending
  <2>3. Pending(new) = Q \cup {1}
    BY <2>1, <2>2
  <2> HIDE DEF P, Q
  <2>4. Cardinality(Q \cup {1}) = Cardinality(Q) + 1
    BY <1>5, <1>6, FS_AddElement
  <2> QED BY <1>4, <1>5, <1>7, <2>3, <2>4 DEF new, P
<1>8. CASE f.pc \notin {"tick", "count"}
  <2>1. \A i \in Pending(new) : i \in Q
    BY <1>1, <1>8 DEF Pending
  <2>2. \A i \in Q : i \in Pending(new)
    BY <1>1 DEF Pending
  <2>3. Pending(new) = Q
    BY <2>1, <2>2
  <2> HIDE DEF P, Q
  <2> QED BY <1>4, <1>5, <1>8, <2>3 DEF new, P
<1> QED BY <1>4, <1>7, <1>8

\* A handler goes on to its next step, and may have counted.
LEMMA PendingResumed ==
  ASSUME InService, NEW p \in {"count", "ack", "ack1", "return"}, stack # <<>>,
         Resume(p), p = "count" => stack[1].pc = "tick"
  PROVE  /\ Cardinality(Pending(stack)) \in Nat
         /\ Cardinality(Pending(stack')) =
              Cardinality(Pending(stack)) -
                IF stack[1].pc \in {"tick", "count"} /\ p # "count" THEN 1 ELSE 0
<1>1. /\ DOMAIN stack' = DOMAIN stack /\ 1 \in DOMAIN stack /\ stack[1] \in FrameType
      /\ stack'[1] = [stack[1] EXCEPT !.pc = p]
      /\ \A i \in DOMAIN stack : i # 1 => stack'[i] = stack[i]
  BY ResumeTypes
<1>2. stack'[1].pc = p
  BY <1>1 DEF FrameType
<1>3. IsFiniteSet(Pending(stack)) /\ Cardinality(Pending(stack)) \in Nat
  <2>1. stack \in Seq(FrameType)
    BY DEF InService, Types
  <2> QED BY <1>1, <2>1, PendingPushed
<1>4. CASE stack[1].pc \in {"tick", "count"} /\ p # "count"
  <2>1. Pending(stack') = Pending(stack) \ {1} /\ 1 \in Pending(stack)
    BY <1>1, <1>2, <1>4 DEF Pending
  <2> QED BY <1>3, <1>4, <2>1, FS_RemoveElement
<1>5. CASE ~(stack[1].pc \in {"tick", "count"} /\ p # "count")
  <2>1. Pending(stack') = Pending(stack)
    BY <1>1, <1>2, <1>5 DEF Pending
  <2> QED BY <1>3, <1>5, <2>1
<1> QED BY <1>3, <1>4, <1>5

\* What a step does to the ticks begun and to those not counted yet, together.
LEMMA CountIsKept ==
  ASSUME InterruptsInv, ticks' = ticks,
         taken' - Cardinality(Pending(stack')) = taken - Cardinality(Pending(stack)),
         ~TicksCanOverlap' =>
           /\ ~TicksCanOverlap /\ ~stray'
           /\ \A i \in DOMAIN stack' :
                /\ stack'[i].line # NoLine
                /\ stack'[i].pc = "count" => (ticks + 1) % TickModulus >= ticks
  PROVE  Counting'
  BY DEF InterruptsInv, Counting, Frames

\* The bounds are used up, and never given back.
LEMMA BoundsShrink ==
  ASSUME InterruptsInv, [Next]_vars
  PROVE  /\ ~TicksCanOverlap' => ~TicksCanOverlap
         /\ NonMaskable \/ yield => TicksCanOverlap'
<1>1. /\ budget.yields \in 0 .. MaxYields /\ budget.nmis \in 0 .. MaxNmis
      /\ budget \in [requests : [Lines -> Nat], nmis : Nat, yields : Nat]
      /\ MaxYields \in Nat /\ MaxNmis \in Nat
  BY InterruptsAssumption DEF InterruptsInv, InService, Types
<1>2. CASE NonMaskable
  <2>1. budget' = [budget EXCEPT !.nmis = @ - 1]
    BY <1>2 DEF NonMaskable
  <2>2. budget'.nmis = budget.nmis - 1 /\ budget'.yields = budget.yields
    BY <1>1, <2>1
  <2> QED BY <1>1, <2>2 DEF TicksCanOverlap
<1>3. CASE yield
  <2>1. budget' = [budget EXCEPT !.yields = @ - 1]
    BY <1>3 DEF yield
  <2>2. budget'.yields = budget.yields - 1 /\ budget'.nmis = budget.nmis
    BY <1>1, <2>1
  <2> QED BY <1>1, <2>2 DEF TicksCanOverlap
<1>4. CASE ~NonMaskable /\ ~yield
  <2>1. budget'.yields = budget.yields /\ budget'.nmis = budget.nmis
    <3>1. CASE Request
      <4>1. PICK line \in Lines : budget' = [budget EXCEPT !.requests[line] = @ - 1]
        BY <3>1 DEF Request
      <4> QED BY <1>1, <4>1
    <3>2. CASE ~Request
      <4>1. budget' = budget
        BY <1>4, <3>2 DEF Next, Processor, interrupts_initialize, Deliver, system_tick, CountTick,
             AckSlave, AckMaster, Return, vars
      <4> QED BY <4>1
    <3> QED BY <3>1, <3>2
  <2> QED BY <1>4, <2>1 DEF TicksCanOverlap
<1> QED BY <1>2, <1>3, <1>4

\* Entering a handler, of the timer or not.
LEMMA EnterKeepsCounting ==
  ASSUME InterruptsInv, Deliver \/ NonMaskable \/ yield
  PROVE  Counting'
<1>1. PICK vector, line :
        /\ Push(vector, line) /\ ticks' = ticks /\ stray' = stray
        /\ taken' = IF vector = TIMER THEN taken + 1 ELSE taken
        /\ vector \in Nat /\ line \in Lines \cup {NoLine}
        /\ Deliver => line # NoLine
  <2>1. CASE Deliver
    <3>1. PICK line \in Deliverable :
            /\ Push(VectorOf(line), line)
            /\ taken' = IF line = 0 THEN taken + 1 ELSE taken
            /\ UNCHANGED <<ticks, stray>>
      BY <2>1 DEF Deliver
    <3>2. line \in Lines /\ line \in 0 .. 15 /\ line # NoLine
      <4>1. line \in Lines
        BY <3>1 DEF Deliverable, InterruptsInv, InService, Types
      <4>2. line \in 0 .. 15
        BY <4>1, InterruptsAssumption, Zenon
      <4> QED BY <4>1, <4>2 DEF NoLine
    <3>3. PICK vector : vector = VectorOf(line)
      OBVIOUS
    <3>4. vector \in DOMAIN idt
      BY <3>1, <3>3 DEF Push
    <3>5. pic.offset1 = 32 /\ pic.offset2 = 40
      BY <3>4 DEF InterruptsInv, InService, Types
    <3>6. vector \in Nat /\ (vector = TIMER <=> line = 0)
      BY <3>2, <3>3, <3>5 DEF VectorOf, Slave, TIMER
    <3> QED BY <3>1, <3>2, <3>3, <3>6
  <2>2. CASE NonMaskable /\ ~Deliver
    <3>1. Push(NMI, NoLine) /\ ticks' = ticks /\ stray' = stray /\ taken' = taken
      BY <2>2 DEF NonMaskable
    <3> QED BY <2>2, <3>1 DEF NMI, TIMER
  <2>3. CASE yield /\ ~Deliver
    <3>1. Push(TIMER, NoLine) /\ ticks' = ticks /\ stray' = stray /\ taken' = taken + 1
      BY <2>3 DEF yield
    <3> QED BY <2>3, <3>1 DEF TIMER
  <2> QED BY <2>1, <2>2, <2>3
<1> DEFINE f == [vector |-> vector, line |-> line, enabled |-> enabled,
                 pc |-> IF vector = TIMER THEN "tick" ELSE "ack"]
<1>2. stack' = <<f>> \o stack
  BY <1>1 DEF Push
<1>3. /\ f \in FrameType /\ f.line = line /\ f.pc # "count"
      /\ f.pc \in {"tick", "count"} <=> vector = TIMER
  BY <1>1 DEF FrameType, InterruptsInv, InService, Types
<1> HIDE DEF f
<1>4. stack \in Seq(FrameType) /\ taken \in Nat
  BY DEF InterruptsInv, InService, Types
<1>5. taken' - Cardinality(Pending(stack')) = taken - Cardinality(Pending(stack))
  <2>1. PICK n \in Nat : n = Cardinality(Pending(stack))
    BY <1>3, <1>4, PendingPushed
  <2>2. Cardinality(Pending(stack')) = n + IF vector = TIMER THEN 1 ELSE 0
    BY <1>2, <1>3, <1>4, <2>1, PendingPushed
  <2> QED BY <1>1, <1>4, <2>1, <2>2
<1>6. ASSUME ~TicksCanOverlap'
      PROVE  /\ ~TicksCanOverlap /\ ~stray'
             /\ \A i \in DOMAIN stack' :
                  /\ stack'[i].line # NoLine
                  /\ stack'[i].pc = "count" => (ticks + 1) % TickModulus >= ticks
  <2>1. ~TicksCanOverlap /\ Deliver
    BY <1>6, BoundsShrink DEF Next, Processor
  <2>2. /\ ~stray
        /\ \A i \in DOMAIN stack :
             /\ stack[i].line # NoLine
             /\ stack[i].pc = "count" => (ticks + 1) % TickModulus >= ticks
    BY <2>1 DEF InterruptsInv, Counting, Frames
  <2>3. /\ stack'[1] = f
        /\ \A i \in DOMAIN stack' : i # 1 => i - 1 \in DOMAIN stack /\ stack'[i] = stack[i - 1]
    BY <1>2, <1>3, <1>4, Pushed
  <2> QED BY <1>1, <1>3, <2>1, <2>2, <2>3
<1> QED BY <1>1, <1>5, <1>6, CountIsKept

\* Between the ticks' two steps, and in the acknowledgements, nothing is counted.
LEMMA ResumeKeepsCounting ==
  ASSUME InterruptsInv, system_tick \/ AckSlave \/ AckMaster
  PROVE  Counting'
<1>1. ~TicksCanOverlap' => ~TicksCanOverlap
  BY BoundsShrink DEF Next, Processor
<1>2. /\ stack # <<>> /\ ticks' = ticks /\ taken' = taken
      /\ \/ UNCHANGED <<stack, stray>>
         \/ /\ Frame.pc = "tick" /\ Resume("count") /\ stray' = stray
            /\ ~((ticks + 1) % TickModulus < ticks)
         \/ /\ Frame.pc \in {"ack", "ack1"}
            /\ Resume("ack1") \/ Resume("return")
            /\ stray' = stray \/ \E c : Acknowledge(c)
  BY DEF system_tick, AckSlave, AckMaster, Running
<1>3. Frame = stack[1] /\ 1 \in DOMAIN stack
  BY <1>2, Popped DEF Frame, InterruptsInv, InService, Types
<1>4. CASE UNCHANGED <<stack, stray>>
  BY <1>1, <1>2, <1>4, CountIsKept DEF InterruptsInv, Counting, Frames
<1>5. ASSUME NEW p \in {"count", "ack1", "return"}, Resume(p),
             p = "count" => stack[1].pc = "tick" /\ ~((ticks + 1) % TickModulus < ticks),
             p # "count" => stack[1].pc \in {"ack", "ack1"},
             stray' = stray \/ \E c : Acknowledge(c)
      PROVE  Counting'
  <2>1. Cardinality(Pending(stack)) \in Nat /\ Cardinality(Pending(stack')) = Cardinality(Pending(stack))
    BY <1>2, <1>5, PendingResumed DEF InterruptsInv
  <2>2. /\ DOMAIN stack' = DOMAIN stack /\ stack[1] \in FrameType
        /\ stack'[1] = [stack[1] EXCEPT !.pc = p]
        /\ \A i \in DOMAIN stack : i # 1 => stack'[i] = stack[i]
    BY <1>2, <1>5, ResumeTypes DEF InterruptsInv
  <2>3. stack'[1].pc = p /\ stack'[1].line = stack[1].line
    BY <2>2 DEF FrameType
  <2>4. p = "count" => (ticks + 1) % TickModulus >= ticks
    BY <1>5, InterruptsAssumption DEF InterruptsInv, InService, Types
  <2>5. ASSUME ~TicksCanOverlap PROVE ~stray'
    <3>1. ~stray /\ Frame.line # NoLine
      BY <1>3, <2>5 DEF InterruptsInv, Counting, Frames
    <3> QED BY <1>5, <3>1 DEF Acknowledge
  <2>6. ~TicksCanOverlap =>
          \A i \in DOMAIN stack :
                /\ stack[i].line # NoLine
                /\ stack[i].pc = "count" => (ticks + 1) % TickModulus >= ticks
    BY DEF InterruptsInv, Counting, Frames
  <2>7. ~TicksCanOverlap' =>
          \A i \in DOMAIN stack' :
                /\ stack'[i].line # NoLine
                /\ stack'[i].pc = "count" => (ticks + 1) % TickModulus >= ticks
    BY <1>1, <1>3, <2>2, <2>3, <2>4, <2>6
  <2> QED BY <1>1, <1>2, <2>1, <2>5, <2>7, CountIsKept
<1> QED BY <1>2, <1>3, <1>4, <1>5

\* The tick is counted: the handler that found room still has it, unless
\* another one counted in between.
LEMMA CountKeepsCounting ==
  ASSUME InterruptsInv, CountTick
  PROVE  Counting' /\ (ticks' < ticks => TicksCanOverlap)
<1>1. /\ stack # <<>> /\ Frame.pc = "count" /\ ticks' = (ticks + 1) % TickModulus
      /\ Resume("ack") /\ taken' = taken /\ stray' = stray
  BY DEF CountTick, Running
<1>2. Frame = stack[1] /\ 1 \in DOMAIN stack
  BY <1>1, Popped DEF Frame, InterruptsInv, InService, Types
<1>3. /\ stack \in Seq(FrameType) /\ taken \in Nat /\ ticks \in Nat /\ TickModulus \in Nat \ {0}
  BY InterruptsAssumption DEF InterruptsInv, InService, Types
<1>4. (taken' - Cardinality(Pending(stack'))) % TickModulus = ticks'
  <2>1. PICK n \in Nat : n = Cardinality(Pending(stack))
    BY <1>1, <1>2, PendingResumed DEF InterruptsInv
  <2>2. Cardinality(Pending(stack')) = n - 1
    BY <1>1, <1>2, <2>1, PendingResumed DEF InterruptsInv
  <2>3. (taken - n) % TickModulus = ticks
    BY <2>1 DEF InterruptsInv, Counting
  <2>4. PICK x \in Int : x = taken - n
    BY <1>3
  <2>5. taken' - Cardinality(Pending(stack')) = x + 1
    BY <1>1, <1>3, <2>2, <2>4
  <2>6. (x + 1) % TickModulus = (ticks + 1) % TickModulus
    BY <1>3, <2>3, <2>4, RemainderOfSuccessor
  <2> QED BY <1>1, <2>5, <2>6
<1>5. ASSUME ~TicksCanOverlap
      PROVE  /\ ticks' >= ticks /\ ~stray
             /\ \A i \in DOMAIN stack : /\ stack[i].line # NoLine
                                        /\ stack[i].pc = "count" => i = 1
  <2>1. /\ ~stray
        /\ \A i \in DOMAIN stack :
             /\ stack[i].line # NoLine
             /\ stack[i].pc = "count" => (ticks + 1) % TickModulus >= ticks
    BY <1>5 DEF InterruptsInv, Counting, Frames
  <2>2. \A i, j \in DOMAIN stack :
          Unacknowledged(stack[i]) \cap Unacknowledged(stack[j]) # {} => i = j
    BY <2>1 DEF InterruptsInv, InService, Exact, Frames
  <2>3. ASSUME NEW i \in DOMAIN stack, stack[i].pc = "count"
        PROVE  0 \in Unacknowledged(stack[i])
    <3>1. stack[i] \in FrameType /\ FrameOK(stack[i])
      BY <1>3 DEF InterruptsInv, InService, Types, Frames
    <3>2. stack[i].line = 0
      BY <2>1, <2>3, <3>1 DEF FrameOK
    <3> QED BY <2>1, <2>3, <3>1, <3>2, ToAcknowledge
  <2> QED BY <1>1, <1>2, <2>1, <2>2, <2>3
<1>6. ~TicksCanOverlap' => ~TicksCanOverlap
  BY BoundsShrink DEF Next, Processor
<1>7. ~TicksCanOverlap' =>
        /\ ~stray'
        /\ \A i \in DOMAIN stack' : stack'[i].line # NoLine /\ stack'[i].pc # "count"
  <2>1. /\ DOMAIN stack' = DOMAIN stack /\ stack[1] \in FrameType
        /\ stack'[1] = [stack[1] EXCEPT !.pc = "ack"]
        /\ \A i \in DOMAIN stack : i # 1 => stack'[i] = stack[i]
    BY <1>1, <1>2, ResumeTypes DEF InterruptsInv
  <2>2. stack'[1].pc = "ack" /\ stack'[1].line = stack[1].line
    BY <2>1 DEF FrameType
  <2>3. ASSUME ~TicksCanOverlap', NEW i \in DOMAIN stack'
        PROVE  stack'[i].line # NoLine /\ stack'[i].pc # "count"
    <3>1. CASE i = 1
      BY <1>2, <1>5, <1>6, <2>2, <2>3, <3>1
    <3>2. CASE i # 1
      BY <1>5, <1>6, <2>1, <2>3, <3>2
    <3> QED BY <3>1, <3>2
  <2>4. ~TicksCanOverlap' => ~stray'
    BY <1>1, <1>5, <1>6
  <2> QED BY <2>3, <2>4
<1>8. Counting'
  BY <1>4, <1>7 DEF Counting, Frames
<1>9. ticks' \in Nat
  BY <1>1, <1>3
<1> QED BY <1>3, <1>5, <1>8, <1>9

\* A return, and what does not touch the stack.
LEMMA OtherKeepsCounting ==
  ASSUME InterruptsInv, Return \/ interrupts_initialize \/ Request \/ UNCHANGED vars
  PROVE  Counting'
<1>1. ~TicksCanOverlap' => ~TicksCanOverlap
  BY BoundsShrink DEF Next, Processor
<1>2. CASE Return
  <2>1. /\ stack # <<>> /\ Frame.pc = "return" /\ stack' = Tail(stack)
        /\ stray' = (stray /\ Tail(stack) # <<>>)
        /\ ticks' = ticks /\ taken' = taken
    BY <1>2 DEF Return, Running
  <2>2. stack \in Seq(FrameType)
    BY DEF InterruptsInv, InService, Types
  <2>3. /\ Frame = stack[1] /\ stack[1] \in FrameType /\ stack' \in Seq(FrameType)
        /\ \A i \in DOMAIN stack' : i + 1 \in DOMAIN stack /\ stack'[i] = stack[i + 1]
        /\ stack = <<stack[1]>> \o stack'
    BY <2>1, <2>2, Popped DEF Frame
  <2>4. Cardinality(Pending(stack')) = Cardinality(Pending(stack))
    <3>1. PICK f, s : f = stack[1] /\ s = stack'
      OBVIOUS
    <3>2. /\ Cardinality(Pending(s)) \in Nat
          /\ Cardinality(Pending(<<f>> \o s)) = Cardinality(Pending(s)) + 0
      BY <2>1, <2>3, <3>1, PendingPushed
    <3>3. PICK whole : whole = stack
      OBVIOUS
    <3>4. whole = <<f>> \o s
      BY <2>3, <3>1, <3>3
    <3>5. Cardinality(Pending(whole)) = Cardinality(Pending(s))
      BY <3>2, <3>4
    <3> QED BY <3>1, <3>3, <3>5
  <2>5. ~TicksCanOverlap =>
          /\ ~stray'
          /\ \A i \in DOMAIN stack' :
                /\ stack'[i].line # NoLine
                /\ stack'[i].pc = "count" => (ticks + 1) % TickModulus >= ticks
    BY <2>1, <2>3 DEF InterruptsInv, Counting, Frames
  <2> QED BY <1>1, <2>1, <2>4, <2>5, CountIsKept
<1>3. CASE UNCHANGED <<stack, ticks, taken, stray>>
  BY <1>1, <1>3, CountIsKept DEF InterruptsInv, Counting, Frames
<1> QED BY <1>2, <1>3 DEF interrupts_initialize, Request, vars
-----------------------------------------------------------------------------
(* The theorems.                                                           *)

\* The inductive invariant holds at first ...
LEMMA InitInterruptsInv == Init => InterruptsInv
<1> SUFFICES ASSUME Init PROVE InterruptsInv
  OBVIOUS
<1>1. Pending(stack) = {} /\ Frames = {} /\ taken = 0 /\ ticks = 0 /\ ~stray
  BY DEF Init, Pending, Frames
<1>2. Cardinality(Pending(stack)) = 0
  BY <1>1, FS_EmptySet
<1>3. 0 % TickModulus = 0
  BY InterruptsAssumption
<1>4. Counting
  BY <1>1, <1>2, <1>3 DEF Counting
<1> QED BY <1>4, InitInService DEF InterruptsInv

\* ... and every step keeps it.
LEMMA NextKeepsInterruptsInv ==
  InterruptsInv /\ [Next]_vars => InterruptsInv'
<1> SUFFICES ASSUME InterruptsInv, [Next]_vars PROVE InterruptsInv'
  OBVIOUS
<1>1. InService'
  BY NextKeepsInService DEF InterruptsInv
<1>2. Counting'
  BY EnterKeepsCounting, ResumeKeepsCounting, CountKeepsCounting, OtherKeepsCounting
     DEF Next, Processor
<1> QED BY <1>1, <1>2 DEF InterruptsInv

\* The invariant holds in every state, however deep the handlers nest.
THEOREM InterruptsSafety == InterruptsSpec => []InterruptsInv
<1> QED BY InitInterruptsInv, NextKeepsInterruptsInv, PTL DEF InterruptsSpec

\* What is in service is what the handlers on the stack have not acknowledged,
\* and with the last handler the last line is released.
THEOREM LinesAreAcknowledged == InterruptsSpec => []InServiceIsUnacknowledged
<1>1. InterruptsInv => InServiceIsUnacknowledged
  <2> SUFFICES ASSUME InterruptsInv PROVE InServiceIsUnacknowledged
    OBVIOUS
  <2>1. ASSUME ~stray
        PROVE  /\ pic.isr = UNION {Unacknowledged(stack[i]) : i \in Frames}
               /\ \A i, j \in Frames :
                    Unacknowledged(stack[i]) \cap Unacknowledged(stack[j]) # {} => i = j
    BY <2>1 DEF InterruptsInv, InService, Covered, Exact
  <2>2. ASSUME stack = <<>> PROVE pic.isr = {}
    <3>1. Frames = {}
      BY <2>2 DEF Frames
    <3> QED BY <3>1 DEF InterruptsInv, InService, Covered
  <2> QED BY <2>1, <2>2 DEF InServiceIsUnacknowledged
<1> QED BY <1>1, InterruptsSafety, PTL

\* Every tick begun is counted once, and the counter does not come round
\* unless ticks can overlap.
THEOREM TicksStayCounted == InterruptsSpec => TicksAreCounted
<1>1. InterruptsInv /\ InterruptsInv' /\ [Next]_vars =>
        [/\ (taken' - Cardinality({i \in DOMAIN stack' :
               stack'[i].pc \in {"tick", "count"}})) % TickModulus = ticks'
         /\ ticks' < ticks => TicksCanOverlap]_vars
  <2> SUFFICES ASSUME InterruptsInv, InterruptsInv', [Next]_vars
               PROVE  /\ (taken' - Cardinality({i \in DOMAIN stack' :
                            stack'[i].pc \in {"tick", "count"}})) % TickModulus = ticks'
                      /\ ticks' < ticks => TicksCanOverlap
    OBVIOUS
  <2>1. (taken' - Cardinality({i \in DOMAIN stack' :
            stack'[i].pc \in {"tick", "count"}})) % TickModulus = ticks'
    BY DEF InterruptsInv, Counting, Pending
  <2>2. ticks' < ticks => TicksCanOverlap
    <3>1. CASE CountTick
      BY <3>1, CountKeepsCounting
    <3>2. CASE ~CountTick
      <4>1. ticks' = ticks
        BY <3>2 DEF Next, Processor, interrupts_initialize, Deliver, system_tick, AckSlave,
             AckMaster, Return, Request, NonMaskable, yield, vars
      <4>2. ticks \in Nat
        BY InterruptsAssumption DEF InterruptsInv, InService, Types
      <4> QED BY <4>1, <4>2
    <3> QED BY <3>1, <3>2
  <2> QED BY <2>1, <2>2
<1> QED BY <1>1, InterruptsSafety, PTL DEF TicksAreCounted, InterruptsSpec
=============================================================================
