----------------------------- MODULE Interrupts -----------------------------
(***************************************************************************)
(* The interrupts of the kernel: interrupts_initialize and                 *)
(* interrupts_handler of interrupts/Interrupts.cpp, the entry and the      *)
(* return of Interrupts.asm, pic_remap and pic_ack of PIC.cpp, and the     *)
(* tick of System.cpp.                                                     *)
(*                                                                         *)
(* The two interrupt controllers are external: a line is requested (irr),  *)
(* delivered when no line of its priority or above is in service (isr),    *)
(* and stays in service until an end-of-interrupt, which ends the highest  *)
(* line in service whatever handler sends it.  The hardware interrupts     *)
(* enter through trap gates, which leave interrupts enabled, so a handler  *)
(* can be interrupted at every step; `stack` holds the frames of the       *)
(* handlers, the innermost first.                                          *)
(***************************************************************************)
EXTENDS Integers, Sequences, FiniteSets, FiniteSetsExt, SequencesExt

CONSTANTS
  Lines,        \* the interrupt lines that are connected, of 0..15
  TickModulus,  \* the number of values of _current_tick
  MaxRequests,  \* bound: how often each line is requested, a function
  MaxNmis,      \* bound: non-maskable interrupts
  MaxYields,    \* bound: calls of arch::yield
  MaxFrames     \* bound: frames on the stack

ASSUME InterruptsAssumption ==
  /\ Lines \subseteq (0..15) \ {2}
  /\ TickModulus \in Nat \ {0}
  /\ MaxRequests \in [Lines -> Nat]
  /\ {MaxNmis, MaxYields, MaxFrames} \subseteq Nat

VARIABLES
  pic,        \* the controllers: [offset1, offset2, irr, isr]
  idt,        \* of each vector that has an entry: the kind of its gate
  enabled,    \* the interrupt flag of the processor
  stack,      \* frames [vector, line, enabled, pc], the innermost first
  ticks,      \* _current_tick
  halted,     \* PANIC has stopped the machine
  taken,      \* ticks begun: deliveries of the timer and yields
  budget,     \* what is left of the bounds: [requests, nmis, yields]
  stray       \* an acknowledgement ended a line that was not the handler's

vars == <<pic, idt, enabled, stack, ticks, halted, taken, budget, stray>>

Master == 0..7
Slave == 8..15
NoLine == -1    \* the frame was not entered from a line

TIMER == 32
NMI == 2

-----------------------------------------------------------------------------
(* The interrupt controllers.                                              *)

\* The line of the first controller that carries a line of the second.
Cascade(line) == IF line \in Slave THEN 2 ELSE line

\* Fixed priority; the lines of the second controller stand at line two.
Outranks(a, b) ==
  \/ Cascade(a) < Cascade(b)
  \/ Cascade(a) = Cascade(b) /\ a < b

Deliverable ==
  {line \in pic.irr :
     /\ \A s \in pic.isr \cap Master : Cascade(line) < s
     /\ line \in Slave => \A s \in pic.isr \cap Slave : line < s
     /\ \A other \in pic.irr \ {line} : Outranks(line, other)}

VectorOf(line) ==
  IF line \in Slave THEN pic.offset2 + line - 8 ELSE pic.offset1 + line

\* What is still in service after an end-of-interrupt to one controller.
EndOfInterrupt(isr, controller) ==
  LET here == isr \cap controller
  IN  IF here = {} THEN isr ELSE isr \ {Min(here)}

Request ==
  \E line \in Lines :
    /\ budget.requests[line] > 0
    /\ budget' = [budget EXCEPT !.requests[line] = @ - 1]
    /\ pic' = [pic EXCEPT !.irr = @ \cup {line}]
    /\ UNCHANGED <<idt, enabled, stack, ticks, halted, taken, stray>>

-----------------------------------------------------------------------------
(* Entering a handler.                                                     *)

\* The processor saves the flag; an interrupt gate then clears it.  Of a
\* vector that is not the timer's, the handler only writes a log.
Push(vector, line) ==
  /\ Len(stack) < MaxFrames
  /\ vector \in DOMAIN idt
  /\ stack' = <<[vector |-> vector, line |-> line, enabled |-> enabled,
                 pc |-> IF vector = TIMER THEN "tick" ELSE "ack"]>> \o stack
  /\ enabled' = (enabled /\ idt[vector] = "trap")

Deliver ==
  /\ enabled /\ ~halted
  /\ \E line \in Deliverable :
       /\ Push(VectorOf(line), line)
       /\ pic' = [pic EXCEPT !.irr = @ \ {line},
                             !.isr = @ \cup {line, Cascade(line)}]
       /\ taken' = IF line = 0 THEN taken + 1 ELSE taken
  /\ UNCHANGED <<idt, ticks, halted, budget, stray>>

NonMaskable ==
  /\ budget.nmis > 0 /\ ~halted
  /\ Push(NMI, NoLine)
  /\ budget' = [budget EXCEPT !.nmis = @ - 1]
  /\ UNCHANGED <<pic, idt, ticks, halted, taken, stray>>

\* arch::yield, from the code that is interrupted: int $32.
yield ==
  /\ budget.yields > 0 /\ ~halted
  /\ stack = <<>> /\ enabled
  /\ Push(TIMER, NoLine)
  /\ budget' = [budget EXCEPT !.yields = @ - 1]
  /\ taken' = taken + 1
  /\ UNCHANGED <<pic, idt, ticks, halted, stray>>

-----------------------------------------------------------------------------
(* interrupts_handler, in the innermost frame.                             *)

Frame == Head(stack)
Running(pc) == ~halted /\ stack # <<>> /\ Frame.pc = pc
Resume(pc) == stack' = <<[Frame EXCEPT !.pc = pc]>> \o Tail(stack)

\* system_tick looks for the overflow, and counts in a second step.
system_tick ==
  /\ Running("tick")
  /\ IF (ticks + 1) % TickModulus < ticks
     THEN halted' = TRUE /\ UNCHANGED stack
     ELSE Resume("count") /\ UNCHANGED halted
  /\ UNCHANGED <<pic, idt, enabled, ticks, taken, budget, stray>>

CountTick ==
  /\ Running("count")
  /\ ticks' = (ticks + 1) % TickModulus
  /\ Resume("ack")
  /\ UNCHANGED <<pic, idt, enabled, halted, taken, budget, stray>>

\* An end-of-interrupt from a handler no line brought in ends another's.
Acknowledge(controller) ==
  /\ pic' = [pic EXCEPT !.isr = EndOfInterrupt(@, controller)]
  /\ stray' = (stray \/ (Frame.line = NoLine /\ pic.isr \cap controller # {}))

\* Bug: only the first controller is told.
AckSlave_Skipped ==
  /\ Running("ack")
  /\ UNCHANGED <<pic, stray>>
  /\ Resume("ack1")
  /\ UNCHANGED <<idt, enabled, ticks, halted, taken, budget>>

\* pic_ack: a vector from 40 is acknowledged to the second controller, ...
AckSlave ==
  /\ Running("ack")
  /\ IF Frame.vector >= 40 THEN Acknowledge(Slave) ELSE UNCHANGED <<pic, stray>>
  /\ Resume("ack1")
  /\ UNCHANGED <<idt, enabled, ticks, halted, taken, budget>>

\* ... and every vector, exceptions too, to the first.
AckMaster ==
  /\ Running("ack1")
  /\ Acknowledge(Master)
  /\ Resume("return")
  /\ UNCHANGED <<idt, enabled, ticks, halted, taken, budget>>

\* The registers are popped and iret restores the flag.
Return ==
  /\ Running("return")
  /\ stack' = Tail(stack)
  /\ enabled' = Frame.enabled
  /\ stray' = (stray /\ Tail(stack) # <<>>)
  /\ UNCHANGED <<pic, idt, ticks, halted, taken, budget>>

-----------------------------------------------------------------------------
(* Booting.                                                                *)

\* The controllers as the firmware leaves them.
Init ==
  /\ pic = [offset1 |-> 8, offset2 |-> 112, irr |-> {}, isr |-> {}]
  /\ idt = <<>>
  /\ enabled = FALSE
  /\ stack = <<>>
  /\ ticks = 0
  /\ halted = FALSE
  /\ taken = 0
  /\ budget = [requests |-> MaxRequests,
               nmis |-> MaxNmis, yields |-> MaxYields]
  /\ stray = FALSE

\* Bug: the second controller keeps the vectors of the first one's lines.
pic_remap_Overlapping(offset1, offset2) ==
  [pic EXCEPT !.offset1 = offset1, !.offset2 = offset1]

pic_remap(offset1, offset2) ==
  [pic EXCEPT !.offset1 = offset1, !.offset2 = offset2]

Gates ==
  [v \in 0..47 \cup {128} |-> IF v < 32 THEN "interrupt" ELSE "trap"]

\* Nothing is delivered before its last statement, sti.
interrupts_initialize ==
  /\ idt = <<>>
  /\ pic' = pic_remap(32, 40)
  /\ idt' = Gates
  /\ enabled' = TRUE
  /\ UNCHANGED <<stack, ticks, halted, taken, budget, stray>>

Processor ==
  \/ interrupts_initialize \/ Deliver \/ system_tick \/ CountTick
  \/ AckSlave \/ AckMaster \/ Return

Next == Processor \/ Request \/ NonMaskable \/ yield

\* The processor executes its next instruction, or takes the interrupt that
\* is delivered to it; what requests interrupts owes nothing.
InterruptsSpec == Init /\ [][Next]_vars /\ WF_vars(Processor)

-----------------------------------------------------------------------------
(* Properties.                                                             *)

\* The lines whose handlers have not yet acknowledged them.
Unacknowledged(frame) ==
  IF frame.line = NoLine THEN {}
  ELSE CASE frame.pc \in {"tick", "count", "ack"} -> {frame.line, Cascade(frame.line)}
         [] frame.pc = "ack1" -> {Cascade(frame.line)}
         [] frame.pc = "return" -> {}

Frames == DOMAIN stack

\* What the controllers believe is in service is what the handlers on the
\* stack have not acknowledged, each line by one handler: an acknowledgement
\* names no line, and still ends the line of the handler that sends it, in
\* the middle of other handlers.  A handler that no line brought in, of an
\* exception or of a non-maskable interrupt, ends another's line: then this
\* fails, until the handlers have returned (Interrupts.cpp:64, PIC.cpp:69).
InServiceIsUnacknowledged ==
  /\ ~stray =>
       /\ pic.isr = UNION {Unacknowledged(stack[i]) : i \in Frames}
       /\ \A i, j \in Frames :
            Unacknowledged(stack[i]) \cap Unacknowledged(stack[j]) # {} => i = j
  /\ stack = <<>> => pic.isr = {}

\* Two ticks can both find room before either counts only after a yield,
\* which no controller holds the timer back for, or after a non-maskable
\* interrupt, which may acknowledge a timer that is being handled.
TicksCanOverlap == budget.yields < MaxYields \/ budget.nmis < MaxNmis

\* Every tick begun is counted once, in whatever order handlers nest: the
\* counter lags behind by the handlers that have not counted yet, and unless
\* ticks can overlap between the test for the overflow and the count, it
\* never comes round to zero (System.cpp:64).
TicksAreCounted ==
  [][/\ (taken' - Cardinality({i \in DOMAIN stack' :
            stack'[i].pc \in {"tick", "count"}})) % TickModulus = ticks'
     /\ ticks' < ticks => TicksCanOverlap]_vars

\* An interrupt that is requested is delivered in the end, unless the tick
\* has stopped the machine: no line stays in service for ever, and no
\* handler returns with interrupts disabled.
RequestsAreServed ==
  \A line \in Lines : line \in pic.irr ~> (line \notin pic.irr \/ halted)
=============================================================================
