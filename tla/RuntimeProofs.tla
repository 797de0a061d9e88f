--------------------------- MODULE RuntimeProofs ---------------------------
(***************************************************************************)
(* Proofs about the running kernel: about its interrupts, for every number *)
(* of ticks it waits, of scancodes the keyboard sends and of frames the CPU *)
(* could nest; and about what it prints, for every text, font, framebuffer *)
(* and UART.                                                               *)
(***************************************************************************)
EXTENDS Runtime, Serial, ArithProofs, FiniteSetTheorems, SequenceTheorems, TLAPS

HandlerSteps == {"inb", "load", "store", "print", "first", "last", "restore", "eoi", "iret"}

Frame == [irq : {TIMER, KEYBOARD, SPURIOUS}, at : HandlerSteps, reg : Nat, saved : BOOLEAN]

\* The steps of the handler of a line.
StepsOf(irq) ==
    {"eoi", "iret"}
        \cup (IF irq # SPURIOUS THEN {"load", "store"} ELSE {})
        \cup (IF irq = KEYBOARD THEN {"inb", "print", "first", "last", "restore"} ELSE {})

TypeOK ==
    /\ iflag \in BOOLEAN /\ saved \in BOOLEAN
    /\ reg \in Nat /\ deadline \in Nat /\ ticks \in Nat /\ keys \in Nat
    /\ obf \in [full : BOOLEAN, byte : Scancode]
    /\ phase \in {"call", "in", "last", "return"}
    /\ handlers \in Seq(Frame)

\* kernel_main is inside without_interrupts with IF clear, so it is not interrupted there.
SectionIsMasked == phase # "call" => ~iflag /\ handlers = <<>>

\* A handler's without_interrupts finds IF clear, and so leaves it clear.
HandlerIsMasked ==
    /\ Len(handlers) <= 1
    /\ handlers # <<>> => ~iflag /\ ~Top.saved /\ Top.at \in StepsOf(Top.irq)

\* Who is in the middle of a line: the context whose next step ends it.
OneLine ==
    open = IF phase = "last" THEN {MAIN}
           ELSE IF handlers # <<>> /\ Top.at = "last" THEN {1} ELSE {}

\* The inductive invariant.
RuntimeInv ==
    /\ TypeOK /\ SectionIsMasked /\ HandlerIsMasked /\ OneLine
    /\ EOIAcknowledgesOwn /\ ByteAnnounced

-----------------------------------------------------------------------------
(* The stack of frames *)

\* A sequence of at most one element that is not empty.
LEMMA OnlyElement ==
    ASSUME NEW S, NEW s \in Seq(S), s # <<>>, Len(s) <= 1
    PROVE  Len(s) = 1
<1>1. Len(s) >= 1 /\ Len(s) \in Nat
  OBVIOUS
<1>2. \A n \in Nat : n >= 1 /\ n <= 1 => n = 1
  OBVIOUS
<1>3. QED
  BY <1>1, <1>2, Zenon

\* The frame of a running handler: there is one only, with IF clear.
LEMMA TopFrame ==
    ASSUME RuntimeInv, handlers # <<>>
    PROVE  /\ handlers \in Seq(Frame) /\ Len(handlers) = 1 /\ Top = handlers[1]
           /\ Top \in Frame /\ Top.at \in StepsOf(Top.irq) /\ ~Top.saved
           /\ ~iflag /\ phase = "call"
<1>1. handlers \in Seq(Frame) /\ Len(handlers) <= 1
  BY DEF RuntimeInv, TypeOK, HandlerIsMasked
<1>2. handlers \in Seq(Frame) /\ handlers # <<>> /\ Len(handlers) <= 1 => Len(handlers) = 1
  BY OnlyElement
<1>3. Len(handlers) = 1
  BY <1>1, <1>2
<1>4. Top = handlers[1] /\ Top \in Frame
  BY <1>1, <1>3, ElementOfSeq DEF Top
<1>5. ~iflag /\ phase = "call" /\ Top.at \in StepsOf(Top.irq) /\ ~Top.saved
  BY DEF RuntimeInv, SectionIsMasked, HandlerIsMasked
<1>6. QED
  BY <1>1, <1>3, <1>4, <1>5

\* Replacing the innermost frame leaves a stack of one frame.
LEMMA BecomesFrame ==
    ASSUME RuntimeInv, handlers # <<>>, NEW f \in Frame, Becomes(f)
    PROVE  /\ handlers' \in Seq(Frame) /\ Len(handlers') = 1
           /\ handlers' # <<>> /\ handlers'[1] = f /\ Top' = f
<1>1. handlers \in Seq(Frame) /\ Len(handlers) = 1
  BY TopFrame
<1>2. handlers' = [handlers EXCEPT ![1] = f]
  BY <1>1 DEF Becomes
<1>3. handlers' \in Seq(Frame) /\ Len(handlers') = 1 /\ handlers'[1] = f
  BY <1>1, <1>2
<1>4. QED
  BY <1>3 DEF Top

\* The frame an interrupt pushes, on a stack that is empty while IF is set.
LEMMA TakenFrame ==
    ASSUME RuntimeInv, NEW irq \in {TIMER, KEYBOARD, SPURIOUS}, NEW entry \in HandlerSteps,
           Take(irq, entry)
    PROVE  /\ handlers = <<>> /\ phase = "call" /\ iflag' = FALSE
           /\ handlers' \in Seq(Frame) /\ Len(handlers') = 1 /\ handlers' # <<>>
           /\ handlers'[1].at = entry
           /\ Top'.irq = irq /\ Top'.at = entry /\ Top'.saved = FALSE
           /\ UNCHANGED <<obf, phase, reg, saved, deadline, ticks, keys, open>>
<1> DEFINE f == [irq |-> irq, at |-> entry, reg |-> 0, saved |-> FALSE]
<1>1. f \in Frame
  BY DEF Frame
<1>2. iflag /\ iflag' = FALSE /\ handlers' = Append(handlers, f)
  BY DEF Take
<1>3. UNCHANGED <<obf, phase, reg, saved, deadline, ticks, keys, open>>
  BY DEF Take
<1>4. handlers = <<>> /\ phase = "call"
  BY <1>2 DEF RuntimeInv, SectionIsMasked, HandlerIsMasked
<1>5. handlers' = <<f>>
  BY <1>2, <1>4
<1>6. handlers' \in Seq(Frame) /\ Len(handlers') = 1 /\ handlers' # <<>> /\ handlers'[1] = f
  BY <1>1, <1>5
<1>7. Top' = f
  BY <1>6 DEF Top
<1>8. QED
  BY <1>2, <1>3, <1>4, <1>6, <1>7

\* What the steps of kernel_main between two calls keep: everything, if they
\* leave the handlers, the devices and the lines being printed alone.
LEMMA MainFrame ==
    ASSUME RuntimeInv, handlers = <<>>, UNCHANGED <<handlers, device, open>>,
           TypeOK', SectionIsMasked', phase # "last", phase' # "last"
    PROVE  RuntimeInv'
<1>1. HandlerIsMasked' /\ OneLine'
  BY EmptySeq DEF RuntimeInv, HandlerIsMasked, OneLine, device
<1>2. EOIAcknowledgesOwn' /\ ByteAnnounced'
  BY DEF RuntimeInv, EOIAcknowledgesOwn, ByteAnnounced, device
<1>3. QED
  BY <1>1, <1>2 DEF RuntimeInv

-----------------------------------------------------------------------------
(* The devices *)

LEMMA DevicesKeepInv ==
    ASSUME RuntimeInv, TimerFires \/ KeyArrives
    PROVE  RuntimeInv'
<1>1. CASE TimerFires
  BY <1>1 DEF TimerFires, main, RuntimeInv, TypeOK, SectionIsMasked, HandlerIsMasked, OneLine,
              EOIAcknowledgesOwn, ByteAnnounced, Top
<1>2. CASE KeyArrives
  <2>1. obf' \in [full : BOOLEAN, byte : Scancode]
    BY <1>2 DEF KeyArrives
  <2>2. KEYBOARD \in irr'
    BY <1>2 DEF KeyArrives
  <2>3. QED
    BY <1>2, <2>1, <2>2 DEF KeyArrives, main, RuntimeInv, TypeOK, SectionIsMasked,
              HandlerIsMasked, OneLine, EOIAcknowledgesOwn, ByteAnnounced, Top
<1>3. QED
  BY <1>1, <1>2

\* An interrupt is taken only while no handler runs and kernel_main is outside
\* without_interrupts.
LEMMA DeliverKeepsInv ==
    ASSUME RuntimeInv, Deliver(TIMER) \/ Deliver(KEYBOARD) \/ DeliverSpurious
    PROVE  RuntimeInv'
<1>1. ASSUME NEW irq \in {TIMER, KEYBOARD}, Deliver(irq)
      PROVE  RuntimeInv'
  <2> DEFINE entry == IF irq = TIMER THEN "load" ELSE "inb"
  <2>1. Take(irq, entry) /\ irr' = irr \ {irq} /\ isr' = isr \cup {irq}
    BY <1>1 DEF Deliver
  <2> HIDE DEF entry
  <2>2. entry \in HandlerSteps /\ entry \in StepsOf(irq) /\ entry \notin {"last", "iret"}
    <3>1. CASE irq = TIMER
      BY <3>1 DEF entry, StepsOf, HandlerSteps, TIMER, KEYBOARD, SPURIOUS
    <3>2. CASE irq = KEYBOARD
      BY <3>2 DEF entry, StepsOf, HandlerSteps, TIMER, KEYBOARD, SPURIOUS
    <3>3. QED
      BY <3>1, <3>2
  <2>3. /\ handlers = <<>> /\ phase = "call" /\ iflag' = FALSE
        /\ handlers' \in Seq(Frame) /\ Len(handlers') = 1 /\ handlers' # <<>>
        /\ handlers'[1].at = entry
        /\ Top'.irq = irq /\ Top'.at = entry /\ Top'.saved = FALSE
        /\ UNCHANGED <<obf, phase, reg, saved, deadline, ticks, keys, open>>
    BY <2>1, <2>2, TakenFrame
  <2>4. TypeOK'
    BY <2>3 DEF RuntimeInv, TypeOK
  <2>5. SectionIsMasked' /\ HandlerIsMasked'
    BY <2>2, <2>3 DEF SectionIsMasked, HandlerIsMasked
  <2>6. OneLine'
    BY <2>2, <2>3 DEF RuntimeInv, OneLine
  <2>7. EOIAcknowledgesOwn'
    BY <2>1, <2>2, <2>3 DEF RuntimeInv, EOIAcknowledgesOwn, TIMER, KEYBOARD, SPURIOUS
  <2>8. ByteAnnounced'
    BY <2>1, <2>3 DEF RuntimeInv, ByteAnnounced, entry, TIMER, KEYBOARD
  <2>9. QED
    BY <2>4, <2>5, <2>6, <2>7, <2>8 DEF RuntimeInv
<1>2. CASE DeliverSpurious
  <2>1. Take(SPURIOUS, "eoi") /\ UNCHANGED <<irr, isr>>
    BY <1>2 DEF DeliverSpurious
  <2>2. /\ handlers = <<>> /\ phase = "call" /\ iflag' = FALSE
        /\ handlers' \in Seq(Frame) /\ Len(handlers') = 1 /\ handlers' # <<>>
        /\ Top'.irq = SPURIOUS /\ Top'.at = "eoi" /\ Top'.saved = FALSE
        /\ UNCHANGED <<obf, phase, reg, saved, deadline, ticks, keys, open>>
    <3>1. SPURIOUS \in {TIMER, KEYBOARD, SPURIOUS} /\ "eoi" \in HandlerSteps
      BY DEF HandlerSteps
    <3>2. QED
      BY <2>1, <3>1, TakenFrame
  <2>3. TypeOK'
    BY <2>2 DEF RuntimeInv, TypeOK
  <2>4. SectionIsMasked' /\ HandlerIsMasked'
    BY <2>2 DEF SectionIsMasked, HandlerIsMasked, StepsOf
  <2>5. OneLine' /\ EOIAcknowledgesOwn'
    BY <2>1, <2>2 DEF RuntimeInv, OneLine, EOIAcknowledgesOwn
  <2>6. ByteAnnounced'
    BY <2>1, <2>2 DEF RuntimeInv, ByteAnnounced
  <2>7. QED
    BY <2>3, <2>4, <2>5, <2>6 DEF RuntimeInv
<1>3. QED
  BY <1>1, <1>2

-----------------------------------------------------------------------------
(* kernel_main *)

LEMMA EnterKeepsInv ==
    ASSUME NEW label, RuntimeInv, Enter(label)
    PROVE  RuntimeInv'
<1>1. TypeOK' /\ SectionIsMasked'
  BY DEF device, Enter, Main, RuntimeInv, TypeOK, SectionIsMasked
<1>2. /\ handlers = <<>> /\ UNCHANGED <<handlers, device, open>>
      /\ phase # "last" /\ phase' # "last"
  BY DEF Enter, Main
<1>3. QED
  BY <1>1, <1>2, MainFrame

LEMMA LeaveKeepsInv ==
    ASSUME NEW label, NEW next, RuntimeInv, Leave(label, next)
    PROVE  RuntimeInv'
<1>1. TypeOK' /\ SectionIsMasked'
  BY DEF device, Leave, Main, Restored, RuntimeInv, TypeOK, SectionIsMasked
<1>2. /\ handlers = <<>> /\ UNCHANGED <<handlers, device, open>>
      /\ phase # "last" /\ phase' # "last"
  BY DEF Leave, Main
<1>3. QED
  BY <1>1, <1>2, MainFrame

LEMMA ReadKeepsInv ==
    ASSUME NEW label, NEW value \in Nat, NEW next, RuntimeInv, Read(label, value, next)
    PROVE  RuntimeInv'
<1>1. CASE /\ Main(label, "in") /\ phase' = "return" /\ reg' = value
           /\ deadline' = IF label = "set deadline" THEN value + KEY_WAIT ELSE deadline
           /\ UNCHANGED <<iflag, device, at, saved, handlers, ticks, keys, open, verdict>>
  <2>1. deadline' \in Nat /\ reg' \in Nat
    <3>1. deadline \in Nat /\ value + KEY_WAIT \in Nat
      BY RuntimeAssumption DEF RuntimeInv, TypeOK
    <3>2. QED
      BY <1>1, <3>1
  <2>2. TypeOK' /\ SectionIsMasked'
    BY <1>1, <2>1 DEF device, Main, RuntimeInv, TypeOK, SectionIsMasked
  <2>3. /\ handlers = <<>> /\ UNCHANGED <<handlers, device, open>>
        /\ phase # "last" /\ phase' # "last"
    BY <1>1 DEF Main
  <2>4. QED
    BY <2>2, <2>3, MainFrame
<1>2. QED
  BY <1>1, EnterKeepsInv, LeaveKeepsInv DEF Read

\* The two steps of a print touch the lines being printed, with IF clear and
\* no handler running.
LEMMA PrintLineKeepsInv ==
    ASSUME NEW label, NEW next, RuntimeInv, PrintLine(label, next)
    PROVE  RuntimeInv'
<1>1. CASE /\ Main(label, "in") /\ phase' = "last" /\ open' = open \cup {MAIN}
           /\ UNCHANGED <<iflag, device, at, reg, saved, deadline, handlers, ticks, keys, verdict>>
  BY <1>1 DEF Main, device, RuntimeInv, TypeOK, SectionIsMasked, HandlerIsMasked, OneLine,
              EOIAcknowledgesOwn, ByteAnnounced, Top
<1>2. CASE /\ Main(label, "last") /\ phase' = "return" /\ open' = open \ {MAIN}
           /\ UNCHANGED <<iflag, device, at, reg, saved, deadline, handlers, ticks, keys, verdict>>
  BY <1>2 DEF Main, device, RuntimeInv, TypeOK, SectionIsMasked, HandlerIsMasked, OneLine,
              EOIAcknowledgesOwn, ByteAnnounced, Top
<1>3. QED
  BY <1>1, <1>2, EnterKeepsInv, LeaveKeepsInv DEF PrintLine

LEMMA GotoKeepsInv ==
    ASSUME NEW label, NEW next, RuntimeInv, Goto(label, next)
    PROVE  RuntimeInv'
<1>1. TypeOK' /\ SectionIsMasked'
  BY DEF device, Goto, Main, RuntimeInv, TypeOK, SectionIsMasked
<1>2. /\ handlers = <<>> /\ UNCHANGED <<handlers, device, open>>
      /\ phase # "last" /\ phase' # "last"
  BY DEF Goto, Main
<1>3. QED
  BY <1>1, <1>2, MainFrame

LEMMA ExitKeepsInv ==
    ASSUME NEW label, NEW result, RuntimeInv, Exit(label, result)
    PROVE  RuntimeInv'
<1>1. TypeOK' /\ SectionIsMasked'
  BY DEF device, Exit, Main, main, RuntimeInv, TypeOK, SectionIsMasked
<1>2. /\ handlers = <<>> /\ UNCHANGED <<handlers, device, open>>
      /\ phase # "last" /\ phase' # "last"
  BY DEF Exit, Main, main
<1>3. QED
  BY <1>1, <1>2, MainFrame

LEMMA MainStepKeepsInv ==
    ASSUME RuntimeInv, MainStep
    PROVE  RuntimeInv'
<1>1. ticks \in Nat /\ keys \in Nat
  BY DEF RuntimeInv, TypeOK
<1>2. CASE Enable
  <2>1. TypeOK' /\ SectionIsMasked'
    BY <1>2 DEF device, Enable, Main, RuntimeInv, TypeOK, SectionIsMasked
  <2>2. /\ handlers = <<>> /\ UNCHANGED <<handlers, device, open>>
        /\ phase # "last" /\ phase' # "last"
    BY <1>2 DEF Enable, Main
  <2>3. QED
    BY <2>1, <2>2, MainFrame
<1>3. CASE TimerWait
  BY <1>1, <1>3, ReadKeepsInv, GotoKeepsInv, PrintLineKeepsInv DEF TimerWait
<1>4. CASE KeyWait
  BY <1>1, <1>4, ReadKeepsInv, GotoKeepsInv, PrintLineKeepsInv DEF KeyWait
<1>5. CASE Finish
  BY <1>1, <1>5, ReadKeepsInv, PrintLineKeepsInv, ExitKeepsInv DEF Finish
<1>6. QED
  BY <1>2, <1>3, <1>4, <1>5 DEF MainStep

-----------------------------------------------------------------------------
(* The handlers *)

\* What a step of a handler has to show of the frame it leaves, and of the
\* state it shares with the devices and with other printing contexts.
LEMMA HandlerFrame ==
    ASSUME RuntimeInv, handlers # <<>>, NEW f \in Frame, Becomes(f),
           f.irq = Top.irq, f.at \in StepsOf(f.irq), ~f.saved,
           iflag' = FALSE, UNCHANGED main, ticks' \in Nat, keys' \in Nat,
           obf' \in [full : BOOLEAN, byte : Scancode],
           obf'.full => KEYBOARD \in irr' \/ f.at = "inb",
           open' = (IF f.at = "last" THEN {1} ELSE {}),
           isr' = (IF f.irq # SPURIOUS /\ f.at # "iret" THEN {f.irq} ELSE {})
    PROVE  RuntimeInv'
<1>1. /\ handlers' \in Seq(Frame) /\ Len(handlers') = 1
      /\ handlers' # <<>> /\ handlers'[1] = f /\ Top' = f
  BY BecomesFrame
<1>2. phase = "call"
  BY TopFrame
<1>3. TypeOK'
  BY <1>1 DEF main, RuntimeInv, TypeOK
<1>4. SectionIsMasked' /\ HandlerIsMasked'
  BY <1>1, <1>2 DEF main, SectionIsMasked, HandlerIsMasked
<1>5. OneLine' /\ EOIAcknowledgesOwn'
  BY <1>1, <1>2 DEF main, OneLine, EOIAcknowledgesOwn
<1>6. ByteAnnounced'
  BY <1>1 DEF ByteAnnounced
<1>7. QED
  BY <1>3, <1>4, <1>5, <1>6 DEF RuntimeInv

\* What holds before a step of a handler.
LEMMA HandlerState ==
    ASSUME RuntimeInv, handlers # <<>>
    PROVE  /\ iflag = FALSE /\ ticks \in Nat /\ keys \in Nat
           /\ obf \in [full : BOOLEAN, byte : Scancode]
           /\ obf.full => KEYBOARD \in irr \/ Top.at = "inb"
           /\ open = (IF Top.at = "last" THEN {1} ELSE {})
           /\ isr = (IF Top.irq # SPURIOUS /\ Top.at # "iret" THEN {Top.irq} ELSE {})
<1>1. Len(handlers) = 1 /\ Top = handlers[1] /\ ~iflag /\ phase = "call"
  BY TopFrame
<1>2. iflag = FALSE /\ ticks \in Nat /\ keys \in Nat /\ obf \in [full : BOOLEAN, byte : Scancode]
  BY <1>1 DEF RuntimeInv, TypeOK
<1>3. obf.full => KEYBOARD \in irr \/ Top.at = "inb"
  BY <1>1 DEF RuntimeInv, ByteAnnounced
<1>4. open = (IF Top.at = "last" THEN {1} ELSE {})
  BY <1>1 DEF RuntimeInv, OneLine
<1>5. isr = (IF Top.irq # SPURIOUS /\ Top.at # "iret" THEN {Top.irq} ELSE {})
  BY <1>1 DEF RuntimeInv, EOIAcknowledgesOwn
<1>6. QED
  BY <1>2, <1>3, <1>4, <1>5

\* The frame after a step that only moves on.
LEMMA NextFrame ==
    ASSUME RuntimeInv, handlers # <<>>, NEW label \in HandlerSteps
    PROVE  LET f == [Top EXCEPT !.at = label]
           IN  f \in Frame /\ f.irq = Top.irq /\ f.at = label /\ ~f.saved
<1>1. Top \in Frame /\ ~Top.saved
  BY TopFrame
<1>2. QED
  BY <1>1 DEF Frame

\* Moving on to another step, when lines and service stay as they are.
LEMMA ThenKeepsInv ==
    ASSUME RuntimeInv, handlers # <<>>, NEW label \in HandlerSteps, Then(label),
           label \in StepsOf(Top.irq),
           iflag' = FALSE, UNCHANGED main, ticks' \in Nat, keys' \in Nat,
           obf' \in [full : BOOLEAN, byte : Scancode],
           obf'.full => KEYBOARD \in irr' \/ label = "inb",
           open' = (IF label = "last" THEN {1} ELSE {}),
           isr' = (IF Top.irq # SPURIOUS /\ label # "iret" THEN {Top.irq} ELSE {})
    PROVE  RuntimeInv'
<1> DEFINE f == [Top EXCEPT !.at = label]
<1>1. f \in Frame /\ f.irq = Top.irq /\ f.at = label /\ ~f.saved
  BY NextFrame
<1>2. Becomes(f)
  BY DEF Then
<1> HIDE DEF f
<1>3. QED
  BY <1>1, <1>2, HandlerFrame

LEMMA LoadKeepsInv ==
    ASSUME NEW value \in Nat, RuntimeInv, handlers # <<>>, Load(value)
    PROVE  RuntimeInv'
<1> DEFINE f == [Top EXCEPT !.at = "store", !.reg = value]
<1>1. Top \in Frame /\ ~Top.saved /\ Top.at = "load" /\ Top.at \in StepsOf(Top.irq)
  BY TopFrame DEF Load, Handler
<1>2. f \in Frame /\ f.irq = Top.irq /\ f.at = "store" /\ ~f.saved
  BY <1>1 DEF Frame, HandlerSteps
<1>3. "store" \in StepsOf(Top.irq)
  BY <1>1 DEF StepsOf
<1>4. Becomes(f) /\ UNCHANGED <<iflag, device, main, ticks, keys, open, verdict>>
  BY DEF Load
<1> HIDE DEF f
<1>5. UNCHANGED <<iflag, main, ticks, keys, open, obf, irr, isr>>
  BY <1>4 DEF device
<1>6. QED
  BY <1>1, <1>2, <1>3, <1>4, <1>5, HandlerState, HandlerFrame

\* The store that ends an increment: the counters stay numbers.
LEMMA StoreKeepsInv ==
    ASSUME RuntimeInv, handlers # <<>>, StoreTicks \/ StoreKeys
    PROVE  RuntimeInv'
<1>1. Top \in Frame /\ Top.reg \in Nat
  BY TopFrame DEF Frame
<1>2. Top.at = "store"
  BY DEF StoreTicks, StoreKeys, Handler
<1>3. CASE StoreTicks
  <2>1. ticks' \in Nat
    BY <1>1, <1>3, RuntimeAssumption DEF StoreTicks, Capped, Horizon, RuntimeInv, TypeOK
  <2>2. Then("eoi") /\ UNCHANGED <<iflag, main, keys, open, obf, irr, isr>>
    BY <1>3 DEF StoreTicks, device
  <2>3. "eoi" \in HandlerSteps /\ "eoi" \in StepsOf(Top.irq)
    BY DEF HandlerSteps, StepsOf
  <2>4. QED
    BY <1>2, <2>1, <2>2, <2>3, HandlerState, ThenKeepsInv
<1>4. CASE StoreKeys
  <2>1. keys' \in Nat
    BY <1>1, <1>4, RuntimeAssumption DEF StoreKeys, Capped
  <2>2. Then("print") /\ Top.irq = KEYBOARD /\ UNCHANGED <<iflag, main, ticks, open, obf, irr, isr>>
    BY <1>4 DEF StoreKeys, device
  <2>3. "print" \in HandlerSteps /\ "print" \in StepsOf(Top.irq)
    BY <2>2 DEF HandlerSteps, StepsOf
  <2>4. QED
    BY <1>2, <2>1, <2>2, <2>3, HandlerState, ThenKeepsInv
<1>5. QED
  BY <1>3, <1>4

\* The byte is consumed whether or not it has a translation, so that the next
\* one can be announced.
LEMMA ReadKeyKeepsInv ==
    ASSUME RuntimeInv, handlers # <<>>, ReadKey
    PROVE  RuntimeInv'
<1> DEFINE label == IF obf.byte = "make" THEN "load" ELSE "eoi"
<1>1. /\ Top.at = "inb" /\ Then(label)
      /\ UNCHANGED <<iflag, irr, isr, main, ticks, keys, open>>
  BY DEF ReadKey, Handler
<1>2. Top.irq = KEYBOARD
  BY <1>1, TopFrame DEF StepsOf
<1>3. /\ label \in HandlerSteps /\ label \in StepsOf(Top.irq)
      /\ label \notin {"inb", "last", "iret"}
  BY <1>2 DEF HandlerSteps, StepsOf, KEYBOARD, SPURIOUS
<1>4. obf' \in [full : BOOLEAN, byte : Scancode] /\ ~obf'.full
  BY HandlerState DEF ReadKey
<1> HIDE DEF label
<1>5. QED
  BY <1>1, <1>3, <1>4, HandlerState, ThenKeepsInv

\* A print in a handler: only the keyboard handler prints, it finds IF clear,
\* saves that, and puts it back.
LEMMA HandlerPrintKeepsInv ==
    ASSUME RuntimeInv, handlers # <<>>, HandlerPrint
    PROVE  RuntimeInv'
<1>1. /\ Top \in Frame /\ Top.at \in StepsOf(Top.irq) /\ ~Top.saved
      /\ Len(handlers) = 1 /\ iflag = FALSE
  BY TopFrame, HandlerState
<1>2. Top.at \in {"print", "first", "last", "restore"}
  BY DEF HandlerPrint, Handler
<1>3. Top.irq = KEYBOARD
  BY <1>1, <1>2 DEF StepsOf
<1>4. UNCHANGED <<main, ticks, keys, obf, irr, isr>>
  BY DEF HandlerPrint, device
<1>5. /\ {"first", "last", "restore", "eoi"} \subseteq HandlerSteps
      /\ {"first", "last", "restore", "eoi"} \subseteq StepsOf(Top.irq)
  BY <1>3 DEF HandlerSteps, StepsOf
<1>6. CASE Top.at = "print"
  <2> DEFINE f == [Top EXCEPT !.at = "first", !.saved = iflag]
  <2>1. iflag' = FALSE /\ Becomes(f) /\ UNCHANGED open
    BY <1>6 DEF HandlerPrint, Handler
  <2>2. f \in Frame /\ f.irq = Top.irq /\ f.at = "first" /\ f.saved = FALSE
    BY <1>1, <1>5 DEF Frame
  <2> HIDE DEF f
  <2>3. QED
    BY <1>3, <1>4, <1>5, <1>6, <2>1, <2>2, HandlerState, HandlerFrame
<1>7. CASE Top.at = "first"
  <2>1. open' = open \cup {1} /\ Then("last") /\ UNCHANGED iflag
    BY <1>1, <1>7 DEF HandlerPrint, Handler
  <2>2. open' = {1}
    BY <1>7, <2>1, HandlerState
  <2>3. QED
    BY <1>3, <1>4, <1>5, <1>7, <2>1, <2>2, HandlerState, ThenKeepsInv
<1>8. CASE Top.at = "last"
  <2>1. open' = open \ {1} /\ Then("restore") /\ UNCHANGED iflag
    BY <1>1, <1>8 DEF HandlerPrint, Handler
  <2>2. open' = {}
    BY <1>8, <2>1, HandlerState
  <2>3. QED
    BY <1>3, <1>4, <1>5, <1>8, <2>1, <2>2, HandlerState, ThenKeepsInv
<1>9. CASE Top.at = "restore"
  <2>1. iflag' = (iflag \/ Top.saved) /\ Then("eoi") /\ UNCHANGED open
    BY <1>9 DEF HandlerPrint, Handler, Restored
  <2>2. iflag' = FALSE
    BY <1>1, <2>1
  <2>3. QED
    BY <1>3, <1>4, <1>5, <1>9, <2>1, <2>2, HandlerState, ThenKeepsInv
<1>10. QED
  BY <1>2, <1>6, <1>7, <1>8, <1>9

\* The EOI ends the service of the one line in service, which is the
\* handler's own; the spurious handler's finds none.
LEMMA EndOfInterruptKeepsInv ==
    ASSUME RuntimeInv, handlers # <<>>, EndOfInterrupt
    PROVE  RuntimeInv'
<1>1. Top.at = "eoi" /\ Top \in Frame
  BY TopFrame DEF EndOfInterrupt, Handler
<1>2. Then("iret") /\ EOI /\ UNCHANGED <<iflag, irr, obf, main, ticks, keys, open>>
  BY DEF EndOfInterrupt
<1>3. isr' = {}
  <2>1. Top.irq \in Nat
    BY <1>1 DEF Frame, TIMER, KEYBOARD, SPURIOUS
  <2>2. isr = {} \/ isr = {Top.irq}
    BY HandlerState
  <2>3. QED
    BY <1>2, <2>1, <2>2 DEF EOI
<1>4. "iret" \in HandlerSteps /\ "iret" \in StepsOf(Top.irq)
  BY DEF HandlerSteps, StepsOf
<1>5. QED
  BY <1>1, <1>2, <1>3, <1>4, HandlerState, ThenKeepsInv

\* The last frame goes, and with it IF comes back.
LEMMA IretKeepsInv ==
    ASSUME RuntimeInv, handlers # <<>>, Iret
    PROVE  RuntimeInv'
<1>1. Top.at = "iret" /\ Len(handlers) = 1 /\ handlers \in Seq(Frame) /\ phase = "call"
  BY TopFrame DEF Iret, Handler
<1>2. handlers' = <<>>
  BY <1>1 DEF Iret
<1>3. iflag' = TRUE /\ UNCHANGED <<main, ticks, keys, open, obf, irr, isr>>
  BY DEF Iret, device
<1>4. TypeOK'
  BY <1>2, <1>3 DEF main, RuntimeInv, TypeOK
<1>5. SectionIsMasked' /\ HandlerIsMasked'
  BY <1>1, <1>2, <1>3 DEF main, SectionIsMasked, HandlerIsMasked
<1>6. OneLine' /\ EOIAcknowledgesOwn'
  BY <1>1, <1>2, <1>3, HandlerState DEF main, OneLine, EOIAcknowledgesOwn
<1>7. ByteAnnounced'
  BY <1>1, <1>3, HandlerState DEF ByteAnnounced
<1>8. QED
  BY <1>4, <1>5, <1>6, <1>7 DEF RuntimeInv

-----------------------------------------------------------------------------
(* The specification *)

LEMMA NextKeepsInv ==
    ASSUME RuntimeInv, [Next]_vars
    PROVE  RuntimeInv'
<1>1. CASE HandlerStep
  <2>1. handlers # <<>> /\ ticks \in Nat /\ keys \in Nat
    BY <1>1 DEF HandlerStep, RuntimeInv, TypeOK
  <2>2. QED
    BY <1>1, <2>1, LoadKeepsInv, StoreKeepsInv, ReadKeyKeepsInv, HandlerPrintKeepsInv,
       EndOfInterruptKeepsInv, IretKeepsInv DEF HandlerStep, TimerHandler, KeyboardHandler
<1>2. CASE UNCHANGED vars
  BY <1>2 DEF vars, device, main, RuntimeInv, TypeOK, SectionIsMasked, HandlerIsMasked, OneLine,
              EOIAcknowledgesOwn, ByteAnnounced, Top
<1>3. QED
  BY <1>1, <1>2, DevicesKeepInv, DeliverKeepsInv, MainStepKeepsInv DEF Next, Done

LEMMA InitHolds ==
    ASSUME Init
    PROVE  RuntimeInv
<1>1. iflag = FALSE /\ saved = FALSE /\ handlers = <<>> /\ phase = "call"
  BY DEF Init
<1>2. TypeOK
  <2>1. reg = 0 /\ deadline = 0 /\ ticks = 0 /\ keys = 0 /\ handlers \in Seq(Frame)
    BY <1>1, EmptySeq DEF Init
  <2>2. obf \in [full : BOOLEAN, byte : Scancode]
    BY DEF Init
  <2>3. QED
    BY <1>1, <2>1, <2>2 DEF TypeOK
<1>3. SectionIsMasked /\ HandlerIsMasked
  BY <1>1 DEF SectionIsMasked, HandlerIsMasked
<1>4. OneLine /\ EOIAcknowledgesOwn /\ ByteAnnounced
  BY <1>1 DEF Init, OneLine, EOIAcknowledgesOwn, ByteAnnounced
<1>5. QED
  BY <1>2, <1>3, <1>4 DEF RuntimeInv

LEMMA RuntimeInvariant == Spec => []RuntimeInv
<1>1. Init => RuntimeInv
  BY InitHolds
<1>2. RuntimeInv /\ [Next]_vars => RuntimeInv'
  BY NextKeepsInv
<1>3. QED
  BY <1>1, <1>2, PTL DEF Spec

\* However interrupts and kernel_main interleave, no handler interrupts
\* another one and each runs with IF clear: without_interrupts puts back the
\* flag it found, also inside a handler (interrupts.rs, idt.rs).
THEOREM HandlersDoNotNest == Spec => []NoReentry
<1>1. RuntimeInv => NoReentry
  BY DEF RuntimeInv, HandlerIsMasked, NoReentry
<1>2. QED
  BY <1>1, RuntimeInvariant, PTL

\* A line is in service exactly until its own handler's EOI: pic.rs sends a
\* non-specific EOI, and unhandled_irq_handler one for an interrupt that was
\* never in service, and yet none ends the service of another line.
THEOREM EoisAreForTheirLine == Spec => []EOIAcknowledgesOwn
<1>1. RuntimeInv => EOIAcknowledgesOwn
  BY DEF RuntimeInv
<1>2. QED
  BY <1>1, RuntimeInvariant, PTL

\* No line of output is interrupted by another: kernel_main and the keyboard
\* handler never both are inside _print (serial.rs).
THEOREM LinesStayWhole == Spec => []LinesWhole
<1>1. RuntimeInv => LinesWhole
  <2>1. RuntimeInv => open = {} \/ open = {MAIN} \/ open = {1}
    BY DEF RuntimeInv, OneLine
  <2>2. Cardinality({}) = 0 /\ Cardinality({MAIN}) = 1 /\ Cardinality({1}) = 1
    BY FS_EmptySet, FS_Singleton
  <2>3. QED
    BY <2>1, <2>2 DEF LinesWhole
<1>2. QED
  BY <1>1, RuntimeInvariant, PTL

\* A byte in the 8042's buffer always has its interrupt coming or its handler
\* about to read it, so the keyboard cannot fall silent for good.
THEOREM BytesAreAnnounced == Spec => []ByteAnnounced
<1>1. RuntimeInv => ByteAnnounced
  BY DEF RuntimeInv
<1>2. QED
  BY <1>1, RuntimeInvariant, PTL

-----------------------------------------------------------------------------
(* The screen: what it shows of a text *)

\* A text is its lines; what is written of it are characters and line ends.
Text == Seq(Seq(DOMAIN Glyph))
Bytes == DOMAIN Glyph \cup {"\r", "\n"}

\* A text on a screen of rows lines: how many of its lines have scrolled away,
\* the row its last line is on, and whether dot p of the cell in column c of
\* row r is lit.
Hidden(text) == IF Len(text) > rows THEN Len(text) - rows ELSE 0
RowOf(text) == (IF Len(text) > rows THEN rows ELSE Len(text)) - 1
Lit(text, c, r, p) ==
    LET l == Hidden(text) + r + 1
    IN  /\ r < rows /\ c < columns
        /\ l <= Len(text) /\ c < Len(text[l]) /\ p \in Glyph[text[l][c + 1]]

\* A byte of the pixel at (x, y), and that the memory m shows the text.
Offset(x, y, k) == At(x, y) * WORD + k
Colour(text, x, y) ==
    IF Lit(text, x \div GLYPH_WIDTH, y \div GLYPH_HEIGHT, <<x % GLYPH_WIDTH, y % GLYPH_HEIGHT>>)
    THEN Foreground ELSE Background
Visible == (0 .. (fb.width - 1)) \X (0 .. (fb.height - 1)) \X (0 .. (WORD - 1))
Showed(m, text) ==
    \A v \in Visible : m[Offset(v[1], v[2], v[3])] = StoredByte(Colour(text, v[1], v[2]), v[3])

\* A framebuffer that Console::new accepts.
Usable == fb \in Framebuffers /\ Accepts

-----------------------------------------------------------------------------
(* Geometry *)

\* What an accepted framebuffer guarantees of its numbers.
LEMMA Sizes ==
    ASSUME Usable
    PROVE  /\ fb.width \in Nat \ {0} /\ fb.height \in Nat \ {0} /\ fb.stride \in Nat \ {0}
           /\ fb.size \in Nat /\ Memory \in Nat /\ WORD \in Nat \ {0}
           /\ GLYPH_WIDTH \in Nat \ {0} /\ GLYPH_HEIGHT \in Nat \ {0}
           /\ GLYPH_WIDTH <= fb.width /\ GLYPH_HEIGHT <= fb.height /\ fb.width <= fb.stride
           /\ fb.stride * fb.height * WORD <= fb.size /\ fb.size <= Memory
<1>1. /\ fb.width \in Nat /\ fb.height \in Nat /\ fb.stride \in Nat /\ fb.size \in Nat
      /\ fb.size <= Memory /\ Memory \in Nat
      /\ GLYPH_WIDTH \in Nat \ {0} /\ GLYPH_HEIGHT \in Nat \ {0}
  BY ConsoleAssumption DEF Usable
<1>2. WORD \in Nat \ {0}
  BY DEF WORD
<1>3. /\ GLYPH_WIDTH <= fb.width /\ GLYPH_HEIGHT <= fb.height /\ fb.width <= fb.stride
      /\ fb.stride * fb.height * WORD <= fb.size
  BY <1>1 DEF Usable, Accepts
<1>4. QED
  BY <1>1, <1>2, <1>3

\* Its grid of cells: at least one, and all within the visible pixels.
LEMMA Cells ==
    ASSUME Usable
    PROVE  /\ columns \in Nat \ {0} /\ rows \in Nat \ {0}
           /\ columns * GLYPH_WIDTH <= fb.width /\ rows * GLYPH_HEIGHT <= fb.height
<1>1. \A a \in Nat, m \in Nat \ {0} : m <= a => (a \div m) \in Nat \ {0} /\ (a \div m) * m <= a
  BY Z3
<1>2. QED
  BY <1>1, Sizes DEF columns, rows

\* Where a number lies in a grid of cells of m.
LEMMA InCell ==
    ASSUME NEW m \in Nat \ {0}, NEW x \in Nat, NEW c \in Nat, NEW d \in 0 .. (m - 1)
    PROVE  /\ x = c * m + d => c = x \div m /\ d = x % m
           /\ c = x \div m /\ d = x % m => x = c * m + d
           /\ x \div m \in Nat /\ x % m \in 0 .. (m - 1)
<1>1. x = m * (x \div m) + (x % m) /\ x \div m \in Nat /\ x % m \in 0 .. (m - 1)
  BY Z3
<1>2. (c * m + d) \div m = c /\ (c * m + d) % m = d
  BY QuotientIs
<1>3. c = x \div m /\ d = x % m => x = c * m + d
  BY <1>1
<1>4. QED
  BY <1>1, <1>2, <1>3

\* The bytes of a pixel, and where they are.
LEMMA PixelIsInside ==
    ASSUME Usable, NEW x \in 0 .. (fb.stride - 1), NEW y \in 0 .. (fb.height - 1),
           NEW k \in 0 .. (WORD - 1)
    PROVE  /\ At(x, y) \in Nat /\ At(x, y) < fb.stride * fb.height
           /\ Offset(x, y, k) \in Nat /\ Offset(x, y, k) < fb.stride * fb.height * WORD
           /\ Offset(x, y, k) \in 0 .. (Memory - 1)
           /\ Offset(x, y, k) \div WORD = At(x, y) /\ Offset(x, y, k) % WORD = k
<1> DEFINE p == fb.stride * fb.height
<1>1. /\ fb.height \in Nat /\ fb.stride \in Nat \ {0} /\ WORD \in Nat \ {0} /\ Memory \in Nat
      /\ fb.size \in Nat /\ p * WORD <= fb.size /\ fb.size <= Memory
  BY Sizes
<1>2. \A s \in Nat \ {0}, h \in Nat : \A a \in 0 .. (s - 1), b \in 0 .. (h - 1) :
         b * s + a \in Nat /\ b * s + a + 1 <= s * h
  <2> SUFFICES ASSUME NEW s \in Nat \ {0}, NEW h \in Nat, NEW a \in 0 .. (s - 1), NEW b \in 0 .. (h - 1)
               PROVE  b * s + a \in Nat /\ b * s + a + 1 <= s * h
    OBVIOUS
  <2>1. b + 1 \in Int /\ h \in Int /\ b + 1 <= h
    OBVIOUS
  <2>2. (b + 1) * s <= h * s
    BY <2>1, ProductOrder
  <2>3. (b + 1) * s = b * s + s /\ h * s = s * h /\ b * s \in Nat
    OBVIOUS
  <2>4. QED
    BY <2>2, <2>3
<1>3. At(x, y) \in Nat /\ At(x, y) + 1 <= p /\ p \in Nat
  BY <1>1, <1>2 DEF At
<1> HIDE DEF p
<1>4. (At(x, y) + 1) * WORD <= p * WORD
  BY <1>1, <1>3, ProductOrder
<1>5. (At(x, y) + 1) * WORD = At(x, y) * WORD + WORD /\ At(x, y) * WORD \in Nat /\ p * WORD \in Nat
  BY <1>1, <1>3
<1>6. Offset(x, y, k) \in Nat /\ Offset(x, y, k) < p * WORD
  BY <1>1, <1>4, <1>5 DEF Offset
<1>7. Offset(x, y, k) \div WORD = At(x, y) /\ Offset(x, y, k) % WORD = k
  BY <1>1, <1>3, QuotientIs DEF Offset
<1>8. Offset(x, y, k) \in 0 .. (Memory - 1)
  BY <1>1, <1>5, <1>6
<1>9. At(x, y) < p
  BY <1>3
<1>10. QED
  BY <1>3, <1>6, <1>7, <1>8, <1>9 DEF p

\* No two pixels share a word.
LEMMA OnePixel ==
    ASSUME NEW x \in 0 .. (fb.stride - 1), NEW y \in Nat, NEW u \in 0 .. (fb.stride - 1), NEW v \in Nat,
           fb.stride \in Nat \ {0}, At(x, y) = At(u, v)
    PROVE  x = u /\ y = v
<1>1. (y * fb.stride + x) \div fb.stride = y /\ (y * fb.stride + x) % fb.stride = x
  BY QuotientIs
<1>2. (v * fb.stride + u) \div fb.stride = v /\ (v * fb.stride + u) % fb.stride = u
  BY QuotientIs
<1>3. QED
  BY <1>1, <1>2 DEF At
-----------------------------------------------------------------------------
(* The text *)

\* The line the cursor is on.
LEMMA LastLine ==
    ASSUME Usable, NEW text \in Text, Len(text) >= 1
    PROVE  /\ Len(text) \in Nat /\ Hidden(text) \in Nat /\ RowOf(text) \in 0 .. (rows - 1)
           /\ Hidden(text) + RowOf(text) + 1 = Len(text)
           /\ text[Len(text)] \in Seq(DOMAIN Glyph) /\ Len(text[Len(text)]) \in Nat
<1>1. Len(text) \in Nat /\ rows \in Nat \ {0}
  BY Cells DEF Text
<1>2. text[Len(text)] \in Seq(DOMAIN Glyph)
  BY <1>1 DEF Text
<1>3. QED
  BY <1>1, <1>2 DEF Hidden, RowOf

\* A sequence with its last element replaced.
LEMMA LastReplaced ==
    ASSUME NEW S, NEW u, NEW n, NEW e, NEW v,
           u \in Seq(S), n = Len(u), n >= 1, e \in S, v = [u EXCEPT ![n] = e]
    PROVE  /\ v \in Seq(S) /\ Len(v) = n /\ v[n] = e
           /\ \A j \in 1 .. n : j # n => v[j] = u[j]
<1>1. Len(u) \in Nat /\ Len(u) \in 1 .. Len(u)
  OBVIOUS
<1>2. QED
  BY <1>1

\* A character more: the dots of its cell are its glyph's, and no other's change.
LEMMA CharLit ==
    ASSUME Usable, NEW text \in Text, Len(text) >= 1, NEW byte \in DOMAIN Glyph,
           Len(text[Len(text)]) < columns, NEW c \in Nat, NEW r \in Nat, NEW p
    PROVE  LET more == [text EXCEPT ![Len(text)] = Append(@, byte)]
           IN  Lit(more, c, r, p) <=>
                  IF c = Len(text[Len(text)]) /\ r = RowOf(text) THEN p \in Glyph[byte]
                  ELSE Lit(text, c, r, p)
<1> DEFINE n == Len(text)
           last == text[n]
           more == [text EXCEPT ![n] = Append(@, byte)]
           l == Hidden(text) + r + 1
<1>1. /\ n \in Nat /\ n \in 1 .. n /\ last \in Seq(DOMAIN Glyph) /\ Len(last) \in Nat
      /\ Hidden(text) \in Nat /\ RowOf(text) \in 0 .. (rows - 1) /\ Hidden(text) + RowOf(text) + 1 = n
  BY LastLine
<1>2. /\ more \in Text /\ Len(more) = n /\ more[n] = Append(last, byte)
      /\ \A j \in 1 .. n : j # n => more[j] = text[j]
  <2>1. Append(last, byte) \in Seq(DOMAIN Glyph) /\ more = [text EXCEPT ![n] = Append(last, byte)]
    BY <1>1
  <2>2. text \in Seq(Seq(DOMAIN Glyph)) /\ n = Len(text) /\ n >= 1
    BY DEF Text
  <2> HIDE DEF more, last, n
  <2>3. /\ more \in Seq(Seq(DOMAIN Glyph)) /\ Len(more) = n /\ more[n] = Append(last, byte)
        /\ \A j \in 1 .. n : j # n => more[j] = text[j]
    BY <2>1, <2>2, LastReplaced, SMTT(30)
  <2>4. QED
    BY <2>3, Zenon DEF Text
<1>3. Hidden(more) = Hidden(text)
  BY <1>2 DEF Hidden
<1>4. l \in Nat /\ (l = n <=> r = RowOf(text)) /\ l >= 1 /\ rows \in Nat /\ columns \in Nat
  BY <1>1, Cells
<1>5. /\ Len(Append(last, byte)) = Len(last) + 1 /\ Append(last, byte)[Len(last) + 1] = byte
      /\ c < Len(last) => Append(last, byte)[c + 1] = last[c + 1]
  BY <1>1
<1> HIDE DEF more, last, l, n
<1>6. Lit(more, c, r, p) <=> /\ r < rows /\ c < columns
                             /\ l <= n /\ c < Len(more[l]) /\ p \in Glyph[more[l][c + 1]]
  BY <1>2, <1>3 DEF Lit, l
<1>7. Lit(text, c, r, p) <=> /\ r < rows /\ c < columns
                             /\ l <= n /\ c < Len(text[l]) /\ p \in Glyph[text[l][c + 1]]
  BY DEF Lit, l, n
<1>8. CASE r # RowOf(text)
  <2>1. l <= n => l \in 1 .. n /\ more[l] = text[l]
    BY <1>1, <1>2, <1>4, <1>8
  <2>2. QED
    BY <1>6, <1>7, <1>8, <2>1 DEF more, n
<1>9. CASE r = RowOf(text) /\ c = Len(last)
  <2>1. l = n /\ l <= n /\ more[l] = Append(last, byte) /\ r < rows /\ c < columns /\ c < Len(more[l])
    BY <1>1, <1>2, <1>4, <1>5, <1>9, SMTT(30) DEF last, n
  <2>2. more[l][c + 1] = byte
    BY <1>5, <1>9, <2>1
  <2>3. QED
    BY <1>6, <1>9, <2>1, <2>2 DEF more, last, n
<1>10. CASE r = RowOf(text) /\ c # Len(last)
  <2>1. l = n /\ more[l] = Append(last, byte) /\ text[l] = last
    BY <1>2, <1>4, <1>10 DEF last
  <2>2. c < Len(more[l]) <=> c < Len(text[l])
    BY <1>1, <1>5, <1>10, <2>1
  <2>3. c < Len(text[l]) => more[l][c + 1] = text[l][c + 1]
    BY <1>5, <2>1
  <2>4. QED
    BY <1>6, <1>7, <1>10, <2>2, <2>3 DEF more, last, n
<1>11. QED
  BY <1>8, <1>9, <1>10

\* An empty line more, on a screen with room for it, and on a full one.
LEMMA LineLit ==
    ASSUME Usable, NEW text \in Text, Len(text) >= 1, NEW c \in Nat, NEW r \in Nat, NEW p
    PROVE  LET more == Append(text, <<>>)
           IN  IF Len(text) < rows THEN Lit(more, c, r, p) <=> Lit(text, c, r, p)
               ELSE /\ r + 1 < rows => (Lit(more, c, r, p) <=> Lit(text, c, r + 1, p))
                    /\ r + 1 >= rows => ~Lit(more, c, r, p) /\ ~Lit(text, c, r + 1, p)
<1> DEFINE n == Len(text)
           more == Append(text, <<>>)
           l == Hidden(more) + r + 1
<1>1. n \in Nat /\ n >= 1 /\ rows \in Nat \ {0} /\ columns \in Nat
  BY Cells, LastLine
<1>2. /\ Len(more) = n + 1 /\ more[n + 1] = <<>> /\ \A j \in 1 .. n : more[j] = text[j]
  BY DEF Text
<1>3. Hidden(more) \in Nat /\ Hidden(text) \in Nat /\ l \in Nat /\ l >= 1
  BY <1>1, <1>2 DEF Hidden
<1>4. ~(c < Len(<<>>))
  OBVIOUS
<1> HIDE DEF more, l, n
<1>5. Lit(more, c, r, p) <=> /\ r < rows /\ c < columns
                             /\ l <= n + 1 /\ c < Len(more[l]) /\ p \in Glyph[more[l][c + 1]]
  BY <1>2 DEF Lit, l
<1>6. Lit(more, c, r, p) <=> /\ r < rows /\ c < columns
                             /\ l <= n /\ c < Len(text[l]) /\ p \in Glyph[text[l][c + 1]]
  <2>1. CASE l <= n
    <3>1. more[l] = text[l] /\ l <= n + 1
      BY <1>1, <1>2, <1>3, <2>1
    <3>2. QED
      BY <1>5, <2>1, <3>1
  <2>2. CASE ~(l <= n)
    <3>1. l <= n + 1 => more[l] = <<>>
      BY <1>1, <1>2, <1>3, <2>2
    <3>2. QED
      BY <1>4, <1>5, <2>2, <3>1
  <2>3. QED
    BY <2>1, <2>2
<1>7. CASE n < rows
  <2>1. Hidden(more) = 0 /\ Hidden(text) = 0
    BY <1>1, <1>2, <1>7 DEF Hidden, n
  <2>2. Lit(text, c, r, p) <=> /\ r < rows /\ c < columns
                               /\ l <= n /\ c < Len(text[l]) /\ p \in Glyph[text[l][c + 1]]
    BY <2>1 DEF Lit, l, n
  <2>3. QED
    BY <1>6, <1>7, <2>2 DEF more, n
<1>8. CASE ~(n < rows)
  <2>1. Hidden(more) = n + 1 - rows /\ Hidden(text) = n - rows
    BY <1>1, <1>2, <1>8 DEF Hidden, n
  <2>2. Hidden(text) + (r + 1) + 1 = l
    BY <1>1, <2>1 DEF l
  <2>3. Lit(text, c, r + 1, p) <=> /\ r + 1 < rows /\ c < columns
                                   /\ l <= n /\ c < Len(text[l]) /\ p \in Glyph[text[l][c + 1]]
    BY <2>2 DEF Lit, n
  <2>4. r + 1 < rows => r < rows
    BY <1>1
  <2>5. r + 1 >= rows => ~(r + 1 < rows) /\ ~(l <= n)
    BY <1>1, <2>1 DEF l
  <2>6. QED
    BY <1>6, <1>8, <2>3, <2>4, <2>5 DEF more, n
<1>9. QED
  BY <1>7, <1>8
-----------------------------------------------------------------------------
(* The painters *)

\* The dots of a cell.
Dots == (0 .. (GLYPH_WIDTH - 1)) \X (0 .. (GLYPH_HEIGHT - 1))

\* A byte of a pixel is inside the framebuffer.
LEMMA WordIsInside ==
    ASSUME Usable, NEW i \in Nat, NEW u \in 0 .. (fb.stride - 1), NEW v \in 0 .. (fb.height - 1),
           i \div WORD = At(u, v)
    PROVE  i < fb.stride * fb.height * WORD /\ i < fb.size
<1>1. /\ WORD \in Nat \ {0} /\ fb.stride * fb.height * WORD <= fb.size /\ fb.size \in Nat
      /\ fb.stride * fb.height * WORD \in Nat
  <2>1. fb.stride * fb.height \in Nat
    BY Sizes
  <2>2. QED
    BY <2>1, Sizes
<1>2. i = WORD * (i \div WORD) + (i % WORD) /\ i % WORD \in 0 .. (WORD - 1)
  BY <1>1, Z3
<1>3. At(u, v) \in Nat
  BY <1>2, PixelIsInside
<1>4. WORD * At(u, v) = At(u, v) * WORD
  BY <1>1, <1>3
<1>5. i = Offset(u, v, i % WORD)
  BY <1>2, <1>4 DEF Offset
<1>6. Offset(u, v, i % WORD) < fb.stride * fb.height * WORD
  BY <1>2, PixelIsInside
<1>7. QED
  BY <1>1, <1>5, <1>6

\* A visible pixel is one of its scanline.
LEMMA InScanline ==
    ASSUME Usable, NEW x \in 0 .. (fb.width - 1)
    PROVE  x \in Nat /\ x \in 0 .. (fb.stride - 1)
<1>1. fb.width \in Nat /\ fb.width <= fb.stride /\ fb.stride \in Nat
  BY Sizes
<1>2. QED
  BY <1>1

\* A dot of a cell of the screen is a visible pixel.
LEMMA DotIsVisible ==
    ASSUME Usable, NEW c \in 0 .. (columns - 1), NEW r \in 0 .. (rows - 1), NEW p \in Dots
    PROVE  /\ p[1] \in 0 .. (GLYPH_WIDTH - 1) /\ p[2] \in 0 .. (GLYPH_HEIGHT - 1) /\ p = <<p[1], p[2]>>
           /\ c * GLYPH_WIDTH + p[1] \in 0 .. (fb.width - 1)
           /\ r * GLYPH_HEIGHT + p[2] \in 0 .. (fb.height - 1)
<1>1. p[1] \in 0 .. (GLYPH_WIDTH - 1) /\ p[2] \in 0 .. (GLYPH_HEIGHT - 1) /\ p = <<p[1], p[2]>>
  BY DEF Dots
<1>2. \A g \in Nat \ {0}, n \in Nat, w \in Nat : n * g <= w =>
         \A a \in 0 .. (n - 1), d \in 0 .. (g - 1) : a * g + d \in 0 .. (w - 1)
  <2> SUFFICES ASSUME NEW g \in Nat \ {0}, NEW n \in Nat, NEW w \in Nat, n * g <= w,
                      NEW a \in 0 .. (n - 1), NEW d \in 0 .. (g - 1)
               PROVE  a * g + d \in 0 .. (w - 1)
    OBVIOUS
  <2>1. a + 1 \in Int /\ n \in Int /\ a + 1 <= n
    OBVIOUS
  <2>2. (a + 1) * g <= n * g
    BY <2>1, ProductOrder
  <2>3. (a + 1) * g = a * g + g /\ a * g \in Nat /\ n * g \in Nat
    OBVIOUS
  <2>4. QED
    BY <2>2, <2>3
<1>3. /\ GLYPH_WIDTH \in Nat \ {0} /\ GLYPH_HEIGHT \in Nat \ {0} /\ columns \in Nat /\ rows \in Nat
      /\ fb.width \in Nat /\ fb.height \in Nat
      /\ columns * GLYPH_WIDTH <= fb.width /\ rows * GLYPH_HEIGHT <= fb.height
  BY Sizes, Cells
<1>4. c * GLYPH_WIDTH + p[1] \in 0 .. (fb.width - 1)
  BY <1>1, <1>2, <1>3
<1>5. r * GLYPH_HEIGHT + p[2] \in 0 .. (fb.height - 1)
  BY <1>1, <1>2, <1>3
<1>6. QED
  BY <1>1, <1>4, <1>5

\* What draw_glyph does to a pixel.
LEMMA DrawnPixel ==
    ASSUME Usable, NEW s, DOMAIN s.mem = 0 .. (Memory - 1),
           s.column \in 0 .. (columns - 1), s.row \in 0 .. (rows - 1), NEW byte \in DOMAIN Glyph,
           NEW x \in 0 .. (fb.width - 1), NEW y \in 0 .. (fb.height - 1), NEW k \in 0 .. (WORD - 1)
    PROVE  draw_glyph(s, byte)[Offset(x, y, k)] =
              IF x \div GLYPH_WIDTH = s.column /\ y \div GLYPH_HEIGHT = s.row
              THEN IF <<x % GLYPH_WIDTH, y % GLYPH_HEIGHT>> \in Glyph[byte]
                   THEN StoredByte(Foreground, k) ELSE StoredByte(Background, k)
              ELSE s.mem[Offset(x, y, k)]
<1> DEFINE i == Offset(x, y, k)
           covers(p) == i \div WORD = At(s.column * GLYPH_WIDTH + p[1], s.row * GLYPH_HEIGHT + p[2])
           here == x \div GLYPH_WIDTH = s.column /\ y \div GLYPH_HEIGHT = s.row
           dot == <<x % GLYPH_WIDTH, y % GLYPH_HEIGHT>>
<1>1. /\ fb.width \in Nat /\ fb.width <= fb.stride /\ fb.stride \in Nat \ {0} /\ fb.height \in Nat
      /\ GLYPH_WIDTH \in Nat \ {0} /\ GLYPH_HEIGHT \in Nat \ {0} /\ columns \in Nat /\ rows \in Nat
  BY Sizes, Cells
<1>2. x \in Nat /\ y \in Nat /\ x \in 0 .. (fb.stride - 1) /\ s.column \in Nat /\ s.row \in Nat
  BY <1>1, SMTT(30)
<1>3. i \div WORD = At(x, y) /\ i % WORD = k /\ i \in DOMAIN s.mem
  BY <1>2, PixelIsInside
<1>4. ASSUME NEW p \in Dots PROVE covers(p) <=> here /\ p = dot
  <2> DEFINE u == s.column * GLYPH_WIDTH + p[1]
             v == s.row * GLYPH_HEIGHT + p[2]
  <2>1. /\ p[1] \in 0 .. (GLYPH_WIDTH - 1) /\ p[2] \in 0 .. (GLYPH_HEIGHT - 1) /\ p = <<p[1], p[2]>>
        /\ u \in 0 .. (fb.width - 1) /\ v \in 0 .. (fb.height - 1)
    BY DotIsVisible
  <2>2. x = u <=> s.column = x \div GLYPH_WIDTH /\ p[1] = x % GLYPH_WIDTH
    <3>1. GLYPH_WIDTH \in Nat \ {0} /\ x \in Nat /\ s.column \in Nat /\ p[1] \in 0 .. (GLYPH_WIDTH - 1)
      BY <1>1, <1>2, <2>1
    <3>2. \A c \in Nat, d \in 0 .. (GLYPH_WIDTH - 1) :
             x = c * GLYPH_WIDTH + d => c = x \div GLYPH_WIDTH /\ d = x % GLYPH_WIDTH
      BY <1>1, <1>2, InCell
    <3>3. \A c \in Nat, d \in 0 .. (GLYPH_WIDTH - 1) :
             c = x \div GLYPH_WIDTH /\ d = x % GLYPH_WIDTH => x = c * GLYPH_WIDTH + d
      BY <1>1, <1>2, InCell
    <3>4. QED
      BY <3>1, <3>2, <3>3
  <2>3. y = v <=> s.row = y \div GLYPH_HEIGHT /\ p[2] = y % GLYPH_HEIGHT
    <3>1. GLYPH_HEIGHT \in Nat \ {0} /\ y \in Nat /\ s.row \in Nat /\ p[2] \in 0 .. (GLYPH_HEIGHT - 1)
      BY <1>1, <1>2, <2>1
    <3>2. \A c \in Nat, d \in 0 .. (GLYPH_HEIGHT - 1) :
             y = c * GLYPH_HEIGHT + d => c = y \div GLYPH_HEIGHT /\ d = y % GLYPH_HEIGHT
      BY <1>1, <1>2, InCell
    <3>3. \A c \in Nat, d \in 0 .. (GLYPH_HEIGHT - 1) :
             c = y \div GLYPH_HEIGHT /\ d = y % GLYPH_HEIGHT => y = c * GLYPH_HEIGHT + d
      BY <1>1, <1>2, InCell
    <3>4. QED
      BY <3>1, <3>2, <3>3
  <2> HIDE DEF u, v
  <2>4. u \in 0 .. (fb.stride - 1) /\ v \in Nat
    <3>1. u \in 0 .. (fb.stride - 1)
      BY <2>1, InScanline
    <3>2. v \in 0 .. (fb.height - 1)
      BY <2>1
    <3>3. QED
      BY <3>1, <3>2
  <2>5. covers(p) <=> At(x, y) = At(u, v)
    BY <1>3 DEF u, v
  <2>6. At(x, y) = At(u, v) <=> x = u /\ y = v
    <3>1. At(x, y) = At(u, v) => x = u /\ y = v
      BY <1>1, <1>2, <2>4, OnePixel
    <3>2. QED
      BY <3>1
  <2>7. p = dot <=> p[1] = x % GLYPH_WIDTH /\ p[2] = y % GLYPH_HEIGHT
    BY <2>1
  <2>8. QED
    BY <2>2, <2>3, <2>5, <2>6, <2>7
<1>5. Glyph[byte] \subseteq Dots
  BY ConsoleAssumption DEF Dots
<1>6. here => dot \in Dots
  <2>1. x % GLYPH_WIDTH \in 0 .. (GLYPH_WIDTH - 1)
    BY <1>1, <1>2, Z3T(30)
  <2>2. y % GLYPH_HEIGHT \in 0 .. (GLYPH_HEIGHT - 1)
    BY <1>1, <1>2, Z3T(30)
  <2>3. QED
    BY <2>1, <2>2 DEF Dots
<1>7. (\E p \in Glyph[byte] : covers(p)) <=> here /\ dot \in Glyph[byte]
  BY <1>4, <1>5, Zenon
<1>8. (\E p \in Dots : covers(p)) <=> here
  BY <1>4, <1>6, Zenon
<1>9. draw_glyph(s, byte)[i] =
         IF \E p \in Glyph[byte] : covers(p) THEN StoredByte(Foreground, k)
         ELSE IF \E p \in Dots : covers(p) THEN StoredByte(Background, k)
         ELSE s.mem[i]
  <2> HIDE DEF i
  <2>1. QED
    BY <1>3 DEF draw_glyph, Dots
<1> HIDE DEF covers, i, here, dot
<1>10. draw_glyph(s, byte)[i] = IF here THEN IF dot \in Glyph[byte] THEN StoredByte(Foreground, k)
                                             ELSE StoredByte(Background, k)
                                ELSE s.mem[i]
  BY <1>7, <1>8, <1>9
<1>11. QED
  BY <1>10 DEF i, here, dot

\* draw_glyph writes inside the framebuffer.
LEMMA DrawnInside ==
    ASSUME Usable, NEW s, DOMAIN s.mem = 0 .. (Memory - 1),
           s.column \in 0 .. (columns - 1), s.row \in 0 .. (rows - 1), NEW byte \in DOMAIN Glyph
    PROVE  /\ DOMAIN draw_glyph(s, byte) = 0 .. (Memory - 1)
           /\ \A i \in 0 .. (Memory - 1) : i >= fb.size => draw_glyph(s, byte)[i] = s.mem[i]
<1> DEFINE place(p) == At(s.column * GLYPH_WIDTH + p[1], s.row * GLYPH_HEIGHT + p[2])
<1>1. ASSUME NEW i \in 0 .. (Memory - 1), i >= fb.size, NEW p \in Dots PROVE i \div WORD # place(p)
  <2>1. /\ fb.width \in Nat /\ fb.width <= fb.stride /\ fb.stride \in Nat /\ Memory \in Nat
        /\ fb.size \in Nat
    BY Sizes
  <2>2. /\ s.column * GLYPH_WIDTH + p[1] \in 0 .. (fb.stride - 1)
        /\ s.row * GLYPH_HEIGHT + p[2] \in 0 .. (fb.height - 1)
    <3>1. /\ s.column * GLYPH_WIDTH + p[1] \in 0 .. (fb.width - 1)
          /\ s.row * GLYPH_HEIGHT + p[2] \in 0 .. (fb.height - 1)
      BY DotIsVisible
    <3>2. QED
      BY <3>1, InScanline
  <2>3. i \in Nat /\ ~(i < fb.size)
    BY <1>1, <2>1
  <2>4. QED
    BY <2>2, <2>3, WordIsInside
<1>2. Glyph[byte] \subseteq Dots
  BY ConsoleAssumption DEF Dots
<1>3. DOMAIN draw_glyph(s, byte) = 0 .. (Memory - 1)
  BY DEF draw_glyph
<1>4. ASSUME NEW i \in 0 .. (Memory - 1), i >= fb.size PROVE draw_glyph(s, byte)[i] = s.mem[i]
  <2>1. ~(\E p \in Dots : i \div WORD = place(p)) /\ ~(\E p \in Glyph[byte] : i \div WORD = place(p))
    BY <1>1, <1>2, <1>4, Zenon
  <2>2. QED
    BY <2>1 DEF draw_glyph, Dots
<1>5. QED
  BY <1>3, <1>4

\* What scroll does to a pixel.
LEMMA ScrolledPixel ==
    ASSUME Usable, NEW m, DOMAIN m = 0 .. (Memory - 1),
           NEW x \in 0 .. (fb.width - 1), NEW y \in 0 .. (fb.height - 1), NEW k \in 0 .. (WORD - 1)
    PROVE  scroll(m)[Offset(x, y, k)] =
              IF y + GLYPH_HEIGHT < fb.height THEN m[Offset(x, y + GLYPH_HEIGHT, k)]
              ELSE StoredByte(Background, k)
<1> DEFINE i == Offset(x, y, k)
           shift == GLYPH_HEIGHT * fb.stride
           pixels == fb.height * fb.stride
           bottom == \E u \in 0 .. (fb.width - 1), v \in (fb.height - GLYPH_HEIGHT) .. (fb.height - 1) :
                        i \div WORD = At(u, v)
<1>1. /\ fb.width \in Nat /\ fb.stride \in Nat \ {0} /\ fb.height \in Nat
      /\ GLYPH_HEIGHT \in Nat \ {0} /\ GLYPH_HEIGHT <= fb.height /\ WORD \in Nat
  BY Sizes
<1>2. x \in 0 .. (fb.stride - 1) /\ y \in Nat
  BY <1>1, InScanline
<1>3. i \div WORD = At(x, y) /\ i % WORD = k /\ i \in DOMAIN m /\ i \in Nat
  BY <1>2, PixelIsInside
<1>4. scroll(m)[i] = IF bottom THEN StoredByte(Background, k)
                     ELSE IF i < (pixels - shift) * WORD THEN m[i + shift * WORD] ELSE m[i]
  <2> HIDE DEF i
  <2>1. QED
    BY <1>3 DEF scroll
<1>5. CASE y + GLYPH_HEIGHT < fb.height
  <2>1. ~bottom
    <3>1. ASSUME NEW u \in 0 .. (fb.width - 1), NEW v \in (fb.height - GLYPH_HEIGHT) .. (fb.height - 1),
                 At(x, y) = At(u, v)
          PROVE  FALSE
      <4>1. u \in 0 .. (fb.stride - 1) /\ v \in Nat /\ y < v
        BY <1>1, <1>5, InScanline
      <4>2. y = v
        BY <1>1, <1>2, <3>1, <4>1, OnePixel
      <4>3. QED
        BY <1>2, <4>1, <4>2
    <3>2. QED
      BY <1>3, <3>1
  <2>2. y + GLYPH_HEIGHT \in 0 .. (fb.height - 1)
    BY <1>1, <1>2, <1>5
  <2>3. At(x, y + GLYPH_HEIGHT) = At(x, y) + shift /\ At(x, y) \in Nat /\ shift \in Nat
    <3>1. PICK w \in Nat, h \in Nat : w = fb.stride /\ h = GLYPH_HEIGHT
      BY <1>1
    <3>2. x \in Nat /\ y \in Nat
      BY <1>1, <1>2
    <3>3. y * w \in Nat /\ h * w \in Nat /\ (y + h) * w = y * w + h * w
      BY <3>2
    <3>4. (y + h) * w + x = (y * w + x) + h * w /\ y * w + x \in Nat
      BY <3>2, <3>3
    <3>5. QED
      BY <3>1, <3>3, <3>4 DEF At
  <2>4. Offset(x, y + GLYPH_HEIGHT, k) = i + shift * WORD
    BY <2>3 DEF Offset, WORD
  <2>5. Offset(x, y + GLYPH_HEIGHT, k) < fb.stride * fb.height * WORD
    BY <1>2, <2>2, PixelIsInside
  <2>6. pixels = fb.stride * fb.height /\ pixels \in Nat
    BY <1>1, SMTT(30)
  <2> HIDE DEF i, shift, pixels
  <2>7. i + shift * WORD < pixels * WORD
    BY <2>4, <2>5, <2>6
  <2>8. i < (pixels - shift) * WORD
    BY <1>3, <2>3, <2>6, <2>7, SMTT(30) DEF WORD
  <2>9. QED
    BY <1>4, <1>5, <2>1, <2>4, <2>8 DEF i
<1>6. CASE ~(y + GLYPH_HEIGHT < fb.height)
  <2>1. y \in (fb.height - GLYPH_HEIGHT) .. (fb.height - 1)
    BY <1>1, <1>2, <1>6
  <2>2. bottom
    BY <1>3, <2>1
  <2>3. QED
    BY <1>4, <1>6, <2>2
<1>7. QED
  BY <1>5, <1>6

\* scroll writes inside the framebuffer.
LEMMA ScrolledInside ==
    ASSUME Usable, NEW m, DOMAIN m = 0 .. (Memory - 1)
    PROVE  /\ DOMAIN scroll(m) = 0 .. (Memory - 1)
           /\ \A i \in 0 .. (Memory - 1) : i >= fb.size => scroll(m)[i] = m[i]
<1> DEFINE shift == GLYPH_HEIGHT * fb.stride
           pixels == fb.height * fb.stride
<1>1. /\ fb.width \in Nat /\ fb.stride \in Nat /\ fb.height \in Nat /\ Memory \in Nat
      /\ GLYPH_HEIGHT \in Nat /\ GLYPH_HEIGHT <= fb.height /\ fb.size \in Nat
      /\ fb.stride * fb.height * WORD <= fb.size
  BY Sizes
<1>2. DOMAIN scroll(m) = 0 .. (Memory - 1)
  BY DEF scroll
<1>3. ASSUME NEW i \in 0 .. (Memory - 1), i >= fb.size PROVE scroll(m)[i] = m[i]
  <2>1. i \in Nat /\ ~(i < fb.size)
    BY <1>1, <1>3
  <2>2. ~(\E u \in 0 .. (fb.width - 1), v \in (fb.height - GLYPH_HEIGHT) .. (fb.height - 1) :
             i \div WORD = At(u, v))
    <3>1. ASSUME NEW u \in 0 .. (fb.width - 1), NEW v \in (fb.height - GLYPH_HEIGHT) .. (fb.height - 1),
                 i \div WORD = At(u, v)
          PROVE  FALSE
      <4>1. u \in 0 .. (fb.stride - 1) /\ v \in 0 .. (fb.height - 1)
        BY <1>1, InScanline, SMTT(30)
      <4>2. QED
        BY <2>1, <3>1, <4>1, WordIsInside
    <3>2. QED
      BY <3>1
  <2>3. ~(i < (pixels - shift) * WORD)
    <3>1. pixels = fb.stride * fb.height /\ pixels \in Nat /\ shift \in Nat
      BY <1>1
    <3> HIDE DEF pixels, shift
    <3>2. pixels * WORD <= i
      BY <1>1, <1>3, <3>1 DEF WORD
    <3>3. QED
      BY <2>1, <3>1, <3>2 DEF WORD
  <2>4. QED
    BY <2>2, <2>3 DEF scroll
<1>4. QED
  BY <1>2, <1>3

\* fill_screen stores the bytes of the background as console.rs would.
LEMMA FillIsPacked ==
    ASSUME fb.format \in {"Rgb", "Bgr"}, NEW k \in 0 .. (WORD - 1)
    PROVE  FillPixel(Background)[k + 1] = StoredByte(Background, k)
<1>1. k \in 0 .. 3
  BY DEF WORD
<1>2. CASE fb.format = "Rgb"
  <2>1. pack(Background) = 10040064 /\ FillPixel(Background) = <<0, 51, 153, 0>>
    BY <1>2, SMT DEF pack, FillPixel, Background
  <2>2. QED
    BY <1>1, <2>1, SMT DEF StoredByte, Weight
<1>3. CASE fb.format = "Bgr"
  <2>1. fb.format # "Rgb"
    BY <1>3
  <2>2. pack(Background) = 13209 /\ FillPixel(Background) = <<153, 51, 0, 0>>
    BY <2>1, SMT DEF pack, FillPixel, Background
  <2>3. QED
    BY <1>1, <2>2, SMT DEF StoredByte, Weight
<1>4. QED
  BY <1>2, <1>3
-----------------------------------------------------------------------------
(* The cursor and the memory follow the text *)

\* The memory m behind a cursor in column c of row r.
Cursor(m, c, r) == [mem |-> m, column |-> c, row |-> r]

\* WritesStayInside, of the memory m.
Unspoilt(m) == \A i \in 0 .. (Memory - 1) : i >= fb.size => m[i] = FOREIGN

\* They show the text, with the cursor behind its last character.
Follows(m, c, r, text) ==
    /\ text \in Text /\ Len(text) >= 1 /\ Len(text[Len(text)]) <= columns
    /\ c = Len(text[Len(text)]) /\ r = RowOf(text)
    /\ DOMAIN m = 0 .. (Memory - 1) /\ Unspoilt(m) /\ Showed(m, text)

\* Drawing a character on a line that has room for it.
LEMMA CharFollows ==
    ASSUME Usable, NEW m, NEW c, NEW r, NEW text, Follows(m, c, r, text), c < columns,
           NEW byte \in DOMAIN Glyph
    PROVE  Follows(draw_glyph(Cursor(m, c, r), byte), c + 1, r, [text EXCEPT ![Len(text)] = Append(@, byte)])
<1> DEFINE s == Cursor(m, c, r)
           d == draw_glyph(s, byte)
           n == Len(text)
           more == [text EXCEPT ![n] = Append(@, byte)]
<1>1. /\ text \in Text /\ n >= 1 /\ c = Len(text[n]) /\ r = RowOf(text)
      /\ DOMAIN m = 0 .. (Memory - 1) /\ Unspoilt(m) /\ Showed(m, text)
  BY DEF Follows
<1>2. /\ n \in Nat /\ c \in Nat /\ r \in 0 .. (rows - 1) /\ text[n] \in Seq(DOMAIN Glyph)
      /\ columns \in Nat /\ rows \in Nat
  BY <1>1, LastLine, Cells
<1>3. s.mem = m /\ s.column = c /\ s.row = r /\ s.column \in 0 .. (columns - 1) /\ s.row \in 0 .. (rows - 1)
  BY <1>2 DEF Cursor
<1>4. /\ more \in Text /\ Len(more) = n /\ Len(more[n]) = c + 1
  <2>1. PICK last \in Seq(DOMAIN Glyph) : last = text[n]
    BY <1>2
  <2>2. /\ Append(last, byte) \in Seq(DOMAIN Glyph) /\ Len(Append(last, byte)) = c + 1
        /\ more = [text EXCEPT ![n] = Append(last, byte)]
    BY <1>1, <2>1
  <2>3. text \in Seq(Seq(DOMAIN Glyph)) /\ n = Len(text) /\ n >= 1
    BY <1>1 DEF Text
  <2> HIDE DEF more, n
  <2>4. more \in Seq(Seq(DOMAIN Glyph)) /\ Len(more) = n /\ more[n] = Append(last, byte)
    BY <2>2, <2>3, LastReplaced, SMTT(30)
  <2>5. QED
    BY <2>2, <2>4, Zenon DEF Text
<1>5. RowOf(more) = r
  BY <1>1, <1>4 DEF RowOf
<1>6. DOMAIN d = 0 .. (Memory - 1) /\ Unspoilt(d)
  <2>1. /\ DOMAIN d = 0 .. (Memory - 1)
        /\ \A i \in 0 .. (Memory - 1) : i >= fb.size => d[i] = m[i]
    <3> HIDE DEF s
    <3>1. DOMAIN s.mem = 0 .. (Memory - 1)
      BY <1>1, <1>3
    <3>2. /\ DOMAIN draw_glyph(s, byte) = 0 .. (Memory - 1)
          /\ \A i \in 0 .. (Memory - 1) : i >= fb.size => draw_glyph(s, byte)[i] = s.mem[i]
      BY <1>3, <3>1, DrawnInside, ZenonT(60)
    <3>3. QED
      BY <1>3, <3>2, ZenonT(60)
  <2>2. QED
    BY <1>1, <2>1 DEF Unspoilt
<1>7. Showed(d, more)
  <2> SUFFICES ASSUME NEW v \in Visible
               PROVE  d[Offset(v[1], v[2], v[3])] = StoredByte(Colour(more, v[1], v[2]), v[3])
    BY DEF Showed
  <2> DEFINE x == v[1]
             y == v[2]
             k == v[3]
             dot == <<x % GLYPH_WIDTH, y % GLYPH_HEIGHT>>
  <2>1. x \in 0 .. (fb.width - 1) /\ y \in 0 .. (fb.height - 1) /\ k \in 0 .. (WORD - 1)
    BY DEF Visible
  <2>2. m[Offset(x, y, k)] = StoredByte(Colour(text, x, y), k)
    BY <1>1 DEF Showed
  <2> HIDE DEF x, y, k
  <2>3. x \div GLYPH_WIDTH \in Nat /\ y \div GLYPH_HEIGHT \in Nat
    <3>1. /\ GLYPH_WIDTH \in Nat \ {0} /\ GLYPH_HEIGHT \in Nat \ {0} /\ x \in Nat /\ y \in Nat
      BY <2>1, Sizes
    <3>2. QED
      BY <3>1, Z3
  <2> DEFINE here == x \div GLYPH_WIDTH = c /\ y \div GLYPH_HEIGHT = r
  <2>4. d[Offset(x, y, k)] =
           IF here THEN IF dot \in Glyph[byte] THEN StoredByte(Foreground, k) ELSE StoredByte(Background, k)
           ELSE m[Offset(x, y, k)]
    <3>1. DOMAIN s.mem = 0 .. (Memory - 1)
      BY <1>1, <1>3
    <3> HIDE DEF s
    <3>2. d[Offset(x, y, k)] =
             IF x \div GLYPH_WIDTH = s.column /\ y \div GLYPH_HEIGHT = s.row
             THEN IF dot \in Glyph[byte] THEN StoredByte(Foreground, k) ELSE StoredByte(Background, k)
             ELSE s.mem[Offset(x, y, k)]
      BY <1>3, <2>1, <3>1, DrawnPixel
    <3> HIDE DEF d, dot
    <3>3. QED
      BY <1>3, <3>2
  <2>5. Lit(more, x \div GLYPH_WIDTH, y \div GLYPH_HEIGHT, dot) <=>
           IF here THEN dot \in Glyph[byte] ELSE Lit(text, x \div GLYPH_WIDTH, y \div GLYPH_HEIGHT, dot)
    BY <1>1, <2>3, CharLit
  <2> HIDE DEF here, d, more
  <2>6. d[Offset(x, y, k)] = StoredByte(Colour(more, x, y), k)
    BY <2>2, <2>4, <2>5 DEF Colour
  <2>7. QED
    BY <2>6 DEF x, y, k
<1>8. c + 1 <= columns
  BY <1>2
<1> HIDE DEF more, d
<1>9. Follows(d, c + 1, r, more)
  BY <1>1, <1>4, <1>5, <1>6, <1>7, <1>8 DEF Follows
<1>10. QED
  BY <1>9 DEF d, more

\* A line feed, on a screen with a row left and on a full one, which scrolls.
LEMMA NewlineFollows ==
    ASSUME Usable, NEW m, NEW c, NEW r, NEW text, Follows(m, c, r, text)
    PROVE  \E w, q : newline(Cursor(m, c, r)) = Cursor(w, 0, q) /\ Follows(w, 0, q, Append(text, <<>>))
<1> DEFINE n == Len(text)
           more == Append(text, <<>>)
<1>1. /\ text \in Text /\ n >= 1 /\ c = Len(text[n]) /\ r = RowOf(text)
      /\ DOMAIN m = 0 .. (Memory - 1) /\ Unspoilt(m) /\ Showed(m, text)
  BY DEF Follows
<1>2. /\ n \in Nat /\ r \in 0 .. (rows - 1) /\ columns \in Nat /\ rows \in Nat \ {0}
  BY <1>1, LastLine, Cells
<1>3. more \in Text /\ Len(more) = n + 1 /\ more[n + 1] = <<>>
  <2>1. <<>> \in Seq(DOMAIN Glyph)
    OBVIOUS
  <2>2. QED
    BY <1>1, <2>1 DEF Text
<1>4. Len(<<>>) = 0 /\ Len(<<>>) <= columns
  BY <1>2
<1>5. r + 1 < rows <=> n < rows
  BY <1>1, <1>2 DEF RowOf
<1> HIDE DEF n, more
<1>6. ASSUME NEW x \in 0 .. (fb.width - 1), NEW y \in 0 .. (fb.height - 1)
      PROVE  /\ x \div GLYPH_WIDTH \in Nat /\ y \div GLYPH_HEIGHT \in Nat
             /\ (y + GLYPH_HEIGHT) \div GLYPH_HEIGHT = (y \div GLYPH_HEIGHT) + 1
             /\ (y + GLYPH_HEIGHT) % GLYPH_HEIGHT = y % GLYPH_HEIGHT
             /\ ~(y + GLYPH_HEIGHT < fb.height) => (y \div GLYPH_HEIGHT) + 1 >= rows
  <2>1. /\ GLYPH_WIDTH \in Nat \ {0} /\ GLYPH_HEIGHT \in Nat \ {0} /\ x \in Nat /\ y \in Nat
        /\ rows * GLYPH_HEIGHT <= fb.height /\ fb.height \in Nat
    BY Sizes, Cells
  <2>2. /\ x \div GLYPH_WIDTH \in Nat /\ y \div GLYPH_HEIGHT \in Nat
        /\ y % GLYPH_HEIGHT \in 0 .. (GLYPH_HEIGHT - 1)
    BY <2>1, Z3
  <2> DEFINE q == y \div GLYPH_HEIGHT
             e == y % GLYPH_HEIGHT
  <2>3. y = GLYPH_HEIGHT * q + e
    BY <2>1, Z3
  <2> HIDE DEF q, e
  <2>4. q \in Nat /\ e \in 0 .. (GLYPH_HEIGHT - 1) /\ q + 1 \in Nat
    BY <2>2 DEF q, e
  <2>5. y + GLYPH_HEIGHT = (q + 1) * GLYPH_HEIGHT + e
    BY <2>1, <2>3, <2>4
  <2>6. /\ ((q + 1) * GLYPH_HEIGHT + e) \div GLYPH_HEIGHT = q + 1
        /\ ((q + 1) * GLYPH_HEIGHT + e) % GLYPH_HEIGHT = e
    BY <2>1, <2>4, QuotientIs
  <2>7. ~(y + GLYPH_HEIGHT < fb.height) => q + 1 >= rows
    <3>1. SUFFICES ASSUME q + 1 < rows PROVE y + GLYPH_HEIGHT < fb.height
      BY <1>2, <2>4
    <3>2. q + 2 \in Int /\ rows \in Int /\ q + 2 <= rows
      BY <1>2, <2>4, <3>1
    <3>3. (q + 2) * GLYPH_HEIGHT <= rows * GLYPH_HEIGHT
      BY <2>1, <3>2, ProductOrder
    <3>4. (q + 2) * GLYPH_HEIGHT = (q + 1) * GLYPH_HEIGHT + GLYPH_HEIGHT
      BY <2>1, <2>4
    <3>5. (q + 1) * GLYPH_HEIGHT \in Nat /\ rows * GLYPH_HEIGHT \in Nat
      BY <1>2, <2>1, <2>4
    <3>6. QED
      BY <2>1, <2>4, <2>5, <3>3, <3>4, <3>5
  <2>8. QED
    BY <2>2, <2>5, <2>6, <2>7 DEF q, e
<1>7. CASE n < rows
  <2>1. newline(Cursor(m, c, r)) = Cursor(m, 0, r + 1)
    BY <1>5, <1>7 DEF newline, Cursor
  <2>2. RowOf(more) = r + 1
    BY <1>1, <1>2, <1>3, <1>7 DEF RowOf, n
  <2>3. Showed(m, more)
    <3> SUFFICES ASSUME NEW v \in Visible
                 PROVE  m[Offset(v[1], v[2], v[3])] = StoredByte(Colour(more, v[1], v[2]), v[3])
      BY DEF Showed
    <3>1. v[1] \in 0 .. (fb.width - 1) /\ v[2] \in 0 .. (fb.height - 1)
      BY DEF Visible
    <3>2. v[1] \div GLYPH_WIDTH \in Nat /\ v[2] \div GLYPH_HEIGHT \in Nat
      BY <1>6, <3>1
    <3>3. \A p : Lit(more, v[1] \div GLYPH_WIDTH, v[2] \div GLYPH_HEIGHT, p)
                  <=> Lit(text, v[1] \div GLYPH_WIDTH, v[2] \div GLYPH_HEIGHT, p)
      BY <1>1, <1>7, <3>2, LineLit DEF n, more
    <3>4. Colour(more, v[1], v[2]) = Colour(text, v[1], v[2])
      BY <3>3 DEF Colour
    <3>5. QED
      BY <1>1, <3>4 DEF Showed
  <2>4. Follows(m, 0, r + 1, more)
    BY <1>1, <1>2, <1>3, <1>4, <2>2, <2>3 DEF Follows
  <2>5. QED
    BY <2>1, <2>4 DEF more
<1>8. CASE ~(n < rows)
  <2>1. newline(Cursor(m, c, r)) = Cursor(scroll(m), 0, r)
    BY <1>5, <1>8 DEF newline, Cursor
  <2>2. RowOf(more) = r
    BY <1>1, <1>2, <1>3, <1>8 DEF RowOf, n
  <2>3. DOMAIN scroll(m) = 0 .. (Memory - 1) /\ Unspoilt(scroll(m))
    BY <1>1, ScrolledInside DEF Unspoilt
  <2>4. Showed(scroll(m), more)
    <3> SUFFICES ASSUME NEW v \in Visible
                 PROVE  scroll(m)[Offset(v[1], v[2], v[3])] = StoredByte(Colour(more, v[1], v[2]), v[3])
      BY DEF Showed
    <3> DEFINE x == v[1]
               y == v[2]
               k == v[3]
               dot == <<x % GLYPH_WIDTH, y % GLYPH_HEIGHT>>
    <3>1. x \in 0 .. (fb.width - 1) /\ y \in 0 .. (fb.height - 1) /\ k \in 0 .. (WORD - 1)
      BY DEF Visible
    <3> HIDE DEF x, y, k
    <3> DEFINE a == x \div GLYPH_WIDTH
               b == y \div GLYPH_HEIGHT
    <3>2. /\ a \in Nat /\ b \in Nat
          /\ (y + GLYPH_HEIGHT) \div GLYPH_HEIGHT = b + 1
          /\ (y + GLYPH_HEIGHT) % GLYPH_HEIGHT = y % GLYPH_HEIGHT
          /\ ~(y + GLYPH_HEIGHT < fb.height) => b + 1 >= rows
      BY <1>6, <3>1
    <3> HIDE DEF a, b
    <3>3. /\ b + 1 < rows => (Lit(more, a, b, dot) <=> Lit(text, a, b + 1, dot))
          /\ b + 1 >= rows => ~Lit(more, a, b, dot) /\ ~Lit(text, a, b + 1, dot)
      BY <1>1, <1>8, <3>2, LineLit, SMTT(30) DEF n, more
    <3>4. scroll(m)[Offset(x, y, k)] = IF y + GLYPH_HEIGHT < fb.height THEN m[Offset(x, y + GLYPH_HEIGHT, k)]
                                       ELSE StoredByte(Background, k)
      BY <1>1, <3>1, ScrolledPixel
    <3>5. Colour(more, x, y) = IF Lit(more, a, b, dot) THEN Foreground ELSE Background
      BY DEF Colour, a, b
    <3>6. CASE y + GLYPH_HEIGHT < fb.height
      <4>1. y + GLYPH_HEIGHT \in 0 .. (fb.height - 1)
        BY <3>1, <3>6, Sizes
      <4>2. <<x, y + GLYPH_HEIGHT, k>> \in Visible
        BY <3>1, <4>1 DEF Visible
      <4>3. m[Offset(x, y + GLYPH_HEIGHT, k)] = StoredByte(Colour(text, x, y + GLYPH_HEIGHT), k)
        BY <1>1, <4>2 DEF Showed
      <4>4. Colour(text, x, y + GLYPH_HEIGHT) = IF Lit(text, a, b + 1, dot) THEN Foreground ELSE Background
        BY <3>2 DEF Colour, a
      <4>5. Lit(more, a, b, dot) <=> Lit(text, a, b + 1, dot)
        BY <1>2, <3>2, <3>3
      <4>6. QED
        BY <3>4, <3>5, <3>6, <4>3, <4>4, <4>5 DEF x, y, k
    <3>7. CASE ~(y + GLYPH_HEIGHT < fb.height)
      <4>1. ~Lit(more, a, b, dot)
        BY <3>2, <3>3, <3>7
      <4>2. QED
        BY <3>4, <3>5, <3>7, <4>1 DEF x, y, k
    <3>8. QED
      BY <3>6, <3>7
  <2>5. Follows(scroll(m), 0, r, more)
    BY <1>1, <1>2, <1>3, <1>4, <2>2, <2>3, <2>4 DEF Follows
  <2>6. QED
    BY <2>1, <2>5 DEF more
<1>9. QED
  BY <1>7, <1>8

\* The framebuffer does not change, so these mean the same after a step.
LEMMA SameScreen ==
    ASSUME UNCHANGED fb
    PROVE  /\ Follows(mem, column, row, lines)' <=> Follows(mem', column', row', lines')
           /\ Accepts' <=> Accepts
<1>1. Accepts' <=> Accepts
  BY DEF Accepts
<1>2. columns' = columns /\ rows' = rows /\ Visible' = Visible
  BY DEF columns, rows, Visible
<1>3. \A x, y, k : Offset(x, y, k)' = Offset(x, y, k)
  BY DEF Offset, At
<1>4. \A c, k : StoredByte(c, k)' = StoredByte(c, k)
  BY DEF StoredByte, pack
<1>5. \A t, x, y : Colour(t, x, y)' = Colour(t, x, y)
  BY <1>2 DEF Colour, Lit, Hidden
<1>6. Showed(mem, lines)' <=> Showed(mem', lines')
  BY <1>2, <1>3, <1>4, <1>5 DEF Showed
<1>7. QED
  BY <1>1, <1>2, <1>6 DEF Follows, RowOf, Unspoilt

\* Console::write_byte.
LEMMA ByteFollows ==
    ASSUME Usable, NEW m, NEW c, NEW r, Follows(m, c, r, lines), NEW byte \in Bytes
    PROVE  \E w, q, d : /\ Drawn(Cursor(m, c, r), byte) = Cursor(w, q, d)
                        /\ Follows(w, q, d, Extended(byte))
<1> DEFINE n == Len(lines)
           s == Cursor(m, c, r)
<1>1. /\ lines \in Text /\ n \in Nat /\ n >= 1
      /\ c = Len(lines[n]) /\ c \in Nat /\ c <= columns /\ columns \in Nat \ {0}
  BY LastLine, Cells DEF Follows
<1>2. CASE byte = "\r"
  <2>1. Drawn(s, byte) = s /\ Extended(byte) = lines
    BY <1>2 DEF Drawn, Extended
  <2>2. QED
    BY <2>1
<1>3. CASE byte = "\n"
  <2>1. Drawn(s, byte) = newline(s) /\ Extended(byte) = Append(lines, <<>>)
    BY <1>3 DEF Drawn, Extended
  <2>2. QED
    BY <2>1, NewlineFollows
<1>4. CASE byte \in DOMAIN Glyph
  <2>1. byte # "\r" /\ byte # "\n"
    BY <1>4, ConsoleAssumption
  <2>2. Drawn(s, byte) = Typed(s, byte)
    BY <2>1 DEF Drawn
  <2>3. Extended(byte) = IF c = columns THEN Append(lines, <<byte>>)
                         ELSE [lines EXCEPT ![n] = Append(@, byte)]
    BY <1>1, <2>1 DEF Extended
  <2>4. s.column = c
    BY DEF Cursor
  <2>5. \A w, q, d : Cursor(w, q, d).column = q /\ Cursor(w, q, d).row = d
    BY DEF Cursor
  <2>6. CASE c = columns
    <3> DEFINE more == Append(lines, <<>>)
    <3>1. PICK w, d : newline(s) = Cursor(w, 0, d) /\ Follows(w, 0, d, more)
      BY NewlineFollows
    <3>2. Typed(s, byte) = Cursor(draw_glyph(Cursor(w, 0, d), byte), 0 + 1, d)
      <4>1. Wraps(s)
        BY <1>1, <2>4, <2>6 DEF Wraps
      <4>2. QED
        BY <2>5, <3>1, <4>1 DEF Typed, Cursor
    <3>3. Len(more) = n + 1 /\ [more EXCEPT ![n + 1] = Append(@, byte)] = Append(lines, <<byte>>)
      <4>1. Append(<<>>, byte) = <<byte>> /\ <<>> \in Seq(DOMAIN Glyph) /\ <<byte>> \in Seq(DOMAIN Glyph)
        BY <1>4
      <4>2. more \in Text /\ Len(more) = n + 1 /\ more[n + 1] = <<>> /\ Append(lines, <<byte>>) \in Text
        BY <1>1, <4>1 DEF Text
      <4>3. [more EXCEPT ![n + 1] = Append(@, byte)] = [more EXCEPT ![n + 1] = <<byte>>]
        BY <4>1, <4>2
      <4>4. [more EXCEPT ![n + 1] = <<byte>>] = Append(lines, <<byte>>)
        <5> DEFINE a == [more EXCEPT ![n + 1] = <<byte>>]
                   b == Append(lines, <<byte>>)
        <5>1. a \in Text /\ b \in Text /\ Len(a) = n + 1 /\ Len(b) = n + 1
          BY <1>1, <4>1, <4>2 DEF Text
        <5>2. ASSUME NEW j \in 1 .. (n + 1) PROVE a[j] = b[j]
          <6>1. CASE j = n + 1
            BY <1>1, <4>1, <4>2, <6>1 DEF Text
          <6>2. CASE j # n + 1
            <7>1. j \in 1 .. n
              BY <1>1, <6>2
            <7>2. a[j] = more[j]
              <8> HIDE DEF more
              <8>1. DOMAIN more = 1 .. (n + 1)
                BY <4>2 DEF Text
              <8>2. QED
                BY <6>2, <8>1
            <7>3. more[j] = lines[j] /\ b[j] = lines[j]
              BY <1>1, <7>1 DEF Text
            <7>4. QED
              BY <7>2, <7>3
          <6>3. QED
            BY <6>1, <6>2
        <5> HIDE DEF a, b
        <5>3. a = b
          BY <5>1, <5>2, SeqEqual DEF Text
        <5>4. QED
          BY <5>3 DEF a, b
      <4>5. QED
        BY <4>2, <4>3, <4>4
    <3> HIDE DEF more
    <3>4. 0 < columns
      BY <1>1
    <3>5. Follows(draw_glyph(Cursor(w, 0, d), byte), 0 + 1, d, Append(lines, <<byte>>))
      <4>1. Follows(draw_glyph(Cursor(w, 0, d), byte), 0 + 1, d, [more EXCEPT ![Len(more)] = Append(@, byte)])
        BY <1>4, <3>1, <3>4, CharFollows, Zenon
      <4>2. QED
        BY <3>3, <4>1
    <3>6. QED
      BY <2>2, <2>3, <2>6, <3>2, <3>5
  <2>7. CASE c # columns
    <3>1. c < columns /\ ~(c >= columns)
      BY <1>1, <2>7
    <3>2. Typed(s, byte) = Cursor(draw_glyph(Cursor(m, c, r), byte), c + 1, r)
      BY <2>4, <2>5, <3>1 DEF Typed, Wraps, Cursor
    <3>3. Follows(draw_glyph(Cursor(m, c, r), byte), c + 1, r, [lines EXCEPT ![n] = Append(@, byte)])
      BY <1>4, <3>1, CharFollows
    <3>4. QED
      BY <2>2, <2>3, <2>7, <3>2, <3>3
  <2>8. QED
    BY <2>6, <2>7
<1>5. QED
  BY <1>2, <1>3, <1>4 DEF Bytes

\* A screen filled with the background.
Blank(m) == \A v \in Visible : m[Offset(v[1], v[2], v[3])] = StoredByte(Background, v[3])

\* Which is what the empty text calls for.
LEMMA BlankFollows ==
    ASSUME Usable, NEW m, DOMAIN m = 0 .. (Memory - 1), Unspoilt(m), Blank(m)
    PROVE  Follows(m, 0, 0, <<<<>>>>)
<1> DEFINE text == <<<<>>>>
<1>1. text \in Text /\ Len(text) = 1 /\ text[1] = <<>> /\ Len(<<>>) = 0
  <2>1. <<>> \in Seq(DOMAIN Glyph)
    OBVIOUS
  <2>2. QED
    BY <2>1 DEF Text
<1>2. rows \in Nat \ {0} /\ columns \in Nat \ {0}
  BY Cells
<1> HIDE DEF text
<1>3. RowOf(text) = 0 /\ Hidden(text) = 0
  BY <1>1, <1>2 DEF RowOf, Hidden
<1>4. Showed(m, text)
  <2> SUFFICES ASSUME NEW v \in Visible
               PROVE  m[Offset(v[1], v[2], v[3])] = StoredByte(Colour(text, v[1], v[2]), v[3])
    BY DEF Showed
  <2>1. v[1] \in 0 .. (fb.width - 1) /\ v[2] \in 0 .. (fb.height - 1)
    BY DEF Visible
  <2>2. v[1] \div GLYPH_WIDTH \in Nat /\ v[2] \div GLYPH_HEIGHT \in Nat
    <3>1. /\ GLYPH_WIDTH \in Nat \ {0} /\ GLYPH_HEIGHT \in Nat \ {0} /\ v[1] \in Nat /\ v[2] \in Nat
      BY <2>1, Sizes
    <3>2. \A a \in Nat, g \in Nat \ {0} : a \div g \in Nat
      BY Z3
    <3>3. QED
      BY <3>1, <3>2
  <2>3. ASSUME NEW c \in Nat, NEW r \in Nat, NEW p PROVE ~Lit(text, c, r, p)
    <3>1. 0 + r + 1 <= 1 => 0 + r + 1 = 1
      OBVIOUS
    <3>2. ~(c < 0)
      OBVIOUS
    <3>3. QED
      BY <1>1, <1>3, <3>1, <3>2 DEF Lit
  <2>4. Colour(text, v[1], v[2]) = Background
    BY <2>2, <2>3 DEF Colour
  <2>5. QED
    BY <2>4 DEF Blank
<1>5. QED
  BY <1>1, <1>2, <1>3, <1>4 DEF Follows, text

\* fill_screen leaves a screen that console::init accepts blank.
LEMMA FillBlanks ==
    ASSUME fb \in Framebuffers, DOMAIN mem = 0 .. (Memory - 1), Unspoilt(mem), fill_screen
    PROVE  DOMAIN mem' = 0 .. (Memory - 1) /\ Unspoilt(mem') /\ (Accepts => Blank(mem'))
<1> DEFINE bpp == IF fb.bytes_per_pixel < WORD THEN fb.bytes_per_pixel ELSE WORD
           on(i) == \E x \in 0 .. (fb.width - 1), y \in 0 .. (fb.height - 1) :
                       /\ Within(At(x, y) * bpp, bpp)
                       /\ At(x, y) * bpp <= i /\ i < At(x, y) * bpp + bpp
<1>1. mem' = [i \in DOMAIN mem |-> IF on(i) THEN FillPixel(Background)[(i % bpp) + 1] ELSE mem[i]]
  BY DEF fill_screen
<1>2. /\ fb.width \in Nat /\ fb.height \in Nat /\ fb.stride \in Nat /\ fb.size \in Nat
      /\ fb.bytes_per_pixel \in Nat /\ Memory \in Nat /\ fb.format \in {"Rgb", "Bgr"}
  BY ConsoleAssumption
<1>3. bpp \in Nat
  BY <1>2 DEF WORD
<1>4. \A x \in 0 .. (fb.width - 1), y \in 0 .. (fb.height - 1) : At(x, y) \in Nat
  <2> SUFFICES ASSUME NEW x \in 0 .. (fb.width - 1), NEW y \in 0 .. (fb.height - 1)
               PROVE  y * fb.stride + x \in Nat
    BY DEF At
  <2>1. PICK w \in Nat : w = fb.stride
    BY <1>2
  <2>2. x \in Nat /\ y \in Nat
    BY <1>2
  <2>3. y * w + x \in Nat
    BY <2>2
  <2>4. QED
    BY <2>1, <2>3
<1>5. ASSUME NEW i \in 0 .. (Memory - 1), i >= fb.size PROVE ~on(i)
  <2> SUFFICES ASSUME NEW x \in 0 .. (fb.width - 1), NEW y \in 0 .. (fb.height - 1),
                      Within(At(x, y) * bpp, bpp), i < At(x, y) * bpp + bpp
               PROVE  FALSE
    OBVIOUS
  <2> DEFINE o == At(x, y) * bpp
  <2>1. At(x, y) \in Nat
    BY <1>4
  <2>2. o \in Nat
    BY <1>3, <2>1
  <2>3. o + bpp <= fb.size /\ i < o + bpp
    BY DEF Within
  <2> HIDE DEF o, bpp, on
  <2>4. QED
    BY <1>2, <1>3, <1>5, <2>2, <2>3
<1>6. DOMAIN mem' = 0 .. (Memory - 1)
  BY <1>1
<1>7. Unspoilt(mem')
  <2> HIDE DEF on
  <2>1. QED
    BY <1>1, <1>5 DEF Unspoilt
<1>8. ASSUME Accepts PROVE Blank(mem')
  <2>1. Usable /\ bpp = WORD
    BY <1>8 DEF Usable, Accepts, WORD
  <2> SUFFICES ASSUME NEW v \in Visible
               PROVE  mem'[Offset(v[1], v[2], v[3])] = StoredByte(Background, v[3])
    BY DEF Blank
  <2> DEFINE x == v[1]
             y == v[2]
             k == v[3]
             i == Offset(x, y, k)
  <2>2. x \in 0 .. (fb.width - 1) /\ y \in 0 .. (fb.height - 1) /\ k \in 0 .. (WORD - 1)
    BY DEF Visible
  <2> HIDE DEF x, y, k
  <2>3. x \in 0 .. (fb.stride - 1)
    BY <2>1, <2>2, InScanline
  <2>4. /\ At(x, y) \in Nat /\ At(x, y) < fb.stride * fb.height /\ i \in Nat
        /\ i \in 0 .. (Memory - 1) /\ i % WORD = k
    BY <2>1, <2>2, <2>3, PixelIsInside
  <2>5. fb.stride * fb.height \in Nat /\ fb.stride * fb.height * WORD <= fb.size
    BY <1>2, <2>1, Sizes
  <2>6. At(x, y) * WORD + WORD <= fb.size
    <3> DEFINE a == At(x, y)
               n == fb.stride * fb.height
    <3> HIDE DEF a, n
    <3>1. a \in Nat /\ n \in Nat /\ a < n /\ n * WORD <= fb.size
      BY <2>4, <2>5 DEF a, n
    <3>2. a * WORD + WORD <= fb.size
      BY <1>2, <3>1 DEF WORD
    <3>3. QED
      BY <3>2 DEF a
  <2>7. i = At(x, y) * WORD + k
    BY DEF Offset
  <2>8. At(x, y) * WORD <= i /\ i < At(x, y) * WORD + WORD
    <3>1. At(x, y) * WORD \in Nat
      BY <2>4 DEF WORD
    <3>2. QED
      BY <2>2, <2>7, <3>1 DEF WORD
  <2> HIDE DEF i
  <2>9. on(i)
    BY <2>1, <2>2, <2>6, <2>8 DEF Within
  <2> HIDE DEF on, bpp
  <2>10. mem'[i] = FillPixel(Background)[k + 1]
    BY <1>1, <2>1, <2>4, <2>9
  <2>11. FillPixel(Background)[k + 1] = StoredByte(Background, k)
    BY <1>2, <2>2, FillIsPacked
  <2>12. QED
    BY <2>10, <2>11 DEF i, x, y, k
<1>9. QED
  BY <1>6, <1>7, <1>8

-----------------------------------------------------------------------------
(* Printing *)


\* The text before its wrapping at the width of the screen, and the output of
\* write_str that is still to be written, at most the two bytes of a line end.
PrintType ==
    /\ said \in Text /\ Len(said) >= 1
    /\ thr = <<>> \/ \E c \in Bytes : thr = <<c>>
    /\ \/ out = <<>> \/ out = <<"\r", "\n">>
       \/ \E c \in DOMAIN Glyph \cup {"\n"} : out = <<c>>

\* What the writes of serial::init have achieved; nothing is printed before.
UartOK ==
    /\ boot \in 1 .. 8
    /\ uart \in [present : BOOLEAN, dlab : BOOLEAN, low : Nat, high : Nat, ier : Nat, lcr : Nat]
    /\ boot \in 3 .. 5 => uart.dlab
    /\ boot > 3 => uart.low = 3
    /\ boot > 4 => uart.high = 0
    /\ boot > 5 => uart.lcr = 3
    /\ boot < 8 => out = <<>> /\ thr = <<>>

\* A terminal that shows a text, its cursor behind it.
Showing(text) == [lines |-> text, column |-> Len(text[Len(text)])]

\* What the terminal will have come to when the bytes on their way have arrived.
AfterThr == IF thr = <<>> THEN term ELSE Shown(term, thr[1])
AfterOut(t, s) ==
    IF s = <<>> THEN t
    ELSE IF Tail(s) = <<>> THEN Shown(t, Head(s))
    ELSE Shown(Shown(t, Head(s)), Head(Tail(s)))

TermOK == uart.present => AfterOut(AfterThr, out) = Showing(said)

\* The screen: nothing drawn until it is painted and set up, and then the text
\* that was drawn, with the cursor behind it.
ScreenOK ==
    /\ fb \in Framebuffers /\ DOMAIN mem = 0 .. (Memory - 1) /\ Unspoilt(mem)
    /\ pc \in {"paint", "init"} => column = 0 /\ row = 0 /\ lines = <<<<>>>>
    /\ pc = "init" /\ Accepts => Blank(mem)
    /\ pc = "ready" => Accepts /\ Follows(mem, column, row, lines)

\* The inductive invariant.
PrintInv == PrintType /\ UartOK /\ TermOK /\ ScreenOK

-----------------------------------------------------------------------------
(* The terminal *)

\* Printing a character, or a line end, is what the terminal shows.
LEMMA ShownChar ==
    ASSUME NEW text \in Text, Len(text) >= 1, NEW c \in DOMAIN Glyph
    PROVE  LET more == [text EXCEPT ![Len(text)] = Append(@, c)]
           IN  Shown(Showing(text), c) = Showing(more) /\ more \in Text /\ Len(more) = Len(text)
<1> DEFINE n == Len(text)
           last == text[n]
           more == [text EXCEPT ![n] = Append(@, c)]
<1>1. n \in Nat /\ n \in 1 .. n /\ last \in Seq(DOMAIN Glyph) /\ Len(last) \in Nat
  BY DEF Text
<1>2. SubSeq(last, 1, Len(last)) = last
  BY <1>1, SubSeqFull
<1>3. c # "\n" /\ c # "\r"
  BY ConsoleAssumption
<1>4. more \in Text /\ Len(more) = n /\ more[n] = Append(last, c)
  BY <1>1 DEF Text
<1>5. Len(Append(last, c)) = Len(last) + 1
  BY <1>1
<1>6. Shown(Showing(text), c) = [lines |-> more, column |-> Len(last) + 1]
  BY <1>2, <1>3 DEF Shown, Showing
<1> HIDE DEF more, last
<1>7. Showing(more) = [lines |-> more, column |-> Len(last) + 1]
  BY <1>4, <1>5 DEF Showing
<1>8. QED
  BY <1>4, <1>6, <1>7 DEF more

LEMMA ShownLineEnd ==
    ASSUME NEW text \in Text, Len(text) >= 1
    PROVE  LET more == Append(text, <<>>)
           IN  /\ Shown(Shown(Showing(text), "\r"), "\n") = Showing(more)
               /\ more \in Text /\ Len(more) = Len(text) + 1
<1> DEFINE more == Append(text, <<>>)
<1>1. Shown(Showing(text), "\r") = [lines |-> text, column |-> 0]
  BY DEF Shown, Showing
<1>2. [i \in 1 .. 0 |-> " "] = <<>>
  OBVIOUS
<1>3. Shown([lines |-> text, column |-> 0], "\n") = [lines |-> more, column |-> 0]
  BY <1>2 DEF Shown
<1>4. <<>> \in Seq(DOMAIN Glyph)
  OBVIOUS
<1>5. more \in Text /\ Len(more) = Len(text) + 1 /\ more[Len(more)] = <<>>
  BY <1>4 DEF Text
<1>6. Len(<<>>) = 0
  OBVIOUS
<1> HIDE DEF more
<1>7. Showing(more) = [lines |-> more, column |-> 0]
  BY <1>5, <1>6 DEF Showing
<1>8. QED
  BY <1>1, <1>3, <1>5, <1>7 DEF more

\* What each step of printing does to the terminal.
LEMMA SayShows ==
    ASSUME PrintType, UartOK, TermOK, Say
    PROVE  PrintType' /\ UartOK' /\ TermOK'
<1>1. PICK char \in DOMAIN Glyph \cup {"\n"} :
         /\ out' = Cooked(char)
         /\ said' = IF char = "\n" THEN Append(said, <<>>)
                    ELSE [said EXCEPT ![Len(said)] = Append(@, char)]
  BY DEF Say
<1>2. out = <<>> /\ Booted /\ UNCHANGED <<uart, thr, term, boot>>
  BY DEF Say, wire
<1>3. boot = 8
  BY <1>2 DEF UartOK, Booted, InitWrites
<1>4. said \in Text /\ Len(said) >= 1 /\ Len(said) \in Nat
  BY DEF PrintType, Text
<1>5. UartOK'
  BY <1>2, <1>3 DEF UartOK
<1>6. AfterThr' = AfterThr
  BY <1>2 DEF AfterThr, Shown
<1>7. uart.present => AfterThr = Showing(said)
  BY <1>2 DEF TermOK, AfterOut
<1>8. CASE char = "\n"
  <2>1. out' = <<"\r", "\n">> /\ said' = Append(said, <<>>)
    BY <1>1, <1>8 DEF Cooked
  <2>2. /\ said' \in Text /\ Len(said') = Len(said) + 1
        /\ Shown(Shown(Showing(said), "\r"), "\n") = Showing(said')
    BY <1>4, <2>1, ShownLineEnd
  <2>3. /\ out' # <<>> /\ Head(out') = "\r"
        /\ Tail(out') = <<"\n">> /\ Tail(out') # <<>> /\ Head(Tail(out')) = "\n"
    BY <2>1
  <2>4. AfterOut(AfterThr, out') = Shown(Shown(AfterThr, "\r"), "\n")
    BY <2>3 DEF AfterOut
  <2>5. TermOK'
    BY <1>2, <1>6, <1>7, <2>2, <2>4 DEF TermOK
  <2>6. PrintType'
    BY <1>2, <1>4, <2>1, <2>2 DEF PrintType
  <2>7. QED
    BY <1>5, <2>5, <2>6
<1>9. CASE char # "\n"
  <2>1. char \in DOMAIN Glyph /\ out' = <<char>> /\ said' = [said EXCEPT ![Len(said)] = Append(@, char)]
    BY <1>1, <1>9 DEF Cooked
  <2>2. /\ said' \in Text /\ Len(said') = Len(said)
        /\ Shown(Showing(said), char) = Showing(said')
    BY <1>4, <2>1, ShownChar
  <2>3. out' # <<>> /\ Tail(out') = <<>> /\ Head(out') = char
    BY <2>1
  <2>4. AfterOut(AfterThr, out') = Shown(AfterThr, char)
    BY <2>3 DEF AfterOut
  <2>5. TermOK'
    BY <1>2, <1>6, <1>7, <2>2, <2>4 DEF TermOK
  <2>6. PrintType'
    BY <1>2, <1>4, <2>1, <2>2 DEF PrintType
  <2>7. QED
    BY <1>5, <2>5, <2>6
<1>10. QED
  BY <1>8, <1>9

LEMMA WriteShows ==
    ASSUME PrintType, UartOK, TermOK, WriteByte
    PROVE  PrintType' /\ UartOK' /\ TermOK'
<1>1. /\ out # <<>> /\ (uart.present => thr = <<>>) /\ out' = Tail(out)
      /\ thr' = (IF uart.present THEN <<Head(out)>> ELSE <<>>)
      /\ UNCHANGED <<uart, term, boot, said>>
  BY DEF WriteByte, Written, Ready
<1>2. \/ out = <<"\r", "\n">> /\ Tail(out) = <<"\n">> /\ Head(out) = "\r"
      \/ \E c \in DOMAIN Glyph \cup {"\n"} : out = <<c>> /\ Tail(out) = <<>> /\ Head(out) = c
  <2>1. CASE out = <<"\r", "\n">>
    <3>1. Tail(out) = <<"\n">> /\ Head(out) = "\r"
      BY <2>1
    <3>2. QED
      BY <2>1, <3>1
  <2>2. CASE \E c \in DOMAIN Glyph \cup {"\n"} : out = <<c>>
    <3>1. PICK c \in DOMAIN Glyph \cup {"\n"} : out = <<c>>
      BY <2>2
    <3>2. Tail(out) = <<>> /\ Head(out) = c
      BY <3>1
    <3>3. QED
      BY <3>1, <3>2
  <2>3. QED
    BY <1>1, <2>1, <2>2 DEF PrintType
<1>3. Head(out) \in Bytes /\ (out' = <<>> \/ out' = <<"\n">>)
  BY <1>1, <1>2 DEF Bytes
<1>4. PrintType'
  BY <1>1, <1>3 DEF PrintType
<1>5. boot = 8
  BY <1>1 DEF UartOK
<1>6. UartOK'
  BY <1>1, <1>5 DEF UartOK
<1>7. ASSUME uart.present PROVE AfterOut(AfterThr', out') = Showing(said')
  <2>1. AfterThr = term
    BY <1>1, <1>7 DEF AfterThr
  <2>2. thr' = <<Head(out)>> /\ thr' # <<>> /\ thr'[1] = Head(out)
    BY <1>1, <1>7
  <2>3. AfterThr' = Shown(term, Head(out))
    BY <1>1, <2>2 DEF AfterThr, Shown
  <2>4. AfterOut(term, out) = Showing(said)
    BY <1>7, <2>1 DEF TermOK
  <2>5. CASE Tail(out) = <<>>
    BY <1>1, <2>3, <2>4, <2>5 DEF AfterOut
  <2>6. CASE Tail(out) # <<>>
    <3>1. Tail(out) = <<"\n">> /\ Tail(Tail(out)) = <<>>
      BY <1>2, <2>6
    <3>2. QED
      BY <1>1, <2>3, <2>4, <2>6, <3>1 DEF AfterOut
  <2>7. QED
    BY <2>5, <2>6
<1>8. QED
  BY <1>1, <1>4, <1>6, <1>7 DEF TermOK

LEMMA TransmitShows ==
    ASSUME PrintType, UartOK, TermOK, Transmit
    PROVE  PrintType' /\ UartOK' /\ TermOK'
<1>1. /\ thr # <<>> /\ thr' = <<>> /\ term' = Shown(term, Received(thr[1]))
      /\ UNCHANGED <<uart, boot, out, said>>
  BY DEF Transmit
<1>2. boot = 8
  BY <1>1 DEF UartOK
<1>3. Received(thr[1]) = thr[1]
  BY <1>2 DEF UartOK, Received
<1>4. PrintType' /\ UartOK'
  BY <1>1 DEF PrintType, UartOK
<1>5. AfterThr' = AfterThr
  BY <1>1, <1>3 DEF AfterThr
<1>6. QED
  BY <1>1, <1>4, <1>5 DEF TermOK

LEMMA SerialInitShows ==
    ASSUME PrintType, UartOK, TermOK, SerialInit
    PROVE  PrintType' /\ UartOK' /\ TermOK'
<1>1. /\ boot < 8 /\ boot \in 1 .. 7 /\ boot' = boot + 1 /\ UNCHANGED <<thr, term, out, said>>
      /\ uart' = Write(InitWrites[boot][1], InitWrites[boot][2])
  BY DEF SerialInit, Booted, InitWrites, UartOK
<1>2. 128 % 128 = 0 /\ 3 % 128 = 3 /\ 128 >= 128 /\ ~(3 >= 128)
  OBVIOUS
<1>3. PrintType' /\ out = <<>> /\ thr = <<>>
  BY <1>1 DEF PrintType, UartOK
<1>4. UartOK' /\ uart'.present = uart.present
  <2>1. CASE boot = 1
    BY <1>1, <1>2, <2>1 DEF UartOK, Write, InitWrites
  <2>2. CASE boot = 2
    <3>1. boot' = 3 /\ uart' = [uart EXCEPT !.dlab = TRUE, !.lcr = 0]
      <4>1. uart' = Write("LINE_CONTROL", 128) /\ boot' = 3
        BY <1>1, <2>2 DEF InitWrites
      <4>2. Write("LINE_CONTROL", 128) = [uart EXCEPT !.dlab = 128 >= 128, !.lcr = 128 % 128]
        BY DEF Write
      <4>3. (128 >= 128) = TRUE /\ 128 % 128 = 0
        OBVIOUS
      <4>4. QED
        BY <4>1, <4>2, <4>3, Zenon
    <3>2. uart'.dlab = TRUE /\ uart'.dlab \in BOOLEAN
      BY <3>1 DEF UartOK
    <3>3. uart' \in [present : BOOLEAN, dlab : BOOLEAN, low : Nat, high : Nat, ier : Nat, lcr : Nat]
      BY <3>1 DEF UartOK
    <3>4. /\ uart'.present = uart.present /\ uart'.low = uart.low
          /\ uart'.high = uart.high /\ uart'.lcr = 0
      BY <3>1 DEF UartOK
    <3>5. QED
      BY <1>1, <1>3, <2>2, <3>1, <3>2, <3>3, <3>4 DEF UartOK
  <2>3. CASE boot = 3
    BY <1>1, <1>2, <2>3 DEF UartOK, Write, InitWrites
  <2>4. CASE boot = 4
    BY <1>1, <1>2, <2>4 DEF UartOK, Write, InitWrites
  <2>5. CASE boot = 5
    <3>1. boot' = 6 /\ uart' = [uart EXCEPT !.dlab = FALSE, !.lcr = 3]
      <4>1. uart' = Write("LINE_CONTROL", 3) /\ boot' = 6
        BY <1>1, <2>5 DEF InitWrites
      <4>2. Write("LINE_CONTROL", 3) = [uart EXCEPT !.dlab = 3 >= 128, !.lcr = 3 % 128]
        BY DEF Write
      <4>3. (3 >= 128) = FALSE /\ 3 % 128 = 3
        OBVIOUS
      <4>4. QED
        BY <4>1, <4>2, <4>3, Zenon
    <3>2. uart'.dlab = FALSE /\ uart'.dlab \in BOOLEAN
      BY <3>1 DEF UartOK
    <3>3. uart' \in [present : BOOLEAN, dlab : BOOLEAN, low : Nat, high : Nat, ier : Nat, lcr : Nat]
      BY <3>1 DEF UartOK
    <3>4. /\ uart'.present = uart.present /\ uart'.low = uart.low
          /\ uart'.high = uart.high /\ uart'.lcr = 3
      BY <3>1 DEF UartOK
    <3>5. QED
      BY <1>1, <1>3, <2>5, <3>1, <3>2, <3>3, <3>4 DEF UartOK
  <2>6. CASE boot = 6
    BY <1>1, <1>2, <2>6 DEF UartOK, Write, InitWrites
  <2>7. CASE boot = 7
    BY <1>1, <1>2, <2>7 DEF UartOK, Write, InitWrites
  <2>8. QED
    BY <1>1, <2>1, <2>2, <2>3, <2>4, <2>5, <2>6, <2>7
<1>5. AfterThr' = AfterThr
  BY <1>1, <1>3 DEF AfterThr
<1>6. QED
  BY <1>1, <1>3, <1>4, <1>5 DEF TermOK

-----------------------------------------------------------------------------
(* The screen and the terminal together *)

\* PrintInv holds at first, and every step keeps it.
LEMMA PrintStarts == PrintInit => PrintInv
<1> SUFFICES ASSUME PrintInit PROVE PrintInv
  OBVIOUS
<1>1. /\ uart \in Uarts /\ thr = <<>> /\ boot = 1 /\ out = <<>> /\ said = <<<<>>>>
      /\ term = [lines |-> <<<<>>>>, column |-> 0]
      /\ fb \in Framebuffers /\ pc = "paint" /\ mem = [i \in 0 .. (Memory - 1) |-> FOREIGN]
      /\ column = 0 /\ row = 0 /\ lines = <<<<>>>>
  BY DEF PrintInit, ConsoleInit
<1>2. said \in Text /\ Len(said) = 1 /\ said[1] = <<>> /\ Len(<<>>) = 0
  <2>1. <<>> \in Seq(DOMAIN Glyph)
    OBVIOUS
  <2>2. QED
    BY <1>1, <2>1 DEF Text
<1>3. PrintType
  BY <1>1, <1>2 DEF PrintType
<1>4. UartOK
  <2>1. uart \in [present : BOOLEAN, dlab : BOOLEAN, low : 0 .. 255, high : 0 .. 255,
                  ier : 0 .. 255, lcr : 0 .. 127]
    BY <1>1, SerialAssumption
  <2>2. uart \in [present : BOOLEAN, dlab : BOOLEAN, low : Nat, high : Nat, ier : Nat, lcr : Nat]
    BY <2>1
  <2>3. QED
    BY <1>1, <2>2 DEF UartOK
<1>5. TermOK
  <2>1. AfterThr = term /\ AfterOut(term, out) = term
    BY <1>1 DEF AfterThr, AfterOut
  <2>2. Showing(said) = [lines |-> said, column |-> 0]
    BY <1>2 DEF Showing
  <2>3. QED
    BY <1>1, <2>1, <2>2 DEF TermOK
<1>6. ScreenOK
  BY <1>1 DEF ScreenOK, Unspoilt
<1>7. QED
  BY <1>3, <1>4, <1>5, <1>6 DEF PrintInv

LEMMA ScreenStays ==
    ASSUME ScreenOK, UNCHANGED screen
    PROVE  ScreenOK'
<1>1. UNCHANGED <<fb, pc, mem, column, row, lines>>
  BY DEF screen
<1>2. (Accepts' <=> Accepts) /\ (Follows(mem, column, row, lines)' <=> Follows(mem, column, row, lines))
  BY <1>1, SameScreen
<1>3. Unspoilt(mem)' <=> Unspoilt(mem)
  BY <1>1 DEF Unspoilt
<1>4. Blank(mem)' <=> Blank(mem)
  BY <1>1 DEF Blank, Visible, Offset, At, StoredByte, pack
<1>5. QED
  BY <1>1, <1>2, <1>3, <1>4 DEF ScreenOK

LEMMA WriteDraws ==
    ASSUME PrintType, ScreenOK, WriteByte
    PROVE  ScreenOK'
<1>1. UNCHANGED <<fb, pc>> /\ write_byte(Head(out)) /\ out # <<>>
  BY DEF WriteByte, Written
<1>2. Head(out) \in Bytes
  BY <1>1 DEF PrintType, Bytes
<1>3. CASE pc # "ready"
  <2>1. UNCHANGED screen
    BY <1>1, <1>3 DEF write_byte, screen
  <2>2. QED
    BY <2>1, ScreenStays
<1>4. CASE pc = "ready"
  <2>1. Usable /\ Follows(mem, column, row, lines)
    BY <1>4 DEF ScreenOK, Usable
  <2>2. PICK w, q, d : /\ Drawn(Cursor(mem, column, row), Head(out)) = Cursor(w, q, d)
                       /\ Follows(w, q, d, Extended(Head(out)))
    BY <1>2, <2>1, ByteFollows
  <2>3. Cursor(w, q, d).mem = w /\ Cursor(w, q, d).column = q /\ Cursor(w, q, d).row = d
    BY DEF Cursor
  <2>4. mem' = w /\ column' = q /\ row' = d /\ lines' = Extended(Head(out))
    BY <1>1, <1>4, <2>2, <2>3 DEF write_byte, Cursor
  <2>5. Follows(mem', column', row', lines')
    BY <2>2, <2>4
  <2>6. Follows(mem, column, row, lines)' /\ Accepts'
    BY <1>1, <2>1, <2>5, SameScreen DEF Usable
  <2>7. DOMAIN mem' = 0 .. (Memory - 1) /\ Unspoilt(mem)'
    BY <2>6 DEF Follows
  <2>8. fb' \in Framebuffers /\ pc' = "ready"
    BY <1>1, <1>4 DEF ScreenOK
  <2>9. QED
    BY <2>6, <2>7, <2>8 DEF ScreenOK
<1>5. QED
  BY <1>3, <1>4

LEMMA PaintShows ==
    ASSUME ScreenOK, fill_screen \/ InitConsole
    PROVE  ScreenOK'
<1>1. /\ fb \in Framebuffers /\ DOMAIN mem = 0 .. (Memory - 1) /\ Unspoilt(mem)
      /\ UNCHANGED <<fb, column, row, lines>>
  BY DEF ScreenOK, fill_screen, InitConsole
<1>2. CASE fill_screen
  <2>1. DOMAIN mem' = 0 .. (Memory - 1) /\ Unspoilt(mem') /\ (Accepts => Blank(mem'))
    BY <1>1, <1>2, FillBlanks
  <2>2. Unspoilt(mem)'
    BY <1>1, <2>1 DEF Unspoilt
  <2>3. Accepts' => Blank(mem)'
    <3>1. Accepts' <=> Accepts
      BY <1>1, SameScreen
    <3>2. Blank(mem)' <=> Blank(mem')
      BY <1>1 DEF Blank, Visible, Offset, At, StoredByte, pack
    <3>3. QED
      BY <2>1, <3>1, <3>2
  <2>4. pc = "paint" /\ pc' = "init"
    BY <1>2 DEF fill_screen
  <2>5. QED
    BY <1>1, <2>1, <2>2, <2>3, <2>4 DEF ScreenOK
<1>3. CASE InitConsole
  <2>1. pc = "init" /\ pc' = (IF Accepts THEN "ready" ELSE "disabled") /\ UNCHANGED mem
    BY <1>3 DEF InitConsole
  <2>2. Unspoilt(mem)' /\ (Accepts' <=> Accepts)
    BY <1>1, <2>1, SameScreen DEF Unspoilt
  <2>3. Accepts => Follows(mem, column, row, lines)'
    <3> SUFFICES ASSUME Accepts PROVE Follows(mem, column, row, lines)'
      OBVIOUS
    <3>1. Usable /\ Blank(mem) /\ column = 0 /\ row = 0 /\ lines = <<<<>>>>
      BY <1>1, <2>1 DEF Usable, ScreenOK
    <3>2. Follows(mem, 0, 0, <<<<>>>>)
      BY <1>1, <3>1, BlankFollows
    <3>3. Follows(mem', column', row', lines')
      BY <1>1, <2>1, <3>1, <3>2
    <3>4. QED
      BY <1>1, <3>3, SameScreen
  <2>4. CASE Accepts
    BY <1>1, <2>1, <2>2, <2>3, <2>4 DEF ScreenOK
  <2>5. CASE ~Accepts
    BY <1>1, <2>1, <2>2, <2>5 DEF ScreenOK
  <2>6. QED
    BY <2>4, <2>5
<1>4. QED
  BY <1>2, <1>3

LEMMA PrintKeeps == PrintInv /\ [PrintNext]_printing => PrintInv'
<1> SUFFICES ASSUME PrintInv, [PrintNext]_printing PROVE PrintInv'
  OBVIOUS
<1> USE DEF PrintInv
<1>1. CASE SerialInit
  <2>1. UNCHANGED screen
    BY <1>1 DEF SerialInit
  <2>2. QED
    BY <1>1, <2>1, SerialInitShows, ScreenStays
<1>2. CASE Say
  <2>1. UNCHANGED screen
    BY <1>2 DEF Say
  <2>2. QED
    BY <1>2, <2>1, SayShows, ScreenStays
<1>3. CASE WriteByte
  BY <1>3, WriteShows, WriteDraws
<1>4. CASE Transmit
  <2>1. UNCHANGED screen
    BY <1>4 DEF Transmit
  <2>2. QED
    BY <1>4, <2>1, TransmitShows, ScreenStays
<1>5. CASE Paint
  <2>1. UNCHANGED <<uart, thr, term, boot, out, said>>
    BY <1>5 DEF Paint, wire
  <2>2. PrintType' /\ UartOK'
    BY <2>1 DEF PrintType, UartOK
  <2>3. TermOK'
    BY <2>1 DEF TermOK, AfterThr
  <2>4. ScreenOK'
    BY <1>5, PaintShows DEF Paint
  <2>5. QED
    BY <2>2, <2>3, <2>4
<1>6. CASE UNCHANGED printing
  <2>1. UNCHANGED <<uart, thr, term, boot, out, said>> /\ UNCHANGED screen
    BY <1>6 DEF printing, wire
  <2>2. PrintType' /\ UartOK'
    BY <2>1 DEF PrintType, UartOK
  <2>3. TermOK'
    BY <2>1 DEF TermOK, AfterThr
  <2>4. QED
    BY <2>1, <2>2, <2>3, ScreenStays
<1>7. CASE Silent
  BY <1>6, <1>7 DEF Silent
<1>8. QED
  BY <1>1, <1>2, <1>3, <1>4, <1>5, <1>6, <1>7 DEF PrintNext

LEMMA PrintInvariance == PrintSpec => []PrintInv
BY PrintStarts, PrintKeeps, PTL DEF PrintSpec

\* Whatever the UART was left like by the firmware and whatever is printed,
\* early or late, the terminal shows exactly that once it is all sent.
THEOREM TerminalIsFaithful == PrintSpec => []TerminalShowsText
<1>1. PrintInv => TerminalShowsText
  <2> SUFFICES ASSUME PrintInv, uart.present, out = <<>>, thr = <<>> PROVE term.lines = said
    BY DEF TerminalShowsText
  <2>1. term = Showing(said)
    BY DEF PrintInv, TermOK, AfterThr, AfterOut
  <2>2. QED
    BY <2>1 DEF Showing
<1>2. QED
  BY <1>1, PrintInvariance, PTL

\* For every framebuffer and every font, however long the text: each visible
\* pixel is the one the last lines of the text call for.
THEOREM ScreenIsFaithful == PrintSpec => []ScreenShowsText
<1>1. PrintInv => ScreenShowsText
  <2> SUFFICES ASSUME PrintInv, pc = "ready", NEW x \in 0 .. (fb.width - 1), NEW y \in 0 .. (fb.height - 1),
                      NEW k \in 0 .. (WORD - 1)
               PROVE  mem[Scanout(x, y) * WORD + k] = StoredByte(Expected(x, y), k)
    BY DEF ScreenShowsText
  <2>1. Showed(mem, lines) /\ <<x, y, k>> \in Visible
    BY DEF PrintInv, ScreenOK, Follows, Visible
  <2>2. mem[Offset(x, y, k)] = StoredByte(Colour(lines, x, y), k)
    BY <2>1 DEF Showed
  <2>3. Offset(x, y, k) = Scanout(x, y) * WORD + k
    BY DEF Offset, Scanout, At
  <2>4. Colour(lines, x, y) = Expected(x, y)
    BY DEF Colour, Expected, Lit, Hidden
  <2>5. QED
    BY <2>2, <2>3, <2>4
<1>2. QED
  BY <1>1, PrintInvariance, PTL

\* Neither painter touches a byte past the size the firmware reported,
\* whether the console accepts the framebuffer or not.
THEOREM PaintersStayInside == PrintSpec => []WritesStayInside
<1>1. PrintInv => WritesStayInside
  BY DEF PrintInv, ScreenOK, Unspoilt, WritesStayInside
<1>2. QED
  BY <1>1, PrintInvariance, PTL
=============================================================================
