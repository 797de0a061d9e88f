------------------------------- MODULE Runtime -------------------------------
(***************************************************************************)
(* The running kernel, from `sti` in kernel_main to its verdict: the two   *)
(* waits of kernel_main (kernel/src/main.rs), the interrupt handlers of    *)
(* idt.rs, without_interrupts (interrupts.rs), printing (serial.rs),       *)
(* the keyboard driver (keyboard.rs) and the EOI of pic.rs, over an 8259   *)
(* interrupt controller, an 8042 keyboard controller and a timer, which    *)
(* are external.  One step is one access to shared state: an interrupt may *)
(* arrive between any two while the interrupt flag is set.                 *)
(***************************************************************************)
EXTENDS Naturals, Sequences, FiniteSets

CONSTANTS
    TICKS_REQUIRED,     \* ticks kernel_main waits for
    KEY_WAIT,           \* ticks it then waits for a key: TIMER_HZ * 10
    MaxKeys,            \* bound: scancodes the keyboard sends
    MaxDepth            \* bound: interrupt frames the CPU can stack

ASSUME RuntimeAssumption ==
    TICKS_REQUIRED \in Nat /\ KEY_WAIT \in Nat /\ MaxKeys \in Nat /\ MaxDepth \in Nat

\* What read_key tells apart: a make code with a translation, and the rest.
Scancode == {"make", "other"}

TIMER    == 0           \* IRQ lines, in the order of their priority
KEYBOARD == 1
SPURIOUS == 7
MAIN     == 0           \* printing contexts: kernel_main, and frames by depth

VARIABLES
    iflag,          \* RFLAGS.IF
    irr, isr,       \* the master 8259: requests pending and in service
    at,             \* the call or test of kernel_main that is next
    phase,          \* how far that call is: "call", "in", "last", "return"
    reg,            \* the value its last call returned
    saved,          \* was_enabled of its open without_interrupts
    deadline,       \* the tick after which it stops waiting for a key
    handlers,       \* the interrupt frames, innermost last: [irq, at, reg, saved]
    ticks,          \* TICKS
    keys,           \* KEY_EVENTS_SEEN
    obf,            \* the 8042 output buffer: [full, byte]; a read leaves byte
    sent,           \* scancodes the keyboard has put in the buffer
    open,           \* contexts that have printed part of a line
    verdict         \* what was written to isa-debug-exit, "none" before

device == <<irr, isr, obf, sent>>
main   == <<at, phase, reg, saved, deadline>>
vars   == <<iflag, device, main, handlers, ticks, keys, open, verdict>>

\* The tick count matters only up to the value it is compared with.
Horizon == IF deadline = 0 THEN TICKS_REQUIRED ELSE deadline + 1
Capped(n, c) == IF n > c THEN c ELSE n

Init ==
    /\ iflag = FALSE
    /\ irr \in SUBSET {TIMER, KEYBOARD} /\ isr = {}
    /\ at = "enable" /\ phase = "call" /\ reg = 0 /\ saved = FALSE /\ deadline = 0
    /\ handlers = <<>>
    /\ ticks = 0 /\ keys = 0
    /\ obf \in [full : BOOLEAN, byte : Scancode] /\ sent = 0
    /\ obf.full => KEYBOARD \in irr      \* see KeyboardReady in Ps2
    /\ open = {} /\ verdict = "none"

-----------------------------------------------------------------------------
(* The devices (external) *)

TimerFires ==
    /\ verdict = "none"
    /\ irr' = irr \cup {TIMER}
    /\ UNCHANGED <<iflag, isr, obf, sent, main, handlers, ticks, keys, open, verdict>>

\* The 8042 takes a scancode only into an empty buffer, and then asks.
KeyArrives ==
    /\ verdict = "none" /\ sent < MaxKeys /\ ~obf.full
    /\ \E c \in Scancode : obf' = [full |-> TRUE, byte |-> c]
    /\ irr' = irr \cup {KEYBOARD} /\ sent' = sent + 1
    /\ UNCHANGED <<iflag, isr, main, handlers, ticks, keys, open, verdict>>

\* The 8259 interrupts only for a line above every line in service.
Outranks(irq) == \A i \in isr : irq < i

\* A non-specific EOI ends the service of the highest line in service.
EOI == isr' = {i \in isr : \E j \in isr : j < i}

\* The CPU takes an interrupt: through an interrupt gate, so with IF clear.
\* It ends a halt: kernel_main goes on behind its hlt.
Take(irq, entry) ==
    /\ verdict = "none" /\ iflag /\ Len(handlers) < MaxDepth
    /\ iflag' = FALSE
    /\ handlers' = Append(handlers, [irq |-> irq, at |-> entry, reg |-> 0, saved |-> FALSE])
    /\ at' = CASE at = "asleep, timer"    -> "ticks"
               [] at = "asleep, keyboard" -> "key_events_seen"
               [] OTHER -> at
    /\ UNCHANGED <<obf, sent, phase, reg, saved, deadline, ticks, keys, open, verdict>>

Deliver(irq) ==
    /\ irq \in irr /\ Outranks(irq) /\ \A i \in irr : irq <= i
    /\ Take(irq, IF irq = TIMER THEN "load" ELSE "inb")
    /\ irr' = irr \ {irq} /\ isr' = isr \cup {irq}

\* A request withdrawn before it is acknowledged becomes vector 7, and sets
\* no bit in service.
DeliverSpurious ==
    /\ \E irq \in {TIMER, KEYBOARD} : Outranks(irq)
    /\ Take(SPURIOUS, "eoi")
    /\ UNCHANGED <<irr, isr>>

-----------------------------------------------------------------------------
(* kernel_main runs whenever no handler does *)

Main(label, ph) == verdict = "none" /\ handlers = <<>> /\ at = label /\ phase = ph

\* without_interrupts: IF is saved and cleared, and afterwards put back.
Restored_AlwaysSti(was_enabled) == TRUE
Restored(was_enabled) == iflag \/ was_enabled

Enter_NoCli(label) ==
    /\ Main(label, "call") /\ phase' = "in"
    /\ saved' = iflag
    /\ UNCHANGED <<iflag, device, at, reg, deadline, handlers, ticks, keys, open, verdict>>

Enter(label) ==
    /\ Main(label, "call") /\ phase' = "in"
    /\ saved' = iflag /\ iflag' = FALSE
    /\ UNCHANGED <<device, at, reg, deadline, handlers, ticks, keys, open, verdict>>

Leave(label, next) ==
    /\ Main(label, "return") /\ phase' = "call" /\ at' = next
    /\ iflag' = Restored(saved) /\ saved' = FALSE
    /\ UNCHANGED <<device, reg, deadline, handlers, ticks, keys, open, verdict>>

\* A call that reads a counter: idt::ticks or idt::key_events_seen.
Read(label, value, next) ==
    \/ Enter(label)
    \/ /\ Main(label, "in") /\ phase' = "return"
       /\ reg' = value
       /\ deadline' = IF label = "set deadline" THEN value + KEY_WAIT ELSE deadline
       /\ UNCHANGED <<iflag, device, at, saved, handlers, ticks, keys, open, verdict>>
    \/ Leave(label, next)

\* _print: the bytes of a line are written one by one inside the section.
PrintLine(label, next) ==
    \/ Enter(label)
    \/ /\ Main(label, "in") /\ phase' = "last"
       /\ open' = open \cup {MAIN}
       /\ UNCHANGED <<iflag, device, at, reg, saved, deadline, handlers, ticks, keys, verdict>>
    \/ /\ Main(label, "last") /\ phase' = "return"
       /\ open' = open \ {MAIN}
       /\ UNCHANGED <<iflag, device, at, reg, saved, deadline, handlers, ticks, keys, verdict>>
    \/ Leave(label, next)

\* A test on the value just read, or a hlt: no shared state is touched.
Goto(label, next) ==
    /\ Main(label, "call") /\ at' = next
    /\ UNCHANGED <<iflag, device, phase, reg, saved, deadline, handlers, ticks, keys, open, verdict>>

\* qemu_exit::exit: the machine stops.
Exit(label, code) ==
    /\ Main(label, "call")
    /\ verdict' = code
    /\ UNCHANGED <<iflag, device, main, handlers, ticks, keys, open>>

\* interrupts::enable
Enable ==
    /\ Main("enable", "call") /\ at' = "ticks"
    /\ iflag' = TRUE
    /\ UNCHANGED <<device, phase, reg, saved, deadline, handlers, ticks, keys, open, verdict>>

\* while ticks() < TICKS_REQUIRED { hlt() }
TimerWait ==
    \/ Read("ticks", ticks, "enough ticks?")
    \/ reg < TICKS_REQUIRED /\ Goto("enough ticks?", "hlt, timer")
    \/ ~(reg < TICKS_REQUIRED) /\ Goto("enough ticks?", "print timer")
    \/ Goto("hlt, timer", "asleep, timer")
    \/ PrintLine("print timer", "print waiting")

\* while key_events_seen() == 0 { if ticks() > deadline { fail } hlt() }
KeyWait ==
    \/ PrintLine("print waiting", "set deadline")
    \/ Read("set deadline", ticks, "key_events_seen")
    \/ Read("key_events_seen", keys, "any key?")
    \/ reg = 0 /\ Goto("any key?", "ticks, again")
    \/ reg # 0 /\ Goto("any key?", "count keys")
    \/ Read("ticks, again", ticks, "too late?")
    \/ reg > deadline /\ Goto("too late?", "print no input")
    \/ ~(reg > deadline) /\ Goto("too late?", "hlt, keyboard")
    \/ Goto("hlt, keyboard", "asleep, keyboard")

Finish ==
    \/ PrintLine("print no input", "exit failed")
    \/ Exit("exit failed", "Failed")
    \/ Read("count keys", keys, "print keys")
    \/ PrintLine("print keys", "exit success")
    \/ Exit("exit success", "Success")

MainStep == Enable \/ TimerWait \/ KeyWait \/ Finish

-----------------------------------------------------------------------------
(* The handlers: the innermost frame runs *)

Top == handlers[Len(handlers)]
Handler(label) == verdict = "none" /\ handlers # <<>> /\ Top.at = label
Becomes(frame) == handlers' = [handlers EXCEPT ![Len(handlers)] = frame]
Then(label) == Becomes([Top EXCEPT !.at = label])

\* TICKS += 1 and KEY_EVENTS_SEEN += 1: a load and a store.
Load(value) ==
    /\ Handler("load")
    /\ Becomes([Top EXCEPT !.at = "store", !.reg = value])
    /\ UNCHANGED <<iflag, device, main, ticks, keys, open, verdict>>

StoreTicks ==
    /\ Handler("store") /\ Top.irq = TIMER
    /\ ticks' = Capped(Top.reg + 1, Horizon)
    /\ Then("eoi")
    /\ UNCHANGED <<iflag, device, main, keys, open, verdict>>

TimerHandler == (Top.irq = TIMER /\ Load(ticks)) \/ StoreTicks

\* keyboard::read_key consumes the byte, whether or not it has a translation.
\* (The first form leaves a byte without one in the buffer.)
ReadKey_OnlyTranslated ==
    /\ Handler("inb")
    /\ obf' = [obf EXCEPT !.full = obf.byte # "make"]
    /\ Then(IF obf.byte = "make" THEN "load" ELSE "eoi")
    /\ UNCHANGED <<iflag, irr, isr, sent, main, ticks, keys, open, verdict>>

ReadKey ==
    /\ Handler("inb")
    /\ obf' = [obf EXCEPT !.full = FALSE]
    /\ Then(IF obf.byte = "make" THEN "load" ELSE "eoi")
    /\ UNCHANGED <<iflag, irr, isr, sent, main, ticks, keys, open, verdict>>

StoreKeys ==
    /\ Handler("store") /\ Top.irq = KEYBOARD
    /\ keys' = Capped(Top.reg + 1, MaxKeys)
    /\ Then("print")
    /\ UNCHANGED <<iflag, device, main, ticks, open, verdict>>

\* kprintln in the handler: its own without_interrupts.
HandlerPrint ==
    /\ \/ /\ Handler("print") /\ iflag' = FALSE
          /\ Becomes([Top EXCEPT !.at = "first", !.saved = iflag])
          /\ UNCHANGED open
       \/ /\ Handler("first") /\ open' = open \cup {Len(handlers)}
          /\ Then("last") /\ UNCHANGED iflag
       \/ /\ Handler("last") /\ open' = open \ {Len(handlers)}
          /\ Then("restore") /\ UNCHANGED iflag
       \/ /\ Handler("restore") /\ iflag' = Restored(Top.saved)
          /\ Then("eoi") /\ UNCHANGED open
    /\ UNCHANGED <<device, main, ticks, keys, verdict>>

KeyboardHandler == ReadKey \/ (Top.irq = KEYBOARD /\ Load(keys)) \/ StoreKeys \/ HandlerPrint

\* end_of_interrupt, the last call of all three handlers.
EndOfInterrupt_Forgotten ==
    /\ Handler("eoi")
    /\ Then("iret")
    /\ UNCHANGED <<iflag, device, main, ticks, keys, open, verdict>>

EndOfInterrupt ==
    /\ Handler("eoi") /\ EOI
    /\ Then("iret")
    /\ UNCHANGED <<iflag, irr, obf, sent, main, ticks, keys, open, verdict>>

\* iretq restores the flags of the interrupted code, which had IF set.
Iret ==
    /\ Handler("iret")
    /\ handlers' = SubSeq(handlers, 1, Len(handlers) - 1)
    /\ iflag' = TRUE
    /\ UNCHANGED <<device, main, ticks, keys, open, verdict>>

HandlerStep == handlers # <<>> /\ (TimerHandler \/ KeyboardHandler \/ EndOfInterrupt \/ Iret)

Done == verdict # "none" /\ UNCHANGED vars

Next == \/ TimerFires \/ KeyArrives
        \/ Deliver(TIMER) \/ Deliver(KEYBOARD) \/ DeliverSpurious
        \/ MainStep \/ HandlerStep \/ Done

Spec == Init /\ [][Next]_vars

\* The PIT keeps ticking; the CPU runs, takes pending interrupts while IF is
\* set, and, since a tick is 10 ms and a handler far shorter, gets on with
\* kernel_main between them.
FairSpec ==
    /\ Spec
    /\ WF_vars(TimerFires) /\ SF_vars(Deliver(TIMER))
    /\ WF_vars(HandlerStep) /\ SF_vars(MainStep)

-----------------------------------------------------------------------------
(* Properties *)

\* Handlers do not nest, and run with IF clear: without_interrupts restores
\* the state it found, also when a handler prints (interrupts.rs).
NoReentry == Len(handlers) <= 1 /\ (handlers # <<>> => ~iflag)

\* A line is in service exactly while its handler has not sent its EOI, so
\* no EOI, not even the unconditional one of unhandled_irq_handler,
\* acknowledges an interrupt that another handler is serving.
EOIAcknowledgesOwn ==
    isr = IF handlers # <<>> /\ Top.irq # SPURIOUS /\ Top.at # "iret" THEN {Top.irq} ELSE {}

\* No print starts while another context is in the middle of a line
\* (serial.rs, _print).
LinesWhole == Cardinality(open) <= 1

\* A full output buffer is about to be read: its request is pending, or its
\* handler has not read yet.  Otherwise the keyboard would never interrupt
\* again (idt.rs, keyboard_handler).
ByteAnnounced ==
    obf.full => KEYBOARD \in irr \/ \E i \in 1 .. Len(handlers) : handlers[i].at = "inb"

\* Whatever the keyboard does, the kernel reports a verdict: kernel_main
\* bounds its wait in ticks, and no wake-up it needs is lost.
VerdictReached == <>(verdict # "none")

\* "no input within 10s - IRQ1 is not delivering", and the failure code, are
\* for a dead keyboard: not for one whose key was counted before the deadline.
InputInTimeCounts ==
    [](deadline > 0 /\ keys > 0 /\ ticks <= deadline => [](verdict # "Failed"))
=============================================================================
