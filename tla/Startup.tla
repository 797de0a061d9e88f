------------------------------- MODULE Startup -------------------------------
(***************************************************************************)
(* kernel_main up to and just past `sti` (kernel/src/main.rs): gdt::init,   *)
(* idt::init, pic::init, pit::init, ps2::init, the breakpoint self-test,    *)
(* the screen, the memory allocators, and interrupts::enable, with the      *)
(* printing between them.  It composes Traps, for the tables, with Ps2, for *)
(* the keyboard controller, and adds the two 8259s and the 8254, which are  *)
(* external.  One step is one instruction that a device or the CPU notices: *)
(* keys and timer edges come between any two, and so may an exception.      *)
(***************************************************************************)
EXTENDS Ps2, Traps, Sequences

CONSTANTS
    TIMER_HZ,
    Faults              \* bound: the exceptions raised at any instruction

BASE_FREQUENCY == 1193182

\* pit::init asserts it of its argument, which is this constant.
ASSUME StartupAssumption ==
    /\ TIMER_HZ \in 19 .. BASE_FREQUENCY
    /\ Faults \subseteq Vectors \ {DF}

VARIABLES
    phase, step,        \* the call kernel_main is in, and how far it is
    pic,                \* the 8259s: [base, mask, icw, irr, isr] each
    pit                 \* channel 0 of the 8254: [mode, next, latch, reload]

control == <<phase, step>>
setup   == <<control, pic, pit>>
all     == <<vars, tables, trapped, setup>>

\* The calls of kernel_main and its init, in the order they are made.
Order_Ps2First == <<"gdt", "idt", "ps2", "pic", "pit", "selftest", "screen", "memory", "enable">>
Order == <<"gdt", "idt", "pic", "pit", "ps2", "selftest", "screen", "memory", "enable">>

\* Both chips power up at the vectors of the CPU's exceptions; the firmware
\* left some mask, and its own rate in the timer.
StartupInit ==
    /\ Init /\ TrapsInit
    /\ ~present => firmware = NoByte /\ ~output.full
    /\ phase = 1 /\ step = 0
    /\ pic = [c \in {"master", "slave"} |->
                [base |-> IF c = "master" THEN 8 ELSE 112, mask |-> {0, 2}, icw |-> 0,
                 irr |-> {}, isr |-> {}]]
    /\ pit = [mode |-> 3, next |-> "low", latch |-> 0, reload |-> 0]

Running(call) ==
    /\ outcome = "running" /\ trap = NoTrap
    /\ phase <= Len(Order) /\ Order[phase] = call

\* Behind its last step a call returns.
Advance(last) == IF step = last THEN phase' = phase + 1 /\ step' = 0
                                ELSE step' = step + 1 /\ UNCHANGED phase

\* without_interrupts puts IF back as it found it.
Restored_AlwaysSti(was_enabled) == TRUE
Restored(was_enabled) == was_enabled

\* The kprintln between two calls.
Announce ==
    /\ outcome = "running" /\ trap = NoTrap /\ step = 0 /\ phase <= Len(Order)
    /\ step' = 1 /\ iflag' = Restored(iflag)
    /\ UNCHANGED <<vars, tables, trap, report, outcome, phase, pic, pit>>

-----------------------------------------------------------------------------
(* gdt::init and idt::init *)

GdtInit ==
    /\ Running("gdt") /\ step > 0 /\ Advance(6)
    /\ \/ step = 1 /\ FillTss
       \/ step = 2 /\ FillGdt
       \/ step = 3 /\ lgdt
       \/ step = 4 /\ retfq
       \/ step = 5 /\ MovSs
       \/ step = 6 /\ ltr
    /\ UNCHANGED <<vars, iflag, report, outcome, pic, pit>>

IdtInit ==
    /\ Running("idt") /\ step > 0 /\ Advance(2)
    /\ \/ step = 1 /\ FillIdt
       \/ step = 2 /\ lidt
    /\ UNCHANGED <<vars, iflag, report, outcome, pic, pit>>

-----------------------------------------------------------------------------
(* pic::init *)

ICW1_INIT_ICW4 == 17            \* ICW1_INIT | ICW1_ICW4
ICW4_8086 == 1
Bits(byte) == {i \in 0 .. 7 : (byte \div 2^i) % 2 = 1}

\* A chip (external) takes a command: ICW1 clears its masks, its requests
\* and its service, and begins the sequence; then data is ICW2, ICW3, ICW4
\* in turn, and from then on OCW1, the masks.
Command(chp, byte) ==
    IF 4 \in Bits(byte) THEN [chp EXCEPT !.icw = 2, !.mask = {}, !.irr = {}, !.isr = {}] ELSE chp
Data(chp, byte) ==
    CASE chp.icw = 2 -> [chp EXCEPT !.icw = 3, !.base = byte - (byte % 8)]
      [] chp.icw = 3 -> [chp EXCEPT !.icw = 4]
      [] chp.icw = 4 -> [chp EXCEPT !.icw = 0]
      [] OTHER       -> [chp EXCEPT !.mask = Bits(byte)]

\* The writes pic::init makes, each with its io_wait.
PicWrites ==
    << <<"master", "command", ICW1_INIT_ICW4>>, <<"slave", "command", ICW1_INIT_ICW4>>,
       <<"master", "data", PIC1_OFFSET>>,       <<"slave", "data", PIC2_OFFSET>>,
       <<"master", "data", 4>>,                 <<"slave", "data", 2>>,
       <<"master", "data", ICW4_8086>>,         <<"slave", "data", ICW4_8086>>,
       <<"master", "data", 252>>,               <<"slave", "data", 255>> >>

PicInit ==
    /\ Running("pic") /\ step > 0 /\ Advance(Len(PicWrites))
    /\ LET chp == PicWrites[step][1]
           port == PicWrites[step][2]
           byte == PicWrites[step][3]
       IN  /\ pic' = [pic EXCEPT ![chp] =
                        IF port = "command" THEN Command(@, byte) ELSE Data(@, byte)]
           /\ latched' = (latched /\ ~(chp = "master" /\ port = "command"))
    /\ UNCHANGED <<software, chip, input, payload, output, lost, tables, trapped, pit>>

-----------------------------------------------------------------------------
(* pit::init *)

Divisor == (BASE_FREQUENCY \div TIMER_HZ) % 2^16

\* The command byte 0x36, then the divisor a byte at a time.
PitBytes_HighFirst == <<54, Divisor \div 256, Divisor % 256>>
PitBytes == <<54, Divisor % 256, Divisor \div 256>>

\* Channel 0 (external): a command for it that selects low byte then high
\* byte restarts the pair; a reload value counts when both have come.
PitCommand(byte) ==
    IF byte \div 64 = 0 /\ (byte \div 16) % 4 = 3
    THEN [pit EXCEPT !.mode = (byte \div 2) % 8, !.next = "low"] ELSE pit
PitData(byte) ==
    IF pit.next = "low" THEN [pit EXCEPT !.next = "high", !.latch = byte]
                        ELSE [pit EXCEPT !.next = "low", !.reload = byte * 256 + pit.latch]

PitInit ==
    /\ Running("pit") /\ step > 0 /\ Advance(Len(PitBytes))
    /\ pit' = IF step = 1 THEN PitCommand(PitBytes[step]) ELSE PitData(PitBytes[step])
    /\ UNCHANGED <<vars, tables, trapped, pic>>

-----------------------------------------------------------------------------
(* ps2::init, and the rest of kernel_main up to the waits of Runtime *)

Ps2Init ==
    /\ Running("ps2") /\ step > 0
    /\ Step
    /\ IF pc' \in {"done", "timeout"} THEN Advance(step) ELSE UNCHANGED control
    /\ UNCHANGED <<tables, trapped, pic, pit>>

\* int3: the handler returns to the instruction behind it.
Selftest ==
    /\ Running("selftest") /\ step > 0 /\ Advance(1)
    /\ trap' = Event("int3", BP, "good")
    /\ UNCHANGED <<vars, tables, iflag, report, outcome, pic, pit>>

\* fill_screen and console::init; see Console.
Screen ==
    /\ Running("screen") /\ step > 0 /\ Advance(1)
    /\ UNCHANGED <<vars, tables, trapped, pic, pit>>

\* The frame allocator and the heap come up, or kernel_main gives up; see
\* Memory.
MemoryUp ==
    /\ Running("memory") /\ step > 0 /\ Advance(1)
    /\ UNCHANGED <<vars, tables, trapped, pic, pit>>

MemoryFails ==
    /\ Running("memory") /\ step > 0
    /\ outcome' = "Failed"
    /\ UNCHANGED <<vars, tables, iflag, trap, report, setup>>

\* interrupts::enable
EnableInterrupts ==
    /\ Running("enable") /\ step > 0 /\ Advance(1)
    /\ iflag' = TRUE
    /\ UNCHANGED <<vars, tables, trap, report, outcome, pic, pit>>

-----------------------------------------------------------------------------
(* Interrupts *)

TimerEdge ==
    /\ outcome = "running" /\ pic["master"].irr = {}
    /\ pic' = [pic EXCEPT !["master"].irr = {0}]
    /\ UNCHANGED <<vars, tables, trapped, control, pit>>

Requests == pic["master"].irr \cup (IF latched THEN {1} ELSE {})

\* The master (external) asks for a line that is neither masked nor behind
\* one in service, and the CPU answers while IF is set.
Served(line) ==
    /\ outcome = "running" /\ trap = NoTrap /\ iflag
    /\ pic["master"].icw = 0
    /\ line \notin pic["master"].mask /\ \A i \in pic["master"].isr : line < i
    /\ UNCHANGED <<software, chip, input, payload, output, lost, tables, iflag, report, outcome,
                   control, pit>>

Interrupt(line) ==
    /\ Served(line) /\ line \in Requests /\ \A i \in Requests : line <= i
    /\ trap' = Event(IF line = 0 THEN "timer" ELSE "keyboard", pic["master"].base + line, "good")
    /\ pic' = [pic EXCEPT !["master"].irr = @ \ {line}, !["master"].isr = @ \cup {line}]
    /\ latched' = (latched /\ line # 1)

\* A request withdrawn too late is served as line 7, which is not in service.
Spurious ==
    /\ \E line \in {0, 1} : Served(line)
    /\ trap' = Event("spurious", pic["master"].base + 7, "good")
    /\ UNCHANGED <<pic, latched>>

\* The handlers: the keyboard's reads the byte; all three send an EOI.
IrqHandler ==
    /\ \E h \in {"timer", "keyboard", "unhandled_irq"} : Handling(h)
    /\ output' = IF trap.at = "keyboard" THEN [output EXCEPT !.full = FALSE] ELSE output
    /\ pic' = [pic EXCEPT !["master"].isr = {i \in @ : \E j \in @ : j < i}]
    /\ iretq
    /\ UNCHANGED <<software, chip, input, payload, latched, lost, tables, report, outcome,
                   control, pit>>

-----------------------------------------------------------------------------
(* Exceptions, and the whole *)

\* Any instruction may fault, also with the stack pointer gone bad.  (Bound:
\* on machines without a keyboard controller, where less else happens.)
Raise ==
    /\ outcome = "running" /\ trap = NoTrap /\ ~present
    /\ \E v \in Faults, rsp \in {"good", "bad"} : trap' = Event("code", v, rsp)
    /\ UNCHANGED <<vars, tables, iflag, report, outcome, setup>>

Exceptions == (Deliver \/ breakpoint_handler \/ report_fault) /\ UNCHANGED <<vars, setup>>

Main ==
    \/ Announce \/ GdtInit \/ IdtInit \/ PicInit \/ PitInit \/ Ps2Init
    \/ Selftest \/ Screen \/ MemoryUp \/ MemoryFails \/ EnableInterrupts

Devices ==
    /\ outcome = "running"
    /\ KeyPressed \/ Respond \/ Obey
    /\ UNCHANGED <<tables, trapped, setup>>

Stopped == outcome # "running" /\ UNCHANGED all

StartupNext ==
    \/ Main \/ Exceptions \/ IrqHandler
    \/ Interrupt(0) \/ Interrupt(1) \/ Spurious \/ Raise
    \/ TimerEdge \/ Devices \/ Stopped

StartupSpec == StartupInit /\ [][StartupNext]_all

\* The CPU runs: kernel_main while no handler does, and the handlers.
\* Nothing is assumed of the devices.
FairStartup == StartupSpec /\ WF_all(Main) /\ WF_all(Exceptions)

-----------------------------------------------------------------------------
(* Properties *)

\* Once ps2::init has run to its end and the controller has caught up, the
\* first port raises IRQ1 and its clock runs, and a byte in its output buffer
\* is announced to an 8259 that will still remember it, or being read: no
\* key, pressed at whatever moment of start-up, wedges the keyboard, not even
\* one read in place of the configuration.
KeyboardReady ==
    pc = "done" /\ input = "empty" =>
        cfg.irq1 /\ ~cfg.off /\ (output.full => latched \/ trap.source = "keyboard")

\* From lidt on no exception, whatever its vector and whatever has become of
\* the stack, resets the machine, runs into the firmware's handlers or into
\* no handler: "a triple fault gives no diagnostics at all" (idt.rs).
NoSilentReset == outcome \in {"reset", "firmware", "wild"} => idtr = "firmware"

\* A report is printed for an exception of the running code alone: building
\* the tables, resuming behind int3 and interrupts cause none.  With a stack
\* to push on, a vector with a handler is reported as itself; without one,
\* as the double fault it becomes, from the fault stack.
FaultIsNamed ==
    report # NoReport =>
        /\ trap.source = "code"
        /\ report.handler = "double_fault" => report.rsp = "fault"
        /\ trap.cause \in {DE, UD, GP, PF} /\ report.rsp = "good" =>
               Named[report.handler] = trap.cause
        /\ report.rsp # "bad"

\* An interrupt is taken only behind interrupts::enable, and reaches the
\* handler of its own line; a spurious one the catch-all (pic.rs, idt.rs).
IrqReachesItsHandler ==
    trap.source \in {"timer", "keyboard", "spurious"} =>
        /\ phase > Len(Order)
        /\ trap.at \in {"deliver", IF trap.source = "spurious" THEN "unhandled_irq" ELSE trap.source}

\* When interrupts come on, the timer runs at TIMER_HZ or slightly above:
\* its reload value is the greatest that is not too slow (pit.rs); and the
\* 8259s are past their initialisation, with no line open but the timer's
\* and the keyboard's, the cascade included (pic.rs).
DevicesReady ==
    phase > Len(Order) =>
        /\ pit.mode = 3 /\ pit.next = "low"
        /\ pit.reload * TIMER_HZ <= BASE_FREQUENCY
        /\ (pit.reload + 1) * TIMER_HZ > BASE_FREQUENCY
        /\ pic["master"].icw = 0 /\ pic["master"].mask = (0 .. 7) \ {0, 1}
        /\ pic["slave"].icw = 0 /\ pic["slave"].mask = 0 .. 7

\* kernel_main gets as far as its waits, or stops with a verdict: no wait of
\* start-up hangs, whatever the keyboard controller does, also when there is
\* none, and no exception is left without an end.
StartupDecides == <>(outcome # "running" \/ phase > Len(Order))
=============================================================================
