-------------------------------- MODULE Traps --------------------------------
(***************************************************************************)
(* The descriptor tables in use: what gdt::init and idt::init (gdt.rs,      *)
(* idt.rs) install, how the CPU (external) delivers an exception or an      *)
(* interrupt through them, and the exception handlers.  Delivery may itself *)
(* fault: the gate may be missing, its selector stale, its stack unusable.  *)
(* Faults pile up to a double fault, and a fault in delivering that one     *)
(* resets the machine.                                                      *)
(***************************************************************************)
EXTENDS Tables

CONSTANTS
    HandlerAddress,     \* where the linker put each handler
    TssAddress          \* and the TSS

DE == 0
BP == 3
UD == 6
DF == 8
TS == 10
GP == 13
PF == 14
Contributory == {DE, TS, 11, 12, GP}

PIC1_OFFSET     == 32
PIC2_OFFSET     == PIC1_OFFSET + 8
TIMER_VECTOR    == PIC1_OFFSET
KEYBOARD_VECTOR == PIC1_OFFSET + 1

\* Bound: the entries of the 256 that some step of this model can reach.
Vectors == 0 .. (PIC2_OFFSET + 7)

Handlers == {"divide_error", "breakpoint", "invalid_opcode", "double_fault",
             "general_protection", "page_fault", "timer", "keyboard", "unhandled_irq"}

ASSUME TrapsAssumption ==
    /\ HandlerAddress \in [Handlers -> Word]
    /\ \A g, h \in Handlers : HandlerAddress[g] = HandlerAddress[h] => g = h
    /\ TssAddress \in Word /\ TssAddress # {}     \* no static lies at address 0

VARIABLES
    gdt, ist, idt,      \* GDT, the IST of the TSS, IDT
    gdtr, idtr,         \* whose table each register names: "firmware", "kernel"
    cs, ss, tr,         \* the selectors in use, and the base of the TSS in use
    iflag,              \* RFLAGS.IF
    trap,               \* the event being delivered or handled, see NoTrap
    report,             \* the handler that printed a report, and its stack
    outcome             \* "running", "Failed", "firmware", "wild" or "reset"

tables  == <<gdt, ist, idt, gdtr, idtr, cs, ss, tr>>
trapped == <<iflag, trap, report, outcome>>

NoTrap   == [at |-> "none", source |-> "none", cause |-> 0, vector |-> 0, rsp |-> "good",
             iflag |-> FALSE]
NoReport == [handler |-> "none", rsp |-> "good"]
NoTss    == {}

\* The firmware's selectors, which the kernel's table has no entry for.
FIRMWARE_DATA == 48
FIRMWARE_CODE == 56

\* The handoff: interrupts off, the firmware's tables in use, its task
\* register unused.
TrapsInit ==
    /\ gdt = [i \in 0 .. (GDT_ENTRIES - 1) |-> {}]
    /\ ist = [i \in 0 .. 6 |-> "zero"]
    /\ idt = [v \in Vectors |-> Missing]
    /\ gdtr = "firmware" /\ idtr = "firmware"
    /\ cs = FIRMWARE_CODE /\ ss = FIRMWARE_DATA /\ tr = NoTss
    /\ iflag = FALSE /\ trap = NoTrap /\ report = NoReport /\ outcome = "running"

-----------------------------------------------------------------------------
(* Delivery (external) *)

\* Selectors as the CPU resolves them.
Descriptor(selector) ==
    IF gdtr = "firmware" THEN IF selector = FIRMWARE_CODE THEN CodeSegment ELSE DataSegment
    ELSE IF selector + 7 > GdtLimit THEN {}
    ELSE gdt[selector \div 8]

Gate(v) == IF idtr = "kernel" THEN idt[v]
           ELSE [Missing EXCEPT !.selector = FIRMWARE_CODE, !.type_attributes = INTERRUPT_GATE]

\* The stack a gate switches to: the one in use, or the one the TSS names.
StackOf(gate, rsp) ==
    IF gate.ist = 0 THEN rsp
    ELSE IF tr = TssAddress THEN ist[gate.ist - 1]
    ELSE "bad"

\* The exceptions that delivering v on stack rsp raises: the first that
\* applies, at most one.
Obstacle(v, rsp) ==
    IF ~IsGate(Gate(v)) \/ ~IsCode(Descriptor(Gate(v).selector)) THEN {GP}
    ELSE IF Gate(v).ist # 0 /\ tr = NoTss THEN {TS}
    ELSE IF StackOf(Gate(v), rsp) \in {"bad", "zero"} THEN {PF}
    ELSE {}

\* An exception while delivering v: both in turn, or a double fault.
Escalated(v, second) ==
    IF (v \in Contributory /\ second \in Contributory)
          \/ (v = PF /\ second \in Contributory \cup {PF})
    THEN DF ELSE second

\* An event to deliver, and where it is from.
Event(source, v, rsp) ==
    [at |-> "deliver", source |-> source, cause |-> v, vector |-> v, rsp |-> rsp, iflag |-> iflag]

\* What a gate's address leads to.
Target(v) ==
    IF idtr = "firmware" THEN "firmware"
    ELSE IF \E h \in Handlers : HandlerAddress[h] = GateOffset(Gate(v))
         THEN CHOOSE h \in Handlers : HandlerAddress[h] = GateOffset(Gate(v))
         ELSE "wild"

Enter ==
    /\ outcome = "running" /\ trap.at = "deliver" /\ Obstacle(trap.vector, trap.rsp) = {}
    /\ trap' = [trap EXCEPT !.at = Target(trap.vector), !.rsp = StackOf(Gate(trap.vector), trap.rsp)]
    /\ outcome' = IF Target(trap.vector) \in Handlers THEN outcome ELSE Target(trap.vector)
    /\ iflag' = FALSE
    /\ UNCHANGED <<tables, report>>

\* Nothing can be pushed on the old stack, so it stays the stack in use.
Pile ==
    /\ outcome = "running" /\ trap.at = "deliver"
    /\ \E second \in Obstacle(trap.vector, trap.rsp) :
        IF trap.vector = DF
        THEN outcome' = "reset" /\ UNCHANGED trap
        ELSE trap' = [trap EXCEPT !.vector = Escalated(trap.vector, second)] /\ UNCHANGED outcome
    /\ UNCHANGED <<tables, iflag, report>>

Deliver == Enter \/ Pile

-----------------------------------------------------------------------------
(* The handlers of idt.rs that are for exceptions *)

Handling(h) == outcome = "running" /\ trap.at = h

\* iretq: back to the interrupted code, with its flags and its selectors,
\* which must still be good.
iretq ==
    IF IsCode(Descriptor(cs)) /\ IsStack(Descriptor(ss))
    THEN trap' = NoTrap /\ iflag' = trap.iflag
    ELSE trap' = Event("table", GP, "good") /\ UNCHANGED iflag

\* It prints and returns: the code behind int3 goes on.
breakpoint_handler ==
    /\ Handling("breakpoint") /\ iretq
    /\ UNCHANGED <<tables, report, outcome>>

\* The exception that each report names in its text.
Named == [divide_error |-> DE, invalid_opcode |-> UD, double_fault |-> DF,
          general_protection |-> GP, page_fault |-> PF]

\* report_fault, and the double fault's own report: print, and exit.
report_fault ==
    /\ \E h \in DOMAIN Named : Handling(h)
    /\ report' = [handler |-> trap.at, rsp |-> trap.rsp]
    /\ outcome' = "Failed"
    /\ UNCHANGED <<tables, iflag, trap>>

-----------------------------------------------------------------------------
(* gdt::init, one step per instruction that the CPU notices *)

DOUBLE_FAULT_IST_INDEX == 0

FillTss ==
    /\ ist' = [ist EXCEPT ![DOUBLE_FAULT_IST_INDEX] = "fault"]
    /\ UNCHANGED <<gdt, idt, gdtr, idtr, cs, ss, tr, trap>>

FillGdt ==
    /\ gdt' = Gdt(TssAddress)
    /\ UNCHANGED <<ist, idt, gdtr, idtr, cs, ss, tr, trap>>

lgdt == gdtr' = "kernel" /\ UNCHANGED <<gdt, ist, idt, idtr, cs, ss, tr, trap>>

\* A selector register that is given no proper descriptor raises #GP.
Protect(ok) == trap' = IF ok THEN trap ELSE Event("table", GP, "good")

retfq ==
    /\ cs' = KERNEL_CODE_SELECTOR /\ Protect(IsCode(Descriptor(KERNEL_CODE_SELECTOR)))
    /\ UNCHANGED <<gdt, ist, idt, gdtr, idtr, ss, tr>>

MovSs ==
    /\ ss' = KERNEL_DATA_SELECTOR /\ Protect(IsStack(Descriptor(KERNEL_DATA_SELECTOR)))
    /\ UNCHANGED <<gdt, ist, idt, gdtr, idtr, cs, tr>>

ltr ==
    LET entry == TSS_SELECTOR \div 8
    IN  /\ Protect(IsAvailableTss(Descriptor(TSS_SELECTOR)))
        /\ tr' = SegmentBase(gdt[entry], gdt[entry + 1])
        /\ gdt' = [gdt EXCEPT ![entry] = Busy(@)]
        /\ UNCHANGED <<ist, idt, gdtr, idtr, cs, ss>>

-----------------------------------------------------------------------------
(* idt::init *)

\* The vectors that get a handler of their own, over the catch-all.
Installed_Swapped ==
    [divide_error |-> DE, breakpoint |-> BP, invalid_opcode |-> UD, double_fault |-> DF,
     general_protection |-> PF, page_fault |-> GP,
     timer |-> TIMER_VECTOR, keyboard |-> KEYBOARD_VECTOR]
Installed ==
    [divide_error |-> DE, breakpoint |-> BP, invalid_opcode |-> UD, double_fault |-> DF,
     general_protection |-> GP, page_fault |-> PF,
     timer |-> TIMER_VECTOR, keyboard |-> KEYBOARD_VECTOR]

StackIndex_None(h) == {}
StackIndex(h) == IF h = "double_fault" THEN {DOUBLE_FAULT_IST_INDEX} ELSE {}

CatchAll == PIC1_OFFSET .. (PIC2_OFFSET + 7)

FillIdt ==
    /\ idt' = [v \in Vectors |->
            LET own == {h \in DOMAIN Installed : Installed[h] = v}
            IN  CASE own # {}      -> LET h == CHOOSE x \in own : TRUE
                                      IN  set(HandlerAddress[h], StackIndex(h))
                  [] own = {} /\ v \in CatchAll -> set(HandlerAddress["unhandled_irq"], {})
                  [] OTHER         -> idt[v]]
    /\ UNCHANGED <<gdt, ist, gdtr, idtr, cs, ss, tr, trap>>

lidt == idtr' = "kernel" /\ UNCHANGED <<gdt, ist, idt, gdtr, cs, ss, tr, trap>>
=============================================================================
