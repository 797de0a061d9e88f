--------------------------- MODULE StartupProofs ---------------------------
(***************************************************************************)
(* Proofs about start-up: the descriptor tables and the exceptions that go *)
(* through them, the interrupts, the timer and the keyboard controller, for *)
(* every placement of the handlers and the TSS, every timer rate pit::init  *)
(* accepts, every spin budget and any number of keys.                      *)
(***************************************************************************)
EXTENDS Startup, Integers, TLAPS

\* Step s of call p lies behind.
Past(p, s) == phase > p \/ (phase = p /\ step > s)

\* How many steps each call has, its announcement aside.
Last == <<6, 2, 10, 3, 1, 1, 1, 1, 1>>

ControlOK ==
    /\ phase \in 1 .. 10 /\ step \in Nat
    /\ IF phase = 10 THEN step = 0 ELSE step <= Last[phase]

-----------------------------------------------------------------------------
(* The tables *)

Gated == {h \in Vectors : h \in {DE, BP, UD, DF, GP, PF} \/ h \in CatchAll}

\* The handler of each vector that has one.
Own(v) == {h \in DOMAIN Installed : Installed[h] = v}
Owner(v) == IF Own(v) # {} THEN CHOOSE h \in Own(v) : TRUE ELSE "unhandled_irq"

Entry(v) ==
    IF v \in Gated THEN set(HandlerAddress[Owner(v)], StackIndex(Owner(v))) ELSE Missing

\* What each step of gdt::init and idt::init leaves behind for good.
TablesOK ==
    /\ gdt \in [0 .. 4 -> SUBSET (0 .. 63)] /\ DOMAIN ist = 0 .. 6
    /\ Past(1, 1) => ist[0] = "fault"
    /\ Past(1, 2) /\ ~Past(1, 6) => gdt = Gdt(TssAddress)
    /\ Past(1, 2) => gdt[1] = CodeSegment /\ gdt[2] = DataSegment
    /\ gdtr = IF Past(1, 3) THEN "kernel" ELSE "firmware"
    /\ Past(1, 4) => cs = KERNEL_CODE_SELECTOR
    /\ Past(1, 5) => ss = KERNEL_DATA_SELECTOR
    /\ Past(1, 6) => tr = TssAddress
    /\ idt = [v \in Vectors |-> IF Past(2, 1) THEN Entry(v) ELSE Missing]
    /\ idtr = IF Past(2, 2) THEN "kernel" ELSE "firmware"

-----------------------------------------------------------------------------
(* The 8259s and the 8254 *)

Chip == [base : Nat, mask : SUBSET (0 .. 7), icw : {0, 2, 3, 4}, irr : SUBSET {0, 1}, isr : SUBSET {0, 1}]

PicOK ==
    /\ pic \in [{"master", "slave"} -> Chip]
    /\ Past(3, 1) /\ ~Past(3, 3) => pic["master"].icw = 2
    /\ Past(3, 3) /\ ~Past(3, 5) => pic["master"].icw = 3
    /\ Past(3, 5) /\ ~Past(3, 7) => pic["master"].icw = 4
    /\ Past(3, 2) /\ ~Past(3, 4) => pic["slave"].icw = 2
    /\ Past(3, 4) /\ ~Past(3, 6) => pic["slave"].icw = 3
    /\ Past(3, 6) /\ ~Past(3, 8) => pic["slave"].icw = 4
    /\ Past(3, 3) => pic["master"].base = PIC1_OFFSET
    /\ Past(3, 7) => pic["master"].icw = 0
    /\ Past(3, 8) => pic["slave"].icw = 0
    /\ Past(3, 9) => pic["master"].mask = 2 .. 7
    /\ Past(3, 10) => pic["slave"].mask = 0 .. 7

PitOK ==
    /\ pit \in [mode : Nat, next : {"low", "high"}, latch : Nat, reload : Nat]
    /\ Past(4, 1) => pit.mode = 3
    /\ Past(4, 1) /\ ~Past(4, 2) => pit.next = "low"
    /\ Past(4, 2) /\ ~Past(4, 3) => pit.next = "high" /\ pit.latch = Divisor % 256
    /\ Past(4, 3) => pit.next = "low" /\ pit.reload = (Divisor \div 256) * 256 + (Divisor % 256)

-----------------------------------------------------------------------------
(* Exceptions and interrupts *)

Sources == {"none", "int3", "code", "timer", "keyboard", "spurious"}

\* The vector of each source that has but one.
CauseOf == [int3 |-> BP, timer |-> TIMER_VECTOR, keyboard |-> KEYBOARD_VECTOR, spurious |-> PIC1_OFFSET + 7]

TrapType ==
    /\ iflag \in BOOLEAN /\ outcome \in {"running", "Failed", "firmware", "reset"}
    /\ trap \in [at : {"none", "deliver", "firmware"} \cup Handlers, source : Sources,
                 cause : Vectors, vector : Vectors, rsp : {"good", "bad", "fault"}, iflag : BOOLEAN]
    /\ trap.at = "none" \/ trap.source = "none" => trap = NoTrap

\* Interrupts wait for interrupts::enable, and so do their traps.
MaskedUntilEnabled ==
    /\ iflag \/ trap.iflag => phase = 10
    /\ trap.source \in {"timer", "keyboard", "spurious"} => phase = 10
    /\ trap.source = "int3" => phase > 6

\* With good tables a vector that has a gate is delivered as itself, as long
\* as there is a stack to push on; the rest become faults that have one.
TrapOK ==
    /\ trap.source \in DOMAIN CauseOf => trap.cause = CauseOf[trap.source] /\ trap.vector = trap.cause
    /\ trap.source # "code" => trap.rsp = "good"
    /\ trap.at = "deliver" => trap.rsp # "fault"
    /\ idtr = "kernel" /\ trap.rsp = "good" /\ trap.source = "code" =>
          trap.vector = trap.cause \/ trap.cause \notin Gated
    /\ trap.at \in Handlers => /\ idtr = "kernel" /\ trap.vector \in Gated /\ trap.at = Owner(trap.vector)
                               /\ trap.rsp # "bad" /\ (trap.rsp = "fault" <=> trap.at = "double_fault")
    /\ idtr = "kernel" => outcome \in {"running", "Failed"} /\ trap.at # "firmware"

ReportOK ==
    report # NoReport =>
        /\ outcome = "Failed" /\ report = [handler |-> trap.at, rsp |-> trap.rsp]
        /\ trap.at \in DOMAIN Named /\ trap.source = "code"

-----------------------------------------------------------------------------
(* The keyboard controller *)

\* ps2::init runs in its turn.
InItsTurn ==
    /\ phase < 5 => pc = "drain"
    /\ phase > 5 => pc \in {"done", "timeout"}

\* Each write finds the controller ready for it, and the last two belong
\* together: the byte behind them has the interrupt and the clock on.
Handshake ==
    /\ ~lost
    /\ pc \in {"enable", "request", "command", "data"} => input = "empty"
    /\ pc \in {"wait command", "command", "wait data", "data"} => config.irq1 /\ ~config.off
    /\ pc \in {"wait data", "data"} => input = "write config" \/ (input = "empty" /\ awaits)
    /\ pc = "done" => \/ input = "data" /\ awaits /\ payload.irq1 /\ ~payload.off
                      \/ input = "empty" /\ cfg.irq1 /\ ~cfg.off

\* Once the buffer has been drained, a byte in it has been announced.
ByteNoticed ==
    pc \notin {"drain", "discard", "timeout"} /\ output.full /\ cfg.irq1 =>
        latched \/ trap.source = "keyboard"

KeyboardOK == InItsTurn /\ Handshake /\ ByteNoticed

StartupInv ==
    /\ TypeOK /\ ControlOK /\ TablesOK /\ PicOK /\ PitOK
    /\ TrapType /\ MaskedUntilEnabled /\ TrapOK /\ ReportOK /\ KeyboardOK

-----------------------------------------------------------------------------
(* The formats: what the CPU reads back is what the kernel wrote *)

LEMMA LowBits ==
    ASSUME NEW w \in Word, NEW n \in 0 .. 63
    PROVE  Low(w, n) \in Word /\ \A b : b \in Low(w, n) <=> b \in w /\ b < n
BY DEF Low, Word

LEMMA ShrBits ==
    ASSUME NEW w \in Word, NEW n \in 0 .. 63
    PROVE  Shr(w, n) \in Word /\ \A b : b \in Shr(w, n) <=> b \in 0 .. (63 - n) /\ b + n \in w
<1>1. w \subseteq 0 .. 63
  BY DEF Word
<1>2. ASSUME NEW b \in Shr(w, n)
      PROVE  b \in 0 .. (63 - n) /\ b + n \in w
  <2>1. PICK c \in w : c >= n /\ b = c - n
    BY DEF Shr
  <2>2. c \in 0 .. 63 /\ b + n = c
    BY <1>1, <2>1
  <2>3. QED
    BY <2>1, <2>2
<1>3. ASSUME NEW b \in 0 .. (63 - n), b + n \in w
      PROVE  b \in Shr(w, n)
  <2>1. b + n >= n /\ b = (b + n) - n
    OBVIOUS
  <2>2. QED
    BY <1>3, <2>1 DEF Shr
<1>4. Shr(w, n) \in Word
  BY <1>2 DEF Word
<1>5. QED
  BY <1>2, <1>3, <1>4

LEMMA ShlBits ==
    ASSUME NEW w \in Word, NEW n \in 0 .. 63
    PROVE  Shl(w, n) \in Word /\ \A b : b \in Shl(w, n) <=> b \in n .. 63 /\ b - n \in w
<1>1. w \subseteq 0 .. 63
  BY DEF Word
<1>2. ASSUME NEW b \in Shl(w, n)
      PROVE  b \in n .. 63 /\ b - n \in w
  <2>1. PICK c \in w : c < 64 - n /\ b = c + n
    BY DEF Shl, Low
  <2>2. c \in 0 .. 63 /\ b - n = c
    BY <1>1, <2>1
  <2>3. QED
    BY <2>1, <2>2
<1>3. ASSUME NEW b \in n .. 63, b - n \in w
      PROVE  b \in Shl(w, n)
  <2>1. b - n < 64 - n /\ b = (b - n) + n
    OBVIOUS
  <2>2. QED
    BY <1>3, <2>1 DEF Shl, Low
<1>4. Shl(w, n) \in Word
  BY <1>2 DEF Word
<1>5. QED
  BY <1>2, <1>3, <1>4

\* The handler's address survives its three pieces.
LEMMA GateKeepsOffset ==
    ASSUME NEW h \in Word, NEW i
    PROVE  GateOffset(set(h, i)) = h
<1> DEFINE mid  == Low(Shr(h, 16), 16)
           high == Low(Shr(h, 32), 32)
<1>1. h \subseteq 0 .. 63
  BY DEF Word
<1>2. GateOffset(set(h, i)) = Low(h, 16) \cup Shl(mid, 16) \cup Shl(high, 32)
  BY DEF GateOffset, set
<1>3. /\ mid \in Word /\ \A b : b \in mid <=> b \in 0 .. 47 /\ b + 16 \in h /\ b < 16
      /\ high \in Word /\ \A b : b \in high <=> b \in 0 .. 31 /\ b + 32 \in h /\ b < 32
  <2>1. /\ Shr(h, 16) \in Word /\ \A b : b \in Shr(h, 16) <=> b \in 0 .. 47 /\ b + 16 \in h
        /\ Shr(h, 32) \in Word /\ \A b : b \in Shr(h, 32) <=> b \in 0 .. 31 /\ b + 32 \in h
    BY ShrBits
  <2>2. QED
    BY <2>1, LowBits
<1> HIDE DEF mid, high
<1>4. ASSUME NEW b \in 0 .. 63
      PROVE  b \in Shl(mid, 16) <=> b \in h /\ 16 <= b /\ b < 32
  <2>1. b \in Shl(mid, 16) <=> b \in 16 .. 63 /\ b - 16 \in mid
    BY <1>3, ShlBits
  <2>2. ASSUME b \in 16 .. 63
        PROVE  b - 16 \in mid <=> b \in h /\ b < 32
    BY <1>3, <2>2
  <2>3. QED
    BY <1>1, <2>1, <2>2
<1>5. ASSUME NEW b \in 0 .. 63
      PROVE  b \in Shl(high, 32) <=> b \in h /\ 32 <= b
  <2>1. b \in Shl(high, 32) <=> b \in 32 .. 63 /\ b - 32 \in high
    BY <1>3, ShlBits
  <2>2. ASSUME b \in 32 .. 63
        PROVE  b - 32 \in high <=> b \in h
    BY <1>3, <2>2
  <2>3. QED
    BY <1>1, <2>1, <2>2
<1>6. ASSUME NEW b \in 0 .. 63
      PROVE  b \in Low(h, 16) <=> b \in h /\ b < 16
  BY LowBits
<1>7. \A b \in 0 .. 63 : b < 16 \/ (16 <= b /\ b < 32) \/ 32 <= b
  OBVIOUS
<1>8. Low(h, 16) \subseteq 0 .. 63 /\ Shl(mid, 16) \subseteq 0 .. 63 /\ Shl(high, 32) \subseteq 0 .. 63
  BY <1>3, LowBits, ShlBits DEF Word
<1>9. QED
  BY <1>1, <1>2, <1>4, <1>5, <1>6, <1>7, <1>8

\* The bits of the TSS descriptor, field by field.
LEMMA TssBits ==
    ASSUME NEW b \in Word
    PROVE  \A c : c \in TssLow(b) <=>
              \/ c \in TSS_LIMIT
              \/ c \in 16 .. 39 /\ c - 16 \in b
              \/ c \in {40, 43, 47}
              \/ c \in 56 .. 63 /\ c - 32 \in b
<1>1. b \subseteq 0 .. 63
  BY DEF Word
<1>2. \A c : c \in Low(TSS_LIMIT, 16) <=> c \in TSS_LIMIT
  BY DEF Low, TSS_LIMIT
<1>3. ASSUME NEW c
      PROVE  c \in Shl(Low(b, 24), 16) <=> c \in 16 .. 39 /\ c - 16 \in b
  <2>1. c \in Shl(Low(b, 24), 16) <=> c \in 16 .. 63 /\ c - 16 \in b /\ c - 16 < 24
    BY LowBits, ShlBits
  <2>2. QED
    BY <2>1
<1>4. \A c : c \in Shl({0, 3}, 40) <=> c \in {40, 43}
  BY DEF Shl, Low
<1>5. Shl(Low(Shr(TSS_LIMIT, 16), 4), 48) = {}
  BY DEF Shl, Shr, Low, TSS_LIMIT
<1>6. ASSUME NEW c
      PROVE  c \in Shl(Low(Shr(b, 24), 8), 56) <=> c \in 56 .. 63 /\ c - 32 \in b
  <2> DEFINE w == Low(Shr(b, 24), 8)
  <2>1. Shr(b, 24) \in Word /\ \A d : d \in Shr(b, 24) <=> d \in 0 .. 39 /\ d + 24 \in b
    BY ShrBits
  <2>2. w \in Word /\ \A d : d \in w <=> d \in 0 .. 39 /\ d + 24 \in b /\ d < 8
    BY <2>1, LowBits
  <2> HIDE DEF w
  <2>3. c \in Shl(w, 56) <=> c \in 56 .. 63 /\ c - 56 \in w
    BY <2>2, ShlBits
  <2>4. ASSUME c \in 56 .. 63
        PROVE  c - 56 \in w <=> c - 32 \in b
    <3>1. c - 56 \in 0 .. 7 /\ (c - 56) + 24 = c - 32
      BY <2>4
    <3>2. QED
      BY <2>2, <3>1
  <2>5. QED
    BY <2>3, <2>4 DEF w
<1>7. QED
  BY <1>2, <1>3, <1>4, <1>5, <1>6 DEF TssLow, PRESENT

\* The base address survives its four pieces.
LEMMA TssKeepsBase ==
    ASSUME NEW b \in Word
    PROVE  SegmentBase(TssLow(b), TssHigh(b)) = b
<1> DEFINE low == TssLow(b)
           high == TssHigh(b)
<1>1. b \subseteq 0 .. 63
  BY DEF Word
<1>2. \A c : c \in low <=>
              \/ c \in TSS_LIMIT
              \/ c \in 16 .. 39 /\ c - 16 \in b
              \/ c \in {40, 43, 47}
              \/ c \in 56 .. 63 /\ c - 32 \in b
  BY TssBits
<1>3. low \in Word
  BY <1>2 DEF TSS_LIMIT, Word
<1> HIDE DEF low
<1>4. ASSUME NEW c \in 0 .. 63
      PROVE  c \in Low(Shr(low, 16), 24) <=> c \in b /\ c < 24
  <2>1. c \in Low(Shr(low, 16), 24) <=> c \in 0 .. 47 /\ c + 16 \in low /\ c < 24
    BY <1>3, LowBits, ShrBits
  <2>2. ASSUME c \in 0 .. 23
        PROVE  c + 16 \in low <=> c \in b
    <3>1. c + 16 \in 16 .. 39 /\ (c + 16) - 16 = c
      BY <2>2
    <3>2. QED
      BY <1>2, <3>1 DEF TSS_LIMIT
  <2>3. QED
    BY <1>1, <2>1, <2>2
<1>5. ASSUME NEW c \in 0 .. 63
      PROVE  c \in Shl(Shr(low, 56), 24) <=> c \in b /\ 24 <= c /\ c < 32
  <2> DEFINE w == Shr(low, 56)
  <2>1. w \in Word /\ \A d : d \in w <=> d \in 0 .. 7 /\ d + 56 \in low
    BY <1>3, ShrBits
  <2> HIDE DEF w
  <2>2. c \in Shl(w, 24) <=> c \in 24 .. 63 /\ c - 24 \in w
    BY <2>1, ShlBits
  <2>3. ASSUME c \in 24 .. 31
        PROVE  c - 24 \in w <=> c \in b
    <3>1. c - 24 \in 0 .. 7 /\ (c - 24) + 56 \in 56 .. 63 /\ ((c - 24) + 56) - 32 = c
      BY <2>3
    <3>2. (c - 24) + 56 \in low <=> c \in b
      BY <1>2, <3>1 DEF TSS_LIMIT
    <3>3. QED
      BY <2>1, <3>1, <3>2
  <2>4. ASSUME c \in 32 .. 63
        PROVE  c - 24 \notin w
    BY <2>1, <2>4
  <2>5. QED
    BY <1>1, <2>2, <2>3, <2>4 DEF w
<1>6. ASSUME NEW c \in 0 .. 63
      PROVE  c \in Shl(Low(high, 32), 32) <=> c \in b /\ 32 <= c
  <2> DEFINE w == Low(high, 32)
  <2>1. high \in Word /\ \A d : d \in high <=> d \in 0 .. 31 /\ d + 32 \in b
    BY ShrBits DEF TssHigh
  <2> HIDE DEF high
  <2>2. w \in Word /\ \A d : d \in w <=> d \in 0 .. 31 /\ d + 32 \in b /\ d < 32
    BY <2>1, LowBits
  <2> HIDE DEF w
  <2>3. c \in Shl(w, 32) <=> c \in 32 .. 63 /\ c - 32 \in w
    BY <2>2, ShlBits
  <2>4. ASSUME c \in 32 .. 63
        PROVE  c - 32 \in w <=> c \in b
    BY <2>2, <2>4
  <2>5. QED
    BY <1>1, <2>3, <2>4 DEF w
<1> HIDE DEF high
<1>7. \A c \in 0 .. 63 : c < 24 \/ (24 <= c /\ c < 32) \/ 32 <= c
  OBVIOUS
<1>8. /\ Low(Shr(low, 16), 24) \subseteq 0 .. 63 /\ Shl(Shr(low, 56), 24) \subseteq 0 .. 63
      /\ Shl(Low(high, 32), 32) \subseteq 0 .. 63
  <2>1. Shr(low, 16) \in Word /\ Shr(low, 56) \in Word /\ high \in Word
    BY <1>3, ShrBits DEF high, TssHigh
  <2>2. Low(Shr(low, 16), 24) \in Word /\ Low(high, 32) \in Word
    BY <2>1, LowBits
  <2>3. QED
    BY <2>1, <2>2, ShlBits DEF Word
<1>9. QED
  BY <1>1, <1>4, <1>5, <1>6, <1>7, <1>8 DEF SegmentBase, low, high

\* ltr finds a TSS it can load.
LEMMA TssIsAvailable ==
    ASSUME NEW b \in Word
    PROVE  IsAvailableTss(TssLow(b)) /\ TssLow(b) \in SUBSET (0 .. 63)
<1> DEFINE low == TssLow(b)
<1>1. \A c : c \in low <=>
              \/ c \in TSS_LIMIT
              \/ c \in 16 .. 39 /\ c - 16 \in b
              \/ c \in {40, 43, 47}
              \/ c \in 56 .. 63 /\ c - 32 \in b
  BY TssBits
<1> HIDE DEF low
<1>2. low \subseteq 0 .. 63
  BY <1>1 DEF TSS_LIMIT
<1>3. 47 \in low /\ 44 \notin low
  BY <1>1 DEF TSS_LIMIT
<1>4. TSS_LIMIT \subseteq Low(low, 16)
  BY <1>1 DEF TSS_LIMIT, Low
<1>5. ASSUME NEW c
      PROVE  c \in Low(Shr(low, 40), 4) <=> c \in {0, 3}
  <2>1. c \in Low(Shr(low, 40), 4) <=> c \in 0 .. 3 /\ c + 40 \in low
    BY <1>2 DEF Low, Shr
  <2>2. ASSUME c \in 0 .. 3
        PROVE  c + 40 \in low <=> c \in {0, 3}
    BY <1>1, <2>2 DEF TSS_LIMIT
  <2>3. QED
    BY <2>1, <2>2
<1>6. QED
  BY <1>2, <1>3, <1>4, <1>5 DEF IsAvailableTss, low

-----------------------------------------------------------------------------
(* How far start-up is *)

LEMMA OrderFacts ==
    /\ Len(Order) = 9 /\ Len(PicWrites) = 10 /\ Len(PitBytes) = 3
    /\ Order[1] = "gdt" /\ Order[2] = "idt" /\ Order[3] = "pic" /\ Order[4] = "pit" /\ Order[5] = "ps2"
    /\ Order[6] = "selftest" /\ Order[7] = "screen" /\ Order[8] = "memory" /\ Order[9] = "enable"
    /\ Last[1] = 6 /\ Last[2] = 2 /\ Last[3] = 10 /\ Last[4] = 3 /\ Last[5] = 1
    /\ Last[6] = 1 /\ Last[7] = 1 /\ Last[8] = 1 /\ Last[9] = 1
BY DEF Order, PicWrites, PitBytes, Last

\* A step of call p.
Moves(p) == phase = p /\ step \in 1 .. Last[p] /\ Advance(Last[p])

LEMMA RunningAt ==
    ASSUME ControlOK
    PROVE  /\ Running("gdt") => phase = 1
           /\ Running("idt") => phase = 2
           /\ Running("pic") => phase = 3
           /\ Running("pit") => phase = 4
           /\ Running("ps2") => phase = 5
           /\ Running("selftest") => phase = 6
           /\ Running("screen") => phase = 7
           /\ Running("memory") => phase = 8
           /\ Running("enable") => phase = 9
<1>1. phase \in {1, 2, 3, 4, 5, 6, 7, 8, 9, 10}
  BY DEF ControlOK
<1>2. QED
  BY <1>1, OrderFacts DEF Running

LEMMA MovesControl ==
    ASSUME ControlOK, NEW p \in 1 .. 9, Moves(p)
    PROVE  /\ ControlOK'
           /\ \A q \in 1 .. 9 : \A k \in 1 .. 10 :
                 k <= Last[q] => (Past(q, k)' <=> (Past(q, k) \/ (q = p /\ k = step)))
<1>1. p \in {1, 2, 3, 4, 5, 6, 7, 8, 9} /\ phase = p /\ step \in Nat /\ step >= 1 /\ step <= Last[p]
  BY OrderFacts DEF Moves
<1>2. \A q \in 1 .. 9 : Last[q] \in 1 .. 10
  <2>1. \A q \in 1 .. 9 : q \in {1, 2, 3, 4, 5, 6, 7, 8, 9}
    OBVIOUS
  <2>2. QED
    BY <2>1, OrderFacts
<1>3. CASE step = Last[p]
  <2>1. phase' = p + 1 /\ step' = 0
    BY <1>1, <1>3 DEF Moves, Advance
  <2>2. ControlOK'
    BY <1>1, <1>2, <2>1 DEF ControlOK
  <2>3. ASSUME NEW q \in 1 .. 9, NEW k \in 1 .. 10, k <= Last[q]
        PROVE  Past(q, k)' <=> (Past(q, k) \/ (q = p /\ k = step))
    <3>1. Past(q, k)' <=> (p + 1 > q \/ (p + 1 = q /\ 0 > k))
      BY <2>1 DEF Past
    <3>2. Past(q, k) <=> (p > q \/ (p = q /\ step > k))
      BY <1>1 DEF Past
    <3>3. QED
      BY <1>1, <1>2, <1>3, <2>3, <3>1, <3>2
  <2>4. QED
    BY <2>2, <2>3
<1>4. CASE step # Last[p]
  <2>1. phase' = p /\ step' = step + 1 /\ step < Last[p]
    BY <1>1, <1>2, <1>4 DEF Moves, Advance
  <2>2. ControlOK'
    BY <1>1, <1>2, <2>1 DEF ControlOK
  <2>3. ASSUME NEW q \in 1 .. 9, NEW k \in 1 .. 10, k <= Last[q]
        PROVE  Past(q, k)' <=> (Past(q, k) \/ (q = p /\ k = step))
    <3>1. Past(q, k)' <=> (p > q \/ (p = q /\ step + 1 > k))
      BY <2>1 DEF Past
    <3>2. Past(q, k) <=> (p > q \/ (p = q /\ step > k))
      BY <1>1 DEF Past
    <3>3. QED
      BY <1>1, <3>1, <3>2
  <2>4. QED
    BY <2>2, <2>3
<1>5. QED
  BY <1>3, <1>4

\* Control stays, or a call is announced: no step of one comes to lie behind.
Announced == phase' = phase /\ phase <= 9 /\ step = 0 /\ step' = 1

LEMMA StillControl ==
    ASSUME ControlOK, UNCHANGED control \/ Announced
    PROVE  ControlOK' /\ \A q \in 1 .. 9 : \A k \in 1 .. 10 : Past(q, k)' <=> Past(q, k)
<1>1. CASE UNCHANGED control
  BY <1>1 DEF control, ControlOK, Past
<1>2. CASE Announced
  <2>1. phase \in {1, 2, 3, 4, 5, 6, 7, 8, 9}
    BY <1>2 DEF ControlOK, Announced
  <2>2. ControlOK'
    BY <1>2, <2>1, OrderFacts DEF ControlOK, Announced
  <2>3. QED
    BY <1>2, <2>1, <2>2 DEF Announced, Past
<1>3. QED
  BY <1>1, <1>2

\* The steps, by what they do to control, tables and devices.
LEMMA StepKinds ==
    ASSUME ControlOK, StartupNext \/ UNCHANGED all
    PROVE  \/ GdtInit /\ Moves(1) /\ UNCHANGED <<pic, pit>>
           \/ IdtInit /\ Moves(2) /\ UNCHANGED <<pic, pit>>
           \/ PicInit /\ Moves(3) /\ UNCHANGED <<tables, pit>>
           \/ PitInit /\ Moves(4) /\ UNCHANGED <<tables, pic>>
           \/ (\E p \in 5 .. 9 : Moves(p)) /\ UNCHANGED <<tables, pic, pit>>
           \/ (UNCHANGED control \/ Announced) /\ UNCHANGED <<tables, pit>>
<1>1. step \in Nat /\ (phase # 10 => step <= Last[phase])
  BY DEF ControlOK
<1>2. CASE Announce
  <2>1. phase' = phase /\ phase <= 9 /\ step = 0 /\ step' = 1
    BY <1>2, OrderFacts DEF Announce
  <2>2. UNCHANGED <<tables, pit>>
    BY <1>2 DEF Announce
  <2>3. QED
    BY <2>1, <2>2 DEF Announced
<1>3. CASE GdtInit
  BY <1>1, <1>3, RunningAt, OrderFacts DEF GdtInit, Moves
<1>4. CASE IdtInit
  BY <1>1, <1>4, RunningAt, OrderFacts DEF IdtInit, Moves
<1>5. CASE PicInit
  BY <1>1, <1>5, RunningAt, OrderFacts DEF PicInit, Moves
<1>6. CASE PitInit
  BY <1>1, <1>6, RunningAt, OrderFacts DEF PitInit, Moves
<1>7. CASE Ps2Init
  <2>1. phase = 5 /\ step = 1 /\ Last[5] = 1 /\ UNCHANGED <<tables, pic, pit>>
    BY <1>1, <1>7, RunningAt, OrderFacts DEF Ps2Init
  <2>2. CASE pc' \in {"done", "timeout"}
    <3>1. Moves(5)
      BY <1>7, <2>1, <2>2 DEF Ps2Init, Moves
    <3>2. QED
      BY <2>1, <3>1
  <2>3. CASE pc' \notin {"done", "timeout"}
    BY <1>7, <2>1, <2>3 DEF Ps2Init
  <2>4. QED
    BY <2>2, <2>3
<1>8. CASE Selftest
  <2>1. Moves(6) /\ UNCHANGED <<tables, pic, pit>>
    BY <1>1, <1>8, RunningAt, OrderFacts DEF Selftest, Moves
  <2>2. QED
    BY <2>1
<1>9. CASE Screen
  <2>1. Moves(7) /\ UNCHANGED <<tables, pic, pit>>
    BY <1>1, <1>9, RunningAt, OrderFacts DEF Screen, Moves
  <2>2. QED
    BY <2>1
<1>10. CASE MemoryUp
  <2>1. Moves(8) /\ UNCHANGED <<tables, pic, pit>>
    BY <1>1, <1>10, RunningAt, OrderFacts DEF MemoryUp, Moves
  <2>2. QED
    BY <2>1
<1>11. CASE EnableInterrupts
  <2>1. Moves(9) /\ UNCHANGED <<tables, pic, pit>>
    BY <1>1, <1>11, RunningAt, OrderFacts DEF EnableInterrupts, Moves
  <2>2. QED
    BY <2>1
<1>12. CASE MemoryFails
  BY <1>12 DEF MemoryFails, setup
<1>13. CASE Exceptions
  <2>1. UNCHANGED <<vars, setup>> /\ (Enter \/ Pile \/ breakpoint_handler \/ report_fault)
    BY <1>13 DEF Exceptions, Deliver
  <2>2. UNCHANGED tables
    BY <2>1 DEF Enter, Pile, breakpoint_handler, report_fault
  <2>3. QED
    BY <2>1, <2>2 DEF setup
<1>14. CASE IrqHandler
  BY <1>14 DEF IrqHandler
<1>15. CASE Interrupt(0) \/ Interrupt(1) \/ Spurious
  BY <1>15 DEF Interrupt, Spurious, Served
<1>16. CASE Raise
  BY <1>16 DEF Raise, setup
<1>17. CASE TimerEdge
  BY <1>17 DEF TimerEdge
<1>18. CASE Devices
  BY <1>18 DEF Devices, setup
<1>19. CASE UNCHANGED all
  BY <1>19 DEF all, setup
<1>20. QED
  BY <1>2, <1>3, <1>4, <1>5, <1>6, <1>7, <1>8, <1>9, <1>10, <1>11, <1>12, <1>13, <1>14, <1>15,
     <1>16, <1>17, <1>18, <1>19 DEF StartupNext, Main, Stopped

-----------------------------------------------------------------------------
(* The tables *)

LEMMA TablesStay ==
    ASSUME TablesOK, UNCHANGED tables,
           \A k \in 1 .. 6 : Past(1, k)' <=> Past(1, k), \A k \in 1 .. 2 : Past(2, k)' <=> Past(2, k)
    PROVE  TablesOK'
<1>1. /\ (Past(1, 1)' <=> Past(1, 1)) /\ (Past(1, 2)' <=> Past(1, 2)) /\ (Past(1, 3)' <=> Past(1, 3))
      /\ (Past(1, 4)' <=> Past(1, 4)) /\ (Past(1, 5)' <=> Past(1, 5)) /\ (Past(1, 6)' <=> Past(1, 6))
      /\ (Past(2, 1)' <=> Past(2, 1)) /\ (Past(2, 2)' <=> Past(2, 2))
  OBVIOUS
<1>2. /\ gdt' = gdt /\ ist' = ist /\ idt' = idt /\ gdtr' = gdtr /\ idtr' = idtr
      /\ cs' = cs /\ ss' = ss /\ tr' = tr
  BY DEF tables
<1>3. idt' = [v \in Vectors |-> IF Past(2, 1)' THEN Entry(v) ELSE Missing]
  BY <1>1, <1>2 DEF TablesOK
<1>4. QED
  BY <1>1, <1>2, <1>3 DEF TablesOK

\* The table that gdt::init fills in.
LEMMA GdtFilled ==
    /\ Gdt(TssAddress) \in [0 .. 4 -> SUBSET (0 .. 63)]
    /\ Gdt(TssAddress)[1] = CodeSegment /\ Gdt(TssAddress)[2] = DataSegment
    /\ Gdt(TssAddress)[3] = TssLow(TssAddress) /\ Gdt(TssAddress)[4] = TssHigh(TssAddress)
    /\ IsCode(CodeSegment) /\ IsStack(DataSegment)
<1> DEFINE T == Gdt(TssAddress)
<1>1. TssAddress \in Word
  BY TrapsAssumption
<1>2. TssLow(TssAddress) \in SUBSET (0 .. 63) /\ TssHigh(TssAddress) \in SUBSET (0 .. 63)
  BY <1>1, TssIsAvailable, ShrBits DEF TssHigh, Word
<1>3. CodeSegment \in SUBSET (0 .. 63) /\ DataSegment \in SUBSET (0 .. 63)
  BY DEF CodeSegment, DataSegment, DESCRIPTOR_TYPE, PRESENT, EXECUTABLE, LONG_MODE, WRITABLE
<1>4. /\ DOMAIN T = 0 .. 4 /\ T[0] = {} /\ T[1] = CodeSegment /\ T[2] = DataSegment
      /\ T[3] = TssLow(TssAddress) /\ T[4] = TssHigh(TssAddress)
      /\ T = [i \in 0 .. 4 |-> T[i]]
  BY DEF Gdt, GDT_ENTRIES
<1> HIDE DEF T
<1>5. T \in [0 .. 4 -> SUBSET (0 .. 63)]
  <2>1. ASSUME NEW i \in 0 .. 4 PROVE T[i] \in SUBSET (0 .. 63)
    <3>1. i \in {0, 1, 2, 3, 4}
      OBVIOUS
    <3>2. QED
      BY <1>2, <1>3, <1>4, <3>1
  <2>2. QED
    BY <1>4, <2>1
<1>6. IsCode(CodeSegment) /\ IsStack(DataSegment)
  BY DEF IsCode, IsStack, CodeSegment, DataSegment, DESCRIPTOR_TYPE, PRESENT, EXECUTABLE, LONG_MODE,
     WRITABLE
<1>7. QED
  BY <1>4, <1>5, <1>6 DEF T

\* The selectors that gdt::init loads, once lgdt has: their descriptors.
LEMMA Selectors ==
    ASSUME TablesOK, Past(1, 3), Past(1, 2)
    PROVE  /\ Descriptor(KERNEL_CODE_SELECTOR) = CodeSegment
           /\ Descriptor(KERNEL_DATA_SELECTOR) = DataSegment
           /\ Descriptor(TSS_SELECTOR) = gdt[3]
           /\ IsCode(CodeSegment) /\ IsStack(DataSegment)
<1>1. gdtr = "kernel" /\ gdt[1] = CodeSegment /\ gdt[2] = DataSegment
  BY DEF TablesOK
<1>2. /\ KERNEL_CODE_SELECTOR = 8 /\ KERNEL_DATA_SELECTOR = 16 /\ TSS_SELECTOR = 24 /\ GdtLimit = 39
  BY DEF KERNEL_CODE_SELECTOR, KERNEL_DATA_SELECTOR, TSS_SELECTOR, GdtLimit, GDT_ENTRIES
<1>3. 8 \div 8 = 1 /\ 16 \div 8 = 2 /\ 24 \div 8 = 3
  OBVIOUS
<1>4. QED
  BY <1>1, <1>2, <1>3, GdtFilled DEF Descriptor

LEMMA Owners ==
    /\ Own(DE) = {"divide_error"} /\ Own(BP) = {"breakpoint"} /\ Own(UD) = {"invalid_opcode"}
    /\ Own(DF) = {"double_fault"} /\ Own(GP) = {"general_protection"} /\ Own(PF) = {"page_fault"}
    /\ Own(TIMER_VECTOR) = {"timer"} /\ Own(KEYBOARD_VECTOR) = {"keyboard"}
    /\ \A v \in Vectors : v \notin {DE, BP, UD, DF, GP, PF, TIMER_VECTOR, KEYBOARD_VECTOR} => Own(v) = {}
<1>1. /\ DOMAIN Installed = {"divide_error", "breakpoint", "invalid_opcode", "double_fault",
                             "general_protection", "page_fault", "timer", "keyboard"}
      /\ Installed["divide_error"] = 0 /\ Installed["breakpoint"] = 3
      /\ Installed["invalid_opcode"] = 6 /\ Installed["double_fault"] = 8
      /\ Installed["general_protection"] = 13 /\ Installed["page_fault"] = 14
      /\ Installed["timer"] = 32 /\ Installed["keyboard"] = 33
  BY DEF Installed, DE, BP, UD, DF, GP, PF, TIMER_VECTOR, KEYBOARD_VECTOR, PIC1_OFFSET
<1>2. /\ DE = 0 /\ BP = 3 /\ UD = 6 /\ DF = 8 /\ GP = 13 /\ PF = 14 /\ TIMER_VECTOR = 32 /\ KEYBOARD_VECTOR = 33
  BY DEF DE, BP, UD, DF, GP, PF, TIMER_VECTOR, KEYBOARD_VECTOR, PIC1_OFFSET
<1>3. /\ Own(0) = {"divide_error"} /\ Own(3) = {"breakpoint"} /\ Own(6) = {"invalid_opcode"}
      /\ Own(8) = {"double_fault"} /\ Own(13) = {"general_protection"} /\ Own(14) = {"page_fault"}
      /\ Own(32) = {"timer"} /\ Own(33) = {"keyboard"}
  BY <1>1 DEF Own
<1>4. \A v : v \notin {0, 3, 6, 8, 13, 14, 32, 33} => Own(v) = {}
  BY <1>1 DEF Own
<1>5. QED
  BY <1>2, <1>3, <1>4

LEMMA OwnerOf ==
    /\ Owner(DE) = "divide_error" /\ Owner(BP) = "breakpoint" /\ Owner(UD) = "invalid_opcode"
    /\ Owner(DF) = "double_fault" /\ Owner(GP) = "general_protection" /\ Owner(PF) = "page_fault"
    /\ Owner(TIMER_VECTOR) = "timer" /\ Owner(KEYBOARD_VECTOR) = "keyboard"
    /\ \A v \in Vectors : v \notin {DE, BP, UD, DF, GP, PF, TIMER_VECTOR, KEYBOARD_VECTOR} =>
          Owner(v) = "unhandled_irq"
    /\ \A v \in Vectors : Owner(v) \in Handlers /\ (Owner(v) = "double_fault" <=> v = DF)
    /\ \A v \in Vectors : v \in Gated <=> Own(v) # {} \/ v \in CatchAll
<1>1. \A x : (CHOOSE h \in {x} : TRUE) = x
  OBVIOUS
<1>2. /\ Owner(DE) = "divide_error" /\ Owner(BP) = "breakpoint" /\ Owner(UD) = "invalid_opcode"
      /\ Owner(DF) = "double_fault" /\ Owner(GP) = "general_protection" /\ Owner(PF) = "page_fault"
      /\ Owner(TIMER_VECTOR) = "timer" /\ Owner(KEYBOARD_VECTOR) = "keyboard"
  BY <1>1, Owners DEF Owner
<1>3. \A v \in Vectors : v \notin {DE, BP, UD, DF, GP, PF, TIMER_VECTOR, KEYBOARD_VECTOR} =>
          Owner(v) = "unhandled_irq"
  BY Owners DEF Owner
<1>4. ASSUME NEW v \in Vectors
      PROVE  Owner(v) \in Handlers /\ (Owner(v) = "double_fault" <=> v = DF)
  <2>1. CASE v \in {DE, BP, UD, DF, GP, PF, TIMER_VECTOR, KEYBOARD_VECTOR}
    BY <1>2, <2>1 DEF Handlers, DE, BP, UD, DF, GP, PF, TIMER_VECTOR, KEYBOARD_VECTOR, PIC1_OFFSET
  <2>2. CASE v \notin {DE, BP, UD, DF, GP, PF, TIMER_VECTOR, KEYBOARD_VECTOR}
    BY <1>3, <2>2 DEF Handlers
  <2>3. QED
    BY <2>1, <2>2
<1>5. ASSUME NEW v \in Vectors
      PROVE  v \in Gated <=> Own(v) # {} \/ v \in CatchAll
  <2>1. TIMER_VECTOR \in CatchAll /\ KEYBOARD_VECTOR \in CatchAll
    BY DEF TIMER_VECTOR, KEYBOARD_VECTOR, CatchAll, PIC1_OFFSET, PIC2_OFFSET
  <2>2. Own(v) # {} <=> v \in {DE, BP, UD, DF, GP, PF, TIMER_VECTOR, KEYBOARD_VECTOR}
    BY Owners
  <2>3. QED
    BY <2>1, <2>2 DEF Gated
<1>6. QED
  BY <1>2, <1>3, <1>4, <1>5

\* idt::init: the entries it sets, over entries that were missing.
LEMMA IdtFilled ==
    ASSUME idt = [v \in Vectors |-> Missing], FillIdt
    PROVE  idt' = [v \in Vectors |-> Entry(v)]
<1> DEFINE f(v) ==
            LET own == {h \in DOMAIN Installed : Installed[h] = v}
            IN  CASE own # {}      -> LET h == CHOOSE x \in own : TRUE
                                      IN  set(HandlerAddress[h], StackIndex(h))
                  [] own = {} /\ v \in CatchAll -> set(HandlerAddress["unhandled_irq"], {})
                  [] OTHER         -> idt[v]
<1>1. idt' = [v \in Vectors |-> f(v)]
  BY DEF FillIdt
<1>2. ASSUME NEW v \in Vectors
      PROVE  f(v) = Entry(v)
  <2>1. CASE Own(v) # {}
    <3>1. f(v) = set(HandlerAddress[CHOOSE x \in Own(v) : TRUE], StackIndex(CHOOSE x \in Own(v) : TRUE))
      BY <2>1 DEF Own
    <3>2. QED
      BY <2>1, <3>1, OwnerOf DEF Entry, Owner
  <2>2. CASE Own(v) = {} /\ v \in CatchAll
    <3>1. f(v) = set(HandlerAddress["unhandled_irq"], {})
      BY <2>2 DEF Own
    <3>2. Owner(v) = "unhandled_irq" /\ StackIndex("unhandled_irq") = {} /\ v \in Gated
      BY <2>2, OwnerOf DEF Owner, StackIndex
    <3>3. QED
      BY <3>1, <3>2 DEF Entry
  <2>3. CASE Own(v) = {} /\ v \notin CatchAll
    <3>1. f(v) = idt[v]
      BY <2>3 DEF Own
    <3>2. v \notin Gated
      BY <2>3, OwnerOf
    <3>3. QED
      BY <3>1, <3>2 DEF Entry
  <2>4. QED
    BY <2>1, <2>2, <2>3
<1> HIDE DEF f
<1>3. QED
  BY <1>1, <1>2

\* gdt::init: each step leaves what TablesOK says, and none faults.
LEMMA GdtInitKeepsTables ==
    ASSUME ControlOK, TablesOK, GdtInit, Moves(1)
    PROVE  TablesOK' /\ trap' = trap
<1>1. phase = 1 /\ step \in {1, 2, 3, 4, 5, 6}
  BY OrderFacts DEF Moves
<1>2. /\ \A k \in 1 .. 6 : Past(1, k)' <=> (Past(1, k) \/ k = step)
      /\ \A k \in 1 .. 2 : Past(2, k)' <=> Past(2, k)
  BY MovesControl, OrderFacts
<1>3. /\ \A k \in 1 .. 6 : Past(1, k) <=> step > k
      /\ ~Past(2, 1) /\ ~Past(2, 2)
  BY <1>1 DEF Past
<1>4. \A k \in 1 .. 6 : Past(1, k)' <=> step >= k
  BY <1>1, <1>2, <1>3
<1>5. ~Past(2, 1)' /\ ~Past(2, 2)'
  BY <1>2, <1>3
<1>6. /\ gdt \in [0 .. 4 -> SUBSET (0 .. 63)] /\ DOMAIN ist = 0 .. 6
      /\ gdtr = (IF step > 3 THEN "kernel" ELSE "firmware") /\ idtr = "firmware"
      /\ step > 1 => ist[0] = "fault"
      /\ step > 2 => gdt = Gdt(TssAddress)
      /\ step > 4 => cs = KERNEL_CODE_SELECTOR
      /\ step > 5 => ss = KERNEL_DATA_SELECTOR
      /\ idt = [v \in Vectors |-> Missing]
  BY <1>1, <1>3 DEF TablesOK
<1>7. SUFFICES /\ gdt' \in [0 .. 4 -> SUBSET (0 .. 63)] /\ DOMAIN ist' = 0 .. 6
               /\ gdtr' = (IF step >= 3 THEN "kernel" ELSE "firmware") /\ idtr' = "firmware"
               /\ ist'[0] = "fault"
               /\ step \in 2 .. 5 => gdt' = Gdt(TssAddress)
               /\ step >= 2 => gdt'[1] = CodeSegment /\ gdt'[2] = DataSegment
               /\ step >= 4 => cs' = KERNEL_CODE_SELECTOR
               /\ step >= 5 => ss' = KERNEL_DATA_SELECTOR
               /\ step >= 6 => tr' = TssAddress
               /\ idt' = [v \in Vectors |-> Missing] /\ trap' = trap
  <2>1. /\ (Past(1, 1)' <=> step >= 1) /\ (Past(1, 2)' <=> step >= 2) /\ (Past(1, 3)' <=> step >= 3)
        /\ (Past(1, 4)' <=> step >= 4) /\ (Past(1, 5)' <=> step >= 5) /\ (Past(1, 6)' <=> step >= 6)
    BY <1>4
  <2>2. Past(1, 2)' /\ ~Past(1, 6)' => step \in 2 .. 5
    BY <1>1, <2>1
  <2>3. QED
    BY <1>5, <1>7, <2>1, <2>2 DEF TablesOK
<1>8. step > 3 => /\ Descriptor(KERNEL_CODE_SELECTOR) = CodeSegment
                  /\ Descriptor(KERNEL_DATA_SELECTOR) = DataSegment
                  /\ Descriptor(TSS_SELECTOR) = gdt[3]
                  /\ IsCode(CodeSegment) /\ IsStack(DataSegment)
  BY <1>1, <1>3, Selectors
<1>9. CASE step = 1
  BY <1>6, <1>9 DEF GdtInit, FillTss, DOUBLE_FAULT_IST_INDEX
<1>10. CASE step = 2
  BY <1>6, <1>10, GdtFilled DEF GdtInit, FillGdt
<1>11. CASE step = 3
  BY <1>6, <1>11, GdtFilled DEF GdtInit, lgdt
<1>12. CASE step = 4
  BY <1>6, <1>8, <1>12, GdtFilled DEF GdtInit, retfq, Protect
<1>13. CASE step = 5
  BY <1>6, <1>8, <1>13, GdtFilled DEF GdtInit, MovSs, Protect
<1>14. CASE step = 6
  <2>1. ltr
    BY <1>14 DEF GdtInit
  <2>2. TSS_SELECTOR \div 8 = 3 /\ gdt = Gdt(TssAddress) /\ TssAddress \in Word
    BY <1>6, <1>14, TrapsAssumption DEF TSS_SELECTOR
  <2>3. trap' = trap
    <3>1. Descriptor(TSS_SELECTOR) = TssLow(TssAddress)
      BY <1>8, <1>14, <2>2, GdtFilled
    <3>2. IsAvailableTss(Descriptor(TSS_SELECTOR))
      BY <2>2, <3>1, TssIsAvailable
    <3>3. QED
      BY <2>1, <3>2 DEF ltr, Protect
  <2>4. tr' = TssAddress
    <3>1. tr' = SegmentBase(gdt[3], gdt[3 + 1])
      BY <2>1, <2>2 DEF ltr
    <3>2. gdt[3] = TssLow(TssAddress) /\ gdt[3 + 1] = TssHigh(TssAddress)
      BY <2>2, GdtFilled
    <3>3. QED
      BY <2>2, <3>1, <3>2, TssKeepsBase
  <2>5. gdt' = [gdt EXCEPT ![3] = Busy(gdt[3])] /\ Busy(gdt[3]) \in SUBSET (0 .. 63)
    <3>1. gdt' = [gdt EXCEPT ![3] = Busy(gdt[3])]
      BY <2>1, <2>2 DEF ltr
    <3>2. gdt[3] \in SUBSET (0 .. 63)
      BY <1>6
    <3>3. QED
      BY <3>1, <3>2 DEF Busy
  <2>6. gdt' \in [0 .. 4 -> SUBSET (0 .. 63)] /\ gdt'[1] = gdt[1] /\ gdt'[2] = gdt[2]
    BY <1>6, <2>5
  <2>7. UNCHANGED <<ist, idt, gdtr, idtr, cs, ss>>
    BY <2>1 DEF ltr
  <2>8. QED
    BY <1>6, <1>14, <2>2, <2>3, <2>4, <2>6, <2>7, GdtFilled
<1>15. QED
  BY <1>1, <1>9, <1>10, <1>11, <1>12, <1>13, <1>14

LEMMA IdtInitKeepsTables ==
    ASSUME ControlOK, TablesOK, IdtInit, Moves(2)
    PROVE  TablesOK' /\ trap' = trap
<1>1. phase = 2 /\ step \in {1, 2}
  BY OrderFacts DEF Moves
<1>2. /\ \A k \in 1 .. 6 : Past(1, k)' <=> Past(1, k)
      /\ \A k \in 1 .. 2 : Past(2, k)' <=> (Past(2, k) \/ k = step)
  BY MovesControl, OrderFacts
<1>3. /\ (Past(1, 1)' <=> Past(1, 1)) /\ (Past(1, 2)' <=> Past(1, 2)) /\ (Past(1, 3)' <=> Past(1, 3))
      /\ (Past(1, 4)' <=> Past(1, 4)) /\ (Past(1, 5)' <=> Past(1, 5)) /\ (Past(1, 6)' <=> Past(1, 6))
  BY <1>2
<1>4. Past(2, 1)' /\ (Past(2, 1) <=> step = 2) /\ (Past(2, 2)' <=> step = 2) /\ ~Past(2, 2)
  BY <1>1, <1>2 DEF Past
<1>5. trap' = trap /\ UNCHANGED <<gdt, ist, gdtr, cs, ss, tr>>
  BY DEF IdtInit, FillIdt, lidt
<1>6. idt' = [v \in Vectors |-> Entry(v)]
  <2>1. CASE step = 1
    <3>1. idt = [v \in Vectors |-> Missing] /\ FillIdt
      BY <1>4, <2>1 DEF TablesOK, IdtInit
    <3>2. QED
      BY <3>1, IdtFilled
  <2>2. CASE step = 2
    <3>1. idt = [v \in Vectors |-> Entry(v)] /\ lidt
      BY <1>4, <2>2 DEF TablesOK, IdtInit
    <3>2. QED
      BY <3>1 DEF lidt
  <2>3. QED
    BY <1>1, <2>1, <2>2
<1>7. idtr' = IF step = 2 THEN "kernel" ELSE "firmware"
  BY <1>1, <1>4 DEF TablesOK, IdtInit, FillIdt, lidt
<1>8. QED
  BY <1>3, <1>4, <1>5, <1>6, <1>7 DEF TablesOK

LEMMA NextKeepsTables ==
    ASSUME ControlOK, TablesOK, StartupNext \/ UNCHANGED all
    PROVE  ControlOK' /\ TablesOK'
<1>1. CASE GdtInit /\ Moves(1)
  BY <1>1, GdtInitKeepsTables, MovesControl
<1>2. CASE IdtInit /\ Moves(2)
  BY <1>2, IdtInitKeepsTables, MovesControl
<1>3. ASSUME NEW p \in 3 .. 9, Moves(p), UNCHANGED tables
      PROVE  ControlOK' /\ TablesOK'
  <2>1. /\ ControlOK' /\ \A k \in 1 .. 6 : Past(1, k)' <=> Past(1, k)
        /\ \A k \in 1 .. 2 : Past(2, k)' <=> Past(2, k)
    BY <1>3, MovesControl, OrderFacts
  <2>2. QED
    BY <1>3, <2>1, TablesStay
<1>4. CASE (UNCHANGED control \/ Announced) /\ UNCHANGED tables
  <2>1. /\ ControlOK' /\ \A k \in 1 .. 6 : Past(1, k)' <=> Past(1, k)
        /\ \A k \in 1 .. 2 : Past(2, k)' <=> Past(2, k)
    BY <1>4, StillControl
  <2>2. QED
    BY <1>4, <2>1, TablesStay
<1>5. CASE PicInit /\ Moves(3) /\ UNCHANGED <<tables, pit>>
  BY <1>3, <1>5
<1>6. CASE PitInit /\ Moves(4) /\ UNCHANGED <<tables, pic>>
  BY <1>3, <1>6
<1>7. CASE (\E p \in 5 .. 9 : Moves(p)) /\ UNCHANGED <<tables, pic, pit>>
  BY <1>3, <1>7
<1>8. QED
  BY <1>1, <1>2, <1>4, <1>5, <1>6, <1>7, StepKinds

-----------------------------------------------------------------------------
(* The 8259s *)

LEMMA BitsOf ==
    /\ \A byte : Bits(byte) \in SUBSET (0 .. 7)
    /\ 4 \in Bits(17) /\ Bits(252) = 2 .. 7 /\ Bits(255) = 0 .. 7
<1>1. 2^0 = 1 /\ 2^1 = 2 /\ 2^2 = 4 /\ 2^3 = 8 /\ 2^4 = 16 /\ 2^5 = 32 /\ 2^6 = 64 /\ 2^7 = 128
  OBVIOUS
<1>2. \A i \in 0 .. 7 : i \in {0, 1, 2, 3, 4, 5, 6, 7}
  OBVIOUS
<1>3. 4 \in Bits(17)
  BY <1>1 DEF Bits
<1>4. /\ (252 \div 1) % 2 = 0 /\ (252 \div 2) % 2 = 0 /\ (252 \div 4) % 2 = 1 /\ (252 \div 8) % 2 = 1
      /\ (252 \div 16) % 2 = 1 /\ (252 \div 32) % 2 = 1 /\ (252 \div 64) % 2 = 1 /\ (252 \div 128) % 2 = 1
  OBVIOUS
<1>5. /\ (255 \div 1) % 2 = 1 /\ (255 \div 2) % 2 = 1 /\ (255 \div 4) % 2 = 1 /\ (255 \div 8) % 2 = 1
      /\ (255 \div 16) % 2 = 1 /\ (255 \div 32) % 2 = 1 /\ (255 \div 64) % 2 = 1 /\ (255 \div 128) % 2 = 1
  OBVIOUS
<1>6. ASSUME NEW byte
      PROVE  Bits(byte) \in SUBSET (0 .. 7) /\ \A i \in 0 .. 7 : i \in Bits(byte) <=> (byte \div 2^i) % 2 = 1
  BY DEF Bits
<1>7. \A i \in 0 .. 7 : i \in Bits(252) <=> i \in 2 .. 7
  <2>1. /\ 0 \notin Bits(252) /\ 1 \notin Bits(252) /\ 2 \in Bits(252) /\ 3 \in Bits(252)
        /\ 4 \in Bits(252) /\ 5 \in Bits(252) /\ 6 \in Bits(252) /\ 7 \in Bits(252)
    BY <1>1, <1>4, <1>6
  <2>2. QED
    BY <1>2, <2>1
<1>8. \A i \in 0 .. 7 : i \in Bits(255)
  <2>1. /\ 0 \in Bits(255) /\ 1 \in Bits(255) /\ 2 \in Bits(255) /\ 3 \in Bits(255)
        /\ 4 \in Bits(255) /\ 5 \in Bits(255) /\ 6 \in Bits(255) /\ 7 \in Bits(255)
    BY <1>1, <1>5, <1>6
  <2>2. QED
    BY <1>2, <2>1
<1>9. Bits(252) = 2 .. 7
  <2>1. \A i \in 2 .. 7 : i \in 0 .. 7
    OBVIOUS
  <2>2. QED
    BY <1>6, <1>7, <2>1
<1>10. QED
  BY <1>3, <1>6, <1>8, <1>9

LEMMA PicStays ==
    ASSUME PicOK, pic' \in [{"master", "slave"} -> Chip],
           \A c \in {"master", "slave"} : /\ pic'[c].base = pic[c].base /\ pic'[c].mask = pic[c].mask
                                          /\ pic'[c].icw = pic[c].icw,
           \A k \in 1 .. 10 : Past(3, k)' <=> Past(3, k)
    PROVE  PicOK'
<1>1. /\ (Past(3, 1)' <=> Past(3, 1)) /\ (Past(3, 2)' <=> Past(3, 2)) /\ (Past(3, 3)' <=> Past(3, 3))
      /\ (Past(3, 4)' <=> Past(3, 4)) /\ (Past(3, 5)' <=> Past(3, 5)) /\ (Past(3, 6)' <=> Past(3, 6))
      /\ (Past(3, 7)' <=> Past(3, 7)) /\ (Past(3, 8)' <=> Past(3, 8)) /\ (Past(3, 9)' <=> Past(3, 9))
      /\ (Past(3, 10)' <=> Past(3, 10))
  OBVIOUS
<1>2. QED
  BY <1>1 DEF PicOK

\* A chip takes a byte: the four initialisation words in turn, then masks.
LEMMA ChipSteps ==
    ASSUME NEW c \in Chip
    PROVE  /\ Command(c, 17) \in Chip /\ Command(c, 17).icw = 2
           /\ \A byte \in {32, 40} : c.icw = 2 =>
                 Data(c, byte) \in Chip /\ Data(c, byte).icw = 3 /\ Data(c, byte).base = byte
           /\ \A byte : c.icw = 3 =>
                 Data(c, byte) \in Chip /\ Data(c, byte).icw = 4 /\ Data(c, byte).base = c.base
           /\ \A byte : c.icw = 4 =>
                 Data(c, byte) \in Chip /\ Data(c, byte).icw = 0 /\ Data(c, byte).base = c.base
           /\ \A byte : c.icw = 0 =>
                 /\ Data(c, byte) \in Chip /\ Data(c, byte).icw = 0 /\ Data(c, byte).base = c.base
                 /\ Data(c, byte).mask = Bits(byte)
<1>1. Command(c, 17) \in Chip /\ Command(c, 17).icw = 2
  BY BitsOf DEF Command, Chip
<1>2. ASSUME NEW byte \in {32, 40}, c.icw = 2
      PROVE  Data(c, byte) \in Chip /\ Data(c, byte).icw = 3 /\ Data(c, byte).base = byte
  <2>1. byte - (byte % 8) = byte /\ byte \in Nat
    OBVIOUS
  <2>2. Data(c, byte) = [c EXCEPT !.icw = 3, !.base = byte - (byte % 8)]
    BY <1>2 DEF Data
  <2>3. Data(c, byte) = [c EXCEPT !.icw = 3, !.base = byte]
    BY <2>1, <2>2
  <2>4. QED
    BY <2>1, <2>3, ZenonT(60) DEF Chip
<1>3. ASSUME NEW byte, c.icw = 3
      PROVE  Data(c, byte) \in Chip /\ Data(c, byte).icw = 4 /\ Data(c, byte).base = c.base
  <2>1. Data(c, byte) = [c EXCEPT !.icw = 4]
    BY <1>3 DEF Data
  <2>2. QED
    BY <2>1 DEF Chip
<1>4. ASSUME NEW byte, c.icw = 4
      PROVE  Data(c, byte) \in Chip /\ Data(c, byte).icw = 0 /\ Data(c, byte).base = c.base
  <2>1. Data(c, byte) = [c EXCEPT !.icw = 0]
    BY <1>4 DEF Data
  <2>2. QED
    BY <2>1 DEF Chip
<1>5. ASSUME NEW byte, c.icw = 0
      PROVE  /\ Data(c, byte) \in Chip /\ Data(c, byte).icw = 0 /\ Data(c, byte).base = c.base
             /\ Data(c, byte).mask = Bits(byte)
  <2>1. Data(c, byte) = [c EXCEPT !.mask = Bits(byte)] /\ Bits(byte) \in SUBSET (0 .. 7)
    BY <1>5, BitsOf DEF Data
  <2>2. QED
    BY <1>5, <2>1 DEF Chip
<1>6. QED
  BY <1>1, <1>2, <1>3, <1>4, <1>5

\* pic::init: the words go to each chip in the order it expects them.
LEMMA PicInitKeepsPic ==
    ASSUME ControlOK, PicOK, PicInit, Moves(3)
    PROVE  PicOK'
<1> DEFINE m == pic["master"]
           s == pic["slave"]
<1>1. phase = 3 /\ step \in {1, 2, 3, 4, 5, 6, 7, 8, 9, 10}
  BY OrderFacts DEF Moves
<1>2. \A k \in 1 .. 10 : Past(3, k)' <=> (Past(3, k) \/ k = step)
  BY MovesControl, OrderFacts
<1>3. \A k \in 1 .. 10 : Past(3, k) <=> step > k
  BY <1>1 DEF Past
<1>4. /\ (Past(3, 1)' <=> step >= 1) /\ (Past(3, 2)' <=> step >= 2) /\ (Past(3, 3)' <=> step >= 3)
      /\ (Past(3, 4)' <=> step >= 4) /\ (Past(3, 5)' <=> step >= 5) /\ (Past(3, 6)' <=> step >= 6)
      /\ (Past(3, 7)' <=> step >= 7) /\ (Past(3, 8)' <=> step >= 8) /\ (Past(3, 9)' <=> step >= 9)
      /\ (Past(3, 10)' <=> step >= 10)
  BY <1>1, <1>2, <1>3
<1>5. /\ m \in Chip /\ s \in Chip /\ DOMAIN pic = {"master", "slave"}
      /\ step \in {2, 3} => m.icw = 2
      /\ step \in {4, 5} => m.icw = 3
      /\ step \in {6, 7} => m.icw = 4
      /\ step \in {3, 4} => s.icw = 2
      /\ step \in {5, 6} => s.icw = 3
      /\ step \in {7, 8} => s.icw = 4
      /\ step > 3 => m.base = PIC1_OFFSET
      /\ step > 7 => m.icw = 0
      /\ step > 8 => s.icw = 0
      /\ step > 9 => m.mask = 2 .. 7
  BY <1>1, <1>3 DEF PicOK
<1>6. SUFFICES /\ pic' \in [{"master", "slave"} -> Chip]
               /\ step \in {1, 2} => pic'["master"].icw = 2
               /\ step \in {3, 4} => pic'["master"].icw = 3
               /\ step \in {5, 6} => pic'["master"].icw = 4
               /\ step \in {2, 3} => pic'["slave"].icw = 2
               /\ step \in {4, 5} => pic'["slave"].icw = 3
               /\ step \in {6, 7} => pic'["slave"].icw = 4
               /\ step >= 3 => pic'["master"].base = PIC1_OFFSET
               /\ step >= 7 => pic'["master"].icw = 0
               /\ step >= 8 => pic'["slave"].icw = 0
               /\ step >= 9 => pic'["master"].mask = 2 .. 7
               /\ step >= 10 => pic'["slave"].mask = 0 .. 7
  BY <1>1, <1>4, <1>6 DEF PicOK
<1>7. /\ pic' = [pic EXCEPT !["master"] = IF step = 1 THEN Command(m, 17)
                                          ELSE Data(m, PicWrites[step][3])]
         \/ step \in {2, 4, 6, 8, 10}
      /\ pic' = [pic EXCEPT !["slave"] = IF step = 2 THEN Command(s, 17)
                                         ELSE Data(s, PicWrites[step][3])]
         \/ step \in {1, 3, 5, 7, 9}
  <2>1. \/ step \in {1, 3, 5, 7, 9} /\ PicWrites[step][1] = "master"
        \/ step \in {2, 4, 6, 8, 10} /\ PicWrites[step][1] = "slave"
    BY <1>1 DEF PicWrites
  <2>2. /\ PicWrites[step][2] = IF step \in {1, 2} THEN "command" ELSE "data"
        /\ step \in {1, 2} => PicWrites[step][3] = 17
    BY <1>1 DEF PicWrites, ICW1_INIT_ICW4
  <2>3. pic' = [pic EXCEPT ![PicWrites[step][1]] =
                   IF PicWrites[step][2] = "command" THEN Command(@, PicWrites[step][3])
                                                     ELSE Data(@, PicWrites[step][3])]
    BY DEF PicInit
  <2>4. QED
    BY <1>1, <2>1, <2>2, <2>3
<1>8. /\ step = 3 => PicWrites[step][3] = 32
      /\ step = 4 => PicWrites[step][3] = 40
      /\ step = 9 => PicWrites[step][3] = 252
      /\ step = 10 => PicWrites[step][3] = 255
  BY DEF PicWrites, PIC1_OFFSET, PIC2_OFFSET
<1> DEFINE byte == PicWrites[step][3]
<1> HIDE DEF m, s, byte
<1>9. CASE step \in {1, 3, 5, 7, 9}
  <2>1. pic' = [pic EXCEPT !["master"] = IF step = 1 THEN Command(m, 17) ELSE Data(m, byte)]
    BY <1>7, <1>9 DEF byte
  <2> DEFINE n == IF step = 1 THEN Command(m, 17) ELSE Data(m, byte)
  <2>2. /\ n \in Chip
        /\ step = 1 => n.icw = 2
        /\ step = 3 => n.icw = 3 /\ n.base = 32
        /\ step = 5 => n.icw = 4 /\ n.base = m.base
        /\ step = 7 => n.icw = 0 /\ n.base = m.base
        /\ step = 9 => n.icw = 0 /\ n.base = m.base /\ n.mask = 2 .. 7
    <3>1. CASE step = 1
      BY <1>5, <3>1, ChipSteps
    <3>2. CASE step = 3
      BY <1>5, <1>8, <3>2, ChipSteps DEF byte
    <3>3. CASE step = 5
      <4>1. n = Data(m, byte) /\ m \in Chip /\ m.icw = 3
        BY <1>5, <3>3
      <4>2. QED
        BY <3>3, <4>1, ChipSteps
    <3>4. CASE step = 7
      <4>1. n = Data(m, byte) /\ m \in Chip /\ m.icw = 4
        BY <1>5, <3>4
      <4>2. QED
        BY <3>4, <4>1, ChipSteps
    <3>5. CASE step = 9
      BY <1>5, <1>8, <3>5, ChipSteps, BitsOf, SMTT(30) DEF byte
    <3>6. QED
      BY <1>9, <3>1, <3>2, <3>3, <3>4, <3>5
  <2>3. pic'["master"] = n /\ pic'["slave"] = s /\ pic' \in [{"master", "slave"} -> Chip]
    BY <1>5, <2>1, <2>2 DEF m, s, PicOK
  <2> HIDE DEF n
  <2>4. QED
    BY <1>5, <1>9, <2>2, <2>3 DEF PIC1_OFFSET
<1>10. CASE step \in {2, 4, 6, 8, 10}
  <2>1. pic' = [pic EXCEPT !["slave"] = IF step = 2 THEN Command(s, 17) ELSE Data(s, byte)]
    BY <1>7, <1>10 DEF byte
  <2> DEFINE n == IF step = 2 THEN Command(s, 17) ELSE Data(s, byte)
  <2>2. /\ n \in Chip
        /\ step = 2 => n.icw = 2
        /\ step = 4 => n.icw = 3
        /\ step = 6 => n.icw = 4
        /\ step = 8 => n.icw = 0
        /\ step = 10 => n.icw = 0 /\ n.mask = 0 .. 7
    <3>1. CASE step = 2
      BY <1>5, <3>1, ChipSteps
    <3>2. CASE step = 4
      BY <1>5, <1>8, <3>2, ChipSteps DEF byte
    <3>3. CASE step = 6
      BY <1>5, <3>3, ChipSteps
    <3>4. CASE step = 8
      BY <1>5, <3>4, ChipSteps
    <3>5. CASE step = 10
      BY <1>5, <1>8, <3>5, ChipSteps, BitsOf, SMTT(30) DEF byte
    <3>6. QED
      BY <1>10, <3>1, <3>2, <3>3, <3>4, <3>5
  <2>3. pic'["slave"] = n /\ pic'["master"] = m /\ pic' \in [{"master", "slave"} -> Chip]
    BY <1>5, <2>1, <2>2 DEF m, s, PicOK
  <2> HIDE DEF n
  <2>4. QED
    BY <1>5, <1>10, <2>2, <2>3
<1>11. QED
  BY <1>1, <1>9, <1>10

\* Requests and service come and go; how a chip is set up does not change.
LEMMA IrqKeepsChip ==
    ASSUME PicOK, NEW c \in Chip, c = pic["master"], NEW n \in Chip, pic' = [pic EXCEPT !["master"] = n],
           n.base = c.base, n.mask = c.mask, n.icw = c.icw
    PROVE  /\ pic' \in [{"master", "slave"} -> Chip]
           /\ \A d \in {"master", "slave"} : /\ pic'[d].base = pic[d].base /\ pic'[d].mask = pic[d].mask
                                             /\ pic'[d].icw = pic[d].icw
BY DEF PicOK

LEMMA NextKeepsPic ==
    ASSUME ControlOK, PicOK, StartupNext \/ UNCHANGED all
    PROVE  PicOK'
<1>1. CASE PicInit /\ Moves(3)
  BY <1>1, PicInitKeepsPic
<1>2. ASSUME NEW p \in (1 .. 9) \ {3}, Moves(p), UNCHANGED pic
      PROVE  PicOK'
  <2>1. \A k \in 1 .. 10 : Past(3, k)' <=> Past(3, k)
    BY <1>2, MovesControl, OrderFacts
  <2>2. QED
    BY <1>2, <2>1, PicStays DEF PicOK
<1>3. CASE (UNCHANGED control \/ Announced) /\ UNCHANGED <<tables, pit>>
  <2>1. \A k \in 1 .. 10 : Past(3, k)' <=> Past(3, k)
    BY <1>3, StillControl
  <2> DEFINE m == pic["master"]
  <2>2. m \in Chip /\ DOMAIN pic = {"master", "slave"}
    BY DEF PicOK
  <2>3. SUFFICES \/ UNCHANGED pic
                 \/ \E n \in Chip : /\ pic' = [pic EXCEPT !["master"] = n]
                                    /\ n.base = m.base /\ n.mask = m.mask /\ n.icw = m.icw
    <3>1. CASE UNCHANGED pic
      BY <2>1, <3>1, PicStays DEF PicOK
    <3>2. ASSUME NEW n \in Chip, pic' = [pic EXCEPT !["master"] = n],
                 n.base = m.base, n.mask = m.mask, n.icw = m.icw
          PROVE  PicOK'
      <4>1. /\ pic' \in [{"master", "slave"} -> Chip]
            /\ \A d \in {"master", "slave"} : /\ pic'[d].base = pic[d].base /\ pic'[d].mask = pic[d].mask
                                              /\ pic'[d].icw = pic[d].icw
        BY <2>2, <3>2, IrqKeepsChip
      <4>2. QED
        BY <2>1, <4>1, PicStays
    <3>3. QED
      BY <2>3, <3>1, <3>2
  <2>4. CASE TimerEdge
    <3> DEFINE n == [m EXCEPT !.irr = {0}]
    <3>1. pic' = [pic EXCEPT !["master"] = n]
      BY <2>4 DEF TimerEdge
    <3>2. n \in Chip /\ n.base = m.base /\ n.mask = m.mask /\ n.icw = m.icw
      BY <2>2 DEF Chip
    <3>3. QED
      BY <3>1, <3>2
  <2>5. ASSUME NEW line \in {0, 1}, Interrupt(line)
        PROVE  \E n \in Chip : /\ pic' = [pic EXCEPT !["master"] = n]
                               /\ n.base = m.base /\ n.mask = m.mask /\ n.icw = m.icw
    <3> DEFINE n == [m EXCEPT !.irr = m.irr \ {line}, !.isr = m.isr \cup {line}]
    <3>1. pic' = [pic EXCEPT !["master"] = n]
      BY <2>2, <2>5 DEF Interrupt, Chip
    <3>2. n \in Chip /\ n.base = m.base /\ n.mask = m.mask /\ n.icw = m.icw
      BY <2>2 DEF Chip
    <3>3. QED
      BY <3>1, <3>2
  <2>6. CASE IrqHandler
    <3> DEFINE n == [m EXCEPT !.isr = {i \in m.isr : \E j \in m.isr : j < i}]
    <3>1. pic' = [pic EXCEPT !["master"] = n]
      BY <2>6 DEF IrqHandler
    <3>2. n \in Chip /\ n.base = m.base /\ n.mask = m.mask /\ n.icw = m.icw
      BY <2>2 DEF Chip
    <3>3. QED
      BY <3>1, <3>2
  <2>7. CASE Main
    <3>1. PicInit => Moves(3)
      <4>1. step \in Nat /\ (phase # 10 => step <= Last[phase])
        BY DEF ControlOK
      <4>2. QED
        BY <4>1, RunningAt, OrderFacts DEF PicInit, Moves
    <3>2. CASE PicInit
      <4>1. phase \in Nat /\ step \in Nat /\ step >= 1
        BY <3>1, <3>2, OrderFacts DEF ControlOK, Moves
      <4>2. UNCHANGED control
        BY <1>3, <4>1 DEF Announced
      <4>3. phase' = phase + 1 \/ step' = step + 1
        BY <3>1, <3>2 DEF Moves, Advance
      <4>4. QED
        BY <4>1, <4>2, <4>3 DEF control
    <3>3. CASE ~PicInit
      BY <2>7, <3>3 DEF Main, Announce, GdtInit, IdtInit, PitInit, Ps2Init, Selftest, Screen,
         MemoryUp, MemoryFails, EnableInterrupts, setup
    <3>4. QED
      BY <3>2, <3>3
  <2>8. CASE Exceptions \/ Spurious \/ Raise \/ Devices \/ Stopped \/ UNCHANGED all
    BY <2>8 DEF Exceptions, Spurious, Raise, Devices, Stopped, all, setup
  <2>9. QED
    BY <2>4, <2>5, <2>6, <2>7, <2>8 DEF StartupNext
<1>4. QED
  BY <1>1, <1>2, <1>3, StepKinds

-----------------------------------------------------------------------------
(* The 8254 *)

\* The divisor: what a reload value of 16 bits can hold, in two bytes, and the
\* greatest that does not make the timer too slow.
LEMMA DivisorFits ==
    /\ Divisor \in Nat /\ Divisor = BASE_FREQUENCY \div TIMER_HZ
    /\ (Divisor \div 256) * 256 + (Divisor % 256) = Divisor
    /\ Divisor % 256 \in Nat /\ Divisor \div 256 \in Nat
    /\ Divisor * TIMER_HZ <= BASE_FREQUENCY /\ (Divisor + 1) * TIMER_HZ > BASE_FREQUENCY
<1> DEFINE q == BASE_FREQUENCY \div TIMER_HZ
<1>1. TIMER_HZ \in Nat /\ TIMER_HZ >= 19 /\ BASE_FREQUENCY \in Nat
  <2>1. TIMER_HZ \in 19 .. BASE_FREQUENCY
    BY StartupAssumption, Zenon
  <2>2. BASE_FREQUENCY \in Nat
    BY SMT DEF BASE_FREQUENCY
  <2>3. QED
    BY <2>1, <2>2, SMT
<1>2. BASE_FREQUENCY < 65536 * 19
  BY SMT DEF BASE_FREQUENCY
<1>3. \A x \in Nat, m \in Nat \ {0} : /\ x \div m \in Nat /\ (x \div m) * m <= x
                                       /\ x < (x \div m) * m + m
  BY Z3
<1>4. q \in Nat /\ q * TIMER_HZ <= BASE_FREQUENCY /\ BASE_FREQUENCY < q * TIMER_HZ + TIMER_HZ
  BY <1>1, <1>3, SMT
<1> HIDE DEF q
<1>5. q * 19 <= q * TIMER_HZ
  BY <1>1, <1>4, Z3
<1>6. q < 65536
  <2>1. q * TIMER_HZ \in Nat
    BY <1>1, <1>4
  <2>2. q * 19 < 65536 * 19
    BY <1>1, <1>2, <1>4, <1>5, <2>1, SMT
  <2>3. QED
    BY <1>4, <2>2, SMT
<1>7. 2^16 = 65536
  BY SMT
<1>8. Divisor = q
  <2>1. q % 65536 = q
    BY <1>4, <1>6, SMT
  <2>2. QED
    BY <1>7, <2>1, SMT DEF Divisor, q
<1>9. (q + 1) * TIMER_HZ = q * TIMER_HZ + TIMER_HZ
  BY <1>1, <1>4
<1>10. (q \div 256) * 256 + (q % 256) = q /\ q % 256 \in Nat /\ q \div 256 \in Nat
  BY <1>4, Z3
<1>11. QED
  BY <1>1, <1>4, <1>8, <1>9, <1>10, SMT DEF q

LEMMA PitInitKeepsPit ==
    ASSUME ControlOK, PitOK, PitInit, Moves(4)
    PROVE  PitOK'
<1>1. phase = 4 /\ step \in {1, 2, 3}
  BY OrderFacts DEF Moves
<1>2. /\ (Past(4, 1)' <=> Past(4, 1) \/ 1 = step) /\ (Past(4, 2)' <=> Past(4, 2) \/ 2 = step)
      /\ (Past(4, 3)' <=> Past(4, 3) \/ 3 = step)
  BY MovesControl, OrderFacts
<1>3. (Past(4, 1) <=> step > 1) /\ (Past(4, 2) <=> step > 2) /\ ~Past(4, 3)
  BY <1>1 DEF Past
<1>4. /\ pit \in [mode : Nat, next : {"low", "high"}, latch : Nat, reload : Nat]
      /\ step > 1 => pit.mode = 3
      /\ step = 2 => pit.next = "low"
      /\ step = 3 => pit.next = "high" /\ pit.latch = Divisor % 256
  BY <1>1, <1>3 DEF PitOK
<1>5. PitBytes[1] = 54 /\ PitBytes[2] = Divisor % 256 /\ PitBytes[3] = Divisor \div 256
  BY DEF PitBytes
<1>6. Divisor % 256 \in Nat /\ Divisor \div 256 \in Nat
  BY DivisorFits
<1>7. CASE step = 1
  <2>1. pit' = [pit EXCEPT !.mode = 3, !.next = "low"]
    <3>1. 54 \div 64 = 0 /\ (54 \div 16) % 4 = 3 /\ (54 \div 2) % 8 = 3
      OBVIOUS
    <3>2. pit' = PitCommand(54)
      BY <1>5, <1>7 DEF PitInit
    <3>3. QED
      BY <3>1, <3>2 DEF PitCommand
  <2>2. Past(4, 1)' /\ ~Past(4, 2)' /\ ~Past(4, 3)'
    BY <1>2, <1>3, <1>7
  <2>3. QED
    BY <1>4, <2>1, <2>2, ZenonT(60) DEF PitOK
<1>8. CASE step = 2
  <2>1. PICK low \in Nat : low = Divisor % 256
    BY <1>6
  <2>2. pit' = PitData(low) /\ pit.next = "low" /\ pit.mode = 3
    BY <1>4, <1>5, <1>8, <2>1 DEF PitInit
  <2>3. pit' = [pit EXCEPT !.next = "high", !.latch = low]
    BY <2>2 DEF PitData
  <2>4. Past(4, 1)' /\ Past(4, 2)' /\ ~Past(4, 3)'
    BY <1>2, <1>3, <1>8
  <2>5. /\ pit' \in [mode : Nat, next : {"low", "high"}, latch : Nat, reload : Nat]
        /\ pit'.mode = 3 /\ pit'.next = "high" /\ pit'.latch = low
    BY <1>4, <2>2, <2>3
  <2>6. QED
    BY <2>1, <2>4, <2>5 DEF PitOK
<1>9. CASE step = 3
  <2>1. PICK low \in Nat, high \in Nat : low = Divisor % 256 /\ high = Divisor \div 256
    BY <1>6
  <2>2. pit' = PitData(high) /\ pit.next = "high" /\ pit.mode = 3 /\ pit.latch = low
    BY <1>4, <1>5, <1>9, <2>1 DEF PitInit
  <2>3. pit' = [pit EXCEPT !.next = "low", !.reload = high * 256 + low]
    BY <2>2 DEF PitData
  <2>4. Past(4, 1)' /\ Past(4, 2)' /\ Past(4, 3)'
    BY <1>2, <1>3, <1>9
  <2>5. PICK value \in Nat : value = high * 256 + low
    OBVIOUS
  <2>6. /\ pit' \in [mode : Nat, next : {"low", "high"}, latch : Nat, reload : Nat]
        /\ pit'.mode = 3 /\ pit'.next = "low" /\ pit'.reload = value
    <3>1. pit' = [pit EXCEPT !.next = "low", !.reload = value]
      BY <2>3, <2>5
    <3>2. QED
      BY <1>4, <2>2, <3>1, ZenonT(60)
  <2>7. QED
    BY <2>1, <2>4, <2>5, <2>6 DEF PitOK
<1>10. QED
  BY <1>1, <1>7, <1>8, <1>9

LEMMA NextKeepsPit ==
    ASSUME ControlOK, PitOK, StartupNext \/ UNCHANGED all
    PROVE  PitOK'
<1>1. CASE PitInit
  <2>1. Moves(4)
    <3>1. step \in Nat /\ (phase # 10 => step <= Last[phase])
      BY DEF ControlOK
    <3>2. Len(PitBytes) = 3
      BY DEF PitBytes
    <3>3. QED
      BY <1>1, <3>1, <3>2, RunningAt, OrderFacts DEF PitInit, Moves
  <2>2. QED
    BY <1>1, <2>1, PitInitKeepsPit
<1>2. CASE ~PitInit
  <2>1. UNCHANGED pit
    BY <1>2 DEF StartupNext, Main, Announce, GdtInit, IdtInit, PicInit, Ps2Init, Selftest, Screen,
       MemoryUp, MemoryFails, EnableInterrupts, Exceptions, IrqHandler, Interrupt, Served, Spurious,
       Raise, TimerEdge, Devices, Stopped, all, setup
  <2>2. \A k \in 1 .. 3 : Past(4, k)' <=> Past(4, k)
    <3>1. ASSUME NEW p \in (1 .. 9) \ {4}, Moves(p)
          PROVE  \A k \in 1 .. 3 : Past(4, k)' <=> Past(4, k)
      BY <3>1, MovesControl, OrderFacts
    <3>2. CASE UNCHANGED control \/ Announced
      BY <3>2, StillControl
    <3>3. QED
      BY <1>2, <3>1, <3>2, StepKinds
  <2>3. QED
    BY <2>1, <2>2 DEF PitOK
<1>3. QED
  BY <1>1, <1>2

-----------------------------------------------------------------------------
(* Exceptions and interrupts *)

\* Start-up never goes back; idt::init is the only one to load the IDT.
LEMMA Progress ==
    ASSUME ControlOK, TablesOK, StartupNext \/ UNCHANGED all
    PROVE  /\ ControlOK' /\ phase \in 1 .. 10 /\ phase' \in 1 .. 10 /\ phase <= phase'
           /\ phase > 2 => idtr = "kernel"
           /\ ~IdtInit => idtr' = idtr
<1>1. phase \in 1 .. 10
  BY DEF ControlOK
<1>2. ASSUME NEW p \in 1 .. 9, Moves(p)
      PROVE  ControlOK' /\ phase <= phase'
  <2>1. phase' = phase + 1 \/ phase' = phase
    BY <1>2 DEF Moves, Advance
  <2>2. QED
    BY <1>1, <1>2, <2>1, MovesControl
<1>3. ASSUME UNCHANGED control \/ Announced
      PROVE  ControlOK' /\ phase <= phase'
  <2>1. phase' = phase
    BY <1>3 DEF control, Announced
  <2>2. QED
    BY <1>1, <1>3, <2>1, StillControl
<1>4. ControlOK' /\ phase <= phase'
  BY <1>2, <1>3, StepKinds
<1>5. phase' \in 1 .. 10
  BY <1>4 DEF ControlOK
<1>6. phase > 2 => idtr = "kernel"
  BY DEF TablesOK, Past
<1>7. ~IdtInit => idtr' = idtr
  <2>1. GdtInit => idtr' = idtr
    BY DEF GdtInit, FillTss, FillGdt, lgdt, retfq, MovSs, ltr
  <2>2. QED
    BY <2>1, StepKinds DEF tables
<1>8. QED
  BY <1>1, <1>4, <1>5, <1>6, <1>7

\* With the kernel's tables in use: a vector without a gate is a general
\* protection fault; one with a gate reaches its own handler, on the stack in
\* use, or on the fault stack when it is the double fault, which nothing stops.
LEMMA Delivery ==
    ASSUME ControlOK, TablesOK, idtr = "kernel",
           NEW v \in Vectors, NEW rsp \in {"good", "bad", "fault"}
    PROVE  /\ v \notin Gated => Obstacle(v, rsp) = {GP}
           /\ v \in Gated => Target(v) = Owner(v)
           /\ v \in Gated /\ v # DF => /\ Obstacle(v, rsp) = IF rsp = "bad" THEN {PF} ELSE {}
                                       /\ StackOf(Gate(v), rsp) = rsp
           /\ v = DF => v \in Gated /\ Obstacle(v, rsp) = {} /\ StackOf(Gate(v), rsp) = "fault"
<1>1. Past(2, 2)
  BY DEF TablesOK
<1>2. Past(2, 1) /\ \A k \in 1 .. 6 : Past(1, k)
  BY <1>1 DEF Past, ControlOK
<1>3. /\ ist[0] = "fault" /\ tr = TssAddress /\ idt[v] = Entry(v)
      /\ Past(1, 2) /\ Past(1, 3)
  BY <1>2 DEF TablesOK
<1>4. Gate(v) = Entry(v)
  BY <1>3 DEF Gate
<1>5. CASE v \notin Gated
  <2>1. Gate(v) = Missing
    BY <1>4, <1>5 DEF Entry
  <2>2. ~IsGate(Missing)
    BY DEF IsGate, Missing
  <2>3. v # DF
    BY <1>5 DEF Gated
  <2>4. QED
    BY <1>5, <2>1, <2>2, <2>3 DEF Obstacle
<1>6. CASE v \in Gated
  <2> DEFINE h == Owner(v)
             g == set(HandlerAddress[h], StackIndex(h))
  <2>1. Gate(v) = g /\ h \in Handlers /\ (h = "double_fault" <=> v = DF)
    BY <1>4, <1>6, OwnerOf DEF Entry
  <2>2. g.selector = KERNEL_CODE_SELECTOR /\ g.type_attributes = INTERRUPT_GATE
    BY DEF set
  <2>3. IsGate(g)
    <3>1. Low(INTERRUPT_GATE, 4) = {1, 2, 3}
      BY DEF Low, INTERRUPT_GATE
    <3>2. QED
      BY <2>2, <3>1 DEF IsGate, INTERRUPT_GATE
  <2>4. IsCode(Descriptor(g.selector))
    BY <1>3, <2>2, Selectors
  <2>5. g.ist = IF v = DF THEN 1 ELSE 0
    <3>1. CASE v = DF
      <4>1. StackIndex(h) = {0}
        BY <2>1, <3>1 DEF StackIndex, DOUBLE_FAULT_IST_INDEX
      <4>2. (CHOOSE i \in {0} : i < 7) = 0
        OBVIOUS
      <4>3. {0} # {} /\ (0 + 1) % 8 = 1
        OBVIOUS
      <4>4. QED
        BY <3>1, <4>1, <4>2, <4>3 DEF set
    <3>2. CASE v # DF
      <4>1. StackIndex(h) = {}
        BY <2>1, <3>2 DEF StackIndex
      <4>2. QED
        BY <3>2, <4>1 DEF set
    <3>3. QED
      BY <3>1, <3>2
  <2>6. GateOffset(g) = HandlerAddress[h]
    BY <2>1, GateKeepsOffset, TrapsAssumption
  <2> HIDE DEF g
  <2>7. Target(v) = h
    <3>1. \A x \in Handlers : HandlerAddress[x] = HandlerAddress[h] => x = h
      BY <2>1, TrapsAssumption
    <3>2. (CHOOSE x \in Handlers : HandlerAddress[x] = HandlerAddress[h]) = h
      BY <2>1, <3>1
    <3>3. QED
      BY <2>1, <2>6, <3>2 DEF Target
  <2>8. CASE v # DF
    <3>1. g.ist = 0 /\ StackOf(g, rsp) = rsp
      BY <2>5, <2>8 DEF StackOf
    <3>2. QED
      BY <1>6, <2>1, <2>3, <2>4, <2>7, <2>8, <3>1 DEF Obstacle
  <2>9. CASE v = DF
    <3>1. g.ist = 1 /\ 1 - 1 = 0
      BY <2>5, <2>9
    <3>2. StackOf(g, rsp) = "fault"
      BY <1>3, <3>1 DEF StackOf
    <3>3. tr # NoTss
      BY <1>3, TrapsAssumption DEF NoTss
    <3>4. QED
      BY <1>6, <2>1, <2>3, <2>4, <2>7, <2>9, <3>2, <3>3 DEF Obstacle
  <2>10. QED
    BY <2>8, <2>9
<1>7. QED
  BY <1>5, <1>6

TrapInv == TrapType /\ MaskedUntilEnabled /\ TrapOK /\ ReportOK

\* While the machine runs, nothing has been reported.
LEMMA NothingReported ==
    ASSUME ReportOK, outcome = "running"
    PROVE  report = NoReport
BY DEF ReportOK

\* A step that leaves the CPU alone.
LEMMA StaysQuiet ==
    ASSUME TrapInv, UNCHANGED trapped, idtr' = idtr,
           phase \in 1 .. 10, phase' \in 1 .. 10, phase <= phase'
    PROVE  TrapInv'
<1>1. iflag' = iflag /\ trap' = trap /\ report' = report /\ outcome' = outcome
  BY DEF trapped
<1>2. TrapType'
  BY <1>1 DEF TrapInv, TrapType
<1>3. MaskedUntilEnabled'
  BY <1>1 DEF TrapInv, MaskedUntilEnabled
<1>4. TrapOK'
  BY <1>1 DEF TrapInv, TrapOK
<1>5. ReportOK'
  BY <1>1 DEF TrapInv, ReportOK
<1>6. QED
  BY <1>2, <1>3, <1>4, <1>5 DEF TrapInv

LEMMA NoTrapFields ==
    /\ NoTrap.at = "none" /\ NoTrap.source = "none" /\ NoTrap.cause = 0 /\ NoTrap.vector = 0
    /\ NoTrap.rsp = "good" /\ NoTrap.iflag = FALSE
    /\ NoTrap \in [at : {"none", "deliver", "firmware"} \cup Handlers, source : Sources,
                   cause : Vectors, vector : Vectors, rsp : {"good", "bad", "fault"}, iflag : BOOLEAN]
    /\ "none" \notin Handlers /\ "deliver" \notin Handlers /\ "firmware" \notin Handlers
    /\ "none" \notin DOMAIN CauseOf /\ "code" \notin DOMAIN CauseOf
<1>1. 0 \in Vectors
  BY DEF Vectors, PIC2_OFFSET, PIC1_OFFSET
<1>2. QED
  BY <1>1 DEF NoTrap, Sources, CauseOf, Handlers

\* A step after which the CPU executes kernel_main, or has stopped.
LEMMA Settles ==
    ASSUME ReportOK, outcome = "running", trap' = NoTrap, report' = report,
           outcome' \in {"running", "Failed"}, iflag' \in BOOLEAN, iflag' => phase' = 10
    PROVE  TrapInv'
<1>1. report' = NoReport
  BY NothingReported
<1>2. TrapType'
  BY NoTrapFields DEF TrapType
<1>3. MaskedUntilEnabled'
  BY NoTrapFields DEF MaskedUntilEnabled
<1>4. TrapOK'
  BY NoTrapFields DEF TrapOK
<1>5. ReportOK'
  BY <1>1 DEF ReportOK
<1>6. QED
  BY <1>2, <1>3, <1>4, <1>5 DEF TrapInv

\* A new event, of a source that may raise it now.
LEMMA NewEvent ==
    ASSUME ReportOK, outcome = "running", outcome' = outcome, report' = report,
           iflag \in BOOLEAN, iflag' = iflag, iflag => phase' = 10,
           NEW s \in Sources \ {"none"}, NEW v \in Vectors, NEW r \in {"good", "bad"},
           trap' = Event(s, v, r),
           s # "code" => r = "good",
           s \in DOMAIN CauseOf => v = CauseOf[s],
           s \in {"timer", "keyboard", "spurious"} => phase' = 10,
           s = "int3" => phase' > 6
    PROVE  TrapInv'
<1>1. /\ trap'.at = "deliver" /\ trap'.source = s /\ trap'.cause = v /\ trap'.vector = v
      /\ trap'.rsp = r /\ trap'.iflag = iflag
      /\ trap' \in [at : {"none", "deliver", "firmware"} \cup Handlers, source : Sources,
                    cause : Vectors, vector : Vectors, rsp : {"good", "bad", "fault"}, iflag : BOOLEAN]
  BY DEF Event
<1>2. report' = NoReport
  BY NothingReported
<1>3. TrapType'
  BY <1>1 DEF TrapType
<1>4. MaskedUntilEnabled'
  BY <1>1 DEF MaskedUntilEnabled
<1>5. TrapOK'
  BY <1>1, NoTrapFields DEF TrapOK
<1>6. ReportOK'
  BY <1>2 DEF ReportOK
<1>7. QED
  BY <1>3, <1>4, <1>5, <1>6 DEF TrapInv

\* The vectors of int3 and of the interrupts: their gates, and their handlers.
LEMMA CausesHaveGates ==
    ASSUME NEW s \in DOMAIN CauseOf
    PROVE  /\ CauseOf[s] \in Gated /\ CauseOf[s] \in Vectors /\ CauseOf[s] # DF
           /\ s \in {"int3", "timer", "keyboard", "spurious"}
           /\ Owner(CauseOf[s]) = IF s = "int3" THEN "breakpoint"
                                  ELSE IF s = "spurious" THEN "unhandled_irq" ELSE s
           /\ Owner(CauseOf[s]) \notin DOMAIN Named
<1>1. s \in {"int3", "timer", "keyboard", "spurious"}
  BY DEF CauseOf
<1>2. /\ CauseOf["int3"] = BP /\ CauseOf["timer"] = TIMER_VECTOR
      /\ CauseOf["keyboard"] = KEYBOARD_VECTOR /\ CauseOf["spurious"] = 39
  BY DEF CauseOf, PIC1_OFFSET
<1>3. /\ BP = 3 /\ TIMER_VECTOR = 32 /\ KEYBOARD_VECTOR = 33 /\ DF = 8
  BY DEF BP, TIMER_VECTOR, KEYBOARD_VECTOR, DF, PIC1_OFFSET
<1>4. Vectors = 0 .. 47 /\ CatchAll = 32 .. 47
  BY DEF Vectors, CatchAll, PIC1_OFFSET, PIC2_OFFSET
<1>5. BP \in Gated /\ TIMER_VECTOR \in Gated /\ KEYBOARD_VECTOR \in Gated /\ 39 \in Gated
  BY <1>3, <1>4 DEF Gated
<1>6. Owner(39) = "unhandled_irq"
  BY <1>4, OwnerOf DEF DE, BP, UD, DF, GP, PF, TIMER_VECTOR, KEYBOARD_VECTOR, PIC1_OFFSET
<1>7. DOMAIN Named = {"divide_error", "invalid_opcode", "double_fault", "general_protection", "page_fault"}
  BY DEF Named
<1>8. QED
  BY <1>1, <1>2, <1>3, <1>4, <1>5, <1>6, <1>7, OwnerOf

TrapRecord ==
    [at : {"none", "deliver", "firmware"} \cup Handlers, source : Sources,
     cause : Vectors, vector : Vectors, rsp : {"good", "bad", "fault"}, iflag : BOOLEAN]

\* An event that is being delivered, or handled, has a source.
LEMMA Underway ==
    ASSUME TrapInv, outcome = "running", trap.at # "none"
    PROVE  /\ trap \in TrapRecord /\ trap.source # "none" /\ report = NoReport /\ iflag \in BOOLEAN
           /\ trap.source \in DOMAIN CauseOf \/ trap.source = "code"
<1>1. trap \in TrapRecord /\ trap.source # "none"
  BY NoTrapFields DEF TrapInv, TrapType, TrapRecord
<1>2. trap.source \in Sources
  BY <1>1 DEF TrapRecord
<1>3. trap.source \in DOMAIN CauseOf \/ trap.source = "code"
  BY <1>1, <1>2 DEF CauseOf, Sources
<1>4. QED
  BY <1>1, <1>3, NothingReported DEF TrapInv, TrapType

\* Entering a handler: its own, with the kernel's table; the firmware's before.
LEMMA EnterKeeps ==
    ASSUME ControlOK, TablesOK, TrapInv, Enter, UNCHANGED setup
    PROVE  TrapInv'
<1> DEFINE v == trap.vector
           s == trap.source
<1>1. outcome = "running" /\ trap.at = "deliver" /\ Obstacle(v, trap.rsp) = {}
  BY DEF Enter
<1>2. /\ trap' = [trap EXCEPT !.at = Target(v), !.rsp = StackOf(Gate(v), trap.rsp)]
      /\ outcome' = (IF Target(v) \in Handlers THEN outcome ELSE Target(v))
      /\ ~iflag' /\ iflag' \in BOOLEAN /\ report' = report
  BY DEF Enter
<1>3. /\ trap \in TrapRecord /\ s # "none" /\ report = NoReport
      /\ s \in DOMAIN CauseOf \/ s = "code"
  BY <1>1, Underway
<1>4. phase' = phase /\ idtr' = idtr
  BY DEF Enter, tables, setup, control
<1>5. /\ v \in Vectors /\ trap.rsp \in {"good", "bad", "fault"} /\ trap.rsp # "fault"
      /\ s \in DOMAIN CauseOf => v = CauseOf[s] /\ trap.cause = v
      /\ s # "code" => trap.rsp = "good"
      /\ trap.iflag => phase = 10
  BY <1>1, <1>3 DEF TrapRecord, TrapInv, TrapOK, MaskedUntilEnabled
<1>6. ReportOK'
  BY <1>2, <1>3 DEF ReportOK
<1>7. idtr \in {"kernel", "firmware"}
  BY DEF TablesOK
<1>8. CASE idtr = "kernel"
  <2>1. v \in Gated
    BY <1>1, <1>5, <1>8, Delivery
  <2>2. Target(v) = Owner(v) /\ Owner(v) \in Handlers /\ (Owner(v) = "double_fault" <=> v = DF)
    BY <1>5, <1>8, <2>1, Delivery, OwnerOf
  <2>3. PICK r \in {"good", "bad", "fault"} :
            r = StackOf(Gate(v), trap.rsp) /\ r # "bad" /\ (r = "fault" <=> v = DF)
                /\ (v # DF => r = trap.rsp)
    <3>1. CASE v = DF
      BY <1>5, <1>8, <3>1, Delivery
    <3>2. CASE v # DF
      <4>1. Obstacle(v, trap.rsp) = (IF trap.rsp = "bad" THEN {PF} ELSE {})
              /\ StackOf(Gate(v), trap.rsp) = trap.rsp
        BY <1>5, <1>8, <2>1, <3>2, Delivery
      <4>2. trap.rsp # "bad"
        BY <1>1, <4>1
      <4>3. QED
        BY <1>5, <3>2, <4>1, <4>2
    <3>3. QED
      BY <3>1, <3>2
  <2>4. /\ trap'.at = Owner(v) /\ trap'.rsp = r /\ trap'.source = s /\ trap'.vector = v
        /\ trap'.cause = trap.cause /\ trap'.iflag = trap.iflag /\ trap' \in TrapRecord
    BY <1>2, <1>3, <2>2, <2>3 DEF TrapRecord
  <2>5. outcome' = "running"
    BY <1>1, <1>2, <2>2
  <2>6. TrapType'
    BY <1>2, <1>3, <2>2, <2>4, <2>5, NoTrapFields DEF TrapType, TrapRecord
  <2>7. MaskedUntilEnabled'
    BY <1>2, <1>4, <2>4 DEF TrapInv, MaskedUntilEnabled
  <2>8. s # "code" => v # DF
    BY <1>3, <1>5, CausesHaveGates
  <2>9. r = "good" => trap.rsp = "good" /\ v # DF
    BY <2>3
  <2>10. TrapOK'
    <3>1. idtr = "kernel" /\ trap.rsp = "good" /\ s = "code" => v = trap.cause \/ trap.cause \notin Gated
      BY DEF TrapInv, TrapOK
    <3>2. Owner(v) # "deliver" /\ Owner(v) # "firmware"
      BY <2>2, NoTrapFields
    <3>3. QED
      BY <1>4, <1>5, <1>8, <2>1, <2>2, <2>3, <2>4, <2>5, <2>8, <2>9, <3>1, <3>2, NoTrapFields DEF TrapOK
  <2>11. QED
    BY <1>6, <2>6, <2>7, <2>10 DEF TrapInv
<1>9. CASE idtr = "firmware"
  <2>1. Target(v) = "firmware" /\ "firmware" \notin Handlers
    BY <1>9, NoTrapFields DEF Target
  <2>2. StackOf(Gate(v), trap.rsp) = trap.rsp
    BY <1>9 DEF StackOf, Gate, Missing
  <2>3. /\ trap'.at = "firmware" /\ trap'.rsp = trap.rsp /\ trap'.source = s /\ trap'.vector = v
        /\ trap'.cause = trap.cause /\ trap'.iflag = trap.iflag /\ trap' \in TrapRecord
    BY <1>2, <1>3, <1>5, <2>1, <2>2 DEF TrapRecord
  <2>4. outcome' = "firmware"
    BY <1>2, <2>1
  <2>5. TrapType'
    BY <1>2, <1>3, <2>3, <2>4 DEF TrapType, TrapRecord
  <2>6. MaskedUntilEnabled'
    BY <1>2, <1>4, <2>3 DEF TrapInv, MaskedUntilEnabled
  <2>7. TrapOK'
    BY <1>3, <1>4, <1>5, <1>9, <2>1, <2>3 DEF TrapOK
  <2>8. QED
    BY <1>6, <2>5, <2>6, <2>7 DEF TrapInv
<1>10. QED
  BY <1>7, <1>8, <1>9

\* A fault in delivery: with the kernel's table, only for a vector without a
\* gate or a stack that is gone, and never for the double fault.
LEMMA PileKeeps ==
    ASSUME ControlOK, TablesOK, TrapInv, Pile, UNCHANGED setup
    PROVE  TrapInv'
<1> DEFINE v == trap.vector
           s == trap.source
<1>1. outcome = "running" /\ trap.at = "deliver" /\ report' = report /\ iflag' = iflag
  BY DEF Pile
<1>2. PICK second \in Obstacle(v, trap.rsp) :
        IF v = DF THEN outcome' = "reset" /\ UNCHANGED trap
        ELSE trap' = [trap EXCEPT !.vector = Escalated(v, second)] /\ UNCHANGED outcome
  BY DEF Pile
<1>3. /\ trap \in TrapRecord /\ s # "none" /\ report = NoReport /\ iflag \in BOOLEAN
      /\ s \in DOMAIN CauseOf \/ s = "code"
  BY <1>1, Underway
<1>4. phase' = phase /\ idtr' = idtr
  BY DEF Pile, tables, setup, control
<1>5. /\ v \in Vectors /\ trap.rsp \in {"good", "bad", "fault"} /\ trap.rsp # "fault"
      /\ s \in DOMAIN CauseOf => v = CauseOf[s] /\ trap.cause = v
      /\ s # "code" => trap.rsp = "good"
      /\ s \in DOMAIN CauseOf => phase > 6
  <2>1. s \in DOMAIN CauseOf => phase > 6
    BY CausesHaveGates DEF TrapInv, MaskedUntilEnabled, ControlOK
  <2>2. QED
    BY <1>1, <1>3, <2>1 DEF TrapRecord, TrapInv, TrapOK
<1>6. ReportOK'
  BY <1>1, <1>3 DEF ReportOK
<1>7. idtr = "kernel" => /\ v # DF /\ (trap.rsp = "bad" \/ v \notin Gated)
  BY <1>2, <1>5, Delivery
<1>8. s = "code"
  <2>1. SUFFICES ASSUME s \in DOMAIN CauseOf PROVE FALSE
    BY <1>3
  <2>2. phase > 6 /\ trap.rsp = "good" /\ v = CauseOf[s]
    BY <1>5, <2>1, NoTrapFields
  <2>3. idtr = "kernel"
    BY <2>2 DEF TablesOK, Past, ControlOK
  <2>4. v \in Gated
    BY <2>1, <2>2, CausesHaveGates
  <2>5. QED
    BY <1>7, <2>2, <2>3, <2>4
<1>9. CASE v = DF
  <2>1. outcome' = "reset" /\ trap' = trap /\ idtr # "kernel"
    BY <1>2, <1>7, <1>9
  <2>2. TrapType'
    BY <1>1, <1>3, <2>1 DEF TrapInv, TrapType
  <2>3. MaskedUntilEnabled'
    BY <1>1, <1>4, <2>1 DEF TrapInv, MaskedUntilEnabled
  <2>4. TrapOK'
    BY <1>4, <2>1 DEF TrapInv, TrapOK
  <2>5. QED
    BY <1>6, <2>2, <2>3, <2>4 DEF TrapInv
<1>10. CASE v # DF
  <2>1. PICK w \in Vectors : w = Escalated(v, second)
    <3>1. second \in {GP, TS, PF}
      BY <1>2 DEF Obstacle
    <3>2. Escalated(v, second) \in {DF, GP, TS, PF}
      BY <3>1 DEF Escalated
    <3>3. {DF, GP, TS, PF} \subseteq Vectors
      BY DEF DF, GP, TS, PF, Vectors, PIC1_OFFSET, PIC2_OFFSET
    <3>4. QED
      BY <3>2, <3>3
  <2>2. trap' = [trap EXCEPT !.vector = w] /\ outcome' = "running"
    BY <1>1, <1>2, <1>10, <2>1
  <2>3. /\ trap'.at = "deliver" /\ trap'.rsp = trap.rsp /\ trap'.source = "code" /\ trap'.vector = w
        /\ trap'.cause = trap.cause /\ trap'.iflag = trap.iflag /\ trap' \in TrapRecord
    BY <1>1, <1>3, <1>8, <2>2 DEF TrapRecord
  <2>4. TrapType'
    BY <1>1, <1>3, <2>2, <2>3 DEF TrapType, TrapRecord
  <2>5. MaskedUntilEnabled'
    BY <1>1, <1>4, <2>3 DEF TrapInv, MaskedUntilEnabled
  <2>6. idtr = "kernel" /\ trap.rsp = "good" => trap.cause \notin Gated
    <3>1. idtr = "kernel" /\ trap.rsp = "good" => v = trap.cause \/ trap.cause \notin Gated
      BY <1>8 DEF TrapInv, TrapOK
    <3>2. QED
      BY <1>7, <3>1
  <2>7. TrapOK'
    BY <1>4, <1>5, <2>2, <2>3, <2>6, NoTrapFields DEF TrapOK
  <2>8. QED
    BY <1>6, <2>4, <2>5, <2>7 DEF TrapInv
<1>11. QED
  BY <1>9, <1>10

\* iretq finds the selectors that gdt::init loaded.
LEMMA Returns ==
    ASSUME ControlOK, TablesOK, TrapInv, outcome = "running", trap.at \in Handlers, iretq
    PROVE  trap' = NoTrap /\ iflag' = trap.iflag /\ iflag' \in BOOLEAN /\ (iflag' => phase = 10)
<1>1. idtr = "kernel"
  BY DEF TrapInv, TrapOK
<1>2. Past(1, 2) /\ Past(1, 3) /\ Past(1, 4) /\ Past(1, 5)
  BY <1>1 DEF TablesOK, Past, ControlOK
<1>3. cs = KERNEL_CODE_SELECTOR /\ ss = KERNEL_DATA_SELECTOR
  BY <1>2 DEF TablesOK
<1>4. IsCode(Descriptor(cs)) /\ IsStack(Descriptor(ss))
  BY <1>2, <1>3, Selectors
<1>5. trap' = NoTrap /\ iflag' = trap.iflag
  BY <1>4 DEF iretq
<1>6. trap.iflag \in BOOLEAN /\ (trap.iflag => phase = 10)
  BY DEF TrapInv, TrapType, MaskedUntilEnabled
<1>7. QED
  BY <1>5, <1>6

\* A report is of an exception of the running code.
LEMMA ReportKeeps ==
    ASSUME ControlOK, TablesOK, TrapInv, report_fault, UNCHANGED setup
    PROVE  TrapInv'
<1>1. outcome = "running" /\ trap.at \in DOMAIN Named
  BY DEF report_fault, Handling
<1>2. trap.at \in Handlers
  BY <1>1 DEF Named, Handlers
<1>3. /\ report' = [handler |-> trap.at, rsp |-> trap.rsp] /\ outcome' = "Failed"
      /\ iflag' = iflag /\ trap' = trap /\ idtr' = idtr /\ phase' = phase
  BY DEF report_fault, tables, setup, control
<1>4. trap.source = "code"
  <2>1. trap.source \in DOMAIN CauseOf \/ trap.source = "code"
    BY <1>1, <1>2, Underway, NoTrapFields
  <2>2. trap.at = Owner(trap.vector)
    BY <1>2 DEF TrapInv, TrapOK
  <2>3. trap.source \in DOMAIN CauseOf => trap.vector = CauseOf[trap.source]
    BY DEF TrapInv, TrapOK
  <2>4. QED
    BY <1>1, <2>1, <2>2, <2>3, CausesHaveGates
<1>5. TrapType'
  BY <1>3 DEF TrapInv, TrapType
<1>6. MaskedUntilEnabled'
  BY <1>3 DEF TrapInv, MaskedUntilEnabled
<1>7. TrapOK'
  BY <1>3 DEF TrapInv, TrapOK
<1>8. ReportOK'
  BY <1>1, <1>3, <1>4 DEF ReportOK
<1>9. QED
  BY <1>5, <1>6, <1>7, <1>8 DEF TrapInv

LEMMA NextKeepsTrap ==
    ASSUME ControlOK, TablesOK, PicOK, TrapInv, StartupNext \/ UNCHANGED all
    PROVE  TrapInv'
<1>1. /\ ControlOK' /\ phase \in 1 .. 10 /\ phase' \in 1 .. 10 /\ phase <= phase'
      /\ phase > 2 => idtr = "kernel"
      /\ ~IdtInit => idtr' = idtr
  BY Progress
<1>2. ReportOK /\ iflag \in BOOLEAN /\ (iflag => phase = 10)
  BY DEF TrapInv, TrapType, MaskedUntilEnabled
<1>3. iflag => phase' = 10
  BY <1>1, <1>2
<1>4. step \in Nat /\ (phase # 10 => step <= Last[phase])
  BY DEF ControlOK
<1>5. CASE Announce
  <2>1. outcome = "running" /\ trap' = NoTrap /\ report' = report /\ outcome' = outcome /\ iflag' = iflag
    BY <1>5 DEF Announce, Restored
  <2>2. QED
    BY <1>2, <1>3, <2>1, Settles
<1>6. CASE GdtInit
  <2>1. Moves(1)
    BY <1>4, <1>6, RunningAt, OrderFacts DEF GdtInit, Moves
  <2>2. trap' = trap
    BY <1>6, <2>1, GdtInitKeepsTables
  <2>3. outcome = "running" /\ trap' = NoTrap /\ report' = report /\ outcome' = outcome /\ iflag' = iflag
    BY <1>6, <2>2 DEF GdtInit, Running
  <2>4. QED
    BY <1>2, <1>3, <2>3, Settles
<1>7. CASE IdtInit
  <2>1. Moves(2)
    BY <1>4, <1>7, RunningAt, OrderFacts DEF IdtInit, Moves
  <2>2. trap' = trap
    BY <1>7, <2>1, IdtInitKeepsTables
  <2>3. outcome = "running" /\ trap' = NoTrap /\ report' = report /\ outcome' = outcome /\ iflag' = iflag
    BY <1>7, <2>2 DEF IdtInit, Running
  <2>4. QED
    BY <1>2, <1>3, <2>3, Settles
<1>8. CASE PicInit \/ PitInit \/ Ps2Init \/ Screen \/ MemoryUp \/ TimerEdge \/ Devices \/ UNCHANGED all
  <2>1. UNCHANGED trapped
    BY <1>8 DEF PicInit, PitInit, Ps2Init, Screen, MemoryUp, TimerEdge, Devices, all
  <2>2. idtr' = idtr
    BY <1>8 DEF PicInit, PitInit, Ps2Init, Screen, MemoryUp, TimerEdge, Devices, all, tables
  <2>3. QED
    BY <1>1, <2>1, <2>2, StaysQuiet
<1>9. CASE Selftest
  <2>1. /\ outcome = "running" /\ outcome' = outcome /\ report' = report /\ iflag' = iflag
        /\ trap' = Event("int3", BP, "good")
    BY <1>9 DEF Selftest, Running
  <2>2. Moves(6) /\ Last[6] = 1
    BY <1>4, <1>9, RunningAt, OrderFacts DEF Selftest, Moves
  <2>3. phase' = 7
    BY <2>2 DEF Moves, Advance
  <2>4. "int3" \in DOMAIN CauseOf /\ CauseOf["int3"] = BP /\ "int3" \in Sources \ {"none"}
    BY DEF CauseOf, Sources
  <2>5. BP \in Vectors
    BY <2>4, CausesHaveGates
  <2>6. QED
    BY <1>2, <1>3, <2>1, <2>3, <2>4, <2>5, NewEvent
<1>10. CASE MemoryFails
  <2>1. outcome = "running" /\ trap' = NoTrap /\ report' = report /\ outcome' = "Failed" /\ iflag' = iflag
    BY <1>10 DEF MemoryFails, Running
  <2>2. QED
    BY <1>2, <1>3, <2>1, Settles
<1>11. CASE EnableInterrupts
  <2>1. /\ outcome = "running" /\ trap' = NoTrap /\ report' = report /\ outcome' = outcome
        /\ iflag' \in BOOLEAN
    BY <1>11 DEF EnableInterrupts, Running
  <2>2. Moves(9) /\ Last[9] = 1
    BY <1>4, <1>11, RunningAt, OrderFacts DEF EnableInterrupts, Moves
  <2>3. phase' = 10
    BY <2>2 DEF Moves, Advance
  <2>4. QED
    BY <1>2, <2>1, <2>3, Settles
<1>12. CASE Exceptions
  <2>1. UNCHANGED setup
    BY <1>12 DEF Exceptions
  <2>2. CASE Enter
    BY <2>1, <2>2, EnterKeeps
  <2>3. CASE Pile
    BY <2>1, <2>3, PileKeeps
  <2>4. CASE breakpoint_handler
    <3>1. outcome = "running" /\ trap.at \in Handlers /\ iretq /\ report' = report /\ outcome' = outcome
      BY <2>4 DEF breakpoint_handler, Handling, Handlers
    <3>2. phase' = phase
      BY <2>1 DEF setup, control
    <3>3. trap' = NoTrap /\ iflag' \in BOOLEAN /\ (iflag' => phase' = 10)
      BY <3>1, <3>2, Returns
    <3>4. QED
      BY <1>2, <3>1, <3>3, Settles
  <2>5. CASE report_fault
    BY <2>1, <2>5, ReportKeeps
  <2>6. QED
    BY <1>12, <2>2, <2>3, <2>4, <2>5 DEF Exceptions, Deliver
<1>13. CASE IrqHandler
  <2>1. outcome = "running" /\ trap.at \in Handlers /\ iretq /\ report' = report /\ outcome' = outcome
    BY <1>13 DEF IrqHandler, Handling, Handlers
  <2>2. phase' = phase
    BY <1>13 DEF IrqHandler, control
  <2>3. trap' = NoTrap /\ iflag' \in BOOLEAN /\ (iflag' => phase' = 10)
    BY <2>1, <2>2, Returns
  <2>4. QED
    BY <1>2, <2>1, <2>3, Settles
<1>14. ASSUME NEW line \in {0, 1}, Served(line)
       PROVE  /\ phase = 10 /\ phase' = 10 /\ pic["master"].base = 32
              /\ outcome = "running" /\ outcome' = outcome /\ report' = report /\ iflag' = iflag
  <2>1. /\ iflag /\ outcome = "running" /\ outcome' = outcome /\ report' = report /\ iflag' = iflag
    BY <1>14 DEF Served
  <2>2. phase = 10 /\ phase' = 10
    BY <1>2, <1>3, <2>1
  <2>3. Past(3, 3)
    BY <2>2 DEF Past
  <2>4. QED
    BY <2>1, <2>2, <2>3 DEF PicOK, PIC1_OFFSET
<1>15. 32 \in Vectors /\ 33 \in Vectors /\ 39 \in Vectors
  BY DEF Vectors, PIC1_OFFSET, PIC2_OFFSET
<1>16. /\ "timer" \in DOMAIN CauseOf /\ "keyboard" \in DOMAIN CauseOf /\ "spurious" \in DOMAIN CauseOf
       /\ CauseOf["timer"] = 32 /\ CauseOf["keyboard"] = 33 /\ CauseOf["spurious"] = 39
       /\ {"timer", "keyboard", "spurious", "code"} \subseteq Sources \ {"none"}
  BY DEF CauseOf, Sources, TIMER_VECTOR, KEYBOARD_VECTOR, PIC1_OFFSET
<1>17. CASE Interrupt(0)
  <2>1. Served(0)
    BY <1>17 DEF Interrupt
  <2>2. /\ phase = 10 /\ phase' = 10 /\ pic["master"].base = 32
        /\ outcome = "running" /\ outcome' = outcome /\ report' = report /\ iflag' = iflag
    BY <1>14, <2>1
  <2>3. trap' = Event("timer", 32, "good")
    BY <1>17, <2>2 DEF Interrupt
  <2>4. QED
    BY <1>2, <1>3, <1>15, <1>16, <2>2, <2>3, NewEvent
<1>18. CASE Interrupt(1)
  <2>1. Served(1)
    BY <1>18 DEF Interrupt
  <2>2. /\ phase = 10 /\ phase' = 10 /\ pic["master"].base = 32
        /\ outcome = "running" /\ outcome' = outcome /\ report' = report /\ iflag' = iflag
    BY <1>14, <2>1
  <2>3. trap' = Event("keyboard", 33, "good")
    BY <1>18, <2>2 DEF Interrupt
  <2>4. QED
    BY <1>2, <1>3, <1>15, <1>16, <2>2, <2>3, NewEvent
<1>19. CASE Spurious
  <2>1. PICK line \in {0, 1} : Served(line)
    BY <1>19 DEF Spurious
  <2>2. /\ phase = 10 /\ phase' = 10 /\ pic["master"].base = 32
        /\ outcome = "running" /\ outcome' = outcome /\ report' = report /\ iflag' = iflag
    BY <1>14, <2>1
  <2>3. trap' = Event("spurious", 39, "good")
    BY <1>19, <2>2 DEF Spurious
  <2>4. QED
    BY <1>2, <1>3, <1>15, <1>16, <2>2, <2>3, NewEvent
<1>20. CASE Raise
  <2>1. outcome = "running" /\ outcome' = outcome /\ report' = report /\ iflag' = iflag
    BY <1>20 DEF Raise
  <2>2. PICK v \in Faults, r \in {"good", "bad"} : trap' = Event("code", v, r)
    BY <1>20 DEF Raise
  <2>3. v \in Vectors
    BY StartupAssumption
  <2>4. QED
    BY <1>2, <1>3, <1>16, <2>1, <2>2, <2>3, NewEvent, NoTrapFields
<1>21. QED
  BY <1>5, <1>6, <1>7, <1>8, <1>9, <1>10, <1>11, <1>12, <1>13, <1>17, <1>18, <1>19, <1>20
     DEF StartupNext, Main, Stopped

-----------------------------------------------------------------------------
(* The keyboard controller *)

BufferType == [full : BOOLEAN, byte : Byte]

\* The variables that ps2::init may change keep their types.
LEMMA StepType ==
    ASSUME TypeOK, Step
    PROVE  TypeOK'
<1>1. SPIN_BUDGET \in Nat /\ spins \in Nat /\ spins <= SPIN_BUDGET - 1 /\ SPIN_BUDGET >= 1
  <2>1. spins \in 0 .. (SPIN_BUDGET - 1)
    BY DEF TypeOK
  <2>2. QED
    BY <2>1, Ps2Assumption
<1>2. 0 \in 0 .. (SPIN_BUDGET - 1)
  BY <1>1
<1>3. \A again : Spin(again) => spins' \in 0 .. (SPIN_BUDGET - 1)
  BY <1>1 DEF Spin
<1>4. output \in BufferType /\ [output EXCEPT !.full = FALSE] \in BufferType
  BY DEF TypeOK, BufferType
<1>5. CASE Drain
  BY <1>2, <1>5 DEF Drain, TypeOK, chip
<1>6. CASE Discard
  <2>1. output' \in BufferType /\ spins' \in 0 .. (SPIN_BUDGET - 1)
    BY <1>3, <1>4, <1>6 DEF Discard
  <2>2. QED
    BY <1>6, <2>1 DEF Discard, TypeOK, chip, BufferType
<1>7. CASE \/ wait_writable("wait enable", "enable") \/ wait_writable("wait request", "request")
           \/ wait_readable("wait config", "take config") \/ wait_writable("wait command", "command")
           \/ wait_writable("wait data", "data")
  <2>1. spins' \in 0 .. (SPIN_BUDGET - 1)
    BY <1>2, <1>3, <1>7 DEF wait_writable, wait_readable, Wait
  <2>2. UNCHANGED <<config, chip, input, payload, output, latched, lost>>
    BY <1>7 DEF wait_writable, wait_readable, Wait
  <2>3. QED
    BY <2>1, <2>2 DEF TypeOK, chip
<1>8. ASSUME NEW label,
             NEW what \in {"enable port", "read config", "write config", "data"}, NEW next,
             Out(label, what, next)
      PROVE  TypeOK'
  <2>1. input' = what /\ UNCHANGED <<spins, config, chip, output, latched>>
    BY <1>8 DEF Out
  <2>2. lost' \in BOOLEAN
    BY <1>8 DEF Out
  <2>3. payload' \in Byte
    BY <1>8 DEF Out, TypeOK
  <2>4. QED
    BY <2>1, <2>2, <2>3 DEF TypeOK, chip
<1>9. CASE TakeConfig
  <2>1. output' \in BufferType
    BY <1>4, <1>9 DEF TakeConfig
  <2>2. config' \in Byte
    BY <1>9 DEF TakeConfig, Enabled, TypeOK, Byte
  <2>3. QED
    BY <1>9, <2>1, <2>2 DEF TakeConfig, TypeOK, chip, BufferType
<1>10. QED
  BY <1>5, <1>6, <1>7, <1>8, <1>9 DEF Step

LEMMA DeviceType ==
    ASSUME TypeOK, KeyPressed \/ Respond \/ Obey
    PROVE  TypeOK'
<1>1. CASE KeyPressed
  <2>1. output' \in BufferType
    BY <1>1 DEF KeyPressed, Fill, BufferType
  <2>2. keys' \in 0 .. MaxKeys
    <3>1. keys \in 0 .. MaxKeys /\ keys < MaxKeys /\ keys' = keys + 1
      BY <1>1 DEF KeyPressed, TypeOK
    <3>2. QED
      BY <3>1, Ps2Assumption
  <2>3. latched' \in BOOLEAN
    BY <1>1 DEF KeyPressed
  <2>4. QED
    BY <1>1, <2>1, <2>2, <2>3 DEF KeyPressed, TypeOK, software, BufferType
<1>2. CASE Respond
  <2>1. output' \in BufferType
    BY <1>2 DEF Respond, Fill, BufferType, TypeOK
  <2>2. latched' \in BOOLEAN /\ owes' \in BOOLEAN
    BY <1>2 DEF Respond
  <2>3. QED
    BY <1>2, <2>1, <2>2 DEF Respond, TypeOK, software, BufferType
<1>3. CASE Obey
  <2>1. cfg' \in Byte
    <3>1. [cfg EXCEPT !.off = FALSE] \in Byte /\ payload \in Byte /\ cfg \in Byte
      BY DEF TypeOK, Byte
    <3>2. QED
      BY <1>3, <3>1 DEF Obey
  <2>2. latched' \in BOOLEAN /\ owes' \in BOOLEAN /\ awaits' \in BOOLEAN
    BY <1>3 DEF Obey
  <2>3. QED
    BY <1>3, <2>1, <2>2 DEF Obey, TypeOK, software
<1>4. QED
  BY <1>1, <1>2, <1>3

\* ps2::init keeps up its part of the exchange.
LEMMA StepHandshake ==
    ASSUME TypeOK, Handshake, ByteNoticed, Step, trap' = trap
    PROVE  Handshake' /\ ByteNoticed'
<1>1. config \in Byte /\ output \in BufferType
  BY DEF TypeOK, BufferType
<1>2. ASSUME NEW label \in {"wait enable", "wait request", "wait config", "wait command", "wait data"},
             pc = label, UNCHANGED <<config, chip, input, payload, output, latched, lost>>,
             \/ pc' \in {label, "timeout"}
             \/ label = "wait enable" /\ pc' = "enable" /\ input = "empty"
             \/ label = "wait request" /\ pc' = "request" /\ input = "empty"
             \/ label = "wait config" /\ pc' = "take config"
             \/ label = "wait command" /\ pc' = "command" /\ input = "empty"
             \/ label = "wait data" /\ pc' = "data" /\ input = "empty"
      PROVE  Handshake' /\ ByteNoticed'
  <2>1. Handshake'
    BY <1>2 DEF Handshake, chip
  <2>2. ByteNoticed'
    BY <1>2 DEF ByteNoticed, chip
  <2>3. QED
    BY <2>1, <2>2
<1>3. CASE Drain
  <2>1. /\ pc = "drain" /\ UNCHANGED <<config, chip, input, payload, output, latched, lost>>
        /\ (pc' = "wait enable" /\ ~output.full) \/ pc' = "discard"
    BY <1>3 DEF Drain, OutputFull
  <2>2. Handshake'
    BY <2>1 DEF Handshake, chip
  <2>3. ByteNoticed'
    BY <2>1 DEF ByteNoticed
  <2>4. QED
    BY <2>2, <2>3
<1>4. CASE Discard
  <2>1. pc' \in {"drain", "timeout"} /\ UNCHANGED <<config, chip, input, payload, latched, lost>>
    BY <1>4 DEF Discard, Spin
  <2>2. Handshake'
    BY <2>1 DEF Handshake, chip
  <2>3. ByteNoticed'
    BY <2>1 DEF ByteNoticed
  <2>4. QED
    BY <2>2, <2>3
<1>5. ASSUME NEW label, NEW next, wait_writable(label, next)
      PROVE  /\ pc = label /\ UNCHANGED <<config, chip, input, payload, output, latched, lost>>
             /\ pc' \in {label, "timeout"} \/ (pc' = next /\ input = "empty")
  BY <1>5 DEF wait_writable, Wait, Spin, InputFull
<1>6. CASE wait_writable("wait enable", "enable")
  BY <1>2, <1>5, <1>6
<1>7. CASE wait_writable("wait request", "request")
  BY <1>2, <1>5, <1>7
<1>8. CASE wait_readable("wait config", "take config")
  <2>1. /\ pc = "wait config" /\ UNCHANGED <<config, chip, input, payload, output, latched, lost>>
        /\ pc' \in {"wait config", "timeout"} \/ pc' = "take config"
    BY <1>8 DEF wait_readable, Wait, Spin
  <2>2. QED
    BY <1>2, <2>1
<1>9. CASE wait_writable("wait command", "command")
  BY <1>2, <1>5, <1>9
<1>10. CASE wait_writable("wait data", "data")
  BY <1>2, <1>5, <1>10
<1>11. CASE TakeConfig
  <2>1. /\ pc' = "wait command" /\ config' = Enabled(output.byte) /\ ~output'.full
        /\ UNCHANGED <<spins, chip, input, payload, latched, lost>>
    BY <1>1, <1>11 DEF TakeConfig, BufferType
  <2>2. config'.irq1 /\ ~config'.off
    BY <1>1, <2>1 DEF Enabled, BufferType, Byte
  <2>3. Handshake'
    BY <2>1, <2>2 DEF Handshake, chip
  <2>4. ByteNoticed'
    BY <2>1 DEF ByteNoticed
  <2>5. QED
    BY <2>3, <2>4
<1>12. ASSUME NEW label \in {"enable", "request", "command", "data"}, NEW what, NEW next,
              Out(label, what, next)
       PROVE  /\ pc = label /\ pc' = next /\ input' = what /\ ~lost'
              /\ payload' = (IF what = "data" THEN config ELSE payload)
              /\ UNCHANGED <<spins, config, chip, output, latched>>
  <2>1. pc = label /\ input = "empty" /\ ~lost
    BY <1>12 DEF Out, Handshake
  <2>2. lost' = (lost \/ input # "empty")
    BY <1>12 DEF Out
  <2>3. ~lost'
    BY <2>1, <2>2
  <2>4. QED
    BY <1>12, <2>1, <2>3 DEF Out
<1>13. CASE Out("enable", "enable port", "wait request")
  <2>1. /\ pc = "enable" /\ pc' = "wait request" /\ input' = "enable port" /\ ~lost'
        /\ UNCHANGED <<config, chip, output, latched>>
    BY <1>12, <1>13
  <2>2. QED
    BY <2>1 DEF Handshake, ByteNoticed, chip
<1>14. CASE Out("request", "read config", "wait config")
  <2>1. /\ pc = "request" /\ pc' = "wait config" /\ input' = "read config" /\ ~lost'
        /\ UNCHANGED <<config, chip, output, latched>>
    BY <1>12, <1>14
  <2>2. QED
    BY <2>1 DEF Handshake, ByteNoticed, chip
<1>15. CASE Out("command", "write config", "wait data")
  <2>1. /\ pc = "command" /\ pc' = "wait data" /\ input' = "write config" /\ ~lost'
        /\ UNCHANGED <<config, chip, output, latched>>
    BY <1>12, <1>15
  <2>2. QED
    BY <2>1 DEF Handshake, ByteNoticed, chip
<1>16. CASE Out("data", "data", "done")
  <2>1. /\ pc = "data" /\ pc' = "done" /\ input' = "data" /\ ~lost' /\ payload' = config
        /\ UNCHANGED <<config, chip, output, latched>>
    BY <1>12, <1>16
  <2>2. awaits' /\ payload'.irq1 /\ ~payload'.off
    BY <2>1 DEF Handshake, chip
  <2>3. QED
    BY <2>1, <2>2 DEF Handshake, ByteNoticed, chip
<1>17. QED
  BY <1>3, <1>4, <1>6, <1>7, <1>8, <1>9, <1>10, <1>11, <1>13, <1>14, <1>15, <1>16 DEF Step

\* So does the controller, which takes the configuration only when it has
\* been told to expect it.
LEMMA DeviceHandshake ==
    ASSUME TypeOK, Handshake, ByteNoticed, KeyPressed \/ Respond \/ Obey, trap' = trap
    PROVE  Handshake' /\ ByteNoticed'
<1>1. CASE KeyPressed
  <2>1. /\ UNCHANGED <<pc, config, cfg, awaits, input, payload, lost>>
        /\ latched' = (latched \/ cfg.irq1)
    BY <1>1 DEF KeyPressed, software
  <2>2. QED
    BY <2>1 DEF Handshake, ByteNoticed
<1>2. CASE Respond
  <2>1. /\ UNCHANGED <<pc, config, cfg, awaits, input, payload, lost>>
        /\ latched' = (latched \/ cfg.irq1)
    BY <1>2 DEF Respond, software
  <2>2. QED
    BY <2>1 DEF Handshake, ByteNoticed
<1>3. CASE Obey
  <2>1. /\ UNCHANGED <<pc, config, payload, output, lost>> /\ input # "empty" /\ input' = "empty"
        /\ awaits' = (input = "write config")
        /\ latched' = (latched \/ (cfg'.irq1 /\ ~cfg.irq1 /\ output.full))
        /\ input = "data" /\ awaits => cfg' = payload
    BY <1>3 DEF Obey, software
  <2>2. Handshake'
    BY <2>1 DEF Handshake
  <2>3. ByteNoticed'
    BY <2>1 DEF ByteNoticed
  <2>4. QED
    BY <2>2, <2>3
<1>4. QED
  BY <1>1, <1>2, <1>3

\* A keyboard interrupt stays one until its own handler is through.
LEMMA KeyboardTrapStays ==
    ASSUME ControlOK, TablesOK, TrapInv, StartupNext \/ UNCHANGED all, ~IrqHandler,
           trap.source = "keyboard"
    PROVE  trap'.source = "keyboard"
<1>1. trap # NoTrap /\ trap \in TrapRecord
  BY NoTrapFields DEF TrapInv, TrapType, TrapRecord
<1>2. \A call : ~Running(call)
  BY <1>1 DEF Running
<1>3. ~Main
  BY <1>1, <1>2 DEF Main, Announce, GdtInit, IdtInit, PicInit, PitInit, Ps2Init, Selftest, Screen, MemoryUp,
     MemoryFails, EnableInterrupts
<1>4. ~Interrupt(0) /\ ~Interrupt(1) /\ ~Spurious /\ ~Raise
  BY <1>1 DEF Interrupt, Spurious, Served, Raise
<1>5. CASE Exceptions
  <2>1. CASE Enter
    BY <1>1, <2>1 DEF Enter, TrapRecord
  <2>2. CASE Pile
    BY <1>1, <2>2 DEF Pile, TrapRecord
  <2>3. ~breakpoint_handler
    <3>1. trap.vector = KEYBOARD_VECTOR
      <4>1. "keyboard" \in DOMAIN CauseOf /\ CauseOf["keyboard"] = KEYBOARD_VECTOR
        BY DEF CauseOf
      <4>2. QED
        BY <4>1 DEF TrapInv, TrapOK
    <3>2. SUFFICES ASSUME breakpoint_handler PROVE FALSE
      OBVIOUS
    <3>3. trap.at = "breakpoint" /\ trap.at \in Handlers
      BY <3>2 DEF breakpoint_handler, Handling, Handlers
    <3>4. trap.at = Owner(KEYBOARD_VECTOR)
      BY <3>1, <3>3 DEF TrapInv, TrapOK
    <3>5. QED
      BY <3>3, <3>4, OwnerOf
  <2>4. CASE report_fault
    BY <2>4 DEF report_fault
  <2>5. QED
    BY <1>5, <2>1, <2>2, <2>3, <2>4 DEF Exceptions, Deliver
<1>6. CASE TimerEdge \/ Devices \/ UNCHANGED all
  BY <1>6 DEF TimerEdge, Devices, all, trapped
<1>7. QED
  BY <1>3, <1>4, <1>5, <1>6 DEF StartupNext, Stopped

\* The keyboard's handler reads the byte that the interrupt was about.
LEMMA KeyboardIsRead ==
    ASSUME TypeOK, ControlOK, TablesOK, TrapInv, IrqHandler
    PROVE  /\ TypeOK' /\ UNCHANGED <<software, chip, input, payload, latched, lost>>
           /\ output' = output \/ ~output'.full
           /\ trap.source = "keyboard" => ~output'.full
<1>1. /\ output' = (IF trap.at = "keyboard" THEN [output EXCEPT !.full = FALSE] ELSE output)
      /\ trap.at \in {"timer", "keyboard", "unhandled_irq"}
      /\ UNCHANGED <<software, chip, input, payload, latched, lost>>
  BY DEF IrqHandler, Handling
<1>2. output \in BufferType
  BY DEF TypeOK, BufferType
<1>3. trap.at = "keyboard" => output' \in BufferType /\ ~output'.full
  BY <1>1, <1>2 DEF BufferType
<1>4. trap.source = "keyboard" => trap.at = "keyboard"
  <2>1. "keyboard" \in DOMAIN CauseOf /\ CauseOf["keyboard"] = KEYBOARD_VECTOR
    BY DEF CauseOf
  <2>2. trap.at \in Handlers
    BY <1>1 DEF Handlers
  <2>3. trap.source = "keyboard" => trap.at = Owner(KEYBOARD_VECTOR)
    BY <2>1, <2>2 DEF TrapInv, TrapOK
  <2>4. QED
    BY <2>3, OwnerOf
<1>5. output' \in BufferType
  BY <1>1, <1>2, <1>3
<1>6. TypeOK'
  BY <1>1, <1>5 DEF TypeOK, BufferType, software, chip
<1>7. QED
  BY <1>1, <1>3, <1>4, <1>6

LEMMA NextKeepsKeyboard ==
    ASSUME TypeOK, ControlOK, TablesOK, TrapInv, KeyboardOK, StartupNext \/ UNCHANGED all
    PROVE  TypeOK' /\ KeyboardOK'
<1>1. phase \in 1 .. 10 /\ phase' \in 1 .. 10 /\ phase <= phase'
  BY Progress
<1>2. InItsTurn /\ Handshake /\ ByteNoticed
  BY DEF KeyboardOK
<1>3. CASE Ps2Init
  <2>1. phase = 5 /\ step = 1 /\ Step /\ trap' = trap
    BY <1>3, RunningAt, OrderFacts DEF Ps2Init, trapped, ControlOK
  <2>2. IF pc' \in {"done", "timeout"} THEN phase' = 6 ELSE phase' = 5
    BY <1>3, <2>1 DEF Ps2Init, Advance, control
  <2>3. InItsTurn'
    BY <2>2 DEF InItsTurn
  <2>4. QED
    BY <1>2, <2>1, <2>3, StepType, StepHandshake DEF KeyboardOK
<1>4. CASE ~Ps2Init
  <2>1. phase' > 5 => phase > 5
    <3>1. ASSUME NEW p \in (1 .. 9) \ {5}, Moves(p)
          PROVE  phase' > 5 => phase > 5
      BY <3>1 DEF Moves, Advance
    <3>2. CASE \E p \in 5 .. 9 : Moves(p)
      <4>1. CASE Main
        <5>1. CASE Selftest \/ Screen \/ MemoryUp \/ MemoryFails \/ EnableInterrupts
          <6>1. phase > 5
            BY <5>1, RunningAt DEF Selftest, Screen, MemoryUp, MemoryFails, EnableInterrupts
          <6>2. QED
            BY <6>1
        <5>2. CASE Announce
          BY <1>1, <5>2 DEF Announce
        <5>3. CASE GdtInit \/ IdtInit \/ PicInit \/ PitInit
          <6>1. phase < 5
            BY <5>3, RunningAt DEF GdtInit, IdtInit, PicInit, PitInit
          <6>2. QED
            BY <1>1, <3>2, <6>1 DEF Moves
        <5>4. QED
          BY <1>4, <4>1, <5>1, <5>2, <5>3 DEF Main
      <4>2. CASE ~Main
        <5>1. UNCHANGED control
          BY <4>2 DEF StartupNext, Exceptions, IrqHandler, Interrupt, Spurious, Served, Raise, TimerEdge,
             Devices, Stopped, all, setup
        <5>2. QED
          BY <5>1 DEF control
      <4>3. QED
        BY <4>1, <4>2
    <3>3. CASE UNCHANGED control \/ Announced
      BY <3>3 DEF control, Announced
    <3>4. QED
      BY <3>1, <3>2, <3>3, StepKinds
  <2>2. pc' = pc => InItsTurn'
    BY <1>1, <1>2, <2>1 DEF InItsTurn
  <2>3. CASE Devices
    <3>1. (KeyPressed \/ Respond \/ Obey) /\ trap' = trap
      BY <2>3 DEF Devices, trapped
    <3>2. pc' = pc
      BY <3>1 DEF KeyPressed, Respond, Obey, software
    <3>3. QED
      BY <1>2, <2>2, <3>1, <3>2, DeviceType, DeviceHandshake DEF KeyboardOK
  <2>4. CASE PicInit
    <3>1. /\ phase = 3 /\ UNCHANGED <<software, chip, input, payload, output, lost>>
          /\ latched' \in BOOLEAN /\ trap' = trap
      BY <2>4, RunningAt DEF PicInit, trapped
    <3>2. pc = "drain" /\ pc' = pc
      BY <1>2, <3>1 DEF InItsTurn, software
    <3>3. TypeOK'
      BY <3>1 DEF TypeOK, software, chip
    <3>4. Handshake' /\ ByteNoticed'
      BY <1>2, <3>1, <3>2 DEF Handshake, ByteNoticed, software, chip
    <3>5. QED
      BY <2>2, <3>2, <3>3, <3>4 DEF KeyboardOK
  <2>5. CASE IrqHandler
    <3>1. /\ TypeOK' /\ UNCHANGED <<software, chip, input, payload, latched, lost>>
          /\ output' = output \/ ~output'.full
          /\ trap.source = "keyboard" => ~output'.full
      BY <2>5, KeyboardIsRead
    <3>2. Handshake' /\ ByteNoticed' /\ pc' = pc
      BY <1>2, <3>1 DEF Handshake, ByteNoticed, software, chip
    <3>3. QED
      BY <2>2, <3>1, <3>2 DEF KeyboardOK
  <2>6. ASSUME NEW line \in {0, 1}, Interrupt(line)
        PROVE  TypeOK' /\ KeyboardOK'
    <3>1. /\ UNCHANGED <<software, chip, input, payload, output, lost>> /\ trap = NoTrap
          /\ latched' = (latched /\ line # 1)
          /\ line = 1 => trap'.source = "keyboard"
      BY <2>6 DEF Interrupt, Served, Event
    <3>2. TypeOK'
      BY <3>1 DEF TypeOK, software, chip
    <3>3. Handshake' /\ pc' = pc
      BY <1>2, <3>1 DEF Handshake, software, chip
    <3>4. ByteNoticed'
      BY <1>2, <3>1, NoTrapFields DEF ByteNoticed, software, chip
    <3>5. QED
      BY <2>2, <3>2, <3>3, <3>4 DEF KeyboardOK
  <2>7. CASE ~Devices /\ ~PicInit /\ ~IrqHandler /\ ~Interrupt(0) /\ ~Interrupt(1)
    <3>1. UNCHANGED vars
      BY <1>4, <2>7 DEF StartupNext, Main, Announce, GdtInit, IdtInit, PitInit, Selftest, Screen, MemoryUp,
         MemoryFails, EnableInterrupts, Exceptions, Spurious, Served, Raise, TimerEdge, Stopped, all,
         vars
    <3>2. TypeOK'
      BY <3>1 DEF TypeOK, vars, software, chip
    <3>3. Handshake' /\ pc' = pc
      BY <1>2, <3>1 DEF Handshake, vars, software, chip
    <3>4. trap.source = "keyboard" => trap'.source = "keyboard"
      BY <2>7, KeyboardTrapStays
    <3>5. ByteNoticed'
      BY <1>2, <3>1, <3>4 DEF ByteNoticed, vars, software, chip
    <3>6. QED
      BY <2>2, <3>2, <3>3, <3>5 DEF KeyboardOK
  <2>8. QED
    BY <2>3, <2>4, <2>5, <2>6, <2>7
<1>5. QED
  BY <1>3, <1>4

-----------------------------------------------------------------------------
(* The invariant *)

LEMMA InitHolds ==
    ASSUME StartupInit
    PROVE  StartupInv
<1>1. phase = 1 /\ step = 0
  BY DEF StartupInit
<1>2. \A p \in 1 .. 9 : \A k \in 1 .. 10 : ~Past(p, k)
  BY <1>1 DEF Past
<1>3. TypeOK
  <2>1. NoByte \in Byte
    BY DEF NoByte, Byte
  <2>2. 0 \in 0 .. (SPIN_BUDGET - 1) /\ 0 \in 0 .. MaxKeys
    BY Ps2Assumption
  <2>3. output \in [full : BOOLEAN, byte : Byte]
    BY <2>1 DEF StartupInit, Init
  <2>4. QED
    BY <2>1, <2>2, <2>3 DEF StartupInit, Init, TypeOK
<1>4. ControlOK
  BY <1>1, OrderFacts DEF ControlOK
<1>5. TablesOK
  <2>1. gdt \in [0 .. 4 -> SUBSET (0 .. 63)] /\ DOMAIN ist = 0 .. 6
    BY DEF StartupInit, TrapsInit, GDT_ENTRIES
  <2>2. /\ ~Past(1, 1) /\ ~Past(1, 2) /\ ~Past(1, 3) /\ ~Past(1, 4) /\ ~Past(1, 5) /\ ~Past(1, 6)
        /\ ~Past(2, 1) /\ ~Past(2, 2)
    BY <1>2
  <2>3. gdtr = "firmware" /\ idtr = "firmware" /\ idt = [v \in Vectors |-> Missing]
    BY DEF StartupInit, TrapsInit
  <2>4. QED
    BY <2>1, <2>2, <2>3 DEF TablesOK
<1>6. PicOK
  <2>1. pic \in [{"master", "slave"} -> Chip]
    BY DEF StartupInit, Chip
  <2>2. /\ ~Past(3, 1) /\ ~Past(3, 2) /\ ~Past(3, 3) /\ ~Past(3, 4) /\ ~Past(3, 5) /\ ~Past(3, 6)
        /\ ~Past(3, 7) /\ ~Past(3, 8) /\ ~Past(3, 9) /\ ~Past(3, 10)
    BY <1>2
  <2>3. QED
    BY <2>1, <2>2 DEF PicOK
<1>7. PitOK
  <2>1. pit \in [mode : Nat, next : {"low", "high"}, latch : Nat, reload : Nat]
    BY DEF StartupInit
  <2>2. ~Past(4, 1) /\ ~Past(4, 2) /\ ~Past(4, 3)
    BY <1>2
  <2>3. QED
    BY <2>1, <2>2 DEF PitOK
<1>8. iflag = FALSE /\ trap = NoTrap /\ report = NoReport /\ outcome = "running" /\ idtr = "firmware"
  BY DEF StartupInit, TrapsInit
<1>9. TrapType /\ MaskedUntilEnabled
  BY <1>8, NoTrapFields DEF TrapType, MaskedUntilEnabled
<1>10. TrapOK /\ ReportOK
  BY <1>8, NoTrapFields DEF TrapOK, ReportOK
<1>11. KeyboardOK
  BY <1>1 DEF StartupInit, Init, KeyboardOK, InItsTurn, Handshake, ByteNoticed
<1>12. QED
  BY <1>3, <1>4, <1>5, <1>6, <1>7, <1>9, <1>10, <1>11 DEF StartupInv

LEMMA NextHolds ==
    ASSUME StartupInv, [StartupNext]_all
    PROVE  StartupInv'
<1>1. /\ TypeOK /\ ControlOK /\ TablesOK /\ PicOK /\ PitOK /\ TrapInv /\ KeyboardOK
      /\ StartupNext \/ UNCHANGED all
  BY DEF StartupInv, TrapInv
<1>2. ControlOK'
  BY <1>1, Progress
<1>3. TablesOK'
  BY <1>1, NextKeepsTables
<1>4. PicOK'
  BY <1>1, NextKeepsPic
<1>5. PitOK'
  BY <1>1, NextKeepsPit
<1>6. TrapInv'
  BY <1>1, NextKeepsTrap
<1>7. TypeOK' /\ KeyboardOK'
  BY <1>1, NextKeepsKeyboard
<1>8. QED
  BY <1>2, <1>3, <1>4, <1>5, <1>6, <1>7 DEF StartupInv, TrapInv

LEMMA Invariance == StartupSpec => []StartupInv
<1>1. StartupInit => StartupInv
  BY InitHolds
<1>2. StartupInv /\ [StartupNext]_all => StartupInv'
  BY NextHolds
<1>3. QED
  BY <1>1, <1>2, PTL DEF StartupSpec

-----------------------------------------------------------------------------
(* What follows *)

\* ps2::init never writes to a controller that has not taken the last write,
\* however slow it is and whatever is typed meanwhile.
THEOREM WritesAreTaken == StartupSpec => []NoWriteLost
<1>1. StartupInv => NoWriteLost
  BY DEF StartupInv, KeyboardOK, Handshake, NoWriteLost
<1>2. QED
  BY <1>1, Invariance, PTL

\* A key pressed at any moment of start-up leaves a keyboard that interrupts:
\* the first port is on, and a byte that waits has been announced.
THEOREM KeyboardIsReady == StartupSpec => []KeyboardReady
<1>1. StartupInv => KeyboardReady
  BY DEF StartupInv, KeyboardOK, Handshake, ByteNoticed, KeyboardReady
<1>2. QED
  BY <1>1, Invariance, PTL

\* From lidt on no exception resets the machine or leaves the kernel: each
\* reaches a handler of idt.rs, by way of the double fault's own stack if the
\* stack in use is gone, wherever the linker put handlers, TSS and stack.
THEOREM NoFaultIsSilent == StartupSpec => []NoSilentReset
<1>1. StartupInv => NoSilentReset
  <2>1. SUFFICES ASSUME StartupInv, outcome \in {"reset", "firmware", "wild"}
                 PROVE  idtr = "firmware"
    BY DEF NoSilentReset
  <2>2. idtr \in {"kernel", "firmware"}
    BY <2>1 DEF StartupInv, TablesOK
  <2>3. idtr # "kernel"
    BY <2>1 DEF StartupInv, TrapOK
  <2>4. QED
    BY <2>2, <2>3
<1>2. QED
  BY <1>1, Invariance, PTL

\* A report names the exception that the running code raised, and the stack
\* it is printed from is a good one.
THEOREM FaultsAreNamed == StartupSpec => []FaultIsNamed
<1>1. ASSUME StartupInv, report # NoReport
      PROVE  /\ trap.source = "code"
             /\ report.handler = "double_fault" => report.rsp = "fault"
             /\ trap.cause \in {DE, UD, GP, PF} /\ report.rsp = "good" =>
                    Named[report.handler] = trap.cause
             /\ report.rsp # "bad"
  <2>1. /\ report = [handler |-> trap.at, rsp |-> trap.rsp]
        /\ trap.at \in DOMAIN Named /\ trap.source = "code"
    BY <1>1 DEF StartupInv, ReportOK
  <2>2. report.handler = trap.at /\ report.rsp = trap.rsp /\ trap.at \in Handlers
    BY <2>1 DEF Named, Handlers
  <2>3. /\ idtr = "kernel" /\ trap.at = Owner(trap.vector)
        /\ trap.rsp # "bad" /\ (trap.rsp = "fault" <=> trap.at = "double_fault")
        /\ trap.rsp = "good" => trap.vector = trap.cause \/ trap.cause \notin Gated
    BY <1>1, <2>1, <2>2 DEF StartupInv, TrapOK
  <2>4. ASSUME trap.cause \in {DE, UD, GP, PF}, trap.rsp = "good"
        PROVE  Named[trap.at] = trap.cause
    <3>1. trap.cause \in Gated
      BY <2>4 DEF Gated, Vectors, DE, UD, GP, PF, PIC1_OFFSET, PIC2_OFFSET
    <3>2. trap.at = Owner(trap.cause)
      BY <2>3, <2>4, <3>1
    <3>3. /\ Named["divide_error"] = DE /\ Named["invalid_opcode"] = UD
          /\ Named["general_protection"] = GP /\ Named["page_fault"] = PF
      BY DEF Named
    <3>4. QED
      BY <2>4, <3>2, <3>3, OwnerOf
  <2>5. QED
    BY <2>1, <2>2, <2>3, <2>4
<1>2. StartupInv => FaultIsNamed
  BY <1>1 DEF FaultIsNamed
<1>3. QED
  BY <1>2, Invariance, PTL

\* Interrupts wait for interrupts::enable, and each reaches the handler of
\* its own line.
THEOREM InterruptsFindTheirHandlers == StartupSpec => []IrqReachesItsHandler
<1>1. ASSUME StartupInv, trap.source \in {"timer", "keyboard", "spurious"}
      PROVE  /\ phase > Len(Order)
             /\ trap.at \in {"deliver", IF trap.source = "spurious" THEN "unhandled_irq"
                                        ELSE trap.source}
  <2>1. phase = 10
    BY <1>1 DEF StartupInv, MaskedUntilEnabled
  <2>2. idtr = "kernel"
    BY <1>1, <2>1 DEF StartupInv, TablesOK, Past
  <2>3. trap.source \in DOMAIN CauseOf /\ trap.source # "int3"
    BY <1>1 DEF CauseOf
  <2>4. trap.vector = CauseOf[trap.source] /\ trap.at # "firmware"
    BY <1>1, <2>2, <2>3 DEF StartupInv, TrapOK
  <2>5. trap.at \in {"deliver"} \cup Handlers
    <3>1. trap.at \in {"none", "deliver", "firmware"} \cup Handlers /\ trap.at # "none"
      BY <1>1, NoTrapFields DEF StartupInv, TrapType
    <3>2. QED
      BY <2>4, <3>1
  <2>6. trap.at \in Handlers => trap.at = Owner(trap.vector)
    BY <1>1 DEF StartupInv, TrapOK
  <2>7. QED
    BY <2>1, <2>3, <2>4, <2>5, <2>6, CausesHaveGates, OrderFacts
<1>2. StartupInv => IrqReachesItsHandler
  BY <1>1 DEF IrqReachesItsHandler
<1>3. QED
  BY <1>2, Invariance, PTL

\* When interrupts come on, the 8259s are initialised with two lines open and
\* the 8254 runs at the nearest rate that is not too slow, for every TIMER_HZ
\* that pit::init accepts.
THEOREM DevicesAreReady == StartupSpec => []DevicesReady
<1>1. ASSUME StartupInv, phase > Len(Order)
      PROVE  /\ pit.mode = 3 /\ pit.next = "low"
             /\ pit.reload * TIMER_HZ <= BASE_FREQUENCY
             /\ (pit.reload + 1) * TIMER_HZ > BASE_FREQUENCY
             /\ pic["master"].icw = 0 /\ pic["master"].mask = (0 .. 7) \ {0, 1}
             /\ pic["slave"].icw = 0 /\ pic["slave"].mask = 0 .. 7
  <2>1. phase = 10
    BY <1>1, OrderFacts DEF StartupInv, ControlOK
  <2>2. /\ Past(3, 7) /\ Past(3, 8) /\ Past(3, 9) /\ Past(3, 10) /\ Past(4, 1) /\ Past(4, 3)
    BY <2>1 DEF Past
  <2>3. /\ pit.mode = 3 /\ pit.next = "low"
        /\ pit.reload = (Divisor \div 256) * 256 + (Divisor % 256)
    BY <1>1, <2>2 DEF StartupInv, PitOK
  <2>4. pit.reload = Divisor
    BY <2>3, DivisorFits
  <2>5. Divisor * TIMER_HZ <= BASE_FREQUENCY /\ (Divisor + 1) * TIMER_HZ > BASE_FREQUENCY
    BY DivisorFits
  <2>6. /\ pic["master"].icw = 0 /\ pic["master"].mask = 2 .. 7
        /\ pic["slave"].icw = 0 /\ pic["slave"].mask = 0 .. 7
    BY <1>1, <2>2 DEF StartupInv, PicOK
  <2>7. 2 .. 7 = (0 .. 7) \ {0, 1}
    OBVIOUS
  <2>8. QED
    BY <2>3, <2>4, <2>5, <2>6, <2>7
<1>2. StartupInv => DevicesReady
  BY <1>1 DEF DevicesReady
<1>3. QED
  BY <1>2, Invariance, PTL
=============================================================================
