-------------------------------- MODULE Ps2 --------------------------------
(***************************************************************************)
(* ps2::init (kernel/src/ps2.rs) against an 8042 keyboard controller, which *)
(* is external: it takes commands out of its input buffer in its own time,  *)
(* and keys may be pressed at any moment.  One step of init is one port     *)
(* access.  Interrupts are masked, so a request is only latched.            *)
(***************************************************************************)
EXTENDS Naturals

CONSTANTS
    SPIN_BUDGET,        \* status reads each wait may spend
    MaxKeys             \* bound: keys pressed meanwhile

ASSUME Ps2Assumption == SPIN_BUDGET \in Nat \ {0} /\ MaxKeys \in Nat

\* A byte, as far as the configuration byte gives its bits a meaning: first
\* port interrupt, first port clock disabled, translation.  A scancode read
\* as a configuration byte may have any of them set.
Byte == [irq1 : BOOLEAN, off : BOOLEAN, translate : BOOLEAN]
NoByte == [irq1 |-> FALSE, off |-> FALSE, translate |-> FALSE]

VARIABLES
    pc,                 \* the step of init that is next, "done" or "timeout"
    spins,              \* iterations the current wait has used
    config,             \* init's local of that name
    present,            \* is there a controller?
    firmware,           \* the configuration the firmware left
    cfg,                \* the controller's configuration byte
    input,              \* its input buffer: "empty", a command or "data"
    payload,            \* the byte behind "data"
    awaits,             \* it has been told that data is a configuration
    owes,               \* it has been asked for its configuration
    output,             \* its output buffer: [full, byte]
    keys,               \* keys pressed so far
    latched,            \* the 8259 has seen IRQ1 rise
    lost                \* a write met a full input buffer

software == <<pc, spins, config>>
chip     == <<present, firmware, cfg, awaits, owes, keys>>
vars     == <<software, chip, input, payload, output, latched, lost>>

Init ==
    /\ pc = "drain" /\ spins = 0 /\ config = NoByte
    /\ present \in BOOLEAN
    /\ firmware \in Byte /\ cfg = firmware
    /\ input = "empty" /\ payload = NoByte /\ awaits = FALSE /\ owes = FALSE
    /\ output \in [full : BOOLEAN, byte : {NoByte}] /\ latched = FALSE
    /\ keys = 0 /\ lost = FALSE

-----------------------------------------------------------------------------
(* The controller (external) *)

Fill(byte) == ~output.full /\ output' = [full |-> TRUE, byte |-> byte]

KeyPressed ==
    /\ present /\ ~cfg.off /\ keys < MaxKeys /\ keys' = keys + 1
    /\ \E b \in Byte : Fill(b)
    /\ latched' = (latched \/ cfg.irq1)
    /\ UNCHANGED <<software, present, firmware, cfg, awaits, owes, input, payload, lost>>

Respond ==
    /\ owes /\ owes' = FALSE
    /\ Fill(cfg)
    /\ latched' = (latched \/ cfg.irq1)
    /\ UNCHANGED <<software, present, firmware, cfg, awaits, keys, input, payload, lost>>

\* Enabling the interrupt while a byte waits raises it.
Obey ==
    /\ input # "empty" /\ input' = "empty"
    /\ cfg' = CASE input = "enable port"       -> [cfg EXCEPT !.off = FALSE]
                [] input = "data" /\ awaits    -> payload
                [] OTHER                       -> cfg
    /\ owes' = (owes \/ input = "read config")
    /\ awaits' = (input = "write config")
    /\ latched' = (latched \/ (cfg'.irq1 /\ ~cfg.irq1 /\ output.full))
    /\ UNCHANGED <<software, present, firmware, keys, payload, output, lost>>

-----------------------------------------------------------------------------
(* ps2::init *)

\* The status port; 0xFF, both bits set, where nothing answers.
OutputFull == ~present \/ output.full
InputFull  == ~present \/ input # "empty"

\* One more turn of a loop that stops when its budget is spent.

Spin_Uncounted(again) == pc' = again /\ UNCHANGED spins

Spin(again) ==
    IF spins + 1 = SPIN_BUDGET THEN pc' = "timeout" /\ UNCHANGED spins
                               ELSE pc' = again /\ spins' = spins + 1

Drain ==
    /\ pc = "drain"
    /\ \/ ~OutputFull /\ pc' = "wait enable" /\ spins' = 0
       \/ OutputFull /\ pc' = "discard" /\ UNCHANGED spins
    /\ UNCHANGED <<config, chip, input, payload, output, latched, lost>>

Discard ==
    /\ pc = "discard" /\ Spin("drain")
    /\ output' = [output EXCEPT !.full = FALSE]
    /\ UNCHANGED <<config, chip, input, payload, latched, lost>>

Wait(label, ready, next) ==
    /\ pc = label
    /\ \/ ready /\ pc' = next /\ spins' = 0
       \/ ~ready /\ Spin(label)
    /\ UNCHANGED <<config, chip, input, payload, output, latched, lost>>

wait_writable_Unchecked(label, next) == Wait(label, TRUE, next)
wait_writable(label, next) == Wait(label, ~InputFull, next)
wait_readable(label, next) == Wait(label, OutputFull, next)

\* outb to the command or the data port.
Out(label, what, next) ==
    /\ pc = label /\ pc' = next
    /\ input' = what /\ lost' = (lost \/ input # "empty")
    /\ payload' = IF what = "data" THEN config ELSE payload
    /\ UNCHANGED <<spins, config, chip, output, latched>>

\* The bits init changes in the byte it read: interrupt on, clock enabled.
Enabled(byte) == [byte EXCEPT !.irq1 = TRUE, !.off = FALSE]

TakeConfig ==
    /\ pc = "take config" /\ pc' = "wait command"
    /\ config' = Enabled(output.byte)
    /\ output' = [output EXCEPT !.full = FALSE]
    /\ UNCHANGED <<spins, chip, input, payload, latched, lost>>

Step ==
    \/ Drain \/ Discard
    \/ wait_writable("wait enable", "enable")   \/ Out("enable", "enable port", "wait request")
    \/ wait_writable("wait request", "request") \/ Out("request", "read config", "wait config")
    \/ wait_readable("wait config", "take config") \/ TakeConfig
    \/ wait_writable("wait command", "command") \/ Out("command", "write config", "wait data")
    \/ wait_writable("wait data", "data")       \/ Out("data", "data", "done")

Returned == pc \in {"done", "timeout"} /\ UNCHANGED vars

Next == Step \/ KeyPressed \/ Respond \/ Obey \/ Returned

Spec == Init /\ [][Next]_vars

-----------------------------------------------------------------------------
(* Properties *)

\* The type invariant; no wait of init outlives its budget.
TypeOK ==
    /\ spins \in 0 .. (SPIN_BUDGET - 1)
    /\ config \in Byte /\ firmware \in Byte /\ cfg \in Byte /\ payload \in Byte
    /\ present \in BOOLEAN /\ awaits \in BOOLEAN /\ owes \in BOOLEAN
    /\ latched \in BOOLEAN /\ lost \in BOOLEAN
    /\ input \in {"empty", "enable port", "read config", "write config", "data"}
    /\ output \in [full : BOOLEAN, byte : Byte] /\ keys \in 0 .. MaxKeys

\* init never writes to a controller that has not consumed the last write.
NoWriteLost == ~lost

\* init writes the configuration byte back "leaving the translation bit as
\* firmware set it" (docs/running.md).
TranslationKept == pc = "done" /\ input = "empty" => cfg.translate = firmware.translate
=============================================================================
