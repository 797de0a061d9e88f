------------------------------- MODULE Serial -------------------------------
(***************************************************************************)
(* What the kernel prints, and where it shows up: serial::init, write_str   *)
(* and write_byte (kernel/src/serial.rs) over a 16550 UART and the terminal *)
(* behind it, which are external, and over the screen of Console.  A byte   *)
(* goes to the UART as soon as that has room, and then to the screen.       *)
(***************************************************************************)
EXTENDS Console

CONSTANTS
    Uarts,              \* how the firmware may leave the UART
    MaxBytes,           \* bound: characters printed
    MaxEarly            \* bound: characters printed before the screen is painted

ASSUME SerialAssumption ==
    /\ Uarts \subseteq [present : BOOLEAN, dlab : BOOLEAN, low : 0 .. 255, high : 0 .. 255,
                        ier : 0 .. 255, lcr : 0 .. 127]
    /\ MaxBytes \in Nat /\ MaxEarly \in 0 .. MaxBytes

VARIABLES
    uart,               \* its registers, with dlab apart from the rest of lcr
    thr,                \* its transmit holding register: at most one byte
    term,               \* the terminal: its lines, and the column of its cursor
    boot,               \* the write of serial::init that is next
    out,                \* the bytes write_str still has to write
    said,               \* history: what was printed, cut at line feeds
    printed             \* how many characters that was

wire == <<uart, thr, term>>
printing == <<screen, wire, boot, out, said, printed>>

PrintInit ==
    /\ ConsoleInit
    /\ uart \in Uarts /\ thr = <<>>
    /\ term = [lines |-> <<<<>>>>, column |-> 0]
    /\ boot = 1 /\ out = <<>> /\ said = <<<<>>>> /\ printed = 0

-----------------------------------------------------------------------------
(* The UART and the terminal (external) *)

\* Two registers mean the baud divisor while dlab is set.
Write(port, value) ==
    CASE port = "LINE_CONTROL" -> [uart EXCEPT !.dlab = value >= 128, !.lcr = value % 128]
      [] port = "DATA" /\ uart.dlab -> [uart EXCEPT !.low = value]
      [] port = "INTERRUPT_ENABLE" /\ uart.dlab -> [uart EXCEPT !.high = value]
      [] port = "INTERRUPT_ENABLE" /\ ~uart.dlab -> [uart EXCEPT !.ier = value]
      [] OTHER -> uart

\* The terminal is set to 38400 baud, 8N1; a byte at any other setting is
\* received as another one.
Received(byte) == IF uart.high * 256 + uart.low = 3 /\ uart.lcr = 3 THEN byte ELSE "?"

\* A line feed moves the cursor down, a carriage return to the left.
Shown(t, byte) ==
    LET n == Len(t.lines)
    IN  CASE byte = "\r" -> [t EXCEPT !.column = 0]
          [] byte = "\n" -> [t EXCEPT !.lines = Append(@, [i \in 1 .. t.column |-> " "])]
          [] OTHER -> [lines |-> [t.lines EXCEPT ![n] = Append(SubSeq(@, 1, t.column), byte)],
                       column |-> t.column + 1]

Transmit ==
    /\ thr # <<>> /\ thr' = <<>>
    /\ term' = Shown(term, Received(thr[1]))
    /\ UNCHANGED <<screen, uart, boot, out, said, printed>>

-----------------------------------------------------------------------------
(* serial.rs *)

\* The writes of serial::init.
InitWrites_HalfDivisor ==
    << <<"INTERRUPT_ENABLE", 0>>, <<"LINE_CONTROL", 128>>, <<"DATA", 3>>,
       <<"LINE_CONTROL", 3>>, <<"INTERRUPT_ENABLE", 0>>,
       <<"FIFO_CONTROL", 199>>, <<"MODEM_CONTROL", 11>> >>
InitWrites ==
    << <<"INTERRUPT_ENABLE", 0>>, <<"LINE_CONTROL", 128>>, <<"DATA", 3>>,
       <<"INTERRUPT_ENABLE", 0>>, <<"LINE_CONTROL", 3>>,
       <<"FIFO_CONTROL", 199>>, <<"MODEM_CONTROL", 11>> >>

Booted == boot > Len(InitWrites)

SerialInit ==
    /\ ~Booted /\ boot' = boot + 1
    /\ uart' = Write(InitWrites[boot][1], InitWrites[boot][2])
    /\ UNCHANGED <<screen, thr, term, out, said, printed>>

\* write_str: a carriage return goes before every line feed.
Cooked(char) == IF char = "\n" THEN <<"\r", "\n">> ELSE <<char>>

\* The next character of a kprintln, before the screen is painted or when
\* it has been set up.
Say ==
    /\ Booted /\ out = <<>> /\ pc # "init"
    /\ printed < IF pc = "paint" THEN MaxEarly ELSE MaxBytes
    /\ \E char \in DOMAIN Glyph \cup {"\n"} :
          /\ out' = Cooked(char)
          /\ said' = IF char = "\n" THEN Append(said, <<>>)
                     ELSE [said EXCEPT ![Len(said)] = Append(@, char)]
    /\ printed' = printed + 1
    /\ UNCHANGED <<screen, wire, boot>>

\* The line status register reads 0xFF where there is no UART.
Ready_WrongBit == ~uart.present
Ready == ~uart.present \/ thr = <<>>

\* write_byte, when it is done spinning; and the same byte to the screen.
Written == out # <<>> /\ Ready /\ out' = Tail(out)

WriteByte ==
    /\ Written
    /\ thr' = IF uart.present THEN <<Head(out)>> ELSE <<>>
    /\ write_byte(Head(out))
    /\ UNCHANGED <<fb, pc, uart, term, boot, said, printed>>

\* kernel_main goes on between two prints.
Paint ==
    /\ Booted /\ out = <<>>
    /\ fill_screen \/ InitConsole
    /\ UNCHANGED <<wire, boot, out, said, printed>>

\* A bounded text ends.
Silent == printed = MaxBytes /\ out = <<>> /\ thr = <<>> /\ pc \notin {"paint", "init"}
          /\ UNCHANGED printing

PrintNext == SerialInit \/ Say \/ WriteByte \/ Transmit \/ Paint \/ Silent

PrintSpec == PrintInit /\ [][PrintNext]_printing

\* The CPU runs, and the UART sends what it has been given: write_byte has
\* no other bound.  (Only WriteByte shortens out.)
FairPrint == PrintSpec /\ WF_out(Written) /\ WF_thr(thr # <<>> /\ thr' = <<>>)

-----------------------------------------------------------------------------
(* Properties *)

\* What the terminal shows when nothing is on its way is what the kernel
\* printed, every line from the left margin, whatever state the firmware
\* left the UART in: no byte is lost to a full register, garbled by half a
\* divisor or put out of place by a bare line feed (serial.rs).
TerminalShowsText ==
    uart.present /\ out = <<>> /\ thr = <<>> => term.lines = said

\* Every print ends: the spin in write_byte waits for a register that the
\* UART does empty, and does not wait at all where there is no UART.
PrintEnds == (out # <<>>) ~> (out = <<>>)
=============================================================================
