------------------------------ MODULE Harness ------------------------------
(***************************************************************************)
(* The test harness (xtask/src/main.rs): `cargo xtask run` and `test`, one *)
(* after the other, against a QEMU process and the guest in it, which are  *)
(* external, with the thread that types into the guest.  The harness polls: *)
(* each of its loops has a bound that stands for its timeout.              *)
(***************************************************************************)
EXTENDS Naturals

CONSTANTS
    Tries, Captures, Polls,     \* turns of the connect, capture and wait loops
    Sends,                      \* keys the injector sends, 40 in the code
    Runs                        \* bound: commands given

ASSUME HarnessAssumption ==
    /\ Tries \in Nat \ {0} /\ Captures \in Nat \ {0} /\ Polls \in Nat \ {0}
    /\ Sends \in Nat /\ Runs \in Nat

VARIABLES
    pc,             \* the step of the main thread that is next
    cmd,            \* "run" or "test"
    nokeys,         \* XTASK_NO_KEYS
    runs,           \* commands given so far
    rounds,         \* turns the current loop has made
    staged,         \* target/esp/kernel.elf: "none", "good", "bad"
    qemu,           \* "none", "running", "exited", "killed"
    code,           \* its exit code: 33, 35, 0 for any other, 1 for a signal
    guest,          \* "firmware", "painted", "listening"
    keyed,          \* the guest has received a key
    shot,           \* the capture file: "none", "partial", "other", "text", or
                    \* "stale": the text of an earlier command's guest
    dumps,          \* screendumps asked for and not begun
    writing,        \* what QEMU is writing: "nothing", "other", "text", or
                    \* "unlinked", to a file that has been removed meanwhile
    sends,          \* keys the injector has left to send
    report          \* what was printed at the end

world == <<qemu, code, guest, keyed>>
capture == <<shot, dumps, writing>>
given == <<cmd, nokeys, runs>>
vars  == <<pc, given, rounds, staged, world, capture, sends, report>>

Init ==
    /\ pc = "stage" /\ cmd \in {"run", "test"} /\ nokeys \in BOOLEAN /\ runs = 1
    /\ rounds = 0 /\ staged \in {"none", "good", "bad"}
    /\ qemu = "none" /\ code = 1 /\ guest = "firmware" /\ keyed = FALSE
    /\ shot \in {"none", "partial", "other", "stale"} /\ dumps = 0 /\ writing = "nothing"
    /\ sends = 0 /\ report = "none"

-----------------------------------------------------------------------------
(* The guest (external) *)

Exits(c) ==
    /\ qemu = "running" /\ qemu' = "exited" /\ code' = c
    /\ UNCHANGED <<pc, given, rounds, staged, guest, keyed, capture, sends, report>>

\* A failure is reported with 35; a triple fault ends QEMU, as -no-reboot
\* demands; a signal leaves no code.
GuestFails  == Exits(35)
GuestFaults == Exits(0) \/ Exits(1)

\* What becomes of a spoilt kernel is what test is to find out: nothing is
\* assumed of the loader here, which may reject it or miss it.
GuestRuns ==
    /\ qemu = "running"
    /\ \/ guest = "firmware" /\ guest' = "painted"
       \/ guest = "painted" /\ guest' = "listening"
    /\ UNCHANGED <<pc, given, rounds, staged, qemu, code, keyed, capture, sends, report>>

GuestSucceeds == guest = "listening" /\ keyed /\ Exits(33)

Guest == GuestFails \/ GuestFaults \/ GuestRuns \/ GuestSucceeds

\* QEMU writes one capture after the other, each in its own time: a file that
\* is read too early is short.
BeginDump ==
    /\ qemu = "running" /\ dumps > 0 /\ writing = "nothing" /\ dumps' = dumps - 1
    /\ shot' = "partial"
    /\ writing' = IF guest = "firmware" THEN "other" ELSE "text"
    /\ UNCHANGED <<pc, given, rounds, staged, world, sends, report>>

EndDump ==
    /\ qemu = "running" /\ writing # "nothing" /\ writing' = "nothing"
    /\ shot' = IF writing = "unlinked" THEN shot ELSE writing
    /\ UNCHANGED <<pc, given, rounds, staged, world, dumps, sends, report>>

\* The injector: a key is lost on a guest that is not up yet; a write to a
\* QEMU that is gone ends the thread.
InjectKey ==
    /\ sends > 0 /\ pc # "end"
    /\ sends' = IF qemu = "running" THEN sends - 1 ELSE 0
    /\ keyed' = (keyed \/ (qemu = "running" /\ guest # "firmware"))
    /\ UNCHANGED <<pc, given, rounds, staged, qemu, code, guest, capture, report>>

-----------------------------------------------------------------------------
(* The main thread *)

\* The command ends with a line of output.
End(r) == pc' = "end" /\ report' = r

\* build_and_stage, which rewrites the kernel in the ESP.  It may fail before
\* the copy, in the middle of it, or after it.
BuildAndStage ==
    /\ pc = "stage"
    /\ \/ End("build") /\ staged' \in {staged, "good", "bad"}
       \/ /\ pc' = IF cmd = "test" THEN "corrupt" ELSE "spawn"
          /\ staged' = "good" /\ UNCHANGED report
    /\ UNCHANGED <<given, rounds, world, capture, sends>>

\* test spoils the staged kernel; a write that fails may have spoilt it too.
Corrupt ==
    /\ pc = "corrupt"
    /\ \/ pc' = "spawn" /\ staged' = "bad" /\ UNCHANGED report
       \/ End("corrupt") /\ staged' \in {"good", "bad"}
    /\ UNCHANGED <<given, rounds, world, capture, sends>>

\* Where boot_qemu returns to: test restores the kernel before anything else.
Return_Direct(result) == End(result) /\ rounds' = 0

Return(result) ==
    /\ IF cmd = "test" THEN pc' = "restore" /\ report' = result ELSE End(result)
    /\ rounds' = 0

\* boot_qemu: start QEMU, with the injector for run only.
Spawn ==
    /\ pc = "spawn"
    /\ \/ /\ qemu' = "running" /\ pc' = IF cmd = "run" THEN "connect" ELSE "wait"
          /\ UNCHANGED <<rounds, report>>
       \/ Return("spawn") /\ UNCHANGED qemu
    /\ UNCHANGED <<given, staged, code, guest, keyed, capture, sends>>

\* inject_keystrokes failed: kill the child and wait for it.
Kill_Forgotten(result) == Return(result) /\ UNCHANGED qemu
Kill(result) ==
    /\ Return(result)
    /\ qemu' = IF qemu = "running" THEN "killed" ELSE qemu

Connect_Unbounded ==
    /\ pc = "connect"
    /\ \/ nokeys /\ pc' = "wait"
       \/ ~nokeys /\ qemu = "running" /\ pc' = "clear"
    /\ UNCHANGED <<given, rounds, staged, world, capture, sends, report>>

Connect ==
    /\ pc = "connect"
    /\ \/ nokeys /\ pc' = "wait" /\ rounds' = 0 /\ UNCHANGED <<qemu, report>>
       \/ /\ ~nokeys /\ qemu = "running"
          /\ pc' = "clear" /\ rounds' = 0 /\ UNCHANGED <<qemu, report>>
       \/ /\ ~nokeys /\ rounds < Tries
          /\ rounds' = rounds + 1 /\ UNCHANGED <<pc, qemu, report>>
       \/ ~nokeys /\ rounds = Tries /\ Kill("monitor")
    /\ UNCHANGED <<given, staged, code, guest, keyed, capture, sends>>

ClearShot_Kept ==
    /\ pc = "clear"
    /\ \/ pc' = "request" /\ UNCHANGED <<shot, writing, rounds, qemu, report>>
       \/ Kill("capture") /\ UNCHANGED <<shot, writing>>
    /\ UNCHANGED <<given, staged, code, guest, keyed, dumps, sends>>

\* Removing the file does not stop a screendump that is being written to it.
ClearShot ==
    /\ pc = "clear"
    /\ \/ /\ shot' = "none" /\ pc' = "request"
          /\ writing' = IF writing = "nothing" THEN writing ELSE "unlinked"
          /\ UNCHANGED <<rounds, qemu, report>>
       \/ Kill("capture") /\ UNCHANGED <<shot, writing>>
    /\ UNCHANGED <<given, staged, code, guest, keyed, dumps, sends>>

\* Ask for a screendump; the monitor of a QEMU that is gone cannot be written to.
RequestShot ==
    /\ pc = "request"
    /\ \/ /\ qemu = "running" /\ pc' = "check" /\ dumps' = dumps + 1
          /\ UNCHANGED <<rounds, qemu, report>>
       \/ qemu # "running" /\ Kill("monitor") /\ UNCHANGED dumps
    /\ UNCHANGED <<given, staged, code, guest, keyed, shot, writing, sends>>

\* check_screen_has_text: a whole capture, and the kernel's first glyph in it;
\* whose kernel's, the file does not say.
HasText == shot \in {"text", "stale"}

\* Type once the text is there; or try again until the deadline.
CheckShot ==
    /\ pc = "check"
    /\ \/ /\ HasText /\ pc' = "wait" /\ rounds' = 0 /\ sends' = Sends
          /\ UNCHANGED <<qemu, report>>
       \/ /\ ~HasText /\ rounds < Captures
          /\ pc' = "clear" /\ rounds' = rounds + 1 /\ UNCHANGED <<sends, qemu, report>>
       \/ ~HasText /\ rounds = Captures /\ Kill("capture") /\ UNCHANGED sends
    /\ UNCHANGED <<given, staged, code, guest, keyed, capture>>

\* Poll until QEMU has exited or the deadline has passed; a failing poll
\* returns at once.
Wait ==
    /\ pc = "wait"
    /\ \/ qemu = "exited" /\ Return("exit code") /\ UNCHANGED qemu
       \/ /\ qemu = "running" /\ rounds < Polls
          /\ rounds' = rounds + 1 /\ UNCHANGED <<pc, qemu, report>>
       \/ qemu = "running" /\ rounds = Polls /\ Kill("timeout")
       \/ Return("poll") /\ UNCHANGED qemu
    /\ UNCHANGED <<given, staged, code, guest, keyed, capture, sends>>

Restore ==
    /\ pc = "restore"
    /\ \/ staged' = "good" /\ End(report)
       \/ staged' \in {"good", "bad"} /\ End("restore")
    /\ UNCHANGED <<given, rounds, world, capture, sends>>

\* The verdict run and test give on an exit code.
Passes == /\ report = "exit code"
          /\ IF cmd = "run" THEN code = 33 /\ HasText ELSE code = 35

\* The next command, later.  Its capture file is named after its process id,
\* which may be one that was used before.
Again ==
    /\ pc = "end" /\ runs < Runs /\ runs' = runs + 1
    /\ pc' = "stage" /\ cmd' \in {"run", "test"} /\ nokeys' \in BOOLEAN
    /\ rounds' = 0 /\ sends' = 0 /\ report' = "none"
    /\ qemu' = "none" /\ code' = 1 /\ guest' = "firmware" /\ keyed' = FALSE
    /\ shot' \in {IF shot = "text" THEN "stale" ELSE shot, "none"}
    /\ dumps' = 0 /\ writing' = "nothing"
    /\ UNCHANGED staged

Finished == pc = "end" /\ runs = Runs /\ UNCHANGED vars

Step == \/ BuildAndStage \/ Corrupt \/ Spawn \/ Connect \/ ClearShot \/ RequestShot
        \/ CheckShot \/ Wait \/ Restore

Next == Step \/ Guest \/ BeginDump \/ EndDump \/ InjectKey \/ Again \/ Finished

Spec == Init /\ [][Next]_vars

\* The harness runs; the guest may hang at any point.
FairSpec == Spec /\ WF_vars(Step)

-----------------------------------------------------------------------------
(* Properties *)

\* The injector types only at a guest that has drawn its text, after ps2::init
\* has drained what came earlier: no short, early or stale capture starts it.
\* And run passes only with a capture of its own guest's screen, never with one
\* that an earlier command left under the same name, and only if it typed.
PassIsEarned ==
    /\ sends > 0 => guest # "firmware"
    /\ pc = "end" /\ cmd = "run" /\ Passes => shot = "text" /\ ~nokeys

\* test leaves the corrupted kernel staged only if it said that a write
\* failed ("a failed boot never leaves a corrupted image staged"), and run
\* never boots it, whatever an earlier command left behind.
ImageRestored ==
    /\ pc = "end" /\ staged = "bad" => report \in {"corrupt", "restore", "build"}
    /\ cmd = "run" /\ qemu = "running" => staged = "good"

\* No QEMU outlives its command, except where polling it failed.
NoOrphan == pc = "end" /\ qemu = "running" => report \in {"poll", "restore"}

\* Every command comes to an end, although the guest may hang.
HarnessEnds == pc = "stage" ~> pc = "end"

\* A guest that exits early is reported "right away" by its exit code.
ExitIsReported == pc = "end" /\ qemu = "exited" => report \notin {"monitor", "capture", "timeout"}
=============================================================================
