--------------------------- MODULE HarnessProofs ---------------------------
(***************************************************************************)
(* Proofs about the test harness, for every number of turns its loops may  *)
(* make, of keys its injector may send and of commands given one after the *)
(* other.                                                                  *)
(***************************************************************************)
EXTENDS Harness, TLAPS

\* The steps of each command.  Only run connects to the monitor and captures
\* the screen; only test corrupts and restores the kernel.
Before == {"stage", "corrupt", "spawn"}
During == {"connect", "clear", "request", "check", "wait"}

TypeOK ==
    /\ pc \in Before \cup During \cup {"restore", "end"}
    /\ cmd \in {"run", "test"}
    /\ nokeys \in BOOLEAN /\ keyed \in BOOLEAN
    /\ staged \in {"none", "good", "bad"}
    /\ qemu \in {"none", "running", "exited", "killed"}
    /\ sends \in Nat
    /\ writing \in {"nothing", "other", "text", "unlinked"}

\* A command starts with a guest of its own, which has got nothing yet.
Fresh ==
    pc \in Before => qemu = "none" /\ guest = "firmware" /\ ~keyed /\ code # 33 /\ sends = 0

\* Which of its steps a command takes.
StepsOfCommand ==
    /\ cmd = "run"  => pc \notin {"corrupt", "restore"}
    /\ cmd = "test" => pc \in {"wait", "restore", "end"} \cup Before

\* The kernel in the ESP while a command boots it, and after.
StagedKernel ==
    /\ pc \in {"spawn", "restore"} \cup During => staged = IF cmd = "run" THEN "good" ELSE "bad"
    /\ cmd = "run" /\ qemu # "none" => staged = "good"
    /\ pc = "end" /\ staged = "bad" => report \in {"corrupt", "restore", "build"}

\* Keys come from the injector, which only run starts, and not with XTASK_NO_KEYS.
KeysAreTyped ==
    /\ pc \in {"clear", "request", "check"} => ~nokeys
    /\ sends > 0 \/ keyed => cmd = "run" /\ ~nokeys
    /\ code = 33 => keyed

\* Once boot_qemu has returned, QEMU is gone, unless polling it failed.
QemuIsGone ==
    pc \in {"restore", "end"} /\ qemu = "running" => report \in {"poll", "restore"}

\* A text being written, or in the file, is this command's guest's, except for
\* a file left behind, which is gone once a capture has been asked for: only
\* then can keys follow.
CaptureIsFresh ==
    /\ shot = "text" \/ writing = "text" \/ sends > 0 => guest # "firmware"
    /\ pc \in {"request", "check"} \/ sends > 0 \/ keyed => shot # "stale"

\* The inductive invariant.
HarnessInv ==
    /\ TypeOK /\ Fresh /\ StepsOfCommand /\ StagedKernel /\ KeysAreTyped
    /\ QemuIsGone /\ CaptureIsFresh

-----------------------------------------------------------------------------
\* The guest and QEMU: whatever they do, and whenever, keeps the invariant.
LEMMA WorldKeepsInv ==
    ASSUME HarnessInv, Guest \/ BeginDump \/ EndDump \/ InjectKey
    PROVE  HarnessInv'
<1> USE DEF HarnessInv, TypeOK, Fresh, StepsOfCommand, StagedKernel, KeysAreTyped,
            QemuIsGone, CaptureIsFresh, Before, During, given, world, capture
<1>1. CASE GuestFails
  BY <1>1 DEF GuestFails, Exits
<1>2. CASE GuestFaults
  BY <1>2 DEF GuestFaults, Exits
<1>3. CASE GuestRuns
  BY <1>3 DEF GuestRuns
<1>4. CASE GuestSucceeds
  BY <1>4 DEF GuestSucceeds, Exits
<1>5. CASE BeginDump
  BY <1>5 DEF BeginDump
<1>6. CASE EndDump
  BY <1>6 DEF EndDump
<1>7. CASE InjectKey
  <2>1. sends' \in Nat /\ keyed' \in BOOLEAN
    BY <1>7 DEF InjectKey
  <2>2. keyed => keyed'
    BY <1>7 DEF InjectKey
  <2>3. cmd = "run" /\ ~nokeys /\ pc \notin Before
    BY <1>7 DEF InjectKey
  <2>4. QED
    BY <1>7, <2>1, <2>2, <2>3 DEF InjectKey
<1>8. QED
  BY <1>1, <1>2, <1>3, <1>4, <1>5, <1>6, <1>7 DEF Guest

\* The main thread keeps the invariant, on each of its error paths too.
LEMMA StepKeepsInv ==
    ASSUME HarnessInv, Step
    PROVE  HarnessInv'
<1> USE DEF HarnessInv, TypeOK, Fresh, StepsOfCommand, StagedKernel, KeysAreTyped,
            QemuIsGone, CaptureIsFresh, Before, During, given, world, capture,
            End, Return, Kill
<1>1. CASE BuildAndStage
  BY <1>1 DEF BuildAndStage
<1>2. CASE Corrupt
  BY <1>2 DEF Corrupt
<1>3. CASE Spawn
  BY <1>3 DEF Spawn
<1>4. CASE Connect
  BY <1>4 DEF Connect
<1>5. CASE ClearShot
  BY <1>5 DEF ClearShot
<1>6. CASE RequestShot
  BY <1>6 DEF RequestShot
<1>7. CASE CheckShot
  BY <1>7, HarnessAssumption DEF CheckShot, HasText
<1>8. CASE Wait
  BY <1>8 DEF Wait
<1>9. CASE Restore
  BY <1>9 DEF Restore
<1>10. QED
  BY <1>1, <1>2, <1>3, <1>4, <1>5, <1>6, <1>7, <1>8, <1>9 DEF Step

\* So does every step of the specification, the next command included.
LEMMA NextKeepsInv ==
    ASSUME HarnessInv, [Next]_vars
    PROVE  HarnessInv'
<1>1. CASE Again
  <2>1. ~keyed' /\ nokeys' \in BOOLEAN
    BY <1>1 DEF Again
  <2>2. TypeOK'
    BY <1>1, <2>1 DEF Again, HarnessInv, TypeOK, Before
  <2>3. Fresh' /\ KeysAreTyped' /\ CaptureIsFresh'
    BY <1>1, <2>1 DEF Again, Fresh, KeysAreTyped, CaptureIsFresh, Before
  <2>4. StagedKernel'
    BY <1>1 DEF Again, HarnessInv, StagedKernel, During
  <2>5. StepsOfCommand' /\ QemuIsGone'
    BY <1>1 DEF Again, StepsOfCommand, QemuIsGone, Before
  <2>6. QED
    BY <2>2, <2>3, <2>4, <2>5 DEF HarnessInv
<1>2. CASE UNCHANGED vars
  BY <1>2 DEF vars, given, world, capture, HarnessInv, TypeOK, Fresh, StepsOfCommand,
              StagedKernel, KeysAreTyped, QemuIsGone, CaptureIsFresh
<1>3. QED
  BY <1>1, <1>2, WorldKeepsInv, StepKeepsInv DEF Next, Finished

LEMMA HarnessInvariant == Spec => []HarnessInv
<1>1. Init => HarnessInv
  <2> SUFFICES ASSUME Init PROVE HarnessInv
    OBVIOUS
  <2>1. ~keyed
    BY DEF Init
  <2>2. TypeOK
    BY <2>1 DEF Init, TypeOK, Before
  <2>3. Fresh /\ KeysAreTyped /\ CaptureIsFresh
    BY <2>1 DEF Init, Fresh, KeysAreTyped, CaptureIsFresh, Before
  <2>4. StepsOfCommand /\ StagedKernel /\ QemuIsGone
    BY DEF Init, StepsOfCommand, StagedKernel, QemuIsGone, Before, During
  <2>5. QED
    BY <2>2, <2>3, <2>4 DEF HarnessInv
<1>2. HarnessInv /\ [Next]_vars => HarnessInv'
  BY NextKeepsInv
<1>3. QED
  BY <1>1, <1>2, PTL DEF Spec

-----------------------------------------------------------------------------
\* However many commands are given, and whatever the guest does meanwhile: keys
\* are typed only at a guest that has drawn its text, and run reports success
\* only with a capture of that guest's screen, whatever file an earlier command
\* left under the same name (run and inject_keystrokes in main.rs).
THEOREM PassesAreEarned == Spec => []PassIsEarned
<1>1. HarnessInv => PassIsEarned
  <2> SUFFICES ASSUME HarnessInv PROVE PassIsEarned
    OBVIOUS
  <2>1. sends > 0 => guest # "firmware"
    BY DEF HarnessInv, CaptureIsFresh
  <2>2. ASSUME pc = "end", cmd = "run", Passes
        PROVE  shot = "text" /\ ~nokeys
    <3>1. code = 33 /\ HasText
      BY <2>2 DEF Passes
    <3>2. keyed
      BY <3>1 DEF HarnessInv, KeysAreTyped
    <3>3. ~nokeys /\ shot # "stale"
      BY <3>2 DEF HarnessInv, KeysAreTyped, CaptureIsFresh
    <3>4. QED
      BY <3>1, <3>3 DEF HasText
  <2>3. QED
    BY <2>1, <2>2 DEF PassIsEarned
<1>2. QED
  BY <1>1, HarnessInvariant, PTL

\* The corrupted kernel is put back on every path of test that does not report
\* a failed write, and run never boots it ("a failed boot never leaves a
\* corrupted image staged", main.rs).
THEOREM ImageIsRestored == Spec => []ImageRestored
<1>1. HarnessInv => ImageRestored
  BY DEF HarnessInv, TypeOK, StagedKernel, ImageRestored
<1>2. QED
  BY <1>1, HarnessInvariant, PTL

\* No path out of boot_qemu leaves QEMU running, except the one on which
\* try_wait itself fails.
THEOREM NoOrphanIsLeft == Spec => []NoOrphan
<1>1. HarnessInv => NoOrphan
  BY DEF HarnessInv, QemuIsGone, NoOrphan
<1>2. QED
  BY <1>1, HarnessInvariant, PTL
=============================================================================
