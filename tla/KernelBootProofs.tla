--------------------------- MODULE KernelBootProofs ---------------------------
(***************************************************************************)
(* Proofs about KernelBoot, for every number of beeps, every length of a   *)
(* sleep and every set of exceptions allowed by BootAssumption.            *)
(*                                                                         *)
(* The argument: the flags by which others choose a timer say nothing by   *)
(* themselves about its ticking, and a sleep under way says nothing of the *)
(* stage it began at.  The invariant ties all three to the stage of kmain: *)
(* what is set up by which stage, which sleeps happen at which stage, and  *)
(* that the tone sounds only during a sleep that is followed by silence.   *)
(***************************************************************************)
EXTENDS KernelBoot, TLAPS

\* Where kmain is when it sleeps outside a panic.
StageOfSleep ==
  /\ doing \in {"pit_sleep", "chime"} => stage = 4
  /\ doing = "calibrate" => stage = 11
  /\ doing = "apic_sleep" => stage = 12

\* What kmain set up by the stage it has reached.
SetUpByStage ==
  /\ stage >= 3 /\ ~isr => IF_flag
  /\ stage >= 4 => pit_on
  /\ stage >= 12 => apic_on
  /\ pit_initialized \/ pit_timer_running => stage >= 5
  /\ apic_initialized => stage >= 13

\* A sleep under way is on a timer that was started; nobody else waits.
SleepsOnStarted ==
  /\ doing \in {"kmain", "hcf"} => left = 0
  /\ left > 0 => stage >= (IF timer = "apic" THEN 12 ELSE 4)

\* The tone sounds during a sleep that is followed by switching it off, or was cut off.
ToneHeld == speaker => cut \/ doing \in {"chime", "fail_hold", "beep"}

\* A panic under way has beeps left.
BeepsLeft == doing \in {"beep", "pause"} => beeps < PANIC_BEEPS /\ panics > 0 /\ pit_initialized

\* Once a panic began nothing else is under way.
PanicHolds == panics > 0 => doing \in {"beep", "pause", "hcf"}

\* The inductive invariant.
Inv == TypeOK /\ StageOfSleep /\ SetUpByStage /\ SleepsOnStarted /\ ToneHeld /\ BeepsLeft /\ PanicHolds

-----------------------------------------------------------------------------
(* kmain's stages by number.                                               *)

\* Stages as a function.
LEMMA StageNames ==
  /\ Stages[1] = "setup_idt" /\ Stages[2] = "setup_pic" /\ Stages[3] = "setup_pit"
  /\ Stages[4] = "pit_test" /\ Stages[5] = "efer_test" /\ Stages[6] = "setup_pmm"
  /\ Stages[7] = "pmm_test" /\ Stages[8] = "setup_vmm" /\ Stages[9] = "setup_heap"
  /\ Stages[10] = "heap_test" /\ Stages[11] = "bootstrap_apic" /\ Stages[12] = "apic_test"
  /\ Stages[13] = "bootstrap_acpi" /\ Stages[14] = "setup_io_apic" /\ Stages[15] = "end"
  /\ Len(Stages) = 15
BY DEF Stages

\* The stages at which kmain's actions are enabled.
LEMMA StageNumbers ==
  ASSUME NEW s \in 1 .. Len(Stages)
  PROVE  /\ (Stages[s] = "setup_idt" <=> s = 1) /\ (Stages[s] = "setup_pic" <=> s = 2)
         /\ (Stages[s] = "setup_pit" <=> s = 3) /\ (Stages[s] = "bootstrap_apic" <=> s = 11)
         /\ (Stages[s] = "end" <=> s = 15)
         /\ Stages[s] \in Tests => s \in {5, 7, 10}
         /\ Stages[s] \in CanPanic => s \in {6, 7, 8, 9, 10, 11, 13, 14}
         /\ Stages[s] \in Plain => s \in {6, 8, 9, 13, 14}
<1>1. s \in {1, 2, 3, 4, 5, 6, 7, 8, 9, 10, 11, 12, 13, 14, 15}
  BY StageNames
<1> QED BY <1>1, StageNames DEF Tests, CanPanic, Plain

USE DEF timers, flags, sleep, context, alarm

\* BootAssumption, as arithmetic.
LEMMA Bounds == PANIC_BEEPS \in Nat /\ PANIC_BEEPS > 0 /\ SleepTicks \in Nat /\ SleepTicks > 0
BY BootAssumption

\* kmain begins with nothing set up.
LEMMA InitInv == Init => Inv
<1> SUFFICES ASSUME Init PROVE Inv
  OBVIOUS
<1>1. Numbers /\ PanicHolds
  BY StageNames, Bounds DEF Init, Numbers, PanicHolds
<1>2. Switches
  BY DEF Init, Switches
<1>3. StageOfSleep /\ SetUpByStage /\ SleepsOnStarted /\ ToneHeld /\ BeepsLeft
  BY DEF Init, StageOfSleep, SetUpByStage, SleepsOnStarted, ToneHeld, BeepsLeft
<1> QED BY <1>1, <1>2, <1>3 DEF Inv, TypeOK

-----------------------------------------------------------------------------
(* Every action keeps the invariant.                                       *)

\* The first step of kmain.
LEMMA setup_idtInv ==
  ASSUME Inv, setup_idt
  PROVE  Inv'
<1>0. stage \in 1 .. Len(Stages) /\ Len(Stages) = 15
  BY StageNames DEF Inv, TypeOK, Numbers
<1>1. Numbers'
  BY <1>0, StageNumbers, Bounds DEF setup_idt, At, Advance, Inv, TypeOK, Numbers
<1>2. Switches'
  BY DEF setup_idt, At, Advance, Inv, TypeOK, Switches
<1>3. StageOfSleep'
  BY <1>0, StageNumbers DEF setup_idt, At, Advance, Inv, TypeOK, Numbers, StageOfSleep
<1>4. SetUpByStage'
  BY <1>0, StageNumbers DEF setup_idt, At, Advance, Inv, TypeOK, Numbers, StageOfSleep,
     SetUpByStage
<1>5. SleepsOnStarted'
  BY <1>0, StageNumbers, Bounds DEF setup_idt, At, Advance, Inv, TypeOK, Numbers, StageOfSleep,
     SetUpByStage, SleepsOnStarted, BeepsLeft
<1>6. ToneHeld'
  BY DEF setup_idt, At, Advance, Inv, ToneHeld
<1>7. BeepsLeft'
  BY <1>0, StageNumbers, Bounds DEF setup_idt, At, Advance, Inv, TypeOK, Numbers, BeepsLeft,
     PanicHolds
<1>8. PanicHolds'
  BY DEF setup_idt, At, Advance, Inv, TypeOK, Numbers, PanicHolds
<1> QED BY <1>1, <1>2, <1>3, <1>4, <1>5, <1>6, <1>7, <1>8 DEF Inv, TypeOK

\* Interrupts are on from here.
LEMMA setup_picInv ==
  ASSUME Inv, setup_pic
  PROVE  Inv'
<1>0. stage \in 1 .. Len(Stages) /\ Len(Stages) = 15
  BY StageNames DEF Inv, TypeOK, Numbers
<1>1. Numbers'
  BY <1>0, StageNumbers, Bounds DEF setup_pic, At, Advance, Inv, TypeOK, Numbers
<1>2. Switches'
  BY DEF setup_pic, At, Advance, Inv, TypeOK, Switches
<1>3. StageOfSleep'
  BY <1>0, StageNumbers DEF setup_pic, At, Advance, Inv, TypeOK, Numbers, StageOfSleep
<1>4. SetUpByStage'
  BY <1>0, StageNumbers DEF setup_pic, At, Advance, Inv, TypeOK, Numbers, StageOfSleep,
     SetUpByStage
<1>5. SleepsOnStarted'
  BY <1>0, StageNumbers, Bounds DEF setup_pic, At, Advance, Inv, TypeOK, Numbers, StageOfSleep,
     SetUpByStage, SleepsOnStarted, BeepsLeft
<1>6. ToneHeld'
  BY DEF setup_pic, At, Advance, Inv, ToneHeld
<1>7. BeepsLeft'
  BY <1>0, StageNumbers, Bounds DEF setup_pic, At, Advance, Inv, TypeOK, Numbers, BeepsLeft,
     PanicHolds
<1>8. PanicHolds'
  BY DEF setup_pic, At, Advance, Inv, TypeOK, Numbers, PanicHolds
<1> QED BY <1>1, <1>2, <1>3, <1>4, <1>5, <1>6, <1>7, <1>8 DEF Inv, TypeOK

\* The PIT ticks from here.
LEMMA setup_pitInv ==
  ASSUME Inv, setup_pit
  PROVE  Inv'
<1>0. stage \in 1 .. Len(Stages) /\ Len(Stages) = 15
  BY StageNames DEF Inv, TypeOK, Numbers
<1>1. Numbers'
  BY <1>0, StageNumbers, Bounds DEF setup_pit, At, Advance, pit_sleep_ms, Inv, TypeOK, Numbers
<1>2. Switches'
  BY DEF setup_pit, At, Advance, pit_sleep_ms, Inv, TypeOK, Switches
<1>3. StageOfSleep'
  BY <1>0, StageNumbers DEF setup_pit, At, Advance, pit_sleep_ms, Inv, TypeOK, Numbers,
     StageOfSleep
<1>4. SetUpByStage'
  BY <1>0, StageNumbers DEF setup_pit, At, Advance, pit_sleep_ms, Inv, TypeOK, Numbers,
     StageOfSleep, SetUpByStage
<1>5. SleepsOnStarted'
  BY <1>0, StageNumbers, Bounds DEF setup_pit, At, Advance, pit_sleep_ms, Inv, TypeOK, Numbers,
     StageOfSleep, SetUpByStage, SleepsOnStarted, BeepsLeft
<1>6. ToneHeld'
  BY DEF setup_pit, At, Advance, pit_sleep_ms, Inv, ToneHeld
<1>7. BeepsLeft'
  BY <1>0, StageNumbers, Bounds DEF setup_pit, At, Advance, pit_sleep_ms, Inv, TypeOK, Numbers,
     BeepsLeft, PanicHolds
<1>8. PanicHolds'
  BY DEF setup_pit, At, Advance, pit_sleep_ms, Inv, TypeOK, Numbers, PanicHolds
<1> QED BY <1>1, <1>2, <1>3, <1>4, <1>5, <1>6, <1>7, <1>8 DEF Inv, TypeOK

\* The chime, or a PIT that is not marked.
LEMMA PitTestInv ==
  ASSUME Inv, PitTest
  PROVE  Inv'
<1>0. stage \in 1 .. Len(Stages) /\ Len(Stages) = 15
  BY StageNames DEF Inv, TypeOK, Numbers
<1>1. Numbers'
  BY <1>0, StageNumbers, Bounds DEF PitTest, Awake, pit_sleep_ms, Return, Advance, Inv, TypeOK,
     Numbers, StageOfSleep
<1>2. Switches'
  BY DEF PitTest, Awake, pit_sleep_ms, Return, Advance, Inv, TypeOK, Switches
<1>3. StageOfSleep'
  BY <1>0, StageNumbers DEF PitTest, Awake, pit_sleep_ms, Return, Advance, Inv, TypeOK, Numbers,
     StageOfSleep
<1>4. SetUpByStage'
  BY <1>0, StageNumbers DEF PitTest, Awake, pit_sleep_ms, Return, Advance, Inv, TypeOK, Numbers,
     StageOfSleep, SetUpByStage
<1>5. SleepsOnStarted'
  BY <1>0, StageNumbers, Bounds DEF PitTest, Awake, pit_sleep_ms, Return, Advance, Inv, TypeOK,
     Numbers, StageOfSleep, SetUpByStage, SleepsOnStarted, BeepsLeft
<1>6. ToneHeld'
  BY DEF PitTest, Awake, pit_sleep_ms, Return, Advance, Inv, ToneHeld
<1>7. BeepsLeft'
  BY <1>0, StageNumbers, Bounds DEF PitTest, Awake, pit_sleep_ms, Return, Advance, Inv, TypeOK,
     Numbers, BeepsLeft, PanicHolds
<1>8. PanicHolds'
  BY DEF PitTest, Awake, pit_sleep_ms, Return, Advance, Inv, TypeOK, Numbers, PanicHolds
<1> QED BY <1>1, <1>2, <1>3, <1>4, <1>5, <1>6, <1>7, <1>8 DEF Inv, TypeOK

\* The flags of the PIT are set while it ticks.
LEMMA ChimeOverInv ==
  ASSUME Inv, ChimeOver
  PROVE  Inv'
<1>0. stage \in 1 .. Len(Stages) /\ Len(Stages) = 15
  BY StageNames DEF Inv, TypeOK, Numbers
<1>1. Numbers'
  BY <1>0, StageNumbers, Bounds DEF ChimeOver, Awake, Return, Advance, Inv, TypeOK, Numbers,
     StageOfSleep
<1>2. Switches'
  BY DEF ChimeOver, Awake, Return, Advance, Inv, TypeOK, Switches
<1>3. StageOfSleep'
  BY <1>0, StageNumbers DEF ChimeOver, Awake, Return, Advance, Inv, TypeOK, Numbers, StageOfSleep
<1>4. SetUpByStage'
  BY <1>0, StageNumbers DEF ChimeOver, Awake, Return, Advance, Inv, TypeOK, Numbers, StageOfSleep,
     SetUpByStage
<1>5. SleepsOnStarted'
  BY <1>0, StageNumbers, Bounds DEF ChimeOver, Awake, Return, Advance, Inv, TypeOK, Numbers,
     StageOfSleep, SetUpByStage, SleepsOnStarted, BeepsLeft
<1>6. ToneHeld'
  BY DEF ChimeOver, Awake, Return, Advance, Inv, ToneHeld
<1>7. BeepsLeft'
  BY <1>0, StageNumbers, Bounds DEF ChimeOver, Awake, Return, Advance, Inv, TypeOK, Numbers,
     BeepsLeft, PanicHolds
<1>8. PanicHolds'
  BY DEF ChimeOver, Awake, Return, Advance, Inv, TypeOK, Numbers, PanicHolds
<1> QED BY <1>1, <1>2, <1>3, <1>4, <1>5, <1>6, <1>7, <1>8 DEF Inv, TypeOK

\* A failing test holds its tone on a timer that a flag names.
LEMMA SelfTestInv ==
  ASSUME Inv, SelfTest
  PROVE  Inv'
<1>0. stage \in 1 .. Len(Stages) /\ Len(Stages) = 15
  BY StageNames DEF Inv, TypeOK, Numbers
<1>1. Numbers'
  BY <1>0, StageNumbers, Bounds DEF SelfTest, Advance, k_test_fail, pit_sleep_ms, apic_sleep_ms,
     Return, Inv, TypeOK, Numbers
<1>2. Switches'
  BY DEF SelfTest, Advance, k_test_fail, pit_sleep_ms, apic_sleep_ms, Return, Inv, TypeOK,
     Switches
<1>3. StageOfSleep'
  BY <1>0, StageNumbers DEF SelfTest, Advance, k_test_fail, pit_sleep_ms, apic_sleep_ms, Return,
     Inv, TypeOK, Numbers, StageOfSleep
<1>4. SetUpByStage'
  BY <1>0, StageNumbers DEF SelfTest, Advance, k_test_fail, pit_sleep_ms, apic_sleep_ms, Return,
     Inv, TypeOK, Numbers, StageOfSleep, SetUpByStage
<1>5. SleepsOnStarted'
  BY <1>0, StageNumbers, Bounds DEF SelfTest, Advance, k_test_fail, pit_sleep_ms, apic_sleep_ms,
     Return, Inv, TypeOK, Numbers, StageOfSleep, SetUpByStage, SleepsOnStarted, BeepsLeft
<1>6. ToneHeld'
  BY DEF SelfTest, Advance, k_test_fail, pit_sleep_ms, apic_sleep_ms, Return, Inv, ToneHeld
<1>7. BeepsLeft'
  BY <1>0, StageNumbers, Bounds DEF SelfTest, Advance, k_test_fail, pit_sleep_ms, apic_sleep_ms,
     Return, Inv, TypeOK, Numbers, BeepsLeft, PanicHolds
<1>8. PanicHolds'
  BY DEF SelfTest, Advance, k_test_fail, pit_sleep_ms, apic_sleep_ms, Return, Inv, TypeOK,
     Numbers, PanicHolds
<1> QED BY <1>1, <1>2, <1>3, <1>4, <1>5, <1>6, <1>7, <1>8 DEF Inv, TypeOK

\* The tone of a failing test ends.
LEMMA FailOverInv ==
  ASSUME Inv, FailOver
  PROVE  Inv'
<1>0. stage \in 1 .. Len(Stages) /\ Len(Stages) = 15
  BY StageNames DEF Inv, TypeOK, Numbers
<1>1. Numbers'
  BY <1>0, StageNumbers, Bounds DEF FailOver, Awake, Return, Inv, TypeOK, Numbers
<1>2. Switches'
  BY DEF FailOver, Awake, Return, Inv, TypeOK, Switches
<1>3. StageOfSleep'
  BY <1>0, StageNumbers DEF FailOver, Awake, Return, Inv, TypeOK, Numbers, StageOfSleep
<1>4. SetUpByStage'
  BY <1>0, StageNumbers DEF FailOver, Awake, Return, Inv, TypeOK, Numbers, StageOfSleep,
     SetUpByStage
<1>5. SleepsOnStarted'
  BY <1>0, StageNumbers, Bounds DEF FailOver, Awake, Return, Inv, TypeOK, Numbers, StageOfSleep,
     SetUpByStage, SleepsOnStarted, BeepsLeft
<1>6. ToneHeld'
  BY DEF FailOver, Awake, Return, Inv, ToneHeld
<1>7. BeepsLeft'
  BY <1>0, StageNumbers, Bounds DEF FailOver, Awake, Return, Inv, TypeOK, Numbers, BeepsLeft,
     PanicHolds
<1>8. PanicHolds'
  BY DEF FailOver, Awake, Return, Inv, TypeOK, Numbers, PanicHolds
<1> QED BY <1>1, <1>2, <1>3, <1>4, <1>5, <1>6, <1>7, <1>8 DEF Inv, TypeOK

\* Steps of kmain that set nothing up here.
LEMMA SetupReturnsInv ==
  ASSUME Inv, SetupReturns
  PROVE  Inv'
<1>0. stage \in 1 .. Len(Stages) /\ Len(Stages) = 15
  BY StageNames DEF Inv, TypeOK, Numbers
<1>1. Numbers'
  BY <1>0, StageNumbers, Bounds DEF SetupReturns, Advance, Inv, TypeOK, Numbers
<1>2. Switches'
  BY DEF SetupReturns, Advance, Inv, TypeOK, Switches
<1>3. StageOfSleep'
  BY <1>0, StageNumbers DEF SetupReturns, Advance, Inv, TypeOK, Numbers, StageOfSleep
<1>4. SetUpByStage'
  BY <1>0, StageNumbers DEF SetupReturns, Advance, Inv, TypeOK, Numbers, StageOfSleep,
     SetUpByStage
<1>5. SleepsOnStarted'
  BY <1>0, StageNumbers, Bounds DEF SetupReturns, Advance, Inv, TypeOK, Numbers, StageOfSleep,
     SetUpByStage, SleepsOnStarted, BeepsLeft
<1>6. ToneHeld'
  BY DEF SetupReturns, Advance, Inv, ToneHeld
<1>7. BeepsLeft'
  BY <1>0, StageNumbers, Bounds DEF SetupReturns, Advance, Inv, TypeOK, Numbers, BeepsLeft,
     PanicHolds
<1>8. PanicHolds'
  BY DEF SetupReturns, Advance, Inv, TypeOK, Numbers, PanicHolds
<1> QED BY <1>1, <1>2, <1>3, <1>4, <1>5, <1>6, <1>7, <1>8 DEF Inv, TypeOK

\* A panic of kmain beeps on a timer that a flag names.
LEMMA KmainPanicsInv ==
  ASSUME Inv, KmainPanics
  PROVE  Inv'
<1>0. stage \in 1 .. Len(Stages) /\ Len(Stages) = 15
  BY StageNames DEF Inv, TypeOK, Numbers
<1>1. Numbers'
  BY <1>0, StageNumbers, Bounds DEF KmainPanics, panic, BeepSleep, pit_sleep_ms, apic_sleep_ms,
     hcf, Inv, TypeOK, Numbers
<1>2. Switches'
  BY DEF KmainPanics, panic, BeepSleep, pit_sleep_ms, apic_sleep_ms, hcf, Inv, TypeOK, Switches
<1>3. StageOfSleep'
  BY <1>0, StageNumbers DEF KmainPanics, panic, BeepSleep, pit_sleep_ms, apic_sleep_ms, hcf, Inv,
     TypeOK, Numbers, StageOfSleep
<1>4. SetUpByStage'
  BY <1>0, StageNumbers DEF KmainPanics, panic, BeepSleep, pit_sleep_ms, apic_sleep_ms, hcf, Inv,
     TypeOK, Numbers, StageOfSleep, SetUpByStage
<1>5. SleepsOnStarted'
  BY <1>0, StageNumbers, Bounds DEF KmainPanics, panic, BeepSleep, pit_sleep_ms, apic_sleep_ms,
     hcf, Inv, TypeOK, Numbers, StageOfSleep, SetUpByStage, SleepsOnStarted, BeepsLeft
<1>6. ToneHeld'
  BY DEF KmainPanics, panic, BeepSleep, pit_sleep_ms, apic_sleep_ms, hcf, Inv, ToneHeld
<1>7. BeepsLeft'
  BY <1>0, StageNumbers, Bounds DEF KmainPanics, panic, BeepSleep, pit_sleep_ms, apic_sleep_ms,
     hcf, Inv, TypeOK, Numbers, BeepsLeft, PanicHolds
<1>8. PanicHolds'
  BY DEF KmainPanics, panic, BeepSleep, pit_sleep_ms, apic_sleep_ms, hcf, Inv, TypeOK, Numbers,
     PanicHolds
<1> QED BY <1>1, <1>2, <1>3, <1>4, <1>5, <1>6, <1>7, <1>8 DEF Inv, TypeOK

\* The calibration sleeps on the PIT.
LEMMA bootstrap_apicInv ==
  ASSUME Inv, bootstrap_apic
  PROVE  Inv'
<1>0. stage \in 1 .. Len(Stages) /\ Len(Stages) = 15
  BY StageNames DEF Inv, TypeOK, Numbers
<1>1. Numbers'
  BY <1>0, StageNumbers, Bounds DEF bootstrap_apic, At, pit_sleep_ms, Inv, TypeOK, Numbers
<1>2. Switches'
  BY DEF bootstrap_apic, At, pit_sleep_ms, Inv, TypeOK, Switches
<1>3. StageOfSleep'
  BY <1>0, StageNumbers DEF bootstrap_apic, At, pit_sleep_ms, Inv, TypeOK, Numbers, StageOfSleep
<1>4. SetUpByStage'
  BY <1>0, StageNumbers DEF bootstrap_apic, At, pit_sleep_ms, Inv, TypeOK, Numbers, StageOfSleep,
     SetUpByStage
<1>5. SleepsOnStarted'
  BY <1>0, StageNumbers, Bounds DEF bootstrap_apic, At, pit_sleep_ms, Inv, TypeOK, Numbers,
     StageOfSleep, SetUpByStage, SleepsOnStarted, BeepsLeft
<1>6. ToneHeld'
  BY DEF bootstrap_apic, At, pit_sleep_ms, Inv, ToneHeld
<1>7. BeepsLeft'
  BY <1>0, StageNumbers, Bounds DEF bootstrap_apic, At, pit_sleep_ms, Inv, TypeOK, Numbers,
     BeepsLeft, PanicHolds
<1>8. PanicHolds'
  BY DEF bootstrap_apic, At, pit_sleep_ms, Inv, TypeOK, Numbers, PanicHolds
<1> QED BY <1>1, <1>2, <1>3, <1>4, <1>5, <1>6, <1>7, <1>8 DEF Inv, TypeOK

\* The timer of the APIC ticks from here.
LEMMA CalibratedInv ==
  ASSUME Inv, Calibrated
  PROVE  Inv'
<1>0. stage \in 1 .. Len(Stages) /\ Len(Stages) = 15
  BY StageNames DEF Inv, TypeOK, Numbers
<1>1. Numbers'
  BY <1>0, StageNumbers, Bounds DEF Calibrated, Awake, apic_sleep_ms, Advance, Inv, TypeOK,
     Numbers, StageOfSleep
<1>2. Switches'
  BY DEF Calibrated, Awake, apic_sleep_ms, Advance, Inv, TypeOK, Switches
<1>3. StageOfSleep'
  BY <1>0, StageNumbers DEF Calibrated, Awake, apic_sleep_ms, Advance, Inv, TypeOK, Numbers,
     StageOfSleep
<1>4. SetUpByStage'
  BY <1>0, StageNumbers DEF Calibrated, Awake, apic_sleep_ms, Advance, Inv, TypeOK, Numbers,
     StageOfSleep, SetUpByStage
<1>5. SleepsOnStarted'
  BY <1>0, StageNumbers, Bounds DEF Calibrated, Awake, apic_sleep_ms, Advance, Inv, TypeOK,
     Numbers, StageOfSleep, SetUpByStage, SleepsOnStarted, BeepsLeft
<1>6. ToneHeld'
  BY DEF Calibrated, Awake, apic_sleep_ms, Advance, Inv, ToneHeld
<1>7. BeepsLeft'
  BY <1>0, StageNumbers, Bounds DEF Calibrated, Awake, apic_sleep_ms, Advance, Inv, TypeOK,
     Numbers, BeepsLeft, PanicHolds
<1>8. PanicHolds'
  BY DEF Calibrated, Awake, apic_sleep_ms, Advance, Inv, TypeOK, Numbers, PanicHolds
<1> QED BY <1>1, <1>2, <1>3, <1>4, <1>5, <1>6, <1>7, <1>8 DEF Inv, TypeOK

\* The flag of the APIC is set while its timer ticks.
LEMMA ApicTestInv ==
  ASSUME Inv, ApicTest
  PROVE  Inv'
<1>0. stage \in 1 .. Len(Stages) /\ Len(Stages) = 15
  BY StageNames DEF Inv, TypeOK, Numbers
<1>1. Numbers'
  BY <1>0, StageNumbers, Bounds DEF ApicTest, Awake, Advance, Return, k_test_fail, pit_sleep_ms,
     apic_sleep_ms, Inv, TypeOK, Numbers, StageOfSleep
<1>2. Switches'
  BY DEF ApicTest, Awake, Advance, Return, k_test_fail, pit_sleep_ms, apic_sleep_ms, Inv, TypeOK,
     Switches
<1>3. StageOfSleep'
  BY <1>0, StageNumbers DEF ApicTest, Awake, Advance, Return, k_test_fail, pit_sleep_ms,
     apic_sleep_ms, Inv, TypeOK, Numbers, StageOfSleep
<1>4. SetUpByStage'
  BY <1>0, StageNumbers DEF ApicTest, Awake, Advance, Return, k_test_fail, pit_sleep_ms,
     apic_sleep_ms, Inv, TypeOK, Numbers, StageOfSleep, SetUpByStage
<1>5. SleepsOnStarted'
  BY <1>0, StageNumbers, Bounds DEF ApicTest, Awake, Advance, Return, k_test_fail, pit_sleep_ms,
     apic_sleep_ms, Inv, TypeOK, Numbers, StageOfSleep, SetUpByStage, SleepsOnStarted, BeepsLeft
<1>6. ToneHeld'
  BY DEF ApicTest, Awake, Advance, Return, k_test_fail, pit_sleep_ms, apic_sleep_ms, Inv, ToneHeld
<1>7. BeepsLeft'
  BY <1>0, StageNumbers, Bounds DEF ApicTest, Awake, Advance, Return, k_test_fail, pit_sleep_ms,
     apic_sleep_ms, Inv, TypeOK, Numbers, BeepsLeft, PanicHolds
<1>8. PanicHolds'
  BY DEF ApicTest, Awake, Advance, Return, k_test_fail, pit_sleep_ms, apic_sleep_ms, Inv, TypeOK,
     Numbers, PanicHolds
<1> QED BY <1>1, <1>2, <1>3, <1>4, <1>5, <1>6, <1>7, <1>8 DEF Inv, TypeOK

\* kmain ends in silence.
LEMMA EndOfKmainInv ==
  ASSUME Inv, EndOfKmain
  PROVE  Inv'
<1>0. stage \in 1 .. Len(Stages) /\ Len(Stages) = 15
  BY StageNames DEF Inv, TypeOK, Numbers
<1>1. Numbers'
  BY <1>0, StageNumbers, Bounds DEF EndOfKmain, At, hcf, Inv, TypeOK, Numbers
<1>2. Switches'
  BY DEF EndOfKmain, At, hcf, Inv, TypeOK, Switches
<1>3. StageOfSleep'
  BY <1>0, StageNumbers DEF EndOfKmain, At, hcf, Inv, TypeOK, Numbers, StageOfSleep
<1>4. SetUpByStage'
  BY <1>0, StageNumbers DEF EndOfKmain, At, hcf, Inv, TypeOK, Numbers, StageOfSleep, SetUpByStage
<1>5. SleepsOnStarted'
  BY <1>0, StageNumbers, Bounds DEF EndOfKmain, At, hcf, Inv, TypeOK, Numbers, StageOfSleep,
     SetUpByStage, SleepsOnStarted, BeepsLeft
<1>6. ToneHeld'
  BY DEF EndOfKmain, At, hcf, Inv, ToneHeld
<1>7. BeepsLeft'
  BY <1>0, StageNumbers, Bounds DEF EndOfKmain, At, hcf, Inv, TypeOK, Numbers, BeepsLeft,
     PanicHolds
<1>8. PanicHolds'
  BY DEF EndOfKmain, At, hcf, Inv, TypeOK, Numbers, PanicHolds
<1> QED BY <1>1, <1>2, <1>3, <1>4, <1>5, <1>6, <1>7, <1>8 DEF Inv, TypeOK

\* A beep ends, and another begins or the panic halts.
LEMMA BeepOverInv ==
  ASSUME Inv, BeepOver
  PROVE  Inv'
<1>0. stage \in 1 .. Len(Stages) /\ Len(Stages) = 15
  BY StageNames DEF Inv, TypeOK, Numbers
<1>1. Numbers'
  BY <1>0, StageNumbers, Bounds DEF BeepOver, Awake, NextBeep, BeepSleep, pit_sleep_ms,
     apic_sleep_ms, hcf, Inv, TypeOK, Numbers, BeepsLeft
<1>2. Switches'
  BY DEF BeepOver, Awake, NextBeep, BeepSleep, pit_sleep_ms, apic_sleep_ms, hcf, Inv, TypeOK,
     Switches
<1>3. StageOfSleep'
  BY <1>0, StageNumbers DEF BeepOver, Awake, NextBeep, BeepSleep, pit_sleep_ms, apic_sleep_ms,
     hcf, Inv, TypeOK, Numbers, StageOfSleep
<1>4. SetUpByStage'
  BY <1>0, StageNumbers DEF BeepOver, Awake, NextBeep, BeepSleep, pit_sleep_ms, apic_sleep_ms,
     hcf, Inv, TypeOK, Numbers, StageOfSleep, SetUpByStage
<1>5. SleepsOnStarted'
  BY <1>0, StageNumbers, Bounds DEF BeepOver, Awake, NextBeep, BeepSleep, pit_sleep_ms,
     apic_sleep_ms, hcf, Inv, TypeOK, Numbers, StageOfSleep, SetUpByStage, SleepsOnStarted,
     BeepsLeft
<1>6. ToneHeld'
  BY DEF BeepOver, Awake, NextBeep, BeepSleep, pit_sleep_ms, apic_sleep_ms, hcf, Inv, ToneHeld
<1>7. BeepsLeft'
  BY <1>0, StageNumbers, Bounds DEF BeepOver, Awake, NextBeep, BeepSleep, pit_sleep_ms,
     apic_sleep_ms, hcf, Inv, TypeOK, Numbers, BeepsLeft, PanicHolds
<1>8. PanicHolds'
  BY DEF BeepOver, Awake, NextBeep, BeepSleep, pit_sleep_ms, apic_sleep_ms, hcf, Inv, TypeOK,
     Numbers, PanicHolds
<1> QED BY <1>1, <1>2, <1>3, <1>4, <1>5, <1>6, <1>7, <1>8 DEF Inv, TypeOK

\* A pause between beeps ends.
LEMMA PauseOverInv ==
  ASSUME Inv, PauseOver
  PROVE  Inv'
<1>0. stage \in 1 .. Len(Stages) /\ Len(Stages) = 15
  BY StageNames DEF Inv, TypeOK, Numbers
<1>1. Numbers'
  BY <1>0, StageNumbers, Bounds DEF PauseOver, Awake, NextBeep, BeepSleep, pit_sleep_ms,
     apic_sleep_ms, hcf, Inv, TypeOK, Numbers, BeepsLeft
<1>2. Switches'
  BY DEF PauseOver, Awake, NextBeep, BeepSleep, pit_sleep_ms, apic_sleep_ms, hcf, Inv, TypeOK,
     Switches
<1>3. StageOfSleep'
  BY <1>0, StageNumbers DEF PauseOver, Awake, NextBeep, BeepSleep, pit_sleep_ms, apic_sleep_ms,
     hcf, Inv, TypeOK, Numbers, StageOfSleep
<1>4. SetUpByStage'
  BY <1>0, StageNumbers DEF PauseOver, Awake, NextBeep, BeepSleep, pit_sleep_ms, apic_sleep_ms,
     hcf, Inv, TypeOK, Numbers, StageOfSleep, SetUpByStage
<1>5. SleepsOnStarted'
  BY <1>0, StageNumbers, Bounds DEF PauseOver, Awake, NextBeep, BeepSleep, pit_sleep_ms,
     apic_sleep_ms, hcf, Inv, TypeOK, Numbers, StageOfSleep, SetUpByStage, SleepsOnStarted,
     BeepsLeft
<1>6. ToneHeld'
  BY DEF PauseOver, Awake, NextBeep, BeepSleep, pit_sleep_ms, apic_sleep_ms, hcf, Inv, ToneHeld
<1>7. BeepsLeft'
  BY <1>0, StageNumbers, Bounds DEF PauseOver, Awake, NextBeep, BeepSleep, pit_sleep_ms,
     apic_sleep_ms, hcf, Inv, TypeOK, Numbers, BeepsLeft, PanicHolds
<1>8. PanicHolds'
  BY DEF PauseOver, Awake, NextBeep, BeepSleep, pit_sleep_ms, apic_sleep_ms, hcf, Inv, TypeOK,
     Numbers, PanicHolds
<1> QED BY <1>1, <1>2, <1>3, <1>4, <1>5, <1>6, <1>7, <1>8 DEF Inv, TypeOK

\* A tick of the PIT.
LEMMA pit_irqInv ==
  ASSUME Inv, pit_irq
  PROVE  Inv'
<1>0. stage \in 1 .. Len(Stages) /\ Len(Stages) = 15
  BY StageNames DEF Inv, TypeOK, Numbers
<1>1. Numbers'
  BY <1>0, StageNumbers, Bounds DEF pit_irq, Tick, Inv, TypeOK, Numbers
<1>2. Switches'
  BY DEF pit_irq, Tick, Inv, TypeOK, Switches
<1>3. StageOfSleep'
  BY <1>0, StageNumbers DEF pit_irq, Tick, Inv, TypeOK, Numbers, StageOfSleep
<1>4. SetUpByStage'
  BY <1>0, StageNumbers DEF pit_irq, Tick, Inv, TypeOK, Numbers, StageOfSleep, SetUpByStage
<1>5. SleepsOnStarted'
  BY <1>0, StageNumbers, Bounds DEF pit_irq, Tick, Inv, TypeOK, Numbers, StageOfSleep,
     SetUpByStage, SleepsOnStarted, BeepsLeft
<1>6. ToneHeld'
  BY DEF pit_irq, Tick, Inv, ToneHeld
<1>7. BeepsLeft'
  BY <1>0, StageNumbers, Bounds DEF pit_irq, Tick, Inv, TypeOK, Numbers, BeepsLeft, PanicHolds
<1>8. PanicHolds'
  BY DEF pit_irq, Tick, Inv, TypeOK, Numbers, PanicHolds
<1> QED BY <1>1, <1>2, <1>3, <1>4, <1>5, <1>6, <1>7, <1>8 DEF Inv, TypeOK

\* A tick of the timer of the APIC.
LEMMA apic_timer_irqInv ==
  ASSUME Inv, apic_timer_irq
  PROVE  Inv'
<1>0. stage \in 1 .. Len(Stages) /\ Len(Stages) = 15
  BY StageNames DEF Inv, TypeOK, Numbers
<1>1. Numbers'
  BY <1>0, StageNumbers, Bounds DEF apic_timer_irq, Tick, Inv, TypeOK, Numbers
<1>2. Switches'
  BY DEF apic_timer_irq, Tick, Inv, TypeOK, Switches
<1>3. StageOfSleep'
  BY <1>0, StageNumbers DEF apic_timer_irq, Tick, Inv, TypeOK, Numbers, StageOfSleep
<1>4. SetUpByStage'
  BY <1>0, StageNumbers DEF apic_timer_irq, Tick, Inv, TypeOK, Numbers, StageOfSleep, SetUpByStage
<1>5. SleepsOnStarted'
  BY <1>0, StageNumbers, Bounds DEF apic_timer_irq, Tick, Inv, TypeOK, Numbers, StageOfSleep,
     SetUpByStage, SleepsOnStarted, BeepsLeft
<1>6. ToneHeld'
  BY DEF apic_timer_irq, Tick, Inv, ToneHeld
<1>7. BeepsLeft'
  BY <1>0, StageNumbers, Bounds DEF apic_timer_irq, Tick, Inv, TypeOK, Numbers, BeepsLeft,
     PanicHolds
<1>8. PanicHolds'
  BY DEF apic_timer_irq, Tick, Inv, TypeOK, Numbers, PanicHolds
<1> QED BY <1>1, <1>2, <1>3, <1>4, <1>5, <1>6, <1>7, <1>8 DEF Inv, TypeOK

\* An exception that halts in its handler.
LEMMA HaltingFaultInv ==
  ASSUME Inv, HaltingFault
  PROVE  Inv'
<1>0. stage \in 1 .. Len(Stages) /\ Len(Stages) = 15
  BY StageNames DEF Inv, TypeOK, Numbers
<1>1. Numbers'
  BY <1>0, StageNumbers, Bounds DEF HaltingFault, Gate, hcf, Inv, TypeOK, Numbers
<1>2. Switches'
  BY DEF HaltingFault, Gate, hcf, Inv, TypeOK, Switches
<1>3. StageOfSleep'
  BY <1>0, StageNumbers DEF HaltingFault, Gate, hcf, Inv, TypeOK, Numbers, StageOfSleep
<1>4. SetUpByStage'
  BY <1>0, StageNumbers DEF HaltingFault, Gate, hcf, Inv, TypeOK, Numbers, StageOfSleep,
     SetUpByStage
<1>5. SleepsOnStarted'
  BY <1>0, StageNumbers, Bounds DEF HaltingFault, Gate, hcf, Inv, TypeOK, Numbers, StageOfSleep,
     SetUpByStage, SleepsOnStarted, BeepsLeft
<1>6. ToneHeld'
  BY DEF HaltingFault, Gate, hcf, Inv, ToneHeld
<1>7. BeepsLeft'
  BY <1>0, StageNumbers, Bounds DEF HaltingFault, Gate, hcf, Inv, TypeOK, Numbers, BeepsLeft,
     PanicHolds
<1>8. PanicHolds'
  BY DEF HaltingFault, Gate, hcf, Inv, TypeOK, Numbers, PanicHolds
<1> QED BY <1>1, <1>2, <1>3, <1>4, <1>5, <1>6, <1>7, <1>8 DEF Inv, TypeOK

\* An exception that panics in its handler.
LEMMA unimplemented_abortInv ==
  ASSUME Inv, unimplemented_abort
  PROVE  Inv'
<1>0. stage \in 1 .. Len(Stages) /\ Len(Stages) = 15
  BY StageNames DEF Inv, TypeOK, Numbers
<1>1. Numbers'
  BY <1>0, StageNumbers, Bounds DEF unimplemented_abort, Gate, panic, BeepSleep, pit_sleep_ms,
     apic_sleep_ms, hcf, Inv, TypeOK, Numbers
<1>2. Switches'
  BY DEF unimplemented_abort, Gate, panic, BeepSleep, pit_sleep_ms, apic_sleep_ms, hcf, Inv,
     TypeOK, Switches
<1>3. StageOfSleep'
  BY <1>0, StageNumbers DEF unimplemented_abort, Gate, panic, BeepSleep, pit_sleep_ms,
     apic_sleep_ms, hcf, Inv, TypeOK, Numbers, StageOfSleep
<1>4. SetUpByStage'
  BY <1>0, StageNumbers DEF unimplemented_abort, Gate, panic, BeepSleep, pit_sleep_ms,
     apic_sleep_ms, hcf, Inv, TypeOK, Numbers, StageOfSleep, SetUpByStage
<1>5. SleepsOnStarted'
  BY <1>0, StageNumbers, Bounds DEF unimplemented_abort, Gate, panic, BeepSleep, pit_sleep_ms,
     apic_sleep_ms, hcf, Inv, TypeOK, Numbers, StageOfSleep, SetUpByStage, SleepsOnStarted,
     BeepsLeft
<1>6. ToneHeld'
  BY DEF unimplemented_abort, Gate, panic, BeepSleep, pit_sleep_ms, apic_sleep_ms, hcf, Inv,
     ToneHeld
<1>7. BeepsLeft'
  BY <1>0, StageNumbers, Bounds DEF unimplemented_abort, Gate, panic, BeepSleep, pit_sleep_ms,
     apic_sleep_ms, hcf, Inv, TypeOK, Numbers, BeepsLeft, PanicHolds
<1>8. PanicHolds'
  BY DEF unimplemented_abort, Gate, panic, BeepSleep, pit_sleep_ms, apic_sleep_ms, hcf, Inv,
     TypeOK, Numbers, PanicHolds
<1> QED BY <1>1, <1>2, <1>3, <1>4, <1>5, <1>6, <1>7, <1>8 DEF Inv, TypeOK

\* Steps that change nothing.
LEMMA StutterInv ==
  ASSUME Inv, UNCHANGED vars
  PROVE  Inv'
BY DEF vars, Inv, TypeOK, Numbers, Switches, StageOfSleep, SetUpByStage, SleepsOnStarted, ToneHeld,
       BeepsLeft, PanicHolds

\* Every step of boot, timers and exceptions keeps the invariant.
LEMMA NextInv == Inv /\ [Next]_vars => Inv'
<1> SUFFICES ASSUME Inv, [Next]_vars PROVE Inv'
  OBVIOUS
<1>1. CASE setup_idt
  BY <1>1, setup_idtInv
<1>2. CASE setup_pic
  BY <1>2, setup_picInv
<1>3. CASE setup_pit
  BY <1>3, setup_pitInv
<1>4. CASE PitTest
  BY <1>4, PitTestInv
<1>5. CASE ChimeOver
  BY <1>5, ChimeOverInv
<1>6. CASE SelfTest
  BY <1>6, SelfTestInv
<1>7. CASE FailOver
  BY <1>7, FailOverInv
<1>8. CASE SetupReturns
  BY <1>8, SetupReturnsInv
<1>9. CASE KmainPanics
  BY <1>9, KmainPanicsInv
<1>10. CASE bootstrap_apic
  BY <1>10, bootstrap_apicInv
<1>11. CASE Calibrated
  BY <1>11, CalibratedInv
<1>12. CASE ApicTest
  BY <1>12, ApicTestInv
<1>13. CASE EndOfKmain
  BY <1>13, EndOfKmainInv
<1>14. CASE BeepOver
  BY <1>14, BeepOverInv
<1>15. CASE PauseOver
  BY <1>15, PauseOverInv
<1>16. CASE pit_irq
  BY <1>16, pit_irqInv
<1>17. CASE apic_timer_irq
  BY <1>17, apic_timer_irqInv
<1>18. CASE HaltingFault
  BY <1>18, HaltingFaultInv
<1>19. CASE unimplemented_abort
  BY <1>19, unimplemented_abortInv
<1>20. CASE unimplemented_fault \/ hlt \/ UNCHANGED vars
  BY <1>20, StutterInv DEF unimplemented_fault, hlt
<1> QED
  BY <1>1, <1>2, <1>3, <1>4, <1>5, <1>6, <1>7, <1>8, <1>9, <1>10, <1>11, <1>12, <1>13, <1>14,
     <1>15, <1>16, <1>17, <1>18, <1>19, <1>20 DEF Next, Kmain

-----------------------------------------------------------------------------
(* The theorems.                                                           *)

\* The inductive invariant holds of boot.
THEOREM BootInv == Spec => []Inv
BY InitInv, NextInv, PTL DEF Spec

\* The variables of kmain, the timers and panic keep their types: a stage of kmain,
\* a sleep no longer than asked for, no more beeps than PANIC_BEEPS.
THEOREM BootTypeOK == Spec => []TypeOK
<1>1. Inv => TypeOK
  BY DEF Inv
<1> QED BY <1>1, BootInv, PTL

\* Outside exception handlers that keep the processor, pit_sleep_ms and
\* apic_sleep_ms are only called when their timer ticks and interrupts are on:
\* kmain's tests, k_test_fail and panic included, at whatever point they happen.
THEOREM BootSleepCanEnd == Spec => []SleepCanEnd
<1>1. Inv => SleepCanEnd
  BY DEF Inv, TypeOK, Numbers, SetUpByStage, SleepsOnStarted, SleepCanEnd
<1> QED BY <1>1, BootInv, PTL

\* pit_timer_running and apic_initialized, by which k_test_fail and panic choose a
\* timer, never name one that does not tick.
THEOREM BootFlagsTruthful == Spec => []FlagsTruthful
<1>1. Inv => FlagsTruthful
  BY DEF Inv, TypeOK, Numbers, SetUpByStage, FlagsTruthful
<1> QED BY <1>1, BootInv, PTL

\* A step after a panic began: the panic goes on, or it is over.
LEMMA FinalStep ==
  ASSUME Inv, Next, panics > 0
  PROVE  /\ stage' = stage /\ doing' \in {"beep", "pause", "hcf"} /\ beeps' >= beeps
         /\ doing = "hcf" => doing' = "hcf"
<1>1. doing \in {"beep", "pause", "hcf"} /\ beeps \in Nat
  BY Bounds DEF Inv, PanicHolds, TypeOK, Numbers
<1>2. CASE BeepOver \/ PauseOver
  BY <1>1, <1>2 DEF BeepOver, PauseOver, NextBeep, Awake, BeepSleep, apic_sleep_ms, pit_sleep_ms, hcf
<1>3. CASE pit_irq \/ apic_timer_irq
  BY <1>1, <1>3 DEF pit_irq, apic_timer_irq, Tick
<1>4. CASE HaltingFault \/ unimplemented_abort
  BY <1>1, <1>4 DEF HaltingFault, unimplemented_abort, panic, hcf
<1>5. CASE unimplemented_fault \/ hlt
  BY <1>1, <1>5 DEF unimplemented_fault, hlt, vars
<1>6. ~(\/ setup_idt \/ setup_pic \/ setup_pit \/ SelfTest \/ SetupReturns \/ KmainPanics
        \/ bootstrap_apic \/ EndOfKmain)
  BY <1>1 DEF setup_idt, setup_pic, setup_pit, SelfTest, SetupReturns, KmainPanics, bootstrap_apic,
     EndOfKmain, At
<1>7. ~(PitTest \/ ChimeOver \/ FailOver \/ Calibrated \/ ApicTest)
  BY <1>1 DEF PitTest, ChimeOver, FailOver, Calibrated, ApicTest, Awake
<1> QED BY <1>2, <1>3, <1>4, <1>5, <1>6, <1>7 DEF Next, Kmain

\* After the first panic, raised by kmain or by a handler, kmain does not go on, the beeps
\* go on to their end or stop, and a halt stays, however many exceptions follow.
THEOREM BootPanicIsFinal == Spec => PanicIsFinal
<1>1. Inv /\ [Next]_vars => [panics > 0 =>
        /\ stage' = stage
        /\ doing' \in {"beep", "pause", "hcf"}
        /\ beeps' >= beeps
        /\ doing = "hcf" => doing' = "hcf"]_vars
  BY FinalStep
<1> QED BY <1>1, BootInv, PTL DEF Spec, PanicIsFinal

\* hcf is reached with the speaker off, by kmain, by a panic and by handlers, unless an
\* exception interrupted the chime, a failing test's tone or a beep.
THEOREM BootHaltsSilent == Spec => []HaltsSilent
<1>1. Inv => HaltsSilent
  BY DEF Inv, ToneHeld, HaltsSilent
<1> QED BY <1>1, BootInv, PTL
===============================================================================
