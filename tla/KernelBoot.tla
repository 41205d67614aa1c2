----------------------------- MODULE KernelBoot -----------------------------
(***************************************************************************)
(* The boot sequence of kmain (kernel/src/core.c) with what it shares with *)
(* interrupt handlers: the two timers and the sleeps on them (pit.c,       *)
(* apic.c), the speaker, the state flags (state.c), failing self tests     *)
(* (k_test_fail in log.c), panic and hcf, and the exceptions of            *)
(* interupt/handler.c.                                                     *)
(*                                                                         *)
(* A sleep is the number of ticks missing until its end; a tick is counted *)
(* only by a processor that takes interrupts, from a timer that runs.      *)
(***************************************************************************)
EXTENDS Integers, Sequences

CONSTANTS
  PANIC_BEEPS,
  SleepTicks,    \* ticks of every sleep (10 to 600 in the code)
  Exceptions     \* the kinds of exceptions that happen: "fault", "halting", "abort"

ASSUME BootAssumption ==
  /\ PANIC_BEEPS \in Nat \ {0} /\ SleepTicks \in Nat \ {0}
  /\ Exceptions \subseteq {"fault", "halting", "abort"}

\* kmain, as far as it sets up what is modelled here; "end" is its hcf.
Stages == <<"setup_idt", "setup_pic", "setup_pit", "pit_test", "efer_test", "setup_pmm",
            "pmm_test", "setup_vmm", "setup_heap", "heap_test", "bootstrap_apic", "apic_test",
            "bootstrap_acpi", "setup_io_apic", "end">>

\* pmm_test and heap_test allocate, and pp_alloc may panic.
CanPanic == {"setup_pmm", "pmm_test", "setup_vmm", "setup_heap", "heap_test", "bootstrap_apic",
             "bootstrap_acpi", "setup_io_apic"}
Tests == {"efer_test", "pmm_test", "heap_test"}
Plain == {"setup_pmm", "setup_vmm", "setup_heap", "bootstrap_acpi", "setup_io_apic"}

VARIABLES
  stage,         \* position in Stages
  doing,         \* "kmain", "hcf", or the sleep under way: "pit_sleep", "chime",
                 \* "fail_hold", "calibrate", "apic_sleep", "beep", "pause"
  timer, left,   \* the timer slept on, and the ticks missing
  IF_flag,       \* the processor takes interrupts
  isr,           \* an exception handler runs, and will not return
  pit_on, apic_on,    \* the timer's interrupt is delivered
  pit_initialized, pit_timer_running, apic_initialized,
  speaker,
  panics, beeps,
  cut            \* history: an exception that does not return came during a tone

vars == <<stage, doing, timer, left, IF_flag, isr, pit_on, apic_on, pit_initialized,
          pit_timer_running, apic_initialized, speaker, panics, beeps, cut>>

timers == <<pit_on, apic_on>>
flags == <<pit_initialized, pit_timer_running, apic_initialized>>
sleep == <<doing, timer, left>>
context == <<IF_flag, isr, cut>>
alarm == <<panics, beeps>>

Init ==
  /\ stage = 1 /\ doing = "kmain"
  /\ timer = "pit" /\ left = 0
  /\ IF_flag = FALSE /\ isr = FALSE
  /\ pit_on = FALSE /\ apic_on = FALSE
  /\ pit_initialized = FALSE /\ pit_timer_running = FALSE /\ apic_initialized = FALSE
  /\ speaker = FALSE
  /\ panics = 0 /\ beeps = 0
  /\ cut = FALSE

At(name) == doing = "kmain" /\ Stages[stage] = name
Advance == stage' = stage + 1

-----------------------------------------------------------------------------
(* Sleeping.                                                               *)

pit_sleep_ms(why) == doing' = why /\ timer' = "pit" /\ left' = SleepTicks - 1
apic_sleep_ms(why) == doing' = why /\ timer' = "apic" /\ left' = SleepTicks

Awake(why) == doing = why /\ left = 0
Return == doing' = "kmain" /\ UNCHANGED <<timer, left>>

Tick(t) ==
  /\ IF_flag
  /\ left' = IF timer = t /\ left > 0 THEN left - 1 ELSE left
  /\ UNCHANGED <<stage, doing, timer, context, timers, flags, speaker, alarm>>

pit_irq == pit_on /\ Tick("pit")
apic_timer_irq == apic_on /\ Tick("apic")

-----------------------------------------------------------------------------
(* panic and hcf.                                                          *)

hcf == doing' = "hcf" /\ timer' = timer /\ left' = 0

BeepSleep(why) == IF apic_initialized THEN apic_sleep_ms(why) ELSE pit_sleep_ms(why)

\* Slip: a panic in a panic is not told apart.
panic_nested ==
  /\ panics' = panics + 1
  /\ beeps' = 0
  /\ IF pit_initialized THEN speaker' = TRUE /\ BeepSleep("beep") ELSE hcf /\ UNCHANGED speaker

\* A panic in a panic only stops; the first one beeps if the PIT is set up.
panic ==
  IF panics > 0 THEN hcf /\ UNCHANGED <<speaker, alarm>>
  ELSE /\ panics' = panics + 1
       /\ beeps' = 0
       /\ IF pit_initialized THEN speaker' = TRUE /\ BeepSleep("beep")
          ELSE hcf /\ UNCHANGED speaker

KmainPanics ==
  /\ doing = "kmain" /\ Stages[stage] \in CanPanic
  /\ panic
  /\ UNCHANGED <<stage, context, timers, flags>>

\* Slip: the last beep is not ended.
NextBeep_loud ==
  /\ beeps' = beeps + 1
  /\ \/ beeps + 1 < PANIC_BEEPS /\ speaker' = TRUE /\ BeepSleep("beep")
     \/ beeps + 1 >= PANIC_BEEPS /\ hcf /\ speaker' = TRUE

\* The loop goes on with another beep, or panic stops.
NextBeep ==
  /\ beeps' = beeps + 1
  /\ \/ beeps + 1 < PANIC_BEEPS /\ speaker' = TRUE /\ BeepSleep("beep")
     \/ beeps + 1 >= PANIC_BEEPS /\ hcf /\ speaker' = FALSE

\* The end of a beep; with the PIT the next one starts at once.
BeepOver ==
  /\ Awake("beep")
  /\ \/ apic_initialized /\ speaker' = FALSE /\ apic_sleep_ms("pause") /\ UNCHANGED beeps
     \/ ~apic_initialized /\ NextBeep
  /\ UNCHANGED <<stage, context, timers, flags, panics>>

PauseOver ==
  /\ Awake("pause")
  /\ NextBeep
  /\ UNCHANGED <<stage, context, timers, flags, panics>>

-----------------------------------------------------------------------------
(* kmain.                                                                  *)

setup_idt ==
  /\ At("setup_idt")
  /\ Advance
  /\ UNCHANGED <<sleep, context, timers, flags, speaker, alarm>>

setup_pic ==
  /\ At("setup_pic")
  /\ Advance
  /\ IF_flag' = TRUE
  /\ UNCHANGED <<sleep, isr, cut, timers, flags, speaker, alarm>>

\* setup_pit, then the sleep it is tested with.
setup_pit ==
  /\ At("setup_pit")
  /\ Advance
  /\ pit_on' = TRUE
  /\ IF_flag' = TRUE
  /\ pit_sleep_ms("pit_sleep")
  /\ UNCHANGED <<isr, cut, apic_on, flags, speaker, alarm>>

\* The chime is played when the sleep took the right time; otherwise the PIT is
\* not marked as set up, and the failure is silent.
PitTest ==
  /\ Awake("pit_sleep")
  /\ \/ speaker' = TRUE /\ pit_sleep_ms("chime") /\ UNCHANGED stage
     \/ Return /\ Advance /\ UNCHANGED speaker
  /\ UNCHANGED <<context, timers, flags, alarm>>

ChimeOver ==
  /\ Awake("chime")
  /\ speaker' = FALSE
  /\ pit_initialized' = TRUE /\ pit_timer_running' = TRUE
  /\ Return /\ Advance
  /\ UNCHANGED <<context, timers, apic_initialized, alarm>>

\* Slip: the tone is held on a timer that is not known to run.
k_test_fail_holding ==
  IF pit_initialized THEN speaker' = TRUE /\ apic_sleep_ms("fail_hold")
  ELSE UNCHANGED <<sleep, speaker>>

\* The tone is held when a timer is known to run, and is switched off at once
\* otherwise.
k_test_fail ==
  IF pit_initialized /\ pit_timer_running THEN speaker' = TRUE /\ pit_sleep_ms("fail_hold")
  ELSE IF pit_initialized /\ apic_initialized
  THEN speaker' = TRUE /\ apic_sleep_ms("fail_hold")
  ELSE speaker' = (speaker /\ ~pit_initialized) /\ Return

SelfTest ==
  /\ doing = "kmain" /\ Stages[stage] \in Tests
  /\ Advance
  /\ (UNCHANGED <<sleep, speaker>> \/ k_test_fail)
  /\ UNCHANGED <<context, timers, flags, alarm>>

FailOver ==
  /\ Awake("fail_hold")
  /\ speaker' = FALSE
  /\ Return
  /\ UNCHANGED <<stage, context, timers, flags, alarm>>

\* setup_pmm, setup_vmm, setup_heap, bootstrap_acpi and setup_io_apic, when they
\* do not panic.
SetupReturns ==
  /\ doing = "kmain" /\ Stages[stage] \in Plain
  /\ Advance
  /\ UNCHANGED <<sleep, context, timers, flags, speaker, alarm>>

\* Slip: the APIC is marked as set up before its timer is started.
bootstrap_apic_early ==
  /\ At("bootstrap_apic")
  /\ pit_sleep_ms("calibrate")
  /\ apic_initialized' = TRUE
  /\ UNCHANGED <<stage, context, timers, pit_initialized, pit_timer_running, speaker, alarm>>

\* apic_start_timer measures the timer against a sleep on the PIT.
bootstrap_apic ==
  /\ At("bootstrap_apic")
  /\ pit_sleep_ms("calibrate")
  /\ UNCHANGED <<stage, context, timers, flags, speaker, alarm>>

\* Slip: the APIC's timer is not started.
Calibrated_stopped ==
  /\ Awake("calibrate")
  /\ pit_on' = TRUE
  /\ pit_timer_running' = FALSE
  /\ apic_sleep_ms("apic_sleep")
  /\ Advance
  /\ UNCHANGED <<context, apic_on, pit_initialized, apic_initialized, speaker, alarm>>

\* The APIC's timer runs from here on, then the sleep it is tested with.
Calibrated ==
  /\ Awake("calibrate")
  /\ apic_on' = TRUE /\ pit_on' = TRUE
  /\ pit_timer_running' = FALSE
  /\ apic_sleep_ms("apic_sleep")
  /\ Advance
  /\ UNCHANGED <<context, pit_initialized, apic_initialized, speaker, alarm>>

ApicTest ==
  /\ Awake("apic_sleep")
  /\ Advance
  /\ \/ apic_initialized' = TRUE /\ Return /\ UNCHANGED speaker
     \/ k_test_fail /\ UNCHANGED apic_initialized
  /\ UNCHANGED <<context, timers, pit_initialized, pit_timer_running, alarm>>

EndOfKmain ==
  /\ At("end")
  /\ hcf
  /\ UNCHANGED <<stage, context, timers, flags, speaker, alarm>>

-----------------------------------------------------------------------------
(* Exceptions.                                                             *)

\* A gate whose handler does not return: interrupts stay off.
Gate == stage > 1 /\ isr' = TRUE /\ IF_flag' = FALSE /\ cut' = (cut \/ speaker)

\* Most faults and traps are logged, and the handler returns.
unimplemented_fault == "fault" \in Exceptions /\ stage > 1 /\ doing # "hcf" /\ UNCHANGED vars

\* #UD, #GP and #PF: logged, then hcf inside the handler.
HaltingFault ==
  /\ "halting" \in Exceptions
  /\ doing # "hcf"
  /\ Gate
  /\ hcf
  /\ UNCHANGED <<stage, timers, flags, speaker, alarm>>

\* #DF, #MC and the APIC's errors, which also reach a processor that halted.
unimplemented_abort ==
  /\ "abort" \in Exceptions
  /\ Gate
  /\ panic
  /\ UNCHANGED <<stage, timers, flags>>

\* hlt, in hcf or in a sleep whose time has not come.
hlt == (doing = "hcf" \/ left > 0) /\ UNCHANGED vars

Kmain ==
  \/ setup_idt \/ setup_pic \/ setup_pit \/ PitTest \/ ChimeOver \/ SelfTest \/ FailOver
  \/ SetupReturns \/ KmainPanics \/ bootstrap_apic \/ Calibrated \/ ApicTest \/ EndOfKmain
  \/ BeepOver \/ PauseOver

Next ==
  \/ Kmain \/ pit_irq \/ apic_timer_irq
  \/ unimplemented_fault \/ HaltingFault \/ unimplemented_abort \/ hlt

Spec == Init /\ [][Next]_vars

\* The processor runs, and a timer that runs keeps ticking.
FairSpec == Spec /\ WF_vars(Kmain) /\ WF_vars(pit_irq) /\ WF_vars(apic_timer_irq)

-----------------------------------------------------------------------------
(* Properties.                                                             *)

\* Type invariant: numbers and names, and switches.
Numbers ==
  /\ stage \in 1 .. Len(Stages)
  /\ doing \in {"kmain", "hcf", "pit_sleep", "chime", "fail_hold", "calibrate", "apic_sleep",
                "beep", "pause"}
  /\ timer \in {"pit", "apic"} /\ left \in 0 .. SleepTicks
  /\ panics \in Nat /\ beeps \in 0 .. PANIC_BEEPS
Switches ==
  /\ IF_flag \in BOOLEAN /\ isr \in BOOLEAN /\ pit_on \in BOOLEAN /\ apic_on \in BOOLEAN
  /\ pit_initialized \in BOOLEAN /\ pit_timer_running \in BOOLEAN
  /\ apic_initialized \in BOOLEAN /\ speaker \in BOOLEAN
  /\ cut \in BOOLEAN
TypeOK == Numbers /\ Switches

\* A sleep of kmain, or of a panic it called, can end: its timer runs and its
\* ticks are counted.
SleepCanEnd ==
  (left > 0 /\ ~isr) => IF_flag /\ (timer = "pit" => pit_on) /\ (timer = "apic" => apic_on)

\* The flags other code chooses a timer by are true only of timers that run.
FlagsTruthful == (pit_timer_running => pit_on) /\ (apic_initialized => apic_on)

\* A panic is final, whatever exceptions come in it, panic again or halt: boot does not
\* go on, no tone or pause of the panic starts over, and what halted stays halted.
PanicIsFinal ==
  [][panics > 0 =>
       /\ stage' = stage
       /\ doing' \in {"beep", "pause", "hcf"}
       /\ beeps' >= beeps
       /\ doing = "hcf" => doing' = "hcf"]_vars

\* "Unrecoverable error: %s Halt.": every panic ends in hcf.
EveryPanicHalts == (panics > 0) ~> (doing = "hcf")

\* A processor that halted, at the end of kmain, in a panic or in a handler, is silent,
\* unless an exception cut off a tone that was sounding: no handler ends the tone of the
\* code it interrupts.
HaltsSilent == doing = "hcf" /\ speaker => cut

\* Boot comes to its end, or to a panic's, unless an exception handler keeps the
\* processor: no sleep on the way is without end.
BootEnds == <>(doing = "hcf" \/ isr)
=============================================================================
