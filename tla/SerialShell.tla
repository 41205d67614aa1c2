----------------------------- MODULE SerialShell -----------------------------
(***************************************************************************)
(* The serial port and the debug shell that lives in its interrupt         *)
(* handler: kernel/src/driver/rs232.c, kernel/src/interupt/                *)
(* rs232_handler.c, the path through exception_handler in                  *)
(* kernel/src/interupt/handler.c, and the sleep the "time" command takes   *)
(* (kernel/src/platform/x86_64/rtc.c, apic.c).                             *)
(*                                                                         *)
(* The UART and the interrupt controller are external: a received byte     *)
(* goes into the FIFO, the request line is up while the FIFO holds a byte, *)
(* and the controller latches a request when the line rises.  Gates clear  *)
(* the interrupt flag, iretq sets it again.                                *)
(***************************************************************************)
EXTENDS Integers, Sequences, FiniteSets, FiniteSetsExt, SequencesExt

CONSTANTS
  Letters,      \* bytes other than return and backspace
  CR, BS, ZERO, \* return, backspace, the zero byte
  Commands,     \* sequence of [name, ticks]: in the order of ADD_COMMAND, with the
                \* timer ticks each sleeps for
  BufferSize,   \* bytes of line_buffer: 255
  IndexRange,   \* values of buffer_index, a uint8_t: 256
  FifoSize,     \* bytes the receive FIFO holds
  MaxKeys       \* keys pressed in a behaviour

Nothing == <<ZERO>>   \* replies that are no command
Unknown == <<CR>>

ASSUME ShellAssumption ==
  /\ BufferSize \in Nat \ {0} /\ IndexRange = BufferSize + 1
  /\ FifoSize \in Nat \ {0} /\ MaxKeys \in Nat
  /\ CR # BS /\ BS # ZERO /\ ZERO # CR /\ {CR, BS, ZERO} \cap Letters = {}
  /\ \A i \in DOMAIN Commands : Commands[i].name \in Seq(Letters) /\ Commands[i].ticks \in Nat

VARIABLES
  unmasked,          \* IRQ 4 is unmasked: setup_serial succeeded
  serial_interrupt_initialized,
  fifo,              \* the UART's receive FIFO
  requested,         \* the controller holds a request of IRQ 4
  in_service,        \* IRQ 4 was delivered and not acknowledged
  IF_flag,           \* the processor takes interrupts
  mode,              \* "boot", "idle", "isr", "command"
  line_buffer, buffer_index, terminal_running,
  wait,              \* ticks until end_ms of the sleep the command is in
  reply,             \* what the last line was answered with
  overrun,           \* history: a byte was stored outside line_buffer
  full,              \* history: the line that is being typed has filled line_buffer
  keys, inLine,      \* history: keys pressed in all, and since the last return
  longest,           \* history: the letter furthest from the return before it
  burst              \* history: a byte arrived before the one before it was dealt with

vars == <<unmasked, serial_interrupt_initialized, fifo, requested, in_service, IF_flag, mode,
          line_buffer, buffer_index, terminal_running, wait, reply, overrun, full, keys, inLine,
          longest, burst>>

hardware == <<fifo, requested, in_service, IF_flag, unmasked, serial_interrupt_initialized>>
history == <<keys, inLine, longest, burst>>
shell == <<line_buffer, buffer_index, terminal_running, wait, reply, overrun, full>>

Index == 0 .. BufferSize - 1
Bytes == Letters \cup {CR, BS, ZERO}

Init ==
  /\ unmasked = FALSE /\ serial_interrupt_initialized = FALSE
  /\ fifo = <<>> /\ requested = FALSE /\ in_service = FALSE /\ IF_flag = TRUE
  /\ mode = "boot"
  /\ line_buffer = [i \in Index |-> ZERO] /\ buffer_index = 0 /\ terminal_running = FALSE
  /\ wait = 0 /\ reply = Nothing /\ overrun = FALSE /\ full = FALSE
  /\ keys = 0 /\ inLine = 0 /\ longest = 0 /\ burst = FALSE

\* The port passes its loopback test or stays masked; a bad scratch register, noted
\* by check_com1, is forgotten when the loopback test passes.
setup_serial ==
  /\ mode = "boot"
  /\ mode' = "idle"
  /\ \E loopback \in BOOLEAN :
       unmasked' = loopback /\ serial_interrupt_initialized' = loopback
  /\ UNCHANGED <<fifo, requested, in_service, IF_flag, shell, history>>

-----------------------------------------------------------------------------
(* Interrupts.                                                             *)

\* A byte reaches a port that works (one left in loopback receives nothing).
Receive(b) ==
  /\ unmasked
  /\ keys < MaxKeys
  /\ Len(fifo) < FifoSize
  /\ fifo' = Append(fifo, b)
  /\ requested' = (requested \/ fifo = <<>>)
  /\ keys' = keys + 1
  /\ inLine' = IF b = CR THEN 0 ELSE inLine + 1
  /\ longest' = IF b \in Letters /\ inLine >= longest THEN inLine + 1 ELSE longest
  /\ burst' = (burst \/ fifo # <<>> \/ mode # "idle")
  /\ UNCHANGED <<unmasked, serial_interrupt_initialized, in_service, IF_flag, mode, shell>>

\* The gate of vector 0x24.
Interrupt ==
  /\ mode = "idle" /\ IF_flag
  /\ unmasked /\ requested /\ ~in_service
  /\ mode' = "isr"
  /\ IF_flag' = FALSE /\ requested' = FALSE /\ in_service' = TRUE
  /\ UNCHANGED <<unmasked, serial_interrupt_initialized, fifo, shell, history>>

\* Vector 0xf1: a tick of the timer, when the processor takes interrupts.
apic_timer_irq ==
  /\ IF_flag /\ mode # "boot"
  /\ wait' = IF wait > 0 THEN wait - 1 ELSE 0
  /\ UNCHANGED <<hardware, mode, line_buffer, buffer_index, terminal_running, reply, overrun,
                 full, history>>

\* Slip: the controller is not told that the interrupt was taken.
exception_handler_unacknowledged == in_service' = in_service

\* exception_handler acknowledges before it handles; the vectors of the two
\* controllers are told apart.
exception_handler == in_service' = FALSE

-----------------------------------------------------------------------------
(* rs232_irq.                                                              *)

iretq == mode' = "idle" /\ IF_flag' = TRUE

\* memcmp with the name of a command.
Matches(buffer, name) ==
  \A i \in 1 .. Len(name) : i <= BufferSize /\ buffer[i - 1] = name[i]

\* line_buffer after byte was stored at the index.
Stored(byte) == [i \in Index |-> IF i = buffer_index THEN byte ELSE line_buffer[i]]

\* line_buffer[buffer_index] = byte, with no check of the index.  The byte behind the
\* buffer is terminal_running, where the linker puts that next to it, or padding.
Store(byte) ==
  /\ line_buffer' = Stored(byte)
  /\ overrun' = (overrun \/ buffer_index \notin Index)
  /\ \/ UNCHANGED terminal_running
     \/ buffer_index \notin Index /\ terminal_running' = (byte # ZERO)

EraseLast == Store(ZERO) /\ buffer_index' = buffer_index - 1

\* Ignored: a key before the shell runs, or a backspace at the start of the line.
Ignored(byte) == (byte # CR /\ ~terminal_running) \/ (byte = BS /\ buffer_index = 0)

\* Slip: the line is compared before the return that ends it was stored, so that the
\* key erased last counts.
Answer_early(buffer) ==
  LET found == {i \in DOMAIN Commands : Matches(line_buffer, Commands[i].name)}
  IN  IF found # {} THEN Commands[Min(found)]
      ELSE [name |-> IF terminal_running /\ buffer[0] # CR THEN Unknown ELSE Nothing,
            ticks |-> 0]

\* The first command that matches, and the ticks it sleeps for.
Answer(buffer) ==
  LET found == {i \in DOMAIN Commands : Matches(buffer, Commands[i].name)}
  IN  IF found # {} THEN Commands[Min(found)]
      ELSE [name |-> IF terminal_running /\ buffer[0] # CR THEN Unknown ELSE Nothing,
            ticks |-> 0]

rs232_irq ==
  LET byte == Head(fifo)
  IN  /\ mode = "isr"
      /\ exception_handler
      /\ fifo' = Tail(fifo)
      /\ \/ /\ Ignored(byte)
            /\ iretq
            /\ UNCHANGED shell
         \/ /\ ~Ignored(byte) /\ byte = BS
            /\ EraseLast
            /\ iretq
            /\ UNCHANGED <<wait, reply, full>>
         \/ /\ ~Ignored(byte) /\ byte # BS
            /\ Store(byte)
            /\ buffer_index' = (buffer_index + 1) % IndexRange
            /\ \/ /\ byte # CR /\ iretq
                  /\ full' = (full \/ buffer_index' = BufferSize)
                  /\ UNCHANGED <<wait, reply>>
               \/ /\ byte = CR
                  /\ mode' = "command"
                  /\ reply' = Answer(Stored(byte)).name
                  /\ wait' = Answer(Stored(byte)).ticks
                  /\ UNCHANGED <<IF_flag, full>>
      /\ UNCHANGED <<unmasked, serial_interrupt_initialized, requested, history>>

\* memset(line_buffer, 0x00, buffer_index).
Cleared == [i \in Index |-> IF i < buffer_index THEN ZERO ELSE line_buffer[i]]

\* The loop of apic_sleep_ms while the time has not come.
apic_sleep_ms == mode = "command" /\ wait > 0 /\ UNCHANGED vars

\* Slip: the index is not reset.
newline_unreset ==
  /\ mode = "command" /\ wait = 0
  /\ line_buffer' = Cleared
  /\ terminal_running' = TRUE
  /\ full' = FALSE
  /\ iretq
  /\ UNCHANGED <<unmasked, serial_interrupt_initialized, fifo, requested, in_service, wait, reply,
                 buffer_index, overrun, history>>

\* The end of a command, once its sleep is over: a new line, the prompt.
newline ==
  /\ mode = "command" /\ wait = 0
  /\ line_buffer' = Cleared
  /\ buffer_index' = 0
  /\ terminal_running' = TRUE
  /\ full' = FALSE
  /\ iretq
  /\ UNCHANGED <<unmasked, serial_interrupt_initialized, fifo, requested, in_service, wait, reply,
                 overrun, history>>

\* hcf, at the end of kmain: nothing but interrupts happens.
hcf == mode = "idle" /\ UNCHANGED vars

Next ==
  \/ setup_serial \/ Interrupt \/ apic_timer_irq \/ rs232_irq \/ apic_sleep_ms \/ newline \/ hcf
  \/ \E b \in Letters \cup {CR, BS} : Receive(b)

Spec == Init /\ [][Next]_vars

\* The processor runs, and takes the interrupts that are pending.
FairSpec == Spec /\ WF_vars(setup_serial) /\ WF_vars(Interrupt) /\ WF_vars(apic_timer_irq)
                 /\ WF_vars(rs232_irq) /\ WF_vars(newline)

-----------------------------------------------------------------------------
(* Properties.                                                             *)

\* rs232_irq checks no bound, and stores a byte outside line_buffer only when someone
\* typed as many keys on one line as the buffer has bytes: however keys and returns wait
\* in the FIFO meanwhile, lines do not run together.
InputInBuffer == overrun => longest >= BufferSize

\* Every key reaches the shell ("Echo what we got in."): once no more are pressed the
\* FIFO is empty, if no byte came while another was dealt with and no command sleeps.
KeysRead == <>burst \/ <>(wait > 0) \/ <>[](fifo = <<>>)

\* "Write the new prompt.": after every command the prompt comes back.
EveryPromptReturns == (mode = "command") ~> (mode = "idle")

\* The line as the user sees it: the bytes before the index, less the return that
\* is being answered.
VisibleLine ==
  [i \in 1 .. (IF mode = "command" THEN buffer_index - 1 ELSE buffer_index) |->
     line_buffer[i - 1]]

Abs == INSTANCE LineShell WITH running <- terminal_running, line <- VisibleLine

\* The shell implements the abstract one: the command that runs is decided by the
\* keys of this line alone, whatever earlier lines and erased keys left in the
\* buffer.  Only a line that filled the buffer is not followed, up to its prompt; the
\* lines after it are again.
ImplementsLineShell == Abs!Init /\ [][~full => Abs!Next]_(Abs!svars)
=============================================================================
