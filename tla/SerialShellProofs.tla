-------------------------- MODULE SerialShellProofs --------------------------
(***************************************************************************)
(* Proofs about SerialShell, for lines of every length: a byte is stored   *)
(* outside line_buffer only when as many keys as it has bytes were pressed *)
(* on one line, and the shell implements LineShell on every line that does *)
(* not fill the buffer, also after lines that did.                         *)
(*                                                                         *)
(* The keys of a line are counted when they are pressed, while the buffer  *)
(* is filled by the handler, later and perhaps much later: the invariant   *)
(* follows a line through the FIFO (Room).  A letter that waits there has  *)
(* its place in the buffer, counted from the last return before it, or     *)
(* from the index if there is none.                                        *)
(***************************************************************************)
EXTENDS SerialShell, SequenceTheorems, TLAPS

Keys == Letters \cup {CR, BS}

\* Where the handler stores the next byte of the line; in a command the line is over.
LineStart == IF mode = "command" THEN 0 ELSE buffer_index

Types ==
  /\ fifo \in Seq(Keys)
  /\ mode \in {"boot", "idle", "isr", "command"}
  /\ terminal_running \in BOOLEAN /\ requested \in BOOLEAN /\ full \in BOOLEAN
  /\ line_buffer \in [Index -> Bytes]
  /\ buffer_index \in 0 .. BufferSize
  /\ inLine \in Nat /\ longest \in Nat

\* The handler runs for a byte, and one request is for one byte.
Handler ==
  /\ requested => fifo # <<>>
  /\ mode = "isr" => fifo # <<>> /\ ~requested

\* No return waits between positions i and j of q.
NoReturn(q, i, j) == \A k \in 1 .. Len(q) : i < k /\ k < j => q[k] # CR

\* Letters that wait in q have room in a line of most bytes of which start are stored,
\* and so have the keys to come after the keys pressed in this line.
RoomIn(q, start, pressed, most) ==
  /\ \A j \in 1 .. Len(q) : q[j] \in Letters /\ NoReturn(q, 0, j) => start + j <= most
  /\ \A i, j \in 1 .. Len(q) :
       i < j /\ q[i] = CR /\ q[j] \in Letters /\ NoReturn(q, i, j) => j - i <= most
  /\ NoReturn(q, 0, Len(q) + 1) => start + Len(q) <= pressed
  /\ \A i \in 1 .. Len(q) : q[i] = CR /\ NoReturn(q, i, Len(q) + 1) => Len(q) - i <= pressed

Room == LineStart <= longest /\ RoomIn(fifo, LineStart, inLine, longest)

\* As long as no line was as long as the buffer, its letters have room and nothing was
\* stored outside.
Fitting == longest < BufferSize => Room /\ ~overrun /\ ~full

\* The line before the index is letters, and empty before the shell runs.
Typed ==
  LET length == IF mode = "command" THEN buffer_index - 1 ELSE buffer_index
  IN  /\ \A i \in 0 .. length - 1 : line_buffer[i] \in Letters
      /\ ~terminal_running => length = 0

\* The reply to a line is given while it is still in the buffer.
Answered == mode = "command" => reply = Abs!Reply(VisibleLine)

\* A line that did not fill the buffer is in it, with its return.
Line ==
  ~full => /\ IF mode = "command" THEN buffer_index >= 1 ELSE buffer_index < BufferSize
           /\ Typed /\ Answered

Inv == Types /\ Handler /\ Line

-----------------------------------------------------------------------------
(* The FIFO.                                                               *)

\* A key is pressed.
LEMMA RoomAppend ==
  ASSUME NEW q \in Seq(Keys), NEW start \in Nat, NEW pressed \in Nat, NEW most \in Nat, NEW b \in Keys,
         RoomIn(q, start, pressed, most), b \in Letters => pressed < most
  PROVE  RoomIn(Append(q, b), start, IF b = CR THEN 0 ELSE pressed + 1, most)
<1> DEFINE r == Append(q, b)
           m == Len(q)
           now == IF b = CR THEN 0 ELSE pressed + 1
<1>1. /\ m \in Nat /\ Len(r) = m + 1 /\ r[m + 1] = b
      /\ \A k \in 1 .. m : r[k] = q[k]
  OBVIOUS
<1>2. CR \notin Letters
  BY ShellAssumption
<1> HIDE DEF r, m
<1>3. \A i, j \in 0 .. m + 1 : NoReturn(r, i, j) => NoReturn(q, i, j)
  BY <1>1 DEF NoReturn, m
<1>4. \A i \in 0 .. m : NoReturn(r, i, m + 2) => NoReturn(q, i, m + 1) /\ b # CR
  BY <1>1 DEF NoReturn, m
<1>5. \A j \in 1 .. Len(r) : r[j] \in Letters /\ NoReturn(r, 0, j) => start + j <= most
  BY <1>1, <1>2, <1>3 DEF RoomIn, m
<1>6. \A i, j \in 1 .. Len(r) :
        i < j /\ r[i] = CR /\ r[j] \in Letters /\ NoReturn(r, i, j) => j - i <= most
  BY <1>1, <1>2, <1>3 DEF RoomIn, m
<1>7. NoReturn(r, 0, Len(r) + 1) => start + Len(r) <= now
  BY <1>1, <1>4 DEF RoomIn, m
<1>8. \A i \in 1 .. Len(r) : r[i] = CR /\ NoReturn(r, i, Len(r) + 1) => Len(r) - i <= now
  BY <1>1, <1>4 DEF RoomIn, m
<1> HIDE DEF now
<1> QED BY <1>5, <1>6, <1>7, <1>8 DEF RoomIn, r, now

\* A line may become longer.
LEMMA RoomGrows ==
  ASSUME NEW q \in Seq(Keys), NEW start \in Nat, NEW pressed \in Nat,
         NEW most \in Nat, NEW more \in Nat, most <= more, RoomIn(q, start, pressed, most)
  PROVE  RoomIn(q, start, pressed, more)
BY DEF RoomIn

\* A byte is read: one of the line, that takes one place at most, or the return that
\* ends it.
LEMMA RoomTail ==
  ASSUME NEW q \in Seq(Keys), q # <<>>, NEW start \in Nat, NEW pressed \in Nat, NEW most \in Nat, NEW next \in Nat,
         RoomIn(q, start, pressed, most), IF q[1] = CR THEN next = 0 ELSE next <= start + 1
  PROVE  RoomIn(Tail(q), next, pressed, most)
<1> DEFINE r == Tail(q)
           m == Len(r)
<1>1. m \in Nat /\ Len(q) = m + 1 /\ \A k \in 1 .. m : r[k] = q[k + 1]
  OBVIOUS
<1>1a. \A k \in 2 .. m + 1 : k - 1 \in 1 .. m /\ q[k] = r[k - 1]
  BY <1>1
<1>2. CR \notin Letters
  BY ShellAssumption
<1> HIDE DEF r, m
<1>3. \A i, j \in 0 .. m + 1 : NoReturn(r, i, j) => NoReturn(q, i + 1, j + 1)
  <2> SUFFICES ASSUME NEW i \in 0 .. m + 1, NEW j \in 0 .. m + 1, NoReturn(r, i, j),
                      NEW k \in 1 .. m + 1, i + 1 < k, k < j + 1
               PROVE  q[k] # CR
    BY <1>1 DEF NoReturn
  <2>1. k - 1 \in 1 .. Len(r) /\ i < k - 1 /\ k - 1 < j /\ q[k] = r[k - 1]
    BY <1>1a DEF m
  <2> QED BY <2>1 DEF NoReturn
<1>4. \A j \in 0 .. m + 1 : NoReturn(r, 0, j) /\ q[1] # CR => NoReturn(q, 0, j + 1)
  <2> SUFFICES ASSUME NEW j \in 0 .. m + 1, NoReturn(r, 0, j), q[1] # CR,
                      NEW k \in 1 .. m + 1, 0 < k, k < j + 1
               PROVE  q[k] # CR
    BY <1>1 DEF NoReturn
  <2>1. CASE k = 1
    BY <2>1
  <2>2. CASE k # 1
    <3>1. k - 1 \in 1 .. Len(r) /\ 0 < k - 1 /\ k - 1 < j /\ q[k] = r[k - 1]
      BY <1>1a, <2>2 DEF m
    <3> QED BY <3>1 DEF NoReturn
  <2> QED BY <2>1, <2>2
<1>5. \A j \in 1 .. Len(r) : r[j] \in Letters /\ NoReturn(r, 0, j) => next + j <= most
  <2>1. CASE q[1] = CR
    BY <1>1, <1>2, <1>3, <2>1 DEF RoomIn, m
  <2>2. CASE q[1] # CR
    BY <1>1, <1>2, <1>4, <2>2 DEF RoomIn, m
  <2> QED BY <2>1, <2>2
<1>6. \A i, j \in 1 .. Len(r) :
        i < j /\ r[i] = CR /\ r[j] \in Letters /\ NoReturn(r, i, j) => j - i <= most
  <2> TAKE i, j \in 1 .. Len(r)
  <2> HAVE i < j /\ r[i] = CR /\ r[j] \in Letters /\ NoReturn(r, i, j)
  <2>1. i + 1 \in 1 .. Len(q) /\ j + 1 \in 1 .. Len(q) /\ i + 1 < j + 1
    BY <1>1 DEF m
  <2>2. q[i + 1] = CR /\ q[j + 1] \in Letters /\ NoReturn(q, i + 1, j + 1)
    <3>1. i \in 1 .. m /\ j \in 1 .. m /\ i \in 0 .. m + 1 /\ j \in 0 .. m + 1
      BY <1>1 DEF m
    <3> QED BY <1>1, <1>3, <3>1
  <2>3. (j + 1) - (i + 1) <= most
    BY <2>1, <2>2 DEF RoomIn
  <2> QED BY <2>3
<1>7. NoReturn(r, 0, Len(r) + 1) => next + Len(r) <= pressed
  <2>1. CASE q[1] = CR
    BY <1>1, <1>2, <1>3, <2>1 DEF RoomIn, m
  <2>2. CASE q[1] # CR
    BY <1>1, <1>2, <1>4, <2>2 DEF RoomIn, m
  <2> QED BY <2>1, <2>2
<1>8. \A i \in 1 .. Len(r) : r[i] = CR /\ NoReturn(r, i, Len(r) + 1) => Len(r) - i <= pressed
  BY <1>1, <1>3 DEF RoomIn, m
<1> QED BY <1>5, <1>6, <1>7, <1>8 DEF RoomIn, r

-----------------------------------------------------------------------------
(* The line.                                                               *)

\* The bytes a step shows outside.
Visible == Abs!Next \/ UNCHANGED <<terminal_running, VisibleLine, reply>>

StepGoal == Inv' /\ (~full => Visible)

Length == IF mode = "command" THEN buffer_index - 1 ELSE buffer_index

\* A step that leaves the line alone.
LEMMA LineKept ==
  ASSUME Inv, mode' = "command" <=> mode = "command",
         UNCHANGED <<line_buffer, buffer_index, terminal_running, reply, full>>
  PROVE  Line' /\ Visible /\ LineStart' = LineStart
<1>1. VisibleLine' = VisibleLine
  BY DEF VisibleLine
<1>2. Answered => Answered'
  BY <1>1 DEF Answered, Abs!Reply, Abs!Matching
<1>3. (Typed => Typed') /\ LineStart' = LineStart
  BY DEF Typed, LineStart
<1>4. Line'
  BY <1>2, <1>3 DEF Inv, Line
<1> QED BY <1>1, <1>3, <1>4 DEF Visible

\* What the invariant says of a line that did not fill the buffer, in plain terms.
LEMMA LineFacts ==
  ASSUME Inv, ~full
  PROVE  /\ VisibleLine \in Seq(Letters) /\ Len(VisibleLine) = Length
         /\ Length \in Nat
         /\ \A i \in 1 .. Length : VisibleLine[i] = line_buffer[i - 1]
         /\ ~terminal_running => Length = 0
<1>1. Length \in Nat
  BY ShellAssumption DEF Inv, Types, Line, Length
<1>2. VisibleLine = [i \in 1 .. Length |-> line_buffer[i - 1]]
  BY DEF VisibleLine, Length
<1>3. \A i \in 1 .. Length : line_buffer[i - 1] \in Letters
  BY <1>1 DEF Inv, Line, Typed, Length
<1>4. ~terminal_running => Length = 0
  BY DEF Inv, Line, Typed, Length
<1> HIDE DEF Length
<1> QED BY <1>1, <1>2, <1>3, <1>4

\* The shell begins with an empty line.
LEMMA InvInit == Init => Inv /\ Fitting
<1> SUFFICES ASSUME Init PROVE Inv /\ Fitting
  OBVIOUS
<1>1. /\ fifo = <<>> /\ buffer_index = 0 /\ mode = "boot" /\ inLine = 0 /\ longest = 0
      /\ ~requested /\ ~overrun /\ ~full
  BY DEF Init
<1>2. Types
  <2>1. fifo \in Seq(Keys) /\ line_buffer \in [Index -> Bytes] /\ buffer_index \in 0 .. BufferSize
    BY <1>1, ShellAssumption DEF Init, Bytes
  <2>2. terminal_running \in BOOLEAN /\ requested \in BOOLEAN /\ full \in BOOLEAN
    BY DEF Init
  <2> QED BY <1>1, <2>1, <2>2 DEF Types
<1>3. Fitting
  BY <1>1 DEF Fitting, Room, RoomIn, LineStart
<1>4. Typed /\ Answered
  BY <1>1 DEF Typed, Answered
<1>5. Line
  BY <1>1, <1>4, ShellAssumption DEF Line
<1> QED BY <1>1, <1>2, <1>3, <1>5 DEF Inv, Handler

\* Steps outside the handler.
LEMMA QuietStep ==
  ASSUME Inv, setup_serial \/ Interrupt \/ apic_timer_irq \/ UNCHANGED vars
  PROVE  StepGoal /\ (Fitting => Fitting')
<1>1. /\ UNCHANGED <<line_buffer, buffer_index, terminal_running, reply, overrun, full, fifo, inLine,
                     longest>>
      /\ mode' = "command" <=> mode = "command"
      /\ mode' \in {"boot", "idle", "isr", "command"}
  BY DEF setup_serial, Interrupt, apic_timer_irq, vars, shell, history, hardware, Inv, Types
<1>2. \/ requested' = requested /\ (mode' = mode \/ mode' = "idle")
      \/ mode' = "isr" /\ requested' = FALSE /\ fifo # <<>>
  BY DEF setup_serial, Interrupt, apic_timer_irq, vars, hardware, Inv, Handler
<1>2a. requested' \in BOOLEAN /\ Handler'
  <2>1. CASE requested' = requested /\ (mode' = mode \/ mode' = "idle")
    BY <1>1, <2>1 DEF Inv, Types, Handler
  <2>2. CASE mode' = "isr" /\ requested' = FALSE /\ fifo # <<>>
    BY <1>1, <2>2 DEF Handler
  <2> QED BY <1>2, <2>1, <2>2
<1>3. Types'
  BY <1>1, <1>2a DEF Inv, Types
<1>4. Line' /\ Visible /\ LineStart' = LineStart
  BY <1>1, LineKept
<1>5. Fitting => Fitting'
  BY <1>1, <1>4 DEF Fitting, Room
<1> QED BY <1>2a, <1>3, <1>4, <1>5 DEF StepGoal, Inv

\* A key that comes into the FIFO has its place in the line.
LEMMA ReceiveStep ==
  ASSUME Inv, NEW b \in Letters \cup {CR, BS}, Receive(b)
  PROVE  StepGoal /\ (Fitting => Fitting')
<1>1. /\ UNCHANGED <<line_buffer, buffer_index, terminal_running, reply, overrun, full, mode>>
      /\ fifo' = Append(fifo, b) /\ requested' = (requested \/ fifo = <<>>)
      /\ inLine' = IF b = CR THEN 0 ELSE inLine + 1
      /\ longest' = IF b \in Letters /\ inLine >= longest THEN inLine + 1 ELSE longest
  BY DEF Receive, shell
<1>2. Line' /\ Visible /\ LineStart' = LineStart
  BY <1>1, LineKept
<1>3. /\ fifo \in Seq(Keys) /\ b \in Keys /\ LineStart \in Nat /\ inLine \in Nat
      /\ longest \in Nat /\ BufferSize \in Nat
  BY ShellAssumption DEF Inv, Types, Keys, LineStart
<1>4. fifo' \in Seq(Keys) /\ fifo' # <<>>
  BY <1>1, <1>3
<1>5. Types' /\ Handler'
  <2>1. inLine' \in Nat /\ longest' \in Nat
    BY <1>1, <1>3
  <2> QED BY <1>1, <1>4, <2>1 DEF Inv, Types, Handler
<1>6. longest' \in Nat /\ longest <= longest' /\ (b \in Letters => inLine < longest')
  BY <1>1, <1>3
<1>7. ASSUME Fitting, longest' < BufferSize PROVE Room' /\ ~overrun' /\ ~full'
  <2>1. Room /\ ~overrun /\ ~full
    BY <1>3, <1>6, <1>7 DEF Fitting
  <2>2. RoomIn(fifo, LineStart, inLine, longest')
    BY <1>3, <1>6, <2>1, RoomGrows DEF Room
  <2>3. RoomIn(fifo', LineStart, inLine', longest')
    BY <1>1, <1>3, <1>6, <2>2, RoomAppend
  <2> QED BY <1>1, <1>2, <1>3, <1>6, <2>1, <2>3 DEF Room
<1> QED BY <1>2, <1>5, <1>7 DEF StepGoal, Inv, Fitting

\* The end of a command: a new line, also after one that filled the buffer.
LEMMA NewlineStep ==
  ASSUME Inv, newline
  PROVE  StepGoal /\ (Fitting => Fitting')
<1>1. /\ mode = "command" /\ mode' = "idle" /\ buffer_index' = 0 /\ terminal_running' = TRUE
      /\ line_buffer' = Cleared /\ full' = FALSE
      /\ fifo' = fifo /\ requested' = requested /\ reply' = reply /\ overrun' = overrun
      /\ inLine' = inLine /\ longest' = longest
  BY DEF newline, iretq, history
<1>2. Cleared \in [Index -> Bytes]
  BY DEF Cleared, Inv, Types, Bytes
<1>3. Types' /\ Handler'
  <2>1. terminal_running' \in BOOLEAN /\ full' \in BOOLEAN
    BY <1>1
  <2>2. buffer_index' \in 0 .. BufferSize
    BY <1>1, ShellAssumption
  <2> QED BY <1>1, <1>2, <2>1, <2>2 DEF Inv, Types, Handler
<1>4. LineStart = 0 /\ LineStart' = 0
  BY <1>1 DEF LineStart
<1>5. Fitting => Fitting'
  BY <1>1, <1>4 DEF Fitting, Room
<1>6. Typed' /\ Answered'
  BY <1>1 DEF Typed, Answered
<1>7. Line'
  BY <1>1, <1>6, ShellAssumption DEF Line
<1>8. ~full => Abs!Prompt
  <2>1. VisibleLine' = <<>>
    BY <1>1 DEF VisibleLine
  <2>2. ~full => reply = Abs!Reply(VisibleLine)
    BY <1>1 DEF Inv, Line, Answered
  <2> QED BY <1>1, <2>1, <2>2 DEF Abs!Prompt
<1> QED BY <1>3, <1>5, <1>7, <1>8 DEF StepGoal, Inv, Visible, Abs!Next

-----------------------------------------------------------------------------
(* The handler.                                                            *)

\* The handler's three ways through, for the byte read.
Quiet == Ignored(fifo[1]) /\ mode' = "idle" /\ UNCHANGED shell

Erase ==
  /\ ~Ignored(fifo[1]) /\ fifo[1] = BS
  /\ EraseLast /\ mode' = "idle" /\ UNCHANGED <<reply, full>>

Letter ==
  /\ ~Ignored(fifo[1]) /\ fifo[1] # BS /\ fifo[1] # CR
  /\ Store(fifo[1]) /\ buffer_index' = (buffer_index + 1) % IndexRange
  /\ mode' = "idle" /\ full' = (full \/ buffer_index' = BufferSize) /\ reply' = reply

Return ==
  /\ fifo[1] = CR
  /\ Store(CR) /\ buffer_index' = (buffer_index + 1) % IndexRange
  /\ mode' = "command" /\ full' = full /\ reply' = Answer(Stored(CR)).name

\* What all branches of rs232_irq have in common.
LEMMA IrqFacts ==
  ASSUME Inv, rs232_irq
  PROVE  /\ mode = "isr" /\ fifo # <<>> /\ fifo[1] \in Keys
         /\ fifo' = Tail(fifo) /\ fifo' \in Seq(Keys)
         /\ requested' = requested /\ ~requested /\ inLine' = inLine /\ longest' = longest
         /\ Length = buffer_index /\ LineStart = buffer_index
         /\ buffer_index \in Nat /\ (~full => buffer_index \in Index)
         /\ Quiet \/ Erase \/ Letter \/ Return
<1>1. mode = "isr" /\ fifo' = Tail(fifo) /\ requested' = requested
      /\ inLine' = inLine /\ longest' = longest
  BY DEF rs232_irq, history
<1>2. fifo # <<>> /\ ~requested /\ fifo \in Seq(Keys)
  BY <1>1 DEF Inv, Handler, Types
<1>3. Head(fifo) = fifo[1] /\ fifo[1] \in Keys /\ Tail(fifo) \in Seq(Keys)
  BY <1>2
<1>4. LineStart = buffer_index /\ Length = buffer_index /\ buffer_index \in Nat
  BY <1>1, ShellAssumption DEF LineStart, Length, Inv, Types
<1>5. ~full => buffer_index \in Index
  BY <1>1, <1>4, ShellAssumption DEF Inv, Line, Index
<1>6. Quiet \/ Erase \/ Letter \/ Return
  <2> DEFINE c == fifo[1]
  <2> HIDE DEF c
  <2>1. Head(fifo) = c
    BY <1>3 DEF c
  <2>2. \/ Ignored(c) /\ iretq /\ UNCHANGED shell
        \/ ~Ignored(c) /\ c = BS /\ EraseLast /\ iretq /\ UNCHANGED <<wait, reply, full>>
        \/ /\ ~Ignored(c) /\ c # BS
           /\ Store(c)
           /\ buffer_index' = (buffer_index + 1) % IndexRange
           /\ \/ /\ c # CR /\ iretq
                 /\ full' = (full \/ buffer_index' = BufferSize)
                 /\ UNCHANGED <<wait, reply>>
              \/ /\ c = CR /\ mode' = "command" /\ reply' = Answer(Stored(c)).name
                 /\ UNCHANGED <<IF_flag, full>>
    BY <2>1, Zenon DEF rs232_irq
  <2> QED BY <2>2 DEF Quiet, Erase, Letter, Return, iretq, c
<1> QED BY <1>1, <1>2, <1>3, <1>4, <1>5, <1>6

\* The index after a place of the buffer does not wrap.
LEMMA NoWrap ==
  ASSUME NEW i \in Index
  PROVE  (i + 1) % IndexRange = i + 1
<1>1. i + 1 \in 0 .. IndexRange - 1 /\ IndexRange \in Nat /\ IndexRange > 0
  BY ShellAssumption DEF Index
<1> QED BY <1>1

\* The index after any byte is one of the uint8_t's values.
LEMMA IndexKept ==
  ASSUME NEW i \in 0 .. BufferSize
  PROVE  (i + 1) % IndexRange \in 0 .. BufferSize
<1>1. BufferSize \in Nat /\ IndexRange = BufferSize + 1 /\ i \in Nat
  BY ShellAssumption
<1>2. CASE i \in Index
  BY <1>1, <1>2, NoWrap DEF Index
<1>3. CASE i \notin Index
  <2>1. i + 1 = IndexRange /\ IndexRange \in Nat \ {0}
    BY <1>1, <1>3 DEF Index
  <2>2. IndexRange % IndexRange = 0
    BY <2>1
  <2> QED BY <1>1, <2>1, <2>2
<1> QED BY <1>2, <1>3

\* Whatever the byte and wherever it is stored, the index keeps its range and the
\* buffer its bytes.
LEMMA IrqTypes ==
  ASSUME Inv, rs232_irq
  PROVE  Types' /\ Handler'
<1>1. /\ fifo' \in Seq(Keys) /\ fifo[1] \in Keys /\ requested' = requested /\ ~requested
      /\ inLine' = inLine /\ longest' = longest /\ buffer_index \in 0 .. BufferSize
      /\ mode' \in {"idle", "command"} /\ (full' = full \/ full' = (full \/ buffer_index' = BufferSize))
  BY IrqFacts DEF Inv, Types, Quiet, Erase, Letter, Return, shell
<1>2. \A byte \in Bytes : Store(byte) =>
        line_buffer' \in [Index -> Bytes] /\ terminal_running' \in BOOLEAN
  BY DEF Store, Stored, Inv, Types
<1>3. ZERO \in Bytes /\ CR \in Bytes /\ fifo[1] \in Bytes
  BY <1>1 DEF Bytes, Keys
<1>4. line_buffer' \in [Index -> Bytes] /\ terminal_running' \in BOOLEAN
  <2>1. CASE Quiet
    BY <2>1 DEF Quiet, shell, Inv, Types
  <2>2. CASE Erase
    BY <1>2, <1>3, <2>2 DEF Erase, EraseLast
  <2>3. CASE Letter
    BY <1>2, <1>3, <2>3 DEF Letter
  <2>4. CASE Return
    BY <1>2, <1>3, <2>4 DEF Return
  <2> QED BY IrqFacts, <2>1, <2>2, <2>3, <2>4
<1>5. buffer_index' \in 0 .. BufferSize
  <2>1. CASE Quiet
    BY <1>1, <2>1 DEF Quiet, shell
  <2>2. CASE Erase
    <3>1. buffer_index # 0 /\ buffer_index' = buffer_index - 1
      BY <2>2, ShellAssumption DEF Erase, EraseLast, Ignored
    <3> QED BY <1>1, <3>1, ShellAssumption
  <2>3. CASE Letter
    BY <1>1, <2>3, IndexKept DEF Letter
  <2>4. CASE Return
    BY <1>1, <2>4, IndexKept DEF Return
  <2> QED BY IrqFacts, <2>1, <2>2, <2>3, <2>4
<1>6. full' \in BOOLEAN
  BY <1>1 DEF Inv, Types
<1> QED BY <1>1, <1>4, <1>5, <1>6 DEF Inv, Types, Handler

\* The room for a letter that is first in the FIFO.
LEMMA LetterRoom ==
  ASSUME Inv, Room, mode = "isr", fifo # <<>>, fifo[1] \in Letters
  PROVE  buffer_index + 1 <= longest
<1>1. fifo \in Seq(Keys) /\ Len(fifo) >= 1 /\ LineStart = buffer_index
  BY DEF Inv, Types, LineStart
<1>2. NoReturn(fifo, 0, 1) /\ 1 \in 1 .. Len(fifo)
  BY <1>1 DEF NoReturn
<1> QED BY <1>1, <1>2 DEF Room, RoomIn

\* A byte of lines that are shorter than the buffer is stored inside, and the bytes
\* behind it keep their room.
LEMMA IrqFitting ==
  ASSUME Inv, Fitting, rs232_irq
  PROVE  Fitting'
<1> SUFFICES ASSUME longest < BufferSize PROVE Room' /\ ~overrun' /\ ~full'
  BY IrqFacts DEF Fitting
<1>1. /\ mode = "isr" /\ fifo # <<>> /\ fifo[1] \in Keys /\ fifo' = Tail(fifo) /\ LineStart = buffer_index
      /\ inLine' = inLine /\ longest' = longest /\ buffer_index \in Nat
      /\ fifo \in Seq(Keys) /\ inLine \in Nat /\ longest \in Nat
  BY IrqFacts DEF Inv, Types
<1>2. Room /\ ~overrun /\ ~full /\ buffer_index <= longest /\ buffer_index \in Index
  BY <1>1, IrqFacts DEF Fitting, Room
<1>3. \A next \in Nat : (IF fifo[1] = CR THEN next = 0 ELSE next <= buffer_index + 1)
                          => RoomIn(fifo', next, inLine, longest)
  BY <1>1, <1>2, RoomTail DEF Room
<1>4. \A byte \in Bytes : Store(byte) => ~overrun'
  BY <1>2 DEF Store
<1>5. CASE Quiet
  <2>1. fifo[1] # CR /\ LineStart' = buffer_index /\ ~overrun' /\ ~full'
    BY <1>1, <1>2, <1>5, ShellAssumption DEF Quiet, Ignored, shell, LineStart
  <2> QED BY <1>1, <1>2, <1>3, <2>1 DEF Room
<1>6. CASE Erase
  <2>1. /\ fifo[1] # CR /\ LineStart' = buffer_index - 1 /\ buffer_index - 1 \in Nat
        /\ ~overrun' /\ ~full'
    BY <1>1, <1>2, <1>4, <1>6, ShellAssumption DEF Erase, EraseLast, Ignored, LineStart, Bytes
  <2>2. RoomIn(fifo', buffer_index - 1, inLine, longest)
    BY <1>1, <1>3, <2>1
  <2> QED BY <1>1, <1>2, <2>1, <2>2 DEF Room
<1>7. CASE Letter
  <2>1. fifo[1] # CR /\ fifo[1] \in Letters /\ fifo[1] \in Bytes
    BY <1>1, <1>7 DEF Letter, Keys, Bytes
  <2>2. buffer_index + 1 <= longest
    BY <1>1, <1>2, <2>1, LetterRoom
  <2>3. buffer_index' = buffer_index + 1 /\ LineStart' = buffer_index + 1
    BY <1>2, <1>7, NoWrap DEF Letter, LineStart
  <2>3a. buffer_index' # BufferSize
    BY <1>1, <2>2, <2>3, ShellAssumption
  <2>4. ~overrun' /\ ~full'
    BY <1>2, <1>4, <1>7, <2>1, <2>3a DEF Letter
  <2>5. RoomIn(fifo', buffer_index + 1, inLine, longest)
    BY <1>1, <1>3, <2>1
  <2> QED BY <1>1, <2>2, <2>3, <2>4, <2>5 DEF Room
<1>8. CASE Return
  <2>1. LineStart' = 0 /\ ~overrun' /\ ~full'
    BY <1>2, <1>4, <1>8 DEF Return, LineStart, Bytes
  <2>2. RoomIn(fifo', 0, inLine, longest)
    BY <1>3, <1>8 DEF Return
  <2> QED BY <1>1, <2>1, <2>2 DEF Room
<1> QED BY IrqFacts, <1>5, <1>6, <1>7, <1>8

\* The places before the index.
LEMMA Below ==
  ASSUME NEW m \in Index
  PROVE  m \in Nat /\ \A i \in 0 .. m - 1 : i \in Index /\ i # m
BY ShellAssumption DEF Index

\* A key that does nothing.
LEMMA IgnoredStep ==
  ASSUME Inv, rs232_irq, Quiet
  PROVE  StepGoal
<1>1. Line' /\ Visible
  BY IrqFacts, LineKept DEF Quiet, shell
<1> QED BY <1>1, IrqTypes DEF StepGoal, Inv

\* Backspace takes back the last key.
LEMMA EraseStep ==
  ASSUME Inv, rs232_irq, ~full, Erase
  PROVE  StepGoal
<1>1. /\ mode = "isr" /\ mode' = "idle" /\ reply' = reply /\ full' = full
      /\ buffer_index \in Index /\ Length = buffer_index
  BY IrqFacts DEF Erase
<1>2. buffer_index \in Nat /\ buffer_index # 0 /\ terminal_running /\ terminal_running' = terminal_running
  BY <1>1, IrqFacts, ShellAssumption DEF Erase, EraseLast, Store, Ignored
<1>3. /\ line_buffer' = [i \in Index |-> IF i = buffer_index THEN ZERO ELSE line_buffer[i]]
      /\ buffer_index' = buffer_index - 1
  BY DEF Erase, EraseLast, Store, Stored
<1>8. \A i \in 0 .. buffer_index - 2 : line_buffer'[i] = line_buffer[i] /\ i \in Index
  BY <1>1, <1>2, <1>3, ShellAssumption DEF Index
<1>9. Typed'
  <2>1. \A i \in 0 .. buffer_index - 1 : line_buffer[i] \in Letters
    BY <1>1 DEF Inv, Line, Typed
  <2> QED BY <1>1, <1>2, <1>3, <1>8, <2>1 DEF Typed
<1>10. Abs!Backspace
  <2>1. /\ VisibleLine \in Seq(Letters) /\ Len(VisibleLine) = buffer_index
        /\ \A i \in 1 .. buffer_index : VisibleLine[i] = line_buffer[i - 1]
    BY <1>1, LineFacts
  <2>2. VisibleLine' = [i \in 1 .. buffer_index - 1 |-> line_buffer'[i - 1]]
    BY <1>1, <1>3 DEF VisibleLine
  <2>3. \A i \in 1 .. buffer_index - 1 : line_buffer'[i - 1] = VisibleLine[i]
    BY <1>2, <1>8, <2>1
  <2>4. VisibleLine' = [i \in 1 .. buffer_index - 1 |-> VisibleLine[i]]
    BY <2>2, <2>3
  <2> HIDE DEF VisibleLine
  <2>5. SubSeq(VisibleLine, 1, Len(VisibleLine) - 1) = [i \in 1 .. buffer_index - 1 |-> VisibleLine[i]]
    BY <1>2, <2>1
  <2>6. VisibleLine # <<>>
    BY <1>2, <2>1
  <2> QED BY <1>1, <1>2, <2>4, <2>5, <2>6 DEF Abs!Backspace, Abs!Front
<1>11. Line'
  BY <1>1, <1>2, <1>3, <1>9, ShellAssumption DEF Line, Answered, Index
<1> QED BY <1>10, <1>11, IrqTypes DEF StepGoal, Inv, Visible, Abs!Next

\* A line longer by c.
LEMMA AppendLine ==
  ASSUME NEW s \in Seq(Letters), NEW c \in Letters, NEW t \in Seq(Letters), Len(t) = Len(s) + 1,
         \A i \in 1 .. Len(s) + 1 : t[i] = IF i = Len(s) + 1 THEN c ELSE s[i]
  PROVE  t = Append(s, c)
<1>1. /\ Append(s, c) \in Seq(Letters) /\ Len(Append(s, c)) = Len(t)
      /\ \A i \in 1 .. Len(t) : t[i] = Append(s, c)[i]
  OBVIOUS
<1> QED BY <1>1, SeqEqual

\* A letter.
LEMMA LetterStep ==
  ASSUME Inv, rs232_irq, ~full, Letter
  PROVE  StepGoal
<1> DEFINE c == fifo[1]
<1>1. /\ mode = "isr" /\ mode' = "idle" /\ reply' = reply /\ full' = (buffer_index' = BufferSize)
      /\ buffer_index \in Index /\ Length = buffer_index /\ c \in Keys
  BY IrqFacts DEF Letter
<1>2. /\ c \in Letters /\ terminal_running /\ buffer_index \in Nat
      /\ terminal_running' = terminal_running /\ line_buffer' = Stored(c)
  BY <1>1, IrqFacts DEF Letter, Store, Ignored, Keys
<1>3. buffer_index' = buffer_index + 1
  BY <1>1, NoWrap DEF Letter
<1>4. /\ line_buffer'[buffer_index] = c
      /\ \A i \in 0 .. buffer_index - 1 : line_buffer'[i] = line_buffer[i]
  <2>1. \A i \in 0 .. buffer_index - 1 : i \in Index /\ i # buffer_index
    BY <1>1, Below
  <2> QED BY <1>1, <1>2, <2>1 DEF Stored
<1>8. Typed'
  <2>1. \A i \in 0 .. buffer_index - 1 : line_buffer[i] \in Letters
    BY <1>1 DEF Inv, Line, Typed
  <2>2. \A i \in 0 .. buffer_index : line_buffer'[i] \in Letters
    BY <1>2, <1>4, <2>1
  <2> QED BY <1>1, <1>2, <1>3, <2>2 DEF Typed
<1>9. Abs!Key(c)
  <2>1. /\ VisibleLine \in Seq(Letters) /\ Len(VisibleLine) = buffer_index
        /\ \A i \in 1 .. buffer_index : VisibleLine[i] = line_buffer[i - 1]
    BY <1>1, LineFacts
  <2>2. VisibleLine' = [i \in 1 .. buffer_index + 1 |-> line_buffer'[i - 1]]
    BY <1>1, <1>3 DEF VisibleLine
  <2> HIDE DEF VisibleLine, c
  <2>3. \A i \in 1 .. buffer_index + 1 :
          line_buffer'[i - 1] = IF i = buffer_index + 1 THEN c ELSE VisibleLine[i]
    <3> TAKE i \in 1 .. buffer_index + 1
    <3>1. CASE i = buffer_index + 1
      <4>1. i - 1 = buffer_index
        BY <1>2, <3>1
      <4> QED BY <1>4, <3>1, <4>1
    <3>2. CASE i # buffer_index + 1
      <4>1. i \in 1 .. buffer_index /\ i - 1 \in 0 .. buffer_index - 1
        BY <1>2, <3>2
      <4> QED BY <1>4, <2>1, <3>2, <4>1
    <3> QED BY <3>1, <3>2
  <2>4. /\ VisibleLine' \in Seq(Letters) /\ Len(VisibleLine') = buffer_index + 1
        /\ \A i \in 1 .. buffer_index + 1 :
             VisibleLine'[i] = IF i = buffer_index + 1 THEN c ELSE VisibleLine[i]
    <3>1. \A i \in 1 .. buffer_index + 1 : line_buffer'[i - 1] \in Letters
      <4> TAKE i \in 1 .. buffer_index + 1
      <4>1. CASE i = buffer_index + 1
        BY <1>2, <2>3, <4>1
      <4>2. CASE i # buffer_index + 1
        <5>1. i \in 1 .. Len(VisibleLine) /\ line_buffer'[i - 1] = VisibleLine[i]
          BY <1>2, <2>1, <2>3, <4>2
        <5> QED BY <2>1, <5>1
      <4> QED BY <4>1, <4>2
    <3>2. VisibleLine' \in Seq(Letters) /\ Len(VisibleLine') = buffer_index + 1
      BY <1>2, <2>2, <3>1
    <3>3. \A i \in 1 .. buffer_index + 1 : VisibleLine'[i] = line_buffer'[i - 1]
      BY <2>2
    <3> QED BY <2>3, <3>2, <3>3
  <2>5. VisibleLine' = Append(VisibleLine, c)
    BY <1>2, <2>1, <2>4, AppendLine
  <2> QED BY <1>1, <1>2, <2>5 DEF Abs!Key
<1>10. Line'
  <2>0. buffer_index' # BufferSize => buffer_index' < BufferSize
    BY <1>1, <1>2, <1>3, ShellAssumption DEF Index
  <2>1. ~full' => buffer_index' < BufferSize
    BY <1>1, <2>0
  <2> QED BY <1>1, <1>8, <2>1 DEF Line, Answered
<1> QED BY <1>2, <1>9, <1>10, IrqTypes DEF StepGoal, Inv, Visible, Abs!Next

\* memcmp with the buffer finds the names the line starts with: the return stored
\* behind the line ends it, whatever older bytes follow.
LEMMA MatchesPrefix ==
  ASSUME Inv, ~full, mode = "isr", buffer_index \in Index, NEW name \in Seq(Letters)
  PROVE  Matches(Stored(CR), name) <=> Abs!IsPrefix(name, VisibleLine)
<1> DEFINE m == Len(name)
           b == Stored(CR)
<1>1. /\ VisibleLine \in Seq(Letters) /\ Len(VisibleLine) = buffer_index /\ buffer_index \in Nat
      /\ \A i \in 1 .. buffer_index : VisibleLine[i] = line_buffer[i - 1]
  BY LineFacts DEF Length
<1>2. b[buffer_index] = CR /\ \A i \in 1 .. buffer_index : i <= BufferSize /\ b[i - 1] = VisibleLine[i]
  <2>1. \A i \in 1 .. buffer_index : i - 1 \in Index /\ i - 1 # buffer_index /\ i <= BufferSize
    BY <1>1, ShellAssumption DEF Index
  <2> QED BY <1>1, <2>1 DEF Stored
<1> HIDE DEF b, VisibleLine
<1>3. m \in Nat /\ \A i \in 1 .. m : name[i] \in Letters
  OBVIOUS
<1>4. CR \notin Letters
  BY ShellAssumption
<1>5. Matches(b, name) => m <= buffer_index
  <2> SUFFICES ASSUME Matches(b, name), m > buffer_index PROVE FALSE
    BY <1>1, <1>3
  <2>1. buffer_index + 1 \in 1 .. m
    BY <1>1, <1>3
  <2>2. b[(buffer_index + 1) - 1] = name[buffer_index + 1]
    BY <2>1 DEF Matches
  <2>3. (buffer_index + 1) - 1 = buffer_index
    BY <1>1
  <2> QED BY <1>2, <1>3, <1>4, <2>1, <2>2, <2>3
<1>6. Matches(b, name) <=> m <= buffer_index /\ \A i \in 1 .. m : name[i] = VisibleLine[i]
  <2>1. m <= buffer_index => \A i \in 1 .. m : i \in 1 .. buffer_index
    BY <1>1, <1>3
  <2>2. m <= buffer_index => \A i \in 1 .. m : i <= BufferSize /\ b[i - 1] = VisibleLine[i]
    BY <1>2, <2>1
  <2>3. m <= buffer_index => (Matches(b, name) <=> \A i \in 1 .. m : VisibleLine[i] = name[i])
    BY <2>2, Zenon DEF Matches
  <2> QED BY <1>5, <2>3
<1>7. ASSUME m <= buffer_index
      PROVE  SubSeq(name, 1, m) = SubSeq(VisibleLine, 1, m) <=> \A i \in 1 .. m : name[i] = VisibleLine[i]
  <2>1. SubSeq(name, 1, m) = [i \in 1 .. m |-> name[i]]
    BY <1>3
  <2>2. SubSeq(VisibleLine, 1, m) = [i \in 1 .. m |-> VisibleLine[i]]
    BY <1>1, <1>3, <1>7
  <2> QED BY <2>1, <2>2
<1> QED BY <1>1, <1>6, <1>7 DEF Abs!IsPrefix, b

\* A return: the answer is the one to the line.
LEMMA ReturnStep ==
  ASSUME Inv, rs232_irq, ~full, Return
  PROVE  StepGoal
<1>1. /\ mode = "isr" /\ mode' = "command" /\ full' = full /\ line_buffer' = Stored(CR)
      /\ buffer_index \in Index /\ Length = buffer_index /\ reply' = Answer(Stored(CR)).name
  BY IrqFacts DEF Return, Store
<1>2. /\ buffer_index \in Nat /\ buffer_index' = buffer_index + 1
      /\ terminal_running' = terminal_running
  BY <1>1, IrqFacts, NoWrap DEF Return, Store
<1>3. /\ line_buffer'[buffer_index] = CR
      /\ \A i \in 0 .. buffer_index - 1 : line_buffer'[i] = line_buffer[i]
  <2>1. \A i \in 0 .. buffer_index - 1 : i \in Index /\ i # buffer_index
    BY <1>1, Below
  <2> QED BY <1>1, <1>2, <2>1 DEF Stored
<1>7. Typed'
  <2>1. (\A i \in 0 .. buffer_index - 1 : line_buffer[i] \in Letters) /\ (~terminal_running => buffer_index = 0)
    BY <1>1 DEF Inv, Line, Typed
  <2> QED BY <1>1, <1>2, <1>3, <2>1 DEF Typed
<1>8. /\ VisibleLine \in Seq(Letters) /\ Len(VisibleLine) = buffer_index
      /\ \A i \in 1 .. buffer_index : VisibleLine[i] = line_buffer[i - 1]
      /\ ~terminal_running => buffer_index = 0
  BY <1>1, LineFacts
<1>9. VisibleLine' = VisibleLine
  <2>1. VisibleLine' = [i \in 1 .. buffer_index |-> line_buffer'[i - 1]]
    BY <1>1, <1>2 DEF VisibleLine
  <2>2. VisibleLine = [i \in 1 .. buffer_index |-> line_buffer[i - 1]]
    BY <1>1 DEF VisibleLine
  <2>3. \A i \in 1 .. buffer_index : line_buffer'[i - 1] = line_buffer[i - 1]
    BY <1>2, <1>3
  <2> QED BY <2>1, <2>2, <2>3
<1>10. Answer(Stored(CR)).name = Abs!Reply(VisibleLine)
  <2> DEFINE found == {i \in DOMAIN Commands : Matches(Stored(CR), Commands[i].name)}
  <2>1. found = Abs!Matching(VisibleLine)
    <3>1. \A i \in DOMAIN Commands :
            Matches(Stored(CR), Commands[i].name) <=> Abs!IsPrefix(Commands[i].name, VisibleLine)
      BY <1>1, MatchesPrefix, ShellAssumption
    <3> QED BY <3>1 DEF Abs!Matching
  <2>2. CASE found # {}
    <3>1. Answer(Stored(CR)) = Commands[Min(found)]
      BY <2>2 DEF Answer
    <3> QED BY <2>1, <2>2, <3>1 DEF Abs!Reply, Min, Abs!Min
  <2>3. CASE found = {}
    <3>1. Answer(Stored(CR)).name
            = IF terminal_running /\ Stored(CR)[0] # CR THEN Unknown ELSE Nothing
      BY <2>3 DEF Answer
    <3>2. terminal_running /\ Stored(CR)[0] # CR <=> VisibleLine # <<>>
      <4>1. CASE buffer_index = 0
        <5>1. VisibleLine = <<>> /\ Stored(CR)[0] = CR
          BY <1>1, <1>8, <4>1 DEF Stored
        <5> QED BY <5>1
      <4>2. CASE buffer_index # 0
        <5>1. Stored(CR)[0] = VisibleLine[1] /\ VisibleLine[1] \in Letters /\ VisibleLine # <<>>
          BY <1>1, <1>2, <1>8, <4>2, ShellAssumption DEF Stored, Index
        <5> QED BY <1>8, <4>2, <5>1, ShellAssumption
      <4> QED BY <4>1, <4>2
    <3> QED BY <2>1, <2>3, <3>1, <3>2 DEF Abs!Reply
  <2> QED BY <2>2, <2>3
<1>11. Line'
  <2>1. Answered'
    BY <1>1, <1>9, <1>10 DEF Answered, Abs!Reply, Abs!Matching
  <2> QED BY <1>1, <1>2, <1>7, <2>1 DEF Line
<1>12. Abs!Answer
  BY <1>1, <1>2, <1>9, <1>10 DEF Abs!Answer
<1> QED BY <1>11, <1>12, IrqTypes DEF StepGoal, Inv, Visible, Abs!Next

\* The handler stores or deletes inside the buffer, or the line is answered; a line
\* that filled the buffer stays one that did.
LEMMA IrqStep ==
  ASSUME Inv, rs232_irq
  PROVE  StepGoal
<1>1. CASE full
  <2>1. full'
    BY <1>1, IrqFacts DEF Quiet, Erase, Letter, Return, shell
  <2> QED BY <1>1, <2>1, IrqTypes DEF StepGoal, Inv, Line
<1>2. CASE ~full
  BY <1>2, IrqFacts, IgnoredStep, EraseStep, LetterStep, ReturnStep
<1> QED BY <1>1, <1>2

-----------------------------------------------------------------------------
(* The theorems.                                                           *)

\* Every step keeps the invariants and shows what LineShell allows.
LEMMA StepHolds == Inv /\ [Next]_vars => StepGoal /\ (Fitting => Fitting')
<1> SUFFICES ASSUME Inv, [Next]_vars PROVE StepGoal /\ (Fitting => Fitting')
  OBVIOUS
<1>1. CASE setup_serial \/ Interrupt \/ apic_timer_irq \/ UNCHANGED vars
  BY <1>1, QuietStep
<1>2. CASE apic_sleep_ms \/ hcf
  BY <1>2, QuietStep DEF apic_sleep_ms, hcf
<1>3. CASE rs232_irq
  BY <1>3, IrqStep, IrqFitting
<1>4. CASE newline
  BY <1>4, NewlineStep
<1>5. CASE \E b \in Letters \cup {CR, BS} : Receive(b)
  BY <1>5, ReceiveStep
<1> QED BY <1>1, <1>2, <1>3, <1>4, <1>5 DEF Next

\* The invariants hold, whatever the interleaving of keys, interrupts, ticks and
\* commands that sleep, and however long the lines.
THEOREM InvAlways == Spec => [](Inv /\ Fitting)
<1>1. Inv /\ Fitting /\ [Next]_vars => Inv' /\ Fitting'
  BY StepHolds DEF StepGoal
<1> QED BY <1>1, InvInit, PTL DEF Spec

\* rs232_irq, which checks no bound, stores a byte outside line_buffer only when a line
\* was typed that has as many keys as the buffer has bytes.
THEOREM InputFits == Spec => []InputInBuffer
<1>1. Inv /\ Fitting => InputInBuffer
  BY ShellAssumption DEF Inv, Types, Fitting, InputInBuffer
<1> QED BY <1>1, InvAlways, PTL

\* Every step of the handler is a step of the abstract shell or one its user does not
\* see, on every line that does not fill the buffer: the command that runs depends on
\* the keys of the line alone.
THEOREM ImplementsShell == Spec => ImplementsLineShell
<1>1. Init => Abs!Init
  BY DEF Init, VisibleLine, Abs!Init
<1>2. Inv /\ [Next]_vars => [~full => Abs!Next]_(Abs!svars)
  BY StepHolds DEF StepGoal, Visible, Abs!svars
<1> QED BY <1>1, <1>2, InvAlways, PTL DEF Spec, ImplementsLineShell
=============================================================================
