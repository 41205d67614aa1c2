------------------------------- MODULE Console -------------------------------
(***************************************************************************)
(* The framebuffer console (kernel/src/util/print_lowlevel.c) with the log *)
(* functions (util/log.c) and printf that write to it: kmain prints        *)
(* messages, and an exception handler that returns, or the shell's "clear" *)
(* in the serial interrupt, writes to the same screen between any two of   *)
(* kmain's steps.                                                          *)
(*                                                                         *)
(* A glyph is a square of pixels that all show the character and the       *)
(* colour.  A handler runs to its end before kmain goes on.  The cursor is *)
(* moved as the build does it: read into a register, compared, stored.     *)
(***************************************************************************)
EXTENDS Printf

CONSTANTS
  Width, Height, Pitch,   \* of the framebuffer, in pixels
  Glyph,                  \* 8 * font_size
  Messages, Notices,      \* what kmain and handlers print: <<function, format>>
  Formats, Limits,        \* what kmain formats into buffers
  MaxMessages, MaxInterrupts

LogFunctions == {"printf_", "k_log", "k_ok", "k_wrn", "k_err", "k_todo", "k_test_pass"}

ASSUME ConsoleAssumption ==
  /\ Glyph \in Nat \ {0} /\ Width \in Nat /\ Height \in Nat /\ Pitch \in Nat
  /\ Width >= Glyph /\ Height >= Glyph /\ Pitch >= Width
  /\ MaxMessages \in Nat /\ MaxInterrupts \in Nat
  /\ \A m \in Messages \cup Notices : m[1] \in LogFunctions /\ WellFormed(m[2])
  /\ \A f \in Formats : WellFormed(f)
  /\ Limits \subseteq Nat

\* calculate_screen_constants.
cursor_x_max == Width \div Glyph - 1
cursor_y_max == Height \div Glyph - 1
Pixels == 0 .. Pitch * Height - 1
Blank == <<" ", "none">>
Colours == {"plain", "ok", "wrn", "err", "dbg"}
IsColour(step) == step \in Colours

VARIABLES
  fb,                    \* the framebuffer
  cursor_x, cursor_y,
  colour,                \* on_colour
  script,                \* steps of kmain's message that are left
  pc, reg,               \* kmain in k_putc, and the value it read
  call, buffer,          \* the last snprintf_ and the bytes it wrote
  typed, meant, torn,    \* history: what was printed, kmain's colour, a handler wrote
                         \* inside a character or a coloured tag of kmain's
  messages, interrupts   \* history: counts

vars == <<fb, cursor_x, cursor_y, colour, script, pc, reg, call, buffer, typed, meant, torn,
          messages, interrupts>>
screen == <<fb, cursor_x, cursor_y, colour>>
kmain == <<script, pc, reg, meant, messages>>
calls == <<call, buffer>>

-----------------------------------------------------------------------------
(* The reference: all lines there ever were, the last ones on the screen.  *)

BlankLine == [x \in 0 .. cursor_x_max |-> Blank]
NoText == [lines |-> <<BlankLine>>, x |-> 0]

LineFeed(t) == [lines |-> Append(t.lines, BlankLine), x |-> 0]
Type(t, cell) ==
  CASE cell[1] = "NL" -> LineFeed(t)
    [] cell[1] = "CR" -> [t EXCEPT !.x = 0]
    [] cell[1] = "0xff" -> t
    [] OTHER -> LET put == [lines |-> [t.lines EXCEPT ![Len(t.lines)][t.x] = cell], x |-> t.x + 1]
                IN IF put.x > cursor_x_max THEN LineFeed(put) ELSE put

\* What a handler prints is plain.
TypeAll(t, steps) ==
  LET after[k \in 0 .. Len(steps)] ==
        IF k = 0 THEN t
        ELSE IF IsColour(steps[k]) THEN after[k - 1] ELSE Type(after[k - 1], <<steps[k], "plain">>)
  IN after[Len(steps)]

Visible(lines, y) ==
  LET k == Max({0, Len(lines) - cursor_y_max - 1}) + y + 1
  IN IF k \in DOMAIN lines THEN lines[k] ELSE BlankLine

\* A screen that shows the last lines, and nothing else.
Picture(lines) ==
  [p \in Pixels |-> LET y == (p \div Pitch) \div Glyph
                        x == (p % Pitch) \div Glyph
                    IN IF x <= cursor_x_max /\ y <= cursor_y_max THEN Visible(lines, y)[x] ELSE Blank]

-----------------------------------------------------------------------------
NoCall == <<<<>>, 0>>
NoBytes == [k \in {} |-> NUL]

Init ==
  /\ fb = [p \in Pixels |-> Blank] /\ cursor_x = 0 /\ cursor_y = 0
  /\ colour = "white" /\ meant = "white"       \* as print_banner leaves it
  /\ script = <<>> /\ pc = "idle" /\ reg = 0
  /\ call = NoCall /\ buffer = NoBytes
  /\ typed = NoText /\ torn = FALSE
  /\ messages = 0 /\ interrupts = 0

-----------------------------------------------------------------------------
(* The framebuffer, as operators on its contents.                          *)

print_bitmap(f, x, y, cell) ==
  [p \in Pixels |-> IF /\ (p \div Pitch) \div Glyph = y /\ (p % Pitch) \div Glyph = x
                    THEN cell ELSE f[p]]

\* Slip: the last line is not cleared.
scroll_keep(f) == [p \in Pixels |-> IF p + Glyph * Pitch \in Pixels THEN f[p + Glyph * Pitch] ELSE f[p]]

\* Of every line Glyph * Width pixels in a row are moved up by a line, then as many
\* of the last line are cleared.
scroll(f) ==
  LET line(p) == p \div (Glyph * Pitch)
      copied(p) == p % (Glyph * Pitch) < Glyph * Width
  IN [p \in Pixels |-> IF ~copied(p) \/ line(p) > cursor_y_max THEN f[p]
                       ELSE IF line(p) = cursor_y_max THEN Blank ELSE f[p + Glyph * Pitch]]

clear(f) == [p \in Pixels |-> IF p < Width * Glyph * (cursor_y_max + 1) THEN Blank ELSE f[p]]

-----------------------------------------------------------------------------
(* Scripts: characters to print, and changes of the colour.                *)

\* The functions of log.c, by name; the text in front of a message is one character
\* here.
k_log(body) == <<"plain", "L">> \o body \o <<"CR", "NL">>
Tagged(c, tag, body) == <<"[", c, tag, "plain", "]">> \o body \o <<"CR", "NL">>
Script(function, format) ==
  LET body == _vsnprintf(format)
  IN CASE function = "printf_" -> body
       [] function = "k_log" -> k_log(body)
       [] function = "k_ok" -> Tagged("ok", "O", body)
       [] function = "k_wrn" -> Tagged("wrn", "W", body)
       [] function = "k_err" -> Tagged("err", "E", body)
       [] function = "k_todo" -> Tagged("dbg", "T", body)
       [] function = "k_test_pass" -> Tagged("ok", "P", body)

\* A step of a script on a console nobody else writes to.
NewLine(s) ==
  IF s.y + 1 > cursor_y_max THEN [s EXCEPT !.fb = scroll(@), !.x = 0]
  ELSE [s EXCEPT !.y = @ + 1, !.x = 0]
advance_cursor(s) == IF s.x + 1 > cursor_x_max THEN NewLine(s) ELSE [s EXCEPT !.x = @ + 1]
k_putc(s, ch) ==
  CASE ch = "NL" -> NewLine(s)
    [] ch = "CR" -> [s EXCEPT !.x = 0]
    [] ch = "0xff" -> s
    [] OTHER -> advance_cursor([s EXCEPT !.fb = print_bitmap(@, s.x, s.y, <<ch, s.colour>>)])
Perform(s, step) == IF IsColour(step) THEN [s EXCEPT !.colour = step] ELSE k_putc(s, step)
\* All the steps of a script, one after the other.
PerformAll(s, steps) ==
  LET after[k \in 0 .. Len(steps)] == IF k = 0 THEN s ELSE Perform(after[k - 1], steps[k])
  IN after[Len(steps)]

Screen == [fb |-> fb, x |-> cursor_x, y |-> cursor_y, colour |-> colour]
Become(s) == fb' = s.fb /\ cursor_x' = s.x /\ cursor_y' = s.y /\ colour' = s.colour

-----------------------------------------------------------------------------
(* kmain.                                                                  *)

StartMessage(message) ==
  /\ pc = "idle" /\ messages < MaxMessages
  /\ script' = Script(message[1], message[2]) /\ pc' = "next"
  /\ messages' = messages + 1
  /\ call' = NoCall /\ buffer' = NoBytes
  /\ UNCHANGED <<screen, reg, typed, meant, torn, interrupts>>

\* Formatting does not depend on the screen: one call is looked at, on the first
\* screen.
snprintf ==
  /\ pc = "idle" /\ messages = 0 /\ call = NoCall
  /\ \E format \in Formats, maxlen \in Limits :
       call' = <<format, maxlen>> /\ buffer' = snprintf_(format, maxlen)
  /\ UNCHANGED <<screen, kmain, typed, torn, interrupts>>

\* The steps of kmain's k_putc.
Goto(place) == pc' = place /\ UNCHANGED <<script, messages>>
Step == Head(script)
\* The end of a step: a character was printed.
StepDone ==
  /\ pc' = "next" /\ script' = Tail(script)
  /\ typed' = Type(typed, <<Step, meant>>)
  /\ UNCHANGED <<meant, messages>>
Frame == UNCHANGED <<colour, calls, torn, interrupts>>

MessageEnds ==
  /\ pc = "next" /\ script = <<>>
  /\ pc' = "idle"
  /\ UNCHANGED <<screen, script, reg, meant, messages, calls, typed, torn, interrupts>>

set_text_colour ==
  /\ pc = "next" /\ script # <<>> /\ IsColour(Step)
  /\ colour' = Step /\ meant' = Step
  /\ script' = Tail(script)
  /\ UNCHANGED <<fb, cursor_x, cursor_y, pc, reg, messages, calls, typed, torn, interrupts>>

\* '\n' goes on to nl_cursor, '\r' is done, a character the font lacks is skipped, and
\* for a glyph the cursor is read.
Fetch ==
  /\ pc = "next" /\ script # <<>> /\ ~IsColour(Step)
  /\ CASE Step = "NL" -> Goto("nl_cursor") /\ UNCHANGED <<cursor_x, reg, typed, meant>>
       [] Step = "CR" -> StepDone /\ cursor_x' = 0 /\ UNCHANGED reg
       [] Step = "0xff" -> StepDone /\ UNCHANGED <<cursor_x, reg>>
       [] OTHER -> Goto("draw") /\ reg' = <<cursor_x, cursor_y>> /\ UNCHANGED <<cursor_x, typed, meant>>
  /\ UNCHANGED <<fb, cursor_y>> /\ Frame

Draw ==
  /\ pc = "draw"
  /\ fb' = print_bitmap(fb, reg[1], reg[2], <<Step, colour>>)
  /\ Goto("advance")
  /\ UNCHANGED <<cursor_x, cursor_y, reg, typed, meant>> /\ Frame

\* advance_cursor reads cursor_x and compares ...
Advance ==
  /\ pc = "advance"
  /\ reg' = <<cursor_x + 1, cursor_y>>
  /\ Goto(IF cursor_x + 1 > cursor_x_max THEN "nl_cursor" ELSE "store_x")
  /\ UNCHANGED <<fb, cursor_x, cursor_y, typed, meant>> /\ Frame

\* ... and stores what it read, plus one.
StoreX ==
  /\ pc = "store_x"
  /\ cursor_x' = reg[1]
  /\ StepDone
  /\ UNCHANGED <<fb, cursor_y, reg>> /\ Frame

\* nl_cursor reads cursor_y and compares.
nl_cursor ==
  /\ pc = "nl_cursor"
  /\ reg' = <<0, cursor_y + 1>>
  /\ Goto(IF cursor_y + 1 > cursor_y_max THEN "scroll" ELSE "store_y")
  /\ UNCHANGED <<fb, cursor_x, cursor_y, typed, meant>> /\ Frame

\* Slip: the cursor is counted up in memory.
StoreY_memory ==
  /\ pc = "store_y"
  /\ cursor_y' = cursor_y + 1 /\ cursor_x' = 0
  /\ StepDone
  /\ UNCHANGED <<fb, reg>> /\ Frame

StoreY ==
  /\ pc = "store_y"
  /\ cursor_y' = reg[2] /\ cursor_x' = 0
  /\ StepDone
  /\ UNCHANGED <<fb, reg>> /\ Frame

Scroll ==
  /\ pc = "scroll"
  /\ fb' = scroll(fb) /\ cursor_x' = 0
  /\ StepDone
  /\ UNCHANGED <<cursor_y, reg>> /\ Frame

-----------------------------------------------------------------------------
(* Handlers.                                                               *)

Inside == pc \notin {"idle", "next"}

\* setup_idt comes after kmain's first message.
Interruptible == messages > 0 /\ interrupts < MaxInterrupts

\* unimplemented_fault and unimplemented_trap of an exception that returns.
Notice(notice) ==
  /\ Interruptible
  /\ LET steps == Script(notice[1], notice[2])
     IN Become(PerformAll(Screen, steps)) /\ typed' = TypeAll(typed, steps)
  /\ torn' = (torn \/ Inside \/ meant # "plain")
  /\ interrupts' = interrupts + 1
  /\ UNCHANGED <<kmain, calls>>

\* The shell's command.
ClearCommand ==
  /\ Interruptible
  /\ fb' = clear(fb) /\ cursor_x' = 0 /\ cursor_y' = 0
  /\ typed' = NoText
  /\ torn' = (torn \/ Inside)
  /\ interrupts' = interrupts + 1
  /\ UNCHANGED <<colour, kmain, calls>>

Idle == pc = "idle" /\ messages = MaxMessages /\ UNCHANGED vars

Kmain ==
  \/ MessageEnds \/ set_text_colour \/ Fetch \/ Draw \/ Advance \/ StoreX \/ nl_cursor \/ StoreY
  \/ Scroll

Next ==
  \/ \E m \in Messages : StartMessage(m)
  \/ snprintf
  \/ Kmain
  \/ \E n \in Notices : Notice(n)
  \/ ClearCommand
  \/ Idle

Spec == Init /\ [][Next]_vars

-----------------------------------------------------------------------------
(* When the screen shows what was printed, and numbers are right.          *)

\* A line of the framebuffer ends where the screen does: scroll and clear count with
\* Width where print_bitmap counts with Pitch.
NoPadding == Pitch = Width

\* Handlers print in the plain colour.
NoticesPlain ==
  \A notice \in Notices :
    LET steps == Script(notice[1], notice[2])
    IN \A k \in DOMAIN steps : steps[k] \notin Colours \ {"plain"}

\* A number fits into the buffer of its digits with its sign: the code drops what does
\* not.  A precision given as a negative argument counts as 0 in the code.
NumbersFit ==
  /\ PRINTF_NTOA_BUFFER_SIZE > 1
  /\ \A format \in Formats : \A k \in 1 .. Len(format) :
       LET d == format[k]
       IN d.specifier \in IntegerSpecifiers =>
            /\ Magnitude(d) < Power(Base(d.specifier), PRINTF_NTOA_BUFFER_SIZE - 1)
            /\ d.precision >= None

-----------------------------------------------------------------------------
(* Properties.                                                             *)

\* The cursor stays on the screen, and so does every glyph, whatever handlers print
\* between a comparison and the store that follows it.
CursorOnScreen ==
  /\ cursor_x \in 0 .. cursor_x_max /\ cursor_y \in 0 .. cursor_y_max
  /\ pc = "draw" => reg[1] <= cursor_x_max /\ reg[2] <= cursor_y_max

\* Between messages the screen shows what was printed: the last lines, each
\* character where it belongs and in the colour meant for it, and nothing else,
\* unless a handler wrote inside a character or a coloured tag of kmain's.
ShowsText ==
  (pc = "idle" /\ ~torn) => fb = Picture(typed.lines)

\* Integers come out as the C standard says, for the conversions in which the code
\* has no defect: no '#', and no precision together with '-'.
FormatsRight ==
  \A k \in 1 .. Len(call[1]) :
    LET d == call[1][k]
    IN (/\ d.specifier \in IntegerSpecifiers
        /\ "#" \notin d.flags
        /\ ~("-" \in Flags(d) /\ d.precision > 0)
        /\ Max({FieldWidth(d), d.precision}) < PRINTF_NTOA_BUFFER_SIZE)
       => _ntoa_long(d) = Reference(d)

\* snprintf_ writes inside its limit, ends the string inside it, and keeps as much of
\* the text as fits in front of the end.
EndsInBuffer ==
  LET maxlen == call[2]
      out == _vsnprintf(call[1])
      kept == Min({Len(out), maxlen - 1})
  IN IF maxlen = 0 THEN buffer = NoBytes
     ELSE /\ DOMAIN buffer = 0 .. kept
          /\ buffer[kept] = NUL
          /\ \A k \in 1 .. kept : buffer[k - 1] = out[k]
=============================================================================
