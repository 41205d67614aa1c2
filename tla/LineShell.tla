----------------------------- MODULE LineShell -----------------------------
(***************************************************************************)
(* What the kernel debug shell of kernel/src/interupt/rs232_handler.c      *)
(* promises its user: it starts with the first return; from then on keys   *)
(* build a line, backspace takes back the last one, and return runs the    *)
(* first command whose name the line starts with and starts a new line.    *)
(***************************************************************************)
EXTENDS Sequences, SequencesExt, FiniteSetsExt

CONSTANTS
  Letters,
  Commands,      \* sequence of [name, ticks]: the order they are tried in
  Nothing,       \* replies that are no command
  Unknown

VARIABLES running, line, reply

svars == <<running, line, reply>>

Matching(typed) == {i \in DOMAIN Commands : IsPrefix(Commands[i].name, typed)}

Reply(typed) ==
  IF Matching(typed) # {} THEN Commands[Min(Matching(typed))].name
  ELSE IF typed = <<>> THEN Nothing ELSE Unknown

Init == running = FALSE /\ line = <<>> /\ reply = Nothing

Key(c) == running /\ line' = Append(line, c) /\ UNCHANGED <<running, reply>>

Backspace == running /\ line # <<>> /\ line' = Front(line) /\ UNCHANGED <<running, reply>>

\* The reply is given, then the prompt is written and a new line starts.
Answer == reply' = Reply(line) /\ UNCHANGED <<running, line>>
Prompt == reply = Reply(line) /\ line' = <<>> /\ running' = TRUE /\ UNCHANGED reply

Next == (\E c \in Letters : Key(c)) \/ Backspace \/ Answer \/ Prompt

Spec == Init /\ [][Next]_svars
=============================================================================
