------------------------------- MODULE Printf -------------------------------
(***************************************************************************)
(* The kernel's printf (kernel/src/util/printf.c, without floating point,  *)
(* as it is built) as operators, and the C standard's meaning of the same  *)
(* conversions as a reference.                                             *)
(*                                                                         *)
(* A format is a sequence of directives; a directive is what its text says *)
(* (flags, width, precision, length, specifier) with its argument, and a   *)
(* character of the format stands for itself, as a specifier the code does *)
(* not know does.  NUL ends a string.  Bits gives the integer types their  *)
(* width, so that values wrap.                                             *)
(***************************************************************************)
EXTENDS Integers, Sequences, FiniteSets, SequencesExt, FiniteSetsExt

CONSTANTS
  PRINTF_NTOA_BUFFER_SIZE,   \* characters of an integer: 32
  Bits                       \* [hh, h, int, l |-> bits]: 8, 16, 32, 64

ASSUME PrintfAssumption ==
  /\ PRINTF_NTOA_BUFFER_SIZE \in Nat \ {0}
  /\ \A t \in {"hh", "h", "int", "l"} : Bits[t] \in Nat \ {0}
  /\ Bits["hh"] <= Bits["h"] /\ Bits["h"] <= Bits["int"] /\ Bits["int"] <= Bits["l"]

NUL == "NUL"
None == -1      \* no precision in the directive

\* Width and precision may be arguments ('*'), and negative.
Directive(flags, width, precision, length, specifier, arg) ==
  [flags |-> flags, width |-> width, precision |-> precision, length |-> length,
   specifier |-> specifier, arg |-> arg]

Lower == <<"0", "1", "2", "3", "4", "5", "6", "7", "8", "9", "a", "b", "c", "d", "e", "f">>
Upper == <<"0", "1", "2", "3", "4", "5", "6", "7", "8", "9", "A", "B", "C", "D", "E", "F">>
Digit(d, upper) == IF upper THEN Upper[d + 1] ELSE Lower[d + 1]

Repeat(ch, n) == [k \in 1 .. Max({n, 0}) |-> ch]
Base(specifier) == CASE specifier \in {"x", "X", "p"} -> 16 [] specifier = "o" -> 8
                     [] specifier = "b" -> 2 [] OTHER -> 10
Signed == {"d", "i"}
IntegerSpecifiers == Signed \cup {"u", "x", "X", "o", "b"}

\* Flags are those the code knows, and arguments what their specifiers read.
WellFormed(format) ==
  /\ Len(format) \in Nat
  /\ \A k \in 1 .. Len(format) :
       LET d == format[k]
       IN /\ d.flags \subseteq {"0", "-", "+", " ", "#"}
          /\ d.width \in Int /\ d.precision \in Int
          /\ d.specifier = "s" => d.arg \in Seq(STRING)
          /\ d.specifier \in IntegerSpecifiers => d.arg \in Int /\ d.length \in {"hh", "h", "int", "l"}

\* The n-th power of b.
Power(b, n) ==
  LET power[k \in 0 .. n] == IF k = 0 THEN 1 ELSE b * power[k - 1]
  IN power[n]

\* An argument as the directive's type reads it.
Wrap(v, bits) == v % Power(2, bits)
SignedOf(v, bits) ==
  IF Wrap(v, bits) >= Power(2, bits - 1) THEN Wrap(v, bits) - Power(2, bits) ELSE Wrap(v, bits)
Value(d) ==
  LET bits == IF d.specifier = "p" THEN Bits["l"] ELSE Bits[d.length]
  IN IF d.specifier \in Signed THEN SignedOf(d.arg, bits) ELSE Wrap(d.arg, bits)
Magnitude(d) == IF Value(d) < 0 THEN -Value(d) ELSE Value(d)

-----------------------------------------------------------------------------
(* _vsnprintf.                                                             *)

\* The flags that are left when the whole directive was read: a negative width
\* pads to the left, a decimal has no '#', an unsigned value no sign, and a
\* precision switches off '0'.
Flags(d) ==
  (d.flags \cup (IF d.width < 0 THEN {"-"} ELSE {}) \cup (IF d.precision # None THEN {"."} ELSE {})
     \cup (IF d.specifier = "p" THEN {"0"} ELSE {}))
  \ ((IF d.specifier \in IntegerSpecifiers /\ Base(d.specifier) = 10 THEN {"#"} ELSE {})
     \cup (IF d.specifier \in IntegerSpecifiers \ Signed THEN {"+", " "} ELSE {})
     \cup (IF d.specifier \in IntegerSpecifiers /\ d.precision # None THEN {"0"} ELSE {}))
FieldWidth(d) == IF d.specifier = "p" THEN Bits["l"] \div 4 ELSE IF d.width < 0 THEN -d.width ELSE d.width
Precision(d) == Max({d.precision, 0})

\* The digits from the last one on, until nothing of the value is left or the buffer
\* is full; left[k] is the value after k rounds.
_ntoa_digits(value, d) ==
  LET base == Base(d.specifier)
      size == PRINTF_NTOA_BUFFER_SIZE
      left[k \in 0 .. size] == IF k = 0 THEN value ELSE left[k - 1] \div base
      len == Min({k \in 1 .. size : left[k] = 0} \cup {size})
  IN IF "." \in Flags(d) /\ value = 0 THEN <<>>
     ELSE [k \in 1 .. len |-> Digit(left[k - 1] % base, d.specifier \in {"X", "p"})]

Room(buf) == PRINTF_NTOA_BUFFER_SIZE - Len(buf)
PadTo(buf, n) == buf \o Repeat("0", Min({n - Len(buf), Room(buf)}))
Put1(buf, ch) == IF Room(buf) > 0 THEN Append(buf, ch) ELSE buf

\* Slip: the sign comes on top of the width.
PaddedWidth_full(negative, d) == FieldWidth(d)

\* A width that is zero padded leaves one place for the sign.
PaddedWidth(negative, d) ==
  IF /\ "-" \notin Flags(d) /\ "0" \in Flags(d) /\ FieldWidth(d) > 0
     /\ negative \/ Flags(d) \cap {"+", " "} # {}
  THEN FieldWidth(d) - 1 ELSE FieldWidth(d)

Hash(buf, width, d) ==
  LET full == "." \notin Flags(d) /\ Len(buf) > 0 /\ Len(buf) \in {Precision(d), width}
      cut == IF ~full THEN 0 ELSE IF Len(buf) > 1 /\ Base(d.specifier) = 16 THEN 2 ELSE 1
      rest == SubSeq(buf, 1, Len(buf) - cut)
      letter == CASE d.specifier \in {"x", "b"} -> d.specifier [] d.specifier \in {"X", "p"} -> "X"
                  [] OTHER -> ""
  IN Put1(IF letter = "" THEN rest ELSE Put1(rest, letter), "0")

SignOf(negative, d) ==
  IF negative THEN "-" ELSE IF "+" \in Flags(d) THEN "+" ELSE IF " " \in Flags(d) THEN " " ELSE ""

_out_rev(buf, width, flags) ==
  (IF flags \cap {"-", "0"} = {} THEN Repeat(" ", width - Len(buf)) ELSE <<>>)
    \o Reverse(buf)
    \o (IF "-" \in flags THEN Repeat(" ", width - Len(buf)) ELSE <<>>)

_ntoa_format(digits, negative, d, hash) ==
  LET width == PaddedWidth(negative, d)
      zeros == IF "-" \in Flags(d) THEN digits ELSE PadTo(digits, Precision(d))
      padded == IF "0" \in Flags(d) /\ "-" \notin Flags(d) THEN PadTo(zeros, width) ELSE zeros
      hashed == IF hash THEN Hash(padded, width, d) ELSE padded
      sign == SignOf(negative, d)
  IN _out_rev(IF sign = "" THEN hashed ELSE Put1(hashed, sign), width, Flags(d))

_ntoa_long(d) ==
  _ntoa_format(_ntoa_digits(Magnitude(d), d), Value(d) < 0, d, "#" \in Flags(d) /\ Magnitude(d) # 0)

\* A character or a string in its width; a string ends at its precision.
Padded(text, d) ==
  LET pad == Repeat(" ", FieldWidth(d) - Len(text))
  IN IF "-" \in Flags(d) THEN text \o pad ELSE pad \o text
_strnlen_s(text, d) == IF "." \in Flags(d) THEN Min({Len(text), Precision(d)}) ELSE Len(text)

Convert(d) ==
  CASE d.specifier \in IntegerSpecifiers \cup {"p"} -> _ntoa_long(d)
    [] d.specifier = "c" -> Padded(<<d.arg>>, d)
    [] d.specifier = "s" -> Padded(SubSeq(d.arg, 1, _strnlen_s(d.arg, d)), d)
    [] OTHER -> <<d.specifier>>

\* All the characters handed to out, the terminating one left out.
_vsnprintf(format) ==
  LET done[k \in 0 .. Len(format)] == IF k = 0 THEN <<>> ELSE done[k - 1] \o Convert(format[k])
  IN done[Len(format)]

\* Slip: the character past the limit is written too.
_out_buffer_wide(buffer, idx, ch, maxlen) ==
  IF idx <= maxlen THEN [k \in DOMAIN buffer \cup {idx} |-> IF k = idx THEN ch ELSE buffer[k]] ELSE buffer

\* The characters from index 0 on, as far as the limit allows.
_out_buffer(buffer, idx, ch, maxlen) ==
  IF idx < maxlen THEN [k \in DOMAIN buffer \cup {idx} |-> IF k = idx THEN ch ELSE buffer[k]] ELSE buffer

\* The bytes snprintf_ writes: the characters, then the end at the limit's last place
\* if there are too many.  maxlen - 1 of a limit of 0 is no index of the buffer.
snprintf_(format, maxlen) ==
  LET out == _vsnprintf(format)
      written[n \in 0 .. Len(out)] ==
        IF n = 0 THEN [k \in {} |-> NUL] ELSE _out_buffer(written[n - 1], n - 1, out[n], maxlen)
      end == IF Len(out) < maxlen THEN Len(out) ELSE IF maxlen = 0 THEN maxlen ELSE maxlen - 1
  IN _out_buffer(written[Len(out)], end, NUL, maxlen)

-----------------------------------------------------------------------------
(* The reference: C11 7.21.6.1, for the conversions the code has.           *)

\* The digits of a value, the first one first, in no more places than it needs.
ReferenceDigits(v, base, least) ==
  LET n == CHOOSE n \in least .. least + v :
             Power(base, n) > v /\ (n = least \/ Power(base, n - 1) <= v)
  IN [k \in 1 .. n |-> (v \div Power(base, n - k)) % base]

Reference(d) ==
  LET v == Value(d)
      left == "-" \in d.flags \/ d.width < 0
      width == IF d.width < 0 THEN -d.width ELSE d.width
      precise == d.precision >= 0
      sign == IF d.specifier \notin Signed THEN <<>>
              ELSE IF v < 0 THEN <<"-">> ELSE IF "+" \in d.flags THEN <<"+">>
              ELSE IF " " \in d.flags THEN <<" ">> ELSE <<>>
      digits == ReferenceDigits(IF v < 0 THEN -v ELSE v, Base(d.specifier),
                                IF precise THEN d.precision ELSE 1)
      body == [k \in DOMAIN digits |-> Digit(digits[k], d.specifier = "X")]
      missing == width - Len(sign) - Len(body)
  IN IF left THEN sign \o body \o Repeat(" ", missing)
     ELSE IF "0" \in d.flags /\ ~precise THEN sign \o Repeat("0", missing) \o body
     ELSE Repeat(" ", missing) \o sign \o body
=============================================================================
