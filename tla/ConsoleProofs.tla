---------------------------- MODULE ConsoleProofs ----------------------------
(***************************************************************************)
(* Proofs about Console and Printf, for every screen of at least one       *)
(* glyph, every message and notice, and every format and limit.            *)
(*                                                                         *)
(* For the buffer: whatever the directives, each is converted to a text    *)
(* (TextConvert), so the loop over the format makes one (TextFormatted),   *)
(* and the loop over its characters leaves them up to the limit            *)
(* (WritesUpto).  For the cursor: a handler's whole message keeps it on    *)
(* the screen (ScriptOnScreen) and leaves kmain's register alone, and what *)
(* is stored from the register was compared with the screen (CursorInv).   *)
(* For the screen: a picture of the text follows each change of the text   *)
(* (PicturePut, PictureDown, PictureScrolled), pixel by pixel, and ShowInv *)
(* says what of kmain's step is on the screen at each place in it.         *)
(* For the numbers: dividing again and again is dividing by a power        *)
(* (LeftsQuotients), so the padded digits are the reference's backwards    *)
(* (BodyWritten, ZerosRight); sign and spaces follow (NumberRight).        *)
(***************************************************************************)
EXTENDS Console, WellFoundedInduction, TLAPS

-----------------------------------------------------------------------------
(* Induction over the rounds of a loop.  The provers do not instantiate a  *)
(* predicate, so it is over the set of rounds after which all is well.     *)

\* A set of numbers has a least element.
LEMMA Least ==
  ASSUME NEW T \in SUBSET Nat, T # {}
  PROVE  \E n \in T : \A m \in T : n <= m
<1>1. PICK x \in T : \A y \in T : <<y, x>> \notin OpToRel(<, Nat)
  BY WFMin, NatLessThanWellFounded, Zenon
<1>2. OpToRel(<, Nat) = {p \in Nat \X Nat : p[1] < p[2]}
  BY Zenon DEF OpToRel
<1>3. \A y \in T : ~(y < x)
  BY <1>1, <1>2
<1> QED BY <1>3

\* It is the one that Min chooses.
LEMMA Smallest ==
  ASSUME NEW T \in SUBSET Nat, T # {}
  PROVE  Min(T) \in T
BY Least DEF Min

\* The set of counterexamples below a bound has a least one, which is not 0 when 0 is
\* none, so that its predecessor is no counterexample.
LEMMA LeastFailure ==
  ASSUME NEW n \in Nat, NEW Good \in SUBSET (0 .. n), 0 \in Good,
         \A i \in 1 .. n : i - 1 \in Good => i \in Good
  PROVE  \A i \in 0 .. n : i \in Good
<1> DEFINE Bad == (0 .. n) \ Good
<1> SUFFICES ASSUME Bad # {} PROVE FALSE
  OBVIOUS
<1>1. PICK k \in Bad : \A m \in Bad : k <= m
  <2> Bad \in SUBSET Nat
    OBVIOUS
  <2> HIDE DEF Bad
  <2> QED BY Least
<1>2. k \in 1 .. n /\ k - 1 \in 0 .. n
  OBVIOUS
<1>3. k - 1 \in Good
  BY <1>1, <1>2
<1> QED BY <1>2, <1>3

-----------------------------------------------------------------------------
(* What is formatted is a text: a sequence of whatever characters.         *)

IsText(s) == \E A : s \in Seq(A)

\* A text has a length, and one character for each place.
LEMMA TextFacts ==
  ASSUME NEW s, IsText(s)
  PROVE  Len(s) \in Nat /\ DOMAIN s = 1 .. Len(s)
BY DEF IsText

\* A character for each place makes a text.
LEMMA TextOfPlaces ==
  ASSUME NEW s, NEW n \in Nat, s = [k \in 1 .. n |-> s[k]]
  PROVE  IsText(s) /\ Len(s) = n
<1>1. s \in Seq({s[k] : k \in 1 .. n})
  <2> DEFINE A == {s[k] : k \in 1 .. n}
  <2>1. \A k \in 1 .. n : s[k] \in A
    OBVIOUS
  <2>2. s \in [1 .. n -> A]
    <3> HIDE DEF A
    <3> QED BY <2>1
  <2> HIDE DEF A
  <2> QED BY <2>2
<1>2. PICK A : s \in Seq(A)
  BY <1>1
<1>3. DOMAIN s = 1 .. n /\ DOMAIN s = 1 .. Len(s) /\ Len(s) \in Nat
  BY <1>2
<1>4. Len(s) = n
  BY <1>3
<1> QED BY <1>2, <1>4 DEF IsText

\* No characters are a text.
LEMMA EmptyText == IsText(<<>>)
BY DEF IsText

\* One character is a text.
LEMMA OneCharacter ==
  ASSUME NEW ch
  PROVE  IsText(<<ch>>)
<1>1. <<ch>> \in Seq({ch})
  OBVIOUS
<1> QED BY <1>1 DEF IsText

\* Two texts in a row are a text.
LEMMA TextConcat ==
  ASSUME NEW s, NEW t, IsText(s), IsText(t)
  PROVE  IsText(s \o t)
<1>1. PICK A : s \in Seq(A)
  BY DEF IsText
<1>2. PICK B : t \in Seq(B)
  BY DEF IsText
<1>3. s \in Seq(A \cup B) /\ t \in Seq(A \cup B)
  BY <1>1, <1>2
<1>4. s \o t \in Seq(A \cup B)
  BY <1>3
<1> QED BY <1>4 DEF IsText

\* A text and a character are a text.
LEMMA TextAppend ==
  ASSUME NEW s, NEW ch, IsText(s)
  PROVE  IsText(Append(s, ch))
<1>1. PICK A : s \in Seq(A)
  BY DEF IsText
<1>2. s \in Seq(A \cup {ch})
  BY <1>1
<1>3. Append(s, ch) \in Seq(A \cup {ch})
  BY <1>2
<1> QED BY <1>3 DEF IsText

\* The first m characters.
LEMMA TextPrefix ==
  ASSUME NEW s, IsText(s), NEW m \in 0 .. Len(s)
  PROVE  IsText(SubSeq(s, 1, m))
<1>1. PICK A : s \in Seq(A)
  BY DEF IsText
<1>2. SubSeq(s, 1, m) \in Seq(A)
  BY <1>1
<1> QED BY <1>2 DEF IsText

\* A text backwards is a text.
LEMMA TextReverse ==
  ASSUME NEW s, IsText(s)
  PROVE  IsText(Reverse(s))
<1>1. Len(s) \in Nat
  BY TextFacts
<1>2. Reverse(s) = [k \in 1 .. Len(s) |-> Reverse(s)[k]]
  BY <1>1 DEF Reverse
<1> QED BY <1>1, <1>2, TextOfPlaces

\* The greater and the smaller of two numbers.
LEMMA MaxOfTwo ==
  ASSUME NEW a \in Int, NEW b \in Int
  PROVE  Max({a, b}) \in {a, b} /\ Max({a, b}) >= a /\ Max({a, b}) >= b
BY DEF Max

\* The smaller of two numbers.
LEMMA MinOfTwo ==
  ASSUME NEW a \in Int, NEW b \in Int
  PROVE  Min({a, b}) \in {a, b} /\ Min({a, b}) <= a /\ Min({a, b}) <= b
BY DEF Min

\* Padding is a text; none is written when the number is negative.
LEMMA TextRepeat ==
  ASSUME NEW ch, NEW n \in Int
  PROVE  IsText(Repeat(ch, n))
<1> DEFINE m == Max({n, 0})
<1>0. 0 \in Int
  OBVIOUS
<1>1. m \in {n, 0} /\ m >= 0
  BY <1>0, MaxOfTwo, Zenon
<1>2. m \in Nat
  BY <1>1
<1>3. Repeat(ch, n) = [k \in 1 .. m |-> ch]
  BY DEF Repeat
<1> HIDE DEF m
<1>4. Repeat(ch, n) = [k \in 1 .. m |-> Repeat(ch, n)[k]]
  BY <1>3
<1> QED BY <1>2, <1>4, TextOfPlaces

-----------------------------------------------------------------------------
(* The conversions.                                                        *)

\* A directive that a format may hold.
IsDirective(d) ==
  /\ d.width \in Int /\ d.precision \in Int
  /\ d.specifier = "s" => d.arg \in Seq(STRING)

\* Width and precision of a directive are numbers, also after the place for the sign.
LEMMA WidthFacts ==
  ASSUME NEW d, IsDirective(d), NEW negative
  PROVE  FieldWidth(d) \in Int /\ Precision(d) \in Nat /\ PaddedWidth(negative, d) \in Int
<1>1. FieldWidth(d) \in Int
  <2>1. Bits["l"] \in Nat
    BY PrintfAssumption
  <2> QED BY <2>1 DEF FieldWidth, IsDirective
<1>2. Precision(d) \in Nat
  <2>1. 0 \in Int /\ d.precision \in Int
    BY DEF IsDirective
  <2>2. Precision(d) \in {d.precision, 0} /\ Precision(d) >= 0
    BY <2>1, MaxOfTwo, Zenon DEF Precision
  <2> QED BY <2>1, <2>2
<1>3. PaddedWidth(negative, d) \in Int
  <2>1. PaddedWidth(negative, d) = FieldWidth(d) - 1 \/ PaddedWidth(negative, d) = FieldWidth(d)
    BY Zenon DEF PaddedWidth
  <2> QED BY <1>1, <2>1
<1> QED BY <1>1, <1>2, <1>3

\* The digits of a value end at the buffer's size.
LEMMA TextDigits ==
  ASSUME NEW value, NEW d
  PROVE  IsText(_ntoa_digits(value, d))
<1>1. CASE "." \in Flags(d) /\ value = 0
  BY <1>1, EmptyText DEF _ntoa_digits
<1>2. CASE ~("." \in Flags(d) /\ value = 0)
  <2> DEFINE base == Base(d.specifier)
             size == PRINTF_NTOA_BUFFER_SIZE
             left == CHOOSE f : f = [k \in 0 .. size |-> IF k = 0 THEN value ELSE f[k - 1] \div base]
             S == {k \in 1 .. size : left[k] = 0} \cup {size}
             s == _ntoa_digits(value, d)
  <2>1. s = [k \in 1 .. Min(S) |-> Digit(left[k - 1] % base, d.specifier \in {"X", "p"})]
    BY <1>2, Zenon DEF _ntoa_digits
  <2>2. S \in SUBSET Nat /\ S # {}
    BY PrintfAssumption
  <2>3. Min(S) \in S
    <3> HIDE DEF S
    <3> QED BY <2>2, Smallest, Zenon
  <2>4. Min(S) \in Nat
    <3> HIDE DEF S
    <3> QED BY <2>2, <2>3
  <2> HIDE DEF S, left, base
  <2>5. s = [k \in 1 .. Min(S) |-> s[k]]
    <3> HIDE DEF s
    <3> QED BY <2>1
  <2> HIDE DEF s
  <2>6. IsText(s)
    BY <2>4, <2>5, TextOfPlaces
  <2> QED BY <2>6 DEF s
<1> QED BY <1>1, <1>2

\* Zeros in front of a number.
LEMMA TextPadTo ==
  ASSUME NEW buf, IsText(buf), NEW n \in Int
  PROVE  IsText(PadTo(buf, n))
<1>1. n - Len(buf) \in Int /\ Room(buf) \in Int
  BY TextFacts, PrintfAssumption DEF Room
<1>2. Min({n - Len(buf), Room(buf)}) \in {n - Len(buf), Room(buf)}
  BY <1>1, MinOfTwo, Zenon
<1>3. Min({n - Len(buf), Room(buf)}) \in Int
  BY <1>1, <1>2
<1>4. IsText(Repeat("0", Min({n - Len(buf), Room(buf)})))
  BY <1>3, TextRepeat
<1> QED BY <1>4, TextConcat DEF PadTo

\* A character in front of a number, if there is room.
LEMMA TextPut1 ==
  ASSUME NEW buf, IsText(buf), NEW ch
  PROVE  IsText(Put1(buf, ch))
BY TextAppend DEF Put1

\* The prefix of '#', which may replace digits that were zeros.
LEMMA TextHash ==
  ASSUME NEW buf, IsText(buf), NEW width, NEW d
  PROVE  IsText(Hash(buf, width, d))
<1> DEFINE full == "." \notin Flags(d) /\ Len(buf) > 0 /\ Len(buf) \in {Precision(d), width}
           cut == IF ~full THEN 0 ELSE IF Len(buf) > 1 /\ Base(d.specifier) = 16 THEN 2 ELSE 1
           rest == SubSeq(buf, 1, Len(buf) - cut)
           letter == CASE d.specifier \in {"x", "b"} -> d.specifier [] d.specifier \in {"X", "p"} -> "X"
                       [] OTHER -> ""
<1>1. Hash(buf, width, d) = Put1(IF letter = "" THEN rest ELSE Put1(rest, letter), "0")
  BY Zenon DEF Hash
<1>2. Len(buf) \in Nat
  BY TextFacts
<1>3. Len(buf) - cut \in 0 .. Len(buf)
  <2>1. CASE ~full
    BY <1>2, <2>1
  <2>2. CASE full
    <3>1. Len(buf) > 0 /\ cut \in {1, 2} /\ (cut = 2 => Len(buf) > 1)
      BY <2>2
    <3> HIDE DEF cut
    <3> QED BY <1>2, <3>1
  <2> QED BY <2>1, <2>2
<1>4. IsText(rest)
  <2> HIDE DEF cut
  <2> QED BY <1>3, TextPrefix
<1> HIDE DEF rest, letter
<1>5. IsText(IF letter = "" THEN rest ELSE Put1(rest, letter))
  BY <1>4, TextPut1
<1> QED BY <1>1, <1>5, TextPut1

\* _out_rev: the buffer backwards with spaces on one side.
LEMMA TextOutRev ==
  ASSUME NEW buf, IsText(buf), NEW width \in Int, NEW flags
  PROVE  IsText(_out_rev(buf, width, flags))
<1>1. width - Len(buf) \in Int
  BY TextFacts
<1>2. IsText(Repeat(" ", width - Len(buf))) /\ IsText(<<>>) /\ IsText(Reverse(buf))
  BY <1>1, TextRepeat, EmptyText, TextReverse
<1>3. IsText(IF flags \cap {"-", "0"} = {} THEN Repeat(" ", width - Len(buf)) ELSE <<>>)
  BY <1>2
<1>4. IsText(IF "-" \in flags THEN Repeat(" ", width - Len(buf)) ELSE <<>>)
  BY <1>2
<1> QED BY <1>2, <1>3, <1>4, TextConcat, Zenon DEF _out_rev

\* _ntoa_format: zeros, prefix, sign, spaces.
LEMMA TextNtoaFormat ==
  ASSUME NEW digits, IsText(digits), NEW negative, NEW d, IsDirective(d), NEW hash
  PROVE  IsText(_ntoa_format(digits, negative, d, hash))
<1> DEFINE width == PaddedWidth(negative, d)
           zeros == IF "-" \in Flags(d) THEN digits ELSE PadTo(digits, Precision(d))
           padded == IF "0" \in Flags(d) /\ "-" \notin Flags(d) THEN PadTo(zeros, width) ELSE zeros
           hashed == IF hash THEN Hash(padded, width, d) ELSE padded
           sign == SignOf(negative, d)
           full == IF sign = "" THEN hashed ELSE Put1(hashed, sign)
<1>1. width \in Int /\ Precision(d) \in Int
  BY WidthFacts
<1> HIDE DEF width
<1>2. IsText(zeros)
  BY <1>1, TextPadTo
<1> HIDE DEF zeros
<1>3. IsText(padded)
  BY <1>1, <1>2, TextPadTo
<1> HIDE DEF padded
<1>4. IsText(hashed)
  BY <1>3, TextHash
<1> HIDE DEF hashed, sign
<1>5. IsText(full)
  BY <1>4, TextPut1
<1>6. IsText(_out_rev(full, width, Flags(d)))
  <2> HIDE DEF full
  <2> QED BY <1>1, <1>5, TextOutRev
<1> QED BY <1>6, Zenon DEF _ntoa_format, width, zeros, padded, hashed, sign, full

\* A character or a string in its width.
LEMMA TextPadded ==
  ASSUME NEW s, IsText(s), NEW d, IsDirective(d)
  PROVE  IsText(Padded(s, d))
<1>1. FieldWidth(d) - Len(s) \in Int
  BY TextFacts, WidthFacts
<1>2. IsText(Repeat(" ", FieldWidth(d) - Len(s)))
  BY <1>1, TextRepeat
<1>3. IsText(s \o Repeat(" ", FieldWidth(d) - Len(s))) /\ IsText(Repeat(" ", FieldWidth(d) - Len(s)) \o s)
  BY <1>2, TextConcat
<1> QED BY <1>3 DEF Padded

\* Whatever its flags, width and precision, a directive is converted to a text.
LEMMA TextConvert ==
  ASSUME NEW d, IsDirective(d)
  PROVE  IsText(Convert(d))
<1>1. IsText(_ntoa_long(d))
  <2>1. IsText(_ntoa_digits(Magnitude(d), d))
    BY TextDigits
  <2>2. IsText(_ntoa_format(_ntoa_digits(Magnitude(d), d), Value(d) < 0, d,
                            "#" \in Flags(d) /\ Magnitude(d) # 0))
    BY <2>1, TextNtoaFormat
  <2> QED BY <2>2, Zenon DEF _ntoa_long
<1>2. IsText(Padded(<<d.arg>>, d))
  BY OneCharacter, TextPadded
<1>3. d.specifier = "s" => IsText(Padded(SubSeq(d.arg, 1, _strnlen_s(d.arg, d)), d))
  <2> SUFFICES ASSUME d.specifier = "s"
               PROVE  IsText(Padded(SubSeq(d.arg, 1, _strnlen_s(d.arg, d)), d))
    OBVIOUS
  <2>1. IsText(d.arg)
    BY DEF IsDirective, IsText
  <2>2. _strnlen_s(d.arg, d) \in 0 .. Len(d.arg)
    <3>1. Len(d.arg) \in Nat /\ Precision(d) \in Nat
      BY <2>1, TextFacts, WidthFacts
    <3>2. /\ Min({Len(d.arg), Precision(d)}) \in {Len(d.arg), Precision(d)}
          /\ Min({Len(d.arg), Precision(d)}) <= Len(d.arg)
      <4>1. Len(d.arg) \in Int /\ Precision(d) \in Int
        BY <3>1
      <4> QED BY <4>1, MinOfTwo, Zenon
    <3>3. Min({Len(d.arg), Precision(d)}) \in 0 .. Len(d.arg)
      BY <3>1, <3>2
    <3> QED BY <3>1, <3>3 DEF _strnlen_s
  <2> QED BY <2>1, <2>2, TextPrefix, TextPadded
<1>4. IsText(<<d.specifier>>)
  BY OneCharacter
<1> QED BY <1>1, <1>2, <1>3, <1>4 DEF Convert

-----------------------------------------------------------------------------
(* _vsnprintf and snprintf_.                                               *)

\* The directives of a format.
LEMMA FormatDirectives ==
  ASSUME NEW format, WellFormed(format)
  PROVE  Len(format) \in Nat /\ \A k \in 1 .. Len(format) : IsDirective(format[k])
BY DEF WellFormed, IsDirective

\* The rounds of _vsnprintf's loop.
Rounds(f, format, n) ==
  f = [k \in 0 .. n |-> IF k = 0 THEN <<>> ELSE f[k - 1] \o Convert(format[k])]

\* The loop runs to the end of the format.
LEMMA RoundsExist ==
  ASSUME NEW format, NEW n \in Nat
  PROVE  \E f : Rounds(f, format, n)
<1> DEFINE Good == {k \in 0 .. n : \E f : Rounds(f, format, k)}
<1>1. 0 \in Good
  <2>1. Rounds([k \in 0 .. 0 |-> <<>>], format, 0)
    BY DEF Rounds
  <2> QED BY <2>1
<1>2. ASSUME NEW m \in 1 .. n, m - 1 \in Good PROVE m \in Good
  <2>1. PICK f : Rounds(f, format, m - 1)
    BY <1>2
  <2> DEFINE g == [k \in 0 .. m |-> IF k = m THEN f[m - 1] \o Convert(format[m]) ELSE f[k]]
  <2>2. \A k \in 0 .. m : g[k] = IF k = 0 THEN <<>> ELSE g[k - 1] \o Convert(format[k])
    <3> TAKE k \in 0 .. m
    <3>1. CASE k = m
      <4>1. g[k] = f[m - 1] \o Convert(format[m]) /\ g[m - 1] = f[m - 1] /\ k # 0
        BY <3>1
      <4> QED BY <3>1, <4>1
    <3>2. CASE k # m
      <4>1. k \in 0 .. m - 1 /\ (k # 0 => k - 1 \in 0 .. m - 1)
        BY <3>2
      <4>2. g[k] = f[k] /\ (k # 0 => g[k - 1] = f[k - 1])
        BY <4>1
      <4>3. f[k] = IF k = 0 THEN <<>> ELSE f[k - 1] \o Convert(format[k])
        BY <2>1, <4>1 DEF Rounds
      <4> QED BY <4>2, <4>3
    <3> QED BY <3>1, <3>2
  <2>3. Rounds(g, format, m)
    <3>1. g = [k \in 0 .. m |-> g[k]]
      OBVIOUS
    <3> HIDE DEF g
    <3> QED BY <2>2, <3>1 DEF Rounds
  <2> HIDE DEF g
  <2> QED BY <2>3
<1>3. Good \in SUBSET (0 .. n)
  OBVIOUS
<1>4. (\A k \in 0 .. n : k \in Good) => \E f : Rounds(f, format, n)
  OBVIOUS
<1> HIDE DEF Good
<1> QED BY <1>1, <1>2, <1>3, <1>4, LeastFailure

\* What _vsnprintf hands to out is a text.
LEMMA TextFormatted ==
  ASSUME NEW format, WellFormed(format)
  PROVE  IsText(_vsnprintf(format))
<1> DEFINE n == Len(format)
           done == CHOOSE f : Rounds(f, format, n)
           Good == {k \in 0 .. n : IsText(done[k])}
<1>1. n \in Nat
  BY FormatDirectives
<1>2. Rounds(done, format, n)
  <2> HIDE DEF n
  <2> QED BY <1>1, RoundsExist
<1>3. _vsnprintf(format) = done[n]
  BY Zenon DEF _vsnprintf, Rounds
<1> HIDE DEF done
<1>4. done[0] = <<>> /\ \A k \in 1 .. n : done[k] = done[k - 1] \o Convert(format[k])
  <2> HIDE DEF n
  <2>1. \A k \in 0 .. n : done[k] = IF k = 0 THEN <<>> ELSE done[k - 1] \o Convert(format[k])
    BY <1>2, Zenon DEF Rounds
  <2>2. 0 \in 0 .. n /\ \A k \in 1 .. n : k \in 0 .. n /\ k # 0
    BY <1>1
  <2> QED BY <2>1, <2>2
<1>5. 0 \in Good
  BY <1>1, <1>4, EmptyText
<1>6. ASSUME NEW k \in 1 .. n, k - 1 \in Good PROVE k \in Good
  <2>1. IsText(done[k - 1]) /\ IsText(Convert(format[k]))
    BY <1>6, FormatDirectives, TextConvert
  <2>2. IsText(done[k])
    BY <1>4, <2>1, TextConcat
  <2> QED BY <2>2
<1>7. Good \in SUBSET (0 .. n)
  OBVIOUS
<1>8. (\A k \in 0 .. n : k \in Good) => IsText(done[n])
  BY <1>1
<1> HIDE DEF Good, n
<1>9. IsText(done[n])
  BY <1>1, <1>5, <1>6, <1>7, <1>8, LeastFailure
<1> QED BY <1>3, <1>9

\* What is in the buffer after n characters, and the rounds that wrote it.
Upto(out, maxlen, n) == [k \in 0 .. (IF n < maxlen THEN n ELSE maxlen) - 1 |-> out[k + 1]]
Writes(f, out, maxlen) ==
  f = [n \in 0 .. Len(out) |->
         IF n = 0 THEN [k \in {} |-> NUL] ELSE _out_buffer(f[n - 1], n - 1, out[n], maxlen)]

\* Nothing at first, then a character more or, at the limit, none.
LEMMA UptoNone ==
  ASSUME NEW out, NEW maxlen \in Nat
  PROVE  Upto(out, maxlen, 0) = [k \in {} |-> NUL]
<1>1. 0 .. (IF 0 < maxlen THEN 0 ELSE maxlen) - 1 = {}
  OBVIOUS
<1> QED BY <1>1 DEF Upto

\* One character more, as long as the limit allows.
LEMMA UptoNext ==
  ASSUME NEW out, NEW maxlen \in Nat, NEW n \in Nat \ {0}
  PROVE  _out_buffer(Upto(out, maxlen, n - 1), n - 1, out[n], maxlen) = Upto(out, maxlen, n)
<1> DEFINE old == Upto(out, maxlen, n - 1)
           new == Upto(out, maxlen, n)
<1>1. CASE n - 1 < maxlen
  <2>1. old = [k \in 0 .. n - 2 |-> out[k + 1]]
    BY <1>1 DEF Upto
  <2>2. new = [k \in 0 .. n - 1 |-> out[k + 1]]
    <3>1. (IF n < maxlen THEN n ELSE maxlen) = n
      BY <1>1
    <3> QED BY <3>1 DEF Upto
  <2>3. (0 .. n - 2) \cup {n - 1} = 0 .. n - 1
    OBVIOUS
  <2>4. _out_buffer(old, n - 1, out[n], maxlen)
          = [k \in 0 .. n - 1 |-> IF k = n - 1 THEN out[n] ELSE old[k]]
    <3> HIDE DEF old
    <3>1. DOMAIN old \cup {n - 1} = 0 .. n - 1
      BY <2>1, <2>3
    <3> QED BY <1>1, <3>1 DEF _out_buffer
  <2>5. ASSUME NEW k \in 0 .. n - 1
        PROVE  (IF k = n - 1 THEN out[n] ELSE old[k]) = out[k + 1]
    <3>1. CASE k = n - 1
      BY <3>1
    <3>2. CASE k # n - 1
      <4>1. k \in 0 .. n - 2
        BY <3>2
      <4> HIDE DEF old
      <4> QED BY <2>1, <3>2, <4>1
    <3> QED BY <3>1, <3>2
  <2> HIDE DEF old, new
  <2> QED BY <2>2, <2>4, <2>5 DEF old, new
<1>2. CASE ~(n - 1 < maxlen)
  <2>1. (IF n < maxlen THEN n ELSE maxlen) = maxlen /\ (IF n - 1 < maxlen THEN n - 1 ELSE maxlen) = maxlen
    BY <1>2
  <2>2. old = new
    BY <2>1 DEF Upto
  <2> HIDE DEF old, new
  <2> QED BY <1>2, <2>2 DEF _out_buffer, old, new
<1> QED BY <1>1, <1>2

\* The loop over the characters runs to their end.
LEMMA WritesExist ==
  ASSUME NEW out, IsText(out), NEW maxlen \in Nat
  PROVE  \E f : Writes(f, out, maxlen)
<1> DEFINE f == [n \in 0 .. Len(out) |-> Upto(out, maxlen, n)]
<1>1. Len(out) \in Nat
  BY TextFacts
<1>2. ASSUME NEW n \in 0 .. Len(out)
      PROVE  f[n] = IF n = 0 THEN [k \in {} |-> NUL] ELSE _out_buffer(f[n - 1], n - 1, out[n], maxlen)
  <2>1. CASE n = 0
    BY <2>1, UptoNone
  <2>2. CASE n # 0
    <3>1. f[n] = Upto(out, maxlen, n) /\ f[n - 1] = Upto(out, maxlen, n - 1) /\ n \in Nat \ {0}
      BY <1>1, <2>2
    <3> HIDE DEF f
    <3> QED BY <2>2, <3>1, UptoNext
  <2> QED BY <2>1, <2>2
<1>3. f = [n \in 0 .. Len(out) |-> f[n]]
  OBVIOUS
<1>4. Writes(f, out, maxlen)
  <2> HIDE DEF f
  <2> QED BY <1>2, <1>3 DEF Writes
<1> QED BY <1>4

\* After all characters the buffer holds them up to the limit.
LEMMA WritesUpto ==
  ASSUME NEW out, IsText(out), NEW maxlen \in Nat, NEW f, Writes(f, out, maxlen)
  PROVE  f[Len(out)] = Upto(out, maxlen, Len(out))
<1> DEFINE m == Len(out)
           Good == {n \in 0 .. m : f[n] = Upto(out, maxlen, n)}
<1>1. m \in Nat
  BY TextFacts
<1>2. /\ f[0] = [k \in {} |-> NUL]
      /\ \A n \in 1 .. m : f[n] = _out_buffer(f[n - 1], n - 1, out[n], maxlen)
  <2>1. \A n \in 0 .. m :
          f[n] = IF n = 0 THEN [k \in {} |-> NUL] ELSE _out_buffer(f[n - 1], n - 1, out[n], maxlen)
    BY Zenon DEF Writes
  <2>2. 0 \in 0 .. m /\ \A n \in 1 .. m : n \in 0 .. m /\ n # 0
    BY <1>1
  <2> HIDE DEF m
  <2> QED BY <2>1, <2>2
<1>3. 0 \in Good
  BY <1>1, <1>2, UptoNone
<1>4. ASSUME NEW n \in 1 .. m, n - 1 \in Good PROVE n \in Good
  <2>1. f[n - 1] = Upto(out, maxlen, n - 1) /\ n \in Nat \ {0}
    BY <1>1, <1>4
  <2>2. f[n] = Upto(out, maxlen, n)
    BY <1>2, <2>1, UptoNext
  <2> QED BY <1>1, <2>2
<1>5. Good \in SUBSET (0 .. m)
  OBVIOUS
<1>6. (\A n \in 0 .. m : n \in Good) => f[m] = Upto(out, maxlen, m)
  BY <1>1
<1> HIDE DEF Good, m
<1>7. f[m] = Upto(out, maxlen, m)
  BY <1>1, <1>3, <1>4, <1>5, <1>6, LeastFailure
<1> QED BY <1>7 DEF m

\* The string that snprintf_ leaves.
Ends(bytes, out, maxlen) ==
  LET kept == Min({Len(out), maxlen - 1})
  IN IF maxlen = 0 THEN bytes = NoBytes
     ELSE /\ DOMAIN bytes = 0 .. kept
          /\ bytes[kept] = NUL
          /\ \A k \in 1 .. kept : bytes[k - 1] = out[k]

\* What snprintf_ leaves, for every format and limit.
LEMMA SnprintfEnds ==
  ASSUME NEW format, WellFormed(format), NEW maxlen \in Nat
  PROVE  Ends(snprintf_(format, maxlen), _vsnprintf(format), maxlen)
<1> DEFINE out == _vsnprintf(format)
           m == Len(out)
           written == CHOOSE f : Writes(f, out, maxlen)
           end == IF m < maxlen THEN m ELSE IF maxlen = 0 THEN maxlen ELSE maxlen - 1
           bytes == snprintf_(format, maxlen)
           kept == Min({m, maxlen - 1})
<1>1. IsText(out) /\ m \in Nat
  BY TextFormatted, TextFacts
<1>2. bytes = _out_buffer(written[m], end, NUL, maxlen)
  BY Zenon DEF snprintf_, Writes
<1>3. written[m] = Upto(out, maxlen, m)
  <2> HIDE DEF out
  <2> QED BY <1>1, WritesExist, WritesUpto
<1>4. CASE maxlen = 0
  <2>1. Upto(out, maxlen, m) = NoBytes
    <3> HIDE DEF out
    <3>1. 0 .. (IF m < maxlen THEN m ELSE maxlen) - 1 = {}
      BY <1>1, <1>4
    <3> QED BY <3>1 DEF Upto, NoBytes
  <2>2. ~(end < maxlen)
    BY <1>1, <1>4
  <2>3. bytes = NoBytes
    <3> HIDE DEF out, end, written, bytes
    <3> QED BY <1>2, <1>3, <2>1, <2>2 DEF _out_buffer
  <2> QED BY <1>4, <2>3, Zenon DEF Ends
<1>5. CASE maxlen # 0
  <2>1. end = kept /\ end \in Nat /\ end < maxlen
    <3> HIDE DEF out
    <3>1. m \in Int /\ maxlen - 1 \in Int
      BY <1>1
    <3>2. kept \in {m, maxlen - 1} /\ kept <= m /\ kept <= maxlen - 1
      <4> HIDE DEF m
      <4> QED BY <3>1, MinOfTwo, Zenon
    <3> HIDE DEF kept, m
    <3> QED BY <1>1, <1>5, <3>2
  <2>2. DOMAIN Upto(out, maxlen, m) \cup {end} = 0 .. end
    <3> HIDE DEF out, m
    <3>1. DOMAIN Upto(out, maxlen, m) = 0 .. (IF m < maxlen THEN m ELSE maxlen) - 1
      BY DEF Upto
    <3> QED BY <1>1, <1>5, <3>1
  <2>3. ASSUME NEW k \in 1 .. end PROVE Upto(out, maxlen, m)[k - 1] = out[k]
    <3> HIDE DEF out, m
    <3>1. k - 1 \in 0 .. (IF m < maxlen THEN m ELSE maxlen) - 1 /\ k - 1 + 1 = k
      BY <1>1, <1>5
    <3> QED BY <3>1 DEF Upto
  <2>4. /\ DOMAIN bytes = 0 .. end
        /\ bytes[end] = NUL
        /\ \A k \in 1 .. end : bytes[k - 1] = out[k]
    <3> HIDE DEF out, m, written, bytes, end
    <3>1. bytes = [k \in 0 .. end |-> IF k = end THEN NUL ELSE Upto(out, maxlen, m)[k]]
      BY <1>2, <1>3, <2>1, <2>2 DEF _out_buffer
    <3>2. end \in 0 .. end /\ \A k \in 1 .. end : k - 1 \in 0 .. end /\ k - 1 # end
      BY <2>1
    <3> QED BY <2>3, <3>1, <3>2
  <2>5. /\ DOMAIN bytes = 0 .. kept
        /\ bytes[kept] = NUL
        /\ \A k \in 1 .. kept : bytes[k - 1] = out[k]
    <3> HIDE DEF bytes, end, out
    <3> QED BY <2>1, <2>4
  <2> QED BY <1>5, <2>5, Zenon DEF Ends
<1> QED BY <1>4, <1>5

-----------------------------------------------------------------------------
(* The cursor.                                                             *)

\* The console of somebody who prints without being interrupted.
OnScreen(s) ==
  /\ DOMAIN s = {"fb", "x", "y", "colour"}
  /\ s.x \in 0 .. cursor_x_max /\ s.y \in 0 .. cursor_y_max

\* There is room for a glyph.
LEMMA ScreenFacts == cursor_x_max \in Nat /\ cursor_y_max \in Nat
<1>1. \A a \in Nat, b \in Nat \ {0} : a >= b => a \div b - 1 \in Nat
  OBVIOUS
<1>2. Glyph \in Nat \ {0} /\ Width \in Nat /\ Height \in Nat /\ Width >= Glyph /\ Height >= Glyph
  BY ConsoleAssumption
<1> QED BY <1>1, <1>2 DEF cursor_x_max, cursor_y_max

\* A line feed keeps the cursor on the screen, or scrolls.
LEMMA NewLineOnScreen ==
  ASSUME NEW s, OnScreen(s)
  PROVE  OnScreen(NewLine(s))
<1>1. CASE s.y + 1 > cursor_y_max
  <2>1. NewLine(s) = [s EXCEPT !.fb = scroll(@), !.x = 0]
    BY <1>1 DEF NewLine
  <2> QED BY <2>1, ScreenFacts DEF OnScreen
<1>2. CASE ~(s.y + 1 > cursor_y_max)
  <2>1. NewLine(s) = [s EXCEPT !.y = @ + 1, !.x = 0]
    BY <1>2 DEF NewLine
  <2> QED BY <1>2, <2>1, ScreenFacts DEF OnScreen
<1> QED BY <1>1, <1>2

\* So does going on by a character.
LEMMA AdvanceOnScreen ==
  ASSUME NEW s, OnScreen(s)
  PROVE  OnScreen(advance_cursor(s))
<1>1. CASE s.x + 1 > cursor_x_max
  BY <1>1, NewLineOnScreen DEF advance_cursor
<1>2. CASE ~(s.x + 1 > cursor_x_max)
  <2>1. advance_cursor(s) = [s EXCEPT !.x = @ + 1]
    BY <1>2 DEF advance_cursor
  <2> QED BY <1>2, <2>1, ScreenFacts DEF OnScreen
<1> QED BY <1>1, <1>2

\* So does any step of a script.
LEMMA PerformOnScreen ==
  ASSUME NEW s, OnScreen(s), NEW step
  PROVE  OnScreen(Perform(s, step))
<1>1. OnScreen([s EXCEPT !.colour = step])
  BY DEF OnScreen
<1>2. OnScreen([s EXCEPT !.x = 0])
  BY ScreenFacts DEF OnScreen
<1>3. OnScreen([s EXCEPT !.fb = print_bitmap(@, s.x, s.y, <<step, s.colour>>)])
  BY DEF OnScreen
<1>4. OnScreen(advance_cursor([s EXCEPT !.fb = print_bitmap(@, s.x, s.y, <<step, s.colour>>)]))
  BY <1>3, AdvanceOnScreen
<1>5. OnScreen(k_putc(s, step))
  BY <1>2, <1>4, NewLineOnScreen DEF k_putc
<1> QED BY <1>1, <1>5 DEF Perform

\* The steps of a script, one after the other.
Performs(f, s, steps, n) ==
  f = [k \in 0 .. n |-> IF k = 0 THEN s ELSE Perform(f[k - 1], steps[k])]

\* The steps run to the end of the script.
LEMMA PerformsExist ==
  ASSUME NEW s, NEW steps, NEW n \in Nat
  PROVE  \E f : Performs(f, s, steps, n)
<1> DEFINE Good == {k \in 0 .. n : \E f : Performs(f, s, steps, k)}
<1>1. 0 \in Good
  <2>1. Performs([k \in 0 .. 0 |-> s], s, steps, 0)
    BY DEF Performs
  <2> QED BY <2>1
<1>2. ASSUME NEW m \in 1 .. n, m - 1 \in Good PROVE m \in Good
  <2>1. PICK f : Performs(f, s, steps, m - 1)
    BY <1>2
  <2> DEFINE g == [k \in 0 .. m |-> IF k = m THEN Perform(f[m - 1], steps[m]) ELSE f[k]]
  <2>2. \A k \in 0 .. m : g[k] = IF k = 0 THEN s ELSE Perform(g[k - 1], steps[k])
    <3> TAKE k \in 0 .. m
    <3>1. CASE k = m
      <4>1. g[k] = Perform(f[m - 1], steps[m]) /\ g[m - 1] = f[m - 1] /\ k # 0
        BY <3>1
      <4> QED BY <3>1, <4>1
    <3>2. CASE k # m
      <4>1. k \in 0 .. m - 1 /\ (k # 0 => k - 1 \in 0 .. m - 1)
        BY <3>2
      <4>2. g[k] = f[k] /\ (k # 0 => g[k - 1] = f[k - 1])
        BY <4>1
      <4>3. f[k] = IF k = 0 THEN s ELSE Perform(f[k - 1], steps[k])
        BY <2>1, <4>1 DEF Performs
      <4> QED BY <4>2, <4>3
    <3> QED BY <3>1, <3>2
  <2>3. Performs(g, s, steps, m)
    <3>1. g = [k \in 0 .. m |-> g[k]]
      OBVIOUS
    <3> HIDE DEF g
    <3> QED BY <2>2, <3>1 DEF Performs
  <2> HIDE DEF g
  <2> QED BY <2>3
<1>3. Good \in SUBSET (0 .. n)
  OBVIOUS
<1>4. (\A k \in 0 .. n : k \in Good) => \E f : Performs(f, s, steps, n)
  OBVIOUS
<1> HIDE DEF Good
<1> QED BY <1>1, <1>2, <1>3, <1>4, LeastFailure

\* However long the script, it ends with the cursor on the screen.
LEMMA ScriptOnScreen ==
  ASSUME NEW s, OnScreen(s), NEW steps, Len(steps) \in Nat
  PROVE  OnScreen(PerformAll(s, steps))
<1> DEFINE n == Len(steps)
           after == CHOOSE f : Performs(f, s, steps, n)
           Good == {k \in 0 .. n : OnScreen(after[k])}
<1>1. n \in Nat
  OBVIOUS
<1>2. Performs(after, s, steps, n)
  <2> HIDE DEF n
  <2> QED BY <1>1, PerformsExist
<1>3. PerformAll(s, steps) = after[n]
  BY Zenon DEF PerformAll, Performs
<1> HIDE DEF after
<1>4. after[0] = s /\ \A k \in 1 .. n : after[k] = Perform(after[k - 1], steps[k])
  <2> HIDE DEF n
  <2>1. \A k \in 0 .. n : after[k] = IF k = 0 THEN s ELSE Perform(after[k - 1], steps[k])
    BY <1>2, Zenon DEF Performs
  <2>2. 0 \in 0 .. n /\ \A k \in 1 .. n : k \in 0 .. n /\ k # 0
    BY <1>1
  <2> QED BY <2>1, <2>2
<1>5. 0 \in Good
  BY <1>1, <1>4
<1>6. ASSUME NEW k \in 1 .. n, k - 1 \in Good PROVE k \in Good
  <2>1. OnScreen(after[k])
    BY <1>4, <1>6, PerformOnScreen
  <2> QED BY <2>1
<1>7. Good \in SUBSET (0 .. n)
  OBVIOUS
<1>8. (\A k \in 0 .. n : k \in Good) => OnScreen(after[n])
  BY <1>1
<1> HIDE DEF Good, n
<1>9. OnScreen(after[n])
  BY <1>1, <1>5, <1>6, <1>7, <1>8, LeastFailure
<1> QED BY <1>3, <1>9

\* What a log function prints is a text.
LEMMA TextScript ==
  ASSUME NEW function \in LogFunctions, NEW format, WellFormed(format)
  PROVE  IsText(Script(function, format))
<1> DEFINE body == _vsnprintf(format)
<1>1. IsText(body)
  BY TextFormatted
<1> HIDE DEF body
<1>2. \A a, b : IsText(<<a, b>>)
  <2> TAKE a, b
  <2>1. <<a, b>> \in Seq({a, b})
    OBVIOUS
  <2> QED BY <2>1 DEF IsText
<1>3. IsText(k_log(body))
  BY <1>1, <1>2, TextConcat DEF k_log
<1>4. ASSUME NEW hue, NEW tag PROVE IsText(Tagged(hue, tag, body))
  <2>1. <<"[", hue, tag, "plain", "]">> \in Seq({"[", hue, tag, "plain", "]"})
    OBVIOUS
  <2>2. IsText(<<"[", hue, tag, "plain", "]">>)
    BY <2>1 DEF IsText
  <2> QED BY <1>1, <1>2, <2>2, TextConcat DEF Tagged
<1> QED BY <1>1, <1>3, <1>4 DEF Script, LogFunctions, body

-----------------------------------------------------------------------------
(* The invariant.                                                          *)

\* What kmain holds in its register while a handler prints is a place on the screen
\* where it will be drawn to or stored, whatever the cursor is by then.
CursorInv ==
  /\ cursor_x \in 0 .. cursor_x_max /\ cursor_y \in 0 .. cursor_y_max
  /\ pc = "draw" => reg[1] \in 0 .. cursor_x_max /\ reg[2] \in 0 .. cursor_y_max
  /\ pc = "store_x" => reg[1] \in 0 .. cursor_x_max
  /\ pc = "store_y" => reg[2] \in 0 .. cursor_y_max

\* The cursor begins at the top left.
LEMMA InitCursor == Init => CursorInv
BY ScreenFacts DEF Init, CursorInv

\* A handler's message moves the cursor on the screen, and not what kmain has read.
LEMMA NoticeCursor ==
  ASSUME CursorInv, NEW notice \in Notices, Notice(notice)
  PROVE  CursorInv'
<1> DEFINE steps == Script(notice[1], notice[2])
           s == PerformAll(Screen, steps)
<1>1. OnScreen(Screen)
  BY DEF CursorInv, OnScreen, Screen
<1>2. notice[1] \in LogFunctions /\ WellFormed(notice[2])
  BY ConsoleAssumption
<1>3. Len(steps) \in Nat
  BY <1>2, TextScript, TextFacts
<1>4. OnScreen(s)
  <2> HIDE DEF steps
  <2> QED BY <1>1, <1>3, ScriptOnScreen
<1>5. cursor_x' = s.x /\ cursor_y' = s.y /\ UNCHANGED <<pc, reg>>
  BY Zenon DEF Notice, Become, kmain
<1> HIDE DEF s
<1> QED BY <1>4, <1>5 DEF OnScreen, CursorInv, cursor_x_max, cursor_y_max

\* Every step keeps the cursor on the screen.
LEMMA NextCursor == CursorInv /\ [Next]_vars => CursorInv'
<1> SUFFICES ASSUME CursorInv, [Next]_vars PROVE CursorInv'
  OBVIOUS
<1>0. cursor_x_max \in Nat /\ cursor_y_max \in Nat
  BY ScreenFacts
<1>1. cursor_x_max' = cursor_x_max /\ cursor_y_max' = cursor_y_max
  BY DEF cursor_x_max, cursor_y_max
<1> USE <1>0, <1>1 DEF CursorInv
<1>2. ASSUME NEW m \in Messages, StartMessage(m) PROVE CursorInv'
  BY <1>2 DEF StartMessage, screen
<1>3. CASE snprintf
  BY <1>3 DEF snprintf, screen, kmain
<1>4. CASE MessageEnds
  BY <1>4 DEF MessageEnds, screen
<1>5. CASE set_text_colour
  BY <1>5 DEF set_text_colour
<1>6. CASE Fetch
  <2>1. /\ cursor_y' = cursor_y /\ cursor_x' \in {cursor_x, 0}
        /\ pc' = "draw" => reg' = <<cursor_x, cursor_y>>
        /\ pc' \in {"next", "nl_cursor", "draw"}
    BY <1>6 DEF Fetch, Goto, StepDone
  <2> QED BY <2>1
<1>7. CASE Draw
  BY <1>7 DEF Draw, Goto
<1>8. CASE Advance
  BY <1>8 DEF Advance, Goto
<1>9. CASE StoreX
  BY <1>9 DEF StoreX, StepDone
<1>10. CASE nl_cursor
  BY <1>10 DEF nl_cursor, Goto
<1>11. CASE StoreY
  BY <1>11 DEF StoreY, StepDone
<1>12. CASE Scroll
  BY <1>12 DEF Scroll, StepDone
<1>13. ASSUME NEW n \in Notices, Notice(n) PROVE CursorInv'
  BY <1>13, NoticeCursor
<1>14. CASE ClearCommand
  BY <1>14 DEF ClearCommand, kmain
<1>15. CASE Idle \/ UNCHANGED vars
  BY <1>15 DEF Idle, vars
<1> QED
  BY <1>2, <1>3, <1>4, <1>5, <1>6, <1>7, <1>8, <1>9, <1>10, <1>11, <1>12, <1>13, <1>14, <1>15
     DEF Next, Kmain

\* On a screen of any size, whatever kmain and handlers print and wherever a handler
\* interrupts: the cursor stays on the screen, and so does every glyph.
THEOREM ConsoleCursor == Spec => []CursorOnScreen
<1>1. CursorInv => CursorOnScreen
  BY ScreenFacts DEF CursorInv, CursorOnScreen
<1> QED BY <1>1, InitCursor, NextCursor, PTL DEF Spec

\* A limit is kept by the last call, and the bytes are those of its text.
LEMMA InitEnds == Init => EndsInBuffer
BY DEF Init, EndsInBuffer, NoCall

\* Every call of snprintf_ leaves a string inside its limit.
LEMMA NextEnds == EndsInBuffer /\ [Next]_vars => EndsInBuffer'
<1> SUFFICES ASSUME EndsInBuffer, [Next]_vars PROVE EndsInBuffer'
  OBVIOUS
<1>1. CASE snprintf
  <2>1. PICK format \in Formats, maxlen \in Limits :
          call' = <<format, maxlen>> /\ buffer' = snprintf_(format, maxlen)
    BY <1>1 DEF snprintf
  <2>2. WellFormed(format) /\ maxlen \in Nat
    BY ConsoleAssumption
  <2>3. Ends(buffer', _vsnprintf(format), maxlen)
    BY <2>1, <2>2, SnprintfEnds
  <2>4. call'[1] = format /\ call'[2] = maxlen
    BY <2>1
  <2>5. Ends(buffer', _vsnprintf(call'[1]), call'[2])
    BY <2>3, <2>4
  <2> QED BY <2>5, Zenon DEF Ends, EndsInBuffer
<1>2. CASE call' = NoCall /\ buffer' = NoBytes
  BY <1>2 DEF EndsInBuffer, NoCall
<1>3. CASE UNCHANGED calls
  BY <1>3, Zenon DEF EndsInBuffer, calls
<1>4. snprintf \/ (call' = NoCall /\ buffer' = NoBytes) \/ UNCHANGED calls
  BY DEF Next, Kmain, StartMessage, MessageEnds, set_text_colour, Fetch, Draw, Advance, StoreX,
         nl_cursor, StoreY, Scroll, Notice, ClearCommand, Idle, Frame, calls, vars
<1> QED BY <1>1, <1>2, <1>3, <1>4

\* For every format and every limit, snprintf_ writes inside the limit, ends the
\* string inside it, and keeps what fits in front of the end.
THEOREM SnprintfInBuffer == Spec => []EndsInBuffer
BY InitEnds, NextEnds, PTL DEF Spec

-----------------------------------------------------------------------------
(* The pixels.                                                             *)

\* A quotient is known by its remainder.
LEMMA Quotient ==
  ASSUME NEW b \in Nat, b > 0, NEW a \in Nat, NEW q \in Nat, NEW r \in Nat, r < b, a = q * b + r
  PROVE  a \div b = q /\ a % b = r
<1>1. PICK q2 \in Int : q2 = a \div b
  OBVIOUS
<1>2. PICK r2 \in Int : r2 = a % b
  OBVIOUS
<1>3. r2 >= 0 /\ r2 < b /\ a = q2 * b + r2
  BY <1>1, <1>2
<1>4. (q2 - q) * b = r - r2
  BY <1>3
<1>5. q2 - q < 1
  <2> SUFFICES ASSUME q2 - q >= 1 PROVE FALSE
    BY SMT
  <2>1. (q2 - q) * b >= b
    BY SMT
  <2> QED BY SMT, <1>3, <1>4, <2>1
<1>6. q2 - q > -1
  <2> SUFFICES ASSUME q2 - q <= -1 PROVE FALSE
    BY SMT
  <2>1. (q2 - q) * b <= -b
    BY SMT
  <2> QED BY SMT, <1>3, <1>4, <2>1
<1>7. q2 = q
  BY <1>5, <1>6
<1>8. r2 = r
  BY <1>3, <1>7
<1> QED BY <1>1, <1>2, <1>7, <1>8

\* A number has a quotient and a remainder.
LEMMA Divided ==
  ASSUME NEW b \in Nat, b > 0, NEW a \in Nat
  PROVE  \E q \in Nat, r \in Nat : a \div b = q /\ a % b = r /\ r < b /\ a = q * b + r
<1>1. PICK q \in Int : q = a \div b
  OBVIOUS
<1>2. PICK r \in Int : r = a % b
  OBVIOUS
<1>3. r >= 0 /\ r < b /\ a = q * b + r
  BY <1>1, <1>2
<1>4. q >= 0
  <2> SUFFICES ASSUME q <= -1 PROVE FALSE
    BY SMT
  <2>1. q * b <= -b
    BY SMT
  <2> QED BY SMT, <1>3, <2>1
<1>5. q \in Nat /\ r \in Nat
  BY <1>3, <1>4
<1> QED BY <1>1, <1>2, <1>3, <1>5

\* A pixel is in column x and line y of the glyphs.
InPlace(p, x, y) == (p \div Pitch) \div Glyph = y /\ (p % Pitch) \div Glyph = x

\* So it is for the code that counts in whole lines, and a line below is the next one.
PixelAt(p, x, y) ==
  /\ InPlace(p, x, y) /\ InPlace(p + Glyph * Pitch, x, y + 1)
  /\ p \div (Glyph * Pitch) = y /\ p % (Glyph * Pitch) < Glyph * Pitch
  /\ Glyph * Pitch * y <= p /\ p < Glyph * Pitch * (y + 1)

\* Every pixel has such a place.
LEMMA PixelPlace ==
  ASSUME NEW p \in Nat
  PROVE  \E x \in Nat, y \in Nat : PixelAt(p, x, y)
<1>1. Glyph \in Nat /\ Glyph > 0 /\ Pitch \in Nat /\ Pitch > 0
  BY SMT, ConsoleAssumption
<1>2. PICK q \in Nat, r \in Nat : p \div Pitch = q /\ p % Pitch = r /\ r < Pitch /\ p = q * Pitch + r
  BY <1>1, Divided, Zenon
<1>3. PICK y \in Nat, s \in Nat : q \div Glyph = y /\ q % Glyph = s /\ s < Glyph /\ q = y * Glyph + s
  BY <1>1, Divided, Zenon
<1>4. PICK x \in Nat : r \div Glyph = x
  BY <1>1, Divided, Zenon
<1>5. PICK b \in Nat : b = Glyph * Pitch /\ b > 0
  <2>1. Glyph * Pitch \in Nat /\ Glyph * Pitch > 0
    BY SMT, <1>1
  <2> QED BY <2>1, Zenon
<1>6. PICK e \in Nat : e = s * Pitch + r
  <2>1. s * Pitch + r \in Nat
    BY SMT, <1>1
  <2> QED BY <2>1, Zenon
<1>7. e < b
  <2>1. s + 1 <= Glyph
    BY SMT, <1>1, <1>3
  <2>2. (s + 1) * Pitch <= Glyph * Pitch
    BY SMT, <1>1, <2>1
  <2>3. (s + 1) * Pitch = s * Pitch + Pitch
    BY SMT, <1>1
  <2> QED BY SMT, <1>1, <1>2, <1>5, <1>6, <2>2, <2>3
<1>8. p = y * b + e
  <2>1. (y * Glyph + s) * Pitch = y * (Glyph * Pitch) + s * Pitch
    BY SMT, <1>1
  <2> QED BY SMT, <1>1, <1>2, <1>3, <1>5, <1>6, <2>1
<1>9. p \div b = y /\ p % b = e
  BY <1>5, <1>7, <1>8, Quotient, Zenon
<1>10. p + b = (q + Glyph) * Pitch + r
  <2>1. (q + Glyph) * Pitch = q * Pitch + Glyph * Pitch
    BY SMT, <1>1
  <2> QED BY SMT, <1>1, <1>2, <1>5, <2>1
<1>11. (p + b) \div Pitch = q + Glyph /\ (p + b) % Pitch = r
  <2>1. p + b \in Nat /\ q + Glyph \in Nat
    BY SMT, <1>1
  <2>2. PICK pb \in Nat : pb = p + b
    BY <2>1, Zenon
  <2>3. PICK qg \in Nat : qg = q + Glyph
    BY <2>1, Zenon
  <2>4. pb = qg * Pitch + r /\ r < Pitch
    BY <1>2, <1>10, <2>2, <2>3, Zenon
  <2>5. pb \div Pitch = qg /\ pb % Pitch = r
    BY <1>1, <2>4, Quotient, Zenon
  <2> QED BY <2>2, <2>3, <2>5, Zenon
<1>12. (q + Glyph) \div Glyph = y + 1
  <2>1. q + Glyph = (y + 1) * Glyph + s
    BY SMT, <1>1, <1>3
  <2>2. q + Glyph \in Nat /\ y + 1 \in Nat
    BY SMT, <1>1
  <2>3. PICK qg \in Nat : qg = q + Glyph
    BY <2>2, Zenon
  <2>4. PICK z \in Nat : z = y + 1
    BY <2>2, Zenon
  <2>5. qg = z * Glyph + s /\ s < Glyph
    BY <1>3, <2>1, <2>3, <2>4, Zenon
  <2>6. qg \div Glyph = z
    BY <1>1, <2>5, Quotient, Zenon
  <2> QED BY <2>3, <2>4, <2>6, Zenon
<1>13. b * y <= p /\ p < b * (y + 1)
  <2>1. b * (y + 1) = y * b + b /\ b * y = y * b /\ y * b \in Int
    BY SMT
  <2> QED BY SMT, <1>7, <1>8, <2>1
<1>14. PixelAt(p, x, y)
  BY <1>2, <1>3, <1>4, <1>5, <1>7, <1>9, <1>11, <1>12, <1>13, Zenon DEF PixelAt, InPlace
<1> QED BY <1>14, Zenon

\* The pixels are numbers.
LEMMA PixelNumbers == \A p \in Pixels : p \in Nat
BY SMT, ConsoleAssumption DEF Pixels

\* The lines that are moved up are on the screen.
LEMMA PixelBelow ==
  ASSUME NEW p \in Pixels, NEW x \in Nat, NEW y \in Nat, PixelAt(p, x, y), y < cursor_y_max
  PROVE  p + Glyph * Pitch \in Pixels
<1>1. Glyph \in Nat /\ Glyph > 0 /\ Pitch \in Nat /\ Pitch > 0 /\ Height \in Nat
  BY SMT, ConsoleAssumption
<1>2. p \in Nat
  BY PixelNumbers
<1>3. PICK q \in Nat, r \in Nat : Height \div Glyph = q /\ r < Glyph /\ Height = q * Glyph + r
  BY <1>1, Divided, Zenon
<1>4. cursor_y_max = q - 1
  BY <1>3 DEF cursor_y_max
<1>5. PICK b \in Nat : b = Glyph * Pitch /\ b > 0
  <2>1. Glyph * Pitch \in Nat /\ Glyph * Pitch > 0
    BY SMT, <1>1
  <2> QED BY <2>1, Zenon
<1>6. p < b * (y + 1)
  BY <1>5, Zenon DEF PixelAt
<1>7. y + 2 <= q
  BY SMT, <1>4
<1>8. b * (y + 2) <= b * q
  BY SMT, <1>7
<1>9. b * (y + 2) = b * (y + 1) + b /\ b * (y + 1) \in Int /\ b * q \in Int
  BY SMT
<1>10. p + b < b * q
  BY SMT, <1>2, <1>6, <1>8, <1>9
<1>11. b * q = Pitch * (q * Glyph)
  BY SMT, <1>1, <1>5
<1>12. Pitch * (q * Glyph) <= Pitch * Height
  <2>1. q * Glyph \in Int /\ q * Glyph <= Height
    BY SMT, <1>1, <1>3
  <2> QED BY SMT, <1>1, <2>1
<1>13. p + b < Pitch * Height /\ Pitch * Height \in Int
  BY SMT, <1>1, <1>2, <1>9, <1>10, <1>11, <1>12
<1>14. p + b \in 0 .. Pitch * Height - 1
  BY SMT, <1>2, <1>13
<1> QED BY <1>5, <1>14, Zenon DEF Pixels

\* What clear counts as the screen's lines are the lines of glyphs.
LEMMA PixelCleared ==
  ASSUME NoPadding, NEW p \in Pixels, NEW x \in Nat, NEW y \in Nat, PixelAt(p, x, y)
  PROVE  p < Width * Glyph * (cursor_y_max + 1) <=> y <= cursor_y_max
<1>1. Glyph \in Nat /\ Pitch \in Nat /\ Pitch > 0 /\ Glyph > 0 /\ Width = Pitch
  BY SMT, ConsoleAssumption DEF NoPadding
<1>2. p \in Nat /\ cursor_y_max \in Nat
  BY PixelNumbers, ScreenFacts
<1>3. PICK b \in Nat : b = Glyph * Pitch /\ b > 0
  <2>1. Glyph * Pitch \in Nat /\ Glyph * Pitch > 0
    BY SMT, <1>1
  <2> QED BY <2>1, Zenon
<1>4. Width * Glyph = b
  BY SMT, <1>1, <1>3
<1>5. b * y <= p /\ p < b * (y + 1)
  BY <1>3, Zenon DEF PixelAt
<1>6. PICK n \in Nat : n = cursor_y_max
  BY <1>2
<1>7. ASSUME y <= n PROVE p < b * (n + 1)
  <2>1. b * (y + 1) <= b * (n + 1)
    BY SMT, <1>7
  <2>2. b * (y + 1) \in Int /\ b * (n + 1) \in Int
    BY SMT
  <2> QED BY SMT, <1>2, <1>5, <2>1, <2>2
<1>8. ASSUME ~(y <= n) PROVE ~(p < b * (n + 1))
  <2>1. b * (n + 1) <= b * y
    BY SMT, <1>8
  <2>2. b * y \in Int /\ b * (n + 1) \in Int
    BY SMT
  <2> QED BY SMT, <1>2, <1>5, <2>1, <2>2
<1> QED BY <1>4, <1>6, <1>7, <1>8, Zenon

-----------------------------------------------------------------------------
(* The lines and their picture.                                            *)

\* At least one line, each of the screen's width.
IsLines(L) == Len(L) \in Nat \ {0} /\ \E A : L \in Seq([0 .. cursor_x_max -> A])

\* The number of lines above the screen, and the line of the cursor.
Top(L) == IF Len(L) > cursor_y_max + 1 THEN Len(L) - cursor_y_max - 1 ELSE 0
Row(L) == IF Len(L) > cursor_y_max + 1 THEN cursor_y_max ELSE Len(L) - 1

\* What the screen shows in a place.
CellAt(L, x, y) == IF Top(L) + y + 1 \in 1 .. Len(L) THEN L[Top(L) + y + 1][x] ELSE Blank

\* The picture, place by place.
LEMMA PictureAt ==
  ASSUME NEW L, IsLines(L), NEW p \in Pixels, NEW x \in Nat, NEW y \in Nat, InPlace(p, x, y)
  PROVE  Picture(L)[p] = IF x <= cursor_x_max /\ y <= cursor_y_max THEN CellAt(L, x, y) ELSE Blank
<1>1. Len(L) \in Nat /\ DOMAIN L = 1 .. Len(L)
  BY DEF IsLines
<1>2. cursor_y_max \in Nat /\ cursor_x_max \in Nat
  BY ScreenFacts
<1>3. Max({0, Len(L) - cursor_y_max - 1}) = Top(L)
  <2>0. PICK n \in Nat, z \in Nat : n = Len(L) /\ z = cursor_y_max
    BY <1>1, <1>2, Zenon
  <2>1. PICK a \in Int : a = n - z - 1
    <3>1. n - z - 1 \in Int
      BY SMT
    <3> QED BY <3>1, Zenon
  <2>2. 0 \in Int
    OBVIOUS
  <2>3. Max({0, a}) \in {0, a} /\ Max({0, a}) >= 0 /\ Max({0, a}) >= a
    BY <2>2, MaxOfTwo, Zenon
  <2>4. PICK b : b = Max({0, a})
    OBVIOUS
  <2>5. b \in {0, a} /\ b >= 0 /\ b >= a
    BY <2>3, <2>4, Zenon
  <2>6. b = IF n > z + 1 THEN n - z - 1 ELSE 0
    BY SMT, <2>1, <2>5
  <2> QED BY <2>0, <2>1, <2>4, <2>6, Zenon DEF Top
<1>4. Visible(L, y) = IF Top(L) + y + 1 \in 1 .. Len(L) THEN L[Top(L) + y + 1] ELSE BlankLine
  BY <1>1, <1>3, Zenon DEF Visible
<1>5. Picture(L)[p] = IF x <= cursor_x_max /\ y <= cursor_y_max THEN Visible(L, y)[x] ELSE Blank
  BY Zenon DEF Picture, InPlace
<1>6. x <= cursor_x_max => BlankLine[x] = Blank
  BY <1>2 DEF BlankLine
<1>7. x <= cursor_x_max => Visible(L, y)[x] = CellAt(L, x, y)
  BY <1>4, <1>6, Zenon DEF CellAt
<1> QED BY <1>5, <1>7, Zenon

\* A line more.
LEMMA LinesAppend ==
  ASSUME NEW L, IsLines(L)
  PROVE  LET M == Append(L, BlankLine)
         IN  /\ IsLines(M) /\ Len(M) = Len(L) + 1 /\ M[Len(L) + 1] = BlankLine
             /\ \A k \in 1 .. Len(L) : M[k] = L[k]
<1>1. PICK A : L \in Seq([0 .. cursor_x_max -> A])
  BY DEF IsLines
<1> DEFINE Line == [0 .. cursor_x_max -> A \cup {Blank}]
<1>2. [0 .. cursor_x_max -> A] \subseteq Line /\ BlankLine \in Line
  BY DEF BlankLine
<1> HIDE DEF Line
<1>3. L \in Seq(Line) /\ BlankLine \in Line
  BY <1>1, <1>2
<1>4. PICK M : M = Append(L, BlankLine)
  OBVIOUS
<1>5. /\ M \in Seq(Line) /\ Len(M) = Len(L) + 1 /\ M[Len(L) + 1] = BlankLine
      /\ \A k \in 1 .. Len(L) : M[k] = L[k]
  BY <1>3, <1>4
<1>6. Len(M) \in Nat \ {0}
  BY <1>3, <1>5
<1>7. IsLines(M)
  BY <1>5, <1>6 DEF IsLines, Line
<1> QED BY <1>4, <1>5, <1>7, Zenon

\* A character more.
WithCell(M, L, x, cell) ==
  /\ IsLines(M) /\ Len(M) = Len(L)
  /\ \A k \in 1 .. Len(L), i \in 0 .. cursor_x_max :
       M[k][i] = IF k = Len(L) /\ i = x THEN cell ELSE L[k][i]

\* That is what the assignment makes.
LEMMA LinesPut ==
  ASSUME NEW L, IsLines(L), NEW x \in 0 .. cursor_x_max, NEW cell,
         NEW M, M = [L EXCEPT ![Len(L)][x] = cell]
  PROVE  WithCell(M, L, x, cell)
<1>1. PICK A : L \in Seq([0 .. cursor_x_max -> A])
  BY DEF IsLines
<1> DEFINE Line == [0 .. cursor_x_max -> A \cup {cell}]
<1>2. [0 .. cursor_x_max -> A] \subseteq Line
  OBVIOUS
<1>3. Len(L) \in 1 .. Len(L) /\ L[Len(L)] \in [0 .. cursor_x_max -> A]
  BY <1>1 DEF IsLines
<1>4. PICK l : l = [L[Len(L)] EXCEPT ![x] = cell]
  OBVIOUS
<1>5. l \in Line /\ \A i \in 0 .. cursor_x_max : l[i] = IF i = x THEN cell ELSE L[Len(L)][i]
  BY <1>3, <1>4
<1> HIDE DEF Line
<1>6. L \in Seq(Line)
  BY <1>1, <1>2
<1>7. M = [L EXCEPT ![Len(L)] = l]
  BY <1>4, Zenon
<1>8. M \in Seq(Line) /\ Len(M) = Len(L) /\ \A k \in 1 .. Len(L) : M[k] = IF k = Len(L) THEN l ELSE L[k]
  BY <1>3, <1>5, <1>6, <1>7
<1>9. IsLines(M)
  BY <1>8 DEF IsLines, Line
<1>10. ASSUME NEW k \in 1 .. Len(L), NEW i \in 0 .. cursor_x_max
       PROVE  M[k][i] = IF k = Len(L) /\ i = x THEN cell ELSE L[k][i]
  <2>1. CASE k = Len(L)
    BY <1>5, <1>8, <2>1
  <2>2. CASE k # Len(L)
    BY <1>8, <2>2
  <2> QED BY <2>1, <2>2
<1> QED BY <1>8, <1>9, <1>10, Zenon DEF WithCell

\* The cursor's line is the last one.
LEMMA LastLine ==
  ASSUME NEW L, IsLines(L)
  PROVE  /\ Top(L) \in Nat /\ Row(L) \in 0 .. cursor_y_max /\ Top(L) + Row(L) + 1 = Len(L)
         /\ Row(L) + 1 <= cursor_y_max => Top(L) = 0 /\ Len(L) <= cursor_y_max
         /\ Row(L) + 1 > cursor_y_max => Row(L) = cursor_y_max
BY SMT, ScreenFacts DEF IsLines, Top, Row

\* A character is drawn where the cursor is.
LEMMA PicturePut ==
  ASSUME NEW L, IsLines(L), NEW x \in 0 .. cursor_x_max, NEW cell,
         NEW M, M = [L EXCEPT ![Len(L)][x] = cell]
  PROVE  Picture(M) = print_bitmap(Picture(L), x, Row(L), cell) /\ Row(M) = Row(L)
<1>1. /\ IsLines(M) /\ Len(M) = Len(L)
      /\ \A k \in 1 .. Len(L), i \in 0 .. cursor_x_max :
           M[k][i] = IF k = Len(L) /\ i = x THEN cell ELSE L[k][i]
  <2>1. WithCell(M, L, x, cell)
    BY LinesPut
  <2> QED BY <2>1, Zenon DEF WithCell
<1>2. Top(M) = Top(L) /\ Row(M) = Row(L)
  BY <1>1, Zenon DEF Top, Row
<1>3. /\ Top(L) \in Nat /\ Row(L) \in 0 .. cursor_y_max /\ Top(L) + Row(L) + 1 = Len(L)
      /\ cursor_x_max \in Nat /\ cursor_y_max \in Nat /\ Len(L) \in Nat
  BY LastLine, ScreenFacts, Zenon DEF IsLines
<1>4. ASSUME NEW p \in Pixels PROVE Picture(M)[p] = print_bitmap(Picture(L), x, Row(L), cell)[p]
  <2>1. PICK px \in Nat, py \in Nat : PixelAt(p, px, py)
    BY PixelNumbers, PixelPlace, Zenon
  <2>2. InPlace(p, px, py)
    BY <2>1, Zenon DEF PixelAt
  <2>3. Picture(L)[p] = IF px <= cursor_x_max /\ py <= cursor_y_max THEN CellAt(L, px, py) ELSE Blank
    BY <2>2, PictureAt, Zenon
  <2>4. Picture(M)[p] = IF px <= cursor_x_max /\ py <= cursor_y_max THEN CellAt(M, px, py) ELSE Blank
    BY <1>1, <2>2, PictureAt, Zenon
  <2>5. print_bitmap(Picture(L), x, Row(L), cell)[p]
        = IF py = Row(L) /\ px = x THEN cell ELSE Picture(L)[p]
    BY <2>2, Zenon DEF print_bitmap, InPlace
  <2>6. CASE py = Row(L) /\ px = x
    <3>1. px <= cursor_x_max /\ py <= cursor_y_max /\ px \in 0 .. cursor_x_max
      BY SMT, <1>3, <2>6
    <3>2. Top(M) + py + 1 = Len(L) /\ Len(L) \in 1 .. Len(M)
      BY <1>1, <1>2, <1>3, <2>6
    <3>3. CellAt(M, px, py) = cell
      BY <1>1, <2>6, <3>1, <3>2, Zenon DEF CellAt
    <3> QED BY <2>4, <2>5, <2>6, <3>1, <3>3, Zenon
  <2>7. CASE ~(py = Row(L) /\ px = x)
    <3>1. ASSUME px <= cursor_x_max, py <= cursor_y_max
          PROVE  CellAt(M, px, py) = CellAt(L, px, py)
      <4>1. px \in 0 .. cursor_x_max
        BY <1>3, <3>1
      <4>2. ~(Top(L) + py + 1 = Len(L) /\ px = x)
        BY SMT, <1>3, <2>7
      <4> QED BY <1>1, <1>2, <4>1, <4>2, Zenon DEF CellAt
    <3> QED BY <2>3, <2>4, <2>5, <2>7, <3>1, Zenon
  <2> QED BY <2>6, <2>7, Zenon
<1>5. Picture(M) = [p \in Pixels |-> Picture(M)[p]]
  BY DEF Picture
<1>6. print_bitmap(Picture(L), x, Row(L), cell)
      = [p \in Pixels |-> print_bitmap(Picture(L), x, Row(L), cell)[p]]
  BY DEF print_bitmap
<1> QED BY <1>2, <1>4, <1>5, <1>6, Zenon

\* A new line below the last one shows nothing.
LEMMA PictureDown ==
  ASSUME NEW L, IsLines(L), Row(L) + 1 <= cursor_y_max, NEW M, M = Append(L, BlankLine)
  PROVE  Picture(M) = Picture(L) /\ Row(M) = Row(L) + 1
<1>1. /\ IsLines(M) /\ Len(M) = Len(L) + 1 /\ M[Len(L) + 1] = BlankLine
      /\ \A k \in 1 .. Len(L) : M[k] = L[k]
  BY LinesAppend, Zenon
<1>2. /\ Top(L) = 0 /\ Len(L) <= cursor_y_max /\ cursor_x_max \in Nat /\ cursor_y_max \in Nat
      /\ Len(L) \in Nat
  BY LastLine, ScreenFacts, Zenon DEF IsLines
<1>3. Top(M) = 0 /\ Row(M) = Row(L) + 1
  BY SMT, <1>1, <1>2 DEF Top, Row
<1>4. ASSUME NEW p \in Pixels PROVE Picture(M)[p] = Picture(L)[p]
  <2>1. PICK px \in Nat, py \in Nat : PixelAt(p, px, py)
    BY PixelNumbers, PixelPlace, Zenon
  <2>2. InPlace(p, px, py)
    BY <2>1, Zenon DEF PixelAt
  <2>3. Picture(L)[p] = IF px <= cursor_x_max /\ py <= cursor_y_max THEN CellAt(L, px, py) ELSE Blank
    BY <2>2, PictureAt, Zenon
  <2>4. Picture(M)[p] = IF px <= cursor_x_max /\ py <= cursor_y_max THEN CellAt(M, px, py) ELSE Blank
    BY <1>1, <2>2, PictureAt, Zenon
  <2>5. ASSUME px <= cursor_x_max PROVE CellAt(M, px, py) = CellAt(L, px, py)
    <3>1. BlankLine[px] = Blank
      BY <1>2, <2>5 DEF BlankLine
    <3>2. PICK k \in Nat : k = 0 + py + 1 /\ k >= 1
      BY SMT
    <3>3. CASE k \in 1 .. Len(L)
      <4>1. k \in 1 .. Len(M)
        BY <1>1, <1>2, <3>3
      <4> QED BY <1>1, <1>2, <1>3, <3>2, <3>3, <4>1, Zenon DEF CellAt
    <3>4. CASE k = Len(L) + 1
      <4>1. k \notin 1 .. Len(L)
        BY <1>2, <3>4
      <4> QED BY <1>1, <1>2, <1>3, <3>1, <3>2, <3>4, <4>1, Zenon DEF CellAt
    <3>5. CASE k > Len(L) + 1
      <4>1. k \notin 1 .. Len(L) /\ k \notin 1 .. Len(M)
        BY <1>1, <1>2, <3>5
      <4> QED BY <1>2, <1>3, <3>2, <4>1, Zenon DEF CellAt
    <3>6. k \in 1 .. Len(L) \/ k = Len(L) + 1 \/ k > Len(L) + 1
      BY SMT, <1>2, <3>2
    <3> QED BY <3>3, <3>4, <3>5, <3>6
  <2> QED BY <2>3, <2>4, <2>5, Zenon
<1>5. Picture(M) = [p \in Pixels |-> Picture(M)[p]] /\ Picture(L) = [p \in Pixels |-> Picture(L)[p]]
  BY DEF Picture
<1> QED BY <1>3, <1>4, <1>5, Zenon

\* What scroll does to a pixel, where lines have no padding.
LEMMA ScrollAt ==
  ASSUME NoPadding, NEW f, NEW p \in Pixels, NEW x \in Nat, NEW y \in Nat, PixelAt(p, x, y)
  PROVE  /\ y > cursor_y_max => scroll(f)[p] = f[p]
         /\ y = cursor_y_max => scroll(f)[p] = Blank
         /\ y < cursor_y_max => scroll(f)[p] = f[p + Glyph * Pitch]
<1>1. cursor_y_max \in Nat
  BY ScreenFacts
<1>2. p \div (Glyph * Pitch) = y /\ p % (Glyph * Pitch) < Glyph * Width
  BY Zenon DEF PixelAt, NoPadding
<1>3. scroll(f)[p] = IF y > cursor_y_max THEN f[p]
                     ELSE IF y = cursor_y_max THEN Blank ELSE f[p + Glyph * Pitch]
  BY <1>2, Zenon DEF scroll
<1>4. (y = cursor_y_max => ~(y > cursor_y_max)) /\ (y < cursor_y_max => ~(y > cursor_y_max) /\ y # cursor_y_max)
  BY SMT, <1>1
<1> QED BY <1>3, <1>4, Zenon

\* A new line on a full screen: the picture moves up by one.
LEMMA PictureScrolled ==
  ASSUME NoPadding, NEW L, IsLines(L), Row(L) + 1 > cursor_y_max, NEW M, M = Append(L, BlankLine)
  PROVE  Picture(M) = scroll(Picture(L)) /\ Row(M) = Row(L)
<1>1. /\ IsLines(M) /\ Len(M) = Len(L) + 1 /\ M[Len(L) + 1] = BlankLine
      /\ \A k \in 1 .. Len(L) : M[k] = L[k]
  BY LinesAppend, Zenon
<1>2. /\ Row(L) = cursor_y_max /\ Top(L) \in Nat /\ Top(L) + Row(L) + 1 = Len(L)
      /\ cursor_x_max \in Nat /\ cursor_y_max \in Nat /\ Len(L) \in Nat
  BY LastLine, ScreenFacts, Zenon DEF IsLines
<1>3. Top(M) = Top(L) + 1 /\ Row(M) = Row(L)
  <2>1. PICK n \in Nat, z \in Nat : n = Len(L) /\ z = cursor_y_max /\ Len(M) = n + 1
    BY <1>1, <1>2, Zenon
  <2>2. n >= z + 1 /\ n = Top(L) + z + 1
    BY SMT, <1>2, <2>1
  <2>3. n + 1 > z + 1 /\ (n + 1) - z - 1 = Top(L) + 1
    BY SMT, <1>2, <2>2
  <2>4. Top(M) = (n + 1) - z - 1 /\ Row(M) = z
    BY <2>1, <2>3, Zenon DEF Top, Row
  <2> QED BY <1>2, <2>1, <2>3, <2>4, Zenon
<1>4. ASSUME NEW p \in Pixels PROVE Picture(M)[p] = scroll(Picture(L))[p]
  <2>1. PICK px \in Nat, py \in Nat : PixelAt(p, px, py)
    BY PixelNumbers, PixelPlace, Zenon
  <2>2. InPlace(p, px, py) /\ InPlace(p + Glyph * Pitch, px, py + 1)
    BY <2>1, Zenon DEF PixelAt
  <2>3. Picture(M)[p] = IF px <= cursor_x_max /\ py <= cursor_y_max THEN CellAt(M, px, py) ELSE Blank
    BY <1>1, <2>2, PictureAt, Zenon
  <2>4. CASE py > cursor_y_max
    <3>1. Picture(L)[p] = IF px <= cursor_x_max /\ py <= cursor_y_max THEN CellAt(L, px, py) ELSE Blank
      BY <2>2, PictureAt, Zenon
    <3>2. ~(py <= cursor_y_max)
      BY SMT, <1>2, <2>4
    <3>3. scroll(Picture(L))[p] = Picture(L)[p]
      BY <2>1, <2>4, ScrollAt, Zenon
    <3> QED BY <2>3, <3>1, <3>2, <3>3, Zenon
  <2>5. CASE py = cursor_y_max
    <3>1. scroll(Picture(L))[p] = Blank
      BY <2>1, <2>5, ScrollAt, Zenon
    <3>2. Top(M) + py + 1 = Len(L) + 1 /\ Len(L) + 1 \in 1 .. Len(M)
      BY SMT, <1>1, <1>2, <1>3, <2>5
    <3>3. px <= cursor_x_max => BlankLine[px] = Blank
      BY <1>2 DEF BlankLine
    <3>4. px <= cursor_x_max => CellAt(M, px, py) = Blank
      BY <1>1, <3>2, <3>3, Zenon DEF CellAt
    <3> QED BY <2>3, <3>1, <3>4, Zenon
  <2>6. CASE py < cursor_y_max
    <3>1. scroll(Picture(L))[p] = Picture(L)[p + Glyph * Pitch]
      BY <2>1, <2>6, ScrollAt, Zenon
    <3>2. p + Glyph * Pitch \in Pixels
      BY <2>1, <2>6, PixelBelow, Zenon
    <3>3. py + 1 \in Nat /\ py + 1 <= cursor_y_max /\ py <= cursor_y_max
      BY SMT, <1>2, <2>6
    <3>4. Picture(L)[p + Glyph * Pitch]
          = IF px <= cursor_x_max /\ py + 1 <= cursor_y_max THEN CellAt(L, px, py + 1) ELSE Blank
      BY <2>2, <3>2, <3>3, PictureAt, Zenon
    <3>5. PICK k \in Nat : k = Top(L) + (py + 1) + 1 /\ k = Top(M) + py + 1
      <4>1. Top(L) + (py + 1) + 1 \in Nat /\ Top(L) + (py + 1) + 1 = (Top(L) + 1) + py + 1
        BY SMT, <1>2
      <4> QED BY <1>3, <4>1, Zenon
    <3>6. k \in 1 .. Len(L) /\ k \in 1 .. Len(M)
      BY SMT, <1>1, <1>2, <2>6, <3>5
    <3>7. CellAt(M, px, py) = CellAt(L, px, py + 1)
      BY <1>1, <3>5, <3>6, Zenon DEF CellAt
    <3> QED BY <2>3, <3>1, <3>3, <3>4, <3>7, Zenon
  <2>7. py > cursor_y_max \/ py = cursor_y_max \/ py < cursor_y_max
    BY SMT, <1>2
  <2> QED BY <2>4, <2>5, <2>6, <2>7, Zenon
<1>5. Picture(M) = [p \in Pixels |-> Picture(M)[p]]
  BY DEF Picture
<1>6. scroll(Picture(L)) = [p \in Pixels |-> scroll(Picture(L))[p]]
  BY DEF scroll
<1> QED BY <1>3, <1>4, <1>5, <1>6, Zenon

\* A blank line is a picture of nothing.
LEMMA PictureBlank ==
  /\ IsLines(<<BlankLine>>) /\ Row(<<BlankLine>>) = 0
  /\ Picture(<<BlankLine>>) = [p \in Pixels |-> Blank]
<1>1. PICK L : L = <<BlankLine>>
  OBVIOUS
<1>2. cursor_x_max \in Nat /\ cursor_y_max \in Nat
  BY ScreenFacts
<1>3. Len(L) = 1 /\ L[1] = BlankLine
  BY <1>1
<1>4. IsLines(L)
  <2>1. BlankLine \in [0 .. cursor_x_max -> {Blank}]
    BY DEF BlankLine
  <2>2. L \in Seq([0 .. cursor_x_max -> {Blank}])
    BY <1>1, <2>1
  <2>3. Len(L) \in Nat \ {0}
    BY <1>3
  <2> QED BY <2>2, <2>3, Zenon DEF IsLines
<1>5. Row(L) = 0 /\ Top(L) = 0
  BY SMT, <1>2, <1>3 DEF Row, Top
<1>6. ASSUME NEW p \in Pixels PROVE Picture(L)[p] = Blank
  <2>1. PICK px \in Nat, py \in Nat : PixelAt(p, px, py)
    BY PixelNumbers, PixelPlace, Zenon
  <2>2. InPlace(p, px, py)
    BY <2>1, Zenon DEF PixelAt
  <2>3. Picture(L)[p] = IF px <= cursor_x_max /\ py <= cursor_y_max THEN CellAt(L, px, py) ELSE Blank
    BY <1>4, <2>2, PictureAt, Zenon
  <2>4. ASSUME px <= cursor_x_max PROVE CellAt(L, px, py) = Blank
    <3>1. BlankLine[px] = Blank
      BY <1>2, <2>4 DEF BlankLine
    <3>2. 0 + py + 1 \in 1 .. 1 => 0 + py + 1 = 1
      BY SMT
    <3> QED BY <1>3, <1>5, <3>1, <3>2, Zenon DEF CellAt
  <2> QED BY <2>3, <2>4, Zenon
<1>7. Picture(L) = [p \in Pixels |-> Picture(L)[p]]
  BY DEF Picture
<1>8. Picture(L) = [p \in Pixels |-> Blank]
  BY <1>6, <1>7, Zenon
<1> QED BY <1>1, <1>4, <1>5, <1>8, Zenon

\* clear leaves nothing of a picture.
LEMMA PictureCleared ==
  ASSUME NoPadding, NEW L, IsLines(L)
  PROVE  clear(Picture(L)) = [p \in Pixels |-> Blank]
<1>1. ASSUME NEW p \in Pixels PROVE clear(Picture(L))[p] = Blank
  <2>1. PICK px \in Nat, py \in Nat : PixelAt(p, px, py)
    BY PixelNumbers, PixelPlace, Zenon
  <2>2. InPlace(p, px, py)
    BY <2>1, Zenon DEF PixelAt
  <2>3. Picture(L)[p] = IF px <= cursor_x_max /\ py <= cursor_y_max THEN CellAt(L, px, py) ELSE Blank
    BY <2>2, PictureAt, Zenon
  <2>4. p < Width * Glyph * (cursor_y_max + 1) <=> py <= cursor_y_max
    BY <2>1, PixelCleared, Zenon
  <2>5. clear(Picture(L))[p] = IF p < Width * Glyph * (cursor_y_max + 1) THEN Blank ELSE Picture(L)[p]
    BY Zenon DEF clear
  <2> QED BY <2>3, <2>4, <2>5, Zenon
<1>2. clear(Picture(L)) = [p \in Pixels |-> clear(Picture(L))[p]]
  BY DEF clear
<1> QED BY <1>1, <1>2, Zenon

-----------------------------------------------------------------------------
(* The screen and the text.                                                *)

Page(L, x) == [lines |-> L, x |-> x]

\* The screen shows the text, and the cursor is where it goes on.
Shows(f, x, y, t) ==
  \E L : /\ IsLines(L) /\ x \in 0 .. cursor_x_max /\ y = Row(L)
         /\ f = Picture(L) /\ t = Page(L, x)

\* It shows the text but for its last line feed.
Feeds(f, y, t) ==
  \E L : /\ IsLines(L) /\ y = Row(L)
         /\ f = Picture(L) /\ t = Page(Append(L, BlankLine), 0)

\* Characters that are drawn.
IsGlyph(ch) == ch \notin {"NL", "CR", "0xff"}

\* The line feed moves the cursor down ...
LEMMA FeedsDown ==
  ASSUME NEW f, NEW y, NEW t, Feeds(f, y, t), y + 1 <= cursor_y_max
  PROVE  Shows(f, 0, y + 1, t)
<1>1. PICK L : IsLines(L) /\ y = Row(L) /\ f = Picture(L) /\ t = Page(Append(L, BlankLine), 0)
  BY Zenon DEF Feeds
<1>2. PICK M : M = Append(L, BlankLine)
  OBVIOUS
<1>3. IsLines(M)
  BY <1>1, <1>2, LinesAppend, Zenon
<1>4. Picture(M) = Picture(L) /\ Row(M) = Row(L) + 1
  BY <1>1, <1>2, PictureDown, Zenon
<1>5. 0 \in 0 .. cursor_x_max
  BY ScreenFacts
<1> QED BY <1>1, <1>2, <1>3, <1>4, <1>5, Zenon DEF Shows

\* ... or the screen up.
LEMMA FeedsScroll ==
  ASSUME NoPadding, NEW f, NEW y, NEW t, Feeds(f, y, t), y + 1 > cursor_y_max
  PROVE  Shows(scroll(f), 0, y, t)
<1>1. PICK L : IsLines(L) /\ y = Row(L) /\ f = Picture(L) /\ t = Page(Append(L, BlankLine), 0)
  BY Zenon DEF Feeds
<1>2. PICK M : M = Append(L, BlankLine)
  OBVIOUS
<1>3. IsLines(M)
  BY <1>1, <1>2, LinesAppend, Zenon
<1>4. Picture(M) = scroll(Picture(L)) /\ Row(M) = Row(L)
  BY <1>1, <1>2, PictureScrolled, Zenon
<1>5. 0 \in 0 .. cursor_x_max
  BY ScreenFacts
<1> QED BY <1>1, <1>2, <1>3, <1>4, <1>5, Zenon DEF Shows

\* The parts of a page.
LEMMA PageParts ==
  ASSUME NEW L, NEW x
  PROVE  /\ Page(L, x).lines = L /\ Page(L, x).x = x
         /\ LineFeed(Page(L, x)) = Page(Append(L, BlankLine), 0)
         /\ [Page(L, x) EXCEPT !.x = 0] = Page(L, 0)
BY DEF Page, LineFeed

\* '\n' is a line feed.
LEMMA ShowsNewline ==
  ASSUME NEW f, NEW x, NEW y, NEW t, Shows(f, x, y, t), NEW cell, cell[1] = "NL"
  PROVE  Feeds(f, y, Type(t, cell))
<1>1. PICK L : /\ IsLines(L) /\ x \in 0 .. cursor_x_max /\ y = Row(L)
               /\ f = Picture(L) /\ t = Page(L, x)
  BY Zenon DEF Shows
<1>2. Type(t, cell) = LineFeed(t)
  BY DEF Type
<1>3. Type(t, cell) = Page(Append(L, BlankLine), 0)
  BY <1>1, <1>2, PageParts, Zenon
<1> QED BY <1>1, <1>3, Zenon DEF Feeds

\* '\r' goes to the start of the line.
LEMMA ShowsReturn ==
  ASSUME NEW f, NEW x, NEW y, NEW t, Shows(f, x, y, t), NEW cell, cell[1] = "CR"
  PROVE  Shows(f, 0, y, Type(t, cell))
<1>1. PICK L : /\ IsLines(L) /\ x \in 0 .. cursor_x_max /\ y = Row(L)
               /\ f = Picture(L) /\ t = Page(L, x)
  BY Zenon DEF Shows
<1>2. Type(t, cell) = [t EXCEPT !.x = 0]
  BY DEF Type
<1>3. Type(t, cell) = Page(L, 0)
  BY <1>1, <1>2, PageParts, Zenon
<1>4. 0 \in 0 .. cursor_x_max
  BY ScreenFacts
<1> QED BY <1>1, <1>3, <1>4, Zenon DEF Shows

\* A character the font lacks is skipped.
LEMMA ShowsSkipped ==
  ASSUME NEW f, NEW x, NEW y, NEW t, Shows(f, x, y, t), NEW cell, cell[1] = "0xff"
  PROVE  Shows(f, x, y, Type(t, cell))
<1>1. Type(t, cell) = t
  BY DEF Type
<1> QED BY <1>1, Zenon

\* A glyph goes where the cursor is; the cursor goes on in its line or ends it.
LEMMA ShowsGlyph ==
  ASSUME NEW f, NEW x, NEW y, NEW t, Shows(f, x, y, t), NEW cell, IsGlyph(cell[1]),
         NEW g, g = print_bitmap(f, x, y, cell)
  PROVE  /\ x + 1 <= cursor_x_max => Shows(g, x + 1, y, Type(t, cell))
         /\ x + 1 > cursor_x_max => Feeds(g, y, Type(t, cell))
<1>1. PICK L : /\ IsLines(L) /\ x \in 0 .. cursor_x_max /\ y = Row(L)
               /\ f = Picture(L) /\ t = Page(L, x)
  BY Zenon DEF Shows
<1>2. PICK M : M = [L EXCEPT ![Len(L)][x] = cell]
  OBVIOUS
<1>3. IsLines(M)
  <2>1. WithCell(M, L, x, cell)
    BY <1>1, <1>2, LinesPut
  <2> QED BY <2>1, Zenon DEF WithCell
<1>4. Picture(M) = print_bitmap(Picture(L), x, Row(L), cell) /\ Row(M) = Row(L)
  BY <1>1, <1>2, PicturePut
<1>5. g = Picture(M) /\ y = Row(M)
  BY <1>1, <1>4, Zenon
<1>6. Type(t, cell) = IF x + 1 > cursor_x_max THEN LineFeed(Page(M, x + 1)) ELSE Page(M, x + 1)
  <2>1. t.lines = L /\ t.x = x
    BY <1>1, PageParts, Zenon
  <2>2. PICK put : put = [lines |-> [t.lines EXCEPT ![Len(t.lines)][t.x] = cell], x |-> t.x + 1]
    OBVIOUS
  <2>3. put = Page(M, x + 1)
    BY <1>2, <2>1, <2>2, Zenon DEF Page
  <2>4. Type(t, cell) = IF put.x > cursor_x_max THEN LineFeed(put) ELSE put
    BY <2>2 DEF Type, IsGlyph
  <2>5. put.x = x + 1
    BY <2>3, PageParts, Zenon
  <2> QED BY <2>3, <2>4, <2>5, Zenon
<1>7. ASSUME x + 1 <= cursor_x_max PROVE Shows(g, x + 1, y, Type(t, cell))
  <2>1. x + 1 \in 0 .. cursor_x_max /\ ~(x + 1 > cursor_x_max)
    BY SMT, <1>1, <1>7, ScreenFacts
  <2>2. Type(t, cell) = Page(M, x + 1)
    BY <1>6, <2>1, Zenon
  <2> QED BY <1>3, <1>5, <2>1, <2>2, Zenon DEF Shows
<1>8. ASSUME x + 1 > cursor_x_max PROVE Feeds(g, y, Type(t, cell))
  <2>1. Type(t, cell) = Page(Append(M, BlankLine), 0)
    BY <1>6, <1>8, PageParts, Zenon
  <2> QED BY <1>3, <1>5, <2>1, Zenon DEF Feeds
<1> QED BY <1>7, <1>8

\* A blank screen shows nothing, at first and when it was cleared.
LEMMA ShowsBlank == Shows([p \in Pixels |-> Blank], 0, 0, NoText)
<1>1. NoText = Page(<<BlankLine>>, 0)
  BY Zenon DEF NoText, Page
<1>2. 0 \in 0 .. cursor_x_max
  BY ScreenFacts
<1> QED BY <1>1, <1>2, PictureBlank, Zenon DEF Shows

\* The command clears what was shown.
LEMMA ShowsCleared ==
  ASSUME NoPadding, NEW f, NEW x, NEW y, NEW t, Shows(f, x, y, t)
  PROVE  Shows(clear(f), 0, 0, NoText)
<1>1. clear(f) = [p \in Pixels |-> Blank]
  BY PictureCleared, Zenon DEF Shows
<1> QED BY <1>1, ShowsBlank, Zenon

-----------------------------------------------------------------------------
(* A handler's message on the screen.                                      *)

\* The console of somebody who prints plain characters, and the text on it.
PlainShows(s, t) ==
  DOMAIN s = {"fb", "x", "y", "colour"} /\ s.colour = "plain" /\ Shows(s.fb, s.x, s.y, t)
PlainFeeds(s, t) ==
  DOMAIN s = {"fb", "x", "y", "colour"} /\ s.colour = "plain" /\ Feeds(s.fb, s.y, t)

\* The line feed of a handler.
LEMMA HandlerNewLine ==
  ASSUME NoPadding, NEW s, NEW t, PlainFeeds(s, t)
  PROVE  PlainShows(NewLine(s), t)
<1>0. cursor_y_max \in Nat /\ s.y \in Int
  <2>1. \A L : IsLines(L) => Row(L) \in Int
    BY ScreenFacts DEF IsLines, Row
  <2> QED BY <2>1, ScreenFacts, Zenon DEF PlainFeeds, Feeds
<1>1. CASE s.y + 1 > cursor_y_max
  <2>1. PICK u : u = [s EXCEPT !.fb = scroll(@), !.x = 0]
    OBVIOUS
  <2>2. NewLine(s) = u
    BY <1>1, <2>1, Zenon DEF NewLine
  <2>3. /\ DOMAIN u = {"fb", "x", "y", "colour"} /\ u.colour = "plain"
        /\ u.fb = scroll(s.fb) /\ u.x = 0 /\ u.y = s.y
    BY <2>1 DEF PlainFeeds
  <2>4. Shows(scroll(s.fb), 0, s.y, t)
    BY <1>1, FeedsScroll, Zenon DEF PlainFeeds
  <2> QED BY <2>2, <2>3, <2>4, Zenon DEF PlainShows
<1>2. CASE ~(s.y + 1 > cursor_y_max)
  <2>1. PICK u : u = [s EXCEPT !.y = @ + 1, !.x = 0]
    OBVIOUS
  <2>2. NewLine(s) = u
    BY <1>2, <2>1, Zenon DEF NewLine
  <2>3. /\ DOMAIN u = {"fb", "x", "y", "colour"} /\ u.colour = "plain"
        /\ u.fb = s.fb /\ u.x = 0 /\ u.y = s.y + 1
    BY <2>1 DEF PlainFeeds
  <2>4. s.y + 1 <= cursor_y_max
    BY <1>0, <1>2
  <2>5. Shows(s.fb, 0, s.y + 1, t)
    BY <2>4, FeedsDown, Zenon DEF PlainFeeds
  <2> QED BY <2>2, <2>3, <2>5, Zenon DEF PlainShows
<1> QED BY <1>1, <1>2

\* A glyph of a handler.
LEMMA HandlerGlyph ==
  ASSUME NoPadding, NEW s, NEW t, PlainShows(s, t), NEW ch, IsGlyph(ch)
  PROVE  PlainShows(k_putc(s, ch), Type(t, <<ch, "plain">>))
<1>1. PICK cell : cell = <<ch, "plain">>
  OBVIOUS
<1>2. PICK g : g = print_bitmap(s.fb, s.x, s.y, cell)
  OBVIOUS
<1>3. PICK u : u = [s EXCEPT !.fb = print_bitmap(@, s.x, s.y, <<ch, s.colour>>)]
  OBVIOUS
<1>4. k_putc(s, ch) = advance_cursor(u)
  BY <1>3 DEF k_putc, IsGlyph
<1>5. DOMAIN u = {"fb", "x", "y", "colour"} /\ u.colour = "plain" /\ u.x = s.x /\ u.y = s.y
  BY <1>3 DEF PlainShows
<1>6. u.fb = g
  <2>1. u.fb = print_bitmap(s.fb, s.x, s.y, <<ch, s.colour>>)
    BY <1>3 DEF PlainShows
  <2> QED BY <1>1, <1>2, <2>1, Zenon DEF PlainShows
<1>7. Shows(s.fb, s.x, s.y, t)
  BY Zenon DEF PlainShows
<1>8. cell[1] = ch
  BY <1>1
<1>9. /\ s.x + 1 <= cursor_x_max => Shows(g, s.x + 1, s.y, Type(t, cell))
      /\ s.x + 1 > cursor_x_max => Feeds(g, s.y, Type(t, cell))
  <2>1. IsGlyph(cell[1])
    BY <1>8, Zenon
  <2> QED BY <1>2, <1>7, <2>1, ShowsGlyph, Zenon
<1>10. s.x \in Int /\ cursor_x_max \in Nat
  <2>1. s.x \in 0 .. cursor_x_max
    BY <1>7, Zenon DEF Shows
  <2> QED BY <2>1, ScreenFacts
<1>11. CASE s.x + 1 > cursor_x_max
  <2>1. advance_cursor(u) = NewLine(u)
    BY <1>5, <1>11, Zenon DEF advance_cursor
  <2>2. PlainFeeds(u, Type(t, cell))
    BY <1>5, <1>6, <1>9, <1>11, Zenon DEF PlainFeeds
  <2>3. PlainShows(NewLine(u), Type(t, cell))
    BY <2>2, HandlerNewLine, Zenon
  <2> QED BY <1>1, <1>4, <2>1, <2>3, Zenon
<1>12. CASE ~(s.x + 1 > cursor_x_max)
  <2>1. s.x + 1 <= cursor_x_max
    BY <1>10, <1>12
  <2>2. PICK v : v = [u EXCEPT !.x = @ + 1]
    OBVIOUS
  <2>3. advance_cursor(u) = v
    BY <1>5, <1>12, <2>2, Zenon DEF advance_cursor
  <2>4. /\ DOMAIN v = {"fb", "x", "y", "colour"} /\ v.colour = "plain"
        /\ v.fb = u.fb /\ v.x = s.x + 1 /\ v.y = s.y
    BY <1>5, <2>2
  <2>5. PlainShows(v, Type(t, cell))
    BY <1>6, <1>9, <2>1, <2>4, Zenon DEF PlainShows
  <2> QED BY <1>1, <1>4, <2>3, <2>5, Zenon
<1> QED BY <1>11, <1>12

\* What a step of a handler adds to the text.
Adds(t, step) == IF IsColour(step) THEN t ELSE Type(t, <<step, "plain">>)

\* A step of a handler's script.
LEMMA HandlerStep ==
  ASSUME NoPadding, NEW s, NEW t, PlainShows(s, t), NEW step, step \notin Colours \ {"plain"}
  PROVE  PlainShows(Perform(s, step), Adds(t, step))
<1>1. CASE IsColour(step)
  <2>1. step = "plain"
    BY <1>1, Zenon DEF IsColour
  <2>2. PICK u : u = [s EXCEPT !.colour = step]
    OBVIOUS
  <2>3. Perform(s, step) = u
    BY <1>1, <2>2, Zenon DEF Perform
  <2>4. /\ DOMAIN u = {"fb", "x", "y", "colour"} /\ u.colour = "plain"
        /\ u.fb = s.fb /\ u.x = s.x /\ u.y = s.y
    BY <2>1, <2>2 DEF PlainShows
  <2>5. PlainShows(u, t)
    BY <2>4, Zenon DEF PlainShows
  <2> QED BY <1>1, <2>3, <2>5, Zenon DEF Adds
<1>2. CASE ~IsColour(step)
  <2> DEFINE cell == <<step, "plain">>
  <2>1. Perform(s, step) = k_putc(s, step) /\ Adds(t, step) = Type(t, cell)
    BY <1>2, Zenon DEF Perform, Adds
  <2>2. cell[1] = step
    OBVIOUS
  <2>3. Shows(s.fb, s.x, s.y, t)
    BY Zenon DEF PlainShows
  <2> HIDE DEF cell
  <2>4. CASE step = "NL"
    <3>1. Feeds(s.fb, s.y, Type(t, cell))
      BY <2>2, <2>3, <2>4, ShowsNewline, Zenon
    <3>2. PlainFeeds(s, Type(t, cell))
      BY <3>1, Zenon DEF PlainShows, PlainFeeds
    <3>3. k_putc(s, step) = NewLine(s)
      BY <2>4 DEF k_putc
    <3> QED BY <2>1, <3>2, <3>3, HandlerNewLine, Zenon
  <2>5. CASE step = "CR"
    <3>1. Shows(s.fb, 0, s.y, Type(t, cell))
      BY <2>2, <2>3, <2>5, ShowsReturn, Zenon
    <3>2. PICK u : u = [s EXCEPT !.x = 0]
      OBVIOUS
    <3>3. k_putc(s, step) = u
      BY <2>5, <3>2 DEF k_putc
    <3>4. /\ DOMAIN u = {"fb", "x", "y", "colour"} /\ u.colour = "plain"
          /\ u.fb = s.fb /\ u.x = 0 /\ u.y = s.y
      BY <3>2 DEF PlainShows
    <3>5. PlainShows(u, Type(t, cell))
      BY <3>1, <3>4, Zenon DEF PlainShows
    <3> QED BY <2>1, <3>3, <3>5, Zenon
  <2>6. CASE step = "0xff"
    <3>1. Shows(s.fb, s.x, s.y, Type(t, cell))
      BY <2>2, <2>3, <2>6, ShowsSkipped, Zenon
    <3>2. k_putc(s, step) = s
      BY <2>6 DEF k_putc
    <3>3. PlainShows(s, Type(t, cell))
      BY <3>1, Zenon DEF PlainShows
    <3> QED BY <2>1, <3>2, <3>3, Zenon
  <2>7. CASE IsGlyph(step)
    <3>1. PlainShows(k_putc(s, step), Type(t, cell))
      BY <2>7, HandlerGlyph, Zenon DEF cell
    <3> QED BY <2>1, <3>1, Zenon
  <2> QED BY <2>4, <2>5, <2>6, <2>7 DEF IsGlyph
<1> QED BY <1>1, <1>2

\* The characters of a script, one after the other.
Types(f, t, steps, n) ==
  f = [k \in 0 .. n |-> IF k = 0 THEN t ELSE Adds(f[k - 1], steps[k])]

\* They are typed to the end of the script.
LEMMA TypesExist ==
  ASSUME NEW t, NEW steps, NEW n \in Nat
  PROVE  \E f : Types(f, t, steps, n)
<1> DEFINE Good == {k \in 0 .. n : \E f : Types(f, t, steps, k)}
<1>1. 0 \in Good
  <2>1. Types([k \in 0 .. 0 |-> t], t, steps, 0)
    BY DEF Types
  <2> QED BY <2>1
<1>2. ASSUME NEW m \in 1 .. n, m - 1 \in Good PROVE m \in Good
  <2>1. PICK f : Types(f, t, steps, m - 1)
    BY <1>2
  <2> DEFINE g == [k \in 0 .. m |-> IF k = m THEN Adds(f[m - 1], steps[m]) ELSE f[k]]
  <2>2. \A k \in 0 .. m : g[k] = IF k = 0 THEN t ELSE Adds(g[k - 1], steps[k])
    <3> TAKE k \in 0 .. m
    <3>1. CASE k = m
      <4>1. g[k] = Adds(f[m - 1], steps[m]) /\ g[m - 1] = f[m - 1] /\ k # 0
        BY <3>1
      <4> QED BY <3>1, <4>1
    <3>2. CASE k # m
      <4>1. k \in 0 .. m - 1 /\ (k # 0 => k - 1 \in 0 .. m - 1)
        BY <3>2
      <4>2. g[k] = f[k] /\ (k # 0 => g[k - 1] = f[k - 1])
        BY <4>1
      <4>3. f[k] = IF k = 0 THEN t ELSE Adds(f[k - 1], steps[k])
        BY <2>1, <4>1 DEF Types
      <4> QED BY <4>2, <4>3
    <3> QED BY <3>1, <3>2
  <2>3. Types(g, t, steps, m)
    <3>1. g = [k \in 0 .. m |-> g[k]]
      OBVIOUS
    <3> HIDE DEF g
    <3> QED BY <2>2, <3>1 DEF Types
  <2> HIDE DEF g
  <2> QED BY <2>3
<1>3. Good \in SUBSET (0 .. n)
  OBVIOUS
<1>4. (\A k \in 0 .. n : k \in Good) => \E f : Types(f, t, steps, n)
  OBVIOUS
<1> HIDE DEF Good
<1> QED BY <1>1, <1>2, <1>3, <1>4, LeastFailure

\* However long a handler's message, after it the screen shows the text with it.
LEMMA ScriptShows ==
  ASSUME NoPadding, NEW s, NEW t, PlainShows(s, t), NEW steps, Len(steps) \in Nat,
         \A k \in 1 .. Len(steps) : steps[k] \notin Colours \ {"plain"}
  PROVE  PlainShows(PerformAll(s, steps), TypeAll(t, steps))
<1> DEFINE n == Len(steps)
           after == CHOOSE f : Performs(f, s, steps, n)
           text == CHOOSE f : Types(f, t, steps, n)
           Good == {k \in 0 .. n : PlainShows(after[k], text[k])}
<1>1. n \in Nat
  OBVIOUS
<1>2. Performs(after, s, steps, n) /\ Types(text, t, steps, n)
  <2> HIDE DEF n
  <2> QED BY <1>1, PerformsExist, TypesExist
<1>3. PerformAll(s, steps) = after[n]
  BY Zenon DEF PerformAll, Performs
<1>4. TypeAll(t, steps) = text[n]
  BY Zenon DEF TypeAll, Types, Adds
<1> HIDE DEF after, text
<1>5. /\ after[0] = s /\ text[0] = t
      /\ \A k \in 1 .. n : /\ after[k] = Perform(after[k - 1], steps[k])
                           /\ text[k] = Adds(text[k - 1], steps[k])
  <2> HIDE DEF n
  <2>1. \A k \in 0 .. n : /\ after[k] = IF k = 0 THEN s ELSE Perform(after[k - 1], steps[k])
                          /\ text[k] = IF k = 0 THEN t ELSE Adds(text[k - 1], steps[k])
    BY <1>2, Zenon DEF Performs, Types
  <2>2. 0 \in 0 .. n /\ \A k \in 1 .. n : k \in 0 .. n /\ k # 0
    BY <1>1
  <2> QED BY <2>1, <2>2
<1>6. 0 \in Good
  BY <1>1, <1>5
<1>7. ASSUME NEW k \in 1 .. n, k - 1 \in Good PROVE k \in Good
  <2>1. PlainShows(after[k - 1], text[k - 1]) /\ k \in 0 .. n
    BY <1>7
  <2>2. steps[k] \notin Colours \ {"plain"}
    BY Zenon
  <2>3. PlainShows(after[k], text[k])
    <3>1. after[k] = Perform(after[k - 1], steps[k]) /\ text[k] = Adds(text[k - 1], steps[k])
      BY <1>5, Zenon
    <3>2. PlainShows(Perform(after[k - 1], steps[k]), Adds(text[k - 1], steps[k]))
      BY <2>1, <2>2, HandlerStep
    <3> QED BY <3>1, <3>2, Zenon
  <2> QED BY <2>1, <2>3
<1>8. Good \in SUBSET (0 .. n)
  OBVIOUS
<1>9. (\A k \in 0 .. n : k \in Good) => PlainShows(after[n], text[n])
  BY <1>1
<1> HIDE DEF Good, n
<1>10. PlainShows(after[n], text[n])
  BY <1>1, <1>6, <1>7, <1>8, <1>9, LeastFailure
<1> QED BY <1>3, <1>4, <1>10, Zenon

-----------------------------------------------------------------------------
(* The invariant of the screen.                                            *)

\* The text when kmain's step is done.
Coming == Type(typed, <<Step, meant>>)

\* Where kmain is in its step, and what of the step is on the screen by then.
BetweenSteps == pc \in {"idle", "next"} => Shows(fb, cursor_x, cursor_y, typed)
BeforeDraw ==
  pc = "draw" => /\ Shows(fb, cursor_x, cursor_y, typed)
                 /\ reg = <<cursor_x, cursor_y>> /\ IsGlyph(Step)
BeforeAdvance ==
  pc = "advance" => /\ cursor_x + 1 <= cursor_x_max => Shows(fb, cursor_x + 1, cursor_y, Coming)
                    /\ cursor_x + 1 > cursor_x_max => Feeds(fb, cursor_y, Coming)
BeforeStoreX == pc = "store_x" => Shows(fb, reg[1], cursor_y, Coming)
BeforeFeed == pc \in {"nl_cursor", "store_y", "scroll"} => Feeds(fb, cursor_y, Coming)
BeforeStoreY == pc = "store_y" => reg[2] = cursor_y + 1 /\ cursor_y + 1 <= cursor_y_max
BeforeScroll == pc = "scroll" => cursor_y + 1 > cursor_y_max
Intact ==
  /\ colour = meant
  /\ BetweenSteps /\ BeforeDraw /\ BeforeAdvance /\ BeforeStoreX
  /\ BeforeFeed /\ BeforeStoreY /\ BeforeScroll
ShowInv == ~torn => Intact

\* The screen is blank at first.
LEMMA InitShow == Init => ShowInv
<1> SUFFICES ASSUME Init PROVE Intact
  BY Zenon DEF ShowInv
<1>1. Shows(fb, cursor_x, cursor_y, typed) /\ pc = "idle" /\ colour = meant
  BY ShowsBlank, Zenon DEF Init
<1> QED
  BY <1>1 DEF Intact, BetweenSteps, BeforeDraw, BeforeAdvance, BeforeStoreX, BeforeFeed,
              BeforeStoreY, BeforeScroll

\* A step is done when the screen shows the text with it.
LEMMA DoneShows ==
  ASSUME pc' \in {"idle", "next"}, colour' = meant', Shows(fb', cursor_x', cursor_y', typed')
  PROVE  Intact'
BY DEF Intact, BetweenSteps, BeforeDraw, BeforeAdvance, BeforeStoreX, BeforeFeed, BeforeStoreY,
       BeforeScroll

\* A line feed is left to do.
LEMMA FeedsLeft ==
  ASSUME colour' = meant', pc' \in {"nl_cursor", "store_y", "scroll"},
         Feeds(fb', cursor_y', Coming'),
         pc' = "store_y" => reg'[2] = cursor_y' + 1 /\ cursor_y' + 1 <= cursor_y_max,
         pc' = "scroll" => cursor_y' + 1 > cursor_y_max
  PROVE  Intact'
<1>1. cursor_y_max' = cursor_y_max
  BY DEF cursor_y_max
<1> QED
  BY <1>1 DEF Intact, BetweenSteps, BeforeDraw, BeforeAdvance, BeforeStoreX, BeforeFeed,
              BeforeStoreY, BeforeScroll

\* The step that is fetched.
LEMMA FetchShows ==
  ASSUME Intact, Fetch
  PROVE  Intact'
<1>1. /\ Shows(fb, cursor_x, cursor_y, typed) /\ colour = meant
      /\ fb' = fb /\ cursor_y' = cursor_y /\ colour' = colour
  BY DEF Fetch, Frame, Intact, BetweenSteps
<1>2. PICK cell : cell = <<Step, meant>>
  OBVIOUS
<1>3. cell[1] = Step /\ Coming = Type(typed, cell)
  BY <1>2 DEF Coming
<1>4. CASE Step = "NL"
  <2>1. pc' = "nl_cursor" /\ UNCHANGED <<script, typed, meant>>
    BY <1>4 DEF Fetch, Goto
  <2>2. Coming' = Coming
    BY <2>1 DEF Coming, Step
  <2>3. Feeds(fb, cursor_y, Coming)
    BY <1>1, <1>3, <1>4, ShowsNewline, Zenon
  <2>4. Feeds(fb', cursor_y', Coming')
    BY <1>1, <2>2, <2>3, Zenon
  <2> QED BY <1>1, <2>1, <2>4, FeedsLeft
<1>5. CASE Step = "CR"
  <2>1. pc' = "next" /\ typed' = Type(typed, cell) /\ cursor_x' = 0 /\ meant' = meant
    BY <1>2, <1>5 DEF Fetch, StepDone
  <2>2. Shows(fb, 0, cursor_y, Type(typed, cell))
    BY <1>1, <1>3, <1>5, ShowsReturn, Zenon
  <2>3. Shows(fb', cursor_x', cursor_y', typed')
    BY <1>1, <2>1, <2>2, Zenon
  <2> QED BY <1>1, <2>1, <2>3, DoneShows
<1>6. CASE Step = "0xff"
  <2>1. pc' = "next" /\ typed' = Type(typed, cell) /\ cursor_x' = cursor_x /\ meant' = meant
    BY <1>2, <1>6 DEF Fetch, StepDone
  <2>2. Shows(fb, cursor_x, cursor_y, Type(typed, cell))
    BY <1>1, <1>3, <1>6, ShowsSkipped, Zenon
  <2>3. Shows(fb', cursor_x', cursor_y', typed')
    BY <1>1, <2>1, <2>2, Zenon
  <2> QED BY <1>1, <2>1, <2>3, DoneShows
<1>7. CASE IsGlyph(Step)
  <2>1. /\ pc' = "draw" /\ reg' = <<cursor_x, cursor_y>>
        /\ UNCHANGED <<script, typed, meant, cursor_x>>
    BY <1>7 DEF Fetch, Goto, IsGlyph
  <2>2. Step' = Step
    BY <2>1 DEF Step
  <2>3. Shows(fb', cursor_x', cursor_y', typed') /\ IsGlyph(Step') /\ colour' = meant'
    BY <1>1, <1>7, <2>1, <2>2, Zenon
  <2>4. reg' = <<cursor_x', cursor_y'>>
    BY <1>1, <2>1
  <2> QED
    BY <2>1, <2>3, <2>4 DEF Intact, BetweenSteps, BeforeDraw, BeforeAdvance, BeforeStoreX,
                            BeforeFeed, BeforeStoreY, BeforeScroll
<1> QED BY <1>4, <1>5, <1>6, <1>7 DEF IsGlyph

\* The glyph is drawn where the text goes on, in kmain's colour.
LEMMA DrawShows ==
  ASSUME Intact, Draw
  PROVE  Intact'
<1>1. /\ Shows(fb, cursor_x, cursor_y, typed) /\ reg = <<cursor_x, cursor_y>>
      /\ IsGlyph(Step) /\ colour = meant
  BY DEF Draw, Intact, BeforeDraw
<1>2. /\ fb' = print_bitmap(fb, reg[1], reg[2], <<Step, colour>>) /\ pc' = "advance"
      /\ UNCHANGED <<cursor_x, cursor_y, script, typed, meant, colour>>
  BY DEF Draw, Goto, Frame
<1>3. PICK cell : cell = <<Step, meant>>
  OBVIOUS
<1>4. cell[1] = Step /\ reg[1] = cursor_x /\ reg[2] = cursor_y
  BY <1>1, <1>3
<1>5. fb' = print_bitmap(fb, cursor_x, cursor_y, cell)
  BY <1>1, <1>2, <1>3, <1>4, Zenon
<1>6. IsGlyph(cell[1])
  BY <1>1, <1>4, Zenon
<1>7. /\ cursor_x + 1 <= cursor_x_max => Shows(fb', cursor_x + 1, cursor_y, Type(typed, cell))
      /\ cursor_x + 1 > cursor_x_max => Feeds(fb', cursor_y, Type(typed, cell))
  BY <1>1, <1>5, <1>6, ShowsGlyph, Zenon
<1>8. Coming' = Type(typed, cell)
  BY <1>2, <1>3 DEF Coming, Step
<1>9. cursor_x_max' = cursor_x_max
  BY DEF cursor_x_max
<1>10. /\ cursor_x' + 1 <= cursor_x_max => Shows(fb', cursor_x' + 1, cursor_y', Coming')
       /\ cursor_x' + 1 > cursor_x_max => Feeds(fb', cursor_y', Coming')
  BY <1>2, <1>7, <1>8, Zenon
<1>11. BeforeAdvance'
  BY <1>9, <1>10, Zenon DEF BeforeAdvance
<1> QED
  BY <1>1, <1>2, <1>11 DEF Intact, BetweenSteps, BeforeDraw, BeforeStoreX, BeforeFeed,
                           BeforeStoreY, BeforeScroll

\* The cursor goes on, or the line ends.
LEMMA AdvanceShows ==
  ASSUME Intact, CursorInv, Advance
  PROVE  Intact'
<1>1. /\ cursor_x + 1 <= cursor_x_max => Shows(fb, cursor_x + 1, cursor_y, Coming)
      /\ cursor_x + 1 > cursor_x_max => Feeds(fb, cursor_y, Coming)
      /\ colour = meant
  BY DEF Advance, Intact, BeforeAdvance
<1>2. /\ reg' = <<cursor_x + 1, cursor_y>>
      /\ pc' = IF cursor_x + 1 > cursor_x_max THEN "nl_cursor" ELSE "store_x"
      /\ UNCHANGED <<fb, cursor_x, cursor_y, script, typed, meant, colour>>
  BY DEF Advance, Goto, Frame
<1>3. Coming' = Coming
  BY <1>2 DEF Coming, Step
<1>4. CASE cursor_x + 1 > cursor_x_max
  <2>1. Feeds(fb', cursor_y', Coming')
    BY <1>1, <1>2, <1>3, <1>4, Zenon
  <2>2. pc' = "nl_cursor" /\ colour' = meant'
    BY <1>1, <1>2, <1>4, Zenon
  <2> QED BY <2>1, <2>2, FeedsLeft
<1>5. CASE ~(cursor_x + 1 > cursor_x_max)
  <2>1. cursor_x + 1 <= cursor_x_max
    BY <1>5, ScreenFacts DEF CursorInv
  <2>2. reg'[1] = cursor_x + 1
    BY <1>2
  <2>3. Shows(fb', reg'[1], cursor_y', Coming')
    BY <1>1, <1>2, <1>3, <2>1, <2>2, Zenon
  <2>4. pc' = "store_x" /\ colour' = meant'
    BY <1>1, <1>2, <1>5, Zenon
  <2>5. BeforeStoreX'
    BY <2>3, Zenon DEF BeforeStoreX
  <2> QED
    BY <2>4, <2>5 DEF Intact, BetweenSteps, BeforeDraw, BeforeAdvance, BeforeFeed,
                      BeforeStoreY, BeforeScroll
<1> QED BY <1>4, <1>5

\* The new column is stored.
LEMMA StoreXShows ==
  ASSUME Intact, StoreX
  PROVE  Intact'
<1>1. Shows(fb, reg[1], cursor_y, Coming) /\ colour = meant
  BY DEF StoreX, Intact, BeforeStoreX
<1>2. /\ cursor_x' = reg[1] /\ pc' = "next" /\ typed' = Coming
      /\ UNCHANGED <<fb, cursor_y, meant, colour>>
  BY DEF StoreX, StepDone, Frame, Coming
<1>3. Shows(fb', cursor_x', cursor_y', typed')
  BY <1>1, <1>2, Zenon
<1> QED BY <1>1, <1>2, <1>3, DoneShows

\* The line feed decides between the next line and scrolling.
LEMMA FeedShows ==
  ASSUME Intact, CursorInv, nl_cursor
  PROVE  Intact'
<1>1. Feeds(fb, cursor_y, Coming) /\ colour = meant
  BY DEF nl_cursor, Intact, BeforeFeed
<1>2. /\ reg' = <<0, cursor_y + 1>>
      /\ pc' = IF cursor_y + 1 > cursor_y_max THEN "scroll" ELSE "store_y"
      /\ UNCHANGED <<fb, cursor_x, cursor_y, script, typed, meant, colour>>
  BY DEF nl_cursor, Goto, Frame
<1>3. Coming' = Coming
  BY <1>2 DEF Coming, Step
<1>4. Feeds(fb', cursor_y', Coming') /\ colour' = meant'
  BY <1>1, <1>2, <1>3, Zenon
<1>5. reg'[2] = cursor_y' + 1
  BY <1>2
<1>6. CASE cursor_y + 1 > cursor_y_max
  <2>1. pc' = "scroll" /\ cursor_y' + 1 > cursor_y_max
    BY <1>2, <1>6, Zenon
  <2> QED BY <1>4, <2>1, FeedsLeft
<1>7. CASE ~(cursor_y + 1 > cursor_y_max)
  <2>1. pc' = "store_y" /\ cursor_y' = cursor_y
    BY <1>2, <1>7, Zenon
  <2>2. cursor_y + 1 <= cursor_y_max
    BY <1>7, ScreenFacts DEF CursorInv
  <2> QED BY <1>4, <1>5, <2>1, <2>2, FeedsLeft
<1> QED BY <1>6, <1>7

\* The new line is stored.
LEMMA StoreYShows ==
  ASSUME Intact, StoreY
  PROVE  Intact'
<1>1. /\ Feeds(fb, cursor_y, Coming) /\ colour = meant
      /\ reg[2] = cursor_y + 1 /\ cursor_y + 1 <= cursor_y_max
  BY DEF StoreY, Intact, BeforeFeed, BeforeStoreY
<1>2. /\ cursor_y' = reg[2] /\ cursor_x' = 0 /\ pc' = "next" /\ typed' = Coming
      /\ UNCHANGED <<fb, meant, colour>>
  BY DEF StoreY, StepDone, Frame, Coming
<1>3. Shows(fb, 0, cursor_y + 1, Coming)
  BY <1>1, FeedsDown, Zenon
<1>4. Shows(fb', cursor_x', cursor_y', typed')
  BY <1>1, <1>2, <1>3, Zenon
<1> QED BY <1>1, <1>2, <1>4, DoneShows

\* The screen is scrolled.
LEMMA ScrollShows ==
  ASSUME NoPadding, Intact, Scroll
  PROVE  Intact'
<1>1. Feeds(fb, cursor_y, Coming) /\ colour = meant /\ cursor_y + 1 > cursor_y_max
  BY DEF Scroll, Intact, BeforeFeed, BeforeScroll
<1>2. /\ fb' = scroll(fb) /\ cursor_x' = 0 /\ pc' = "next" /\ typed' = Coming
      /\ UNCHANGED <<cursor_y, meant, colour>>
  BY DEF Scroll, StepDone, Frame, Coming
<1>3. Shows(scroll(fb), 0, cursor_y, Coming)
  BY <1>1, FeedsScroll, Zenon
<1>4. Shows(fb', cursor_x', cursor_y', typed')
  BY <1>2, <1>3, Zenon
<1> QED BY <1>1, <1>2, <1>4, DoneShows

\* A handler's message between two of kmain's characters goes on with the text.
LEMMA NoticeShows ==
  ASSUME NoPadding, NoticesPlain, Intact, NEW notice \in Notices, Notice(notice), ~torn'
  PROVE  Intact'
<1> DEFINE steps == Script(notice[1], notice[2])
           s == PerformAll(Screen, steps)
<1>1. pc \in {"idle", "next"} /\ meant = "plain"
  BY DEF Notice, Inside
<1>2. Shows(fb, cursor_x, cursor_y, typed) /\ colour = "plain"
  BY <1>1 DEF Intact, BetweenSteps
<1>3. PlainShows(Screen, typed)
  <2>1. /\ DOMAIN Screen = {"fb", "x", "y", "colour"} /\ Screen.colour = colour
        /\ Screen.fb = fb /\ Screen.x = cursor_x /\ Screen.y = cursor_y
    BY DEF Screen
  <2> QED BY <1>2, <2>1, Zenon DEF PlainShows
<1>4. notice[1] \in LogFunctions /\ WellFormed(notice[2])
  BY ConsoleAssumption
<1>5. IsText(steps)
  BY <1>4, TextScript
<1>6. \A k \in DOMAIN steps : steps[k] \notin Colours \ {"plain"}
  BY Zenon DEF NoticesPlain
<1>7. /\ fb' = s.fb /\ cursor_x' = s.x /\ cursor_y' = s.y /\ colour' = s.colour
      /\ typed' = TypeAll(typed, steps) /\ UNCHANGED <<pc, meant>>
  BY Zenon DEF Notice, Become, kmain
<1>8. PlainShows(s, TypeAll(typed, steps))
  <2> HIDE DEF steps
  <2>1. Len(steps) \in Nat /\ DOMAIN steps = 1 .. Len(steps)
    BY <1>5, TextFacts
  <2>2. \A k \in 1 .. Len(steps) : steps[k] \notin Colours \ {"plain"}
    BY <1>6, <2>1, Zenon
  <2> QED BY <1>3, <2>1, <2>2, ScriptShows, Zenon
<1> HIDE DEF s, steps
<1>9. Shows(fb', cursor_x', cursor_y', typed') /\ colour' = "plain"
  BY <1>7, <1>8, Zenon DEF PlainShows
<1>10. pc' \in {"idle", "next"} /\ meant' = "plain"
  BY <1>1, <1>7
<1> QED BY <1>9, <1>10, DoneShows

\* So does the command that clears the screen.
LEMMA ClearShows ==
  ASSUME NoPadding, Intact, ClearCommand, ~torn'
  PROVE  Intact'
<1>1. pc \in {"idle", "next"}
  BY DEF ClearCommand, Inside
<1>2. Shows(fb, cursor_x, cursor_y, typed) /\ colour = meant
  BY <1>1 DEF Intact, BetweenSteps
<1>3. Shows(clear(fb), 0, 0, NoText)
  BY <1>2, ShowsCleared, Zenon
<1>4. /\ fb' = clear(fb) /\ cursor_x' = 0 /\ cursor_y' = 0 /\ typed' = NoText
      /\ UNCHANGED <<colour, pc, meant>>
  BY DEF ClearCommand, kmain
<1>5. Shows(fb', cursor_x', cursor_y', typed')
  BY <1>3, <1>4, Zenon
<1> QED BY <1>1, <1>2, <1>4, <1>5, DoneShows

\* Between two characters kmain starts and ends messages and sets its colour.
LEMMA BetweenShows ==
  ASSUME Intact, pc \in {"idle", "next"}, pc' \in {"idle", "next"}, colour' = meant',
         UNCHANGED <<fb, cursor_x, cursor_y, typed>>
  PROVE  Intact'
<1>1. Shows(fb, cursor_x, cursor_y, typed)
  BY DEF Intact, BetweenSteps
<1>2. Shows(fb', cursor_x', cursor_y', typed')
  BY <1>1, Zenon
<1> QED BY <1>2, DoneShows

\* Nothing undoes that a handler wrote inside a character.
LEMMA TornStays == [Next]_vars /\ torn => torn'
BY DEF Next, vars, StartMessage, snprintf, Kmain, MessageEnds, set_text_colour, Fetch, Draw,
       Advance, StoreX, nl_cursor, StoreY, Scroll, Frame, Notice, ClearCommand, Idle

\* Every step keeps the text on the screen.
LEMMA NextShow ==
  ASSUME NoPadding, NoticesPlain, CursorInv, ShowInv, [Next]_vars
  PROVE  ShowInv'
<1> SUFFICES ASSUME ~torn' PROVE Intact'
  BY Zenon DEF ShowInv
<1>1. Intact
  BY TornStays, Zenon DEF ShowInv
<1>2. colour = meant
  BY <1>1, Zenon DEF Intact
<1>3. ASSUME NEW m \in Messages, StartMessage(m) PROVE Intact'
  BY <1>1, <1>2, <1>3, BetweenShows DEF StartMessage, screen
<1>4. CASE snprintf
  BY <1>1, <1>2, <1>4, BetweenShows DEF snprintf, screen, kmain
<1>5. CASE MessageEnds
  BY <1>1, <1>2, <1>5, BetweenShows DEF MessageEnds, screen
<1>6. CASE set_text_colour
  BY <1>1, <1>6, BetweenShows DEF set_text_colour
<1>7. CASE Fetch
  BY <1>1, <1>7, FetchShows, Zenon
<1>8. CASE Draw
  BY <1>1, <1>8, DrawShows, Zenon
<1>9. CASE Advance
  BY <1>1, <1>9, AdvanceShows, Zenon
<1>10. CASE StoreX
  BY <1>1, <1>10, StoreXShows, Zenon
<1>11. CASE nl_cursor
  BY <1>1, <1>11, FeedShows, Zenon
<1>12. CASE StoreY
  BY <1>1, <1>12, StoreYShows, Zenon
<1>13. CASE Scroll
  BY <1>1, <1>13, ScrollShows, Zenon
<1>14. ASSUME NEW n \in Notices, Notice(n) PROVE Intact'
  BY <1>1, <1>14, NoticeShows, Zenon
<1>15. CASE ClearCommand
  BY <1>1, <1>15, ClearShows, Zenon
<1>16. CASE Idle \/ UNCHANGED vars
  <2>1. UNCHANGED vars
    BY <1>16 DEF Idle
  <2>2. UNCHANGED <<fb, cursor_x, cursor_y, colour, script, pc, reg, typed, meant>>
    BY <2>1 DEF vars
  <2>3. Coming' = Coming /\ Step' = Step
    BY <2>2 DEF Coming, Step
  <2>4. cursor_x_max' = cursor_x_max /\ cursor_y_max' = cursor_y_max
    BY DEF cursor_x_max, cursor_y_max
  <2> QED
    BY <1>1, <2>2, <2>3, <2>4, Zenon
       DEF Intact, BetweenSteps, BeforeDraw, BeforeAdvance, BeforeStoreX, BeforeFeed,
           BeforeStoreY, BeforeScroll
<1> QED
  BY <1>3, <1>4, <1>5, <1>6, <1>7, <1>8, <1>9, <1>10, <1>11, <1>12, <1>13, <1>14, <1>15, <1>16
     DEF Next, Kmain

\* On a screen of any size whose lines have no padding, with handlers that print in the
\* plain colour: between messages the screen shows the last lines that were printed,
\* each character in its place and colour, unless a handler wrote inside a character or
\* a coloured tag.
THEOREM ConsoleShows ==
  ASSUME NoPadding, NoticesPlain
  PROVE  Spec => []ShowsText
<1>1. ShowInv => ShowsText
  <2> SUFFICES ASSUME ShowInv, pc = "idle", ~torn PROVE fb = Picture(typed.lines)
    BY Zenon DEF ShowsText
  <2>1. Shows(fb, cursor_x, cursor_y, typed)
    BY DEF ShowInv, Intact, BetweenSteps
  <2> QED BY <2>1, PageParts, Zenon DEF Shows
<1>2. CursorInv /\ ShowInv /\ [Next]_vars => ShowInv'
  BY NextShow, Zenon
<1> QED BY <1>1, <1>2, InitCursor, NextCursor, InitShow, PTL DEF Spec

-----------------------------------------------------------------------------
(* Numbers: powers and quotients.                                          *)

\* The powers of b up to the n-th.
Powers(f, b, n) == f = [k \in 0 .. n |-> IF k = 0 THEN 1 ELSE b * f[k - 1]]

\* The values of such a list.
LEMMA PowersSteps ==
  ASSUME NEW f, NEW b, NEW n \in Nat, Powers(f, b, n)
  PROVE  f[0] = 1 /\ \A k \in 1 .. n : f[k] = b * f[k - 1]
<1>1. \A k \in 0 .. n : f[k] = IF k = 0 THEN 1 ELSE b * f[k - 1]
  BY Zenon DEF Powers
<1>2. 0 \in 0 .. n /\ \A k \in 1 .. n : k \in 0 .. n /\ k # 0
  OBVIOUS
<1> QED BY <1>1, <1>2, Zenon

\* There is one for every n.
LEMMA PowersExist ==
  ASSUME NEW b, NEW n \in Nat
  PROVE  \E f : Powers(f, b, n)
<1> DEFINE Good == {k \in 0 .. n : \E f : Powers(f, b, k)}
<1>1. 0 \in Good
  <2>1. Powers([k \in 0 .. 0 |-> 1], b, 0)
    BY DEF Powers
  <2> QED BY <2>1
<1>2. ASSUME NEW m \in 1 .. n, m - 1 \in Good PROVE m \in Good
  <2>1. PICK f : Powers(f, b, m - 1)
    BY <1>2
  <2> DEFINE g == [k \in 0 .. m |-> IF k = m THEN b * f[m - 1] ELSE f[k]]
  <2>2. \A k \in 0 .. m : g[k] = IF k = 0 THEN 1 ELSE b * g[k - 1]
    <3> TAKE k \in 0 .. m
    <3>1. CASE k = m
      <4>1. g[k] = b * f[m - 1] /\ g[m - 1] = f[m - 1] /\ k # 0
        BY <3>1
      <4> QED BY <3>1, <4>1
    <3>2. CASE k # m
      <4>1. k \in 0 .. m - 1 /\ (k # 0 => k - 1 \in 0 .. m - 1)
        BY <3>2
      <4>2. g[k] = f[k] /\ (k # 0 => g[k - 1] = f[k - 1])
        BY <4>1
      <4>3. f[k] = IF k = 0 THEN 1 ELSE b * f[k - 1]
        BY <2>1, <4>1 DEF Powers
      <4> QED BY <4>2, <4>3
    <3> QED BY <3>1, <3>2
  <2>3. Powers(g, b, m)
    <3>1. g = [k \in 0 .. m |-> g[k]]
      OBVIOUS
    <3> HIDE DEF g
    <3> QED BY <2>2, <3>1 DEF Powers
  <2> HIDE DEF g
  <2> QED BY <2>3
<1>3. Good \in SUBSET (0 .. n)
  OBVIOUS
<1>4. (\A k \in 0 .. n : k \in Good) => \E f : Powers(f, b, n)
  OBVIOUS
<1> HIDE DEF Good
<1> QED BY <1>1, <1>2, <1>3, <1>4, LeastFailure

\* They agree where both have a value.
LEMMA PowersAgree ==
  ASSUME NEW b, NEW m \in Nat, NEW n \in Nat, m <= n, NEW f, NEW g, Powers(f, b, m), Powers(g, b, n)
  PROVE  f[m] = g[m]
<1> DEFINE Good == {k \in 0 .. m : f[k] = g[k]}
<1>1. /\ f[0] = 1 /\ \A k \in 1 .. m : f[k] = b * f[k - 1]
      /\ g[0] = 1 /\ \A k \in 1 .. n : g[k] = b * g[k - 1]
  BY PowersSteps
<1>2. 0 \in Good
  BY <1>1
<1>3. ASSUME NEW k \in 1 .. m, k - 1 \in Good PROVE k \in Good
  <2>1. k \in 1 .. n /\ k \in 0 .. m
    OBVIOUS
  <2>2. f[k - 1] = g[k - 1]
    BY <1>3
  <2> QED BY <1>1, <2>1, <2>2
<1>4. Good \in SUBSET (0 .. m)
  OBVIOUS
<1>5. (\A k \in 0 .. m : k \in Good) => f[m] = g[m]
  OBVIOUS
<1> HIDE DEF Good
<1> QED BY <1>2, <1>3, <1>4, <1>5, LeastFailure

\* Power is the last of the list.
LEMMA PowerList ==
  ASSUME NEW b, NEW n \in Nat
  PROVE  \E f : Powers(f, b, n) /\ Power(b, n) = f[n]
<1> DEFINE power == CHOOSE f : Powers(f, b, n)
<1>1. Powers(power, b, n)
  BY PowersExist
<1>2. Power(b, n) = power[n]
  BY Zenon DEF Power, Powers
<1> HIDE DEF power
<1> QED BY <1>1, <1>2, Zenon

\* The first power, and the next one.
LEMMA PowerStep ==
  ASSUME NEW b
  PROVE  Power(b, 0) = 1 /\ \A n \in Nat : Power(b, n + 1) = b * Power(b, n)
<1>1. Power(b, 0) = 1
  <2>1. PICK f : Powers(f, b, 0) /\ Power(b, 0) = f[0]
    BY PowerList
  <2> QED BY <2>1, PowersSteps
<1>2. ASSUME NEW n \in Nat PROVE Power(b, n + 1) = b * Power(b, n)
  <2>1. PICK f : Powers(f, b, n) /\ Power(b, n) = f[n]
    BY PowerList
  <2>2. n + 1 \in Nat
    OBVIOUS
  <2>3. PICK g : Powers(g, b, n + 1) /\ Power(b, n + 1) = g[n + 1]
    BY <2>2, PowerList
  <2>4. f[n] = g[n]
    BY <2>1, <2>2, <2>3, PowersAgree
  <2>5. g[n + 1] = b * g[(n + 1) - 1]
    BY <2>2, <2>3, PowersSteps
  <2>6. (n + 1) - 1 = n
    OBVIOUS
  <2> QED BY <2>1, <2>3, <2>4, <2>5, <2>6, Zenon
<1> QED BY <1>1, <1>2

\* Powers are positive.
LEMMA PowerNat ==
  ASSUME NEW b \in Nat, b > 0, NEW n \in Nat
  PROVE  Power(b, n) \in Nat /\ Power(b, n) > 0
<1> DEFINE Good == {k \in 0 .. n : Power(b, k) \in Nat /\ Power(b, k) > 0}
<1>1. 0 \in Good
  BY PowerStep
<1>2. ASSUME NEW m \in 1 .. n, m - 1 \in Good PROVE m \in Good
  <2>1. PICK q \in Nat : q = Power(b, m - 1) /\ q > 0
    BY <1>2
  <2>2. PICK i \in Nat : i = m - 1 /\ m = i + 1 /\ m \in 0 .. n
    OBVIOUS
  <2>3. Power(b, m) = b * q
    BY <2>1, <2>2, PowerStep, Zenon
  <2>4. b * q \in Nat /\ b * q > 0
    BY SMT, <2>1
  <2> QED BY <2>2, <2>3, <2>4
<1>3. Good \in SUBSET (0 .. n)
  OBVIOUS
<1>4. (\A k \in 0 .. n : k \in Good) => Power(b, n) \in Nat /\ Power(b, n) > 0
  OBVIOUS
<1> HIDE DEF Good
<1> QED BY <1>1, <1>2, <1>3, <1>4, LeastFailure

\* They grow.
LEMMA PowerGrows ==
  ASSUME NEW b \in Nat, b > 0, NEW m \in Nat, NEW n \in Nat, m <= n
  PROVE  Power(b, m) <= Power(b, n)
<1> DEFINE Good == {k \in 0 .. n - m : Power(b, m) <= Power(b, m + k)}
<1>0. n - m \in Nat /\ m + (n - m) = n /\ m + 0 = m
  OBVIOUS
<1>1. 0 \in Good
  BY <1>0, PowerNat
<1>2. ASSUME NEW j \in 1 .. n - m, j - 1 \in Good PROVE j \in Good
  <2>1. PICK i \in Nat : i = m + (j - 1) /\ m + j = i + 1
    OBVIOUS
  <2>2. Power(b, m) <= Power(b, i)
    BY <1>2, <2>1
  <2>3. PICK q \in Nat : q = Power(b, i)
    BY PowerNat
  <2>4. PICK p \in Nat : p = Power(b, m)
    BY PowerNat
  <2>5. Power(b, m + j) = b * q
    BY <2>1, <2>3, PowerStep, Zenon
  <2>6. b * q >= q
    BY SMT
  <2>7. p <= b * q
    BY SMT, <2>2, <2>3, <2>4, <2>6
  <2> QED BY <2>4, <2>5, <2>7
<1>3. Good \in SUBSET (0 .. n - m)
  OBVIOUS
<1>4. (\A k \in 0 .. n - m : k \in Good) => Power(b, m) <= Power(b, n)
  BY <1>0
<1> HIDE DEF Good
<1> QED BY <1>0, <1>1, <1>2, <1>3, <1>4, LeastFailure

\* They pass every number.
LEMMA PowerPasses ==
  ASSUME NEW b \in Nat, b > 1, NEW n \in Nat
  PROVE  Power(b, n) > n
<1> DEFINE Good == {k \in 0 .. n : Power(b, k) > k}
<1>1. 0 \in Good
  BY PowerStep
<1>2. ASSUME NEW m \in 1 .. n, m - 1 \in Good PROVE m \in Good
  <2>1. PICK i \in Nat : i = m - 1 /\ m = i + 1 /\ m \in 0 .. n
    OBVIOUS
  <2>2. PICK q \in Nat : q = Power(b, i)
    BY PowerNat
  <2>3. q > i
    BY <1>2, <2>1, <2>2
  <2>4. Power(b, m) = b * q
    BY <2>1, <2>2, PowerStep, Zenon
  <2>5. b * q >= 2 * q
    BY SMT
  <2>6. b * q > m
    BY SMT, <2>1, <2>3, <2>5
  <2> QED BY <2>1, <2>4, <2>6
<1>3. Good \in SUBSET (0 .. n)
  OBVIOUS
<1>4. (\A k \in 0 .. n : k \in Good) => Power(b, n) > n
  OBVIOUS
<1> HIDE DEF Good
<1> QED BY <1>1, <1>2, <1>3, <1>4, LeastFailure

\* Dividing twice is dividing by the product.
LEMMA DividedTwice ==
  ASSUME NEW v \in Nat, NEW p \in Nat, p > 0, NEW b \in Nat, b > 0
  PROVE  (v \div p) \div b = v \div (b * p)
<1>1. PICK q \in Nat, r \in Nat : v \div p = q /\ v % p = r /\ r < p /\ v = q * p + r
  BY Divided, Zenon
<1>2. PICK c \in Nat, s \in Nat : q \div b = c /\ q % b = s /\ s < b /\ q = c * b + s
  BY Divided, Zenon
<1>3. PICK m \in Nat : m = b * p /\ m > 0
  <2>1. b * p \in Nat /\ b * p > 0
    BY SMT
  <2> QED BY <2>1, Zenon
<1>4. PICK e \in Nat : e = s * p + r
  <2>1. s * p + r \in Nat
    BY SMT
  <2> QED BY <2>1, Zenon
<1>5. e < m
  <2>1. s + 1 <= b
    BY SMT, <1>2
  <2>2. (s + 1) * p <= b * p
    BY SMT, <2>1
  <2>3. (s + 1) * p = s * p + p
    BY SMT
  <2> QED BY SMT, <1>1, <1>3, <1>4, <2>2, <2>3
<1>6. v = c * m + e
  <2>1. (c * b + s) * p = c * (b * p) + s * p
    BY SMT
  <2> QED BY SMT, <1>1, <1>2, <1>3, <1>4, <2>1
<1>7. v \div m = c
  BY <1>3, <1>5, <1>6, Quotient, Zenon
<1> QED BY <1>1, <1>2, <1>3, <1>7, Zenon

\* Nothing is left of a value when it is below the divisor.
LEMMA NothingLeft ==
  ASSUME NEW v \in Nat, NEW p \in Nat, p > 0
  PROVE  (v \div p = 0) <=> v < p
<1>1. PICK q \in Nat, r \in Nat : v \div p = q /\ r < p /\ v = q * p + r
  BY Divided, Zenon
<1>2. q = 0 => v < p
  BY SMT, <1>1
<1>3. ASSUME v < p PROVE q = 0
  <2>1. 0 * p + v = v
    BY SMT
  <2>2. v \div p = 0
    BY <1>3, <2>1, Quotient, Zenon
  <2> QED BY <1>1, <2>2, Zenon
<1> QED BY <1>1, <1>2, <1>3, Zenon

\* What is left of a value round by round.
Lefts(f, v, b, n) == f = [k \in 0 .. n |-> IF k = 0 THEN v ELSE f[k - 1] \div b]

\* Its next value.
LEMMA QuotientStep ==
  ASSUME NEW v \in Nat, NEW b \in Nat, b > 0, NEW k \in Nat
  PROVE  (v \div Power(b, k)) \div b = v \div Power(b, k + 1)
<1>1. PICK p \in Nat : p = Power(b, k) /\ p > 0
  BY PowerNat, Zenon
<1>2. Power(b, k + 1) = b * p
  BY <1>1, PowerStep, Zenon
<1>3. (v \div p) \div b = v \div (b * p)
  BY <1>1, DividedTwice, Zenon
<1> QED BY <1>1, <1>2, <1>3, Zenon

\* It is the value divided by a power.
LEMMA LeftsQuotients ==
  ASSUME NEW v \in Nat, NEW b \in Nat, b > 0, NEW n \in Nat, NEW f, Lefts(f, v, b, n)
  PROVE  \A k \in 0 .. n : f[k] = v \div Power(b, k)
<1> DEFINE Good == {k \in 0 .. n : f[k] = v \div Power(b, k)}
<1>1. f[0] = v /\ \A k \in 1 .. n : f[k] = f[k - 1] \div b
  <2>1. \A k \in 0 .. n : f[k] = IF k = 0 THEN v ELSE f[k - 1] \div b
    BY Zenon DEF Lefts
  <2>2. 0 \in 0 .. n /\ \A k \in 1 .. n : k \in 0 .. n /\ k # 0
    OBVIOUS
  <2> QED BY <2>1, <2>2, Zenon
<1>2. 0 \in Good
  <2>1. v \div 1 = v
    BY SMT
  <2> QED BY <1>1, <2>1, PowerStep
<1>3. ASSUME NEW m \in 1 .. n, m - 1 \in Good PROVE m \in Good
  <2>1. PICK i \in Nat : i = m - 1 /\ m = i + 1 /\ m \in 0 .. n
    OBVIOUS
  <2>2. f[i] = v \div Power(b, i)
    BY <1>3, <2>1
  <2>3. f[m] = f[i] \div b
    BY <1>1, <2>1, Zenon
  <2>4. f[m] = v \div Power(b, m)
    <3>1. (v \div Power(b, i)) \div b = v \div Power(b, i + 1)
      BY QuotientStep
    <3>2. f[m] = v \div Power(b, i + 1)
      BY <2>2, <2>3, <3>1, Zenon
    <3> QED BY <2>1, <3>2, Zenon
  <2> QED BY <2>1, <2>4
<1>4. Good \in SUBSET (0 .. n)
  OBVIOUS
<1>5. (\A k \in 0 .. n : k \in Good) => \A k \in 0 .. n : f[k] = v \div Power(b, k)
  OBVIOUS
<1> HIDE DEF Good
<1> QED BY <1>2, <1>3, <1>4, <1>5, LeastFailure

\* The rounds can be made.
LEMMA LeftsExist ==
  ASSUME NEW v \in Nat, NEW b \in Nat, b > 0, NEW n \in Nat
  PROVE  \E f : Lefts(f, v, b, n)
<1> DEFINE f == [k \in 0 .. n |-> v \div Power(b, k)]
<1>1. ASSUME NEW k \in 0 .. n PROVE f[k] = IF k = 0 THEN v ELSE f[k - 1] \div b
  <2>1. CASE k = 0
    <3>1. v \div 1 = v
      BY SMT
    <3> QED BY <2>1, <3>1, PowerStep
  <2>2. CASE k # 0
    <3>1. PICK i \in Nat : i = k - 1 /\ k = i + 1 /\ i \in 0 .. n
      BY <2>2
    <3>2. f[i] = v \div Power(b, i) /\ f[k] = v \div Power(b, k)
      BY <3>1
    <3> HIDE DEF f
    <3>3. f[k] = f[i] \div b
      <4>1. (v \div Power(b, i)) \div b = v \div Power(b, i + 1)
        BY QuotientStep
      <4>2. f[k] = v \div Power(b, i + 1)
        BY <3>1, <3>2, Zenon
      <4> QED BY <3>2, <4>1, <4>2, Zenon
    <3> QED BY <2>2, <3>1, <3>3
  <2> QED BY <2>1, <2>2
<1>2. f = [k \in 0 .. n |-> f[k]]
  OBVIOUS
<1> HIDE DEF f
<1>3. Lefts(f, v, b, n)
  BY <1>1, <1>2 DEF Lefts
<1> QED BY <1>3

\* Min is below the others.
LEMMA SmallestBelow ==
  ASSUME NEW T \in SUBSET Nat, T # {}
  PROVE  Min(T) \in T /\ \A m \in T : Min(T) <= m
BY Least DEF Min

\* The digit at a place, counted from the last one.
DigitAt(v, b, k, upper) == Digit((v \div Power(b, k)) % b, upper)
\* Those of a value, the last one first.
Written(buf, v, b, upper) ==
  IsText(buf) /\ \A k \in 1 .. Len(buf) : buf[k] = DigitAt(v, b, k - 1, upper)
\* As many as there must be.
Enough(n, v, b, none) ==
  /\ v < Power(b, n)
  /\ v > 0 => n > 0 /\ Power(b, n - 1) <= v
  /\ v = 0 => n = IF none THEN 0 ELSE 1

\* Bases.
LEMMA BaseFacts ==
  ASSUME NEW specifier
  PROVE  Base(specifier) \in Nat /\ Base(specifier) > 1
BY DEF Base

\* The loop writes the digits of a value that fits, and stops at the first.
LEMMA DigitsWritten ==
  ASSUME NEW d, NEW v \in Nat, PRINTF_NTOA_BUFFER_SIZE > 1,
         v < Power(Base(d.specifier), PRINTF_NTOA_BUFFER_SIZE - 1)
  PROVE  LET buf == _ntoa_digits(v, d)
         IN /\ Written(buf, v, Base(d.specifier), d.specifier \in {"X", "p"})
            /\ Enough(Len(buf), v, Base(d.specifier), "." \in Flags(d))
            /\ Len(buf) < PRINTF_NTOA_BUFFER_SIZE
<1> DEFINE buf == _ntoa_digits(v, d)
           upper == d.specifier \in {"X", "p"}
           b == Base(d.specifier)
           size == PRINTF_NTOA_BUFFER_SIZE
<1>0. v < Power(b, size - 1)
  OBVIOUS
<1>1. b \in Nat /\ b > 1
  BY BaseFacts, Zenon
<1>2. size \in Nat /\ size > 1
  BY PrintfAssumption
<1> HIDE DEF b, size
<1>3. b > 0 /\ size - 1 \in Nat /\ 0 \in Nat /\ 1 \in Nat
  BY <1>1, <1>2
<1>4. CASE "." \in Flags(d) /\ v = 0
  <2>1. buf = <<>>
    BY <1>4, Zenon DEF _ntoa_digits
  <2>2. IsText(buf) /\ Len(buf) = 0
    BY <2>1, EmptyText
  <2>3. Power(b, 0) = 1
    BY PowerStep
  <2>4. Written(buf, v, b, upper)
    <3> HIDE DEF buf, upper
    <3> QED BY <2>2 DEF Written
  <2>5. Enough(Len(buf), v, b, "." \in Flags(d))
    <3> HIDE DEF buf
    <3> QED BY <1>4, <2>2, <2>3 DEF Enough
  <2>6. Len(buf) < size
    BY <1>2, <2>2
  <2> QED BY <2>4, <2>5, <2>6, Zenon DEF b, size
<1>5. CASE ~("." \in Flags(d) /\ v = 0)
  <2> DEFINE left == CHOOSE f : Lefts(f, v, b, size)
             S == {k \in 1 .. size : left[k] = 0} \cup {size}
             len == Min(S)
  <2>1. buf = [k \in 1 .. len |-> Digit(left[k - 1] % b, upper)]
    BY <1>5, Zenon DEF _ntoa_digits, Lefts, b, size
  <2>2. Lefts(left, v, b, size)
    BY <1>1, <1>2, <1>3, LeftsExist
  <2> HIDE DEF left, buf, upper
  <2>3. \A k \in 0 .. size : left[k] = v \div Power(b, k)
    BY <1>1, <1>2, <1>3, <2>2, LeftsQuotients
  <2>4. \A k \in 1 .. size : left[k] = 0 <=> v < Power(b, k)
    <3> TAKE k \in 1 .. size
    <3>1. k \in Nat /\ k \in 0 .. size
      OBVIOUS
    <3>2. PICK p \in Nat : p = Power(b, k) /\ p > 0
      BY <1>1, <1>3, <3>1, PowerNat
    <3>3. left[k] = v \div p
      BY <2>3, <3>1, <3>2, Zenon
    <3>4. (v \div p = 0) <=> v < p
      BY <3>2, NothingLeft
    <3> QED BY <3>2, <3>3, <3>4, Zenon
  <2>5. len \in S /\ \A m \in S : len <= m
    <3>1. S \in SUBSET Nat /\ S # {}
      BY <1>2
    <3> HIDE DEF S
    <3> QED BY <3>1, SmallestBelow
  <2>6. size - 1 \in S
    <3>1. size - 1 \in 1 .. size
      BY <1>2
    <3> QED BY <1>0, <2>4, <3>1
  <2>7. len \in 1 .. size - 1 /\ len \in Nat
    <3>1. S \in SUBSET (1 .. size)
      BY <1>2
    <3> HIDE DEF S, len
    <3> QED BY <1>2, <2>5, <2>6, <3>1
  <2>8. v < Power(b, len)
    <3>1. len \in 1 .. size /\ left[len] = 0
      <4> HIDE DEF len
      <4> QED BY <2>5, <2>7
    <3> HIDE DEF len
    <3> QED BY <2>4, <3>1, Zenon
  <2>9. \A k \in 1 .. len - 1 : ~(v < Power(b, k))
    <3> SUFFICES ASSUME NEW k \in 1 .. len - 1, v < Power(b, k) PROVE FALSE
      OBVIOUS
    <3>1. k \in 1 .. size /\ k < len
      <4> HIDE DEF len
      <4> QED BY <1>2, <2>7
    <3>2. k \in S
      BY <2>4, <3>1
    <3> HIDE DEF len, S
    <3> QED BY <2>5, <2>7, <3>1, <3>2
  <2> HIDE DEF len, S
  <2>10. buf = [k \in 1 .. len |-> buf[k]]
    BY <2>1
  <2>11. IsText(buf) /\ Len(buf) = len
    BY <2>7, <2>10, TextOfPlaces
  <2>12. Written(buf, v, b, upper)
    <3>1. ASSUME NEW k \in 1 .. len PROVE buf[k] = DigitAt(v, b, k - 1, upper)
      <4>1. k - 1 \in 0 .. size
        BY <1>2, <2>7
      <4>2. left[k - 1] = v \div Power(b, k - 1)
        BY <2>3, <4>1, Zenon
      <4>3. buf[k] = Digit(left[k - 1] % b, upper)
        BY <2>1, Zenon
      <4> QED BY <4>2, <4>3, Zenon DEF DigitAt
    <3> QED BY <2>11, <3>1, Zenon DEF Written
  <2>13. v > 0 => len > 0 /\ Power(b, len - 1) <= v
    <3> SUFFICES ASSUME v > 0 PROVE Power(b, len - 1) <= v
      BY <2>7
    <3>1. CASE len = 1
      <4>1. len - 1 = 0 /\ 1 <= v
        BY <3>1
      <4>2. Power(b, 0) = 1
        BY PowerStep
      <4> QED BY <4>1, <4>2, Zenon
    <3>2. CASE len # 1
      <4>1. len - 1 \in 1 .. len - 1 /\ len - 1 \in Nat
        BY <2>7, <3>2
      <4>2. PICK p \in Nat : p = Power(b, len - 1)
        BY <1>1, <1>3, <4>1, PowerNat, Zenon
      <4>3. ~(v < p)
        BY <2>9, <4>1, <4>2, Zenon
      <4>4. p <= v
        BY <4>3
      <4> QED BY <4>2, <4>4, Zenon
    <3> QED BY <3>1, <3>2
  <2>14. v = 0 => len = 1
    <3> SUFFICES ASSUME v = 0, len # 1 PROVE FALSE
      OBVIOUS
    <3>1. 1 \in 1 .. len - 1
      BY <2>7
    <3>2. PICK p \in Nat : p = Power(b, 1) /\ p > 0
      BY <1>1, <1>3, PowerNat, Zenon
    <3>3. ~(v < p)
      BY <2>9, <3>1, <3>2, Zenon
    <3> QED BY <3>2, <3>3
  <2>15. Enough(len, v, b, "." \in Flags(d))
    BY <1>5, <2>8, <2>13, <2>14, Zenon DEF Enough
  <2>16. len < size
    BY <1>2, <2>7
  <2> QED BY <2>11, <2>12, <2>15, <2>16, Zenon DEF buf, upper, b, size
<1> QED BY <1>4, <1>5

-----------------------------------------------------------------------------
(* Numbers: the characters of texts that are put together.                 *)

\* Texts are the same when their characters are.
LEMMA SameText ==
  ASSUME NEW s, NEW t, IsText(s), IsText(t), Len(s) = Len(t), \A k \in 1 .. Len(s) : s[k] = t[k]
  PROVE  s = t
<1>1. PICK A : s \in Seq(A)
  BY DEF IsText
<1>2. PICK B : t \in Seq(B)
  BY DEF IsText
<1>3. s \in Seq(A \cup B) /\ t \in Seq(A \cup B)
  BY <1>1, <1>2
<1> QED BY <1>3

\* The characters of two texts in a row.
Joined(c, s, t, m, n) ==
  /\ IsText(c) /\ Len(c) = m + n
  /\ \A k \in 1 .. m : c[k] = s[k]
  /\ \A k \in 1 .. n : c[m + k] = t[k]

\* They are those of the first text, then those of the second.
LEMMA ConcatFacts ==
  ASSUME NEW s, NEW t, IsText(s), IsText(t), NEW m, NEW n, Len(s) = m, Len(t) = n
  PROVE  Joined(s \o t, s, t, m, n)
<1>1. PICK A : s \in Seq(A)
  BY DEF IsText
<1>2. PICK B : t \in Seq(B)
  BY DEF IsText
<1>3. s \in Seq(A \cup B) /\ t \in Seq(A \cup B)
  BY <1>1, <1>2
<1> QED BY <1>3, TextConcat DEF Joined

\* Those of a text and a character.
LEMMA AppendFacts ==
  ASSUME NEW s, NEW ch, IsText(s)
  PROVE  /\ IsText(Append(s, ch)) /\ Len(Append(s, ch)) = Len(s) + 1 /\ Len(s) \in Nat
         /\ \A k \in 1 .. Len(s) : Append(s, ch)[k] = s[k]
         /\ Append(s, ch)[Len(s) + 1] = ch
<1>1. PICK A : s \in Seq(A)
  BY DEF IsText
<1>2. s \in Seq(A \cup {ch})
  BY <1>1
<1> QED BY <1>2, TextAppend

\* Those of a text backwards.
LEMMA ReverseFacts ==
  ASSUME NEW s, IsText(s), NEW n, Len(s) = n
  PROVE  /\ IsText(Reverse(s)) /\ Len(Reverse(s)) = n
         /\ \A k \in 1 .. n : Reverse(s)[k] = s[n + 1 - k]
<1>1. Len(s) \in Nat
  BY TextFacts
<1>2. Reverse(s) = [k \in 1 .. Len(s) |-> Reverse(s)[k]]
  BY <1>1 DEF Reverse
<1>3. IsText(Reverse(s)) /\ Len(Reverse(s)) = Len(s)
  BY <1>1, <1>2, TextOfPlaces
<1>4. ASSUME NEW k \in 1 .. Len(s) PROVE Reverse(s)[k] = s[Len(s) + 1 - k]
  <2>1. Reverse(s)[k] = s[(Len(s) - k) + 1]
    BY <1>1 DEF Reverse
  <2>2. (Len(s) - k) + 1 = Len(s) + 1 - k
    BY <1>1
  <2> QED BY <2>1, <2>2, Zenon
<1> QED BY <1>1, <1>3, <1>4

\* Those of padding.
LEMMA RepeatFacts ==
  ASSUME NEW ch, NEW n \in Int
  PROVE  /\ IsText(Repeat(ch, n)) /\ Len(Repeat(ch, n)) \in Nat
         /\ n >= 0 => Len(Repeat(ch, n)) = n
         /\ n <= 0 => Len(Repeat(ch, n)) = 0
         /\ \A k \in 1 .. Len(Repeat(ch, n)) : Repeat(ch, n)[k] = ch
<1> DEFINE m == Max({n, 0})
<1>0. 0 \in Int
  OBVIOUS
<1>1. m \in {n, 0} /\ m >= 0 /\ m >= n
  BY <1>0, MaxOfTwo, Zenon
<1>2. m \in Nat
  BY <1>1
<1>3. Repeat(ch, n) = [k \in 1 .. m |-> ch]
  BY DEF Repeat
<1> HIDE DEF m
<1>4. Repeat(ch, n) = [k \in 1 .. m |-> Repeat(ch, n)[k]]
  BY <1>3
<1>5. IsText(Repeat(ch, n)) /\ Len(Repeat(ch, n)) = m
  BY <1>2, <1>4, TextOfPlaces
<1>6. \A k \in 1 .. m : Repeat(ch, n)[k] = ch
  BY <1>3
<1>7. (n >= 0 => m = n) /\ (n <= 0 => m = 0)
  BY <1>1, <1>2
<1> QED BY <1>2, <1>5, <1>6, <1>7

\* Nothing is padded twice over.
LEMMA RepeatNone ==
  ASSUME NEW ch, NEW n \in Int, n <= 0
  PROVE  Repeat(ch, n) = <<>>
<1>1. IsText(Repeat(ch, n)) /\ Len(Repeat(ch, n)) = 0
  BY RepeatFacts
<1>2. IsText(<<>>) /\ Len(<<>>) = 0
  BY EmptyText
<1>3. \A k \in 1 .. 0 : Repeat(ch, n)[k] = <<>>[k]
  OBVIOUS
<1> QED BY <1>1, <1>2, <1>3, SameText

\* Texts can be put together in any order.
LEMMA ConcatAssociates ==
  ASSUME NEW r, NEW s, NEW t, IsText(r), IsText(s), IsText(t)
  PROVE  (r \o s) \o t = r \o (s \o t)
<1>1. PICK A : r \in Seq(A)
  BY DEF IsText
<1>2. PICK B : s \in Seq(B)
  BY DEF IsText
<1>3. PICK C : t \in Seq(C)
  BY DEF IsText
<1>4. PICK D : D = A \cup B \cup C
  OBVIOUS
<1>5. r \in Seq(D) /\ s \in Seq(D) /\ t \in Seq(D)
  BY <1>1, <1>2, <1>3, <1>4
<1> QED BY <1>5

\* No characters, before or after.
LEMMA ConcatEmpty ==
  ASSUME NEW s, IsText(s)
  PROVE  <<>> \o s = s /\ s \o <<>> = s
<1>1. PICK A : s \in Seq(A)
  BY DEF IsText
<1> QED BY <1>1

\* The last character of a text is the first of it backwards.
LEMMA ReverseAppend ==
  ASSUME NEW s, NEW ch, IsText(s)
  PROVE  Reverse(Append(s, ch)) = <<ch>> \o Reverse(s)
<1> DEFINE a == Append(s, ch)
           x == Reverse(a)
           y == <<ch>> \o Reverse(s)
<1>1. PICK n \in Nat : n = Len(s)
  BY TextFacts, Zenon
<1>2. IsText(a) /\ Len(a) = n + 1 /\ (\A k \in 1 .. n : a[k] = s[k]) /\ a[n + 1] = ch
  BY <1>1, AppendFacts, Zenon
<1> HIDE DEF a
<1>3. /\ IsText(x) /\ Len(x) = n + 1 /\ \A k \in 1 .. n + 1 : x[k] = a[(n + 1) + 1 - k]
  BY <1>2, ReverseFacts, Zenon
<1>4. IsText(Reverse(s)) /\ Len(Reverse(s)) = n /\ \A k \in 1 .. n : Reverse(s)[k] = s[n + 1 - k]
  BY <1>1, ReverseFacts, Zenon
<1>5. IsText(<<ch>>) /\ Len(<<ch>>) = 1 /\ <<ch>>[1] = ch
  BY OneCharacter
<1>6. /\ IsText(y) /\ Len(y) = 1 + n
      /\ \A k \in 1 .. 1 : y[k] = <<ch>>[k]
      /\ \A k \in 1 .. n : y[1 + k] = Reverse(s)[k]
  <2>1. Joined(y, <<ch>>, Reverse(s), 1, n)
    BY <1>4, <1>5, ConcatFacts, Zenon
  <2> QED BY <2>1, Zenon DEF Joined
<1> HIDE DEF x, y
<1>7. ASSUME NEW k \in 1 .. n + 1 PROVE x[k] = y[k]
  <2>1. CASE k = 1
    <3>1. (n + 1) + 1 - 1 = n + 1 /\ 1 \in 1 .. n + 1 /\ 1 \in 1 .. 1
      OBVIOUS
    <3>2. x[1] = ch
      BY <1>2, <1>3, <3>1, Zenon
    <3>3. y[1] = ch
      BY <1>5, <1>6, <3>1, Zenon
    <3> QED BY <2>1, <3>2, <3>3, Zenon
  <2>2. CASE k # 1
    <3>1. PICK i \in 1 .. n : i = k - 1 /\ 1 + i = k /\ (n + 1) + 1 - k = n + 1 - i
      BY <2>2
    <3>2. n + 1 - i \in 1 .. n
      OBVIOUS
    <3>3. x[k] = s[n + 1 - i]
      BY <1>2, <1>3, <3>1, <3>2, Zenon
    <3>4. y[1 + i] = s[n + 1 - i]
      BY <1>4, <1>6, Zenon
    <3> QED BY <3>1, <3>3, <3>4, Zenon
  <2> QED BY <2>1, <2>2
<1>8. x = y
  BY <1>3, <1>6, <1>7, SameText
<1> QED BY <1>8 DEF x, y, a

\* Padding behind a text is padding in front of it backwards.
LEMMA ReversePadded ==
  ASSUME NEW s, NEW ch, IsText(s), NEW m \in Int
  PROVE  Reverse(s \o Repeat(ch, m)) = Repeat(ch, m) \o Reverse(s)
<1> DEFINE p == Repeat(ch, m)
           a == s \o p
           x == Reverse(a)
           y == p \o Reverse(s)
<1>1. PICK n \in Nat : n = Len(s)
  BY TextFacts, Zenon
<1>2. PICK j \in Nat : j = Len(p)
  BY RepeatFacts, Zenon
<1>3. IsText(p) /\ \A k \in 1 .. j : p[k] = ch
  BY <1>2, RepeatFacts, Zenon
<1> HIDE DEF p
<1>4. /\ IsText(a) /\ Len(a) = n + j
      /\ \A k \in 1 .. n : a[k] = s[k]
      /\ \A k \in 1 .. j : a[n + k] = p[k]
  <2>1. Joined(a, s, p, n, j)
    BY <1>1, <1>2, <1>3, ConcatFacts, Zenon
  <2> QED BY <2>1, Zenon DEF Joined
<1> HIDE DEF a
<1>5. IsText(x) /\ Len(x) = n + j /\ \A k \in 1 .. n + j : x[k] = a[(n + j) + 1 - k]
  BY <1>4, ReverseFacts, Zenon
<1>6. IsText(Reverse(s)) /\ Len(Reverse(s)) = n /\ \A k \in 1 .. n : Reverse(s)[k] = s[n + 1 - k]
  BY <1>1, ReverseFacts, Zenon
<1>7. /\ IsText(y) /\ Len(y) = j + n
      /\ \A k \in 1 .. j : y[k] = p[k]
      /\ \A k \in 1 .. n : y[j + k] = Reverse(s)[k]
  <2>1. Joined(y, p, Reverse(s), j, n)
    BY <1>2, <1>3, <1>6, ConcatFacts, Zenon
  <2> QED BY <2>1, Zenon DEF Joined
<1> HIDE DEF x, y
<1>8. ASSUME NEW k \in 1 .. n + j PROVE x[k] = y[k]
  <2>1. CASE k <= j
    <3>1. PICK i \in 1 .. j : n + i = (n + j) + 1 - k /\ k \in 1 .. j
      <4>1. j + 1 - k \in 1 .. j /\ n + (j + 1 - k) = (n + j) + 1 - k /\ k \in 1 .. j
        BY <2>1
      <4> QED BY <4>1, Zenon
    <3>2. x[k] = ch
      BY <1>3, <1>4, <1>5, <3>1, Zenon
    <3>3. y[k] = ch
      BY <1>3, <1>7, <3>1, Zenon
    <3> QED BY <3>2, <3>3, Zenon
  <2>2. CASE k > j
    <3>1. PICK i \in 1 .. n : j + i = k /\ (n + j) + 1 - k = n + 1 - i /\ n + 1 - i \in 1 .. n
      <4>1. k - j \in 1 .. n /\ j + (k - j) = k /\ (n + j) + 1 - k = n + 1 - (k - j)
            /\ n + 1 - (k - j) \in 1 .. n
        BY <2>2
      <4> QED BY <4>1, Zenon
    <3>2. x[k] = s[n + 1 - i]
      BY <1>4, <1>5, <3>1, Zenon
    <3>3. y[j + i] = s[n + 1 - i]
      BY <1>6, <1>7, Zenon
    <3> QED BY <3>1, <3>2, <3>3, Zenon
  <2> QED BY <2>1, <2>2
<1>9. Len(y) = Len(x)
  BY <1>5, <1>7
<1>10. x = y
  BY <1>5, <1>7, <1>8, <1>9, SameText, Zenon
<1> QED BY <1>10 DEF x, y, a, p

-----------------------------------------------------------------------------
(* Numbers: the digits of the reference.                                   *)

\* Zeros up to a number of places that the buffer has.
LEMMA PadToRoom ==
  ASSUME NEW buf, IsText(buf), NEW n \in Int, n <= PRINTF_NTOA_BUFFER_SIZE
  PROVE  PadTo(buf, n) = buf \o Repeat("0", n - Len(buf))
<1>1. PICK l \in Nat : l = Len(buf)
  BY TextFacts, Zenon
<1>2. Room(buf) = PRINTF_NTOA_BUFFER_SIZE - l /\ PRINTF_NTOA_BUFFER_SIZE \in Nat
  BY <1>1, PrintfAssumption DEF Room
<1>3. n - l \in Int /\ Room(buf) \in Int /\ n - l <= Room(buf)
  BY <1>2
<1>4. /\ Min({n - l, Room(buf)}) \in {n - l, Room(buf)}
      /\ Min({n - l, Room(buf)}) <= n - l /\ Min({n - l, Room(buf)}) <= Room(buf)
  BY <1>3, MinOfTwo, Zenon
<1>5. Min({n - l, Room(buf)}) = n - l
  BY <1>3, <1>4
<1> QED BY <1>1, <1>5, Zenon DEF PadTo

\* In front of a number its digits are zeros.
LEMMA LeadingZero ==
  ASSUME NEW v \in Nat, NEW b \in Nat, b > 0, NEW n \in Nat, v < Power(b, n), NEW k \in Nat, n <= k,
         NEW upper
  PROVE  DigitAt(v, b, k, upper) = "0"
<1>1. PICK p \in Nat : p = Power(b, n)
  BY PowerNat, Zenon
<1>2. PICK q \in Nat : q = Power(b, k) /\ q > 0
  BY PowerNat, Zenon
<1>3. p <= q
  BY <1>1, <1>2, PowerGrows, Zenon
<1>4. v < q
  BY <1>1, <1>2, <1>3
<1>5. v \div q = 0
  BY <1>2, <1>4, NothingLeft
<1>6. 0 % b = 0
  BY SMT
<1>7. DigitAt(v, b, k, upper) = Digit(0, upper)
  BY <1>2, <1>5, <1>6, Zenon DEF DigitAt
<1>8. Digit(0, upper) = "0"
  BY DEF Digit, Lower, Upper
<1> QED BY <1>7, <1>8, Zenon

\* So the padded digits are those of more places.
LEMMA PadWritten ==
  ASSUME NEW v \in Nat, NEW b \in Nat, b > 0, NEW upper, NEW buf, Written(buf, v, b, upper),
         v < Power(b, Len(buf)), NEW n \in Int, n <= PRINTF_NTOA_BUFFER_SIZE
  PROVE  /\ Written(PadTo(buf, n), v, b, upper)
         /\ n <= Len(buf) => Len(PadTo(buf, n)) = Len(buf)
         /\ n >= Len(buf) => Len(PadTo(buf, n)) = n
<1> DEFINE c == PadTo(buf, n)
           z == Repeat("0", n - Len(buf))
<1>1. IsText(buf) /\ \A k \in 1 .. Len(buf) : buf[k] = DigitAt(v, b, k - 1, upper)
  BY Zenon DEF Written
<1>2. PICK l \in Nat : l = Len(buf)
  BY <1>1, TextFacts, Zenon
<1>3. n - l \in Int /\ n - Len(buf) \in Int
  BY <1>2
<1>4. PICK j \in Nat : j = Len(z) /\ (n - l >= 0 => j = n - l) /\ (n - l <= 0 => j = 0)
  BY <1>2, <1>3, RepeatFacts, Zenon
<1>5. IsText(z) /\ \A k \in 1 .. j : z[k] = "0"
  BY <1>3, <1>4, RepeatFacts, Zenon
<1>6. c = buf \o z
  BY <1>1, PadToRoom, Zenon
<1> HIDE DEF c, z
<1>7. Joined(c, buf, z, l, j)
  BY <1>1, <1>2, <1>4, <1>5, <1>6, ConcatFacts, Zenon
<1>8. /\ IsText(c) /\ Len(c) = l + j
      /\ \A k \in 1 .. l : c[k] = buf[k]
      /\ \A k \in 1 .. j : c[l + k] = z[k]
  BY <1>7, Zenon DEF Joined
<1>9. ASSUME NEW k \in 1 .. l + j PROVE c[k] = DigitAt(v, b, k - 1, upper)
  <2>1. CASE k <= l
    <3>1. k \in 1 .. l
      BY <2>1
    <3> QED BY <1>1, <1>2, <1>8, <3>1, Zenon
  <2>2. CASE k > l
    <3>1. PICK i \in 1 .. j : l + i = k /\ k - 1 \in Nat /\ l <= k - 1
      <4>1. k - l \in 1 .. j /\ l + (k - l) = k /\ k - 1 \in Nat /\ l <= k - 1
        BY <2>2
      <4> QED BY <4>1, Zenon
    <3>2. c[k] = "0"
      BY <1>5, <1>8, <3>1, Zenon
    <3>3. PICK m \in Nat : m = k - 1 /\ l <= m
      BY <3>1, Zenon
    <3>4. v < Power(b, l)
      BY <1>2, Zenon
    <3>5. DigitAt(v, b, m, upper) = "0"
      BY <3>3, <3>4, LeadingZero
    <3> QED BY <3>2, <3>3, <3>5, Zenon
  <2> QED BY <2>1, <2>2
<1>10. Written(c, v, b, upper)
  BY <1>8, <1>9, Zenon DEF Written
<1>11. (n <= l => l + j = l) /\ (n >= l => l + j = n)
  BY <1>4
<1> QED BY <1>2, <1>8, <1>10, <1>11, Zenon DEF c

\* The number of places the reference asks for.
Places(n, v, b, least) ==
  /\ n \in least .. least + v
  /\ Power(b, n) > v /\ (n = least \/ Power(b, n - 1) <= v)

\* There is no smaller one.
LEMMA PlacesLeast ==
  ASSUME NEW v \in Nat, NEW b \in Nat, b > 0, NEW least \in Nat,
         NEW m, NEW n, Places(m, v, b, least), Places(n, v, b, least)
  PROVE  ~(m < n)
<1> SUFFICES ASSUME m < n PROVE FALSE
  OBVIOUS
<1>1. /\ m \in least .. least + v /\ n \in least .. least + v /\ Power(b, m) > v
      /\ n = least \/ Power(b, n - 1) <= v
  BY Zenon DEF Places
<1>2. m \in Nat /\ n - 1 \in Nat /\ m <= n - 1 /\ n # least
  BY <1>1
<1>3. PICK i \in Nat : i = n - 1 /\ m <= i
  BY <1>2, Zenon
<1>4. PICK p \in Nat : p = Power(b, m)
  BY <1>2, PowerNat, Zenon
<1>5. PICK q \in Nat : q = Power(b, i)
  BY PowerNat, Zenon
<1>6. p <= q
  BY <1>2, <1>3, <1>4, <1>5, PowerGrows, Zenon
<1>7. p > v /\ q <= v
  BY <1>1, <1>2, <1>3, <1>4, <1>5, Zenon
<1> QED BY <1>6, <1>7

\* The reference's digits.
LEMMA ReferenceAt ==
  ASSUME NEW v \in Nat, NEW b \in Nat, b > 0, NEW least \in Nat, NEW n, Places(n, v, b, least)
  PROVE  ReferenceDigits(v, b, least) = [k \in 1 .. n |-> (v \div Power(b, n - k)) % b]
<1> DEFINE m == CHOOSE m \in least .. least + v :
                  Power(b, m) > v /\ (m = least \/ Power(b, m - 1) <= v)
<1>1. Places(m, v, b, least)
  BY Zenon DEF Places
<1>2. ReferenceDigits(v, b, least) = [k \in 1 .. m |-> (v \div Power(b, m - k)) % b]
  BY Zenon DEF ReferenceDigits
<1> HIDE DEF m
<1>3. m \in Int /\ n \in Int
  <2>1. m \in least .. least + v /\ n \in least .. least + v
    BY <1>1, Zenon DEF Places
  <2> QED BY <2>1
<1>4. ~(m < n) /\ ~(n < m)
  BY <1>1, PlacesLeast
<1>5. m = n
  BY <1>3, <1>4
<1> QED BY <1>2, <1>5

\* The digits of the code backwards are the digits of the reference.
LEMMA BodyWritten ==
  ASSUME NEW v \in Nat, NEW b \in Nat, b > 0, NEW least \in Nat, NEW upper,
         NEW buf, Written(buf, v, b, upper), Places(Len(buf), v, b, least)
  PROVE  LET digits == ReferenceDigits(v, b, least)
         IN [k \in DOMAIN digits |-> Digit(digits[k], upper)] = Reverse(buf)
<1> DEFINE digits == ReferenceDigits(v, b, least)
           body == [k \in DOMAIN digits |-> Digit(digits[k], upper)]
<1>1. IsText(buf) /\ \A k \in 1 .. Len(buf) : buf[k] = DigitAt(v, b, k - 1, upper)
  BY Zenon DEF Written
<1>2. PICK n \in Nat : n = Len(buf)
  BY <1>1, TextFacts, Zenon
<1>3. Places(n, v, b, least)
  BY <1>2, Zenon
<1>4. digits = [k \in 1 .. n |-> (v \div Power(b, n - k)) % b]
  BY <1>3, ReferenceAt
<1> HIDE DEF digits
<1>5. DOMAIN digits = 1 .. n /\ \A k \in 1 .. n : digits[k] = (v \div Power(b, n - k)) % b
  BY <1>4, Zenon
<1>6. \A k \in 1 .. n : body[k] = DigitAt(v, b, n - k, upper)
  BY <1>5, Zenon DEF DigitAt
<1>7. body = [k \in 1 .. n |-> body[k]]
  BY <1>5, Zenon
<1> HIDE DEF body
<1>8. IsText(body) /\ Len(body) = n
  BY <1>7, TextOfPlaces
<1>9. IsText(Reverse(buf)) /\ Len(Reverse(buf)) = n /\ \A k \in 1 .. n : Reverse(buf)[k] = buf[n + 1 - k]
  BY <1>1, <1>2, ReverseFacts, Zenon
<1>10. ASSUME NEW k \in 1 .. n PROVE body[k] = Reverse(buf)[k]
  <2>1. PICK i \in 1 .. n : i = n + 1 - k /\ i - 1 = n - k
    <3>1. n + 1 - k \in 1 .. n /\ (n + 1 - k) - 1 = n - k
      OBVIOUS
    <3> QED BY <3>1, Zenon
  <2>2. Reverse(buf)[k] = DigitAt(v, b, i - 1, upper)
    BY <1>1, <1>2, <1>9, <2>1, Zenon
  <2>3. body[k] = DigitAt(v, b, n - k, upper)
    BY <1>6, Zenon
  <2> QED BY <2>1, <2>2, <2>3, Zenon
<1>11. body = Reverse(buf)
  BY <1>8, <1>9, <1>10, SameText, Zenon
<1> QED BY <1>11, Zenon DEF body, digits

\* The padded digits have as many places as the reference asks for.
LEMMA PlacesFound ==
  ASSUME NEW v \in Nat, NEW b \in Nat, b > 1, NEW l \in Nat, NEW none, Enough(l, v, b, none),
         NEW p \in Nat, NEW n \in Nat, p <= l => n = l, p >= l => n = p,
         NEW least \in Nat, none => least = p, ~none => least = 1 /\ p = 0
  PROVE  Places(n, v, b, least)
<1>1. /\ v < Power(b, l)
      /\ v > 0 => l > 0 /\ Power(b, l - 1) <= v
      /\ v = 0 /\ none => l = 0
      /\ v = 0 /\ ~none => l = 1
  BY Zenon DEF Enough
<1>2. b > 0 /\ l <= n /\ p <= n
  OBVIOUS
<1>3. Power(b, n) > v
  <2>1. PICK x \in Nat : x = Power(b, l)
    BY <1>2, PowerNat, Zenon
  <2>2. PICK y \in Nat : y = Power(b, n)
    BY <1>2, PowerNat, Zenon
  <2>3. x <= y
    BY <1>2, <2>1, <2>2, PowerGrows, Zenon
  <2>4. v < x
    BY <1>1, <2>1, Zenon
  <2>5. y > v
    BY <2>3, <2>4
  <2> QED BY <2>2, <2>5, Zenon
<1>4. n = least \/ (n = l /\ v > 0)
  <2>1. CASE none
    BY <1>1, <2>1
  <2>2. CASE ~none
    BY <1>1, <2>2
  <2> QED BY <2>1, <2>2, Zenon
<1>5. n >= least
  <2>1. CASE none
    BY <1>2, <2>1
  <2>2. CASE ~none
    BY <1>1, <1>2, <2>2
  <2> QED BY <2>1, <2>2, Zenon
<1>6. CASE n = least
  <2>1. n \in least .. least + v
    BY <1>6
  <2> QED BY <1>3, <1>6, <2>1, Zenon DEF Places
<1>7. CASE n = l /\ v > 0
  <2>1. n - 1 \in Nat /\ Power(b, n - 1) <= v
    <3>1. l > 0 /\ Power(b, l - 1) <= v
      BY <1>1, <1>7, Zenon
    <3>2. Power(b, n - 1) <= v
      BY <1>7, <3>1, Zenon
    <3>3. n - 1 \in Nat
      BY <1>7, <3>1
    <3> QED BY <3>2, <3>3
  <2>2. PICK i \in Nat : i = n - 1
    BY <2>1, Zenon
  <2>3. PICK x \in Nat : x = Power(b, i)
    BY <1>2, PowerNat, Zenon
  <2>4. x > i
    BY <2>3, PowerPasses, Zenon
  <2>5. x <= v
    BY <2>1, <2>2, <2>3, Zenon
  <2>6. n \in least .. least + v
    BY <1>5, <2>2, <2>4, <2>5
  <2> QED BY <1>3, <2>1, <2>6, Zenon DEF Places
<1> QED BY <1>4, <1>6, <1>7, Zenon

-----------------------------------------------------------------------------
(* Numbers: sign, zeros and spaces.                                        *)

\* A directive for an integer, with what the code reads for it.
IsNumber(d) ==
  /\ d.specifier \in IntegerSpecifiers
  /\ d.flags \subseteq {"0", "-", "+", " ", "#"} /\ d.width \in Int
  /\ d.precision \in Int /\ d.precision >= -1
  /\ d.arg \in Int /\ d.length \in {"hh", "h", "int", "l"}

\* Flags that are set and cleared.
KeptFlags(F, G, left, decimal, unsigned, precise) ==
  \A x : x \in F <=> /\ x \in G \/ (left /\ x = "-") \/ (precise /\ x = ".")
                     /\ ~(decimal /\ x = "#")
                     /\ ~(unsigned /\ (x = "+" \/ x = " "))
                     /\ ~(precise /\ x = "0")

FlagsAre(F, G, left, unsigned, precise) ==
  /\ "-" \in F <=> "-" \in G \/ left
  /\ "0" \in F <=> "0" \in G /\ ~precise
  /\ "." \in F <=> precise
  /\ "+" \in F <=> "+" \in G /\ ~unsigned
  /\ " " \in F <=> " " \in G /\ ~unsigned
  /\ "#" \notin F

\* One by one.
LEMMA EachFlag ==
  ASSUME NEW F, NEW G, NEW left, NEW decimal, NEW unsigned, NEW precise,
         KeptFlags(F, G, left, decimal, unsigned, precise), "#" \notin G, "." \notin G
  PROVE  FlagsAre(F, G, left, unsigned, precise)
<1>1. "-" \in F <=> "-" \in G \/ left
  <2>1. PICK x : x = "-"
    OBVIOUS
  <2>2. x # "." /\ x # "#" /\ x # "+" /\ x # " " /\ x # "0"
    BY <2>1
  <2>3. x \in F <=> x \in G \/ left
    BY <2>1, <2>2, Zenon DEF KeptFlags
  <2> QED BY <2>1, <2>3, Zenon
<1>2. "0" \in F <=> "0" \in G /\ ~precise
  <2>1. PICK x : x = "0"
    OBVIOUS
  <2>2. x # "-" /\ x # "." /\ x # "#" /\ x # "+" /\ x # " "
    BY <2>1
  <2>3. x \in F <=> x \in G /\ ~precise
    BY <2>1, <2>2, Zenon DEF KeptFlags
  <2> QED BY <2>1, <2>3, Zenon
<1>3. "." \in F <=> precise
  <2>1. PICK x : x = "."
    OBVIOUS
  <2>2. x # "-" /\ x # "#" /\ x # "+" /\ x # " " /\ x # "0"
    BY <2>1
  <2>3. x \in F <=> precise
    BY <2>1, <2>2, Zenon DEF KeptFlags
  <2> QED BY <2>1, <2>3, Zenon
<1>4. "+" \in F <=> "+" \in G /\ ~unsigned
  <2>1. PICK x : x = "+"
    OBVIOUS
  <2>2. x # "-" /\ x # "." /\ x # "#" /\ x # " " /\ x # "0"
    BY <2>1
  <2>3. x \in F <=> x \in G /\ ~unsigned
    BY <2>1, <2>2, Zenon DEF KeptFlags
  <2> QED BY <2>1, <2>3, Zenon
<1>5. " " \in F <=> " " \in G /\ ~unsigned
  <2>1. PICK x : x = " "
    OBVIOUS
  <2>2. x # "-" /\ x # "." /\ x # "#" /\ x # "+" /\ x # "0"
    BY <2>1
  <2>3. x \in F <=> x \in G /\ ~unsigned
    BY <2>1, <2>2, Zenon DEF KeptFlags
  <2> QED BY <2>1, <2>3, Zenon
<1>6. "#" \notin F
  <2>1. PICK x : x = "#"
    OBVIOUS
  <2>2. x # "-" /\ x # "." /\ x # "+" /\ x # " " /\ x # "0"
    BY <2>1
  <2>3. x \notin F
    BY <2>1, <2>2, Zenon DEF KeptFlags
  <2> QED BY <2>1, <2>3, Zenon
<1> QED BY <1>1, <1>2, <1>3, <1>4, <1>5, <1>6, Zenon DEF FlagsAre

\* The flags that are left.
LEMMA FlagsLeft ==
  ASSUME NEW d, IsNumber(d), "#" \notin d.flags
  PROVE  FlagsAre(Flags(d), d.flags, d.width < 0, d.specifier \notin Signed, d.precision >= 0)
<1>1. d.specifier # "p"
  BY DEF IsNumber, IntegerSpecifiers, Signed
<1>2. (d.precision # None) <=> (d.precision >= 0)
  <2>1. d.precision \in Int /\ d.precision >= -1
    BY Zenon DEF IsNumber
  <2> QED BY SMT, <2>1 DEF None
<1>3. d.specifier \in IntegerSpecifiers /\ "." \notin d.flags
  BY DEF IsNumber
<1>4. KeptFlags(Flags(d), d.flags, d.width < 0, Base(d.specifier) = 10, d.specifier \notin Signed,
                d.precision >= 0)
  <2> DEFINE Left == IF d.width < 0 THEN {"-"} ELSE {}
             Dot == IF d.precision # None THEN {"."} ELSE {}
             Zero == IF d.specifier = "p" THEN {"0"} ELSE {}
             NoHash == IF d.specifier \in IntegerSpecifiers /\ Base(d.specifier) = 10 THEN {"#"} ELSE {}
             NoSign == IF d.specifier \in IntegerSpecifiers \ Signed THEN {"+", " "} ELSE {}
             NoZero == IF d.specifier \in IntegerSpecifiers /\ d.precision # None THEN {"0"} ELSE {}
  <2>1. \A x : x \in Left <=> d.width < 0 /\ x = "-"
    BY Zenon
  <2>2. \A x : x \in Dot <=> d.precision >= 0 /\ x = "."
    BY <1>2, Zenon
  <2>3. \A x : x \notin Zero
    BY <1>1, Zenon
  <2>4. \A x : x \in NoHash <=> Base(d.specifier) = 10 /\ x = "#"
    BY <1>3, Zenon
  <2>5. \A x : x \in NoSign <=> d.specifier \notin Signed /\ (x = "+" \/ x = " ")
    BY <1>3, Zenon
  <2>6. \A x : x \in NoZero <=> d.precision >= 0 /\ x = "0"
    BY <1>2, <1>3, Zenon
  <2>7. Flags(d) = (d.flags \cup Left \cup Dot \cup Zero) \ (NoHash \cup NoSign \cup NoZero)
    BY Zenon DEF Flags
  <2> HIDE DEF Left, Dot, Zero, NoHash, NoSign, NoZero
  <2> QED BY <2>1, <2>2, <2>3, <2>4, <2>5, <2>6, <2>7, Zenon DEF KeptFlags
<1> QED BY <1>3, <1>4, EachFlag

\* The value is a number, negative for signed types only.
LEMMA ValueFacts ==
  ASSUME NEW d, IsNumber(d)
  PROVE  Value(d) \in Int /\ (d.specifier \notin Signed => ~(Value(d) < 0)) /\ Magnitude(d) \in Nat
<1>1. d.specifier # "p" /\ d.arg \in Int
  BY DEF IsNumber, IntegerSpecifiers, Signed
<1>2. PICK bits \in Nat : bits = Bits[d.length] /\ bits - 1 \in Nat
  <2>1. Bits[d.length] \in Nat \ {0}
    BY PrintfAssumption DEF IsNumber
  <2>2. Bits[d.length] \in Nat /\ Bits[d.length] - 1 \in Nat
    BY <2>1
  <2> QED BY <2>2, Zenon
<1>3. PICK p \in Nat : p = Power(2, bits) /\ p > 0
  BY PowerNat
<1>4. Wrap(d.arg, bits) \in Nat
  <2>1. d.arg % p \in Nat
    BY SMT, <1>1, <1>3
  <2> QED BY <1>3, <2>1, Zenon DEF Wrap
<1>5. SignedOf(d.arg, bits) \in Int
  <2>1. Wrap(d.arg, bits) - p \in Int /\ Wrap(d.arg, bits) \in Int
    BY <1>4
  <2> QED BY <1>3, <2>1, Zenon DEF SignedOf
<1>6. Value(d) = IF d.specifier \in Signed THEN SignedOf(d.arg, bits) ELSE Wrap(d.arg, bits)
  BY <1>1, <1>2, Zenon DEF Value
<1>7. Value(d) \in Int /\ (d.specifier \notin Signed => ~(Value(d) < 0))
  BY <1>4, <1>5, <1>6
<1> QED BY <1>7 DEF Magnitude

\* A sign, or none.
Sign(ch) == IF ch = "" THEN <<>> ELSE <<ch>>
WithSign(buf, ch) == IF ch = "" THEN buf ELSE Append(buf, ch)

\* The sign behind the digits is in front of them backwards.
LEMMA SignFirst ==
  ASSUME NEW buf, IsText(buf), NEW ch
  PROVE  /\ IsText(WithSign(buf, ch)) /\ IsText(Sign(ch))
         /\ Len(Sign(ch)) = IF ch = "" THEN 0 ELSE 1
         /\ Len(WithSign(buf, ch)) = Len(Sign(ch)) + Len(buf)
         /\ Reverse(WithSign(buf, ch)) = Sign(ch) \o Reverse(buf)
<1>1. Len(buf) \in Nat
  BY TextFacts
<1>2. CASE ch = ""
  <2>1. WithSign(buf, ch) = buf /\ Sign(ch) = <<>>
    BY <1>2, Zenon DEF WithSign, Sign
  <2>2. IsText(<<>>) /\ Len(<<>>) = 0
    BY EmptyText
  <2>3. IsText(Reverse(buf))
    BY TextReverse
  <2>4. <<>> \o Reverse(buf) = Reverse(buf)
    BY <2>3, ConcatEmpty
  <2>5. Len(buf) = 0 + Len(buf)
    BY <1>1
  <2>6. IsText(WithSign(buf, ch)) /\ IsText(Sign(ch))
    BY <2>1, <2>2, Zenon
  <2>7. Len(Sign(ch)) = 0 /\ Len(WithSign(buf, ch)) = Len(Sign(ch)) + Len(buf)
    BY <2>1, <2>2, <2>5, Zenon
  <2>8. Reverse(WithSign(buf, ch)) = Sign(ch) \o Reverse(buf)
    BY <2>1, <2>4, Zenon
  <2> QED BY <1>2, <2>6, <2>7, <2>8, Zenon
<1>3. CASE ch # ""
  <2>1. WithSign(buf, ch) = Append(buf, ch) /\ Sign(ch) = <<ch>>
    BY <1>3, Zenon DEF WithSign, Sign
  <2>2. IsText(<<ch>>) /\ Len(<<ch>>) = 1
    BY OneCharacter
  <2>3. IsText(Append(buf, ch)) /\ Len(Append(buf, ch)) = Len(buf) + 1
    BY AppendFacts
  <2>4. Reverse(Append(buf, ch)) = <<ch>> \o Reverse(buf)
    BY ReverseAppend
  <2>5. Len(buf) + 1 = 1 + Len(buf)
    BY <1>1
  <2> QED BY <1>3, <2>1, <2>2, <2>3, <2>4, <2>5, Zenon
<1> QED BY <1>2, <1>3

\* The parts of the reference.
ReferenceBody(d) ==
  LET digits == ReferenceDigits(Magnitude(d), Base(d.specifier),
                                IF d.precision >= 0 THEN d.precision ELSE 1)
  IN [k \in DOMAIN digits |-> Digit(digits[k], d.specifier = "X")]

ReferenceSign(d) ==
  IF d.specifier \notin Signed THEN <<>>
  ELSE IF Value(d) < 0 THEN <<"-">> ELSE IF "+" \in d.flags THEN <<"+">>
  ELSE IF " " \in d.flags THEN <<" ">> ELSE <<>>

\* The sign of the code is that of the reference.
LEMMA SignRight ==
  ASSUME NEW d, IsNumber(d), "#" \notin d.flags
  PROVE  /\ ReferenceSign(d) = Sign(SignOf(Value(d) < 0, d))
         /\ (SignOf(Value(d) < 0, d) # "") <=> (Value(d) < 0 \/ Flags(d) \cap {"+", " "} # {})
<1>1. /\ "+" \in Flags(d) <=> "+" \in d.flags /\ d.specifier \in Signed
      /\ " " \in Flags(d) <=> " " \in d.flags /\ d.specifier \in Signed
  BY FlagsLeft DEF FlagsAre
<1>2. d.specifier \notin Signed => ~(Value(d) < 0)
  BY ValueFacts
<1>3. Flags(d) \cap {"+", " "} # {} <=> "+" \in Flags(d) \/ " " \in Flags(d)
  OBVIOUS
<1>4. Sign("-") = <<"-">> /\ Sign("+") = <<"+">> /\ Sign(" ") = <<" ">> /\ Sign("") = <<>>
  BY DEF Sign
<1>5. "-" # "" /\ "+" # "" /\ " " # ""
  OBVIOUS
<1>6. CASE Value(d) < 0
  <2>1. SignOf(Value(d) < 0, d) = "-"
    BY <1>6, Zenon DEF SignOf
  <2>2. ReferenceSign(d) = <<"-">>
    BY <1>2, <1>6, Zenon DEF ReferenceSign
  <2> QED BY <1>4, <1>5, <1>6, <2>1, <2>2, Zenon
<1>7. CASE ~(Value(d) < 0) /\ "+" \in Flags(d)
  <2>1. SignOf(Value(d) < 0, d) = "+"
    BY <1>7, Zenon DEF SignOf
  <2>2. ReferenceSign(d) = <<"+">>
    BY <1>1, <1>7, Zenon DEF ReferenceSign
  <2> QED BY <1>3, <1>4, <1>5, <1>7, <2>1, <2>2, Zenon
<1>8. CASE ~(Value(d) < 0) /\ "+" \notin Flags(d) /\ " " \in Flags(d)
  <2>1. SignOf(Value(d) < 0, d) = " "
    BY <1>8, Zenon DEF SignOf
  <2>2. ReferenceSign(d) = <<" ">>
    BY <1>1, <1>8, Zenon DEF ReferenceSign
  <2> QED BY <1>3, <1>4, <1>5, <1>8, <2>1, <2>2, Zenon
<1>9. CASE ~(Value(d) < 0) /\ "+" \notin Flags(d) /\ " " \notin Flags(d)
  <2>1. SignOf(Value(d) < 0, d) = ""
    BY <1>9, Zenon DEF SignOf
  <2>2. ReferenceSign(d) = <<>>
    BY <1>1, <1>9, Zenon DEF ReferenceSign
  <2> QED BY <1>3, <1>4, <1>9, <2>1, <2>2, Zenon
<1> QED BY <1>6, <1>7, <1>8, <1>9, Zenon

\* What fits into the buffer.
Fits(d) ==
  /\ IsNumber(d) /\ "#" \notin d.flags
  /\ ~("-" \in Flags(d) /\ d.precision > 0)
  /\ Max({FieldWidth(d), d.precision}) < PRINTF_NTOA_BUFFER_SIZE
  /\ PRINTF_NTOA_BUFFER_SIZE > 1
  /\ Magnitude(d) < Power(Base(d.specifier), PRINTF_NTOA_BUFFER_SIZE - 1)

\* Width and precision.
LEMMA FitFacts ==
  ASSUME NEW d, Fits(d)
  PROVE  /\ FieldWidth(d) \in Nat /\ FieldWidth(d) < PRINTF_NTOA_BUFFER_SIZE
         /\ FieldWidth(d) = IF d.width < 0 THEN -d.width ELSE d.width
         /\ Precision(d) \in Nat /\ Precision(d) < PRINTF_NTOA_BUFFER_SIZE
         /\ d.precision >= 0 => Precision(d) = d.precision
         /\ ~(d.precision >= 0) => Precision(d) = 0
<1>1. PICK w \in Int, p \in Int, size \in Nat :
        w = d.width /\ p = d.precision /\ size = PRINTF_NTOA_BUFFER_SIZE
  BY PrintfAssumption DEF Fits, IsNumber
<1>2. FieldWidth(d) = IF w < 0 THEN -w ELSE w
  <2>1. d.specifier # "p"
    BY DEF Fits, IsNumber, IntegerSpecifiers, Signed
  <2> QED BY <1>1, <2>1, Zenon DEF FieldWidth
<1>3. PICK f \in Nat : f = FieldWidth(d)
  BY <1>2
<1>4. Max({f, p}) < size /\ size > 1
  BY <1>1, <1>3, Zenon DEF Fits
<1>5. Max({f, p}) \in {f, p} /\ Max({f, p}) >= f /\ Max({f, p}) >= p
  <2>1. f \in Int
    OBVIOUS
  <2> QED BY <2>1, MaxOfTwo, Zenon
<1>6. f < size /\ p < size
  <2>1. PICK m : m = Max({f, p})
    OBVIOUS
  <2>2. m < size /\ m \in {f, p} /\ m >= f /\ m >= p
    BY <1>4, <1>5, <2>1, Zenon
  <2> QED BY <2>2
<1>7. PICK r : r = Precision(d)
  OBVIOUS
<1>8. r \in {p, 0} /\ r >= p /\ r >= 0
  <2>1. 0 \in Int
    OBVIOUS
  <2>2. Max({p, 0}) \in {p, 0} /\ Max({p, 0}) >= p /\ Max({p, 0}) >= 0
    BY <2>1, MaxOfTwo, Zenon
  <2> QED BY <1>1, <1>7, <2>2, Zenon DEF Precision
<1>9. r \in Nat /\ r < size /\ (p >= 0 => r = p) /\ (~(p >= 0) => r = 0)
  BY <1>4, <1>6, <1>8
<1> QED BY <1>1, <1>2, <1>3, <1>6, <1>7, <1>9, Zenon

\* The digits, with the zeros the precision asks for.
Zeros(d) ==
  LET digits == _ntoa_digits(Magnitude(d), d)
  IN IF "-" \in Flags(d) THEN digits ELSE PadTo(digits, Precision(d))

\* Backwards they are the body of the reference.
LEMMA ZerosRight ==
  ASSUME NEW d, Fits(d)
  PROVE  /\ IsText(Zeros(d)) /\ Len(Zeros(d)) \in Nat /\ Len(Zeros(d)) < PRINTF_NTOA_BUFFER_SIZE
         /\ ReferenceBody(d) = Reverse(Zeros(d))
<1> DEFINE z == Zeros(d)
           buf == _ntoa_digits(Magnitude(d), d)
           upper == d.specifier \in {"X", "p"}
           precise == d.precision >= 0
           least == IF precise THEN d.precision ELSE 1
<1>1. PICK v \in Nat : v = Magnitude(d)
  BY ValueFacts, Zenon DEF Fits
<1>2. PICK b \in Nat : b = Base(d.specifier) /\ b > 1 /\ b > 0
  <2>1. Base(d.specifier) \in Nat /\ Base(d.specifier) > 1
    BY BaseFacts
  <2>2. Base(d.specifier) > 0
    BY <2>1
  <2> QED BY <2>1, <2>2, Zenon
<1>3. PICK size \in Nat : size = PRINTF_NTOA_BUFFER_SIZE
  BY PrintfAssumption
<1>4. PICK p \in Nat : p = Precision(d) /\ p < size /\ (precise => p = d.precision) /\ (~precise => p = 0)
  BY <1>3, FitFacts, Zenon
<1>5. "." \in Flags(d) <=> precise
  BY FlagsLeft DEF Fits, FlagsAre
<1>6. /\ Written(buf, v, b, upper) /\ Enough(Len(buf), v, b, "." \in Flags(d))
      /\ Len(buf) < size
  <2>1. PRINTF_NTOA_BUFFER_SIZE > 1 /\ v < Power(Base(d.specifier), PRINTF_NTOA_BUFFER_SIZE - 1)
    BY <1>1, Zenon DEF Fits
  <2>2. LET u == _ntoa_digits(v, d)
        IN /\ Written(u, v, Base(d.specifier), d.specifier \in {"X", "p"})
           /\ Enough(Len(u), v, Base(d.specifier), "." \in Flags(d))
           /\ Len(u) < PRINTF_NTOA_BUFFER_SIZE
    BY <2>1, DigitsWritten
  <2> QED BY <1>1, <1>2, <1>3, <2>2, Zenon
<1>7. z = IF "-" \in Flags(d) THEN buf ELSE PadTo(buf, p)
  BY <1>4, Zenon DEF Zeros
<1>8. least \in Nat /\ (precise => least = p) /\ (~precise => least = 1 /\ p = 0)
  BY <1>4
<1>9. ("-" \in Flags(d)) => p = 0
  <2>1. ("-" \in Flags(d)) => ~(d.precision > 0)
    BY Zenon DEF Fits
  <2>2. d.precision \in Int
    BY Zenon DEF Fits, IsNumber
  <2> QED BY <1>4, <2>1, <2>2
<1> HIDE DEF z, buf, upper, precise, least
<1>10. PICK l \in Nat : l = Len(buf) /\ l < size
  BY <1>6, TextFacts, Zenon DEF Written
<1>11. Written(z, v, b, upper) /\ (p <= l => Len(z) = l) /\ (p >= l => Len(z) = p)
  <2>1. CASE "-" \in Flags(d)
    <3>1. z = buf /\ p = 0
      BY <1>7, <1>9, <2>1, Zenon
    <3>2. p >= l => l = p
      BY <3>1
    <3> QED BY <1>6, <1>10, <3>1, <3>2, Zenon
  <2>2. CASE "-" \notin Flags(d)
    <3>1. z = PadTo(buf, p)
      BY <1>7, <2>2, Zenon
    <3>2. p \in Int /\ p <= PRINTF_NTOA_BUFFER_SIZE
      BY <1>3, <1>4
    <3>3. v < Power(b, Len(buf))
      BY <1>6, Zenon DEF Enough
    <3>4. /\ Written(PadTo(buf, p), v, b, upper)
          /\ p <= Len(buf) => Len(PadTo(buf, p)) = Len(buf)
          /\ p >= Len(buf) => Len(PadTo(buf, p)) = p
      BY <1>2, <1>6, <3>2, <3>3, PadWritten
    <3> QED BY <1>10, <3>1, <3>4, Zenon
  <2> QED BY <2>1, <2>2
<1>12. PICK n \in Nat : n = Len(z)
  BY <1>11, TextFacts, Zenon DEF Written
<1>13. n < size
  BY <1>4, <1>10, <1>11, <1>12
<1>14. Places(n, v, b, least)
  <2>1. Enough(l, v, b, "." \in Flags(d))
    BY <1>6, <1>10, Zenon
  <2>2. (p <= l => n = l) /\ (p >= l => n = p)
    BY <1>11, <1>12, Zenon
  <2>3. ("." \in Flags(d) => least = p) /\ ("." \notin Flags(d) => least = 1 /\ p = 0)
    BY <1>5, <1>8, Zenon
  <2> QED BY <1>2, <1>8, <2>1, <2>2, <2>3, PlacesFound
<1>15. LET digits == ReferenceDigits(v, b, least)
       IN [k \in DOMAIN digits |-> Digit(digits[k], upper)] = Reverse(z)
  BY <1>2, <1>8, <1>11, <1>12, <1>14, BodyWritten
<1>16. \A x : Digit(x, d.specifier = "X") = Digit(x, upper)
  <2>1. d.specifier = "X" <=> upper
    BY DEF upper, Fits, IsNumber, IntegerSpecifiers, Signed
  <2> QED BY <2>1, Zenon DEF Digit
<1>17. ReferenceBody(d) = Reverse(z)
  <2> DEFINE digits == ReferenceDigits(v, b, least)
  <2>1. ReferenceBody(d) = [k \in DOMAIN digits |-> Digit(digits[k], d.specifier = "X")]
    BY <1>1, <1>2, Zenon DEF ReferenceBody, least, precise
  <2> HIDE DEF digits
  <2>2. [k \in DOMAIN digits |-> Digit(digits[k], d.specifier = "X")]
          = [k \in DOMAIN digits |-> Digit(digits[k], upper)]
    BY <1>16, Zenon
  <2> QED BY <1>15, <2>1, <2>2, Zenon DEF digits
<1> QED BY <1>3, <1>11, <1>12, <1>13, <1>17, Zenon DEF z, Written

\* The parts put together, as the reference asks for it.
LEMMA ReferenceParts ==
  ASSUME NEW d
  PROVE  Reference(d) =
           LET left == "-" \in d.flags \/ d.width < 0
               width == IF d.width < 0 THEN -d.width ELSE d.width
               sign == ReferenceSign(d)
               body == ReferenceBody(d)
               missing == width - Len(sign) - Len(body)
           IN IF left THEN sign \o body \o Repeat(" ", missing)
              ELSE IF "0" \in d.flags /\ ~(d.precision >= 0) THEN sign \o Repeat("0", missing) \o body
              ELSE Repeat(" ", missing) \o sign \o body
BY Zenon DEF Reference, ReferenceSign, ReferenceBody, Magnitude

\* The buffer with the sign, which has room for it.
LEMMA SignPut ==
  ASSUME NEW buf, Len(buf) \in Nat, Len(buf) < PRINTF_NTOA_BUFFER_SIZE, NEW ch
  PROVE  (IF ch = "" THEN buf ELSE Put1(buf, ch)) = WithSign(buf, ch)
<1>1. Room(buf) > 0
  BY PrintfAssumption DEF Room
<1> QED BY <1>1, Zenon DEF Put1, WithSign

\* The conversion as the code does it, when there is no '#'.
LEMMA FormatParts ==
  ASSUME NEW d, "#" \notin Flags(d)
  PROVE  _ntoa_long(d) =
           LET width == PaddedWidth(Value(d) < 0, d)
               padded == IF "0" \in Flags(d) /\ "-" \notin Flags(d) THEN PadTo(Zeros(d), width) ELSE Zeros(d)
               sign == SignOf(Value(d) < 0, d)
           IN _out_rev(IF sign = "" THEN padded ELSE Put1(padded, sign), width, Flags(d))
BY Zenon DEF _ntoa_long, _ntoa_format, Zeros

\* A number comes out as the C standard says.
LEMMA NumberRight ==
  ASSUME NEW d, Fits(d)
  PROVE  _ntoa_long(d) = Reference(d)
<1> DEFINE z == Zeros(d)
           body == Reverse(z)
           ch == SignOf(Value(d) < 0, d)
           width == PaddedWidth(Value(d) < 0, d)
           F == Flags(d)
<1>1. PICK size \in Nat : size = PRINTF_NTOA_BUFFER_SIZE
  BY PrintfAssumption
<1>2. PICK n \in Nat : n = Len(z) /\ n < size
  BY <1>1, ZerosRight, Zenon
<1>3. IsText(z) /\ ReferenceBody(d) = body
  BY ZerosRight, Zenon
<1>4. IsText(body) /\ Len(body) = n
  BY <1>2, <1>3, ReverseFacts, Zenon
<1>5. /\ "-" \in F <=> "-" \in d.flags \/ d.width < 0
      /\ "0" \in F <=> "0" \in d.flags /\ ~(d.precision >= 0)
      /\ "#" \notin F
  BY FlagsLeft DEF Fits, FlagsAre
<1>6. /\ ReferenceSign(d) = Sign(ch)
      /\ ch # "" <=> (Value(d) < 0 \/ F \cap {"+", " "} # {})
  BY SignRight, Zenon DEF Fits
<1>7. PICK W \in Nat : W = FieldWidth(d) /\ W < size /\ W = IF d.width < 0 THEN -d.width ELSE d.width
  BY <1>1, FitFacts, Zenon
<1>8. Reference(d) =
        LET missing == W - Len(Sign(ch)) - Len(body)
        IN IF "-" \in F THEN Sign(ch) \o body \o Repeat(" ", missing)
           ELSE IF "0" \in F THEN Sign(ch) \o Repeat("0", missing) \o body
           ELSE Repeat(" ", missing) \o Sign(ch) \o body
  BY <1>3, <1>5, <1>6, <1>7, ReferenceParts, Zenon
<1>9. _ntoa_long(d) =
        LET padded == IF "0" \in F /\ "-" \notin F THEN PadTo(z, width) ELSE z
        IN _out_rev(IF ch = "" THEN padded ELSE Put1(padded, ch), width, F)
  BY <1>5, FormatParts, Zenon
<1>10. width = IF "-" \notin F /\ "0" \in F /\ W > 0 /\ ch # "" THEN W - 1 ELSE W
  BY <1>6, <1>7, Zenon DEF PaddedWidth
<1> HIDE DEF z, body, ch, width, F
<1>11. /\ IsText(WithSign(z, ch)) /\ IsText(Sign(ch))
       /\ Len(Sign(ch)) = IF ch = "" THEN 0 ELSE 1
       /\ Len(WithSign(z, ch)) = Len(Sign(ch)) + Len(z)
       /\ Reverse(WithSign(z, ch)) = Sign(ch) \o body
  BY <1>3, SignFirst, Zenon DEF body
<1>12. PICK s \in Nat : s = Len(Sign(ch)) /\ (ch = "" => s = 0) /\ (ch # "" => s = 1)
  BY <1>11
<1>13. PICK missing \in Int : missing = W - Len(Sign(ch)) - Len(body) /\ missing = W - (s + n)
  <2>1. W - Len(Sign(ch)) - Len(body) = W - s - n
    BY <1>4, <1>12, Zenon
  <2>2. W - s - n \in Int /\ W - s - n = W - (s + n)
    OBVIOUS
  <2> QED BY <2>1, <2>2, Zenon
<1>13a. missing = W - (s + n)
  BY <1>13, Zenon
<1>14. Len(WithSign(z, ch)) = s + n
  BY <1>2, <1>11, <1>12, Zenon
<1>15. (IF ch = "" THEN z ELSE Put1(z, ch)) = WithSign(z, ch)
  BY <1>1, <1>2, SignPut
<1>16. /\ IsText(Repeat(" ", missing)) /\ IsText(Repeat("0", missing)) /\ IsText(Sign(ch) \o body)
       /\ IsText(<<>>)
  BY <1>4, <1>11, TextRepeat, TextConcat, EmptyText
<1>17. CASE "-" \in F
  <2>1. width = W
    BY <1>10, <1>17, Zenon
  <2>2. _ntoa_long(d) = _out_rev(WithSign(z, ch), W, F)
    BY <1>9, <1>15, <1>17, <2>1, Zenon
  <2>3. F \cap {"-", "0"} # {}
    BY <1>17
  <2>4. _out_rev(WithSign(z, ch), W, F) = <<>> \o (Sign(ch) \o body) \o Repeat(" ", missing)
    BY <1>11, <1>13, <1>14, <1>17, <2>3, Zenon DEF _out_rev
  <2>5. <<>> \o (Sign(ch) \o body) = Sign(ch) \o body
    BY <1>16, ConcatEmpty
  <2>6. Reference(d) = Sign(ch) \o body \o Repeat(" ", missing)
    BY <1>8, <1>13, <1>17, Zenon
  <2> QED BY <2>2, <2>4, <2>5, <2>6, Zenon
<1>18. CASE "-" \notin F /\ "0" \notin F
  <2>1. width = W
    BY <1>10, <1>18, Zenon
  <2>2. _ntoa_long(d) = _out_rev(WithSign(z, ch), W, F)
    BY <1>9, <1>15, <1>18, <2>1, Zenon
  <2>3. F \cap {"-", "0"} = {}
    BY <1>18
  <2>4. _out_rev(WithSign(z, ch), W, F) = Repeat(" ", missing) \o (Sign(ch) \o body) \o <<>>
    BY <1>11, <1>13, <1>14, <1>18, <2>3, Zenon DEF _out_rev
  <2>5. Repeat(" ", missing) \o (Sign(ch) \o body) = (Repeat(" ", missing) \o Sign(ch)) \o body
    <3>1. PICK spaces : spaces = Repeat(" ", missing)
      OBVIOUS
    <3>2. IsText(spaces) /\ IsText(Sign(ch)) /\ IsText(body)
      BY <1>4, <1>11, <1>16, <3>1, Zenon
    <3>3. spaces \o (Sign(ch) \o body) = (spaces \o Sign(ch)) \o body
      BY <3>2, ConcatAssociates
    <3> QED BY <3>1, <3>3, Zenon
  <2>6. Repeat(" ", missing) \o (Sign(ch) \o body) \o <<>> = Repeat(" ", missing) \o (Sign(ch) \o body)
    <3>1. IsText(Repeat(" ", missing) \o (Sign(ch) \o body))
      BY <1>16, TextConcat, Zenon
    <3> QED BY <3>1, ConcatEmpty, Zenon
  <2>7. Reference(d) = Repeat(" ", missing) \o Sign(ch) \o body
    BY <1>8, <1>13, <1>18, Zenon
  <2> QED BY <2>2, <2>4, <2>5, <2>6, <2>7, Zenon
<1>19. CASE "-" \notin F /\ "0" \in F
  <2>1. PICK w \in Int : w = width /\ w <= size /\ w < size
    <3>1. width = W \/ width = W - 1
      BY <1>10, Zenon
    <3> QED BY <1>7, <3>1
  <2>2. Repeat("0", w - n) = Repeat("0", missing)
    <3>1. CASE ch = ""
      <4>1. w = W /\ s = 0
        BY <1>10, <1>12, <2>1, <3>1, Zenon
      <4>2. w - n = missing
        BY <1>13, <4>1
      <4> QED BY <4>2, Zenon
    <3>2. CASE ch # "" /\ W > 0
      <4>1. w = W - 1 /\ s = 1
        BY <1>10, <1>12, <1>19, <2>1, <3>2, Zenon
      <4>2. w - n = missing
        BY <1>13, <4>1
      <4> QED BY <4>2, Zenon
    <3>3. CASE ch # "" /\ ~(W > 0)
      <4>1. w = W /\ s = 1
        BY <1>10, <1>12, <2>1, <3>3, Zenon
      <4>2. w - n \in Int /\ w - n <= 0 /\ missing <= 0
        <5>1. ~(W > 0)
          BY <3>3, Zenon
        <5> QED BY <1>13a, <4>1, <5>1
      <4>3. Repeat("0", w - n) = <<>> /\ Repeat("0", missing) = <<>>
        BY <4>2, RepeatNone
      <4> QED BY <4>3, Zenon
    <3> QED BY <3>1, <3>2, <3>3, Zenon
  <2> DEFINE zeros == Repeat("0", missing)
             padded == PadTo(z, width)
  <2>3. padded = z \o zeros
    <3>1. PadTo(z, w) = z \o Repeat("0", w - Len(z))
      BY <1>1, <1>3, <2>1, PadToRoom, Zenon
    <3> QED BY <1>2, <2>1, <2>2, <3>1, Zenon
  <2>4. IsText(zeros) /\ IsText(padded)
    BY <1>3, <1>16, <2>3, TextConcat, Zenon
  <2>5. Reverse(padded) = zeros \o body
    <3>1. Reverse(z \o zeros) = zeros \o Reverse(z)
      BY <1>3, ReversePadded, Zenon
    <3> QED BY <2>3, <3>1, Zenon DEF body
  <2>6. Len(padded) \in Nat /\ Len(padded) < PRINTF_NTOA_BUFFER_SIZE
    <3>1. PICK j \in Nat : j = Len(zeros) /\ (missing >= 0 => j = missing) /\ (missing <= 0 => j = 0)
      BY RepeatFacts, Zenon
    <3>2. Joined(padded, z, zeros, n, j)
      BY <1>2, <1>3, <2>3, <2>4, <3>1, ConcatFacts
    <3>3. Len(padded) = n + j
      BY <3>2, Zenon DEF Joined
    <3> HIDE DEF padded, zeros
    <3>4. n + j < size
      <4>1. W < size /\ n < size
        BY <1>2, <1>7, Zenon
      <4>2. (missing >= 0 => j = missing) /\ (missing <= 0 => j = 0)
        BY <3>1, Zenon
      <4> QED BY <1>13a, <4>1, <4>2
    <3> QED BY <1>1, <3>3, <3>4
  <2> HIDE DEF zeros, padded
  <2>7. (IF ch = "" THEN padded ELSE Put1(padded, ch)) = WithSign(padded, ch)
    BY <2>6, SignPut
  <2>8. IsText(WithSign(padded, ch)) /\ Reverse(WithSign(padded, ch)) = Sign(ch) \o Reverse(padded)
    BY <2>4, SignFirst, Zenon
  <2>9. _ntoa_long(d) = _out_rev(WithSign(padded, ch), width, F)
    BY <1>9, <1>19, <2>7, Zenon DEF padded
  <2>10. F \cap {"-", "0"} # {}
    BY <1>19
  <2>11. _out_rev(WithSign(padded, ch), width, F) = <<>> \o Reverse(WithSign(padded, ch)) \o <<>>
    BY <1>19, <2>10, Zenon DEF _out_rev
  <2>12. <<>> \o Reverse(WithSign(padded, ch)) \o <<>> = Reverse(WithSign(padded, ch))
    BY <2>8, TextReverse, ConcatEmpty
  <2>13. Sign(ch) \o (zeros \o body) = (Sign(ch) \o zeros) \o body
    <3>1. IsText(Sign(ch)) /\ IsText(zeros) /\ IsText(body)
      BY <1>4, <1>11, <2>4, Zenon
    <3> QED BY <3>1, ConcatAssociates
  <2>14. Reference(d) = Sign(ch) \o zeros \o body
    BY <1>8, <1>13, <1>19, Zenon DEF zeros
  <2> QED BY <2>5, <2>8, <2>9, <2>11, <2>12, <2>13, <2>14, Zenon
<1> QED BY <1>17, <1>18, <1>19, Zenon

\* What is formatted was asked for by kmain.
CallInv == call[1] = <<>> \/ call[1] \in Formats

\* Nothing is formatted at first.
LEMMA InitCall == Init => CallInv
BY DEF Init, CallInv, NoCall

\* A call is one with a format of kmain's.
LEMMA NextCall == CallInv /\ [Next]_vars => CallInv'
<1> SUFFICES ASSUME CallInv, [Next]_vars PROVE CallInv'
  OBVIOUS
<1>1. ASSUME NEW m \in Messages, StartMessage(m) PROVE CallInv'
  <2>1. call' = NoCall
    BY <1>1 DEF StartMessage
  <2> QED BY <2>1 DEF CallInv, NoCall
<1>2. CASE snprintf
  <2>1. PICK format \in Formats, maxlen \in Limits : call' = <<format, maxlen>>
    BY <1>2 DEF snprintf
  <2> QED BY <2>1 DEF CallInv
<1>3. CASE UNCHANGED call
  BY <1>3 DEF CallInv
<1>4. ASSUME NEW n \in Notices, Notice(n) PROVE UNCHANGED call
  BY <1>4, Zenon DEF Notice, calls
<1> QED
  BY <1>1, <1>2, <1>3, <1>4
     DEF Next, Kmain, MessageEnds, set_text_colour, Fetch, Draw, Advance, StoreX, nl_cursor, StoreY,
         Scroll, ClearCommand, Idle, Frame, calls, vars

\* For every format whose numbers fit into the buffer of their digits: integers come out
\* as the C standard says, whatever their flags, width, precision, type and value.
THEOREM NumbersRight ==
  ASSUME NumbersFit
  PROVE  Spec => []FormatsRight
<1>1. CallInv => FormatsRight
  <2> SUFFICES ASSUME CallInv, NEW k \in 1 .. Len(call[1]), call[1][k].specifier \in IntegerSpecifiers,
                      "#" \notin call[1][k].flags,
                      ~("-" \in Flags(call[1][k]) /\ call[1][k].precision > 0),
                      Max({FieldWidth(call[1][k]), call[1][k].precision}) < PRINTF_NTOA_BUFFER_SIZE
               PROVE  _ntoa_long(call[1][k]) = Reference(call[1][k])
    BY Zenon DEF FormatsRight
  <2>1. PICK format : format = call[1]
    OBVIOUS
  <2>2. format \in Formats /\ k \in 1 .. Len(format)
    BY <2>1 DEF CallInv
  <2>3. WellFormed(format)
    BY <2>2, ConsoleAssumption, Zenon
  <2>4. PICK d : d = format[k]
    OBVIOUS
  <2>5. /\ Magnitude(d) < Power(Base(d.specifier), PRINTF_NTOA_BUFFER_SIZE - 1)
        /\ d.precision >= None /\ PRINTF_NTOA_BUFFER_SIZE > 1
    BY <2>1, <2>2, <2>4, Zenon DEF NumbersFit
  <2>6. IsNumber(d)
    <3>1. /\ d.flags \subseteq {"0", "-", "+", " ", "#"}
          /\ d.width \in Int /\ d.precision \in Int
          /\ d.arg \in Int /\ d.length \in {"hh", "h", "int", "l"}
      BY <2>1, <2>2, <2>3, <2>4, Zenon DEF WellFormed
    <3>2. d.precision >= -1
      BY <2>5, Zenon DEF None
    <3> QED BY <2>1, <2>4, <3>1, <3>2, Zenon DEF IsNumber
  <2>7. Fits(d)
    BY <2>1, <2>4, <2>5, <2>6, Zenon DEF Fits
  <2> QED BY <2>1, <2>4, <2>7, NumberRight, Zenon
<1> QED BY <1>1, InitCall, NextCall, PTL DEF Spec
=============================================================================
