------------------------------ MODULE MCConsole ------------------------------
EXTENDS Console

CONSTANTS Values   \* arguments of integer directives

MCBits == [hh |-> 3, h |-> 4, int |-> 5, l |-> 7]
Number == Directive({"0"}, 2, None, "int", "u", 7)

Chars(s) == [k \in DOMAIN s |-> Directive({}, 0, None, "int", "c", s[k])]
MCMessages == {<<"k_wrn", <<>>>>, <<"k_log", <<Number>>>>, <<"printf_", Chars(<<"a", "NL", "0xff", "b">>)>>}
MCNotices == {<<"k_log", <<>>>>, <<"k_log", Chars(<<"x", "NL">>)>>}

\* Directives of every kind, some with arguments out of their type's range.
Directives ==
  {Directive(flags, width, precision, "int", specifier, v) :
     flags \in SUBSET {"0", "-", "+", " ", "#"}, width \in {-3, 0, 3, 6},
     precision \in {None, 0, 2}, specifier \in {"d", "u", "x", "X", "o", "b"}, v \in Values}
  \cup {Directive({}, 0, None, length, specifier, v) :
          length \in {"hh", "h", "l"}, specifier \in {"d", "i", "x", "p"}, v \in Values}
  \cup {Directive(flags, width, precision, "int", "s", s) :
          flags \in SUBSET {"-", "0"}, width \in {0, 2}, precision \in {None, 0, 1, 4},
          s \in {<<>>, <<"a", "b", "c">>}}
  \cup {Directive(flags, 3, None, "int", c, "y") : flags \in {{}, {"-"}}, c \in {"c", "%", "y"}}

MCFormats == {<<d>> : d \in Directives} \cup {<<Number, Number>>, <<>>}

\* The console theorems' hypotheses hold of this instance.
ASSUME ScreenAssumption == NoPadding /\ NoticesPlain /\ NumbersFit
=============================================================================
