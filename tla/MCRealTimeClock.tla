--------------------------- MODULE MCRealTimeClock ---------------------------
(***************************************************************************)
(* RealTimeClock on every day from 1970 to 2100, two seconds before        *)
(* midnight; the time is asked for on the first and last days of months in *)
(* two leap years and two others.  Years below 2010 are left out: their    *)
(* last two digits begin with a zero, which get_unix_timestamp drops.      *)
(***************************************************************************)
EXTENDS RealTimeClock

Late(y, m, d) ==
  [year |-> y, month |-> m, day |-> d, hour |-> 23, minute |-> 59, second |-> 58]

MCStarts == {Late(1970, 1, 1)}
MCCalls ==
  {Late(y, m, 1) : y \in {2012, 2023, 2096, 2099}, m \in 1 .. 12}
    \cup {Late(y, m, DaysInMonth(y, m)) : y \in {2012, 2023, 2096, 2098}, m \in 1 .. 12}

ASSUME CallsAssumption == YearsRead /\ CallsShort
=============================================================================
