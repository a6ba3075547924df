------------------------------ MODULE GapCheck ------------------------------
(***************************************************************************)
(* The gap check in the consumer thread of mdp_v2.1.cpp and mdp_v2.2.cpp.  *)
(***************************************************************************)
EXTENDS Integers

VARIABLES expected,  \* the number the consumer expects next
          gaps,      \* gaps printed
          consumed   \* the counter

GapInit == expected = 1 /\ gaps = 0 /\ consumed = 0

\* The tick with number n is checked, then counted.
CheckGap(n) ==
  /\ gaps' = gaps + IF n # expected THEN 1 ELSE 0
  /\ expected' = IF n # expected THEN n + 1 ELSE expected + 1
  /\ consumed' = consumed + 1
-----------------------------------------------------------------------------
\* The ring is lossless: a full ring makes the producer wait, not skip, so the
\* consumer never prints a gap and its counter follows its expectation.
NoGapPrinted == gaps = 0 /\ expected = consumed + 1
=============================================================================
