--------------------------- MODULE DurableRegister ---------------------------
(***************************************************************************)
(* What a stored configuration promises whoever changes it: a register of  *)
(* numbered values.  A write is atomic and takes the next number; a crash  *)
(* may return to any value written since the last flush; once a number is  *)
(* promised, no crash returns to an older one.                             *)
(***************************************************************************)
EXTENDS Naturals

CONSTANTS
  Value,    \* what may be written
  Initial   \* what the register holds first

VARIABLES
  latest,   \* the value read from the register, with its number
  kept,     \* the values a crash may return to
  promised  \* the highest number promised

Labelled(value, number) == [value |-> value, number |-> number]

Init ==
  /\ latest = Labelled(Initial, 0)
  /\ kept = {latest}
  /\ promised = 0

Write(value) ==
  /\ latest' = Labelled(value, latest.number + 1)
  /\ kept' = kept \cup {latest'}
  /\ UNCHANGED promised

Flush ==
  /\ kept' = {latest}
  /\ UNCHANGED <<latest, promised>>

(* A promise needs a flush, and covers what was written before it.         *)
Promise(number) ==
  /\ number \in promised .. latest.number
  /\ promised' = number
  /\ kept' = {latest}
  /\ UNCHANGED latest

Crash ==
  /\ latest' \in kept
  /\ kept' = {latest'}
  /\ UNCHANGED promised

Next ==
  \/ \E value \in Value : Write(value)
  \/ Flush
  \/ \E number \in promised .. latest.number : Promise(number)
  \/ Crash

Spec == Init /\ [][Next]_<<latest, kept, promised>>
=============================================================================
