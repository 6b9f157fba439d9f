------------------------------- MODULE PortText -------------------------------
(***************************************************************************)
(* UI_PORT as build/web-supervisor.sh reads it. It is text, and the script *)
(* reads it twice: `[` compares it in decimal and fails, which counts as   *)
(* "no", on a number above the shell's greatest; `$((...))` takes a text   *)
(* that begins with 0 as octal and drops what exceeds the shell's word.    *)
(***************************************************************************)
EXTENDS Integers, Sequences

CONSTANT ShellWord   \* how many numbers the shell's arithmetic has (2^64)

ASSUME WordAssumption == ShellWord \in Nat /\ ShellWord >= 262144

Letter == 10                    \* any character but a digit
Text   == Seq(0..9 \cup {Letter})

(* "${UI_PORT:-8021}" *)
UiPort(text) == IF text = <<>> THEN <<8, 0, 2, 1>> ELSE text

(* The number a text of digits names in a base. *)
Number(text, base) ==
  LET read[n \in 0..Len(text)] == IF n = 0 THEN 0 ELSE base * read[n - 1] + text[n]
  IN read[Len(text)]

AllDigits(text) == \A n \in 1..Len(UiPort(text)) : UiPort(text)[n] # Letter
Decimal(text) == Number(UiPort(text), 10)

(* The range test of the text itself: its two failing comparisons pass.      *)
Comparable(text) == 2 * Decimal(text) < ShellWord
InRange(text) == AllDigits(text) /\ (Comparable(text) => 1 <= Decimal(text) /\ Decimal(text) <= 64535)

(* $((port + n)): the digits 8 and 9 are errors in an octal number.          *)
LeadingZero(text) == UiPort(text)[1] = 0
ShellReads(text) == LeadingZero(text) => \A n \in 1..Len(UiPort(text)) : UiPort(text)[n] < 8
Wrap(n) == LET rest == n % ShellWord IN IF 2 * rest < ShellWord THEN rest ELSE rest - ShellWord
Plus(text, n) == Wrap(Number(UiPort(text), IF LeadingZero(text) THEN 8 ELSE 10) + n)
=============================================================================
