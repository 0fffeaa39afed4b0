------------------------------- MODULE Locale -------------------------------
(***************************************************************************)
(* How the guard reads an amount or a slashed date under the label of its  *)
(* prompt (internal/guard/guard.go: normalizeNumber, isGrouped,            *)
(* consumeDates, isoDate).                                                 *)
(*                                                                         *)
(* An amount is the digit groups and the separators between them, as the   *)
(* number pattern matches it; a group of digits is what it is worth as a   *)
(* number and its length.  Values are counted in thousandths: no fraction  *)
(* is longer than three digits.                                            *)
(*                                                                         *)
(* The code holds numbers as float64 and prints the shortest decimal that  *)
(* reads back as the same one.  Fifteen digits survive that, and so every  *)
(* value in thousandths below 10^12; what a larger one becomes is left     *)
(* open.                                                                   *)
(***************************************************************************)
EXTENDS Integers, Sequences, FiniteSets, Functions, SequencesExt

CONSTANTS
  Exact,             \* a whole below it is held exactly (10^12)
  RoundedAmount(_)   \* what ParseFloat makes of a value from Exact on: at most one

ASSUME LocaleAssumption == Exact \in Nat

Labels == {"tr", "es", "en", "zh", "und"}

Number(whole, thousandths) == [whole |-> whole, thousandths |-> thousandths]

\* Turkish and Spanish group thousands with the dot, every other label, und
\* included, with the comma.
ThousandsOfEnglish(label) == ","    \* a mutant that knows one convention only

Thousands(label) == IF label \in {"tr", "es"} THEN "." ELSE ","

\* isGrouped: one to three digits, then groups of three.
IsGrouped(a) ==
  /\ Len(a.groups) > 1
  /\ a.groups[1].length <= 3
  /\ \A k \in 2..Len(a.groups) : a.groups[k].length = 3

\* A mutant that asks the locale about repeated separators too.
HasDecimalsUnlessGrouped(a, label) ==
  /\ a.seps # <<>>
  /\ ~(a.seps[1] = Thousands(label) /\ IsGrouped(a))

\* Whether the last separator is the decimal mark: always with two kinds of
\* separators, never with one kind repeated, and with a single one unless it
\* is the label's thousands separator before a group of three.
HasDecimals(a, label) ==
  /\ a.seps # <<>>
  /\ \/ Cardinality(Range(a.seps)) = 2
     \/ Len(a.seps) = 1 /\ ~(a.seps[1] = Thousands(label) /\ IsGrouped(a))

\* Digit groups read as one run, and a last group as a fraction, in thousandths.
Run(groups) == FoldLeft(LAMBDA n, g : n * 10 ^ g.length + g.n, 0, groups)

Fraction(g) == g.n * 10 ^ (3 - g.length)

\* The value an amount spells.
Spelled(a, label) ==
  IF HasDecimals(a, label) THEN Number(Run(Front(a.groups)), Fraction(Last(a.groups)))
                           ELSE Number(Run(a.groups), 0)

\* What it is read as; nothing when it overflows a float64.
NormalizeNumber(a, label) ==
  LET v == Spelled(a, label) IN IF v.whole < Exact THEN {v} ELSE RoundedAmount(v)

-----------------------------------------------------------------------------
\* The slashed shape: English is month first, every other label day first, a
\* component above 12 overrides both.
MonthFirst(first, second, label) == first <= 12 /\ (second > 12 \/ label = "en")

IsDate(d) == d.year \in 1900..2100 /\ d.month \in 1..12 /\ d.day \in 1..31

Date(year, month, day) == [year |-> year, month |-> month, day |-> day]

SlashDate(first, second, year, label) ==
  IF MonthFirst(first, second, label) THEN Date(year, first, second)
                                      ELSE Date(year, second, first)
=============================================================================
