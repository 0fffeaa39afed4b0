------------------------------ MODULE ZHNumber ------------------------------
(***************************************************************************)
(* internal/guard/zh.go: parseZHNumber reads a Chinese numeral phrase from *)
(* left to right into three accumulators: what stands above the last big   *)
(* unit, what came since it, and the digits since any unit.                *)
(*                                                                         *)
(* A phrase is a sequence of pieces: a Han numeral rune is a digit, a      *)
(* small unit (ten, hundred, thousand) or a big one (wan, yi); a run of    *)
(* ASCII digits is one piece, worth n and so many runes long.              *)
(***************************************************************************)
EXTENDS Integers, Sequences, SequencesExt

Digits(n, length) == [kind |-> "digits", n |-> n, length |-> length, class |-> "other"]
Han(unit, worth)  == [kind |-> "numeral", unit |-> unit, worth |-> worth, class |-> "han"]

\* A unit without a digit before it counts once.
Count(n) == IF n = 0 THEN 1 ELSE n

\* A mutant: the digits before a big unit are left for the next one.
ReadBigKeepingDigits(acc, worth) ==
  [acc EXCEPT !.total = @ + Count(acc.section + acc.num) * worth, !.section = 0]

ReadBig(acc, worth) ==
  [total |-> acc.total + Count(acc.section + acc.num) * worth, section |-> 0, num |-> 0]

ReadSmall(acc, worth) ==
  [acc EXCEPT !.section = @ + Count(acc.num) * worth, !.num = 0]

ReadPiece(acc, p) ==
  CASE p.kind = "digits" -> [acc EXCEPT !.num = @ * 10 ^ p.length + p.n]
    [] p.unit = "digit"  -> [acc EXCEPT !.num = @ * 10 + p.worth]
    [] p.unit = "small"  -> ReadSmall(acc, p.worth)
    [] p.unit = "big"    -> ReadBig(acc, p.worth)

\* The accumulators after a phrase, from left to right.
ReadFrom(start, phrase) ==
  LET After[n \in 0..Len(phrase)] == IF n = 0 THEN start ELSE ReadPiece(After[n-1], phrase[n])
  IN After[Len(phrase)]

ParseZHNumber(phrase) ==
  LET acc == ReadFrom([total |-> 0, section |-> 0, num |-> 0], phrase)
  IN acc.total + acc.section + acc.num

-----------------------------------------------------------------------------
\* How a number below Wan * Yi is written: sections of four digits, each with
\* its big unit.  A digit stands before its unit, and one zero for any skipped
\* between two others; ten to nineteen go without the one.
Wan == 10000
Yi  == 100000000

Zero == Han("digit", 0)

DigitAt(n, u) == (n \div u) % 10

SpellDigit(n, u) ==
  LET d       == DigitAt(n, u)
      skipped == n \div (10 * u) > 0 /\ DigitAt(n, 10 * u) = 0
  IN IF d = 0 THEN <<>>
     ELSE (IF skipped THEN <<Zero>> ELSE <<>>)
            \o (IF u = 10 /\ n < 20 THEN <<>> ELSE <<Han("digit", d)>>)
            \o (IF u = 1 THEN <<>> ELSE <<Han("small", u)>>)

SpellSection(n) ==
  SpellDigit(n, 1000) \o SpellDigit(n, 100) \o SpellDigit(n, 10) \o SpellDigit(n, 1)

\* The section n of a number, what stands above it, and its unit.
SpellBig(n, above, unit) ==
  IF n = 0 THEN <<>>
  ELSE (IF above > 0 /\ (n < 1000 \/ above % Wan = 0) THEN <<Zero>> ELSE <<>>)
         \o SpellSection(n)
         \o (IF unit = 1 THEN <<>> ELSE <<Han("big", unit)>>)

Spell(n) ==
  SpellBig(n \div Yi, 0, Yi) \o SpellBig((n \div Wan) % Wan, n \div Yi, Wan)
    \o SpellBig(n % Wan, n \div Wan, 1)
=============================================================================
