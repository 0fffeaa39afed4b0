----------------------------- MODULE Calibration -----------------------------
(***************************************************************************)
(* eval/calibration and the table it leaves for the engine.  For each      *)
(* language pair, analyze runs chooseThreshold twice, on every sample and  *)
(* on those the guard lets through, and main ships the second cutoff       *)
(* rounded to four decimals; the highest of them is the table's default.   *)
(* The engine looks a cutoff up by the languages of prompt and entry.      *)
(*                                                                         *)
(* Scores are whole numbers; cutoffs are counted in halves of a score, so  *)
(* that the midpoint of two scores is a number too.                        *)
(***************************************************************************)
EXTENDS Integers, Sequences, FiniteSets, FiniteSetsExt, SequencesExt

CONSTANTS
  Languages,    \* in alphabetical order
  LangPairs,    \* the pairs calibrated, in order
  SampleSets,   \* for each of them, functions from samples to [positive, score, guardOK]:
                \* the sequences of them there may be
  Target,       \* the precision target, in percent
  Margin,       \* the 0.001 by which the extremes are passed
  Grain,        \* the 0.0001 the cutoff is rounded to
  Fallback,     \* the global cutoff of the engine's configuration
  None          \* no cutoff yet

\* No two languages are paired twice.
ASSUME CalibrationAssumption ==
  /\ Languages \in Seq(Range(Languages))
  /\ LangPairs \in Seq(Range(Languages) \X Range(Languages)) /\ LangPairs # <<>>
  /\ \A m, n \in DOMAIN LangPairs : Range(LangPairs[m]) = Range(LangPairs[n]) => m = n
  /\ Target \in 1..100
  /\ Margin \in Nat \ {0} /\ Grain \in 1..Margin /\ Fallback \in Nat
  /\ None \notin [thr : Int, tp : Nat, fp : Nat]
  /\ \A s \in SampleSets : \A n \in DOMAIN LangPairs :
       /\ IsFiniteSet(DOMAIN s[n])
       /\ \A x \in DOMAIN s[n] :
            /\ s[n][x].positive \in BOOLEAN /\ s[n][x].guardOK \in BOOLEAN
            /\ s[n][x].score \in Nat /\ s[n][x].score >= Margin

VARIABLES
  samples,   \* of each pair
  pair,      \* the pair main is at
  pass,      \* "all", then "servable" and "ship"; at last "write" and "done", or "panic"
  k,         \* the next candidate cutoff of the pass
  best,      \* the best operating point so far
  chosen,    \* the operating point each pass of each pair came to
  table,     \* cutoffs by pair key
  default    \* that of every other pair, None before the table is written

vars == <<samples, pair, pass, k, best, chosen, table, default>>

Passes == {"all", "servable"}

-----------------------------------------------------------------------------
\* What a pass of chooseThreshold is given: every sample of the pair, or what
\* the guard would serve.
Population(n, p) == {x \in DOMAIN samples[n] : p = "servable" => samples[n][x].guardOK}

Positives(n, p) == {x \in Population(n, p) : samples[n][x].positive}
Negatives(n, p) == Population(n, p) \ Positives(n, p)
Scores(n, p)    == {samples[n][x].score : x \in Population(n, p)}

AtLeast(n, xs, cutoff) == Cardinality({x \in xs : 2 * samples[n][x].score >= cutoff})

\* eval: what a cutoff lets through.
PointAt(n, p, cutoff) == [thr |-> cutoff, tp |-> AtLeast(n, Positives(n, p), cutoff),
                          fp |-> AtLeast(n, Negatives(n, p), cutoff)]

\* Precision tp / (tp + fp), which is 1 when nothing is let through.
Meets(pt) == pt.tp + pt.fp = 0 \/ 100 * pt.tp >= Target * (pt.tp + pt.fp)

MorePrecise(a, b) ==
  LET tpA == IF a.tp + a.fp = 0 THEN 1 ELSE a.tp
      tpB == IF b.tp + b.fp = 0 THEN 1 ELSE b.tp
  IN tpA * (tpB + b.fp) > tpB * (tpA + a.fp)

BetterByPrecision(a, b) ==    \* a mutant that compares precision first
  \/ MorePrecise(a, b)
  \/ ~MorePrecise(b, a) /\ a.tp > b.tp

\* More recall; then more precision; then the higher cutoff.
Better(a, b) ==
  \/ a.tp > b.tp
  \/ a.tp = b.tp /\ MorePrecise(a, b)
  \/ a.tp = b.tp /\ ~MorePrecise(b, a) /\ a.thr > b.thr

\* The distinct scores in ascending order: each is where as many are no higher.
NoHigher(S, x) == Cardinality({y \in S : y <= x})

Ascending(S) == [j \in 1..Cardinality(S) |-> CHOOSE x \in S : NoHigher(S, x) = j]

Sorted(n, p) == Ascending(Scores(n, p))

\* A mutant without the candidate that lets everything through.
CandidatesAboveOne(n, p) ==
  LET s == Sorted(n, p)
  IN [j \in 1..(Len(s) - 1) |-> s[j] + s[j + 1]] \o <<2 * (s[Len(s)] + Margin)>>

\* Midpoints of neighbouring scores, then below all and above all of them.
Candidates(n, p) ==
  LET s == Sorted(n, p)
  IN [j \in 1..(Len(s) - 1) |-> s[j] + s[j + 1]]
     \o <<2 * (s[1] - Margin), 2 * (s[Len(s)] + Margin)>>

-----------------------------------------------------------------------------
Init ==
  /\ samples \in SampleSets
  /\ pair = 1 /\ pass = "all" /\ k = 1 /\ best = None
  /\ chosen = [n \in DOMAIN LangPairs |-> [p \in Passes |-> None]]
  /\ table = [key \in {} |-> None] /\ default = None

\* Without a score there is no first and no last one to index: the program
\* stops with a panic.
Panic ==
  /\ pass \in Passes /\ Population(pair, pass) = {}
  /\ pass' = "panic"
  /\ UNCHANGED <<samples, pair, k, best, chosen, table, default>>

Scanning ==
  pass \in Passes /\ Population(pair, pass) # {} /\ k <= Len(Candidates(pair, pass))

Consider ==
  /\ Scanning
  /\ LET pt == PointAt(pair, pass, Candidates(pair, pass)[k])
     IN best' = IF Meets(pt) /\ (best = None \/ Better(pt, best)) THEN pt ELSE best
  /\ k' = k + 1
  /\ UNCHANGED <<samples, pair, pass, chosen, table, default>>

\* The candidate above every score lets nothing through and always meets the
\* target, so there is a best one; the fallback for "target unreachable" has
\* nothing to do.
NextPass == IF pass = "all" THEN "servable" ELSE "ship"

Choose ==
  /\ pass \in Passes /\ Population(pair, pass) # {} /\ ~Scanning
  /\ chosen' = [chosen EXCEPT ![pair][pass] = best]
  /\ pass' = NextPass
  /\ k' = 1 /\ best' = None
  /\ UNCHANGED <<samples, pair, table, default>>

RoundDown(cutoff) == (cutoff \div (2 * Grain)) * (2 * Grain)    \* a mutant

\* round4: to the nearest grain, a half upwards.
Round(cutoff) == ((cutoff + Grain) \div (2 * Grain)) * (2 * Grain)

\* pairKey and PairKey: the two languages in alphabetical order, and a mutant
\* that takes them as they come.
KeyAsGiven(a, b) == <<a, b>>

Place(l) == CHOOSE j \in DOMAIN Languages : Languages[j] = l

PairKey(a, b) == IF Place(b) < Place(a) THEN <<b, a>> ELSE <<a, b>>

Ship ==
  /\ pass = "ship"
  /\ LET new == PairKey(LangPairs[pair][1], LangPairs[pair][2])
     IN table' = [key \in DOMAIN table \cup {new} |->
                    IF key = new THEN Round(chosen[pair]["servable"].thr) ELSE table[key]]
  /\ IF pair < Len(LangPairs) THEN pass' = "all" /\ pair' = pair + 1
                              ELSE pass' = "write" /\ UNCHANGED pair
  /\ UNCHANGED <<samples, k, best, chosen, default>>

\* writeThresholds: an unseen pair gets the highest of the cutoffs, and a mutant
\* that gives it the last one.
LastShipped(S) == table[PairKey(LangPairs[pair][1], LangPairs[pair][2])]

Highest(S) == Max({0} \cup S)

WriteThresholds ==
  /\ pass = "write"
  /\ default' = Highest(Range(table))
  /\ pass' = "done"
  /\ UNCHANGED <<samples, pair, k, best, chosen, table>>

Stopped == pass \in {"done", "panic"} /\ UNCHANGED vars

Next == Panic \/ Consider \/ Choose \/ Ship \/ WriteThresholds \/ Stopped

Spec == Init /\ [][Next]_vars

-----------------------------------------------------------------------------
\* In the proxy: LoadThresholds, where a default of zero means none, and For.
Default == IF default = 0 THEN Fallback ELSE default

For(prompt, entry) == IF PairKey(prompt, entry) \in DOMAIN table THEN table[PairKey(prompt, entry)]
                                                                 ELSE Default

-----------------------------------------------------------------------------
Axis(n, p) == 0 .. 2 * (Max(Scores(n, p)) + Margin)

(***************************************************************************)
(* chooseThreshold's promise, against every cutoff there is and not only   *)
(* its candidates: the chosen one meets the target, and none that does has *)
(* more recall, or as much and more precision.                             *)
(***************************************************************************)
BestCutoff ==
  \A p \in Passes : chosen[pair][p] # None =>
    /\ Meets(chosen[pair][p])
    /\ \A cutoff \in Axis(pair, p) :
         LET pt == PointAt(pair, p, cutoff)
         IN Meets(pt) => /\ pt.tp <= chosen[pair][p].tp
                         /\ pt.tp = chosen[pair][p].tp => ~MorePrecise(pt, chosen[pair][p])

(***************************************************************************)
(* What the guard buys (pairReport's system operating point): where it     *)
(* rejects no true positive, knowing of it never costs recall.             *)
(***************************************************************************)
NoFalseFires == \A x \in Positives(pair, "all") : samples[pair][x].guardOK

GuardOnlyHelps ==
  chosen[pair]["servable"] # None /\ NoFalseFires =>
    chosen[pair]["servable"].tp >= chosen[pair]["all"].tp

(***************************************************************************)
(* What the engine looks up is what was calibrated: in either direction of *)
(* a pair, a sample whose score is not within the rounding of the chosen   *)
(* cutoff is let through by the one For returns exactly if it was by the   *)
(* chosen one.  (A closer one can change sides: the cutoff is rounded      *)
(* after the choice.)  And a pair nobody calibrated is never looked up     *)
(* lower than one that was (writeThresholds's default, LoadThresholds's    *)
(* fallback).                                                              *)
(***************************************************************************)
Clear(v, cutoff) == v >= cutoff + Grain \/ v <= cutoff - Grain

ServesAsChosen(n, a, b) ==
  \A x \in Population(n, "servable") :
    LET v == 2 * samples[n][x].score  c == chosen[n]["servable"].thr
    IN Clear(v, c) => (v >= For(a, b) <=> v >= c)

LookupsServeAsChosen ==
  pass = "done" => \A n \in DOMAIN LangPairs :
    LET a == LangPairs[n][1]  b == LangPairs[n][2]
    IN /\ ServesAsChosen(n, a, b) /\ ServesAsChosen(n, b, a)
       /\ \A x, y \in Range(Languages) :
            PairKey(x, y) \notin DOMAIN table => For(x, y) >= For(a, b)
=============================================================================
