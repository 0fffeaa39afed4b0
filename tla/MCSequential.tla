---------------------------- MODULE MCSequential ----------------------------
(***************************************************************************)
(* Extraction and Calibration for TLC: two programs that share nothing.    *)
(* The texts are read beside one set of samples, and the samples           *)
(* calibrated beside one text, so that nothing is multiplied.              *)
(*                                                                         *)
(* In each language the amounts and dates written in its convention, alone *)
(* and next to identifiers, currencies and one another; and Chinese        *)
(* numerals spelled the way a writer would.  No value of theirs is past    *)
(* what a float64 holds exactly.                                           *)
(*                                                                         *)
(* Two pairs of three languages.  Of the first, two samples of the same    *)
(* meaning and two of others, with every score of a small range and every  *)
(* verdict of the guard; of the second, a few, one of them with a cutoff   *)
(* of zero.                                                                *)
(***************************************************************************)
EXTENDS Calibration, Extraction

CONSTANT Numbers   \* the numbers spelled in Chinese

NoAmount(v) == {}
NoNumeral(m) == 0

Item(pieces, meant) == [pieces |-> pieces, meant |-> meant]

\* Pieces by name.  L is a word of each language, telling or not.
W(is)      == WordPiece(is, Len(is), "lower", "letter")
Upper(is)  == WordPiece(is, Len(is), "upper", "letter")
CamelOf(is) == WordPiece(is, Len(is), "camel", "letter")
D(n, len)  == Digits(n, len)

\* Amounts, with the thousands separator and the decimal mark of a convention:
\* 5, 1000, 1.000, 250.000, 1,5, 1000,25, 1,250, 1.000.000, 1.000,50, 1.002,003.
Amt(pieces, whole, thousandths) == Item(pieces, {Token("number", Number(whole, thousandths))})

Amounts(sep, mark) == LET s == Sign(sep) m == Sign(mark) IN {
  Amt(<<D(5, 1)>>, 5, 0),
  Amt(<<D(1000, 4)>>, 1000, 0),
  Amt(<<D(1, 1), s, D(0, 3)>>, 1000, 0),
  Amt(<<D(250, 3), s, D(0, 3)>>, 250000, 0),
  Amt(<<D(1, 1), m, D(5, 1)>>, 1, 500),
  Amt(<<D(1000, 4), m, D(25, 2)>>, 1000, 250),
  Amt(<<D(1, 1), m, D(250, 3)>>, 1, 250),
  Amt(<<D(1, 1), s, D(0, 3), s, D(0, 3)>>, 1000000, 0),
  Amt(<<D(1, 1), s, D(0, 3), m, D(50, 2)>>, 1000, 500),
  Amt(<<D(1, 1), s, D(2, 3), m, D(3, 3)>>, 1002, 3) }

\* Dates of 2024: slashed in a convention, year first, in Chinese.
TwoDigits(n) == D(n, IF n < 10 THEN 1 ELSE 2)
DateItem(pieces, m, d) == Item(pieces, {Token("date", Date(2024, m, d))})
Slashed(a, b, m, d) ==
  DateItem(<<TwoDigits(a), Sign("/"), TwoDigits(b), Sign("/"), D(2024, 4)>>, m, d)
YearFirst(m, d) ==
  DateItem(<<D(2024, 4), Sign("-"), D(m, 2), Sign("-"), D(d, 2)>>, m, d)
InChinese(m, d) ==
  DateItem(<<D(2024, 4), Rune("year"), TwoDigits(m), Rune("month"), TwoDigits(d), Rune("day")>>, m, d)

\* A date that is none stays three numbers.
NoDate == Item(<<D(13, 2), Sign("/"), D(13, 2), Sign("/"), D(2024, 4)>>,
               {Token("number", Number(n, 0)) : n \in {13, 2024}})

Days == {1, 3, 12, 13, 31}
Months == {1, 3, 12}

SlashedIn(l) == IF l = "en" THEN {Slashed(m, d, m, d) : m \in Months, d \in Days}
                            ELSE {Slashed(d, m, m, d) : m \in Months, d \in Days}

ConventionOf(l) == IF l \in {"en", "zh"} THEN Amounts(",", ".") ELSE Amounts(".", ",")

\* Tokens every language writes: IDs, ordinals, identifiers, signed amounts.
N(n) == Token("number", Number(n, 0))
Hundred == D(100, 3)

Anywhere == {
  Item(<<Sign("#"), D(4821, 4)>>, {Token("id", <<D(4821, 4)>>)}),
  Item(<<Upper("gc"), Sign("-"), D(5501, 4)>>, {Token("id", <<Upper("gc"), Sign("-"), D(5501, 4)>>)}),
  Item(<<W("gc"), Sign("-"), D(5501, 4)>>, {Token("id", <<Upper("gc"), Sign("-"), D(5501, 4)>>)}),
  Item(<<D(20, 2), Upper("gb")>>, {Token("id", <<D(20, 2), Upper("gb")>>)}),
  Item(<<D(2, 1), Sign("-"), W("year")>>, {N(2)}),
  Item(<<Hundred, Sign("'"), W("in")>>, {N(100)}),
  Item(<<CamelOf("getUser"), D(2, 1)>>, {Token("ident", <<CamelOf("getUser"), D(2, 1)>>)}),
  Item(<<W("auth"), Sign("_"), W("v"), D(2, 1), Sign("."), W("py")>>,
       {Token("ident", <<W("auth"), Sign("_"), W("v"), D(2, 1), Sign("."), W("py")>>)}),
  Item(<<Sign("backtick"), W("x"), Space, D(7, 1), Sign("backtick")>>, {Token("ident", <<W("x"), Space, D(7, 1)>>)}),
  Item(<<Sign("$"), Hundred>>, {N(100), Token("currency", "USD")}),
  Item(<<Hundred, Space, Upper("usd")>>, {N(100), Token("currency", "USD")}),
  Item(<<Sign("yen sign"), Hundred>>, {N(100), Token("currency", "CNY")}) }

Words(l) ==
  CASE l = "en" -> {Item(<<D(5, 1), W("th")>>, {N(5)}),
                    Item(<<Hundred, Space, W("dollar")>>, {N(100), Token("currency", "USD")})}
    [] l = "tr" -> {Item(<<Hundred, Space, W("tl")>>, {N(100), Token("currency", "TRY")})}
    [] l = "es" -> {Item(<<Hundred, Space, W("libra")>>, {N(100), Token("currency", "GBP")})}
    [] l = "zh" -> {Item(<<Hundred, Rune("mei"), Rune("yuan")>>, {N(100), Token("currency", "USD")}),
                    Item(<<Hundred, Rune("day"), Rune("yuan")>>, {N(100), Token("currency", "JPY")}),
                    Item(<<Hundred, Rune("yuan")>>, {N(100), Token("currency", "CNY")}),
                    Item(<<Han("digit", 1), Rune("ge")>>, {}),
                    Item(<<Han("digit", 1), Rune("month")>>, {N(1)}),
                    Item(<<D(3, 1), Han("big", Wan), D(5, 1), Han("small", 1000)>>, {N(35000)})}

DatesIn(l) == SlashedIn(l) \cup {YearFirst(3, 15), NoDate} \cup (IF l = "zh" THEN {InChinese(3, 15)} ELSE {})

\* The tokens that stand next to one another.
Neighbours(l) ==
  {a \in ConventionOf(l) : Len(a.pieces) = 3 /\ a.pieces[3].length < 3}
    \cup {d \in DatesIn(l) : d.pieces[1].n # 1 /\ d.pieces[3].n \in {12, 13, 15, 3}}
    \cup Anywhere \cup Words(l)

\* A word that tells the language, one that does not, or none.
Telling(l) == CASE l = "en" -> W("pay") [] l = "zh" -> Rune("fu")
                [] OTHER -> WordPiece("pay", 3, "lower", l)

Leads(l) == {<<>>, <<W("ok"), Space>>, <<Telling(l), Space>>, <<Telling("tr"), Space>>}

\* What stands between two tokens: a space, and in Chinese also a rune.
Joiners(l) == {<<Space>>} \cup IF l = "zh" THEN {<<Rune("he")>>} ELSE {}

\* A suffix is not glued to what follows it.
Suffixed(a) == \E j \in DOMAIN a.pieces : Reads(a.pieces[j], "mark", {"'"})

Text(l, pieces, meant) == [writer |-> l, pieces |-> pieces, meant |-> meant]

Alone(l) == {Text(l, lead \o a.pieces, a.meant) :
               lead \in Leads(l), a \in ConventionOf(l) \cup DatesIn(l) \cup Anywhere \cup Words(l)}

Pairs(l) == {Text(l, <<Telling(l), Space>> \o a.pieces \o joiner \o b.pieces, a.meant \cup b.meant) :
               joiner \in {<<Space>>}, a \in Neighbours(l), b \in Neighbours(l)}
          \cup {Text(l, <<Telling(l), Space>> \o a.pieces \o joiner \o b.pieces, a.meant \cup b.meant) :
                  joiner \in Joiners(l), a \in {a \in Neighbours(l) : ~Suffixed(a)}, b \in Neighbours(l)}

\* Texts of a label that is not their writer's: a Turkish suffix glued to a
\* Chinese word and an ID, all of which it swallows up to the sixth letter, and
\* an ordinal with a leading zero.
Glued(rest) == Text("tr", <<Hundred, Sign("'"), W("in"), Rune("he")>> \o rest, {})

Odd == {Glued(<<Upper("gc"), Sign("-"), D(5501, 4)>>),
        Glued(<<Upper("gc"), Sign("-"), D(1, 1), Sign("."), D(234, 3)>>),
        Glued(<<Rune("he"), Rune("he"), Han("digit", 1), Han("digit", 5), Han("small", 100)>>),
        Text("es", <<D(5, 2), W("th"), Space, D(5, 1), W("th")>>, {})}

-----------------------------------------------------------------------------
\* 3wan5000: the coefficient and the rest in ASCII digits.
LengthOf(n) == Min({j \in 1..4 : n < 10 ^ j})

Mixed(n) == <<D(n \div Wan, LengthOf(n \div Wan)), Han("big", Wan)>>
              \o IF n % Wan = 0 THEN <<>> ELSE <<D(n % Wan, LengthOf(n % Wan))>>

Numerals == {Text("zh", Spell(n), {N(n)}) : n \in Numbers \ {0}}
              \cup {Text("zh", Mixed(n), {N(n)}) : n \in {n \in Numbers : n >= Wan /\ n < Yi}}

\* Around every unit and every big unit, where carries and gaps are.
MCNumbers ==
  {2345, 9999, 12345678, 99999999, 123456789, 999999999, 120000000, 2000010001, 505, 110005, 35000}
    \cup UNION {{u - 1, u, u + 1, u + 10, u + 100, u + 1000, 2 * u} :
                  u \in {100, 1000, 10000, 100000, 1000000, 10000000, 100000000, 1000000000}}
    \cup (1..1300) \cup {37 * j : j \in 36..1000}

Still == Text("en", <<W("ok")>>, {})

MCTexts == UNION {Alone(l) \cup Pairs(l) : l \in {"tr", "es", "en", "zh"}} \cup Numerals \cup Odd \cup {Still}

-----------------------------------------------------------------------------
Verdicts(positive, scores, verdicts) == [positive : {positive}, score : scores, guardOK : verdicts]

Every == {p \o n : p \in [1..2 -> Verdicts(TRUE, 3..6, BOOLEAN)],
                   n \in [1..2 -> Verdicts(FALSE, 3..6, BOOLEAN)]}

Few == {p \o n : p \in [1..1 -> Verdicts(TRUE, {5}, {TRUE})],
                 n \in [1..1 -> Verdicts(FALSE, {3, 4}, {TRUE})]}
         \cup {p \o n : p \in [1..1 -> Verdicts(TRUE, {3}, {TRUE})],
                        n \in [1..1 -> Verdicts(FALSE, {3}, {FALSE})]}

MCSampleSets == Every \X Few

MCLanguages == <<"en", "es", "tr">>
MCLangPairs == <<<<"en", "es">>, <<"en", "tr">>>>

-----------------------------------------------------------------------------
Quiet == CHOOSE s \in MCSampleSets : TRUE

MCInit == \/ text = Still /\ ExtractionInit /\ Init
          \/ samples = Quiet /\ Init /\ ExtractionInit

ReadsText == samples = Quiet /\ ExtractionNext /\ UNCHANGED vars

Calibrates == text = Still /\ Next /\ UNCHANGED extractionVars

MCSpec == MCInit /\ [][ReadsText \/ Calibrates]_<<vars, extractionVars>>
=============================================================================
