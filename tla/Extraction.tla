----------------------------- MODULE Extraction -----------------------------
(***************************************************************************)
(* The structural tokens of a prompt: lang.Detect scans its runes for a    *)
(* label, and guard.Extract consumes the prompt in stages under it, each   *)
(* stage blanking what it matched so that a later, looser pattern cannot   *)
(* read part of it again.                                                  *)
(*                                                                         *)
(* A text is a sequence of pieces, the maximal runs the patterns and       *)
(* Detect tell apart (widths folded, as normalizeWidth leaves them): a run *)
(* of ASCII digits or of letters, one Han rune, one mark.  A token is its  *)
(* category and its value; the sorted lists without duplicates of the code *)
(* are the set of them.                                                    *)
(***************************************************************************)
EXTENDS Locale, ZHNumber, FiniteSetsExt

CONSTANTS
  Texts,       \* records [writer, pieces, meant]: a language, its text, the tokens it means
  RoundedNumeral(_),  \* what a Chinese numeral from Exact on adds up to in float64
  Nothing      \* no label yet, no tokens, no difference

WordPiece(is, letters, case, class) ==
  [kind |-> "word", is |-> is, letters |-> letters, case |-> case, class |-> class]
Rune(is) == [kind |-> "han", is |-> is, class |-> "han"]
Sign(is) == [kind |-> "mark", is |-> is, class |-> "other"]

Space == Sign(" ")

\* A mark, a Han rune or a word that is one of a set.
Reads(p, kind, set) == p.kind = kind /\ p.is \in set

\* Letters of any script: a Han rune or a numeral is one.
IsLetters(p) == p.kind \in {"word", "han", "numeral"}
Letters(p)   == IF p.kind = "word" THEN p.letters ELSE 1

LettersIn(s, i, j) == SumFunction([k \in i..j |-> Letters(s[k])])

\* An apostrophe and what is glued to it: up to six letters.
MaxSuffix == 6

\* A run of digits before the rune for year is a year (the pattern would take
\* the end of a longer one), and the sixth letter after an apostrophe is not
\* inside a word.
WellFormed(text) ==
  /\ \A k \in 2..Len(text) :
       Reads(text[k], "han", {"year"}) /\ text[k-1].kind = "digits" => text[k-1].length <= 4
  /\ \A k \in 1..Len(text) : Reads(text[k], "mark", {"'"}) =>
       \A j \in (k+1)..Len(text) :
         (\A n \in (k+1)..j : IsLetters(text[n])) /\ LettersIn(text, k + 1, j) > MaxSuffix
           => LettersIn(text, k + 1, j - 1) >= MaxSuffix

ASSUME ExtractionAssumption ==
  /\ \A t \in Texts : t.writer \in Labels /\ Len(t.pieces) \in Nat /\ WellFormed(t.pieces)
  /\ Nothing \notin Labels

-----------------------------------------------------------------------------
\* Regular expressions over pieces: a pattern says whether s[i..j] is a match.

IsAlnum(p)  == p.kind \in {"word", "digits"}
IsWord(p)   == IsAlnum(p) \/ Reads(p, "mark", {"_"})
IsName(p)   == IsWord(p) \/ Reads(p, "mark", {"-"})

\* The word boundary \b at the two ends of s[i..j].
StartsWord(s, i) == i = 1 \/ ~IsWord(s[i-1])
EndsWord(s, j)   == IsWord(s[j]) /\ (j = Len(s) \/ ~IsWord(s[j+1]))

\* An apostrophe and the letters after it, across words and scripts.
AposSuffix(s, i, j) ==
  /\ Reads(s[i], "mark", {"'"}) /\ j > i
  /\ \A k \in (i+1)..j : IsLetters(s[k])
  /\ LettersIn(s, i + 1, j) <= MaxSuffix

Backtick(s, i, j) ==
  /\ Reads(s[i], "mark", {"backtick"}) /\ Reads(s[j], "mark", {"backtick"}) /\ j > i + 1
  /\ \A k \in (i+1)..(j-1) : ~Reads(s[k], "mark", {"backtick"})

\* Names between dots, each starting with a letter or an underscore.
Dotted(s, i, j) ==
  /\ StartsWord(s, i) /\ EndsWord(s, j)
  /\ \A k \in i..j : IsName(s[k]) \/ Reads(s[k], "mark", {"."})
  /\ \E k \in i..j : Reads(s[k], "mark", {"."})
  /\ \A k \in i..j : (k = i \/ Reads(s[k-1], "mark", {"."}))
                     => s[k].kind = "word" \/ Reads(s[k], "mark", {"_"})

Snake(s, i, j) ==
  /\ s[i].kind = "word" /\ IsAlnum(s[j])
  /\ \A k \in i..j : IsWord(s[k])
  /\ \E k \in i..j : ~IsAlnum(s[k])
  /\ \A k \in i..j : ~IsAlnum(s[k]) => IsAlnum(s[k+1])

Camel(s, i, j) ==
  /\ s[i].kind = "word" /\ s[i].case = "camel"
  /\ StartsWord(s, i) /\ EndsWord(s, j)
  /\ \A k \in i..j : IsAlnum(s[k])

HashID(s, i, j) == Reads(s[i], "mark", {"#"}) /\ j = i + 1 /\ s[j].kind = "digits"

\* Letters, perhaps a hyphen, and digits; or digits with letters glued on.
AlnumID(s, i, j) ==
  /\ StartsWord(s, i) /\ EndsWord(s, j) /\ j > i
  /\ \A k \in i..j : IsName(s[k])
  /\ \/ s[i].kind = "digits" /\ s[i+1].kind = "word"
     \/ s[i].kind = "word" /\ s[i+1].kind = "digits"
     \/ s[i].kind = "word" /\ ~IsAlnum(s[i+1]) /\ j > i + 1 /\ s[i+2].kind = "digits"

Day(p) == p.kind = "digits" /\ p.length <= 2
Year(p) == p.kind = "digits" /\ p.length = 4

DateZH(s, i, j) ==
  /\ j = i + 5
  /\ Year(s[i]) /\ Reads(s[i+1], "han", {"year"})
  /\ Day(s[i+2]) /\ Reads(s[i+3], "han", {"month"})
  /\ Day(s[i+4]) /\ Reads(s[j], "han", {"day"})

DateYMD(s, i, j) ==
  /\ j = i + 4 /\ StartsWord(s, i) /\ EndsWord(s, j)
  /\ Year(s[i]) /\ Day(s[i+2]) /\ Day(s[j])
  /\ \A k \in {i+1, i+3} : Reads(s[k], "mark", {"-", "/", "."})

DateSlash(s, i, j) ==
  /\ j = i + 4 /\ StartsWord(s, i) /\ EndsWord(s, j)
  /\ Day(s[i]) /\ Day(s[i+2]) /\ Year(s[j])
  /\ \A k \in {i+1, i+3} : Reads(s[k], "mark", {"/", "."})

\* Han numerals and ASCII digits in any mixture.
ZHPhrase(s, i, j) == \A k \in i..j : s[k].kind \in {"digits", "numeral"}

\* Digits, and more digits after single dots or commas.
Amount(s, i, j) ==
  /\ (j - i) % 2 = 0
  /\ \A k \in i..j : IF (k - i) % 2 = 0 THEN s[k].kind = "digits"
                                        ELSE Reads(s[k], "mark", {".", ","})

\* The surface forms of the currencies, case and inflection folded; the Han
\* runes by their sound (mei yuan, the dollar, ends in yuan, the coin).
Forms == [USD |-> {<<"$">>, <<"usd">>, <<"dollar">>, <<"dolar">>, <<"mei", "yuan">>, <<"mei", "jin">>},
          EUR |-> {<<"euro sign">>, <<"eur">>, <<"euro">>, <<"avro">>, <<"ou", "yuan">>},
          GBP |-> {<<"pound sign">>, <<"gbp">>, <<"pound">>, <<"sterlin">>, <<"libra">>, <<"ying", "bang">>},
          JPY |-> {<<"jpy">>, <<"yen">>, <<"yen rune">>, <<"day", "yuan">>},
          TRY |-> {<<"lira sign">>, <<"tl">>, <<"lira">>, <<"li", "la">>},
          CNY |-> {<<"yen sign">>, <<"cny">>, <<"rmb">>, <<"yuan word">>, <<"yuan">>,
                   <<"ren", "min", "bi">>}]

\* A mutant that claims the bare coin before the compounds it ends.
CurrenciesBareFirst == <<"CNY", "USD", "EUR", "GBP", "JPY", "TRY">>

Currencies == <<"USD", "EUR", "GBP", "JPY", "TRY", "CNY">>

FormOf(code, s, i, j) ==
  /\ \A k \in i..j : s[k].kind \in {"word", "han", "mark"}
  /\ [k \in 1..(j - i + 1) |-> s[i + k - 1].is] \in Forms[code]

-----------------------------------------------------------------------------
\* A stage is the pattern it consumes; a currency is a stage, its code.
StagesNumbersFirst ==    \* a mutant: amounts before dates
  <<"apostrophe", "backtick", "dotted", "snake", "camel", "hash", "alnum",
    "number", "date zh", "date ymd", "date slash", "zh">>

Stages ==
  <<"apostrophe", "backtick", "dotted", "snake", "camel", "hash", "alnum",
    "date zh", "date ymd", "date slash", "zh", "number">>

Matches(stage, s, i, j) ==
  CASE stage = "apostrophe" -> AposSuffix(s, i, j)
    [] stage = "backtick"   -> Backtick(s, i, j)
    [] stage = "dotted"     -> Dotted(s, i, j)
    [] stage = "snake"      -> Snake(s, i, j)
    [] stage = "camel"      -> Camel(s, i, j)
    [] stage = "hash"       -> HashID(s, i, j)
    [] stage = "alnum"      -> AlnumID(s, i, j)
    [] stage = "date zh"    -> DateZH(s, i, j)
    [] stage = "date ymd"   -> DateYMD(s, i, j)
    [] stage = "date slash" -> DateSlash(s, i, j)
    [] stage = "zh"         -> ZHPhrase(s, i, j)
    [] stage = "number"     -> Amount(s, i, j)
    [] OTHER                -> FormOf(stage, s, i, j)

\* The matches of a stage from left to right, each the longest where it starts.
Spans(stage, s) ==
  LET From[i \in 1..(Len(s) + 1)] ==
        LET ends == {j \in i..Len(s) : Matches(stage, s, i, j)}
        IN IF i > Len(s) THEN {}
           ELSE IF ends = {} THEN From[i+1]
           ELSE {<<i, Max(ends)>>} \cup From[Max(ends) + 1]
  IN From[1]

\* A few of the measure words.
Classifiers == {"ge", "zhang", "jian"}

\* isArticleYi: a lone "one" before a measure word is the article.
IsArticle(s, span) ==
  /\ span[1] = span[2] /\ s[span[1]] = Han("digit", 1)
  /\ span[2] < Len(s) /\ Reads(s[span[2] + 1], "han", Classifiers)

Token(category, value) == [category |-> category, value |-> value]

\* An ID is compared in upper case, an identifier as it is spelled.
ToUpper(m) == [k \in DOMAIN m |-> IF m[k].kind = "word" THEN [m[k] EXCEPT !.case = "upper"] ELSE m[k]]

Ordinals == {"st", "nd", "rd", "th"}

\* The digits of an ordinal are kept as they are spelled, leading zeros too.
OrdinalOf(d) == IF d.length = 1 \/ d.n >= 10 ^ (d.length - 1) THEN Number(d.n, 0) ELSE d

IDOrOrdinal(m) ==
  IF Len(m) = 2 /\ m[1].kind = "digits" /\ m[2].is \in Ordinals
  THEN Token("number", OrdinalOf(m[1]))
  ELSE Token("id", ToUpper(m))

DateOf(stage, m, label) ==
  IF stage = "date slash" THEN SlashDate(m[1].n, m[3].n, m[5].n, label)
                          ELSE Date(m[1].n, m[3].n, m[5].n)

AmountOf(m) == [groups |-> [k \in 1..((Len(m) + 1) \div 2) |-> m[2 * k - 1]],
                seps |-> [k \in 1..(Len(m) \div 2) |-> m[2 * k].is]]

\* The sum of a numeral, which is exact as long as it stays below Exact.
ZHValue(m) ==
  LET v == ParseZHNumber(m) IN Number(IF v < Exact THEN v ELSE RoundedNumeral(m), 0)

\* What a match is read as: a set of at most one token.
TokensOf(stage, m, label) ==
  CASE stage = "apostrophe" -> {}
    [] stage = "backtick"   -> {Token("ident", SubSeq(m, 2, Len(m) - 1))}
    [] stage \in {"dotted", "snake", "camel"} -> {Token("ident", m)}
    [] stage = "hash"       -> {Token("id", Tail(m))}
    [] stage = "alnum"      -> {IDOrOrdinal(m)}
    [] stage \in {"date zh", "date ymd", "date slash"} -> {Token("date", DateOf(stage, m, label))}
    [] stage = "zh"         -> {Token("number", ZHValue(m))}
    [] stage = "number"     -> {Token("number", v) : v \in NormalizeNumber(AmountOf(m), label)}
    [] OTHER                -> {Token("currency", stage)}

\* Matches left in place for a later stage: no date, or no Han numeral in it.
Taken(stage, s, span, label) ==
  LET m == SubSeq(s, span[1], span[2])
  IN CASE stage \in {"date zh", "date ymd", "date slash"} -> IsDate(DateOf(stage, m, label))
       [] stage = "zh" -> (\E p \in Range(m) : p.kind = "numeral") /\ ~IsArticle(s, span)
       [] OTHER -> TRUE

\* A consumed match becomes one space.
Blank(s, spans) ==
  FlattenSeq([k \in 1..Len(s) |-> IF \E span \in spans : k = span[1] THEN <<Space>>
                                  ELSE IF \E span \in spans : k \in span[1]..span[2] THEN <<>>
                                  ELSE <<s[k]>>])

Consume(stage, acc, label) ==
  LET s == acc.rest
      taken == {span \in Spans(stage, s) : Taken(stage, s, span, label)}
  IN [rest |-> Blank(s, taken),
      found |-> acc.found \cup UNION {TokensOf(stage, SubSeq(s, span[1], span[2]), label) : span \in taken}]

AllStages == Stages \o Currencies

\* The text and the tokens found in it after each number of stages.
Reading(s, label) ==
  LET After[n \in 0..Len(AllStages)] ==
        IF n = 0 THEN [rest |-> s, found |-> {}] ELSE Consume(AllStages[n], After[n-1], label)
  IN After

\* guard.Extract.
Extracted(s, label) == Reading(s, label)[Len(AllStages)].found

\* guard.Compare: the first category in which two prompts differ, Nothing if alike.
Categories == <<"number", "currency", "date", "id", "ident">>

Of(category, tokens) == {t \in tokens : t.category = category}

Compare(a, b) ==
  LET differ == {k \in 1..Len(Categories) : Of(Categories[k], a) # Of(Categories[k], b)}
  IN IF differ = {} THEN Nothing ELSE Categories[Min(differ)]

-----------------------------------------------------------------------------
VARIABLES
  text,
  at, hasLetter,   \* Detect's loop
  lang,            \* its label, Nothing while it scans
  tokens           \* what the guard extracts under it, Nothing before

extractionVars == <<text, at, hasLetter, lang, tokens>>

ExtractionInit ==
  /\ text \in Texts
  /\ at = 1 /\ hasLetter = FALSE
  /\ lang = Nothing /\ tokens = Nothing

InScan == lang = Nothing /\ at <= Len(text.pieces)
Class    == text.pieces[at].class

\* The first telling rune ends the scan with its language.
MarkOf(class) == IF class = "han" THEN "zh" ELSE class

Mark ==
  /\ InScan
  /\ Class \in {"han", "tr", "es"}
  /\ lang' = MarkOf(Class)
  /\ UNCHANGED <<text, at, hasLetter, tokens>>

Pass ==
  /\ InScan
  /\ Class \in {"letter", "other"}
  /\ hasLetter' = (hasLetter \/ Class = "letter")
  /\ at' = at + 1
  /\ UNCHANGED <<text, lang, tokens>>

EndOfScan ==
  /\ lang = Nothing /\ at > Len(text.pieces)
  /\ lang' = IF hasLetter THEN "en" ELSE "und"
  /\ UNCHANGED <<text, at, hasLetter, tokens>>

Extract ==
  /\ lang # Nothing /\ tokens = Nothing
  /\ tokens' = Extracted(text.pieces, lang)
  /\ UNCHANGED <<text, at, hasLetter, lang>>

Done == tokens # Nothing

ExtractionNext == Mark \/ Pass \/ EndOfScan \/ Extract \/ (Done /\ UNCHANGED extractionVars)

ExtractionSpec == ExtractionInit /\ [][ExtractionNext]_extractionVars

-----------------------------------------------------------------------------
(***************************************************************************)
(* A text that Detect labels with its writer's language is read as its     *)
(* writer meant it, token by token and whatever stands next to a token: a  *)
(* date is not three numbers, an ID not a number glued to letters, the     *)
(* dollar not the coin its rune ends in, and a Chinese numeral is the      *)
(* number it spells (Extract's order of stages, its blanks, the numerals   *)
(* of zh.go).                                                              *)
(***************************************************************************)
RightLabelReadsRight ==
  Done /\ lang = text.writer => Compare(tokens, text.meant) = Nothing

(***************************************************************************)
(* What a wrong label can do is narrow: all labels read a text alike       *)
(* unless the stage for numbers meets a lone separator before one group of *)
(* three digits, or the one for slashed dates a date whose components      *)
(* could both be months (normalizeNumber, consumeDates).                   *)
(***************************************************************************)
LoneSeparator(m) == LET a == AmountOf(m) IN Len(a.seps) = 1 /\ IsGrouped(a)

EitherMonth(m) == m[1].n \in 1..12 /\ m[3].n \in 1..12

DependsOnLabel(stage, m) ==
  \/ stage = "number" /\ LoneSeparator(m)
  \/ stage = "date slash" /\ EitherMonth(m)

Ambiguous(s, label) ==
  \E n \in 1..Len(AllStages) :
    LET seen == Reading(s, label)[n-1].rest
    IN \E span \in Spans(AllStages[n], seen) :
         DependsOnLabel(AllStages[n], SubSeq(seen, span[1], span[2]))

LabelRarelyMatters ==
  Done /\ ~Ambiguous(text.pieces, lang) =>
    \A label \in Labels : Extracted(text.pieces, label) = tokens
=============================================================================
