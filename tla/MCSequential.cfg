CONSTANTS
  Nothing = Nothing
  Exact = 2100000000
  RoundedAmount <- NoAmount
  RoundedNumeral <- NoNumeral
  Numbers <- MCNumbers
  Texts <- MCTexts
  Languages <- MCLanguages
  LangPairs <- MCLangPairs
  SampleSets <- MCSampleSets
  Target = 60
  Margin = 3
  Grain = 2
  Fallback = 8
  None = None
SPECIFICATION MCSpec
INVARIANTS
  RightLabelReadsRight
  LabelRarelyMatters
  BestCutoff
  GuardOnlyHelps
  LookupsServeAsChosen
