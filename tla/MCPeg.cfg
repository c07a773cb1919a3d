SPECIFICATION PegSpec
CONSTANTS
  Specs <- MCSpecs
  TextsOf <- MCTextsOf
  OptionsOf <- MCOptionsOf
  Pattern <- MCPattern
  WordChars = {"x", "i", "f"}
  SourceRank <- MCSourceRank
  Callback <- MCCallback
INVARIANTS
  BuiltAsSpecified
  AnswersAsMeant
  AnalysisBorneOut
PROPERTY
  MatchEnds
