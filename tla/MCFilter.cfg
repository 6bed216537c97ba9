SPECIFICATION FilterSpec
CONSTANTS
  Universe <- MCUniverse
  Words <- MCWords
  Synonyms <- MCSynonyms
  Letters <- MCLetters
  AnySynonym = FALSE
  MaxWords = 6
INVARIANTS
  MatchesItsMeaning
CHECK_DEADLOCK FALSE
