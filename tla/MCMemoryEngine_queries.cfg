SPECIFICATION Spec
CONSTANTS
  Texts <- TextsInOrder
  Number <- NumberOf
  Plain <- PlainOf
  Seconds <- SecondsOf
  MaxSeconds = 4
  Spelled <- SpelledOf
  Keys = {"a", "a b"}
  Strings = {"", "10", "l'an"}
  Numbers = {"10", "2", "2.0"}
  TTLs = {4}
VIEW Content
INVARIANTS
  IndexConsistent
PROPERTIES
  AnswersAsScan
  HeardAsMeant
  SlipsRefused
