SPECIFICATION Spec
CONSTANTS
  Find <- str_find_aux
  Gmatch <- gmatch
  Gsub <- str_gsub
  LUA_MAXCAPTURES = 3
  Chars <- MCChars
  Letters <- MCLetters
  Digits <- MCDigits
  Subjects <- MCSubjects
  Patterns <- MCPatterns
  Indices <- MCIndices
  Limits <- MCLimits
INVARIANTS MatchesAsMeant GsubReplacesMatches SubstringsRight
CHECK_DEADLOCK FALSE
