CONSTANTS
  MaxString = 3
  MaxSaved = 1
  EditWords <- MCEditWords
  EditLines <- MCEditLines
  EditKeys <- MCEditKeys
  EditValues <- MCEditValues
  MaxArgs = 3
  LineLimit = 3
  U8Max = 7
  Lcg <- MCLcg
  SuffixTypes <- MCSuffixTypes
  MaxSuffixes = 3
  ModeLetters = {"m", "n"}
  ChunkMax = 8
  Room = 9
  ServerLen = 3
SPECIFICATION TextSpec
CHECK_DEADLOCK FALSE
INVARIANT DecodesLines
