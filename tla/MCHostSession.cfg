\* Stop-and-wait exchanges with good, malformed and over-long lines.
SPECIFICATION FairHostSpec
CONSTANTS
  LineLen = 7
  DataLen = 3
  MaxArgs = 2
  WordSize = 16
  Input = {"nl", "eq", "comma", "blobcmd", "cmd", "n1", "n2", "n9"}
  Newline = "nl"
  Equals = "eq"
  Comma = "comma"
  Commands = {"blobcmd", "cmd"}
  DataCommands = {"blobcmd"}
  Numerals = {"n1", "n2", "n9"}
  NumeralValue <- MCNumeralValue
  NoCommand = NoCommand
  Lines <- MCLines
  LineEndings <- MCLineEndings
  Byte = "n1"
  RxSize = 4
INVARIANTS
  AnswersMatch
  AnswerNotLost
PROPERTIES
  EveryExchangeEnds
