\* Every kind of command and of blob length, and lines up to and over the end
\* of the line buffer, with too many arguments.
SPECIFICATION Spec
CONSTANTS
  LineLen = 7
  DataLen = 2
  MaxArgs = 2
  WordSize = 8
  Input = {"nl", "eq", "comma", "blobcmd", "cmd", "n2", "n3", "n10"}
  Newline = "nl"
  Equals = "eq"
  Comma = "comma"
  Commands = {"blobcmd", "cmd"}
  DataCommands = {"blobcmd"}
  Numerals = {"n2", "n3", "n10"}
  NumeralValue <- MCNumeralValue
  NoCommand = NoCommand
INVARIANTS
  TypeOK
  OpenBlobSafe
PROPERTIES
  ImplementsSession
CONSTRAINT Bounded
