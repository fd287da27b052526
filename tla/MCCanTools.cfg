SPECIFICATION MCSpec
CONSTANTS
  Width <- MCWidth
  IdBits = 4
  Words <- MCWords
  Split <- MCSplit
  Characters <- MCCharacters
  Data <- MCData
  Ops <- MCOps
  MaxReceived <- MCMaxReceived
  MaxOps = 3
  MaxLen = 2
  ByteBits = 2
  PositionBits = 4
  Numerals <- MCNumerals
  Malformed <- MCMalformed
  Arity <- MCArity
  NumeralValue <- MCNumeral
  ParseFunction <- Parse
  EvaluateFunction <- Evaluate
  FunctionThrows <- Throws
  NoFunction <- Null
INVARIANTS TypeOK ArgsAreTheLine ExpressionMeansWhatItSays  ValuesAreRead SignalsAreTheTraffic SessionIsTheLine
CHECK_DEADLOCK FALSE
