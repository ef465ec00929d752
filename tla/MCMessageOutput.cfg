CONSTANTS
  OutputSize = 16
  MaxSizes = {0, 20, 41}
  VarintBytes = 3
  VarintBase = 8
  DoubleBytes = 2
  Powers = {1, 2, 4, 8, 16, 32, 64, 128, 256, 512}
  LargestRequest = 300
  Word = 256
  IntWord = 128
  UuidBytes = 2
  UuidGroups <- MCUuidGroups
  HexDigit <- MCHexDigit
  HexBase = 3
  Dash = 90
  Numerals <- MCNumerals
  Random <- MCRandom
  Now = 11
  Logger <- MCLogger
  Hostname <- MCHostname
  Pid = 12
  Nil = Nil
  Plugins = {"analysis", "output"}
  Tables <- MCTables
  Texts <- MCTexts
  PayloadType <- MCPayloadType
  PayloadName <- MCPayloadName
  InjectPayloadType <- MCInjectPayloadType
  MaxPayload = 3
SPECIFICATION Spec
INVARIANTS ReadBack DecodeBack LimitOnlyRefuses PayloadExact
