CONSTANTS
  tx = tx  rx = rx  a = a  b = b  a7 = a7  b9 = b9  k = k
  NoDesc = NoDesc  NoKey = NoKey  NoCodec = NoCodec
  Objects = {tx, rx}
  Ids <- MCIds
  UserIds = {200}
  Desc = {a, b}
  Opt <- MCOpt
  Messages = {a7, b9}
  Info <- MCInfo
  Codecs <- MCCodecs
  BuiltIn <- MCCodecs
  Libraries = {}
  Lib <- MCEmpty
  Keys = {k}
  SkipSets = {{}}
  MaxSent = 2
  MaxReconfigured = 4
SPECIFICATION LinkSpecInto
INVARIANT UsedBytesStripped
CHECK_DEADLOCK FALSE
