CONSTANTS
  c = c  a = a  b = b  n = n  p = p  q = q  ccl = ccl  ma = ma  mb = mb  mn = mn
  x1 = x1  x2 = x2  x3 = x3  k = k
  NoDesc = NoDesc  NoKey = NoKey  NoCodec = NoCodec
  Objects = {c}
  Ids <- MCIds
  UserIds = {1, 200}
  Desc = {a, b, n, p, q, x1, x2, x3}
  Opt <- BadOpt
  Messages = {ma, mb, mn}
  Info <- MCInfo
  Codecs <- MCCodecs
  BuiltIn <- MCBuiltIn
  Libraries = {ccl}
  Lib <- MCLib
  Keys = {k}
  SkipSets <- MCSkipSets
SPECIFICATION Spec
INVARIANTS
  TypeOK
  LoadedMessagesFit
  EncodedFits
PROPERTIES
  FailureKeepsRegistry
