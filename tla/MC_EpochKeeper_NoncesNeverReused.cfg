CONSTANTS
  s1 = s1
  s2 = s2
  p1 = p1
  p2 = p2
  h1 = h1
  Seeds <- MCSeeds
  Params <- MCParams
  Hashes <- MCHashes
  BadLog = BadLog
  GENESIS_HASH = GENESIS_HASH
  Addrs = {a1}
  BlockNumbers = {b1}
  NoParams = NoParams
  NoBlock = NoBlock
  NoOut = NoOut
  MaxNonce = 2

SYMMETRY Symmetry
SPECIFICATION Spec


PROPERTY NoncesNeverReused
