---------------------------- MODULE MC_EpochKeeper ----------------------------
(* Instantiates EpochKeeper for TLC: two seeds, two decodable params, two  *)
(* anchor hashes (the genesis one and a foreign one), one address and one  *)
(* explicit block number.  MaxNonce = 2 gives three epochs, the smallest   *)
(* register in which the hardcoded commit nonce 1 is not the current one.  *)
EXTENDS EpochKeeper, TLC

CONSTANTS s1, s2, p1, p2, h1

MCSeeds == {s1, s2}
MCParams == {p1, p2}
MCHashes == {GENESIS_HASH, h1}

Symmetry == Permutations(MCSeeds) \cup Permutations(MCParams)
==============================================================================
