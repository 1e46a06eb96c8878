---------------------------- MODULE EpochRegister ----------------------------
(***************************************************************************)
(* What the epoch register promises (spec 3 and 4.4), without ecalls,     *)
(* locks or return values: a log of epochs that only grows.  Position i    *)
(* holds the epoch of nonce i - 1, so nonces are dense from 0 and never    *)
(* reused while the register is held.  A new epoch has a fresh seed, no   *)
(* worker params, and carries the preverified block hash of the epoch     *)
(* before it (the genesis hash for                                         *)
(* the first).  Committing attaches params to an epoch that exists; seeds  *)
(* and hashes never change.  Reads are stuttering steps.  The register    *)
(* lives in enclave memory only, so the whole of it may be lost at once.  *)
(***************************************************************************)
EXTENDS Naturals, Sequences

CONSTANTS Seeds, Params, Hashes, GENESIS_HASH, NoParams

VARIABLE log

Generate(s) ==
  log' = Append(log,
           [seed |-> s, worker_params |-> NoParams,
            preverified_block_hash |->
               IF log = <<>> THEN GENESIS_HASH
                             ELSE log[Len(log)].preverified_block_hash])

Commit(i, p) ==
  /\ i \in 1..Len(log)
  /\ log' = [log EXCEPT ![i].worker_params = p]

\* the enclave instance holding the register is gone
Lost == log' = <<>>

Init == log = <<>>

Next ==
  \/ \E s \in Seeds : Generate(s)
  \/ \E i \in DOMAIN log, p \in Params : Commit(i, p)
  \/ Lost

Spec == Init /\ [][Next]_log

=============================================================================
