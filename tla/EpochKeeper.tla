---------------------------- MODULE EpochKeeper ----------------------------
(***************************************************************************)
(* The principal enclave's epoch register (enigma-principal,              *)
(* enclave/src/epoch_keeper_t/mod.rs).                                     *)
(*                                                                         *)
(* EPOCH is a HashMap<Uint, Epoch> behind one SgxMutex.  Every ecall takes *)
(* the lock for its whole body, so each ecall is one atomic action here;   *)
(* the ecalls of different untrusted threads interleave only between      *)
(* ecalls.  A panic while the guard is held (the receipt.logs[0] index)   *)
(* poisons the mutex, after which lock_expect panics in every ecall.      *)
(*                                                                         *)
(* Data is abstracted: a seed is a model value standing for the 32 random *)
(* bytes, a receipt is the list of its logs (at most the first one is     *)
(* read), a header chain is either empty or the hash it is anchored at.   *)
(***************************************************************************)
EXTENDS Naturals, Sequences, FiniteSets, FiniteSetsExt

CONSTANTS
  Seeds,         \* values rsgx_read_rand may produce
  Params,        \* WorkerParams a receipt log can decode to
  BadLog,        \* a log entry WorkerParams::try_from rejects
  Hashes,        \* block hashes a header chain may be anchored at
  GENESIS_HASH,  \* PREVERIFIED_BLOCK_HASH
  Addrs,         \* secret contract addresses
  BlockNumbers,  \* explicit block numbers a caller may pass
  NoParams,      \* worker_params: None
  NoBlock,       \* block_number: None
  NoOut,         \* no return value (Err or panic)
  MaxNonce       \* bound: no epoch is generated past this nonce

ASSUME GENESIS_HASH \in Hashes
ASSUME BadLog \notin Params /\ NoParams \notin Params
ASSUME MaxNonce \in Nat

VARIABLES
  epochs,     \* EPOCH: nonce -> Epoch
  poisoned,   \* the SgxMutex around EPOCH is poisoned
  last,       \* the ecall that returned last: op, status, output, input
  committed,  \* history: nonce -> params a successful SetWorkerParams attached
  issued      \* history: nonces ever stored, by this or an earlier enclave

vars == <<epochs, poisoned, last, committed, issued>>

INIT_NONCE == 0
\* ecall_set_worker_params_internal: `let nonce = Uint::from(1);`
SET_PARAMS_NONCE == 1

Epoch == [seed: Seeds, worker_params: Params \cup {NoParams},
          preverified_block_hash: Hashes]
Logs == {<<>>} \cup {<<l>> : l \in Params \cup {BadLog}}
HeaderChains == {<<>>} \cup {<<h>> : h \in Hashes}
Ops == {"generate", "verify", "set", "workers"}
Status == {"ok", "err", "panic"}

-----------------------------------------------------------------------------
(* Helpers                                                                 *)

IsEmpty == DOMAIN epochs = {}

\* get_epoch(guard, None): the entry at guard.keys().max()
CurrentNonce == Max(DOMAIN epochs)
CurrentEpoch == epochs[CurrentNonce]

\* mutant: one nonce skipped after the greatest key
NextNonceSkips == IF IsEmpty THEN INIT_NONCE ELSE CurrentNonce + 2

\* nonce of the epoch ecall_generate_epoch_seed_internal stores
NextNonce == IF IsEmpty THEN INIT_NONCE ELSE CurrentNonce + 1

\* the stored epoch: fresh seed, no params, block hash carried forward
\* from the previous epoch or the hardcoded one
NewEpoch(seed) ==
  [seed |-> seed,
   worker_params |-> NoParams,
   preverified_block_hash |->
      IF IsEmpty THEN GENESIS_HASH ELSE CurrentEpoch.preverified_block_hash]

\* Epoch::get_selected_workers: a deterministic function of seed, params
\* and address, kept uninterpreted
SelectedWorkers(e, addr) == <<e.seed, e.worker_params, addr>>

NoCall == [op |-> "none", status |-> "ok", out |-> NoOut, arg |-> NoOut]

Return(op, status, out, arg) ==
  last' = [op |-> op, status |-> status, out |-> out, arg |-> arg]

\* EPOCH.lock_expect(..) on a poisoned mutex panics before the body runs
PanicOnPoisonedLock(op, arg) ==
  /\ poisoned
  /\ Return(op, "panic", NoOut, arg)
  /\ UNCHANGED <<epochs, poisoned, committed, issued>>

-----------------------------------------------------------------------------
(* Ecalls                                                                  *)

\* ecall_generate_epoch_seed_internal
GenerateEpochSeed(seed) ==
  \/ PanicOnPoisonedLock("generate", seed)
  \/ /\ ~poisoned
     /\ NextNonce <= MaxNonce
     /\ \/ \* rsgx_read_rand or SIGNINING_KEY.sign fails: `?` returns early
           /\ Return("generate", "err", NoOut, seed)
           /\ UNCHANGED <<epochs, poisoned, committed, issued>>
        \/ \* guard.insert stores the epoch; its result is Some(_) only if
           \* the nonce was already a key, and None is reported as an error
           /\ epochs' = [n \in DOMAIN epochs \cup {NextNonce} |->
                           IF n = NextNonce THEN NewEpoch(seed) ELSE epochs[n]]
           /\ IF NextNonce \in DOMAIN epochs
                THEN Return("generate", "ok", NextNonce, seed)
                ELSE Return("generate", "err", NoOut, seed)
           /\ issued' = issued \cup {NextNonce}
           /\ UNCHANGED <<poisoned, committed>>

\* ecall_get_verified_worker_params_internal; the block verifier is
\* commented out, so the header chain is only tested for emptiness
GetVerifiedWorkerParams(logs, headers) ==
  \/ /\ headers = <<>>
     /\ Return("verify", "err", NoOut, headers)
     /\ UNCHANGED <<epochs, poisoned, committed, issued>>
  \/ /\ headers # <<>>
     /\ PanicOnPoisonedLock("verify", headers)
  \/ /\ headers # <<>>
     /\ ~poisoned
     /\ \/ /\ IsEmpty
           /\ Return("verify", "err", NoOut, headers)
           /\ UNCHANGED <<epochs, poisoned, committed, issued>>
        \/ /\ ~IsEmpty
           /\ logs = <<>>
           \* receipt.logs[0] panics with the guard held
           /\ poisoned' = TRUE
           /\ Return("verify", "panic", NoOut, headers)
           /\ UNCHANGED <<epochs, committed, issued>>
        \/ /\ ~IsEmpty
           /\ logs = <<BadLog>>
           /\ Return("verify", "err", NoOut, headers)
           /\ UNCHANGED <<epochs, poisoned, committed, issued>>
        \/ /\ ~IsEmpty
           /\ logs # <<>> /\ logs[1] \in Params
           /\ Return("verify", "ok", logs[1], headers)
           /\ UNCHANGED <<epochs, poisoned, committed, issued>>

\* mutant: params attached through an entry-style lookup that does not
\* first check the nonce has an epoch
SetWorkerParamsUnchecked(p) ==
  \/ PanicOnPoisonedLock("set", p)
  \/ /\ ~poisoned
     /\ epochs' = [epochs EXCEPT ![SET_PARAMS_NONCE].worker_params = p]
     /\ committed' = [n \in DOMAIN committed \cup {SET_PARAMS_NONCE} |->
                        IF n = SET_PARAMS_NONCE THEN p ELSE committed[n]]
     /\ Return("set", "ok", NoOut, p)
     /\ UNCHANGED <<poisoned, issued>>

\* ecall_set_worker_params_internal: params come from the untrusted caller
SetWorkerParams(p) ==
  \/ PanicOnPoisonedLock("set", p)
  \/ /\ ~poisoned
     /\ SET_PARAMS_NONCE \notin DOMAIN epochs
     /\ Return("set", "err", NoOut, p)
     /\ UNCHANGED <<epochs, poisoned, committed, issued>>
  \/ /\ ~poisoned
     /\ SET_PARAMS_NONCE \in DOMAIN epochs
     /\ epochs' = [epochs EXCEPT ![SET_PARAMS_NONCE].worker_params = p]
     /\ committed' = [n \in DOMAIN committed \cup {SET_PARAMS_NONCE} |->
                        IF n = SET_PARAMS_NONCE THEN p ELSE committed[n]]
     /\ Return("set", "ok", NoOut, p)
     /\ UNCHANGED <<poisoned, issued>>

\* ecall_get_epoch_workers_internal
GetEpochWorkers(addr, bn) ==
  \/ PanicOnPoisonedLock("workers", addr)
  \/ /\ ~poisoned
     /\ \/ bn # NoBlock         \* lookup by block number: Err
        \/ bn = NoBlock /\ IsEmpty
        \/ bn = NoBlock /\ ~IsEmpty /\ CurrentEpoch.worker_params = NoParams
     /\ Return("workers", "err", NoOut, addr)
     /\ UNCHANGED <<epochs, poisoned, committed, issued>>
  \/ /\ ~poisoned
     /\ bn = NoBlock /\ ~IsEmpty
     /\ CurrentEpoch.worker_params # NoParams
     /\ Return("workers", "ok", SelectedWorkers(CurrentEpoch, addr), addr)
     /\ UNCHANGED <<epochs, poisoned, committed, issued>>

\* The enclave is destroyed and created again (host restart, power loss,
\* enclave lost).  EPOCH is a lazy_static in enclave memory that is never
\* sealed ("TODO: Seal/unseal"), so the new instance starts with an empty
\* register and a fresh, unpoisoned mutex.
EnclaveRestart ==
  /\ epochs' = <<>>
  /\ poisoned' = FALSE
  /\ committed' = <<>>
  /\ last' = NoCall
  /\ UNCHANGED issued

-----------------------------------------------------------------------------

Init ==
  /\ epochs = <<>>
  /\ poisoned = FALSE
  /\ last = NoCall
  /\ committed = <<>>
  /\ issued = {}

\* the ecalls of one enclave instance
EcallNext ==
  \/ \E s \in Seeds : GenerateEpochSeed(s)
  \/ \E l \in Logs, h \in HeaderChains : GetVerifiedWorkerParams(l, h)
  \/ \E p \in Params : SetWorkerParams(p)
  \/ \E a \in Addrs, bn \in BlockNumbers \cup {NoBlock} : GetEpochWorkers(a, bn)

Next == EcallNext \/ EnclaveRestart

Spec == Init /\ [][Next]_vars

-----------------------------------------------------------------------------
(* Properties                                                              *)

TypeOK ==
  /\ DOMAIN epochs \subseteq 0..MaxNonce
  /\ \A n \in DOMAIN epochs : epochs[n] \in Epoch
  /\ poisoned \in BOOLEAN
  /\ last.op \in Ops \cup {"none"} /\ last.status \in Status
  /\ DOMAIN committed \subseteq DOMAIN epochs
  /\ issued \subseteq 0..MaxNonce

\* Spec 3: nonces are never reused.  A nonce GenerateEpochSeed stores was
\* never stored before, by this or an earlier instance of the enclave: the
\* seed of a nonce is signed and published, and must stay the only one.
NoncesNeverReused ==
  [][\A n \in DOMAIN epochs' \ DOMAIN epochs : n \notin issued]_vars

\* An ecall that reports an error leaves the register as it found it
\* (spec 4.4: GenerateEpochSeed fails when the entry cannot be persisted).
ErrorLeavesRegisterUnchanged ==
  [][last'.status = "err" => epochs' = epochs]_vars

\* After SetWorkerParams succeeds, the current epoch carries the committed
\* params, so selection for the current epoch can proceed.
CommitReachesCurrentEpoch ==
  (last.op = "set" /\ last.status = "ok") =>
     CurrentEpoch.worker_params = last.arg

\* GetVerifiedWorkerParams accepts a receipt only through a header chain
\* anchored at the current epoch's preverified block hash.
VerifiedAgainstTrustedHash ==
  (last.op = "verify" /\ last.status = "ok") =>
     last.arg = <<CurrentEpoch.preverified_block_hash>>

\* A malformed receipt makes GetVerifiedWorkerParams fail; it never makes a
\* later ecall of another kind panic.
PanicConfinedToBadReceipt ==
  last.op # "verify" => last.status # "panic"

-----------------------------------------------------------------------------
(* Refinement of the abstract register                                     *)

Gap == [seed |-> NoOut, worker_params |-> NoOut, preverified_block_hash |-> NoOut]

\* The register as the abstract log: position i is nonce i - 1.  A nonce
\* missing below the greatest one shows up as a gap no abstract step makes.
RegisterLog ==
  [i \in 1..Cardinality(DOMAIN epochs) |->
     IF i - 1 \in DOMAIN epochs THEN epochs[i - 1] ELSE Gap]

Register == INSTANCE EpochRegister WITH log <- RegisterLog

\* The four ecalls and enclave restarts implement spec 4.4's register:
\* every step appends an epoch with a fresh seed, no params and the
\* carried-forward block hash at the next dense nonce, attaches params to
\* an existing epoch, loses the whole register, or leaves it as it was.
ImplementsRegister == Register!Spec

=============================================================================
