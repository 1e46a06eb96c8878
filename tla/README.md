# TLA+ models of enigma-core / enigma-principal

This directory holds TLA+ models of the core of the confidential-computation node in
`src/`. TLC checks them. Every module is translated from the Rust source, except
`DeltaStore`. Its code (`crate::db`) is not part of this repository's sources, so it is
modelled from `spec.md` §4.1 and marked `spec_modelled` in `PROJECT.json`.

## 1. Inventory

### Components

| Component | Source | State | Operations |
|---|---|---|---|
| Epoch Register | `enigma-principal/enclave/src/epoch_keeper_t/mod.rs` | `EPOCH: SgxMutex<HashMap<Uint, Epoch>>`: nonce → {seed, worker_params, preverified_block_hash}; the mutex can be poisoned | `ecall_generate_epoch_seed_internal`, `ecall_get_verified_worker_params_internal`, `ecall_set_worker_params_internal`, `ecall_get_epoch_workers_internal`; helper `get_epoch` |
| Request Dispatcher | `enigma-core/app/src/networking/ipc_listener.rs` | none of its own: the current multipart, its position and the response under construction | `IpcListener::run` (REP socket, one multipart at a time), `handle_message`, 15 handlers in `mod handling` |
| Delta Store | `crate::db` (not in `src/`) | `DATABASE`: (address, ByteCode \| Delta(i)) → bytes | `get_tip`, `get_deltas`, `get_all_tips`, `get_all_addresses`, `get_contract`, `get_delta`, `insert_tuples`, `force_update` |
| Secure Task Dispatcher | `enigma-core/app/src/wasm_u/wasm.rs` | a fixed 100000-byte output buffer per call | `build_constructor`, `deploy` (ecall_deploy) |
| External | attestation service, `km_u`, enclave execution, ZMQ | — | outcomes only |

### How they interact

- A client sends a multipart to the REP socket. `IpcListener::run` maps each multipart
  through `handle_message` and sends the result. The socket alternates receive and send,
  so exactly one batch is in flight.
- `handle_message` matches each message's `IpcRequest` variant and calls its handler.
  `unwrap_or_default` turns a handler's `Err` into `Message::default()` for that slot.
  A handler that panics unwinds through `run`, so no response is sent and the listener
  stops.
- Store handlers lock `DATABASE` for one call each, then release it. Deploy and compute
  cross into the enclave. Registration and key handlers call attestation and key
  management.
- The epoch register lives in the principal enclave. Untrusted threads call its ecalls.
  Each ecall holds the `EPOCH` lock for its whole body, so ecalls are atomic with
  respect to each other.

### What is hard

- **Partial failure inside a batch:** an `Err` must keep its slot, and a panic loses the
  whole batch. `UpdateDeltas` validates all entries before inserting any.
- **Per-item results of `insert_tuples`:** these include duplicate keys within one call.
- **Panics while a lock is held:** `receipt.logs[0]` panics under the `EPOCH` guard and
  poisons the mutex for every later ecall.
- **Protocol sequences across ecalls:** generate → verify → set → select. The hardcoded
  commit nonce and the verify/set split leave room for stale params.
- **Return values that invert success:** `HashMap::insert` returning `None`.
- **Ignored boundary status:** `wasm::deploy` never reads the ecall status. Output is
  sliced by a length the enclave reports.

### What makes each component correct

- **Epoch Register:**
  - it implements the abstract register of spec 4.4 (dense nonces, fresh epochs
    without params, the hash carried forward, commits to existing epochs only);
  - nonces are never reused, not even across an enclave restart;
  - params are verified against the preverified hash and committed to the current
    epoch;
  - an error leaves the register unchanged;
  - one bad receipt does not disable the register.
- **Dispatcher:**
  - N requests get N aligned responses;
  - a failing message does not abort the others;
  - only the administrative UpdateNewContract path writes bytecode;
  - a deployed contract resolves through GetContract.
- **Delta Store:**
  - deltas are append-only;
  - the tip is the greatest index;
  - duplicates are rejected per item;
  - ranges are returned in increasing order.
- **Secure Task Dispatcher:**
  - a non-success ecall status is a failure;
  - a malformed module is an error before any ecall;
  - the output fits the buffer.

## 2. Plan

Order, most important behaviour first:

1. `EpochKeeper` + `MC_EpochKeeper` (done). This is the security-relevant state
   machine. It covers all four ecalls, the poisoned mutex and the protocol-order
   properties.
2. `DeltaStore` (done, spec_modelled) and `IpcListener` + `MC_IpcListener` (done). All
   15 handlers are composed with the store through `INSTANCE DeltaStore`.
3. `WasmDeploy` + `MC_WasmDeploy` (done). `build_constructor` and `deploy`, with the
   ecall status, retval, written bytes and `output_len` as enclave outcomes.
4. `EpochKeeper` enclave restart (done). `EnclaveRestart` empties `EPOCH` (nothing is
   sealed); the history `issued` states the nonce-reuse hazard.
5. `EpochRegister` (done). The abstract register of spec 4.4, which `EpochKeeper`
   implements under the mapping nonce n → log position n + 1.
6. Liveness of the dispatcher: every started batch is answered. It is violated by the
   panicking handlers (`ipc_panic_abandons_batch`).
7. Properties that only restated a definition, or that held because of the delta
   store's spec_modelled duplicate-key rule, were removed (see "Removed properties").
8. The bytecode slot (done). `BytecodeOnlyByUpdateNewContract` states spec 3's rule
   that `force_update` is reachable only from the administrative UpdateNewContract path.
9. The failure paths of `deploy` (done). One property, `DeployFailureIsError`, covers
   a malformed module, a failed ecall and an oversized output.
10. `IpcListener` with two addresses (done). A second address is added where requests
    can mix addresses up. Two-message batches pair each request with a store request.
    Batches of three stay out of reach: with the full request universe they are too
    many to enumerate in minutes, and the store already carries state between batches.

## 3. Modules

### EpochKeeper (epoch_keeper_t/mod.rs)

**Variables**
- `epochs`: the `EPOCH` map.
- `poisoned`: the mutex is poisoned.
- `last`: the last ecall's op, status (ok/err/panic), output and input.
- History variables:
  - `committed`: nonce → params set by a successful SetWorkerParams;
  - `issued`: nonces ever stored, by this or an earlier enclave instance.

**Actions.** There is one action per ecall, with one disjunct per return path:
- `GenerateEpochSeed`: randomness or signing failure; insert, with the inverted
  `Some`/`None` check.
- `GetVerifiedWorkerParams`: empty headers before the lock; no epoch;
  `receipt.logs[0]` panic that sets `poisoned`; decode error; ok.
- `SetWorkerParams`: nonce 1 absent; attach to nonce 1.
- `GetEpochWorkers`:
  - a block number is an error;
  - no epoch;
  - no params: `Epoch::get_selected_workers` fails (spec_modelled);
  - ok.

Every ecall panics through `PanicOnPoisonedLock` once `poisoned` is set.

`EnclaveRestart` is the enclave being destroyed and created again by the host. `EPOCH`
is a `lazy_static` in enclave memory with a `TODO: Seal / unseal`, so the new instance
has an empty register and a fresh mutex. The history variable `issued` keeps every
nonce ever stored, across instances.

**Refinement.** `EpochRegister` is what spec 3 and 4.4 promise: a log of epochs that
only grows, with nonces dense from 0, a fresh seed and no params in each new epoch, and
the preverified hash carried forward; commits attach params to an existing epoch; the
whole log may be lost (a restart). `RegisterLog` maps `epochs` to that log, with a gap
marker for a missing nonce, and `ImplementsRegister == Register!Spec` is checked as a
PROPERTY of `epoch_safety`.

**Abstraction.** Seeds, params and hashes are model values. A header chain is empty or
the hash it is anchored at. Worker selection is an uninterpreted deterministic function
of (seed, params, address).

### DeltaStore (crate::db, spec_modelled)

`db` is a partial function from (address, slot) to a blob. The reads are operators.
`insert_tuples` is the recursive `InsertFrom`:
- tuples are applied in order;
- a key already present, including one inserted earlier in the same call, gets Err;
- a nondeterministic set of tuples fails with a store error.

`force_update` overwrites.

### EpochRegister (spec 4.4, abstract)

One variable, `log`, and the steps `Generate(s)`, `Commit(i, p)` and `Lost`. It models no
code; it is the specification `EpochKeeper` is shown to implement.

### WasmDeploy (wasm_u/wasm.rs)

**Variables**
- `out`: the output buffer as the last ecall left it;
- `last`: the build outcome, ecall status, retval, bytes written, `output_len`, result
  kind (Ok, Err, panic) and returned bytes of the last call;
- `crashed`: a panic unwound out of `deploy`;
- `calls`: bounded by `MaxCalls`.

**Action.** `Deploy` is one call, with one disjunct per path:
- `deserialize_buffer` fails: `?` returns Err;
- `build` or `serialize` fails: `panic!("")`;
- otherwise the constructor module (or the module) is sent through `ecall_deploy`. The
  buffer is a fresh `vec![0u8; MAX_EVM_RESULT]`. `EnclaveOutcome` relates the status,
  retval, written bytes and reported length. An ecall that failed at the SGX level wrote
  nothing and left `output_len` at 0. An entered ecall wrote at most the buffer and
  reported its result's length, or any length when its retval is an error.
- `slice[0..output_len]` panics past the buffer, else `Ok` of those bytes. Neither status
  nor retval is read.

**Abstraction.** The module transformation is reduced to its outcome. Bytes are `{1, 2}`
besides the zero fill. The buffer has `MAX_EVM_RESULT = 2` slots instead of 100000: the
code only compares `output_len` with the capacity.

### IpcListener (ipc_listener.rs)

**Variables**
- `db`;
- `req`: the multipart;
- `pos`: the next message;
- `resp`: the responses so far;
- `status`: idle, busy or crashed.

**Actions**
- `Receive`: the REP socket delivers 1..MaxBatch requests.
- `HandleMessage`: one handler, atomically.
- `Reply`: the multipart is sent.

The handlers keep the code's order of checks:
- hex decoding with `?` gives the default message;
- `expect`/`unwrap`/`clone_from_slice`/`unimplemented!` give a crash;
- a store lookup miss gives the default message;
- enclave and attestation calls succeed or fail nondeterministically.

**Abstraction.** A hex field is well-formed or `BadHex`. A public key is `ok`, `badhex`
or `badlen`. `Missing` stands for `None`.

## 4. Runs

| Run | cfg | Expect | What it shows |
|---|---|---|---|
| epoch_safety | MC_EpochKeeper.cfg | pass | Every interleaving of the ecalls and enclave restarts, including a poisoned mutex, implements the abstract register (`ImplementsRegister`). Under it, nonces are dense from 0 and a fresh epoch has a new seed, no params and the carried-forward hash. Params attach only to an existing epoch, and a restart loses the whole register. |
| epoch_generate_reports_error | …_ErrorLeavesRegisterUnchanged | violation | GenerateEpochSeed stores the epoch yet returns an error (the `insert` result is inverted). |
| epoch_commit_wrong_nonce | …_CommitReachesCurrentEpoch | violation | With three epochs, SetWorkerParams attaches params to epoch 1, not to the current epoch 2. |
| epoch_unverified_chain | …_VerifiedAgainstTrustedHash | violation | A header chain anchored at a foreign hash is accepted: the verifier is commented out. |
| epoch_poisoned_mutex | …_PanicConfinedToBadReceipt | violation | A receipt without logs poisons `EPOCH`, and later ecalls of other kinds panic. |
| epoch_nonce_reuse_after_restart | …_NoncesNeverReused | violation | After an enclave restart, GenerateEpochSeed stores nonce 0 again with a new seed. |
| ipc_safety | MC_IpcListener.cfg | pass | With two addresses, the response multipart has one message per request, in request order, whichever messages fail. Only UpdateNewContract, for its own address, writes the bytecode slot. |
| ipc_panic_abandons_batch | …_EveryBatchAnswered | violation | A panicking handler leaves the batch unanswered for good. |
| ipc_update_deltas_all_or_nothing | …_WellFormedDeltasReported | violation | A malformed entry discards the well-formed ones in the same message. |
| ipc_deploy_not_stored | …_DeployedContractResolvable | violation | After DeploySecretContract, GetContract still finds no bytecode. |
| wasm_output | MC_WasmDeploy.cfg | pass | Over three deploys, every build and ecall outcome is reached and the state stays well-typed. The run is what makes `Deploy` fire; its questions are in the violation run below. |
| wasm_deploy_failures_not_errors | MC_WasmDeploy_DeployFailureIsError.cfg | violation | A failing deploy is not an Err. TLC's trace is a build error that panics (wasm.rs:55). The other two cases were each confirmed violated on their own, by keeping only that disjunct of `DeployFailed`: a failed `ecall_deploy` returns Ok (wasm.rs:82), and an `output_len` past the buffer panics (wasm.rs:89). |

### Divergences without a run

The project keeps one run per question and at most twelve runs, so these divergences,
read off the code while modelling, have no run of their own. They are listed as hazards
in `PROJECT.json`.
- `ecall_set_worker_params_internal` (mod.rs:146) attaches whatever params its caller
  passes, verified or not. The enclave keeps no record of what it verified for which
  epoch. So verify, then generate, then set commits params that were verified against
  an older epoch.

### Duplicate keys in `insert_tuples`: spec and test disagree

Spec 3 and 4.1 say a duplicate insert is reported as a per-item error, and
`DeltaStore.InsertFrom` models that. The repository's own `test_real_listener`
(ipc_listener.rs:321-342, `#[ignore]`) disagrees. It inserts three (address, key) pairs
twice, with different bytes, in one `insert_tuples` call, and unwraps every result, so
it expects them to be accepted. The store (`crate::db`) is not in `src/`, so the model
cannot settle which is right. No property of a passing run rests on the duplicate rule.

### Removed properties

These properties were dropped because they restated a definition or held by the shape
of the model:
- `SelectionUsesCurrentEpoch` and `SeedsNeverOverwritten` are implied by
  `ImplementsRegister`.
- `TipsAreHighest` and `GetDeltasMatchesReference` compared the spec_modelled store
  with a second spelling of the same contract.
- `BatchEventuallyFinishes` held because every handler step appends or crashes.
- `OkIsThisCallsOutput` re-spelled `deploy`'s fresh buffer.

`DeltasNeverRewritten` and `UpdateStatusTruthful` passed only because of the store's
duplicate rule, which the test above contradicts.

Each property of a passing run has a mutant in `PROJECT.json`: a plausible bug in the
mapped definition that TLC then catches.

## 5. Bounds and why they suffice

**EpochKeeper**
- `MaxNonce = 2`, i.e. three epochs. This is the smallest register in which the
  hardcoded commit nonce 1 is neither absent nor the current one.
- Two seeds, so an overwrite is visible.
- Two params, so params committed to one epoch can be told from those of another.
- Two hashes: the genesis hash and a foreign one.
- One address and one block number.
- Symmetry over seeds and params (the properties only compare them for equality).
- Restarts are unbounded: a restart returns to a state like the initial one, and
  `issued` is a subset of 0..MaxNonce.

**WasmDeploy**
- A two-slot buffer, so a result can be shorter than, equal to, or longer than the
  buffer.
- Two nonzero byte values, so one call's output can be told from an earlier one's.
- Three calls, so a short or failed write can follow a full one.
- The run reaches 292 distinct states.

**IpcListener**
- Delta indices {0, 1}. This is enough for a tip to differ from the first delta and
  for a range to be empty or non-empty.
- Two addresses. `a1` gets every field shape; `a2` enters only through the requests
  that can mix addresses up: a delta and a bytecode written for `a2`, `GetTips` of
  both, and `GetDeltas` with one range of each. A tip, a bytecode write or a range
  answered for the wrong address is then visible. Giving `a2` every shape as well
  grows the run to 912k states and 2.5 minutes, too slow to check each mutant.
- Two blobs, so a duplicate key with different bytes is visible.
- Batches of up to two messages: the least that shows one message's failure affecting
  the next. Every request is a one-message batch. In a two-message batch, the second
  message is one of nine store requests (`SecondRequests`, given to `Batches` in the
  cfg). The store outlives a batch, so any write followed by any read is already
  reached over two batches. A pair adds only alignment within the batch and a failure
  or panic before the second message. The run reaches 174,704 distinct states in
  about 25 s. With all pairs over one address it reached 319,404.
- The request universe holds every operation with each field shape the handlers branch
  on. It also includes UpdateDeltas messages that pair an entry with a duplicate-key
  entry, or with a malformed entry.
- GetDeltas ranges have `from` in {0, 1} and `to` in {1, 2}. This gives the empty range
  [1, 1), ranges that exclude a stored index at their upper end, and the range [0, 2)
  with two deltas to order.

## 6. Fairness

`IpcListener` assumes weak fairness of `HandleMessage` and `Reply`, and
`EveryBatchAnswered` is checked under it. Without that fairness, stuttering alone would
violate it. Once
`handle_message` has started, the listener thread runs it to completion and the stream
forwards its result to the sink; nothing else runs on that thread. Receiving is not
fair: clients may stop sending. The epoch register has no liveness property, because
its ecalls are driven by the untrusted host, which owes no progress. `WasmDeploy` has
no liveness property either: a stalled `ecall_deploy` blocks its caller forever (spec 9),
and no fairness could be justified from the code.

`MC_WasmDeploy` runs with `CHECK_DEADLOCK FALSE`: a panic ends the calling thread, and
the model stops after `MaxCalls` calls.

`MC_IpcListener` runs with `CHECK_DEADLOCK FALSE`. After a handler panics, `run`
returns an error and the listener really stops.

## 7. Not modelled, and why

- **Transport (ZMQ socket setup, framing):** pure I/O. Only its one-batch-at-a-time
  discipline is modelled.
- **Attestation service, key management, enclave execution:** external and not in
  `src/`. Their results are nondeterministic success or failure.
- **Store read errors:** I/O errors of the database on reads are not modelled. The
  handlers that `unwrap_or_default` them would return empty lists.
- **Composing `WasmDeploy` with the dispatcher:** `deploy_contract` calls a 7-argument
  `wasm::deploy` that is not the 2-argument function in `wasm.rs`. The dispatcher
  therefore treats the enclave call as succeeding or failing.
- **What `ecall_deploy` may write:** the ecall gets no buffer capacity. Its EDL bounds
  are not in `src/`. The model assumes at most the buffer is written, and `TypeOK` of
  `WasmDeploy` states that assumption.
- **A stalled attestation or enclave call (ipc_listener.rs:81):** `get_report` and
  `retry_quote` have no timeout, and the retry loop is in `enigma_tools_u`, outside
  `src/`. A stall would block the single listener thread for good. Spec 5 already names
  this as a design gap. Modelling it as a handler that never returns would only restate
  that. The fairness of `HandleMessage` assumes that every handler
  call returns.
- **Growth of the epoch map (mod.rs:36):** `EPOCH` is never pruned. Memory use is not
  a state property. The model bounds nonces with `MaxNonce`, and the nonce is a `U256`
  that cannot overflow within any reachable run.
