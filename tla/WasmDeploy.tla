----------------------------- MODULE WasmDeploy -----------------------------
(***************************************************************************)
(* The untrusted side of contract deployment (enigma-core,                *)
(* app/src/wasm_u/wasm.rs): build_constructor prepares the module, deploy  *)
(* crosses into the enclave through ecall_deploy with a fixed output       *)
(* buffer and returns the first output_len bytes of it.                    *)
(*                                                                         *)
(* A call of deploy is one step: it runs on its caller's thread and shares *)
(* nothing with other calls but the enclave.  The module transformation is *)
(* abstracted to its outcome (decode error, build error, constructor       *)
(* module or not, serialize error).  The enclave is external: it returns a *)
(* status, a retval, the bytes it wrote and the output_len it reported.    *)
(* A panic unwinds out of deploy and ends the calling thread.              *)
(***************************************************************************)
EXTENDS Naturals, Sequences, FiniteSetsExt

CONSTANTS
  MAX_EVM_RESULT,  \* capacity of the output buffer (100000 in the code)
  Bytes,           \* nonzero byte values the enclave may write
  MaxCalls         \* bound: calls of deploy

ASSUME MAX_EVM_RESULT \in Nat \ {0} /\ 0 \notin Bytes /\ MaxCalls \in Nat

VARIABLES
  out,      \* the output buffer of the last call, as the ecall left it
  last,     \* what the last call of deploy did
  crashed,  \* a panic unwound out of deploy
  calls     \* calls made so far

vars == <<out, last, crashed, calls>>

\* outcomes of the parity_wasm / pwasm_utils steps of build_constructor
BuildOutcomes == {"decode_err", "build_err", "ctor", "no_ctor", "serialize_err"}

\* sgx_status_t of the ecall itself and of its retval
Statuses == {"SGX_SUCCESS", "SGX_ERROR"}

\* what the enclave produced: possibly more than the buffer holds
Results == UNION {[1..n -> Bytes] : n \in 0..MAX_EVM_RESULT + 1}
Lens == 0..MAX_EVM_RESULT + 1

ZeroBuffer == [i \in 1..MAX_EVM_RESULT |-> 0]

NoCall == [build |-> "none", status |-> "none", retval |-> "none",
           written |-> <<>>, output_len |-> 0, kind |-> "none", part |-> <<>>]

-----------------------------------------------------------------------------
(* build_constructor                                                       *)

\* deserialize_buffer(..)? returns Err; build(..) Err and serialize Err
\* reach panic!(""); otherwise the constructor module if build produced
\* one, else the module, serialized
BuildConstructor(b) ==
  CASE b = "decode_err"                       -> [kind |-> "Err"]
    [] b \in {"build_err", "serialize_err"}   -> [kind |-> "panic"]
    [] b = "ctor"    -> [kind |-> "Ok", code |-> "ctor_module"]
    [] b = "no_ctor" -> [kind |-> "Ok", code |-> "module"]

-----------------------------------------------------------------------------
(* deploy                                                                  *)

\* let mut out = vec![0u8; MAX_EVM_RESULT]
OutputBuffer == ZeroBuffer

\* mutant: the enclave writes its whole result, past the buffer
EnclaveOutcomeUnbounded(status, retval, w, len) ==
  \/ status = "SGX_ERROR" /\ w = <<>> /\ len = 0
  \/ /\ status = "SGX_SUCCESS" /\ w \in Results
     /\ \/ retval = "SGX_SUCCESS" /\ len = Len(w)
        \/ retval = "SGX_ERROR" /\ len \in Lens

\* ecall_deploy as the untrusted side sees it.  A failed ecall (status)
\* never entered the enclave: nothing is written, output_len stays 0.  An
\* entered ecall wrote at most the buffer and reported a length: its
\* result's length on success (retval SGX_SUCCESS), any length otherwise.
EnclaveOutcome(status, retval, w, len) ==
  \/ status = "SGX_ERROR" /\ w = <<>> /\ len = 0
  \/ /\ status = "SGX_SUCCESS"
     /\ \E r \in Results :
          /\ w = SubSeq(r, 1, Min({Len(r), MAX_EVM_RESULT}))
          /\ \/ retval = "SGX_SUCCESS" /\ len = Len(r)
             \/ retval = "SGX_ERROR" /\ len \in Lens

\* the buffer after the enclave wrote w into it
Written(buf, w) == [i \in DOMAIN buf |-> IF i <= Len(w) THEN w[i] ELSE buf[i]]

Return(b, st, rv, w, len, kind, part) ==
  last' = [build |-> b, status |-> st, retval |-> rv, written |-> w,
           output_len |-> len, kind |-> kind, part |-> part]

\* wasm::deploy: build, call, slice[0..output_len], Ok(part).  Neither the
\* ecall status nor retval is read; a length past the buffer panics.
Deploy ==
  /\ ~crashed
  /\ calls < MaxCalls
  /\ calls' = calls + 1
  /\ \E b \in BuildOutcomes :
       LET built == BuildConstructor(b) IN
       \/ /\ built.kind = "Err"
          /\ Return(b, "none", "none", <<>>, 0, "Err", <<>>)
          /\ UNCHANGED <<out, crashed>>
       \/ /\ built.kind = "panic"
          /\ crashed' = TRUE
          /\ Return(b, "none", "none", <<>>, 0, "panic", <<>>)
          /\ UNCHANGED out
       \/ /\ built.kind = "Ok"
          /\ \E st, rv \in Statuses, w \in Results, len \in Lens :
               /\ EnclaveOutcome(st, rv, w, len)
               /\ out' = Written(OutputBuffer, w)
               /\ IF len > MAX_EVM_RESULT
                    THEN /\ crashed' = TRUE
                         /\ Return(b, st, rv, w, len, "panic", <<>>)
                    ELSE /\ UNCHANGED crashed
                         /\ Return(b, st, rv, w, len, "Ok",
                                   SubSeq(out', 1, len))

Init ==
  /\ out = ZeroBuffer
  /\ last = NoCall
  /\ crashed = FALSE
  /\ calls = 0

Next == Deploy

Spec == Init /\ [][Next]_vars

-----------------------------------------------------------------------------
(* Properties                                                              *)

TypeOK ==
  /\ out \in [1..MAX_EVM_RESULT -> Bytes \cup {0}]
  /\ last.kind \in {"none", "Ok", "Err", "panic"}
  /\ last.output_len \in Lens
  /\ last.written \in Seq(Bytes) /\ Len(last.written) <= MAX_EVM_RESULT
  /\ crashed \in BOOLEAN
  /\ calls \in 0..MaxCalls

\* Spec 4.3 and 7: a deploy that fails is reported to its caller as Err,
\* never as Ok and never by a panic: a malformed module (decode, build or
\* serialize error, before any enclave call), a non-success status of the
\* boundary call or of its retval, or an output longer than the buffer
\* (truncation, a BoundaryError).
DeployFailed ==
  \/ last.build \in {"decode_err", "build_err", "serialize_err"}
  \/ last.status = "SGX_ERROR" \/ last.retval = "SGX_ERROR"
  \/ last.output_len > MAX_EVM_RESULT
DeployFailureIsError == DeployFailed => last.kind = "Err"

=============================================================================
