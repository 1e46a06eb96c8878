----------------------------- MODULE IpcListener -----------------------------
(***************************************************************************)
(* The request dispatcher of enigma-core (app/src/networking/              *)
(* ipc_listener.rs) over the delta store.                                  *)
(*                                                                         *)
(* IpcListener::run forwards every multipart received on one ZMQ REP       *)
(* socket through handle_message and sends the result back: one batch at  *)
(* a time, one message of the batch after the other, on one thread.  Each *)
(* handler runs to completion (its DATABASE lock is taken and released     *)
(* inside it), so a handler is one atomic step.  A handler returning Err   *)
(* yields Message::default() for its slot; a handler that panics          *)
(* (unimplemented!, expect, unwrap, clone_from_slice on a wrong length)   *)
(* unwinds out of handle_message, out of the stream and out of run: no    *)
(* response is sent for the batch and the listener serves nothing more.   *)
(*                                                                         *)
(* Hex decoding is abstracted to well-formed or not: an address field is   *)
(* an element of Addrs or BadHex, a blob an element of Data or BadHex, a  *)
(* user public key "ok", "badhex" (from_hex fails) or "badlen" (decodes   *)
(* to other than 64 bytes).  Calls into the enclave (key management,      *)
(* attestation, deploy, execute) succeed or fail nondeterministically.    *)
(***************************************************************************)
EXTENDS Naturals, Sequences, FiniteSets, SequencesExt

CONSTANTS
  Addrs, Indices, Data, ByteCode, EmptyBytes,
  BadHex,     \* a hex string from_hex / from_hex_32 rejects
  Missing,    \* an Option field that is None
  Default,    \* Message::default(): the empty response frame
  Requests,   \* the requests a client may send
  MaxBatch    \* bound: messages per multipart

ASSUME MaxBatch \in Nat \ {0}

VARIABLES
  db,        \* DATABASE
  req,       \* the multipart being handled
  pos,       \* index of the next message of req to handle
  resp,      \* the response multipart built so far
  status     \* "idle", "busy" (inside handle_message) or "crashed"

vars == <<db, req, pos, resp, status>>

Store == INSTANCE DeltaStore

PubKeys == {"ok", "badhex", "badlen"}
Batches == UNION {[1..n -> Requests] : n \in 1..MaxBatch}

-----------------------------------------------------------------------------
(* Handler outcomes                                                        *)

\* response.push_back(response_msg.unwrap_or_default()) for an Ok message
Respond(r) ==
  /\ resp' = Append(resp, r)
  /\ pos' = pos + 1
  /\ UNCHANGED <<req, status>>

\* mutant: an Err result skipped instead of answered with the default
FailDropsSlot ==
  /\ pos' = pos + 1
  /\ UNCHANGED <<req, resp, status>>

\* ... for an Err: the default message takes the slot
Fail == Respond(Default)

\* a panic unwinds out of handle_message and IpcListener::run
Panic ==
  /\ status' = "crashed"
  /\ UNCHANGED <<db, req, pos, resp>>

IsAddr(x) == x \in Addrs

-----------------------------------------------------------------------------
(* Handlers (module handling)                                              *)

\* get_registration_params: signing address, quote (retry_quote, 18
\* attempts), attestation report; the assert_eq on the report data panics
GetRegistrationParams(m) ==
  /\ UNCHANGED db
  /\ \/ Respond([op |-> "GetRegistrationParams"])
     \/ Fail
     \/ Panic

\* identity_challange: unimplemented!()
IdentityChallenge(m) == UNCHANGED db /\ Panic

\* get_tip: from_hex_32, then get_tip (NotFound without deltas)
GetTip(m) ==
  /\ UNCHANGED db
  /\ IF IsAddr(m.addr) /\ Store!HasDeltas(m.addr)
       THEN Respond([op |-> "GetTip", tips |-> <<Store!Tip(m.addr)>>])
       ELSE Fail

\* get_tips: the first bad address or address without deltas fails the
\* whole message
GetTips(m) ==
  /\ UNCHANGED db
  /\ IF \A i \in DOMAIN m.addrs : IsAddr(m.addrs[i]) /\ Store!HasDeltas(m.addrs[i])
       THEN Respond([op |-> "GetTips",
                     tips |-> [i \in DOMAIN m.addrs |-> Store!Tip(m.addrs[i])]])
       ELSE Fail

\* get_all_tips / get_all_addrs: a store error reads as empty
GetAllTips(m) ==
  /\ UNCHANGED db
  /\ Respond([op |-> "GetAllTips", tips |-> SetToSeq(Store!AllTips)])

GetAllAddrs(m) ==
  /\ UNCHANGED db
  /\ Respond([op |-> "GetAllAddrs", addrs |-> Store!AllAddresses])

\* get_delta: address required, then get_delta on (address, Delta(key))
GetDelta(m) ==
  /\ UNCHANGED db
  /\ IF IsAddr(m.addr) /\ <<m.addr, m.key>> \in DOMAIN db
       THEN Respond([op |-> "GetDelta", delta |-> db[<<m.addr, m.key>>]])
       ELSE Fail

\* get_deltas: per range, None pushes IpcDelta::default(), otherwise the
\* deltas of the range; a bad address fails the whole message

RangeResult(r) ==
  LET ds == Store!Deltas(r.addr, r.from, r.to)
  IN IF ds = <<>> THEN <<Default>> ELSE ds

GetDeltas(m) ==
  /\ UNCHANGED db
  /\ IF \A i \in DOMAIN m.ranges : IsAddr(m.ranges[i].addr)
       THEN Respond([op |-> "GetDeltas",
                     deltas |-> FlattenSeq([i \in DOMAIN m.ranges |->
                                              RangeResult(m.ranges[i])])])
       ELSE Fail

\* get_contract: the bytecode, or empty bytes for an unknown address
GetContract(m) ==
  /\ UNCHANGED db
  /\ IF IsAddr(m.addr)
       THEN Respond([op |-> "GetContract", code |-> Store!Contract(m.addr)])
       ELSE Fail

\* mutant: the bytecode stored without being hex-decoded first
BytecodeDecodesUnchecked(code) == TRUE

\* bytecode.from_hex()?
BytecodeDecodes(code) == code \in Data

\* DeltaKey::new(address_arr, Stype::ByteCode)
BytecodeKey(a) == <<a, ByteCode>>

\* update_new_contract: force_update of (address, ByteCode)
UpdateNewContract(m) ==
  IF IsAddr(m.addr) /\ BytecodeDecodes(m.code)
    THEN \/ db' = Store!ForceUpdate(BytecodeKey(m.addr), m.code)
            /\ Respond([op |-> "UpdateNewContract", status |-> 0])
         \/ UNCHANGED db /\ Fail        \* force_update returns Err
    ELSE UNCHANGED db /\ Fail

\* update_deltas: every entry is decoded before anything is inserted; a
\* missing or malformed address or delta fails the whole message
WellFormedDelta(e) == IsAddr(e.addr) /\ e.delta \in Data

\* mutant: the entry keyed with Stype::ByteCode instead of Stype::Delta
DeltaTupleByteCode(e) == [key |-> <<e.addr, ByteCode>>, data |-> e.delta]

DeltaTuple(e) == [key |-> <<e.addr, e.key>>, data |-> e.delta]

\* status = 0, set to 1 when res.is_err()
EntryStatus(res) == IF res = "ok" THEN 0 ELSE 1

UpdateDeltas(m) ==
  IF \A i \in DOMAIN m.deltas : WellFormedDelta(m.deltas[i])
    THEN LET tuples == [i \in DOMAIN m.deltas |-> DeltaTuple(m.deltas[i])]
         IN \E failed \in SUBSET DOMAIN tuples :
              LET r == Store!InsertTuples(tuples, failed)
              IN /\ db' = r[1]
                 /\ Respond([op |-> "UpdateDeltas",
                             errors |-> [i \in DOMAIN tuples |->
                                 [key |-> tuples[i].key,
                                  status |-> EntryStatus(r[2][i])]]])
    ELSE UNCHANGED db /\ Fail

\* get_dh_user_key: from_hex().unwrap() and clone_from_slice panic first;
\* km_u::get_user_key? may fail, and Deserialize(..).unwrap() panics on an
\* enclave message that is not MessagePack
NewTaskEncryptionKey(m) ==
  /\ UNCHANGED db
  /\ IF m.pubkey = "ok"
       THEN Respond([op |-> "NewTaskEncryptionKey"]) \/ Fail \/ Panic
       ELSE Panic

\* get_ptt_req: every address decoded, then km_u::ptt_req
GetPTTRequest(m) ==
  /\ UNCHANGED db
  /\ IF IsAddr(m.addr)
       THEN Respond([op |-> "GetPTTRequest"]) \/ Fail
       ELSE Fail

\* deploy_contract: pre_code.expect(..) panics on None; hex errors return
\* Err; a key of the wrong length panics in clone_from_slice; wasm::deploy
\* runs in the enclave.  Nothing is written to DATABASE.
DeploySecretContract(m) ==
  /\ UNCHANGED db
  /\ CASE m.pre_code = Missing -> Panic
       [] m.pre_code \notin Data \/ ~IsAddr(m.addr) \/ m.pubkey = "badhex" -> Fail
       [] m.pubkey = "badlen" -> Panic
       [] OTHER -> \/ Respond([op |-> "DeploySecretContract", addr |-> m.addr])
                   \/ Fail

\* compute_task: hex errors return Err; clone_from_slice panics on a key
\* of the wrong length; get_contract; wasm::execute runs in the enclave
ComputeTask(m) ==
  /\ UNCHANGED db
  /\ CASE ~IsAddr(m.addr) \/ m.pubkey = "badhex" -> Fail
       [] m.pubkey = "badlen" -> Panic
       [] OTHER -> \/ Respond([op |-> "ComputeTask",
                               code |-> Store!Contract(m.addr)])
                   \/ Fail

\* handle_message: the match on IpcRequest
Handle(m) ==
  CASE m.op = "GetRegistrationParams" -> GetRegistrationParams(m)
    [] m.op = "IdentityChallenge"     -> IdentityChallenge(m)
    [] m.op = "GetTip"                -> GetTip(m)
    [] m.op = "GetTips"               -> GetTips(m)
    [] m.op = "GetAllTips"            -> GetAllTips(m)
    [] m.op = "GetAllAddrs"           -> GetAllAddrs(m)
    [] m.op = "GetDelta"              -> GetDelta(m)
    [] m.op = "GetDeltas"             -> GetDeltas(m)
    [] m.op = "GetContract"           -> GetContract(m)
    [] m.op = "UpdateNewContract"     -> UpdateNewContract(m)
    [] m.op = "UpdateDeltas"          -> UpdateDeltas(m)
    [] m.op = "NewTaskEncryptionKey"  -> NewTaskEncryptionKey(m)
    [] m.op = "GetPTTRequest"         -> GetPTTRequest(m)
    [] m.op = "DeploySecretContract"  -> DeploySecretContract(m)
    [] m.op = "ComputeTask"           -> ComputeTask(m)

-----------------------------------------------------------------------------
(* The listener                                                            *)

\* the REP socket delivers a multipart
Receive ==
  /\ status = "idle"
  /\ \E b \in Batches :
       /\ req' = b
       /\ pos' = 1
       /\ resp' = <<>>
       /\ status' = "busy"
  /\ UNCHANGED db

\* handle_message: the next message of the batch
HandleMessage ==
  /\ status = "busy"
  /\ pos <= Len(req)
  /\ Handle(req[pos])

\* handle_message returns; the sink sends the response multipart
Reply ==
  /\ status = "busy"
  /\ pos > Len(req)
  /\ status' = "idle"
  /\ req' = <<>>
  /\ pos' = 1
  /\ resp' = <<>>
  /\ UNCHANGED db

Init ==
  /\ db = <<>>
  /\ req = <<>>
  /\ pos = 1
  /\ resp = <<>>
  /\ status = "idle"

Next == Receive \/ HandleMessage \/ Reply

\* handle_message runs to completion on the listener thread once started
Fairness == WF_vars(HandleMessage) /\ WF_vars(Reply)

Spec == Init /\ [][Next]_vars /\ Fairness

-----------------------------------------------------------------------------
(* Properties                                                              *)

TypeOK ==
  /\ DOMAIN db \subseteq Store!Keys
  /\ \A k \in DOMAIN db : db[k] \in Data
  /\ status \in {"idle", "busy", "crashed"}
  /\ req \in Seq(Requests) /\ Len(req) <= MaxBatch
  /\ pos \in 1..(MaxBatch + 1)
  /\ Len(resp) <= Len(req)

\* The response multipart sent for a batch has one message per request, in
\* request order: each is the default message or the response of the
\* request at the same position (spec 4.2).
RepliesAligned ==
  [][Reply =>
       /\ Len(resp) = Len(req)
       /\ \A i \in DOMAIN req : resp[i] = Default \/ resp[i].op = req[i].op]_vars

\* The bytecode slot of an address is written only by an UpdateNewContract
\* request for that address, and holds its bytes afterwards; no request
\* removes it.  The ordinary update operation (UpdateDeltas) and every
\* read leave it alone: force_update is reachable from the administrative
\* path only (spec 3).
BytecodeOnlyByUpdateNewContract ==
  [][\A a \in Addrs :
       LET k == <<a, ByteCode>>
       IN /\ k \in DOMAIN db => k \in DOMAIN db'
          /\ (k \in DOMAIN db' /\ (k \in DOMAIN db => db'[k] # db[k]))
               => /\ status = "busy" /\ pos <= Len(req)
                  /\ req[pos].op = "UpdateNewContract" /\ req[pos].addr = a
                  /\ db'[k] = req[pos].code]_db

\* Every batch the listener starts handling is eventually answered: a
\* failing message does not stop the others (spec 4.2).
EveryBatchAnswered == [](status = "busy" => <>(status = "idle"))

\* the message the step appended to the response multipart
NewMessage == resp'[Len(resp')]

\* An UpdateDeltas message that carries a well-formed entry gets per-entry
\* results, whatever its other entries hold (spec 7, 8).
WellFormedDeltasReported ==
  [][(/\ status = "busy" /\ pos <= Len(req)
      /\ req[pos].op = "UpdateDeltas"
      /\ \E i \in DOMAIN req[pos].deltas : WellFormedDelta(req[pos].deltas[i]))
     => Len(resp') = Len(resp) + 1 /\ NewMessage # Default]_vars

\* After a successful DeploySecretContract the address resolves through
\* GetContract to stored bytecode (spec 8, end-to-end).
DeployedContractResolvable ==
  \A i \in DOMAIN resp :
     (resp[i] # Default /\ resp[i].op = "DeploySecretContract") =>
        <<resp[i].addr, ByteCode>> \in DOMAIN db

=============================================================================
