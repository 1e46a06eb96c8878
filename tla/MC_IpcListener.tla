---------------------------- MODULE MC_IpcListener ----------------------------
(* Instantiates IpcListener for TLC: delta indices 0 and 1, two blobs.    *)
(* The request universe holds every operation with each of its           *)
(* well-formed and malformed field shapes for address a1, but few         *)
(* payloads.  A second address a2 enters only through the requests that  *)
(* write or read more than one address: a delta and a bytecode for a2,   *)
(* GetTips of both, and GetDeltas with one range of each.  The store     *)
(* outlives a batch, so a write followed by a read is reached over two   *)
(* batches; a batch of two pairs any request with one of a few store     *)
(* requests, enough for one message's failure or panic to meet the next. *)
EXTENDS IpcListener, TLC

CONSTANTS a1, a2, d1, d2

MCAddrs == {a1, a2}
MCData == {d1, d2}
HexAddrs == {a1, BadHex}

DeltaEntries ==
  {[addr |-> a1, key |-> k, delta |-> d] : k \in {0, 1}, d \in MCData}
  \cup {[addr |-> Missing, key |-> 0, delta |-> d1],
        [addr |-> a1, key |-> 1, delta |-> BadHex]}

\* every operation, each field well-formed or not
MCRequests ==
  {[op |-> o] : o \in {"GetRegistrationParams", "IdentityChallenge",
                       "GetAllTips", "GetAllAddrs"}}
  \cup [op : {"GetTip", "GetContract", "GetPTTRequest"}, addr : HexAddrs]
  \cup [op : {"GetTips"}, addrs : {<<a>> : a \in HexAddrs}]
  \cup [op : {"GetDelta"}, addr : HexAddrs \cup {Missing}, key : {0, 1}]
  \cup [op : {"GetDeltas"},
        ranges : {<<[addr |-> a, from |-> f, to |-> t]>> :
                    a \in HexAddrs, f \in {0, 1}, t \in {1, 2}}]
  \cup [op : {"UpdateNewContract"}, addr : HexAddrs, code : {d1, BadHex}]
  \cup {[op |-> "UpdateNewContract", addr |-> a2, code |-> d2],
        [op |-> "GetTips", addrs |-> <<a1, a2>>],
        [op |-> "GetDeltas",
         ranges |-> <<[addr |-> a1, from |-> 0, to |-> 2],
                      [addr |-> a2, from |-> 0, to |-> 1]>>]}
  \cup [op : {"UpdateDeltas"},
        deltas : {<<e>> : e \in DeltaEntries}
                 \cup {<<e, f>> : e, f \in {x \in DeltaEntries : x.delta = d1}}
                 \cup {<<[addr |-> a1, key |-> 0, delta |-> d1],
                         [addr |-> a1, key |-> 0, delta |-> d2]>>,
                       <<[addr |-> a1, key |-> 0, delta |-> d1],
                         [addr |-> Missing, key |-> 0, delta |-> d1]>>,
                       <<[addr |-> a2, key |-> 0, delta |-> d2]>>}]
  \cup [op : {"NewTaskEncryptionKey"}, pubkey : PubKeys]
  \cup [op : {"DeploySecretContract"}, addr : HexAddrs,
        pre_code : {d1, BadHex, Missing}, pubkey : PubKeys]
  \cup [op : {"ComputeTask"}, addr : HexAddrs, pubkey : PubKeys]

\* the second message of a two-message batch
SecondRequests ==
  {[op |-> "GetAllTips"], [op |-> "IdentityChallenge"],
   [op |-> "GetTip", addr |-> a1], [op |-> "GetTip", addr |-> BadHex],
   [op |-> "GetTips", addrs |-> <<a1, a2>>],
   [op |-> "GetContract", addr |-> a1],
   [op |-> "GetDeltas",
    ranges |-> <<[addr |-> a1, from |-> 0, to |-> 2],
                 [addr |-> a2, from |-> 0, to |-> 1]>>],
   [op |-> "UpdateNewContract", addr |-> a1, code |-> d1],
   [op |-> "UpdateDeltas", deltas |-> <<[addr |-> a1, key |-> 1, delta |-> d1]>>]}

MCBatches ==
  {<<r>> : r \in MCRequests} \cup {<<r, q>> : r \in MCRequests, q \in SecondRequests}

==============================================================================
