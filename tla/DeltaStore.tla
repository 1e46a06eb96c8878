----------------------------- MODULE DeltaStore -----------------------------
(***************************************************************************)
(* The delta store behind DATABASE (enigma-core, crate::db).  Its code is  *)
(* not part of this repository's sources: the operations are modelled from *)
(* the contract in spec.md 4.1 and the way ipc_listener.rs calls them.     *)
(*                                                                         *)
(* The store is a partial function from keys (address, slot) to bytes.   *)
(* A slot is ByteCode or a delta index.  Deltas are inserted once and      *)
(* never rewritten; the bytecode slot is written through force_update.     *)
(***************************************************************************)
EXTENDS Naturals, Sequences, FiniteSets, SequencesExt, FiniteSetsExt

CONSTANTS
  Addrs,      \* contract addresses (32-byte hashes)
  Indices,    \* delta indices (Stype::Delta(u32)) the model uses
  Data,       \* delta and bytecode blobs
  ByteCode,   \* Stype::ByteCode
  EmptyBytes  \* the empty Vec<u8> get_contract's caller defaults to

ASSUME Indices \subseteq Nat /\ ByteCode \notin Nat

VARIABLE db

Slots == {ByteCode} \cup Indices
Keys == Addrs \X Slots
IsDeltaKey(k) == k[2] # ByteCode

\* db with k mapped to v
Put(d, k, v) == [x \in DOMAIN d \cup {k} |-> IF x = k THEN v ELSE d[x]]

-----------------------------------------------------------------------------
(* Reads                                                                   *)

DeltaIndices(a) == {i \in Indices : <<a, i>> \in DOMAIN db}

HasDeltas(a) == DeltaIndices(a) # {}

\* get_tip(address): the delta with the greatest stored index
TipIndex(a) == Max(DeltaIndices(a))
Tip(a) == [addr |-> a, key |-> TipIndex(a), delta |-> db[<<a, TipIndex(a)>>]]

\* get_all_tips(): one tip per address that has deltas
AllTips == {Tip(a) : a \in {x \in Addrs : HasDeltas(x)}}

\* get_all_addresses()
AllAddresses == {k[1] : k \in DOMAIN db}

\* get_deltas(from, to): the deltas of [from, to) in increasing index order,
\* or None when the range holds no delta
InRange(a, from, to) == {i \in DeltaIndices(a) : from <= i /\ i < to}
Deltas(a, from, to) ==
  LET idx == SetToSortSeq(InRange(a, from, to), <)
  IN [j \in 1..Len(idx) |-> [addr |-> a, key |-> idx[j],
                             delta |-> db[<<a, idx[j]>>]]]

\* get_contract(address): the bytecode, or the empty result for an
\* address with no bytecode
Contract(a) ==
  IF <<a, ByteCode>> \in DOMAIN db THEN db[<<a, ByteCode>>] ELSE EmptyBytes

-----------------------------------------------------------------------------
(* Writes                                                                  *)

\* insert_tuples(tuples): applied one by one; a tuple whose key is already
\* stored (by an earlier call or an earlier tuple of this call) or whose
\* write fails (i \in failed) gets Err and changes nothing.  This is spec
\* 4.1 and 3; test_real_listener (ipc_listener.rs:340) unwraps every
\* result of a call with duplicate keys, i.e. expects them accepted.  The result is
\* <<new db, per-tuple results>>.
RECURSIVE InsertFrom(_, _, _, _)
InsertFrom(d, tuples, failed, i) ==
  IF i > Len(tuples) THEN <<d, <<>>>>
  ELSE
    LET k  == tuples[i].key
        ok == k \notin DOMAIN d /\ i \notin failed
        d2 == IF ok THEN Put(d, k, tuples[i].data) ELSE d
        rest == InsertFrom(d2, tuples, failed, i + 1)
    IN <<rest[1], <<IF ok THEN "ok" ELSE "err">> \o rest[2]>>

InsertTuples(tuples, failed) == InsertFrom(db, tuples, failed, 1)

\* force_update(key, value): unconditional overwrite
ForceUpdate(k, v) == Put(db, k, v)

=============================================================================
