------------------------------ MODULE BondStore ------------------------------
(***************************************************************************)
(* The bond store (bond_store.c) and its keys.db format, saved to a file   *)
(* whose writing may be cut short and read back.  The checksum is          *)
(* abstracted to the payload it was computed over.                         *)
(***************************************************************************)
EXTENDS Naturals, Sequences, SequencesExt

CONSTANTS
  Adapters, Peers, BondKeys,
  MaxEntries,  \* BT_BOND_STORE_MAX_ENTRIES
  MaxSaves     \* bound: calls of serialize

ASSUME BondAssumption == MaxEntries \in Nat \ {0} /\ MaxSaves \in Nat

VARIABLES
  store,   \* struct bt_bond_store: its entries
  file,    \* the bytes of keys.db: the header and the records that follow it
  intact,  \* history: the store in the file when it was written to its end
  saved,   \* history: every store serialized
  saves    \* bound: the number of saves

bondVars == <<store, file, intact, saved, saves>>

InvalidKey == "invalid"   \* an entry that entry_valid rejects
Unknown == [adapter |-> "none", peer |-> "none", key |-> "unknown"]   \* a record of another type
Entries == [adapter : Adapters, peer : Peers, key : BondKeys]

Valid(record) == record.key # InvalidKey

NoFile == [count |-> 0, len |-> 1, crc |-> <<>>, payload |-> <<>>]

BondInit == store = <<>> /\ file = NoFile /\ intact = <<>> /\ saved = {} /\ saves = 0

-----------------------------------------------------------------------------
SameBond(e, adapter, peer) == e.adapter = adapter /\ e.peer = peer

(* bt_bond_store_find: the index of the entry, or 0. *)
BondFind(adapter, peer) == SelectInSeq(store, LAMBDA e : SameBond(e, adapter, peer))

(* bt_bond_store_upsert. *)
Upsert(entry) ==
  LET i == BondFind(entry.adapter, entry.peer)
  IN /\ Valid(entry)
     /\ i # 0 \/ Len(store) < MaxEntries
     /\ store' = IF i # 0 THEN [store EXCEPT ![i] = entry] ELSE Append(store, entry)
     /\ UNCHANGED <<file, intact, saved, saves>>

(* bt_bond_store_remove. *)
RemoveBond(adapter, peer) ==
  LET i == BondFind(adapter, peer)
  IN i # 0 /\ store' = RemoveAt(store, i) /\ UNCHANGED <<file, intact, saved, saves>>

-----------------------------------------------------------------------------
(* bt_bond_store_serialize: count, length and checksum are those of payload. *)
Header(count, payload) ==
  [count |-> count, len |-> Len(payload), crc |-> payload, payload |-> payload]
Serialize == Header(Len(store), store)

(* The file is written from its start: n records of the new database are in *)
(* it, and beyond them nothing or what was there before.                    *)
WriteUpTo(db, n, over) ==
  [db EXCEPT !.payload = SubSeq(db.payload, 1, n) \o
     (IF over THEN SubSeq(file.payload, n + 1, Len(file.payload)) ELSE <<>>)]

Save(n, over) ==
  /\ saves < MaxSaves /\ \A i \in DOMAIN store : Valid(store[i])
  /\ saved' = saved \cup {store} /\ saves' = saves + 1
  /\ file' = WriteUpTo(Serialize, n, over)
  /\ intact' = IF file' = Serialize THEN store ELSE <<>>
  /\ UNCHANGED store

(* A later version has added a record that this one does not know. *)
Extend(i) ==
  /\ file = Header(Len(intact), intact) /\ intact # <<>>
  /\ file' = Header(Len(intact), InsertAt(intact, i, Unknown))
  /\ UNCHANGED <<store, intact, saved, saves>>

Known(payload) == SelectSeq(payload, LAMBDA r : r # Unknown)

Counted(payload) == Len(Known(payload))

(* validate_payload. *)
ValidatePayload(db) ==
  /\ \A i \in DOMAIN db.payload : Valid(db.payload[i])
  /\ Counted(db.payload) <= MaxEntries /\ Counted(db.payload) = db.count

(* Fault: the checksum is not compared. *)
ChecksumAny(db) == TRUE

Checksum(db) == db.crc = db.payload

(* bt_bond_store_deserialize: nothing changes unless the whole file is good. *)
Accepts(db) ==
  db.len = Len(db.payload) /\ db.count <= MaxEntries /\ Checksum(db) /\ ValidatePayload(db)

Deserialize ==
  /\ Accepts(file)
  /\ store' = Known(file.payload) /\ UNCHANGED <<file, intact, saved, saves>>

(* bt_bond_store_init, after a restart. *)
Restart == store' = <<>> /\ UNCHANGED <<file, intact, saved, saves>>

BondNext ==
  \/ \E a \in Adapters, p \in Peers :
       RemoveBond(a, p) \/ \E k \in BondKeys : Upsert([adapter |-> a, peer |-> p, key |-> k])
  \/ \E n \in 0..Len(store), over \in BOOLEAN : Save(n, over)
  \/ \E i \in 1..Len(intact) + 1 : Extend(i)
  \/ Deserialize \/ Restart

BondSpec == BondInit /\ [][BondNext]_bondVars

-----------------------------------------------------------------------------
BondTypeOK ==
  /\ store \in Seq(Entries) /\ Len(store) <= MaxEntries
  /\ \A i \in DOMAIN store : store[i].key # InvalidKey

Identity(e) == <<e.adapter, e.peer>>
MapOf(s) ==
  [id \in {Identity(s[i]) : i \in DOMAIN s} |->
     s[SelectInSeq(s, LAMBDA e : Identity(e) = id)].key]

(* The store is a map from (adapter, peer) to keys: an update replaces, a  *)
(* removal leaves nothing of the entry and everything of the others, and   *)
(* what is loaded is one whole store that was saved, however the writing   *)
(* of the file was cut short.                                              *)
Map == INSTANCE BondMap WITH Identities <- Adapters \X Peers,
         Keys <- BondKeys \ {InvalidKey}, bonds <- MapOf(store), kept <- {MapOf(s) : s \in saved}
MapSpec == Map!Spec

(* A file written to its end loads, and loads what was saved, also when a  *)
(* later version added records to it.                                      *)
IntactLoads == intact # <<>> => Accepts(file) /\ Known(file.payload) = intact
=============================================================================
