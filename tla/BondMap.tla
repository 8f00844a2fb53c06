------------------------------- MODULE BondMap -------------------------------
(***************************************************************************)
(* What the bond store promises: a map from identities to keys of bounded  *)
(* size that can be set aside whole and taken back whole.                  *)
(***************************************************************************)
EXTENDS FiniteSets, Naturals

CONSTANTS Identities, Keys, MaxEntries

VARIABLES
  bonds,  \* the map
  kept    \* the maps set aside

vars == <<bonds, kept>>

Init == bonds = [i \in {} |-> {}] /\ kept = {}

Put(id, key) ==
  /\ id \in DOMAIN bonds \/ Cardinality(DOMAIN bonds) < MaxEntries
  /\ bonds' = [i \in DOMAIN bonds \cup {id} |-> IF i = id THEN key ELSE bonds[i]]
  /\ UNCHANGED kept

Drop(id) == bonds' = [i \in DOMAIN bonds \ {id} |-> bonds[i]] /\ UNCHANGED kept

Keep == kept' = kept \cup {bonds} /\ UNCHANGED bonds

Clear == bonds' = [i \in {} |-> {}] /\ UNCHANGED kept

Restore == bonds' \in kept /\ UNCHANGED kept

Next ==
  \/ \E id \in Identities : Drop(id) \/ \E key \in Keys : Put(id, key)
  \/ Keep \/ Restore \/ Clear

Spec == Init /\ [][Next]_vars
=============================================================================
