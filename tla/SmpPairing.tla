----------------------------- MODULE SmpPairing -----------------------------
(***************************************************************************)
(* What two devices agree on from their pairing features (smp_pairing.c).  *)
(* Features that the codec or features_valid reject, the key size and the  *)
(* bonding flag are left out.                                              *)
(***************************************************************************)
EXTENDS Naturals

DisplayOnly == 0
DisplayYesNo == 1
KeyboardOnly == 2
NoInputNoOutput == 3
KeyboardDisplay == 4
IoCapabilities == 0..4

Keys == {"enc", "id", "sign", "link"}
HasYesNo(io) == io \in {DisplayYesNo, KeyboardDisplay}

(* Fault: who displays and who types is confused. *)
IoAssociationSwapped(i, r, sc) ==
  IF sc /\ HasYesNo(i) /\ HasYesNo(r) THEN "NUMERIC"
  ELSE IF i = NoInputNoOutput \/ r = NoInputNoOutput THEN "JUST_WORKS"
  ELSE IF r = KeyboardOnly THEN "RESPONDER_DISPLAYS"
  ELSE IF i = KeyboardOnly THEN "INITIATOR_DISPLAYS" ELSE "JUST_WORKS"

IoAssociation(i, r, sc) ==
  IF sc /\ HasYesNo(i) /\ HasYesNo(r) THEN "NUMERIC"
  ELSE IF i = NoInputNoOutput \/ r = NoInputNoOutput THEN "JUST_WORKS"
  ELSE IF i = KeyboardOnly THEN IF r = KeyboardOnly THEN "BOTH_INPUT" ELSE "RESPONDER_DISPLAYS"
  ELSE IF r = KeyboardOnly THEN "INITIATOR_DISPLAYS"
  ELSE "JUST_WORKS"

Acceptable(q, r) == r.ikeys \subseteq q.ikeys /\ r.rkeys \subseteq q.rkeys

(* bt_smp_negotiate_pairing, of a request and an acceptable response. *)
Negotiate(q, r) ==
  LET sc == q.sc /\ r.sc
      mitm == q.mitm \/ r.mitm
  IN [sc |-> sc, mitm |-> mitm, ikeys |-> r.ikeys, rkeys |-> r.rkeys,
      assoc |-> IF (sc /\ (q.oob \/ r.oob)) \/ (~sc /\ q.oob /\ r.oob) THEN "OOB"
                ELSE IF ~mitm THEN "JUST_WORKS"
                ELSE IoAssociation(q.io, r.io, sc)]

-----------------------------------------------------------------------------
(* Table 2.8 of the Core specification, Vol 3 Part H. *)
CanShow(io) == io \in {DisplayOnly, DisplayYesNo, KeyboardDisplay}
CanType(io) == io \in {KeyboardOnly, KeyboardDisplay}
Table28(i, r, sc) ==
  IF sc /\ HasYesNo(i) /\ HasYesNo(r) THEN "NUMERIC"
  ELSE IF CanShow(i) /\ CanType(r) THEN "INITIATOR_DISPLAYS"
  ELSE IF CanShow(r) /\ CanType(i) THEN "RESPONDER_DISPLAYS"
  ELSE IF CanType(i) /\ CanType(r) THEN "BOTH_INPUT"
  ELSE "JUST_WORKS"
=============================================================================
