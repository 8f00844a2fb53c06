---------------------------- MODULE AclFragments ----------------------------
(***************************************************************************)
(* L2CAP PDUs on their way over one ACL link: the fragmenter and its loop  *)
(* in the channel manager, the transmit buffer of the transport, and the   *)
(* reassembler at the other end (l2cap.c, channel_manager.c).              *)
(*                                                                         *)
(* A PDU is its payload length; a byte is <<number of the send, position>>. *)
(* Lengths stay below 256, so the first byte of the header is the length.  *)
(***************************************************************************)
EXTENDS Naturals, Sequences, SequencesExt

CONSTANTS
  HeaderLen,  \* BT_L2CAP_HEADER_LEN
  Capacity,   \* BT_L2CAP_REASSEMBLY_MAX
  FragSizes,  \* the fragment sizes a controller may ask for
  Lengths,    \* payload lengths that are sent
  TxSlots,    \* packets the transport can hold; 1 for UART and USB
  MaxSends    \* bound on the number of PDUs

ASSUME AclAssumption ==
  /\ HeaderLen \in Nat \ {0} /\ Capacity \in Nat /\ TxSlots \in Nat \ {0} /\ MaxSends \in Nat
  /\ FragSizes \subseteq Nat \ {0} /\ Lengths \subseteq 0..255

VARIABLES
  fragSize,  \* acl_frag_size
  sends,     \* history: the PDUs given to send(), each with its result
  tx,        \* fragments the transport holds
  ra,        \* the reassembler: buf (have is its length) and want
  delivered  \* history: the PDUs that came out

aclVars == <<fragSize, sends, tx, ra, delivered>>

AclIdle == [buf |-> <<>>, want |-> 0]

AclInit ==
  /\ fragSize \in FragSizes
  /\ sends = <<>> /\ tx = <<>> /\ ra = AclIdle /\ delivered = <<>>

-----------------------------------------------------------------------------
AclPdu(k, len) == [i \in 1..(HeaderLen + len) |-> <<k, i>>]

Min2(a, b) == IF a <= b THEN a ELSE b

(* bt_l2cap_fragmenter_next, the i-th time. *)
Fragment(pdu, i) ==
  [first |-> i = 1,
   data |-> SubSeq(pdu, (i - 1) * fragSize + 1, Min2(i * fragSize, Len(pdu)))]

Count(pdu) == (Len(pdu) + fragSize - 1) \div fragSize

(* send_fragmented: fragment after fragment, until one is refused. *)
Send(len) ==
  LET k == Len(sends) + 1
      pdu == AclPdu(k, len)
      taken == Min2(Count(pdu), TxSlots - Len(tx))
  IN /\ k <= MaxSends
     /\ tx' = tx \o [i \in 1..taken |-> Fragment(pdu, i)]
     /\ sends' = Append(sends, [len |-> len, ok |-> taken = Count(pdu)])
     /\ UNCHANGED <<fragSize, ra, delivered>>

-----------------------------------------------------------------------------
(* The first half of bt_l2cap_reassembler_feed. *)
Fill(r, f) ==
  IF (f.first /\ Len(f.data) <= Capacity)
     \/ (~f.first /\ r.buf # <<>> /\ Len(r.buf) + Len(f.data) <= Capacity)
  THEN [buf |-> IF f.first THEN f.data ELSE r.buf \o f.data,
        want |-> IF f.first THEN 0 ELSE r.want]
  ELSE AclIdle

(* The length the header in the buffer declares: that of the PDU its first *)
(* byte belongs to.                                                        *)
Declared(r) == sends[r.buf[1][1]].len

(* Fault: the length of the header itself is forgotten. *)
KnownShort(r) ==
  IF r.want = 0 /\ Len(r.buf) >= HeaderLen THEN [r EXCEPT !.want = Declared(r)] ELSE r

Known(r) ==
  IF r.want = 0 /\ Len(r.buf) >= HeaderLen THEN [r EXCEPT !.want = HeaderLen + Declared(r)] ELSE r

Refused(k) == k.want # 0 /\ (k.want > Capacity \/ Len(k.buf) > k.want)

(* finalize_header_and_check. *)
Check(r) == LET k == Known(r) IN IF Refused(k) THEN AclIdle ELSE k

(* bt_l2cap_channel_manager_on_acl, as far as the complete PDU. *)
OnAcl ==
  /\ tx # <<>>
  /\ tx' = Tail(tx)
  /\ LET r == Check(Fill(ra, Head(tx))) IN
       IF r.want # 0 /\ Len(r.buf) = r.want
       THEN ra' = AclIdle /\ delivered' = Append(delivered, r.buf)
       ELSE ra' = r /\ UNCHANGED delivered
  /\ UNCHANGED <<fragSize, sends>>

AclNext == OnAcl \/ \E len \in Lengths : Send(len)

AclSpec == AclInit /\ [][AclNext]_aclVars

-----------------------------------------------------------------------------
Byte == (1..MaxSends) \X Nat

(* The buffer never holds, and never expects, more than its capacity. *)
AclTypeOK ==
  /\ fragSize \in FragSizes /\ Len(tx) <= TxSlots
  /\ sends \in Seq([len : Lengths, ok : BOOLEAN])
  /\ \A i \in DOMAIN tx : tx[i].first \in BOOLEAN /\ tx[i].data \in Seq(Byte)
  /\ ra.buf \in Seq(Byte) /\ Len(ra.buf) <= Capacity /\ ra.want \in 0..Capacity
  /\ delivered \in Seq(Seq(Byte))

(* What comes out is what went in: once the link is quiet, the PDUs        *)
(* delivered are exactly those whose send reported success and that fit    *)
(* the reassembler, whole, unmixed and in order, whatever PDUs were cut    *)
(* off by a refused fragment or were too long.                             *)
ExactlyTheSent ==
  tx = <<>> =>
    LET good == SelectSeq([k \in DOMAIN sends |-> k],
                  LAMBDA k : sends[k].ok /\ HeaderLen + sends[k].len <= Capacity)
    IN delivered = [j \in DOMAIN good |-> AclPdu(good[j], sends[good[j]].len)]

(* l2cap_channel.h on send: "Sends data on an OPEN channel, fragmenting    *)
(* over ACL as needed": with nothing waiting in the transport, a send      *)
(* succeeds.                                                               *)
SendFragmentsAsNeeded ==
  [][tx = <<>> /\ Len(sends') > Len(sends) => sends'[Len(sends')].ok]_aclVars
=============================================================================
