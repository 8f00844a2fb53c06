------------------------------ MODULE H4Framer ------------------------------
(***************************************************************************)
(* The H4 receiver (h4.c): a stream of bytes, cut anywhere into reads,     *)
(* becomes HCI packets.                                                    *)
(***************************************************************************)
EXTENDS Naturals, Sequences, SequencesExt

CONSTANTS
  MaxPacket,  \* BT_H4_MAX_PACKET_SIZE
  Bytes,      \* the byte values the controller sends
  MaxChunk,   \* the longest read
  MaxStream   \* bound on the number of bytes received

ASSUME H4Assumption ==
  Bytes \subseteq 0..255 /\ MaxPacket \in Nat /\ MaxChunk \in Nat \ {0} /\ MaxStream \in Nat

VARIABLES
  rx,        \* struct bt_h4_rx: the wire type, 0 for none, the bytes of the packet so far
             \* and how many are expected
  consumed,  \* history: the bytes taken since the receiver was last reset
  got        \* history: the packets delivered since then

framer == <<rx, consumed, got>>

Clean == [type |-> 0, packet |-> <<>>, expected |-> 0]

FramerInit == rx = Clean /\ consumed = <<>> /\ got = <<>>

-----------------------------------------------------------------------------
(* begin_packet; commands are never received. *)
HeaderLength == [t \in {2, 3, 4, 5} |-> CASE t \in {2, 5} -> 4 [] t = 3 -> 3 [] t = 4 -> 2]

(* payload_length, of a packet whose header is there. *)
PayloadLength(t, p) ==
  CASE t = 4 -> p[2]
    [] t = 3 -> p[3]
    [] t = 2 -> p[3] + 256 * p[4]
    [] t = 5 -> (p[3] + 256 * p[4]) % 16384

-----------------------------------------------------------------------------
(* The loop of bt_h4_rx_feed, over s: the receiver, the bytes of the read  *)
(* that are left, the packets delivered, and whether it has failed.        *)
Fail(s) == [s EXCEPT !.rx = Clean, !.err = TRUE]

Begin(s) ==
  LET t == Head(s.left)
  IN IF t \notin DOMAIN HeaderLength THEN Fail(s)
     ELSE [s EXCEPT !.rx = [type |-> t, packet |-> <<>>, expected |-> HeaderLength[t]],
                    !.left = Tail(@)]

(* Fault: what is there of the block already is not counted. *)
NeededWhole(x) == x.expected

Needed(x) == x.expected - Len(x.packet)

(* As much as is needed and the read has is copied in one piece. *)
Copy(s) ==
  LET take == Min({Len(s.left), Needed(s.rx)})
  IN [s EXCEPT !.rx.packet = @ \o SubSeq(s.left, 1, take),
               !.left = SubSeq(@, take + 1, Len(@))]

Deliver(s) ==
  [s EXCEPT !.rx = Clean, !.out = Append(@, [type |-> s.rx.type, packet |-> s.rx.packet])]

(* The bytes that were expected are there: the header or the packet. *)
Filled(s) ==
  LET header == HeaderLength[s.rx.type]
      payload == PayloadLength(s.rx.type, s.rx.packet)
  IN IF s.rx.expected # header THEN Deliver(s)
     ELSE IF payload > MaxPacket - header THEN Fail(s)
     ELSE IF payload # 0 THEN [s EXCEPT !.rx.expected = header + payload]
     ELSE Deliver(s)

Round(s) ==
  IF s.rx.type = 0 THEN Begin(s)
  ELSE LET c == Copy(s) IN IF Len(c.rx.packet) # c.rx.expected THEN c ELSE Filled(c)

(* bt_h4_rx_feed: each round takes a byte at least; after an error the     *)
(* rest of the read is dropped.                                            *)
Fed(chunk) ==
  LET after[n \in 0..Len(chunk)] ==
        IF n = 0 THEN [rx |-> rx, left |-> chunk, out |-> <<>>, err |-> FALSE]
        ELSE IF after[n - 1].err \/ after[n - 1].left = <<>> THEN after[n - 1]
        ELSE Round(after[n - 1])
  IN after[Len(chunk)]

Feed(chunk) ==
  \E s \in {Fed(chunk)} :
    /\ rx' = s.rx
    /\ consumed' = IF s.err THEN <<>> ELSE consumed \o chunk
    /\ got' = IF s.err THEN <<>> ELSE got \o s.out

H4Next ==
  \E n \in 1..MaxChunk : \E chunk \in [1..n -> Bytes] :
    Len(consumed) + n <= MaxStream /\ Feed(chunk)

H4Spec == FramerInit /\ [][H4Next]_framer

-----------------------------------------------------------------------------
(* The packet under construction fits the buffer, its payload included as  *)
(* soon as the header is known.                                            *)
FramerTypeOK ==
  /\ rx.type \in {0, 2, 3, 4, 5} /\ rx.packet \in Seq(Bytes)
  /\ Len(rx.packet) <= rx.expected /\ rx.expected <= MaxPacket
  /\ consumed \in Seq(Bytes)

(* The length of a packet that begins with p, as far as p tells. *)
LengthSoFar(t, p) ==
  HeaderLength[t] + (IF Len(p) < HeaderLength[t] THEN 0 ELSE PayloadLength(t, p))

Wire(k) == <<k.type>> \o k.packet

(* However the stream is cut into reads, which cut the blocks that are     *)
(* copied, the packets delivered, put back on the wire, followed by the    *)
(* packet under construction, are the bytes received; each delivered       *)
(* packet is as long as its header says, and the one under construction is *)
(* not whole yet.                                                          *)
FramerExact ==
  /\ consumed = FlattenSeq([i \in DOMAIN got |-> Wire(got[i])])
                  \o (IF rx.type = 0 THEN <<>> ELSE Wire(rx))
  /\ \A i \in DOMAIN got : Len(got[i].packet) = LengthSoFar(got[i].type, got[i].packet)
  /\ rx.type # 0 => Len(rx.packet) < LengthSoFar(rx.type, rx.packet)
=============================================================================
