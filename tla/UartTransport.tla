---------------------------- MODULE UartTransport ----------------------------
(***************************************************************************)
(* The UART transport (uart_transport.c): one packet waits to be written,  *)
(* a poll writes what the UART takes and reads until nothing more comes,   *)
(* and the H4 receiver turns what was read into packets.  The receive      *)
(* callback may send; it runs inside the reading loop.                     *)
(***************************************************************************)
EXTENDS H4Framer

CONSTANTS
  UartBytes,    \* the byte values that arrive
  MaxArrivals,  \* bound on the number of bytes that arrive
  Sizes,        \* lengths of the packets that are sent, the type byte included
  MaxSends,     \* bound on the packets accepted in a session
  MaxSessions   \* bound on the number of times the transport is opened

ASSUME UartAssumption ==
  /\ UartBytes \subseteq Bytes /\ MaxArrivals \in Nat
  /\ Sizes \subseteq Nat \ {0} /\ MaxSends \in Nat /\ MaxSessions \in Nat

VARIABLES
  uartOpened, uartReceiving,
  claimed,     \* btuart.resource is claimed by this transport
  tx,          \* the bytes from tx_offset to tx_length
  reading,     \* in the loop of poll
  uartStatus,  \* what the last poll returned
  fifo,        \* external: bytes that have arrived and were not read
  wrote,       \* external: bytes written in this session
  accepted,    \* history: the packets accepted in this session
  arrived,     \* history: number of bytes that have arrived
  sessions     \* history: number of sessions

calls == <<uartOpened, uartReceiving, claimed, sessions>>
outgoing == <<tx, wrote, accepted>>
incoming == <<fifo, arrived>>
uvars == <<framer, calls, outgoing, incoming, reading, uartStatus>>

UartInit ==
  /\ FramerInit
  /\ uartOpened = FALSE /\ uartReceiving = FALSE /\ claimed = FALSE /\ sessions = 0
  /\ tx = <<>> /\ wrote = <<>> /\ accepted = <<>>
  /\ fifo = <<>> /\ arrived = 0 /\ reading = FALSE /\ uartStatus = "OK"

(* bt_h4_rx_init. *)
ResetFramer == rx' = Clean /\ consumed' = <<>> /\ got' = <<>>

-----------------------------------------------------------------------------
(* The calls of uart_open on the resource, in order. *)
OpenCalls == <<"OpenResource", "GetAPIVersion", "Claim", "Configure", "SetPower">>

(* What is claimed after uart_open, with the first done calls successful:  *)
(* every failure after the claim releases it.                              *)
ClaimLeft(done) == done = Len(OpenCalls)

OpenFramer == ResetFramer

UartOpen(done) ==
  /\ ~uartOpened /\ ~reading /\ sessions < MaxSessions
  /\ claimed' = ClaimLeft(done)
  /\ sessions' = sessions + 1
  /\ IF done = Len(OpenCalls)
     THEN uartOpened' = TRUE /\ wrote' = <<>> /\ accepted' = <<>> /\ OpenFramer
     ELSE UNCHANGED <<uartOpened, wrote, accepted, framer>>
  /\ UNCHANGED <<uartReceiving, tx, incoming, reading, uartStatus>>

HungUp == uartOpened' = FALSE /\ uartReceiving' = FALSE

UartClose ==
  /\ uartOpened /\ ~reading
  /\ HungUp /\ claimed' = FALSE
  /\ tx' = <<>>
  /\ UNCHANGED <<framer, sessions, wrote, accepted, incoming, reading, uartStatus>>

UartStartReceive ==
  /\ uartOpened /\ ~uartReceiving /\ ~reading
  /\ uartReceiving' = TRUE
  /\ UNCHANGED <<framer, uartOpened, claimed, sessions, outgoing, incoming, reading, uartStatus>>

UartStopReceive ==
  /\ ~reading
  /\ uartReceiving' = FALSE
  /\ ResetFramer
  /\ UNCHANGED <<uartOpened, claimed, sessions, outgoing, incoming, reading, uartStatus>>

Packet(k, n) == [i \in 1..n |-> <<k, i>>]

(* Fault: a packet replaces the one that is being written. *)
TxFreeAlways == TRUE

TxFree == tx = <<>>

(* queue_packet; when the buffer is taken it refuses and changes nothing. *)
UartSend(n) ==
  /\ uartOpened /\ TxFree /\ Len(accepted) < MaxSends
  /\ tx' = Packet(Len(accepted) + 1, n)
  /\ accepted' = Append(accepted, n)
  /\ UNCHANGED <<framer, calls, wrote, incoming, reading, uartStatus>>

-----------------------------------------------------------------------------
(* bt_aros_uart_transport_poll up to its loop: the UART takes n bytes. *)
UartPoll(n) ==
  /\ uartOpened /\ ~reading
  /\ wrote' = wrote \o SubSeq(tx, 1, n)
  /\ tx' = SubSeq(tx, n + 1, Len(tx))
  /\ reading' = uartReceiving
  /\ uartStatus' = "OK"
  /\ UNCHANGED <<framer, calls, accepted, incoming>>

PollWriteFails ==
  /\ uartOpened /\ ~reading /\ tx # <<>>
  /\ uartStatus' = "IO"
  /\ UNCHANGED <<framer, calls, outgoing, incoming, reading>>

AfterRead(err) == reading' = ~err /\ uartStatus' = IF err THEN "IO" ELSE uartStatus

(* One turn of the loop. *)
Read ==
  /\ reading
  /\ \/ /\ fifo = <<>>
        /\ reading' = FALSE
        /\ UNCHANGED <<framer, fifo, uartStatus>>
     \/ /\ reading' = FALSE /\ uartStatus' = "IO"
        /\ UNCHANGED <<framer, fifo>>
     \/ \E n \in 1..MaxChunk :
          /\ n <= Len(fifo)
          /\ Feed(SubSeq(fifo, 1, n))
          /\ fifo' = SubSeq(fifo, n + 1, Len(fifo))
          /\ AfterRead(Fed(SubSeq(fifo, 1, n)).err)
  /\ UNCHANGED <<calls, outgoing, arrived>>

(* External: the controller sends a byte. *)
Arrive(b) ==
  /\ arrived < MaxArrivals
  /\ fifo' = Append(fifo, b) /\ arrived' = arrived + 1
  /\ UNCHANGED <<framer, calls, outgoing, reading, uartStatus>>

UartNext ==
  \/ \E done \in 0..Len(OpenCalls) : UartOpen(done)
  \/ UartClose \/ UartStartReceive \/ UartStopReceive
  \/ \E n \in Sizes : UartSend(n)
  \/ \E n \in 0..Len(tx) : UartPoll(n)
  \/ PollWriteFails \/ Read
  \/ \E b \in UartBytes : Arrive(b)

UartSpec == UartInit /\ [][UartNext]_uvars

-----------------------------------------------------------------------------
UartTypeOK ==
  /\ FramerTypeOK
  /\ {uartOpened, uartReceiving, claimed, reading} \subseteq BOOLEAN
  /\ (uartReceiving => uartOpened) /\ (reading => uartReceiving)
  /\ uartStatus \in {"OK", "IO"} /\ fifo \in Seq(Bytes) /\ arrived \in 0..MaxArrivals

(* The controller sees whole packets: what was written in a session and    *)
(* what waits in the buffer are the accepted packets, one after the other, *)
(* unless the transport is closed, which drops the rest of a packet.       *)
WritesWholePackets ==
  uartOpened => wrote \o tx = FlattenSeq([k \in DOMAIN accepted |-> Packet(k, accepted[k])])
=============================================================================
