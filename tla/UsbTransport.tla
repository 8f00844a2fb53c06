---------------------------- MODULE UsbTransport ----------------------------
(***************************************************************************)
(* The USB transport (usb_transport.c): three Exec I/O requests and the    *)
(* event messages of usbbluetooth.device share one message port, which a   *)
(* poll empties.  The receive callback may send from inside the poll; as   *)
(* nothing a send touches is used after the callback, it is a step of its  *)
(* own here.                                                               *)
(***************************************************************************)
EXTENDS Naturals, Sequences, SequencesExt

CONSTANTS
  MaxOpens,   \* bound on the number of times the transport is opened
  MaxEvents,  \* bound on the number of events of the controller
  MaxWrites   \* bound on the number of writes

ASSUME UsbAssumption == MaxOpens \in Nat /\ MaxEvents \in Nat /\ MaxWrites \in Nat

Writes == {"command_write", "acl_write"}
Requests == Writes \cup {"acl_read"}

VARIABLES
  usbOpened, usbReceiving,
  usbPending,  \* request -> its _pending flag
  io,          \* external: request -> "idle", "device" or "port"
  port,        \* messages at usb->port, in order
  registered,  \* external: the device sends events to the port
  polling,     \* in the loop of poll
  usbStatus,   \* what the poll will return
  opens, events, writes

counters == <<opens, events, writes>>
usbVars == <<usbOpened, usbReceiving, usbPending, io, port, registered, polling, usbStatus,
             counters>>

UsbInit ==
  /\ usbOpened = FALSE /\ usbReceiving = FALSE
  /\ usbPending = [r \in Requests |-> FALSE] /\ io = [r \in Requests |-> "idle"]
  /\ port = <<>> /\ registered = FALSE /\ polling = FALSE /\ usbStatus = "OK"
  /\ opens = 0 /\ events = 0 /\ writes = 0

Without(R) == SelectSeq(port, LAMBDA msg : msg \notin R)

-----------------------------------------------------------------------------
(* usb_open; when it fails it has undone all it did. *)
UsbOpen ==
  /\ ~usbOpened /\ opens < MaxOpens
  /\ usbOpened' = TRUE /\ opens' = opens + 1
  /\ UNCHANGED <<usbReceiving, usbPending, io, port, registered, polling, usbStatus, events,
                 writes>>

(* abort_request: AbortIO and WaitIO leave the request idle, wherever it   *)
(* was.                                                                    *)
Aborted(R) ==
  /\ usbPending' = [r \in Requests |-> usbPending[r] /\ r \notin R]
  /\ io' = [r \in Requests |-> IF r \in R THEN "idle" ELSE io[r]]
  /\ port' = Without(R)

ReceiveEnds == registered' = FALSE /\ usbReceiving' = FALSE

UsbStartReceive ==
  /\ usbOpened /\ ~usbReceiving /\ ~polling
  /\ registered' = TRUE /\ usbReceiving' = TRUE
  /\ usbPending' = [usbPending EXCEPT !["acl_read"] = TRUE]
  /\ io' = [io EXCEPT !["acl_read"] = "device"]
  /\ UNCHANGED <<usbOpened, port, polling, usbStatus, counters>>

UsbStopReceive ==
  /\ usbReceiving /\ ~polling
  /\ Aborted({"acl_read"})
  /\ ReceiveEnds
  /\ UNCHANGED <<usbOpened, polling, usbStatus, counters>>

(* usb_close, usb_stop_receive included; the port goes with all that is    *)
(* left on it.                                                             *)
UsbClose ==
  /\ usbOpened /\ ~polling
  /\ LET left == IF usbReceiving THEN Requests ELSE Writes IN
       /\ usbPending' = [r \in Requests |-> usbPending[r] /\ r \notin left]
       /\ io' = [r \in Requests |-> IF r \in left THEN "idle" ELSE io[r]]
  /\ port' = <<>>
  /\ ReceiveEnds /\ usbOpened' = FALSE
  /\ UNCHANGED <<polling, usbStatus, counters>>

(* Fault: a write does not wait for the one before it. *)
WriteFreeAlways(r) == TRUE

WriteFree(r) == ~usbPending[r]

(* submit_write; it refuses while the request is pending. *)
UsbSend(r) ==
  /\ usbOpened /\ WriteFree(r) /\ writes < MaxWrites
  /\ usbPending' = [usbPending EXCEPT ![r] = TRUE]
  /\ io' = [io EXCEPT ![r] = "device"]
  /\ writes' = writes + 1
  /\ UNCHANGED <<usbOpened, usbReceiving, port, registered, polling, usbStatus, opens, events>>

-----------------------------------------------------------------------------
(* External: the device completes a request, or delivers an event. *)
Complete(r) ==
  /\ io[r] = "device"
  /\ io' = [io EXCEPT ![r] = "port"]
  /\ port' = Append(port, r)
  /\ UNCHANGED <<usbOpened, usbReceiving, usbPending, registered, polling, usbStatus, counters>>

Event ==
  /\ registered /\ events < MaxEvents
  /\ events' = events + 1
  /\ port' = Append(port, "event")
  /\ UNCHANGED <<usbOpened, usbReceiving, usbPending, io, registered, polling, usbStatus, opens,
                 writes>>

-----------------------------------------------------------------------------
UsbPoll ==
  /\ usbOpened /\ ~polling
  /\ polling' = TRUE /\ usbStatus' = "OK"
  /\ UNCHANGED <<usbOpened, usbReceiving, usbPending, io, port, registered, counters>>

(* The read is submitted again after a failure too. *)
Rearmed(failed) == usbReceiving

(* Fault: a write that failed stays pending. *)
StillPendingIf(failed) == failed

StillPending(failed) == FALSE

(* One message of bt_aros_usb_transport_poll, its io_Error set or not. *)
Turn(failed) ==
  /\ polling /\ port # <<>>
  /\ LET msg == Head(port) IN
       \/ /\ msg = "event" /\ ~failed
          /\ UNCHANGED <<usbPending, io, usbStatus>>
       \/ /\ msg \in Writes
          /\ usbPending' = [usbPending EXCEPT ![msg] = StillPending(failed)]
          /\ io' = [io EXCEPT ![msg] = "idle"]
          /\ usbStatus' = IF failed THEN "IO" ELSE usbStatus
       \/ /\ msg = "acl_read"
          /\ usbPending' = [usbPending EXCEPT ![msg] = Rearmed(failed)]
          /\ io' = [io EXCEPT ![msg] = IF Rearmed(failed) THEN "device" ELSE "idle"]
          /\ usbStatus' = IF failed \/ ~usbReceiving THEN "IO" ELSE usbStatus
  /\ port' = Tail(port)
  /\ UNCHANGED <<usbOpened, usbReceiving, registered, polling, counters>>

PollReturns ==
  /\ polling /\ port = <<>>
  /\ polling' = FALSE
  /\ UNCHANGED <<usbOpened, usbReceiving, usbPending, io, port, registered, usbStatus, counters>>

UsbNext ==
  \/ UsbOpen \/ UsbStartReceive \/ UsbStopReceive \/ UsbClose
  \/ \E r \in Writes : UsbSend(r)
  \/ \E r \in Requests : Complete(r)
  \/ Event \/ UsbPoll \/ PollReturns
  \/ \E failed \in BOOLEAN : Turn(failed)

(* The device completes what it is given, and the port's signal wakes the  *)
(* manager process, which polls.                                           *)
UsbFairness ==
  /\ \A r \in Requests : WF_usbVars(Complete(r))
  /\ WF_usbVars(UsbPoll /\ port # <<>>) /\ WF_usbVars(\E failed \in BOOLEAN : Turn(failed))
  /\ WF_usbVars(PollReturns)

UsbSpec == UsbInit /\ [][UsbNext]_usbVars /\ UsbFairness

-----------------------------------------------------------------------------
UsbTypeOK ==
  /\ {usbOpened, usbReceiving, registered, polling} \subseteq BOOLEAN
  /\ usbPending \in [Requests -> BOOLEAN] /\ io \in [Requests -> {"idle", "device", "port"}]
  /\ port \in Seq(Requests \cup {"event"}) /\ usbStatus \in {"OK", "IO"}
  /\ (usbReceiving => usbOpened) /\ (polling => usbOpened)

(* The flags tell the truth about Exec: a request is pending exactly while *)
(* the device has it or its message waits at the port, and then only once: *)
(* SendIO() on such a request would corrupt a list, and WaitIO() on an     *)
(* idle one would wait for ever.                                           *)
PendingIsTrue ==
  \A r \in Requests :
    /\ usbPending[r] <=> io[r] # "idle"
    /\ Cardinality({i \in DOMAIN port : port[i] = r}) = IF io[r] = "port" THEN 1 ELSE 0

(* No request is in use and no event is sent to the port once the          *)
(* transport is closed and both are freed.                                 *)
ClosedIsQuiet ==
  ~usbOpened => port = <<>> /\ ~registered /\ \A r \in Requests : io[r] = "idle"

(* A send that is refused is refused only for a time: the completion of    *)
(* the write before it is noticed, even when the answer to that write is   *)
(* found on the port first.                                                *)
WriteRecovers == \A r \in Writes : usbPending[r] ~> ~usbPending[r]

(* Exec's view of the three requests and the transport's agree, up to and  *)
(* after the close.                                                        *)
IoIsAccounted == PendingIsTrue /\ ClosedIsQuiet
=============================================================================
