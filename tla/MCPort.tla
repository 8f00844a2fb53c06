------------------------------- MODULE MCPort -------------------------------
(***************************************************************************)
(* What the AROS port puts under the stack, in one run: the manager        *)
(* process and its application, the USB transport, the H4 receiver alone   *)
(* and inside the UART transport, and the timer list.  A behaviour is one  *)
(* of the part chosen at the start; the others rest in their initial       *)
(* states, where none of their fair actions is enabled.                    *)
(***************************************************************************)
EXTENDS ManagerTask, UsbTransport, UartTransport, TimerList

VARIABLE part   \* the component that runs

uartOnlyVars == <<calls, outgoing, incoming, reading, uartStatus>>

MCInit ==
  /\ part \in {"task", "usb", "h4", "uart", "timer"}
  /\ TaskInit /\ UsbInit /\ UartInit /\ TimerInit

MCNext ==
  /\ UNCHANGED part
  /\ \/ part = "task" /\ TaskNext /\ UNCHANGED <<usbVars, uvars, timerVars>>
     \/ part = "usb" /\ UsbNext /\ UNCHANGED <<taskVars, uvars, timerVars>>
     \/ part = "h4" /\ H4Next /\ UNCHANGED <<taskVars, usbVars, uartOnlyVars, timerVars>>
     \/ part = "uart" /\ UartNext /\ UNCHANGED <<taskVars, usbVars, timerVars>>
     \/ part = "timer" /\ TimerNext /\ UNCHANGED <<taskVars, usbVars, uvars>>

MCSpec ==
  /\ MCInit /\ [][MCNext]_<<part, taskVars, usbVars, uvars, timerVars>>
  /\ TaskFairness /\ UsbFairness

(* Every part keeps its variables in their types and within its bounds. *)
TypeOK == TaskTypeOK /\ UsbTypeOK /\ UartTypeOK
=============================================================================
