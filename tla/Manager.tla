------------------------------- MODULE Manager -------------------------------
(***************************************************************************)
(* The controller bring-up and discovery of core/controller/controller.c   *)
(* and the lifecycle of core/manager/manager.c, on top of the command      *)
(* queue.  One task owns all of it; the requests it serves and the polling *)
(* of the transport are those of ports/aros/task/manager_task.c.           *)
(*                                                                         *)
(* `owner' holds what the task still has to do once the call it is making  *)
(* into the command queue has returned.                                    *)
(***************************************************************************)
EXTENDS CommandQueue

CONSTANT MaxSessions   \* bound on the number of calls of bt_manager_start

VARIABLES
  ctrl,       \* bt_controller.state
  mgr,        \* bt_manager.state
  isOpen,     \* is the transport open?
  receiving,  \* is manager_receive installed in the transport?
  owner,      \* the rest of the task's current call
  inLoop,     \* the task is in its loop: bt_manager_start returned BT_OK
  sessions,   \* history: number of starts so far
  enables,    \* history: the commands that switch LE scanning on
  scanning,   \* external: the radio is scanning for LE advertisements
  inquiring   \* external: the radio is running a Classic inquiry

lifecycle == <<ctrl, mgr, isOpen, receiving, owner, inLoop, sessions>>
radio == <<scanning, inquiring>>
mvars == <<vars, lifecycle, enables, radio>>

BringUp == <<"RESET", "VERSION", "FEATURES", "BUFFER_SIZE">>
BringUpStates == <<"RESETTING", "READING_VERSION", "READING_FEATURES", "READING_BUFFER_SIZE">>
Discovery == {"INQUIRY_MODE", "INQUIRY", "SCAN_PARAMS", "SCAN_ENABLE"}
InBringUp == \E i \in 1..4 : ctrl = BringUpStates[i]

ASSUME OpcodesAssumption == Opcodes = {BringUp[i] : i \in 1..4} \cup Discovery

(* What a completion says: "good" is status 0 with the expected parameters, *)
(* "bare" is status 0 without them (a Command Status, or a short reply).    *)
ASSUME OutcomesAssumption == Outcomes = {"good", "bare", "error"}

AtRest == stack = <<>> /\ owner = <<>>

ManagerInit ==
  /\ Init
  /\ ctrl = "UNINITIALIZED"
  /\ mgr = "STOPPED"
  /\ isOpen = FALSE
  /\ receiving = FALSE
  /\ owner = <<>>
  /\ inLoop = FALSE
  /\ sessions = 0
  /\ enables = {}
  /\ scanning = FALSE
  /\ inquiring = FALSE

-----------------------------------------------------------------------------
(* bt_manager_start.  bt_controller_start cannot fail: the controller is    *)
(* UNINITIALIZED whenever the manager is STOPPED.                           *)
Start ==
  /\ AtRest
  /\ mgr = "STOPPED"
  /\ sessions < MaxSessions
  /\ sessions' = sessions + 1
  /\ mgr' = "STARTING"
  /\ isOpen' = TRUE
  /\ receiving' = TRUE
  /\ Submit("RESET")
  /\ ctrl' = "RESETTING"
  /\ stack' = <<Call("pump", clock)>>
  /\ owner' = <<"started">>
  /\ UNCHANGED <<inLoop, enables, radio>>

(* open() fails, or start_receive() fails and the transport is closed again. *)
StartFails ==
  /\ AtRest
  /\ mgr = "STOPPED"
  /\ sessions < MaxSessions
  /\ sessions' = sessions + 1
  /\ mgr' = "ERROR"
  /\ UNCHANGED <<vars, ctrl, isOpen, receiving, owner, inLoop, enables, radio>>

(* Fault: the manager does not look at the controller's state. *)
ReturnedBlind ==
  /\ stack = <<>>
  /\ owner = <<"started">> \/ owner = <<"ticked">>
  /\ mgr' = "RUNNING"
  /\ owner' = <<>>
  /\ inLoop' = TRUE
  /\ UNCHANGED <<vars, ctrl, isOpen, receiving, sessions, enables, radio>>

(* The end of bt_manager_start or of bt_manager_tick. *)
Returned ==
  /\ stack = <<>>
  /\ owner = <<"started">> \/ owner = <<"ticked">>
  /\ mgr' = IF ctrl = "ERROR" THEN "ERROR" ELSE "RUNNING"
  /\ owner' = <<>>
  /\ inLoop' = (inLoop \/ ctrl # "ERROR")
  /\ UNCHANGED <<vars, ctrl, isOpen, receiving, sessions, enables, radio>>

ManagerTick ==
  /\ AtRest
  /\ mgr = "RUNNING"
  /\ Tick
  /\ owner' = <<"ticked">>
  /\ UNCHANGED <<ctrl, mgr, isOpen, receiving, inLoop, sessions, enables, radio>>

(* The task's poll of the transport fails. *)
PollFails ==
  /\ AtRest
  /\ mgr = "RUNNING"
  /\ mgr' = "ERROR"
  /\ UNCHANGED <<vars, ctrl, isOpen, receiving, owner, inLoop, sessions, enables, radio>>

(* bt_manager_stop: commands queued or in flight are dropped without a      *)
(* completion, and closing the transport ends what the radio was doing.     *)
(* The controller stays powered: its answers may be lost or may arrive in   *)
(* the next session, where they belong to no command (number 0).            *)
Stop ==
  /\ AtRest
  /\ mgr # "STOPPED"
  /\ isOpen' = FALSE
  /\ receiving' = FALSE
  /\ ctrl' = "UNINITIALIZED"
  /\ mgr' = "STOPPED"
  /\ inLoop' = FALSE
  /\ inUse' = {} /\ pending' = <<>> /\ outstanding' = None /\ armed' = {}
  /\ credits' = 1 /\ lastTick' = 0
  /\ wire' = {[id |-> 0, op |-> c.op] : c \in wire}
  /\ submitted' = 0 /\ done' = <<>> /\ drained' = FALSE /\ enables' = {}
  /\ scanning' = FALSE /\ inquiring' = FALSE
  /\ ident' = [s \in Slots |-> 0] /\ sentAt' = [s \in Slots |-> 0]
  /\ UNCHANGED <<opcode, expiry, stack, clock, owner, sessions>>

-----------------------------------------------------------------------------
Position(op) == CHOOSE i \in 1..4 : BringUp[i] = op
IsBringUp(op) == \E i \in 1..4 : BringUp[i] = op

(* Fault: a step looks at the status byte and not at the result. *)
StepOkIgnoresResult(op) == Top.outcome # "error"

(* step_ok and the parse of the reply; Reset's reply has no parameters. *)
StepOk(op) == Top.outcome = "good" \/ (Top.outcome = "bare" /\ op = "RESET")

(* Fault: the bring-up moves on without submitting its next command. *)
StepSucceedsWithoutSubmit ==
  LET op == opcode[Top.slot] IN
  /\ Running("cb")
  /\ IsBringUp(op)
  /\ StepOk(op)
  /\ ctrl' = IF op = "BUFFER_SIZE" THEN "READY" ELSE BringUpStates[Position(op) + 1]
  /\ stack' = Caller
  /\ UNCHANGED <<queue, clock, wire, history, mgr, isOpen, receiving, owner, inLoop, sessions,
                 enables, radio>>

(* on_reset_complete, on_version_complete, on_features_complete and         *)
(* on_buffer_size_complete after step_ok and the parse of the parameters;   *)
(* the next submit finds the slot that complete_slot has just freed.        *)
StepSucceeds ==
  LET op == opcode[Top.slot] IN
  /\ Running("cb")
  /\ IsBringUp(op)
  /\ StepOk(op)
  /\ IF op = "BUFFER_SIZE"
     THEN /\ ctrl' = "READY"
          /\ UNCHANGED <<queue, clock, wire, history>>
     ELSE /\ ctrl' = BringUpStates[Position(op) + 1]
          /\ Submit(BringUp[Position(op) + 1])
  /\ stack' = Caller
  /\ UNCHANGED <<mgr, isOpen, receiving, owner, inLoop, sessions, enables, radio>>

(* The same callbacks when the command failed or its reply does not parse.  *)
StepFails ==
  LET op == opcode[Top.slot] IN
  /\ Running("cb")
  /\ IsBringUp(op)
  /\ ~StepOk(op)
  /\ ctrl' = "ERROR"
  /\ stack' = Caller
  /\ UNCHANGED <<queue, clock, wire, history, mgr, isOpen, receiving, owner, inLoop, sessions,
                 enables, radio>>

(* ignore_completion *)
DiscoveryDone ==
  /\ Running("cb")
  /\ opcode[Top.slot] \in Discovery
  /\ CallbackReturn
  /\ UNCHANGED <<lifecycle, enables, radio>>

-----------------------------------------------------------------------------
Free == Slots \ inUse
NthFree(n) == CHOOSE s \in Free : Cardinality({t \in Free : t < s}) = n - 1

(* Submits the commands in turn until one finds no free slot, and pumps if  *)
(* all of them were accepted; `enabling' says whether the commands switch   *)
(* scanning on.                                                             *)
SubmitAll(ops, enabling) ==
  LET room == Cardinality(Free)
      n == IF Len(ops) <= room THEN Len(ops) ELSE room
      taken == {NthFree(i) : i \in 1..n}
      rank(s) == CHOOSE i \in 1..n : NthFree(i) = s
  IN
  /\ submitted + Len(ops) <= MaxSubmit
  /\ inUse' = inUse \cup taken
  /\ opcode' = [s \in Slots |-> IF s \in taken THEN ops[rank(s)] ELSE opcode[s]]
  /\ ident' = [s \in Slots |-> IF s \in taken THEN submitted + rank(s) ELSE ident[s]]
  /\ pending' = pending \o [i \in 1..n |-> NthFree(i)]
  /\ submitted' = submitted + n
  /\ enables' = IF enabling THEN enables \cup {submitted + i : i \in 1..n} ELSE enables
  /\ stack' = IF n = Len(ops) THEN <<Call("pump", clock)>> ELSE <<>>
  /\ UNCHANGED <<outstanding, credits, armed, expiry, lastTick, clock, wire, sentAt, done,
                 drained>>

(* bt_controller_start_le_scan, when the task serves a scan request *)
StartLeScan ==
  /\ AtRest
  /\ inLoop
  /\ ctrl = "READY"
  /\ SubmitAll(<<"SCAN_PARAMS", "SCAN_ENABLE">>, TRUE)
  /\ UNCHANGED <<lifecycle, radio>>

(* bt_controller_stop_le_scan, the first half of serving an inquiry request; *)
(* its result is ignored.                                                    *)
StopLeScan ==
  /\ AtRest
  /\ inLoop
  /\ ctrl = "READY"
  /\ submitted + 3 <= MaxSubmit
  /\ SubmitAll(<<"SCAN_ENABLE">>, FALSE)
  /\ owner' = <<"inquiry">>
  /\ UNCHANGED <<ctrl, mgr, isOpen, receiving, inLoop, sessions, radio>>

(* bt_controller_start_classic_inquiry, the second half. *)
StartInquiry ==
  /\ stack = <<>>
  /\ owner = <<"inquiry">>
  /\ owner' = <<>>
  /\ SubmitAll(<<"INQUIRY_MODE", "INQUIRY">>, FALSE)
  /\ UNCHANGED <<ctrl, mgr, isOpen, receiving, inLoop, sessions, radio>>

-----------------------------------------------------------------------------
(* The steps of the command queue itself leave the lifecycle alone. *)
QueueStep ==
  /\ PumpIdle \/ PumpSend \/ SendAccepted \/ SendRejected \/ TickTimeout \/ TickDone
  /\ UNCHANGED <<lifecycle, enables, radio>>

(* manager_receive drops what arrives once the manager has failed. *)
Hears == mgr \in {"STARTING", "RUNNING"}

(* What the radio does once the controller has accepted a command of this   *)
(* session.                                                                 *)
RadioAfter(c, outcome) ==
  LET accepted == outcome # "error" /\ c.id # 0 IN
  /\ scanning' = IF accepted /\ c.op = "SCAN_ENABLE" THEN c.id \in enables ELSE scanning
  /\ inquiring' = (inquiring \/ (accepted /\ c.op = "INQUIRY"))

ManagerReceive ==
  /\ owner = <<>> \/ stack # <<>>
  /\ Hears
  /\ \E c \in wire, num \in 0..(CreditMod - 1), o \in Outcomes :
       Reply(c, num, o) /\ RadioAfter(c, o)
  /\ UNCHANGED <<lifecycle, enables>>

ManagerReceiveCredit ==
  /\ owner = <<>> \/ stack # <<>>
  /\ Hears
  /\ \E num \in 0..(CreditMod - 1) : ReportCredit(num, "good")
  /\ UNCHANGED <<lifecycle, enables, radio>>

DropEvent ==
  /\ AtRest
  /\ mgr = "ERROR"
  /\ \E c \in wire, o \in Outcomes : wire' = wire \ {c} /\ RadioAfter(c, o)
  /\ UNCHANGED <<queue, stack, clock, history, lifecycle, enables>>

(* The controller ends an inquiry on its own; the event is not acted upon.  *)
InquiryComplete ==
  /\ inquiring
  /\ inquiring' = FALSE
  /\ UNCHANGED <<vars, lifecycle, enables, scanning>>

ManagerAdvance ==
  /\ AtRest
  /\ Advance
  /\ UNCHANGED <<lifecycle, enables, radio>>

Serve == \/ Start \/ StartFails \/ Returned \/ ManagerTick \/ PollFails \/ Stop
         \/ StartLeScan \/ StopLeScan \/ StartInquiry

ManagerNext ==
  \/ Serve \/ QueueStep \/ StepSucceeds \/ StepFails \/ DiscoveryDone
  \/ ManagerReceive \/ ManagerReceiveCredit \/ DropEvent \/ InquiryComplete
  \/ ManagerAdvance

ManagerSpec == ManagerInit /\ [][ManagerNext]_mvars
(* Scheduling: a call into the queue runs to its end, a synchronous         *)
(* transport returns however many events it delivers, the task's loop       *)
(* serves its timer however much else it serves, and it stops a manager     *)
(* that fails while it is in its loop.                                      *)
LiveManagerAdvance == AtRest /\ LiveAdvance /\ UNCHANGED <<lifecycle, enables, radio>>

LiveManagerNext ==
  \/ Serve \/ QueueStep \/ StepSucceeds \/ StepFails \/ DiscoveryDone
  \/ ManagerReceive \/ ManagerReceiveCredit \/ DropEvent \/ InquiryComplete
  \/ LiveManagerAdvance

LiveManagerSpec ==
  /\ ManagerInit /\ [][LiveManagerNext]_mvars
  /\ WF_mvars(QueueStep \/ StepSucceeds \/ StepFails \/ DiscoveryDone \/ Returned
              \/ StartInquiry)
  /\ SF_mvars(SendAccepted /\ UNCHANGED <<lifecycle, enables, radio>>)
  /\ SF_mvars(ManagerTick)
  /\ SF_mvars(LiveManagerAdvance)
  /\ SF_mvars(GrantCredit /\ Hears /\ UNCHANGED <<lifecycle, enables, radio>>)
  /\ SF_mvars(inLoop /\ mgr = "ERROR" /\ Stop)

-----------------------------------------------------------------------------
(* While the controller is being brought up there is always exactly one     *)
(* command, the one its state names, whose completion will move it on: no   *)
(* interleaving of replies, timeouts and nested sends leaves the state      *)
(* machine waiting for a command that is not there.                         *)
BringUpHasItsCommand ==
  \A i \in 1..4 : ctrl = BringUpStates[i] =>
    LET live == {s \in inUse : opcode[s] = BringUp[i]}
        due == {s \in Slots : Running("cb") /\ Top.slot = s /\ opcode[s] = BringUp[i]}
    IN Cardinality(live) + Cardinality(due) = 1 /\ inUse = live

(* A controller is READY only when Reset, Read Local Version, Read Local    *)
(* Supported Features and Read Buffer Size were all answered, in that order *)
(* and with nothing else in between (step_ok and the four callbacks).       *)
ReadyMeansBroughtUp ==
  ctrl = "READY" =>
    /\ Len(done) >= 4
    /\ \A i \in 1..4 : done[i].op = BringUp[i] /\ done[i].result = "COMPLETE"

(* LE scanning and a Classic inquiry never run at the same time ("Stop      *)
(* scanning first: one radio, so the two cannot overlap").                  *)
OneRadio == ~(scanning /\ inquiring)

(* The bring-up always ends: "a stalled bring-up command can time out and   *)
(* move to BT_CONTROLLER_STATE_ERROR instead of hanging forever"            *)
(* (bt_controller_tick).                                                    *)
BringUpEnds == InBringUp ~> ~InBringUp

(* A controller that fails while the task is in its loop takes the manager  *)
(* down, and the transport is given back (bt_manager_tick, manager_process). *)
FailureIsNoticed == (inLoop /\ ctrl = "ERROR") ~> (mgr = "STOPPED")
=============================================================================
