---------------------------- MODULE CommandQueue ----------------------------
(***************************************************************************)
(* The HCI command queue, core/controller/command_queue.c: a pool of       *)
(* slots, a FIFO of commands not yet sent, at most one command in flight,  *)
(* the controller's command credit and one timeout per command in flight.  *)
(*                                                                         *)
(* The stack runs in one task, but its calls nest: a completion callback   *)
(* may submit and pump, and a synchronous transport delivers events from   *)
(* inside send_command().  `stack' is the C call stack cut down to the     *)
(* calls that matter.  A function that calls out is split at the call, and *)
(* what is left of it waits as a frame; only the innermost frame runs, so  *)
(* the rest of a handler always follows and nothing interleaves with it    *)
(* but the calls made from inside it.                                      *)
(***************************************************************************)
EXTENDS Integers, Sequences, FiniteSets

CONSTANTS
  MaxPending,     \* BT_CMDQ_MAX_PENDING, size of the slot pool
  Opcodes,        \* HCI opcodes that are submitted
  Nop,            \* opcode of a Command Complete that only reports credit
  Outcomes,       \* what a reply says: status and return parameters
  CreditMod,      \* command_credits is a uint8_t: 256 (smaller for TLC)
  Timeout,        \* slot->timeout_us, never 0 once submitted
  Epoch,          \* clock reading when the queue is initialised
  MaxGap,         \* longest time between two reads of the owner's clock
  Horizon,        \* bound on the clock
  MaxSubmit,      \* bound on the number of commands submitted
  FailAfterReply  \* may send_command() deliver an event and then fail?

ASSUME ConstantsAssumption ==
  /\ MaxPending \in Nat \ {0}
  /\ CreditMod \in Nat /\ CreditMod > 1
  /\ Timeout \in Nat \ {0}
  /\ Epoch \in Nat \ {0}
  /\ MaxGap \in Nat
  /\ Horizon \in Nat
  /\ MaxSubmit \in Nat
  /\ FailAfterReply \in BOOLEAN
  /\ Nop \notin Opcodes

VARIABLES
  inUse,        \* the slots with in_use set
  opcode,       \* slot -> opcode
  pending,      \* q->pending, a FIFO of slots
  outstanding,  \* q->outstanding, a slot or None
  credits,      \* q->command_credits
  armed,        \* the slots whose timeout_timer is pending
  expiry,       \* slot -> expiry_us of its timer
  lastTick,     \* q->last_tick_us
  stack,        \* the calls in progress, innermost last
  clock,        \* the owner's clock
  wire,         \* commands the controller has and has not answered
  submitted,    \* history: number of commands accepted by submit
  ident,        \* history: slot -> number of the command it holds
  sentAt,       \* history: slot -> clock when it was sent
  done,         \* history: completions in the order the callbacks ran
  drained       \* history: did the controller's last event report no credit?

queue == <<inUse, opcode, pending, outstanding, credits, armed, expiry, lastTick>>
history == <<submitted, ident, sentAt, done, drained>>
vars == <<queue, stack, clock, wire, history>>

Slots == 1..MaxPending
None == 0
Results == {"COMPLETE", "TIMEOUT", "SEND_ERROR"}

(* A call in progress.  "pump" is a call of bt_cmdq_pump(now) about to run; *)
(* "send" is transport->send_command() for a slot, `heard' once it has      *)
(* delivered an event; "cb" is a completion callback; "tick" is the loop of *)
(* bt_cmdq_tick(now).                                                       *)
Frame == [fn: {"pump", "send", "cb", "tick"}, now: Nat, slot: Slots \cup {None},
          id: Nat, heard: BOOLEAN, outcome: Outcomes \cup Results]

NewFrame(fn, now, s, id, outcome) ==
  [fn |-> fn, now |-> now, slot |-> s, id |-> id, heard |-> FALSE, outcome |-> outcome]
Call(fn, now) == NewFrame(fn, now, None, 0, "COMPLETE")
SendCall(s, now) == NewFrame("send", now, s, ident[s], "COMPLETE")
Callback(s, outcome) == NewFrame("cb", 0, s, ident[s], outcome)

Top == stack[Len(stack)]
Caller == SubSeq(stack, 1, Len(stack) - 1)   \* the stack once Top returns
Running(fn) == stack # <<>> /\ Top.fn = fn

(* Code outside the queue runs at the top level and inside callbacks. *)
UserRuns == stack = <<>> \/ Running("cb")

(* Fault: only bt_cmdq_tick's first reading would count. *)
LaterForgets(a, b) == a

(* last_tick_us only moves forward. *)
Later(a, b) == IF a > b THEN a ELSE b

-----------------------------------------------------------------------------
(* bt_cmdq_init *)
Init ==
  /\ inUse = {}
  /\ opcode \in [Slots -> {Nop}]
  /\ pending = <<>>
  /\ outstanding = None
  /\ credits = 1
  /\ armed = {}
  /\ expiry = [s \in Slots |-> 0]
  /\ lastTick = 0
  /\ stack = <<>>
  /\ clock = Epoch
  /\ wire = {}
  /\ submitted = 0
  /\ ident = [s \in Slots |-> 0]
  /\ sentAt = [s \in Slots |-> 0]
  /\ done = <<>>
  /\ drained = FALSE

(* Fault: complete_slot does not cancel the timer. *)
CompleteSlotKeepsTimer(s, result, outcome, by, now, base) ==
  /\ outstanding' = IF outstanding = s THEN None ELSE outstanding
  /\ inUse' = inUse \ {s}
  /\ done' = Append(done, [id |-> ident[s], op |-> opcode[s], result |-> result, by |-> by])
  /\ stack' = Append(Append(base, Call("pump", now)), Callback(s, outcome))
  /\ UNCHANGED armed

(* complete_slot up to and including the call of on_complete: its caller    *)
(* leaves `base' on the stack, and the pump follows the callback.           *)
CompleteSlot(s, result, outcome, by, now, base) ==
  /\ armed' = armed \ {s}
  /\ outstanding' = IF outstanding = s THEN None ELSE outstanding
  /\ inUse' = inUse \ {s}
  /\ done' = Append(done, [id |-> ident[s], op |-> opcode[s],
                           result |-> result, by |-> by])
  /\ stack' = Append(Append(base, Call("pump", now)), Callback(s, outcome))

(* bt_cmdq_submit: the first free slot.  With none free the call returns   *)
(* BT_ERR_NO_RESOURCES and changes nothing.                                *)
Submit(op) ==
  /\ submitted < MaxSubmit
  /\ \E s \in Slots \ inUse :
       /\ \A t \in Slots \ inUse : s <= t
       /\ inUse' = inUse \cup {s}
       /\ opcode' = [opcode EXCEPT ![s] = op]
       /\ ident' = [ident EXCEPT ![s] = submitted + 1]
       /\ pending' = Append(pending, s)
  /\ submitted' = submitted + 1
  /\ UNCHANGED <<outstanding, credits, armed, expiry, lastTick, clock, wire, sentAt, done,
                 drained>>

UserSubmit(op) == UserRuns /\ Submit(op) /\ UNCHANGED stack

(* A direct call of bt_cmdq_pump, with the owner's clock. *)
UserPump ==
  /\ UserRuns
  /\ stack' = Append(stack, Call("pump", clock))
  /\ UNCHANGED <<queue, clock, wire, history>>

(* Fault: the pump ignores the controller's credit. *)
MaySendWithoutCredit == outstanding = None /\ pending # <<>>

(* Fault: the pump ignores the command in flight. *)
MaySendTwo == credits # 0 /\ pending # <<>>

(* The early returns of bt_cmdq_pump. *)
MaySend == outstanding = None /\ credits # 0 /\ pending # <<>>

(* bt_cmdq_pump when there is nothing it may send. *)
PumpIdle ==
  /\ Running("pump")
  /\ ~MaySend
  /\ lastTick' = Later(lastTick, Top.now)
  /\ stack' = Caller
  /\ UNCHANGED <<inUse, opcode, pending, outstanding, credits, armed, expiry,
                 clock, wire, history>>

(* bt_cmdq_pump up to the call of send_command(): the command is marked    *)
(* outstanding and its timer armed before the transport sees it.           *)
PumpSend ==
  /\ Running("pump")
  /\ MaySend
  /\ LET s == Head(pending) IN
       /\ pending' = Tail(pending)
       /\ outstanding' = s
       /\ armed' = armed \cup {s}
       /\ expiry' = [expiry EXCEPT ![s] = Top.now + Timeout]
       /\ stack' = Append(Caller, SendCall(s, Top.now))
       /\ wire' = wire \cup {[id |-> ident[s], op |-> opcode[s]]}
       /\ sentAt' = [sentAt EXCEPT ![s] = clock]
  /\ credits' = credits - 1
  /\ lastTick' = Later(lastTick, Top.now)
  /\ UNCHANGED <<inUse, opcode, clock, submitted, ident, done, drained>>

(* send_command() returns 0. *)
SendAccepted ==
  /\ Running("send")
  /\ stack' = Caller
  /\ UNCHANGED <<queue, clock, wire, history>>

(* Fault: the error is handled without asking who is outstanding now. *)
SendRejectedUnchecked ==
  /\ Running("send")
  /\ Top.heard => FailAfterReply
  /\ credits' = (credits + 1) % CreditMod
  /\ wire' = {c \in wire : c.id # Top.id}
  /\ CompleteSlot(Top.slot, "SEND_ERROR", "SEND_ERROR", Top.id, Top.now, Caller)
  /\ UNCHANGED <<opcode, pending, expiry, lastTick, clock, submitted, ident, sentAt,
                 drained>>

(* send_command() returns an error and the slot is still outstanding: the  *)
(* credit is given back, in eight bits, and the command completes.         *)
SendRejected ==
  /\ Running("send")
  /\ Top.heard => FailAfterReply
  /\ outstanding = Top.slot
  /\ credits' = (credits + 1) % CreditMod
  /\ wire' = {c \in wire : c.id # Top.id}
  /\ CompleteSlot(Top.slot, "SEND_ERROR", "SEND_ERROR", Top.id, Top.now, Caller)
  /\ UNCHANGED <<opcode, pending, expiry, lastTick, clock, submitted, ident, sentAt,
                 drained>>

(* send_command() returns an error after an event delivered from inside it  *)
(* already completed the command.                                          *)
SendRejectedLate ==
  /\ Running("send")
  /\ Top.heard /\ FailAfterReply
  /\ outstanding # Top.slot
  /\ stack' = Caller
  /\ UNCHANGED <<queue, clock, wire, history>>

(* Fault: any event answers the command in flight. *)
AnswersAny(op) == outstanding # None

(* An event is matched with the command in flight by opcode alone. *)
Answers(op) == outstanding # None /\ opcode[outstanding] = op

(* bt_cmdq_on_event for a Command Complete or a Command Status.  The event  *)
(* is stamped with last_tick_us (manager_receive).                         *)
OnEvent(op, num, outcome, by) ==
  LET base == IF stack = <<>> THEN stack ELSE Append(Caller, [Top EXCEPT !.heard = TRUE])
  IN
  /\ stack = <<>> \/ Running("send")
  /\ credits' = num
  /\ drained' = (num = 0)
  /\ \/ /\ Answers(op)
        /\ CompleteSlot(outstanding, "COMPLETE", outcome, by, lastTick, base)
     \/ /\ ~Answers(op)
        /\ stack' = Append(base, Call("pump", lastTick))
        /\ UNCHANGED <<inUse, outstanding, armed, done>>
  /\ UNCHANGED <<opcode, pending, expiry, lastTick, clock, submitted, ident, sentAt>>

(* The controller answers a command it holds.  It may do so at any time, or *)
(* never: a lost reply is one that is not sent.                             *)
Reply(c, num, outcome) ==
  /\ OnEvent(c.op, num, outcome, c.id)
  /\ wire' = wire \ {c}

(* The owner polls the transport only after it has started the controller, *)
(* which sends the first command.                                          *)
Started == outstanding # None \/ done # <<>>

(* A Command Complete that answers no command and only reports credit. *)
ReportCredit(num, outcome) ==
  /\ Started
  /\ OnEvent(Nop, num, outcome, 0)
  /\ UNCHANGED wire

CallbackReturn ==
  /\ Running("cb")
  /\ stack' = Caller
  /\ UNCHANGED <<queue, clock, wire, history>>

(* bt_cmdq_tick *)
Tick ==
  /\ stack = <<>>
  /\ lastTick' = Later(lastTick, clock)
  /\ stack' = <<Call("tick", clock)>>
  /\ UNCHANGED <<inUse, opcode, pending, outstanding, credits, armed, expiry,
                 clock, wire, history>>

Expired == {s \in armed : expiry[s] <= Top.now}

(* Fault: a timeout does not restore the credit. *)
TickTimeoutKeepsCredit ==
  /\ Running("tick")
  /\ \E s \in Expired :
       /\ \A t \in Expired : expiry[s] <= expiry[t]
       /\ CompleteSlot(s, "TIMEOUT", "TIMEOUT", 0, lastTick, stack)
  /\ UNCHANGED <<opcode, pending, credits, expiry, lastTick, clock, wire, submitted, ident,
                 sentAt, drained>>

(* timeout_callback, for the earliest timer that has expired. *)
TickTimeout ==
  /\ Running("tick")
  /\ \E s \in Expired :
       /\ \A t \in Expired : expiry[s] <= expiry[t]
       /\ CompleteSlot(s, "TIMEOUT", "TIMEOUT", 0, lastTick, stack)
  /\ credits' = 1
  /\ UNCHANGED <<opcode, pending, expiry, lastTick, clock, wire, submitted, ident, sentAt,
                 drained>>

(* Fault: bt_cmdq_tick returns without its final pump. *)
TickDoneWithoutPump ==
  /\ Running("tick")
  /\ Expired = {}
  /\ stack' = Caller
  /\ UNCHANGED <<queue, clock, wire, history>>

(* No timer has expired any more: the final pump of bt_cmdq_tick. *)
TickDone ==
  /\ Running("tick")
  /\ Expired = {}
  /\ stack' = Append(Caller, Call("pump", Top.now))
  /\ UNCHANGED <<queue, clock, wire, history>>

(* Time passes between the owner's calls; once the controller has been     *)
(* started the owner reads its clock at least every MaxGap.                *)
Advance ==
  /\ stack = <<>>
  /\ clock < Horizon
  /\ Started => clock < lastTick + MaxGap
  /\ clock' = clock + 1
  /\ UNCHANGED <<queue, stack, wire, history>>

-----------------------------------------------------------------------------
(* The steps of the call in progress. *)
Internal == PumpIdle \/ PumpSend \/ SendAccepted \/ CallbackReturn
            \/ TickTimeout \/ TickDone

Environment ==
  \/ \E op \in Opcodes : UserSubmit(op)
  \/ UserPump
  \/ SendRejected
  \/ SendRejectedLate
  \/ \E c \in wire, num \in 0..(CreditMod - 1), o \in Outcomes : Reply(c, num, o)
  \/ \E num \in 0..(CreditMod - 1), o \in Outcomes : ReportCredit(num, o)

Next == Internal \/ Environment \/ Tick \/ Advance

Spec == Init /\ [][Next]_vars

(* The same system with the scheduling the manager task gives it: a call    *)
(* that has begun is run to its end, callbacks and send_command() return    *)
(* however often they call back, the task's loop serves its timer however   *)
(* much else it serves, and a controller that reported no credit eventually *)
(* reports some.  Time passes only up to the next timeout: the rest changes *)
(* nothing and would use up the horizon.                                    *)
LiveAdvance == armed # {} /\ (\A s \in armed : clock < expiry[s]) /\ Advance
GrantCredit == /\ outstanding = None /\ credits = 0 /\ drained
               /\ \E num \in 1..(CreditMod - 1), o \in Outcomes : ReportCredit(num, o)

LiveNext == Internal \/ Environment \/ Tick \/ LiveAdvance

LiveSpec == /\ Init /\ [][LiveNext]_vars
            /\ WF_vars(Internal)
            /\ SF_vars(CallbackReturn)
            /\ SF_vars(SendAccepted)
            /\ SF_vars(Tick)
            /\ SF_vars(LiveAdvance)
            /\ SF_vars(GrantCredit)

-----------------------------------------------------------------------------
Completion == [id: Nat, op: Opcodes, result: Results, by: Nat]

(* Every variable stays in its type; in particular the credit fits its      *)
(* uint8_t and pending holds slots of the pool.                             *)
TypeOK ==
  /\ inUse \subseteq Slots
  /\ opcode \in [Slots -> Opcodes \cup {Nop}]
  /\ pending \in Seq(Slots)
  /\ outstanding \in Slots \cup {None}
  /\ credits \in 0..(CreditMod - 1)
  /\ armed \subseteq Slots
  /\ expiry \in [Slots -> Nat]
  /\ lastTick \in Nat
  /\ stack \in Seq(Frame)
  /\ clock \in Nat
  /\ wire \subseteq [id: Nat, op: Opcodes]
  /\ submitted \in Nat
  /\ ident \in [Slots -> Nat]
  /\ sentAt \in [Slots -> Nat]
  /\ done \in Seq(Completion)
  /\ drained \in BOOLEAN

Flight == IF outstanding = None THEN {} ELSE {outstanding}
Waiting == {pending[i] : i \in 1..Len(pending)}

Sent == IF outstanding = None THEN Len(done) ELSE Len(done) + 1

(* No slot leaks and none is used twice: whatever callbacks and synchronous *)
(* transports do, a slot is in use exactly while its command is queued or   *)
(* in flight, and it is queued once (complete_slot, bt_cmdq_pump).          *)
SlotsAccounted ==
  /\ inUse = Waiting \cup Flight
  /\ Waiting \cap Flight = {}
  /\ \A i, j \in 1..Len(pending) : pending[i] = pending[j] => i = j

(* A timer runs for the command in flight and for no other: no command can  *)
(* be in flight with nothing to end the wait, and no timer can fire for a   *)
(* slot that has been completed and reused.                                 *)
TimerTracksCommand == armed = Flight

(* Every command accepted by bt_cmdq_submit is completed at most once, none *)
(* is lost, and completion is in the order of submission: the completed     *)
(* commands are the first ones, the next is in flight, the rest queued in   *)
(* order.                                                                   *)
Ledger ==
  /\ \A i \in 1..Len(done) : done[i].id = i
  /\ \A s \in Flight : ident[s] = Len(done) + 1
  /\ \A i \in 1..Len(pending) : ident[pending[i]] = Sent + i
  /\ submitted = Sent + Len(pending)

(* A command that ended with its reply still to come: it timed out, or it   *)
(* was failed by the send_command() of an earlier command in its slot, one  *)
(* that had delivered the earlier command's reply before it failed (the     *)
(* test `q->outstanding == slot' of bt_cmdq_pump cannot tell the two).      *)
Abandoned(c) == c.result = "TIMEOUT" \/ (c.result = "SEND_ERROR" /\ c.by < c.id)

(* A reply completes the command it answers until a command is abandoned;   *)
(* from then on the replies to commands with that opcode may each complete  *)
(* a later one, as bt_cmdq_on_event has nothing but the opcode to go by.    *)
(* A reply never completes an earlier command or one with another opcode.   *)
MismatchOnlyAfterTimeout ==
  \A i \in 1..Len(done) :
    done[i].result = "COMPLETE" /\ done[i].by # done[i].id =>
      /\ done[i].by \in 1..(done[i].id - 1)
      /\ done[done[i].by].op = done[i].op
      /\ \E j \in 1..done[i].by : Abandoned(done[j]) /\ done[j].op = done[i].op

(* The event that completes a command is the controller's answer to that    *)
(* command ("Recognizes Command Complete and Command Status for the         *)
(* outstanding command", command_queue.h).                                  *)
ReplyIsForOutstanding ==
  \A i \in 1..Len(done) : done[i].result = "COMPLETE" => done[i].by = done[i].id

(* Whenever control returns to the owner, nothing that could be sent is     *)
(* left waiting: every path out of an event, a tick or a completion pumps   *)
(* after its last change of state.                                          *)
NothingSendableLeft ==
  [][stack # <<>> /\ stack' = <<>>
       => outstanding' # None \/ credits' = 0 \/ pending' = <<>>]_vars

(* A command is never timed out early: it has been in flight for its whole  *)
(* timeout, less the age of the tick its deadline was counted from          *)
(* (bt_cmdq_pump, timeout_callback).                                        *)
NoEarlyTimeout ==
  [][\A s \in Slots :
       outstanding = s /\ Len(done') > Len(done) /\ done'[Len(done')].result = "TIMEOUT"
         => clock - sentAt[s] >= Timeout - MaxGap]_vars

(* The queue implements CommandService: whatever is nested inside a send or *)
(* a callback, its users see one command served at a time, in order, each   *)
(* completed once.                                                          *)
Service == INSTANCE CommandService WITH
  MaxAccepted <- MaxSubmit,
  accepted <- submitted,
  serving <- IF outstanding = None THEN 0 ELSE ident[outstanding],
  finished <- [i \in 1..Len(done) |-> [id |-> done[i].id, result |-> done[i].result]]

ImplementsService == Service!Safety

(* Under LiveSpec every accepted command is completed: a lost reply costs   *)
(* one timeout, not the queue ("so a single timeout doesn't permanently     *)
(* deadlock the queue", timeout_callback).                                  *)
ServiceLive == Service!Liveness
=============================================================================
