------------------------- MODULE CommandQueueProofs -------------------------
(***************************************************************************)
(* TLAPS proofs about CommandQueue, for every pool size, credit range,     *)
(* timeout, set of opcodes and bound on submissions, and whether or not a  *)
(* transport may fail after it has delivered events.                       *)
(***************************************************************************)
EXTENDS CommandQueue, SequenceTheorems, TLAPS

(* What the type of the stack does not say: a send in progress is for a     *)
(* real slot, and a slot in use holds a real opcode.                        *)
FramesOK(st) == \A i \in 1..Len(st) : st[i].fn = "send" => st[i].slot \in Slots
OpcodesOK == \A s \in inUse : opcode[s] \in Opcodes

(* The inductive invariant.  Ledger gives every slot its own submission     *)
(* number, which is what keeps slots apart; SlotsAccounted says which slots *)
(* submit may take; TimerTracksCommand identifies the slot of an expired    *)
(* timer with the command in flight.                                        *)
IInv == /\ TypeOK
        /\ FramesOK(stack)
        /\ OpcodesOK
        /\ SlotsAccounted
        /\ TimerTracksCommand
        /\ Ledger

USE ConstantsAssumption

(* Pushing a well-formed frame keeps a stack well formed. *)
LEMMA PushOK ==
  ASSUME NEW st \in Seq(Frame), FramesOK(st), NEW f \in Frame,
         f.fn = "send" => f.slot \in Slots
  PROVE  Append(st, f) \in Seq(Frame) /\ FramesOK(Append(st, f))
BY DEF FramesOK

(* Returning from the innermost call keeps the stack well formed. *)
LEMMA CallerOK ==
  ASSUME stack \in Seq(Frame), FramesOK(stack), stack # <<>>
  PROVE  /\ Caller \in Seq(Frame) /\ FramesOK(Caller)
         /\ Top \in Frame
         /\ Top.fn = "send" => Top.slot \in Slots
<1>1. Len(stack) \in Nat /\ Len(stack) > 0
  OBVIOUS
<1>2. Top \in Frame
  BY <1>1 DEF Top
<1>3. Top.fn = "send" => Top.slot \in Slots
  BY <1>1 DEF Top, FramesOK
<1>4. Caller \in Seq(Frame) /\ Len(Caller) = Len(stack) - 1
      /\ \A i \in 1..Len(Caller) : Caller[i] = stack[i]
  <2> DEFINE n == Len(stack) - 1
  <2>1. n \in Int /\ 1 \in Int /\ \A i \in 1..n : stack[i] \in Frame
    BY <1>1
  <2>2. /\ SubSeq(stack, 1, n) \in Seq(Frame)
        /\ Len(SubSeq(stack, 1, n)) = IF 1 <= n THEN n - 1 + 1 ELSE 0
        /\ \A i \in 1..(n - 1 + 1) : SubSeq(stack, 1, n)[i] = stack[1 + i - 1]
    <3> HIDE DEF n
    <3> QED
      BY <2>1, SubSeqProperties
  <2>3. Caller = SubSeq(stack, 1, n)
    BY DEF Caller
  <2>4. Len(Caller) = Len(stack) - 1
    <3>1. n >= 0 /\ n \in Int /\ n = Len(stack) - 1
      BY <1>1
    <3> DEFINE c == SubSeq(stack, 1, n)
    <3>2. Len(c) = IF 1 <= n THEN n - 1 + 1 ELSE 0
      BY <2>2
    <3> HIDE DEF c, n
    <3>3. Len(c) = n
      BY <3>1, <3>2
    <3> QED
      BY <2>3, <3>1, <3>3 DEF c
  <2>5. \A i \in 1..Len(Caller) : Caller[i] = stack[i]
    <3> SUFFICES ASSUME NEW i \in 1..n PROVE SubSeq(stack, 1, n)[i] = stack[i]
      BY <2>3, <2>4
    <3>1. i \in 1..(n - 1 + 1) /\ 1 + i - 1 = i
      BY <2>1
    <3> HIDE DEF n
    <3> QED
      BY <2>2, <3>1
  <2> QED
    BY <2>2, <2>3, <2>4, <2>5
<1>5. FramesOK(Caller)
  BY <1>1, <1>4 DEF FramesOK
<1> QED
  BY <1>2, <1>3, <1>4, <1>5

(* The frames the queue pushes are well formed. *)
LEMMA CallType ==
  ASSUME NEW now \in Nat
  PROVE  /\ Call("pump", now) \in Frame /\ Call("pump", now).fn = "pump"
         /\ Call("tick", now) \in Frame /\ Call("tick", now).fn = "tick"
         /\ \A s \in Slots, o \in Outcomes \cup Results : ident[s] \in Nat =>
              /\ Callback(s, o) \in Frame /\ Callback(s, o).fn = "cb"
              /\ SendCall(s, now) \in Frame
              /\ SendCall(s, now).fn = "send" /\ SendCall(s, now).slot = s
BY DEF Call, Callback, SendCall, NewFrame, Frame, Results

(* complete_slot on the command in flight: its slot is freed, the ledger    *)
(* moves it from the flight to the completions, and the stack grows by the  *)
(* callback and the pump that follows it.                                   *)
LEMMA CompleteSlotOK ==
  ASSUME IInv, NEW s \in Slots, outstanding = s,
         NEW result \in Results, NEW outcome \in Outcomes \cup Results,
         NEW by \in Nat, NEW now \in Nat,
         NEW base \in Seq(Frame), FramesOK(base),
         CompleteSlot(s, result, outcome, by, now, base),
         UNCHANGED <<opcode, pending, expiry, ident, submitted>>
  PROVE  /\ stack' \in Seq(Frame) /\ FramesOK(stack')
         /\ inUse' \subseteq Slots /\ armed' \subseteq Slots
         /\ outstanding' = None
         /\ done' \in Seq(Completion)
         /\ OpcodesOK' /\ SlotsAccounted' /\ TimerTracksCommand' /\ Ledger'
<1> USE DEF IInv
<1>1. stack' \in Seq(Frame) /\ FramesOK(stack')
  <2> DEFINE b1 == Append(base, Call("pump", now))
  <2>1. b1 \in Seq(Frame) /\ FramesOK(b1)
    BY CallType, PushOK
  <2>2. ident[s] \in Nat
    BY DEF TypeOK
  <2>3. Callback(s, outcome) \in Frame /\ Callback(s, outcome).fn = "cb"
    BY <2>2, CallType
  <2>4. stack' = Append(b1, Callback(s, outcome))
    BY DEF CompleteSlot
  <2> HIDE DEF b1
  <2> QED
    BY <2>1, <2>3, <2>4, PushOK
<1>2. None \notin Slots
  BY DEF None, Slots
<1>3. outstanding' = None /\ outstanding # None
  BY <1>2 DEF CompleteSlot
<1>4. Flight = {s} /\ Flight' = {}
  BY <1>3 DEF Flight
<1>5. inUse' = inUse \ {s} /\ armed' = armed \ {s}
  BY DEF CompleteSlot
<1>6. s \in inUse /\ opcode[s] \in Opcodes
  BY <1>4 DEF SlotsAccounted, OpcodesOK
<1>7. /\ done' = Append(done, [id |-> ident[s], op |-> opcode[s], result |-> result, by |-> by])
      /\ done' \in Seq(Completion)
  BY <1>6 DEF CompleteSlot, TypeOK, Completion
<1>8. SlotsAccounted'
  BY <1>4, <1>5 DEF SlotsAccounted, Waiting
<1>9. TimerTracksCommand'
  BY <1>4, <1>5 DEF TimerTracksCommand
<1>10. OpcodesOK'
  BY <1>5 DEF OpcodesOK
<1>11. Ledger'
  <2>1. Len(done) \in Nat /\ Len(done') = Len(done) + 1
    BY <1>7 DEF TypeOK
  <2>2. Sent = Len(done) + 1 /\ Sent' = Len(done) + 1
    BY <1>3, <2>1 DEF Sent
  <2>3. \A i \in 1..Len(done') : done'[i].id = i
    BY <1>4, <1>7, <2>1 DEF Ledger, TypeOK
  <2> QED
    BY <1>4, <2>1, <2>2, <2>3 DEF Ledger
<1> QED
  BY <1>1, <1>3, <1>5, <1>7, <1>8, <1>9, <1>10, <1>11 DEF TypeOK
(* bt_cmdq_submit takes a slot that is neither queued nor in flight, and    *)
(* its command is the last in the ledger.                                   *)
LEMMA SubmitOK ==
  ASSUME IInv, NEW op \in Opcodes, Submit(op), UNCHANGED stack
  PROVE  IInv'
<1> USE DEF IInv
<1>1. PICK s \in Slots \ inUse :
        /\ inUse' = inUse \cup {s}
        /\ opcode' = [opcode EXCEPT ![s] = op]
        /\ ident' = [ident EXCEPT ![s] = submitted + 1]
        /\ pending' = Append(pending, s)
  BY DEF Submit
<1>2. /\ submitted' = submitted + 1
      /\ UNCHANGED <<outstanding, credits, armed, expiry, lastTick, clock, wire, sentAt, done, drained>>
  BY DEF Submit
<1>3. TypeOK'
  BY <1>1, <1>2 DEF TypeOK
<1>4. FramesOK(stack)' /\ OpcodesOK'
  BY <1>1 DEF FramesOK, OpcodesOK, TypeOK
<1>5. Flight' = Flight /\ Sent' = Sent
  BY <1>2 DEF Flight, Sent
<1>6. /\ Len(pending) \in Nat /\ Len(pending') = Len(pending) + 1
      /\ \A i \in 1..Len(pending) : pending'[i] = pending[i] /\ pending[i] \in Slots
      /\ pending'[Len(pending) + 1] = s
  BY <1>1 DEF TypeOK
<1>7. s \notin Waiting /\ s \notin Flight
  BY <1>1 DEF SlotsAccounted
<1>8. Waiting' = Waiting \cup {s}
  BY <1>6 DEF Waiting
<1>9. SlotsAccounted'
  <2>1. inUse' = Waiting' \cup Flight' /\ Waiting' \cap Flight' = {}
    BY <1>1, <1>5, <1>7, <1>8 DEF SlotsAccounted
  <2>2. \A i, j \in 1..Len(pending') : pending'[i] = pending'[j] => i = j
    BY <1>6, <1>7 DEF SlotsAccounted, Waiting
  <2> QED
    BY <2>1, <2>2 DEF SlotsAccounted
<1>10. TimerTracksCommand'
  BY <1>2, <1>5 DEF TimerTracksCommand
<1>11. Ledger'
  <2>1. Sent \in Nat
    BY DEF Sent, TypeOK
  <2>2. ident'[s] = submitted + 1 /\ \A t \in Slots : t # s => ident'[t] = ident[t]
    BY <1>1 DEF TypeOK
  <2>3. \A t \in Flight' : ident'[t] = Len(done') + 1
    BY <1>2, <1>5, <1>7, <2>2 DEF Ledger, Flight, TypeOK
  <2>4. \A i \in 1..Len(pending) : pending[i] # s
    BY <1>7 DEF Waiting
  <2>5. \A i \in 1..Len(pending') : ident'[pending'[i]] = Sent' + i
    <3> SUFFICES ASSUME NEW i \in 1..Len(pending') PROVE ident'[pending'[i]] = Sent' + i
      OBVIOUS
    <3>1. CASE i \in 1..Len(pending)
      BY <1>5, <1>6, <2>1, <2>2, <2>4, <3>1 DEF Ledger
    <3>2. CASE i = Len(pending) + 1
      BY <1>5, <1>6, <2>1, <2>2, <3>2 DEF Ledger
    <3> QED
      BY <1>6, <3>1, <3>2
  <2> QED
    BY <1>2, <1>5, <1>6, <2>1, <2>3, <2>5 DEF Ledger
<1> QED
  BY <1>3, <1>4, <1>9, <1>10, <1>11

(* bt_cmdq_pump moves the oldest queued command into flight and arms its    *)
(* timer, which is then the only one.                                       *)
LEMMA PumpSendOK ==
  ASSUME IInv, PumpSend
  PROVE  IInv'
<1> USE DEF IInv
<1> DEFINE s == Head(pending)
<1>1. /\ outstanding = None /\ credits # 0 /\ pending # <<>> /\ stack # <<>>
      /\ pending' = Tail(pending) /\ outstanding' = s /\ armed' = armed \cup {s}
      /\ expiry' = [expiry EXCEPT ![s] = Top.now + Timeout]
      /\ stack' = Append(Caller, SendCall(s, Top.now))
      /\ wire' = wire \cup {[id |-> ident[s], op |-> opcode[s]]}
      /\ sentAt' = [sentAt EXCEPT ![s] = clock]
      /\ credits' = credits - 1 /\ lastTick' = Later(lastTick, Top.now)
      /\ UNCHANGED <<inUse, opcode, clock, submitted, ident, done, drained>>
  BY DEF PumpSend, MaySend, Running
<1>2. /\ Len(pending) \in Nat /\ Len(pending) > 0 /\ s = pending[1] /\ s \in Slots
      /\ Tail(pending) \in Seq(Slots) /\ Len(Tail(pending)) = Len(pending) - 1
      /\ \A i \in 1..Len(Tail(pending)) : Tail(pending)[i] = pending[i + 1]
  BY <1>1, HeadTailProperties DEF TypeOK
<1> HIDE DEF s
<1>3. s \in Waiting /\ s \in inUse /\ opcode[s] \in Opcodes /\ ident[s] \in Nat
  BY <1>2 DEF Waiting, SlotsAccounted, OpcodesOK, TypeOK
<1>4. Caller \in Seq(Frame) /\ FramesOK(Caller) /\ Top \in Frame
  BY <1>1, CallerOK DEF TypeOK
<1>5. Top.now \in Nat
  BY <1>4 DEF Frame
<1>6. stack' \in Seq(Frame) /\ FramesOK(stack')
  <2>1. /\ SendCall(s, Top.now) \in Frame
        /\ SendCall(s, Top.now).fn = "send" /\ SendCall(s, Top.now).slot = s
    BY <1>2, <1>3, <1>5, CallType DEF Results
  <2> QED
    BY <1>1, <1>2, <1>4, <2>1, PushOK
<1>7. TypeOK'
  <2>1. credits' \in 0..(CreditMod - 1)
    BY <1>1 DEF TypeOK
  <2>2. lastTick' \in Nat /\ expiry' \in [Slots -> Nat] /\ sentAt' \in [Slots -> Nat]
    <3>1. lastTick' \in Nat
      BY <1>1, <1>5 DEF TypeOK, Later
    <3>2. Top.now + Timeout \in Nat
      BY <1>5
    <3>3. expiry' \in [Slots -> Nat]
      BY <1>1, <3>2 DEF TypeOK
    <3>4. sentAt' \in [Slots -> Nat]
      BY <1>1 DEF TypeOK
    <3> QED
      BY <3>1, <3>3, <3>4
  <2>3. wire' \subseteq [id: Nat, op: Opcodes]
    BY <1>1, <1>3 DEF TypeOK
  <2> QED
    BY <1>1, <1>2, <1>6, <2>1, <2>2, <2>3 DEF TypeOK
<1>8. OpcodesOK'
  BY <1>1 DEF OpcodesOK
<1>9. None \notin Slots
  BY DEF None, Slots
<1>10. Flight = {} /\ Flight' = {s} /\ Sent = Len(done) /\ Sent' = Len(done) + 1
  BY <1>1, <1>2, <1>9 DEF Flight, Sent
<1>11. Waiting' = Waiting \ {s}
  <2>1. \A i \in 1..Len(pending') : pending'[i] = pending[i + 1] /\ pending'[i] # s
    BY <1>1, <1>2 DEF SlotsAccounted
  <2>2. \A t \in Waiting : t # s => \E i \in 1..Len(pending') : t = pending'[i]
    <3> SUFFICES ASSUME NEW k \in 1..Len(pending), pending[k] # s
                 PROVE  \E i \in 1..Len(pending') : pending[k] = pending'[i]
      BY DEF Waiting
    <3>1. k - 1 \in 1..Len(pending') /\ pending'[k - 1] = pending[k]
      BY <1>1, <1>2, <2>1
    <3> QED
      BY <3>1
  <2>3. Waiting' \subseteq Waiting \ {s}
    BY <1>1, <1>2, <2>1 DEF Waiting
  <2>4. Waiting \ {s} \subseteq Waiting'
    BY <2>2 DEF Waiting
  <2> QED
    BY <2>3, <2>4
<1>12. SlotsAccounted'
  <2>1. inUse' = Waiting' \cup Flight' /\ Waiting' \cap Flight' = {}
    BY <1>1, <1>3, <1>10, <1>11 DEF SlotsAccounted
  <2>2. \A i, j \in 1..Len(pending') : pending'[i] = pending'[j] => i = j
    BY <1>1, <1>2 DEF SlotsAccounted
  <2> QED
    BY <2>1, <2>2 DEF SlotsAccounted
<1>13. TimerTracksCommand'
  BY <1>1, <1>10 DEF TimerTracksCommand
<1>14. Ledger'
  <2>1. Len(done) \in Nat
    BY DEF TypeOK
  <2>2. ident[s] = Len(done) + 1
    BY <1>2, <1>10, <2>1 DEF Ledger
  <2>3. \A i \in 1..Len(pending') : ident[pending'[i]] = Sent' + i
    BY <1>1, <1>2, <1>10, <2>1 DEF Ledger
  <2> QED
    BY <1>1, <1>2, <1>10, <2>1, <2>2, <2>3 DEF Ledger
<1> QED
  BY <1>6, <1>7, <1>8, <1>12, <1>13, <1>14
(* A step that leaves the slots, the queue and the completions alone can    *)
(* only break the types of what it changes.                                 *)
LEMMA FrameStepOK ==
  ASSUME IInv, UNCHANGED <<inUse, opcode, pending, outstanding, armed, expiry, submitted,
                           ident, sentAt, done>>,
         stack' \in Seq(Frame), FramesOK(stack'),
         credits' \in 0..(CreditMod - 1), lastTick' \in Nat, clock' \in Nat,
         wire' \subseteq [id: Nat, op: Opcodes], drained' \in BOOLEAN
  PROVE  IInv'
BY DEF IInv, TypeOK, OpcodesOK, SlotsAccounted, TimerTracksCommand, Ledger, Flight,
       Waiting, Sent

(* bt_cmdq_on_event, from the top level or from inside send_command().      *)
LEMMA OnEventOK ==
  ASSUME IInv, NEW op, NEW num \in 0..(CreditMod - 1), NEW outcome \in Outcomes,
         NEW by \in Nat, OnEvent(op, num, outcome, by), wire' \subseteq wire
  PROVE  IInv'
<1> USE DEF IInv
<1> DEFINE base == IF stack = <<>> THEN stack
                   ELSE Append(Caller, [Top EXCEPT !.heard = TRUE])
<1>1. base \in Seq(Frame) /\ FramesOK(base)
  <2>1. CASE stack = <<>>
    BY <2>1 DEF TypeOK
  <2>2. CASE stack # <<>>
    <3>1. Caller \in Seq(Frame) /\ FramesOK(Caller) /\ Top \in Frame
          /\ (Top.fn = "send" => Top.slot \in Slots)
      BY <2>2, CallerOK DEF TypeOK
    <3>2. /\ [Top EXCEPT !.heard = TRUE] \in Frame
          /\ [Top EXCEPT !.heard = TRUE].fn = Top.fn
          /\ [Top EXCEPT !.heard = TRUE].slot = Top.slot
      BY <3>1 DEF Frame
    <3> QED
      BY <2>2, <3>1, <3>2, PushOK
  <2> QED
    BY <2>1, <2>2
<1>2. /\ credits' = num /\ drained' = (num = 0)
      /\ UNCHANGED <<opcode, pending, expiry, lastTick, clock, submitted, ident, sentAt>>
  BY DEF OnEvent
<1>3. wire' \subseteq [id: Nat, op: Opcodes] /\ lastTick \in Nat /\ drained' \in BOOLEAN
  BY <1>2 DEF TypeOK
<1>4. CASE Answers(op) /\ CompleteSlot(outstanding, "COMPLETE", outcome, by, lastTick, base)
  <2>1. outstanding \in Slots
    BY <1>4 DEF Answers, TypeOK
  <2> HIDE DEF base
  <2>2. /\ stack' \in Seq(Frame) /\ FramesOK(stack')
        /\ inUse' \subseteq Slots /\ armed' \subseteq Slots
        /\ outstanding' = None
        /\ done' \in Seq(Completion)
        /\ OpcodesOK' /\ SlotsAccounted' /\ TimerTracksCommand' /\ Ledger'
    BY <1>1, <1>2, <1>3, <1>4, <2>1, CompleteSlotOK DEF Results
  <2>3. TypeOK'
    BY <1>2, <1>3, <2>2 DEF TypeOK
  <2> QED
    BY <2>2, <2>3
<1>5. CASE /\ stack' = Append(base, Call("pump", lastTick))
           /\ UNCHANGED <<inUse, outstanding, armed, done>>
  <2> HIDE DEF base
  <2>1. stack' \in Seq(Frame) /\ FramesOK(stack')
    BY <1>1, <1>3, <1>5, PushOK, CallType
  <2> QED
    BY <1>2, <1>3, <1>5, <2>1, FrameStepOK DEF TypeOK
<1> QED
  BY <1>4, <1>5 DEF OnEvent

(* timeout_callback: the expired timer is that of the command in flight.    *)
LEMMA TickTimeoutOK ==
  ASSUME IInv, TickTimeout
  PROVE  IInv'
<1> USE DEF IInv
<1>1. PICK s \in Expired : CompleteSlot(s, "TIMEOUT", "TIMEOUT", 0, lastTick, stack)
  BY DEF TickTimeout
<1>2. /\ credits' = 1
      /\ UNCHANGED <<opcode, pending, expiry, lastTick, clock, wire, submitted, ident, sentAt, drained>>
  BY DEF TickTimeout
<1>3. s \in Slots /\ outstanding = s
  BY <1>1 DEF Expired, TimerTracksCommand, Flight, TypeOK
<1>4. /\ stack' \in Seq(Frame) /\ FramesOK(stack')
      /\ inUse' \subseteq Slots /\ armed' \subseteq Slots
      /\ outstanding' = None
      /\ done' \in Seq(Completion)
      /\ OpcodesOK' /\ SlotsAccounted' /\ TimerTracksCommand' /\ Ledger'
  BY <1>1, <1>2, <1>3, CompleteSlotOK DEF Results, TypeOK
<1>5. TypeOK'
  BY <1>2, <1>4 DEF TypeOK
<1> QED
  BY <1>4, <1>5

(* The failure path of bt_cmdq_pump: the slot that completes is the one in  *)
(* flight, whichever command it now holds.                                  *)
LEMMA SendRejectedOK ==
  ASSUME IInv, SendRejected
  PROVE  IInv'
<1> USE DEF IInv
<1>1. /\ stack # <<>> /\ Top.fn = "send" /\ outstanding = Top.slot
      /\ credits' = (credits + 1) % CreditMod
      /\ wire' \subseteq wire
      /\ CompleteSlot(Top.slot, "SEND_ERROR", "SEND_ERROR", Top.id, Top.now, Caller)
      /\ UNCHANGED <<opcode, pending, expiry, lastTick, clock, submitted, ident, sentAt, drained>>
  BY DEF SendRejected, Running
<1>2. /\ Caller \in Seq(Frame) /\ FramesOK(Caller)
      /\ Top \in Frame /\ Top.slot \in Slots
  BY <1>1, CallerOK DEF TypeOK
<1>3. Top.id \in Nat /\ Top.now \in Nat
  BY <1>2 DEF Frame
<1>4. /\ stack' \in Seq(Frame) /\ FramesOK(stack')
      /\ inUse' \subseteq Slots /\ armed' \subseteq Slots
      /\ outstanding' = None
      /\ done' \in Seq(Completion)
      /\ OpcodesOK' /\ SlotsAccounted' /\ TimerTracksCommand' /\ Ledger'
  BY <1>1, <1>2, <1>3, CompleteSlotOK DEF Results
<1>5. credits' \in 0..(CreditMod - 1)
  BY <1>1 DEF TypeOK
<1>6. TypeOK'
  BY <1>1, <1>4, <1>5 DEF TypeOK
<1> QED
  BY <1>4, <1>6
(* Initially nothing is queued, in flight or completed.                     *)
LEMMA InitOK == Init => IInv
<1> SUFFICES ASSUME Init PROVE IInv
  OBVIOUS
<1>1. opcode \in [Slots -> Opcodes \cup {Nop}]
  BY DEF Init
<1>2. TypeOK
  <2>1. credits \in 0..(CreditMod - 1) /\ clock \in Nat
    BY DEF Init
  <2>2. pending \in Seq(Slots) /\ stack \in Seq(Frame) /\ done \in Seq(Completion)
    BY DEF Init
  <2>3. expiry \in [Slots -> Nat] /\ ident \in [Slots -> Nat] /\ sentAt \in [Slots -> Nat]
    BY DEF Init
  <2> QED
    BY <1>1, <2>1, <2>2, <2>3 DEF Init, TypeOK
<1> QED
  BY <1>2 DEF Init, IInv, FramesOK, OpcodesOK, SlotsAccounted, TimerTracksCommand, Ledger,
              Flight, Waiting, Sent

(* Every step of the queue, its users, its transport and the controller     *)
(* preserves the inductive invariant.                                       *)
LEMMA NextOK == IInv /\ [Next]_vars => IInv'
<1> SUFFICES ASSUME IInv, [Next]_vars PROVE IInv'
  OBVIOUS
<1> USE DEF IInv
<1> DEFINE Rest == <<inUse, opcode, pending, outstanding, credits, armed, expiry, submitted,
                     ident, sentAt, done, drained>>
<1>ret. ASSUME stack # <<>>, stack' = Caller
        PROVE  stack' \in Seq(Frame) /\ FramesOK(stack')
  BY <1>ret, CallerOK DEF TypeOK
<1>1. ASSUME NEW op \in Opcodes, UserSubmit(op) PROVE IInv'
  BY <1>1, SubmitOK DEF UserSubmit
<1>2. CASE UserPump
  <2>1. stack' \in Seq(Frame) /\ FramesOK(stack')
    BY <1>2, CallType, PushOK DEF UserPump, TypeOK
  <2> QED
    BY <1>2, <2>1, FrameStepOK DEF UserPump, TypeOK, queue, history
<1>3. CASE PumpIdle
  <2>1. stack # <<>> /\ stack' = Caller /\ lastTick' = Later(lastTick, Top.now)
        /\ UNCHANGED <<Rest, clock, wire>>
    BY <1>3 DEF PumpIdle, Running, history
  <2>2. Top \in Frame
    BY <2>1, CallerOK DEF TypeOK
  <2>3. lastTick' \in Nat
    BY <2>1, <2>2 DEF Later, Frame, TypeOK
  <2> QED
    BY <1>ret, <2>1, <2>3, FrameStepOK DEF TypeOK
<1>4. CASE PumpSend
  BY <1>4, PumpSendOK
<1>5. CASE SendAccepted
  BY <1>5, <1>ret, FrameStepOK DEF SendAccepted, Running, TypeOK, queue, history
<1>6. CASE SendRejected
  BY <1>6, SendRejectedOK
<1>7. CASE SendRejectedLate
  BY <1>7, <1>ret, FrameStepOK DEF SendRejectedLate, Running, TypeOK, queue, history
<1>8. ASSUME NEW c \in wire, NEW num \in 0..(CreditMod - 1), NEW o \in Outcomes,
             Reply(c, num, o)
      PROVE  IInv'
  <2>1. c.id \in Nat /\ wire' \subseteq wire /\ OnEvent(c.op, num, o, c.id)
    BY <1>8 DEF Reply, TypeOK
  <2> QED
    BY <2>1, OnEventOK
<1>9. ASSUME NEW num \in 0..(CreditMod - 1), NEW o \in Outcomes, ReportCredit(num, o)
      PROVE  IInv'
  <2>1. wire' \subseteq wire /\ OnEvent(Nop, num, o, 0)
    BY <1>9 DEF ReportCredit
  <2> QED
    BY <2>1, OnEventOK
<1>10. CASE CallbackReturn
  BY <1>10, <1>ret, FrameStepOK DEF CallbackReturn, Running, TypeOK, queue, history
<1>11. CASE Tick
  <2>1. Call("tick", clock) \in Frame /\ Call("tick", clock).fn = "tick"
    BY CallType DEF TypeOK
  <2>2. stack' \in Seq(Frame) /\ FramesOK(stack')
    BY <1>11, <2>1 DEF Tick, FramesOK
  <2>3. lastTick' \in Nat
    BY <1>11 DEF Tick, Later, TypeOK
  <2> QED
    BY <1>11, <2>2, <2>3, FrameStepOK DEF Tick, TypeOK, history
<1>12. CASE TickTimeout
  BY <1>12, TickTimeoutOK
<1>13. CASE TickDone
  <2>1. stack # <<>> /\ stack' = Append(Caller, Call("pump", Top.now))
        /\ UNCHANGED <<Rest, lastTick, clock, wire>>
    BY <1>13 DEF TickDone, Running, queue, history
  <2>2. Caller \in Seq(Frame) /\ FramesOK(Caller) /\ Top \in Frame
    BY <2>1, CallerOK DEF TypeOK
  <2>3. Top.now \in Nat
    BY <2>2 DEF Frame
  <2>4. stack' \in Seq(Frame) /\ FramesOK(stack')
    BY <2>1, <2>2, <2>3, CallType, PushOK
  <2> QED
    BY <2>1, <2>4, FrameStepOK DEF TypeOK
<1>14. CASE Advance
  BY <1>14, FrameStepOK DEF Advance, TypeOK, queue, history
<1>15. CASE UNCHANGED vars
  BY <1>15, FrameStepOK DEF vars, queue, history, TypeOK
<1> QED
  BY <1>1, <1>2, <1>3, <1>4, <1>5, <1>6, <1>7, <1>8, <1>9, <1>10, <1>11, <1>12, <1>13,
     <1>14, <1>15 DEF Next, Internal, Environment

(* The inductive invariant holds throughout. *)
THEOREM InvariantHolds == Spec => []IInv
BY InitOK, NextOK, PTL DEF Spec

(* Every variable of the queue keeps its type; the credit stays within its  *)
(* eight bits and the pending list within the slots.                        *)
THEOREM TypeCorrect == Spec => []TypeOK
BY InvariantHolds, PTL DEF IInv

(* No slot of the pool leaks or is used twice, through any nesting of       *)
(* callbacks and synchronous transports (complete_slot, bt_cmdq_pump).      *)
THEOREM SlotsNeverLeak == Spec => []SlotsAccounted
BY InvariantHolds, PTL DEF IInv

(* A timeout timer runs exactly while a command is in flight.               *)
THEOREM TimerMatchesFlight == Spec => []TimerTracksCommand
BY InvariantHolds, PTL DEF IInv

(* Each command accepted by bt_cmdq_submit completes at most once, in the   *)
(* order of submission, and is queued, in flight or completed at any time.  *)
THEOREM CompletionInOrder == Spec => []Ledger
BY InvariantHolds, PTL DEF IInv
-----------------------------------------------------------------------------
(* The state of CommandService a state of the queue stands for.             *)
Serving == IF outstanding = None THEN 0 ELSE ident[outstanding]
Finished == [i \in 1..Len(done) |-> [id |-> done[i].id, result |-> done[i].result]]

(* complete_slot on the command in flight is CommandService's Finish.       *)
LEMMA CompleteSlotFinishes ==
  ASSUME IInv, NEW s \in Slots, outstanding = s, NEW result \in Results, NEW outcome,
         NEW by \in Nat, NEW now, NEW base,
         CompleteSlot(s, result, outcome, by, now, base),
         submitted' = submitted
  PROVE  Service!Finish(result)
<1> USE DEF IInv
<1>1. outstanding # None /\ outstanding' = None
  BY DEF None, Slots, CompleteSlot
<1>2. Serving = ident[s] /\ Serving' = 0 /\ ident[s] = Len(done) + 1 /\ Len(done) \in Nat
  BY <1>1 DEF Serving, Ledger, Flight, TypeOK
<1>3. done' = Append(done, [id |-> ident[s], op |-> opcode[s], result |-> result, by |-> by])
  BY DEF CompleteSlot
<1>4. Len(done') = Len(done) + 1 /\ (\A i \in 1..Len(done) : done'[i] = done[i])
      /\ done'[Len(done) + 1].id = ident[s] /\ done'[Len(done) + 1].result = result
  BY <1>3 DEF TypeOK
<1>5. Finished' = Append(Finished, [id |-> Serving, result |-> result])
  <2> DEFINE r == [id |-> Serving, result |-> result]
             T == [id: Nat, result: Results]
  <2>1. Finished \in Seq(T) /\ Len(Finished) = Len(done)
    <3>1. \A i \in 1..Len(done) : done[i] \in Completion
      BY <1>2 DEF TypeOK
    <3>2. \A i \in 1..Len(done) : [id |-> done[i].id, result |-> done[i].result] \in T
      BY <3>1 DEF Completion
    <3> HIDE DEF T
    <3> QED
      BY <1>2, <3>2, IsASeq DEF Finished
  <2>2. r \in T
    BY <1>2
  <2>3. Append(Finished, r) \in [1..(Len(done) + 1) -> T]
    <3> HIDE DEF r, T
    <3>1. Append(Finished, r) \in Seq(T) /\ Len(Append(Finished, r)) = Len(done) + 1
      BY <1>2, <2>1, <2>2, AppendProperties
    <3>2. Append(Finished, r) \in [1..Len(Append(Finished, r)) -> T]
      BY <3>1, LenProperties, Zenon
    <3> QED
      BY <3>1, <3>2, Zenon
  <2>4. \A i \in 1..(Len(done) + 1) :
          [id |-> done'[i].id, result |-> done'[i].result] = Append(Finished, r)[i]
    <3> SUFFICES ASSUME NEW i \in 1..(Len(done) + 1)
                 PROVE  [id |-> done'[i].id, result |-> done'[i].result] = Append(Finished, r)[i]
      OBVIOUS
    <3>1. CASE i \in 1..Len(done)
      <4>1. Append(Finished, r)[i] = Finished[i]
        BY <2>1, <2>2, <3>1
      <4>2. Finished[i] = [id |-> done[i].id, result |-> done[i].result]
        BY <3>1 DEF Finished
      <4>3. done'[i] = done[i]
        BY <1>4, <3>1
      <4> QED
        BY <4>1, <4>2, <4>3, Zenon
    <3>2. CASE i = Len(done) + 1
      <4>1. Append(Finished, r)[i] = r
        BY <2>1, <2>2, <3>2
      <4> QED
        BY <1>2, <1>4, <3>2, <4>1
    <3>3. i \in 1..Len(done) \/ i = Len(done) + 1
      BY <1>2
    <3> QED
      BY <3>1, <3>2, <3>3, Zenon
  <2>5. Finished' = [i \in 1..(Len(done) + 1) |-> [id |-> done'[i].id, result |-> done'[i].result]]
    BY <1>4 DEF Finished
  <2> HIDE DEF r, T
  <2>6. Finished' = Append(Finished, r)
    BY <2>3, <2>4, <2>5
  <2> QED
    BY <2>6 DEF r
<1>6. Serving # 0 /\ Serving' = 0
  BY <1>2
<1> QED
  BY <1>5, <1>6, Zenon DEF Service!Finish, Serving, Finished
(* Every step of the queue is a step of CommandService or leaves its state  *)
(* alone.                                                                   *)
LEMMA StepRefines == IInv /\ [Next]_vars => [Service!Next]_(Service!vars)
<1> SUFFICES ASSUME IInv, [Next]_vars PROVE [Service!Next]_(Service!vars)
  OBVIOUS
<1> USE DEF IInv
<1>same. ASSUME UNCHANGED <<submitted, outstanding, ident, done>>
         PROVE  UNCHANGED Service!vars
  BY <1>same, Zenon DEF Service!vars
<1>fin. ASSUME NEW result \in Results, Service!Finish(result) PROVE Service!Next
  BY <1>fin, Zenon DEF Service!Next
<1>1. ASSUME NEW op \in Opcodes, UserSubmit(op) PROVE Service!Accept
  <2>1. PICK s \in Slots \ inUse : ident' = [ident EXCEPT ![s] = submitted + 1]
    BY <1>1 DEF UserSubmit, Submit
  <2>2. submitted' = submitted + 1 /\ outstanding' = outstanding /\ done' = done
    BY <1>1 DEF UserSubmit, Submit
  <2>3. outstanding # None => outstanding # s /\ outstanding \in Slots
    BY DEF SlotsAccounted, Flight, TypeOK
  <2>4. Serving' = Serving
    BY <2>1, <2>2, <2>3 DEF Serving, TypeOK
  <2>5. Finished' = Finished
    BY <2>2, Zenon DEF Finished
  <2> QED
    BY <2>2, <2>4, <2>5, Zenon DEF Service!Accept, Serving, Finished
<1>2. CASE PumpSend
  <2> DEFINE s == Head(pending)
  <2>1. /\ outstanding = None /\ pending # <<>> /\ outstanding' = s
        /\ submitted' = submitted /\ ident' = ident /\ done' = done
    BY <1>2 DEF PumpSend, MaySend
  <2>2. s = pending[1] /\ s \in Slots /\ Len(pending) \in Nat /\ Len(pending) >= 1
    BY <2>1 DEF TypeOK
  <2>3. s # None /\ Len(done) \in Nat
    BY <2>2 DEF None, Slots, TypeOK
  <2>4. ident[s] = Len(done) + 1 /\ Len(done) < submitted
    BY <2>1, <2>2, <2>3 DEF Ledger, Sent, Flight
  <2>5. Serving = 0 /\ Serving' = Len(done) + 1 /\ Finished' = Finished
    <3>1. Serving = 0 /\ Finished' = Finished
      BY <2>1, Zenon DEF Serving, Finished
    <3>2. Serving' = Len(done) + 1
      BY <2>1, <2>3, <2>4 DEF Serving
    <3> QED
      BY <3>1, <3>2
  <2>6. Len(Finished) = Len(done)
    BY <2>3 DEF Finished
  <2> QED
    BY <2>1, <2>4, <2>5, <2>6, Zenon DEF Service!Serve, Service!Next, Serving, Finished
<1>3. CASE SendRejected
  <2>1. /\ stack # <<>> /\ Top.fn = "send" /\ outstanding = Top.slot /\ submitted' = submitted
        /\ CompleteSlot(Top.slot, "SEND_ERROR", "SEND_ERROR", Top.id, Top.now, Caller)
    BY <1>3 DEF SendRejected, Running
  <2>2. Top \in Frame /\ Top.slot \in Slots
    BY <2>1, CallerOK DEF TypeOK
  <2>3. Top.id \in Nat /\ "SEND_ERROR" \in Results
    BY <2>2 DEF Frame, Results
  <2> QED
    BY <1>fin, <2>1, <2>2, <2>3, CompleteSlotFinishes
<1>4. ASSUME NEW op, NEW num, NEW o, NEW by \in Nat, OnEvent(op, num, o, by)
      PROVE  Service!Next \/ UNCHANGED Service!vars
  <2>1. ASSUME NEW base, Answers(op), submitted' = submitted,
               CompleteSlot(outstanding, "COMPLETE", o, by, lastTick, base)
        PROVE  Service!Next
    <3>1. outstanding \in Slots /\ "COMPLETE" \in Results
      BY <2>1 DEF Answers, TypeOK, Results
    <3> QED
      BY <1>fin, <2>1, <3>1, CompleteSlotFinishes
  <2>2. submitted' = submitted /\ ident' = ident
    BY <1>4 DEF OnEvent
  <2> QED
    BY <1>4, <1>same, <2>1, <2>2 DEF OnEvent
<1>5. CASE TickTimeout
  <2>1. PICK s \in Expired : CompleteSlot(s, "TIMEOUT", "TIMEOUT", 0, lastTick, stack)
    BY <1>5 DEF TickTimeout
  <2>2. s \in Slots /\ outstanding = s /\ submitted' = submitted /\ "TIMEOUT" \in Results
    BY <1>5, <2>1 DEF TickTimeout, Expired, TimerTracksCommand, Flight, TypeOK, Results
  <2> QED
    BY <1>fin, <2>1, <2>2, CompleteSlotFinishes
<1>6. ASSUME NEW c \in wire, NEW num, NEW o, Reply(c, num, o)
      PROVE  Service!Next \/ UNCHANGED Service!vars
  <2>1. c.id \in Nat /\ OnEvent(c.op, num, o, c.id)
    BY <1>6 DEF Reply, TypeOK
  <2> QED
    BY <1>4, <2>1
<1>7. ASSUME NEW num, NEW o, ReportCredit(num, o)
      PROVE  Service!Next \/ UNCHANGED Service!vars
  BY <1>4, <1>7 DEF ReportCredit
<1>8. CASE \/ UserPump \/ PumpIdle \/ SendAccepted \/ SendRejectedLate \/ CallbackReturn
           \/ Tick \/ TickDone \/ Advance \/ UNCHANGED vars
  <2>1. UNCHANGED <<submitted, outstanding, ident, done>>
    BY <1>8 DEF UserPump, PumpIdle, SendAccepted, SendRejectedLate, CallbackReturn,
                Tick, TickDone, Advance, vars, queue, history
  <2> QED
    BY <1>same, <2>1
<1>9. ASSUME NEW op \in Opcodes, UserSubmit(op) PROVE Service!Next
  BY <1>1, <1>9 DEF Service!Next
<1> QED
  BY <1>2, <1>3, <1>5, <1>6, <1>7, <1>8, <1>9 DEF Next, Internal, Environment

(* The queue implements CommandService: whatever is nested inside a send or *)
(* a completion callback, its users see one command served at a time, in    *)
(* order, each completed exactly once.                                      *)
THEOREM QueueImplementsService == Spec => ImplementsService
<1>1. Init => Service!Init
  <2> SUFFICES ASSUME Init PROVE Service!Init
    OBVIOUS
  <2>1. done = <<>> /\ submitted = 0 /\ outstanding = None
    BY DEF Init
  <2>2. Finished = <<>>
    BY <2>1 DEF Finished
  <2> QED
    BY <2>1, <2>2 DEF Service!Init, Finished
<1> QED
  BY <1>1, InvariantHolds, StepRefines, PTL DEF Spec, ImplementsService, Service!Safety
=============================================================================
