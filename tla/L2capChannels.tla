---------------------------- MODULE L2capChannels ----------------------------
(***************************************************************************)
(* The L2CAP channel manager of one ACL link (channel_manager.c): a pool   *)
(* of channels, the signalling identifiers and channel ids it hands out,   *)
(* and a response timer per channel, against a peer that answers our       *)
(* requests in any order, late, or never, or answers what was never asked. *)
(*                                                                         *)
(* Transports queue what they send, so no answer arrives inside a call;    *)
(* and every callback is the last thing its handler does, so a call made   *)
(* from a callback is here the step after the handler's.                   *)
(***************************************************************************)
EXTENDS Naturals, Sequences

CONSTANTS
  MaxChannels,     \* BT_L2CAP_CHANNEL_MANAGER_MAX_CHANNELS
  FixedCids,       \* fixed channels that may be registered
  FirstCid,        \* BT_L2CAP_CID_DYNAMIC_START
  LastCid,         \* the largest channel id (0xFFFF)
  LastId,          \* the largest identifier (0xFF)
  L2capSendFails,  \* may the transport refuse a fragment?
  MaxOpens         \* bound on the number of channels opened

ASSUME L2capAssumption ==
  /\ MaxChannels \in Nat \ {0} /\ MaxOpens \in Nat /\ LastId \in Nat \ {0}
  /\ FirstCid \in Nat /\ LastCid \in Nat /\ FirstCid <= LastCid
  /\ FixedCids \subseteq 1..(FirstCid - 1) /\ L2capSendFails \in BOOLEAN

VARIABLES
  l2capChan,  \* slot -> the fields of struct bt_l2cap_channel
  timers,     \* slots with an armed rtx_timer, in order of expiry
  nextCid,    \* next_local_cid
  nextId,     \* next_identifier
  issued,     \* history: identifiers allocated so far
  asked,      \* our requests that the peer has received and not answered
  accepted,   \* channels the peer has accepted and not taken down
  life,       \* history: handle -> where the channel is in its life
  event       \* history: the last event given to a channel's owner

l2capVars == <<l2capChan, timers, nextCid, nextId, issued, asked, accepted, life, event>>

Slots == 1..MaxChannels
States == {"FREE", "WAIT_CONNECT_RSP", "CONFIG", "OPEN", "WAIT_DISCONNECT_RSP"}
L2capService == INSTANCE ChannelService

(* A zeroed slot; handle and n are history: the handle of the channel and  *)
(* the serial number of its request.                                       *)
FreeChannel == [state |-> "FREE", fixed |-> FALSE, cid |-> 0, id |-> 0, out |-> FALSE,
                in |-> FALSE, handle |-> 0, n |-> 0]

L2capInit ==
  /\ l2capChan = [s \in Slots |-> FreeChannel]
  /\ timers = <<>> /\ nextCid = FirstCid /\ nextId = 1 /\ issued = 0
  /\ asked = {} /\ accepted = {}
  /\ L2capService!Init

-----------------------------------------------------------------------------
First(S) == IF S = {} THEN 0 ELSE CHOOSE s \in S : \A t \in S : s <= t

FindFree == First({s \in Slots : l2capChan[s].state = "FREE"})

FindByIdentifier(i) == First({s \in Slots : l2capChan[s].state # "FREE" /\ l2capChan[s].id = i})

FindByCid(c) == First({s \in Slots : l2capChan[s].state # "FREE" /\ l2capChan[s].cid = c})

(* Fault: the wraparound is not guarded. *)
AllocCidUnguarded == nextCid' = (nextCid + 1) % (LastCid + 1)

AllocCid == nextCid' = IF nextCid = LastCid THEN FirstCid ELSE nextCid + 1

(* Fault: an identifier is handed out again and again. *)
AllocIdentifierSame == UNCHANGED nextId /\ issued' = issued + 1

AllocIdentifier == nextId' = (IF nextId = LastId THEN 1 ELSE nextId + 1) /\ issued' = issued + 1

NoAlloc == UNCHANGED <<nextCid, nextId, issued>>

(* All timers have the same period, so they expire in the order in which   *)
(* they are armed.                                                         *)
Cancel(s) == SelectSeq(timers, LAMBDA t : t # s)

Arm(s) == Append(Cancel(s), s)

(* A signalling request of ours: it reaches the peer unless the transport  *)
(* refuses it.                                                             *)
L2capRequest(op, h, c) == [op |-> op, id |-> nextId, n |-> issued + 1, handle |-> h, cid |-> c]
BestEffort(before, q) == asked' = before \cup {q} \/ (L2capSendFails /\ asked' = before)

(* finish_close: the slot is free before the owner is told. *)
FinishClose(s, reason) ==
  /\ l2capChan' = [l2capChan EXCEPT ![s].state = "FREE", ![s].id = 0]
  /\ timers' = Cancel(s)
  /\ life' = [life EXCEPT ![l2capChan[s].handle] = "closed"]
  /\ L2capService!Fire("CLOSED", l2capChan[s].handle, reason)

Ignored == UNCHANGED <<l2capChan, timers, life, event>>

(* The answer found a channel, and the channel waits for it. *)
Expects(s, state) == s # 0 /\ l2capChan[s].state = state

-----------------------------------------------------------------------------
(* bt_l2cap_channel_manager_open; with no free slot it changes nothing. *)
Open ==
  LET s == FindFree
      h == Len(life) + 1
      ch == [FreeChannel EXCEPT !.state = "WAIT_CONNECT_RSP", !.cid = nextCid, !.id = nextId,
                                !.handle = h, !.n = issued + 1]
  IN /\ s # 0 /\ h <= MaxOpens
     /\ AllocCid /\ AllocIdentifier
     /\ \/ /\ asked' = asked \cup {L2capRequest("connect", h, nextCid)}
           /\ l2capChan' = [l2capChan EXCEPT ![s] = ch]
           /\ timers' = Arm(s)
           /\ L2capService!Start
        \/ /\ L2capSendFails
           /\ l2capChan' = [l2capChan EXCEPT ![s] = [ch EXCEPT !.state = "FREE"]]
           /\ timers' = Cancel(s)
           /\ L2capService!StartFails
           /\ UNCHANGED asked
     /\ UNCHANGED accepted

OpenFixed(c) ==
  LET s == FindFree
      h == Len(life) + 1
  IN /\ FindByCid(c) = 0 /\ s # 0 /\ h <= MaxOpens
     /\ l2capChan' = [l2capChan EXCEPT ![s] =
                        [state |-> "OPEN", fixed |-> TRUE, cid |-> c, id |-> 0,
                                     out |-> TRUE, in |-> TRUE, handle |-> h, n |-> 0]]
     /\ L2capService!StartFixed
     /\ NoAlloc /\ UNCHANGED <<timers, asked, accepted>>

(* bt_l2cap_channel_manager_close, by the owner of slot s, with the        *)
(* channel id open() gave it.                                              *)
Close(s) ==
  LET t == FindByCid(l2capChan[s].cid)
  IN /\ l2capChan[s].state # "FREE"
     /\ \/ /\ l2capChan[t].state = "OPEN" /\ ~l2capChan[t].fixed
           /\ l2capChan' = [l2capChan EXCEPT ![t].state = "WAIT_DISCONNECT_RSP", ![t].id = nextId,
                                   ![t].n = issued + 1]
           /\ AllocIdentifier /\ UNCHANGED nextCid
           /\ timers' = Arm(t)
           /\ BestEffort(asked, L2capRequest("disconnect", l2capChan[t].handle, l2capChan[t].cid))
           /\ life' = [life EXCEPT ![l2capChan[t].handle] = "closing"]
           /\ UNCHANGED event
        \/ /\ ~(l2capChan[t].state = "OPEN" /\ ~l2capChan[t].fixed)
           /\ FinishClose(t, "LOCAL")
           /\ NoAlloc /\ UNCHANGED asked
     /\ UNCHANGED accepted

(* One pop of bt_l2cap_channel_manager_tick: the head timer is off the     *)
(* list when its callback closes the channel.                              *)
Expire ==
  /\ timers # <<>>
  /\ FinishClose(Head(timers), "TIMEOUT")
  /\ NoAlloc /\ UNCHANGED <<asked, accepted>>

-----------------------------------------------------------------------------
(* handle_connection_response.  A PENDING result changes nothing. *)
ConnectionResponse(q, ok) ==
  LET s == FindByIdentifier(q.id)
      rest == asked \ {q}
  IN /\ q.op = "connect"
     /\ accepted' = IF ok THEN accepted \cup {[handle |-> q.handle, cid |-> q.cid]} ELSE accepted
     /\ IF ~Expects(s, "WAIT_CONNECT_RSP") THEN asked' = rest /\ Ignored /\ NoAlloc
        ELSE IF ~ok THEN FinishClose(s, "REFUSED") /\ asked' = rest /\ NoAlloc
        ELSE /\ l2capChan' = [l2capChan EXCEPT ![s].state = "CONFIG", ![s].id = nextId,
                                                  ![s].n = issued + 1]
             /\ AllocIdentifier /\ UNCHANGED nextCid
             /\ timers' = Arm(s)
             /\ BestEffort(rest, L2capRequest("configure", q.handle, q.cid))
             /\ UNCHANGED <<life, event>>

(* The timer is cancelled when the configure response comes. *)
Answered(s) == Cancel(s)

(* chan->state = OPEN and fire_opened, once both directions are configured. *)
Configured(s, ch, ts) ==
  /\ timers' = ts
  /\ \/ /\ ch.in /\ ch.out
        /\ l2capChan' = [l2capChan EXCEPT ![s] = [ch EXCEPT !.state = "OPEN"]]
        /\ life' = [life EXCEPT ![ch.handle] = "opened"]
        /\ L2capService!Fire("OPENED", ch.handle, "none")
     \/ /\ ~(ch.in /\ ch.out)
        /\ l2capChan' = [l2capChan EXCEPT ![s] = ch]
        /\ UNCHANGED <<life, event>>

(* handle_configure_response. *)
ConfigureResponse(q, ok) ==
  LET s == FindByIdentifier(q.id)
  IN /\ q.op = "configure" /\ asked' = asked \ {q} /\ NoAlloc /\ UNCHANGED accepted
     /\ IF ~Expects(s, "CONFIG") THEN Ignored
        ELSE IF ok THEN Configured(s, [l2capChan[s] EXCEPT !.id = 0, !.out = TRUE], Answered(s))
        ELSE FinishClose(s, "CONFIG_FAILED")

(* handle_disconnection_response. *)
DisconnectionResponse(q) ==
  LET s == FindByIdentifier(q.id)
  IN /\ q.op = "disconnect" /\ asked' = asked \ {q} /\ NoAlloc
     /\ accepted' = {a \in accepted : a.handle # q.handle}
     /\ IF ~Expects(s, "WAIT_DISCONNECT_RSP") THEN Ignored
        ELSE FinishClose(s, "LOCAL")

(* handle_command_reject. *)
CommandReject(q) ==
  LET s == FindByIdentifier(q.id)
  IN /\ asked' = asked \ {q} /\ NoAlloc /\ UNCHANGED accepted
     /\ IF s = 0 THEN Ignored
        ELSE FinishClose(s, IF l2capChan[s].state = "WAIT_CONNECT_RSP" THEN "REFUSED"
                            ELSE "CONFIG_FAILED")

-----------------------------------------------------------------------------
(* What the peer starts by itself, on a channel it has accepted. *)

(* handle_configure_request: always accepted, but only while configuring. *)
ConfigureRequest(a) ==
  LET s == FindByCid(a.cid)
  IN /\ Expects(s, "CONFIG")
     /\ Configured(s, [l2capChan[s] EXCEPT !.in = TRUE], timers)
     /\ NoAlloc /\ UNCHANGED <<asked, accepted>>

(* handle_disconnection_request: in any state, even while we disconnect. *)
DisconnectionRequest(a) ==
  LET s == FindByCid(a.cid)
  IN /\ accepted' = accepted \ {a}
     /\ IF s = 0 THEN Ignored ELSE FinishClose(s, "PEER_DISCONNECTED")
     /\ NoAlloc /\ UNCHANGED asked

(* Fault: data is given to a channel in any state. *)
TakesDataAlways(s) == s # 0

TakesData(s) == Expects(s, "OPEN")

(* bt_l2cap_channel_manager_on_acl, for a PDU that is not signalling. *)
Data(c) ==
  LET s == FindByCid(c)
  IN /\ TakesData(s)
     /\ L2capService!Fire("DATA", l2capChan[s].handle, "none")
     /\ UNCHANGED <<l2capChan, timers, life>> /\ NoAlloc /\ UNCHANGED <<asked, accepted>>

(* What answers no request of ours has the identifier 0, which is that of  *)
(* every channel with no request pending.  A connection or disconnection   *)
(* response is then ignored, as no such channel waits for one.             *)
Unasked == [op |-> "configure", id |-> 0, n |-> 0, handle |-> 0, cid |-> 0]

(* process_signaling_pdu: the dispatch on the command's code. *)
Signaling ==
  \/ \E q \in asked :
       \/ \E ok \in BOOLEAN : ConnectionResponse(q, ok) \/ ConfigureResponse(q, ok)
       \/ DisconnectionResponse(q)
       \/ CommandReject(q)
  \/ CommandReject(Unasked) \/ \E ok \in BOOLEAN : ConfigureResponse(Unasked, ok)
  \/ \E a \in accepted : ConfigureRequest(a) \/ DisconnectionRequest(a)

L2capNext ==
  \/ Open
  \/ \E c \in FixedCids : OpenFixed(c)
  \/ \E s \in Slots : Close(s)
  \/ Expire
  \/ Signaling
  \/ \E c \in FixedCids \cup {a.cid : a \in accepted} : Data(c)

(* The event loop calls tick whenever a timer is due; the peer and the     *)
(* owners of channels promise nothing.                                     *)
L2capFairness == WF_l2capVars(Expire)

L2capSpec == L2capInit /\ [][L2capNext]_l2capVars /\ L2capFairness

-----------------------------------------------------------------------------
Phase(h) == IF h \in DOMAIN life THEN life[h] ELSE "new"
Live == {"opening", "opened", "closing"}
Requests == [op : {"connect", "configure", "disconnect"}, id : 1..LastId, n : Nat, handle : Nat,
             cid : Nat]

L2capTypeOK ==
  /\ l2capChan \in [Slots -> [state : States, fixed : BOOLEAN, cid : Nat, id : 0..LastId,
                         out : BOOLEAN, in : BOOLEAN, handle : 0..MaxOpens, n : Nat]]
  /\ timers \in Seq(Slots) /\ nextCid \in FirstCid..LastCid /\ nextId \in 1..LastId
  /\ issued \in Nat /\ asked \subseteq Requests
  /\ accepted \subseteq [handle : 1..MaxOpens, cid : Nat]
  /\ life \in Seq(Live \cup {"closed", "failed"})
  /\ event \in [kind : {"none", "OPENED", "DATA", "CLOSED"}, handle : 0..MaxOpens,
                reason : L2capService!Reasons \cup {"none"}]

(* An answer of the peer, however late, acts on the channel whose request  *)
(* it answers: it can reach another one only if every identifier was       *)
(* handed out between the two requests (find_channel_by_identifier         *)
(* compares nothing else).                                                 *)
AnswerMatches ==
  [][\A q \in asked \ asked', s \in Slots :
       l2capChan'[s] # l2capChan[s] =>
         \/ l2capChan[s].n = q.n
         \/ l2capChan[s].n >= q.n + LastId \/ q.n >= l2capChan[s].n + LastId]_l2capVars

(* The manager keeps the promise of ChannelService to every owner. *)
L2capServiceSpec == L2capService!Spec

(* A channel that is being opened opens or closes, unless it waits for the *)
(* peer's Configure Request: that wait alone has no timer.                 *)
OpeningEnds ==
  \A h \in 1..MaxOpens :
    Phase(h) = "opening" ~>
      \/ Phase(h) # "opening"
      \/ \E s \in Slots : /\ l2capChan[s].handle = h /\ l2capChan[s].state = "CONFIG"
                          /\ l2capChan[s].out /\ ~l2capChan[s].in

(* A channel its owner closes is closed in the end, answered or not. *)
ClosingEnds ==
  \A h \in 1..MaxOpens : Phase(h) = "closing" ~> Phase(h) = "closed"

=============================================================================
