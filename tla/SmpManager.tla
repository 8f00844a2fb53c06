----------------------------- MODULE SmpManager -----------------------------
(***************************************************************************)
(* The SMP pairing state machine of the central (smp_manager.c), Legacy    *)
(* and Secure Connections, against a peer that either follows the protocol *)
(* or sends any PDU at any time, a controller that generates keys and      *)
(* encrypts asynchronously, and a user.                                    *)
(*                                                                         *)
(* A cryptographic value is abstracted to whether it verifies.  A send may *)
(* deliver the peer's answer before it returns (send_pdu says so); the     *)
(* sends after which the code goes on are calls of their own, the others   *)
(* are the last thing their handler does.  A send that fails has delivered *)
(* nothing.                                                                *)
(***************************************************************************)
EXTENDS Sequences, FiniteSets, SmpPairing

CONSTANTS
  OurKeys,   \* the keys our request offers, in both directions
  MaxNested  \* bound: sends inside of which the peer's PDUs are delivered

ASSUME SmpAssumption == OurKeys \subseteq Keys /\ MaxNested \in Nat

VARIABLES
  correct,  \* external: the peer follows the protocol, and nothing fails
  request,  \* our features
  m,        \* struct bt_smp_manager
  calls,    \* the sends that have not returned, the innermost first
  inside,   \* history: a PDU was handled inside such a send
  results,  \* history: what complete() was called with
  sent,     \* history: the PDUs we sent
  heard,    \* history: the PDUs a correct peer sent, in order
  peer      \* history: the features a correct peer answered with

vars == <<correct, request, m, calls, inside, results, sent, heard, peer>>

NoFeatures == [io |-> NoInputNoOutput, oob |-> FALSE, mitm |-> FALSE, sc |-> FALSE,
               ikeys |-> {}, rkeys |-> {}]
NoKeys == [sc |-> FALSE, mitm |-> FALSE, ikeys |-> {}, rkeys |-> {}, assoc |-> "JUST_WORKS"]
Features == [io : IoCapabilities, oob : BOOLEAN, mitm : BOOLEAN, sc : BOOLEAN,
             ikeys : {{}, OurKeys \ {"link"}, OurKeys},
             rkeys : SUBSET (OurKeys \ {"link"}) \cup {OurKeys}]

(* With a correct peer no link key is offered: the code would wait for one *)
(* that no PDU carries.                                                    *)
Init ==
  /\ correct \in BOOLEAN
  /\ LET offered == IF correct THEN OurKeys \ {"link"} ELSE OurKeys
     IN request \in {f \in Features : f.ikeys = offered /\ f.rkeys \in {{"id"}, offered}}
  /\ m = [state |-> "IDLE", neg |-> NoKeys, deadline |-> FALSE, mask |-> {}, half |-> {},
          keys |-> {}, verified |-> {}]
  /\ calls = <<>> /\ inside = FALSE
  /\ results = <<>> /\ sent = {} /\ heard = <<>> /\ peer = NoFeatures

Terminal == {"COMPLETE", "FAILED"}
Ended == m.state \in Terminal

-----------------------------------------------------------------------------
(* finish, with stack the sends that are still to return. *)
Finish(d, result, stack) ==
  /\ m' = [d EXCEPT !.state = IF result = "OK" THEN "COMPLETE" ELSE "FAILED", !.deadline = FALSE]
  /\ results' = Append(results, result)
  /\ calls' = stack /\ UNCHANGED sent

Stay(d) == m' = d /\ UNCHANGED <<calls, results, sent>>

(* send_pdu, when the code goes on after it: with then. *)
SendAndThen(d, pdu, then, stack) ==
  /\ m' = [d EXCEPT !.deadline = TRUE]
  /\ sent' = sent \cup {pdu} /\ UNCHANGED results
  /\ calls' = <<then>> \o stack

(* send_failed: the peer is told, whether or not that succeeds; finish     *)
(* follows when the send returns.                                          *)
SendFailed(d, result) ==
  SendAndThen(d, "failed", [finish |-> result, left |-> <<>>], calls)

(* send_pdu as the last thing a handler does, in state: it may fail, which *)
(* ends the pairing.                                                       *)
SendIn(d, state, pdu) ==
  \/ /\ m' = [d EXCEPT !.state = state, !.deadline = TRUE]
     /\ sent' = sent \cup {pdu} /\ UNCHANGED <<calls, results>>
  \/ ~correct /\ Finish(d, "PROTOCOL", calls)

(* Fault: waiting for the controller is not timed. *)
TimedNot(state) == state \notin {"WAIT_ENCRYPTION", "WAIT_DHKEY"}

Timed(state) == TRUE

(* Fault: the state is not moved on when the controller is asked. *)
AskInForgets(d, state, error) ==
  \/ Stay([d EXCEPT !.deadline = Timed(state)])
  \/ ~correct /\ Finish(d, error, calls)

(* A step that waits for the controller, which may refuse. *)
AskIn(d, state, error) ==
  \/ Stay([d EXCEPT !.state = state, !.deadline = Timed(state)])
  \/ ~correct /\ Finish(d, error, calls)

CryptoFails(d) == ~correct /\ SendFailed(d, "CRYPTO")

-----------------------------------------------------------------------------
(* bt_smp_manager_start.  A send that fails leaves the deadline armed. *)
Start ==
  /\ m.state = "IDLE"
  /\ \/ /\ m' = [m EXCEPT !.state = "WAIT_PAIRING_RESPONSE", !.deadline = TRUE]
        /\ sent' = {"request"}
     \/ ~correct /\ m' = [m EXCEPT !.deadline = TRUE] /\ UNCHANGED sent
  /\ UNCHANGED <<correct, request, calls, inside, results, heard, peer>>

StartConfirmExchange(d) == CryptoFails(d) \/ SendIn(d, "WAIT_PAIRING_CONFIRM", "confirm")
StartScStage2(d) == CryptoFails(d) \/ SendIn(d, "WAIT_DHKEY_CHECK", "dhcheck")

StartSecureConnections(d) ==
  IF d.neg.assoc \notin {"JUST_WORKS", "NUMERIC"} THEN SendFailed(d, "UNSUPPORTED")
  ELSE AskIn(d, "WAIT_LOCAL_PUBLIC_KEY", "CRYPTO")

(* EncKey is not distributed in Secure Connections. *)
DistributedInSc(keys) == keys \ {"enc"}

(* handle_pairing_response. *)
HandlePairingResponse(response) ==
  LET n == Negotiate(request, response)
      sc == [m EXCEPT !.neg = [n EXCEPT !.ikeys = DistributedInSc(@), !.rkeys = DistributedInSc(@)]]
      d == [m EXCEPT !.neg = n]
  IN IF m.state # "WAIT_PAIRING_RESPONSE" \/ ~Acceptable(request, response)
     THEN SendFailed(m, "PROTOCOL")
     ELSE IF n.sc THEN StartSecureConnections(sc)
     ELSE IF "link" \in n.ikeys \cup n.rkeys THEN SendFailed(d, "UNSUPPORTED")
     ELSE IF n.assoc \in {"JUST_WORKS", "INITIATOR_DISPLAYS"} THEN StartConfirmExchange(d)
     ELSE Stay([d EXCEPT !.state = "WAIT_TK", !.deadline = TRUE])

(* handle_confirm and handle_sc_confirm. *)
HandleConfirm ==
  IF m.state # "WAIT_PAIRING_CONFIRM" THEN SendFailed(m, "PROTOCOL")
  ELSE SendIn(m, "WAIT_PAIRING_RANDOM", "random")

HandleScConfirm == SendIn(m, "WAIT_SC_RANDOM", "random")

(* Fault: the peer's confirm value is not compared. *)
MatchesAlways(good) == TRUE

Matches(good) == good

Verify(what) == [m EXCEPT !.verified = @ \cup {what}]

(* handle_random and handle_sc_random; good: the confirm value matches. *)
HandleRandom(good) ==
  IF m.state # "WAIT_PAIRING_RANDOM" THEN SendFailed(m, "PROTOCOL")
  ELSE \/ CryptoFails(m)
       \/ IF ~Matches(good) THEN SendFailed(m, "CONFIRM")
          ELSE AskIn(IF good THEN Verify("confirm") ELSE m, "WAIT_ENCRYPTION", "ENCRYPTION")

HandleScRandom(good) ==
  LET d == IF good THEN Verify("confirm") ELSE m
  IN \/ CryptoFails(m)
     \/ IF ~Matches(good) THEN SendFailed(m, "CONFIRM")
        ELSE IF m.neg.assoc = "NUMERIC"
        THEN Stay([d EXCEPT !.state = "WAIT_NUMERIC_CONFIRMATION"])
        ELSE StartScStage2(d)

(* handle_sc_public_key; good: the key is not our own. *)
HandleScPublicKey(good) ==
  IF m.state # "WAIT_PEER_PUBLIC_KEY" \/ ~good THEN SendFailed(m, "PROTOCOL")
  ELSE AskIn(m, "WAIT_DHKEY", "CRYPTO")

(* handle_sc_dhkey_check. *)
HandleScDhkeyCheck(good) ==
  IF m.state # "WAIT_DHKEY_CHECK" THEN SendFailed(m, "PROTOCOL")
  ELSE \/ CryptoFails(m)
       \/ IF ~good THEN SendFailed(m, "CONFIRM")
          ELSE AskIn(Verify("dhkey"), "WAIT_ENCRYPTION", "ENCRYPTION")

-----------------------------------------------------------------------------
(* The PDUs of a key: of two parts, the second completes it. *)
FirstPart == [enc |-> "encryption", id |-> "identity", sign |-> "signing"]
LastPart == [enc |-> "central", id |-> "address", sign |-> "signing"]
KeyPdus == {"encryption", "central", "identity", "address", "signing"}
Parts(keys) == {FirstPart[k] : k \in keys \ {"link"}} \cup {LastPart[k] : k \in keys \ {"link"}}

(* send_key_distribution, what is left of it, and finish_key_distribution: *)
(* finish follows when the last send returns.                              *)
SendKeys(d, left, stack) ==
  IF left = <<>> THEN Finish(d, "OK", stack)
  ELSE \/ SendAndThen(d, Head(left), [finish |-> "OK", left |-> Tail(left)], stack)
       \/ ~correct /\ Finish(d, "CRYPTO", stack)

(* In the order in which they are sent. *)
InOrder(pdus) ==
  SelectSeq(<<"encryption", "central", "identity", "address", "signing">>, LAMBDA pdu : pdu \in pdus)

(* Our own keys are sent once the peer's are in; there may be none to get. *)
FinishKeyDistribution(d) ==
  \/ SendKeys(d, InOrder(Parts(d.neg.ikeys)), calls)
  \/ ~correct /\ d.neg.ikeys # {} /\ Finish(d, "CRYPTO", calls)

(* A send returns to send_failed or to send_key_distribution. *)
SendReturns ==
  /\ calls # <<>>
  /\ IF Head(calls).finish = "OK" THEN SendKeys(m, Head(calls).left, Tail(calls))
     ELSE Finish(m, Head(calls).finish, Tail(calls))
  /\ UNCHANGED <<correct, request, inside, heard, peer>>

(* The key the peer has to send next. *)
NextKey(d) ==
  LET left == d.neg.rkeys \ d.mask
  IN IF "enc" \in left THEN "enc" ELSE IF "id" \in left THEN "id"
     ELSE IF "sign" \in left THEN "sign" ELSE "none"

(* Fault: the distribution ends at the first part of the last key. *)
AllInEarly(d) == d.neg.rkeys \subseteq d.mask \cup d.half

AllIn(d) == d.neg.rkeys \subseteq d.mask

(* handle_distributed_key. *)
HandleDistributedKey(pdu) ==
  LET k == NextKey(m)
      last == k # "none" /\ (k = "sign" \/ k \in m.half)
      d == IF last THEN [m EXCEPT !.mask = @ \cup {k}, !.keys = @ \cup {k}]
           ELSE [m EXCEPT !.half = @ \cup {k}]
  IN IF m.state # "WAIT_KEY_DISTRIBUTION" \/ k = "none" THEN SendFailed(m, "PROTOCOL")
     ELSE IF pdu # (IF last THEN LastPart[k] ELSE FirstPart[k]) THEN SendFailed(m, "PROTOCOL")
     ELSE IF AllIn(d) THEN FinishKeyDistribution(d)
     ELSE Stay([d EXCEPT !.deadline = TRUE])

(* bt_smp_manager_on_encryption_changed. *)
OnEncryptionChanged ==
  LET d == [Verify("encryption") EXCEPT !.mask = {}, !.half = {},
                                     !.keys = IF m.neg.sc THEN {"enc"} ELSE {}]
  IN /\ m.state = "WAIT_ENCRYPTION"
     /\ \/ ~correct /\ Finish(m, "ENCRYPTION", calls)
        \/ IF d.neg.rkeys = {} THEN FinishKeyDistribution(d)
           ELSE Stay([d EXCEPT !.state = "WAIT_KEY_DISTRIBUTION", !.deadline = TRUE])

-----------------------------------------------------------------------------
(* What a responder that follows the protocol sends next. *)
Last(pdu) == heard # <<>> /\ heard[Len(heard)] = pdu
Heard(pdu) == \E i \in DOMAIN heard : heard[i] = pdu
DueKeys == peer.rkeys \ (IF request.sc /\ peer.sc THEN {"enc"} ELSE {})
Due == InOrder({pdu \in Parts(DueKeys) : ~Heard(pdu)})
MaySend(pdu) ==
  CASE pdu = "response" -> heard = <<>> /\ "request" \in sent
    [] pdu = "public" -> Last("response") /\ m.neg.sc /\ m.state = "WAIT_PEER_PUBLIC_KEY"
    [] pdu = "confirm" -> IF m.neg.sc THEN Last("public")
                          ELSE Last("response") /\ "confirm" \in sent
    [] pdu = "random" -> Last("confirm") /\ "random" \in sent
    [] pdu = "dhcheck" -> Last("random") /\ "dhcheck" \in sent
    [] pdu \in KeyPdus -> m.state = "WAIT_KEY_DISTRIBUTION" /\ Due # <<>> /\ pdu = Due[1]
    [] OTHER -> FALSE

(* bt_smp_manager_on_pdu, from the event loop or inside a send; bad: a PDU *)
(* that does not parse or is unknown.                                      *)
OnPdu(pdu, good, response) ==
  /\ m.state # "IDLE" /\ ~Ended /\ Len(calls) <= MaxNested
  /\ inside' = (inside \/ calls # <<>>)
  /\ correct => MaySend(pdu) /\ good /\ Acceptable(request, response)
  /\ heard' = IF correct THEN Append(heard, pdu) ELSE <<>>
  /\ peer' = IF correct /\ pdu = "response" THEN response ELSE peer
  /\ CASE pdu = "response" -> HandlePairingResponse(response)
       [] pdu = "public" -> HandleScPublicKey(good)
       [] pdu = "confirm" -> IF m.state = "WAIT_SC_CONFIRM" THEN HandleScConfirm ELSE HandleConfirm
       [] pdu = "random" -> IF m.state = "WAIT_SC_RANDOM" THEN HandleScRandom(good)
                            ELSE HandleRandom(good)
       [] pdu = "dhcheck" -> HandleScDhkeyCheck(good)
       [] pdu \in KeyPdus -> HandleDistributedKey(pdu)
       [] pdu = "failed" -> Finish(m, "PROTOCOL", calls)
       [] OTHER -> SendFailed(m, "PROTOCOL")
  /\ UNCHANGED <<correct, request>>

(* The features of a response are looked at in one state only. *)
Responses == IF m.state = "WAIT_PAIRING_RESPONSE" THEN Features ELSE {NoFeatures}

PeerPdu ==
  \/ \E r \in Responses : OnPdu("response", TRUE, r)
  \/ \E pdu \in KeyPdus \cup {"public", "confirm", "random", "dhcheck", "failed", "bad"} :
       \E good \in BOOLEAN : OnPdu(pdu, good, NoFeatures)

(* bt_smp_manager_provide_passkey, bt_smp_manager_provide_oob_tk. *)
ProvideTk ==
  m.state = "WAIT_TK" /\ StartConfirmExchange(m)

(* bt_smp_manager_confirm_numeric. *)
ConfirmNumeric(yes) ==
  /\ m.state = "WAIT_NUMERIC_CONFIRMATION"
  /\ IF yes THEN StartScStage2(Verify("numeric"))
     ELSE SendFailed(m, "CONFIRM")

(* bt_smp_manager_on_local_public_key and bt_smp_manager_on_dhkey. *)
OnLocalPublicKey ==
  /\ m.state = "WAIT_LOCAL_PUBLIC_KEY"
  /\ CryptoFails(m) \/ SendIn(m, "WAIT_PEER_PUBLIC_KEY", "public")

OnDhkey ==
  /\ m.state = "WAIT_DHKEY"
  /\ CryptoFails(m) \/ Stay([m EXCEPT !.state = "WAIT_SC_CONFIRM", !.deadline = TRUE])

(* bt_smp_manager_tick, when the deadline has passed. *)
Tick ==
  /\ ~correct /\ m.deadline /\ ~Ended /\ calls = <<>>
  /\ Finish(m, "TIMEOUT", calls) /\ UNCHANGED <<correct, request, inside, heard, peer>>

(* The user, the controller and the clock act from the event loop. *)
Local ==
  /\ calls = <<>>
  /\ \/ ProvideTk \/ OnLocalPublicKey \/ OnDhkey \/ OnEncryptionChanged
     \/ \E yes \in BOOLEAN : ConfirmNumeric(yes)
  /\ UNCHANGED <<correct, request, inside, heard, peer>>

Next == Start \/ PeerPdu \/ SendReturns \/ Local \/ Tick

(* A send returns, time passes and the event loop ticks; a peer that       *)
(* follows the protocol answers, and the controller and the user do too.   *)
Spec == /\ Init /\ [][Next]_vars /\ WF_vars(SendReturns) /\ WF_vars(Tick)
        /\ WF_vars(correct /\ (PeerPdu \/ Local))

-----------------------------------------------------------------------------
(* The pairing is over exactly when complete() has been called, its state  *)
(* is that of the last call, and until then a pairing that has begun has a *)
(* deadline.  complete() is called once, unless a PDU was handled inside   *)
(* the send of a Pairing Failed or of a key: that PDU may end the pairing, *)
(* and send_failed or finish_key_distribution then ends it once more.      *)
EndsOnceAndIsTimed ==
  /\ Ended <=> results # <<>>
  /\ Ended => (m.state = "COMPLETE" <=> results[Len(results)] = "OK")
  /\ ~inside => Len(results) <= 1
  /\ m.state # "IDLE" /\ ~Ended => m.deadline

(* A pairing that succeeds has verified everything its method calls for,   *)
(* has every key the peer agreed to send, with its two parts, and has sent *)
(* all of ours, whatever the peer sent in whatever order.                  *)
SuccessIsEarned ==
  m.state = "COMPLETE" =>
    /\ {"confirm", "encryption"} \subseteq m.verified
    /\ m.neg.sc => "dhkey" \in m.verified
    /\ m.neg.assoc = "NUMERIC" => "numeric" \in m.verified
    /\ m.keys = m.neg.rkeys \cup (IF m.neg.sc THEN {"enc"} ELSE {})
    /\ Parts(m.neg.ikeys) \subseteq sent

(* Our keys are not sent before the link is encrypted and the peer's keys  *)
(* are in.                                                                 *)
KeysStaySecret ==
  sent \cap KeyPdus # {} => "encryption" \in m.verified /\ m.neg.rkeys \subseteq m.mask

(* A pairing that was begun, or whose beginning failed, ends. *)
PairingEnds == m.deadline ~> Ended

(* With a peer that follows the protocol and nothing failing, pairing      *)
(* succeeds, unless the method is not supported or the user says no, or    *)
(* the peer's confirm value is there before the controller has generated   *)
(* the DHKey (handle_confirm knows no such state and ends the pairing).    *)
PairsInTheEnd ==
  correct /\ m.state = "WAIT_PAIRING_RESPONSE" ~>
    \/ m.state = "COMPLETE" \/ results = <<"UNSUPPORTED">>
    \/ results = <<"CONFIRM">> /\ m.neg.assoc = "NUMERIC"
    \/ results = <<"PROTOCOL">> /\ m.neg.sc /\ Last("confirm")

(* smp_pairing.h: "Applies Core Vol 3 Part H 2.3.4/2.3.5.1 and Tables      *)
(* 2.6-2.8": whatever capabilities the peer answers with, when one side    *)
(* wants MITM protection the method is the one the table gives; except     *)
(* that a keyboard with a display facing a display is given Just Works.    *)
MethodIsOfTheTable ==
  m.state = "WAIT_PAIRING_RESPONSE" /\ request.mitm /\ ~request.oob =>
    \A io \in IoCapabilities :
      LET assoc == Negotiate(request, [NoFeatures EXCEPT !.io = io, !.sc = request.sc]).assoc
      IN \/ assoc = Table28(request.io, io, request.sc)
         \/ /\ KeyboardDisplay \in {request.io, io} /\ CanShow(request.io) /\ CanShow(io)
            /\ assoc = "JUST_WORKS"

(* Every pairing is concluded, and successfully when nobody stands in the  *)
(* way of it.                                                              *)
PairingConcludes == PairingEnds /\ PairsInTheEnd
=============================================================================
