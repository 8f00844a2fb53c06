------------------------------ MODULE SdpClient ------------------------------
(***************************************************************************)
(* The SDP client (sdp_client.c) on a dynamic L2CAP channel: searches and  *)
(* attribute requests whose results come in rounds, each asked for with    *)
(* the continuation state of the one before and a transaction id of its    *)
(* own.  There is no timeout: a request ends with an answer or the channel.*)
(*                                                                         *)
(* Answers may be late, and meet the channel that reuses the CID of the    *)
(* one they were sent to, or be lost.  An answer that is not the last one  *)
(* holds at least one part: a server that only ever continues would keep   *)
(* the client asking.                                                      *)
(***************************************************************************)
EXTENDS Naturals, Sequences

CONSTANTS
  Tids,          \* number of transaction ids, 2^16
  Sizes,         \* sizes of the results, in parts
  MaxResult,     \* BT_SDP_CLIENT_MAX_RESULT, in parts
  ConnectEarly,  \* may the owner connect while its old channel is closing?
  SdpMaxRequests, SdpMaxConnects

ASSUME SdpAssumption ==
  /\ Tids \in Nat \ {0} /\ Sizes \subseteq Nat /\ MaxResult \in Nat
  /\ ConnectEarly \in BOOLEAN /\ SdpMaxRequests \in Nat /\ SdpMaxConnects \in Nat

VARIABLES
  sdp,        \* struct bt_sdp_client; cb is the request on_complete belongs to
  sdpChan,    \* external: the channels that were opened, by the channel manager
  sdpServer,  \* external: requests not answered yet
  sdpDone,    \* history: request -> how often its callback was called
  size,       \* external: request -> size of its result
  reported    \* history: connection -> what on_connect was told

sdpVars == <<sdp, sdpChan, sdpServer, sdpDone, size, reported>>

SdpService == INSTANCE ExchangeService WITH done <- sdpDone

SdpInit ==
  /\ sdp = [ready |-> FALSE, connecting |-> 0, cid |-> 0, busy |-> FALSE, op |-> "search",
          tid |-> 0, next |-> 1, cont |-> 0, result |-> <<>>, cb |-> 0, outcome |-> "none"]
  /\ sdpChan = <<>> /\ sdpServer = {} /\ sdpDone = <<>> /\ size = <<>> /\ reported = <<>>

-----------------------------------------------------------------------------
(* fail and succeed. *)
SdpFinish(d, dn, outcome) ==
  /\ sdp' = [d EXCEPT !.busy = FALSE, !.outcome = outcome]
  /\ sdpDone' = [dn EXCEPT ![d.cb] = @ + 1]

(* issue_request; the transport may refuse what is sent. *)
SdpIssue(d, dn, queue) ==
  LET e == [d EXCEPT !.tid = d.next, !.next = (@ + 1) % Tids]
  IN \/ /\ sdp' = e /\ sdpDone' = dn
        /\ sdpServer' = queue \cup {[tid |-> e.tid, op |-> d.op, request |-> d.cb, from |-> d.cont]}
     \/ SdpFinish(e, dn, "CLOSED") /\ sdpServer' = queue

-----------------------------------------------------------------------------
(* bt_sdp_client_connect.  When the channel manager refuses, the caller    *)
(* has the error and on_connect stays set.                                 *)
SdpConnect ==
  LET k == Len(sdpChan) + 1
  IN /\ k <= SdpMaxConnects
     /\ \A j \in DOMAIN sdpChan : sdpChan[j] = "closed" \/ (ConnectEarly /\ sdpChan[j] = "closing")
     /\ \/ /\ sdpChan' = Append(sdpChan, "opening") /\ reported' = Append(reported, "nothing")
           /\ sdp' = [sdp EXCEPT !.connecting = k, !.cid = k]
        \/ /\ sdpChan' = Append(sdpChan, "closed") /\ reported' = Append(reported, "refused")
           /\ sdp' = [sdp EXCEPT !.connecting = k]
     /\ UNCHANGED <<sdpServer, sdpDone, size>>

(* bt_sdp_client_disconnect. *)
SdpDisconnect ==
  /\ sdp.ready
  /\ sdp' = [sdp EXCEPT !.ready = FALSE]
  /\ sdpChan' = [sdpChan EXCEPT ![sdp.cid] = "closing"]
  /\ UNCHANGED <<sdpServer, sdpDone, size, reported>>

Report(d, answer) ==
  reported' = IF d.connecting = 0 THEN reported ELSE [reported EXCEPT ![d.connecting] = answer]

(* The channel manager waits for the peer's Configure Request, with no     *)
(* timer (see OpeningEnds).                                                *)
Configuring(k) ==
  /\ sdpChan[k] = "opening"
  /\ sdpChan' = [sdpChan EXCEPT ![k] = "config"]
  /\ UNCHANGED <<sdp, sdpServer, sdpDone, size, reported>>

(* on_l2cap_event, OPENED. *)
SdpOpened(k) ==
  /\ sdpChan[k] \in {"opening", "config"}
  /\ sdpChan' = [sdpChan EXCEPT ![k] = "open"]
  /\ sdp' = [sdp EXCEPT !.ready = TRUE, !.connecting = 0] /\ Report(sdp, "up")
  /\ UNCHANGED <<sdpServer, sdpDone, size>>

FailsOnClose == sdp.busy

(* on_l2cap_event, CLOSED: refused, closed by the peer, or as asked. *)
Closed(k) ==
  LET d == [sdp EXCEPT !.ready = FALSE, !.connecting = 0]
  IN /\ sdpChan[k] # "closed"
     /\ sdpChan' = [sdpChan EXCEPT ![k] = "closed"]
     /\ Report(sdp, "failed")
     /\ IF FailsOnClose THEN SdpFinish(d, sdpDone, "CLOSED") ELSE sdp' = d /\ UNCHANGED sdpDone
     /\ UNCHANGED <<sdpServer, size>>

Accepts == sdp.ready /\ ~sdp.busy

(* bt_sdp_client_search and bt_sdp_client_get_attributes. *)
SdpRequest(op, n) ==
  /\ Accepts /\ Len(sdpDone) < SdpMaxRequests
  /\ size' = Append(size, n)
  /\ SdpIssue([sdp EXCEPT !.busy = TRUE, !.op = op, !.cont = 0, !.result = <<>>,
                          !.cb = Len(sdpDone) + 1],
              Append(sdpDone, 0), sdpServer)
  /\ UNCHANGED <<sdpChan, reported>>

-----------------------------------------------------------------------------
(* Fault: the transaction id is not looked at. *)
CurrentAny(q) == TRUE

Current(q) == q.tid = sdp.tid

(* The continuation state of an answer: none after the last part. *)
Continuation(q, upto) == IF upto = size[q.request] THEN 0 ELSE upto

Fits(result, parts) == Len(result) + Len(parts) <= MaxResult

(* handle_search_response, handle_attribute_response, finish_round. *)
Round(q, upto) ==
  LET parts == [i \in 1..(upto - q.from) |-> <<q.request, q.from + i>>]
      d == [sdp EXCEPT !.result = @ \o parts, !.cont = Continuation(q, upto)]
  IN IF ~Fits(sdp.result, parts)
     THEN SdpFinish(sdp, sdpDone, "TOO_LARGE") /\ sdpServer' = sdpServer \ {q}
     ELSE IF Continuation(q, upto) # 0 THEN SdpIssue(d, sdpDone, sdpServer \ {q})
     ELSE SdpFinish(d, sdpDone, "OK") /\ sdpServer' = sdpServer \ {q}

(* handle_response, for the answer to q: the parts after q.from up to some *)
(* part, an error, or a PDU that cannot be parsed.                         *)
SdpResponse(q) ==
  /\ sdp.cid # 0 /\ sdpChan[sdp.cid] = "open"
  /\ IF ~sdp.busy THEN sdpServer' = sdpServer \ {q} /\ UNCHANGED <<sdp, sdpDone>>
     ELSE \/ SdpFinish(sdp, sdpDone, "PROTOCOL") /\ sdpServer' = sdpServer \ {q}
          \/ IF ~Current(q) THEN sdpServer' = sdpServer \ {q} /\ UNCHANGED <<sdp, sdpDone>>
             ELSE IF q.op # sdp.op
             THEN SdpFinish(sdp, sdpDone, "PROTOCOL") /\ sdpServer' = sdpServer \ {q}
             ELSE \E upto \in q.from..size[q.request] :
                    (upto = q.from => size[q.request] = 0) /\ Round(q, upto)
  /\ UNCHANGED <<sdpChan, size, reported>>

(* The server does not answer, or the channel it answers on is gone. *)
Lost(q) ==
  /\ sdpServer' = sdpServer \ {q}
  /\ UNCHANGED <<sdp, sdpChan, sdpDone, size, reported>>

SdpAnswer == \E q \in sdpServer : SdpResponse(q) \/ Lost(q)

SdpNext ==
  \/ SdpConnect \/ SdpDisconnect \/ SdpAnswer
  \/ \E k \in DOMAIN sdpChan : Configuring(k) \/ SdpOpened(k) \/ Closed(k)
  \/ \E op \in {"search", "attributes"}, n \in Sizes : SdpRequest(op, n)

(* An answer arrives or is lost, and the channel manager gets on with what *)
(* it opens and closes, by its own timer, as far as OpeningEnds and        *)
(* ClosingEnds say: neither the server nor a peer that is to configure the *)
(* channel has to do anything.                                             *)
SdpFairness ==
  /\ WF_sdpVars(SdpAnswer)
  /\ \A k \in 1..SdpMaxConnects :
       WF_sdpVars(/\ k \in DOMAIN sdpChan /\ sdpChan[k] \in {"opening", "closing"}
                  /\ Configuring(k) \/ SdpOpened(k) \/ Closed(k))

SdpSpec == SdpInit /\ [][SdpNext]_sdpVars /\ SdpFairness

-----------------------------------------------------------------------------
SdpTypeOK ==
  /\ sdp \in [ready : BOOLEAN, connecting : 0..SdpMaxConnects, cid : 0..SdpMaxConnects,
              busy : BOOLEAN,
            op : {"search", "attributes"}, tid : 0..(Tids - 1), next : 0..(Tids - 1), cont : Nat,
            result : Seq(Nat \X Nat), cb : 0..SdpMaxRequests,
            outcome : {"none", "OK", "CLOSED", "PROTOCOL", "TOO_LARGE"}]
  /\ Len(sdp.result) <= MaxResult
  /\ DOMAIN sdpDone = DOMAIN size /\ DOMAIN sdpChan = DOMAIN reported

(* Each request is completed once, before the next one is accepted. *)
SdpServiceSpec == SdpService!Spec

(* A request that succeeds has the whole of its own result, in order: no   *)
(* part of an earlier request's answer, none twice and none missing.       *)
ResultIsWhole ==
  sdp.outcome = "OK" /\ ~sdp.busy => sdp.result = [i \in 1..size[sdp.cb] |-> <<sdp.cb, i>>]

(* Connecting is reported in the end, unless the channel waits for the     *)
(* peer's Configure Request.                                               *)
ChannelIn(k, states) == k \in DOMAIN sdpChan /\ sdpChan[k] \in states
Reported(k) == k \in DOMAIN reported /\ reported[k] # "nothing"
ConnectReported ==
  \A k \in 1..SdpMaxConnects :
    k \in DOMAIN sdpChan ~> Reported(k) \/ ChannelIn(k, {"config"})

(* A request is completed in the end, unless the answer to its last PDU is *)
(* lost on a channel that stays open; one whose channel closes is.         *)
Unanswered == ChannelIn(sdp.cid, {"open"}) /\ ~\E q \in sdpServer : q.tid = sdp.tid
SdpRequestEnds ==
  /\ sdp.busy ~> ~sdp.busy \/ Unanswered
  /\ sdp.busy /\ ChannelIn(sdp.cid, {"closing", "closed"}) ~> ~sdp.busy
=============================================================================
