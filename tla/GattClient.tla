----------------------------- MODULE GattClient -----------------------------
(***************************************************************************)
(* The GATT client (gatt_client.c) on the fixed ATT channel: MTU exchange, *)
(* discovery loops, reads continued by Read Blob, writes, and the          *)
(* transaction timeout, against a server that answers each request, in     *)
(* order, as late as it likes, or not at all, or with a PDU that does not  *)
(* parse or that lists handles it was not asked for.                       *)
(*                                                                         *)
(* Closing the channel leaves the link up: the server's answers still      *)
(* come, and are dropped or meet the next connection.  Notifications touch *)
(* nothing of this state.  A value is answered by as much of it as the     *)
(* server's MTU allows.                                                    *)
(***************************************************************************)
EXTENDS Naturals, Sequences

CONSTANTS
  LastHandle,     \* 0xFFFF
  MaxResults,     \* BT_GATT_CLIENT_MAX_SERVICES and its like
  MaxValue,       \* BT_GATT_CLIENT_MAX_VALUE_LEN
  Values,         \* lengths of the attributes that are read
  DefaultMtu, RequestMtu,
  ServerMtus,     \* what a server may answer the MTU request with
  GattSendFails,  \* may a send on the channel fail?
  AbortConnect,   \* may the owner disconnect while connecting?
  GattMaxRequests, GattMaxConnects

ASSUME GattAssumption ==
  /\ LastHandle \in Nat
  /\ MaxResults \in Nat /\ MaxValue \in Nat /\ Values \subseteq Nat
  /\ DefaultMtu \in Nat /\ RequestMtu \in Nat /\ 1 < DefaultMtu /\ DefaultMtu <= RequestMtu
  /\ ServerMtus \subseteq Nat \ {0, 1}
  /\ GattSendFails \in BOOLEAN /\ AbortConnect \in BOOLEAN
  /\ GattMaxRequests \in Nat /\ GattMaxConnects \in Nat

VARIABLES
  gatt,        \* struct bt_gatt_client; cb is the request on_complete belongs to
  registered,  \* the ATT channel is open at the channel manager
  gattServer,  \* external: requests the server has not answered
  peerMtu,     \* external: the MTU the server uses
  gattDone,    \* history: request -> how often its callback was called
  last,        \* history: the last completion
  gaveUp,      \* history: a request was given up while the server had it
  behind,      \* history: the last answer led a discovery back to a lower handle
  connects     \* history: number of connections

gattVars == <<gatt, registered, gattServer, peerMtu, gattDone, last, gaveUp, behind, connects>>

Discoveries == {"services", "characteristics", "descriptors"}
Ops == Discoveries \cup {"mtu", "read", "write"}
GattService == INSTANCE ExchangeService WITH done <- gattDone

NoneYet == [request |-> 0, op |-> "mtu", result |-> "none", by |-> 0, len |-> 0, val |-> 0]

GattInit ==
  /\ gatt = [ready |-> FALSE, connecting |-> FALSE, busy |-> FALSE, op |-> "mtu",
          deadline |-> FALSE, cursor |-> 0, end |-> 0, count |-> 0, len |-> 0,
          mtu |-> DefaultMtu, cb |-> 0, val |-> 0]
  /\ registered = FALSE /\ gattServer = <<>> /\ peerMtu = DefaultMtu
  /\ gattDone = <<>> /\ last = NoneYet /\ gaveUp = FALSE /\ behind = FALSE
  /\ connects = 0

-----------------------------------------------------------------------------
GattIdle(d) == [d EXCEPT !.busy = FALSE, !.deadline = FALSE]

(* complete(): on_complete is called, whichever request it belongs to; by  *)
(* is the request whose answer, timeout or closing it was, 0 for none.     *)
Complete(d, dn, result, by) ==
  /\ gatt' = GattIdle(d)
  /\ gattDone' = IF d.cb = 0 THEN dn ELSE [dn EXCEPT ![d.cb] = @ + 1]
  /\ last' = [request |-> d.cb, op |-> d.op, result |-> result, by |-> by,
              len |-> d.len, val |-> d.val]

(* handle_mtu_response. *)
MtuDone(d, mtu) ==
  /\ gatt' = [GattIdle(d) EXCEPT !.mtu = mtu, !.connecting = FALSE]
  /\ UNCHANGED <<gattDone, last>>

(* The request that issue_current_request sends; request, from and val are *)
(* history.                                                                *)
Kind(d) == IF d.op = "read" /\ d.len # 0 THEN "blob" ELSE d.op
GattPdu(d) == [kind |-> Kind(d), request |-> IF d.op = "mtu" THEN 0 ELSE d.cb, from |-> d.cursor,
               offset |-> d.len, val |-> d.val]

(* Fault: only the first round of an operation is timed. *)
DeadlineFirstOnly(d) == d.count = 0 /\ d.len = 0

Deadline(d) == TRUE

(* issue_current_request. *)
GattIssue(d, dn, queue) ==
  \/ /\ gatt' = [d EXCEPT !.deadline = Deadline(d)]
     /\ gattServer' = Append(queue, GattPdu(d))
     /\ gattDone' = dn /\ UNCHANGED last
  \/ /\ GattSendFails /\ gattServer' = queue
     /\ IF d.op = "mtu" THEN MtuDone(d, d.mtu) ELSE Complete(d, dn, "CLOSED", d.cb)

-----------------------------------------------------------------------------
GattOpened(d) == [d EXCEPT !.ready = TRUE, !.connecting = TRUE, !.busy = TRUE, !.op = "mtu"]

(* bt_gatt_client_connect, by an owner that knows it is not connected; the *)
(* channel manager may have no slot, and on_connect stays set.             *)
GattConnect ==
  /\ ~registered /\ connects < GattMaxConnects
  /\ connects' = connects + 1
  /\ \/ registered' = TRUE /\ GattIssue(GattOpened(gatt), gattDone, gattServer)
     \/ /\ gatt' = [gatt EXCEPT !.connecting = TRUE]
        /\ UNCHANGED <<registered, gattDone, last, gattServer>>
  /\ behind' = FALSE /\ UNCHANGED <<peerMtu, gaveUp>>

GattRequest(op, from, end, val) ==
  LET d == [gatt EXCEPT !.busy = TRUE, !.op = op, !.cursor = from, !.end = end, !.val = val,
                     !.count = IF op \in Discoveries THEN 0 ELSE @,
                     !.len = CASE op = "read" -> 0 [] op = "write" -> 1 [] OTHER -> @,
                     !.cb = Len(gattDone) + 1]
  IN /\ gatt.ready /\ ~gatt.busy /\ Len(gattDone) < GattMaxRequests
     /\ GattIssue(d, Append(gattDone, 0), gattServer)
     /\ behind' = FALSE /\ UNCHANGED <<registered, peerMtu, gaveUp, connects>>

(* The operations of the client. *)
Call ==
  \/ GattRequest("services", 1, LastHandle, 0)
  \/ \E from, end \in 1..LastHandle : \E op \in {"characteristics", "descriptors"} :
       from <= end /\ GattRequest(op, from, end, 0)
  \/ \E v \in Values : GattRequest("read", 1, 0, v)
  \/ GattRequest("write", 1, 0, 0)

(* bt_gatt_client_disconnect, with the CLOSED event that close() delivers  *)
(* before it returns.                                                      *)
GattDisconnect ==
  LET d == [gatt EXCEPT !.ready = FALSE]
  IN /\ gatt.ready /\ (gatt.connecting => AbortConnect)
     /\ gaveUp' = (gaveUp \/ gatt.deadline)
     /\ registered' = FALSE /\ behind' = FALSE
     /\ IF gatt.busy /\ ~gatt.connecting THEN Complete(d, gattDone, "CLOSED", d.cb)
        ELSE gatt' = [d EXCEPT !.connecting = FALSE] /\ UNCHANGED <<gattDone, last>>
     /\ UNCHANGED <<gattServer, connects, peerMtu>>

(* bt_gatt_client_tick, when the deadline has passed. *)
Tick ==
  /\ gatt.busy /\ gatt.deadline
  /\ gaveUp' = TRUE /\ behind' = FALSE
  /\ IF gatt.connecting THEN MtuDone(gatt, gatt.mtu)
     ELSE Complete(gatt, gattDone, "TIMEOUT", IF gatt.op = "mtu" THEN 0 ELSE gatt.cb)
  /\ UNCHANGED <<registered, gattServer, peerMtu, connects>>

-----------------------------------------------------------------------------
(* The answers of the server, in the order of its requests. *)
Asked == Head(gattServer)
Rest == Tail(gattServer)

GattWaiting == gatt.busy
GattFinish(result) == Complete(gatt, gattDone, result, Asked.request) /\ gattServer' = Rest

(* The error responses that are not errors. *)
EndsWell(q, code) ==
  \/ gatt.op \in Discoveries /\ code = "NOT_FOUND"
  \/ gatt.op = "read" /\ gatt.len # 0 /\ q.kind = "blob" /\ code = "INVALID_OFFSET"

ErrorResponse(code) ==
  /\ CASE code = "NOT_FOUND" -> Asked.kind \in Discoveries
       [] code = "INVALID_OFFSET" -> Asked.kind = "blob" /\ Asked.offset >= Asked.val
       [] OTHER -> TRUE
  /\ behind' = FALSE /\ UNCHANGED peerMtu
  /\ IF gatt.connecting THEN MtuDone(gatt, gatt.mtu) /\ gattServer' = Rest
     ELSE IF ~GattWaiting THEN gattServer' = Rest /\ UNCHANGED <<gatt, gattDone, last>>
     ELSE GattFinish(CASE EndsWell(Asked, code) -> "OK" [] code = "BAD" -> "PROTOCOL" [] OTHER -> "ATT")

TooMany(n) == gatt.count + n > MaxResults

(* handle_discover_*_response: n entries with short UUIDs, the last entry  *)
(* of all at handle at, whatever was asked for.                            *)
Discovered(n, at) ==
  IF TooMany(n) THEN GattFinish("TOO_LARGE")
  ELSE IF at >= gatt.end THEN GattFinish("OK")
  ELSE GattIssue([gatt EXCEPT !.count = @ + n, !.cursor = at + 1], gattDone, Rest)

(* Fault: a value that fills its response exactly is taken for complete. *)
ContinuesIfLonger(n) == n > gatt.mtu - 1

Continues(n) == n = gatt.mtu - 1

(* handle_read_response, with n bytes of the value. *)
Fetched(n) ==
  LET d == [gatt EXCEPT !.len = @ + n]
  IN IF n > MaxValue - gatt.len THEN GattFinish("TOO_LARGE")
     ELSE IF Continues(n) THEN GattIssue(d, gattDone, Rest)
     ELSE Complete(d, gattDone, "OK", Asked.request) /\ gattServer' = Rest

(* handle_response, for an answer of the right kind or of another. *)
Dispatch(n, at) ==
  IF gatt.connecting
  THEN /\ MtuDone(gatt, IF Asked.kind = "mtu" THEN n ELSE gatt.mtu) /\ gattServer' = Rest
  ELSE IF ~GattWaiting THEN gattServer' = Rest /\ UNCHANGED <<gatt, gattDone, last>>
  ELSE IF Asked.kind # Kind(gatt) THEN GattFinish("PROTOCOL")
  ELSE IF gatt.op \in Discoveries THEN Discovered(n, at)
  ELSE IF gatt.op = "read" THEN Fetched(n)
  ELSE GattFinish("OK")

AgreedMtu(m) == IF m < RequestMtu THEN m ELSE RequestMtu

GattResponse ==
  CASE Asked.kind \in Discoveries ->
         /\ \E n \in 0..1, at \in 0..LastHandle : Dispatch(n, at) /\ behind' = (at < Asked.from)
         /\ UNCHANGED peerMtu
    [] Asked.kind \in {"read", "blob"} ->
         LET left == Asked.val - Asked.offset
         IN left >= 0 /\ Dispatch(IF left < peerMtu - 1 THEN left ELSE peerMtu - 1, 0)
              /\ behind' = FALSE /\ UNCHANGED peerMtu
    [] Asked.kind = "mtu" ->
         \E m \in ServerMtus : /\ Dispatch(AgreedMtu(m), 0) /\ behind' = FALSE
                               /\ peerMtu' = IF m < RequestMtu THEN m ELSE RequestMtu
    [] OTHER -> Dispatch(0, 0) /\ behind' = FALSE /\ UNCHANGED peerMtu

(* No answer that is of use: none at all, or one for a closed channel. *)
NoAnswer == gattServer' = Rest /\ behind' = FALSE /\ UNCHANGED <<gatt, gattDone, last, peerMtu>>

(* An answer arrives, or none does.  An error response that is BAD stands  *)
(* for one that does not parse and for a discovery response with no entry. *)
GattAnswer ==
  /\ gattServer # <<>>
  /\ \/ NoAnswer
     \/ registered /\ GattResponse
     \/ \E code \in {"NOT_FOUND", "INVALID_OFFSET", "OTHER", "BAD"} : registered /\ ErrorResponse(code)
  /\ UNCHANGED <<registered, gaveUp, connects>>

GattNext == GattConnect \/ Call \/ GattDisconnect \/ Tick \/ GattAnswer

(* The server may be silent, but then the event loop's ticks reach the     *)
(* deadline: a request that waits is answered, ignored or times out.       *)
GattFairness == WF_gattVars(Tick \/ GattAnswer)

GattSpec == GattInit /\ [][GattNext]_gattVars /\ GattFairness

-----------------------------------------------------------------------------
GattTypeOK ==
  /\ gatt \in [ready : BOOLEAN, connecting : BOOLEAN, busy : BOOLEAN, op : Ops, deadline : BOOLEAN,
            cursor : 0..LastHandle, end : 0..LastHandle, count : 0..MaxResults,
            len : 0..MaxValue, mtu : Nat, cb : 0..GattMaxRequests,
            val : Values \cup {0}]
  /\ gatt.mtu <= RequestMtu /\ peerMtu <= RequestMtu
  /\ registered \in BOOLEAN /\ gaveUp \in BOOLEAN /\ behind \in BOOLEAN
  /\ gattDone \in Seq(Nat) /\ Len(gattDone) <= GattMaxRequests /\ connects \in 0..GattMaxConnects

(* Each request is completed once, before the next one is accepted. *)
GattServiceSpec == GattService!Spec

(* As long as nothing was given up, every answer is for the request it     *)
(* completes, and a value that was read is the whole value: the client and *)
(* the server agree on the MTU that tells the last part of it.             *)
AnswersAndValuesMatch ==
  ~gaveUp => /\ last.by = last.request
             /\ last.result = "OK" /\ last.op = "read" => last.len = last.val
             /\ ~gatt.connecting => gatt.mtu = peerMtu

(* Connecting, and every request, ends, with an answer or without: the     *)
(* rounds of a discovery or of a long read advance, and each is timed.     *)
(* Only a server that again and again lists lower handles than it was      *)
(* asked for keeps a discovery going.                                      *)
GattRequestEnds == gatt.busy /\ gatt.op # "mtu" ~> ~gatt.busy \/ behind
ConnectEnds == gatt.connecting /\ registered ~> ~gatt.connecting

=============================================================================
