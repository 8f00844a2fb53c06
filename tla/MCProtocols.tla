---------------------------- MODULE MCProtocols -----------------------------
(***************************************************************************)
(* The protocols above the link in one run: the channels of the L2CAP      *)
(* channel manager, the fragments of one link, the ATT and the SDP client. *)
(* They share no state the model keeps, so a behaviour is one of the part  *)
(* chosen at the start, the others resting in their initial states, where  *)
(* none of their fair actions is enabled.                                  *)
(***************************************************************************)
EXTENDS L2capChannels, AclFragments, GattClient, SdpClient

VARIABLE part   \* the component that runs

MCInit ==
  /\ part \in {"l2cap", "acl", "gatt", "sdp"}
  /\ L2capInit /\ AclInit /\ GattInit /\ SdpInit
  /\ part # "acl" => fragSize = CHOOSE f \in FragSizes : TRUE

MCNext ==
  /\ UNCHANGED part
  /\ \/ part = "l2cap" /\ L2capNext /\ UNCHANGED <<aclVars, gattVars, sdpVars>>
     \/ part = "acl" /\ AclNext /\ UNCHANGED <<l2capVars, gattVars, sdpVars>>
     \/ part = "gatt" /\ GattNext /\ UNCHANGED <<l2capVars, aclVars, sdpVars>>
     \/ part = "sdp" /\ SdpNext /\ UNCHANGED <<l2capVars, aclVars, gattVars>>

MCSpec ==
  /\ MCInit /\ [][MCNext]_<<part, l2capVars, aclVars, gattVars, sdpVars>>
  /\ L2capFairness /\ GattFairness /\ SdpFairness

(* Every part keeps its variables in their types and within its bounds. *)
TypeOK == L2capTypeOK /\ AclTypeOK /\ GattTypeOK /\ SdpTypeOK

(* The owner of a channel sees the life that ChannelService allows, and    *)
(* the owners of the two clients what ExchangeService does: a request is   *)
(* accepted when none is open and completed once.                          *)
ImplementsServices == L2capServiceSpec /\ GattServiceSpec /\ SdpServiceSpec

(* What is begun ends: a channel that is opened or closed gets there or is *)
(* given up, and connecting and every request of both clients is answered  *)
(* or given up.  The peer can prevent this in three places, where the code *)
(* has no timer or does not insist on progress, and there only: a channel  *)
(* waits in CONFIG for the Configure Request (and connecting SDP with it), *)
(* an SDP request for an answer that is lost, and a discovery starts over  *)
(* at each lower handle it is led back to.                                 *)
EveryRequestEnds ==
  /\ OpeningEnds /\ ClosingEnds
  /\ ConnectEnds /\ GattRequestEnds
  /\ ConnectReported /\ SdpRequestEnds
=============================================================================
