------------------------------ MODULE MCDevices -----------------------------
(***************************************************************************)
(* What is known of the remote devices and what is made of their reports,  *)
(* in one run: the HID-over-GATT client, the report descriptor parser, the *)
(* input path, the bond store and the device registry.  A behaviour is one *)
(* of the part chosen at the start; the others rest.                       *)
(***************************************************************************)
EXTENDS HogpClient, HidInput, HidReport, BondStore, DeviceRegistry

VARIABLE part   \* the component that runs

MCInit ==
  /\ part \in {"hogp", "input", "parser", "bonds", "registry"}
  /\ HogpInit /\ InputInit /\ ParserInit /\ BondInit /\ RegistryInit
  /\ part # "hogp" => device = <<CHOOSE ch \in Characteristics : ch.uuid = "map">>

MCNext ==
  /\ UNCHANGED part
  /\ \/ /\ part = "hogp" /\ HogpNext
        /\ UNCHANGED <<inputVars, parserVars, bondVars, registryVars>>
     \/ /\ part = "input" /\ InputNext
        /\ UNCHANGED <<hogpVars, parserVars, bondVars, registryVars>>
     \/ /\ part = "parser" /\ ParserNext
        /\ UNCHANGED <<hogpVars, inputVars, bondVars, registryVars>>
     \/ /\ part = "bonds" /\ BondNext
        /\ UNCHANGED <<hogpVars, inputVars, parserVars, registryVars>>
     \/ /\ part = "registry" /\ RegistryNext
        /\ UNCHANGED <<hogpVars, inputVars, parserVars, bondVars>>

MCSpec ==
  MCInit /\ [][MCNext]_<<part, hogpVars, inputVars, parserVars, bondVars, registryVars>>

(* Every part keeps its variables in their types and within its bounds. *)
TypeOK == HogpTypeOK /\ InputTypeOK /\ ParserTypeOK /\ BondTypeOK /\ RegistryTypeOK

(* The HID-over-GATT client completes each call once, as ExchangeService   *)
(* says; the bond store is the map of BondMap through any interrupted      *)
(* save, and a file that was written to its end loads.                     *)
ImplementsServices == ServiceSpec /\ MapSpec /\ []IntactLoads
=============================================================================
