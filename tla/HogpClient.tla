----------------------------- MODULE HogpClient -----------------------------
(***************************************************************************)
(* The HID-over-GATT client (hogp_client.c): the chain of GATT operations  *)
(* that finds a device's reports and enables them, writes of reports, and  *)
(* the switch to the boot protocol, over a GATT client that the owner may  *)
(* also use and that may fail or be disconnected at every step.            *)
(*                                                                         *)
(* The device is any table of up to MaxChars characteristics.  Handles are *)
(* given out as a server does: declaration, value, descriptors.            *)
(***************************************************************************)
EXTENDS Naturals, Sequences

CONSTANTS
  MaxChars,        \* characteristics of the HID service
  HogpMaxReports,  \* BT_HOGP_MAX_REPORTS
  MaxRequests

ASSUME HogpAssumption == MaxChars \in Nat /\ HogpMaxReports \in Nat /\ MaxRequests \in Nat

VARIABLES
  device,   \* external: the device's characteristics, in order
  enabled,  \* external: CCCDs on which notifications are enabled
  gatt,     \* external: "down", "idle", "hogp" or "other", who uses the GATT client
  h,        \* struct bt_hogp_client
  done,     \* history: request -> how often its callback was called
  ended     \* history: what the last discovery or switch to boot mode reported

hogpVars == <<device, enabled, gatt, h, done, ended>>

Service == INSTANCE ExchangeService

Characteristics ==
  [uuid : {"report"}, cccd : BOOLEAN, ref : {"none", "input", "output"}]
    \cup [uuid : {"map", "mode", "kbdout"}, cccd : {FALSE}, ref : {"none"}]
    \cup [uuid : {"kbdin", "mousein"}, cccd : BOOLEAN, ref : {"none"}]

(* The handles of the device: characteristic i is declared at Decl(i). *)
Width(ch) == 2 + (IF ch.cccd THEN 1 ELSE 0) + (IF ch.ref # "none" THEN 1 ELSE 0)
DeclOf[i \in 1..(MaxChars + 1)] == IF i = 1 THEN 1 ELSE DeclOf[i - 1] + Width(device[i - 1])
EndHandle == DeclOf[Len(device) + 1] - 1
Chars == [i \in DOMAIN device |->
            [decl |-> DeclOf[i], value |-> DeclOf[i] + 1, uuid |-> device[i].uuid]]
Descriptors ==
  {[handle |-> DeclOf[i] + 2, uuid |-> "cccd"] : i \in {j \in DOMAIN device : device[j].cccd}}
    \cup {[handle |-> DeclOf[i] + Width(device[i]) - 1, uuid |-> "ref"] :
            i \in {j \in DOMAIN device : device[j].ref # "none"}}
CharAt(handle) == CHOOSE i \in DOMAIN device : DeclOf[i] <= handle /\ handle < DeclOf[i + 1]

HogpInit ==
  /\ device \in UNION {[1..n -> Characteristics] : n \in 1..MaxChars}
  /\ enabled = {} /\ gatt = "idle" /\ done = <<>> /\ ended = "none"
  /\ h = [step |-> "none", chars |-> <<>>, descs |-> {}, reports |-> <<>>, index |-> 0,
          boot |-> 0, bootMode |-> FALSE, cb |-> 0, discovering |-> FALSE]

-----------------------------------------------------------------------------
(* A GATT operation is started, from idle or from the callback of the last. *)
Do(d, step) == h' = [d EXCEPT !.step = step] /\ gatt' = "hogp" /\ UNCHANGED <<done, ended>>

(* finish, on_report_write and complete_mode: the callback is forgotten,   *)
(* then called.                                                            *)
Finish(d, result) ==
  /\ h' = [d EXCEPT !.step = "none", !.cb = 0, !.discovering = FALSE]
  /\ gatt' = IF gatt = "down" THEN "down" ELSE "idle"
  /\ done' = [done EXCEPT ![d.cb] = @ + 1]
  /\ ended' = IF d.step = "write" THEN ended ELSE result

(* Fault: a characteristic's descriptors are looked for in those after it. *)
CharacteristicEndWide(d, i) == EndHandle

(* characteristic_end and find_descriptor. *)
CharacteristicEnd(d, i) ==
  IF i + 1 <= Len(d.chars) THEN d.chars[i + 1].decl - 1 ELSE EndHandle
FindDescriptor(d, i, uuid) ==
  LET own == {x \in d.descs : /\ x.uuid = uuid /\ x.handle > d.chars[i].value
                              /\ x.handle <= CharacteristicEnd(d, i)}
  IN IF own = {} THEN 0 ELSE (CHOOSE x \in own : \A y \in own : x.handle <= y.handle).handle

Has(d, uuid) == \E i \in DOMAIN d.chars : d.chars[i].uuid = uuid
BootCccd(d, uuid) ==
  LET is == {i \in DOMAIN d.chars : d.chars[i].uuid = uuid}
  IN IF is = {} THEN 0 ELSE FindDescriptor(d, CHOOSE i \in is : \A j \in is : j <= i, "cccd")

ReportsKept(n) == IF n < HogpMaxReports THEN n ELSE HogpMaxReports

(* build_report_list: the first MaxReports reports, their types unknown. *)
BuildReportList(d) ==
  LET is == SelectSeq([i \in DOMAIN d.chars |-> i], LAMBDA i : d.chars[i].uuid = "report")
  IN [k \in 1..ReportsKept(Len(is)) |->
        [value |-> d.chars[is[k]].value, cccd |-> FindDescriptor(d, is[k], "cccd"),
         ref |-> FindDescriptor(d, is[k], "ref"), type |-> "none"]]

-----------------------------------------------------------------------------
(* Fault: a report without a CCCD is enabled like the others. *)
LacksCccdNever(report) == FALSE

LacksCccd(report) == report.cccd = 0

(* on_cccd_write's loop: the next input report is enabled. *)
EnableFrom(d, index) ==
  LET left == {k \in DOMAIN d.reports : k > index /\ d.reports[k].type = "input"}
      k == CHOOSE x \in left : \A y \in left : x <= y
  IN IF left = {} THEN Finish([d EXCEPT !.index = Len(d.reports)], "OK")
     ELSE IF LacksCccd(d.reports[k]) THEN Finish([d EXCEPT !.index = k], "PROTOCOL")
     ELSE Do([d EXCEPT !.index = k], "cccd")

(* read_next_reference. *)
ReadNextReference(d, index) ==
  LET left == {k \in DOMAIN d.reports : k > index /\ d.reports[k].ref # 0}
  IN IF left = {} THEN EnableFrom(d, 0)
     ELSE Do([d EXCEPT !.index = CHOOSE x \in left : \A y \in left : x <= y], "ref")

(* subscribe_next_boot_input. *)
SubscribeNextBootInput(d, step) ==
  LET next == IF step = 0 /\ BootCccd(d, "kbdin") # 0 THEN 1
              ELSE IF step < 2 /\ BootCccd(d, "mousein") # 0 THEN 2 ELSE 3
  IN IF next = 3 THEN Finish([d EXCEPT !.boot = 2], "BOOT")
     ELSE Do([d EXCEPT !.boot = next], "bootcccd")

-----------------------------------------------------------------------------
(* The callbacks on_services, on_characteristics, on_descriptors,          *)
(* on_report_map, on_report_reference, on_cccd_write and those of writes,  *)
(* when the operation succeeded.                                           *)
OnServices == \/ Do(h, "characteristics")
              \/ Finish(h, "NOT_FOUND")

OnCharacteristics ==
  LET d == [h EXCEPT !.chars = Chars]
  IN IF Has(d, "map") THEN Do(d, "descriptors") ELSE Finish(d, "NOT_FOUND")

OnDescriptors ==
  LET d == [h EXCEPT !.descs = Descriptors]
      e == [d EXCEPT !.reports = BuildReportList(d)]
  IN IF e.reports = <<>> THEN Finish(e, "NOT_FOUND") ELSE Do(e, "map")

OnReportMap == \/ ReadNextReference([h EXCEPT !.index = 0], 0)
               \/ Finish(h, "PROTOCOL")

OnReportReference ==
  LET k == h.index
  IN ReadNextReference([h EXCEPT !.reports[k].type = device[CharAt(h.reports[k].ref)].ref], k)

OnCccdWrite == EnableFrom(h, h.index)

AfterMode == SubscribeNextBootInput(h, h.boot)

OnProtocolModeWrite == IF h.bootMode THEN AfterMode ELSE Finish(h, "REPORT")

(* The effect of the operation on the device. *)
Written ==
  CASE h.step = "cccd" -> enabled \cup {h.reports[h.index].cccd}
    [] h.step = "bootcccd" -> enabled \cup {BootCccd(h, IF h.boot = 1 THEN "kbdin" ELSE "mousein")}
    [] OTHER -> enabled

GattSucceeds ==
  /\ gatt = "hogp"
  /\ enabled' = Written
  /\ CASE h.step = "services" -> OnServices
       [] h.step = "characteristics" -> OnCharacteristics
       [] h.step = "descriptors" -> OnDescriptors
       [] h.step = "map" -> OnReportMap
       [] h.step = "ref" -> OnReportReference
       [] h.step = "cccd" -> OnCccdWrite
       [] h.step = "mode" -> OnProtocolModeWrite
       [] h.step = "bootcccd" -> AfterMode
       [] OTHER -> Finish(h, "OK")
  /\ UNCHANGED device

(* The operation fails or the channel closes; a write may have got through. *)
GattFails ==
  \E down \in BOOLEAN :
    /\ gatt = "hogp"
    /\ enabled' \in {enabled, Written}
    /\ h' = [h EXCEPT !.step = "none", !.cb = 0, !.discovering = FALSE]
    /\ gatt' = IF down THEN "down" ELSE "idle"
    /\ done' = [done EXCEPT ![h.cb] = @ + 1]
    /\ ended' = IF h.step = "write" THEN ended ELSE "ERROR"
    /\ UNCHANGED device

(* The owner's own use of the GATT client, its closing and connecting. *)
Owner ==
  /\ \/ gatt = "idle" /\ gatt' \in {"other", "down"}
     \/ gatt = "other" /\ gatt' \in {"idle", "down"}
     \/ gatt = "down" /\ gatt' = "idle"
  /\ UNCHANGED <<device, enabled, h, done, ended>>

-----------------------------------------------------------------------------
(* The guards of the four calls, and the GATT client's own: a callback     *)
(* that is set belongs to the operation in flight.                         *)
Free == h.cb = 0 /\ gatt = "idle"

Request(d, step) ==
  /\ Free /\ Len(done) < MaxRequests
  /\ h' = [d EXCEPT !.step = step, !.cb = Len(done) + 1] /\ gatt' = "hogp"
  /\ done' = Append(done, 0)
  /\ UNCHANGED <<device, enabled, ended>>

Discover == Request([h EXCEPT !.discovering = TRUE], "services")
WriteReport ==
  /\ \E k \in DOMAIN h.reports : h.reports[k].type = "output"
  /\ Request(h, "write")
WriteBootKeyboardOutput == Has(h, "kbdout") /\ Request(h, "write")
SetProtocolMode ==
  \E boot \in BOOLEAN :
    /\ Has(h, "mode") /\ (boot => Has(h, "kbdin") \/ Has(h, "mousein"))
    /\ Request([h EXCEPT !.bootMode = boot, !.boot = 0], "mode")

HogpNext ==
  \/ Discover \/ WriteReport \/ WriteBootKeyboardOutput \/ SetProtocolMode
  \/ GattSucceeds \/ GattFails \/ Owner

HogpSpec == HogpInit /\ [][HogpNext]_hogpVars

-----------------------------------------------------------------------------
(* on_notification: where the value notified on a handle goes. *)
Route(handle) ==
  LET boot == {i \in DOMAIN h.chars : /\ h.chars[i].value = handle
                                      /\ h.chars[i].uuid \in {"kbdin", "mousein"}}
      own == {k \in DOMAIN h.reports : h.reports[k].value = handle /\ h.reports[k].type = "input"}
  IN IF boot # {} THEN h.chars[CHOOSE i \in boot : TRUE].uuid
     ELSE IF own # {} THEN "report" ELSE "dropped"

HogpTypeOK ==
  /\ gatt \in {"down", "idle", "hogp", "other"}
  /\ enabled \subseteq 1..EndHandle
  /\ h.index \in 0..HogpMaxReports /\ Len(h.reports) <= HogpMaxReports /\ h.boot \in 0..2

(* Each call that is accepted is completed once, before another one is. *)
ServiceSpec == Service!Spec

(* hogp_client.h: "Completion occurs after all input Report characteristics *)
(* have their CCCDs enabled"; what they then notify reaches the decoder.    *)
AllInputsEnabled ==
  ended = "OK" /\ ~h.discovering =>
    \A i \in DOMAIN device : device[i].ref = "input" =>
      device[i].cccd /\ DeclOf[i] + 2 \in enabled /\ Route(DeclOf[i] + 1) = "report"

(* Boot mode is reported as set when the boot inputs that can notify do,   *)
(* and what they notify reaches the boot decoders, once a discovery got as *)
(* far as the descriptors: after one that ended before, the call succeeds  *)
(* and enables nothing.                                                    *)
BootInputsEnabled ==
  ended = "BOOT" /\ ~h.discovering /\ h.descs # {} =>
    \A i \in DOMAIN device :
      /\ device[i].uuid \in {"kbdin", "mousein"} /\ device[i].cccd
      /\ \A j \in DOMAIN device : j > i => device[j].uuid # device[i].uuid
      => DeclOf[i] + 2 \in enabled /\ Route(DeclOf[i] + 1) = device[i].uuid

(* Notifications are enabled for inputs only: no report is given the CCCD  *)
(* of another characteristic.                                              *)
OnlyInputsEnabled ==
  \A x \in enabled : \E i \in DOMAIN device :
    /\ device[i].cccd /\ x = DeclOf[i] + 2
    /\ device[i].ref = "input" \/ device[i].uuid \in {"kbdin", "mousein"}

(* The inputs of the device notify, and nothing else does, once the client *)
(* says that it is ready.                                                  *)
InputsEnabled == AllInputsEnabled /\ BootInputsEnabled /\ OnlyInputsEnabled
=============================================================================
