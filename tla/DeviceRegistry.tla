---------------------------- MODULE DeviceRegistry ----------------------------
(***************************************************************************)
(* The registry of discovered devices (device_registry.c) and the          *)
(* discovery events that fill it (bt_controller_on_event).                 *)
(*                                                                         *)
(* A class of device or an appearance is abstracted to what is made of it, *)
(* an address to whether it is a stable identity; signal strength and the  *)
(* number of sightings are left out.                                       *)
(***************************************************************************)
EXTENDS Naturals, Sequences, SequencesExt, FiniteSets

CONSTANTS
  Stable,              \* public and static random addresses
  Rotating,            \* private addresses
  MaxDevices,          \* BT_DEVICE_REGISTRY_MAX
  RegistryMaxReports,  \* bound: reports in one event
  Names                \* the names devices give; "" is an empty one

ASSUME RegistryAssumption == MaxDevices \in Nat \ {0} /\ RegistryMaxReports \in Nat \ {0}

VARIABLES
  devices,  \* struct bt_device_registry
  seen      \* history: what was noted of each address, "missed" for want of room

registryVars == <<devices, seen>>

Addresses == Stable \cup Rotating

(* Classes of device: a peripheral that is no keyboard or mouse has a label *)
(* but is not a HID; a class of another major has neither.                  *)
Classes == {"phone", "joystick", "keyboard"}
CodIsHid(cod) == cod = "keyboard"
LabelFromCod(cod) == IF cod = "phone" THEN "none" ELSE "<" \o cod \o ">"

(* Appearances: of category HID with a label, and of another category. *)
Appearances == {"mouse", "watch"}
AppearanceIsHid(app) == app = "mouse"
LabelFromAppearance(app) == IF app = "mouse" THEN "<mouse>" ELSE "none"

-----------------------------------------------------------------------------
(* bt_le_adv_parse: what a list of fields says. *)
Fields ==
  [type : {"short", "complete"}, value : Names] \cup [type : {"appearance"}, value : Appearances]
    \cup [type : {"uuids"}, value : {"hid", "other"}] \cup [type : {"end"}, value : {""}]

NoInfo == [hid |-> FALSE, appearance |-> "none", named |-> FALSE, name |-> "", complete |-> FALSE,
           ended |-> FALSE]

TakesName(info, field) == ~info.named \/ (field.type = "complete" /\ ~info.complete)

(* One field; a field of length 0 or one that is cut off ends the list. *)
AdvField(info, field) ==
  CASE info.ended -> info
    [] field.type = "end" -> [info EXCEPT !.ended = TRUE]
    [] field.type = "uuids" -> [info EXCEPT !.hid = @ \/ field.value = "hid"]
    [] field.type = "appearance" -> [info EXCEPT !.appearance = field.value,
                                                 !.hid = @ \/ AppearanceIsHid(field.value)]
    [] OTHER -> IF ~TakesName(info, field) THEN info
                ELSE [info EXCEPT !.named = TRUE, !.name = field.value,
                                  !.complete = field.type = "complete"]

AdvParse(data) == FoldLeft(AdvField, NoInfo, data)

-----------------------------------------------------------------------------
NewDevice(addr) ==
  [addr |-> addr, flags |-> {}, appearance |-> "none", name |-> "none", state |-> 0]

RegistryFind(devs, addr) == SelectInSeq(devs, LAMBDA d : d.addr = addr)

(* Fault: the last slot is not used. *)
HasRoomLess(devs) == Len(devs) + 1 < MaxDevices

HasRoom(devs) == Len(devs) < MaxDevices

(* find_or_create. *)
FindOrCreate(devs, addr) ==
  IF RegistryFind(devs, addr) # 0 \/ ~HasRoom(devs) THEN devs ELSE Append(devs, NewDevice(addr))

(* Fault: a label replaces a name. *)
OutranksAny(state, old) == TRUE

Outranks(state, old) == state > old

(* bt_device_set_name; "none" is NULL. *)
SetName(dev, name, state) ==
  IF name = "none" \/ ~Outranks(state, dev.state) THEN dev
  ELSE [dev EXCEPT !.name = name, !.state = state]

Flag(dev, flag, when) == IF when THEN [dev EXCEPT !.flags = @ \cup {flag}] ELSE dev

(* bt_device_registry_note_classic and bt_device_registry_note_le. *)
NoteClassic(dev, cod) ==
  SetName(Flag(Flag(dev, "CLASSIC", TRUE), "HID", CodIsHid(cod)), LabelFromCod(cod), 1)
NoteLe(dev) == Flag(dev, "LE", TRUE)

NoteName(dev, info) == IF info.named THEN SetName(dev, info.name, 2) ELSE dev

(* s is the registry and the history; Update(d) what the event does to d. *)
Note(s, addr, facts, Update(_)) ==
  LET devs == FindOrCreate(s.devices, addr)
      i == RegistryFind(devs, addr)
  IN [devices |-> IF i = 0 THEN devs ELSE [devs EXCEPT ![i] = Update(@)],
      seen |-> [s.seen EXCEPT ![addr] = @ \cup (IF i = 0 THEN {"missed"} ELSE facts)]]

Hid(is) == IF is THEN {"HID"} ELSE {}

(* The Inquiry Result branch, for one response. *)
InquiryEntry(s, e) ==
  Note(s, e.addr, {"CLASSIC"} \cup Hid(CodIsHid(e.cod)), LAMBDA d : NoteClassic(d, e.cod))

(* An anonymous rotating address that is not known is not recorded. *)
IsNoise(devs, addr, info) ==
  /\ RegistryFind(devs, addr) = 0 /\ addr \notin Stable
  /\ ~info.named /\ ~info.hid /\ info.appearance = "none"

(* The LE Meta branch, for one advertising report. *)
AdvReport(s, r) ==
  LET info == AdvParse(r.data)
      Labelled(d) == IF info.appearance = "none" THEN d
                     ELSE SetName([d EXCEPT !.appearance = info.appearance],
                                  LabelFromAppearance(info.appearance), 1)
      Update(d) == NoteName(Labelled(Flag(NoteLe(d), "HID", info.hid)), info)
  IN IF IsNoise(s.devices, r.addr, info) THEN s
     ELSE Note(s, r.addr, {"LE"} \cup Hid(info.hid), Update)

-----------------------------------------------------------------------------
RegistryInit == devices = <<>> /\ seen = [a \in Addresses |-> {}]

Now == [devices |-> devices, seen |-> seen]
Becomes(t) == \E s \in {t} : devices' = s.devices /\ seen' = s.seen

(* bt_controller_on_event: every response or report of the event in turn. *)
InquiryResult(entries) == Becomes(FoldLeft(InquiryEntry, Now, entries))

(* An event of 15 bytes passes the length check, although the EIR begins   *)
(* at the 17th: what is parsed is then what lies behind the event, and eir *)
(* is that.                                                                *)
ExtendedInquiryResult(addr, cod, eir) ==
  LET info == AdvParse(eir)
      Update(d) == NoteName(Flag(NoteClassic(d, cod), "HID", info.hid), info)
  IN Becomes(Note(Now, addr, {"CLASSIC"} \cup Hid(CodIsHid(cod) \/ info.hid), Update))

LeAdvertisingReport(reports) == Becomes(FoldLeft(AdvReport, Now, reports))

Data == {<<f>> : f \in Fields} \cup {<<>>}

(* The responses or reports of one event are about any addresses, one of   *)
(* them twice included; they carry the same data.                          *)
RegistryNext ==
  \/ \E n \in 1..RegistryMaxReports : \E as \in [1..n -> Addresses] :
       \/ \E c \in Classes : InquiryResult([i \in 1..n |-> [addr |-> as[i], cod |-> c]])
       \/ \E d \in Data : LeAdvertisingReport([i \in 1..n |-> [addr |-> as[i], data |-> d]])
  \/ \E a \in Addresses, c \in Classes, d \in Data : ExtendedInquiryResult(a, c, d)

RegistrySpec == RegistryInit /\ [][RegistryNext]_registryVars

-----------------------------------------------------------------------------
RegistryTypeOK ==
  /\ Len(devices) <= MaxDevices
  /\ \A i \in DOMAIN devices :
       /\ devices[i].addr \in Addresses /\ devices[i].flags \subseteq {"CLASSIC", "LE", "HID"}
       /\ devices[i].state \in 0..2 /\ (devices[i].state = 0 <=> devices[i].name = "none")

(* Every device is recorded once per address, and carries exactly the      *)
(* flags of what was ever seen of it, over any mixture of events.          *)
RecordedOnce ==
  \A i, j \in DOMAIN devices :
    /\ devices[i].addr = devices[j].addr => i = j
    /\ devices[i].flags = seen[devices[i].addr]

(* A device that was seen is missing only when the registry is full. *)
MissingOnlyWhenFull ==
  \A a \in Addresses :
    seen[a] # {} /\ RegistryFind(devices, a) = 0 => Len(devices) = MaxDevices

(* A rotating address is in the registry only if it said who it is. *)
StrangersKeptOut ==
  \A i \in DOMAIN devices :
    devices[i].addr \in Rotating =>
      "CLASSIC" \in devices[i].flags \/ "HID" \in devices[i].flags
        \/ devices[i].appearance # "none" \/ devices[i].state = 2

(* What is known of a device is never lost: it keeps its place and its     *)
(* flags, and a name it gave is not replaced by a label or by another.     *)
NothingForgotten ==
  [][\A i \in DOMAIN devices :
       /\ i \in DOMAIN devices' /\ devices'[i].addr = devices[i].addr
       /\ devices[i].flags \subseteq devices'[i].flags
       /\ devices[i].state <= devices'[i].state
       /\ devices[i].state = 2 => devices'[i].name = devices[i].name]_registryVars

(* The registry holds exactly the devices worth listing that were seen, as *)
(* they were seen, as far as there is room.                                *)
RegistryIsExact == RecordedOnce /\ MissingOnlyWhenFull /\ StrangersKeptOut
==============================================================================
