------------------------------- MODULE HidInput -------------------------------
(***************************************************************************)
(* Keyboard reports become input events: a report is decoded               *)
(* (bt_hid_report_decode_input), compared with the one before              *)
(* (bt_hid_input_process) and handed to the input bridge, which keeps the  *)
(* qualifiers and writes to input.device (bt_aros_input_bridge_handle).    *)
(* A write to input.device may fail, and the table of keys may be full.    *)
(*                                                                         *)
(* There are two reports: 1 has modifiers (variable fields), a wheel (a    *)
(* relative field) and an array of keys, 2 has an array of other keys.     *)
(***************************************************************************)
EXTENDS Naturals, Sequences, SequencesExt, FiniteSets

CONSTANTS
  Modifiers,     \* the modifier keys of report 1
  Keys1, Keys2,  \* the keys of the two reports
  Chords,        \* bound: the sets of keys that report 1 shows
  MaxArray,      \* BT_HID_INPUT_MAX_ARRAY_USAGES
  Failing,       \* bound: which of the writes to input.device of a report may fail
  MaxWheel       \* bound: steps of the wheel in one report

ASSUME InputAssumption ==
  /\ Keys1 \cap Keys2 = {} /\ Chords \subseteq SUBSET Keys1
  /\ MaxArray \in Nat /\ Failing \subseteq Nat /\ MaxWheel \in Nat

VARIABLES
  arrays,     \* struct bt_hid_input: the array usages of the last reports
  values,     \* struct bt_hid_input: the values of the variables
  qualifier,  \* struct bt_aros_input_bridge
  down,       \* history: the keys input.device was told are down
  reported,   \* history: the keys of the last report of each id, if whole
  whole,      \* history: was the last report of each id taken whole, and all written?
  doubt,      \* history: the keys a failure has left in doubt
  cleared     \* history: the modifiers whose qualifier another's release has cleared

inputVars == <<arrays, values, qualifier, down, reported, whole, doubt, cleared>>

InputIds == {1, 2}
InputKeys == Keys1 \cup Keys2
IdOf(k) == IF k \in Keys1 THEN 1 ELSE 2

(* modifier_qualifier: the left and the right Control have one bit. *)
QualifierOf(k) == IF k \in {"LCTRL", "RCTRL"} THEN "CONTROL" ELSE k

InputInit ==
  /\ arrays = {} /\ values = [k \in Modifiers |-> FALSE] /\ qualifier = {}
  /\ down = {} /\ reported = [i \in InputIds |-> {}] /\ whole = [i \in InputIds |-> TRUE]
  /\ doubt = {} /\ cleared = {}

-----------------------------------------------------------------------------
(* op is applied to each member of s in turn, as FoldLeft does. *)
InTurn(op(_, _), c, s) ==
  LET after[i \in 0..Len(s)] == IF i = 0 THEN c ELSE op(after[i - 1], s[i]) IN after[Len(s)]

(* A report is handled over a context c: the state, the number of writes   *)
(* so far, those that fail, the keys that were told and those that were    *)
(* missed, and whether a callback has said stop.                           *)
Write(c, key, up) ==
  LET n == c.writes + 1
  IN IF n \in c.fails THEN [c EXCEPT !.writes = n, !.stop = TRUE, !.missed = @ \cup {key}]
     ELSE [c EXCEPT !.writes = n,
                    !.down = IF up THEN @ \ {key} ELSE @ \cup {key},
                    !.told = @ \cup {key}]

SetQualifier(c, key, up) ==
  [c EXCEPT !.qualifier = IF up THEN @ \ {QualifierOf(key)} ELSE @ \cup {QualifierOf(key)}]

(* handle_key. *)
HandleKey(c, key, up) ==
  IF c.stop THEN c ELSE Write(IF key \in Modifiers THEN SetQualifier(c, key, up) ELSE c, key, up)

(* handle_axis, for the wheel: a key is pressed and released n times. *)
Press(c, up) == IF c.stop THEN c ELSE Write(c, "WHEEL", up)
HandleWheel(c, n) == InTurn(Press, c, [i \in 1..2 * n |-> i % 2 = 0])

(* decoded_value, for a variable: a change is told, then remembered. *)
DecodedVariable(c, key, value) ==
  LET d == HandleKey(c, key, ~value)
  IN IF c.stop \/ c.values[key] = value THEN c
     ELSE IF d.stop THEN d ELSE [d EXCEPT !.values[key] = value]

ModifierSeq == SetToSeq(Modifiers)
KeySeq == SetToSeq(InputKeys)
Variables(id) == IF id = 1 THEN ModifierSeq ELSE <<>>
FieldCount(id) == IF id = 1 THEN Cardinality(Modifiers) + 2 ELSE 1

(* bt_hid_report_decode_input: fields are taken in order until one is not  *)
(* in the report or the callback says stop, which is not an error.         *)
DecodeVariables(c, r) ==
  LET mods == InTurn(LAMBDA d, k : DecodedVariable(d, k, k \in r.mods), c,
                       SubSeq(Variables(r.id), 1, Min({r.fields, Len(Variables(r.id))})))
  IN IF r.id = 1 /\ r.fields > Cardinality(Modifiers) THEN HandleWheel(mods, r.wheel) ELSE mods

TooShort(r) == r.fields < FieldCount(r.id)


OldOf(id) == {k \in arrays : IdOf(k) = id}

(* The second half of bt_hid_input_process: what is no longer there is     *)
(* released, what is new is pressed, and the keys are remembered unless an *)
(* event could not be written or there is no room.                         *)
Compare(c, id, current) ==
  LET released == SelectSeq(KeySeq, LAMBDA k : k \in OldOf(id) \ current)
      pressed == SelectSeq(KeySeq, LAMBDA k : k \in current \ arrays)
      d == InTurn(LAMBDA x, k : HandleKey(x, k, FALSE),
                    InTurn(LAMBDA x, k : HandleKey(x, k, TRUE), [c EXCEPT !.stop = FALSE],
                             released),
                    pressed)
      kept == {k \in arrays : IdOf(k) # id} \cup current
  IN IF d.stop THEN d
     ELSE IF Cardinality(kept) > MaxArray THEN [d EXCEPT !.stop = TRUE]
     ELSE [d EXCEPT !.arrays = kept]

(* What is done for a report, with the writes that fail; a report that is  *)
(* too short or has too many keys is refused after its variables.          *)
Handled(r, fails) ==
  LET c == DecodeVariables([arrays |-> arrays, values |-> values, qualifier |-> qualifier,
                            down |-> down, told |-> {}, writes |-> 0, fails |-> fails,
                            stop |-> FALSE, missed |-> {}, refused |-> FALSE], r)
      current == IF c.stop THEN {} ELSE r.keys
  IN IF (TooShort(r) /\ ~c.stop) \/ Cardinality(current) > MaxArray
     THEN [c EXCEPT !.refused = TRUE]
     ELSE Compare(c, r.id, current)

(* What was told of the keys of a comparison that is given up is not       *)
(* remembered, and a modifier or the wheel may have been left half-way.    *)
(* What is told later, to the end, is right again.                         *)
DoubtAfter(d) ==
  (doubt \ d.told) \cup (d.missed \cap Modifiers) \cup (d.down \cap {"WHEEL"})
    \cup (IF d.stop /\ ~d.refused THEN d.told \cap InputKeys ELSE {})

(* A modifier is released while another with its qualifier is down; what   *)
(* is told of either decides again.                                        *)
Sharing(k) == {j \in Modifiers : QualifierOf(j) = QualifierOf(k)}
ClearedAfter(d) ==
  {k \in cleared : Sharing(k) \cap d.told = {}}
    \cup {k \in d.down \cap Modifiers : (Sharing(k) \cap d.told) \ d.down # {}}

(* bt_hid_input_process. *)
Process(r, fails) ==
  \E d \in {Handled(r, fails)} :
    /\ arrays' = d.arrays /\ values' = d.values /\ qualifier' = d.qualifier
    /\ down' = d.down
    /\ doubt' = DoubtAfter(d) /\ cleared' = ClearedAfter(d)
    /\ whole' = [whole EXCEPT ![r.id] = ~d.refused /\ ~d.stop /\ d.missed = {}]
    /\ reported' = [reported EXCEPT ![r.id] = IF whole'[r.id] THEN r.keys ELSE {}]

(* fields: how many of its fields are in the report; the others are not    *)
(* looked at.                                                              *)
Reports ==
  {r \in [id : {1}, mods : SUBSET Modifiers, wheel : 0..MaxWheel, keys : Chords,
          fields : 0..FieldCount(1)]
         \cup [id : {2}, mods : {{}}, wheel : {0}, keys : SUBSET Keys2, fields : 0..FieldCount(2)] :
     /\ TooShort(r) => r.keys = {}
     /\ r.fields <= Cardinality(Modifiers) => r.wheel = 0
     /\ \A i \in DOMAIN ModifierSeq : ModifierSeq[i] \in r.mods => i <= r.fields}

InputNext == \E r \in Reports, fails \in SUBSET Failing : Process(r, fails)

InputSpec == InputInit /\ [][InputNext]_inputVars

-----------------------------------------------------------------------------
InputTypeOK ==
  /\ arrays \subseteq InputKeys /\ Cardinality(arrays) <= MaxArray
  /\ values \in [Modifiers -> BOOLEAN]
  /\ qualifier \subseteq {QualifierOf(k) : k \in Modifiers}

Held == {k \in Modifiers : values[k]}

(* hid_input.h: "Array fields are diffed so a keyboard report produces     *)
(* both key-down and key-up events": after a report that was taken whole   *)
(* and written without failure, the keys of its id that are down for AROS  *)
(* are those of the report, whatever happened to the reports before; but   *)
(* for the keys a failure has left in doubt.  Such a key was told of by a  *)
(* comparison that a failed write or a full table cut short, which         *)
(* bt_hid_input_process then forgets: it may stay down, or up, until a     *)
(* later comparison tells of it and is finished.                           *)
DownIsReported ==
  \A i \in InputIds :
    whole[i] =>
      {k \in down \ doubt : k \notin Modifiers /\ (k \in InputKeys => IdOf(k) = i)}
        = reported[i] \ doubt

(* The modifiers that are down for AROS are those the input state holds,   *)
(* whatever failed; a qualifier is set when a key of it is held, and only  *)
(* then, unless the last write about one of its keys failed (the bridge    *)
(* changes it first).  A held key may also be without it because the other *)
(* Control key was released since, which clears it for both.               *)
QualifiersAreCurrent ==
  /\ Held = down \cap Modifiers
  /\ \A k \in Modifiers :
       Sharing(k) \cap doubt = {} =>
         /\ QualifierOf(k) \in qualifier => Sharing(k) \cap Held # {}
         /\ k \in Held \ cleared => QualifierOf(k) \in qualifier

==============================================================================
