------------------------------ MODULE HidReport ------------------------------
(***************************************************************************)
(* The HID report descriptor parser (bt_hid_report_parse), one item a      *)
(* step, over any descriptor of up to MaxItems items.  Logical limits and  *)
(* the usage page are passed through and left out; a usage is abstracted   *)
(* to the number of main items before the item that declared it.           *)
(***************************************************************************)
EXTENDS Naturals, Sequences, SequencesExt, FiniteSets

CONSTANTS
  Sizes, Counts, ParserIds,  \* values of the Report Size, Report Count and Report ID items
  MaxBits,                   \* UINT16_MAX
  MaxSize,                   \* the longest value of a field, 32 bits
  MaxFields,                 \* BT_HID_MAX_FIELDS
  MaxUsages,                 \* BT_HID_MAX_LOCAL_USAGES
  ParserMaxReports,          \* BT_HID_MAX_REPORTS
  StackMax,                  \* HID_GLOBAL_STACK_MAX
  MaxItems                   \* bound: items of a descriptor

ASSUME ReportAssumption ==
  {MaxBits, MaxSize, MaxFields, MaxUsages, ParserMaxReports, StackMax, MaxItems} \subseteq Nat

VARIABLES
  globals, stack, locals,  \* struct hid_globals, their stack, struct hid_locals
  out,                     \* struct bt_hid_report_descriptor
  status,                  \* "parsing" or what the parser returned
  items, mains             \* the number of items and of main items so far

parserVars == <<globals, stack, locals, out, status, items, mains>>

NoLocals == [usages |-> <<>>, range |-> <<>>]

ParserInit ==
  /\ globals = [size |-> 0, count |-> 0, id |-> 0] /\ stack = <<>> /\ locals = NoLocals
  /\ out = [fields |-> <<>>, bits |-> <<>>, usesIds |-> FALSE]
  /\ status = "parsing" /\ items = 0 /\ mains = 0

(* out.bits maps each report id with an input item to its length. *)
Bits(id) == IF id \in DOMAIN out.bits THEN out.bits[id] ELSE 0

(* A conversion to uint16_t. *)
U16(n) == n % (MaxBits + 1)

Item == status = "parsing" /\ items < MaxItems /\ items' = items + 1
Return(st) == status' = st /\ UNCHANGED <<globals, stack, locals, out, mains>>

-----------------------------------------------------------------------------
(* The value of an item has up to 32 bits, of which sizes and counts keep  *)
(* 16.                                                                     *)
GlobalItem ==
  /\ Item
  /\ \/ \E n \in Sizes : globals' = [globals EXCEPT !.size = U16(n)] /\ UNCHANGED out
     \/ \E n \in Counts : globals' = [globals EXCEPT !.count = U16(n)] /\ UNCHANGED out
     \/ /\ \E n \in ParserIds : globals' = [globals EXCEPT !.id = n]
        /\ out' = [out EXCEPT !.usesIds = TRUE]
  /\ UNCHANGED <<stack, locals, status, mains>>

(* An item that is cut off, a report id of 0 or above 255, a collection of *)
(* the wrong size; and an item that changes nothing kept here, long items  *)
(* included.                                                               *)
Malformed == Item /\ Return("INVALID")
Ignored == Item /\ UNCHANGED <<globals, stack, locals, out, status, mains>>

Push ==
  /\ Item
  /\ IF Len(stack) = StackMax THEN Return("NO_RESOURCES")
     ELSE stack' = Append(stack, globals) /\ UNCHANGED <<globals, locals, out, status, mains>>

Pop ==
  /\ Item
  /\ IF stack = <<>> THEN Return("INVALID")
     ELSE /\ globals' = Last(stack) /\ stack' = Front(stack)
          /\ UNCHANGED <<locals, out, status, mains>>

(* A usage, or a range of n + 1 usages (Usage Minimum and Usage Maximum). *)
Usage ==
  /\ Item
  /\ IF Len(locals.usages) = MaxUsages THEN Return("NO_RESOURCES")
     ELSE /\ locals' = [locals EXCEPT !.usages = Append(@, mains)]
          /\ UNCHANGED <<globals, stack, out, status, mains>>

UsageRange(n) ==
  /\ Item /\ locals' = [locals EXCEPT !.range = [i \in 1..n + 1 |-> mains]]
  /\ UNCHANGED <<globals, stack, out, status, mains>>

-----------------------------------------------------------------------------
(* usage_for_index; i counts from 1. *)
UsageForIndex(i) ==
  IF i <= Len(locals.usages) THEN <<locals.usages[i]>>
  ELSE IF i <= Len(locals.range) THEN <<locals.range[i]>>
  ELSE IF locals.usages # <<>> THEN <<Last(locals.usages)>> ELSE <<>>

Fits(bits, added) == added <= MaxBits /\ bits <= MaxBits - added

(* Fault: the fields of an item all begin where the item does. *)
OffsetSame(id, i) == Bits(id)

Offset(id, i) == U16(Bits(id) + (i - 1) * globals.size)

(* add_input: one field for each value of a variable item, one for an array. *)
NewFields(variable) ==
  [i \in 1..(IF variable THEN globals.count ELSE 1) |->
     [id |-> globals.id, offset |-> Offset(globals.id, i), size |-> globals.size,
      count |-> IF variable THEN 1 ELSE globals.count, main |-> mains,
      usage |-> IF variable THEN UsageForIndex(i) ELSE locals.range]]

Added == globals.size * globals.count

CanAdd(variable) ==
  /\ globals.id \in DOMAIN out.bits \/ Cardinality(DOMAIN out.bits) < ParserMaxReports
  /\ globals.size <= MaxSize /\ globals.count # 0 /\ Fits(Bits(globals.id), Added)
  /\ Len(out.fields) + Len(NewFields(variable)) <= MaxFields

AddInput(variable) ==
  [out EXCEPT !.fields = @ \o NewFields(variable),
              !.bits = [id \in DOMAIN @ \cup {globals.id} |->
                          IF id = globals.id THEN U16(Bits(id) + Added) ELSE @[id]]]

Cleared == NoLocals

InputItem(variable) ==
  /\ Item /\ locals' = Cleared /\ mains' = mains + 1 /\ UNCHANGED <<globals, stack>>
  /\ IF CanAdd(variable) THEN out' = AddInput(variable) /\ UNCHANGED status
     ELSE status' = "NO_RESOURCES" /\ UNCHANGED out

(* A collection, or its end; the local items are cleared. *)
Collection ==
  /\ Item /\ locals' = Cleared /\ mains' = mains + 1 /\ UNCHANGED <<globals, stack, out, status>>

End ==
  /\ status = "parsing" /\ UNCHANGED items
  /\ Return(IF DOMAIN out.bits = {} THEN "INVALID" ELSE "OK")

ParserNext ==
  \/ GlobalItem \/ Malformed \/ Ignored \/ Push \/ Pop \/ Usage \/ Collection \/ End
  \/ \E n \in {0, 1} : UsageRange(n)
  \/ \E variable \in BOOLEAN : InputItem(variable)

ParserSpec == ParserInit /\ [][ParserNext]_parserVars

-----------------------------------------------------------------------------
ParserTypeOK ==
  /\ Len(stack) <= StackMax /\ Len(locals.usages) <= MaxUsages
  /\ Len(out.fields) <= MaxFields /\ Cardinality(DOMAIN out.bits) <= ParserMaxReports
  /\ \A id \in DOMAIN out.bits : out.bits[id] \in 0..MaxBits

FieldEnd(f) == f.offset + f.size * f.count

(* The fields of a report lie one behind the other from its first bit to   *)
(* its last, whatever other reports they are interleaved with and however  *)
(* the global state was pushed and popped in between; no offset or length  *)
(* wraps at 16 bits.  Sizes and counts are those the parser kept.          *)
FieldsTile ==
  \A id \in DOMAIN out.bits :
    LET fs == SelectSeq(out.fields, LAMBDA f : f.id = id)
    IN /\ fs # <<>> /\ fs[1].offset = 0 /\ FieldEnd(Last(fs)) = out.bits[id]
       /\ \A i \in 1..Len(fs) - 1 : fs[i + 1].offset = FieldEnd(fs[i])

(* A field has only usages declared since the main item before its own. *)
UsagesAreLocal ==
  \A i \in DOMAIN out.fields :
    \A j \in DOMAIN out.fields[i].usage : out.fields[i].usage[j] = out.fields[i].main

(* Every field is where its report has it and means what was declared for  *)
(* it.                                                                     *)
FieldsAreExact == FieldsTile /\ UsagesAreLocal
=============================================================================
