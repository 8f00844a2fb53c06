------------------------------ MODULE TimerList ------------------------------
(***************************************************************************)
(* The intrusive timer list (timer.c), pointers and all: a singly linked   *)
(* list sorted by expiry, whose nodes live in the objects they time.       *)
(***************************************************************************)
EXTENDS Naturals, Sequences, FiniteSets

CONSTANTS
  Timers,  \* the struct bt_timer objects
  Nil,     \* NULL
  MaxTime  \* bound on the times used

ASSUME TimerAssumption == Nil \notin Timers /\ MaxTime \in Nat

VARIABLES
  head,          \* list->head
  next,          \* timer -> next
  timerPending,  \* timer -> pending
  expiry,        \* timer -> expiry_us
  armed,         \* history: the armed timers in the order in which they were armed
  popped         \* history: the timer that the last call took off, or Nil

timerVars == <<head, next, timerPending, expiry, armed, popped>>

TimerInit ==
  /\ head = Nil /\ next = [t \in Timers |-> Nil]
  /\ timerPending = [t \in Timers |-> FALSE] /\ expiry = [t \in Timers |-> 0]
  /\ armed = <<>> /\ popped = Nil

(* The list, followed from the head through nx; a list with a cycle never  *)
(* ends, so the walk is cut.                                               *)
Walk(h, nx) ==
  LET f[n \in Nat] == IF n = 0 THEN h
                      ELSE IF f[n - 1] = Nil THEN Nil ELSE nx[f[n - 1]]
      size == CHOOSE n \in 0..Cardinality(Timers) :
                                 /\ \A k \in 0..(n - 1) : f[k] # Nil
                                 /\ f[n] = Nil \/ \E k \in 0..(n - 1) : f[k] = f[n]
  IN [i \in 1..size |-> f[i - 1]]

(* Unlinks t, or leaves the list alone when t is not on it. *)
Unlinked(t) ==
  IF ~timerPending[t] THEN [head |-> head, next |-> next]
  ELSE [head |-> IF head = t THEN next[t] ELSE head,
        next |-> [u \in Timers |-> IF u = t THEN Nil
                                   ELSE IF next[u] = t THEN next[t] ELSE next[u]]]

(* Fault: a timer goes in front of those that expire with it. *)
GoesBeforeTies(u, e) == expiry[u] >= e

(* The insertion stops at the first timer that expires later. *)
GoesBefore(u, e) == expiry[u] > e

(* bt_timer_list_add: cancel first, then link in. *)
Add(t, e) ==
  LET c == Unlinked(t)
      list == Walk(c.head, c.next)
      later == {i \in DOMAIN list : GoesBefore(list[i], e)}
      at == IF later = {} THEN Len(list) + 1 ELSE CHOOSE i \in later : \A j \in later : i <= j
      after == IF at > Len(list) THEN Nil ELSE list[at]
  IN /\ head' = IF at = 1 THEN t ELSE c.head
     /\ next' = [u \in Timers |-> IF u = t THEN after
                                  ELSE IF at > 1 /\ u = list[at - 1] THEN t ELSE c.next[u]]
     /\ timerPending' = [timerPending EXCEPT ![t] = TRUE]
     /\ expiry' = [expiry EXCEPT ![t] = e]
     /\ armed' = Append(SelectSeq(armed, LAMBDA u : u # t), t)
     /\ popped' = Nil

(* bt_timer_list_cancel. *)
Cancel(t) ==
  /\ head' = Unlinked(t).head /\ next' = Unlinked(t).next
  /\ timerPending' = [timerPending EXCEPT ![t] = FALSE]
  /\ armed' = SelectSeq(armed, LAMBDA u : u # t)
  /\ popped' = Nil /\ UNCHANGED expiry

Due(now) == head # Nil /\ expiry[head] <= now

(* bt_timer_list_pop_expired; the popped timer is still where it was. *)
Pop(now) ==
  /\ popped' = IF Due(now) THEN head ELSE Nil
  /\ IF Due(now)
     THEN /\ head' = next[head] /\ next' = [next EXCEPT ![head] = Nil]
          /\ timerPending' = [timerPending EXCEPT ![head] = FALSE]
          /\ armed' = SelectSeq(armed, LAMBDA u : u # head)
     ELSE UNCHANGED <<head, next, timerPending, armed>>
  /\ UNCHANGED expiry

Times == 0..MaxTime

PopSome == \E now \in Times : Pop(now)

TimerNext == PopSome \/ \E t \in Timers : Cancel(t) \/ \E e \in Times : Add(t, e)

TimerSpec == TimerInit /\ [][TimerNext]_timerVars

-----------------------------------------------------------------------------
(* Position of a timer in the order it was armed in. *)
ArmedAt(t) == CHOOSE i \in DOMAIN armed : armed[i] = t

(* The linked list holds every pending timer, once, and no other, sorted   *)
(* by expiry and, among equal ones, by the order in which they were armed; *)
(* it has no cycle, and a timer off the list points nowhere.               *)
ListIsSorted ==
  LET list == Walk(head, next) IN
    /\ {list[i] : i \in DOMAIN list} = {t \in Timers : timerPending[t]}
    /\ Len(list) = Len(armed)
    /\ \A i, j \in DOMAIN list : i < j =>
         \/ expiry[list[i]] < expiry[list[j]]
         \/ expiry[list[i]] = expiry[list[j]] /\ ArmedAt(list[i]) < ArmedAt(list[j])
    /\ \A t \in Timers : ~timerPending[t] => next[t] = Nil

(* A pop at time now returns a timer exactly when one is due, and then one *)
(* that expires first; that it leaves the others armed is the list's       *)
(* invariant.                                                              *)
PopsTheEarliest ==
  \A now \in Times : Pop(now) =>
    LET due == {t \in Timers : timerPending[t] /\ expiry[t] <= now}
    IN IF due = {} THEN popped' = Nil
       ELSE popped' \in due /\ \A t \in due : expiry[popped'] <= expiry[t]

(* Timers expire in the order of their times, and in the order of arming   *)
(* among equal ones, after any sequence of adds, cancels and pops.         *)
TimersInOrder == [][ListIsSorted' /\ PopsTheEarliest]_timerVars
=============================================================================
