------------------------------ MODULE AccountSlot ------------------------------
(***************************************************************************)
(* What the order path promises of the single trading account, with no     *)
(* databases, versions, locks, snapshots or threads: one slot that one     *)
(* order at a time holds, one request per order, sent only by the holder,  *)
(* and a slot that is given back only when the broker can no longer        *)
(* execute the order and has not filled it.                                *)
(***************************************************************************)
CONSTANTS Orders, Free

VARIABLES holder,  \* the order that reserves the account, or Free
          sent,    \* orders whose request was sent
          exposed, \* orders the broker may still execute or has filled
          closed   \* orders that will never hold the slot again

slotVars == <<holder, sent, exposed, closed>>

SlotInit == holder = Free /\ sent = {} /\ exposed = {} /\ closed = {}

\* A risk approval takes the free slot.
Reserve(o) ==
  /\ holder = Free /\ o \notin closed
  /\ holder' = o
  /\ UNCHANGED <<sent, exposed, closed>>

\* A risk rejection closes an order that does not hold the slot.
Discard(o) ==
  /\ holder # o /\ o \notin closed
  /\ closed' = closed \cup {o}
  /\ UNCHANGED <<holder, sent, exposed>>

\* The one request of an order.
Submit(o) ==
  /\ holder = o /\ o \notin sent
  /\ sent' = sent \cup {o}
  /\ exposed' = exposed \cup {o}
  /\ UNCHANGED <<holder, closed>>

\* The broker cancels, rejects, refuses or never receives an order.
Expire(o) ==
  /\ o \in exposed
  /\ exposed' = exposed \ {o}
  /\ UNCHANGED <<holder, sent, closed>>

\* The slot comes back only from an order without exposure, which is then closed.
Release(o) ==
  /\ holder = o /\ o \notin exposed
  /\ holder' = Free
  /\ closed' = closed \cup {o}
  /\ UNCHANGED <<sent, exposed>>

SlotNext == \E o \in Orders : Reserve(o) \/ Discard(o) \/ Submit(o) \/ Expire(o) \/ Release(o)

SlotSpec == SlotInit /\ [][SlotNext]_slotVars

=============================================================================
