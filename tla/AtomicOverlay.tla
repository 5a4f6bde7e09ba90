---------------------------- MODULE AtomicOverlay ----------------------------
(***************************************************************************)
(* What the project overlay promises its users.  At every moment the       *)
(* overlay serves one complete lock, or it has been withdrawn for repair   *)
(* and still owes the lock it served.  It goes from one lock to the next   *)
(* in a single step, a repair gives back exactly the lock it withdrew, and *)
(* housekeeping never discards a wheel the lock needs.                     *)
(***************************************************************************)

CONSTANT Wheel

VARIABLES
  status,  \* "new", "serving", "withdrawn"
  wheels,  \* the lock served, or owed
  stock    \* wheels at hand; one that an outside tool removes still counts

vars == <<status, wheels, stock>>

Init == status = "new" /\ wheels = {} /\ stock = {}

\* The first, empty lock.
Open ==
  /\ status = "new"
  /\ status' = "serving"
  /\ UNCHANGED <<wheels, stock>>

\* A new lock, every wheel of which is at hand.
Install(lock) ==
  /\ status = "serving"
  /\ lock \subseteq stock
  /\ wheels' = lock
  /\ UNCHANGED <<status, stock>>

Withdraw ==
  /\ status = "serving"
  /\ status' = "withdrawn"
  /\ UNCHANGED <<wheels, stock>>

Replay ==
  /\ status = "withdrawn"
  /\ status' = "serving"
  /\ UNCHANGED <<wheels, stock>>

Store(w) ==
  /\ stock' = stock \union {w}
  /\ UNCHANGED <<status, wheels>>

Discard(w) ==
  /\ w \notin wheels
  /\ stock' = stock \ {w}
  /\ UNCHANGED <<status, wheels>>

Next ==
  \/ Open
  \/ \E lock \in SUBSET Wheel : Install(lock)
  \/ Withdraw
  \/ Replay
  \/ \E w \in Wheel : Store(w) \/ Discard(w)

Spec == Init /\ [][Next]_vars
==============================================================================
