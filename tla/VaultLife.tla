----------------------------- MODULE VaultLife ------------------------------
(***************************************************************************)
(* VaultJournal implements ItemLife.  The refinement mapping looks for     *)
(* whole copies of the data: under an item name it is open; else under the *)
(* name a lock gave it, it is moving; else in a vault, it is sealed.       *)
(***************************************************************************)
EXTENDS VaultJournal

WholeAt(d, role) == \E p \in Paths : p[1] = role /\ fs[p].data = d /\ fs[p].whole

LifeOf(d) ==
    IF WholeAt(d, "item") THEN "open"
    ELSE IF WholeAt(d, "locking") THEN "moving"
    ELSE IF WholeAt(d, "vault") THEN "sealed"
    ELSE "absent"

Life == INSTANCE ItemLife WITH life <- [d \in Data |-> LifeOf(d)]

(* Locking and unlocking, with all their steps, errors, crashes and         *)
(* recoveries, are steps of ItemLife: no data disappears, and a lock always *)
(* comes to its end.                                                        *)
LifeSpec == Life!FairSpec

(* Of these its steps alone: whatever fails and whenever it stops, data is  *)
(* open, moving or sealed once it exists, and only the end of a lock seals. *)
LifeSteps == Life!Spec
=============================================================================
