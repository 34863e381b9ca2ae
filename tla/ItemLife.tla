------------------------------ MODULE ItemLife ------------------------------
(***************************************************************************)
(* What locking and unlocking promise the user, without any file: an       *)
(* item's data is open (as plain files), moving (a lock is at work on it)  *)
(* or sealed (in a vault only).  It is never anywhere else once it exists, *)
(* a lock that was begun ends, and only the end of a lock seals.           *)
(***************************************************************************)
CONSTANT Data

VARIABLE life

Init == life \in [Data -> {"absent", "open", "moving", "sealed"}]

Change(d, from, to) == life[d] = from /\ life' = [life EXCEPT ![d] = to]

Arrive(d)  == Change(d, "absent", "open")     \* the user brings the data
Begin(d)   == Change(d, "open", "moving")     \* a lock takes the item away
Abandon(d) == Change(d, "moving", "open")     \* ... and gives it back
Seal(d)    == Change(d, "moving", "sealed")   \* ... or leaves only the vault
Restore(d) == Change(d, "sealed", "open")     \* an unlock

Next == \E d \in Data : Arrive(d) \/ Begin(d) \/ Abandon(d) \/ Seal(d) \/ Restore(d)

Spec == Init /\ [][Next]_life

FairSpec == Spec /\ \A d \in Data : WF_life(Abandon(d) \/ Seal(d))
=============================================================================
