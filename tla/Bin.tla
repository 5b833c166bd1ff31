-------------------------------- MODULE Bin --------------------------------
(***************************************************************************)
(* What the trash bin promises of each of its entries: it is kept, then    *)
(* claimed by one operation at a time, and it is used up once, either to   *)
(* restore the account or to purge it.  A restore that fails puts it back. *)
(* The promise ends with the process: after a crash the bin may have       *)
(* forgotten an entry, or remember one that was used up.                   *)
(***************************************************************************)
CONSTANT Ids
VARIABLE entry

Init == entry = [id \in Ids |-> "none"]

Move(id, from, to) == entry[id] = from /\ entry' = [entry EXCEPT ![id] = to]

Crash == entry' = [id \in Ids |-> "unknown"]

Next ==
  \/ Crash
  \/ \E id \in Ids :
       \/ Move(id, "none", "held")
       \/ Move(id, "held", "taken")
       \/ Move(id, "taken", "held")
       \/ Move(id, "taken", "restored")
       \/ Move(id, "taken", "purged")

Spec == Init /\ [][Next]_entry
=============================================================================
