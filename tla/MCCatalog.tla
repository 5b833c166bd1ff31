------------------------------ MODULE MCCatalog ------------------------------
(***************************************************************************)
(* Two bodies, one of a strict class and one of none, and the splits and    *)
(* merges that the page offers.                                            *)
(***************************************************************************)
EXTENDS ErrorCatalog, TLC

MCKeys == {"unmatched", "permission_403", "reason:fp", "named"}
MCClass == "denied" :> "permission_403" @@ "fp" :> "unmatched"
MCShapeOfKey == [k \in MCKeys |-> IF k = "reason:fp" THEN "fp" ELSE "none"]

\* The page splits from unmatched only, each shape to one key.
PageSplits == {<<"unmatched", "named", "denied">>, <<"unmatched", "reason:fp", "fp">>}
PageMerges == {<<k, "unmatched">> : k \in MCKeys \ {"unmatched"}}
                \cup {<<"reason:fp", "named">>, <<"reason:fp", "permission_403">>,
                      <<"permission_403", "named">>}

\* A page that is behind leaves routes out, or sends some that are gone.
PageSaves == (MCKeys \X {{}}) \cup {<<"named", {"denied", "fp"}>>}
=============================================================================
