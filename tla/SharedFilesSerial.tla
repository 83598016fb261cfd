------------------------- MODULE SharedFilesSerial -------------------------
(***************************************************************************)
(* SharedFiles with a memory of whether requests came one at a time, for   *)
(* what the handlers promise only then: file_update, file_publish and      *)
(* file_version_delete write the bucket after the commit and in no order   *)
(* with other requests.                                                    *)
(***************************************************************************)
EXTENDS SharedFiles

VARIABLE crossed  (* history: two requests were under way at once, one was *)
                  (* cut off or lost its mirror, or the file was archived  *)

serialVars == <<vars, crossed>>

UnderWay == {r \in Requests : req[r].pc \notin Ended}

SerialInit == Init /\ crossed = FALSE

SerialNext ==
  /\ Next
  /\ crossed' = \/ crossed
                \/ Cardinality(UnderWay') > 1
                \/ \E r \in Requests : Abort(r) \/ BucketFails(r) \/ ArchiveRead(r)

SerialSpec == SerialInit /\ [][SerialNext]_serialVars

(* As long as requests come one at a time, current_version is the newest   *)
(* version, and the mirror shows its content if the file is published and  *)
(* nothing if it is not: also after deletions, of the current version too, *)
(* and republications.                                                     *)
SerialMirrorFollows == crossed \/ (CurrentIsNewest /\ MirrorFollows)
=============================================================================
