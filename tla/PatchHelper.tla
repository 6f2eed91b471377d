---------------------------- MODULE PatchHelper ----------------------------
(***************************************************************************)
(* What the two scopes rely on of Cluster API's patch helper: it keeps a   *)
(* copy of the object from the moment the scope is made, and each Patch    *)
(* sends, as merge patches, exactly the fields in which the object differs *)
(* from that copy.  Fields that do not differ keep whatever value the API  *)
(* server has by then.  The requests for metadata and spec and for status  *)
(* carry no resource version; the one for the conditions carries that of   *)
(* the informer's copy, and is refused when there is a newer version.      *)
(***************************************************************************)

Merge(before, after, stored) == IF after # before THEN after ELSE stored
=============================================================================
