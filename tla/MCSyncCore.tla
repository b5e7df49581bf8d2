----------------------------- MODULE MCSyncCore -----------------------------
(* SyncCore for TLC.  Records that do not exist at the start are alike. *)
EXTENDS SyncCore, TLC

(* No create, first attempt or retry, goes short of an id. *)
ASSUME EnoughRecords == Cardinality(Records) > Cardinality(LocalIds) + MaxFaults

Symmetry == Permutations(Records \ {First})

-----------------------------------------------------------------------------
(* Not a property of the code unless the change stream reports lists:       *)
(* README, "Divergences".                                                   *)

(* docs/protocol-findings.md: "every delta pass also refreshes lists": once *)
(* nobody changes them, the cache shows iCloud's.                           *)
ListsFollow == <>[](lists = cloudLists)
=============================================================================
