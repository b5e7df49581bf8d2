--------------------------- MODULE MCSidecarSync ---------------------------
(* Instances of SidecarSync for TLC. *)
EXTENDS SidecarSync, TLC

(* Records that do not exist at the start are alike. *)
Symmetry == Permutations(Records \ {First})

-----------------------------------------------------------------------------
(* Not properties of the code.  What a document or a comment says of it and *)
(* a behaviour of the model refutes: README, "Divergences", has the instance*)
(* and the behaviour.                                                       *)

(* cache.rs: "edits queued during the request stay dirty" after it has been *)
(* acknowledged, so that no download replaces them before they are uploaded.*)
QueuedStaysDirty == \A id \in Ids : Pending(outbox, id) /\ rows[id].here => rows[id].dirty

(* icloud.rs: a conflict says that the reminder "changed on another device".*)
ConflictIsGenuine == conflicts # <<>> => others + faults + crashes > 0

(* The last text the user gave a reminder is on its way, in iCloud, or kept *)
(* as the local version of a conflict.                                      *)
NoLostEdit ==
  \A id \in Ids : wish[id] # NoText =>
    \/ wish[id] \in uploaded \/ Entries(wish[id])
    \/ \E c \in Calls : call[c].stage # "none" /\ call[c].patch.title = wish[id]
    \/ \E i \in 1..Len(conflicts) : conflicts[i].local.title = wish[id]
    \/ rows[id].title = wish[id] /\ rows[id].dirty
=============================================================================
