---------------------------- MODULE SessionStore ----------------------------
(***************************************************************************)
(* What the rest of the sidecar relies on in secrets.rs: one saved session *)
(* per account, replaced as a whole and forgotten as a whole.              *)
(***************************************************************************)
CONSTANTS
  Sessions,   \* serialised sessions
  None        \* what is read when nothing is saved

VARIABLE stored

Init == stored \in Sessions \cup {None}

(* A session takes the place of whatever was saved. *)
Save == stored' \in Sessions

Forget == stored' = None

Next == Save \/ Forget

Spec == Init /\ [][Next]_stored
=============================================================================
