--------------------------- MODULE MCAuthSession ---------------------------
(* Instances of AuthSession for TLC. *)
EXTENDS AuthSession, TLC

AnyApple  == [phone : BOOLEAN, bridge : BOOLEAN]
Symmetry == Permutations(Accounts)

-----------------------------------------------------------------------------
(* Not properties of the code.  What a document or a comment says of it and *)
(* a behaviour of the model refutes: README, "Divergences", has the instance*)
(* and the behaviour.                                                       *)

(* A code is verified wherever one has been sent. *)
RoutesCoverLive == Free /\ pending => live \subseteq sentOn \cup {current_route}

(* Who has signed out stays signed out until they sign in.                  *)
SignedOutStaysOut == signedOut => ~Connected /\ ~vault[account].session

(* "restoring" is said while a restore is under way or about to be tried.   *)
RestoringIsTrue == restoring => start # "off" \/ op.kind = "restore"
=============================================================================
