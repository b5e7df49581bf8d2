-------------------------- MODULE MCSidecarClient --------------------------
(***************************************************************************)
(* One instance for TLC of four parts of the Rust backend under its iCloud *)
(* client that share no state: the session with fairness and without       *)
(* crashes, the store it is kept in, the paging of the zone, and the SRP   *)
(* exchange.  A behaviour exercises one part, chosen at the start; the     *)
(* others rest in an initial state of theirs.                              *)
(***************************************************************************)
EXTENDS AuthSession, TLC

CONSTANTS
  s1, s2, s3, s4,                           \* the sessions kept
  Sessions, Size, MaxChunks, None, Broken,  \* SecretStore
  MaxName, MaxPages, MaxWrites,             \* ZonePaging
  N, g, Hashes, Secrets                     \* Srp

VARIABLES
  part,                                                            \* the part exercised
  manifest, chunk, pc, saving, slot, index, previous, disturbed,   \* SecretStore
  tag, clock, reading, cursor, marker, cont, seen, got, pages,     \* ZonePaging
  stage, private, x, verifier, b, server_public, k, u, shared, server_shared  \* Srp

(* One session of each length; with MaxChunks = 3 the last does not fit. *)
Lengths == (s1 :> 1) @@ (s2 :> 2) @@ (s3 :> 3) @@ (s4 :> 4)

OneApple == {[phone |-> TRUE, bridge |-> FALSE]}

Creds    == INSTANCE SecretStore
Paging   == INSTANCE ZonePaging WITH pc <- reading
Exchange == INSTANCE Srp

ASSUME PartsAssumption == Creds!Bounds /\ Paging!Bounds /\ Exchange!Numbers

credsVars    == <<manifest, chunk, pc, saving, slot, index, previous, disturbed>>
pagingVars   == <<tag, clock, reading, cursor, marker, cont, seen, got, pages>>
exchangeVars == <<stage, private, x, verifier, b, server_public, k, u, shared, server_shared>>
allVars      == <<part, vars, credsVars, pagingVars, exchangeVars>>

ClientInit ==
  /\ part \in {"auth", "secrets", "paging", "srp"}
  /\ lastAccount \in IF part = "auth" THEN Accounts ELSE {NoAccount}   \* or nothing to restore
  /\ Init
  /\ Creds!Init
  /\ part # "secrets" => manifest = Creds!NoManifest
  /\ \/ part = "paging"
     \/ part # "paging" /\ tag = [r \in 1..MaxName |-> 0] /\ reading = "token"
  /\ Paging!Init
  /\ \/ part = "srp"
     \/ part # "srp" /\ private = 2 /\ b = 2 /\ x = 0 /\ verifier = 1 /\ k = 0 /\ u = 0
  /\ Exchange!Init

AuthPart    == part = "auth" /\ Running
               /\ UNCHANGED <<part, credsVars, pagingVars, exchangeVars>>
SecretsPart == part = "secrets" /\ Creds!Next
               /\ UNCHANGED <<part, vars, pagingVars, exchangeVars>>
PagingPart  == part = "paging" /\ Paging!Next
               /\ UNCHANGED <<part, vars, credsVars, exchangeVars>>
SrpPart     == part = "srp" /\ Exchange!Next
               /\ UNCHANGED <<part, vars, credsVars, pagingVars>>

ClientNext == AuthPart \/ SecretsPart \/ PagingPart \/ SrpPart

(* The fairness of AuthSession, for its part. *)
ClientSpec ==
  /\ ClientInit /\ [][ClientNext]_allVars
  /\ WF_vars(part = "auth" /\ SignInStep)
  /\ WF_vars(part = "auth" /\ CodeStep)
  /\ SF_vars(part = "auth" /\ StartRestore)
  /\ SF_vars(part = "auth" /\ StartCheck)

-----------------------------------------------------------------------------
(* Properties of the parts, stated there. *)

(* A reader finds a session saved whole, or none: secrets.rs.               *)
Implements == Creds!Implements

(* A read with its token misses nothing, and its loops end: cloudkit.rs.    *)
NothingMissed == Paging!NothingMissed
PagesBounded  == Paging!PagesBounded

(* The right password is let in: auth.rs, make_proof. *)
RightPasswordAgrees == Exchange!RightPasswordAgrees

(* The types of all four. *)
TypesOK == TypeOK /\ Creds!TypeOK /\ Paging!TypeOK /\ Exchange!TypeOK

-----------------------------------------------------------------------------
(* Not properties of the code.  What a document or a comment says of it and *)
(* a behaviour of the model refutes: README, "Divergences", has the instance*)
(* and the behaviour.                                                       *)

(* secrets.rs, delete_session: "Clean either active slot plus any           *)
(* contiguous chunks left by an interrupted pre-manifest write".  Signing   *)
(* out leaves nothing of any session unless a removal failed.               *)
NothingLeft ==
  [][Creds!DeleteDone /\ ~disturbed
       => \A p \in Creds!Slots, i \in Creds!Indexes : chunk'[p][i] = Creds!NoChunk]_credsVars
=============================================================================
