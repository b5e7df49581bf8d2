-------------------------------- MODULE Srp --------------------------------
(***************************************************************************)
(* The password proof of the Rust backend's sign-in: make_proof of auth.rs *)
(* and the exchange around it, over a small group in place of the 2048-bit *)
(* one.                                                                    *)
(*                                                                         *)
(* Hashes are external: k, x and u are any values a hash may give, and two *)
(* keys hash alike only if they are equal.  BigUint has no negative        *)
(* numbers: a subtraction below zero ends the program.                     *)
(***************************************************************************)
EXTENDS Integers

CONSTANTS
  N,            \* the modulus, a prime
  g,            \* the generator
  Hashes,       \* the values of a hash, as numbers
  Secrets       \* the private exponents that are chosen

(* What is assumed of them; that N is a prime makes the exchange safe, not  *)
(* right.                                                                   *)
Numbers ==
  /\ N \in Nat \ {0} /\ g \in Nat
  /\ Hashes \subseteq Nat /\ Secrets \subseteq Nat

VARIABLES
  stage,        \* "public", "challenge", "proof", "refused" or "done"
  private,      \* the client's exponent
  x,            \* what the password typed hashes to, with the salt
  verifier,     \* what the server knows of the password set: g ^ x
  b,            \* the server's exponent
  server_public,
  k, u,
  shared,       \* the client's secret; 0 before there is one
  server_shared \* the server's

vars == <<stage, private, x, verifier, b, server_public, k, u, shared, server_shared>>

modpow(base, exponent) ==
  LET power[i \in 0..exponent] == IF i = 0 THEN 1 % N ELSE (power[i - 1] * base) % N
  IN power[exponent]

a_pub == modpow(g, private)

difference == server_public + N - ((k * modpow(g, x)) % N)

(* Mutant of base: the multiplier of an older protocol, which is 1. *)
base_srp6 == (server_public + N - modpow(g, x)) % N

base == difference % N

(* A BigUint has no negative values, so difference must not have one; a     *)
(* password for which it had would end the sign-in.                         *)
TypeOK ==
  /\ stage \in {"public", "challenge", "proof", "refused", "done"}
  /\ {private, b} \subseteq Secrets /\ {x, k, u} \subseteq Hashes
  /\ {verifier, server_public, shared, server_shared} \subseteq 0..N - 1
  /\ difference \in Nat

(* The password was set some time ago, and one is typed now. *)
Init ==
  /\ stage = "public" /\ private \in Secrets /\ x \in Hashes
  /\ \E set \in Hashes : verifier = modpow(g, set)
  /\ b \in Secrets /\ server_public = 0 /\ k \in Hashes /\ u \in Hashes
  /\ shared = 0 /\ server_shared = 0

(* The server's half: its public value for the client's. *)
Challenge ==
  /\ stage = "public" /\ stage' = "challenge"
  /\ server_public' = (k * verifier + modpow(g, b)) % N
  /\ UNCHANGED <<private, x, verifier, b, k, u, shared, server_shared>>

(* make_proof refuses a value that would let the secret be known without    *)
(* the password.                                                            *)
Degenerate == server_public % N = 0 \/ u = 0

make_proof ==
  /\ stage = "challenge"
  /\ IF Degenerate
     THEN stage' = "refused" /\ UNCHANGED shared
     ELSE stage' = "proof" /\ shared' = modpow(base, private + u * x)
  /\ UNCHANGED <<private, x, verifier, b, server_public, k, u, server_shared>>

(* The server computes the same secret its way, and compares. *)
Verify ==
  /\ stage = "proof" /\ stage' = "done"
  /\ server_shared' = modpow(a_pub * modpow(verifier, u), b)
  /\ UNCHANGED <<private, x, verifier, b, server_public, k, u, shared>>

(* Apple has compared the proofs, or the challenge was refused. *)
Finished == stage \in {"refused", "done"} /\ UNCHANGED vars

Next == Challenge \/ make_proof \/ Verify \/ Finished

Spec == Init /\ [][Next]_vars

-----------------------------------------------------------------------------
(* Who types the password that was set is let in: both sides come to one    *)
(* secret, whatever exponents and hashes the exchange draws.                *)
RightPasswordAgrees ==
  stage = "done" /\ verifier = modpow(g, x) => shared = server_shared
=============================================================================
