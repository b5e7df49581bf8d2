----------------------------- MODULE ZonePaging -----------------------------
(***************************************************************************)
(* Reading the Reminders zone page by page (cloudkit.rs under icloud.rs):  *)
(* a full read takes the zone's current token and then queries its         *)
(* records; a delta read asks for what has changed since a saved token.    *)
(* Other devices write to the zone between any two pages.                  *)
(*                                                                         *)
(* CloudKit is external.  A sync token is a position in the zone's history,*)
(* a continuation marker the name of the last record of a page.  A page    *)
(* may be of any size, and may promise more where there is nothing more.   *)
(***************************************************************************)
EXTENDS Naturals, FiniteSets

CONSTANTS
  MaxName,    \* record names are 1..MaxName
  MaxPages,   \* how many tokens PageGuard accepts (1000 in the code)
  MaxWrites   \* bound: writes of other devices

(* What is assumed of the constants. *)
Bounds == MaxName \in Nat /\ MaxPages \in Nat \ {0} /\ MaxWrites \in Nat

Names == 1..MaxName

VARIABLES
  tag,      \* zone: when each record was written last; 0 when there is none
  clock,    \* zone: the last write
  pc,       \* what is being read
  cursor,   \* where a delta read starts from
  marker,   \* the token to go on from, and at last to save; 0 is none
  cont,     \* the continuation marker of the query
  seen,     \* PageGuard of the loop in hand
  got,      \* records received
  pages     \* requests made in the loop in hand

zone == <<tag, clock>>
vars == <<zone, pc, cursor, marker, cont, seen, got, pages>>

TypeOK ==
  /\ tag \in [Names -> Nat] /\ clock \in Nat
  /\ pc \in {"token", "drain", "query", "delta", "done", "failed"}
  /\ cursor \in Nat /\ marker \in Nat /\ cont \in 0..MaxName
  /\ seen \subseteq Nat /\ got \subseteq [id : Names, tag : Nat] /\ pages \in Nat

Init ==
  /\ tag \in [Names -> 0..MaxName] /\ clock = MaxName
  /\ \/ pc = "token" /\ cursor = 0 /\ seen = {}
     \/ pc = "delta" /\ cursor \in 1..clock /\ seen = {cursor}
  /\ marker = cursor
  /\ cont = 0 /\ got = {} /\ pages = 0

Write(r) ==
  /\ clock < MaxName + MaxWrites
  /\ clock' = clock + 1 /\ tag' = [tag EXCEPT ![r] = clock + 1]
  /\ UNCHANGED <<pc, cursor, marker, cont, seen, got, pages>>

-----------------------------------------------------------------------------

(* Mutant of advance: a token may come again. *)
advance_always(token) == token # 0

(* PageGuard::advance refuses a missing or repeated token and one too many. *)
advance(token) == token # 0 /\ Cardinality(seen) < MaxPages /\ token \notin seen

(* The count stops when it is past what is allowed. *)
CountPage == pages' = IF pages > MaxPages + 1 THEN pages ELSE pages + 1

(* A page is in hand and there is more: the loop goes on, or gives up.      *)
GoOn(token, then) ==
  IF advance(token) THEN pc' = pc /\ seen' = seen \cup {token} /\ then
                    ELSE pc' = "failed" /\ UNCHANGED <<seen, marker, cont>>

(* A loop is over; the next has a guard of its own.                         *)
Over(place) == pc' = place /\ seen' = {} /\ pages' = 0

Received(rs) == got' = got \cup {[id |-> r, tag |-> tag[r]] : r \in rs}

(* current_sync_token; without one, sync_cursor reads all changes by keys   *)
(* of nothing, for the token at their end.                                  *)
current_sync_token ==
  /\ pc = "token"
  /\ \/ marker' = clock /\ Over("query")
     \/ UNCHANGED marker /\ Over("drain")
  /\ UNCHANGED <<zone, cursor, cont, got>>

(* One round of changes: the records up to the position end.  The token is  *)
(* that position, or is missing; without it the last one stays.             *)
Round(end, more, token, then) ==
  /\ end \in marker..clock /\ token \in {end, 0}
  /\ (\E r \in Names : tag[r] > end) => more
  /\ IF more
     THEN GoOn(token, marker' = token /\ UNCHANGED cont) /\ CountPage
     ELSE /\ marker' = (IF token = 0 THEN marker ELSE token)
          /\ Over(then) /\ UNCHANGED cont
  /\ UNCHANGED <<zone, cursor>>

sync_cursor(end, more, token) ==
  pc = "drain" /\ Round(end, more, token, "query") /\ UNCHANGED got

(* Mutant of changes: the token of a page is taken, its records are not.    *)
changes_last_page(end, more, token) ==
  /\ pc = "delta" /\ Round(end, more, token, "done")
  /\ IF more THEN UNCHANGED got
     ELSE Received({r \in Names : tag[r] \in (marker + 1)..end})

changes(end, more, token) ==
  /\ pc = "delta" /\ Round(end, more, token, "done")
  /\ Received({r \in Names : tag[r] \in (marker + 1)..end})

(* One page of records/query: the records after the last one up to a name.  *)
query(last, more) ==
  /\ pc = "query" /\ last \in cont..MaxName
  /\ (\E r \in (last + 1)..MaxName : tag[r] # 0) => more
  /\ Received({r \in (cont + 1)..last : tag[r] # 0})
  /\ IF more
     THEN GoOn(last, cont' = last /\ UNCHANGED marker) /\ CountPage
     ELSE Over("done") /\ UNCHANGED <<marker, cont>>
  /\ UNCHANGED <<zone, cursor>>

(* No answer, an HTTP error, or an error among the items of a page.         *)
reject_embedded_errors ==
  /\ pc \in {"token", "drain", "query", "delta"} /\ pc' = "failed"
  /\ UNCHANGED <<zone, cursor, marker, cont, seen, got, pages>>

ReadStep ==
  \/ current_sync_token
  \/ \E end \in 0..clock, more \in BOOLEAN, token \in 0..clock :
       sync_cursor(end, more, token) \/ changes(end, more, token)
  \/ \E last \in 0..MaxName, more \in BOOLEAN : query(last, more)
  \/ reject_embedded_errors

(* The read has returned, and nothing else is going on. *)
Finished == pc \in {"done", "failed"} /\ UNCHANGED vars

Next == ReadStep \/ (\E r \in Names : Write(r)) \/ Finished

Spec == Init /\ [][Next]_vars

-----------------------------------------------------------------------------
(* Properties. *)

(* With the records of a read and the token it returns, a cache misses      *)
(* nothing: what was written up to that token it has, in that version, and  *)
(* the rest the next delta read will bring.  However pages and writes mix.  *)
NothingMissed ==
  pc = "done" =>
    \A r \in Names : tag[r] \in (cursor + 1)..marker => [id |-> r, tag |-> tag[r]] \in got

(* No answers of CloudKit make a loop ask more often than the guard allows: *)
(* once for each token it accepts, and once for the one it refuses, so that *)
(* a read ends even if there is always more to come.                        *)
PagesBounded == pages <= MaxPages + 1
=============================================================================
