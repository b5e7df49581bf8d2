----------------------------- MODULE LineReader -----------------------------
(***************************************************************************)
(* read_bounded_line of main.rs: requests are lines, the stream comes in   *)
(* pieces of any size, and a line is cut off at MAX_PROTOCOL_LINE_BYTES    *)
(* while it streams in.  A request is told from another by its length      *)
(* alone, so bytes are "x" and the newline.                                *)
(***************************************************************************)
EXTENDS Naturals, Sequences, FiniteSets, SequencesExt

CONSTANTS
  MaxLine,    \* MAX_PROTOCOL_LINE_BYTES
  MaxStream   \* bound: bytes in the stream

(* What is assumed of the constants. *)
Bounds == {MaxLine, MaxStream} \subseteq Nat

NL == "\n"
Bytes == {"x", NL}

VARIABLES
  stream,     \* the bytes that are still to come
  whole,      \* history: the stream as it was
  available,  \* what fill_buf has in hand
  buffer,     \* how many bytes of the line are kept
  too_long,
  out         \* what the calls have returned: a length, "too long" or "eof"

vars == <<stream, whole, available, buffer, too_long, out>>

TooLong == [kind |-> "too_long", size |-> 0]
Eof     == [kind |-> "eof", size |-> 0]
Line(n) == [kind |-> "line", size |-> n]

TypeOK ==
  /\ stream \in Seq(Bytes) /\ available \in Seq(Bytes) /\ whole \in Seq(Bytes)
  /\ buffer \in 0..MaxLine /\ too_long \in BOOLEAN
  /\ \A i \in 1..Len(out) : out[i] \in {TooLong, Eof} \cup {Line(n) : n \in 0..MaxLine}

Init ==
  /\ whole \in UNION {[1..n -> Bytes] : n \in 0..MaxStream} /\ stream = whole
  /\ available = <<>> /\ buffer = 0 /\ too_long = FALSE /\ out = <<>>

(* The call returns, and the next one starts with an empty buffer. *)
Return(outcome) == out' = Append(out, outcome) /\ buffer' = 0 /\ too_long' = FALSE

(* BufReader has used up its piece and reads another.  Nothing is read      *)
(* after the end of the stream, and the loop of serve has ended.            *)
FillBuf(n) ==
  /\ available = <<>> /\ n \in 1..Len(stream)
  /\ available' = SubSeq(stream, 1, n) /\ stream' = SubSeq(stream, n + 1, Len(stream))
  /\ UNCHANGED <<whole, buffer, too_long, out>>

AtEnd ==
  /\ available = <<>> /\ stream = <<>> /\ ~Contains(out, Eof)
  /\ Return(IF too_long THEN TooLong ELSE IF buffer = 0 THEN Eof ELSE Line(buffer))
  /\ UNCHANGED <<stream, whole, available>>

(* Bytes before the first newline in hand, or all of them. *)
Take(piece) == IF Contains(piece, NL) THEN SelectInSeq(piece, LAMBDA b : b = NL) - 1
               ELSE Len(piece)

Over(take) == too_long \/ buffer + take > MaxLine

(* Mutant of Kept: a line that is too long is held all the same. *)
Kept_all(take) == buffer + take

Kept(take) == IF Over(take) THEN 0 ELSE buffer + take

(* Mutant of Consume: a line that is too long ends with the piece in hand.  *)
Consume_piece ==
  LET take == Take(available)
      ended == Contains(available, NL) IN
  /\ available # <<>>
  /\ available' = SubSeq(available, take + (IF ended THEN 2 ELSE 1), Len(available))
  /\ IF ended \/ Over(take)
     THEN Return(IF Over(take) THEN TooLong ELSE Line(buffer + take))
     ELSE buffer' = Kept(take) /\ too_long' = Over(take) /\ UNCHANGED out
  /\ UNCHANGED <<stream, whole>>

Consume ==
  LET take == Take(available)
      ended == Contains(available, NL) IN
  /\ available # <<>>
  /\ available' = SubSeq(available, take + (IF ended THEN 2 ELSE 1), Len(available))
  /\ IF ended
     THEN Return(IF Over(take) THEN TooLong ELSE Line(buffer + take))
     ELSE buffer' = Kept(take) /\ too_long' = Over(take) /\ UNCHANGED out
  /\ UNCHANGED <<stream, whole>>

Done == Contains(out, Eof) /\ UNCHANGED vars

Next == (\E n \in 1..MaxStream : FillBuf(n)) \/ AtEnd \/ Consume \/ Done

Spec == Init /\ [][Next]_vars

-----------------------------------------------------------------------------
(* What the stream says, read at once.  The text after the last newline is  *)
(* a request too, unless there is none.                                     *)
Ends == {i \in 1..Len(whole) : whole[i] = NL}
Verdict(size) == IF size > MaxLine THEN TooLong ELSE Line(size)
StartOf(i) == IF \E j \in Ends : j < i
              THEN CHOOSE k \in Ends : k < i /\ \A j \in Ends : j < i => j <= k
              ELSE 0
LineEnd(k) == CHOOSE e \in Ends : Cardinality({j \in Ends : j <= e}) = k
Terminated == [k \in 1..Cardinality(Ends) |-> Verdict(LineEnd(k) - StartOf(LineEnd(k)) - 1)]
Rest == Len(whole) - StartOf(Len(whole) + 1)
Requests == Terminated \o (IF Rest = 0 THEN <<>> ELSE <<Verdict(Rest)>>) \o <<Eof>>

(* However the stream is cut into pieces, the calls return its lines, one   *)
(* by one: a line that is too long is skipped up to its newline, and all    *)
(* that come after it are still served.                                     *)
LinesAsSent == IsPrefix(out, Requests) /\ (Contains(out, Eof) => out = Requests)
=============================================================================
