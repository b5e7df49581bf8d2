------------------------- MODULE AuthSessionProofs -------------------------
(***************************************************************************)
(* The types of AuthSession, the codes that a background restore leaves    *)
(* alone, and the verdict on a good code, for any accounts and retries.    *)
(***************************************************************************)
EXTENDS AuthSession, TLAPS

(* What the answers of Apple set, and what the end of a call sets.          *)
AuthOK ==
  /\ token \in BOOLEAN /\ web \in {"none", "limited", "full"}
  /\ headers \in {"none", "other", "challenge", "stale"}
  /\ route \in Routes \cup {"unknown"} /\ sentOn \subseteq Routes
  /\ phones \in BOOLEAN /\ optionsLoaded \in BOOLEAN

VaultOK == vault \in [Accounts -> [password : BOOLEAN, session : BOOLEAN]]

CallOK ==
  /\ account \in Accounts \cup {NoAccount} /\ lastAccount \in Accounts \cup {NoAccount}
  /\ connected \in BOOLEAN /\ pending \in BOOLEAN /\ restoring \in BOOLEAN
  /\ failure \in {"none", "retryable", "final"}
  /\ VaultOK /\ op \in Op
  /\ start \in {"off", "try", "check", "wait"} /\ retries \in 0..MaxRetries
  /\ apple \in Apples
  /\ typed \in {"bad", "seen", "unseen"} /\ blamed \in BOOLEAN /\ signedOut \in BOOLEAN

CodesOK == live \subseteq Routes /\ unseen \subseteq live

(* The parts of the type invariant: what Apple answers, the calls, the codes. *)
LEMMA TypeParts == TypeOK <=> AuthOK /\ CallOK /\ CodesOK
  BY DEF TypeOK, AuthOK, CallOK, VaultOK, CodesOK

(* A call may go to any of its stages. *)
Stages == {"none", "resume", "handshake", "complete", "account", "options",
           "limited", "load", "text", "push", "verify", "trust", "confirm"}

(* No call at all is a call. *)
LEMMA NoOpTyped == NoOp \in Op
  BY DEF NoOp, Op, Codes, Routes

(* A call at any of its stages is a call. *)
LEMMA OpStaged ==
  ASSUME NEW o \in Op, NEW s \in Stages
  PROVE  [o EXCEPT !.stage = s] \in Op
  BY DEF Op, Stages

(* Any change to one entry of the vault leaves a vault. *)
LEMMA VaultTyped ==
  ASSUME VaultOK, NEW a, NEW p \in BOOLEAN, NEW s \in BOOLEAN
  PROVE  [vault EXCEPT ![a] = [password |-> p, session |-> s]]
           \in [Accounts -> [password : BOOLEAN, session : BOOLEAN]]
  BY DEF VaultOK

(* Keeping a session or dropping it leaves a vault. *)
LEMMA SessionTyped ==
  ASSUME VaultOK, NEW a
  PROVE  [vault EXCEPT ![a].session = TRUE]
           \in [Accounts -> [password : BOOLEAN, session : BOOLEAN]]
  BY DEF VaultOK

(* A restore ends in a typed state, and the task of start with it. *)
LEMMA SettleTyped ==
  ASSUME CallOK, NEW restored, NEW outcome, Settle(restored, outcome)
  PROVE  /\ restoring' \in BOOLEAN /\ failure' \in {"none", "retryable", "final"}
         /\ start' \in {"off", "try", "check", "wait"} /\ retries' \in 0..MaxRetries
<1>1. restoring' = FALSE /\ failure' \in {"none", "retryable", "final"}
  BY DEF Settle
<1>2. 0 \in 0..MaxRetries
  BY AccountsAssumption
<1>3. \/ start' = start /\ retries' = retries
      \/ start' = "off" /\ retries' = 0
      \/ start' = "check" /\ retries' = retries
  BY DEF Settle, Settled, startVars
<1> QED
  BY <1>1, <1>2, <1>3 DEF CallOK

(* The end of a sign-in or of a restore is typed. *)
LEMMA EndSignInTyped ==
  ASSUME AuthOK, CallOK, NEW outcome, NEW verdict, EndSignIn(outcome, verdict)
  PROVE  CallOK'
<1>1. PICK saved \in Saves :
        /\ Connect(outcome, verdict, saved)
        /\ IF op.kind = "restore"
           THEN Settle(outcome = "ok" /\ verdict # "limited" /\ saved = "all", outcome)
           ELSE UNCHANGED <<restoring, failure, startVars>>
  BY DEF EndSignIn
<1>2. vault' \in [Accounts -> [password : BOOLEAN, session : BOOLEAN]]
  BY <1>1 DEF Connect, CallOK, VaultOK, Op
<1>3. connected' \in BOOLEAN /\ pending' \in BOOLEAN
  BY <1>1 DEF Connect, CallOK
<1>4. /\ restoring' \in BOOLEAN /\ failure' \in {"none", "retryable", "final"}
      /\ start' \in {"off", "try", "check", "wait"} /\ retries' \in 0..MaxRetries
  BY <1>1, SettleTyped DEF startVars, CallOK
<1> QED
  BY <1>2, <1>3, <1>4, NoOpTyped DEF EndSignIn, CallOK, VaultOK

(* The end of a call keeps the types. *)
LEMMA EndCallTyped ==
  ASSUME CallOK, NEW blame \in BOOLEAN, EndCall(blame), VaultOK',
         connected' \in BOOLEAN, pending' \in BOOLEAN
  PROVE  CallOK'
  BY NoOpTyped DEF EndCall, CallOK, startVars

(* Within a call only the call itself moves on. *)
LEMMA WithinTyped ==
  ASSUME CallOK, Within, op' \in Op
  PROVE  CallOK'
  BY DEF Within, CallOK, VaultOK, clientVars, storeVars, startVars

(* Apple's phone number, where it names one. *)
LEMMA NotedTyped ==
  ASSUME AuthOK, CallOK, note_auth_options
  PROVE  phones' \in BOOLEAN
  BY AppleAssumption DEF AuthOK, CallOK, note_auth_options

(* Whatever headers an answer carries, they keep their type. *)
LEMMA HeadersTyped ==
  ASSUME AuthOK, capture_headers
  PROVE  headers' \in {"none", "other", "challenge", "stale"}
  BY DEF AuthOK, capture_headers

(* A restore has a call of its own. *)
LEMMA RestoreTyped ==
  ASSUME NEW by \in {"user", "start", "sync"}, NEW right \in BOOLEAN
  PROVE  [RestoreOp(by) EXCEPT !.right = right] \in Op
  BY DEF RestoreOp, NoOp, Op, Codes, Routes

(* A restore begins in a typed state. *)
LEMMA BeginRestoreTyped ==
  ASSUME AuthOK, NEW by \in {"user", "start", "sync"}, BeginRestore(by)
  PROVE  /\ restoring' \in BOOLEAN /\ op' \in Op
         /\ headers' \in {"none", "other", "challenge", "stale"}
<1>1. PICK right \in BOOLEAN :
        LET restore == [RestoreOp(by) EXCEPT !.right = right] IN
        IF token THEN op' = restore /\ UNCHANGED headers ELSE WithPassword(restore)
  BY DEF BeginRestore
<1> DEFINE restore == [RestoreOp(by) EXCEPT !.right = right]
<1>2. restore \in Op
  BY RestoreTyped
<1> HIDE DEF restore
<1>3. \/ op' = restore /\ headers' = headers
      \/ op' = [restore EXCEPT !.stage = "handshake"] /\ headers' = "none"
  BY <1>1 DEF WithPassword, restore
<1>4. [restore EXCEPT !.stage = "handshake"] \in Op
  BY <1>2, OpStaged DEF Stages
<1> QED
  BY <1>2, <1>3, <1>4 DEF AuthOK, BeginRestore

-----------------------------------------------------------------------------
(* Types: every action. *)

(* The user's calls keep the types: login and request_2fa start an op that   *)
(* fits, and sign_out empties a vault entry.                                 *)
LEMMA UserTyped ==
  ASSUME AuthOK, CallOK, CodesOK, UserNext
  PROVE  AuthOK' /\ CallOK' /\ CodesOK'
<1> USE DEF CodesOK, SameCodes, VoidCodes
<1>1. ASSUME NEW a \in Accounts, NEW right \in BOOLEAN, NEW remember \in BOOLEAN,
             login(a, right, remember)
      PROVE  AuthOK' /\ CallOK' /\ CodesOK'
  <2>1. op' \in Op
    BY <1>1 DEF login, NoOp, Op, Codes, Routes
  <2>2. AuthOK' /\ CodesOK'
    BY <1>1 DEF login, NewAuth, AuthOK, CodesOK, SameCodes, VoidCodes, Routes
  <2>3. VaultOK'
    BY <1>1 DEF login, CallOK, VaultOK
  <2> QED
    BY <1>1, <2>1, <2>2, <2>3 DEF login, CallOK, startVars
<1>2. ASSUME NEW sms \in BOOLEAN, request_2fa(sms)
      PROVE  AuthOK' /\ CallOK' /\ CodesOK'
  <2>1. op' \in Op
    BY <1>2 DEF request_2fa, Deliver, NoOp, Op, Codes, Routes
  <2> QED
    BY <1>2, <2>1, WithinTyped DEF request_2fa, AuthOK, authVars
<1>3. ASSUME NEW code \in Codes, submit_2fa(code)
      PROVE  AuthOK' /\ CallOK' /\ CodesOK'
  <2>1. op' \in Op
    <3>1. current_route \in Routes /\ sentOn \ {current_route} \subseteq Routes
      BY DEF current_route, AuthOK, Routes
    <3> HIDE DEF current_route
    <3>2. op' = [NoOp EXCEPT !.kind = "submit", !.stage = "verify", !.code = code,
                             !.now = current_route, !.todo = sentOn \ {current_route}]
      BY <1>3 DEF submit_2fa
    <3> QED
      BY <1>3, <3>1, <3>2 DEF NoOp, Op
  <2>2. typed' \in {"bad", "seen", "unseen"} /\ blamed' \in BOOLEAN
    BY <1>3 DEF submit_2fa, Type
  <2>3. AuthOK' /\ CodesOK'
    BY <1>3 DEF submit_2fa, AuthOK, authVars
  <2>4. VaultOK'
    BY <1>3 DEF submit_2fa, CallOK, VaultOK, storeVars
  <2> QED
    BY <1>3, <2>1, <2>2, <2>3, <2>4
       DEF submit_2fa, CallOK, clientVars, storeVars, startVars
<1>4. CASE sign_out
  <2>1. VaultOK'
    BY <1>4, VaultTyped DEF sign_out, CallOK, VaultOK
  <2>2. AuthOK' /\ CodesOK'
    BY <1>4 DEF sign_out, AuthOK, authVars
  <2> QED
    BY <1>4, <2>1, <2>2 DEF sign_out, CallOK, startVars
<1>5. CASE SignOutFails
  <2>1. VaultOK'
    BY <1>5 DEF SignOutFails, CallOK, VaultOK
  <2>2. AuthOK' /\ CodesOK'
    BY <1>5 DEF SignOutFails, AuthOK, authVars
  <2> QED
    BY <1>5, <2>1, <2>2 DEF SignOutFails, CallOK, startVars, clientVars
<1> QED
  BY <1>1, <1>2, <1>3, <1>4, <1>5 DEF UserNext

(* The requests of a sign-in keep the types. *)
LEMMA SignInTyped ==
  ASSUME AuthOK, CallOK, CodesOK, SignInStep
  PROVE  AuthOK' /\ CallOK' /\ CodesOK'
<1> USE DEF CodesOK, SameCodes, VoidCodes
<1>1. \A s \in Stages : To(s) => op' \in Op
  BY OpStaged DEF To, CallOK
<1>2. CASE Handshake
  BY <1>1, <1>2, HeadersTyped, WithinTyped DEF Handshake, Stages, AuthOK
<1>3. CASE HandshakeFails
  BY <1>3, HeadersTyped, EndSignInTyped DEF HandshakeFails, AuthOK
<1>4. CASE CompleteTrusted
  BY <1>1, <1>4, HeadersTyped, WithinTyped DEF CompleteTrusted, Stages, AuthOK
<1>5. CASE CompleteChallenged
  <2>1. apple.phone \in BOOLEAN
    BY AppleAssumption DEF CallOK
  <2>2. AuthOK' /\ CodesOK'
    BY <1>5, <2>1 DEF CompleteChallenged, AuthOK, Routes
  <2> QED
    BY <1>1, <1>5, <2>2, WithinTyped DEF CompleteChallenged, Stages
<1>6. CASE CompleteFails
  BY <1>6, HeadersTyped, EndSignInTyped DEF CompleteFails, AuthOK
<1>7. CASE AccountLogin
  BY <1>7, HeadersTyped, EndSignInTyped DEF AccountLogin, AuthOK
<1>8. CASE AccountLoginFails
  BY <1>8, HeadersTyped, EndSignInTyped DEF AccountLoginFails, AuthOK
<1>9. CASE PrimeOptions
  BY <1>1, <1>9, HeadersTyped, NotedTyped, WithinTyped DEF PrimeOptions, Stages, AuthOK
<1>10. CASE PrimeAccount
  BY <1>10, EndSignInTyped DEF PrimeAccount, AuthOK
<1>11. CASE Resume
  <2>1. /\ vault' \in [Accounts -> [password : BOOLEAN, session : BOOLEAN]]
        /\ connected' \in BOOLEAN
    BY <1>11, SessionTyped DEF Resume, CallOK, VaultOK
  <2>2. /\ restoring' \in BOOLEAN /\ failure' \in {"none", "retryable", "final"}
        /\ start' \in {"off", "try", "check", "wait"} /\ retries' \in 0..MaxRetries
    BY <1>11, SettleTyped DEF Resume
  <2> QED
    BY <1>11, <2>1, <2>2, HeadersTyped, NoOpTyped DEF Resume, AuthOK, CallOK, VaultOK, history
<1>12. CASE ResumeUntrusted
  <2>1. CASE HasPassword
    BY <1>1, <1>12, <2>1, WithinTyped
       DEF ResumeUntrusted, WithPassword, To, Stages, AuthOK
  <2>2. CASE ~HasPassword
    BY <1>12, <2>2, HeadersTyped, EndSignInTyped DEF ResumeUntrusted, AuthOK
  <2> QED
    BY <2>1, <2>2
<1>13. CASE ResumeFails
  BY <1>13, HeadersTyped, EndSignInTyped DEF ResumeFails, AuthOK
<1> QED
  BY <1>2, <1>3, <1>4, <1>5, <1>6, <1>7, <1>8, <1>9, <1>10, <1>11, <1>12, <1>13
     DEF SignInStep

(* The requests of a two-factor code keep the types. *)
LEMMA CodeTyped ==
  ASSUME AuthOK, CallOK, CodesOK, CodeStep
  PROVE  AuthOK' /\ CallOK' /\ CodesOK'
<1> USE DEF CodesOK, SameCodes, VoidCodes
<1>1. \A s \in Stages : To(s) => op' \in Op
  BY OpStaged DEF To, CallOK
<1>2. ASSUME NEW blame \in BOOLEAN, EndCall(blame), UNCHANGED <<connected, pending, vault>>
      PROVE  CallOK'
  BY <1>2, EndCallTyped DEF CallOK, VaultOK
<1>3. CASE load_auth_options
  BY <1>1, <1>3, HeadersTyped, NotedTyped, WithinTyped
     DEF load_auth_options, Deliver, Stages, AuthOK
<1>4. ASSUME NEW r \in Routes, Delivery(r)
      PROVE  AuthOK' /\ CallOK' /\ CodesOK'
  BY <1>2, <1>4, HeadersTyped, NotedTyped DEF Delivery, mark_sent, AuthOK
<1>5. CASE RequestFails
  <2>0. Unanswered => headers' \in {headers, "stale"} /\ CodesOK'
    BY DEF Unanswered
  <2>1. headers' \in {"none", "other", "challenge", "stale"} /\ CodesOK'
    BY <1>5, <2>0, HeadersTyped DEF RequestFails, AuthOK
  <2>2. phones' \in BOOLEAN
    BY <1>5, NotedTyped DEF RequestFails, AuthOK
  <2> QED
    BY <1>2, <1>5, <2>1, <2>2 DEF RequestFails, AuthOK
<1>6. CASE PostAccepted
  BY <1>1, <1>6, HeadersTyped, WithinTyped DEF PostAccepted, Stages, AuthOK, CallOK, Op
<1>7. CASE PostRefused
  <2>1. AuthOK'
    BY <1>7, HeadersTyped, NotedTyped DEF PostRefused, AuthOK
  <2>2. CASE EndCall(TRUE) /\ UNCHANGED <<connected, pending, vault>>
    BY <1>2, <1>7, <2>1, <2>2 DEF PostRefused
  <2>3. ASSUME NEW r \in op.todo, op' = [op EXCEPT !.now = r, !.todo = @ \ {r}], Within
        PROVE  CallOK'
    BY <2>3, WithinTyped DEF CallOK, Op
  <2> QED
    BY <1>7, <2>1, <2>2, <2>3 DEF PostRefused
<1>8. CASE Trust
  BY <1>1, <1>8, HeadersTyped, WithinTyped DEF Trust, Stages, AuthOK
<1>9. CASE SubmitFails
  BY <1>2, <1>9 DEF SubmitFails, AuthOK, authVars
<1>10. CASE Confirm
  <2>0. VaultOK'
    <3>1. VaultOK /\ (vault' = vault \/ vault' = [vault EXCEPT ![account].session = TRUE])
      BY <1>10 DEF Confirm, CallOK
    <3> QED
      BY <3>1, SessionTyped DEF VaultOK
  <2>1. VaultOK' /\ connected' \in BOOLEAN /\ pending' \in BOOLEAN
    BY <1>10, <2>0 DEF Confirm, CallOK
  <2>2. EndCall(FALSE)
    BY <1>10 DEF Confirm
  <2> QED
    BY <1>10, <2>1, <2>2, EndCallTyped, HeadersTyped DEF Confirm, AuthOK
<1> QED
  BY <1>3, <1>4, <1>5, <1>6, <1>7, <1>8, <1>9, <1>10
     DEF CodeStep, request_sms_code, PushCode, Routes

(* The task of start, the restore of a pass and a crash keep the types. *)
LEMMA OtherTyped ==
  ASSUME AuthOK, CallOK, CodesOK,
         StartStep \/ recover_session \/ Crash \/ UNCHANGED vars
  PROVE  AuthOK' /\ CallOK' /\ CodesOK'
<1> USE DEF CodesOK, SameCodes, VoidCodes
<1>1. CASE StartRestore
  <2>0. start' \in {"off", "try", "check", "wait"} /\ retries' \in 0..MaxRetries
    <3>1. 0 \in 0..MaxRetries
      BY AccountsAssumption
    <3> QED
      BY <1>1, <3>1 DEF StartRestore, Settled, startVars, CallOK
  <2>1. CASE BeginRestore("start") /\ UNCHANGED failure
    BY <1>1, <2>0, <2>1, BeginRestoreTyped
       DEF StartRestore, AuthOK, CallOK, VaultOK, storeVars, history
  <2>2. CASE ~(BeginRestore("start") /\ UNCHANGED failure)
    BY <1>1, <2>0, <2>2 DEF StartRestore, AuthOK, CallOK, VaultOK, storeVars, history, startVars
  <2> QED
    BY <2>1, <2>2
<1>2. CASE StartCheck
  <2>1. retries' \in 0..MaxRetries
    BY <1>2, AccountsAssumption DEF StartCheck, Settled, CallOK
  <2>2. AuthOK' /\ CodesOK'
    BY <1>2 DEF StartCheck, AuthOK, authVars, history
  <2>3. VaultOK'
    BY <1>2 DEF StartCheck, CallOK, VaultOK, storeVars
  <2> QED
    BY <1>2, <2>1, <2>2, <2>3 DEF StartCheck, Settled, CallOK, storeVars, history
<1>3. CASE recover_session
  <2>0. VaultOK'
    BY <1>3 DEF recover_session, CallOK, VaultOK, storeVars
  <2>1. /\ op' \in Op /\ restoring' \in BOOLEAN /\ failure' \in {failure, "final"}
        /\ headers' \in {"none", "other", "challenge", "stale"}
    <3>1. CASE BeginRestore("sync") /\ UNCHANGED failure
      BY <3>1, BeginRestoreTyped
    <3>2. CASE ~(BeginRestore("sync") /\ UNCHANGED failure)
      BY <1>3, <3>2 DEF recover_session, AuthOK, CallOK
    <3> QED
      BY <3>1, <3>2
  <2>2. AuthOK' /\ CodesOK'
    BY <1>3, <2>1 DEF recover_session, AuthOK, history
  <2> QED
    BY <1>3, <2>0, <2>1, <2>2 DEF recover_session, CallOK, storeVars, startVars, history
<1>4. CASE Crash
  <2>1. lastAccount \in Accounts => vault[lastAccount].session \in BOOLEAN
    BY DEF CallOK, VaultOK
  <2>2. AuthOK' /\ CodesOK'
    BY <1>4, <2>1 DEF Crash, Boot, NewAuth, AuthOK, Routes
  <2>3. VaultOK'
    BY <1>4 DEF Crash, CallOK, VaultOK, storeVars
  <2>4. restoring' \in BOOLEAN /\ retries' \in 0..MaxRetries
    BY <1>4, AccountsAssumption DEF Crash, Boot
  <2> QED
    BY <1>4, <2>2, <2>3, <2>4, NoOpTyped DEF Crash, Boot, CallOK, storeVars
<1>5. CASE UNCHANGED vars
  BY <1>5 DEF vars, authVars, clientVars, storeVars, startVars, history, AuthOK, CallOK, VaultOK
<1> QED
  BY <1>1, <1>2, <1>3, <1>4, <1>5 DEF StartStep

(* A session starts typed. *)
LEMMA SessionStart == Init => TypeOK
<1>1. Init => AuthOK /\ live \subseteq Routes
  BY DEF Init, AuthOK, Routes
<1>2. Init => VaultOK /\ restoring \in BOOLEAN /\ retries \in 0..MaxRetries
  BY AccountsAssumption DEF Init, VaultOK
<1>3. Init => CallOK
  BY <1>2, NoOpTyped DEF Init, CallOK
<1> QED
  BY <1>1, <1>3, TypeParts DEF CodesOK, Init

(* Every step leaves it typed. *)
LEMMA SessionStep == TypeOK /\ [Next]_vars => TypeOK'
<1>1. TypeOK /\ [Next]_vars => AuthOK' /\ CallOK' /\ CodesOK'
  BY TypeParts, UserTyped, SignInTyped, CodeTyped, OtherTyped DEF Next, Running
<1>2. AuthOK' /\ CallOK' /\ CodesOK' => TypeOK'
  BY DEF TypeOK, AuthOK, CallOK, CodesOK, VaultOK
<1> QED
  BY <1>1, <1>2

(* Every state of the session is well typed, for any Apple IDs, any length   *)
(* of the backoff and any answers of Apple.                                  *)
THEOREM SessionIsTyped == Spec => []TypeOK
BY SessionStart, SessionStep, PTL DEF Spec

-----------------------------------------------------------------------------
(* The code a user may be typing. *)

(* A restore in the background starts only where no code is awaited, and asks *)
(* for none: until the prime has ended, none is awaited either.             *)
Background ==
  op.by # "user" => /\ ~pending
                    /\ op.stage \in {"resume", "handshake", "complete", "account",
                                     "options", "limited"}

(* Codes are asked for and submitted while one is awaited. *)
Awaited == op.stage \in {"load", "text", "push", "verify", "trust", "confirm"} => pending

(* A trusted exchange with Apple, and an accepted code, void every code.    *)
Voided == op.stage \in {"trust", "confirm", "account"} => live = {}

(* Where Apple would take a code, the client says that it awaits one, or is *)
(* about to: the challenge has just been opened.                            *)
Held == live # {} /\ headers \in {"challenge", "stale"}
        => pending \/ op.stage \in {"options", "limited"}

Keeping == Background /\ Awaited /\ Voided /\ Held

(* What the next stage of a call keeps of it, and what is left at its end.  *)
LEMMA ToFields ==
  ASSUME CallOK, NEW s \in Stages, To(s)
  PROVE  /\ op'.stage = s /\ op'.by = op.by /\ op'.code = op.code
         /\ op'.now = op.now /\ op'.todo = op.todo
  BY DEF CallOK, Op, To

(* Where no call runs, none of a restore does. *)
LEMMA NoOpFields == NoOp.stage = "none" /\ NoOp.by = "user"
  BY DEF NoOp

(* How a sign-in may leave what is awaited: it is taken back by a trusted   *)
(* account login only.                                                      *)
LEMMA EndSignInKeeps ==
  ASSUME CallOK, NEW outcome, NEW verdict, EndSignIn(outcome, verdict)
  PROVE  /\ op'.stage = "none" /\ op'.by = "user"
         /\ outcome = "code_required" => pending' = TRUE
         /\ outcome \notin {"ok", "code_required"} => pending' = pending
         /\ blamed' = blamed /\ typed' = typed /\ apple' = apple
  BY NoOpFields DEF EndSignIn, Connect

(* How the end of a call leaves the call and its verdict. *)
LEMMA EndCallKeeps ==
  ASSUME NEW blame \in BOOLEAN, EndCall(blame)
  PROVE  op'.stage = "none" /\ op'.by = "user" /\ blamed' = blame /\ apple' = apple
         /\ typed' = IF blame THEN typed ELSE "bad"
  BY NoOpFields DEF EndCall

(* A restore begins with its own first request, for the one that asked. *)
LEMMA RestoreFields ==
  ASSUME NEW by \in {"start", "sync"}, BeginRestore(by)
  PROVE  /\ op'.stage \in {"resume", "handshake"} /\ op'.by = by
         /\ headers' \in {headers, "none"}
<1>1. PICK right \in BOOLEAN :
        LET restore == [RestoreOp(by) EXCEPT !.right = right] IN
        IF token THEN op' = restore /\ UNCHANGED headers ELSE WithPassword(restore)
  BY DEF BeginRestore
<1> DEFINE restore == [RestoreOp(by) EXCEPT !.right = right]
<1>2. restore \in Op /\ restore.stage = "resume" /\ restore.by = by
  BY DEF RestoreOp, NoOp, Op, Codes, Routes
<1> HIDE DEF restore
<1>3. \/ op' = restore /\ headers' = headers
      \/ op' = [restore EXCEPT !.stage = "handshake"] /\ headers' = "none"
  BY <1>1 DEF WithPassword, restore
<1> QED
  BY <1>2, <1>3 DEF Op

(* The user's calls keep what is awaited apart from the background. *)
LEMMA UserKeeping ==
  ASSUME TypeOK, Keeping, UserNext
  PROVE  Keeping'
<1>0. CallOK /\ NoOp.stage = "none" /\ NoOp.by = "user"
  BY TypeParts, NoOpFields
<1>1. ASSUME NEW a \in Accounts, NEW right \in BOOLEAN, NEW remember \in BOOLEAN,
             login(a, right, remember)
      PROVE  Keeping'
  <2>1. op'.by = "user" /\ op'.stage = "handshake"
    BY <1>1 DEF login, NoOp
  <2> QED
    BY <1>1, <2>1 DEF login, NewAuth, Keeping, Background, Awaited, Voided, Held
<1>2. ASSUME NEW sms \in BOOLEAN, request_2fa(sms)
      PROVE  Keeping'
  <2>1. op'.by = "user" /\ op'.stage \in {"load", "text", "push"}
    BY <1>2 DEF request_2fa, Deliver, NoOp
  <2> QED
    BY <1>2, <2>1 DEF request_2fa, Within, clientVars, authVars, Keeping, Background,
       Awaited, Voided, Held
<1>3. ASSUME NEW code \in Codes, submit_2fa(code)
      PROVE  Keeping'
  <2>1. op'.by = "user" /\ op'.stage = "verify"
    BY <1>3 DEF submit_2fa, NoOp
  <2> QED
    BY <1>3, <2>1 DEF submit_2fa, clientVars, authVars, Keeping, Background, Awaited, Voided,
       Held
<1>4. CASE sign_out
  BY <1>0, <1>4 DEF sign_out, VoidCodes, Free, Keeping, Background, Awaited, Voided, Held
<1>5. CASE SignOutFails
  BY <1>0, <1>5 DEF SignOutFails, authVars, clientVars, Free, Keeping, Background, Awaited,
     Voided, Held
<1> QED
  BY <1>1, <1>2, <1>3, <1>4, <1>5 DEF UserNext

(* So do the requests of a sign-in or of a restore. *)
LEMMA SignInKeeping ==
  ASSUME TypeOK, Keeping, SignInStep
  PROVE  Keeping'
<1>0. CallOK /\ AuthOK
  BY TypeParts
<1> USE DEF Keeping, Background, Awaited, Voided, Held, At, SameCodes, VoidCodes
<1>1. \A s \in Stages : To(s) => op'.stage = s /\ op'.by = op.by
  BY <1>0, ToFields
<1>2. ASSUME NEW outcome, NEW verdict, EndSignIn(outcome, verdict)
      PROVE  /\ op'.stage = "none" /\ op'.by = "user"
             /\ outcome # "ok" /\ pending => pending'
             /\ outcome = "code_required" => pending'
  BY <1>0, <1>2, EndSignInKeeps DEF CallOK
<1>3. CASE Handshake
  BY <1>1, <1>3 DEF Handshake, Within, clientVars, Stages, capture_headers
<1>4. CASE HandshakeFails
  BY <1>2, <1>4 DEF HandshakeFails, classify_auth, capture_headers
<1>5. CASE CompleteTrusted
  BY <1>1, <1>5 DEF CompleteTrusted, Within, clientVars, Stages
<1>6. CASE CompleteChallenged
  BY <1>1, <1>6 DEF CompleteChallenged, Within, clientVars, Stages
<1>7. CASE CompleteFails
  BY <1>2, <1>7 DEF CompleteFails, capture_headers
<1>8. CASE AccountLogin
  BY <1>2, <1>8 DEF AccountLogin
<1>9. CASE AccountLoginFails
  BY <1>2, <1>9 DEF AccountLoginFails
<1>10. CASE PrimeOptions
  BY <1>1, <1>10 DEF PrimeOptions, Within, clientVars, Stages
<1>11. CASE PrimeAccount
  BY <1>2, <1>11 DEF PrimeAccount
<1>12. CASE Resume
  BY <1>12, NoOpFields DEF Resume, capture_headers
<1>13. CASE ResumeUntrusted
  <2>1. CASE HasPassword
    BY <1>1, <1>13, <2>1 DEF ResumeUntrusted, WithPassword, To, Within, clientVars, Stages
  <2>2. CASE ~HasPassword
    BY <1>2, <1>13, <2>2 DEF ResumeUntrusted, capture_headers
  <2> QED
    BY <2>1, <2>2
<1>14. CASE ResumeFails
  BY <1>2, <1>14 DEF ResumeFails, capture_headers
<1> QED
  BY <1>3, <1>4, <1>5, <1>6, <1>7, <1>8, <1>9, <1>10, <1>11, <1>12, <1>13, <1>14
     DEF SignInStep

(* So do the requests of a two-factor code. *)
LEMMA CodeKeeping ==
  ASSUME TypeOK, Keeping, CodeStep
  PROVE  Keeping'
<1>0. CallOK /\ AuthOK
  BY TypeParts
<1> USE DEF Keeping, Background, Awaited, Voided, Held, At, SameCodes, VoidCodes
<1>1. \A s \in Stages : To(s) => op'.stage = s /\ op'.by = op.by
  BY <1>0, ToFields
<1>2. \A blame \in BOOLEAN : EndCall(blame) => op'.stage = "none" /\ op'.by = "user"
  BY EndCallKeeps
<1>3. CASE load_auth_options
  BY <1>1, <1>3 DEF load_auth_options, Deliver, Stages, Within, clientVars, capture_headers
<1>4. ASSUME NEW r \in Routes, Delivery(r), pending
      PROVE  Keeping'
  BY <1>2, <1>4 DEF Delivery
<1>5. CASE RequestFails
  BY <1>2, <1>5 DEF RequestFails
<1>6. CASE PostAccepted
  BY <1>1, <1>6 DEF PostAccepted, Stages, Within, clientVars
<1>7. CASE PostRefused
  <2>1. pending /\ pending' = pending /\ live' = live
    BY <1>7 DEF PostRefused, Within, clientVars
  <2>2. op'.stage \in {"none", "verify"} /\ op'.by = "user"
    <3>1. CASE EndCall(TRUE)
      BY <1>2, <3>1
    <3>2. ASSUME NEW r \in op.todo, op' = [op EXCEPT !.now = r, !.todo = @ \ {r}]
          PROVE  op'.stage = "verify" /\ op'.by = "user"
      BY <1>0, <1>7, <3>2 DEF PostRefused, CallOK, Op
    <3> QED
      BY <1>7, <3>1, <3>2 DEF PostRefused
  <2> QED
    BY <2>1, <2>2
<1>8. CASE Trust
  BY <1>1, <1>8 DEF Trust, Stages, Within, clientVars
<1>9. CASE SubmitFails
  BY <1>2, <1>9 DEF SubmitFails, authVars
<1>10. CASE Confirm
  BY <1>2, <1>10 DEF Confirm
<1> QED
  BY <1>3, <1>4, <1>5, <1>6, <1>7, <1>8, <1>9, <1>10
     DEF CodeStep, request_sms_code, PushCode, Routes

(* So do the task of start, the restore of a pass and a crash. *)
LEMMA OtherKeeping ==
  ASSUME TypeOK, Keeping, StartStep \/ recover_session \/ Crash \/ UNCHANGED vars
  PROVE  Keeping'
<1> USE DEF Keeping, Background, Awaited, Voided, Held
<1>1. CASE StartRestore
  <2>1. CASE BeginRestore("start") /\ ~pending
    BY <1>1, <2>1, RestoreFields, NoOpFields DEF StartRestore, Free
  <2>2. CASE ~(BeginRestore("start") /\ ~pending)
    BY <1>1, <2>2 DEF StartRestore
  <2> QED
    BY <2>1, <2>2
<1>2. CASE StartCheck
  BY <1>2 DEF StartCheck, authVars
<1>3. CASE recover_session
  <2>1. CASE BeginRestore("sync")
    BY <1>3, <2>1, RestoreFields, NoOpFields DEF recover_session, Free
  <2>2. CASE ~BeginRestore("sync")
    BY <1>3, <2>2, NoOpFields DEF recover_session, Free
  <2> QED
    BY <2>1, <2>2
<1>4. CASE Crash
  BY <1>4, NoOpFields DEF Crash, Boot
<1>5. CASE UNCHANGED vars
  BY <1>5 DEF vars, authVars, clientVars
<1> QED
  BY <1>1, <1>2, <1>3, <1>4, <1>5 DEF StartStep

(* A code awaited and the calls of the background keep apart, always. *)
LEMMA KeepingAlways == Spec => []Keeping
<1>1. Init => Keeping
  BY NoOpFields DEF Init, Keeping, Background, Awaited, Voided, Held
<1>2. TypeOK /\ Keeping /\ [Next]_vars => Keeping'
  BY UserKeeping, SignInKeeping, CodeKeeping, OtherKeeping DEF Next, Running
<1> QED
  BY <1>1, <1>2, SessionIsTyped, PTL DEF Spec

(* While a code is awaited, no call begins but the user's.                   *)
LEMMA UserBegins ==
  ASSUME TypeOK, [Next]_vars, pending, op.by = "user"
  PROVE  op'.by = "user"
<1>0. CallOK
  BY TypeParts
<1>1. \A s \in Stages : To(s) => op'.by = op.by
  BY <1>0, ToFields
<1>2. \A outcome, verdict : EndSignIn(outcome, verdict) => op'.by = "user"
  BY NoOpFields DEF EndSignIn
<1>3. \A blame : EndCall(blame) => op'.by = "user"
  BY NoOpFields DEF EndCall
<1>4. CASE UserNext
  BY <1>4, NoOpFields DEF UserNext, login, request_2fa, submit_2fa, sign_out, SignOutFails,
     Free, NoOp
<1>5. CASE Handshake \/ CompleteTrusted \/ CompleteChallenged \/ PrimeOptions
  BY <1>1, <1>5 DEF Handshake, CompleteTrusted, CompleteChallenged, PrimeOptions, Stages
<1>6. CASE \/ HandshakeFails \/ CompleteFails \/ AccountLogin \/ AccountLoginFails
           \/ PrimeAccount \/ ResumeFails
  BY <1>2, <1>6 DEF HandshakeFails, CompleteFails, AccountLogin, AccountLoginFails,
     PrimeAccount, ResumeFails
<1>7. CASE Resume \/ ResumeUntrusted
  <2>1. CASE WithPassword(op)
    BY <1>1, <2>1 DEF WithPassword, To, Stages
  <2> QED
    BY <1>2, <1>7, <2>1, NoOpFields DEF Resume, ResumeUntrusted
<1>8. CASE load_auth_options \/ PostAccepted \/ Trust
  BY <1>1, <1>8 DEF load_auth_options, Deliver, PostAccepted, Trust, Stages
<1>9. CASE request_sms_code \/ PushCode \/ RequestFails \/ SubmitFails \/ Confirm
  BY <1>3, <1>9 DEF request_sms_code, PushCode, Delivery, RequestFails, SubmitFails, Confirm
<1>10. CASE PostRefused
  <2>1. \A r : op' = [op EXCEPT !.now = r, !.todo = @ \ {r}] => op'.by = op.by
    BY <1>0 DEF CallOK, Op
  <2> QED
    BY <1>3, <1>10, <2>1 DEF PostRefused
<1>11. CASE StartStep \/ recover_session
  BY <1>11, NoOpFields DEF StartStep, StartRestore, StartCheck, recover_session, Free
<1>12. CASE Crash \/ UNCHANGED vars
  BY <1>12, NoOpFields DEF Crash, Boot, vars
<1> QED
  BY <1>4, <1>5, <1>6, <1>7, <1>8, <1>9, <1>10, <1>11, <1>12
     DEF Next, Running, SignInStep, CodeStep

(* Where a challenge has just been opened, its codes are left alone. *)
LEMMA OpeningKeeps ==
  ASSUME TypeOK, [Next]_vars, op.stage \in {"options", "limited"}, headers = "challenge"
  PROVE  (live' = live /\ headers' = "challenge") \/ Crash
<1>0. CallOK /\ NoOp.stage = "none"
  BY TypeParts, NoOpFields
<1> USE DEF At, SameCodes
<1>1. CASE PrimeOptions \/ PrimeAccount
  BY <1>1 DEF PrimeOptions, PrimeAccount, capture_headers
<1>2. CASE UNCHANGED vars
  BY <1>2 DEF vars, authVars
<1>3. ~UserNext /\ ~StartStep /\ ~recover_session
  BY <1>0 DEF UserNext, login, request_2fa, submit_2fa, sign_out, SignOutFails, StartStep,
     StartRestore, StartCheck, recover_session, Free
<1>4. SignInStep => PrimeOptions \/ PrimeAccount
  BY DEF SignInStep, Handshake, HandshakeFails, CompleteTrusted, CompleteChallenged,
     CompleteFails, AccountLogin, AccountLoginFails, Resume, ResumeUntrusted, ResumeFails
<1>5. ~CodeStep
  BY DEF CodeStep, load_auth_options, request_sms_code, PushCode, RequestFails, PostAccepted,
     PostRefused, Trust, SubmitFails, Confirm
<1> QED
  BY <1>1, <1>2, <1>3, <1>4, <1>5 DEF Next, Running

(* "A background sync must not [void a challenge] while a code is in        *)
(* flight": the code and its headers are given up in calls of the user's    *)
(* only, or with the process, whatever answers get lost and whatever codes  *)
(* Apple shows unasked.                                                     *)
THEOREM BackgroundLeavesCode == Spec => BackgroundKeepsCode
<1>1. TypeOK /\ Keeping /\ [Next]_vars
      => (live # {} /\ headers = "challenge"
            /\ (~(live \subseteq live') \/ headers' # "challenge")
          => (op.by = "user" /\ op'.by = "user") \/ Crash)
  <2> SUFFICES ASSUME TypeOK, Keeping, [Next]_vars, live # {}, headers = "challenge",
                      ~(live \subseteq live') \/ headers' # "challenge"
               PROVE  (op.by = "user" /\ op'.by = "user") \/ Crash
    OBVIOUS
  <2>1. CASE pending
    BY <2>1, UserBegins DEF Keeping, Background
  <2>2. CASE op.stage \in {"options", "limited"}
    BY <2>2, OpeningKeeps
  <2> QED
    BY <2>1, <2>2 DEF Keeping, Held
<1> QED
  BY <1>1, SessionIsTyped, KeepingAlways, PTL DEF Spec, BackgroundKeepsCode

-----------------------------------------------------------------------------
(* The verdict on a good code. *)

(* Every code that the client has recorded was asked for on its own route,   *)
(* and a text was the last to be asked for: the device prompt is for         *)
(* accounts with no number.                                                  *)
Opened == headers \in {"challenge", "stale"}
Asked == Opened => /\ live \ unseen \subseteq sentOn
                   /\ "sms" \in live \ unseen => phones /\ route = "sms"
Pushed == op.stage = "push" => ~phones

(* A good code is still on its way to the endpoint that accepts it, and the  *)
(* endpoint asked before is not the device's, whose refusal ends the call.   *)
NotNow == op.stage = "verify" => op.now \notin op.todo
Reached == op.stage = "verify" /\ typed = "seen"
           => \E r \in {op.now} \cup op.todo :
                Accepts(op.code, r) /\ (r # op.now => op.now = "sms")

Judged == Asked /\ Pushed /\ NotNow /\ Reached /\ SeenCodeSignsIn

(* The user's calls begin with a code known as good or as other. *)
LEMMA UserJudged ==
  ASSUME TypeOK, Keeping, Judged, UserNext
  PROVE  Judged'
<1>0. CallOK /\ AuthOK /\ NoOp.stage = "none" /\ NoOp.by = "user"
  BY TypeParts, NoOpFields
<1>1. ASSUME NEW a \in Accounts, NEW right \in BOOLEAN, NEW remember \in BOOLEAN,
             login(a, right, remember)
      PROVE  Judged'
  <2>1. op'.stage = "handshake"
    BY <1>1 DEF login, NoOp
  <2> QED
    BY <1>1, <2>1 DEF login, NewAuth, Judged, Opened, Asked, Pushed, NotNow, Reached,
       SeenCodeSignsIn
<1>2. ASSUME NEW sms \in BOOLEAN, request_2fa(sms)
      PROVE  Judged'
  <2>1. op'.stage \in {"load", "text"} \/ (op'.stage = "push" /\ ~phones)
    BY <1>2 DEF request_2fa, Deliver, NoOp
  <2> QED
    BY <1>2, <2>1 DEF request_2fa, Within, authVars, SameCodes, Judged, Opened, Asked, Pushed,
       NotNow, Reached, SeenCodeSignsIn
<1>3. ASSUME NEW code \in Codes, submit_2fa(code)
      PROVE  Judged'
  <2>1. /\ op'.stage = "verify" /\ op'.code = code /\ op'.now = current_route
        /\ op'.todo = sentOn \ {current_route}
    BY <1>3 DEF submit_2fa, NoOp
  <2>2. /\ live' = live /\ headers' = headers /\ sentOn' = sentOn /\ phones' = phones
        /\ route' = route /\ apple' = apple /\ blamed' = FALSE /\ unseen' = unseen
        /\ typed' = "seen" => code \notin unseen /\ \E r \in Routes : Accepts(code, r)
    BY <1>3 DEF submit_2fa, authVars, Type
  <2>3. ASSUME typed' = "seen"
        PROVE  \E r \in {op'.now} \cup op'.todo :
                 Accepts(op.code, r)' /\ (r # op'.now => op'.now = "sms")
    <3>1. PICK r \in Routes : Accepts(code, r)
      BY <2>2, <2>3
    <3>2. code = r /\ r \in live /\ headers = "challenge" /\ r \in sentOn
      BY <2>2, <2>3, <3>1 DEF Accepts, Honoured, Judged, Opened, Asked
    <3>3. r \in {op'.now} \cup op'.todo
      BY <2>1, <3>2
    <3>4. r # op'.now => op'.now = "sms"
      BY <2>1, <2>2, <2>3, <3>1, <3>2, <1>0
         DEF current_route, AuthOK, Routes, Judged, Opened, Asked
    <3>5. Accepts(op.code, r)'
      BY <2>1, <2>2, <3>1 DEF Accepts, Honoured
    <3> QED
      BY <3>3, <3>4, <3>5
  <2> QED
    BY <2>1, <2>2, <2>3 DEF Judged, Opened, Asked, Pushed, NotNow, Reached, SeenCodeSignsIn
<1>4. CASE sign_out
  BY <1>0, <1>4 DEF sign_out, VoidCodes, authVars, Free, Judged, Opened, Asked, Pushed, NotNow,
     Reached, SeenCodeSignsIn
<1>5. CASE SignOutFails
  BY <1>0, <1>5 DEF SignOutFails, authVars, Free, Judged, Opened, Asked, Pushed, NotNow,
     Reached, SeenCodeSignsIn
<1> QED
  BY <1>1, <1>2, <1>3, <1>4, <1>5 DEF UserNext

(* The requests of a sign-in leave the verdict on a code alone. *)
LEMMA SignInJudged ==
  ASSUME TypeOK, Keeping, Judged, SignInStep
  PROVE  Judged'
<1>0. CallOK /\ AuthOK
  BY TypeParts
<1> USE DEF Judged, Opened, Asked, Pushed, NotNow, Reached, SeenCodeSignsIn, At, SameCodes, VoidCodes
<1>1. \A s \in Stages : To(s) => op'.stage = s
  BY <1>0, ToFields
<1>2. \A outcome, verdict : EndSignIn(outcome, verdict)
                              => /\ op'.stage = "none"
                                 /\ blamed' = blamed /\ typed' = typed
  BY <1>0, EndSignInKeeps
<1>3. CASE Handshake
  BY <1>1, <1>3 DEF Handshake, Within, Stages, capture_headers
<1>4. CASE HandshakeFails
  BY <1>2, <1>4 DEF HandshakeFails, capture_headers
<1>5. CASE CompleteTrusted
  BY <1>1, <1>5 DEF CompleteTrusted, Within, Stages, capture_headers
<1>6. CASE CompleteChallenged
  BY <1>1, <1>6 DEF CompleteChallenged, Within, Stages
<1>7. CASE CompleteFails
  BY <1>2, <1>7 DEF CompleteFails, capture_headers
<1>8. CASE AccountLogin \/ AccountLoginFails
  BY <1>2, <1>8 DEF AccountLogin, AccountLoginFails, capture_headers
<1>9. CASE PrimeOptions
  <2>1. phones => phones'
    BY <1>0, <1>9 DEF PrimeOptions, note_auth_options, AuthOK
  <2> QED
    BY <1>1, <1>9, <2>1 DEF PrimeOptions, Within, Stages, capture_headers
<1>10. CASE PrimeAccount
  BY <1>2, <1>10 DEF PrimeAccount
<1>11. CASE Resume
  BY <1>11, NoOpFields DEF Resume, capture_headers, history
<1>12. CASE ResumeUntrusted
  <2>1. CASE HasPassword
    BY <1>1, <1>12, <2>1 DEF ResumeUntrusted, WithPassword, To, Within, Stages
  <2>2. CASE ~HasPassword
    BY <1>2, <1>12, <2>2 DEF ResumeUntrusted, capture_headers
  <2> QED
    BY <2>1, <2>2
<1>13. CASE ResumeFails
  BY <1>2, <1>13 DEF ResumeFails, capture_headers
<1> QED
  BY <1>3, <1>4, <1>5, <1>6, <1>7, <1>8, <1>9, <1>10, <1>11, <1>12, <1>13 DEF SignInStep

(* The requests of a code end it as good where Apple accepts it. *)
LEMMA CodeJudged ==
  ASSUME TypeOK, Keeping, Judged, CodeStep
  PROVE  Judged'
<1>0. CallOK /\ AuthOK
  BY TypeParts
<1> USE DEF Judged, Opened, Asked, Pushed, NotNow, Reached, SeenCodeSignsIn, At, SameCodes, VoidCodes
<1>1. \A s \in Stages : To(s) => op'.stage = s
  BY <1>0, ToFields
<1>2. \A blame \in BOOLEAN : EndCall(blame)
                               => /\ op'.stage = "none" /\ blamed' = blame
                                  /\ typed' = IF blame THEN typed ELSE "bad"
  BY EndCallKeeps
<1>3. capture_headers => /\ headers = "challenge" => headers' = "challenge"
                         /\ Opened' <=> Opened
  BY DEF capture_headers
<1>4. note_auth_options => (phones => phones')
  BY <1>0 DEF note_auth_options, AuthOK
<1>5. CASE load_auth_options
  BY <1>1, <1>3, <1>4, <1>5 DEF load_auth_options, Deliver, Stages, Within
<1>6. ASSUME NEW r \in Routes, Delivery(r), r = "sms" => phones, r = "device" => ~phones
      PROVE  Judged'
  <2>1. /\ sentOn' = sentOn \cup {r} /\ route' = r /\ (Opened' <=> Opened)
        /\ live' \ unseen' \subseteq (live \ unseen) \cup {r}
        /\ op'.stage = "none" /\ blamed' = FALSE
    BY <1>2, <1>3, <1>6 DEF Delivery, mark_sent
  <2>2. phones => phones'
    BY <1>4, <1>6 DEF Delivery
  <2> QED
    BY <1>6, <2>1, <2>2 DEF Routes
<1>7. CASE request_sms_code \/ PushCode
  BY <1>6, <1>7 DEF request_sms_code, PushCode, Routes
<1>8. CASE RequestFails
  <2>1. (Opened' <=> Opened) /\ live' \ unseen' \subseteq live \ unseen
    BY <1>3, <1>8 DEF RequestFails, Unanswered, LostOn, Honoured
  <2>2. phones => phones'
    BY <1>4, <1>8 DEF RequestFails
  <2> QED
    BY <1>2, <1>8, <2>1, <2>2 DEF RequestFails
<1>9. CASE PostAccepted
  BY <1>1, <1>3, <1>9 DEF PostAccepted, Stages, Within
<1>10. CASE PostRefused
  <2>1. /\ live' = live /\ unseen' = unseen /\ sentOn' = sentOn /\ route' = route
        /\ headers = "challenge" => headers' = "challenge"
        /\ Opened' <=> Opened
        /\ phones => phones'
    BY <1>3, <1>4, <1>10 DEF PostRefused
  <2>2. typed = "seen" => /\ op.now = "sms" /\ op.todo # {}
                           /\ \E r \in op.todo : Accepts(op.code, r)
    BY <1>10 DEF PostRefused
  <2>3. CASE EndCall(TRUE) /\ typed # "seen"
    BY <1>2, <2>1, <2>3
  <2>4. ASSUME NEW r \in op.todo, op' = [op EXCEPT !.now = r, !.todo = @ \ {r}], Within
        PROVE  Judged'
    <3>1. /\ op'.stage = "verify" /\ op'.now = r /\ op'.todo = op.todo \ {r}
          /\ op'.code = op.code
      BY <1>0, <1>10, <2>4 DEF CallOK, Op, PostRefused
    <3>2. typed' = typed /\ blamed' = blamed /\ apple' = apple
      BY <2>4 DEF Within
    <3>3. ASSUME typed = "seen"
          PROVE  Accepts(op.code, r)'
      <4>1. PICK s \in op.todo : Accepts(op.code, s)
        BY <2>2, <3>3
      <4>2. op.todo \subseteq Routes /\ op.now = "sms" /\ op.now \notin op.todo
        BY <1>0, <1>10, <2>2, <3>3 DEF PostRefused, CallOK, Op
      <4>3. s = r
        BY <2>4, <4>1, <4>2 DEF Routes
      <4> QED
        BY <2>1, <3>1, <3>2, <4>1, <4>3 DEF Accepts, Honoured
    <3> QED
      BY <2>1, <3>1, <3>2, <3>3
  <2> QED
    BY <1>10, <2>2, <2>3, <2>4 DEF PostRefused
<1>11. CASE Trust
  BY <1>1, <1>3, <1>11 DEF Trust, Stages, Within
<1>12. CASE SubmitFails
  BY <1>2, <1>12 DEF SubmitFails, authVars
<1>13. CASE Confirm
  <2>1. live' = {}
    BY <1>13 DEF Confirm, Keeping, Voided
  <2> QED
    BY <1>2, <1>3, <1>13, <2>1 DEF Confirm
<1> QED
  BY <1>5, <1>7, <1>8, <1>9, <1>10, <1>11, <1>12, <1>13 DEF CodeStep

(* Restores and crashes call no code wrong. *)
LEMMA OtherJudged ==
  ASSUME TypeOK, Keeping, Judged, StartStep \/ recover_session \/ Crash \/ UNCHANGED vars
  PROVE  Judged'
<1>0. CallOK /\ AuthOK
  BY TypeParts
<1> USE DEF Judged, Opened, Asked, Pushed, NotNow, Reached, SeenCodeSignsIn
<1>1. CASE StartRestore
  <2>1. /\ op'.stage \in {"none", "resume", "handshake"} /\ headers' \in {headers, "none"}
    BY <1>1, RestoreFields, NoOpFields DEF StartRestore, Free
  <2> QED
    BY <1>1, <2>1 DEF StartRestore, history
<1>2. CASE StartCheck
  BY <1>2, NoOpFields DEF StartCheck, authVars, history, Free
<1>3. CASE recover_session
  <2>1. /\ op'.stage \in {"none", "resume", "handshake"} /\ headers' \in {headers, "none"}
    BY <1>3, RestoreFields, NoOpFields DEF recover_session, Free
  <2> QED
    BY <1>3, <2>1 DEF recover_session, history
<1>4. CASE Crash
  BY <1>4, NoOpFields DEF Crash, Boot, NewAuth
<1>5. CASE UNCHANGED vars
  BY <1>5 DEF vars, authVars, history, Accepts, Honoured
<1> QED
  BY <1>1, <1>2, <1>3, <1>4, <1>5 DEF StartStep

(* A code that Apple would accept is never called wrong, if the client has   *)
(* recorded that it went out, whatever other codes are in the user's hands.  *)
THEOREM SeenCodesSignIn == Spec => []SeenCodeSignsIn
<1>1. Init => Judged
  BY NoOpFields DEF Init, Judged, Opened, Asked, Pushed, NotNow, Reached, SeenCodeSignsIn
<1>2. TypeOK /\ Keeping /\ Judged /\ [Next]_vars => Judged'
  BY UserJudged, SignInJudged, CodeJudged, OtherJudged DEF Next, Running
<1>3. Judged => SeenCodeSignsIn
  BY DEF Judged
<1> QED
  BY <1>1, <1>2, <1>3, SessionIsTyped, KeepingAlways, PTL DEF Spec

=============================================================================
