---------------------------- MODULE AuthSession ----------------------------
(***************************************************************************)
(* The session of the Rust backend: auth.rs (sign-in, two-factor codes,    *)
(* the resumed session) under icloud.rs (connect, restore, sign-out), and  *)
(* the three parties that drive it: the user's calls (server.rs), the      *)
(* restore at start-up with its retries (start), and the synchronisation   *)
(* that restores a refused session (recover_session of sync.rs).           *)
(*                                                                         *)
(* Whoever drives the client holds its lock until the call returns, so one *)
(* call runs at a time; each request to Apple is an action.  Apple is      *)
(* external: it answers a request in any way the code tells apart.         *)
(* Passwords, tokens, numbers and codes are what Apple thinks of them.     *)
(***************************************************************************)
EXTENDS Naturals, FiniteSets

CONSTANTS
  Accounts,    \* Apple IDs the user signs in with
  NoAccount,   \* no Apple ID is known yet
  MaxRetries,  \* length of RESTORE_BACKOFF_SECONDS
  Lossy,       \* replies of Apple can be lost on the way back
  Unasked,     \* Apple may show a code on the user's devices before it is asked
  Apples       \* what Apple may know of an account: has it a phone number to text
               \* to, and has its device prompt moved to the bridge

ASSUME AccountsAssumption == NoAccount \notin Accounts /\ MaxRetries \in Nat
ASSUME AppleAssumption ==
  /\ Lossy \in BOOLEAN /\ Unasked \in BOOLEAN
  /\ Apples \subseteq [phone : BOOLEAN, bridge : BOOLEAN]

VARIABLES
  (* AuthClient.  web is the verdict of the last accountLogin: trusted_session, *)
  (* or requires_two_factor ("limited").  headers says whose scnt and session   *)
  (* id would be sent: those of the open challenge, of another session, ones    *)
  (* that Apple has since rotated, or none.                                     *)
  token, web, headers, route, phones, sentOn, optionsLoaded,
  (* ICloudClient. *)
  account, connected, pending, restoring, failure,
  (* Credential Manager, and meta apple_id. *)
  vault, lastAccount,
  (* The call that holds the client. *)
  op,
  (* The task of start. *)
  start, retries,
  (* Apple: the user's other devices, and the codes it would accept. *)
  apple, live,
  (* History: the live codes whose delivery the client has not recorded, the   *)
  (* code last typed (one that Apple would accept, "unseen" by the client or   *)
  (* not, or a "bad" one), whether the last call put the blame on it, and      *)
  (* whether the user has signed out.                                          *)
  unseen, typed, blamed, signedOut

authVars   == <<token, web, headers, route, phones, sentOn, optionsLoaded>>
clientVars == <<account, connected, pending, restoring, failure>>
storeVars  == <<vault, lastAccount>>
startVars  == <<start, retries>>
history    == <<unseen, typed, blamed, signedOut>>
vars == <<authVars, clientVars, storeVars, op, startVars, apple, live, history>>

Routes == {"device", "sms"}
Codes  == Routes \cup {"wrong"}   \* a code is where it was sent, or mistyped

Op == [by : {"user", "start", "sync"}, kind : {"none", "login", "restore", "ask", "submit"},
       stage : {"none", "resume", "handshake", "complete", "account", "options",
                "limited", "load", "text", "push", "verify", "trust", "confirm"},
       right : BOOLEAN, remember : BOOLEAN, sms : BOOLEAN,
       code : Codes, now : Routes, todo : SUBSET Routes]
NoOp == [by |-> "user", kind |-> "none", stage |-> "none", right |-> FALSE,
         remember |-> FALSE, sms |-> FALSE, code |-> "wrong", now |-> "device", todo |-> {}]

TypeOK ==
  /\ token \in BOOLEAN /\ web \in {"none", "limited", "full"}
  /\ headers \in {"none", "other", "challenge", "stale"}
  /\ route \in Routes \cup {"unknown"} /\ sentOn \subseteq Routes
  /\ phones \in BOOLEAN /\ optionsLoaded \in BOOLEAN
  /\ account \in Accounts \cup {NoAccount} /\ lastAccount \in Accounts \cup {NoAccount}
  /\ connected \in BOOLEAN /\ pending \in BOOLEAN /\ restoring \in BOOLEAN
  /\ failure \in {"none", "retryable", "final"}
  /\ vault \in [Accounts -> [password : BOOLEAN, session : BOOLEAN]]
  /\ op \in Op
  /\ start \in {"off", "try", "check", "wait"} /\ retries \in 0..MaxRetries
  /\ apple \in Apples /\ live \subseteq Routes /\ unseen \subseteq live
  /\ typed \in {"bad", "seen", "unseen"} /\ blamed \in BOOLEAN /\ signedOut \in BOOLEAN

Connected == connected /\ ~pending
Free == op = NoOp
At(stage) == op.stage = stage
To(stage) == op' = [op EXCEPT !.stage = stage]
HasPassword == account \in Accounts /\ vault[account].password

(* AuthClient::new: what a client is before its first request. *)
NewAuth(hasSession) ==
  /\ token' = hasSession /\ web' = "none" /\ headers' = IF hasSession THEN "other" ELSE "none"
  /\ route' = "unknown" /\ phones' = FALSE /\ sentOn' = {} /\ optionsLoaded' = FALSE

(* Server::new and start, on what the credential vault holds for the last   *)
(* Apple ID.  A challenge does not survive the process that opened it.      *)
Boot(a, v) ==
  /\ NewAuth(a \in Accounts /\ v[a].session)
  /\ account' = a /\ connected' = FALSE /\ pending' = FALSE
  /\ restoring' = (a # NoAccount) /\ failure' = "none"
  /\ op' = NoOp
  /\ start' = IF a = NoAccount THEN "off" ELSE "try"
  /\ retries' = (IF a = NoAccount THEN 0 ELSE MaxRetries)
  /\ live' = {} /\ unseen' = {}

Init ==
  /\ lastAccount \in Accounts \cup {NoAccount}
  /\ vault \in [Accounts -> [password : BOOLEAN, session : BOOLEAN]]
  /\ lastAccount = NoAccount
       => vault = [a \in Accounts |-> [password |-> FALSE, session |-> FALSE]]
  /\ account = lastAccount
  /\ token = (account \in Accounts /\ vault[account].session)
  /\ web = "none" /\ headers = IF token THEN "other" ELSE "none"
  /\ route = "unknown" /\ phones = FALSE /\ sentOn = {} /\ optionsLoaded = FALSE
  /\ connected = FALSE /\ pending = FALSE /\ restoring = (account # NoAccount)
  /\ failure = "none" /\ op = NoOp
  /\ start = (IF account = NoAccount THEN "off" ELSE "try")
  /\ retries = (IF account = NoAccount THEN 0 ELSE MaxRetries)
  /\ apple \in Apples /\ live = {}
  /\ unseen = {} /\ typed = "bad" /\ blamed = FALSE /\ signedOut = FALSE

-----------------------------------------------------------------------------
(* How a call ends. *)

(* How much of a sign-in the credential vault takes: the password goes      *)
(* first, and a write that fails ends the call with the error.              *)
Saves == {"nothing", "password", "all"}

(* What connect makes of the outcome of sign_in; a restore saves the       *)
(* password it found again, and a saved session goes with either.          *)
Connect(outcome, verdict, saved) ==
  /\ pending' = CASE outcome = "ok" -> verdict = "limited"
                  [] outcome = "code_required" -> TRUE
                  [] OTHER -> pending
  /\ connected' = IF outcome = "ok" THEN verdict # "limited" ELSE connected
  /\ vault' = IF outcome \in {"ok", "code_required"}
              THEN [vault EXCEPT ![account] =
                      [password |-> @.password \/ (op.remember /\ saved # "nothing"),
                       session  |-> @.session \/ saved = "all"]]
              ELSE vault

(* The task of start ends, and its count of tries with it.                  *)
Settled == start' = "off" /\ retries' = 0

(* restore has nothing more to do.  The task of start looks at the failure *)
(* when it has the lock again.                                             *)
Settle(restored, outcome) ==
  /\ restoring' = FALSE
  /\ failure' = IF restored THEN "none"
                ELSE IF outcome = "network" /\ (token \/ HasPassword) THEN "retryable"
                ELSE "final"
  /\ IF op.by # "start" THEN UNCHANGED startVars
     ELSE IF restored THEN Settled ELSE start' = "check" /\ UNCHANGED retries

EndSignIn(outcome, verdict) ==
  /\ \E saved \in Saves :
       /\ Connect(outcome, verdict, saved)
       /\ IF op.kind = "restore"
          THEN Settle(outcome = "ok" /\ verdict # "limited" /\ saved = "all", outcome)
          ELSE UNCHANGED <<restoring, failure, startVars>>
  /\ op' = NoOp
  /\ UNCHANGED <<account, lastAccount, apple, typed, blamed, signedOut>>

EndCall(blame) ==
  /\ op' = NoOp /\ blamed' = blame /\ typed' = (IF blame THEN typed ELSE "bad")
  /\ UNCHANGED <<account, restoring, failure, lastAccount, startVars, apple, signedOut>>

(* While the call goes on. *)
Within == UNCHANGED <<clientVars, storeVars, startVars, apple, typed, blamed, signedOut>>

(* No code comes or goes, and Apple voids every one. *)
SameCodes == UNCHANGED <<live, unseen>>
VoidCodes == live' = {} /\ unseen' = {}

(* capture_headers: an answer brings the current session headers. *)
capture_headers == headers' = IF headers = "none" THEN "other"
                              ELSE IF headers = "stale" THEN "challenge" ELSE headers

(* A request for a code is answered by the challenge if its headers say so. *)
Honoured == headers = "challenge"

(* note_auth_options: phones once named stay known. *)
note_auth_options == phones' \in {phones, phones \/ apple.phone}

-----------------------------------------------------------------------------
(* Signing in. *)

(* login of server.rs.  The screen for it is shown while status() is not    *)
(* authenticated.  The Apple ID is saved first; another one than before     *)
(* gets a new AuthClient; sign_in then drops cookies and session headers.   *)
login(a, right, remember) ==
  /\ Free /\ ~Connected
  /\ lastAccount' = a /\ account' = a
  /\ IF a = account
     THEN /\ headers' = "none"
          /\ SameCodes
          /\ UNCHANGED <<token, web, route, phones, sentOn, optionsLoaded,
                         connected, pending>>
     ELSE NewAuth(FALSE) /\ connected' = FALSE /\ pending' = FALSE /\ VoidCodes
  /\ op' = [NoOp EXCEPT !.kind = "login", !.stage = "handshake", !.right = right,
                        !.remember = remember]
  /\ signedOut' = FALSE /\ typed' = "bad" /\ blamed' = FALSE
  /\ UNCHANGED <<restoring, failure, vault, startVars, apple>>

(* How a request of the sign-in may fail: classify_auth takes any 409 for a *)
(* demand for a code, also one that is not the answer to signin/complete.   *)
classify_auth == {"network", "refused", "code_required"}

(* authorize/signin and signin/init. *)
Handshake ==
  /\ At("handshake") /\ To("complete") /\ capture_headers
  /\ Within
  /\ UNCHANGED <<token, web, route, phones, sentOn, optionsLoaded>> /\ SameCodes

HandshakeFails ==
  /\ At("handshake") /\ capture_headers
  /\ \E outcome \in classify_auth : EndSignIn(outcome, web)
  /\ UNCHANGED <<token, web, route, phones, sentOn, optionsLoaded>> /\ SameCodes

(* signin/complete, trusted at once.  The exchange has voided every code.   *)
CompleteTrusted ==
  /\ At("complete") /\ op.right /\ To("account") /\ capture_headers
  /\ token' = TRUE /\ VoidCodes
  /\ Within /\ UNCHANGED <<web, route, phones, sentOn, optionsLoaded>>

(* signin/complete answers 409: a challenge is open, with its own options.  *)
CompleteChallenged ==
  /\ At("complete") /\ op.right /\ To("options")
  /\ token' = TRUE /\ headers' = "challenge"
  /\ live' \in IF Unasked THEN {{}, {"device"}} ELSE {{}}
  /\ unseen' = live'
  /\ phones' \in {FALSE, apple.phone}
  /\ route' \in IF phones' THEN {"unknown", "device"} ELSE {"device"}
  /\ sentOn' = {} /\ optionsLoaded' = FALSE
  /\ Within /\ UNCHANGED web

CompleteFails ==
  /\ At("complete")
  /\ \/ capture_headers /\ EndSignIn("refused", web)
     \/ UNCHANGED headers /\ EndSignIn("network", web)
  /\ SameCodes \/ VoidCodes
  /\ UNCHANGED <<token, web, route, phones, sentOn, optionsLoaded>>

(* account_login after a trusted sign-in; terms may have to be accepted.    *)
AccountLogin ==
  /\ At("account") /\ capture_headers
  /\ web' \in {"none", "limited", "full"}
  /\ \/ EndSignIn("ok", web')
     \/ EndSignIn("terms", web')
  /\ UNCHANGED <<token, route, phones, sentOn, optionsLoaded>> /\ SameCodes

AccountLoginFails ==
  /\ At("account") /\ capture_headers
  /\ \E outcome \in classify_auth : EndSignIn(outcome, web)
  /\ UNCHANGED <<token, web, route, phones, sentOn, optionsLoaded>> /\ SameCodes

(* prime_two_factor fetches the options and a limited web session; it       *)
(* swallows the failure of either, and asks for no code.                    *)
PrimeOptions ==
  /\ At("options") /\ To("limited")
  /\ \/ note_auth_options /\ optionsLoaded' = TRUE /\ capture_headers
     \/ UNCHANGED <<phones, optionsLoaded, headers>>
  /\ Within /\ SameCodes /\ UNCHANGED <<token, web, route, sentOn>>

PrimeAccount ==
  /\ At("limited") /\ web' \in {web, "limited"}
  /\ EndSignIn("code_required", web')
  /\ UNCHANGED <<token, headers, route, phones, sentOn, optionsLoaded>> /\ SameCodes

-----------------------------------------------------------------------------
(* Restoring a session without the user. *)

(* sign_in with the saved password: a fresh cookie jar, no session headers. *)
WithPassword(restore) == op' = [restore EXCEPT !.stage = "handshake"] /\ headers' = "none"

RestoreOp(by) == [NoOp EXCEPT !.by = by, !.kind = "restore", !.remember = TRUE,
                              !.stage = "resume"]

(* restore once it has found no session and no challenge.  The saved        *)
(* password may have been changed elsewhere.                                *)
BeginRestore(by) ==
  /\ restoring' = TRUE
  /\ \E right \in BOOLEAN :
       LET restore == [RestoreOp(by) EXCEPT !.right = right] IN
       IF token THEN op' = restore /\ UNCHANGED headers
       ELSE WithPassword(restore)

NothingToRestore == ~token /\ ~HasPassword

(* The task of start tries, and leaves alone what the user has begun.       *)
StartRestore ==
  /\ start \in {"try", "wait"} /\ Free
  /\ IF Connected
     THEN Settled /\ UNCHANGED <<headers, restoring, failure, op>>
     ELSE IF pending \/ NothingToRestore
     THEN /\ failure' = "final" /\ start' = "check" /\ UNCHANGED retries
          /\ restoring' = (pending /\ restoring)
          /\ UNCHANGED <<headers, op>>
     ELSE BeginRestore("start") /\ UNCHANGED <<startVars, failure>>
  /\ UNCHANGED <<token, web, route, phones, sentOn, optionsLoaded, account, connected,
                 pending, storeVars, apple, live, history>>

(* Mutant of StartCheck: it does not count its tries. *)
CheckForever ==
  /\ start = "check" /\ Free
  /\ IF failure = "retryable"
     THEN start' = "wait" /\ restoring' = TRUE /\ UNCHANGED retries
     ELSE Settled /\ UNCHANGED restoring
  /\ UNCHANGED <<authVars, account, connected, pending, failure, storeVars, op, apple,
                 live, history>>

(* Mutant of StartCheck: it counts past the end of the backoff. *)
CheckPastEnd ==
  /\ start = "check" /\ Free
  /\ IF failure = "retryable"
     THEN start' = "wait" /\ retries' = retries - 1 /\ restoring' = TRUE
     ELSE Settled /\ UNCHANGED restoring
  /\ UNCHANGED <<authVars, account, connected, pending, failure, storeVars, op, apple,
                 live, history>>

(* It takes the lock again, and waits if another try may help, still saying *)
(* "restoring".                                                             *)
StartCheck ==
  /\ start = "check" /\ Free
  /\ IF failure = "retryable" /\ retries > 0
     THEN start' = "wait" /\ retries' = retries - 1 /\ restoring' = TRUE
     ELSE Settled /\ UNCHANGED restoring
  /\ UNCHANGED <<authVars, account, connected, pending, failure, storeVars, op, apple,
                 live, history>>

(* Mutant of recover_session: it does not ask whether a code is awaited.    *)
recover_anyway ==
  /\ Free
  /\ connected' = FALSE /\ pending' = FALSE
  /\ IF NothingToRestore
     THEN failure' = "final" /\ restoring' = FALSE /\ UNCHANGED <<headers, op>>
     ELSE BeginRestore("sync") /\ UNCHANGED failure
  /\ UNCHANGED <<token, web, route, phones, sentOn, optionsLoaded, account, storeVars,
                 startVars, apple, live, history>>

(* A pass was refused.  It gives up the session and restores it, unless a   *)
(* code is awaited.                                                         *)
recover_session ==
  /\ Free /\ ~pending
  /\ connected' = FALSE /\ pending' = FALSE
  /\ IF NothingToRestore
     THEN failure' = "final" /\ restoring' = FALSE /\ UNCHANGED <<headers, op>>
     ELSE BeginRestore("sync") /\ UNCHANGED failure
  /\ UNCHANGED <<token, web, route, phones, sentOn, optionsLoaded, account, storeVars,
                 startVars, apple, live, history>>

(* resume_session: accountLogin with the saved token.  Only a refusal, or a *)
(* session that is no longer trusted, goes on to the password.  One that    *)
(* the vault does not take counts as not restored.                          *)
Resume ==
  /\ At("resume") /\ web' \in {"none", "full"}
  /\ \/ /\ connected' = TRUE /\ vault' = [vault EXCEPT ![account].session = TRUE]
        /\ Settle(TRUE, "ok")
     \/ UNCHANGED <<connected, vault>> /\ Settle(FALSE, "internal")
  /\ op' = NoOp /\ capture_headers
  /\ UNCHANGED <<token, route, phones, sentOn, optionsLoaded, account, pending, lastAccount,
                 apple, live, history>>

ResumeUntrusted ==
  /\ At("resume") /\ web' \in {web, "limited"}
  /\ IF HasPassword
     THEN WithPassword(op) /\ Within
     ELSE EndSignIn("refused", web') /\ capture_headers
  /\ UNCHANGED <<token, route, phones, sentOn, optionsLoaded>> /\ SameCodes

ResumeFails ==
  /\ At("resume")
  /\ \/ EndSignIn("network", web) /\ UNCHANGED <<web, headers>>
     \/ web' \in {"limited", "full"} /\ EndSignIn("terms", web') /\ capture_headers
  /\ UNCHANGED <<token, route, phones, sentOn, optionsLoaded>> /\ SameCodes

-----------------------------------------------------------------------------
(* Two-factor codes.  The code screen is shown while status() needs_2fa.    *)

Deliver(known, sms) == IF known \/ sms THEN "text" ELSE "push"

(* request_2fa of server.rs: sms is the user's choice of a text.            *)
request_2fa(sms) ==
  /\ Free /\ pending
  /\ op' = [NoOp EXCEPT !.kind = "ask", !.sms = sms,
                        !.stage = IF optionsLoaded THEN Deliver(phones, sms) ELSE "load"]
  /\ Within /\ SameCodes /\ UNCHANGED authVars

load_auth_options ==
  /\ At("load") /\ note_auth_options /\ optionsLoaded' = TRUE /\ capture_headers
  /\ To(Deliver(phones', op.sms))
  /\ Within /\ SameCodes /\ UNCHANGED <<token, web, route, sentOn>>

mark_sent(r) == route' = r /\ sentOn' = sentOn \cup {r}

(* A delivery request counts as sent unless Apple says 401, 403 or 421,     *)
(* whatever else it answers.  The notes it carries come in either way.      *)
Delivery(r) ==
  /\ IF Honoured THEN live' = live \cup {r} /\ unseen' = unseen \ {r} ELSE SameCodes
  /\ note_auth_options /\ capture_headers /\ mark_sent(r) /\ EndCall(FALSE)
  /\ UNCHANGED <<token, web, optionsLoaded, connected, pending, vault>>

request_sms_code == At("text") /\ phones /\ Delivery("sms")
PushCode         == At("push") /\ Delivery("device")

(* Where there is no answer, nothing was done, or the code is on its way    *)
(* under headers that its lost answer has rotated.                          *)
LostOn(r) == Lossy /\ Honoured /\ (IF r = "sms" THEN At("text") /\ phones ELSE At("push"))
Unanswered ==
  \/ SameCodes /\ UNCHANGED headers
  \/ \E r \in Routes : /\ LostOn(r) /\ headers' = "stale"
                       /\ live' = live \cup {r} /\ unseen' = unseen \cup ({r} \ live)

(* No number, no answer, or a sign-in that has expired.                     *)
RequestFails ==
  /\ op.stage \in {"load", "text", "push"}
  /\ EndCall(FALSE)
  /\ \/ Unanswered /\ UNCHANGED phones
     \/ At("text") /\ ~phones /\ SameCodes /\ UNCHANGED <<headers, phones>>
     \/ /\ op.stage # "load" /\ (At("text") => phones)
        /\ note_auth_options /\ capture_headers /\ SameCodes
  /\ UNCHANGED <<token, web, route, sentOn, optionsLoaded, connected, pending, vault>>

current_route == IF route = "unknown" THEN "device" ELSE route

(* Apple's verdict on the code at one endpoint. *)
Accepts(code, r) == /\ code = r /\ r \in live /\ Honoured
                    /\ r = "device" => ~apple.bridge

(* What is typed: a code that Apple would accept somewhere, or none such.   *)
Type(code) ==
  /\ blamed' = FALSE
  /\ typed' = IF \A r \in Routes : ~Accepts(code, r) THEN "bad"
              ELSE IF code \in unseen THEN "unseen" ELSE "seen"

(* Mutant of submit_2fa: only the current route is tried. *)
submit_once(code) ==
  /\ Free /\ pending /\ code \in live \cup {"wrong"}
  /\ op' = [NoOp EXCEPT !.kind = "submit", !.stage = "verify", !.code = code,
                        !.now = current_route, !.todo = {}]
  /\ Type(code)
  /\ UNCHANGED <<authVars, clientVars, storeVars, startVars, apple, live, unseen, signedOut>>

(* submit_2fa: the current route first, then each other that sent a code.   *)
submit_2fa(code) ==
  /\ Free /\ pending /\ code \in live \cup {"wrong"}
  /\ op' = [NoOp EXCEPT !.kind = "submit", !.stage = "verify", !.code = code,
                        !.now = current_route, !.todo = sentOn \ {current_route}]
  /\ Type(code)
  /\ UNCHANGED <<authVars, clientVars, storeVars, startVars, apple, live, unseen, signedOut>>

(* code_response_accepted: on to trust.                                     *)
PostAccepted ==
  /\ At("verify") /\ Accepts(op.code, op.now)
  /\ To("trust") /\ route' = op.now /\ VoidCodes /\ capture_headers
  /\ Within /\ UNCHANGED <<token, web, phones, sentOn, optionsLoaded>>

(* A refusal.  is_wrong_verifier: a 409 of the device endpoint ends it all; *)
(* otherwise the next route is tried, and the last one's verdict reported.  *)
PostRefused ==
  /\ At("verify") /\ ~Accepts(op.code, op.now)
  /\ note_auth_options /\ capture_headers
  /\ \E conflict \in BOOLEAN :
       /\ op.now = "device" /\ apple.bridge => conflict
       /\ IF op.now = "device" /\ conflict
          THEN EndCall(TRUE) /\ UNCHANGED <<connected, pending, vault>>
          ELSE IF op.todo = {}
          THEN EndCall(TRUE) /\ UNCHANGED <<connected, pending, vault>>
          ELSE /\ \E r \in op.todo : op' = [op EXCEPT !.now = r, !.todo = @ \ {r}]
               /\ Within
  /\ UNCHANGED <<token, web, route, sentOn, optionsLoaded>> /\ SameCodes

Trust ==
  /\ At("trust") /\ To("confirm") /\ capture_headers
  /\ Within /\ UNCHANGED <<token, web, route, phones, sentOn, optionsLoaded>> /\ SameCodes

(* Any request of submit_2fa can fail; what was accepted stays accepted.    *)
SubmitFails ==
  /\ op.stage \in {"verify", "trust", "confirm"}
  /\ EndCall(FALSE)
  /\ SameCodes /\ UNCHANGED <<authVars, connected, pending, vault>>

(* accountLogin once more: only a trusted session clears the challenge.     *)
(* The client is connected before the vault is asked to keep the session.   *)
Confirm ==
  /\ At("confirm") /\ web' \in {"none", "limited", "full"} /\ capture_headers
  /\ EndCall(FALSE)
  /\ IF web' = "full"
     THEN /\ pending' = FALSE /\ connected' = TRUE
          /\ vault' \in {vault, [vault EXCEPT ![account].session = TRUE]}
          /\ route' = "unknown" /\ sentOn' = {}
     ELSE UNCHANGED <<connected, pending, vault, route, sentOn>>
  /\ SameCodes /\ UNCHANGED <<token, phones, optionsLoaded>>

-----------------------------------------------------------------------------
(* sign_out: the vault is emptied, the client says it is not connected.     *)
(* Nobody will type the codes that are still good.                          *)
sign_out ==
  /\ Free /\ account # NoAccount
  /\ vault' = [vault EXCEPT ![account] = [password |-> FALSE, session |-> FALSE]]
  /\ connected' = FALSE /\ pending' = FALSE /\ VoidCodes
  /\ signedOut' = TRUE /\ blamed' = FALSE
  /\ UNCHANGED <<authVars, account, restoring, failure, lastAccount, op, startVars, apple,
                 typed>>

(* The vault gives up neither, or the password only: the call fails, and    *)
(* the client goes on as it was.                                            *)
SignOutFails ==
  /\ Free /\ account # NoAccount
  /\ vault' \in {vault, [vault EXCEPT ![account].password = FALSE]}
  /\ blamed' = FALSE
  /\ UNCHANGED <<authVars, clientVars, lastAccount, op, startVars, apple, live, unseen,
                 typed, signedOut>>

(* The process dies, whatever it is doing, and is started again.            *)
Crash ==
  /\ Boot(lastAccount, vault)
  /\ blamed' = FALSE /\ typed' = "bad"
  /\ UNCHANGED <<storeVars, apple, signedOut>>

UserNext ==
  \/ \E a \in Accounts, right, remember \in BOOLEAN : login(a, right, remember)
  \/ \E sms \in BOOLEAN : request_2fa(sms)
  \/ \E code \in Codes : submit_2fa(code)
  \/ sign_out \/ SignOutFails

SignInStep ==
  \/ Handshake \/ HandshakeFails \/ CompleteTrusted \/ CompleteChallenged \/ CompleteFails
  \/ AccountLogin \/ AccountLoginFails \/ PrimeOptions \/ PrimeAccount
  \/ Resume \/ ResumeUntrusted \/ ResumeFails

CodeStep ==
  \/ load_auth_options \/ request_sms_code \/ PushCode \/ RequestFails
  \/ PostAccepted \/ PostRefused \/ Trust \/ SubmitFails \/ Confirm

StartStep == StartRestore \/ StartCheck

Running == UserNext \/ SignInStep \/ CodeStep \/ StartStep \/ recover_session

Next == Running \/ Crash

Spec == Init /\ [][Next]_vars

(* Every request is answered or times out after a minute, the waits of the  *)
(* backoff end, and the lock is handed to those who wait for it in turn.  A *)
(* process that is killed again and again need not get anywhere.            *)
FairSpec == Init /\ [][Running]_vars /\ WF_vars(SignInStep) /\ WF_vars(CodeStep)
                 /\ SF_vars(StartRestore) /\ SF_vars(StartCheck)

-----------------------------------------------------------------------------
(* Properties. *)

(* "A background sync must not [void a challenge] while a code is in        *)
(* flight": a code the user may be typing, and the headers it is verified   *)
(* under, are given up by the user's own calls only, or with the process.   *)
BackgroundKeepsCode ==
  [][live # {} /\ headers = "challenge" /\ (~(live \subseteq live') \/ headers' # "challenge")
       => (op.by = "user" /\ op'.by = "user") \/ Crash]_vars

(* "the other route is tried before anyone is told their digits were wrong" *)
(* (submit_2fa): a code that Apple would accept is never called wrong, if   *)
(* the client has recorded that it went out.                                *)
SeenCodeSignsIn == blamed => typed # "seen"

(* The same of any code that Apple would accept, as the documents have it:  *)
(* not so of one that Apple showed unasked, or whose delivery answer is lost.*)
GoodCodeSignsIn == blamed => typed = "bad"

(* The restore at start-up comes to an end, however long Apple cannot be    *)
(* reached and whatever the user and the synchronisation do meanwhile.      *)
RestoreSettles == start # "off" ~> start = "off"
=============================================================================
