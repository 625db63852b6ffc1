----------------------------------- MODULE Forms -----------------------------------
(***************************************************************************)
(* Forms: the guard against losing what was typed, shared by all of them,  *)
(* and the forms of the registration and of the change of a password.      *)
(***************************************************************************)
EXTENDS Requests

(***************************************************************************)
(* What protects the input of a form: the question before a move that      *)
(* would lose it (useUnsavedGuard), the submission that runs once and tells *)
(* when it is slow (useSlowNotice), and the mark that a logout was asked   *)
(* for (logoutIntent), which a move stopped by the question leaves behind.  *)
(***************************************************************************)
CONSTANT MaxEdits  \* bound on the edits of one visit of the form

FormGuardAssumption == MaxEdits \in Nat

FormPaths == {"form", "other", "logout"}
NoMove == "none"

VARIABLES
  where,        \* pathname
  edits,        \* the version of the input: how often it was edited
  cleanAt,      \* cleanVersion plus one, 0 for null
  skip,         \* skipOnceRef
  skipHere,     \* skipLocationKeyRef is the key of the present location
  expiry,       \* the timer that takes the skip back is running
  blocked,      \* where the move that was stopped leads to
  sending,      \* the submission: busy and in flight
  clock,        \* the timer of the slow notice is running
  slow,
  intended,     \* the logout mark
  markedAt,     \* history: the page the mark was set on
  unsaved       \* history: an edit was not saved yet

guardVars == <<where, edits, cleanAt, skip, skipHere, expiry, blocked, sending, clock, slow, intended, markedAt, unsaved>>

effectiveDirty == edits > 0 /\ cleanAt # edits + 1

FormGuardTypeOK ==
  /\ where \in FormPaths /\ edits \in 0..MaxEdits /\ cleanAt \in 0..edits + 1
  /\ skip \in BOOLEAN /\ skipHere \in BOOLEAN /\ expiry \in BOOLEAN /\ (skip => expiry \/ where # "form")
  /\ blocked \in FormPaths \cup {NoMove} /\ (blocked # NoMove => where = "form")
  /\ sending \in BOOLEAN /\ clock \in BOOLEAN /\ slow \in BOOLEAN /\ (clock => sending)
  /\ intended \in BOOLEAN /\ markedAt \in FormPaths /\ unsaved \in BOOLEAN

FormGuardInit ==
  /\ where = "form" /\ edits = 0 /\ cleanAt = 0
  /\ skip = FALSE /\ skipHere = FALSE /\ expiry = FALSE /\ blocked = NoMove
  /\ sending = FALSE /\ clock = FALSE /\ slow = FALSE
  /\ intended = FALSE /\ markedAt = "form" /\ unsaved = FALSE

-----------------------------------------------------------------------------
(* The guard *)

shouldBlockNavigation(next) == ~skip /\ effectiveDirty /\ where # next

\* The effect of a new version: an edit after markClean takes the skip back.
MutSkipSurvivesEdit(version) == UNCHANGED <<skip, skipHere>>
ExpireOnEdit(version) ==
  IF skip /\ cleanAt # 0 /\ cleanAt # version + 1 THEN skip' = FALSE /\ skipHere' = FALSE ELSE UNCHANGED <<skip, skipHere>>

EditInput ==
  /\ where = "form" /\ blocked = NoMove /\ ~sending /\ edits < MaxEdits
  /\ edits' = edits + 1 /\ unsaved' = TRUE
  /\ ExpireOnEdit(edits + 1)
  /\ UNCHANGED <<where, cleanAt, expiry, blocked, sending, clock, slow, intended, markedAt>>

\* The third way the skip ends: nothing moved in the task of markClean.
SkipExpires ==
  /\ expiry /\ expiry' = FALSE
  /\ skip' = FALSE /\ skipHere' = FALSE
  /\ UNCHANGED <<where, edits, cleanAt, blocked, sending, clock, slow, intended, markedAt, unsaved>>

\* The hook of a page that is left: its timers stop, its refs are gone.
LeavePageHooks == edits' = 0 /\ cleanAt' = 0 /\ skip' = FALSE /\ skipHere' = FALSE /\ expiry' = FALSE /\ blocked' = NoMove
                  /\ sending' = FALSE /\ clock' = FALSE /\ slow' = FALSE /\ unsaved' = FALSE

\* AppRouter draws a page that is not the logout: the mark goes.
clearLogoutIntent(next, mark) == intended' = (mark /\ next = "logout")

Arrive(next, mark) == where' = next /\ LeavePageHooks /\ clearLogoutIntent(next, mark)

\* A move: stopped, to the same page (only the query changes), or through.
Go(next, mark) ==
  IF shouldBlockNavigation(next)
    THEN /\ blocked' = next /\ intended' = mark
         /\ UNCHANGED <<where, edits, cleanAt, skip, skipHere, expiry, sending, clock, slow, unsaved>>
  ELSE IF next = where
    THEN /\ skip' = FALSE /\ skipHere' = FALSE /\ intended' = mark
         /\ UNCHANGED <<where, edits, cleanAt, expiry, blocked, sending, clock, slow, unsaved>>
    ELSE Arrive(next, mark)

Navigate(next) == where # "logout" /\ Go(next, intended) /\ UNCHANGED markedAt

stay ==
  /\ blocked # NoMove /\ blocked' = NoMove
  /\ UNCHANGED <<where, edits, cleanAt, skip, skipHere, expiry, sending, clock, slow, intended, markedAt, unsaved>>

leave ==
  /\ blocked # NoMove /\ Arrive(blocked, intended) /\ UNCHANGED markedAt

-----------------------------------------------------------------------------
(* The submission *)

\* useSlowNotice.run: a second call while one runs does nothing.
run ==
  /\ where = "form" /\ blocked = NoMove /\ ~sending
  /\ sending' = TRUE /\ clock' = TRUE /\ slow' = FALSE
  /\ UNCHANGED <<where, edits, cleanAt, skip, skipHere, expiry, blocked, intended, markedAt, unsaved>>

FiveSecondsPass ==
  /\ clock /\ clock' = FALSE /\ slow' = TRUE
  /\ UNCHANGED <<where, edits, cleanAt, skip, skipHere, expiry, blocked, sending, intended, markedAt, unsaved>>

finish == sending' = FALSE /\ clock' = FALSE /\ slow' = FALSE

\* The answer of a page that was left meanwhile has nothing to tell (sending is
\* FALSE then).  A refusal leaves the input as it is.
Refused ==
  /\ sending /\ finish
  /\ UNCHANGED <<where, edits, cleanAt, skip, skipHere, expiry, blocked, intended, markedAt, unsaved>>

\* The save was answered: the form may now move on in the same task.
markClean ==
  /\ sending
  /\ finish
  /\ cleanAt' = edits + 1 /\ skip' = TRUE /\ skipHere' = TRUE /\ expiry' = TRUE /\ unsaved' = FALSE
  /\ UNCHANGED <<where, edits, blocked, intended, markedAt>>

-----------------------------------------------------------------------------
(* Logging out *)

\* The item of the user menu sets the mark before it moves.
LogoutItem ==
  /\ where # "logout" /\ Go("logout", TRUE)
  /\ markedAt' = where

\* LogoutPage: with the mark it logs out, and the login page follows; without it
\* goes home.  Either way it consumes the mark.
LogoutPage ==
  /\ where = "logout"
  /\ where' = "other" /\ intended' = FALSE
  /\ UNCHANGED <<edits, cleanAt, skip, skipHere, expiry, blocked, sending, clock, slow, markedAt, unsaved>>

FormGuardNext ==
  \/ EditInput \/ SkipExpires \/ stay \/ leave \/ run \/ FiveSecondsPass \/ Refused \/ markClean
  \/ LogoutItem \/ LogoutPage
  \/ \E next \in FormPaths : Navigate(next)

-----------------------------------------------------------------------------
\* Input that was not saved is lost only by a move the user was asked about, also
\* when a save was answered a moment before and the form has not moved on.
NoSilentLossStep ==
  unsaved /\ where' # "form" => blocked # NoMove
NoSilentLoss == [][NoSilentLossStep]_guardVars

\* The slow notice speaks of the submission that is in flight.
SlowMeansSending == slow => sending

\* A logout that was stopped and given up is not carried out from another page.
MarkIsRecent == intended => where \in {markedAt, "logout"}

-----------------------------------------------------------------------------
(***************************************************************************)
(* Two forms that are sent once: the registration behind an invitation     *)
(* link (useRegistration) and the change of the own password                *)
(* (usePasswordChangeForm).  The registration page is public: it may be    *)
(* opened while a session is there, which may end and come back under it.  *)
(***************************************************************************)
VARIABLES
  link,        \* the invitation on the server: "open", "used" or "ended"
  session,     \* a session is there
  reg,         \* the registration page
  verifyReqs,  \* its verifications; version 1: the link was open
  completion,  \* its submission
  handoff,     \* the address handed to the login page
  keptInBrowser, \* the display settings of the form were stored
  pwd,         \* the password form
  pwdReqs      \* its submissions; version 1: changed

setupVars == <<link, session, reg, verifyReqs, completion, handoff, keptInBrowser, pwd, pwdReqs>>

NoReg == [phase |-> "gone", token |-> FALSE, typed |-> FALSE, attempt |-> 0]
NoCompletion == [stage |-> "none", result |-> "none"]
NoPwd == [phase |-> "gone", typed |-> FALSE]

RegPhases == {"gone", "loggedIn", "loggingOut", "verifying", "loadFailed", "unavailable", "ready", "submitting", "completed"}

\* While the page waits for the end of the session, that end shows as verifying.
WaitsForLogout(phase) == phase \in {"loggedIn", "loggingOut"}
Phase(r, s) == IF WaitsForLogout(r.phase) /\ ~s THEN "verifying" ELSE r.phase

SetupTypeOK ==
  /\ link \in {"open", "used", "ended"} /\ session \in BOOLEAN
  /\ reg \in [phase : RegPhases, token : BOOLEAN, typed : BOOLEAN, attempt : 0..1]
  /\ verifyReqs \subseteq RequestsAbout({"verify"})
  /\ (Phase(reg, session) = "verifying") = Wanted(verifyReqs)
  /\ completion \in [stage : {"none", "sent", "served"}, result : {"none", "done", "unavailable", "invalid"}]
  /\ (reg.phase = "submitting") = (completion.stage # "none")
  /\ (reg.phase \in {"gone", "completed"} => ~reg.token) /\ (reg.typed => reg.phase \in {"ready", "submitting"})
  /\ handoff \in BOOLEAN /\ keptInBrowser \in BOOLEAN
  /\ pwd \in [phase : {"gone", "idle", "sending"}, typed : BOOLEAN]
  /\ pwdReqs \subseteq RequestsAbout({"password"}) /\ (pwd.phase = "sending") = Wanted(pwdReqs)

SetupInit ==
  /\ link \in {"open", "ended"} /\ session \in BOOLEAN
  /\ reg = NoReg /\ verifyReqs = {} /\ completion = NoCompletion /\ handoff = FALSE /\ keptInBrowser = FALSE
  /\ pwd = NoPwd /\ pwdReqs = {}

regVars == <<reg, verifyReqs, completion, handoff, keptInBrowser>>
pwdVars == <<pwd, pwdReqs>>

-----------------------------------------------------------------------------
(* Registration *)

\* The verification is an effect of the phase: it starts when the phase becomes
\* verifying (or the attempt counts up), and is not wanted once the phase leaves.
Verifies(r, s) ==
  IF Phase(r, s) = "verifying" THEN verifyReqs' = Asked(verifyReqs, "verify") ELSE verifyReqs' = Dropped(verifyReqs)

\* The page opens with the token of the fragment, or without a usable one.
readRegistrationToken(found) ==
  [NoReg EXCEPT !.phase = IF ~found THEN "unavailable" ELSE IF session THEN "loggedIn" ELSE "verifying", !.token = found]
OpenRegistration(found) ==
  /\ reg.phase = "gone" /\ MayAsk(verifyReqs)
  /\ reg' = readRegistrationToken(found) /\ Verifies(reg', session)
  /\ UNCHANGED <<link, session, completion, handoff, keptInBrowser, pwdVars>>

\* An answer of the completion finds no page any more (mounted).
LeaveRegistration ==
  /\ reg.phase # "gone"
  /\ reg' = NoReg /\ verifyReqs' = Dropped(verifyReqs) /\ completion' = NoCompletion
  /\ UNCHANGED <<link, session, handoff, keptInBrowser, pwdVars>>

logoutAndContinue ==
  /\ reg.phase = "loggedIn" /\ session
  /\ reg' = [reg EXCEPT !.phase = "loggingOut"]
  /\ UNCHANGED <<link, session, verifyReqs, completion, handoff, keptInBrowser, pwdVars>>

\* The session ends (by the logout or by itself), or an exchange brings it back.
SessionFlips ==
  /\ session \/ MayAsk(verifyReqs)
  /\ session' = ~session
  /\ IF WaitsForLogout(reg.phase) THEN Verifies(reg, ~session) ELSE UNCHANGED verifyReqs
  /\ pwd' = NoPwd /\ pwdReqs' = Dropped(pwdReqs)
  /\ UNCHANGED <<link, reg, completion, handoff, keptInBrowser>>

ServeVerify(q) ==
  /\ q \in verifyReqs /\ q.stage = "sent"
  /\ verifyReqs' = ServedAt(verifyReqs, q, IF link = "open" THEN 1 ELSE 0)
  /\ UNCHANGED <<link, session, reg, completion, handoff, keptInBrowser, pwdVars>>

\* verifyFailureKind: the link is of no use, or it could not be told.
verifyFailureKind(q, ok) == IF ok /\ q.version = 0 THEN "unavailable" ELSE "loadFailed"

VerifyAnswered(q, ok) ==
  /\ q \in verifyReqs /\ Arrives(q, ok)
  /\ IF ~q.mine THEN verifyReqs' = verifyReqs \ {q} /\ UNCHANGED reg
     ELSE /\ verifyReqs' = Dropped(verifyReqs \ {q})
          /\ reg' = IF ok /\ q.version = 1 THEN [reg EXCEPT !.phase = "ready", !.typed = FALSE]
                    ELSE [reg EXCEPT !.phase = verifyFailureKind(q, ok)]
  /\ UNCHANGED <<link, session, completion, handoff, keptInBrowser, pwdVars>>

reloadRegistration ==
  /\ reg.phase = "loadFailed" /\ reg.attempt = 0 /\ MayAsk(verifyReqs)
  /\ reg' = [reg EXCEPT !.phase = "verifying", !.attempt = 1]
  /\ verifyReqs' = Asked(verifyReqs, "verify")
  /\ UNCHANGED <<link, session, completion, handoff, keptInBrowser, pwdVars>>

updateValues ==
  /\ reg.phase = "ready" /\ reg' = [reg EXCEPT !.typed = TRUE]
  /\ UNCHANGED <<link, session, verifyReqs, completion, handoff, keptInBrowser, pwdVars>>

\* checkRegistrationForm passed: the values of this moment are sent.
submitRegistration ==
  /\ reg.phase = "ready" /\ reg.typed
  /\ reg' = [reg EXCEPT !.phase = "submitting"] /\ completion' = [NoCompletion EXCEPT !.stage = "sent"]
  /\ UNCHANGED <<link, session, verifyReqs, handoff, keptInBrowser, pwdVars>>

ServeCompletion ==
  /\ completion.stage = "sent"
  /\ \/ /\ link = "open" /\ link' = "used"
        /\ completion' = [stage |-> "served", result |-> "done"]
     \/ link # "open" /\ completion' = [stage |-> "served", result |-> "unavailable"] /\ UNCHANGED link
     \/ link = "open" /\ completion' = [stage |-> "served", result |-> "invalid"] /\ UNCHANGED link
  /\ UNCHANGED <<session, reg, verifyReqs, handoff, keptInBrowser, pwdVars>>

\* In this order: the settings stay in the browser, the address goes to the login
\* page, and the page is replaced.
Registered ==
  /\ completion = [stage |-> "served", result |-> "done"] /\ completion' = NoCompletion
  /\ keptInBrowser' = TRUE /\ handoff' = TRUE
  /\ reg' = [NoReg EXCEPT !.phase = "completed"]
  /\ UNCHANGED <<link, session, verifyReqs, pwdVars>>

completeFailureKind(lost) == IF ~lost /\ completion.result = "unavailable" THEN "unavailable" ELSE "ready"
AfterFailure(lost) ==
  IF completeFailureKind(lost) = "unavailable" THEN [NoReg EXCEPT !.phase = "unavailable"] ELSE [reg EXCEPT !.phase = "ready"]

\* Refused, or the answer was lost: whatever was typed stays for another try.
RegistrationFailed(lost) ==
  /\ completion.stage = "served" \/ (lost /\ completion.stage = "sent")
  /\ lost \/ completion.result # "done"
  /\ completion' = NoCompletion
  /\ reg' = AfterFailure(lost)
  /\ UNCHANGED <<link, session, verifyReqs, handoff, keptInBrowser, pwdVars>>

\* Ended by an administrator, by its time, or by a newer invitation.
LinkEnds ==
  /\ link = "open" /\ link' = "ended"
  /\ UNCHANGED <<session, regVars, pwdVars>>

\* LoginForm takes the address once it is drawn.
clearLoginHandoff ==
  /\ handoff /\ handoff' = FALSE
  /\ UNCHANGED <<link, session, reg, verifyReqs, completion, keptInBrowser, pwdVars>>

-----------------------------------------------------------------------------
(* The password *)

OpenPassword ==
  /\ session /\ reg.phase = "gone" /\ pwd.phase = "gone" /\ pwd' = [phase |-> "idle", typed |-> FALSE]
  /\ UNCHANGED <<link, session, regVars, pwdReqs>>

LeavePassword ==
  /\ pwd.phase # "gone" /\ pwd' = NoPwd /\ pwdReqs' = Dropped(pwdReqs)
  /\ UNCHANGED <<link, session, regVars>>

setField ==
  /\ pwd.phase = "idle" /\ pwd' = [pwd EXCEPT !.typed = TRUE]
  /\ UNCHANGED <<link, session, regVars, pwdReqs>>

submitPassword ==
  /\ pwd.phase = "idle" /\ pwd.typed /\ MayAsk(pwdReqs)
  /\ pwd' = [pwd EXCEPT !.phase = "sending"] /\ pwdReqs' = Asked(pwdReqs, "password")
  /\ UNCHANGED <<link, session, regVars>>

ServePassword(q) ==
  /\ q \in pwdReqs /\ q.stage = "sent" /\ \E changed \in {0, 1} : pwdReqs' = ServedAt(pwdReqs, q, changed)
  /\ UNCHANGED <<link, session, regVars, pwd>>

\* What was typed goes with the success and stays with a failure.
PasswordAnswered(q, ok) ==
  /\ q \in pwdReqs /\ Arrives(q, ok) /\ pwdReqs' = pwdReqs \ {q}
  /\ pwd' = IF ~q.mine THEN pwd ELSE [phase |-> "idle", typed |-> ~(ok /\ q.version = 1)]
  /\ UNCHANGED <<link, session, regVars>>

SetupNext ==
  \/ LeaveRegistration \/ logoutAndContinue \/ SessionFlips \/ reloadRegistration \/ updateValues
  \/ submitRegistration \/ ServeCompletion \/ Registered \/ LinkEnds \/ clearLoginHandoff
  \/ OpenPassword \/ LeavePassword \/ setField \/ submitPassword
  \/ \E b \in BOOLEAN : OpenRegistration(b) \/ RegistrationFailed(b)
  \/ \E q \in verifyReqs : ServeVerify(q) \/ \E ok \in BOOLEAN : VerifyAnswered(q, ok)
  \/ \E q \in pwdReqs : ServePassword(q) \/ \E ok \in BOOLEAN : PasswordAnswered(q, ok)

-----------------------------------------------------------------------------
\* What was typed is lost only with its page, by success, or with the link: not by
\* the late answer of a verification or of a password change of an earlier visit.
TypedSurvivesStep ==
  /\ reg.typed /\ ~reg'.typed => (reg.phase = "submitting" \/ reg'.phase = "gone")
  /\ pwd.typed /\ pwd'.phase = "idle" /\ ~pwd'.typed => Wanted(pwdReqs)
TypedSurvives == [][TypedSurvivesStep]_setupVars

\* The login page is told of a registration, and the browser keeps its settings,
\* only when the link was used by it: never after a lost or refused answer.
HandoffMeansRegistered == handoff \/ reg.phase = "completed" => link = "used" /\ keptInBrowser
=============================================================================
