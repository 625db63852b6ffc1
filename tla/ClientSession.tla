---------------------------- MODULE ClientSession ----------------------------
(***************************************************************************)
(* The session of the browser: the access token held in memory             *)
(* (authSession), the one exchange of the refresh cookie that concurrent   *)
(* calls share (apiClient), the gate that shows the state of the session to*)
(* the screens (LoginStateGate), the login form and the logout page.       *)
(*                                                                         *)
(* Grant n is the n-th pair of an access token and a refresh cookie the    *)
(* server issued; 0 stands for no token, no cookie or a refusal.  A request*)
(* is sent, served and answered in steps of their own.                     *)
(***************************************************************************)
EXTENDS Naturals, Sequences

CONSTANTS
  Users,      \* who may log in
  Calls,      \* calls of the screens in flight at once
  MaxGrants,  \* bound: the server issues no more
  NoUser,     \* nobody is shown as logged in
  Unknown,    \* the gate has had no answer yet
  NoExchange

ASSUME SessionAssumption ==
  /\ NoUser \notin Users /\ Unknown \notin Users /\ NoUser # Unknown
  /\ {"restore", "forbidden"} \cap Calls = {}
  /\ NoExchange \notin Calls \cup {"restore", "forbidden"}
  /\ MaxGrants \in Nat \ {0}

Starters == Calls \cup {"restore", "forbidden"}   \* who may start an exchange
Grants == 1..MaxGrants
Paths == {"home", "login"}   \* home stands for every page that needs a login

VARIABLES
  issued,      \* issued[n]: the user of grant n
  rotated,     \* grants whose refresh token was exchanged
  ended,       \* grants ended by the server
  cookie,      \* the refresh cookie of the browser
  status, token,   \* the module state of authSession; user is issued[token]
  restoring,   \* "unset", "running" or "settled"
  exchange,    \* the exchange each starter has in flight
  pending,     \* pendingRefresh: the exchange a 401 joins
  call,
  form,        \* the login form waits for its answer
  leaving, leavingWith,  \* a logout is in flight, with the cookie it presents
  seen,        \* what the gate shows: Unknown, NoUser or a user
  path,
  remembered,  \* whose rows the screens keep in memory
  goodbye      \* history: a logout has finished and no login was sent since

serverVars == <<issued, rotated, ended>>
authVars == <<status, token, restoring>>
leaveVars == <<leaving, leavingWith>>
pageVars == <<form, seen, path, remembered>>
sessionVars == <<serverVars, cookie, authVars, exchange, pending, call, leaveVars, pageVars, goodbye>>

Idle == [stage |-> "idle", grant |-> 0]
Exchange(stage, n) == [stage |-> stage, grant |-> n]
NoCall == [stage |-> "idle", first |-> 0, second |-> 0]
UserOf(n) == IF n = 0 THEN NoUser ELSE issued[n]
Snapshot == IF status = "LoggedIn" THEN UserOf(token) ELSE NoUser

SessionTypeOK ==
  /\ issued \in Seq(Users) /\ Len(issued) <= MaxGrants
  /\ rotated \subseteq Grants /\ ended \subseteq Grants
  /\ cookie \in 0..Len(issued) /\ token \in 0..Len(issued)
  /\ status \in {"Restoring", "LoggedIn", "LoggedOut"} /\ (status = "LoggedIn") = (token # 0)
  /\ restoring \in {"unset", "running", "settled"}
  /\ exchange \in [Starters -> [stage : {"idle", "sent", "answered"}, grant : 0..Len(issued)]]
  /\ pending \in Starters \cup {NoExchange}
  /\ call \in [Calls -> [stage : {"idle", "sent", "waiting", "resent"},
                         first : 0..Len(issued), second : 0..Len(issued)]]
  /\ form \in BOOLEAN /\ leaving \in BOOLEAN /\ leavingWith \in 0..Len(issued)
  /\ seen \in Users \cup {Unknown, NoUser} /\ path \in Paths
  /\ remembered \in Users \cup {NoUser} /\ goodbye \in BOOLEAN

\* The page is opened with or without the cookie of an earlier session.
SessionInit ==
  /\ issued \in {<<>>} \cup {<<u>> : u \in Users}
  /\ rotated = {} /\ ended = {}
  /\ cookie = Len(issued)
  /\ status = "Restoring" /\ token = 0 /\ restoring = "unset"
  /\ exchange = [s \in Starters |-> Idle] /\ pending = NoExchange
  /\ call = [c \in Calls |-> NoCall]
  /\ form = FALSE /\ leaving = FALSE /\ leavingWith = 0
  /\ seen = Unknown /\ path \in {"home", "login"}
  /\ remembered = NoUser /\ goodbye = FALSE

-----------------------------------------------------------------------------
(* authSession *)

applyTokens(n) == status' = "LoggedIn" /\ token' = n
MutKeepsToken == status' = "LoggedOut" /\ UNCHANGED token
clear == status' = "LoggedOut" /\ token' = 0

\* getLoginState starts the first refresh; it does not go through pendingRefresh.
restore ==
  /\ restoring = "unset"
  /\ restoring' = "running"
  /\ exchange' = [exchange EXCEPT !["restore"] = Exchange("sent", cookie)]
  /\ UNCHANGED <<serverVars, cookie, status, token, pending, call, leaveVars, pageVars, goodbye>>

-----------------------------------------------------------------------------
(* The server: the exchange ends the presented grant and issues the next. *)

Issue(u) == issued' = Append(issued, u)

ServeExchange(s) ==
  /\ exchange[s].stage = "sent"
  /\ LET n == exchange[s].grant IN
     IF n # 0 /\ n \notin rotated \cup ended /\ Len(issued) < MaxGrants
       THEN /\ Issue(issued[n])
            /\ rotated' = rotated \cup {n}
            /\ exchange' = [exchange EXCEPT ![s] = Exchange("answered", Len(issued) + 1)]
       ELSE /\ exchange' = [exchange EXCEPT ![s] = Exchange("answered", 0)]
            /\ UNCHANGED <<issued, rotated>>
  /\ UNCHANGED <<ended, cookie, authVars, pending, call, leaveVars, pageVars, goodbye>>

-----------------------------------------------------------------------------
(* apiClient *)

\* pendingRefresh ??= handlers.refresh(): s starts an exchange unless one runs.
MutNotShared(s) == pending' = s /\ exchange' = [exchange EXCEPT ![s] = Exchange("sent", cookie)]
refreshOnce(s) ==
  IF pending = NoExchange
    THEN pending' = s /\ exchange' = [exchange EXCEPT ![s] = Exchange("sent", cookie)]
    ELSE UNCHANGED <<pending, exchange>>

\* A screen sends a call with the token of the moment; screens show only after
\* the gate has had its first answer.
apiFetch(c) ==
  /\ call[c].stage = "idle" /\ seen \in Users
  /\ call' = [call EXCEPT ![c] = [stage |-> "sent", first |-> token, second |-> 0]]
  /\ UNCHANGED <<serverVars, cookie, authVars, exchange, pending, leaveVars, pageVars, goodbye>>

\* An answer other than 401, or a failure of the network, ends the call.
CallEnds(c) ==
  /\ call[c].stage \in {"sent", "resent"}
  /\ call' = [call EXCEPT ![c] = NoCall]
  /\ UNCHANGED <<serverVars, cookie, authVars, exchange, pending, leaveVars, pageVars, goodbye>>

\* 401 / AUTHENTICATION_REQUIRED, which the server may answer to any token (it
\* expired, or its user was suspended): the first asks for an exchange, the
\* second ends the session.
CallRefused(c) ==
  /\ call[c].stage = "sent"
  /\ refreshOnce(c)
  /\ call' = [call EXCEPT ![c].stage = "waiting"]
  /\ UNCHANGED <<serverVars, cookie, authVars, leaveVars, pageVars, goodbye>>

CallRefusedAgain(c) ==
  /\ call[c].stage = "resent"
  /\ clear
  /\ call' = [call EXCEPT ![c] = NoCall]
  /\ UNCHANGED <<serverVars, cookie, restoring, exchange, pending, leaveVars, pageVars, goodbye>>

\* A screen that was refused as a non-administrator reads the session again.
refreshSessionOnce ==
  /\ seen \in Users /\ pending = NoExchange
  /\ refreshOnce("forbidden")
  /\ UNCHANGED <<serverVars, cookie, authVars, call, leaveVars, pageVars, goodbye>>

\* What the calls that wait for the exchange do once it has ended: on success
\* each is sent again with the token of the moment, else each gives up.
MutOldToken(s, n) ==
  call' = [c \in Calls |->
    IF call[c].stage = "waiting" /\ pending = s
      THEN IF n = 0 THEN NoCall ELSE [call[c] EXCEPT !.stage = "resent", !.second = call[c].first]
      ELSE call[c]]
MutStarterOnly(s, n) ==
  call' = [c \in Calls |->
    IF call[c].stage = "waiting" /\ c = s
      THEN IF n = 0 THEN NoCall ELSE [call[c] EXCEPT !.stage = "resent", !.second = n]
      ELSE call[c]]
Resume(s, n) ==
  call' = [c \in Calls |->
    IF call[c].stage = "waiting" /\ pending = s
      THEN IF n = 0 THEN NoCall ELSE [call[c] EXCEPT !.stage = "resent", !.second = n]
      ELSE call[c]]

\* refresh: the answer arrives (n is 0 when refused), or never does (lost).
ExchangeEnds(s, lost) ==
  LET n == IF lost THEN 0 ELSE exchange[s].grant IN
  /\ exchange[s].stage = "answered" \/ (lost /\ exchange[s].stage = "sent")
  /\ cookie' = IF n = 0 THEN cookie ELSE n
  /\ IF n = 0 THEN clear ELSE applyTokens(n)
  /\ restoring' = IF s = "restore" THEN "settled" ELSE restoring
  /\ exchange' = [exchange EXCEPT ![s] = Idle]
  /\ pending' = IF pending = s THEN NoExchange ELSE pending
  /\ Resume(s, n)
  /\ UNCHANGED <<serverVars, leaveVars, pageVars, goodbye>>

-----------------------------------------------------------------------------
(* The gate and the pages *)

\* The gate hears of a change and shows the session as it is now; a flip
\* between logged in and logged out empties what the screens remember.
GateHears ==
  /\ restoring = "settled" /\ seen # Snapshot
  /\ seen' = Snapshot
  /\ remembered' = IF seen # Unknown /\ (seen = NoUser) # (Snapshot = NoUser) THEN NoUser ELSE remembered
  /\ UNCHANGED <<serverVars, cookie, authVars, exchange, pending, call, form, path, leaveVars, goodbye>>

\* AppRouter: without a login the paths of the shell lead to the login page.
decideRoute(p) == IF seen = NoUser THEN "login" ELSE p

Navigate(p) ==
  /\ seen # Unknown /\ path # decideRoute(p)
  /\ path' = decideRoute(p)
  /\ UNCHANGED <<serverVars, cookie, authVars, exchange, pending, call, form, seen, leaveVars, remembered, goodbye>>

\* The logout page, opened with the mark the menu sets.  Bound: one logout in
\* flight.
LogoutPage ==
  /\ seen \in Users /\ path = "home" /\ ~leaving
  /\ leaving' = TRUE /\ leavingWith' = cookie
  /\ UNCHANGED <<serverVars, cookie, authVars, exchange, pending, call, pageVars, goodbye>>

\* logout: whatever becomes of the request, the browser forgets the session.
\* served: the server ended the grant; heard: its answer removed the cookie.
logout(served, heard) ==
  /\ leaving /\ (heard => served)
  /\ ended' = IF served THEN ended \cup ({leavingWith} \ {0}) ELSE ended
  /\ cookie' = IF heard THEN 0 ELSE cookie
  /\ clear
  /\ leaving' = FALSE /\ leavingWith' = 0
  /\ goodbye' = TRUE
  /\ UNCHANGED <<issued, rotated, restoring, exchange, pending, call, pageVars>>

\* The login form, open to everybody: one request at a time, its button being
\* disabled until the answer.
SubmitLogin ==
  /\ seen # Unknown /\ path = "login" /\ ~form
  /\ form' = TRUE
  /\ goodbye' = FALSE
  /\ UNCHANGED <<serverVars, cookie, authVars, exchange, pending, call, seen, path, leaveVars, remembered>>

\* The answer: the server issued a grant to u, or the login failed.
login(u) ==
  /\ form /\ Len(issued) < MaxGrants
  /\ form' = FALSE
  /\ issued' = Append(issued, u)
  /\ applyTokens(Len(issued) + 1) /\ cookie' = Len(issued) + 1
  /\ path' = "home"
  /\ UNCHANGED <<rotated, ended, restoring, exchange, pending, call, seen, leaveVars, remembered, goodbye>>

LoginFails ==
  /\ form
  /\ form' = FALSE
  /\ UNCHANGED <<serverVars, cookie, authVars, exchange, pending, call, seen, path, leaveVars, remembered, goodbye>>

\* A table screen keeps rows of the user it shows (businessDataStore).
Remember ==
  /\ seen \in Users /\ seen = Snapshot /\ path = "home" /\ remembered # seen
  /\ remembered' = seen
  /\ UNCHANGED <<serverVars, cookie, authVars, exchange, pending, call, form, seen, path, leaveVars, goodbye>>

-----------------------------------------------------------------------------
SessionNext ==
  \/ restore \/ GateHears \/ LogoutPage \/ SubmitLogin \/ LoginFails \/ refreshSessionOnce \/ Remember
  \/ \E s \in Starters : ServeExchange(s) \/ ExchangeEnds(s, TRUE) \/ ExchangeEnds(s, FALSE)
  \/ \E c \in Calls : apiFetch(c) \/ CallEnds(c) \/ CallRefused(c) \/ CallRefusedAgain(c)
  \/ \E served, heard \in BOOLEAN : logout(served, heard)
  \/ \E u \in Users : login(u)
  \/ \E p \in Paths : Navigate(p)

SessionSpec ==
  /\ SessionInit /\ [][SessionNext]_sessionVars
  /\ WF_sessionVars(restore) /\ WF_sessionVars(GateHears)
  /\ \A c \in Calls : WF_sessionVars(CallEnds(c) \/ CallRefused(c) \/ CallRefusedAgain(c))
  /\ \A s \in Starters :
       WF_sessionVars(ServeExchange(s) \/ ExchangeEnds(s, TRUE) \/ ExchangeEnds(s, FALSE))

-----------------------------------------------------------------------------
(* Properties *)

\* However many calls are refused at once, and whether or not the restoration
\* of the start still runs, one exchange is in flight at most: two would present
\* the same refresh token, and the second would end the session.
OneExchange ==
  \A s, t \in Starters : s # t => exchange[s].stage = "idle" \/ exchange[t].stage = "idle"

\* A call is sent again with another token than the one that was refused.
ResentWithNewToken ==
  \A c \in Calls : call[c].stage = "resent" => call[c].second # call[c].first

\* Every call of a screen ends: joining an exchange never leaves it waiting.
CallsEnd == \A c \in Calls : call[c].stage # "idle" ~> call[c].stage = "idle"

\* What a logout promises (authSession.ts, BR8.6): once it has finished, nobody
\* is logged in until the form is sent again.  An exchange still in flight
\* breaks it.
\* The code does not keep it: see the README.
LogoutIsFinal == goodbye => status # "LoggedIn"

\* What the store of the tables relies on (businessDataStore.ts, loginScope.ts):
\* every new login empties it, so it only holds rows of the user shown.  A login
\* on top of a session, without a logout in between, breaks it.
\* The code does not keep it: see the README.
MemoryIsOwn == seen \in Users /\ seen = Snapshot => remembered \in {NoUser, seen}
=============================================================================
