------------------------ MODULE ClientSessionProofs ------------------------
(***************************************************************************)
(* The shared exchange of ClientSession, for any users, calls and bound.   *)
(***************************************************************************)
EXTENDS ClientSession, TLAPS

InFlight(s) == exchange[s].stage # "idle"

\* Why one exchange is enough: every one but the restoration is the pending
\* one, and while the restoration runs the gate shows no screen that calls.
SharedInv ==
  /\ InFlight("restore") => restoring = "running"
  /\ restoring # "settled" => seen = Unknown /\ pending = NoExchange /\ \A c \in Calls : call[c] = NoCall
  /\ \A s \in Starters \ {"restore"} : InFlight(s) => pending = s

\* A grant on its way to the browser is known to nobody there.
FreshInv ==
  \A s \in Starters :
    exchange[s].stage = "answered" /\ exchange[s].grant # 0 =>
      /\ exchange[s].grant # token
      /\ \A c \in Calls : call[c].first # exchange[s].grant

SessionInv == SessionTypeOK /\ SharedInv /\ FreshInv /\ ResentWithNewToken
-----------------------------------------------------------------------------
LEMMA InitHolds == SessionInit => SessionInv
<1>1. SUFFICES ASSUME SessionInit PROVE SessionInv
  OBVIOUS
<1>2. issued \in Seq(Users) /\ Len(issued) \in 0..1
  <2>1. CASE issued = <<>>
    BY <2>1
  <2>2. CASE \E u \in Users : issued = <<u>>
    BY <2>2
  <2>3. QED
    BY <1>1, <2>1, <2>2 DEF SessionInit
<1>3. SessionTypeOK
  <2>1. Len(issued) <= MaxGrants /\ cookie \in 0..Len(issued) /\ token \in 0..Len(issued) /\ leavingWith \in 0..Len(issued)
    BY <1>1, <1>2, SessionAssumption DEF SessionInit
  <2>2. /\ exchange \in [Starters -> [stage : {"idle", "sent", "answered"}, grant : 0..Len(issued)]]
        /\ call \in [Calls -> [stage : {"idle", "sent", "waiting", "resent"}, first : 0..Len(issued), second : 0..Len(issued)]]
    BY <1>1, <1>2 DEF SessionInit, Idle, NoCall
  <2>3. (status = "LoggedIn") = (token # 0)
    BY <1>1 DEF SessionInit
  <2>4. QED
    BY <1>1, <1>2, <2>1, <2>2, <2>3 DEF SessionInit, SessionTypeOK, Paths
<1>4. SharedInv
  BY <1>1 DEF SessionInit, SharedInv, InFlight, Idle, Starters
<1>5. FreshInv /\ ResentWithNewToken
  BY <1>1 DEF SessionInit, FreshInv, ResentWithNewToken, Idle, NoCall, Starters
<1>6. QED
  BY <1>3, <1>4, <1>5 DEF SessionInv

LEMMA TypeStep ==
  ASSUME SessionInv, [SessionNext]_sessionVars
  PROVE  SessionTypeOK'
<1>1. CASE restore
  BY <1>1, SessionAssumption DEF SessionInv, SessionTypeOK, SharedInv, restore, Exchange, sessionVars, serverVars, authVars, pageVars, leaveVars, Starters, NoCall, Idle, Grants
<1>2. CASE GateHears
  BY <1>2, SessionAssumption DEF SessionInv, SessionTypeOK, SharedInv, GateHears, Snapshot, UserOf, sessionVars, serverVars, authVars, pageVars, leaveVars, Starters, NoCall, Idle, Grants
<1>3. CASE LogoutPage
  BY <1>3, SessionAssumption DEF SessionInv, SessionTypeOK, SharedInv, LogoutPage, sessionVars, serverVars, authVars, pageVars, leaveVars, Starters, NoCall, Idle, Grants
<1>4. CASE SubmitLogin
  BY <1>4, SessionAssumption DEF SessionInv, SessionTypeOK, SharedInv, SubmitLogin, sessionVars, serverVars, authVars, pageVars, leaveVars, Starters, NoCall, Idle, Grants
<1>5. CASE LoginFails
  BY <1>5, SessionAssumption DEF SessionInv, SessionTypeOK, SharedInv, LoginFails, sessionVars, serverVars, authVars, pageVars, leaveVars, Starters, NoCall, Idle, Grants
<1>6. CASE refreshSessionOnce
  BY <1>6, SessionAssumption DEF SessionInv, SessionTypeOK, SharedInv, refreshSessionOnce, refreshOnce, Exchange, sessionVars, serverVars, authVars, pageVars, leaveVars, Starters, NoCall, Idle, Grants
<1>7. CASE Remember
  BY <1>7, SessionAssumption DEF SessionInv, SessionTypeOK, SharedInv, Remember, sessionVars, serverVars, authVars, pageVars, leaveVars, Starters, NoCall, Idle, Grants
<1>8. CASE \E s \in Starters : ServeExchange(s)
  <2>1. PICK s \in Starters : ServeExchange(s)
    BY <1>8
  <2>2. CASE issued' = issued /\ rotated' = rotated /\ exchange' = [exchange EXCEPT ![s] = Exchange("answered", 0)]
    BY <2>1, <2>2, SessionAssumption DEF SessionInv, SessionTypeOK, ServeExchange, Exchange, sessionVars, serverVars, authVars, pageVars, leaveVars
  <2>3. CASE /\ exchange[s].grant # 0 /\ Len(issued) < MaxGrants
             /\ issued' = Append(issued, issued[exchange[s].grant])
             /\ rotated' = rotated \cup {exchange[s].grant}
             /\ exchange' = [exchange EXCEPT ![s] = Exchange("answered", Len(issued) + 1)]
    <3>1. exchange[s].grant \in 1..Len(issued) /\ issued \in Seq(Users) /\ Len(issued) \in Nat
      BY <2>3 DEF SessionInv, SessionTypeOK
    <3>2. issued' \in Seq(Users) /\ Len(issued') = Len(issued) + 1 /\ Len(issued') <= MaxGrants
      BY <2>3, <3>1, SessionAssumption
    <3>3. exchange' \in [Starters -> [stage : {"idle", "sent", "answered"}, grant : 0..Len(issued')]]
      BY <2>3, <3>1, <3>2 DEF SessionInv, SessionTypeOK, Exchange
    <3>4. rotated' \subseteq Grants
      <4>1. exchange[s].grant \in Grants
        BY <2>3, <3>1, SessionAssumption DEF Grants
      <4>2. QED
        BY <2>3, <4>1 DEF SessionInv, SessionTypeOK
    <3>5. cookie \in 0..Len(issued') /\ token \in 0..Len(issued') /\ leavingWith \in 0..Len(issued')
      BY <3>1, <3>2 DEF SessionInv, SessionTypeOK
    <3>6. call \in [Calls -> [stage : {"idle", "sent", "waiting", "resent"}, first : 0..Len(issued'), second : 0..Len(issued')]]
      BY <3>1, <3>2 DEF SessionInv, SessionTypeOK
    <3>7. QED
      BY <2>1, <3>2, <3>3, <3>4, <3>5, <3>6 DEF SessionInv, SessionTypeOK, ServeExchange, sessionVars, serverVars, authVars, pageVars, leaveVars
  <2>4. QED
    BY <2>1, <2>2, <2>3 DEF ServeExchange, Issue
<1>9. CASE \E s \in Starters, lost \in BOOLEAN : ExchangeEnds(s, lost)
  <2>1. PICK s \in Starters, lost \in BOOLEAN : ExchangeEnds(s, lost)
    BY <1>9
  <2>2. PICK n \in 0..Len(issued) : ExchangeEnds(s, lost) /\ n = (IF lost THEN 0 ELSE exchange[s].grant)
    BY <2>1 DEF SessionInv, SessionTypeOK
  <2>3. cookie' \in 0..Len(issued) /\ token' \in 0..Len(issued) /\ status' \in {"LoggedIn", "LoggedOut"}
          /\ (status' = "LoggedIn") = (token' # 0)
    BY <2>2 DEF ExchangeEnds, clear, applyTokens, SessionInv, SessionTypeOK
  <2>4. call' \in [Calls -> [stage : {"idle", "sent", "waiting", "resent"}, first : 0..Len(issued), second : 0..Len(issued)]]
    BY <2>2 DEF ExchangeEnds, Resume, NoCall, SessionInv, SessionTypeOK
  <2>5. exchange' \in [Starters -> [stage : {"idle", "sent", "answered"}, grant : 0..Len(issued)]]
          /\ pending' \in Starters \cup {NoExchange} /\ restoring' \in {"unset", "running", "settled"}
    BY <2>2 DEF ExchangeEnds, Idle, SessionInv, SessionTypeOK
  <2>6. QED
    BY <2>2, <2>3, <2>4, <2>5 DEF ExchangeEnds, SessionInv, SessionTypeOK, sessionVars, serverVars, authVars, pageVars, leaveVars
<1>10. CASE \E c \in Calls : apiFetch(c)
  BY <1>10, SessionAssumption DEF SessionInv, SessionTypeOK, SharedInv, apiFetch, sessionVars, serverVars, authVars, pageVars, leaveVars, Starters, NoCall, Idle, Grants
<1>11. CASE \E c \in Calls : CallEnds(c)
  BY <1>11, SessionAssumption DEF SessionInv, SessionTypeOK, SharedInv, CallEnds, sessionVars, serverVars, authVars, pageVars, leaveVars, Starters, NoCall, Idle, Grants
<1>12. CASE \E c \in Calls : CallRefused(c)
  <2>1. PICK c \in Calls : CallRefused(c)
    BY <1>12
  <2>2. exchange' \in [Starters -> [stage : {"idle", "sent", "answered"}, grant : 0..Len(issued)]]
    <3>1. exchange' = exchange \/ exchange' = [exchange EXCEPT ![c] = [stage |-> "sent", grant |-> cookie]]
      BY <2>1 DEF CallRefused, refreshOnce, Exchange
    <3>2. cookie \in 0..Len(issued) /\ exchange \in [Starters -> [stage : {"idle", "sent", "answered"}, grant : 0..Len(issued)]]
      BY DEF SessionInv, SessionTypeOK
    <3>3. QED
      BY <3>1, <3>2
  <2>3. call' \in [Calls -> [stage : {"idle", "sent", "waiting", "resent"}, first : 0..Len(issued), second : 0..Len(issued)]]
    BY <2>1 DEF CallRefused, SessionInv, SessionTypeOK
  <2>4. pending' \in Starters \cup {NoExchange}
    BY <2>1 DEF CallRefused, refreshOnce, Starters, SessionInv, SessionTypeOK
  <2>5. QED
    BY <2>1, <2>2, <2>3, <2>4 DEF CallRefused, SessionInv, SessionTypeOK, sessionVars, serverVars, authVars, pageVars, leaveVars
<1>13. CASE \E c \in Calls : CallRefusedAgain(c)
  BY <1>13, SessionAssumption DEF SessionInv, SessionTypeOK, SharedInv, CallRefusedAgain, clear, sessionVars, serverVars, authVars, pageVars, leaveVars, Starters, NoCall, Idle, Grants
<1>14. CASE \E served, heard \in BOOLEAN : logout(served, heard)
  <2>1. PICK served \in BOOLEAN, heard \in BOOLEAN : logout(served, heard)
    BY <1>14
  <2>2. ended' \subseteq Grants
    BY <2>1, SessionAssumption DEF logout, SessionInv, SessionTypeOK, Grants
  <2>3. cookie' \in 0..Len(issued)
    BY <2>1 DEF logout, SessionInv, SessionTypeOK
  <2>4. token' = 0 /\ status' = "LoggedOut" /\ leavingWith' \in 0..Len(issued)
    BY <2>1 DEF logout, clear, SessionInv, SessionTypeOK
  <2>5. (status' = "LoggedIn") = (token' # 0)
    BY <2>4
  <2>6. QED
    BY <2>1, <2>2, <2>3, <2>4, <2>5 DEF logout, SessionInv, SessionTypeOK, sessionVars, serverVars, authVars, pageVars, leaveVars
<1>15. CASE \E u \in Users : login(u)
  <2>1. PICK u \in Users : login(u)
    BY <1>15
  <2>2. Len(issued) \in Nat /\ issued' \in Seq(Users) /\ Len(issued') = Len(issued) + 1 /\ Len(issued') <= MaxGrants
    BY <2>1, SessionAssumption DEF login, SessionInv, SessionTypeOK
  <2>3. exchange \in [Starters -> [stage : {"idle", "sent", "answered"}, grant : 0..Len(issued')]]
          /\ call \in [Calls -> [stage : {"idle", "sent", "waiting", "resent"}, first : 0..Len(issued'), second : 0..Len(issued')]]
          /\ leavingWith \in 0..Len(issued')
    BY <2>2 DEF SessionInv, SessionTypeOK
  <2>4. cookie' \in 0..Len(issued') /\ token' \in 0..Len(issued') /\ status' = "LoggedIn" /\ token' # 0
    BY <2>1, <2>2 DEF login, applyTokens
  <2>5. QED
    BY <2>1, <2>2, <2>3, <2>4 DEF login, Paths, SessionInv, SessionTypeOK, sessionVars, serverVars, authVars, pageVars, leaveVars
<1>16. CASE \E p \in Paths : Navigate(p)
  BY <1>16, SessionAssumption DEF SessionInv, SessionTypeOK, SharedInv, Navigate, decideRoute, Paths, sessionVars, serverVars, authVars, pageVars, leaveVars, Starters, NoCall, Idle, Grants
<1>17. CASE UNCHANGED sessionVars
  BY <1>17 DEF SessionInv, SessionTypeOK, SharedInv, sessionVars, serverVars, authVars, pageVars, leaveVars
<1>18. QED
  BY <1>1, <1>2, <1>3, <1>4, <1>5, <1>6, <1>7, <1>8, <1>9, <1>10, <1>11, <1>12, <1>13, <1>14, <1>15, <1>16, <1>17 DEF SessionNext

LEMMA SharedStep ==
  ASSUME SessionInv, [SessionNext]_sessionVars
  PROVE  SharedInv'
<1>1. CASE restore
  BY <1>1, SessionAssumption DEF SessionInv, SessionTypeOK, SharedInv, InFlight, restore, Exchange, sessionVars, serverVars, authVars, pageVars, leaveVars, Starters, NoCall, Idle, Grants
<1>2. CASE GateHears
  BY <1>2, SessionAssumption DEF SessionInv, SessionTypeOK, SharedInv, InFlight, GateHears, Snapshot, UserOf, sessionVars, serverVars, authVars, pageVars, leaveVars, Starters, NoCall, Idle, Grants
<1>3. CASE LogoutPage
  BY <1>3, SessionAssumption DEF SessionInv, SessionTypeOK, SharedInv, InFlight, LogoutPage, sessionVars, serverVars, authVars, pageVars, leaveVars, Starters, NoCall, Idle, Grants
<1>4. CASE SubmitLogin
  BY <1>4, SessionAssumption DEF SessionInv, SessionTypeOK, SharedInv, InFlight, SubmitLogin, sessionVars, serverVars, authVars, pageVars, leaveVars, Starters, NoCall, Idle, Grants
<1>5. CASE LoginFails
  BY <1>5, SessionAssumption DEF SessionInv, SessionTypeOK, SharedInv, InFlight, LoginFails, sessionVars, serverVars, authVars, pageVars, leaveVars, Starters, NoCall, Idle, Grants
<1>6. CASE refreshSessionOnce
  BY <1>6, SessionAssumption DEF SessionInv, SessionTypeOK, SharedInv, InFlight, refreshSessionOnce, refreshOnce, Exchange, sessionVars, serverVars, authVars, pageVars, leaveVars, Starters, NoCall, Idle, Grants
<1>7. CASE Remember
  BY <1>7, SessionAssumption DEF SessionInv, SessionTypeOK, SharedInv, InFlight, Remember, sessionVars, serverVars, authVars, pageVars, leaveVars, Starters, NoCall, Idle, Grants
<1>8. CASE \E s \in Starters : ServeExchange(s)
  <2>1. PICK s \in Starters : ServeExchange(s)
    BY <1>8
  <2>2. \A t \in Starters : exchange'[t].stage # "idle" <=> exchange[t].stage # "idle"
    <3>1. exchange[s].stage = "sent"
      BY <2>1 DEF ServeExchange
    <3>2. \E n \in Nat : exchange' = [exchange EXCEPT ![s] = [stage |-> "answered", grant |-> n]]
      BY <2>1 DEF ServeExchange, Exchange, SessionInv, SessionTypeOK
    <3>3. QED
      BY <3>1, <3>2 DEF SessionInv, SessionTypeOK
  <2>3. QED
    BY <2>1, <2>2 DEF ServeExchange, SessionInv, SharedInv, InFlight, Starters, sessionVars, serverVars, authVars, pageVars, leaveVars
<1>9. CASE \E s \in Starters, lost \in BOOLEAN : ExchangeEnds(s, lost)
  <2>1. PICK s \in Starters, lost \in BOOLEAN : ExchangeEnds(s, lost)
    BY <1>9
  <2>2. \A t \in Starters : exchange'[t] = IF t = s THEN Idle ELSE exchange[t]
    BY <2>1 DEF ExchangeEnds, SessionInv, SessionTypeOK
  <2>3. CASE s = "restore"
    BY <2>1, <2>2, <2>3, SessionAssumption DEF ExchangeEnds, Idle, SessionInv, SharedInv, InFlight, Starters, sessionVars, serverVars, authVars, pageVars, leaveVars
  <2>4. CASE s # "restore"
    <3>1. pending = s /\ restoring = "settled" /\ restoring' = "settled" /\ pending' = NoExchange
      BY <2>1, <2>4, SessionAssumption DEF ExchangeEnds, SessionInv, SharedInv, SessionTypeOK, InFlight, Starters
    <3>2. QED
      BY <2>2, <2>4, <3>1, SessionAssumption DEF Idle, SessionInv, SharedInv, InFlight, Starters
  <2>5. QED
    BY <2>3, <2>4
<1>10. CASE \E c \in Calls : apiFetch(c)
  BY <1>10, SessionAssumption DEF SessionInv, SessionTypeOK, SharedInv, InFlight, apiFetch, sessionVars, serverVars, authVars, pageVars, leaveVars, Starters, NoCall, Idle, Grants
<1>11. CASE \E c \in Calls : CallEnds(c)
  BY <1>11, SessionAssumption DEF SessionInv, SessionTypeOK, SharedInv, InFlight, CallEnds, sessionVars, serverVars, authVars, pageVars, leaveVars, Starters, NoCall, Idle, Grants
<1>12. CASE \E c \in Calls : CallRefused(c)
  BY <1>12, SessionAssumption DEF SessionInv, SessionTypeOK, SharedInv, InFlight, CallRefused, refreshOnce, Exchange, sessionVars, serverVars, authVars, pageVars, leaveVars, Starters, NoCall, Idle, Grants
<1>13. CASE \E c \in Calls : CallRefusedAgain(c)
  BY <1>13, SessionAssumption DEF SessionInv, SessionTypeOK, SharedInv, InFlight, CallRefusedAgain, clear, sessionVars, serverVars, authVars, pageVars, leaveVars, Starters, NoCall, Idle, Grants
<1>14. CASE \E served, heard \in BOOLEAN : logout(served, heard)
  BY <1>14, SessionAssumption DEF SessionInv, SessionTypeOK, SharedInv, InFlight, logout, clear, sessionVars, serverVars, authVars, pageVars, leaveVars, Starters, NoCall, Idle, Grants
<1>15. CASE \E u \in Users : login(u)
  BY <1>15, SessionAssumption DEF SessionInv, SessionTypeOK, SharedInv, InFlight, login, applyTokens, sessionVars, serverVars, authVars, pageVars, leaveVars, Starters, NoCall, Idle, Grants
<1>16. CASE \E p \in Paths : Navigate(p)
  BY <1>16, SessionAssumption DEF SessionInv, SessionTypeOK, SharedInv, InFlight, Navigate, decideRoute, Paths, sessionVars, serverVars, authVars, pageVars, leaveVars, Starters, NoCall, Idle, Grants
<1>17. CASE UNCHANGED sessionVars
  BY <1>17 DEF SessionInv, SessionTypeOK, SharedInv, InFlight, sessionVars, serverVars, authVars, pageVars, leaveVars
<1>18. QED
  BY <1>1, <1>2, <1>3, <1>4, <1>5, <1>6, <1>7, <1>8, <1>9, <1>10, <1>11, <1>12, <1>13, <1>14, <1>15, <1>16, <1>17 DEF SessionNext

LEMMA FreshStep ==
  ASSUME SessionInv, [SessionNext]_sessionVars
  PROVE  FreshInv'
<1>1. CASE restore
  BY <1>1, SessionAssumption DEF SessionInv, SessionTypeOK, SharedInv, FreshInv, InFlight, restore, Exchange, sessionVars, serverVars, authVars, pageVars, leaveVars, Starters, NoCall, Idle, Grants
<1>2. CASE GateHears
  BY <1>2, SessionAssumption DEF SessionInv, SessionTypeOK, SharedInv, FreshInv, InFlight, GateHears, Snapshot, UserOf, sessionVars, serverVars, authVars, pageVars, leaveVars, Starters, NoCall, Idle, Grants
<1>3. CASE LogoutPage
  BY <1>3, SessionAssumption DEF SessionInv, SessionTypeOK, SharedInv, FreshInv, InFlight, LogoutPage, sessionVars, serverVars, authVars, pageVars, leaveVars, Starters, NoCall, Idle, Grants
<1>4. CASE SubmitLogin
  BY <1>4, SessionAssumption DEF SessionInv, SessionTypeOK, SharedInv, FreshInv, InFlight, SubmitLogin, sessionVars, serverVars, authVars, pageVars, leaveVars, Starters, NoCall, Idle, Grants
<1>5. CASE LoginFails
  BY <1>5, SessionAssumption DEF SessionInv, SessionTypeOK, SharedInv, FreshInv, InFlight, LoginFails, sessionVars, serverVars, authVars, pageVars, leaveVars, Starters, NoCall, Idle, Grants
<1>6. CASE refreshSessionOnce
  BY <1>6, SessionAssumption DEF SessionInv, SessionTypeOK, SharedInv, FreshInv, InFlight, refreshSessionOnce, refreshOnce, Exchange, sessionVars, serverVars, authVars, pageVars, leaveVars, Starters, NoCall, Idle, Grants
<1>7. CASE Remember
  BY <1>7, SessionAssumption DEF SessionInv, SessionTypeOK, SharedInv, FreshInv, InFlight, Remember, sessionVars, serverVars, authVars, pageVars, leaveVars, Starters, NoCall, Idle, Grants
<1>8. CASE \E s \in Starters : ServeExchange(s)
  <2>1. PICK s \in Starters : ServeExchange(s)
    BY <1>8
  <2>2. token' = token /\ call' = call
    BY <2>1 DEF ServeExchange, authVars
  <2>3. Len(issued) + 1 # token /\ \A c \in Calls : call[c].first # Len(issued) + 1
    BY DEF SessionInv, SessionTypeOK
  <2>4. \A t \in Starters : \/ exchange'[t] = exchange[t]
                            \/ exchange'[t].grant \in {0, Len(issued) + 1}
    BY <2>1 DEF ServeExchange, Exchange, SessionInv, SessionTypeOK
  <2>5. QED
    BY <2>2, <2>3, <2>4 DEF SessionInv, FreshInv
<1>9. CASE \E s \in Starters, lost \in BOOLEAN : ExchangeEnds(s, lost)
  <2>1. PICK s \in Starters, lost \in BOOLEAN : ExchangeEnds(s, lost)
    BY <1>9
  <2>2. \A t \in Starters : exchange'[t] = IF t = s THEN Idle ELSE exchange[t]
    BY <2>1 DEF ExchangeEnds, SessionInv, SessionTypeOK
  <2>3. \A t \in Starters : t # s => exchange[t].stage = "idle"
    BY <2>1, SessionAssumption DEF ExchangeEnds, SessionInv, SharedInv, InFlight, Starters
  <2>4. \A t \in Starters : exchange'[t].stage = "idle"
    BY <2>2, <2>3 DEF Idle
  <2>5. QED
    BY <2>4 DEF FreshInv
<1>10. CASE \E c \in Calls : apiFetch(c)
  BY <1>10, SessionAssumption DEF SessionInv, SessionTypeOK, SharedInv, FreshInv, InFlight, apiFetch, sessionVars, serverVars, authVars, pageVars, leaveVars, Starters, NoCall, Idle, Grants
<1>11. CASE \E c \in Calls : CallEnds(c)
  BY <1>11, SessionAssumption DEF SessionInv, SessionTypeOK, SharedInv, FreshInv, InFlight, CallEnds, sessionVars, serverVars, authVars, pageVars, leaveVars, Starters, NoCall, Idle, Grants
<1>12. CASE \E c \in Calls : CallRefused(c)
  <2>1. PICK c \in Calls : CallRefused(c)
    BY <1>12
  <2>2. token' = token /\ \A d \in Calls : call'[d].first = call[d].first
    BY <2>1 DEF CallRefused, authVars, SessionInv, SessionTypeOK
  <2>3. \A t \in Starters : exchange'[t].stage = "answered" => exchange'[t] = exchange[t]
    BY <2>1 DEF CallRefused, refreshOnce, Exchange, Starters, SessionInv, SessionTypeOK
  <2>4. QED
    BY <2>2, <2>3 DEF SessionInv, FreshInv
<1>13. CASE \E c \in Calls : CallRefusedAgain(c)
  BY <1>13, SessionAssumption DEF SessionInv, SessionTypeOK, SharedInv, FreshInv, InFlight, CallRefusedAgain, clear, sessionVars, serverVars, authVars, pageVars, leaveVars, Starters, NoCall, Idle, Grants
<1>14. CASE \E served, heard \in BOOLEAN : logout(served, heard)
  BY <1>14, SessionAssumption DEF SessionInv, SessionTypeOK, SharedInv, FreshInv, InFlight, logout, clear, sessionVars, serverVars, authVars, pageVars, leaveVars, Starters, NoCall, Idle, Grants
<1>15. CASE \E u \in Users : login(u)
  BY <1>15, SessionAssumption DEF SessionInv, SessionTypeOK, SharedInv, FreshInv, InFlight, login, applyTokens, sessionVars, serverVars, authVars, pageVars, leaveVars, Starters, NoCall, Idle, Grants
<1>16. CASE \E p \in Paths : Navigate(p)
  BY <1>16, SessionAssumption DEF SessionInv, SessionTypeOK, SharedInv, FreshInv, InFlight, Navigate, decideRoute, Paths, sessionVars, serverVars, authVars, pageVars, leaveVars, Starters, NoCall, Idle, Grants
<1>17. CASE UNCHANGED sessionVars
  BY <1>17 DEF SessionInv, SessionTypeOK, SharedInv, FreshInv, InFlight, sessionVars, serverVars, authVars, pageVars, leaveVars
<1>18. QED
  BY <1>1, <1>2, <1>3, <1>4, <1>5, <1>6, <1>7, <1>8, <1>9, <1>10, <1>11, <1>12, <1>13, <1>14, <1>15, <1>16, <1>17 DEF SessionNext

LEMMA ResentStep ==
  ASSUME SessionInv, [SessionNext]_sessionVars
  PROVE  ResentWithNewToken'
<1>1. CASE restore
  BY <1>1, SessionAssumption DEF SessionInv, SessionTypeOK, FreshInv, ResentWithNewToken, restore, Exchange, sessionVars, serverVars, authVars, pageVars, leaveVars, Starters, NoCall, Idle, Grants
<1>2. CASE GateHears
  BY <1>2, SessionAssumption DEF SessionInv, SessionTypeOK, FreshInv, ResentWithNewToken, GateHears, Snapshot, UserOf, sessionVars, serverVars, authVars, pageVars, leaveVars, Starters, NoCall, Idle, Grants
<1>3. CASE LogoutPage
  BY <1>3, SessionAssumption DEF SessionInv, SessionTypeOK, FreshInv, ResentWithNewToken, LogoutPage, sessionVars, serverVars, authVars, pageVars, leaveVars, Starters, NoCall, Idle, Grants
<1>4. CASE SubmitLogin
  BY <1>4, SessionAssumption DEF SessionInv, SessionTypeOK, FreshInv, ResentWithNewToken, SubmitLogin, sessionVars, serverVars, authVars, pageVars, leaveVars, Starters, NoCall, Idle, Grants
<1>5. CASE LoginFails
  BY <1>5, SessionAssumption DEF SessionInv, SessionTypeOK, FreshInv, ResentWithNewToken, LoginFails, sessionVars, serverVars, authVars, pageVars, leaveVars, Starters, NoCall, Idle, Grants
<1>6. CASE refreshSessionOnce
  BY <1>6, SessionAssumption DEF SessionInv, SessionTypeOK, FreshInv, ResentWithNewToken, refreshSessionOnce, refreshOnce, Exchange, sessionVars, serverVars, authVars, pageVars, leaveVars, Starters, NoCall, Idle, Grants
<1>7. CASE Remember
  BY <1>7, SessionAssumption DEF SessionInv, SessionTypeOK, FreshInv, ResentWithNewToken, Remember, sessionVars, serverVars, authVars, pageVars, leaveVars, Starters, NoCall, Idle, Grants
<1>8. CASE \E s \in Starters : ServeExchange(s)
  BY <1>8, SessionAssumption DEF SessionInv, SessionTypeOK, FreshInv, ResentWithNewToken, ServeExchange, Issue, Exchange, sessionVars, serverVars, authVars, pageVars, leaveVars, Starters, NoCall, Idle, Grants
<1>9. CASE \E s \in Starters, lost \in BOOLEAN : ExchangeEnds(s, lost)
  <2>1. PICK s \in Starters, lost \in BOOLEAN : ExchangeEnds(s, lost)
    BY <1>9
  <2>2. PICK n \in 0..Len(issued) :
          /\ n = (IF lost THEN 0 ELSE exchange[s].grant)
          /\ exchange[s].stage = "answered" \/ n = 0
          /\ Resume(s, n)
    BY <2>1 DEF ExchangeEnds, SessionInv, SessionTypeOK
  <2>3. n # 0 => \A c \in Calls : call[c].first # n
    BY <2>2 DEF SessionInv, FreshInv
  <2>4. QED
    BY <2>2, <2>3 DEF Resume, NoCall, SessionInv, SessionTypeOK, ResentWithNewToken
<1>10. CASE \E c \in Calls : apiFetch(c)
  BY <1>10, SessionAssumption DEF SessionInv, SessionTypeOK, FreshInv, ResentWithNewToken, apiFetch, sessionVars, serverVars, authVars, pageVars, leaveVars, Starters, NoCall, Idle, Grants
<1>11. CASE \E c \in Calls : CallEnds(c)
  BY <1>11, SessionAssumption DEF SessionInv, SessionTypeOK, FreshInv, ResentWithNewToken, CallEnds, sessionVars, serverVars, authVars, pageVars, leaveVars, Starters, NoCall, Idle, Grants
<1>12. CASE \E c \in Calls : CallRefused(c)
  BY <1>12, SessionAssumption DEF SessionInv, SessionTypeOK, FreshInv, ResentWithNewToken, CallRefused, refreshOnce, Exchange, sessionVars, serverVars, authVars, pageVars, leaveVars, Starters, NoCall, Idle, Grants
<1>13. CASE \E c \in Calls : CallRefusedAgain(c)
  BY <1>13, SessionAssumption DEF SessionInv, SessionTypeOK, FreshInv, ResentWithNewToken, CallRefusedAgain, clear, sessionVars, serverVars, authVars, pageVars, leaveVars, Starters, NoCall, Idle, Grants
<1>14. CASE \E served, heard \in BOOLEAN : logout(served, heard)
  BY <1>14, SessionAssumption DEF SessionInv, SessionTypeOK, FreshInv, ResentWithNewToken, logout, clear, sessionVars, serverVars, authVars, pageVars, leaveVars, Starters, NoCall, Idle, Grants
<1>15. CASE \E u \in Users : login(u)
  BY <1>15, SessionAssumption DEF SessionInv, SessionTypeOK, FreshInv, ResentWithNewToken, login, applyTokens, sessionVars, serverVars, authVars, pageVars, leaveVars, Starters, NoCall, Idle, Grants
<1>16. CASE \E p \in Paths : Navigate(p)
  BY <1>16, SessionAssumption DEF SessionInv, SessionTypeOK, FreshInv, ResentWithNewToken, Navigate, decideRoute, Paths, sessionVars, serverVars, authVars, pageVars, leaveVars, Starters, NoCall, Idle, Grants
<1>17. CASE UNCHANGED sessionVars
  BY <1>17 DEF SessionInv, SessionTypeOK, FreshInv, ResentWithNewToken, sessionVars, serverVars, authVars, pageVars, leaveVars
<1>18. QED
  BY <1>1, <1>2, <1>3, <1>4, <1>5, <1>6, <1>7, <1>8, <1>9, <1>10, <1>11, <1>12, <1>13, <1>14, <1>15, <1>16, <1>17 DEF SessionNext

-----------------------------------------------------------------------------
\* The invariant of the session holds always, however many calls are under way.
THEOREM SessionInvHolds == SessionSpec => []SessionInv
<1>1. SessionInv /\ [SessionNext]_sessionVars => SessionInv'
  BY TypeStep, SharedStep, FreshStep, ResentStep DEF SessionInv
<1>2. QED
  BY InitHolds, <1>1, PTL DEF SessionSpec

\* The login state, the exchanges and the calls keep their types; so a tab that is
\* logged out holds no token (authSession.ts, clear).
THEOREM SessionTypesHold == SessionSpec => []SessionTypeOK
<1>1. SessionInv => SessionTypeOK
  BY DEF SessionInv
<1>2. QED
  BY SessionInvHolds, <1>1, PTL

\* However many calls are refused at once, they share one exchange of the refresh
\* token (apiClient.ts, refreshOnce).
THEOREM ExchangeIsShared == SessionSpec => []OneExchange
<1>1. SessionInv => OneExchange
  BY SessionAssumption DEF SessionInv, SharedInv, OneExchange, InFlight, Starters
<1>2. QED
  BY SessionInvHolds, <1>1, PTL

\* A call is never sent again with the token it was refused with.
THEOREM ResentIsNew == SessionSpec => []ResentWithNewToken
<1>1. SessionInv => ResentWithNewToken
  BY DEF SessionInv
<1>2. QED
  BY SessionInvHolds, <1>1, PTL
=============================================================================
