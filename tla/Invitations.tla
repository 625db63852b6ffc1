----------------------------- MODULE Invitations -----------------------------
(***************************************************************************)
(* Package invitation: administrators invite people by mail, and who opens *)
(* the link of the mail registers an account.                              *)
(*                                                                         *)
(*   invite    checking -> finding -> locking -> inserting -> sending      *)
(*               -> recording;  inserting -> losing -> checking            *)
(*   resend    resending -> renewing -> sending -> recording               *)
(*   cancel    cancelling -> closing                                       *)
(*   complete  opening -> registering                                      *)
(*                                                                         *)
(* rows and accounts hold committed data (READ COMMITTED): the writes of a *)
(* transaction appear in the step that commits it.  A row read FOR UPDATE  *)
(* is locked until then, and whoever waits for it evaluates its condition  *)
(* again on the row it gets.  The mail is sent outside any transaction.    *)
(* Tokens are numbered as they are issued; a row of the table is known by  *)
(* the number of its first token.                                          *)
(***************************************************************************)
EXTENDS Integers, FiniteSets

CONSTANTS
  Emails,      \* addresses people are invited at
  NoEmail,     \* no address
  Reqs,        \* requests that may run at the same time
  NoReq,       \* nobody holds the lock
  Validity,    \* mastersmith.invitation.validity
  Retention,   \* mastersmith.invitation.retention
  BatchSize,   \* InvitationRepository.DELETE_BATCH_SIZE
  MaxTokens,   \* bound: tokens that can be issued
  MaxNow,      \* bound: the Clock stops there
  MaxFaults    \* bound: crashes and errors of the database or the mail

ASSUME NobodyAssumption == NoEmail \notin Emails /\ NoReq \notin Reqs
ASSUME SettingsAssumption ==
  Validity \in Nat \ {0} /\ Retention \in Nat \ {0} /\ BatchSize \in Nat \ {0}
ASSUME BoundsAssumption == MaxTokens \in Nat /\ MaxNow \in Nat /\ MaxFaults \in Nat

VARIABLES
  rows,        \* rows[i]: the row of table invitations
  accounts,    \* the addresses in table users
  lock,        \* lock[i]: the request whose transaction holds row i
  issued,      \* how many tokens were issued
  mailed,      \* the tokens whose mail has arrived
  now,         \* the injected Clock
  pc, email, row, token, at, tries, result,  \* locals of each request
  jpc, pass, cutoff, picked,                 \* locals of InvitationCleanupJob
  faults,      \* history: faults so far
  by           \* history: the token with which each account was made, or 0

tables == <<rows, accounts, issued, by>>
locals == <<pc, email, row, token, at, tries, result>>
job == <<jpc, pass, cutoff, picked>>
vars == <<tables, lock, mailed, now, locals, job, faults>>

Tokens == 1..MaxTokens
Null == -1
Ended == {"COMPLETED", "CANCELLED", "REPLACED"}

Row == [state : {"ABSENT", "PENDING"} \cup Ended, email : Emails \cup {NoEmail},
        token : 0..MaxTokens, expires : Nat, sent : {"PENDING", "SENT", "FAILED"},
        ended : Nat \cup {Null}]

Absent == [state |-> "ABSENT", email |-> NoEmail, token |-> 0, expires |-> 0,
           sent |-> "PENDING", ended |-> Null]

PCs == {"idle", "checking", "finding", "locking", "inserting", "losing", "sending",
        "recording", "resending", "renewing", "cancelling", "closing", "opening",
        "registering"}

TypeOK ==
  /\ rows \in [Tokens -> Row]
  /\ accounts \subseteq Emails
  /\ lock \in [Tokens -> Reqs \cup {NoReq}]
  /\ issued \in 0..MaxTokens
  /\ mailed \subseteq 1..issued
  /\ now \in Nat
  /\ pc \in [Reqs -> PCs]
  /\ email \in [Reqs -> Emails \cup {NoEmail}]
  /\ row \in [Reqs -> 0..MaxTokens]
  /\ token \in [Reqs -> 0..MaxTokens]
  /\ at \in [Reqs -> Nat]
  /\ tries \in [Reqs -> 0..2]
  /\ result \in [Reqs -> {"PENDING", "SENT", "FAILED"}]
  /\ jpc \in {"idle", "selecting", "deleting"}
  /\ pass \in {"ended", "expired"}
  /\ cutoff \in Int
  /\ picked \subseteq Tokens
  /\ faults \in 0..MaxFaults
  /\ by \in [Emails -> 0..MaxTokens]

Init ==
  /\ rows = [i \in Tokens |-> Absent]
  /\ accounts \in SUBSET Emails
  /\ lock = [i \in Tokens |-> NoReq]
  /\ issued = 0 /\ mailed = {} /\ now = 0 /\ faults = 0
  /\ pc = [r \in Reqs |-> "idle"]
  /\ email = [r \in Reqs |-> NoEmail]
  /\ row = [r \in Reqs |-> 0]
  /\ token = [r \in Reqs |-> 0]
  /\ at = [r \in Reqs |-> 0]
  /\ tries = [r \in Reqs |-> 0]
  /\ result = [r \in Reqs |-> "PENDING"]
  /\ jpc = "idle" /\ pass = "ended" /\ cutoff = 0 /\ picked = {}
  /\ by = [e \in Emails |-> 0]

-----------------------------------------------------------------------------
Goto(r, label) == pc' = [pc EXCEPT ![r] = label]

\* The transaction of the request ends, with a commit or a rollback.
Unlock(r) == lock' = [i \in Tokens |-> IF lock[i] = r THEN NoReq ELSE lock[i]]

\* The request is answered.
End(r) ==
  /\ Goto(r, "idle")
  /\ Unlock(r)
  /\ email' = [email EXCEPT ![r] = NoEmail]
  /\ row' = [row EXCEPT ![r] = 0]
  /\ token' = [token EXCEPT ![r] = 0]
  /\ at' = [at EXCEPT ![r] = 0]
  /\ tries' = [tries EXCEPT ![r] = 0]
  /\ result' = [result EXCEPT ![r] = "PENDING"]

EndUnchanged(r) == End(r) /\ UNCHANGED tables

\* The open invitations of an address: the unique column pending_email keeps
\* them to one.
Open(e) == {i \in Tokens : rows[i].state = "PENDING" /\ rows[i].email = e}

\* Mutant: the instant of the expiry still counts.
MutIsValid(i, time) == rows[i].state = "PENDING" /\ time <= rows[i].expires

\* InvitationValidity.isValid.
IsValid(i, time) == rows[i].state = "PENDING" /\ time < rows[i].expires

Free(i) == lock[i] = NoReq

\* Bound: a request that may issue a token starts only if one is left for it.
Issuing == {r \in Reqs : pc[r] \in {"checking", "finding", "locking", "inserting", "losing",
                                   "resending", "renewing"}}
Room == issued + Cardinality(Issuing) < MaxTokens

\* SELECT ... FOR UPDATE returns the row.
TakeLock(r) == lock' = [lock EXCEPT ![row[r]] = r]

-----------------------------------------------------------------------------
\* invite, for an address and a language that pass the validation.
Invite(r) ==
  /\ pc[r] = "idle"
  /\ Room
  /\ \E e \in Emails : email' = [email EXCEPT ![r] = e]
  /\ tries' = [tries EXCEPT ![r] = 1]
  /\ Goto(r, "checking")
  /\ UNCHANGED <<tables, lock, row, token, at, result>>

\* existsByEmail, which takes no lock: 409 INVITATION_EMAIL_REGISTERED.
Check(r) ==
  /\ pc[r] = "checking"
  /\ \/ email[r] \in accounts /\ EndUnchanged(r)
     \/ /\ email[r] \notin accounts
        /\ Goto(r, "finding")
        /\ UNCHANGED <<tables, lock, email, row, token, at, tries, result>>

\* The clock is read, and findPendingByEmailForUpdate starts: it sees the row
\* that is open now, and may have to wait for it.
Find(r) ==
  /\ pc[r] = "finding"
  /\ at' = [at EXCEPT ![r] = now]
  /\ \/ /\ Open(email[r]) = {}
        /\ Goto(r, "inserting")
        /\ UNCHANGED row
     \/ /\ \E i \in Open(email[r]) : row' = [row EXCEPT ![r] = i]
        /\ Goto(r, "locking")
  /\ UNCHANGED <<tables, lock, email, token, tries, result>>

\* The row is free.  If it is still open and valid: 409 INVITATION_ALREADY_PENDING.
\* If it is open and expired, it will be replaced; if it was closed meanwhile, the
\* query returns nothing.
LockPending(r) ==
  /\ pc[r] = "locking"
  /\ Free(row[r])
  /\ \/ IsValid(row[r], at[r]) /\ EndUnchanged(r)
     \/ /\ ~IsValid(row[r], at[r])
        /\ \/ rows[row[r]].state = "PENDING" /\ TakeLock(r) /\ UNCHANGED row
           \/ /\ rows[row[r]].state # "PENDING"
              /\ row' = [row EXCEPT ![r] = 0]
              /\ UNCHANGED lock
        /\ Goto(r, "inserting")
        /\ UNCHANGED <<tables, email, token, at, tries, result>>

\* Another open row of the address, committed since.
Rivals(r) == Open(email[r]) \ {row[r]}

\* The token is committed with its row; what the request read is forgotten.
Issued(r) ==
  /\ issued' = issued + 1
  /\ token' = [token EXCEPT ![r] = issued + 1]
  /\ Unlock(r)
  /\ Goto(r, "sending")
  /\ email' = [email EXCEPT ![r] = NoEmail]
  /\ at' = [at EXCEPT ![r] = 0]
  /\ tries' = [tries EXCEPT ![r] = 0]

NewRow(r) ==
  [state |-> "PENDING", email |-> email[r], token |-> issued + 1,
   expires |-> at[r] + Validity, sent |-> "PENDING", ended |-> Null]

Closed(i, state, time) == [rows[i] EXCEPT !.state = state, !.ended = time]

\* Mutant: the address of an open invitation is not kept unique.
MutInsert(r) ==
  /\ pc[r] = "inserting"
  /\ issued < MaxTokens
  /\ rows' = [i \in Tokens |-> IF i = issued + 1 THEN NewRow(r)
                               ELSE IF i = row[r] THEN Closed(i, "REPLACED", at[r])
                               ELSE rows[i]]
  /\ row' = [row EXCEPT ![r] = issued + 1]
  /\ Issued(r)
  /\ UNCHANGED <<accounts, by, result>>

\* The expired row is replaced, the new one inserted, and both committed.
Insert(r) ==
  /\ pc[r] = "inserting"
  /\ Rivals(r) = {}
  /\ issued < MaxTokens
  /\ rows' = [i \in Tokens |-> IF i = issued + 1 THEN NewRow(r)
                               ELSE IF i = row[r] THEN Closed(i, "REPLACED", at[r])
                               ELSE rows[i]]
  /\ row' = [row EXCEPT ![r] = issued + 1]
  /\ Issued(r)
  /\ UNCHANGED <<accounts, by, result>>

\* UK_INVITATIONS_PENDING_EMAIL is violated, and the transaction rolled back.
Lose(r) ==
  /\ pc[r] = "inserting"
  /\ Rivals(r) # {}
  /\ Unlock(r)
  /\ row' = [row EXCEPT ![r] = 0]
  /\ Goto(r, "losing")
  /\ UNCHANGED <<tables, email, token, at, tries, result>>

\* The winner is open: 409 INVITATION_ALREADY_PENDING.  It is not any more: once
\* again from the start, and after the second time an error.
ReadWinner(r) ==
  /\ pc[r] = "losing"
  /\ \/ Open(email[r]) # {} /\ EndUnchanged(r)
     \/ Open(email[r]) = {} /\ tries[r] = 2 /\ EndUnchanged(r)
     \/ /\ Open(email[r]) = {} /\ tries[r] = 1
        /\ tries' = [tries EXCEPT ![r] = 2]
        /\ Goto(r, "checking")
        /\ UNCHANGED <<tables, lock, email, row, token, at, result>>

-----------------------------------------------------------------------------
\* The mail goes out; a failure may be reported although it arrived.
Send(r) ==
  /\ pc[r] = "sending"
  /\ \/ /\ result' = [result EXCEPT ![r] = "SENT"]
        /\ mailed' = mailed \cup {token[r]}
     \/ /\ result' = [result EXCEPT ![r] = "FAILED"]
        /\ mailed' \in {mailed, mailed \cup {token[r]}}
  /\ Goto(r, "recording")
  /\ UNCHANGED <<tables, lock, email, row, token, at, tries>>

\* Mutant: the result is written whatever token the row has now.
MutSameMail(r) == rows[row[r]].state # "ABSENT" /\ rows[row[r]].sent = "PENDING"

\* The row still waits for the result of this mail.
SameMail(r) == rows[row[r]].token = token[r] /\ rows[row[r]].sent = "PENDING"

\* recordSendResult.
Record(r) ==
  /\ pc[r] = "recording"
  /\ Free(row[r])
  /\ rows' = IF SameMail(r) THEN [rows EXCEPT ![row[r]].sent = result[r]] ELSE rows
  /\ End(r)
  /\ UNCHANGED <<accounts, issued, by>>

\* resend and cancel, of an invitation from the list.
ResendOrCancel(r) ==
  /\ pc[r] = "idle"
  /\ \E i \in Tokens :
       /\ rows[i].state # "ABSENT"
       /\ row' = [row EXCEPT ![r] = i]
  /\ \/ Room /\ Goto(r, "resending")
     \/ Goto(r, "cancelling")
  /\ UNCHANGED <<tables, lock, email, token, at, tries, result>>

\* findByIdForUpdate returns: 404 INVITATION_NOT_FOUND unless it is open.
LockOpen(r) ==
  /\ pc[r] \in {"resending", "cancelling"}
  /\ Free(row[r])
  /\ \/ rows[row[r]].state # "PENDING" /\ EndUnchanged(r)
     \/ /\ rows[row[r]].state = "PENDING"
        /\ TakeLock(r)
        /\ at' = [at EXCEPT ![r] = now]
        /\ Goto(r, IF pc[r] = "resending" THEN "renewing" ELSE "closing")
        /\ UNCHANGED <<tables, email, row, token, tries, result>>

\* A new token and a new expiry, even of an invitation that had expired.
Renew(r) ==
  /\ pc[r] = "renewing"
  /\ issued < MaxTokens
  /\ rows' = [rows EXCEPT ![row[r]] = [@ EXCEPT !.token = issued + 1,
                                                !.expires = at[r] + Validity,
                                                !.sent = "PENDING"]]
  /\ Issued(r)
  /\ UNCHANGED <<accounts, by, row, result>>

Close(r) ==
  /\ pc[r] = "closing"
  /\ rows' = [rows EXCEPT ![row[r]] = Closed(row[r], "CANCELLED", at[r])]
  /\ End(r)
  /\ UNCHANGED <<accounts, issued, by>>

-----------------------------------------------------------------------------
\* complete, with the token of a mail: findByTokenHashForUpdate sees its row; of a
\* token that no row has, nothing changes.
Complete(r) ==
  /\ pc[r] = "idle"
  /\ \E t \in mailed, i \in Tokens :
       /\ rows[i].token = t
       /\ token' = [token EXCEPT ![r] = t]
       /\ row' = [row EXCEPT ![r] = i]
  /\ Goto(r, "opening")
  /\ UNCHANGED <<tables, lock, email, at, tries, result>>

\* Mutant: the hash is not compared with that of the row that was waited for.
MutAccepted(r) == IsValid(row[r], now)

\* The row still has the token, and rejectionOf finds nothing against it.
Accepted(r) == rows[row[r]].token = token[r] /\ IsValid(row[r], now)

LockLink(r) ==
  /\ pc[r] = "opening"
  /\ Free(row[r])
  /\ \/ ~Accepted(r) /\ EndUnchanged(r)
     \/ /\ Accepted(r)
        /\ TakeLock(r)
        /\ at' = [at EXCEPT ![r] = now]
        /\ Goto(r, "registering")
        /\ UNCHANGED <<tables, email, row, token, tries, result>>

\* Mutant: an invitation whose address has an account is marked completed.
MutRegister(r) ==
  /\ pc[r] = "registering"
  /\ accounts' = accounts \cup {rows[row[r]].email}
  /\ rows' = [rows EXCEPT ![row[r]] = Closed(row[r], "COMPLETED", at[r])]
  /\ by' = IF rows[row[r]].email \in accounts THEN by
           ELSE [by EXCEPT ![rows[row[r]].email] = token[r]]
  /\ End(r)
  /\ UNCHANGED issued

\* createUser and Invitation.complete, in one transaction, which is rolled back if
\* the address has an account.
Register(r) ==
  /\ pc[r] = "registering"
  /\ \/ rows[row[r]].email \in accounts /\ EndUnchanged(r)
     \/ /\ rows[row[r]].email \notin accounts
        /\ accounts' = accounts \cup {rows[row[r]].email}
        /\ rows' = [rows EXCEPT ![row[r]] = Closed(row[r], "COMPLETED", at[r])]
        /\ by' = [by EXCEPT ![rows[row[r]].email] = token[r]]
        /\ End(r)
        /\ UNCHANGED issued

-----------------------------------------------------------------------------
\* A row is not freed within the lock timeout: RowLockUnavailableException.
LockTimeout(r) ==
  /\ pc[r] \in {"locking", "recording", "resending", "cancelling", "opening"}
  /\ ~Free(row[r])
  /\ EndUnchanged(r)

\* One request of an administrator or an invited person takes a step.
Start(r) == Invite(r) \/ ResendOrCancel(r) \/ Complete(r)

Continue(r) ==
  \/ Check(r) \/ Find(r) \/ LockPending(r) \/ Insert(r) \/ Lose(r) \/ ReadWinner(r)
  \/ Record(r) \/ LockOpen(r) \/ Renew(r) \/ Close(r)
  \/ LockLink(r) \/ Register(r) \/ LockTimeout(r)

Request(r) ==
  /\ \/ (Start(r) \/ Continue(r)) /\ UNCHANGED mailed
     \/ Send(r)
  /\ UNCHANGED <<now, job, faults>>

-----------------------------------------------------------------------------
\* InvitationCleanupJob.run: first the ended rows, then the open ones that expired.
EndedBefore(i, time) == rows[i].state \in Ended /\ rows[i].ended <= time
ExpiredBefore(i, time) == rows[i].state = "PENDING" /\ rows[i].expires <= time

Matches(i) ==
  IF pass = "ended" THEN EndedBefore(i, cutoff) ELSE ExpiredBefore(i, cutoff)

\* A run of the job ends.
JobEnd == jpc' = "idle" /\ pass' = "ended" /\ cutoff' = 0 /\ picked' = {}

\* A run that would find nothing changes nothing and is left out.
JobStart ==
  /\ jpc = "idle"
  /\ \E i \in Tokens : EndedBefore(i, now - Retention) \/ ExpiredBefore(i, now - Retention)
  /\ jpc' = "selecting"
  /\ pass' = "ended"
  /\ cutoff' = now - Retention
  /\ UNCHANGED <<tables, lock, picked>>

\* The statement's subquery picks the first ids that match.
JobSelect ==
  /\ jpc = "selecting"
  /\ LET found == {i \in Tokens : Matches(i)}
     IN  picked' = {i \in found : Cardinality({j \in found : j < i}) < BatchSize}
  /\ jpc' = "deleting"
  /\ UNCHANGED <<tables, lock, pass, cutoff>>

\* Its outer condition is evaluated again on each of them once it is free.
Doomed == {i \in picked : Matches(i)}

\* Mutant: open invitations that expired are never deleted.
MutJobDelete ==
  /\ jpc = "deleting"
  /\ \A i \in Doomed : Free(i)
  /\ rows' = [i \in Tokens |-> IF i \in Doomed THEN Absent ELSE rows[i]]
  /\ \/ /\ Cardinality(Doomed) = BatchSize
        /\ jpc' = "selecting" /\ picked' = {}
        /\ UNCHANGED <<pass, cutoff>>
     \/ Cardinality(Doomed) # BatchSize /\ JobEnd
  /\ UNCHANGED <<accounts, issued, by, lock>>

\* A batch is deleted; after a full one the next, and after the others the open
\* ones' turn.
JobDelete ==
  /\ jpc = "deleting"
  /\ \A i \in Doomed : Free(i)
  /\ rows' = [i \in Tokens |-> IF i \in Doomed THEN Absent ELSE rows[i]]
  /\ \/ /\ Cardinality(Doomed) = BatchSize
        /\ jpc' = "selecting" /\ picked' = {}
        /\ UNCHANGED <<pass, cutoff>>
     \/ /\ Cardinality(Doomed) # BatchSize
        /\ pass = "ended" /\ pass' = "expired"
        /\ jpc' = "selecting" /\ picked' = {}
        /\ UNCHANGED cutoff
     \/ Cardinality(Doomed) # BatchSize /\ pass = "expired" /\ JobEnd
  /\ UNCHANGED <<accounts, issued, by, lock>>

Job == (JobStart \/ JobSelect \/ JobDelete) /\ UNCHANGED <<mailed, now, locals, faults>>

-----------------------------------------------------------------------------
Tick ==
  /\ now < MaxNow
  /\ now' = now + 1
  /\ UNCHANGED <<tables, lock, mailed, locals, job, faults>>

\* The database or the mail fails unexpectedly: the transaction is rolled back.
Fail ==
  /\ faults < MaxFaults
  /\ faults' = faults + 1
  /\ \/ /\ \E r \in Reqs : pc[r] # "idle" /\ EndUnchanged(r)
        /\ UNCHANGED job
     \/ /\ jpc # "idle"
        /\ JobEnd
        /\ UNCHANGED <<tables, lock, locals>>
  /\ UNCHANGED <<mailed, now>>

\* The process dies and is started again.
Crash ==
  /\ faults < MaxFaults
  /\ faults' = faults + 1
  /\ lock' = [i \in Tokens |-> NoReq]
  /\ pc' = [r \in Reqs |-> "idle"]
  /\ email' = [r \in Reqs |-> NoEmail]
  /\ row' = [r \in Reqs |-> 0]
  /\ token' = [r \in Reqs |-> 0]
  /\ at' = [r \in Reqs |-> 0]
  /\ tries' = [r \in Reqs |-> 0]
  /\ result' = [r \in Reqs |-> "PENDING"]
  /\ JobEnd
  /\ UNCHANGED <<tables, mailed, now>>

Next == (\E r \in Reqs : Request(r)) \/ Job \/ Tick \/ Fail \/ Crash

Spec == Init /\ [][Next]_vars

\* Every request runs on a thread of its own, the scheduler starts the job every
\* day, and time passes; nothing is assumed of administrators or invited people.
Fairness ==
  /\ WF_vars(Tick)
  /\ WF_vars(Job)
  /\ \A r \in Reqs :
       WF_vars(((Continue(r) /\ UNCHANGED mailed) \/ Send(r))
                 /\ UNCHANGED <<now, job, faults>>)

FairSpec == Spec /\ Fairness

-----------------------------------------------------------------------------
(***************************************************************************)
(* Properties.                                                             *)
(***************************************************************************)

\* Two invitations of one address at the same time, with or without an expired one
\* to replace, leave one open (issueInTransaction and UK_INVITATIONS_PENDING_EMAIL).
OneOpenInvitation == \A e \in Emails : \A i, j \in Open(e) : i = j

\* The link of an invitation that was cancelled or replaced has made no account and
\* never does, even if it was being used meanwhile (cancel, replace and complete of
\* Invitation under the lock of its row).
CancelIsFinal ==
  \A i \in Tokens : rows[i].state \in {"CANCELLED", "REPLACED"} =>
    \A e \in Emails : by[e] # rows[i].token

\* The account and the completed invitation are there together or not at all
\* (RegistrationService.completeInTransaction).
RegistrationIsAtomic ==
  \A i \in Tokens : \A e \in Emails :
    (rows[i].state = "COMPLETED" /\ rows[i].email = e)
      <=> (by[e] # 0 /\ by[e] = rows[i].token /\ e \in accounts)

\* Nobody registers after the expiry, and only an expired invitation is replaced,
\* although both may have waited for the row while it was resent.
EndedInTime ==
  \A i \in Tokens :
    /\ rows[i].state = "COMPLETED" => rows[i].ended < rows[i].expires
    /\ rows[i].state = "REPLACED" => rows[i].ended >= rows[i].expires

\* An invitation that shows SENT was sent the token it has now, not one before a
\* resend (InvitationRepository.recordSendResult).
SentMeansMailed ==
  \A i \in Tokens : rows[i].sent = "SENT" => rows[i].token \in mailed

\* The cleanup deletes nothing that is younger than the retention, even if it was
\* resent after it had been picked (InvitationRepository.deleteExpiredPendingBefore).
FreshRowsStay ==
  [][\A i \in Tokens :
       (rows[i].state # "ABSENT" /\ rows'[i].state = "ABSENT") =>
         (IF rows[i].state = "PENDING" THEN rows[i].expires ELSE rows[i].ended)
           + Retention <= now]_vars

\* For each address one link opens the registration, it is dead for good after a
\* resend, a cancellation or a replacement, and an account is made through it only.
OpenLink(e) ==
  IF Open(e) = {} THEN 0 ELSE rows[CHOOSE i \in Open(e) : TRUE].token

Links == INSTANCE RegistrationLinks WITH link <- [e \in Emails |-> OpenLink(e)]
LinkSpec == Links!LinkSpec

\* Whatever ended, or expired, is deleted once the retention is over
\* (InvitationCleanupJob.run, after failures too).
Due(i) ==
  \/ rows[i].state \in Ended /\ rows[i].ended + Retention <= MaxNow
  \/ rows[i].state = "PENDING" /\ rows[i].expires + Retention <= MaxNow

DueRowsGo == \A i \in Tokens : Due(i) ~> ~Due(i)

\* InvitationCleanupJob: all that is past its retention goes in the end, and
\* nothing goes before.
CleanupTakesWhatIsDue == FreshRowsStay /\ DueRowsGo

\* rules.md of u3-invitation, BR2.7: once a registration is complete, an invitation
\* of its address is refused, for it has a user.  The code does not keep it: see
\* the README.
RegisteredNotInvited ==
  [][\A i \in Tokens :
       (rows[i].state = "ABSENT" /\ rows'[i].state = "PENDING")
         => rows'[i].email \notin accounts]_vars
=============================================================================
