-------------------------- MODULE InvitationsProofs --------------------------
(***************************************************************************)
(* Proofs about Invitations, for any number of requests, addresses and     *)
(* tokens.  The invariant says what each step of a request knows: above    *)
(* all, that a row stays as it was read as long as its lock is held.       *)
(***************************************************************************)
EXTENDS Invitations, TLAPS

LocalTypes ==
  /\ lock \in [Tokens -> Reqs \cup {NoReq}]
  /\ pc \in [Reqs -> PCs]
  /\ email \in [Reqs -> Emails \cup {NoEmail}]
  /\ row \in [Reqs -> 0..MaxTokens]
  /\ token \in [Reqs -> 0..MaxTokens]
  /\ at \in [Reqs -> Nat]
  /\ tries \in [Reqs -> 0..2]
  /\ result \in [Reqs -> {"PENDING", "SENT", "FAILED"}]

TableTypes ==
  /\ rows \in [Tokens -> Row]
  /\ accounts \subseteq Emails
  /\ issued \in 0..MaxTokens
  /\ mailed \subseteq 1..issued
  /\ by \in [Emails -> 0..MaxTokens]

JobOK ==
  /\ now \in Nat
  /\ jpc \in {"idle", "selecting", "deleting"}
  /\ pass \in {"ended", "expired"}
  /\ cutoff \in Int
  /\ picked \subseteq Tokens
  /\ faults \in 0..MaxFaults
  /\ jpc # "idle" => cutoff + Retention <= now

\* Request r holds the lock of its row.
Holds(r) ==
  \/ pc[r] \in {"renewing", "closing", "registering"}
  \/ pc[r] = "inserting" /\ row[r] # 0

\* What request r knows at each of its steps.
Knows(r) ==
  /\ pc[r] \in {"checking", "finding", "locking", "inserting", "losing"} => email[r] \in Emails
  /\ pc[r] \in {"locking", "sending", "recording", "resending", "cancelling", "opening"}
       => row[r] \in Tokens
  /\ pc[r] = "locking" =>
       row[r] <= issued /\ (rows[row[r]].state = "PENDING" => rows[row[r]].email = email[r])
  /\ pc[r] \in {"sending", "recording", "opening", "registering"} => token[r] \in 1..issued
  /\ pc[r] \in {"idle", "checking", "finding", "losing"} => row[r] = 0
  /\ pc[r] = "recording" /\ result[r] = "SENT" => token[r] \in mailed
  /\ Holds(r) => /\ row[r] \in Tokens
                 /\ lock[row[r]] = r
                 /\ rows[row[r]].state = "PENDING"
  /\ pc[r] = "inserting" /\ row[r] # 0 =>
       rows[row[r]].email = email[r] /\ at[r] >= rows[row[r]].expires
  /\ pc[r] = "registering" =>
       rows[row[r]].token = token[r] /\ at[r] < rows[row[r]].expires

Locks == \A i \in Tokens : \A k \in Reqs : lock[i] = k => Holds(k) /\ row[k] = i

\* The rows: each has a token of its own, and none was used before it was issued.
RowsOK ==
  \A i \in Tokens :
    /\ rows[i].token = 0 <=> rows[i].state = "ABSENT"
    /\ rows[i].token <= issued
    /\ i > issued => rows[i] = Absent
    /\ rows[i].state # "ABSENT" => rows[i].email \in Emails
    /\ \A j \in Tokens : rows[i].token # 0 /\ rows[i].token = rows[j].token => i = j

ByOK == \A e \in Emails : by[e] <= issued /\ (by[e] # 0 => e \in accounts)

Tables ==
  /\ RowsOK /\ ByOK
  /\ OneOpenInvitation
  /\ RegistrationIsAtomic
  /\ EndedInTime
  /\ SentMeansMailed

Inv ==
  /\ LocalTypes /\ TableTypes /\ JobOK
  /\ \A r \in Reqs : Knows(r)
  /\ Locks
  /\ Tables

LEMMA TypesOfInv == Inv => TypeOK
  BY DEF Inv, LocalTypes, TableTypes, JobOK, TypeOK

LEMMA InvInit == Init => Inv
  <1> SUFFICES ASSUME Init PROVE Inv
    OBVIOUS
  <1> USE NobodyAssumption, SettingsAssumption, BoundsAssumption DEF Init
  <1>1. LocalTypes /\ JobOK
    BY DEF LocalTypes, JobOK, Tokens, PCs
  <1>2. TableTypes
    BY DEF TableTypes, Row, Absent, Null, Tokens, Ended
  <1>3. (\A r \in Reqs : Knows(r)) /\ Locks
    BY DEF Knows, Holds, Locks
  <1>4. Tables
    BY DEF Tables, RowsOK, ByOK, OneOpenInvitation, Open, RegistrationIsAtomic, EndedInTime,
       SentMeansMailed, Absent, Tokens, Ended
  <1> QED
    BY <1>1, <1>2, <1>3, <1>4 DEF Inv

-----------------------------------------------------------------------------
(* The frame of a step of one request: what it leaves to the others.       *)

Others(r) ==
  \A k \in Reqs \ {r} :
    /\ pc'[k] = pc[k] /\ email'[k] = email[k] /\ row'[k] = row[k]
    /\ token'[k] = token[k] /\ at'[k] = at[k] /\ result'[k] = result[k]
    /\ \A i \in Tokens : lock[i] = k <=> lock'[i] = k

\* Of a row that another request holds, nothing changes.
Respects(r) == \A i \in Tokens : lock[i] \in Reqs \ {r} => rows'[i] = rows[i]

\* The locks of r after the step are that of its row.
OwnLocks(r) == \A i \in Tokens : lock'[i] = r => Holds(r)' /\ row'[r] = i

Grows == issued <= issued' /\ mailed \subseteq mailed'

\* A row is never opened again, and keeps its address.
Reopens(i) ==
  rows'[i].state = "PENDING" =>
    rows[i].state = "PENDING" /\ rows'[i].email = rows[i].email
NoneReopens == \A i \in Tokens : i <= issued => Reopens(i)

LEMMA FrameKeeps ==
  ASSUME Inv, NEW r \in Reqs, JobOK',
         LocalTypes', TableTypes', Tables',
         Others(r), Respects(r), OwnLocks(r), Grows, NoneReopens, Knows(r)'
  PROVE  Inv'
  <1>1. ASSUME NEW k \in Reqs \ {r} PROVE Knows(k)'
    <2>1. Knows(k) /\ issued \in Nat /\ issued' \in Nat
      BY BoundsAssumption DEF Inv, TableTypes
    <2>2. /\ pc'[k] = pc[k] /\ email'[k] = email[k] /\ row'[k] = row[k]
          /\ token'[k] = token[k] /\ at'[k] = at[k] /\ result'[k] = result[k]
          /\ \A i \in Tokens : lock[i] = k <=> lock'[i] = k
      BY DEF Others
    <2>3. Holds(k)' <=> Holds(k)
      BY <2>2 DEF Holds
    <2>4. Holds(k) => rows'[row[k]] = rows[row[k]] /\ row[k] \in Tokens
      BY <2>1 DEF Knows, Respects
    <2>5. pc[k] = "locking" => row[k] \in Tokens /\ row[k] <= issued /\ Reopens(row[k])
      BY <2>1 DEF Knows, NoneReopens
    <2>6. pc'[k] = "locking" =>
            /\ row'[k] <= issued'
            /\ rows'[row'[k]].state = "PENDING" => rows'[row'[k]].email = email'[k]
      <3>1. row[k] \in Nat
        BY BoundsAssumption DEF Inv, LocalTypes
      <3> QED
        BY <2>1, <2>2, <2>5, <3>1 DEF Knows, Grows, Reopens
    <2> QED
      BY <2>1, <2>2, <2>3, <2>4, <2>6 DEF Knows, Grows, Holds
  <1>2. Locks'
    <2> SUFFICES ASSUME NEW i \in Tokens, NEW k \in Reqs, lock'[i] = k
                 PROVE  Holds(k)' /\ row'[k] = i
      BY DEF Locks
    <2>1. CASE k = r
      BY <2>1 DEF OwnLocks
    <2>2. CASE k # r
      <3>1. Holds(k) /\ row[k] = i /\ pc'[k] = pc[k] /\ row'[k] = row[k]
        BY <2>2 DEF Inv, Locks, Others
      <3> QED
        BY <3>1 DEF Holds
    <2> QED
      BY <2>1, <2>2
  <1> QED
    BY <1>1, <1>2 DEF Inv

LEMMA StepKeeps ==
  ASSUME Inv, NEW r \in Reqs, UNCHANGED <<now, job, faults>>,
         LocalTypes', TableTypes', Tables',
         Others(r), Respects(r), OwnLocks(r), Grows, NoneReopens, Knows(r)'
  PROVE  Inv'
  <1>1. JobOK'
    BY DEF Inv, JobOK, job
  <1> QED
    BY <1>1, FrameKeeps

\* A request that ends gives its locks back, and knows nothing.
LEMMA EndFrame ==
  ASSUME Inv, NEW r \in Reqs, End(r)
  PROVE  LocalTypes' /\ Others(r) /\ OwnLocks(r) /\ Knows(r)'
  <1>1. LocalTypes'
    BY BoundsAssumption DEF Inv, LocalTypes, End, Unlock, Goto, PCs
  <1>2. Others(r)
    BY NobodyAssumption DEF Inv, LocalTypes, Others, End, Unlock, Goto
  <1>3. pc'[r] = "idle" /\ row'[r] = 0 /\ OwnLocks(r)
    BY NobodyAssumption DEF Inv, LocalTypes, OwnLocks, End, Unlock, Goto
  <1> QED
    BY <1>1, <1>2, <1>3 DEF Knows, Holds

LEMMA TablesStay ==
  ASSUME Inv, UNCHANGED tables, mailed \subseteq mailed', mailed' \subseteq 1..issued'
  PROVE  TableTypes' /\ Tables' /\ Grows /\ NoneReopens
  <1>1. TableTypes' /\ Grows /\ NoneReopens
    BY BoundsAssumption DEF Inv, TableTypes, tables, Grows, NoneReopens, Reopens
  <1>2. Tables'
    <2>1. rows' = rows /\ accounts' = accounts /\ issued' = issued /\ by' = by
      BY DEF tables
    <2>2. RowsOK' /\ ByOK'
      BY <2>1 DEF Inv, Tables, RowsOK, ByOK
    <2>3. OneOpenInvitation'
      BY <2>1 DEF Inv, Tables, OneOpenInvitation, Open
    <2>4. RegistrationIsAtomic' /\ EndedInTime'
      BY <2>1 DEF Inv, Tables, RegistrationIsAtomic, EndedInTime
    <2>5. SentMeansMailed'
      BY <2>1 DEF Inv, Tables, SentMeansMailed
    <2> QED
      BY <2>2, <2>3, <2>4, <2>5 DEF Tables
  <1> QED
    BY <1>1, <1>2

LEMMA EndUnchangedKeeps ==
  ASSUME Inv, NEW r \in Reqs, EndUnchanged(r), UNCHANGED <<mailed, now, job, faults>>
  PROVE  Inv'
  <1>1. LocalTypes' /\ Others(r) /\ OwnLocks(r) /\ Knows(r)'
    BY EndFrame DEF EndUnchanged
  <1>2. TableTypes' /\ Tables' /\ Grows /\ NoneReopens
    BY TablesStay DEF EndUnchanged, Inv, TableTypes, tables
  <1>3. Respects(r)
    BY DEF Respects, EndUnchanged, tables
  <1> QED
    BY <1>1, <1>2, <1>3, StepKeeps

\* A step that changes only the locals of the request.
LEMMA LocalKeeps ==
  ASSUME Inv, NEW r \in Reqs, UNCHANGED <<tables, mailed, now, job, faults>>,
         LocalTypes', Others(r), OwnLocks(r), Knows(r)'
  PROVE  Inv'
  <1>1. TableTypes' /\ Tables' /\ Grows /\ NoneReopens
    BY TablesStay DEF Inv, TableTypes, tables
  <1>2. Respects(r)
    BY DEF Respects, tables
  <1> QED
    BY <1>1, <1>2, StepKeeps

-----------------------------------------------------------------------------
(* Steps that change no table.                                             *)

LEMMA InviteKeeps ==
  ASSUME Inv, NEW r \in Reqs, Invite(r), UNCHANGED <<mailed, now, job, faults>>
  PROVE  Inv'
  <1> USE BoundsAssumption DEF Invite, Goto
  <1>1. LocalTypes'
    BY DEF Inv, LocalTypes, PCs
  <1>2. Others(r) /\ OwnLocks(r)
    BY DEF Inv, LocalTypes, Others, OwnLocks, Locks, Holds
  <1>3. Knows(r)'
    BY DEF Inv, LocalTypes, Knows, Holds
  <1> QED
    BY <1>1, <1>2, <1>3, LocalKeeps

LEMMA ResendOrCancelKeeps ==
  ASSUME Inv, NEW r \in Reqs, ResendOrCancel(r), UNCHANGED <<mailed, now, job, faults>>
  PROVE  Inv'
  <1> USE NobodyAssumption, BoundsAssumption DEF ResendOrCancel, Goto
  <1>0. LocalTypes /\ Knows(r) /\ Locks
    BY DEF Inv
  <1>1. PICK i \in 1..MaxTokens : row' = [row EXCEPT ![r] = i]
    BY DEF Tokens
  <1>2. LocalTypes'
    <2>1. row' \in [Reqs -> 0..MaxTokens]
      BY <1>0, <1>1 DEF LocalTypes
    <2>2. pc' \in [Reqs -> PCs]
      BY <1>0 DEF LocalTypes, PCs
    <2> QED
      BY <1>0, <2>1, <2>2 DEF LocalTypes
  <1>3. Others(r) /\ OwnLocks(r)
    BY <1>0, <1>1 DEF LocalTypes, Others, OwnLocks, Locks, Holds
  <1>4. Knows(r)'
    BY <1>0, <1>1 DEF LocalTypes, Knows, Holds, Tokens
  <1> QED
    BY <1>2, <1>3, <1>4, LocalKeeps

LEMMA CompleteKeeps ==
  ASSUME Inv, NEW r \in Reqs, Complete(r), UNCHANGED <<mailed, now, job, faults>>
  PROVE  Inv'
  <1> USE NobodyAssumption, BoundsAssumption DEF Complete, Goto
  <1>0. LocalTypes /\ Knows(r) /\ Locks /\ mailed \subseteq 1..issued /\ issued \in 0..MaxTokens
    BY DEF Inv, TableTypes
  <1>1. CASE EndUnchanged(r)
    BY <1>1, EndUnchangedKeeps
  <1>2. CASE ~EndUnchanged(r)
    <2>1. LocalTypes'
      BY <1>0, <1>2 DEF LocalTypes, PCs, Tokens
    <2>2. Others(r)
      BY <1>0, <1>2 DEF LocalTypes, Others
    <2>3. OwnLocks(r)
      BY <1>0, <1>2 DEF LocalTypes, OwnLocks, Locks, Holds
    <2>4. Knows(r)'
      BY <1>0, <1>2 DEF LocalTypes, Knows, Holds, tables, Tokens
    <2> QED
      BY <1>2, <2>1, <2>2, <2>3, <2>4, LocalKeeps
  <1> QED
    BY <1>1, <1>2

LEMMA CheckKeeps ==
  ASSUME Inv, NEW r \in Reqs, Check(r), UNCHANGED <<mailed, now, job, faults>>
  PROVE  Inv'
  <1> USE NobodyAssumption, BoundsAssumption DEF Check, Goto
  <1>0. LocalTypes /\ Knows(r) /\ Locks
    BY DEF Inv
  <1>1. CASE EndUnchanged(r)
    BY <1>1, EndUnchangedKeeps
  <1>2. CASE ~EndUnchanged(r)
    <2>1. LocalTypes'
      BY <1>0, <1>2 DEF LocalTypes, PCs
    <2>2. Others(r)
      BY <1>0, <1>2 DEF LocalTypes, Others
    <2>3. OwnLocks(r)
      BY <1>0, <1>2 DEF LocalTypes, OwnLocks, Locks, Holds
    <2>4. Knows(r)'
      BY <1>0, <1>2 DEF LocalTypes, Knows, Holds, tables
    <2> QED
      BY <1>2, <2>1, <2>2, <2>3, <2>4, LocalKeeps
  <1> QED
    BY <1>1, <1>2

LEMMA FindKeeps ==
  ASSUME Inv, NEW r \in Reqs, Find(r), UNCHANGED <<mailed, now, job, faults>>
  PROVE  Inv'
  <1> USE NobodyAssumption, BoundsAssumption DEF Find, Goto
  <1>0. LocalTypes /\ Knows(r) /\ Locks /\ now \in Nat
    BY DEF Inv, JobOK
  <1>1. Open(email[r]) \subseteq 1..MaxTokens
    BY DEF Open, Tokens
  <1>2. LocalTypes'
    <2>1. row' \in [Reqs -> 0..MaxTokens]
      BY <1>0, <1>1 DEF LocalTypes
    <2>2. pc' \in [Reqs -> PCs] /\ at' \in [Reqs -> Nat]
      BY <1>0 DEF LocalTypes, PCs
    <2> QED
      BY <1>0, <2>1, <2>2 DEF LocalTypes
  <1>3. Others(r)
    BY <1>0 DEF LocalTypes, Others
  <1>4. OwnLocks(r)
    BY <1>0 DEF LocalTypes, OwnLocks, Locks, Holds
  <1>5. Knows(r)'
    <2>1. \A i \in Open(email[r]) : /\ i <= issued
                                    /\ rows[i].state = "PENDING" /\ rows[i].email = email[r]
      BY BoundsAssumption DEF Open, Inv, Tables, RowsOK, Absent, TableTypes, Tokens
    <2> QED
      BY <1>0, <1>1, <2>1 DEF LocalTypes, Knows, Holds, Tokens, tables
  <1> QED
    BY <1>2, <1>3, <1>4, <1>5, LocalKeeps

LEMMA LockPendingKeeps ==
  ASSUME Inv, NEW r \in Reqs, LockPending(r), UNCHANGED <<mailed, now, job, faults>>
  PROVE  Inv'
  <1> USE NobodyAssumption, BoundsAssumption DEF LockPending, Goto
  <1>0. LocalTypes /\ Knows(r) /\ Locks /\ pc[r] = "locking" /\ row[r] \in Tokens
    BY DEF Inv, Knows
  <1>1. CASE EndUnchanged(r)
    BY <1>1, EndUnchangedKeeps
  <1>2. CASE ~EndUnchanged(r) /\ rows[row[r]].state = "PENDING"
    <2>1. /\ TakeLock(r) /\ Free(row[r]) /\ ~IsValid(row[r], at[r])
          /\ UNCHANGED <<row, tables, email, token, at, tries, result>>
          /\ pc' = [pc EXCEPT ![r] = "inserting"]
      BY <1>2
    <2>2. LocalTypes' /\ Others(r)
      BY <1>0, <2>1 DEF LocalTypes, PCs, Others, TakeLock, Free
    <2>3. OwnLocks(r)
      BY <1>0, <2>1 DEF LocalTypes, OwnLocks, Locks, Holds, TakeLock, Free, Tokens
    <2>4. Knows(r)'
      <3>1. rows[row[r]].expires \in Nat
        BY <1>0 DEF Inv, TableTypes, Row
      <3>2. rows[row[r]].email = email[r] /\ at[r] >= rows[row[r]].expires
        BY <1>0, <1>2, <2>1, <3>1 DEF LocalTypes, Knows, IsValid
      <3> QED
        BY <1>0, <1>2, <2>1, <3>2 DEF LocalTypes, Knows, Holds, TakeLock, tables
    <2> QED
      BY <2>1, <2>2, <2>3, <2>4, LocalKeeps
  <1>3. CASE ~EndUnchanged(r) /\ rows[row[r]].state # "PENDING"
    <2>1. /\ row' = [row EXCEPT ![r] = 0]
          /\ UNCHANGED <<lock, tables, email, token, at, tries, result>>
          /\ pc' = [pc EXCEPT ![r] = "inserting"]
      BY <1>3
    <2>2. LocalTypes' /\ Others(r)
      BY <1>0, <2>1 DEF LocalTypes, PCs, Others
    <2>3. OwnLocks(r)
      BY <1>0, <2>1 DEF LocalTypes, OwnLocks, Locks, Holds
    <2>4. Knows(r)'
      BY <1>0, <2>1 DEF LocalTypes, Knows, Holds
    <2> QED
      BY <2>1, <2>2, <2>3, <2>4, LocalKeeps
  <1> QED
    BY <1>1, <1>2, <1>3

LEMMA LoseKeeps ==
  ASSUME Inv, NEW r \in Reqs, Lose(r), UNCHANGED <<mailed, now, job, faults>>
  PROVE  Inv'
  <1> USE NobodyAssumption, BoundsAssumption DEF Lose, Goto, Unlock
  <1>0. LocalTypes /\ Knows(r) /\ Locks
    BY DEF Inv
  <1>1. CASE EndUnchanged(r)
    BY <1>1, EndUnchangedKeeps
  <1>2. CASE ~EndUnchanged(r)
    <2>1. LocalTypes'
      BY <1>0, <1>2 DEF LocalTypes, PCs
    <2>2. Others(r)
      BY <1>0, <1>2 DEF LocalTypes, Others
    <2>3. OwnLocks(r)
      BY <1>0, <1>2 DEF LocalTypes, OwnLocks, Locks, Holds
    <2>4. Knows(r)'
      BY <1>0, <1>2 DEF LocalTypes, Knows, Holds, tables
    <2> QED
      BY <1>2, <2>1, <2>2, <2>3, <2>4, LocalKeeps
  <1> QED
    BY <1>1, <1>2

LEMMA ReadWinnerKeeps ==
  ASSUME Inv, NEW r \in Reqs, ReadWinner(r), UNCHANGED <<mailed, now, job, faults>>
  PROVE  Inv'
  <1> USE NobodyAssumption, BoundsAssumption DEF ReadWinner, Goto
  <1>0. LocalTypes /\ Knows(r) /\ Locks
    BY DEF Inv
  <1>1. CASE EndUnchanged(r)
    BY <1>1, EndUnchangedKeeps
  <1>2. CASE ~EndUnchanged(r)
    <2>1. LocalTypes'
      BY <1>0, <1>2 DEF LocalTypes, PCs
    <2>2. Others(r)
      BY <1>0, <1>2 DEF LocalTypes, Others
    <2>3. OwnLocks(r)
      BY <1>0, <1>2 DEF LocalTypes, OwnLocks, Locks, Holds
    <2>4. Knows(r)'
      BY <1>0, <1>2 DEF LocalTypes, Knows, Holds, tables
    <2> QED
      BY <1>2, <2>1, <2>2, <2>3, <2>4, LocalKeeps
  <1> QED
    BY <1>1, <1>2

LEMMA LockOpenKeeps ==
  ASSUME Inv, NEW r \in Reqs, LockOpen(r), UNCHANGED <<mailed, now, job, faults>>
  PROVE  Inv'
  <1> USE NobodyAssumption, BoundsAssumption DEF LockOpen, Goto, TakeLock, Free
  <1>0. LocalTypes /\ Knows(r) /\ Locks /\ now \in Nat
    BY DEF Inv, JobOK
  <1>1. CASE EndUnchanged(r)
    BY <1>1, EndUnchangedKeeps
  <1>2. CASE ~EndUnchanged(r)
    <2>1. LocalTypes'
      BY <1>0, <1>2 DEF LocalTypes, PCs
    <2>2. Others(r)
      BY <1>0, <1>2 DEF LocalTypes, Others
    <2>3. OwnLocks(r)
      BY <1>0, <1>2 DEF LocalTypes, OwnLocks, Locks, Holds
    <2>4. Knows(r)'
      BY <1>0, <1>2 DEF LocalTypes, Knows, Holds, tables
    <2> QED
      BY <1>2, <2>1, <2>2, <2>3, <2>4, LocalKeeps
  <1> QED
    BY <1>1, <1>2

LEMMA LockLinkKeeps ==
  ASSUME Inv, NEW r \in Reqs, LockLink(r), UNCHANGED <<mailed, now, job, faults>>
  PROVE  Inv'
  <1> USE NobodyAssumption, BoundsAssumption DEF LockLink, Goto, TakeLock, Free, Accepted, IsValid
  <1>0. LocalTypes /\ Knows(r) /\ Locks /\ now \in Nat
    BY DEF Inv, JobOK
  <1>1. CASE EndUnchanged(r)
    BY <1>1, EndUnchangedKeeps
  <1>2. CASE ~EndUnchanged(r)
    <2>1. LocalTypes'
      BY <1>0, <1>2 DEF LocalTypes, PCs
    <2>2. Others(r)
      BY <1>0, <1>2 DEF LocalTypes, Others
    <2>3. OwnLocks(r)
      BY <1>0, <1>2 DEF LocalTypes, OwnLocks, Locks, Holds
    <2>4. Knows(r)'
      BY <1>0, <1>2 DEF LocalTypes, Knows, Holds, tables
    <2> QED
      BY <1>2, <2>1, <2>2, <2>3, <2>4, LocalKeeps
  <1> QED
    BY <1>1, <1>2

LEMMA LockTimeoutKeeps ==
  ASSUME Inv, NEW r \in Reqs, LockTimeout(r), UNCHANGED <<mailed, now, job, faults>>
  PROVE  Inv'
  BY EndUnchangedKeeps DEF LockTimeout

LEMMA SendKeeps ==
  ASSUME Inv, NEW r \in Reqs, Send(r), UNCHANGED <<now, job, faults>>
  PROVE  Inv'
  <1> USE NobodyAssumption, BoundsAssumption DEF Send, Goto
  <1>0. /\ LocalTypes /\ Knows(r) /\ Locks /\ mailed \subseteq 1..issued
        /\ token[r] \in 1..issued /\ issued' = issued
    BY DEF Inv, TableTypes, Knows, tables
  <1>1. TableTypes' /\ Tables' /\ Grows /\ NoneReopens
    BY <1>0, TablesStay
  <1>2. Respects(r)
    BY DEF Respects, tables
  <1>3. LocalTypes' /\ Others(r)
    BY <1>0 DEF LocalTypes, PCs, Others
  <1>4. OwnLocks(r)
    BY <1>0 DEF LocalTypes, OwnLocks, Locks, Holds
  <1>5. Knows(r)'
    BY <1>0 DEF LocalTypes, Knows, Holds
  <1> QED
    BY <1>1, <1>2, <1>3, <1>4, <1>5, StepKeeps

-----------------------------------------------------------------------------
(* Steps that change the tables.                                           *)

\* The state is kept, or an open row is closed: what any change of row i keeps.
LEMMA RowFrame ==
  ASSUME Inv, NEW i \in Tokens, NEW v \in Row, rows' = [rows EXCEPT ![i] = v]
  PROVE  /\ rows' \in [Tokens -> Row]
         /\ rows'[i] = v
         /\ \A j \in Tokens \ {i} : rows'[j] = rows[j]
  BY DEF Inv, TableTypes

LEMMA RecordKeeps ==
  ASSUME Inv, NEW r \in Reqs, Record(r), UNCHANGED <<mailed, now, job, faults>>
  PROVE  Inv'
  <1> USE BoundsAssumption
  <1>0. /\ LocalTypes /\ pc[r] = "recording" /\ row[r] \in Tokens /\ token[r] \in 1..issued
        /\ result[r] = "SENT" => token[r] \in mailed
        /\ Free(row[r]) /\ End(r) /\ UNCHANGED <<accounts, issued, by>>
    BY DEF Inv, Knows, Record
  <1>1. CASE ~SameMail(r)
    BY <1>0, <1>1, EndUnchangedKeeps DEF EndUnchanged, Record, tables
  <1>2. CASE SameMail(r)
    <2> DEFINE i == row[r]
               v == [rows[i] EXCEPT !.sent = result[r]]
    <2>1. rows' = [rows EXCEPT ![i] = v]
      BY <1>2 DEF Record, Inv, TableTypes
    <2>2. rows[i] \in Row
      BY <1>0 DEF Inv, TableTypes
    <2>3. /\ v \in Row /\ v.sent = result[r] /\ v.state = rows[i].state
          /\ v.email = rows[i].email /\ v.token = rows[i].token
          /\ v.expires = rows[i].expires /\ v.ended = rows[i].ended
      BY <1>0, <2>2 DEF Row, LocalTypes
    <2> HIDE DEF v
    <2>4. /\ rows' \in [Tokens -> Row]
          /\ \A j \in Tokens : /\ rows'[j].state = rows[j].state
                               /\ rows'[j].email = rows[j].email
                               /\ rows'[j].token = rows[j].token
                               /\ rows'[j].expires = rows[j].expires
                               /\ rows'[j].ended = rows[j].ended
          /\ \A j \in Tokens \ {i} : rows'[j] = rows[j]
          /\ rows'[i].sent = result[r]
      BY <1>0, <2>1, <2>3, RowFrame
    <2> HIDE DEF i
    <2>5. TableTypes' /\ Grows /\ NoneReopens
      BY <1>0, <2>4 DEF Inv, TableTypes, Grows, NoneReopens, Reopens
    <2>6. Respects(r)
      BY <1>0, <2>4, NobodyAssumption DEF Respects, Free, i
    <2>7. rows[i].token = token[r] /\ i \in Tokens
      BY <1>0, <1>2 DEF SameMail, i
    <2>8. RowsOK'
      <3>1. i <= issued
        BY <1>0, <2>7 DEF Inv, Tables, RowsOK, Absent, TableTypes, Tokens
      <3>2. \A j \in Tokens : j > issued => rows'[j] = Absent
        BY <2>4, <2>7, <3>1 DEF Inv, Tables, RowsOK, TableTypes, Tokens
      <3> QED
        BY <1>0, <2>4, <3>2 DEF Inv, Tables, RowsOK
    <2>9. ByOK' /\ OneOpenInvitation' /\ RegistrationIsAtomic' /\ EndedInTime'
      BY <1>0, <2>4 DEF Inv, Tables, ByOK, OneOpenInvitation, Open, RegistrationIsAtomic,
         EndedInTime
    <2>10. SentMeansMailed'
      BY <1>0, <2>4, <2>7 DEF Inv, Tables, SentMeansMailed
    <2> QED
      BY <1>0, <2>5, <2>6, <2>8, <2>9, <2>10, EndFrame, StepKeeps DEF Tables
  <1> QED
    BY <1>1, <1>2

LEMMA CloseKeeps ==
  ASSUME Inv, NEW r \in Reqs, Close(r), UNCHANGED <<mailed, now, job, faults>>
  PROVE  Inv'
  <1> USE BoundsAssumption
  <1> DEFINE i == row[r]
             v == Closed(i, "CANCELLED", at[r])
  <1>0. /\ LocalTypes /\ i \in Tokens /\ lock[i] = r /\ rows[i].state = "PENDING"
        /\ End(r) /\ UNCHANGED <<accounts, issued, by>>
        /\ rows' = [rows EXCEPT ![i] = v]
    BY DEF Inv, Knows, Holds, Close
  <1>1. rows[i] \in Row
    BY <1>0 DEF Inv, TableTypes
  <1>2. /\ v \in Row /\ v.sent = rows[i].sent /\ v.state = "CANCELLED"
        /\ v.email = rows[i].email /\ v.token = rows[i].token
    BY <1>0, <1>1 DEF Row, LocalTypes, Closed, Ended
  <1> HIDE DEF v
  <1>3. /\ rows' \in [Tokens -> Row] /\ rows'[i] = v
        /\ \A j \in Tokens \ {i} : rows'[j] = rows[j]
    BY <1>0, <1>2, RowFrame
  <1> HIDE DEF i
  <1>4. TableTypes' /\ Grows /\ NoneReopens
    BY <1>0, <1>2, <1>3 DEF Inv, TableTypes, Grows, NoneReopens, Reopens
  <1>5. Respects(r)
    BY <1>0, <1>3 DEF Respects
  <1>6. RowsOK'
    <2>1. \A j \in Tokens : j > issued => rows'[j] = Absent
      BY <1>0, <1>3 DEF Inv, Tables, RowsOK, TableTypes, Tokens, Absent
    <2> QED
      BY <1>0, <1>2, <1>3, <2>1 DEF Inv, Tables, RowsOK
  <1>7. ByOK' /\ SentMeansMailed'
    BY <1>0, <1>2, <1>3 DEF Inv, Tables, ByOK, SentMeansMailed
  <1>8. OneOpenInvitation'
    BY <1>0, <1>2, <1>3 DEF Inv, Tables, OneOpenInvitation, Open
  <1>9. RegistrationIsAtomic'
    BY <1>0, <1>2, <1>3 DEF Inv, Tables, RegistrationIsAtomic
  <1>10. EndedInTime'
    BY <1>0, <1>2, <1>3 DEF Inv, Tables, EndedInTime
  <1> QED
    BY <1>0, <1>4, <1>5, <1>6, <1>7, <1>8, <1>9, <1>10, EndFrame, StepKeeps DEF Tables

LEMMA RegisterKeeps ==
  ASSUME Inv, NEW r \in Reqs, Register(r), UNCHANGED <<mailed, now, job, faults>>
  PROVE  Inv'
  <1> USE BoundsAssumption
  <1>1. CASE EndUnchanged(r)
    BY <1>1, EndUnchangedKeeps
  <1>2. CASE ~EndUnchanged(r)
    <2> DEFINE i == row[r]
               v == Closed(i, "COMPLETED", at[r])
               e == rows[i].email
               t == token[r]
    <2>0. /\ LocalTypes /\ i \in Tokens /\ lock[i] = r /\ rows[i].state = "PENDING"
          /\ rows[i].token = t /\ t \in 1..issued /\ at[r] < rows[i].expires
          /\ End(r) /\ issued' = issued /\ e \notin accounts
          /\ rows' = [rows EXCEPT ![i] = v]
          /\ accounts' = accounts \cup {e} /\ by' = [by EXCEPT ![e] = t]
      BY <1>2 DEF Inv, Knows, Holds, Register
    <2>1. rows[i] \in Row /\ e \in Emails
      BY <2>0 DEF Inv, TableTypes, Tables, RowsOK
    <2>2. /\ v \in Row /\ v.sent = rows[i].sent /\ v.state = "COMPLETED"
          /\ v.email = e /\ v.token = t
          /\ v.expires = rows[i].expires /\ v.ended = at[r]
      BY <2>0, <2>1 DEF Row, LocalTypes, Closed, Ended
    <2> HIDE DEF v, e, t
    <2>3. /\ rows' \in [Tokens -> Row] /\ rows'[i] = v
          /\ \A j \in Tokens \ {i} : rows'[j] = rows[j]
      BY <2>0, <2>2, RowFrame
    <2>4. rows[i].email = e
      BY DEF e
    <2> HIDE DEF i
    <2>5. TableTypes' /\ Grows /\ NoneReopens
      BY <2>0, <2>1, <2>2, <2>3 DEF Inv, TableTypes, Grows, NoneReopens, Reopens
    <2>6. Respects(r)
      BY <2>0, <2>3 DEF Respects
    <2>7. RowsOK'
      <3>1. ~(i > issued)
        BY <2>0 DEF Inv, Tables, RowsOK, Absent
      <3>2. \A j \in Tokens : j > issued => rows'[j] = Absent
        BY <2>0, <2>3, <3>1 DEF Inv, Tables, RowsOK
      <3> QED
        BY <2>0, <2>1, <2>2, <2>3, <3>2 DEF Inv, Tables, RowsOK
    <2>8. ByOK' /\ SentMeansMailed'
      BY <2>0, <2>1, <2>2, <2>3 DEF Inv, Tables, ByOK, SentMeansMailed, TableTypes
    <2>9. OneOpenInvitation'
      BY <2>0, <2>2, <2>3 DEF Inv, Tables, OneOpenInvitation, Open
    <2>10. RegistrationIsAtomic'
      <3>1. /\ by'[e] = t /\ by[e] = 0
            /\ \A f \in Emails \ {e} : by'[f] = by[f]
        BY <2>0, <2>1 DEF Inv, TableTypes, Tables, ByOK
      <3>2. \A j \in Tokens \ {i} : rows[j].token # t
        BY <2>0 DEF Inv, Tables, RowsOK
      <3>3. \A f \in Emails : by[f] # t
        BY <2>0, <2>1 DEF Inv, Tables, RegistrationIsAtomic, ByOK
      <3> QED
        BY <2>0, <2>1, <2>2, <2>3, <3>1, <3>2, <3>3 DEF Inv, Tables, RegistrationIsAtomic
    <2>11. EndedInTime'
      BY <2>0, <2>2, <2>3 DEF Inv, Tables, EndedInTime
    <2> QED
      BY <2>0, <2>5, <2>6, <2>7, <2>8, <2>9, <2>10, <2>11, EndFrame, StepKeeps DEF Tables
  <1> QED
    BY <1>1, <1>2

\* A request that has issued a token holds no lock and goes on with the mail.
LEMMA IssuedFrame ==
  ASSUME Inv, NEW r \in Reqs, Issued(r), issued < MaxTokens, UNCHANGED result,
         row' \in [Reqs -> 0..MaxTokens], row'[r] \in Tokens,
         \A k \in Reqs \ {r} : row'[k] = row[k]
  PROVE  LocalTypes' /\ Others(r) /\ OwnLocks(r) /\ Knows(r)'
  <1> USE BoundsAssumption, NobodyAssumption DEF Issued, Goto, Unlock
  <1>0. LocalTypes /\ issued \in 0..MaxTokens
    BY DEF Inv, TableTypes
  <1>1. LocalTypes'
    <2>1. token' \in [Reqs -> 0..MaxTokens]
      BY <1>0 DEF LocalTypes
    <2> QED
      BY <1>0, <2>1 DEF LocalTypes, PCs
  <1>2. Others(r)
    BY <1>0 DEF LocalTypes, Others
  <1>3. OwnLocks(r)
    BY <1>0 DEF LocalTypes, OwnLocks
  <1>4. Knows(r)'
    BY <1>0 DEF LocalTypes, Knows, Holds
  <1> QED
    BY <1>1, <1>2, <1>3, <1>4

\* What a resend makes of a row.
Renewed(w, n, x) == [w EXCEPT !.token = n, !.expires = x, !.sent = "PENDING"]

LEMMA RenewedRow ==
  ASSUME NEW w \in Row, NEW n \in 0..MaxTokens, NEW x \in Nat
  PROVE  /\ Renewed(w, n, x) \in Row
         /\ Renewed(w, n, x).sent = "PENDING" /\ Renewed(w, n, x).state = w.state
         /\ Renewed(w, n, x).email = w.email /\ Renewed(w, n, x).token = n
  <1> DEFINE v == Renewed(w, n, x)
  <1>1. v = [state |-> w.state, email |-> w.email, token |-> n, expires |-> x,
             sent |-> "PENDING", ended |-> w.ended]
    <2>1. w = [state |-> w.state, email |-> w.email, token |-> w.token,
               expires |-> w.expires, sent |-> w.sent, ended |-> w.ended]
      BY SMTT(20) DEF Row
    <2> HIDE DEF v
    <2> DEFINE u == [w EXCEPT !.token = n]
               u2 == [u EXCEPT !.expires = x]
    <2>2. u = [state |-> w.state, email |-> w.email, token |-> n,
               expires |-> w.expires, sent |-> w.sent, ended |-> w.ended]
      BY <2>1
    <2> HIDE DEF u
    <2>3. u2 = [state |-> w.state, email |-> w.email, token |-> n,
                expires |-> x, sent |-> w.sent, ended |-> w.ended]
      BY <2>2
    <2>4. v = [u2 EXCEPT !.sent = "PENDING"]
      BY DEF v, u, Renewed
    <2> HIDE DEF u2
    <2> QED
      BY <2>3, <2>4
  <1>2. /\ w.state \in {"ABSENT", "PENDING"} \cup Ended
        /\ w.email \in Emails \cup {NoEmail} /\ w.ended \in Nat \cup {Null}
    BY DEF Row
  <1> HIDE DEF v
  <1>3. v \in Row
    BY <1>1, <1>2 DEF Row
  <1>4. /\ v.sent = "PENDING" /\ v.state = w.state
        /\ v.email = w.email /\ v.token = n
    BY <1>1
  <1> QED
    BY <1>3, <1>4 DEF v

LEMMA RenewKeeps ==
  ASSUME Inv, NEW r \in Reqs, Renew(r), UNCHANGED <<mailed, now, job, faults>>
  PROVE  Inv'
  <1> USE BoundsAssumption
  <1> DEFINE i == row[r]
             n == issued + 1
             v == Renewed(rows[i], n, at[r] + Validity)
  <1>0. /\ LocalTypes /\ i \in Tokens /\ lock[i] = r /\ rows[i].state = "PENDING"
        /\ UNCHANGED <<accounts, by>> /\ issued' = n /\ issued < MaxTokens
        /\ issued \in Nat /\ rows' = [rows EXCEPT ![i] = v]
    BY DEF Inv, Knows, Holds, Renew, Renewed, Issued, TableTypes
  <1>1. rows[i] \in Row
    BY <1>0 DEF Inv, TableTypes
  <1>2. /\ v \in Row /\ v.sent = "PENDING" /\ v.state = "PENDING"
        /\ v.email = rows[i].email /\ v.token = n
    <2>1. n \in 0..MaxTokens
      BY <1>0
    <2>2. at[r] + Validity \in Nat
      BY <1>0, SettingsAssumption DEF LocalTypes
    <2>3. rows[i].state = "PENDING"
      BY <1>0
    <2> HIDE DEF n, i
    <2> DEFINE x == at[r] + Validity
    <2>4. x \in Nat
      BY <2>2
    <2> HIDE DEF x, v
    <2>5. \A w \in Row : /\ Renewed(w, n, x) \in Row /\ Renewed(w, n, x).sent = "PENDING"
                        /\ Renewed(w, n, x).state = w.state
                        /\ Renewed(w, n, x).email = w.email /\ Renewed(w, n, x).token = n
      BY <2>1, <2>4, RenewedRow
    <2>6. v = Renewed(rows[i], n, x)
      BY DEF v, x
    <2> QED
      BY <1>1, <2>3, <2>5, <2>6
  <1> HIDE DEF v
  <1>3. /\ rows' \in [Tokens -> Row] /\ rows'[i] = v
        /\ \A j \in Tokens \ {i} : rows'[j] = rows[j]
    BY <1>0, <1>2, RowFrame
  <1>4. LocalTypes' /\ Others(r) /\ OwnLocks(r) /\ Knows(r)'
    BY <1>0, IssuedFrame DEF Renew, LocalTypes
  <1> HIDE DEF i
  <1>5. TableTypes' /\ Grows /\ NoneReopens
    BY <1>0, <1>2, <1>3 DEF Inv, TableTypes, Grows, NoneReopens, Reopens
  <1>6. Respects(r)
    BY <1>0, <1>3 DEF Respects
  <1>7. RowsOK'
    <2>1. ~(i > issued)
      BY <1>0 DEF Inv, Tables, RowsOK, Absent
    <2>2. \A j \in Tokens : j > n => rows'[j] = Absent
      BY <1>0, <1>3, <2>1 DEF Inv, Tables, RowsOK, Tokens
    <2>3. \A j \in Tokens : rows[j].token \in 0..issued
      BY <1>0 DEF Inv, Tables, RowsOK, TableTypes, Row
    <2> QED
      BY <1>0, <1>2, <1>3, <2>2, <2>3 DEF Inv, Tables, RowsOK
  <1>8. ByOK' /\ SentMeansMailed'
    BY <1>0, <1>2, <1>3 DEF Inv, Tables, ByOK, SentMeansMailed, TableTypes
  <1>9. OneOpenInvitation'
    BY <1>0, <1>2, <1>3 DEF Inv, Tables, OneOpenInvitation, Open
  <1>10. RegistrationIsAtomic'
    <2>1. \A e \in Emails : by[e] # n
      BY <1>0 DEF Inv, Tables, ByOK, TableTypes
    <2> QED
      BY <1>0, <1>2, <1>3, <2>1 DEF Inv, Tables, RegistrationIsAtomic
  <1>11. EndedInTime'
    BY <1>0, <1>2, <1>3 DEF Inv, Tables, EndedInTime
  <1> QED
    BY <1>0, <1>4, <1>5, <1>6, <1>7, <1>8, <1>9, <1>10, <1>11, StepKeeps DEF Tables, Renew

LEMMA InsertKeeps ==
  ASSUME Inv, NEW r \in Reqs, Insert(r), UNCHANGED <<mailed, now, job, faults>>
  PROVE  Inv'
  <1> USE BoundsAssumption
  <1> DEFINE o == row[r]
             n == issued + 1
             v == NewRow(r)
             c == Closed(o, "REPLACED", at[r])
  <1>0. /\ LocalTypes /\ UNCHANGED <<accounts, by>> /\ issued' = n /\ issued < MaxTokens
        /\ issued \in Nat /\ n \in Tokens /\ email[r] \in Emails
        /\ rows' = [j \in Tokens |-> IF j = n THEN v ELSE IF j = o THEN c ELSE rows[j]]
    BY DEF Inv, Knows, Insert, Issued, TableTypes, Tokens
  <1>1. o \in 0..MaxTokens /\ at[r] \in Nat
    BY <1>0 DEF LocalTypes
  <1>2. o # 0 => /\ o \in Tokens /\ lock[o] = r /\ rows[o].state = "PENDING" /\ o # n
                 /\ rows[o].email = email[r] /\ at[r] >= rows[o].expires /\ rows[o] \in Row
    <2>1. pc[r] = "inserting" /\ Knows(r) /\ RowsOK /\ rows \in [Tokens -> Row]
      BY DEF Insert, Inv, Tables, TableTypes
    <2>2. \A j \in Tokens : j > issued => rows[j].state # "PENDING"
      BY <2>1 DEF RowsOK, Absent
    <2> QED
      BY <1>0, <2>1, <2>2 DEF Knows, Holds
  <1>3. /\ v \in Row /\ v.state = "PENDING" /\ v.email = email[r] /\ v.token = n
        /\ v.sent = "PENDING"
    BY <1>0, <1>1, SettingsAssumption DEF NewRow, Row, Null
  <1>4. o # 0 => /\ c \in Row /\ c.state = "REPLACED" /\ c.token = rows[o].token
                 /\ c.email = rows[o].email /\ c.sent = rows[o].sent
                 /\ c.expires = rows[o].expires /\ c.ended = at[r]
    BY <1>1, <1>2 DEF Closed, Row, Ended
  <1> HIDE DEF v, c
  <1>5. /\ rows' \in [Tokens -> Row] /\ rows'[n] = v
        /\ o # 0 => rows'[o] = c
        /\ \A j \in Tokens \ {n, o} : rows'[j] = rows[j]
    <2>1. 0 \notin Tokens /\ rows \in [Tokens -> Row]
      BY DEF Tokens, Inv, TableTypes
    <2> QED
      BY <1>0, <1>2, <1>3, <1>4, <2>1
  <1>6. LocalTypes' /\ Others(r) /\ OwnLocks(r) /\ Knows(r)'
    <2>1. row' = [row EXCEPT ![r] = n] /\ UNCHANGED result /\ Issued(r)
      BY DEF Insert
    <2>2. row' \in [Reqs -> 0..MaxTokens]
      BY <1>0, <2>1 DEF LocalTypes
    <2> QED
      BY <1>0, <2>1, <2>2, IssuedFrame DEF LocalTypes
  <1>7. rows[n] = Absent
    BY <1>0 DEF Inv, Tables, RowsOK
  <1> HIDE DEF o
  <1>8. TableTypes' /\ Grows /\ NoneReopens
    <2>1. TableTypes' /\ Grows
      BY <1>0, <1>5 DEF Inv, TableTypes, Grows
    <2>2. NoneReopens
      <3> SUFFICES ASSUME NEW j \in Tokens, j <= issued PROVE Reopens(j)
        BY DEF NoneReopens
      <3>1. j # n
        BY <1>0 DEF Tokens
      <3>2. j = o => o # 0
        BY DEF Tokens
      <3> QED
        BY <1>2, <1>4, <1>5, <3>1, <3>2 DEF Reopens
    <2> QED
      BY <2>1, <2>2
  <1>9. Respects(r)
    <2>1. lock[n] \notin Reqs
      BY <1>0, <1>7 DEF Inv, Locks, Knows, Absent
    <2>2. 0 \notin Tokens
      BY DEF Tokens
    <2> QED
      BY <1>2, <1>5, <2>1, <2>2 DEF Respects
  <1>10. RowsOK'
    <2>1. \A j \in Tokens : j > n => rows'[j] = Absent
      <3>1. o # 0 => ~(o > issued)
        BY <1>2 DEF Inv, Tables, RowsOK, Absent
      <3> QED
        BY <1>0, <1>1, <1>2, <1>5, <3>1 DEF Inv, Tables, RowsOK, Tokens
    <2>2. \A j \in Tokens : rows[j].token \in 0..issued
      BY <1>0 DEF Inv, Tables, RowsOK, TableTypes, Row
    <2>3. \A j \in Tokens \ {n} : /\ rows'[j].token = rows[j].token
                                  /\ rows'[j].email = rows[j].email
                                  /\ rows'[j].state = "ABSENT" <=> rows[j].state = "ABSENT"
      BY <1>1, <1>2, <1>4, <1>5 DEF Tokens
    <2> QED
      BY <1>0, <1>3, <1>5, <2>1, <2>2, <2>3 DEF Inv, Tables, RowsOK
  <1>11. ByOK' /\ SentMeansMailed'
    BY <1>0, <1>1, <1>2, <1>3, <1>4, <1>5 DEF Inv, Tables, ByOK, SentMeansMailed, TableTypes, Tokens
  <1>12. OneOpenInvitation'
    <2>1. \A j \in Tokens \ {o} : rows[j].state = "PENDING" => rows[j].email # email[r]
      BY DEF Insert, Rivals, Open, o
    <2> QED
      BY <1>0, <1>1, <1>2, <1>3, <1>4, <1>5, <2>1 DEF Inv, Tables, OneOpenInvitation, Open, Tokens
  <1>13. RegistrationIsAtomic'
    <2>1. \A e \in Emails : by[e] # n
      BY <1>0 DEF Inv, Tables, ByOK, TableTypes
    <2> QED
      BY <1>0, <1>1, <1>2, <1>3, <1>4, <1>5, <2>1 DEF Inv, Tables, RegistrationIsAtomic, Tokens
  <1>14. EndedInTime'
    BY <1>0, <1>1, <1>2, <1>3, <1>4, <1>5 DEF Inv, Tables, EndedInTime, Tokens
  <1> QED
    BY <1>0, <1>6, <1>8, <1>9, <1>10, <1>11, <1>12, <1>13, <1>14, StepKeeps DEF Tables
-----------------------------------------------------------------------------
(* The steps of nobody: the job, the time, the faults.                     *)

LEMMA RequestKeeps ==
  ASSUME Inv, NEW r \in Reqs, Request(r)
  PROVE  Inv'
  <1>1. UNCHANGED <<now, job, faults>>
    BY DEF Request
  <1>2. CASE Send(r)
    BY <1>1, <1>2, SendKeeps
  <1>3. CASE Start(r) /\ UNCHANGED mailed
    BY <1>1, <1>3, InviteKeeps, ResendOrCancelKeeps, CompleteKeeps DEF Start
  <1>4. CASE Continue(r) /\ UNCHANGED mailed
    <2>1. CASE Check(r) \/ Find(r) \/ LockPending(r) \/ Lose(r) \/ ReadWinner(r)
      BY <1>1, <1>4, <2>1, CheckKeeps, FindKeeps, LockPendingKeeps, LoseKeeps, ReadWinnerKeeps
    <2>2. CASE Insert(r) \/ Record(r) \/ Renew(r) \/ Close(r) \/ Register(r)
      BY <1>1, <1>4, <2>2, InsertKeeps, RecordKeeps, RenewKeeps, CloseKeeps, RegisterKeeps
    <2>3. CASE LockOpen(r) \/ LockLink(r) \/ LockTimeout(r)
      BY <1>1, <1>4, <2>3, LockOpenKeeps, LockLinkKeeps, LockTimeoutKeeps
    <2> QED
      BY <1>4, <2>1, <2>2, <2>3 DEF Continue
  <1> QED
    BY <1>2, <1>3, <1>4 DEF Request

\* A step that changes no table but ends requests, all or none of them.
LEMMA OutsideKeeps ==
  ASSUME Inv, UNCHANGED <<tables, mailed>>, JobOK',
         UNCHANGED <<lock, locals>>
  PROVE  Inv'
  <1>1. LocalTypes'
    BY DEF Inv, LocalTypes, locals
  <1>2. TableTypes' /\ Tables'
    BY TablesStay DEF Inv, TableTypes, tables
  <1>3. (\A r \in Reqs : Knows(r))' /\ Locks'
    BY DEF Inv, Knows, Holds, Locks, locals, tables
  <1> QED
    BY <1>1, <1>2, <1>3 DEF Inv

LEMMA TickKeeps ==
  ASSUME Inv, Tick
  PROVE  Inv'
  <1>1. JobOK'
    BY SettingsAssumption DEF Inv, JobOK, Tick, job
  <1> QED
    BY <1>1, OutsideKeeps DEF Tick

LEMMA JobStartKeeps ==
  ASSUME Inv, JobStart, UNCHANGED <<mailed, now, locals, faults>>
  PROVE  Inv'
  <1>1. JobOK'
    BY SettingsAssumption DEF Inv, JobOK, JobStart
  <1> QED
    BY <1>1, OutsideKeeps DEF JobStart

LEMMA JobSelectKeeps ==
  ASSUME Inv, JobSelect, UNCHANGED <<mailed, now, locals, faults>>
  PROVE  Inv'
  <1>1. picked' \subseteq Tokens
    BY DEF JobSelect
  <1>2. JobOK'
    BY <1>1 DEF Inv, JobOK, JobSelect
  <1> QED
    BY <1>2, OutsideKeeps DEF JobSelect

\* A deletion leaves the rows that a request holds, and opens none.
LEMMA JobDeleteKeeps ==
  ASSUME Inv, JobDelete, UNCHANGED <<mailed, now, locals, faults>>
  PROVE  Inv'
  <1> USE BoundsAssumption
  <1>1. JobOK'
    BY SettingsAssumption DEF Inv, JobOK, JobDelete, JobEnd
  <1>2. LocalTypes'
    BY DEF Inv, LocalTypes, locals, JobDelete
  <1>3. /\ UNCHANGED <<accounts, issued, by, lock, mailed, locals>>
        /\ \A i \in Doomed : lock[i] = NoReq
        /\ rows' = [i \in Tokens |-> IF i \in Doomed THEN Absent ELSE rows[i]]
    BY DEF JobDelete, Free
  <1>4. \A i \in Tokens : /\ rows'[i] = rows[i] \/ rows'[i] = Absent
                          /\ lock[i] # NoReq => rows'[i] = rows[i]
    BY <1>3
  <1>5. TableTypes'
    <2>1. Absent \in Row
      BY DEF Absent, Row, Null
    <2>2. rows' \in [Tokens -> Row]
      BY <1>3, <2>1 DEF Inv, TableTypes
    <2> QED
      BY <1>3, <2>2 DEF Inv, TableTypes
  <1> HIDE DEF Doomed
  <1>6. (\A r \in Reqs : Knows(r))'
    <2> SUFFICES ASSUME NEW r \in Reqs PROVE Knows(r)'
      OBVIOUS
    <2>1. Knows(r) /\ NoReq # r
      BY NobodyAssumption DEF Inv
    <2>2. Holds(r) => rows'[row[r]] = rows[row[r]]
      BY <1>4, <2>1 DEF Knows
    <2>3. pc[r] = "locking" /\ rows'[row[r]].state = "PENDING" => rows'[row[r]].email = email[r]
      BY <1>4, <2>1 DEF Knows, Absent
    <2> QED
      BY <1>3, <2>1, <2>2, <2>3 DEF Knows, Holds, locals
  <1>7. Locks'
    BY <1>3 DEF Inv, Locks, Holds, locals
  <1>8. Tables'
    <2>1. RowsOK'
      BY <1>3, <1>4 DEF Inv, Tables, TableTypes, RowsOK, Absent
    <2>2. ByOK'
      BY <1>3 DEF Inv, Tables, ByOK
    <2>3. OneOpenInvitation'
      BY <1>4 DEF Inv, Tables, OneOpenInvitation, Open, Absent
    <2>4. RegistrationIsAtomic'
      <3> SUFFICES ASSUME NEW i \in Tokens, NEW e \in Emails
                   PROVE ((rows[i].state = "COMPLETED" /\ rows[i].email = e)
                           <=> (by[e] # 0 /\ by[e] = rows[i].token /\ e \in accounts))'
        BY DEF RegistrationIsAtomic
      <3>1. CASE rows'[i] = rows[i]
        BY <1>3, <3>1 DEF Inv, Tables, RegistrationIsAtomic
      <3>2. CASE rows'[i] = Absent
        BY <1>3, <3>2 DEF Absent
      <3> QED
        BY <1>4, <3>1, <3>2
    <2>5. EndedInTime' /\ SentMeansMailed'
      BY <1>3, <1>4 DEF Inv, Tables, EndedInTime, SentMeansMailed, Absent
    <2> QED
      BY <2>1, <2>2, <2>3, <2>4, <2>5 DEF Tables
  <1> QED
    BY <1>1, <1>2, <1>5, <1>6, <1>7, <1>8 DEF Inv

LEMMA FailKeeps ==
  ASSUME Inv, Fail
  PROVE  Inv'
  <1>1. JobOK'
    BY BoundsAssumption DEF Inv, JobOK, Fail, JobEnd, job
  <1>2. CASE UNCHANGED <<tables, lock, locals>>
    BY <1>1, <1>2, OutsideKeeps DEF Fail
  <1>3. ASSUME NEW r \in Reqs, EndUnchanged(r) PROVE Inv'
    <2>1. LocalTypes' /\ Others(r) /\ OwnLocks(r) /\ Knows(r)'
      BY <1>3, EndFrame DEF EndUnchanged
    <2>2. TableTypes' /\ Tables' /\ Grows /\ NoneReopens
      BY <1>3, TablesStay DEF EndUnchanged, Inv, TableTypes, tables, Fail
    <2>3. Respects(r)
      BY <1>3 DEF Respects, EndUnchanged, tables
    <2> QED
      BY <1>1, <2>1, <2>2, <2>3, FrameKeeps
  <1> QED
    BY <1>2, <1>3 DEF Fail

LEMMA CrashKeeps ==
  ASSUME Inv, Crash
  PROVE  Inv'
  <1> USE NobodyAssumption, BoundsAssumption DEF Crash
  <1>1. JobOK'
    BY DEF Inv, JobOK, JobEnd
  <1>2. LocalTypes'
    BY DEF LocalTypes, PCs
  <1>3. TableTypes' /\ Tables'
    BY TablesStay DEF Inv, TableTypes, tables
  <1>4. (\A r \in Reqs : Knows(r))' /\ Locks'
    BY DEF Knows, Holds, Locks
  <1> QED
    BY <1>1, <1>2, <1>3, <1>4 DEF Inv

LEMMA InvNext ==
  ASSUME Inv, [Next]_vars
  PROVE  Inv'
  <1>1. CASE \E r \in Reqs : Request(r)
    BY <1>1, RequestKeeps
  <1>2. CASE Job
    BY <1>2, JobStartKeeps, JobSelectKeeps, JobDeleteKeeps DEF Job
  <1>3. CASE Tick \/ Fail \/ Crash
    BY <1>3, TickKeeps, FailKeeps, CrashKeeps
  <1>4. CASE UNCHANGED vars
    <2>1. JobOK'
      BY <1>4 DEF Inv, JobOK, vars, job
    <2> QED
      BY <1>4, <2>1, OutsideKeeps DEF vars
  <1> QED
    BY <1>1, <1>2, <1>3, <1>4 DEF Next
-----------------------------------------------------------------------------
(* The invariant and what follows from it.                                 *)

LEMMA Invariance == Spec => []Inv
  BY InvInit, InvNext, PTL DEF Spec

\* Every variable keeps its type, for any number of requests and tokens.
THEOREM InvitationTypes == Spec => []TypeOK
  BY Invariance, TypesOfInv, PTL

\* However many administrators invite one address at once, with the transactions
\* of issueInTransaction interleaved in any way, it has one open invitation.
THEOREM OneOpen == Spec => []OneOpenInvitation
  <1>1. Inv => OneOpenInvitation
    BY DEF Inv, Tables
  <1> QED
    BY <1>1, Invariance, PTL

\* An invitation is COMPLETED exactly if the account of its address was made with
\* its token: completeInTransaction leaves no half of it behind.
THEOREM Atomicity == Spec => []RegistrationIsAtomic
  <1>1. Inv => RegistrationIsAtomic
    BY DEF Inv, Tables
  <1> QED
    BY <1>1, Invariance, PTL

\* No account comes from an invitation that was cancelled or replaced, whether the
\* registration or the cancellation got the lock of the row first.
THEOREM CancellationIsFinal == Spec => []CancelIsFinal
  <1>1. Inv => CancelIsFinal
    <2> SUFFICES ASSUME Inv, NEW i \in Tokens, rows[i].state \in {"CANCELLED", "REPLACED"},
                        NEW e \in Emails, by[e] = rows[i].token
                 PROVE  FALSE
      BY DEF CancelIsFinal
    <2>1. rows[i].token # 0
      BY DEF Inv, Tables, RowsOK
    <2>2. e \in accounts
      BY <2>1 DEF Inv, Tables, ByOK
    <2> QED
      BY <2>1, <2>2 DEF Inv, Tables, RegistrationIsAtomic
  <1> QED
    BY <1>1, Invariance, PTL

\* Registrations are earlier than the expiry of their invitation, replacements later,
\* though the clock is read before the lock in the one and after it in the other.
THEOREM InTime == Spec => []EndedInTime
  <1>1. Inv => EndedInTime
    BY DEF Inv, Tables
  <1> QED
    BY <1>1, Invariance, PTL

\* The result of a mail is recorded with the token it carried, or not at all.
THEOREM SentIsMailed == Spec => []SentMeansMailed
  <1>1. Inv => SentMeansMailed
    BY DEF Inv, Tables
  <1> QED
    BY <1>1, Invariance, PTL

-----------------------------------------------------------------------------
(* Only the job removes rows.                                              *)

\* In a step other than a deletion no row disappears.
LEMMA RowsRemain ==
  ASSUME Inv, [Next]_vars, ~JobDelete, NEW i \in Tokens, rows[i].state # "ABSENT"
  PROVE  rows'[i].state # "ABSENT"
  <1> USE BoundsAssumption
  <1>0. rows \in [Tokens -> Row] /\ rows[i] \in Row
    BY DEF Inv, TableTypes
  <1>1. CASE UNCHANGED rows
    BY <1>1
  <1>2. ASSUME NEW r \in Reqs, Record(r) \/ Renew(r) \/ Close(r) \/ Register(r)
        PROVE  rows'[i].state # "ABSENT"
    <2>1. CASE Record(r) /\ ~UNCHANGED rows
      <3>1. row[r] \in Tokens /\ rows' = [rows EXCEPT ![row[r]].sent = result[r]]
        BY <2>1 DEF Record, Inv, Knows
      <3> QED
        BY <1>0, <3>1 DEF Row
    <2>2. CASE (Renew(r) \/ Close(r) \/ Register(r)) /\ ~UNCHANGED rows
      <3>1. row[r] \in Tokens /\ rows[row[r]].state = "PENDING" /\ rows[row[r]] \in Row
        BY <1>0, <2>2 DEF Renew, Close, Register, Inv, Knows, Holds
      <3>2. CASE i # row[r]
        BY <1>0, <2>2, <3>1, <3>2 DEF Renew, Close, Register, EndUnchanged, tables
      <3>3. CASE i = row[r] /\ Renew(r)
        BY <1>0, <3>1, <3>3 DEF Renew, Row
      <3>4. CASE i = row[r] /\ (Close(r) \/ Register(r))
        <4>1. PICK x \in {"CANCELLED", "COMPLETED"} :
                 rows' = [rows EXCEPT ![i] = Closed(i, x, at[r])]
          BY <2>2, <3>4 DEF Close, Register, EndUnchanged, tables
        <4>2. Closed(i, x, at[r]).state = x
          BY <1>0 DEF Closed, Row
        <4> QED
          BY <1>0, <4>1, <4>2
      <3> QED
        BY <2>2, <3>2, <3>3, <3>4
    <2> QED
      BY <1>1, <1>2, <2>1, <2>2
  <1>3. ASSUME NEW r \in Reqs, Insert(r)
        PROVE  rows'[i].state # "ABSENT"
    BY <1>0, <1>3 DEF Insert, NewRow, Closed, Row
  <1>4. CASE \E r \in Reqs : Request(r)
    <2> SUFFICES ASSUME NEW r \in Reqs, Request(r), ~UNCHANGED rows
                 PROVE  Insert(r) \/ Record(r) \/ Renew(r) \/ Close(r) \/ Register(r)
      BY <1>1, <1>2, <1>3, <1>4
    <2>1. ~Start(r) /\ ~Send(r)
      BY DEF Start, Invite, ResendOrCancel, Complete, Send, tables
    <2> QED
      BY <2>1 DEF Request, Continue, Check, Find, LockPending, Lose, ReadWinner, LockOpen,
         LockLink, LockTimeout, EndUnchanged, tables
  <1>5. CASE ~(\E r \in Reqs : Request(r))
    <2>1. UNCHANGED rows
      BY <1>5 DEF Next, Job, JobStart, JobSelect, Tick, Fail, Crash, EndUnchanged, tables, vars
    <2> QED
      BY <1>1, <2>1
  <1> QED
    BY <1>4, <1>5

\* The retention is kept for every row, also for those that were resent or completed
\* between the two steps of a batch (the outer condition of deleteEndedBefore and
\* deleteExpiredPendingBefore).
THEOREM RetentionIsKept == Spec => FreshRowsStay
  <1>1. ASSUME Inv, [Next]_vars, NEW i \in Tokens,
               rows[i].state # "ABSENT", rows'[i].state = "ABSENT"
        PROVE  (IF rows[i].state = "PENDING" THEN rows[i].expires ELSE rows[i].ended)
                 + Retention <= now
    <2>1. JobDelete
      BY <1>1, RowsRemain
    <2>2. Matches(i)
      BY <1>1, <2>1 DEF JobDelete, Doomed
    <2>3. cutoff \in Int /\ now \in Nat /\ cutoff + Retention <= now
      BY <1>1, <2>1 DEF Inv, JobOK, JobDelete
    <2>4. rows[i].expires \in Nat /\ rows[i].ended \in Int
      BY <1>1 DEF Inv, TableTypes, Row, Null
    <2> QED
      BY <2>2, <2>3, <2>4, SettingsAssumption DEF Matches, EndedBefore, ExpiredBefore, Ended
  <1>2. Inv /\ [Next]_vars =>
          [\A i \in Tokens :
             (rows[i].state # "ABSENT" /\ rows'[i].state = "ABSENT") =>
               (IF rows[i].state = "PENDING" THEN rows[i].expires ELSE rows[i].ended)
                 + Retention <= now]_vars
    BY <1>1
  <1> QED
    BY <1>2, Invariance, PTL DEF Spec, FreshRowsStay
-----------------------------------------------------------------------------
(* The refinement: each step issues, withdraws or uses links, or none.     *)

LinkMap == [e \in Emails |-> OpenLink(e)]

\* f maps each address to the token of its open row in tab, or to 0.
OpenIn(tab, e) == {i \in Tokens : tab[i].state = "PENDING" /\ tab[i].email = e}
Represents(f, tab) ==
  \A e \in Emails : /\ \A i \in OpenIn(tab, e) : f[e] = tab[i].token
                    /\ OpenIn(tab, e) = {} => f[e] = 0

LEMMA MapOf ==
  ASSUME NEW tab, \A e \in Emails : \A i, j \in OpenIn(tab, e) : i = j
  PROVE  Represents([e \in Emails |->
                       IF OpenIn(tab, e) = {} THEN 0
                       ELSE tab[CHOOSE i \in OpenIn(tab, e) : TRUE].token], tab)
  <1> SUFFICES ASSUME NEW e \in Emails, NEW i \in OpenIn(tab, e)
               PROVE  tab[CHOOSE j \in OpenIn(tab, e) : TRUE].token = tab[i].token
    BY DEF Represents
  <1>1. (CHOOSE j \in OpenIn(tab, e) : TRUE) \in OpenIn(tab, e)
    OBVIOUS
  <1>2. (CHOOSE j \in OpenIn(tab, e) : TRUE) = i
    BY <1>1
  <1> QED
    BY <1>2

LEMMA MapBoth ==
  ASSUME Inv, Inv'
  PROVE  Represents(LinkMap, rows) /\ Represents(LinkMap', rows')
  <1>1. \A e \in Emails : Open(e) = OpenIn(rows, e) /\ Open(e)' = OpenIn(rows', e)
    BY DEF Open, OpenIn
  <1>2. \A e \in Emails : \A i, j \in OpenIn(rows, e) : i = j
    BY <1>1 DEF Inv, Tables, OneOpenInvitation
  <1>3. \A e \in Emails : \A i, j \in OpenIn(rows', e) : i = j
    BY <1>1 DEF Inv, Tables, OneOpenInvitation
  <1>4. LinkMap = [e \in Emails |->
                     IF OpenIn(rows, e) = {} THEN 0
                     ELSE rows[CHOOSE i \in OpenIn(rows, e) : TRUE].token]
    BY DEF LinkMap, OpenLink, Open, OpenIn
  <1>5. LinkMap' = [e \in Emails |->
                      IF OpenIn(rows', e) = {} THEN 0
                      ELSE rows'[CHOOSE i \in OpenIn(rows', e) : TRUE].token]
    BY DEF LinkMap, OpenLink, Open, OpenIn
  <1> QED
    BY <1>2, <1>3, <1>4, <1>5, MapOf

Refines == [Links!LinkNext]_(Links!linkVars)

\* A step that opens nothing and leaves open rows as they are withdraws links.
LEMMA ClosingRefines ==
  ASSUME Inv, Inv', UNCHANGED <<issued, accounts, by>>,
         \A i \in Tokens : rows'[i].state = "PENDING" =>
           rows[i].state = "PENDING" /\ rows'[i].email = rows[i].email
                                    /\ rows'[i].token = rows[i].token
  PROVE  Refines
  <1> DEFINE gone == {e \in Emails : LinkMap'[e] # LinkMap[e]}
  <1>1. Represents(LinkMap, rows) /\ Represents(LinkMap', rows')
    BY MapBoth
  <1>2. \A e \in Emails : LinkMap'[e] \in {0, LinkMap[e]}
    <2> SUFFICES ASSUME NEW e \in Emails, NEW i \in OpenIn(rows', e)
                 PROVE  LinkMap'[e] = LinkMap[e]
      BY <1>1 DEF Represents
    <2>1. i \in OpenIn(rows, e) /\ rows'[i].token = rows[i].token
      BY DEF OpenIn
    <2> QED
      BY <1>1, <2>1 DEF Represents
  <1>3. LinkMap' = [e \in Emails |-> IF e \in gone THEN 0 ELSE LinkMap[e]]
    BY <1>2 DEF LinkMap
  <1>4. CASE gone = {}
    <2>1. LinkMap' = LinkMap
      BY <1>3, <1>4 DEF LinkMap
    <2> QED
      BY <2>1 DEF Refines, Links!linkVars, LinkMap
  <1>5. CASE gone # {}
    <2>1. \E e \in gone : LinkMap[e] # 0
      BY <1>2, <1>5
    <2> HIDE DEF gone
    <2>2. gone \in SUBSET Emails
      BY DEF gone
    <2>3. Links!Withdraw(gone)
      BY <1>3, <2>1 DEF Links!Withdraw, LinkMap
    <2> QED
      BY <2>2, <2>3 DEF Refines, Links!LinkNext
  <1> QED
    BY <1>4, <1>5

\* A step that puts a new token, and nothing else, at the open row of an address.
LEMMA IssueRefines ==
  ASSUME Inv, Inv', UNCHANGED <<accounts, by>>, issued < MaxTokens, issued' = issued + 1,
         NEW e \in Emails, NEW i \in Tokens,
         rows'[i].state = "PENDING" /\ rows'[i].email = e /\ rows'[i].token = issued + 1,
         \A f \in Emails \ {e} : \A j \in Tokens :
           /\ j \in OpenIn(rows', f) <=> j \in OpenIn(rows, f)
           /\ j \in OpenIn(rows, f) => rows'[j].token = rows[j].token
  PROVE  Refines
  <1>1. Represents(LinkMap, rows) /\ Represents(LinkMap', rows')
    BY MapBoth
  <1>2. LinkMap'[e] = issued + 1
    BY <1>1 DEF Represents, OpenIn
  <1>3. \A f \in Emails \ {e} : LinkMap'[f] = LinkMap[f]
    <2> SUFFICES ASSUME NEW f \in Emails \ {e} PROVE LinkMap'[f] = LinkMap[f]
      OBVIOUS
    <2>1. OpenIn(rows', f) = OpenIn(rows, f)
      BY DEF OpenIn
    <2>2. CASE OpenIn(rows, f) = {}
      BY <1>1, <2>1, <2>2 DEF Represents
    <2>3. ASSUME NEW j \in OpenIn(rows, f) PROVE LinkMap'[f] = LinkMap[f]
      <3>1. j \in Tokens
        BY <2>3 DEF OpenIn
      <3> QED
        BY <1>1, <2>1, <2>3, <3>1 DEF Represents
    <2> QED
      BY <2>2, <2>3
  <1>4. LinkMap' = [LinkMap EXCEPT ![e] = issued + 1]
    BY <1>2, <1>3 DEF LinkMap
  <1>5. Links!Issue(e)
    BY <1>4 DEF Links!Issue, LinkMap
  <1> QED
    BY <1>5 DEF Refines, Links!LinkNext

LEMMA RenewRefines ==
  ASSUME Inv, Inv', NEW r \in Reqs, Renew(r)
  PROVE  Refines
  <1> DEFINE i == row[r]
             e == rows[i].email
  <1>1. /\ i \in Tokens /\ rows[i].state = "PENDING" /\ issued < MaxTokens
        /\ UNCHANGED <<accounts, by>> /\ issued' = issued + 1
        /\ rows' = [rows EXCEPT ![i] = Renewed(rows[i], issued + 1, at[r] + Validity)]
        /\ issued \in 0..MaxTokens /\ at[r] \in Nat /\ rows \in [Tokens -> Row]
    BY DEF Inv, Knows, Holds, Renew, Renewed, Issued, TableTypes, LocalTypes
  <1>2. e \in Emails /\ rows[i] \in Row /\ issued + 1 \in 0..MaxTokens
        /\ at[r] + Validity \in Nat
    BY <1>1, SettingsAssumption, BoundsAssumption DEF Inv, Tables, RowsOK
  <1> HIDE DEF i
  <1>3. /\ rows'[i].state = "PENDING" /\ rows'[i].email = e /\ rows'[i].token = issued + 1
        /\ \A j \in Tokens \ {i} : rows'[j] = rows[j]
    <2>1. rows'[i] = Renewed(rows[i], issued + 1, at[r] + Validity)
          /\ \A j \in Tokens \ {i} : rows'[j] = rows[j]
      BY <1>1
    <2> DEFINE x == at[r] + Validity
               n == issued + 1
    <2> HIDE DEF x, n
    <2>2. \A w \in Row : /\ Renewed(w, n, x).state = w.state
                        /\ Renewed(w, n, x).email = w.email
                        /\ Renewed(w, n, x).token = n
      BY <1>2, RenewedRow DEF x, n
    <2> QED
      BY <1>1, <1>2, <2>1, <2>2 DEF x, n
  <1>4. \A f \in Emails \ {e} : \A j \in Tokens :
          /\ j \in OpenIn(rows', f) <=> j \in OpenIn(rows, f)
          /\ j \in OpenIn(rows, f) => rows'[j].token = rows[j].token
    BY <1>1, <1>3 DEF OpenIn
  <1> QED
    BY <1>1, <1>2, <1>3, <1>4, IssueRefines

LEMMA InsertRefines ==
  ASSUME Inv, Inv', NEW r \in Reqs, Insert(r)
  PROVE  Refines
  <1> DEFINE o == row[r]
             n == issued + 1
             e == email[r]
  <1>1. /\ issued < MaxTokens /\ issued \in 0..MaxTokens /\ n \in Tokens
        /\ UNCHANGED <<accounts, by>> /\ issued' = n
        /\ rows' = [j \in Tokens |-> IF j = n THEN NewRow(r)
                                     ELSE IF j = o THEN Closed(o, "REPLACED", at[r])
                                     ELSE rows[j]]
        /\ e \in Emails /\ rows \in [Tokens -> Row]
    BY BoundsAssumption DEF Inv, Knows, Insert, Issued, TableTypes, Tokens
  <1>2. rows'[n].state = "PENDING" /\ rows'[n].email = e /\ rows'[n].token = issued + 1
    BY <1>1 DEF NewRow
  <1>3. rows[n].state # "PENDING"
    BY <1>1 DEF Inv, Tables, RowsOK, Absent
  <1>4. o \in Tokens => rows[o].email = e /\ rows[o].state = "PENDING"
    BY DEF Inv, Insert, Knows, Holds, Tokens
  <1>5. \A f \in Emails \ {e} : \A j \in Tokens :
          /\ j \in OpenIn(rows', f) <=> j \in OpenIn(rows, f)
          /\ j \in OpenIn(rows, f) => rows'[j].token = rows[j].token
    <2> SUFFICES ASSUME NEW f \in Emails \ {e}, NEW j \in Tokens
                 PROVE  /\ j \in OpenIn(rows', f) <=> j \in OpenIn(rows, f)
                        /\ j \in OpenIn(rows, f) => rows'[j].token = rows[j].token
      OBVIOUS
    <2>1. CASE j = n
      BY <1>1, <1>2, <1>3, <2>1 DEF OpenIn
    <2>2. CASE j # n /\ j = o
      <3>1. rows'[j] = Closed(o, "REPLACED", at[r])
        BY <1>1, <2>2
      <3>2. rows'[j].state = "REPLACED"
        BY <1>1, <2>2, <3>1 DEF Closed, Row
      <3> QED
        BY <1>4, <2>2, <3>2 DEF OpenIn
    <2>3. CASE j # n /\ j # o
      BY <1>1, <2>3 DEF OpenIn
    <2> QED
      BY <2>1, <2>2, <2>3
  <1> QED
    BY <1>1, <1>2, <1>5, IssueRefines

LEMMA RegisterRefines ==
  ASSUME Inv, Inv', NEW r \in Reqs, Register(r)
  PROVE  Refines
  <1>1. CASE EndUnchanged(r)
    BY <1>1, ClosingRefines DEF EndUnchanged, tables
  <1>2. CASE ~EndUnchanged(r)
    <2> DEFINE i == row[r]
               e == rows[i].email
    <2>1. /\ i \in Tokens /\ rows[i].state = "PENDING" /\ rows[i].token = token[r]
          /\ issued' = issued /\ e \notin accounts /\ accounts' = accounts \cup {e}
          /\ by' = [by EXCEPT ![e] = token[r]]
          /\ rows' = [rows EXCEPT ![i] = Closed(i, "COMPLETED", at[r])]
          /\ rows \in [Tokens -> Row]
      BY <1>2 DEF Inv, Knows, Holds, Register, TableTypes
    <2>2. e \in Emails /\ rows[i].token # 0 /\ Represents(LinkMap, rows)
          /\ Represents(LinkMap', rows')
      BY <2>1, MapBoth DEF Inv, Tables, RowsOK
    <2>3. \A j \in OpenIn(rows, e) : j = i
      BY <2>1, <2>2 DEF Inv, Tables, OneOpenInvitation, Open, OpenIn
    <2> HIDE DEF i
    <2>4. rows'[i].state = "COMPLETED" /\ \A j \in Tokens \ {i} : rows'[j] = rows[j]
      BY <2>1 DEF Closed, Row
    <2>5. i \in OpenIn(rows, e)
      BY <2>1 DEF OpenIn
    <2> HIDE DEF e
    <2>6. LinkMap[e] = token[r] /\ LinkMap'[e] = 0
      <3>1. OpenIn(rows', e) = {}
        BY <2>1, <2>3, <2>4 DEF OpenIn
      <3> QED
        BY <2>1, <2>2, <2>5, <3>1 DEF Represents
    <2>7. \A f \in Emails \ {e} : LinkMap'[f] = LinkMap[f]
      <3> SUFFICES ASSUME NEW f \in Emails \ {e} PROVE LinkMap'[f] = LinkMap[f]
        OBVIOUS
      <3>1. OpenIn(rows', f) = OpenIn(rows, f)
        BY <2>1, <2>4, <2>5 DEF OpenIn
      <3>2. \A j \in OpenIn(rows, f) : rows'[j] = rows[j]
        BY <2>1, <2>4, <2>5 DEF OpenIn
      <3>3. CASE OpenIn(rows, f) = {}
        BY <2>2, <3>1, <3>3 DEF Represents
      <3>4. ASSUME NEW j \in OpenIn(rows, f) PROVE LinkMap'[f] = LinkMap[f]
        BY <2>2, <3>1, <3>2, <3>4 DEF Represents
      <3> QED
        BY <3>3, <3>4
    <2>8. LinkMap' = [LinkMap EXCEPT ![e] = 0]
      BY <2>6, <2>7 DEF LinkMap
    <2>9. Links!Use(e)
      BY <2>1, <2>2, <2>6, <2>8 DEF Links!Use, LinkMap, e
    <2> QED
      BY <2>2, <2>9 DEF Refines, Links!LinkNext
  <1> QED
    BY <1>1, <1>2

LEMMA OtherRequestsRefine ==
  ASSUME Inv, Inv', NEW r \in Reqs, Request(r), ~Renew(r), ~Insert(r), ~Register(r)
  PROVE  Refines
  <1>1. CASE UNCHANGED tables
    BY <1>1, ClosingRefines DEF tables
  <1>2. CASE Record(r) /\ ~UNCHANGED tables
    <2>1. row[r] \in Tokens /\ rows' = [rows EXCEPT ![row[r]].sent = result[r]]
          /\ UNCHANGED <<issued, accounts, by>> /\ rows \in [Tokens -> Row]
      BY <1>2 DEF Record, Inv, Knows, tables, TableTypes
    <2>2. \A i \in Tokens : /\ rows'[i].state = rows[i].state
                            /\ rows'[i].email = rows[i].email
                            /\ rows'[i].token = rows[i].token
      BY <2>1 DEF Row
    <2> QED
      BY <2>1, <2>2, ClosingRefines
  <1>3. CASE Close(r)
    <2>1. row[r] \in Tokens /\ UNCHANGED <<issued, accounts, by>>
          /\ rows' = [rows EXCEPT ![row[r]] = Closed(row[r], "CANCELLED", at[r])]
          /\ rows \in [Tokens -> Row]
      BY <1>3 DEF Close, Inv, Knows, Holds, TableTypes
    <2>2. rows'[row[r]].state = "CANCELLED" /\ \A j \in Tokens \ {row[r]} : rows'[j] = rows[j]
      BY <2>1 DEF Closed, Row
    <2> QED
      BY <2>1, <2>2, ClosingRefines
  <1>4. Record(r) \/ Close(r) \/ UNCHANGED tables
    BY DEF Request, Start, Invite, ResendOrCancel, Complete, Send, Continue, Check, Find,
       LockPending, Lose, ReadWinner, LockOpen, LockLink, LockTimeout, EndUnchanged, tables
  <1> QED
    BY <1>1, <1>2, <1>3, <1>4

LEMMA NextRefines ==
  ASSUME Inv, Inv', [Next]_vars
  PROVE  Refines
  <1>1. CASE \E r \in Reqs : Request(r)
    BY <1>1, RenewRefines, InsertRefines, RegisterRefines, OtherRequestsRefine
  <1>2. CASE Job
    <2>1. CASE JobDelete
      <3>1. UNCHANGED <<issued, accounts, by>>
            /\ \A i \in Tokens : rows'[i] = rows[i] \/ rows'[i] = Absent
        BY <2>1 DEF JobDelete
      <3> QED
        BY <3>1, ClosingRefines DEF Absent
    <2>2. CASE JobStart \/ JobSelect
      BY <2>2, ClosingRefines DEF JobStart, JobSelect, tables
    <2> QED
      BY <1>2, <2>1, <2>2 DEF Job
  <1>3. CASE Tick \/ Fail \/ Crash \/ UNCHANGED vars
    <2>1. UNCHANGED tables
      BY <1>3 DEF Tick, Fail, Crash, EndUnchanged, vars
    <2> QED
      BY <2>1, ClosingRefines DEF tables
  <1> QED
    BY <1>1, <1>2, <1>3 DEF Next

\* The invitations keep the promise of RegistrationLinks: of all tokens that were
\* ever mailed to an address at most one opens its registration, none works again
\* once it has stopped, and accounts are made with the one that is open.
THEOREM LinksKept == Spec => LinkSpec
  <1>1. Init => Links!LinkInit
    <2> SUFFICES ASSUME Init PROVE Links!LinkInit
      OBVIOUS
    <2>1. \A e \in Emails : Open(e) = {}
      BY DEF Init, Open, Absent
    <2>2. \A e \in Emails : OpenLink(e) = 0
      BY <2>1 DEF OpenLink
    <2> QED
      BY <2>2 DEF Init, Links!LinkInit
  <1>2. Inv /\ Inv' /\ [Next]_vars => [Links!LinkNext]_(Links!linkVars)
    BY NextRefines DEF Refines
  <1> QED
    BY <1>1, <1>2, Invariance, PTL DEF Spec, LinkSpec, Links!LinkSpec
=============================================================================
