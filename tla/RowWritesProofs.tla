---------------------------- MODULE RowWritesProofs ----------------------------
(***************************************************************************)
(* What the form is told of a write, and what the audit log says of it, is *)
(* so for any number of requests, rows and values, whatever fails.         *)
(***************************************************************************)
EXTENDS RowWrites, TLAPS

\* How far the request is tells what its commit, its change and its reply can be.
CommitIsLate(r) == /\ r \in sent => at[r] \in {"publish", "answer", "over"}
                   /\ r \in done => r \in sent /\ change[r] = NoChange
ReplyOfStep(r) == /\ at[r] = "commit" => reply[r] = "WRITTEN"
                  /\ at[r] \in {"inspect", "rollback"} => reply[r] \notin {"WRITTEN", "TARGET_DB_TIMEOUT"}
\* A reply says what came of the change; only the one that says nothing is given while the commit may still go either way.
ReplyIsTrue(r) ==
  at[r] \in {"publish", "answer"} =>
    /\ reply[r] = "WRITTEN" => r \in done
    /\ reply[r] \notin {"WRITTEN", "TARGET_DB_TIMEOUT"} => NeverWritten(r)
\* There is no record before the publishing; after it the record is that of the reply.
AuditOfStep(r) == /\ at[r] \notin {"answer", "over"} => audit[r] = "none"
                  /\ at[r] = "answer" /\ reply[r] \in {"WRITTEN", "TARGET_DB_TIMEOUT"} => audit[r] \in {AuditOf(reply[r]), "lost"}
Told(r) == /\ said[r] = "saved" => r \in done
           /\ said[r] = "not-saved" => NeverWritten(r) /\ at[r] = "over"
           /\ audit[r] = "SUCCESS" => r \in done
           /\ audit[r] = "FAILURE" => NeverWritten(r)
RequestInv(r) == CommitIsLate(r) /\ ReplyOfStep(r) /\ ReplyIsTrue(r) /\ AuditOfStep(r) /\ Told(r)
RowWritesInv == RowWritesTypeOK /\ \A r \in Requests : RequestInv(r)
-----------------------------------------------------------------------------
\* A step of a request, as RowWritesNext has it.
RequestStep(r) ==
  \/ TooLarge(r) \/ Resolve(r) \/ ReferenceStep(r) \/ Borrow(r) \/ Precheck(r) \/ Write(r) \/ Inspect(r) \/ Rollback(r)
  \/ Commit(r) \/ CommitRefused(r) \/ CommitLost(r) \/ DatabaseCommits(r) \/ DatabaseRollsBack(r) \/ Publish(r) \/ Answer(r) \/ Unheard(r) \/ CallLost(r)

\* What a step leaves alone of a request.
Untouched(q) ==
  /\ at'[q] = at[q] /\ change'[q] = change[q] /\ reply'[q] = reply[q] /\ audit'[q] = audit[q] /\ said'[q] = said[q]
  /\ q \in done' <=> q \in done
  /\ q \in sent' <=> q \in sent

LEMMA UntouchedKeeps ==
  ASSUME NEW q \in Requests, RequestInv(q), Untouched(q)
  PROVE  RequestInv(q)'
BY DEF RequestInv, Untouched, CommitIsLate, ReplyOfStep, ReplyIsTrue, AuditOfStep, Told, NeverWritten

\* A request touches no other: each has a connection, a reply and a record of its own.
LEMMA OthersUntouched ==
  ASSUME RowWritesTypeOK, NEW r \in Requests, NEW q \in Requests, q # r, RequestStep(r)
  PROVE  Untouched(q)
<1>1. CASE TooLarge(r)
  BY <1>1 DEF RowWritesTypeOK, Untouched, TooLarge, Ends, Replies_, WriteGoes, NothingElse
<1>2. CASE Resolve(r)
  BY <1>2 DEF RowWritesTypeOK, Untouched, Resolve, Ends, Replies_, WriteGoes, NothingElse
<1>3. CASE ReferenceStep(r)
  BY <1>3 DEF RowWritesTypeOK, Untouched, ReferenceStep, Ends, Replies_, WriteGoes, NothingElse
<1>4. CASE Borrow(r)
  BY <1>4 DEF RowWritesTypeOK, Untouched, Borrow, Ends, Replies_, WriteGoes, NothingElse
<1>5. CASE Precheck(r)
  BY <1>5 DEF RowWritesTypeOK, Untouched, Precheck, Ends, Replies_, WriteGoes, NothingElse
<1>6. CASE Write(r)
  BY <1>6 DEF RowWritesTypeOK, Untouched, Write, Ends, Replies_, WriteGoes, NothingElse
<1>7. CASE Inspect(r)
  BY <1>7 DEF RowWritesTypeOK, Untouched, Inspect, Ends, Replies_, WriteGoes, NothingElse
<1>8. CASE Rollback(r)
  BY <1>8 DEF RowWritesTypeOK, Untouched, Rollback, AfterRollback, Ends, Replies_, WriteGoes, NothingElse
<1>9. CASE Commit(r)
  BY <1>9 DEF RowWritesTypeOK, Untouched, Commit, Commits, WriteGoes
<1>10. CASE CommitRefused(r)
  BY <1>10 DEF RowWritesTypeOK, Untouched, CommitRefused, Ends, Replies_, WriteGoes, NothingElse
<1>11. CASE CommitLost(r)
  BY <1>11 DEF RowWritesTypeOK, Untouched, CommitLost, Ends, Replies_, WriteGoes, NothingElse
<1>12. CASE DatabaseCommits(r)
  BY <1>12 DEF RowWritesTypeOK, Untouched, DatabaseCommits, Commits
<1>13. CASE DatabaseRollsBack(r)
  BY <1>13 DEF RowWritesTypeOK, Untouched, DatabaseRollsBack, NothingElse
<1>14. CASE Publish(r)
  BY <1>14 DEF RowWritesTypeOK, Untouched, Publish, WriteGoes
<1>15. CASE Answer(r)
  BY <1>15 DEF RowWritesTypeOK, Untouched, Answer, Ends, Replies_, WriteGoes
<1>16. CASE Unheard(r)
  BY <1>16 DEF RowWritesTypeOK, Untouched, Unheard, Ends, Replies_, WriteGoes
<1>17. CASE CallLost(r)
  BY <1>17 DEF RowWritesTypeOK, Untouched, CallLost
<1>18. QED
  BY <1>1, <1>2, <1>3, <1>4, <1>5, <1>6, <1>7, <1>8, <1>9, <1>10, <1>11, <1>12, <1>13, <1>14, <1>15, <1>16, <1>17 DEF RequestStep

LEMMA OwnStep ==
  ASSUME RowWritesInv, NEW r \in Requests, RequestStep(r)
  PROVE  RequestInv(r)'
<1> USE DEF RowWritesInv, RowWritesTypeOK, RequestInv, CommitIsLate, ReplyOfStep, ReplyIsTrue, AuditOfStep, Told, NeverWritten
<1>1. CASE TooLarge(r)
  BY <1>1 DEF TooLarge, Ends, Replies_, WriteGoes, NothingElse
<1>2. CASE Resolve(r)
  BY <1>2 DEF Resolve, Ends, Replies_, WriteGoes, NothingElse, Early
<1>3. CASE ReferenceStep(r)
  BY <1>3 DEF ReferenceStep, Ends, Replies_, WriteGoes, NothingElse
<1>4. CASE Borrow(r)
  BY <1>4 DEF Borrow, Ends, Replies_, WriteGoes, NothingElse
<1>5. CASE Precheck(r)
  BY <1>5 DEF Precheck, Ends, Replies_, WriteGoes, NothingElse, FailureReasons
<1>6. CASE Write(r)
  BY <1>6 DEF Write, Ends, Replies_, WriteGoes, NothingElse, FailureReasons
<1>7. CASE Inspect(r)
  BY <1>7 DEF Inspect, Ends, Replies_, WriteGoes, NothingElse
<1>8. CASE Rollback(r)
  BY <1>8 DEF Rollback, AfterRollback, Ends, Replies_, WriteGoes, NothingElse
<1>9. CASE Commit(r)
  BY <1>9 DEF Commit, Commits, WriteGoes
<1>10. CASE CommitRefused(r)
  BY <1>10 DEF CommitRefused, Ends, Replies_, WriteGoes, NothingElse
<1>11. CASE CommitLost(r)
  BY <1>11 DEF CommitLost, Ends, Replies_, WriteGoes, NothingElse
<1>12. CASE DatabaseCommits(r)
  BY <1>12 DEF DatabaseCommits, Commits
<1>13. CASE DatabaseRollsBack(r)
  BY <1>13 DEF DatabaseRollsBack, NothingElse
<1>14. CASE Publish(r)
  BY <1>14 DEF Publish, WriteGoes, AuditOf
<1>15. CASE Answer(r)
  BY <1>15 DEF Answer, Ends, Replies_, WriteGoes, Classify, NOT_SAVED_CODES, WriteRejections, Early
<1>16. CASE Unheard(r)
  BY <1>16 DEF Unheard, Ends, Replies_, WriteGoes
<1>17. CASE CallLost(r)
  BY <1>17 DEF CallLost, Classify, NOT_SAVED_CODES, WriteRejections, Early
<1>18. QED
  BY <1>1, <1>2, <1>3, <1>4, <1>5, <1>6, <1>7, <1>8, <1>9, <1>10, <1>11, <1>12, <1>13, <1>14, <1>15, <1>16, <1>17 DEF RequestStep

\* The ties of the type invariant, of one request; and the types.
Ties(r) ==
  /\ change[r] # NoChange => at[r] \in {"rollback", "commit", "over"} \/ r \in sent
  /\ at[r] \in {"inspect", "rollback", "commit", "publish", "answer"} <=> reply[r] # "none"
  /\ r \in inspected => at[r] = "rollback"
Types ==
  /\ table \in [WriteRows -> Values \cup {NoValue}] /\ parents \subseteq Values /\ constraints \subseteq {"unique", "reference"}
  /\ asks \in [Requests -> [op : WriteOperations, value : Values]] /\ at \in [Requests -> Steps] /\ change \in [Requests -> Changes]
  /\ reply \in [Requests -> Replies] /\ inspected \subseteq Requests /\ done \subseteq Requests /\ sent \subseteq Requests
  /\ audit \in [Requests -> {"none", "SUCCESS", "FAILURE", "UNKNOWN", "lost"}] /\ said \in [Requests -> {"waiting", "saved", "not-saved", "unknown"}]

LEMMA TiesStep ==
  ASSUME RowWritesInv, NEW r \in Requests, RequestStep(r), NEW q \in Requests
  PROVE  Ties(q)'
<1> USE DEF RowWritesInv, RowWritesTypeOK, RequestInv, CommitIsLate, ReplyOfStep, Ties
<1>1. CASE TooLarge(r)
  BY <1>1 DEF TooLarge, Ends, Replies_, WriteGoes, NothingElse
<1>2. CASE Resolve(r)
  BY <1>2 DEF Resolve, Ends, Replies_, WriteGoes, NothingElse, Early
<1>3. CASE ReferenceStep(r)
  BY <1>3 DEF ReferenceStep, Ends, Replies_, WriteGoes, NothingElse
<1>4. CASE Borrow(r)
  BY <1>4 DEF Borrow, Ends, Replies_, WriteGoes, NothingElse
<1>5. CASE Precheck(r)
  BY <1>5 DEF Precheck, Ends, Replies_, WriteGoes, NothingElse, FailureReasons
<1>6. CASE Write(r)
  BY <1>6 DEF Write, Ends, Replies_, WriteGoes, NothingElse, FailureReasons
<1>7. CASE Inspect(r)
  BY <1>7 DEF Inspect, Ends, Replies_, WriteGoes, NothingElse
<1>8. CASE Rollback(r)
  BY <1>8 DEF Rollback, AfterRollback, Ends, Replies_, WriteGoes, NothingElse
<1>9. CASE Commit(r)
  BY <1>9 DEF Commit, Commits, WriteGoes
<1>10. CASE CommitRefused(r)
  BY <1>10 DEF CommitRefused, Ends, Replies_, WriteGoes, NothingElse
<1>11. CASE CommitLost(r)
  BY <1>11 DEF CommitLost, Ends, Replies_, WriteGoes, NothingElse
<1>12. CASE DatabaseCommits(r)
  BY <1>12 DEF DatabaseCommits, Commits
<1>13. CASE DatabaseRollsBack(r)
  BY <1>13 DEF DatabaseRollsBack, NothingElse
<1>14. CASE Publish(r)
  BY <1>14 DEF Publish, WriteGoes
<1>15. CASE Answer(r)
  BY <1>15 DEF Answer, Ends, Replies_, WriteGoes, Early
<1>16. CASE Unheard(r)
  BY <1>16 DEF Unheard, Ends, Replies_, WriteGoes
<1>17. CASE CallLost(r)
  BY <1>17 DEF CallLost, Early
<1>18. QED
  BY <1>1, <1>2, <1>3, <1>4, <1>5, <1>6, <1>7, <1>8, <1>9, <1>10, <1>11, <1>12, <1>13, <1>14, <1>15, <1>16, <1>17 DEF RequestStep

LEMMA TypesStep ==
  ASSUME RowWritesInv, NEW r \in Requests, RequestStep(r)
  PROVE  Types'
<1>1. Types
  BY DEF RowWritesInv, RowWritesTypeOK, Types
<1>2. /\ "DUPLICATE_VALUE" \in Replies /\ "REFERENCE_NOT_FOUND" \in Replies /\ "TARGET_DB_TIMEOUT" \in Replies /\ "PAYLOAD_TOO_LARGE" \in Replies
      /\ "ROW_NOT_FOUND" \in Replies /\ "none" \in Replies /\ "WRITTEN" \in Replies /\ "TARGET_DB_UNAVAILABLE" \in Replies /\ "TARGET_DB_MISMATCH" \in Replies
      /\ "SAVE_REJECTED" \in Replies /\ "UNEXPECTED" \in Replies /\ "WRITE_NOT_CONFIGURED" \in Replies /\ "ROW_OPERATION_NOT_ALLOWED" \in Replies
      /\ Early \subseteq Replies /\ FailureReasons \subseteq Replies
      /\ NoChange \in Changes /\ \A c \in Changes : c.value \in Values \cup {NoValue}
  BY DEF Replies, WriteRejections, Early, FailureReasons, Changes, NoChange
<1>3. CASE TooLarge(r)
  BY <1>1, <1>2, <1>3 DEF Types, Steps, TooLarge, Ends, Replies_, WriteGoes, NothingElse
<1>4. CASE Resolve(r)
  <2>1. at' \in [Requests -> Steps]
    BY <1>1, <1>4 DEF Types, Steps, Resolve, Ends, WriteGoes
  <2>2. reply' \in [Requests -> Replies]
    BY <1>1, <1>2, <1>4 DEF Types, Resolve, Ends, Replies_
  <2>3. QED
    BY <1>1, <1>4, <2>1, <2>2 DEF Types, Resolve, NothingElse
<1>5. CASE ReferenceStep(r)
  <2>1. at' \in [Requests -> Steps]
    BY <1>1, <1>5 DEF Types, Steps, ReferenceStep, Ends, WriteGoes
  <2>2. reply' \in [Requests -> Replies]
    BY <1>1, <1>2, <1>5 DEF Types, ReferenceStep, Ends, Replies_
  <2>3. QED
    BY <1>1, <1>5, <2>1, <2>2 DEF Types, ReferenceStep, NothingElse
<1>6. CASE Borrow(r)
  <2>1. at' \in [Requests -> Steps]
    BY <1>1, <1>6 DEF Types, Steps, Borrow, Ends, WriteGoes
  <2>2. reply' \in [Requests -> Replies]
    BY <1>1, <1>2, <1>6 DEF Types, Borrow, Ends, Replies_
  <2>3. QED
    BY <1>1, <1>6, <2>1, <2>2 DEF Types, Borrow, NothingElse
<1>7. CASE Precheck(r)
  <2>1. at' \in [Requests -> Steps]
    BY <1>1, <1>7 DEF Types, Steps, Precheck, Ends, WriteGoes
  <2>2. reply' \in [Requests -> Replies]
    BY <1>1, <1>2, <1>7 DEF Types, Precheck, Ends, Replies_
  <2>3. QED
    BY <1>1, <1>7, <2>1, <2>2 DEF Types, Precheck, NothingElse
<1>8. CASE Write(r)
  <2>1. [row |-> RowOf(r), value |-> ValueOf(r)] \in Changes
    BY <1>1 DEF Types, Changes, RowOf, ValueOf, WriteRows
  <2>2. PICK what \in Replies, step \in Steps : Ends(r, what, step)
    BY <1>2, <1>8 DEF Write, Steps
  <2>3. change' \in [Requests -> Changes]
    BY <1>1, <1>8, <2>1 DEF Types, Write
  <2>4. QED
    BY <1>1, <1>8, <2>2, <2>3 DEF Types, Write, Ends, Replies_, WriteGoes, NothingElse
<1>9. CASE Inspect(r)
  <2>1. at' \in [Requests -> Steps]
    BY <1>1, <1>9 DEF Types, Steps, Inspect, Ends, WriteGoes
  <2>2. reply' \in [Requests -> Replies]
    BY <1>1, <1>2, <1>9 DEF Types, Inspect, Ends, Replies_
  <2>3. QED
    BY <1>1, <1>9, <2>1, <2>2 DEF Types, Inspect, NothingElse
<1>10. CASE Rollback(r)
  BY <1>1, <1>2, <1>10 DEF Types, Steps, Rollback, AfterRollback, Ends, Replies_, WriteGoes, NothingElse, Changes, FailureReasons
<1>11. CASE Commit(r)
  BY <1>1, <1>2, <1>11 DEF Types, Steps, Commit, Commits, WriteGoes, Changes
<1>12. CASE CommitRefused(r)
  BY <1>1, <1>2, <1>12 DEF Types, Steps, CommitRefused, Ends, Replies_, WriteGoes, NothingElse, Changes
<1>13. CASE CommitLost(r)
  BY <1>1, <1>2, <1>13 DEF Types, Steps, CommitLost, Ends, Replies_, WriteGoes, NothingElse
<1>14. CASE DatabaseCommits(r)
  BY <1>1, <1>2, <1>14 DEF Types, Steps, DatabaseCommits, Commits, Changes
<1>15. CASE DatabaseRollsBack(r)
  BY <1>1, <1>2, <1>15 DEF Types, Steps, DatabaseRollsBack, NothingElse, Changes
<1>16. CASE Publish(r)
  BY <1>1, <1>2, <1>16 DEF Types, Steps, Publish, WriteGoes, AuditOf
<1>17. CASE Answer(r)
  BY <1>1, <1>2, <1>17 DEF Types, Steps, Answer, Ends, Replies_, WriteGoes, Classify
<1>18. CASE Unheard(r)
  BY <1>1, <1>2, <1>18 DEF Types, Steps, Unheard, Ends, Replies_, WriteGoes
<1>19. CASE CallLost(r)
  BY <1>1, <1>2, <1>19 DEF Types, Steps, CallLost, Classify
<1>20. QED
  BY <1>3, <1>4, <1>5, <1>6, <1>7, <1>8, <1>9, <1>10, <1>11, <1>12, <1>13, <1>14, <1>15, <1>16, <1>17, <1>18, <1>19 DEF RequestStep

LEMMA WritesInit == RowWritesInit => RowWritesInv
<1>1. SUFFICES ASSUME RowWritesInit PROVE RowWritesInv
  OBVIOUS
<1>2. NoChange \in Changes
  BY DEF Changes
<1>3. Types
  BY <1>1, <1>2 DEF RowWritesInit, Types, WriteRows, Steps, Replies
<1>4. \A r \in Requests : Ties(r)
  BY <1>1 DEF RowWritesInit, Ties
<1>5. \A r \in Requests : RequestInv(r)
  BY <1>1 DEF RowWritesInit, RequestInv, CommitIsLate, ReplyOfStep, ReplyIsTrue, AuditOfStep, Told
<1>6. QED
  BY <1>3, <1>4, <1>5 DEF RowWritesInv, RowWritesTypeOK, Types, Ties

\* The server goes down: what was sent may still be settled, what was not never is.
LEMMA CrashStep ==
  ASSUME RowWritesInv, Crash
  PROVE  RowWritesInv'
<1> USE DEF Crash
<1>1. Types'
  BY DEF RowWritesInv, RowWritesTypeOK, Types, Steps, Replies
<1>2. \A r \in Requests : Ties(r)'
  BY DEF Ties
<1>3. \A r \in Requests : RequestInv(r)'
  BY DEF RowWritesInv, RowWritesTypeOK, RequestInv, CommitIsLate, ReplyOfStep, ReplyIsTrue, AuditOfStep, Told, NeverWritten
<1>4. RowWritesTypeOK'
  BY <1>1, <1>2 DEF RowWritesTypeOK, Types, Ties
<1>5. QED
  BY <1>3, <1>4 DEF RowWritesInv

LEMMA WritesStep ==
  ASSUME RowWritesInv, [RowWritesNext]_rowWriteVars
  PROVE  RowWritesInv'
<1>1. CASE \E r \in Requests : RequestStep(r)
  <2>1. PICK r \in Requests : RequestStep(r)
    BY <1>1
  <2>2. RowWritesTypeOK'
    <3>1. \A q \in Requests : Ties(q)'
      BY <2>1, TiesStep
    <3>2. Types'
      BY <2>1, TypesStep
    <3>3. QED
      BY <3>1, <3>2 DEF RowWritesTypeOK, Types, Ties
  <2>3. ASSUME NEW q \in Requests PROVE RequestInv(q)'
    <3>1. CASE q = r
      BY <2>1, <3>1, OwnStep
    <3>2. CASE q # r
      <4>1. Untouched(q)
        BY <2>1, <3>2, OthersUntouched DEF RowWritesInv
      <4>2. QED
        BY <4>1, UntouchedKeeps DEF RowWritesInv
    <3>3. QED
      BY <3>1, <3>2
  <2>4. QED
    BY <2>2, <2>3 DEF RowWritesInv
<1>2. CASE Crash
  BY <1>2, CrashStep
<1>3. CASE \E v \in Values : ParentDeleted(v)
  BY <1>3 DEF ParentDeleted, RowWritesInv, RowWritesTypeOK, RequestInv, CommitIsLate, ReplyOfStep, ReplyIsTrue, AuditOfStep, Told, NeverWritten
<1>4. CASE UNCHANGED rowWriteVars
  BY <1>4 DEF rowWriteVars, RowWritesInv, RowWritesTypeOK, RequestInv, CommitIsLate, ReplyOfStep, ReplyIsTrue, AuditOfStep, Told, NeverWritten
<1>5. QED
  BY <1>1, <1>2, <1>3, <1>4 DEF RowWritesNext, RequestStep

\* Each request's step, reply, commit, change and audit record go together, as RowWritesInv says, whatever fails.
THEOREM WritesInvHolds == RowWritesSpec => []RowWritesInv
BY WritesInit, WritesStep, PTL DEF RowWritesSpec

\* However many writes run at once and whatever fails, the form is told "saved" only of a row that is written and "not saved" only of one that
\* is not and will not be, and the audit record says the same: BusinessDataWriteService, JdbcTargetWriteAccess and writeOutcome.
THEOREM WritesToldTruly == RowWritesSpec => []WritesAreToldTruly
<1>1. RowWritesInv => WritesAreToldTruly
  <2>1. AuditOf("WRITTEN") = "SUCCESS" /\ AuditOf("TARGET_DB_TIMEOUT") = "UNKNOWN"
    BY DEF AuditOf, Early
  <2>2. SUFFICES ASSUME NEW r \in Requests, RequestInv(r)
                 PROVE  /\ said[r] = "saved" => r \in done
                        /\ said[r] = "not-saved" => NeverWritten(r) /\ at[r] = "over"
                        /\ audit[r] = "SUCCESS" => r \in done
                        /\ audit[r] = "FAILURE" => NeverWritten(r)
                        /\ r \in done /\ at[r] = "answer" => audit[r] \in {"SUCCESS", "UNKNOWN", "lost"}
    BY DEF RowWritesInv, WritesAreToldTruly, SaidIsTrue, AuditIsTrue
  <2>3. r \in done /\ at[r] = "answer" => reply[r] \in {"WRITTEN", "TARGET_DB_TIMEOUT"}
    BY <2>2 DEF RequestInv, ReplyIsTrue, NeverWritten
  <2>4. QED
    BY <2>1, <2>2, <2>3 DEF RequestInv, AuditOfStep, Told
<1>2. QED
  BY <1>1, WritesInvHolds, PTL

\* The variables of the writes keep their types, and the ties of a transaction: a change is open only from its statement to the end of its
\* transaction or the settling of its commit, and a reply is there exactly while a request has one to give (JdbcTargetWriteAccess).
THEOREM WriteTypesHold == RowWritesSpec => []RowWritesTypeOK
BY WritesInvHolds, PTL DEF RowWritesInv
==============================================================================
