------------------------------- MODULE RowWrites -------------------------------
(***************************************************************************)
(* Writing one row of a business table, from the call of the form to what  *)
(* the form is told: BusinessDataWriteService, the transaction of the      *)
(* target database (JdbcTargetWriteAccess), the audit record, and the      *)
(* outcome the client makes of the answer (writeOutcome).                  *)
(*                                                                         *)
(* Several requests run at once.  The table has one column, declared       *)
(* unique and a reference to a row of another table; the target database   *)
(* may or may not have the two constraints itself.  A create makes the row *)
(* of the request's own name, an update and a delete are of the row Old.   *)
(* Any statement may fail, the connection may be lost at any point, and a  *)
(* commit whose answer was lost is settled by the database later.          *)
(***************************************************************************)
EXTENDS Naturals, FiniteSets

CONSTANTS
  Requests,  \* the calls of createRow, updateRow and deleteRow
  Old,       \* the row that is there from the start
  Values,    \* the values of the column: the keys of the rows referred to
  NoValue       \* no value, no row

RowAssumption == Old \notin Requests /\ NoValue \notin Values

VARIABLES
  table,        \* the committed rows
  parents,      \* the rows that may be referred to
  constraints,  \* the constraints the target database has itself
  asks,         \* the request: its operation and its value
  at,           \* where the request is
  change,       \* the change of its open transaction: the row and its value
  reply,        \* what the service answers: the result, or the rejection
  inspected,    \* the reply is the result of a look that itself failed
  done,         \* the requests whose transaction the database has committed
  sent,         \* the requests whose commit has been sent
  audit,        \* the audit record of the request
  said          \* what the form is told

rowWriteVars == <<table, parents, constraints, asks, at, change, reply, inspected, done, sent, audit, said>>

WriteRows == Requests \cup {Old}
WriteOperations == {"create", "update", "delete"}
Steps == {"received", "reference", "borrow", "precheck", "write", "inspect", "rollback", "commit", "publish", "answer", "over"}
NoChange == [row |-> NoValue, value |-> NoValue]
Changes == {NoChange} \cup [row : WriteRows, value : Values \cup {NoValue}]

\* What the checks before any connection can reject with, and what a failure of a statement is turned into.
Early == {"DSL_NOT_APPLIED", "TABLE_NOT_FOUND", "ACCESS_DENIED", "DEFINITION_CHANGED", "ROW_OPERATION_NOT_ALLOWED", "WRITE_NOT_CONFIGURED", "VALIDATION_FAILED"}
FailureReasons == {"TARGET_DB_UNAVAILABLE", "TARGET_DB_MISMATCH", "SAVE_REJECTED", "UNEXPECTED"}
WriteRejections == Early \cup {"TARGET_DB_UNAVAILABLE", "TARGET_DB_MISMATCH", "DUPLICATE_VALUE", "REFERENCE_NOT_FOUND", "SAVE_REJECTED", "ROW_NOT_FOUND", "TARGET_DB_TIMEOUT"}
Replies == WriteRejections \cup {"none", "WRITTEN", "UNEXPECTED", "PAYLOAD_TOO_LARGE", "FOREIGN"}

\* The row the request acts on, and the value it would have.
RowOf(r) == IF asks[r].op = "create" THEN r ELSE Old
ValueOf(r) == IF asks[r].op = "delete" THEN NoValue ELSE asks[r].value

\* The row is locked by an open change; so is a value under a unique constraint.
InTheWay(r) ==
  \E o \in Requests \ {r} :
    /\ change[o] # NoChange
    /\ \/ change[o].row = RowOf(r)
       \/ "unique" \in constraints /\ ValueOf(r) # NoValue /\ change[o].value = ValueOf(r)
Duplicate(r) == ValueOf(r) # NoValue /\ \E row \in WriteRows \ {RowOf(r)} : table[row] = ValueOf(r)

RowWritesInit ==
  /\ table \in {[row \in WriteRows |-> IF row = Old THEN v ELSE NoValue] : v \in Values} /\ parents = Values
  /\ constraints \in SUBSET {"unique", "reference"}
  /\ asks \in [Requests -> [op : WriteOperations, value : Values]]
  /\ at = [r \in Requests |-> "received"] /\ change = [r \in Requests |-> NoChange] /\ reply = [r \in Requests |-> "none"]
  /\ inspected = {} /\ done = {} /\ sent = {}
  /\ audit = [r \in Requests |-> "none"] /\ said = [r \in Requests |-> "waiting"]

-----------------------------------------------------------------------------
WriteGoes(r, step) == at' = [at EXCEPT ![r] = step]
Replies_(r, what) == reply' = [reply EXCEPT ![r] = what]
Ends(r, what, step) == Replies_(r, what) /\ WriteGoes(r, step)
NothingElse == UNCHANGED <<parents, constraints, asks, done, audit, said>>

\* The client does not send what is too large; the server would refuse it.
TooLarge(r) ==
  /\ at[r] = "received" /\ Ends(r, "PAYLOAD_TOO_LARGE", "answer")
  /\ UNCHANGED <<table, change, inspected, sent>> /\ NothingElse

\* The checks of the snapshot: DSL, table, permission, definition, settings, values.  Only the structural refusal is audited, and only
\* if the user has the permission of the operation.
Resolve(r) ==
  /\ at[r] = "received"
  /\ \/ \E rejection \in Early : Ends(r, rejection, "answer")
     \/ Ends(r, "ROW_OPERATION_NOT_ALLOWED", "publish")
     \/ WriteGoes(r, IF asks[r].op = "delete" THEN "borrow" ELSE "reference") /\ UNCHANGED reply
  /\ UNCHANGED <<table, change, inspected, sent>> /\ NothingElse

\* referenceStep, on a connection for reading: an update needs the row, and a value that changes must be one that is there.
ReferenceFound(r) == asks[r].value \in parents \/ (asks[r].op = "update" /\ table[Old] = asks[r].value)
ReferenceStep(r) ==
  /\ at[r] = "reference"
  /\ \/ asks[r].op = "update" /\ table[Old] = NoValue /\ Ends(r, "ROW_NOT_FOUND", "publish")
     \/ /\ asks[r].op = "update" => table[Old] # NoValue
        /\ \/ ReferenceFound(r) /\ WriteGoes(r, "borrow") /\ UNCHANGED reply
           \/ ~ReferenceFound(r) /\ Ends(r, "REFERENCE_NOT_FOUND", "publish")
     \/ \E failure \in {"TARGET_DB_TIMEOUT", "TARGET_DB_UNAVAILABLE", "TARGET_DB_MISMATCH"} : Ends(r, failure, "publish")
     \/ Ends(r, "UNEXPECTED", "answer")
  /\ UNCHANGED <<table, change, inspected, sent>> /\ NothingElse

Borrow(r) ==
  /\ at[r] = "borrow"
  /\ \/ WriteGoes(r, IF asks[r].op = "delete" THEN "write" ELSE "precheck") /\ UNCHANGED reply
     \/ Ends(r, "TARGET_DB_UNAVAILABLE", "publish")
     \/ Ends(r, "WRITE_NOT_CONFIGURED", "answer")
  /\ UNCHANGED <<table, change, inspected, sent>> /\ NothingElse

\* precheckUnique: another committed row with the value; then the savepoint.
Precheck(r) ==
  /\ at[r] = "precheck"
  /\ \/ Duplicate(r) /\ Ends(r, "DUPLICATE_VALUE", "rollback")
     \/ ~Duplicate(r) /\ WriteGoes(r, "write") /\ UNCHANGED reply
     \/ \E failure \in FailureReasons : Ends(r, failure, "rollback")
  /\ UNCHANGED <<table, change, inspected, sent>> /\ NothingElse

\* The statement.  It waits for a change in its way; waiting too long, a deadlock and a lost connection are failures.
Write(r) ==
  /\ at[r] = "write"
  /\ \/ /\ ~InTheWay(r)
        /\ IF asks[r].op # "create" /\ table[Old] = NoValue THEN Ends(r, "ROW_NOT_FOUND", "rollback") /\ UNCHANGED change
           ELSE IF "unique" \in constraints /\ Duplicate(r) THEN Ends(r, "DUPLICATE_VALUE", "inspect") /\ UNCHANGED change
           ELSE IF "reference" \in constraints /\ ValueOf(r) \notin parents \cup {NoValue} THEN Ends(r, "REFERENCE_NOT_FOUND", "inspect") /\ UNCHANGED change
           ELSE Ends(r, "WRITTEN", "commit") /\ change' = [change EXCEPT ![r] = [row |-> RowOf(r), value |-> ValueOf(r)]]
     \/ /\ \E failure \in FailureReasons : Ends(r, failure, "rollback")
        /\ \/ UNCHANGED change
           \/ ~InTheWay(r) /\ change' = [change EXCEPT ![r] = [row |-> RowOf(r), value |-> ValueOf(r)]]
  /\ UNCHANGED <<table, inspected, sent>> /\ NothingElse

\* inspectViolation, after the way back to the savepoint: which column it was.  If it fails, the save was rejected or the database is away.
Inspect(r) ==
  /\ at[r] = "inspect"
  /\ \/ WriteGoes(r, "rollback") /\ UNCHANGED <<reply, inspected>>
     \/ \E failure \in {"SAVE_REJECTED", "TARGET_DB_UNAVAILABLE"} : Ends(r, failure, "rollback") /\ inspected' = inspected \cup {r}
  /\ UNCHANGED <<table, change, sent>> /\ NothingElse

AfterRollback(r, what) == Ends(r, what, IF what = "UNEXPECTED" THEN "answer" ELSE "publish")
\* The end of a transaction that is not to be committed.  If the rollback fails the connection is thrown away: the database rolls back itself.
Rollback(r) ==
  /\ at[r] = "rollback" /\ change' = [change EXCEPT ![r] = NoChange]
  /\ \/ AfterRollback(r, reply[r])
     \/ /\ reply[r] \in {"DUPLICATE_VALUE", "REFERENCE_NOT_FOUND"} /\ r \notin inspected
        /\ \E failure \in {"SAVE_REJECTED", "TARGET_DB_UNAVAILABLE"} : AfterRollback(r, failure)
  /\ inspected' = inspected \ {r} /\ UNCHANGED <<table, sent>> /\ NothingElse

Commits(r) == table' = [table EXCEPT ![change[r].row] = change[r].value] /\ done' = done \cup {r} /\ change' = [change EXCEPT ![r] = NoChange]
Commit(r) ==
  /\ at[r] = "commit" /\ sent' = sent \cup {r} /\ WriteGoes(r, "publish") /\ Commits(r)
  /\ UNCHANGED <<parents, constraints, asks, reply, inspected, audit, said>>
\* A constraint that is checked at the commit: SQLState 23.
CommitRefused(r) ==
  /\ at[r] = "commit" /\ "reference" \in constraints /\ sent' = sent \cup {r} /\ Ends(r, "SAVE_REJECTED", "publish")
  /\ change' = [change EXCEPT ![r] = NoChange] /\ UNCHANGED <<table, inspected>> /\ NothingElse
MutCommitLostIsUnavailable(r) == at[r] = "commit" /\ sent' = sent \cup {r} /\ Ends(r, "TARGET_DB_UNAVAILABLE", "publish") /\ UNCHANGED <<table, change, inspected>> /\ NothingElse
\* The answer to the commit is lost or late.
CommitLost(r) ==
  /\ at[r] = "commit" /\ sent' = sent \cup {r} /\ Ends(r, "TARGET_DB_TIMEOUT", "publish")
  /\ UNCHANGED <<table, change, inspected>> /\ NothingElse
\* The database settles what it was sent, or what it lost the connection of.
DatabaseCommits(r) ==
  /\ change[r] # NoChange /\ r \in sent /\ Commits(r)
  /\ UNCHANGED <<parents, constraints, asks, at, reply, inspected, sent, audit, said>>
DatabaseRollsBack(r) ==
  /\ change[r] # NoChange /\ (r \in sent \/ at[r] = "over") /\ change' = [change EXCEPT ![r] = NoChange]
  /\ UNCHANGED <<table, at, reply, inspected, sent>> /\ NothingElse

-----------------------------------------------------------------------------
\* BusinessDataAuditReason and BusinessDataAuditResult: what the record says of a reply.
AuditOf(what) ==
  CASE what = "WRITTEN" -> "SUCCESS"
    [] what = "TARGET_DB_TIMEOUT" -> "UNKNOWN"
    [] what \in Early \ {"ROW_OPERATION_NOT_ALLOWED"} -> "none"
    [] OTHER -> "FAILURE"

\* publish, and the listener: the record is written, or its failure is logged; the answer is the same.
Publish(r) ==
  /\ at[r] = "publish" /\ WriteGoes(r, "answer")
  /\ \E record \in {AuditOf(reply[r]), "lost"} : audit' = [audit EXCEPT ![r] = record]
  /\ UNCHANGED <<table, parents, constraints, asks, change, reply, inspected, done, sent, said>>

\* The codes, with their status, that say the row is not saved.
NOT_SAVED_CODES == (WriteRejections \ {"TARGET_DB_TIMEOUT"}) \cup {"PAYLOAD_TOO_LARGE"}
\* classifyWriteFailure and classifyWriteSuccess: success is the status of the operation with a JSON body.
Classify(what) == IF what \in NOT_SAVED_CODES THEN "not-saved" ELSE IF what = "WRITTEN" THEN "saved" ELSE "unknown"

\* The answer arrives; or what arrives is no answer of the server's, or nothing.
Answer(r) ==
  /\ at[r] = "answer" /\ said[r] = "waiting" /\ Ends(r, "none", "over")
  /\ \E what \in {reply[r], "FOREIGN"} : said' = [said EXCEPT ![r] = Classify(what)]
  /\ UNCHANGED <<table, parents, constraints, asks, change, inspected, done, sent, audit>>
\* Nobody hears the answer any more.
Unheard(r) ==
  /\ at[r] = "answer" /\ said[r] # "waiting" /\ Ends(r, "none", "over")
  /\ UNCHANGED <<table, parents, constraints, asks, change, inspected, done, sent, audit, said>>
\* The client hears nothing more of the request, which goes on in the server.
CallLost(r) ==
  /\ said[r] = "waiting" /\ said' = [said EXCEPT ![r] = Classify("FOREIGN")]
  /\ UNCHANGED <<table, parents, constraints, asks, at, change, reply, inspected, done, sent, audit>>

\* The server goes down: its connections are lost, and with them every transaction whose commit has not been sent.
Crash ==
  /\ \E r \in Requests : at[r] # "over"
  /\ at' = [r \in Requests |-> "over"] /\ reply' = [r \in Requests |-> "none"] /\ inspected' = {}
  /\ said' = [r \in Requests |-> IF said[r] = "waiting" THEN "unknown" ELSE said[r]]
  /\ UNCHANGED <<table, parents, constraints, asks, change, done, sent, audit>>
ParentDeleted(v) ==
  /\ v \in parents /\ parents' = parents \ {v}
  /\ "reference" \in constraints => (\A row \in WriteRows : table[row] # v) /\ (\A r \in Requests : change[r].value # v)
  /\ UNCHANGED <<table, constraints, asks, at, change, reply, inspected, done, sent, audit, said>>

RowWritesNext ==
  \/ \E r \in Requests :
       \/ TooLarge(r) \/ Resolve(r) \/ ReferenceStep(r) \/ Borrow(r) \/ Precheck(r) \/ Write(r) \/ Inspect(r) \/ Rollback(r)
       \/ Commit(r) \/ CommitRefused(r) \/ CommitLost(r) \/ DatabaseCommits(r) \/ DatabaseRollsBack(r) \/ Publish(r) \/ Answer(r) \/ Unheard(r) \/ CallLost(r)
  \/ Crash \/ \E v \in Values : ParentDeleted(v)

RowWritesSpec == RowWritesInit /\ [][RowWritesNext]_rowWriteVars

-----------------------------------------------------------------------------
\* Types, with the ties of the transaction: a change is open only from the statement to the end of the transaction, a rollback leaves nothing
\* behind for the next user of the connection, and a request says what came of it once it is past the statement.
RowWritesTypeOK ==
  /\ table \in [WriteRows -> Values \cup {NoValue}] /\ parents \subseteq Values /\ constraints \subseteq {"unique", "reference"}
  /\ asks \in [Requests -> [op : WriteOperations, value : Values]] /\ at \in [Requests -> Steps] /\ change \in [Requests -> Changes]
  /\ reply \in [Requests -> Replies] /\ inspected \subseteq Requests /\ done \subseteq Requests /\ sent \subseteq Requests
  /\ audit \in [Requests -> {"none", "SUCCESS", "FAILURE", "UNKNOWN", "lost"}] /\ said \in [Requests -> {"waiting", "saved", "not-saved", "unknown"}]
  /\ \A r \in Requests :
       /\ change[r] # NoChange => at[r] \in {"rollback", "commit", "over"} \/ r \in sent
       /\ at[r] \in {"inspect", "rollback", "commit", "publish", "answer"} <=> reply[r] # "none"
       /\ r \in inspected => at[r] = "rollback"

\* A request whose change is not in the table and can never be.
NeverWritten(r) == r \notin done /\ (r \notin sent \/ change[r] = NoChange)

\* writeOutcome.ts: "saved" is said only of a row that is written, "not saved" only of one that is not and will not be.
SaidIsTrue ==
  \A r \in Requests :
    /\ said[r] = "saved" => r \in done
    /\ said[r] = "not-saved" => NeverWritten(r) /\ at[r] = "over"

\* BusinessDataAuditResult: the audit record of a success is of a row that is written, that of a failure of one that is not and will not be;
\* and a written row has a record, unless the record could not be written or the server went down.
AuditIsTrue ==
  \A r \in Requests :
    /\ audit[r] = "SUCCESS" => r \in done
    /\ audit[r] = "FAILURE" => NeverWritten(r)
    /\ r \in done /\ at[r] = "answer" => audit[r] \in {"SUCCESS", "UNKNOWN", "lost"}

\* What the form is told of a write and what the audit log says of it are so, whatever failed on the way.
WritesAreToldTruly == SaidIsTrue /\ AuditIsTrue
==============================================================================
