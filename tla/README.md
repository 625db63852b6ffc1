# MasterSmith: TLA+ models, model checks and proofs

MasterSmith is a web application for maintaining the tables of a target database: a
Spring Boot backend (`backend/src/main/java/cherry/mastersmith`) with an internal H2
database, a React frontend (`frontend/src`), and a DSL, written in YAML, that says
which tables and columns the screens show. This directory holds TLA+ models of the
parts where concurrency, failure and ordering decide whether the program is right,
the TLC configurations that check them, and TLAPS proofs of what matters most.

Run from this directory:

    tlc -workers 4 -config MCAccounts_two.cfg MCAccounts    # one model check
    tlapm AccountsProofs.tla                                # the proofs of one module

Paths below are relative to the repository.

## 1. Inventory

### Backend

| Component | State it keeps | Operations | Hard part | What makes it correct |
|---|---|---|---|---|
| `user`, `useradmin` | table `users` (flags *admin*, *suspended*) | grant, revoke, suspend, resume, reset of login failures; rescue of the initial administrator at a start | several administrators at once: row locks, lock timeouts, counts of others' rows | an active administrator always remains; what was judged still holds at the commit; no deadlock |
| `auth` | `login_attempt_states`, `refresh_tokens` | login with lock-out, exchange and logout of a refresh token, cleanup job | the password check runs outside the transaction; rows are created, locked and revoked by others | every wrong password is counted; a token buys one successor; suspension ends sessions |
| `access` | none (reads `users`) | authorization of `/api/admin/**` | read without a lock before the operation | an operation checks again |
| `dslmanage`, `dsl` | `dsl_previews` (one row), `dsl_applied_revisions`, the active model, the preview cache, the unreadable revision, the heavy-operation permit | generate, submit, restore, show, discard, apply, status, load at start | memory is changed after the commit; previews are replaced between two reads; builds that cannot read old bodies | only what was applied runs; the history keeps the newest; what runs is what the status calls current |
| `invitation` | `invitations` | invite, resend, cancel, verify, register, cleanup | unique address under concurrency, mail after commit, expiry and resend against registration, a retry after a lost race | one open invitation and one working link per address; accounts only through it; no early deletion |
| `role`, `role.transfer`, `group`, `navigation` | roles, inheritance, permissions, assignments, groups, chosen work role | administration of each, switch of the work role, transfer of roles by a file | version checks, locks on roles by name, a plan that is applied later than it was shown | a transfer is applied to what it was planned on |
| `businessdata`, `targetdb` | the target database | search, read, insert, update, delete with reference checks | checks outside the write transaction, lost commits, timeouts | nobody is told that a row is saved, or not saved, when it is otherwise |
| `audit` | `audit_events` | record after commit in a transaction of its own | second pooled connection; crash in between | a record says what happened |
| `mail`, `appearance`, `common`, `config` | none to speak of | | | |

### Frontend

| Component | State | Hard part | What makes it correct |
|---|---|---|---|
| `shared/api-client`, `app/login-state`, `features/auth` | access token, one pending exchange | several 401 answers at once, one resend, an exchange that crosses a logout | one exchange at a time; a call is sent again once and with a newer token |
| `app/work-role`, `app/navigation`, `app/layout` | work role, menu, open groups | answers that arrive after a switch; a menu read again under the page that is shown | the menu is of the last switch; the current page stays in view |
| `features/useradmin, groupadmin, roleadmin, invitationadmin, dsl, roletransfer, permissions, preferences` | lists, dialogs, drafts, calls in flight | readings that overtake each other, operations whose answer is lost | what is shown is not older than what this tab was told is done; input is not lost |
| `features/tables` | rows, definition, conditions, the form, the memory the pages share | a definition or a work role that changes under the page, saves of unknown outcome, times in zones with skipped and repeated hours | pages follow the server; form and server judge alike; times mean what is shown |
| `features/*/api`, parsers | none | bodies of another version, or no body of the server's | what is not understood is refused, what the server writes is understood |

Components interact in four ways: calls in one transaction (`useradmin` calls `user` and
`auth`), events after the commit (`audit`), shared rows (`auth` reads `users` without a
lock, `useradmin` writes `refresh_tokens`), and HTTP between the two programs, where every
answer may be late, lost or overtaken. `PROJECT.json` lists each component with its status
and each hazard with the line where it bites.

## 2. Modules

### Server

| Module | What it models |
|---|---|
| `InternalDb` | the tables `users`, `login_attempt_states`, `refresh_tokens`, their row locks and the clock |
| `UserAdmin` | `UserAdminService`, `RejectionPolicy` and the locking queries of `UserRowLockRepository`: concurrent requests, one SQL statement that may wait per step |
| `Sessions` | `LoginService` with `LockPolicy`, `TokenRefreshService`, `LogoutService`, `RefreshTokenCleanupJob` |
| `Accounts` | both over one database, with time, crashes and the rescue of the initial administrator at a start |
| `DslHistory` | abstract: what `DslRecordStore` promises, one slot and a history |
| `DslLifecycle` | `DslLifecycle`, `DslRecordStore`, `DslPreviewCache`, `DslStartupLoader`, `DslHeavyOperationGate`, `UnreadableAppliedRevision` |
| `RegistrationLinks` | abstract: what the invitations promise about the links in the mails |
| `Invitations` | `InvitationService`, `RegistrationService`, `InvitationRepository`, `InvitationCleanupJob` and the mail |
| `RowWrites` | `BusinessDataWriteService`, `JdbcTargetWriteAccess`, the audit result, and `writeOutcome` of the form: concurrent writes of rows of one table |

### Client, and where client and server meet

| Module | What it models |
|---|---|
| `ClientSession` | `apiClient`, `authSession`, the login gate, the login form and the logout page |
| `Requests` | what all screens share: calls in flight, served at one moment and answered at a later one |
| `UserScreen`, `GroupScreens`, `RoleScreens`, `InvitationScreen`, `DslScreen`, `MyPermissions` | the screens of the administration, each with its hooks |
| `TransferScreen` | the transfer screen *and* the server's two-step transfer (`RoleTransferService`) beside other administrators |
| `Preferences`, `Forms`, `ShellMenu` | display settings, the guard of unsaved input with registration and password forms, work role with menu and sidebar |
| `TableScreens`, `RowForm`, `SearchForm`, `ReferencePicker`, `ReferenceLabels` | list, detail, form, search panel, dialog and labels of the business data |
| `TableAccess` | what a user may do on a table: as the server derives it, as the pages offer it, as the server judges it again |
| `FormRules` | the rules of an input in the form beside those of `WriteRequestValidator` |
| `Calculations`, `DateTimes` | pure algorithms: limits of texts, paging; calendar, zones, instants |
| `ApiBodies`, `TableBodies` | the bodies the server writes beside the parsers that read them |
| `ApiCalls` | the calls of the screens beside the handlers and limits of the server |

### Configurations and proofs

`MCAccounts`, `MCDslLifecycle`, `MCInvitations` give constants and symmetry; `ClientSession` gets its constants from its configuration.
`MCScreens` and `MCTables` instantiate many small modules over a common set of variables: a
variable (`screen`, `part`) says which of them a behaviour is about, so that one run checks each
of them alone and their states add up instead of multiplying. Their properties
(`ShownIsCurrent`, `PagesFollowTheServer`, ...) are conjunctions, one conjunct for each property that
the instantiated module defines and comments.

`AccountsProofs`, `DslProofs`, `InvitationsProofs`, `ClientSessionProofs`, `RowWritesProofs` and `ScreensProofs` hold the
theorems, `RequestInvariants` (the screens over `Requests`, and the forms) and `PartInvariants` (menu, sidebar, own permissions, DSL)
the invariants and lemmas the last of them rests on.

### How state and actions correspond to the code

**Transactions.** The database runs READ COMMITTED, and the models of the internal database keep
only *committed* rows: a transaction's writes are applied by its commit action, while its locks are
taken by the steps before. That is exact here, because no transaction reads its own writes
back in a way that matters, and plain reads of others see committed rows only. A step
that has to wait for a row is enabled only while the row is free; a second action, named
`...Timeout`, stands for the lock timeout and ends the request as the code does (`Busy`
or an exception, with a rollback).

**The locking query** (`StartLocking`, `LockRow`). `select ... where admin or id = :target
order by id for update` returns the rows that satisfied the condition when it started
(`RowsToLock`), visits them in the order of the key, waits for each, and reads the row
again before locking it. A row that came to satisfy the condition meanwhile is *not*
visited. This is the one assumption about H2 the first finding of section 6 rests on; it is
how H2's MVStore, like other engines at READ COMMITTED, evaluates a locking query.
The bulk revocation of tokens (`StartRevoking`, `RevokeRow`) works the same way, except that
the order in which it visits the rows is left open.

**A request** is a slot: it passes the authorization (`Admit`), goes through the steps of its
operation, and frees the slot. Refusals that change nothing before the transaction starts
(wrong token, validation error, 503) are left out, as the comments at the actions say.

**Login.** `Verify` is the password check outside any transaction: the verdict and the
flag *suspended* are kept as locals. `CreateRow`, `LockLoginRow`, `RefuseSuspended`, `Judge`
are `LoginService.decide`. A login for an address nobody has works on a dummy row that
belongs to nobody and is left out. Access tokens are stateless and carry no property.

**Start and crash.** `Crash` ends every request and rolls back every transaction; `Start`
rescues the initial administrator (or fails to, and goes on) before requests are served.

**DSL.** A body is known by the number of the preview it was placed as; a *build* says of each
body whether it is valid, valid at a start only (its menu is too deep), or invalid, so that a
new build may refuse what an old one applied. `apply` has one step for each of its
statements: the check before (`CheckBeforeApply`), the three statements of the transaction
(`FindPreview`, `CopyPreview`, `CommitApply`; the delete decides), the swap of the model
(`ReplaceModel`), and the rest (`ReportApplied`).

**Invitations.** A request of an administrator or of an invited person is a slot again; its program
counter is drawn at the head of the module. Tokens are numbered as they are issued, and a row of
the table is known by the number of its first token; a row that was deleted is `Absent`. The order of reads
is that of the code: an invitation reads `users` without a lock (`Check`), then the clock, then waits
for the open row (`Find`, `LockPending`); resend, cancel and complete read the clock after their wait.
Whoever waited evaluates its query again on the row it gets. `Insert` is the commit with its unique
column: a rival that committed first makes it `Lose`, and `ReadWinner` is the catch block with its one
retry; the time an insert waits for the uncommitted row of another is not a step of its own. The mail
(`Send`) is outside any transaction and may arrive although it is reported as failed. A deletion is two steps,
the subquery (`JobSelect`) and the outer condition on the rows it waited for (`JobDelete`). A run of
the job that would find nothing is left out, and so is a lock that the database keeps on a row which no longer matches.
Invalid input, missing settings and links that belong to no row change nothing and are left out.

**Writes of rows.** `RowWrites` has a step for each call on the target database, each of which may fail;
`change` is the open transaction of a request, `sent` its commit. A commit whose answer is lost
(`CommitLost`) is settled by `DatabaseCommits` or `DatabaseRollsBack` at any later moment. What the
form makes of the answer (`Classify`) and what the audit record says (`AuditOf`) are in the same model.

**Screens.** A call is sent, served at one moment and answered at a later one, in any order, or lost before
or after it was served. A counter of generations, an `active` flag of an effect and a mounted flag all say
whether the answer is still wanted, and are modelled as that. Data is a version, so that "older
than" can be said; React's batching is modelled by actions that run a handler together with the effects it makes due.

**The transfer.** A file is the set of names it sets; a role has a name and a setting of two values, and its id is not used again
when it is deleted. The fingerprint *is* the plan. `LockNext` locks the roles that had a name of the file when the application began, one
a step and in the order of the ids; `PlanAgain` plans and decides under the locks; `Write` replaces the roles of the plan and creates the others
with any unused ids. The others take one step for each of their operations, where the lock of the role permits it.

**Display settings.** A save of the settings that outlives its page is bound to the login state of the page's *last render* (`Parted`,
`RenderedWith`: `displayRef` is kept up to date by an effect of the mounted page only, `usePreferencesForm.ts:137-140`), not to the one there is when the
answer comes. After an exchange or another login that binding is stale, and after a logout the answer still writes the stored settings of the browser
(`displaySettingsStore.ts:162-170`). `PreferencesTypeOK` says so: without such a save what is saved is bound to the login state of now or to none, with one to any so
far. `outlived` marks those behaviours, and `ScreenShowsOwnSave` (in `ShownIsCurrent`) claims nothing of them.

**The form of a row.** The page counts changes over the columns of the definition it holds *at this moment* (`diffForm`,
`BusinessDataFormPage.tsx:344`, `:366-369`): none while the definition is read again, after that failed, and in the render in which the work role has changed. A
move then asks nothing and the input goes in silence. `InputSurvivesStep` names these cases (`MoveAway` from columns outside the definition held,
and the change of the work role) and claims that input is lost in no other without a question, a notice, a save or a refusal.

**Form and server.** `FormRules` evaluates `validateValue` and `checkInput` on one value. What the form leaves to the server is listed in `LeftToTheServer`:
the pattern of a text (with its time limit), the range of the integers of the database, columns that cannot be written, the digits of the fraction of a
second, and whether a text that has the shape of a date or time is one; the inputs that resolve date and time (`dateTimeInputKind`) check the calendar
themselves, the others check the shape. In the other direction the form alone refuses a date or time of a shape it does not know.

**Bodies and calls.** A body is one that the server's response record writes, or such a body with one field
harmed; the parser's verdict is compared with the type the screen is compiled against. Texts, numbers and
times are abstracted to what the rules tell apart (lengths, digits, hours), and the two programs'
rules are evaluated on the same values.

**History variables** (`by`, `parent`, `misses`, `seen`, `applied`, `reported`, and those the modules call ghosts)
record what happened for the properties; no guard reads them, except that `NextSeq` numbers rows by `Len(applied)`.

## 3. Runs

| Run | What it asks | Bounds, and why they are enough |
|---|---|---|
| `accounts_two` | administrators among each other: does an active one remain, can requests wait in a circle; or sessions: lock-out and rotation | either 3 users and 2 requests with every operation (two row sets that overlap in part, and a third party), or 2 logins and 2 exchanges of a user without a row at first, 3 tokens, time up to 3 with lock and token life of 2 (locks and tokens run out while requests are under way) |
| `accounts_nogrant` | types, the lock discipline and the decisions when nobody is promoted | 2 users, one without a row of failures, an unknown id, 3 requests: two that overlap and one between them |
| `accounts_suspend` | suspension and reset against sessions; deadlock across both; is every request answered | 2 users, 1 administrator, 1 login, 1 exchange, 2 tokens, no time: the races are about the order of steps |
| `accounts_grant` (violation) | does an active administrator remain, with promotions | 2 users, 3 requests |
| `dsl_any` | refinement, history, the model that runs; does the permit come back | 2 requests, 3 previews, 2 bodies, 3 builds, history of 1, time up to 1: equal and different times of application, a cut of the history; applications by both requests, or by one of them |
| `dsl_two` (violation) | does what is current run, with two applications at once | 2 previews, one build |
| `invitations_links` | refinement, one open row, expiry, registrations, results of mails | 1 address, 2 requests, 3 tokens: a replaced or resent invitation beside a racing one; time up to 2 with a validity of 1; the retention lies beyond the clock, so the job rests |
| `invitations_cleanup` | does the job delete what is due and nothing else | 2 addresses, 1 request, 2 tokens, a batch of 2 (one full batch), one fault, validity and retention of 1, time up to 2 |
| `client` | one exchange at a time, resends, do calls end | 1 user, 2 calls, 2 grants: a refusal answered while an exchange is under way, and one that crosses it |
| `screens` | each of fifteen screens with its calls in flight | 2 calls of a kind in flight (one is overtaken), one change of versions, 2 placements, 3 changes by others (enough to change a role and change it back), 3 edits; in the transfer one role and two ids not used yet, a file of one role and one of two |
| `tables_pages` | the pages of the business data | 2 tables, 2 work roles, one change of what a page rests on; times up to hour 12 with zones that skip or repeat one or two hours for the panels, up to 44 for the arithmetic; pages of 3, 4 at most |
| `tables_server` | writes of rows; rules, rights, bodies and calls on both sides | 2 requests of any operation on a table with either constraint, one value; columns of each type with the rules that meet in it, digits up to two places in numbers and seconds, texts with the shape of a time that are none; every body the server writes with one field harmed |

Named bounds: `Tokens` (with the guard `TokenLeft`, so that no login or exchange stops half way for
want of a token), `MaxNow`, `MaxPlaced`, `MaxTokens` (with the guard `Room`, for the same reason), `MaxFaults`,
`MaxGrants`, `MaxVersion`, `MaxInFlight`, `MaxPlacements`, `MaxOthers`, `MaxEpoch` (all the login states of a tab), `MaxEdits`, `MaxSwitches`, `MaxRevision`,
`MaxMenuChanges`, `MaxMyChanges`, `MaxChanges`, `MaxAccessChanges`, `MaxRow`, `MaxPage`, `MaxBuilds`. The sets of requests bound
concurrency, not the number of requests: a slot is used again and again.

Symmetry is used for requests, refresh tokens, addresses, roles and tables where the modules never order or name
them; the ids of users are ordered, so there is none for users. Runs with liveness use no symmetry.

Deadlock is checked except where the bounds let everything come to an end: in `invitations_cleanup` (all tokens are
used and their rows deleted), and in `screens`, `tables_pages` and `tables_server`, where the numbers of changes are bounded and
some parts are questions with an answer.

**Fairness.** `WF` on the steps of each request, and on `Start`/`Load`. Each request runs on a thread
of its own, and where it has to wait for a row either the row becomes free or the timeout
answers: `AdminStep`, `LoginStep` and `ExchangeStep` include the timeout, so weak fairness is
enough. Nothing is assumed of administrators, invited persons, crashes or failures. In `Invitations` the
clock ticks and the job, which the scheduler starts every day, takes its steps; a step that
waits for a locked row gets it, because the requests that hold rows are fair too. In `ClientSession` the server or
the network ends what was sent, which the time limit of `fetch` justifies, and the gate hears of a change.
A request is answered *or the process dies*: a crash frees the slot.

## 4. Proofs

All theorems hold for any users, requests, tokens, durations, builds, rows and limits. They rest on
the ASSUMEs in the modules (which TLC evaluates in the runs) and on the hypotheses their statements name:
`NobodyPromoted` for the last administrator, `OneAtATime` for what runs, `IsFiniteSet(Users)` for the absence of deadlock.
Each inductive invariant below was checked by TLC on the bounds of the run before it was proved.

**Accounts** (`AccountsProofs`).
- `TypeInv` is the type invariant strengthened by what the rows a request works on are (its token is
  issued, its subject a user); `TypesHold` gives `TypeOK`. `QuietStart`: while the application starts there is no
  request and no lock, which is why the rescue may write without looking at locks.
- `TokenInv`: an exchange past its `revokeIfActive` holds the row (`RevokerHolds`), and a token nobody issued is
  nobody's. From it `RotationIsExclusive`, the action property that a token gets a successor only while it is active.
- `CountInv`: the count in the table is the number of misses, together with the fact that a reset holds the row it
  clears; `GuessesAreBounded` and the action property `LockStays` (only a reset, the rescue or time takes a lock away) follow.
- `SuspendInv`: a suspension that is revoking has still to visit, or has itself revoked, every token of its target that was there
  when the revocation began; its target's row is held so that nobody else's suspension comes between.
  `SuspensionEndsSessions`: when it commits, no such token is active, whatever logins, exchanges, logouts and cleanups did meanwhile.

**Row locks** (`AccountsProofs`).
- `RowsInv`, if nobody is made an administrator: from its locking query on, an operation has locked, or has still to visit,
  every row the query would return now (`LocksCover`). This is not inductive for rows that others free, so it also fixes which
  step has which locks. `FineInv`: a decided operation is still allowed (`DecisionsHold`). The argument for
  a commit of one request while another is decided: two operations past their locking query would
  both have to hold the row of the sender of either, which is an administrator's row; a resumption
  holds its target's row; a reset holds its row of failures. `LastAdminStays` follows: a
  demotion or suspension that commits has another active administrator, its own sender.
- `NobodyDeadlocks` and `NoCycleOfAdmins` need no such hypothesis. `LockInv` says of each request which rows it
  can hold: an operation waits for a row of `users` only while all the rows it holds are smaller, a
  reset holds at most one row beside them, a request that revokes waits only for rows of tokens, and a holder of a token's row waits for
  nothing. Take a set of requests each of which waits for another of the set. If one of them is at its locking
  query, the one that holds the greatest of the rows waited for waits for none greater (here `Users` must be finite);
  otherwise the holder is revoking, and the one it waits for goes on. Either way somebody of the set waits for none of it.

**DSL** (`DslProofs`). `Inv` = `TypeOK` with four parts: `Heavy` (the permit and the
room to place), `Slot` (a model that was not checked belongs to a preview that has left the slot,
which never comes back), `Rows` (a row's number is its place in the order of commits; the last
application has the newest row, so that pruning never takes it) and `Runs` (cache and active model).
`StoreKeepsOrder` is what the abstract `DslHistory` promises of the order; `ImplementsStore` maps every step to a step or a stutter of it, which carries
the promise over as `AppliedAtMostOnce`. `OnlyAppliedDslRuns` and `CurrentWasAppliedLast` follow from `Inv`;
`HistoryIsTheNewest` adds that what is kept is the last `HistoryLimit` applications, by induction on the steps and the fact that a cut removes
the smallest numbers. `RunsInv` says which of commit, swap and report the one application under way has behind it, and
gives `CurrentRunsOneAtATime`, under the hypothesis that no two are under way: the finding `dsl_two` shows that it is needed.
`CurrentRunsWithOneApplier` is the same of the configuration the run `dsl_any` checks, where one request alone applies and the hypothesis is kept by the steps.

**Invitations** (`InvitationsProofs`). `Inv` says of each step of a request what it `Knows`: above all, that
a request which `Holds` a row finds it open and as it was read. `Locks` ties each lock to the request
that works under it, and `RowsOK` says that no two rows share a token. With these, `OneOpenInvitation`,
`RegistrationIsAtomic`, `EndedInTime` and `SentMeansMailed` are inductive; `CancellationIsFinal` follows, because an account's
token is that of a completed row. `FrameKeeps` says once what a step leaves to other requests, so that each
action is left with its own row. `RetentionIsKept`, an action property, needs that the cutoff of a run is never later than the retention allows.
`LinksKept` is the refinement: steps that open nothing withdraw links (`ClosingRefines`; the cleanup
may withdraw several), `Insert` and `Renew` issue one (`IssueRefines`), `Register` uses one.

**Session of the browser** (`ClientSessionProofs`). `SessionInv` = the types, `SharedInv` (every exchange but the restoration is
the pending one, and while the restoration runs the gate shows no screen that calls) and `FreshInv` (a call that
is to be sent again was sent with an older grant than the tab holds). `ExchangeIsShared`, `ResentIsNew` and
`SessionTypesHold` follow for any number of calls and users.

**Writes of rows** (`RowWritesProofs`). `RowWritesInv` says, for each step of a request, what its reply, its commit and its audit
record can be: before the commit nothing is sent, a rejection goes with a transaction that has ended or whose
connection is given up, and what was told stays true because a request that is over changes nothing more, except that the
database settles a commit whose outcome was told as unknown. `WritesToldTruly` and `WriteTypesHold` follow.

**Transfer of roles** (`ScreensProofs`). `TransferInv` adds to the types that an application or a check under way is of a file, and
`PlanStands`: from the plan under the locks to the writing, every role the plan replaces is locked and is as the plan found it, and what
it creates it found without a setting. Roles nobody locked may change, and names the plan wants to create may be taken: the key of
the name is what the writing meets then. `OthersKeepIt` shows that no operation of another administrator touches `PlanStands`; `WritingDoes` computes
what the writing leaves. `CheckedIsApplied` follows, for any roles, names and files, and any number of steps of the others.

**Screens** (`RequestInvariants`, `PartInvariants`, `ScreensProofs`). For any numbers of calls in flight, changes by others, pages, rows, roles and
menus, of each of the fifteen screens of `MCScreens`.
- The properties speak of what is *shown*; what makes them inductive speaks of the calls that are still *wanted*. Each invariant
  (`UserInv`, `NamedInv`, `GrpInv`, `RolePageInv`, `PermInv`, `AsgInv`, `InvInv`, `PrefInv`, `FormInv`, `SetupInv`; `DslInv`, `MenuInv`, `SideInv`, `MyInv`)
  says what an answer will be worth when it comes: a reading that was sent after an operation was told will bring at least what the operation
  did; one sent before is superseded and will be dropped. Lemmas on `Requests` say once what sending, serving, answering and
  superseding a call do to the set in flight. One lemma per handler follows, and one that the steps keep the invariant.
- The sidebar needs an argument of its own: the groups that are opened for a page are the prefixes of its position, and the item that is marked is the
  first of the deepest ones that lead to the page. It rests on menus that are closed under prefixes (`SidebarAssumption`: a menu is a tree) and on the fact that any
  set of positions has a first (`OrderAssumption`), which for the positions of a menu is the order in which it is drawn.
- `MCScreens` instantiates each screen by itself, the invariants are those of the modules taken together (`Page`, `Part`). One lemma per screen
  (`UsersAsPage`, ..., `OwnAsPart`) shows that its initial states, its steps and its properties are the same in both.
- `ScreensInv` joins them: the screen a behaviour is about has its invariant. `ScreenTypesHold`, `ShownStaysCurrent`, `AnswersMatchQuestions`, and the action
  properties `InputStays` and `SidebarFollows` follow. The bounds are constants with assumptions only (`RequestsAssumption`, `RolePageAssumption`, ...).

**Only model-checked, and why.** Liveness (`EveryRequestIsAnswered`, `PermitReturns`, `CleanupTakesWhatIsDue`, `CallsEnd`) needs
fairness and ENABLED, which the prover does not handle. Of `MCTables`, `TablesTypeOK`, `PagesFollowTheServer` and `EntriesAreKept` are about pages with a
few calls in flight, where TLC's bound is close to what can happen. `FormAndServerAgree`, `RefusalsAreExplained` and
`TimesMeanWhatIsShown` compare two computations over data (texts, numbers, times, bodies), for which induction over data would be
needed. `ActiveAdminExists`, `DecisionStillHolds` and `LockDiscipline` are proved only without promotions, because with them they are false (section 6).

## 5. Hazards

`PROJECT.json` lists what a test of this code would hardly reach, with the properties that would catch it. Those without a property: the second
connection of the audit recorder, the work role saved after an unlocked read (neither is modelled), and three
that the code does not keep and section 6 names.

## 6. Where the code and its documents disagree

Two are shown by runs:

1. **The last administrator** (`accounts_grant`). `docs/users.md:40` promises that administrators who demote
   or suspend each other never leave none. The locking query chooses its rows when it starts, so
   an administrator promoted while it waits is not locked. TLC's trace: a request waits for a
   row; meanwhile others promote and demote; it then holds only its own target's row, while a
   second request holds the other's, and each counts the other's target as remaining. The
   theorem `LastAdminStays` shows that promotions are necessary for it, and `accounts_two` that two
   concurrent requests are not enough.
2. **What runs and what is current** (`dsl_two`). The swap of the model follows the commit and
   nothing orders the swaps of two applications: the older one may come last, and runs although
   status and download name the newer one (`docs/dsl.md:106`, `:112`). With one application at a time it cannot happen
   (`CurrentRunsOneAtATime`), be there crashes, discards and unreadable bodies.

Others are stated in the modules, each next to the words of the code it comes from, and marked there as not kept. No run checks
them; TLC finds each violated on the bounds of the component's run (`MemoryIsOwn` with a second user, `StoredErrorsShown` with two
hours to type and a zone without a change besides).

| Property | What the code says | What it does |
|---|---|---|
| `SuspendedHasNoLiveToken` (`Accounts`) | a suspension revokes all refresh tokens of the user (`docs/users.md:15`) | a login or exchange that read the user before the suspension commits issues a token after it, which works again after a resumption; the design notes accept the window. `SuspendEndsEarlierSessions` states what does hold |
| `RegisteredNotInvited` (`Invitations`) | rule BR2.7: after a registration a new invitation is refused, since the address has a user (`rules.md:111` of *u3-invitation*) | the users are checked before the wait for the open row; if that row is being completed, the address is invited again. The link is refused and the row goes with the cleanup |
| `DigitsCountAlike` (`FormRules`) | a decimal has too many digits when its integer part has more than p - s (`WriteRequestValidator.java:316`, and the form's rules, `formValidation.ts:19`) | `stripTrailingZeros` makes zero a number of one digit (`:322-325`), so 0 is refused where p = s |
| `LogoutIsFinal` (`ClientSession`) | a logout discards the token whatever the answer (`authSession.ts:110`) | an exchange under way is answered after it and logs the tab in again |
| `MemoryIsOwn` (`ClientSession`) | every new login empties the memory of the tables (`loginScope.ts:21`, `businessDataStore.ts:28`) | a login on top of a session, without a logout in between, does not |
| `StoredErrorsShown` (`SearchForm`) | the errors of the conditions that were sent are shown when the panel opens (`SearchPanel.tsx:79`) | only those of a single time: a range that another time zone has reversed is left out in silence |
| `PagesTheSameSearch` (`ReferencePicker`) | turning a page carries over the conditions made for the search (`pickerSearch.ts:28`) | after a search that was refused, the pages of the older result are turned with the conditions of the refused one (`useLookupSearch.ts:116`, `:151`, `:236`) |
| `RowKeepsItsName` (`TableAccess`) | the detail and the dialog name the row as the list does (`BusinessDataDetailPage.tsx:147`) | the detail reads the key and the columns of the detail (`RowSqlBuilder.java:292-305`); a column of the name that is in neither is shown as if it had no value |
| `BusyMeansReading` (`TableScreens`) | *busy* says whether the rows are being read (`useRowSearch.ts`) | after a refused search that had no page before, it stays (`:225-231`, `:291-299`) |
| `DeletesFromItsTable` (`TableScreens`) | the dialog asks for the table and the row it deletes (`DeleteConfirmModal.tsx:19`) | the definition is that of the table shown when the user confirms (`useRowDeleteFlow.ts:103`) |
| `MissingIsShown` (`GroupScreens`) | a group known to be gone is shown as missing | when the reading of its roles says so, but its members were read before it was deleted, the page becomes ready (`useGroupDetail.ts:154-157`) |
| `HeadingNamesTheRole` (`RoleScreens`) | the heading names the role of the panels | when the address moves to another role, the role before it is shown until the new one is read (`RoleDetailPage.tsx:62-63`) |
| `EditsKept` (`RoleScreens`) | the edits of targets that are still in the DSL are kept (`permissionDraft.ts:113`) | a reading that fails drops all edits of its part (`useRolePermissions.ts:438-445`) |
| `SendsOnlyEdits` (`RowForm`) | an update sends the changed columns only (`formDiff.ts:24`) | a form built again on new values compares what it held, edited or not, with those (`BusinessDataFormPage.tsx:318-324`) |

Three more concern what happens to input and settings, and are what the properties above state as exceptions: "while there are changes, the switch of the work role
is asked about first" (`BusinessDataFormPage.tsx:32`) does not hold while the definition is read again; the ports of `usePreferencesForm.ts:132` are said to be
bound to the newest login state, and are bound to that of the last render; and "the values of the screen follow the database even without a screen" (`:335`) then
means the settings of a login that may be over. `formValidation.ts:19` says that the form applies the server's checks in the server's order; it does, but for what
`LeftToTheServer` lists, of which its header names the pattern only.

Two more are differences of wording only: a timeout before the commit is audited as UNKNOWN too (`ReferenceWritePolicy.java:208`), while
`BusinessDataAuditResult.java:27` and `WriteRejection.java:52` speak of the commit; and the history tab of the DSL is read again only when it
is opened after an application (`useDslAdmin.ts:364`).

## 7. Plan

1. `AuditTrail`: the recorder after the commit with a pool of connections.
2. Roles on the server: inheritance without cycles, assignments, the work role, version checks.
3. Change of the own password against login and suspension; a clock that goes back (`dslmanage`).

## 8. Not modelled

`Forms` ends a form by a move, a save or a discard; a session that ends by itself under a form with unsaved input (the gate then takes the form away) is not in it.

The recorder of the audit log and its pool; roles, groups, assignments and the work role on the server beyond the transfer; the search of business
data, its SQL, dialects and conversion of values; parsing and validation of YAML, diff and summary of a preview, generation of a DSL from a
schema; verification of a link and the list of invitations (they only read); mail transport and templates, appearance, texts of messages,
metrics, problem responses, signing of access tokens, routing and layout of the frontend; load tests, end-to-end tests, build and design records.
They compute or format and keep no state that changes between requests, or stand in the plan above.
