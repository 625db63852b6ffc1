---------------------------- MODULE TransferScreen ----------------------------
(***************************************************************************)
(* The transfer of roles by a file: the screen (useRoleTransfer) checks a  *)
(* file, shows what its application would do and then asks for it; the     *)
(* server (RoleTransferService) locks the roles the file names one by one, *)
(* plans again under the locks and refuses a plan that is not the one      *)
(* shown, told by its fingerprint.  Other administrators create, rename,   *)
(* delete and set roles at any moment a lock does not forbid, and the DSL  *)
(* the permissions are about may be replaced.                              *)
(* A setting of a role is 0 (none) or 1; every role of a file is set to 1. *)
(***************************************************************************)
EXTENDS Naturals, FiniteSetsExt

CONSTANTS
  TransferRoles,  \* the ids of roles, in use or not yet
  TakenNames,     \* the names roles may have
  FileTexts,      \* the files
  FileNames,      \* the roles each of them names
  RolesAtFirst,   \* the roles there are from the start
  MaxOthers       \* bound on what the other administrators do

Names == TakenNames \cup {"unused", "gone"}
RoleStates == [TransferRoles -> [name : Names, set : 0..1]]
\* The key of the name is unique.
NamesAreUnique(all) == \A r, q \in TransferRoles : all[r].name = all[q].name /\ all[r].name \in TakenNames => r = q

ASSUME TransferAssumption ==
  /\ MaxOthers \in Nat /\ TransferRoles \subseteq Nat \ {0} /\ FileTexts \subseteq Nat \ {0}
  /\ "unused" \notin TakenNames /\ "gone" \notin TakenNames /\ FileNames \in [FileTexts -> SUBSET TakenNames]
  /\ RolesAtFirst \in RoleStates /\ NamesAreUnique(RolesAtFirst)

VARIABLES
  roles,      \* the roles on the server
  dsl,        \* the DSL in force
  others,     \* how much the others have done
  job,        \* the application being carried out, holding the one slot
  transferPage,       \* the state of the screen
  heldText,   \* checkedText: the text that was checked, 0 when forgotten
  shownPlan,  \* the check the screen shows
  askedTransfer       \* the check or the application whose answer the screen waits for

transferVars == <<roles, dsl, others, job, transferPage, heldText, shownPlan, askedTransfer>>

Held(name) == {r \in TransferRoles : roles[r].name = name}
\* For every name of the file, the role that has it (0: to be created) and its setting, and the DSL it was looked up in.
PlansOf(text) == [text : {text}, dsl : 0..1, of : [FileNames[text] -> [id : {0} \cup TransferRoles, set : 0..1]]]
Plans == UNION {PlansOf(t) : t \in FileTexts}
NoPlan == [text |-> 0]

\* planFor and TransferPlanner.plan; the fingerprint is the plan itself.
Plan(text) ==
  [text |-> text, dsl |-> dsl,
   of |-> [n \in FileNames[text] |-> IF Held(n) = {} THEN [id |-> 0, set |-> 0]
                                     ELSE LET r == Max(Held(n)) IN [id |-> r, set |-> roles[r].set]]]
Replaced(plan) == {plan.of[n].id : n \in DOMAIN plan.of} \ {0}
NothingToDo(plan) == \A n \in DOMAIN plan.of : plan.of[n].id # 0 /\ plan.of[n].set = 1

NoJob == [at |-> "none", text |-> 0, fingerprint |-> NoPlan, todo |-> {}, locked |-> {}]
NoTransferPage == [phase |-> "gone", file |-> 0, confirm |-> FALSE]
NoTransferAsked == [kind |-> "none", text |-> 0]

TransferPhases == {"idle", "fileTooLarge", "fileSelected", "checking", "checked", "noChange", "invalid", "applying",
                   "stale", "rejected"}

TransferTypeOK ==
  /\ roles \in RoleStates /\ NamesAreUnique(roles) /\ dsl \in 0..1 /\ others \in 0..MaxOthers
  /\ job \in [at : {"none", "locking", "writing", "done", "stale", "unchanged", "taken", "failed"}, text : FileTexts \cup {0},
              fingerprint : Plans \cup {NoPlan}, todo : SUBSET TransferRoles, locked : SUBSET TransferRoles]
  /\ transferPage \in [phase : TransferPhases \cup {"gone"}, file : FileTexts \cup {0}, confirm : BOOLEAN]
  /\ heldText \in FileTexts \cup {0} /\ shownPlan \in Plans \cup {NoPlan}
  /\ askedTransfer \in [kind : {"none", "check", "apply"}, text : FileTexts \cup {0}]
  /\ (transferPage.phase = "checking") = (askedTransfer.kind = "check") /\ (transferPage.phase = "applying") = (askedTransfer.kind = "apply")
  /\ heldText = shownPlan.text
  /\ (transferPage.confirm => transferPage.phase \in {"checked", "applying"} /\ heldText # 0)

TransferInit ==
  /\ roles = RolesAtFirst /\ dsl = 0 /\ others = 0 /\ job = NoJob /\ transferPage = NoTransferPage /\ heldText = 0 /\ shownPlan = NoPlan
  /\ askedTransfer = NoTransferAsked

-----------------------------------------------------------------------------
(* The others: each operation is a transaction of its own, under the lock of its role.                                  *)
AnotherStep == others < MaxOthers /\ others' = others + 1 /\ UNCHANGED <<job, transferPage, heldText, shownPlan, askedTransfer>>
Unlocked(r) == roles[r].name \in TakenNames /\ r \notin job.locked
LeastUnused == Min({r \in TransferRoles : roles[r].name = "unused"})

\* No lock: the key of the name is all there is.
OtherCreates(name) ==
  /\ AnotherStep /\ Held(name) = {} /\ Held("unused") # {} /\ roles' = [roles EXCEPT ![LeastUnused] = [name |-> name, set |-> 0]]
  /\ UNCHANGED dsl
OtherRenames(r, name) ==
  /\ AnotherStep /\ Unlocked(r) /\ Held(name) = {} /\ roles' = [roles EXCEPT ![r].name = name] /\ UNCHANGED dsl
OtherDeletes(r) == AnotherStep /\ Unlocked(r) /\ roles' = [roles EXCEPT ![r].name = "gone"] /\ UNCHANGED dsl
OtherSets(r) == AnotherStep /\ Unlocked(r) /\ roles' = [roles EXCEPT ![r].set = 1 - @] /\ UNCHANGED dsl
DslReplaced == AnotherStep /\ dsl = 0 /\ dsl' = 1 /\ UNCHANGED roles

-----------------------------------------------------------------------------
(* The server's application.                                                                                            *)
\* matchedRoleIds of the roles as they are before any of them is locked.
Matched(text) == UNION {Held(n) : n \in FileNames[text]}

OnServer == UNCHANGED <<others, dsl, transferPage, heldText, shownPlan, askedTransfer>>
Ends(how) == job' = [job EXCEPT !.at = how, !.todo = {}, !.locked = {}]

\* The least of them next; one that is gone is passed over.
LockNext ==
  /\ job.at = "locking" /\ job.todo # {}
  /\ LET r == Min(job.todo)
     IN  job' = [job EXCEPT !.todo = @ \ {r}, !.locked = IF roles[r].name \in TakenNames THEN @ \cup {r} ELSE @]
  /\ OnServer /\ UNCHANGED roles
\* A lock is not had in time, of a role or, in the writing, of the name of a new one.
LockTimesOut ==
  /\ (job.at = "locking" /\ job.todo # {}) \/ job.at = "writing"
  /\ Ends("failed") /\ OnServer /\ UNCHANGED roles

\* Plans again under the locks.
MutTrustsMatched ==
  /\ job.at = "locking" /\ job.todo = {}
  /\ LET plan == Plan(job.text)
     IN  IF plan # job.fingerprint THEN Ends("stale")
         ELSE IF NothingToDo(plan) THEN Ends("unchanged")
         ELSE job' = [job EXCEPT !.at = "writing"]
  /\ OnServer /\ UNCHANGED roles
PlanAgain ==
  /\ job.at = "locking" /\ job.todo = {}
  /\ LET plan == Plan(job.text)
     IN  IF plan # job.fingerprint \/ ~(Replaced(plan) \subseteq job.locked) THEN Ends("stale")
         ELSE IF NothingToDo(plan) THEN Ends("unchanged")
         ELSE job' = [job EXCEPT !.at = "writing"]
  /\ OnServer /\ UNCHANGED roles

\* applyTransfer: creates what the plan said to create (a name taken meanwhile fails it) and replaces what it said to replace.
Created == {n \in DOMAIN job.fingerprint.of : job.fingerprint.of[n].id = 0}
TransferWrites(made) ==
  [r \in TransferRoles |-> IF r \in Replaced(job.fingerprint) THEN [roles[r] EXCEPT !.set = 1]
                            ELSE IF \E n \in Created : made[n] = r THEN [name |-> CHOOSE n \in Created : made[n] = r, set |-> 1]
                            ELSE roles[r]]
Write ==
  /\ job.at = "writing" /\ OnServer
  /\ \/ (\E n \in Created : Held(n) # {}) /\ Ends("taken") /\ UNCHANGED roles
     \/ /\ \A n \in Created : Held(n) = {}
        /\ \E made \in Injection(Created, Held("unused")) : roles' = TransferWrites(made)
        /\ Ends("done")

-----------------------------------------------------------------------------
(* The screen.                                                                                                          *)
OnScreen == UNCHANGED <<roles, dsl, others, job>>
forgetCheck == heldText' = 0 /\ shownPlan' = NoPlan

OpenTransfer ==
  /\ transferPage.phase = "gone" /\ transferPage' = [NoTransferPage EXCEPT !.phase = "idle"] /\ OnScreen /\ UNCHANGED <<heldText, shownPlan, askedTransfer>>
TransferGone ==
  /\ transferPage.phase # "gone" /\ transferPage' = NoTransferPage /\ askedTransfer' = NoTransferAsked /\ forgetCheck /\ OnScreen

\* TransferFilePicker and RoleTransferPage: nothing of them answers while the dialog is open.
TransferFree == transferPage.phase \notin {"gone", "checking", "applying"} /\ ~transferPage.confirm
CanCheck == TransferFree /\ transferPage.file # 0 /\ transferPage.phase \notin {"idle", "fileTooLarge"}

selectFile(text) ==
  /\ TransferFree /\ forgetCheck /\ transferPage' = [phase |-> "fileSelected", file |-> text, confirm |-> FALSE]
  /\ OnScreen /\ UNCHANGED askedTransfer
NoFileSelected(phase) ==
  /\ TransferFree /\ forgetCheck /\ transferPage' = [phase |-> phase, file |-> 0, confirm |-> FALSE] /\ OnScreen /\ UNCHANGED askedTransfer

runCheck ==
  /\ CanCheck /\ forgetCheck /\ transferPage' = [transferPage EXCEPT !.phase = "checking"]
  /\ askedTransfer' = [kind |-> "check", text |-> transferPage.file] /\ OnScreen
openApply ==
  /\ TransferFree /\ transferPage.phase = "checked" /\ heldText # 0 /\ transferPage' = [transferPage EXCEPT !.confirm = TRUE]
  /\ OnScreen /\ UNCHANGED <<heldText, shownPlan, askedTransfer>>

\* ApplyConfirmDialog
DialogFree == transferPage.confirm /\ transferPage.phase # "applying"
cancelApply ==
  /\ DialogFree /\ transferPage' = [transferPage EXCEPT !.confirm = FALSE] /\ OnScreen /\ UNCHANGED <<heldText, shownPlan, askedTransfer>>
\* apply, which the server takes up unless the slot is held.
SlotFree == job.at = "none"
BeginApply(text, fingerprint) ==
  /\ SlotFree /\ job' = [at |-> "locking", text |-> text, fingerprint |-> fingerprint, todo |-> Matched(text), locked |-> {}]
applyPlan ==
  /\ DialogFree /\ BeginApply(heldText, shownPlan) /\ transferPage' = [transferPage EXCEPT !.phase = "applying"]
  /\ askedTransfer' = [kind |-> "apply", text |-> heldText] /\ UNCHANGED <<roles, dsl, others, heldText, shownPlan>>
\* Refused before the server begins: ROLE_BUSY, the slot being held, and a 403 leave what was checked; anything else forgets it.
ApplyRefused(phase) ==
  /\ DialogFree /\ transferPage' = [transferPage EXCEPT !.phase = phase, !.confirm = FALSE] /\ OnScreen /\ UNCHANGED askedTransfer
  /\ IF phase = "rejected" THEN forgetCheck ELSE UNCHANGED <<heldText, shownPlan>>

\* A check takes the slot too.
CheckDone(text) ==
  /\ askedTransfer.kind = "check" /\ SlotFree /\ shownPlan' = Plan(text) /\ heldText' = text /\ askedTransfer' = NoTransferAsked
  /\ transferPage' = [transferPage EXCEPT !.phase = IF NothingToDo(Plan(text)) THEN "noChange" ELSE "checked"] /\ OnScreen
\* ROLE_BUSY keeps the phase of the check that was forgotten.
CheckFails(phase) ==
  /\ askedTransfer.kind = "check" /\ askedTransfer' = NoTransferAsked /\ transferPage' = [transferPage EXCEPT !.phase = phase] /\ OnScreen
  /\ UNCHANGED <<heldText, shownPlan>>

JobEnded == job.at \in {"done", "stale", "unchanged", "taken", "failed"}
\* The answer of the application; when it is lost, or the page is gone, nobody hears of it.
AnswerLost == JobEnded /\ askedTransfer.kind # "apply" /\ job' = NoJob /\ UNCHANGED <<roles, dsl, others, transferPage, heldText, shownPlan, askedTransfer>>
ApplyAnswered ==
  /\ JobEnded /\ askedTransfer.kind = "apply" /\ askedTransfer' = NoTransferAsked /\ job' = NoJob
  /\ IF job.at = "failed" THEN UNCHANGED <<heldText, shownPlan>> ELSE forgetCheck
  /\ transferPage' = CASE job.at = "done" -> [phase |-> "idle", file |-> 0, confirm |-> FALSE]
             [] job.at = "stale" -> [transferPage EXCEPT !.phase = "stale", !.confirm = FALSE]
             [] job.at = "taken" -> [transferPage EXCEPT !.phase = "rejected", !.confirm = FALSE]
             [] job.at = "unchanged" -> [transferPage EXCEPT !.phase = "fileSelected", !.confirm = FALSE]
             [] OTHER -> [transferPage EXCEPT !.phase = "checked", !.confirm = FALSE]
  /\ UNCHANGED <<roles, dsl, others>>
\* Any other failure, and a failure of the network, whatever the server is doing.
ApplyFails ==
  /\ askedTransfer.kind = "apply" /\ askedTransfer' = NoTransferAsked /\ forgetCheck /\ transferPage' = [transferPage EXCEPT !.phase = "rejected", !.confirm = FALSE]
  /\ OnScreen

TransferNext ==
  \/ \E n \in TakenNames : OtherCreates(n) \/ \E r \in TransferRoles : OtherRenames(r, n)
  \/ \E r \in TransferRoles : OtherDeletes(r) \/ OtherSets(r)
  \/ DslReplaced \/ LockNext \/ LockTimesOut \/ PlanAgain \/ Write
  \/ OpenTransfer \/ TransferGone \/ runCheck \/ openApply \/ cancelApply \/ applyPlan
  \/ \E phase \in {"checked", "fileSelected", "rejected"} : ApplyRefused(phase)
  \/ \E t \in FileTexts : selectFile(t)
  \/ \E phase \in {"idle", "fileTooLarge"} : NoFileSelected(phase)
  \/ CheckDone(askedTransfer.text) \/ \E phase \in {"fileSelected", "invalid", "rejected", "checked"} : CheckFails(phase)
  \/ AnswerLost \/ ApplyAnswered \/ ApplyFails

TransferSpec == TransferInit /\ [][TransferNext]_transferVars

-----------------------------------------------------------------------------
\* An application that is carried out finds, for every role of the file, just what its check found: the same role with the same setting, or
\* none; and it leaves every role of the file as the file says, and every other role as it is, although others create, rename, delete and set
\* roles between the check, the locks and the writing (RoleTransferService.applyDocument, RoleStore.applyTransfer; RoleTransferPage shows the check before the
\* application is asked for).
CarriedOut == job.at = "writing" /\ job'.at = "done"
RoleChecked(name) == job.fingerprint.of[name].id
AppliesWhatWasCheckedStep ==
  CarriedOut =>
    /\ Plan(job.text).of = job.fingerprint.of
    /\ \A n \in FileNames[job.text] : \E r \in TransferRoles :
         /\ roles'[r] = [name |-> n, set |-> 1]
         /\ IF RoleChecked(n) = 0 THEN roles[r].name = "unused" ELSE r = RoleChecked(n)
    /\ \A r \in TransferRoles :
         roles[r].name # "unused" /\ (\A n \in FileNames[job.text] : r # RoleChecked(n)) => roles'[r] = roles[r]
AppliesWhatWasChecked == [][AppliesWhatWasCheckedStep]_transferVars
=============================================================================
