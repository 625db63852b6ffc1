----------------------------- MODULE ScreensProofs -----------------------------
(***************************************************************************)
(* Proofs about the screens.  The transfer of permissions: whatever files  *)
(* there are, whatever roles and whatever the other administrators do      *)
(* meanwhile, an application does what its check showed.  And the screens  *)
(* of MCScreens, for any bounds: what they show is current and of the last *)
(* question, what is typed is not lost, and the sidebar shows the page.    *)
(***************************************************************************)
EXTENDS MCScreens, WellFoundedInduction, TLAPS

-----------------------------------------------------------------------------
(***************************************************************************)
(* The inductive invariant.  From the plan under the locks to the writing, *)
(* what the plan found stays: a role it replaces is locked and is as it    *)
(* was; what it creates it found missing.                                  *)
(***************************************************************************)
BegunWithAFile == job.at # "none" => job.text \in FileTexts
CheckIsOfAFile == askedTransfer.kind = "check" => askedTransfer.text \in FileTexts

RoleStands(n) ==
  LET p == job.fingerprint.of[n]
  IN  IF p.id = 0 THEN p.set = 0 ELSE p.id \in job.locked /\ roles[p.id] = [name |-> n, set |-> p.set]
PlanStands ==
  job.at = "writing" => job.fingerprint \in PlansOf(job.text) /\ \A n \in FileNames[job.text] : RoleStands(n)

TransferInv == TransferTypeOK /\ BegunWithAFile /\ CheckIsOfAFile /\ PlanStands

-----------------------------------------------------------------------------
(***************************************************************************)
(* The operators: the least of the roles, the holder of a name, the plan.  *)
(***************************************************************************)
\* The least of a set of roles is one of them (the locks are taken in the order of the ids, LockNext).
LEMMA LeastIsOneOfThem ==
  ASSUME NEW S \in SUBSET Nat, S # {}
  PROVE  Min(S) \in S
  <1>1. \E r \in S : \A q \in S : ~(<<q, r>> \in OpToRel(<, Nat))
    BY NatLessThanWellFounded, WFMin, Zenon
  <1>2. PICK r \in S : \A q \in S : ~(q < r)
    BY <1>1 DEF OpToRel
  <1>3. \A q \in S : r =< q
    BY <1>2
  <1> QED
    BY <1>3 DEF Min

RolesAreFine == roles \in RoleStates /\ NamesAreUnique(roles) /\ dsl \in 0..1

\* A name is nobody's or that of one role (the key of the name, planFor).
LEMMA OneHolder ==
  ASSUME RolesAreFine, NEW n \in TakenNames
  PROVE  \/ Held(n) = {}
         \/ \E r \in TransferRoles : Held(n) = {r} /\ Max(Held(n)) = r /\ roles[r].name = n /\ r # 0
  <1>1. SUFFICES ASSUME NEW r \in Held(n)
                 PROVE  Held(n) = {r} /\ Max(Held(n)) = r /\ roles[r].name = n /\ r # 0 /\ r \in TransferRoles
    OBVIOUS
  <1>2. r \in TransferRoles /\ roles[r].name = n
    BY DEF Held
  <1>3. r \in Nat /\ r # 0
    BY <1>2, TransferAssumption DEF TransferAssumption
  <1>4. Held(n) = {r}
    BY <1>2 DEF RolesAreFine, NamesAreUnique, Held
  <1>5. Max({r}) = r
    BY <1>3 DEF Max
  <1> QED
    BY <1>2, <1>3, <1>4, <1>5

\* What a plan says of a name it found.
Tells(p, n) == IF p.id = 0 THEN Held(n) = {} /\ p.set = 0 ELSE p.id \in TransferRoles /\ roles[p.id] = [name |-> n, set |-> p.set]

\* A plan tells of every name of its file what there is (planFor, TransferPlanner.plan).
LEMMA PlanIsTrue ==
  ASSUME RolesAreFine, NEW t \in FileTexts
  PROVE  Plan(t) \in PlansOf(t) /\ \A n \in FileNames[t] : Tells(Plan(t).of[n], n)
  <1>1. FileNames[t] \in SUBSET TakenNames
    BY TransferAssumption DEF TransferAssumption
  <1>2. ASSUME NEW n \in FileNames[t]
        PROVE  Plan(t).of[n] \in [id : {0} \cup TransferRoles, set : 0..1] /\ Tells(Plan(t).of[n], n)
    <2>1. CASE Held(n) = {}
      BY <2>1 DEF Plan, Tells
    <2>2. CASE Held(n) # {}
      <3>1. PICK r \in TransferRoles : Held(n) = {r} /\ Max(Held(n)) = r /\ roles[r].name = n /\ r # 0
        BY <1>1, <2>2, OneHolder
      <3>2. Plan(t).of[n] = [id |-> r, set |-> roles[r].set]
        BY <2>2, <3>1 DEF Plan
      <3>3. roles[r] \in [name : Names, set : 0..1]
        BY DEF RolesAreFine, RoleStates
      <3> QED
        BY <3>1, <3>2, <3>3 DEF Tells
    <2> QED
      BY <2>1, <2>2
  <1>3. Plan(t).of \in [FileNames[t] -> [id : {0} \cup TransferRoles, set : 0..1]]
    BY <1>2 DEF Plan
  <1>4. Plan(t).text = t /\ Plan(t).dsl = dsl /\ DOMAIN Plan(t) = {"text", "dsl", "of"}
    BY DEF Plan
  <1>5. Plan(t) \in PlansOf(t)
    BY <1>3 DEF Plan, PlansOf, RolesAreFine
  <1> QED
    BY <1>2, <1>5

-----------------------------------------------------------------------------
(***************************************************************************)
(* The parts of the invariant and what leaves each of them alone.          *)
(***************************************************************************)
Jobs == [at : {"none", "locking", "writing", "done", "stale", "unchanged", "taken", "failed"}, text : FileTexts \cup {0},
         fingerprint : Plans \cup {NoPlan}, todo : SUBSET TransferRoles, locked : SUBSET TransferRoles]
ServerIsFine == RolesAreFine /\ others \in 0..MaxOthers /\ job \in Jobs
ScreenIsFine ==
  /\ transferPage \in [phase : TransferPhases \cup {"gone"}, file : FileTexts \cup {0}, confirm : BOOLEAN]
  /\ heldText \in FileTexts \cup {0} /\ shownPlan \in Plans \cup {NoPlan}
  /\ askedTransfer \in [kind : {"none", "check", "apply"}, text : FileTexts \cup {0}]
  /\ (transferPage.phase = "checking") = (askedTransfer.kind = "check") /\ (transferPage.phase = "applying") = (askedTransfer.kind = "apply")
  /\ heldText = shownPlan.text
  /\ (transferPage.confirm => transferPage.phase \in {"checked", "applying"} /\ heldText # 0)
  /\ CheckIsOfAFile

LEMMA Parts ==
  /\ TransferInv <=> ServerIsFine /\ ScreenIsFine /\ BegunWithAFile /\ PlanStands
  /\ TransferInv' <=> ServerIsFine' /\ ScreenIsFine' /\ BegunWithAFile' /\ PlanStands'
  BY DEF TransferInv, TransferTypeOK, ServerIsFine, ScreenIsFine, RolesAreFine, Jobs

LEMMA AtFirst == TransferInit => TransferInv
  <1> SUFFICES ASSUME TransferInit PROVE ServerIsFine /\ ScreenIsFine /\ BegunWithAFile /\ PlanStands
    BY Parts
  <1>1. ServerIsFine
    BY TransferAssumption DEF TransferInit, ServerIsFine, RolesAreFine, TransferAssumption, Jobs, NoJob
  <1>2. ScreenIsFine
    BY DEF TransferInit, ScreenIsFine, NoTransferPage, NoTransferAsked, NoPlan, CheckIsOfAFile
  <1>3. BegunWithAFile /\ PlanStands
    BY DEF TransferInit, BegunWithAFile, PlanStands, NoJob
  <1> QED
    BY <1>1, <1>2, <1>3

\* What others do to roles that are not locked leaves the plan as it is.
LEMMA OthersMayMove ==
  ASSUME TransferInv, RolesAreFine', others' \in 0..MaxOthers,
         UNCHANGED <<job, transferPage, heldText, shownPlan, askedTransfer>>,
         \A r \in job.locked : roles[r].name \in TakenNames => roles'[r] = roles[r]
  PROVE  TransferInv'
  <1>1. ServerIsFine'
    BY Parts DEF ServerIsFine
  <1>2. ScreenIsFine' /\ BegunWithAFile'
    BY Parts DEF ScreenIsFine, CheckIsOfAFile, BegunWithAFile
  <1>3. ASSUME job.at = "writing", NEW n \in FileNames[job.text] PROVE RoleStands(n)'
    <2>1. RoleStands(n) /\ job.text \in FileTexts
      BY <1>3, Parts DEF PlanStands, BegunWithAFile
    <2>2. n \in TakenNames
      BY <2>1, TransferAssumption DEF TransferAssumption
    <2> QED
      BY <2>1, <2>2 DEF RoleStands
  <1>4. PlanStands'
    BY <1>3, Parts DEF PlanStands, PlansOf
  <1> QED
    BY <1>1, <1>2, <1>4, Parts

\* The screen leaves the server alone.
LEMMA ScreenMayMove ==
  ASSUME TransferInv, OnScreen, ScreenIsFine'
  PROVE  TransferInv'
  <1>1. ServerIsFine' /\ BegunWithAFile'
    BY Parts DEF OnScreen, ServerIsFine, RolesAreFine, BegunWithAFile
  <1>2. PlanStands'
    BY Parts DEF OnScreen, PlanStands, PlansOf, RoleStands
  <1> QED
    BY <1>1, <1>2, Parts

\* The server leaves the screen alone.
LEMMA ServerMayMove ==
  ASSUME TransferInv, OnServer, RolesAreFine', job' \in Jobs, BegunWithAFile', PlanStands'
  PROVE  TransferInv'
  <1>1. ServerIsFine' /\ ScreenIsFine'
    BY Parts DEF OnServer, ServerIsFine, ScreenIsFine, CheckIsOfAFile
  <1> QED
    BY <1>1, Parts

-----------------------------------------------------------------------------
(***************************************************************************)
(* The others (OtherCreates to DslReplaced).                               *)
(***************************************************************************)
OthersNext ==
  \/ \E n \in TakenNames : OtherCreates(n) \/ \E r \in TransferRoles : OtherRenames(r, n)
  \/ \E r \in TransferRoles : OtherDeletes(r) \/ OtherSets(r)
  \/ DslReplaced

LEMMA OthersKeepIt ==
  ASSUME TransferInv, OthersNext
  PROVE  TransferInv'
  <1>1. RolesAreFine /\ others \in 0..MaxOthers
    BY Parts DEF ServerIsFine
  <1>2. AnotherStep /\ others' \in 0..MaxOthers /\ UNCHANGED <<job, transferPage, heldText, shownPlan, askedTransfer>>
    BY <1>1, TransferAssumption DEF OthersNext, OtherCreates, OtherRenames, OtherDeletes, OtherSets, DslReplaced, AnotherStep, TransferAssumption
  <1>3. SUFFICES RolesAreFine' /\ \A r \in job.locked : roles[r].name \in TakenNames => roles'[r] = roles[r]
    BY <1>2, OthersMayMove
  <1>4. job.locked \in SUBSET TransferRoles
    BY Parts DEF ServerIsFine, Jobs
  <1>5. roles \in RoleStates /\ NamesAreUnique(roles) /\ dsl \in 0..1
    BY <1>1 DEF RolesAreFine
  <1>6. "unused" \notin TakenNames /\ "gone" \notin TakenNames
    BY TransferAssumption DEF TransferAssumption
  <1>7. ASSUME NEW r \in TransferRoles PROVE roles[r] \in [name : Names, set : 0..1]
    BY <1>5 DEF RoleStates
  <1>a. ASSUME NEW n \in TakenNames, OtherCreates(n)
        PROVE  RolesAreFine' /\ \A r \in job.locked : roles[r].name \in TakenNames => roles'[r] = roles[r]
    <2> DEFINE c == LeastUnused
    <2>1. Held(n) = {} /\ Held("unused") # {} /\ roles' = [roles EXCEPT ![c] = [name |-> n, set |-> 0]] /\ dsl' = dsl
      BY <1>a DEF OtherCreates
    <2>2. c \in Held("unused")
      <3>1. Held("unused") \in SUBSET Nat
        BY TransferAssumption DEF TransferAssumption, Held
      <3>2. LeastUnused = Min(Held("unused"))
        BY DEF LeastUnused, Held
      <3> QED
        BY <2>1, <3>1, <3>2, LeastIsOneOfThem
    <2>3. c \in TransferRoles /\ roles[c].name = "unused"
      BY <2>2 DEF Held
    <2> HIDE DEF c
    <2>4. roles' \in RoleStates
      BY <1>5, <2>1, <2>3 DEF RoleStates, Names
    <2>5. NamesAreUnique(roles')
      <3>1. \A r \in TransferRoles : roles[r].name # n
        BY <2>1 DEF Held
      <3>2. \A r \in TransferRoles : roles'[r] = IF r = c THEN [name |-> n, set |-> 0] ELSE roles[r]
        BY <1>5, <2>1 DEF RoleStates
      <3> QED
        BY <1>5, <3>1, <3>2 DEF NamesAreUnique
    <2>6. \A r \in job.locked : roles[r].name \in TakenNames => roles'[r] = roles[r]
      BY <1>4, <1>5, <1>6, <2>1, <2>3 DEF RoleStates
    <2> QED
      BY <1>5, <2>1, <2>4, <2>5, <2>6 DEF RolesAreFine
  <1>b. ASSUME NEW n \in TakenNames, NEW q \in TransferRoles, OtherRenames(q, n)
        PROVE  RolesAreFine' /\ \A r \in job.locked : roles[r].name \in TakenNames => roles'[r] = roles[r]
    <2>1. Held(n) = {} /\ q \notin job.locked /\ roles' = [roles EXCEPT ![q].name = n] /\ dsl' = dsl
      BY <1>b DEF OtherRenames, Unlocked
    <2>2. roles' \in RoleStates
      BY <1>5, <1>7, <2>1 DEF RoleStates, Names
    <2>3. NamesAreUnique(roles')
      <3>1. \A r \in TransferRoles : roles[r].name # n
        BY <2>1 DEF Held
      <3>2. \A r \in TransferRoles : roles'[r].name = IF r = q THEN n ELSE roles[r].name
        BY <1>5, <1>7, <2>1 DEF RoleStates
      <3> QED
        BY <1>5, <3>1, <3>2 DEF NamesAreUnique
    <2>4. \A r \in job.locked : roles'[r] = roles[r]
      BY <1>4, <1>5, <2>1 DEF RoleStates
    <2> QED
      BY <1>5, <2>1, <2>2, <2>3, <2>4 DEF RolesAreFine
  <1>c. ASSUME NEW q \in TransferRoles, OtherDeletes(q)
        PROVE  RolesAreFine' /\ \A r \in job.locked : roles[r].name \in TakenNames => roles'[r] = roles[r]
    <2>1. q \notin job.locked /\ roles' = [roles EXCEPT ![q].name = "gone"] /\ dsl' = dsl
      BY <1>c DEF OtherDeletes, Unlocked
    <2>2. roles' \in RoleStates
      BY <1>5, <1>7, <2>1 DEF RoleStates, Names
    <2>3. NamesAreUnique(roles')
      <3>1. \A r \in TransferRoles : roles'[r].name = IF r = q THEN "gone" ELSE roles[r].name
        BY <1>5, <1>7, <2>1 DEF RoleStates
      <3> QED
        BY <1>5, <1>6, <3>1 DEF NamesAreUnique
    <2>4. \A r \in job.locked : roles'[r] = roles[r]
      BY <1>4, <1>5, <2>1 DEF RoleStates
    <2> QED
      BY <1>5, <2>1, <2>2, <2>3, <2>4 DEF RolesAreFine
  <1>d. ASSUME NEW q \in TransferRoles, OtherSets(q)
        PROVE  RolesAreFine' /\ \A r \in job.locked : roles[r].name \in TakenNames => roles'[r] = roles[r]
    <2>1. q \notin job.locked /\ roles' = [roles EXCEPT ![q].set = 1 - @] /\ dsl' = dsl
      BY <1>d DEF OtherSets, Unlocked
    <2>2. roles' \in RoleStates
      BY <1>5, <1>7, <2>1 DEF RoleStates
    <2>3. NamesAreUnique(roles')
      <3>1. \A r \in TransferRoles : roles'[r].name = roles[r].name
        BY <1>5, <1>7, <2>1 DEF RoleStates
      <3> QED
        BY <1>5, <3>1 DEF NamesAreUnique
    <2>4. \A r \in job.locked : roles'[r] = roles[r]
      BY <1>4, <1>5, <2>1 DEF RoleStates
    <2> QED
      BY <1>5, <2>1, <2>2, <2>3, <2>4 DEF RolesAreFine
  <1>e. ASSUME DslReplaced PROVE RolesAreFine' /\ roles' = roles
    BY <1>5, <1>e DEF DslReplaced, RolesAreFine
  <1> QED
    BY <1>a, <1>b, <1>c, <1>d, <1>e DEF OthersNext

-----------------------------------------------------------------------------
(***************************************************************************)
(* The server's application.                                               *)
(***************************************************************************)
LEMMA LockingKeepsIt ==
  ASSUME TransferInv, LockNext \/ LockTimesOut
  PROVE  TransferInv'
  <1>1. job \in Jobs /\ RolesAreFine /\ job.at \in {"locking", "writing"} /\ job.text \in FileTexts
    BY Parts DEF ServerIsFine, BegunWithAFile, LockNext, LockTimesOut
  <1>2. OnServer /\ roles' = roles /\ RolesAreFine'
    BY <1>1 DEF LockNext, LockTimesOut, OnServer, RolesAreFine
  <1>3. CASE LockNext
    <2>1. Min(job.todo) \in TransferRoles
      <3>1. job.todo \in SUBSET TransferRoles /\ job.todo # {} /\ job.todo \in SUBSET Nat
        BY <1>1, <1>3, TransferAssumption DEF Jobs, LockNext, TransferAssumption
      <3> QED
        BY <3>1, LeastIsOneOfThem
    <2>2. job' \in Jobs /\ job'.at = "locking" /\ job'.text = job.text
      BY <1>1, <1>3, <2>1 DEF LockNext, Jobs
    <2> QED
      BY <1>1, <1>2, <2>2, ServerMayMove DEF BegunWithAFile, PlanStands
  <1>4. CASE LockTimesOut
    <2>1. job' \in Jobs /\ job'.at = "failed" /\ job'.text = job.text
      BY <1>1, <1>4 DEF LockTimesOut, Ends, Jobs
    <2> QED
      BY <1>1, <1>2, <2>1, ServerMayMove DEF BegunWithAFile, PlanStands
  <1> QED
    BY <1>3, <1>4

LEMMA PlanningKeepsIt ==
  ASSUME TransferInv, PlanAgain
  PROVE  TransferInv'
  <1> DEFINE plan == Plan(job.text)
  <1>1. job \in Jobs /\ RolesAreFine /\ job.at = "locking" /\ job.text \in FileTexts
    BY Parts DEF ServerIsFine, BegunWithAFile, PlanAgain
  <1>2. OnServer /\ roles' = roles /\ RolesAreFine'
    BY <1>1 DEF PlanAgain, OnServer, RolesAreFine
  <1>3. plan \in PlansOf(job.text) /\ \A n \in FileNames[job.text] : Tells(plan.of[n], n)
    BY <1>1, PlanIsTrue
  <1>4. CASE plan # job.fingerprint \/ ~(Replaced(plan) \subseteq job.locked)
    <2>1. job' \in Jobs /\ job'.at = "stale" /\ job'.text = job.text
      BY <1>1, <1>4 DEF PlanAgain, Ends, Jobs
    <2> QED
      BY <1>1, <1>2, <2>1, ServerMayMove DEF BegunWithAFile, PlanStands
  <1>5. CASE plan = job.fingerprint /\ Replaced(plan) \subseteq job.locked /\ NothingToDo(plan)
    <2>1. job' \in Jobs /\ job'.at = "unchanged" /\ job'.text = job.text
      BY <1>1, <1>5 DEF PlanAgain, Ends, Jobs
    <2> QED
      BY <1>1, <1>2, <2>1, ServerMayMove DEF BegunWithAFile, PlanStands
  <1>6. CASE plan = job.fingerprint /\ Replaced(plan) \subseteq job.locked /\ ~NothingToDo(plan)
    <2>1. job' = [job EXCEPT !.at = "writing"]
      BY <1>6 DEF PlanAgain
    <2>2. job' \in Jobs /\ job'.at = "writing" /\ job'.text = job.text /\ job'.fingerprint = plan /\ job'.locked = job.locked
      BY <1>1, <1>6, <2>1 DEF Jobs
    <2>3. ASSUME NEW n \in FileNames[job.text] PROVE RoleStands(n)'
      <3>1. Tells(plan.of[n], n)
        BY <1>3
      <3>2. plan.of[n].id # 0 => plan.of[n].id \in job.locked
        <4>1. DOMAIN plan.of = FileNames[job.text]
          BY DEF Plan
        <4> QED
          BY <1>6, <4>1 DEF Replaced
      <3> QED
        BY <1>2, <2>2, <3>1, <3>2 DEF Tells, RoleStands
    <2>4. PlanStands'
      BY <1>3, <2>2, <2>3 DEF PlanStands, PlansOf
    <2> QED
      BY <1>1, <1>2, <2>2, <2>4, ServerMayMove DEF BegunWithAFile
  <1> QED
    BY <1>4, <1>5, <1>6

\* The writing when no name was taken meanwhile: what it finds is what the plan says, and each role gets what is its own.
LEMMA WritingDoes ==
  ASSUME TransferInv, job.at = "writing", \A n \in Created : Held(n) = {},
         NEW made \in Injection(Created, Held("unused")), roles' = TransferWrites(made)
  PROVE  /\ Plan(job.text).of = job.fingerprint.of
         /\ Created = {n \in FileNames[job.text] : RoleChecked(n) = 0} /\ Created \in SUBSET TakenNames
         /\ \A n \in FileNames[job.text] : RoleChecked(n) # 0 =>
              /\ RoleChecked(n) \in TransferRoles /\ roles[RoleChecked(n)].name = n
              /\ roles'[RoleChecked(n)] = [name |-> n, set |-> 1]
         /\ \A n \in Created : made[n] \in TransferRoles /\ roles[made[n]].name = "unused" /\ roles'[made[n]] = [name |-> n, set |-> 1]
         /\ \A r \in TransferRoles : (\A n \in FileNames[job.text] : r # RoleChecked(n)) /\ (\A n \in Created : r # made[n]) => roles'[r] = roles[r]
  <1> DEFINE t == job.text
             plan == job.fingerprint
  <1>1. RolesAreFine /\ job \in Jobs /\ t \in FileTexts /\ plan \in PlansOf(t) /\ \A n \in FileNames[t] : RoleStands(n)
    BY Parts DEF ServerIsFine, BegunWithAFile, PlanStands
  <1>2. FileNames[t] \in SUBSET TakenNames /\ "unused" \notin TakenNames
    BY <1>1, TransferAssumption DEF TransferAssumption
  <1>3. plan.of \in [FileNames[t] -> [id : {0} \cup TransferRoles, set : 0..1]]
    BY <1>1 DEF PlansOf
  <1>4. Created = {n \in FileNames[t] : RoleChecked(n) = 0}
    BY <1>3 DEF Created, RoleChecked
  <1>5. made \in [Created -> Held("unused")] /\ \A m, n \in Created : made[m] = made[n] => m = n
    BY DEF Injection, IsInjective
  <1>6. ASSUME NEW n \in FileNames[t], RoleChecked(n) # 0
        PROVE  /\ RoleChecked(n) \in TransferRoles /\ roles[RoleChecked(n)].name = n
               /\ roles[RoleChecked(n)] = [name |-> n, set |-> plan.of[n].set]
    BY <1>1, <1>3, <1>6 DEF RoleStands, RoleChecked
  <1>7. \A r \in TransferRoles : roles[r] \in [name : Names, set : 0..1]
    BY <1>1 DEF RolesAreFine, RoleStates
  <1>8. Plan(t).of = plan.of
    <2>1. ASSUME NEW n \in FileNames[t] PROVE Plan(t).of[n] = plan.of[n]
      <3>1. Tells(Plan(t).of[n], n) /\ Plan(t).of[n] \in [id : {0} \cup TransferRoles, set : 0..1]
        BY <1>1, PlanIsTrue DEF PlansOf
      <3>2. CASE RoleChecked(n) = 0
        <4>1. Held(n) = {} /\ plan.of[n].id = 0 /\ plan.of[n].set = 0
          BY <1>1, <1>4, <3>2 DEF RoleStands, RoleChecked
        <4>2. Plan(t).of[n] = [id |-> 0, set |-> 0]
          BY <4>1 DEF Plan
        <4> QED
          BY <1>3, <4>1, <4>2
      <3>3. CASE RoleChecked(n) # 0
        <4> DEFINE r == plan.of[n].id
        <4>1. r \in TransferRoles /\ roles[r] = [name |-> n, set |-> plan.of[n].set]
          BY <1>6, <3>3 DEF RoleChecked
        <4>2. r \in Held(n)
          BY <4>1 DEF Held
        <4>3. Held(n) = {r} /\ Max(Held(n)) = r
          BY <1>1, <1>2, <4>2, OneHolder
        <4>4. Plan(t).of[n] = [id |-> r, set |-> roles[r].set]
          BY <4>3 DEF Plan
        <4> QED
          BY <1>3, <4>1, <4>4
      <3> QED
        BY <3>2, <3>3
    <2>2. Plan(t).of \in [FileNames[t] -> [id : {0} \cup TransferRoles, set : 0..1]]
      BY <1>1, PlanIsTrue DEF PlansOf
    <2> QED
      BY <1>3, <2>1, <2>2
  <1>9. Replaced(plan) = {RoleChecked(n) : n \in FileNames[t]} \ {0}
    BY <1>3 DEF Replaced, RoleChecked
  <1>10. ASSUME NEW n \in FileNames[t], RoleChecked(n) # 0
         PROVE  roles'[RoleChecked(n)] = [name |-> n, set |-> 1]
    <2>1. RoleChecked(n) \in Replaced(plan)
      BY <1>9, <1>10
    <2>2. RoleChecked(n) \in TransferRoles /\ roles[RoleChecked(n)] = [name |-> n, set |-> plan.of[n].set]
      BY <1>6, <1>10
    <2>3. roles'[RoleChecked(n)] = [roles[RoleChecked(n)] EXCEPT !.set = 1]
      BY <2>1, <2>2 DEF TransferWrites
    <2> QED
      BY <2>2, <2>3
  <1>11. ASSUME NEW n \in Created
         PROVE  made[n] \in TransferRoles /\ roles[made[n]].name = "unused" /\ roles'[made[n]] = [name |-> n, set |-> 1]
    <2>1. made[n] \in TransferRoles /\ roles[made[n]].name = "unused"
      BY <1>5 DEF Held
    <2>2. made[n] \notin Replaced(plan)
      <3>1. SUFFICES ASSUME NEW m \in FileNames[t], made[n] = RoleChecked(m), RoleChecked(m) # 0 PROVE FALSE
        BY <1>9
      <3>2. roles[RoleChecked(m)].name = m
        BY <1>6, <3>1
      <3> QED
        BY <1>2, <2>1, <3>1, <3>2
    <2>3. (CHOOSE m \in Created : made[m] = made[n]) = n
      BY <1>5
    <2> QED
      BY <2>1, <2>2, <2>3 DEF TransferWrites
  <1>12. ASSUME NEW r \in TransferRoles, \A n \in FileNames[t] : r # RoleChecked(n), \A n \in Created : r # made[n]
         PROVE  roles'[r] = roles[r]
    BY <1>9, <1>12 DEF TransferWrites
  <1>13. Created \in SUBSET TakenNames
    BY <1>2, <1>4
  <1>14. \A n \in FileNames[t] : RoleChecked(n) # 0 => RoleChecked(n) \in TransferRoles /\ roles[RoleChecked(n)].name = n
    BY <1>6
  <1>15. \A n \in FileNames[t] : RoleChecked(n) # 0 => roles'[RoleChecked(n)] = [name |-> n, set |-> 1]
    BY <1>10
  <1>16. \A r \in TransferRoles : (\A n \in FileNames[t] : r # RoleChecked(n)) /\ (\A n \in Created : r # made[n]) => roles'[r] = roles[r]
    BY <1>12
  <1> QED
    BY <1>4, <1>8, <1>11, <1>13, <1>14, <1>15, <1>16

LEMMA WritingKeepsIt ==
  ASSUME TransferInv, Write
  PROVE  TransferInv'
  <1>1. job \in Jobs /\ RolesAreFine /\ job.at = "writing" /\ job.text \in FileTexts /\ OnServer
    BY Parts DEF ServerIsFine, BegunWithAFile, Write
  <1>2. job' \in Jobs /\ job'.at \in {"done", "taken"} /\ job'.text = job.text
    BY <1>1 DEF Write, Ends, Jobs
  <1>3. SUFFICES RolesAreFine'
    BY <1>1, <1>2, ServerMayMove DEF BegunWithAFile, PlanStands
  <1>4. CASE roles' = roles
    BY <1>1, <1>4 DEF RolesAreFine, OnServer
  <1>5. CASE (\A n \in Created : Held(n) = {}) /\ \E made \in Injection(Created, Held("unused")) : roles' = TransferWrites(made)
    <2>1. PICK made \in Injection(Created, Held("unused")) : roles' = TransferWrites(made)
      BY <1>5
    <2>2. job.at = "writing" /\ \A n \in Created : Held(n) = {}
      BY <1>1, <1>5
    <2>3. \A n \in FileNames[job.text] : RoleChecked(n) # 0 =>
            RoleChecked(n) \in TransferRoles /\ roles[RoleChecked(n)].name = n /\ roles'[RoleChecked(n)] = [name |-> n, set |-> 1]
      BY <2>1, <2>2, WritingDoes
    <2>4. /\ \A n \in Created : made[n] \in TransferRoles /\ roles[made[n]].name = "unused" /\ roles'[made[n]] = [name |-> n, set |-> 1]
          /\ Created \in SUBSET TakenNames /\ FileNames[job.text] \in SUBSET TakenNames
      BY <1>1, <2>1, <2>2, WritingDoes, TransferAssumption DEF TransferAssumption
    <2>5. \A r \in TransferRoles : (\A n \in FileNames[job.text] : r # RoleChecked(n)) /\ (\A n \in Created : r # made[n]) => roles'[r] = roles[r]
      BY <2>1, <2>2, WritingDoes
    <2>6. 0 \notin TransferRoles /\ "unused" \notin TakenNames
      BY TransferAssumption DEF TransferAssumption
    <2>7. roles \in RoleStates /\ NamesAreUnique(roles)
      BY <1>1 DEF RolesAreFine
    \* A role keeps its name or is made with a name nobody had.
    <2>8. ASSUME NEW r \in TransferRoles
          PROVE  roles'[r] \in [name : Names, set : 0..1] /\ (roles'[r].name = roles[r].name \/ \E n \in Created : r = made[n] /\ roles'[r].name = n)
      <3>1. roles[r] \in [name : Names, set : 0..1]
        BY <2>7 DEF RoleStates
      <3>2. CASE \E n \in FileNames[job.text] : RoleChecked(n) # 0 /\ r = RoleChecked(n)
        <4>1. PICK n \in FileNames[job.text] : RoleChecked(n) # 0 /\ r = RoleChecked(n)
          BY <3>2
        <4>2. roles'[r] = [name |-> n, set |-> 1] /\ roles[r].name = n /\ n \in Names
          BY <2>3, <2>4, <4>1 DEF Names
        <4> QED
          BY <4>2
      <3>3. CASE \E n \in Created : r = made[n]
        <4>1. PICK n \in Created : r = made[n]
          BY <3>3
        <4>2. roles'[r] = [name |-> n, set |-> 1] /\ n \in Names
          BY <2>4, <4>1 DEF Names
        <4> QED
          BY <4>1, <4>2
      <3>4. CASE (\A n \in FileNames[job.text] : r # RoleChecked(n)) /\ (\A n \in Created : r # made[n])
        BY <2>5, <3>1, <3>4
      <3> QED
        BY <2>6, <3>2, <3>3, <3>4
    <2>9. roles' \in RoleStates
      <3>1. DOMAIN roles' = TransferRoles /\ roles' = [r \in TransferRoles |-> roles'[r]]
        BY <2>1 DEF TransferWrites
      <3> QED
        BY <2>8, <3>1 DEF RoleStates
    <2>10. ASSUME NEW r \in TransferRoles, NEW q \in TransferRoles, roles'[r].name = roles'[q].name, roles'[r].name \in TakenNames
           PROVE  r = q
      <3>1. CASE roles'[r].name = roles[r].name /\ roles'[q].name = roles[q].name
        BY <2>7, <2>10, <3>1 DEF NamesAreUnique
      <3>2. CASE \E n \in Created : r = made[n] /\ roles'[r].name = n
        <4>1. PICK n \in Created : r = made[n] /\ roles'[r].name = n
          BY <3>2
        <4>2. roles[q].name # n
          BY <2>2, <4>1 DEF Held
        <4> QED
          BY <2>8, <2>10, <4>1, <4>2
      <3>3. CASE \E n \in Created : q = made[n] /\ roles'[q].name = n
        <4>1. PICK n \in Created : q = made[n] /\ roles'[q].name = n
          BY <3>3
        <4>2. roles[r].name # n
          BY <2>2, <4>1 DEF Held
        <4> QED
          BY <2>8, <2>10, <4>1, <4>2
      <3> QED
        BY <2>8, <3>1, <3>2, <3>3
    <2>11. NamesAreUnique(roles') /\ dsl' \in 0..1
      BY <1>1, <2>10 DEF NamesAreUnique, RolesAreFine, OnServer
    <2> QED
      BY <2>9, <2>11 DEF RolesAreFine
  <1> QED
    BY <1>4, <1>5 DEF Write

-----------------------------------------------------------------------------
(***************************************************************************)
(* The screen.                                                             *)
(***************************************************************************)
ScreenNext ==
  \/ OpenTransfer \/ TransferGone \/ runCheck \/ openApply \/ cancelApply
  \/ \E phase \in {"checked", "fileSelected", "rejected"} : ApplyRefused(phase)
  \/ \E t \in FileTexts : selectFile(t)
  \/ \E phase \in {"idle", "fileTooLarge"} : NoFileSelected(phase)
  \/ CheckDone(askedTransfer.text) \/ \E phase \in {"fileSelected", "invalid", "rejected", "checked"} : CheckFails(phase)
  \/ ApplyFails

LEMMA ScreenKeepsIt ==
  ASSUME TransferInv, ScreenNext
  PROVE  TransferInv'
  <1>1. ScreenIsFine /\ RolesAreFine
    BY Parts DEF ServerIsFine
  <1>2. OnScreen
    BY DEF ScreenNext, OpenTransfer, TransferGone, runCheck, openApply, cancelApply, ApplyRefused, selectFile, NoFileSelected,
           CheckDone, CheckFails, ApplyFails
  <1>3. SUFFICES ScreenIsFine'
    BY <1>2, ScreenMayMove
  <1>4. 0 \notin FileTexts
    BY TransferAssumption DEF TransferAssumption
  <1>5. "checking" # "applying" /\ NoPlan.text = 0 /\ NoPlan \in Plans \cup {NoPlan}
    BY DEF NoPlan
  <1>a. CASE OpenTransfer \/ cancelApply \/ openApply
    BY <1>1, <1>a DEF OpenTransfer, cancelApply, openApply, DialogFree, TransferFree, NoTransferPage, ScreenIsFine, CheckIsOfAFile,
                      TransferPhases
  <1>b. CASE TransferGone
    BY <1>1, <1>5, <1>b DEF TransferGone, forgetCheck, NoTransferPage, NoTransferAsked, ScreenIsFine, CheckIsOfAFile, TransferPhases
  <1>c. ASSUME NEW t \in FileTexts, selectFile(t) PROVE ScreenIsFine'
    BY <1>1, <1>5, <1>c DEF selectFile, TransferFree, forgetCheck, ScreenIsFine, CheckIsOfAFile, TransferPhases
  <1>d. ASSUME NEW phase \in {"idle", "fileTooLarge"}, NoFileSelected(phase) PROVE ScreenIsFine'
    BY <1>1, <1>5, <1>d DEF NoFileSelected, TransferFree, forgetCheck, ScreenIsFine, CheckIsOfAFile, TransferPhases
  <1>e. CASE runCheck
    BY <1>1, <1>5, <1>e DEF runCheck, CanCheck, TransferFree, forgetCheck, ScreenIsFine, CheckIsOfAFile, TransferPhases
  <1>f. CASE CheckDone(askedTransfer.text)
    <2>1. askedTransfer.text \in FileTexts /\ ~transferPage.confirm
      BY <1>1, <1>f DEF CheckDone, ScreenIsFine, CheckIsOfAFile
    <2>2. Plan(askedTransfer.text) \in Plans /\ Plan(askedTransfer.text).text = askedTransfer.text
      BY <1>1, <2>1, PlanIsTrue DEF Plans, Plan
    <2> QED
      BY <1>1, <1>f, <2>1, <2>2 DEF CheckDone, NoTransferAsked, ScreenIsFine, CheckIsOfAFile, TransferPhases
  <1>g. ASSUME NEW phase \in {"fileSelected", "invalid", "rejected", "checked"}, CheckFails(phase) PROVE ScreenIsFine'
    BY <1>1, <1>g DEF CheckFails, NoTransferAsked, ScreenIsFine, CheckIsOfAFile, TransferPhases
  <1>h. CASE ApplyFails
    BY <1>1, <1>5, <1>h DEF ApplyFails, forgetCheck, NoTransferAsked, ScreenIsFine, CheckIsOfAFile, TransferPhases
  <1>i. ASSUME NEW phase \in {"checked", "fileSelected", "rejected"}, ApplyRefused(phase) PROVE ScreenIsFine'
    BY <1>1, <1>5, <1>i DEF ApplyRefused, DialogFree, forgetCheck, ScreenIsFine, CheckIsOfAFile, TransferPhases
  <1> QED
    BY <1>a, <1>b, <1>c, <1>d, <1>e, <1>f, <1>g, <1>h, <1>i DEF ScreenNext

\* The application begun and answered: both the screen and the server move.
LEMMA BothKeepIt ==
  ASSUME TransferInv, applyPlan \/ AnswerLost \/ ApplyAnswered
  PROVE  TransferInv'
  <1>1. ScreenIsFine /\ RolesAreFine /\ job \in Jobs /\ others \in 0..MaxOthers
    BY Parts DEF ServerIsFine
  <1>2. RolesAreFine' /\ others' \in 0..MaxOthers
    BY <1>1 DEF applyPlan, AnswerLost, ApplyAnswered, RolesAreFine
  <1>3. job' \in Jobs /\ BegunWithAFile' /\ PlanStands'
    <2>1. CASE applyPlan
      <3>1. heldText \in FileTexts /\ shownPlan \in Plans \cup {NoPlan}
        BY <1>1, <2>1 DEF applyPlan, DialogFree, ScreenIsFine
      <3>2. Matched(heldText) \in SUBSET TransferRoles
        BY DEF Matched, Held
      <3>3. job' = [at |-> "locking", text |-> heldText, fingerprint |-> shownPlan, todo |-> Matched(heldText), locked |-> {}]
        BY <2>1 DEF applyPlan, BeginApply
      <3> QED
        BY <3>1, <3>2, <3>3 DEF Jobs, BegunWithAFile, PlanStands
    <2>2. CASE AnswerLost \/ ApplyAnswered
      <3>1. job' = NoJob
        BY <2>2 DEF AnswerLost, ApplyAnswered
      <3> QED
        BY <3>1 DEF NoJob, Jobs, BegunWithAFile, PlanStands
    <2> QED
      BY <2>1, <2>2
  <1>4. ScreenIsFine'
    <2>1. CASE applyPlan
      BY <1>1, <2>1 DEF applyPlan, DialogFree, ScreenIsFine, CheckIsOfAFile, TransferPhases
    <2>2. CASE AnswerLost
      BY <1>1, <2>2 DEF AnswerLost, ScreenIsFine, CheckIsOfAFile
    <2>3. CASE ApplyAnswered
      <3>1. heldText' = shownPlan'.text /\ heldText' \in FileTexts \cup {0} /\ shownPlan' \in Plans \cup {NoPlan}
        BY <1>1, <2>3 DEF ApplyAnswered, forgetCheck, NoPlan, ScreenIsFine
      <3>2. askedTransfer' = NoTransferAsked
        BY <2>3 DEF ApplyAnswered
      <3>3. /\ transferPage' \in [phase : TransferPhases, file : FileTexts \cup {0}, confirm : BOOLEAN]
            /\ transferPage'.phase \in {"idle", "stale", "rejected", "fileSelected", "checked"} /\ transferPage'.confirm = FALSE
        BY <1>1, <2>3 DEF ApplyAnswered, ScreenIsFine, TransferPhases
      <3> QED
        BY <3>1, <3>2, <3>3 DEF ScreenIsFine, CheckIsOfAFile, NoTransferAsked
    <2> QED
      BY <2>1, <2>2, <2>3
  <1> QED
    BY <1>1, <1>2, <1>3, <1>4, Parts DEF ServerIsFine

LEMMA StepsKeepIt == TransferInv /\ [TransferNext]_transferVars => TransferInv'
  <1> SUFFICES ASSUME TransferInv, [TransferNext]_transferVars PROVE TransferInv'
    OBVIOUS
  <1>1. CASE UNCHANGED transferVars
    BY <1>1, Parts DEF transferVars, ServerIsFine, RolesAreFine, ScreenIsFine, CheckIsOfAFile, BegunWithAFile, PlanStands, RoleStands, PlansOf
  <1>2. CASE TransferNext
    <2>1. \/ OthersNext \/ LockNext \/ LockTimesOut \/ PlanAgain \/ Write \/ ScreenNext
          \/ applyPlan \/ AnswerLost \/ ApplyAnswered
      BY <1>2 DEF TransferNext, OthersNext, ScreenNext
    <2> QED
      BY <2>1, OthersKeepIt, LockingKeepsIt, PlanningKeepsIt, WritingKeepsIt, ScreenKeepsIt, BothKeepIt
  <1> QED
    BY <1>1, <1>2

\* The transfer has its types, its names stay unique, and the screen shows a check only of the file it holds
\* (useRoleTransfer, RoleTransferService).
THEOREM TransferTypesHold == TransferSpec => []TransferTypeOK
  <1>1. TransferInv => TransferTypeOK
    BY DEF TransferInv
  <1> QED
    BY <1>1, AtFirst, StepsKeepIt, PTL DEF TransferSpec

-----------------------------------------------------------------------------
(***************************************************************************)
(* An application does what its check showed.                              *)
(***************************************************************************)
LEMMA CarriedOutAsChecked ==
  ASSUME TransferInv, TransferNext, CarriedOut
  PROVE  AppliesWhatWasCheckedStep
  <1>0. job \in Jobs
    BY Parts DEF ServerIsFine
  <1>1. Write
    BY <1>0 DEF Ends, Jobs, CarriedOut, TransferNext, OtherCreates, OtherRenames, OtherDeletes, OtherSets, DslReplaced, AnotherStep, LockNext, LockTimesOut,
           PlanAgain, OpenTransfer, TransferGone, runCheck, openApply, cancelApply, applyPlan, BeginApply, SlotFree, ApplyRefused, selectFile,
           NoFileSelected, CheckDone, CheckFails, AnswerLost, ApplyAnswered, ApplyFails, OnScreen, JobEnded
  <1>2. job \in Jobs /\ 0 \notin TransferRoles
    BY Parts, TransferAssumption DEF ServerIsFine, TransferAssumption
  <1>3. /\ job.at = "writing" /\ \A n \in Created : Held(n) = {}
        /\ \E made \in Injection(Created, Held("unused")) : roles' = TransferWrites(made)
    BY <1>1, <1>2 DEF Write, CarriedOut, Ends, Jobs
  <1>4. PICK made \in Injection(Created, Held("unused")) : roles' = TransferWrites(made)
    BY <1>3
  <1>5. Plan(job.text).of = job.fingerprint.of
    BY <1>3, <1>4, WritingDoes
  <1>6. Created = {n \in FileNames[job.text] : RoleChecked(n) = 0}
    BY <1>3, <1>4, WritingDoes
  <1>7. \A n \in FileNames[job.text] : RoleChecked(n) # 0 =>
          RoleChecked(n) \in TransferRoles /\ roles'[RoleChecked(n)] = [name |-> n, set |-> 1]
    BY <1>3, <1>4, WritingDoes
  <1>8. \A n \in Created : made[n] \in TransferRoles /\ roles[made[n]].name = "unused" /\ roles'[made[n]] = [name |-> n, set |-> 1]
    BY <1>3, <1>4, WritingDoes
  <1>9. \A r \in TransferRoles : (\A n \in FileNames[job.text] : r # RoleChecked(n)) /\ (\A n \in Created : r # made[n]) => roles'[r] = roles[r]
    BY <1>3, <1>4, WritingDoes
  <1>10. ASSUME NEW n \in FileNames[job.text]
         PROVE  \E r \in TransferRoles :
                  /\ roles'[r] = [name |-> n, set |-> 1]
                  /\ IF RoleChecked(n) = 0 THEN roles[r].name = "unused" ELSE r = RoleChecked(n)
    <2>1. CASE RoleChecked(n) = 0
      BY <1>6, <1>8, <2>1
    <2>2. CASE RoleChecked(n) # 0
      BY <1>7, <2>2
    <2> QED
      BY <2>1, <2>2
  <1>11. ASSUME NEW r \in TransferRoles, roles[r].name # "unused", \A n \in FileNames[job.text] : r # RoleChecked(n)
         PROVE  roles'[r] = roles[r]
    BY <1>8, <1>9, <1>11
  <1> QED
    BY <1>5, <1>10, <1>11 DEF AppliesWhatWasCheckedStep

\* Whatever the others create, rename, delete and set, and whatever the files name, an application that is carried out finds what its
\* check found, leaves every role of the file as the file says and every other role as it is
\* (RoleTransferService.applyDocument, RoleStore.applyTransfer).
THEOREM CheckedIsApplied == TransferSpec => AppliesWhatWasChecked
  <1>1. TransferInv /\ [TransferNext]_transferVars => [AppliesWhatWasCheckedStep]_transferVars
    BY CarriedOutAsChecked DEF AppliesWhatWasCheckedStep
  <1> QED
    BY <1>1, AtFirst, StepsKeepIt, PTL DEF TransferSpec, AppliesWhatWasChecked

-----------------------------------------------------------------------------
(***************************************************************************)
(* MCScreens takes each screen by itself.  What is proved of the screens is *)
(* proved of all those whose calls are requests together, and of all those *)
(* that are read in parts: here they are one module each, and a screen is  *)
(* the same in both ways.                                                  *)
(***************************************************************************)
Page == INSTANCE RequestInvariants WITH
  users <- v1, userList <- v2, userReqs <- v3, userDialog <- v4, userOp <- v5, rolesReqs <- v6,
  ownUsers <- v7, askedUsers <- v8, named <- v1, namedList <- v2, namedReqs <- v3, namedDialog <- v4,
  namedOp <- v5, afterClose <- v6, ackedNamed <- v7, askedPage <- v8, grp <- v1, grpPage <- v2,
  grpLoads <- v3, grpOp <- v4, noting <- v5, grpAfter <- v6, ackedGrp <- v7, exists <- v1,
  roleAddress <- v2, rolePhase <- v3, role <- v4, readings <- v5, perms <- v1, permPage <- v2,
  schemaReqs <- v3, columnReqs <- v4, tableReqs <- v5, draft <- v6, permOp <- v7, retaining <- v8,
  ackedPerm <- v9, asg <- v1, asgList <- v2, asgReqs <- v3, picker <- v4, pickReqs <- v5, impacts <- v6,
  confirm <- v7, removal <- v8, asgAfter <- v9, ackedAsg <- v10, invs <- v1, invList <- v2,
  invReqs <- v3, invite <- v4, resends <- v5, cancelling <- v6, invAfter <- v7, ackedInv <- v8,
  prefs <- v1, account <- v2, exchange <- v3, savedUser <- v4, preview <- v5, stored <- v6, zone <- v7,
  zoneReqs <- v8, page <- v9, loads <- v10, saves <- v11, acked <- v12, outlived <- v13,
  overtaken <- v14, where <- v1, edits <- v2, cleanAt <- v3, skip <- v4, skipHere <- v5, expiry <- v6,
  blocked <- v7, sending <- v8, clock <- v9, slow <- v10, intended <- v11, markedAt <- v12,
  unsaved <- v13, link <- v1, session <- v2, reg <- v3, verifyReqs <- v4, completion <- v5,
  handoff <- v6, keptInBrowser <- v7, pwd <- v8, pwdReqs <- v9
Part == INSTANCE PartInvariants WITH
  dslS <- v1, dslStatus <- v2, panel <- v3, hist <- v4, tab <- v5, statusReqs <- v6, panelReqs <- v7,
  busy <- v8, calls <- v9, fileRead <- v10, asked <- v11, downloads <- v12, disturbed <- v13,
  history <- v1, menuOpen <- v2, roleLoad <- v3, menuLoad <- v4, roleReq <- v5, menuReq <- v6,
  revision <- v7, guarded <- v8, switch <- v9, ackedRole <- v10, menu <- v1, granted <- v2,
  menuChanges <- v3, phase <- v4, reloading <- v5, response <- v6, ofRole <- v7, address <- v8,
  expanded <- v9, key <- v10, myServer <- v1, told <- v2, myChanges <- v3, mySwitch <- v4, shell <- v5,
  top <- v6, topReads <- v7, expansion <- v8, tree <- v9, childReads <- v10, tables <- v11,
  chosen <- v12, columns <- v13, columnReads <- v14

\* The users (UserScreen).
LEMMA UsersAsPage ==
  /\ Users!UserInit => Page!UserInit
  /\ Users!UserNext => Page!UserNext
  /\ Page!UserTypeOK /\ Page!ListFollowsOwnOps /\ Page!ShownIsAsked
     => Users!UserTypeOK /\ Users!ListFollowsOwnOps /\ Users!ShownIsAsked
  <1>1. ASSUME Users!UserInit PROVE Page!UserInit
    BY <1>1 DEF
        Users!UserInit, Users!NoUserDialog, Users!NoUserList, Users!NoUserOp, Page!UserInit, Page!NoUserDialog,
        Page!NoUserList, Page!NoUserOp
  <1>2. ASSUME Users!UserNext PROVE Page!UserNext
    BY <1>2 DEF
        Users!UserNext, Users!EmptyPage, Users!LeaveUsers, Users!OpDone, Users!OpFailed, Users!OpRefusedAway,
        Users!OpenUsers, Users!ROW_ACTION_KINDS, Users!RolesAnswered, Users!Rows, Users!ServeRoles, Users!ServeUserOp,
        Users!ServeUsers, Users!Targets, Users!UsersChange, Users!UsersRead, Users!clearSearch, Users!closeUserDialog,
        Users!confirmAction, Users!goToUserPage, Users!handleListFailure, Users!retryUsers, Users!saveEdit,
        Users!selectAction, Users!submitSearch, Users!Request, Users!UsersGone, Users!NoUserDialog, Users!NoUserOp,
        Users!reloadUsers, Users!AfterUserFailure, Users!submittingUser, Users!NoUserList, Users!loadUsers,
        Users!Arrives, Users!ServedAt, Users!SearchBoxFree, Users!ConfirmDialogFree, Users!beginSubmit,
        Users!PagerFree, Users!UserPageFree, Users!viewOf, Users!EditDialogFree, Users!Asked, Users!DialogOf,
        Users!MayAsk, Users!RowActionsFree, Users!rowActions, Users!loadingUsers, Users!Dropped, Users!Wanted,
        Users!Cardinality, Page!UserNext, Page!EmptyPage, Page!LeaveUsers, Page!OpDone, Page!OpFailed,
        Page!OpRefusedAway, Page!OpenUsers, Page!ROW_ACTION_KINDS, Page!RolesAnswered, Page!Rows, Page!ServeRoles,
        Page!ServeUserOp, Page!ServeUsers, Page!Targets, Page!UsersChange, Page!UsersRead, Page!clearSearch,
        Page!closeUserDialog, Page!confirmAction, Page!goToUserPage, Page!handleListFailure, Page!retryUsers,
        Page!saveEdit, Page!selectAction, Page!submitSearch, Page!Request, Page!UsersGone, Page!NoUserDialog,
        Page!NoUserOp, Page!reloadUsers, Page!AfterUserFailure, Page!submittingUser, Page!NoUserList, Page!loadUsers,
        Page!Arrives, Page!ServedAt, Page!SearchBoxFree, Page!ConfirmDialogFree, Page!beginSubmit, Page!PagerFree,
        Page!UserPageFree, Page!viewOf, Page!EditDialogFree, Page!Asked, Page!DialogOf, Page!MayAsk,
        Page!RowActionsFree, Page!rowActions, Page!loadingUsers, Page!Dropped, Page!Wanted, Page!Cardinality
  <1>3. ASSUME Page!UserTypeOK, Page!ListFollowsOwnOps, Page!ShownIsAsked
       PROVE  Users!UserTypeOK /\ Users!ListFollowsOwnOps /\ Users!ShownIsAsked
    BY <1>3 DEF
        Users!UserTypeOK, Users!RequestsAbout, Users!Targets, Users!Versions, Users!Wanted, Users!loadingUsers,
        Users!submittingUser, Users!ListFollowsOwnOps, Users!UsersSettled, Users!ShownIsAsked, Page!UserTypeOK,
        Page!RequestsAbout, Page!Targets, Page!Versions, Page!Wanted, Page!loadingUsers, Page!submittingUser,
        Page!ListFollowsOwnOps, Page!UsersSettled, Page!ShownIsAsked
  <1> QED
    BY <1>1, <1>2, <1>3

\* The names of groups and roles (GroupScreens).
LEMMA NamesAsPage ==
  /\ Groups!NamedInit => Page!NamedInit
  /\ Groups!NamedNext => Page!NamedNext
  /\ Page!NamedTypeOK /\ Page!ActsOnOwnChanges /\ Page!NamedPageIsAsked
     => Groups!NamedTypeOK /\ Groups!ActsOnOwnChanges /\ Groups!NamedPageIsAsked
  <1>1. ASSUME Groups!NamedInit PROVE Page!NamedInit
    BY <1>1 DEF Groups!NamedInit, Groups!NoNamedList, Groups!NoNamedOp, Page!NamedInit, Page!NoNamedList, Page!NoNamedOp
  <1>2. ASSUME Groups!NamedNext PROVE Page!NamedNext
    BY <1>2 DEF
        Groups!NamedNext, Groups!DialogKinds, Groups!EmptyNamedPage, Groups!LeaveNamed, Groups!NamedChange,
        Groups!NamedDone, Groups!NamedFailed, Groups!NamedRead, Groups!NamedReadFails, Groups!NamedRefusedAway,
        Groups!OpenNamed, Groups!Pages, Groups!ReloadAfterClose, Groups!ServeNamed, Groups!ServeNamedOp,
        Groups!closeNamedDialog, Groups!confirmDelete, Groups!goToNamedPage, Groups!openDialog, Groups!retryNamed,
        Groups!submitName, Groups!Request, Groups!NamedGone, Groups!NoNamedOp, Groups!Refusals,
        Groups!submittingNamed, Groups!NoNamedList, Groups!loadNamed, Groups!ServedAt, Groups!DeleteDialogFree,
        Groups!NameDialogFree, Groups!NamedPageFree, Groups!groupListViewOf, Groups!RowFree, Groups!Dropped,
        Groups!Asked, Groups!MayAsk, Groups!loadingNamed, Groups!Wanted, Groups!Cardinality, Page!NamedNext,
        Page!DialogKinds, Page!EmptyNamedPage, Page!LeaveNamed, Page!NamedChange, Page!NamedDone, Page!NamedFailed,
        Page!NamedRead, Page!NamedReadFails, Page!NamedRefusedAway, Page!OpenNamed, Page!Pages, Page!ReloadAfterClose,
        Page!ServeNamed, Page!ServeNamedOp, Page!closeNamedDialog, Page!confirmDelete, Page!goToNamedPage,
        Page!openDialog, Page!retryNamed, Page!submitName, Page!Request, Page!NamedGone, Page!NoNamedOp,
        Page!Refusals, Page!submittingNamed, Page!NoNamedList, Page!loadNamed, Page!ServedAt, Page!DeleteDialogFree,
        Page!NameDialogFree, Page!NamedPageFree, Page!groupListViewOf, Page!RowFree, Page!Dropped, Page!Asked,
        Page!MayAsk, Page!loadingNamed, Page!Wanted, Page!Cardinality
  <1>3. ASSUME Page!NamedTypeOK, Page!ActsOnOwnChanges, Page!NamedPageIsAsked
       PROVE  Groups!NamedTypeOK /\ Groups!ActsOnOwnChanges /\ Groups!NamedPageIsAsked
    BY <1>3 DEF
        Groups!NamedTypeOK, Groups!DialogKinds, Groups!Pages, Groups!Refusals, Groups!RequestsAbout, Groups!Versions,
        Groups!loadingNamed, Groups!submittingNamed, Groups!Wanted, Groups!ActsOnOwnChanges, Groups!NamedPageFree,
        Groups!NamedPageIsAsked, Page!NamedTypeOK, Page!DialogKinds, Page!Pages, Page!Refusals, Page!RequestsAbout,
        Page!Versions, Page!loadingNamed, Page!submittingNamed, Page!Wanted, Page!ActsOnOwnChanges,
        Page!NamedPageFree, Page!NamedPageIsAsked
  <1> QED
    BY <1>1, <1>2, <1>3

\* The page of a group (GroupScreens).
LEMMA GroupAsPage ==
  /\ Groups!GrpInit => Page!GrpInit
  /\ Groups!GrpNext => Page!GrpNext
  /\ Page!GrpTypeOK /\ Page!GroupFollowsOwnOps
     => Groups!GrpTypeOK /\ Groups!GroupFollowsOwnOps
  <1>1. ASSUME Groups!GrpInit PROVE Page!GrpInit
    BY <1>1 DEF Groups!GrpInit, Groups!NoGrpOp, Groups!NoGrpPage, Page!GrpInit, Page!NoGrpOp, Page!NoGrpPage
  <1>2. ASSUME Groups!GrpNext PROVE Page!GrpNext
    BY <1>2 DEF
        Groups!GrpNext, Groups!AddDone, Groups!GrpChange, Groups!GrpLoaded, Groups!GrpOpFails, Groups!LeaveGrp,
        Groups!OpenGrp, Groups!ReloadGrpAfterClose, Groups!RemoveDone, Groups!RenameDone, Groups!ServeDetail,
        Groups!ServeGroupRoles, Groups!ServeGrpOp, Groups!add, Groups!closePicker, Groups!closeRename,
        Groups!openPicker, Groups!openRename, Groups!removalNotice, Groups!removeMember, Groups!retryGrp,
        Groups!submitGrpName, Groups!NoGrpOp, Groups!AfterGrpLoad, Groups!DropGrp, Groups!Missing, Groups!loadGrp,
        Groups!GrpGone, Groups!NoGrpPage, Groups!Found, Groups!SendGrp, Groups!submittingGrp, Groups!GrpPageFree,
        Groups!GrpLoad, Groups!MayAsk, Groups!Cardinality, Page!GrpNext, Page!AddDone, Page!GrpChange, Page!GrpLoaded,
        Page!GrpOpFails, Page!LeaveGrp, Page!OpenGrp, Page!ReloadGrpAfterClose, Page!RemoveDone, Page!RenameDone,
        Page!ServeDetail, Page!ServeGroupRoles, Page!ServeGrpOp, Page!add, Page!closePicker, Page!closeRename,
        Page!openPicker, Page!openRename, Page!removalNotice, Page!removeMember, Page!retryGrp, Page!submitGrpName,
        Page!NoGrpOp, Page!AfterGrpLoad, Page!DropGrp, Page!Missing, Page!loadGrp, Page!GrpGone, Page!NoGrpPage,
        Page!Found, Page!SendGrp, Page!submittingGrp, Page!GrpPageFree, Page!GrpLoad, Page!MayAsk, Page!Cardinality
  <1>3. ASSUME Page!GrpTypeOK, Page!GroupFollowsOwnOps
       PROVE  Groups!GrpTypeOK /\ Groups!GroupFollowsOwnOps
    BY <1>3 DEF
        Groups!GrpTypeOK, Groups!Versions, Groups!add, Groups!loadingGrp, Groups!SendGrp, Groups!NoGrpOp,
        Groups!GroupFollowsOwnOps, Page!GrpTypeOK, Page!Versions, Page!add, Page!loadingGrp, Page!SendGrp,
        Page!NoGrpOp, Page!GroupFollowsOwnOps
  <1> QED
    BY <1>1, <1>2, <1>3

\* The page of a role (RoleScreens).
LEMMA RoleAsPage ==
  /\ Role!RolePageInit => Page!RolePageInit
  /\ Role!RolePageNext => Page!RolePageNext
  /\ Page!RolePageTypeOK /\ Page!ReadyIsOfTheAddress
     => Role!RolePageTypeOK /\ Role!ReadyIsOfTheAddress
  <1>1. ASSUME Role!RolePageInit PROVE Page!RolePageInit
    BY <1>1 DEF Role!RolePageInit, Role!Ask, Page!RolePageInit, Page!Ask
  <1>2. ASSUME Role!RolePageNext PROVE Page!RolePageNext
    BY <1>2 DEF
        Role!RolePageNext, Role!NavigateRole, Role!RoleDeleted, Role!RoleFails, Role!RoleGone, Role!RoleRead,
        Role!Serve, Role!markMissing, Role!retryRole, Role!Ask, Role!Invalidated, Role!Shows, Role!Cardinality,
        Page!RolePageNext, Page!NavigateRole, Page!RoleDeleted, Page!RoleFails, Page!RoleGone, Page!RoleRead,
        Page!Serve, Page!markMissing, Page!retryRole, Page!Ask, Page!Invalidated, Page!Shows, Page!Cardinality
  <1>3. ASSUME Page!RolePageTypeOK, Page!ReadyIsOfTheAddress
       PROVE  Role!RolePageTypeOK /\ Role!ReadyIsOfTheAddress
    BY <1>3 DEF Role!RolePageTypeOK, Role!ReadyIsOfTheAddress, Page!RolePageTypeOK, Page!ReadyIsOfTheAddress
  <1> QED
    BY <1>1, <1>2, <1>3

\* The permissions of a role (RoleScreens).
LEMMA PermissionsAsPage ==
  /\ Role!PermInit => Page!PermInit
  /\ Role!PermNext => Page!PermNext
  /\ Page!PermTypeOK /\ Page!ColumnsFollow /\ Page!SaveMatchesSelection
     => Role!PermTypeOK /\ Role!ColumnsFollow /\ Role!SaveMatchesSelection
  <1>1. ASSUME Role!PermInit PROVE Page!PermInit
    BY <1>1 DEF
        Role!PermInit, Role!NoPermOp, Role!NoPermPage, Role!NotRetaining, Role!NoColumns, Page!PermInit,
        Page!NoPermOp, Page!NoPermPage, Page!NotRetaining, Page!NoColumns
  <1>2. ASSUME Role!PermNext PROVE Page!PermNext
    BY <1>2 DEF
        Role!PermNext, Role!ColumnsFail, Role!ColumnsRead, Role!OpenPerms, Role!PermNoChange, Role!PermNotInDsl,
        Role!PermOpDone, Role!PermOpFails, Role!PermsChange, Role!PermsGone, Role!SchemasFail, Role!SchemasRead,
        Role!Scopes, Role!ServeColumns, Role!ServePermOp, Role!TablesRead, Role!Targets1, Role!changePerm,
        Role!clearOrphan, Role!discard, Role!leaveSelect, Role!retainDraft, Role!retryColumns, Role!retryPerms,
        Role!retryTree, Role!savePerms, Role!select, Role!staySelect, Role!NoColumns, Role!Settled, Role!ColumnOf,
        Role!NoPermPage, Role!loadSchemas, Role!NoPermOp, Role!refresh, Role!savingPerms, Role!NotRetaining,
        Role!loadTables, Role!Editable, Role!PanelFree, Role!dirtyPerms, Role!doSelect, Role!loadColumns, Role!Wanted,
        Role!toEntries, Role!Request, Role!MayAsk, Role!Asked, Role!Dropped, Role!inScope, Role!Cardinality,
        Page!PermNext, Page!ColumnsFail, Page!ColumnsRead, Page!OpenPerms, Page!PermNoChange, Page!PermNotInDsl,
        Page!PermOpDone, Page!PermOpFails, Page!PermsChange, Page!PermsGone, Page!SchemasFail, Page!SchemasRead,
        Page!Scopes, Page!ServeColumns, Page!ServePermOp, Page!TablesRead, Page!Targets1, Page!changePerm,
        Page!clearOrphan, Page!discard, Page!leaveSelect, Page!retainDraft, Page!retryColumns, Page!retryPerms,
        Page!retryTree, Page!savePerms, Page!select, Page!staySelect, Page!NoColumns, Page!Settled, Page!ColumnOf,
        Page!NoPermPage, Page!loadSchemas, Page!NoPermOp, Page!refresh, Page!savingPerms, Page!NotRetaining,
        Page!loadTables, Page!Editable, Page!PanelFree, Page!dirtyPerms, Page!doSelect, Page!loadColumns, Page!Wanted,
        Page!toEntries, Page!Request, Page!MayAsk, Page!Asked, Page!Dropped, Page!inScope, Page!Cardinality
  <1>3. ASSUME Page!PermTypeOK, Page!ColumnsFollow, Page!SaveMatchesSelection
       PROVE  Role!PermTypeOK /\ Role!ColumnsFollow /\ Role!SaveMatchesSelection
    BY <1>3 DEF
        Role!PermTypeOK, Role!RequestsAbout, Role!Scopes, Role!Targets1, Role!Versions, Role!Wanted, Role!refresh,
        Role!savingPerms, Role!loadColumns, Role!loadSchemas, Role!loadTables, Role!Asked, Role!Dropped, Role!MayAsk,
        Role!NoColumns, Role!Request, Role!ColumnsFollow, Role!SaveMatchesSelection, Role!inScope, Role!Cardinality,
        Page!PermTypeOK, Page!RequestsAbout, Page!Scopes, Page!Targets1, Page!Versions, Page!Wanted, Page!refresh,
        Page!savingPerms, Page!loadColumns, Page!loadSchemas, Page!loadTables, Page!Asked, Page!Dropped, Page!MayAsk,
        Page!NoColumns, Page!Request, Page!ColumnsFollow, Page!SaveMatchesSelection, Page!inScope, Page!Cardinality
  <1> QED
    BY <1>1, <1>2, <1>3

\* The assignments of a role (RoleScreens).
LEMMA AssignmentsAsPage ==
  /\ Role!AsgInit => Page!AsgInit
  /\ Role!AsgNext => Page!AsgNext
  /\ Page!AsgTypeOK /\ Page!AsgFollows /\ Page!ResultsAreLast
     => Role!AsgTypeOK /\ Role!AsgFollows /\ Role!ResultsAreLast
  <1>1. ASSUME Role!AsgInit PROVE Page!AsgInit
    BY <1>1 DEF Role!AsgInit, Role!NoAsgList, Role!NoPicker, Page!AsgInit, Page!NoAsgList, Page!NoPicker
  <1>2. ASSUME Role!AsgNext PROVE Page!AsgNext
    BY <1>2 DEF
        Role!AsgNext, Role!AddAnswered, Role!AsgChange, Role!AsgGone, Role!AsgRead, Role!AsgReadFails,
        Role!AssignedUsers, Role!Candidates, Role!CandidatesAnswered, Role!KeepsRole, Role!LanguageChanges,
        Role!LosesRole, Role!OpenAsg, Role!ReloadAsgAfterClose, Role!RemovalFails, Role!Removed, Role!ServeAsg,
        Role!Texts, Role!addCandidate, Role!cancelRemoval, Role!closeAsgPicker, Role!confirmRemoval,
        Role!openAsgPicker, Role!removeGroup, Role!requestRemoveUser, Role!retryAsg, Role!showCandidates,
        Role!AsgDone, Role!NoAsgList, Role!NoPicker, Role!MayAsk, Role!loadAsg, Role!ServedAt, Role!CandidatesShown,
        Role!ConfirmFree, Role!PickerFree, Role!AsgPanelFree, Role!Asked, Role!Dropped, Role!Request,
        Role!Cardinality, Page!AsgNext, Page!AddAnswered, Page!AsgChange, Page!AsgGone, Page!AsgRead,
        Page!AsgReadFails, Page!AssignedUsers, Page!Candidates, Page!CandidatesAnswered, Page!KeepsRole,
        Page!LanguageChanges, Page!LosesRole, Page!OpenAsg, Page!ReloadAsgAfterClose, Page!RemovalFails, Page!Removed,
        Page!ServeAsg, Page!Texts, Page!addCandidate, Page!cancelRemoval, Page!closeAsgPicker, Page!confirmRemoval,
        Page!openAsgPicker, Page!removeGroup, Page!requestRemoveUser, Page!retryAsg, Page!showCandidates,
        Page!AsgDone, Page!NoAsgList, Page!NoPicker, Page!MayAsk, Page!loadAsg, Page!ServedAt, Page!CandidatesShown,
        Page!ConfirmFree, Page!PickerFree, Page!AsgPanelFree, Page!Asked, Page!Dropped, Page!Request, Page!Cardinality
  <1>3. ASSUME Page!AsgTypeOK, Page!AsgFollows, Page!ResultsAreLast
       PROVE  Role!AsgTypeOK /\ Role!AsgFollows /\ Role!ResultsAreLast
    BY <1>3 DEF
        Role!AsgTypeOK, Role!AssignedUsers, Role!Candidates, Role!Removals, Role!RequestsAbout, Role!Texts,
        Role!Versions, Role!Wanted, Role!AsgFollows, Role!ResultsAreLast, Page!AsgTypeOK, Page!AssignedUsers,
        Page!Candidates, Page!Removals, Page!RequestsAbout, Page!Texts, Page!Versions, Page!Wanted, Page!AsgFollows,
        Page!ResultsAreLast
  <1> QED
    BY <1>1, <1>2, <1>3

\* The invitations (InvitationScreen).
LEMMA InvitationsAsPage ==
  /\ Invited!InvInit => Page!InvInit
  /\ Invited!InvNext => Page!InvNext
  /\ Page!InvTypeOK /\ Page!InvRowsFollow /\ Page!NoCrossing
     => Invited!InvTypeOK /\ Invited!InvRowsFollow /\ Invited!NoCrossing
  <1>1. ASSUME Invited!InvInit PROVE Page!InvInit
    BY <1>1 DEF
        Invited!InvInit, Invited!InvRows, Invited!NoInvCall, Invited!NoInvList, Invited!NoInvite,
        Invited!NotCancelling, Page!InvInit, Page!InvRows, Page!NoInvCall, Page!NoInvList, Page!NoInvite,
        Page!NotCancelling
  <1>2. ASSUME Invited!InvNext PROVE Page!InvNext
    BY <1>2 DEF
        Invited!InvNext, Invited!CancelDone, Invited!CancelFails, Invited!EmptyInvPage, Invited!InvAfterClosed,
        Invited!InvChange, Invited!InvGone, Invited!InvPages, Invited!InvRead, Invited!InvReadFails, Invited!InvRows,
        Invited!InviteDone, Invited!InviteFails, Invited!OpenInv, Invited!ResendDone, Invited!ResendFails,
        Invited!ServeInv, Invited!closeCancel, Invited!closeInvite, Invited!confirmCancel, Invited!goToInvPage,
        Invited!openInvite, Invited!requestCancel, Invited!resend, Invited!retryInv, Invited!showPendingRow,
        Invited!submitInvite, Invited!InvDone, Invited!NotCancelling, Invited!InvLost, Invited!Request,
        Invited!loadInv, Invited!NoInvCall, Invited!NoInvList, Invited!NoInvite, Invited!CancelDialogFree,
        Invited!InviteDialogFree, Invited!SentCall, Invited!InvPagerShown, Invited!InvPageFree, Invited!InvRowsShown,
        Invited!Asked, Invited!MayAsk, Invited!Dropped, Invited!Cardinality, Page!InvNext, Page!CancelDone,
        Page!CancelFails, Page!EmptyInvPage, Page!InvAfterClosed, Page!InvChange, Page!InvGone, Page!InvPages,
        Page!InvRead, Page!InvReadFails, Page!InvRows, Page!InviteDone, Page!InviteFails, Page!OpenInv,
        Page!ResendDone, Page!ResendFails, Page!ServeInv, Page!closeCancel, Page!closeInvite, Page!confirmCancel,
        Page!goToInvPage, Page!openInvite, Page!requestCancel, Page!resend, Page!retryInv, Page!showPendingRow,
        Page!submitInvite, Page!InvDone, Page!NotCancelling, Page!InvLost, Page!Request, Page!loadInv, Page!NoInvCall,
        Page!NoInvList, Page!NoInvite, Page!CancelDialogFree, Page!InviteDialogFree, Page!SentCall,
        Page!InvPagerShown, Page!InvPageFree, Page!InvRowsShown, Page!Asked, Page!MayAsk, Page!Dropped,
        Page!Cardinality
  <1>3. ASSUME Page!InvTypeOK, Page!InvRowsFollow, Page!NoCrossing
       PROVE  Invited!InvTypeOK /\ Invited!InvRowsFollow /\ Invited!NoCrossing
    BY <1>3 DEF
        Invited!InvTypeOK, Invited!InvCalls, Invited!InvPages, Invited!InvRows, Invited!RequestsAbout,
        Invited!Versions, Invited!Wanted, Invited!InvRowsFollow, Invited!InvRowsShown, Invited!InvPageFree,
        Invited!NoCrossing, Page!InvTypeOK, Page!InvCalls, Page!InvPages, Page!InvRows, Page!RequestsAbout,
        Page!Versions, Page!Wanted, Page!InvRowsFollow, Page!InvRowsShown, Page!InvPageFree, Page!NoCrossing
  <1> QED
    BY <1>1, <1>2, <1>3

\* The display settings (Preferences).
LEMMA SettingsAsPage ==
  /\ Settings!PreferencesInit => Page!PreferencesInit
  /\ Settings!PreferencesNext => Page!PreferencesNext
  /\ Page!PreferencesTypeOK /\ Page!ScreenShowsOwnSave /\ Page!PreviewEndsWithPage
     => Settings!PreferencesTypeOK /\ Settings!ScreenShowsOwnSave /\ Settings!PreviewEndsWithPage
  /\ Page!EditsSurviveStep => Settings!EditsSurviveStep
  <1>1. ASSUME Settings!PreferencesInit PROVE Page!PreferencesInit
    BY <1>1 DEF
        Settings!PreferencesInit, Settings!LoggedOut, Settings!NoExchange, Settings!NoPage, Settings!NoPreferences,
        Settings!ZoneLoading, Page!PreferencesInit, Page!LoggedOut, Page!NoExchange, Page!NoPage, Page!NoPreferences,
        Page!ZoneLoading
  <1>2. ASSUME Settings!PreferencesNext PROVE Page!PreferencesNext
    BY <1>2 DEF
        Settings!PreferencesNext, Settings!Edit, Settings!ExchangeSent, Settings!ExchangeServed, Settings!LeavePage,
        Settings!LoadAnswered, Settings!OpenPage, Settings!OtherTabSaves, Settings!Renewed, Settings!SaveFailed,
        Settings!Saved, Settings!ServeRead, Settings!ServeSave, Settings!SessionEnded, Settings!ZoneAnswered,
        Settings!reloadPage, Settings!reloadZone, Settings!reset, Settings!save, Settings!editable,
        Settings!setPreview, Settings!Unmount, Settings!clearPreview, Settings!Arrives, Settings!applySaved,
        Settings!applyUserPreferences, Settings!chooseBase, Settings!Asked, Settings!MayAsk, Settings!NoPage,
        Settings!loggedIn, Settings!NewLoginState, Settings!NoExchange, Settings!loadZone, Settings!ServedAt,
        Settings!LoggedOut, Settings!dropZone, Settings!ResetOffered, Settings!Request, Settings!Dropped,
        Settings!Wanted, Settings!discardStaleBindings, Settings!rememberUserSettings, Settings!ZoneLoading,
        Settings!NoPreferences, Settings!Parted, Settings!RenderedWith, Settings!Epochs, Settings!Cardinality,
        Page!Parted, Page!RenderedWith, Page!Epochs, Page!PreferencesNext, Page!Edit, Page!ExchangeSent,
        Page!ExchangeServed, Page!LeavePage, Page!LoadAnswered, Page!OpenPage, Page!OtherTabSaves, Page!Renewed,
        Page!SaveFailed, Page!Saved, Page!ServeRead, Page!ServeSave, Page!SessionEnded, Page!ZoneAnswered,
        Page!reloadPage, Page!reloadZone, Page!reset, Page!save, Page!editable, Page!setPreview, Page!Unmount,
        Page!clearPreview, Page!Arrives, Page!applySaved, Page!applyUserPreferences, Page!chooseBase, Page!Asked,
        Page!MayAsk, Page!NoPage, Page!loggedIn, Page!NewLoginState, Page!NoExchange, Page!loadZone, Page!ServedAt,
        Page!LoggedOut, Page!dropZone, Page!ResetOffered, Page!Request, Page!Dropped, Page!Wanted,
        Page!discardStaleBindings, Page!rememberUserSettings, Page!ZoneLoading, Page!NoPreferences, Page!Cardinality
  <1>3. ASSUME Page!PreferencesTypeOK, Page!ScreenShowsOwnSave, Page!PreviewEndsWithPage
       PROVE  Settings!PreferencesTypeOK /\ Settings!ScreenShowsOwnSave /\ Settings!PreviewEndsWithPage
    BY <1>3 DEF
        Settings!PreferencesTypeOK, Settings!Epochs, Settings!NoPage, Settings!RequestsAbout, Settings!Versions,
        Settings!Wanted, Settings!ZoneLoading, Settings!loggedIn, Settings!save, Settings!MayAsk, Settings!Request,
        Settings!editable, Settings!ScreenShowsOwnSave, Settings!chooseBase, Settings!PreviewEndsWithPage,
        Settings!Cardinality, Page!PreferencesTypeOK, Page!Epochs, Page!NoPage, Page!RequestsAbout, Page!Versions,
        Page!Wanted, Page!ZoneLoading, Page!loggedIn, Page!save, Page!MayAsk, Page!Request, Page!editable,
        Page!ScreenShowsOwnSave, Page!chooseBase, Page!PreviewEndsWithPage, Page!Cardinality
  <1>4. ASSUME Page!EditsSurviveStep PROVE Settings!EditsSurviveStep
    BY <1>4 DEF Settings!EditsSurviveStep, Page!EditsSurviveStep
  <1> QED
    BY <1>1, <1>2, <1>3, <1>4

\* The guarded form (Forms).
LEMMA FormAsPage ==
  /\ Form!FormGuardInit => Page!FormGuardInit
  /\ Form!FormGuardNext => Page!FormGuardNext
  /\ Page!FormGuardTypeOK /\ Page!SlowMeansSending /\ Page!MarkIsRecent
     => Form!FormGuardTypeOK /\ Form!SlowMeansSending /\ Form!MarkIsRecent
  /\ Page!NoSilentLossStep => Form!NoSilentLossStep
  <1>1. ASSUME Form!FormGuardInit PROVE Page!FormGuardInit
    BY <1>1 DEF Form!FormGuardInit, Form!NoMove, Page!FormGuardInit, Page!NoMove
  <1>2. ASSUME Form!FormGuardNext PROVE Page!FormGuardNext
    BY <1>2 DEF
        Form!FormGuardNext, Form!EditInput, Form!FiveSecondsPass, Form!FormPaths, Form!LogoutItem, Form!LogoutPage,
        Form!Navigate, Form!Refused, Form!SkipExpires, Form!leave, Form!markClean, Form!run, Form!stay,
        Form!ExpireOnEdit, Form!NoMove, Form!Go, Form!finish, Form!Arrive, Form!shouldBlockNavigation,
        Form!LeavePageHooks, Form!clearLogoutIntent, Form!effectiveDirty, Page!FormGuardNext, Page!EditInput,
        Page!FiveSecondsPass, Page!FormPaths, Page!LogoutItem, Page!LogoutPage, Page!Navigate, Page!Refused,
        Page!SkipExpires, Page!leave, Page!markClean, Page!run, Page!stay, Page!ExpireOnEdit, Page!NoMove, Page!Go,
        Page!finish, Page!Arrive, Page!shouldBlockNavigation, Page!LeavePageHooks, Page!clearLogoutIntent,
        Page!effectiveDirty
  <1>3. ASSUME Page!FormGuardTypeOK, Page!SlowMeansSending, Page!MarkIsRecent
       PROVE  Form!FormGuardTypeOK /\ Form!SlowMeansSending /\ Form!MarkIsRecent
    BY <1>3 DEF
        Form!FormGuardTypeOK, Form!FormPaths, Form!NoMove, Form!SlowMeansSending, Form!MarkIsRecent,
        Page!FormGuardTypeOK, Page!FormPaths, Page!NoMove, Page!SlowMeansSending, Page!MarkIsRecent
  <1>4. ASSUME Page!NoSilentLossStep PROVE Form!NoSilentLossStep
    BY <1>4 DEF Form!NoSilentLossStep, Form!NoMove, Page!NoSilentLossStep, Page!NoMove
  <1> QED
    BY <1>1, <1>2, <1>3, <1>4

\* The registration and the password (Forms).
LEMMA SetupAsPage ==
  /\ Form!SetupInit => Page!SetupInit
  /\ Form!SetupNext => Page!SetupNext
  /\ Page!SetupTypeOK /\ Page!HandoffMeansRegistered
     => Form!SetupTypeOK /\ Form!HandoffMeansRegistered
  /\ Page!TypedSurvivesStep => Form!TypedSurvivesStep
  <1>1. ASSUME Form!SetupInit PROVE Page!SetupInit
    BY <1>1 DEF
        Form!SetupInit, Form!NoCompletion, Form!NoPwd, Form!NoReg, Page!SetupInit, Page!NoCompletion, Page!NoPwd,
        Page!NoReg
  <1>2. ASSUME Form!SetupNext PROVE Page!SetupNext
    BY <1>2 DEF
        Form!SetupNext, Form!LeavePassword, Form!LeaveRegistration, Form!LinkEnds, Form!OpenPassword,
        Form!OpenRegistration, Form!PasswordAnswered, Form!Registered, Form!RegistrationFailed, Form!ServeCompletion,
        Form!ServePassword, Form!ServeVerify, Form!SessionFlips, Form!VerifyAnswered, Form!clearLoginHandoff,
        Form!logoutAndContinue, Form!reloadRegistration, Form!setField, Form!submitPassword, Form!submitRegistration,
        Form!updateValues, Form!Dropped, Form!NoPwd, Form!regVars, Form!NoCompletion, Form!NoReg, Form!pwdVars,
        Form!MayAsk, Form!Verifies, Form!readRegistrationToken, Form!Arrives, Form!AfterFailure, Form!ServedAt,
        Form!WaitsForLogout, Form!verifyFailureKind, Form!Asked, Form!Phase, Form!completeFailureKind, Form!Request,
        Form!Cardinality, Page!SetupNext, Page!LeavePassword, Page!LeaveRegistration, Page!LinkEnds,
        Page!OpenPassword, Page!OpenRegistration, Page!PasswordAnswered, Page!Registered, Page!RegistrationFailed,
        Page!ServeCompletion, Page!ServePassword, Page!ServeVerify, Page!SessionFlips, Page!VerifyAnswered,
        Page!clearLoginHandoff, Page!logoutAndContinue, Page!reloadRegistration, Page!setField, Page!submitPassword,
        Page!submitRegistration, Page!updateValues, Page!Dropped, Page!NoPwd, Page!regVars, Page!NoCompletion,
        Page!NoReg, Page!pwdVars, Page!MayAsk, Page!Verifies, Page!readRegistrationToken, Page!Arrives,
        Page!AfterFailure, Page!ServedAt, Page!WaitsForLogout, Page!verifyFailureKind, Page!Asked, Page!Phase,
        Page!completeFailureKind, Page!Request, Page!Cardinality
  <1>3. ASSUME Page!SetupTypeOK, Page!HandoffMeansRegistered
       PROVE  Form!SetupTypeOK /\ Form!HandoffMeansRegistered
    BY <1>3 DEF
        Form!SetupTypeOK, Form!Phase, Form!RegPhases, Form!RequestsAbout, Form!Wanted, Form!WaitsForLogout,
        Form!Versions, Form!HandoffMeansRegistered, Page!SetupTypeOK, Page!Phase, Page!RegPhases, Page!RequestsAbout,
        Page!Wanted, Page!WaitsForLogout, Page!Versions, Page!HandoffMeansRegistered
  <1>4. ASSUME Page!TypedSurvivesStep PROVE Form!TypedSurvivesStep
    BY <1>4 DEF Form!TypedSurvivesStep, Form!Wanted, Page!TypedSurvivesStep, Page!Wanted
  <1> QED
    BY <1>1, <1>2, <1>3, <1>4

\* The DSL (DslScreen).
LEMMA DslAsPart ==
  /\ Dsl!DslInit => Part!DslInit
  /\ Dsl!DslNext => Part!DslNext
  /\ Part!DslTypeOK /\ Part!ShownFollows /\ Part!AppliesWhatItShowed
     => Dsl!DslTypeOK /\ Dsl!ShownFollows /\ Dsl!AppliesWhatItShowed
  <1>1. ASSUME Dsl!DslInit PROVE Part!DslInit
    BY <1>1 DEF
        Dsl!DslInit, Dsl!NoHist, Dsl!NoPanel, Dsl!NoStatus, Dsl!NotAsked, Part!DslInit, Part!NoHist, Part!NoPanel,
        Part!NoStatus, Part!NotAsked
  <1>2. ASSUME Dsl!DslNext PROVE Part!DslNext
    BY <1>2 DEF
        Dsl!DslNext, Dsl!DslGone, Dsl!DslUndisturbed, Dsl!NoHist, Dsl!NoPanel, Dsl!NoStatus, Dsl!NotAsked,
        Dsl!Applied, Dsl!ApplyChanged, Dsl!Discarded, Dsl!DownloadFailed, Dsl!DslChange, Dsl!DslOpFails,
        Dsl!HistoryAnswered, Dsl!OpInvalid, Dsl!OpMissesPreview, Dsl!OpMissesRevision, Dsl!OpenDsl, Dsl!PreviewFails,
        Dsl!PreviewPlaced, Dsl!PreviewRead, Dsl!ServePreview, Dsl!StatusFails, Dsl!StatusRead, Dsl!apply,
        Dsl!cancelDialog, Dsl!confirmDialog, Dsl!discardPreview, Dsl!downloadMissing, Dsl!generate, Dsl!handleSubmit,
        Dsl!restore, Dsl!retryHistory, Dsl!retryPreview, Dsl!retryStatus, Dsl!selectTab, Dsl!showLatest, Dsl!submit,
        Dsl!ClearedPanel, Dsl!ForgetPreviewReads, Dsl!HeardDone, Dsl!Takes, Dsl!loaded, Dsl!LoadStatus, Dsl!MayPlace,
        Dsl!Places, Dsl!screenOnly, Dsl!Finish, Dsl!Placing, Dsl!loadHistory, Dsl!loadPreview, Dsl!ApplyRejected,
        Dsl!About, Dsl!ButtonsFree, Dsl!ContentShown, Dsl!DialogShown, Dsl!RunOperation, Dsl!InvalidShown,
        Dsl!currentPreview, Dsl!withReplaceConfirm, Dsl!SubmitShown, Dsl!HistoryShown, Dsl!DslPageFree,
        Dsl!StatusFailed, Dsl!Dropped, Dsl!MayAsk, Dsl!Reading, Dsl!PanelShows, Dsl!Cardinality, Part!DslNext,
        Part!DslGone, Part!DslUndisturbed, Part!NoHist, Part!NoPanel, Part!NoStatus, Part!NotAsked, Part!Applied,
        Part!ApplyChanged, Part!Discarded, Part!DownloadFailed, Part!DslChange, Part!DslOpFails, Part!HistoryAnswered,
        Part!OpInvalid, Part!OpMissesPreview, Part!OpMissesRevision, Part!OpenDsl, Part!PreviewFails,
        Part!PreviewPlaced, Part!PreviewRead, Part!ServePreview, Part!StatusFails, Part!StatusRead, Part!apply,
        Part!cancelDialog, Part!confirmDialog, Part!discardPreview, Part!downloadMissing, Part!generate,
        Part!handleSubmit, Part!restore, Part!retryHistory, Part!retryPreview, Part!retryStatus, Part!selectTab,
        Part!showLatest, Part!submit, Part!ClearedPanel, Part!ForgetPreviewReads, Part!HeardDone, Part!Takes,
        Part!loaded, Part!LoadStatus, Part!MayPlace, Part!Places, Part!screenOnly, Part!Finish, Part!Placing,
        Part!loadHistory, Part!loadPreview, Part!ApplyRejected, Part!About, Part!ButtonsFree, Part!ContentShown,
        Part!DialogShown, Part!RunOperation, Part!InvalidShown, Part!currentPreview, Part!withReplaceConfirm,
        Part!SubmitShown, Part!HistoryShown, Part!DslPageFree, Part!StatusFailed, Part!Dropped, Part!MayAsk,
        Part!Reading, Part!PanelShows, Part!Cardinality
  <1>3. ASSUME Part!DslTypeOK, Part!ShownFollows, Part!AppliesWhatItShowed
       PROVE  Dsl!DslTypeOK /\ Dsl!ShownFollows /\ Dsl!AppliesWhatItShowed
    BY <1>3 DEF
        Dsl!DslTypeOK, Dsl!DslOps, Dsl!LoadStates, Dsl!PreviewIds, Dsl!Wanted, Dsl!submit, Dsl!Placing, Dsl!apply,
        Dsl!loaded, Dsl!withReplaceConfirm, Dsl!generate, Dsl!restore, Dsl!About, Dsl!ButtonsFree, Dsl!ContentShown,
        Dsl!RunOperation, Dsl!currentPreview, Dsl!HistoryShown, Dsl!DslPageFree, Dsl!PanelShows, Dsl!ShownFollows,
        Dsl!AppliesWhatItShowed, Dsl!Cardinality, Part!DslTypeOK, Part!DslOps, Part!LoadStates, Part!PreviewIds,
        Part!Wanted, Part!submit, Part!Placing, Part!apply, Part!loaded, Part!withReplaceConfirm, Part!generate,
        Part!restore, Part!About, Part!ButtonsFree, Part!ContentShown, Part!RunOperation, Part!currentPreview,
        Part!HistoryShown, Part!DslPageFree, Part!PanelShows, Part!ShownFollows, Part!AppliesWhatItShowed,
        Part!Cardinality
  <1> QED
    BY <1>1, <1>2, <1>3

\* The menu of the work role (ShellMenu).
LEMMA MenuAsPart ==
  /\ Shell!MenuInit => Part!MenuInit
  /\ Shell!MenuNext => Part!MenuNext
  /\ Part!MenuTypeOK /\ Part!MenuFollowsSwitch /\ Part!NothingAfterLogout
     => Shell!MenuTypeOK /\ Shell!MenuFollowsSwitch /\ Shell!NothingAfterLogout
  <1>1. ASSUME Shell!MenuInit PROVE Part!MenuInit
    BY <1>1 DEF
        Shell!MenuInit, Shell!INITIAL, Shell!NoRequest, Shell!NoSwitch, Part!MenuInit, Part!INITIAL, Part!NoRequest,
        Part!NoSwitch
  <1>2. ASSUME Shell!MenuNext PROVE Part!MenuNext
    BY <1>2 DEF
        Shell!MenuNext, Shell!GuardAnswered, Shell!Login, Shell!Logout, Shell!MenuAnswered, Shell!OtherTabSwitches,
        Shell!RoleAnswered, Shell!ServeMenu, Shell!ServeRole, Shell!ServeSwitch, Shell!SwitchAnswered, Shell!Trigger,
        Shell!registerSwitchGuard, Shell!switchTo, Shell!NoSwitch, Shell!reloadMenu, Shell!reloadRole, Shell!INITIAL,
        Shell!Supersede, Shell!Loaded, Shell!MenuFailed, Shell!NoRequest, Shell!LOAD_ERROR, Shell!Served,
        Shell!FollowSwitch, Shell!Free, Shell!Loading, Shell!SendOn, Shell!Sent, Part!MenuNext, Part!GuardAnswered,
        Part!Login, Part!Logout, Part!MenuAnswered, Part!OtherTabSwitches, Part!RoleAnswered, Part!ServeMenu,
        Part!ServeRole, Part!ServeSwitch, Part!SwitchAnswered, Part!Trigger, Part!registerSwitchGuard, Part!switchTo,
        Part!NoSwitch, Part!reloadMenu, Part!reloadRole, Part!INITIAL, Part!Supersede, Part!Loaded, Part!MenuFailed,
        Part!NoRequest, Part!LOAD_ERROR, Part!Served, Part!FollowSwitch, Part!Free, Part!Loading, Part!SendOn,
        Part!Sent
  <1>3. ASSUME Part!MenuTypeOK, Part!MenuFollowsSwitch, Part!NothingAfterLogout
       PROVE  Shell!MenuTypeOK /\ Shell!MenuFollowsSwitch /\ Shell!NothingAfterLogout
    BY <1>3 DEF
        Shell!MenuTypeOK, Shell!Phases, Shell!MenuFollowsSwitch, Shell!NothingAfterLogout, Shell!INITIAL,
        Part!MenuTypeOK, Part!Phases, Part!MenuFollowsSwitch, Part!NothingAfterLogout, Part!INITIAL
  <1> QED
    BY <1>1, <1>2, <1>3

\* The order of the menu is the same (Before).
LEMMA SameOrder ==
  ASSUME NEW p, NEW q
  PROVE  /\ Shell!Before(p, q) <=> Part!Before(p, q)
         /\ Shell!IsPrefix(p, q) <=> Part!IsPrefix(p, q)
  BY DEF Shell!Before, Part!Before, Shell!IsPrefix, Part!IsPrefix, Shell!IsStrictPrefix, Part!IsStrictPrefix

\* So is what the server keeps of a menu (MenuFilter).
LEMMA SameMenus ==
  ASSUME NEW m, NEW seen
  PROVE  /\ Shell!filter(m, seen) = Part!filter(m, seen)
         /\ Shell!emptyReason(m, seen) = Part!emptyReason(m, seen)
         /\ Shell!Positions = Part!Positions
  BY DEF Shell!filter, Part!filter, Shell!emptyReason, Part!emptyReason, Shell!Positions, Part!Positions,
         Shell!IsPrefix, Part!IsPrefix

\* The sidebar (ShellMenu).
LEMMA SidebarAsPart ==
  /\ Shell!SidebarInit => Part!SidebarInit
  /\ Shell!SidebarNext => Part!SidebarNext
  /\ Part!SidebarTypeOK /\ Part!OpenGroupsAreShown /\ Part!EveryItemLeads /\ Part!EmptyMenuIsExplained
     => Shell!SidebarTypeOK /\ Shell!OpenGroupsAreShown /\ Shell!EveryItemLeads /\ Shell!EmptyMenuIsExplained
  /\ Part!OpenedItemIsCurrentStep => Shell!OpenedItemIsCurrentStep
  /\ Part!ReachedItemIsShownStep => Shell!ReachedItemIsShownStep
  /\ Part!UserChoicesStandStep => Shell!UserChoicesStandStep
  <1>1. ASSUME Shell!SidebarInit PROVE Part!SidebarInit
    BY <1>1 DEF Shell!SidebarInit, Shell!Home, Part!SidebarInit, Part!Home
  <1>2. ASSUME Shell!SidebarNext PROVE Part!SidebarNext
    <2>1. ASSUME Shell!MenuChanges PROVE Part!MenuChanges
      BY <2>1 DEF Shell!MenuChanges, Part!MenuChanges
    <2>2. ASSUME Shell!RoleSwitched PROVE Part!RoleSwitched
      BY <2>2 DEF
          Shell!RoleSwitched, Shell!Reads, Shell!Renders, Shell!addAncestors, Shell!businessIds,
          Shell!currentAncestorIds, Shell!items, Shell!pruneExpanded, Shell!navigable, Shell!findBusinessCurrent,
          Shell!status, Shell!FirstOf, Shell!Before, Shell!IsPrefix, Shell!IsStrictPrefix, Part!RoleSwitched,
          Part!Reads, Part!Renders, Part!addAncestors, Part!businessIds, Part!currentAncestorIds, Part!items,
          Part!pruneExpanded, Part!navigable, Part!findBusinessCurrent, Part!status, Part!FirstOf, Part!Before,
          Part!IsPrefix, Part!IsStrictPrefix
    <2>3. ASSUME Shell!SidebarLoaded PROVE Part!SidebarLoaded
      BY <2>3 DEF
          Shell!SidebarLoaded, Shell!Renders, Shell!emptyReason, Shell!filter, Shell!items, Shell!addAncestors,
          Shell!businessIds, Shell!currentAncestorIds, Shell!pruneExpanded, Shell!status, Shell!navigable,
          Shell!findBusinessCurrent, Shell!FirstOf, Shell!Before, Shell!IsPrefix, Shell!IsStrictPrefix,
          Part!SidebarLoaded, Part!Renders, Part!emptyReason, Part!filter, Part!items, Part!addAncestors,
          Part!businessIds, Part!currentAncestorIds, Part!pruneExpanded, Part!status, Part!navigable,
          Part!findBusinessCurrent, Part!FirstOf, Part!Before, Part!IsPrefix, Part!IsStrictPrefix
    <2>4. ASSUME Shell!LoadFails PROVE Part!LoadFails
      BY <2>4 DEF
          Shell!LoadFails, Shell!Renders, Shell!addAncestors, Shell!businessIds, Shell!currentAncestorIds,
          Shell!items, Shell!pruneExpanded, Shell!navigable, Shell!findBusinessCurrent, Shell!status, Shell!FirstOf,
          Shell!Before, Shell!IsPrefix, Shell!IsStrictPrefix, Part!LoadFails, Part!Renders, Part!addAncestors,
          Part!businessIds, Part!currentAncestorIds, Part!items, Part!pruneExpanded, Part!navigable,
          Part!findBusinessCurrent, Part!status, Part!FirstOf, Part!Before, Part!IsPrefix, Part!IsStrictPrefix
    <2>5. ASSUME NEW at, Shell!GoTo(at) PROVE Part!GoTo(at)
      BY <2>5 DEF
          Shell!GoTo, Shell!Home, Shell!Reads, Shell!Renders, Shell!addAncestors, Shell!businessIds,
          Shell!currentAncestorIds, Shell!items, Shell!pruneExpanded, Shell!navigable, Shell!findBusinessCurrent,
          Shell!status, Shell!FirstOf, Shell!Before, Shell!IsPrefix, Shell!IsStrictPrefix, Part!GoTo, Part!Home,
          Part!Reads, Part!Renders, Part!addAncestors, Part!businessIds, Part!currentAncestorIds, Part!items,
          Part!pruneExpanded, Part!navigable, Part!findBusinessCurrent, Part!status, Part!FirstOf, Part!Before,
          Part!IsPrefix, Part!IsStrictPrefix
    <2>6. ASSUME Shell!Visit PROVE Part!Visit
      BY <2>5, <2>6, SameMenus DEF
          Shell!Visit, Part!Visit, Shell!Home, Shell!OtherPage, Shell!AtTable, Part!Home, Part!OtherPage, Part!AtTable
    <2>7. ASSUME Shell!TabReloaded PROVE Part!TabReloaded
      BY <2>7 DEF Shell!TabReloaded, Part!TabReloaded
    <2>8. ASSUME Shell!LoggedOutAndIn PROVE Part!LoggedOutAndIn
      BY <2>8 DEF Shell!LoggedOutAndIn, Shell!Home, Part!LoggedOutAndIn, Part!Home
    <2>9. ASSUME NEW p, Shell!Press(p) PROVE Part!Press(p)
      BY <2>9 DEF
          Shell!Press, Shell!AtTable, Shell!GoTo, Shell!items, Shell!navigable, Shell!Home, Shell!Reads,
          Shell!Renders, Shell!status, Shell!addAncestors, Shell!businessIds, Shell!currentAncestorIds,
          Shell!pruneExpanded, Shell!findBusinessCurrent, Shell!FirstOf, Shell!Before, Shell!IsPrefix,
          Shell!IsStrictPrefix, Part!Press, Part!AtTable, Part!GoTo, Part!items, Part!navigable, Part!Home,
          Part!Reads, Part!Renders, Part!status, Part!addAncestors, Part!businessIds, Part!currentAncestorIds,
          Part!pruneExpanded, Part!findBusinessCurrent, Part!FirstOf, Part!Before, Part!IsPrefix, Part!IsStrictPrefix
    <2>10. ASSUME NEW p, Shell!OpenCard(p) PROVE Part!OpenCard(p)
      BY <2>10 DEF
          Shell!OpenCard, Shell!AtTable, Shell!GoTo, Shell!Home, Shell!cards, Shell!firstNavigable, Shell!items,
          Shell!Reads, Shell!Renders, Shell!FirstOf, Shell!navigable, Shell!status, Shell!addAncestors,
          Shell!businessIds, Shell!currentAncestorIds, Shell!pruneExpanded, Shell!Before, Shell!findBusinessCurrent,
          Shell!IsPrefix, Shell!IsStrictPrefix, Part!OpenCard, Part!AtTable, Part!GoTo, Part!Home, Part!cards,
          Part!firstNavigable, Part!items, Part!Reads, Part!Renders, Part!FirstOf, Part!navigable, Part!status,
          Part!addAncestors, Part!businessIds, Part!currentAncestorIds, Part!pruneExpanded, Part!Before,
          Part!findBusinessCurrent, Part!IsPrefix, Part!IsStrictPrefix
    <2>11. ASSUME NEW p, Shell!Toggle(p) PROVE Part!Toggle(p)
      BY <2>11 DEF
          Shell!Toggle, Shell!businessIds, Shell!items, Shell!navigable, Shell!status, Shell!IsPrefix,
          Shell!IsStrictPrefix, Part!Toggle, Part!businessIds, Part!items, Part!navigable, Part!status, Part!IsPrefix,
          Part!IsStrictPrefix
    <2> QED
      BY <1>2, <2>1, <2>2, <2>3, <2>4, <2>5, <2>6, <2>7, <2>8, <2>9, <2>10, <2>11, SameMenus DEF
          Shell!SidebarNext, Part!SidebarNext
  <1>3. ASSUME Part!SidebarTypeOK, Part!OpenGroupsAreShown, Part!EveryItemLeads, Part!EmptyMenuIsExplained
       PROVE  Shell!SidebarTypeOK /\ Shell!OpenGroupsAreShown /\ Shell!EveryItemLeads /\ Shell!EmptyMenuIsExplained
    BY <1>3 DEF
        Shell!SidebarTypeOK, Shell!Positions, Shell!currentAncestorIds, Shell!items, Shell!findBusinessCurrent,
        Shell!status, Shell!FirstOf, Shell!navigable, Shell!Before, Shell!OpenGroupsAreShown, Shell!EveryItemLeads,
        Shell!businessIds, Shell!EmptyMenuIsExplained, Shell!cards, Shell!homeNoticeKey, Shell!IsPrefix,
        Shell!IsStrictPrefix, Part!SidebarTypeOK, Part!Positions, Part!currentAncestorIds, Part!items,
        Part!findBusinessCurrent, Part!status, Part!FirstOf, Part!navigable, Part!Before, Part!OpenGroupsAreShown,
        Part!EveryItemLeads, Part!businessIds, Part!EmptyMenuIsExplained, Part!cards, Part!homeNoticeKey,
        Part!IsPrefix, Part!IsStrictPrefix
  <1>4. ASSUME Part!OpenedItemIsCurrentStep PROVE Shell!OpenedItemIsCurrentStep
    BY <1>4 DEF
        Shell!OpenedItemIsCurrentStep, Shell!OpenCard, Shell!Positions, Shell!Press, Shell!currentAncestorIds,
        Shell!findBusinessCurrent, Shell!items, Shell!AtTable, Shell!GoTo, Shell!Home, Shell!cards,
        Shell!firstNavigable, Shell!navigable, Shell!FirstOf, Shell!status, Shell!Reads, Shell!Renders, Shell!Before,
        Shell!addAncestors, Shell!businessIds, Shell!pruneExpanded, Shell!IsPrefix, Shell!IsStrictPrefix,
        Part!OpenedItemIsCurrentStep, Part!OpenCard, Part!Positions, Part!Press, Part!currentAncestorIds,
        Part!findBusinessCurrent, Part!items, Part!AtTable, Part!GoTo, Part!Home, Part!cards, Part!firstNavigable,
        Part!navigable, Part!FirstOf, Part!status, Part!Reads, Part!Renders, Part!Before, Part!addAncestors,
        Part!businessIds, Part!pruneExpanded, Part!IsPrefix, Part!IsStrictPrefix
  <1>5. ASSUME Part!ReachedItemIsShownStep PROVE Shell!ReachedItemIsShownStep
    BY <1>5 DEF
        Shell!ReachedItemIsShownStep, Shell!currentAncestorIds, Shell!items, Shell!findBusinessCurrent, Shell!status,
        Shell!FirstOf, Shell!navigable, Shell!Before, Shell!IsPrefix, Shell!IsStrictPrefix,
        Part!ReachedItemIsShownStep, Part!currentAncestorIds, Part!items, Part!findBusinessCurrent, Part!status,
        Part!FirstOf, Part!navigable, Part!Before, Part!IsPrefix, Part!IsStrictPrefix
  <1>6. ASSUME Part!UserChoicesStandStep PROVE Shell!UserChoicesStandStep
    BY <1>6 DEF
        Shell!UserChoicesStandStep, Shell!LoggedOutAndIn, Shell!Positions, Shell!Toggle, Shell!items, Shell!Home,
        Shell!businessIds, Shell!status, Shell!navigable, Shell!IsPrefix, Shell!IsStrictPrefix,
        Part!UserChoicesStandStep, Part!LoggedOutAndIn, Part!Positions, Part!Toggle, Part!items, Part!Home,
        Part!businessIds, Part!status, Part!navigable, Part!IsPrefix, Part!IsStrictPrefix
  <1> QED
    BY <1>1, <1>2, <1>3, <1>4, <1>5, <1>6

\* The own permissions (MyPermissions).
LEMMA OwnAsPart ==
  /\ Own!MyInit => Part!MyInit
  /\ Own!MyNext => Part!MyNext
  /\ Part!MyTypeOK /\ Part!LoadingIsAwaited /\ Part!OneRoleIsShown
     => Own!MyTypeOK /\ Own!LoadingIsAwaited /\ Own!OneRoleIsShown
  <1>1. ASSUME Own!MyInit PROVE Part!MyInit
    BY <1>1 DEF
        Own!MyInit, Own!FirstKey, Own!NoData, Own!NoKey, Own!NotLoaded, Part!MyInit, Part!FirstKey, Part!NoData,
        Part!NoKey, Part!NotLoaded
  <1>2. ASSUME Own!MyNext PROVE Part!MyNext
    BY <1>2 DEF
        Own!MyNext, Own!ChildrenRead, Own!MyColumnsRead, Own!MyLanguageChanges, Own!MySchemasFail, Own!MySchemasRead,
        Own!MySwitchAnswered, Own!RoleReread, Own!RoleRereadFails, Own!RoleSettles, Own!SwitchLost,
        Own!SwitchRejected, Own!SwitchServed, Own!SwitchTo, Own!retryChildren, Own!retryMine, Own!selectSchema,
        Own!selectTable, Own!toggle, Own!Answers, Own!NotLoaded, Own!NoData, Own!NewKey, Own!Rendered, Own!MyReading,
        Own!Opened, Own!TreeShown, Own!View, Own!Superseded, Own!Tree, Own!Pending, Part!MyNext, Part!ChildrenRead,
        Part!MyColumnsRead, Part!MyLanguageChanges, Part!MySchemasFail, Part!MySchemasRead, Part!MySwitchAnswered,
        Part!RoleReread, Part!RoleRereadFails, Part!RoleSettles, Part!SwitchLost, Part!SwitchRejected,
        Part!SwitchServed, Part!SwitchTo, Part!retryChildren, Part!retryMine, Part!selectSchema, Part!selectTable,
        Part!toggle, Part!Answers, Part!NotLoaded, Part!NoData, Part!NewKey, Part!Rendered, Part!MyReading,
        Part!Opened, Part!TreeShown, Part!View, Part!Superseded, Part!Tree, Part!Pending
  <1>3. ASSUME Part!MyTypeOK, Part!LoadingIsAwaited, Part!OneRoleIsShown
       PROVE  Own!MyTypeOK /\ Own!LoadingIsAwaited /\ Own!OneRoleIsShown
    BY <1>3 DEF
        Own!MyTypeOK, Own!Data, Own!Keys, Own!NoData, Own!TreeShown, Own!Versions, Own!View, Own!Pending,
        Own!LoadingIsAwaited, Own!MyWanted, Own!columnsState, Own!selected, Own!OneRoleIsShown, Part!MyTypeOK,
        Part!Data, Part!Keys, Part!NoData, Part!TreeShown, Part!Versions, Part!View, Part!Pending,
        Part!LoadingIsAwaited, Part!MyWanted, Part!columnsState, Part!selected, Part!OneRoleIsShown
  <1> QED
    BY <1>1, <1>2, <1>3

-----------------------------------------------------------------------------
(***************************************************************************)
(* All screens.  One of them is shown; its invariant is that of            *)
(* RequestInvariants or PartInvariants, and the others are at rest.        *)
(***************************************************************************)
UsersFit == screen = "users" => Page!UserInv
NamesFit == screen = "names" => Page!NamedInv
GroupFits == screen = "group" => Page!GrpInv
RoleFits == screen = "role" => Page!RolePageInv
PermissionsFit == screen = "permissions" => Page!PermInv
AssignmentsFit == screen = "assignments" => Page!AsgInv
InvitationsFit == screen = "invitations" => Page!InvInv
DslFits == screen = "dsl" => Part!DslInv
SettingsFit == screen = "preferences" => Page!PrefInv
FormFits == screen = "form" => Page!FormInv
SetupFits == screen = "setup" => Page!SetupInv
MenuFits == screen = "menu" => Part!MenuInv
SidebarFits == screen = "sidebar" => Part!SideInv
OwnFits == screen = "own" => Part!MyInv

ScreensInv ==
  /\ TransferInv
  /\ UsersFit /\ NamesFit /\ GroupFits /\ RoleFits /\ PermissionsFit
  /\ AssignmentsFit /\ InvitationsFit /\ DslFits /\ SettingsFit /\ FormFits
  /\ SetupFits /\ MenuFits /\ SidebarFits /\ OwnFits

\* The bounds of the run, as the two instances assume them.
LEMMA Bounds ==
  /\ Page!RequestsAssumption /\ Page!RolePageAssumption /\ Page!PreferencesAssumption /\ Page!FormGuardAssumption
  /\ Part!RequestsAssumption /\ Part!DslScreenAssumption /\ Part!MyPermissionsAssumption /\ Part!WorkRoleAssumption
  /\ Part!SidebarAssumption /\ Part!OrderAssumption
  <1>1. Page!RequestsAssumption
    BY AdministrationAssumption DEF Users!RequestsAssumption, Page!RequestsAssumption
  <1>2. Page!RolePageAssumption
    BY AdministrationAssumption DEF Role!RolePageAssumption, Page!RolePageAssumption
  <1>3. Page!PreferencesAssumption
    BY OwnPagesAssumption DEF Settings!PreferencesAssumption, Page!PreferencesAssumption
  <1>4. Page!FormGuardAssumption
    BY OwnPagesAssumption DEF Form!FormGuardAssumption, Page!FormGuardAssumption
  <1>5. Part!DslScreenAssumption
    BY AdministrationAssumption DEF Dsl!DslScreenAssumption, Part!DslScreenAssumption
  <1>6. Part!MyPermissionsAssumption
    BY OwnPagesAssumption DEF Own!MyPermissionsAssumption, Part!MyPermissionsAssumption
  <1>7. Part!WorkRoleAssumption
    BY ShellAssumption DEF Shell!WorkRoleAssumption, Part!WorkRoleAssumption
  <1>8. Part!SidebarAssumption
    BY ShellAssumption DEF Shell!SidebarAssumption, Shell!Positions, Part!SidebarAssumption, Part!Positions
  <1>9. Part!RequestsAssumption
    BY AdministrationAssumption DEF Users!RequestsAssumption, Part!RequestsAssumption
  <1>10. \A S \in (SUBSET Part!Positions) \ {{}} : \E p \in S : \A q \in S \ {p} : Part!Before(p, q)
    BY ShellAssumption, SameOrder, SameMenus DEF Shell!OrderAssumption
  <1>11. \A m \in Menus, seen \in SUBSET MenuTables :
         NoItem # [items |-> Part!filter(m, seen), reason |-> Part!emptyReason(m, seen)]
    BY ShellAssumption, SameMenus DEF Shell!OrderAssumption
  <1>12. Part!OrderAssumption
    BY <1>10, <1>11, ShellAssumption DEF Shell!OrderAssumption, Part!OrderAssumption
  <1> QED
    BY <1>1, <1>2, <1>3, <1>4, <1>5, <1>6, <1>7, <1>8, <1>9, <1>12

\* Whichever screen is shown first, its invariant holds.
LEMMA ScreensStart == Init => ScreensInv
  <1> SUFFICES ASSUME Init PROVE ScreensInv
    OBVIOUS
  <1>1. TransferInv
    BY AtFirst DEF Init
  <1>2. UsersFit
    BY UsersAsPage, Bounds, Page!UserStart DEF Init, UsersFit
  <1>3. NamesFit
    BY NamesAsPage, Bounds, Page!NamedStart DEF Init, NamesFit
  <1>4. GroupFits
    BY GroupAsPage, Bounds, Page!GrpStart DEF Init, GroupFits
  <1>5. RoleFits
    BY RoleAsPage, Bounds, Page!RolePageStart DEF Init, RoleFits
  <1>6. PermissionsFit
    BY PermissionsAsPage, Bounds, Page!PermStart DEF Init, PermissionsFit
  <1>7. AssignmentsFit
    BY AssignmentsAsPage, Bounds, Page!AsgStart DEF Init, AssignmentsFit
  <1>8. InvitationsFit
    BY InvitationsAsPage, Bounds, Page!InvStart DEF Init, InvitationsFit
  <1>9. DslFits
    BY DslAsPart, Bounds, Part!DslStart DEF Init, DslFits
  <1>10. SettingsFit
    BY SettingsAsPage, Bounds, Page!PrefStart DEF Init, SettingsFit
  <1>11. FormFits
    BY FormAsPage, Bounds, Page!FormStart DEF Init, FormFits
  <1>12. SetupFits
    BY SetupAsPage, Bounds, Page!SetupStart DEF Init, SetupFits
  <1>13. MenuFits
    BY MenuAsPart, Bounds, Part!MenuStart DEF Init, MenuFits
  <1>14. SidebarFits
    BY SidebarAsPart, Bounds, Part!SideStart DEF Init, SidebarFits
  <1>15. OwnFits
    BY OwnAsPart, Bounds, Part!MyStart DEF Init, OwnFits
  <1> QED
    BY <1>1, <1>2, <1>3, <1>4, <1>5, <1>6, <1>7, <1>8, <1>9, <1>10, <1>11, <1>12, <1>13, <1>14, <1>15 DEF
        ScreensInv

\* While one screen moves, nothing is asked of those that are not shown.
LEMMA OneScreenMoves ==
  ASSUME ScreensInv, UNCHANGED <<screen, transferVars>>,
         screen = "users" => (Page!UserInv)',
         screen = "names" => (Page!NamedInv)',
         screen = "group" => (Page!GrpInv)',
         screen = "role" => (Page!RolePageInv)',
         screen = "permissions" => (Page!PermInv)',
         screen = "assignments" => (Page!AsgInv)',
         screen = "invitations" => (Page!InvInv)',
         screen = "dsl" => (Part!DslInv)',
         screen = "preferences" => (Page!PrefInv)',
         screen = "form" => (Page!FormInv)',
         screen = "setup" => (Page!SetupInv)',
         screen = "menu" => (Part!MenuInv)',
         screen = "sidebar" => (Part!SideInv)',
         screen = "own" => (Part!MyInv)'
  PROVE  ScreensInv'
  <1>1. TransferInv'
    BY StepsKeepIt DEF ScreensInv
  <1>2. UsersFit'
    BY DEF UsersFit
  <1>3. NamesFit'
    BY DEF NamesFit
  <1>4. GroupFits'
    BY DEF GroupFits
  <1>5. RoleFits'
    BY DEF RoleFits
  <1>6. PermissionsFit'
    BY DEF PermissionsFit
  <1>7. AssignmentsFit'
    BY DEF AssignmentsFit
  <1>8. InvitationsFit'
    BY DEF InvitationsFit
  <1>9. DslFits'
    BY DEF DslFits
  <1>10. SettingsFit'
    BY DEF SettingsFit
  <1>11. FormFits'
    BY DEF FormFits
  <1>12. SetupFits'
    BY DEF SetupFits
  <1>13. MenuFits'
    BY DEF MenuFits
  <1>14. SidebarFits'
    BY DEF SidebarFits
  <1>15. OwnFits'
    BY DEF OwnFits
  <1> QED
    BY <1>1, <1>2, <1>3, <1>4, <1>5, <1>6, <1>7, <1>8, <1>9, <1>10, <1>11, <1>12, <1>13, <1>14, <1>15 DEF
        ScreensInv

\* A step of a screen that is shown keeps its invariant.
LEMMA ScreenMoves ==
  ASSUME ScreensInv, OtherScreens, UNCHANGED transferVars
  PROVE  ScreensInv'
  <1>1. CASE screen = "users" /\ Users!UserNext /\ screen' = screen
    <2>1. (Page!UserInv)'
      BY <1>1, Bounds, UsersAsPage, Page!UserStep DEF ScreensInv, UsersFit
    <2> QED
      BY <1>1, <2>1, OneScreenMoves
  <1>2. CASE screen = "names" /\ Groups!NamedNext /\ screen' = screen
    <2>1. (Page!NamedInv)'
      BY <1>2, Bounds, NamesAsPage, Page!NamedStep DEF ScreensInv, NamesFit
    <2> QED
      BY <1>2, <2>1, OneScreenMoves
  <1>3. CASE screen = "group" /\ Groups!GrpNext /\ screen' = screen
    <2>1. (Page!GrpInv)'
      BY <1>3, Bounds, GroupAsPage, Page!GrpStep DEF ScreensInv, GroupFits
    <2> QED
      BY <1>3, <2>1, OneScreenMoves
  <1>4. CASE screen = "role" /\ Role!RolePageNext /\ screen' = screen
    <2>1. (Page!RolePageInv)'
      BY <1>4, Bounds, RoleAsPage, Page!RolePageStep DEF ScreensInv, RoleFits
    <2> QED
      BY <1>4, <2>1, OneScreenMoves
  <1>5. CASE screen = "permissions" /\ Role!PermNext /\ screen' = screen
    <2>1. (Page!PermInv)'
      BY <1>5, Bounds, PermissionsAsPage, Page!PermStep DEF ScreensInv, PermissionsFit
    <2> QED
      BY <1>5, <2>1, OneScreenMoves
  <1>6. CASE screen = "assignments" /\ Role!AsgNext /\ screen' = screen
    <2>1. (Page!AsgInv)'
      BY <1>6, Bounds, AssignmentsAsPage, Page!AsgStep DEF ScreensInv, AssignmentsFit
    <2> QED
      BY <1>6, <2>1, OneScreenMoves
  <1>7. CASE screen = "invitations" /\ Invited!InvNext /\ screen' = screen
    <2>1. (Page!InvInv)'
      BY <1>7, Bounds, InvitationsAsPage, Page!InvStep DEF ScreensInv, InvitationsFit
    <2> QED
      BY <1>7, <2>1, OneScreenMoves
  <1>8. CASE screen = "dsl" /\ Dsl!DslNext /\ screen' = screen
    <2>1. (Part!DslInv)'
      BY <1>8, Bounds, DslAsPart, Part!DslStep DEF ScreensInv, DslFits
    <2> QED
      BY <1>8, <2>1, OneScreenMoves
  <1>9. CASE screen = "preferences" /\ Settings!PreferencesNext /\ screen' = screen
    <2>1. (Page!PrefInv)'
      BY <1>9, Bounds, SettingsAsPage, Page!PrefStep DEF ScreensInv, SettingsFit
    <2> QED
      BY <1>9, <2>1, OneScreenMoves
  <1>10. CASE screen = "form" /\ Form!FormGuardNext /\ screen' = screen
    <2>1. (Page!FormInv)'
      BY <1>10, Bounds, FormAsPage, Page!FormStep DEF ScreensInv, FormFits
    <2> QED
      BY <1>10, <2>1, OneScreenMoves
  <1>11. CASE screen = "setup" /\ Form!SetupNext /\ screen' = screen
    <2>1. (Page!SetupInv)'
      BY <1>11, Bounds, SetupAsPage, Page!SetupStep DEF ScreensInv, SetupFits
    <2> QED
      BY <1>11, <2>1, OneScreenMoves
  <1>12. CASE screen = "menu" /\ Shell!MenuNext /\ screen' = screen
    <2>1. (Part!MenuInv)'
      BY <1>12, Bounds, MenuAsPart, Part!MenuStep DEF ScreensInv, MenuFits
    <2> QED
      BY <1>12, <2>1, OneScreenMoves
  <1>13. CASE screen = "sidebar" /\ Shell!SidebarNext /\ screen' = screen
    <2>1. (Part!SideInv)'
      BY <1>13, Bounds, SidebarAsPart, Part!SideStep DEF ScreensInv, SidebarFits
    <2> QED
      BY <1>13, <2>1, OneScreenMoves
  <1>14. CASE screen = "own" /\ Own!MyNext /\ screen' = screen
    <2>1. (Part!MyInv)'
      BY <1>14, Bounds, OwnAsPart, Part!MyStep DEF ScreensInv, OwnFits
    <2> QED
      BY <1>14, <2>1, OneScreenMoves
  <1> QED
    BY <1>1, <1>2, <1>3, <1>4, <1>5, <1>6, <1>7, <1>8, <1>9, <1>10, <1>11, <1>12, <1>13, <1>14 DEF
        OtherScreens

\* So does nothing moving at all, and the screen of the transfer.
LEMMA ScreensRest ==
  ASSUME ScreensInv, UNCHANGED <<screen, Resting>>, [TransferNext]_transferVars
  PROVE  ScreensInv'
  <1>1. TransferInv'
    BY StepsKeepIt DEF ScreensInv
  <1>2. UsersFit'
    BY Page!UserRests DEF ScreensInv, UsersFit, Resting, Page!userVars
  <1>3. NamesFit'
    BY Page!NamedRests DEF ScreensInv, NamesFit, Resting, Page!namedVars
  <1>4. GroupFits'
    BY Page!GrpRests DEF ScreensInv, GroupFits, Resting, Page!grpVars
  <1>5. RoleFits'
    BY Page!RolePageRests DEF ScreensInv, RoleFits, Resting, Page!rolePageVars
  <1>6. PermissionsFit'
    BY Page!PermRests DEF ScreensInv, PermissionsFit, Resting, Page!permVars
  <1>7. AssignmentsFit'
    BY Page!AsgRests DEF ScreensInv, AssignmentsFit, Resting, Page!asgVars
  <1>8. InvitationsFit'
    BY Page!InvRests DEF ScreensInv, InvitationsFit, Resting, Page!invVars
  <1>9. DslFits'
    BY Part!DslRests DEF ScreensInv, DslFits, Resting, Part!dslVars
  <1>10. SettingsFit'
    BY Page!PrefRests DEF ScreensInv, SettingsFit, Resting, Page!prefVars
  <1>11. FormFits'
    BY Page!FormRests DEF ScreensInv, FormFits, Resting, Page!guardVars
  <1>12. SetupFits'
    BY Page!SetupRests DEF ScreensInv, SetupFits, Resting, Page!setupVars
  <1>13. MenuFits'
    BY Part!MenuRests DEF ScreensInv, MenuFits, Resting, Part!menuVars
  <1>14. SidebarFits'
    BY Part!SideRests DEF ScreensInv, SidebarFits, Resting, Part!sidebarVars
  <1>15. OwnFits'
    BY Part!MyRests DEF ScreensInv, OwnFits, Resting, Part!myVars
  <1> QED
    BY <1>1, <1>2, <1>3, <1>4, <1>5, <1>6, <1>7, <1>8, <1>9, <1>10, <1>11, <1>12, <1>13, <1>14, <1>15 DEF
        ScreensInv

LEMMA ScreensStep == ScreensInv /\ [Next]_vars => ScreensInv'
  <1> SUFFICES ASSUME ScreensInv, [Next]_vars PROVE ScreensInv'
    OBVIOUS
  <1>1. CASE OtherScreens /\ UNCHANGED transferVars
    BY <1>1, ScreenMoves
  <1>2. CASE TransferNext /\ UNCHANGED <<screen, Resting>>
    BY <1>2, ScreensRest
  <1>3. CASE UNCHANGED vars
    <2>1. UNCHANGED <<screen, Resting>> /\ UNCHANGED transferVars
      BY <1>3 DEF vars, Resting
    <2> QED
      BY <2>1, ScreensRest
  <1> QED
    BY <1>1, <1>2, <1>3 DEF Next

-----------------------------------------------------------------------------
(***************************************************************************)
(* What the screens show.                                                  *)
(***************************************************************************)
\* What the invariants say of the screen that is shown.
LEMMA ScreensShow ==
  ASSUME ScreensInv
  PROVE  ScreensTypeOK /\ ShownIsCurrent /\ AnswersAreOfTheLastQuestion
  <1>1. screen = "users" => Users!UserTypeOK /\ Users!ListFollowsOwnOps /\ Users!ShownIsAsked
    BY UsersAsPage, Page!UserShows DEF ScreensInv, UsersFit
  <1>2. screen = "names" => Groups!NamedTypeOK /\ Groups!ActsOnOwnChanges /\ Groups!NamedPageIsAsked
    BY NamesAsPage, Page!NamedShows DEF ScreensInv, NamesFit
  <1>3. screen = "group" => Groups!GrpTypeOK /\ Groups!GroupFollowsOwnOps
    BY GroupAsPage, Page!GrpShows DEF ScreensInv, GroupFits
  <1>4. screen = "role" => Role!RolePageTypeOK /\ Role!ReadyIsOfTheAddress
    BY RoleAsPage, Page!RolePageShows DEF ScreensInv, RoleFits
  <1>5. screen = "permissions" => Role!PermTypeOK /\ Role!ColumnsFollow /\ Role!SaveMatchesSelection
    BY PermissionsAsPage, Page!PermShows DEF ScreensInv, PermissionsFit
  <1>6. screen = "assignments" => Role!AsgTypeOK /\ Role!AsgFollows /\ Role!ResultsAreLast
    BY AssignmentsAsPage, Page!AsgShows DEF ScreensInv, AssignmentsFit
  <1>7. screen = "invitations" => Invited!InvTypeOK /\ Invited!InvRowsFollow /\ Invited!NoCrossing
    BY InvitationsAsPage, Page!InvShows DEF ScreensInv, InvitationsFit
  <1>8. screen = "dsl" => Dsl!DslTypeOK /\ Dsl!ShownFollows /\ Dsl!AppliesWhatItShowed
    BY DslAsPart, Part!DslShows DEF ScreensInv, DslFits
  <1>9. screen = "preferences" => Settings!PreferencesTypeOK /\ Settings!ScreenShowsOwnSave /\ Settings!PreviewEndsWithPage
    BY SettingsAsPage, Page!PrefShows DEF ScreensInv, SettingsFit
  <1>10. screen = "form" => Form!FormGuardTypeOK /\ Form!SlowMeansSending /\ Form!MarkIsRecent
    BY FormAsPage, Page!FormShows, Bounds DEF ScreensInv, FormFits
  <1>11. screen = "setup" => Form!SetupTypeOK /\ Form!HandoffMeansRegistered
    BY SetupAsPage, Page!SetupShows DEF ScreensInv, SetupFits
  <1>12. screen = "menu" => Shell!MenuTypeOK /\ Shell!MenuFollowsSwitch /\ Shell!NothingAfterLogout
    BY MenuAsPart, Part!MenuShows DEF ScreensInv, MenuFits
  <1>13. screen = "sidebar" => Shell!SidebarTypeOK /\ Shell!OpenGroupsAreShown /\ Shell!EveryItemLeads /\ Shell!EmptyMenuIsExplained
    BY SidebarAsPart, Part!SideShows, Bounds DEF ScreensInv, SidebarFits
  <1>14. screen = "own" => Own!MyTypeOK /\ Own!LoadingIsAwaited /\ Own!OneRoleIsShown
    BY OwnAsPart, Part!MyShows, Bounds DEF ScreensInv, OwnFits
  <1>15. TransferTypeOK
    BY DEF ScreensInv, TransferInv
  <1>16. ScreensTypeOK
    BY <1>1, <1>2, <1>3, <1>4, <1>5, <1>6, <1>7, <1>8, <1>9, <1>10, <1>11, <1>12, <1>13, <1>14, <1>15 DEF
        ScreensTypeOK
  <1>17. ShownIsCurrent
    BY <1>1, <1>2, <1>3, <1>4, <1>5, <1>6, <1>7, <1>8, <1>9, <1>10, <1>11, <1>12, <1>13, <1>14 DEF
        ShownIsCurrent
  <1>18. AnswersAreOfTheLastQuestion
    BY <1>1, <1>2, <1>3, <1>4, <1>5, <1>6, <1>7, <1>8, <1>9, <1>10, <1>11, <1>12, <1>13, <1>14 DEF
        AnswersAreOfTheLastQuestion
  <1> QED
    BY <1>16, <1>17, <1>18

\* Whatever is asked for and whatever crosses, every screen has its types, with the ties between what it shows, its calls in
\* flight and its dialogs (the hooks of the screens).
THEOREM ScreenTypesHold == Spec => []ScreensTypeOK
  <1>1. ScreensInv => ScreensTypeOK
    BY ScreensShow
  <1> QED
    BY <1>1, ScreensStart, ScreensStep, PTL DEF Spec

\* However many changes the server sees, however many requests are in flight and in whatever order they are answered, a screen
\* does not show less than its tab heard done (the hooks of the screens, DisplaySettingsProvider, BusinessNavigationProvider).
THEOREM ShownStaysCurrent == Spec => []ShownIsCurrent
  <1>1. ScreensInv => ShownIsCurrent
    BY ScreensShow
  <1> QED
    BY <1>1, ScreensStart, ScreensStep, PTL DEF Spec

\* So are the answers of the last question: what is shown together belongs together, and what is sent is about what is shown
\* (the hooks of the screens, useSlowNotice, logoutIntent, useMyPermissions).
THEOREM AnswersMatchQuestions == Spec => []AnswersAreOfTheLastQuestion
  <1>1. ScreensInv => AnswersAreOfTheLastQuestion
    BY ScreensShow
  <1> QED
    BY <1>1, ScreensStart, ScreensStep, PTL DEF Spec

-----------------------------------------------------------------------------
(***************************************************************************)
(* What a step may not do.                                                 *)
(***************************************************************************)
KeepsInput ==
  /\ screen = "preferences" => Settings!EditsSurviveStep
  /\ screen = "form" => Form!NoSilentLossStep
  /\ screen = "setup" => Form!TypedSurvivesStep
FollowsThePage ==
  screen = "sidebar" => Shell!OpenedItemIsCurrentStep /\ Shell!ReachedItemIsShownStep /\ Shell!UserChoicesStandStep

\* A step of a screen with input keeps what was typed.
LEMMA StepsKeepInput ==
  ASSUME ScreensInv, Next
  PROVE  KeepsInput
  <1>1. CASE screen = "transfer"
    BY <1>1 DEF KeepsInput
  <1>2. CASE OtherScreens
    <2>1. screen = "preferences" => Page!PreferencesNext
      BY <1>2, SettingsAsPage DEF OtherScreens
    <2>2. screen = "preferences" => Settings!EditsSurviveStep
      BY <2>1, SettingsAsPage, Page!PrefKeeps DEF ScreensInv, SettingsFit
    <2>3. screen = "form" => Page!FormGuardNext
      BY <1>2, FormAsPage DEF OtherScreens
    <2>4. screen = "form" => Form!NoSilentLossStep
      BY <2>3, Bounds, FormAsPage, Page!FormStep DEF ScreensInv, FormFits
    <2>5. screen = "setup" => Page!SetupNext
      BY <1>2, SetupAsPage DEF OtherScreens
    <2>6. screen = "setup" => Form!TypedSurvivesStep
      BY <2>5, Bounds, SetupAsPage, Page!SetupStep DEF ScreensInv, SetupFits
    <2> QED
      BY <2>2, <2>4, <2>6 DEF KeepsInput
  <1> QED
    BY <1>1, <1>2 DEF Next

\* What was typed goes by a move the user was asked about, or with what was saved, and by no late answer
\* (usePreferencesForm, useUnsavedGuard, useRegistration, usePasswordChange).
THEOREM InputStays == Spec => InputIsNotLost
  <1>1. ScreensInv /\ [Next]_vars => [KeepsInput]_vars
    BY StepsKeepInput
  <1> QED
    BY <1>1, ScreensStart, ScreensStep, PTL DEF Spec, InputIsNotLost, KeepsInput

\* A step of the sidebar follows the page, and leaves the groups to the user.
LEMMA StepsFollowThePage ==
  ASSUME ScreensInv, Next
  PROVE  FollowsThePage
  <1> SUFFICES ASSUME screen = "sidebar"
               PROVE  Shell!OpenedItemIsCurrentStep /\ Shell!ReachedItemIsShownStep /\ Shell!UserChoicesStandStep
    BY DEF FollowsThePage
  <1>1. Part!SidebarNext
    BY SidebarAsPart DEF Next, OtherScreens
  <1>2. Part!SideInv
    BY DEF ScreensInv, SidebarFits
  <1> QED
    BY <1>1, <1>2, Bounds, SidebarAsPart, Part!OpenedIsCurrent, Part!ReachedIsShown, Part!ChoicesStand

\* Whatever the menus, the item a page was opened by is the current one with its groups open, and a group opens and closes by
\* the user, a new page or a new menu only (ShellLayout, navExpansion).
THEOREM SidebarFollows == Spec => SidebarShowsThePage
  <1>1. ScreensInv /\ [Next]_vars => [FollowsThePage]_vars
    BY StepsFollowThePage
  <1> QED
    BY <1>1, ScreensStart, ScreensStep, PTL DEF Spec, SidebarShowsThePage, FollowsThePage
===============================================================================
