---------------------------- MODULE DslLifecycle ----------------------------
(***************************************************************************)
(* Package dslmanage: how an administrator's DSL becomes the one that      *)
(* runs.  A text is placed as the preview, looked at, and applied; what    *)
(* was applied is kept in a history, and the newest of it is loaded again  *)
(* at the next start.                                                      *)
(*                                                                         *)
(*   submit, restore   placing -> caching                                  *)
(*   show              reading -> caching                                  *)
(*   discard           discarding -> clearing                              *)
(*   apply             checking -> finding -> copying -> deleting          *)
(*                       -> replacing -> reporting                         *)
(*                                                                         *)
(* The database commits in one of these steps only (placing, discarding,   *)
(* deleting); the model that runs and the cache are memory, changed in     *)
(* later steps.  At most one of submit, restore and show runs at a time    *)
(* (DslHeavyOperationGate), beside any number of discards and applies.     *)
(* A text is known by the number of the preview it was first placed as.    *)
(***************************************************************************)
EXTENDS Integers, Sequences, FiniteSets

CONSTANTS
  Reqs,          \* concurrent requests to /api/admin/dsl
  Appliers,      \* those of them that may be applications
  NoReq,         \* nobody has the permit
  Texts,         \* DSL bodies
  Builds,        \* builds of the application: what each makes of a body
  HistoryLimit,  \* mastersmith.dsl.history-limit
  MaxPlaced,     \* bound: previews that can be placed
  MaxNow         \* bound: the Clock stops there

ASSUME ReqsAssumption == Appliers \subseteq Reqs /\ NoReq \notin Reqs
ASSUME BuildsAssumption == Builds \subseteq [Texts -> {"valid", "tooDeep", "invalid"}]
ASSUME LimitsAssumption == HistoryLimit \in Nat \ {0} /\ MaxPlaced \in Nat /\ MaxNow \in Nat

VARIABLES
  preview,     \* dsl_previews: the preview in its one row, or 0
  revisions,   \* dsl_applied_revisions: its rows
  bodies,      \* the bodies placed so far, by number
  now,         \* the injected Clock
  up,          \* the application serves requests
  build,       \* the build that runs
  active,      \* ActiveDslModelStore: whose model it holds, or 0
  cache,       \* DslPreviewCache: an identifier and the model kept for it
  unreadable,  \* UnreadableAppliedRevision: the revision the start could not read
  permit,      \* who holds the permit of DslHeavyOperationGate
  pc, seen, body, model, at,   \* locals of each request
  applied,     \* history: the previews applied, in the order of their commits
  reported     \* history: the previews a DSL_APPLIED event was published for

tables == <<preview, revisions, bodies, applied>>
memory == <<active, cache, unreadable>>
locals == <<pc, seen, body, model, at>>
vars == <<tables, memory, locals, now, up, build, permit, reported>>

placed == Len(bodies)
Ids == 1..placed
Revision == [seq : Nat \ {0}, preview : Nat \ {0}, at : Nat]
Empty == [key |-> 0, model |-> 0]

\* DslReader.read and readAtStartup, which lets a menu be too deep.
Reads(id) == build[bodies[id]] = "valid"
ReadsAtStartup(b, id) == b[bodies[id]] # "invalid"

PCs == {"idle", "placing", "reading", "caching", "discarding", "checking",
        "finding", "copying", "deleting", "replacing", "reporting", "clearing"}

TypeOK ==
  /\ bodies \in Seq(Texts)
  /\ preview \in Ids \cup {0}
  /\ revisions \subseteq Revision
  /\ \A v \in revisions : v.preview \in Ids
  /\ now \in Nat
  /\ up \in BOOLEAN
  /\ build \in Builds
  /\ active \in Ids \cup {0}
  /\ cache \in [key : Ids \cup {0}, model : Ids \cup {0}]
  /\ unreadable \in Nat
  /\ permit \in Reqs \cup {NoReq}
  /\ pc \in [Reqs -> PCs]
  /\ seen \in [Reqs -> Ids \cup {0}]
  /\ body \in [Reqs -> Texts \cup {""}]
  /\ model \in [Reqs -> Ids \cup {0}]
  /\ at \in [Reqs -> Nat]
  /\ applied \in Seq(Ids)
  /\ reported \subseteq Ids

Init ==
  /\ preview = 0 /\ revisions = {} /\ bodies = <<>> /\ now = 0
  /\ up = FALSE
  /\ build \in Builds
  /\ active = 0 /\ cache = Empty /\ unreadable = 0 /\ permit = NoReq
  /\ pc = [r \in Reqs |-> "idle"]
  /\ seen = [r \in Reqs |-> 0]
  /\ body = [r \in Reqs |-> ""]
  /\ model = [r \in Reqs |-> 0]
  /\ at = [r \in Reqs |-> 0]
  /\ applied = <<>> /\ reported = {}

-----------------------------------------------------------------------------
Goto(r, label) == pc' = [pc EXCEPT ![r] = label]

\* The request is answered; afterCompletion gives the permit back.
End(r) ==
  /\ Goto(r, "idle")
  /\ seen' = [seen EXCEPT ![r] = 0]
  /\ body' = [body EXCEPT ![r] = ""]
  /\ model' = [model EXCEPT ![r] = 0]
  /\ at' = [at EXCEPT ![r] = 0]
  /\ permit' = IF permit = r THEN NoReq ELSE permit

\* It ends with an error, or without anything to do.
EndUnchanged(r) == End(r) /\ UNCHANGED <<tables, memory, reported, now, up, build>>

\* A heavy operation starts; a request that finds the permit taken is answered
\* 503 DSL_BUSY, changes nothing and is left out.
Enter(r) == up /\ pc[r] = "idle" /\ permit = NoReq /\ permit' = r

\* The current revision, or a row of zeros: the newest by time, then by number.
NoRevision == [seq |-> 0, preview |-> 0, at |-> 0]
CurrentRevision ==
  IF revisions = {} THEN NoRevision
  ELSE CHOOSE v \in revisions :
         \A w \in revisions : w.at < v.at \/ (w.at = v.at /\ w.seq <= v.seq)

\* generate and submit of a body that passes the validation; a body that does
\* not is answered 422, changes nothing and is left out.
Submit(r) ==
  /\ Enter(r)
  /\ placed < MaxPlaced
  /\ \E t \in Texts : build[t] = "valid" /\ body' = [body EXCEPT ![r] = t]
  /\ Goto(r, "placing")
  /\ UNCHANGED <<tables, memory, reported, now, up, build, seen, model, at>>

\* restore: the same for a body of the history.
Restore(r) ==
  /\ Enter(r)
  /\ placed < MaxPlaced
  /\ \E v \in revisions : Reads(v.preview) /\ body' = [body EXCEPT ![r] = bodies[v.preview]]
  /\ Goto(r, "placing")
  /\ UNCHANGED <<tables, memory, reported, now, up, build, seen, model, at>>

\* placePreview: a MERGE into the only row, under a new identifier.
Place(r) ==
  /\ pc[r] = "placing"
  /\ bodies' = Append(bodies, body[r])
  /\ preview' = placed + 1
  /\ seen' = [seen EXCEPT ![r] = placed + 1]
  /\ model' = [model EXCEPT ![r] = placed + 1]
  /\ Goto(r, "caching")
  /\ UNCHANGED <<revisions, applied, memory, reported, now, up, build, body, at, permit>>

\* showPreview reads the identifier first, and the body only if the cache has
\* no model for it; by then it may be another preview's.
Show(r) ==
  /\ Enter(r)
  /\ preview # 0
  /\ seen' = [seen EXCEPT ![r] = preview]
  /\ Goto(r, "reading")
  /\ UNCHANGED <<tables, memory, reported, now, up, build, body, model, at>>

\* Mutant: a preview that is gone by now is not answered.
MutAwaitPreview(r) ==
  /\ pc[r] = "reading"
  /\ preview # 0
  /\ IF cache.key = seen[r] \/ ~Reads(preview)
     THEN EndUnchanged(r)
     ELSE /\ seen' = [seen EXCEPT ![r] = preview]
          /\ model' = [model EXCEPT ![r] = preview]
          /\ Goto(r, "caching")
          /\ UNCHANGED <<tables, memory, reported, now, up, build, body, at, permit>>

ReadPreview(r) ==
  /\ pc[r] = "reading"
  /\ IF cache.key = seen[r] \/ preview = 0 \/ ~Reads(preview)
     THEN EndUnchanged(r)
     ELSE /\ seen' = [seen EXCEPT ![r] = preview]
          /\ model' = [model EXCEPT ![r] = preview]
          /\ Goto(r, "caching")
          /\ UNCHANGED <<tables, memory, reported, now, up, build, body, at, permit>>

CacheModel(r) ==
  /\ pc[r] = "caching"
  /\ cache' = [key |-> seen[r], model |-> model[r]]
  /\ End(r)
  /\ UNCHANGED <<tables, active, unreadable, reported, now, up, build>>

-----------------------------------------------------------------------------
\* discard: find the preview, then delete that very one.
Discard(r) ==
  /\ up /\ pc[r] = "idle"
  /\ preview # 0
  /\ seen' = [seen EXCEPT ![r] = preview]
  /\ Goto(r, "discarding")
  /\ UNCHANGED <<tables, memory, reported, now, up, build, body, model, at, permit>>

DiscardPreview(r) ==
  /\ pc[r] = "discarding"
  /\ IF preview = seen[r]
     THEN /\ preview' = 0
          /\ Goto(r, "clearing")
          /\ UNCHANGED <<revisions, bodies, applied, memory, reported, now, up, build,
                         seen, body, model, at, permit>>
     ELSE EndUnchanged(r)

-----------------------------------------------------------------------------
\* apply, for a preview the client was shown.
Apply(r) ==
  /\ up /\ pc[r] = "idle"
  /\ r \in Appliers
  /\ \E id \in Ids : seen' = [seen EXCEPT ![r] = id]
  /\ Goto(r, "checking")
  /\ UNCHANGED <<tables, memory, reported, now, up, build, body, model, at, permit>>

\* Mutant: the cache is asked for its model, whichever preview that belongs to.
MutAnyModel(r) ==
  /\ pc[r] = "checking"
  /\ model' = [model EXCEPT ![r] = IF cache.key # 0 THEN cache.model ELSE seen[r]]
  /\ at' = [at EXCEPT ![r] = now]
  /\ Goto(r, "finding")
  /\ UNCHANGED <<tables, memory, reported, now, up, build, seen, body, permit>>

\* checkBeforeApply: the model from the cache or from the body, 0 if the preview
\* in the slot is another one; a body this build cannot read is refused.
CheckBeforeApply(r) ==
  LET id == seen[r]
      found == IF cache.key = id THEN cache.model ELSE IF preview = id THEN id ELSE 0
  IN  /\ pc[r] = "checking"
      /\ IF cache.key # id /\ preview = id /\ ~Reads(id)
         THEN EndUnchanged(r)
         ELSE /\ model' = [model EXCEPT ![r] = found]
              /\ at' = [at EXCEPT ![r] = now]
              /\ Goto(r, "finding")
              /\ UNCHANGED <<tables, memory, reported, now, up, build, seen, body, permit>>

\* The first statement of the transaction reads the preview; the second copies
\* it, if it is still there, to a row that others see after the commit.
StillThere(r, from, to) ==
  /\ pc[r] = from
  /\ IF preview = seen[r]
     THEN /\ Goto(r, to)
          /\ UNCHANGED <<tables, memory, reported, now, up, build, seen, body, model, at, permit>>
     ELSE EndUnchanged(r)

FindPreview(r) == StillThere(r, "finding", "copying")
CopyPreview(r) == StillThere(r, "copying", "deleting")

\* Mutant: the history is cut by one row too many.
MutNewestTooFew(rows) == {v \in rows : Cardinality({w \in rows : w.seq > v.seq}) < HistoryLimit - 1}

\* deleteOlderThanNewest.
Newest(rows) == {v \in rows : Cardinality({w \in rows : w.seq > v.seq}) < HistoryLimit}

\* Of transactions that overlap at most one commits, so that the identity column
\* orders the rows that remain by their commits.
NextSeq == Len(applied) + 1

\* Mutant: the number of rows the DELETE hit is not looked at.
MutCommitAnyway(r) ==
  /\ pc[r] = "deleting"
  /\ revisions' = Newest(revisions \cup {[seq |-> NextSeq, preview |-> seen[r], at |-> at[r]]})
  /\ applied' = Append(applied, seen[r])
  /\ preview' = IF preview = seen[r] THEN 0 ELSE preview
  /\ Goto(r, "replacing")
  /\ UNCHANGED <<bodies, memory, reported, now, up, build, seen, body, model, at, permit>>

\* The DELETE takes the preview out of the slot, or finds it gone and rolls back;
\* then the history is cut and all of it commits.
CommitApply(r) ==
  /\ pc[r] = "deleting"
  /\ IF preview = seen[r]
     THEN /\ revisions' = Newest(revisions \cup {[seq |-> NextSeq, preview |-> seen[r], at |-> at[r]]})
          /\ applied' = Append(applied, seen[r])
          /\ preview' = 0
          /\ Goto(r, "replacing")
          /\ UNCHANGED <<bodies, memory, reported, now, up, build, seen, body, model, at, permit>>
     ELSE EndUnchanged(r)

\* After the commit the model is swapped, then the cache is cleared and the event
\* published.  A model that was not checked before is read from the history.
ReplaceModel(r) ==
  /\ pc[r] = "replacing"
  /\ IF model[r] = 0 /\ ~Reads(seen[r])
     THEN EndUnchanged(r)
     ELSE /\ active' = IF model[r] # 0 THEN model[r] ELSE seen[r]
          /\ Goto(r, "reporting")
          /\ UNCHANGED <<tables, cache, unreadable, reported, now, up, build,
                         seen, body, model, at, permit>>

ReportApplied(r) ==
  /\ pc[r] = "reporting"
  /\ cache' = Empty
  /\ reported' = reported \cup {seen[r]}
  /\ End(r)
  /\ UNCHANGED <<tables, active, unreadable, now, up, build>>

\* The end of a discard.
ClearCache(r) ==
  /\ pc[r] = "clearing"
  /\ cache' = Empty
  /\ End(r)
  /\ UNCHANGED <<tables, active, unreadable, reported, now, up, build>>

\* The database fails: the transaction rolls back and the request ends.
Fail(r) ==
  /\ pc[r] \in {"placing", "reading", "discarding", "checking", "finding", "copying", "deleting"}
  /\ EndUnchanged(r)

-----------------------------------------------------------------------------
Tick ==
  /\ now < MaxNow
  /\ now' = now + 1
  /\ UNCHANGED <<tables, memory, locals, up, build, permit, reported>>

\* The process dies or is stopped, with its memory and the requests it served.
Crash ==
  /\ up
  /\ up' = FALSE
  /\ active' = 0 /\ cache' = Empty /\ unreadable' = 0 /\ permit' = NoReq
  /\ pc' = [r \in Reqs |-> "idle"]
  /\ seen' = [r \in Reqs |-> 0]
  /\ body' = [r \in Reqs |-> ""]
  /\ model' = [r \in Reqs |-> 0]
  /\ at' = [r \in Reqs |-> 0]
  /\ UNCHANGED <<tables, now, build, reported>>

\* Mutant: the start does not remember that it could not read the revision.
MutForgetUnreadable ==
  /\ ~up
  /\ up' = TRUE
  /\ \E b \in Builds :
       LET id == CurrentRevision.preview
       IN  /\ build' = b
           /\ active' = IF id # 0 /\ ReadsAtStartup(b, id) THEN id ELSE 0
  /\ UNCHANGED <<tables, cache, unreadable, locals, now, permit, reported>>

\* DslStartupLoader, in the build that is started.
Load ==
  /\ ~up
  /\ up' = TRUE
  /\ \E b \in Builds :
       LET id == CurrentRevision.preview
       IN  /\ build' = b
           /\ active' = IF id # 0 /\ ReadsAtStartup(b, id) THEN id ELSE 0
           /\ unreadable' = IF id # 0 /\ ~ReadsAtStartup(b, id) THEN CurrentRevision.seq ELSE 0
  /\ UNCHANGED <<tables, cache, locals, now, permit, reported>>

HeavyStep(r) == Place(r) \/ ReadPreview(r) \/ CacheModel(r)
LightStep(r) ==
  \/ DiscardPreview(r) \/ CheckBeforeApply(r) \/ FindPreview(r) \/ CopyPreview(r)
  \/ CommitApply(r) \/ ReplaceModel(r) \/ ReportApplied(r) \/ ClearCache(r)
Step(r) == HeavyStep(r) \/ LightStep(r)

Next ==
  \/ \E r \in Reqs : Submit(r) \/ Restore(r) \/ Show(r) \/ Discard(r) \/ Apply(r) \/ Step(r) \/ Fail(r)
  \/ Tick \/ Crash \/ Load

Spec == Init /\ [][Next]_vars

\* Each request runs on a thread of its own; a start goes through.
Fairness == WF_vars(Load) /\ \A r \in Reqs : WF_vars(Step(r))

FairSpec == Spec /\ Fairness

-----------------------------------------------------------------------------
(***************************************************************************)
(* Properties.                                                             *)
(***************************************************************************)

Store == INSTANCE DslHistory

\* The three statements of an application, interleaved with those of others, act
\* as one: only the preview in the slot is applied (DslRecordStore.apply).
StoreSpec == Store!StoreSpec

\* However many requests there are, a preview is applied once at most, and none after
\* a younger one (the transaction of DslRecordStore.apply).
PreviewAppliedOnce == Store!AppliedOnce

\* The history holds the newest applications, and the one by date is the one by
\* number: what the status calls current, what a start loads, and what the cutting
\* of the history keeps never part (DslAppliedRevisionRepository).
HistoryIsNewest ==
  /\ {v.preview : v \in revisions} =
       {applied[i] : i \in {j \in DOMAIN applied : j > Len(applied) - HistoryLimit}}
  /\ applied # <<>> => CurrentRevision.preview = applied[Len(applied)]

\* Only what was applied runs, and only a model that was checked (apply, BR4.6).
OnlyAppliedRuns ==
  /\ active # 0 => \E i \in DOMAIN applied : applied[i] = active
  /\ \A r \in Reqs : pc[r] = "replacing" => model[r] = seen[r]
  /\ \A id \in reported : \E i \in DOMAIN applied : applied[i] = id

\* docs/dsl.md, line 112: an application switches the DSL that runs.  So, unless
\* one is just about to, what runs is the revision the status calls current, or
\* nothing if the status says that it could not be read.
\* With concurrent applications the code does not keep it: see the README.
CurrentRuns ==
  up /\ (\A r \in Reqs : pc[r] # "replacing") =>
    active = IF unreadable # 0 /\ unreadable = CurrentRevision.seq THEN 0
             ELSE CurrentRevision.preview

\* The permit comes back, whatever happens to the preview meanwhile.
PermitReturns == permit # NoReq ~> permit = NoReq
=============================================================================
