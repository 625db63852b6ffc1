----------------------------- MODULE DslProofs -----------------------------
(***************************************************************************)
(* Proofs about DslLifecycle, for any number of requests, builds, previews *)
(* and kept revisions: it implements DslHistory, only what was applied     *)
(* runs, and the current revision is the one applied last.                 *)
(***************************************************************************)
EXTENDS MCDslLifecycle, SequenceTheorems, FiniteSetTheorems, FunctionTheorems, TLAPS

Applied(id) == \E i \in DOMAIN applied : applied[i] = id

\* The permit is held by the heavy operation there is, which has room to place.
Heavy(r) ==
  /\ pc[r] \in {"placing", "reading", "caching"} => permit = r
  /\ pc[r] = "placing" => placed < MaxPlaced /\ body[r] \in Texts

\* What a request knows of the preview it works on.  A model that was not checked
\* belongs to a preview that has left the slot, and does not come back.
Slot(r) ==
  /\ pc[r] \notin {"idle", "placing", "reading"} => seen[r] \in Ids
  /\ pc[r] \in {"caching", "replacing"} => model[r] = seen[r]
  /\ pc[r] \in {"finding", "copying", "deleting"} =>
       /\ model[r] \in {0, seen[r]}
       /\ at[r] <= now
       /\ preview = seen[r] => model[r] = seen[r] /\ \A v \in revisions : v.at <= at[r]
  /\ pc[r] \in {"replacing", "reporting"} => Applied(seen[r])

\* A row is numbered by its application; the last application has the newest row.
Rows ==
  /\ \A v \in revisions : /\ v.seq \in DOMAIN applied
                          /\ applied[v.seq] = v.preview
                          /\ v.at <= now
  /\ applied # <<>> => \E v \in revisions : /\ v.seq = Len(applied)
                                            /\ \A w \in revisions : w.at <= v.at

Runs ==
  /\ cache.key = cache.model
  /\ active # 0 => Applied(active)
  /\ \A id \in reported : Applied(id)

Inv == TypeOK /\ (\A r \in Reqs : Heavy(r) /\ Slot(r)) /\ Rows /\ Runs

LEMMA InvInit == Init => Inv
  <1> SUFFICES ASSUME Init PROVE Inv
    OBVIOUS
  <1> USE DEF Init, Ids, placed
  <1>1. TypeOK
    <2>1. bodies \in Seq(Texts) /\ applied \in Seq(Ids) /\ revisions \subseteq Revision
      BY EmptySeq
    <2>2. cache \in [key : Ids \cup {0}, model : Ids \cup {0}]
      BY DEF Empty
    <2> QED
      BY <2>1, <2>2 DEF TypeOK, PCs
  <1>2. (\A r \in Reqs : Heavy(r) /\ Slot(r)) /\ Rows /\ Runs
    BY DEF Heavy, Slot, Rows, Runs, Empty
  <1> QED
    BY <1>1, <1>2 DEF Inv

\* The revision that is current by date is the one applied last.
LEMMA CurrentIsLast ==
  ASSUME Inv, revisions # {}
  PROVE  /\ CurrentRevision \in revisions
         /\ applied # <<>>
         /\ CurrentRevision.preview = applied[Len(applied)]
         /\ CurrentRevision.seq = Len(applied)
  <1>1. /\ applied \in Seq(Ids) /\ DOMAIN applied = 1..Len(applied) /\ Len(applied) \in Nat
        /\ \A v \in revisions : v.seq \in Nat /\ v.at \in Nat
    <2>1. applied \in Seq(Ids) /\ \A v \in revisions : v \in Revision
      BY DEF Inv, TypeOK
    <2> QED
      BY <2>1 DEF Revision
  <1>2. \A v \in revisions : v.seq \in 1..Len(applied) /\ applied[v.seq] = v.preview
    BY <1>1 DEF Inv, Rows
  <1>3. applied # <<>>
    BY <1>1, <1>2
  <1>4. PICK v \in revisions : v.seq = Len(applied) /\ \A w \in revisions : w.at <= v.at
    BY <1>3 DEF Inv, Rows
  <1>5. \A w \in revisions : w.at < v.at \/ (w.at = v.at /\ w.seq <= v.seq)
    BY <1>1, <1>2, <1>4
  <1> DEFINE c == CHOOSE x \in revisions :
                    \A w \in revisions : w.at < x.at \/ (w.at = x.at /\ w.seq <= x.seq)
  <1>6. c \in revisions /\ \A w \in revisions : w.at < c.at \/ (w.at = c.at /\ w.seq <= c.seq)
    BY <1>4, <1>5
  <1>7. c.seq = Len(applied)
    BY <1>1, <1>2, <1>4, <1>6
  <1>8. CurrentRevision = c
    BY DEF CurrentRevision
  <1> QED
    BY <1>2, <1>3, <1>6, <1>7, <1>8

\* A step of one request that changes nothing but its own locals and the permit.
LEMMA InvLocal ==
  ASSUME Inv, NEW r \in Reqs, UNCHANGED <<tables, memory, reported, now, up, build>>,
         pc' \in [Reqs -> PCs], seen' \in [Reqs -> Ids \cup {0}], body' \in [Reqs -> Texts \cup {""}],
         model' \in [Reqs -> Ids \cup {0}], at' \in [Reqs -> Nat], permit' \in Reqs \cup {NoReq},
         \A k \in Reqs \ {r} :
           /\ pc'[k] = pc[k] /\ seen'[k] = seen[k] /\ body'[k] = body[k]
           /\ model'[k] = model[k] /\ at'[k] = at[k]
           /\ permit = k => permit' = k,
         Heavy(r)', Slot(r)'
  PROVE  Inv'
  <1> USE DEF tables, memory, Inv
  <1>1. TypeOK'
    BY DEF TypeOK, Ids, placed
  <1>2. ASSUME NEW k \in Reqs \ {r} PROVE Heavy(k)' /\ Slot(k)'
    <2>1. Heavy(k)'
      BY DEF Heavy, placed
    <2>2. UNCHANGED Ids /\ \A id : Applied(id) => Applied(id)'
      BY DEF Ids, placed, Applied
    <2>3. Slot(k)
      OBVIOUS
    <2>4. Slot(k)'
      BY <2>2, <2>3 DEF Slot
    <2> QED
      BY <2>1, <2>4
  <1>3. Rows' /\ Runs'
    BY DEF Rows, Runs, Applied
  <1> QED
    BY <1>1, <1>2, <1>3

\* A request ends without a trace.
LEMMA InvEnd ==
  ASSUME Inv, NEW r \in Reqs, EndUnchanged(r)
  PROVE  Inv'
  <1>1. /\ pc' = [pc EXCEPT ![r] = "idle"] /\ seen' = [seen EXCEPT ![r] = 0]
        /\ body' = [body EXCEPT ![r] = ""] /\ model' = [model EXCEPT ![r] = 0]
        /\ at' = [at EXCEPT ![r] = 0] /\ permit' = IF permit = r THEN NoReq ELSE permit
    BY DEF EndUnchanged, End, Goto
  <1>2. Heavy(r)' /\ Slot(r)'
    BY <1>1 DEF Heavy, Slot, Inv, TypeOK
  <1> QED
    BY <1>1, <1>2, InvLocal DEF EndUnchanged, Inv, TypeOK, PCs

\* The two sequences.
LEMMA Sequences ==
  ASSUME Inv
  PROVE  /\ bodies \in Seq(Texts) /\ Len(bodies) \in Nat
         /\ applied \in Seq(Ids) /\ Len(applied) \in Nat /\ DOMAIN applied = 1..Len(applied)
  <1>1. bodies \in Seq(Texts) /\ applied \in Seq(Ids)
    BY DEF Inv, TypeOK
  <1> QED
    BY <1>1, LenProperties

\* What is applied stays applied, and so is what is appended.
LEMMA AppliedGrows ==
  ASSUME Inv, NEW x \in Ids, applied' = Append(applied, x)
  PROVE  /\ \A id : Applied(id) => Applied(id)'
         /\ Applied(x)'
  <1>1. /\ DOMAIN applied' = 1..(Len(applied) + 1)
        /\ \A i \in 1..Len(applied) : applied'[i] = applied[i]
        /\ applied'[Len(applied) + 1] = x
    <2>1. applied \in Seq(Ids) /\ applied' \in Seq(Ids) /\ Len(applied') = Len(applied) + 1
      BY Sequences, AppendProperties
    <2>2. DOMAIN applied' = 1..Len(applied')
      BY <2>1, LenProperties
    <2> QED
      BY <2>1, <2>2, AppendProperties
  <1> QED
    BY <1>1, Sequences DEF Applied

\* The requests that start, and what they look up.
LEMMA InvStart ==
  ASSUME Inv, NEW r \in Reqs, Submit(r) \/ Restore(r) \/ Show(r) \/ Discard(r) \/ Apply(r)
  PROVE  Inv'
  <1>0. preview \in Ids \cup {0} /\ (\A v \in revisions : v.preview \in Ids)
        /\ bodies \in Seq(Texts) /\ Len(bodies) \in Nat /\ NoReq \notin Reqs
    BY ReqsAssumption, Sequences DEF Inv, TypeOK
  <1>1. CASE Submit(r) \/ Restore(r)
    <2>1. PICK t \in Texts : body' = [body EXCEPT ![r] = t]
      BY <1>0, <1>1 DEF Submit, Restore, Ids, placed
    <2>2. /\ pc' = [pc EXCEPT ![r] = "placing"] /\ permit = NoReq /\ permit' = r /\ placed < MaxPlaced
          /\ UNCHANGED <<tables, memory, reported, now, up, build, seen, model, at>>
      BY <1>1 DEF Submit, Restore, Enter, Goto
    <2>3. Heavy(r)' /\ Slot(r)'
      BY <2>1, <2>2 DEF Heavy, Slot, Inv, TypeOK, tables, placed
    <2> QED
      BY <1>0, <2>1, <2>2, <2>3, InvLocal DEF Inv, TypeOK, PCs
  <1>2. CASE Show(r)
    <2>1. /\ pc' = [pc EXCEPT ![r] = "reading"] /\ permit = NoReq /\ permit' = r
          /\ seen' = [seen EXCEPT ![r] = preview]
          /\ UNCHANGED <<tables, memory, reported, now, up, build, body, model, at>>
      BY <1>2 DEF Show, Enter, Goto
    <2>2. Heavy(r)' /\ Slot(r)'
      BY <2>1 DEF Heavy, Slot, Inv, TypeOK
    <2> QED
      BY <1>0, <2>1, <2>2, InvLocal DEF Inv, TypeOK, PCs
  <1>3. CASE Discard(r) \/ Apply(r)
    <2>1. PICK id \in Ids : seen' = [seen EXCEPT ![r] = id]
      BY <1>0, <1>3 DEF Discard, Apply
    <2>2. PICK p \in {"discarding", "checking"} :
            /\ pc' = [pc EXCEPT ![r] = p]
            /\ UNCHANGED <<tables, memory, reported, now, up, build, body, model, at, permit>>
      BY <1>3 DEF Discard, Apply, Goto
    <2>3. Heavy(r)' /\ Slot(r)'
      BY <2>1, <2>2 DEF Heavy, Slot, Inv, TypeOK, tables, Ids, placed
    <2> QED
      BY <1>0, <2>1, <2>2, <2>3, InvLocal DEF Inv, TypeOK, PCs
  <1> QED
    BY <1>1, <1>2, <1>3

\* The steps before the commit that change only what their request knows.
LEMMA InvRead ==
  ASSUME Inv, NEW r \in Reqs,
         ReadPreview(r) \/ CheckBeforeApply(r) \/ FindPreview(r) \/ CopyPreview(r) \/ Fail(r)
  PROVE  Inv'
  <1>0. /\ preview \in Ids \cup {0} /\ cache.key \in Ids \cup {0} /\ cache.model = cache.key
        /\ now \in Nat /\ seen[r] \in Ids \cup {0}
        /\ Heavy(r) /\ Slot(r)
    BY DEF Inv, TypeOK, Runs
  <1>1. CASE EndUnchanged(r)
    BY <1>1, InvEnd
  <1>2. CASE ReadPreview(r) /\ ~EndUnchanged(r)
    <2>1. /\ pc[r] = "reading" /\ preview \in Ids
          /\ seen' = [seen EXCEPT ![r] = preview] /\ model' = [model EXCEPT ![r] = preview]
          /\ pc' = [pc EXCEPT ![r] = "caching"]
          /\ UNCHANGED <<tables, memory, reported, now, up, build, body, at, permit>>
      BY <1>0, <1>2 DEF ReadPreview, Goto
    <2>2. Heavy(r)' /\ Slot(r)'
      BY <1>0, <2>1 DEF Heavy, Slot, Inv, TypeOK, tables, Ids, placed
    <2> QED
      BY <2>1, <2>2, InvLocal DEF Inv, TypeOK, PCs
  <1>3. CASE CheckBeforeApply(r) /\ ~EndUnchanged(r)
    <2> DEFINE id == seen[r]
               found == IF cache.key = id THEN cache.model ELSE IF preview = id THEN id ELSE 0
    <2>1. /\ pc[r] = "checking"
          /\ model' = [model EXCEPT ![r] = found] /\ at' = [at EXCEPT ![r] = now]
          /\ pc' = [pc EXCEPT ![r] = "finding"]
          /\ UNCHANGED <<tables, memory, reported, now, up, build, seen, body, permit>>
      BY <1>3 DEF CheckBeforeApply, Goto
    <2>2. /\ id \in Ids /\ found \in {0, id} /\ found \in Ids \cup {0}
          /\ preview = id => found = id
      BY <1>0, <2>1 DEF Slot
    <2>3. \A v \in revisions : v.at <= now
      BY DEF Inv, Rows
    <2>4. /\ pc'[r] = "finding" /\ model'[r] = found /\ at'[r] = now /\ seen'[r] = id
          /\ UNCHANGED <<preview, revisions, now, Ids>>
      BY <2>1 DEF Inv, TypeOK, tables, Ids, placed
    <2>5. Heavy(r)' /\ Slot(r)'
      BY <1>0, <2>2, <2>3, <2>4 DEF Heavy, Slot
    <2> QED
      BY <1>0, <2>1, <2>2, <2>5, InvLocal DEF Inv, TypeOK, PCs
  <1>4. CASE (FindPreview(r) \/ CopyPreview(r)) /\ ~EndUnchanged(r)
    <2>1. PICK p \in {"copying", "deleting"} :
            /\ pc[r] \in {"finding", "copying"}
            /\ pc' = [pc EXCEPT ![r] = p]
            /\ UNCHANGED <<tables, memory, reported, now, up, build, seen, body, model, at, permit>>
      <3>1. ASSUME NEW from, NEW to, StillThere(r, from, to)
            PROVE  /\ pc[r] = from
                   /\ pc' = [pc EXCEPT ![r] = to]
                   /\ UNCHANGED <<tables, memory, reported, now, up, build, seen, body, model, at, permit>>
        BY <1>4, <3>1 DEF StillThere, Goto
      <3>2. CASE FindPreview(r)
        BY <3>1, <3>2 DEF FindPreview
      <3>3. CASE CopyPreview(r)
        BY <3>1, <3>3 DEF CopyPreview
      <3> QED
        BY <1>4, <3>2, <3>3
    <2>2. Heavy(r)' /\ Slot(r)'
      BY <1>0, <2>1 DEF Heavy, Slot, Inv, TypeOK, tables, Ids, placed
    <2> QED
      BY <2>1, <2>2, InvLocal DEF Inv, TypeOK, PCs
  <1> QED
    BY <1>1, <1>2, <1>3, <1>4 DEF Fail

\* A new preview is one that nobody has seen yet.
LEMMA InvPlace ==
  ASSUME Inv, NEW r \in Reqs, Place(r)
  PROVE  Inv'
  <1>0. /\ bodies \in Seq(Texts) /\ Len(bodies) \in Nat /\ body[r] \in Texts /\ permit = r
        /\ placed < MaxPlaced
    BY Sequences DEF Inv, Heavy, Place
  <1>1. /\ pc' = [pc EXCEPT ![r] = "caching"] /\ preview' = placed + 1
        /\ seen' = [seen EXCEPT ![r] = placed + 1] /\ model' = [model EXCEPT ![r] = placed + 1]
        /\ UNCHANGED <<revisions, applied, active, cache, unreadable, reported, now, up, build, body, at, permit>>
    BY DEF Place, Goto, memory
  <1>2. bodies' \in Seq(Texts) /\ placed' = placed + 1
    BY <1>0, AppendProperties DEF Place, placed
  <1>3. Ids \subseteq Ids' /\ placed + 1 \in Ids' /\ placed + 1 \notin Ids /\ placed \in Nat
    BY <1>0, <1>2 DEF Ids, placed
  <1>4. TypeOK'
    <2>1. applied' \in Seq(Ids')
      BY <1>1, <1>3, Sequences
    <2>2. cache' \in [key : Ids' \cup {0}, model : Ids' \cup {0}]
      BY <1>1, <1>3 DEF Inv, TypeOK
    <2>3. /\ preview' \in Ids' \cup {0} /\ active' \in Ids' \cup {0} /\ reported' \subseteq Ids'
          /\ \A v \in revisions' : v.preview \in Ids'
      BY <1>1, <1>3 DEF Inv, TypeOK
    <2>4. /\ seen' \in [Reqs -> Ids' \cup {0}] /\ model' \in [Reqs -> Ids' \cup {0}]
          /\ pc' \in [Reqs -> PCs]
      BY <1>1, <1>3 DEF Inv, TypeOK, PCs
    <2> QED
      BY <1>1, <1>2, <2>1, <2>2, <2>3, <2>4 DEF Inv, TypeOK
  <1>5. ASSUME NEW k \in Reqs PROVE Heavy(k)' /\ Slot(k)'
    <2>1. CASE k = r
      BY <1>0, <1>1, <1>3, <2>1 DEF Heavy, Slot, Inv, TypeOK
    <2>2. CASE k # r
      <3>1. /\ pc'[k] = pc[k] /\ seen'[k] = seen[k] /\ model'[k] = model[k] /\ at'[k] = at[k]
            /\ pc[k] \notin {"placing", "reading", "caching"}
            /\ Slot(k)
        BY <1>0, <1>1, <2>2 DEF Inv, TypeOK, Heavy
      <3>2. preview' = seen[k] => seen[k] \notin Ids
        BY <1>1, <1>3
      <3>3. Applied(seen[k]) => Applied(seen[k])'
        BY <1>1, <3>1 DEF Applied
      <3>4. Slot(k)'
        BY <1>1, <1>3, <3>1, <3>2, <3>3 DEF Slot
      <3> QED
        BY <3>1, <3>4 DEF Heavy
    <2> QED
      BY <2>1, <2>2
  <1>6. Rows' /\ Runs'
    BY <1>1 DEF Inv, Rows, Runs, Applied
  <1> QED
    BY <1>4, <1>5, <1>6 DEF Inv

\* A request that has changed nothing in the database, or all it will, and answers.
LEMMA InvAnswer ==
  ASSUME Inv, NEW r \in Reqs, CacheModel(r) \/ ReportApplied(r) \/ ClearCache(r)
  PROVE  Inv'
  <1>0. Heavy(r) /\ Slot(r)
    BY DEF Inv
  <1>1. /\ pc' = [pc EXCEPT ![r] = "idle"] /\ seen' = [seen EXCEPT ![r] = 0]
        /\ body' = [body EXCEPT ![r] = ""] /\ model' = [model EXCEPT ![r] = 0]
        /\ at' = [at EXCEPT ![r] = 0] /\ permit' = IF permit = r THEN NoReq ELSE permit
        /\ UNCHANGED <<tables, active, unreadable, now, up, build>>
    BY DEF CacheModel, ReportApplied, ClearCache, End, Goto
  <1>2. cache' \in [key : Ids \cup {0}, model : Ids \cup {0}] /\ cache'.key = cache'.model
    <2>1. CASE CacheModel(r)
      <3>1. seen[r] \in Ids /\ model[r] = seen[r]
        BY <1>0, <2>1 DEF CacheModel, Slot
      <3> QED
        BY <2>1, <3>1 DEF CacheModel
    <2>2. CASE ReportApplied(r) \/ ClearCache(r)
      BY <2>2 DEF ReportApplied, ClearCache, Empty
    <2> QED
      BY <2>1, <2>2
  <1>3. reported' \subseteq Ids /\ \A id \in reported' : Applied(id)
    <2>1. CASE ReportApplied(r)
      BY <1>0, <2>1 DEF ReportApplied, Slot, Inv, TypeOK, Runs
    <2>2. CASE CacheModel(r) \/ ClearCache(r)
      BY <2>2 DEF CacheModel, ClearCache, Inv, TypeOK, Runs
    <2> QED
      BY <2>1, <2>2
  <1>4. UNCHANGED <<Ids, preview, revisions>> /\ \A id : Applied(id)' <=> Applied(id)
    BY <1>1 DEF tables, Ids, placed, Applied
  <1>5. TypeOK'
    BY <1>1, <1>2, <1>3, <1>4 DEF Inv, TypeOK, PCs, tables
  <1>6. ASSUME NEW k \in Reqs PROVE Heavy(k)' /\ Slot(k)'
    <2>1. CASE k = r
      BY <1>1, <2>1 DEF Heavy, Slot, Inv, TypeOK
    <2>2. CASE k # r
      <3>1. /\ pc'[k] = pc[k] /\ seen'[k] = seen[k] /\ model'[k] = model[k] /\ at'[k] = at[k]
            /\ body'[k] = body[k] /\ (permit = k => permit' = k)
            /\ Heavy(k) /\ Slot(k)
        BY <1>1, <2>2 DEF Inv, TypeOK
      <3>2. Heavy(k)'
        BY <1>1, <3>1 DEF Heavy, tables, placed
      <3>3. UNCHANGED <<Ids, preview, revisions, applied, now>>
        BY <1>1, <1>4 DEF tables
      <3>4. UNCHANGED <<pc[k], seen[k], model[k], at[k]>>
        BY <3>1
      <3>5. Slot(k)'
        BY <3>1, <3>3, <3>4 DEF Slot, Applied
      <3> QED
        BY <3>2, <3>5
    <2> QED
      BY <2>1, <2>2
  <1>7. Rows' /\ Runs'
    BY <1>1, <1>2, <1>3, <1>4 DEF Inv, Rows, Runs, tables
  <1> QED
    BY <1>5, <1>6, <1>7 DEF Inv

\* A preview that is thrown away is nobody's any more.
LEMMA InvDiscard ==
  ASSUME Inv, NEW r \in Reqs, DiscardPreview(r)
  PROVE  Inv'
  <1>1. CASE EndUnchanged(r)
    BY <1>1, InvEnd
  <1>2. CASE ~EndUnchanged(r)
    <2>1. /\ pc[r] = "discarding" /\ preview = seen[r] /\ preview' = 0
          /\ pc' = [pc EXCEPT ![r] = "clearing"]
          /\ UNCHANGED <<revisions, bodies, applied, memory, reported, now, up, build,
                         seen, body, model, at, permit>>
      BY <1>2 DEF DiscardPreview, Goto
    <2>2. UNCHANGED Ids /\ (\A id : Applied(id)' <=> Applied(id)) /\ 0 \notin Ids
      BY <2>1 DEF Ids, placed, Applied
    <2>3. TypeOK'
      BY <2>1, <2>2 DEF Inv, TypeOK, PCs, memory
    <2>4. ASSUME NEW k \in Reqs PROVE Heavy(k)' /\ Slot(k)'
      <3>1. Heavy(k) /\ Slot(k) /\ seen[k] \in Ids \cup {0}
        BY DEF Inv, TypeOK
      <3>2. Heavy(k)'
        BY <2>1, <3>1 DEF Heavy, placed, Inv, TypeOK
      <3>3. pc'[k] = IF k = r THEN "clearing" ELSE pc[k]
        BY <2>1 DEF Inv, TypeOK
      <3>4. Slot(k)'
        BY <2>1, <2>2, <3>1, <3>3 DEF Slot
      <3> QED
        BY <3>2, <3>4
    <2>5. Rows' /\ Runs'
      BY <2>1, <2>2 DEF Inv, Rows, Runs, memory
    <2> QED
      BY <2>3, <2>4, <2>5 DEF Inv
  <1> QED
    BY <1>1, <1>2

\* The cutting of the history keeps the row of the newest application.
LEMMA NewestKeepsLast ==
  ASSUME NEW rows, NEW v \in rows, \A w \in rows : ~(w.seq > v.seq)
  PROVE  v \in Newest(rows) /\ Newest(rows) \subseteq rows
  <1>1. {w \in rows : w.seq > v.seq} = {}
    OBVIOUS
  <1>2. Cardinality({w \in rows : w.seq > v.seq}) = 0
    BY <1>1, FS_EmptySet
  <1> QED
    BY <1>2, LimitsAssumption DEF Newest

\* An application commits the preview that is still in the slot, checked since it
\* came into it and dated later than every row there is.
LEMMA InvCommit ==
  ASSUME Inv, NEW r \in Reqs, CommitApply(r)
  PROVE  Inv'
  <1>1. CASE EndUnchanged(r)
    BY <1>1, InvEnd
  <1>2. CASE ~EndUnchanged(r)
    <2> DEFINE n == Len(applied)
               new == [seq |-> n + 1, preview |-> seen[r], at |-> at[r]]
    <2>1. /\ pc[r] = "deleting" /\ preview = seen[r] /\ preview' = 0
          /\ revisions' = Newest(revisions \cup {new})
          /\ applied' = Append(applied, seen[r])
          /\ pc' = [pc EXCEPT ![r] = "replacing"]
          /\ UNCHANGED <<bodies, memory, reported, now, up, build, seen, body, model, at, permit>>
      BY <1>2 DEF CommitApply, NextSeq, Goto
    <2>2. /\ seen[r] \in Ids /\ model[r] = seen[r] /\ at[r] <= now /\ at[r] \in Nat /\ now \in Nat
          /\ \A v \in revisions : v.at <= at[r]
      BY <2>1 DEF Inv, TypeOK, Slot
    <2>3. /\ n \in Nat /\ DOMAIN applied = 1..n /\ applied \in Seq(Ids)
          /\ \A v \in revisions : v.seq \in 1..n
      BY Sequences DEF Inv, Rows
    <2>4. /\ applied' \in Seq(Ids) /\ Len(applied') = n + 1
          /\ DOMAIN applied' = 1..(n + 1)
          /\ \A i \in 1..n : applied'[i] = applied[i]
          /\ applied'[n + 1] = seen[r]
      <3>1. applied' \in Seq(Ids) /\ Len(applied') = n + 1
        BY <2>1, <2>2, <2>3, AppendProperties
      <3>2. DOMAIN applied' = 1..Len(applied')
        BY <3>1, LenProperties
      <3> QED
        BY <2>1, <2>2, <2>3, <3>1, <3>2, AppendProperties
    <2>5. new \in revisions' /\ revisions' \subseteq revisions \cup {new}
      <3>1. \A w \in revisions \cup {new} : ~(w.seq > new.seq)
        BY <2>3
      <3> QED
        BY <2>1, <3>1, NewestKeepsLast
    <2>6. UNCHANGED Ids /\ 0 \notin Ids /\ Applied(seen[r])' /\ \A id : Applied(id) => Applied(id)'
      <3>1. UNCHANGED Ids /\ 0 \notin Ids
        BY <2>1 DEF Ids, placed
      <3>2. Applied(seen[r])'
        BY <2>1, <2>3, <2>4 DEF Applied
      <3> QED
        BY <2>1, <2>2, <3>1, <3>2, AppliedGrows
    <2>7. new \in Revision /\ new.preview = seen[r] /\ new.seq = n + 1 /\ new.at = at[r]
      BY <2>2, <2>3 DEF Revision, Ids
    <2>8. TypeOK'
      <3>1. revisions' \subseteq Revision /\ \A v \in revisions' : v.preview \in Ids
        BY <2>2, <2>5, <2>7 DEF Inv, TypeOK
      <3> QED
        BY <2>1, <2>4, <2>6, <3>1 DEF Inv, TypeOK, PCs, memory
    <2>9. ASSUME NEW k \in Reqs PROVE Heavy(k)' /\ Slot(k)'
      <3>1. /\ Heavy(k) /\ Slot(k) /\ seen'[k] = seen[k] /\ model'[k] = model[k] /\ at'[k] = at[k]
            /\ pc'[k] = IF k = r THEN "replacing" ELSE pc[k]
        BY <2>1 DEF Inv, TypeOK
      <3>2. Heavy(k)'
        BY <2>1, <3>1 DEF Heavy, placed
      <3>3. /\ seen'[k] \in Ids' => preview' # seen'[k]
            /\ now' = now /\ Ids' = Ids
        BY <2>1, <2>6
      <3>4. CASE k = r
        <4>1. pc'[k] = "replacing" /\ seen'[k] \in Ids' /\ model'[k] = seen'[k]
          BY <2>2, <3>1, <3>3, <3>4
        <4>2. \E i \in DOMAIN applied' : applied'[i] = seen'[k]
          BY <2>3, <2>4, <3>1, <3>4
        <4> QED
          BY <3>2, <4>1, <4>2 DEF Slot, Applied
      <3>5. CASE k # r
        <4>1. /\ UNCHANGED <<pc[k], seen[k], model[k], at[k]>> /\ Slot(k)
          BY <3>1, <3>5
        <4>2. pc'[k] \in {"replacing", "reporting"} =>
                \E i \in DOMAIN applied' : applied'[i] = seen'[k]
          BY <2>3, <2>4, <4>1 DEF Slot, Applied
        <4>3. pc'[k] \notin {"idle", "placing", "reading"} => seen'[k] \in Ids'
          BY <3>3, <4>1 DEF Slot
        <4>4. pc'[k] \in {"caching", "replacing"} => model'[k] = seen'[k]
          BY <4>1 DEF Slot
        <4>5. pc'[k] \in {"finding", "copying", "deleting"} =>
                model'[k] \in {0, seen'[k]} /\ at'[k] <= now' /\ preview' # seen'[k]
          BY <3>3, <4>1, <4>3 DEF Slot
        <4> QED
          BY <3>2, <4>2, <4>3, <4>4, <4>5 DEF Slot, Applied
      <3> QED
        BY <3>2, <3>4, <3>5
    <2>10. Rows'
      <3>1. ASSUME NEW v \in revisions'
            PROVE  v.seq \in DOMAIN applied' /\ applied'[v.seq] = v.preview /\ v.at <= now /\ v.at <= at[r]
        <4>1. CASE v = new
          BY <2>2, <2>3, <2>4, <2>7, <4>1
        <4>2. CASE v \in revisions
          BY <2>2, <2>3, <2>4, <4>2 DEF Inv, Rows
        <4> QED
          BY <2>5, <4>1, <4>2
      <3>2. new.seq = Len(applied') /\ \A w \in revisions' : w.at <= new.at
        BY <2>4, <2>7, <3>1
      <3> QED
        BY <2>1, <2>5, <3>1, <3>2 DEF Rows
    <2>11. Runs'
      BY <2>1, <2>6 DEF Inv, Runs, memory
    <2> QED
      BY <2>8, <2>9, <2>10, <2>11 DEF Inv
  <1> QED
    BY <1>1, <1>2

\* The model that is swapped in is the one that was checked for what was applied.
LEMMA InvReplace ==
  ASSUME Inv, NEW r \in Reqs, ReplaceModel(r)
  PROVE  Inv'
  <1>1. CASE EndUnchanged(r)
    BY <1>1, InvEnd
  <1>2. CASE ~EndUnchanged(r)
    <2>1. /\ pc[r] = "replacing"
          /\ active' = IF model[r] # 0 THEN model[r] ELSE seen[r]
          /\ pc' = [pc EXCEPT ![r] = "reporting"]
          /\ UNCHANGED <<tables, cache, unreadable, reported, now, up, build, seen, body, model, at, permit>>
      BY <1>2 DEF ReplaceModel, Goto
    <2>2. active' \in Ids /\ Applied(active')
      BY <2>1 DEF Inv, Slot
    <2>3. UNCHANGED <<Ids, preview, revisions, applied, bodies>> /\ \A id : Applied(id)' <=> Applied(id)
      BY <2>1 DEF tables, Ids, placed, Applied
    <2>4. TypeOK'
      BY <2>1, <2>2, <2>3 DEF Inv, TypeOK, PCs
    <2>5. ASSUME NEW k \in Reqs PROVE Heavy(k)' /\ Slot(k)'
      <3>1. /\ Heavy(k) /\ Slot(k) /\ UNCHANGED <<seen[k], model[k], at[k], body[k], permit>>
            /\ pc'[k] = IF k = r THEN "reporting" ELSE pc[k]
        BY <2>1 DEF Inv, TypeOK
      <3>2. Heavy(k)'
        BY <2>3, <3>1 DEF Heavy, placed
      <3>3. Slot(k)'
        BY <2>1, <2>3, <3>1 DEF Slot, Applied
      <3> QED
        BY <3>2, <3>3
    <2>6. Rows' /\ Runs'
      BY <2>1, <2>2, <2>3 DEF Inv, Rows, Runs, Applied
    <2> QED
      BY <2>4, <2>5, <2>6 DEF Inv
  <1> QED
    BY <1>1, <1>2

\* The clock, the end of the process and its start.
LEMMA InvEnvironment ==
  ASSUME Inv, Tick \/ Crash \/ Load \/ UNCHANGED vars
  PROVE  Inv'
  <1>1. UNCHANGED <<bodies, preview, revisions, applied, reported>>
    BY DEF Tick, Crash, Load, vars, tables
  <1>2. UNCHANGED Ids /\ \A id : Applied(id)' <=> Applied(id)
    BY <1>1 DEF Ids, placed, Applied
  <1>3. CASE Tick
    <2>0. now \in Nat
      BY DEF Inv, TypeOK
    <2>1. now' \in Nat /\ now <= now' /\ UNCHANGED <<memory, locals, up, build, permit>>
      BY <1>3, <2>0 DEF Tick
    <2>2. TypeOK'
      BY <1>1, <1>2, <2>1 DEF Inv, TypeOK, memory, locals
    <2>3. ASSUME NEW k \in Reqs PROVE Heavy(k)' /\ Slot(k)'
      <3>1. Heavy(k) /\ Slot(k) /\ at[k] \in Nat /\ now \in Nat
        BY DEF Inv, TypeOK
      <3>2. UNCHANGED <<pc, seen, body, model, at, permit>>
        BY <2>1 DEF locals
      <3>3. Heavy(k)'
        BY <1>1, <3>1, <3>2 DEF Heavy, placed
      <3>4. Slot(k)'
        BY <1>1, <1>2, <2>1, <3>1, <3>2 DEF Slot, Applied
      <3> QED
        BY <3>3, <3>4
    <2>4. Rows'
      <3>0. \A v \in revisions : v \in Revision /\ v.at <= now
        BY DEF Inv, TypeOK, Rows
      <3>1. \A v \in revisions : v.at \in Nat /\ v.at <= now'
        BY <2>0, <2>1, <3>0 DEF Revision
      <3> QED
        BY <1>1, <3>1 DEF Inv, Rows
    <2>5. Runs'
      BY <1>1, <1>2, <2>1 DEF Inv, Runs, memory
    <2> QED
      BY <2>2, <2>3, <2>4, <2>5 DEF Inv
  <1>4. CASE Crash
    <2>0. cache' \in [key : Ids' \cup {0}, model : Ids' \cup {0}]
      BY <1>4 DEF Crash, Empty
    <2>1. TypeOK'
      BY <1>1, <1>2, <1>4, <2>0 DEF Crash, Inv, TypeOK, PCs
    <2>2. ASSUME NEW k \in Reqs PROVE Heavy(k)' /\ Slot(k)'
      BY <1>4 DEF Crash, Heavy, Slot
    <2>3. Rows' /\ Runs'
      BY <1>1, <1>2, <1>4 DEF Crash, Inv, Rows, Runs, Empty
    <2> QED
      BY <2>1, <2>2, <2>3 DEF Inv
  <1>5. CASE Load
    <2>1. /\ UNCHANGED <<cache, locals, now, permit>> /\ up' \in BOOLEAN
          /\ build' \in Builds
          /\ active' \in {0, CurrentRevision.preview}
          /\ unreadable' \in {0, CurrentRevision.seq}
      BY <1>5 DEF Load
    <2>2. revisions = {} => CurrentRevision.preview = 0 /\ CurrentRevision.seq = 0
      BY DEF CurrentRevision, NoRevision
    <2>3. revisions # {} =>
            /\ CurrentRevision.preview \in Ids /\ CurrentRevision.seq \in Nat
            /\ Applied(CurrentRevision.preview)
      <3>1. \A v \in revisions : v.preview \in Ids /\ v.seq \in Nat /\ Applied(v.preview)
        <4>1. \A v \in revisions : v \in Revision /\ v.preview \in Ids
          BY DEF Inv, TypeOK
        <4>2. \A v \in revisions : v.seq \in DOMAIN applied /\ applied[v.seq] = v.preview
          BY DEF Inv, Rows
        <4>3. \A v \in revisions : v.seq \in Nat
          BY <4>1 DEF Revision
        <4> QED
          BY <4>1, <4>2, <4>3 DEF Applied
      <3> QED
        BY <3>1, CurrentIsLast
    <2>4. active' \in Ids \cup {0} /\ unreadable' \in Nat /\ (active' # 0 => Applied(active'))
      BY <2>1, <2>2, <2>3
    <2>5. TypeOK'
      BY <1>1, <1>2, <2>1, <2>4 DEF Inv, TypeOK, locals
    <2>6. ASSUME NEW k \in Reqs PROVE Heavy(k)' /\ Slot(k)'
      <3>1. Heavy(k) /\ Slot(k)
        BY DEF Inv
      <3>2. UNCHANGED <<pc, seen, body, model, at, permit, now>>
        BY <2>1 DEF locals
      <3>3. Heavy(k)'
        BY <1>1, <3>1, <3>2 DEF Heavy, placed
      <3>4. Slot(k)'
        BY <1>1, <1>2, <3>1, <3>2 DEF Slot, Applied
      <3> QED
        BY <3>3, <3>4
    <2>7. Rows' /\ Runs'
      BY <1>1, <1>2, <2>1, <2>4 DEF Inv, Rows, Runs, Applied
    <2> QED
      BY <2>5, <2>6, <2>7 DEF Inv
  <1>6. CASE UNCHANGED vars
    BY <1>6 DEF vars, tables, memory, locals, Inv, TypeOK, Heavy, Slot, Rows, Runs, Applied, Ids, placed
  <1> QED
    BY <1>3, <1>4, <1>5, <1>6

LEMMA InvStep ==
  ASSUME Inv, [Next]_vars
  PROVE  Inv'
  BY InvStart, InvRead, InvPlace, InvAnswer, InvDiscard, InvCommit, InvReplace, InvEnvironment
  DEF Next, Step, HeavyStep, LightStep

LEMMA InvAlways == Spec => []Inv
  BY InvInit, InvStep, PTL DEF Spec

\* Every variable keeps the type declared for it.
THEOREM DslTypesHold == Spec => []TypeOK
  BY InvAlways, PTL DEF Inv

\* Only what was applied runs or is reported, and the model that is swapped in was
\* read from the body that was applied (DslLifecycle.apply).
THEOREM OnlyAppliedDslRuns == Spec => []OnlyAppliedRuns
  <1>1. Inv => OnlyAppliedRuns
    BY DEF Inv, OnlyAppliedRuns, Slot, Runs, Applied
  <1> QED
    BY <1>1, InvAlways, PTL

\* The revision that is current by date, which the status shows and a start loads,
\* is the one applied last (DslAppliedRevisionRepository).
THEOREM CurrentWasAppliedLast ==
  Spec => [](revisions # {} => CurrentRevision.preview = applied[Len(applied)])
  <1>1. Inv => (revisions # {} => CurrentRevision.preview = applied[Len(applied)])
    BY CurrentIsLast
  <1> QED
    BY <1>1, InvAlways, PTL

-----------------------------------------------------------------------------
\* The rows of the history are the last applications, one each.
Kept ==
  /\ \A v, w \in revisions : v.seq = w.seq => v = w
  /\ \A i \in DOMAIN applied : i > Len(applied) - HistoryLimit => \E v \in revisions : v.seq = i
  /\ \A v \in revisions : v.seq > Len(applied) - HistoryLimit

\* What the cutting keeps, of rows numbered without a gap: those less than HistoryLimit from the end.
LEMMA NewestOfRow ==
  ASSUME NEW n \in Nat, NEW rows, NEW m \in rows, m.seq \in 1..n,
         \A v, w \in rows : v.seq = w.seq => v = w,
         \A v \in rows : v.seq \in 1..n,
         \A i \in 1..n : i > m.seq => \E v \in rows : v.seq = i
  PROVE  m \in Newest(rows) <=> n - m.seq < HistoryLimit
  <1> DEFINE above == {w \in rows : w.seq > m.seq}
             f == [w \in above |-> w.seq]
  <1>1. ExistsBijection(above, (m.seq + 1)..n)
    <2>1. f \in [above -> (m.seq + 1)..n]
      OBVIOUS
    <2>2. \A v, w \in above : f[v] = f[w] => v = w
      OBVIOUS
    <2>3. \A i \in (m.seq + 1)..n : \E v \in above : f[v] = i
      OBVIOUS
    <2> QED
      BY <2>1, <2>2, <2>3, Fun_IsBij, Fun_ExistsBij
  <1>2. Cardinality(above) = n - m.seq
    <2>1. ExistsBijection((m.seq + 1)..n, above)
      BY <1>1, Fun_ExistsBijSymmetric
    <2>2. IsFiniteSet((m.seq + 1)..n) /\ Cardinality((m.seq + 1)..n) = n - m.seq
      <3>1. m.seq \in Int /\ m.seq + 1 \in Int /\ n \in Int /\ m.seq <= n
        OBVIOUS
      <3>2. /\ IsFiniteSet((m.seq + 1)..n)
            /\ Cardinality((m.seq + 1)..n) = IF m.seq + 1 > n THEN 0 ELSE n - (m.seq + 1) + 1
        BY <3>1, FS_Interval
      <3> QED
        BY <3>1, <3>2
    <2> QED
      BY <2>1, <2>2, FS_Bijection
  <1> QED
    BY <1>2 DEF Newest

LEMMA KeptStep ==
  ASSUME Inv, Kept, [Next]_vars
  PROVE  Kept'
  <1>1. CASE UNCHANGED <<revisions, applied>>
    BY <1>1 DEF Kept
  <1>2. CASE \E r \in Reqs : CommitApply(r) /\ ~EndUnchanged(r)
    <2>1. PICK r \in Reqs : CommitApply(r) /\ ~EndUnchanged(r)
      BY <1>2
    <2> DEFINE n == Len(applied)
               new == [seq |-> n + 1, preview |-> seen[r], at |-> at[r]]
               rows == revisions \cup {new}
    <2>2. revisions' = Newest(rows) /\ applied' = Append(applied, seen[r]) /\ seen[r] \in Ids
      BY <2>1 DEF CommitApply, NextSeq, Inv, Slot
    <2>3. n \in Nat /\ DOMAIN applied = 1..n /\ \A v \in revisions : v.seq \in 1..n
      BY Sequences DEF Inv, Rows
    <2>4. Len(applied') = n + 1 /\ DOMAIN applied' = 1..(n + 1)
      <3>1. applied' \in Seq(Ids) /\ Len(applied') = n + 1
        BY <2>2, Sequences, AppendProperties
      <3> QED
        BY <3>1, LenProperties
    <2>5. /\ \A v, w \in rows : v.seq = w.seq => v = w
          /\ \A v \in rows : v.seq \in 1..(n + 1)
          /\ \A i \in 1..(n + 1) : i > n - HistoryLimit => \E v \in rows : v.seq = i
          /\ \A v \in rows : v.seq > n - HistoryLimit
      <3>1. new.seq = n + 1 /\ new \in rows /\ \A v \in rows : v \in revisions \/ v = new
        OBVIOUS
      <3>2. n + 1 \in 1..(n + 1) /\ n + 1 > n - HistoryLimit /\ \A i \in 1..n : i \in 1..(n + 1) /\ i # n + 1
        BY <2>3, LimitsAssumption
      <3>3. \A i \in 1..(n + 1) : i \in 1..n \/ i = n + 1
        BY <2>3
      <3> HIDE DEF new, rows
      <3>4. \A v \in rows : v.seq \in 1..(n + 1) /\ v.seq > n - HistoryLimit
        BY <2>3, <3>1, <3>2 DEF Kept
      <3>5. \A i \in 1..(n + 1) : i > n - HistoryLimit => \E v \in rows : v.seq = i
        <4>1. revisions \subseteq rows
          BY DEF rows
        <4> QED
          BY <2>3, <3>1, <3>3, <4>1 DEF Kept
      <3>6. \A v, w \in rows : v.seq = w.seq => v = w
        BY <2>3, <3>1, <3>2 DEF Kept
      <3> QED
        BY <3>4, <3>5, <3>6
    <2>6. ASSUME NEW m \in rows PROVE m \in revisions' <=> m.seq > n + 1 - HistoryLimit
      <3>1. \A i \in 1..(n + 1) : i > m.seq => \E v \in rows : v.seq = i
        BY <2>3, <2>5, LimitsAssumption
      <3>2. m \in Newest(rows) <=> (n + 1) - m.seq < HistoryLimit
        BY <2>3, <2>5, <3>1, NewestOfRow
      <3> QED
        BY <2>2, <2>3, <2>5, <3>2, LimitsAssumption
    <2>7. revisions' \subseteq rows
      BY <2>2 DEF Newest
    <2> QED
      BY <2>3, <2>4, <2>5, <2>6, <2>7, LimitsAssumption DEF Kept
  <1>3. CASE Tick \/ Crash \/ Load \/ UNCHANGED vars
    BY <1>1, <1>3 DEF Tick, Crash, Load, vars, tables
  <1>4. ASSUME NEW r \in Reqs,
               Submit(r) \/ Restore(r) \/ Show(r) \/ Discard(r) \/ Apply(r) \/ Fail(r)
               \/ Place(r) \/ ReadPreview(r) \/ CacheModel(r) \/ DiscardPreview(r) \/ CheckBeforeApply(r)
               \/ FindPreview(r) \/ CopyPreview(r) \/ EndUnchanged(r) \/ ReplaceModel(r)
               \/ ReportApplied(r) \/ ClearCache(r)
        PROVE  Kept'
    <2>1. UNCHANGED <<revisions, applied>>
      BY <1>4 DEF Submit, Restore, Show, Discard, Apply, Fail, Place, ReadPreview, CacheModel, DiscardPreview,
         CheckBeforeApply, FindPreview, CopyPreview, StillThere, EndUnchanged, ReplaceModel, ReportApplied, ClearCache, tables
    <2> QED
      BY <1>1, <2>1
  <1> QED
    BY <1>2, <1>3, <1>4 DEF Next, Step, HeavyStep, LightStep

\* However many applications run at once, the history is the last HistoryLimit of
\* them in the order of their commits, and its first row by date is the last one
\* (DslRecordStore.apply, deleteOlderThanNewest).
THEOREM HistoryIsTheNewest == Spec => []HistoryIsNewest
  <1>1. Init => Kept
    <2>1. DOMAIN <<>> = {}
      OBVIOUS
    <2> QED
      BY <2>1 DEF Init, Kept
  <1>2. Inv /\ Kept => HistoryIsNewest
    <2>1. SUFFICES ASSUME Inv, Kept PROVE HistoryIsNewest
      OBVIOUS
    <2>2. /\ DOMAIN applied = 1..Len(applied) /\ Len(applied) \in Nat
          /\ \A v \in revisions : v.seq \in DOMAIN applied /\ applied[v.seq] = v.preview
          /\ applied # <<>> => revisions # {}
      BY <2>1, Sequences DEF Inv, Rows
    <2>3. {v.preview : v \in revisions} = {applied[i] : i \in {j \in DOMAIN applied : j > Len(applied) - HistoryLimit}}
      <3>1. ASSUME NEW v \in revisions
            PROVE  \E i \in {j \in DOMAIN applied : j > Len(applied) - HistoryLimit} : applied[i] = v.preview
        BY <2>1, <2>2 DEF Kept
      <3>2. ASSUME NEW i \in DOMAIN applied, i > Len(applied) - HistoryLimit
            PROVE  \E v \in revisions : v.preview = applied[i]
        BY <2>1, <2>2, <3>2 DEF Kept
      <3> QED
        BY <3>1, <3>2
    <2>4. applied # <<>> => CurrentRevision.preview = applied[Len(applied)]
      BY <2>1, <2>2, CurrentIsLast
    <2> QED
      BY <2>3, <2>4 DEF HistoryIsNewest
  <1> QED
    BY <1>1, <1>2, KeptStep, InvAlways, PTL DEF Spec

-----------------------------------------------------------------------------
\* No application commits or swaps its model between the commit and the swap of
\* another.
OneAtATime ==
  \A r, s \in Reqs : pc[r] = "replacing" /\ pc[s] \in {"deleting", "replacing"} => r = s

\* What runs is right, or will be as soon as the model of the last application is
\* swapped in.  The revision that could not be read is one of the applied.
Current == IF unreadable # 0 /\ unreadable = CurrentRevision.seq THEN 0 ELSE CurrentRevision.preview
Swapping(r) ==
  pc[r] = "replacing" =>
    revisions # {} /\ seen[r] = CurrentRevision.preview /\ unreadable # CurrentRevision.seq
RunsInv ==
  /\ ~up => \A r \in Reqs : pc[r] = "idle"
  /\ unreadable <= Len(applied)
  /\ \A r \in Reqs : Swapping(r)
  /\ up /\ (\A r \in Reqs : pc[r] # "replacing") => active = Current

\* CurrentIsLast as a formula, to be used of the next state.
LastIsCurrent ==
  Inv /\ revisions # {} => CurrentRevision.preview = applied[Len(applied)] /\ CurrentRevision.seq = Len(applied)

LEMMA CurrentAlways == LastIsCurrent
  BY CurrentIsLast DEF LastIsCurrent

LEMMA RunsCommit ==
  ASSUME Inv, Inv', RunsInv, OneAtATime, NEW r \in Reqs, CommitApply(r), ~EndUnchanged(r),
         LastIsCurrent'
  PROVE  RunsInv'
  <1>1. /\ pc[r] = "deleting" /\ pc' = [pc EXCEPT ![r] = "replacing"] /\ applied' = Append(applied, seen[r])
        /\ UNCHANGED <<active, cache, unreadable, up, seen, model>> /\ seen[r] \in Ids
    BY DEF CommitApply, Goto, memory, Inv, Slot
  <1>2. Len(applied') = Len(applied) + 1 /\ applied'[Len(applied')] = seen[r] /\ Len(applied) \in Nat /\ unreadable \in Nat
    <2>1. applied \in Seq(Ids) /\ Len(applied) \in Nat /\ unreadable \in Nat
      BY Sequences DEF Inv, TypeOK
    <2> QED
      BY <1>1, <2>1, AppendProperties
  <1>3. revisions' # {}
    <2>1. applied' # <<>>
      BY <1>1, Sequences, AppendProperties
    <2> QED
      BY <2>1 DEF Inv, Rows
  <1>4. CurrentRevision'.preview = seen[r] /\ CurrentRevision'.seq = Len(applied) + 1
    BY <1>2, <1>3 DEF LastIsCurrent
  <1>5. pc'[r] = "replacing" /\ \A k \in Reqs \ {r} : pc'[k] = pc[k] /\ pc[k] # "replacing"
    BY <1>1 DEF OneAtATime, Inv, TypeOK
  <1>6. ASSUME NEW k \in Reqs PROVE Swapping(k)'
    BY <1>1, <1>2, <1>3, <1>4, <1>5 DEF RunsInv, Swapping
  <1>7. up'
    BY <1>1 DEF RunsInv
  <1> QED
    BY <1>1, <1>2, <1>5, <1>6, <1>7 DEF RunsInv

LEMMA RunsReplace ==
  ASSUME Inv, RunsInv, OneAtATime, NEW r \in Reqs, ReplaceModel(r), ~EndUnchanged(r)
  PROVE  RunsInv'
  <1>1. /\ pc[r] = "replacing" /\ pc' = [pc EXCEPT ![r] = "reporting"] /\ model[r] = seen[r] /\ seen[r] \in Ids
        /\ UNCHANGED <<tables, unreadable, up, seen>>
        /\ active' = IF model[r] # 0 THEN model[r] ELSE seen[r]
    BY DEF ReplaceModel, Goto, Inv, Slot
  <1>2. active' = CurrentRevision.preview /\ unreadable # CurrentRevision.seq
    BY <1>1 DEF RunsInv, Swapping, Ids
  <1>3. UNCHANGED <<CurrentRevision, revisions, applied>>
    BY <1>1 DEF CurrentRevision, tables
  <1>4. \A k \in Reqs : pc'[k] # "replacing"
    BY <1>1 DEF OneAtATime, Inv, TypeOK
  <1>5. active' = Current'
    BY <1>1, <1>2, <1>3 DEF Current
  <1>6. up'
    BY <1>1 DEF RunsInv
  <1> QED
    BY <1>1, <1>3, <1>4, <1>5, <1>6 DEF RunsInv, Swapping

\* A step that is no commit, no swap, no start and no end of the process.
LEMMA RunsElsewhere ==
  ASSUME Inv, RunsInv, UNCHANGED <<revisions, applied, active, unreadable, up>>,
         NEW r \in Reqs, pc[r] # "replacing", up \/ UNCHANGED pc,
         \E to \in PCs \ {"replacing"} : pc' = [pc EXCEPT ![r] = to],
         \A k \in Reqs : k # r => seen'[k] = seen[k]
  PROVE  RunsInv'
  <1>1. UNCHANGED CurrentRevision
    BY DEF CurrentRevision
  <1>2. \A k \in Reqs : pc'[k] = "replacing" <=> pc[k] = "replacing"
    BY DEF Inv, TypeOK
  <1>3. \A k \in Reqs : Swapping(k)'
    BY <1>1, <1>2 DEF RunsInv, Swapping
  <1>4. UNCHANGED Current
    BY <1>1 DEF Current
  <1> QED
    BY <1>2, <1>3, <1>4 DEF RunsInv

LEMMA RunsStep ==
  ASSUME Inv, Inv', RunsInv, OneAtATime, [Next]_vars,
         LastIsCurrent'
  PROVE  RunsInv'
  <1> USE DEF tables, memory
  <1>1. ASSUME NEW r \in Reqs, EndUnchanged(r), pc[r] \notin {"idle", "replacing"} PROVE RunsInv'
    <2>1. up
      BY <1>1 DEF RunsInv
    <2>2. pc' = [pc EXCEPT ![r] = "idle"] /\ \A k \in Reqs : k # r => seen'[k] = seen[k]
      BY <1>1 DEF EndUnchanged, End, Goto, Inv, TypeOK
    <2> QED
      BY <1>1, <2>1, <2>2, RunsElsewhere DEF EndUnchanged, PCs
  <1>2. ASSUME NEW r \in Reqs, Submit(r) \/ Restore(r) \/ Show(r) \/ Discard(r) \/ Apply(r) PROVE RunsInv'
    <2>1. up /\ pc[r] = "idle" /\ \A k \in Reqs : k # r => seen'[k] = seen[k]
      BY <1>2 DEF Submit, Restore, Show, Discard, Apply, Enter, Inv, TypeOK
    <2>2. \E to \in PCs \ {"replacing"} : pc' = [pc EXCEPT ![r] = to]
      BY <1>2 DEF Submit, Restore, Show, Discard, Apply, Goto, PCs
    <2>3. UNCHANGED <<revisions, applied, active, unreadable, up>>
      BY <1>2 DEF Submit, Restore, Show, Discard, Apply
    <2> QED
      BY <2>1, <2>2, <2>3, RunsElsewhere
  <1>3. ASSUME NEW r \in Reqs, ~EndUnchanged(r),
               Place(r) \/ ReadPreview(r) \/ CacheModel(r) \/ DiscardPreview(r) \/ CheckBeforeApply(r)
               \/ FindPreview(r) \/ CopyPreview(r) \/ ReportApplied(r) \/ ClearCache(r)
        PROVE  RunsInv'
    <2>1. up /\ pc[r] # "replacing" /\ \A k \in Reqs : k # r => seen'[k] = seen[k]
      BY <1>3 DEF Place, ReadPreview, CacheModel, DiscardPreview, CheckBeforeApply, FindPreview, CopyPreview, StillThere,
         ReportApplied, ClearCache, End, RunsInv, Inv, TypeOK
    <2>2. \E to \in PCs \ {"replacing"} : pc' = [pc EXCEPT ![r] = to]
      BY <1>3 DEF Place, ReadPreview, CacheModel, DiscardPreview, CheckBeforeApply, FindPreview, CopyPreview, StillThere,
         ReportApplied, ClearCache, End, Goto, PCs
    <2>3. UNCHANGED <<revisions, applied, active, unreadable, up>>
      BY <1>3 DEF Place, ReadPreview, CacheModel, DiscardPreview, CheckBeforeApply, FindPreview, CopyPreview, StillThere,
         ReportApplied, ClearCache
    <2> QED
      BY <2>1, <2>2, <2>3, RunsElsewhere
  <1>4. ASSUME NEW r \in Reqs, CommitApply(r) PROVE RunsInv'
    <2>1. CASE EndUnchanged(r)
      BY <1>1, <1>4, <2>1 DEF CommitApply
    <2>2. CASE ~EndUnchanged(r)
      BY <1>4, <2>2, RunsCommit
    <2> QED
      BY <2>1, <2>2
  <1>5. ASSUME NEW r \in Reqs, ReplaceModel(r) PROVE RunsInv'
    <2>1. ~EndUnchanged(r)
      <3>0. pc[r] = "replacing" /\ seen[r] \in Ids /\ model[r] = seen[r]
        BY <1>5 DEF ReplaceModel, Inv, Slot
      <3>1. model[r] # 0
        BY <3>0, Sequences DEF Ids, placed
      <3>2. pc' = [pc EXCEPT ![r] = "reporting"]
        BY <1>5, <3>1 DEF ReplaceModel, Goto
      <3>3. pc \in [Reqs -> PCs]
        BY DEF Inv, TypeOK
      <3> QED
        BY <3>2, <3>3 DEF EndUnchanged, End, Goto
    <2> QED
      BY <1>5, <2>1, RunsReplace
  <1>6. ASSUME NEW r \in Reqs,
               Place(r) \/ ReadPreview(r) \/ CacheModel(r) \/ DiscardPreview(r) \/ CheckBeforeApply(r)
               \/ FindPreview(r) \/ CopyPreview(r) \/ ReportApplied(r) \/ ClearCache(r) \/ Fail(r)
        PROVE  pc[r] \notin {"idle", "replacing"}
    BY <1>6 DEF Place, ReadPreview, CacheModel, DiscardPreview, CheckBeforeApply, FindPreview, CopyPreview, StillThere,
       ReportApplied, ClearCache, Fail
  <1>7. CASE Tick \/ UNCHANGED vars
    <2>1. UNCHANGED <<revisions, applied, active, unreadable, up, pc, seen>>
      BY <1>7 DEF Tick, vars, locals
    <2>2. UNCHANGED CurrentRevision
      BY <2>1 DEF CurrentRevision
    <2> QED
      BY <2>1, <2>2 DEF RunsInv, Swapping, Current
  <1>8. CASE Crash
    <2>1. ~up' /\ unreadable' = 0 /\ (\A k \in Reqs : pc'[k] = "idle") /\ UNCHANGED applied
      BY <1>8 DEF Crash
    <2>2. Len(applied) \in Nat
      BY Sequences
    <2> QED
      BY <2>1, <2>2 DEF RunsInv, Swapping
  <1>9. CASE Load
    <2>1. /\ \A k \in Reqs : pc'[k] = "idle"
          /\ UNCHANGED <<revisions, applied, CurrentRevision>> /\ Len(applied) \in Nat
      BY <1>9, Sequences DEF Load, RunsInv, locals, CurrentRevision
    <2>2. \/ /\ active' = CurrentRevision.preview /\ unreadable' = 0
          \/ /\ active' = 0 /\ unreadable' = CurrentRevision.seq /\ revisions # {} /\ CurrentRevision.seq # 0
          \/ /\ active' = 0 /\ unreadable' = 0 /\ CurrentRevision.preview = 0
      <3>1. revisions = {} => CurrentRevision.preview = 0 /\ CurrentRevision.seq = 0
        BY DEF CurrentRevision, NoRevision
      <3>2. revisions # {} => CurrentRevision.seq = Len(applied) /\ Len(applied) # 0
        BY CurrentIsLast, Sequences DEF Inv, Rows
      <3> QED
        BY <1>9, <3>1, <3>2 DEF Load
    <2>3. active' = Current' /\ unreadable' <= Len(applied')
      <3>1. revisions # {} => CurrentRevision.seq = Len(applied)
        BY CurrentIsLast
      <3> QED
        BY <2>1, <2>2, <3>1 DEF Current
    <2> QED
      BY <1>9, <2>1, <2>3 DEF Load, RunsInv, Swapping
  <1> QED
    BY <1>1, <1>2, <1>3, <1>4, <1>5, <1>6, <1>7, <1>8, <1>9 DEF Next, Step, HeavyStep, LightStep, Fail

\* It holds at the first start, and it says what runs.
LEMMA RunsInit == Init => RunsInv
  <1>1. Len(<<>>) = 0
    OBVIOUS
  <1>2. Init => ~up /\ (\A r \in Reqs : pc[r] = "idle") /\ unreadable = 0 /\ applied = <<>>
    BY DEF Init
  <1> QED
    BY <1>1, <1>2 DEF RunsInv, Swapping

LEMMA RunsShows == RunsInv => CurrentRuns
  BY DEF RunsInv, CurrentRuns, Current

\* As long as the applications come one at a time, what runs is the revision the
\* status calls current, or nothing if the status says that it could not be read;
\* starts, crashes and all other requests may come between (apply, DslStartupLoader).
\* Without that the code does not keep it: a swap can overtake another.
THEOREM CurrentRunsOneAtATime == Spec /\ []OneAtATime => []CurrentRuns
  <1>1. Inv /\ Inv' /\ RunsInv /\ OneAtATime /\ [Next]_vars /\ LastIsCurrent' => RunsInv'
    BY RunsStep
  <1> QED
    BY <1>1, RunsInit, RunsShows, CurrentAlways, InvAlways, PTL DEF Spec

\* MCDslLifecycle, when r1 alone applies: no other request is within an application.
AppliesAlone ==
  alone => \A r \in Reqs \ {r1} :
    pc[r] \notin {"checking", "finding", "copying", "deleting", "replacing", "reporting"}

LEMMA AppliesAloneStep ==
  ASSUME Inv, AppliesAlone, [MCNext]_mcVars
  PROVE  AppliesAlone'
  <1> SUFFICES ASSUME alone, NEW r \in Reqs \ {r1},
                      pc[r] \notin {"checking", "finding", "copying", "deleting", "replacing", "reporting"}
               PROVE  pc'[r] \notin {"checking", "finding", "copying", "deleting", "replacing", "reporting"}
    BY DEF AppliesAlone, MCNext, mcVars
  <1> USE DEF Inv, TypeOK
  <1>1. CASE UNCHANGED mcVars \/ Tick \/ Crash \/ Load
    BY <1>1 DEF mcVars, vars, locals, Tick, Crash, Load
  <1>2. ASSUME NEW s \in Reqs,
               Submit(s) \/ Restore(s) \/ Show(s) \/ Discard(s) \/ Fail(s) \/ Place(s) \/ ReadPreview(s)
               \/ CacheModel(s) \/ DiscardPreview(s) \/ ClearCache(s)
        PROVE  pc'[r] \notin {"checking", "finding", "copying", "deleting", "replacing", "reporting"}
    BY <1>2 DEF Submit, Restore, Show, Discard, Fail, Place, ReadPreview, CacheModel, DiscardPreview,
       ClearCache, EndUnchanged, End, Goto
  <1>3. ASSUME NEW s \in Reqs,
               CheckBeforeApply(s) \/ FindPreview(s) \/ CopyPreview(s) \/ CommitApply(s)
               \/ ReplaceModel(s) \/ ReportApplied(s)
        PROVE  pc'[r] \notin {"checking", "finding", "copying", "deleting", "replacing", "reporting"}
    <2>1. s # r
      BY <1>3 DEF CheckBeforeApply, FindPreview, CopyPreview, StillThere, CommitApply, ReplaceModel,
         ReportApplied
    <2> QED
      BY <1>3, <2>1 DEF CheckBeforeApply, FindPreview, CopyPreview, StillThere, CommitApply, ReplaceModel,
         ReportApplied, EndUnchanged, End, Goto
  <1>4. ASSUME NEW s \in Reqs, Apply(s), MCNext
        PROVE  pc'[r] \notin {"checking", "finding", "copying", "deleting", "replacing", "reporting"}
    <2>1. s # r
      BY <1>4 DEF MCNext, Apply
    <2> QED
      BY <1>4, <2>1 DEF Apply, Goto
  <1> QED
    BY <1>1, <1>2, <1>3, <1>4 DEF MCNext, Next, Step, HeavyStep, LightStep

\* While r1 alone applies, however the other requests, starts and crashes come
\* between, what runs is the revision the status calls current, or nothing if the
\* status says that it could not be read (apply, DslStartupLoader).
THEOREM CurrentRunsWithOneApplier == MCSpec => []CurrentRunsAlone
  <1>1. MCInit => Init /\ AppliesAlone /\ RunsInv
    <2>1. MCInit => Init /\ AppliesAlone
      BY DEF MCInit, Init, AppliesAlone
    <2> QED
      BY <2>1, RunsInit DEF MCInit
  <1>2. Inv /\ AppliesAlone /\ [MCNext]_mcVars => AppliesAlone'
    BY AppliesAloneStep
  <1>3. [MCNext]_mcVars => [Next]_vars /\ UNCHANGED alone
    BY DEF MCNext, mcVars
  <1>4. AppliesAlone /\ alone => OneAtATime
    BY DEF AppliesAlone, OneAtATime
  <1>5. Inv /\ Inv' /\ RunsInv /\ OneAtATime /\ [Next]_vars /\ LastIsCurrent' => RunsInv'
    BY RunsStep
  <1> DEFINE Good == alone => RunsInv
  <1>6. Inv /\ Inv' /\ Good /\ AppliesAlone /\ [MCNext]_mcVars /\ LastIsCurrent' => Good'
    BY <1>3, <1>4, <1>5
  <1>7. Good => CurrentRunsAlone
    BY RunsShows DEF CurrentRunsAlone
  <1>8. MCInit => Good
    BY <1>1
  <1>9. MCSpec => Spec
    <2> QED
      BY <1>1, <1>3, PTL DEF MCSpec, Spec
  <1> HIDE DEF Good
  <1> QED
    BY <1>1, <1>2, <1>6, <1>7, <1>8, <1>9, CurrentAlways, InvAlways, PTL DEF MCSpec

\* One step of the component is one operation of the store, or none.
LEMMA StepOfStore ==
  ASSUME Inv, [Next]_vars
  PROVE  [Store!StoreNext]_(Store!storeVars)
  <1> USE DEF Store!storeVars, Store!StoreNext
  <1>1. ASSUME UNCHANGED tables PROVE UNCHANGED Store!storeVars
    BY <1>1 DEF tables, placed
  <1>2. ASSUME NEW r \in Reqs, EndUnchanged(r) PROVE UNCHANGED Store!storeVars
    BY <1>1, <1>2 DEF EndUnchanged
  <1>3. ASSUME NEW r \in Reqs, Place(r) PROVE Store!StorePlace
    <2>1. bodies \in Seq(Texts) /\ body[r] \in Texts /\ placed < MaxPlaced
      BY <1>3, Sequences DEF Inv, Heavy, Place
    <2>2. placed' = placed + 1
      BY <1>3, <2>1, AppendProperties DEF Place, placed
    <2> QED
      BY <1>3, <2>1, <2>2 DEF Place, Store!StorePlace
  <1>4. ASSUME NEW r \in Reqs, DiscardPreview(r), ~EndUnchanged(r) PROVE Store!StoreDiscard
    <2>1. preview = seen[r] /\ preview' = 0 /\ UNCHANGED <<bodies, applied>> /\ seen[r] \in Ids
      BY <1>4 DEF DiscardPreview, Inv, Slot
    <2> QED
      BY <2>1 DEF Store!StoreDiscard, Ids, placed
  <1>5. ASSUME NEW r \in Reqs, CommitApply(r), ~EndUnchanged(r) PROVE Store!StoreApply
    <2>1. /\ preview = seen[r] /\ preview' = 0 /\ UNCHANGED bodies /\ seen[r] \in Ids
          /\ applied' = Append(applied, seen[r])
      BY <1>5 DEF CommitApply, Inv, Slot
    <2> QED
      BY <2>1 DEF Store!StoreApply, Ids, placed
  <1>6. ASSUME NEW r \in Reqs,
               Submit(r) \/ Restore(r) \/ Show(r) \/ Discard(r) \/ Apply(r) \/ ReadPreview(r)
               \/ CacheModel(r) \/ CheckBeforeApply(r) \/ FindPreview(r) \/ CopyPreview(r)
               \/ ReplaceModel(r) \/ ReportApplied(r) \/ ClearCache(r) \/ Fail(r)
        PROVE  UNCHANGED Store!storeVars
    BY <1>1, <1>2, <1>6 DEF Submit, Restore, Show, Discard, Apply, ReadPreview, CacheModel,
       CheckBeforeApply, FindPreview, CopyPreview, StillThere, ReplaceModel, ReportApplied,
       ClearCache, Fail
  <1>7. CASE Tick \/ Crash \/ Load \/ UNCHANGED vars
    BY <1>1, <1>7 DEF Tick, Crash, Load, vars
  <1> QED
    BY <1>2, <1>3, <1>4, <1>5, <1>6, <1>7 DEF Next, Step, HeavyStep, LightStep

\* The operations of the store keep its promise.
LEMMA StoreStep ==
  ASSUME Store!StoreInv, [Store!StoreNext]_(Store!storeVars)
  PROVE  Store!StoreInv'
  <1> USE DEF Store!StoreInv, Store!AppliedOnce
  <1>1. CASE Store!StorePlace
    <2>1. /\ placed' = placed + 1 /\ preview' = placed + 1 /\ applied' = applied
          /\ \A i \in DOMAIN applied : applied[i] \in 1..placed
      BY <1>1 DEF Store!StorePlace
    <2>2. applied \in Seq(1..(placed + 1))
      BY <2>1
    <2> QED
      BY <2>1, <2>2
  <1>2. CASE Store!StoreDiscard
    BY <1>2 DEF Store!StoreDiscard
  <1>3. CASE Store!StoreApply
    <2>1. /\ preview \in 1..placed /\ placed' = placed /\ preview' = 0
          /\ applied' = Append(applied, preview)
      BY <1>3 DEF Store!StoreApply
    <2>2. /\ applied' \in Seq(1..placed)
          /\ DOMAIN applied = 1..Len(applied) /\ DOMAIN applied' = 1..(Len(applied) + 1)
          /\ Len(applied) \in Nat
          /\ \A i \in 1..Len(applied) : applied'[i] = applied[i]
          /\ applied'[Len(applied) + 1] = preview
      BY <2>1
    <2>3. ASSUME NEW i \in DOMAIN applied', NEW j \in DOMAIN applied', i < j
          PROVE  applied'[i] < applied'[j]
      BY <2>1, <2>2, <2>3
    <2> QED
      BY <2>1, <2>2, <2>3
  <1>4. CASE UNCHANGED Store!storeVars
    BY <1>4 DEF Store!storeVars
  <1> QED
    BY <1>1, <1>2, <1>3, <1>4 DEF Store!StoreNext

\* Whatever is placed, discarded and applied, no preview is applied twice or after
\* a younger one (DslRecordStore.apply).
THEOREM StoreKeepsOrder == Store!StoreSpec => []Store!AppliedOnce
  <1>1. Store!StoreInit => Store!StoreInv
    BY DEF Store!StoreInit, Store!StoreInv, Store!AppliedOnce
  <1>2. Store!StoreInv /\ [Store!StoreNext]_(Store!storeVars) => Store!StoreInv'
    BY StoreStep
  <1>3. Store!StoreInv => Store!AppliedOnce
    BY DEF Store!StoreInv
  <1> QED
    BY <1>1, <1>2, <1>3, PTL DEF Store!StoreSpec

\* The requests, interleaved as they may be, work on the tables as the operations
\* of DslHistory do (DslRecordStore).
THEOREM ImplementsStore == Spec => StoreSpec
  <1>1. Init => Store!StoreInit
    BY DEF Init, Store!StoreInit, placed
  <1> QED
    BY <1>1, StepOfStore, InvAlways, PTL DEF Spec, StoreSpec, Store!StoreSpec

\* So a preview is applied at most once and never after a younger one, however
\* many requests there are (DslRecordStore.apply).
THEOREM AppliedAtMostOnce == Spec => []PreviewAppliedOnce
  <1> QED
    BY StoreKeepsOrder, ImplementsStore, PTL DEF StoreSpec, PreviewAppliedOnce
=============================================================================
