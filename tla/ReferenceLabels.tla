---------------------------- MODULE ReferenceLabels ----------------------------
(***************************************************************************)
(* The labels of the values that a row refers to (useReferenceLabels): the *)
(* form reads them one by one, a few at a time; when it is built again on  *)
(* another definition, it starts over and the answers of the reading       *)
(* before are of no use.                                                   *)
(***************************************************************************)
EXTENDS Integers, FiniteSets, Sequences, SequencesExt

CONSTANTS
  Columns,                \* the columns that may refer to another table
  LABEL_READ_CONCURRENCY, \* how many labels are read at a time
  MaxBuilds,              \* how many times the form is built
  None                    \* no reading

LabelsAssumption == IsFiniteSet(Columns) /\ LABEL_READ_CONCURRENCY \in Nat \ {0} /\ MaxBuilds \in Nat

VARIABLES
  items,    \* what the form asks for: its definition (0: none) and the columns, in order
  current,  \* the generation that reads: what is left to send and what was sent; None when there is none
  results,  \* the labels recorded, and the definition they were read for
  old       \* what was sent by generations since given up

labelVars == <<items, current, results, old>>

NoValues == [c \in {} |-> 0]
values == IF results.key = items.key THEN results.values ELSE NoValues
loading == {c \in ToSet(items.columns) : c \notin DOMAIN values}

LabelsInit ==
  /\ items = [key |-> 0, columns |-> <<>>] /\ current = None /\ results = [key |-> 0, values |-> NoValues] /\ old = {}

\* Sends from the front of the queue as many as may be under way.
pump(g) ==
  LET room == LABEL_READ_CONCURRENCY - Cardinality(g.inFlight)
      n == IF Len(g.queue) < room THEN Len(g.queue) ELSE room
  IN  [g EXCEPT !.queue = SubSeq(@, n + 1, Len(@)), !.inFlight = @ \cup ToSet(SubSeq(g.queue, 1, n))]

Aborted == IF current = None THEN {} ELSE {[key |-> current.key, column |-> c] : c \in current.inFlight}
\* The form is built, or built again: the reading before is given up.
Build(columns) ==
  /\ items.key < MaxBuilds /\ items' = [key |-> items.key + 1, columns |-> columns]
  /\ current' = IF columns = <<>> THEN None ELSE pump([key |-> items.key + 1, queue |-> columns, inFlight |-> {}])
  /\ old' = old \cup Aborted /\ UNCHANGED results
Leave ==
  /\ current # None /\ current' = None /\ old' = old \cup Aborted /\ results' = [key |-> 0, values |-> NoValues]
  /\ items' = [items EXCEPT !.columns = <<>>]

Recorded(key, column, label) ==
  [key |-> key, values |-> (column :> label) @@ (IF results.key = key THEN results.values ELSE NoValues)]
\* An answer; a failure leaves the value without a label.
Answered(column, label) ==
  /\ current # None /\ column \in current.inFlight /\ results' = Recorded(current.key, column, label)
  /\ current' = pump([current EXCEPT !.inFlight = @ \ {column}]) /\ UNCHANGED <<items, old>>
Labels(key) == {[read |-> TRUE, key |-> key], [read |-> FALSE, key |-> key]}

OldAnswered(a) == a \in old /\ old' = old \ {a} /\ UNCHANGED <<items, current, results>>

AnyAnswer == \E c \in Columns, k \in 1..MaxBuilds : \E l \in Labels(k) : current # None /\ k = current.key /\ Answered(c, l)
LabelsNext ==
  \/ \E columns \in SetToAllKPermutations(Columns) : Build(columns)
  \/ Leave \/ AnyAnswer \/ \E a \in old : OldAnswered(a)

-----------------------------------------------------------------------------
\* Types, with the ties of a reading: it is of the form as built, and no more is under way than may be.
LabelsTypeOK ==
  /\ items.key \in 0..MaxBuilds /\ ToSet(items.columns) \subseteq Columns
  /\ (current # None => current.key = items.key /\ current.inFlight \subseteq Columns /\ Cardinality(current.inFlight) <= LABEL_READ_CONCURRENCY)
  /\ DOMAIN results.values \subseteq Columns /\ results.key \in 0..items.key
  /\ \A a \in old : a.key \in 1..items.key /\ a.column \in Columns

\* Every column of the form has its label or the failure to read it, or is being read, or waits its turn: none is lost or read
\* twice, and none waits while fewer are under way than may be.
EveryColumnHasItsTurn ==
  current # None =>
    /\ ToSet(items.columns) = ToSet(current.queue) \cup current.inFlight \cup DOMAIN values
    /\ Len(items.columns) = Len(current.queue) + Cardinality(current.inFlight) + Cardinality(DOMAIN values)
    /\ current.queue # <<>> => Cardinality(current.inFlight) = LABEL_READ_CONCURRENCY

\* A label shown was read for the form as it is built now, never for one before it.
LabelsAreOfThisForm == \A c \in DOMAIN values : values[c].key = items.key
==============================================================================
