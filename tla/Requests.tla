------------------------------ MODULE Requests ------------------------------
(***************************************************************************)
(* Requests of a screen in flight, as a set of records.  Whether the       *)
(* screen still wants the answer of a request is mine: the screens compare *)
(* a generation counter, an effect that is active or a mounted flag, and   *)
(* each of these says that the request was not superseded since.  A        *)
(* request is served at one moment, which fixes the version of what it     *)
(* read, and answered at a later one.                                      *)
(***************************************************************************)
EXTENDS Naturals, FiniteSets

CONSTANTS
  MaxVersion,   \* bound: how often what the server keeps may change
  MaxInFlight   \* bound on the requests of one kind in flight

RequestsAssumption == MaxVersion \in Nat \ {0} /\ MaxInFlight \in Nat \ {0}

Versions == 0..MaxVersion

Request(about) == [stage |-> "sent", mine |-> TRUE, version |-> 0, about |-> about]
RequestsAbout(Abouts) == [stage : {"sent", "served"}, mine : BOOLEAN, version : Versions, about : Abouts]

\* Nothing in flight is wanted any more.
Dropped(reqs) == {[q EXCEPT !.mine = FALSE] : q \in reqs}

\* A new request supersedes those in flight.
Asked(reqs, about) == Dropped(reqs) \cup {Request(about)}

ServedAt(reqs, q, version) ==
  (reqs \ {q}) \cup {[q EXCEPT !.stage = "served", !.version = version]}

\* An answer may arrive: of what was served, or a failure of the network.
Arrives(q, ok) == q.stage = "served" \/ ~ok

\* Room for one more.
MayAsk(reqs) == Cardinality(reqs) < MaxInFlight

Wanted(reqs) == \E q \in reqs : q.mine
=============================================================================
