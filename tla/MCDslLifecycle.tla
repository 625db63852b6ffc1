--------------------------- MODULE MCDslLifecycle ---------------------------
(* DslLifecycle for TLC: two bodies, and builds that stop reading one.       *)
EXTENDS DslLifecycle, TLC

CONSTANTS r1, r2, r3

TwoReqs == {r1, r2}
ThreeReqs == {r1, r2, r3}
OneApplier == {r1}
TwoBodies == {"old", "new"}
OldBuild == [t \in TwoBodies |-> "valid"]
NewBuild == [t \in TwoBodies |-> IF t = "new" THEN "valid" ELSE "invalid"]
DeepBuild == [t \in TwoBodies |-> IF t = "new" THEN "valid" ELSE "tooDeep"]
AllBuilds == {OldBuild, NewBuild, DeepBuild}
OneBuild == {OldBuild}
Symmetry == Permutations(Reqs)

-----------------------------------------------------------------------------
(* Applications one at a time, all of them by r1, or by any request.         *)
CONSTANT Alones

VARIABLE alone   \* only r1 applies

mcVars == <<vars, alone>>

MCInit == Init /\ alone \in Alones

MCNext ==
  /\ Next
  /\ alone => \A r \in Appliers \ {r1} : ~Apply(r)
  /\ UNCHANGED alone

MCSpec == MCInit /\ [][MCNext]_mcVars
MCFairSpec == MCSpec /\ Fairness

\* With one application at a time, the DSL that runs is the one the status calls
\* current, or nothing if the status says that it could not be read (apply).
CurrentRunsAlone == alone => CurrentRuns
=============================================================================
