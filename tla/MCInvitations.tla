---------------------------- MODULE MCInvitations ----------------------------
(* Invitations for TLC.                                                      *)
EXTENDS Invitations, TLC

CONSTANTS e1, e2, r1, r2

OneEmail == {e1}
TwoEmails == {e1, e2}
OneReq == {r1}
TwoReqs == {r1, r2}
Symmetry == Permutations(Reqs) \cup Permutations(Emails)
=============================================================================
