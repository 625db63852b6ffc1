-------------------------- MODULE RegistrationLinks --------------------------
(***************************************************************************)
(* What the invitations promise, whatever administrators and invited       *)
(* people do at the same time: for each address at most one link opens the *)
(* registration, a link that has stopped working never works again, and an *)
(* account is made only through the link that is open at that moment.      *)
(***************************************************************************)
EXTENDS Integers

CONSTANTS
  Emails,    \* addresses
  MaxTokens  \* bound: links that can be issued; they are numbered from 1

VARIABLES
  issued,    \* how many links have been issued
  link,      \* link[e]: the link that opens the registration of e, or 0
  accounts,  \* the addresses that have an account
  by         \* by[e]: the link through which the account of e was made, or 0

linkVars == <<issued, link, accounts, by>>

LinkInit ==
  /\ issued = 0
  /\ link = [e \in Emails |-> 0]
  /\ accounts \in SUBSET Emails
  /\ by = [e \in Emails |-> 0]

\* An invitation or a new mail for it: the link before, if any, is dead.
Issue(e) ==
  /\ issued < MaxTokens
  /\ issued' = issued + 1
  /\ link' = [link EXCEPT ![e] = issued + 1]
  /\ UNCHANGED <<accounts, by>>

\* Links are closed: one at a time by an administrator, several by a cleanup.
Withdraw(gone) ==
  /\ \E e \in gone : link[e] # 0
  /\ link' = [e \in Emails |-> IF e \in gone THEN 0 ELSE link[e]]
  /\ UNCHANGED <<issued, accounts, by>>

Use(e) ==
  /\ link[e] # 0
  /\ e \notin accounts
  /\ accounts' = accounts \cup {e}
  /\ by' = [by EXCEPT ![e] = link[e]]
  /\ link' = [link EXCEPT ![e] = 0]
  /\ UNCHANGED issued

LinkNext ==
  \/ \E e \in Emails : Issue(e) \/ Use(e)
  \/ \E gone \in SUBSET Emails : Withdraw(gone)

LinkSpec == LinkInit /\ [][LinkNext]_linkVars
=============================================================================
