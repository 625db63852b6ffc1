------------------------------ MODULE MCScreens ------------------------------
(* The screens of the administration, of the user and of the shell for TLC: *)
(* the router shows one of them, and only that one moves.  Its variables    *)
(* are kept in v1 to v14, so that a state holds one screen; those of the    *)
(* transfer are its own.                                                    *)
EXTENDS TransferScreen, Sequences, TLC

CONSTANTS
  Screens,   \* those this run is about
  MaxVersion, MaxInFlight, MaxPlacements, MaxEpoch, MaxEdits, MaxSwitches, MaxRevision,
  MaxMenuChanges, MaxMyChanges, Languages, RoleIds, NoRole, NoItem, NotKnown,
  r1, r2, s1, s2, t1, t2

VARIABLES screen, v1, v2, v3, v4, v5, v6, v7, v8, v9, v10, v11, v12, v13, v14

vars == <<transferVars, screen, v1, v2, v3, v4, v5, v6, v7, v8, v9, v10, v11, v12, v13, v14>>

Roles == {r1, r2}
Slots == {s1, s2}
MenuTables == {t1, t2}
Menus ==
  {(<<1>> :> NoItem @@ <<1, 1>> :> t1 @@ <<1, 2>> :> t2 @@ <<2>> :> t1),
   (<<1>> :> t2 @@ <<2>> :> NoItem @@ <<2, 1>> :> NoItem @@ <<2, 1, 1>> :> t1),
   <<>>}
\* The first file names one role, the second two; one of them is there from the start.
FilesOfTheRun == (1 :> {"x"} @@ 2 :> {"x", "y"})
RolesBefore == [r \in TransferRoles |-> [name |-> IF r = 1 THEN "x" ELSE "unused", set |-> 0]]
Symmetry == Permutations(Slots) \cup Permutations(Languages)

Users == INSTANCE UserScreen WITH
  users <- v1, userList <- v2, userReqs <- v3, userDialog <- v4, userOp <- v5, rolesReqs <- v6,
  ownUsers <- v7, askedUsers <- v8

Groups == INSTANCE GroupScreens WITH
  named <- v1, namedList <- v2, namedReqs <- v3, namedDialog <- v4, namedOp <- v5, afterClose <- v6,
  ackedNamed <- v7, askedPage <- v8, grp <- v1, grpPage <- v2, grpLoads <- v3, grpOp <- v4, noting <- v5,
  grpAfter <- v6, ackedGrp <- v7

Role == INSTANCE RoleScreens WITH
  exists <- v1, roleAddress <- v2, rolePhase <- v3, role <- v4, readings <- v5, perms <- v1,
  permPage <- v2, schemaReqs <- v3, columnReqs <- v4, tableReqs <- v5, draft <- v6, permOp <- v7,
  retaining <- v8, ackedPerm <- v9, asg <- v1, asgList <- v2, asgReqs <- v3, picker <- v4, pickReqs <- v5,
  impacts <- v6, confirm <- v7, removal <- v8, asgAfter <- v9, ackedAsg <- v10

Invited == INSTANCE InvitationScreen WITH
  invs <- v1, invList <- v2, invReqs <- v3, invite <- v4, resends <- v5, cancelling <- v6, invAfter <- v7,
  ackedInv <- v8

Dsl == INSTANCE DslScreen WITH
  dslS <- v1, dslStatus <- v2, panel <- v3, hist <- v4, tab <- v5, statusReqs <- v6, panelReqs <- v7,
  busy <- v8, calls <- v9, fileRead <- v10, asked <- v11, downloads <- v12, disturbed <- v13

Settings == INSTANCE Preferences WITH
  prefs <- v1, account <- v2, exchange <- v3, savedUser <- v4, preview <- v5, stored <- v6, zone <- v7,
  zoneReqs <- v8, page <- v9, loads <- v10, saves <- v11, acked <- v12, outlived <- v13, overtaken <- v14

Form == INSTANCE Forms WITH
  where <- v1, edits <- v2, cleanAt <- v3, skip <- v4, skipHere <- v5, expiry <- v6, blocked <- v7,
  sending <- v8, clock <- v9, slow <- v10, intended <- v11, markedAt <- v12, unsaved <- v13, link <- v1,
  session <- v2, reg <- v3, verifyReqs <- v4, completion <- v5, handoff <- v6, keptInBrowser <- v7,
  pwd <- v8, pwdReqs <- v9

Shell == INSTANCE ShellMenu WITH
  history <- v1, menuOpen <- v2, roleLoad <- v3, menuLoad <- v4, roleReq <- v5, menuReq <- v6,
  revision <- v7, guarded <- v8, switch <- v9, ackedRole <- v10, menu <- v1, granted <- v2,
  menuChanges <- v3, phase <- v4, reloading <- v5, response <- v6, ofRole <- v7, address <- v8,
  expanded <- v9, key <- v10

Own == INSTANCE MyPermissions WITH
  myServer <- v1, told <- v2, myChanges <- v3, mySwitch <- v4, shell <- v5, top <- v6, topReads <- v7,
  expansion <- v8, tree <- v9, childReads <- v10, tables <- v11, chosen <- v12, columns <- v13,
  columnReads <- v14

ASSUME AdministrationAssumption ==
  Users!RequestsAssumption /\ Role!RolePageAssumption /\ Dsl!DslScreenAssumption
ASSUME OwnPagesAssumption ==
  Settings!PreferencesAssumption /\ Form!FormGuardAssumption /\ Own!MyPermissionsAssumption
ASSUME ShellAssumption ==
  Shell!WorkRoleAssumption /\ Shell!SidebarAssumption /\ Shell!OrderAssumption

-----------------------------------------------------------------------------
\* The places a screen with k variables does not use.
Unused(k) == (k < 6 => v6 = 0) /\ (k < 7 => v7 = 0) /\ (k < 8 => v8 = 0) /\ (k < 9 => v9 = 0) /\
             (k < 10 => v10 = 0) /\ (k < 11 => v11 = 0) /\ (k < 12 => v12 = 0) /\ (k < 13 => v13 = 0) /\ (k < 14 => v14 = 0)

Resting == <<v1, v2, v3, v4, v5, v6, v7, v8, v9, v10, v11, v12, v13, v14>>

Init ==
  /\ screen \in Screens /\ TransferInit
  /\ \/ screen = "users" /\ Users!UserInit /\ Unused(8)
     \/ screen = "names" /\ Groups!NamedInit /\ Unused(8)
     \/ screen = "group" /\ Groups!GrpInit /\ Unused(7)
     \/ screen = "role" /\ Role!RolePageInit /\ Unused(5)
     \/ screen = "permissions" /\ Role!PermInit /\ Unused(9)
     \/ screen = "assignments" /\ Role!AsgInit /\ Unused(10)
     \/ screen = "invitations" /\ Invited!InvInit /\ Unused(8)
     \/ screen = "dsl" /\ Dsl!DslInit /\ Unused(13)
     \/ screen = "transfer" /\ v1 = 0 /\ v2 = 0 /\ v3 = 0 /\ v4 = 0 /\ v5 = 0 /\ Unused(5)
     \/ screen = "preferences" /\ Settings!PreferencesInit
     \/ screen = "form" /\ Form!FormGuardInit /\ Unused(13)
     \/ screen = "setup" /\ Form!SetupInit /\ Unused(9)
     \/ screen = "menu" /\ Shell!MenuInit /\ Unused(10)
     \/ screen = "sidebar" /\ Shell!SidebarInit /\ Unused(10)
     \/ screen = "own" /\ Own!MyInit

OtherScreens ==
  \/ screen = "users" /\ Users!UserNext /\ UNCHANGED <<screen, v9, v10, v11, v12, v13, v14>>
  \/ screen = "names" /\ Groups!NamedNext /\ UNCHANGED <<screen, v9, v10, v11, v12, v13, v14>>
  \/ screen = "group" /\ Groups!GrpNext /\ UNCHANGED <<screen, v8, v9, v10, v11, v12, v13, v14>>
  \/ screen = "role" /\ Role!RolePageNext /\ UNCHANGED <<screen, v6, v7, v8, v9, v10, v11, v12, v13, v14>>
  \/ screen = "permissions" /\ Role!PermNext /\ UNCHANGED <<screen, v10, v11, v12, v13, v14>>
  \/ screen = "assignments" /\ Role!AsgNext /\ UNCHANGED <<screen, v11, v12, v13, v14>>
  \/ screen = "invitations" /\ Invited!InvNext /\ UNCHANGED <<screen, v9, v10, v11, v12, v13, v14>>
  \/ screen = "dsl" /\ Dsl!DslNext /\ UNCHANGED <<screen, v14>>
  \/ screen = "preferences" /\ Settings!PreferencesNext /\ UNCHANGED <<screen>>
  \/ screen = "form" /\ Form!FormGuardNext /\ UNCHANGED <<screen, v14>>
  \/ screen = "setup" /\ Form!SetupNext /\ UNCHANGED <<screen, v10, v11, v12, v13, v14>>
  \/ screen = "menu" /\ Shell!MenuNext /\ UNCHANGED <<screen, v11, v12, v13, v14>>
  \/ screen = "sidebar" /\ Shell!SidebarNext /\ UNCHANGED <<screen, v11, v12, v13, v14>>
  \/ screen = "own" /\ Own!MyNext /\ UNCHANGED <<screen>>

Next ==
  \/ screen = "transfer" /\ TransferNext /\ UNCHANGED <<screen, Resting>>
  \/ OtherScreens /\ UNCHANGED transferVars

Spec == Init /\ [][Next]_vars

-----------------------------------------------------------------------------
\* Each screen has its types, with the ties between what it shows, the calls it
\* has in flight and its dialogs.
ScreensTypeOK ==
  /\ screen = "users" => Users!UserTypeOK
  /\ screen = "names" => Groups!NamedTypeOK
  /\ screen = "group" => Groups!GrpTypeOK
  /\ screen = "role" => Role!RolePageTypeOK
  /\ screen = "permissions" => Role!PermTypeOK
  /\ screen = "assignments" => Role!AsgTypeOK
  /\ screen = "invitations" => Invited!InvTypeOK
  /\ screen = "dsl" => Dsl!DslTypeOK
  /\ screen = "transfer" => TransferTypeOK
  /\ screen = "preferences" => Settings!PreferencesTypeOK
  /\ screen = "form" => Form!FormGuardTypeOK
  /\ screen = "setup" => Form!SetupTypeOK
  /\ screen = "menu" => Shell!MenuTypeOK
  /\ screen = "sidebar" => Shell!SidebarTypeOK
  /\ screen = "own" => Own!MyTypeOK

\* What a screen shows is not older than what this tab heard done itself,
\* whichever readings are late (the hooks of the screens,
\* DisplaySettingsProvider, BusinessNavigationProvider, ShellLayout).
ShownIsCurrent ==
  /\ screen = "users" => Users!ListFollowsOwnOps
  /\ screen = "names" => Groups!ActsOnOwnChanges
  /\ screen = "group" => Groups!GroupFollowsOwnOps
  /\ screen = "permissions" => Role!ColumnsFollow
  /\ screen = "assignments" => Role!AsgFollows
  /\ screen = "invitations" => Invited!InvRowsFollow
  /\ screen = "dsl" => Dsl!ShownFollows
  /\ screen = "preferences" => Settings!ScreenShowsOwnSave /\ Settings!PreviewEndsWithPage
  /\ screen = "menu" => Shell!MenuFollowsSwitch /\ Shell!NothingAfterLogout
  /\ screen = "sidebar" => Shell!OpenGroupsAreShown /\ Shell!EveryItemLeads /\ Shell!EmptyMenuIsExplained
  /\ screen = "own" => Own!LoadingIsAwaited

\* What a screen shows together belongs together, and what it sends is about
\* what it shows, whatever answers have crossed (the hooks of the screens,
\* useSlowNotice, logoutIntent, useMyPermissions).
AnswersAreOfTheLastQuestion ==
  /\ screen = "users" => Users!ShownIsAsked
  /\ screen = "names" => Groups!NamedPageIsAsked
  /\ screen = "role" => Role!ReadyIsOfTheAddress
  /\ screen = "permissions" => Role!SaveMatchesSelection
  /\ screen = "assignments" => Role!ResultsAreLast
  /\ screen = "invitations" => Invited!NoCrossing
  /\ screen = "dsl" => Dsl!AppliesWhatItShowed
  /\ screen = "form" => Form!SlowMeansSending /\ Form!MarkIsRecent
  /\ screen = "setup" => Form!HandoffMeansRegistered
  /\ screen = "own" => Own!OneRoleIsShown

\* What was typed goes by a move the user was asked about, or with what was
\* saved, and by no late answer (usePreferencesForm, useUnsavedGuard,
\* useRegistration, usePasswordChange).
InputIsNotLost ==
  [][/\ screen = "preferences" => Settings!EditsSurviveStep
     /\ screen = "form" => Form!NoSilentLossStep
     /\ screen = "setup" => Form!TypedSurvivesStep]_vars

\* The item a page was opened by is the current one and stays in view; a group
\* opens and closes by the user, a new page or a new menu only (ShellLayout).
SidebarShowsThePage ==
  [][screen = "sidebar" => Shell!OpenedItemIsCurrentStep /\ Shell!ReachedItemIsShownStep /\ Shell!UserChoicesStandStep]_vars

=============================================================================
