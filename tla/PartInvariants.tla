---------------------------- MODULE PartInvariants ----------------------------
(***************************************************************************)
(* The invariants of what is made of parts that are read apart: the screen *)
(* of the DSL, the shell with its menu, and the own permissions.  As in    *)
(* RequestInvariants, each with the proof that it holds initially and that *)
(* its steps keep it, and with what it says of the readings in flight.     *)
(***************************************************************************)
EXTENDS MyPermissions, ShellMenu, DslScreen, SequenceTheorems, TLAPS

-----------------------------------------------------------------------------
(* The work role and the menu *)

MenuLoads == [phase : Phases, version : 0..MaxSwitches + 1, reloading : BOOLEAN, revision : 0..MaxRevision]
MenuGets == [stage : {"none", "sent", "served"}, mine : BOOLEAN, version : 0..MaxSwitches + 1, revision : 0..MaxRevision]
RoleSwitches == [stage : {"none", "guarding", "sent", "served"}, to : Roles, result : {"none", "switched", "rejected", "failed"}]

MenuKinds ==
  /\ history \in Seq(Roles) /\ Len(history) \in 1..MaxSwitches + 1
  /\ menuOpen \in BOOLEAN /\ guarded \in BOOLEAN /\ revision \in 0..MaxRevision
  /\ switch \in RoleSwitches /\ ackedRole \in 0..MaxSwitches + 1 /\ ackedRole <= Len(history)

\* What was read, and the requests that are to renew it.
MenuReading(load, reqs) ==
  /\ load \in MenuLoads /\ reqs \in [Slots -> MenuGets]
  /\ load.version = 0 <=> load.phase # "loaded"
  /\ load.reloading => load.phase = "loaded"
  /\ \A s \in Slots : reqs[s].stage = "served" => reqs[s].version # 0
MenuShut(load, reqs) == load = INITIAL /\ \A s \in Slots : ~reqs[s].mine

MenuReadings ==
  /\ MenuReading(roleLoad, roleReq) /\ MenuReading(menuLoad, menuReq)
  /\ ~menuOpen => MenuShut(roleLoad, roleReq) /\ MenuShut(menuLoad, menuReq)

\* The menu of the present revision was read after the last switch of this tab; one of an earlier revision is being read again.
MenuFresh ==
  /\ \A s \in Slots : menuReq[s].mine => menuReq[s].revision = revision /\ (menuReq[s].stage = "served" => menuReq[s].version >= ackedRole)
  /\ menuLoad.revision <= revision
  /\ menuLoad.phase = "loaded" /\ menuLoad.revision = revision => menuLoad.version >= ackedRole
  /\ menuLoad.phase = "loaded" /\ ~menuLoad.reloading => menuLoad.revision = revision

MenuInv == MenuKinds /\ MenuReadings /\ MenuFresh

\* What there is before anything is read, and after a failure.
LEMMA MenuNothing ==
  ASSUME WorkRoleAssumption
  PROVE  /\ INITIAL \in MenuLoads /\ INITIAL.version = 0 /\ INITIAL.phase = "idle" /\ ~INITIAL.reloading /\ INITIAL.revision = 0
         /\ LOAD_ERROR \in MenuLoads /\ LOAD_ERROR.version = 0 /\ LOAD_ERROR.phase = "load-error" /\ ~LOAD_ERROR.reloading
         /\ LOAD_ERROR.revision = 0
         /\ NoRequest \in MenuGets /\ NoRequest.stage = "none" /\ ~NoRequest.mine
         /\ NoSwitch \in RoleSwitches /\ 0 \in 0..MaxSwitches + 1 /\ 0 \in 0..MaxRevision
  <1>1. 0 \in 0..MaxSwitches + 1 /\ 0 \in 0..MaxRevision
    BY DEF WorkRoleAssumption
  <1>2. NoSwitch \in RoleSwitches
    BY DEF WorkRoleAssumption, NoSwitch, RoleSwitches
  <1>3. INITIAL \in MenuLoads /\ INITIAL.version = 0 /\ INITIAL.phase = "idle" /\ ~INITIAL.reloading /\ INITIAL.revision = 0
    BY <1>1 DEF INITIAL, MenuLoads, Phases
  <1>4. /\ LOAD_ERROR \in MenuLoads /\ LOAD_ERROR.version = 0 /\ LOAD_ERROR.phase = "load-error" /\ ~LOAD_ERROR.reloading
        /\ LOAD_ERROR.revision = 0
    BY <1>1 DEF LOAD_ERROR, INITIAL, MenuLoads, Phases
  <1> QED
    BY <1>1, <1>2, <1>3, <1>4 DEF NoRequest, MenuGets

\* At first no one is logged in.
LEMMA MenuStart == ASSUME WorkRoleAssumption, MenuInit PROVE MenuInv
  <1>1. (CHOOSE r \in Roles : TRUE) \in Roles
    BY DEF WorkRoleAssumption
  <1>2. history \in Seq(Roles) /\ Len(history) = 1
    BY <1>1 DEF MenuInit
  <1>3. Len(history) \in 1..MaxSwitches + 1 /\ 0 <= Len(history)
    BY <1>2 DEF WorkRoleAssumption
  <1>4. MenuKinds
    BY <1>2, <1>3, MenuNothing DEF MenuInit, MenuKinds
  <1>5. MenuReadings
    BY MenuNothing DEF MenuInit, MenuReadings, MenuReading, MenuShut
  <1>6. MenuFresh
    <2>1. menuLoad.revision <= revision
      BY MenuNothing DEF MenuInit
    <2> QED
      BY <2>1, MenuNothing DEF MenuInit, MenuFresh
  <1> QED
    BY <1>4, <1>5, <1>6 DEF MenuInv

\* A value is read again: the new request is the one whose answer counts, and what was read stays as it is.
LEMMA MenuReloads ==
  ASSUME WorkRoleAssumption, NEW load, NEW reqs, MenuReading(load, reqs), Free(reqs) # {}, NEW rev \in 0..MaxRevision
  PROVE  /\ MenuReading(Loading(load), SendOn(reqs, rev))
         /\ \A s \in Slots : SendOn(reqs, rev)[s].mine => SendOn(reqs, rev)[s].revision = rev /\ SendOn(reqs, rev)[s].stage = "sent"
         /\ Loading(load).phase = "loaded" => Loading(load).reloading /\ Loading(load).version = load.version /\ load.phase = "loaded"
         /\ Loading(load).revision \in {0, load.revision} /\ (Loading(load).phase = "loaded" => Loading(load).revision = load.revision)
  <1>0. /\ load \in MenuLoads /\ reqs \in [Slots -> MenuGets] /\ (load.version = 0 <=> load.phase # "loaded")
        /\ \A s \in Slots : reqs[s].stage = "served" => reqs[s].version # 0
    BY DEF MenuReading
  <1>1. Sent(rev) \in MenuGets /\ Sent(rev).mine /\ Sent(rev).revision = rev /\ Sent(rev).stage = "sent"
    BY MenuNothing DEF Sent, MenuGets
  <1>2. ASSUME NEW s \in Slots
        PROVE  /\ [reqs[s] EXCEPT !.mine = FALSE] \in MenuGets /\ ~[reqs[s] EXCEPT !.mine = FALSE].mine
               /\ [reqs[s] EXCEPT !.mine = FALSE].stage = reqs[s].stage /\ [reqs[s] EXCEPT !.mine = FALSE].version = reqs[s].version
    <2>1. reqs[s] \in MenuGets
      BY <1>0
    <2> QED
      BY <2>1 DEF MenuGets
  <1>3. /\ Supersede(reqs) \in [Slots -> MenuGets]
        /\ \A s \in Slots : /\ ~Supersede(reqs)[s].mine
                            /\ Supersede(reqs)[s].stage = reqs[s].stage /\ Supersede(reqs)[s].version = reqs[s].version
    BY <1>2 DEF Supersede
  <1>4. SendOn(reqs, rev) \in [Slots -> MenuGets] /\ \A s \in Slots : SendOn(reqs, rev)[s] \in {Supersede(reqs)[s], Sent(rev)}
    BY <1>1, <1>3 DEF SendOn
  <1>5. /\ Loading(load) \in MenuLoads /\ (Loading(load).version = 0 <=> Loading(load).phase # "loaded")
        /\ (Loading(load).reloading => Loading(load).phase = "loaded")
        /\ Loading(load).phase = "loaded" => Loading(load).reloading /\ Loading(load).version = load.version /\ load.phase = "loaded"
        /\ Loading(load).revision \in {0, load.revision} /\ (Loading(load).phase = "loaded" => Loading(load).revision = load.revision)
    <2>1. CASE load.version = 0
      <3>1. Loading(load) = [INITIAL EXCEPT !.phase = "loading"]
        BY <2>1 DEF Loading
      <3> QED
        BY <3>1, MenuNothing DEF MenuLoads, Phases
    <2>2. CASE load.version # 0
      <3>1. Loading(load) = [load EXCEPT !.reloading = TRUE]
        BY <2>2 DEF Loading
      <3> QED
        BY <1>0, <2>2, <3>1 DEF MenuLoads, Phases
    <2> QED
      BY <2>1, <2>2
  <1>6. \A s \in Slots : SendOn(reqs, rev)[s].stage = "served" => SendOn(reqs, rev)[s].version # 0
    BY <1>0, <1>1, <1>3, <1>4
  <1>7. \A s \in Slots : SendOn(reqs, rev)[s].mine => SendOn(reqs, rev)[s].revision = rev /\ SendOn(reqs, rev)[s].stage = "sent"
    BY <1>1, <1>3, <1>4
  <1>8. MenuReading(Loading(load), SendOn(reqs, rev))
    BY <1>4, <1>5, <1>6 DEF MenuReading
  <1> QED
    BY <1>5, <1>7, <1>8

\* A request the server has answered, one whose answer arrived, and a value whose reading failed.
Given(reqs, s, n) == [reqs EXCEPT ![s].stage = "served", ![s].version = n]
Closed(reqs, s) == [reqs EXCEPT ![s] = NoRequest]
RestingLoad(load) == [load EXCEPT !.reloading = FALSE]

\* The server answers a request, and the answer arrives.
LEMMA MenuServes ==
  ASSUME NEW load, NEW reqs, MenuReading(load, reqs), NEW s \in Slots, NEW n \in 1..MaxSwitches + 1
  PROVE  /\ MenuReading(load, Given(reqs, s, n))
         /\ \A t \in Slots : Given(reqs, s, n)[t].mine =>
                /\ reqs[t].mine /\ Given(reqs, s, n)[t].revision = reqs[t].revision
                /\ Given(reqs, s, n)[t] = reqs[t] \/ Given(reqs, s, n)[t].version = n
  <1>0. reqs \in [Slots -> MenuGets] /\ reqs[s] \in MenuGets /\ \A t \in Slots : reqs[t].stage = "served" => reqs[t].version # 0
    BY DEF MenuReading
  <1>1. n \in 0..MaxSwitches + 1 /\ n # 0
    OBVIOUS
  <1> DEFINE g == [reqs[s] EXCEPT !.stage = "served", !.version = n]
  <1>2. g \in MenuGets /\ g.stage = "served" /\ g.version = n /\ g.mine = reqs[s].mine /\ g.revision = reqs[s].revision
    BY <1>0, <1>1 DEF MenuGets
  <1>3. Given(reqs, s, n) = [reqs EXCEPT ![s] = g]
    BY <1>0 DEF Given, MenuGets
  <1> HIDE DEF g
  <1>4. Given(reqs, s, n) \in [Slots -> MenuGets] /\ Given(reqs, s, n)[s] = g /\ \A t \in Slots \ {s} : Given(reqs, s, n)[t] = reqs[t]
    BY <1>0, <1>2, <1>3
  <1> QED
    BY <1>0, <1>1, <1>2, <1>4 DEF MenuReading

\* An answer ends one reading, and what it says is from when it was asked for or later.
LEMMA MenuAnswersReading ==
  ASSUME WorkRoleAssumption, NEW load, NEW reqs, MenuReading(load, reqs), NEW s \in Slots
  PROVE  /\ MenuReading(load, Closed(reqs, s))
         /\ \A t \in Slots : Closed(reqs, s)[t].mine => Closed(reqs, s)[t] = reqs[t]
         /\ reqs[s].stage = "served" => /\ MenuReading(Loaded(reqs[s]), Closed(reqs, s))
                                        /\ Loaded(reqs[s]).phase = "loaded" /\ Loaded(reqs[s]).version = reqs[s].version
                                        /\ Loaded(reqs[s]).revision = reqs[s].revision /\ ~Loaded(reqs[s]).reloading
         /\ MenuReading(LOAD_ERROR, Closed(reqs, s))
         /\ load.version # 0 => /\ MenuReading(RestingLoad(load), Closed(reqs, s))
                                /\ RestingLoad(load).version = load.version /\ RestingLoad(load).revision = load.revision
  <1>0. /\ load \in MenuLoads /\ reqs \in [Slots -> MenuGets] /\ reqs[s] \in MenuGets /\ (load.version = 0 <=> load.phase # "loaded")
        /\ \A t \in Slots : reqs[t].stage = "served" => reqs[t].version # 0
        /\ load.reloading => load.phase = "loaded"
    BY DEF MenuReading
  <1>1. Closed(reqs, s) \in [Slots -> MenuGets] /\ Closed(reqs, s)[s] = NoRequest /\ \A t \in Slots \ {s} : Closed(reqs, s)[t] = reqs[t]
    BY <1>0, MenuNothing DEF Closed
  <1>2. \A t \in Slots : (Closed(reqs, s)[t].mine => Closed(reqs, s)[t] = reqs[t]) /\ (Closed(reqs, s)[t].stage = "served" => Closed(reqs, s)[t].version # 0)
    BY <1>0, <1>1, MenuNothing
  <1>3. /\ Loaded(reqs[s]) \in MenuLoads /\ Loaded(reqs[s]).phase = "loaded" /\ Loaded(reqs[s]).version = reqs[s].version
        /\ Loaded(reqs[s]).revision = reqs[s].revision /\ ~Loaded(reqs[s]).reloading
    BY <1>0 DEF Loaded, MenuGets, MenuLoads, Phases
  <1>4. /\ RestingLoad(load) \in MenuLoads /\ RestingLoad(load).version = load.version
        /\ RestingLoad(load).phase = load.phase /\ ~RestingLoad(load).reloading
        /\ RestingLoad(load).revision = load.revision
    BY <1>0 DEF MenuLoads, RestingLoad
  <1> QED
    BY <1>0, <1>1, <1>2, <1>3, <1>4, MenuNothing DEF MenuReading

-----------------------------------------------------------------------------
\* The menu is read again, for the present revision or for the next.
LEMMA MenuReloaded ==
  ASSUME WorkRoleAssumption, MenuInv, NEW rev \in 0..MaxRevision, reloadMenu(rev), menuOpen', revision' = rev,
         \/ rev = revision /\ ackedRole' = ackedRole
         \/ rev = revision + 1
  PROVE  MenuReading(menuLoad', menuReq') /\ MenuFresh'
  <1>1. MenuReading(menuLoad, menuReq) /\ Free(menuReq) # {} /\ menuReq' = SendOn(menuReq, rev) /\ menuLoad' = Loading(menuLoad)
    BY DEF MenuInv, MenuReadings, reloadMenu
  <1>2. /\ MenuReading(menuLoad', menuReq')
        /\ \A s \in Slots : menuReq'[s].mine => menuReq'[s].revision = rev /\ menuReq'[s].stage = "sent"
        /\ menuLoad'.phase = "loaded" => menuLoad'.reloading /\ menuLoad'.version = menuLoad.version /\ menuLoad.phase = "loaded"
        /\ menuLoad'.revision \in {0, menuLoad.revision} /\ (menuLoad'.phase = "loaded" => menuLoad'.revision = menuLoad.revision)
    BY <1>1, MenuReloads
  <1>3. menuLoad.revision <= revision /\ menuLoad.revision \in Nat /\ revision \in Nat
    BY <1>1 DEF MenuReading, MenuLoads, MenuInv, MenuFresh, MenuKinds
  <1>4. menuLoad'.revision <= rev /\ (rev = revision + 1 => menuLoad.revision # rev)
    BY <1>2, <1>3
  <1>5. menuLoad'.phase = "loaded" /\ menuLoad'.revision = rev => menuLoad'.version >= ackedRole'
    BY <1>2, <1>4 DEF MenuInv, MenuFresh
  <1> QED
    BY <1>2, <1>4, <1>5 DEF MenuFresh

\* The triggers of a reading: a change of the path, and the login.
LEMMA MenuTriggers ==
  ASSUME WorkRoleAssumption, MenuInv, Trigger \/ Login
  PROVE  MenuInv'
  <1>1. /\ menuOpen' = TRUE /\ reloadRole /\ reloadMenu(revision) /\ UNCHANGED <<history, revision, guarded, switch, ackedRole>>
    BY DEF Trigger, Login
  <1>2. revision \in 0..MaxRevision
    BY DEF MenuInv, MenuKinds
  <1>3. MenuReading(menuLoad', menuReq') /\ MenuFresh'
    BY <1>1, <1>2, MenuReloaded
  <1>4. MenuReading(roleLoad', roleReq')
    BY <1>1, MenuReloads, MenuNothing DEF reloadRole, MenuInv, MenuReadings
  <1>5. MenuKinds'
    BY <1>1 DEF MenuInv, MenuKinds
  <1> QED
    BY <1>1, <1>3, <1>4, <1>5 DEF MenuInv, MenuReadings

\* With the logout nothing that was read, and no answer to come, counts.
LEMMA MenuLogsOut ==
  ASSUME WorkRoleAssumption, MenuInv, Logout
  PROVE  MenuInv'
  <1>1. /\ menuOpen' = FALSE /\ roleLoad' = INITIAL /\ menuLoad' = INITIAL
        /\ roleReq' = Supersede(roleReq) /\ menuReq' = Supersede(menuReq) /\ UNCHANGED <<history, revision, guarded, switch, ackedRole>>
    BY DEF Logout
  <1>2. ASSUME NEW reqs \in [Slots -> MenuGets], \A s \in Slots : reqs[s].stage = "served" => reqs[s].version # 0
        PROVE  MenuReading(INITIAL, Supersede(reqs)) /\ MenuShut(INITIAL, Supersede(reqs))
    <2>1. ASSUME NEW s \in Slots
          PROVE  /\ [reqs[s] EXCEPT !.mine = FALSE] \in MenuGets /\ ~[reqs[s] EXCEPT !.mine = FALSE].mine
                 /\ [reqs[s] EXCEPT !.mine = FALSE].stage = reqs[s].stage /\ [reqs[s] EXCEPT !.mine = FALSE].version = reqs[s].version
      <3>1. reqs[s] \in MenuGets
        BY <1>2
      <3> QED
        BY <3>1 DEF MenuGets
    <2>2. /\ Supersede(reqs) \in [Slots -> MenuGets]
          /\ \A s \in Slots : /\ ~Supersede(reqs)[s].mine
                              /\ Supersede(reqs)[s].stage = reqs[s].stage /\ Supersede(reqs)[s].version = reqs[s].version
      BY <2>1 DEF Supersede
    <2> QED
      BY <1>2, <2>2, MenuNothing DEF MenuReading, MenuShut
  <1>3. MenuReadings'
    BY <1>1, <1>2 DEF MenuInv, MenuReadings, MenuReading
  <1>4. MenuKinds'
    BY <1>1 DEF MenuInv, MenuKinds
  <1>5. MenuFresh'
    <2>1. 0 <= revision /\ revision' = revision
      BY <1>1 DEF MenuInv, MenuKinds
    <2>2. \A s \in Slots : ~menuReq'[s].mine
      BY <1>1, <1>3 DEF MenuReadings, MenuShut
    <2> QED
      BY <1>1, <2>1, <2>2, MenuNothing DEF MenuFresh
  <1> QED
    BY <1>3, <1>4, <1>5 DEF MenuInv

\* The role is answered.
LEMMA MenuRoleAnswers ==
  ASSUME WorkRoleAssumption, MenuInv, NEW s \in Slots, ServeRole(s) \/ (\E ok \in BOOLEAN : RoleAnswered(s, ok))
  PROVE  MenuInv'
  <1>1. UNCHANGED <<history, menuOpen, menuLoad, menuReq, revision, guarded, switch, ackedRole>>
    BY DEF ServeRole, RoleAnswered
  <1>2. MenuReading(roleLoad, roleReq) /\ (~menuOpen => MenuShut(roleLoad, roleReq))
    BY DEF MenuInv, MenuReadings
  <1>3. SUFFICES MenuReading(roleLoad', roleReq') /\ (~menuOpen => MenuShut(roleLoad', roleReq'))
    BY <1>1, <1>3 DEF MenuInv, MenuKinds, MenuReadings, MenuFresh
  <1>4. CASE ServeRole(s)
    <2>1. roleReq' = Given(roleReq, s, Len(history)) /\ UNCHANGED roleLoad /\ Len(history) \in 1..MaxSwitches + 1
      BY <1>4 DEF ServeRole, Served, Given, MenuInv, MenuKinds
    <2> QED
      BY <1>2, <2>1, MenuServes DEF MenuShut
  <1>5. ASSUME NEW ok \in BOOLEAN, RoleAnswered(s, ok)
        PROVE  MenuReading(roleLoad', roleReq') /\ (~menuOpen => MenuShut(roleLoad', roleReq'))
    <2>1. roleReq' = Closed(roleReq, s) /\ (ok => roleReq[s].stage = "served")
      BY <1>5 DEF RoleAnswered, Closed, RestingLoad
    <2>2. /\ MenuReading(roleLoad, roleReq') /\ (\A t \in Slots : roleReq'[t].mine => roleReq'[t] = roleReq[t])
          /\ roleReq[s].stage = "served" => MenuReading(Loaded(roleReq[s]), roleReq')
          /\ MenuReading(LOAD_ERROR, roleReq')
          /\ roleLoad.version # 0 => MenuReading(RestingLoad(roleLoad), roleReq')
      BY <1>2, <2>1, MenuAnswersReading
    <2>3. \/ ~roleReq[s].mine /\ roleLoad' = roleLoad
          \/ roleReq[s].mine /\ ok /\ roleLoad' = Loaded(roleReq[s])
          \/ roleReq[s].mine /\ roleLoad' = LOAD_ERROR
          \/ roleReq[s].mine /\ roleLoad.version # 0 /\ roleLoad' = RestingLoad(roleLoad)
      BY <1>5 DEF RoleAnswered, Closed, RestingLoad
    <2>4. ~menuOpen => ~roleReq[s].mine /\ MenuShut(roleLoad, roleReq')
      BY <1>2, <2>2 DEF MenuShut
    <2> QED
      BY <2>1, <2>2, <2>3, <2>4
  <1> QED
    BY <1>4, <1>5

\* The menu is answered: what is shown as up to date is of the present revision.
LEMMA MenuMenuAnswers ==
  ASSUME WorkRoleAssumption, MenuInv, NEW s \in Slots, ServeMenu(s) \/ (\E ok \in BOOLEAN : MenuAnswered(s, ok))
  PROVE  MenuInv'
  <1>1. UNCHANGED <<history, menuOpen, roleLoad, roleReq, revision, guarded, switch, ackedRole>>
    BY DEF ServeMenu, MenuAnswered
  <1>2. MenuReading(menuLoad, menuReq) /\ (~menuOpen => MenuShut(menuLoad, menuReq)) /\ ackedRole <= Len(history)
    BY DEF MenuInv, MenuReadings, MenuKinds
  <1>3. SUFFICES MenuReading(menuLoad', menuReq') /\ (~menuOpen => MenuShut(menuLoad', menuReq')) /\ MenuFresh'
    <2>1. MenuKinds' /\ MenuReadings'
      BY <1>1, <1>3 DEF MenuInv, MenuKinds, MenuReadings
    <2> QED
      BY <1>3, <2>1 DEF MenuInv
  <1>4. CASE ServeMenu(s)
    <2>1. menuReq' = Given(menuReq, s, Len(history)) /\ UNCHANGED menuLoad /\ Len(history) \in 1..MaxSwitches + 1
      BY <1>4 DEF ServeMenu, Served, Given, MenuInv, MenuKinds
    <2>2. /\ MenuReading(menuLoad, menuReq')
          /\ \A t \in Slots : menuReq'[t].mine => /\ menuReq[t].mine /\ menuReq'[t].revision = menuReq[t].revision
                                                  /\ menuReq'[t] = menuReq[t] \/ menuReq'[t].version = Len(history)
      BY <1>2, <2>1, MenuServes
    <2>3. Len(history) >= ackedRole
      BY DEF MenuInv, MenuKinds
    <2>4. \A t \in Slots : menuReq'[t].mine => menuReq'[t].revision = revision /\ (menuReq'[t].stage = "served" => menuReq'[t].version >= ackedRole)
      BY <2>2, <2>3 DEF MenuInv, MenuFresh
    <2>5. MenuFresh'
      BY <1>1, <2>1, <2>4 DEF MenuInv, MenuFresh
    <2> QED
      BY <1>2, <2>1, <2>2, <2>5 DEF MenuShut
  <1>5. ASSUME NEW ok \in BOOLEAN, MenuAnswered(s, ok)
        PROVE  MenuReading(menuLoad', menuReq') /\ (~menuOpen => MenuShut(menuLoad', menuReq')) /\ MenuFresh'
    <2>1. menuReq' = Closed(menuReq, s) /\ (ok => menuReq[s].stage = "served")
      BY <1>5 DEF MenuAnswered, Closed
    <2>2. /\ MenuReading(menuLoad, menuReq') /\ (\A t \in Slots : menuReq'[t].mine => menuReq'[t] = menuReq[t])
          /\ menuReq[s].stage = "served" => /\ MenuReading(Loaded(menuReq[s]), menuReq')
                                            /\ Loaded(menuReq[s]).phase = "loaded" /\ Loaded(menuReq[s]).version = menuReq[s].version
                                            /\ Loaded(menuReq[s]).revision = menuReq[s].revision /\ ~Loaded(menuReq[s]).reloading
          /\ MenuReading(LOAD_ERROR, menuReq')
          /\ menuLoad.version # 0 => /\ MenuReading(RestingLoad(menuLoad), menuReq')
                                     /\ RestingLoad(menuLoad).version = menuLoad.version /\ RestingLoad(menuLoad).revision = menuLoad.revision
      BY <1>2, <2>1, MenuAnswersReading
    <2>3. \/ ~menuReq[s].mine /\ menuLoad' = menuLoad
          \/ menuReq[s].mine /\ ok /\ menuLoad' = Loaded(menuReq[s])
          \/ menuReq[s].mine /\ menuLoad' = LOAD_ERROR
          \/ menuReq[s].mine /\ menuLoad.version # 0 /\ menuLoad.revision = menuReq[s].revision
             /\ menuLoad' = RestingLoad(menuLoad)
      BY <1>5 DEF MenuAnswered, MenuFailed, RestingLoad
    <2>4. ~menuOpen => ~menuReq[s].mine /\ MenuShut(menuLoad, menuReq')
      BY <1>2, <2>2 DEF MenuShut
    <2>5. \A t \in Slots : menuReq'[t].mine => menuReq'[t].revision = revision /\ (menuReq'[t].stage = "served" => menuReq'[t].version >= ackedRole)
      BY <2>2 DEF MenuInv, MenuFresh
    <2>6. menuReq[s].mine => menuReq[s].revision = revision /\ (menuReq[s].stage = "served" => menuReq[s].version >= ackedRole)
      BY DEF MenuInv, MenuFresh
    <2>7. revision <= revision /\ 0 <= revision
      BY DEF MenuInv, MenuKinds
    <2>8. menuLoad.version # 0 <=> menuLoad.phase = "loaded"
      BY <1>2 DEF MenuReading
    <2>9. MenuFresh'
      <3>1. CASE ~menuReq[s].mine /\ menuLoad' = menuLoad
        BY <1>1, <2>5, <3>1 DEF MenuInv, MenuFresh
      <3>2. CASE menuReq[s].mine /\ ok /\ menuLoad' = Loaded(menuReq[s])
        BY <1>1, <2>1, <2>2, <2>5, <2>6, <2>7, <3>2 DEF MenuFresh
      <3>3. CASE menuReq[s].mine /\ menuLoad' = LOAD_ERROR
        BY <1>1, <2>5, <2>7, <3>3, MenuNothing DEF MenuFresh
      <3>4. CASE menuReq[s].mine /\ menuLoad.version # 0 /\ menuLoad.revision = menuReq[s].revision
                 /\ menuLoad' = RestingLoad(menuLoad)
        <4>1. menuLoad.version >= ackedRole
          BY <2>6, <2>8, <3>4 DEF MenuInv, MenuFresh
        <4> QED
          BY <1>1, <2>2, <2>5, <2>6, <2>7, <3>4, <4>1 DEF MenuFresh
      <3> QED
        BY <2>3, <3>1, <3>2, <3>3, <3>4
    <2> QED
      BY <2>1, <2>2, <2>3, <2>4, <2>9
  <1> QED
    BY <1>4, <1>5

\* A switch is asked for, allowed by the open form, and made by the server, for this tab or for another.
LEMMA MenuSwitching ==
  ASSUME WorkRoleAssumption, MenuInv,
         \/ registerSwitchGuard \/ ServeSwitch
         \/ \E r \in Roles : switchTo(r) \/ OtherTabSwitches(r)
         \/ \E allowed \in BOOLEAN : GuardAnswered(allowed)
  PROVE  MenuInv'
  <1>0. history \in Seq(Roles) /\ Len(history) \in 1..MaxSwitches + 1 /\ switch \in RoleSwitches /\ ackedRole <= Len(history)
        /\ ackedRole \in 0..MaxSwitches + 1
    BY DEF MenuInv, MenuKinds
  <1>1. UNCHANGED <<menuOpen, roleLoad, menuLoad, roleReq, menuReq, revision, ackedRole>>
    BY DEF registerSwitchGuard, ServeSwitch, switchTo, OtherTabSwitches, GuardAnswered
  <1>2. guarded' \in BOOLEAN
    BY DEF registerSwitchGuard, ServeSwitch, switchTo, OtherTabSwitches, GuardAnswered, MenuInv, MenuKinds
  <1>3. switch' \in RoleSwitches
    <2>1. CASE registerSwitchGuard \/ (\E r \in Roles : OtherTabSwitches(r))
      BY <1>0, <2>1 DEF registerSwitchGuard, OtherTabSwitches
    <2>2. CASE ServeSwitch
      BY <1>0, <2>2 DEF ServeSwitch, RoleSwitches
    <2>3. ASSUME NEW r \in Roles, switchTo(r) PROVE switch' \in RoleSwitches
      BY <2>3 DEF switchTo, RoleSwitches
    <2>4. ASSUME NEW allowed \in BOOLEAN, GuardAnswered(allowed) PROVE switch' \in RoleSwitches
      <3>1. [switch EXCEPT !.stage = "sent"] \in RoleSwitches
        BY <1>0 DEF RoleSwitches
      <3> QED
        BY <2>4, <3>1, MenuNothing DEF GuardAnswered
    <2> QED
      BY <2>1, <2>2, <2>3, <2>4
  <1>4. history' = history \/ (Len(history) <= MaxSwitches /\ \E r \in Roles : history' = Append(history, r))
    <2>1. switch.to \in Roles
      BY <1>0 DEF RoleSwitches
    <2> QED
      BY <2>1 DEF registerSwitchGuard, ServeSwitch, switchTo, OtherTabSwitches, GuardAnswered
  <1>5. history' \in Seq(Roles) /\ Len(history') \in 1..MaxSwitches + 1 /\ ackedRole <= Len(history')
    <2>1. CASE history' = history
      BY <1>0, <2>1
    <2>2. ASSUME NEW r \in Roles, Len(history) <= MaxSwitches, history' = Append(history, r)
          PROVE  history' \in Seq(Roles) /\ Len(history') \in 1..MaxSwitches + 1 /\ ackedRole <= Len(history')
      <3>1. history' \in Seq(Roles) /\ Len(history') = Len(history) + 1
        BY <1>0, <2>2
      <3> QED
        BY <1>0, <2>2, <3>1 DEF WorkRoleAssumption
    <2> QED
      BY <1>4, <2>1, <2>2
  <1>6. MenuKinds'
    BY <1>1, <1>2, <1>3, <1>5 DEF MenuInv, MenuKinds
  <1>7. MenuReadings' /\ MenuFresh'
    BY <1>1 DEF MenuInv, MenuReadings, MenuFresh
  <1> QED
    BY <1>6, <1>7 DEF MenuInv

\* The switch is answered: whatever was read before it is read again.
LEMMA MenuSwitched ==
  ASSUME WorkRoleAssumption, MenuInv, NEW lost \in BOOLEAN, SwitchAnswered(lost)
  PROVE  MenuInv'
  <1>0. Len(history) \in 1..MaxSwitches + 1 /\ ackedRole \in 0..MaxSwitches + 1 /\ ackedRole <= Len(history) /\ revision \in 0..MaxRevision
    BY DEF MenuInv, MenuKinds
  <1>1. /\ revision < MaxRevision /\ switch' = NoSwitch /\ UNCHANGED <<history, menuOpen, guarded>>
        /\ ackedRole' \in {ackedRole, Len(history)} /\ (lost => ackedRole' = ackedRole)
        /\ FollowSwitch(~lost)
        /\ IF menuOpen THEN reloadRole ELSE UNCHANGED <<roleReq, roleLoad>>
    BY DEF SwitchAnswered
  <1>2. revision + 1 \in 0..MaxRevision /\ revision' \in {revision, revision + 1}
        /\ ackedRole' \in 0..MaxSwitches + 1 /\ ackedRole' <= Len(history)
    BY <1>0, <1>1 DEF WorkRoleAssumption, FollowSwitch
  <1>3. MenuKinds'
    BY <1>0, <1>1, <1>2, MenuNothing DEF MenuInv, MenuKinds
  <1>4. MenuReading(roleLoad', roleReq') /\ (~menuOpen => MenuShut(roleLoad', roleReq'))
    <2>1. CASE menuOpen
      BY <1>1, <2>1, MenuReloads, MenuNothing DEF reloadRole, MenuInv, MenuReadings
    <2>2. CASE ~menuOpen
      BY <1>1, <2>2 DEF MenuInv, MenuReadings
    <2> QED
      BY <2>1, <2>2
  <1>5. MenuReading(menuLoad', menuReq') /\ (~menuOpen => MenuShut(menuLoad', menuReq')) /\ MenuFresh'
    <2>1. CASE lost
      <3>1. UNCHANGED <<revision, menuReq, menuLoad, ackedRole>>
        BY <1>1, <2>1 DEF FollowSwitch
      <3> QED
        BY <3>1 DEF MenuInv, MenuReadings, MenuFresh
    <2>2. CASE ~lost /\ menuOpen
      <3>1. revision' = revision + 1 /\ reloadMenu(revision + 1) /\ menuOpen'
        BY <1>1, <2>2 DEF FollowSwitch
      <3> QED
        BY <1>2, <2>2, <3>1, MenuReloaded
    <2>3. CASE ~lost /\ ~menuOpen
      <3>1. revision' = revision + 1 /\ UNCHANGED <<menuReq, menuLoad>>
        BY <1>1, <2>3 DEF FollowSwitch
      <3>2. MenuReading(menuLoad', menuReq') /\ MenuShut(menuLoad', menuReq')
        BY <2>3, <3>1 DEF MenuInv, MenuReadings
      <3>3. 0 <= revision'
        BY <1>0, <3>1
      <3>4. MenuFresh'
        BY <3>2, <3>3, MenuNothing DEF MenuShut, MenuFresh
      <3> QED
        BY <3>2, <3>4
    <2> QED
      BY <2>1, <2>2, <2>3
  <1> QED
    BY <1>1, <1>3, <1>4, <1>5 DEF MenuInv, MenuReadings

\* Every step keeps the role and the menu.
LEMMA MenuStep == ASSUME WorkRoleAssumption, MenuInv, MenuNext PROVE MenuInv'
  BY MenuTriggers, MenuLogsOut, MenuRoleAnswers, MenuMenuAnswers, MenuSwitching, MenuSwitched DEF MenuNext

\* A step of another part leaves them as they are.
LEMMA MenuRests == ASSUME MenuInv, UNCHANGED menuVars PROVE MenuInv'
  BY DEF menuVars, MenuInv, MenuKinds, MenuReadings, MenuFresh

\* What the run checks of them.
LEMMA MenuShows == ASSUME MenuInv PROVE MenuTypeOK /\ MenuFollowsSwitch /\ NothingAfterLogout
  <1>1. MenuTypeOK
    BY DEF MenuInv, MenuKinds, MenuReadings, MenuReading, MenuTypeOK, MenuLoads, MenuGets, RoleSwitches
  <1>2. MenuFollowsSwitch
    BY DEF MenuInv, MenuFresh, MenuFollowsSwitch
  <1>3. NothingAfterLogout
    BY DEF MenuInv, MenuReadings, MenuShut, NothingAfterLogout
  <1> QED
    BY <1>1, <1>2, <1>3

-----------------------------------------------------------------------------
(* The sidebar: the answers the shell may hold are menus cut down to the    *)
(* work role, so every item of them is of the menu with the groups above it *)
(* and leads somewhere; the open groups are of what is shown.               *)

\* What is shown of an answer.
ItemsOf(answer) == IF answer = NoItem THEN <<>> ELSE answer.items
MenuAnswers ==
  {[items |-> filter(m, seen), reason |-> emptyReason(m, seen)] : m \in Menus, seen \in SUBSET MenuTables}
\* A menu with the groups of every item, and no item that leads nowhere.
Whole(shown) ==
  /\ DOMAIN shown \subseteq Positions
  /\ \A p \in DOMAIN shown : \A i \in 1..Len(p) : SubSeq(p, 1, i) \in DOMAIN shown
  /\ businessIds(shown) = DOMAIN shown

\* Reading and showing fit together: a menu is shown when one was answered.
ReadingFits(ph, again, answer, own) ==
  /\ ph \in {"loading", "loaded", "load-error"}
  /\ answer = NoItem <=> ph # "loaded"
  /\ again \in BOOLEAN /\ (again => ph = "loaded")
  /\ own \in BOOLEAN /\ (~own => again \/ ph = "loading")
  /\ answer # NoItem => answer \in MenuAnswers

ServerMenu == menu \in Menus /\ granted \subseteq MenuTables /\ menuChanges \in 0..MaxMenuChanges
GroupsFit(open, answer) == open \subseteq Positions /\ (answer # NoItem => open \subseteq DOMAIN answer.items)
KeyFits(around, answer, at) == around = currentAncestorIds(ItemsOf(answer), at)

SideInv ==
  /\ ServerMenu
  /\ ReadingFits(phase, reloading, response, ofRole)
  /\ GroupsFit(expanded, response)
  /\ KeyFits(key, response, address)

\* The part of a menu above an item is above what lies below the item.
LEMMA PrefixOfPrefix ==
  ASSUME NEW p \in Seq(Nat), NEW q \in Seq(Nat), NEW i \in 1..Len(p), IsPrefix(p, q)
  PROVE  IsPrefix(SubSeq(p, 1, i), q)
<1>1. Len(p) <= Len(q) /\ SubSeq(q, 1, Len(p)) = p
  <2>1. SubSeq(p, 1, Len(p)) = p  BY SubSeqFull
  <2> QED BY <2>1 DEF IsPrefix
<1>2. Len(p) \in Nat /\ Len(q) \in Nat /\ i \in 1..Len(q) /\ 1 \in 1..Len(q) /\ Len(p) \in 1..Len(q)
  BY <1>1
<1>3. SubSeq(SubSeq(q, 1, Len(p)), 1, i) = SubSeq(q, 1, i)
  <2>1. 1 \in 1..Len(p) - 1 + 1 /\ i \in 1..Len(p) - 1 + 1  BY <1>2
  <2>2. SubSeq(SubSeq(q, 1, Len(p)), 1, i) = SubSeq(q, 1 + 1 - 1, 1 + i - 1)
    BY <1>2, <2>1, SubSeqOfSubSeq
  <2> QED BY <2>2, <1>2
<1>4. Len(SubSeq(p, 1, i)) = i
  BY <1>2
<1>5. SubSeq(SubSeq(p, 1, i), 1, i) = SubSeq(p, 1, i)
  <2>1. SubSeq(p, 1, i) \in Seq(Nat)  BY <1>2
  <2> QED BY <2>1, <1>4, SubSeqFull
<1> QED BY <1>1, <1>2, <1>3, <1>4, <1>5 DEF IsPrefix

\* An item is above itself.
LEMMA PrefixOfItself ==
  ASSUME NEW p \in Seq(Nat)
  PROVE  IsPrefix(p, p)
BY DEF IsPrefix

\* The first of some items is one of them.
LEMMA FirstIsThere ==
  ASSUME OrderAssumption, NEW S, S \subseteq Positions, S # {}
  PROVE  FirstOf(S) \in S
BY DEF OrderAssumption, FirstOf

\* What the server sends is a whole menu.
LEMMA FilterIsWhole ==
  ASSUME SidebarAssumption, NEW m \in Menus, NEW seen, seen \subseteq MenuTables
  PROVE  Whole(filter(m, seen))
<1> DEFINE leads == {p \in DOMAIN m : m[p] \in seen}
           kept == {q \in DOMAIN m : \E l \in leads : IsPrefix(q, l)}
           shown == filter(m, seen)
<1>1. DOMAIN m \subseteq Positions  BY DEF Positions
<1>2. \A p \in Positions : p \in Seq(Nat)  BY DEF SidebarAssumption
<1>3. DOMAIN shown = kept /\ \A p \in kept : shown[p] = IF p \in leads THEN m[p] ELSE NoItem
  BY DEF filter
<1>4. leads \subseteq kept
  BY <1>1, <1>2, PrefixOfItself
<1>5. navigable(shown) = leads
  <2>1. \A p \in leads : m[p] # NoItem  BY DEF SidebarAssumption
  <2> HIDE DEF leads, kept
  <2> QED BY <2>1, <1>3, <1>4 DEF navigable
<1>6. businessIds(shown) = kept
  <2> HIDE DEF shown
  <2> QED BY <1>3, <1>5 DEF businessIds
<1>7. ASSUME NEW p \in kept, NEW i \in 1..Len(p)
      PROVE  SubSeq(p, 1, i) \in kept
  <2>1. SubSeq(p, 1, i) \in DOMAIN m  BY DEF SidebarAssumption
  <2>2. PICK l \in leads : IsPrefix(p, l)  OBVIOUS
  <2>3. p \in Seq(Nat) /\ l \in Seq(Nat)  BY <1>1, <1>2
  <2>4. IsPrefix(SubSeq(p, 1, i), l)
    <3> HIDE DEF leads, kept
    <3> QED BY <2>2, <2>3, PrefixOfPrefix
  <2> QED BY <2>1, <2>4
<1>8. kept \subseteq Positions  BY <1>1
<1> HIDE DEF leads, kept, shown
<1>9. Whole(shown)
  BY <1>3, <1>6, <1>7, <1>8 DEF Whole
<1> QED BY <1>9 DEF shown

\* An empty menu shows nothing and has no item of a page.
LEMMA NothingIsWhole ==
  /\ Whole(<<>>) /\ DOMAIN <<>> = {} /\ navigable(<<>>) = {}
  /\ \A at : currentAncestorIds(<<>>, at) = {}
<1>1. DOMAIN <<>> = {}  OBVIOUS
<1>2. navigable(<<>>) = {}  BY <1>1 DEF navigable
<1>3. \A at : findBusinessCurrent(<<>>, at) = NoItem
  BY <1>2 DEF findBusinessCurrent
<1> QED BY <1>1, <1>2, <1>3 DEF Whole, businessIds, currentAncestorIds

\* What is shown is a whole menu, whatever was answered.
LEMMA ShownIsWhole ==
  ASSUME SidebarAssumption, NEW answer, answer # NoItem => answer \in MenuAnswers
  PROVE  Whole(ItemsOf(answer))
<1>1. CASE answer = NoItem
  BY <1>1, NothingIsWhole DEF ItemsOf
<1>2. CASE answer # NoItem
  <2>1. PICK m \in Menus, seen \in SUBSET MenuTables :
          answer = [items |-> filter(m, seen), reason |-> emptyReason(m, seen)]
    BY <1>2 DEF MenuAnswers
  <2>2. answer.items = filter(m, seen)  BY <2>1
  <2>3. Whole(filter(m, seen))  BY FilterIsWhole
  <2> QED BY <1>2, <2>2, <2>3 DEF ItemsOf
<1> QED BY <1>1, <1>2

\* The item of a page is one of those shown, and the groups around it are shown.
LEMMA CurrentIsShown ==
  ASSUME SidebarAssumption, OrderAssumption, NEW shown, NEW at, Whole(shown)
  PROVE  /\ findBusinessCurrent(shown, at) = NoItem \/ findBusinessCurrent(shown, at) \in DOMAIN shown
         /\ currentAncestorIds(shown, at) \subseteq DOMAIN shown
<1> DEFINE same == {p \in navigable(shown) : shown[p] = at.table}
           cur == findBusinessCurrent(shown, at)
<1>1. same \subseteq DOMAIN shown /\ DOMAIN shown \subseteq Positions
  BY DEF navigable, Whole
<1>2. same # {} => FirstOf(same) \in same
  <2> HIDE DEF same
  <2> QED BY <1>1, FirstIsThere
<1>3. cur = IF same = {} THEN NoItem ELSE IF at.item \in same THEN at.item ELSE FirstOf(same)
  BY DEF findBusinessCurrent
<1>4. cur = NoItem \/ cur \in DOMAIN shown
  <2> HIDE DEF same, cur
  <2> QED BY <1>1, <1>2, <1>3
<1>5. ASSUME cur # NoItem
      PROVE  {SubSeq(cur, 1, i) : i \in 1..Len(cur) - 1} \subseteq DOMAIN shown
  <2> HIDE DEF cur
  <2>1. cur \in DOMAIN shown  BY <1>4, <1>5
  <2>2. cur \in Seq(Nat)  BY <2>1, <1>1 DEF SidebarAssumption
  <2>3. \A i \in 1..Len(cur) - 1 : i \in 1..Len(cur)  BY <2>2
  <2> QED BY <2>1, <2>3 DEF Whole
<1> HIDE DEF same
<1> QED BY <1>4, <1>5 DEF currentAncestorIds

\* Under the invariant the sidebar shows what was answered.
LEMMA ItemsAre ==
  ASSUME ReadingFits(phase, reloading, response, ofRole)
  PROVE  items = ItemsOf(response)
BY DEF ReadingFits, items, status, ItemsOf
\* After a rendering the open groups are those of what is shown, and the key is that of the page.
LEMMA RenderingFits ==
  ASSUME SidebarAssumption, OrderAssumption, NEW before, NEW fresh \in BOOLEAN,
         Renders(before, fresh), ReadingFits(phase', reloading', response', ofRole'),
         expanded \subseteq Positions,
         response' # NoItem /\ ~fresh => expanded \subseteq DOMAIN response'.items
  PROVE  GroupsFit(expanded', response') /\ KeyFits(key', response', address')
<1> DEFINE shown == ItemsOf(response')
           around == currentAncestorIds(shown, address')
           kept == IF fresh THEN pruneExpanded(expanded, businessIds(shown)) ELSE expanded
<1>1. items' = shown
  BY DEF ReadingFits, items, status, ItemsOf
<1>2. Whole(shown)
  BY ShownIsWhole DEF ReadingFits
<1>3. around \subseteq DOMAIN shown /\ DOMAIN shown \subseteq Positions /\ businessIds(shown) = DOMAIN shown
  <2> HIDE DEF shown
  <2> QED BY <1>2, CurrentIsShown DEF Whole
<1>4. key' = around /\ expanded' = IF around # before THEN addAncestors(kept, around) ELSE kept
  BY <1>1 DEF Renders
<1>5. kept \subseteq Positions /\ (response' # NoItem => kept \subseteq DOMAIN shown)
  <2>1. response' # NoItem => shown = response'.items  BY DEF ItemsOf
  <2> HIDE DEF shown
  <2> QED BY <1>3, <2>1 DEF pruneExpanded
<1>6. expanded' \subseteq Positions /\ (response' # NoItem => expanded' \subseteq DOMAIN shown)
  <2> HIDE DEF kept, around, shown
  <2> QED BY <1>3, <1>4, <1>5 DEF addAncestors
<1>7. response' # NoItem => shown = response'.items
  BY DEF ItemsOf
<1>8. GroupsFit(expanded', response')
  <2> HIDE DEF shown
  <2> QED BY <1>6, <1>7 DEF GroupsFit
<1> QED BY <1>4, <1>8 DEF KeyFits

\* A page read again keeps what is shown, or goes on waiting.
LEMMA ReadingAgain ==
  ASSUME ReadingFits(phase, reloading, response, ofRole), Reads, ofRole' \in BOOLEAN
  PROVE  ReadingFits(phase', reloading', response', ofRole')
BY DEF ReadingFits, Reads

\* Initially the invariant of the sidebar holds.
LEMMA SideStart ==
  ASSUME SidebarAssumption, SidebarInit
  PROVE  SideInv
<1>1. ServerMenu  BY DEF SidebarInit, ServerMenu, SidebarAssumption
<1>2. ReadingFits(phase, reloading, response, ofRole)  BY DEF SidebarInit, ReadingFits
<1>3. GroupsFit(expanded, response)  BY DEF SidebarInit, GroupsFit
<1>4. KeyFits(key, response, address)
  <2>1. ItemsOf(response) = <<>>  BY DEF SidebarInit, ItemsOf
  <2> QED BY <2>1, NothingIsWhole DEF SidebarInit, KeyFits
<1> QED BY <1>1, <1>2, <1>3, <1>4 DEF SideInv

\* Coming to a page keeps the invariant.
LEMMA GoToFits ==
  ASSUME SidebarAssumption, OrderAssumption, SideInv, NEW at, GoTo(at)
  PROVE  SideInv'
<1>1. ServerMenu'  BY DEF SideInv, ServerMenu, GoTo
<1>2. ReadingFits(phase', reloading', response', ofRole')
  <2>1. ofRole' \in BOOLEAN  BY DEF SideInv, ReadingFits, GoTo
  <2> QED BY <2>1, ReadingAgain DEF SideInv, GoTo
<1>3. expanded \subseteq Positions /\ (response' # NoItem => expanded \subseteq DOMAIN response'.items)
  BY DEF SideInv, GroupsFit, GoTo, Reads
<1>4. \E before : Renders(before, FALSE)  BY DEF GoTo
<1>5. GroupsFit(expanded', response') /\ KeyFits(key', response', address')
  BY <1>2, <1>3, <1>4, RenderingFits
<1> QED BY <1>1, <1>2, <1>5 DEF SideInv

\* Every step of the sidebar keeps the invariant.
LEMMA SideStep ==
  ASSUME SidebarAssumption, OrderAssumption, SideInv, SidebarNext
  PROVE  SideInv'
<1> USE DEF SideInv
<1>0. MaxMenuChanges \in Nat  BY DEF SidebarAssumption
<1>1. CASE MenuChanges
  <2>1. ServerMenu'  BY <1>0, <1>1 DEF MenuChanges, ServerMenu
  <2>2. UNCHANGED <<phase, reloading, response, ofRole, address, expanded, key>>  BY <1>1 DEF MenuChanges
  <2> QED BY <2>1, <2>2
<1>2. CASE RoleSwitched
  <2>1. ServerMenu'  BY <1>0, <1>2 DEF RoleSwitched, ServerMenu
  <2>2. ReadingFits(phase', reloading', response', ofRole')
    <3>1. ofRole' \in BOOLEAN /\ Reads  BY <1>2 DEF RoleSwitched
    <3> QED BY <3>1, ReadingAgain
  <2>3. expanded \subseteq Positions /\ (response' # NoItem => expanded \subseteq DOMAIN response'.items)
    BY <1>2 DEF GroupsFit, RoleSwitched, Reads
  <2>4. GroupsFit(expanded', response') /\ KeyFits(key', response', address')
    BY <1>2, <2>2, <2>3, RenderingFits DEF RoleSwitched
  <2> QED BY <2>1, <2>2, <2>4
<1>3. CASE SidebarLoaded
  <2>1. ServerMenu'  BY <1>3 DEF SidebarLoaded, ServerMenu
  <2>2. ReadingFits(phase', reloading', response', ofRole')
    <3>1. response' = [items |-> filter(menu, granted), reason |-> emptyReason(menu, granted)]
      BY <1>3 DEF SidebarLoaded
    <3>2. menu \in Menus /\ granted \in SUBSET MenuTables  BY DEF ServerMenu
    <3>3. response' \in MenuAnswers  BY <3>1, <3>2 DEF MenuAnswers
    <3>4. response' # NoItem  BY <3>1, <3>2 DEF OrderAssumption
    <3> QED BY <1>3, <3>3, <3>4 DEF ReadingFits, SidebarLoaded
  <2>3. expanded \subseteq Positions  BY DEF GroupsFit
  <2>4. GroupsFit(expanded', response') /\ KeyFits(key', response', address')
    BY <1>3, <2>2, <2>3, RenderingFits DEF SidebarLoaded
  <2> QED BY <2>1, <2>2, <2>4
<1>4. CASE LoadFails
  <2>1. ServerMenu'  BY <1>4 DEF LoadFails, ServerMenu
  <2>2. ReadingFits(phase', reloading', response', ofRole')
    BY <1>4 DEF LoadFails, ReadingFits
  <2>3. expanded \subseteq Positions /\ (response' # NoItem => expanded \subseteq DOMAIN response'.items)
    BY <1>4 DEF GroupsFit, LoadFails
  <2>4. GroupsFit(expanded', response') /\ KeyFits(key', response', address')
    BY <1>4, <2>2, <2>3, RenderingFits DEF LoadFails
  <2> QED BY <2>1, <2>2, <2>4
<1>5. CASE Visit
  BY <1>5, GoToFits DEF Visit
<1>6. CASE TabReloaded \/ LoggedOutAndIn
  <2>1. ServerMenu'  BY <1>6 DEF TabReloaded, LoggedOutAndIn, ServerMenu
  <2>2. ReadingFits(phase', reloading', response', ofRole')
    BY <1>6 DEF TabReloaded, LoggedOutAndIn, ReadingFits
  <2>3. GroupsFit(expanded', response')
    BY <1>6 DEF TabReloaded, LoggedOutAndIn, GroupsFit
  <2>4. KeyFits(key', response', address')
    <3>1. response' = NoItem /\ key' = {}  BY <1>6 DEF TabReloaded, LoggedOutAndIn
    <3>2. ItemsOf(response') = <<>>  BY <3>1 DEF ItemsOf
    <3> QED BY <3>1, <3>2, NothingIsWhole DEF KeyFits
  <2> QED BY <2>1, <2>2, <2>3, <2>4
<1>7. CASE \E p \in Positions : Press(p) \/ OpenCard(p)
  <2>1. \E at : GoTo(at)  BY <1>7 DEF Press, OpenCard
  <2> QED BY <2>1, GoToFits
<1>8. CASE \E p \in Positions : Toggle(p)
  <2>1. PICK p \in Positions : Toggle(p)  BY <1>8
  <2>2. items = ItemsOf(response) /\ Whole(ItemsOf(response))
    BY ItemsAre, ShownIsWhole DEF ReadingFits
  <2>3. p \in DOMAIN ItemsOf(response)  BY <2>1, <2>2 DEF Toggle, Whole
  <2>4. response # NoItem => p \in DOMAIN response.items  BY <2>3 DEF ItemsOf
  <2>5. expanded' = (IF p \in expanded THEN expanded \ {p} ELSE expanded \cup {p})  BY <2>1 DEF Toggle
  <2>6. GroupsFit(expanded', response')
    <3>1. response' = response  BY <2>1 DEF Toggle
    <3> QED BY <2>4, <2>5, <3>1 DEF GroupsFit
  <2>7. ServerMenu' /\ ReadingFits(phase', reloading', response', ofRole') /\ KeyFits(key', response', address')
    <3>1. UNCHANGED <<menu, granted, menuChanges, phase, reloading, response, ofRole, address, key>>
      BY <2>1 DEF Toggle
    <3> QED BY <3>1 DEF ServerMenu
  <2> QED BY <2>6, <2>7
<1> QED BY <1>1, <1>2, <1>3, <1>4, <1>5, <1>6, <1>7, <1>8 DEF SidebarNext

\* The invariant of the sidebar depends on its variables only.
LEMMA SideRests ==
  ASSUME SideInv, UNCHANGED sidebarVars
  PROVE  SideInv'
BY DEF SideInv, sidebarVars, ServerMenu

\* A home without a card has no item at all, so one of the two texts says why.
LEMMA EmptyIsExplained ==
  ASSUME SidebarAssumption, OrderAssumption, SideInv
  PROVE  EmptyMenuIsExplained
<1> SUFFICES ASSUME status = "loaded", cards = {}
             PROVE  homeNoticeKey # NoItem /\ (homeNoticeKey = "home.notConfigured") = (response.reason = "NOT_CONFIGURED")
  BY DEF EmptyMenuIsExplained
<1>1. Whole(items)
  BY ItemsAre, ShownIsWhole DEF SideInv, ReadingFits
<1>2. DOMAIN items = {}
  <2> SUFFICES ASSUME NEW p \in DOMAIN items PROVE FALSE  OBVIOUS
  <2>1. p \in Positions  BY <1>1 DEF Whole
  <2>2. p \in Seq(Nat) /\ p # <<>>  BY <2>1 DEF SidebarAssumption
  <2>3. 1 \in 1..Len(p)  BY <2>2
  <2>4. SubSeq(p, 1, 1) \in DOMAIN items  BY <1>1, <2>3 DEF Whole
  <2>5. Len(SubSeq(p, 1, 1)) = 1  BY <2>2, <2>3
  <2> QED BY <2>4, <2>5 DEF cards
<1> QED BY <1>2 DEF homeNoticeKey, OrderAssumption

\* What the invariant of the sidebar says of what is shown.
LEMMA SideShows ==
  ASSUME SidebarAssumption, OrderAssumption, SideInv
  PROVE  SidebarTypeOK /\ OpenGroupsAreShown /\ EveryItemLeads /\ EmptyMenuIsExplained
<1>1. items = ItemsOf(response) /\ Whole(items)
  BY ItemsAre, ShownIsWhole DEF SideInv, ReadingFits
<1>2. SidebarTypeOK
  <2>1. key = currentAncestorIds(items, address)  BY <1>1 DEF SideInv, KeyFits
  <2>2. (response = NoItem) = (phase # "loaded")  BY DEF SideInv, ReadingFits
  <2> QED BY <2>1, <2>2 DEF SidebarTypeOK, SideInv, ServerMenu, ReadingFits, GroupsFit
<1>3. OpenGroupsAreShown
  BY DEF SideInv, ReadingFits, GroupsFit, OpenGroupsAreShown
<1>4. EveryItemLeads
  BY <1>1 DEF Whole, EveryItemLeads
<1> QED BY <1>2, <1>3, <1>4, EmptyIsExplained
\* Coming to a page leaves the answer, and what is shown of it.
LEMMA GoToShows ==
  ASSUME SideInv, NEW at, GoTo(at)
  PROVE  /\ items = ItemsOf(response) /\ items' = ItemsOf(response)
         /\ address' = at /\ response' = response
         /\ key' = currentAncestorIds(items', at)
<1>1. items = ItemsOf(response)  BY ItemsAre DEF SideInv
<1>2. items' = ItemsOf(response)
  BY DEF SideInv, ReadingFits, GoTo, Reads, items, status, ItemsOf
<1>3. address' = at /\ response' = response  BY DEF GoTo, Reads
<1>4. key' = currentAncestorIds(items', at)  BY <1>3 DEF GoTo, Renders
<1> QED BY <1>1, <1>2, <1>3, <1>4

\* The item that is pressed leads to the table of the page, so it is the item of the page.
LEMMA PressIsCurrent ==
  ASSUME SideInv, NEW p \in Positions, Press(p)
  PROVE  findBusinessCurrent(items', address') = p
<1>1. p \in navigable(items) /\ GoTo(AtTable(items[p], p))  BY DEF Press
<1>2. items' = items /\ address' = AtTable(items[p], p)  BY <1>1, GoToShows
<1>3. address'.table = items[p] /\ address'.item = p  BY <1>2 DEF AtTable
<1> DEFINE same == {q \in navigable(items') : items'[q] = address'.table}
<1>4. p \in same  BY <1>1, <1>2, <1>3
<1> QED BY <1>3, <1>4 DEF findBusinessCurrent

\* A card leads to the first item below it, and the page that it opens is of a shell of its own: the groups around
\* the item are opened.
LEMMA CardIsCurrent ==
  ASSUME SidebarAssumption, OrderAssumption, SideInv, NEW p \in Positions, OpenCard(p)
  PROVE  LET q == findBusinessCurrent(items', address')
         IN  q # NoItem /\ IsPrefix(p, q) /\ currentAncestorIds(items', address') \subseteq expanded'
<1> DEFINE below == {q \in navigable(items) : IsPrefix(p, q)}
           first == firstNavigable(items, p)
           at == AtTable(items[first], first)
<1>1. address = Home /\ p \in DOMAIN items /\ GoTo(at)  BY DEF OpenCard, cards
<1>2. items = ItemsOf(response) /\ items' = items /\ address' = at
  <2> HIDE DEF at
  <2> QED BY <1>1, GoToShows
<1>3. Whole(items)
  BY <1>2, ShownIsWhole DEF SideInv, ReadingFits
<1>4. below # {} /\ below \subseteq Positions
  BY <1>1, <1>3 DEF Whole, businessIds, navigable
<1>5. first \in below
  <2> HIDE DEF below
  <2>1. FirstOf(below) \in below  BY <1>4, FirstIsThere
  <2> QED BY <2>1 DEF firstNavigable, below
<1>6. first # NoItem  BY <1>4, <1>5 DEF SidebarAssumption
<1>7. findBusinessCurrent(items', address') = first
  <2>1. address'.table = items[first] /\ address'.item = first  BY <1>2 DEF AtTable
  <2> HIDE DEF first, at
  <2> DEFINE same == {q \in navigable(items') : items'[q] = address'.table}
  <2>2. first \in same  BY <1>2, <1>5, <2>1
  <2> QED BY <2>1, <2>2 DEF findBusinessCurrent
<1>8. (at = Home) # (address = Home)
  <2>1. at.page = "table"  BY DEF AtTable
  <2>2. Home.page = "home"  BY DEF Home
  <2> HIDE DEF at
  <2> QED BY <1>1, <2>1, <2>2
<1>9. currentAncestorIds(items', address') \subseteq expanded'
  <2> HIDE DEF at, first
  <2>1. Renders({}, FALSE)  BY <1>1, <1>8 DEF GoTo
  <2> QED BY <2>1 DEF Renders, addAncestors
<1> HIDE DEF first, at
<1> QED BY <1>5, <1>6, <1>7, <1>9

\* However an item is opened, it is the one of the page.
LEMMA OpenedIsCurrent ==
  ASSUME SidebarAssumption, OrderAssumption, SideInv
  PROVE  OpenedItemIsCurrentStep
BY PressIsCurrent, CardIsCurrent DEF OpenedItemIsCurrentStep

\* The first menu that is there is rendered from an empty key, so it opens the groups around the item.
LEMMA ReachedIsShown ==
  ASSUME SideInv, SidebarNext
  PROVE  ReachedItemIsShownStep
<1> SUFFICES ASSUME response = NoItem, response' # NoItem
             PROVE  currentAncestorIds(items', address') \subseteq expanded'
  BY DEF ReachedItemIsShownStep
<1>1. SidebarLoaded
  <2>1. ASSUME NEW at, GoTo(at) PROVE FALSE
    <3>1. response' = response  BY <2>1, GoToShows
    <3> QED BY <3>1
  <2>2. ~RoleSwitched /\ ~MenuChanges  BY DEF RoleSwitched, MenuChanges, Reads
  <2>3. ~LoadFails  BY DEF LoadFails
  <2>4. ~TabReloaded /\ ~LoggedOutAndIn  BY DEF TabReloaded, LoggedOutAndIn
  <2>5. ASSUME NEW p PROVE ~Toggle(p) /\ ~Press(p) /\ ~OpenCard(p)
    <3>1. ~Toggle(p)  BY DEF Toggle
    <3>2. ~Press(p)  BY <2>1 DEF Press
    <3>3. ~OpenCard(p)  BY <2>1 DEF OpenCard
    <3> QED BY <3>1, <3>2, <3>3
  <2>6. ~Visit  BY <2>1 DEF Visit
  <2> QED BY <2>2, <2>3, <2>4, <2>5, <2>6 DEF SidebarNext
<1>2. key = {}
  <2>1. ItemsOf(response) = <<>>  BY DEF ItemsOf
  <2> QED BY <2>1, NothingIsWhole DEF SideInv, KeyFits
<1>3. Renders({}, TRUE)  BY <1>1, <1>2 DEF SidebarLoaded
<1> QED BY <1>3 DEF Renders, addAncestors

\* What a rendering closes and opens.
LEMMA RenderingOpens ==
  ASSUME NEW before, NEW fresh \in BOOLEAN, Renders(before, fresh)
  PROVE  /\ expanded' \ expanded # {} => key' # before
         /\ expanded \ expanded' # {} => fresh /\ \E p \in expanded \ expanded' : p \notin businessIds(items')
         /\ fresh => (expanded \ expanded') \cap businessIds(items') = {}
<1> DEFINE around == currentAncestorIds(items', address')
           kept == IF fresh THEN pruneExpanded(expanded, businessIds(items')) ELSE expanded
<1>1. key' = around /\ expanded' = IF around # before THEN addAncestors(kept, around) ELSE kept
  BY DEF Renders
<1>2. kept \subseteq expanded /\ (~fresh => kept = expanded) /\ (fresh => expanded \cap businessIds(items') = kept)
  BY DEF pruneExpanded
<1> HIDE DEF around, kept
<1>3. kept \subseteq expanded' /\ (expanded' \ expanded # {} => around # before)
  BY <1>1, <1>2 DEF addAncestors
<1> QED BY <1>1, <1>2, <1>3

\* Only a menu that was read closes a group, and only a new page or menu opens one, besides the user.
LEMMA ChoicesStand ==
  ASSUME SidebarAssumption, OrderAssumption, SideInv, SidebarNext
  PROVE  UserChoicesStandStep
<1> DEFINE Stands == /\ expanded \ expanded' # {} => response' # response /\ (expanded \ expanded') \cap DOMAIN items' = {}
                     /\ expanded' \ expanded # {} => address' # address \/ key' # key
<1>1. ASSUME NEW at, GoTo(at)
      PROVE  Stands
  <2>1. CASE (at = Home) # (address = Home)
    <3>1. Renders({}, FALSE) /\ address' # address  BY <1>1, <2>1 DEF GoTo
    <3> QED BY <3>1, RenderingOpens
  <2>2. CASE ~((at = Home) # (address = Home))
    <3>1. Renders(key, FALSE)  BY <1>1, <2>2 DEF GoTo
    <3> QED BY <3>1, RenderingOpens
  <2> QED BY <2>1, <2>2
<1>2. CASE RoleSwitched \/ LoadFails
  <2>1. Renders(key, FALSE)  BY <1>2 DEF RoleSwitched, LoadFails
  <2> QED BY <2>1, RenderingOpens DEF UserChoicesStandStep
<1>3. CASE SidebarLoaded
  <2>1. Renders(key, TRUE)  BY <1>3 DEF SidebarLoaded
  <2>2. SideInv'  BY SideStep
  <2>3. businessIds(items') = DOMAIN items' /\ items' = ItemsOf(response')
    <3>1. items' = ItemsOf(response')
      BY <2>2 DEF SideInv, ReadingFits, items, status, ItemsOf
    <3>2. Whole(ItemsOf(response'))
      <4>1. response' # NoItem => response' \in MenuAnswers  BY <2>2 DEF SideInv, ReadingFits
      <4> QED BY <4>1, ShownIsWhole
    <3> QED BY <3>1, <3>2 DEF Whole
  <2>4. response' = response => expanded \subseteq businessIds(items')
    <3>1. response' # NoItem  BY <1>3, <2>2 DEF SideInv, ReadingFits, SidebarLoaded
    <3> QED BY <2>3, <3>1 DEF SideInv, GroupsFit, ItemsOf
  <2>5. Stands
    BY <2>1, <2>3, <2>4, RenderingOpens
  <2> QED BY <2>5 DEF UserChoicesStandStep
<1>4. CASE MenuChanges \/ TabReloaded
  BY <1>4 DEF MenuChanges, TabReloaded, UserChoicesStandStep
<1>5. CASE LoggedOutAndIn \/ \E p \in Positions : Toggle(p)
  BY <1>5 DEF UserChoicesStandStep
<1>6. CASE Visit \/ \E p \in Positions : Press(p) \/ OpenCard(p)
  <2>1. \E at : GoTo(at)  BY <1>6 DEF Visit, Press, OpenCard
  <2>2. Stands  BY <1>1, <2>1
  <2> QED BY <2>2 DEF UserChoicesStandStep
<1> QED BY <1>2, <1>3, <1>4, <1>5, <1>6 DEF SidebarNext

-----------------------------------------------------------------------------
(* The own permissions *)

\* The keys anything is read under: the work role is known by then.  The role and the revision of the key only grow.
SettledKeys == [settled : {TRUE}, role : Versions, revision : Versions, language : Languages, attempt : 0..MaxMyChanges]
RealData == [version : Versions, language : Languages]
MyReadings == [mine : BOOLEAN, since : Versions, key : SettledKeys]
IsPast(k, s) == s.settled /\ k \in SettledKeys /\ k.role <= s.role /\ k.revision <= s.revision
OfNow(k, s) == k.role = s.role /\ k.revision = s.revision

\* What is kept, and what is being read, under the key k while the shell has the key s and the server the work role v:
\* once the tab knows of the last switch (t), anything under the role and revision of now is of the work role of now.
Holds(k, d, s, v, t) == d \in RealData /\ IsPast(k, s) /\ (t /\ OfNow(k, s) => d = [version |-> v, language |-> k.language])
MyReads(reads, s, v, t) ==
  \A q \in reads : q \in MyReadings /\ q.since <= v /\ IsPast(q.key, s) /\ (t /\ OfNow(q.key, s) => q.since = v)
\* How these may move on.
Advances(s, v, t, n, w, u) ==
  /\ v \in Versions /\ w \in Versions /\ v <= w
  /\ s.settled => /\ s \in SettledKeys /\ n \in SettledKeys /\ s.role <= n.role /\ s.revision <= n.revision
                  /\ u /\ OfNow(s, n) => t /\ w = v

MyKinds ==
  /\ myServer \in Versions /\ told \in BOOLEAN /\ myChanges \in 0..MaxMyChanges /\ mySwitch \in {"none", "sent", "served", "reread"}
  /\ shell \in Keys /\ shell.attempt <= myChanges
  /\ shell.settled => shell \in SettledKeys /\ shell.role <= myServer /\ (told \/ shell.role < myServer)
  /\ ~shell.settled => told /\ mySwitch = "none"

MyTop ==
  /\ \/ top.key = NoKey /\ top.view = "loading" /\ top.data = NoData
     \/ IsPast(top.key, shell) /\ top.view = "load-error" /\ top.data = NoData
     \/ top.view \in {"ready", "no-role", "empty"} /\ Holds(top.key, top.data, shell, myServer, told)
  /\ MyReads(topReads, shell, myServer, told)
  /\ \A q \in topReads : q.mine => q.key = shell
  /\ shell.settled /\ top.key # shell => MyWanted(topReads)

MyTree ==
  /\ \/ tree.status \in {"notLoaded", "loading", "failed"} /\ tree.data = NoData
     \/ tree.status = "loaded" /\ Holds(shell, tree.data, shell, myServer, told) /\ tables # NoData
  /\ tree.status # "notLoaded" => top.key = shell /\ top.view = "ready"
  /\ tree.status = "loading" <=> MyWanted(childReads)
  /\ MyReads(childReads, shell, myServer, told)
  /\ \A p, q \in childReads : p.mine /\ q.mine => p = q
  /\ \A q \in childReads : q.key = shell
  /\ tables = NoData \/ Holds(shell, tables, shell, myServer, told)

MyColumns ==
  /\ \/ chosen.id = "none" /\ chosen.node = NoData
     \/ chosen.id \in {"schema", "table"} /\ Holds(chosen.key, chosen.node, shell, myServer, told)
  /\ \/ columns.status \in {"none", "loading", "failed"} /\ columns.data = NoData
     \/ columns.status = "loaded" /\ Holds(columns.key, columns.data, shell, myServer, told)
  /\ MyReads(columnReads, shell, myServer, told)
  /\ columns.status = "loading" => MyWanted(columnReads)

MyInv == MyKinds /\ MyTop /\ MyTree /\ MyColumns

\* Nothing that is read looks like what is not there.
LEMMA MyNothing ==
  ASSUME MyPermissionsAssumption
  PROVE  NoData \notin RealData /\ NoKey \notin SettledKeys /\ NoKey \notin Keys
  <1>1. NoData.language = NotKnown /\ NoKey.language = NotKnown /\ NotKnown \notin Languages
    BY DEF MyPermissionsAssumption, NoData, NoKey, FirstKey
  <1> QED
    BY <1>1 DEF RealData, SettledKeys, Keys

\* What is kept under a key stays true while the key grows with every switch the tab is told of.
LEMMA MyHolds ==
  ASSUME RequestsAssumption, NEW s, NEW v, NEW t, NEW n, NEW w, NEW u, Advances(s, v, t, n, w, u)
  PROVE  /\ \A k, d : Holds(k, d, s, v, t) => Holds(k, d, n, w, u)
         /\ \A k : IsPast(k, s) => IsPast(k, n)
         /\ \A r : MyReads(r, s, v, t) => MyReads(r, n, w, u)
  <1>0. v \in Nat /\ w \in Nat /\ v <= w
    BY DEF Advances, Versions
  <1>1. ASSUME NEW k, IsPast(k, s)
        PROVE  IsPast(k, n) /\ (u /\ OfNow(k, n) => OfNow(k, s) /\ t /\ w = v)
    <2>1. /\ s \in SettledKeys /\ n \in SettledKeys /\ s.role <= n.role /\ s.revision <= n.revision
          /\ u /\ OfNow(s, n) => t /\ w = v
      BY <1>1 DEF IsPast, Advances
    <2>2. /\ s.role \in Nat /\ n.role \in Nat /\ k.role \in Nat /\ s.revision \in Nat /\ n.revision \in Nat /\ k.revision \in Nat
      BY <1>1, <2>1 DEF IsPast, SettledKeys, Versions
    <2>3. k.role <= s.role /\ k.revision <= s.revision /\ k \in SettledKeys
      BY <1>1 DEF IsPast
    <2>4. OfNow(k, n) => OfNow(s, n) /\ OfNow(k, s)
      BY <2>1, <2>2, <2>3 DEF OfNow
    <2>5. k.role <= n.role /\ k.revision <= n.revision
      BY <2>1, <2>2, <2>3
    <2>6. n.settled
      BY <2>1 DEF SettledKeys
    <2> QED
      BY <2>1, <2>3, <2>4, <2>5, <2>6 DEF IsPast
  <1>2. \A k, d : Holds(k, d, s, v, t) => Holds(k, d, n, w, u)
    BY <1>1 DEF Holds
  <1>3. ASSUME NEW r, MyReads(r, s, v, t)
        PROVE  MyReads(r, n, w, u)
    <2>1. ASSUME NEW q \in r
          PROVE  q \in MyReadings /\ q.since <= w /\ IsPast(q.key, n) /\ (u /\ OfNow(q.key, n) => q.since = w)
      <3>1. q \in MyReadings /\ q.since <= v /\ IsPast(q.key, s) /\ (t /\ OfNow(q.key, s) => q.since = v)
        BY <1>3, <2>1 DEF MyReads
      <3>2. q.since \in Nat
        BY <3>1 DEF MyReadings, Versions
      <3>3. q.since <= w
        BY <1>0, <3>1, <3>2
      <3> QED
        BY <1>1, <3>1, <3>3
    <2> QED
      BY <2>1 DEF MyReads
  <1> QED
    BY <1>1, <1>2, <1>3

\* A reading that starts now.
LEMMA MyStartsReading ==
  ASSUME NEW s \in SettledKeys, myServer \in Versions, NEW t
  PROVE  /\ MyReads({MyReading(s)}, s, myServer, t) /\ MyReading(s).mine /\ MyReading(s).key = s /\ IsPast(s, s)
  <1>1. MyReading(s) \in MyReadings /\ MyReading(s).since = myServer /\ MyReading(s).key = s /\ MyReading(s).mine
    BY DEF MyReading, MyReadings
  <1>2. s.role <= s.role /\ s.revision <= s.revision /\ myServer <= myServer
    BY DEF SettledKeys, Versions
  <1>3. s.settled
    BY DEF SettledKeys
  <1> QED
    BY <1>1, <1>2, <1>3 DEF MyReads, IsPast

\* A reading that a later one replaced.
LEMMA MySuperseded ==
  ASSUME NEW r, NEW s, NEW v, NEW t, MyReads(r, s, v, t)
  PROVE  /\ MyReads(Superseded(r), s, v, t) /\ ~MyWanted(Superseded(r)) /\ (\A q \in Superseded(r) : ~q.mine)
         /\ \A q \in Superseded(r) : \E p \in r : q.key = p.key
  <1>1. ASSUME NEW p \in r
        PROVE  /\ [p EXCEPT !.mine = FALSE] \in MyReadings /\ ~[p EXCEPT !.mine = FALSE].mine
               /\ [p EXCEPT !.mine = FALSE].key = p.key /\ [p EXCEPT !.mine = FALSE].since = p.since
    <2>1. p \in MyReadings
      BY <1>1 DEF MyReads
    <2> QED
      BY <2>1 DEF MyReadings
  <1> QED
    BY <1>1 DEF Superseded, MyReads, MyWanted

\* What the answer of a reading says.
LEMMA MyAnswer ==
  ASSUME RequestsAssumption, NEW r, NEW s, NEW t, MyReads(r, s, myServer, t), NEW q \in r, NEW d \in Answers(q), myServer \in Versions
  PROVE  Holds(q.key, d, s, myServer, t)
  <1>1. q \in MyReadings /\ q.since <= myServer /\ IsPast(q.key, s) /\ (t /\ OfNow(q.key, s) => q.since = myServer)
    BY DEF MyReads
  <1>2. PICK v \in q.since..myServer : d = [version |-> v, language |-> q.key.language]
    BY DEF Answers
  <1>3. q.since \in Nat /\ myServer \in Nat /\ myServer <= MaxVersion /\ MaxVersion \in Nat
    BY <1>1 DEF MyReadings, Versions, RequestsAssumption
  <1>4. v \in Versions /\ (q.since = myServer => v = myServer)
    BY <1>2, <1>3 DEF Versions
  <1>5. q.key.language \in Languages
    BY <1>1 DEF MyReadings, SettledKeys
  <1> QED
    BY <1>1, <1>2, <1>4, <1>5 DEF Holds, RealData

\* At first nothing is read and the work role is not known.
LEMMA MyStart == ASSUME RequestsAssumption, MyPermissionsAssumption, MyInit PROVE MyInv
  <1>0. 0 \in Versions /\ 0 \in 0..MaxMyChanges
    BY DEF RequestsAssumption, Versions, MyPermissionsAssumption
  <1>1. shell \in Keys /\ ~shell.settled
    <2>1. PICK l \in Languages : shell = FirstKey(l)
      BY DEF MyInit
    <2> QED
      BY <1>0, <2>1 DEF FirstKey, Keys
  <1>2. MyKinds
    <2>1. shell.attempt = 0 /\ 0 <= 0
      BY DEF MyInit, FirstKey
    <2> QED
      BY <1>0, <1>1, <2>1 DEF MyInit, MyKinds
  <1>3. MyTop
    BY <1>1 DEF MyInit, MyTop, MyReads
  <1>4. MyTree /\ MyColumns
    BY <1>1 DEF MyInit, MyTree, MyColumns, NotLoaded, MyReads, MyWanted
  <1> QED
    BY <1>2, <1>3, <1>4 DEF MyInv

-----------------------------------------------------------------------------
\* The tree after a change under the same key: it is shown as the schemas say, and keeps or starts what it needs.
LEMMA MyRendersTree ==
  ASSUME RequestsAssumption, MyPermissionsAssumption, MyInv, NEW t, NEW e, NEW reads, NEW fresh \in BOOLEAN,
         Rendered(shell, t, e, tree, childReads, reads, fresh), UNCHANGED <<myServer, told, tables>>,
         t.key = shell /\ t.view = "ready" => shell.settled
  PROVE  MyTree' /\ topReads' = reads /\ top' = t /\ UNCHANGED shell
  <1> DEFINE shown == t.key = shell /\ t.view = "ready"
             same == shown /\ (top.key = shell /\ top.view = "ready") /\ ~fresh
             begins == shown /\ e.key = shell /\ e.open /\ (same => tree.status = "notLoaded")
             kept == IF same THEN childReads ELSE Superseded(childReads)
             Awaited == [NotLoaded EXCEPT !.status = "loading"]
  <1>1. TreeShown <=> top.key = shell /\ top.view = "ready"
    BY DEF TreeShown, View, Pending
  <1>2. /\ shell' = shell /\ top' = t /\ topReads' = reads
        /\ childReads' = IF begins THEN kept \cup {MyReading(shell)} ELSE kept
    BY <1>1 DEF Rendered
  <1>3. NotLoaded.status = "notLoaded" /\ NotLoaded.data = NoData /\ Awaited.status = "loading" /\ Awaited.data = NoData
    BY DEF NotLoaded
  <1>4. tree' = IF begins THEN Awaited ELSE IF same THEN tree ELSE NotLoaded
    BY <1>1, <1>3 DEF Rendered, Tree
  <1>5. /\ MyReads(childReads, shell, myServer, told) /\ (\A q \in childReads : q.key = shell)
        /\ (\A p, q \in childReads : p.mine /\ q.mine => p = q) /\ (tree.status = "loading" <=> MyWanted(childReads))
        /\ myServer \in Versions /\ (shell.settled => shell \in SettledKeys)
    BY DEF MyInv, MyTree, MyKinds
  <1> HIDE DEF Awaited, shown, same, begins, kept
  <1>6. /\ MyReads(kept, shell, myServer, told) /\ (\A q \in kept : q.key = shell)
        /\ (\A p, q \in kept : p.mine /\ q.mine => p = q) /\ (MyWanted(kept) <=> same /\ tree.status = "loading")
    BY <1>5, MySuperseded DEF kept
  <1>7. shown => shell \in SettledKeys
    BY <1>5 DEF shown
  <1>8. begins => /\ MyReads({MyReading(shell)}, shell, myServer, told) /\ MyReading(shell).mine /\ MyReading(shell).key = shell
                  /\ ~MyWanted(kept)
    BY <1>5, <1>6, <1>7, MyStartsReading DEF begins
  <1>9. MyReads(childReads', shell, myServer, told)
    BY <1>2, <1>6, <1>8 DEF MyReads
  <1>10. /\ \A p, q \in childReads' : p.mine /\ q.mine => p = q
         /\ \A q \in childReads' : q.key = shell
         /\ MyWanted(childReads') <=> begins \/ (same /\ tree.status = "loading")
    BY <1>2, <1>6, <1>8 DEF MyWanted
  <1>11. /\ \/ tree.status \in {"notLoaded", "loading", "failed"} /\ tree.data = NoData
            \/ tree.status = "loaded" /\ Holds(shell, tree.data, shell, myServer, told) /\ tables # NoData
         /\ tables = NoData \/ Holds(shell, tables, shell, myServer, told)
    BY DEF MyInv, MyTree
  <1>12. begins => shown
    BY DEF begins
  <1>13. same => shown
    BY DEF same
  <1>14. tree'.status # "notLoaded" => top'.key = shell' /\ top'.view = "ready"
    BY <1>2, <1>3, <1>4, <1>12, <1>13 DEF shown
  <1>15. tree'.status = "loading" <=> MyWanted(childReads')
    BY <1>3, <1>4, <1>10
  <1>16. \/ tree'.status \in {"notLoaded", "loading", "failed"} /\ tree'.data = NoData
         \/ tree'.status = "loaded" /\ Holds(shell, tree'.data, shell, myServer, told) /\ tables # NoData
    BY <1>3, <1>4, <1>11
  <1> QED
    BY <1>2, <1>9, <1>10, <1>11, <1>14, <1>15, <1>16 DEF MyTree

\* A key of the screen follows the work role and the language: the schemas are read again under a new one.
LEMMA MyNewKey ==
  ASSUME RequestsAssumption, MyPermissionsAssumption, MyInv, NEW s \in Keys, NewKey(s), UNCHANGED myServer, told' \in BOOLEAN,
         Advances(shell, myServer, told, s, myServer, told'), s.settled => s \in SettledKeys, ~s.settled => ~shell.settled,
         s = shell => told' = told
  PROVE  MyTop' /\ MyTree' /\ MyColumns' /\ shell' = s
  <1>0. myServer \in Versions /\ (shell.settled => shell \in SettledKeys) /\ shell \in Keys
    BY DEF MyInv, MyKinds
  <1>1. /\ shell' = s /\ top' = top /\ Rendered(s, top, expansion, tree, childReads, topReads, FALSE)
        /\ tables' = (IF s.settled /\ s # shell THEN NoData ELSE tables) /\ UNCHANGED <<chosen, columns, columnReads>>
    BY DEF NewKey, Rendered
  <1>2. /\ \A k, d : Holds(k, d, shell, myServer, told) => Holds(k, d, s, myServer, told')
        /\ \A k : IsPast(k, shell) => IsPast(k, s)
        /\ \A r : MyReads(r, shell, myServer, told) => MyReads(r, s, myServer, told')
    BY MyHolds
  <1>3. MyColumns'
    BY <1>1, <1>2 DEF MyInv, MyColumns
  <1>4. \/ top.key = NoKey /\ top.view = "loading" /\ top.data = NoData
        \/ IsPast(top.key, s) /\ top.view = "load-error" /\ top.data = NoData
        \/ top.view \in {"ready", "no-role", "empty"} /\ Holds(top.key, top.data, s, myServer, told')
    BY <1>2 DEF MyInv, MyTop
  <1>5. CASE s.settled /\ s # shell
    <2> DEFINE shown == top.key = s /\ top.view = "ready"
               begins == shown /\ expansion.key = s /\ expansion.open
    <2>1. TreeShown => top.key = shell
      BY DEF TreeShown, View, Pending
    <2>2. /\ topReads' = Superseded(topReads) \cup {MyReading(s)} /\ tables' = NoData
          /\ childReads' = (IF begins THEN {MyReading(s)} ELSE {})
          /\ tree' = (IF begins THEN [NotLoaded EXCEPT !.status = "loading"] ELSE NotLoaded)
      BY <1>1, <1>5, <2>1 DEF Rendered, Tree, NotLoaded
    <2>3. /\ MyReads({MyReading(s)}, s, myServer, told') /\ MyReading(s).mine /\ MyReading(s).key = s
      BY <1>0, <1>5, MyStartsReading
    <2>4. MyReads(Superseded(topReads), s, myServer, told') /\ (\A q \in Superseded(topReads) : ~q.mine)
      <3>1. MyReads(topReads, s, myServer, told')
        BY <1>2 DEF MyInv, MyTop
      <3> QED
        BY <3>1, MySuperseded
    <2>5. MyReads(topReads', s, myServer, told') /\ MyWanted(topReads') /\ \A q \in topReads' : q.mine => q.key = s
      BY <2>2, <2>3, <2>4 DEF MyReads, MyWanted
    <2>6. MyTop'
      BY <1>1, <1>4, <2>5 DEF MyTop
    <2>7. /\ MyReads(childReads', s, myServer, told') /\ (\A p, q \in childReads' : p = q) /\ (\A q \in childReads' : q.key = s)
          /\ MyWanted(childReads') <=> begins
      BY <2>2, <2>3 DEF MyReads, MyWanted
    <2>8. /\ tree'.status = (IF begins THEN "loading" ELSE "notLoaded") /\ tree'.data = NoData
      BY <2>2 DEF NotLoaded
    <2>9. MyTree'
      BY <1>1, <2>2, <2>7, <2>8 DEF MyTree
    <2> QED
      BY <1>1, <1>3, <2>6, <2>9
  <1>6. CASE s = shell
    <2>1. Rendered(shell, top, expansion, tree, childReads, topReads, FALSE) /\ UNCHANGED <<myServer, told, tables>>
      BY <1>1, <1>6
    <2>2. top.key = shell => shell.settled
      BY <1>0, MyNothing DEF MyInv, MyTop, IsPast, Holds
    <2>3. MyTree' /\ topReads' = topReads
      BY <2>1, <2>2, MyRendersTree
    <2>4. MyTop'
      BY <1>1, <1>6, <2>1, <2>3 DEF MyInv, MyTop
    <2> QED
      BY <1>1, <1>3, <2>3, <2>4
  <1>7. CASE ~s.settled /\ s # shell
    <2>1. top.key = NoKey /\ top.view = "loading" /\ topReads = {} /\ childReads = {} /\ tables = NoData
      <3>1. \A k : ~IsPast(k, shell)
        BY <1>7 DEF IsPast
      <3> QED
        BY <3>1 DEF MyInv, MyTop, MyTree, Holds, MyReads
    <2>2. topReads' = {} /\ tables' = NoData /\ childReads' = {} /\ tree' = NotLoaded
      BY <1>1, <1>7, <2>1 DEF Rendered, Tree, Superseded
    <2>3. MyTop'
      BY <1>1, <1>4, <1>7, <2>2 DEF MyTop, MyReads
    <2>4. MyTree'
      BY <1>1, <2>1, <2>2 DEF MyTree, MyReads, MyWanted, NotLoaded
    <2> QED
      BY <1>1, <1>3, <2>3, <2>4
  <1> QED
    BY <1>5, <1>6, <1>7

\* The shell: the work role is known, switched, read again; the language changes; the schemas are asked for again.
LEMMA MyShell ==
  ASSUME RequestsAssumption, MyPermissionsAssumption, MyInv,
         RoleSettles \/ MySwitchAnswered \/ SwitchRejected \/ RoleReread \/ MyLanguageChanges \/ retryMine
  PROVE  MyInv'
  <1>0. /\ myServer \in Versions /\ told \in BOOLEAN /\ myChanges \in 0..MaxMyChanges /\ shell \in Keys /\ shell.attempt <= myChanges
        /\ shell.settled => shell \in SettledKeys /\ shell.role <= myServer /\ (told \/ shell.role < myServer)
        /\ ~shell.settled => told /\ mySwitch = "none"
        /\ myServer \in Nat /\ myServer <= myServer /\ shell.attempt \in 0..MaxMyChanges
    <2>1. shell \in Keys /\ myServer \in Versions
      BY DEF MyInv, MyKinds
    <2>2. shell.attempt \in 0..MaxMyChanges
      BY <2>1 DEF Keys
    <2>3. myServer \in Nat /\ myServer <= myServer
      BY <2>1 DEF Versions
    <2> QED
      BY <2>1, <2>2, <2>3 DEF MyInv, MyKinds
  <1>1. UNCHANGED myServer
    BY DEF RoleSettles, MySwitchAnswered, SwitchRejected, RoleReread, MyLanguageChanges, retryMine
  <1>2. ASSUME NEW s \in Keys, NewKey(s), told' \in BOOLEAN, Advances(shell, myServer, told, s, myServer, told'),
               s.settled => s \in SettledKeys /\ s.role <= myServer /\ (told' \/ s.role < myServer),
               ~s.settled => ~shell.settled, s = shell => told' = told,
               myChanges' \in 0..MaxMyChanges, mySwitch' \in {"none", "sent", "served", "reread"},
               ~s.settled => told' /\ mySwitch' = "none", s.attempt <= myChanges'
        PROVE  MyInv'
    <2>1. MyTop' /\ MyTree' /\ MyColumns' /\ shell' = s
      BY <1>1, <1>2, MyNewKey
    <2>2. MyKinds'
      BY <1>0, <1>1, <1>2, <2>1 DEF MyKinds
    <2> QED
      BY <2>1, <2>2 DEF MyInv
  <1>3. CASE RoleSettles
    <2> DEFINE s == [shell EXCEPT !.settled = TRUE, !.role = myServer]
    <2>1. ~shell.settled /\ NewKey(s) /\ UNCHANGED <<told, myChanges, mySwitch>>
      BY <1>3 DEF RoleSettles
    <2>2. s \in SettledKeys /\ s \in Keys /\ s.settled /\ s.role = myServer /\ s.attempt = shell.attempt
      BY <1>0 DEF Keys, SettledKeys
    <2> HIDE DEF s
    <2>3. Advances(shell, myServer, told, s, myServer, told')
      BY <1>0, <2>1 DEF Advances
    <2>4. s.role <= myServer
      BY <1>0, <2>2
    <2> QED
      BY <1>0, <1>2, <2>1, <2>2, <2>3, <2>4 DEF MyInv, MyKinds
  <1>4. CASE MySwitchAnswered \/ SwitchRejected
    <2> DEFINE s == [shell EXCEPT !.revision = @ + 1]
    <2>1. /\ mySwitch # "none" /\ shell.revision < MaxVersion /\ NewKey(s) /\ mySwitch' = "reread" /\ UNCHANGED myChanges
          /\ told' \in BOOLEAN /\ (told' \/ UNCHANGED told)
      BY <1>0, <1>4 DEF MySwitchAnswered, SwitchRejected
    <2>7. shell.settled /\ shell \in SettledKeys
      BY <1>0, <2>1
    <2>2. shell.revision \in Nat /\ shell.role \in Nat
      BY <2>7 DEF SettledKeys, Versions
    <2>3. shell.revision + 1 \in Versions /\ shell.revision <= shell.revision + 1 /\ shell.revision # shell.revision + 1 /\ shell.role <= shell.role
      BY <2>1, <2>2 DEF Versions, RequestsAssumption
    <2>4. s = [shell EXCEPT !.revision = shell.revision + 1]
      OBVIOUS
    <2>5. s \in SettledKeys /\ s \in Keys /\ s.settled /\ s.role = shell.role /\ s.revision = shell.revision + 1 /\ s # shell
          /\ s.attempt = shell.attempt
      BY <1>0, <2>7, <2>3, <2>4 DEF SettledKeys, Keys
    <2> HIDE DEF s
    <2>6. Advances(shell, myServer, told, s, myServer, told')
      BY <1>0, <2>2, <2>3, <2>5, <2>7 DEF Advances, OfNow
    <2> QED
      BY <1>0, <1>2, <2>1, <2>2, <2>5, <2>6, <2>7
  <1>5. CASE RoleReread
    <2> DEFINE s == [shell EXCEPT !.role = myServer]
    <2>1. /\ mySwitch = "reread" /\ mySwitch' = "none" /\ told' = TRUE /\ NewKey(s) /\ UNCHANGED myChanges
      BY <1>5 DEF RoleReread
    <2>7. shell.settled /\ shell \in SettledKeys
      BY <1>0, <2>1
    <2>2. shell.revision \in Nat /\ shell.role \in Nat /\ shell.revision <= shell.revision
      BY <2>7 DEF SettledKeys, Versions
    <2>3. s \in SettledKeys /\ s \in Keys /\ s.settled /\ s.role = myServer /\ s.revision = shell.revision /\ s.attempt = shell.attempt
      BY <1>0, <2>7 DEF SettledKeys, Keys
    <2> HIDE DEF s
    <2>4. shell.role = myServer => told
      BY <1>0, <2>2
    <2>5. Advances(shell, myServer, told, s, myServer, told')
      BY <1>0, <2>1, <2>2, <2>3, <2>4, <2>7 DEF Advances, OfNow
    <2> QED
      BY <1>0, <1>2, <2>1, <2>2, <2>3, <2>4, <2>5, <2>7
  <1>6. CASE MyLanguageChanges
    <2>1. PICK l \in Languages : NewKey([shell EXCEPT !.language = l])
      BY <1>6 DEF MyLanguageChanges
    <2> DEFINE s == [shell EXCEPT !.language = l]
    <2>2. /\ s \in Keys /\ s.settled = shell.settled /\ s.role = shell.role /\ s.revision = shell.revision /\ s.attempt = shell.attempt
          /\ (shell \in SettledKeys => s \in SettledKeys)
      BY <1>0 DEF Keys, SettledKeys
    <2> HIDE DEF s
    <2>3. NewKey(s)
      BY <2>1 DEF s
    <2>4. UNCHANGED <<told, mySwitch>> /\ myChanges' = myChanges + 1 /\ myChanges < MaxMyChanges
      BY <1>6 DEF MyLanguageChanges
    <2>5. myChanges' \in 0..MaxMyChanges /\ s.attempt <= myChanges'
      BY <1>0, <2>2, <2>4 DEF MyPermissionsAssumption
    <2>6. shell.settled => shell.role <= shell.role /\ shell.revision <= shell.revision
      BY <1>0 DEF SettledKeys, Versions
    <2>7. Advances(shell, myServer, told, s, myServer, told')
      BY <1>0, <2>2, <2>4, <2>6 DEF Advances
    <2>8. mySwitch \in {"none", "sent", "served", "reread"}
      BY DEF MyInv, MyKinds
    <2> QED
      BY <1>0, <1>2, <2>2, <2>3, <2>4, <2>5, <2>7, <2>8
  <1>7. CASE retryMine
    <2> DEFINE s == [shell EXCEPT !.attempt = shell.attempt + 1]
    <2>1. NewKey(s) /\ UNCHANGED <<told, mySwitch>> /\ myChanges' = myChanges + 1 /\ myChanges < MaxMyChanges
      BY <1>7 DEF retryMine
    <2>2. shell.attempt + 1 \in 0..MaxMyChanges /\ myChanges' \in 0..MaxMyChanges /\ shell.attempt + 1 <= myChanges'
      BY <1>0, <2>1 DEF MyPermissionsAssumption
    <2>3. /\ s \in Keys /\ s.settled = shell.settled /\ s.role = shell.role /\ s.revision = shell.revision /\ s.attempt = shell.attempt + 1
          /\ (shell \in SettledKeys => s \in SettledKeys)
      BY <1>0, <2>2 DEF Keys, SettledKeys
    <2> HIDE DEF s
    <2>6. shell.settled => shell.role <= shell.role /\ shell.revision <= shell.revision
      BY <1>0 DEF SettledKeys, Versions
    <2>7. Advances(shell, myServer, told, s, myServer, told')
      BY <1>0, <2>1, <2>3, <2>6 DEF Advances
    <2>8. mySwitch \in {"none", "sent", "served", "reread"}
      BY DEF MyInv, MyKinds
    <2> QED
      BY <1>0, <1>2, <2>1, <2>2, <2>3, <2>7, <2>8
  <1> QED
    BY <1>3, <1>4, <1>5, <1>6, <1>7

\* The work role is switched on the server, by this tab or not known to it: what is kept is not claimed of now any more.
LEMMA MySwitching ==
  ASSUME RequestsAssumption, MyInv, SwitchTo \/ SwitchServed \/ SwitchLost \/ RoleRereadFails
  PROVE  MyInv'
  <1>0. /\ myServer \in Versions /\ (shell.settled => shell \in SettledKeys /\ shell.role <= myServer /\ (told \/ shell.role < myServer))
        /\ (~shell.settled => told /\ mySwitch = "none")
    BY DEF MyInv, MyKinds
  <1>1. /\ UNCHANGED <<myChanges, shell, top, topReads, expansion, tree, childReads, tables, chosen, columns, columnReads>>
        /\ \/ UNCHANGED <<myServer, told>>
           \/ myServer < MaxVersion /\ myServer' = myServer + 1 /\ told' = FALSE
        /\ mySwitch' \in {"none", "sent", "served", "reread"} /\ shell.settled
    BY <1>0 DEF SwitchTo, SwitchServed, SwitchLost, RoleRereadFails
  <1>2. CASE UNCHANGED <<myServer, told>>
    <2>1. MyKinds'
      BY <1>1, <1>2 DEF MyInv, MyKinds
    <2>2. MyTop' /\ MyColumns'
      BY <1>1, <1>2 DEF MyInv, MyTop, MyColumns
    <2>3. MyTree'
      BY <1>1, <1>2 DEF MyInv, MyTree
    <2> QED
      BY <2>1, <2>2, <2>3 DEF MyInv
  <1>3. CASE myServer < MaxVersion /\ myServer' = myServer + 1 /\ told' = FALSE
    <2>0. shell \in SettledKeys /\ shell.role <= myServer
      BY <1>0, <1>1
    <2>1. myServer' \in Versions /\ myServer <= myServer' /\ shell.role <= myServer' /\ shell.role < myServer'
          /\ shell.role <= shell.role /\ shell.revision <= shell.revision
      BY <1>0, <1>3, <2>0 DEF Versions, RequestsAssumption, SettledKeys
    <2>2. Advances(shell, myServer, told, shell, myServer', told')
      BY <1>0, <1>3, <2>0, <2>1 DEF Advances
    <2>3. /\ \A k, d : Holds(k, d, shell, myServer, told) => Holds(k, d, shell, myServer', told')
          /\ \A r : MyReads(r, shell, myServer, told) => MyReads(r, shell, myServer', told')
      BY <2>2, MyHolds
    <2>4. MyKinds'
      BY <1>0, <1>1, <1>3, <2>1 DEF MyInv, MyKinds
    <2>5. MyTop' /\ MyColumns'
      BY <1>1, <2>3 DEF MyInv, MyTop, MyColumns
    <2>6. MyTree'
      BY <1>1, <2>3 DEF MyInv, MyTree
    <2> QED
      BY <2>4, <2>5, <2>6 DEF MyInv
  <1> QED
    BY <1>1, <1>2, <1>3

\* The schemas are read, and the tree is opened and closed.
LEMMA MySchemas ==
  ASSUME RequestsAssumption, MyPermissionsAssumption, MyInv, toggle \/ (\E q \in topReads : MySchemasRead(q) \/ MySchemasFail(q))
  PROVE  MyInv'
  <1>0. /\ MyReads(topReads, shell, myServer, told) /\ (\A q \in topReads : q.mine => q.key = shell) /\ myServer \in Versions
        /\ (top.key = shell => shell.settled)
    <2>1. shell \in Keys
      BY DEF MyInv, MyKinds
    <2> QED
      BY <2>1, MyNothing DEF MyInv, MyTop, MyKinds, IsPast, Holds
  <1>1. UNCHANGED <<myServer, told, myChanges, mySwitch, tables, chosen, columns, columnReads>>
    BY DEF toggle, MySchemasRead, MySchemasFail
  <1>2. ASSUME UNCHANGED shell, MyTop', MyTree' PROVE MyInv'
    <2>1. MyKinds' /\ MyColumns'
      BY <1>1, <1>2 DEF MyInv, MyKinds, MyColumns
    <2> QED
      BY <1>2, <2>1 DEF MyInv
  <1>3. CASE toggle
    <2>1. PICK e : Rendered(shell, top, e, tree, childReads, topReads, FALSE)
      BY <1>3 DEF toggle
    <2>2. MyTree' /\ topReads' = topReads /\ top' = top /\ UNCHANGED shell
      BY <1>0, <1>1, <2>1, MyRendersTree
    <2>3. MyTop'
      BY <1>1, <2>2 DEF MyInv, MyTop
    <2> QED
      BY <1>2, <2>2, <2>3
  <1>4. ASSUME NEW q \in topReads, MySchemasRead(q) \/ MySchemasFail(q)
        PROVE  MyInv'
    <2>1. /\ MyReads(topReads \ {q}, shell, myServer, told) /\ \A r \in topReads \ {q} : r.mine => r.key = shell
          /\ IsPast(q.key, shell)
      BY <1>0 DEF MyReads
    <2>2. CASE ~q.mine
      <3>1. topReads' = topReads \ {q} /\ UNCHANGED <<shell, top, expansion, tree, childReads>>
        BY <1>4, <2>2 DEF MySchemasRead, MySchemasFail
      <3>2. MyWanted(topReads) => MyWanted(topReads')
        BY <2>2, <3>1 DEF MyWanted
      <3>3. MyTop'
        BY <1>1, <2>1, <3>1, <3>2 DEF MyInv, MyTop
      <3>4. MyTree'
        BY <1>1, <3>1 DEF MyInv, MyTree
      <3> QED
        BY <1>2, <3>1, <3>3, <3>4
    <2>3. CASE q.mine
      <3>1. PICK t : /\ Rendered(shell, t, expansion, tree, childReads, topReads \ {q}, TRUE)
                     /\ \/ t.view = "load-error" /\ t.key = q.key /\ t.data = NoData
                        \/ t.view \in {"ready", "no-role", "empty"} /\ t.key = q.key /\ t.data \in Answers(q)
        <4>1. CASE MySchemasFail(q)
          <5> DEFINE t == [key |-> q.key, view |-> "load-error", data |-> NoData]
          <5>1. Rendered(shell, t, expansion, tree, childReads, topReads \ {q}, TRUE)
            BY <2>3, <4>1 DEF MySchemasFail
          <5>2. t.view = "load-error" /\ t.key = q.key /\ t.data = NoData
            OBVIOUS
          <5> HIDE DEF t
          <5> QED
            BY <5>1, <5>2
        <4>2. CASE MySchemasRead(q)
          <5>1. PICK view \in {"ready", "no-role", "empty"}, data \in Answers(q) :
                  Rendered(shell, [key |-> q.key, view |-> view, data |-> data], expansion, tree, childReads, topReads \ {q}, TRUE)
            BY <2>3, <4>2 DEF MySchemasRead
          <5> DEFINE t == [key |-> q.key, view |-> view, data |-> data]
          <5>2. t.view \in {"ready", "no-role", "empty"} /\ t.key = q.key /\ t.data \in Answers(q)
            OBVIOUS
          <5>3. Rendered(shell, t, expansion, tree, childReads, topReads \ {q}, TRUE)
            BY <5>1
          <5> HIDE DEF t
          <5> QED
            BY <5>2, <5>3
        <4> QED
          BY <1>4, <4>1, <4>2
      <3>2. shell.settled /\ q.key = shell
        BY <1>0, <2>1, <2>3 DEF IsPast
      <3>3. MyTree' /\ topReads' = topReads \ {q} /\ top' = t /\ UNCHANGED shell
        BY <1>1, <3>1, <3>2, MyRendersTree
      <3>4. t.data \in Answers(q) => Holds(q.key, t.data, shell, myServer, told)
        BY <1>0, MyAnswer
      <3>5. MyTop'
        BY <1>1, <2>1, <3>1, <3>2, <3>3, <3>4 DEF MyTop
      <3> QED
        BY <1>2, <3>3, <3>5
    <2> QED
      BY <2>2, <2>3
  <1> QED
    BY <1>3, <1>4

\* The tables of the opened schema are read.
LEMMA MyChildren ==
  ASSUME RequestsAssumption, MyPermissionsAssumption, MyInv, retryChildren \/ (\E q \in childReads : ChildrenRead(q))
  PROVE  MyInv'
  <1>0. /\ MyReads(childReads, shell, myServer, told) /\ (\A p, q \in childReads : p.mine /\ q.mine => p = q)
        /\ (tree.status = "loading" <=> MyWanted(childReads)) /\ (\A q \in childReads : q.key = shell) /\ myServer \in Versions
    BY DEF MyInv, MyTree, MyKinds
  <1>1. UNCHANGED <<myServer, told, myChanges, mySwitch, shell, top, topReads, expansion, chosen, columns, columnReads>>
    BY DEF retryChildren, ChildrenRead
  <1>2. SUFFICES MyTree'
    <2>1. MyKinds' /\ MyColumns'
      BY <1>1 DEF MyInv, MyKinds, MyColumns
    <2>2. MyTop'
      BY <1>1 DEF MyInv, MyTop
    <2> QED
      BY <1>2, <2>1, <2>2 DEF MyInv
  <1>3. CASE retryChildren
    <2>1. /\ tree.status = "failed" /\ tree' = [NotLoaded EXCEPT !.status = "loading"] /\ childReads' = childReads \cup {MyReading(shell)}
          /\ UNCHANGED tables
      BY <1>3 DEF retryChildren
    <2>2. tree'.status = "loading" /\ tree'.data = NoData
      BY <2>1 DEF NotLoaded
    <2>3. shell \in SettledKeys /\ top.key = shell /\ top.view = "ready"
      BY <2>1 DEF MyInv, MyTree, MyTop, Holds, IsPast
    <2>4. MyReads({MyReading(shell)}, shell, myServer, told) /\ MyReading(shell).mine /\ MyReading(shell).key = shell
      BY <1>0, <2>3, MyStartsReading
    <2>5. MyReads(childReads', shell, myServer, told) /\ MyWanted(childReads') /\ (\A q \in childReads' : q.key = shell)
          /\ (\A p, q \in childReads' : p.mine /\ q.mine => p = q)
      BY <1>0, <2>1, <2>4 DEF MyReads, MyWanted
    <2> QED
      BY <1>1, <2>1, <2>2, <2>3, <2>5 DEF MyInv, MyTree
  <1>4. ASSUME NEW q \in childReads, ChildrenRead(q)
        PROVE  MyTree'
    <2>1. childReads' = childReads \ {q}
      BY <1>4 DEF ChildrenRead
    <2>2. /\ MyReads(childReads', shell, myServer, told) /\ (\A p, r \in childReads' : p.mine /\ r.mine => p = r)
          /\ (\A r \in childReads' : r.key = shell) /\ (q.mine => ~MyWanted(childReads'))
          /\ (~q.mine => (MyWanted(childReads') <=> MyWanted(childReads))) /\ (q.mine => MyWanted(childReads))
      BY <1>0, <2>1 DEF MyReads, MyWanted
    <2>3. CASE \E data \in Answers(q) : tables' = data /\ tree' = IF q.mine THEN [status |-> "loaded", data |-> data] ELSE tree
      <3>1. Holds(shell, tables', shell, myServer, told)
        BY <1>0, <2>3, MyAnswer
      <3>2. tables' # NoData
        BY <3>1, MyNothing DEF Holds
      <3>3. q.mine => tree'.status = "loaded" /\ tree'.data = tables'
        BY <2>3
      <3>4. ~q.mine => tree' = tree
        BY <2>3
      <3> QED
        BY <1>0, <1>1, <2>2, <3>1, <3>2, <3>3, <3>4 DEF MyInv, MyTree
    <2>4. CASE tree' = (IF q.mine THEN [NotLoaded EXCEPT !.status = "failed"] ELSE tree) /\ UNCHANGED tables
      <3>1. q.mine => tree'.status = "failed" /\ tree'.data = NoData
        BY <2>4 DEF NotLoaded
      <3> QED
        BY <1>0, <1>1, <2>2, <2>4, <3>1 DEF MyInv, MyTree
    <2> QED
      BY <1>4, <2>3, <2>4 DEF ChildrenRead
  <1> QED
    BY <1>3, <1>4

\* A schema or a table is chosen, and its columns are read.
LEMMA MyChoices ==
  ASSUME RequestsAssumption, MyInv, selectSchema \/ selectTable \/ (\E q \in columnReads : MyColumnsRead(q))
  PROVE  MyInv'
  <1>0. MyReads(columnReads, shell, myServer, told) /\ myServer \in Versions
    BY DEF MyInv, MyColumns, MyKinds
  <1>1. UNCHANGED <<myServer, told, myChanges, mySwitch, shell, top, topReads, expansion, tree, childReads, tables>>
    BY DEF selectSchema, selectTable, MyColumnsRead
  <1>2. SUFFICES MyColumns'
    <2>1. MyKinds' /\ MyTop'
      BY <1>1 DEF MyInv, MyKinds, MyTop
    <2>2. MyTree'
      BY <1>1 DEF MyInv, MyTree
    <2> QED
      BY <1>2, <2>1, <2>2 DEF MyInv
  <1>3. CASE selectSchema
    <2>1. TreeShown /\ chosen' = [key |-> shell, id |-> "schema", node |-> top.data] /\ UNCHANGED <<columns, columnReads>>
      BY <1>3 DEF selectSchema
    <2>2. Holds(shell, top.data, shell, myServer, told)
      BY <2>1 DEF TreeShown, View, Pending, MyInv, MyTop
    <2> QED
      BY <1>1, <2>1, <2>2 DEF MyInv, MyColumns
  <1>4. CASE selectTable
    <2>1. /\ tree.status = "loaded" /\ chosen' = [key |-> shell, id |-> "table", node |-> tables]
          /\ columns'.status = "loading" /\ columns'.data = NoData /\ columnReads' = {MyReading(shell)}
      BY <1>4 DEF selectTable
    <2>2. Holds(shell, tables, shell, myServer, told) /\ shell \in SettledKeys
      BY <2>1 DEF MyInv, MyTree, Holds, IsPast
    <2>3. MyReads(columnReads', shell, myServer, told) /\ MyWanted(columnReads')
      BY <1>0, <2>1, <2>2, MyStartsReading DEF MyWanted
    <2> QED
      BY <1>1, <2>1, <2>2, <2>3 DEF MyColumns
  <1>5. ASSUME NEW q \in columnReads, MyColumnsRead(q)
        PROVE  MyColumns'
    <2>1. columnReads' = {} /\ UNCHANGED chosen
      BY <1>5 DEF MyColumnsRead
    <2>2. \/ columns'.status = "failed" /\ columns'.data = NoData
          \/ columns'.status = "loaded" /\ columns'.key = q.key /\ columns'.data \in Answers(q)
      BY <1>5 DEF MyColumnsRead
    <2>3. columns'.data \in Answers(q) => Holds(q.key, columns'.data, shell, myServer, told)
      BY <1>0, MyAnswer
    <2>4. MyReads(columnReads', shell, myServer, told)
      BY <2>1 DEF MyReads
    <2> QED
      BY <1>1, <2>1, <2>2, <2>3, <2>4 DEF MyInv, MyColumns
  <1> QED
    BY <1>3, <1>4, <1>5

\* Every step keeps them.
LEMMA MyStep == ASSUME RequestsAssumption, MyPermissionsAssumption, MyInv, MyNext PROVE MyInv'
  BY MyShell, MySwitching, MySchemas, MyChildren, MyChoices DEF MyNext

\* A step of another part leaves the screen as it is.
LEMMA MyRests == ASSUME MyInv, UNCHANGED myVars PROVE MyInv'
  <1>1. MyKinds' /\ MyTop' /\ MyColumns'
    BY DEF myVars, MyInv, MyKinds, MyTop, MyColumns
  <1>2. MyTree'
    BY DEF myVars, MyInv, MyTree
  <1> QED
    BY <1>1, <1>2 DEF MyInv

\* What the run checks of it.
LEMMA MyShows == ASSUME MyPermissionsAssumption, MyInv PROVE MyTypeOK /\ LoadingIsAwaited /\ OneRoleIsShown
  <1>0. TreeShown <=> top.key = shell /\ top.view = "ready"
    BY DEF TreeShown, View, Pending
  <1>1. RealData \subseteq Data /\ NoData \in Data /\ NoData \notin RealData
    BY MyNothing DEF RealData, Data
  <1>2. top.data \in Data /\ top.view \in {"loading", "ready", "no-role", "empty", "load-error"}
    BY <1>1 DEF MyInv, MyTop, Holds
  <1>3. /\ tables \in Data /\ tree.status \in {"notLoaded", "loading", "loaded", "failed"} /\ (tree.status = "loaded" <=> tree.data # NoData)
        /\ tree.status # "notLoaded" => TreeShown
    BY <1>0, <1>1 DEF MyInv, MyTree, Holds
  <1>4. /\ chosen.id \in {"none", "schema", "table"} /\ (chosen.id = "none" <=> chosen.node = NoData)
        /\ columns.status \in {"none", "loading", "loaded", "failed"} /\ (columns.status = "loaded" <=> columns.data # NoData)
    BY <1>1 DEF MyInv, MyColumns, Holds
  <1>5. MyTypeOK
    BY <1>2, <1>3, <1>4 DEF MyInv, MyKinds, MyTypeOK
  <1>6. LoadingIsAwaited
    <2>1. View = "loading" => top.key # shell
      BY MyNothing DEF View, Pending, MyInv, MyTop, MyKinds
    <2>2. columnsState = "loading" => columns.status = "loading"
      BY DEF columnsState
    <2> QED
      BY <1>0, <2>1, <2>2 DEF LoadingIsAwaited, MyInv, MyTop, MyTree, MyColumns
  <1>7. OneRoleIsShown
    <2> DEFINE now == [version |-> myServer, language |-> shell.language]
    <2>1. \A d : told /\ Holds(shell, d, shell, myServer, told) => d = now
      BY DEF Holds, OfNow
    <2> HIDE DEF now
    <2>2. told /\ View \in {"ready", "no-role", "empty"} => top.data = now
      BY <2>1 DEF View, Pending, MyInv, MyTop
    <2>3. told /\ TreeShown /\ tree.status = "loaded" => tree.data = now
      BY <2>1 DEF MyInv, MyTree
    <2>4. told /\ selected # "none" => chosen.node = now
      BY <2>1 DEF selected, MyInv, MyColumns
    <2>5. told /\ columnsState = "loaded" => columns.data = now
      BY <2>1 DEF columnsState, MyInv, MyColumns
    <2> QED
      BY <2>2, <2>3, <2>4, <2>5 DEF OneRoleIsShown, now
  <1> QED
    BY <1>5, <1>6, <1>7

-----------------------------------------------------------------------------
(* The DSL *)

DslStates == [placed : PreviewIds, preview : PreviewIds]
DslStatuses == [state : LoadStates, fresh : BOOLEAN, preview : PreviewIds]
DslPanels == [state : LoadStates, fresh : BOOLEAN, preview : PreviewIds, invalid : BOOLEAN, replaced : BOOLEAN]
DslHists == [state : LoadStates, stale : BOOLEAN, asked : BOOLEAN]
StatusReads == [mine : BOOLEAN, about : PreviewIds]
PreviewReads == [stage : {"sent", "served"}, mine : {TRUE}, fresh : BOOLEAN, preview : PreviewIds]
DslCalls == [op : DslOps, about : PreviewIds, seen : BOOLEAN, stage : {"sent", "checking"}]
DslQuestions == [op : DslOps \cup {"none"}, about : PreviewIds, seen : BOOLEAN]

DslServerInv == dslS \in DslStates /\ dslS.preview <= dslS.placed

\* The state on top is of the last operation heard done, or it is being read.
DslStatusInv ==
  /\ dslStatus \in DslStatuses /\ statusReqs \subseteq StatusReads
  /\ dslStatus.state = "loading" => Wanted(statusReqs)
  /\ dslStatus.state = "loaded" /\ ~Wanted(statusReqs) => dslStatus.fresh

\* So is the preview.
DslPanelInv ==
  /\ panel \in DslPanels /\ panelReqs \subseteq PreviewReads
  /\ panel.state = "loading" => panelReqs # {}
  /\ panel.state = "gone" => ~panel.fresh
  /\ panel.invalid => panel.preview = 0
  /\ panel.state = "loaded" => panel.fresh
  /\ \A q \in panelReqs : q.stage = "served" => q.fresh

DslHistInv == hist \in DslHists /\ (hist.state = "loading" => hist.asked) /\ tab \in {"preview", "submit", "history"}

\* What is asked about, or on its way, that applies a preview was shown with it.
DslCallsInv ==
  /\ busy \in DslOps \cup {"none"} /\ calls \subseteq DslCalls /\ fileRead \in BOOLEAN /\ asked \in DslQuestions
  /\ downloads \in {"none", "missing", "late"} /\ disturbed \in BOOLEAN
  /\ busy # "none" => \E c \in calls : c.op = busy
  /\ AppliesWhatItShowed
  /\ asked.op = "apply" => asked.about # 0 /\ asked.seen

\* They followed from a preview that was shown.
DslShownInv == asked.op = "apply" \/ downloads # "none" \/ (\E c \in calls : c.op = "apply") => panel.fresh

DslInv == DslServerInv /\ DslStatusInv /\ DslPanelInv /\ DslHistInv /\ DslCallsInv /\ DslShownInv

\* The empty values are values of their kinds.
LEMMA DslNothing ==
  ASSUME DslScreenAssumption
  PROVE  0 \in PreviewIds /\ NoStatus \in DslStatuses /\ NoPanel \in DslPanels /\ NoHist \in DslHists /\ NotAsked \in DslQuestions
  <1>1. 0 \in PreviewIds
    BY DEF DslScreenAssumption, PreviewIds
  <1> QED
    BY <1>1 DEF NoStatus, DslStatuses, NoPanel, DslPanels, NoHist, DslHists, NotAsked, DslQuestions, LoadStates

\* Initially the invariant of the DSL holds.
LEMMA DslStart == ASSUME DslScreenAssumption, DslInit PROVE DslInv
  <1>1. DslServerInv
    BY DslNothing DEF DslInit, DslServerInv, DslStates, DslScreenAssumption
  <1>2. DslStatusInv
    BY DslNothing DEF DslInit, DslStatusInv, NoStatus
  <1>3. DslPanelInv
    BY DslNothing DEF DslInit, DslPanelInv, NoPanel
  <1>4. DslHistInv
    BY DslNothing DEF DslInit, DslHistInv, NoHist
  <1>5. DslCallsInv
    BY DslNothing DEF DslInit, DslCallsInv, NotAsked, AppliesWhatItShowed
  <1>6. DslShownInv
    BY DEF DslInit, DslShownInv, NotAsked
  <1> QED
    BY <1>1, <1>2, <1>3, <1>4, <1>5, <1>6 DEF DslInv

\* What the operations do on the server.
LEMMA DslPlaces ==
  ASSUME DslScreenAssumption, DslServerInv, MayPlace, dslS' = Places(dslS)
  PROVE  DslServerInv' /\ dslS'.preview \in PreviewIds
  <1>1. dslS.placed \in Nat /\ dslS.placed + 1 \in PreviewIds
    BY DEF DslServerInv, DslStates, PreviewIds, MayPlace, DslScreenAssumption
  <1>2. dslS'.placed = dslS.placed + 1 /\ dslS'.preview = dslS.placed + 1 /\ dslS' \in DslStates
    BY <1>1 DEF Places, DslStates
  <1> QED
    BY <1>1, <1>2 DEF DslServerInv

\* A preview that is taken leaves none.
LEMMA DslTakes ==
  ASSUME DslScreenAssumption, DslServerInv, dslS' = Takes(dslS)
  PROVE  DslServerInv'
  <1>1. dslS' \in DslStates /\ dslS'.preview = 0 /\ dslS'.placed = dslS.placed
    BY DslNothing DEF DslServerInv, DslStates, Takes
  <1>2. dslS.placed >= 0
    BY DEF DslServerInv, DslStates, PreviewIds, DslScreenAssumption
  <1> QED
    BY <1>1, <1>2 DEF DslServerInv

\* The state on top is being read.
LEMMA DslStatusAsked ==
  ASSUME DslStatusInv, NEW about \in PreviewIds, LoadStatus(about), dslStatus' \in DslStatuses
  PROVE  DslStatusInv'
  <1> DEFINE new == [mine |-> TRUE, about |-> about]
  <1>1. new \in StatusReads /\ new.mine
    BY DEF StatusReads
  <1>2. Dropped(statusReqs) \subseteq StatusReads
    <2>1. ASSUME NEW q \in statusReqs PROVE [q EXCEPT !.mine = FALSE] \in StatusReads
      BY DEF DslStatusInv, StatusReads
    <2> QED
      BY <2>1 DEF Dropped
  <1>3. statusReqs' = {q \in Dropped(statusReqs) : q.about # 0} \cup {new}
    BY DEF LoadStatus
  <1> HIDE DEF new
  <1>4. statusReqs' \subseteq StatusReads /\ Wanted(statusReqs')
    BY <1>1, <1>2, <1>3 DEF Wanted
  <1> QED
    BY <1>4 DEF DslStatusInv

\* What is shown is of an operation that was heard of, and no reading is on its way.
LEMMA DslPanelSet ==
  ASSUME panel' \in DslPanels, panel'.state = "loaded", panel'.fresh, panel'.invalid => panel'.preview = 0, ForgetPreviewReads
  PROVE  DslPanelInv'
  BY DEF ForgetPreviewReads, DslPanelInv

\* A panel that is cleared shows no preview.
LEMMA DslCleared ==
  ASSUME DslScreenAssumption, NEW fresh \in BOOLEAN
  PROVE  /\ ClearedPanel(fresh) \in DslPanels /\ ClearedPanel(fresh).state = "loaded" /\ ClearedPanel(fresh).fresh = fresh
         /\ ~ClearedPanel(fresh).invalid /\ ClearedPanel(fresh).preview = 0
  BY DslNothing DEF ClearedPanel, DslPanels, LoadStates

\* The preview is being read.
LEMMA DslPanelAsked ==
  ASSUME DslScreenAssumption, panel' \in DslPanels, panel'.state = "loading", panel'.invalid => panel'.preview = 0, loadPreview
  PROVE  DslPanelInv'
  <1>1. Reading \in PreviewReads /\ Reading.stage = "sent"
    BY DslNothing DEF Reading, PreviewReads
  <1> QED
    BY <1>1 DEF loadPreview, DslPanelInv

\* An operation is sent.
LEMMA DslRuns ==
  ASSUME DslCallsInv, NEW a \in DslQuestions, a.op # "none", a.op = "apply" => a.about # 0 /\ a.seen, RunOperation(a),
         asked' = asked \/ asked' = NotAsked, NotAsked \in DslQuestions, fileRead' \in BOOLEAN, UNCHANGED downloads
  PROVE  DslCallsInv' /\ ((\E c \in calls' : c.op = "apply") => a.op = "apply" \/ \E c \in calls : c.op = "apply")
  <1> DEFINE new == [op |-> a.op, about |-> a.about, seen |-> a.seen, stage |-> "sent"]
  <1>1. new \in DslCalls /\ new.op = a.op /\ new.about = a.about /\ new.seen = a.seen /\ a.op \in DslOps
    BY DEF DslCalls, DslQuestions
  <1>2. calls' = calls \cup {new} /\ busy' = a.op /\ disturbed' \in BOOLEAN
    BY DEF RunOperation
  <1> HIDE DEF new
  <1>3. \A c \in calls' : c \in calls \/ c = new
    BY <1>2
  <1>4. AppliesWhatItShowed'
    BY <1>1, <1>3 DEF DslCallsInv, AppliesWhatItShowed
  <1>5. asked' \in DslQuestions /\ (asked'.op = "apply" => asked'.about # 0 /\ asked'.seen)
    <2>1. CASE asked' = asked
      BY <2>1 DEF DslCallsInv
    <2>2. CASE asked' = NotAsked
      <3>1. NotAsked.op = "none"
        BY DEF NotAsked
      <3> QED
        BY <2>2, <3>1
    <2> QED
      BY <2>1, <2>2
  <1>6. \E c \in calls' : c.op = busy'
    BY <1>1, <1>2
  <1>7. DslCallsInv'
    BY <1>1, <1>2, <1>4, <1>5, <1>6 DEF DslCallsInv
  <1> QED
    BY <1>1, <1>3, <1>7

\* An operation is answered.
LEMMA DslEnds ==
  ASSUME DslCallsInv, calls' \subseteq calls, busy' = "none", UNCHANGED <<fileRead, asked, disturbed>>,
         downloads' \in {downloads, "late"}
  PROVE  DslCallsInv'
  BY DEF DslCallsInv, AppliesWhatItShowed

\* A question before a placing starts no apply.
LEMMA DslAsks ==
  ASSUME DslCallsInv, DslScreenAssumption, DslPanelInv, NEW op \in Placing, withReplaceConfirm(op), fileRead' \in BOOLEAN, UNCHANGED downloads
  PROVE  /\ DslCallsInv'
         /\ asked'.op # "apply" \/ asked' = asked
         /\ ((\E c \in calls' : c.op = "apply") => \E c \in calls : c.op = "apply")
  <1>1. About(op, 0) \in DslQuestions /\ About(op, 0).op = op /\ op # "apply" /\ op # "none"
    BY DslNothing DEF About, DslQuestions, DslOps, Placing
  <1>2. CASE RunOperation(About(op, 0)) /\ UNCHANGED asked
    BY <1>1, <1>2, DslRuns, DslNothing
  <1>3. CASE asked' = About(op, 0) /\ UNCHANGED <<calls, busy, disturbed>>
    BY <1>1, <1>3 DEF DslCallsInv, AppliesWhatItShowed
  <1> QED
    BY <1>2, <1>3 DEF withReplaceConfirm

\* What a part of the page rests on.
LEMMA DslParts ==
  ASSUME DslInv
  PROVE  /\ UNCHANGED dslS => DslServerInv'
         /\ UNCHANGED <<dslStatus, statusReqs>> => DslStatusInv'
         /\ UNCHANGED <<panel, panelReqs>> => DslPanelInv'
         /\ UNCHANGED <<hist, tab>> => DslHistInv'
         /\ UNCHANGED <<busy, calls, fileRead, asked, downloads, disturbed>> => DslCallsInv'
         /\ UNCHANGED <<panel, calls, asked, downloads>> => DslShownInv'
  <1>1. UNCHANGED dslS => DslServerInv'
    BY DEF DslInv, DslServerInv
  <1>2. UNCHANGED <<dslStatus, statusReqs>> => DslStatusInv'
    BY DEF DslInv, DslStatusInv
  <1>3. UNCHANGED <<panel, panelReqs>> => DslPanelInv'
    BY DEF DslInv, DslPanelInv
  <1>4. UNCHANGED <<hist, tab>> => DslHistInv'
    BY DEF DslInv, DslHistInv
  <1>5. UNCHANGED <<busy, calls, fileRead, asked, downloads, disturbed>> => DslCallsInv'
    BY DEF DslInv, DslCallsInv, AppliesWhatItShowed
  <1>6. UNCHANGED <<panel, calls, asked, downloads>> => DslShownInv'
    BY DEF DslInv, DslShownInv
  <1> QED
    BY <1>1, <1>2, <1>3, <1>4, <1>5, <1>6

\* The history is read, or is to be read when its tab is opened.
LEMMA DslHistory ==
  ASSUME DslInv, loadHistory(hist) \/ hist' = [hist EXCEPT !.stale = TRUE] \/ UNCHANGED hist, tab' \in {"preview", "submit", "history"}
  PROVE  DslHistInv'
  <1>1. hist \in DslHists
    BY DEF DslInv, DslHistInv
  <1>2. CASE loadHistory(hist)
    <2>1. hist' \in DslHists /\ hist'.asked
      BY <1>1, <1>2 DEF loadHistory, DslHists, LoadStates
    <2> QED
      BY <2>1 DEF DslHistInv
  <1>3. CASE hist' = [hist EXCEPT !.stale = TRUE]
    <2>1. hist' \in DslHists /\ hist'.asked = hist.asked /\ hist'.state = hist.state
      BY <1>1, <1>3 DEF DslHists
    <2> QED
      BY <2>1 DEF DslInv, DslHistInv
  <1>4. CASE UNCHANGED hist
    BY <1>4 DEF DslInv, DslHistInv
  <1> QED
    BY <1>2, <1>3, <1>4

\* The readings and what is pressed without an operation.
LEMMA DslReads ==
  ASSUME DslScreenAssumption, DslInv,
         \/ OpenDsl \/ retryStatus \/ retryPreview \/ retryHistory \/ showLatest \/ (\E ok \in BOOLEAN : HistoryAnswered(ok))
         \/ \E t \in {"preview", "submit", "history"} : selectTab(t)
  PROVE  DslInv'
  <1>0. /\ dslStatus \in DslStatuses /\ panel \in DslPanels /\ hist \in DslHists /\ 0 \in PreviewIds /\ DslStatusInv
        /\ (panel.invalid => panel.preview = 0)
    BY DslNothing DEF DslInv, DslStatusInv, DslPanelInv, DslHistInv
  <1>1. CASE OpenDsl
    <2>1. UNCHANGED <<dslS, busy, calls, fileRead, asked, downloads, disturbed>> /\ panel.state = "gone"
      BY <1>1 DEF OpenDsl
    <2>2. dslStatus' \in DslStatuses /\ LoadStatus(0)
      BY <1>1, DslNothing DEF OpenDsl, DslStatuses, LoadStates
    <2>3. /\ panel' \in DslPanels /\ panel'.state = "loading" /\ ~panel'.invalid /\ loadPreview
      BY <1>1, DslNothing DEF OpenDsl, NoPanel, DslPanels, LoadStates
    <2>4. DslHistInv'
      BY <1>1, DslNothing DEF OpenDsl, NoHist, DslHistInv
    <2>5. DslStatusInv' /\ DslPanelInv'
      BY <1>0, <2>2, <2>3, DslStatusAsked, DslPanelAsked
    <2>6. DslShownInv'
      BY <2>1 DEF DslInv, DslPanelInv, DslShownInv
    <2> QED
      BY <2>1, <2>4, <2>5, <2>6, DslParts DEF DslInv
  <1>2. CASE retryStatus
    <2>1. dslStatus' \in DslStatuses /\ LoadStatus(0) /\ UNCHANGED <<dslS, panel, hist, panelReqs, screenOnly>>
      BY <1>0, <1>2 DEF retryStatus, DslStatuses, LoadStates
    <2> QED
      BY <1>0, <2>1, DslStatusAsked, DslParts DEF DslInv, screenOnly
  <1>3. CASE retryPreview
    <2>1. panel' \in DslPanels /\ panel'.state = "loading" /\ panel'.invalid = panel.invalid /\ panel'.preview = panel.preview
          /\ panel'.fresh = panel.fresh /\ loadPreview /\ UNCHANGED <<dslS, dslStatus, hist, statusReqs, screenOnly>>
      BY <1>0, <1>3 DEF retryPreview, DslPanels, LoadStates
    <2>2. DslPanelInv'
      BY <1>0, <2>1, DslPanelAsked
    <2>3. DslShownInv'
      BY <2>1 DEF DslInv, DslShownInv, screenOnly
    <2> QED
      BY <2>1, <2>2, <2>3, DslParts DEF DslInv, screenOnly
  <1>4. CASE showLatest
    <2>1. panel' \in DslPanels /\ panel'.state = "loading" /\ panel'.invalid = panel.invalid /\ panel'.preview = panel.preview
          /\ panel'.fresh = panel.fresh /\ loadPreview /\ LoadStatus(0) /\ UNCHANGED <<dslS, dslStatus, hist, screenOnly>>
      BY <1>0, <1>4 DEF showLatest, DslPanels, LoadStates
    <2>2. DslPanelInv' /\ DslStatusInv'
      BY <1>0, <2>1, DslPanelAsked, DslStatusAsked
    <2>3. DslShownInv'
      BY <2>1 DEF DslInv, DslShownInv, screenOnly
    <2> QED
      BY <2>1, <2>2, <2>3, DslParts DEF DslInv, screenOnly
  <1>5. CASE retryHistory \/ (\E t \in {"preview", "submit", "history"} : selectTab(t))
    <2>1. UNCHANGED <<dslS, dslStatus, panel, statusReqs, panelReqs, busy, calls, fileRead, asked, downloads, disturbed>>
      BY <1>5 DEF retryHistory, selectTab, screenOnly
    <2>2. (loadHistory(hist) \/ UNCHANGED hist) /\ tab' \in {"preview", "submit", "history"}
      BY <1>5 DEF retryHistory, selectTab, screenOnly, DslInv, DslHistInv
    <2> QED
      BY <2>1, <2>2, DslHistory, DslParts DEF DslInv
  <1>6. ASSUME NEW ok \in BOOLEAN, HistoryAnswered(ok) PROVE DslInv'
    <2>1. hist' \in DslHists /\ hist'.state # "loading"
      <3>1. CASE ok
        BY <1>0, <1>6, <3>1 DEF HistoryAnswered, DslHists, LoadStates
      <3>2. CASE ~ok
        BY <1>0, <1>6, <3>2 DEF HistoryAnswered, DslHists, LoadStates
      <3> QED
        BY <3>1, <3>2
    <2>2. UNCHANGED <<dslS, dslStatus, panel, statusReqs, panelReqs, screenOnly>>
      BY <1>6 DEF HistoryAnswered
    <2>3. DslHistInv'
      BY <2>1, <2>2 DEF DslInv, DslHistInv, screenOnly
    <2> QED
      BY <2>2, <2>3, DslParts DEF DslInv, screenOnly
  <1> QED
    BY <1>1, <1>2, <1>3, <1>4, <1>5, <1>6

\* The answers of the readings.
LEMMA DslAnswers ==
  ASSUME DslScreenAssumption, DslInv,
         \/ \E q \in statusReqs : StatusRead(q) \/ StatusFails(q)
         \/ \E q \in panelReqs : ServePreview(q) \/ PreviewFails(q) \/ \E invalid \in BOOLEAN : PreviewRead(q, invalid)
  PROVE  DslInv'
  <1>0. /\ dslS.preview \in PreviewIds /\ dslStatus \in DslStatuses /\ panel \in DslPanels /\ statusReqs \subseteq StatusReads
        /\ panelReqs \subseteq PreviewReads /\ DslCallsInv /\ DslPanelInv
    BY DEF DslInv, DslServerInv, DslStates, DslStatusInv, DslPanelInv
  <1>1. ASSUME NEW q \in statusReqs, StatusRead(q) \/ StatusFails(q) PROVE DslInv'
    <2>1. statusReqs' = statusReqs \ {q} /\ UNCHANGED <<dslS, hist, tab, fileRead, asked, downloads, disturbed>>
      BY <1>1 DEF StatusRead, StatusFails
    <2>2. DslStatusInv'
      <3>1. CASE StatusRead(q) /\ q.mine
        <4>1. dslStatus' \in DslStatuses /\ dslStatus'.state = "loaded" /\ dslStatus'.fresh
          BY <1>0, <3>1 DEF StatusRead, DslStatuses, LoadStates
        <4> QED
          BY <1>0, <2>1, <4>1 DEF DslStatusInv
      <3>2. CASE StatusFails(q) /\ q.mine
        <4>1. dslStatus' \in DslStatuses /\ dslStatus'.state = "failed"
          BY <1>0, <3>2 DEF StatusFails, DslStatuses, LoadStates
        <4> QED
          BY <1>0, <2>1, <4>1 DEF DslStatusInv
      <3>3. CASE ~q.mine
        <4>1. UNCHANGED dslStatus
          BY <1>1, <3>3 DEF StatusRead, StatusFails
        <4>2. Wanted(statusReqs') <=> Wanted(statusReqs)
          BY <2>1, <3>3 DEF Wanted
        <4> QED
          BY <2>1, <4>1, <4>2 DEF DslInv, DslStatusInv
      <3> QED
        BY <1>0, <1>1, <3>1, <3>2, <3>3 DEF StatusReads
    <2>3. PICK ok \in BOOLEAN : ApplyRejected(q, ok)
      BY <1>1 DEF StatusRead, StatusFails
    <2> DEFINE waiting == {c \in calls : c.stage = "checking" /\ c.about = q.about}
    <2>4. CASE waiting = {}
      <3>1. UNCHANGED <<panel, panelReqs, calls, busy>>
        BY <2>3, <2>4 DEF ApplyRejected
      <3> QED
        BY <2>1, <2>2, <3>1, DslParts DEF DslInv
    <2>5. CASE waiting # {}
      <3>1. calls' = calls \ waiting /\ busy' = "none"
            /\ \/ UNCHANGED <<panel, panelReqs>>
               \/ panel' = [panel EXCEPT !.replaced = TRUE] /\ UNCHANGED panelReqs
               \/ panel' = ClearedPanel(TRUE) /\ ForgetPreviewReads
        BY <2>3, <2>5 DEF ApplyRejected
      <3>2. calls' \subseteq calls
        BY <3>1
      <3>3. DslCallsInv'
        BY <1>0, <2>1, <3>1, <3>2, DslEnds
      <3>4. DslPanelInv' /\ (panel.fresh => panel'.fresh)
        <4>1. CASE UNCHANGED <<panel, panelReqs>>
          BY <4>1, DslParts
        <4>2. CASE panel' = [panel EXCEPT !.replaced = TRUE] /\ UNCHANGED panelReqs
          <5>1. panel' \in DslPanels /\ panel'.state = panel.state /\ panel'.fresh = panel.fresh /\ panel'.invalid = panel.invalid
                /\ panel'.preview = panel.preview
            BY <1>0, <4>2 DEF DslPanels
          <5> QED
            BY <1>0, <4>2, <5>1 DEF DslPanelInv
        <4>3. CASE panel' = ClearedPanel(TRUE) /\ ForgetPreviewReads
          BY <4>3, DslCleared, DslPanelSet
        <4> QED
          BY <3>1, <4>1, <4>2, <4>3
      <3>5. DslShownInv'
        BY <2>1, <3>2, <3>4 DEF DslInv, DslShownInv
      <3> QED
        BY <2>1, <2>2, <3>3, <3>4, <3>5, DslParts DEF DslInv
    <2> QED
      BY <2>4, <2>5
  <1>2. ASSUME NEW q \in panelReqs, ServePreview(q) PROVE DslInv'
    <2> DEFINE s == [q EXCEPT !.stage = "served", !.fresh = TRUE, !.preview = dslS.preview]
    <2>1. s \in PreviewReads /\ s.fresh
      BY <1>0 DEF PreviewReads
    <2>2. panelReqs' = (panelReqs \ {q}) \cup {s} /\ UNCHANGED <<dslS, dslStatus, panel, hist, statusReqs, screenOnly>>
      BY <1>2 DEF ServePreview
    <2> HIDE DEF s
    <2>3. DslPanelInv'
      BY <1>0, <2>1, <2>2 DEF DslPanelInv
    <2> QED
      BY <2>2, <2>3, DslParts DEF DslInv, screenOnly
  <1>3. ASSUME NEW q \in panelReqs, NEW invalid \in BOOLEAN, PreviewRead(q, invalid) PROVE DslInv'
    <2>1. q \in PreviewReads /\ q.fresh /\ panelReqs' = panelReqs \ {q}
      BY <1>0, <1>3 DEF PreviewRead, DslPanelInv
    <2>2. UNCHANGED <<dslS, dslStatus, hist, statusReqs, tab, busy, calls, fileRead, asked, downloads, disturbed>>
      BY <1>3 DEF PreviewRead
    <2>3. /\ panel' \in DslPanels /\ panel'.state = "loaded" /\ panel'.fresh /\ (panel'.invalid => panel'.preview = 0)
      <3>1. CASE invalid
        <4>1. panel' = [panel EXCEPT !.state = "loaded", !.fresh = q.fresh, !.preview = 0, !.invalid = invalid]
          BY <1>3, <3>1 DEF PreviewRead
        <4> QED
          BY <1>0, <2>1, <4>1, DslNothing DEF DslPanels, LoadStates, PreviewReads
      <3>2. CASE ~invalid
        <4>1. panel' = [panel EXCEPT !.state = "loaded", !.fresh = q.fresh, !.preview = q.preview, !.invalid = invalid]
          BY <1>3, <3>2 DEF PreviewRead
        <4> QED
          BY <1>0, <2>1, <3>2, <4>1 DEF DslPanels, LoadStates, PreviewReads
      <3> QED
        BY <3>1, <3>2
    <2>4. DslPanelInv'
      BY <1>0, <2>1, <2>3 DEF DslPanelInv
    <2>5. DslShownInv'
      BY <2>3 DEF DslShownInv
    <2> QED
      BY <2>2, <2>4, <2>5, DslParts DEF DslInv
  <1>4. ASSUME NEW q \in panelReqs, PreviewFails(q) PROVE DslInv'
    <2>1. /\ panelReqs' = panelReqs \ {q} /\ panel' \in DslPanels /\ panel'.state = "failed" /\ panel'.fresh = panel.fresh
          /\ panel'.invalid = panel.invalid /\ panel'.preview = panel.preview
          /\ UNCHANGED <<dslS, dslStatus, hist, statusReqs, screenOnly>>
      BY <1>0, <1>4 DEF PreviewFails, DslPanels, LoadStates
    <2>2. DslPanelInv'
      BY <1>0, <2>1 DEF DslPanelInv
    <2>3. DslShownInv'
      BY <2>1 DEF DslInv, DslShownInv, screenOnly
    <2> QED
      BY <2>1, <2>2, <2>3, DslParts DEF DslInv, screenOnly
  <1> QED
    BY <1>1, <1>2, <1>3, <1>4

\* The operations up to the call.
LEMMA DslPresses ==
  ASSUME DslScreenAssumption, DslInv,
         generate \/ restore \/ handleSubmit \/ submit \/ apply \/ discardPreview \/ confirmDialog \/ cancelDialog \/ downloadMissing
  PROVE  DslInv'
  <1>0. DslCallsInv /\ DslPanelInv /\ DslShownInv /\ asked \in DslQuestions /\ downloads \in {"none", "missing", "late"} /\ fileRead \in BOOLEAN
    BY DEF DslInv, DslCallsInv
  <1>1. UNCHANGED <<dslS, dslStatus, statusReqs, panel, panelReqs, hist, tab>>
    BY DEF generate, restore, handleSubmit, submit, apply, discardPreview, confirmDialog, cancelDialog, downloadMissing, loaded
  <1>2. SUFFICES DslCallsInv' /\ DslShownInv'
    BY <1>1, <1>2, DslParts DEF DslInv
  <1>3. ASSUME NEW op \in Placing, withReplaceConfirm(op), fileRead' \in BOOLEAN, UNCHANGED downloads PROVE DslCallsInv' /\ DslShownInv'
    <2>1. /\ DslCallsInv'
          /\ asked'.op # "apply" \/ asked' = asked
          /\ ((\E c \in calls' : c.op = "apply") => \E c \in calls : c.op = "apply")
      BY <1>0, <1>3, DslAsks
    <2> QED
      BY <1>0, <1>1, <1>3, <2>1 DEF DslShownInv
  <1>4. CASE generate
    BY <1>0, <1>3, <1>4 DEF generate, Placing
  <1>5. CASE restore
    BY <1>0, <1>3, <1>5 DEF restore, Placing
  <1>6. CASE handleSubmit
    BY <1>0, <1>1, <1>6 DEF handleSubmit, DslCallsInv, DslShownInv, AppliesWhatItShowed
  <1>7. CASE submit
    <2>1. CASE withReplaceConfirm("submit")
      BY <1>3, <1>7, <2>1 DEF submit, Placing
    <2>2. CASE UNCHANGED <<calls, busy, disturbed, asked>>
      BY <1>0, <1>1, <1>7, <2>2 DEF submit, DslCallsInv, DslShownInv, AppliesWhatItShowed
    <2> QED
      BY <1>7, <2>1, <2>2 DEF submit
  <1>8. CASE apply
    <2>1. panel.preview # 0 /\ panel.preview \in PreviewIds /\ panel.fresh
      BY <1>0, <1>8 DEF apply, ContentShown, PanelShows, DslPanelInv, DslPanels
    <2>2. asked' \in DslQuestions /\ asked'.about # 0 /\ asked'.seen
      BY <1>8, <2>1 DEF apply, About, DslQuestions, DslOps
    <2> QED
      BY <1>0, <1>1, <1>8, <2>1, <2>2 DEF apply, DslCallsInv, DslShownInv, AppliesWhatItShowed
  <1>9. CASE discardPreview
    <2>1. asked' \in DslQuestions /\ asked'.op = "discard"
      BY <1>9, DslNothing DEF discardPreview, About, DslQuestions, DslOps
    <2> QED
      BY <1>0, <1>1, <1>9, <2>1 DEF discardPreview, DslCallsInv, DslShownInv, AppliesWhatItShowed
  <1>10. CASE confirmDialog
    <2>1. /\ DslCallsInv'
          /\ ((\E c \in calls' : c.op = "apply") => asked.op = "apply" \/ \E c \in calls : c.op = "apply")
      <3>1. /\ asked.op # "none" /\ (asked.op = "apply" => asked.about # 0 /\ asked.seen) /\ RunOperation(asked) /\ asked' = NotAsked
            /\ UNCHANGED <<fileRead, downloads>>
        BY <1>0, <1>10 DEF confirmDialog, DialogShown, DslCallsInv
      <3> QED
        BY <1>0, <3>1, DslRuns, DslNothing
    <2>2. asked'.op = "none" /\ UNCHANGED downloads
      BY <1>10 DEF confirmDialog, NotAsked
    <2> QED
      BY <1>0, <1>1, <2>1, <2>2 DEF DslShownInv
  <1>11. CASE cancelDialog
    <2>1. asked' = NotAsked /\ NotAsked.op = "none" /\ NotAsked \in DslQuestions
      BY <1>11, DslNothing DEF cancelDialog, NotAsked
    <2> QED
      BY <1>0, <1>1, <1>11, <2>1 DEF cancelDialog, DslCallsInv, DslShownInv, AppliesWhatItShowed
  <1>12. CASE downloadMissing
    <2>1. panel.fresh
      BY <1>0, <1>12 DEF downloadMissing, ContentShown, InvalidShown, PanelShows, DslPanelInv
    <2> QED
      BY <1>0, <1>1, <1>12, <2>1 DEF downloadMissing, DslCallsInv, DslShownInv, AppliesWhatItShowed
  <1> QED
    BY <1>4, <1>5, <1>6, <1>7, <1>8, <1>9, <1>10, <1>11, <1>12

\* What an operation leaves of those on their way.
LEMMA DslFinished ==
  ASSUME DslInv, NEW c, Finish(c), UNCHANGED <<fileRead, asked, disturbed>>, downloads' \in {downloads, "late"},
         downloads = "none" => downloads' = "none", panel.fresh => panel'.fresh
  PROVE  DslCallsInv' /\ DslShownInv'
  <1>1. calls' \subseteq calls /\ busy' = "none" /\ DslCallsInv
    BY DEF Finish, DslInv
  <1>2. DslCallsInv'
    BY <1>1, DslEnds
  <1>3. DslShownInv'
    BY <1>1 DEF DslInv, DslShownInv
  <1> QED
    BY <1>2, <1>3

\* The answers of the operations.
LEMMA DslDone ==
  ASSUME DslScreenAssumption, DslInv, NEW c \in calls,
         \/ PreviewPlaced(c) \/ Applied(c) \/ Discarded(c) \/ ApplyChanged(c) \/ OpInvalid(c) \/ OpMissesPreview(c)
         \/ OpMissesRevision(c) \/ DslOpFails(c)
  PROVE  DslInv'
  <1>0. /\ DslServerInv /\ DslStatusInv /\ dslStatus \in DslStatuses /\ panel \in DslPanels /\ DslCallsInv /\ DslPanelInv /\ DslShownInv
        /\ 0 \in PreviewIds /\ calls \subseteq DslCalls /\ tab \in {"preview", "submit", "history"}
    BY DslNothing DEF DslInv, DslStatusInv, DslPanelInv, DslCallsInv, DslHistInv
  <1>1. HeardDone(c) => Finish(c) /\ downloads' \in {downloads, "late"} /\ (downloads = "none" => downloads' = "none")
    BY DEF HeardDone
  <1>2. [dslStatus EXCEPT !.fresh = FALSE] \in DslStatuses
    BY <1>0 DEF DslStatuses
  <1>3. CASE PreviewPlaced(c)
    <2>1. DslServerInv' /\ dslS'.preview \in PreviewIds
      BY <1>0, <1>3, DslPlaces DEF PreviewPlaced
    <2>2. /\ panel' \in DslPanels /\ panel'.state = "loaded" /\ panel'.fresh /\ ~panel'.invalid
      BY <1>3, <2>1, DslCleared DEF PreviewPlaced, DslPanels
    <2>3. DslPanelInv' /\ DslStatusInv'
      BY <1>0, <1>2, <1>3, <2>2, DslPanelSet, DslStatusAsked DEF PreviewPlaced
    <2>4. DslCallsInv' /\ DslShownInv'
      BY <1>1, <1>3, <2>2, DslFinished DEF PreviewPlaced
    <2>5. DslHistInv'
      BY <1>3, DslHistory DEF PreviewPlaced
    <2> QED
      BY <2>1, <2>3, <2>4, <2>5 DEF DslInv
  <1>4. CASE Applied(c)
    <2>1. DslServerInv'
      BY <1>0, <1>4, DslTakes DEF Applied
    <2>2. DslPanelInv' /\ panel'.fresh
      BY <1>4, DslCleared, DslPanelSet DEF Applied
    <2>3. DslStatusInv'
      <3>1. dslStatus' \in DslStatuses /\ dslStatus'.state = "loaded" /\ dslStatus'.fresh /\ statusReqs' = {}
        BY <1>0, <1>4 DEF Applied, DslStatuses, LoadStates
      <3> QED
        BY <3>1 DEF DslStatusInv
    <2>4. DslCallsInv' /\ DslShownInv'
      BY <1>1, <1>4, <2>2, DslFinished DEF Applied
    <2>5. DslHistInv'
      BY <1>0, <1>4, DslHistory DEF Applied
    <2> QED
      BY <2>1, <2>2, <2>3, <2>4, <2>5 DEF DslInv
  <1>5. CASE Discarded(c)
    <2>1. DslServerInv'
      BY <1>0, <1>5, DslTakes DEF Discarded
    <2>2. DslPanelInv' /\ panel'.fresh
      BY <1>5, DslCleared, DslPanelSet DEF Discarded
    <2>3. DslStatusInv'
      BY <1>0, <1>2, <1>5, DslStatusAsked DEF Discarded
    <2>4. DslCallsInv' /\ DslShownInv'
      BY <1>1, <1>5, <2>2, DslFinished DEF Discarded
    <2>5. DslHistInv'
      BY <1>0, <1>5, DslHistory DEF Discarded
    <2> QED
      BY <2>1, <2>2, <2>3, <2>4, <2>5 DEF DslInv
  <1>6. CASE ApplyChanged(c)
    <2> DEFINE checked == [c EXCEPT !.stage = "checking"]
    <2>1. checked \in DslCalls /\ checked.op = c.op /\ checked.about = c.about /\ checked.seen = c.seen /\ c.about \in PreviewIds
      BY <1>0 DEF DslCalls
    <2>2. /\ calls' = (calls \ {c}) \cup {checked} /\ LoadStatus(c.about)
          /\ UNCHANGED <<dslS, dslStatus, panel, hist, panelReqs, tab, busy, fileRead, asked, downloads, disturbed>>
      BY <1>6 DEF ApplyChanged
    <2> HIDE DEF checked
    <2>3. \A d \in calls' : \E e \in calls : d.op = e.op /\ d.about = e.about /\ d.seen = e.seen
      BY <2>1, <2>2
    <2>4. \A e \in calls : \E d \in calls' : d.op = e.op
      BY <2>1, <2>2
    <2>5. AppliesWhatItShowed'
      BY <1>0, <2>3 DEF DslCallsInv, AppliesWhatItShowed
    <2>6. DslCallsInv'
      BY <1>0, <2>1, <2>2, <2>4, <2>5 DEF DslCallsInv
    <2>7. DslShownInv'
      BY <1>0, <2>2, <2>3 DEF DslShownInv
    <2>8. DslStatusInv'
      BY <1>0, <2>1, <2>2, DslStatusAsked
    <2> QED
      BY <2>2, <2>6, <2>7, <2>8, DslParts DEF DslInv
  <1>7. CASE OpInvalid(c)
    <2>1. Finish(c) /\ UNCHANGED <<dslS, dslStatus, hist, statusReqs, fileRead, asked, downloads, disturbed>>
      BY <1>7 DEF OpInvalid
    <2>2. DslPanelInv' /\ (panel.fresh => panel'.fresh)
      <3>1. CASE UNCHANGED <<panel, panelReqs>>
        BY <3>1, DslParts
      <3>2. CASE c.op = "apply" /\ panel' = [panel EXCEPT !.state = "loaded", !.preview = 0, !.invalid = TRUE] /\ ForgetPreviewReads
        <4>1. /\ panel' \in DslPanels /\ panel'.state = "loaded" /\ panel'.fresh = panel.fresh /\ panel'.preview = 0
          BY <1>0, <3>2 DEF DslPanels, LoadStates
        <4>2. panel.fresh
          BY <1>0, <3>2 DEF DslShownInv
        <4> QED
          BY <3>2, <4>1, <4>2, DslPanelSet
      <3> QED
        BY <1>7, <3>1, <3>2 DEF OpInvalid
    <2>3. DslCallsInv' /\ DslShownInv'
      BY <2>1, <2>2, DslFinished
    <2>4. DslHistInv'
      BY <1>0, <1>7, <2>1, DslHistory DEF OpInvalid
    <2> QED
      BY <2>1, <2>2, <2>3, <2>4, DslParts DEF DslInv
  <1>8. CASE OpMissesPreview(c)
    <2>1. Finish(c) /\ LoadStatus(0) /\ UNCHANGED <<dslS, dslStatus, hist, tab, fileRead, asked, downloads, disturbed>>
      BY <1>8 DEF OpMissesPreview
    <2>2. DslPanelInv' /\ panel'.fresh
      BY <1>8, DslCleared, DslPanelSet DEF OpMissesPreview
    <2>3. DslCallsInv' /\ DslShownInv' /\ DslStatusInv'
      BY <1>0, <2>1, <2>2, DslFinished, DslStatusAsked
    <2> QED
      BY <2>1, <2>2, <2>3, DslParts DEF DslInv
  <1>9. CASE OpMissesRevision(c)
    <2>1. Finish(c) /\ LoadStatus(0) /\ loadHistory(hist) /\ UNCHANGED <<dslS, dslStatus, panel, panelReqs, tab, fileRead, asked, downloads, disturbed>>
      BY <1>9 DEF OpMissesRevision
    <2>2. DslCallsInv' /\ DslShownInv' /\ DslStatusInv' /\ DslHistInv'
      BY <1>0, <2>1, DslFinished, DslStatusAsked, DslHistory
    <2> QED
      BY <2>1, <2>2, DslParts DEF DslInv
  <1>10. CASE DslOpFails(c)
    <2>1. Finish(c) /\ UNCHANGED <<dslStatus, panel, hist, statusReqs, panelReqs, tab, fileRead, asked, downloads, disturbed>>
      BY <1>10 DEF DslOpFails
    <2>2. DslServerInv'
      BY <1>0, <1>10, DslPlaces, DslTakes, DslParts DEF DslOpFails
    <2>3. DslCallsInv' /\ DslShownInv'
      BY <2>1, DslFinished
    <2> QED
      BY <2>1, <2>2, <2>3, DslParts DEF DslInv
  <1> QED
    BY <1>3, <1>4, <1>5, <1>6, <1>7, <1>8, <1>9, <1>10

\* Every step of the DSL keeps the invariant.
LEMMA DslStep ==
  ASSUME DslScreenAssumption, DslInv, DslNext
  PROVE  DslInv'
  <1>1. CASE DslGone
    <2>1. DslServerInv'
      BY <1>1, DslParts DEF DslGone
    <2>2. DslStatusInv' /\ DslPanelInv' /\ DslHistInv'
      BY <1>1, DslNothing DEF DslGone, DslStatusInv, DslPanelInv, DslHistInv, NoStatus, NoPanel, NoHist
    <2>3. DslCallsInv' /\ DslShownInv'
      BY <1>1, DslNothing DEF DslGone, DslCallsInv, DslShownInv, NotAsked, AppliesWhatItShowed
    <2> QED
      BY <2>1, <2>2, <2>3 DEF DslInv
  <1>2. CASE DslChange
    <2>1. DslServerInv'
      BY <1>2, DslPlaces, DslTakes DEF DslChange, DslInv
    <2> QED
      BY <1>2, <2>1, DslParts DEF DslChange, DslInv, screenOnly
  <1>3. CASE DownloadFailed
    <2>1. panel.fresh /\ DslStatusInv /\ 0 \in PreviewIds /\ dslStatus \in DslStatuses
      BY <1>3, DslNothing DEF DownloadFailed, DslInv, DslShownInv, DslStatusInv
    <2>2. DslPanelInv' /\ panel'.fresh
      BY <1>3, <2>1, DslCleared, DslPanelSet DEF DownloadFailed
    <2>3. DslStatusInv'
      BY <1>3, <2>1, DslStatusAsked DEF DownloadFailed
    <2>4. DslCallsInv' /\ DslShownInv'
      BY <1>3, <2>2 DEF DownloadFailed, DslInv, DslCallsInv, DslShownInv, AppliesWhatItShowed
    <2> QED
      BY <1>3, <2>2, <2>3, <2>4, DslParts DEF DownloadFailed, DslInv
  <1> QED
    BY <1>1, <1>2, <1>3, DslReads, DslAnswers, DslPresses, DslDone DEF DslNext, DslUndisturbed

\* Nothing changes with what is not the page's.
LEMMA DslRests ==
  ASSUME DslInv, UNCHANGED dslVars
  PROVE  DslInv'
  BY DslParts DEF dslVars, DslInv

\* What the runs check of the page.
LEMMA DslShows ==
  ASSUME DslInv
  PROVE  DslTypeOK /\ ShownFollows /\ AppliesWhatItShowed
  <1>1. panelReqs # {} => Wanted(panelReqs)
    BY DEF DslInv, DslPanelInv, PreviewReads, Wanted
  <1>2. DslTypeOK
    BY <1>1 DEF DslInv, DslServerInv, DslStatusInv, DslPanelInv, DslHistInv, DslCallsInv, DslTypeOK, DslStates, DslStatuses, DslPanels, DslHists,
       StatusReads, PreviewReads, DslCalls, DslQuestions
  <1>3. ShownFollows /\ AppliesWhatItShowed
    BY DEF DslInv, DslStatusInv, DslPanelInv, DslCallsInv, ShownFollows
  <1> QED
    BY <1>2, <1>3
===============================================================================
