----------------------------- MODULE Preferences -----------------------------
(***************************************************************************)
(* The settings of the user on the screen: the store of display settings   *)
(* and its provider, the display time zone, and the preferences form that   *)
(* feeds both.  A login state is a new object at every login and exchange  *)
(* of the session, and what was saved or previewed is bound to the object. *)
(*                                                                         *)
(* Settings are the version the server gave them; theme, size, language,   *)
(* name and time zone of one version are not told apart.                   *)
(***************************************************************************)
EXTENDS Requests

CONSTANT MaxEpoch   \* bound on the login states one after another

PreferencesAssumption == MaxEpoch \in Nat

VARIABLES
  prefs,      \* the server's version
  account,    \* the login state: its identity and the settings it carries
  exchange,   \* the exchange or login in flight, and the number of login states there have been
  savedUser,  \* savedUser of the store: bound to an epoch, 0 for none
  preview,    \* the epoch the preview is bound to, 0 for none
  stored,     \* the settings in the browser's storage
  zone, zoneReqs,
  page,       \* the preferences page
  loads,      \* its GETs
  saves,      \* the PUTs; mine: the page that sent it is still there; about: else the login state of its last render
  acked,      \* history: the last save this tab knows of
  outlived,   \* history: a save outlived its page
  overtaken   \* history: an exchange brought settings older than acked

prefVars == <<prefs, account, exchange, savedUser, preview, stored, zone, zoneReqs, page, loads, saves,
              acked, outlived, overtaken>>

Epochs == 0..MaxEpoch
LoggedOut == [epoch |-> 0, version |-> 0]
NoPage == [phase |-> "absent", version |-> 0, dirty |-> FALSE]
ZoneLoading == [status |-> "loading", version |-> 0]
NoExchange == [stage |-> "none", version |-> 0, number |-> 0]
NoPreferences == [epoch |-> 0, version |-> 0]

loggedIn == account.epoch # 0

\* Types, with the ties of page, calls and bindings: only a save that outlived
\* its page is bound to a login state that is over.
PreferencesTypeOK ==
  /\ prefs \in Versions /\ acked \in 0..prefs /\ outlived \in BOOLEAN /\ overtaken \in BOOLEAN
  /\ account \in [epoch : Epochs, version : Versions]
  /\ exchange \in [stage : {"none", "sent", "served"}, version : Versions, number : Epochs]
  /\ savedUser \in [epoch : Epochs, version : Versions]
  /\ account.epoch \in {0, exchange.number} /\ savedUser.epoch <= exchange.number
  /\ ~outlived => savedUser.epoch \in {0, account.epoch}
  /\ preview \in {0, account.epoch} /\ stored \in Versions
  /\ zone \in [status : {"loading", "ready", "error"}, version : Versions]
  /\ zoneReqs \subseteq RequestsAbout({"zone"})
  /\ (loggedIn /\ zone.status = "loading") => Wanted(zoneReqs)
  /\ page \in [phase : {"absent", "loading", "loadFailed", "ready", "saving"}, version : Versions, dirty : BOOLEAN]
  /\ loads \subseteq RequestsAbout({"page"}) /\ saves \subseteq RequestsAbout(Epochs)
  /\ \A q \in saves : q.mine = (q.about = 0) /\ q.about <= exchange.number
  /\ (page.phase = "loading") = Wanted(loads) /\ (page.phase = "saving") = Wanted(saves)
  /\ ~loggedIn => page = NoPage /\ zone = ZoneLoading

PreferencesInit ==
  /\ prefs = 0 /\ account = LoggedOut /\ exchange = NoExchange
  /\ savedUser = NoPreferences /\ preview = 0 /\ stored = 0
  /\ zone = ZoneLoading /\ zoneReqs = {}
  /\ page = NoPage /\ loads = {} /\ saves = {}
  /\ acked = 0 /\ outlived = FALSE /\ overtaken = FALSE

-----------------------------------------------------------------------------
(* The login state and what is on the screen *)

\* chooseBase: the saved settings while bound to this login state, then those
\* of the login state, then those of the browser.
chooseBase ==
  IF ~loggedIn THEN stored
  ELSE IF savedUser.epoch = account.epoch THEN savedUser.version ELSE account.version

\* A change of the theme or of the size is shown before it is saved.
setPreview(shows) == preview' = IF shows THEN account.epoch ELSE preview
clearPreview == preview' = 0

\* The page goes with its route: loads and saves lose their page.  A save keeps the settings of the page's last
\* render (displayRef), which are those of the login state of then.
Parted(q) == IF q.mine THEN [q EXCEPT !.mine = FALSE, !.about = account.epoch] ELSE q
Unmount ==
  /\ page' = NoPage /\ loads' = Dropped(loads) /\ saves' = {Parted(q) : q \in saves}
  /\ outlived' = (outlived \/ Wanted(saves))

\* What is bound to another login state goes.
discardStaleBindings(epoch) ==
  /\ savedUser' = IF savedUser.epoch = epoch THEN savedUser ELSE NoPreferences
  /\ preview' = IF preview = epoch THEN preview ELSE 0

\* The browser keeps what a login brought, for the pages before the next one.
rememberUserSettings(next) == stored' = IF next.epoch = 0 THEN stored ELSE next.version

\* The layout effects of the provider, before the new login state is painted.
NewLoginState(next) == account' = next /\ discardStaleBindings(next.epoch) /\ rememberUserSettings(next)

\* The zone is read once the user is logged in, and thrown away after.
loadZone ==
  /\ zoneReqs' = Asked(zoneReqs, "zone")
  /\ zone' = IF zone.status = "ready" THEN zone ELSE ZoneLoading
dropZone == zone' = ZoneLoading /\ zoneReqs' = Dropped(zoneReqs)

ExchangeSent ==
  /\ exchange.stage = "none" /\ exchange.number < MaxEpoch
  /\ exchange' = [exchange EXCEPT !.stage = "sent"]
  /\ UNCHANGED <<prefs, account, savedUser, preview, stored, zone, zoneReqs, page, loads, saves, acked, outlived, overtaken>>

ExchangeServed ==
  /\ exchange.stage = "sent"
  /\ exchange' = [exchange EXCEPT !.stage = "served", !.version = prefs]
  /\ UNCHANGED <<prefs, account, savedUser, preview, stored, zone, zoneReqs, page, loads, saves, acked, outlived, overtaken>>

\* The gate hears of a new pair of tokens, or of their end.
Renewed ==
  /\ exchange.stage = "served" /\ exchange' = [NoExchange EXCEPT !.number = exchange.number + 1]
  /\ NewLoginState([epoch |-> exchange.number + 1, version |-> exchange.version])
  /\ IF loggedIn THEN UNCHANGED <<zone, zoneReqs>> ELSE MayAsk(zoneReqs) /\ loadZone
  /\ overtaken' = (overtaken \/ exchange.version < acked)
  /\ UNCHANGED <<prefs, page, loads, saves, acked, outlived>>

SessionEnded ==
  /\ loggedIn /\ exchange' = [NoExchange EXCEPT !.number = exchange.number]
  /\ NewLoginState(LoggedOut) /\ dropZone /\ Unmount
  /\ UNCHANGED <<prefs, acked, overtaken>>

-----------------------------------------------------------------------------
(* The display time zone *)

\* applySaved: taken without a read; a read in flight is not wanted any more.
applySaved(version) ==
  IF loggedIn
    THEN zone' = [status |-> "ready", version |-> version] /\ zoneReqs' = Dropped(zoneReqs)
    ELSE UNCHANGED <<zone, zoneReqs>>

reloadZone ==
  /\ loggedIn /\ zone.status = "error" /\ MayAsk(zoneReqs)
  /\ loadZone
  /\ UNCHANGED <<prefs, account, exchange, savedUser, preview, stored, page, loads, saves, acked, outlived, overtaken>>

ZoneAnswered(q, ok) ==
  /\ q \in zoneReqs /\ Arrives(q, ok)
  /\ zoneReqs' = zoneReqs \ {q}
  /\ zone' = IF ~q.mine THEN zone
             ELSE IF ok THEN [status |-> "ready", version |-> q.version]
             ELSE IF zone.status = "ready" THEN zone ELSE [status |-> "error", version |-> 0]
  /\ UNCHANGED <<prefs, account, exchange, savedUser, preview, stored, page, loads, saves, acked, outlived, overtaken>>

-----------------------------------------------------------------------------
(* The form *)

OpenPage ==
  /\ loggedIn /\ page.phase = "absent" /\ MayAsk(loads)
  /\ page' = [NoPage EXCEPT !.phase = "loading"] /\ loads' = Asked(loads, "page")
  /\ UNCHANGED <<prefs, account, exchange, savedUser, preview, stored, zone, zoneReqs, saves, acked, outlived, overtaken>>

LeavePage ==
  /\ page.phase # "absent"
  /\ Unmount /\ clearPreview
  /\ UNCHANGED <<prefs, account, exchange, savedUser, stored, zone, zoneReqs, acked, overtaken>>

reloadPage ==
  /\ page.phase = "loadFailed" /\ MayAsk(loads)
  /\ page' = [page EXCEPT !.phase = "loading"] /\ loads' = Asked(loads, "page")
  /\ UNCHANGED <<prefs, account, exchange, savedUser, preview, stored, zone, zoneReqs, saves, acked, outlived, overtaken>>

\* applyUserPreferencesFor: bound to the login state these settings were rendered with, whatever it is by now.
applyUserPreferences(epoch, version) ==
  IF epoch # 0
    THEN savedUser' = [epoch |-> epoch, version |-> version] /\ preview' = 0 /\ stored' = version
    ELSE UNCHANGED <<savedUser, preview, stored>>

\* What was read goes to the screen when it differs, and to the time zone.
LoadAnswered(q, ok) ==
  /\ q \in loads /\ Arrives(q, ok) /\ loads' = loads \ {q}
  /\ IF ~q.mine THEN UNCHANGED <<page, savedUser, preview, stored, zone, zoneReqs>>
     ELSE IF ~ok THEN page' = [page EXCEPT !.phase = "loadFailed"] /\ UNCHANGED <<savedUser, preview, stored, zone, zoneReqs>>
     ELSE /\ page' = [phase |-> "ready", version |-> q.version, dirty |-> FALSE]
          /\ IF chooseBase # q.version THEN applyUserPreferences(account.epoch, q.version) ELSE UNCHANGED <<savedUser, preview, stored>>
          /\ applySaved(q.version)
  /\ UNCHANGED <<prefs, account, exchange, saves, acked, outlived, overtaken>>

\* updateForm: nothing changes while the values are being saved.
editable == page.phase = "ready"
Edit(differs, shows) ==
  /\ editable
  /\ page' = [page EXCEPT !.dirty = differs]
  /\ setPreview(shows)
  /\ UNCHANGED <<prefs, account, exchange, savedUser, stored, zone, zoneReqs, loads, saves, acked, outlived, overtaken>>

\* PreferencesForm offers the reset of a form that differs, and no save twice.
ResetOffered == editable /\ page.dirty
reset ==
  /\ ResetOffered
  /\ page' = [page EXCEPT !.dirty = FALSE] /\ clearPreview
  /\ UNCHANGED <<prefs, account, exchange, savedUser, stored, zone, zoneReqs, loads, saves, acked, outlived, overtaken>>

save ==
  /\ editable /\ MayAsk(saves)
  /\ page' = [page EXCEPT !.phase = "saving"]
  /\ saves' = saves \cup {Request(0)}
  /\ UNCHANGED <<prefs, account, exchange, savedUser, preview, stored, zone, zoneReqs, loads, acked, outlived, overtaken>>

\* The save succeeded: the screen follows even without the page.  With the page the values go to the login state of
\* now; without it to that of the page's last render, which may be over, and into the browser's storage all the same.
\* The time zone goes to whoever is logged in.
RenderedWith(q) == IF q.mine THEN account.epoch ELSE q.about
Saved(q) ==
  /\ q \in saves /\ q.stage = "served" /\ saves' = saves \ {q}
  /\ acked' = IF q.version > acked THEN q.version ELSE acked
  /\ applyUserPreferences(RenderedWith(q), q.version) /\ applySaved(q.version)
  /\ page' = IF q.mine THEN [phase |-> "ready", version |-> q.version, dirty |-> FALSE] ELSE page
  /\ UNCHANGED <<prefs, account, exchange, loads, outlived, overtaken>>

\* Refused, or the answer was lost: the form keeps its values.
SaveFailed(q) ==
  /\ q \in saves /\ saves' = saves \ {q}
  /\ page' = IF q.mine THEN [page EXCEPT !.phase = "ready"] ELSE page
  /\ UNCHANGED <<prefs, account, exchange, savedUser, preview, stored, zone, zoneReqs, loads, acked, outlived, overtaken>>

-----------------------------------------------------------------------------
(* The server *)

ServeRead(q) ==
  /\ q.stage = "sent"
  /\ \/ q \in zoneReqs /\ zoneReqs' = ServedAt(zoneReqs, q, prefs) /\ UNCHANGED loads
     \/ q \in loads /\ loads' = ServedAt(loads, q, prefs) /\ UNCHANGED zoneReqs
  /\ UNCHANGED <<prefs, account, exchange, savedUser, preview, stored, zone, page, saves, acked, outlived, overtaken>>

ServeSave(q) ==
  /\ q \in saves /\ q.stage = "sent" /\ prefs < MaxVersion
  /\ prefs' = prefs + 1 /\ saves' = ServedAt(saves, q, prefs + 1)
  /\ UNCHANGED <<account, exchange, savedUser, preview, stored, zone, zoneReqs, page, loads, acked, outlived, overtaken>>

OtherTabSaves ==
  /\ prefs < MaxVersion /\ prefs' = prefs + 1
  /\ UNCHANGED <<account, exchange, savedUser, preview, stored, zone, zoneReqs, page, loads, saves, acked, outlived, overtaken>>

PreferencesNext ==
  \/ ExchangeSent \/ ExchangeServed \/ Renewed \/ SessionEnded \/ reloadZone
  \/ OpenPage \/ LeavePage \/ reloadPage \/ reset \/ save \/ OtherTabSaves
  \/ \E a, b \in BOOLEAN : Edit(a, b)
  \/ \E q \in zoneReqs \cup loads : ServeRead(q)
  \/ \E q \in zoneReqs, ok \in BOOLEAN : ZoneAnswered(q, ok)
  \/ \E q \in loads, ok \in BOOLEAN : LoadAnswered(q, ok)
  \/ \E q \in saves : ServeSave(q) \/ Saved(q) \/ SaveFailed(q)

-----------------------------------------------------------------------------
\* What the user saved in this tab is what the screen and the dates use, in
\* whatever order the reads of the zone, of the page and of the session are
\* answered.  It needs that no save outlived its page (its answer may come after
\* that of a later read, and goes to the login state of that page's last render)
\* and that no exchange overtook it.
ScreenShowsOwnSave ==
  loggedIn /\ ~outlived =>
    /\ ~overtaken => chooseBase >= acked
    /\ zone.status = "ready" => zone.version >= acked

\* A preview of unsaved settings never stays on the screen without the form.
PreviewEndsWithPage == page.phase = "absent" => preview = 0

\* The form changes under the user's hands only by a save, a reset or by leaving:
\* no late answer replaces what was typed.
EditsSurviveStep ==
  page.phase = "ready" /\ page.dirty /\ page'.phase = "ready" /\ ~page'.dirty => page'.version = page.version
EditsSurvive == [][EditsSurviveStep]_prefVars
=============================================================================
