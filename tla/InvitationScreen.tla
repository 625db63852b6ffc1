--------------------------- MODULE InvitationScreen ---------------------------
(***************************************************************************)
(* The administration of invitations (useInvitationAdmin): a list by page, *)
(* an invitation made in a dialog, sending again (several rows at once,    *)
(* without a dialog) and cancelling in a dialog.  Each operation has       *)
(* captured the page shown when it was sent, and reads that page again.    *)
(***************************************************************************)
EXTENDS Requests

VARIABLES
  invs,       \* on the server: version of the invitations, whether inviting is configured
  invList,    \* what the page shows
  invReqs,    \* readings in flight
  invite,     \* the dialog of a new invitation
  resends,    \* per row: sending again
  cancelling, \* the dialog that cancels
  invAfter,   \* the page a reading waits to read until the dialog has closed
  ackedInv    \* ghost: the version after the last operation this page heard done

invVars == <<invs, invList, invReqs, invite, resends, cancelling, invAfter, ackedInv>>

InvRows == {"a", "b"}
InvPages == {1, 2}

NoInvList == [state |-> "gone", have |-> FALSE, version |-> 0, enabled |-> FALSE, page |-> 1]
\* An operation is served and answered in one step: what it read before is of no weight, and a lost answer leaves
\* open whether it was done.  page: the page shown when it was sent.
NoInvCall == [sent |-> FALSE, page |-> 1]
NoInvite == [open |-> FALSE, reload |-> FALSE, pending |-> FALSE, call |-> NoInvCall]
NotCancelling == [row |-> "none", call |-> NoInvCall]
InvCalls == [sent : BOOLEAN, page : InvPages]

InvTypeOK ==
  /\ invs \in [version : Versions, enabled : BOOLEAN] /\ ackedInv \in Versions
  /\ invList \in [state : {"gone", "loading", "loaded", "failed"}, have : BOOLEAN, version : Versions, enabled : BOOLEAN, page : InvPages]
  /\ invReqs \subseteq RequestsAbout([page : InvPages, enabled : BOOLEAN])
  /\ invite \in [open : BOOLEAN, reload : BOOLEAN, pending : BOOLEAN, call : InvCalls]
  /\ resends \in [InvRows -> InvCalls] /\ cancelling \in [row : InvRows \cup {"none"}, call : InvCalls]
  /\ invAfter \in InvPages \cup {0}
  /\ (invList.state = "loading") = Wanted(invReqs) /\ \A q \in invReqs : q.mine => q.about.page = invList.page
  /\ (invite.call.sent => invite.open) /\ (cancelling.call.sent => cancelling.row # "none")
  /\ (invite.open => cancelling.row = "none" /\ invList.have) /\ (invAfter # 0 => invList.state # "gone")

InvInit ==
  /\ invs \in [version : {0}, enabled : BOOLEAN] /\ invList = NoInvList /\ invReqs = {} /\ invite = NoInvite
  /\ resends = [r \in InvRows |-> NoInvCall] /\ cancelling = NotCancelling /\ invAfter = 0 /\ ackedInv = 0

-----------------------------------------------------------------------------
\* load: the page is shown as the current one at once.
loadInv(page) ==
  /\ MayAsk(invReqs) /\ invReqs' = Asked(invReqs, [page |-> page, enabled |-> FALSE])
  /\ invList' = [invList EXCEPT !.state = "loading", !.page = page]

OpenInv == invList.state = "gone" /\ loadInv(1) /\ UNCHANGED <<invs, invite, resends, cancelling, invAfter, ackedInv>>

\* The page is left, or its right or the session is gone.
InvGone ==
  /\ invList.state # "gone" /\ invList' = NoInvList /\ invReqs' = {} /\ invite' = NoInvite
  /\ resends' = [r \in InvRows |-> NoInvCall] /\ cancelling' = NotCancelling /\ invAfter' = 0 /\ ackedInv' = 0
  /\ UNCHANGED invs

\* Others invite or cancel, an invitation is taken up, the server starts again with other settings.
InvChange ==
  /\ \/ invs.version < MaxVersion /\ invs' = [invs EXCEPT !.version = @ + 1]
     \/ invs.enabled /\ invs' = [invs EXCEPT !.enabled = FALSE]
  /\ UNCHANGED <<invList, invReqs, invite, resends, cancelling, invAfter, ackedInv>>

ServeInv(q) ==
  /\ q \in invReqs /\ q.stage = "sent"
  /\ invReqs' = (invReqs \ {q}) \cup {[q EXCEPT !.stage = "served", !.version = invs.version, !.about.enabled = invs.enabled]}
  /\ UNCHANGED <<invs, invList, invite, resends, cancelling, invAfter, ackedInv>>

\* The page asked for is past the last one: the last one is read.
EmptyInvPage(q) ==
  /\ q \in invReqs /\ q.mine /\ q.stage = "served" /\ q.about.page = 2
  /\ invReqs' = (invReqs \ {q}) \cup {Request([page |-> 1, enabled |-> FALSE])} /\ invList' = [invList EXCEPT !.page = 1]
  /\ UNCHANGED <<invs, invite, resends, cancelling, invAfter, ackedInv>>
InvRead(q) ==
  /\ q \in invReqs /\ q.stage = "served" /\ invReqs' = invReqs \ {q}
  /\ invList' = IF q.mine THEN [invList EXCEPT !.state = "loaded", !.have = TRUE, !.version = q.version, !.enabled = q.about.enabled]
                ELSE invList
  /\ UNCHANGED <<invs, invite, resends, cancelling, invAfter, ackedInv>>
InvReadFails(q) ==
  /\ q \in invReqs /\ invReqs' = invReqs \ {q}
  /\ invList' = IF q.mine THEN [invList EXCEPT !.state = "failed"] ELSE invList
  /\ UNCHANGED <<invs, invite, resends, cancelling, invAfter, ackedInv>>

-----------------------------------------------------------------------------
\* InvitationAdminPage behind a dialog is inert.
InvPageFree == invList.state # "gone" /\ ~invite.open /\ cancelling.row = "none"
\* InvitationList: rows are there only while loaded, the pager also while loading.
InvRowsShown == InvPageFree /\ invList.state = "loaded" /\ invList.have
InvPagerShown == InvPageFree /\ invList.state # "failed" /\ invList.have

retryInv == InvPageFree /\ invList.state = "failed" /\ loadInv(invList.page) /\ UNCHANGED <<invs, invite, resends, cancelling, invAfter, ackedInv>>
goToInvPage(page) ==
  /\ InvPagerShown /\ page # invList.page /\ loadInv(page) /\ UNCHANGED <<invs, invite, resends, cancelling, invAfter, ackedInv>>

openInvite ==
  /\ InvPageFree /\ invList.have /\ invList.enabled /\ invList.state # "failed" /\ invite' = [NoInvite EXCEPT !.open = TRUE]
  /\ UNCHANGED <<invs, invList, invReqs, resends, cancelling, invAfter, ackedInv>>

SentCall == [sent |-> TRUE, page |-> invList.page]

\* InviteDialog: nothing but typing while busy.
InviteDialogFree == invite.open /\ ~invite.call.sent
submitInvite ==
  /\ InviteDialogFree /\ invite' = [invite EXCEPT !.call = SentCall, !.pending = FALSE]
  /\ UNCHANGED <<invs, invList, invReqs, resends, cancelling, invAfter, ackedInv>>
closeInvite ==
  /\ InviteDialogFree /\ invite' = NoInvite
  /\ IF invite.reload THEN loadInv(invList.page) ELSE UNCHANGED <<invList, invReqs>>
  /\ UNCHANGED <<invs, resends, cancelling, invAfter, ackedInv>>
\* The row of the invitation that is already there, on the page the server named.
showPendingRow ==
  /\ InviteDialogFree /\ invite.pending /\ invite' = NoInvite /\ invAfter' \in InvPages
  /\ UNCHANGED <<invs, invList, invReqs, resends, cancelling, ackedInv>>

resend(row) ==
  /\ InvRowsShown /\ invList.enabled /\ ~resends[row].sent /\ resends' = [resends EXCEPT ![row] = SentCall]
  /\ UNCHANGED <<invs, invList, invReqs, invite, cancelling, invAfter, ackedInv>>
requestCancel(row) ==
  /\ InvRowsShown /\ ~resends[row].sent /\ cancelling' = [NotCancelling EXCEPT !.row = row]
  /\ UNCHANGED <<invs, invList, invReqs, invite, resends, invAfter, ackedInv>>

\* CancelConfirmDialog
CancelDialogFree == cancelling.row # "none" /\ ~cancelling.call.sent
closeCancel == CancelDialogFree /\ cancelling' = NotCancelling /\ UNCHANGED <<invs, invList, invReqs, invite, resends, invAfter, ackedInv>>
confirmCancel ==
  /\ CancelDialogFree /\ cancelling' = [cancelling EXCEPT !.call = SentCall]
  /\ UNCHANGED <<invs, invList, invReqs, invite, resends, invAfter, ackedInv>>

\* The server; an invitation or a mail sent again whose mail could not be sent is done all the same.
InvDone == invs.version < MaxVersion /\ invs' = [invs EXCEPT !.version = @ + 1]
InvLost == InvDone \/ UNCHANGED invs

InviteDone ==
  /\ invite.call.sent /\ invs.enabled /\ InvDone /\ invite' = NoInvite /\ loadInv(1) /\ ackedInv' = invs'.version
  /\ UNCHANGED <<resends, cancelling, invAfter>>
\* pending: the invitation is there already; notConfigured: the list is read again when the dialog is closed.
InviteFails(why) ==
  /\ invite.call.sent /\ (why = "notConfigured") = (~invs.enabled /\ why # "lost")
  /\ IF why = "lost" THEN InvLost ELSE UNCHANGED invs
  /\ invite' = [invite EXCEPT !.call = NoInvCall, !.pending = why = "pending", !.reload = @ \/ why = "notConfigured"]
  /\ UNCHANGED <<invList, invReqs, resends, cancelling, invAfter, ackedInv>>

\* The page the mail was sent again from is read, not the one shown now.
ResendDone(row) ==
  /\ resends[row].sent /\ invs.enabled /\ InvDone /\ resends' = [resends EXCEPT ![row] = NoInvCall]
  /\ loadInv(resends[row].page) /\ ackedInv' = invs'.version
  /\ UNCHANGED <<invite, cancelling, invAfter>>
ResendFails(row, why) ==
  /\ resends[row].sent /\ (why = "notConfigured") = (~invs.enabled /\ why # "lost")
  /\ IF why = "lost" THEN InvLost ELSE UNCHANGED invs
  /\ resends' = [resends EXCEPT ![row] = NoInvCall]
  /\ IF why \in {"notFound", "notConfigured"} THEN loadInv(resends[row].page) ELSE UNCHANGED <<invList, invReqs>>
  /\ UNCHANGED <<invite, cancelling, invAfter, ackedInv>>

CancelDone ==
  /\ cancelling.call.sent /\ InvDone /\ cancelling' = NotCancelling /\ invAfter' = cancelling.call.page /\ ackedInv' = invs'.version
  /\ UNCHANGED <<invList, invReqs, invite, resends>>
CancelFails(why) ==
  /\ cancelling.call.sent /\ IF why = "lost" THEN InvLost ELSE UNCHANGED invs
  /\ cancelling' = NotCancelling /\ invAfter' = IF why = "notFound" THEN cancelling.call.page ELSE invAfter
  /\ UNCHANGED <<invList, invReqs, invite, resends, ackedInv>>

\* afterDialogClosed
InvAfterClosed ==
  /\ invAfter # 0 /\ invAfter' = 0 /\ loadInv(invAfter) /\ UNCHANGED <<invs, invite, resends, cancelling, ackedInv>>

InvNext ==
  \/ OpenInv \/ InvGone \/ InvChange \/ retryInv \/ openInvite \/ submitInvite \/ closeInvite \/ showPendingRow \/ closeCancel
  \/ confirmCancel \/ InviteDone \/ CancelDone \/ InvAfterClosed
  \/ \E page \in InvPages : goToInvPage(page)
  \/ \E why \in {"pending", "notConfigured", "lost"} : InviteFails(why)
  \/ \E why \in {"notFound", "lost"} : CancelFails(why)
  \/ \E row \in InvRows : resend(row) \/ requestCancel(row) \/ ResendDone(row)
                          \/ \E why \in {"notFound", "notConfigured", "lost"} : ResendFails(row, why)
  \/ \E q \in invReqs : ServeInv(q) \/ EmptyInvPage(q) \/ InvRead(q) \/ InvReadFails(q)

-----------------------------------------------------------------------------
\* Rows offered for an operation contain every change this page was told of, with several rows sent again at once and
\* pages turned meanwhile (useInvitationAdmin.ts: 最後に始めた読み直しの答えだけを使う).
InvRowsFollow == InvRowsShown /\ invAfter = 0 => invList.version >= ackedInv

\* An invitation is never sent again and cancelled at the same time by one page: the answer of one would be about a
\* state the other has ended (InvitationList.tsx, the buttons of a row).
NoCrossing == cancelling.row # "none" => ~resends[cancelling.row].sent
=============================================================================
