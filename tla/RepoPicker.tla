----------------------------- MODULE RepoPicker -----------------------------
(***************************************************************************)
(* The "Add repositories" dialog: opened and closed while its data is on   *)
(* the way, loaded again when the reviewer comes back from GitHub, where   *)
(* the App may have been installed meanwhile.  Handlers see the state of   *)
(* the last render, or a ref; the tab's server actions run one after the   *)
(* other, so an answer that nobody waits for any more still comes first.   *)
(***************************************************************************)
EXTENDS Naturals, Sequences, FiniteSets

CONSTANTS
    Accounts,     \* accounts on GitHub, as [id, spelling]: names differ in case
    Memberships,  \* active organisation memberships of the reviewer
    Login,        \* the reviewer's own account, as stored when signing in
    MaxOpens,     \* bound: times the dialog is opened
    MaxReloads    \* bound: loads by coming back or by "Try again"

Ids == {a.id : a \in Accounts}

ASSUME PickerAssumption ==
    /\ Memberships \subseteq Accounts /\ Login \in Accounts
    /\ MaxOpens \in Nat /\ MaxReloads \in Nat

VARIABLES
    installed,   \* accounts with the App, in GitHub's spelling
    dialog,      \* refs and state of the dialog
    calls,       \* loads the router has not answered, in order
    reloads,     \* reloads so far
    before       \* accounts that had the App when the dialog was last opened

pickerVars == <<installed, dialog, calls, reloads, before>>

PickerStatuses == {"idle", "loading", "loaded", "reauth", "error"}

Untouched == [open |-> FALSE, shown |-> FALSE, status |-> "idle", rendered |-> "idle",
         loading |-> FALSE, gen |-> 0, groups |-> {}, targets |-> {}]

Lower(a) == a.id

-----------------------------------------------------------------------------
(* The dialog.                                                             *)

Call(gen) == [gen |-> gen, todo |-> {"installations", "memberships"}, groups |-> {}, members |-> {}]

\* Mutant: without the in-flight guard.
LoadUnguarded(d) ==
    /\ dialog' = [d EXCEPT !.loading = TRUE, !.status = "loading"]
    /\ calls' = Append(calls, Call(d.gen))

\* "drops a concurrent call"
Load(d) ==
    IF d.loading THEN dialog' = d /\ UNCHANGED calls
    ELSE /\ dialog' = [d EXCEPT !.loading = TRUE, !.status = "loading"]
         /\ calls' = Append(calls, Call(d.gen))

\* The trigger is behind the dialog until its closing is rendered.
Open ==
    /\ ~dialog.open /\ ~dialog.shown /\ dialog.gen < MaxOpens
    /\ LET d == [dialog EXCEPT !.open = TRUE] IN
       IF dialog.rendered = "idle" THEN Load(d) ELSE dialog' = d /\ UNCHANGED calls
    /\ before' = installed
    /\ UNCHANGED <<installed, reloads>>

\* Mutant: the load in flight stays the current one.
CloseKeepsGeneration ==
    /\ dialog.open /\ dialog.shown
    /\ dialog' = [dialog EXCEPT !.open = FALSE, !.loading = FALSE, !.status = "idle",
                                !.groups = {}, !.targets = {}]
    /\ UNCHANGED <<installed, calls, reloads, before>>

Close ==
    /\ dialog.open /\ dialog.shown
    /\ dialog' = [dialog EXCEPT !.open = FALSE, !.gen = @ + 1, !.loading = FALSE,
                                !.status = "idle", !.groups = {}, !.targets = {}]
    /\ UNCHANGED <<installed, calls, reloads, before>>

Render ==
    /\ <<dialog.shown, dialog.rendered>> # <<dialog.open, dialog.status>>
    /\ dialog' = [dialog EXCEPT !.shown = dialog.open, !.rendered = dialog.status]
    /\ UNCHANGED <<installed, calls, reloads, before>>

\* Mutant: the listener looks at the rendered status only.
RefocusUngated ==
    /\ dialog.shown /\ dialog.rendered = "loaded" /\ reloads < MaxReloads
    /\ reloads' = reloads + 1
    /\ Load(dialog)
    /\ UNCHANGED <<installed, before>>

\* A focus or visibilitychange event, while the listeners are there.
Refocus ==
    /\ dialog.shown /\ dialog.open /\ dialog.rendered = "loaded" /\ reloads < MaxReloads
    /\ reloads' = reloads + 1
    /\ Load(dialog)
    /\ UNCHANGED <<installed, before>>

\* React renders the updates of a click before the next click, though not
\* before the next event of the window.
TryAgain ==
    /\ dialog.shown /\ dialog.open /\ dialog.rendered = "error" /\ reloads < MaxReloads
    /\ reloads' = reloads + 1
    /\ Load(dialog)
    /\ UNCHANGED <<installed, before>>

-----------------------------------------------------------------------------
(* loadAddableRepos, on the server.                                        *)

computeInstallableTargets(members, groups) ==
    {c \in members \cup {Login} : Lower(c) \notin {Lower(g) : g \in groups}}

Serve(call) == calls' = <<call>> \o Tail(calls)

listInstallations ==
    /\ calls # << >> /\ "installations" \in Head(calls).todo
    /\ Serve([Head(calls) EXCEPT !.todo = @ \ {"installations"}, !.groups = installed])
    /\ UNCHANGED <<installed, dialog, reloads, before>>

\* A failure that is not about the sign-in means no install cards.
listUserMemberships ==
    /\ calls # << >> /\ "memberships" \in Head(calls).todo
    /\ \E members \in {Memberships, {}} :
          Serve([Head(calls) EXCEPT !.todo = @ \ {"memberships"}, !.members = members])
    /\ UNCHANGED <<installed, dialog, reloads, before>>

\* The continuation of load in the tab, and its finally.
Answered(d) ==
    /\ calls # << >>
    /\ dialog' = [(IF Head(calls).gen = dialog.gen THEN d ELSE dialog) EXCEPT !.loading = FALSE]
    /\ calls' = Tail(calls)
    /\ UNCHANGED <<installed, reloads, before>>

\* The repositories of an account may be missing from its group.
Loaded ==
    /\ calls # << >> /\ Head(calls).todo = {}
    /\ Answered([dialog EXCEPT !.status = "loaded", !.groups = Head(calls).groups,
                  !.targets = computeInstallableTargets(Head(calls).members, Head(calls).groups)])

\* Signed out, or a 401 in any of the reads.
Reauth == Answered([dialog EXCEPT !.status = "reauth", !.groups = {}, !.targets = {}])

\* A rate limit, any other failure of the installations, or of the call.
LoadFails == Answered([dialog EXCEPT !.status = "error", !.groups = {}, !.targets = {}])

\* On GitHub, in another tab (external).
Install ==
    /\ \E a \in Accounts : Lower(a) \notin {Lower(b) : b \in installed}
                           /\ installed' = installed \cup {a}
    /\ UNCHANGED <<dialog, calls, reloads, before>>

-----------------------------------------------------------------------------
PickerInit ==
    /\ installed = {}
    /\ dialog = Untouched
    /\ calls = << >>
    /\ reloads = 0
    /\ before = {}

PickerNext ==
    \/ Open \/ Close \/ Render \/ Refocus \/ TryAgain
    \/ listInstallations \/ listUserMemberships \/ Loaded \/ Reauth \/ LoadFails
    \/ Install

PickerSpec == PickerInit /\ [][PickerNext]_pickerVars

-----------------------------------------------------------------------------
PickerTypeOK ==
    /\ installed \subseteq Accounts /\ before \subseteq Accounts
    /\ dialog \in [open : BOOLEAN, shown : BOOLEAN, status : PickerStatuses, rendered : PickerStatuses,
                   loading : BOOLEAN, gen : Nat, groups : SUBSET Accounts,
                   targets : SUBSET Accounts]
    /\ calls \in Seq([gen : Nat, todo : SUBSET {"installations", "memberships"},
                      groups : SUBSET Accounts, members : SUBSET Accounts])
    /\ reloads \in Nat

Current == {i \in DOMAIN calls : calls[i].gen = dialog.gen}

\* "a late response never writes stale state onto a closed modal", and no
\* event that comes while it closes does (genRef, openRef): a closed dialog is
\* idle, so that it loads when it is opened again.
ClosedIsIdle == ~dialog.open => dialog.status = "idle" /\ Current = {}

\* The spinner of an open dialog is there for a load that is on its way, the
\* one that will take it away (the in-flight guard against the abandoned loads
\* whose finally releases it).
SpinnerHasLoad ==
    dialog.open => (dialog.status \in {"idle", "loading"} <=> Cardinality(Current) = 1)
                   /\ Cardinality(Current) <= 1

\* "Each open re-fetches fresh so a just-completed GitHub install shows": what
\* an open dialog lists was read after it was opened, and nobody is asked to
\* install the App where the same list has it, however the name is spelled.
OpenShowsInstalled ==
    dialog.open /\ dialog.status = "loaded" =>
        /\ before \subseteq dialog.groups
        /\ \A t \in dialog.targets, g \in dialog.groups : Lower(t) # Lower(g)
=============================================================================
