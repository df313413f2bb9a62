------------------------------ MODULE PullsPage ------------------------------
(***************************************************************************)
(* The list of a repository's open pull requests: painted by the server,   *)
(* then kept in step with GitHub by syncs on refocus and on demand.  A     *)
(* list is read page by page, in the order of the last update, while pull  *)
(* requests are opened, updated and closed.                                *)
(***************************************************************************)
EXTENDS Naturals, Sequences, FiniteSets, SequencesExt

CONSTANTS
    Pulls,        \* numbers of pull requests
    OpenAtFirst,  \* bound: how many are open at the start
    PageSize,     \* OPEN_PR_PER_PAGE
    MaxPages,     \* MAX_PAGES
    MaxChanges,   \* bound: changes of pull requests on GitHub
    MaxSyncs      \* bound: syncs

ASSUME PullsAssumption ==
    /\ Pulls \subseteq Nat /\ OpenAtFirst \in Nat /\ 1 .. OpenAtFirst \subseteq Pulls
    /\ PageSize \in Nat \ {0} /\ MaxPages \in Nat \ {0}
    /\ MaxChanges \in Nat /\ MaxSyncs \in Nat

VARIABLES
    open,      \* open pull requests on GitHub, the last updated one first
    changes,   \* changes of them so far: the time of the last one
    fetch,     \* listOpenPullRequests, under way
    list,      \* PullsList in the tab
    syncs      \* syncs so far

pullsVars == <<open, changes, fetch, list, syncs>>

Pull(n, updatedAt) == [number |-> n, updatedAt |-> updatedAt]
Numbers(s) == {s[i].number : i \in DOMAIN s}

NoFetch == [on |-> FALSE, page |-> 1, got |-> << >>, full |-> TRUE, since |-> 0]

\* since and prev are kept for the properties: how many changes there were when
\* the sync of the view began, and the view before it.
NoList == [stage |-> "before", pulls |-> << >>, changed |-> {}, status |-> "idle",
           fresh |-> FALSE, login |-> FALSE, since |-> 0, prev |-> << >>]

-----------------------------------------------------------------------------
(* GitHub (external).                                                      *)

Changes == changes < MaxChanges /\ changes' = changes + 1 /\ UNCHANGED <<fetch, list, syncs>>

Others(n) == RemoveFirstMatch(open, LAMBDA p : p.number = n)

OpenOrUpdate(n) == Changes /\ open' = <<Pull(n, changes + 1)>> \o Others(n)

ClosePull(n) == n \in Numbers(open) /\ Changes /\ open' = Others(n)

-----------------------------------------------------------------------------
(* listOpenPullRequests.                                                   *)

Start == fetch' = [NoFetch EXCEPT !.on = TRUE, !.since = changes]

PageOf(k) == SubSeq(open, (k - 1) * PageSize + 1, Min({k * PageSize, Len(open)}))

\* Mutant: a page that is just full ends the list.
ReadPageStopsEarly ==
    /\ fetch.on /\ fetch.full /\ fetch.page <= MaxPages
    /\ fetch' = [fetch EXCEPT !.page = @ + 1, !.got = @ \o PageOf(fetch.page), !.full = FALSE]
    /\ UNCHANGED <<open, changes, list, syncs>>

\* A page that is not full is the last one.
ReadPage ==
    /\ fetch.on /\ fetch.full /\ fetch.page <= MaxPages
    /\ fetch' = [fetch EXCEPT !.page = @ + 1, !.got = @ \o PageOf(fetch.page),
                              !.full = Len(PageOf(fetch.page)) = PageSize]
    /\ UNCHANGED <<open, changes, list, syncs>>

ReadAll == fetch.on /\ (~fetch.full \/ fetch.page > MaxPages)

-----------------------------------------------------------------------------
(* The page on the server, and the list in the tab.                        *)

RepoPullsPage ==
    /\ list.stage = "before" /\ ~fetch.on
    /\ Start
    /\ UNCHANGED <<open, changes, list, syncs>>

FirstPaint ==
    /\ list.stage = "before" /\ ReadAll
    /\ list' = [list EXCEPT !.stage = "here", !.pulls = fetch.got, !.prev = fetch.got,
                            !.fresh = TRUE, !.since = fetch.since]
    /\ fetch' = NoFetch
    /\ UNCHANGED <<open, changes, syncs>>

\* The error boundary, or a 401: clearSessionRow and redirect("/login").
NoPaint ==
    /\ list.stage = "before" /\ fetch.on
    /\ list' = [list EXCEPT !.stage = "left"]
    /\ fetch' = NoFetch
    /\ UNCHANGED <<open, changes, syncs>>

\* loadingRef: a sync under way is not doubled.
Sync ==
    /\ list.stage = "here" /\ ~fetch.on /\ syncs < MaxSyncs
    /\ syncs' = syncs + 1
    /\ list' = [list EXCEPT !.status = "syncing"]
    /\ Start
    /\ UNCHANGED <<open, changes>>

\* Back in the tab, ten seconds after the last sync at the earliest.
Refocus10s == ~list.fresh /\ Sync

\* The button asks for no such delay.
Refresh == Sync

TenSecondsPass ==
    /\ list.stage = "here" /\ list.fresh
    /\ list' = [list EXCEPT !.fresh = FALSE]
    /\ UNCHANGED <<open, changes, fetch, syncs>>

\* The time of the last entry, as a Map of the list has it.
Before(prev, n) == prev[SelectLastInSeq(prev, LAMBDA p : p.number = n)].updatedAt

diffChanges(prev, next) ==
    {[number |-> p.number, as |-> "new"] : p \in {q \in Range(next) : q.number \notin Numbers(prev)}}
    \cup
    {[number |-> p.number, as |-> "updated"] :
        p \in {q \in Range(next) : /\ q.number \in Numbers(prev)
                                   /\ q.updatedAt > Before(prev, q.number)}}

\* Mutant: an unchanged list leaves the markers.
SyncedQuietly(l, pulls) ==
    IF l.pulls = pulls THEN l
    ELSE [l EXCEPT !.pulls = pulls, !.changed = diffChanges(l.pulls, pulls)]

\* Nothing is written if the list is the same and has no markers to clear.
Synced(l, pulls) ==
    IF l.pulls = pulls /\ l.changed = {} THEN l
    ELSE [l EXCEPT !.pulls = pulls, !.changed = diffChanges(l.pulls, pulls)]

\* Mutant: an answer is taken wherever the reviewer is by now.
ArrivesAnyway(l) ==
    /\ fetch' = NoFetch
    /\ list' = l
    /\ UNCHANGED <<open, changes, syncs>>

\* genRef and mountedRef: the answer of a list that was left is discarded.
Arrives(l) ==
    /\ fetch' = NoFetch
    /\ list' = IF list.stage = "here" THEN l ELSE list
    /\ UNCHANGED <<open, changes, syncs>>

SyncDone ==
    /\ list.stage # "before" /\ ReadAll
    /\ Arrives([Synced(list, fetch.got) EXCEPT !.status = "idle", !.fresh = TRUE,
                                                !.since = fetch.since, !.prev = list.pulls])

Reauthenticate ==
    /\ list.stage # "before" /\ fetch.on
    /\ Arrives([list EXCEPT !.status = "idle", !.login = TRUE])

SyncFails ==
    /\ list.stage # "before" /\ fetch.on
    /\ Arrives([list EXCEPT !.status = "error"])

LeavePulls ==
    /\ list.stage = "here"
    /\ list' = [list EXCEPT !.stage = "left"]
    /\ UNCHANGED <<open, changes, fetch, syncs>>

-----------------------------------------------------------------------------
PullsInit ==
    /\ open = [i \in 1 .. OpenAtFirst |-> Pull(i, 0)]
    /\ changes = 0
    /\ fetch = NoFetch
    /\ list = NoList
    /\ syncs = 0

PullsNext ==
    \/ \E n \in Pulls : OpenOrUpdate(n) \/ ClosePull(n)
    \/ RepoPullsPage \/ ReadPage \/ FirstPaint \/ NoPaint
    \/ Refocus10s \/ Refresh \/ TenSecondsPass
    \/ SyncDone \/ Reauthenticate \/ SyncFails \/ LeavePulls

PullsSpec == PullsInit /\ [][PullsNext]_pullsVars

-----------------------------------------------------------------------------
\* "keeps that list converged with GitHub": if nothing has changed since the
\* last sync began, the list is what GitHub has, up to the cap, however the
\* pages of earlier syncs were mixed up; and a quiet sync writes nothing that
\* it should have written.
SyncedViewIsCurrent ==
    list.stage = "here" /\ list.since = changes =>
        /\ IsPrefix(list.pulls, open)
        /\ Len(list.pulls) \in {Len(open), PageSize * MaxPages}

\* "PRs that are new or changed since the previous synced view", after every
\* sync, and "last sync's markers clear".
MarkersAreOfLastSync == list.changed = diffChanges(list.prev, list.pulls)

\* "a late response never writes onto an unmounted island", nor does it send
\* the reviewer to the sign-in from wherever they are.
LeftPageIsQuiet == [][list.stage = "left" => UNCHANGED list]_pullsVars
=============================================================================
