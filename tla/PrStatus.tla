------------------------------ MODULE PrStatus ------------------------------
(***************************************************************************)
(* Background sync of each pull request's merge status (the pr_status      *)
(* table).  Three writers share the table, none of them coordinated with   *)
(* the others: the review worker seeds a reviewed PR as open, a webhook    *)
(* job records a closed / reopened delivery, and a periodic poll re-reads  *)
(* the oldest-synced open rows from GitHub.  Deliveries may be lost,       *)
(* duplicated, delayed and reordered by retries; a worker process may die  *)
(* between any two awaits of a poll.                                       *)
(***************************************************************************)
EXTENDS Naturals, FiniteSets

CONSTANTS
    PRs,             \* pull requests, each named by the id its row gets
    Workers,         \* status-worker processes (one job at a time each)
    InstallationOf,  \* the GitHub App installation that can read each PR
    Batch,           \* prStatusPollBatch: rows listed by one poll
    Attempts,        \* how often BullMQ runs a failing update job
    MaxEvents,       \* bound: lifecycle events GitHub produces
    MaxSends,        \* bound: deliveries GitHub sends, repeats included
    MaxDeaths,       \* bound: polls that die before they end
    MaxReviews,      \* bound: review jobs that reach their seed, per PR
    Readable         \* PRs GitHub answers for now and then (liveness only)

ASSUME PRsAssumption == PRs \subseteq Nat /\ IsFiniteSet(PRs)
ASSUME InstallationAssumption == DOMAIN InstallationOf = PRs
ASSUME BoundsAssumption ==
    /\ Batch \in Nat \ {0} /\ Attempts \in Nat \ {0}
    /\ MaxEvents \in Nat   /\ MaxSends \in Nat
    /\ MaxDeaths \in Nat   /\ MaxReviews \in Nat
    /\ Readable \subseteq PRs

VARIABLES
    gh,        \* gh[p]: the PR's live lifecycle on GitHub
    events,    \* every lifecycle event so far: a delivery GitHub may send
    sends,     \* deliveries GitHub can still send
    jobs,      \* update jobs waiting in the pr-status queue
    kept,      \* deliveries whose finished job BullMQ still retains
    reviews,   \* reviews[p]: review jobs that have not seeded p yet
    row,       \* row[p]: pr_status.status, or NoRow
    older,     \* <<p, q>>: p's row is polled before q's (synced_at, id)
    due,       \* a poll tick is waiting in the queue
    deaths,    \* polls that can still die
    polling,   \* workers inside runStatusPoll
    left,      \* left[w]: listed rows of installations not reached yet
    group,     \* group[w]: rows of the current installation not read yet
    write,     \* write[w]: the changed status read but not written yet, if any
    toSync     \* toSync[w]: rows to mark synced at the end of the poll

vars == <<gh, events, sends, jobs, kept, reviews, row, older, due,
          deaths, polling, left, group, write, toSync>>
pollVars == <<deaths, polling, left, group, write, toSync>>
queueVars == <<events, sends, jobs, kept>>

Opened  == [state |-> "open",   merged |-> FALSE]
Unmerged == [state |-> "closed", merged |-> FALSE]
Merged  == [state |-> "closed", merged |-> TRUE]
Gone    == [state |-> "gone",   merged |-> FALSE]   \* GitHub answers 404

Lifecycle == {Opened, Unmerged, Merged}
Status    == {"open", "merged", "closed"}
NoRow     == "none"

Delivery == [pr : PRs, life : Lifecycle, id : Nat]
Job      == [delivery : Delivery, tries : 0 .. Attempts - 1]
Write    == [pr : PRs, status : Status]

derivePrStatus(life) ==
    IF life.state = "open" THEN "open"
    ELSE IF life.merged THEN "merged" ELSE "closed"

isArchivedStatus(status) == status \in {"merged", "closed"}

-----------------------------------------------------------------------------
(* The table.  older is the order of synced_at with ties broken by id.     *)

Tracked == {p \in PRs : row[p] # NoRow}
OpenRows == {p \in PRs : row[p] = "open"}

\* Once the rows of S carry the newest synced_at, p is polled before q.
Before(S, p, q) ==
    \/ p \notin S /\ q \in S
    \/ p \in S /\ q \in S /\ p < q
    \/ p \notin S /\ q \notin S /\ <<p, q>> \in older

\* The order after one statement sets synced_at of the rows of S to now().
Stamped(S) ==
    {e \in (Tracked \cup S) \X (Tracked \cup S) : Before(S, e[1], e[2])}

recordStatus(p, status) ==
    /\ row' = [row EXCEPT ![p] = status]
    /\ older' = Stamped({p})

\* Mutant: the upsert without its setWhere guard.
seedOpenUnguarded(p) == recordStatus(p, "open")

seedOpen(p) ==
    IF isArchivedStatus(row[p])
    THEN UNCHANGED <<row, older>>
    ELSE recordStatus(p, "open")

markSynced(S) == older' = Stamped(S) /\ UNCHANGED row

listOpenForPoll ==
    {p \in OpenRows :
        Cardinality({q \in OpenRows : <<q, p>> \in older}) < Batch}

-----------------------------------------------------------------------------
(* GitHub (external): the lifecycle of a PR and the deliveries it causes.  *)

Emit(p, life) ==
    /\ Cardinality(events) < MaxEvents
    /\ gh' = [gh EXCEPT ![p] = life]
    /\ events' = events \cup
         {[pr |-> p, life |-> life, id |-> Cardinality(events) + 1]}
    /\ UNCHANGED <<sends, jobs, kept, reviews, row, older, due, pollVars>>

Close(p)  == gh[p] = Opened /\ Emit(p, Unmerged)
Merge(p)  == gh[p] = Opened /\ Emit(p, Merged)
Reopen(p) == gh[p] = Unmerged /\ Emit(p, Opened)

\* The repository is deleted or the App loses sight of it: no delivery.
Vanish(p) ==
    /\ gh[p] # Gone
    /\ gh' = [gh EXCEPT ![p] = Gone]
    /\ UNCHANGED <<queueVars, reviews, row, older, due, pollVars>>

-----------------------------------------------------------------------------
(* Webhook ingress and queue.                                              *)

Queued(d) == \E j \in jobs : j.delivery = d

\* POST /webhook for a closed / reopened event.  The delivery id is the job
\* id, so a delivery whose job BullMQ still knows collapses into it.
Deliver(d) ==
    /\ d \in events /\ sends > 0
    /\ sends' = sends - 1
    /\ jobs' = IF Queued(d) \/ d \in kept
               THEN jobs
               ELSE jobs \cup {[delivery |-> d, tries |-> 0]}
    /\ UNCHANGED <<gh, events, kept, reviews, row, older, due, pollVars>>

\* removeOnComplete / removeOnFail: BullMQ forgets a finished job.
Forget(d) ==
    /\ d \in kept
    /\ kept' = kept \ {d}
    /\ UNCHANGED <<gh, events, sends, jobs, reviews, row, older, due, pollVars>>

\* Mutant: one attempt too many.
RetryOnceMore(j) ==
    IF j.tries < Attempts
    THEN /\ jobs' = (jobs \ {j}) \cup {[j EXCEPT !.tries = @ + 1]}
         /\ UNCHANGED kept
    ELSE /\ jobs' = jobs \ {j}
         /\ kept' = kept \cup {j.delivery}

\* The job ran once more without being acknowledged: it is tried again, in
\* whatever order its backoff ends, until its attempts are used up.
Retry(j) ==
    IF j.tries + 1 < Attempts
    THEN /\ jobs' = (jobs \ {j}) \cup {[j EXCEPT !.tries = @ + 1]}
         /\ UNCHANGED kept
    ELSE /\ jobs' = jobs \ {j}
         /\ kept' = kept \cup {j.delivery}

Applied(j) == recordStatus(j.delivery.pr, derivePrStatus(j.delivery.life))

handleStatusUpdate(w, j) ==
    /\ w \notin polling
    /\ j \in jobs
    /\ \/ /\ Applied(j)                        \* written and acknowledged
          /\ jobs' = jobs \ {j}
          /\ kept' = kept \cup {j.delivery}
       \/ Applied(j) /\ Retry(j)               \* died before the ack
       \/ UNCHANGED <<row, older>> /\ Retry(j) \* the write failed
    /\ UNCHANGED <<gh, events, sends, reviews, due, pollVars>>

\* A review job reached seedPrStatus, whose failure is swallowed.
seedPrStatus(p) ==
    /\ reviews[p] > 0
    /\ reviews' = [reviews EXCEPT ![p] = @ - 1]
    /\ seedOpen(p) \/ UNCHANGED <<row, older>>
    /\ UNCHANGED <<gh, queueVars, due, pollVars>>

-----------------------------------------------------------------------------
(* The poll: runStatusPoll, one action per await.                          *)

\* The repeatable job comes due; a tick already waiting is not stacked.
TickDue ==
    /\ ~due
    /\ due' = TRUE
    /\ UNCHANGED <<gh, queueVars, reviews, row, older, pollVars>>

\* A worker takes the tick and lists its batch of open rows.
TakeTick(w) ==
    /\ due /\ w \notin polling
    /\ due' = FALSE
    /\ UNCHANGED <<gh, queueVars, reviews, row, older, deaths, group, write, toSync>>

PollStart(w) ==
    /\ TakeTick(w)
    /\ OpenRows # {}
    /\ polling' = polling \cup {w}
    /\ left' = [left EXCEPT ![w] = listOpenForPoll]

\* Nothing is open, or the listing query fails and the tick with it.
PollListsNothing(w) == TakeTick(w) /\ UNCHANGED <<polling, left>>

Rows(w, i) == {p \in left[w] : InstallationOf[p] = i}

BetweenGroups(w) == w \in polling /\ group[w] = {} /\ write[w] = {}

\* readerFor mints the token of the next installation.
PollReader(w, i) ==
    /\ BetweenGroups(w) /\ Rows(w, i) # {}
    /\ group' = [group EXCEPT ![w] = Rows(w, i)]
    /\ left' = [left EXCEPT ![w] = @ \ Rows(w, i)]
    /\ UNCHANGED <<gh, queueVars, reviews, row, older, due, deaths, polling, write, toSync>>

\* readerFor fails: the installation's rows rotate to the back unread.
PollReaderFails(w, i) ==
    /\ BetweenGroups(w) /\ Rows(w, i) # {}
    /\ toSync' = [toSync EXCEPT ![w] = @ \cup Rows(w, i)]
    /\ left' = [left EXCEPT ![w] = @ \ Rows(w, i)]
    /\ UNCHANGED <<gh, queueVars, reviews, row, older, due, deaths, polling, group, write>>

Reading(w, p) == w \in polling /\ write[w] = {} /\ p \in group[w]

\* Mutant: an unreadable row is skipped but not marked synced.
RotateForgotten(w, p) == p \in group[w] /\ UNCHANGED <<toSync, write>>

\* Leave p's row as it is and let it rotate to the back.
Rotate(w, p) ==
    /\ toSync' = [toSync EXCEPT ![w] = @ \cup {p}]
    /\ UNCHANGED write

\* Mutant: the 404 of a vanished PR is taken for an end of the PR.
PollReadNullIsClosed(w, p) ==
    /\ Reading(w, p)
    /\ group' = [group EXCEPT ![w] = @ \ {p}]
    /\ IF gh[p] = Opened
       THEN Rotate(w, p)
       ELSE /\ write' = [write EXCEPT ![w] =
                           {[pr |-> p, status |-> derivePrStatus(gh[p])]}]
            /\ UNCHANGED toSync
    /\ UNCHANGED <<gh, queueVars, reviews, row, older, due, deaths, polling, left>>

\* getPullRequestState and reconcilePrStatus.  The row was listed as open,
\* and reconcile compares the answer with that listing, not with the row.
PollRead(w, p) ==
    /\ Reading(w, p)
    /\ group' = [group EXCEPT ![w] = @ \ {p}]
    /\ IF gh[p] = Gone \/ derivePrStatus(gh[p]) = "open"
       THEN Rotate(w, p)
       ELSE /\ write' = [write EXCEPT ![w] =
                           {[pr |-> p, status |-> derivePrStatus(gh[p])]}]
            /\ UNCHANGED toSync
    /\ UNCHANGED <<gh, queueVars, reviews, row, older, due, deaths, polling, left>>

PollReadFails(w, p) ==
    /\ Reading(w, p)
    /\ group' = [group EXCEPT ![w] = @ \ {p}]
    /\ Rotate(w, p)
    /\ UNCHANGED <<gh, queueVars, reviews, row, older, due, deaths, polling, left>>

PollWrite(w, p) ==
    /\ \E r \in write[w] : r.pr = p /\ recordStatus(p, r.status)
    /\ write' = [write EXCEPT ![w] = {}]
    /\ UNCHANGED <<gh, queueVars, reviews, due, deaths, polling, left, group, toSync>>

\* The write fails: the row is neither written nor marked synced.
PollWriteFails(w, p) ==
    /\ \E r \in write[w] : r.pr = p
    /\ write' = [write EXCEPT ![w] = {}]
    /\ UNCHANGED <<gh, queueVars, reviews, row, older, due, deaths, polling, left, group, toSync>>

\* The worker is idle again and keeps nothing of the poll.
EndPoll(w) ==
    /\ polling' = polling \ {w}
    /\ left' = [left EXCEPT ![w] = {}]
    /\ group' = [group EXCEPT ![w] = {}]
    /\ write' = [write EXCEPT ![w] = {}]
    /\ toSync' = [toSync EXCEPT ![w] = {}]

PollFinish(w) ==
    /\ BetweenGroups(w) /\ left[w] = {}
    /\ markSynced(toSync[w])
    /\ EndPoll(w)
    /\ UNCHANGED <<gh, queueVars, reviews, due, deaths>>

\* The process dies, or markSynced fails: nothing rotates.  A stalled tick
\* may be handed to another worker.
PollDies(w) ==
    /\ w \in polling /\ deaths > 0
    /\ deaths' = deaths - 1
    /\ EndPoll(w)
    /\ due' = TRUE \/ UNCHANGED due
    /\ UNCHANGED <<gh, queueVars, reviews, row, older>>

-----------------------------------------------------------------------------
Init ==
    /\ gh = [p \in PRs |-> Opened]
    /\ events = {} /\ sends = MaxSends /\ jobs = {} /\ kept = {}
    /\ reviews = [p \in PRs |-> MaxReviews]
    /\ row = [p \in PRs |-> NoRow]
    /\ older = {}
    /\ due = FALSE
    /\ deaths = MaxDeaths
    /\ polling = {}
    /\ left = [w \in Workers |-> {}]
    /\ group = [w \in Workers |-> {}]
    /\ write = [w \in Workers |-> {}]
    /\ toSync = [w \in Workers |-> {}]

Installations == {InstallationOf[p] : p \in PRs}

GitHub == \E p \in PRs : Close(p) \/ Merge(p) \/ Reopen(p) \/ Vanish(p)

Queue == (\E d \in events : Deliver(d)) \/ (\E d \in kept : Forget(d)) \/ TickDue

Update == \E w \in Workers, j \in jobs : handleStatusUpdate(w, j)

PollStep(w) ==
    \/ PollStart(w) \/ PollListsNothing(w) \/ PollFinish(w)
    \/ \E i \in Installations : PollReader(w, i) \/ PollReaderFails(w, i)
    \/ \E p \in PRs : \/ PollRead(w, p) \/ PollReadFails(w, p)
                      \/ PollWrite(w, p) \/ PollWriteFails(w, p)

Next ==
    \/ GitHub \/ Queue \/ Update
    \/ \E p \in PRs : seedPrStatus(p)
    \/ \E w \in Workers : PollStep(w) \/ PollDies(w)

Spec == Init /\ [][Next]_vars

(* Fairness: BullMQ keeps scheduling ticks and a worker that has started a *)
(* poll runs it to the end unless it dies.  GitHub answers a Readable PR,  *)
(* and Postgres a listing or a write, if asked often enough; nothing is    *)
(* assumed of the other PRs, of deliveries or of review jobs.              *)
Fairness ==
    /\ WF_vars(TickDue)
    /\ \A w \in Workers : WF_vars(PollStep(w))
    /\ SF_vars(\E w \in Workers : PollStart(w))
    /\ \A p \in Readable :
         /\ SF_vars(\E w \in Workers : PollReader(w, InstallationOf[p]))
         /\ SF_vars(\E w \in Workers : PollRead(w, p))
    /\ \A p \in PRs : SF_vars(\E w \in Workers : PollWrite(w, p))

FairSpec == Spec /\ Fairness

-----------------------------------------------------------------------------
TypeOK ==
    /\ gh \in [PRs -> Lifecycle \cup {Gone}]
    /\ events \subseteq Delivery
    /\ sends \in Nat
    /\ jobs \subseteq Job
    /\ kept \subseteq events
    /\ reviews \in [PRs -> Nat]
    /\ row \in [PRs -> Status \cup {NoRow}]
    /\ older \subseteq PRs \X PRs
    /\ due \in BOOLEAN
    /\ deaths \in Nat
    /\ polling \subseteq Workers
    /\ left \in [Workers -> SUBSET PRs]
    /\ group \in [Workers -> SUBSET PRs]
    /\ write \in [Workers -> SUBSET Write]
    /\ toSync \in [Workers -> SUBSET PRs]

\* p really reached the end that status names: it is merged for good, or it
\* was closed at some time.
Truthful(p, status) ==
    /\ status = "merged" => gh[p] \in {Merged, Gone}
    /\ status = "closed" => \E e \in events : e.pr = p /\ e.life = Unmerged

\* A PR the dashboard files as done really reached that end on GitHub.  No
\* failed read, 404, retried or reordered job or dying poll makes one up
\* (derivePrStatus, handleStatusUpdate, runStatusPoll).
ArchivedIsTruthful == \A p \in PRs : Truthful(p, row[p])

\* Only the delivery of a reopen takes a done PR back to the active list: a
\* late synchronize seed or a poll must never do it (prStatusStore.ts,
\* seedOpen: "must never resurrect a PR we've already recorded").
OnlyReopenRevives ==
    [][\A p \in PRs :
          isArchivedStatus(row[p]) /\ row'[p] = "open" =>
              \E j \in jobs \ jobs' : j.delivery.pr = p /\ j.delivery.life = Opened
      ]_vars

\* The fallback's promise: a tracked PR that ended while no delivery arrived
\* is noticed, even if every other row of the table can never be read (the
\* "Liveness invariant" of runStatusPoll).
OfflineEndIsNoticed ==
    \A p \in Readable :
        row[p] = "open" /\ gh[p] \in {Unmerged, Merged}
            ~> row[p] # "open" \/ gh[p] \in {Opened, Gone}
=============================================================================
