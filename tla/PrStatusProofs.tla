-------------------------- MODULE PrStatusProofs --------------------------
(***************************************************************************)
(* Safety of the pr_status table for every set of PRs, every number of     *)
(* workers and every bound.  The table alone is not inductive: a label is  *)
(* truthful because the queued deliveries and the answers a poll holds in  *)
(* memory are, and because nothing GitHub does later makes them false.     *)
(***************************************************************************)
EXTENDS PrStatus, FiniteSetTheorems, TLAPS

\* What the writers in flight carry is truthful as well.
SourcesTruthful ==
    /\ IsFiniteSet(events)
    /\ \A j \in jobs : j.delivery \in events
    /\ \A e \in events : e.life = Merged => gh[e.pr] \in {Merged, Gone}
    /\ \A p \in PRs : gh[p] = Unmerged => \E e \in events : e.pr = p /\ e.life = Unmerged
    /\ \A w \in Workers : \A r \in write[w] :
          r.status # "open" /\ Truthful(r.pr, r.status)

IInv == TypeOK /\ SourcesTruthful /\ ArchivedIsTruthful

LEMMA LabelsDiffer ==
    /\ Opened # Unmerged /\ Opened # Merged /\ Unmerged # Merged
    /\ Gone # Opened /\ Gone # Unmerged /\ Gone # Merged
BY DEF Opened, Unmerged, Merged, Gone

LEMMA Derived ==
    ASSUME NEW life \in Lifecycle
    PROVE  /\ derivePrStatus(life) \in Status
           /\ derivePrStatus(life) = "open" <=> life = Opened
           /\ derivePrStatus(life) = "merged" <=> life = Merged
           /\ derivePrStatus(life) = "closed" <=> life = Unmerged
BY DEF Lifecycle, Status, derivePrStatus, Opened, Unmerged, Merged

LEMMA StampedType == ASSUME NEW S PROVE Stamped(S) \subseteq (Tracked \cup S) \X (Tracked \cup S)
BY DEF Stamped

LEMMA Labels ==
    /\ Status = {"open", "merged", "closed"}
    /\ \A status \in Status \cup {NoRow} : isArchivedStatus(status) <=> status \in {"merged", "closed"}
BY DEF Status, isArchivedStatus

\* Nothing GitHub does later makes a truthful label false.
LEMMA StaysTruthful ==
    ASSUME NEW p \in PRs, NEW status, Truthful(p, status),
           events \subseteq events',
           gh[p] \in {Merged, Gone} => gh'[p] \in {Merged, Gone}
    PROVE  Truthful(p, status)'
BY DEF Truthful

\* A step that leaves GitHub and its deliveries alone keeps every source
\* truthful if the jobs and the answers in memory are old ones.
LEMMA SourcesKept ==
    ASSUME SourcesTruthful, TypeOK, UNCHANGED <<gh, events>>,
           \A j \in jobs' : j.delivery \in events,
           \A w \in Workers : write'[w] \subseteq write[w]
    PROVE  SourcesTruthful'
<1>1. \A p \in PRs : \A status : Truthful(p, status) => Truthful(p, status)'
  BY StaysTruthful
<1>2. \A w \in Workers : \A r \in write'[w] : r.status # "open" /\ Truthful(r.pr, r.status)'
  BY <1>1 DEF SourcesTruthful, TypeOK, Write
<1> QED BY <1>2 DEF SourcesTruthful, Truthful

LEMMA TableKept ==
    ASSUME ArchivedIsTruthful, UNCHANGED <<gh, events, row>>
    PROVE  ArchivedIsTruthful'
BY DEF ArchivedIsTruthful, Truthful

\* recordStatus of a truthful label keeps the table truthful.
LEMMA TableWritten ==
    ASSUME TypeOK, ArchivedIsTruthful, UNCHANGED <<gh, events>>,
           NEW p \in PRs, NEW status \in Status, Truthful(p, status),
           recordStatus(p, status)
    PROVE  ArchivedIsTruthful' /\ row' \in [PRs -> Status \cup {NoRow}]
<1>1. row' = [row EXCEPT ![p] = status] /\ row \in [PRs -> Status \cup {NoRow}]
  BY DEF recordStatus, TypeOK
<1>2. ASSUME NEW q \in PRs PROVE Truthful(q, row[q])'
  <2>1. CASE q = p  BY <1>1, <2>1 DEF Truthful
  <2>2. CASE q # p  BY <1>1, <2>2 DEF ArchivedIsTruthful, Truthful
  <2> QED BY <2>1, <2>2
<1> QED BY <1>1, <1>2 DEF ArchivedIsTruthful

LEMMA StampedOrder ==
    ASSUME TypeOK, NEW S \in SUBSET PRs
    PROVE  Stamped(S) \subseteq PRs \X PRs
BY StampedType DEF Tracked

LEMMA InitInv == Init => IInv
<1> SUFFICES ASSUME Init PROVE IInv
  OBVIOUS
<1>1. IsFiniteSet(events)
  BY FS_EmptySet DEF Init
<1>2. TypeOK
  BY BoundsAssumption DEF Init, TypeOK, Lifecycle
<1>3. SourcesTruthful
  BY <1>1, LabelsDiffer DEF Init, SourcesTruthful
<1>4. ArchivedIsTruthful
  BY DEF Init, ArchivedIsTruthful, Truthful, NoRow
<1> QED BY <1>2, <1>3, <1>4 DEF IInv

\* GitHub's steps: a PR leaves "merged" only for good, and each new end of a
\* PR comes with its delivery.
LEMMA EmitInv ==
    ASSUME IInv, NEW p \in PRs, NEW life \in Lifecycle, Emit(p, life),
           gh[p] \in {Opened, Unmerged}
    PROVE  IInv'
<1> DEFINE d == [pr |-> p, life |-> life, id |-> Cardinality(events) + 1]
<1>1. IsFiniteSet(events) /\ Cardinality(events) \in Nat
  BY FS_CardinalityType DEF IInv, SourcesTruthful
<1>2. d \in Delivery /\ events' = events \cup {d} /\ IsFiniteSet(events')
  <2>1. d \in Delivery /\ events' = events \cup {d}
    BY <1>1 DEF Emit, Delivery
  <2>2. IsFiniteSet(events \cup {d})
    BY <1>1, FS_AddElement
  <2> QED BY <2>1, <2>2
<1>3. /\ gh' = [gh EXCEPT ![p] = life] /\ gh \in [PRs -> Lifecycle \cup {Gone}]
      /\ UNCHANGED <<sends, jobs, kept, reviews, row, older, due, pollVars>>
  BY DEF Emit, IInv, TypeOK
<1>4. TypeOK'
  <2>1. events' \subseteq Delivery /\ kept' \subseteq events'
    BY <1>2, <1>3 DEF IInv, TypeOK
  <2>2. gh' \in [PRs -> Lifecycle \cup {Gone}]
    BY <1>3
  <2> QED BY <1>3, <2>1, <2>2 DEF IInv, TypeOK, pollVars
<1>5. \A q \in PRs : gh[q] \in {Merged, Gone} => gh'[q] \in {Merged, Gone}
  BY <1>3, LabelsDiffer
<1>6. \A q \in PRs : \A status : Truthful(q, status) => Truthful(q, status)'
  BY <1>2, <1>5, StaysTruthful
<1>7. SourcesTruthful'
  <2>1. \A j \in jobs' : j.delivery \in events'
    BY <1>2, <1>3 DEF IInv, SourcesTruthful
  <2>2. \A e \in events' : e.life = Merged => gh'[e.pr] \in {Merged, Gone}
    <3>1. \A e \in events : e.life = Merged => gh'[e.pr] \in {Merged, Gone}
      BY <1>5 DEF IInv, SourcesTruthful, TypeOK, Delivery
    <3>2. d.life = Merged => gh'[d.pr] \in {Merged, Gone}
      BY <1>3
    <3> QED BY <1>2, <3>1, <3>2
  <2>3. ASSUME NEW q \in PRs, gh'[q] = Unmerged
        PROVE  \E e \in events' : e.pr = q /\ e.life = Unmerged
    <3>1. CASE q = p
      BY <1>2, <1>3, <2>3, <3>1
    <3>2. CASE q # p
      BY <1>2, <1>3, <2>3, <3>2 DEF IInv, SourcesTruthful
    <3> QED BY <3>1, <3>2
  <2>4. \A w \in Workers : \A r \in write'[w] : r.status # "open" /\ Truthful(r.pr, r.status)'
    <3>1. \A w \in Workers : \A r \in write[w] : r.pr \in PRs /\ r.status # "open" /\ Truthful(r.pr, r.status)
      BY DEF IInv, SourcesTruthful, TypeOK, Write
    <3> QED BY <1>3, <1>6, <3>1 DEF pollVars
  <2> QED BY <1>2, <2>1, <2>2, <2>3, <2>4 DEF SourcesTruthful, Truthful
<1>8. ArchivedIsTruthful'
  <2>1. \A q \in PRs : Truthful(q, row[q])'
    BY <1>3, <1>6 DEF IInv, ArchivedIsTruthful, Truthful
  <2> QED BY <2>1 DEF ArchivedIsTruthful
<1> QED BY <1>4, <1>7, <1>8 DEF IInv

LEMMA GitHubInv == ASSUME IInv, GitHub PROVE IInv'
<1> PICK p \in PRs : Close(p) \/ Merge(p) \/ Reopen(p) \/ Vanish(p)
  BY DEF GitHub
<1>1. CASE Close(p)  BY <1>1, EmitInv DEF Close, Lifecycle
<1>2. CASE Merge(p)  BY <1>2, EmitInv DEF Merge, Lifecycle
<1>3. CASE Reopen(p) BY <1>3, EmitInv DEF Reopen, Lifecycle
<1>4. CASE Vanish(p)
  <2>1. /\ gh' = [gh EXCEPT ![p] = Gone] /\ gh \in [PRs -> Lifecycle \cup {Gone}]
        /\ UNCHANGED <<events, sends, jobs, kept, reviews, row, older, due, pollVars>>
    BY <1>4 DEF Vanish, queueVars, IInv, TypeOK
  <2>2. TypeOK'
    BY <2>1 DEF IInv, TypeOK, pollVars
  <2>3. \A q \in PRs : \A status : Truthful(q, status) => Truthful(q, status)'
    BY <2>1 DEF Truthful
  <2>4. \A w \in Workers : \A r \in write'[w] : r.status # "open" /\ Truthful(r.pr, r.status)'
    BY <2>1, <2>3 DEF pollVars, IInv, SourcesTruthful, TypeOK, Write
  <2>5. \A e \in events' : e.life = Merged => gh'[e.pr] \in {Merged, Gone}
    BY <2>1 DEF IInv, SourcesTruthful, TypeOK, Delivery
  <2>6. \A q \in PRs : gh'[q] = Unmerged => \E e \in events' : e.pr = q /\ e.life = Unmerged
    BY <2>1, LabelsDiffer DEF IInv, SourcesTruthful
  <2>7. SourcesTruthful'
    BY <2>1, <2>4, <2>5, <2>6 DEF IInv, SourcesTruthful, Truthful
  <2>8. ArchivedIsTruthful'
    BY <2>1, <2>3 DEF IInv, ArchivedIsTruthful, Truthful
  <2> QED BY <2>2, <2>7, <2>8 DEF IInv
<1> QED BY <1>1, <1>2, <1>3, <1>4

LEMMA QueueInv == ASSUME IInv, Queue PROVE IInv'
<1>0. TypeOK /\ SourcesTruthful /\ ArchivedIsTruthful
  BY DEF IInv
<1>1. ASSUME NEW d \in events, Deliver(d) PROVE IInv'
  <2>1. jobs' \subseteq jobs \cup {[delivery |-> d, tries |-> 0]}
    BY <1>1 DEF Deliver
  <2>2. jobs' \subseteq Job /\ \A j \in jobs' : j.delivery \in events
    BY <1>0, <2>1, BoundsAssumption DEF TypeOK, SourcesTruthful, Job
  <2>3. sends' \in Nat /\ UNCHANGED <<gh, events, kept, reviews, row, older, due, pollVars>>
    BY <1>0, <1>1 DEF Deliver, TypeOK
  <2>4. TypeOK'
    BY <1>0, <2>2, <2>3 DEF TypeOK, pollVars
  <2>5. SourcesTruthful'
    BY <1>0, <2>2, <2>3, SourcesKept DEF pollVars
  <2> QED BY <1>0, <2>3, <2>4, <2>5, TableKept DEF IInv
<1>2. ASSUME NEW d \in kept, Forget(d) PROVE IInv'
  <2>1. TypeOK'
    BY <1>0, <1>2 DEF TypeOK, Forget, pollVars
  <2>2. SourcesTruthful'
    BY <1>0, <1>2, SourcesKept DEF Forget, pollVars, SourcesTruthful
  <2> QED BY <1>0, <1>2, <2>1, <2>2, TableKept DEF IInv, Forget
<1>3. CASE TickDue
  <2>1. TypeOK'
    BY <1>0, <1>3 DEF TypeOK, TickDue, pollVars, queueVars
  <2>2. SourcesTruthful'
    BY <1>0, <1>3, SourcesKept DEF TickDue, pollVars, queueVars, SourcesTruthful
  <2> QED BY <1>0, <1>3, <2>1, <2>2, TableKept DEF IInv, TickDue, queueVars
<1> QED BY <1>1, <1>2, <1>3 DEF Queue

\* A finished or retried job leaves only jobs of old deliveries.
LEMMA RetryJobs ==
    ASSUME TypeOK, SourcesTruthful, NEW j \in jobs,
           \/ Retry(j)
           \/ jobs' = jobs \ {j} /\ kept' = kept \cup {j.delivery}
    PROVE  /\ jobs' \subseteq Job /\ kept' \subseteq events
           /\ \A k \in jobs' : k.delivery \in events
           /\ j \in jobs \ jobs'
<1>1. j \in Job /\ j.delivery \in events /\ j.tries \in Nat
  BY BoundsAssumption DEF TypeOK, SourcesTruthful, Job
<1>2. CASE Retry(j) /\ j.tries + 1 < Attempts
  <2> DEFINE k == [j EXCEPT !.tries = @ + 1]
  <2>1. jobs' = (jobs \ {j}) \cup {k} /\ kept' = kept
    BY <1>2 DEF Retry
  <2>2. k \in Job /\ k.delivery = j.delivery /\ k # j
    BY <1>1, <1>2, BoundsAssumption DEF Job
  <2> QED BY <1>1, <2>1, <2>2 DEF TypeOK, SourcesTruthful
<1>3. CASE jobs' = jobs \ {j} /\ kept' = kept \cup {j.delivery}
  BY <1>1, <1>3 DEF TypeOK, SourcesTruthful
<1> QED BY <1>2, <1>3 DEF Retry

LEMMA UpdateInv ==
    ASSUME IInv, NEW w \in Workers, NEW j \in jobs, handleStatusUpdate(w, j)
    PROVE  IInv'
<1> DEFINE p == j.delivery.pr
           status == derivePrStatus(j.delivery.life)
<1>0. TypeOK /\ SourcesTruthful /\ ArchivedIsTruthful
  BY DEF IInv
<1>1. j.delivery \in events /\ p \in PRs /\ j.delivery.life \in Lifecycle
  BY <1>0 DEF TypeOK, SourcesTruthful, Delivery
<1>2. UNCHANGED <<gh, events, sends, reviews, due, pollVars>>
  BY DEF handleStatusUpdate
<1>3. /\ jobs' \subseteq Job /\ kept' \subseteq events
      /\ \A k \in jobs' : k.delivery \in events
  BY <1>0, RetryJobs DEF handleStatusUpdate
<1>4. Truthful(p, status) /\ status \in Status
  BY <1>0, <1>1, Derived DEF SourcesTruthful, Truthful
<1>5. recordStatus(p, status) \/ UNCHANGED <<row, older>>
  BY DEF handleStatusUpdate, Applied
<1>6. /\ ArchivedIsTruthful' /\ row' \in [PRs -> Status \cup {NoRow}]
      /\ older' \subseteq PRs \X PRs
  <2>1. CASE recordStatus(p, status)
    <3>1. older' \subseteq PRs \X PRs
      BY <1>0, <1>1, <2>1, StampedOrder DEF recordStatus
    <3> QED BY <1>0, <1>1, <1>2, <1>4, <2>1, <3>1, TableWritten
  <2>2. CASE UNCHANGED <<row, older>>
    BY <1>0, <1>2, <2>2, TableKept DEF TypeOK
  <2> QED BY <1>5, <2>1, <2>2
<1>7. SourcesTruthful'
  BY <1>0, <1>2, <1>3, SourcesKept DEF pollVars
<1>8. TypeOK'
  BY <1>0, <1>2, <1>3, <1>6 DEF TypeOK, pollVars
<1> QED BY <1>6, <1>7, <1>8 DEF IInv

LEMMA SeedInv == ASSUME IInv, NEW p \in PRs, seedPrStatus(p) PROVE IInv'
<1>0. TypeOK /\ SourcesTruthful /\ ArchivedIsTruthful
  BY DEF IInv
<1>1. UNCHANGED <<gh, events, sends, jobs, kept, due, pollVars>> /\ reviews' \in [PRs -> Nat]
  BY <1>0 DEF seedPrStatus, queueVars, TypeOK
<1>2. recordStatus(p, "open") \/ UNCHANGED <<row, older>>
  BY DEF seedPrStatus, seedOpen
<1>3. /\ ArchivedIsTruthful' /\ row' \in [PRs -> Status \cup {NoRow}]
      /\ older' \subseteq PRs \X PRs
  <2>1. CASE recordStatus(p, "open")
    <3>1. older' \subseteq PRs \X PRs
      BY <1>0, <2>1, StampedOrder DEF recordStatus
    <3>2. Truthful(p, "open") /\ "open" \in Status
      BY DEF Truthful, Status
    <3> QED BY <1>0, <1>1, <2>1, <3>1, <3>2, TableWritten
  <2>2. CASE UNCHANGED <<row, older>>
    BY <1>0, <1>1, <2>2, TableKept DEF TypeOK
  <2> QED BY <1>2, <2>1, <2>2
<1>4. SourcesTruthful'
  BY <1>0, <1>1, SourcesKept DEF pollVars, SourcesTruthful
<1>5. TypeOK'
  BY <1>0, <1>1, <1>3 DEF TypeOK, pollVars
<1> QED BY <1>3, <1>4, <1>5 DEF IInv

\* Steps of a poll that touch neither the table nor GitHub and hold no new
\* answer only move PRs between the poll's own sets.
LEMMA PollMoveInv ==
    ASSUME IInv, UNCHANGED <<gh, queueVars, reviews, row>>,
           older' \subseteq PRs \X PRs, due' \in BOOLEAN, deaths' \in Nat,
           polling' \subseteq Workers,
           left' \in [Workers -> SUBSET PRs], group' \in [Workers -> SUBSET PRs],
           toSync' \in [Workers -> SUBSET PRs], write' \in [Workers -> SUBSET Write],
           \A w \in Workers : write'[w] \subseteq write[w]
    PROVE  IInv'
<1>0. TypeOK /\ SourcesTruthful /\ ArchivedIsTruthful
  BY DEF IInv
<1>1. TypeOK'
  BY <1>0 DEF TypeOK, queueVars
<1>2. SourcesTruthful'
  BY <1>0, SourcesKept DEF queueVars, SourcesTruthful
<1> QED BY <1>0, <1>1, <1>2, TableKept DEF IInv, queueVars

LEMMA PollInv ==
    ASSUME IInv, NEW w \in Workers, PollStep(w) \/ PollDies(w)
    PROVE  IInv'
<1>0. TypeOK /\ SourcesTruthful /\ ArchivedIsTruthful
  BY DEF IInv
<1>t. /\ older \subseteq PRs \X PRs /\ due \in BOOLEAN /\ deaths \in Nat
      /\ polling \subseteq Workers
      /\ left \in [Workers -> SUBSET PRs] /\ group \in [Workers -> SUBSET PRs]
      /\ toSync \in [Workers -> SUBSET PRs] /\ write \in [Workers -> SUBSET Write]
  BY <1>0 DEF TypeOK
<1>1. CASE PollStart(w)
  BY <1>1, <1>t, PollMoveInv DEF PollStart, TakeTick, listOpenForPoll, OpenRows
<1>2. CASE PollListsNothing(w)
  BY <1>2, <1>t, PollMoveInv DEF PollListsNothing, TakeTick
<1>3. CASE PollFinish(w)
  <2>1. older' \subseteq PRs \X PRs
    BY <1>0, <1>3, <1>t, StampedOrder DEF PollFinish, markSynced
  <2> QED BY <1>3, <1>t, <2>1, PollMoveInv DEF PollFinish, EndPoll, markSynced
<1>4. ASSUME NEW i \in Installations, PollReader(w, i) \/ PollReaderFails(w, i)
      PROVE  IInv'
  BY <1>4, <1>t, PollMoveInv DEF PollReader, PollReaderFails, Rows
<1>5. ASSUME NEW p \in PRs, PollReadFails(w, p) PROVE IInv'
  BY <1>5, <1>t, PollMoveInv DEF PollReadFails, Rotate
<1>6. ASSUME NEW p \in PRs, PollWriteFails(w, p) PROVE IInv'
  BY <1>6, <1>t, PollMoveInv DEF PollWriteFails
<1>7. CASE PollDies(w)
  <2>1. deaths' \in Nat
    BY <1>7, <1>t DEF PollDies
  <2>2. due' \in BOOLEAN
    BY <1>7, <1>t DEF PollDies
  <2> QED BY <1>7, <1>t, <2>1, <2>2, PollMoveInv DEF PollDies, EndPoll
<1>8. ASSUME NEW p \in PRs, PollRead(w, p) PROVE IInv'
  <2> DEFINE status == derivePrStatus(gh[p])
  <2>1. /\ UNCHANGED <<gh, queueVars, reviews, row, older, due, deaths, polling, left>>
        /\ group' = [group EXCEPT ![w] = @ \ {p}]
    BY <1>8 DEF PollRead
  <2>2. CASE gh[p] = Gone \/ status = "open"
    BY <1>8, <1>t, <2>1, <2>2, PollMoveInv DEF PollRead, Rotate
  <2>3. CASE ~(gh[p] = Gone \/ status = "open")
    <3>1. gh[p] \in Lifecycle
      BY <1>0, <2>3 DEF TypeOK
    <3>2. status \in Status /\ status # "open" /\ Truthful(p, status)
      BY <1>0, <2>3, <3>1, Derived DEF SourcesTruthful, Truthful
    <3>3. write' = [write EXCEPT ![w] = {[pr |-> p, status |-> status]}] /\ toSync' = toSync
      BY <1>8, <2>3 DEF PollRead
    <3>4. TypeOK'
      BY <1>0, <2>1, <3>2, <3>3 DEF TypeOK, Write, queueVars
    <3>5. ASSUME NEW v \in Workers, NEW r \in write'[v]
          PROVE  r.status # "open" /\ Truthful(r.pr, r.status)'
      <4>1. CASE v = w
        BY <1>t, <2>1, <3>2, <3>3, <4>1 DEF Truthful, queueVars
      <4>2. CASE v # w
        BY <1>0, <1>t, <2>1, <3>3, <4>2 DEF SourcesTruthful, Truthful, queueVars
      <4> QED BY <4>1, <4>2
    <3>6. SourcesTruthful'
      BY <1>0, <2>1, <3>5 DEF SourcesTruthful, Truthful, queueVars
    <3> QED BY <1>0, <2>1, <3>4, <3>6, TableKept DEF IInv, queueVars
  <2> QED BY <2>2, <2>3
<1>9. ASSUME NEW p \in PRs, PollWrite(w, p) PROVE IInv'
  <2>1. PICK r \in write[w] : r.pr = p /\ recordStatus(p, r.status)
    BY <1>9 DEF PollWrite
  <2>2. r.status \in Status /\ Truthful(p, r.status)
    BY <1>0, <1>t, <2>1 DEF SourcesTruthful, Write
  <2>3. /\ UNCHANGED <<gh, queueVars, reviews, due, deaths, polling, left, group, toSync>>
        /\ write' = [write EXCEPT ![w] = {}]
    BY <1>9 DEF PollWrite
  <2>4. older' \subseteq PRs \X PRs
    BY <1>0, <2>1, StampedOrder DEF recordStatus
  <2>5. ArchivedIsTruthful' /\ row' \in [PRs -> Status \cup {NoRow}]
    BY <1>0, <2>1, <2>2, <2>3, TableWritten DEF queueVars
  <2>6. SourcesTruthful'
    BY <1>0, <1>t, <2>3, SourcesKept DEF queueVars, SourcesTruthful
  <2>7. TypeOK'
    BY <1>0, <2>3, <2>4, <2>5 DEF TypeOK, queueVars
  <2> QED BY <2>5, <2>6, <2>7 DEF IInv
<1> QED BY <1>1, <1>2, <1>3, <1>4, <1>5, <1>6, <1>7, <1>8, <1>9 DEF PollStep

LEMMA NextInv == IInv /\ [Next]_vars => IInv'
<1> SUFFICES ASSUME IInv, [Next]_vars PROVE IInv'
  OBVIOUS
<1>1. CASE GitHub  BY <1>1, GitHubInv
<1>2. CASE Queue   BY <1>2, QueueInv
<1>3. CASE Update  BY <1>3, UpdateInv DEF Update
<1>4. ASSUME NEW p \in PRs, seedPrStatus(p) PROVE IInv'
  BY <1>4, SeedInv
<1>5. ASSUME NEW w \in Workers, PollStep(w) \/ PollDies(w) PROVE IInv'
  BY <1>5, PollInv
<1>6. CASE UNCHANGED vars
  BY <1>6 DEF vars, pollVars, IInv, TypeOK, SourcesTruthful, ArchivedIsTruthful, Truthful
<1> QED BY <1>1, <1>2, <1>3, <1>4, <1>5, <1>6 DEF Next

\* The invariant that is inductive: labels, and everything in flight that may
\* become one, are truthful.
THEOREM Invariance == Spec => []IInv
BY InitInv, NextInv, PTL DEF Spec

\* Every reachable state is well typed.
THEOREM TypeCorrect == Spec => []TypeOK
<1>1. IInv => TypeOK
  BY DEF IInv
<1> QED BY <1>1, Invariance, PTL

\* Whatever is lost, reordered, retried or interrupted, a PR filed as merged
\* is merged on GitHub and one filed as closed was closed there.
THEOREM TruthfulArchive == Spec => []ArchivedIsTruthful
<1>1. IInv => ArchivedIsTruthful
  BY DEF IInv
<1> QED BY <1>1, Invariance, PTL

\* The step an archived row may take back to open.
RevivedByReopen ==
    \A p \in PRs :
        isArchivedStatus(row[p]) /\ row'[p] = "open" =>
            \E j \in jobs \ jobs' : j.delivery.pr = p /\ j.delivery.life = Opened

\* Neither a late seed nor a poll, however its read and its write are
\* interleaved with the other writers, brings a done PR back: only the
\* delivery of a reopen does.
THEOREM NoResurrection == Spec => OnlyReopenRevives
<1>1. IInv /\ [Next]_vars => [RevivedByReopen]_vars
  <2> SUFFICES ASSUME IInv, Next, NEW p \in PRs,
                      isArchivedStatus(row[p]), row'[p] = "open"
               PROVE  \E j \in jobs \ jobs' : j.delivery.pr = p /\ j.delivery.life = Opened
    BY DEF RevivedByReopen
  <2>0. /\ TypeOK /\ SourcesTruthful
        /\ row[p] # "open" /\ row \in [PRs -> Status \cup {NoRow}]
    BY DEF IInv, TypeOK, isArchivedStatus
  <2>1. CASE GitHub \/ Queue
    BY <2>0, <2>1 DEF GitHub, Queue, Close, Merge, Reopen, Emit, Vanish, Deliver, Forget, TickDue
  <2>2. ASSUME NEW w \in Workers, NEW j \in jobs, handleStatusUpdate(w, j)
        PROVE  j \in jobs \ jobs' /\ j.delivery.pr = p /\ j.delivery.life = Opened
    <3>1. j \in jobs \ jobs'
      BY <2>0, <2>2, RetryJobs DEF handleStatusUpdate
    <3>2. j.delivery.pr \in PRs /\ j.delivery.life \in Lifecycle
      BY <2>0 DEF TypeOK, Job, Delivery
    <3>3. row' = [row EXCEPT ![j.delivery.pr] = derivePrStatus(j.delivery.life)]
      BY <2>0, <2>2 DEF handleStatusUpdate, Applied, recordStatus
    <3>4. p = j.delivery.pr /\ derivePrStatus(j.delivery.life) = "open"
      BY <2>0, <3>2, <3>3
    <3> QED BY <3>1, <3>2, <3>4, Derived
  <2>3. ASSUME NEW q \in PRs, seedPrStatus(q) PROVE FALSE
    <3>1. row' = row \/ (~isArchivedStatus(row[q]) /\ row' = [row EXCEPT ![q] = "open"])
      BY <2>3 DEF seedPrStatus, seedOpen, recordStatus
    <3> QED BY <2>0, <3>1
  <2>4. ASSUME NEW w \in Workers, NEW q \in PRs, PollWrite(w, q) PROVE FALSE
    <3>1. PICK r \in write[w] : r.pr = q /\ recordStatus(q, r.status)
      BY <2>4 DEF PollWrite
    <3>2. r.status # "open"
      BY <2>0, <3>1 DEF SourcesTruthful
    <3> QED BY <2>0, <3>1, <3>2 DEF recordStatus
  <2>5. ASSUME NEW w \in Workers, PollStep(w) \/ PollDies(w),
               ~ \E q \in PRs : PollWrite(w, q)
        PROVE  FALSE
    BY <2>0, <2>5 DEF PollStep, PollDies, PollStart, PollListsNothing, TakeTick, PollFinish,
       markSynced, PollReader, PollReaderFails, PollRead, PollReadFails, PollWriteFails
  <2> QED BY <2>1, <2>2, <2>3, <2>4, <2>5 DEF Next, Update
<1>2. [][RevivedByReopen]_vars => OnlyReopenRevives
  BY PTL DEF OnlyReopenRevives, RevivedByReopen
<1> QED BY <1>1, <1>2, Invariance, PTL DEF Spec
===========================================================================
