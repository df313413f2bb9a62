------------------------ MODULE ReviewPipelineProofs ------------------------
(***************************************************************************)
(* Safety of the review pipeline.  A deck row never holds code older than  *)
(* its head, for any number of workers and commands; one comment and one   *)
(* run's findings, and the promise of PublishedReview, where runs do not   *)
(* overlap.                                                                *)
(***************************************************************************)
EXTENDS ReviewPipeline, SequenceTheorems, WellFoundedInduction, TLAPS

\* t is as well informed as s.
Same(t, s) == t.head = s.head /\ t.diff = s.diff

Unfetched == {"idle", "head", "diff"}

\* A run knows pushes that happened, and it resolved its head before it
\* fetched its diff.
RunKnows(s) ==
    /\ s.head <= pushed /\ s.diff <= pushed
    /\ s.pc \notin Unfetched => s.diff # 0 /\ s.head <= s.diff

IInv ==
    /\ TypeOK
    /\ pushed + left["push"] = Limit["push"] + 1
    /\ \A r \in Runners : RunKnows(run[r])
    /\ DeckIsNotStale

LEMMA Spending ==
    ASSUME TypeOK, NEW k \in Kinds, Spend(k)
    PROVE  /\ left' \in [Kinds -> Nat]
           /\ left[k] > 0 /\ left'[k] = left[k] - 1
           /\ \A j \in Kinds \ {k} : left'[j] = left[j]
BY DEF TypeOK, Spend

LEMMA Becoming ==
    ASSUME TypeOK, NEW r \in Runners, NEW s \in RunState, Become(r, s)
    PROVE  /\ run' \in [Runners -> RunState]
           /\ run'[r] = s
           /\ \A q \in Runners \ {r} : run'[q] = run[q]
BY DEF TypeOK, Become

LEMMA IdleState == Idle \in RunState /\ NoDeck \notin Deck
BY ScanAssumption DEF Idle, RunState, Stages, Pushes, Deck, NoDeck

LEMMA Requeueing ==
    ASSUME TypeOK, NEW r, NEW t \in Nat, Requeue(r, t)
    PROVE  queued' \in [0 .. Attempts - 1 -> Nat]
BY DEF TypeOK, Requeue

LEMMA Posting ==
    ASSUME TypeOK, NEW shows \in {0} \cup Pushes, Post(shows)
    PROVE  /\ comments' \in Seq(Comment) /\ nextId' \in Nat
           /\ Len(comments') = Len(comments) + 1
           /\ nextId' = nextId + 1
           /\ comments'[Len(comments) + 1] = [id |-> nextId, shows |-> shows]
           /\ \A i \in DOMAIN comments : comments'[i] = comments[i]
<1>1. [id |-> nextId, shows |-> shows] \in Comment
  BY DEF TypeOK, Comment
<1>2. QED
  BY <1>1, AppendProperties DEF TypeOK, Post

LEMMA Editing ==
    ASSUME TypeOK, NEW i \in DOMAIN comments, NEW shows \in {0} \cup Pushes,
           comments' = [comments EXCEPT ![i].shows = shows]
    PROVE  /\ comments' \in Seq(Comment) /\ Len(comments') = Len(comments)
           /\ \A j \in DOMAIN comments : comments'[j].id = comments[j].id
           /\ comments'[i].shows = shows
           /\ \A j \in DOMAIN comments \ {i} : comments'[j] = comments[j]
<1>1. comments \in Seq(Comment) /\ comments[i] \in Comment
  BY DEF TypeOK
<1>2. [comments[i] EXCEPT !.shows = shows] \in Comment
  BY <1>1 DEF Comment
<1>3. comments' = [comments EXCEPT ![i] = [comments[i] EXCEPT !.shows = shows]]
  OBVIOUS
<1>4. QED
  BY <1>1, <1>2, <1>3, ExceptSeq DEF Comment

\* A marked comment on the page is found, and no earlier one is there.
LEMMA First ==
    ASSUME TypeOK, NEW k \in 1 .. MaxPages, Page(k) \cap Marked # {}
    PROVE  /\ FirstMarked(Page(k)) \in Page(k) \cap Marked
           /\ \A j \in Page(k) \cap Marked : FirstMarked(Page(k)) <= j
<1> DEFINE S == Page(k) \cap Marked
<1>1. S \subseteq Nat
  BY DEF TypeOK, Marked
<1>2. PICK n \in S : \A m \in S : ~ (<<m, n>> \in OpToRel(<, Nat))
  BY <1>1, WFMin, NatLessThanWellFounded, Zenon
<1>3. ASSUME NEW m \in S PROVE n <= m
  <2>0. n \in Nat /\ m \in Nat
    BY <1>1
  <2>1. ~ (<<m, n>> \in OpToRel(<, Nat))
    BY <1>2, Zenon
  <2>2. <<m, n>> \in Nat \X Nat /\ <<m, n>>[1] = m /\ <<m, n>>[2] = n
    BY <2>0
  <2>3. ~ (m < n)
    BY <2>1, <2>2, Zenon DEF OpToRel
  <2>4. QED
    BY <2>0, <2>3
<1>4. QED
  BY <1>3 DEF FirstMarked

LEMMA InitInv == Init => IInv
<1> SUFFICES ASSUME Init PROVE IInv
  OBVIOUS
<1>1. Limit["push"] \in Nat
  BY LimitAssumption DEF Kinds
<1>2. TypeOK
  BY <1>1, ScanAssumption, LimitAssumption, IdleState, EmptySeq DEF Init, TypeOK, Pushes
<1>3. \A r \in Runners : RunKnows(run[r])
  BY DEF Init, RunKnows, Unfetched, Idle
<1>4. QED
  BY <1>1, <1>2, <1>3 DEF Init, IInv, DeckIsNotStale

LEMMA Numbers ==
    ASSUME TypeOK
    PROVE  /\ Limit["push"] \in Nat /\ left["push"] \in Nat /\ pushed \in Nat \ {0}
           /\ Pushes \subseteq Nat \ {0}
           /\ \A r \in Runners : run[r] \in RunState /\ run[r].head \in Nat /\ run[r].diff \in Nat
<1>1. Limit["push"] \in Nat /\ left["push"] \in Nat
  BY LimitAssumption DEF TypeOK, Kinds
<1>2. Pushes \subseteq Nat \ {0} /\ pushed \in Nat \ {0}
  BY <1>1 DEF TypeOK, Pushes
<1>3. \A r \in Runners : run[r] \in RunState
  BY DEF TypeOK
<1>4. \A r \in Runners : run[r].head \in {0} \cup Pushes /\ run[r].diff \in {0} \cup Pushes
  BY <1>3 DEF RunState
<1>5. \A h \in {0} \cup Pushes : h \in Nat
  BY <1>2
<1>6. \A r \in Runners : run[r].head \in Nat /\ run[r].diff \in Nat
  BY <1>4, <1>5
<1>7. QED
  BY <1>1, <1>2, <1>3, <1>6

\* A run that fetched its diff keeps what it knows.
LEMMA Knowing ==
    ASSUME NEW s, NEW t, RunKnows(s), Same(t, s), s.pc \notin Unfetched
    PROVE  RunKnows(t)
BY DEF RunKnows, Same

LEMMA RunsKnow ==
    ASSUME IInv, NEW r \in Runners, NEW s \in RunState, RunKnows(s), Become(r, s),
           pushed' = pushed
    PROVE  run' \in [Runners -> RunState] /\ \A q \in Runners : RunKnows(run[q])'
<1>1. run' \in [Runners -> RunState] /\ run'[r] = s /\ \A q \in Runners \ {r} : run'[q] = run[q]
  BY Becoming DEF IInv
<1>2. QED
  BY <1>1 DEF IInv, RunKnows

\* What the steps that leave pushes and decks alone preserve.
LEMMA Framed ==
    ASSUME IInv, UNCHANGED <<pushed, decks>>,
           run' \in [Runners -> RunState], \A q \in Runners : RunKnows(run[q])',
           left' \in [Kinds -> Nat], left'["push"] = left["push"],
           queued' \in [0 .. Attempts - 1 -> Nat], started' \in Nat,
           comments' \in Seq(Comment), nextId' \in Nat, findings' \subseteq Nat
    PROVE  IInv'
BY DEF IInv, TypeOK, DeckIsNotStale

LEMMA StepInv == IInv /\ [Next]_vars => IInv'
<1> SUFFICES ASSUME IInv, [Next]_vars PROVE IInv'
  OBVIOUS
<1> USE LimitAssumption
<1>0. CASE UNCHANGED vars
  BY <1>0 DEF vars, IInv, TypeOK, RunKnows, DeckIsNotStale
<1>1. CASE Push
  <2>1. left' \in [Kinds -> Nat] /\ left["push"] > 0 /\ left'["push"] = left["push"] - 1
    BY <1>1, Spending DEF Push, IInv, Kinds
  <2>2. pushed' \in Pushes /\ pushed' + left'["push"] = Limit["push"] + 1 /\ pushed' > pushed
    BY <1>1, <2>1, Numbers DEF Push, IInv, Pushes
  <2>3. TypeOK'
    BY <1>1, <2>1, <2>2 DEF Push, IInv, TypeOK, stores
  <2>4. \A r \in Runners : RunKnows(run[r])'
    BY <1>1, <2>2, Numbers DEF Push, IInv, RunKnows
  <2>5. QED
    BY <1>1, <2>2, <2>3, <2>4 DEF Push, IInv, stores, DeckIsNotStale
<1>2. CASE HumanPosts
  <2>1. left' \in [Kinds -> Nat] /\ left'["push"] = left["push"]
    BY <1>2, Spending DEF HumanPosts, IInv, Kinds
  <2>2. comments' \in Seq(Comment) /\ nextId' \in Nat
    BY <1>2, Posting DEF HumanPosts, IInv
  <2>3. QED
    BY <1>2, <2>1, <2>2 DEF HumanPosts, IInv, TypeOK, stores, RunKnows, DeckIsNotStale
<1>3. CASE \E i \in DOMAIN comments : HumanDeletes(i)
  <2> PICK i \in DOMAIN comments : HumanDeletes(i)
    BY <1>3
  <2>1. left' \in [Kinds -> Nat] /\ left'["push"] = left["push"]
    BY Spending DEF HumanDeletes, IInv, Kinds
  <2>2. comments' \in Seq(Comment)
    <3>1. i \in 1 .. Len(comments) /\ comments \in Seq(Comment)
      BY DEF IInv, TypeOK
    <3>2. SubSeq(comments, 1, i - 1) \in Seq(Comment)
      BY <3>1, SubSeqProperties
    <3>3. SubSeq(comments, i + 1, Len(comments)) \in Seq(Comment)
      BY <3>1, SubSeqProperties
    <3>4. QED
      BY <3>2, <3>3, ConcatProperties DEF HumanDeletes, RemoveAt
  <2>3. QED
    BY <2>1, <2>2 DEF HumanDeletes, IInv, TypeOK, stores, RunKnows, DeckIsNotStale
<1>4. CASE enqueue
  <2>1. left' \in [Kinds -> Nat] /\ left'["push"] = left["push"]
    BY <1>4, Spending DEF enqueue, IInv, Kinds
  <2>2. queued' \in [0 .. Attempts - 1 -> Nat]
    BY <1>4, ScanAssumption DEF enqueue, IInv, TypeOK
  <2>3. QED
    BY <1>4, <2>1, <2>2 DEF enqueue, IInv, TypeOK, github, stores, RunKnows, DeckIsNotStale
<1>5. ASSUME NEW r \in Runners, NEW t \in 0 .. Attempts - 1, Start(r, t),
             UNCHANGED <<pushed, comments, nextId, findings, decks>>,
             left' \in [Kinds -> Nat], left'["push"] = left["push"],
             queued' \in [0 .. Attempts - 1 -> Nat]
      PROVE  IInv'
  <2> DEFINE s == [Idle EXCEPT !.pc = "head", !.no = started + 1, !.tries = t]
  <2>1. s \in RunState /\ RunKnows(s)
    <3>1. started + 1 \in Nat /\ "head" \in Stages
      BY DEF IInv, TypeOK, Stages
    <3>2. s \in RunState /\ s.pc = "head" /\ Same(s, Idle)
      BY <3>1, IdleState DEF RunState, Same
    <3>3. QED
      BY <3>2, Numbers DEF IInv, RunKnows, Unfetched, Idle, Same
  <2>2. run' \in [Runners -> RunState] /\ \A q \in Runners : RunKnows(run[q])'
    BY <1>5, <2>1, RunsKnow DEF Start
  <2>3. started' \in Nat
    BY <1>5 DEF Start, IInv, TypeOK
  <2>4. QED
    BY <1>5, <2>2, <2>3, Framed DEF IInv, TypeOK
<1>6. CASE Take
  <2> PICK w \in Workers, t \in 0 .. Attempts - 1 : TakeJob(w, t)
    BY <1>6 DEF Take
  <2>1. queued' \in [0 .. Attempts - 1 -> Nat]
    BY DEF TakeJob, IInv, TypeOK
  <2>2. QED
    BY <1>5, <2>1 DEF TakeJob, IInv, TypeOK, github, stores, Runners
<1>7. ASSUME NEW c \in Clis, runReviewCommand(c)
      PROVE  IInv'
  <2>1. left' \in [Kinds -> Nat] /\ left'["push"] = left["push"]
    BY <1>7, Spending DEF runReviewCommand, IInv, Kinds
  <2>2. 0 \in 0 .. Attempts - 1
    BY ScanAssumption
  <2>3. QED
    BY <1>5, <1>7, <2>1, <2>2 DEF runReviewCommand, IInv, TypeOK, github, stores, Runners
<1>8. ASSUME NEW r \in Runners, NEW s \in RunState, RunKnows(s), Become(r, s),
             UNCHANGED <<pushed, decks>>, left' \in [Kinds -> Nat], left'["push"] = left["push"],
             queued' \in [0 .. Attempts - 1 -> Nat], UNCHANGED started,
             comments' \in Seq(Comment), nextId' \in Nat, findings' \subseteq Nat
      PROVE  IInv'
  <2>1. run' \in [Runners -> RunState] /\ \A q \in Runners : RunKnows(run[q])'
    BY <1>8, RunsKnow
  <2>2. QED
    BY <1>8, <2>1, Framed DEF IInv, TypeOK
\* The same where only the run changes.
<1>9. ASSUME NEW r \in Runners, NEW s \in RunState, RunKnows(s), Become(r, s),
             UNCHANGED <<github, queued, started, stores, left>>
      PROVE  IInv'
  BY <1>8, <1>9 DEF github, stores, IInv, TypeOK
\* The same for a run that has its diff and keeps it.
<1>10. ASSUME NEW r \in Runners, NEW s \in RunState, Same(s, run[r]), run[r].pc \notin Unfetched,
              Become(r, s), UNCHANGED <<github, queued, started, stores, left>>
       PROVE  IInv'
  <2>1. RunKnows(s)
    BY <1>10, Knowing DEF IInv
  <2>2. QED
    BY <1>9, <1>10, <2>1
<1>11. RunKnows(Idle)
  BY Numbers DEF RunKnows, Idle, Unfetched, IInv
<1>12. ASSUME NEW c \in Clis, ReadBack(c) \/ Exits(c)
       PROVE  IInv'
  <2>1. c \in Runners /\ run[c] \in RunState
    BY Numbers DEF IInv, Runners
  <2>2. CASE ReadBack(c)
    <3> DEFINE deck == IF run[c].head = 0 THEN NoDeck ELSE decks[run[c].head]
               s == [run[c] EXCEPT !.pc = "printed", !.deck = deck]
    <3>1. deck \in Deck \cup {NoDeck}
      BY <2>1 DEF IInv, TypeOK, RunState
    <3>2. s \in RunState /\ Same(s, run[c])
      BY <2>1, <3>1 DEF RunState, Stages, Same
    <3>3. run[c].pc \notin Unfetched
      BY <2>2 DEF ReadBack, At, Unfetched
    <3>4. QED
      BY <1>10, <2>1, <2>2, <3>2, <3>3 DEF ReadBack
  <2>3. CASE Exits(c)
    BY <1>9, <1>11, <2>1, <2>3, IdleState DEF Exits
  <2>4. QED
    BY <1>12, <2>2, <2>3
<1>13. ASSUME NEW r \in Runners, NEW s \in RunState, RunKnows(s), Become(r, s),
              UNCHANGED <<pushed, queued, started, stores, left>>,
              comments' \in Seq(Comment), nextId' \in Nat
       PROVE  IInv'
  BY <1>8, <1>13 DEF stores, IInv, TypeOK
<1>14. ASSUME NEW r \in Runners, Step(r)
       PROVE  IInv'
  <2>0. /\ run[r] \in RunState /\ run[r].head \in Nat /\ run[r].diff \in Nat /\ RunKnows(run[r])
        /\ pushed \in Pushes /\ pushed \in Nat \ {0} /\ started \in Nat /\ findings \subseteq Nat
    BY Numbers DEF IInv, TypeOK
  <2>1. CASE resolveHeadSha(r)
    <3> PICK head \in {pushed, 0} : Become(r, [run[r] EXCEPT !.pc = "diff", !.head = head])
      BY <2>1 DEF resolveHeadSha
    <3> DEFINE s == [run[r] EXCEPT !.pc = "diff", !.head = head]
    <3>1. s \in RunState /\ s.pc = "diff" /\ s.head = head /\ s.diff = run[r].diff
      BY <2>0 DEF RunState, Stages, Same
    <3>2. RunKnows(s)
      BY <2>0, <3>1 DEF RunKnows, Unfetched
    <3>3. QED
      BY <1>9, <2>0, <2>1, <3>1, <3>2 DEF resolveHeadSha
  <2>2. CASE FetchDiff(r)
    <3> DEFINE s == [run[r] EXCEPT !.pc = "review", !.diff = pushed]
    <3>1. s \in RunState /\ s.pc = "review" /\ s.head = run[r].head /\ s.diff = pushed
      BY <2>0 DEF RunState, Stages, Same
    <3>2. RunKnows(s)
      BY <2>0, <3>1 DEF RunKnows, Unfetched
    <3>3. QED
      BY <1>9, <2>0, <2>2, <3>1, <3>2 DEF FetchDiff
  <2>3. CASE ReviewPass(r)
    <3>1. PICK found \in {run[r].no, 0} : Become(r, [run[r] EXCEPT !.pc = "delete", !.found = found])
      BY <2>3 DEF ReviewPass
    <3> DEFINE s == [run[r] EXCEPT !.pc = "delete", !.found = found]
    <3>2. found \in Nat
      BY <2>0, <3>1 DEF RunState
    <3>3. s \in RunState /\ Same(s, run[r]) /\ run[r].pc \notin Unfetched
      <4>1. s \in RunState /\ Same(s, run[r])
        BY <2>0, <3>2 DEF RunState, Stages, Same
      <4>2. QED
        BY <4>1, <2>3 DEF ReviewPass, At, Unfetched
    <3>4. QED
      BY <1>10, <2>3, <3>1, <3>3 DEF ReviewPass
  <2>4. CASE ReplaceDeletes(r)
    <3> DEFINE s == [run[r] EXCEPT !.pc = "commit", !.doomed = findings]
    <3>1. s \in RunState /\ Same(s, run[r]) /\ run[r].pc \notin Unfetched
      <4>1. s \in RunState /\ Same(s, run[r])
        BY <2>0 DEF RunState, Stages, Same
      <4>2. QED
        BY <4>1, <2>4 DEF ReplaceDeletes, At, Unfetched
    <3>2. QED
      BY <1>10, <2>4, <3>1 DEF ReplaceDeletes
  <2>5. CASE ReplaceCommits(r)
    <3> DEFINE s == [run[r] EXCEPT !.pc = "deck", !.doomed = {}]
    <3>1. s \in RunState /\ Same(s, run[r]) /\ run[r].pc \notin Unfetched
      <4>1. s \in RunState /\ Same(s, run[r])
        BY <2>0 DEF RunState, Stages, Same
      <4>2. QED
        BY <4>1, <2>5 DEF ReplaceCommits, At, Unfetched
    <3>2. RunKnows(s)
      BY <2>0, <3>1, Knowing
    <3>3. findings' \subseteq Nat
      BY <2>0, <2>5 DEF ReplaceCommits, RunState
    <3>4. QED
      BY <1>8, <2>5, <3>1, <3>2, <3>3 DEF ReplaceCommits, github, IInv, TypeOK
  <2>6. CASE NoReview(r)
    <3> DEFINE s == [run[r] EXCEPT !.pc = "deck", !.found = 0, !.doomed = {}]
    <3>1. s \in RunState /\ Same(s, run[r]) /\ run[r].pc \notin Unfetched
      <4>1. s \in RunState /\ Same(s, run[r])
        BY <2>0 DEF RunState, Stages, Same
      <4>2. QED
        BY <4>1, <2>6 DEF NoReview, At, Unfetched
    <3>2. QED
      BY <1>10, <2>6, <3>1 DEF NoReview
  <2>7. CASE processPrIntoDeck(r)
    <3> DEFINE s == [run[r] EXCEPT !.pc = "list"]
               deck == [of |-> run[r].diff, with |-> run[r].found]
    <3>1. s \in RunState /\ Same(s, run[r]) /\ run[r].pc \notin Unfetched
      <4>1. s \in RunState /\ Same(s, run[r])
        BY <2>0 DEF RunState, Stages, Same
      <4>2. QED
        BY <4>1, <2>7 DEF processPrIntoDeck, At, Unfetched
    <3>2. RunKnows(s)
      BY <2>0, <3>1, Knowing
    <3>3. run' \in [Runners -> RunState] /\ \A q \in Runners : RunKnows(run[q])'
      BY <2>7, <3>1, <3>2, RunsKnow DEF processPrIntoDeck, Goto, github
    <3>4. run[r].head \in Pushes /\ run[r].diff \in Pushes /\ run[r].diff >= run[r].head
      BY <2>0, <2>7, <3>1 DEF processPrIntoDeck, RunState, RunKnows
    <3>5. deck \in Deck /\ deck.of >= run[r].head
      BY <2>0, <3>4 DEF Deck, RunState
    <3>6. decks' = [decks EXCEPT ![run[r].head] = deck]
      BY <2>7 DEF processPrIntoDeck
    <3>7. decks' \in [Pushes -> Deck \cup {NoDeck}] /\ DeckIsNotStale'
      BY <3>4, <3>5, <3>6 DEF IInv, TypeOK, DeckIsNotStale
    <3>8. QED
      BY <2>7, <3>3, <3>7 DEF processPrIntoDeck, IInv, TypeOK, github
  <2>8. CASE NoDeckSaved(r)
    <3> DEFINE s == [run[r] EXCEPT !.pc = "list"]
    <3>1. s \in RunState /\ Same(s, run[r]) /\ run[r].pc \notin Unfetched
      <4>1. s \in RunState /\ Same(s, run[r])
        BY <2>0 DEF RunState, Stages, Same
      <4>2. QED
        BY <4>1, <2>8 DEF NoDeckSaved, At, Unfetched
    <3>2. QED
      BY <1>10, <2>8, <3>1 DEF NoDeckSaved, Goto
  <2>9. CASE ListPage(r)
    <3>0. run[r].pc \notin Unfetched /\ run[r].page \in 1 .. MaxPages
      BY <2>0, <2>9 DEF ListPage, At, Unfetched, RunState
    <3>1. CASE Goto(r, "create")
      <4> DEFINE s == [run[r] EXCEPT !.pc = "create"]
      <4>1. s \in RunState /\ Same(s, run[r])
        BY <2>0 DEF RunState, Stages, Same
      <4>2. QED
        BY <1>10, <2>9, <3>0, <3>1, <4>1 DEF ListPage, Goto
    <3>2. CASE /\ run[r].page < MaxPages
               /\ Become(r, [run[r] EXCEPT !.page = run[r].page + 1])
      <4> DEFINE s == [run[r] EXCEPT !.page = run[r].page + 1]
      <4>1. run[r].page + 1 \in 1 .. MaxPages
        BY <3>0, <3>2, ScanAssumption
      <4>2. s \in RunState /\ Same(s, run[r])
        BY <2>0, <4>1 DEF RunState, Same
      <4>3. QED
        BY <1>10, <2>9, <3>0, <3>2, <4>2 DEF ListPage
    <3>3. CASE /\ Page(run[r].page) \cap Marked # {}
               /\ Become(r, [run[r] EXCEPT !.pc = "update",
                                 !.target = comments[FirstMarked(Page(run[r].page))].id])
      <4> DEFINE first == FirstMarked(Page(run[r].page))
                 s == [run[r] EXCEPT !.pc = "update", !.target = comments[first].id]
      <4>1. first \in Marked
        BY <3>0, <3>3, First DEF IInv
      <4>2. comments[first].id \in Nat
        <5>1. first \in DOMAIN comments /\ comments \in Seq(Comment)
          BY <4>1 DEF Marked, IInv, TypeOK
        <5>2. comments[first] \in Comment
          BY <5>1
        <5>3. QED
          BY <5>2 DEF Comment
      <4>3. s \in RunState /\ Same(s, run[r])
        BY <2>0, <4>2 DEF RunState, Stages, Same
      <4>4. QED
        BY <1>10, <2>9, <3>0, <3>3, <4>3 DEF ListPage
    <3>4. QED
      BY <2>9, <3>1, <3>2, <3>3 DEF ListPage
  <2>10. ASSUME run[r].pc \notin Unfetched, Finish(r), UNCHANGED <<pushed, queued, started, stores, left>>,
                comments' \in Seq(Comment), nextId' \in Nat
         PROVE  IInv'
    <3>1. CASE r \in Clis
      <4> DEFINE s == [run[r] EXCEPT !.pc = "readback"]
      <4>1. s \in RunState /\ Same(s, run[r])
        BY <2>0 DEF RunState, Stages, Same
      <4>2. RunKnows(s)
        BY <2>0, <2>10, <4>1, Knowing
      <4>3. QED
        BY <1>13, <2>10, <3>1, <4>1, <4>2 DEF Finish
    <3>2. CASE r \notin Clis
      BY <1>11, <1>13, <2>10, <3>2, IdleState DEF Finish
    <3>3. QED
      BY <3>1, <3>2
  <2>11. ASSUME run[r].pc \notin Unfetched
         PROVE  run[r].diff \in Pushes
    BY <2>0, <2>11 DEF RunKnows, RunState
  <2>12. CASE updateComment(r)
    <3>1. run[r].pc \notin Unfetched
      BY <2>12 DEF updateComment, At, Unfetched
    <3>2. PICK i \in DOMAIN comments : comments' = [comments EXCEPT ![i].shows = run[r].diff]
      BY <2>12 DEF updateComment
    <3>3. comments' \in Seq(Comment)
      BY <2>11, <3>1, <3>2, Editing DEF IInv
    <3>4. QED
      BY <2>10, <2>12, <3>1, <3>3 DEF updateComment, IInv, TypeOK
  <2>13. CASE createComment(r)
    <3>1. run[r].pc \notin Unfetched
      BY <2>13 DEF createComment, At, Unfetched
    <3>2. comments' \in Seq(Comment) /\ nextId' \in Nat
      BY <2>11, <2>13, <3>1, Posting DEF createComment, IInv
    <3>3. QED
      BY <2>10, <2>13, <3>1, <3>2 DEF createComment
  <2>14. QED
    BY <1>14, <2>1, <2>2, <2>3, <2>4, <2>5, <2>6, <2>7, <2>8, <2>9, <2>12, <2>13 DEF Step
<1>15. ASSUME NEW r \in Runners, Trouble(r)
       PROVE  IInv'
  <2>0. run[r] \in RunState /\ run[r].tries \in Nat /\ run[r].tries + 1 \in Nat
    BY DEF IInv, TypeOK, RunState
  <2>1. ASSUME NEW k \in Kinds \ {"push"}, Spend(k)
        PROVE  left' \in [Kinds -> Nat] /\ left'["push"] = left["push"]
    BY <2>1, Spending DEF IInv, Kinds
  <2>2. ASSUME NEW k \in Kinds \ {"push"}, Spend(k), NEW t \in Nat, Requeue(r, t), Become(r, Idle),
               UNCHANGED <<pushed, started, stores>>, comments' \in Seq(Comment), nextId' \in Nat
        PROVE  IInv'
    <3>1. queued' \in [0 .. Attempts - 1 -> Nat]
      BY <2>2, Requeueing DEF IInv
    <3>2. QED
      BY <1>8, <1>11, <2>1, <2>2, <3>1, IdleState DEF stores, IInv, TypeOK
  <2>3. ASSUME At(r, "create")
        PROVE  run[r].diff \in Pushes
    BY <2>0, <2>3 DEF At, Unfetched, IInv, RunKnows, RunState
  <2>4. CASE Fails(r)
    BY <2>0, <2>2, <2>4 DEF Fails, Throws, Kinds, github, IInv, TypeOK
  <2>5. CASE Dies(r)
    BY <2>0, <2>2, <2>5 DEF Dies, Kinds, github, IInv, TypeOK
  <2>6. CASE CreateUnanswered(r)
    <3>1. comments' \in Seq(Comment) /\ nextId' \in Nat
      BY <2>3, <2>6, Posting DEF CreateUnanswered, IInv
    <3>2. QED
      BY <2>0, <2>2, <2>6, <3>1 DEF CreateUnanswered, Throws, Kinds
  <2>7. CASE CreateResent(r)
    <3>1. comments' \in Seq(Comment) /\ nextId' \in Nat
      BY <2>3, <2>7, Posting DEF CreateResent, IInv
    <3>2. left' \in [Kinds -> Nat] /\ left'["push"] = left["push"]
      BY <2>1, <2>7 DEF CreateResent, Kinds
    <3>3. QED
      BY <2>7, <3>1, <3>2, Framed DEF CreateResent, stores, IInv, TypeOK, RunKnows
  <2>8. QED
    BY <1>15, <2>4, <2>5, <2>6, <2>7 DEF Trouble
<1>16. QED
  BY <1>0, <1>1, <1>2, <1>3, <1>4, <1>6, <1>7, <1>12, <1>14, <1>15 DEF Next, Outside

\* Every variable keeps its type: pages stay within MAX_COMMENT_PAGES and
\* tries within the queue's attempts, and a deck holds a diff that was fetched.
THEOREM TypeCorrect == Spec => []TypeOK
<1>1. IInv => TypeOK
  BY DEF IInv
<1>2. QED
  BY <1>1, InitInv, StepInv, PTL DEF Spec

\* No deck row ever holds code older than its head, however many workers,
\* commands, pushes, failures and deaths there are.
THEOREM FreshDecks == Spec => []DeckIsNotStale
<1>1. IInv => DeckIsNotStale
  BY DEF IInv
<1>2. QED
  BY <1>1, InitInv, StepInv, PTL DEF Spec

-----------------------------------------------------------------------------
(* Where runs do not overlap: one comment, one run's findings, and the     *)
(* promise of PublishedReview.                                             *)

\* Runs never overlap, GitHub's answers arrive, nobody deletes a comment
\* under the scan, and the marker is always within its reach.
Serial ==
    /\ \A r, q \in Runners : r = q
    /\ Limit["resend"] = 0 /\ Limit["delete"] = 0
    /\ Limit["post"] < PageSize * MaxPages

BeforeScan == {"idle", "head", "diff", "review", "delete", "commit", "deck"}

\* What a run alone with its pull request knows of comments and findings: the
\* pages it passed have no marker, it updates the marked comment, and it
\* creates one only where there is none.
Alone(s) ==
    /\ s.pc \in BeforeScan => s.page = 1
    /\ s.pc = "list" => \A i \in Marked : (s.page - 1) * PageSize < i
    /\ s.pc = "update" => s.target \in Marked
    /\ s.pc = "create" => Marked = {}
    /\ s.pc = "commit" => s.doomed = findings
    /\ s.pc \notin Unfetched => \A i \in Marked : comments[i].shows <= s.diff

\* The comments as nobody deletes one: numbered by position, the marked one
\* within the reach of the scan.
Thread ==
    /\ nextId = Len(comments) + 1
    /\ \A i \in DOMAIN comments : comments[i].id = i
    /\ Marked = {} => Len(comments) + left["post"] <= Limit["post"]
    /\ \A i \in Marked : i <= Limit["post"] + 1 /\ comments[i].shows <= pushed
    /\ OneComment

SInv ==
    /\ IInv
    /\ left["resend"] = 0 /\ left["delete"] = 0
    /\ Thread
    /\ OneRunOfFindings
    /\ \A r \in Runners : Alone(run[r])

-----------------------------------------------------------------------------
LEMMA Sizes ==
    ASSUME TypeOK
    PROVE  /\ Len(comments) \in Nat /\ DOMAIN comments = 1 .. Len(comments)
           /\ nextId \in Nat /\ left["post"] \in Nat /\ Limit["post"] \in Nat
           /\ Limit["resend"] \in Nat /\ Limit["delete"] \in Nat
           /\ Marked \subseteq 1 .. Len(comments)
           /\ \A i \in DOMAIN comments : comments[i] \in Comment
<1>1. comments \in Seq(Comment)
  BY DEF TypeOK
<1>2. /\ Len(comments) \in Nat /\ DOMAIN comments = 1 .. Len(comments)
      /\ \A i \in DOMAIN comments : comments[i] \in Comment
  BY <1>1
<1>3. nextId \in Nat /\ left["post"] \in Nat
  BY DEF TypeOK, Kinds
<1>4. Limit["post"] \in Nat /\ Limit["resend"] \in Nat /\ Limit["delete"] \in Nat
  BY LimitAssumption DEF Kinds
<1>5. QED
  BY <1>2, <1>3, <1>4 DEF Marked

LEMMA AloneIdle == Alone(Idle)
BY DEF Alone, Idle, BeforeScan, Unfetched

\* The only run that a step of r leaves behind is the new state of r.
LEMMA OnlyRun ==
    ASSUME Serial, TypeOK, NEW r \in Runners, NEW s, Become(r, s)
    PROVE  \A q \in Runners : run'[q] = s
BY DEF Serial, TypeOK, Become

LEMMA Quiet ==
    ASSUME SInv, IInv', UNCHANGED <<comments, nextId, findings>>, pushed <= pushed',
           left'["resend"] = left["resend"], left'["delete"] = left["delete"],
           left'["post"] = left["post"], \A r \in Runners : Alone(run[r])'
    PROVE  SInv'
<1>1. Marked' = Marked
  BY DEF Marked
<1>2. \A i \in Marked : comments[i].shows \in Nat
  BY Sizes, Numbers DEF SInv, IInv, Comment, Marked
<1>3. pushed \in Nat /\ pushed' \in Nat
  <2>1. pushed \in Nat
    BY Numbers DEF SInv, IInv
  <2>2. TypeOK' => pushed' \in Pushes
    BY DEF TypeOK, Pushes
  <2>3. QED
    BY <2>1, <2>2, Numbers DEF SInv, IInv
<1>4. Thread'
  BY <1>1, <1>2, <1>3 DEF SInv, Thread, OneComment
<1>5. QED
  BY <1>4 DEF SInv, OneRunOfFindings

\* A step of the run that leaves comments and findings alone.
LEMMA Turn ==
    ASSUME Serial, SInv, IInv', NEW r \in Runners, NEW s, Become(r, s), Alone(s),
           UNCHANGED <<pushed, comments, nextId, findings>>,
           left'["resend"] = left["resend"], left'["delete"] = left["delete"],
           left'["post"] = left["post"]
    PROVE  SInv'
<1>1. \A q \in Runners : run'[q] = s
  BY OnlyRun DEF SInv, IInv
<1>2. \A q \in Runners : Alone(run[q])'
  BY <1>1 DEF Alone, Marked
<1>3. pushed <= pushed'
  BY Numbers DEF SInv, IInv
<1>4. QED
  BY <1>2, <1>3, Quiet

LEMMA SerialInit == Serial /\ Init => SInv
<1> SUFFICES ASSUME Serial, Init PROVE SInv
  OBVIOUS
<1>1. IInv /\ TypeOK
  BY InitInv DEF IInv
<1>2. Marked = {} /\ Len(comments) = 0
  BY DEF Init, Marked
<1>3. Thread
  BY <1>1, <1>2, Sizes DEF Init, Thread, OneComment
<1>4. \A r \in Runners : Alone(run[r])
  BY AloneIdle DEF Init
<1>5. QED
  BY <1>1, <1>3, <1>4 DEF Init, Serial, SInv, OneRunOfFindings

\* A comment a run posts where there is none with the marker.
LEMMA FirstPosted ==
    ASSUME Serial, SInv, IInv', Marked = {}, NEW diff \in Pushes, diff <= pushed, Post(diff),
           NEW r \in Runners, NEW s, Become(r, s), s.diff = diff \/ s = Idle,
           s.pc \in {"readback", "idle"}, s.pc = "idle" => s.page = 1,
           UNCHANGED <<pushed, findings>>, left'["resend"] = left["resend"],
           left'["delete"] = left["delete"], left'["post"] = left["post"]
    PROVE  SInv' /\ Marked' = {Len(comments) + 1} /\ comments'[Len(comments) + 1].shows = diff
<1> DEFINE n == Len(comments) + 1
<1>0. diff \in Nat \ {0} /\ pushed \in Nat /\ TypeOK /\ TypeOK'
  BY Numbers DEF SInv, IInv
<1>1. /\ Len(comments') = n /\ nextId' = nextId + 1
      /\ comments'[n] = [id |-> nextId, shows |-> diff]
      /\ \A i \in DOMAIN comments : comments'[i] = comments[i]
  BY <1>0, Posting
<1>2. /\ DOMAIN comments' = 1 .. n /\ DOMAIN comments = 1 .. Len(comments)
      /\ Len(comments) \in Nat /\ left["post"] \in Nat /\ Limit["post"] \in Nat
  BY <1>0, <1>1, Sizes
<1>3. \A i \in DOMAIN comments : comments[i].shows = 0
  BY DEF Marked
<1>4. Marked' = {n}
  BY <1>0, <1>1, <1>2, <1>3 DEF Marked
<1>5. Thread'
  <2>1. nextId' = Len(comments') + 1 /\ comments'[n].id = n /\ n <= Limit["post"] + 1
    BY <1>1, <1>2 DEF SInv, Thread
  <2>2. \A i \in DOMAIN comments' : comments'[i].id = i
    BY <1>1, <1>2, <2>1 DEF SInv, Thread
  <2>3. comments'[n].shows = diff
    BY <1>1
  <2>4. QED
    BY <1>4, <2>1, <2>2, <2>3 DEF Thread, OneComment
<1>6. \A q \in Runners : Alone(run[q])'
  <2>1. \A q \in Runners : run'[q] = s
    BY <1>0, OnlyRun
  <2>2. s.pc \notin Unfetched => s.diff = diff
    BY DEF Unfetched, Idle
  <2>3. comments'[n].shows <= diff
    BY <1>0, <1>1
  <2>4. QED
    BY <1>4, <2>1, <2>2, <2>3 DEF Alone, BeforeScan
<1>7. QED
  BY <1>1, <1>4, <1>5, <1>6 DEF SInv, OneRunOfFindings

\* The scan has passed every page below its own, or will not look further.
LEMMA ScanEnds ==
    ASSUME Serial, SInv, NEW r \in Runners, run[r].pc = "list",
           Page(run[r].page) \cap Marked = {}
    PROVE  /\ \A i \in Marked : run[r].page * PageSize < i
           /\ Len(comments) < run[r].page * PageSize \/ run[r].page = MaxPages => Marked = {}
<1> DEFINE page == run[r].page
<1>1. page \in Nat /\ PageSize \in Nat /\ MaxPages \in Nat
  BY ScanAssumption DEF SInv, IInv, TypeOK, RunState
<1>2. page * PageSize \in Nat /\ MaxPages * PageSize = PageSize * MaxPages
  BY <1>1
<1>3. Marked \subseteq 1 .. Len(comments) /\ Len(comments) \in Nat /\ Limit["post"] \in Nat
  BY Sizes DEF SInv, IInv
<1>4. ASSUME NEW i \in Marked
      PROVE  page * PageSize < i
  <2>1. (page - 1) * PageSize < i
    BY <1>4 DEF SInv, Alone
  <2>2. i \notin Page(page) /\ i \in DOMAIN comments /\ i \in Nat
    BY <1>3, <1>4 DEF Marked
  <2>3. ~ (i <= page * PageSize)
    BY <2>1, <2>2 DEF Page
  <2>4. QED
    BY <1>2, <2>2, <2>3
<1>5. ASSUME Len(comments) < page * PageSize \/ page = MaxPages, NEW i \in Marked
      PROVE  FALSE
  <2>1. page * PageSize < i /\ i <= Len(comments) /\ i <= Limit["post"] + 1 /\ i \in Nat
    BY <1>3, <1>4, <1>5 DEF SInv, Thread
  <2>2. CASE Len(comments) < page * PageSize
    BY <1>2, <1>3, <2>1, <2>2
  <2>3. CASE page = MaxPages
    <3>1. Limit["post"] < page * PageSize
      BY <1>2, <2>3 DEF Serial
    <3>2. QED
      BY <1>2, <1>3, <2>1, <3>1
  <2>4. QED
    BY <1>5, <2>2, <2>3
<1>6. QED
  BY <1>4, <1>5

\* A run edits the marked comment.
LEMMA Updated ==
    ASSUME Serial, SInv, IInv', NEW r \in Runners, updateComment(r)
    PROVE  /\ SInv' /\ Marked' = Marked
           /\ \E i \in Marked : comments'[i].shows = run[r].diff /\ comments[i].shows <= run[r].diff
<1>0. TypeOK /\ TypeOK' /\ run[r] \in RunState /\ Alone(run[r]) /\ RunKnows(run[r])
  BY Numbers DEF SInv, IInv
<1>1. PICK i \in DOMAIN comments : /\ comments[i].id = run[r].target
                                  /\ comments' = [comments EXCEPT ![i].shows = run[r].diff]
  BY DEF updateComment
<1>2. i \in Marked
  BY <1>0, <1>1 DEF updateComment, At, Alone, SInv, Thread, Marked
<1>3. run[r].diff \in Pushes /\ run[r].diff \in Nat \ {0} /\ run[r].diff <= pushed
  <2>1. run[r].diff \in Pushes /\ run[r].diff <= pushed
    BY <1>0 DEF updateComment, At, RunKnows, Unfetched, RunState
  <2>2. QED
    BY <1>0, <2>1, Numbers
<1>4. /\ Len(comments') = Len(comments) /\ comments'[i].shows = run[r].diff
      /\ \A j \in DOMAIN comments : comments'[j].id = comments[j].id
      /\ \A j \in DOMAIN comments \ {i} : comments'[j] = comments[j]
  BY <1>0, <1>1, <1>3, Editing
<1>5. DOMAIN comments' = DOMAIN comments /\ Marked' = Marked /\ Marked = {i}
  <2>1. DOMAIN comments' = DOMAIN comments
    BY <1>0, <1>4, Sizes
  <2>2. Marked' = Marked
    BY <1>2, <1>3, <1>4, <2>1 DEF Marked
  <2>3. QED
    BY <1>2, <2>1, <2>2 DEF SInv, Thread, OneComment
<1>6. UNCHANGED <<pushed, nextId, left, findings>>
  BY DEF updateComment, stores
<1>7. Thread'
  BY <1>3, <1>4, <1>5, <1>6 DEF SInv, Thread, OneComment
<1>8. \A q \in Runners : Alone(run[q])'
  <2>1. CASE r \in Clis
    <3> DEFINE s == [run[r] EXCEPT !.pc = "readback"]
    <3>1. s.pc = "readback" /\ s.diff = run[r].diff
      BY <1>0 DEF RunState
    <3>2. \A q \in Runners : run'[q] = s
      BY <1>0, <2>1, OnlyRun DEF updateComment, Finish
    <3>3. comments'[i].shows <= s.diff
      BY <1>3, <1>4, <3>1
    <3>4. QED
      BY <1>5, <3>1, <3>2, <3>3 DEF Alone, BeforeScan
  <2>2. CASE r \notin Clis
    <3>1. \A q \in Runners : run'[q] = Idle
      BY <1>0, <2>2, OnlyRun DEF updateComment, Finish
    <3>2. QED
      BY <3>1 DEF Alone, Idle, BeforeScan, Unfetched
  <2>3. QED
    BY <2>1, <2>2
<1>9. SInv'
  BY <1>6, <1>7, <1>8 DEF SInv, OneRunOfFindings
<1>10. QED
  BY <1>0, <1>2, <1>4, <1>5, <1>9 DEF Alone, updateComment, At, Unfetched

\* A run creates the comment, whether or not it hears of it.
LEMMA Created ==
    ASSUME Serial, SInv, IInv', NEW r \in Runners, createComment(r) \/ CreateUnanswered(r)
    PROVE  /\ SInv' /\ Marked = {} /\ Marked' = {Len(comments) + 1}
           /\ comments'[Len(comments) + 1].shows = run[r].diff
<1>0. TypeOK /\ run[r] \in RunState /\ Alone(run[r]) /\ RunKnows(run[r]) /\ run[r].pc = "create"
  BY Numbers DEF SInv, IInv, createComment, CreateUnanswered, At
<1>1. Marked = {}
  BY <1>0 DEF Alone
<1>2. run[r].diff \in Pushes /\ run[r].diff <= pushed
  BY <1>0 DEF RunKnows, Unfetched, RunState
<1>3. Post(run[r].diff) /\ UNCHANGED <<pushed, findings>>
  BY DEF createComment, CreateUnanswered, stores
<1>4. /\ left'["resend"] = left["resend"] /\ left'["delete"] = left["delete"]
      /\ left'["post"] = left["post"]
  BY <1>0, Spending DEF createComment, CreateUnanswered, Kinds
<1>5. CASE Become(r, Idle)
  BY <1>1, <1>2, <1>3, <1>4, <1>5, FirstPosted DEF Idle
<1>6. CASE Become(r, [run[r] EXCEPT !.pc = "readback"])
  <2> DEFINE s == [run[r] EXCEPT !.pc = "readback"]
  <2>1. s.pc = "readback" /\ s.diff = run[r].diff
    BY <1>0 DEF RunState
  <2>2. QED
    BY <1>1, <1>2, <1>3, <1>4, <1>6, <2>1, FirstPosted
<1>7. QED
  BY <1>1, <1>5, <1>6 DEF createComment, CreateUnanswered, Finish, Throws

LEMMA SerialStep == Serial /\ SInv /\ [Next]_vars => SInv'
<1> SUFFICES ASSUME Serial, SInv, [Next]_vars PROVE SInv'
  OBVIOUS
<1>a. IInv /\ IInv' /\ TypeOK /\ \A r \in Runners : Alone(run[r])
  BY StepInv DEF SInv, IInv
<1>b. ASSUME NEW k \in Kinds \ {"post", "resend", "delete"}, Spend(k)
      PROVE  /\ left'["resend"] = left["resend"] /\ left'["delete"] = left["delete"]
             /\ left'["post"] = left["post"]
  BY <1>a, <1>b, Spending DEF Kinds
<1>c. ~ Spend("resend") /\ ~ Spend("delete")
  BY DEF SInv, Spend
<1>d. pushed \in Nat /\ \A r \in Runners : run[r] \in RunState
  BY <1>a, Numbers
<1>0. CASE UNCHANGED vars
  <2>1. \A r \in Runners : Alone(run[r])'
    BY <1>0, <1>a DEF vars, Alone, Marked
  <2>2. QED
    BY <1>0, <1>a, <1>d, <2>1, Quiet DEF vars
<1>1. CASE Push
  <2>1. \A r \in Runners : Alone(run[r])'
    BY <1>1, <1>a DEF Push, stores, Alone, Marked
  <2>2. QED
    BY <1>1, <1>a, <1>b, <1>d, <2>1, Quiet DEF Push, stores, Kinds
<1>2. CASE HumanPosts
  <2> DEFINE n == Len(comments) + 1
  <2>1. /\ Len(comments') = n /\ nextId' = nextId + 1
        /\ comments'[n] = [id |-> nextId, shows |-> 0]
        /\ \A i \in DOMAIN comments : comments'[i] = comments[i]
    BY <1>2, <1>a, Posting DEF HumanPosts
  <2>2. /\ DOMAIN comments' = 1 .. n /\ DOMAIN comments = 1 .. Len(comments)
        /\ Len(comments) \in Nat /\ left["post"] \in Nat
    BY <1>a, <2>1, Sizes DEF IInv
  <2>3. Marked' = Marked /\ \A i \in Marked : comments'[i] = comments[i]
    BY <2>1, <2>2 DEF Marked
  <2>4. /\ left'["post"] = left["post"] - 1 /\ left'["resend"] = left["resend"]
        /\ left'["delete"] = left["delete"]
    BY <1>2, <1>a, Spending DEF HumanPosts, Kinds
  <2>5. Thread'
    <3>1. Len(comments') + left'["post"] = Len(comments) + left["post"]
      <4>1. Len(comments') = Len(comments) + 1 /\ left'["post"] = left["post"] - 1
        BY <2>1, <2>4
      <4>2. Len(comments) \in Nat /\ left["post"] \in Nat
        BY <2>2
      <4>3. QED
        BY <4>1, <4>2
    <3>2. nextId' = Len(comments') + 1 /\ \A i \in DOMAIN comments' : comments'[i].id = i
      BY <2>1, <2>2 DEF SInv, Thread
    <3>3. QED
      BY <1>2, <2>3, <3>1, <3>2 DEF SInv, Thread, OneComment, HumanPosts
  <2>6. \A r \in Runners : Alone(run[r])'
    BY <1>2, <1>a, <2>3 DEF HumanPosts, stores, Alone
  <2>7. QED
    BY <1>2, <1>a, <2>4, <2>5, <2>6 DEF HumanPosts, stores, SInv, OneRunOfFindings
<1>3. CASE \E i \in DOMAIN comments : HumanDeletes(i)
  BY <1>3, <1>c DEF HumanDeletes
<1>4. CASE enqueue
  <2>1. \A r \in Runners : Alone(run[r])'
    BY <1>4, <1>a DEF enqueue, github, stores, Alone, Marked
  <2>2. QED
    BY <1>4, <1>a, <1>b, <1>d, <2>1, Quiet DEF enqueue, github, stores, Kinds
<1>5. ASSUME NEW r \in Runners, NEW t, Start(r, t), UNCHANGED <<github, stores>>,
             left'["resend"] = left["resend"], left'["delete"] = left["delete"],
             left'["post"] = left["post"]
      PROVE  SInv'
  <2> DEFINE s == [Idle EXCEPT !.pc = "head", !.no = started + 1, !.tries = t]
  <2>1. Alone(s)
    BY DEF Alone, Idle, BeforeScan, Unfetched
  <2>2. QED
    BY <1>5, <1>a, <2>1, Turn DEF Start, github, stores
<1>6. CASE Take
  BY <1>5, <1>6 DEF Take, TakeJob, Runners
<1>7. ASSUME NEW c \in Clis, runReviewCommand(c)
      PROVE  SInv'
  BY <1>5, <1>7, <1>b DEF runReviewCommand, Runners, Kinds
<1>8. ASSUME NEW r \in Runners, NEW s, Become(r, s), Alone(s), UNCHANGED <<github, findings, left>>
      PROVE  SInv'
  BY <1>8, <1>a, Turn DEF github
<1>9. ASSUME NEW c \in Clis, ReadBack(c) \/ Exits(c)
      PROVE  SInv'
  <2>1. c \in Runners /\ run[c] \in RunState /\ Alone(run[c])
    BY <1>a, <1>d DEF Runners
  <2>2. CASE ReadBack(c)
    <3> DEFINE s == [run[c] EXCEPT !.pc = "printed",
                      !.deck = IF run[c].head = 0 THEN NoDeck ELSE decks[run[c].head]]
    <3>1. s.pc = "printed" /\ s.diff = run[c].diff
      BY <2>1 DEF RunState
    <3>2. Alone(s)
      BY <2>1, <2>2, <3>1 DEF ReadBack, At, Alone, BeforeScan, Unfetched
    <3>3. QED
      BY <1>8, <2>1, <2>2, <3>2 DEF ReadBack, stores
  <2>3. CASE Exits(c)
    BY <1>8, <2>1, <2>3, AloneIdle DEF Exits, stores
  <2>4. QED
    BY <1>9, <2>2, <2>3
<1>10. ASSUME NEW r \in Runners, Step(r)
       PROVE  SInv'
  <2>0. run[r] \in RunState /\ Alone(run[r]) /\ RunKnows(run[r])
    BY <1>a, <1>d DEF IInv
  <2>1. CASE resolveHeadSha(r)
    <3>1. PICK head \in {pushed, 0} : Become(r, [run[r] EXCEPT !.pc = "diff", !.head = head])
      BY <2>1 DEF resolveHeadSha
    <3> DEFINE s == [run[r] EXCEPT !.pc = "diff", !.head = head]
    <3>2. s.pc = "diff" /\ s.page = run[r].page
      BY <2>0 DEF RunState
    <3>3. Alone(s)
      BY <2>0, <2>1, <3>2 DEF resolveHeadSha, At, Alone, BeforeScan, Unfetched
    <3>4. QED
      BY <1>8, <2>1, <3>1, <3>3 DEF resolveHeadSha, stores
  <2>2. CASE FetchDiff(r)
    <3> DEFINE s == [run[r] EXCEPT !.pc = "review", !.diff = pushed]
    <3>1. s.pc = "review" /\ s.page = run[r].page /\ s.diff = pushed
      BY <2>0 DEF RunState
    <3>2. Alone(s)
      BY <2>0, <2>2, <3>1 DEF FetchDiff, At, Alone, BeforeScan, Unfetched, SInv, Thread
    <3>3. QED
      BY <1>8, <2>2, <3>2 DEF FetchDiff, stores
  <2>3. CASE ReviewPass(r)
    <3>1. PICK found \in {run[r].no, 0} : Become(r, [run[r] EXCEPT !.pc = "delete", !.found = found])
      BY <2>3 DEF ReviewPass
    <3> DEFINE s == [run[r] EXCEPT !.pc = "delete", !.found = found]
    <3>2. s.pc = "delete" /\ s.page = run[r].page /\ s.diff = run[r].diff
      BY <2>0 DEF RunState
    <3>3. Alone(s)
      BY <2>0, <2>3, <3>2 DEF ReviewPass, At, Alone, BeforeScan, Unfetched
    <3>4. QED
      BY <1>8, <2>3, <3>1, <3>3 DEF ReviewPass, stores
  <2>4. CASE ReplaceDeletes(r)
    <3> DEFINE s == [run[r] EXCEPT !.pc = "commit", !.doomed = findings]
    <3>1. /\ s.pc = "commit" /\ s.page = run[r].page /\ s.diff = run[r].diff
          /\ s.doomed = findings
      BY <2>0 DEF RunState
    <3>2. Alone(s)
      BY <2>0, <2>4, <3>1 DEF ReplaceDeletes, At, Alone, BeforeScan, Unfetched
    <3>3. QED
      BY <1>8, <2>4, <3>2 DEF ReplaceDeletes, stores
  <2>5. CASE ReplaceCommits(r)
    <3> DEFINE s == [run[r] EXCEPT !.pc = "deck", !.doomed = {}]
    <3>1. s.pc = "deck" /\ s.page = run[r].page /\ s.diff = run[r].diff
      BY <2>0 DEF RunState
    <3>2. UNCHANGED <<comments, nextId, pushed, left>> /\ Marked' = Marked
      BY <2>5 DEF ReplaceCommits, github, Marked
    <3>3. \A q \in Runners : Alone(run[q])'
      <4>1. \A q \in Runners : run'[q] = s
        BY <1>a, <2>5, OnlyRun DEF ReplaceCommits
      <4>2. QED
        BY <2>0, <2>5, <3>1, <3>2, <4>1 DEF ReplaceCommits, At, Alone, BeforeScan, Unfetched
    <3>4. OneRunOfFindings'
      <4>1. run[r].doomed = findings
        BY <2>0, <2>5 DEF ReplaceCommits, At, Alone
      <4>2. findings' \subseteq {run[r].found}
        BY <2>5, <4>1 DEF ReplaceCommits
      <4>3. QED
        BY <4>2 DEF OneRunOfFindings
    <3>5. Thread'
      BY <3>2 DEF SInv, Thread, OneComment
    <3>6. QED
      BY <1>a, <3>2, <3>3, <3>4, <3>5 DEF SInv
  <2>6. CASE NoReview(r)
    <3> DEFINE s == [run[r] EXCEPT !.pc = "deck", !.found = 0, !.doomed = {}]
    <3>1. s.pc = "deck" /\ s.page = run[r].page /\ s.diff = run[r].diff
      BY <2>0 DEF RunState
    <3>2. Alone(s)
      BY <2>0, <2>6, <3>1 DEF NoReview, At, Alone, BeforeScan, Unfetched
    <3>3. QED
      BY <1>8, <2>6, <3>2 DEF NoReview, stores
  <2>7. CASE processPrIntoDeck(r) \/ NoDeckSaved(r)
    <3> DEFINE s == [run[r] EXCEPT !.pc = "list"]
    <3>1. s.pc = "list" /\ s.page = run[r].page /\ s.diff = run[r].diff
      BY <2>0 DEF RunState
    <3>2. run[r].pc = "deck" /\ UNCHANGED <<github, findings, left>> /\ Become(r, s)
      BY <2>7 DEF processPrIntoDeck, NoDeckSaved, At, Goto, stores
    <3>3. (s.page - 1) * PageSize = 0
      BY <2>0, <3>1, <3>2, ScanAssumption DEF Alone, BeforeScan
    <3>4. \A i \in Marked : 0 < i
      BY <1>a, Sizes
    <3>5. Alone(s)
      BY <2>0, <3>1, <3>2, <3>3, <3>4 DEF Alone, BeforeScan, Unfetched
    <3>6. QED
      BY <1>8, <3>2, <3>5
  <2>8. CASE ListPage(r)
    <3>0. /\ run[r].pc = "list" /\ UNCHANGED <<github, findings, left>>
          /\ run[r].page \in 1 .. MaxPages /\ MaxPages \in Nat
      BY <2>0, <2>8, ScanAssumption DEF ListPage, At, stores, RunState
    <3>1. CASE /\ Page(run[r].page) \cap Marked = {}
               /\ Len(comments) < run[r].page * PageSize \/ run[r].page = MaxPages
               /\ Goto(r, "create")
      <4> DEFINE s == [run[r] EXCEPT !.pc = "create"]
      <4>1. s.pc = "create" /\ s.diff = run[r].diff
        BY <2>0 DEF RunState
      <4>2. Marked = {}
        BY <3>0, <3>1, ScanEnds
      <4>3. Alone(s)
        BY <4>1, <4>2 DEF Alone, BeforeScan
      <4>4. QED
        BY <1>8, <3>0, <3>1, <4>3 DEF Goto
    <3>2. CASE /\ Page(run[r].page) \cap Marked = {}
               /\ Become(r, [run[r] EXCEPT !.page = run[r].page + 1])
      <4> DEFINE s == [run[r] EXCEPT !.page = run[r].page + 1]
      <4>1. s.pc = "list" /\ s.page = run[r].page + 1 /\ s.diff = run[r].diff
        BY <2>0, <3>0 DEF RunState
      <4>2. (s.page - 1) * PageSize = run[r].page * PageSize
        BY <3>0, <4>1
      <4>3. \A i \in Marked : (s.page - 1) * PageSize < i
        BY <3>0, <3>2, <4>2, ScanEnds
      <4>4. Alone(s)
        BY <2>0, <3>0, <4>1, <4>3 DEF Alone, BeforeScan, Unfetched
      <4>5. QED
        BY <1>8, <3>0, <3>2, <4>4
    <3>3. CASE /\ Page(run[r].page) \cap Marked # {}
               /\ Become(r, [run[r] EXCEPT !.pc = "update",
                                 !.target = comments[FirstMarked(Page(run[r].page))].id])
      <4> DEFINE first == FirstMarked(Page(run[r].page))
                 s == [run[r] EXCEPT !.pc = "update", !.target = comments[first].id]
      <4>1. first \in Marked /\ first \in DOMAIN comments
        BY <1>a, <3>0, <3>3, First DEF Marked
      <4>2. s.pc = "update" /\ s.target = first /\ s.diff = run[r].diff
        BY <2>0, <4>1 DEF RunState, SInv, Thread
      <4>3. Alone(s)
        BY <2>0, <3>0, <4>1, <4>2 DEF Alone, BeforeScan, Unfetched
      <4>4. QED
        BY <1>8, <3>0, <3>3, <4>3
    <3>4. QED
      BY <2>8, <3>1, <3>2, <3>3 DEF ListPage
  <2>9. CASE updateComment(r)
    BY <1>a, <2>9, Updated DEF SInv
  <2>10. CASE createComment(r)
    BY <1>a, <2>10, Created DEF SInv
  <2>11. QED
    BY <1>10, <2>1, <2>2, <2>3, <2>4, <2>5, <2>6, <2>7, <2>8, <2>9, <2>10 DEF Step
<1>11. ASSUME NEW r \in Runners, Trouble(r)
       PROVE  SInv'
  <2>1. CASE Fails(r)
    BY <1>a, <1>b, <2>1, AloneIdle, Turn DEF Fails, Throws, github, stores, Kinds
  <2>2. CASE Dies(r)
    BY <1>a, <1>b, <2>2, AloneIdle, Turn DEF Dies, github, stores, Kinds
  <2>3. CASE CreateUnanswered(r)
    BY <1>a, <1>b, <2>3, Created DEF SInv, CreateUnanswered, Kinds
  <2>4. CASE CreateResent(r)
    BY <1>c, <2>4 DEF CreateResent
  <2>5. QED
    BY <1>11, <2>1, <2>2, <2>3, <2>4 DEF Trouble
<1>12. QED
  BY <1>0, <1>1, <1>2, <1>3, <1>4, <1>6, <1>7, <1>9, <1>10, <1>11 DEF Next, Outside

\* Where runs do not overlap the pull request never has a second comment,
\* whatever fails, dies or is retried and however many people comment.
THEOREM SingleComment == ASSUME Serial PROVE Spec => []OneComment
<1>1. Init => SInv
  BY SerialInit
<1>2. SInv /\ [Next]_vars => SInv'
  BY SerialStep
<1>3. SInv => OneComment
  BY DEF SInv, Thread
<1>4. QED
  BY <1>1, <1>2, <1>3, PTL DEF Spec

\* Where runs do not overlap the findings table holds one run's findings.
THEOREM SingleRunOfFindings == ASSUME Serial PROVE Spec => []OneRunOfFindings
<1>1. Init => SInv
  BY SerialInit
<1>2. SInv /\ [Next]_vars => SInv'
  BY SerialStep
<1>3. SInv => OneRunOfFindings
  BY DEF SInv
<1>4. QED
  BY <1>1, <1>2, <1>3, PTL DEF Spec

-----------------------------------------------------------------------------
\* What the readers see, with at most one comment.
LEMMA ShownIs ==
    SInv => /\ Marked = {} => Shown = 0
            /\ \A m \in Marked : Shown = comments[m].shows /\ Shown \in Nat /\ Shown <= pushed
<1> SUFFICES ASSUME SInv, NEW m \in Marked
             PROVE  Shown = comments[m].shows /\ Shown \in Nat /\ Shown <= pushed
  BY DEF Shown
<1>1. OneComment /\ Marked \in SUBSET Nat
  BY Sizes DEF SInv, Thread, IInv
<1>2. FirstMarked(Marked) = m
  <2>1. \A j \in Marked \cap Marked : m <= j
    BY <1>1 DEF OneComment
  <2>2. \E i \in Marked \cap Marked : \A j \in Marked \cap Marked : i <= j
    BY <2>1
  <2>3. FirstMarked(Marked) \in Marked
    BY <2>2 DEF FirstMarked
  <2>4. QED
    BY <1>1, <2>3 DEF OneComment
<1>3. Shown = comments[m].shows
  BY <1>1, <1>2 DEF Shown
<1>4. comments[m].shows \in {0} \cup Pushes
  BY Sizes DEF SInv, IInv, Marked, Comment
<1>5. QED
  BY <1>3, <1>4, Numbers DEF SInv, IInv, Thread

LEMMA PromiseStep == Serial /\ SInv /\ [Next]_vars => [Published!Next]_<<pushed, Shown>>
<1> SUFFICES ASSUME Serial, SInv, [Next]_vars
             PROVE  Published!Push \/ Published!Publish \/ UNCHANGED <<pushed, Shown>>
  BY DEF Published!Next
<1>a. IInv /\ IInv' /\ TypeOK /\ SInv'
  BY StepInv, SerialStep DEF SInv, IInv
<1>b. /\ Marked = {} => Shown = 0
      /\ \A m \in Marked : Shown = comments[m].shows /\ Shown \in Nat /\ Shown <= pushed
  BY ShownIs
<1>c. /\ Marked' = {} => Shown' = 0
      /\ \A m \in Marked' : Shown' = comments'[m].shows
  <2>1. (SInv => /\ Marked = {} => Shown = 0
                 /\ \A m \in Marked : Shown = comments[m].shows /\ Shown \in Nat /\ Shown <= pushed)'
    BY ShownIs, PTL
  <2>2. QED
    BY <1>a, <2>1
<1>d. ASSUME UNCHANGED comments
      PROVE  UNCHANGED Shown
  BY <1>d DEF Shown, Marked, OneComment, FirstMarked
<1>1. CASE Push
  BY <1>1, <1>d DEF Push, Published!Push
<1>2. CASE HumanPosts
  <2> DEFINE n == Len(comments) + 1
  <2>1. /\ Len(comments') = n /\ comments'[n] = [id |-> nextId, shows |-> 0]
        /\ \A i \in DOMAIN comments : comments'[i] = comments[i]
    BY <1>2, <1>a, Posting DEF HumanPosts
  <2>2. DOMAIN comments' = 1 .. n /\ DOMAIN comments = 1 .. Len(comments) /\ Len(comments) \in Nat
    BY <1>a, <2>1, Sizes DEF IInv
  <2>3. Marked' = Marked /\ \A i \in Marked : comments'[i] = comments[i]
    BY <2>1, <2>2 DEF Marked
  <2>4. QED
    BY <1>2, <1>b, <1>c, <2>3 DEF HumanPosts
<1>3. ASSUME NEW r \in Runners, updateComment(r)
      PROVE  Published!Publish
  <2>1. PICK i \in Marked : comments'[i].shows = run[r].diff /\ comments[i].shows <= run[r].diff
    BY <1>3, <1>a, Updated
  <2>2. Marked' = Marked
    BY <1>3, <1>a, Updated
  <2>3. Shown' = run[r].diff /\ Shown <= run[r].diff /\ Shown \in Nat
    BY <1>b, <1>c, <2>1, <2>2
  <2>4. run[r].diff \in Nat \ {0} /\ run[r].diff <= pushed /\ pushed' = pushed /\ pushed \in Nat
    BY <1>3, <1>a, Numbers DEF updateComment, At, IInv, RunKnows, Unfetched
  <2>5. QED
    BY <2>3, <2>4 DEF Published!Publish
<1>4. ASSUME NEW r \in Runners, createComment(r) \/ CreateUnanswered(r)
      PROVE  Published!Publish
  <2>1. /\ Marked = {} /\ Marked' = {Len(comments) + 1}
        /\ comments'[Len(comments) + 1].shows = run[r].diff
    BY <1>4, <1>a, Created
  <2>2. Shown = 0 /\ Shown' = run[r].diff
    BY <1>b, <1>c, <2>1
  <2>3. run[r].diff \in Nat \ {0} /\ run[r].diff <= pushed /\ pushed' = pushed /\ pushed \in Nat
    BY <1>4, <1>a, Numbers
       DEF createComment, CreateUnanswered, At, IInv, RunKnows, Unfetched, stores
  <2>4. QED
    BY <2>2, <2>3 DEF Published!Publish
<1>5. CASE UNCHANGED <<pushed, comments>>
  BY <1>5, <1>d
<1>6. ASSUME NEW r \in Runners, Step(r) \/ Trouble(r)
      PROVE  \/ UNCHANGED <<pushed, comments>> \/ updateComment(r)
             \/ createComment(r) \/ CreateUnanswered(r)
  <2>1. ~ CreateResent(r)
    BY DEF CreateResent, Spend, SInv
  <2>2. CASE Step(r)
    BY <2>2 DEF Step, resolveHeadSha, FetchDiff, ReviewPass, ReplaceDeletes, ReplaceCommits,
                NoReview, processPrIntoDeck, NoDeckSaved, ListPage, github
  <2>3. CASE Trouble(r)
    BY <2>1, <2>3 DEF Trouble, Fails, Dies, github
  <2>4. QED
    BY <1>6, <2>2, <2>3
<1>7. CASE enqueue \/ Take \/ \E c \in Clis : runReviewCommand(c) \/ ReadBack(c) \/ Exits(c)
  BY <1>5, <1>7 DEF enqueue, Take, TakeJob, runReviewCommand, ReadBack, Exits, github
<1>8. ~ \E i \in DOMAIN comments : HumanDeletes(i)
  BY DEF HumanDeletes, Spend, SInv
<1>9. CASE UNCHANGED vars
  BY <1>5, <1>9 DEF vars
<1>10. QED
  BY <1>1, <1>2, <1>3, <1>4, <1>5, <1>6, <1>7, <1>8, <1>9 DEF Next, Outside

\* Where runs do not overlap the pipeline implements PublishedReview: one
\* comment, edited in place, that never goes back to an older push.
THEOREM PromiseKept == ASSUME Serial PROVE Spec => KeepsPromise
<1>1. Init => SInv
  BY SerialInit
<1>2. SInv /\ [Next]_vars => SInv'
  BY SerialStep
<1>3. SInv /\ [Next]_vars => [Published!Next]_<<pushed, Shown>>
  BY PromiseStep
<1>4. Init => Published!Init
  BY DEF Init, Published!Init, Shown, Marked
<1>5. QED
  BY <1>1, <1>2, <1>3, <1>4, PTL DEF Spec, KeepsPromise, Published!Spec
=============================================================================
