--------------------------- MODULE ReviewPipeline ---------------------------
(***************************************************************************)
(* One pull request and the review runs over it.  A run (the worker's job  *)
(* or the CLI) resolves the head, fetches the diff, reviews it, replaces   *)
(* the stored findings, saves the deck and upserts one comment, each step  *)
(* an await: pushes, human comments, other runs and crashes fall between   *)
(* any two of them.  Findings, deck and head lookup are best effort; the   *)
(* diff and the comment fail the job, which BullMQ runs again from the     *)
(* start.  Contents are named by the push they were computed from.         *)
(***************************************************************************)
EXTENDS Naturals, Sequences, FiniteSets, SequencesExt

CONSTANTS
    Workers,     \* review worker processes (one job at a time each)
    Clis,        \* concurrent `diffsense review` commands
    Attempts,    \* how often BullMQ runs a failing job
    PageSize,    \* comments per page of the marker scan
    MaxPages,    \* MAX_COMMENT_PAGES
    Limit        \* bound: how often each kind of outside event happens

Runners == Workers \cup Clis

Kinds == {"push", "job", "cli", "fail", "death", "resend", "post", "delete"}

ASSUME LimitAssumption == Limit \in [Kinds -> Nat]
ASSUME ScanAssumption ==
    Attempts \in Nat \ {0} /\ PageSize \in Nat \ {0} /\ MaxPages \in Nat \ {0}

VARIABLES
    pushed,      \* pushes so far: the head of the PR is commit `pushed`
    queued,      \* queued[t]: waiting review jobs that already failed t times
    run,         \* run[r]: the run process r is in, or Idle
    started,     \* runs started so far: the number of the newest run
    comments,    \* the PR's comments in listing order
    nextId,      \* id of the next comment
    findings,    \* runs whose findings are in the findings table
    decks,       \* decks[h]: the deck row of head h, or NoDeck
    left         \* left[k]: events of kind k that can still happen

vars == <<pushed, queued, run, started, comments, nextId, findings, decks, left>>
github == <<pushed, comments, nextId>>
stores == <<findings, decks>>

Pushes == 1 .. Limit["push"] + 1

\* A comment shows 0 (a human's) or the push whose review it carries.
Comment == [id : Nat, shows : {0} \cup Pushes]

\* The cards of diff `of`, folded with the findings of run `with` (0: none).
Deck == [of : Pushes, with : Nat]
NoDeck == [of |-> 0, with |-> 0]

Idle == [pc |-> "idle", no |-> 0, tries |-> 0, head |-> 0, diff |-> 0,
         found |-> 0, doomed |-> {}, page |-> 1, target |-> 0, deck |-> NoDeck]

Spend(k) == left[k] > 0 /\ left' = [left EXCEPT ![k] = @ - 1]

At(r, pc) == run[r].pc = pc
Become(r, state) == run' = [run EXCEPT ![r] = state]
Goto(r, pc) == Become(r, [run[r] EXCEPT !.pc = pc])

-----------------------------------------------------------------------------
(* GitHub (external).                                                      *)

Push ==
    /\ Spend("push")
    /\ pushed' = pushed + 1
    /\ UNCHANGED <<queued, run, started, comments, nextId, stores>>

Post(shows) ==
    /\ comments' = Append(comments, [id |-> nextId, shows |-> shows])
    /\ nextId' = nextId + 1

HumanPosts ==
    /\ Spend("post")
    /\ Post(0)
    /\ UNCHANGED <<pushed, queued, run, started, stores>>

HumanDeletes(i) ==
    /\ comments[i].shows = 0
    /\ Spend("delete")
    /\ comments' = RemoveAt(comments, i)
    /\ UNCHANGED <<pushed, nextId, queued, run, started, stores>>

-----------------------------------------------------------------------------
(* The review queue.                                                       *)

\* A webhook delivery or POST /decks whose delivery id BullMQ does not know.
\* The job carries no more than the PR, so jobs differ by their tries only.
enqueue ==
    /\ Spend("job")
    /\ queued' = [queued EXCEPT ![0] = @ + 1]
    /\ UNCHANGED <<github, run, started, stores>>

Start(r, tries) ==
    /\ At(r, "idle")
    /\ started' = started + 1
    /\ Become(r, [Idle EXCEPT !.pc = "head", !.no = started + 1, !.tries = tries])

TakeJob(w, tries) ==
    /\ queued[tries] > 0
    /\ queued' = [queued EXCEPT ![tries] = @ - 1]
    /\ Start(w, tries)
    /\ UNCHANGED <<github, stores, left>>

runReviewCommand(c) ==
    /\ Spend("cli")
    /\ Start(c, 0)
    /\ UNCHANGED <<github, queued, stores>>

Requeue(r, tries) ==
    IF r \in Workers /\ tries < Attempts
    THEN queued' = [queued EXCEPT ![tries] = @ + 1]
    ELSE UNCHANGED queued

\* The run throws: BullMQ tries the job again until its attempts are used
\* up, the CLI exits with an error.
Throws(r) == Become(r, Idle) /\ Requeue(r, run[r].tries + 1)

\* No installation token, no diff, no page of comments or a refused write.
Fails(r) ==
    /\ run[r].pc \in {"head", "diff", "list", "update", "create"}
    /\ Spend("fail")
    /\ Throws(r)
    /\ UNCHANGED <<github, started, stores>>

\* The process dies; its open transaction rolls back.  BullMQ finds a
\* worker's job stalled and lets it run again.
Dies(r) ==
    /\ run[r].pc # "idle"
    /\ Spend("death")
    /\ Become(r, Idle)
    /\ Requeue(r, run[r].tries)
    /\ UNCHANGED <<github, started, stores>>

-----------------------------------------------------------------------------
(* runReviewForRef and handlePullRequestEvent, one action per await.       *)

\* A failed lookup leaves the head unresolved (0).
resolveHeadSha(r) ==
    /\ At(r, "head")
    /\ \E head \in {pushed, 0} :
          Become(r, [run[r] EXCEPT !.pc = "diff", !.head = head])
    /\ UNCHANGED <<github, queued, started, stores, left>>

\* Mutant: the diff may come from a cache filled at the first push.
FetchCachedDiff(r) ==
    /\ At(r, "diff")
    /\ \E diff \in {1, pushed} :
          Become(r, [run[r] EXCEPT !.pc = "review", !.diff = diff])
    /\ UNCHANGED <<github, queued, started, stores, left>>

FetchDiff(r) ==
    /\ At(r, "diff")
    /\ Become(r, [run[r] EXCEPT !.pc = "review", !.diff = pushed])
    /\ UNCHANGED <<github, queued, started, stores, left>>

\* The agentic pass ends, perhaps without a single finding.
ReviewPass(r) ==
    /\ At(r, "review")
    /\ \E found \in {run[r].no, 0} :
          Become(r, [run[r] EXCEPT !.pc = "delete", !.found = found])
    /\ UNCHANGED <<github, queued, started, stores, left>>

\* Mutant: the new findings are inserted without the DELETE.
ReplaceAppends(r) ==
    /\ At(r, "delete")
    /\ Goto(r, "commit")
    /\ UNCHANGED <<github, queued, started, stores, left>>

\* replaceForPr, a READ COMMITTED transaction: the DELETE dooms the rows
\* committed when it starts, the INSERT shows at the commit.
ReplaceDeletes(r) ==
    /\ At(r, "delete")
    /\ Become(r, [run[r] EXCEPT !.pc = "commit", !.doomed = findings])
    /\ UNCHANGED <<github, queued, started, stores, left>>

ReplaceCommits(r) ==
    /\ At(r, "commit")
    /\ findings' = (findings \ run[r].doomed) \cup ({run[r].found} \ {0})
    /\ Become(r, [run[r] EXCEPT !.pc = "deck", !.doomed = {}])
    /\ UNCHANGED <<github, queued, started, decks, left>>

\* Mutant: a failed review pass fails the whole run.
NoReviewThrows(r) ==
    /\ run[r].pc \in {"review", "delete", "commit"}
    /\ Throws(r)
    /\ UNCHANGED <<github, started, stores, left>>

\* No LLM is configured, or the pass or its transaction throws: the run goes
\* on without findings.
NoReview(r) ==
    /\ run[r].pc \in {"review", "delete", "commit"}
    /\ Become(r, [run[r] EXCEPT !.pc = "deck", !.found = 0, !.doomed = {}])
    /\ UNCHANGED <<github, queued, started, stores, left>>

\* Mutant: the deck is saved under the head of the moment.
DeckUnderLiveHead(r) ==
    /\ At(r, "deck") /\ run[r].head # 0
    /\ decks' = [decks EXCEPT ![pushed] = [of |-> run[r].diff, with |-> run[r].found]]
    /\ Goto(r, "list")
    /\ UNCHANGED <<github, queued, started, findings, left>>

processPrIntoDeck(r) ==
    /\ At(r, "deck") /\ run[r].head # 0
    /\ decks' = [decks EXCEPT ![run[r].head] = [of |-> run[r].diff, with |-> run[r].found]]
    /\ Goto(r, "list")
    /\ UNCHANGED <<github, queued, started, findings, left>>

\* The head is unresolved, or building or saving the deck throws.
NoDeckSaved(r) ==
    /\ At(r, "deck")
    /\ Goto(r, "list")
    /\ UNCHANGED <<github, queued, started, stores, left>>

-----------------------------------------------------------------------------
(* upsertReviewComment: page by page to the first marked comment.          *)

Page(k) == {i \in DOMAIN comments : (k - 1) * PageSize < i /\ i <= k * PageSize}
Marked == {i \in DOMAIN comments : comments[i].shows # 0}
FirstMarked(S) == CHOOSE i \in S \cap Marked : \A j \in S \cap Marked : i <= j

\* Mutant: only the first page is searched.
ListFirstPage(r) ==
    /\ At(r, "list")
    /\ \/ /\ Page(1) \cap Marked # {}
          /\ Become(r, [run[r] EXCEPT !.pc = "update",
                                      !.target = comments[FirstMarked(Page(1))].id])
       \/ Page(1) \cap Marked = {} /\ Goto(r, "create")
    /\ UNCHANGED <<github, queued, started, stores, left>>

\* Mutant: the page limit is off by one.
ListOnePageMore(r) ==
    LET page == run[r].page IN
    /\ At(r, "list")
    /\ \/ /\ Page(page) \cap Marked # {}
          /\ Become(r, [run[r] EXCEPT !.pc = "update",
                                      !.target = comments[FirstMarked(Page(page))].id])
       \/ /\ Page(page) \cap Marked = {}
          /\ Len(comments) < page * PageSize \/ page > MaxPages
          /\ Goto(r, "create")
       \/ /\ Page(page) \cap Marked = {}
          /\ Len(comments) >= page * PageSize /\ page <= MaxPages
          /\ Become(r, [run[r] EXCEPT !.page = page + 1])
    /\ UNCHANGED <<github, queued, started, stores, left>>

ListPage(r) ==
    LET page == run[r].page IN
    /\ At(r, "list")
    /\ \/ /\ Page(page) \cap Marked # {}
          /\ Become(r, [run[r] EXCEPT !.pc = "update",
                                      !.target = comments[FirstMarked(Page(page))].id])
       \/ /\ Page(page) \cap Marked = {}
          /\ Len(comments) < page * PageSize \/ page = MaxPages
          /\ Goto(r, "create")
       \/ /\ Page(page) \cap Marked = {}
          /\ Len(comments) >= page * PageSize /\ page < MaxPages
          /\ Become(r, [run[r] EXCEPT !.page = page + 1])
    /\ UNCHANGED <<github, queued, started, stores, left>>

\* The worker acknowledges its job and is idle; the CLI reads its deck back.
Finish(r) == Become(r, IF r \in Clis THEN [run[r] EXCEPT !.pc = "readback"] ELSE Idle)

updateComment(r) ==
    /\ At(r, "update")
    /\ \E i \in DOMAIN comments :
          /\ comments[i].id = run[r].target
          /\ comments' = [comments EXCEPT ![i].shows = run[r].diff]
    /\ Finish(r)
    /\ UNCHANGED <<pushed, nextId, queued, started, stores, left>>

createComment(r) ==
    /\ At(r, "create")
    /\ Post(run[r].diff)
    /\ Finish(r)
    /\ UNCHANGED <<pushed, queued, started, stores, left>>

\* The comment is created but the answer is an error, and the client gives up.
CreateUnanswered(r) ==
    /\ At(r, "create")
    /\ Spend("fail")
    /\ Post(run[r].diff)
    /\ Throws(r)
    /\ UNCHANGED <<pushed, started, stores>>

\* The comment is created but the answer is a 5xx: plugin-retry sends the
\* request again.
CreateResent(r) ==
    /\ At(r, "create")
    /\ Spend("resend")
    /\ Post(run[r].diff)
    /\ UNCHANGED <<pushed, queued, run, started, stores>>

-----------------------------------------------------------------------------
(* The CLI prints the deck it reads back with the findings of its run.     *)

ReadBack(c) ==
    /\ At(c, "readback")
    /\ Become(c, [run[c] EXCEPT !.pc = "printed",
                    !.deck = IF run[c].head = 0 THEN NoDeck ELSE decks[run[c].head]])
    /\ UNCHANGED <<github, queued, started, stores, left>>

Exits(c) ==
    /\ At(c, "printed")
    /\ Become(c, Idle)
    /\ UNCHANGED <<github, queued, started, stores, left>>

-----------------------------------------------------------------------------
Init ==
    /\ pushed = 1
    /\ queued = [t \in 0 .. Attempts - 1 |-> 0]
    /\ run = [r \in Runners |-> Idle]
    /\ started = 0
    /\ comments = << >>
    /\ nextId = 1
    /\ findings = {}
    /\ decks = [h \in Pushes |-> NoDeck]
    /\ left = Limit

Outside == Push \/ HumanPosts \/ (\E i \in DOMAIN comments : HumanDeletes(i)) \/ enqueue

Step(r) ==
    \/ resolveHeadSha(r) \/ FetchDiff(r)
    \/ ReviewPass(r) \/ ReplaceDeletes(r) \/ ReplaceCommits(r) \/ NoReview(r)
    \/ processPrIntoDeck(r) \/ NoDeckSaved(r)
    \/ ListPage(r) \/ updateComment(r) \/ createComment(r)

Trouble(r) == Fails(r) \/ Dies(r) \/ CreateUnanswered(r) \/ CreateResent(r)

Take == \E w \in Workers, t \in 0 .. Attempts - 1 : TakeJob(w, t)

Next ==
    \/ Outside \/ Take
    \/ \E c \in Clis : runReviewCommand(c) \/ ReadBack(c) \/ Exits(c)
    \/ \E r \in Runners : Step(r) \/ Trouble(r)

Spec == Init /\ [][Next]_vars

(* Fairness: a worker process keeps working, on the queue and on its run.  *)
(* Nothing is assumed of the outside, of the CLI or of what fails.         *)
FairSpec == Spec /\ WF_vars(Take) /\ \A w \in Workers : WF_vars(Step(w))
-----------------------------------------------------------------------------
Stages == {"idle", "head", "diff", "review", "delete", "commit", "deck", "list",
           "update", "create", "readback", "printed"}

RunState ==
    [pc : Stages, no : Nat, tries : 0 .. Attempts - 1, head : {0} \cup Pushes, diff : {0} \cup Pushes,
     found : Nat, doomed : SUBSET Nat, page : 1 .. MaxPages, target : Nat,
     deck : Deck \cup {NoDeck}]

TypeOK ==
    /\ pushed \in Pushes
    /\ queued \in [0 .. Attempts - 1 -> Nat]
    /\ run \in [Runners -> RunState]
    /\ started \in Nat
    /\ comments \in Seq(Comment)
    /\ nextId \in Nat
    /\ findings \subseteq Nat
    /\ decks \in [Pushes -> Deck \cup {NoDeck}]
    /\ left \in [Kinds -> Nat]

\* "exactly one diffsense comment per PR" (upsertReviewComment): whatever runs
\* fail, die or repeat, and however many comments surround it, no second one.
OneComment == \A i, j \in Marked : i = j

\* "keeps exactly one run's findings live" (replaceForPr).
OneRunOfFindings == \A f, g \in findings : f = g

\* The row of a head never holds the cards of an older push: a reviewer who
\* opens the newest deck does not swipe through code that was replaced
\* (resolveHeadSha before the diff, processPrIntoDeck after it).
DeckIsNotStale == \A h \in Pushes : decks[h] # NoDeck => decks[h].of >= h

\* "Keyed by head SHA so a new push gets a fresh deck and never overwrites the
\* one a reviewer is mid-swipe through" (decks, DeckRef): the row of a head
\* holds the cards of that head.
DeckOfItsHead == \A h \in Pushes : decks[h] # NoDeck => decks[h].of = h

\* The push the comment shows; with two comments, none that could be meant.
Shown == IF Marked = {} THEN 0
         ELSE IF OneComment THEN comments[FirstMarked(Marked)].shows
         ELSE Limit["push"] + 2

Published == INSTANCE PublishedReview WITH shown <- Shown

\* The pipeline keeps the promise of PublishedReview: one comment, edited in
\* place, that never goes back to an older push (upsertReviewComment, worker).
KeepsPromise == Published!Spec

\* A push whose job is waiting is shown in the end, though the head lookup,
\* the review, the findings transaction and the deck may fail on every run
\* ("the guaranteed ranked comment", handlePullRequestEvent).
PushIsShown ==
    \A p \in Pushes :
        pushed = p /\ (\E t \in 0 .. Attempts - 1 : queued[t] > 0) ~> Shown >= p
=============================================================================
