# A formal model of diffsense

TLA+ specifications of diffsense, the pull-request reviewer in this repository:
what its processes do to the state they share, the properties that must survive
every interleaving, crash, retry and lost message, the TLC runs that check them
on small instances, and TLAPS proofs of the most important ones for instances
of every size. Names in the modules are the names of the functions they model,
wherever a step is one function; `PROJECT.json` maps every definition to the
lines it stands for.

    tlc -config ReviewSerial.cfg MCReviewPipeline.tla     # one run
    tlapm ReviewPipelineProofs.tla                        # one module of proofs

## 1. The system

GitHub delivers webhooks to the **ingress**, which puts jobs on two BullMQ
queues. **Review workers** take review jobs: resolve the head, fetch the diff,
rank its hunks, let a model read the risky ones, store findings and a deck of
cards, and upsert one comment on the PR. **Status workers** record whether PRs
are open, merged or closed, from deliveries and from a repeating poll. The
**web app** lets a reviewer sign in with GitHub and swipe through the deck;
each swipe is stored so that a reload resumes. The **CLI** does a review run
without the queue. Everything persistent is in Postgres, Redis and GitHub.

| Component | State it keeps | Operations | What is hard | What makes it correct |
|---|---|---|---|---|
| Webhook ingress (`ingress/server.ts`) | none | accept, verify, enqueue | lost and repeated deliveries; queue down: 503 and redelivery | each accepted event becomes a job |
| Queues (`queue/producer.ts`, BullMQ) | jobs, job ids, repeat schedule | add, take, retry, stall | repeated ids, retries from the start, dead workers | no job is lost; a repeat is harmless |
| Status sync (`worker/statusWorker.ts`, `adapters/prStatusStore.ts`) | `pr_status` rows | update, seed, poll a batch | out-of-order deliveries, poll against webhook, unreadable PRs | archived is truthful; only a reopen revives; ends are noticed |
| Review pipeline (`worker/reviewRunner.ts`, `handlePullRequestEvent.ts`) | findings, decks, the PR's comment | head, diff, review, findings, deck, comment | best-effort steps, retries, pushes in the middle, concurrent runs | one comment that moves forward; one run's findings; a deck of its head |
| Comment adapter (`adapters/github.ts`) | the marked comment on GitHub | paged scan, update, create | scan and create are separate requests; page limit | exactly one marked comment |
| Ranking (`core/rank`, `core/diff`) | none | score, sort, tier | ties, rounding, machine-written files | deterministic; the first are the riskiest real changes |
| Review pass and deck (`core/review`, `core/deck`) | fingerprint cache | select, review, cache, join | joins by anchor and by fingerprint; failure half way; reuse over runs | every hunk on its card; a review is shown for its own change only |
| Swipe deck (`apps/web`, `SwipeDeck.tsx`, `actions.ts`, `lib/reviewProgress.ts`) | React state, `review_progress`, `reactions` | swipe, animate, send, store, resume | writes never waited for, tabs, timers against renders | no card skipped; resume is exact |
| Sign-in and session (`lib/auth`) | `web_sessions`, cookie, GitHub's tokens | callback, getSession, refresh, sign out | concurrent refreshes of a single-use token | the row stays usable; signed out for good |
| Dashboard (`lib/reviewProgress.ts`, `app/reviews`) | none; reads three tables | read, split active / archived, link | reads at different moments, decks stored in between | every begun deck is listed once; a fresh row leads to its own deck |
| Deck page (`deck/page.tsx`) | what one load has read | read deck, decisions, staleness, comments, files; render again in another language | five reads at different moments; a swipe deck that outlives the cards it was opened with | no position behind an unseen card |
| Card comments (`actions.ts`, `lib/prComments.ts`, `lib/github.ts`) | `pr_comments`, GitHub | anchor, post, fall back, record, answer | new deck in between, failure after posting, lost answers | one comment per submit; at its card's lines; true answers |
| Localization (`core/localize`, `lib/localize.ts`) | translation cache | bounded pool, cache, fallback | concurrency, malformed rows, provider drift | every card once; no prompt lost |
| Card view (`lib/codeWindow.ts`, `lib/deck.ts`) | none | read files, windows, deletion note, anchor | clamping, merging, capped and failed reads | every changed line is shown; the anchor is in the diff |
| Loaders (`AddRepositoriesModal.tsx`, `PullsList.tsx`, `repos/actions.ts`) | React state and refs | open, load, close, refocus, sync | late answers of abandoned loads; lists read page by page while they move | no stale answer is shown; a spinner waits for something |

The remaining parts are listed with the reason they are left out in section 8.

Interaction: ingress to workers through the queues only; review worker and CLI
to the web app through `decks` and `findings`; a review run seeds `pr_status`;
the web app never calls the workers. Within a tab the router runs one server
action at a time, so that a comment, a language switch and a swipe's write wait
for each other.

## 2. Modules

| Module | Models |
|---|---|
| `PrStatus`, `MCPrStatus`, `PrStatusProofs` | the status table under webhook jobs, review seeds and polls |
| `PublishedReview` | abstract: the review a reader of the PR sees, and how it may change |
| `ReviewPipeline`, `MCReviewPipeline` | review runs of workers and CLIs over one PR, request by request |
| `ReviewPipelineProofs` | its proofs: for any runners, and for a single one |
| `RiskRanking` | scores, order, tiers, anchors, fingerprints, highlights (operators only) |
| `ReviewDeck`, `MCReviewDeck` | EXTENDS RiskRanking: what a run makes of a diff, over one cache |
| `CardView` | EXTENDS ReviewDeck: the code and the anchor that the page gives a card |
| `ReviewDeckProofs` | the proofs of these three |
| `SwipeSession`, `MCSwipeSession`, `SwipeSessionProofs` | a reviewer swiping through one deck in several tabs; its proofs |
| `DeckPage`, `DeckPageProofs` | one tab's deck page: loads, comments, language; its proofs |
| `ReviewsDashboard`, `ReviewsDashboardProofs` | EXTENDS DeckPage: the listing of started reviews; its proofs |
| `CardLocalization` | the translation of a deck by a pool of workers |
| `RepoPicker` | the "Add repositories" dialog |
| `PullsPage` | the list of open pull requests and its syncs |
| `ReviewerTab`, `MCReviewerTab`, `ReviewerTabProofs` | composes the five above: a tab that goes from page to page; proofs of the dialog, the list, the translation and the composition |
| `WebSession`, `MCWebSession`, `WebSessionProofs` | a browser's sign-ins and concurrent requests; its proofs |

**PrStatus.** `gh` is the truth on GitHub, `events` the deliveries it caused,
`jobs` the queue, `row` the table with the order of `synced_at` in `older`; the
poll keeps its local variables per worker (`left`, `group`, `toSync`, `write`).
Every await of `runStatusPoll` separates two actions; `recordStatus` and
`seedOpen` are single statements and so single steps. Time stamps are kept as an
order, not as numbers.

**ReviewPipeline.** One PR. A run is a record with a program counter; contents
are named by the push they come from, so "which code does this comment show" is
a number. The actions are the requests of a run in the code's order, each with
its failure: head lookup (best effort), diff (fails the job), review, the delete
and the insert of `replaceForPr` (rolled back together by a death), deck, one
action per page of the scan, update, create, and the two ways in which a create
may be answered wrongly. GitHub's side (push, people commenting and deleting)
moves at any moment.

**PublishedReview.** The state is the review shown, or none. It may appear,
and may be replaced by the same or a newer one; never by an older one, and never
vanish. `KeepsPromise` maps `ReviewPipeline` to it through `INSTANCE ... WITH`.

**RiskRanking, ReviewDeck.** A diff is the sequence of its hunks. What regular
expressions find in paths and lines is given by the constants `PathInfo` and
`TextInfo`; the score is kept as the integer 4^score, whose order is that of the
real one. White space inside a line is not modelled: a text stands for its
class under the normalisation of `fingerprintChunk`. The note
`\ No newline at end of file` is one more change of the type and line number of
the change before it: that is what parse-diff 0.11.1 reports, which is not in this
repository. `highlightsOf` lists that number twice, and `coalesce` makes of it one
more range of a single line. A review tells which lines it was written about, so
that a card that shows another hunk's review is visible in the state. A sort is
an arrangement of the elements by an order (`Arranged`, or `Sorted` for numbers,
repeated ones included), a filter picks places of a sequence (`Sublist`), and a
loop that builds up a list is a recursive function of the number of elements
taken (`coalesce`, `mergeWindows`). A run may find rows of the cache
unreadable, as after a change of the review's schema; they are misses. That no
two hunks of a diff have one anchor is an assumption on the diffs
(`AnchorAssumption`): hunks of a file do not overlap; that a note is the last
change of its type is another (`NoteAssumption`).

**SwipeSession.** A handler sees `rendered`, the index of the last render, not
`index`, the one that was set: React renders an event's updates before the next
event, a timer's in a later task. The router sends one server action of a tab
at a time. `decision` is the table, `log` the reviewer's history.

**CardView.** A file is the number of its lines, since the window only selects
line numbers. `CardShowsItsChange` and `CommentSitsOnTheDiff` are stated of the
finished deck, for every length of file and every set of files that could not
be read. For a deletion the first says the count that the code makes, which is one
too many when the last of the lines has no newline.

**WebSession.** Token pairs are numbered in the order GitHub issues them; only
the newest works and its refresh token works once.

**DeckPage.** A head is a number, its deck a sequence of cards with a
fingerprint and the line of their first added range (`Deletion` if there is
none). `decks` is ordered by `created_at`. A load has a set `todo` of reads that
run side by side; each is a step and may fail in the way the code tolerates.
`Show` with `refresh` keeps the swipe deck's state, as React does for an element
without a `key`. A comment is a record with a program counter that goes through
the action's requests; the page's `outbox` and `sending` are the router's queue.
A swipe's write lands at once or is lost (`SwipeSession` has its steps), the
session and the deck of `postCardComment` are read in one step, and a load is
not interrupted by another one. Cards of one deck may be twins, with the same
fingerprint; a comment remembers the card it was written on, and goes to the
lines of the first of its twins (`LineOf`), as `deck.cards.find` has it. A later
review of the same head stores its deck in the same row; here it has the same
cards, since they are a function of the head. That a row may have the cards of
another push is the subject of `ReviewPushDuringRun`. `comments` are the
comments that GitHub ever created for the page.

**ReviewsDashboard.** `ReadProgress`, then `ReadDecks` and `ReadStatus` in either
order; `summarizeSessions` runs on what was read.

**CardLocalization.** The workers of `mapWithConcurrency` share a cursor; a card
is in one worker's hand at the stages of its cache read, its translation and its
save. A text is its language and its number of prompts, all that
`preservesSuggestionCount` looks at.

**RepoPicker.** The dialog's state and refs (`genRef`, the in-flight guard, what
the last render saw) and the queue of its server-action calls, which the router
answers in order. The "opened" hints and the filter box are left out.

**PullsPage.** GitHub's list is in order of last update, and a fetch takes it
page by page while it changes. `since` and `prev` exist for the properties only.

**ReviewerTab.** The variable `at` says which page the tab is on. Dashboard and
deck share the decisions and the decks; the other pages share only the router
and the session, so a step of one leaves the others' variables alone.

Definitions under a comment `Mutant:` are plausible mistakes in the definition
they precede. No action uses them; replacing the definition by its mutant makes
the property violated that `PROJECT.json` names, which shows that the property
depends on that line of the code.

## 3. Runs

| Run | Checks | States |
|---|---|---|
| `PrStatusRuns` | `TypeOK`, `ArchivedIsTruthful` (an archived row names an end the PR really reached), `OnlyReopenRevives` (only a reopen's job takes a row back to open), `OfflineEndIsNoticed` (with no delivery at all the poll finds the end of a readable PR, behind a batch of one filled by an unreadable PR) | 372 thousand |
| `ReviewSerial` | one worker: `OneComment`, `OneRunOfFindings`, `KeepsPromise` (refinement), `PushIsShown` (liveness) | 255 thousand |
| `ReviewConcurrent` | worker and CLI, resent requests, deletions: `TypeOK`, `DeckIsNotStale` (a deck row never holds code older than its head) | |
| `ReviewTwoRuns` | **violated**: `OneComment` with a CLI run beside the worker | |
| `ReviewPushDuringRun` | **violated**: `DeckOfItsHead` when a push falls between head lookup and diff | |
| `ReviewDeckRuns` | two runs over one cache: `TypeOK`, `EveryHunkOnItsCard`, `NoFindingLost`, `ReviewIsOfItsChange`, `AttentionFirst`, `OrderOfFilesIrrelevant`; for every length and failure of the files `CardShowsItsChange`, `CommentSitsOnTheDiff` | 107 thousand |
| `ReviewDashedLines` | **violated**: `ReviewIsOfItsChange` for a deleted line that begins with two dashes | |
| `SwipeMixed` | two tabs, one animated: `TypeOK`, `NoCardSkipped`, `DoneMeansSeen`, `ResumeIsExact` | |
| `SwipeKeyAfterTimer` | **violated**: `NoCardSkippedAnimated` for a key between timer and render | |
| `WebSessionRefresh` | three concurrent requests: `TypeOK`, `RowIsUsable`, `SignedOutForGood` | |
| `ReviewerTab` | comments: `OneCommentPerSubmit`, `AnswerIsTrue`, `CommentIsOnItsCard`, `ShownCommentsAreReal`; resuming: `NothingPassedUnreviewed`; dashboard: `ContinueIsHonest`, `StartedWorkIsListed`; translation: `EveryCardOnce`, `NoPromptLost`; dialog: `ClosedIsIdle`, `SpinnerHasLoad`, `OpenShowsInstalled`; list: `SyncedViewIsCurrent`, `MarkersAreOfLastSync`, `LeftPageIsQuiet` | 1.4 million |
| `DeckLanguageSwitch` | **violated**: `DoneMeansReviewed` when the language is picked after a new deck was stored | |

Deadlock is not checked in the runs whose outside world is bounded: a system
whose pushes, swipes, loads or sign-ins are used up rests, as the real one does.
`PrStatusRuns` does check it: a poll is always due again.

### Bounds

- *PrStatus.* Two events give close and reopen, or a close on each PR; two sends
  reorder them, repeat one or lose either. With a batch of one, starvation needs
  only one other PR. One worker: liveness is checked on this run and TLC's graph
  would be too large with two; the three safety properties are proved for any
  workers, events, repeats and deaths.
- *ReviewPipeline.* One more push than the first makes every "older against
  newer" case; `PageSize` 2 and `MaxPages` 2 put the marker before, on and
  behind a page border with three human comments; two jobs with two attempts
  overlap in the queue; one failure and one death fall on every step.
- *ReviewDeck.* Shares of 20 and 30 per cent are distinguished by 1, 2, 5 and 8
  hunks (8 is the first diff with two High hunks). Three hunks in one file is
  the least at which an old-side and a new-side anchor have the same number.
  Two runs: one fills the cache the other reads, in part if rows are unreadable.
  Hunks that add, replace or delete a last line without a newline are among the
  shapes.
- *CardView.* Files of 2, 4 and 12 lines end before, inside and behind the
  context of a change; one line of context makes windows overlap, touch and stay
  apart. The diffs of five and eight hunks reach
  three files, one more than the cap.
- *SwipeSession.* Two cards and three swipes over two tabs contain every race of
  two tabs for one card; the animated skip needs three cards.
- *WebSession.* Three requests: two that refresh and one that signs out. Two
  sign-ins tell a request's session from the cookie's. The requests are
  symmetric and no property is a liveness property, so the symmetry is sound.
- *ReviewerTab.* One push gives two heads: the first deck has two twins, the
  second a card of their fingerprint at another line and one without added lines; three loads are one before, one
  during and one after the push. One comment suffices since comments share only
  the order of the outbox (proved for any number). Three cards and two workers
  make the cursor pass a busy worker; two renders reuse the cache. Three openings
  let the load of the first arrive in the third. Pages of two and four pull
  requests make lists of one and two pages, the last one full or not; a change
  between two page reads repeats or skips an entry.

### Fairness

- `ReviewPipeline`: weak fairness of each worker's own step and of taking a job.
  A worker process that is alive continues its run; deaths and failures are
  bounded, which stands for "not for ever". Nothing is assumed of GitHub's users
  or of the CLI.
- `PrStatus`: weak fairness of the tick and of a started poll's steps, strong
  fairness of starting a poll (webhook jobs compete for the worker) and of a
  readable PR being read and written: a read may fail by rate limits now and
  then, not for ever. No fairness of deliveries: they may all be lost.

The other modules state safety only and have no fairness. Of a tab nothing must
ever happen: the reviewer may leave it.

## 4. What is proved

All theorems hold for every value of the constants under the named assumptions
of the modules (`BoundsAssumption`, `LimitAssumption`, `ScanAssumption` and the
like: bounds are natural numbers, page sizes and attempts positive; the two
assumptions on diffs of section 2). No theorem about the deck page needs
the cards of a deck to have different fingerprints.

| Theorem | Statement |
|---|---|
| `PrStatusProofs!TypeCorrect`, `TruthfulArchive`, `NoResurrection` | `Spec => []TypeOK`, `[]ArchivedIsTruthful`, `OnlyReopenRevives` |
| `ReviewPipelineProofs!TypeCorrect`, `FreshDecks` | `Spec => []TypeOK`, `[]DeckIsNotStale` |
| `ReviewPipelineProofs!SingleComment`, `SingleRunOfFindings` | `Spec => []OneComment`, `[]OneRunOfFindings` |
| `ReviewPipelineProofs!PromiseKept` | `Spec => KeepsPromise`: the pipeline implements `PublishedReview` |
| `ReviewDeckProofs!DeckTypeCorrect`, `WholeDiffOnCards`, `EveryFindingShown` | `Spec => []TypeOK`, `[]EveryHunkOnItsCard`, `[]NoFindingLost` |
| `ReviewDeckProofs!RiskyPartsFirst`, `RankingIsOfTheChange` | `Spec => []AttentionFirst`, `[]OrderOfFilesIrrelevant` |
| `ReviewDeckProofs!ReviewsOfOwnChange` | `Spec => []ReviewIsOfItsChange`, if no changed line prints as a file header |
| `ReviewDeckProofs!CardsShowTheChange`, `CommentOnChangedLines` | `Spec => []CardShowsItsChange`, `[]CommentSitsOnTheDiff` |
| `WebSessionProofs!TypeCorrect`, `UsableRow`, `SignedOut` | `Spec => []TypeOK`, `[]RowIsUsable`, `SignedOutForGood` |
| `SwipeSessionProofs!TypeCorrect`, `NothingSkipped` | `Spec => []TypeOK`, `[]NoCardSkipped` |
| `SwipeSessionProofs!DoneIsHonest`, `ResumesExactly` | `Spec => []DoneMeansSeen`, `[]ResumeIsExact`, if no two cards share a fingerprint |
| `DeckPageProofs!CommentedOnce`, `TrueAnswers`, `CommentsOnTheirCards`, `RealComments` | `DeckPageSpec => []OneCommentPerSubmit`, `[]AnswerIsTrue`, `[]CommentIsOnItsCard`, `[]ShownCommentsAreReal` |
| `DeckPageProofs!NothingSkipped` | `DeckPageSpec => []NothingPassedUnreviewed` |
| `ReviewsDashboardProofs!HonestRows`, `AllWorkListed` | `DashboardSpec => []ContinueIsHonest`, `[]StartedWorkIsListed` |
| `ReviewerTabProofs!LocalizationTypeCorrect`, `CardsOnce`, `PromptsKept` | `LocalizationSpec => []LocalizationTypeOK`, `[]EveryCardOnce`, `[]NoPromptLost` |
| `ReviewerTabProofs!PickerTypeCorrect`, `ClosedDialogIsIdle`, `OneLoadPerSpinner`, `FreshList` | `PickerSpec => []PickerTypeOK`, `[]ClosedIsIdle`, `[]SpinnerHasLoad`, `[]OpenShowsInstalled` |
| `ReviewerTabProofs!SyncConverges`, `MarkersFollowSyncs`, `LeftListIsQuiet` | `PullsSpec => []SyncedViewIsCurrent`, `[]MarkersAreOfLastSync`, `LeftPageIsQuiet` |
| `ReviewerTabProofs!TabRunsItsPages` | `TabSpec => DeckPageSpec /\ LocalizationSpec /\ PickerSpec /\ PullsSpec` |
| `ReviewerTabProofs!TabListsWork` | `TabSpec => [](ContinueIsHonest /\ StartedWorkIsListed)` |
| `ReviewerTabProofs!TabIsSafe` | `TabSpec` implies all invariants that the run `ReviewerTab` checks, and `LeftPageIsQuiet` |

*PrStatus.* `ArchivedIsTruthful` is not inductive: a step writes what a job or a
poll learned earlier. `SourcesTruthful` says the same of every delivery, job and
pending write, and that truths about ends never become false (merged is final,
and a closed end stays in the history of deliveries). `IInv` is its conjunction
with the type invariant. `OnlyReopenRevives` follows from `IInv` because no
poll ever holds a pending write of "open".

*ReviewPipeline.* A deck row is as new as its head because the head is looked up
before the diff, and GitHub's head only grows. `IInv` states it of every run that
has looked up its head, in order of its program counter, and of the rows.

*One runner.* `Serial` assumes one runner, no resent request, no deletion, and
human comments that fit in the pages scanned. `SInv` says what the run knows of
the comments at each page of its scan: the marked comment, if there is one, is
not on a page already read. At the create step there is hence none, whoever
commented meanwhile. That nobody deletes is needed since a deletion moves
comments to earlier pages; without resending a create happens once. For
`PromiseKept` it adds that the run's diff is at least as new as the review shown.

*WebSession.* For `RowIsUsable` it has to be known that GitHub accepts a refresh
token only from a request that read it from the row as it still is. `RowBetween`
says so: no request that may refresh holds a newer pair than the row, the row is
not ahead of GitHub, and is behind it while a request is about to store a pair.
So an accepted refresh finds no other such request, and the one that stores a
pair stores the newest. `CreatorAlone` and `UnbornUnknown` keep the session of an
unfinished sign-in out of the other requests, so that its INSERT overwrites
nothing. `SignedOutForGood` needs the types only: `maybeRefresh` updates rows and
never inserts one.

*SwipeSession.* `InStep` says where a tab can be: a tab without animation has
always rendered its index; one with animation is at most one place ahead, and not
while its timer runs, so its index is never more than two behind the last card.
`NoCardSkipped` is inductive with it, since `resumeState` passes decided cards
only (`ResumeState`, by the least element of a set of numbers). For
`DoneMeansSeen` the stored decisions have to be traced back to swipes of seen
cards: `Sent` follows a swipe through the outbox and the server, `Seen` says that
the table holds it under its own fingerprint. That fingerprints differ is needed:
with twins the decision of one resumes behind the other, which nobody saw.
`ResumeIsExact` needs to know what a tab has counted. `Tidy` says it while no
card was swiped twice: the swipes were made in the order of the deck, whichever
tab made them, and each tab's tally counts the swipes it knows of, all of them
behind its index. Then the stored decisions are one for each card of the log,
and the two counts are counts of the same set.

*ReviewDeck.* `DeckInv` says what a pass has done so far (`Pass`: its chunks are
the High ones of its diff, each result belongs to its chunk), that a row of the
cache lies under the fingerprint of the change it was written about (`Rows`),
and that a finished run's deck is `buildDeck` of its diff and results
(`Outcome`). The rest is about the operators. `Arrangement` proves that a strict
total order arranges a finite set, each element at the place after all those
before it, and `OneArrangement` that it does so in one way only. From these:
`Before` is such an order (`RankingOrders`), whatever order the diff lists its
files in (`BeforeInReordered`), so that the ranking is of the change; tiers go
down along it (`TiersGoDown`), so that what is High, or fits in the comment, is
a beginning of it. A card finds its hunk because anchors differ and its review
because the cache holds one review for a fingerprint. `ReviewsOfOwnChange` has
the hypothesis `NoHeaders`; without it the property fails (`ReviewDashedLines`).

*CardView.* That a loop computes what it should is an induction over the list.
Since no induction theorem with an operator parameter can be used, `UpTo` states
it for a set of numbers, by its least missing element, and `Iteration` shows
that the recursive function exists. `coalesce` is then proved to group line
numbers as far as they rise (`CoalesceGroups`): those of a hunk's real lines do
(`LineNumbers`), and the number that a note repeats makes one more range of the
last line (`Marking`), which changes nothing of what the ranges hold
(`Highlights`) but is counted again by a deletion (`LinesRemoved`). `mergeWindows`
is proved to keep what its windows hold and to leave gaps (`MergedWindows`), the code to have their lines once and in
order (`CodeFromSteps`), and a sequence that rises and has the numbers of a set
is that set in ascending order (`OneSpelling`). `FilesRead` counts the files
before a card's own. `CardsShowTheChange` puts these together.

*DeckPage.* `Written` says on which card a comment was written; with `Commented`,
that it is on the lines of the first twin in the deck it was anchored to, this
gives `CommentIsOnItsCard`. `PostInv` says of each comment under way what is on GitHub at each
program counter: nothing before it is posted, one comment when it is to be
recorded or answered with "posted". That one submit makes one comment further
rests on the outbox: what waits there is still queued, and stands there once.
For `NothingPassedUnreviewed` a load's decisions are of the head it read, decided
sets only grow, and decks reach a page in the order they were stored.

*ReviewsDashboard.* A card is decided in a deck that is stored, and a stored deck
stays (`Worked`); so the decks, which are read after the decisions, have all
that the decisions are about, whatever is stored in between (`Listed`). That
fewer decisions than cards mean an undecided card, and the other way round, is a
count of two finite sets (`CountsOfCards`).

*CardLocalization.* The cursor is behind every card in a worker's hand, and two
hands differ; a card is pending exactly if it is in a hand or at or behind the
cursor (`Once`). A text is handed in after its count was compared (`Whole`).

*RepoPicker.* The router answers calls in order and an opening raises the
generation, so only the last call can be of this opening (`OnlyLast`). Once a
load of this opening was answered, no abandoned one is left (`Settled`): that is
why the guard that an abandoned load's `finally` releases is never released under
a later load, which is what `SpinnerHasLoad` needs.

*PullsPage.* While nothing changes, the pages read so far are a beginning of
GitHub's list (`Undisturbed`); this is `SyncedViewIsCurrent` once the list is
written, and also when a sync finds the list as it is and writes nothing. A list
read while it moves may have a pull request twice. Its entries then come in the
order of its updates (`Chronological`, from `NotAhead`), so that the list
compared with itself has no markers: that is why a sync that writes nothing
leaves the markers right.

*ReviewerTab.* Each disjunct of `TabNext` is a step of one page and stutters on
the others; so the theorems of the pages hold of the tab the run checks, which
is `TabIsSafe`.

## 5. What is only model-checked

- Liveness (`PushIsShown`, `OfflineEndIsNoticed`): TLAPS does not do `ENABLED`.

Every invariant and action property of the passing runs is proved, and the
refinement `KeepsPromise`. The proofs hold of all diffs, decks, sessions and
bounds that the assumptions on the constants admit; the runs check the same
formulas on small ones, and that the states they speak of are reached.

## 6. Where the code and its words differ

The violated runs in section 3 are disagreements between the code and a comment
in it; `PROJECT.json` quotes the lines. In short: a CLI run beside a worker can post a second comment; a push
at the wrong moment files the new push's cards under the old head; a key pressed
between the fly-off timer and the render skips a card; two hunks that differ in a
line starting with two dashes (or pluses) share their cached review; and a
language picked after a new deck was stored puts the new cards under the old
position, so that the page may say "done" over cards nobody saw.

Known limits the code has, which the models show or assume away:

- two overlapping runs leave both runs' findings (`replaceForPr` at READ
  COMMITTED); `OneRunOfFindings` is a property of one runner;
- a deletion during the marker scan, or a create sent again by Octokit's retry
  plugin, may lead to a second comment;
- the CLI may print the deck of an earlier run at the same head when its own was
  not saved;
- an identical change twice in one file has one fingerprint: one review and, in
  the swipe deck, one decision for both cards; a comment written on the second
  card is posted at the lines of the first (`actions.ts:192`), and the page lists
  it on both;
- a hunk whose last line has no newline has one more range, of that line alone,
  after the range that ends with it: the card of a deletion says that one line
  more was removed than were, and the counts that rank a hunk have the note in
  them;
- a comment that its author deletes on GitHub stays in `pr_comments` and is listed
  on its card; `ShownCommentsAreReal` says that it was created;
- "please try again" is also said of a comment that was created, if GitHub's
  answer is lost or unreadable; `AnswerIsTrue` leaves that answer open;
- ranks of findings follow the diff, not the risk, when two hunks are High;
- a machine-written file is never High, but its score, and so its place in the
  deck, may be the first;
- a reload forgets swipes that were not sent; a write in flight may overtake a
  later one on the same card; the tally after a lost write may count twice;
- a page whose access token was refreshed by another request gets a 401 from
  GitHub and deletes the fresh row: the reviewer has to sign in again;
- a reopen whose delivery is lost stays archived, although a comment
  (`server.ts:379-380`) has the poll reconcile it: the poll reads open rows only;
- a deck keeps the `created_at` of its first save: after a force-push back to an
  earlier head the newest deck is still that of the head in between, under the
  banner that it is stale; and the review of an older head that ends after that
  of a newer one becomes the newest deck;
- a comment tried again after such an answer is posted twice;
- a stale row of the dashboard leads to the newest deck, not to its own; a pull
  request whose newest deck is finished and an older one is not keeps a stale row;
- a cached translation made for another number of prompts leaves a card in
  English for ever, and one made for other prompts of the same number is shown;
- a list of pull requests that moves between two page reads repeats or skips an
  entry until the next sync;
- installations behind the last page read are offered as installable;
- a delivery id is forgotten 24 hours after its job; a redelivery after that runs
  the review again.

## 7. Assumptions about the outside

- BullMQ runs a failing job `attempts` times and gives the job of a dead worker
  to another one (stalled check); an id is taken once while it is remembered.
- Postgres at READ COMMITTED: a statement is atomic, a transaction rolls back as
  a whole.
- GitHub lists comments in the order of their creation; merged is final; a
  refresh token works once and its use ends the old access token.
- React renders the updates of a discrete event before the next event and those
  of a timer later; Next runs the server actions of a tab one after the other.

## 8. Not modelled

Signature checks, size caps and JSON parsing of the ingress (each a single
refusal before any state changes); the model provider, verification, scope
creep, portfolio and cost stages (no shared state, most not reached at this
commit); repository reading and code search (I/O that leaves nothing behind);
reactions by link (one insert); start-up, configuration, migrations; rendering
and wording. The tier of a finding and its blast radius are carried, not used.
Of the web app: the state nonce of the login redirect, the "opened" hints and the
filter boxes, the text of files and comments.

## 9. Plan

1. `Ingress`: repeated deliveries against job ids that expire; composes with
   `PrStatus` and `ReviewPipeline` through their jobs.
2. `Diffs` of the ranking in which hunks of one file may share an anchor, as a
   hand-made patch could, and what of `NoFindingLost` is left then.
3. Of the refinement: a second abstract specification, of what a reviewer's
   decisions promise across devices, shown of `SwipeSession` and `DeckPage`.
