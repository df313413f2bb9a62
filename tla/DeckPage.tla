------------------------------ MODULE DeckPage ------------------------------
(***************************************************************************)
(* The deck page of one reviewer and one pull request, in one browser tab: *)
(* how a load puts it together out of several reads, what "Post comment"   *)
(* does on GitHub and in the database, and the language picker, which      *)
(* renders the page again below a swipe deck that keeps its state.  The    *)
(* router of the tab sends its server actions one after the other.         *)
(***************************************************************************)
EXTENDS Integers, FiniteSets, SequencesExt

CONSTANTS
    CardsOf,      \* CardsOf[h]: cards of the deck of the h-th head of the PR
    MaxPushes,    \* bound: pushes while the reviewer is at work
    MaxLoads,     \* bound: loads of the page
    MaxPosts      \* bound: comments submitted

Heads == DOMAIN CardsOf
NoHead == 0
Subs == 1 .. MaxPosts
Deletion == 0     \* in the place of a line: the card has no added lines

ASSUME DeckPageAssumption ==
    /\ CardsOf \in Seq(Seq([fp : STRING, line : Nat]))
    /\ MaxPushes \in Nat /\ MaxLoads \in Nat /\ MaxPosts \in Nat

VARIABLES
    pushed,      \* heads of the pull request so far, the live one last
    decks,       \* heads with a deck, in the order of their decks' created_at
    session,     \* the reviewer is signed in
    decided,     \* decided[h]: fingerprints with a decision at head h
    activity,    \* heads with a decision, the last decided one last
    comments,    \* comments of the reviewer that GitHub created
    recorded,    \* rows of pr_comments
    load,        \* the load under way
    loads,       \* loads so far
    page,        \* the page in the tab
    post         \* post[s]: the s-th submitted comment

deckPageVars == <<pushed, decks, session, decided, activity, comments, recorded,
                  load, loads, page, post>>
pullRequest == <<pushed, decks>>
progress == <<decided, activity>>
onGitHub == <<comments, recorded>>

Live == Last(pushed)
Fps(h) == {CardsOf[h][i].fp : i \in DOMAIN CardsOf[h]}

\* Hunks of a file with the same changed lines have one fingerprint: twins.
\* A look for a fingerprint finds the first of them.
Twins(h, f) == {i \in DOMAIN CardsOf[h] : CardsOf[h][i].fp = f}
LineOf(h, f) == CardsOf[h][Min(Twins(h, f))].line

\* getLatestDeck: the newest row by created_at, which a second save keeps.
LatestDeck == IF decks = << >> THEN NoHead ELSE Last(decks)

NoLoad == [on |-> FALSE, refresh |-> FALSE, head |-> NoHead, todo |-> {},
           decided |-> {}, posted |-> {}]
\* What the router sends: a comment, or the language that was picked.
Picked == 0
Nothing == -1
Closed == [up |-> FALSE, head |-> NoHead, index |-> 1, opened |-> NoHead, swiped |-> {},
           posted |-> {}, outbox |-> << >>, sending |-> Nothing, composer |-> Nothing]
Unposted == [pc |-> "none", fp |-> "none", shown |-> NoHead, card |-> 0, head |-> NoHead,
             line |-> Deletion, answer |-> "none"]

-----------------------------------------------------------------------------
(* The pull request and its reviews (external here: see ReviewPipeline).   *)

Push ==
    /\ Len(pushed) <= MaxPushes
    /\ \E h \in Heads \ {Live} : pushed' = Append(pushed, h)
    /\ UNCHANGED <<decks, session, progress, onGitHub, load, loads, page, post>>

\* A review of a head that was pushed is stored, in whatever order the reviews
\* finish.  A later review of the same head updates its row, here with the same
\* cards: they are a function of the head.
SaveDeck(h) ==
    /\ h \in Range(pushed) \ Range(decks)
    /\ decks' = Append(decks, h)
    /\ UNCHANGED <<pushed, session, progress, onGitHub, load, loads, page, post>>

-----------------------------------------------------------------------------
(* Loading the page.                                                       *)

SignIn ==
    /\ ~session /\ ~page.up /\ ~load.on
    /\ session' = TRUE
    /\ UNCHANGED <<pullRequest, progress, onGitHub, load, loads, page, post>>

\* The row goes while the page is open: another tab signs out, or a request of
\* another tab met a 401.
SessionEnds ==
    /\ session
    /\ session' = FALSE
    /\ UNCHANGED <<pullRequest, progress, onGitHub, load, loads, page, post>>

Loading(refresh) == [NoLoad EXCEPT !.on = TRUE, !.refresh = refresh, !.todo = {"deck"}]

\* Opened from a link, or reloaded: what the old page had not sent is forgotten
\* and no answer reaches it any more.
OpenPage ==
    /\ session /\ ~load.on /\ loads < MaxLoads
    /\ load' = Loading(FALSE)
    /\ loads' = loads + 1
    /\ page' = Closed
    /\ UNCHANGED <<pullRequest, session, progress, onGitHub, post>>

\* An error boundary, or the login page, takes the place of the page.
LoadEndsInError ==
    /\ load' = NoLoad
    /\ page' = Closed
    /\ UNCHANGED <<pullRequest, progress, onGitHub, loads, post>>

ReadDeckFails ==
    /\ load.on /\ load.todo = {"deck"}
    /\ UNCHANGED session
    /\ LoadEndsInError

\* clearSessionRow and redirect("/login"), out of the stale check or out of the
\* read of the files.  What else the load does goes on unwatched.
GitHubAuthError ==
    /\ load.on /\ load.head # NoHead
    /\ "stale" \in load.todo \/ load.todo = {"files"}
    /\ session' = FALSE
    /\ LoadEndsInError

\* The cards are translated meanwhile, see CardLocalization.
ReadDeck ==
    /\ load.on /\ load.todo = {"deck"}
    /\ load' = [load EXCEPT !.head = LatestDeck,
                  !.todo = IF LatestDeck = NoHead THEN {"files"}
                           ELSE {"decisions", "stale", "comments"}]
    /\ UNCHANGED <<pullRequest, session, progress, onGitHub, loads, page, post>>

\* One of the reads that run side by side is over.
Read(what, state) ==
    /\ load.on /\ what \in load.todo
    /\ LET rest == load.todo \ {what} IN
       load' = [state EXCEPT !.todo = IF rest = {} THEN {"files"} ELSE rest]
    /\ UNCHANGED <<pullRequest, session, progress, onGitHub, loads, page, post>>

\* Mutant: the decisions of whatever head was worked on last.
getDecidedFingerprintsOfLatest ==
    \/ Read("decisions", [load EXCEPT !.decided =
                            IF activity = << >> THEN {} ELSE decided[Last(activity)]])
    \/ Read("decisions", load)

\* A failed read resumes from the start.
getDecidedFingerprints ==
    \/ Read("decisions", [load EXCEPT !.decided = decided[load.head]])
    \/ Read("decisions", load)

\* The banner on the page is advice of the moment, and is not kept here.
resolveStaleDeck == Read("stale", load)

\* Mutant: the comments of the pull request, from whatever deck.
listPostedCommentsOfPr ==
    \/ Read("comments", [load EXCEPT !.posted = recorded])
    \/ Read("comments", load)

\* A failed read shows none.
listPostedComments ==
    \/ Read("comments", [load EXCEPT !.posted = {r \in recorded : r.head = load.head}])
    \/ Read("comments", load)

\* The card in front.
HasCard == page.up /\ page.head # NoHead /\ page.index <= Len(CardsOf[page.head])
CurrentCard == CardsOf[page.head][page.index].fp

FirstUndecided(h, decisions) ==
    Min({i \in DOMAIN CardsOf[h] : CardsOf[h][i].fp \notin decisions} \cup {Len(CardsOf[h]) + 1})

\* The comment that the composer of the next card waits for: its key is the
\* fingerprint, so it stays on the page from a card to its twin.
Composer(h, index) ==
    IF HasCard /\ index \in DOMAIN CardsOf[h] /\ CardsOf[h][index].fp = CurrentCard
    THEN page.composer ELSE Nothing

\* The files are read, or missing from the cards, and the page is there.  A
\* swipe deck that is on the page already keeps its position: React renders it
\* again with other cards (SwipeDeck has no key).
Show ==
    /\ load.on /\ load.todo = {"files"}
    /\ LET base == IF load.refresh THEN page ELSE Closed
           shown == [base EXCEPT !.up = TRUE, !.head = load.head, !.posted = load.posted,
                                 !.sending = Nothing,
                                 !.composer = IF base.head = NoHead THEN Nothing
                                              ELSE Composer(load.head, page.index)]
       IN page' = IF base.head # NoHead \/ load.head = NoHead THEN shown
                  ELSE [shown EXCEPT !.opened = load.head, !.swiped = {},
                                     !.index = FirstUndecided(load.head, load.decided)]
    /\ load' = NoLoad
    /\ UNCHANGED <<pullRequest, session, progress, onGitHub, loads, post>>

\* The page sends what is next in its line, unless it waits for an answer.
Send ==
    /\ page.sending = Nothing /\ page.outbox # << >>
    /\ page' = [page EXCEPT !.sending = Head(page.outbox), !.outbox = Tail(@)]
    /\ LET s == Head(page.outbox) IN
       post' = IF s = Picked THEN post ELSE [post EXCEPT ![s].pc = "deck"]
    /\ UNCHANGED <<pullRequest, session, progress, onGitHub, load, loads>>

\* By a link, or back in the history: like a reload, it forgets what was not sent.
LeavePage ==
    /\ ~load.on
    /\ page' = Closed
    /\ UNCHANGED <<pullRequest, session, progress, onGitHub, load, loads, post>>

-----------------------------------------------------------------------------
(* Swiping and the language.                                               *)

\* The card moves on whether or not its decision is stored (SwipeSession has
\* the steps in between).
Swipe ==
    /\ HasCard
    /\ page' = [page EXCEPT !.index = @ + 1, !.swiped = @ \cup {CurrentCard},
                            !.composer = Composer(page.head, page.index + 1)]
    /\ \/ /\ session
          /\ decided' = [decided EXCEPT ![page.head] = @ \cup {CurrentCard}]
          /\ activity' = Append(RemoveFirst(activity, page.head), page.head)
       \/ UNCHANGED progress
    /\ UNCHANGED <<pullRequest, session, onGitHub, load, loads, post>>

PickLanguage ==
    /\ page.up /\ loads < MaxLoads
    /\ Picked \notin Range(page.outbox) \cup {page.sending}
    /\ page' = [page EXCEPT !.outbox = Append(@, Picked)]
    /\ UNCHANGED <<pullRequest, session, progress, onGitHub, load, loads, post>>

\* setLanguage: signed out, nothing happens; otherwise the answer brings the
\* page rendered anew.
setLanguage ==
    /\ page.sending = Picked /\ ~load.on
    /\ \/ /\ ~session
          /\ page' = [page EXCEPT !.sending = Nothing]
          /\ UNCHANGED <<load, loads>>
       \/ /\ session
          /\ load' = Loading(TRUE)
          /\ loads' = loads + 1
          /\ UNCHANGED page
    /\ UNCHANGED <<pullRequest, session, progress, onGitHub, post>>

-----------------------------------------------------------------------------
(* A comment on the current card.                                          *)

\* The button is off while a comment of the same composer is under way.
Submit ==
    /\ HasCard /\ page.composer = Nothing
    /\ \E s \in Subs :
          /\ post[s].pc = "none" /\ \A q \in 1 .. s - 1 : post[q].pc # "none"
          /\ post' = [post EXCEPT ![s] = [Unposted EXCEPT !.pc = "queued", !.fp = CurrentCard,
                                          !.shown = page.head, !.card = page.index]]
          /\ page' = [page EXCEPT !.outbox = Append(@, s), !.composer = s]
    /\ UNCHANGED <<pullRequest, session, progress, onGitHub, load, loads>>

PostAt(s, pc) == post[s].pc = pc
PostGoto(s, pc) == post' = [post EXCEPT ![s].pc = pc]
Answers(s, answer) == post' = [post EXCEPT ![s].pc = "answered", ![s].answer = answer]
PostFrame == UNCHANGED <<pullRequest, session, progress, load, loads, page>>

Anchored(s, h, line) ==
    post' = [post EXCEPT ![s].head = h, ![s].line = line,
                         ![s].pc = IF line = Deletion THEN "conversation" ELSE "review"]

\* Mutant: the lines come from the card the browser shows.
postCardCommentAsShown(s) ==
    /\ PostAt(s, "deck")
    /\ \/ session /\ LatestDeck # NoHead /\ post[s].fp \in Fps(LatestDeck)
             /\ Anchored(s, LatestDeck, LineOf(post[s].shown, post[s].fp))
       \/ ~session /\ Answers(s, "sign in")
       \/ session /\ Answers(s, "gone")
    /\ UNCHANGED onGitHub
    /\ PostFrame

\* The anchor is recomputed from the newest deck, which need not be the one on
\* the page; a failed read looks like a deck without the card.
postCardComment(s) ==
    /\ PostAt(s, "deck")
    /\ \/ session /\ LatestDeck # NoHead /\ post[s].fp \in Fps(LatestDeck)
             /\ Anchored(s, LatestDeck, LineOf(LatestDeck, post[s].fp))
       \/ ~session /\ Answers(s, "sign in")
       \/ session /\ Answers(s, "gone")
    /\ UNCHANGED onGitHub
    /\ PostFrame

Refusals == {"expired", "permission", "rate limit", "failed"}

Comment(s, kind) == [sub |-> s, kind |-> kind, head |-> post[s].head, line |-> post[s].line]

\* GitHub creates the comment, and the answer arrives and is complete or not.
Created(s, kind) ==
    /\ comments' = comments \cup {Comment(s, kind)}
    /\ PostGoto(s, "record") \/ Answers(s, "failed")

NotCreated(s) == UNCHANGED comments /\ \E why \in Refusals : Answers(s, why)

\* Mutant: any failure falls back to the conversation.
PostReviewFallsBack(s) ==
    /\ PostAt(s, "review")
    /\ \/ /\ comments' = comments \cup {Comment(s, "review")}
          /\ PostGoto(s, "record") \/ PostGoto(s, "conversation")
       \/ UNCHANGED comments /\ PostGoto(s, "conversation")
    /\ UNCHANGED recorded
    /\ PostFrame

\* 422: the lines are not part of the diff of that commit.
PostReview(s) ==
    /\ PostAt(s, "review")
    /\ \/ Created(s, "review")
       \/ NotCreated(s)
       \/ UNCHANGED comments /\ PostGoto(s, "conversation")
    /\ UNCHANGED recorded
    /\ PostFrame

\* Mutant: the status of the answer is not looked at.
postConversationUnchecked(s) ==
    /\ PostAt(s, "conversation")
    /\ \/ Created(s, "issue")
       \/ UNCHANGED comments /\ PostGoto(s, "record")
    /\ UNCHANGED recorded
    /\ PostFrame

postConversation(s) ==
    /\ PostAt(s, "conversation")
    /\ Created(s, "issue") \/ NotCreated(s)
    /\ UNCHANGED recorded
    /\ PostFrame

\* The comment is on GitHub: a failed insert is not reported.
recordPostedComment(s) ==
    /\ PostAt(s, "record")
    /\ \/ recorded' = recorded \cup {[sub |-> s, fp |-> post[s].fp, head |-> post[s].head]}
       \/ UNCHANGED recorded
    /\ Answers(s, "posted")
    /\ UNCHANGED comments
    /\ PostFrame

\* The composer shows the answer.
AnswerArrives(s) ==
    /\ page.sending = s /\ PostAt(s, "answered")
    /\ page' = [page EXCEPT !.sending = Nothing,
                            !.composer = IF @ = s THEN Nothing ELSE @]
    /\ UNCHANGED <<pullRequest, session, progress, onGitHub, load, loads, post>>

\* The connection breaks: the error boundary takes the place of the page.
AnswerLost(s) ==
    /\ page.sending = s
    /\ page' = Closed
    /\ UNCHANGED <<pullRequest, session, progress, onGitHub, load, loads, post>>

-----------------------------------------------------------------------------
DeckPageInit ==
    /\ pushed = <<1>> /\ decks = << >>
    /\ session = TRUE
    /\ decided = [h \in Heads |-> {}] /\ activity = << >>
    /\ comments = {} /\ recorded = {}
    /\ load = NoLoad /\ loads = 0
    /\ page = Closed
    /\ post = [s \in Subs |-> Unposted]

\* What happens whether or not the reviewer looks at the page.
Elsewhere ==
    \/ Push \/ (\E h \in Heads : SaveDeck(h)) \/ SessionEnds
    \/ \E s \in Subs : \/ postCardComment(s) \/ PostReview(s) \/ postConversation(s)
                       \/ recordPostedComment(s)

Loads ==
    \/ SignIn \/ OpenPage
    \/ ReadDeckFails \/ GitHubAuthError \/ ReadDeck
    \/ getDecidedFingerprints \/ resolveStaleDeck \/ listPostedComments
    \/ Show

Works ==
    \/ Swipe \/ PickLanguage \/ Submit
    \/ Send \/ setLanguage \/ LeavePage
    \/ \E s \in Subs : AnswerArrives(s) \/ AnswerLost(s)

DeckPageNext == Elsewhere \/ Loads \/ Works

DeckPageSpec == DeckPageInit /\ [][DeckPageNext]_deckPageVars

-----------------------------------------------------------------------------
\* Whatever fails on the way, a submitted comment is on GitHub once at most:
\* the fallback to the conversation is for a refused review comment only
\* (postComment).
OneCommentPerSubmit == \A c, d \in comments : c.sub = d.sub => c = d

\* What the composer says is true: "Posted to GitHub" of a comment that is
\* there, and every definite refusal of one that is not; only "please try
\* again" leaves it open (postCommentError, mapPostedComment).
AnswerIsTrue ==
    \A s \in Subs : PostAt(s, "answered") =>
        LET there == \E c \in comments : c.sub = s IN
        /\ post[s].answer = "posted" => there
        /\ post[s].answer \notin {"posted", "failed"} => ~there

\* "never trust a client-sent anchor": a review comment is on the added lines
\* of a card with the fingerprint it was written for, in the deck of the commit
\* it is posted to, whatever deck the reviewer had in front of them.  Was it
\* that deck, the card is the very one, unless it has a twin before it: the
\* comment goes to the lines of the first of them (postCardComment).
CommentIsOnItsCard ==
    \A c \in comments : c.kind = "review" =>
        LET p == post[c.sub] IN
        /\ \E i \in Twins(c.head, p.fp) : c.line = CardsOf[c.head][i].line
        /\ p.shown = c.head /\ (\A i \in Twins(c.head, p.fp) : p.card <= i) =>
              c.line = CardsOf[c.head][p.card].line
        /\ c.line # Deletion

\* The comments a page lists were created on GitHub, on cards of the deck it
\* shows, however decks and comments moved while it was put together.  One that
\* its author deletes on GitHub stays in pr_comments and is still listed.
ShownCommentsAreReal ==
    \A r \in page.posted :
        /\ r.head = page.head /\ r.fp \in Fps(page.head)
        /\ \E c \in comments : c.sub = r.sub /\ c.head = r.head

\* Cards behind the tab's position in the deck it shows that neither have a
\* decision at that head nor were swiped in this tab.  Decisions are kept by
\* fingerprint: one of a card stands for its twins too.
Unreviewed ==
    IF page.head = NoHead THEN {}
    ELSE {i \in DOMAIN CardsOf[page.head] :
             /\ i < page.index
             /\ CardsOf[page.head][i].fp \notin decided[page.head] \cup page.swiped}

\* Decisions are "per head SHA": a push, decisions at another head and a failed
\* read must not let a deck that was opened resume behind cards that nobody
\* saw at its head (getDecidedFingerprints, computeResume).
NothingPassedUnreviewed == page.opened = page.head => Unreviewed = {}

\* "Every one of the ... changed chunks has been seen" (DeckDone), and "swiping
\* the whole deck means every changed hunk has been seen" (DeckPage).
DoneMeansReviewed == page.up /\ ~HasCard => Unreviewed = {}
=============================================================================
