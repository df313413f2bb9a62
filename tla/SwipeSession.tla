---------------------------- MODULE SwipeSession ----------------------------
(***************************************************************************)
(* One reviewer swiping through one deck (one PR at one head), in several  *)
(* tabs or devices.  A tab keeps its position and tally in React state and *)
(* sends each swipe to the server without waiting for it; the server       *)
(* appends a reaction and upserts the decision of the card's fingerprint;  *)
(* a load resumes from the stored decisions.  A handler sees the index of  *)
(* the last render, not of the last setIndex.                              *)
(***************************************************************************)
EXTENDS Naturals, Sequences, FiniteSets, FiniteSetsExt

CONSTANTS
    Total,           \* cards in the deck
    Fingerprint,     \* Fingerprint[i]: fingerprint of the i-th card
    Tabs,            \* browser tabs and devices of the reviewer
    ReducedMotion,   \* tabs whose OS asks for no animation: no fly-off timer
    MaxSwipes,       \* bound: swipes in all tabs together
    MaxLoads         \* bound: page loads

Positions == 1 .. Total

ASSUME DeckAssumption == Total \in Nat /\ DOMAIN Fingerprint = Positions
ASSUME BoundsAssumption == ReducedMotion \subseteq Tabs /\ MaxSwipes \in Nat /\ MaxLoads \in Nat

VARIABLES
    log,         \* every swipe so far, in the order the reviewer made them
    tab,         \* tab[t]: the state of a tab
    requests,    \* recordSwipe calls running on the server
    decision,    \* decision[f]: the swipe review_progress holds for f, or 0
    reactions,   \* swipes whose reaction was appended
    stored,      \* swipes whose decision was upserted
    seen,        \* positions some tab has rendered as the current card
    loads        \* page loads so far

vars == <<log, tab, requests, decision, reactions, stored, seen, loads>>
server == <<requests, decision, reactions, stored>>

Fingerprints == {Fingerprint[i] : i \in Positions}
Sentiments == {"up", "down"}
Swipes == 0 .. MaxSwipes        \* a swipe is named by its place in log
Stages == {"reaction", "decision"}

Closed == [open |-> FALSE, index |-> 1, rendered |-> 1, up |-> 0, down |-> 0,
           committing |-> FALSE, timer |-> FALSE, outbox |-> << >>, sending |-> 0,
           answered |-> {}]

FingerprintOf(swipe) == Fingerprint[log[swipe].card]

-----------------------------------------------------------------------------
(* Resuming.  table maps a fingerprint to its swipe, as decision does.     *)

Decided(table) == {i \in Positions : table[Fingerprint[i]] # 0}
Tally(table, sentiment) ==
    Cardinality({i \in Decided(table) : log[table[Fingerprint[i]]].sentiment = sentiment})

\* Mutant: resume behind as many cards as are decided.
resumeStateByCount(table) == Cardinality(Decided(table)) + 1

\* Mutant: with every card decided, the last card again.
resumeStateOnLast(table) == Min((Positions \ Decided(table)) \cup {Total})

\* The first undecided card, or the place behind the last one.
resumeState(table) == Min((Positions \ Decided(table)) \cup {Total + 1})

\* The page reads the decisions; a failed read resumes from the start.  A
\* reload forgets the swipes the tab had not sent yet.
DeckPage(t) ==
    /\ loads < MaxLoads
    /\ loads' = loads + 1
    /\ \E table \in {decision, [f \in Fingerprints |-> 0]} :
          /\ tab' = [tab EXCEPT ![t] =
                [Closed EXCEPT !.open = TRUE,
                               !.index = resumeState(table),
                               !.rendered = resumeState(table),
                               !.up = Tally(table, "up"),
                               !.down = Tally(table, "down"),
                               !.answered = Decided(table)]]
          /\ seen' = seen \cup ({resumeState(table)} \cap Positions)
    /\ UNCHANGED <<log, server>>

-----------------------------------------------------------------------------
(* The tab.                                                                *)

\* Mutant: a second timer of the same card fires as well.
AdvancedTwice(s) == [s EXCEPT !.index = @ + 2, !.committing = FALSE, !.timer = FALSE]

\* The card moves on and the re-entry guard is released.
Advanced(s) == [s EXCEPT !.index = @ + 1, !.committing = FALSE, !.timer = FALSE]

\* React renders an event handler's updates before the next event.
Rendered(s) == [s EXCEPT !.rendered = s.index]

\* Mutant: without the check for a card.
CanCommitAfterLast(s) == s.open /\ ~s.committing

CanCommit(s) == s.open /\ s.rendered <= Total /\ ~s.committing

\* A key, a button or a drag past the threshold.  The card is the one of the
\* last render.  The write is queued and never waited for.
commit(t, sentiment) ==
    LET s == tab[t]
        taken == [s EXCEPT !.outbox = Append(@, Len(log) + 1),
                           !.up = IF sentiment = "up" THEN @ + 1 ELSE @,
                           !.down = IF sentiment = "down" THEN @ + 1 ELSE @,
                           !.answered = @ \cup {s.rendered},
                           !.committing = TRUE, !.timer = TRUE]
        next == Rendered(IF t \in ReducedMotion THEN Advanced(taken) ELSE taken)
    IN
    /\ CanCommit(s) /\ Len(log) < MaxSwipes
    /\ log' = Append(log, [card |-> s.rendered, sentiment |-> sentiment])
    /\ tab' = [tab EXCEPT ![t] = next]
    /\ seen' = seen \cup ({next.rendered} \cap Positions)
    /\ UNCHANGED <<server, loads>>

\* The fly-off timer.  Its updates are rendered later, by a task of React's
\* scheduler.
advance(t) ==
    /\ tab[t].timer
    /\ tab' = [tab EXCEPT ![t] = Advanced(@)]
    /\ UNCHANGED <<log, server, seen, loads>>

Render(t) ==
    /\ tab[t].rendered # tab[t].index
    /\ tab' = [tab EXCEPT ![t] = Rendered(@)]
    /\ seen' = seen \cup ({tab[t].index} \cap Positions)
    /\ UNCHANGED <<log, server, loads>>

\* The router sends a tab's server actions one after the other.
Send(t) ==
    /\ tab[t].sending = 0 /\ tab[t].outbox # << >>
    /\ tab' = [tab EXCEPT ![t].sending = Head(tab[t].outbox), ![t].outbox = Tail(@)]
    /\ requests' = requests \cup {[swipe |-> Head(tab[t].outbox), stage |-> "reaction"]}
    /\ UNCHANGED <<log, decision, reactions, stored, seen, loads>>

-----------------------------------------------------------------------------
(* The recordSwipe action on the server: two writes, each of which may     *)
(* fail without the other.                                                 *)

AppendReaction(r) ==
    /\ r.stage = "reaction"
    /\ requests' = (requests \ {r}) \cup {[r EXCEPT !.stage = "decision"]}
    /\ reactions' = reactions \cup {r.swipe} \/ UNCHANGED reactions
    /\ UNCHANGED <<log, tab, decision, stored, seen, loads>>

\* The answer reaches the tab, unless it was reloaded or closed meanwhile.
Answered(r) ==
    tab' = [t \in Tabs |-> IF tab[t].sending = r.swipe
                           THEN [tab[t] EXCEPT !.sending = 0] ELSE tab[t]]

recordDecision(r) ==
    /\ decision' = [decision EXCEPT ![FingerprintOf(r.swipe)] = r.swipe]
    /\ stored' = stored \cup {r.swipe}

UpsertDecision(r) ==
    /\ r.stage = "decision"
    /\ recordDecision(r)
    /\ requests' = requests \ {r}
    /\ Answered(r)
    /\ UNCHANGED <<log, reactions, seen, loads>>

\* The connection breaks while the server goes on with the request.
AnswerLost(r) ==
    /\ \E t \in Tabs : tab[t].sending = r.swipe
    /\ Answered(r)
    /\ UNCHANGED <<log, server, seen, loads>>

\* The session is gone, the server dies or the upsert fails.
WriteLost(r) ==
    /\ requests' = requests \ {r}
    /\ Answered(r)
    /\ UNCHANGED <<log, decision, reactions, stored, seen, loads>>

-----------------------------------------------------------------------------
Init ==
    /\ log = << >>
    /\ tab = [t \in Tabs |-> Closed]
    /\ requests = {} /\ reactions = {} /\ stored = {} /\ seen = {}
    /\ decision = [f \in Fingerprints |-> 0]
    /\ loads = 0

Next ==
    \/ \E t \in Tabs :
          \/ DeckPage(t) \/ advance(t) \/ Render(t) \/ Send(t)
          \/ \E sentiment \in Sentiments : commit(t, sentiment)
    \/ \E r \in requests : 
          AppendReaction(r) \/ UpsertDecision(r) \/ AnswerLost(r) \/ WriteLost(r)

Spec == Init /\ [][Next]_vars

-----------------------------------------------------------------------------
TabState ==
    [open : BOOLEAN, index : 1 .. Total + 1 + MaxSwipes, rendered : 1 .. Total + 1 + MaxSwipes,
     up : Nat, down : Nat, committing : BOOLEAN, timer : BOOLEAN,
     outbox : Seq(Swipes), sending : Swipes, answered : SUBSET Positions]

TypeOK ==
    /\ log \in Seq([card : Positions, sentiment : Sentiments])
    /\ tab \in [Tabs -> TabState]
    /\ requests \subseteq [swipe : Swipes, stage : Stages]
    /\ decision \in [Fingerprints -> Swipes]
    /\ reactions \subseteq Swipes /\ stored \subseteq Swipes
    /\ seen \subseteq Positions
    /\ loads \in 0 .. MaxLoads

\* A tab has passed only cards that it took a swipe for or that were decided
\* when it loaded.
PassedOnlyAnswered(t) ==
    \A i \in Positions : i < tab[t].index => i \in tab[t].answered

\* Whatever writes are lost and wherever a load resumes, a tab without
\* animation skips no card (commit's guard against a second commit that "could
\* ... double-record + skip a card"; resumeState).
NoCardSkipped == \A t \in ReducedMotion : PassedOnlyAnswered(t)

\* The same of the tabs whose cards fly off, as commit's comment has it.
NoCardSkippedAnimated == \A t \in Tabs \ ReducedMotion : PassedOnlyAnswered(t)

\* "Every one of the ... changed chunks has been seen" (DeckDone), by the
\* reviewer, in whatever tab and load.
DoneMeansSeen ==
    \A t \in Tabs : tab[t].rendered > Total => seen = Positions

\* "a reload/logout/device-switch resumes exactly where the reviewer left off"
\* (recordDecision): once every swipe is stored, a new load finds the position
\* and the tally of each tab that is up to date, provided no card was swiped
\* twice.
ResumeIsExact ==
    \A t \in Tabs :
        /\ tab[t].open /\ tab[t].rendered = tab[t].index /\ ~tab[t].committing
        /\ stored = DOMAIN log /\ tab[t].answered = Decided(decision)
        /\ \A i, j \in DOMAIN log : log[i].card = log[j].card => i = j
        => /\ resumeState(decision) = tab[t].index
           /\ Tally(decision, "up") = tab[t].up
           /\ Tally(decision, "down") = tab[t].down
=============================================================================
