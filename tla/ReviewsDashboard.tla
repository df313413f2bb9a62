-------------------------- MODULE ReviewsDashboard --------------------------
(***************************************************************************)
(* The dashboard of a reviewer's review sessions, here those of one pull   *)
(* request: the decisions are read, then the decks and the status of the   *)
(* pull requests they are about, and the page lists what to continue and   *)
(* what is done.  Pushes, reviews and decisions go on in between.          *)
(***************************************************************************)
EXTENDS DeckPage

VARIABLE listing     \* the dashboard: what it has read, and what it shows

dashboardVars == <<deckPageVars, listing>>

Endings == {"merged", "closed"}
Statuses == {"open"} \cup Endings

NothingRead == [todo |-> {}, decided |-> [h \in Heads |-> {}], activity |-> << >>,
                decks |-> << >>, status |-> "open", active |-> {}, archived |-> {}]

-----------------------------------------------------------------------------
(* summarizeSessions, of the rows s that were read.                        *)

Reviewed(s, h) == Cardinality({i \in DOMAIN CardsOf[h] : CardsOf[h][i].fp \in s.decided[h]})
Touched(s) == {h \in Range(s.activity) \cap Range(s.decks) : Reviewed(s, h) > 0}

\* Mutant: the newest deck is the one worked on last.
ActiveByActivity(s) ==
    {[head |-> h, stale |-> h # Last(s.activity)] :
        h \in {t \in Touched(s) : Reviewed(s, t) < Len(CardsOf[t])}}

\* "newest" is by created_at, as for the deck page.
Active(s) ==
    {[head |-> h, stale |-> h # Last(s.decks)] :
        h \in {t \in Touched(s) : Reviewed(s, t) < Len(CardsOf[t])}}

\* Mutant: a row for every head.
ArchivedAll(s) == Touched(s)

\* One row for the pull request: the head with the newest activity.
Archived(s) ==
    {h \in Touched(s) :
        \A i, j \in DOMAIN s.activity :
            s.activity[i] = h /\ s.activity[j] \in Touched(s) => j <= i}

summarizeSessions(s) ==
    IF s.status \in Endings THEN [s EXCEPT !.archived = Archived(s)]
                            ELSE [s EXCEPT !.active = Active(s)]

-----------------------------------------------------------------------------
\* Without decisions there is nothing else to read.
ReadProgress ==
    /\ session /\ listing.todo = {}
    /\ listing' = IF activity = << >> THEN NothingRead
                  ELSE [NothingRead EXCEPT !.todo = {"decks", "status"},
                                           !.decided = decided, !.activity = activity]
    /\ UNCHANGED deckPageVars

ListingRead(what, state) ==
    /\ what \in listing.todo
    /\ LET rest == listing.todo \ {what}
           next == [state EXCEPT !.todo = rest]
       IN listing' = IF rest = {} THEN summarizeSessions(next) ELSE next
    /\ UNCHANGED deckPageVars

ReadDecks == ListingRead("decks", [listing EXCEPT !.decks = decks])

\* The status row, if there is one (PrStatus says how it comes about).
ReadStatus == \E v \in Statuses : ListingRead("status", [listing EXCEPT !.status = v])

\* One of the reads throws: the error boundary.
ListingFails ==
    /\ listing.todo # {}
    /\ listing' = NothingRead
    /\ UNCHANGED deckPageVars

DashboardInit == DeckPageInit /\ listing = NothingRead

ListsReviews == ReadProgress \/ ReadDecks \/ ReadStatus \/ ListingFails

DashboardNext == ListsReviews \/ (DeckPageNext /\ UNCHANGED listing)

DashboardSpec == DashboardInit /\ [][DashboardNext]_dashboardVars

-----------------------------------------------------------------------------
\* "pick up right where you left off": until a deck is stored or a card
\* decided after the listing read them, a row that is not marked stale leads
\* to its own deck, with a card in it that waits for a decision.
ContinueIsHonest ==
    \A row \in listing.active :
        ~row.stale /\ decks = listing.decks =>
            /\ LatestDeck = row.head
            /\ decided = listing.decided =>
                  FirstUndecided(row.head, decided[row.head]) <= Len(CardsOf[row.head])

\* Work that was started is listed, however decks are stored while the listing
\* is read: every begun deck of an open pull request that is not finished, and
\* one row under "Done", of the last activity, once it has ended.
StartedWorkIsListed ==
    listing.todo = {} =>
        LET begun == {h \in Range(listing.activity) : Reviewed(listing, h) > 0} IN
        IF listing.status = "open"
        THEN /\ listing.archived = {}
             /\ {row.head : row \in listing.active} =
                    {h \in begun : \E f \in Fps(h) : f \notin listing.decided[h]}
        ELSE /\ listing.active = {}
             /\ listing.archived = {Last(listing.activity)}
=============================================================================
