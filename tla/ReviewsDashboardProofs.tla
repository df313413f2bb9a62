----------------------- MODULE ReviewsDashboardProofs -----------------------
(***************************************************************************)
(* The dashboard for any decks and any order of reads, decisions and       *)
(* stored decks.  The argument: a card is decided in a deck that is        *)
(* stored, and a stored deck stays, so that the decks, which are read      *)
(* after the decisions, have all that the decisions are about.             *)
(***************************************************************************)
EXTENDS ReviewsDashboard, DeckPageProofs, FiniteSetTheorems

ListingStates == [todo : SUBSET {"decks", "status"}, decided : [Heads -> SUBSET STRING],
                  activity : Seq(Heads), decks : Seq(Heads), status : Statuses,
                  active : SUBSET [head : Heads, stale : BOOLEAN], archived : SUBSET Heads]

\* Heads of an activity a come once, and have decisions d on cards of theirs.
Begun(a, d) ==
    /\ a \in Seq(Heads)
    /\ \A i, j \in DOMAIN a : a[i] = a[j] => i = j
    /\ \A i \in DOMAIN a : d[a[i]] \cap Fps(a[i]) # {}

\* Only cards of a stored deck are decided.
Worked == Begun(activity, decided) /\ Range(activity) \subseteq Range(decks)

\* A listing that has read its decisions: the decks of their heads were stored
\* by then, so that the decks it reads afterwards have them.
Listed ==
    listing # NothingRead =>
        /\ listing \in ListingStates /\ listing.activity # << >>
        /\ Begun(listing.activity, listing.decided)
        /\ Range(listing.activity) \subseteq Range(decks)
        /\ "decks" \notin listing.todo => Range(listing.activity) \subseteq Range(listing.decks)
        /\ listing.todo # {} => listing.active = {} /\ listing.archived = {}
        /\ listing.todo = {} =>
              IF listing.status \in Endings
              THEN listing.active = {} /\ listing.archived = Archived(listing)
              ELSE listing.archived = {} /\ listing.active = Active(listing)

DashboardInv == IInv /\ Worked /\ Listed

-----------------------------------------------------------------------------
(* Sequences and counts.                                                   *)

LEMMA RemovedAt ==
    ASSUME NEW S, NEW s \in Seq(S), NEW k \in 1 .. Len(s)
    PROVE  /\ RemoveAt(s, k) \in Seq(S) /\ Len(RemoveAt(s, k)) = Len(s) - 1
           /\ \A i \in 1 .. Len(s) - 1 : RemoveAt(s, k)[i] = IF i < k THEN s[i] ELSE s[i + 1]
<1> DEFINE a == SubSeq(s, 1, k - 1)
           b == SubSeq(s, k + 1, Len(s))
<1>1. /\ a \in Seq(S) /\ Len(a) = k - 1
      /\ \A i \in 1 .. k - 1 : a[i] = s[i]
    OBVIOUS
<1>2. /\ b \in Seq(S) /\ Len(b) = Len(s) - k
      /\ \A i \in 1 .. Len(s) - k : b[i] = s[k + i]
    OBVIOUS
<1>3. RemoveAt(s, k) = a \o b
    BY DEF RemoveAt
<1> HIDE DEF a, b
<1>4. /\ a \o b \in Seq(S) /\ Len(a \o b) = Len(s) - 1
      /\ \A i \in 1 .. Len(s) - 1 : (a \o b)[i] = IF i <= k - 1 THEN a[i] ELSE b[i - (k - 1)]
  <2>1. Len(a) + Len(b) = Len(s) - 1
      BY <1>1, <1>2
  <2>2. /\ a \o b \in Seq(S) /\ Len(a \o b) = Len(a) + Len(b)
        /\ \A i \in 1 .. Len(a) + Len(b) : (a \o b)[i] = IF i <= Len(a) THEN a[i] ELSE b[i - Len(a)]
      BY <1>1, <1>2, ConcatProperties
  <2> QED BY <1>1, <2>1, <2>2
<1>5. \A i \in 1 .. Len(s) - 1 : (a \o b)[i] = IF i < k THEN s[i] ELSE s[i + 1]
    BY <1>1, <1>2, <1>4
<1> QED BY <1>3, <1>4, <1>5

\* What the counts of decided cards say.
LEMMA CountsOfCards ==
    ASSUME NEW h \in Heads, NEW s
    PROVE  /\ Reviewed(s, h) > 0 <=> s.decided[h] \cap Fps(h) # {}
           /\ Reviewed(s, h) < Len(CardsOf[h]) <=> \E f \in Fps(h) : f \notin s.decided[h]
<1> DEFINE n == Len(CardsOf[h])
           all == 1 .. n
           some == {i \in DOMAIN CardsOf[h] : CardsOf[h][i].fp \in s.decided[h]}
<1>1. DOMAIN CardsOf[h] = all /\ n \in Nat /\ some \in SUBSET all
    BY HeadsAreNumbers
<1>2. IsFiniteSet(all) /\ Cardinality(all) = n
  <2> HIDE DEF n
  <2>1. 1 \in Int /\ n \in Int
      BY <1>1
  <2>2. IsFiniteSet(1 .. n) /\ Cardinality(1 .. n) = IF 1 > n THEN 0 ELSE n - 1 + 1
      BY <2>1, FS_Interval
  <2> QED BY <1>1, <2>2
<1>3. some # {} <=> s.decided[h] \cap Fps(h) # {}
    BY DEF Fps
<1>4. all = some <=> \A f \in Fps(h) : f \in s.decided[h]
    BY <1>1 DEF Fps
<1> HIDE DEF all, some, n
<1>5. /\ IsFiniteSet(some) /\ Cardinality(some) <= n
      /\ n = Cardinality(some) => all = some
    BY <1>1, <1>2, FS_Subset
<1>6. Cardinality(some) \in Nat
    BY <1>5, FS_CardinalityType
<1>7. Cardinality(some) = 0 <=> some = {}
    BY <1>5, FS_EmptySet
<1>8. Cardinality(some) > 0 <=> some # {}
    BY <1>6, <1>7
<1>9. Cardinality(some) < n <=> all # some
    BY <1>1, <1>2, <1>5, <1>6
<1> QED BY <1>3, <1>4, <1>8, <1>9 DEF some, n, Reviewed

\* A head that is decided again is the last of the activity, once.
LEMMA MovedToTheEnd ==
    ASSUME NEW S, NEW a \in Seq(S), NEW h \in S,
           \A i, j \in DOMAIN a : a[i] = a[j] => i = j
    PROVE  LET b == Append(RemoveFirst(a, h), h) IN
           /\ b \in Seq(S) /\ b # << >>
           /\ \A i, j \in DOMAIN b : b[i] = b[j] => i = j
           /\ \A i \in DOMAIN b : b[i] = h \/ \E j \in DOMAIN a : b[i] = a[j]
<1> DEFINE spots == {i \in 1 .. Len(a) : a[i] = h}
           rest == RemoveFirst(a, h)
           b == Append(rest, h)
<1>1. rest = IF \E i \in 1 .. Len(a) : a[i] = h THEN RemoveAt(a, Min(spots)) ELSE a
    BY DEF RemoveFirst, SelectInSeq
<1>2. /\ rest \in Seq(S)
      /\ \A i \in DOMAIN rest : rest[i] # h /\ \E j \in DOMAIN a : rest[i] = a[j]
      /\ \A i, j \in DOMAIN rest : rest[i] = rest[j] => i = j
  <2>1. CASE ~ \E i \in 1 .. Len(a) : a[i] = h
      BY <1>1, <2>1
  <2>2. CASE \E i \in 1 .. Len(a) : a[i] = h
    <3>1. spots \in SUBSET Nat /\ spots # {}
        BY <2>2
    <3>2. Min(spots) \in spots
        BY <3>1, NatMinimum
    <3> DEFINE k == Min(spots)
    <3>3. k \in 1 .. Len(a) /\ a[k] = h
        BY <3>2
    <3>4. rest = RemoveAt(a, k)
        BY <1>1, <2>2
    <3> HIDE DEF k, rest
    <3>5. /\ rest \in Seq(S) /\ Len(rest) = Len(a) - 1
          /\ \A i \in 1 .. Len(a) - 1 : rest[i] = IF i < k THEN a[i] ELSE a[i + 1]
        BY <3>3, <3>4, RemovedAt
    <3>6. DOMAIN rest = 1 .. Len(a) - 1 /\ DOMAIN a = 1 .. Len(a) /\ Len(a) \in Nat
        BY <3>5
    <3>7. ASSUME NEW i \in DOMAIN rest
          PROVE  LET j == IF i < k THEN i ELSE i + 1 IN
                 j \in DOMAIN a /\ rest[i] = a[j] /\ j # k /\ i \in Nat /\ k \in Nat
        BY <3>3, <3>5, <3>6
    <3>8. ASSUME NEW i \in DOMAIN rest, NEW j \in DOMAIN rest, rest[i] = rest[j] PROVE i = j
      <4> DEFINE x == IF i < k THEN i ELSE i + 1
                 y == IF j < k THEN j ELSE j + 1
      <4>1. x \in DOMAIN a /\ rest[i] = a[x] /\ i \in Nat /\ k \in Nat
          BY <3>7
      <4>2. y \in DOMAIN a /\ rest[j] = a[y] /\ j \in Nat
          BY <3>7
      <4>3. x = y
          BY <3>8, <4>1, <4>2
      <4> QED BY <4>1, <4>2, <4>3
    <3>9. ASSUME NEW i \in DOMAIN rest PROVE rest[i] # h /\ \E j \in DOMAIN a : rest[i] = a[j]
        BY <3>3, <3>6, <3>7
    <3> QED BY <3>5, <3>8, <3>9
  <2> QED BY <2>1, <2>2
<1> HIDE DEF rest
<1>3. /\ b \in Seq(S) /\ b # << >> /\ Len(b) = Len(rest) + 1 /\ b[Len(rest) + 1] = h
      /\ \A i \in 1 .. Len(rest) : b[i] = rest[i]
    BY <1>2, AppendProperties
<1>4. DOMAIN b = 1 .. Len(rest) + 1 /\ DOMAIN rest = 1 .. Len(rest) /\ Len(rest) \in Nat
    BY <1>2, <1>3
<1> HIDE DEF b
<1>5. \A i \in DOMAIN b : (i = Len(rest) + 1 /\ b[i] = h) \/ (i \in DOMAIN rest /\ b[i] = rest[i])
    BY <1>3, <1>4
<1>6. \A i, j \in DOMAIN b : b[i] = b[j] => i = j
    BY <1>2, <1>5
<1>7. \A i \in DOMAIN b : b[i] = h \/ \E j \in DOMAIN a : b[i] = a[j]
    BY <1>2, <1>5
<1> QED BY <1>3, <1>6, <1>7 DEF b, rest

-----------------------------------------------------------------------------
\* What the page does to the progress: nothing, or a decision on a card of the
\* deck it shows.
LEMMA ProgressMoves ==
    ASSUME IInv, [DeckPageNext]_deckPageVars
    PROVE  \/ activity' = activity
           \/ /\ page.head \in Heads \cap Range(decks) /\ decks' = decks
              /\ activity' = Append(RemoveFirst(activity, page.head), page.head)
              /\ decided'[page.head] \cap Fps(page.head) # {}
<1>1. CASE Swipe
  <2>1. CASE activity' # activity
    <3>1. /\ HasCard /\ UNCHANGED decks
          /\ decided' = [decided EXCEPT ![page.head] = @ \cup {CurrentCard}]
          /\ activity' = Append(RemoveFirst(activity, page.head), page.head)
        BY <1>1, <2>1 DEF Swipe, progress, pullRequest
    <3>2. page \in PageStates /\ decided \in [Heads -> SUBSET STRING] /\ Stored(page.head)
        BY DEF IInv, Types, Ordered
    <3>3. page.head \in Heads /\ page.index \in Nat \ {0} /\ page.index <= Len(CardsOf[page.head])
        BY <3>1, <3>2 DEF HasCard, PageStates, HeadsOrNone
    <3>4. page.index \in DOMAIN CardsOf[page.head]
        BY <3>3, HeadsAreNumbers
    <3>5. CurrentCard \in Fps(page.head)
        BY <3>4 DEF CurrentCard, Fps
    <3>6. CurrentCard \in decided'[page.head]
        BY <3>1, <3>2, <3>3
    <3>7. page.head \in Range(decks)
        BY <3>2, <3>3, HeadsAreNumbers DEF Stored, Range
    <3> QED BY <3>1, <3>3, <3>5, <3>6, <3>7
  <2> QED BY <2>1
<1>2. CASE Elsewhere
  <2>1. CASE Push \/ (\E h \in Heads : SaveDeck(h)) \/ SessionEnds
      BY <2>1 DEF Push, SaveDeck, SessionEnds, progress
  <2>2. CASE \E s \in Subs : \/ postCardComment(s) \/ PostReview(s) \/ postConversation(s)
                             \/ recordPostedComment(s)
      BY <2>2 DEF postCardComment, PostReview, postConversation, recordPostedComment, PostFrame, progress
  <2> QED BY <1>2, <2>1, <2>2 DEF Elsewhere
<1>3. CASE Loads
  <2>1. CASE SignIn \/ OpenPage \/ ReadDeck \/ Show
      BY <2>1 DEF SignIn, OpenPage, ReadDeck, Show, progress
  <2>2. CASE ReadDeckFails \/ GitHubAuthError
      BY <2>2 DEF ReadDeckFails, GitHubAuthError, LoadEndsInError, progress
  <2>3. CASE getDecidedFingerprints \/ resolveStaleDeck \/ listPostedComments
      BY <2>3 DEF getDecidedFingerprints, resolveStaleDeck, listPostedComments, Read, progress
  <2> QED BY <1>3, <2>1, <2>2, <2>3 DEF Loads
<1>4. CASE PickLanguage \/ Submit \/ Send \/ setLanguage \/ LeavePage
    BY <1>4 DEF PickLanguage, Submit, Send, setLanguage, LeavePage, progress
<1>5. CASE \E s \in Subs : AnswerArrives(s) \/ AnswerLost(s)
    BY <1>5 DEF AnswerArrives, AnswerLost, progress
<1>6. CASE UNCHANGED deckPageVars
    BY <1>6 DEF deckPageVars
<1> QED BY <1>1, <1>2, <1>3, <1>4, <1>5, <1>6 DEF DeckPageNext, Works

LEMMA DecksGrow ==
    ASSUME IInv, [DeckPageNext]_deckPageVars
    PROVE  Range(decks) \subseteq Range(decks') /\ decks \in Seq(Heads) /\ decks' \in Seq(Heads)
<1>1. decks \in Seq(Heads) /\ decks' \in Seq(Heads)
    BY DeckPageInvNext DEF IInv, Types
<1>2. decks' = decks \/ \E h \in Heads : decks' = Append(decks, h)
    BY StoredStays DEF IInv, SaveDeck
<1>3. \A i \in DOMAIN decks : i \in DOMAIN decks' /\ decks'[i] = decks[i]
    BY <1>1, <1>2
<1> QED BY <1>1, <1>3 DEF Range

LEMMA WorkedKeeps ==
    ASSUME IInv, Worked, [DeckPageNext]_deckPageVars PROVE Worked'
<1>1. /\ activity \in Seq(Heads) /\ \A i, j \in DOMAIN activity : activity[i] = activity[j] => i = j
      /\ \A i \in DOMAIN activity : /\ activity[i] \in Heads /\ activity[i] \in Range(decks)
                                    /\ decided[activity[i]] \cap Fps(activity[i]) # {}
    BY DEF Worked, Begun, Range
<1>2. /\ \A h \in Heads : decided[h] \subseteq decided'[h]
      /\ Range(decks) \subseteq Range(decks')
    BY StoredStays, DecksGrow DEF IInv
<1>3. \A i \in DOMAIN activity : /\ activity[i] \in Range(decks')
                                 /\ decided'[activity[i]] \cap Fps(activity[i]) # {}
    BY <1>1, <1>2
<1>4. CASE activity' = activity
    BY <1>1, <1>3, <1>4 DEF Worked, Begun, Range
<1>5. CASE /\ page.head \in Heads \cap Range(decks)
           /\ activity' = Append(RemoveFirst(activity, page.head), page.head)
           /\ decided'[page.head] \cap Fps(page.head) # {}
  <2> DEFINE h == page.head
  <2>1. /\ activity' \in Seq(Heads)
        /\ \A i, j \in DOMAIN activity' : activity'[i] = activity'[j] => i = j
        /\ \A i \in DOMAIN activity' : activity'[i] = h \/ \E j \in DOMAIN activity : activity'[i] = activity[j]
      BY <1>1, <1>5, MovedToTheEnd
  <2>2. ASSUME NEW i \in DOMAIN activity'
        PROVE  activity'[i] \in Range(decks') /\ decided'[activity'[i]] \cap Fps(activity'[i]) # {}
      BY <1>2, <1>3, <1>5, <2>1
  <2>3. Range(activity') \subseteq Range(decks')
      BY <2>2 DEF Range
  <2> QED BY <2>1, <2>2, <2>3 DEF Worked, Begun
<1> QED BY <1>4, <1>5, ProgressMoves

\* The rows of a listing depend on what it read only.
LEMMA SameRows ==
    ASSUME NEW s, NEW t, t.decided = s.decided, t.activity = s.activity, t.decks = s.decks
    PROVE  Active(t) = Active(s) /\ Archived(t) = Archived(s)
<1>1. \A h : Reviewed(t, h) = Reviewed(s, h)
    BY DEF Reviewed
<1>2. Touched(t) = Touched(s)
    BY <1>1 DEF Touched
<1> QED BY <1>1, <1>2 DEF Active, Archived

LEMMA RowTypes ==
    ASSUME NEW s \in ListingStates
    PROVE  /\ Touched(s) \subseteq Heads /\ Archived(s) \subseteq Heads
           /\ Active(s) \subseteq [head : Heads, stale : BOOLEAN]
<1>1. Touched(s) \subseteq Heads
  <2>1. s.activity \in Seq(Heads)
      BY DEF ListingStates
  <2> QED BY <2>1 DEF Touched, Range
<1>2. Archived(s) \subseteq Heads
    BY <1>1 DEF Archived
<1>3. \A row \in Active(s) : row.head \in Touched(s) /\ row = [head |-> row.head, stale |-> row.head # Last(s.decks)]
    BY DEF Active
<1>4. \A x, y : (x # y) \in BOOLEAN
    OBVIOUS
<1>5. Active(s) \subseteq [head : Heads, stale : BOOLEAN]
  <2> SUFFICES ASSUME NEW row \in Active(s) PROVE row \in [head : Heads, stale : BOOLEAN]
      OBVIOUS
  <2> DEFINE stale == row.head # Last(s.decks)
  <2>1. stale \in BOOLEAN
      OBVIOUS
  <2>2. row.head \in Heads /\ row = [head |-> row.head, stale |-> stale]
      BY <1>1, <1>3
  <2> HIDE DEF stale
  <2> QED BY <2>1, <2>2
<1> QED BY <1>1, <1>2, <1>5

\* One of the two reads is over.
LEMMA ListingReadKeeps ==
    ASSUME IInv, Listed, NEW what, NEW state \in ListingStates,
           ListingRead(what, state), listing # NothingRead,
           state.todo = listing.todo, state.decided = listing.decided,
           state.activity = listing.activity, state.active = listing.active,
           state.archived = listing.archived,
           what = "decks" => state.decks = decks,
           what # "decks" => state.decks = listing.decks
    PROVE  Listed'
<1> DEFINE rest == listing.todo \ {what}
           next == [state EXCEPT !.todo = rest]
<1>1. /\ listing \in ListingStates /\ listing.activity # << >>
      /\ Begun(listing.activity, listing.decided)
      /\ Range(listing.activity) \subseteq Range(decks)
      /\ "decks" \notin listing.todo => Range(listing.activity) \subseteq Range(listing.decks)
      /\ what \in listing.todo /\ listing.active = {} /\ listing.archived = {}
    BY DEF Listed, ListingRead
<1>2. listing' = (IF rest = {} THEN summarizeSessions(next) ELSE next) /\ UNCHANGED deckPageVars
    BY DEF ListingRead
<1>3. decks' = decks
    BY <1>2 DEF deckPageVars
<1>4. /\ next \in ListingStates /\ next.todo = rest /\ next.decided = listing.decided
      /\ next.activity = listing.activity /\ next.active = {} /\ next.archived = {}
      /\ next.decks = state.decks /\ next.status = state.status
    BY <1>1 DEF ListingStates
<1>5. "decks" \notin rest => Range(next.activity) \subseteq Range(next.decks)
    BY <1>1, <1>4
<1> HIDE DEF next
<1>6. /\ listing' \in ListingStates /\ listing'.todo = rest
      /\ listing'.decided = listing.decided /\ listing'.activity = listing.activity
      /\ listing'.decks = next.decks /\ listing'.status = next.status
      /\ rest # {} => listing'.active = {} /\ listing'.archived = {}
      /\ rest = {} => IF next.status \in Endings
                      THEN listing'.active = {} /\ listing'.archived = Archived(next)
                      ELSE listing'.archived = {} /\ listing'.active = Active(next)
  <2>1. CASE rest # {}
      BY <1>2, <1>4, <2>1
  <2>2. CASE rest = {} /\ next.status \in Endings
    <3>1. listing' = [next EXCEPT !.archived = Archived(next)]
        BY <1>2, <2>2 DEF summarizeSessions
    <3> QED BY <1>4, <2>2, <3>1, RowTypes DEF ListingStates
  <2>3. CASE rest = {} /\ next.status \notin Endings
    <3>1. listing' = [next EXCEPT !.active = Active(next)]
        BY <1>2, <2>3 DEF summarizeSessions
    <3> QED BY <1>4, <2>3, <3>1, RowTypes DEF ListingStates
  <2> QED BY <2>1, <2>2, <2>3
<1>7. Active(listing)' = Active(next) /\ Archived(listing)' = Archived(next)
    BY <1>4, <1>6, SameRows
<1>8. /\ "decks" \notin listing'.todo => Range(listing'.activity) \subseteq Range(listing'.decks)
      /\ Range(listing'.activity) \subseteq Range(decks')
    BY <1>1, <1>3, <1>4, <1>5, <1>6
<1> QED BY <1>1, <1>6, <1>7, <1>8 DEF Listed

\* A step of the dashboard, alone or in the tab.
DashboardStep ==
    \/ ListsReviews
    \/ [DeckPageNext]_deckPageVars /\ listing' \in {listing, NothingRead}

LEMMA NothingReadIsListed ==
    ASSUME listing' = NothingRead PROVE Listed'
    BY DEF Listed

LEMMA ListedKeeps ==
    ASSUME DashboardInv, DashboardStep PROVE Listed'
<1> USE DEF DashboardInv
<1>1. CASE [DeckPageNext]_deckPageVars /\ listing' \in {listing, NothingRead}
  <2>1. CASE listing' = NothingRead
      BY <2>1, NothingReadIsListed
  <2>2. CASE listing' = listing
    <3>1. Range(decks) \subseteq Range(decks')
        BY <1>1, DecksGrow
    <3>2. Active(listing)' = Active(listing) /\ Archived(listing)' = Archived(listing)
        BY <2>2, SameRows
    <3> QED BY <2>2, <3>1, <3>2 DEF Listed
  <2> QED BY <1>1, <2>1, <2>2
<1>2. CASE ReadProgress
  <2>1. CASE activity = << >>
      BY <1>2, <2>1, NothingReadIsListed DEF ReadProgress
  <2>2. CASE activity # << >>
    <3>1. /\ activity \in Seq(Heads) /\ decided \in [Heads -> SUBSET STRING]
          /\ Begun(activity, decided) /\ Range(activity) \subseteq Range(decks) /\ decks' = decks
        BY <1>2 DEF IInv, Types, Worked, Begun, ReadProgress, deckPageVars
    <3>2. listing' = [todo |-> {"decks", "status"}, decided |-> decided, activity |-> activity,
                      decks |-> << >>, status |-> "open", active |-> {}, archived |-> {}]
        BY <1>2, <2>2 DEF ReadProgress, NothingRead
    <3>3. << >> \in Seq(Heads)
        OBVIOUS
    <3>4. listing' \in ListingStates
        BY <3>1, <3>2, <3>3 DEF ListingStates, Statuses
    <3>5. /\ listing'.activity = activity /\ listing'.decided = decided
          /\ listing'.todo = {"decks", "status"} /\ listing'.active = {} /\ listing'.archived = {}
        BY <3>2
    <3> QED BY <2>2, <3>1, <3>4, <3>5 DEF Listed
  <2> QED BY <2>1, <2>2
<1>3. CASE ReadDecks
  <2>1. listing # NothingRead
      BY <1>3 DEF ReadDecks, ListingRead, NothingRead
  <2>2. listing \in ListingStates /\ decks \in Seq(Heads)
      BY <2>1 DEF Listed, IInv, Types
  <2> DEFINE state == [listing EXCEPT !.decks = decks]
  <2>3. /\ state \in ListingStates /\ state.todo = listing.todo /\ state.decided = listing.decided
        /\ state.activity = listing.activity /\ state.active = listing.active
        /\ state.archived = listing.archived /\ state.decks = decks
      BY <2>2 DEF ListingStates
  <2>4. ListingRead("decks", state)
      BY <1>3 DEF ReadDecks
  <2> HIDE DEF state
  <2> QED BY <2>1, <2>3, <2>4, ListingReadKeeps
<1>4. CASE ReadStatus
  <2>1. PICK v \in Statuses : ListingRead("status", [listing EXCEPT !.status = v])
      BY <1>4 DEF ReadStatus
  <2>2. listing # NothingRead
      BY <2>1 DEF ListingRead, NothingRead
  <2>3. listing \in ListingStates
      BY <2>2 DEF Listed
  <2> DEFINE state == [listing EXCEPT !.status = v]
  <2>4. /\ state \in ListingStates /\ state.todo = listing.todo /\ state.decided = listing.decided
        /\ state.activity = listing.activity /\ state.active = listing.active
        /\ state.archived = listing.archived /\ state.decks = listing.decks
      BY <2>3 DEF ListingStates
  <2>5. ListingRead("status", state)
      BY <2>1
  <2> HIDE DEF state
  <2> QED BY <2>2, <2>4, <2>5, ListingReadKeeps
<1>5. CASE ListingFails
    BY <1>5, NothingReadIsListed DEF ListingFails
<1> QED BY <1>1, <1>2, <1>3, <1>4, <1>5 DEF DashboardStep, ListsReviews

LEMMA ListingLeavesTheDeck == ASSUME ListsReviews PROVE UNCHANGED deckPageVars
    BY DEF ListsReviews, ReadProgress, ReadDecks, ReadStatus, ListingRead, ListingFails

LEMMA DashboardNextKeeps == ASSUME DashboardInv, DashboardStep PROVE DashboardInv'
<1>1. [DeckPageNext]_deckPageVars
    BY ListingLeavesTheDeck DEF DashboardStep
<1> QED BY <1>1, DeckPageInvNext, WorkedKeeps, ListedKeeps DEF DashboardInv

LEMMA DashboardInitKeeps == ASSUME DashboardInit PROVE DashboardInv
<1>1. IInv /\ Listed
    BY DeckPageInvInit DEF DashboardInit, Listed
<1>2. Worked
    BY DEF DashboardInit, DeckPageInit, Worked, Begun, Range
<1> QED BY <1>1, <1>2 DEF DashboardInv

\* A row that is not stale is of the deck that was the newest when it was read,
\* and has a card without a decision.
LEMMA InvContinues == ASSUME DashboardInv PROVE ContinueIsHonest
<1> SUFFICES ASSUME NEW row \in listing.active, ~row.stale, decks = listing.decks
             PROVE  /\ LatestDeck = row.head
                    /\ decided = listing.decided =>
                          FirstUndecided(row.head, decided[row.head]) <= Len(CardsOf[row.head])
    BY DEF ContinueIsHonest
<1>1. listing # NothingRead
    BY DEF NothingRead
<1>2. listing \in ListingStates /\ listing.todo = {} /\ listing.active = Active(listing)
    BY <1>1 DEF DashboardInv, Listed
<1>3. PICK h \in Touched(listing) :
         /\ row = [head |-> h, stale |-> h # Last(listing.decks)]
         /\ Reviewed(listing, h) < Len(CardsOf[h])
    BY <1>2 DEF Active
<1>4. row.head = h /\ h = Last(listing.decks)
    BY <1>3
<1>5. h \in Heads /\ listing.decks # << >>
  <2>1. Touched(listing) \subseteq Heads
      BY <1>2, RowTypes
  <2>2. h \in Range(listing.decks)
      BY <1>3 DEF Touched
  <2> QED BY <2>1, <2>2 DEF Range
<1>6. LatestDeck = h
    BY <1>4, <1>5 DEF LatestDeck
<1>7. ASSUME decided = listing.decided
      PROVE  FirstUndecided(h, decided[h]) <= Len(CardsOf[h])
  <2>1. PICK f \in Fps(h) : f \notin decided[h]
      BY <1>3, <1>5, <1>7, CountsOfCards
  <2>2. PICK i \in DOMAIN CardsOf[h] : CardsOf[h][i].fp \notin decided[h]
      BY <2>1 DEF Fps
  <2>3. /\ DOMAIN CardsOf[h] = 1 .. Len(CardsOf[h]) /\ Len(CardsOf[h]) \in Nat
        /\ FirstUndecided(h, decided[h]) \in Nat
        /\ \A j \in DOMAIN CardsOf[h] : j < FirstUndecided(h, decided[h]) => CardsOf[h][j].fp \in decided[h]
      BY <1>5, HeadsAreNumbers, Resume
  <2> DEFINE S == {j \in DOMAIN CardsOf[h] : CardsOf[h][j].fp \notin decided[h]} \cup {Len(CardsOf[h]) + 1}
  <2>4. S \in SUBSET Nat /\ i \in S /\ FirstUndecided(h, decided[h]) = Min(S)
      BY <2>2, <2>3 DEF FirstUndecided
  <2> HIDE DEF S
  <2>5. Min(S) <= i
      BY <2>4, NatMinimum
  <2> QED BY <2>2, <2>3, <2>4, <2>5
<1> QED BY <1>4, <1>6, <1>7

\* All that was begun is listed, and the end of a pull request once.
LEMMA InvLists == ASSUME DashboardInv PROVE StartedWorkIsListed
<1> DEFINE begun == {h \in Range(listing.activity) : Reviewed(listing, h) > 0}
<1>1. CASE listing = NothingRead
    BY <1>1 DEF StartedWorkIsListed, NothingRead, Range
<1>2. CASE listing # NothingRead /\ listing.todo = {}
  <2>1. /\ listing \in ListingStates /\ listing.activity # << >>
        /\ Begun(listing.activity, listing.decided)
        /\ Range(listing.activity) \subseteq Range(listing.decks)
        /\ IF listing.status \in Endings
           THEN listing.active = {} /\ listing.archived = Archived(listing)
           ELSE listing.archived = {} /\ listing.active = Active(listing)
      BY <1>2 DEF DashboardInv, Listed
  <2>2. /\ listing.activity \in Seq(Heads) /\ Range(listing.activity) \subseteq Heads
        /\ listing.status \in Statuses
      BY <2>1 DEF ListingStates, Range
  <2>3. begun = Touched(listing) /\ begun \subseteq Heads
      BY <2>1, <2>2 DEF Touched
  <2>4. CASE listing.status = "open"
    <3>1. listing.archived = {} /\ listing.active = Active(listing)
        BY <2>1, <2>4 DEF Endings
    <3>2. {row.head : row \in Active(listing)} =
             {h \in Touched(listing) : Reviewed(listing, h) < Len(CardsOf[h])}
      <4> DEFINE unfinished == {h \in Touched(listing) : Reviewed(listing, h) < Len(CardsOf[h])}
                 Row(h) == [head |-> h, stale |-> h # Last(listing.decks)]
      <4>1. Active(listing) = {Row(h) : h \in unfinished}
          BY DEF Active
      <4>2. \A h : Row(h).head = h
          OBVIOUS
      <4> HIDE DEF unfinished, Row
      <4>3. {row.head : row \in Active(listing)} = unfinished
          BY <4>1, <4>2
      <4> QED BY <4>3 DEF unfinished
    <3>3. \A h \in Touched(listing) : Reviewed(listing, h) < Len(CardsOf[h])
                                         <=> \E f \in Fps(h) : f \notin listing.decided[h]
        BY <2>3, CountsOfCards
    <3>4. {row.head : row \in listing.active} = {h \in begun : \E f \in Fps(h) : f \notin listing.decided[h]}
        BY <2>3, <3>1, <3>2, <3>3
    <3> QED BY <2>4, <3>1, <3>4 DEF StartedWorkIsListed
  <2>5. CASE listing.status # "open"
    <3> DEFINE a == listing.activity
               n == Len(a)
    <3>1. listing.active = {} /\ listing.archived = Archived(listing)
        BY <2>1, <2>2, <2>5 DEF Statuses, Endings
    <3>2. n \in Nat /\ n > 0 /\ DOMAIN a = 1 .. n /\ \A i, j \in DOMAIN a : a[i] = a[j] => i = j
        BY <2>1, <2>2 DEF Begun
    <3>3. \A i \in DOMAIN a : a[i] \in Touched(listing)
      <4> SUFFICES ASSUME NEW i \in DOMAIN a PROVE a[i] \in Touched(listing)
          OBVIOUS
      <4>1. a[i] \in Range(a) /\ a[i] \in Heads /\ listing.decided[a[i]] \cap Fps(a[i]) # {}
          BY <2>1, <2>2 DEF Begun, Range
      <4>2. Reviewed(listing, a[i]) > 0
          BY <4>1, CountsOfCards
      <4> QED BY <2>1, <4>1, <4>2 DEF Touched
    <3>4. Archived(listing) = {a[n]}
      <4>1. a[n] \in Archived(listing)
          BY <3>2, <3>3 DEF Archived
      <4>2. ASSUME NEW h \in Archived(listing) PROVE h = a[n]
        <5>1. h \in Touched(listing)
              /\ \A i, j \in DOMAIN a : a[i] = h /\ a[j] \in Touched(listing) => j <= i
            BY DEF Archived
        <5>2. PICK i \in DOMAIN a : a[i] = h
            BY <5>1 DEF Touched, Range
        <5>3. n <= i
            BY <3>2, <3>3, <5>1, <5>2
        <5> QED BY <3>2, <5>2, <5>3
      <4> QED BY <4>1, <4>2
    <3>5. Last(listing.activity) = a[n]
        BY DEF Last
    <3> QED BY <2>5, <3>1, <3>4, <3>5 DEF StartedWorkIsListed
  <2> QED BY <2>4, <2>5
<1> QED BY <1>1, <1>2 DEF StartedWorkIsListed

LEMMA DashboardNextIsStep == ASSUME [DashboardNext]_dashboardVars PROVE DashboardStep
    BY DEF DashboardNext, DashboardStep, dashboardVars

-----------------------------------------------------------------------------
\* A row that is not stale leads to its own deck and to a card in it that waits
\* for a decision, until something changes (summarizeSessions, computeResume).
THEOREM HonestRows == DashboardSpec => []ContinueIsHonest
    BY DashboardInitKeeps, DashboardNextIsStep, DashboardNextKeeps, InvContinues, PTL
       DEF DashboardSpec

\* No begun deck is missing and no finished one is listed, whatever was stored
\* while the listing was read (listReviewSessions, summarizeSessions).
THEOREM AllWorkListed == DashboardSpec => []StartedWorkIsListed
    BY DashboardInitKeeps, DashboardNextIsStep, DashboardNextKeeps, InvLists, PTL
       DEF DashboardSpec
=============================================================================
