--------------------------- MODULE DeckPageProofs ---------------------------
(***************************************************************************)
(* The deck page for any decks, pushes, loads and comments.  The invariant *)
(* has three parts that hardly touch each other: what is known of a        *)
(* comment at each step of its way, what a load may put on the page, and   *)
(* in which order decks come to the page.                                  *)
(***************************************************************************)
EXTENDS DeckPage, SequenceTheorems, WellFoundedInduction, TLAPS

HeadsOrNone == {NoHead} \cup Heads
Steps == {"none", "queued", "deck", "review", "conversation", "record", "answered"}
Names == STRING \cup {"none"}
AnswerStates == {"none", "posted", "sign in", "gone"} \cup Refusals
PostStates == [pc : Steps, fp : Names, shown : HeadsOrNone, card : Nat, head : HeadsOrNone,
               line : Nat, answer : AnswerStates]
Records == [sub : Subs, fp : Names, head : HeadsOrNone]
CommentStates == [sub : Subs, kind : {"review", "issue"}, head : HeadsOrNone, line : Nat]
PageStates == [up : BOOLEAN, head : HeadsOrNone, index : Nat \ {0}, opened : HeadsOrNone,
               swiped : SUBSET STRING, posted : SUBSET Records,
               outbox : Seq({Picked} \cup Subs), sending : {Nothing, Picked} \cup Subs,
               composer : {Nothing} \cup Subs]
LoadStates == [on : BOOLEAN, refresh : BOOLEAN, head : HeadsOrNone,
               todo : SUBSET {"deck", "decisions", "stale", "comments", "files"},
               decided : SUBSET STRING, posted : SUBSET Records]

Types ==
    /\ decks \in Seq(Heads)
    /\ decided \in [Heads -> SUBSET STRING]
    /\ comments \subseteq CommentStates /\ recorded \subseteq Records
    /\ load \in LoadStates /\ page \in PageStates
    /\ post \in [Subs -> PostStates]
    /\ "decisions" \in load.todo => load.head # NoHead

\* A comment that waits has done nothing yet, and waits once.
Queued ==
    /\ \A i \in DOMAIN page.outbox :
          page.outbox[i] # Picked => PostAt(page.outbox[i], "queued")
    /\ \A i, j \in DOMAIN page.outbox : page.outbox[i] = page.outbox[j] => i = j

\* A comment is written on a card of the deck that is shown, and goes to the
\* commit of a deck.
Written ==
    /\ \A s \in Subs :
          /\ post[s].pc # "none" => /\ post[s].shown \in Heads
                                   /\ post[s].card \in Twins(post[s].shown, post[s].fp)
          /\ post[s].pc \in {"review", "conversation"} => post[s].head \in Heads
    /\ \A c \in comments : c.head \in Heads

\* A comment on GitHub is past its creation.  Until there it is known to be on
\* a card of the deck it names and, for a review comment, on that card's lines.
Commented ==
    /\ \A c \in comments :
          /\ post[c.sub].pc \in {"record", "answered"} /\ post[c.sub].head = c.head
          /\ c.kind = "review" => c.line = LineOf(c.head, post[c.sub].fp) /\ c.line # Deletion
          /\ post[c.sub].fp \in Fps(c.head)
    /\ \A s \in Subs :
          /\ post[s].pc = "record" => \E c \in comments : c.sub = s
          /\ post[s].pc \in {"review", "conversation", "record"} => post[s].fp \in Fps(post[s].head)
          /\ post[s].pc = "review" =>
                post[s].line = LineOf(post[s].head, post[s].fp) /\ post[s].line # Deletion

PostInv == Queued /\ Commented /\ OneCommentPerSubmit /\ AnswerIsTrue

\* Nothing is read for a deck before it is known which.
DeckFirst ==
    "deck" \in load.todo => load.todo = {"deck"} /\ load.posted = {} /\ load.decided = {}

\* What is recorded, was loaded or is shown, is on GitHub.
Displayed ==
    /\ \A r \in recorded : /\ r.fp \in Fps(r.head)
                           /\ \E c \in comments : c.sub = r.sub /\ c.head = r.head
    /\ \A r \in load.posted : r \in recorded /\ r.head = load.head
    /\ \A r \in page.posted : r \in recorded /\ r.head = page.head

\* Decks come to the page in the order in which they were stored.
Stored(h) == h = NoHead \/ \E i \in DOMAIN decks : decks[i] = h
NotAfter(g, h) ==
    g = NoHead \/ \E i, j \in DOMAIN decks : i <= j /\ decks[i] = g /\ decks[j] = h

Ordered ==
    /\ \A i, j \in DOMAIN decks : decks[i] = decks[j] => i = j
    /\ Stored(page.head) /\ Stored(load.head)
    /\ NotAfter(page.opened, page.head)
    /\ load.on /\ load.refresh /\ "deck" \notin load.todo => NotAfter(page.head, load.head)

\* The decisions of a load were made at its head.
Resumed ==
    load.decided # {} => load.head # NoHead /\ load.decided \subseteq decided[load.head]

IInv == Types /\ PostInv /\ Written /\ DeckFirst /\ Displayed /\ Ordered /\ Resumed /\ NothingPassedUnreviewed

-----------------------------------------------------------------------------
(* The cards of a deck.                                                    *)

LEMMA NatMinimum ==
    ASSUME NEW S \in SUBSET Nat, S # {}
    PROVE  Min(S) \in S /\ \A y \in S : Min(S) <= y
<1>1. PICK x \in S : \A y \in S : ~(<<y, x>> \in OpToRel(<, Nat))
    BY WFMin, NatLessThanWellFounded, Zenon
<1>2. ASSUME NEW y \in S PROVE x <= y
  <2>1. x \in Nat /\ y \in Nat
      OBVIOUS
  <2>2. ~(<<y, x>> \in OpToRel(<, Nat))
      BY <1>1, Zenon
  <2>3. <<y, x>> \in Nat \X Nat /\ <<y, x>>[1] = y /\ <<y, x>>[2] = x
      BY <2>1
  <2>4. ~(y < x)
      BY <2>2, <2>3, Zenon DEF OpToRel
  <2> QED BY <2>1, <2>4
<1> QED BY <1>2 DEF Min

LEMMA HeadsAreNumbers ==
    /\ Heads \subseteq Nat \ {0} /\ NoHead \notin Heads
    /\ \A h \in Heads : /\ CardsOf[h] \in Seq([fp : STRING, line : Nat])
                        /\ Fps(h) \subseteq STRING
                        /\ \A i \in DOMAIN CardsOf[h] : CardsOf[h][i].fp \in STRING
    /\ \A h \in Heads : \A f : f \in Fps(h) =>
          /\ LineOf(h, f) \in Nat
          /\ \E i \in Twins(h, f) : /\ LineOf(h, f) = CardsOf[h][i].line
                                    /\ \A j \in Twins(h, f) : i <= j
<1>1. Heads \subseteq Nat \ {0} /\ NoHead \notin Heads
    BY DeckPageAssumption DEF Heads, NoHead
<1>2. \A h \in Heads : CardsOf[h] \in Seq([fp : STRING, line : Nat])
    BY DeckPageAssumption DEF Heads
<1>3. ASSUME NEW h \in Heads, NEW i \in DOMAIN CardsOf[h]
      PROVE  CardsOf[h][i].fp \in STRING /\ CardsOf[h][i].line \in Nat
  <2> DEFINE cards == CardsOf[h]
  <2>1. cards \in Seq([fp : STRING, line : Nat]) /\ i \in 1 .. Len(cards)
      BY <1>2
  <2> HIDE DEF cards
  <2>2. cards[i] \in [fp : STRING, line : Nat]
      BY <2>1, ElementOfSeq
  <2> QED BY <2>2 DEF cards
<1>4. ASSUME NEW h \in Heads, NEW f, f \in Fps(h)
      PROVE  /\ LineOf(h, f) \in Nat
             /\ \E i \in Twins(h, f) : /\ LineOf(h, f) = CardsOf[h][i].line
                                       /\ \A j \in Twins(h, f) : i <= j
  <2> DEFINE T == Twins(h, f)
  <2>1. T \in SUBSET Nat /\ T \subseteq DOMAIN CardsOf[h]
      BY <1>2 DEF Twins
  <2>2. T # {}
      BY <1>4 DEF Fps, Twins
  <2>3. LineOf(h, f) = CardsOf[h][Min(T)].line
      BY DEF LineOf
  <2> HIDE DEF T
  <2>4. Min(T) \in T /\ \A j \in T : Min(T) <= j
      BY <2>1, <2>2, NatMinimum
  <2>5. LineOf(h, f) \in Nat
      BY <1>3, <2>1, <2>3, <2>4
  <2> QED BY <2>3, <2>4, <2>5 DEF T
<1> QED BY <1>1, <1>2, <1>3, <1>4 DEF Fps

\* All cards before the one the deck resumes at have a decision.
LEMMA Resume ==
    ASSUME NEW h \in Heads, NEW D
    PROVE  /\ FirstUndecided(h, D) \in Nat \ {0}
           /\ \A i \in DOMAIN CardsOf[h] : i < FirstUndecided(h, D) => CardsOf[h][i].fp \in D
<1> DEFINE S == {i \in DOMAIN CardsOf[h] : CardsOf[h][i].fp \notin D} \cup {Len(CardsOf[h]) + 1}
<1>1. DOMAIN CardsOf[h] = 1 .. Len(CardsOf[h]) /\ Len(CardsOf[h]) \in Nat
    BY HeadsAreNumbers
<1>2. S \in SUBSET Nat /\ S \in SUBSET (Nat \ {0}) /\ S # {}
    BY <1>1
<1>3. Min(S) \in S /\ \A y \in S : Min(S) <= y
    BY <1>2, NatMinimum
<1>4. FirstUndecided(h, D) = Min(S)
    BY DEF FirstUndecided
<1> HIDE DEF S
<1>5. \A i \in DOMAIN CardsOf[h] : i \in S \/ CardsOf[h][i].fp \in D
    BY DEF S
<1>6. ASSUME NEW i \in DOMAIN CardsOf[h], i < Min(S) PROVE CardsOf[h][i].fp \in D
  <2>1. i \in Nat
      BY <1>1
  <2>2. Min(S) \in Nat
      BY <1>2, <1>3
  <2>3. i \notin S
      BY <1>3, <1>6, <2>1, <2>2
  <2> QED BY <1>5, <2>3
<1>7. Min(S) \in Nat \ {0}
    BY <1>2, <1>3
<1> QED BY <1>4, <1>6, <1>7

-----------------------------------------------------------------------------
(* Types.                                                                  *)

LEMMA ConstantStates ==
    Closed \in PageStates /\ NoLoad \in LoadStates /\ Unposted \in PostStates
<1>1. << >> \in Seq({Picked} \cup Subs)
    OBVIOUS
<1>2. Closed \in PageStates
    BY <1>1 DEF Closed, PageStates, HeadsOrNone
<1>3. NoLoad \in LoadStates
    BY DEF NoLoad, LoadStates, HeadsOrNone
<1>4. Unposted \in PostStates
    BY DEF Unposted, PostStates, HeadsOrNone, Steps, Names, AnswerStates, Deletion
<1> QED BY <1>2, <1>3, <1>4

LEMMA LatestIsHead == ASSUME Types PROVE LatestDeck \in HeadsOrNone /\ Stored(LatestDeck)
    BY DEF Types, LatestDeck, HeadsOrNone, Last, Stored

LEMMA TypesInit == ASSUME DeckPageInit PROVE Types
    BY ConstantStates DEF DeckPageInit, Types, NoLoad

LEMMA TypesOfPosts ==
    ASSUME Types, NEW s \in Subs,
           postCardComment(s) \/ PostReview(s) \/ postConversation(s) \/ recordPostedComment(s)
    PROVE  Types'
<1>1. /\ post[s] \in PostStates /\ post \in [Subs -> PostStates]
      /\ UNCHANGED <<decks, decided, load, page>>
    BY DEF Types, postCardComment, PostReview, postConversation, recordPostedComment, PostFrame,
           pullRequest, progress
<1>2. \A pc \in Steps : [post EXCEPT ![s].pc = pc] \in [Subs -> PostStates]
    BY <1>1 DEF PostStates
<1>3. \A answer \in AnswerStates : [post EXCEPT ![s].pc = "answered", ![s].answer = answer] \in [Subs -> PostStates]
    BY <1>1 DEF PostStates, Steps
<1>4. \A kind \in {"review", "issue"} : Comment(s, kind) \in CommentStates
    BY <1>1 DEF Comment, PostStates, CommentStates
<1>5. \A pc \in Steps : PostGoto(s, pc) => post' \in [Subs -> PostStates]
    BY <1>2 DEF PostGoto
<1>6. \A answer \in AnswerStates : Answers(s, answer) => post' \in [Subs -> PostStates]
    BY <1>3 DEF Answers
<1>7. ASSUME NEW kind \in {"review", "issue"}, Created(s, kind) \/ NotCreated(s)
      PROVE  comments' \subseteq CommentStates /\ post' \in [Subs -> PostStates]
    BY <1>4, <1>5, <1>6, <1>7 DEF Created, NotCreated, AnswerStates, Refusals, Types, Steps
<1>8. CASE postCardComment(s)
  <2>1. UNCHANGED <<comments, recorded>>
      BY <1>8 DEF postCardComment, onGitHub
  <2>2. CASE Answers(s, "sign in") \/ Answers(s, "gone")
      BY <1>1, <1>6, <2>1, <2>2 DEF Types, AnswerStates
  <2>3. CASE /\ LatestDeck # NoHead /\ post[s].fp \in Fps(LatestDeck)
             /\ Anchored(s, LatestDeck, LineOf(LatestDeck, post[s].fp))
    <3>1. LatestDeck \in HeadsOrNone /\ LatestDeck \in Heads
        BY <2>3, LatestIsHead DEF HeadsOrNone
    <3>2. LineOf(LatestDeck, post[s].fp) \in Nat
        BY <2>3, <3>1, HeadsAreNumbers
    <3>3. post' \in [Subs -> PostStates]
        BY <1>1, <2>3, <3>1, <3>2 DEF Anchored, PostStates, Steps
    <3> QED BY <1>1, <2>1, <3>3 DEF Types
  <2> QED BY <1>8, <2>2, <2>3 DEF postCardComment
<1>9. CASE PostReview(s)
  <2>1. comments' \subseteq CommentStates /\ post' \in [Subs -> PostStates]
      BY <1>1, <1>5, <1>7, <1>9 DEF PostReview, Types, Steps
  <2> QED BY <1>1, <1>9, <2>1 DEF PostReview, Types
<1>10. CASE postConversation(s)
  <2>1. comments' \subseteq CommentStates /\ post' \in [Subs -> PostStates]
      BY <1>7, <1>10 DEF postConversation
  <2> QED BY <1>1, <1>10, <2>1 DEF postConversation, Types
<1>11. CASE recordPostedComment(s)
  <2>1. [sub |-> s, fp |-> post[s].fp, head |-> post[s].head] \in Records
      BY <1>1 DEF Records, PostStates
  <2>2. recorded' \subseteq Records /\ post' \in [Subs -> PostStates] /\ UNCHANGED comments
      BY <1>6, <1>11, <2>1 DEF recordPostedComment, Types, AnswerStates
  <2> QED BY <1>1, <2>2 DEF Types
<1> QED BY <1>8, <1>9, <1>10, <1>11

LEMMA ComposerStates ==
    ASSUME page \in PageStates, NEW h, NEW i
    PROVE  Composer(h, i) \in {Nothing} \cup Subs
    BY DEF Composer, PageStates

\* A load.
LEMMA TypesOfLoads ==
    ASSUME Types, Loads \/ SessionEnds \/ Push \/ \E h \in Heads : SaveDeck(h)
    PROVE  Types'
<1> USE DEF onGitHub, progress, pullRequest
<1>1. /\ load \in LoadStates /\ page \in PageStates /\ decks \in Seq(Heads)
      /\ decided \in [Heads -> SUBSET STRING] /\ recorded \subseteq Records
      /\ "decisions" \in load.todo => load.head \in Heads
    BY DEF Types, LoadStates, HeadsOrNone
<1>2. ASSUME NEW h \in Heads, SaveDeck(h) PROVE Types'
    BY <1>2 DEF SaveDeck, Types
<1>3. CASE Push \/ SessionEnds \/ SignIn
    BY <1>3 DEF Push, SessionEnds, SignIn, Types
<1>4. CASE OpenPage
  <2>1. Loading(FALSE) \in LoadStates /\ "decisions" \notin Loading(FALSE).todo
      BY ConstantStates DEF Loading, LoadStates
  <2> QED BY <1>4, <2>1, ConstantStates DEF OpenPage, Types
<1>5. CASE ReadDeckFails \/ GitHubAuthError
  <2>1. LoadEndsInError
      BY <1>5 DEF ReadDeckFails, GitHubAuthError
  <2>2. "decisions" \notin NoLoad.todo
      BY DEF NoLoad
  <2> QED BY <2>1, <2>2, ConstantStates DEF LoadEndsInError, Types
<1>6. CASE ReadDeck
  <2>1. load' \in LoadStates /\ ("decisions" \in load'.todo => load'.head # NoHead)
      BY <1>1, <1>6, LatestIsHead DEF ReadDeck, LoadStates
  <2> QED BY <1>6, <2>1 DEF ReadDeck, Types
<1>7. ASSUME NEW what, NEW state \in LoadStates, Read(what, state), state.head = load.head
      PROVE  Types'
  <2>1. load' \in LoadStates /\ load'.head = load.head
      BY <1>1, <1>7 DEF Read, LoadStates
  <2>2. "decisions" \in load'.todo => "decisions" \in load.todo
      BY <1>1, <1>7, <2>1 DEF Read, LoadStates
  <2> QED BY <1>7, <2>1, <2>2 DEF Read, Types
<1>8. CASE getDecidedFingerprints
  <2>1. CASE Read("decisions", load)
      BY <1>1, <1>7, <2>1
  <2>2. CASE Read("decisions", [load EXCEPT !.decided = decided[load.head]])
    <3>1. load.head \in Heads
        BY <1>1, <2>2 DEF Read
    <3>2. [load EXCEPT !.decided = decided[load.head]] \in LoadStates
        BY <1>1, <3>1 DEF LoadStates
    <3>3. [load EXCEPT !.decided = decided[load.head]].head = load.head
        BY <1>1 DEF LoadStates
    <3> QED BY <1>7, <2>2, <3>2, <3>3
  <2> QED BY <1>8, <2>1, <2>2 DEF getDecidedFingerprints
<1>9. CASE resolveStaleDeck
    BY <1>1, <1>7, <1>9 DEF resolveStaleDeck
<1>10. CASE listPostedComments
  <2> DEFINE shown == {r \in recorded : r.head = load.head}
  <2>1. CASE Read("comments", load)
      BY <1>1, <1>7, <2>1
  <2>2. CASE Read("comments", [load EXCEPT !.posted = shown])
    <3>1. /\ [load EXCEPT !.posted = shown] \in LoadStates
          /\ [load EXCEPT !.posted = shown].head = load.head
        BY <1>1 DEF LoadStates
    <3> QED BY <1>7, <2>2, <3>1
  <2> QED BY <1>10, <2>1, <2>2 DEF listPostedComments
<1>11. CASE Show
  <2> DEFINE base == IF load.refresh THEN page ELSE Closed
             waits == IF base.head = NoHead THEN Nothing ELSE Composer(load.head, page.index)
             shown == [base EXCEPT !.up = TRUE, !.head = load.head, !.posted = load.posted,
                                   !.sending = Nothing, !.composer = waits]
  <2>1. base \in PageStates
      BY <1>1, ConstantStates
  <2>2. shown \in PageStates
    <3>1. waits \in {Nothing} \cup Subs
        BY <1>1, ComposerStates
    <3> HIDE DEF base, waits
    <3> QED BY <1>1, <2>1, <3>1 DEF PageStates, LoadStates
  <2>3. ASSUME load.head # NoHead
        PROVE  [shown EXCEPT !.opened = load.head, !.swiped = {},
                             !.index = FirstUndecided(load.head, load.decided)] \in PageStates
    <3>1. load.head \in Heads
        BY <1>1, <2>3 DEF LoadStates, HeadsOrNone
    <3>2. FirstUndecided(load.head, load.decided) \in Nat \ {0}
        BY <3>1, Resume
    <3> HIDE DEF shown
    <3> QED BY <2>2, <3>1, <3>2 DEF PageStates, HeadsOrNone
  <2>4. page' \in PageStates
      BY <1>11, <2>2, <2>3 DEF Show
  <2> QED BY <1>11, <2>4, ConstantStates DEF Show, Types, NoLoad
<1> QED BY <1>2, <1>3, <1>4, <1>5, <1>6, <1>8, <1>9, <1>10, <1>11 DEF Loads

LEMMA OutboxTypes ==
    ASSUME NEW box \in Seq({Picked} \cup Subs), NEW x \in {Picked} \cup Subs
    PROVE  /\ Append(box, x) \in Seq({Picked} \cup Subs)
           /\ box # << >> => Tail(box) \in Seq({Picked} \cup Subs) /\ Head(box) \in {Picked} \cup Subs
    OBVIOUS

LEMMA CardInFront ==
    ASSUME page \in PageStates, HasCard
    PROVE  /\ page.head \in Heads /\ CurrentCard \in STRING
           /\ page.index \in DOMAIN CardsOf[page.head] /\ page.index \in Nat
           /\ page.index \in Twins(page.head, CurrentCard)
<1>1. page.head \in Heads /\ page.index \in Nat \ {0} /\ page.index <= Len(CardsOf[page.head])
    BY DEF HasCard, PageStates, HeadsOrNone
<1>2. page.index \in DOMAIN CardsOf[page.head]
    BY <1>1, HeadsAreNumbers
<1> QED BY <1>1, <1>2, HeadsAreNumbers DEF CurrentCard, Twins

\* What the reviewer does on the page.
LEMMA TypesOfWork == ASSUME Types, Works PROVE Types'
<1> USE DEF onGitHub, progress, pullRequest
<1>1. /\ page \in PageStates /\ load \in LoadStates /\ decided \in [Heads -> SUBSET STRING]
      /\ post \in [Subs -> PostStates] /\ page.outbox \in Seq({Picked} \cup Subs)
    BY DEF Types, PageStates
<1>2. HasCard => /\ page.head \in Heads /\ CurrentCard \in STRING
                 /\ page.index \in DOMAIN CardsOf[page.head] /\ page.index \in Nat
    BY <1>1, CardInFront
<1>3. CASE Swipe
  <2>1. page' \in PageStates
    <3> DEFINE c == CurrentCard
               w == Composer(page.head, page.index + 1)
    <3>1. /\ c \in STRING /\ w \in {Nothing} \cup Subs
          /\ page' = [page EXCEPT !.index = @ + 1, !.swiped = @ \cup {c}, !.composer = w]
        BY <1>1, <1>2, <1>3, ComposerStates DEF Swipe
    <3> HIDE DEF c, w
    <3>2. page.index + 1 \in Nat \ {0} /\ page.swiped \cup {c} \in SUBSET STRING
        BY <1>1, <3>1 DEF PageStates
    <3> QED BY <1>1, <3>1, <3>2 DEF PageStates
  <2>2. decided' \in [Heads -> SUBSET STRING]
      BY <1>1, <1>2, <1>3 DEF Swipe
  <2> QED BY <1>3, <2>1, <2>2 DEF Swipe, Types
<1>4. CASE PickLanguage
  <2>1. page' \in PageStates
      BY <1>1, <1>4, OutboxTypes DEF PickLanguage, PageStates
  <2> QED BY <1>4, <2>1 DEF PickLanguage, Types
<1>5. CASE Submit
  <2>1. PICK s \in Subs :
           /\ post' = [post EXCEPT ![s] = [Unposted EXCEPT !.pc = "queued", !.fp = CurrentCard,
                                               !.shown = page.head, !.card = page.index]]
           /\ page' = [page EXCEPT !.outbox = Append(@, s), !.composer = s]
      BY <1>5 DEF Submit
  <2>2. page' \in PageStates
      BY <1>1, <2>1, OutboxTypes DEF PageStates
  <2>3. [Unposted EXCEPT !.pc = "queued", !.fp = CurrentCard,
                         !.shown = page.head, !.card = page.index] \in PostStates
      BY <1>2, <1>5, ConstantStates DEF Submit, PostStates, Names, Steps, HeadsOrNone
  <2>4. post' \in [Subs -> PostStates]
      BY <1>1, <2>1, <2>3
  <2> QED BY <1>5, <2>2, <2>4 DEF Submit, Types
<1>6. CASE Send
  <2>1. page' \in PageStates
      BY <1>1, <1>6, OutboxTypes DEF Send, PageStates
  <2>2. post' \in [Subs -> PostStates]
    <3>1. Head(page.outbox) \in {Picked} \cup Subs
        BY <1>1, <1>6, OutboxTypes DEF Send
    <3> QED BY <1>1, <1>6, <3>1 DEF Send, PostStates, Steps
  <2> QED BY <1>6, <2>1, <2>2 DEF Send, Types
<1>7. CASE setLanguage
  <2>1. Loading(TRUE) \in LoadStates /\ "decisions" \notin Loading(TRUE).todo
      BY ConstantStates DEF Loading, LoadStates
  <2>2. page' \in PageStates
      BY <1>1, <1>7 DEF setLanguage, PageStates
  <2> QED BY <1>7, <2>1, <2>2 DEF setLanguage, Types
<1>8. CASE LeavePage
    BY <1>8, ConstantStates DEF LeavePage, Types
<1>9. ASSUME NEW s \in Subs, AnswerArrives(s) \/ AnswerLost(s) PROVE Types'
  <2>1. page' \in PageStates
      BY <1>1, <1>9, ConstantStates DEF AnswerArrives, AnswerLost, PageStates
  <2> QED BY <1>9, <2>1 DEF AnswerArrives, AnswerLost, Types
<1> QED BY <1>3, <1>4, <1>5, <1>6, <1>7, <1>8, <1>9 DEF Works

LEMMA TypesNext == ASSUME Types, [DeckPageNext]_deckPageVars PROVE Types'
<1>1. CASE UNCHANGED deckPageVars
    BY <1>1 DEF deckPageVars, Types
<1> QED BY <1>1, TypesOfPosts, TypesOfLoads, TypesOfWork DEF DeckPageNext, Elsewhere

-----------------------------------------------------------------------------
(* Comments on their way.                                                  *)

LEMMA PostInvInit == ASSUME DeckPageInit PROVE PostInv
    BY DEF DeckPageInit, Closed, Unposted, PostInv, Queued, Commented, OneCommentPerSubmit,
           AnswerIsTrue, PostAt

\* Steps that do nothing for a comment; a page that goes forgets its queue.
LEMMA QuietPosts ==
    ASSUME Types, PostInv, UNCHANGED <<post, comments>>,
           page'.outbox = page.outbox \/ page'.outbox = << >>
    PROVE  PostInv'
<1>1. Queued'
    BY DEF PostInv, Queued, PostAt
<1>2. Commented' /\ OneCommentPerSubmit' /\ AnswerIsTrue'
    BY DEF PostInv, Commented, OneCommentPerSubmit, AnswerIsTrue, PostAt
<1> QED BY <1>1, <1>2 DEF PostInv

\* A comment that was sent, and another one that waits, are different.
LEMMA SentKeepsQueue ==
    ASSUME Types, Queued, NEW s \in Subs, NEW q \in PostStates, post[s].pc # "queued",
           post' = [post EXCEPT ![s] = q], UNCHANGED page
    PROVE  Queued'
<1>1. \A i \in DOMAIN page.outbox : page.outbox[i] # Picked => page.outbox[i] \in Subs
    BY DEF Types, PageStates
<1>2. \A i \in DOMAIN page.outbox : page.outbox[i] # Picked => PostAt(page.outbox[i], "queued")'
    BY <1>1 DEF Queued, PostAt, Types
<1> QED BY <1>2 DEF Queued

\* Until its creation a comment is not on GitHub, whatever it goes on to.
LEMMA NotThere ==
    ASSUME Types, PostInv, NEW s \in Subs, post[s].pc \in {"none", "queued", "deck", "review", "conversation"}
    PROVE  \A c \in comments : c.sub # s
    BY DEF PostInv, Commented

LEMMA MovedOn ==
    ASSUME Types, PostInv, NEW s \in Subs, NEW q \in PostStates,
           post[s].pc \in {"none", "queued", "deck", "review", "conversation"},
           post' = [post EXCEPT ![s] = q], UNCHANGED comments,
           q.pc # "record", q.pc = "answered" => q.answer # "posted",
           q.pc \in {"review", "conversation"} => q.fp \in Fps(q.head),
           q.pc = "review" => q.line = LineOf(q.head, q.fp) /\ q.line # Deletion
    PROVE  Commented' /\ OneCommentPerSubmit' /\ AnswerIsTrue'
<1>1. \A c \in comments : c.sub # s /\ c.sub \in Subs
    BY NotThere DEF Types, CommentStates
<1>2. post'[s] = q /\ \A t \in Subs : t # s => post'[t] = post[t]
    BY DEF Types
<1>3. Commented'
  <2>1. \A c \in comments : post'[c.sub] = post[c.sub]
      BY <1>1, <1>2
  <2>2. ASSUME NEW c \in comments'
        PROVE  /\ post'[c.sub].pc \in {"record", "answered"} /\ post'[c.sub].head = c.head
               /\ c.kind = "review" =>
                     c.line = LineOf(c.head, post'[c.sub].fp) /\ c.line # Deletion
               /\ post'[c.sub].fp \in Fps(c.head)
      BY <2>1 DEF PostInv, Commented
  <2>3. ASSUME NEW t \in Subs
        PROVE  /\ post'[t].pc = "record" => \E c \in comments' : c.sub = t
               /\ post'[t].pc \in {"review", "conversation", "record"} =>
                     post'[t].fp \in Fps(post'[t].head)
               /\ post'[t].pc = "review" =>
                     post'[t].line = LineOf(post'[t].head, post'[t].fp) /\ post'[t].line # Deletion
      BY <1>2 DEF PostInv, Commented
  <2> QED BY <2>2, <2>3 DEF Commented
<1>4. OneCommentPerSubmit'
    BY DEF PostInv, OneCommentPerSubmit
<1>5. AnswerIsTrue'
    BY <1>1, <1>2 DEF PostInv, AnswerIsTrue, PostAt
<1> QED BY <1>3, <1>4, <1>5

LEMMA CreatedOnce ==
    ASSUME Types, PostInv, NEW s \in Subs, NEW kind \in {"review", "issue"},
           post[s].pc = "review" \/ (post[s].pc = "conversation" /\ kind = "issue"),
           Created(s, kind)
    PROVE  Commented' /\ OneCommentPerSubmit' /\ AnswerIsTrue'
<1> DEFINE c == Comment(s, kind)
           q == post'[s]
<1>1. /\ comments' = comments \cup {c}
      /\ c.sub = s /\ c.kind = kind /\ c.head = post[s].head /\ c.line = post[s].line
    BY DEF Created, Comment
<1>2. /\ \A d \in comments : d.sub # s /\ d.sub \in Subs
      /\ \A t \in Subs : t # s => post'[t] = post[t]
    BY NotThere DEF Types, CommentStates, Created, PostGoto, Answers
<1>3. /\ q.pc = "record" \/ (q.pc = "answered" /\ q.answer = "failed")
      /\ q.fp = post[s].fp /\ q.head = post[s].head
    BY DEF Created, PostGoto, Answers, Types, PostStates
<1>4. /\ post[s].fp \in Fps(post[s].head)
      /\ post[s].pc = "review" =>
            post[s].line = LineOf(post[s].head, post[s].fp) /\ post[s].line # Deletion
    BY DEF PostInv, Commented
<1> HIDE DEF c, q
<1>5. Commented'
  <2>1. ASSUME NEW d \in comments'
        PROVE  /\ post'[d.sub].pc \in {"record", "answered"} /\ post'[d.sub].head = d.head
               /\ d.kind = "review" =>
                     d.line = LineOf(d.head, post'[d.sub].fp) /\ d.line # Deletion
               /\ post'[d.sub].fp \in Fps(d.head)
    <3>1. CASE d = c
        BY <1>1, <1>3, <1>4, <3>1 DEF q
    <3>2. CASE d \in comments
        BY <1>2, <3>2 DEF PostInv, Commented
    <3> QED BY <1>1, <3>1, <3>2
  <2>2. ASSUME NEW t \in Subs
        PROVE  /\ post'[t].pc = "record" => \E d \in comments' : d.sub = t
               /\ post'[t].pc \in {"review", "conversation", "record"} =>
                     post'[t].fp \in Fps(post'[t].head)
               /\ post'[t].pc = "review" =>
                     post'[t].line = LineOf(post'[t].head, post'[t].fp) /\ post'[t].line # Deletion
    <3>1. CASE t = s
        BY <1>1, <1>3, <1>4, <3>1 DEF q
    <3>2. CASE t # s
        BY <1>1, <1>2, <3>2 DEF PostInv, Commented
    <3> QED BY <3>1, <3>2
  <2> QED BY <2>1, <2>2 DEF Commented
<1>6. OneCommentPerSubmit'
    BY <1>1, <1>2 DEF PostInv, OneCommentPerSubmit
<1>7. AnswerIsTrue'
    BY <1>1, <1>2, <1>3 DEF PostInv, AnswerIsTrue, PostAt, q
<1> QED BY <1>5, <1>6, <1>7

LEMMA Acknowledged ==
    ASSUME Types, PostInv, NEW s \in Subs, recordPostedComment(s)
    PROVE  Commented' /\ OneCommentPerSubmit' /\ AnswerIsTrue'
<1>1. /\ post[s].pc = "record" /\ UNCHANGED comments
      /\ post' = [post EXCEPT ![s].pc = "answered", ![s].answer = "posted"]
    BY DEF recordPostedComment, PostAt, Answers
<1>2. /\ post'[s].pc = "answered" /\ post'[s].answer = "posted"
      /\ post'[s].fp = post[s].fp /\ post'[s].head = post[s].head
      /\ \A t \in Subs : t # s => post'[t] = post[t]
    BY <1>1 DEF Types, PostStates
<1>3. \E c \in comments : c.sub = s
    BY <1>1 DEF PostInv, Commented
<1>4. Commented'
  <2>1. ASSUME NEW c \in comments
        PROVE  /\ post'[c.sub].pc \in {"record", "answered"}
               /\ post'[c.sub].head = post[c.sub].head /\ post'[c.sub].fp = post[c.sub].fp
    <3>1. c.sub \in Subs
        BY DEF Types, CommentStates
    <3> QED BY <1>2, <3>1 DEF PostInv, Commented
  <2>2. ASSUME NEW t \in Subs
        PROVE  /\ post'[t].pc = "record" => \E c \in comments : c.sub = t
               /\ post'[t].pc \in {"review", "conversation", "record"} =>
                     post'[t].fp \in Fps(post'[t].head)
               /\ post'[t].pc = "review" =>
                     post'[t].line = LineOf(post'[t].head, post'[t].fp) /\ post'[t].line # Deletion
    <3>1. CASE t = s
        BY <1>2, <3>1
    <3>2. CASE t # s
        BY <1>2, <3>2 DEF PostInv, Commented
    <3> QED BY <3>1, <3>2
  <2>3. ASSUME NEW c \in comments
        PROVE  /\ post'[c.sub].pc \in {"record", "answered"} /\ post'[c.sub].head = c.head
               /\ c.kind = "review" =>
                     c.line = LineOf(c.head, post'[c.sub].fp) /\ c.line # Deletion
               /\ post'[c.sub].fp \in Fps(c.head)
      BY <2>1 DEF PostInv, Commented
  <2> QED BY <1>1, <2>2, <2>3 DEF Commented
<1>5. OneCommentPerSubmit'
    BY <1>1 DEF PostInv, OneCommentPerSubmit
<1>6. AnswerIsTrue'
    BY <1>1, <1>2, <1>3 DEF PostInv, AnswerIsTrue, PostAt
<1> QED BY <1>4, <1>5, <1>6

\* The steps of a comment after it was sent.
LEMMA PostSteps ==
    ASSUME Types, PostInv, NEW s \in Subs,
           postCardComment(s) \/ PostReview(s) \/ postConversation(s) \/ recordPostedComment(s)
    PROVE  PostInv'
<1>1. post[s] \in PostStates /\ post' \in [Subs -> PostStates] /\ UNCHANGED page
    BY TypesOfPosts
       DEF Types, postCardComment, PostReview, postConversation, recordPostedComment, PostFrame
<1>2. /\ post[s].pc \in {"deck", "review", "conversation", "record"}
      /\ post' = [post EXCEPT ![s] = post'[s]]
  <2>1. post[s].pc \in {"deck", "review", "conversation", "record"}
      BY DEF postCardComment, PostReview, postConversation, recordPostedComment, PostAt
  <2>2. \A t \in Subs : t # s => post'[t] = post[t]
      BY <1>1 DEF postCardComment, PostReview, postConversation, recordPostedComment, Anchored,
                  Answers, PostGoto, Created, NotCreated, Types
  <2> QED BY <1>1, <2>1, <2>2 DEF Types
<1>3. Queued'
    BY <1>1, <1>2, SentKeepsQueue DEF PostInv
<1>4. \A answer \in Refusals \cup {"sign in", "gone"} : Answers(s, answer) =>
         post'[s].pc = "answered" /\ post'[s].answer = answer /\ answer # "posted"
    BY <1>1 DEF Answers, Types, PostStates, Refusals
<1>5. CASE postCardComment(s)
  <2>1. UNCHANGED comments
      BY <1>5 DEF postCardComment, onGitHub
  <2>2. CASE Answers(s, "sign in") \/ Answers(s, "gone")
      BY <1>1, <1>2, <1>3, <1>4, <1>5, <2>1, <2>2, MovedOn DEF PostInv, postCardComment, PostAt
  <2>3. CASE /\ post[s].fp \in Fps(LatestDeck)
             /\ Anchored(s, LatestDeck, LineOf(LatestDeck, post[s].fp))
    <3>1. /\ post'[s].head = LatestDeck /\ post'[s].fp = post[s].fp
          /\ post'[s].line = LineOf(LatestDeck, post[s].fp)
          /\ post'[s].pc = IF post'[s].line = Deletion THEN "conversation" ELSE "review"
        BY <1>1, <2>3 DEF Anchored, Types, PostStates
    <3> QED BY <1>1, <1>2, <1>3, <1>5, <2>1, <2>3, <3>1, MovedOn DEF PostInv, postCardComment, PostAt
  <2> QED BY <1>5, <2>2, <2>3 DEF postCardComment
<1>6. CASE PostReview(s) \/ postConversation(s)
  <2>1. ASSUME NotCreated(s) PROVE PostInv'
      BY <1>1, <1>2, <1>3, <1>4, <1>6, <2>1, MovedOn
         DEF PostInv, NotCreated, PostReview, postConversation, PostAt
  <2>2. ASSUME UNCHANGED comments, PostGoto(s, "conversation"), post[s].pc = "review" PROVE PostInv'
    <3>1. post'[s].pc = "conversation" /\ post'[s].fp = post[s].fp /\ post'[s].head = post[s].head
        BY <1>1, <2>2 DEF PostGoto, Types, PostStates
    <3>2. post[s].fp \in Fps(post[s].head)
        BY <2>2 DEF PostInv, Commented
    <3> QED BY <1>1, <1>2, <1>3, <2>2, <3>1, <3>2, MovedOn DEF PostInv
  <2>3. ASSUME NEW kind \in {"review", "issue"}, Created(s, kind),
               post[s].pc = "review" \/ (post[s].pc = "conversation" /\ kind = "issue")
        PROVE  PostInv'
      BY <1>3, <2>3, CreatedOnce DEF PostInv
  <2> QED BY <1>6, <2>1, <2>2, <2>3 DEF PostReview, postConversation, PostAt
<1>7. CASE recordPostedComment(s)
    BY <1>3, <1>7, Acknowledged DEF PostInv
<1> QED BY <1>5, <1>6, <1>7

\* A comment that is written down waits; it had not been sent before.
LEMMA SubmitQueues == ASSUME Types, PostInv, Submit PROVE PostInv'
<1>1. PICK s \in Subs :
         /\ post[s].pc = "none"
         /\ post' = [post EXCEPT ![s] = [Unposted EXCEPT !.pc = "queued", !.fp = CurrentCard,
                                             !.shown = page.head, !.card = page.index]]
         /\ page' = [page EXCEPT !.outbox = Append(@, s), !.composer = s]
    BY DEF Submit
<1> DEFINE q == [Unposted EXCEPT !.pc = "queued", !.fp = CurrentCard,
                                 !.shown = page.head, !.card = page.index]
           box == page.outbox
<1>2. /\ post \in [Subs -> PostStates] /\ box \in Seq({Picked} \cup Subs)
      /\ page'.outbox = Append(box, s) /\ Types' /\ UNCHANGED comments
    BY <1>1, TypesOfWork DEF Types, PageStates, Works, Submit, onGitHub
<1>3. q.pc = "queued" /\ q \in PostStates /\ post' = [post EXCEPT ![s] = q]
  <2>1. post'[s] \in PostStates /\ post'[s] = q
      BY <1>1, <1>2 DEF Types
  <2> QED BY <1>1, <2>1 DEF Unposted
<1> HIDE DEF q
<1>4. Commented' /\ OneCommentPerSubmit' /\ AnswerIsTrue'
    BY <1>1, <1>2, <1>3, MovedOn
<1>5. \A i \in DOMAIN box : box[i] # s /\ (box[i] # Picked => box[i] \in Subs /\ post[box[i]].pc = "queued")
    BY <1>1, <1>2 DEF PostInv, Queued, PostAt, Picked, Subs
<1>6. /\ \A i \in DOMAIN page'.outbox : \/ i \in DOMAIN box /\ page'.outbox[i] = box[i]
                                        \/ i = Len(box) + 1 /\ page'.outbox[i] = s
    BY <1>2
<1>7. Queued'
  <2>1. ASSUME NEW i \in DOMAIN page'.outbox, page'.outbox[i] # Picked
        PROVE  post'[page'.outbox[i]].pc = "queued"
      BY <1>2, <1>3, <1>5, <1>6, <2>1
  <2>2. ASSUME NEW i \in DOMAIN page'.outbox, NEW j \in DOMAIN page'.outbox,
               page'.outbox[i] = page'.outbox[j]
        PROVE  i = j
      BY <1>5, <1>6, <2>2 DEF PostInv, Queued
  <2> QED BY <2>1, <2>2 DEF Queued, PostAt
<1> QED BY <1>4, <1>7 DEF PostInv

LEMMA SendDequeues == ASSUME Types, PostInv, Send PROVE PostInv'
<1> DEFINE box == page.outbox
           s == Head(box)
<1>1. /\ box # << >> /\ box \in Seq({Picked} \cup Subs) /\ page'.outbox = Tail(box)
      /\ UNCHANGED comments /\ post \in [Subs -> PostStates]
    BY DEF Send, Types, PageStates, onGitHub
<1>2. /\ s = box[1] /\ 1 \in DOMAIN box /\ s \in {Picked} \cup Subs
      /\ \A i \in DOMAIN page'.outbox : i \in Nat /\ i + 1 # 1 /\ i + 1 \in DOMAIN box
                                        /\ page'.outbox[i] = box[i + 1]
    BY <1>1
<1>3. post' = IF s = Picked THEN post ELSE [post EXCEPT ![s].pc = "deck"]
    BY DEF Send
<1> HIDE DEF s, box
<1>4. \A i, j \in DOMAIN box : box[i] = box[j] => i = j
    BY DEF PostInv, Queued, box
<1>5. \A i \in DOMAIN page'.outbox : page'.outbox[i] # s
    BY <1>2, <1>4
<1>6. Queued'
  <2>1. ASSUME NEW i \in DOMAIN page'.outbox, page'.outbox[i] # Picked
        PROVE  post'[page'.outbox[i]].pc = "queued"
    <3>1. page'.outbox[i] \in Subs /\ post[page'.outbox[i]].pc = "queued"
        BY <1>1, <1>2, <2>1 DEF PostInv, Queued, PostAt, box
    <3> QED BY <1>1, <1>3, <1>5, <3>1
  <2>2. ASSUME NEW i \in DOMAIN page'.outbox, NEW j \in DOMAIN page'.outbox,
               page'.outbox[i] = page'.outbox[j]
        PROVE  i = j
      BY <1>2, <1>4, <2>2
  <2> QED BY <2>1, <2>2 DEF Queued, PostAt
<1>7. CASE s = Picked
    BY <1>1, <1>3, <1>6, <1>7 DEF PostInv, Commented, OneCommentPerSubmit, AnswerIsTrue, PostAt
<1>8. CASE s # Picked
  <2>1. s \in Subs /\ post[s].pc = "queued"
      BY <1>2, <1>8 DEF PostInv, Queued, PostAt, box
  <2> DEFINE q == [post[s] EXCEPT !.pc = "deck"]
  <2>2. q \in PostStates /\ q.pc = "deck" /\ post' = [post EXCEPT ![s] = q]
      BY <1>1, <1>3, <1>8, <2>1 DEF PostStates, Steps
  <2> HIDE DEF q
  <2> QED BY <1>1, <1>6, <2>1, <2>2, MovedOn DEF PostInv
<1> QED BY <1>7, <1>8

LEMMA PostInvNext == ASSUME Types, PostInv, [DeckPageNext]_deckPageVars PROVE PostInv'
<1>1. CASE \E s \in Subs : \/ postCardComment(s) \/ PostReview(s) \/ postConversation(s)
                           \/ recordPostedComment(s)
    BY <1>1, PostSteps
<1>2. CASE Submit
    BY <1>2, SubmitQueues
<1>3. CASE Send
    BY <1>3, SendDequeues
<1>4. CASE PickLanguage
  <2> DEFINE box == page.outbox
  <2>1. /\ box \in Seq({Picked} \cup Subs) /\ page'.outbox = Append(box, Picked)
        /\ UNCHANGED <<post, comments>> /\ Picked \notin {box[i] : i \in DOMAIN box}
      BY <1>4 DEF PickLanguage, Types, PageStates, onGitHub, Range
  <2>2. \A i \in DOMAIN page'.outbox : \/ i \in DOMAIN box /\ page'.outbox[i] = box[i]
                                       \/ i = Len(box) + 1 /\ page'.outbox[i] = Picked
      BY <2>1
  <2>3. Queued'
      BY <2>1, <2>2 DEF PostInv, Queued, PostAt
  <2> QED BY <2>1, <2>3 DEF PostInv, Commented, OneCommentPerSubmit, AnswerIsTrue, PostAt
<1>5. CASE Push \/ SessionEnds \/ (\E h \in Heads : SaveDeck(h)) \/ UNCHANGED deckPageVars
    BY <1>5, QuietPosts DEF Push, SessionEnds, SaveDeck, onGitHub, deckPageVars
<1>6. CASE SignIn \/ OpenPage \/ ReadDeckFails \/ GitHubAuthError \/ ReadDeck
  <2>1. UNCHANGED <<post, comments>>
      BY <1>6 DEF SignIn, OpenPage, ReadDeckFails, GitHubAuthError, LoadEndsInError, ReadDeck, onGitHub
  <2>2. page' = page \/ page' = Closed
      BY <1>6 DEF SignIn, OpenPage, ReadDeckFails, GitHubAuthError, LoadEndsInError, ReadDeck
  <2> QED BY <2>1, <2>2, QuietPosts DEF Closed
<1>7. CASE getDecidedFingerprints \/ resolveStaleDeck \/ listPostedComments
    BY <1>7, QuietPosts DEF getDecidedFingerprints, resolveStaleDeck, listPostedComments, Read, onGitHub
<1>8. CASE Show
  <2>1. UNCHANGED <<post, comments>>
      BY <1>8 DEF Show, onGitHub
  <2>2. page'.outbox = page.outbox \/ page'.outbox = << >>
      BY <1>8 DEF Show, Types, PageStates, Closed
  <2> QED BY <2>1, <2>2, QuietPosts
<1>9. CASE Swipe \/ setLanguage \/ LeavePage \/ \E s \in Subs : AnswerArrives(s) \/ AnswerLost(s)
  <2>1. UNCHANGED <<post, comments>>
      BY <1>9 DEF Swipe, setLanguage, LeavePage, AnswerArrives, AnswerLost, onGitHub
  <2>2. page'.outbox = page.outbox \/ page'.outbox = << >>
    <3>1. CASE Swipe
        BY <3>1 DEF Swipe, Types, PageStates
    <3>2. CASE setLanguage
        BY <3>2 DEF setLanguage, Types, PageStates
    <3>3. CASE page' = Closed
        BY <3>3 DEF Closed
    <3>4. CASE \E s \in Subs : AnswerArrives(s)
        BY <3>4 DEF AnswerArrives, Types, PageStates
    <3> QED BY <1>9, <3>1, <3>2, <3>3, <3>4 DEF LeavePage, AnswerLost
  <2> QED BY <2>1, <2>2, QuietPosts
<1> QED BY <1>1, <1>2, <1>3, <1>4, <1>5, <1>6, <1>7, <1>8, <1>9
           DEF DeckPageNext, Elsewhere, Loads, Works

\* What was written, and on which card, stays as it is.
LEMMA WrittenNext == ASSUME Types, PostInv, Written, [DeckPageNext]_deckPageVars PROVE Written'
<1>1. post \in [Subs -> PostStates] /\ page \in PageStates
    BY DEF Types
<1>2. ASSUME NEW s \in Subs, post[s].pc # "none", \A t \in Subs : t # s => post'[t] = post[t],
             post'[s].shown = post[s].shown, post'[s].card = post[s].card, post'[s].fp = post[s].fp,
             post'[s].pc \in {"review", "conversation"} => post'[s].head \in Heads,
             \A c \in comments' : c \in comments \/ c.head \in Heads
      PROVE  Written'
    BY <1>2 DEF Written
<1>3. ASSUME NEW s \in Subs,
             postCardComment(s) \/ PostReview(s) \/ postConversation(s) \/ recordPostedComment(s)
      PROVE  Written'
  <2>1. post[s].pc # "none"
      BY <1>3 DEF postCardComment, PostReview, postConversation, recordPostedComment, PostAt
  <2>2. /\ \A t \in Subs : t # s => post'[t] = post[t]
        /\ post'[s].shown = post[s].shown /\ post'[s].card = post[s].card /\ post'[s].fp = post[s].fp
      BY <1>1, <1>3 DEF postCardComment, PostReview, postConversation, recordPostedComment, Anchored,
                        Answers, PostGoto, Created, NotCreated, PostStates
  <2>3. CASE postCardComment(s)
    <3>1. /\ UNCHANGED comments
          /\ \/ LatestDeck # NoHead /\ Anchored(s, LatestDeck, LineOf(LatestDeck, post[s].fp))
             \/ Answers(s, "sign in") \/ Answers(s, "gone")
        BY <2>3 DEF postCardComment, onGitHub
    <3>2. LatestDeck # NoHead => LatestDeck \in Heads
        BY LatestIsHead DEF HeadsOrNone
    <3>3. Answers(s, "sign in") \/ Answers(s, "gone") => post'[s].pc = "answered"
        BY <1>1 DEF Answers, PostStates
    <3>4. Anchored(s, LatestDeck, LineOf(LatestDeck, post[s].fp)) => post'[s].head = LatestDeck
        BY <1>1 DEF Anchored, PostStates
    <3>5. post'[s].pc \in {"review", "conversation"} => post'[s].head \in Heads
        BY <3>1, <3>2, <3>3, <3>4
    <3> QED BY <1>2, <2>1, <2>2, <3>1, <3>5
  <2>4. CASE PostReview(s) \/ postConversation(s)
    <3>1. post[s].head \in Heads
        BY <2>4 DEF PostReview, postConversation, PostAt, Written
    <3>2. post'[s].head = post[s].head
        BY <1>1, <2>4 DEF PostReview, postConversation, Answers, PostGoto, Created, NotCreated, PostStates
    <3>3. \A c \in comments' : c \in comments \/ c.head = post[s].head
        BY <2>4 DEF PostReview, postConversation, Created, NotCreated, Comment
    <3> QED BY <1>2, <2>1, <2>2, <3>1, <3>2, <3>3
  <2>5. CASE recordPostedComment(s)
    <3>1. UNCHANGED comments /\ post'[s].pc = "answered"
        BY <1>1, <2>5 DEF recordPostedComment, Answers, PostStates
    <3> QED BY <1>2, <2>1, <2>2, <3>1
  <2> QED BY <1>3, <2>3, <2>4, <2>5
<1>4. CASE Submit
  <2>1. PICK s \in Subs :
           post' = [post EXCEPT ![s] = [Unposted EXCEPT !.pc = "queued", !.fp = CurrentCard,
                                            !.shown = page.head, !.card = page.index]]
      BY <1>4 DEF Submit
  <2>2. page.head \in Heads /\ page.index \in Twins(page.head, CurrentCard)
      BY <1>1, <1>4, CardInFront DEF Submit
  <2>3. /\ post'[s].shown = page.head /\ post'[s].card = page.index /\ post'[s].fp = CurrentCard
        /\ post'[s].pc = "queued"
      BY <1>1, <2>1 DEF Unposted
  <2>4. (\A t \in Subs : t # s => post'[t] = post[t]) /\ UNCHANGED comments
      BY <1>1, <1>4, <2>1 DEF Submit, onGitHub
  <2> QED BY <2>2, <2>3, <2>4 DEF Written
<1>5. CASE Send
  <2> DEFINE s == Head(page.outbox)
  <2>1. /\ page.outbox # << >> /\ page.outbox \in Seq({Picked} \cup Subs)
        /\ post' = IF s = Picked THEN post ELSE [post EXCEPT ![s].pc = "deck"]
      BY <1>1, <1>5 DEF Send, PageStates
  <2>2. s \in {Picked} \cup Subs /\ (s # Picked => post[s].pc = "queued")
      BY <2>1 DEF PostInv, Queued, PostAt
  <2> HIDE DEF s
  <2>0. UNCHANGED comments
      BY <1>5 DEF Send, onGitHub
  <2>3. CASE s = Picked
      BY <2>0, <2>1, <2>3 DEF Written
  <2>4. CASE s # Picked
    <3>1. s \in Subs /\ post[s].pc # "none" /\ post' = [post EXCEPT ![s].pc = "deck"]
        BY <2>1, <2>2, <2>4
    <3>2. /\ \A t \in Subs : t # s => post'[t] = post[t]
          /\ post'[s].shown = post[s].shown /\ post'[s].card = post[s].card /\ post'[s].fp = post[s].fp
          /\ post'[s].pc = "deck"
        BY <1>1, <3>1 DEF PostStates
    <3> QED BY <1>2, <2>0, <3>1, <3>2
  <2> QED BY <2>3, <2>4
<1>6. CASE UNCHANGED <<post, comments>>
    BY <1>6 DEF Written
<1>7. ASSUME NEW s \in Subs, AnswerArrives(s) \/ AnswerLost(s) PROVE UNCHANGED <<post, comments>>
    BY <1>7 DEF AnswerArrives, AnswerLost, onGitHub
<1>8. CASE \/ Push \/ SessionEnds \/ SignIn \/ OpenPage \/ ReadDeckFails \/ GitHubAuthError
           \/ ReadDeck \/ Show \/ (\E h \in Heads : SaveDeck(h)) \/ UNCHANGED deckPageVars
  <2> QED BY <1>6, <1>8 DEF Push, SessionEnds, SignIn, OpenPage, ReadDeckFails, GitHubAuthError,
                            LoadEndsInError, ReadDeck, Show, SaveDeck, deckPageVars, onGitHub
<1>9. CASE \/ getDecidedFingerprints \/ resolveStaleDeck \/ listPostedComments
           \/ Swipe \/ PickLanguage \/ setLanguage \/ LeavePage
    BY <1>6, <1>9 DEF getDecidedFingerprints, resolveStaleDeck, listPostedComments, Read, Swipe,
                      PickLanguage, setLanguage, LeavePage, onGitHub
<1> QED BY <1>3, <1>4, <1>5, <1>6, <1>7, <1>8, <1>9 DEF DeckPageNext, Elsewhere, Loads, Works

-----------------------------------------------------------------------------
(* What a load puts on the page.                                           *)

\* The steps in between loads leave the load alone.
LEMMA LoadMoves ==
    ASSUME Types, [DeckPageNext]_deckPageVars
    PROVE  \/ load' = load \/ load' = NoLoad
           \/ \E refresh \in BOOLEAN : load' = Loading(refresh) /\ (page' = Closed \/ page' = page)
           \/ ReadDeck \/ getDecidedFingerprints \/ resolveStaleDeck \/ listPostedComments
<1>1. CASE OpenPage \/ ReadDeckFails \/ GitHubAuthError \/ Show \/ setLanguage
    BY <1>1 DEF OpenPage, ReadDeckFails, GitHubAuthError, LoadEndsInError, Show, setLanguage
<1>2. CASE Push \/ SessionEnds \/ SignIn \/ (\E h \in Heads : SaveDeck(h)) \/ UNCHANGED deckPageVars
    BY <1>2 DEF Push, SessionEnds, SignIn, SaveDeck, deckPageVars
<1>3. CASE \E s \in Subs : \/ postCardComment(s) \/ PostReview(s) \/ postConversation(s)
                           \/ recordPostedComment(s) \/ AnswerArrives(s) \/ AnswerLost(s)
    BY <1>3 DEF postCardComment, PostReview, postConversation, recordPostedComment, PostFrame,
                AnswerArrives, AnswerLost
<1>4. CASE Swipe \/ PickLanguage \/ Submit \/ Send \/ LeavePage
    BY <1>4 DEF Swipe, PickLanguage, Submit, Send, LeavePage
<1> QED BY <1>1, <1>2, <1>3, <1>4 DEF DeckPageNext, Elsewhere, Loads, Works

\* The page is left alone by everything but a load that shows it, the card that
\* moves on, and what goes through its queue.
LEMMA PageMoves ==
    ASSUME Types, [DeckPageNext]_deckPageVars
    PROVE  \/ page' = Closed \/ Show \/ Swipe
           \/ /\ page'.head = page.head /\ page'.index = page.index /\ page'.opened = page.opened
              /\ page'.swiped = page.swiped /\ page'.posted = page.posted
<1> DEFINE Kept == /\ page'.head = page.head /\ page'.index = page.index /\ page'.opened = page.opened
                   /\ page'.swiped = page.swiped /\ page'.posted = page.posted
<1>1. CASE OpenPage \/ ReadDeckFails \/ GitHubAuthError \/ LeavePage \/ Show \/ Swipe
    BY <1>1 DEF OpenPage, ReadDeckFails, GitHubAuthError, LoadEndsInError, LeavePage
<1>2. CASE Push \/ SessionEnds \/ SignIn \/ (\E h \in Heads : SaveDeck(h)) \/ UNCHANGED deckPageVars
    BY <1>2 DEF Push, SessionEnds, SignIn, SaveDeck, deckPageVars
<1>3. CASE ReadDeck \/ getDecidedFingerprints \/ resolveStaleDeck \/ listPostedComments
    BY <1>3 DEF ReadDeck, getDecidedFingerprints, resolveStaleDeck, listPostedComments, Read
<1>4. ASSUME NEW s \in Subs, postCardComment(s) \/ PostReview(s) \/ postConversation(s) \/ recordPostedComment(s)
      PROVE  Kept
    BY <1>4 DEF postCardComment, PostReview, postConversation, recordPostedComment, PostFrame
<1>5. ASSUME NEW s \in Subs, AnswerArrives(s) \/ AnswerLost(s)
      PROVE  Kept \/ page' = Closed
    BY <1>5 DEF AnswerArrives, AnswerLost, Types, PageStates
<1>6. CASE PickLanguage
    BY <1>6 DEF PickLanguage, Types, PageStates
<1>7. CASE Send
    BY <1>7 DEF Send, Types, PageStates
<1>8. CASE setLanguage
    BY <1>8 DEF setLanguage, Types, PageStates
<1>9. CASE Submit
    BY <1>9 DEF Submit, Types, PageStates
<1> QED BY <1>1, <1>2, <1>3, <1>4, <1>5, <1>6, <1>7, <1>8, <1>9 DEF DeckPageNext, Elsewhere, Loads, Works

\* What is stored stays stored.
LEMMA StoredStays ==
    ASSUME Types, [DeckPageNext]_deckPageVars
    PROVE  /\ comments \subseteq comments' /\ recorded \subseteq recorded'
           /\ \A h \in Heads : decided[h] \subseteq decided'[h]
           /\ decks' = decks \/ \E h \in Heads : SaveDeck(h)
<1>1. CASE Swipe
  <2>1. UNCHANGED <<comments, recorded, decks>>
      BY <1>1 DEF Swipe, onGitHub, pullRequest
  <2>2. \/ decided' = decided
        \/ decided' = [decided EXCEPT ![page.head] = @ \cup {CurrentCard}]
      BY <1>1 DEF Swipe, progress
  <2>3. decided \in [Heads -> SUBSET STRING]
      BY DEF Types
  <2> QED BY <2>1, <2>2, <2>3
<1>2. ASSUME NEW s \in Subs, postCardComment(s) \/ PostReview(s) \/ postConversation(s) \/ recordPostedComment(s)
      PROVE  /\ comments \subseteq comments' /\ recorded \subseteq recorded'
             /\ UNCHANGED <<decided, decks>>
    BY <1>2 DEF postCardComment, PostReview, postConversation, recordPostedComment, PostFrame, Created,
                NotCreated, onGitHub, pullRequest, progress
<1>3. CASE \/ Push \/ SessionEnds \/ (\E h \in Heads : SaveDeck(h)) \/ SignIn
           \/ UNCHANGED deckPageVars
    BY <1>3 DEF Push, SessionEnds, SaveDeck, SignIn, deckPageVars, onGitHub, pullRequest, progress
<1>4. CASE Loads
    BY <1>4 DEF Loads, SignIn, OpenPage, ReadDeckFails, GitHubAuthError, LoadEndsInError, ReadDeck,
                getDecidedFingerprints, resolveStaleDeck, listPostedComments, Read, Show,
                onGitHub, pullRequest, progress
<1>5. CASE \/ PickLanguage \/ Submit \/ Send \/ setLanguage \/ LeavePage
           \/ \E s \in Subs : AnswerArrives(s) \/ AnswerLost(s)
    BY <1>5 DEF PickLanguage, Submit, Send, setLanguage, LeavePage, AnswerArrives, AnswerLost,
                onGitHub, pullRequest, progress
<1> QED BY <1>1, <1>2, <1>3, <1>4, <1>5 DEF DeckPageNext, Elsewhere, Works

LEMMA NewLoad ==
    ASSUME NEW refresh
    PROVE  /\ Loading(refresh).on /\ Loading(refresh).refresh = refresh
           /\ Loading(refresh).head = NoHead /\ Loading(refresh).todo = {"deck"}
           /\ Loading(refresh).decided = {} /\ Loading(refresh).posted = {}
    BY DEF Loading, NoLoad

LEMMA DeckFirstNext == ASSUME IInv, [DeckPageNext]_deckPageVars PROVE DeckFirst'
<1>1. load \in LoadStates /\ DeckFirst
    BY DEF IInv, Types
<1>2. CASE load' = load \/ load' = NoLoad \/ \E refresh \in BOOLEAN : load' = Loading(refresh)
  <2>1. CASE load' = load
      BY <1>1, <2>1 DEF DeckFirst
  <2>2. CASE load' = NoLoad
      BY <2>2 DEF DeckFirst, NoLoad
  <2>3. CASE \E refresh \in BOOLEAN : load' = Loading(refresh)
      BY <2>3, NewLoad DEF DeckFirst
  <2> QED BY <1>2, <2>1, <2>2, <2>3
<1>3. CASE ReadDeck
  <2>1. "deck" \notin load'.todo
      BY <1>1, <1>3 DEF ReadDeck, LoadStates
  <2> QED BY <2>1 DEF DeckFirst
<1>4. ASSUME NEW what \in {"decisions", "stale", "comments"}, NEW state \in LoadStates, Read(what, state)
      PROVE  "deck" \notin load'.todo
  <2>1. "deck" \notin load.todo
      BY <1>1, <1>4 DEF DeckFirst, Read
  <2> QED BY <1>1, <1>4, <2>1 DEF Read, LoadStates
<1>5. CASE getDecidedFingerprints \/ resolveStaleDeck \/ listPostedComments
  <2>1. "decisions" \in load.todo => decided[load.head] \subseteq STRING
      BY DEF IInv, Types, LoadStates, HeadsOrNone
  <2>2. "decisions" \in load.todo => [load EXCEPT !.decided = decided[load.head]] \in LoadStates
      BY <1>1, <2>1 DEF LoadStates
  <2>3. [load EXCEPT !.posted = {r \in recorded : r.head = load.head}] \in LoadStates
      BY <1>1 DEF LoadStates, IInv, Types
  <2>4. "deck" \notin load'.todo
      BY <1>1, <1>4, <1>5, <2>2, <2>3
         DEF getDecidedFingerprints, resolveStaleDeck, listPostedComments, Read
  <2> QED BY <2>4 DEF DeckFirst
<1> QED BY <1>2, <1>3, <1>5, LoadMoves DEF IInv

LEMMA DisplayedNext == ASSUME IInv, [DeckPageNext]_deckPageVars PROVE Displayed'
<1>1. /\ load \in LoadStates /\ page \in PageStates /\ Displayed /\ Types
      /\ comments \subseteq comments' /\ recorded \subseteq recorded'
    BY StoredStays DEF IInv, Types
<1>2. ASSUME NEW r \in recorded'
      PROVE  r.fp \in Fps(r.head) /\ \E c \in comments' : c.sub = r.sub /\ c.head = r.head
  <2>1. CASE r \in recorded
      BY <1>1, <2>1 DEF Displayed
  <2>2. CASE r \notin recorded
    <3>1. PICK s \in Subs : recordPostedComment(s)
        BY <1>2, <2>2
           DEF DeckPageNext, deckPageVars, Elsewhere, Loads, Works, Push, SessionEnds, SaveDeck, SignIn,
               OpenPage, ReadDeckFails, GitHubAuthError, LoadEndsInError, ReadDeck,
               getDecidedFingerprints, resolveStaleDeck, listPostedComments, Read, Show, Swipe,
               PickLanguage, Submit, Send, setLanguage, LeavePage, AnswerArrives, AnswerLost,
               postCardComment, PostReview, postConversation, onGitHub
    <3>2. /\ r = [sub |-> s, fp |-> post[s].fp, head |-> post[s].head] /\ post[s].pc = "record"
        BY <1>2, <2>2, <3>1 DEF recordPostedComment, PostAt
    <3>3. post[s].fp \in Fps(post[s].head) /\ \E c \in comments : c.sub = s /\ c.head = post[s].head
        BY <3>2 DEF IInv, PostInv, Commented
    <3> QED BY <1>1, <3>2, <3>3
  <2> QED BY <2>1, <2>2
<1>3. ASSUME NEW r \in load'.posted PROVE r \in recorded' /\ r.head = load'.head
  <2>1. CASE load' = load
      BY <1>1, <1>3, <2>1 DEF Displayed
  <2>2. CASE load' = NoLoad \/ \E refresh \in BOOLEAN : load' = Loading(refresh)
    <3>1. load'.posted = {}
        BY <2>2, NewLoad DEF NoLoad
    <3> QED BY <1>3, <3>1
  <2>3. CASE ReadDeck
      BY <1>1, <1>3, <2>3 DEF ReadDeck, IInv, DeckFirst, LoadStates
  <2>4. CASE getDecidedFingerprints \/ resolveStaleDeck
    <3>1. load'.posted = load.posted /\ load'.head = load.head
        BY <1>1, <2>4 DEF getDecidedFingerprints, resolveStaleDeck, Read, LoadStates
    <3> QED BY <1>1, <1>3, <3>1 DEF Displayed
  <2>5. CASE listPostedComments
    <3>1. /\ load'.posted = load.posted \/ load'.posted = {x \in recorded : x.head = load.head}
          /\ load'.head = load.head
        BY <1>1, <2>5 DEF listPostedComments, Read, LoadStates
    <3> QED BY <1>1, <1>3, <3>1 DEF Displayed
  <2> QED BY <1>1, <2>1, <2>2, <2>3, <2>4, <2>5, LoadMoves
<1>4. ASSUME NEW r \in page'.posted PROVE r \in recorded' /\ r.head = page'.head
  <2>1. CASE page' = Closed
      BY <1>4, <2>1 DEF Closed
  <2>2. CASE Show
    <3>1. page'.posted = load.posted /\ page'.head = load.head
        BY <1>1, <2>2, ConstantStates DEF Show, PageStates
    <3> QED BY <1>1, <1>4, <3>1 DEF Displayed
  <2>3. CASE page'.posted = page.posted /\ page'.head = page.head
      BY <1>1, <1>4, <2>3 DEF Displayed
  <2>4. CASE Swipe
    <3>1. page'.posted = page.posted /\ page'.head = page.head
        BY <1>1, <2>4 DEF Swipe, PageStates
    <3> QED BY <2>3, <3>1
  <2> QED BY <1>1, <2>1, <2>2, <2>3, <2>4, PageMoves
<1> QED BY <1>2, <1>3, <1>4 DEF Displayed

-----------------------------------------------------------------------------
(* The order in which decks come to the page.                              *)

\* A deck that is stored comes behind the others and is a new one.
LEMMA OrderStays ==
    ASSUME IInv, [DeckPageNext]_deckPageVars
    PROVE  /\ \A i, j \in DOMAIN decks' : decks'[i] = decks'[j] => i = j
           /\ \A h : Stored(h) => Stored(h)'
           /\ \A g, h : NotAfter(g, h) => NotAfter(g, h)'
<1>1. decks \in Seq(Heads) /\ \A i, j \in DOMAIN decks : decks[i] = decks[j] => i = j
    BY DEF IInv, Types, Ordered
<1>2. CASE decks' = decks
    BY <1>1, <1>2 DEF Stored, NotAfter
<1>3. ASSUME NEW h \in Heads, SaveDeck(h) PROVE decks' = Append(decks, h) /\ \A i \in DOMAIN decks : decks[i] # h
    BY <1>3 DEF SaveDeck, Range
<1>4. ASSUME NEW h \in Heads, decks' = Append(decks, h), \A i \in DOMAIN decks : decks[i] # h
      PROVE  /\ \A i, j \in DOMAIN decks' : decks'[i] = decks'[j] => i = j
             /\ \A i \in DOMAIN decks : i \in DOMAIN decks' /\ decks'[i] = decks[i]
  <2>1. \A i \in DOMAIN decks' : \/ i \in DOMAIN decks /\ decks'[i] = decks[i]
                                 \/ i = Len(decks) + 1 /\ decks'[i] = h
      BY <1>1, <1>4
  <2> QED BY <1>1, <1>4, <2>1
<1>5. CASE \E h \in Heads : SaveDeck(h)
    BY <1>3, <1>4, <1>5 DEF Stored, NotAfter
<1> QED BY <1>2, <1>5, StoredStays DEF IInv

\* Of the decks that are stored, the newest comes after any.
LEMMA LatestIsLast ==
    ASSUME IInv, NEW h, Stored(h)
    PROVE  NotAfter(h, LatestDeck)
<1>1. decks \in Seq(Heads)
    BY DEF IInv, Types
<1>2. CASE h = NoHead
    BY <1>2 DEF NotAfter
<1>3. CASE h # NoHead
  <2>1. PICK i \in DOMAIN decks : decks[i] = h
      BY <1>3 DEF Stored
  <2>2. Len(decks) \in DOMAIN decks /\ i <= Len(decks) /\ LatestDeck = decks[Len(decks)]
      BY <1>1, <2>1 DEF LatestDeck, Last
  <2> QED BY <2>1, <2>2 DEF NotAfter
<1> QED BY <1>2, <1>3

\* Between a deck and itself there is no other.
LEMMA NoneBetween ==
    ASSUME IInv, NEW g \in Heads, NEW h, NotAfter(g, h), NotAfter(h, g), h # NoHead
    PROVE  g = h
<1>1. PICK i, j \in DOMAIN decks : i <= j /\ decks[i] = g /\ decks[j] = h
    BY HeadsAreNumbers DEF NotAfter
<1>2. PICK k, l \in DOMAIN decks : k <= l /\ decks[k] = h /\ decks[l] = g
    BY DEF NotAfter
<1>3. k = j /\ l = i
    BY <1>1, <1>2 DEF IInv, Ordered
<1>4. i \in Nat /\ j \in Nat
    BY <1>1 DEF IInv, Types
<1> QED BY <1>1, <1>2, <1>3, <1>4

LEMMA ShownDeck ==
    ASSUME IInv, Show
    PROVE  /\ page'.head = load.head
           /\ \/ page'.opened = NoHead /\ load.head = NoHead
              \/ /\ page'.opened = load.head /\ load.head \in Heads
                 /\ page'.index = FirstUndecided(load.head, load.decided)
              \/ /\ load.refresh /\ (page.head # NoHead \/ load.head = NoHead)
                 /\ page'.opened = page.opened /\ page'.index = page.index
                 /\ page'.swiped = page.swiped
<1> DEFINE base == IF load.refresh THEN page ELSE Closed
           waits == IF base.head = NoHead THEN Nothing ELSE Composer(load.head, page.index)
           shown == [base EXCEPT !.up = TRUE, !.head = load.head, !.posted = load.posted,
                                 !.sending = Nothing, !.composer = waits]
<1>1. base \in PageStates /\ load.head \in HeadsOrNone
    BY ConstantStates DEF IInv, Types, LoadStates
<1>2. page' = IF base.head # NoHead \/ load.head = NoHead THEN shown
              ELSE [shown EXCEPT !.opened = load.head, !.swiped = {},
                                 !.index = FirstUndecided(load.head, load.decided)]
    BY DEF Show
<1>3. /\ shown.head = load.head /\ shown.opened = base.opened
      /\ shown.index = base.index /\ shown.swiped = base.swiped
      /\ DOMAIN shown = {"up", "head", "index", "opened", "swiped", "posted", "outbox", "sending",
                        "composer"}
    BY <1>1 DEF PageStates
<1>4. ~load.refresh => base.head = NoHead /\ base.opened = NoHead
    BY DEF Closed
<1> HIDE DEF shown
<1>5. CASE base.head # NoHead \/ load.head = NoHead
  <2>1. page' = shown
      BY <1>2, <1>5
  <2>2. CASE load.refresh
      BY <1>3, <1>5, <2>1, <2>2
  <2>3. CASE ~load.refresh
      BY <1>3, <1>4, <1>5, <2>1, <2>3
  <2> QED BY <2>2, <2>3
<1>6. CASE ~(base.head # NoHead \/ load.head = NoHead)
  <2>1. page' = [shown EXCEPT !.opened = load.head, !.swiped = {},
                              !.index = FirstUndecided(load.head, load.decided)]
      BY <1>2, <1>6
  <2> QED BY <1>1, <1>3, <1>6, <2>1 DEF HeadsOrNone
<1> QED BY <1>5, <1>6

LEMMA InOrder ==
    ASSUME IInv, NEW g, NEW h, NEW k, NotAfter(g, h), NotAfter(h, k), h # NoHead
    PROVE  NotAfter(g, k)
<1>1. CASE g = NoHead
    BY <1>1 DEF NotAfter
<1>2. CASE g # NoHead
  <2>1. PICK i, j \in DOMAIN decks : i <= j /\ decks[i] = g /\ decks[j] = h
      BY <1>2 DEF NotAfter
  <2>2. PICK l, m \in DOMAIN decks : l <= m /\ decks[l] = h /\ decks[m] = k
      BY DEF NotAfter
  <2>3. l = j
      BY <2>1, <2>2 DEF IInv, Ordered
  <2>4. DOMAIN decks \subseteq Nat
      BY DEF IInv, Types
  <2> QED BY <2>1, <2>2, <2>3, <2>4 DEF NotAfter
<1> QED BY <1>1, <1>2

\* What a read changes, apart from what it reads.
LEMMA ReadKeeps ==
    ASSUME IInv, getDecidedFingerprints \/ resolveStaleDeck \/ listPostedComments
    PROVE  /\ load'.on = load.on /\ load'.refresh = load.refresh /\ load'.head = load.head
           /\ "deck" \notin load.todo /\ UNCHANGED page
           /\ load'.decided = load.decided \/ (load.head # NoHead /\ load'.decided = decided[load.head])
    BY DEF getDecidedFingerprints, resolveStaleDeck, listPostedComments, Read, IInv, Types, LoadStates,
           DeckFirst

LEMMA OrderedNext == ASSUME IInv, [DeckPageNext]_deckPageVars PROVE Ordered'
<1>1. /\ load \in LoadStates /\ page \in PageStates /\ Types /\ DeckFirst
      /\ Stored(page.head) /\ Stored(load.head) /\ NotAfter(page.opened, page.head)
      /\ load.on /\ load.refresh /\ "deck" \notin load.todo => NotAfter(page.head, load.head)
    BY DEF IInv, Types, Ordered
<1>2. NoLoad.head = NoHead /\ ~NoLoad.on /\ Closed.head = NoHead /\ Closed.opened = NoHead
    BY DEF NoLoad, Closed
<1>3. CASE Show
  <2>1. load.on /\ "deck" \notin load.todo /\ load' = NoLoad /\ page'.head = load.head
      BY <1>3, ShownDeck DEF Show
  <2>2. Stored(page.head)' /\ Stored(load.head)'
      BY <1>1, <1>2, <2>1, OrderStays DEF Stored
  <2>3. NotAfter(page'.opened, page'.head)
    <3>1. CASE page'.opened = NoHead
        BY <3>1 DEF NotAfter
    <3>2. CASE page'.opened = load.head /\ load.head \in Heads
      <4>1. PICK i \in DOMAIN decks : decks[i] = load.head
          BY <1>1, <3>2, HeadsAreNumbers DEF Stored
      <4>2. i <= i
          BY <4>1 DEF IInv, Types
      <4> QED BY <2>1, <3>2, <4>1, <4>2 DEF NotAfter
    <3>3. CASE /\ load.refresh /\ (page.head # NoHead \/ load.head = NoHead)
               /\ page'.opened = page.opened
      <4>1. CASE page.head = NoHead
          BY <1>1, <2>1, <3>3, <4>1 DEF NotAfter
      <4>2. CASE page.head # NoHead
          BY <1>1, <2>1, <3>3, <4>2, InOrder
      <4> QED BY <4>1, <4>2
    <3> QED BY <1>3, <3>1, <3>2, <3>3, ShownDeck
  <2> QED BY <1>2, <2>1, <2>2, <2>3, OrderStays DEF Ordered
<1>4. CASE ~Show
  <2>1. \/ page'.head = NoHead /\ page'.opened = NoHead
        \/ page'.head = page.head /\ page'.opened = page.opened
    <3>1. CASE Swipe
        BY <1>1, <3>1 DEF Swipe, PageStates
    <3> QED BY <1>1, <1>2, <1>4, <3>1, PageMoves
  <2>2. Stored(page.head)' /\ NotAfter(page.opened, page.head)'
      BY <1>1, <2>1, OrderStays DEF Stored, NotAfter
  <2>3. Stored(load.head)'
    <3>1. load'.head \in {load.head, NoHead, LatestDeck}
      <4>1. CASE ReadDeck
          BY <1>1, <4>1 DEF ReadDeck, LoadStates
      <4> QED BY <1>1, <1>2, <4>1, LoadMoves, NewLoad, ReadKeeps
    <3>2. Stored(load'.head)
        BY <1>1, <3>1, LatestIsHead DEF Stored
    <3> QED BY <3>2, OrderStays
  <2>4. ASSUME load'.on, load'.refresh, "deck" \notin load'.todo
        PROVE  NotAfter(page.head, load.head)'
    <3>1. CASE ReadDeck
      <4>1. load'.head = LatestDeck /\ page'.head = page.head
          BY <1>1, <3>1 DEF ReadDeck, LoadStates
      <4>2. NotAfter(page'.head, load'.head)
          BY <1>1, <4>1, LatestIsLast
      <4> QED BY <4>2, OrderStays
    <3>2. CASE load' = load
      <4>1. NotAfter(page'.head, load'.head)
          BY <1>1, <2>1, <2>4, <3>2 DEF NotAfter
      <4> QED BY <4>1, OrderStays
    <3>3. CASE getDecidedFingerprints \/ resolveStaleDeck \/ listPostedComments
      <4>1. NotAfter(page'.head, load'.head)
          BY <1>1, <2>4, <3>3, ReadKeeps
      <4> QED BY <4>1, OrderStays
    <3>4. ~(load' = NoLoad \/ \E refresh \in BOOLEAN : load' = Loading(refresh))
        BY <1>2, <2>4, NewLoad
    <3> QED BY <1>1, <3>1, <3>2, <3>3, <3>4, LoadMoves
  <2> QED BY <2>2, <2>3, <2>4, OrderStays DEF Ordered
<1> QED BY <1>3, <1>4

LEMMA ResumedNext == ASSUME IInv, [DeckPageNext]_deckPageVars PROVE Resumed'
<1>1. /\ load \in LoadStates /\ Types /\ DeckFirst /\ Resumed
      /\ \A h \in Heads : decided[h] \subseteq decided'[h]
    BY StoredStays DEF IInv, Types
<1>2. load.head # NoHead => load.head \in Heads
    BY <1>1 DEF LoadStates, HeadsOrNone
<1>3. ASSUME load'.head = load.head, load'.decided = load.decided
      PROVE  Resumed'
    BY <1>1, <1>2, <1>3 DEF Resumed
<1>4. CASE load' = NoLoad \/ \E refresh \in BOOLEAN : load' = Loading(refresh)
  <2>1. load'.decided = {}
      BY <1>4, NewLoad DEF NoLoad
  <2> QED BY <2>1 DEF Resumed
<1>5. CASE ReadDeck
  <2>1. load'.decided = {}
      BY <1>1, <1>5 DEF ReadDeck, DeckFirst, LoadStates
  <2> QED BY <2>1 DEF Resumed
<1>6. CASE getDecidedFingerprints \/ resolveStaleDeck \/ listPostedComments
  <2>1. CASE load'.decided = load.decided
      BY <1>3, <1>6, <2>1, ReadKeeps
  <2>2. CASE load.head # NoHead /\ load'.decided = decided[load.head]
      BY <1>1, <1>2, <1>6, <2>2, ReadKeeps DEF Resumed
  <2> QED BY <1>6, <2>1, <2>2, ReadKeeps
<1> QED BY <1>1, <1>3, <1>4, <1>5, <1>6, LoadMoves

\* The cards before a position of a deck are decided or were swiped.
Passed(h, index, seen) == \A i \in DOMAIN CardsOf[h] : i < index => CardsOf[h][i].fp \in seen

LEMMA PassedMeans ==
    ASSUME IInv
    PROVE  NothingPassedUnreviewed <=>
              (page.opened = page.head /\ page.head # NoHead =>
                  Passed(page.head, page.index, decided[page.head] \cup page.swiped))
    BY DEF NothingPassedUnreviewed, Unreviewed, Passed

LEMMA NothingPassedNext == ASSUME IInv, [DeckPageNext]_deckPageVars PROVE NothingPassedUnreviewed'
<1>1. /\ page \in PageStates /\ load \in LoadStates /\ Types
      /\ \A h \in Heads : decided[h] \subseteq decided'[h]
      /\ page.opened = page.head /\ page.head # NoHead =>
            Passed(page.head, page.index, decided[page.head] \cup page.swiped)
      /\ page.head # NoHead => page.head \in Heads
    BY PassedMeans, StoredStays DEF IInv, Types, PageStates, HeadsOrNone
<1>2. SUFFICES ASSUME page'.opened = page'.head, page'.head # NoHead
               PROVE  Passed(page'.head, page'.index, decided'[page'.head] \cup page'.swiped)
    BY DEF NothingPassedUnreviewed, Unreviewed, Passed
<1>3. ASSUME page'.head = page.head, page'.opened = page.opened, page'.index = page.index,
             page'.swiped = page.swiped
      PROVE  Passed(page'.head, page'.index, decided'[page'.head] \cup page'.swiped)
    BY <1>1, <1>2, <1>3 DEF Passed
<1>4. CASE page' = Closed
    BY <1>2, <1>4 DEF Closed
<1>5. CASE Show
  <2>1. CASE page'.opened = load.head /\ load.head \in Heads
             /\ page'.index = FirstUndecided(load.head, load.decided)
    <3>1. load.decided \subseteq decided'[load.head]
        BY <1>1, <2>1 DEF IInv, Resumed
    <3>2. Passed(load.head, page'.index, load.decided)
        BY <2>1, Resume DEF Passed
    <3> QED BY <1>5, <3>1, <3>2, ShownDeck DEF Passed
  <2>2. CASE /\ load.refresh /\ (page.head # NoHead \/ load.head = NoHead)
             /\ page'.opened = page.opened /\ page'.index = page.index /\ page'.swiped = page.swiped
    <3>1. page'.head = load.head /\ page.opened = load.head /\ page.head # NoHead
        BY <1>2, <1>5, <2>2, ShownDeck
    <3>2. NotAfter(page.opened, page.head) /\ NotAfter(page.head, load.head) /\ load.head \in Heads
        BY <1>1, <1>2, <1>5, <2>2, <3>1 DEF IInv, Ordered, Show, LoadStates, HeadsOrNone
    <3>3. load.head = page.head
        BY <3>1, <3>2, NoneBetween
    <3> QED BY <1>3, <2>2, <3>1, <3>3
  <2> QED BY <1>2, <1>5, <2>1, <2>2, ShownDeck
<1>6. CASE Swipe
  <2>1. /\ page'.head = page.head /\ page'.opened = page.opened /\ page'.index = page.index + 1
        /\ page'.swiped = page.swiped \cup {CardsOf[page.head][page.index].fp}
      BY <1>1, <1>6 DEF Swipe, PageStates, CurrentCard
  <2>2. Passed(page.head, page.index, decided[page.head] \cup page.swiped)
      BY <1>1, <1>2, <2>1
  <2>3. \A i \in DOMAIN CardsOf[page.head] : i < page.index + 1 => i < page.index \/ i = page.index
    <3>1. page.index \in Nat
        BY <1>1 DEF PageStates
    <3>2. page.head \in Heads
        BY <1>1, <1>2, <2>1
    <3>3. DOMAIN CardsOf[page.head] = 1 .. Len(CardsOf[page.head])
        BY <3>2, HeadsAreNumbers
    <3> QED BY <3>1, <3>3
  <2> QED BY <1>1, <1>2, <2>1, <2>2, <2>3 DEF Passed
<1> QED BY <1>1, <1>3, <1>4, <1>5, <1>6, PageMoves

-----------------------------------------------------------------------------
(* Theorems.                                                               *)

LEMMA DeckPageInvInit == ASSUME DeckPageInit PROVE IInv
<1>1. Types /\ PostInv /\ Written
    BY TypesInit, PostInvInit DEF DeckPageInit, Unposted, Written
<1>2. DeckFirst /\ Displayed /\ Ordered /\ Resumed /\ NothingPassedUnreviewed
    BY DEF DeckPageInit, NoLoad, Closed, DeckFirst, Displayed, Ordered, Stored, NotAfter, Resumed,
           NothingPassedUnreviewed, Unreviewed
<1> QED BY <1>1, <1>2 DEF IInv

LEMMA DeckPageInvNext == ASSUME IInv, [DeckPageNext]_deckPageVars PROVE IInv'
    BY TypesNext, PostInvNext, WrittenNext, DeckFirstNext, DisplayedNext, OrderedNext, ResumedNext,
       NothingPassedNext DEF IInv

\* postComment: a submitted comment is on GitHub once at most, whatever fails.
THEOREM CommentedOnce == DeckPageSpec => []OneCommentPerSubmit
<1>1. IInv => OneCommentPerSubmit
    BY DEF IInv, PostInv
<1> QED BY <1>1, DeckPageInvInit, DeckPageInvNext, PTL DEF DeckPageSpec

\* What the composer is told of a comment is so.
THEOREM TrueAnswers == DeckPageSpec => []AnswerIsTrue
<1>1. IInv => AnswerIsTrue
    BY DEF IInv, PostInv
<1> QED BY <1>1, DeckPageInvInit, DeckPageInvNext, PTL DEF DeckPageSpec

\* A review comment is on the lines of a card with its fingerprint at the commit
\* it names, however many decks were stored since the card was shown, and on
\* those of the very card if that deck was shown and no twin comes before it.
THEOREM CommentsOnTheirCards == DeckPageSpec => []CommentIsOnItsCard
<1>1. IInv => CommentIsOnItsCard
  <2> SUFFICES ASSUME IInv, NEW c \in comments, c.kind = "review"
               PROVE  LET p == post[c.sub] IN
                      /\ \E i \in Twins(c.head, p.fp) : c.line = CardsOf[c.head][i].line
                      /\ p.shown = c.head /\ (\A i \in Twins(c.head, p.fp) : p.card <= i) =>
                            c.line = CardsOf[c.head][p.card].line
                      /\ c.line # Deletion
      BY DEF CommentIsOnItsCard
  <2> DEFINE p == post[c.sub]
             T == Twins(c.head, p.fp)
  <2>1. /\ c.line = LineOf(c.head, p.fp) /\ c.line # Deletion /\ p.fp \in Fps(c.head)
        /\ p.pc # "none" /\ c.sub \in Subs
      BY DEF IInv, PostInv, Commented, Types, CommentStates
  <2>2. c.head \in Heads
      BY DEF IInv, Written
  <2>3. PICK i \in T : c.line = CardsOf[c.head][i].line /\ \A j \in T : i <= j
      BY <2>1, <2>2, HeadsAreNumbers
  <2>4. ASSUME p.shown = c.head, \A j \in T : p.card <= j PROVE p.card = i
    <3>1. p.card \in T
        BY <2>1, <2>4 DEF IInv, Written
    <3>2. T \subseteq Nat
      <4>1. DOMAIN CardsOf[c.head] = 1 .. Len(CardsOf[c.head])
          BY <2>2, HeadsAreNumbers
      <4> QED BY <4>1 DEF Twins
    <3> QED BY <2>3, <2>4, <3>1, <3>2
  <2> QED BY <2>1, <2>3, <2>4
<1> QED BY <1>1, DeckPageInvInit, DeckPageInvNext, PTL DEF DeckPageSpec

\* The page lists comments that exist and belong to the deck it shows.
THEOREM RealComments == DeckPageSpec => []ShownCommentsAreReal
<1>1. IInv => ShownCommentsAreReal
  <2> SUFFICES ASSUME IInv, NEW r \in page.posted
               PROVE  /\ r.head = page.head /\ r.fp \in Fps(page.head)
                      /\ \E c \in comments : c.sub = r.sub /\ c.head = r.head
      BY DEF ShownCommentsAreReal
  <2>1. r \in recorded /\ r.head = page.head
      BY DEF IInv, Displayed
  <2> QED BY <2>1 DEF IInv, Displayed
<1> QED BY <1>1, DeckPageInvInit, DeckPageInvNext, PTL DEF DeckPageSpec

\* A deck resumes behind no card that has neither a decision at its head nor was
\* swiped, as long as the deck on the page is the one it was opened with.
THEOREM NothingSkipped == DeckPageSpec => []NothingPassedUnreviewed
<1>1. IInv => NothingPassedUnreviewed
    BY DEF IInv
<1> QED BY <1>1, DeckPageInvInit, DeckPageInvNext, PTL DEF DeckPageSpec
=============================================================================
