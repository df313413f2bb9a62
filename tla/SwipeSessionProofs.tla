------------------------- MODULE SwipeSessionProofs -------------------------
(***************************************************************************)
(* The swipe deck for any deck, any number of tabs, swipes and loads, and  *)
(* whatever writes are lost.  A tab without animation never has an index   *)
(* that is not rendered; one with animation is at most one ahead, and not  *)
(* while its timer runs.                                                   *)
(***************************************************************************)
EXTENDS SwipeSession, FiniteSetTheorems, WellFoundedInduction, TLAPS

\* As TabState, with places unbounded.
TabStates == [open : BOOLEAN, index : Nat \ {0}, rendered : Nat \ {0},
              up : Nat, down : Nat, committing : BOOLEAN, timer : BOOLEAN,
              outbox : Seq(Swipes), sending : Swipes, answered : SUBSET Positions]

Types ==
    /\ log \in Seq([card : Positions, sentiment : Sentiments])
    /\ tab \in [Tabs -> TabStates]
    /\ requests \subseteq [swipe : Swipes, stage : Stages]
    /\ decision \in [Fingerprints -> Swipes]
    /\ reactions \subseteq Swipes /\ stored \subseteq Swipes
    /\ seen \subseteq Positions
    /\ loads \in 0 .. MaxLoads /\ Len(log) <= MaxSwipes

\* Where a tab can be: its timer runs while it commits, and it has rendered all
\* its moves but the last.
InStep(t) ==
    /\ tab[t].committing <=> tab[t].timer
    /\ tab[t].index \in {tab[t].rendered, tab[t].rendered + 1}
    /\ tab[t].timer => tab[t].index = tab[t].rendered /\ tab[t].index <= Total + 1
    /\ tab[t].index <= Total + 2
    /\ tab[t].timer \/ tab[t].index = Total + 2 => log # << >>
    /\ t \in ReducedMotion => ~tab[t].timer /\ tab[t].index = tab[t].rendered
    /\ ~tab[t].open => tab[t].index = 1 /\ ~tab[t].timer

Motion == \A t \in Tabs : InStep(t)

IInv == Types /\ Motion /\ NoCardSkipped

-----------------------------------------------------------------------------
\* A set of places has a first one.
LEMMA LeastPlace ==
    ASSUME NEW S \in SUBSET Nat, S # {}
    PROVE  Min(S) \in S /\ \A y \in S : Min(S) <= y
<1>1. PICK x \in S : \A y \in S : ~(<<y, x>> \in OpToRel(<, Nat))
    BY WFMin, NatLessThanWellFounded, Zenon
<1>2. ASSUME NEW y \in S PROVE x <= y
  <2>1. ~(<<y, x>> \in OpToRel(<, Nat))
      BY <1>1, Zenon
  <2>2. <<y, x>> \in Nat \X Nat /\ <<y, x>>[1] = y /\ <<y, x>>[2] = x
      OBVIOUS
  <2>3. ~(y < x)
      BY <2>1, <2>2, Zenon DEF OpToRel
  <2> QED BY <2>3
<1> QED BY <1>2 DEF Min

\* Resuming at the first undecided card passes decided ones only.
LEMMA ResumeState ==
    ASSUME NEW table
    PROVE  /\ resumeState(table) \in 1 .. Total + 1
           /\ \A i \in Positions : i < resumeState(table) => i \in Decided(table)
<1> DEFINE S == (Positions \ Decided(table)) \cup {Total + 1}
<1>1. S \in SUBSET Nat /\ S \subseteq 1 .. Total + 1 /\ S # {}
    BY DeckAssumption DEF Positions
<1>2. resumeState(table) = Min(S)
    BY DEF resumeState
<1>3. \A i \in Positions : i \in S \/ i \in Decided(table)
    OBVIOUS
<1> HIDE DEF S
<1>4. Min(S) \in S /\ \A y \in S : Min(S) <= y
    BY <1>1, LeastPlace
<1>5. Min(S) \in 1 .. Total + 1
    BY <1>1, <1>4
<1>6. ASSUME NEW i \in Positions, i < Min(S) PROVE i \in Decided(table)
  <2>1. i \in Nat /\ Min(S) \in Nat
      BY <1>5, DeckAssumption DEF Positions
  <2>2. i \notin S
      BY <1>4, <1>6, <2>1
  <2> QED BY <1>3, <2>2
<1> QED BY <1>2, <1>5, <1>6

\* Counting decided cards of one sentiment gives a number.
LEMMA TallyIsNat == ASSUME NEW table, NEW sentiment PROVE Tally(table, sentiment) \in Nat
<1>1. IsFiniteSet(Positions)
    BY DeckAssumption, FS_Interval DEF Positions
<1>2. {i \in Decided(table) : log[table[Fingerprint[i]]].sentiment = sentiment} \subseteq Positions
    BY DEF Decided
<1> QED BY <1>1, <1>2, FS_Subset, FS_CardinalityType DEF Tally

LEMMA ClosedTab == Closed \in TabStates
<1>1. << >> \in Seq(Swipes)
    OBVIOUS
<1>2. 0 \in Swipes
    BY BoundsAssumption DEF Swipes
<1> QED BY <1>1, <1>2 DEF Closed, TabStates

LEMMA AdvancedTab ==
    ASSUME NEW s \in TabStates
    PROVE  /\ Advanced(s) \in TabStates /\ Advanced(s).index = s.index + 1
           /\ Advanced(s).rendered = s.rendered /\ Advanced(s).open = s.open
           /\ Advanced(s).answered = s.answered
           /\ ~Advanced(s).committing /\ ~Advanced(s).timer
<1> DEFINE i == s.index + 1
<1>1. i \in Nat \ {0}
    BY DEF TabStates
<1>2. Advanced(s) = [s EXCEPT !.index = i, !.committing = FALSE, !.timer = FALSE]
    BY DEF Advanced, TabStates
<1>3. i = s.index + 1
    OBVIOUS
<1> HIDE DEF i
<1> QED BY <1>1, <1>2, <1>3 DEF TabStates

LEMMA RenderedTab ==
    ASSUME NEW s \in TabStates
    PROVE  /\ Rendered(s) \in TabStates /\ Rendered(s).index = s.index
           /\ Rendered(s).rendered = s.index /\ Rendered(s).open = s.open
           /\ Rendered(s).answered = s.answered
           /\ Rendered(s).committing = s.committing /\ Rendered(s).timer = s.timer
    BY DEF Rendered, TabStates

LEMMA InitKeeps == ASSUME Init PROVE IInv
<1>1. Types
    BY ClosedTab, BoundsAssumption DEF Init, Types, TabStates, Swipes
<1>2. Motion
    BY DeckAssumption DEF Init, Motion, InStep, Closed
<1>3. NoCardSkipped
    BY BoundsAssumption, DeckAssumption DEF Init, NoCardSkipped, PassedOnlyAnswered, Closed, Positions
<1> QED BY <1>1, <1>2, <1>3 DEF IInv

-----------------------------------------------------------------------------
\* A step that gives one tab a new state.
LEMMA OneTab ==
    ASSUME IInv, NEW t \in Tabs, NEW s \in TabStates, tab' = [tab EXCEPT ![t] = s],
           log # << >> => log' # << >>,
           InStep(t)', t \in ReducedMotion => PassedOnlyAnswered(t)'
    PROVE  Motion' /\ NoCardSkipped' /\ tab' \in [Tabs -> TabStates]
<1>1. tab \in [Tabs -> TabStates]
    BY DEF IInv, Types, TabStates
<1>2. \A u \in Tabs : u # t => tab'[u] = tab[u]
    BY <1>1
<1>3. Motion'
    BY <1>2 DEF IInv, Motion, InStep
<1>4. NoCardSkipped'
    BY <1>2, BoundsAssumption DEF IInv, NoCardSkipped, PassedOnlyAnswered
<1> QED BY <1>1, <1>3, <1>4

LEMMA DeckPageKeeps == ASSUME IInv, NEW t \in Tabs, DeckPage(t) PROVE IInv'
<1>1. PICK table :
         /\ tab' = [tab EXCEPT ![t] =
                [Closed EXCEPT !.open = TRUE, !.index = resumeState(table),
                               !.rendered = resumeState(table), !.up = Tally(table, "up"),
                               !.down = Tally(table, "down"), !.answered = Decided(table)]]
         /\ seen' = seen \cup ({resumeState(table)} \cap Positions)
    BY DEF DeckPage
<1> DEFINE s == [Closed EXCEPT !.open = TRUE, !.index = resumeState(table),
                               !.rendered = resumeState(table), !.up = Tally(table, "up"),
                               !.down = Tally(table, "down"), !.answered = Decided(table)]
<1>2. resumeState(table) \in Nat \ {0} /\ resumeState(table) <= Total + 1 /\ Decided(table) \subseteq Positions
    BY ResumeState, DeckAssumption DEF Decided
<1>3. /\ s.open /\ s.index = resumeState(table) /\ s.rendered = resumeState(table)
      /\ ~s.committing /\ ~s.timer /\ s.answered = Decided(table)
    BY DEF Closed
<1>4. s \in TabStates
    BY <1>2, TallyIsNat, ClosedTab DEF TabStates
<1> HIDE DEF s
<1>5. tab \in [Tabs -> TabStates] /\ tab' = [tab EXCEPT ![t] = s] /\ tab'[t] = s
    BY <1>1 DEF IInv, Types, TabStates, s
<1>6. InStep(t)'
    BY <1>2, <1>3, <1>5, DeckAssumption DEF InStep
<1>7. PassedOnlyAnswered(t)'
    BY <1>3, <1>5, ResumeState DEF PassedOnlyAnswered
<1>8. Motion' /\ NoCardSkipped' /\ tab' \in [Tabs -> TabStates]
    BY <1>4, <1>5, <1>6, <1>7, OneTab DEF DeckPage
<1>9. Types'
    BY <1>1, <1>8, BoundsAssumption DEF DeckPage, IInv, Types, TabStates, server
<1> QED BY <1>8, <1>9 DEF IInv

\* A swipe: the tab that takes it has rendered the card, and renders again.
LEMMA CommitKeeps ==
    ASSUME IInv, NEW t \in Tabs, NEW sentiment \in Sentiments, commit(t, sentiment)
    PROVE  IInv'
<1> DEFINE s == tab[t]
           taken == [s EXCEPT !.outbox = Append(@, Len(log) + 1),
                              !.up = IF sentiment = "up" THEN @ + 1 ELSE @,
                              !.down = IF sentiment = "down" THEN @ + 1 ELSE @,
                              !.answered = @ \cup {s.rendered},
                              !.committing = TRUE, !.timer = TRUE]
           next == Rendered(IF t \in ReducedMotion THEN Advanced(taken) ELSE taken)
<1>1. /\ s \in TabStates /\ tab \in [Tabs -> TabStates] /\ InStep(t)
      /\ log \in Seq([card : Positions, sentiment : Sentiments]) /\ Len(log) \in Nat
    BY DEF IInv, Types, TabStates, Motion
<1>2. /\ s.open /\ s.rendered <= Total /\ ~s.committing /\ Len(log) < MaxSwipes
      /\ log' = Append(log, [card |-> s.rendered, sentiment |-> sentiment])
      /\ tab' = [tab EXCEPT ![t] = next]
      /\ seen' = seen \cup ({next.rendered} \cap Positions)
      /\ UNCHANGED <<requests, decision, reactions, stored, loads>>
    BY DEF commit, CanCommit, server
<1>3. s.rendered \in Positions /\ s.rendered \in Nat /\ s.index \in Nat /\ ~s.timer
    BY <1>1, <1>2, DeckAssumption DEF TabStates, Positions, InStep
<1>4. Len(log) + 1 \in Swipes /\ Append(s.outbox, Len(log) + 1) \in Seq(Swipes)
  <2>1. Len(log) + 1 \in Swipes
      BY <1>1, <1>2, BoundsAssumption DEF Swipes
  <2>2. s.outbox \in Seq(Swipes)
      BY <1>1 DEF TabStates
  <2> QED BY <2>1, <2>2
<1>5. /\ taken \in TabStates /\ taken.open = s.open /\ taken.index = s.index
      /\ taken.rendered = s.rendered /\ taken.committing /\ taken.timer
      /\ taken.answered = s.answered \cup {s.rendered}
  <2> DEFINE up == IF sentiment = "up" THEN s.up + 1 ELSE s.up
             down == IF sentiment = "down" THEN s.down + 1 ELSE s.down
             out == Append(s.outbox, Len(log) + 1)
  <2>1. up \in Nat /\ down \in Nat /\ out \in Seq(Swipes)
      BY <1>1, <1>4 DEF TabStates
  <2>2. taken = [s EXCEPT !.outbox = out, !.up = up, !.down = down,
                          !.answered = s.answered \cup {s.rendered},
                          !.committing = TRUE, !.timer = TRUE]
      BY <1>1 DEF TabStates
  <2>3. s.answered \cup {s.rendered} \in SUBSET Positions
      BY <1>1, <1>3 DEF TabStates
  <2> HIDE DEF taken, up, down, out
  <2> QED BY <1>1, <2>1, <2>2, <2>3 DEF TabStates
<1> HIDE DEF taken
<1>6. /\ next \in TabStates /\ next.open = s.open /\ next.rendered = next.index
      /\ next.answered = s.answered \cup {s.rendered}
      /\ t \in ReducedMotion => next.index = s.index + 1 /\ ~next.committing /\ ~next.timer
      /\ t \notin ReducedMotion => next.index = s.index /\ next.committing /\ next.timer
  <2>1. CASE t \in ReducedMotion
    <3>1. next = Rendered(Advanced(taken))
        BY <2>1
    <3> HIDE DEF next
    <3> QED BY <1>5, <2>1, <3>1, AdvancedTab, RenderedTab
  <2>2. CASE t \notin ReducedMotion
    <3>1. next = Rendered(taken)
        BY <2>2
    <3> HIDE DEF next
    <3> QED BY <1>5, <2>2, <3>1, RenderedTab
  <2> QED BY <2>1, <2>2
<1> HIDE DEF next
<1>7. tab'[t] = next /\ log' # << >>
    BY <1>1, <1>2
<1>8. InStep(t)'
  <2>1. /\ s.index \in {s.rendered, s.rendered + 1} /\ s.index <= Total + 2
        /\ t \in ReducedMotion => s.index = s.rendered
      BY <1>1 DEF InStep
  <2>2. /\ next.index \in Nat /\ next.rendered = next.index /\ next.index <= Total + 1
        /\ next.open /\ log' # << >>
      BY <1>2, <1>3, <1>6, <1>7, <2>1, DeckAssumption
  <2>3. /\ next.committing <=> next.timer
        /\ t \in ReducedMotion => ~next.timer
      BY <1>6
  <2> HIDE DEF s
  <2> QED BY <1>7, <2>2, <2>3, DeckAssumption DEF InStep
<1>9. t \in ReducedMotion => PassedOnlyAnswered(t)'
  <2> SUFFICES ASSUME t \in ReducedMotion, NEW i \in Positions, i < next.index
               PROVE  i \in next.answered
      BY <1>7 DEF PassedOnlyAnswered
  <2>1. i \in Nat /\ next.index = s.index + 1 /\ s.index = s.rendered
      BY <1>1, <1>6, DeckAssumption DEF InStep, Positions
  <2>2. i < s.index => i \in s.answered
      BY DEF IInv, NoCardSkipped, PassedOnlyAnswered
  <2> QED BY <1>3, <1>6, <2>1, <2>2
<1>10. Motion' /\ NoCardSkipped' /\ tab' \in [Tabs -> TabStates]
    BY <1>2, <1>6, <1>7, <1>8, <1>9, OneTab
<1>11. /\ log' \in Seq([card : Positions, sentiment : Sentiments]) /\ Len(log') <= MaxSwipes
       /\ seen' \subseteq Positions
  <2>1. [card |-> s.rendered, sentiment |-> sentiment] \in [card : Positions, sentiment : Sentiments]
      BY <1>3
  <2> QED BY <1>1, <1>2, <2>1, BoundsAssumption DEF IInv, Types
<1> QED BY <1>2, <1>10, <1>11 DEF IInv, Types, TabStates

LEMMA TabMovesKeep ==
    ASSUME IInv, NEW t \in Tabs, advance(t) \/ Render(t) \/ Send(t)
    PROVE  IInv'
<1> DEFINE s == tab[t]
<1>1. /\ s \in TabStates /\ tab \in [Tabs -> TabStates] /\ InStep(t)
      /\ s.index \in Nat /\ s.rendered \in Nat
    BY DEF IInv, Types, TabStates, Motion
<1>2. t \in ReducedMotion => PassedOnlyAnswered(t)
    BY DEF IInv, NoCardSkipped
<1>3. CASE advance(t)
  <2>1. /\ tab' = [tab EXCEPT ![t] = Advanced(s)] /\ s.timer
        /\ UNCHANGED <<log, requests, decision, reactions, stored, seen, loads>>
      BY <1>3 DEF advance, server
  <2>2. /\ Advanced(s) \in TabStates /\ Advanced(s).index = s.index + 1
        /\ Advanced(s).rendered = s.rendered /\ ~Advanced(s).committing /\ ~Advanced(s).timer
        /\ Advanced(s).open = s.open /\ tab'[t] = Advanced(s)
      BY <1>1, <2>1, AdvancedTab
  <2>3. InStep(t)' /\ t \notin ReducedMotion
      BY <1>1, <2>1, <2>2, DeckAssumption DEF InStep
  <2>4. Motion' /\ NoCardSkipped' /\ tab' \in [Tabs -> TabStates]
      BY <2>1, <2>2, <2>3, OneTab
  <2> QED BY <2>1, <2>4 DEF IInv, Types, TabStates
<1>4. CASE Render(t)
  <2>1. /\ tab' = [tab EXCEPT ![t] = Rendered(s)] /\ s.rendered # s.index
        /\ seen' = seen \cup ({s.index} \cap Positions)
        /\ UNCHANGED <<log, requests, decision, reactions, stored, loads>>
      BY <1>4 DEF Render, server
  <2>2. /\ Rendered(s) \in TabStates /\ Rendered(s).index = s.index
        /\ Rendered(s).rendered = s.index /\ Rendered(s).open = s.open
        /\ Rendered(s).committing = s.committing /\ Rendered(s).timer = s.timer
        /\ tab'[t] = Rendered(s)
      BY <1>1, <2>1, RenderedTab
  <2>3. InStep(t)' /\ t \notin ReducedMotion
      BY <1>1, <2>1, <2>2 DEF InStep
  <2>4. Motion' /\ NoCardSkipped' /\ tab' \in [Tabs -> TabStates]
      BY <2>1, <2>2, <2>3, OneTab
  <2> QED BY <2>1, <2>4 DEF IInv, Types, TabStates
<1>5. CASE Send(t)
  <2> DEFINE q == [s EXCEPT !.sending = Head(s.outbox), !.outbox = Tail(@)]
  <2>1. /\ s.outbox # << >> /\ s.outbox \in Seq(Swipes)
        /\ requests' = requests \cup {[swipe |-> Head(s.outbox), stage |-> "reaction"]}
        /\ UNCHANGED <<log, decision, reactions, stored, seen, loads>>
      BY <1>1, <1>5 DEF Send, TabStates
  <2>2. Head(s.outbox) \in Swipes /\ Tail(s.outbox) \in Seq(Swipes)
      BY <2>1
  <2>3. tab' = [tab EXCEPT ![t] = q]
      BY <1>1, <1>5 DEF Send, TabStates
  <2>4. /\ q \in TabStates /\ q.index = s.index /\ q.rendered = s.rendered /\ q.open = s.open
        /\ q.committing = s.committing /\ q.timer = s.timer /\ q.answered = s.answered
      BY <1>1, <2>2 DEF TabStates
  <2> HIDE DEF q
  <2>5. tab'[t] = q
      BY <1>1, <2>3
  <2>6. InStep(t)' /\ (t \in ReducedMotion => PassedOnlyAnswered(t)')
      BY <1>1, <1>2, <2>1, <2>4, <2>5 DEF InStep, PassedOnlyAnswered
  <2>7. Motion' /\ NoCardSkipped' /\ tab' \in [Tabs -> TabStates]
      BY <2>1, <2>3, <2>4, <2>6, OneTab
  <2> QED BY <2>1, <2>2, <2>7 DEF IInv, Types, TabStates, Stages
<1> QED BY <1>3, <1>4, <1>5

-----------------------------------------------------------------------------
\* An answer, or its loss, only frees the tab to send its next write.
LEMMA AnswerKeeps ==
    ASSUME IInv, NEW r, Answered(r), UNCHANGED log
    PROVE  Motion' /\ NoCardSkipped' /\ tab' \in [Tabs -> TabStates]
<1>1. tab \in [Tabs -> TabStates] /\ 0 \in Swipes
    BY BoundsAssumption DEF IInv, Types, TabStates, Swipes
<1>2. ASSUME NEW t \in Tabs
      PROVE  /\ tab'[t] \in TabStates
             /\ tab'[t].open = tab[t].open /\ tab'[t].index = tab[t].index
             /\ tab'[t].rendered = tab[t].rendered /\ tab'[t].answered = tab[t].answered
             /\ tab'[t].committing = tab[t].committing /\ tab'[t].timer = tab[t].timer
  <2>1. tab'[t] \in {tab[t], [tab[t] EXCEPT !.sending = 0]} /\ tab[t] \in TabStates
      BY <1>1 DEF Answered
  <2> QED BY <1>1, <2>1 DEF TabStates
<1>3. tab' \in [Tabs -> TabStates]
    BY <1>1, <1>2 DEF Answered
<1>4. Motion'
    BY <1>2 DEF IInv, Motion, InStep
<1>5. NoCardSkipped'
    BY <1>2, BoundsAssumption DEF IInv, NoCardSkipped, PassedOnlyAnswered
<1> QED BY <1>3, <1>4, <1>5

LEMMA ServerKeeps ==
    ASSUME IInv, NEW r \in requests,
           AppendReaction(r) \/ UpsertDecision(r) \/ AnswerLost(r) \/ WriteLost(r)
    PROVE  IInv'
<1>1. r \in [swipe : Swipes, stage : Stages]
    BY DEF IInv, Types
<1>2. CASE AppendReaction(r)
  <2>1. [r EXCEPT !.stage = "decision"] \in [swipe : Swipes, stage : Stages]
      BY <1>1 DEF Stages
  <2>2. requests' \subseteq [swipe : Swipes, stage : Stages] /\ reactions' \subseteq Swipes
      BY <1>1, <1>2, <2>1 DEF AppendReaction, IInv, Types
  <2>3. UNCHANGED <<log, tab, decision, stored, seen, loads>>
      BY <1>2 DEF AppendReaction
  <2> QED BY <2>2, <2>3 DEF IInv, Types, Motion, InStep, NoCardSkipped, PassedOnlyAnswered
<1>3. CASE UpsertDecision(r)
  <2>1. Motion' /\ NoCardSkipped' /\ tab' \in [Tabs -> TabStates]
      BY <1>3, AnswerKeeps DEF UpsertDecision
  <2>2. decision' \in [Fingerprints -> Swipes] /\ stored' \subseteq Swipes
      BY <1>1, <1>3 DEF UpsertDecision, recordDecision, IInv, Types
  <2> QED BY <1>3, <2>1, <2>2 DEF UpsertDecision, IInv, Types, TabStates
<1>4. CASE AnswerLost(r)
  <2>1. Motion' /\ NoCardSkipped' /\ tab' \in [Tabs -> TabStates]
      BY <1>4, AnswerKeeps DEF AnswerLost
  <2> QED BY <1>4, <2>1 DEF AnswerLost, server, IInv, Types, TabStates
<1>5. CASE WriteLost(r)
  <2>1. Motion' /\ NoCardSkipped' /\ tab' \in [Tabs -> TabStates]
      BY <1>5, AnswerKeeps DEF WriteLost
  <2> QED BY <1>5, <2>1 DEF WriteLost, IInv, Types, TabStates
<1> QED BY <1>2, <1>3, <1>4, <1>5

LEMMA NextKeeps == ASSUME IInv, [Next]_vars PROVE IInv'
<1>1. CASE Next
    BY <1>1, DeckPageKeeps, CommitKeeps, TabMovesKeep, ServerKeeps DEF Next
<1>2. CASE UNCHANGED vars
    BY <1>2 DEF vars, server, IInv, Types, Motion, InStep, NoCardSkipped, PassedOnlyAnswered
<1> QED BY <1>1, <1>2

LEMMA Inductive == Spec => []IInv
<1>1. Init => IInv
    BY InitKeeps
<1>2. IInv /\ [Next]_vars => IInv'
    BY NextKeeps
<1> QED BY <1>1, <1>2, PTL DEF Spec

\* A tab behind the last place of the deck has taken a swipe, so the bound on
\* its place, Total + 1 + MaxSwipes, is never reached by a second timer.
LEMMA TypesHold == IInv => TypeOK
<1> SUFFICES ASSUME IInv PROVE TypeOK
    OBVIOUS
<1>1. tab \in [Tabs -> TabStates] /\ log \in Seq([card : Positions, sentiment : Sentiments])
    BY DEF IInv, Types, TabStates
<1>2. ASSUME NEW t \in Tabs PROVE tab[t] \in TabState
  <2>1. tab[t] \in TabStates /\ InStep(t)
      BY <1>1 DEF IInv, Motion
  <2>2. tab[t].index \in Nat \ {0} /\ tab[t].rendered \in Nat \ {0}
      BY <2>1 DEF TabStates
  <2>3. tab[t].index = Total + 2 => MaxSwipes >= 1
    <3>1. log # << >> => Len(log) \in Nat /\ Len(log) # 0
        BY <1>1
    <3> QED BY <2>1, <3>1, BoundsAssumption DEF InStep, IInv, Types
  <2>4. tab[t].index \in 1 .. Total + 1 + MaxSwipes /\ tab[t].rendered \in 1 .. Total + 1 + MaxSwipes
      BY <2>1, <2>2, <2>3, DeckAssumption, BoundsAssumption DEF InStep
  <2> HIDE DEF InStep
  <2> QED BY <2>1, <2>4 DEF TabStates, TabState
<1> QED BY <1>1, <1>2 DEF IInv, Types, TypeOK

-----------------------------------------------------------------------------
\* Type correctness; a place is never behind the last one by more swipes than
\* were made (advance).
THEOREM TypeCorrect == Spec => []TypeOK
    BY Inductive, TypesHold, PTL

\* A tab without animation skips no card, whatever writes are lost and wherever
\* a load resumes (commit, resumeState).
THEOREM NothingSkipped == Spec => []NoCardSkipped
<1>1. IInv => NoCardSkipped
    BY DEF IInv
<1> QED BY <1>1, Inductive, PTL

-----------------------------------------------------------------------------
(* Done means seen, when no two cards share a fingerprint: with twins, the *)
(* decision of one stands for the other.                                   *)

FingerprintsDiffer == \A i, j \in Positions : Fingerprint[i] = Fingerprint[j] => i = j

\* Every write on its way is of a swipe that was made.
Sent ==
    /\ \A t \in Tabs : \A k \in 1 .. Len(tab[t].outbox) : tab[t].outbox[k] \in 1 .. Len(log)
    /\ \A r \in requests : r.swipe \in 1 .. Len(log)

\* A stored decision is of a swipe of that fingerprint, and swiped cards and
\* those up to the rendered one were seen.
Seen ==
    /\ \A f \in Fingerprints :
          decision[f] # 0 => decision[f] \in 1 .. Len(log) /\ FingerprintOf(decision[f]) = f
    /\ \A k \in 1 .. Len(log) : log[k].card \in seen
    /\ \A t \in Tabs : tab[t].open => \A i \in Positions : i <= tab[t].rendered => i \in seen

LEMMA InitSeen == ASSUME Init PROVE Sent /\ Seen
    BY DEF Init, Sent, Seen, Closed

\* A card decided in the store, or in an empty answer, was seen.
LEMMA DecidedSeen ==
    ASSUME IInv, Seen, FingerprintsDiffer,
           NEW table \in {decision, [f \in Fingerprints |-> 0]}, NEW i \in Decided(table)
    PROVE  i \in seen
<1>1. i \in Positions /\ Fingerprint[i] \in Fingerprints /\ table[Fingerprint[i]] # 0
    BY DEF Decided, Fingerprints
<1>2. table = decision
    BY <1>1
<1>3. /\ decision[Fingerprint[i]] \in 1 .. Len(log)
      /\ Fingerprint[log[decision[Fingerprint[i]]].card] = Fingerprint[i]
    BY <1>1, <1>2 DEF Seen, FingerprintOf
<1>4. log[decision[Fingerprint[i]]].card \in Positions
  <2> DEFINE k == decision[Fingerprint[i]]
             Entry == [card : Positions, sentiment : Sentiments]
  <2>1. k \in 1 .. Len(log) /\ log \in Seq(Entry)
      BY <1>3 DEF IInv, Types
  <2>2. \A e \in Entry : e.card \in Positions
      OBVIOUS
  <2> HIDE DEF k, Entry
  <2>3. log[k] \in Entry
      BY <2>1
  <2>4. log[k].card \in Positions
      BY <2>2, <2>3
  <2> QED BY <2>4 DEF k
<1>5. log[decision[Fingerprint[i]]].card = i
    BY <1>1, <1>3, <1>4 DEF FingerprintsDiffer
<1> QED BY <1>3, <1>5 DEF Seen

LEMMA DeckPageSeen ==
    ASSUME IInv, Sent, Seen, FingerprintsDiffer, NEW t \in Tabs, DeckPage(t)
    PROVE  Sent' /\ Seen'
<1>1. PICK table \in {decision, [f \in Fingerprints |-> 0]} :
         /\ tab' = [tab EXCEPT ![t] =
                [Closed EXCEPT !.open = TRUE, !.index = resumeState(table),
                               !.rendered = resumeState(table), !.up = Tally(table, "up"),
                               !.down = Tally(table, "down"), !.answered = Decided(table)]]
         /\ seen' = seen \cup ({resumeState(table)} \cap Positions)
    BY DEF DeckPage
<1>2. tab'[t].rendered = resumeState(table) /\ tab'[t].outbox = << >>
    BY <1>1 DEF IInv, Types, TabStates, Closed
<1>3. \A u \in Tabs : u # t => tab'[u] = tab[u]
    BY <1>1 DEF IInv, Types
<1>4. UNCHANGED <<log, requests, decision>> /\ seen \subseteq seen'
    BY <1>1 DEF DeckPage, server
<1>5. Sent'
    BY <1>2, <1>3, <1>4 DEF Sent
<1>6. ASSUME NEW i \in Positions, i <= resumeState(table) PROVE i \in seen'
  <2>1. i \in Nat /\ resumeState(table) \in Nat
      BY ResumeState, DeckAssumption DEF Positions
  <2>2. CASE i = resumeState(table)
      BY <1>1, <2>2
  <2>3. CASE i < resumeState(table)
      BY <1>1, <2>3, ResumeState, DecidedSeen
  <2> QED BY <1>6, <2>1, <2>2, <2>3
<1> QED BY <1>2, <1>3, <1>4, <1>5, <1>6 DEF Seen, FingerprintOf

LEMMA CommitSeen ==
    ASSUME IInv, Sent, Seen, NEW t \in Tabs, NEW sentiment \in Sentiments, commit(t, sentiment)
    PROVE  Sent' /\ Seen'
<1> DEFINE s == tab[t]
           taken == [s EXCEPT !.outbox = Append(@, Len(log) + 1),
                              !.up = IF sentiment = "up" THEN @ + 1 ELSE @,
                              !.down = IF sentiment = "down" THEN @ + 1 ELSE @,
                              !.answered = @ \cup {s.rendered},
                              !.committing = TRUE, !.timer = TRUE]
           next == Rendered(IF t \in ReducedMotion THEN Advanced(taken) ELSE taken)
<1>1. /\ s \in TabStates /\ tab \in [Tabs -> TabStates] /\ InStep(t)
      /\ log \in Seq([card : Positions, sentiment : Sentiments]) /\ Len(log) \in Nat
    BY DEF IInv, Types, TabStates, Motion
<1>2. /\ s.open /\ s.rendered <= Total
      /\ log' = Append(log, [card |-> s.rendered, sentiment |-> sentiment])
      /\ tab' = [tab EXCEPT ![t] = next]
      /\ seen' = seen \cup ({next.rendered} \cap Positions)
      /\ UNCHANGED <<requests, decision>>
    BY DEF commit, CanCommit, server
<1>3. /\ s.rendered \in Nat /\ s.index \in Nat /\ s.rendered \in Positions
      /\ s.index \in {s.rendered, s.rendered + 1} /\ s.outbox \in Seq(Swipes)
      /\ t \in ReducedMotion => s.index = s.rendered
    BY <1>1, <1>2, DeckAssumption DEF TabStates, InStep, Positions
<1>4. /\ next.outbox = Append(s.outbox, Len(log) + 1)
      /\ next.rendered \in {s.rendered, s.rendered + 1}
  <2>1. /\ taken.outbox = Append(s.outbox, Len(log) + 1) /\ taken.index = s.index
        /\ Rendered(taken).outbox = taken.outbox /\ Rendered(taken).rendered = s.index
        /\ Rendered(Advanced(taken)).outbox = taken.outbox
        /\ Rendered(Advanced(taken)).rendered = s.index + 1
      BY <1>1 DEF TabStates, Rendered, Advanced
  <2> HIDE DEF taken
  <2>2. CASE t \in ReducedMotion
    <3>1. next = Rendered(Advanced(taken))
        BY <2>2
    <3> QED BY <1>3, <2>1, <2>2, <3>1
  <2>3. CASE t \notin ReducedMotion
    <3>1. next = Rendered(taken)
        BY <2>3
    <3> QED BY <1>3, <2>1, <3>1
  <2> QED BY <2>2, <2>3
<1> HIDE DEF next
<1>5. tab'[t] = next /\ \A u \in Tabs : u # t => tab'[u] = tab[u]
    BY <1>1, <1>2
<1>6. /\ Len(log') = Len(log) + 1 /\ log'[Len(log) + 1].card = s.rendered
      /\ \A k \in 1 .. Len(log) : log'[k] = log[k] /\ k \in 1 .. Len(log')
  <2>1. [card |-> s.rendered, sentiment |-> sentiment] \in [card : Positions, sentiment : Sentiments]
      BY <1>3
  <2> QED BY <1>1, <1>2, <2>1
<1>7. \A k \in 1 .. Len(next.outbox) : next.outbox[k] \in 1 .. Len(log')
  <2> SUFFICES ASSUME NEW k \in 1 .. Len(next.outbox) PROVE next.outbox[k] \in 1 .. Len(log')
      OBVIOUS
  <2>1. Len(s.outbox) \in Nat /\ Len(next.outbox) = Len(s.outbox) + 1
      BY <1>3, <1>4
  <2>2. CASE k = Len(s.outbox) + 1
      BY <1>1, <1>3, <1>4, <1>6, <2>2
  <2>3. CASE k \in 1 .. Len(s.outbox)
    <3>1. next.outbox[k] = s.outbox[k]
        BY <1>3, <1>4, <2>3
    <3> QED BY <1>6, <2>3, <3>1 DEF Sent
  <2> QED BY <2>1, <2>2, <2>3
<1>8. Sent'
    BY <1>2, <1>5, <1>6, <1>7 DEF Sent
<1>9. s.rendered \in seen /\ \A i \in Positions : i <= s.rendered => i \in seen
    BY <1>2, <1>3 DEF Seen
<1>10. \A i \in Positions : i <= next.rendered => i \in seen'
  <2> SUFFICES ASSUME NEW i \in Positions, i <= next.rendered PROVE i \in seen'
      OBVIOUS
  <2>1. i \in Nat /\ i <= next.rendered
      BY DeckAssumption DEF Positions
  <2> HIDE DEF s
  <2>2. i <= s.rendered \/ i = next.rendered
      BY <1>3, <1>4, <2>1
  <2> QED BY <1>2, <1>9, <2>2
<1>11. \A k \in 1 .. Len(log') : log'[k].card \in seen'
    BY <1>1, <1>2, <1>6, <1>9 DEF Seen
<1>12. \A f \in Fingerprints :
          decision'[f] # 0 => decision'[f] \in 1 .. Len(log') /\ FingerprintOf(decision[f])' = f
    BY <1>2, <1>6 DEF Seen, FingerprintOf
<1> QED BY <1>2, <1>5, <1>8, <1>10, <1>11, <1>12 DEF Seen

LEMMA TabMovesSeen ==
    ASSUME IInv, Sent, Seen, NEW t \in Tabs, advance(t) \/ Render(t) \/ Send(t)
    PROVE  Sent' /\ Seen'
<1> DEFINE s == tab[t]
<1>1. /\ s \in TabStates /\ tab \in [Tabs -> TabStates] /\ InStep(t)
      /\ s.index \in Nat /\ s.rendered \in Nat /\ s.outbox \in Seq(Swipes)
    BY DEF IInv, Types, TabStates, Motion
<1>2. CASE advance(t)
  <2>1. /\ \A u \in Tabs : /\ tab'[u].outbox = tab[u].outbox /\ tab'[u].open = tab[u].open
                           /\ tab'[u].rendered = tab[u].rendered
        /\ UNCHANGED <<log, requests, decision, seen>>
      BY <1>1, <1>2 DEF advance, server, Advanced, TabStates
  <2> QED BY <2>1 DEF Sent, Seen, FingerprintOf
<1>3. CASE Render(t)
  <2>1. /\ \A u \in Tabs : /\ tab'[u].outbox = tab[u].outbox /\ tab'[u].open = tab[u].open
                           /\ u # t => tab'[u].rendered = tab[u].rendered
        /\ tab'[t].rendered = s.index
        /\ seen' = seen \cup ({s.index} \cap Positions)
        /\ UNCHANGED <<log, requests, decision>>
      BY <1>1, <1>3 DEF Render, server, Rendered, TabStates
  <2>2. ASSUME tab[t].open, NEW i \in Positions, i <= s.index PROVE i \in seen'
    <3>1. i \in Nat /\ s.index \in {s.rendered, s.rendered + 1}
        BY <1>1, DeckAssumption DEF Positions, InStep
    <3>2. i <= s.rendered \/ i = s.index
        BY <1>1, <2>2, <3>1
    <3> QED BY <2>1, <2>2, <3>2 DEF Seen
  <2> QED BY <2>1, <2>2 DEF Sent, Seen, FingerprintOf
<1>4. CASE Send(t)
  <2>1. /\ tab' = [tab EXCEPT ![t].sending = Head(s.outbox), ![t].outbox = Tail(s.outbox)]
        /\ requests' = requests \cup {[swipe |-> Head(s.outbox), stage |-> "reaction"]}
        /\ s.outbox # << >> /\ UNCHANGED <<log, decision, seen>>
      BY <1>1, <1>4 DEF Send, TabStates
  <2>2. /\ tab'[t].outbox = Tail(s.outbox) /\ tab'[t].open = s.open /\ tab'[t].rendered = s.rendered
        /\ \A u \in Tabs : u # t => tab'[u] = tab[u]
      BY <1>1, <2>1 DEF TabStates
  <2>3. /\ Head(s.outbox) \in 1 .. Len(log)
        /\ \A k \in 1 .. Len(Tail(s.outbox)) : Tail(s.outbox)[k] \in 1 .. Len(log)
    <3>1. \A k \in 1 .. Len(s.outbox) : s.outbox[k] \in 1 .. Len(log)
        BY DEF Sent
    <3>2. /\ Head(s.outbox) = s.outbox[1] /\ Len(s.outbox) \in Nat \ {0}
          /\ Len(Tail(s.outbox)) = Len(s.outbox) - 1
          /\ \A k \in 1 .. Len(Tail(s.outbox)) : Tail(s.outbox)[k] = s.outbox[k + 1]
        BY <1>1, <2>1
    <3> QED BY <3>1, <3>2
  <2>4. Sent'
    <3>1. \A u \in Tabs : \A k \in 1 .. Len(tab'[u].outbox) : tab'[u].outbox[k] \in 1 .. Len(log')
      <4> SUFFICES ASSUME NEW u \in Tabs PROVE \A k \in 1 .. Len(tab'[u].outbox) :
                                                  tab'[u].outbox[k] \in 1 .. Len(log')
          OBVIOUS
      <4>1. CASE u = t
          BY <2>1, <2>2, <2>3, <4>1
      <4>2. CASE u # t
          BY <2>1, <2>2, <4>2 DEF Sent
      <4> QED BY <4>1, <4>2
    <3>2. \A r \in requests' : r.swipe \in 1 .. Len(log')
        BY <2>1, <2>3 DEF Sent
    <3> QED BY <3>1, <3>2 DEF Sent
  <2> QED BY <2>1, <2>2, <2>4 DEF Seen, FingerprintOf
<1> QED BY <1>2, <1>3, <1>4

LEMMA ServerSeen ==
    ASSUME IInv, Sent, Seen, NEW r \in requests,
           AppendReaction(r) \/ UpsertDecision(r) \/ AnswerLost(r) \/ WriteLost(r)
    PROVE  Sent' /\ Seen'
<1>1. r.swipe \in 1 .. Len(log) /\ r \in [swipe : Swipes, stage : Stages]
    BY DEF Sent, IInv, Types
<1>2. UNCHANGED <<log, seen>>
    BY DEF AppendReaction, UpsertDecision, AnswerLost, WriteLost, server
<1>3. \A t \in Tabs : /\ tab'[t].outbox = tab[t].outbox /\ tab'[t].open = tab[t].open
                      /\ tab'[t].rendered = tab[t].rendered
  <2> SUFFICES ASSUME NEW t \in Tabs
               PROVE  /\ tab'[t].outbox = tab[t].outbox /\ tab'[t].open = tab[t].open
                      /\ tab'[t].rendered = tab[t].rendered
      OBVIOUS
  <2>1. tab[t] \in TabStates
      BY DEF IInv, Types, TabStates
  <2>2. tab'[t] \in {tab[t], [tab[t] EXCEPT !.sending = 0]}
      BY DEF AppendReaction, UpsertDecision, AnswerLost, WriteLost, Answered
  <2> QED BY <2>1, <2>2 DEF TabStates
<1>4. \A q \in requests' : q.swipe \in 1 .. Len(log)
  <2>1. \A q \in requests' : q \in requests \/ q = [r EXCEPT !.stage = "decision"]
      BY DEF AppendReaction, UpsertDecision, AnswerLost, WriteLost, server
  <2>2. [r EXCEPT !.stage = "decision"].swipe = r.swipe
      BY <1>1
  <2> QED BY <1>1, <2>1, <2>2 DEF Sent
<1>5. Sent'
    BY <1>2, <1>3, <1>4 DEF Sent
<1>6. \A f \in Fingerprints :
         decision'[f] # decision[f] => decision'[f] = r.swipe /\ FingerprintOf(r.swipe) = f
    BY DEF AppendReaction, UpsertDecision, AnswerLost, WriteLost, recordDecision, server, IInv, Types
<1>7. \A f \in Fingerprints :
         decision'[f] # 0 => decision'[f] \in 1 .. Len(log) /\ FingerprintOf(decision'[f]) = f
    BY <1>1, <1>6 DEF Seen
<1> QED BY <1>2, <1>3, <1>5, <1>7 DEF Seen, FingerprintOf

LEMMA SeenKeeps ==
    ASSUME IInv, Sent, Seen, FingerprintsDiffer, [Next]_vars PROVE Sent' /\ Seen'
<1>1. CASE Next
    BY <1>1, DeckPageSeen, CommitSeen, TabMovesSeen, ServerSeen DEF Next
<1>2. CASE UNCHANGED vars
    BY <1>2 DEF vars, server, Sent, Seen, FingerprintOf
<1> QED BY <1>1, <1>2

LEMMA DoneIsSeen == IInv /\ Seen => DoneMeansSeen
<1> SUFFICES ASSUME IInv, Seen, NEW t \in Tabs, tab[t].rendered > Total, NEW i \in Positions
             PROVE  i \in seen
    BY DEF DoneMeansSeen, IInv, Types
<1>1. i \in 1 .. Total /\ tab[t].rendered \in Nat \ {0} /\ InStep(t)
    BY DEF Positions, IInv, Types, TabStates, Motion
<1>2. tab[t].open
    BY <1>1, DeckAssumption DEF InStep
<1> QED BY <1>1, <1>2, DeckAssumption DEF Seen

\* Whoever sees "done" has seen every card, in whatever tab and load, when no
\* two cards share a fingerprint (DeckDone, resumeState).
THEOREM DoneIsHonest ==
    ASSUME FingerprintsDiffer
    PROVE  Spec => []DoneMeansSeen
<1>1. Init => Sent /\ Seen
    BY InitSeen
<1>2. IInv /\ Sent /\ Seen /\ [Next]_vars => Sent' /\ Seen'
    BY SeenKeeps
<1>3. IInv /\ Seen => DoneMeansSeen
    BY DoneIsSeen
<1> QED BY <1>1, <1>2, <1>3, Inductive, PTL DEF Spec

-----------------------------------------------------------------------------
(* Resuming exactly, when no two cards share a fingerprint.  As long as no *)
(* card was swiped twice, the cards were swiped in the order of the deck,  *)
(* by all tabs together, and a tab that fell behind another one is where   *)
(* it was: its position and tally are those of the cards it knows of.      *)

NoCardTwice == \A i, j \in 1 .. Len(log) : log[i].card = log[j].card => i = j

\* The cards that tab t knows a swipe of, by sentiment.
Given(t, sentiment) == {i \in tab[t].answered : log[i].sentiment = sentiment}

OnTrack(t) ==
    /\ PassedOnlyAnswered(t)
    /\ tab[t].answered \subseteq 1 .. Len(log) /\ tab[t].index <= Total + 1
    /\ tab[t].timer => tab[t].index \in tab[t].answered /\ tab[t].index + 1 \notin tab[t].answered
    /\ tab[t].timer \/ tab[t].index \notin tab[t].answered
    /\ tab[t].rendered = tab[t].index \/ tab[t].rendered \in tab[t].answered
    /\ tab[t].up = Cardinality(Given(t, "up"))
    /\ tab[t].down = Cardinality(Given(t, "down"))

InOrder == \A k \in 1 .. Len(log) : log[k].card = k

Tidy == NoCardTwice => InOrder /\ \A t \in Tabs : OnTrack(t)

LEMMA NoneGiven ==
    ASSUME NEW t \in Tabs, tab[t].answered = {}
    PROVE  Cardinality(Given(t, "up")) = 0 /\ Cardinality(Given(t, "down")) = 0
    BY FS_EmptySet DEF Given

LEMMA InitTidy == ASSUME Init PROVE Tidy
<1>1. log = << >> /\ \A t \in Tabs : tab[t] = Closed
    BY DEF Init
<1>2. ASSUME NEW t \in Tabs PROVE OnTrack(t)
  <2>1. Cardinality(Given(t, "up")) = 0 /\ Cardinality(Given(t, "down")) = 0
      BY <1>1, NoneGiven DEF Closed
  <2>2. PassedOnlyAnswered(t)
      BY <1>1, DeckAssumption DEF PassedOnlyAnswered, Closed, Positions
  <2> QED BY <1>1, <2>1, <2>2, DeckAssumption DEF OnTrack, Closed
<1> QED BY <1>1, <1>2 DEF Tidy, InOrder

\* What a tab knows stays true when only its outbox and its request change, or
\* another tab moves.
LEMMA TrackStays ==
    ASSUME NEW t \in Tabs, OnTrack(t), UNCHANGED log,
           /\ tab'[t].answered = tab[t].answered /\ tab'[t].index = tab[t].index
           /\ tab'[t].timer = tab[t].timer /\ tab'[t].up = tab[t].up /\ tab'[t].down = tab[t].down,
           tab'[t].rendered \in {tab[t].rendered, tab[t].index}
    PROVE  OnTrack(t)'
    BY DEF OnTrack, PassedOnlyAnswered, Given

\* In a tidy log a stored decision of a card is the swipe of its place.
LEMMA DecidedInOrder ==
    ASSUME IInv, Seen, FingerprintsDiffer, InOrder,
           NEW table \in {decision, [f \in Fingerprints |-> 0]}, NEW i \in Decided(table)
    PROVE  i \in 1 .. Len(log) /\ table[Fingerprint[i]] = i
<1>1. i \in Positions /\ Fingerprint[i] \in Fingerprints /\ table[Fingerprint[i]] # 0
    BY DEF Decided, Fingerprints
<1>2. table = decision
    BY <1>1
<1>3. /\ decision[Fingerprint[i]] \in 1 .. Len(log)
      /\ Fingerprint[log[decision[Fingerprint[i]]].card] = Fingerprint[i]
    BY <1>1, <1>2 DEF Seen, FingerprintOf
<1> DEFINE k == decision[Fingerprint[i]]
           Entry == [card : Positions, sentiment : Sentiments]
<1>4. k \in 1 .. Len(log) /\ log \in Seq(Entry)
    BY <1>3 DEF IInv, Types
<1>5. \A e \in Entry : e.card \in Positions
    OBVIOUS
<1>6. log[k].card = k /\ Fingerprint[log[k].card] = Fingerprint[i]
    BY <1>3 DEF InOrder
<1> HIDE DEF k, Entry
<1>7. log[k] \in Entry
    BY <1>4
<1>8. k = i
    BY <1>1, <1>5, <1>6, <1>7 DEF FingerprintsDiffer
<1> QED BY <1>2, <1>4, <1>8 DEF k

\* Resuming is at the first card that is not decided.
LEMMA ResumeUndecided == ASSUME NEW table PROVE resumeState(table) \notin Decided(table)
<1> DEFINE S == (Positions \ Decided(table)) \cup {Total + 1}
<1>1. S \in SUBSET Nat /\ S # {} /\ Total + 1 \notin Decided(table)
    BY DeckAssumption DEF Positions, Decided
<1>2. resumeState(table) = Min(S)
    BY DEF resumeState
<1>3. \A x \in S : x \notin Decided(table)
    BY <1>1
<1> HIDE DEF S
<1>4. Min(S) \in S
    BY <1>1, LeastPlace
<1> QED BY <1>2, <1>3, <1>4

LEMMA DeckPageTidy ==
    ASSUME IInv, Sent, Seen, Tidy, FingerprintsDiffer, NEW t \in Tabs, DeckPage(t)
    PROVE  Tidy'
<1>1. PICK table \in {decision, [f \in Fingerprints |-> 0]} :
         tab' = [tab EXCEPT ![t] =
                [Closed EXCEPT !.open = TRUE, !.index = resumeState(table),
                               !.rendered = resumeState(table), !.up = Tally(table, "up"),
                               !.down = Tally(table, "down"), !.answered = Decided(table)]]
    BY DEF DeckPage
<1>2. /\ tab'[t].rendered = resumeState(table) /\ tab'[t].index = resumeState(table)
      /\ tab'[t].up = Tally(table, "up") /\ tab'[t].down = Tally(table, "down")
      /\ tab'[t].answered = Decided(table) /\ ~tab'[t].timer
    BY <1>1 DEF IInv, Types, TabStates, Closed
<1>3. UNCHANGED log /\ \A u \in Tabs : u # t => tab'[u] = tab[u]
    BY <1>1 DEF DeckPage, IInv, Types
<1> SUFFICES ASSUME NoCardTwice, InOrder, \A u \in Tabs : OnTrack(u)
             PROVE  \A u \in Tabs : OnTrack(u)'
    BY <1>3 DEF Tidy, NoCardTwice, InOrder
<1>4. \A i \in Decided(table) : i \in 1 .. Len(log) /\ table[Fingerprint[i]] = i
    BY DecidedInOrder
<1>5. Given(t, "up")' = {i \in Decided(table) : log[table[Fingerprint[i]]].sentiment = "up"}
    BY <1>2, <1>3, <1>4 DEF Given
<1>6. Given(t, "down")' = {i \in Decided(table) : log[table[Fingerprint[i]]].sentiment = "down"}
    BY <1>2, <1>3, <1>4 DEF Given
<1>7. tab'[t].up = Cardinality(Given(t, "up")') /\ tab'[t].down = Cardinality(Given(t, "down")')
    BY <1>2, <1>5, <1>6 DEF Tally
<1>8. resumeState(table) <= Total + 1 /\ PassedOnlyAnswered(t)'
    BY <1>2, ResumeState, DeckAssumption DEF PassedOnlyAnswered
<1>9. tab'[t].answered \subseteq 1 .. Len(log')
    BY <1>2, <1>3, <1>4
<1>10. OnTrack(t)'
    BY <1>2, <1>7, <1>8, <1>9, ResumeUndecided DEF OnTrack
<1>11. ASSUME NEW u \in Tabs, u # t PROVE OnTrack(u)'
    BY <1>3, <1>11, TrackStays
<1> QED BY <1>10, <1>11

\* A swipe that is no second one is of the first card nobody swiped.
LEMMA NextInOrder ==
    ASSUME IInv, Tidy, NEW t \in Tabs, NEW sentiment \in Sentiments, commit(t, sentiment),
           NoCardTwice'
    PROVE  /\ NoCardTwice /\ InOrder /\ InOrder' /\ \A u \in Tabs : OnTrack(u)
           /\ tab[t].rendered = Len(log) + 1 /\ tab[t].index = tab[t].rendered
           /\ tab[t].rendered \notin tab[t].answered
           /\ Len(log') = Len(log) + 1 /\ log'[Len(log) + 1].sentiment = sentiment
           /\ \A k \in 1 .. Len(log) : log'[k] = log[k]
<1> DEFINE r == tab[t].rendered
           Entry == [card : Positions, sentiment : Sentiments]
<1>1. /\ tab[t] \in TabStates /\ r \in Nat \ {0} /\ r <= Total /\ r \in Positions
      /\ log \in Seq(Entry) /\ log' = Append(log, [card |-> r, sentiment |-> sentiment])
      /\ Len(log) \in Nat /\ InStep(t)
    BY DeckAssumption DEF commit, CanCommit, IInv, Types, TabStates, Positions, Motion
<1> HIDE DEF r
<1>2. /\ Len(log') = Len(log) + 1 /\ log'[Len(log) + 1].card = r
      /\ log'[Len(log) + 1].sentiment = sentiment /\ \A k \in 1 .. Len(log) : log'[k] = log[k]
    BY <1>1
<1>3. NoCardTwice
    BY <1>1, <1>2 DEF NoCardTwice
<1>4. InOrder /\ \A u \in Tabs : OnTrack(u)
    BY <1>3 DEF Tidy
<1>5. r \notin 1 .. Len(log)
  <2> SUFFICES ASSUME r \in 1 .. Len(log) PROVE FALSE
      OBVIOUS
  <2>1. log'[r].card = r /\ r # Len(log) + 1 /\ r \in 1 .. Len(log') /\ Len(log) + 1 \in 1 .. Len(log')
      BY <1>1, <1>2, <1>4 DEF InOrder
  <2> QED BY <1>2, <2>1 DEF NoCardTwice
<1>6. r \notin tab[t].answered /\ tab[t].index = r
    BY <1>4, <1>5 DEF OnTrack, r
<1>7. r = Len(log) + 1
  <2>1. CASE r = 1
      BY <1>1, <1>5, <2>1
  <2>2. CASE r > 1
    <3>1. r - 1 \in Positions /\ r - 1 < tab[t].index
        BY <1>1, <1>6, <2>2, DeckAssumption DEF Positions
    <3>2. r - 1 \in 1 .. Len(log)
        BY <1>4, <3>1 DEF OnTrack, PassedOnlyAnswered
    <3> QED BY <1>1, <1>5, <3>2
  <2> QED BY <1>1, <2>1, <2>2
<1>8. InOrder'
  <2> SUFFICES ASSUME NEW k \in 1 .. Len(log') PROVE log'[k].card = k
      BY DEF InOrder
  <2>1. k \in 1 .. Len(log) \/ k = Len(log) + 1
      BY <1>1, <1>2
  <2> QED BY <1>2, <1>4, <1>7, <2>1 DEF InOrder
<1> QED BY <1>2, <1>3, <1>4, <1>6, <1>7, <1>8 DEF r

\* The swipe of one more card counts once, on its side.
LEMMA OneMoreGiven ==
    ASSUME NEW S \in SUBSET Positions, NEW r \in Positions, r \notin S,
           NEW Old, NEW New, Old \subseteq S, New = Old \cup {r} \/ New = Old
    PROVE  /\ Cardinality(Old) \in Nat
           /\ New = Old \cup {r} => Cardinality(New) = Cardinality(Old) + 1
<1>1. IsFiniteSet(Positions)
    BY DeckAssumption, FS_Interval DEF Positions
<1>2. IsFiniteSet(Old) /\ r \notin Old
    BY <1>1, FS_Subset
<1> QED BY <1>2, FS_AddElement, FS_CardinalityType

LEMMA CommitTidy ==
    ASSUME IInv, Tidy, NEW t \in Tabs, NEW sentiment \in Sentiments, commit(t, sentiment)
    PROVE  Tidy'
<1> SUFFICES ASSUME NoCardTwice' PROVE InOrder' /\ \A u \in Tabs : OnTrack(u)'
    BY DEF Tidy
<1> DEFINE s == tab[t]
           n == Len(log) + 1
           taken == [s EXCEPT !.outbox = Append(@, Len(log) + 1),
                              !.up = IF sentiment = "up" THEN @ + 1 ELSE @,
                              !.down = IF sentiment = "down" THEN @ + 1 ELSE @,
                              !.answered = @ \cup {s.rendered},
                              !.committing = TRUE, !.timer = TRUE]
           next == Rendered(IF t \in ReducedMotion THEN Advanced(taken) ELSE taken)
<1>1. /\ InOrder' /\ OnTrack(t) /\ \A u \in Tabs : OnTrack(u)
      /\ s.rendered = n /\ s.index = n /\ n \notin s.answered /\ Len(log') = n
      /\ log'[n].sentiment = sentiment /\ \A k \in 1 .. Len(log) : log'[k] = log[k]
    BY NextInOrder
<1>2. /\ s \in TabStates /\ tab \in [Tabs -> TabStates] /\ Len(log) \in Nat
      /\ s.up \in Nat /\ s.down \in Nat /\ s.index \in Nat
      /\ s.answered \in SUBSET Positions
      /\ log \in Seq([card : Positions, sentiment : Sentiments])
    BY DEF IInv, Types, TabStates
<1>3. /\ s.rendered <= Total /\ tab' = [tab EXCEPT ![t] = next]
    BY DEF commit, CanCommit
<1>4. n \in Positions
    BY <1>1, <1>2, <1>3, DeckAssumption DEF Positions
<1>5. /\ next.answered = s.answered \cup {n} /\ next.rendered = next.index
      /\ sentiment = "up" => next.up = s.up + 1 /\ next.down = s.down
      /\ sentiment = "down" => next.up = s.up /\ next.down = s.down + 1
      /\ next.timer => next.index = n
      /\ ~next.timer => next.index = n + 1
  <2>1. /\ taken.index = s.index /\ taken.answered = s.answered \cup {s.rendered} /\ taken.timer
        /\ sentiment = "up" => taken.up = s.up + 1 /\ taken.down = s.down
        /\ sentiment = "down" => taken.up = s.up /\ taken.down = s.down + 1
      BY <1>2 DEF TabStates
  <2>2. /\ Rendered(taken).index = taken.index /\ Rendered(taken).rendered = taken.index
        /\ Rendered(taken).answered = taken.answered /\ Rendered(taken).timer = taken.timer
        /\ Rendered(taken).up = taken.up /\ Rendered(taken).down = taken.down
      BY <1>2 DEF TabStates, Rendered
  <2>3. /\ Rendered(Advanced(taken)).index = taken.index + 1
        /\ Rendered(Advanced(taken)).rendered = taken.index + 1
        /\ Rendered(Advanced(taken)).answered = taken.answered /\ ~Rendered(Advanced(taken)).timer
        /\ Rendered(Advanced(taken)).up = taken.up /\ Rendered(Advanced(taken)).down = taken.down
      BY <1>2 DEF TabStates, Rendered, Advanced
  <2> HIDE DEF taken
  <2>4. CASE t \in ReducedMotion
    <3>1. next = Rendered(Advanced(taken))
        BY <2>4
    <3> HIDE DEF next, s, n
    <3> QED BY <1>1, <2>1, <2>3, <3>1
  <2>5. CASE t \notin ReducedMotion
    <3>1. next = Rendered(taken)
        BY <2>5
    <3> HIDE DEF next, s, n
    <3> QED BY <1>1, <2>1, <2>2, <3>1
  <2> QED BY <2>4, <2>5
<1> HIDE DEF next, taken
<1>6. tab'[t] = next /\ \A u \in Tabs : u # t => tab'[u] = tab[u]
    BY <1>2, <1>3
<1>7. \A u \in Tabs : \A i \in tab[u].answered :
         i \in 1 .. Len(log) /\ log'[i].sentiment = log[i].sentiment
    BY <1>1 DEF OnTrack
<1>8. ASSUME NEW u \in Tabs, u # t PROVE OnTrack(u)'
  <2>1. OnTrack(u) /\ tab'[u] = tab[u] /\ tab[u].answered \subseteq 1 .. Len(log')
      BY <1>1, <1>2, <1>6, <1>8 DEF OnTrack
  <2>2. \A side \in Sentiments : Given(u, side)' = Given(u, side)
      BY <1>7, <2>1 DEF Given
  <2>3. Given(u, "up")' = Given(u, "up") /\ Given(u, "down")' = Given(u, "down")
      BY <2>2 DEF Sentiments
  <2> QED BY <2>1, <2>3 DEF OnTrack, PassedOnlyAnswered
<1>9. \A side \in Sentiments :
         /\ Given(t, side) \subseteq s.answered
         /\ side = sentiment => Given(t, side)' = Given(t, side) \cup {n}
         /\ side # sentiment => Given(t, side)' = Given(t, side)
    BY <1>1, <1>5, <1>6, <1>7 DEF Given
<1>10. \A side \in Sentiments :
         /\ Cardinality(Given(t, side)) \in Nat
         /\ side = sentiment => Cardinality(Given(t, side)') = Cardinality(Given(t, side)) + 1
    BY <1>1, <1>2, <1>4, <1>9, OneMoreGiven
<1>11. next.up = Cardinality(Given(t, "up")') /\ next.down = Cardinality(Given(t, "down")')
  <2>1. s.up = Cardinality(Given(t, "up")) /\ s.down = Cardinality(Given(t, "down"))
      BY <1>1 DEF OnTrack
  <2>2. CASE sentiment = "up"
      BY <1>5, <1>9, <1>10, <2>1, <2>2 DEF Sentiments
  <2>3. CASE sentiment = "down"
      BY <1>5, <1>9, <1>10, <2>1, <2>3 DEF Sentiments
  <2> QED BY <2>2, <2>3 DEF Sentiments
<1>12. s.answered \subseteq 1 .. Len(log) /\ \A i \in Positions : i < n => i \in s.answered
    BY <1>1 DEF OnTrack, PassedOnlyAnswered
<1>13. /\ next.answered \subseteq 1 .. Len(log') /\ n + 1 \notin next.answered /\ n \in next.answered
    BY <1>1, <1>2, <1>5, <1>12
<1>14. next.index <= Total + 1 /\ \A i \in Positions : i < next.index => i \in next.answered
  <2>1. n \in Nat /\ n <= Total /\ \A i \in Positions : i \in Nat
      BY <1>4, DeckAssumption DEF Positions
  <2> HIDE DEF s, n
  <2> QED BY <1>5, <1>12, <2>1, DeckAssumption
<1>15. OnTrack(t)'
  <2> HIDE DEF s, n
  <2> QED BY <1>5, <1>6, <1>11, <1>13, <1>14 DEF OnTrack, PassedOnlyAnswered
<1> QED BY <1>1, <1>8, <1>15

LEMMA TabMovesTidy ==
    ASSUME IInv, Tidy, NEW t \in Tabs, advance(t) \/ Render(t) \/ Send(t)
    PROVE  Tidy'
<1> DEFINE s == tab[t]
<1>1. /\ s \in TabStates /\ tab \in [Tabs -> TabStates] /\ InStep(t)
      /\ s.index \in Nat /\ s.rendered \in Nat
    BY DEF IInv, Types, TabStates, Motion
<1>2. UNCHANGED log
    BY DEF advance, Render, Send
<1> SUFFICES ASSUME \A u \in Tabs : OnTrack(u) PROVE \A u \in Tabs : OnTrack(u)'
    BY <1>2 DEF Tidy, NoCardTwice, InOrder
<1>3. \A u \in Tabs : u # t => tab'[u] = tab[u]
    BY <1>1 DEF advance, Render, Send
<1>4. CASE advance(t)
  <2>1. /\ s.timer /\ tab'[t].index = s.index + 1 /\ tab'[t].rendered = s.rendered
        /\ tab'[t].answered = s.answered /\ ~tab'[t].timer
        /\ tab'[t].up = s.up /\ tab'[t].down = s.down
      BY <1>1, <1>4 DEF advance, Advanced, TabStates
  <2>2. /\ s.index \in s.answered /\ s.index + 1 \notin s.answered /\ s.rendered = s.index
        /\ s.answered \subseteq Positions /\ \A i \in Positions : i < s.index => i \in s.answered
      BY <1>1, <2>1 DEF OnTrack, InStep, PassedOnlyAnswered, TabStates
  <2>3. s.index + 1 <= Total + 1 /\ \A i \in Positions : i < s.index + 1 => i \in s.answered
    <3>1. s.index <= Total /\ \A i \in Positions : i \in Nat
        BY <2>2, DeckAssumption DEF Positions
    <3> HIDE DEF s
    <3> QED BY <1>1, <2>2, <3>1, DeckAssumption
  <2>4. Given(t, "up")' = Given(t, "up") /\ Given(t, "down")' = Given(t, "down")
      BY <1>2, <2>1 DEF Given
  <2>5. OnTrack(t)'
      BY <1>2, <2>1, <2>2, <2>3, <2>4 DEF OnTrack, PassedOnlyAnswered
  <2>6. ASSUME NEW u \in Tabs, u # t PROVE OnTrack(u)'
      BY <1>2, <1>3, <2>6, TrackStays
  <2> QED BY <2>5, <2>6
<1>5. CASE Render(t) \/ Send(t)
  <2>1. /\ tab'[t].answered = s.answered /\ tab'[t].index = s.index
        /\ tab'[t].timer = s.timer /\ tab'[t].up = s.up /\ tab'[t].down = s.down
        /\ tab'[t].rendered \in {s.rendered, s.index}
      BY <1>1, <1>5 DEF Render, Send, Rendered, TabStates
  <2> QED BY <1>2, <1>3, <2>1, TrackStays
<1> QED BY <1>4, <1>5

LEMMA ServerTidy ==
    ASSUME IInv, Tidy, NEW r \in requests,
           AppendReaction(r) \/ UpsertDecision(r) \/ AnswerLost(r) \/ WriteLost(r)
    PROVE  Tidy'
<1>1. UNCHANGED log
    BY DEF AppendReaction, UpsertDecision, AnswerLost, WriteLost, server
<1> SUFFICES ASSUME NEW t \in Tabs, OnTrack(t) PROVE OnTrack(t)'
    BY <1>1 DEF Tidy, NoCardTwice, InOrder
<1>2. tab[t] \in TabStates
    BY DEF IInv, Types, TabStates
<1>3. tab'[t] \in {tab[t], [tab[t] EXCEPT !.sending = 0]}
    BY DEF AppendReaction, UpsertDecision, AnswerLost, WriteLost, Answered
<1>4. /\ tab'[t].answered = tab[t].answered /\ tab'[t].index = tab[t].index
      /\ tab'[t].timer = tab[t].timer /\ tab'[t].up = tab[t].up /\ tab'[t].down = tab[t].down
      /\ tab'[t].rendered = tab[t].rendered
    BY <1>2, <1>3 DEF TabStates
<1> QED BY <1>1, <1>4, TrackStays

LEMMA TidyKeeps ==
    ASSUME IInv, Sent, Seen, Tidy, FingerprintsDiffer, [Next]_vars PROVE Tidy'
<1>1. CASE Next
    BY <1>1, DeckPageTidy, CommitTidy, TabMovesTidy, ServerTidy DEF Next
<1>2. CASE UNCHANGED vars
  <2>1. \A t \in Tabs : OnTrack(t) => OnTrack(t)'
      BY <1>2 DEF vars, OnTrack, PassedOnlyAnswered, Given
  <2> QED BY <1>2, <2>1 DEF vars, Tidy, NoCardTwice, InOrder
<1> QED BY <1>1, <1>2

\* The tallies of the stored decisions are those of a tab that knows them all.
LEMMA TidyIsExact ==
    ASSUME IInv, Seen, Tidy, FingerprintsDiffer PROVE ResumeIsExact
<1> SUFFICES ASSUME NEW t \in Tabs, tab[t].rendered = tab[t].index, ~tab[t].committing,
                    tab[t].answered = Decided(decision),
                    \A i, j \in DOMAIN log : log[i].card = log[j].card => i = j
             PROVE  /\ resumeState(decision) = tab[t].index
                    /\ Tally(decision, "up") = tab[t].up /\ Tally(decision, "down") = tab[t].down
    BY DEF ResumeIsExact
<1>1. /\ tab[t] \in TabStates /\ InStep(t) /\ tab[t].index \in Nat \ {0}
      /\ log \in Seq([card : Positions, sentiment : Sentiments])
    BY DEF IInv, Types, TabStates, Motion
<1>2. InOrder /\ OnTrack(t)
    BY <1>1 DEF Tidy, NoCardTwice
<1>3. ~tab[t].timer /\ tab[t].index \notin Decided(decision) /\ tab[t].index <= Total + 1
    BY <1>1, <1>2 DEF InStep, OnTrack
<1>4. \A i \in Positions : i < tab[t].index => i \in Decided(decision)
    BY <1>2 DEF OnTrack, PassedOnlyAnswered
<1>5. resumeState(decision) = tab[t].index
  <2> DEFINE r == resumeState(decision)
             x == tab[t].index
  <2>1. /\ r \in 1 .. Total + 1 /\ r \notin Decided(decision)
        /\ \A i \in Positions : i < r => i \in Decided(decision)
      BY ResumeState, ResumeUndecided
  <2>2. x \in 1 .. Total + 1 /\ x \notin Decided(decision)
        /\ \A i \in Positions : i < x => i \in Decided(decision)
      BY <1>1, <1>3, <1>4, DeckAssumption
  <2> HIDE DEF r, x
  <2>3. ~(r < x)
      BY <2>1, <2>2, DeckAssumption DEF Positions
  <2>4. ~(x < r)
      BY <2>1, <2>2, DeckAssumption DEF Positions
  <2>5. r = x
      BY <2>1, <2>2, <2>3, <2>4, DeckAssumption
  <2> QED BY <2>5 DEF r, x
<1>6. \A i \in Decided(decision) : decision[Fingerprint[i]] = i
    BY <1>2, DecidedInOrder
<1>7. \A side \in Sentiments :
         {i \in Decided(decision) : log[decision[Fingerprint[i]]].sentiment = side} = Given(t, side)
    BY <1>6 DEF Given
<1>8. Tally(decision, "up") = tab[t].up /\ Tally(decision, "down") = tab[t].down
    BY <1>2, <1>7 DEF Tally, OnTrack, Sentiments
<1> QED BY <1>5, <1>8

\* A new load finds the position and the tally of each tab that knows every
\* stored decision, when no card was swiped twice and no two cards share a
\* fingerprint (recordDecision, resumeState).
THEOREM ResumesExactly ==
    ASSUME FingerprintsDiffer
    PROVE  Spec => []ResumeIsExact
<1>1. Init => Sent /\ Seen /\ Tidy
    BY InitSeen, InitTidy
<1>2. IInv /\ Sent /\ Seen /\ Tidy /\ [Next]_vars => Sent' /\ Seen' /\ Tidy'
    BY SeenKeeps, TidyKeeps
<1>3. IInv /\ Seen /\ Tidy => ResumeIsExact
    BY TidyIsExact
<1> QED BY <1>1, <1>2, <1>3, Inductive, PTL DEF Spec
=============================================================================
