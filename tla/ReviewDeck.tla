----------------------------- MODULE ReviewDeck -----------------------------
(***************************************************************************)
(* What one review run makes of a diff: the model reads the High hunks, or *)
(* its cached review of the same change is reused; the reviews become the  *)
(* findings of the pull request and are folded into one card per hunk; the *)
(* comment lists the top of the ranking.  Runs follow each other over one  *)
(* cache; any of them may fail in the middle of its pass.                  *)
(***************************************************************************)
EXTENDS RiskRanking

CONSTANTS
    MaxRuns,     \* bound: review runs in a behaviour
    Diffs,       \* bound: Diffs[n] is the set of diffs the n-th run may fetch
    MaxListed    \* MAX_LISTED

ASSUME DiffAssumption ==
    /\ MaxRuns \in Nat
    /\ Diffs \in [1 .. MaxRuns -> SUBSET Seq(Hunk)]
    /\ MaxListed \in Nat \ {0}

\* The hunks of a file in a diff do not overlap: no two begin at the same line,
\* neither of the new file, if both add to it, nor of the old one, if none does.
ASSUME AnchorAssumption ==
    \A n \in 1 .. MaxRuns : \A hs \in Diffs[n] : \A i, j \in DOMAIN hs :
        /\ hs[i].file = hs[j].file
        /\ added(hs[i]) > 0 <=> added(hs[j]) > 0
        /\ IF added(hs[i]) > 0 THEN hs[i].newStart = hs[j].newStart
                               ELSE hs[i].oldStart = hs[j].oldStart
        => i = j

\* git prints a note below the last line of a file.
ASSUME NoteAssumption ==
    \A n \in 1 .. MaxRuns : \A hs \in Diffs[n] : \A i \in DOMAIN hs : NotesInPlace(hs[i])

VARIABLES
    runs,        \* runs started so far
    pc,          \* "idle", "review" while the pass runs, "deck" after it
    diff,        \* the diff of the run
    selected,    \* the chunks the pass reviews
    results,     \* the results of the pass so far, one per reviewed chunk
    cache,       \* the fingerprint cache: fingerprint -> review
    findings,    \* the findings table
    deck         \* the deck of the latest run

vars == <<runs, pc, diff, selected, results, cache, findings, deck>>

\* A review tells what it was written about: a file and its changed lines.
NoReview == [file |-> 0, changes |-> << >>]

-----------------------------------------------------------------------------
\* The tier of an anchor in the ranking (of equal anchors, the last one's).
TierOf(ranked, key) ==
    LET same == {k \in DOMAIN ranked : <<ranked[k].file, ranked[k].side, ranked[k].line>> = key}
    IN IF same = {} THEN "Low" ELSE ranked[Max(same)].tier

\* The chunks of a diff in encounter order, `at` their place in the diff.
buildReviewChunks(hs) ==
    LET ranked == rankHunks(hs)
    IN [i \in DOMAIN hs |-> [at |-> i, file |-> hs[i].file, changes |-> hs[i].changes,
                             tier |-> TierOf(ranked, Key(hs[i]))]]

\* Mutant: Medium chunks are reviewed in the place of High ones.
selectMediumChunks(chunks) ==
    Sublist(chunks, {i \in DOMAIN chunks : chunks[i].tier = "Medium"})

\* The margin guard.  No chunk in this repository is openedByReviewer.
selectReviewChunks(chunks) ==
    Sublist(chunks, {i \in DOMAIN chunks : chunks[i].tier = "High"})

\* The finding of each result; its rank is its place in the results.
toFindings(rs) ==
    [k \in DOMAIN rs |-> [fingerprint |-> fingerprintChunk(rs[k].chunk.file, rs[k].chunk.changes),
                          file |-> rs[k].chunk.file, review |-> rs[k].review,
                          at |-> rs[k].chunk.at]]

\* The hunk with an anchor (of equal ones, the last).
hunkByPos(hs, key) == hs[Max({i \in DOMAIN hs : Key(hs[i]) = key})]

\* The review of the finding with a fingerprint (of equal ones, the last).
findingByFingerprint(found, print) ==
    LET match == {f \in DOMAIN found : found[f].fingerprint = print}
    IN IF match = {} THEN NoReview ELSE found[Max(match)].review

CardOf(h, tier, found) ==
    LET print == fingerprintChunk(h.file, h.changes)
    IN [fingerprint |-> print, file |-> h.file, tier |-> tier, side |-> side(h),
        highlights |-> highlightsOf(h), review |-> findingByFingerprint(found, print)]

\* Mutant: the deck keeps the encounter order of the diff.
buildDeckInOrder(hs, found) == [k \in DOMAIN hs |-> CardOf(hs[k], "Low", found)]

\* One card per ranked hunk: the hunk is found again by its anchor, the
\* finding by the fingerprint of the hunk.
buildDeck(hs, found) ==
    LET ranked == rankHunks(hs)
    IN [k \in DOMAIN ranked |->
           CardOf(hunkByPos(hs, <<ranked[k].file, ranked[k].side, ranked[k].line>>),
                  ranked[k].tier, found)]

\* The items of the comment: High before Medium, up to the cap.
renderRankedComment(ranked) ==
    LET of(tier) == Sublist(ranked, {k \in DOMAIN ranked : ranked[k].tier = tier})
        flagged == of("High") \o of("Medium")
    IN SubSeq(flagged, 1, Min({MaxListed, Len(flagged)}))

-----------------------------------------------------------------------------
\* A run fetches its diff and starts the pass.  Rows of the cache that the
\* worker, which may be a new version of it, cannot read as a ChunkReview are as
\* good as none.
Run ==
    /\ pc = "idle" /\ runs < MaxRuns
    /\ runs' = runs + 1
    /\ \E hs \in Diffs[runs + 1] :
          diff' = hs /\ selected' = selectReviewChunks(buildReviewChunks(hs))
    /\ \E readable \in SUBSET DOMAIN cache : cache' = [p \in readable |-> cache[p]]
    /\ pc' = "review" /\ results' = << >>
    /\ UNCHANGED <<findings, deck>>

Pending == pc = "review" /\ Len(results) < Len(selected)
NextChunk == selected[Len(results) + 1]
FingerprintOf(chunk) == fingerprintChunk(chunk.file, chunk.changes)

CacheHit ==
    /\ Pending /\ FingerprintOf(NextChunk) \in DOMAIN cache
    /\ results' = Append(results, [chunk |-> NextChunk, review |-> cache[FingerprintOf(NextChunk)]])
    /\ UNCHANGED <<runs, pc, diff, selected, cache, findings, deck>>

\* No row: the model is asked.
reviewChunk ==
    /\ Pending /\ FingerprintOf(NextChunk) \notin DOMAIN cache
    /\ LET review == [file |-> NextChunk.file, changes |-> NextChunk.changes]
           print == FingerprintOf(NextChunk)
       IN /\ results' = Append(results, [chunk |-> NextChunk, review |-> review])
          /\ cache' = [p \in DOMAIN cache \cup {print} |-> IF p = print THEN review ELSE cache[p]]
    /\ UNCHANGED <<runs, pc, diff, selected, findings, deck>>

\* The model, the cache or the call-site search throws, or no model is
\* configured: the run goes on without findings, the old rows stay.
PassFails ==
    /\ pc = "review"
    /\ results' = << >> /\ pc' = "deck"
    /\ UNCHANGED <<runs, diff, selected, cache, findings, deck>>

replaceForPr ==
    /\ pc = "review" /\ Len(results) = Len(selected)
    /\ findings' = toFindings(results)
    /\ pc' = "deck"
    /\ UNCHANGED <<runs, diff, selected, results, cache, deck>>

persistDeck ==
    /\ pc = "deck"
    /\ deck' = buildDeck(diff, toFindings(results))
    /\ pc' = "idle"
    /\ UNCHANGED <<runs, diff, selected, results, cache, findings>>

Init ==
    /\ runs = 0 /\ pc = "idle"
    /\ diff = << >> /\ selected = << >> /\ results = << >> /\ cache = << >> /\ findings = << >> /\ deck = << >>

Next == Run \/ CacheHit \/ reviewChunk \/ PassFails \/ replaceForPr \/ persistDeck

Spec == Init /\ [][Next]_vars

-----------------------------------------------------------------------------
Card == [fingerprint : Path \X Seq(Change), file : Path, tier : {"High", "Medium", "Low"},
         side : {"R", "L"}, highlights : Seq([start : Nat, end : Nat]),
         review : [file : Path \cup {0}, changes : Seq(Change)]]

TypeOK ==
    /\ runs \in 0 .. MaxRuns /\ pc \in {"idle", "review", "deck"}
    /\ diff \in Seq(Hunk)
    /\ Len(results) <= Len(selected) /\ Len(selected) <= highCount(Len(diff))
    /\ \A p \in DOMAIN cache : p \in Path \X Seq(Change)
    /\ \A f \in DOMAIN findings : findings[f].fingerprint \in Path \X Seq(Change)
    /\ deck \in Seq(Card)

Done == pc = "idle" /\ runs > 0

\* "Swiping the whole deck means every changed line has been seen, with
\* attention pulled to the risky parts first" (card.ts): the k-th card is
\* about the k-th hunk of the ranking and marks exactly its changed lines, in
\* ranges that do not touch.  Only a last line without a newline is marked once
\* more, by a range of its own.
EveryHunkOnItsCard ==
    LET order == Ranking(diff) IN
    Done =>
      /\ Len(deck) = Len(diff)
      /\ \A k \in DOMAIN deck :
            LET h == diff[order[k]]  marks == deck[k].highlights IN
            /\ deck[k].file = h.file /\ deck[k].side = side(h)
            /\ UNION {m.start .. m.end : m \in Range(marks)} = ChangedLines(h)
            /\ \A m \in DOMAIN marks : marks[m].start <= marks[m].end
            /\ \A m \in 1 .. Len(marks) - 1 :
                  \/ marks[m].end + 1 < marks[m + 1].start
                  \/ /\ EndsUnterminated(h) /\ m + 1 = Len(marks)
                     /\ marks[m + 1] = [start |-> marks[m].end, end |-> marks[m].end]

\* Every review the pass delivered is on the card of the hunk it was asked
\* for (the join of findings and cards, hunk.ts).
NoFindingLost ==
    LET order == Ranking(diff) IN
    Done => \A r \in DOMAIN results :
              \E k \in DOMAIN deck : order[k] = results[r].chunk.at /\ deck[k].review = results[r].review

\* What a reader takes for the change itself: its lines, blank ones aside, and
\* whether or not a newline ends the file.
Substance(file, changes) ==
    LET counts(c) == c.type # "normal" /\ ~ TextInfo[c.text].blank /\ ~ IsNote(c)
    IN <<file, Sublist(changes, {i \in DOMAIN changes : counts(changes[i])})>>

\* A card never shows a review that was written about another change, even one
\* of an earlier run: "a different change - or the same change in another file
\* - gets a fresh key" (fingerprintChunk).
ReviewIsOfItsChange ==
    LET order == Ranking(diff) IN
    Done => \A k \in DOMAIN deck :
              deck[k].review # NoReview =>
                LET h == diff[order[k]] IN
                Substance(deck[k].review.file, deck[k].review.changes) = Substance(h.file, h.changes)

\* What the model reads and what the comment lists are the first of the real
\* changes: none of them is skipped for a lesser one, machine-written noise is
\* never among them, and there is at least one (rankHunks, assignTiers).
AttentionFirst ==
    LET first(S) == /\ S \subseteq Candidates(diff)
                    /\ Candidates(diff) # {} => S # {}
                    /\ \A i \in S, j \in Candidates(diff) : Before(diff, j, i) => j \in S
        listed == renderRankedComment(rankHunks(diff))
    IN Done => /\ first({c.at : c \in Range(selected)})
               /\ first({i \in DOMAIN diff : \E k \in DOMAIN listed :
                            Key(diff[i]) = <<listed[k].file, listed[k].side, listed[k].line>>})

\* The diff with its files in byte order.
ByPath(hs) == Sorted(hs, [i \in DOMAIN hs |-> hs[i].file])

\* The ranking does not depend on the order the diff lists its files in
\* ("the ranking's determinism is a hard guarantee", rankHunks).
OrderOfFilesIrrelevant == Done => rankHunks(diff) = rankHunks(ByPath(diff))

=============================================================================
