------------------------------ MODULE CardView ------------------------------
(***************************************************************************)
(* What the deck page makes of the cards of a deck: the files of the first *)
(* ones are read at the deck's head, each card gets its changed lines with *)
(* some lines around them or a note of what was removed, and a comment is  *)
(* given a place in the diff.  A file is the number of its lines.          *)
(***************************************************************************)
EXTENDS ReviewDeck

CONSTANTS
    Context,      \* DEFAULT_CONTEXT: lines shown around a changed one
    MaxFiles,     \* MAX_CODE_FETCHES
    FileLengths   \* bound: lengths the files can have at the deck's head

ASSUME CardViewAssumption ==
    /\ Context \in Nat /\ MaxFiles \in Nat
    /\ FileLengths \subseteq Nat \ {0}

NoText == 0
NoCode == << >>
NoAnchor == [file |-> 0, startLine |-> 0, line |-> 0]

-----------------------------------------------------------------------------
\* One read per file, up to the cap; a file that cannot be read has no text.
resolveCardFileTexts(files, failed, length) ==
    LET ahead(k) == {files[i] : i \in 1 .. k - 1}
        read == {files[k] : k \in {i \in DOMAIN files : Cardinality(ahead(i)) < MaxFiles}}
    IN [f \in read |-> IF f \in failed THEN NoText ELSE length]

\* Mutant: a window that overlaps or touches the last one is not merged.
mergeWindowsNever(windows) == windows

\* Windows in the order of their starts, joined where they overlap or touch.
mergeWindows(windows) ==
    LET join(merged, w) ==
          IF merged # << >> /\ w.start <= Last(merged).end + 1
          THEN [merged EXCEPT ![Len(merged)].end = Max({@, w.end})]
          ELSE Append(merged, w)
        merged[k \in 0 .. Len(windows)] ==
          IF k = 0 THEN << >> ELSE join(merged[k - 1], windows[k])
    IN merged[Len(windows)]

\* The right-side ranges with their context, clamped to the file.
buildCodeWindow(length, right) ==
    LET around(m) == [start |-> Max({1, m.start - Context}), end |-> Min({length, m.end + Context})]
        clamped == [k \in DOMAIN right |-> around(right[k])]
        windows == Sublist(clamped, {k \in DOMAIN right : clamped[k].start <= clamped[k].end})
        merged == mergeWindows(Sorted(windows, [k \in DOMAIN windows |-> windows[k].start]))
        highlighted(n) == \E m \in Range(right) : n \in m.start .. m.end
        lines(w) == [i \in 1 .. w.end - w.start + 1 |->
                        [number |-> w.start + i - 1, highlighted |-> highlighted(w.start + i - 1)]]
        code[k \in 0 .. Len(merged)] == IF k = 0 THEN NoCode ELSE code[k - 1] \o lines(merged[k])
    IN code[Len(merged)]

OfSide(card, s) == IF card.side = s THEN card.highlights ELSE << >>

deletionSummary(card) ==
    LET left == OfSide(card, "L")
        sum[k \in 0 .. Len(left)] ==
          IF k = 0 THEN 0 ELSE sum[k - 1] + (left[k].end - left[k].start + 1)
    IN sum[Len(left)]

\* Mutant: the comment spans from the first changed line to the last one.
cardCommentAnchorOfAll(card) ==
    LET right == OfSide(card, "R") IN
    IF right = << >> THEN NoAnchor
    ELSE [file |-> card.file, startLine |-> right[1].start, line |-> Last(right).end]

\* A review comment is for the first range of added lines, on the deck's head.
cardCommentAnchor(card) ==
    LET right == OfSide(card, "R") IN
    IF right = << >> THEN NoAnchor
    ELSE [file |-> card.file, startLine |-> right[1].start, line |-> right[1].end]

toCardView(card, texts) ==
    [file |-> card.file, tier |-> card.tier, review |-> card.review,
     code |-> IF card.file \in DOMAIN texts /\ texts[card.file] # NoText
              THEN buildCodeWindow(texts[card.file], OfSide(card, "R")) ELSE NoCode,
     removedLines |-> deletionSummary(card),
     commentAnchored |-> OfSide(card, "R") # << >>]

buildCardViews(cards, failed, length) ==
    LET texts == resolveCardFileTexts([k \in DOMAIN cards |-> cards[k].file], failed, length)
    IN [k \in DOMAIN cards |-> toCardView(cards[k], texts)]

-----------------------------------------------------------------------------
\* The lines of a file of this length that a card of a hunk is to show.
Shown(h, length) ==
    {n \in 1 .. length : \E c \in ChangedLines(h) : n \in c - Context .. c + Context}

\* Whatever files cannot be read and however long they are, a card shows every
\* changed line of its hunk that the file has, marked, with its context, each
\* line once and in order (buildCodeWindow); if it shows none of an added line,
\* its file could not be read or the files of riskier cards used up the cap;
\* and of a deletion it tells how many lines are gone (deletionSummary), which is
\* one too many if the last of them ended its file without a newline.
CardShowsItsChange ==
    LET order == Ranking(diff) IN
    Done => \A length \in FileLengths, failed \in SUBSET {h.file : h \in Range(diff)} :
      LET views == buildCardViews(deck, failed, length) IN
      \A k \in DOMAIN views :
        LET h == diff[order[k]]
            first == Min({i \in 1 .. k : views[i].file = h.file})
            riskier == {views[i].file : i \in 1 .. first - 1}
            readable == h.file \notin failed /\ Cardinality(riskier) < MaxFiles
        IN IF side(h) = "R" /\ readable
           THEN views[k].code =
                  LET shown == Ascending(Shown(h, length)) IN
                  [i \in DOMAIN shown |-> [number |-> shown[i],
                                           highlighted |-> shown[i] \in ChangedLines(h)]]
           ELSE /\ views[k].code = NoCode
                /\ side(h) = "L" => views[k].removedLines = Cardinality(ChangedLines(h))
                                      + (IF EndsUnterminated(h) THEN 1 ELSE 0)

\* A comment that goes to a place in the diff spans changed lines of its card's
\* hunk only ("must sit on a line that is part of the diff"), and the composer
\* announces that place exactly when there is one ("Mirrors cardCommentAnchor's
\* rule").
CommentSitsOnTheDiff ==
    LET order == Ranking(diff) IN
    Done => \A k \in DOMAIN deck :
        LET h == diff[order[k]]  anchor == cardCommentAnchor(deck[k]) IN
        /\ toCardView(deck[k], << >>).commentAnchored <=> anchor # NoAnchor
        /\ anchor # NoAnchor =>
              /\ side(h) = "R" /\ anchor.file = h.file
              /\ anchor.startLine <= anchor.line
              /\ anchor.startLine .. anchor.line \subseteq ChangedLines(h)
=============================================================================
