---------------------------- MODULE RiskRanking ----------------------------
(***************************************************************************)
(* rankHunks: the deterministic order in which reviewers meet the hunks of *)
(* a diff, and the tiers that decide which hunks the model reads and the   *)
(* comment lists.  A diff is the sequence of its hunks in encounter order. *)
(* A path is its place in byte order; what the code's patterns find in     *)
(* paths and lines is given by constants.                                  *)
(***************************************************************************)
EXTENDS Integers, Sequences, FiniteSets, SequencesExt

CONSTANTS
    PathInfo,    \* sequence: what the patterns say of each path, in byte order
    TextInfo     \* what the patterns say of each text a line can have

Path == DOMAIN PathInfo
Text == DOMAIN TextInfo

ASSUME PathAssumption ==
    PathInfo \in Seq([demoted : BOOLEAN, risk : BOOLEAN, test : BOOLEAN,
                      source : BOOLEAN, base : STRING])
\* api: an exported or public symbol.  blank: only white space.  header: the
\* kind of change ("add", "del" or "none") that prints it as `+++` or `---`.
\* note: no line at all, but git's note that the line above ends its file
\* without a newline.
ASSUME TextAssumption ==
    TextInfo \in [Text -> [api : BOOLEAN, blank : BOOLEAN, note : BOOLEAN,
                          header : {"add", "del", "none"}]]

Change == [type : {"add", "del", "normal"}, text : Text]
Hunk == [file : Path, oldStart : Nat, newStart : Nat, changes : Seq(Change)]

\* parse-diff lists the note as one more change, with the type and the number of
\* the change before it.
IsNote(change) == TextInfo[change.text].note

\* A note is about the last line that the hunk has of its side of the file.
NotesInPlace(h) ==
    \A i \in DOMAIN h.changes : IsNote(h.changes[i]) =>
        /\ i > 1 /\ ~ IsNote(h.changes[i - 1]) /\ h.changes[i - 1].type = h.changes[i].type
        /\ \A j \in DOMAIN h.changes : j > i => h.changes[j].type # h.changes[i].type

-----------------------------------------------------------------------------
(* Sorting and filtering: an element's place is the number of those before *)
(* it.                                                                     *)

\* The elements of S in the order that has ahead[i] before i.
Arranged(S, ahead) ==
    [k \in 1 .. Cardinality(S) |-> CHOOSE i \in S : Cardinality(ahead[i]) = k - 1] \o << >>

\* A stable sort of s by the numbers key[i] of its elements.
Sorted(s, key) ==
    LET ahead == [i \in DOMAIN s |->
                    {j \in DOMAIN s : key[j] < key[i] \/ (key[j] = key[i] /\ j < i)}]
        order == Arranged(DOMAIN s, ahead)
    IN [k \in DOMAIN s |-> s[order[k]]]

Ascending(numbers) == Arranged(numbers, [n \in numbers |-> {m \in numbers : m < n}])

\* The elements of s at some of its places, in their order.
Sublist(s, places) ==
    LET kept == Ascending(places) IN [k \in DOMAIN kept |-> s[kept[k]]]

-----------------------------------------------------------------------------
\* The changes of a hunk of one type, the notes among them, as positions in the
\* hunk.
Of(h, type) == {i \in DOMAIN h.changes : h.changes[i].type = type}
added(h) == Cardinality(Of(h, "add"))
deleted(h) == Cardinality(Of(h, "del"))

\* Mutant: every anchor is taken for one of the new side.
sideAlwaysNew(h) == "R"

\* A hunk is anchored at its new side, at its old side if it only deletes.
side(h) == IF added(h) > 0 THEN "R" ELSE "L"
line(h) == IF added(h) > 0 THEN h.newStart ELSE h.oldStart
Key(h) == <<h.file, side(h), line(h)>>

apiBoundary(h) ==
    \E i \in Of(h, "add") \cup Of(h, "del") : TextInfo[h.changes[i].text].api

isMissingTestDelta(hs, h) ==
    LET info == PathInfo[h.file] IN
    /\ ~ info.test /\ info.source
    /\ \A i \in DOMAIN hs : PathInfo[hs[i].file].test => PathInfo[hs[i].file].base # info.base

\* 4 to the power of the score log2(1 + size) + 3 * riskPath + 2 * apiBoundary
\* + 1.5 * missingTestDelta: an integer in the order of the scores.
score(hs, h) ==
    LET size == 1 + added(h) + deleted(h)
        weight(b, w) == IF b THEN w ELSE 1
    IN size * size * weight(PathInfo[h.file].risk, 64) * weight(apiBoundary(h), 16)
       * weight(isMissingTestDelta(hs, h), 8)

\* Mutant: ties are broken by encounter order alone.
BeforeByOrder(hs, i, j) ==
    LET a == score(hs, hs[i])  b == score(hs, hs[j]) IN a > b \/ (a = b /\ i < j)

\* Hunk i comes before hunk j: higher score, then path, then encounter order.
Before(hs, i, j) ==
    LET a == score(hs, hs[i])  b == score(hs, hs[j]) IN
    \/ a > b
    \/ a = b /\ hs[i].file < hs[j].file
    \/ a = b /\ hs[i].file = hs[j].file /\ i < j

Candidates(hs) == {i \in DOMAIN hs : ~ PathInfo[hs[i].file].demoted}

\* The shares of High and Medium among n candidates: 20 and 30 percent,
\* rounded half up, and always one High.
highCount(n) == Max({1, (2 * n + 5) \div 10})
medCount(n) == (3 * n + 5) \div 10

TierAt(place, n) ==
    CASE place < highCount(n) -> "High"
      [] place >= highCount(n) /\ place < highCount(n) + medCount(n) -> "Medium"
      [] OTHER -> "Low"

\* The places of the hunks in the diff, in the order of the ranking.
Ranking(hs) ==
    Arranged(DOMAIN hs, [i \in DOMAIN hs |-> {j \in DOMAIN hs : Before(hs, j, i)}])

\* Mutant: demoted hunks take places of the percentile base.
assignTiersAmongAll(hs, order) ==
    [k \in DOMAIN order |->
        IF order[k] \notin Candidates(hs) THEN "Low" ELSE TierAt(k - 1, Len(order))]

\* The tiers along an order of the hunks: demoted hunks are Low and take no
\* place from the others.
assignTiers(hs, order) ==
    LET ahead(k) == {l \in 1 .. k - 1 : order[l] \in Candidates(hs)}
    IN [k \in DOMAIN order |->
           IF order[k] \notin Candidates(hs) THEN "Low"
           ELSE TierAt(Cardinality(ahead(k)), Cardinality(Candidates(hs)))]

\* The ranked hunks, each with its anchor and its tier.
rankHunks(hs) ==
    LET order == Ranking(hs)
        tiers == assignTiers(hs, order)
        ranked(i, tier) ==
          [file |-> hs[i].file, side |-> side(hs[i]), line |-> line(hs[i]), tier |-> tier]
    IN [k \in DOMAIN hs |-> ranked(order[k], tiers[k])]

-----------------------------------------------------------------------------
\* The places of the changed lines, without what looks like a file header and
\* without blank lines (a note begins with neither + nor -).
Counted(changes) ==
    {i \in DOMAIN changes : /\ changes[i].type # "normal" /\ ~ IsNote(changes[i])
                            /\ TextInfo[changes[i].text].header # changes[i].type
                            /\ ~ TextInfo[changes[i].text].blank}

\* Mutant: the path is left out of the fingerprint.
fingerprintOfLines(file, changes) == <<0, Sublist(changes, Counted(changes))>>

fingerprintChunk(file, changes) == <<file, Sublist(changes, Counted(changes))>>

\* change.ln: the number of an added line in the new file, of a deleted line in
\* the old one.
ln(h, i) ==
    LET type == h.changes[i].type
        start == IF type = "add" THEN h.newStart ELSE h.oldStart
        isLine(c) == c.type \in {type, "normal"} /\ ~ IsNote(c)
    IN start + Cardinality({j \in 1 .. i : isLine(h.changes[j])}) - 1

\* Group line numbers into inclusive ranges; ranges[k] groups the first k.  A
\* number that is repeated starts a range.
coalesce(lines) ==
    LET sorted == Sorted(lines, lines)
        extend(rs, n) ==
          IF rs # << >> /\ rs[Len(rs)].end + 1 = n
          THEN [rs EXCEPT ![Len(rs)].end = n]
          ELSE Append(rs, [start |-> n, end |-> n])
        ranges[k \in 0 .. Len(lines)] ==
          IF k = 0 THEN << >> ELSE extend(ranges[k - 1], sorted[k])
    IN ranges[Len(lines)]

\* What a card marks: the added lines or, if there are none, the deleted ones.
MarkedType(h) == IF added(h) > 0 THEN "add" ELSE "del"

highlightsOf(h) ==
    LET places == Ascending(Of(h, MarkedType(h)))
    IN coalesce([k \in DOMAIN places |-> ln(h, places[k])])

-----------------------------------------------------------------------------
\* The numbers of the lines that a card is to mark.
ChangedLines(h) == {ln(h, i) : i \in {j \in Of(h, MarkedType(h)) : ~ IsNote(h.changes[j])}}

\* The last of these lines ends its file without a newline.
EndsUnterminated(h) == \E i \in Of(h, MarkedType(h)) : IsNote(h.changes[i])
=============================================================================
