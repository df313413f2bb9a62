---------------------------- MODULE MCReviewDeck ----------------------------
(***************************************************************************)
(* ReviewDeck and CardView on small diffs: every diff of up to two hunks   *)
(* of a few shapes over four files, or of three hunks of one file (so that *)
(* the old side of one has the line number of the new side of another),    *)
(* and diffs of five and eight one-line hunks, where the shares of the     *)
(* tiers differ.                                                           *)
(***************************************************************************)
EXTENDS CardView

CONSTANTS Shapes, MaxHunks

\* In byte order: a lockfile, a source file, its test, a source file in a
\* risky path.
MCPathInfo ==
    <<[demoted |-> TRUE, risk |-> FALSE, test |-> FALSE, source |-> FALSE, base |-> "lock"],
      [demoted |-> FALSE, risk |-> FALSE, test |-> FALSE, source |-> TRUE, base |-> "a"],
      [demoted |-> FALSE, risk |-> FALSE, test |-> TRUE, source |-> TRUE, base |-> "a"],
      [demoted |-> FALSE, risk |-> TRUE, test |-> FALSE, source |-> TRUE, base |-> "b"]>>

MCTextInfo ==
    LET plain == [api |-> FALSE, blank |-> FALSE, note |-> FALSE, header |-> "none"] IN
    [code |-> plain,
     export |-> [plain EXCEPT !.api = TRUE],
     blank |-> [plain EXCEPT !.blank = TRUE],
     sqlComment |-> [plain EXCEPT !.header = "del"],
     noNewline |-> [plain EXCEPT !.note = TRUE]]

add(text) == [type |-> "add", text |-> text]
del(text) == [type |-> "del", text |-> text]
keep == [type |-> "normal", text |-> "code"]
NoNewline(type) == [type |-> type, text |-> "noNewline"]

MCShapes ==
    {<<add("code")>>, <<del("code")>>,
     <<add("code"), add("blank"), NoNewline("add")>>,
     <<del("code"), NoNewline("del")>>,
     <<del("code"), del("blank"), del("code"), NoNewline("del"), add("export")>>,
     <<add("code"), keep, add("blank"), add("code")>>}

\* Changes that only differ in a deleted line which starts with two dashes.
DashedShapes == {<<add("code")>>, <<del("sqlComment"), add("code")>>}

\* The diff of hunks with these files and changes, two lines apart.
Placed(files, shapes) ==
    LET n == Len(files)
        size(k, other) ==
          Cardinality({i \in DOMAIN shapes[k] : shapes[k][i].type # other /\ ~ IsNote(shapes[k][i])})
        start(k, other) ==
          1 + FoldLeft(LAMBDA sum, i : IF i < k /\ files[i] = files[k]
                                         THEN sum + size(i, other) + 2 ELSE sum,
                       0, [i \in 1 .. n |-> i])
    IN [k \in 1 .. n |-> [file |-> files[k], oldStart |-> start(k, "add"),
                          newStart |-> start(k, "del"), changes |-> shapes[k]]]

\* The hunks of a file follow each other.
Grouped(files) ==
    \A i, j, k \in DOMAIN files : i < j /\ j < k /\ files[i] = files[k] => files[j] = files[i]

\* Only the last hunk of a file reaches its end.
EndIsLast(hs) ==
    \A i, j \in DOMAIN hs : i < j /\ hs[i].file = hs[j].file =>
        ~ \E c \in Range(hs[i].changes) : IsNote(c)

OfUpTo(n, F, S) ==
    UNION {{Placed(f, s) : f \in {g \in [1 .. m -> F] : Grouped(g)}, s \in [1 .. m -> S]} : m \in 0 .. n}

OneLine(n, F) ==
    {Placed(f, [k \in 1 .. n |-> <<add("code")>>]) : f \in {g \in [1 .. n -> F] : Grouped(g)}}

\* A first run leaves a cache behind; the second one meets every kind of diff.
MCDiffs ==
    LET met == OfUpTo(MaxHunks, DOMAIN MCPathInfo, Shapes)
                 \cup OneLine(5, {1, 2, 4}) \cup OneLine(8, {1, 2})
                 \cup {Placed(<<2, 2, 2>>, s) : s \in [1 .. 3 -> Shapes]}
    IN <<OfUpTo(1, {2}, Shapes), {hs \in met : EndIsLast(hs)}>>
=============================================================================
