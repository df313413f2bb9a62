--------------------------- MODULE PublishedReview ---------------------------
(***************************************************************************)
(* What the review pipeline promises the readers of one pull request: a    *)
(* single comment, edited in place, that shows the review of some push and *)
(* moves forward only.  How runs, retries and crashes get there is left to *)
(* ReviewPipeline.                                                         *)
(***************************************************************************)
EXTENDS Naturals

VARIABLES
    pushed,    \* the number of pushes so far; the PR is opened by push 1
    shown      \* the push whose review the comment shows, 0 before it exists

Init == pushed = 1 /\ shown = 0

Push == pushed' = pushed + 1 /\ UNCHANGED shown

\* A run delivers the review of the diff it read, some push up to now.
Publish ==
    /\ shown' \in shown .. pushed
    /\ shown' # 0
    /\ UNCHANGED pushed

Next == Push \/ Publish

Spec == Init /\ [][Next]_<<pushed, shown>>
=============================================================================
