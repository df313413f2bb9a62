----------------------------- MODULE WebSession -----------------------------
(***************************************************************************)
(* One reviewer's browser and its sign-ins.  The cookie names a session,   *)
(* the session's web_sessions row holds a pair of GitHub tokens, and       *)
(* GitHub replaces the pair whenever its refresh token is used, once.      *)
(* Several requests of the browser run at the same time, each of which     *)
(* reads the row, perhaps refreshes, and uses the access token it got.     *)
(***************************************************************************)
EXTENDS Naturals, FiniteSets

CONSTANTS
    Requests,     \* requests of the browser the server runs at the same time
    MaxSignIns,   \* bound: sign-ins
    MaxPairs      \* bound: token pairs GitHub issues per sign-in

ASSUME BoundsAssumption == MaxSignIns \in Nat /\ MaxPairs \in Nat \ {0}

VARIABLES
    newest,    \* newest[s]: the newest pair GitHub issued for sign-in s, 0: none
    due,       \* due[s]: newest pair whose access token has reached its expiry
    lost,      \* sign-ins of which a newer pair never reached the row
    row,       \* row[s]: the pair the row of session s holds, or NoRow
    cookie,    \* the session the browser's cookie names, or NoSession
    request    \* request[r]: what request r does, or Idle

vars == <<newest, due, lost, row, cookie, request>>
github == <<newest, due>>

Sessions == 1 .. MaxSignIns
Pairs == 1 .. MaxPairs
NoRow == 0
NoSession == 0

\* A request is for the session of the cookie it came with; pair is the one it
\* read from the row or got from GitHub.
Idle == [pc |-> "idle", session |-> NoSession, pair |-> NoRow]

At(r, pc) == request[r].pc = pc
Become(r, state) == request' = [request EXCEPT ![r] = state]
Goto(r, pc) == Become(r, [request[r] EXCEPT !.pc = pc])
Ends(r) == Become(r, Idle)

\* The row a request reads and writes, and its place among GitHub's pairs.
Mine(r) == row[request[r].session]
IsNewest(r) == request[r].pair = newest[request[r].session]

-----------------------------------------------------------------------------
(* GitHub and time (external).                                             *)

\* The access token of the newest pair comes to its expiry.
Expire(s) ==
    /\ due[s] < newest[s]
    /\ due' = [due EXCEPT ![s] = newest[s]]
    /\ UNCHANGED <<newest, lost, row, cookie, request>>

\* A refresh token works once; using it replaces the pair.
Rotate(r) ==
    LET s == request[r].session IN
    /\ IsNewest(r) /\ newest[s] < MaxPairs
    /\ newest' = [newest EXCEPT ![s] = @ + 1]
    /\ UNCHANGED due

-----------------------------------------------------------------------------
(* Signing in and out.                                                     *)

\* exchangeCodeForToken: the first pair of a new sign-in.
exchangeCodeForToken(r) ==
    /\ At(r, "idle")
    /\ \E s \in Sessions :
          /\ newest[s] = 0 /\ \A q \in 1 .. s - 1 : newest[q] # 0
          /\ newest' = [newest EXCEPT ![s] = 1]
          /\ Become(r, [pc |-> "create", session |-> s, pair |-> 1])
    /\ UNCHANGED <<due, lost, row, cookie>>

createSession(r) ==
    /\ At(r, "create")
    /\ row' = [row EXCEPT ![request[r].session] = request[r].pair]
    /\ Goto(r, "signed in")
    /\ UNCHANGED <<github, lost, cookie>>

\* The exchange's answer, the identity or the INSERT fails.
CallbackFails(r) ==
    /\ At(r, "create")
    /\ Ends(r)
    /\ UNCHANGED <<github, lost, row, cookie>>

\* The browser takes the cookie from the callback's answer.
SetCookie(r) ==
    /\ At(r, "signed in")
    /\ cookie' = request[r].session
    /\ Ends(r)
    /\ UNCHANGED <<github, lost, row>>

SignOut(r) ==
    /\ At(r, "idle") /\ cookie # NoSession
    /\ Become(r, [Idle EXCEPT !.pc = "sign out", !.session = cookie])
    /\ UNCHANGED <<github, lost, row, cookie>>

\* Sign-out deletes the row of the cookie the request came with, and so does a
\* page that GitHub answers with 401.
clearSessionRow(r) ==
    /\ request[r].pc \in {"sign out", "refused"}
    /\ row' = [row EXCEPT ![request[r].session] = NoRow]
    /\ IF At(r, "sign out") THEN Goto(r, "signed out") ELSE Ends(r)
    /\ UNCHANGED <<github, lost, cookie>>

DropCookie(r) ==
    /\ At(r, "signed out")
    /\ cookie' = NoSession
    /\ Ends(r)
    /\ UNCHANGED <<github, lost, row>>

-----------------------------------------------------------------------------
(* getSession, in every page and server action.                            *)

Arrive(r) ==
    /\ At(r, "idle") /\ cookie # NoSession
    /\ Become(r, [Idle EXCEPT !.pc = "read", !.session = cookie])
    /\ UNCHANGED <<github, lost, row, cookie>>

Holds(r) ==
    Become(r, [request[r] EXCEPT !.pair = Mine(r),
                 !.pc = IF Mine(r) <= due[request[r].session] THEN "refresh" ELSE "use"])

\* Mutant: a missing row is not noticed.
ReadRowUnchecked(r) ==
    /\ At(r, "read")
    /\ Holds(r) \/ Ends(r)
    /\ UNCHANGED <<github, lost, row, cookie>>

\* No row, a row past its time to live or one that does not decrypt: signed
\* out.  A token at its expiry is refreshed before it is used.
ReadRow(r) ==
    /\ At(r, "read")
    /\ (Mine(r) # NoRow /\ Holds(r)) \/ Ends(r)
    /\ UNCHANGED <<github, lost, row, cookie>>

refreshAccessToken(r) ==
    /\ At(r, "refresh")
    /\ Rotate(r)
    /\ Become(r, [request[r] EXCEPT !.pc = "persist", !.pair = @ + 1])
    /\ UNCHANGED <<lost, row, cookie>>

\* GitHub refuses the refresh token or the call fails: signed out, for this
\* request; the row stays.
RefreshFails(r) ==
    /\ At(r, "refresh")
    /\ Ends(r)
    /\ UNCHANGED <<github, lost, row, cookie>>

\* GitHub replaces the pair, and the answer does not arrive.
RefreshUnanswered(r) ==
    /\ At(r, "refresh")
    /\ Rotate(r)
    /\ lost' = lost \cup {request[r].session}
    /\ Ends(r)
    /\ UNCHANGED <<row, cookie>>

\* Mutant: the row keeps the refresh token it had.
PersistKeepsOld(r) ==
    /\ At(r, "persist")
    /\ Goto(r, "use")
    /\ UNCHANGED <<github, lost, row, cookie>>

\* Mutant: the row is upserted.
PersistUpserts(r) ==
    /\ At(r, "persist")
    /\ row' = [row EXCEPT ![request[r].session] = request[r].pair]
    /\ Goto(r, "use")
    /\ UNCHANGED <<github, lost, cookie>>

\* The UPDATE of maybeRefresh finds no row if it was deleted meanwhile.
maybeRefresh(r) ==
    /\ At(r, "persist")
    /\ row' = [row EXCEPT ![request[r].session] = IF @ = NoRow THEN NoRow ELSE request[r].pair]
    /\ Goto(r, "use")
    /\ UNCHANGED <<github, lost, cookie>>

\* The UPDATE throws, or the server dies before it.
PersistFails(r) ==
    /\ At(r, "persist")
    /\ lost' = lost \cup {request[r].session}
    /\ Ends(r)
    /\ UNCHANGED <<github, row, cookie>>

-----------------------------------------------------------------------------
(* The page or action itself, a client of GitHub with that access token.   *)

Answers(r) ==
    /\ At(r, "use")
    /\ IsNewest(r)
    /\ Ends(r)
    /\ UNCHANGED <<github, lost, row, cookie>>

\* GitHub knows the newest access token only, until its expiry.  A page
\* deletes the row, an action reports "reauth".
GitHubAuthError(r) ==
    /\ At(r, "use")
    /\ ~IsNewest(r) \/ request[r].pair <= due[request[r].session]
    /\ Goto(r, "refused") \/ Ends(r)
    /\ UNCHANGED <<github, lost, row, cookie>>

-----------------------------------------------------------------------------
Init ==
    /\ newest = [s \in Sessions |-> 0]
    /\ due = [s \in Sessions |-> 0]
    /\ lost = {}
    /\ row = [s \in Sessions |-> NoRow]
    /\ cookie = NoSession
    /\ request = [r \in Requests |-> Idle]

SignInOrOut(r) ==
    \/ exchangeCodeForToken(r) \/ createSession(r) \/ CallbackFails(r) \/ SetCookie(r)
    \/ SignOut(r) \/ clearSessionRow(r) \/ DropCookie(r)

getSession(r) ==
    \/ Arrive(r) \/ ReadRow(r)
    \/ refreshAccessToken(r) \/ RefreshFails(r) \/ RefreshUnanswered(r)
    \/ maybeRefresh(r) \/ PersistFails(r)

Next ==
    \/ \E s \in Sessions : Expire(s)
    \/ \E r \in Requests : SignInOrOut(r) \/ getSession(r) \/ Answers(r) \/ GitHubAuthError(r)

Spec == Init /\ [][Next]_vars

-----------------------------------------------------------------------------
Stages == {"idle", "create", "signed in", "sign out", "signed out", "read", "refresh",
           "persist", "use", "refused"}

TypeOK ==
    /\ newest \in [Sessions -> 0 .. MaxPairs]
    /\ due \in [Sessions -> 0 .. MaxPairs]
    /\ lost \subseteq Sessions
    /\ row \in [Sessions -> {NoRow} \cup Pairs]
    /\ cookie \in {NoSession} \cup Sessions
    /\ request \in [Requests -> [pc : Stages, session : {NoSession} \cup Sessions,
                                 pair : {NoRow} \cup Pairs]]
    /\ \A r \in Requests : request[r].pc \in {"refresh", "persist", "use"} =>
                              request[r].session # NoSession /\ request[r].pair # NoRow

Persisting(s) == {r \in Requests : At(r, "persist") /\ request[r].session = s}

\* A session survives its refreshes, however many requests refresh at once
\* (maybeRefresh): the row holds the newest pair, unless exactly one request is
\* about to store it or an answer or a write was lost.
RowIsUsable ==
    \A s \in Sessions \ lost : row[s] # NoRow =>
        \/ row[s] = newest[s] /\ Persisting(s) = {}
        \/ \E r \in Requests : Persisting(s) = {r} /\ request[r].pair = newest[s]

\* "Delete the session row" (sign-out), "the next getSession returns null"
\* (clearSessionRow): whatever refreshes are in flight, a deleted row never
\* comes back; rows are inserted by the sign-in that made the session.
SignedOutForGood ==
    [][\A s \in Sessions : row[s] = NoRow /\ row'[s] # NoRow =>
          \E r \in Requests : At(r, "create") /\ request[r].session = s]_vars
=============================================================================
