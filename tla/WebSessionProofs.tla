-------------------------- MODULE WebSessionProofs --------------------------
(***************************************************************************)
(* The session rows for any number of concurrent requests, sign-ins and    *)
(* token pairs.  That a row is usable is not inductive: it also has to be  *)
(* known that no request still holds a refresh token that will work, and   *)
(* that nobody but its sign-in knows a session before the cookie is set.   *)
(***************************************************************************)
EXTENDS WebSession, TLAPS

\* Every request that does something does it for a session.
HasSession == \A r \in Requests : request[r].pc # "idle" => request[r].session \in Sessions

\* Nothing knows a session that is not signed in yet.
UnbornUnknown ==
    \A s \in Sessions : newest[s] = 0 =>
        /\ row[s] = NoRow /\ cookie # s
        /\ \A r \in Requests : request[r].session # s

\* Only its sign-in knows a session whose row is not inserted yet.
CreatorAlone ==
    \A r \in Requests : At(r, "create") =>
        LET s == request[r].session IN
        /\ request[r].pair = 1 /\ newest[s] = 1 /\ row[s] = NoRow /\ cookie # s
        /\ \A q \in Requests : request[q].session = s => q = r

\* The row is not ahead of GitHub, is behind it while a request is about to
\* store a pair, and is never behind a request that may refresh.
RowBetween ==
    \A s \in Sessions \ lost : row[s] # NoRow =>
        /\ row[s] <= newest[s]
        /\ Persisting(s) # {} => row[s] < newest[s]
        /\ \A r \in Requests :
              At(r, "refresh") /\ request[r].session = s => request[r].pair <= row[s]

IInv == TypeOK /\ HasSession /\ UnbornUnknown /\ CreatorAlone /\ RowBetween /\ RowIsUsable

-----------------------------------------------------------------------------
(* What a step does to a request.                                          *)

RequestState == [pc : Stages, session : {NoSession} \cup Sessions, pair : {NoRow} \cup Pairs]

OnlyRequest(r) ==
    /\ request' \in [Requests -> RequestState]
    /\ \A q \in Requests \ {r} : request'[q] = request[q]

LEMMA Becoming ==
    ASSUME TypeOK, NEW r \in Requests, NEW x \in RequestState, Become(r, x)
    PROVE  OnlyRequest(r) /\ request'[r] = x
BY DEF TypeOK, Become, RequestState, OnlyRequest

LEMMA Ending ==
    ASSUME TypeOK, NEW r \in Requests, Ends(r)
    PROVE  OnlyRequest(r) /\ request'[r].pc = "idle" /\ request'[r].session = NoSession
<1>1. Idle \in RequestState /\ Idle.pc = "idle" /\ Idle.session = NoSession
  BY DEF Idle, RequestState, Stages
<1> QED BY <1>1, Becoming DEF Ends

LEMMA Asking ==
    ASSUME TypeOK, NEW r \in Requests, NEW pc \in Stages, cookie # NoSession,
           Become(r, [Idle EXCEPT !.pc = pc, !.session = cookie])
    PROVE  OnlyRequest(r) /\ request'[r].pc = pc /\ request'[r].session = cookie
<1> DEFINE x == [Idle EXCEPT !.pc = pc, !.session = cookie]
<1>1. x \in RequestState /\ x.pc = pc /\ x.session = cookie
  BY DEF Idle, RequestState, TypeOK
<1> HIDE DEF x
<1> QED BY <1>1, Becoming DEF x

LEMMA Going ==
    ASSUME TypeOK, NEW r \in Requests, NEW pc \in Stages, Goto(r, pc)
    PROVE  /\ OnlyRequest(r)
           /\ request'[r].pc = pc
           /\ request'[r].session = request[r].session
           /\ request'[r].pair = request[r].pair
<1> DEFINE x == [request[r] EXCEPT !.pc = pc]
<1>1. request[r] \in RequestState
  BY DEF TypeOK, RequestState
<1>2. /\ x \in RequestState
      /\ x.pc = pc /\ x.session = request[r].session /\ x.pair = request[r].pair
  BY <1>1 DEF RequestState
<1>3. Become(r, x)
  BY DEF Goto
<1> HIDE DEF x
<1> QED BY <1>2, <1>3, Becoming

LEMMA Holding ==
    ASSUME TypeOK, HasSession, NEW r \in Requests, request[r].pc # "idle", Holds(r)
    PROVE  /\ OnlyRequest(r)
           /\ request'[r].pc \in {"refresh", "use"}
           /\ request'[r].session = request[r].session
           /\ request'[r].pair = row[request[r].session]
<1> DEFINE pc == IF Mine(r) <= due[request[r].session] THEN "refresh" ELSE "use"
           x == [request[r] EXCEPT !.pair = Mine(r), !.pc = pc]
<1>1. request[r] \in RequestState /\ Mine(r) \in {NoRow} \cup Pairs
  BY DEF TypeOK, RequestState, HasSession, Mine
<1>2. pc \in {"refresh", "use"}
  OBVIOUS
<1>3. Become(r, x)
  BY DEF Holds
<1> HIDE DEF pc
<1>4. /\ x \in RequestState
      /\ x.pc = pc /\ x.session = request[r].session /\ x.pair = Mine(r)
  BY <1>1, <1>2 DEF RequestState, Stages
<1> HIDE DEF x
<1> QED BY <1>2, <1>3, <1>4, Becoming DEF Mine

LEMMA Refreshing ==
    ASSUME TypeOK, HasSession, NEW r \in Requests, refreshAccessToken(r)
    PROVE  /\ OnlyRequest(r)
           /\ request'[r].pc = "persist"
           /\ request'[r].session = request[r].session
           /\ request'[r].pair = request[r].pair + 1
<1> DEFINE x == [request[r] EXCEPT !.pc = "persist", !.pair = @ + 1]
<1>1. request[r] \in RequestState /\ request[r].session \in Sessions /\ request[r].pair \in Pairs
  BY DEF TypeOK, RequestState, HasSession, refreshAccessToken, At, Stages
<1>2. request[r].pair + 1 \in Pairs
  BY <1>1, BoundsAssumption DEF refreshAccessToken, Rotate, IsNewest, Pairs
<1>3. /\ x \in RequestState
      /\ x.pc = "persist" /\ x.session = request[r].session /\ x.pair = request[r].pair + 1
  BY <1>1, <1>2 DEF RequestState, Stages
<1>4. Become(r, x)
  BY DEF refreshAccessToken
<1> HIDE DEF x
<1> QED BY <1>3, <1>4, Becoming

LEMMA Rotating ==
    ASSUME TypeOK, NEW r \in Requests, request[r].session \in Sessions, Rotate(r)
    PROVE  /\ newest' \in [Sessions -> 0 .. MaxPairs]
           /\ request[r].pair = newest[request[r].session]
           /\ newest'[request[r].session] = newest[request[r].session] + 1
           /\ \A s \in Sessions \ {request[r].session} : newest'[s] = newest[s]
           /\ due' = due
BY BoundsAssumption DEF TypeOK, Rotate, IsNewest

-----------------------------------------------------------------------------
(* The steps that only end a request, or move it on without its tokens.    *)

LEMMA InitInv == Init => IInv
BY BoundsAssumption DEF Init, IInv, TypeOK, HasSession, UnbornUnknown, CreatorAlone, RowBetween,
     RowIsUsable, Persisting, At, Sessions, Pairs, Idle, Stages, NoRow, NoSession

LEMMA ExpireInv == ASSUME IInv, NEW s \in Sessions, Expire(s) PROVE IInv'
<1> USE DEF IInv, Expire
<1>1. TypeOK' /\ HasSession'
  BY BoundsAssumption DEF TypeOK, HasSession, Sessions
<1>2. UnbornUnknown' /\ CreatorAlone'
  BY DEF UnbornUnknown, CreatorAlone, At
<1>3. RowBetween' /\ RowIsUsable'
  BY DEF RowBetween, RowIsUsable, Persisting, At
<1> QED BY <1>1, <1>2, <1>3

\* A request that stays with its session, or leaves it, and neither starts nor
\* stops to hold a refresh token disturbs nothing.
LEMMA QuietInv ==
    ASSUME IInv, NEW r \in Requests, OnlyRequest(r),
           request'[r].pc \notin {"create", "refresh", "persist"},
           request'[r].pc = "use" => request'[r].pair # NoRow,
           \/ request'[r].pc = "idle" /\ request'[r].session = NoSession
           \/ request'[r].session \in Sessions /\ request'[r].session = request[r].session
           \/ request'[r].session \in Sessions /\ request'[r].session = cookie,
           UNCHANGED <<newest, due, row>>, cookie' \in {cookie, NoSession},
           lost' \subseteq Sessions, lost \subseteq lost',
           At(r, "persist") => request[r].session \in lost'
    PROVE  IInv'
<1> USE DEF IInv, OnlyRequest
<1>1. TypeOK' /\ HasSession'
  <2>1. \A q \in Requests \ {r} : request'[q].pc \in {"refresh", "persist", "use"} =>
            request'[q].session # NoSession /\ request'[q].pair # NoRow
    BY DEF TypeOK
  <2>2. request'[r].pc = "use" => request'[r].session # NoSession
    BY DEF Sessions, NoSession
  <2>3. request' \in [Requests -> RequestState] /\ cookie' \in {NoSession} \cup Sessions
    BY DEF TypeOK
  <2>4. HasSession'
    BY DEF HasSession
  <2> QED BY <2>1, <2>2, <2>3, <2>4 DEF TypeOK, RequestState
<1>2. UnbornUnknown'
  BY DEF UnbornUnknown, Sessions, NoSession
<1>3. CreatorAlone'
  <2> SUFFICES ASSUME NEW q \in Requests, request'[q].pc = "create"
               PROVE  LET s == request[q].session IN
                      /\ request[q].pair = 1 /\ newest[s] = 1 /\ row[s] = NoRow /\ cookie' # s
                      /\ \A p \in Requests : request'[p].session = s => p = q
    BY DEF CreatorAlone, At
  <2>1. q # r /\ request'[q] = request[q] /\ request[q].session \in Sessions
    BY DEF HasSession
  <2> QED BY <2>1 DEF CreatorAlone, At, Sessions, NoSession
<1>4. \A s \in Sessions \ lost' : Persisting(s)' = Persisting(s)
  BY DEF Persisting, At
<1>5. RowBetween'
  BY <1>4 DEF RowBetween, At
<1>6. RowIsUsable'
  BY <1>4 DEF RowIsUsable, Persisting, At
<1> QED BY <1>1, <1>2, <1>3, <1>5, <1>6

\* The types of a step follow from its request's new state and its rows.
LEMMA StepTypes ==
    ASSUME IInv, NEW r \in Requests, OnlyRequest(r),
           request'[r].pc # "idle" => request'[r].session \in Sessions,
           request'[r].pc \in {"refresh", "persist", "use"} => request'[r].pair # NoRow,
           newest' \in [Sessions -> 0 .. MaxPairs], due' = due, lost' \subseteq Sessions,
           row' \in [Sessions -> {NoRow} \cup Pairs], cookie' \in {NoSession} \cup Sessions
    PROVE  TypeOK' /\ HasSession'
<1> USE DEF IInv, OnlyRequest
<1>1. HasSession'
  BY DEF HasSession
<1>2. \A q \in Requests : request'[q].pc \in {"refresh", "persist", "use"} =>
          request'[q].session # NoSession /\ request'[q].pair # NoRow
  <2> SUFFICES ASSUME NEW q \in Requests, request'[q].pc \in {"refresh", "persist", "use"}
               PROVE  request'[q].session # NoSession /\ request'[q].pair # NoRow
    OBVIOUS
  <2>1. CASE q = r
    BY <2>1 DEF Sessions, NoSession
  <2>2. CASE q # r
    BY <2>2 DEF TypeOK
  <2> QED BY <2>1, <2>2
<1> QED BY <1>1, <1>2 DEF TypeOK, RequestState

LEMMA QuietSteps ==
    ASSUME IInv, NEW r \in Requests,
           \/ CallbackFails(r) \/ SignOut(r) \/ DropCookie(r) \/ Arrive(r)
           \/ ReadRow(r) /\ Ends(r)
           \/ RefreshFails(r) \/ PersistFails(r) \/ Answers(r) \/ GitHubAuthError(r)
    PROVE  IInv'
<1>1. ASSUME Ends(r), UNCHANGED <<newest, due, row>>, cookie' \in {cookie, NoSession},
             \/ lost' = lost /\ ~At(r, "persist")
             \/ lost' = lost \cup {request[r].session} /\ At(r, "persist")
      PROVE  IInv'
  <2>1. lost' \subseteq Sessions
    BY <1>1 DEF IInv, TypeOK, HasSession, At
  <2> QED BY <1>1, <2>1, Ending, QuietInv DEF IInv
<1>2. ASSUME NEW pc \in {"sign out", "read"}, At(r, "idle"), cookie # NoSession,
             Become(r, [Idle EXCEPT !.pc = pc, !.session = cookie]),
             UNCHANGED <<newest, due, lost, row, cookie>>
      PROVE  IInv'
  <2>1. pc \in Stages /\ cookie \in Sessions /\ lost \subseteq Sessions
    BY <1>2 DEF Stages, IInv, TypeOK
  <2> QED BY <1>2, <2>1, Asking, QuietInv DEF IInv, At
<1>3. CASE CallbackFails(r)  BY <1>1, <1>3 DEF CallbackFails, At, github
<1>4. CASE SignOut(r)  BY <1>2, <1>4 DEF SignOut, github
<1>5. CASE DropCookie(r)  BY <1>1, <1>5 DEF DropCookie, At, github
<1>6. CASE Arrive(r)  BY <1>2, <1>6 DEF Arrive, github
<1>7. CASE ReadRow(r) /\ Ends(r)  BY <1>1, <1>7 DEF ReadRow, At, github
<1>8. CASE RefreshFails(r)  BY <1>1, <1>8 DEF RefreshFails, At, github
<1>9. CASE PersistFails(r)  BY <1>1, <1>9 DEF PersistFails, github
<1>10. CASE Answers(r)  BY <1>1, <1>10 DEF Answers, At, github
<1>11. CASE GitHubAuthError(r)
  <2>1. CASE Ends(r)  BY <1>1, <1>11, <2>1 DEF GitHubAuthError, At, github
  <2>2. CASE Goto(r, "refused")
    <3>1. "refused" \in Stages /\ request[r].session \in Sessions /\ lost \subseteq Sessions
      BY <1>11 DEF Stages, GitHubAuthError, IInv, TypeOK, HasSession, At
    <3> QED BY <1>11, <2>2, <3>1, Going, QuietInv DEF GitHubAuthError, IInv, At, github
  <2> QED BY <1>11, <2>1, <2>2 DEF GitHubAuthError
<1> QED BY <1>3, <1>4, <1>5, <1>6, <1>7, <1>8, <1>9, <1>10, <1>11

-----------------------------------------------------------------------------
(* The steps that sign in, and the one that deletes a row.                 *)

LEMMA ExchangeInv ==
    ASSUME IInv, NEW r \in Requests, exchangeCodeForToken(r) PROVE IInv'
<1> USE DEF IInv
<1>1. PICK s \in Sessions :
        /\ newest[s] = 0 /\ newest' = [newest EXCEPT ![s] = 1]
        /\ Become(r, [pc |-> "create", session |-> s, pair |-> 1])
  BY DEF exchangeCodeForToken
<1> DEFINE x == [pc |-> "create", session |-> s, pair |-> 1]
<1>2. x \in RequestState /\ x.pc = "create" /\ x.session = s /\ x.pair = 1
  BY BoundsAssumption DEF RequestState, Stages, Pairs
<1> HIDE DEF x
<1>3. OnlyRequest(r) /\ request'[r] = x
  BY <1>1, <1>2, Becoming DEF x
<1>4. /\ newest' \in [Sessions -> 0 .. MaxPairs] /\ newest'[s] = 1
      /\ \A t \in Sessions \ {s} : newest'[t] = newest[t]
  BY <1>1, BoundsAssumption DEF TypeOK
<1>5. UNCHANGED <<due, lost, row, cookie>> /\ At(r, "idle")
  BY DEF exchangeCodeForToken
<1>6. TypeOK' /\ HasSession'
  BY <1>2, <1>3, <1>4, <1>5, StepTypes DEF TypeOK
<1>7. UnbornUnknown'
  BY <1>2, <1>3, <1>4, <1>5 DEF UnbornUnknown, OnlyRequest
<1>8. CreatorAlone'
  <2> SUFFICES ASSUME NEW q \in Requests, request'[q].pc = "create"
               PROVE  LET u == request'[q].session IN
                      /\ request'[q].pair = 1 /\ newest'[u] = 1 /\ row[u] = NoRow /\ cookie # u
                      /\ \A p \in Requests : request'[p].session = u => p = q
    BY <1>5 DEF CreatorAlone, At
  <2>1. CASE q = r
    BY <1>1, <1>2, <1>3, <1>4, <2>1 DEF UnbornUnknown, OnlyRequest
  <2>2. CASE q # r
    <3>1. request'[q] = request[q] /\ request[q].session \in Sessions
      BY <1>3, <2>2 DEF HasSession, OnlyRequest
    <3>2. request[q].session # s
      BY <1>1 DEF UnbornUnknown
    <3> QED BY <1>2, <1>3, <1>4, <2>2, <3>1, <3>2 DEF CreatorAlone, At, OnlyRequest
  <2> QED BY <2>1, <2>2
<1>9. \A t \in Sessions : Persisting(t)' = Persisting(t)
  BY <1>2, <1>3, <1>5 DEF Persisting, At, OnlyRequest
<1>10. row[s] = NoRow
  BY <1>1 DEF UnbornUnknown
<1>11. RowBetween'
  BY <1>2, <1>3, <1>4, <1>5, <1>9, <1>10 DEF RowBetween, At, OnlyRequest
<1>12. RowIsUsable'
  BY <1>2, <1>3, <1>4, <1>5, <1>9, <1>10 DEF RowIsUsable, Persisting, At, OnlyRequest
<1> QED BY <1>6, <1>7, <1>8, <1>11, <1>12

LEMMA CreateInv == ASSUME IInv, NEW r \in Requests, createSession(r) PROVE IInv'
<1> USE DEF IInv
<1> DEFINE s == request[r].session
<1>1. /\ s \in Sessions /\ request[r].pair = 1 /\ newest[s] = 1
      /\ \A q \in Requests : request[q].session = s => q = r
  BY DEF createSession, HasSession, CreatorAlone, At
<1>2. /\ OnlyRequest(r) /\ request'[r].pc = "signed in"
      /\ request'[r].session = s
  BY Going DEF createSession, Stages
<1>3. /\ row' \in [Sessions -> {NoRow} \cup Pairs] /\ row'[s] = 1
      /\ \A t \in Sessions \ {s} : row'[t] = row[t]
  BY <1>1, BoundsAssumption DEF createSession, TypeOK, Pairs
<1>4. UNCHANGED <<newest, due, lost, cookie>> /\ At(r, "create")
  BY DEF createSession, github
<1> HIDE DEF s
<1>5. TypeOK' /\ HasSession'
  BY <1>1, <1>2, <1>3, <1>4, StepTypes DEF TypeOK
<1>6. UnbornUnknown'
  <2> SUFFICES ASSUME NEW t \in Sessions, newest[t] = 0
               PROVE  row'[t] = NoRow /\ cookie # t /\ \A q \in Requests : request'[q].session # t
    BY <1>4 DEF UnbornUnknown
  <2>1. row[t] = NoRow /\ cookie # t /\ \A q \in Requests : request[q].session # t
    BY DEF UnbornUnknown
  <2>2. t # s
    BY <1>1
  <2>3. \A q \in Requests : request'[q].session # t
    BY <1>2, <2>1, <2>2 DEF OnlyRequest
  <2> QED BY <1>3, <2>1, <2>2, <2>3
<1>7. CreatorAlone'
  <2> SUFFICES ASSUME NEW q \in Requests, request'[q].pc = "create"
               PROVE  LET u == request'[q].session IN
                      /\ request'[q].pair = 1 /\ newest[u] = 1 /\ row'[u] = NoRow /\ cookie # u
                      /\ \A p \in Requests : request'[p].session = u => p = q
    BY <1>4 DEF CreatorAlone, At
  <2>1. q # r /\ request'[q] = request[q] /\ request[q].session \in Sessions \ {s}
    BY <1>1, <1>2 DEF HasSession, OnlyRequest
  <2>2. LET u == request[q].session IN
        /\ request[q].pair = 1 /\ newest[u] = 1 /\ row[u] = NoRow /\ cookie # u
        /\ \A p \in Requests : request[p].session = u => p = q
    BY <2>1 DEF CreatorAlone, At
  <2>3. \A p \in Requests : request'[p].session = request[q].session => p = q
    BY <1>2, <2>1, <2>2 DEF OnlyRequest
  <2> QED BY <1>3, <2>1, <2>2, <2>3
<1>8. \A t \in Sessions : Persisting(t)' = Persisting(t)
  BY <1>2, <1>4 DEF Persisting, At, OnlyRequest
<1>9. Persisting(s) = {} /\ \A q \in Requests : ~(At(q, "refresh") /\ request[q].session = s)
  BY <1>1, <1>4 DEF Persisting, At
<1>10. \A q \in Requests, t \in Sessions :
          request'[q].pc = "refresh" /\ request'[q].session = t =>
              t # s /\ request'[q] = request[q]
  BY <1>2, <1>9 DEF At, OnlyRequest
<1>11. RowBetween'
  <2> SUFFICES ASSUME NEW t \in Sessions \ lost, row'[t] # NoRow
               PROVE  /\ row'[t] <= newest[t]
                      /\ Persisting(t) # {} => row'[t] < newest[t]
                      /\ \A q \in Requests : request'[q].pc = "refresh" /\ request'[q].session = t =>
                            request'[q].pair <= row'[t]
    BY <1>4, <1>8 DEF RowBetween, At
  <2>1. CASE t = s  BY <1>1, <1>3, <1>9, <1>10, <2>1
  <2>2. CASE t # s  BY <1>3, <1>10, <2>2 DEF RowBetween, At
  <2> QED BY <2>1, <2>2
<1>12. RowIsUsable'
  <2> SUFFICES ASSUME NEW t \in Sessions \ lost, row'[t] # NoRow
               PROVE  \/ row'[t] = newest[t] /\ Persisting(t) = {}
                      \/ \E q \in Requests : Persisting(t) = {q} /\ request'[q].pair = newest[t]
    BY <1>4, <1>8 DEF RowIsUsable
  <2>1. CASE t = s  BY <1>1, <1>3, <1>9, <2>1
  <2>2. CASE t # s
    <3>1. \A q \in Requests : Persisting(t) = {q} => request'[q] = request[q]
      BY <1>2, <1>4 DEF Persisting, At, OnlyRequest
    <3> QED BY <1>3, <2>2, <3>1 DEF RowIsUsable
  <2> QED BY <2>1, <2>2
<1> QED BY <1>5, <1>6, <1>7, <1>11, <1>12

LEMMA CookieInv == ASSUME IInv, NEW r \in Requests, SetCookie(r) PROVE IInv'
<1> USE DEF IInv
<1>1. OnlyRequest(r) /\ request'[r].pc = "idle" /\ request'[r].session = NoSession
  BY Ending DEF SetCookie
<1>2. UNCHANGED <<newest, due, lost, row>> /\ At(r, "signed in")
  BY DEF SetCookie, github
<1>3. cookie' = request[r].session /\ request[r].session \in Sessions
  BY DEF SetCookie, HasSession, At
<1>4. TypeOK' /\ HasSession'
  BY <1>1, <1>2, <1>3, StepTypes DEF TypeOK
<1>5. UnbornUnknown'
  <2> SUFFICES ASSUME NEW t \in Sessions, newest[t] = 0
               PROVE  row[t] = NoRow /\ cookie' # t /\ \A q \in Requests : request'[q].session # t
    BY <1>2 DEF UnbornUnknown
  <2>1. row[t] = NoRow /\ \A q \in Requests : request[q].session # t
    BY DEF UnbornUnknown
  <2>2. cookie' # t
    BY <1>3, <2>1
  <2>3. \A q \in Requests : request'[q].session # t
    BY <1>1, <2>1 DEF OnlyRequest, Sessions, NoSession
  <2> QED BY <2>1, <2>2, <2>3
<1>6. CreatorAlone'
  <2> SUFFICES ASSUME NEW q \in Requests, request'[q].pc = "create"
               PROVE  LET u == request'[q].session IN
                      /\ request'[q].pair = 1 /\ newest[u] = 1 /\ row[u] = NoRow /\ cookie' # u
                      /\ \A p \in Requests : request'[p].session = u => p = q
    BY <1>2 DEF CreatorAlone, At
  <2>1. q # r /\ request'[q] = request[q] /\ request[q].session \in Sessions
    BY <1>1 DEF HasSession, OnlyRequest
  <2> QED BY <1>1, <1>3, <2>1 DEF CreatorAlone, At, OnlyRequest, Sessions, NoSession
<1>7. \A t \in Sessions : Persisting(t)' = Persisting(t)
  BY <1>1, <1>2 DEF Persisting, At, OnlyRequest
<1>8. RowBetween'
  BY <1>1, <1>2, <1>7 DEF RowBetween, At, OnlyRequest
<1>9. RowIsUsable'
  <2>1. \A t \in Sessions, q \in Requests : Persisting(t) = {q} => request'[q] = request[q]
    BY <1>1, <1>2 DEF Persisting, At, OnlyRequest
  <2> QED BY <1>2, <1>7, <2>1 DEF RowIsUsable
<1> QED BY <1>4, <1>5, <1>6, <1>8, <1>9

LEMMA ClearInv == ASSUME IInv, NEW r \in Requests, clearSessionRow(r) PROVE IInv'
<1> USE DEF IInv
<1> DEFINE s == request[r].session
<1>1. s \in Sessions /\ request[r].pc \in {"sign out", "refused"}
  BY DEF clearSessionRow, HasSession
<1>2. /\ OnlyRequest(r) /\ request'[r].pc \in {"signed out", "idle"}
      /\ \/ request'[r].pc # "idle" /\ request'[r].session = s
         \/ request'[r].pc = "idle" /\ request'[r].session = NoSession
  BY Going, Ending DEF clearSessionRow, Stages
<1>3. /\ row' \in [Sessions -> {NoRow} \cup Pairs] /\ row'[s] = NoRow
      /\ \A t \in Sessions \ {s} : row'[t] = row[t]
  BY <1>1 DEF clearSessionRow, TypeOK
<1>4. UNCHANGED <<newest, due, lost, cookie>>
  BY DEF clearSessionRow, github
<1> HIDE DEF s
<1>5. TypeOK' /\ HasSession'
  BY <1>1, <1>2, <1>3, <1>4, StepTypes DEF TypeOK
<1>6. UnbornUnknown'
  <2> SUFFICES ASSUME NEW t \in Sessions, newest[t] = 0
               PROVE  row'[t] = NoRow /\ cookie # t /\ \A q \in Requests : request'[q].session # t
    BY <1>4 DEF UnbornUnknown
  <2>1. row[t] = NoRow /\ cookie # t /\ \A q \in Requests : request[q].session # t
    BY DEF UnbornUnknown
  <2>2. s # t /\ NoSession # t
    BY <2>1 DEF s, Sessions, NoSession
  <2>3. \A q \in Requests : request'[q].session # t
    BY <1>2, <2>1, <2>2 DEF OnlyRequest
  <2> QED BY <1>3, <2>1, <2>2, <2>3
<1>7. CreatorAlone'
  <2> SUFFICES ASSUME NEW q \in Requests, request'[q].pc = "create"
               PROVE  LET u == request'[q].session IN
                      /\ request'[q].pair = 1 /\ newest[u] = 1 /\ row'[u] = NoRow /\ cookie # u
                      /\ \A p \in Requests : request'[p].session = u => p = q
    BY <1>4 DEF CreatorAlone, At
  <2>1. q # r /\ request'[q] = request[q] /\ request[q].session \in Sessions
    BY <1>2 DEF HasSession, OnlyRequest
  <2>2. LET u == request[q].session IN
        /\ request[q].pair = 1 /\ newest[u] = 1 /\ row[u] = NoRow /\ cookie # u
        /\ \A p \in Requests : request[p].session = u => p = q
    BY <2>1 DEF CreatorAlone, At
  <2>3. \A p \in Requests : request'[p].session = request[q].session => p = q
    <3>1. s # request[q].session /\ NoSession # request[q].session
      BY <2>1, <2>2 DEF s, Sessions, NoSession
    <3> QED BY <1>2, <2>1, <2>2, <3>1 DEF OnlyRequest
  <2>4. row'[request[q].session] = NoRow
    BY <1>3, <2>1, <2>2
  <2> QED BY <2>1, <2>2, <2>3, <2>4
<1>8. \A t \in Sessions : Persisting(t)' = Persisting(t)
  BY <1>1, <1>2 DEF Persisting, At, OnlyRequest
<1>9. RowBetween'
  BY <1>2, <1>3, <1>4, <1>8 DEF RowBetween, At, OnlyRequest
<1>10. RowIsUsable'
  <2>1. \A t \in Sessions, q \in Requests : Persisting(t) = {q} => request'[q] = request[q]
    BY <1>1, <1>2 DEF Persisting, At, OnlyRequest
  <2> QED BY <1>3, <1>4, <1>8, <2>1 DEF RowIsUsable
<1> QED BY <1>5, <1>6, <1>7, <1>9, <1>10

-----------------------------------------------------------------------------
(* getSession: the steps between reading the row and storing a new pair.   *)

\* A step that changes only its own session's rows leaves sign-ins alone.
LEMMA OwnSession ==
    ASSUME IInv, NEW r \in Requests, OnlyRequest(r), ~At(r, "idle"), ~At(r, "create"),
           request'[r].pc # "create",
           request'[r].session \in {NoSession, request[r].session},
           cookie' = cookie, newest'[request[r].session] # 0,
           \A t \in Sessions \ {request[r].session} : newest'[t] = newest[t] /\ row'[t] = row[t]
    PROVE  UnbornUnknown' /\ CreatorAlone'
<1> USE DEF IInv
<1> DEFINE s == request[r].session
<1>1. s \in Sessions
  BY DEF HasSession, At
<1>2. request'[r].session \in {NoSession, s}
  OBVIOUS
<1>3. newest'[s] # 0 /\ \A t \in Sessions \ {s} : newest'[t] = newest[t] /\ row'[t] = row[t]
  OBVIOUS
<1>4. UnbornUnknown'
  <2> SUFFICES ASSUME NEW t \in Sessions, newest'[t] = 0
               PROVE  row'[t] = NoRow /\ cookie # t /\ \A q \in Requests : request'[q].session # t
    BY DEF UnbornUnknown
  <2> HIDE DEF s
  <2>1. t # s /\ NoSession # t
    BY <1>3 DEF Sessions, NoSession
  <2>2. row[t] = NoRow /\ cookie # t /\ \A q \in Requests : request[q].session # t
    BY <1>3, <2>1 DEF UnbornUnknown
  <2>3. \A q \in Requests : request'[q].session # t
    BY <1>2, <2>1, <2>2 DEF OnlyRequest
  <2> QED BY <1>3, <2>1, <2>2, <2>3
<1>5. CreatorAlone'
  <2> SUFFICES ASSUME NEW q \in Requests, request'[q].pc = "create"
               PROVE  LET u == request'[q].session IN
                      /\ request'[q].pair = 1 /\ newest'[u] = 1 /\ row'[u] = NoRow /\ cookie # u
                      /\ \A p \in Requests : request'[p].session = u => p = q
    BY DEF CreatorAlone, At
  <2>1. q # r /\ request'[q] = request[q] /\ request[q].session \in Sessions
    BY DEF HasSession, OnlyRequest
  <2>2. LET u == request[q].session IN
        /\ request[q].pair = 1 /\ newest[u] = 1 /\ row[u] = NoRow /\ cookie # u
        /\ \A p \in Requests : request[p].session = u => p = q
    BY <2>1 DEF CreatorAlone, At
  <2>3. s # request[q].session /\ NoSession # request[q].session
    BY <2>1, <2>2 DEF Sessions, NoSession
  <2> HIDE DEF s
  <2>4. \A p \in Requests : request'[p].session = request[q].session => p = q
    BY <1>2, <2>1, <2>2, <2>3 DEF OnlyRequest
  <2> QED BY <1>3, <2>1, <2>2, <2>3, <2>4
<1> QED BY <1>4, <1>5

LEMMA ReadInv == ASSUME IInv, NEW r \in Requests, ReadRow(r), ~Ends(r) PROVE IInv'
<1> USE DEF IInv
<1> DEFINE s == request[r].session
<1>1. s \in Sessions /\ At(r, "read") /\ row[s] # NoRow
  BY DEF ReadRow, HasSession, At, Mine
<1>2. /\ OnlyRequest(r) /\ request'[r].pc \in {"refresh", "use"}
      /\ request'[r].session = s /\ request'[r].pair = row[s]
  BY <1>1, Holding DEF ReadRow, At
<1>3. UNCHANGED <<newest, due, lost, row, cookie>>
  BY DEF ReadRow, github
<1>4. TypeOK' /\ HasSession'
  BY <1>1, <1>2, <1>3, StepTypes DEF TypeOK
<1>5. UnbornUnknown' /\ CreatorAlone'
  <2>1. newest[s] # 0
    BY <1>1 DEF UnbornUnknown
  <2> QED BY <1>1, <1>2, <1>3, <2>1, OwnSession DEF At
<1> HIDE DEF s
<1>6. \A t \in Sessions : Persisting(t)' = Persisting(t)
  BY <1>1, <1>2 DEF Persisting, At, OnlyRequest
<1>7. RowBetween'
  <2> SUFFICES ASSUME NEW t \in Sessions \ lost, row[t] # NoRow,
                      NEW q \in Requests, request'[q].pc = "refresh", request'[q].session = t
               PROVE  request'[q].pair <= row[t]
    BY <1>3, <1>6 DEF RowBetween, At
  <2>1. row[t] \in Nat
    BY BoundsAssumption DEF TypeOK, NoRow, Pairs
  <2>2. CASE q = r  BY <1>2, <2>1, <2>2
  <2>3. CASE q # r  BY <1>2, <2>3 DEF RowBetween, At, OnlyRequest
  <2> QED BY <2>2, <2>3
<1>8. RowIsUsable'
  <2>1. \A t \in Sessions, q \in Requests : Persisting(t) = {q} => request'[q] = request[q]
    BY <1>1, <1>2 DEF Persisting, At, OnlyRequest
  <2> QED BY <1>3, <1>6, <2>1 DEF RowIsUsable
<1> QED BY <1>4, <1>5, <1>7, <1>8

\* GitHub accepted the refresh token, so it was the newest, so it was the
\* row's, so no other request is about to store a pair.
LEMMA RefreshInv == ASSUME IInv, NEW r \in Requests, refreshAccessToken(r) PROVE IInv'
<1> USE DEF IInv
<1>0. PICK s \in Sessions : s = request[r].session
  BY DEF refreshAccessToken, HasSession, At
<1>1. s \in Sessions /\ At(r, "refresh") /\ newest[s] \in Nat
  BY <1>0 DEF refreshAccessToken, HasSession, At, TypeOK
<1>2. /\ OnlyRequest(r) /\ request'[r].pc = "persist"
      /\ request'[r].session = s /\ request'[r].pair = request[r].pair + 1
  BY <1>0, Refreshing
<1>3. /\ newest' \in [Sessions -> 0 .. MaxPairs]
      /\ request[r].pair = newest[s] /\ newest'[s] = newest[s] + 1
      /\ \A t \in Sessions \ {s} : newest'[t] = newest[t]
      /\ UNCHANGED <<due, lost, row, cookie>>
  BY <1>0, <1>1, Rotating DEF refreshAccessToken
<1>4. TypeOK' /\ HasSession'
  <2>1. request'[r].pair # NoRow
    BY <1>1, <1>2, <1>3 DEF NoRow
  <2> QED BY <1>1, <1>2, <1>3, <2>1, StepTypes DEF TypeOK
<1>5. UnbornUnknown' /\ CreatorAlone'
  <2>1. newest'[s] # 0
    BY <1>1, <1>3
  <2> QED BY <1>1, <1>2, <1>3, <2>1, <1>0, OwnSession DEF At
<1>6. ASSUME s \notin lost, row[s] # NoRow
      PROVE  row[s] = newest[s] /\ Persisting(s) = {}
  <2>1. newest[s] <= row[s] /\ row[s] <= newest[s] /\ (Persisting(s) # {} => row[s] < newest[s])
    BY <1>0, <1>1, <1>3, <1>6 DEF RowBetween
  <2>2. row[s] \in Nat
    BY <1>1, BoundsAssumption DEF TypeOK, NoRow, Pairs
  <2> QED BY <1>1, <2>1, <2>2
<1>7. /\ Persisting(s)' = Persisting(s) \cup {r}
      /\ \A t \in Sessions \ {s} : Persisting(t)' = Persisting(t)
  BY <1>0, <1>1, <1>2 DEF Persisting, At, OnlyRequest
<1>8. \A q \in Requests : request'[q].pc = "refresh" => request'[q] = request[q]
  BY <1>2 DEF OnlyRequest
<1>9. RowBetween'
  <2> SUFFICES ASSUME NEW t \in Sessions \ lost, row[t] # NoRow
               PROVE  /\ row[t] <= newest'[t]
                      /\ Persisting(t)' # {} => row[t] < newest'[t]
                      /\ \A q \in Requests : request'[q].pc = "refresh" /\ request'[q].session = t =>
                            request'[q].pair <= row[t]
    BY <1>3 DEF RowBetween, At
  <2>1. CASE t = s  BY <1>1, <1>3, <1>6, <1>8, <2>1 DEF RowBetween, At
  <2>2. CASE t # s  BY <1>3, <1>7, <1>8, <2>2 DEF RowBetween, At
  <2> QED BY <2>1, <2>2
<1>10. RowIsUsable'
  <2> SUFFICES ASSUME NEW t \in Sessions \ lost, row[t] # NoRow
               PROVE  \/ row[t] = newest'[t] /\ Persisting(t)' = {}
                      \/ \E q \in Requests : Persisting(t)' = {q} /\ request'[q].pair = newest'[t]
    BY <1>3 DEF RowIsUsable
  <2>1. CASE t = s
    <3>1. Persisting(t)' = {r} /\ request'[r].pair = newest'[t]
      BY <1>2, <1>3, <1>6, <1>7, <2>1
    <3> QED BY <3>1
  <2>2. CASE t # s
    <3>1. \A q \in Requests : Persisting(t) = {q} => request'[q] = request[q]
      BY <1>0, <1>1, <1>2 DEF Persisting, At, OnlyRequest
    <3> QED BY <1>3, <1>7, <2>2, <3>1 DEF RowIsUsable
  <2> QED BY <2>1, <2>2
<1> QED BY <1>4, <1>5, <1>9, <1>10

LEMMA UnansweredInv == ASSUME IInv, NEW r \in Requests, RefreshUnanswered(r) PROVE IInv'
<1> USE DEF IInv
<1> DEFINE s == request[r].session
<1>1. s \in Sessions /\ At(r, "refresh") /\ newest[s] \in Nat
  BY DEF RefreshUnanswered, HasSession, At, TypeOK
<1>2. OnlyRequest(r) /\ request'[r].pc = "idle" /\ request'[r].session = NoSession
  BY Ending DEF RefreshUnanswered
<1>3. /\ newest' \in [Sessions -> 0 .. MaxPairs] /\ newest'[s] = newest[s] + 1
      /\ \A t \in Sessions \ {s} : newest'[t] = newest[t]
      /\ lost' = lost \cup {s} /\ UNCHANGED <<due, row, cookie>>
  BY <1>1, Rotating DEF RefreshUnanswered
<1>4. TypeOK' /\ HasSession'
  BY <1>1, <1>2, <1>3, StepTypes DEF TypeOK
<1>5. UnbornUnknown' /\ CreatorAlone'
  <2>1. newest'[s] # 0
    BY <1>1, <1>3
  <2> QED BY <1>1, <1>2, <1>3, <2>1, OwnSession DEF At
<1> HIDE DEF s
<1>6. \A t \in Sessions : Persisting(t)' = Persisting(t)
  BY <1>1, <1>2 DEF Persisting, At, OnlyRequest
<1>7. \A q \in Requests : request'[q].pc = "refresh" => request'[q] = request[q]
  BY <1>2 DEF OnlyRequest
<1>8. RowBetween'
  BY <1>3, <1>6, <1>7 DEF RowBetween, At
<1>9. RowIsUsable'
  <2>1. \A t \in Sessions, q \in Requests : Persisting(t) = {q} => request'[q] = request[q]
    BY <1>1, <1>2 DEF Persisting, At, OnlyRequest
  <2> QED BY <1>3, <1>6, <2>1 DEF RowIsUsable
<1> QED BY <1>4, <1>5, <1>8, <1>9

\* The one request that is about to store a pair stores the newest.
LEMMA MaybeRefreshInv == ASSUME IInv, NEW r \in Requests, maybeRefresh(r) PROVE IInv'
<1> USE DEF IInv
<1>0. PICK s \in Sessions : s = request[r].session
  BY DEF maybeRefresh, HasSession, At
<1>1. s \in Sessions /\ At(r, "persist") /\ request[r].pair \in Pairs
  BY <1>0 DEF maybeRefresh, HasSession, At, TypeOK
<1>2. /\ OnlyRequest(r) /\ request'[r].pc = "use"
      /\ request'[r].session = s /\ request'[r].pair = request[r].pair
  BY <1>0, Going DEF maybeRefresh, Stages
<1>3. /\ row' \in [Sessions -> {NoRow} \cup Pairs]
      /\ row'[s] = IF row[s] = NoRow THEN NoRow ELSE request[r].pair
      /\ \A t \in Sessions \ {s} : row'[t] = row[t]
      /\ UNCHANGED <<newest, due, lost, cookie>>
  BY <1>0, <1>1 DEF maybeRefresh, TypeOK, github
<1>4. TypeOK' /\ HasSession'
  <2>1. request'[r].pair # NoRow
    BY <1>1, <1>2 DEF Pairs, NoRow
  <2> QED BY <1>1, <1>2, <1>3, <2>1, StepTypes DEF TypeOK
<1>5. UnbornUnknown' /\ CreatorAlone'
  <2>1. newest[s] # 0
    BY <1>0, <1>1 DEF UnbornUnknown
  <2> QED BY <1>1, <1>2, <1>3, <2>1, <1>0, OwnSession DEF At
<1>6. r \in Persisting(s)
  BY <1>0, <1>1 DEF Persisting
<1>7. ASSUME s \notin lost, row[s] # NoRow
      PROVE  row'[s] = newest[s] /\ row[s] < newest[s] /\ Persisting(s) = {r}
  <2>1. PICK q \in Requests : Persisting(s) = {q} /\ request[q].pair = newest[s]
    BY <1>1, <1>6, <1>7 DEF RowIsUsable
  <2>2. q = r
    BY <1>6, <2>1
  <2> QED BY <1>1, <1>3, <1>6, <1>7, <2>1, <2>2 DEF RowBetween
<1>8. /\ Persisting(s)' = Persisting(s) \ {r}
      /\ \A t \in Sessions \ {s} : Persisting(t)' = Persisting(t)
  BY <1>0, <1>1, <1>2 DEF Persisting, At, OnlyRequest
<1>9. \A q \in Requests : request'[q].pc = "refresh" => request'[q] = request[q]
  BY <1>2 DEF OnlyRequest
<1>10. RowBetween'
  <2> SUFFICES ASSUME NEW t \in Sessions \ lost, row'[t] # NoRow
               PROVE  /\ row'[t] <= newest[t]
                      /\ Persisting(t)' # {} => row'[t] < newest[t]
                      /\ \A q \in Requests : request'[q].pc = "refresh" /\ request'[q].session = t =>
                            request'[q].pair <= row'[t]
    BY <1>3 DEF RowBetween, At
  <2>1. CASE t = s
    <3>1. row[s] # NoRow /\ row[s] \in Nat /\ newest[s] \in Nat
      BY <1>1, <1>3, <2>1, BoundsAssumption DEF TypeOK, Pairs, NoRow
    <3>2. row'[s] = newest[s] /\ row[s] < newest[s] /\ Persisting(s)' = {}
      BY <1>7, <1>8, <2>1, <3>1
    <3>3. \A q \in Requests : request'[q].pc = "refresh" /\ request'[q].session = s =>
              request'[q].pair <= row[s] /\ request'[q].pair \in Nat
      <4> SUFFICES ASSUME NEW q \in Requests, request'[q].pc = "refresh", request'[q].session = s
                   PROVE  request'[q].pair <= row[s] /\ request'[q].pair \in Nat
        OBVIOUS
      <4>1. request[q] = request'[q] /\ request[q].pair \in Nat
        BY <1>9, BoundsAssumption DEF TypeOK, Pairs, NoRow
      <4>2. s \in Sessions \ lost /\ request[q].pc = "refresh" /\ request[q].session = s
        BY <2>1, <4>1
      <4> QED BY <3>1, <4>1, <4>2 DEF RowBetween, At
    <3> QED BY <2>1, <3>1, <3>2, <3>3
  <2>2. CASE t # s  BY <1>3, <1>8, <1>9, <2>2 DEF RowBetween, At
  <2> QED BY <2>1, <2>2
<1>11. RowIsUsable'
  <2> SUFFICES ASSUME NEW t \in Sessions \ lost, row'[t] # NoRow
               PROVE  \/ row'[t] = newest[t] /\ Persisting(t)' = {}
                      \/ \E q \in Requests : Persisting(t)' = {q} /\ request'[q].pair = newest[t]
    BY <1>3 DEF RowIsUsable
  <2>1. CASE t = s
    <3>1. row[s] # NoRow
      BY <1>3, <2>1
    <3> QED BY <1>7, <1>8, <2>1, <3>1
  <2>2. CASE t # s
    <3>1. \A q \in Requests : Persisting(t) = {q} => request'[q] = request[q]
      <4>1. r \notin Persisting(t)
        BY <1>0, <2>2 DEF Persisting
      <4> QED BY <1>2, <4>1 DEF OnlyRequest
    <3> QED BY <1>3, <1>8, <2>2, <3>1 DEF RowIsUsable
  <2> QED BY <2>1, <2>2
<1> QED BY <1>4, <1>5, <1>10, <1>11

-----------------------------------------------------------------------------
LEMMA NextInv == IInv /\ [Next]_vars => IInv'
<1> SUFFICES ASSUME IInv, [Next]_vars PROVE IInv'
  OBVIOUS
<1>1. CASE UNCHANGED vars
  BY <1>1 DEF vars, IInv, TypeOK, HasSession, UnbornUnknown, CreatorAlone, RowBetween,
       RowIsUsable, Persisting, At
<1>2. CASE \E s \in Sessions : Expire(s)
  BY <1>2, ExpireInv
<1>3. ASSUME NEW r \in Requests, SignInOrOut(r) PROVE IInv'
  BY <1>3, ExchangeInv, CreateInv, CookieInv, ClearInv, QuietSteps DEF SignInOrOut
<1>4. ASSUME NEW r \in Requests, getSession(r) PROVE IInv'
  BY <1>4, ReadInv, RefreshInv, UnansweredInv, MaybeRefreshInv, QuietSteps DEF getSession
<1>5. ASSUME NEW r \in Requests, Answers(r) \/ GitHubAuthError(r) PROVE IInv'
  BY <1>5, QuietSteps
<1> QED BY <1>1, <1>2, <1>3, <1>4, <1>5 DEF Next

LEMMA Invariant == Spec => []IInv
BY InitInv, NextInv, PTL DEF Spec

\* Every variable keeps its type, and a request that holds a token has a
\* session and a pair (session.ts getSession).
THEOREM TypeCorrect == Spec => []TypeOK
<1>1. IInv => TypeOK
  BY DEF IInv
<1> QED BY <1>1, Invariant, PTL

\* A session survives its refreshes, whatever requests refresh at once
\* (session.ts maybeRefresh): its row has the newest pair, or exactly one
\* request is about to store it, or an answer or a write was lost.
THEOREM UsableRow == Spec => []RowIsUsable
<1>1. IInv => RowIsUsable
  BY DEF IInv
<1> QED BY <1>1, Invariant, PTL

\* A deleted session row never comes back: only createSession makes a row
\* (session.ts maybeRefresh, clearSessionRow).
THEOREM SignedOut == Spec => SignedOutForGood
<1> DEFINE Inserts == \A s \in Sessions : row[s] = NoRow /\ row'[s] # NoRow =>
                         \E r \in Requests : At(r, "create") /\ request[r].session = s
<1>1. IInv /\ [Next]_vars => [Inserts]_vars
  <2> SUFFICES ASSUME IInv, Next, NEW s \in Sessions, row[s] = NoRow, row'[s] # NoRow
               PROVE  \E r \in Requests : At(r, "create") /\ request[r].session = s
    OBVIOUS
  <2> USE DEF IInv, TypeOK
  <2>1. PICK r \in Requests :
           createSession(r) \/ clearSessionRow(r) \/ maybeRefresh(r) \/ row' = row
    BY DEF Next, SignInOrOut, getSession, Expire, exchangeCodeForToken, CallbackFails, SetCookie,
         SignOut, DropCookie, Arrive, ReadRow, refreshAccessToken, RefreshFails,
         RefreshUnanswered, PersistFails, Answers, GitHubAuthError
  <2>2. createSession(r)
    BY <2>1 DEF clearSessionRow, maybeRefresh
  <2> QED BY <2>2 DEF createSession
<1> QED BY <1>1, Invariant, PTL DEF Spec, SignedOutForGood
=============================================================================
