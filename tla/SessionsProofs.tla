---------------------------- MODULE SessionsProofs ----------------------------
(***************************************************************************)
(* Tokens in the store, for any number of users, tokens, requests in       *)
(* flight and restarts: where a reset token can be, and what a finished    *)
(* sign-out leaves behind.                                                 *)
(***************************************************************************)
EXTENDS Sessions, TLAPS

LEMMA Names == Nobody \in Users /\ NoId \notin Ids /\ NoReset \notin ResetTokens
BY NamesAssumption DEF Nobody

LEMMA IdleType == Idle \in Request /\ Idle.op = "idle" /\ Idle.reset = NoReset /\ Idle.seen = {}
BY Names DEF Idle, Request

\* A step that begins, moves on or ends the request of one client.
LEMMA OneRequest ==
  ASSUME req \in [Reqs -> Request], NEW r \in Reqs, NEW new \in Request,
         req' = [req EXCEPT ![r] = new]
  PROVE  /\ req' \in [Reqs -> Request]
         /\ req'[r] = new
         /\ \A q \in Reqs \ {r} : req'[q] = req[q]
OBVIOUS

-----------------------------------------------------------------------------
(* Types.                                                                  *)

RowsTyped ==
  /\ user \in [Users -> User]
  /\ sess \in [Ids -> Session]
  /\ \A i \in Ids : sess[i].state # "none" => sess[i].root \in Ids
StoreTyped ==
  /\ fading \subseteq Ids /\ ending \subseteq Ids
  /\ outAccess \subseteq Ids /\ outRefresh \subseteq Ids
  /\ resetKey \in [Users -> ResetTokens \cup {NoReset}]
HistoryTyped ==
  /\ exchanged \in [Ids -> Nat] /\ resets \in [ResetTokens -> Nat]
  /\ signedOut \subseteq Ids /\ restarts \in 0..MaxRestarts
\* What a request carries at each of its steps.
Carries(q) ==
  /\ q.op \in {"refresh", "rotate"} => q.row \in Ids /\ q.id \in Ids /\ sess[q.row].state # "none"
  /\ q.op \in {"signout", "after"} => q.id \in Ids
  /\ \A i \in q.seen : sess[i].state # "none"
RequestsTyped == req \in [Reqs -> Request] /\ \A r \in Reqs : Carries(req[r])
Typed == RowsTyped /\ StoreTyped /\ HistoryTyped /\ RequestsTyped

LEMMA TypedType == Typed => TypeOK
BY DEF Typed, RowsTyped, StoreTyped, HistoryTyped, RequestsTyped, Carries, TypeOK

LEMMA TypedInit == Init => Typed
BY Names, IdleType, RefreshersAssumption
   DEF Init, Typed, RowsTyped, StoreTyped, HistoryTyped, RequestsTyped, Carries, User, Session

\* A client's step that keeps the rows there are.
LEMMA Carried ==
  ASSUME Typed, NEW r \in Reqs, NEW new \in Request, req' = [req EXCEPT ![r] = new],
         \A i \in Ids : sess[i].state # "none" => sess'[i].state # "none",
         Carries(new)'
  PROVE  RequestsTyped'
<1>1. /\ req' \in [Reqs -> Request] /\ req'[r] = new
      /\ \A q \in Reqs \ {r} : req'[q] = req[q]
  BY OneRequest DEF Typed, RequestsTyped
<1>2. ASSUME NEW q \in Reqs PROVE Carries(req[q])'
  <2>1. CASE q = r
    BY <1>1, <2>1 DEF Carries
  <2>2. CASE q # r
    BY <1>1, <2>2 DEF Typed, RequestsTyped, Carries, Request
  <2> QED
    BY <2>1, <2>2
<1> QED
  BY <1>1, <1>2 DEF RequestsTyped

LEMMA Opens ==
  ASSUME Typed, NEW r \in Reqs, NEW u \in Users,
         Register(r, u) \/ SignIn(r, u) \/ SocialSignIn(r, u)
  PROVE  Typed'
<1> DEFINE new == [Idle EXCEPT !.op = "open", !.user = u]
<1>1. req' = [req EXCEPT ![r] = new] /\ UNCHANGED <<sess, ages, store, history>>
  BY DEF Register, SignIn, SocialSignIn, Begin
<1>2. new \in Request /\ new.op = "open" /\ new.seen = {}
  BY IdleType DEF Request, Idle
<1>3. user' \in [Users -> User]
  <2>0. user \in [Users -> User]
    BY DEF Typed, RowsTyped
  <2>1. [status |-> "ACTIVE", password |-> TRUE] \in User
        /\ [user[u] EXCEPT !.status = "ACTIVE"] \in User
    BY <2>0 DEF User
  <2>2. CASE Register(r, u)
    BY <2>0, <2>1, <2>2 DEF Register
  <2>3. CASE SignIn(r, u)
    BY <2>0, <2>3 DEF SignIn
  <2>4. CASE SocialSignIn(r, u)
    BY <2>0, <2>1, <2>4 DEF SocialSignIn
  <2> QED
    BY <2>2, <2>3, <2>4
<1> HIDE DEF new
<1>4. RequestsTyped'
  BY <1>1, <1>2, Carried DEF Carries, store, ages
<1> QED
  BY <1>1, <1>3, <1>4 DEF Typed, RowsTyped, StoreTyped, HistoryTyped, store, ages, history

LEMMA Issues == ASSUME Typed, NEW r \in Reqs, NEW i \in Ids, Issue(r, i) PROVE Typed'
<1>1. /\ req' = [req EXCEPT ![r] = Idle] /\ UNCHANGED <<user, ages, store, history>>
      /\ sess' = [sess EXCEPT ![i] = NewSession(i, req[r].user, i)]
      /\ req[r].user \in Users
  BY DEF Issue, Typed, RequestsTyped, Request
<1>2. RowsTyped' /\ \A j \in Ids : sess[j].state # "none" => sess'[j].state # "none"
  BY <1>1 DEF Typed, RowsTyped, NewSession, Session
<1>3. RequestsTyped'
  BY <1>1, <1>2, IdleType, Carried DEF Carries, store, ages
<1> QED
  BY <1>1, <1>2, <1>3 DEF Typed, StoreTyped, HistoryTyped, store, ages, history

LEMMA Refreshes ==
  ASSUME Typed, NEW r \in Reqs, NEW i \in Ids, NEW row \in Ids, RefreshRead(r, i, row)
  PROVE  Typed'
<1> DEFINE new == [Idle EXCEPT !.op = "refresh", !.user = sess[i].owner, !.id = i, !.row = row]
<1>1. req' = [req EXCEPT ![r] = new] /\ UNCHANGED <<user, sess, ages, store, history>>
  BY DEF RefreshRead, Begin
<1>2. sess[i].owner \in Users /\ sess[row].state # "none"
  BY DEF RefreshRead, Live, Typed, RowsTyped, Session
<1>3. new \in Request /\ new.op = "refresh" /\ new.id = i /\ new.row = row
      /\ new.seen = {}
  BY <1>2, IdleType DEF Request, Idle
<1> HIDE DEF new
<1>4. RequestsTyped'
  BY <1>1, <1>2, <1>3, Carried DEF Carries, store, ages
<1> QED
  BY <1>1, <1>4 DEF Typed, RowsTyped, StoreTyped, HistoryTyped, store, ages, history

LEMMA RefreshStores == ASSUME Typed, NEW r \in Reqs, RefreshStore(r) PROVE Typed'
<1> DEFINE new == [req[r] EXCEPT !.op = "rotate"]
<1>1. /\ req' = [req EXCEPT ![r] = new] /\ outRefresh' = outRefresh \cup Blacklisted(req[r].id, ending)
      /\ UNCHANGED <<user, sess, ages, resetKey, history>>
  BY DEF RefreshStore
<1>2. req[r] \in Request /\ Carries(req[r]) /\ req[r].op = "refresh"
  BY DEF Typed, RequestsTyped, RefreshStore
<1>3. new \in Request /\ new.op = "rotate" /\ new.id = req[r].id /\ new.row = req[r].row
      /\ new.seen = req[r].seen
  BY <1>2 DEF Request
<1>4. PICK access \in {req[r].id, NoId} : outAccess' = outAccess \cup Blacklisted(access, fading)
  BY DEF RefreshStore
<1> HIDE DEF new
<1>5. StoreTyped'
  BY <1>1, <1>2, <1>4, Names DEF Typed, StoreTyped, Carries, Blacklisted, ages
<1>6. RequestsTyped'
  BY <1>1, <1>2, <1>3, Carried DEF Carries
<1> QED
  BY <1>1, <1>5, <1>6 DEF Typed, RowsTyped, HistoryTyped, history

LEMMA RefreshCommits ==
  ASSUME Typed, NEW r \in Reqs, NEW i \in Ids, RefreshCommit(r, i) PROVE Typed'
<1>1. /\ req' = [req EXCEPT ![r] = Idle]
      /\ sess' = [sess EXCEPT ![req[r].row].state = "revoked",
                              ![i] = NewSession(i, req[r].user, sess[req[r].row].root)]
      /\ exchanged' = [exchanged EXCEPT ![req[r].id] = @ + 1]
      /\ UNCHANGED <<user, ages, store, resets, signedOut, restarts>>
  BY DEF RefreshCommit
<1>2. req[r] \in Request /\ Carries(req[r]) /\ req[r].op = "rotate"
  BY DEF Typed, RequestsTyped, RefreshCommit
<1>3. req[r].row \in Ids /\ req[r].user \in Users /\ sess[req[r].row].root \in Ids
  BY <1>2 DEF Carries, Request, Typed, RowsTyped
<1>4. RowsTyped' /\ \A j \in Ids : sess[j].state # "none" => sess'[j].state # "none"
  BY <1>1, <1>3 DEF Typed, RowsTyped, NewSession, Session
<1>5. exchanged' \in [Ids -> Nat]
  BY <1>1, <1>2 DEF Typed, HistoryTyped, Carries
<1>6. RequestsTyped'
  BY <1>1, <1>4, IdleType, Carried DEF Carries, store, ages
<1> QED
  BY <1>1, <1>4, <1>5, <1>6 DEF Typed, StoreTyped, HistoryTyped, store, ages

\* A request that will revoke the sessions it has seen.
LEMMA Revokes ==
  ASSUME Typed, NEW r \in Reqs, NEW new \in Request, Begin(r, new),
         new.op \in {"revoke", "signout"}, new.op = "signout" => new.id \in Ids,
         \A i \in new.seen : sess[i].state # "none",
         UNCHANGED <<user, sess, ages, outRefresh, history>>, StoreTyped'
  PROVE  Typed'
<1>1. req' = [req EXCEPT ![r] = new]
  BY DEF Begin
<1>2. RequestsTyped'
  BY <1>1, Carried DEF Carries
<1> QED
  BY <1>2 DEF Typed, RowsTyped, HistoryTyped, history

LEMMA Owners ==
  ASSUME Typed, NEW i \in Ids 
  PROVE  /\ sess[i].owner \in Users
         /\ \A u \in Users : Live(u) \subseteq Ids /\ \A j \in Live(u) : sess[j].state # "none"
BY DEF Typed, RowsTyped, Session, Live

LEMMA SignsOut == ASSUME Typed, NEW r \in Reqs, NEW i \in Ids, SignOut(r, i) PROVE Typed'
<1> DEFINE new == [Idle EXCEPT !.op = "signout", !.user = sess[i].owner, !.id = i,
                               !.seen = Live(sess[i].owner)]
<1>1. new \in Request /\ new.op = "signout" /\ new.id = i
      /\ \A j \in new.seen : sess[j].state # "none"
  BY Owners, IdleType DEF Idle, Request
<1>2. Begin(r, new) /\ StoreTyped' /\ UNCHANGED <<user, sess, ages, outRefresh, history>>
  BY DEF SignOut, Typed, StoreTyped, Blacklisted, ages
<1> HIDE DEF new
<1> QED
  BY <1>1, <1>2, Revokes

LEMMA RevokesOthers == ASSUME Typed, NEW r \in Reqs, NEW i \in Ids, RevokeOthers(r, i) PROVE Typed'
<1> DEFINE new == [Idle EXCEPT !.op = "revoke", !.user = sess[i].owner, !.seen = Live(sess[i].owner)]
<1>1. new \in Request /\ new.op = "revoke" /\ \A j \in new.seen : sess[j].state # "none"
  BY Owners, IdleType DEF Idle, Request
<1>2. Begin(r, new) /\ StoreTyped' /\ UNCHANGED <<user, sess, ages, outRefresh, history>>
  BY DEF RevokeOthers, Typed, StoreTyped, store, ages
<1> HIDE DEF new
<1> QED
  BY <1>1, <1>2, Revokes

LEMMA ChangesPassword ==
  ASSUME Typed, NEW r \in Reqs, NEW i \in Ids, NEW forced \in BOOLEAN, ChangePassword(r, i, forced)
  PROVE  Typed'
<1> DEFINE u == sess[i].owner
           new == [Idle EXCEPT !.op = "revoke", !.user = u, !.password = TRUE, !.seen = Live(u),
                               !.id = IF forced THEN NoId ELSE i]
<1>1. new \in Request /\ new.op = "revoke" /\ \A j \in new.seen : sess[j].state # "none"
  BY Owners, IdleType DEF Idle, Request
<1>2. Begin(r, new) /\ StoreTyped' /\ UNCHANGED <<user, sess, ages, outRefresh, history>>
  BY DEF ChangePassword, Typed, StoreTyped, store, ages
<1> HIDE DEF new
<1> QED
  BY <1>1, <1>2, Revokes

LEMMA ResetsPassword ==
  ASSUME Typed, NEW r \in Reqs, NEW u \in Users, NEW t \in ResetTokens, ResetPassword(r, u, t)
  PROVE  Typed'
<1> DEFINE new == [Idle EXCEPT !.op = "revoke", !.user = u, !.password = TRUE, !.reset = t,
                               !.seen = Live(u)]
<1>1. new \in Request /\ new.op = "revoke" /\ \A j \in new.seen : sess[j].state # "none"
  BY IdleType DEF Idle, Request, Live
<1>2. Begin(r, new) /\ StoreTyped' /\ UNCHANGED <<user, sess, ages, outRefresh, history>>
  BY DEF ResetPassword, Typed, StoreTyped, ages
<1> HIDE DEF new
<1> QED
  BY <1>1, <1>2, Revokes

LEMMA Ends == ASSUME Typed, NEW r \in Reqs, EndSessions(r) PROVE Typed'
<1> DEFINE q == req[r]
           new == IF q.op = "revoke" /\ q.id # NoId THEN [q EXCEPT !.op = "after"] ELSE Idle
<1>1. q \in Request /\ Carries(q) /\ q.op \in {"revoke", "signout"}
  BY DEF Typed, RequestsTyped, EndSessions
<1>2. req' = [req EXCEPT ![r] = new] /\ UNCHANGED <<ages, store, exchanged, restarts>>
  BY DEF EndSessions
<1>3. new \in Request /\ (new.op \in {"idle", "after"}) /\ (new.op = "after" => new.id \in Ids)
      /\ \A i \in new.seen : sess[i].state # "none" /\ i \in Ids
  BY <1>1, IdleType DEF Request, Carries
<1>4. RowsTyped' /\ \A j \in Ids : sess[j].state # "none" => sess'[j].state # "none"
  <2> DEFINE row == [user[q.user] EXCEPT !.password = @ \/ q.password]
  <2>1. sess' = [i \in Ids |-> IF i \in q.seen THEN [sess[i] EXCEPT !.state = "revoked"] ELSE sess[i]]
        /\ user' = [user EXCEPT ![q.user] = row]
    BY <1>1 DEF EndSessions, Typed, RowsTyped, Request
  <2>2. row \in User
    <3>1. user[q.user] \in User
      BY <1>1 DEF Typed, RowsTyped, Request
    <3>2. (user[q.user].password \/ q.password) \in BOOLEAN
      OBVIOUS
    <3> QED
      BY <3>1, <3>2 DEF User
  <2> HIDE DEF row, q, new
  <2>3. user' \in [Users -> User]
    BY <2>1, <2>2 DEF Typed, RowsTyped
  <2>4. \A i \in Ids : /\ sess'[i] = [sess[i] EXCEPT !.state = "revoked"] \/ sess'[i] = sess[i]
                       /\ sess[i] \in Session
    BY <2>1 DEF Typed, RowsTyped
  <2>5. sess' = [i \in Ids |-> sess'[i]]
    BY <2>1
  <2>6. /\ \A i \in Ids : sess'[i] \in Session /\ sess'[i].root = sess[i].root
        /\ \A i \in Ids : i \notin q.seen => sess'[i] = sess[i]
    BY <2>1, <2>4 DEF Session
  <2>7. \A i \in q.seen \cap Ids : sess[i].state # "none"
    BY <1>1 DEF Carries
  <2> QED
    BY <2>3, <2>4, <2>5, <2>6, <2>7 DEF Typed, RowsTyped, Session
<1>5. HistoryTyped'
  <2>1. resets' \in [ResetTokens -> Nat]
    <3>1. resets \in [ResetTokens -> Nat] /\ q.reset \in ResetTokens \cup {NoReset}
      BY <1>1 DEF Request, Typed, HistoryTyped
    <3>2. resets' = IF q.reset = NoReset THEN resets ELSE [resets EXCEPT ![q.reset] = @ + 1]
      BY DEF EndSessions
    <3> HIDE DEF q, new
    <3> QED
      BY <3>1, <3>2
  <2>2. signedOut' \subseteq Ids
    BY <1>1 DEF EndSessions, Typed, HistoryTyped, Carries
  <2> QED
    BY <1>2, <2>1, <2>2 DEF Typed, HistoryTyped
<1> HIDE DEF q, new
<1>6. RequestsTyped'
  BY <1>2, <1>3, <1>4, Carried DEF Carries, store, ages
<1> QED
  BY <1>2, <1>4, <1>5, <1>6 DEF Typed, StoreTyped, store, ages

LEMMA After == ASSUME Typed, NEW r \in Reqs, AfterChange(r) PROVE Typed'
<1>1. /\ req' = [req EXCEPT ![r] = Idle] /\ req[r].id \in Ids
      /\ outAccess' = outAccess \cup Blacklisted(req[r].id, fading)
      /\ signedOut' = signedOut \cup {req[r].id}
      /\ UNCHANGED <<user, sess, ages, outRefresh, resetKey, exchanged, resets, restarts>>
  BY DEF AfterChange, Typed, RequestsTyped, Carries
<1>2. RequestsTyped'
  BY <1>1, IdleType, Carried DEF Carries
<1> QED
  BY <1>1, <1>2 DEF Typed, RowsTyped, StoreTyped, HistoryTyped, Blacklisted, ages

LEMMA Aborts == ASSUME Typed, NEW r \in Reqs, Abort(r) PROVE Typed'
<1>1. req' = [req EXCEPT ![r] = Idle] /\ UNCHANGED <<user, sess, ages, store, history>>
  BY DEF Abort
<1>2. RequestsTyped'
  BY <1>1, IdleType, Carried DEF Carries, store, ages
<1> QED
  BY <1>1, <1>2 DEF Typed, RowsTyped, StoreTyped, HistoryTyped, store, ages, history

\* Steps of nobody's request.
LEMMA RequestsStay ==
  ASSUME Typed, UNCHANGED <<sess, req>> PROVE RequestsTyped'
BY DEF Typed, RequestsTyped, Carries

LEMMA Others ==
  ASSUME Typed,
         \/ \E u \in Users, t \in ResetTokens : ForgotPassword(u, t)
         \/ \E u \in Users : AdminReset(u)
         \/ \E u \in Users, status \in {"ACTIVE", "SUSPENDED"} : SetStatus(u, status)
         \/ \E i \in Ids : AgeAccess(i) \/ AgeRefresh(i)
         \/ \E u \in Users : ResetExpires(u)
         \/ UNCHANGED vars
  PROVE  Typed'
<1>1. UNCHANGED <<sess, req, history>>
  BY DEF ForgotPassword, AdminReset, SetStatus, AgeAccess, AgeRefresh, ResetExpires, vars, store, ages
<1>2. user' \in [Users -> User]
  BY DEF ForgotPassword, AdminReset, SetStatus, AgeAccess, AgeRefresh, ResetExpires, vars, Typed, RowsTyped, User
<1>3. StoreTyped'
  BY DEF ForgotPassword, AdminReset, SetStatus, AgeAccess, AgeRefresh, ResetExpires, vars, store, ages, Typed, StoreTyped
<1>4. RequestsTyped'
  BY <1>1, RequestsStay
<1> QED
  BY <1>1, <1>2, <1>3, <1>4 DEF Typed, RowsTyped, HistoryTyped, history

LEMMA Restarts == ASSUME Typed, Restart PROVE Typed'
BY IdleType, RefreshersAssumption
   DEF Restart, Typed, RowsTyped, StoreTyped, HistoryTyped, RequestsTyped, Carries, ages

LEMMA TypedStep == Typed /\ [Next]_vars => Typed'
<1> SUFFICES ASSUME Typed, [Next]_vars PROVE Typed'
  OBVIOUS
<1>1. ASSUME NEW r \in Reqs PROVE
        \/ \E u \in Users : Register(r, u) \/ SignIn(r, u) \/ SocialSignIn(r, u)
        \/ \E i \in Ids : Issue(r, i)
        \/ \E i, row \in Ids : RefreshRead(r, i, row)
        \/ RefreshStore(r)
        \/ \E i \in Ids : RefreshCommit(r, i)
        => Typed'
  BY Opens, Issues, Refreshes, RefreshStores, RefreshCommits
<1>2. ASSUME NEW r \in Reqs PROVE
        \/ \E i \in Ids : SignOut(r, i) \/ RevokeOthers(r, i)
        \/ \E i \in Ids, forced \in BOOLEAN : ChangePassword(r, i, forced)
        \/ \E u \in Users, t \in ResetTokens : ResetPassword(r, u, t)
        \/ EndSessions(r) \/ AfterChange(r) \/ Abort(r)
        => Typed'
  BY SignsOut, RevokesOthers, ChangesPassword, ResetsPassword, Ends, After, Aborts
<1> QED
  BY <1>1, <1>2, Others, Restarts DEF Next, SignInCalls, AccountCalls, RecoveryCalls

\* Every row, key, request and count keeps its type, and a refresh
\* (AuthService.refresh_access_token) holds a token and a row.
THEOREM TypeCorrect == Spec => []TypeOK
BY TypedType, TypedInit, TypedStep, PTL DEF Spec

-----------------------------------------------------------------------------
(* Where a reset token can be: under the key of one user, then with the    *)
(* one request that matched it, then spent.                                *)

ResetInv ==
  /\ \A r \in Reqs : req[r].reset # NoReset => req[r].op = "revoke" /\ req[r].id = NoId
  /\ \A r, q \in Reqs : req[r].reset # NoReset /\ req[r].reset = req[q].reset => r = q
  /\ \A r \in Reqs, u \in Users : req[r].reset # NoReset => resetKey[u] # req[r].reset
  /\ \A u, v \in Users : resetKey[u] # NoReset /\ resetKey[u] = resetKey[v] => u = v
  /\ \A t \in ResetTokens : resets[t] = 0 \/
       /\ resets[t] = 1
       /\ \A u \in Users : resetKey[u] # t
       /\ \A r \in Reqs : req[r].reset # t

LEMMA ResetInit == Init => ResetInv
BY Names, IdleType DEF Init, ResetInv

\* A request that takes no reset token, keys that stay or expire.
LEMMA NoneTaken ==
  ASSUME Typed, ResetInv, NEW r \in Reqs, NEW new \in Request, req' = [req EXCEPT ![r] = new],
         new.reset = NoReset, \A u \in Users : resetKey'[u] \in {resetKey[u], NoReset},
         UNCHANGED resets
  PROVE  ResetInv'
<1>1. /\ req'[r] = new
      /\ \A q \in Reqs \ {r} : req'[q] = req[q]
  BY OneRequest DEF Typed, RequestsTyped
<1> QED
  BY <1>1, Names DEF ResetInv

LEMMA TokenTaken ==
  ASSUME Typed, ResetInv, NEW r \in Reqs, NEW u \in Users, NEW t \in ResetTokens,
         ResetPassword(r, u, t)
  PROVE  ResetInv'
<1> DEFINE new == [Idle EXCEPT !.op = "revoke", !.user = u, !.password = TRUE, !.reset = t,
                               !.seen = Live(u)]
<1>1. new \in Request /\ new.op = "revoke" /\ new.reset = t /\ new.id = NoId
  BY IdleType DEF Idle, Request, Live
<1>2. /\ req' = [req EXCEPT ![r] = new] /\ UNCHANGED resets
      /\ resetKey[u] = t /\ resetKey' = [resetKey EXCEPT ![u] = NoReset]
  BY DEF ResetPassword, Begin, history
<1> HIDE DEF new
<1>3. /\ req'[r] = new
      /\ \A q \in Reqs \ {r} : req'[q] = req[q]
  BY <1>1, <1>2, OneRequest DEF Typed, RequestsTyped
<1>4. resetKey'[u] = NoReset /\ \A v \in Users \ {u} : resetKey'[v] = resetKey[v]
  BY <1>2 DEF Typed, StoreTyped
<1>5. \A v \in Users : resetKey'[v] # t
  BY <1>2, <1>4, Names DEF ResetInv
<1>6. \A q \in Reqs \ {r} : req[q].reset # t
  BY <1>2, Names DEF ResetInv
<1>7. resets[t] = 0
  BY <1>2 DEF ResetInv
<1> QED
  BY <1>1, <1>2, <1>3, <1>4, <1>5, <1>6, <1>7, Names DEF ResetInv

LEMMA TokenSpent ==
  ASSUME Typed, ResetInv, NEW r \in Reqs, EndSessions(r) PROVE ResetInv'
<1> DEFINE q == req[r]
           new == IF q.op = "revoke" /\ q.id # NoId THEN [q EXCEPT !.op = "after"] ELSE Idle
<1>1. q \in Request /\ (q.reset # NoReset => q.op = "revoke" /\ q.id = NoId)
  BY DEF Typed, RequestsTyped, ResetInv
<1>2. /\ req' = [req EXCEPT ![r] = new] /\ UNCHANGED resetKey
      /\ resets' = IF q.reset = NoReset THEN resets ELSE [resets EXCEPT ![q.reset] = @ + 1]
  BY DEF EndSessions, store, ages
<1>3. new \in Request /\ new.reset = NoReset
  BY <1>1, IdleType DEF Request
<1>4. q.reset \in ResetTokens \cup {NoReset}
  BY <1>1 DEF Request
<1> HIDE DEF new
<1>5. CASE q.reset = NoReset
  BY <1>2, <1>3, <1>5, NoneTaken
<1>6. CASE q.reset # NoReset
  <2>1. /\ req'[r] = new
        /\ \A p \in Reqs \ {r} : req'[p] = req[p]
    BY <1>2, <1>3, OneRequest DEF Typed, RequestsTyped
  <2>2. /\ \A p \in Reqs : req'[p].reset # q.reset
        /\ \A u \in Users : resetKey'[u] # q.reset
    BY <1>2, <1>3, <1>6, <2>1 DEF ResetInv
  <2>3. resets[q.reset] = 0
    BY <1>4, <1>6 DEF ResetInv
  <2>4. \A t \in ResetTokens : resets'[t] = IF t = q.reset THEN 1 ELSE resets[t]
    BY <1>2, <1>4, <1>6, <2>3 DEF Typed, HistoryTyped
  <2> HIDE DEF q
  <2> QED
    BY <1>2, <1>3, <2>1, <2>2, <2>4, Names DEF ResetInv
<1> QED
  BY <1>5, <1>6

LEMMA TokenGiven ==
  ASSUME Typed, ResetInv, NEW u \in Users, NEW t \in ResetTokens, ForgotPassword(u, t)
  PROVE  ResetInv'
<1>1. /\ resets[t] = 0 /\ UNCHANGED <<req, resets>>
      /\ \A v \in Users : resetKey[v] # t
      /\ \A r \in Reqs : req[r].reset # t
      /\ resetKey' = [resetKey EXCEPT ![u] = t]
  BY DEF ForgotPassword, history
<1>2. resetKey'[u] = t /\ \A v \in Users \ {u} : resetKey'[v] = resetKey[v]
  BY <1>1 DEF Typed, StoreTyped
<1> QED
  BY <1>1, <1>2 DEF ResetInv

LEMMA ResetStep == Typed /\ ResetInv /\ [Next]_vars => ResetInv'
<1> SUFFICES ASSUME Typed, ResetInv, [Next]_vars PROVE ResetInv'
  OBVIOUS
<1>0. Idle.reset = NoReset /\ Idle \in Request /\ \A r \in Reqs : req[r] \in Request
  BY IdleType DEF Typed, RequestsTyped
<1>1. ASSUME NEW r \in Reqs, NEW new, Begin(r, new), new \in Request, new.reset = NoReset,
             UNCHANGED <<resetKey, resets>>
      PROVE  ResetInv'
  BY <1>1, NoneTaken DEF Begin
<1>2. ASSUME NEW r \in Reqs, NEW u \in Users, Register(r, u) \/ SignIn(r, u) \/ SocialSignIn(r, u)
      PROVE  ResetInv'
  <2> DEFINE new == [Idle EXCEPT !.op = "open", !.user = u]
  <2>1. Begin(r, new) /\ UNCHANGED <<resetKey, resets>>
    BY <1>2 DEF Register, SignIn, SocialSignIn, store, ages, history
  <2>2. new \in Request /\ new.reset = NoReset
    BY <1>0 DEF Request, Idle
  <2> HIDE DEF new
  <2> QED
    BY <1>1, <2>1, <2>2
<1>3. ASSUME NEW r \in Reqs, NEW i \in Ids, NEW row \in Ids, RefreshRead(r, i, row) PROVE ResetInv'
  <2> DEFINE new == [Idle EXCEPT !.op = "refresh", !.user = sess[i].owner, !.id = i, !.row = row]
  <2>1. Begin(r, new) /\ UNCHANGED <<resetKey, resets>>
    BY <1>3 DEF RefreshRead, store, ages, history
  <2>2. new \in Request /\ new.reset = NoReset
    BY <1>0, Owners DEF Request, Idle
  <2> HIDE DEF new
  <2> QED
    BY <1>1, <2>1, <2>2
<1>4. ASSUME NEW r \in Reqs, RefreshStore(r) PROVE ResetInv'
  <2> DEFINE new == [req[r] EXCEPT !.op = "rotate"]
  <2>1. req' = [req EXCEPT ![r] = new] /\ UNCHANGED <<resetKey, resets>> /\ req[r].op = "refresh"
    BY <1>4 DEF RefreshStore, history
  <2>2. new \in Request /\ new.reset = NoReset
    BY <1>0, <2>1 DEF Request, ResetInv
  <2> HIDE DEF new
  <2> QED
    BY <2>1, <2>2, NoneTaken
<1>5. ASSUME NEW r \in Reqs, NEW i \in Ids, SignOut(r, i) PROVE ResetInv'
  <2> DEFINE new == [Idle EXCEPT !.op = "signout", !.user = sess[i].owner, !.id = i,
                                 !.seen = Live(sess[i].owner)]
  <2>1. Begin(r, new) /\ UNCHANGED <<resetKey, resets>>
    BY <1>5 DEF SignOut, history
  <2>2. new \in Request /\ new.reset = NoReset
    BY <1>0, Owners DEF Request, Idle, Live
  <2> HIDE DEF new
  <2> QED
    BY <1>1, <2>1, <2>2
<1>6. ASSUME NEW r \in Reqs, NEW i \in Ids, RevokeOthers(r, i) PROVE ResetInv'
  <2> DEFINE new == [Idle EXCEPT !.op = "revoke", !.user = sess[i].owner,
                                 !.seen = Live(sess[i].owner)]
  <2>1. Begin(r, new) /\ UNCHANGED <<resetKey, resets>>
    BY <1>6 DEF RevokeOthers, store, ages, history
  <2>2. new \in Request /\ new.reset = NoReset
    BY <1>0, Owners DEF Request, Idle, Live
  <2> HIDE DEF new
  <2> QED
    BY <1>1, <2>1, <2>2
<1>7. ASSUME NEW r \in Reqs, NEW i \in Ids, NEW forced \in BOOLEAN, ChangePassword(r, i, forced)
      PROVE  ResetInv'
  <2> DEFINE u == sess[i].owner
             new == [Idle EXCEPT !.op = "revoke", !.user = u, !.password = TRUE, !.seen = Live(u),
                                 !.id = IF forced THEN NoId ELSE i]
  <2>1. Begin(r, new) /\ UNCHANGED <<resetKey, resets>>
    BY <1>7 DEF ChangePassword, store, ages, history
  <2>2. new \in Request /\ new.reset = NoReset
    BY <1>0, Owners DEF Request, Idle, Live
  <2> HIDE DEF new
  <2> QED
    BY <1>1, <2>1, <2>2
<1>8. ASSUME NEW r \in Reqs, req' = [req EXCEPT ![r] = Idle], UNCHANGED <<resetKey, resets>>
      PROVE  ResetInv'
  BY <1>0, <1>8, NoneTaken
<1>9. ASSUME NEW r \in Reqs,
             \/ \E i \in Ids : Issue(r, i) \/ RefreshCommit(r, i)
             \/ AfterChange(r) \/ Abort(r)
      PROVE  ResetInv'
  BY <1>8, <1>9 DEF Issue, RefreshCommit, AfterChange, Abort, store, ages, history
<1>10. ASSUME \/ \E u \in Users : AdminReset(u)
              \/ \E u \in Users, status \in {"ACTIVE", "SUSPENDED"} : SetStatus(u, status)
              \/ \E i \in Ids : AgeAccess(i) \/ AgeRefresh(i)
              \/ UNCHANGED vars
       PROVE  ResetInv'
  <2>1. UNCHANGED <<req, resetKey, resets>>
    BY <1>10 DEF AdminReset, SetStatus, AgeAccess, AgeRefresh, vars, store, ages, history
  <2> QED
    BY <2>1 DEF ResetInv
<1>11. ASSUME NEW u \in Users, ResetExpires(u) PROVE ResetInv'
  <2>1. UNCHANGED <<req, resets>> /\ \A v \in Users : resetKey'[v] \in {resetKey[v], NoReset}
    BY <1>11 DEF ResetExpires, history, Typed, StoreTyped
  <2> QED
    BY <2>1, Names DEF ResetInv
<1>12. CASE Restart
  <2>1. /\ \A u \in Users : resetKey'[u] = NoReset
        /\ \A r \in Reqs : req'[r] = Idle
        /\ UNCHANGED resets
    BY <1>12 DEF Restart
  <2> QED
    BY <1>0, <2>1, Names DEF ResetInv
<1> QED
  BY <1>2, <1>3, <1>4, <1>5, <1>6, <1>7, <1>9, <1>10, <1>11, <1>12, TokenTaken, TokenSpent,
     TokenGiven DEF Next, SignInCalls, AccountCalls, RecoveryCalls

\* A reset token changes a password at most once, for any number of requests
\* that carry it at the same time (AuthService.reset_password).
THEOREM ResetsOnce == Spec => []ResetOnce
<1>1. ResetInv => ResetOnce
  BY DEF ResetInv, ResetOnce
<1> QED
  BY <1>1, TypedInit, TypedStep, ResetInit, ResetStep, PTL DEF Spec

-----------------------------------------------------------------------------
(* Sign-out: the blacklist entry is there before the request ends.         *)

Refused(i) == i \in outAccess \/ i \in fading
SignOutInv ==
  /\ \A i \in signedOut : Refused(i)
  /\ \A r \in Reqs : req[r].op = "signout" => Refused(req[r].id)

LEMMA SignOutInit == Init => SignOutInv
BY IdleType DEF Init, SignOutInv

LEMMA SignOutStep == Typed /\ SignOutInv /\ [Next]_vars => SignOutInv'
<1> SUFFICES ASSUME Typed, SignOutInv, [Next]_vars PROVE SignOutInv'
  OBVIOUS
<1>0. Idle.op = "idle" /\ Idle \in Request /\ req \in [Reqs -> Request]
  BY IdleType DEF Typed, RequestsTyped
<1>1. ASSUME NEW r \in Reqs, NEW new, req' = [req EXCEPT ![r] = new], new.op # "signout",
             outAccess \subseteq outAccess', UNCHANGED <<ages, signedOut>>
      PROVE  SignOutInv'
  <2>1. \A q \in Reqs : req'[q] = req[q] \/ req'[q] = new
    BY <1>0, <1>1
  <2> QED
    BY <1>1, <2>1 DEF SignOutInv, Refused, ages
<1>2. ASSUME NEW r \in Reqs, NEW u \in Users, Register(r, u) \/ SignIn(r, u) \/ SocialSignIn(r, u)
      PROVE  SignOutInv'
  <2> DEFINE new == [Idle EXCEPT !.op = "open", !.user = u]
  <2>1. req' = [req EXCEPT ![r] = new] /\ UNCHANGED <<outAccess, ages, signedOut>>
    BY <1>2 DEF Register, SignIn, SocialSignIn, Begin, store, ages, history
  <2>2. new.op = "open"
    BY DEF Idle
  <2> HIDE DEF new
  <2> QED
    BY <1>1, <2>1, <2>2
<1>3. ASSUME NEW r \in Reqs, NEW i \in Ids, NEW row \in Ids, RefreshRead(r, i, row) PROVE SignOutInv'
  <2> DEFINE new == [Idle EXCEPT !.op = "refresh", !.user = sess[i].owner, !.id = i, !.row = row]
  <2>1. req' = [req EXCEPT ![r] = new] /\ UNCHANGED <<outAccess, ages, signedOut>>
    BY <1>3 DEF RefreshRead, Begin, store, ages, history
  <2>2. new.op = "refresh"
    BY DEF Idle
  <2> HIDE DEF new
  <2> QED
    BY <1>1, <2>1, <2>2
<1>4. ASSUME NEW r \in Reqs, RefreshStore(r) PROVE SignOutInv'
  <2> DEFINE new == [req[r] EXCEPT !.op = "rotate"]
  <2>1. /\ req' = [req EXCEPT ![r] = new] /\ UNCHANGED <<ages, signedOut>>
        /\ outAccess \subseteq outAccess'
    BY <1>4 DEF RefreshStore, history
  <2>2. new.op = "rotate"
    BY <1>0 DEF Request
  <2> HIDE DEF new
  <2> QED
    BY <1>1, <2>1, <2>2
<1>5. ASSUME NEW r \in Reqs, NEW i \in Ids, SignOut(r, i) PROVE SignOutInv'
  <2> DEFINE new == [Idle EXCEPT !.op = "signout", !.user = sess[i].owner, !.id = i,
                                 !.seen = Live(sess[i].owner)]
  <2>1. /\ req' = [req EXCEPT ![r] = new] /\ UNCHANGED <<ages, signedOut>>
        /\ outAccess' = outAccess \cup Blacklisted(i, fading)
    BY <1>5 DEF SignOut, Begin, history
  <2>2. new.id = i
    BY DEF Idle
  <2> HIDE DEF new
  <2>3. \A q \in Reqs : req'[q] = req[q] \/ req'[q] = new
    BY <1>0, <2>1
  <2>4. Refused(i)'
    BY <2>1, Names DEF Refused, Blacklisted, ages
  <2>5. \A j : Refused(j) => Refused(j)'
    BY <2>1 DEF Refused, ages
  <2> QED
    BY <2>1, <2>2, <2>3, <2>4, <2>5 DEF SignOutInv
<1>6. ASSUME NEW r \in Reqs,
             \/ \E i \in Ids : RevokeOthers(r, i)
             \/ \E i \in Ids, forced \in BOOLEAN : ChangePassword(r, i, forced)
             \/ \E u \in Users, t \in ResetTokens : ResetPassword(r, u, t)
      PROVE  SignOutInv'
  <2>1. PICK new : new.op = "revoke" /\ req' = [req EXCEPT ![r] = new]
    <3>1. Idle = [op |-> "idle", user |-> Nobody, id |-> NoId, row |-> NoId, seen |-> {},
                  password |-> FALSE, reset |-> NoReset]
      BY DEF Idle
    <3>2. ASSUME NEW i \in Ids, RevokeOthers(r, i)
          PROVE  \E new : new.op = "revoke" /\ req' = [req EXCEPT ![r] = new]
      BY <3>1, <3>2 DEF RevokeOthers, Begin
    <3>3. ASSUME NEW i \in Ids, NEW forced \in BOOLEAN, ChangePassword(r, i, forced)
          PROVE  \E new : new.op = "revoke" /\ req' = [req EXCEPT ![r] = new]
      BY <3>1, <3>3 DEF ChangePassword, Begin
    <3>4. ASSUME NEW u \in Users, NEW t \in ResetTokens, ResetPassword(r, u, t)
          PROVE  \E new : new.op = "revoke" /\ req' = [req EXCEPT ![r] = new]
      BY <3>1, <3>4 DEF ResetPassword, Begin
    <3> QED
      BY <1>6, <3>2, <3>3, <3>4
  <2>2. UNCHANGED <<outAccess, ages, signedOut>>
    BY <1>6 DEF RevokeOthers, ChangePassword, ResetPassword, store, ages, history
  <2> QED
    BY <1>1, <2>1, <2>2
<1>7. ASSUME NEW r \in Reqs,
             \/ \E i \in Ids : Issue(r, i) \/ RefreshCommit(r, i)
             \/ Abort(r)
      PROVE  SignOutInv'
  <2>1. req' = [req EXCEPT ![r] = Idle] /\ UNCHANGED <<outAccess, ages, signedOut>>
    BY <1>7 DEF Issue, RefreshCommit, Abort, store, ages, history
  <2> QED
    BY <1>0, <1>1, <2>1
<1>8. ASSUME NEW r \in Reqs, EndSessions(r) PROVE SignOutInv'
  <2> DEFINE q == req[r]
             new == IF q.op = "revoke" /\ q.id # NoId THEN [q EXCEPT !.op = "after"] ELSE Idle
  <2>1. /\ req' = [req EXCEPT ![r] = new] /\ UNCHANGED <<outAccess, ages>>
        /\ signedOut' = IF q.op = "signout" THEN signedOut \cup {q.id} ELSE signedOut
    BY <1>8 DEF EndSessions, store, ages
  <2>2. new.op # "signout"
    BY <1>0 DEF Request
  <2> HIDE DEF new
  <2>3. \A p \in Reqs : req'[p] = req[p] \/ req'[p] = new
    BY <1>0, <2>1
  <2>4. q.op = "signout" => Refused(q.id)
    BY DEF SignOutInv
  <2>5. \A j : Refused(j)' <=> Refused(j)
    BY <2>1 DEF Refused, ages
  <2> QED
    BY <2>1, <2>2, <2>3, <2>4, <2>5 DEF SignOutInv
<1>9. ASSUME NEW r \in Reqs, AfterChange(r) PROVE SignOutInv'
  <2>1. /\ req' = [req EXCEPT ![r] = Idle] /\ UNCHANGED fading
        /\ outAccess' = outAccess \cup Blacklisted(req[r].id, fading)
        /\ signedOut' = signedOut \cup {req[r].id}
        /\ req[r].id \in Ids
    BY <1>9 DEF AfterChange, Typed, RequestsTyped, Carries, ages
  <2>2. \A q \in Reqs : req'[q] = req[q] \/ req'[q] = Idle
    BY <1>0, <2>1
  <2>3. req[r].id \in outAccess' \/ req[r].id \in fading'
    BY <2>1, Names DEF Blacklisted
  <2> QED
    BY <1>0, <2>1, <2>2, <2>3 DEF SignOutInv, Refused
<1>10. ASSUME \/ \E u \in Users, t \in ResetTokens : ForgotPassword(u, t)
              \/ \E u \in Users : AdminReset(u)
              \/ \E u \in Users, status \in {"ACTIVE", "SUSPENDED"} : SetStatus(u, status)
              \/ \E i \in Ids : AgeAccess(i) \/ AgeRefresh(i)
              \/ \E u \in Users : ResetExpires(u)
              \/ UNCHANGED vars
       PROVE  SignOutInv'
  <2>1. UNCHANGED <<req, signedOut>>
    BY <1>10 DEF ForgotPassword, AdminReset, SetStatus, AgeAccess, AgeRefresh, ResetExpires, vars, store, ages, history
  <2>2. \A j : Refused(j) => Refused(j)'
    BY <1>10 DEF ForgotPassword, AdminReset, SetStatus, AgeAccess, AgeRefresh, ResetExpires, vars, store, ages, Refused
  <2> QED
    BY <2>1, <2>2 DEF SignOutInv
<1>11. CASE Restart
  BY <1>0, <1>11 DEF Restart, SignOutInv
<1> QED
  BY <1>2, <1>3, <1>4, <1>5, <1>6, <1>7, <1>8, <1>9, <1>10, <1>11 DEF Next, SignInCalls, AccountCalls, RecoveryCalls

\* An access token that was signed out is refused until its final second or a
\* restart, for any number of clients (AuthService.logout, get_current_user).
THEOREM SignedOutStaysOut == Spec => []SignedOutRefused
<1>1. SignOutInv => SignedOutRefused
  BY DEF SignOutInv, SignedOutRefused, Refused, Accepted
<1> QED
  BY <1>1, TypedInit, TypedStep, SignOutInit, SignOutStep, PTL DEF Spec

-----------------------------------------------------------------------------
(* Rotation, while at most one request refreshes at a time: two that read  *)
(* the same token before either blacklists it both exchange it.            *)

OneRefresher == \A r, q \in Refreshers : r = q
Refreshing(r) == req[r].op \in {"refresh", "rotate"}
RootsIssued == \A i \in Ids : Issued(i) => sess[i].root \in Ids /\ Issued(sess[i].root)
\* What a refresh knows of its token before and after it is blacklisted.
RefreshAllowed(q) ==
  /\ q.op = "refresh" => q.id \notin outRefresh
  /\ q.op = "rotate" /\ q.id \notin ending => q.id \in outRefresh /\ exchanged[q.id] <= restarts
RotationInv ==
  /\ \A r \in Reqs : Refreshing(r) => r \in Refreshers
  /\ RootsIssued
  /\ RotationIsOneForOne
  /\ \A r \in Reqs, j \in Ids :
       Refreshing(r) /\ sess[j].state = "live" /\ sess[j].root = sess[req[r].row].root =>
         j = req[r].row
  /\ \A i \in Ids \ ending : exchanged[i] <= IF i \in outRefresh THEN 1 + restarts ELSE restarts
  /\ \A r \in Reqs : RefreshAllowed(req[r])

LEMMA RotationInit == Init => RotationInv
BY IdleType DEF Init, RotationInv, Refreshing, RotationIsOneForOne, RootsIssued, Issued, ages, RefreshAllowed

\* Sessions are revoked or stay, and the request is no longer a refresh.
LEMMA Revoked ==
  ASSUME Typed, RotationInv, NEW r \in Reqs, NEW new,
         new.op \notin {"refresh", "rotate"},
         req' = [req EXCEPT ![r] = new],
         \A i \in Ids : /\ sess'[i].root = sess[i].root
                        /\ sess'[i].state = "live" => sess[i].state = "live"
                        /\ Issued(i)' <=> Issued(i),
         UNCHANGED <<ages, outRefresh, exchanged, restarts>>
  PROVE  RotationInv'
<1>1. \A q \in Reqs : req'[q] = req[q] \/ req'[q] = new
  BY DEF Typed, RequestsTyped
<1>2. \A q \in Reqs : Refreshing(q)' => Refreshing(q) /\ req'[q] = req[q]
  BY <1>1 DEF Refreshing
<1>3. RootsIssued'
  BY DEF RotationInv, RootsIssued
<1>4. \A q \in Reqs : Refreshing(q) => req[q].row \in Ids
  BY DEF Typed, RequestsTyped, Carries, Refreshing
<1>5. RotationIsOneForOne'
  BY DEF RotationInv, RotationIsOneForOne
<1>6. \A q \in Reqs, j \in Ids :
        Refreshing(q)' /\ sess'[j].state = "live" /\ sess'[j].root = sess'[req'[q].row].root =>
          j = req'[q].row
  BY <1>2, <1>4 DEF RotationInv
<1>7. \A q \in Reqs : RefreshAllowed(req[q])'
  BY <1>1 DEF RotationInv, ages, RefreshAllowed
<1> QED
  BY <1>2, <1>3, <1>5, <1>6, <1>7 DEF RotationInv, ages, RefreshAllowed

LEMMA NoRefresh ==
  ASSUME NEW r \in Reqs, req[r] \in Request,
         \/ \E u \in Users : Register(r, u) \/ SignIn(r, u) \/ SocialSignIn(r, u)
         \/ \E i \in Ids : SignOut(r, i) \/ RevokeOthers(r, i)
         \/ \E i \in Ids, forced \in BOOLEAN : ChangePassword(r, i, forced)
         \/ \E u \in Users, t \in ResetTokens : ResetPassword(r, u, t)
         \/ AfterChange(r) \/ Abort(r)
  PROVE  /\ \E new : new.op \notin {"refresh", "rotate"} /\ req' = [req EXCEPT ![r] = new]
         /\ UNCHANGED <<sess, ages, outRefresh, exchanged, restarts>>
<1> DEFINE G == \E new : new.op \notin {"refresh", "rotate"} /\ req' = [req EXCEPT ![r] = new]
<1>0. Idle = [op |-> "idle", user |-> Nobody, id |-> NoId, row |-> NoId, seen |-> {},
              password |-> FALSE, reset |-> NoReset]
  BY DEF Idle
<1>1. ASSUME NEW u \in Users, Register(r, u) \/ SignIn(r, u) \/ SocialSignIn(r, u) PROVE G
  BY <1>0, <1>1 DEF Register, SignIn, SocialSignIn, Begin
<1>2. ASSUME NEW i \in Ids, SignOut(r, i) PROVE G
  BY <1>0, <1>2 DEF SignOut, Begin
<1>3. ASSUME NEW i \in Ids, RevokeOthers(r, i) PROVE G
  BY <1>0, <1>3 DEF RevokeOthers, Begin
<1>4. ASSUME NEW i \in Ids, NEW forced \in BOOLEAN, ChangePassword(r, i, forced) PROVE G
  BY <1>0, <1>4 DEF ChangePassword, Begin
<1>5. ASSUME NEW u \in Users, NEW t \in ResetTokens, ResetPassword(r, u, t) PROVE G
  BY <1>0, <1>5 DEF ResetPassword, Begin
<1>6. ASSUME AfterChange(r) \/ Abort(r) PROVE G
  <2>1. req' = [req EXCEPT ![r] = Idle] /\ Idle.op \notin {"refresh", "rotate"}
    BY <1>6, IdleType DEF AfterChange, Abort
  <2> QED
    BY <2>1
<1>7. G
  BY <1>1, <1>2, <1>3, <1>4, <1>5, <1>6
<1>8. UNCHANGED <<sess, ages, outRefresh, exchanged, restarts>>
  BY DEF Register, SignIn, SocialSignIn, SignOut, RevokeOthers, ChangePassword, ResetPassword,
         AfterChange, Abort, store, ages, history
<1> QED
  BY <1>7, <1>8

LEMMA RotationIssue ==
  ASSUME Typed, RotationInv, NEW r \in Reqs, NEW i \in Ids, Issue(r, i) PROVE RotationInv'
<1>1. /\ req' = [req EXCEPT ![r] = Idle] /\ ~Issued(i)
      /\ UNCHANGED <<ages, outRefresh, exchanged, restarts>>
      /\ sess'[i] = NewSession(i, req[r].user, i)
      /\ \A j \in Ids \ {i} : sess'[j] = sess[j]
  BY DEF Issue, store, ages, history, Typed, RowsTyped
<1>2. \A q \in Reqs : req'[q] = req[q] \/ req'[q] = Idle
  BY <1>1 DEF Typed, RequestsTyped
<1>3. \A q \in Reqs : Refreshing(q)' => /\ Refreshing(q) /\ req'[q] = req[q]
                                        /\ req[q].row \in Ids /\ Issued(req[q].row)
  BY <1>2, IdleType DEF Refreshing, Typed, RequestsTyped, Carries, Issued
<1>4. sess'[i].root = i /\ sess'[i].state = "live"
  BY <1>1 DEF NewSession
<1>5. \A j \in Ids : Issued(j) => j # i /\ sess[j].root # i /\ sess[j].root \in Ids
  BY <1>1 DEF RotationInv, RootsIssued
<1>6. \A j \in Ids : Issued(j) => Issued(j)'
  BY <1>1 DEF Issued
<1>7. RootsIssued'
  BY <1>1, <1>4, <1>5, <1>6 DEF RotationInv, RootsIssued, Issued
<1>8. RotationIsOneForOne'
  BY <1>1, <1>4, <1>5 DEF RotationInv, RotationIsOneForOne, Issued
<1>9. \A q \in Reqs, j \in Ids :
        Refreshing(q)' /\ sess'[j].state = "live" /\ sess'[j].root = sess'[req'[q].row].root =>
          j = req'[q].row
  BY <1>1, <1>3, <1>4, <1>5 DEF RotationInv
<1>10. \A q \in Reqs : RefreshAllowed(req[q])'
  BY <1>1, <1>2, IdleType DEF RotationInv, ages, RefreshAllowed
<1> QED
  BY <1>1, <1>3, <1>7, <1>8, <1>9, <1>10 DEF RotationInv, ages, RefreshAllowed

LEMMA RotationRead ==
  ASSUME Typed, RotationInv, NEW r \in Reqs, NEW i \in Ids, NEW row \in Ids, RefreshRead(r, i, row)
  PROVE  RotationInv'
<1> DEFINE new == [Idle EXCEPT !.op = "refresh", !.user = sess[i].owner, !.id = i, !.row = row]
<1>1. /\ req' = [req EXCEPT ![r] = new] /\ UNCHANGED <<sess, ages, outRefresh, exchanged, restarts>>
      /\ r \in Refreshers /\ i \notin outRefresh /\ sess[row].state = "live"
  BY DEF RefreshRead, Begin, store, ages, history, Live
<1>2. new.op = "refresh" /\ new.id = i /\ new.row = row
  BY DEF Idle
<1> HIDE DEF new
<1>3. req'[r] = new /\ \A q \in Reqs \ {r} : req'[q] = req[q]
  BY <1>1 DEF Typed, RequestsTyped
<1>4. \A q \in Reqs : Refreshing(q)' => q \in Refreshers
  BY <1>1, <1>3 DEF Refreshing, RotationInv
<1>5. \A q \in Reqs, j \in Ids :
        Refreshing(q)' /\ sess'[j].state = "live" /\ sess'[j].root = sess'[req'[q].row].root =>
          j = req'[q].row
  BY <1>1, <1>2, <1>3 DEF RotationInv, RotationIsOneForOne, Refreshing
<1>6. \A q \in Reqs : RefreshAllowed(req[q])'
  BY <1>1, <1>2, <1>3 DEF RotationInv, ages, RefreshAllowed
<1>7. RotationIsOneForOne' /\ RootsIssued'
  BY <1>1 DEF RotationInv, RotationIsOneForOne, RootsIssued, Issued
<1> QED
  BY <1>1, <1>4, <1>5, <1>6, <1>7 DEF RotationInv, ages, RefreshAllowed

LEMMA RotationStore ==
  ASSUME OneRefresher, Typed, RotationInv, NEW r \in Reqs, RefreshStore(r) PROVE RotationInv'
<1> DEFINE new == [req[r] EXCEPT !.op = "rotate"]
<1>1. /\ req' = [req EXCEPT ![r] = new] /\ UNCHANGED <<sess, ages, exchanged, restarts>>
      /\ req[r].op = "refresh" /\ outRefresh' = outRefresh \cup Blacklisted(req[r].id, ending)
  BY DEF RefreshStore, history
<1>2. /\ req[r].id \in Ids /\ req[r] \in Request
      /\ exchanged \in [Ids -> Nat] /\ restarts \in Nat
      /\ req[r].id \notin ending => exchanged[req[r].id] <= restarts
  BY <1>1 DEF RotationInv, Typed, RequestsTyped, Carries, HistoryTyped, RefreshAllowed
<1>3. new.op = "rotate" /\ new.id = req[r].id /\ new.row = req[r].row
  BY <1>2 DEF Request
<1> HIDE DEF new
<1>4. req'[r] = new /\ \A q \in Reqs \ {r} : req'[q] = req[q]
  BY <1>1 DEF Typed, RequestsTyped
<1>5. \A q \in Reqs : Refreshing(q)' => q = r
  BY <1>1, <1>4 DEF Refreshing, RotationInv, OneRefresher
<1>6. Refreshing(r)
  BY <1>1 DEF Refreshing
<1>7. \A q \in Reqs, j \in Ids :
        Refreshing(q)' /\ sess'[j].state = "live" /\ sess'[j].root = sess'[req'[q].row].root =>
          j = req'[q].row
  BY <1>1, <1>3, <1>4, <1>5, <1>6 DEF RotationInv
<1>8. \A q \in Reqs : RefreshAllowed(req[q])'
  <2>1. CASE req[r].id \in ending
    BY <1>1, <1>3, <1>4, <1>5, <2>1 DEF Refreshing, ages, RefreshAllowed
  <2>2. CASE req[r].id \notin ending
    <3>1. req[r].id \in outRefresh'
      BY <1>1, <1>2, <2>2, Names DEF Blacklisted
    <3> QED
      BY <1>1, <1>2, <1>3, <1>4, <1>5, <2>2, <3>1 DEF Refreshing, ages, RefreshAllowed
  <2> QED
    BY <2>1, <2>2
<1>9. \A i \in Ids \ ending' : exchanged'[i] <= IF i \in outRefresh' THEN 1 + restarts' ELSE restarts'
  BY <1>1, <1>2 DEF RotationInv, ages, RefreshAllowed
<1>10. RotationIsOneForOne' /\ RootsIssued'
  BY <1>1 DEF RotationInv, RotationIsOneForOne, RootsIssued, Issued
<1>11. \A q \in Reqs : Refreshing(q)' => q \in Refreshers
  BY <1>5, <1>6 DEF RotationInv
<1> QED
  BY <1>7, <1>8, <1>9, <1>10, <1>11 DEF RotationInv

LEMMA RotationCommit ==
  ASSUME OneRefresher, Typed, RotationInv, NEW r \in Reqs, NEW i \in Ids, RefreshCommit(r, i)
  PROVE  RotationInv'
<1> DEFINE row == req[r].row
           root == sess[row].root
<1>1. /\ req' = [req EXCEPT ![r] = Idle] /\ UNCHANGED <<ages, outRefresh, restarts>>
      /\ req[r].op = "rotate" /\ ~Issued(i)
      /\ exchanged' = [exchanged EXCEPT ![req[r].id] = @ + 1]
      /\ sess' = [sess EXCEPT ![row].state = "revoked", ![i] = NewSession(i, req[r].user, root)]
  BY DEF RefreshCommit, store, ages
<1>2. /\ row \in Ids /\ req[r].id \in Ids /\ Issued(row)
      /\ Refreshing(r) /\ RefreshAllowed(req[r])
      /\ exchanged \in [Ids -> Nat] /\ restarts \in Nat
  BY <1>1 DEF RotationInv, Typed, RequestsTyped, Carries, HistoryTyped, Issued, Refreshing, ages, RefreshAllowed
<1>3. row # i /\ root \in Ids /\ root # i /\ Issued(root)
  BY <1>1, <1>2 DEF RotationInv, RootsIssued
<1>4. /\ sess'[i].state = "live" /\ sess'[i].root = root
      /\ sess'[row].state = "revoked" /\ sess'[row].root = root
      /\ \A j \in Ids \ {i, row} : sess'[j] = sess[j]
  BY <1>1, <1>2, <1>3 DEF NewSession, Typed, RowsTyped, Session
<1>5. \A q \in Reqs : ~Refreshing(q)'
  <2>1. req'[r] = Idle /\ \A q \in Reqs \ {r} : req'[q] = req[q]
    BY <1>1 DEF Typed, RequestsTyped
  <2>2. \A q \in Reqs \ {r} : ~Refreshing(q)
    BY <1>2 DEF RotationInv, OneRefresher
  <2> QED
    BY <2>1, <2>2, IdleType DEF Refreshing
<1> HIDE DEF row, root
<1>6. \A j \in Ids : sess[j].state = "live" /\ sess[j].root = root => j = row
  BY <1>2 DEF RotationInv, row, root
<1>7. RotationIsOneForOne'
  BY <1>4, <1>6 DEF RotationInv, RotationIsOneForOne
<1>8. RootsIssued'
  <2>1. \A j \in Ids : Issued(j)' <=> Issued(j) \/ j = i
    BY <1>2, <1>4 DEF Issued
  <2>2. \A j \in Ids : Issued(j) \/ j = i => sess'[j].root \in Ids /\ sess[sess'[j].root].state # "none"
    BY <1>3, <1>4 DEF RotationInv, RootsIssued, Issued
  <2> QED
    BY <2>1, <2>2 DEF RootsIssued, Issued
<1>9. \A j \in Ids \ ending' : exchanged'[j] <= IF j \in outRefresh' THEN 1 + restarts' ELSE restarts'
  BY <1>1, <1>2 DEF RotationInv, ages, RefreshAllowed
<1> QED
  BY <1>5, <1>7, <1>8, <1>9 DEF RotationInv, Refreshing, ages, RefreshAllowed

LEMMA RotationStep == OneRefresher /\ Typed /\ RotationInv /\ [Next]_vars => RotationInv'
<1> SUFFICES ASSUME OneRefresher, Typed, RotationInv, [Next]_vars PROVE RotationInv'
  OBVIOUS
<1>0. \A r \in Reqs : req[r] \in Request
  BY DEF Typed, RequestsTyped
<1>1. ASSUME NEW r \in Reqs,
             \/ \E u \in Users : Register(r, u) \/ SignIn(r, u) \/ SocialSignIn(r, u)
             \/ \E i \in Ids : SignOut(r, i) \/ RevokeOthers(r, i)
             \/ \E i \in Ids, forced \in BOOLEAN : ChangePassword(r, i, forced)
             \/ \E u \in Users, t \in ResetTokens : ResetPassword(r, u, t)
             \/ AfterChange(r) \/ Abort(r)
      PROVE  RotationInv'
  <2>1. /\ \E new : new.op \notin {"refresh", "rotate"} /\ req' = [req EXCEPT ![r] = new]
        /\ UNCHANGED <<sess, ages, outRefresh, exchanged, restarts>>
    BY <1>0, <1>1, NoRefresh
  <2>2. \A i \in Ids : Issued(i)' <=> Issued(i)
    BY <2>1 DEF Issued
  <2> QED
    BY <2>1, <2>2, Revoked
<1>2. ASSUME NEW r \in Reqs, EndSessions(r) PROVE RotationInv'
  <2> DEFINE q == req[r]
             new == IF q.op = "revoke" /\ q.id # NoId THEN [q EXCEPT !.op = "after"] ELSE Idle
  <2>1. /\ req' = [req EXCEPT ![r] = new] /\ UNCHANGED <<ages, outRefresh, exchanged, restarts>>
        /\ sess' = [i \in Ids |-> IF i \in q.seen THEN [sess[i] EXCEPT !.state = "revoked"] ELSE sess[i]]
    BY <1>2 DEF EndSessions, store, ages
  <2>2. new.op \notin {"refresh", "rotate"}
    BY <1>0, IdleType DEF Request
  <2>3. \A i \in Ids : sess[i] \in Session /\ (i \in q.seen => sess[i].state # "none")
    BY DEF Typed, RowsTyped, RequestsTyped, Carries
  <2> HIDE DEF new, q
  <2>4. \A i \in Ids : /\ sess'[i].root = sess[i].root
                       /\ sess'[i].state = "live" => sess[i].state = "live"
                       /\ Issued(i)' <=> Issued(i)
    BY <2>1, <2>3 DEF Session, Issued
  <2> QED
    BY <2>1, <2>2, <2>4, Revoked
<1>3. ASSUME \/ \E u \in Users, t \in ResetTokens : ForgotPassword(u, t)
             \/ \E u \in Users : AdminReset(u)
             \/ \E u \in Users, status \in {"ACTIVE", "SUSPENDED"} : SetStatus(u, status)
             \/ \E i \in Ids : AgeAccess(i) \/ AgeRefresh(i)
             \/ \E u \in Users : ResetExpires(u)
             \/ UNCHANGED vars
      PROVE  RotationInv'
  <2>1. /\ UNCHANGED <<sess, req, exchanged, restarts>> /\ ending \subseteq ending'
        /\ outRefresh' \subseteq outRefresh
        /\ \A i \in Ids \ ending' : i \in outRefresh' <=> i \in outRefresh
    BY <1>3 DEF ForgotPassword, AdminReset, SetStatus, AgeAccess, AgeRefresh, ResetExpires, vars,
                store, ages, history
  <2>2. \A r \in Reqs : req[r].op = "rotate" => req[r].id \in Ids
    BY DEF Typed, RequestsTyped, Carries
  <2> QED
    BY <2>1, <2>2 DEF RotationInv, Refreshing, RotationIsOneForOne, RootsIssued, Issued,
                      RefreshAllowed
<1>4. CASE Restart
  <2>1. /\ \A r \in Reqs : req'[r] = Idle
        /\ restarts' = restarts + 1 /\ UNCHANGED <<sess, ages, exchanged>>
    BY <1>4 DEF Restart
  <2>2. exchanged \in [Ids -> Nat] /\ restarts \in Nat
    BY DEF Typed, HistoryTyped
  <2>3. \A i \in Ids \ ending' : exchanged'[i] <= IF i \in outRefresh' THEN 1 + restarts' ELSE restarts'
    BY <2>1, <2>2 DEF RotationInv, ages
  <2>4. RotationIsOneForOne' /\ RootsIssued'
    BY <2>1 DEF RotationInv, RotationIsOneForOne, RootsIssued, Issued
  <2> QED
    BY <2>1, <2>3, <2>4, IdleType DEF RotationInv, Refreshing, ages, RefreshAllowed
<1> QED
  BY <1>1, <1>2, <1>3, <1>4, RotationIssue, RotationRead, RotationStore, RotationCommit DEF Next, SignInCalls, AccountCalls, RecoveryCalls

\* Refreshing never adds a session to a sign-in, for any number of users,
\* sessions and other requests, if refreshes do not overlap
\* (AuthService.refresh_access_token).
THEOREM RotatesOneForOne == ASSUME OneRefresher PROVE Spec => []RotationIsOneForOne
<1>1. RotationInv => RotationIsOneForOne
  BY DEF RotationInv
<1>2. Typed /\ RotationInv /\ [Next]_vars => RotationInv'
  BY RotationStep
<1> QED
  BY <1>1, <1>2, TypedInit, TypedStep, RotationInit, PTL DEF Spec

\* On the same condition a refresh token is, until its final second, exchanged
\* at most once more than the process restarted (AuthService._blacklist_token).
THEOREM ExchangedOnce == ASSUME OneRefresher PROVE Spec => []RefreshedOnce
<1>1. RotationInv /\ Typed => RefreshedOnce
  BY DEF RotationInv, RefreshedOnce, Typed, HistoryTyped
<1>2. Typed /\ RotationInv /\ [Next]_vars => RotationInv'
  BY RotationStep
<1> QED
  BY <1>1, <1>2, TypedInit, TypedStep, RotationInit, PTL DEF Spec
=============================================================================
