------------------------------ MODULE Sessions ------------------------------
(***************************************************************************)
(* Signing in, refreshing, signing out and changing passwords (AuthService,*)
(* OAuthService, get_current_user).  Session rows and users are in the     *)
(* database; revoked tokens and reset tokens are in the in-process store,  *)
(* which a restart empties and a rollback does not undo.                   *)
(*                                                                         *)
(* Each issue of tokens has an id, which stands for its access token, its  *)
(* refresh token and its session row.  A refresh token is matched with a   *)
(* row by bcrypt, which reads 72 bytes: the tokens of one user begin with  *)
(* the same header and subject, so any live row of the user matches.       *)
(* Both tokens age: each has a final second in which it is good and no     *)
(* longer kept in the blacklist.  That tokens and rows then expire only    *)
(* takes abilities away and is left out.                                   *)
(***************************************************************************)
EXTENDS Integers, FiniteSets

CONSTANTS
  Users,
  Ids, NoId,                 \* issues of tokens
  ResetTokens, NoReset,
  Reqs,
  Refreshers,                \* those that carry a token; the others carry credentials
  MaxRestarts, MaxAgeing     \* bounds: restarts, tokens that age

ASSUME NamesAssumption ==
  Users # {} /\ NoId \notin Ids /\ NoReset \notin ResetTokens
ASSUME RefreshersAssumption ==
  Refreshers \subseteq Reqs /\ MaxRestarts \in Nat /\ MaxAgeing \in Nat

VARIABLES
  user,         \* users: status, and whether there is a password
  sess,         \* user_sessions, one row per issue of tokens
  fading,       \* access tokens in their final second of validity
  ending,       \* refresh tokens in theirs
  outAccess,    \* blacklist:access:{jti}
  outRefresh,   \* blacklist:refresh:{jti}
  resetKey,     \* pwd_reset:{user_id}
  req,          \* requests in flight
  exchanged,    \* how often each refresh token was exchanged
  resets,       \* how often each reset token changed a password
  signedOut,    \* access tokens of completed sign-outs since the last start
  restarts

ages == <<fading, ending>>
store == <<outAccess, outRefresh, resetKey>>
history == <<exchanged, resets, signedOut, restarts>>
vars == <<user, sess, ages, store, req, history>>

-----------------------------------------------------------------------------

\* A social-only account has no password.
User == [status : {"ABSENT", "ACTIVE", "SUSPENDED"}, password : BOOLEAN]
\* root: the sign-in a row goes back to.
Session == [state : {"none", "live", "revoked"}, owner : Users, root : Ids \cup {NoId}]

\* row: the session a refresh replaces; seen: the live sessions as read;
\* password: whether the commit sets a new one.
Request ==
  [op : {"idle", "open", "refresh", "rotate", "revoke", "signout", "after"},
   user : Users, id : Ids \cup {NoId}, row : Ids \cup {NoId}, seen : SUBSET Ids,
   password : BOOLEAN, reset : ResetTokens \cup {NoReset}]

Nobody == CHOOSE u \in Users : TRUE
Idle == [op |-> "idle", user |-> Nobody, id |-> NoId, row |-> NoId, seen |-> {},
         password |-> FALSE, reset |-> NoReset]

TypeOK ==
  /\ user \in [Users -> User]
  /\ sess \in [Ids -> Session]
  /\ fading \subseteq Ids /\ ending \subseteq Ids
  /\ outAccess \subseteq Ids /\ outRefresh \subseteq Ids
  /\ resetKey \in [Users -> ResetTokens \cup {NoReset}]
  /\ req \in [Reqs -> Request]
  /\ exchanged \in [Ids -> Nat] /\ resets \in [ResetTokens -> Nat]
  /\ signedOut \subseteq Ids /\ restarts \in 0..MaxRestarts
  /\ \A i \in Ids : sess[i].state # "none" => sess[i].root \in Ids
  /\ \A r \in Reqs : req[r].op \in {"refresh", "rotate"} => req[r].row \in Ids
                                                            /\ req[r].id \in Ids

Init ==
  /\ user = [u \in Users |-> [status |-> "ABSENT", password |-> FALSE]]
  /\ sess = [i \in Ids |-> [state |-> "none", owner |-> Nobody, root |-> NoId]]
  /\ fading = {} /\ ending = {}
  /\ outAccess = {} /\ outRefresh = {}
  /\ resetKey = [u \in Users |-> NoReset]
  /\ req = [r \in Reqs |-> Idle]
  /\ exchanged = [i \in Ids |-> 0] /\ resets = [t \in ResetTokens |-> 0]
  /\ signedOut = {} /\ restarts = 0

Live(u) == {i \in Ids : sess[i].state = "live" /\ sess[i].owner = u}
Issued(i) == sess[i].state # "none"

\* get_current_user: signature and expiry, the blacklist, the user's status.
Accepted(i) ==
  Issued(i) /\ i \notin outAccess /\ user[sess[i].owner].status = "ACTIVE"

\* An entry lives for the whole seconds the token has left: a token in its
\* final second, which is still accepted, gets none.
Blacklisted_None(i, final) == {}   \* mutant: the remaining time is always rounded to zero
Blacklisted(i, final) == {i} \ (final \cup {NoId})

Begin(r, request) ==
  /\ req[r].op = "idle"
  /\ req' = [req EXCEPT ![r] = request]

Abort(r) ==
  /\ req[r].op # "idle"
  /\ req' = [req EXCEPT ![r] = Idle]
  /\ UNCHANGED <<user, sess, ages, store, history>>

-----------------------------------------------------------------------------
(* Registering and signing in.                                             *)

\* The new user is committed before the session is created.
Register(r, u) ==
  /\ r \notin Refreshers
  /\ user[u].status = "ABSENT"
  /\ user' = [user EXCEPT ![u] = [status |-> "ACTIVE", password |-> TRUE]]
  /\ Begin(r, [Idle EXCEPT !.op = "open", !.user = u])
  /\ UNCHANGED <<sess, ages, store, history>>

\* With the right password; a wrong one changes nothing.
SignIn(r, u) ==
  /\ r \notin Refreshers
  /\ user[u].status = "ACTIVE" /\ user[u].password
  /\ Begin(r, [Idle EXCEPT !.op = "open", !.user = u])
  /\ UNCHANGED <<user, sess, ages, store, history>>

\* Google or Facebook: find the user, or create one without a password.
SocialSignIn(r, u) ==
  /\ r \notin Refreshers
  /\ user[u].status # "SUSPENDED"
  /\ user' = IF user[u].status = "ABSENT" THEN [user EXCEPT ![u].status = "ACTIVE"] ELSE user
  /\ Begin(r, [Idle EXCEPT !.op = "open", !.user = u])
  /\ UNCHANGED <<sess, ages, store, history>>

NewSession(i, u, root) == [state |-> "live", owner |-> u, root |-> root]

\* _build_token_response: tokens for the user as read earlier.
Issue(r, i) ==
  /\ req[r].op = "open" /\ ~Issued(i)
  /\ sess' = [sess EXCEPT ![i] = NewSession(i, req[r].user, i)]
  /\ req' = [req EXCEPT ![r] = Idle]
  /\ UNCHANGED <<user, ages, store, history>>

-----------------------------------------------------------------------------
(* Refreshing: check and read, blacklist in the store, then write and      *)
(* commit.                                                                 *)

RefreshRead(r, i, row) ==
  /\ r \in Refreshers /\ Issued(i) /\ i \notin outRefresh
  /\ user[sess[i].owner].status = "ACTIVE"
  /\ row \in Live(sess[i].owner)
  /\ Begin(r, [Idle EXCEPT !.op = "refresh", !.user = sess[i].owner, !.id = i, !.row = row])
  /\ UNCHANGED <<user, sess, ages, store, history>>

RefreshStore_KeepsToken(r) ==   \* mutant: the old refresh token stays good
  /\ req[r].op = "refresh"
  /\ \E access \in {req[r].id, NoId} : outAccess' = outAccess \cup Blacklisted(access, fading)
  /\ req' = [req EXCEPT ![r].op = "rotate"]
  /\ UNCHANGED <<user, sess, ages, outRefresh, resetKey, history>>
\* The current access token goes too if the client sent it.
RefreshStore(r) ==
  /\ req[r].op = "refresh"
  /\ outRefresh' = outRefresh \cup Blacklisted(req[r].id, ending)
  /\ \E access \in {req[r].id, NoId} : outAccess' = outAccess \cup Blacklisted(access, fading)
  /\ req' = [req EXCEPT ![r].op = "rotate"]
  /\ UNCHANGED <<user, sess, ages, resetKey, history>>

RefreshCommit_KeepsRow(r, new) ==   \* mutant: the old session is not revoked
  /\ req[r].op = "rotate" /\ ~Issued(new)
  /\ sess' = [sess EXCEPT ![new] = NewSession(new, req[r].user, sess[req[r].row].root)]
  /\ exchanged' = [exchanged EXCEPT ![req[r].id] = @ + 1]
  /\ req' = [req EXCEPT ![r] = Idle]
  /\ UNCHANGED <<user, ages, store, resets, signedOut, restarts>>
RefreshCommit(r, new) ==
  /\ req[r].op = "rotate" /\ ~Issued(new)
  /\ sess' = [sess EXCEPT ![req[r].row].state = "revoked",
                          ![new] = NewSession(new, req[r].user, sess[req[r].row].root)]
  /\ exchanged' = [exchanged EXCEPT ![req[r].id] = @ + 1]
  /\ req' = [req EXCEPT ![r] = Idle]
  /\ UNCHANGED <<user, ages, store, resets, signedOut, restarts>>

-----------------------------------------------------------------------------
(* Ending sessions: sign-out, revoke-others, a changed or reset password.  *)

SignOut(r, i) ==
  /\ r \in Refreshers /\ Accepted(i)
  /\ outAccess' = outAccess \cup Blacklisted(i, fading)
  /\ Begin(r, [Idle EXCEPT !.op = "signout", !.user = sess[i].owner, !.id = i,
                           !.seen = Live(sess[i].owner)])
  /\ UNCHANGED <<user, sess, ages, outRefresh, resetKey, history>>

\* The caller's own session is revoked with the others: the access token does
\* not say which one it is.
RevokeOthers(r, i) ==
  /\ r \in Refreshers /\ Accepted(i)
  /\ Begin(r, [Idle EXCEPT !.op = "revoke", !.user = sess[i].owner, !.seen = Live(sess[i].owner)])
  /\ UNCHANGED <<user, sess, ages, store, history>>

\* Whether the change was forced on the user, and the access token stays
\* good, is left open.
ChangePassword(r, i, forced) ==
  LET u == sess[i].owner IN
  /\ r \in Refreshers /\ Accepted(i)
  /\ user[u].password
  /\ Begin(r, [Idle EXCEPT !.op = "revoke", !.user = u, !.password = TRUE, !.seen = Live(u),
                           !.id = IF forced THEN NoId ELSE i])
  /\ UNCHANGED <<user, sess, ages, store, history>>

\* forgot_password: for any account there is, a new token in place of the last.
ForgotPassword(u, t) ==
  /\ user[u].status # "ABSENT"
  /\ resets[t] = 0 /\ \A v \in Users : resetKey[v] # t /\ \A r \in Reqs : req[r].reset # t
  /\ resetKey' = [resetKey EXCEPT ![u] = t]
  /\ UNCHANGED <<user, sess, ages, outAccess, outRefresh, req, history>>

ResetPassword_KeepsKey(r, u, t) ==   \* mutant: the token is left to expire
  /\ r \notin Refreshers /\ resetKey[u] = t
  /\ Begin(r, [Idle EXCEPT !.op = "revoke", !.user = u, !.password = TRUE, !.reset = t,
                           !.seen = Live(u)])
  /\ UNCHANGED <<user, sess, ages, store, history>>
\* The token is deleted as soon as it matched.
ResetPassword(r, u, t) ==
  /\ r \notin Refreshers /\ resetKey[u] = t
  /\ resetKey' = [resetKey EXCEPT ![u] = NoReset]
  /\ Begin(r, [Idle EXCEPT !.op = "revoke", !.user = u, !.password = TRUE, !.reset = t,
                           !.seen = Live(u)])
  /\ UNCHANGED <<user, sess, ages, outAccess, outRefresh, history>>

\* The commit: sessions as read are revoked, a new password is set.
EndSessions(r) ==
  LET q == req[r] IN
  /\ q.op \in {"revoke", "signout"}
  /\ sess' = [i \in Ids |-> IF i \in q.seen THEN [sess[i] EXCEPT !.state = "revoked"] ELSE sess[i]]
  /\ user' = [user EXCEPT ![q.user].password = @ \/ q.password]
  /\ resets' = IF q.reset = NoReset THEN resets ELSE [resets EXCEPT ![q.reset] = @ + 1]
  /\ signedOut' = IF q.op = "signout" THEN signedOut \cup {q.id} ELSE signedOut
  /\ req' = [req EXCEPT ![r] = IF q.op = "revoke" /\ q.id # NoId THEN [q EXCEPT !.op = "after"]
                                                                  ELSE Idle]
  /\ UNCHANGED <<ages, store, exchanged, restarts>>

\* change_password blacklists its access token after the commit.
AfterChange(r) ==
  /\ req[r].op = "after"
  /\ outAccess' = outAccess \cup Blacklisted(req[r].id, fading)
  /\ signedOut' = signedOut \cup {req[r].id}
  /\ req' = [req EXCEPT ![r] = Idle]
  /\ UNCHANGED <<user, sess, ages, outRefresh, resetKey, exchanged, resets, restarts>>

-----------------------------------------------------------------------------
(* Administrators, time, and the end of the process.                       *)

\* reset_employee_password leaves sessions and tokens alone.
AdminReset(u) ==
  /\ user[u].status # "ABSENT"
  /\ user' = [user EXCEPT ![u].password = TRUE]
  /\ UNCHANGED <<sess, ages, store, req, history>>

SetStatus(u, status) ==
  /\ user[u].status # "ABSENT"
  /\ user' = [user EXCEPT ![u].status = status]
  /\ UNCHANGED <<sess, ages, store, req, history>>

\* A blacklist entry ends when the token's final second begins.
AgeAccess(i) ==
  /\ Issued(i) /\ Cardinality(fading \cup {i}) + Cardinality(ending) <= MaxAgeing
  /\ fading' = fading \cup {i}
  /\ outAccess' = outAccess \ {i}
  /\ UNCHANGED <<user, sess, ending, outRefresh, resetKey, req, history>>

AgeRefresh(i) ==
  /\ Issued(i) /\ Cardinality(ending \cup {i}) + Cardinality(fading) <= MaxAgeing
  /\ ending' = ending \cup {i}
  /\ outRefresh' = outRefresh \ {i}
  /\ UNCHANGED <<user, sess, fading, outAccess, resetKey, req, history>>

ResetExpires(u) ==
  /\ resetKey[u] # NoReset
  /\ resetKey' = [resetKey EXCEPT ![u] = NoReset]
  /\ UNCHANGED <<user, sess, ages, outAccess, outRefresh, req, history>>

Restart ==
  /\ restarts < MaxRestarts
  /\ restarts' = restarts + 1
  /\ outAccess' = {} /\ outRefresh' = {} /\ resetKey' = [u \in Users |-> NoReset]
  /\ req' = [r \in Reqs |-> Idle]
  /\ signedOut' = {}
  /\ UNCHANGED <<user, sess, ages, exchanged, resets>>

SignInCalls(r) ==
  \/ \E u \in Users : Register(r, u) \/ SignIn(r, u) \/ SocialSignIn(r, u)
  \/ \E i \in Ids : Issue(r, i)

\* What a caller with a token asks for: a new one, to leave, a new password.
AccountCalls(r) ==
  \/ \E i, row \in Ids : RefreshRead(r, i, row)
  \/ RefreshStore(r)
  \/ \E i \in Ids : RefreshCommit(r, i)
  \/ \E i \in Ids : SignOut(r, i) \/ RevokeOthers(r, i)
  \/ \E i \in Ids, forced \in BOOLEAN : ChangePassword(r, i, forced)

\* What a caller without one asks for.
RecoveryCalls ==
  \E u \in Users, t \in ResetTokens :
    ForgotPassword(u, t) \/ \E r \in Reqs : ResetPassword(r, u, t)

Next ==
  \/ \E r \in Reqs :
       SignInCalls(r) \/ AccountCalls(r) \/ EndSessions(r) \/ AfterChange(r) \/ Abort(r)
  \/ RecoveryCalls
  \/ \E u \in Users : AdminReset(u)
  \/ \E u \in Users, status \in {"ACTIVE", "SUSPENDED"} : SetStatus(u, status)
  \/ \E i \in Ids : AgeAccess(i) \/ AgeRefresh(i)
  \/ \E u \in Users : ResetExpires(u)
  \/ Restart

Spec == Init /\ [][Next]_vars

-----------------------------------------------------------------------------
(* Properties.                                                             *)

\* Refreshing replaces a session and never adds one: however often a client
\* refreshes, retries after a lost answer or outlives a restart, each sign-in
\* accounts for at most one live session row.
RotationIsOneForOne ==
  \A i, j \in Ids :
    sess[i].state = "live" /\ sess[j].state = "live" /\ sess[i].root = sess[j].root => i = j

\* Until its final second a refresh token is exchanged once, except that a
\* restart forgets it was: requests that die between the store and the commit,
\* retries and other sessions of the user give it no second life.  In that
\* second no entry is kept and it can be exchanged again.
RefreshedOnce == \A i \in Ids \ ending : exchanged[i] <= 1 + restarts

\* An access token that was signed out is refused until its final second or a
\* restart, whatever else the store was used for.
SignedOutRefused == \A i \in signedOut : i \notin fading => ~Accepted(i)

\* A reset token changes a password at most once, also when two requests carry
\* it at the same time or the process restarts in between.
ResetOnce == \A t \in ResetTokens : resets[t] <= 1
=============================================================================
