------------------------------- MODULE Access -------------------------------
(* The front door as a whole: logins, the sessions they open, and the       *)
(* accounts that logins and checkouts share.  A process serves one request. *)
EXTENDS Login

vars == <<sessionVars, accountVars, loginVars>>

Init == SessionInit /\ AccountInit /\ LoginInit

Next ==
  \/ \E p \in Procs : /\ try[p].pc = "idle"
                      /\ SessionStep(p)
                      /\ UNCHANGED <<accountVars, loginVars>>
  \/ \E p \in Procs : /\ op[p].pc = "idle"
                      /\ LockoutStep(p)
                      /\ UNCHANGED <<sessionVars, accountVars>>
  \/ \E p \in Procs : /\ FindUser(p) \/ CreateUser(p)
                      /\ UNCHANGED <<sessionVars, req>>
  \/ \E p \in Procs : /\ OpenSession(p)
                      /\ UNCHANGED <<accountVars, revoked, op, loggedOut, ended>>
  \/ SessionEnvironment /\ UNCHANGED <<accountVars, loginVars>>
  \/ LoginEnvironment /\ UNCHANGED <<sessionVars, accountVars>>
  \/ EditProfile /\ UNCHANGED <<sessionVars, loginVars>>
  \/ \E c \in Customers : CaptureStep(c) /\ UNCHANGED <<sessionVars, loginVars>>

Spec == Init /\ [][Next]_vars

-----------------------------------------------------------------------------
(* Every variable has its type; an e-mail address names one account even    *)
(* when a checkout and a login create it at the same time.                  *)
AccessTypeOK ==
  /\ session \in [Tokens -> Tokens \cup {NoToken}]
  /\ refresh \in [Tokens -> Tokens \cup {NoToken}]
  /\ userSessions \in [Holders -> SUBSET Tokens]
  /\ issued \in [Tokens -> Tokens \cup {NoToken}]
  /\ \A p \in Procs : op[p].pc \in SessionSteps
  /\ DOMAIN account \subseteq Users
  /\ \A u \in DOMAIN account : account[u].phone \in Phones \cup {Null}
                            /\ account[u].email \in Emails \cup {Null}
  /\ \A u, v \in DOMAIN account : u # v => account[u].email # account[v].email
  /\ fails \in [Keys -> 0 .. MaxAttempts + Cardinality(Procs)]
  /\ locked \subseteq Keys
  /\ \A p \in Procs : try[p].pc = "idle" \/ op[p].pc = "idle"

(* An access token is accepted while its jti is not revoked and the session *)
(* it names exists.                                                         *)
Accepted(k) == k \notin revoked /\ issued[k] # NoToken /\ session[issued[k]] # NoToken

(* The refresh token a session waits for always leads back to it, also when *)
(* refreshes, logouts and expiry overlap (rotate_refresh_token,             *)
(* revoke_session): no client with the current token is turned away.        *)
StoredTokenIsKnown ==
  \A s \in Tokens : session[s] # NoToken => refresh[session[s]] = s

(* A session erased while no refresh stood between its read and its write   *)
(* never comes back: a stale refresh key finds no record and is dropped.    *)
QuietLogoutIsFinal == \A s \in ended : session[s] = NoToken

(* The access token a client logged out with is refused from then on, even  *)
(* when a refresh that was under way revives its session.                   *)
PresentedTokenDies == \A k \in loggedOut : ~Accepted(k)

(* Check and count are apart, so requests that passed the check together    *)
(* are all verified; but a lock lets through no more than those: one guess  *)
(* for each other process, from whatever IP.                                *)
LateGuesses == \A n \in Names : late[n] < Cardinality(Procs)

(* The comment of ensure_indexes: an account without a phone never stands   *)
(* in the way of another one without a phone.                               *)
MissingFieldNeverRejects == rejected = {}
=============================================================================
