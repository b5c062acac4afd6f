------------------------------ MODULE Sessions ------------------------------
(* Sessions of customers and administrators in Redis.  A login or a refresh *)
(* hands out a pair of cookies: an access token, which names a session and  *)
(* carries an id of its own (its jti), and a refresh token.  The record of  *)
(* a session holds the hash of the refresh token it accepts next; a second  *)
(* key leads from that hash back to the session.  Both services work the    *)
(* same way under different prefixes; one action is one round trip (a       *)
(* single command or a pipeline); a process that dies takes no further step.*)
EXTENDS FiniteSets

CONSTANTS Tokens,     \* pairs of cookies; a session is named by its first pair
          NoToken,
          Holders,    \* whose sessions are indexed: user ids, e-mails of admins
          Procs       \* requests being served at one time

ASSUME TokenAssumption == NoToken \notin Tokens
ASSUME ProcsAssumption == IsFiniteSet(Procs) /\ Procs # {}

VARIABLES session,      \* session[s]: the pair whose refresh token s accepts
          refresh,      \* refresh[k]: the session the refresh key of k leads to
          userSessions, \* the index of the sessions of a user
          revoked,      \* pairs whose jti was revoked
          issued,       \* issued[k]: the session that the access token of k names
          op,           \* the request each process serves
          loggedOut,    \* history: pairs a logout presented and was answered for
          ended         \* history: sessions erased with no rotation at its write

sessionVars == <<session, refresh, userSessions, revoked, issued, op, loggedOut, ended>>

Idle == [pc |-> "idle", pair |-> NoToken, sid |-> NoToken, tok |-> NoToken,
         proven |-> FALSE]
SessionSteps == {"idle", "load", "orphan", "rotate", "principal", "revokeJti", "revoke", "erase"}

SessionInit ==
  /\ session = [s \in Tokens |-> NoToken]
  /\ refresh = [k \in Tokens |-> NoToken]
  /\ userSessions = [u \in Holders |-> {}]
  /\ revoked = {}
  /\ issued = [k \in Tokens |-> NoToken]
  /\ op = [p \in Procs |-> Idle]
  /\ loggedOut = {}
  /\ ended = {}

Fresh == {k \in Tokens : issued[k] = NoToken}
Goto(p, pc) == op' = [op EXCEPT ![p].pc = pc]
Done(p) == op' = [op EXCEPT ![p] = Idle]
(* The logout of a client whose access token was accepted is answered.      *)
Answer(p) == loggedOut' = IF op[p].proven THEN loggedOut \cup {op[p].pair} ELSE loggedOut

-----------------------------------------------------------------------------
(* create_session: one pipeline writes the record, the refresh key and the  *)
(* index.                                                                   *)
CreateSession(u, k) ==
  /\ k \in Fresh
  /\ session' = [session EXCEPT ![k] = k]
  /\ refresh' = [refresh EXCEPT ![k] = k]
  /\ userSessions' = [userSessions EXCEPT ![u] = @ \cup {k}]
  /\ issued' = [issued EXCEPT ![k] = k]

-----------------------------------------------------------------------------
(* rotate_refresh_token with the refresh token of a pair the client holds:  *)
(* a token without a key is refused at once.                                *)
Refresh(p) ==
  /\ op[p].pc = "idle"
  /\ \E k \in Tokens \ Fresh :
       /\ refresh[k] # NoToken
       /\ op' = [op EXCEPT ![p] = [Idle EXCEPT !.pc = "load", !.pair = k, !.sid = refresh[k]]]
  /\ UNCHANGED <<session, refresh, userSessions, revoked, issued, loggedOut, ended>>

AfterLoadIgnoringMissing(stored, presented) ==
  IF stored \notin {NoToken, presented} THEN "revoke" ELSE "rotate"
AfterLoad(stored, presented) ==
  IF stored = NoToken THEN "orphan"
  ELSE IF stored # presented THEN "revoke" ELSE "rotate"

RefreshLoad(p) ==
  /\ op[p].pc = "load"
  /\ LET s == op[p].sid
     IN CASE AfterLoad(session[s], op[p].pair) = "revoke" ->
               op' = [op EXCEPT ![p] = [Idle EXCEPT !.pc = "revoke", !.sid = s]]
          [] OTHER -> Goto(p, AfterLoad(session[s], op[p].pair))
  /\ UNCHANGED <<session, refresh, userSessions, revoked, issued, loggedOut, ended>>

DropOrphan(p) ==
  /\ op[p].pc = "orphan"
  /\ refresh' = [refresh EXCEPT ![op[p].pair] = NoToken]
  /\ Done(p)
  /\ UNCHANGED <<session, userSessions, revoked, issued, loggedOut, ended>>

(* The record read earlier is written back whatever happened since.         *)
KeysAfterRotationWithout(old, new, s) == [refresh EXCEPT ![old] = NoToken]
KeysAfterRotation(old, new, s) == [refresh EXCEPT ![old] = NoToken, ![new] = s]

Rotate(p) ==
  /\ op[p].pc = "rotate"
  /\ \E k \in Fresh :
       /\ session' = [session EXCEPT ![op[p].sid] = k]
       /\ refresh' = KeysAfterRotation(op[p].pair, k, op[p].sid)
       /\ issued' = [issued EXCEPT ![k] = op[p].sid]
  /\ Done(p)
  /\ UNCHANGED <<userSessions, revoked, loggedOut, ended>>

-----------------------------------------------------------------------------
(* logout: a valid access token revokes its jti and then its session; with  *)
(* an invalid or expired one the refresh token names the session.  A client *)
(* may present either cookie of its pair alone.  verify_access_token reads  *)
(* the jti first, then the session.                                         *)
Logout(p) ==
  /\ op[p].pc = "idle"
  /\ \E k \in Tokens \ Fresh :
       /\ k \notin revoked
       /\ op' = [op EXCEPT ![p] = [Idle EXCEPT !.pc = "principal", !.pair = k]]
  /\ UNCHANGED <<session, refresh, userSessions, revoked, issued, loggedOut, ended>>

LogoutByRefreshToken(p) ==
  /\ op[p].pc = "idle"
  /\ \E k \in Tokens \ Fresh :
       /\ refresh[k] # NoToken
       /\ op' = [op EXCEPT ![p] = [Idle EXCEPT !.pc = "revoke", !.sid = refresh[k]]]
  /\ UNCHANGED <<session, refresh, userSessions, revoked, issued, loggedOut, ended>>

VerifySession(p) ==
  /\ op[p].pc = "principal"
  /\ LET s == issued[op[p].pair]
     IN IF session[s] = NoToken THEN Done(p)   \* then by the refresh token, if any
        ELSE op' = [op EXCEPT ![p].pc = "revokeJti", ![p].sid = s]
  /\ UNCHANGED <<session, refresh, userSessions, revoked, issued, loggedOut, ended>>

NoRevocation(k) == revoked
Revocation(k) == revoked \cup {k}

RevokeJti(p) ==
  /\ op[p].pc = "revokeJti"
  /\ revoked' = Revocation(op[p].pair)
  /\ op' = [op EXCEPT ![p].pc = "revoke", ![p].proven = TRUE]
  /\ UNCHANGED <<session, refresh, userSessions, issued, loggedOut, ended>>

(* revoke_session reads the record for the refresh hash and the user.       *)
RevokeLoad(p) ==
  /\ op[p].pc = "revoke"
  /\ LET t == session[op[p].sid]
     IN \/ /\ t = NoToken
           /\ Done(p)
           /\ Answer(p)
        \/ /\ t # NoToken
           /\ op' = [op EXCEPT ![p].pc = "erase", ![p].tok = t]
           /\ UNCHANGED loggedOut
  /\ UNCHANGED <<session, refresh, userSessions, revoked, issued, ended>>

AtWrite(s) == \E q \in Procs : op[q].pc = "rotate" /\ op[q].sid = s

RevokeErase(p) ==
  LET s == op[p].sid
  IN /\ op[p].pc = "erase"
     /\ session' = [session EXCEPT ![s] = NoToken]
     /\ refresh' = [refresh EXCEPT ![op[p].tok] = NoToken]
     /\ userSessions' = [u \in Holders |-> userSessions[u] \ {s}]
     /\ ended' = IF AtWrite(s) THEN ended ELSE ended \cup {s}
     /\ Done(p)
     /\ Answer(p)
     /\ UNCHANGED <<revoked, issued>>

-----------------------------------------------------------------------------
(* The record and the refresh key of one write have the same TTL and the    *)
(* record is set first; a key no record names may be older.                 *)
ExpireSession ==
  /\ \E s \in Tokens : session' = [session EXCEPT ![s] = NoToken]
  /\ UNCHANGED <<refresh, userSessions, revoked, issued, op, loggedOut, ended>>

ExpireRefreshKey ==
  /\ \E k \in Tokens :
       /\ \A s \in Tokens : session[s] # k
       /\ refresh' = [refresh EXCEPT ![k] = NoToken]
  /\ UNCHANGED <<session, userSessions, revoked, issued, op, loggedOut, ended>>

SessionStep(p) ==
  \/ Refresh(p) \/ RefreshLoad(p) \/ DropOrphan(p) \/ Rotate(p)
  \/ Logout(p) \/ VerifySession(p) \/ RevokeJti(p) \/ LogoutByRefreshToken(p)
  \/ RevokeLoad(p) \/ RevokeErase(p)

SessionEnvironment == ExpireSession \/ ExpireRefreshKey
=============================================================================
