---------------------------- MODULE AccessProofs ----------------------------
(***************************************************************************)
(* Proofs about Access: its sessions and its lockouts, for every number of *)
(* tokens, holders, addresses and processes.                               *)
(*                                                                         *)
(* Sessions: every token belongs to one session for good (issued), and all *)
(* that a request carries from one round trip to the next still fits it:   *)
(* so a key that a request deletes is never the one another session waits  *)
(* for.  An erased session stays erased because only a refresh that had    *)
(* read the record writes it, and no later one finds the record.           *)
(*                                                                         *)
(* The types come last (FrontInv): what a capture of a checkout carries,   *)
(* who looks for an account by its address, and a failure counter past its *)
(* threshold as long as somebody is on the way to lock and clear it.       *)
(***************************************************************************)
EXTENDS Access, FiniteSetTheorems, TLAPS

-----------------------------------------------------------------------------
(* The sessions. *)

MaybeToken == Tokens \cup {NoToken}
OpType == [pc : SessionSteps, pair : MaybeToken, sid : MaybeToken, tok : MaybeToken,
           proven : BOOLEAN]

SessionTypes ==
  /\ session \in [Tokens -> MaybeToken]
  /\ refresh \in [Tokens -> MaybeToken]
  /\ issued \in [Tokens -> MaybeToken]
  /\ op \in [Procs -> OpType]
  /\ loggedOut \subseteq Tokens /\ ended \subseteq Tokens

\* Token k was issued to session s.
Of(k, s) == k \in Tokens /\ s \in Tokens /\ issued[k] = s

\* A session is named by its first pair; what the keys say is what was issued.
Ownership ==
  /\ \A k \in Tokens : issued[k] # NoToken => Of(issued[k], issued[k])
  /\ \A s \in Tokens : session[s] # NoToken => Of(session[s], s) /\ refresh[session[s]] = s
  /\ \A k \in Tokens : refresh[k] # NoToken => Of(k, refresh[k])

\* What request p carries along.
Carries(p) ==
  /\ op[p].pc \in {"load", "orphan", "rotate"} => Of(op[p].pair, op[p].sid)
  /\ op[p].pc = "orphan" => \A s \in Tokens : session[s] # op[p].pair
  /\ op[p].pc = "principal" => op[p].pair \in Tokens /\ issued[op[p].pair] # NoToken
  /\ op[p].pc \in {"revokeJti", "revoke", "erase"} => Of(op[p].sid, op[p].sid)
  /\ op[p].pc = "revokeJti" => op[p].pair \in Tokens
  /\ op[p].pc = "erase" => Of(op[p].tok, op[p].sid)
  /\ op[p].proven => op[p].pair \in revoked /\ op[p].pair \in Tokens

\* What an erased session left behind.
Finality ==
  \A s \in ended :
    /\ session[s] = NoToken /\ Of(s, s)
    /\ \A p \in Procs : ~(op[p].pc = "rotate" /\ op[p].sid = s)

SessionInv ==
  /\ SessionTypes /\ Ownership /\ (\A p \in Procs : Carries(p))
  /\ Finality /\ loggedOut \subseteq revoked

Create(u, k) == CreateSession(u, k) /\ UNCHANGED <<revoked, op, loggedOut, ended>>

LEMMA SessionInvInit ==
  ASSUME SessionInit
  PROVE  SessionInv
BY TokenAssumption
DEF SessionInit, SessionInv, SessionTypes, Ownership, Carries, Finality, MaybeToken,
    OpType, Idle, SessionSteps

\* Every step of Access is one of these for the sessions.
LEMMA SessionCases ==
  ASSUME [Next]_vars
  PROVE  \/ \E p \in Procs : SessionStep(p)
         \/ \E k \in Tokens : \E u : Create(u, k)
         \/ SessionEnvironment
         \/ UNCHANGED sessionVars
<1>1. ASSUME NEW p \in Procs, OpenSession(p), UNCHANGED <<revoked, op, loggedOut, ended>>
      PROVE  \E k \in Tokens : \E u : Create(u, k)
  BY <1>1 DEF OpenSession, Create
<1>2. QED
  BY <1>1 DEF Next, vars

\* A step of p that only moves p.
LEMMA MoveOK ==
  ASSUME SessionInv, NEW p \in Procs, NEW f \in OpType,
         op' = [op EXCEPT ![p] = f],
         UNCHANGED <<session, refresh, issued, ended>>, revoked \subseteq revoked',
         loggedOut' \subseteq revoked', loggedOut' \subseteq Tokens,
         Carries(p)',
         f.pc = "rotate" => f.sid \notin ended
  PROVE  SessionInv'
<1>1. op'[p] = f /\ op' \in [Procs -> OpType] /\ \A q \in Procs \ {p} : op'[q] = op[q]
  BY DEF SessionInv, SessionTypes
<1>2. SessionTypes'
  BY <1>1 DEF SessionInv, SessionTypes
<1>3. Ownership'
  BY DEF SessionInv, Ownership, Of
<1>4. \A q \in Procs : Carries(q)'
  <2>1. ASSUME NEW q \in Procs \ {p}
        PROVE  Carries(q)'
    BY <1>1, <2>1 DEF SessionInv, Carries, Of
  <2>2. QED
    BY <2>1
<1>5. Finality'
  BY <1>1 DEF SessionInv, Finality, Of
<1>6. QED
  BY <1>2, <1>3, <1>4, <1>5 DEF SessionInv

LEMMA IdleOK ==
  /\ Idle \in OpType /\ Idle.pc = "idle" /\ ~Idle.proven
  /\ Idle.pair = NoToken /\ Idle.sid = NoToken /\ Idle.tok = NoToken
BY DEF Idle, OpType, SessionSteps, MaybeToken

LEMMA LoadSteps ==
  ASSUME SessionInv, NEW p \in Procs,
         Refresh(p) \/ Logout(p) \/ LogoutByRefreshToken(p)
  PROVE  SessionInv'
<1>1. SessionTypes /\ Ownership /\ loggedOut \subseteq revoked
  BY DEF SessionInv
<1>2. CASE Refresh(p)
  <2>1. PICK k \in Tokens \ Fresh :
          /\ refresh[k] # NoToken
          /\ op' = [op EXCEPT ![p] = [Idle EXCEPT !.pc = "load", !.pair = k, !.sid = refresh[k]]]
    BY <1>2 DEF Refresh
  <2> DEFINE f == [Idle EXCEPT !.pc = "load", !.pair = k, !.sid = refresh[k]]
  <2>2. /\ f \in OpType /\ f.pc = "load" /\ f.pair = k /\ f.sid = refresh[k]
        /\ ~f.proven
    BY <1>1, <2>1 DEF Idle, OpType, SessionSteps, MaybeToken, SessionTypes
  <2>3. op' = [op EXCEPT ![p] = f]
    BY <2>1
  <2>4. Of(k, refresh[k])
    BY <1>1, <2>1 DEF Ownership
  <2> HIDE DEF f
  <2>5. op'[p] = f
    BY <1>1, <2>3 DEF SessionTypes
  <2>6. UNCHANGED <<session, refresh, revoked, issued, ended, loggedOut>>
    BY <1>2 DEF Refresh
  <2>7. Carries(p)'
    BY <2>2, <2>4, <2>5, <2>6 DEF Carries, Of
  <2>8. QED
    BY <1>1, <2>2, <2>3, <2>6, <2>7, MoveOK DEF SessionTypes
<1>3. CASE Logout(p)
  <2>1. PICK k \in Tokens \ Fresh :
          op' = [op EXCEPT ![p] = [Idle EXCEPT !.pc = "principal", !.pair = k]]
    BY <1>3 DEF Logout
  <2> DEFINE f == [Idle EXCEPT !.pc = "principal", !.pair = k]
  <2>2. f \in OpType /\ f.pc = "principal" /\ f.pair = k /\ ~f.proven
    BY <2>1 DEF Idle, OpType, SessionSteps, MaybeToken
  <2>3. op' = [op EXCEPT ![p] = f]
    BY <2>1
  <2>4. k \in Tokens /\ issued[k] # NoToken
    BY <2>1 DEF Fresh
  <2> HIDE DEF f
  <2>5. op'[p] = f
    BY <1>1, <2>3 DEF SessionTypes
  <2>6. UNCHANGED <<session, refresh, revoked, issued, ended, loggedOut>>
    BY <1>3 DEF Logout
  <2>7. Carries(p)'
    BY <2>2, <2>4, <2>5, <2>6 DEF Carries, Of
  <2>8. QED
    BY <1>1, <2>2, <2>3, <2>6, <2>7, MoveOK DEF SessionTypes
<1>4. CASE LogoutByRefreshToken(p)
  <2>1. PICK k \in Tokens \ Fresh :
          /\ refresh[k] # NoToken
          /\ op' = [op EXCEPT ![p] = [Idle EXCEPT !.pc = "revoke", !.sid = refresh[k]]]
    BY <1>4 DEF LogoutByRefreshToken
  <2> DEFINE f == [Idle EXCEPT !.pc = "revoke", !.sid = refresh[k]]
  <2>2. f \in OpType /\ f.pc = "revoke" /\ f.sid = refresh[k] /\ ~f.proven
    BY <1>1, <2>1 DEF Idle, OpType, SessionSteps, MaybeToken, SessionTypes
  <2>3. op' = [op EXCEPT ![p] = f]
    BY <2>1
  <2>4. Of(refresh[k], refresh[k])
    BY <1>1, <2>1 DEF Ownership, Of
  <2> HIDE DEF f
  <2>5. op'[p] = f
    BY <1>1, <2>3 DEF SessionTypes
  <2>6. UNCHANGED <<session, refresh, revoked, issued, ended, loggedOut>>
    BY <1>4 DEF LogoutByRefreshToken
  <2>7. Carries(p)'
    BY <2>2, <2>4, <2>5, <2>6 DEF Carries, Of
  <2>8. QED
    BY <1>1, <2>2, <2>3, <2>6, <2>7, MoveOK DEF SessionTypes
<1>5. QED
  BY <1>2, <1>3, <1>4

LEMMA RefreshLoadOK ==
  ASSUME SessionInv, NEW p \in Procs, RefreshLoad(p)
  PROVE  SessionInv'
<1> DEFINE s == op[p].sid
           k == op[p].pair
<1>1. SessionTypes /\ Ownership /\ Carries(p) /\ Finality /\ loggedOut \subseteq revoked
  BY DEF SessionInv
<1>2. /\ op[p].pc = "load" /\ Of(k, s) /\ k # NoToken /\ Of(s, s)
      /\ op[p] \in OpType
      /\ UNCHANGED <<session, refresh, revoked, issued, ended, loggedOut>>
  BY <1>1, TokenAssumption DEF RefreshLoad, Carries, Of, Ownership, SessionTypes
<1>3. CASE session[s] = NoToken
  <2> DEFINE f == [op[p] EXCEPT !.pc = "orphan"]
  <2>1. op' = [op EXCEPT ![p] = f]
    BY <1>3 DEF RefreshLoad, AfterLoad, Goto
  <2>2. /\ f \in OpType /\ f.pc = "orphan" /\ f.pair = k /\ f.sid = s
        /\ f.proven = op[p].proven
    BY <1>2 DEF OpType, SessionSteps
  <2> HIDE DEF f
  <2>3. op'[p] = f
    BY <1>1, <2>1 DEF SessionTypes
  <2>4. \A t \in Tokens : session[t] # k
    BY <1>1, <1>2, <1>3 DEF Ownership, Of
  <2>5. Carries(p)'
    BY <1>1, <1>2, <2>2, <2>3, <2>4 DEF Carries, Of
  <2>6. QED
    BY <1>1, <1>2, <2>1, <2>2, <2>5, MoveOK DEF SessionTypes
<1>4. CASE session[s] = k
  <2> DEFINE f == [op[p] EXCEPT !.pc = "rotate"]
  <2>1. op' = [op EXCEPT ![p] = f]
    BY <1>2, <1>4 DEF RefreshLoad, AfterLoad, Goto
  <2>2. /\ f \in OpType /\ f.pc = "rotate" /\ f.pair = k /\ f.sid = s
        /\ f.proven = op[p].proven
    BY <1>2 DEF OpType, SessionSteps
  <2> HIDE DEF f
  <2>3. op'[p] = f
    BY <1>1, <2>1 DEF SessionTypes
  <2>4. s \notin ended
    BY <1>1, <1>2, <1>4 DEF Finality
  <2>5. Carries(p)'
    BY <1>1, <1>2, <2>2, <2>3 DEF Carries, Of
  <2>6. QED
    BY <1>1, <1>2, <2>1, <2>2, <2>4, <2>5, MoveOK DEF SessionTypes
<1>5. CASE session[s] \notin {NoToken, k}
  <2> DEFINE f == [Idle EXCEPT !.pc = "revoke", !.sid = s]
  <2>1. op' = [op EXCEPT ![p] = f]
    BY <1>5 DEF RefreshLoad, AfterLoad
  <2>2. f \in OpType /\ f.pc = "revoke" /\ f.sid = s /\ ~f.proven
    BY <1>2 DEF Idle, OpType, SessionSteps, MaybeToken, Of
  <2> HIDE DEF f
  <2>3. op'[p] = f
    BY <1>1, <2>1 DEF SessionTypes
  <2>4. Carries(p)'
    BY <1>2, <2>2, <2>3 DEF Carries, Of
  <2>5. QED
    BY <1>1, <1>2, <2>1, <2>2, <2>4, MoveOK DEF SessionTypes
<1>6. QED
  BY <1>3, <1>4, <1>5

\* p is done without having changed a key.
LEMMA DoneOK ==
  ASSUME SessionInv, NEW p \in Procs, Done(p),
         UNCHANGED <<session, refresh, revoked, issued, ended>>,
         loggedOut' \subseteq revoked, loggedOut' \subseteq Tokens
  PROVE  SessionInv'
<1>1. op' = [op EXCEPT ![p] = Idle] /\ op'[p] = Idle
  BY DEF Done, SessionInv, SessionTypes
<1>2. Carries(p)'
  BY <1>1, IdleOK DEF Carries
<1>3. QED
  BY <1>1, <1>2, IdleOK, MoveOK

LEMMA AnswerOK ==
  ASSUME SessionInv, NEW p \in Procs, Answer(p)
  PROVE  loggedOut' \subseteq revoked /\ loggedOut' \subseteq Tokens
BY DEF Answer, SessionInv, SessionTypes, Carries

LEMMA LogoutSteps ==
  ASSUME SessionInv, NEW p \in Procs,
         VerifySession(p) \/ RevokeJti(p) \/ RevokeLoad(p)
  PROVE  SessionInv'
<1> DEFINE s == op[p].sid
           k == op[p].pair
<1>1. /\ SessionTypes /\ Ownership /\ Carries(p) /\ loggedOut \subseteq revoked
      /\ op[p] \in OpType
  BY DEF SessionInv, SessionTypes
<1>2. CASE VerifySession(p)
  <2>1. /\ op[p].pc = "principal"
        /\ UNCHANGED <<session, refresh, revoked, issued, ended, loggedOut>>
    BY <1>2 DEF VerifySession
  <2>2. CASE Done(p)
    BY <1>1, <2>1, <2>2, DoneOK DEF SessionTypes
  <2>3. CASE op' = [op EXCEPT ![p].pc = "revokeJti", ![p].sid = issued[k]]
    <3> DEFINE f == [op[p] EXCEPT !.pc = "revokeJti", !.sid = issued[k]]
    <3>1. Of(issued[k], issued[k]) /\ k \in Tokens
      BY <1>1, <2>1 DEF Carries, Ownership
    <3>2. op' = [op EXCEPT ![p] = f]
      BY <1>1, <2>3 DEF SessionTypes, OpType
    <3>3. /\ f \in OpType /\ f.pc = "revokeJti" /\ f.pair = k /\ f.sid = issued[k]
          /\ f.proven = op[p].proven
      BY <1>1, <3>1 DEF OpType, SessionSteps, Of, MaybeToken
    <3> HIDE DEF f
    <3>4. op'[p] = f
      BY <1>1, <3>2 DEF SessionTypes
    <3>5. Carries(p)'
      BY <1>1, <2>1, <3>1, <3>3, <3>4 DEF Carries, Of
    <3>6. QED
      BY <1>1, <2>1, <3>2, <3>3, <3>5, MoveOK DEF SessionTypes
  <2>4. QED
    BY <1>2, <2>2, <2>3 DEF VerifySession
<1>3. CASE RevokeJti(p)
  <2> DEFINE f == [op[p] EXCEPT !.pc = "revoke", !.proven = TRUE]
  <2>1. /\ op[p].pc = "revokeJti" /\ revoked' = revoked \cup {k}
        /\ UNCHANGED <<session, refresh, issued, ended, loggedOut>>
    BY <1>3 DEF RevokeJti, Revocation
  <2>2. op' = [op EXCEPT ![p] = f]
    BY <1>1, <1>3 DEF RevokeJti, SessionTypes, OpType
  <2>3. /\ f \in OpType /\ f.pc = "revoke" /\ f.pair = k /\ f.sid = s
    BY <1>1 DEF OpType, SessionSteps
  <2> HIDE DEF f
  <2>4. op'[p] = f
    BY <1>1, <2>2 DEF SessionTypes
  <2>5. Of(s, s) /\ k \in Tokens
    BY <1>1, <2>1 DEF Carries
  <2>6. Carries(p)'
    BY <2>1, <2>3, <2>4, <2>5 DEF Carries, Of
  <2>7. QED
    BY <1>1, <2>1, <2>2, <2>3, <2>6, MoveOK DEF SessionTypes
<1>4. CASE RevokeLoad(p)
  <2>1. /\ op[p].pc = "revoke"
        /\ UNCHANGED <<session, refresh, revoked, issued, ended>>
    BY <1>4 DEF RevokeLoad
  <2>2. CASE Done(p) /\ Answer(p)
    BY <2>1, <2>2, DoneOK, AnswerOK
  <2>3. CASE /\ session[s] # NoToken /\ loggedOut' = loggedOut
             /\ op' = [op EXCEPT ![p].pc = "erase", ![p].tok = session[s]]
    <3> DEFINE f == [op[p] EXCEPT !.pc = "erase", !.tok = session[s]]
    <3>1. Of(s, s) /\ Of(session[s], s)
      BY <1>1, <2>1, <2>3 DEF Carries, Ownership, Of
    <3>2. op' = [op EXCEPT ![p] = f]
      BY <1>1, <2>3 DEF SessionTypes, OpType
    <3>3. /\ f \in OpType /\ f.pc = "erase" /\ f.pair = k /\ f.sid = s
          /\ f.tok = session[s] /\ f.proven = op[p].proven
      BY <1>1, <3>1 DEF OpType, SessionSteps, Of, MaybeToken
    <3> HIDE DEF f
    <3>4. op'[p] = f
      BY <1>1, <3>2 DEF SessionTypes
    <3>5. Carries(p)'
      BY <1>1, <2>1, <3>1, <3>3, <3>4 DEF Carries, Of
    <3>6. QED
      BY <1>1, <2>1, <2>3, <3>2, <3>3, <3>5, MoveOK DEF SessionTypes
  <2>4. QED
    BY <1>4, <2>2, <2>3 DEF RevokeLoad
<1>5. QED
  BY <1>2, <1>3, <1>4

-----------------------------------------------------------------------------
(* The steps that change a key. *)

\* p is done, and what it did to the keys keeps what the others rely on.
LEMMA DoneAfterWriteOK ==
  ASSUME SessionInv, NEW p \in Procs, Done(p),
         session' \in [Tokens -> MaybeToken], refresh' \in [Tokens -> MaybeToken],
         issued' \in [Tokens -> MaybeToken], Ownership',
         \A k \in Tokens : issued[k] # NoToken => issued'[k] = issued[k],
         \A q \in Procs \ {p} : op[q].pc = "orphan" =>
           \A s \in Tokens : session'[s] # op[q].pair,
         revoked' = revoked, loggedOut' \subseteq revoked, loggedOut' \subseteq Tokens,
         ended' \subseteq Tokens,
         \A s \in ended' :
           /\ session'[s] = NoToken /\ Of(s, s)
           /\ \A q \in Procs \ {p} : ~(op[q].pc = "rotate" /\ op[q].sid = s)
  PROVE  SessionInv'
<1>1. op' \in [Procs -> OpType] /\ op'[p] = Idle /\ \A q \in Procs \ {p} : op'[q] = op[q]
  BY IdleOK DEF Done, SessionInv, SessionTypes
<1>2. SessionTypes'
  BY <1>1 DEF SessionTypes
<1>3. ASSUME NEW k, NEW s, Of(k, s), s # NoToken
      PROVE  Of(k, s)'
  BY <1>3 DEF Of
<1>4. \A q \in Procs : Carries(q)'
  <2>1. Carries(p)'
    BY <1>1, IdleOK DEF Carries
  <2>2. ASSUME NEW q \in Procs \ {p}
        PROVE  Carries(q)'
    <3>1. Carries(q) /\ op'[q] = op[q]
      BY <1>1 DEF SessionInv
    <3>2. \A k, s : Of(k, s) => Of(k, s)'
      BY <1>3, TokenAssumption DEF Of
    <3>3. QED
      BY <3>1, <3>2 DEF Carries
  <2>3. QED
    BY <2>1, <2>2
<1>5. Finality'
  <2>1. ASSUME NEW s \in ended'
        PROVE  Of(s, s)'
    <3>1. s # NoToken
      BY TokenAssumption DEF Of
    <3>2. QED
      BY <1>3, <3>1
  <2>2. QED
    BY <1>1, <2>1, IdleOK DEF Finality
<1>6. QED
  BY <1>2, <1>4, <1>5 DEF SessionInv

LEMMA DropOrphanOK ==
  ASSUME SessionInv, NEW p \in Procs, DropOrphan(p)
  PROVE  SessionInv'
<1> DEFINE k == op[p].pair
<1>1. /\ k \in Tokens /\ \A s \in Tokens : session[s] # k
      /\ refresh' = [refresh EXCEPT ![k] = NoToken] /\ Done(p)
      /\ UNCHANGED <<session, revoked, issued, loggedOut, ended>>
  BY DEF DropOrphan, SessionInv, Carries, Of
<1>2. refresh' \in [Tokens -> MaybeToken]
  BY <1>1 DEF SessionInv, SessionTypes, MaybeToken
<1>3. Ownership'
  BY <1>1 DEF SessionInv, SessionTypes, Ownership, Of
<1>4. QED
  BY <1>1, <1>2, <1>3, DoneAfterWriteOK
  DEF SessionInv, SessionTypes, Carries, Finality

LEMMA RotateOK ==
  ASSUME SessionInv, NEW p \in Procs, Rotate(p)
  PROVE  SessionInv'
<1> DEFINE s == op[p].sid
           old == op[p].pair
<1>1. PICK k \in Fresh :
        /\ session' = [session EXCEPT ![s] = k]
        /\ refresh' = [refresh EXCEPT ![old] = NoToken, ![k] = s]
        /\ issued' = [issued EXCEPT ![k] = s]
  BY DEF Rotate, KeysAfterRotation
<1>2. /\ op[p].pc = "rotate" /\ Done(p) /\ UNCHANGED <<revoked, loggedOut, ended>>
      /\ Of(old, s) /\ SessionTypes /\ Ownership /\ s \notin ended
  BY DEF Rotate, SessionInv, Carries, Finality
<1>3. /\ s \in Tokens /\ s # NoToken /\ old \in Tokens /\ issued[old] = s
      /\ k \in Tokens /\ issued[k] = NoToken /\ k # NoToken /\ k # old
  BY <1>1, <1>2, TokenAssumption DEF Of, Fresh
<1>4. /\ session' \in [Tokens -> MaybeToken] /\ refresh' \in [Tokens -> MaybeToken]
      /\ issued' \in [Tokens -> MaybeToken]
  BY <1>1, <1>2, <1>3 DEF SessionTypes, MaybeToken
<1>5. \A j \in Tokens : /\ issued'[j] = IF j = k THEN s ELSE issued[j]
                        /\ session'[j] = IF j = s THEN k ELSE session[j]
                        /\ refresh'[j] = IF j = k THEN s ELSE IF j = old THEN NoToken
                                         ELSE refresh[j]
  BY <1>1, <1>2, <1>3 DEF SessionTypes
<1>6. issued[s] = s
  BY <1>2, <1>3 DEF Ownership, Of
<1>7. Ownership'
  <2>1. ASSUME NEW j \in Tokens, issued'[j] # NoToken
        PROVE  issued'[j] \in Tokens /\ issued'[issued'[j]] = issued'[j]
    BY <1>2, <1>3, <1>5, <1>6, <2>1 DEF Ownership, Of
  <2>2. ASSUME NEW t \in Tokens, session'[t] # NoToken
        PROVE  /\ session'[t] \in Tokens /\ issued'[session'[t]] = t
               /\ refresh'[session'[t]] = t
    <3>1. CASE t = s
      BY <1>3, <1>5, <3>1 DEF Of
    <3>2. CASE t # s
      <4>1. session'[t] = session[t] /\ Of(session[t], t) /\ refresh[session[t]] = t
        BY <1>2, <1>5, <2>2, <3>2 DEF Ownership
      <4>2. session[t] # old /\ session[t] # k
        BY <1>3, <3>2, <4>1, TokenAssumption DEF Of
      <4>3. QED
        BY <1>5, <4>1, <4>2 DEF Of
    <3>3. QED
      BY <3>1, <3>2
  <2>3. ASSUME NEW j \in Tokens, refresh'[j] # NoToken
        PROVE  refresh'[j] \in Tokens /\ issued'[j] = refresh'[j]
    BY <1>2, <1>3, <1>5, <2>3 DEF Ownership, Of
  <2>4. QED
    BY <2>1, <2>2, <2>3 DEF Ownership, Of
<1>8. \A q \in Procs \ {p} : op[q].pc = "orphan" =>
        \A t \in Tokens : session'[t] # op[q].pair
  BY <1>3, <1>5, TokenAssumption DEF SessionInv, Carries, Of
<1>9. \A t \in ended : session'[t] = NoToken
  BY <1>2, <1>5 DEF SessionInv, SessionTypes, Finality
<1>10. QED
  BY <1>2, <1>3, <1>4, <1>5, <1>7, <1>8, <1>9, DoneAfterWriteOK
  DEF SessionInv, SessionTypes, Finality

LEMMA RevokeEraseOK ==
  ASSUME SessionInv, NEW p \in Procs, RevokeErase(p)
  PROVE  SessionInv'
<1> DEFINE s == op[p].sid
           k == op[p].tok
<1>1. /\ op[p].pc = "erase" /\ Done(p) /\ Answer(p)
      /\ session' = [session EXCEPT ![s] = NoToken]
      /\ refresh' = [refresh EXCEPT ![k] = NoToken]
      /\ ended' = IF AtWrite(s) THEN ended ELSE ended \cup {s}
      /\ UNCHANGED <<revoked, issued>>
  BY DEF RevokeErase
<1>2. Of(s, s) /\ Of(k, s) /\ SessionTypes /\ Ownership
  BY <1>1 DEF SessionInv, Carries
<1>3. s \in Tokens /\ s # NoToken /\ k \in Tokens /\ issued[k] = s
  BY <1>2, TokenAssumption DEF Of
<1>4. session' \in [Tokens -> MaybeToken] /\ refresh' \in [Tokens -> MaybeToken]
  BY <1>1, <1>2, <1>3 DEF SessionTypes, MaybeToken
<1>5. \A j \in Tokens : /\ session'[j] = IF j = s THEN NoToken ELSE session[j]
                        /\ refresh'[j] = IF j = k THEN NoToken ELSE refresh[j]
  BY <1>1, <1>2 DEF SessionTypes
<1>6. Ownership'
  <2>1. ASSUME NEW t \in Tokens, session'[t] # NoToken
        PROVE  Of(session'[t], t) /\ refresh'[session'[t]] = t
    <3>1. t # s /\ session'[t] = session[t] /\ Of(session[t], t) /\ refresh[session[t]] = t
      BY <1>2, <1>5, <2>1 DEF Ownership
    <3>2. session[t] # k /\ session[t] \in Tokens
      BY <1>3, <3>1 DEF Of
    <3>3. QED
      BY <1>5, <3>1, <3>2
  <2>2. QED
    BY <1>1, <1>2, <1>5, <2>1 DEF Ownership, Of
<1>7. \A q \in Procs \ {p} : op[q].pc = "orphan" =>
        \A t \in Tokens : session'[t] # op[q].pair
  BY <1>5, TokenAssumption DEF SessionInv, Carries, Of
<1>8. \A t \in ended' :
        /\ session'[t] = NoToken /\ Of(t, t)
        /\ \A q \in Procs \ {p} : ~(op[q].pc = "rotate" /\ op[q].sid = t)
  <2>1. ASSUME NEW t \in ended'
        PROVE  t \in ended \/ (t = s /\ ~AtWrite(s))
    BY <1>1, <2>1
  <2>2. QED
    BY <1>2, <1>3, <1>5, <2>1 DEF SessionInv, SessionTypes, Finality, AtWrite
<1>9. loggedOut' \subseteq revoked /\ loggedOut' \subseteq Tokens
  BY <1>1, AnswerOK
<1>10. ended' \subseteq Tokens
  BY <1>1, <1>2, <1>3 DEF SessionTypes
<1>11. QED
  BY <1>1, <1>2, <1>4, <1>6, <1>7, <1>8, <1>9, <1>10, DoneAfterWriteOK DEF SessionTypes

\* A login opens a session under a fresh pair.
LEMMA CreateOK ==
  ASSUME SessionInv, NEW k \in Tokens, NEW u, Create(u, k)
  PROVE  SessionInv'
<1>1. /\ issued[k] = NoToken /\ k # NoToken
      /\ session' = [session EXCEPT ![k] = k]
      /\ refresh' = [refresh EXCEPT ![k] = k]
      /\ issued' = [issued EXCEPT ![k] = k]
      /\ UNCHANGED <<revoked, op, loggedOut, ended>>
  BY TokenAssumption DEF Create, CreateSession, Fresh
<1>2. SessionTypes /\ Ownership /\ Finality
  BY DEF SessionInv
<1>3. SessionTypes'
  BY <1>1, <1>2 DEF SessionTypes, MaybeToken
<1>4. \A j \in Tokens : /\ session'[j] = IF j = k THEN k ELSE session[j]
                        /\ refresh'[j] = IF j = k THEN k ELSE refresh[j]
                        /\ issued'[j] = IF j = k THEN k ELSE issued[j]
  BY <1>1, <1>2 DEF SessionTypes
<1>5. Ownership'
  BY <1>1, <1>2, <1>4, TokenAssumption DEF Ownership, Of
<1>6. ASSUME NEW j, NEW s, Of(j, s), s # NoToken
      PROVE  Of(j, s)'
  BY <1>1, <1>4, <1>6 DEF Of
<1>7. \A q \in Procs : Carries(q)'
  <2> SUFFICES ASSUME NEW q \in Procs
               PROVE  Carries(q)'
    OBVIOUS
  <2>1. Carries(q) /\ op'[q] = op[q] /\ revoked' = revoked
    BY <1>1 DEF SessionInv
  <2>2. \A j, s : Of(j, s) => Of(j, s)'
    BY <1>6, TokenAssumption DEF Of
  <2>3. op[q].pc = "orphan" => op[q].pair # k /\ \A s \in Tokens : session'[s] # op[q].pair
    BY <1>1, <1>4, <2>1, TokenAssumption DEF Carries, Of
  <2>4. op[q].pc = "principal" => issued'[op[q].pair] # NoToken
    BY <1>1, <1>4, <2>1 DEF Carries
  <2>5. QED
    BY <2>1, <2>2, <2>3, <2>4 DEF Carries
<1>8. Finality'
  <2>1. ASSUME NEW s \in ended
        PROVE  s # k /\ session'[s] = NoToken /\ Of(s, s)'
    BY <1>1, <1>2, <1>4, <1>6, <2>1, TokenAssumption DEF Finality, Of
  <2>2. QED
    BY <1>1, <1>2, <2>1 DEF Finality
<1>9. QED
  BY <1>1, <1>3, <1>5, <1>7, <1>8 DEF SessionInv

LEMMA ExpiryOK ==
  ASSUME SessionInv, SessionEnvironment
  PROVE  SessionInv'
<1>1. /\ SessionTypes /\ Ownership /\ Finality
      /\ UNCHANGED <<revoked, issued, op, loggedOut, ended>>
  BY DEF SessionInv, SessionEnvironment, ExpireSession, ExpireRefreshKey
<1>2. CASE ExpireSession
  <2>1. PICK s \in Tokens : session' = [session EXCEPT ![s] = NoToken] /\ refresh' = refresh
    BY <1>2 DEF ExpireSession
  <2>2. session' \in [Tokens -> MaybeToken]
        /\ \A t \in Tokens : session'[t] = IF t = s THEN NoToken ELSE session[t]
    BY <1>1, <2>1 DEF SessionTypes, MaybeToken
  <2>3. Ownership' /\ Finality'
    BY <1>1, <2>1, <2>2 DEF Ownership, Finality, Of, SessionTypes
  <2>4. \A q \in Procs : Carries(q)'
    BY <1>1, <2>2, TokenAssumption DEF SessionInv, Carries, Of
  <2>5. QED
    BY <1>1, <2>1, <2>2, <2>3, <2>4 DEF SessionInv, SessionTypes
<1>3. CASE ExpireRefreshKey
  <2>1. PICK k \in Tokens : /\ \A s \in Tokens : session[s] # k
                            /\ refresh' = [refresh EXCEPT ![k] = NoToken]
                            /\ session' = session
    BY <1>3 DEF ExpireRefreshKey
  <2>2. refresh' \in [Tokens -> MaybeToken]
        /\ \A t \in Tokens : refresh'[t] = IF t = k THEN NoToken ELSE refresh[t]
    BY <1>1, <2>1 DEF SessionTypes, MaybeToken
  <2>3. Ownership' /\ Finality'
    BY <1>1, <2>1, <2>2 DEF Ownership, Finality, Of
  <2>4. \A q \in Procs : Carries(q)'
    BY <1>1, <2>1 DEF SessionInv, Carries, Of
  <2>5. QED
    BY <1>1, <2>1, <2>2, <2>3, <2>4 DEF SessionInv, SessionTypes
<1>4. QED
  BY <1>2, <1>3 DEF SessionEnvironment

LEMMA SessionInvStep ==
  ASSUME SessionInv, [Next]_vars
  PROVE  SessionInv'
<1>1. ASSUME NEW p \in Procs, SessionStep(p)
      PROVE  SessionInv'
  BY <1>1, LoadSteps, RefreshLoadOK, LogoutSteps, DropOrphanOK, RotateOK, RevokeEraseOK
  DEF SessionStep
<1>2. CASE UNCHANGED sessionVars
  BY <1>2
  DEF sessionVars, SessionInv, SessionTypes, Ownership, Carries, Finality, Of
<1>3. QED
  BY <1>1, <1>2, SessionCases, CreateOK, ExpiryOK

\* The invariant of the sessions (customer_session_service.py:37-137): tokens
\* belong to one session for good, and requests delete no other's key.
THEOREM SessionInvHolds == Spec => []SessionInv
<1>1. Init => SessionInv
  BY SessionInvInit DEF Init
<1>2. QED
  BY <1>1, SessionInvStep, PTL DEF Spec

\* The refresh token a session waits for always leads back to it
\* (rotate_refresh_token, revoke_session), however refreshes, logouts and
\* expiry overlap.
THEOREM StoredTokenIsKnownHolds == Spec => []StoredTokenIsKnown
<1>1. SessionInv => StoredTokenIsKnown
  BY DEF SessionInv, Ownership, StoredTokenIsKnown
<1>2. QED
  BY <1>1, SessionInvHolds, PTL

\* A session erased by revoke_session while no refresh stood between its read
\* and its write stays erased.
THEOREM QuietLogoutIsFinalHolds == Spec => []QuietLogoutIsFinal
<1>1. SessionInv => QuietLogoutIsFinal
  BY DEF SessionInv, Finality, QuietLogoutIsFinal
<1>2. QED
  BY <1>1, SessionInvHolds, PTL

\* The access token a client logged out with (api/routes/auth.py:97-124) is
\* refused from then on, whatever a refresh under way writes.
THEOREM PresentedTokenDiesHolds == Spec => []PresentedTokenDies
<1>1. SessionInv => PresentedTokenDies
  BY DEF SessionInv, PresentedTokenDies, Accepted
<1>2. QED
  BY <1>1, SessionInvHolds, PTL

-----------------------------------------------------------------------------
(* The lockout. *)

\* Requests for n that passed the check and have not verified yet.
Past(n) == {p \in Procs : try[p].name = n /\ try[p].pc \in {"verify", "password"}}

TryOK ==
  /\ try = [p \in Procs |-> try[p]]
  /\ \A p \in Procs :
       /\ try[p] = [pc |-> try[p].pc, ip |-> try[p].ip, name |-> try[p].name,
                    code |-> try[p].code, user |-> try[p].user]
       /\ try[p].pc # "idle" => try[p].name \in Names /\ try[p].ip \in Ips

\* What is left of the guesses a lock lets through.
LockInv ==
  /\ TryOK
  /\ late = [n \in Names |-> late[n]]
  /\ \A n \in Names :
       /\ late[n] \in Nat
       /\ n \notin locked => late[n] = 0
       /\ n \in locked => late[n] + Cardinality(Past(n)) < Cardinality(Procs)

\* A step of p: nobody else moves, and p goes to pc with the name it had.
Moves(p, pc) ==
  /\ TryOK' /\ try'[p].pc = pc
  /\ \A q \in Procs \ {p} : try'[q] = try[q]
  /\ try'[p].pc # "idle" => try'[p].name = try[p].name

Shape(r) == r = [pc |-> r.pc, ip |-> r.ip, name |-> r.name, code |-> r.code, user |-> r.user]

LEMMA TrySet ==
  ASSUME TryOK, NEW p \in Procs, NEW r, try' = [try EXCEPT ![p] = r], Shape(r),
         r.pc # "idle" => r.name = try[p].name /\ r.name \in Names /\ r.ip \in Ips
  PROVE  Moves(p, r.pc)
<1>1. try' = [q \in Procs |-> IF q = p THEN r ELSE try[q]]
  BY DEF TryOK
<1>2. try'[p] = r /\ \A q \in Procs \ {p} : try'[q] = try[q]
  BY <1>1
<1>3. try' = [q \in Procs |-> try'[q]]
  BY <1>1
<1>4. TryOK'
  BY <1>1, <1>2, <1>3 DEF TryOK, Shape
<1>5. QED
  BY <1>2, <1>4 DEF Moves

LEMMA LeaveMoves ==
  ASSUME TryOK, NEW p \in Procs, Leave(p)
  PROVE  Moves(p, "idle")
<1>1. Shape(NoTry) /\ NoTry.pc = "idle"
  BY DEF Shape, NoTry, At
<1>2. QED
  BY <1>1, TrySet DEF Leave

LEMMA StepMoves ==
  ASSUME TryOK, NEW p \in Procs, NEW pc, Step(p, pc), try[p].pc # "idle"
  PROVE  Moves(p, pc)
<1> DEFINE r == [pc |-> pc, ip |-> try[p].ip, name |-> try[p].name,
                 code |-> try[p].code, user |-> try[p].user]
<1>1. [try[p] EXCEPT !.pc = pc] = r
  <2>1. try[p] = [pc |-> try[p].pc, ip |-> try[p].ip, name |-> try[p].name,
                  code |-> try[p].code, user |-> try[p].user]
    BY DEF TryOK
  <2>2. QED
    BY <2>1
<1>2. try' = [try EXCEPT ![p] = r]
  BY <1>1 DEF Step
<1>3. Shape(r) /\ r.pc = pc /\ r.name = try[p].name /\ r.name \in Names /\ r.ip \in Ips
  BY DEF Shape, TryOK
<1>4. QED
  BY <1>2, <1>3, TrySet

LEMMA OpenMoves ==
  ASSUME TryOK, NEW p \in Procs, NEW u, Open(p, u), try[p].pc # "idle"
  PROVE  Moves(p, "open")
<1> DEFINE r == At("open", try[p].ip, try[p].name, try[p].code, u)
<1>1. try' = [try EXCEPT ![p] = r]
  BY DEF Open
<1>2. Shape(r) /\ r.pc = "open" /\ r.name = try[p].name /\ r.name \in Names /\ r.ip \in Ips
  BY DEF Shape, TryOK, At
<1>3. QED
  BY <1>1, <1>2, TrySet

LEMMA PastOK ==
  ASSUME NEW n
  PROVE  IsFiniteSet(Past(n)) /\ Cardinality(Past(n)) \in Nat /\ Cardinality(Procs) \in Nat
<1>1. Past(n) \in SUBSET Procs
  BY DEF Past
<1>2. QED
  BY <1>1, ProcsAssumption, FS_Subset, FS_CardinalityType

LEMMA PastBound ==
  ASSUME NEW p \in Procs, NEW n, p \notin Past(n)
  PROVE  Cardinality(Past(n)) < Cardinality(Procs)
<1>1. Past(n) \in SUBSET (Procs \ {p})
  BY DEF Past
<1>2. IsFiniteSet(Procs \ {p}) /\ Cardinality(Procs \ {p}) = Cardinality(Procs) - 1
  BY ProcsAssumption, FS_RemoveElement
<1>3. Cardinality(Past(n)) <= Cardinality(Procs \ {p})
  BY <1>1, <1>2, FS_Subset
<1>4. QED
  BY <1>2, <1>3, PastOK

\* After a step of p that is not towards the verification, Past is smaller by
\* p or as large as before.
LEMMA PastShrinks ==
  ASSUME TryOK, NEW p \in Procs, NEW n, NEW pc, Moves(p, pc),
         pc \notin {"verify", "password"}
  PROVE  /\ Cardinality(Past(n))' \in Nat /\ Cardinality(Past(n)) \in Nat
         /\ Cardinality(Past(n))' <= Cardinality(Past(n))
         /\ p \in Past(n) => Cardinality(Past(n))' = Cardinality(Past(n)) - 1
<1>1. Past(n)' = Past(n) \ {p}
  BY DEF Moves, Past
<1>2. Cardinality(Past(n))' = Cardinality(Past(n) \ {p})
  BY <1>1
<1>3. IsFiniteSet(Past(n)) /\ Cardinality(Past(n)) \in Nat
  BY PastOK
<1>4. CASE p \in Past(n)
  <2>1. Cardinality(Past(n) \ {p}) = Cardinality(Past(n)) - 1
    BY <1>3, <1>4, FS_RemoveElement
  <2>2. Cardinality(Past(n) \ {p}) \in Nat
    BY <1>3, FS_RemoveElement, FS_CardinalityType
  <2>3. QED
    BY <1>2, <1>3, <2>1, <2>2
<1>5. CASE p \notin Past(n)
  <2>1. Past(n) \ {p} = Past(n)
    BY <1>5
  <2>2. QED
    BY <1>2, <1>3, <1>5, <2>1
<1>6. QED
  BY <1>4, <1>5

\* A step after which nobody passed the check who had not before, and no guess
\* was made.
LEMMA NoGuessOK ==
  ASSUME LockInv, NEW p \in Procs, NEW pc, Moves(p, pc),
         pc \notin {"verify", "password"}, UNCHANGED <<locked, late>>
  PROVE  LockInv'
<1>1. TryOK
  BY DEF LockInv
<1>2. ASSUME NEW n \in Names
      PROVE  /\ late'[n] \in Nat
             /\ n \notin locked' => late'[n] = 0
             /\ n \in locked' => late'[n] + Cardinality(Past(n))' < Cardinality(Procs)
  BY <1>1, <1>2, PastShrinks, PastOK DEF LockInv
<1>3. QED
  BY <1>2 DEF LockInv, Moves

\* The check lets p through only while the name is not locked.
LEMMA CheckOK ==
  ASSUME LockInv, NEW p \in Procs, CheckNameLock(p)
  PROVE  LockInv'
<1>1. TryOK /\ try[p].pc # "idle" /\ UNCHANGED <<locked, late>>
  BY DEF LockInv, CheckNameLock
<1>2. CASE try[p].name \in locked
  BY <1>1, <1>2, LeaveMoves, NoGuessOK DEF CheckNameLock, SeesLock
<1>3. CASE try[p].name \notin locked
  <2>1. PICK pc \in {"verify", "password"} : Step(p, pc)
    BY <1>3 DEF CheckNameLock, SeesLock
  <2>2. Moves(p, pc)
    BY <1>1, <2>1, StepMoves
  <2>3. ASSUME NEW n \in Names
        PROVE  /\ late'[n] \in Nat
               /\ n \notin locked' => late'[n] = 0
               /\ n \in locked' => late'[n] + Cardinality(Past(n))' < Cardinality(Procs)
    <3>1. n # try[p].name => Past(n)' = Past(n)
      BY <1>1, <2>2, <2>1 DEF Moves, Past
    <3>2. QED
      BY <1>1, <1>3, <3>1 DEF LockInv
  <2>4. QED
    BY <1>1, <2>2, <2>3 DEF LockInv, Moves
<1>4. QED
  BY <1>2, <1>3

\* A guess of a request that had passed the check.
LEMMA GuessOK ==
  ASSUME LockInv, NEW p \in Procs, try[p].pc \in {"verify", "password"},
         Guess(p), Step(p, "fail"), UNCHANGED locked
  PROVE  LockInv'
<1>1. TryOK /\ Moves(p, "fail") /\ try[p].name \in Names
  BY StepMoves DEF LockInv, TryOK
<1>2. late' = [n \in Names |-> late'[n]]
      /\ \A n \in Names : late'[n] = IF n # try[p].name THEN late[n]
                                      ELSE IF n \in locked THEN late[n] + 1 ELSE 0
  BY <1>1 DEF LockInv, Guess
<1>3. ASSUME NEW n \in Names
      PROVE  /\ late'[n] \in Nat
             /\ n \notin locked' => late'[n] = 0
             /\ n \in locked' => late'[n] + Cardinality(Past(n))' < Cardinality(Procs)
  <2>1. n = try[p].name => p \in Past(n)
    BY DEF Past
  <2>2. /\ Cardinality(Past(n))' \in Nat /\ Cardinality(Past(n)) \in Nat
        /\ Cardinality(Past(n))' <= Cardinality(Past(n))
        /\ p \in Past(n) => Cardinality(Past(n))' = Cardinality(Past(n)) - 1
    BY <1>1, PastShrinks
  <2>3. QED
    BY <1>2, <2>1, <2>2, PastOK DEF LockInv
<1>4. QED
  BY <1>1, <1>2, <1>3 DEF LockInv, Moves

LEMMA LockOK ==
  ASSUME LockInv, NEW p \in Procs, Lock(p)
  PROVE  LockInv'
<1>1. TryOK /\ Moves(p, "idle") /\ late' = late /\ locked' = locked \cup KeysOf(p)
  BY LeaveMoves DEF LockInv, Lock
<1>2. ASSUME NEW n \in Names
      PROVE  /\ late'[n] \in Nat
             /\ n \notin locked' => late'[n] = 0
             /\ n \in locked' => late'[n] + Cardinality(Past(n))' < Cardinality(Procs)
  <2>1. p \notin Past(n)
    BY DEF Lock, Past
  <2>2. Cardinality(Past(n)) < Cardinality(Procs) /\ Cardinality(Procs) \in Nat
    BY <2>1, PastBound, PastOK
  <2>3. /\ Cardinality(Past(n))' \in Nat /\ Cardinality(Past(n)) \in Nat
        /\ Cardinality(Past(n))' <= Cardinality(Past(n))
    BY <1>1, PastShrinks
  <2>4. QED
    BY <1>1, <2>2, <2>3 DEF LockInv
<1>3. QED
  BY <1>1, <1>2 DEF LockInv, Moves

LEMMA SucceedOK ==
  ASSUME LockInv, NEW p \in Procs, Succeed(p)
  PROVE  LockInv'
<1>1. TryOK /\ try[p].name \in Names /\ try[p].pc = "success"
      /\ locked' = locked \ KeysOf(p)
  BY DEF LockInv, Succeed, TryOK
<1>2. \E pc \in {"find", "open"} : Moves(p, pc)
  BY <1>1, StepMoves, OpenMoves DEF Succeed
<1>3. late' = [n \in Names |-> late'[n]]
      /\ \A n \in Names : late'[n] = IF n # try[p].name THEN late[n] ELSE 0
  BY <1>1 DEF LockInv, Succeed
<1>4. IpKey(p) \notin Names
  <2>1. IpKey(p) \in IpKeys
    BY <1>1 DEF IpKey, IpKeys, Route, TryOK
  <2>2. QED
    BY <2>1, KeysAssumption
<1>5. ASSUME NEW n \in Names
      PROVE  /\ late'[n] \in Nat
             /\ n \notin locked' => late'[n] = 0
             /\ n \in locked' => late'[n] + Cardinality(Past(n))' < Cardinality(Procs)
  <2>1. n \in KeysOf(p) <=> n = try[p].name
    BY <1>4 DEF KeysOf
  <2>2. /\ Cardinality(Past(n))' \in Nat /\ Cardinality(Past(n)) \in Nat
        /\ Cardinality(Past(n))' <= Cardinality(Past(n))
    BY <1>1, <1>2, PastShrinks
  <2>3. QED
    BY <1>1, <1>3, <2>1, <2>2, PastOK DEF LockInv
<1>6. QED
  BY <1>1, <1>2, <1>3, <1>5 DEF LockInv, Moves

LEMMA StartLoginOK ==
  ASSUME LockInv, NEW p \in Procs, StartLogin(p)
  PROVE  LockInv'
<1>1. PICK ip \in Ips, n \in Names : \E c \in Codes(n) :
        try' = [try EXCEPT ![p] = At("nameLock", ip, n, c, Null)]
  BY DEF StartLogin
<1>2. PICK c \in Codes(n) : try' = [try EXCEPT ![p] = At("nameLock", ip, n, c, Null)]
  BY <1>1
<1> DEFINE r == At("nameLock", ip, n, c, Null)
<1>3. try' = [q \in Procs |-> IF q = p THEN r ELSE try[q]]
  BY <1>2 DEF LockInv, TryOK
<1>4. TryOK' /\ try'[p].pc = "nameLock" /\ \A q \in Procs \ {p} : try'[q] = try[q]
  BY <1>3 DEF TryOK, LockInv, At
<1>5. \A m : Past(m)' = Past(m)
  BY <1>4 DEF Past, StartLogin
<1>6. late' = late /\ locked' = locked
  BY DEF StartLogin
<1>7. QED
  BY <1>4, <1>5, <1>6 DEF LockInv

LEMMA LockExpiresOK ==
  ASSUME LockInv, LockExpires
  PROVE  LockInv'
<1>1. PICK k \in locked : /\ locked' = locked \ {k}
                          /\ late' = [n \in Names |-> IF n = k THEN 0 ELSE late[n]]
  BY DEF LockExpires
<1>2. try' = try
  BY DEF LockExpires
<1>3. TryOK' /\ \A m : Past(m)' = Past(m)
  BY <1>2 DEF LockInv, TryOK, Past
<1>4. QED
  BY <1>1, <1>3 DEF LockInv

LEMMA LockoutStepOK ==
  ASSUME LockInv, NEW p \in Procs, LockoutStep(p)
  PROVE  LockInv'
<1>1. CASE VerifyCode(p)
  <2>1. CASE Step(p, "fail") /\ Guess(p)
    BY <1>1, <2>1, GuessOK DEF VerifyCode
  <2>2. CASE Step(p, "dropCode") /\ UNCHANGED late
    BY <1>1, <2>2, StepMoves, NoGuessOK DEF VerifyCode, LockInv
  <2>3. QED
    BY <1>1, <2>1, <2>2 DEF VerifyCode
<1>2. CASE VerifyPassword(p)
  <2>1. CASE Step(p, "fail") /\ Guess(p)
    BY <1>2, <2>1, GuessOK DEF VerifyPassword
  <2>2. CASE Leave(p) /\ UNCHANGED late
    BY <1>2, <2>2, LeaveMoves, NoGuessOK DEF VerifyPassword, LockInv
  <2>3. CASE Step(p, "success") /\ UNCHANGED late
    BY <1>2, <2>3, StepMoves, NoGuessOK DEF VerifyPassword, LockInv
  <2>4. QED
    BY <1>2, <2>1, <2>2, <2>3 DEF VerifyPassword
<1>3. CASE DropCode(p)
  BY <1>3, StepMoves, NoGuessOK DEF DropCode, LockInv
<1>4. CASE CountFailure(p)
  <2>1. Moves(p, "lock") \/ Moves(p, "idle")
    BY <1>4, StepMoves, LeaveMoves DEF CountFailure, LockInv
  <2>2. QED
    BY <1>4, <2>1, NoGuessOK DEF CountFailure
<1>5. QED
  BY <1>1, <1>2, <1>3, <1>4, StartLoginOK, CheckOK, LockOK, SucceedOK DEF LockoutStep

LEMMA LockInvInit == LoginInit => LockInv
<1>1. SUFFICES ASSUME LoginInit PROVE LockInv
  OBVIOUS
<1>2. TryOK
  BY <1>1 DEF LoginInit, TryOK, NoTry, At
<1>3. late = [n \in Names |-> late[n]] /\ locked = {} /\ \A n \in Names : late[n] = 0
  BY <1>1 DEF LoginInit
<1>4. QED
  BY <1>2, <1>3 DEF LockInv

LEMMA LockInvStep ==
  ASSUME LockInv, [Next]_vars
  PROVE  LockInv'
<1>1. ASSUME NEW p \in Procs, FindUser(p) \/ CreateUser(p) \/ OpenSession(p)
      PROVE  LockInv'
  <2>1. TryOK /\ try[p].pc # "idle" /\ UNCHANGED <<locked, late>>
    BY <1>1 DEF FindUser, CreateUser, OpenSession, LockInv
  <2>2. \E pc \in {"idle", "open", "create", "findAgain"} : Moves(p, pc)
    BY <1>1, <2>1, StepMoves, OpenMoves, LeaveMoves DEF FindUser, CreateUser, OpenSession
  <2>3. QED
    BY <2>1, <2>2, NoGuessOK
<1>2. CASE UNCHANGED <<try, late, locked>>
  BY <1>2 DEF LockInv, TryOK, Past
<1>3. CASE LoginEnvironment
  BY <1>2, <1>3, LockExpiresOK DEF LoginEnvironment, SendCode, ExpireCode, FailuresExpire
<1>4. CASE UNCHANGED loginVars
  BY <1>2, <1>4 DEF loginVars
<1>5. QED
  BY <1>1, <1>3, <1>4, LockoutStepOK DEF Next, vars

\* What the lockout leaves (login_lockout.py:48-99): while a name is locked,
\* the guesses made and those still to come are fewer than the processes.
THEOREM LockInvHolds == Spec => []LockInv
<1>1. Init => LockInv
  BY LockInvInit DEF Init
<1>2. QED
  BY <1>1, LockInvStep, PTL DEF Spec

\* A lock lets through at most one guess of each other process, however many
\* processes serve logins.
THEOREM LateGuessesHolds == Spec => []LateGuesses
<1>1. LockInv => LateGuesses
  <2>1. SUFFICES ASSUME LockInv, NEW n \in Names PROVE late[n] < Cardinality(Procs)
    BY DEF LateGuesses
  <2>2. /\ Cardinality(Past(n)) \in Nat
        /\ Cardinality(Procs) \in Nat /\ Cardinality(Procs) > 0
    BY PastOK, FS_EmptySet, ProcsAssumption
  <2>3. QED
    BY <2>1, <2>2 DEF LockInv
<1>2. QED
  BY <1>1, LockInvHolds, PTL

-----------------------------------------------------------------------------
(* The accounts. *)

AccountInv ==
  /\ account = [u \in DOMAIN account |-> account[u]]
  /\ \A u, v \in DOMAIN account : u # v => /\ account[u].phone # account[v].phone
                                          /\ account[u].email # account[v].email

LEMMA InsertOK ==
  ASSUME AccountInv, NEW u \in Users, NEW phone, NEW email, Insert(u, phone, email)
  PROVE  AccountInv'
<1>1. account' = [v \in DOMAIN account \cup {u} |->
                    IF v = u THEN NewDoc(phone, email) ELSE account[v]]
  BY DEF Insert
<1>2. /\ account' = [v \in DOMAIN account' |-> account'[v]]
      /\ DOMAIN account' = DOMAIN account \cup {u}
      /\ u \notin DOMAIN account /\ account'[u] = NewDoc(phone, email)
      /\ \A v \in DOMAIN account : account'[v] = account[v]
  BY <1>1 DEF Insert
<1>3. account'[u].phone = phone /\ account'[u].email = email
  BY <1>2 DEF NewDoc
<1>4. \A v \in DOMAIN account : account[v].phone # phone /\ account[v].email # email
  BY <1>2 DEF Insert, Accepts
<1>5. QED
  BY <1>2, <1>3, <1>4 DEF AccountInv

LEMMA UpdateOK ==
  ASSUME AccountInv, NEW u, NEW phone, NEW email, Update(u, phone, email)
  PROVE  AccountInv'
<1> DEFINE doc == Patched(account[u], phone, email)
<1>1. CASE UNCHANGED account
  BY <1>1 DEF AccountInv
<1>2. CASE Accepts(u, doc.phone, doc.email) /\ account' = [account EXCEPT ![u] = doc]
  <2>1. account' = [v \in DOMAIN account |-> IF v = u THEN doc ELSE account[v]]
    BY <1>2 DEF AccountInv
  <2>2. /\ account' = [v \in DOMAIN account' |-> account'[v]]
        /\ DOMAIN account' = DOMAIN account
        /\ u \in DOMAIN account => account'[u] = doc
        /\ \A v \in DOMAIN account \ {u} : account'[v] = account[v]
    BY <2>1
  <2>3. \A v \in DOMAIN account \ {u} : account[v].phone # doc.phone /\ account[v].email # doc.email
    BY <1>2 DEF Accepts
  <2> HIDE DEF doc
  <2>4. QED
    BY <2>2, <2>3 DEF AccountInv
<1>3. QED
  BY <1>1, <1>2 DEF Update

LEMMA AccountInvStep ==
  ASSUME AccountInv, [Next]_vars
  PROVE  AccountInv'
<1>1. CASE UNCHANGED account
  BY <1>1 DEF AccountInv
<1>2. ASSUME NEW p \in Procs, FindUser(p) \/ CreateUser(p)
      PROVE  AccountInv'
  BY <1>1, <1>2, InsertOK DEF FindUser, CreateUser
<1>3. CASE EditProfile
  BY <1>3, UpdateOK DEF EditProfile
<1>4. ASSUME NEW c \in Customers, CaptureStep(c)
      PROVE  AccountInv'
  <2>1. CASE CaptureInsert(c)
    BY <1>1, <2>1, InsertOK DEF CaptureInsert
  <2>2. CASE CapturePatch(c)
    BY <1>4, <2>2, UpdateOK DEF CapturePatch
  <2>3. CASE StartCapture(c) \/ CaptureById(c) \/ CaptureByPhone(c) \/ CaptureByEmail(c)
    BY <1>1, <2>3 DEF StartCapture, CaptureById, CaptureByPhone, CaptureByEmail
  <2>4. CASE CaptureAgain(c) \/ CaptureEmailClaim(c) \/ CapturePhoneClaim(c)
    <3>1. UNCHANGED account
      BY <2>4 DEF CaptureAgain, CaptureEmailClaim, CapturePhoneClaim
    <3>2. QED
      BY <1>1, <3>1
  <2>5. QED
    BY <1>4, <2>1, <2>2, <2>3, <2>4 DEF CaptureStep
<1>5. QED
  BY <1>1, <1>2, <1>3, <1>4 DEF Next, vars, accountVars

\* The unique indexes and update_profile (user_service.py:50-55, 132-156): no
\* two accounts share an address or a number.
THEOREM AccountInvHolds == Spec => []AccountInv
<1>1. Init => AccountInv
  BY DEF Init, AccountInit, AccountInv
<1>2. QED
  BY <1>1, AccountInvStep, PTL DEF Spec

-----------------------------------------------------------------------------
(* The types of the front door.                                            *)

MaybePhone == Phones \cup {Null}
MaybeEmail == Emails \cup {Null}
ReqType == [pc : {"idle", "byId", "byPhone", "byEmail", "insert", "againByPhone",
                  "againByEmail", "claims", "claimPhone", "patch"},
            phone : MaybePhone \cup {Keep}, email : MaybeEmail \cup {Keep},
            user : Users \cup {Null}, hadPhone : MaybePhone, hadEmail : MaybeEmail]

\* A field of a request may say "keep" only once the claims were decided.
Captures ==
  /\ req \in [Customers -> ReqType]
  /\ \A c \in Customers :
       /\ req[c].pc \notin {"claimPhone", "patch"} => req[c].email \in MaybeEmail
       /\ req[c].pc # "patch" => req[c].phone \in MaybePhone

Contacts ==
  /\ DOMAIN account \subseteq Users
  /\ \A u \in DOMAIN account : account[u].phone \in MaybePhone /\ account[u].email \in MaybeEmail

\* Only a customer's login looks for an account by the address it was sent to.
LoginsByEmail ==
  \A p \in Procs : try[p].pc \in {"find", "create", "findAgain"} => try[p].name \in Emails

OneRequest == \A p \in Procs : try[p].pc = "idle" \/ op[p].pc = "idle"
IndexOK == userSessions \in [Holders -> SUBSET Tokens]

\* A counter at the threshold has somebody on the way to lock and clear it.
Locking(k) == {p \in Procs : try[p].pc = "lock" /\ k \in KeysOf(p)}
Counters ==
  /\ fails \in [Keys -> Nat] /\ locked \subseteq Keys
  /\ \A k \in Keys : fails[k] <= MaxAttempts + Cardinality(Locking(k))

FrontInv ==
  /\ SessionInv /\ LockInv /\ AccountInv
  /\ Captures /\ Contacts /\ LoginsByEmail /\ OneRequest /\ IndexOK /\ Counters

LEMMA InsertContacts ==
  ASSUME Contacts, NEW u \in Users, NEW phone \in MaybePhone, NEW email \in MaybeEmail,
         Insert(u, phone, email)
  PROVE  Contacts'
<1>1. /\ DOMAIN account' = DOMAIN account \cup {u} /\ account'[u] = NewDoc(phone, email)
      /\ \A v \in DOMAIN account : account'[v] = account[v]
  BY DEF Insert
<1>2. QED
  BY <1>1 DEF Contacts, NewDoc

LEMMA UpdateContacts ==
  ASSUME Contacts, AccountInv, NEW u, NEW phone \in MaybePhone \cup {Keep},
         NEW email \in MaybeEmail \cup {Keep}, Update(u, phone, email)
  PROVE  Contacts'
<1> DEFINE doc == Patched(account[u], phone, email)
<1>1. CASE UNCHANGED account
  BY <1>1 DEF Contacts
<1>2. CASE account' = [account EXCEPT ![u] = doc]
  <2>1. u \in DOMAIN account => doc.phone \in MaybePhone /\ doc.email \in MaybeEmail
    BY DEF Patched, Or, Contacts
  <2> HIDE DEF doc
  <2>2. account' = [v \in DOMAIN account |-> IF v = u THEN doc ELSE account[v]]
    BY <1>2 DEF AccountInv
  <2>3. QED
    BY <2>1, <2>2 DEF Contacts
<1>3. QED
  BY <1>1, <1>2 DEF Update

\* What the steps of a checkout's capture do to its request.
LEMMA CaptureMoves ==
  ASSUME Captures, NEW c \in Customers, NEW r \in ReqType, req' = [req EXCEPT ![c] = r],
         r.pc \notin {"claimPhone", "patch"} => r.email \in MaybeEmail,
         r.pc # "patch" => r.phone \in MaybePhone
  PROVE  Captures'
BY DEF Captures

LEMMA FoundOK ==
  ASSUME Captures, Contacts, NEW c \in Customers, NEW u \in DOMAIN account, Found(c, u),
         req[c].pc \notin {"claimPhone", "patch"}
  PROVE  Captures'
<1> DEFINE r == [req[c] EXCEPT !.pc = "claims", !.user = u,
                               !.hadPhone = account[u].phone, !.hadEmail = account[u].email]
<1>1. req' = [req EXCEPT ![c] = r]
  BY DEF Found, Captures, ReqType
<1>2. /\ r \in ReqType /\ r.pc = "claims" /\ r.phone = req[c].phone /\ r.email = req[c].email
  BY DEF Captures, Contacts, ReqType
<1> HIDE DEF r
<1>3. QED
  BY <1>1, <1>2, CaptureMoves DEF Captures

LEMMA TakeOK ==
  ASSUME Captures, NEW c \in Customers, NEW pc, Take(c, pc),
         \/ pc = "idle"
         \/ /\ pc \in {"byPhone", "byEmail", "insert", "againByPhone", "againByEmail"}
            /\ req[c].pc \notin {"claimPhone", "patch"}
  PROVE  Captures'
<1>1. CASE pc = "idle"
  BY <1>1 DEF Captures, Take, ReqType, NoReq, MaybePhone, MaybeEmail
<1>2. CASE pc # "idle"
  BY <1>2 DEF Captures, Take, ReqType
<1>3. QED
  BY <1>1, <1>2

LEMMA LookupOK ==
  ASSUME Captures, Contacts, NEW c \in Customers, NEW found \in SUBSET DOMAIN account, NEW pc,
         Lookup(c, found, pc), req[c].pc \notin {"claimPhone", "patch"},
         pc \in {"idle", "byPhone", "byEmail", "insert", "againByPhone", "againByEmail"}
  PROVE  Captures'
BY FoundOK, TakeOK DEF Lookup

LEMMA CaptureOK ==
  ASSUME Captures, Contacts, AccountInv, NEW c \in Customers, CaptureStep(c)
  PROVE  Captures' /\ Contacts'
<1>1. PhoneOwner(c) \subseteq DOMAIN account /\ EmailOwner(c) \subseteq DOMAIN account
  BY DEF PhoneOwner, EmailOwner, ByPhone, ByEmail
<1>2. ASSUME account' = account PROVE Contacts'
  BY <1>2 DEF Contacts
<1>3. CASE StartCapture(c)
  <2>1. PICK phone \in MaybePhone, email \in MaybeEmail, u \in DOMAIN account \cup {Null} :
          req' = [req EXCEPT ![c] = [NoReq EXCEPT !.pc = "byId", !.phone = phone,
                                                  !.email = email, !.user = u]]
    BY <1>3 DEF StartCapture, MaybePhone, MaybeEmail
  <2>2. Captures'
    BY <2>1 DEF Captures, ReqType, NoReq, Contacts, MaybePhone, MaybeEmail
  <2>3. QED
    BY <1>2, <1>3, <2>2 DEF StartCapture
<1>4. CASE CaptureById(c)
  BY <1>2, <1>4, FoundOK, TakeOK DEF CaptureById
<1>5. CASE CaptureByPhone(c)
  BY <1>1, <1>2, <1>5, LookupOK DEF CaptureByPhone
<1>6. CASE CaptureByEmail(c)
  BY <1>1, <1>2, <1>6, LookupOK DEF CaptureByEmail
<1>7. CASE CaptureInsert(c)
  <2>1. PICK u \in Users \ DOMAIN account :
          \/ /\ Insert(u, req[c].phone, req[c].email)
             /\ req' = [req EXCEPT ![c].pc = "claims", ![c].user = u,
                         ![c].hadPhone = req[c].phone, ![c].hadEmail = req[c].email]
          \/ Take(c, "againByPhone") /\ UNCHANGED account
    BY <1>7 DEF CaptureInsert
  <2>2. req[c].pc = "insert" /\ req[c].phone \in MaybePhone /\ req[c].email \in MaybeEmail
    BY <1>7 DEF CaptureInsert, Captures
  <2>3. CASE Take(c, "againByPhone") /\ UNCHANGED account
    BY <1>2, <2>2, <2>3, TakeOK
  <2>4. CASE /\ Insert(u, req[c].phone, req[c].email)
             /\ req' = [req EXCEPT ![c].pc = "claims", ![c].user = u,
                         ![c].hadPhone = req[c].phone, ![c].hadEmail = req[c].email]
    <3>1. Contacts'
      BY <2>2, <2>4, InsertContacts
    <3>2. Captures'
      <4> DEFINE r == [req[c] EXCEPT !.pc = "claims", !.user = u,
                         !.hadPhone = req[c].phone, !.hadEmail = req[c].email]
      <4>1. req' = [req EXCEPT ![c] = r]
        BY <2>4 DEF Captures, ReqType
      <4>2. r \in ReqType /\ r.pc = "claims" /\ r.phone = req[c].phone /\ r.email = req[c].email
        BY <2>2 DEF Captures, ReqType
      <4> HIDE DEF r
      <4>3. QED
        BY <2>2, <4>1, <4>2, CaptureMoves
    <3>3. QED
      BY <3>1, <3>2
  <2>5. QED
    BY <2>1, <2>3, <2>4
<1>8. CASE CaptureAgain(c)
  BY <1>1, <1>2, <1>8, LookupOK DEF CaptureAgain
<1>9. CASE CaptureEmailClaim(c)
  <2>1. PICK f \in {req[c].email, Keep} :
          req' = [req EXCEPT ![c] = [req[c] EXCEPT !.pc = "claimPhone", !.email = f]]
    BY <1>9 DEF CaptureEmailClaim, Fill, Captures, ReqType
  <2> DEFINE r == [req[c] EXCEPT !.pc = "claimPhone", !.email = f]
  <2>4. /\ r \in ReqType /\ r.pc = "claimPhone"
        /\ r.phone = req[c].phone
    BY DEF Captures, ReqType
  <2>5. req[c].pc \notin {"patch", "claimPhone"}
    BY <1>9 DEF CaptureEmailClaim
  <2>6. req' = [req EXCEPT ![c] = r]
    BY <2>1
  <2> HIDE DEF r
  <2>2. Captures'
    BY <2>4, <2>5, <2>6, CaptureMoves DEF Captures
  <2>3. QED
    BY <1>2, <1>9, <2>2 DEF CaptureEmailClaim
<1>10. CASE CapturePhoneClaim(c)
  <2>1. PICK f \in {req[c].phone, Keep} :
          req' = [req EXCEPT ![c] = [req[c] EXCEPT !.pc = "patch", !.phone = f]]
    BY <1>10 DEF CapturePhoneClaim, Fill, Captures, ReqType
  <2> DEFINE r == [req[c] EXCEPT !.pc = "patch", !.phone = f]
  <2>4. /\ r \in ReqType /\ r.pc = "patch"
        /\ r.email = req[c].email
    BY DEF Captures, ReqType
  <2>5. req[c].pc \notin {"patch"}
    BY <1>10 DEF CapturePhoneClaim
  <2>6. req' = [req EXCEPT ![c] = r]
    BY <2>1
  <2> HIDE DEF r
  <2>2. Captures'
    BY <2>4, <2>5, <2>6, CaptureMoves DEF Captures
  <2>3. QED
    BY <1>2, <1>10, <2>2 DEF CapturePhoneClaim
<1>11. CASE CapturePatch(c)
  <2>1. req[c].phone \in MaybePhone \cup {Keep} /\ req[c].email \in MaybeEmail \cup {Keep}
    BY DEF Captures, ReqType
  <2>2. Contacts'
    BY <1>11, <2>1, UpdateContacts DEF CapturePatch
  <2>3. Captures'
    BY <1>11, TakeOK DEF CapturePatch
  <2>4. QED
    BY <2>2, <2>3
<1>12. QED
  BY <1>3, <1>4, <1>5, <1>6, <1>7, <1>8, <1>9, <1>10, <1>11 DEF CaptureStep

\* A step of the login of p: it goes to pc, from wherever it called.
Goes(p, pc) == Moves(p, pc) /\ (try'[p].pc # "idle" => try'[p].ip = try[p].ip)

LEMMA StepGoes ==
  ASSUME TryOK, NEW p \in Procs, NEW pc, Step(p, pc), try[p].pc # "idle"
  PROVE  Goes(p, pc)
<1>1. Moves(p, pc)
  BY StepMoves
<1>2. try'[p] = [try[p] EXCEPT !.pc = pc]
  BY DEF TryOK, Step
<1>3. try[p] = [pc |-> try[p].pc, ip |-> try[p].ip, name |-> try[p].name,
                code |-> try[p].code, user |-> try[p].user]
  BY DEF TryOK
<1>4. try'[p].ip = try[p].ip
  BY <1>2, <1>3
<1>5. QED
  BY <1>1, <1>4 DEF Goes

LEMMA OpenGoes ==
  ASSUME TryOK, NEW p \in Procs, NEW u, Open(p, u), try[p].pc # "idle"
  PROVE  Goes(p, "open")
<1>1. Moves(p, "open")
  BY OpenMoves
<1>2. try'[p] = At("open", try[p].ip, try[p].name, try[p].code, u)
  BY DEF TryOK, Open
<1>3. QED
  BY <1>1, <1>2 DEF Goes, At

LEMMA LeaveGoes ==
  ASSUME TryOK, NEW p \in Procs, Leave(p)
  PROVE  Goes(p, "idle")
BY LeaveMoves DEF Goes, Moves

LEMMA StartGoes ==
  ASSUME TryOK, NEW p \in Procs, StartLogin(p)
  PROVE  TryOK' /\ try'[p].pc = "nameLock" /\ \A q \in Procs \ {p} : try'[q] = try[q]
<1>1. PICK ip \in Ips, n \in Names : \E c \in Codes(n) :
        try' = [try EXCEPT ![p] = At("nameLock", ip, n, c, Null)]
  BY DEF StartLogin
<1>2. PICK c \in Codes(n) : try' = [try EXCEPT ![p] = At("nameLock", ip, n, c, Null)]
  BY <1>1
<1> DEFINE r == At("nameLock", ip, n, c, Null)
<1>3. try' = [q \in Procs |-> IF q = p THEN r ELSE try[q]]
  BY <1>2 DEF TryOK
<1>4. QED
  BY <1>3 DEF TryOK, At

LEMMA KeysAreKeys ==
  ASSUME TryOK, NEW p \in Procs, try[p].pc # "idle"
  PROVE  KeysOf(p) \subseteq Keys
<1>1. try[p].name \in Names /\ try[p].ip \in Ips
  BY DEF TryOK
<1>2. IpKey(p) \in IpKeys
  BY <1>1 DEF IpKey, IpKeys, Route
<1>3. QED
  BY <1>1, <1>2 DEF KeysOf, Keys

LEMMA LockingFinite ==
  ASSUME NEW k
  PROVE  IsFiniteSet(Locking(k)) /\ Cardinality(Locking(k)) \in Nat
<1>1. Locking(k) \in SUBSET Procs
  BY DEF Locking
<1>2. QED
  BY <1>1, ProcsAssumption, FS_Subset, FS_CardinalityType

\* Counters that stay or are cleared keep the bound, unless somebody who is to
\* clear one leaves without.
LEMMA CountersKept ==
  ASSUME Counters, fails' \in [Keys -> Nat], locked' \subseteq Keys,
         \A k \in Keys : \/ fails'[k] = 0
                         \/ fails'[k] = fails[k] /\ Locking(k) \subseteq Locking(k)'
                         \/ fails'[k] <= MaxAttempts
                         \/ /\ fails'[k] = fails[k] + 1
                            /\ \E p : p \notin Locking(k) /\ Locking(k)' = Locking(k) \cup {p}
  PROVE  Counters'
<1>1. ASSUME NEW k \in Keys
      PROVE  fails'[k] <= MaxAttempts + Cardinality(Locking(k)')
  <2>1. IsFiniteSet(Locking(k)) /\ Cardinality(Locking(k)) \in Nat
    BY LockingFinite
  <2>2. IsFiniteSet(Locking(k)') /\ Cardinality(Locking(k)') \in Nat
    <3>1. Locking(k)' \in SUBSET Procs
      BY DEF Locking
    <3>2. QED
      BY <3>1, ProcsAssumption, FS_Subset, FS_CardinalityType
  <2>3. MaxAttempts \in Nat /\ fails[k] \in Nat /\ fails'[k] \in Nat
        /\ fails[k] <= MaxAttempts + Cardinality(Locking(k))
    BY AttemptsAssumption DEF Counters
  <2>4. CASE fails'[k] <= MaxAttempts
    BY <2>2, <2>3, <2>4
  <2>5. CASE fails'[k] = 0
    BY <2>2, <2>3, <2>5
  <2>6. CASE fails'[k] = fails[k] /\ Locking(k) \subseteq Locking(k)'
    <3>1. Cardinality(Locking(k)) <= Cardinality(Locking(k)')
      BY <2>2, <2>6, FS_Subset
    <3>2. QED
      BY <2>1, <2>2, <2>3, <2>6, <3>1
  <2>7. ASSUME fails'[k] = fails[k] + 1,
               NEW p, p \notin Locking(k), Locking(k)' = Locking(k) \cup {p}
        PROVE  fails'[k] <= MaxAttempts + Cardinality(Locking(k)')
    <3>1. Cardinality(Locking(k) \cup {p}) = Cardinality(Locking(k)) + 1
      BY <2>1, <2>7, FS_AddElement
    <3>2. QED
      BY <2>1, <2>3, <2>7, <3>1
  <2>8. QED
    BY <2>4, <2>5, <2>6, <2>7
<1>2. QED
  BY <1>1 DEF Counters

\* A step that neither starts nor ends the locking of a key.
LEMMA LockingStays ==
  ASSUME TryOK, NEW p \in Procs, try[p].pc # "lock", \A q \in Procs \ {p} : try'[q] = try[q], NEW k
  PROVE  Locking(k) \subseteq Locking(k)'
BY DEF Locking, KeysOf, IpKey, Route

LEMMA Clearing ==
  ASSUME TryOK, Counters, NEW p \in Procs, try[p].pc # "idle", fails' = Cleared(p)
  PROVE  /\ fails' \in [Keys -> Nat]
         /\ \A k \in Keys : fails'[k] = IF k \in KeysOf(p) THEN 0 ELSE fails[k]
BY DEF Cleared, Counters

LEMMA CountFailureOK ==
  ASSUME TryOK, Counters, NEW p \in Procs, CountFailure(p)
  PROVE  Counters'
<1>1. try[p].pc = "fail" /\ fails' = Counted(p) /\ locked' = locked
  BY DEF CountFailure
<1>2. /\ fails' \in [Keys -> Nat]
      /\ \A k \in Keys : fails'[k] = IF k \in KeysOf(p) THEN fails[k] + 1 ELSE fails[k]
  BY <1>1 DEF Counted, Counters
<1>3. /\ \A q \in Procs \ {p} : try'[q] = try[q]
  BY <1>1, StepGoes, LeaveGoes DEF CountFailure, Goes, Moves
<1>4. \A k \in Keys : Locking(k) \subseteq Locking(k)'
  BY <1>1, <1>3, LockingStays
<1>5. CASE \E k \in KeysOf(p) : Counted(p)[k] >= MaxAttempts
  <2>1. Goes(p, "lock")
    BY <1>1, <1>5, StepGoes DEF CountFailure
  <2>2. try'[p].name = try[p].name /\ try'[p].ip = try[p].ip /\ try'[p].pc = "lock"
    BY <2>1 DEF Goes, Moves
  <2>3. KeysOf(p)' = KeysOf(p)
    BY <2>2 DEF KeysOf, IpKey
  <2>4. ASSUME NEW k \in KeysOf(p)
        PROVE  p \notin Locking(k) /\ Locking(k)' = Locking(k) \cup {p}
    <3>1. p \notin Locking(k)
      BY <1>1 DEF Locking
    <3>2. p \in Locking(k)'
      BY <2>2, <2>3, <2>4 DEF Locking
    <3>3. \A q \in Procs \ {p} : q \in Locking(k)' <=> q \in Locking(k)
      BY <1>3 DEF Locking, KeysOf, IpKey, Route
    <3>4. Locking(k) \subseteq Procs /\ Locking(k)' \subseteq Procs
      BY DEF Locking
    <3>5. QED
      BY <3>1, <3>2, <3>3, <3>4
  <2>5. QED
    BY <1>1, <1>2, <1>4, <2>4, CountersKept DEF Counters
<1>6. CASE ~\E k \in KeysOf(p) : Counted(p)[k] >= MaxAttempts
  <2>1. \A k \in Keys : k \in KeysOf(p) => fails'[k] <= MaxAttempts
    BY <1>1, <1>2, <1>6, AttemptsAssumption
  <2>2. QED
    BY <1>1, <1>2, <1>4, <2>1, CountersKept DEF Counters
<1>7. QED
  BY <1>5, <1>6

LEMMA CountersLock ==
  ASSUME TryOK, Counters, NEW p \in Procs, Lock(p)
  PROVE  Counters'
<1>1. try[p].pc = "lock" /\ fails' = Cleared(p) /\ locked' = locked \cup KeysOf(p)
  BY DEF Lock
<1>2. /\ fails' \in [Keys -> Nat]
      /\ \A k \in Keys : fails'[k] = IF k \in KeysOf(p) THEN 0 ELSE fails[k]
  BY <1>1, Clearing
<1>3. locked' \subseteq Keys
  BY <1>1, KeysAreKeys DEF Counters
<1>4. \A q \in Procs \ {p} : try'[q] = try[q]
  BY LeaveMoves DEF Lock, Moves
<1>5. \A k \in Keys : k \notin KeysOf(p) => Locking(k) \subseteq Locking(k)'
  BY <1>4 DEF Locking, KeysOf, IpKey, Route
<1>6. QED
  BY <1>2, <1>3, <1>5, CountersKept

LEMMA CountersQuiet ==
  ASSUME TryOK, Counters, NEW p \in Procs, try[p].pc # "lock",
         \A q \in Procs \ {p} : try'[q] = try[q],
         \/ fails' = fails /\ locked' = locked
         \/ try[p].pc # "idle" /\ fails' = Cleared(p) /\ locked' = locked \ KeysOf(p)
  PROVE  Counters'
<1>1. \A k \in Keys : Locking(k) \subseteq Locking(k)'
  BY LockingStays
<1>2. CASE fails' = fails /\ locked' = locked
  BY <1>1, <1>2, CountersKept DEF Counters
<1>3. CASE try[p].pc # "idle" /\ fails' = Cleared(p) /\ locked' = locked \ KeysOf(p)
  BY <1>1, <1>3, Clearing, CountersKept DEF Counters
<1>4. QED
  BY <1>2, <1>3

LEMMA CountersWorld ==
  ASSUME Counters, try' = try, LoginEnvironment \/ UNCHANGED <<fails, locked>>
  PROVE  Counters'
<1>1. \A k \in Keys : Locking(k)' = Locking(k)
  BY DEF Locking, KeysOf, IpKey, Route
<1>2. CASE UNCHANGED <<fails, locked>>
  BY <1>1, <1>2, CountersKept DEF Counters
<1>3. CASE FailuresExpire
  BY <1>1, <1>3, CountersKept DEF FailuresExpire, Counters
<1>4. CASE LockExpires
  BY <1>1, <1>4, CountersKept DEF LockExpires, Counters
<1>5. QED
  BY <1>2, <1>3, <1>4 DEF LoginEnvironment, SendCode, ExpireCode

LEMMA SessionStepMoves ==
  ASSUME SessionInv, NEW p \in Procs, SessionStep(p)
  PROVE  \A q \in Procs \ {p} : op'[q] = op[q]
<1>1. op \in [Procs -> OpType]
  BY DEF SessionInv, SessionTypes
<1>2. CASE Refresh(p) \/ Logout(p) \/ LogoutByRefreshToken(p) \/ RevokeJti(p)
  BY <1>1, <1>2 DEF Refresh, Logout, LogoutByRefreshToken, RevokeJti
<1>3. CASE RefreshLoad(p)
  BY <1>1, <1>3 DEF RefreshLoad, Goto, AfterLoad
<1>4. CASE DropOrphan(p) \/ Rotate(p) \/ VerifySession(p)
  BY <1>1, <1>4 DEF DropOrphan, Rotate, VerifySession, Done
<1>5. CASE RevokeLoad(p) \/ RevokeErase(p)
  BY <1>1, <1>5 DEF RevokeLoad, RevokeErase, Done
<1>6. QED
  BY <1>2, <1>3, <1>4, <1>5 DEF SessionStep

LEMMA IndexStep ==
  ASSUME IndexOK, [Next]_vars
  PROVE  IndexOK'
<1>1. ASSUME NEW k \in Tokens, NEW u, Create(u, k) PROVE IndexOK'
  BY <1>1 DEF IndexOK, Create, CreateSession
<1>2. ASSUME NEW p \in Procs, SessionStep(p) PROVE IndexOK'
  <2>1. CASE RevokeErase(p)
    BY <2>1 DEF RevokeErase, IndexOK
  <2>2. CASE UNCHANGED userSessions
    BY <2>2 DEF IndexOK
  <2>3. QED
    BY <1>2, <2>1, <2>2 DEF SessionStep, Refresh, RefreshLoad, DropOrphan, Rotate, Logout,
       VerifySession, RevokeJti, LogoutByRefreshToken, RevokeLoad
<1>3. CASE SessionEnvironment \/ UNCHANGED sessionVars
  BY <1>3 DEF SessionEnvironment, ExpireSession, ExpireRefreshKey, sessionVars, IndexOK
<1>4. QED
  BY <1>1, <1>2, <1>3, SessionCases

\* Where a step of the lockout takes the login of p.
LEMMA LockoutGoes ==
  ASSUME TryOK, Counters, LoginsByEmail, NEW p \in Procs, LockoutStep(p)
  PROVE  /\ \A q \in Procs \ {p} : try'[q] = try[q]
         /\ try'[p].pc \in {"find", "create", "findAgain"} => try'[p].name \in Emails
         /\ Counters'
<1>1. CASE StartLogin(p)
  <2>1. try'[p].pc = "nameLock" /\ \A q \in Procs \ {p} : try'[q] = try[q]
    BY <1>1, StartGoes
  <2>2. Counters'
    BY <1>1, <2>1, CountersQuiet DEF StartLogin
  <2>3. QED
    BY <2>1, <2>2
<1>2. CASE CheckNameLock(p) \/ VerifyCode(p) \/ DropCode(p) \/ VerifyPassword(p)
  <2>1. PICK pc \in {"idle", "verify", "password", "fail", "dropCode", "success"} : Goes(p, pc)
    BY <1>2, StepGoes, LeaveGoes DEF CheckNameLock, VerifyCode, DropCode, VerifyPassword
  <2>2. try[p].pc # "lock" /\ fails' = fails /\ locked' = locked
    BY <1>2 DEF CheckNameLock, VerifyCode, DropCode, VerifyPassword
  <2>3. QED
    BY <2>1, <2>2, CountersQuiet DEF Goes, Moves
<1>3. CASE CountFailure(p)
  <2>1. Goes(p, "lock") \/ Goes(p, "idle")
    BY <1>3, StepGoes, LeaveGoes DEF CountFailure
  <2>2. QED
    BY <1>3, <2>1, CountFailureOK DEF Goes, Moves
<1>4. CASE Lock(p)
  <2>1. Goes(p, "idle")
    BY <1>4, LeaveGoes DEF Lock
  <2>2. QED
    BY <1>4, <2>1, CountersLock DEF Goes, Moves
<1>5. CASE Succeed(p)
  <2>1. /\ try[p].pc = "success" /\ fails' = Cleared(p) /\ locked' = locked \ KeysOf(p)
        /\ \/ try[p].name \in Emails /\ Goes(p, "find")
           \/ Goes(p, "open")
    BY <1>5, StepGoes, OpenGoes DEF Succeed
  <2>2. /\ \A q \in Procs \ {p} : try'[q] = try[q]
        /\ try'[p].pc \in {"find", "create", "findAgain"} => try'[p].name \in Emails
    BY <2>1 DEF Goes, Moves
  <2>3. QED
    BY <2>1, <2>2, CountersQuiet
<1>6. QED
  BY <1>1, <1>2, <1>3, <1>4, <1>5 DEF LockoutStep

\* The steps of a login past the lockout.
LEMMA LoginGoes ==
  ASSUME TryOK, Counters, LoginsByEmail, NEW p \in Procs,
         FindUser(p) \/ CreateUser(p) \/ OpenSession(p)
  PROVE  /\ try[p].pc # "idle" /\ \A q \in Procs \ {p} : try'[q] = try[q]
         /\ try'[p].pc \in {"find", "create", "findAgain"} => try'[p].name \in Emails
         /\ Counters'
<1>1. /\ try[p].pc \in {"find", "findAgain", "create", "open"} /\ fails' = fails /\ locked' = locked
      /\ try[p].pc # "open" => try[p].name \in Emails
  BY DEF FindUser, CreateUser, OpenSession, LoginsByEmail
<1>2. \/ try[p].pc # "open" /\ \E pc \in {"idle", "open", "create", "findAgain"} : Goes(p, pc)
      \/ Goes(p, "idle")
  BY <1>1, StepGoes, OpenGoes, LeaveGoes DEF FindUser, CreateUser, OpenSession
<1>3. /\ \A q \in Procs \ {p} : try'[q] = try[q]
      /\ try'[p].pc \in {"find", "create", "findAgain"} => try'[p].name \in Emails
  BY <1>1, <1>2 DEF Goes, Moves
<1>4. QED
  BY <1>1, <1>3, CountersQuiet

LEMMA FrontInvInit ==
  ASSUME Init
  PROVE  FrontInv
<1>1. SessionInv /\ LockInv /\ AccountInv
  BY SessionInvInit, LockInvInit DEF Init, AccountInit, AccountInv
<1>2. Captures /\ Contacts
  BY DEF Init, AccountInit, NoReq, Captures, ReqType, Contacts, MaybePhone, MaybeEmail
<1>3. LoginsByEmail /\ OneRequest /\ IndexOK
  BY DEF Init, LoginInit, SessionInit, NoTry, At, LoginsByEmail, OneRequest, IndexOK
<1>4. Counters
  <2>1. fails = [k \in Keys |-> 0] /\ locked = {}
    BY DEF Init, LoginInit
  <2>2. QED
    BY <2>1, LockingFinite, AttemptsAssumption DEF Counters
<1>5. QED
  BY <1>1, <1>2, <1>3, <1>4 DEF FrontInv

LEMMA FrontInvStep ==
  ASSUME FrontInv, [Next]_vars
  PROVE  FrontInv'
<1>1. /\ SessionInv /\ LockInv /\ AccountInv /\ Captures /\ Contacts /\ LoginsByEmail
      /\ OneRequest /\ IndexOK /\ Counters /\ TryOK
  BY DEF FrontInv, LockInv
<1>2. SessionInv' /\ LockInv' /\ AccountInv' /\ IndexOK'
  BY <1>1, SessionInvStep, LockInvStep, AccountInvStep, IndexStep
<1>3. ASSUME UNCHANGED <<account, req>> PROVE Captures' /\ Contacts'
  BY <1>1, <1>3 DEF Captures, Contacts
<1>4. ASSUME UNCHANGED try PROVE LoginsByEmail'
  BY <1>1, <1>4 DEF LoginsByEmail
<1>5. ASSUME UNCHANGED <<try, op>> PROVE OneRequest'
  BY <1>1, <1>5 DEF OneRequest
<1>6. ASSUME NEW p \in Procs, try[p].pc = "idle", SessionStep(p), UNCHANGED <<accountVars, loginVars>>
      PROVE  FrontInv'
  <2>1. UNCHANGED <<account, req, try, fails, locked>>
    BY <1>6 DEF accountVars, loginVars
  <2>2. OneRequest'
    BY <1>1, <1>6, <2>1, SessionStepMoves DEF OneRequest
  <2>3. QED
    BY <1>1, <1>2, <1>3, <1>4, <2>1, <2>2, CountersWorld DEF FrontInv
<1>7. ASSUME NEW p \in Procs, op[p].pc = "idle", LockoutStep(p), UNCHANGED <<sessionVars, accountVars>>
      PROVE  FrontInv'
  <2>1. UNCHANGED <<account, req, op>>
    BY <1>7 DEF accountVars, sessionVars
  <2>2. /\ \A q \in Procs \ {p} : try'[q] = try[q]
        /\ try'[p].pc \in {"find", "create", "findAgain"} => try'[p].name \in Emails
        /\ Counters'
    BY <1>1, <1>7, LockoutGoes
  <2>3. LoginsByEmail' /\ OneRequest'
    BY <1>1, <1>7, <2>1, <2>2 DEF LoginsByEmail, OneRequest
  <2>4. QED
    BY <1>2, <1>3, <2>1, <2>2, <2>3 DEF FrontInv
<1>8. ASSUME NEW p \in Procs,
             \/ (FindUser(p) \/ CreateUser(p)) /\ UNCHANGED <<sessionVars, req>>
             \/ OpenSession(p) /\ UNCHANGED <<accountVars, revoked, op, loggedOut, ended>>
      PROVE  FrontInv'
  <2>1. op' = op /\ req' = req
    BY <1>8 DEF accountVars, sessionVars
  <2>2. /\ try[p].pc # "idle" /\ \A q \in Procs \ {p} : try'[q] = try[q]
        /\ try'[p].pc \in {"find", "create", "findAgain"} => try'[p].name \in Emails
        /\ Counters'
    BY <1>1, <1>8, LoginGoes
  <2>3. LoginsByEmail' /\ OneRequest'
    BY <1>1, <2>1, <2>2 DEF LoginsByEmail, OneRequest
  <2>4. Contacts'
    <3>1. CASE account' = account
      BY <1>1, <3>1 DEF Contacts
    <3>2. CASE CreateUser(p) /\ account' # account
      <4>1. PICK u \in Users \ DOMAIN account : Insert(u, Null, try[p].name)
        BY <3>2 DEF CreateUser
      <4>2. Null \in MaybePhone /\ try[p].name \in MaybeEmail
        BY <1>1, <3>2 DEF CreateUser, LoginsByEmail, MaybePhone, MaybeEmail
      <4>3. QED
        BY <1>1, <4>1, <4>2, InsertContacts
    <3>3. QED
      BY <1>8, <3>1, <3>2 DEF FindUser, accountVars
  <2>5. Captures'
    BY <1>1, <2>1 DEF Captures
  <2>6. QED
    BY <1>2, <2>2, <2>3, <2>4, <2>5 DEF FrontInv
<1>9. ASSUME UNCHANGED <<try, op, account, req>>, LoginEnvironment \/ UNCHANGED <<fails, locked>>
      PROVE  FrontInv'
  BY <1>1, <1>2, <1>3, <1>4, <1>5, <1>9, CountersWorld DEF FrontInv
<1>10. ASSUME UNCHANGED <<sessionVars, loginVars>>, Captures', Contacts' PROVE FrontInv'
  <2>1. UNCHANGED <<try, op, fails, locked>>
    BY <1>10 DEF sessionVars, loginVars
  <2>2. QED
    BY <1>1, <1>2, <1>4, <1>5, <1>10, <2>1, CountersWorld DEF FrontInv
<1>11. CASE EditProfile /\ UNCHANGED <<sessionVars, loginVars>>
  <2>1. PICK u \in DOMAIN account, phone \in Phones \cup {Null, Keep}, email \in Emails \cup {Null, Keep} :
          Update(u, phone, email)
    BY <1>11 DEF EditProfile
  <2>2. phone \in MaybePhone \cup {Keep} /\ email \in MaybeEmail \cup {Keep}
    BY DEF MaybePhone, MaybeEmail
  <2>3. Contacts'
    BY <1>1, <2>1, <2>2, UpdateContacts
  <2>4. Captures'
    BY <1>1, <1>11 DEF EditProfile, Captures
  <2>5. QED
    BY <1>10, <1>11, <2>3, <2>4
<1>12. ASSUME NEW c \in Customers, CaptureStep(c), UNCHANGED <<sessionVars, loginVars>>
       PROVE  FrontInv'
  BY <1>1, <1>10, <1>12, CaptureOK
<1>13. CASE SessionEnvironment /\ UNCHANGED <<accountVars, loginVars>>
  BY <1>9, <1>13 DEF SessionEnvironment, ExpireSession, ExpireRefreshKey, accountVars, loginVars
<1>14. CASE LoginEnvironment /\ UNCHANGED <<sessionVars, accountVars>>
  <2>1. try' = try
    BY <1>14 DEF LoginEnvironment, SendCode, ExpireCode, FailuresExpire, LockExpires
  <2>2. QED
    BY <1>9, <1>14, <2>1 DEF sessionVars, accountVars
<1>15. CASE UNCHANGED vars
  BY <1>9, <1>15 DEF vars, sessionVars, accountVars, loginVars
<1>16. QED
  BY <1>6, <1>7, <1>8, <1>11, <1>12, <1>13, <1>14, <1>15 DEF Next

\* Every variable of the front door has its type for any accounts, addresses,
\* processes and thresholds; two accounts never share an e-mail address
\* (get_or_create_by_email beside capture_from_checkout); a process never serves
\* a login and a session together; and a failure counter (record_failure) goes
\* past its threshold by at most one for each process about to lock and clear it.
THEOREM AccessTypeOKHolds == Spec => []AccessTypeOK
<1>1. FrontInv => AccessTypeOK
  <2> SUFFICES ASSUME FrontInv PROVE AccessTypeOK
    OBVIOUS
  <2>1. /\ SessionTypes /\ AccountInv /\ Contacts /\ OneRequest /\ IndexOK /\ Counters
    BY DEF FrontInv, SessionInv
  <2>2. fails \in [Keys -> 0 .. MaxAttempts + Cardinality(Procs)]
    <3>1. ASSUME NEW k \in Keys PROVE fails[k] \in 0 .. MaxAttempts + Cardinality(Procs)
      <4>1. Locking(k) \in SUBSET Procs
        BY DEF Locking
      <4>2. Cardinality(Locking(k)) <= Cardinality(Procs) /\ Cardinality(Procs) \in Nat
            /\ Cardinality(Locking(k)) \in Nat
        BY <4>1, LockingFinite, ProcsAssumption, FS_Subset, FS_CardinalityType
      <4>3. QED
        BY <2>1, <4>2, AttemptsAssumption DEF Counters
    <3>2. QED
      BY <2>1, <3>1 DEF Counters
  <2>3. \A p \in Procs : op[p].pc \in SessionSteps
    BY <2>1 DEF SessionTypes, OpType
  <2>4. QED
    BY <2>1, <2>2, <2>3 DEF AccessTypeOK, SessionTypes, MaybeToken, AccountInv, Contacts,
       MaybePhone, MaybeEmail, OneRequest, IndexOK, Counters
<1>2. Init => FrontInv
  BY FrontInvInit
<1>3. FrontInv /\ [Next]_vars => FrontInv'
  BY FrontInvStep
<1>4. QED
  BY <1>1, <1>2, <1>3, PTL DEF Spec
=============================================================================
