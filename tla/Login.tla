------------------------------- MODULE Login --------------------------------
(* Logins behind the lockout: customers with a code sent by e-mail, the     *)
(* administrator with a password and a second factor.  Both count failures  *)
(* under the caller's IP and under the e-mail address, lock both keys when  *)
(* either count reaches the threshold, and open a session on success.       *)
EXTENDS Sessions, Accounts, Naturals

CONSTANTS Ips, Admins,      \* Admins: addresses tried on the admin route
          MaxAttempts,      \* login_max_failed_attempts
          MaxCodes          \* bound: codes sent per address

VARIABLES code,     \* code[e]: number of the code stored for e, 0 for none
          sent,     \* codes sent to e so far
          fails,    \* failure counters, by key
          locked,   \* lockout keys that exist
          try,      \* the login each process serves
          late      \* history: guesses verified for e while e was locked

loginVars == <<code, sent, fails, locked, try, late>>

Names == Emails \cup Admins
Route(n) == IF n \in Emails THEN "otp" ELSE "auth"
IpKeys == {"otp", "auth"} \X Ips
Keys == IpKeys \cup Names
ASSUME KeysAssumption == IpKeys \cap Names = {}
ASSUME AttemptsAssumption == MaxAttempts \in Nat
(* A login at step pc.                                                      *)
At(pc, ip, n, c, u) == [pc |-> pc, ip |-> ip, name |-> n, code |-> c, user |-> u]
NoTry == At("idle", Null, Null, 0, Null)
IpKey(p) == <<Route(try[p].name), try[p].ip>>
KeysOf(p) == {IpKey(p), try[p].name}

LoginInit ==
  /\ code = [e \in Emails |-> 0]
  /\ sent = [e \in Emails |-> 0]
  /\ fails = [k \in Keys |-> 0]
  /\ locked = {}
  /\ try = [p \in Procs |-> NoTry]
  /\ late = [n \in Names |-> 0]

Cleared(p) == [k \in Keys |-> IF k \in KeysOf(p) THEN 0 ELSE fails[k]]

Step(p, pc) == try' = [try EXCEPT ![p].pc = pc]
Leave(p) == try' = [try EXCEPT ![p] = NoTry]
Open(p, u) == try' = [try EXCEPT ![p] = At("open", @.ip, @.name, @.code, u)]

-----------------------------------------------------------------------------
(* send_otp: a new code replaces the one before.                            *)
SendCode ==
  /\ \E e \in Emails :
       /\ sent[e] < MaxCodes
       /\ sent' = [sent EXCEPT ![e] = @ + 1]
       /\ code' = [code EXCEPT ![e] = sent[e] + 1]
  /\ UNCHANGED <<fails, locked, try, late>>

ExpireCode ==
  /\ \E e \in Emails : code' = [code EXCEPT ![e] = 0]
  /\ UNCHANGED <<sent, fails, locked, try, late>>

SeesIpLockOnly(key) == key \in locked \ Names
SeesLock(key) == key \in locked

(* A login presents a code that was sent, or a wrong one (0).               *)
Codes(n) == IF n \in Emails THEN 0 .. sent[n] ELSE {0}

(* assert_not_locked: the TTL of the IP's key, then that of the e-mail's.   *)
StartLogin(p) ==
  /\ try[p].pc = "idle"
  /\ \E ip \in Ips, n \in Names : \E c \in Codes(n) :
       /\ ~SeesLock(<<Route(n), ip>>)
       /\ try' = [try EXCEPT ![p] = At("nameLock", ip, n, c, Null)]
  /\ UNCHANGED <<code, sent, fails, locked, late>>

CheckNameLock(p) ==
  /\ try[p].pc = "nameLock"
  /\ IF SeesLock(try[p].name) THEN Leave(p)
     ELSE Step(p, IF try[p].name \in Emails THEN "verify" ELSE "password")
  /\ UNCHANGED <<code, sent, fails, locked, late>>

Guess(p) ==
  late' = [late EXCEPT ![try[p].name] = IF try[p].name \in locked THEN @ + 1 ELSE 0]

(* verify_otp: the stored code is read and compared, then deleted.          *)
VerifyCode(p) ==
  /\ try[p].pc = "verify"
  /\ LET stored == code[try[p].name]
     IN IF stored = 0 \/ stored # try[p].code
        THEN Step(p, "fail") /\ Guess(p)
        ELSE Step(p, "dropCode") /\ UNCHANGED late
  /\ UNCHANGED <<code, sent, fails, locked>>

DropCode(p) ==
  /\ try[p].pc = "dropCode"
  /\ code' = [code EXCEPT ![try[p].name] = 0]
  /\ Step(p, "success")
  /\ UNCHANGED <<sent, fails, locked, late>>

(* authenticate: a wrong password or second factor counts, a missing second *)
(* factor asks for it and does not.                                         *)
VerifyPassword(p) ==
  /\ try[p].pc = "password"
  /\ \/ Step(p, "fail") /\ Guess(p)
     \/ Leave(p) /\ UNCHANGED late
     \/ Step(p, "success") /\ UNCHANGED late
  /\ UNCHANGED <<code, sent, fails, locked>>

-----------------------------------------------------------------------------
(* record_failure: both counters in one pipeline, then, at the threshold,   *)
(* both locks in another.                                                   *)
Counted(p) == [k \in Keys |-> IF k \in KeysOf(p) THEN fails[k] + 1 ELSE fails[k]]

CountFailure(p) ==
  /\ try[p].pc = "fail"
  /\ fails' = Counted(p)
  /\ IF \E k \in KeysOf(p) : Counted(p)[k] >= MaxAttempts THEN Step(p, "lock") ELSE Leave(p)
  /\ UNCHANGED <<code, sent, locked, late>>

Lock(p) ==
  /\ try[p].pc = "lock"
  /\ locked' = locked \cup KeysOf(p)
  /\ fails' = Cleared(p)
  /\ Leave(p)
  /\ UNCHANGED <<code, sent, late>>

(* record_success removes the counters and the locks of the pair.           *)
Succeed(p) ==
  /\ try[p].pc = "success"
  /\ fails' = Cleared(p)
  /\ locked' = locked \ KeysOf(p)
  /\ late' = [late EXCEPT ![try[p].name] = 0]
  /\ IF try[p].name \in Emails THEN Step(p, "find")
     ELSE Open(p, try[p].name)
  /\ UNCHANGED <<code, sent>>

FailuresExpire ==
  /\ \E k \in Keys : fails' = [fails EXCEPT ![k] = 0]
  /\ UNCHANGED <<code, sent, locked, try, late>>

LockExpires ==
  /\ \E k \in locked :
       /\ locked' = locked \ {k}
       /\ late' = [n \in Names |-> IF n = k THEN 0 ELSE late[n]]
  /\ UNCHANGED <<code, sent, fails, try>>

-----------------------------------------------------------------------------
(* get_or_create_by_email, with the fallback for a concurrent first login.  *)
FindUser(p) ==
  /\ try[p].pc \in {"find", "findAgain"}
  /\ \/ \E u \in ByEmail(try[p].name) :
          /\ Open(p, u)
          /\ UNCHANGED rejected
     \/ /\ ByEmail(try[p].name) = {}
        /\ IF try[p].pc = "find"
           THEN Step(p, "create") /\ UNCHANGED rejected
           ELSE Leave(p) /\ rejected' = rejected \cup {try[p].name}
  /\ UNCHANGED <<account, code, sent, fails, locked, late>>

CreateUser(p) ==
  /\ try[p].pc = "create"
  /\ \E u \in Users \ DOMAIN account :
       IF Accepts(u, Null, try[p].name)
       THEN /\ Insert(u, Null, try[p].name)
            /\ Open(p, u)
       ELSE Step(p, "findAgain") /\ UNCHANGED account
  /\ UNCHANGED <<rejected, code, sent, fails, locked, late>>

OpenSession(p) ==
  /\ try[p].pc = "open"
  /\ \E k \in Tokens : CreateSession(try[p].user, k)
  /\ Leave(p)
  /\ UNCHANGED <<code, sent, fails, locked, late>>

LockoutStep(p) ==
  \/ StartLogin(p) \/ CheckNameLock(p) \/ VerifyCode(p) \/ DropCode(p)
  \/ VerifyPassword(p) \/ CountFailure(p) \/ Lock(p) \/ Succeed(p)

LoginEnvironment == SendCode \/ ExpireCode \/ FailuresExpire \/ LockExpires
=============================================================================
