------------------------------ MODULE MCAccess ------------------------------
(* Access with its concerns looked at in turn: the lockouts of the two      *)
(* routes, the sessions and the accounts keep disjoint keys, so a run of    *)
(* one of them is a run of the whole in which the others rest.  A verified  *)
(* login stands at the start of the last two.                               *)
EXTENDS Access, TLC

CONSTANT Foci
VARIABLE focus

AccessSymmetry == Permutations(Tokens) \cup Permutations(Procs)

OtherNames == Names \ {CHOOSE e \in Emails : TRUE}
Resting == [p \in Procs |-> NoTry]

Verified == IF Cardinality(Emails) = 1
            THEN {[Resting EXCEPT ![p].pc = "find", ![p].name = e] : p \in Procs, e \in Emails}
            ELSE [Procs -> {[NoTry EXCEPT !.pc = "find", !.name = e] : e \in Emails}]

MCInit ==
  /\ focus \in Foci
  /\ SessionInit /\ AccountInit
  /\ code = [e \in Emails |-> 0] /\ sent = code
  /\ fails = [k \in Keys |-> 0] /\ locked = {} /\ late = [n \in Names |-> 0]
  /\ \/ focus \in {"otp", "auth"} /\ try = Resting
     \/ focus = "sessions" /\ \E p \in Procs :
                            try = [Resting EXCEPT ![p].pc = "open", ![p].user = CHOOSE u \in Users : TRUE]
     \/ focus = "accounts" /\ try \in Verified

MCNext ==
  /\ Next
  /\ focus' = focus
  /\ focus \notin {"otp", "auth"} => UNCHANGED <<code, sent, fails, locked, late>>
  /\ focus = "otp" => \A p \in Procs : try'[p].name \notin OtherNames
  /\ focus = "auth" => UNCHANGED sent /\ \A p \in Procs : try'[p].name \notin Emails
  /\ focus = "sessions" => UNCHANGED account /\ Cardinality(revoked') <= 1
  /\ focus # "sessions" => UNCHANGED op /\ (issued' = issued => UNCHANGED <<session, refresh>>)
  /\ focus = "accounts" => UNCHANGED session
  /\ focus \in {"otp", "auth"} => Cardinality({k \in Tokens : issued'[k] # NoToken}) <= 1
  /\ focus # "accounts" => UNCHANGED req /\ (DOMAIN account' = DOMAIN account => UNCHANGED account)

MCSpec == MCInit /\ [][MCNext]_<<vars, focus>>
=============================================================================
