------------------------------- MODULE Guarded -------------------------------
(* call_guarded around a dependency such as Razorpay: a bulkhead in each    *)
(* operating-system process, then the circuit breaker the processes share   *)
(* in Redis, then the retries, each with its own timeout.                   *)
EXTENDS Integers, Sequences, FiniteSets

CONSTANTS Callers,
          Home,        \* Home[c]: the process c runs in
          Limit,       \* callers a bulkhead lets in at one time
          Threshold,   \* failures that open the breaker
          Retries,
          MaxDeaths    \* bound: processes that die

ASSUME GuardAssumption ==
  /\ IsFiniteSet(Callers)
  /\ Limit \in Nat /\ Threshold \in Nat \ {0} /\ Retries \in Nat /\ MaxDeaths \in Nat

Processes == {Home[c] : c \in Callers}

VARIABLES call,      \* the call of each caller
          open,      \* breaker:<name>:open
          failures,  \* breaker:<name>:failures
          window,    \* whether that counter has a TTL
          notice,    \* breaker:<name>:pending_reset_notice
          late,      \* history: attempts made since the breaker opened
          deaths

guardVars == <<call, open, failures, window, notice, late, deaths>>

NoCall == [pc |-> "idle", gate |-> 0, inside |-> FALSE, tries |-> 0, count |-> 0]

GuardInit ==
  /\ call = [c \in Callers |-> NoCall]
  /\ open = FALSE /\ failures = 0 /\ window = FALSE /\ notice = FALSE
  /\ late = 0 /\ deaths = 0

(* A call passes these in order; it leaves the bulkhead when it returns.    *)
BreakerFirst == <<"breaker", "bulkhead">>
Gates == <<"bulkhead", "breaker">>

AtGate(c, gate) == call[c].pc = "gate" /\ Gates[call[c].gate] = gate
Passed(c) ==
  IF call[c].gate = Len(Gates) THEN [call[c] EXCEPT !.pc = "attempt"]
  ELSE [call[c] EXCEPT !.gate = @ + 1]
Step(c, pc) == call' = [call EXCEPT ![c].pc = pc]
ReturnFrom(c) == call' = [call EXCEPT ![c] = NoCall]

Request(c) ==
  /\ call[c].pc = "idle"
  /\ call' = [call EXCEPT ![c] = [NoCall EXCEPT !.pc = "gate", !.gate = 1]]
  /\ UNCHANGED <<open, failures, window, notice, late, deaths>>

EnterBulkhead(c) ==
  /\ AtGate(c, "bulkhead")
  /\ Cardinality({d \in Callers : Home[d] = Home[c] /\ call[d].inside}) < Limit
  /\ call' = [call EXCEPT ![c] = [Passed(c) EXCEPT !.inside = TRUE]]
  /\ UNCHANGED <<open, failures, window, notice, late, deaths>>

(* An open breaker: CircuitBreakerOpenError, without a network call.        *)
AskBreaker(c) ==
  /\ AtGate(c, "breaker")
  /\ IF open THEN ReturnFrom(c) ELSE call' = [call EXCEPT ![c] = Passed(c)]
  /\ UNCHANGED <<open, failures, window, notice, late, deaths>>

(* One attempt, which ends by itself or at its timeout; a failure is tried  *)
(* again after a pause, unless it was the last or cannot be retried.        *)
Attempt(c) ==
  /\ call[c].pc = "attempt"
  /\ \/ Step(c, "succeeded")
     \/ Step(c, "failed")
     \/ call[c].tries < Retries /\ call' = [call EXCEPT ![c].tries = @ + 1]
  /\ late' = IF open THEN late + 1 ELSE late
  /\ UNCHANGED <<open, failures, window, notice, deaths>>

-----------------------------------------------------------------------------
(* _record_failure, command by command.                                     *)
CountFailure(c) ==
  LET count == failures + 1
  IN /\ call[c].pc = "failed"
     /\ failures' = count
     /\ IF count = 1 THEN call' = [call EXCEPT ![c].pc = "expire", ![c].count = count]
        ELSE IF count >= Threshold THEN Step(c, "trip")
        ELSE ReturnFrom(c)
     /\ UNCHANGED <<open, window, notice, late, deaths>>

StartWindow(c) ==
  /\ call[c].pc = "expire"
  /\ window' = (failures > 0)
  /\ IF call[c].count >= Threshold THEN Step(c, "trip") ELSE ReturnFrom(c)
  /\ UNCHANGED <<open, failures, notice, late, deaths>>

Trip(c) ==
  /\ call[c].pc = "trip"
  /\ open' = TRUE
  /\ IF open THEN Step(c, "clear") /\ UNCHANGED late
     ELSE Step(c, "clearAndNote") /\ late' = 0
  /\ UNCHANGED <<failures, window, notice, deaths>>

ForgetFailures == failures' = 0 /\ window' = FALSE

ClearFailures(c) ==
  /\ call[c].pc \in {"clear", "clearAndNote"}
  /\ ForgetFailures
  /\ IF call[c].pc = "clear" THEN ReturnFrom(c) ELSE Step(c, "note")
  /\ UNCHANGED <<open, notice, late, deaths>>

SetNotice(c) ==
  /\ call[c].pc = "note"
  /\ notice' = TRUE
  /\ ReturnFrom(c)
  /\ UNCHANGED <<open, failures, window, late, deaths>>

(* _record_success: the breaker itself is left to expire.                   *)
Succeed(c) ==
  /\ call[c].pc = "succeeded"
  /\ ForgetFailures
  /\ Step(c, "reset")
  /\ UNCHANGED <<open, notice, late, deaths>>

TakeNotice(c) ==
  /\ call[c].pc = "reset"
  /\ notice' = FALSE
  /\ ReturnFrom(c)
  /\ UNCHANGED <<open, failures, window, late, deaths>>

-----------------------------------------------------------------------------
CooldownEnds ==
  /\ open /\ open' = FALSE
  /\ UNCHANGED <<call, failures, window, notice, late, deaths>>

WindowEnds ==
  /\ window /\ ForgetFailures
  /\ UNCHANGED <<call, open, notice, late, deaths>>

(* The notice outlives the cooldown by 120 s.                               *)
NoticeExpires ==
  /\ notice /\ ~open /\ notice' = FALSE
  /\ UNCHANGED <<call, open, failures, window, late, deaths>>

Die(p) ==
  /\ deaths < MaxDeaths
  /\ \E c \in Callers : Home[c] = p /\ call[c] # NoCall
  /\ call' = [c \in Callers |-> IF Home[c] = p THEN NoCall ELSE call[c]]
  /\ deaths' = deaths + 1
  /\ UNCHANGED <<open, failures, window, notice, late>>

GuardNext ==
  \/ \E c \in Callers :
       \/ Request(c) \/ EnterBulkhead(c) \/ AskBreaker(c) \/ Attempt(c)
       \/ CountFailure(c) \/ StartWindow(c) \/ Trip(c) \/ ClearFailures(c)
       \/ SetNotice(c) \/ Succeed(c) \/ TakeNotice(c)
  \/ \E p \in Processes : Die(p)
  \/ CooldownEnds \/ WindowEnds \/ NoticeExpires

GuardSpec == GuardInit /\ [][GuardNext]_guardVars

-----------------------------------------------------------------------------
(* A bulkhead is never over its limit.                                      *)
GuardTypeOK ==
  /\ failures \in Nat /\ window \in BOOLEAN /\ (window => failures > 0)
  /\ open \in BOOLEAN /\ notice \in BOOLEAN
  /\ \A p \in Processes :
       Cardinality({c \in Callers : Home[c] = p /\ call[c].inside}) <= Limit

(* Once the breaker opened, the dependency only hears the calls that were   *)
(* let in before, and each of them only to the end of its retries: the call *)
(* that opened it is over.  This needs the bulkhead outside the breaker;    *)
(* callers queue before they ask it.  And as long as no process dies, the   *)
(* failures that were counted are forgotten after the window.               *)
OpenBreakerShields ==
  /\ open => late <= (Cardinality(Processes) * Limit - 1) * (Retries + 1)
  /\ deaths = 0 /\ failures > 0 =>
       window \/ \E c \in Callers : call[c].pc = "expire"
=============================================================================
