----------------------------- MODULE EventStream -----------------------------
(* A Redis stream and the consumer group that reads it: the order events    *)
(* of the webhooks, and the alerts in the same way.  The entries are        *)
(* numbered in the order of their XADD.  Redis counts the deliveries of a   *)
(* pending entry, whether or not they reach a worker.                       *)
EXTENDS Integers, FiniteSets

CONSTANTS Workers,
          MaxLen,          \* entries XADD keeps, 5000 in the code
          BatchSize,       \* entries of a read or a claim, 10 in the code
          MaxAttempts,     \* deliveries before an entry is given up, 5 in the code
          MaxEvents,       \* bound: events that are published
          MaxStreamFaults  \* bound: replies lost, crashes of a worker, restores

ASSUME StreamAssumption ==
  /\ MaxLen \in Nat \ {0} /\ BatchSize \in Nat \ {0} /\ MaxAttempts \in Nat \ {0}
  /\ MaxEvents \in Nat /\ MaxStreamFaults \in Nat

VARIABLES sent,        \* the events published so far
          stream,      \* the entries Redis still holds
          group,       \* whether the consumer group exists
          cursor,      \* the last entry delivered to the group
          deliveries,  \* deliveries of each pending entry, 0 when it is not pending
          deadLetters, \* entries of the stream with the suffix :dlq
          processed,   \* history: events whose handler returned
          gone,        \* history: events trimmed or wiped, dead letters that did not arrive
          worker,      \* what a consumer does, with which event, and the rest of its batch
          streamFaults

streamVars == <<sent, stream, group, cursor, deliveries, deadLetters, processed, gone,
                worker, streamFaults>>

Events == 1 .. MaxEvents
Down == [pc |-> "down", event |-> 0, rest |-> {}]
Looping == [Down EXCEPT !.pc = "loop"]

StreamInit ==
  /\ sent = 0 /\ stream = {} /\ cursor = 0 /\ group = FALSE
  /\ deliveries = [n \in Events |-> 0]
  /\ deadLetters = {} /\ processed = {} /\ gone = {}
  /\ worker = [w \in Workers |-> Down]
  /\ streamFaults = 0

StreamFault == streamFaults < MaxStreamFaults /\ streamFaults' = streamFaults + 1
NoStreamFault == UNCHANGED streamFaults
Pending == {n \in Events : deliveries[n] > 0}
Undelivered == IF group THEN {n \in stream : n > cursor} ELSE stream
Stage(w, pc) == worker[w].pc = pc
Oldest(entries) == {n \in entries : \A m \in entries : n <= m}
Event(w) == worker[w].event
MoveTo(w, pc) == worker' = [worker EXCEPT ![w].pc = pc]

(* The next entry of the batch, or the top of the loop.                     *)
Batch(w, hand) ==
  \/ hand = {} /\ worker' = [worker EXCEPT ![w] = Looping]
  \/ \E n \in Oldest(hand) :
       worker' = [worker EXCEPT ![w] = [pc |-> "handle", event |-> n, rest |-> hand \ {n}]]
NextEntry(w) == Batch(w, worker[w].rest)
Acked(n) == deliveries' = [deliveries EXCEPT ![n] = 0]

-----------------------------------------------------------------------------
(* XADD may trim the oldest entry of a long stream (its MAXLEN is an        *)
(* approximate one), and makes the stream when a restore has deleted it,    *)
(* but not its group.  An XADD that fails publishes nothing.                *)
Publish ==
  /\ sent < MaxEvents /\ sent' = sent + 1
  /\ \E trimmed \in {{}, Oldest(stream)} :
       /\ trimmed # {} => Cardinality(stream) >= MaxLen
       /\ stream' = (stream \ trimmed) \cup {sent + 1}
       /\ gone' = gone \cup (trimmed \cap (Undelivered \cup Pending))
  /\ UNCHANGED <<group, cursor, deliveries, deadLetters, processed, worker, streamFaults>>

(* A worker starts: the group is made when it is not there, at the first    *)
(* entry of the stream.                                                     *)
GroupFromNowOn == group' = TRUE /\ cursor' = IF group THEN cursor ELSE sent
EnsureGroup == group' = TRUE /\ cursor' = IF group THEN cursor ELSE 0
StartWorker(w) ==
  /\ Stage(w, "down") /\ EnsureGroup /\ worker' = [worker EXCEPT ![w] = Looping]
  /\ UNCHANGED <<sent, stream, deliveries, deadLetters, processed, gone, streamFaults>>

Received(w, hand) ==
  \/ Batch(w, hand) /\ NoStreamFault
  \/ StreamFault /\ UNCHANGED worker

(* XREADGROUP gives the entries after the cursor and makes them pending,    *)
(* even when its reply is lost.  Without the group it raises, and so does   *)
(* every loop after it.                                                     *)
Read(w) ==
  /\ Stage(w, "loop") /\ group
  /\ \E last \in Undelivered :
       LET hand == {n \in Undelivered : n <= last}
       IN /\ \/ Cardinality(hand) = BatchSize
             \/ Cardinality(hand) < BatchSize /\ hand = Undelivered
          /\ cursor' = last
          /\ deliveries' = [n \in Events |-> IF n \in hand THEN 1 ELSE deliveries[n]]
          /\ Received(w, hand)
  /\ UNCHANGED <<sent, stream, group, deadLetters, processed, gone>>

(* XAUTOCLAIM takes over entries that were pending for long, whoever has    *)
(* them, counts a delivery more of each and drops those that were trimmed.  *)
Claim(w) ==
  /\ Stage(w, "loop") /\ group
  /\ \E stale \in SUBSET Pending \ {{}} :
       /\ Cardinality(stale) <= BatchSize
       /\ deliveries' = [n \in Events |-> IF n \notin stale THEN deliveries[n]
                                          ELSE IF n \in stream THEN deliveries[n] + 1 ELSE 0]
       /\ Received(w, stale \cap stream)
  /\ UNCHANGED <<sent, stream, group, cursor, deadLetters, processed, gone>>

Handle(w) ==
  /\ Stage(w, "handle")
  /\ \/ processed' = processed \cup {Event(w)} /\ MoveTo(w, "ack")
     \/ UNCHANGED processed /\ MoveTo(w, "failed")
  /\ UNCHANGED <<sent, stream, group, cursor, deliveries, deadLetters, gone, streamFaults>>

(* An XACK that raises counts as a failure of the handler, whether or not   *)
(* Redis has executed it.                                                   *)
Ack(w) ==
  /\ Stage(w, "ack")
  /\ \/ Acked(Event(w)) /\ NextEntry(w) /\ NoStreamFault
     \/ StreamFault /\ MoveTo(w, "failed") /\ (Acked(Event(w)) \/ UNCHANGED deliveries)
  /\ UNCHANGED <<sent, stream, group, cursor, deadLetters, processed, gone>>

(* The attempts are what XPENDING counts, one when it cannot tell.  What    *)
(* on_failure notes in the ledger of the order may fail too.                *)
Failed(w) ==
  LET known == IF deliveries[Event(w)] > 0 THEN deliveries[Event(w)] ELSE 1
  IN /\ Stage(w, "failed")
     /\ \E count \in {known, 1} :
          /\ IF count = known THEN NoStreamFault ELSE StreamFault
          /\ IF count >= MaxAttempts THEN MoveTo(w, "dead") ELSE NextEntry(w)
     /\ UNCHANGED <<sent, stream, group, cursor, deliveries, deadLetters, processed, gone>>

(* The dead letter is published first; publish swallows its errors, so the  *)
(* entry is acknowledged even when the letter did not arrive.               *)
DeadLetter(w) ==
  /\ Stage(w, "dead") /\ MoveTo(w, "drop")
  /\ \/ deadLetters' = deadLetters \cup {Event(w)} /\ NoStreamFault /\ UNCHANGED gone
     \/ gone' = gone \cup {Event(w)} /\ StreamFault /\ UNCHANGED deadLetters
  /\ UNCHANGED <<sent, stream, group, cursor, deliveries, processed>>

(* The second XACK is outside of the try: when it raises, the rest of the   *)
(* batch stays pending with a delivery nobody attempted.                    *)
Drop(w) ==
  /\ Stage(w, "drop")
  /\ \/ Acked(Event(w)) /\ NextEntry(w) /\ NoStreamFault
     \/ StreamFault /\ Batch(w, {}) /\ (Acked(Event(w)) \/ UNCHANGED deliveries)
  /\ UNCHANGED <<sent, stream, group, cursor, deadLetters, processed, gone>>

StopWorker(w) ==
  /\ ~Stage(w, "down") /\ StreamFault /\ worker' = [worker EXCEPT ![w] = Down]
  /\ UNCHANGED <<sent, stream, group, cursor, deliveries, deadLetters, processed, gone>>

(* A restore deletes every key that starts with chokmoki:, the stream with  *)
(* its group and the dead letters among them.                               *)
Wipe ==
  /\ StreamFault
  /\ stream' = {} /\ group' = FALSE /\ deadLetters' = {}
  /\ deliveries' = [n \in Events |-> 0]
  /\ gone' = gone \cup Undelivered \cup Pending \cup deadLetters
  /\ UNCHANGED <<sent, cursor, processed, worker>>

StreamNext ==
  \/ Publish \/ Wipe
  \/ \E w \in Workers :
       StartWorker(w) \/ Read(w) \/ Claim(w) \/ Handle(w) \/ Ack(w) \/ Failed(w)
       \/ DeadLetter(w) \/ Drop(w) \/ StopWorker(w)

StreamSpec == StreamInit /\ [][StreamNext]_streamVars

-----------------------------------------------------------------------------
Work == [pc : {"down", "loop", "handle", "ack", "failed", "dead", "drop"},
         event : Events \cup {0}, rest : SUBSET Events]

(* Every variable has its type, and a busy consumer has its event.          *)
StreamTypeOK ==
  /\ sent \in 0 .. MaxEvents /\ cursor \in 0 .. sent
  /\ stream \subseteq 1 .. sent /\ group \in BOOLEAN
  /\ deliveries \in [Events -> Nat]
  /\ deadLetters \cup processed \cup gone \subseteq Events
  /\ worker \in [Workers -> Work]
  /\ \A w \in Workers : Stage(w, "down") \/ Stage(w, "loop") \/ Event(w) \in Events
  /\ streamFaults \in 0 .. MaxStreamFaults

(* No event of a webhook is lost between its XADD and its handler, whoever  *)
(* crashes and whichever reply gets lost: it is still to be delivered,      *)
(* pending, handled or a dead letter, unless Redis trimmed it, a restore    *)
(* deleted it or its dead letter did not arrive.                            *)
EventsAccountedFor ==
  1 .. sent \subseteq Undelivered \cup Pending \cup processed \cup deadLetters \cup gone
=============================================================================
