-------------------------- MODULE EventStreamProofs --------------------------
(* For any number of workers, events, deliveries and faults: no event that  *)
(* XADD accepted gets lost on its way to its handler.                       *)
EXTENDS EventStream, TLAPS

(* A pending entry is in the stream, or was when it was trimmed.            *)
PendingIsHeld == Pending \subseteq stream \cup gone

(* An entry is acknowledged after its handler returned or its dead letter   *)
(* was published, as far as publish can tell.                               *)
AckedLast ==
  \A w \in Workers :
    /\ Stage(w, "ack") => Event(w) \in processed
    /\ Stage(w, "drop") => Event(w) \in deadLetters \cup gone

StreamInv == StreamTypeOK /\ EventsAccountedFor /\ PendingIsHeld /\ AckedLast

LEMMA Numbers ==
  ASSUME StreamTypeOK
  PROVE  /\ sent \in Nat /\ cursor \in Nat /\ cursor <= sent /\ sent <= MaxEvents
         /\ 1 .. sent \subseteq Events /\ stream \subseteq Events
         /\ Undelivered \subseteq stream /\ Pending \subseteq Events
<1>1. sent \in Nat /\ cursor \in Nat /\ cursor <= sent /\ sent <= MaxEvents
  BY StreamAssumption DEF StreamTypeOK
<1>2. 1 .. sent \subseteq Events
  BY <1>1, StreamAssumption DEF Events
<1>3. stream \subseteq Events
  BY <1>2 DEF StreamTypeOK
<1>4. Undelivered \subseteq stream
  BY DEF Undelivered
<1>5. Pending \subseteq Events
  BY DEF Pending
<1> QED
  BY <1>1, <1>2, <1>3, <1>4, <1>5

LEMMA InitInv == StreamInit => StreamInv
<1> SUFFICES ASSUME StreamInit PROVE StreamInv
  OBVIOUS
<1> USE StreamAssumption DEF StreamInit, Down
<1>1. worker \in [Workers -> Work]
  BY DEF Work
<1>2. \A w \in Workers : Stage(w, "down")
  BY DEF Stage
<1>3. deliveries \in [Events -> Nat]
  OBVIOUS
<1>4. StreamTypeOK
  <2>1. sent \in 0 .. MaxEvents /\ cursor \in 0 .. sent /\ stream \subseteq 1 .. sent
    OBVIOUS
  <2>2. group \in BOOLEAN
    OBVIOUS
  <2>3. deadLetters \cup processed \cup gone \subseteq Events
    OBVIOUS
  <2>4. streamFaults \in 0 .. MaxStreamFaults
    OBVIOUS
  <2> QED
    BY <1>1, <1>2, <1>3, <2>1, <2>2, <2>3, <2>4 DEF StreamTypeOK
<1> QED
  BY <1>2, <1>4 DEF StreamInv, EventsAccountedFor, PendingIsHeld, AckedLast, Events, Pending, Stage

-----------------------------------------------------------------------------
(* A consumer turns to an event of its batch, or to the top of its loop.    *)
LEMMA BatchTypes ==
  ASSUME StreamTypeOK, NEW w \in Workers, NEW hand \in SUBSET Events, Batch(w, hand)
  PROVE  /\ worker' \in [Workers -> Work]
         /\ \A v \in Workers : Stage(v, "down")' \/ Stage(v, "loop")' \/ Event(v)' \in Events
         /\ \A v \in Workers \ {w} : worker'[v] = worker[v]
         /\ worker'[w].pc \in {"loop", "handle"}
<1>1. CASE hand = {} /\ worker' = [worker EXCEPT ![w] = Looping]
  BY <1>1 DEF StreamTypeOK, Work, Looping, Down, Stage, Event
<1>2. CASE \E n \in Oldest(hand) :
             worker' = [worker EXCEPT ![w] = [pc |-> "handle", event |-> n, rest |-> hand \ {n}]]
  <2> PICK n \in hand :
           worker' = [worker EXCEPT ![w] = [pc |-> "handle", event |-> n, rest |-> hand \ {n}]]
    BY <1>2 DEF Oldest
  <2>1. [pc |-> "handle", event |-> n, rest |-> hand \ {n}] \in Work
    BY DEF Work
  <2> QED
    BY <2>1 DEF StreamTypeOK, Work, Stage, Event
<1> QED
  BY <1>1, <1>2 DEF Batch

(* A consumer goes on with the event it has.                                *)
LEMMA MoveTypes ==
  ASSUME StreamTypeOK, NEW w \in Workers, ~Stage(w, "down"), ~Stage(w, "loop"),
         NEW pc \in {"ack", "failed", "dead", "drop"}, MoveTo(w, pc)
  PROVE  /\ worker' \in [Workers -> Work]
         /\ \A v \in Workers : Stage(v, "down")' \/ Stage(v, "loop")' \/ Event(v)' \in Events
         /\ \A v \in Workers \ {w} : worker'[v] = worker[v]
         /\ worker'[w].pc = pc /\ worker'[w].event = worker[w].event
BY DEF StreamTypeOK, Work, MoveTo, Stage, Event
-----------------------------------------------------------------------------
LEMMA PublishKeeps == StreamInv /\ Publish => StreamInv'
<1> SUFFICES ASSUME StreamInv, Publish PROVE StreamInv'
  OBVIOUS
<1> USE StreamAssumption DEF StreamInv, Publish
<1>1. sent' \in 0 .. MaxEvents /\ sent' \in Events /\ 1 .. sent' = (1 .. sent) \cup {sent'}
  BY DEF StreamTypeOK, Events
<1>2. Oldest(stream) \subseteq stream
  BY DEF Oldest
<1>3. StreamTypeOK'
  <2>1. cursor' \in 0 .. sent' /\ stream' \subseteq 1 .. sent'
    <3>1. \A n \in 1 .. sent : n \in 1 .. sent'
      BY <1>1
    <3>2. cursor' \in 0 .. sent'
      BY Numbers
    <3>3. stream' \subseteq stream \cup {sent'} /\ stream \subseteq 1 .. sent
      BY <1>2 DEF StreamTypeOK
    <3> QED
      BY <1>1, <3>1, <3>2, <3>3
  <2>2. gone' \subseteq Events
    BY <1>1, <1>2, Numbers DEF StreamTypeOK
  <2> QED
    BY <1>1, <2>1, <2>2 DEF StreamTypeOK, Stage, Event
<1>4. EventsAccountedFor'
  <2>1. sent' \in Undelivered'
    BY <1>1 DEF StreamTypeOK, Undelivered
  <2>2. Undelivered \subseteq Undelivered' \cup gone'
    BY DEF Undelivered
  <2>3. Pending' = Pending
    BY DEF Pending
  <2> QED
    BY <1>1, <2>1, <2>2, <2>3 DEF EventsAccountedFor
<1>5. PendingIsHeld'
  BY <1>2 DEF PendingIsHeld, Pending
<1>6. AckedLast'
  BY DEF AckedLast, Stage, Event
<1> QED
  BY <1>3, <1>4, <1>5, <1>6

LEMMA WipeKeeps == StreamInv /\ Wipe => StreamInv'
<1> SUFFICES ASSUME StreamInv, Wipe PROVE StreamInv'
  OBVIOUS
<1> USE StreamAssumption DEF StreamInv, Wipe, StreamFault
<1>1. Undelivered \subseteq Events
  BY Numbers
<1>2. Pending' = {} /\ Pending \subseteq Events
  BY DEF Pending
<1>3. StreamTypeOK'
  <2>1. stream' \subseteq 1 .. sent' /\ deliveries' \in [Events -> Nat]
    OBVIOUS
  <2>2. group' \in BOOLEAN
    OBVIOUS
  <2>3. gone' \subseteq Events /\ deadLetters' \cup processed' \subseteq Events
    BY <1>1, <1>2 DEF StreamTypeOK
  <2>4. streamFaults' \in 0 .. MaxStreamFaults
    BY DEF StreamTypeOK
  <2> QED
    BY <2>1, <2>2, <2>3, <2>4 DEF StreamTypeOK, Stage, Event
<1>4. EventsAccountedFor'
  BY DEF EventsAccountedFor
<1>5. PendingIsHeld'
  BY <1>2 DEF PendingIsHeld
<1>6. AckedLast'
  BY DEF AckedLast, Stage, Event
<1> QED
  BY <1>3, <1>4, <1>5, <1>6

LEMMA StartKeeps ==
  ASSUME NEW w \in Workers PROVE StreamInv /\ StartWorker(w) => StreamInv'
<1> SUFFICES ASSUME StreamInv, StartWorker(w) PROVE StreamInv'
  OBVIOUS
<1> USE StreamAssumption DEF StreamInv, StartWorker, EnsureGroup
<1>1. Looping \in Work /\ Looping.pc = "loop"
  BY DEF Looping, Down, Work
<1>2. StreamTypeOK'
  <2>1. worker' \in [Workers -> Work] /\ cursor' \in 0 .. sent'
    BY <1>1 DEF StreamTypeOK
  <2>2. \A v \in Workers : Stage(v, "down")' \/ Stage(v, "loop")' \/ Event(v)' \in Events
    BY <1>1 DEF StreamTypeOK, Stage, Event
  <2> QED
    BY <2>1, <2>2 DEF StreamTypeOK
<1>3. Undelivered \subseteq Undelivered' /\ Pending' = Pending
  <2>1. \A n \in stream : n > 0
    BY DEF StreamTypeOK
  <2>2. Undelivered \subseteq Undelivered'
    <3>1. CASE group
      BY <3>1 DEF Undelivered
    <3>2. CASE ~group
      BY <3>2, <2>1 DEF Undelivered
    <3> QED
      BY <3>1, <3>2
  <2> QED
    BY <2>2 DEF Pending
<1>4. EventsAccountedFor'
  BY <1>3 DEF EventsAccountedFor
<1>5. PendingIsHeld'
  BY <1>3 DEF PendingIsHeld
<1>6. AckedLast'
  BY <1>1 DEF AckedLast, Stage, Event, StreamTypeOK
<1> QED
  BY <1>2, <1>4, <1>5, <1>6

(* A batch that arrived is taken up; one whose reply was lost is not.       *)
LEMMA ReceivedTypes ==
  ASSUME StreamTypeOK, NEW w \in Workers, NEW hand \in SUBSET Events, Received(w, hand), AckedLast,
         UNCHANGED <<deadLetters, processed, gone>>
  PROVE  /\ worker' \in [Workers -> Work] /\ streamFaults' \in 0 .. MaxStreamFaults
         /\ \A v \in Workers : Stage(v, "down")' \/ Stage(v, "loop")' \/ Event(v)' \in Events
         /\ AckedLast'
<1> USE StreamAssumption
<1>1. CASE Batch(w, hand) /\ NoStreamFault
  BY <1>1, BatchTypes DEF StreamTypeOK, NoStreamFault, AckedLast, Stage, Event
<1>2. CASE StreamFault /\ UNCHANGED worker
  BY <1>2 DEF StreamTypeOK, StreamFault, AckedLast, Stage, Event
<1> QED
  BY <1>1, <1>2 DEF Received

LEMMA ReadKeeps ==
  ASSUME NEW w \in Workers PROVE StreamInv /\ Read(w) => StreamInv'
<1> SUFFICES ASSUME StreamInv, Read(w) PROVE StreamInv'
  OBVIOUS
<1> USE StreamAssumption DEF StreamInv
<1>1. PICK last \in Undelivered :
        /\ cursor' = last
        /\ deliveries' = [n \in Events |-> IF n \in Undelivered /\ n <= last THEN 1 ELSE deliveries[n]]
        /\ Received(w, {n \in Undelivered : n <= last})
        /\ group /\ UNCHANGED <<sent, stream, group, deadLetters, processed, gone>>
  BY DEF Read
<1>2. Undelivered \subseteq Events
  BY Numbers
<1>3. StreamTypeOK' /\ AckedLast'
  <2>1. /\ worker' \in [Workers -> Work] /\ streamFaults' \in 0 .. MaxStreamFaults
        /\ \A v \in Workers : Stage(v, "down")' \/ Stage(v, "loop")' \/ Event(v)' \in Events
        /\ AckedLast'
    BY <1>1, <1>2, ReceivedTypes
  <2>2. cursor' \in 0 .. sent' /\ stream' \subseteq 1 .. sent'
    BY <1>1 DEF StreamTypeOK, Undelivered
  <2>3. deliveries' \in [Events -> Nat]
    BY <1>1 DEF StreamTypeOK
  <2> QED
    BY <1>1, <2>1, <2>2, <2>3 DEF StreamTypeOK
<1>4. Pending \subseteq Pending' /\ Pending' \subseteq Pending \cup stream
  BY <1>1, <1>2 DEF Pending, Undelivered
<1>5. Undelivered \subseteq Undelivered' \cup Pending'
  <2> SUFFICES ASSUME NEW n \in Undelivered, n \notin Undelivered' PROVE n \in Pending'
    OBVIOUS
  <2>1. n \in Events /\ n \in Nat /\ last \in Nat
    BY <1>2, StreamAssumption DEF Events
  <2>2. n <= last
    BY <1>1, <2>1 DEF Undelivered
  <2> QED
    BY <1>1, <2>1, <2>2 DEF Pending
<1>6. EventsAccountedFor'
  BY <1>1, <1>4, <1>5 DEF EventsAccountedFor
<1>7. PendingIsHeld'
  BY <1>1, <1>4 DEF PendingIsHeld
<1> QED
  BY <1>3, <1>6, <1>7

LEMMA ClaimKeeps ==
  ASSUME NEW w \in Workers PROVE StreamInv /\ Claim(w) => StreamInv'
<1> SUFFICES ASSUME StreamInv, Claim(w) PROVE StreamInv'
  OBVIOUS
<1> USE StreamAssumption DEF StreamInv
<1>1. PICK stale \in SUBSET Pending :
        /\ deliveries' = [n \in Events |-> IF n \notin stale THEN deliveries[n]
                                           ELSE IF n \in stream THEN deliveries[n] + 1 ELSE 0]
        /\ Received(w, stale \cap stream)
        /\ UNCHANGED <<sent, stream, group, cursor, deadLetters, processed, gone>>
  BY DEF Claim
<1>2. stale \cap stream \subseteq Events
  BY DEF Pending
<1>3. StreamTypeOK' /\ AckedLast'
  <2>1. /\ worker' \in [Workers -> Work] /\ streamFaults' \in 0 .. MaxStreamFaults
        /\ \A v \in Workers : Stage(v, "down")' \/ Stage(v, "loop")' \/ Event(v)' \in Events
        /\ AckedLast'
    BY <1>1, <1>2, ReceivedTypes
  <2>2. deliveries' \in [Events -> Nat]
    BY <1>1 DEF StreamTypeOK
  <2> QED
    BY <1>1, <2>1, <2>2 DEF StreamTypeOK
<1>4. Pending' \subseteq Pending /\ Pending \subseteq Pending' \cup gone
  BY <1>1 DEF Pending, PendingIsHeld, StreamTypeOK
<1>5. Undelivered' = Undelivered
  BY <1>1 DEF Undelivered
<1>6. EventsAccountedFor'
  BY <1>1, <1>4, <1>5 DEF EventsAccountedFor
<1>7. PendingIsHeld'
  BY <1>1, <1>4 DEF PendingIsHeld
<1> QED
  BY <1>3, <1>6, <1>7

LEMMA HandleKeeps ==
  ASSUME NEW w \in Workers PROVE StreamInv /\ Handle(w) => StreamInv'
<1> SUFFICES ASSUME StreamInv, Handle(w) PROVE StreamInv'
  OBVIOUS
<1> USE DEF StreamInv
<1>1. PICK pc \in {"ack", "failed"} :
        /\ MoveTo(w, pc)
        /\ pc = "ack" => Event(w) \in processed'
        /\ processed \subseteq processed' /\ processed' \subseteq processed \cup {Event(w)}
  BY DEF Handle
<1>2. Stage(w, "handle") /\ Event(w) \in Events
  BY DEF Handle, StreamTypeOK, Stage
<1>3. UNCHANGED <<sent, stream, group, cursor, deliveries, deadLetters, gone, streamFaults>>
  BY DEF Handle
<1>4. /\ worker' \in [Workers -> Work]
      /\ \A v \in Workers : Stage(v, "down")' \/ Stage(v, "loop")' \/ Event(v)' \in Events
      /\ \A v \in Workers \ {w} : worker'[v] = worker[v]
      /\ worker'[w].pc = pc /\ worker'[w].event = worker[w].event
  BY <1>1, <1>2, MoveTypes DEF Stage
<1>5. StreamTypeOK'
  BY <1>1, <1>2, <1>3, <1>4 DEF StreamTypeOK
<1>6. Undelivered' = Undelivered /\ Pending' = Pending
  BY <1>3 DEF Undelivered, Pending
<1>7. EventsAccountedFor' /\ PendingIsHeld'
  BY <1>1, <1>3, <1>6 DEF EventsAccountedFor, PendingIsHeld
<1>8. AckedLast'
  BY <1>1, <1>3, <1>4 DEF AckedLast, Stage, Event
<1> QED
  BY <1>5, <1>7, <1>8

(* An entry that is acknowledged is accounted for already.                  *)
LEMMA AckKeeps ==
  ASSUME NEW w \in Workers PROVE StreamInv /\ (Ack(w) \/ Drop(w)) => StreamInv'
<1> SUFFICES ASSUME StreamInv, Ack(w) \/ Drop(w) PROVE StreamInv'
  OBVIOUS
<1> USE StreamAssumption DEF StreamInv
<1>1. /\ Stage(w, "ack") \/ Stage(w, "drop")
      /\ Event(w) \in processed \cup deadLetters \cup gone
      /\ Event(w) \in Events /\ worker[w].rest \in SUBSET Events
  BY DEF Ack, Drop, AckedLast, Stage, StreamTypeOK, Work
<1>2. UNCHANGED <<sent, stream, group, cursor, deadLetters, processed, gone>>
  BY DEF Ack, Drop
<1>3. Acked(Event(w)) \/ UNCHANGED deliveries
  BY DEF Ack, Drop
<1>4. streamFaults' \in 0 .. MaxStreamFaults
  BY DEF Ack, Drop, StreamFault, NoStreamFault, StreamTypeOK
<1>5. Batch(w, worker[w].rest) \/ Batch(w, {}) \/ MoveTo(w, "failed")
  BY DEF Ack, Drop, NextEntry
<1>6. /\ worker' \in [Workers -> Work]
      /\ \A v \in Workers : Stage(v, "down")' \/ Stage(v, "loop")' \/ Event(v)' \in Events
      /\ \A v \in Workers \ {w} : worker'[v] = worker[v]
      /\ worker'[w].pc \in {"loop", "handle", "failed"}
  <2>1. CASE Batch(w, worker[w].rest)
    BY <1>1, <2>1, BatchTypes
  <2>2. CASE Batch(w, {})
    BY <2>2, BatchTypes
  <2>3. CASE MoveTo(w, "failed")
    BY <1>1, <2>3, MoveTypes DEF Stage
  <2> QED
    BY <1>5, <2>1, <2>2, <2>3
<1>7. deliveries' \in [Events -> Nat]
  BY <1>3 DEF Acked, StreamTypeOK
<1>8. StreamTypeOK'
  BY <1>2, <1>4, <1>6, <1>7 DEF StreamTypeOK
<1>9. Pending \subseteq Pending' \cup {Event(w)} /\ Pending' \subseteq Pending
  BY <1>3, <1>7 DEF Acked, Pending, StreamTypeOK
<1>10. Undelivered' = Undelivered
  BY <1>2 DEF Undelivered
<1>11. EventsAccountedFor' /\ PendingIsHeld'
  BY <1>1, <1>2, <1>9, <1>10 DEF EventsAccountedFor, PendingIsHeld
<1>12. AckedLast'
  BY <1>2, <1>6 DEF AckedLast, Stage, Event
<1> QED
  BY <1>8, <1>11, <1>12

LEMMA FailedKeeps ==
  ASSUME NEW w \in Workers PROVE StreamInv /\ Failed(w) => StreamInv'
<1> SUFFICES ASSUME StreamInv, Failed(w) PROVE StreamInv'
  OBVIOUS
<1> USE StreamAssumption DEF StreamInv
<1>1. Stage(w, "failed") /\ worker[w].rest \in SUBSET Events
  BY DEF Failed, StreamTypeOK, Work
<1>2. UNCHANGED <<sent, stream, group, cursor, deliveries, deadLetters, processed, gone>>
  BY DEF Failed
<1>3. streamFaults' \in 0 .. MaxStreamFaults
  BY DEF Failed, StreamFault, NoStreamFault, StreamTypeOK
<1>4. MoveTo(w, "dead") \/ Batch(w, worker[w].rest)
  BY DEF Failed, NextEntry
<1>5. /\ worker' \in [Workers -> Work]
      /\ \A v \in Workers : Stage(v, "down")' \/ Stage(v, "loop")' \/ Event(v)' \in Events
      /\ \A v \in Workers \ {w} : worker'[v] = worker[v]
      /\ worker'[w].pc \in {"loop", "handle", "dead"}
  <2>1. CASE Batch(w, worker[w].rest)
    BY <1>1, <2>1, BatchTypes
  <2>2. CASE MoveTo(w, "dead")
    BY <1>1, <2>2, MoveTypes DEF Stage
  <2> QED
    BY <1>4, <2>1, <2>2
<1>6. StreamTypeOK'
  BY <1>2, <1>3, <1>5 DEF StreamTypeOK
<1>7. Undelivered' = Undelivered /\ Pending' = Pending
  BY <1>2 DEF Undelivered, Pending
<1>8. EventsAccountedFor' /\ PendingIsHeld'
  BY <1>2, <1>7 DEF EventsAccountedFor, PendingIsHeld
<1>9. AckedLast'
  BY <1>2, <1>5 DEF AckedLast, Stage, Event
<1> QED
  BY <1>6, <1>8, <1>9

LEMMA DeadLetterKeeps ==
  ASSUME NEW w \in Workers PROVE StreamInv /\ DeadLetter(w) => StreamInv'
<1> SUFFICES ASSUME StreamInv, DeadLetter(w) PROVE StreamInv'
  OBVIOUS
<1> USE StreamAssumption DEF StreamInv
<1>1. Stage(w, "dead") /\ Event(w) \in Events /\ MoveTo(w, "drop")
  BY DEF DeadLetter, StreamTypeOK, Stage
<1>2. UNCHANGED <<sent, stream, group, cursor, deliveries, processed>>
  BY DEF DeadLetter
<1>3. /\ deadLetters' \cup gone' = deadLetters \cup gone \cup {Event(w)}
      /\ gone \subseteq gone' /\ streamFaults' \in 0 .. MaxStreamFaults
  BY DEF DeadLetter, StreamFault, NoStreamFault, StreamTypeOK
<1>4. /\ worker' \in [Workers -> Work]
      /\ \A v \in Workers : Stage(v, "down")' \/ Stage(v, "loop")' \/ Event(v)' \in Events
      /\ \A v \in Workers \ {w} : worker'[v] = worker[v]
      /\ worker'[w].pc = "drop" /\ worker'[w].event = worker[w].event
  BY <1>1, MoveTypes DEF Stage
<1>5. StreamTypeOK'
  <2>1. deadLetters' \cup processed' \cup gone' \subseteq Events
    BY <1>1, <1>2, <1>3 DEF StreamTypeOK
  <2> QED
    BY <1>2, <1>3, <1>4, <2>1 DEF StreamTypeOK
<1>6. Undelivered' = Undelivered /\ Pending' = Pending
  BY <1>2 DEF Undelivered, Pending
<1>7. EventsAccountedFor' /\ PendingIsHeld'
  BY <1>2, <1>3, <1>6 DEF EventsAccountedFor, PendingIsHeld
<1>8. AckedLast'
  BY <1>2, <1>3, <1>4 DEF AckedLast, Stage, Event
<1> QED
  BY <1>5, <1>7, <1>8

LEMMA StopKeeps ==
  ASSUME NEW w \in Workers PROVE StreamInv /\ StopWorker(w) => StreamInv'
<1> SUFFICES ASSUME StreamInv, StopWorker(w) PROVE StreamInv'
  OBVIOUS
<1> USE StreamAssumption DEF StreamInv
<1>1. Down \in Work /\ Down.pc = "down"
  BY DEF Down, Work
<1>2. UNCHANGED <<sent, stream, group, cursor, deliveries, deadLetters, processed, gone>>
  BY DEF StopWorker
<1>3. streamFaults' \in 0 .. MaxStreamFaults
  BY DEF StopWorker, StreamFault, StreamTypeOK
<1>4. worker' \in [Workers -> Work] /\ worker' = [worker EXCEPT ![w] = Down]
  BY <1>1 DEF StopWorker, StreamTypeOK
<1>5. StreamTypeOK'
  BY <1>1, <1>2, <1>3, <1>4 DEF StreamTypeOK, Stage, Event
<1>6. Undelivered' = Undelivered /\ Pending' = Pending
  BY <1>2 DEF Undelivered, Pending
<1>7. EventsAccountedFor' /\ PendingIsHeld'
  BY <1>2, <1>6 DEF EventsAccountedFor, PendingIsHeld
<1>8. AckedLast'
  BY <1>1, <1>2, <1>4 DEF AckedLast, Stage, Event, StreamTypeOK
<1> QED
  BY <1>5, <1>7, <1>8

-----------------------------------------------------------------------------
LEMMA NextKeeps == StreamInv /\ [StreamNext]_streamVars => StreamInv'
<1> SUFFICES ASSUME StreamInv, [StreamNext]_streamVars PROVE StreamInv'
  OBVIOUS
<1>1. CASE UNCHANGED streamVars
  BY <1>1 DEF streamVars, StreamInv, StreamTypeOK, EventsAccountedFor, PendingIsHeld, AckedLast,
     Undelivered, Pending, Stage, Event
<1>2. CASE Publish \/ Wipe
  BY <1>2, PublishKeeps, WipeKeeps
<1>3. ASSUME NEW w \in Workers,
             StartWorker(w) \/ Read(w) \/ Claim(w) \/ Handle(w) \/ Ack(w) \/ Failed(w)
             \/ DeadLetter(w) \/ Drop(w) \/ StopWorker(w)
      PROVE  StreamInv'
  BY <1>3, StartKeeps, ReadKeeps, ClaimKeeps, HandleKeeps, AckKeeps, FailedKeeps,
     DeadLetterKeeps, StopKeeps
<1> QED
  BY <1>1, <1>2, <1>3 DEF StreamNext

(* Every variable of the stream and its consumers keeps its type.           *)
THEOREM StreamTypes == StreamSpec => []StreamTypeOK
<1>1. StreamInv => StreamTypeOK
  BY DEF StreamInv
<1> QED
  BY <1>1, InitInv, NextKeeps, PTL DEF StreamSpec

(* No event of a webhook gets lost on its way to its handler, for any       *)
(* number of workers, crashes and lost replies: consumer.py acknowledges an *)
(* entry only after its handler returned or its dead letter was published.  *)
THEOREM NoEventLost == StreamSpec => []EventsAccountedFor
<1>1. StreamInv => EventsAccountedFor
  BY DEF StreamInv
<1> QED
  BY <1>1, InitInv, NextKeeps, PTL DEF StreamSpec
=============================================================================
