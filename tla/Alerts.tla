------------------------------- MODULE Alerts -------------------------------
(* The alerts of the shop: an EventStream whose handler is the chain of     *)
(* src/alerts, which tells the customer by SMS and e-mail and the owners by *)
(* Telegram.  Only Telegram can make a handler fail; the stream then        *)
(* delivers the event again and everything before Telegram is repeated.     *)
(* A dead letter is logged as an error, and an error is an alert itself.    *)
EXTENDS EventStream, Sequences

CONSTANTS Published,    \* bound: the kinds of event that are published
          MaxPublished  \* bound: how many, errors of the shop not counted

VARIABLES kind,      \* the handler each event belongs to
          channels,  \* the channels the settings enable
          step,      \* how far each worker is with its event
          told,      \* messages sent to the customer, by event and channel, 2 for more than one
          again      \* history: events with a reason to be handled twice

alertVars == <<kind, channels, step, told, again>>
alertingVars == <<streamVars, alertVars>>

-----------------------------------------------------------------------------
(* The chain: who handles an event, and what it tells whom in which order.  *)

OrderCreated == <<"sms", "mail", "telegram">>
ShipmentUpdate == <<"sms", "mail", "telegram">>
SettingsChanged == <<"telegram">>
PriceChanged == <<"telegram">>
ContactSubmitted == <<"telegram">>
NewsletterSubscribed == <<"telegram">>
SystemError == <<"telegram">>
Fallback == <<>>

Chain == [order |-> OrderCreated, price |-> PriceChanged, contact |-> ContactSubmitted,
          newsletter |-> NewsletterSubscribed, shipment |-> ShipmentUpdate,
          settings |-> SettingsChanged, system |-> SystemError, other |-> Fallback]
Kinds == DOMAIN Chain
Customers == {"sms", "mail"}  \* the channels that reach a customer

ASSUME PublishedAssumption == Published \subseteq Kinds /\ MaxPublished \in Nat

(* What the services answer: whether the message went out.  None raises.    *)
SendTemplate == IF "sms" \in channels THEN BOOLEAN ELSE {FALSE}
SendMail == BOOLEAN
SendMessage == IF "telegram" \in channels THEN BOOLEAN ELSE {FALSE}

AlertInit ==
  /\ StreamInit
  /\ kind = [n \in Events |-> "other"]
  /\ channels \in SUBSET {"sms", "telegram"}
  /\ step = [w \in Workers |-> 0]
  /\ told = [n \in Events |-> [what \in Customers |-> 0]] /\ again = {}

(* With both channels off nothing is published.                             *)
PublishAlert(k) ==
  /\ channels # {} /\ Publish
  /\ Cardinality({n \in 1 .. sent : kind[n] # "system"}) < MaxPublished
  /\ kind' = [kind EXCEPT ![sent'] = k]
  /\ UNCHANGED <<channels, step, told, again>>

-----------------------------------------------------------------------------
(* One event *)

Doing(w, what) ==
  /\ Stage(w, "handle") /\ step[w] < Len(Chain[kind[Event(w)]])
  /\ Chain[kind[Event(w)]][step[w] + 1] = what
Advance(w) == step' = [step EXCEPT ![w] = @ + 1]

(* An order without an address or a phone, and a status without a text,     *)
(* send nothing.                                                            *)
Tell(w, what, answers) ==
  /\ Doing(w, what) /\ Advance(w)
  /\ \E went \in answers :
       told' = IF went THEN [told EXCEPT ![Event(w)][what] = IF @ = 0 THEN 1 ELSE 2] ELSE told
  /\ UNCHANGED <<streamVars, kind, channels, again>>
LifecycleSms(w) == Tell(w, "sms", SendTemplate)
OrderMail(w) == Tell(w, "mail", SendMail)

(* Mutant of ChannelFails: a channel that is off fails.                     *)
UnsentFails(w) ==
  /\ Doing(w, "telegram") /\ FALSE \in SendMessage /\ Handle(w) /\ Stage(w, "failed")'
  /\ again' = IF "telegram" \in channels THEN again \cup {Event(w)} ELSE again
  /\ step' = [step EXCEPT ![w] = 0]
  /\ UNCHANGED <<kind, channels, told>>

(* Only a channel that is on and did not send makes the handler raise.      *)
ChannelFails(w) ==
  /\ Doing(w, "telegram") /\ "telegram" \in channels
  /\ FALSE \in SendMessage /\ Handle(w) /\ Stage(w, "failed")'
  /\ again' = again \cup {Event(w)} /\ step' = [step EXCEPT ![w] = 0]
  /\ UNCHANGED <<kind, channels, told>>

SendToChannel(w) ==
  \/ /\ Doing(w, "telegram") /\ ("telegram" \in channels => TRUE \in SendMessage)
     /\ Advance(w) /\ UNCHANGED <<streamVars, kind, channels, told, again>>
  \/ ChannelFails(w)

Handled(w) ==
  /\ Stage(w, "handle") /\ step[w] = Len(Chain[kind[Event(w)]])
  /\ Handle(w) /\ Stage(w, "ack")'
  /\ step' = [step EXCEPT ![w] = 0] /\ UNCHANGED <<kind, channels, told, again>>

(* An entry that was given up: its dead letter is followed by an error of   *)
(* the system log, which is published into the same stream, if it gets      *)
(* there.                                                                   *)
LogGivenUp(w) ==
  /\ Stage(w, "drop") /\ step[w] = 0
  /\ step' = [step EXCEPT ![w] = 1]
  /\ \/ /\ Publish /\ kind' = [kind EXCEPT ![sent'] = "system"]
     \/ UNCHANGED <<streamVars, kind>>
  /\ UNCHANGED <<channels, told, again>>

-----------------------------------------------------------------------------
(* The stream around it.  An event is handled again when its               *)
(* acknowledgement raised, when its worker died over it, or when another    *)
(* worker took it over.                                                     *)

Holding(w) == IF Stage(w, "down") \/ Stage(w, "loop") THEN {} ELSE {Event(w)} \cup worker[w].rest
Quiet == UNCHANGED <<kind, channels, told>>

AlertStart(w) == StartWorker(w) /\ UNCHANGED <<step, again>> /\ Quiet
AlertRead(w) == Read(w) /\ UNCHANGED <<step, again>> /\ Quiet
AlertClaim(w) ==
  /\ Claim(w) /\ UNCHANGED step /\ Quiet
  /\ again' = again \cup {n \in Holding(w)' : \E v \in Workers \ {w} : n \in Holding(v)}
AlertAck(w) ==
  /\ Ack(w) /\ UNCHANGED step /\ Quiet
  /\ again' = IF Stage(w, "failed")' THEN again \cup {Event(w)} ELSE again
AlertFailed(w) == Failed(w) /\ UNCHANGED <<step, again>> /\ Quiet
AlertDead(w) == DeadLetter(w) /\ UNCHANGED <<step, again>> /\ Quiet
AlertDrop(w) ==
  /\ step[w] = 1 /\ Drop(w) /\ step' = [step EXCEPT ![w] = 0]
  /\ UNCHANGED again /\ Quiet
AlertStop(w) ==
  /\ StopWorker(w) /\ step' = [step EXCEPT ![w] = 0] /\ again' = again \cup Holding(w) /\ Quiet
AlertWipe == Wipe /\ UNCHANGED <<step, again>> /\ Quiet

AlertNext ==
  \/ \E k \in Published : PublishAlert(k)
  \/ \E w \in Workers :
       \/ LifecycleSms(w) \/ OrderMail(w) \/ SendToChannel(w) \/ Handled(w) \/ LogGivenUp(w)
       \/ AlertStart(w) \/ AlertRead(w) \/ AlertClaim(w) \/ AlertAck(w) \/ AlertFailed(w)
       \/ AlertDead(w) \/ AlertDrop(w) \/ AlertStop(w)
  \/ AlertWipe

AlertSpec == AlertInit /\ [][AlertNext]_alertingVars

-----------------------------------------------------------------------------
(* Every kind of step is one of the stream's, or leaves the stream alone.   *)
AlertTypeOK ==
  /\ StreamTypeOK
  /\ kind \in [Events -> Kinds] /\ channels \subseteq {"sms", "telegram"}
  /\ step \in [Workers -> 0 .. 3] /\ told \in [Events -> [Customers -> 0 .. 2]] /\ again \subseteq Events

(* A customer gets one message twice only when Telegram, switched *)
(* on, failed after the first one, an acknowledgement raised, a worker died *)
(* over the event or a second one took it over: a shop without Telegram     *)
(* does not tell its customers again and again.                             *)
ToldAgainHasCause == 
  \A n \in Events, what \in Customers : told[n][what] > 1 => n \in again
=============================================================================
