-------------------------------- MODULE Bridge --------------------------------
(***************************************************************************)
(* A node's MqttBridge: the thread that walks the ranked candidates and    *)
(* drives one connection, and the instances that publish and subscribe     *)
(* through the state they share with it.  The broker and the other nodes   *)
(* of the bus are the environment.                                         *)
(*                                                                         *)
(* Every lock is held for one step: a topic is recorded under one lock and *)
(* asked for under another, and the thread reinstates the recorded topics  *)
(* under the first before it hands the client out under the second.        *)
(***************************************************************************)
EXTENDS Integers, Sequences, FiniteSets, SequencesExt

CONSTANTS
    Topic, Subscriber,
    TopicOf,      \* [Subscriber -> Topic]
    Candidates,   \* the ranked candidates of pubsub.toml
    Pins,         \* what `pinned` may be: NoPin or the id of a candidate
    NoPin,
    Requests,     \* REQUEST_CAPACITY
    Capacity,     \* SUBSCRIBER_CAPACITY
    MaxSerial,    \* bound: batches the broker handles
    MaxPublishes, \* bound: publishes this node tries
    MaxBreaks,    \* bound: connections that end
    MaxFlips      \* bound: times the set of candidates that answer changes

ASSUME BridgeAssumption ==
    /\ TopicOf \in [Subscriber -> Topic]
    /\ {Requests, Capacity} \subseteq Nat \ {0}
    /\ {MaxSerial, MaxPublishes, MaxBreaks, MaxFlips} \subseteq Nat

VARIABLES
    pc, rank,     \* where `run` is, and in the walk
    pinned,
    client,       \* whether the shared client is there
    connected,
    subscribers,  \* the senders recorded for each topic
    known,        \* the topics that have an entry
    requests,     \* the request channel of the last client
    sub,          \* where each subscriber is
    queue,        \* its channel
    seen,         \* history: the last batch it received
    publisher,    \* where a publish is
    up,           \* candidates that accept a connection
    session,      \* topics subscribed in the broker's session
    broken,       \* whether the connection has ended
    inbox,        \* batches on their way to this node
    serial,       \* how many batches the broker has handled
    missed,       \* history: topics nobody asked this session for
    publishes, breaks, flips

runVars == <<pc, rank, pinned, client, connected>>
localVars == <<subscribers, known, sub, queue, seen>>
wireVars == <<up, session, broken, inbox, serial, breaks, flips>>
vars == <<runVars, localVars, wireVars, requests, publisher, missed, publishes>>

Ask(t) == [op |-> "subscribe", topic |-> t]
Publish(t) == [op |-> "publish", topic |-> t]
Batch == [topic : Topic, serial : 1 .. MaxSerial]

TypeOK ==
    /\ pc \in {"dial", "sleep", "reinstate", "install", "raise", "drive", "lower", "clear",
               "returned"}
    /\ rank \in 1 .. Len(Candidates) + 1
    /\ pinned \in Pins
    /\ client \in BOOLEAN /\ connected \in BOOLEAN
    /\ subscribers \in [Topic -> SUBSET Subscriber] /\ known \subseteq Topic
    /\ requests \in Seq({Ask(t) : t \in Topic} \cup {Publish(t) : t \in Topic})
    /\ Len(requests) <= Requests
    /\ sub \in [Subscriber -> {"new", "recorded", "listens", "gone"}]
    /\ queue \in [Subscriber -> Seq(1 .. MaxSerial)]
    /\ \A s \in Subscriber : Len(queue[s]) <= Capacity
    /\ seen \in [Subscriber -> 0 .. MaxSerial]
    /\ publisher \in {"idle", "checked"}
    /\ up \subseteq ToSet(Candidates)
    /\ session \subseteq Topic /\ broken \in BOOLEAN
    /\ inbox \in Seq(Batch) /\ serial \in 0 .. MaxSerial
    /\ missed \subseteq Topic
    /\ publishes \in 0 .. MaxPublishes /\ breaks \in 0 .. MaxBreaks /\ flips \in 0 .. MaxFlips

(* What `run` filters once, before its first walk. *)
Dialable(pin) == IF pin = NoPin THEN Candidates ELSE SelectSeq(Candidates, LAMBDA c : c = pin)

Init ==
    /\ pinned \in Pins
    /\ pc = IF Dialable(pinned) = <<>> THEN "returned" ELSE "dial"
    /\ rank = 1
    /\ client = FALSE /\ connected = FALSE
    /\ subscribers = [t \in Topic |-> {}] /\ known = {}
    /\ requests = <<>>
    /\ sub = [s \in Subscriber |-> "new"]
    /\ queue = [s \in Subscriber |-> <<>>] /\ seen = [s \in Subscriber |-> 0]
    /\ publisher = "idle"
    /\ up \in SUBSET ToSet(Candidates)
    /\ session = {} /\ broken = FALSE /\ inbox = <<>> /\ serial = 0
    /\ missed = {} /\ publishes = 0 /\ breaks = 0 /\ flips = 0

-----------------------------------------------------------------------------
(* The bridge's thread. *)

(* Mutant: a walk that meets a refusal starts again from the top. *)
DialFailsRestarts ==
    /\ pc = "dial" /\ Dialable(pinned)[rank] \notin up
    /\ rank' = 1 /\ pc' = "sleep"
    /\ UNCHANGED <<pinned, client, connected, localVars, wireVars, requests, publisher,
                   missed, publishes>>

(* A candidate that is not there, or that refuses the handshake: the walk goes
   on to the next, and sleeps when it was the last. *)
DialFails ==
    /\ pc = "dial" /\ Dialable(pinned)[rank] \notin up
    /\ IF rank < Len(Dialable(pinned)) THEN rank' = rank + 1 /\ pc' = "dial"
                                       ELSE rank' = 1 /\ pc' = "sleep"
    /\ UNCHANGED <<pinned, client, connected, localVars, wireVars, requests, publisher,
                   missed, publishes>>

Slept ==
    /\ pc = "sleep" /\ pc' = "dial"
    /\ UNCHANGED <<rank, pinned, client, connected, localVars, wireVars, requests, publisher,
                   missed, publishes>>

(* dial: a new client and a session that knows no topic. *)
DialAnswers ==
    /\ pc = "dial" /\ Dialable(pinned)[rank] \in up
    /\ pc' = "reinstate"
    /\ requests' = <<>> /\ session' = {} /\ broken' = FALSE /\ inbox' = <<>> /\ missed' = {}
    /\ UNCHANGED <<rank, pinned, client, connected, localVars, up, serial, breaks, flips,
                   publisher, publishes>>

Slots == IF Cardinality(known) < Requests THEN Cardinality(known) ELSE Requests

(* Mutant: only the first connection asks for the topics. *)
ReinstatesOnce ==
    /\ pc = "reinstate" /\ pc' = "install"
    /\ \E asked \in kSubset(Slots, known) :
         /\ requests' = IF breaks > 0 THEN <<>> ELSE SetToSeq({Ask(t) : t \in asked})
         /\ missed' = known \ asked
    /\ UNCHANGED <<rank, pinned, client, connected, localVars, wireVars, publisher, publishes>>

(* Every topic with an entry is asked for, in the order of a hash map, as long
   as the request channel takes it: nothing drains it yet. *)
Reinstates ==
    /\ pc = "reinstate" /\ pc' = "install"
    /\ \E asked \in kSubset(Slots, known) :
         /\ requests' = SetToSeq({Ask(t) : t \in asked})
         /\ missed' = known \ asked
    /\ UNCHANGED <<rank, pinned, client, connected, localVars, wireVars, publisher, publishes>>

Installs ==
    /\ pc = "install" /\ pc' = "raise" /\ client' = TRUE
    /\ UNCHANGED <<rank, pinned, connected, localVars, wireVars, requests, publisher, missed,
                   publishes>>

Raises ==
    /\ pc = "raise" /\ pc' = "drive" /\ connected' = TRUE
    /\ UNCHANGED <<rank, pinned, client, localVars, wireVars, requests, publisher, missed,
                   publishes>>

(* The broker hands a batch to this node's session. *)
Forwards(t) ==
    /\ serial < MaxSerial
    /\ serial' = serial + 1
    /\ inbox' = IF t \in session THEN Append(inbox, [topic |-> t, serial |-> serial']) ELSE inbox

(* drive: a request leaves for the broker. *)
Sends ==
    /\ pc = "drive" /\ ~broken /\ requests # <<>>
    /\ requests' = Tail(requests)
    /\ \/ /\ Head(requests).op = "subscribe"
          /\ session' = session \cup {Head(requests).topic}
          /\ UNCHANGED <<inbox, serial>>
       \/ /\ Head(requests).op = "publish"
          /\ Forwards(Head(requests).topic)
          /\ UNCHANGED session
    /\ UNCHANGED <<runVars, localVars, up, broken, breaks, flips, publisher, missed, publishes>>

Full(s) == Len(queue[s]) = Capacity

(* dispatch: every sender of the topic, a full one losing the batch and a
   closed one its place. *)
Delivers(batch) ==
    /\ queue' = [s \in Subscriber |->
                   IF s \in subscribers[batch.topic] /\ sub[s] # "gone" /\ ~Full(s)
                   THEN Append(queue[s], batch.serial) ELSE queue[s]]
    /\ subscribers' = [subscribers EXCEPT ![batch.topic] = {s \in @ : sub[s] # "gone"}]

(* Mutant: a poll that is repeated reads the packet again. *)
ReceivesAgain ==
    /\ pc = "drive" /\ inbox # <<>>
    /\ inbox' \in {inbox, Tail(inbox)}
    /\ \/ Delivers(Head(inbox))
       \/ UNCHANGED <<queue, subscribers>>
    /\ UNCHANGED <<runVars, known, sub, seen, up, session, broken, serial, breaks, flips,
                   requests, publisher, missed, publishes>>

(* drive: a batch of the session arrives.  One that does not decode goes no
   further. *)
Receives ==
    /\ pc = "drive" /\ inbox # <<>>
    /\ inbox' = Tail(inbox)
    /\ \/ Delivers(Head(inbox))
       \/ UNCHANGED <<queue, subscribers>>
    /\ UNCHANGED <<runVars, known, sub, seen, up, session, broken, serial, breaks, flips,
                   requests, publisher, missed, publishes>>

(* drive returns, and the event loop goes with what it held. *)
Notices ==
    /\ pc = "drive" /\ broken
    /\ pc' = "lower"
    /\ requests' = <<>> /\ inbox' = <<>>
    /\ UNCHANGED <<rank, pinned, client, connected, localVars, up, session, broken, serial,
                   breaks, flips, publisher, missed, publishes>>

Lowers ==
    /\ pc = "lower" /\ pc' = "clear" /\ connected' = FALSE
    /\ UNCHANGED <<rank, pinned, client, localVars, wireVars, requests, publisher, missed,
                   publishes>>

(* Back to rank 1, whatever rank the connection had. *)
Clears ==
    /\ pc = "clear" /\ pc' = "dial" /\ client' = FALSE /\ rank' = 1
    /\ UNCHANGED <<pinned, connected, localVars, wireVars, requests, publisher, missed, publishes>>

-----------------------------------------------------------------------------
(* The instances. *)

(* try_publish and try_subscribe: the client's event loop is alive and its
   channel has room. *)
Takes == pc \in {"raise", "drive"} /\ Len(requests) < Requests

(* publish, first half.  Not connected is Dropped. *)
PublishChecks ==
    /\ publisher = "idle" /\ publishes < MaxPublishes
    /\ publishes' = publishes + 1
    /\ publisher' = IF connected THEN "checked" ELSE "idle"
    /\ UNCHANGED <<runVars, localVars, wireVars, requests, missed>>

(* publish, second half, under the lock of the client: Sent or Dropped. *)
PublishHands(t) ==
    /\ publisher = "checked" /\ publisher' = "idle"
    /\ requests' = IF client /\ Takes THEN Append(requests, Publish(t)) ELSE requests
    /\ UNCHANGED <<runVars, localVars, wireVars, missed, publishes>>

(* subscribe, first half. *)
Records(s) ==
    /\ sub[s] = "new"
    /\ sub' = [sub EXCEPT ![s] = "recorded"]
    /\ subscribers' = [subscribers EXCEPT ![TopicOf[s]] = @ \cup {s}]
    /\ known' = known \cup {TopicOf[s]}
    /\ UNCHANGED <<runVars, queue, seen, wireVars, requests, publisher, missed, publishes>>

Reinstated == pc \in {"install", "raise", "drive"}
Asked(t) == \E i \in 1 .. Len(requests) : requests[i] = Ask(t)

(* subscribe, second half, under the lock of the client; what try_subscribe
   answers is ignored.  The topic is missed when this session's topics were
   reinstated before it was recorded, and it is not asked for now. *)
Asks(s) ==
    LET t == TopicOf[s] IN
    /\ sub[s] = "recorded"
    /\ sub' = [sub EXCEPT ![s] = "listens"]
    /\ requests' = IF client /\ Takes THEN Append(requests, Ask(t)) ELSE requests
    /\ missed' = IF Reinstated /\ t \notin session /\ ~Asked(t) /\ ~(client /\ Takes)
                 THEN missed \cup {t} ELSE missed
    /\ UNCHANGED <<runVars, subscribers, known, queue, seen, wireVars, publisher, publishes>>

Consumes(s) ==
    /\ sub[s] \in {"recorded", "listens"} /\ queue[s] # <<>>
    /\ seen' = [seen EXCEPT ![s] = Head(queue[s])]
    /\ queue' = [queue EXCEPT ![s] = Tail(@)]
    /\ UNCHANGED <<runVars, subscribers, known, sub, wireVars, requests, publisher, missed,
                   publishes>>

(* The instance ends and drops its Subscription. *)
Leaves(s) ==
    /\ sub[s] = "listens"
    /\ sub' = [sub EXCEPT ![s] = "gone"]
    /\ queue' = [queue EXCEPT ![s] = <<>>]
    /\ UNCHANGED <<runVars, subscribers, known, seen, wireVars, requests, publisher, missed,
                   publishes>>

-----------------------------------------------------------------------------
(* The bus. *)

(* Another node publishes. *)
OtherPublishes(t) ==
    /\ ~broken /\ Forwards(t)
    /\ UNCHANGED <<runVars, localVars, up, session, broken, breaks, flips, requests, publisher,
                   missed, publishes>>

Breaks ==
    /\ pc \in {"reinstate", "install", "raise", "drive"} /\ ~broken /\ breaks < MaxBreaks
    /\ broken' = TRUE /\ breaks' = breaks + 1
    /\ UNCHANGED <<runVars, localVars, up, session, inbox, serial, flips, requests, publisher,
                   missed, publishes>>

(* Candidates come and go; a session that stands is not touched. *)
Flips ==
    /\ flips < MaxFlips /\ flips' = flips + 1
    /\ up' \in SUBSET ToSet(Candidates)
    /\ UNCHANGED <<runVars, localVars, session, broken, inbox, serial, breaks, requests,
                   publisher, missed, publishes>>

Run == DialFails \/ Slept \/ DialAnswers \/ Reinstates \/ Installs \/ Raises
       \/ Sends \/ Receives \/ Notices \/ Lowers \/ Clears

Instances ==
    \/ PublishChecks \/ \E t \in Topic : PublishHands(t)
    \/ \E s \in Subscriber : Records(s) \/ Asks(s) \/ Consumes(s) \/ Leaves(s)

(* A connection nothing happens on, and a walk that never began. *)
Rest == pc \in {"drive", "returned"} /\ UNCHANGED vars

Next == Run \/ Instances \/ Breaks \/ Flips \/ (\E t \in Topic : OtherPublishes(t)) \/ Rest

(* The thread goes on while it can; every dial ends, by its timeout. *)
Spec == Init /\ [][Next]_vars /\ WF_vars(Run)

-----------------------------------------------------------------------------
(* The other transport, InProcessBridge: connections that share a broker in this
   process.  To sever one stops what it publishes; what it subscribed to goes on
   arriving. *)

NewBroker == [listens |-> [t \in Topic |-> {}], queue |-> [s \in Subscriber |-> <<>>],
              gone |-> {}, dropped |-> 0]
Crowded(b, t) == {s \in b.listens[t] \ b.gone : Len(b.queue[s]) = Capacity}
Reached(b, t) == (b.listens[t] \ b.gone) \ Crowded(b, t)

LocalPublish(b, live, t, batch) ==
    IF ~live THEN [delivery |-> "Dropped", broker |-> [b EXCEPT !.dropped = @ + 1]]
    ELSE [delivery |-> "Sent",
          broker |-> [listens |-> [b.listens EXCEPT ![t] = @ \ b.gone],
                      queue |-> [s \in Subscriber |-> IF s \in Reached(b, t) THEN Append(b.queue[s], batch)
                                                      ELSE b.queue[s]],
                      gone |-> b.gone,
                      dropped |-> b.dropped + Cardinality(Crowded(b, t))]]
LocalSubscribe(b, s, t) == [b EXCEPT !.listens[t] = @ \cup {s}]
LocalRecv(b, s) == [b EXCEPT !.queue[s] = Tail(@)]
LocalLeaves(b, s) == [b EXCEPT !.gone = @ \cup {s}, !.queue[s] = <<>>]

(* Candidate::parse, of a text cut where it has an @ or a colon: the id is before
   the first @, the host up to the last colon of the rest. *)
Places(text, mark) == {i \in DOMAIN text : text[i] = mark}
ParseCandidate(text, ports) ==
    LET at == Min(Places(text, "@"))
        address == SubSeq(text, at + 1, Len(text))
        colon == Max(Places(address, ":"))
        parts == [id |-> SubSeq(text, 1, at - 1), host |-> SubSeq(address, 1, colon - 1),
                  port |-> SubSeq(address, colon + 1, Len(address))]
    IN  IF Places(text, "@") = {} \/ Places(address, ":") = {} THEN {}
        ELSE {c \in {parts} : c.id # <<>> /\ c.host # <<>> /\ c.port \in ports}
Written(c) == c.id \o <<"@">> \o c.host \o <<":">> \o c.port

-----------------------------------------------------------------------------
(* DAEMON-SPEC.md:421: at most once.  A subscriber receives the batches of its topic
   in the order of the broker and none twice, whatever connections come and go
   in between. *)
AtMostOnceInOrder ==
    \A s \in Subscriber :
        LET got == <<seen[s]>> \o queue[s]
        IN  \A i \in 1 .. Len(got) - 1 : got[i] < got[i + 1]

(* bridge.rs:1073 "a subscriber that existed before this (re)connect never
   misses a publish": on a connection that has sent its requests, a recorded
   topic is subscribed.  It holds but for the topics the module calls missed:
   recorded after the reinstatement and asked for before the client was there,
   or beyond the slots of the request channel. *)
TopicsAreHeard ==
    pc = "drive" /\ requests = <<>> =>
        known \subseteq session \cup missed
                        \cup {TopicOf[s] : s \in {s \in Subscriber : sub[s] = "recorded"}}

(* bridge.rs:1012 "DAEMON 7.1's walk, forever": once candidates have settled
   and one that may be dialled answers, the bridge is connected and stays so. *)
SettlesOnOne == <>[](up \cap ToSet(Dialable(pinned)) # {}) => <>[]connected
=============================================================================
