------------------------------ MODULE ObserveBus ------------------------------
(***************************************************************************)
(* The node's observation bus: instances, whose events a drain task takes  *)
(* from an unbounded channel; log lines, published from whatever thread    *)
(* writes them; a broadcast ring; the taps of the API; and the streams that*)
(* read the ring at the speed of their clients.                            *)
(***************************************************************************)
EXTENDS Integers, Sequences, FiniteSets, Functions

CONSTANTS
    Source,    \* instances, and the log of the node
    Logs,      \* the sources that publish from their own thread
    Reader,    \* streams, each of a tap of its own
    Mine,      \* [Reader -> SUBSET Source], the filters of the streams
    Ring,      \* RING
    MaxEvents, \* bound: events of one source
    MaxOpens   \* bound: times one tap is streamed

ASSUME BusAssumption ==
    /\ Logs \subseteq Source
    /\ Mine \in [Reader -> SUBSET Source]
    /\ Ring \in Nat \ {0}
    /\ {MaxEvents, MaxOpens} \subseteq Nat

VARIABLES
    events,    \* the channel each instance's events wait in
    count,     \* how many events each source has had
    publishing,\* the event a publisher has found readers for, 0 when none
    slots,     \* the ring: what each slot holds, and the position it was sent at
    tail,      \* the position of the last observation
    taps,      \* Bus::taps
    next,      \* the position each receiver reads next, 0 when there is none
    said, out, \* history: what `Feed` speaks about
    opened     \* history: how many events a source had had when a stream opened

busVars == <<slots, tail, said>>
allVars == <<events, count, publishing, busVars, taps, next, out, opened>>

Off == -1
Saw(o) == [seen |-> o]
Lagged(k) == [missed |-> k]
Opens(r) == opened[r].times

BusTypeOK ==
    /\ events \in [Source -> Seq(1 .. MaxEvents)]
    /\ count \in [Source -> 0 .. MaxEvents]
    /\ publishing \in [Source -> 0 .. MaxEvents]
    /\ \A i \in 0 .. Ring - 1 : slots[i].at % Ring = i /\ slots[i].at <= tail
    /\ taps \subseteq Reader
    /\ next \in [Reader -> 0 .. tail + 1]
    /\ tail = Len(said)

BusInit ==
    /\ events = [s \in Source |-> <<>>]
    /\ count = [s \in Source |-> 0]
    /\ publishing = [s \in Source |-> 0]
    /\ slots = [i \in 0 .. Ring - 1 |-> [at |-> i - Ring, value |-> <<>>]]
    /\ tail = 0
    /\ taps = {}
    /\ next = [r \in Reader |-> 0]
    /\ said = <<>> /\ out = [r \in Reader |-> <<>>]
    /\ opened = [r \in Reader |-> [times |-> 0, count |-> count]]

-----------------------------------------------------------------------------
(* Publishing. *)

(* Mutant: the registry is asked, and not the receivers. *)
WatchedIfTapped == taps # {}

Watched == \E r \in Reader : next[r] # 0

(* Executor: an instance reports an event. *)
Reports(s) ==
    /\ s \notin Logs /\ count[s] < MaxEvents
    /\ count' = [count EXCEPT ![s] = @ + 1]
    /\ events' = [events EXCEPT ![s] = Append(@, count'[s])]
    /\ UNCHANGED <<publishing, busVars, taps, next, out, opened>>

(* drain, observe, and the first half of Bus::publish.  With nobody there the
   event is counted as unwatched and goes no further. *)
Drains(s) ==
    /\ publishing[s] = 0 /\ events[s] # <<>>
    /\ events' = [events EXCEPT ![s] = Tail(@)]
    /\ publishing' = [publishing EXCEPT ![s] = IF Watched THEN Head(events[s]) ELSE 0]
    /\ UNCHANGED <<count, busVars, taps, next, out, opened>>

(* LogLayer::on_event and Bus::log: the same half, on the writer's thread. *)
WritesLog(s) ==
    /\ s \in Logs /\ publishing[s] = 0 /\ count[s] < MaxEvents
    /\ count' = [count EXCEPT ![s] = @ + 1]
    /\ publishing' = [publishing EXCEPT ![s] = IF Watched THEN count'[s] ELSE 0]
    /\ UNCHANGED <<events, busVars, taps, next, out, opened>>

(* broadcast::Sender::send, which keeps nothing when the receivers have gone
   meanwhile. *)
Broadcasts(s) ==
    /\ publishing[s] # 0
    /\ publishing' = [publishing EXCEPT ![s] = 0]
    /\ IF Watched
       THEN /\ tail' = tail + 1
            /\ slots' = [slots EXCEPT ![tail' % Ring] =
                           [at |-> tail', value |-> <<s, publishing[s]>>]]
            /\ said' = Append(said, <<s, publishing[s]>>)
       ELSE UNCHANGED busVars
    /\ UNCHANGED <<events, count, taps, next, out, opened>>

-----------------------------------------------------------------------------
(* The API. *)

Creates(r) ==
    /\ r \notin taps /\ Opens(r) = 0
    /\ taps' = taps \cup {r}
    /\ UNCHANGED <<events, count, publishing, busVars, next, out, opened>>

(* DELETE: the registration goes, the streams stay. *)
Deletes(r) ==
    /\ r \in taps
    /\ taps' = taps \ {r}
    /\ UNCHANGED <<events, count, publishing, busVars, next, out, opened>>

(* GET: the tap is looked up and the receiver made without an await between. *)
Streams(r) ==
    /\ r \in taps /\ next[r] = 0 /\ Opens(r) < MaxOpens
    /\ next' = [next EXCEPT ![r] = tail + 1]
    /\ opened' = [opened EXCEPT ![r] = [times |-> @.times + 1, count |-> count]]
    /\ UNCHANGED <<events, count, publishing, busVars, taps, out>>

Slot(r) == slots[next[r] % Ring]

(* stream_of: what recv answers is sent on if it passes the filter. *)
Hears(r) ==
    /\ next[r] # 0 /\ Slot(r).at = next[r]
    /\ next' = [next EXCEPT ![r] = @ + 1]
    /\ out' = IF Slot(r).value[1] \in Mine[r]
              THEN [out EXCEPT ![r] = Append(@, Saw(Slot(r).value))] ELSE out
    /\ UNCHANGED <<events, count, publishing, busVars, taps, opened>>

(* Mutant: a lag is passed over like an observation of somebody else. *)
LagsSilently(r) ==
    /\ next[r] # 0 /\ Slot(r).at > next[r]
    /\ next' = [next EXCEPT ![r] = tail - Ring + 1]
    /\ UNCHANGED <<events, count, publishing, busVars, taps, out, opened>>

(* stream_of: recv answers Lagged, once, and resumes at the oldest it has. *)
Lags(r) ==
    /\ next[r] # 0 /\ Slot(r).at > next[r]
    /\ next' = [next EXCEPT ![r] = tail - Ring + 1]
    /\ out' = [out EXCEPT ![r] = Append(@, Lagged(tail - Ring + 1 - next[r]))]
    /\ UNCHANGED <<events, count, publishing, busVars, taps, opened>>

(* The client closes the connection, and the receiver is dropped.  The tap
   stays. *)
HangsUp(r) ==
    /\ next[r] # 0
    /\ next' = [next EXCEPT ![r] = 0]
    /\ UNCHANGED <<events, count, publishing, busVars, taps, out, opened>>

(* Every event has had its readers, and no tap can be opened again. *)
Over ==
    /\ count = [s \in Source |-> MaxEvents]
    /\ \A s \in Source : events[s] = <<>> /\ publishing[s] = 0
    /\ taps = {} /\ \A r \in Reader : next[r] = 0 /\ Opens(r) > 0
    /\ UNCHANGED allVars

BusNext ==
    \/ \E s \in Source : Reports(s) \/ Drains(s) \/ WritesLog(s) \/ Broadcasts(s)
    \/ \E r \in Reader : Creates(r) \/ Deletes(r) \/ Streams(r) \/ Hears(r) \/ Lags(r)
                         \/ HangsUp(r)
    \/ Over

BusSpec == BusInit /\ [][BusNext]_allVars

-----------------------------------------------------------------------------
(* The bus implements `Feed`: DAEMON-SPEC 9.6 "complete until a client cannot
   keep up, and precisely quantified from then on", with a ring that forgets
   and readers that each go at their own speed. *)
Event == 1 .. MaxEvents
at == [r \in Reader |-> IF next[r] = 0 THEN Off ELSE next[r] - 1]
F == INSTANCE Feed
KeepsTheFeed == F!Spec

Underway(s, n) ==
    \/ publishing[s] = n
    \/ \E i \in 1 .. Len(events[s]) : events[s][i] = n
    \/ \E i \in 1 .. Len(said) : said[i] = <<s, n>>

(* Nothing a reader waits for disappears before it reaches the ring: an event of
   a source it watches, reported after it opened, waits to be drained, is being
   published or was sent, whoever else comes, goes or deletes a tap. *)
NothingVanishes ==
    \A r \in Reader : next[r] # 0 =>
        \A s \in Mine[r], n \in 1 .. MaxEvents :
            opened[r].count[s] < n /\ n <= count[s] => Underway(s, n)
=============================================================================
