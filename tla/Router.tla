------------------------------- MODULE Router -------------------------------
(***************************************************************************)
(* The router of one service (crates/daemon/src/router.rs, instance.rs,    *)
(* executor.rs): block instances, one thread each, that hand batches to    *)
(* each other through bounded mailboxes.                                   *)
(*                                                                         *)
(* An instance drains its own mailbox.  A work item makes the host run a   *)
(* callback; what the callback emitted is routed from the same thread      *)
(* before the next item is taken.  Routing retries what the drop-oldest    *)
(* connections hold, then delivers one copy of every emission to every     *)
(* connection of its output port, in declaration order.  A full mailbox    *)
(* makes a backpressure connection wait and a drop-oldest connection hold. *)
(*                                                                         *)
(* The service's own part (spawning, stopping, joining) is the environment *)
(* of this module; module Service gives it the order the code gives it.    *)
(***************************************************************************)
EXTENDS Integers, Sequences, FiniteSets

CONSTANTS
    N,            \* number of instances; an instance is its index, 1..N
    Port,         \* output ports
    ErrPort,      \* PORT_ERR, the error port of every block
    Table,        \* the resolved connections, in the order of the service file
    Outputs,      \* Outputs[i]: the ports instance i may emit on
    Depth,        \* mailbox depth, `node.mailbox`
    Ticking,      \* instances that keep a repeating timer armed
    Subscribers,  \* instances that are the host-native `subscriber` block
    MaxBurst,     \* bound: emissions of one callback
    MaxEmit,      \* bound: emissions of one instance over its life
    Emits         \* bound: Emits[i], those of instance i

Instance == 1..N

\* The service task, as a sender of Work::Stop.
Svc == 0

Sender == Instance \cup {Svc}

Conn == DOMAIN Table

Serial == 1..MaxEmit

Route == [from : Instance, port : Port, to : Instance,
          overflow : {"Backpressure", "DropOldest"}]

ASSUME SizeAssumption ==
    /\ N \in Nat \ {0}
    /\ Depth \in Nat \ {0}
    /\ MaxBurst \in Nat
    /\ MaxEmit \in Nat

\* A subscriber declares no input and no capability: nothing but Stop reaches it.
ASSUME TableAssumption ==
    /\ Table \in Seq(Route)
    /\ Outputs \in [Instance -> SUBSET Port]
    /\ Emits \in [Instance -> 0..MaxEmit]
    /\ Ticking \subseteq Instance
    /\ Subscribers \subseteq Instance \ Ticking
    /\ \A c \in Conn : Table[c].to \notin Subscribers

From(c) == Table[c].from
To(c) == Table[c].to

\* `Routes::targets`: the connections of one output port.
Targets(i, p) == {c \in Conn : From(c) = i /\ Table[c].port = p}

Outgoing(i) == {c \in Conn : From(c) = i}

\* `waits` in Outlet::deliver: a self-connection never waits.
Waits(c) == Table[c].overflow = "Backpressure" /\ To(c) # From(c)

Delivery(c, n) == [kind |-> "Deliver", conn |-> c, serial |-> n]
Timer == [kind |-> "Timer"]
Stop == [kind |-> "Stop"]

Work == [kind : {"Deliver"}, conn : Conn, serial : Serial] \cup {Timer, Stop}

(***************************************************************************)
(* What became of the copy of an emission that a connection carries:       *)
(*   none        the emission was not made, or not on this port            *)
(*   accepted    `emit` answered zero; the copy is on its way              *)
(*   handled     the receiver took it from its mailbox                     *)
(*   overflow, selfFull, gone   a Discard, reported and counted            *)
(*   withQueue   it was in the mailbox of a receiver that ended            *)
(*   withStart   its emitter did not come up                               *)
(*   withOutlet  it was in the connection's slot when its emitter ended    *)
(***************************************************************************)
Fate == {"none", "accepted", "handled", "overflow", "selfFull", "gone",
         "withQueue", "withStart", "withOutlet"}

VARIABLES
    pc,        \* pc[i]: where the thread of instance i is
    emitted,   \* emitted[i]: the ports of everything i emitted; serials index it
    cursor,    \* cursor[i]: how many of those the routing loop has taken up
    todo,      \* todo[i]: connections emission cursor[i] has yet to reach
    retry,     \* retry[i]: connections whose slot this round has yet to retry
    held,      \* held[c]: the batch in the slot of connection c, 0 for none
    mbox,      \* mbox[j]: the mailbox of j
    permits,   \* permits[j]: free places no sender has been promised
    waiters,   \* waiters[j]: senders waiting for a place, first come first
    granted,   \* granted[j]: woken senders that own a place and have not used it
    up,        \* instances that answered RUNNING
    asked,     \* instances whose Stop has been sent
    unrouted,  \* unrouted[i]: error emissions discarded for want of a connection
    fate       \* fate[c][n]: what became of emission n of From(c) on connection c

threadVars == <<pc, emitted, cursor, todo, retry, held, up, unrouted>>
queueVars == <<mbox, permits, waiters, granted>>
vars == <<pc, emitted, cursor, todo, retry, held, mbox, permits, waiters,
          granted, up, asked, unrouted, fate>>

PC == {"unborn", "starting", "routing", "idle", "closing", "ended"}

ThreadTypeOK ==
    /\ pc \in [Instance -> PC]
    /\ emitted \in [Instance -> Seq(Port)]
    /\ cursor \in [Instance -> Nat]
    /\ \A i \in Instance : cursor[i] <= Len(emitted[i]) /\ Len(emitted[i]) <= MaxEmit
    /\ todo \in [Instance -> SUBSET Conn]
    /\ retry \in [Instance -> SUBSET Conn]
    /\ held \in [Conn -> 0..MaxEmit]
    /\ up \subseteq Instance
    /\ asked \subseteq Instance
    /\ unrouted \in [Instance -> Nat]

QueueTypeOK ==
    /\ mbox \in [Instance -> Seq(Work)]
    /\ permits \in [Instance -> Nat]
    /\ waiters \in [Instance -> Seq(Sender)]
    /\ granted \in [Instance -> SUBSET Sender]

\* What every variable holds.
TypeOK ==
    /\ ThreadTypeOK
    /\ QueueTypeOK
    /\ fate \in [Conn -> [Serial -> Fate]]

Init ==
    /\ pc = [i \in Instance |-> "unborn"]
    /\ emitted = [i \in Instance |-> <<>>]
    /\ cursor = [i \in Instance |-> 0]
    /\ todo = [i \in Instance |-> {}]
    /\ retry = [i \in Instance |-> {}]
    /\ held = [c \in Conn |-> 0]
    /\ mbox = [i \in Instance |-> <<>>]
    /\ permits = [i \in Instance |-> Depth]
    /\ waiters = [i \in Instance |-> <<>>]
    /\ granted = [i \in Instance |-> {}]
    /\ up = {}
    /\ asked = {}
    /\ unrouted = [i \in Instance |-> 0]
    /\ fate = [c \in Conn |-> [n \in Serial |-> "none"]]

-----------------------------------------------------------------------------
(***************************************************************************)
(* The mailbox: tokio's bounded channel, a fair semaphore over Depth       *)
(* places.  It is open until its receiver is dropped with its thread.      *)
(***************************************************************************)
Open(j) == pc[j] # "ended"

Waiting(s, j) == s \in granted[j] \/ \E k \in DOMAIN waiters[j] : waiters[j][k] = s

\* try_send: an item takes a free place.
Post(j, w) ==
    /\ permits[j] > 0
    /\ permits' = [permits EXCEPT ![j] = @ - 1]
    /\ mbox' = [mbox EXCEPT ![j] = Append(@, w)]
    /\ UNCHANGED <<waiters, granted>>

\* send on a full mailbox: queue behind whoever waits already.
Queue(s, j) ==
    /\ permits[j] = 0
    /\ waiters' = [waiters EXCEPT ![j] = Append(@, s)]
    /\ UNCHANGED <<mbox, permits, granted>>

\* A woken sender uses the place it was given.
PostGranted(s, j, w) ==
    /\ s \in granted[j]
    /\ granted' = [granted EXCEPT ![j] = @ \ {s}]
    /\ mbox' = [mbox EXCEPT ![j] = Append(@, w)]
    /\ UNCHANGED <<permits, waiters>>

\* send on a closed mailbox fails at once.
Refused(j) == ~Open(j) /\ UNCHANGED queueVars

\* Mutant: the place is freed and nobody in line is woken.
PopWakesNobody(j) ==
    /\ mbox[j] # <<>>
    /\ mbox' = [mbox EXCEPT ![j] = Tail(@)]
    /\ permits' = [permits EXCEPT ![j] = @ + 1]
    /\ UNCHANGED <<waiters, granted>>

\* recv: take the first item; its place goes to the first waiter, if any.
Pop(j) ==
    /\ mbox[j] # <<>>
    /\ mbox' = [mbox EXCEPT ![j] = Tail(@)]
    /\ \/ /\ waiters[j] = <<>>
          /\ permits' = [permits EXCEPT ![j] = @ + 1]
          /\ UNCHANGED <<waiters, granted>>
       \/ /\ waiters[j] # <<>>
          /\ granted' = [granted EXCEPT ![j] = @ \cup {Head(waiters[j])}]
          /\ waiters' = [waiters EXCEPT ![j] = Tail(@)]
          /\ UNCHANGED permits

-----------------------------------------------------------------------------
(***************************************************************************)
(* Callbacks.                                                              *)
(***************************************************************************)

\* What one callback of i may emit: at most MaxBurst batches, within Emits[i].
Bursts(i) == {e \in UNION {[1..k -> Outputs[i]] : k \in 0..MaxBurst} :
                 Len(emitted[i]) + Len(e) <= Emits[i]}

\* Live::collect: the emissions e of the callback join the pending ones.
Collect(i, e) == emitted' = [emitted EXCEPT ![i] = @ \o e]

\* The fates once i emitted e: a copy per connection of the port is accepted.
Accept(i, e, f) ==
    [c \in Conn |-> [n \in Serial |->
        IF /\ From(c) = i
           /\ n > Len(emitted[i])
           /\ n <= Len(emitted[i]) + Len(e)
           /\ e[n - Len(emitted[i])] = Table[c].port
        THEN "accepted" ELSE f[c][n]]]

\* Live::route opens with Outlet::flush over the slots in use.
BeginRound(i) ==
    retry' = [retry EXCEPT ![i] = {c \in Outgoing(i) : held[c] # 0}]

\* A callback of i returned with emissions e; the thread goes on to route them.
Callback(i, e, f, next) ==
    /\ pc' = [pc EXCEPT ![i] = next]
    /\ Collect(i, e)
    /\ fate' = Accept(i, e, f)
    /\ BeginRound(i)

Settle(c, n, what) == [fate EXCEPT ![c][n] = what]

Queued(j, c, n) == \E k \in DOMAIN mbox[j] : mbox[j][k] = Delivery(c, n)

\* The receiver of i is dropped, and with it the queued work; whoever waits for
\* room there is woken to find the mailbox closed.
Close(i) ==
    /\ pc' = [pc EXCEPT ![i] = "ended"]
    /\ mbox' = [mbox EXCEPT ![i] = <<>>]
    /\ waiters' = [waiters EXCEPT ![i] = <<>>]
    /\ granted' = [granted EXCEPT ![i] = {}]
    /\ UNCHANGED permits

\* The thread of i returns: its outlet goes too, with the batches it holds.
End(i) ==
    /\ Close(i)
    /\ held' = [c \in Conn |-> IF From(c) = i THEN 0 ELSE held[c]]
    /\ fate' = [c \in Conn |-> [n \in Serial |->
                   IF Queued(i, c, n) THEN "withQueue"
                   ELSE IF From(c) = i /\ held[c] = n THEN "withOutlet"
                   ELSE fate[c][n]]]

-----------------------------------------------------------------------------
(***************************************************************************)
(* The life of an instance's thread.                                       *)
(***************************************************************************)

\* Executor::spawn_wired creates the thread.
Spawn(i) ==
    /\ pc[i] = "unborn"
    /\ pc' = [pc EXCEPT ![i] = "starting"]
    /\ UNCHANGED <<emitted, cursor, todo, retry, held, unrouted, queueVars,
                   up, asked, fate>>

\* Service::spawn gave up before this instance: its receiver is dropped.
Abandon(i) ==
    /\ pc[i] = "unborn"
    /\ End(i)
    /\ UNCHANGED <<emitted, cursor, todo, retry, unrouted, up, asked>>

\* Configured and started: RUNNING is answered, what start emitted is routed.
Start(i) ==
    /\ pc[i] = "starting"
    /\ \E e \in Bursts(i) :
          /\ i \in Subscribers => e = <<>>
          /\ Callback(i, e, fate, "routing")
    /\ up' = up \cup {i}
    /\ UNCHANGED <<cursor, todo, held, unrouted, queueVars, asked>>

\* The block rejects its configuration, refuses to start or traps: Live::start
\* returns the error and what the callbacks emitted is dropped with it.
StartFails(i) ==
    /\ pc[i] = "starting"
    /\ i \notin Subscribers
    /\ Close(i)
    /\ \E e \in Bursts(i) :
          /\ Collect(i, e)
          /\ fate' = [c \in Conn |-> [n \in Serial |->
                         IF Queued(i, c, n) THEN "withQueue"
                         ELSE IF From(c) = i /\ Accept(i, e, fate)[c][n] = "accepted"
                         THEN "withStart" ELSE fate[c][n]]]
    /\ UNCHANGED <<cursor, todo, retry, held, up, asked, unrouted>>

\* A batch arrives on an input port; the callback survives or traps.
TakeBatch(i) ==
    /\ pc[i] = "idle"
    /\ mbox[i] # <<>>
    /\ Head(mbox[i]).kind = "Deliver"
    /\ Pop(i)
    /\ \E e \in Bursts(i), next \in {"routing", "closing"} :
          LET w == Head(mbox[i])
          IN  Callback(i, e, Settle(w.conn, w.serial, "handled"), next)
    /\ UNCHANGED <<cursor, todo, held, up, asked, unrouted>>

\* A timer item: eio_on_timer runs.
TakeTimer(i) ==
    /\ pc[i] = "idle"
    /\ mbox[i] # <<>>
    /\ Head(mbox[i]).kind = "Timer"
    /\ Pop(i)
    /\ \E e \in Bursts(i), next \in {"routing", "closing"} :
          Callback(i, e, fate, next)
    /\ UNCHANGED <<cursor, todo, held, up, asked, unrouted>>

\* Work::Stop: eio_stop runs, its emissions are routed, the thread ends.
TakeStop(i) ==
    /\ pc[i] = "idle"
    /\ i \notin Subscribers
    /\ mbox[i] # <<>>
    /\ Head(mbox[i]).kind = "Stop"
    /\ Pop(i)
    /\ \E e \in Bursts(i) : Callback(i, e, fate, "closing")
    /\ UNCHANGED <<cursor, todo, held, up, asked, unrouted>>

\* A subscriber's loop: the bridge's next batch is routed on `out`, unless
\* there is work; the select is biased towards it.
Receive(i) ==
    /\ i \in Subscribers
    /\ pc[i] = "idle"
    /\ mbox[i] = <<>>
    /\ \E e \in Bursts(i) : Len(e) = 1 /\ Callback(i, e, fate, "routing")
    /\ UNCHANGED <<cursor, todo, held, unrouted, queueVars, up, asked>>

\* A subscriber has no eio_stop: its loop breaks and the thread returns.
SubscriberStops(i) ==
    /\ i \in Subscribers
    /\ pc[i] = "idle"
    /\ mbox[i] # <<>>
    /\ Head(mbox[i]).kind = "Stop"
    /\ Pop(i)
    /\ pc' = [pc EXCEPT ![i] = "closing"]
    /\ UNCHANGED <<emitted, cursor, todo, retry, held, unrouted, up, asked, fate>>

\* The same when the bridge is gone and no work is waiting.
BridgeGone(i) ==
    /\ i \in Subscribers
    /\ pc[i] = "idle"
    /\ mbox[i] = <<>>
    /\ pc' = [pc EXCEPT ![i] = "closing"]
    /\ UNCHANGED <<emitted, cursor, todo, retry, held, unrouted, queueVars,
                   up, asked, fate>>

Routing(i) == pc[i] \in {"routing", "closing"}

\* Mutant: the slot is not emptied once its batch is posted.
RetryHeldKeepsCopy(i) ==
    /\ Routing(i)
    /\ \E c \in retry[i] :
          /\ retry' = [retry EXCEPT ![i] = @ \ {c}]
          /\ Open(To(c))
          /\ Post(To(c), Delivery(c, held[c]))
    /\ UNCHANGED <<pc, emitted, cursor, todo, held, unrouted, up, asked, fate>>

\* Outlet::flush, one slot: posted, discarded, or kept for the next round.
RetryHeld(i) ==
    /\ Routing(i)
    /\ \E c \in retry[i] :
          /\ retry' = [retry EXCEPT ![i] = @ \ {c}]
          /\ \/ /\ ~Open(To(c))
                /\ fate' = Settle(c, held[c], "gone")
                /\ held' = [held EXCEPT ![c] = 0]
                /\ UNCHANGED queueVars
             \/ /\ Open(To(c))
                /\ Post(To(c), Delivery(c, held[c]))
                /\ held' = [held EXCEPT ![c] = 0]
                /\ UNCHANGED fate
             \/ /\ Open(To(c))
                /\ permits[To(c)] = 0
                /\ UNCHANGED <<held, fate, queueVars>>
    /\ UNCHANGED <<pc, emitted, cursor, todo, unrouted, up, asked>>

\* Live::route takes up the next pending emission and Outlet::route resolves
\* it; an error emission nobody wired is discarded as Unrouted.
NextEmission(i) ==
    /\ Routing(i)
    /\ retry[i] = {}
    /\ todo[i] = {}
    /\ cursor[i] < Len(emitted[i])
    /\ cursor' = [cursor EXCEPT ![i] = @ + 1]
    /\ LET p == emitted[i][cursor[i] + 1]
       IN  /\ todo' = [todo EXCEPT ![i] = Targets(i, p)]
           /\ unrouted' = [unrouted EXCEPT ![i] =
                              IF p = ErrPort /\ Targets(i, p) = {} THEN @ + 1 ELSE @]
    /\ UNCHANGED <<pc, emitted, retry, held, queueVars, up, asked, fate>>

\* The connection Outlet::route is delivering to: the first one left.
IsNext(i, c) == c \in todo[i] /\ \A d \in todo[i] : c <= d

Delivering(i, c) == Routing(i) /\ retry[i] = {} /\ IsNext(i, c)

Delivered(i, c) == todo' = [todo EXCEPT ![i] = @ \ {c}]

\* The batch enters the destination's mailbox.
DeliverNow(i) ==
    /\ \E c \in todo[i] :
          /\ Delivering(i, c)
          /\ Open(To(c))
          /\ \/ ~Waiting(i, To(c)) /\ Post(To(c), Delivery(c, cursor[i]))
             \/ PostGranted(i, To(c), Delivery(c, cursor[i]))
          /\ Delivered(i, c)
    /\ UNCHANGED <<pc, emitted, cursor, retry, held, unrouted, up, asked, fate>>

\* Mutant: try_send where the code has send.
DeliverWaitsGivesUp(i) ==
    /\ \E c \in todo[i] :
          /\ Delivering(i, c)
          /\ Open(To(c))
          /\ Waits(c)
          /\ permits[To(c)] = 0
          /\ fate' = Settle(c, cursor[i], "gone")
          /\ Delivered(i, c)
    /\ UNCHANGED <<pc, emitted, cursor, retry, held, unrouted, up, asked, queueVars>>

\* Backpressure: the emitter waits for room.
DeliverWaits(i) ==
    /\ \E c \in todo[i] :
          /\ Delivering(i, c)
          /\ Open(To(c))
          /\ Waits(c)
          /\ ~Waiting(i, To(c))
          /\ Queue(i, To(c))
    /\ UNCHANGED <<threadVars, up, asked, fate>>

\* Mutant: the batch is kept for a successor of the instance that is gone.
DeliverGoneTriesAgain(i) ==
    /\ \E c \in todo[i] : Delivering(i, c) /\ Refused(To(c))
    /\ UNCHANGED <<threadVars, up, asked, fate>>

\* The receiving instance is gone: discarded.
DeliverGone(i) ==
    /\ \E c \in todo[i] :
          /\ Delivering(i, c)
          /\ Refused(To(c))
          /\ fate' = Settle(c, cursor[i], "gone")
          /\ Delivered(i, c)
    /\ UNCHANGED <<pc, emitted, cursor, retry, held, unrouted, up, asked>>

\* Mutant: drop-newest.
DeliverHoldsTheOldest(i) ==
    /\ \E c \in todo[i] :
          /\ Delivering(i, c)
          /\ Open(To(c))
          /\ Table[c].overflow = "DropOldest"
          /\ permits[To(c)] = 0
          /\ fate' = IF held[c] = 0 THEN fate ELSE Settle(c, cursor[i], "overflow")
          /\ held' = [held EXCEPT ![c] = IF @ = 0 THEN cursor[i] ELSE @]
          /\ Delivered(i, c)
    /\ UNCHANGED <<pc, emitted, cursor, retry, unrouted, up, asked, queueVars>>

\* Drop-oldest: the newest batch takes the connection's slot, and the batch it
\* finds there is the one discarded.
DeliverHolds(i) ==
    /\ \E c \in todo[i] :
          /\ Delivering(i, c)
          /\ Open(To(c))
          /\ Table[c].overflow = "DropOldest"
          /\ permits[To(c)] = 0
          /\ fate' = IF held[c] = 0 THEN fate ELSE Settle(c, held[c], "overflow")
          /\ held' = [held EXCEPT ![c] = cursor[i]]
          /\ Delivered(i, c)
    /\ UNCHANGED <<pc, emitted, cursor, retry, unrouted, up, asked, queueVars>>

\* Mutant: any connection is refused for a full mailbox.
DeliverAnyFull(i) ==
    /\ \E c \in todo[i] :
          /\ Delivering(i, c)
          /\ Open(To(c))
          /\ permits[To(c)] = 0
          /\ fate' = Settle(c, cursor[i], "selfFull")
          /\ Delivered(i, c)
    /\ UNCHANGED <<pc, emitted, cursor, retry, held, unrouted, up, asked,
                   queueVars>>

\* A self-connection asked to wait: it cannot, so the batch is discarded.
DeliverSelfFull(i) ==
    /\ \E c \in todo[i] :
          /\ Delivering(i, c)
          /\ Table[c].overflow = "Backpressure"
          /\ ~Waits(c)
          /\ permits[To(c)] = 0
          /\ fate' = Settle(c, cursor[i], "selfFull")
          /\ Delivered(i, c)
    /\ UNCHANGED <<pc, emitted, cursor, retry, held, unrouted, up, asked,
                   queueVars>>

RoundOver(i) == retry[i] = {} /\ todo[i] = {} /\ cursor[i] = Len(emitted[i])

\* Mutant: a trap returns at once, with its emissions unrouted.
RoundDoneOnTrap(i) ==
    /\ \/ /\ RoundOver(i)
          /\ pc[i] = "routing"
          /\ pc' = [pc EXCEPT ![i] = "idle"]
          /\ UNCHANGED <<held, fate, queueVars>>
       \/ /\ pc[i] = "closing"
          /\ End(i)
    /\ UNCHANGED <<emitted, cursor, todo, retry, unrouted, up, asked>>

\* Everything is routed: back to the mailbox, or the thread returns.
RoundDone(i) ==
    /\ RoundOver(i)
    /\ \/ /\ pc[i] = "routing"
          /\ pc' = [pc EXCEPT ![i] = "idle"]
          /\ UNCHANGED <<held, fate, queueVars>>
       \/ /\ pc[i] = "closing"
          /\ End(i)
    /\ UNCHANGED <<emitted, cursor, todo, retry, unrouted, up, asked>>

\* A repeating timer is due: the scheduler's task runs while the loop awaits,
\* and posts into its own mailbox or drops the tick.
Tick(i) ==
    /\ i \in Ticking
    /\ \/ pc[i] = "idle"
       \/ pc[i] = "routing" /\ \E j \in Instance : Waiting(i, j)
    /\ Post(i, Timer)
    /\ UNCHANGED <<threadVars, asked, fate>>

-----------------------------------------------------------------------------
(***************************************************************************)
(* The service sends Work::Stop, one instance at a time, and waits for     *)
(* room like any other sender.                                             *)
(***************************************************************************)
SvcIdle == \A j \in Instance : ~Waiting(Svc, j)

Stoppable(i) == pc[i] \notin {"unborn", "starting"} /\ i \notin asked

StopPosted(i) ==
    /\ Stoppable(i)
    /\ Open(i)
    /\ \/ SvcIdle /\ Post(i, Stop)
       \/ PostGranted(Svc, i, Stop)
    /\ asked' = asked \cup {i}
    /\ UNCHANGED <<threadVars, fate>>

StopWaits(i) ==
    /\ Stoppable(i)
    /\ Open(i)
    /\ SvcIdle
    /\ Queue(Svc, i)
    /\ UNCHANGED <<threadVars, asked, fate>>

\* "A gone instance is already stopped, which is what was asked for."
StopGone(i) ==
    /\ Stoppable(i)
    /\ Refused(i)
    /\ asked' = asked \cup {i}
    /\ UNCHANGED <<threadVars, fate>>

\* The steps a thread takes by itself.
Thread(i) ==
    \/ Start(i) \/ StartFails(i)
    \/ TakeBatch(i) \/ TakeTimer(i) \/ TakeStop(i) \/ SubscriberStops(i)
    \/ RetryHeld(i) \/ NextEmission(i)
    \/ DeliverNow(i) \/ DeliverWaits(i) \/ DeliverGone(i)
    \/ DeliverHolds(i) \/ DeliverSelfFull(i)
    \/ RoundDone(i)

\* What the outside world brings to it.
World(i) == Tick(i) \/ Receive(i) \/ BridgeGone(i)

AskStop(i) == StopPosted(i) \/ StopWaits(i) \/ StopGone(i)

\* Every instance ended, and whatever had come up was asked to.
Over ==
    /\ up \subseteq asked
    /\ \A i \in Instance : pc[i] = "ended"
    /\ UNCHANGED vars

Next ==
    \/ \E i \in Instance : Spawn(i) \/ Abandon(i) \/ Thread(i) \/ World(i)
                              \/ AskStop(i)
    \/ Over

Spec == Init /\ [][Next]_vars

\* What the connections of a service promise: module Channels.
Promise == INSTANCE Channels WITH
    Lossless <- {c \in Conn : Waits(c)},
    Fresh <- {c \in Conn : Table[c].overflow = "DropOldest"},
    receiving <- {c \in Conn : Open(To(c))},
    sending <- {c \in Conn : Open(From(c))},
    state <- [c \in Conn |-> [n \in Serial |->
                 CASE fate[c][n] \in {"none", "withStart"} -> "unsent"
                   [] fate[c][n] = "accepted" -> "underway"
                   [] fate[c][n] = "handled" -> "arrived"
                   [] OTHER -> "lost"]]

-----------------------------------------------------------------------------
(***************************************************************************)
(* Properties.                                                             *)
(***************************************************************************)

\* A place of an open mailbox is free, promised to a woken sender or taken,
\* and a sender waits only while none is free: no wakeup is ever lost, and no
\* mailbox holds more than Depth items (Mailbox::send, Mailbox::try_send).
NoLostWakeup ==
    \A j \in Instance : Open(j) =>
        /\ permits[j] + Len(mbox[j]) + Cardinality(granted[j]) = Depth
        /\ waiters[j] # <<>> => permits[j] = 0

Pending(c, n) ==
    LET i == From(c)
    IN  n > cursor[i] /\ n <= Len(emitted[i]) /\ emitted[i][n] = Table[c].port

InHand(c, n) == n = cursor[From(c)] /\ c \in todo[From(c)]

One(b) == IF b THEN 1 ELSE 0

\* How many times the service still has copy n of connection c.
Copies(c, n) ==
    One(Open(From(c)) /\ Pending(c, n)) + One(InHand(c, n))
    + One(held[c] = n)
    + Cardinality({k \in DOMAIN mbox[To(c)] : mbox[To(c)][k] = Delivery(c, n)})

\* A batch `emit` accepted is in exactly one place until its fate is settled,
\* and in none afterwards: retries, slots, waits, stops and deaths neither
\* lose a copy nor deliver one twice.
ExactlyOnePlace ==
    \A c \in Conn, n \in Serial : Copies(c, n) = One(fate[c][n] = "accepted")

\* A backpressure connection between two instances loses nothing and keeps its
\* order while its receiver lives (DAEMON 6.2): whatever was handled, every
\* earlier batch of the connection was handled too.
BackpressureIsLossless ==
    \A c \in Conn : Waits(c) =>
        \A n \in Serial : fate[c][n] = "handled" =>
            \A m \in 1..(n - 1) : fate[c][m] \in {"none", "handled"}

\* No batch is lost for a reason that is not its own: only a drop-oldest connection
\* overflows, and never with what came last on it, or loses what its outlet holds;
\* only a self-connection is refused for a full mailbox; Gone means that the
\* receiver really ended; and an error emission is counted as unrouted when no
\* connection takes it, and only then.
LossHasItsReason ==
    /\ \A c \in Conn, n \in Serial :
        /\ fate[c][n] = "overflow" =>
              /\ Table[c].overflow = "DropOldest"
              /\ \E m \in Serial : m > n /\ fate[c][m] \notin {"none", "overflow"}
        /\ fate[c][n] = "selfFull" => From(c) = To(c)
        /\ fate[c][n] \in {"gone", "withQueue"} => ~Open(To(c))
        /\ fate[c][n] \in {"withStart", "withOutlet"} => ~Open(From(c))
        /\ fate[c][n] = "withOutlet" => Table[c].overflow = "DropOldest"
    /\ \A i \in Instance :
        unrouted[i] = Cardinality({n \in 1..cursor[i] :
            emitted[i][n] = ErrPort /\ Targets(i, ErrPort) = {}})

\* ABI 6.2: nothing a callback emitted is left unrouted when the next item is
\* taken, nor when the thread of an instance that ran returns, trap included.
RoutedBeforeNext ==
    \A i \in Instance :
        /\ pc[i] = "idle" => RoundOver(i)
        /\ pc[i] = "ended" /\ i \in up => RoundOver(i)

\* Only a routing thread is amid an emission or a flush, and what it is amid is
\* its own: the loop of instance_task, callback by callback.
Rounds ==
    \A i \in Instance :
        /\ todo[i] # {} => cursor[i] > 0
        /\ \A c \in todo[i] : From(c) = i
        /\ \A c \in retry[i] : From(c) = i /\ held[c] > 0
        /\ ~Routing(i) => retry[i] = {} /\ todo[i] = {}
        /\ ~Routing(i) /\ (pc[i] = "ended" => i \in up) => cursor[i] = Len(emitted[i])
        /\ i \in up => pc[i] \notin {"unborn", "starting"}

\* A sender is in the line of a mailbox once, and not once it was woken.
InLineOnce ==
    \A j \in Instance : Open(j) =>
        \A k \in DOMAIN waiters[j] :
            /\ waiters[j][k] \notin granted[j]
            /\ \A l \in DOMAIN waiters[j] : l # k => waiters[j][l] # waiters[j][k]

Machine == TypeOK /\ Rounds /\ NoLostWakeup /\ InLineOnce

\* Only what was emitted has a fate, and only an instance that came up runs and has
\* fates other than those of a start that failed (Live::start).
FatesAreOfEmissions ==
    /\ \A c \in Conn, n \in Serial :
        /\ n > Len(emitted[From(c)]) => fate[c][n] = "none"
        /\ From(c) \notin up => fate[c][n] \in {"none", "withStart"}
        /\ From(c) \in up => fate[c][n] # "withStart"
    /\ \A i \in Instance :
        /\ pc[i] \in {"unborn", "starting"} => emitted[i] = <<>>
        /\ pc[i] \in {"routing", "idle", "closing"} => i \in up

\* A mailbox holds what is addressed to its instance and has been taken up
\* (Outlet::deliver), and so does a slot, which only drop-oldest connections use.
OwnMail ==
    /\ \A j \in Instance : \A k \in DOMAIN mbox[j] : \A c \in Conn, n \in Serial :
        mbox[j][k] = Delivery(c, n) => To(c) = j /\ n <= cursor[From(c)]
    /\ \A c \in Conn :
        /\ held[c] <= cursor[From(c)]
        /\ held[c] # 0 => Table[c].overflow = "DropOldest"

\* The batches of a connection that waits are in line in the order of their emission.
InOrder ==
    \A c \in Conn : Waits(c) =>
        \A k, l \in DOMAIN mbox[To(c)] : \A m, n \in Serial :
            k < l /\ mbox[To(c)][k] = Delivery(c, m) /\ mbox[To(c)][l] = Delivery(c, n) => m < n

\* The inductive invariant of module RouterProofs, but for the properties it is the
\* strengthening of.
Inductive == Machine /\ FatesAreOfEmissions /\ OwnMail /\ InOrder

\* The router implements the channels it promises (DAEMON 6.2, ABI 6.2).
KeepsThePromise == Promise!Spec

-----------------------------------------------------------------------------
(***************************************************************************)
(* What the words say and the code does not do: README, section 4.  None   *)
(* of these holds.                                                         *)
(***************************************************************************)

\* DAEMON 6.2: "Every discard - unrouted error emission, drop-oldest
\* replacement, full self-connection, gone receiver - is logged and counted",
\* and router.rs: "Counted rather than silently dropped: every one of these is a
\* signal that existed, was accepted from the guest, and then did not arrive
\* somewhere".  What the outlet still holds when its thread ends is not.
EveryLossIsCounted ==
    \A c \in Conn, n \in Serial : fate[c][n] # "withOutlet"

\* Outlet::flush: "a held batch keeps its place ahead of the batches that came
\* after it".  No batch is handled while an older one of its connection waits.
HeldKeepsItsPlace ==
    \A c \in Conn, n \in Serial : fate[c][n] = "handled" =>
        \A m \in Serial : m < n => fate[c][m] # "accepted"

\* DAEMON 6.1: "A callback that trapped still has its emissions routed.  `emit`
\* already returned zero, so the host has taken those batches".
TrappedStillRouted ==
    \A i \in Instance : pc[i] = "ended" => RoundOver(i)
=============================================================================
