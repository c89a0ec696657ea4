------------------------------ MODULE Instance ------------------------------
(***************************************************************************)
(* One block instance of the daemon, seen from inside: its life from the   *)
(* first guest call to the last, its timers, and the ledger of what it may *)
(* emit.  `Router` studies how instances meet; here the other instances    *)
(* are an environment that posts batches and a stop into the mailbox, and  *)
(* takes emissions when it pleases.                                        *)
(*                                                                         *)
(* The instance and its timers are tasks of one thread, so a timer runs    *)
(* only where the instance's task may be suspended: at `recv` and while it *)
(* routes.  A guest call runs without interruption, but the guest makes    *)
(* host calls in it, one action each.                                      *)
(***************************************************************************)
EXTENDS Integers, Sequences, FiniteSets

CONSTANTS
    Depth,       \* capacity of the mailbox
    IdSpace,     \* how many timer ids there are (2^32 in the code)
    Outputs,     \* output ports of the block
    MaxPayload,  \* Limits::max_payload
    Budget,      \* Limits::max_emission_bytes
    Lens,        \* lengths of payloads the guest tries to emit
    MaxSets,     \* bound: timers armed in one life
    MaxEmits,    \* bound: emissions accepted within one guest call
    MaxPosts     \* bound: batches delivered to the instance

ASSUME InstanceAssumption ==
    /\ {Depth, IdSpace} \subseteq Nat \ {0}
    /\ {Outputs, MaxPayload, Budget, MaxSets, MaxEmits, MaxPosts} \subseteq Nat
    /\ Lens \subseteq Nat

VARIABLES
    pc,        \* where instance_task is
    after,     \* where it goes when it has routed
    listener,  \* whether somebody still waits to hear that it started
    mailbox,   \* its queue of work items
    current,   \* the work item its callback runs for
    emissions, \* lengths of the batches accepted since the last drain
    held,      \* Shared::held, the bytes charged for them
    pending,   \* what the last callbacks emitted, to be routed
    nextId,    \* Inner::next_id
    armed,     \* Inner::armed: the task behind each outstanding id
    tasks,     \* timer tasks that live on the thread
    outcome,   \* how this life ended
    sets, cancelled, lost, stops, ends, posts   \* history and bounds

lifeVars == <<pc, after, listener, current, outcome, stops, ends>>
ledgerVars == <<emissions, held, pending>>
timerVars == <<nextId, armed, tasks, sets, cancelled, lost>>
vars == <<lifeVars, ledgerVars, timerVars, mailbox, posts>>

Ids == 0 .. IdSpace - 1
PortErr == -1
Ports == 0 .. Outputs \cup {PortErr}   \* one index too many is a port the guest may try
Calls == {"abi", "configure", "start", "callback", "stop"}
Idle == [kind |-> "none"]
Stop == [kind |-> "stop"]
Batch == [kind |-> "deliver"]
Tick(t) == [kind |-> "timer", task |-> t.task, id |-> t.id, repeat |-> t.repeat]
Timer == [task : 1 .. MaxSets, id : Ids, repeat : BOOLEAN]
Work == {Stop, Batch} \cup {Tick(t) : t \in Timer}

(* What `timer_set` answers: an id read as an i32. *)
Signed(id) == IF id < IdSpace \div 2 THEN id ELSE id - IdSpace

(* The types, and the ledger: the bytes charged are those of the batches that
   wait to be drained, and none is charged when a guest call begins.  A refused
   emission costs nothing, and no call inherits the charge of an earlier one. *)
Sum[n \in 0 .. MaxEmits] == IF n = 0 THEN 0 ELSE Sum[n - 1] + emissions[n]
TypeOK ==
    /\ pc \in Calls \cup {"recv", "route", "ended"}
    /\ after \in {"recv", "stop", "ended"}
    /\ listener \in BOOLEAN
    /\ mailbox \in Seq(Work) /\ Len(mailbox) <= Depth
    /\ current \in Work \cup {Idle}
    /\ emissions \in Seq(Lens) /\ Len(emissions) <= MaxEmits
    /\ held = Sum[Len(emissions)] /\ held <= Budget
    /\ ~(pc \in Calls) => held = 0
    /\ pending \in Seq(Lens)
    /\ nextId \in Ids
    /\ armed \in UNION {[I -> 1 .. MaxSets] : I \in SUBSET Ids}
    /\ tasks \in SUBSET Timer
    /\ outcome \in {"none", "failed", "stopped", "died"}
    /\ sets \in 0 .. MaxSets
    /\ cancelled \subseteq 1 .. MaxSets /\ lost \subseteq 1 .. MaxSets
    /\ stops \in 0 .. 1 /\ ends \in 0 .. 2 /\ posts \in 0 .. MaxPosts

Init ==
    /\ pc = "abi" /\ after = "recv"
    /\ listener = TRUE
    /\ mailbox = <<>> /\ current = Idle
    /\ emissions = <<>> /\ held = 0 /\ pending = <<>>
    /\ nextId = 0 /\ armed = <<>> /\ tasks = {}
    /\ outcome = "none"
    /\ sets = 0 /\ cancelled = {} /\ lost = {}
    /\ stops = 0 /\ ends = 0 /\ posts = 0

-----------------------------------------------------------------------------
(* Host calls the guest makes while it runs. *)

(* Outbound::accept: port, then length, then budget. *)
Accepts(port, len) ==
    /\ port = PortErr \/ port < Outputs
    /\ len <= MaxPayload
    /\ held + len <= Budget

(* Core::emit of a payload the host accepts and can decode.  Every other
   emission is a status for the guest and changes nothing. *)
Emit(port, len) ==
    /\ pc \in Calls /\ Len(emissions) < MaxEmits
    /\ Accepts(port, len)
    /\ emissions' = Append(emissions, len)
    /\ held' = held + len
    /\ UNCHANGED <<lifeVars, pending, timerVars, mailbox, posts>>

Free(id) == id \notin DOMAIN armed

(* Mutant: the next id, armed or not. *)
FreshIdUnchecked == nextId

(* Inner::fresh_id: the first id from next_id on that names no timer. *)
FreshId == LET steps == {k \in 0 .. IdSpace - 1 : Free((nextId + k) % IdSpace)}
           IN  (nextId + (CHOOSE k \in steps : \A j \in steps : k <= j)) % IdSpace

(* timer::set and Scheduler::set of a positive delay. *)
TimerSet(repeat) ==
    /\ pc \in Calls /\ sets < MaxSets
    /\ \E id \in Ids : Free(id)
    /\ sets' = sets + 1
    /\ nextId' = (FreshId + 1) % IdSpace
    /\ armed' = [id \in DOMAIN armed \cup {FreshId} |->
                   IF id = FreshId THEN sets' ELSE armed[id]]
    /\ tasks' = tasks \cup {[task |-> sets', id |-> FreshId, repeat |-> repeat]}
    /\ UNCHANGED <<lifeVars, ledgerVars, mailbox, cancelled, lost, posts>>

Without(id) == [i \in DOMAIN armed \ {id} |-> armed[i]]
Abort(task) == {t \in tasks : t.task # task}

(* Mutant: the id is forgotten and its task is not aborted. *)
TimerCancelForgets(id) ==
    /\ pc \in Calls /\ ~Free(id)
    /\ armed' = Without(id)
    /\ cancelled' = cancelled \cup {armed[id]}
    /\ UNCHANGED <<lifeVars, ledgerVars, mailbox, nextId, tasks, sets, lost, posts>>

(* timer::cancel of an outstanding id.  Any other id is ERR_NOT_FOUND. *)
TimerCancel(id) ==
    /\ pc \in Calls /\ ~Free(id)
    /\ armed' = Without(id)
    /\ tasks' = Abort(armed[id])
    /\ cancelled' = cancelled \cup {armed[id]}
    /\ UNCHANGED <<lifeVars, ledgerVars, mailbox, nextId, sets, lost, posts>>

GuestActs ==
    \/ \E port \in Ports, len \in Lens : Emit(port, len)
    \/ \E repeat \in BOOLEAN : TimerSet(repeat)
    \/ \E id \in Ids : TimerCancel(id)

-----------------------------------------------------------------------------
(* The instance's task. *)

(* Mutant: the batches are taken and their charge stays. *)
CollectKeepsTheCharge ==
    /\ pending' = pending \o emissions
    /\ emissions' = <<>>
    /\ UNCHANGED held

(* Live::collect: what a callback emitted is drained when it returns, and with
   it the budget. *)
Collect ==
    /\ pending' = pending \o emissions
    /\ emissions' = <<>>
    /\ held' = 0

(* Scheduler::cancel_all. *)
CancelAll ==
    /\ armed' = <<>>
    /\ tasks' = {t \in tasks : \A id \in DOMAIN armed : armed[id] # t.task}

(* The thread returns: its LocalSet drops whatever task is left, its receiver
   drops the queue. *)
ThreadEnds ==
    /\ pc' = "ended"
    /\ armed' = <<>> /\ tasks' = {} /\ mailbox' = <<>> /\ current' = Idle

(* check_abi_version accepts the module.  Nothing is drained before configure. *)
AbiAccepted ==
    /\ pc = "abi" /\ pc' = "configure"
    /\ UNCHANGED <<after, listener, current, outcome, stops, ends, ledgerVars,
                   timerVars, mailbox, posts>>

ConfigureReturns ==
    /\ pc = "configure" /\ pc' = "start"
    /\ Collect
    /\ UNCHANGED <<after, listener, current, outcome, stops, ends, timerVars,
                   mailbox, posts>>

(* Live::start bails: a wrong ABI version, a rejected configuration, a start
   that is refused, a trap.  What was emitted is lost with the instance. *)
StartFails ==
    /\ pc \in {"abi", "configure", "start"}
    /\ outcome' = "failed"
    /\ ThreadEnds
    /\ emissions' = <<>> /\ held' = 0 /\ pending' = <<>>
    /\ UNCHANGED <<after, listener, stops, ends, nextId, sets, cancelled, lost, posts>>

(* Mutant: when nobody waits the thread returns at once. *)
StartReturnsUnheard ==
    /\ pc = "start" /\ pc' = "route"
    /\ after' = IF listener THEN "recv" ELSE "ended"
    /\ Collect
    /\ UNCHANGED <<listener, current, outcome, stops, ends, timerVars, mailbox, posts>>

(* eio_start returned zero.  Whoever waits is told; when nobody does, the guest
   is routed and stopped. *)
StartReturns ==
    /\ pc = "start" /\ pc' = "route"
    /\ after' = IF listener THEN "recv" ELSE "stop"
    /\ Collect
    /\ UNCHANGED <<listener, current, outcome, stops, ends, timerVars, mailbox, posts>>

(* One emission leaves: Live::route.  Until then the task may be waiting. *)
RouteOne ==
    /\ pc = "route" /\ pending # <<>>
    /\ pending' = Tail(pending)
    /\ UNCHANGED <<lifeVars, emissions, held, timerVars, mailbox, posts>>

RouteDone ==
    /\ pc = "route" /\ pending = <<>>
    /\ \/ /\ after = "ended" /\ ThreadEnds
          /\ UNCHANGED <<after, listener, outcome, stops, ends, nextId, sets, cancelled, lost>>
       \/ /\ after # "ended" /\ pc' = after
          /\ stops' = IF after = "stop" THEN stops + 1 ELSE stops
          /\ UNCHANGED <<after, listener, mailbox, current, outcome, ends, timerVars>>
    /\ UNCHANGED <<ledgerVars, posts>>

(* recv answers Stop. *)
TakeStop ==
    /\ pc = "recv" /\ mailbox # <<>> /\ Head(mailbox) = Stop
    /\ mailbox' = Tail(mailbox)
    /\ pc' = "stop" /\ stops' = stops + 1
    /\ UNCHANGED <<after, listener, current, outcome, ends, ledgerVars, timerVars, posts>>

(* recv answers a batch or a tick, and its callback begins. *)
TakeWork ==
    /\ pc = "recv" /\ mailbox # <<>> /\ Head(mailbox) # Stop
    /\ mailbox' = Tail(mailbox)
    /\ current' = Head(mailbox)
    /\ pc' = "callback"
    /\ UNCHANGED <<after, listener, outcome, stops, ends, ledgerVars, timerVars, posts>>

(* A batch the host refuses to deliver (Live::accept, accept_payload): the
   guest is not called. *)
Refuse ==
    /\ pc = "recv" /\ mailbox # <<>> /\ Head(mailbox) = Batch
    /\ mailbox' = Tail(mailbox)
    /\ Collect
    /\ pc' = "route" /\ after' = "recv"
    /\ UNCHANGED <<listener, current, outcome, stops, ends, timerVars, posts>>

(* The callback returned, with whatever status, or the guest declined the
   allocation of its payload. *)
CallbackReturns ==
    /\ pc = "callback" /\ pc' = "route" /\ after' = "recv"
    /\ current' = Idle
    /\ Collect
    /\ UNCHANGED <<listener, outcome, stops, ends, timerVars, mailbox, posts>>

(* Live::died, in a callback or in eio_stop. *)
Dies ==
    /\ pc \in {"callback", "stop"} /\ pc' = "route" /\ after' = "ended"
    /\ current' = Idle
    /\ Collect /\ CancelAll
    /\ outcome' = "died" /\ ends' = ends + 1
    /\ UNCHANGED <<listener, stops, nextId, sets, cancelled, lost, mailbox, posts>>

(* Live::stop, the guest having answered. *)
StopReturns ==
    /\ pc = "stop" /\ pc' = "route" /\ after' = "ended"
    /\ Collect /\ CancelAll
    /\ outcome' = "stopped" /\ ends' = ends + 1
    /\ UNCHANGED <<listener, current, stops, nextId, sets, cancelled, lost, mailbox, posts>>

-----------------------------------------------------------------------------
(* Timer tasks, and the rest of the service. *)

Suspended == pc \in {"recv", "route"}

(* A due timer posts, or drops its tick when there is no room.  A one-shot is
   then over, and its id free. *)
Fires(t) ==
    /\ Suspended
    /\ mailbox' = IF Len(mailbox) < Depth THEN Append(mailbox, Tick(t)) ELSE mailbox
    /\ IF t.repeat
       THEN UNCHANGED <<armed, tasks, lost>>
       ELSE /\ armed' = Without(t.id)
            /\ tasks' = Abort(t.task)
            /\ lost' = IF Len(mailbox) < Depth THEN lost ELSE lost \cup {t.task}
    /\ UNCHANGED <<lifeVars, ledgerVars, nextId, sets, cancelled, posts>>

Arrives ==
    /\ pc # "ended" /\ Len(mailbox) < Depth /\ posts < MaxPosts
    /\ posts' = posts + 1
    /\ mailbox' = Append(mailbox, Batch)
    /\ UNCHANGED <<lifeVars, ledgerVars, timerVars>>

(* The service asks it to stop; once. *)
Asked == \E i \in 1 .. Len(mailbox) : mailbox[i] = Stop
StopSent ==
    /\ pc # "ended" /\ Len(mailbox) < Depth /\ stops = 0 /\ ~Asked /\ outcome = "none"
    /\ mailbox' = Append(mailbox, Stop)
    /\ UNCHANGED <<lifeVars, ledgerVars, timerVars, posts>>

(* Executor::spawn is dropped while it waits. *)
Abandoned ==
    /\ listener /\ pc \in {"abi", "configure", "start"}
    /\ listener' = FALSE
    /\ UNCHANGED <<pc, after, current, outcome, stops, ends, ledgerVars, timerVars,
                   mailbox, posts>>

TaskSteps ==
    \/ AbiAccepted \/ ConfigureReturns \/ StartFails \/ StartReturns
    \/ RouteOne \/ RouteDone \/ TakeStop \/ TakeWork \/ Refuse
    \/ CallbackReturns \/ Dies \/ StopReturns

Next ==
    \/ GuestActs \/ TaskSteps
    \/ \E t \in tasks : Fires(t)
    \/ Arrives \/ StopSent \/ Abandoned
    \/ pc = "ended" /\ UNCHANGED vars

Spec == Init /\ [][Next]_vars

-----------------------------------------------------------------------------
(* The map of armed timers and the tasks that will fire are the same timers:
   no task runs that `timer_cancel` cannot reach, and no id is armed that will
   never fire.  An id given out twice would break it: the map would forget the
   first task without stopping it.  And once a life is over no timer of it is
   left to post, even while the instance still waits to route its last emissions. *)
ArmedAreRunning ==
    /\ \A t \in tasks : t.id \in DOMAIN armed /\ armed[t.id] = t.task
    /\ \A id \in DOMAIN armed : \E t \in tasks : t.id = id /\ t.task = armed[id]
    /\ outcome # "none" => tasks = {}

(* A one-shot that `timer_cancel` answered zero for never fires, although a
   tick already in the mailbox is not taken back: the id leaves the map in the
   step that posts.  (A repeating timer's ticks may still arrive.) *)
CancelledOneShotNeverFires ==
    \A w \in {current} \cup {mailbox[i] : i \in 1 .. Len(mailbox)} :
        w.kind = "timer" /\ ~w.repeat => w.task \notin cancelled

(* A guest that started is closed exactly once: it dies, or eio_stop is called,
   and one terminal event says so; also when nobody waited for its start. *)
EveryLifeIsClosed ==
    pc = "ended" =>
        \/ outcome = "failed" /\ stops = 0 /\ ends = 0
        \/ outcome = "stopped" /\ stops = 1 /\ ends = 1
        \/ outcome = "died" /\ ends = 1

-----------------------------------------------------------------------------
(* What the words say and the code does not do: README, section 4.  Neither
   holds. *)

(* ABI-SPEC 7.3 on `timer_set`: "returns `timer_id` >= 0 or error".  A timer
   that is armed was not reported to the guest as an error. *)
ArmedIdIsNoError == \A t \in tasks : Signed(t.id) >= 0

(* host-core/src/timer.rs:56, "`false` fires once": a one-shot that was not
   cancelled does not vanish without a callback. *)
OneShotFires == lost = {}
=============================================================================
