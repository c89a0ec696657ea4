------------------------------ MODULE Service -------------------------------
(***************************************************************************)
(* A service (crates/daemon/src/router.rs, Service::spawn, stop and join): *)
(* the task that brings the instances of a router up one after the other,  *)
(* undoes that when one of them fails, and takes them down.                *)
(*                                                                         *)
(* Every step is a step of Router; what this module adds is the order in   *)
(* which the code takes the steps that Router leaves to its environment.   *)
(***************************************************************************)
EXTENDS Router

VARIABLES
    phase,     \* where the task is
    at,        \* the instance its loop is at
    count      \* instances in the service so far: 1..count

svcVars == <<phase, at, count>>
allVars == <<vars, svcVars>>

\* spawning, awaiting: the loop of `spawn`.  unwinding, reaping: `stop` and
\* `join` of what had started when an instance failed.  retiring, joining: the
\* same two when the service is taken down.  failed, done: they returned.
Phase == {"spawning", "awaiting", "unwinding", "reaping", "running",
          "retiring", "joining", "failed", "done"}

SvcTypeOK ==
    /\ TypeOK
    /\ phase \in Phase
    /\ at \in 1..(N + 1)
    /\ count \in 0..N

SvcInit ==
    /\ Init
    /\ phase = "spawning"
    /\ at = 1
    /\ count = 0

Goto(p, k) == phase' = p /\ at' = k

\* Every mailbox exists already; instance `at` gets its thread.
SpawnOne ==
    /\ phase = "spawning"
    /\ Spawn(at)
    /\ Goto("awaiting", at)
    /\ UNCHANGED count

\* `started_rx.await` is Ok: on to the next instance, or the service is up.
Answered ==
    /\ phase = "awaiting"
    /\ at \in up
    /\ count' = at
    /\ IF at = N THEN Goto("running", 1) ELSE Goto("spawning", at + 1)
    /\ UNCHANGED vars

\* Mutant: the error is returned at once.
FailedReturns ==
    /\ phase = "awaiting"
    /\ pc[at] = "ended"
    /\ at \notin up
    /\ Goto("failed", 1)
    /\ UNCHANGED <<vars, count>>

\* Mutant: the first instance is forgotten.
FailedSkipsFirst ==
    /\ phase = "awaiting"
    /\ pc[at] = "ended"
    /\ at \notin up
    /\ Goto("unwinding", 2)
    /\ UNCHANGED <<vars, count>>

\* The instance never started: whatever already did is stopped.
Failed ==
    /\ phase = "awaiting"
    /\ pc[at] = "ended"
    /\ at \notin up
    /\ Goto("unwinding", 1)
    /\ UNCHANGED <<vars, count>>

\* Mutant: the first instance is forgotten.
RetireSkipsFirst ==
    /\ phase = "running"
    /\ Goto("retiring", 2)
    /\ UNCHANGED <<vars, count>>

\* Somebody retires the running service.
Retire ==
    /\ phase = "running"
    /\ Goto("retiring", 1)
    /\ UNCHANGED <<vars, count>>

Stopping == phase \in {"unwinding", "retiring"}

\* Service::stop, one instance: `send(Work::Stop).await`, whatever it answers.
StopOne ==
    /\ Stopping
    /\ at <= count
    /\ \/ (StopPosted(at) \/ StopGone(at)) /\ Goto(phase, at + 1)
       \/ StopWaits(at) /\ UNCHANGED <<phase, at>>
    /\ UNCHANGED count

\* Service::stop asked every instance there is.
AllAsked ==
    /\ Stopping
    /\ at > count
    /\ Goto(IF phase = "unwinding" THEN "reaping" ELSE "joining", 1)
    /\ UNCHANGED <<vars, count>>

\* Service::join, one instance: blocks until its thread has returned.
JoinOne ==
    /\ phase \in {"reaping", "joining"}
    /\ at <= count
    /\ pc[at] = "ended"
    /\ Goto(phase, at + 1)
    /\ UNCHANGED <<vars, count>>

Joined ==
    /\ phase = "joining"
    /\ at > count
    /\ Goto("done", 1)
    /\ UNCHANGED <<vars, count>>

\* `spawn` returns its error; the receivers it still had go with it.
DropInbox ==
    /\ phase = "reaping"
    /\ at > count
    /\ \E i \in Instance : Abandon(i)
    /\ UNCHANGED svcVars

SpawnFailed ==
    /\ phase = "reaping"
    /\ at > count
    /\ \A i \in Instance : pc[i] # "unborn"
    /\ Goto("failed", 1)
    /\ UNCHANGED <<vars, count>>

Task ==
    \/ SpawnOne \/ Answered \/ Failed
    \/ StopOne \/ AllAsked \/ JoinOne \/ Joined
    \/ DropInbox \/ SpawnFailed

Instances == \E i \in Instance : (Thread(i) \/ World(i)) /\ UNCHANGED svcVars

Ended == phase \in {"failed", "done"} /\ UNCHANGED allVars

SvcNext == Task \/ Retire \/ Instances \/ Ended

\* A thread that can step does: it is an OS thread, and the epoch budget bounds
\* every callback.  The task steps when it can.  Timers, the bridge and whoever
\* retires the service owe nothing.
Fairness ==
    /\ WF_allVars(Task)
    /\ \A i \in Instance : WF_allVars(Thread(i) /\ UNCHANGED svcVars)

SvcSpec == SvcInit /\ [][SvcNext]_allVars /\ Fairness

-----------------------------------------------------------------------------
(***************************************************************************)
(* Properties.                                                             *)
(***************************************************************************)

\* When `spawn` has reported an error, and when a retired service has been
\* joined, no thread of the service is left (router.rs: "a service that failed
\* to come up must not leave half of itself running").
NothingLeftRunning ==
    phase \in {"failed", "done"} => \A i \in Instance : pc[i] = "ended"

\* `spawn` answers: the service comes up or the error is reported.  README,
\* section 4, shows the graph in which it does not.
SpawnReturns == <>(phase \in {"running", "retiring", "joining", "done", "failed"})

\* Some instance that started waits for room in the mailbox of one that was never
\* reached, whose receiver `spawn` keeps while it stops and joins.
WaitsForTheUnborn ==
    /\ phase \in {"unwinding", "reaping"}
    /\ \E i \in Instance : pc[i] = "unborn" /\ waiters[i] # <<>>

\* Instances each of which waits for room in the mailbox of another of them: none ever
\* takes an item again (router.rs: a cycle "stalls those instances").
Circle ==
    \E S \in SUBSET Instance \ {{}} : \A i \in S : \E j \in S : \E k \in DOMAIN waiters[j] : waiters[j][k] = i

\* That wait and such a circle are the only ways in which `spawn` does not answer:
\* whatever fails, and whatever the instances emit meanwhile (router.rs, Service::spawn).
SpawnReturnsOrWaits ==
    \/ SpawnReturns
    \/ <>(WaitsForTheUnborn \/ Circle)

\* A service that is asked to stop is gone in the end.  No run checks this: on a graph
\* with a cycle TLC refutes it (README, section 4).
RetireReturns == phase = "retiring" ~> phase = "done"

\* Such a circle is the only thing that keeps a service from being stopped and
\* joined, whoever feeds it from outside and whichever instances end meanwhile
\* (Service::stop, Service::join).
RetireReturnsOrStalls == phase = "retiring" ~> phase = "done" \/ Circle

\* The batches `emit` accepted get their answer: they are handled, discarded with a
\* reason, or an end of their connection ends.  Three things keep one for ever: a circle,
\* the hang above, and the slot of a drop-oldest connection, which is retried at the
\* emitter's next callback and not before (Outlet::deliver, Outlet::flush).
EveryBatchIsSettled ==
    []<>(\/ \A c \in Conn, n \in Serial : fate[c][n] = "accepted" => held[c] = n
        \/ WaitsForTheUnborn
        \/ Circle)
=============================================================================
