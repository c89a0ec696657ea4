----------------------------- MODULE StateStore -----------------------------
(***************************************************************************)
(* The state store of a node (crates/daemon/src/state.rs) between those    *)
(* who use it: instances that keep a count in `eio:state`, each on its own *)
(* thread; the lifecycle of their service, which runs a new graph before   *)
(* it retires the old one (boot.rs, `ServicesApi`); and the endpoint that  *)
(* reclaims an orphaned namespace (api/state.rs).                          *)
(*                                                                         *)
(* The counting block reads its count when it starts and stores every      *)
(* increment.  One key per namespace is enough: a namespace is cleared     *)
(* whole, and keys of one instance do not meet.                            *)
(***************************************************************************)
EXTENDS Integers, FiniteSets

CONSTANTS
    Ns,        \* instances of the service, one namespace each
    Definitions, \* which of them a definition may declare
    MaxGen,    \* bound: graphs ever spawned
    MaxCount,  \* bound: increments of one instance
    MaxEdits,  \* bound: changes of the file behind the daemon
    Broken,    \* a file that does not parse
    Gone,      \* no file
    None

ASSUME StateAssumption ==
    /\ {MaxGen, MaxCount, MaxEdits} \subseteq Nat
    /\ Definitions \subseteq SUBSET Ns
    /\ None \notin Ns /\ None \notin (1 .. MaxGen) \X Ns

VARIABLES
    disk,     \* what redb has committed
    writer,   \* whose write transaction is open
    file,     \* the instances the definition on disk declares
    gen,      \* the newest graph
    live,     \* running instances, <<graph, instance>>
    pc, mem,  \* where their threads are, and the count each holds
    op,       \* the lifecycle operation in progress
    reclaim,  \* the namespace a DELETE has found to be an orphan
    edits,    \* bound
    landed,   \* increments committed since the namespace was cleared (history)
    doubled,  \* instances that once ran in two graphs at once (history)
    bereft    \* instances whose state was reclaimed while they ran (history)

storeVars == <<disk, writer>>
threadVars == <<live, pc, mem>>
history == <<landed, doubled, bereft>>
vars == <<storeVars, file, gen, threadVars, op, reclaim, edits, history>>

Thread == (1 .. MaxGen) \X Ns
Count == 0 .. MaxCount
Absent == -1
Files == Definitions \cup {Broken, Gone}
Runs(n) == {t \in live : t[2] = n}

TypeOK ==
    /\ disk \in [Ns -> Count \cup {Absent}]
    /\ writer \in live \cup {None}
    /\ file \in Files
    /\ gen \in 0 .. MaxGen
    /\ live \subseteq Thread
    /\ pc \in [Thread -> {"load", "ready", "writing"}]
    /\ mem \in [Thread -> Count]
    /\ \A t \in live : pc[t] = "writing" <=> writer = t
    /\ op \in {"idle", "spawn", "retire", "stop"}
    /\ reclaim \in Ns \cup {None}
    /\ edits \in 0 .. MaxEdits
    /\ landed \in [Ns -> Nat]
    /\ doubled \subseteq Ns /\ bereft \subseteq Ns

(* A boot: the definition names some instances, and nothing is stored. *)
Init ==
    /\ disk = [n \in Ns |-> Absent] /\ writer = None
    /\ file \in Definitions
    /\ gen = 0 /\ live = {}
    /\ pc = [t \in Thread |-> "load"] /\ mem = [t \in Thread |-> 0]
    /\ op = "spawn" /\ reclaim = None /\ edits = 0
    /\ landed = [n \in Ns |-> 0] /\ doubled = {} /\ bereft = {}

-----------------------------------------------------------------------------
(* An instance: its start reads the count, a signal adds one to it. *)

Held(n) == IF disk[n] = Absent THEN 0 ELSE disk[n]

(* Namespace::get, in a read transaction: what is committed, whoever writes. *)
Load(t) ==
    /\ pc[t] = "load"
    /\ mem' = [mem EXCEPT ![t] = Held(t[2])]
    /\ pc' = [pc EXCEPT ![t] = "ready"]
    /\ UNCHANGED <<storeVars, live, history>>

(* A signal: state_put begins its transaction.  One writer at a time, whoever
   comes first. *)
Begin(t) ==
    /\ pc[t] = "ready" /\ writer = None
    /\ landed[t[2]] < MaxCount /\ mem[t] < MaxCount
    /\ writer' = t
    /\ pc' = [pc EXCEPT ![t] = "writing"]
    /\ UNCHANGED <<disk, live, mem, history>>

(* Mutant: a failed commit leaves its transaction open. *)
CommitKeepsTheLock(t) ==
    /\ pc[t] = "writing"
    /\ pc' = [pc EXCEPT ![t] = "ready"]
    /\ \/ /\ writer' = None
          /\ disk' = [disk EXCEPT ![t[2]] = mem[t] + 1]
          /\ mem' = [mem EXCEPT ![t] = @ + 1]
          /\ landed' = [landed EXCEPT ![t[2]] = @ + 1]
       \/ UNCHANGED <<writer, disk, mem, landed>>
    /\ UNCHANGED <<live, doubled, bereft>>

(* commit: durable when it returns, and state_put answers zero; a transaction
   that fails changes nothing and is ERR_IO for the guest, which then forgets
   the increment. *)
Commit(t) ==
    /\ pc[t] = "writing"
    /\ writer' = None /\ pc' = [pc EXCEPT ![t] = "ready"]
    /\ \/ /\ disk' = [disk EXCEPT ![t[2]] = mem[t] + 1]
          /\ mem' = [mem EXCEPT ![t] = @ + 1]
          /\ landed' = [landed EXCEPT ![t[2]] = @ + 1]
       \/ UNCHANGED <<disk, mem, landed>>
    /\ UNCHANGED <<live, doubled, bereft>>

Instance(t) ==
    /\ t \in live
    /\ \/ Load(t) \/ Begin(t) \/ Commit(t)
    /\ UNCHANGED <<file, gen, op, reclaim, edits>>

-----------------------------------------------------------------------------
(* The lifecycle, under the lock of the services API.  It runs on the reactor,
   as the handlers do, and is suspended while instances start and stop. *)

(* `reclaim` has no await: the reactor waits with it for the write lock. *)
ReactorFree == reclaim = None

(* PUT of a definition, or a start or a reload of the one that is there.  One
   that does not autostart only takes down what runs. *)
Put(definition) ==
    /\ op = "idle" /\ ReactorFree /\ definition # Gone
    /\ file' = definition
    /\ op' \in {"spawn", "stop"} /\ (op' = "spawn" => gen < MaxGen)
    /\ UNCHANGED <<storeVars, gen, threadVars, reclaim, edits, history>>

(* Its write fails half-way: the file is torn, and what runs goes on. *)
PutFails ==
    /\ op = "idle" /\ ReactorFree
    /\ file' = Broken
    /\ UNCHANGED <<storeVars, gen, threadVars, op, reclaim, edits, history>>

Stop ==
    /\ op = "idle" /\ ReactorFree /\ live # {}
    /\ op' = "stop"
    /\ UNCHANGED <<storeVars, file, gen, threadVars, reclaim, edits, history>>

(* DELETE of a service that does not run. *)
Delete ==
    /\ op = "idle" /\ ReactorFree /\ live = {} /\ file # Gone
    /\ file' = Gone
    /\ UNCHANGED <<storeVars, gen, threadVars, op, reclaim, edits, history>>

Declares == IF file \in {Broken, Gone} THEN {} ELSE file

(* The graph of the file as it reads now. *)
Spawn ==
    /\ op = "spawn" /\ ReactorFree /\ gen < MaxGen
    /\ gen' = gen + 1
    /\ live' = live \cup {<<gen', n>> : n \in Declares}
    /\ doubled' = doubled \cup {n \in Declares : Runs(n) # {}}
    /\ op' = "retire"
    /\ UNCHANGED <<storeVars, file, pc, mem, reclaim, edits, landed, bereft>>

(* What the operation takes down: the older graphs, or all of them. *)
Outgoing == {t \in live : op = "stop" \/ (op = "retire" /\ t[1] < gen)}

(* An instance has handled its stop. *)
Retire(t) ==
    /\ t \in Outgoing /\ pc[t] = "ready"
    /\ live' = live \ {t}
    /\ pc' = [pc EXCEPT ![t] = "load"] /\ mem' = [mem EXCEPT ![t] = 0]
    /\ UNCHANGED <<storeVars, file, gen, op, reclaim, edits, history>>

Retired ==
    /\ op \in {"retire", "stop"} /\ ReactorFree /\ Outgoing = {}
    /\ op' = "idle"
    /\ UNCHANGED <<storeVars, file, gen, threadVars, reclaim, edits, history>>

(* An editor, or a checkout. *)
Edit(definition) ==
    /\ edits < MaxEdits /\ edits' = edits + 1
    /\ file' = definition
    /\ UNCHANGED <<storeVars, gen, threadVars, op, reclaim, history>>

(* The process ends; the next one boots what the file declares. *)
Killed ==
    /\ gen < MaxGen
    /\ writer' = None /\ live' = {} /\ reclaim' = None /\ op' = "spawn"
    /\ pc' = [t \in Thread |-> "load"] /\ mem' = [t \in Thread |-> 0]
    /\ UNCHANGED <<disk, file, gen, edits, history>>

-----------------------------------------------------------------------------
(* DELETE /state/orphans/{namespace}. *)

(* Mutant: a definition that does not parse declares nothing. *)
DeclaredIfParsed(n) == n \in Declares

(* Whether the current file declares n, as far as it can be told. *)
Declared(n) == file = Broken \/ n \in Declares

Reclaim(n) ==
    /\ ReactorFree /\ ~Declared(n)
    /\ reclaim' = n
    /\ UNCHANGED <<storeVars, file, gen, threadVars, op, edits, history>>

(* Mutant: the scan does not stop where the instance's keys end. *)
ClearFrom(n) ==
    /\ reclaim = n /\ writer = None
    /\ disk' = [m \in Ns |-> Absent]
    /\ landed' = [landed EXCEPT ![n] = 0]
    /\ bereft' = IF Runs(n) # {} THEN bereft \cup {n} ELSE bereft
    /\ reclaim' = None
    /\ UNCHANGED <<writer, file, gen, threadVars, op, edits, doubled>>

(* clear_namespace: one transaction, once the write lock is free. *)
Clear(n) ==
    /\ reclaim = n /\ writer = None
    /\ disk' = [disk EXCEPT ![n] = Absent]
    /\ landed' = [landed EXCEPT ![n] = 0]
    /\ bereft' = IF Runs(n) # {} THEN bereft \cup {n} ELSE bereft
    /\ reclaim' = None
    /\ UNCHANGED <<writer, file, gen, threadVars, op, edits, doubled>>

-----------------------------------------------------------------------------
Rest == op = "idle" /\ reclaim = None /\ UNCHANGED vars

Next ==
    \/ \E t \in Thread : Instance(t) \/ Retire(t)
    \/ \E definition \in {file} \cup Definitions : Put(definition)
    \/ PutFails \/ Stop \/ Delete \/ Spawn \/ Retired \/ Killed
    \/ \E definition \in Files : Edit(definition)
    \/ \E n \in Ns : Reclaim(n) \/ Clear(n)
    \/ Rest

(* Fairness: threads are scheduled, and a waiting begin_write gets its turn. *)
Fairness ==
    /\ \A t \in Thread : WF_vars(Instance(t) /\ pc[t] # "ready")
    /\ \A n \in Ns : SF_vars(Clear(n))

Spec == Init /\ [][Next]_vars /\ Fairness

-----------------------------------------------------------------------------
(* No increment is lost or counted twice, through failed commits, kills and
   reboots: what the store holds for an instance is what its lives committed,
   unless two of them overlapped or its state was reclaimed while it ran.
   (Both can happen; `doubled` and `bereft` say when.) *)
CountsAddUp ==
    \A n \in Ns \ (doubled \cup bereft) : Held(n) = landed[n]

(* A namespace is cleared only while no file declares it, an unreadable one
   declaring everything: no request gets between the check and the write, only
   an editor can (api/state.rs, `reclaim`). *)
ReclaimSparesTheDeclared ==
    [][\A n \in Ns : disk[n] # Absent /\ disk'[n] = Absent =>
            edits > 0 \/ (file # Broken /\ n \notin Declares)]_vars

(* The reactor, which waits inside `reclaim` for the write lock, goes on. *)
ReclaimEnds == (reclaim # None) ~> (reclaim = None)
=============================================================================
