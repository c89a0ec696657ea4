-------------------------- MODULE StateStoreProofs --------------------------
(***************************************************************************)
(* Theorems about the state store of a node, for any instances and any     *)
(* number of graphs, increments and edits: the counts add up, and a DELETE *)
(* clears no namespace that a file declares.                               *)
(*                                                                         *)
(* CountsAddUp is not inductive: an increment adds to what the thread has  *)
(* read, so the invariant says that a thread which has read its count      *)
(* holds what is stored (MemoryIsFresh), which needs that no other writes  *)
(* the namespace (OneAtATime).  ReclaimSparesTheDeclared needs that what   *)
(* `reclaim` has checked stays true until it has the write lock            *)
(* (CheckHolds).                                                           *)
(***************************************************************************)
EXTENDS StateStore, TLAPS

-----------------------------------------------------------------------------
(* The inductive invariant.                                                *)

\* Threads that do not run have nothing of an earlier life about them.
Threads ==
    /\ \A t \in live : t[1] <= gen
    /\ \A t \in Thread \ live : pc[t] = "load"
    /\ \A t \in live : pc[t] = "writing" => mem[t] < MaxCount

OneAtATime ==
    \A t, u \in live : t[2] = u[2] /\ t[2] \notin doubled => t = u

MemoryIsFresh ==
    \A t \in live : pc[t] # "load" /\ t[2] \notin doubled \cup bereft => mem[t] = landed[t[2]]

CheckHolds ==
    reclaim # None => edits > 0 \/ (file # Broken /\ reclaim \notin Declares)

Inductive ==
    TypeOK /\ Threads /\ OneAtATime /\ CountsAddUp /\ MemoryIsFresh /\ CheckHolds

\* A thread is a graph's number and the name of an instance.
LEMMA ThreadShape ==
  /\ \A t \in Thread : t[1] \in 1 .. MaxGen /\ t[2] \in Ns /\ t = <<t[1], t[2]>> /\ t # None
  /\ \A n \in Ns : n # None
  /\ MaxGen \in Nat /\ MaxCount \in Nat /\ MaxEdits \in Nat
  BY StateAssumption DEF Thread

\* A step that touches neither the threads nor what is stored, and that `reclaim` does
\* not see: the file changes only where nobody has checked it.
LEMMA LifecycleKeeps ==
  ASSUME Inductive, UNCHANGED <<storeVars, gen, threadVars, history>>,
         file' \in Files, op' \in {"idle", "spawn", "retire", "stop"},
         reclaim' \in Ns \cup {None}, edits' \in 0 .. MaxEdits, CheckHolds'
  PROVE  Inductive'
  BY DEF Inductive, TypeOK, Threads, OneAtATime, CountsAddUp, MemoryIsFresh, Held,
         storeVars, threadVars, history

-----------------------------------------------------------------------------
(* The steps of an instance.                                               *)

\* It reads its count: what is stored, and so what its lives have committed.
LEMMA LoadKeeps ==
  ASSUME Inductive, NEW t \in Thread, t \in live, Load(t),
         UNCHANGED <<file, gen, op, reclaim, edits>>
  PROVE  Inductive'
  <1> USE DEF Inductive
  <1>1. t[2] \in Ns /\ Held(t[2]) \in Count
    BY ThreadShape DEF TypeOK, Held, Count, Absent
  <1>2. /\ mem' = [mem EXCEPT ![t] = Held(t[2])] /\ pc' = [pc EXCEPT ![t] = "ready"]
        /\ UNCHANGED <<disk, writer, live, landed, doubled, bereft>>
    BY DEF Load, storeVars, history
  <1>3. TypeOK'
    BY <1>1, <1>2 DEF TypeOK, Load
  <1>4. Threads' /\ OneAtATime' /\ CountsAddUp' /\ CheckHolds'
    BY <1>2 DEF TypeOK, Threads, OneAtATime, CountsAddUp, Held, CheckHolds, Declares
  <1>5. MemoryIsFresh'
    BY <1>1, <1>2 DEF TypeOK, MemoryIsFresh, CountsAddUp
  <1> QED  BY <1>3, <1>4, <1>5

\* It takes the write lock.
LEMMA BeginKeeps ==
  ASSUME Inductive, NEW t \in Thread, t \in live, Begin(t),
         UNCHANGED <<file, gen, op, reclaim, edits>>
  PROVE  Inductive'
  <1> USE DEF Inductive
  <1>1. TypeOK'
    BY ThreadShape DEF TypeOK, Begin, history
  <1>2. Threads' /\ OneAtATime' /\ CountsAddUp' /\ MemoryIsFresh' /\ CheckHolds'
    BY DEF TypeOK, Threads, OneAtATime, CountsAddUp, MemoryIsFresh, CheckHolds, Begin, Held,
           Declares, history
  <1> QED  BY <1>1, <1>2

\* It commits: it alone writes the namespace, so it adds one to what is stored.  Or the
\* commit fails.
LEMMA CommitKeeps ==
  ASSUME Inductive, NEW t \in Thread, t \in live, Commit(t),
         UNCHANGED <<file, gen, op, reclaim, edits>>
  PROVE  Inductive' /\ \A n \in Ns : disk'[n] = Absent => disk[n] = Absent
  <1> USE DEF Inductive
  <1>1. t[2] \in Ns /\ mem[t] \in Nat /\ writer = t
    BY ThreadShape DEF TypeOK, Count, Commit
  <1>2. /\ writer' = None /\ pc' = [pc EXCEPT ![t] = "ready"] /\ pc[t] = "writing"
        /\ UNCHANGED <<live, doubled, bereft>>
    BY DEF Commit
  <1>3. \A u \in live : u # t => pc[u] # "writing"
    BY <1>1 DEF TypeOK
  <1>4. OneAtATime' /\ CheckHolds'
    BY <1>2 DEF TypeOK, OneAtATime, CheckHolds, Declares
  <1>5. CASE UNCHANGED <<disk, mem, landed>>
    <2>3. Threads'
      BY <1>2, <1>5 DEF TypeOK, Threads
    <2>1. TypeOK'
      BY <1>2, <1>3, <1>5, ThreadShape DEF TypeOK
    <2>2. CountsAddUp' /\ MemoryIsFresh'
      BY <1>2, <1>5 DEF TypeOK, CountsAddUp, MemoryIsFresh, Held
    <2> QED  BY <1>4, <1>5, <2>1, <2>2, <2>3
  <1>6. CASE /\ disk' = [disk EXCEPT ![t[2]] = mem[t] + 1]
             /\ mem' = [mem EXCEPT ![t] = @ + 1]
             /\ landed' = [landed EXCEPT ![t[2]] = @ + 1]
    <2>1. mem[t] + 1 \in Count /\ mem[t] + 1 # Absent /\ mem[t] < MaxCount
      BY <1>1, <1>2, ThreadShape DEF TypeOK, Threads, Count, Absent
    <2>2. landed[t[2]] \in Nat
      BY <1>1 DEF TypeOK
    <2>3. TypeOK'
      BY <1>1, <1>2, <1>3, <1>6, <2>1, <2>2, ThreadShape DEF TypeOK
    <2>4. t[2] \notin doubled \cup bereft => mem[t] = landed[t[2]]
      BY <1>2 DEF MemoryIsFresh
    <2>5. disk'[t[2]] = mem[t] + 1 /\ landed'[t[2]] = landed[t[2]] + 1 /\ mem'[t] = mem[t] + 1
          /\ \A n \in Ns : n # t[2] => disk'[n] = disk[n] /\ landed'[n] = landed[n]
          /\ \A u \in Thread : u # t => mem'[u] = mem[u]
      BY <1>1, <1>6 DEF TypeOK
    <2>6. CountsAddUp'
      BY <1>1, <1>2, <2>1, <2>4, <2>5 DEF CountsAddUp, Held
    <2>7. MemoryIsFresh'
      <3> SUFFICES ASSUME NEW u \in live, pc'[u] # "load", u[2] \notin doubled \cup bereft
                   PROVE  mem'[u] = landed'[u[2]]
        BY <1>2 DEF MemoryIsFresh
      <3>1. u \in Thread /\ u[2] \in Ns
        BY ThreadShape DEF TypeOK
      <3>2. CASE u = t
        BY <2>4, <2>5, <3>2
      <3>3. CASE u # t
        <4>1. u[2] # t[2] /\ pc[u] # "load"
          BY <1>2, <3>1, <3>3 DEF OneAtATime, TypeOK
        <4> QED  BY <2>5, <3>1, <3>3, <4>1 DEF MemoryIsFresh
      <3> QED  BY <3>2, <3>3
    <2>8. Threads'
      BY <1>2, <1>3, <2>5 DEF TypeOK, Threads
    <2> QED  BY <1>4, <2>1, <2>3, <2>5, <2>6, <2>7, <2>8
  <1> QED  BY <1>5, <1>6 DEF Commit

-----------------------------------------------------------------------------
(* The steps of the lifecycle.                                             *)

\* Operations that only decide what is next: the reactor has nothing checked meanwhile.
LEMMA DecisionsKeep ==
  ASSUME Inductive,
         \/ \E definition \in {file} \cup Definitions : Put(definition)
         \/ PutFails \/ Stop \/ Delete \/ Retired
         \/ \E definition \in Files : Edit(definition)
         \/ \E n \in Ns : Reclaim(n)
  PROVE  Inductive' /\ disk' = disk
  <1> USE DEF Inductive
  <1>1. UNCHANGED <<storeVars, gen, threadVars, history>>
    BY DEF Put, PutFails, Stop, Delete, Retired, Edit, Reclaim
  <1>2. file' \in Files /\ op' \in {"idle", "spawn", "retire", "stop"}
        /\ reclaim' \in Ns \cup {None} /\ edits' \in 0 .. MaxEdits
    BY ThreadShape DEF TypeOK, Files, Put, PutFails, Stop, Delete, Retired, Edit, Reclaim
  <1>3. CheckHolds'
    <2>1. CASE \E definition \in Files : Edit(definition)
      BY <2>1 DEF Edit, CheckHolds, TypeOK
    <2>2. CASE \E n \in Ns : Reclaim(n)
      BY <2>2 DEF Reclaim, Declared, CheckHolds, Declares
    <2>3. CASE reclaim' = None
      BY <2>3 DEF CheckHolds
    <2> QED  BY <2>1, <2>2, <2>3 DEF Put, PutFails, Stop, Delete, Retired, ReactorFree
  <1> QED  BY <1>1, <1>2, <1>3, LifecycleKeeps DEF storeVars

\* A new graph: its threads are new, and where an older graph still runs one of the
\* instances, `doubled` says so.
LEMMA SpawnKeeps ==
  ASSUME Inductive, Spawn
  PROVE  Inductive'
  <1> USE DEF Inductive
  <1> DEFINE born == {<<gen + 1, n>> : n \in Declares}
  <1>1. /\ gen' = gen + 1 /\ live' = live \cup born /\ op' = "retire" /\ reclaim = None
        /\ doubled' = doubled \cup {n \in Declares : Runs(n) # {}}
        /\ UNCHANGED <<disk, writer, file, pc, mem, reclaim, edits, landed, bereft>>
    BY DEF Spawn, storeVars, ReactorFree
  <1>2. Declares \subseteq Ns /\ gen + 1 \in 1 .. MaxGen
    BY StateAssumption DEF Declares, TypeOK, Files, Spawn
  <1>3. \A t \in born : t \in Thread /\ t \notin live /\ t[1] = gen + 1 /\ t[2] \in Declares
                        /\ pc[t] = "load" /\ t # writer
    BY <1>2, ThreadShape DEF Thread, Threads, TypeOK
  <1>4. TypeOK'
    BY <1>1, <1>2, <1>3, ThreadShape DEF TypeOK
  <1>5. Threads'
    <2>1. \A t \in live : t[1] \in Nat /\ t[1] <= gen /\ gen \in Nat
      BY ThreadShape DEF TypeOK, Threads
    <2>2. \A t \in live' : t[1] <= gen'
      BY <1>1, <1>2, <1>3, <2>1
    <2>3. \A t \in live' : pc'[t] = "writing" => mem'[t] < MaxCount
      BY <1>1, <1>3 DEF Threads
    <2> QED  BY <1>1, <2>2, <2>3 DEF Threads
  <1>6. OneAtATime'
    <2> SUFFICES ASSUME NEW t \in live', NEW u \in live', t[2] = u[2], t[2] \notin doubled'
                 PROVE  t = u
      BY DEF OneAtATime
    <2>1. CASE t \in live /\ u \in live
      BY <1>1, <2>1 DEF OneAtATime
    <2>2. CASE t \in born /\ u \in born
      BY <2>2
    <2>3. \A v \in live : v[2] \in Declares => v[2] \in doubled'
      BY <1>1 DEF Runs
    <2> QED  BY <1>1, <1>3, <2>1, <2>2, <2>3
  <1>7. CountsAddUp' /\ MemoryIsFresh' /\ CheckHolds'
    BY <1>1, <1>3 DEF CountsAddUp, Held, MemoryIsFresh, CheckHolds
  <1> QED  BY <1>4, <1>5, <1>6, <1>7

\* An instance has stopped: nothing of it is left but what it committed.
LEMMA RetireKeeps ==
  ASSUME Inductive, NEW t \in Thread, Retire(t)
  PROVE  Inductive'
  <1> USE DEF Inductive
  <1>1. /\ t \in live /\ pc[t] = "ready" /\ live' = live \ {t}
        /\ pc' = [pc EXCEPT ![t] = "load"] /\ mem' = [mem EXCEPT ![t] = 0]
        /\ UNCHANGED <<disk, writer, file, gen, op, reclaim, edits, landed, doubled, bereft>>
    BY DEF Retire, Outgoing, storeVars, history
  <1>2. TypeOK'
    BY <1>1, ThreadShape DEF TypeOK, Count
  <1>3. Threads' /\ OneAtATime' /\ CountsAddUp' /\ MemoryIsFresh' /\ CheckHolds'
    BY <1>1 DEF TypeOK, Threads, OneAtATime, CountsAddUp, MemoryIsFresh, CheckHolds, Held, Declares
  <1> QED  BY <1>2, <1>3

\* The process ends: what was not committed is gone, with the thread that held it.
LEMMA KilledKeeps ==
  ASSUME Inductive, Killed
  PROVE  Inductive'
  <1> USE DEF Inductive
  <1>1. /\ writer' = None /\ live' = {} /\ reclaim' = None /\ op' = "spawn"
        /\ pc' = [t \in Thread |-> "load"] /\ mem' = [t \in Thread |-> 0]
        /\ UNCHANGED <<disk, file, gen, edits, landed, doubled, bereft>>
    BY DEF Killed, history
  <1>2. TypeOK'
    BY <1>1, ThreadShape DEF TypeOK, Count
  <1>3. Threads' /\ OneAtATime' /\ CountsAddUp' /\ MemoryIsFresh' /\ CheckHolds'
    BY <1>1 DEF Threads, OneAtATime, CountsAddUp, MemoryIsFresh, CheckHolds, Held
  <1> QED  BY <1>2, <1>3

\* An orphan's namespace is cleared, and its count starts again.
LEMMA ClearKeeps ==
  ASSUME Inductive, NEW n \in Ns, Clear(n)
  PROVE  Inductive' /\ \A m \in Ns : disk[m] # Absent /\ disk'[m] = Absent =>
                            edits > 0 \/ (file # Broken /\ m \notin Declares)
  <1> USE DEF Inductive
  <1>1. /\ reclaim = n /\ reclaim' = None
        /\ disk' = [disk EXCEPT ![n] = Absent] /\ landed' = [landed EXCEPT ![n] = 0]
        /\ bereft' = IF Runs(n) # {} THEN bereft \cup {n} ELSE bereft
        /\ UNCHANGED <<writer, file, gen, live, pc, mem, op, edits, doubled>>
    BY DEF Clear, threadVars
  <1>2. TypeOK'
    BY <1>1 DEF TypeOK
  <1>3. Threads' /\ OneAtATime' /\ CheckHolds'
    BY <1>1 DEF Threads, OneAtATime, CheckHolds
  <1>4. CountsAddUp'
    BY <1>1 DEF TypeOK, CountsAddUp, Held
  <1>5. MemoryIsFresh'
    BY <1>1 DEF TypeOK, Thread, MemoryIsFresh, Runs
  <1>6. \A m \in Ns : m # n => disk'[m] = disk[m]
    BY <1>1 DEF TypeOK
  <1>7. edits > 0 \/ (file # Broken /\ n \notin Declares)
    BY <1>1, ThreadShape DEF CheckHolds
  <1> QED  BY <1>2, <1>3, <1>4, <1>5, <1>6, <1>7

-----------------------------------------------------------------------------
(* The theorems.                                                           *)

\* The property of a step that ReclaimSparesTheDeclared is about.
Spares ==
    \A n \in Ns : disk[n] # Absent /\ disk'[n] = Absent =>
        edits > 0 \/ (file # Broken /\ n \notin Declares)

\* A first boot has nothing stored and nobody running.
LEMMA InitInductive == Init => Inductive
  BY StateAssumption
     DEF Init, Inductive, TypeOK, Threads, OneAtATime, CountsAddUp, MemoryIsFresh, CheckHolds,
         Held, Files, Count

\* Every step keeps the invariant, and clears no namespace that is declared.
LEMMA NextInductive == Inductive /\ [Next]_vars => Inductive' /\ Spares
  <1> SUFFICES ASSUME Inductive, [Next]_vars PROVE Inductive' /\ Spares
    OBVIOUS
  <1>1. CASE \E t \in Thread : Instance(t)
    <2>1. PICK t \in Thread : Instance(t)
      BY <1>1
    <2>2. CASE Load(t) \/ Begin(t)
      <3>1. Inductive' /\ disk' = disk
        BY <2>1, <2>2, LoadKeeps, BeginKeeps DEF Instance, Load, Begin, storeVars
      <3> QED  BY <3>1 DEF Spares
    <2>3. CASE Commit(t)
      BY <2>1, <2>3, CommitKeeps DEF Instance, Spares
    <2> QED  BY <2>1, <2>2, <2>3 DEF Instance
  <1>2. CASE \E t \in Thread : Retire(t)
    BY <1>2, RetireKeeps DEF Retire, storeVars, Spares
  <1>3. CASE \/ \E definition \in {file} \cup Definitions : Put(definition)
             \/ PutFails \/ Stop \/ Delete \/ Retired
             \/ \E definition \in Files : Edit(definition)
             \/ \E n \in Ns : Reclaim(n)
    BY <1>3, DecisionsKeep DEF Spares
  <1>4. CASE Spawn
    BY <1>4, SpawnKeeps DEF Spawn, storeVars, Spares
  <1>5. CASE Killed
    BY <1>5, KilledKeeps DEF Killed, Spares
  <1>6. CASE \E n \in Ns : Clear(n)
    BY <1>6, ClearKeeps DEF Spares
  <1>7. CASE UNCHANGED vars
    <2>1. UNCHANGED <<storeVars, file, gen, threadVars, op, reclaim, edits, history>>
      BY <1>7 DEF vars
    <2>2. CheckHolds'
      BY <2>1 DEF Inductive, CheckHolds, Declares
    <2>3. Inductive' /\ disk' = disk
      BY <2>1, <2>2, LifecycleKeeps DEF Inductive, TypeOK, storeVars
    <2> QED  BY <2>3 DEF Spares
  <1> QED  BY <1>1, <1>2, <1>3, <1>4, <1>5, <1>6, <1>7 DEF Next, Rest

\* The invariant holds throughout (state.rs, boot.rs, api/state.rs).
THEOREM StateInvariance == Spec => []Inductive
  <1>1. Inductive /\ [Next]_vars => Inductive'
    BY NextInductive
  <1> QED  BY InitInductive, <1>1, PTL DEF Spec

\* No increment is lost or counted twice, through failed commits, kills and reboots
\* (`state_put`, Namespace::get).
THEOREM CountsAddUpHolds == Spec => []CountsAddUp
  <1>1. Inductive => CountsAddUp
    BY DEF Inductive
  <1> QED  BY <1>1, StateInvariance, PTL

\* A DELETE clears no namespace that the file declares while it clears it, unless the
\* file was edited behind the daemon (api/state.rs, `reclaim`).
THEOREM ReclaimSparesTheDeclaredHolds == Spec => ReclaimSparesTheDeclared
  <1>1. Inductive /\ [Next]_vars => [Spares]_vars
    BY NextInductive
  <1> QED  BY <1>1, StateInvariance, PTL DEF Spec, ReclaimSparesTheDeclared, Spares
=============================================================================
