---------------------------- MODULE RouterProofs ----------------------------
(***************************************************************************)
(* Theorems about the router, for every graph, depth and bound, and about  *)
(* the service that spawns and stops it.                                   *)
(*                                                                         *)
(* The inductive invariant is Router's Inductive.  Its first part, Machine,*)
(* is about mailboxes and threads: a step touches the mailboxes through    *)
(* one of the operations Post, Queue, PostGranted, Pop and Close, so the   *)
(* mailbox part is proved once per operation and the thread part once per  *)
(* action.                                                                 *)
(*                                                                         *)
(* The rest, Custody, says where a batch is from its emission to its fate: *)
(* that the fates speak of emissions only, that a mailbox holds what was   *)
(* delivered to its owner, and that every batch accepted and not settled   *)
(* is in one place.  A mailbox operation moves a batch into a place, out   *)
(* of one, or throws all of a queue away: again it is proved once per      *)
(* operation, here of the count of a batch in a queue, and then once per   *)
(* action.  From both follow the safety properties, the refinement of      *)
(* module Channels, and the theorems of module Service.                    *)
(***************************************************************************)
EXTENDS Service, TLAPS, FiniteSetTheorems, SequenceTheorems, FunctionTheorems

-----------------------------------------------------------------------------
(* Sets of senders are finite, so they can be counted.                     *)

\* Whatever set of senders a mailbox has promised a place to, it is finite.
LEMMA SendersFinite ==
  ASSUME NEW S \in SUBSET Sender
  PROVE  IsFiniteSet(S)
  <1>1. IsFiniteSet(1..N)
    BY FS_Interval, SizeAssumption
  <1>2. IsFiniteSet(Sender)
    BY <1>1, FS_AddElement DEF Sender, Instance, Svc
  <1> QED  BY <1>2, FS_Subset

-----------------------------------------------------------------------------
(* The mailbox operations keep the accounts of every open mailbox.         *)

Mailboxes == QueueTypeOK /\ NoLostWakeup /\ InLineOnce

\* No thread that had ended is back.
OnlyClosing == \A k \in Instance : Open(k)' => Open(k)

\* A mailbox none of whose parts changes keeps its account.
LEMMA QueuesUnchanged ==
  ASSUME Mailboxes, OnlyClosing, UNCHANGED queueVars
  PROVE  Mailboxes'
  BY DEF Mailboxes, OnlyClosing, queueVars, QueueTypeOK, NoLostWakeup, InLineOnce

\* Posting takes a free place.
LEMMA PostKeepsMailboxes ==
  ASSUME Mailboxes, OnlyClosing, NEW j \in Instance, NEW w \in Work, Post(j, w)
  PROVE  Mailboxes'
  <1> USE DEF Mailboxes
  <1>1. QueueTypeOK'
    BY DEF Post, QueueTypeOK
  <1>2. NoLostWakeup'
    <2> SUFFICES ASSUME NEW k \in Instance, Open(k)'
                 PROVE  /\ permits'[k] + Len(mbox'[k]) + Cardinality(granted'[k]) = Depth
                        /\ waiters'[k] # <<>> => permits'[k] = 0
      BY DEF NoLostWakeup
    <2>1. IsFiniteSet(granted[k])
      BY SendersFinite DEF QueueTypeOK
    <2>2. Cardinality(granted[k]) \in Nat
      BY <2>1, FS_CardinalityType
    <2>3. Open(k)
      BY DEF OnlyClosing
    <2>4. CASE k = j
      <3>1. permits'[k] = permits[k] - 1
        BY <2>4 DEF Post, QueueTypeOK
      <3>2. Len(mbox'[k]) = Len(mbox[k]) + 1 /\ Len(mbox[k]) \in Nat
        BY <2>4 DEF Post, QueueTypeOK
      <3>3. waiters[k] = <<>> /\ permits[k] \in Nat
        BY <2>3, <2>4 DEF Post, QueueTypeOK, NoLostWakeup
      <3>4. permits[k] + Len(mbox[k]) + Cardinality(granted[k]) = Depth
        BY <2>3 DEF NoLostWakeup
      <3>5. granted'[k] = granted[k] /\ waiters'[k] = waiters[k]
        BY DEF Post
      <3>6. permits'[k] + Len(mbox'[k]) + Cardinality(granted[k]) = Depth
        BY <2>2, <3>1, <3>2, <3>3, <3>4, SizeAssumption, SMTT(30)
      <3> QED  BY <3>3, <3>5, <3>6
    <2>5. CASE k # j
      BY <2>3, <2>5 DEF Post, QueueTypeOK, NoLostWakeup
    <2> QED  BY <2>4, <2>5
  <1>3. InLineOnce'
    BY DEF Post, InLineOnce, OnlyClosing
  <1> QED  BY <1>1, <1>2, <1>3

\* Queueing needs a full mailbox and a sender that is not in line.
LEMMA QueueKeepsMailboxes ==
  ASSUME Mailboxes, OnlyClosing, NEW j \in Instance, NEW s \in Sender,
         ~Waiting(s, j), Queue(s, j)
  PROVE  Mailboxes'
  <1> USE DEF Mailboxes
  <1>1. QueueTypeOK'
    BY DEF Queue, QueueTypeOK
  <1>2. NoLostWakeup'
    BY DEF Queue, QueueTypeOK, NoLostWakeup, OnlyClosing
  <1>3. InLineOnce'
    BY DEF Queue, Waiting, InLineOnce, OnlyClosing, QueueTypeOK
  <1> QED  BY <1>1, <1>2, <1>3

\* A woken sender turns its place into an item.
LEMMA PostGrantedKeepsMailboxes ==
  ASSUME Mailboxes, OnlyClosing, NEW j \in Instance, NEW s \in Sender,
         NEW w \in Work, PostGranted(s, j, w)
  PROVE  Mailboxes'
  <1> USE DEF Mailboxes
  <1>1. QueueTypeOK'
    BY DEF PostGranted, QueueTypeOK
  <1>2. NoLostWakeup'
    <2> SUFFICES ASSUME NEW k \in Instance, Open(k)'
                 PROVE  /\ permits'[k] + Len(mbox'[k]) + Cardinality(granted'[k]) = Depth
                        /\ waiters'[k] # <<>> => permits'[k] = 0
      BY DEF NoLostWakeup
    <2>1. IsFiniteSet(granted[k])
      BY SendersFinite DEF QueueTypeOK
    <2>2. Cardinality(granted[k]) \in Nat
      BY <2>1, FS_CardinalityType
    <2>3. Open(k)
      BY DEF OnlyClosing
    <2>4. CASE k = j
      <3>1. Cardinality(granted[k] \ {s}) = Cardinality(granted[k]) - 1
        BY <2>1, <2>4, FS_RemoveElement DEF PostGranted
      <3>2. /\ permits'[k] = permits[k] /\ granted'[k] = granted[k] \ {s}
            /\ waiters'[k] = waiters[k]
        BY <2>4 DEF PostGranted, QueueTypeOK
      <3>3. Len(mbox'[k]) = Len(mbox[k]) + 1 /\ Len(mbox[k]) \in Nat
        BY <2>4 DEF PostGranted, QueueTypeOK
      <3>4. /\ permits[k] + Len(mbox[k]) + Cardinality(granted[k]) = Depth
            /\ waiters[k] # <<>> => permits[k] = 0
            /\ permits[k] \in Nat
        BY <2>3 DEF NoLostWakeup, QueueTypeOK
      <3> QED  BY <2>2, <3>1, <3>2, <3>3, <3>4, SizeAssumption, SMTT(30)
    <2>5. CASE k # j
      BY <2>3, <2>5 DEF PostGranted, QueueTypeOK, NoLostWakeup
    <2> QED  BY <2>4, <2>5
  <1>3. InLineOnce'
    BY DEF PostGranted, InLineOnce, OnlyClosing, QueueTypeOK
  <1> QED  BY <1>1, <1>2, <1>3

\* Taking an item frees its place or hands it to the first in line.
LEMMA PopKeepsMailboxes ==
  ASSUME Mailboxes, OnlyClosing, NEW j \in Instance, Pop(j)
  PROVE  Mailboxes'
  <1> USE DEF Mailboxes
  <1>1. QueueTypeOK'
    <2>1. mbox' \in [Instance -> Seq(Work)]
      <3>1. mbox[j] \in Seq(Work) /\ mbox[j] # <<>>
        BY DEF Pop, QueueTypeOK
      <3>2. Tail(mbox[j]) \in Seq(Work)
        BY <3>1, HeadTailProperties
      <3> QED  BY <3>2 DEF Pop, QueueTypeOK
    <2>2. CASE waiters[j] = <<>>
      <3>1. /\ permits' = [permits EXCEPT ![j] = permits[j] + 1]
            /\ waiters' = waiters
            /\ granted' = granted
        BY <2>2 DEF Pop
      <3>2. permits[j] + 1 \in Nat
        BY DEF QueueTypeOK
      <3> QED  BY <2>1, <3>1, <3>2 DEF QueueTypeOK
    <2>3. CASE waiters[j] # <<>>
      <3>1. Head(waiters[j]) \in Sender /\ Tail(waiters[j]) \in Seq(Sender)
        BY <2>3, HeadTailProperties DEF QueueTypeOK
      <3>2. /\ granted' = [granted EXCEPT ![j] = granted[j] \cup {Head(waiters[j])}]
            /\ waiters' = [waiters EXCEPT ![j] = Tail(waiters[j])]
            /\ permits' = permits
        BY <2>3 DEF Pop
      <3>3. granted' \in [Instance -> SUBSET Sender]
        BY <3>1, <3>2 DEF QueueTypeOK
      <3>4. waiters' \in [Instance -> Seq(Sender)]
        BY <3>1, <3>2 DEF QueueTypeOK
      <3> QED  BY <2>1, <3>2, <3>3, <3>4 DEF QueueTypeOK
    <2> QED  BY <2>2, <2>3
  <1>2. NoLostWakeup'
    <2> SUFFICES ASSUME NEW k \in Instance, Open(k)'
                 PROVE  /\ permits'[k] + Len(mbox'[k]) + Cardinality(granted'[k]) = Depth
                        /\ waiters'[k] # <<>> => permits'[k] = 0
      BY DEF NoLostWakeup
    <2>1. IsFiniteSet(granted[k])
      BY SendersFinite DEF QueueTypeOK
    <2>2. Cardinality(granted[k]) \in Nat
      BY <2>1, FS_CardinalityType
    <2>3. Open(k)
      BY DEF OnlyClosing
    <2>0. /\ permits[k] + Len(mbox[k]) + Cardinality(granted[k]) = Depth
          /\ waiters[k] # <<>> => permits[k] = 0
          /\ permits[k] \in Nat
      BY <2>3 DEF NoLostWakeup, QueueTypeOK
    <2>7. Len(mbox'[j]) = Len(mbox[j]) - 1 /\ Len(mbox[j]) \in Nat
      <3>1. mbox'[j] = Tail(mbox[j]) /\ mbox[j] # <<>> /\ mbox[j] \in Seq(Work)
        BY DEF Pop, QueueTypeOK
      <3> QED  BY <3>1, EmptySeq, TailIsSubSeq, SubSeqProperties, LenProperties
    <2>4. CASE k = j /\ waiters[j] = <<>>
      <3>1. /\ permits'[k] = permits[k] + 1 /\ granted'[k] = granted[k]
            /\ waiters'[k] = <<>>
        BY <2>4 DEF Pop, QueueTypeOK
      <3>2. Cardinality(granted'[k]) = Cardinality(granted[k])
        BY <3>1
      <3>3. permits'[k] + Len(mbox'[k]) + Cardinality(granted'[k]) = Depth
        BY <2>0, <2>2, <2>4, <2>7, <3>1, <3>2, SMTT(30)
      <3> QED  BY <3>1, <3>3
    <2>5. CASE k = j /\ waiters[j] # <<>>
      <3>1. Head(waiters[j]) = waiters[j][1] /\ 1 \in DOMAIN waiters[j]
        BY <2>5 DEF QueueTypeOK
      <3>2. Head(waiters[j]) \notin granted[j]
        BY <2>3, <2>5, <3>1 DEF InLineOnce
      <3>3. Cardinality(granted[k] \cup {Head(waiters[j])}) = Cardinality(granted[k]) + 1
        BY <2>1, <2>5, <3>2, FS_AddElement
      <3>4. /\ permits'[k] = permits[k]
            /\ granted'[k] = granted[k] \cup {Head(waiters[j])}
        BY <2>5 DEF Pop, QueueTypeOK
      <3> QED  BY <2>0, <2>2, <2>5, <2>7, <3>3, <3>4, SizeAssumption, SMTT(30)
    <2>6. CASE k # j
      BY <2>3, <2>6 DEF Pop, QueueTypeOK, NoLostWakeup
    <2> QED  BY <2>4, <2>5, <2>6
  <1>3. InLineOnce'
    <2> SUFFICES ASSUME NEW k \in Instance, Open(k)', NEW x \in DOMAIN waiters'[k]
                 PROVE  /\ waiters'[k][x] \notin granted'[k]
                        /\ \A y \in DOMAIN waiters'[k] : y # x => waiters'[k][y] # waiters'[k][x]
      BY DEF InLineOnce
    <2>1. Open(k)
      BY DEF OnlyClosing
    <2>2. CASE k = j /\ waiters[j] # <<>>
      <3>1. waiters'[j] = Tail(waiters[j]) /\ granted'[j] = granted[j] \cup {waiters[j][1]}
        BY <2>2 DEF Pop, QueueTypeOK
      <3>2. \A z \in DOMAIN waiters'[j] :
               /\ z + 1 \in DOMAIN waiters[j]
               /\ z + 1 # 1
               /\ waiters'[j][z] = waiters[j][z + 1]
        BY <2>2, <3>1 DEF QueueTypeOK
      <3>3. 1 \in DOMAIN waiters[j]
        BY <2>2 DEF QueueTypeOK
      <3>4. \A y \in DOMAIN waiters'[j] : y # x => y + 1 # x + 1
        BY <2>2 DEF Pop, QueueTypeOK
      <3> QED  BY <2>1, <2>2, <3>1, <3>2, <3>3, <3>4 DEF InLineOnce
    <2>3. CASE ~(k = j /\ waiters[j] # <<>>)
      BY <2>1, <2>3 DEF Pop, InLineOnce, QueueTypeOK
    <2> QED  BY <2>2, <2>3
  <1> QED  BY <1>1, <1>2, <1>3

\* A closed mailbox owes nobody anything.
LEMMA CloseKeepsMailboxes ==
  ASSUME Mailboxes, pc \in [Instance -> PC], NEW i \in Instance, Close(i)
  PROVE  Mailboxes' /\ OnlyClosing
  <1> USE DEF Mailboxes
  <1>1. QueueTypeOK'
    BY DEF Close, QueueTypeOK
  <1>2. \A k \in Instance : Open(k)' => k # i /\ Open(k)
    BY DEF Close, Open
  <1>3. NoLostWakeup'
    BY <1>2 DEF Close, QueueTypeOK, NoLostWakeup
  <1>4. InLineOnce'
    BY <1>2 DEF Close, QueueTypeOK, InLineOnce
  <1> QED  BY <1>1, <1>2, <1>3, <1>4 DEF OnlyClosing

-----------------------------------------------------------------------------
(* What the threads hold, and the shapes of what they handle.              *)

FateTypeOK == fate \in [Conn -> [Serial -> Fate]]

Threads == ThreadTypeOK /\ FateTypeOK /\ Rounds

\* Machine, cut into the part of the threads and the part of the mailboxes.
LEMMA TwoParts ==
  /\ Machine <=> Threads /\ Mailboxes
  /\ Machine' <=> Threads' /\ Mailboxes'
  BY DEF Machine, TypeOK, Threads, FateTypeOK, Mailboxes

\* A connection joins two instances.
LEMMA RouteEnds ==
  ASSUME NEW c \in Conn
  PROVE  From(c) \in Instance /\ To(c) \in Instance
  <1>1. Table[c] \in Route
    BY TableAssumption, ElementOfSeq, LenProperties DEF Conn
  <1> QED  BY <1>1 DEF Route, From, To

\* A copy of an emission is a work item.
LEMMA DeliveryIsWork ==
  ASSUME NEW c \in Conn, NEW n \in Serial
  PROVE  Delivery(c, n) \in Work
  BY DEF Delivery, Work

\* The emissions of a callback, appended to the earlier ones.
LEMMA CollectType ==
  ASSUME ThreadTypeOK, NEW i \in Instance, NEW e \in Bursts(i)
  PROVE  /\ emitted[i] \o e \in Seq(Port)
         /\ Len(emitted[i] \o e) \in Nat
         /\ Len(emitted[i]) <= Len(emitted[i] \o e)
         /\ Len(emitted[i] \o e) <= MaxEmit
  <1>1. PICK k \in 0..MaxBurst : e \in [1..k -> Outputs[i]]
    BY DEF Bursts
  <1>2. e \in [1..k -> Port] /\ k \in Nat
    BY <1>1, TableAssumption, SizeAssumption
  <1>3. e \in Seq(Port)
    BY <1>2, SeqDef
  <1>4. emitted[i] \in Seq(Port)
    BY DEF ThreadTypeOK
  <1>5. Len(e) \in Nat /\ Len(emitted[i]) \in Nat
    BY <1>3, <1>4, LenProperties
  <1>6. /\ emitted[i] \o e \in Seq(Port)
        /\ Len(emitted[i] \o e) = Len(emitted[i]) + Len(e)
    BY <1>3, <1>4, ConcatProperties
  <1>7. Len(emitted[i]) + Len(e) <= Emits[i]
    BY DEF Bursts
  <1>8. Emits[i] \in 0..MaxEmit
    BY TableAssumption
  <1> QED  BY <1>5, <1>6, <1>7, <1>8, SizeAssumption

\* Accepting emissions changes fates to fates.
LEMMA AcceptType ==
  ASSUME NEW i, NEW e, NEW f \in [Conn -> [Serial -> Fate]]
  PROVE  Accept(i, e, f) \in [Conn -> [Serial -> Fate]]
  BY DEF Accept, Fate

\* And so does settling one.
LEMMA SettleType ==
  ASSUME FateTypeOK, NEW c, NEW n, NEW what \in Fate
  PROVE  Settle(c, n, what) \in [Conn -> [Serial -> Fate]]
  BY DEF Settle, FateTypeOK

-----------------------------------------------------------------------------
(* The thread part, one lemma for what several actions share ...           *)

\* A callback of a thread that was between rounds opens one.
LEMMA CallbackKeepsThreads ==
  ASSUME Threads, NEW i \in Instance, NEW e \in Bursts(i),
         NEW f \in [Conn -> [Serial -> Fate]],
         NEW next \in {"routing", "closing"},
         pc[i] \in {"starting", "idle"},
         Callback(i, e, f, next),
         UNCHANGED <<cursor, todo, held, asked, unrouted>>,
         up' = up \/ up' = up \cup {i}
  PROVE  Threads' /\ OnlyClosing
  <1> USE DEF Threads
  <1>1. /\ pc' = [pc EXCEPT ![i] = next]
        /\ emitted' = [emitted EXCEPT ![i] = emitted[i] \o e]
        /\ retry' = [retry EXCEPT ![i] = {c \in Outgoing(i) : held[c] # 0}]
        /\ fate' = Accept(i, e, f)
    BY DEF Callback, Collect, BeginRound
  <1>2. ThreadTypeOK'
    <2>1. emitted' \in [Instance -> Seq(Port)]
      BY <1>1, CollectType DEF ThreadTypeOK
    <2>2. \A k \in Instance : cursor'[k] <= Len(emitted'[k]) /\ Len(emitted'[k]) <= MaxEmit
      <3> SUFFICES ASSUME NEW k \in Instance
                   PROVE  cursor'[k] <= Len(emitted'[k]) /\ Len(emitted'[k]) <= MaxEmit
        OBVIOUS
      <3>1. CASE k = i
        <4>1. emitted'[i] = emitted[i] \o e
          BY <1>1 DEF ThreadTypeOK
        <4>2. cursor[i] \in Nat /\ Len(emitted[i]) \in Nat /\ cursor[i] <= Len(emitted[i])
          BY LenProperties DEF ThreadTypeOK
        <4> QED  BY <3>1, <4>1, <4>2, CollectType
      <3>2. CASE k # i
        BY <1>1, <3>2 DEF ThreadTypeOK
      <3> QED  BY <3>1, <3>2
    <2>3. pc' \in [Instance -> PC] /\ retry' \in [Instance -> SUBSET Conn]
      BY <1>1 DEF ThreadTypeOK, PC, Outgoing
    <2> QED  BY <2>1, <2>2, <2>3 DEF ThreadTypeOK
  <1>3. FateTypeOK'
    BY <1>1, AcceptType DEF FateTypeOK
  <1>4. Rounds'
    <2> SUFFICES ASSUME NEW k \in Instance
                 PROVE  /\ todo'[k] # {} => cursor'[k] > 0
                        /\ \A c \in todo'[k] : From(c) = k
                        /\ \A c \in retry'[k] : From(c) = k /\ held'[c] > 0
                        /\ ~Routing(k)' => retry'[k] = {} /\ todo'[k] = {}
                        /\ ~Routing(k)' /\ (pc'[k] = "ended" => k \in up')
                             => cursor'[k] = Len(emitted'[k])
                        /\ k \in up' => pc'[k] \notin {"unborn", "starting"}
      BY DEF Rounds, Routing
    <2>1. CASE k = i
      <3>1. pc'[k] = next /\ retry'[k] = {c \in Outgoing(i) : held[c] # 0}
        BY <1>1, <2>1 DEF ThreadTypeOK
      <3>2. \A c \in retry'[k] : From(c) = k /\ held'[c] > 0
        BY <2>1, <3>1, SizeAssumption DEF Outgoing, ThreadTypeOK
      <3> QED  BY <2>1, <3>1, <3>2 DEF Rounds, Routing
    <2>2. CASE k # i
      <3>1. /\ pc'[k] = pc[k] /\ retry'[k] = retry[k] /\ emitted'[k] = emitted[k]
            /\ k \in up' <=> k \in up
        BY <1>1, <2>2 DEF ThreadTypeOK
      <3> QED  BY <3>1 DEF Rounds, Routing
    <2> QED  BY <2>1, <2>2
  <1>5. OnlyClosing
    BY <1>1 DEF OnlyClosing, Open, ThreadTypeOK
  <1> QED  BY <1>2, <1>3, <1>4, <1>5

\* A step that leaves the threads alone.
LEMMA ThreadsUnchanged ==
  ASSUME Threads, UNCHANGED <<threadVars, fate>>,
         asked' = asked \/ \E i \in Instance : asked' = asked \cup {i}
  PROVE  Threads' /\ OnlyClosing
  <1>1. ThreadTypeOK'
    BY DEF Threads, ThreadTypeOK, threadVars
  <1>2. FateTypeOK' /\ OnlyClosing
    BY DEF Threads, FateTypeOK, OnlyClosing, Open, threadVars
  <1>3. Rounds'
    BY DEF Threads, Rounds, Routing, threadVars
  <1> QED  BY <1>1, <1>2, <1>3 DEF Threads

-----------------------------------------------------------------------------
(* ... then one per action.                                                *)

\* A thread is created: nothing it could be amid exists yet.
LEMMA SpawnKeeps ==
  ASSUME Machine, NEW i \in Instance, Spawn(i)
  PROVE  Machine'
  <1> USE DEF Spawn
  <1>1. Threads /\ Mailboxes
    BY TwoParts
  <1>2. ThreadTypeOK' /\ FateTypeOK'
    BY <1>1 DEF Threads, ThreadTypeOK, FateTypeOK, PC
  <1>3. Rounds'
    BY <1>1 DEF Threads, ThreadTypeOK, Rounds, Routing
  <1>4. OnlyClosing
    BY <1>1 DEF Threads, ThreadTypeOK, OnlyClosing, Open
  <1> QED  BY <1>1, <1>2, <1>3, <1>4, QueuesUnchanged, TwoParts DEF Threads

\* The last step of a thread, with the outlet it drops.
LEMMA EndKeeps ==
  ASSUME Machine, NEW i \in Instance, End(i),
         UNCHANGED <<emitted, cursor, todo, retry, unrouted, up, asked>>,
         retry[i] = {}, todo[i] = {},
         i \in up => pc[i] = "closing" /\ cursor[i] = Len(emitted[i])
  PROVE  Machine'
  <1>1. Threads /\ Mailboxes
    BY TwoParts
  <1>2. pc' = [pc EXCEPT ![i] = "ended"] /\ Close(i)
    BY DEF End, Close
  <1>3. ThreadTypeOK'
    BY <1>1, <1>2, SizeAssumption DEF End, Threads, ThreadTypeOK, PC
  <1>4. FateTypeOK'
    BY <1>1 DEF End, Threads, FateTypeOK, Fate
  <1>5. Rounds'
    <2> SUFFICES ASSUME NEW k \in Instance
                 PROVE  /\ todo'[k] # {} => cursor'[k] > 0
                        /\ \A c \in todo'[k] : From(c) = k
                        /\ \A c \in retry'[k] : From(c) = k /\ held'[c] > 0
                        /\ ~Routing(k)' => retry'[k] = {} /\ todo'[k] = {}
                        /\ ~Routing(k)' /\ (pc'[k] = "ended" => k \in up')
                             => cursor'[k] = Len(emitted'[k])
                        /\ k \in up' => pc'[k] \notin {"unborn", "starting"}
      BY DEF Rounds, Routing
    <2>1. CASE k = i
      BY <1>1, <1>2, <2>1 DEF Threads, ThreadTypeOK, Rounds, Routing
    <2>2. CASE k # i
      <3>1. \A c \in retry[k] : c \in Conn /\ From(c) # i
        BY <1>1, <2>2 DEF Threads, ThreadTypeOK, Rounds
      <3>2. \A c \in retry[k] : held'[c] = held[c]
        BY <3>1 DEF End
      <3>3. pc'[k] = pc[k]
        BY <1>1, <1>2, <2>2 DEF Threads, ThreadTypeOK
      <3> QED  BY <1>1, <3>2, <3>3 DEF Threads, Rounds, Routing
    <2> QED  BY <2>1, <2>2
  <1>6. Mailboxes'
    BY <1>1, <1>2, CloseKeepsMailboxes DEF Threads, ThreadTypeOK
  <1> QED  BY <1>3, <1>4, <1>5, <1>6, TwoParts DEF Threads

\* An instance that never ran has nothing emitted and nobody amid a round.
LEMMA AbandonKeeps ==
  ASSUME Machine, NEW i \in Instance, Abandon(i)
  PROVE  Machine'
  <1>1. Rounds /\ pc[i] = "unborn"
    BY DEF Abandon, Machine
  <1>2. i \notin up /\ retry[i] = {} /\ todo[i] = {}
    BY <1>1 DEF Rounds, Routing
  <1> QED  BY <1>2, EndKeeps DEF Abandon

\* The callbacks of a start open the first round of a thread.
LEMMA StartKeeps ==
  ASSUME Machine, NEW i \in Instance, Start(i)
  PROVE  Machine'
  <1>1. Threads /\ Mailboxes
    BY TwoParts
  <1>2. PICK e \in Bursts(i) : Callback(i, e, fate, "routing")
    BY DEF Start
  <1>3. Threads' /\ OnlyClosing
    BY <1>1, <1>2, CallbackKeepsThreads DEF Start, Threads, FateTypeOK
  <1> QED  BY <1>1, <1>3, QueuesUnchanged, TwoParts DEF Start

\* A thread that did not come up ends with its emissions unrouted, and was never up.
LEMMA StartFailsKeeps ==
  ASSUME Machine, NEW i \in Instance, StartFails(i)
  PROVE  Machine'
  <1>1. Threads /\ Mailboxes
    BY TwoParts
  <1>2. PICK e \in Bursts(i) :
           /\ Collect(i, e)
           /\ fate' = [c \in Conn |-> [n \in Serial |->
                 IF Queued(i, c, n) THEN "withQueue"
                 ELSE IF From(c) = i /\ Accept(i, e, fate)[c][n] = "accepted"
                 THEN "withStart" ELSE fate[c][n]]]
    BY DEF StartFails
  <1>3. /\ pc' = [pc EXCEPT ![i] = "ended"]
        /\ emitted' = [emitted EXCEPT ![i] = emitted[i] \o e]
        /\ UNCHANGED <<cursor, todo, retry, held, up, asked, unrouted>>
        /\ i \notin up
    BY <1>1, <1>2 DEF StartFails, Close, Collect, Threads, Rounds
  <1>4. ThreadTypeOK'
    <2>1. emitted' \in [Instance -> Seq(Port)]
      BY <1>1, <1>3, CollectType DEF Threads, ThreadTypeOK
    <2>2. \A k \in Instance : cursor'[k] <= Len(emitted'[k]) /\ Len(emitted'[k]) <= MaxEmit
      <3> SUFFICES ASSUME NEW k \in Instance
                   PROVE  cursor'[k] <= Len(emitted'[k]) /\ Len(emitted'[k]) <= MaxEmit
        OBVIOUS
      <3>1. CASE k = i
        <4>1. emitted'[i] = emitted[i] \o e
          BY <1>1, <1>3 DEF Threads, ThreadTypeOK
        <4>2. cursor[i] \in Nat /\ Len(emitted[i]) \in Nat /\ cursor[i] <= Len(emitted[i])
          BY <1>1, LenProperties DEF Threads, ThreadTypeOK
        <4> QED  BY <1>1, <1>3, <3>1, <4>1, <4>2, CollectType DEF Threads
      <3>2. CASE k # i
        BY <1>1, <1>3, <3>2 DEF Threads, ThreadTypeOK
      <3> QED  BY <3>1, <3>2
    <2> QED  BY <1>1, <1>3, <2>1, <2>2 DEF Threads, ThreadTypeOK, PC
  <1>5. FateTypeOK'
    BY <1>1, <1>2 DEF Threads, FateTypeOK, Fate
  <1>6. Rounds'
    <2> SUFFICES ASSUME NEW k \in Instance
                 PROVE  /\ todo'[k] # {} => cursor'[k] > 0
                        /\ \A c \in todo'[k] : From(c) = k
                        /\ \A c \in retry'[k] : From(c) = k /\ held'[c] > 0
                        /\ ~Routing(k)' => retry'[k] = {} /\ todo'[k] = {}
                        /\ ~Routing(k)' /\ (pc'[k] = "ended" => k \in up')
                             => cursor'[k] = Len(emitted'[k])
                        /\ k \in up' => pc'[k] \notin {"unborn", "starting"}
      BY DEF Rounds, Routing
    <2>1. CASE k = i
      BY <1>1, <1>3, <2>1 DEF StartFails, Threads, ThreadTypeOK, Rounds, Routing
    <2>2. CASE k # i
      <3>1. pc'[k] = pc[k] /\ emitted'[k] = emitted[k]
        BY <1>1, <1>3, <2>2 DEF Threads, ThreadTypeOK
      <3> QED  BY <1>1, <1>3, <3>1 DEF Threads, Rounds, Routing
    <2> QED  BY <2>1, <2>2
  <1>7. Mailboxes'
    BY <1>1, CloseKeepsMailboxes DEF StartFails, Threads, ThreadTypeOK
  <1> QED  BY <1>4, <1>5, <1>6, <1>7, TwoParts DEF Threads

\* A callback on a work item opens a round and frees a place in the mailbox.
LEMMA TakeKeeps ==
  ASSUME Machine, NEW i \in Instance,
         TakeBatch(i) \/ TakeTimer(i) \/ TakeStop(i)
  PROVE  Machine'
  <1>1. Threads /\ Mailboxes
    BY TwoParts
  <1>2. /\ pc[i] = "idle"
        /\ Pop(i)
        /\ UNCHANGED <<cursor, todo, held, up, asked, unrouted>>
    BY DEF TakeBatch, TakeTimer, TakeStop
  <1>3. \E e \in Bursts(i), f \in [Conn -> [Serial -> Fate]],
           next \in {"routing", "closing"} : Callback(i, e, f, next)
    <2>1. CASE TakeBatch(i)
      <3>1. \A w : Settle(w.conn, w.serial, "handled") \in [Conn -> [Serial -> Fate]]
        BY <1>1, SettleType DEF Threads, Fate
      <3> QED  BY <2>1, <3>1 DEF TakeBatch
    <2>2. CASE TakeTimer(i) \/ TakeStop(i)
      BY <1>1, <2>2 DEF TakeTimer, TakeStop, Threads, FateTypeOK
    <2> QED  BY <2>1, <2>2
  <1>4. Threads' /\ OnlyClosing
    BY <1>1, <1>2, <1>3, CallbackKeepsThreads
  <1> QED  BY <1>1, <1>2, <1>4, PopKeepsMailboxes, TwoParts

\* A batch of the bridge opens a round and touches no mailbox.
LEMMA ReceiveKeeps ==
  ASSUME Machine, NEW i \in Instance, Receive(i)
  PROVE  Machine'
  <1>1. Threads /\ Mailboxes
    BY TwoParts
  <1>2. PICK e \in Bursts(i) : Callback(i, e, fate, "routing")
    BY DEF Receive
  <1>3. Threads' /\ OnlyClosing
    BY <1>1, <1>2, CallbackKeepsThreads DEF Receive, Threads, FateTypeOK
  <1> QED  BY <1>1, <1>3, QueuesUnchanged, TwoParts DEF Receive

\* A subscriber leaves its loop between two rounds.
LEMMA SubscriberEndsKeeps ==
  ASSUME Machine, NEW i \in Instance, SubscriberStops(i) \/ BridgeGone(i)
  PROVE  Machine'
  <1> USE DEF SubscriberStops, BridgeGone
  <1>1. Threads /\ Mailboxes
    BY TwoParts
  <1>2. ThreadTypeOK' /\ FateTypeOK'
    BY <1>1 DEF Threads, ThreadTypeOK, FateTypeOK, PC
  <1>3. Rounds'
    BY <1>1 DEF Threads, ThreadTypeOK, Rounds, Routing
  <1>4. OnlyClosing
    BY <1>1 DEF Threads, ThreadTypeOK, OnlyClosing, Open
  <1>5. Mailboxes'
    BY <1>1, <1>4, PopKeepsMailboxes, QueuesUnchanged
  <1> QED  BY <1>2, <1>3, <1>5, TwoParts DEF Threads

\* A slot is retried, and the round has one slot less to retry.
LEMMA RetryHeldKeeps ==
  ASSUME Machine, NEW i \in Instance, RetryHeld(i)
  PROVE  Machine'
  <1>1. Threads /\ Mailboxes
    BY TwoParts
  <1>2. PICK c \in retry[i] :
           /\ retry' = [retry EXCEPT ![i] = retry[i] \ {c}]
           /\ \/ /\ fate' = Settle(c, held[c], "gone")
                 /\ held' = [held EXCEPT ![c] = 0]
                 /\ UNCHANGED queueVars
              \/ /\ Post(To(c), Delivery(c, held[c]))
                 /\ held' = [held EXCEPT ![c] = 0]
                 /\ UNCHANGED fate
              \/ UNCHANGED <<held, fate, queueVars>>
    BY DEF RetryHeld
  <1>3. Routing(i) /\ UNCHANGED <<pc, emitted, cursor, todo, unrouted, up, asked>>
    BY DEF RetryHeld
  <1>4. /\ c \in Conn /\ From(c) = i
        /\ held[c] \in Serial
    BY <1>1, SizeAssumption DEF Threads, ThreadTypeOK, Rounds, Serial
  <1>5. \A d \in Conn : d # c => held'[d] = held[d]
    BY <1>1, <1>2 DEF Threads, ThreadTypeOK
  <1>6. ThreadTypeOK'
    <2>1. held' \in [Conn -> 0..MaxEmit]
      BY <1>1, <1>2, SizeAssumption DEF Threads, ThreadTypeOK
    <2> QED  BY <1>1, <1>2, <1>3, <2>1 DEF Threads, ThreadTypeOK
  <1>7. FateTypeOK'
    <2>1. Settle(c, held[c], "gone") \in [Conn -> [Serial -> Fate]]
      BY <1>1, SettleType DEF Threads, Fate
    <2> QED  BY <1>1, <1>2, <2>1 DEF Threads, FateTypeOK
  <1>8. Rounds'
    <2>1. ASSUME NEW k \in Instance, NEW d \in retry'[k]
          PROVE  d # c /\ d \in retry[k] /\ From(d) = k /\ held'[d] > 0
      BY <1>1, <1>2, <1>4, <1>5 DEF Threads, ThreadTypeOK, Rounds
    <2>2. \A k \in Instance : retry'[k] # {} => Routing(k)
      BY <1>1, <1>3, <2>1 DEF Threads, Rounds
    <2> QED  BY <1>1, <1>3, <2>1, <2>2 DEF Threads, Rounds, Routing
  <1>9. OnlyClosing
    BY <1>3 DEF OnlyClosing, Open
  <1>10. Mailboxes'
    BY <1>1, <1>2, <1>4, <1>9, RouteEnds, DeliveryIsWork, PostKeepsMailboxes, QueuesUnchanged
  <1> QED  BY <1>6, <1>7, <1>8, <1>10, TwoParts DEF Threads

\* The emission taken up reaches for connections of its emitter's.
LEMMA NextEmissionKeeps ==
  ASSUME Machine, NEW i \in Instance, NextEmission(i)
  PROVE  Machine'
  <1>1. Threads /\ Mailboxes
    BY TwoParts
  <1> DEFINE p == emitted[i][cursor[i] + 1]
  <1>2. /\ Routing(i)
        /\ cursor[i] < Len(emitted[i])
        /\ cursor' = [cursor EXCEPT ![i] = cursor[i] + 1]
        /\ todo' = [todo EXCEPT ![i] = Targets(i, p)]
        /\ UNCHANGED <<pc, emitted, retry, held, queueVars, up, asked, fate>>
    BY DEF NextEmission
  <1>3. /\ cursor[i] \in Nat
        /\ \A k \in Instance : k # i => cursor'[k] = cursor[k] /\ todo'[k] = todo[k]
        /\ cursor'[i] = cursor[i] + 1 /\ todo'[i] = Targets(i, p)
    BY <1>1, <1>2 DEF Threads, ThreadTypeOK
  <1>4. unrouted' \in [Instance -> Nat]
    <2>1. unrouted' = [unrouted EXCEPT ![i] = unrouted[i] + 1] \/ unrouted' = unrouted
      BY <1>1 DEF NextEmission, Threads, ThreadTypeOK
    <2>2. unrouted[i] + 1 \in Nat
      BY <1>1 DEF Threads, ThreadTypeOK
    <2> QED  BY <1>1, <2>1, <2>2 DEF Threads, ThreadTypeOK
  <1>5. ThreadTypeOK'
    <2>1. todo' \in [Instance -> SUBSET Conn]
      BY <1>1, <1>2 DEF Threads, ThreadTypeOK, Targets
    <2>2. cursor' \in [Instance -> Nat]
      BY <1>1, <1>2, <1>3 DEF Threads, ThreadTypeOK
    <2>3. \A k \in Instance : cursor'[k] <= Len(emitted'[k]) /\ Len(emitted'[k]) <= MaxEmit
      <3> SUFFICES ASSUME NEW k \in Instance
                   PROVE  cursor'[k] <= Len(emitted'[k]) /\ Len(emitted'[k]) <= MaxEmit
        OBVIOUS
      <3>1. Len(emitted[k]) \in Nat /\ cursor[k] \in Nat
        BY <1>1, LenProperties DEF Threads, ThreadTypeOK
      <3> QED  BY <1>1, <1>2, <1>3, <3>1 DEF Threads, ThreadTypeOK
    <2> QED  BY <1>1, <1>2, <1>4, <2>1, <2>2, <2>3 DEF Threads, ThreadTypeOK
  <1>6. FateTypeOK' /\ OnlyClosing
    BY <1>1, <1>2 DEF Threads, FateTypeOK, OnlyClosing, Open
  <1>7. Rounds'
    BY <1>1, <1>2, <1>3 DEF Threads, Rounds, Routing, Targets
  <1>8. Mailboxes'
    BY <1>1, <1>2, <1>6, QueuesUnchanged
  <1> QED  BY <1>5, <1>6, <1>7, <1>8, TwoParts DEF Threads

\* What the five outcomes of a delivery share on the thread's side: the
\* emission has one connection less to reach, and a slot may hold it.
LEMMA DeliveredKeepsThreads ==
  ASSUME Threads, NEW i \in Instance, NEW c \in todo[i], Routing(i), retry[i] = {},
         Delivered(i, c),
         held' = held \/ held' = [held EXCEPT ![c] = cursor[i]],
         fate' \in [Conn -> [Serial -> Fate]],
         UNCHANGED <<pc, emitted, cursor, retry, unrouted, up, asked>>
  PROVE  Threads' /\ OnlyClosing
  <1> USE DEF Threads
  <1>1. c \in Conn /\ From(c) = i
    BY DEF ThreadTypeOK, Rounds
  <1>2. cursor[i] \in 0..MaxEmit
    <2>1. cursor[i] \in Nat /\ Len(emitted[i]) \in Nat
      BY LenProperties DEF ThreadTypeOK
    <2> QED  BY <2>1, SizeAssumption DEF ThreadTypeOK
  <1>3. ThreadTypeOK'
    BY <1>2 DEF ThreadTypeOK, Delivered
  <1>4. \A k \in Instance : \A d \in retry[k] : d # c /\ held'[d] = held[d]
    BY <1>1 DEF ThreadTypeOK, Rounds
  <1>5. \A k \in Instance : todo'[k] \subseteq todo[k]
    BY DEF Delivered, ThreadTypeOK
  <1>6. Rounds'
    BY <1>4, <1>5 DEF Rounds, Routing
  <1>7. OnlyClosing /\ FateTypeOK'
    BY DEF OnlyClosing, Open, FateTypeOK
  <1> QED  BY <1>3, <1>6, <1>7

\* What a thread that delivers has in its hand.
LEMMA InHandIsWork ==
  ASSUME Threads, NEW i \in Instance, NEW c \in todo[i]
  PROVE  /\ c \in Conn /\ From(c) = i /\ To(c) \in Instance
         /\ Delivery(c, cursor[i]) \in Work
  <1>1. c \in Conn /\ From(c) = i /\ cursor[i] > 0
    BY DEF Threads, ThreadTypeOK, Rounds
  <1>2. cursor[i] \in Nat /\ Len(emitted[i]) \in Nat
    BY LenProperties DEF Threads, ThreadTypeOK
  <1>3. cursor[i] \in Serial
    BY <1>1, <1>2, SizeAssumption DEF Threads, ThreadTypeOK, Serial
  <1> QED  BY <1>1, <1>3, RouteEnds, DeliveryIsWork

\* A delivery posts one item and takes one connection off the round.
LEMMA DeliverNowKeeps ==
  ASSUME Machine, NEW i \in Instance, DeliverNow(i)
  PROVE  Machine'
  <1>1. Threads /\ Mailboxes
    BY TwoParts
  <1>2. PICK c \in todo[i] :
           /\ Delivering(i, c)
           /\ \/ Post(To(c), Delivery(c, cursor[i]))
              \/ PostGranted(i, To(c), Delivery(c, cursor[i]))
           /\ Delivered(i, c)
    BY DEF DeliverNow
  <1>3. UNCHANGED <<pc, emitted, cursor, retry, held, unrouted, up, asked, fate>>
    BY DEF DeliverNow
  <1>4. Threads' /\ OnlyClosing
    BY <1>1, <1>2, <1>3, DeliveredKeepsThreads DEF Delivering, Threads, FateTypeOK
  <1>5. Mailboxes'
    BY <1>1, <1>2, <1>4, InHandIsWork, PostKeepsMailboxes, PostGrantedKeepsMailboxes
       DEF Sender
  <1> QED  BY <1>4, <1>5, TwoParts

\* An emitter that waits was not in the line it joins.
LEMMA DeliverWaitsKeeps ==
  ASSUME Machine, NEW i \in Instance, DeliverWaits(i)
  PROVE  Machine'
  <1>1. Threads /\ Mailboxes
    BY TwoParts
  <1>2. PICK c \in todo[i] : ~Waiting(i, To(c)) /\ Queue(i, To(c))
    BY DEF DeliverWaits
  <1>3. Threads' /\ OnlyClosing
    BY <1>1, ThreadsUnchanged DEF DeliverWaits
  <1>4. Mailboxes'
    BY <1>1, <1>2, <1>3, InHandIsWork, QueueKeepsMailboxes DEF Sender
  <1> QED  BY <1>3, <1>4, TwoParts

\* A batch that is discarded or held leaves every mailbox alone.
LEMMA DeliverDiscardsKeeps ==
  ASSUME Machine, NEW i \in Instance,
         DeliverGone(i) \/ DeliverHolds(i) \/ DeliverSelfFull(i)
  PROVE  Machine'
  <1>1. Threads /\ Mailboxes
    BY TwoParts
  <1>2. PICK c \in todo[i] :
           /\ Delivering(i, c)
           /\ Delivered(i, c)
           /\ held' = held \/ held' = [held EXCEPT ![c] = cursor[i]]
           /\ \/ fate' = fate
              \/ \E n : \E what \in Fate : fate' = Settle(c, n, what)
    BY DEF DeliverGone, DeliverHolds, DeliverSelfFull, Fate
  <1>3. fate' \in [Conn -> [Serial -> Fate]]
    BY <1>1, <1>2, SettleType DEF Threads, FateTypeOK
  <1>4. UNCHANGED <<pc, emitted, cursor, retry, unrouted, up, asked, queueVars>>
    BY DEF DeliverGone, DeliverHolds, DeliverSelfFull, Refused
  <1>5. Threads' /\ OnlyClosing
    BY <1>1, <1>2, <1>3, <1>4, DeliveredKeepsThreads DEF Delivering
  <1>6. Mailboxes'
    BY <1>1, <1>4, <1>5, QueuesUnchanged
  <1> QED  BY <1>5, <1>6, TwoParts

\* A thread goes back to its mailbox, or returns, with everything routed.
LEMMA RoundDoneKeeps ==
  ASSUME Machine, NEW i \in Instance, RoundDone(i)
  PROVE  Machine'
  <1>1. Threads /\ Mailboxes
    BY TwoParts
  <1>2. /\ RoundOver(i)
        /\ UNCHANGED <<emitted, cursor, todo, retry, unrouted, up, asked>>
    BY DEF RoundDone
  <1>3. CASE pc[i] = "routing" /\ pc' = [pc EXCEPT ![i] = "idle"]
             /\ UNCHANGED <<held, fate, queueVars>>
    <2>1. ThreadTypeOK' /\ FateTypeOK'
      BY <1>1, <1>2, <1>3 DEF Threads, ThreadTypeOK, FateTypeOK, PC
    <2>2. Rounds'
      BY <1>1, <1>2, <1>3 DEF Threads, ThreadTypeOK, Rounds, Routing, RoundOver
    <2>3. OnlyClosing
      BY <1>1, <1>3 DEF Threads, ThreadTypeOK, OnlyClosing, Open
    <2> QED  BY <1>1, <1>3, <2>1, <2>2, <2>3, QueuesUnchanged, TwoParts DEF Threads
  <1>4. CASE pc[i] = "closing" /\ End(i)
    BY <1>2, <1>4, EndKeeps DEF RoundOver
  <1> QED  BY <1>3, <1>4 DEF RoundDone

\* A timer item takes a free place.
LEMMA TickKeeps ==
  ASSUME Machine, NEW i \in Instance, Tick(i)
  PROVE  Machine'
  <1>1. Threads /\ Mailboxes
    BY TwoParts
  <1>2. Threads' /\ OnlyClosing
    BY <1>1, ThreadsUnchanged DEF Tick
  <1>3. Timer \in Work
    BY DEF Work
  <1> QED  BY <1>1, <1>2, <1>3, PostKeepsMailboxes, TwoParts DEF Tick

\* A Stop takes a place, waits for one, or finds the mailbox closed.
LEMMA AskStopKeeps ==
  ASSUME Machine, NEW i \in Instance, AskStop(i)
  PROVE  Machine'
  <1>1. Threads /\ Mailboxes
    BY TwoParts
  <1>2. Threads' /\ OnlyClosing
    BY <1>1, ThreadsUnchanged DEF AskStop, StopPosted, StopWaits, StopGone
  <1>3. Stop \in Work /\ Svc \in Sender
    BY DEF Work, Sender
  <1>4. CASE StopPosted(i)
    BY <1>1, <1>2, <1>3, <1>4, PostKeepsMailboxes, PostGrantedKeepsMailboxes, TwoParts
       DEF StopPosted
  <1>5. CASE StopWaits(i)
    BY <1>1, <1>2, <1>3, <1>5, QueueKeepsMailboxes, TwoParts DEF StopWaits, SvcIdle
  <1>6. CASE StopGone(i)
    BY <1>1, <1>2, <1>6, QueuesUnchanged, TwoParts DEF StopGone, Refused
  <1> QED  BY <1>4, <1>5, <1>6 DEF AskStop

-----------------------------------------------------------------------------
(* The theorems.                                                           *)

\* The initial states satisfy the inductive invariant.
LEMMA InitMachine == Init => Machine
  <1> SUFFICES ASSUME Init PROVE Machine
    OBVIOUS
  <1> USE SizeAssumption DEF Init
  <1>1. ThreadTypeOK
    BY EmptySeq DEF ThreadTypeOK, PC
  <1>2. QueueTypeOK
    BY EmptySeq DEF QueueTypeOK
  <1>3. fate \in [Conn -> [Serial -> Fate]]
    BY DEF Fate
  <1>4. Rounds
    BY DEF Rounds, Routing
  <1>5. NoLostWakeup
    BY FS_EmptySet DEF NoLostWakeup
  <1>6. InLineOnce
    BY DEF InLineOnce
  <1> QED  BY <1>1, <1>2, <1>3, <1>4, <1>5, <1>6 DEF Machine, TypeOK

\* Every step preserves it: one case per action.
LEMMA NextMachine == Machine /\ [Next]_vars => Machine'
  <1> SUFFICES ASSUME Machine, [Next]_vars PROVE Machine'
    OBVIOUS
  <1>1. CASE UNCHANGED vars
    <2>1. Threads /\ Mailboxes
      BY TwoParts
    <2>2. UNCHANGED <<threadVars, queueVars, asked, fate>>
      BY <1>1 DEF vars, threadVars, queueVars
    <2> QED  BY <2>1, <2>2, ThreadsUnchanged, QueuesUnchanged, TwoParts
  <1>2. ASSUME NEW i \in Instance, Thread(i)
        PROVE  Machine'
    BY <1>2, StartKeeps, StartFailsKeeps, TakeKeeps, SubscriberEndsKeeps,
       RetryHeldKeeps, NextEmissionKeeps, DeliverNowKeeps, DeliverWaitsKeeps,
       DeliverDiscardsKeeps, RoundDoneKeeps DEF Thread
  <1>3. ASSUME NEW i \in Instance, World(i)
        PROVE  Machine'
    BY <1>3, TickKeeps, ReceiveKeeps, SubscriberEndsKeeps DEF World
  <1>4. ASSUME NEW i \in Instance, Spawn(i) \/ Abandon(i) \/ AskStop(i)
        PROVE  Machine'
    BY <1>4, SpawnKeeps, AbandonKeeps, AskStopKeeps
  <1>5. CASE Over
    BY <1>1, <1>5 DEF Over
  <1> QED  BY <1>1, <1>2, <1>3, <1>4, <1>5 DEF Next

\* Every reachable state satisfies the inductive invariant: types, the accounts
\* of the mailboxes and the rounds of the threads (executor.rs, instance.rs).
THEOREM Invariance == Spec => []Machine
  BY InitMachine, NextMachine, PTL DEF Spec

\* Every variable keeps its type, whatever the graph.
THEOREM TypeCorrect == Spec => []TypeOK
  <1>1. Machine => TypeOK
    BY DEF Machine
  <1> QED  BY <1>1, Invariance, PTL

\* No wakeup of a sender is lost and no mailbox exceeds its depth
\* (Mailbox::send, Mailbox::try_send), whatever the graph and the depth.
THEOREM NoLostWakeupHolds == Spec => []NoLostWakeup
  <1>1. Machine => NoLostWakeup
    BY DEF Machine
  <1> QED  BY <1>1, Invariance, PTL

\* A thread takes its next item, or returns, only with everything routed that
\* its callbacks emitted (instance_task and Live::route).
THEOREM RoutedBeforeNextHolds == Spec => []RoutedBeforeNext
  <1>1. Machine => RoutedBeforeNext
    BY DEF Machine, Rounds, Routing, RoutedBeforeNext, RoundOver
  <1> QED  BY <1>1, Invariance, PTL

-----------------------------------------------------------------------------
(* Counting a batch in a mailbox.                                          *)

Places(q, w) == {k \in DOMAIN q : q[k] = w}

Count(q, w) == Cardinality(Places(q, w))

\* The places of a batch in a queue are finitely many.
LEMMA PlacesFinite ==
  ASSUME NEW S, NEW q \in Seq(S), NEW w
  PROVE  /\ IsFiniteSet(Places(q, w))
         /\ Count(q, w) \in Nat
         /\ Count(q, w) = 0 <=> \A k \in DOMAIN q : q[k] # w
  <1>1. DOMAIN q = 1..Len(q) /\ Len(q) \in Nat
    BY LenProperties
  <1>2. IsFiniteSet(DOMAIN q)
    BY <1>1, FS_Interval
  <1>3. IsFiniteSet(Places(q, w))
    BY <1>2, FS_Subset DEF Places
  <1>4. Count(q, w) \in Nat
    BY <1>3, FS_CardinalityType DEF Count
  <1>5. Count(q, w) = 0 <=> Places(q, w) = {}
    BY <1>3, FS_EmptySet DEF Count
  <1> QED  BY <1>3, <1>4, <1>5 DEF Places

\* An empty queue has none.
LEMMA CountEmpty ==
  ASSUME NEW w
  PROVE  Count(<<>>, w) = 0
  <1>1. Places(<<>>, w) = {}
    BY DEF Places
  <1> QED  BY <1>1, FS_EmptySet DEF Count

\* An item at the end counts once, if it is the one.
LEMMA CountAppend ==
  ASSUME NEW S, NEW q \in Seq(S), NEW x \in S, NEW w
  PROVE  Count(Append(q, x), w) = Count(q, w) + One(x = w)
  <1> DEFINE r == Append(q, x)
  <1>1. /\ Len(q) \in Nat /\ DOMAIN q = 1..Len(q)
        /\ DOMAIN r = 1..(Len(q) + 1)
        /\ \A k \in 1..Len(q) : r[k] = q[k]
        /\ r[Len(q) + 1] = x
    BY AppendProperties, LenProperties
  <1>2. IsFiniteSet(Places(q, w)) /\ Count(q, w) \in Nat
    BY PlacesFinite
  <1>3. CASE x = w
    <2>1. Places(r, w) = Places(q, w) \cup {Len(q) + 1}
      BY <1>1, <1>3 DEF Places
    <2>2. Len(q) + 1 \notin Places(q, w)
      BY <1>1 DEF Places
    <2>3. Cardinality(Places(r, w)) = Cardinality(Places(q, w)) + 1
      BY <1>2, <2>1, <2>2, FS_AddElement
    <2> QED  BY <1>3, <2>3 DEF Count, One
  <1>4. CASE x # w
    <2>1. Places(r, w) = Places(q, w)
      BY <1>1, <1>4 DEF Places
    <2> QED  BY <1>2, <1>4, <2>1 DEF Count, One
  <1> QED  BY <1>3, <1>4

\* The item at the head counts once, if it is the one.
LEMMA CountTail ==
  ASSUME NEW S, NEW q \in Seq(S), q # <<>>, NEW w
  PROVE  Count(q, w) = Count(Tail(q), w) + One(Head(q) = w)
  <1> DEFINE t == Tail(q)
             shift == [k \in Places(t, w) |-> k + 1]
  <1>1. /\ Len(q) \in Nat \ {0} /\ DOMAIN q = 1..Len(q)
        /\ t \in Seq(S) /\ Len(t) = Len(q) - 1 /\ DOMAIN t = 1..(Len(q) - 1)
        /\ \A k \in 1..(Len(q) - 1) : t[k] = q[k + 1]
        /\ Head(q) = q[1]
    <2>1. Len(q) \in Nat \ {0}
      BY EmptySeq, LenProperties
    <2>2. t \in Seq(S) /\ Len(t) = Len(q) - 1
      BY HeadTailProperties
    <2> QED  BY <2>1, <2>2, LenProperties, HeadTailProperties
  <1>2. IsFiniteSet(Places(t, w)) /\ Count(t, w) \in Nat
    BY <1>1, PlacesFinite
  <1>3. IsFiniteSet(Places(q, w)) /\ Count(q, w) \in Nat
    BY PlacesFinite
  <1>4. shift \in Bijection(Places(t, w), Places(q, w) \ {1})
    <2>1. shift \in [Places(t, w) -> Places(q, w) \ {1}]
      BY <1>1 DEF Places
    <2>2. \A a, b \in Places(t, w) : shift[a] = shift[b] => a = b
      BY <1>1 DEF Places
    <2>3. \A b \in Places(q, w) \ {1} : \E a \in Places(t, w) : shift[a] = b
      <3> SUFFICES ASSUME NEW b \in Places(q, w) \ {1}
                   PROVE  b - 1 \in Places(t, w) /\ shift[b - 1] = b
        OBVIOUS
      <3> QED  BY <1>1 DEF Places
    <2> QED  BY <2>1, <2>2, <2>3, Fun_IsBij
  <1>5. Cardinality(Places(q, w) \ {1}) = Cardinality(Places(t, w))
    BY <1>2, <1>4, FS_Bijection DEF ExistsBijection
  <1>6. Cardinality(Places(q, w) \ {1}) = IF 1 \in Places(q, w)
            THEN Cardinality(Places(q, w)) - 1 ELSE Cardinality(Places(q, w))
    BY <1>3, FS_RemoveElement
  <1>7. 1 \in Places(q, w) <=> Head(q) = w
    BY <1>1 DEF Places
  <1> QED  BY <1>2, <1>3, <1>5, <1>6, <1>7 DEF Count, One

-----------------------------------------------------------------------------
(* The queued copies of a batch, one lemma per operation of the mailbox.   *)

InBox(c, n) == Count(mbox[To(c)], Delivery(c, n))

\* The mailbox of j grows by w.
Puts(j, w) == mbox' = [mbox EXCEPT ![j] = Append(mbox[j], w)]

\* A mailbox holds a whole number of copies.
LEMMA InBoxType ==
  ASSUME QueueTypeOK, NEW c \in Conn, NEW n \in Serial
  PROVE  /\ InBox(c, n) \in Nat
         /\ InBox(c, n) = 0 <=> \A k \in DOMAIN mbox[To(c)] : mbox[To(c)][k] # Delivery(c, n)
  <1>1. mbox[To(c)] \in Seq(Work)
    BY RouteEnds DEF QueueTypeOK
  <1> QED  BY <1>1, PlacesFinite DEF InBox

\* Mailboxes that stay what they are hold what they held.
LEMMA InBoxUnchanged ==
  ASSUME UNCHANGED mbox, NEW c \in Conn, NEW n \in Serial
  PROVE  InBox(c, n)' = InBox(c, n)
  BY DEF InBox

\* Posting adds the copy that is posted.
LEMMA InBoxPost ==
  ASSUME QueueTypeOK, NEW j \in Instance, NEW w \in Work,
         Puts(j, w), NEW c \in Conn, NEW n \in Serial
  PROVE  InBox(c, n)' = InBox(c, n) + (IF To(c) = j /\ w = Delivery(c, n) THEN 1 ELSE 0)
  <1>1. CASE To(c) = j
    <2>1. mbox[j] \in Seq(Work) /\ mbox'[j] = Append(mbox[j], w)
      BY DEF QueueTypeOK, Puts
    <2>2. Count(mbox'[j], Delivery(c, n)) = Count(mbox[j], Delivery(c, n)) + One(w = Delivery(c, n))
      BY <2>1, CountAppend
    <2> QED  BY <1>1, <2>2 DEF InBox, One
  <1>2. CASE To(c) # j
    <2>1. mbox'[To(c)] = mbox[To(c)]
      BY <1>2, RouteEnds DEF QueueTypeOK, Puts
    <2> QED  BY <1>2, <2>1, InBoxType DEF InBox, One
  <1> QED  BY <1>1, <1>2

\* Taking removes the copy at the head.
LEMMA InBoxPop ==
  ASSUME QueueTypeOK, NEW j \in Instance, Pop(j), NEW c \in Conn, NEW n \in Serial
  PROVE  /\ InBox(c, n)' \in Nat
         /\ InBox(c, n) = InBox(c, n)' + (IF To(c) = j /\ Head(mbox[j]) = Delivery(c, n) THEN 1 ELSE 0)
  <1>0. mbox[j] # <<>> /\ mbox' = [mbox EXCEPT ![j] = Tail(mbox[j])]
    BY DEF Pop
  <1>1. CASE To(c) = j
    <2>1. mbox[j] \in Seq(Work) /\ mbox'[j] = Tail(mbox[j]) /\ mbox'[j] \in Seq(Work)
      BY <1>0, HeadTailProperties DEF QueueTypeOK
    <2>2. Count(mbox[j], Delivery(c, n)) = Count(mbox'[j], Delivery(c, n)) + One(Head(mbox[j]) = Delivery(c, n))
      BY <1>0, <2>1, CountTail
    <2>3. Count(mbox'[j], Delivery(c, n)) \in Nat
      BY <2>1, PlacesFinite
    <2> QED  BY <1>1, <2>2, <2>3 DEF InBox, One
  <1>2. CASE To(c) # j
    <2>1. mbox'[To(c)] = mbox[To(c)]
      BY <1>0, <1>2, RouteEnds DEF QueueTypeOK
    <2> QED  BY <1>2, <2>1, InBoxType DEF InBox, One
  <1> QED  BY <1>1, <1>2

\* Closing drops every copy.
LEMMA InBoxClose ==
  ASSUME QueueTypeOK, NEW j \in Instance, Close(j), NEW c \in Conn, NEW n \in Serial
  PROVE  InBox(c, n)' = IF To(c) = j THEN 0 ELSE InBox(c, n)
  <1>0. mbox' = [mbox EXCEPT ![j] = <<>>]
    BY DEF Close
  <1>1. CASE To(c) = j
    <2>1. mbox'[To(c)] = <<>>
      BY <1>0, <1>1 DEF QueueTypeOK
    <2> QED  BY <1>1, <2>1, CountEmpty DEF InBox
  <1>2. CASE To(c) # j
    BY <1>0, <1>2, RouteEnds DEF InBox, QueueTypeOK
  <1> QED  BY <1>1, <1>2

-----------------------------------------------------------------------------
(* What the mailboxes hold is addressed to them, and in order.             *)

Addressed ==
    \A j \in Instance : \A k \in DOMAIN mbox[j] : \A c \in Conn, n \in Serial :
        mbox[j][k] = Delivery(c, n) => To(c) = j /\ n <= cursor[From(c)]

Slots ==
    \A c \in Conn :
        /\ held[c] <= cursor[From(c)]
        /\ held[c] # 0 => Table[c].overflow = "DropOldest"

Mail == Addressed /\ InOrder

\* The routing loops take up emissions and give none back.
Advancing ==
    \A k \in Instance : cursor[k] \in Nat /\ cursor'[k] \in Nat /\ cursor[k] <= cursor'[k]

\* OwnMail, cut into the part of the mailboxes and the part of the slots.
LEMMA OwnMailParts ==
  /\ OwnMail <=> Addressed /\ Slots
  /\ OwnMail' <=> Addressed' /\ Slots'
  BY DEF OwnMail, Addressed, Slots

\* A batch stays addressed and in order in a mailbox that does not change.
LEMMA MailUnchanged ==
  ASSUME Mail, Advancing, UNCHANGED mbox
  PROVE  Mail'
  <1>1. Addressed'
    <2> SUFFICES ASSUME NEW j \in Instance, NEW k \in DOMAIN mbox[j], NEW c \in Conn,
                        NEW n \in Serial, mbox[j][k] = Delivery(c, n)
                 PROVE  To(c) = j /\ n <= cursor'[From(c)]
      BY DEF Addressed
    <2>1. To(c) = j /\ n <= cursor[From(c)]
      BY DEF Mail, Addressed
    <2> QED  BY <2>1, RouteEnds, SizeAssumption DEF Advancing, Serial
  <1>2. InOrder'
    BY DEF Mail, InOrder
  <1> QED  BY <1>1, <1>2 DEF Mail

\* What is posted is addressed, and newer than what it queues behind.
LEMMA MailPost ==
  ASSUME Mail, Advancing, QueueTypeOK, NEW j \in Instance, NEW w \in Work,
         Puts(j, w),
         \A c \in Conn, n \in Serial : w = Delivery(c, n) =>
             /\ To(c) = j
             /\ n <= cursor'[From(c)]
             /\ Waits(c) => \A k \in DOMAIN mbox[j], m \in Serial :
                               mbox[j][k] = Delivery(c, m) => m < n
  PROVE  Mail'
  <1>1. /\ Len(mbox[j]) \in Nat /\ DOMAIN mbox[j] = 1..Len(mbox[j])
        /\ DOMAIN mbox'[j] = 1..(Len(mbox[j]) + 1)
        /\ \A k \in 1..Len(mbox[j]) : mbox'[j][k] = mbox[j][k]
        /\ mbox'[j][Len(mbox[j]) + 1] = w
    <2>1. mbox[j] \in Seq(Work) /\ mbox'[j] = Append(mbox[j], w)
      BY DEF QueueTypeOK, Puts
    <2> QED  BY <2>1, AppendProperties, LenProperties
  <1>2. \A k \in Instance : k # j => mbox'[k] = mbox[k]
    BY DEF QueueTypeOK, Puts
  <1>3. Addressed'
    <2> SUFFICES ASSUME NEW l \in Instance, NEW k \in DOMAIN mbox'[l], NEW c \in Conn,
                        NEW n \in Serial, mbox'[l][k] = Delivery(c, n)
                 PROVE  To(c) = l /\ n <= cursor'[From(c)]
      BY DEF Addressed
    <2>1. CASE l = j /\ k = Len(mbox[j]) + 1
      BY <1>1, <2>1
    <2>2. CASE ~(l = j /\ k = Len(mbox[j]) + 1)
      <3>1. k \in DOMAIN mbox[l] /\ mbox[l][k] = Delivery(c, n)
        BY <1>1, <1>2, <2>2
      <3>2. To(c) = l /\ n <= cursor[From(c)]
        BY <3>1 DEF Mail, Addressed
      <3> QED  BY <3>2, RouteEnds, SizeAssumption DEF Advancing, Serial
    <2> QED  BY <2>1, <2>2
  <1>4. InOrder'
    <2> SUFFICES ASSUME NEW c \in Conn, Waits(c),
                        NEW k \in DOMAIN mbox'[To(c)], NEW l \in DOMAIN mbox'[To(c)],
                        NEW m \in Serial, NEW n \in Serial, k < l,
                        mbox'[To(c)][k] = Delivery(c, m), mbox'[To(c)][l] = Delivery(c, n)
                 PROVE  m < n
      BY DEF InOrder
    <2>1. CASE To(c) = j /\ l = Len(mbox[j]) + 1
      <3>1. k \in DOMAIN mbox[j] /\ mbox[j][k] = Delivery(c, m)
        BY <1>1, <2>1
      <3> QED  BY <1>1, <2>1, <3>1
    <2>2. CASE To(c) = j /\ l # Len(mbox[j]) + 1
      <3>1. /\ k \in DOMAIN mbox[j] /\ l \in DOMAIN mbox[j]
            /\ mbox[j][k] = Delivery(c, m) /\ mbox[j][l] = Delivery(c, n)
        BY <1>1, <2>2, SMTT(30)
      <3> QED  BY <2>2, <3>1 DEF Mail, InOrder
    <2>3. CASE To(c) # j
      BY <1>2, <2>3, RouteEnds DEF Mail, InOrder
    <2> QED  BY <2>1, <2>2, <2>3
  <1> QED  BY <1>3, <1>4 DEF Mail

\* What is left behind the head keeps its order.
LEMMA MailPop ==
  ASSUME Mail, Advancing, QueueTypeOK, NEW j \in Instance, Pop(j)
  PROVE  Mail'
  <1>1. /\ DOMAIN mbox[j] = 1..Len(mbox[j]) /\ Len(mbox[j]) \in Nat
        /\ \A k \in DOMAIN mbox'[j] : /\ k \in Nat
                                      /\ k + 1 \in DOMAIN mbox[j]
                                      /\ mbox'[j][k] = mbox[j][k + 1]
    <2>1. mbox[j] \in Seq(Work) /\ mbox[j] # <<>> /\ mbox'[j] = Tail(mbox[j])
      BY DEF QueueTypeOK, Pop
    <2>2. Len(mbox[j]) \in Nat \ {0} /\ DOMAIN mbox[j] = 1..Len(mbox[j])
      BY <2>1, EmptySeq, LenProperties
    <2>3. /\ Tail(mbox[j]) \in Seq(Work) /\ Len(Tail(mbox[j])) = Len(mbox[j]) - 1
          /\ \A k \in 1..Len(Tail(mbox[j])) : Tail(mbox[j])[k] = mbox[j][k + 1]
      BY <2>1, HeadTailProperties
    <2>4. DOMAIN Tail(mbox[j]) = 1..(Len(mbox[j]) - 1)
      BY <2>3, LenProperties
    <2> QED  BY <2>1, <2>2, <2>3, <2>4
  <1>2. \A k \in Instance : k # j => mbox'[k] = mbox[k]
    BY DEF QueueTypeOK, Pop
  <1>3. Addressed'
    <2> SUFFICES ASSUME NEW l \in Instance, NEW k \in DOMAIN mbox'[l], NEW c \in Conn,
                        NEW n \in Serial, mbox'[l][k] = Delivery(c, n)
                 PROVE  To(c) = l /\ n <= cursor'[From(c)]
      BY DEF Addressed
    <2>1. \E x \in DOMAIN mbox[l] : mbox[l][x] = Delivery(c, n)
      BY <1>1, <1>2
    <2>2. To(c) = l /\ n <= cursor[From(c)]
      BY <2>1 DEF Mail, Addressed
    <2> QED  BY <2>2, RouteEnds, SizeAssumption DEF Advancing, Serial
  <1>4. InOrder'
    <2> SUFFICES ASSUME NEW c \in Conn, Waits(c),
                        NEW k \in DOMAIN mbox'[To(c)], NEW l \in DOMAIN mbox'[To(c)],
                        NEW m \in Serial, NEW n \in Serial, k < l,
                        mbox'[To(c)][k] = Delivery(c, m), mbox'[To(c)][l] = Delivery(c, n)
                 PROVE  m < n
      BY DEF InOrder
    <2>1. CASE To(c) = j
      <3>1. /\ k + 1 \in DOMAIN mbox[j] /\ l + 1 \in DOMAIN mbox[j] /\ k + 1 < l + 1
            /\ mbox[j][k + 1] = Delivery(c, m) /\ mbox[j][l + 1] = Delivery(c, n)
        BY <1>1, <2>1
      <3> QED  BY <2>1, <3>1 DEF Mail, InOrder
    <2>2. CASE To(c) # j
      BY <1>2, <2>2, RouteEnds DEF Mail, InOrder
    <2> QED  BY <2>1, <2>2
  <1> QED  BY <1>3, <1>4 DEF Mail

\* An empty mailbox is in order.
LEMMA MailClose ==
  ASSUME Mail, Advancing, QueueTypeOK, NEW j \in Instance, Close(j)
  PROVE  Mail'
  <1>1. mbox'[j] = <<>> /\ \A k \in Instance : k # j => mbox'[k] = mbox[k]
    BY DEF QueueTypeOK, Close
  <1>3. Addressed'
    <2> SUFFICES ASSUME NEW l \in Instance, NEW k \in DOMAIN mbox'[l], NEW c \in Conn,
                        NEW n \in Serial, mbox'[l][k] = Delivery(c, n)
                 PROVE  To(c) = l /\ n <= cursor'[From(c)]
      BY DEF Addressed
    <2>1. k \in DOMAIN mbox[l] /\ mbox[l][k] = Delivery(c, n)
      BY <1>1
    <2>2. To(c) = l /\ n <= cursor[From(c)]
      BY <2>1 DEF Mail, Addressed
    <2> QED  BY <2>2, RouteEnds, SizeAssumption DEF Advancing, Serial
  <1>4. InOrder'
    BY <1>1, RouteEnds DEF Mail, InOrder
  <1> QED  BY <1>3, <1>4 DEF Mail

-----------------------------------------------------------------------------
(* The custody of the accepted batches.                                    *)

Reasons ==
    \A c \in Conn, n \in Serial :
        /\ fate[c][n] = "overflow" =>
              /\ Table[c].overflow = "DropOldest"
              /\ \E m \in Serial : m > n /\ fate[c][m] \notin {"none", "overflow"}
        /\ fate[c][n] = "selfFull" => From(c) = To(c)
        /\ fate[c][n] \in {"gone", "withQueue"} => ~Open(To(c))
        /\ fate[c][n] \in {"withStart", "withOutlet"} => ~Open(From(c))
        /\ fate[c][n] = "withOutlet" => Table[c].overflow = "DropOldest"

Unwired(i, upto) ==
    {n \in 1..upto : emitted[i][n] = ErrPort /\ Targets(i, ErrPort) = {}}

Unrouted == \A i \in Instance : unrouted[i] = Cardinality(Unwired(i, cursor[i]))

Custody ==
    /\ FatesAreOfEmissions /\ OwnMail /\ InOrder
    /\ ExactlyOnePlace /\ LossHasItsReason /\ BackpressureIsLossless

Whole == Machine /\ Custody

\* LossHasItsReason, cut into the reasons and the count of error emissions.
LEMMA LossParts ==
  /\ LossHasItsReason <=> Reasons /\ Unrouted
  /\ LossHasItsReason' <=> Reasons' /\ Unrouted'
  BY DEF LossHasItsReason, Reasons, Unrouted, Unwired

\* Custody, in the parts the lemmas of the actions establish.
LEMMA CustodyParts ==
  /\ Custody <=> /\ FatesAreOfEmissions /\ Slots /\ Mail /\ ExactlyOnePlace
                 /\ Reasons /\ Unrouted /\ BackpressureIsLossless
  /\ Custody' <=> /\ FatesAreOfEmissions' /\ Slots' /\ Mail' /\ ExactlyOnePlace'
                  /\ Reasons' /\ Unrouted' /\ BackpressureIsLossless'
  BY OwnMailParts, LossParts DEF Custody, Mail

\* The emissions of an instance that the routing loop has yet to take up.
InOutbox(c, n) == Open(From(c)) /\ Pending(c, n)

\* The four places a copy can be in.
LEMMA Whereabouts ==
  ASSUME NEW c \in Conn, NEW n \in Serial
  PROVE  /\ Copies(c, n) = One(InOutbox(c, n)) + One(InHand(c, n)) + One(held[c] = n) + InBox(c, n)
         /\ Copies(c, n)' = One(InOutbox(c, n)') + One(InHand(c, n)') + One(held'[c] = n) + InBox(c, n)'
  BY DEF Copies, InOutbox, InBox, Count, Places, One

\* A copy that is somewhere is nowhere else, and its batch is accepted.
LEMMA OnlyThere ==
  ASSUME QueueTypeOK, ExactlyOnePlace, NEW c \in Conn, NEW n \in Serial
  PROVE  /\ InBox(c, n) \in Nat
         /\ One(InOutbox(c, n)) + One(InHand(c, n)) + One(held[c] = n) + InBox(c, n)
               = One(fate[c][n] = "accepted")
         /\ InOutbox(c, n) \/ InHand(c, n) \/ held[c] = n \/ InBox(c, n) > 0
               <=> fate[c][n] = "accepted"
         /\ InHand(c, n) => ~InOutbox(c, n) /\ held[c] # n /\ InBox(c, n) = 0
         /\ held[c] = n => ~InOutbox(c, n) /\ ~InHand(c, n) /\ InBox(c, n) = 0
         /\ InBox(c, n) > 0 => /\ ~InOutbox(c, n) /\ ~InHand(c, n) /\ held[c] # n
                               /\ InBox(c, n) = 1
  <1>1. InBox(c, n) \in Nat
    BY InBoxType
  <1>2. One(InOutbox(c, n)) + One(InHand(c, n)) + One(held[c] = n) + InBox(c, n)
               = One(fate[c][n] = "accepted")
    BY Whereabouts DEF ExactlyOnePlace
  <1> QED  BY <1>1, <1>2 DEF One

\* The counterpart, for the state a step leads to.
LEMMA AccountsBalance ==
  ASSUME \A c \in Conn, n \in Serial :
            One(InOutbox(c, n)') + One(InHand(c, n)') + One(held'[c] = n) + InBox(c, n)'
               = One(fate'[c][n] = "accepted")
  PROVE  ExactlyOnePlace'
  BY Whereabouts DEF ExactlyOnePlace

-----------------------------------------------------------------------------
(* Fates settle, each for its reason.                                      *)

\* No thread goes back to before its start, nor on past it.
OnlyStarting ==
    \A k \in Instance :
        /\ pc'[k] \in {"unborn", "starting"} => pc[k] \in {"unborn", "starting"}
        /\ pc'[k] \in {"routing", "idle", "closing"} => pc[k] \in {"routing", "idle", "closing"}

Justified(c, n) ==
    \/ fate[c][n] \in {"gone", "withQueue"} /\ ~Open(To(c))
    \/ fate[c][n] = "selfFull" /\ From(c) = To(c) /\ Table[c].overflow = "Backpressure"
    \/ fate[c][n] = "withOutlet" /\ ~Open(From(c)) /\ Table[c].overflow = "DropOldest"
    \/ /\ fate[c][n] = "overflow" /\ Table[c].overflow = "DropOldest"
       /\ \E m \in Serial : m > n /\ fate[c][m] \notin {"none", "overflow"}

\* What a step may do to a fate.  A batch is accepted from an emitter that lives,
\* behind everything the connection carried; it is handled by a receiver that lives,
\* and on a connection that waits once all older ones are; or it is lost for a reason.
FateSteps ==
    \A c \in Conn, n \in Serial :
        \/ fate'[c][n] = fate[c][n]
        \/ fate[c][n] = "none" /\ fate'[c][n] = "withStart"
        \/ /\ fate[c][n] = "none" /\ fate'[c][n] = "accepted"
           /\ Open(From(c)) /\ n > Len(emitted[From(c)])
        \/ /\ fate[c][n] = "accepted" /\ fate'[c][n] = "handled"
           /\ Open(To(c))
           /\ Waits(c) => \A m \in 1..(n - 1) : fate[c][m] \in {"none", "handled"}
        \/ fate[c][n] = "accepted" /\ Justified(c, n)'

\* New fates have their reasons, and what a newer batch was lost for stays newer.
LEMMA ReasonsKept ==
  ASSUME Custody, OnlyClosing,
         \A c \in Conn, n \in Serial :
            \/ fate'[c][n] = fate[c][n]
            \/ /\ fate[c][n] \in {"none", "accepted"}
               /\ \/ fate'[c][n] \in {"accepted", "handled"}
                  \/ fate'[c][n] = "withStart" /\ ~Open(From(c))'
                  \/ Justified(c, n)'
  PROVE  Reasons'
  <1>1. \A c \in Conn, n \in Serial : fate'[c][n] # fate[c][n] =>
            /\ fate[c][n] \in {"none", "accepted"}
            /\ fate'[c][n] # "none"
            /\ fate'[c][n] = "overflow" => Justified(c, n)'
    BY DEF Justified
  <1> SUFFICES ASSUME NEW c \in Conn, NEW n \in Serial
               PROVE  /\ fate'[c][n] = "overflow" =>
                           /\ Table[c].overflow = "DropOldest"
                           /\ \E m \in Serial : m > n /\ fate'[c][m] \notin {"none", "overflow"}
                      /\ fate'[c][n] = "selfFull" => From(c) = To(c)
                      /\ fate'[c][n] \in {"gone", "withQueue"} => ~Open(To(c))'
                      /\ fate'[c][n] \in {"withStart", "withOutlet"} => ~Open(From(c))'
                      /\ fate'[c][n] = "withOutlet" => Table[c].overflow = "DropOldest"
    BY DEF Reasons, Open
  <1>2. Reasons
    BY CustodyParts
  <1>3. CASE fate'[c][n] = fate[c][n]
    <2>1. ASSUME fate[c][n] = "overflow"
          PROVE  \E m \in Serial : m > n /\ fate'[c][m] \notin {"none", "overflow"}
      <3>1. PICK m \in Serial : m > n /\ fate[c][m] \notin {"none", "overflow"}
        BY <1>2, <2>1 DEF Reasons
      <3>2. fate'[c][m] # "none"
        BY <1>1, <3>1
      <3>3. CASE fate'[c][m] = "overflow"
        <4>1. PICK k \in Serial : k > m /\ fate'[c][k] \notin {"none", "overflow"}
          BY <1>1, <3>1, <3>3 DEF Justified
        <4> QED  BY <3>1, <4>1, SizeAssumption DEF Serial
      <3> QED  BY <3>1, <3>2, <3>3
    <2>2. (~Open(From(c)) => ~Open(From(c))') /\ (~Open(To(c)) => ~Open(To(c))')
      BY RouteEnds DEF OnlyClosing
    <2> QED  BY <1>2, <1>3, <2>1, <2>2 DEF Reasons
  <1>4. CASE fate'[c][n] # fate[c][n]
    BY <1>4 DEF Justified
  <1> QED  BY <1>3, <1>4

\* A step that settles accepted batches, each for its reason, and handles none.
LEMMA SettlingKeeps ==
  ASSUME Custody, OnlyClosing, OnlyStarting, UNCHANGED <<emitted, up>>,
         \A c \in Conn, n \in Serial :
            fate'[c][n] = fate[c][n] \/ (fate[c][n] = "accepted" /\ Justified(c, n)')
  PROVE  FatesAreOfEmissions' /\ Reasons' /\ BackpressureIsLossless' /\ FateSteps
  <1>1. \A c \in Conn, n \in Serial : fate'[c][n] # fate[c][n] =>
            /\ fate[c][n] = "accepted"
            /\ fate'[c][n] \in {"gone", "withQueue", "selfFull", "withOutlet", "overflow"}
    BY DEF Justified
  <1>2. FatesAreOfEmissions'
    BY <1>1 DEF Custody, FatesAreOfEmissions, OnlyStarting
  <1>3. Reasons'
    BY ReasonsKept
  <1>4. BackpressureIsLossless'
    <2> SUFFICES ASSUME NEW c \in Conn, Waits(c), NEW n \in Serial, fate'[c][n] = "handled",
                        NEW m \in 1..(n - 1)
                 PROVE  fate'[c][m] \in {"none", "handled"}
      BY DEF BackpressureIsLossless
    <2>1. m \in Serial
      BY SizeAssumption DEF Serial
    <2>2. fate[c][n] = "handled"
      BY <1>1
    <2>3. fate[c][m] \in {"none", "handled"}
      BY <2>2 DEF Custody, BackpressureIsLossless
    <2> QED  BY <1>1, <2>1, <2>3
  <1>5. FateSteps
    BY DEF FateSteps
  <1> QED  BY <1>2, <1>3, <1>4, <1>5

\* The count of the error emissions stands where no loop moves on.
LEMMA UnroutedUnchanged ==
  ASSUME Custody, UNCHANGED <<emitted, cursor, unrouted>>
  PROVE  Unrouted'
  BY CustodyParts DEF Unrouted, Unwired

\* A step that leaves the batches where they are.
LEMMA QuietKeeps ==
  ASSUME Machine, Custody, OnlyClosing, OnlyStarting, Mail',
         UNCHANGED <<emitted, cursor, todo, held, unrouted, up, fate>>,
         \A k \in Instance : Open(k)' <=> Open(k),
         \A c \in Conn, n \in Serial : InBox(c, n)' = InBox(c, n)
  PROVE  Custody' /\ FateSteps
  <1>1. FatesAreOfEmissions' /\ Reasons' /\ BackpressureIsLossless' /\ FateSteps
    BY SettlingKeeps
  <1>2. Slots'
    BY CustodyParts DEF Slots
  <1>3. ExactlyOnePlace'
    <2> SUFFICES ASSUME NEW c \in Conn, NEW n \in Serial
                 PROVE  One(InOutbox(c, n)') + One(InHand(c, n)') + One(held'[c] = n) + InBox(c, n)'
                           = One(fate'[c][n] = "accepted")
      BY AccountsBalance
    <2>1. (InOutbox(c, n)' <=> InOutbox(c, n)) /\ (InHand(c, n)' <=> InHand(c, n))
      BY RouteEnds DEF InOutbox, Pending, InHand
    <2> QED  BY <2>1, OnlyThere DEF Machine, TypeOK, Custody, One
  <1> QED  BY <1>1, <1>2, <1>3, UnroutedUnchanged, CustodyParts

-----------------------------------------------------------------------------
(* One lemma per action, or per kind of action.                            *)

\* What Machine says of a connection of instance i, in one place.
LEMMA Bounds ==
  ASSUME Machine, NEW c \in Conn
  PROVE  /\ From(c) \in Instance /\ To(c) \in Instance
         /\ cursor[From(c)] \in Nat /\ Len(emitted[From(c)]) \in Nat
         /\ cursor[From(c)] <= Len(emitted[From(c)])
         /\ Len(emitted[From(c)]) <= MaxEmit
         /\ held[c] \in Nat /\ held[c] <= MaxEmit
  <1>1. From(c) \in Instance /\ To(c) \in Instance
    BY RouteEnds
  <1>2. emitted[From(c)] \in Seq(Port)
    BY <1>1 DEF Machine, TypeOK, ThreadTypeOK
  <1> QED  BY <1>1, <1>2, LenProperties, SizeAssumption DEF Machine, TypeOK, ThreadTypeOK

\* The batch in the hand of a thread that delivers is nowhere else.
LEMMA Carried ==
  ASSUME Machine, Custody, NEW i \in Instance, NEW c \in todo[i]
  PROVE  /\ c \in Conn /\ From(c) = i /\ To(c) \in Instance
         /\ cursor[i] \in Serial /\ InHand(c, cursor[i])
         /\ fate[c][cursor[i]] = "accepted"
         /\ held[c] # cursor[i]
         /\ InBox(c, cursor[i]) = 0
         /\ \A k \in DOMAIN mbox[To(c)] : mbox[To(c)][k] # Delivery(c, cursor[i])
  <1>1. c \in Conn /\ From(c) = i /\ cursor[i] > 0
    BY DEF Machine, TypeOK, ThreadTypeOK, Rounds
  <1>2. cursor[i] \in Serial
    BY <1>1, Bounds, SizeAssumption DEF Serial
  <1>3. InHand(c, cursor[i])
    BY <1>1 DEF InHand
  <1>4. /\ fate[c][cursor[i]] = "accepted" /\ held[c] # cursor[i]
        /\ InBox(c, cursor[i]) = 0
    BY <1>1, <1>2, <1>3, OnlyThere DEF Machine, TypeOK, Custody
  <1> QED  BY <1>1, <1>2, <1>3, <1>4, InBoxType, RouteEnds DEF Machine, TypeOK

\* A batch leaves the hand of its thread for a mailbox or is discarded.
LEMMA HandedOver ==
  ASSUME Machine, Custody, NEW i \in Instance, NEW c \in todo[i], Delivered(i, c),
         UNCHANGED <<pc, emitted, cursor, held>>,
         NEW into \in {0, 1},
         \A d \in Conn, n \in Serial :
            /\ InBox(d, n)' = InBox(d, n) + (IF d = c /\ n = cursor[i] THEN into ELSE 0)
            /\ fate'[d][n] = "accepted" <=>
                  /\ fate[d][n] = "accepted"
                  /\ d = c /\ n = cursor[i] => into = 1
  PROVE  ExactlyOnePlace'
  <1> SUFFICES ASSUME NEW d \in Conn, NEW n \in Serial
               PROVE  One(InOutbox(d, n)') + One(InHand(d, n)') + One(held'[d] = n) + InBox(d, n)'
                         = One(fate'[d][n] = "accepted")
    BY AccountsBalance
  <1>1. InOutbox(d, n)' <=> InOutbox(d, n)
    BY DEF InOutbox, Pending, Open
  <1>2. todo'[i] = todo[i] \ {c} /\ \A k \in Instance : k # i => todo'[k] = todo[k]
    BY DEF Delivered, Machine, TypeOK, ThreadTypeOK
  <1>3. CASE d = c /\ n = cursor[i]
    <2>1. ~InHand(d, n)'
      BY <1>2, <1>3, Carried DEF InHand
    <2> QED  BY <1>1, <1>3, <2>1, Carried, OnlyThere DEF Machine, TypeOK, Custody, One
  <1>4. CASE ~(d = c /\ n = cursor[i])
    <2>1. InHand(d, n)' <=> InHand(d, n)
      BY <1>2, <1>4, Carried, RouteEnds DEF InHand
    <2> QED  BY <1>1, <1>4, <2>1, OnlyThere DEF Machine, TypeOK, Custody, One
  <1> QED  BY <1>3, <1>4

\* A round leaves the slots it does not use as they are.
LEMMA SlotsUnchanged ==
  ASSUME Custody, UNCHANGED <<held, cursor>>
  PROVE  Slots'
  BY CustodyParts DEF Slots

\* Loops that stand still give nothing back.
LEMMA StandingStill ==
  ASSUME Machine, UNCHANGED cursor
  PROVE  Advancing
  BY DEF Machine, TypeOK, ThreadTypeOK, Advancing

\* The batch enters the mailbox of its receiver, behind older ones only.
LEMMA DeliverNowCustody ==
  ASSUME Machine, Custody, NEW i \in Instance, DeliverNow(i)
  PROVE  Custody' /\ FateSteps
  <1>1. PICK c \in todo[i] :
           /\ \/ Post(To(c), Delivery(c, cursor[i]))
              \/ PostGranted(i, To(c), Delivery(c, cursor[i]))
           /\ Delivered(i, c)
    BY DEF DeliverNow
  <1>2. UNCHANGED <<pc, emitted, cursor, retry, held, unrouted, up, asked, fate>>
    BY DEF DeliverNow
  <1>3. Puts(To(c), Delivery(c, cursor[i]))
    BY <1>1 DEF Post, PostGranted, Puts
  <1>0. /\ c \in Conn /\ From(c) = i /\ To(c) \in Instance
        /\ cursor[i] \in Serial /\ cursor[i] \in Nat
        /\ \A k \in DOMAIN mbox[To(c)] : mbox[To(c)][k] # Delivery(c, cursor[i])
    BY Carried, Bounds
  <1>4. /\ Delivery(c, cursor[i]) \in Work /\ QueueTypeOK
        /\ OnlyClosing /\ OnlyStarting /\ Advancing
    BY <1>0, <1>2, DeliveryIsWork, StandingStill
       DEF Machine, TypeOK, OnlyClosing, OnlyStarting, Open
  <1>5. \A d \in Conn, n \in Serial : Delivery(c, cursor[i]) = Delivery(d, n)
                                        <=> d = c /\ n = cursor[i]
    BY DEF Delivery
  <1>6. Mail'
    <2>1. ASSUME NEW d \in Conn, NEW n \in Serial, Delivery(c, cursor[i]) = Delivery(d, n)
          PROVE  /\ To(d) = To(c)
                 /\ n <= cursor'[From(d)]
                 /\ Waits(d) => \A k \in DOMAIN mbox[To(c)], m \in Serial :
                                   mbox[To(c)][k] = Delivery(d, m) => m < n
      <3>1. d = c /\ n = cursor[i]
        BY <1>5, <2>1
      <3>2. ASSUME NEW k \in DOMAIN mbox[To(c)], NEW m \in Serial,
                   mbox[To(c)][k] = Delivery(c, m)
            PROVE  m < cursor[i]
        <4>1. m <= cursor[From(c)]
          BY <1>0, <3>2 DEF Custody, OwnMail
        <4>2. m # cursor[i]
          BY <1>0, <3>2
        <4> QED  BY <1>0, <4>1, <4>2, SizeAssumption DEF Serial
      <3>3. \A k \in DOMAIN mbox[To(c)], m \in Serial :
                mbox[To(c)][k] = Delivery(d, m) => m < n
        BY <3>1, <3>2
      <3> QED  BY <1>0, <1>2, <3>1, <3>3
    <2> QED  BY <1>0, <1>3, <1>4, <2>1, MailPost, CustodyParts
  <1>7. \A d \in Conn, n \in Serial :
           InBox(d, n)' = InBox(d, n) + (IF d = c /\ n = cursor[i] THEN 1 ELSE 0)
    <2> SUFFICES ASSUME NEW d \in Conn, NEW n \in Serial
                 PROVE  InBox(d, n)' = InBox(d, n) + (IF d = c /\ n = cursor[i] THEN 1 ELSE 0)
      OBVIOUS
    <2>1. InBox(d, n)' = InBox(d, n)
             + (IF To(d) = To(c) /\ Delivery(c, cursor[i]) = Delivery(d, n) THEN 1 ELSE 0)
      BY <1>0, <1>3, <1>4, InBoxPost
    <2> QED  BY <1>5, <2>1
  <1>8. ExactlyOnePlace'
    BY <1>1, <1>2, <1>7, HandedOver
  <1>9. FatesAreOfEmissions' /\ Reasons' /\ BackpressureIsLossless' /\ FateSteps
    BY <1>2, <1>4, SettlingKeeps
  <1> QED  BY <1>2, <1>6, <1>8, <1>9, SlotsUnchanged, UnroutedUnchanged, CustodyParts

\* Settling one fate leaves the others.
LEMMA SettleOne ==
  ASSUME TypeOK, NEW c \in Conn, NEW n \in Serial, NEW what, fate' = Settle(c, n, what)
  PROVE  /\ fate'[c][n] = what
         /\ \A d \in Conn, m \in Serial : ~(d = c /\ m = n) => fate'[d][m] = fate[d][m]
  BY DEF TypeOK, Settle

\* A batch is discarded: its receiver is gone, or it is the emitter's own mailbox
\* that is full.
LEMMA DeliverDiscardsCustody ==
  ASSUME Machine, Custody, NEW i \in Instance, DeliverGone(i) \/ DeliverSelfFull(i)
  PROVE  Custody' /\ FateSteps
  <1>1. PICK c \in todo[i] :
           /\ Delivered(i, c)
           /\ \/ fate' = Settle(c, cursor[i], "gone") /\ ~Open(To(c))
              \/ fate' = Settle(c, cursor[i], "selfFull")
                 /\ Table[c].overflow = "Backpressure" /\ ~Waits(c)
    BY DEF DeliverGone, DeliverSelfFull, Refused
  <1>2. UNCHANGED <<pc, emitted, cursor, retry, held, unrouted, up, asked, mbox>>
    BY DEF DeliverGone, DeliverSelfFull, Refused, queueVars
  <1>3. /\ c \in Conn /\ From(c) = i /\ To(c) \in Instance /\ cursor[i] \in Serial
        /\ fate[c][cursor[i]] = "accepted"
    BY Carried
  <1>4. /\ fate'[c][cursor[i]] # "accepted" /\ Justified(c, cursor[i])'
        /\ \A d \in Conn, n \in Serial : ~(d = c /\ n = cursor[i]) => fate'[d][n] = fate[d][n]
    <2>0. cursor' = cursor
      BY <1>2
    <2>1. CASE fate' = Settle(c, cursor[i], "gone") /\ ~Open(To(c))
      BY <1>2, <1>3, <2>1, SettleOne DEF Machine, Justified, Open
    <2>2. CASE fate' = Settle(c, cursor[i], "selfFull")
               /\ Table[c].overflow = "Backpressure" /\ ~Waits(c)
      <3>1. To(c) = From(c)
        BY <2>2 DEF Waits
      <3> QED  BY <1>3, <2>0, <2>2, <3>1, SettleOne DEF Machine, Justified
    <2> QED  BY <1>1, <2>1, <2>2
  <1>5. OnlyClosing /\ OnlyStarting /\ Advancing
    BY <1>2, StandingStill DEF OnlyClosing, OnlyStarting, Open
  <1>6. Mail'
    BY <1>2, <1>5, MailUnchanged, CustodyParts
  <1>7. ExactlyOnePlace'
    <2>1. ASSUME NEW d \in Conn, NEW n \in Serial
          PROVE  /\ InBox(d, n)' = InBox(d, n) + (IF d = c /\ n = cursor[i] THEN 0 ELSE 0)
                 /\ fate'[d][n] = "accepted" <=>
                       /\ fate[d][n] = "accepted"
                       /\ d = c /\ n = cursor[i] => 0 = 1
      <3>1. InBox(d, n)' = InBox(d, n) /\ InBox(d, n) \in Nat
        BY <1>2, InBoxUnchanged, InBoxType DEF Machine, TypeOK
      <3> QED  BY <1>4, <3>1
    <2> QED  BY <1>1, <1>2, <2>1, HandedOver
  <1>8. FatesAreOfEmissions' /\ Reasons' /\ BackpressureIsLossless' /\ FateSteps
    BY <1>2, <1>3, <1>4, <1>5, SettlingKeeps
  <1> QED  BY <1>2, <1>6, <1>7, <1>8, SlotsUnchanged, UnroutedUnchanged, CustodyParts

\* A slot is emptied: into the mailbox, or because the receiver is gone.
LEMMA RetryHeldCustody ==
  ASSUME Machine, Custody, NEW i \in Instance, RetryHeld(i)
  PROVE  Custody' /\ FateSteps
  <1>1. PICK c \in retry[i] :
           \/ /\ ~Open(To(c))
              /\ fate' = Settle(c, held[c], "gone")
              /\ held' = [held EXCEPT ![c] = 0]
              /\ UNCHANGED mbox
           \/ /\ Post(To(c), Delivery(c, held[c]))
              /\ held' = [held EXCEPT ![c] = 0]
              /\ UNCHANGED fate
           \/ UNCHANGED <<held, fate, mbox>>
    BY DEF RetryHeld, queueVars
  <1>2. UNCHANGED <<pc, emitted, cursor, todo, unrouted, up, asked>>
    BY DEF RetryHeld
  <1>3. /\ c \in Conn /\ From(c) = i /\ held[c] > 0 /\ To(c) \in Instance
        /\ held[c] \in Serial /\ held[c] \in Nat
    <2>1. c \in Conn /\ From(c) = i /\ held[c] > 0
      BY DEF Machine, TypeOK, ThreadTypeOK, Rounds
    <2> QED  BY <2>1, Bounds, SizeAssumption DEF Serial
  <1>0. PICK h \in Serial : h = held[c]
    BY <1>3
  <1>4. /\ fate[c][h] = "accepted" /\ ~InOutbox(c, h) /\ ~InHand(c, h) /\ InBox(c, h) = 0
        /\ h <= cursor[i] /\ Table[c].overflow = "DropOldest" /\ ~Waits(c)
    <2>1. h <= cursor[i] /\ Table[c].overflow = "DropOldest"
      BY <1>0, <1>3 DEF Custody, OwnMail
    <2> QED  BY <1>0, <1>3, <2>1, OnlyThere DEF Machine, TypeOK, Custody, Waits
  <1>5. OnlyClosing /\ OnlyStarting /\ Advancing
    BY <1>2, StandingStill DEF OnlyClosing, OnlyStarting, Open
  <1>6. CASE UNCHANGED <<held, fate, mbox>>
    <2>1. Mail'
      BY <1>5, <1>6, MailUnchanged, CustodyParts
    <2>2. \A d \in Conn, n \in Serial : InBox(d, n)' = InBox(d, n)
      BY <1>6, InBoxUnchanged
    <2>3. \A k \in Instance : Open(k)' <=> Open(k)
      BY <1>2 DEF Open
    <2> QED  BY <1>2, <1>5, <1>6, <2>1, <2>2, <2>3, QuietKeeps
  <1>7. ASSUME held' = [held EXCEPT ![c] = 0]
        PROVE  /\ Slots'
               /\ \A d \in Conn : held'[d] = IF d = c THEN 0 ELSE held[d]
    <2>1. \A d \in Conn : held'[d] = IF d = c THEN 0 ELSE held[d]
      BY <1>7 DEF Machine, TypeOK, ThreadTypeOK
    <2>2. Slots'
      <3> SUFFICES ASSUME NEW d \in Conn
                   PROVE  /\ held'[d] <= cursor'[From(d)]
                          /\ held'[d] # 0 => Table[d].overflow = "DropOldest"
        BY DEF Slots
      <3> QED  BY <1>2, <2>1, Bounds, CustodyParts DEF Slots
    <2> QED  BY <2>1, <2>2
  <1>8. ASSUME held' = [held EXCEPT ![c] = 0],
               NEW into \in {0, 1},
               \A d \in Conn, n \in Serial :
                  /\ InBox(d, n)' = InBox(d, n) + (IF d = c /\ n = h THEN into ELSE 0)
                  /\ fate'[d][n] = "accepted" <=>
                        /\ fate[d][n] = "accepted"
                        /\ d = c /\ n = h => into = 1
        PROVE  ExactlyOnePlace'
    <2> SUFFICES ASSUME NEW d \in Conn, NEW n \in Serial
                 PROVE  One(InOutbox(d, n)') + One(InHand(d, n)') + One(held'[d] = n) + InBox(d, n)'
                           = One(fate'[d][n] = "accepted")
      BY AccountsBalance
    <2>1. (InOutbox(d, n)' <=> InOutbox(d, n)) /\ (InHand(d, n)' <=> InHand(d, n))
      BY <1>2 DEF InOutbox, Pending, Open, InHand
    <2>2. n # 0
      BY SizeAssumption DEF Serial
    <2>3. CASE d = c /\ n = h
      BY <1>0, <1>3, <1>4, <1>7, <1>8, <2>1, <2>2, <2>3 DEF One
    <2>4. CASE ~(d = c /\ n = h)
      <3>1. held'[d] = n <=> held[d] = n
        BY <1>0, <1>7, <1>8, <2>2, <2>4
      <3> QED  BY <1>8, <2>1, <2>4, <3>1, OnlyThere DEF Machine, TypeOK, Custody, One
    <2> QED  BY <2>3, <2>4
  <1>9. CASE /\ ~Open(To(c))
             /\ fate' = Settle(c, h, "gone")
             /\ held' = [held EXCEPT ![c] = 0]
             /\ UNCHANGED mbox
    <2>1. /\ fate'[c][h] = "gone"
          /\ \A d \in Conn, n \in Serial : ~(d = c /\ n = h) => fate'[d][n] = fate[d][n]
      BY <1>3, <1>9, SettleOne DEF Machine
    <2>2. Justified(c, h)'
      BY <1>2, <1>9, <2>1 DEF Justified, Open
    <2>3. ASSUME NEW d \in Conn, NEW n \in Serial
          PROVE  /\ InBox(d, n)' = InBox(d, n) + (IF d = c /\ n = h THEN 0 ELSE 0)
                 /\ fate'[d][n] = "accepted" <=>
                       /\ fate[d][n] = "accepted"
                       /\ d = c /\ n = h => 0 = 1
      <3>1. InBox(d, n)' = InBox(d, n) /\ InBox(d, n) \in Nat
        BY <1>9, InBoxUnchanged, InBoxType DEF Machine, TypeOK
      <3> QED  BY <2>1, <3>1
    <2>4. ExactlyOnePlace'
      BY <1>8, <1>9, <2>3
    <2>5. Mail'
      BY <1>5, <1>9, MailUnchanged, CustodyParts
    <2>6. FatesAreOfEmissions' /\ Reasons' /\ BackpressureIsLossless' /\ FateSteps
      BY <1>2, <1>4, <1>5, <2>1, <2>2, SettlingKeeps
    <2> QED  BY <1>2, <1>7, <1>9, <2>4, <2>5, <2>6, UnroutedUnchanged, CustodyParts
  <1>10. CASE /\ Post(To(c), Delivery(c, h))
              /\ held' = [held EXCEPT ![c] = 0]
              /\ UNCHANGED fate
    <2>1. Puts(To(c), Delivery(c, h)) /\ Delivery(c, h) \in Work /\ QueueTypeOK
      BY <1>3, <1>10, DeliveryIsWork DEF Post, Puts, Machine, TypeOK
    <2>2. \A d \in Conn, n \in Serial : Delivery(c, h) = Delivery(d, n) <=> d = c /\ n = h
      BY DEF Delivery
    <2>3. ASSUME NEW d \in Conn, NEW n \in Serial
          PROVE  /\ InBox(d, n)' = InBox(d, n) + (IF d = c /\ n = h THEN 1 ELSE 0)
                 /\ fate'[d][n] = "accepted" <=>
                       /\ fate[d][n] = "accepted"
                       /\ d = c /\ n = h => 1 = 1
      <3>1. InBox(d, n)' = InBox(d, n)
               + (IF To(d) = To(c) /\ Delivery(c, h) = Delivery(d, n) THEN 1 ELSE 0)
        BY <1>3, <2>1, InBoxPost
      <3> QED  BY <1>10, <2>2, <3>1
    <2>4. ExactlyOnePlace'
      BY <1>8, <1>10, <2>3
    <2>5. Mail'
      <3>1. \A d \in Conn, n \in Serial : Delivery(c, h) = Delivery(d, n) =>
               To(d) = To(c) /\ n <= cursor'[From(d)] /\ ~Waits(d)
        BY <1>2, <1>3, <1>4, <2>2
      <3> QED  BY <1>3, <1>5, <2>1, <3>1, MailPost, CustodyParts
    <2>6. FatesAreOfEmissions' /\ Reasons' /\ BackpressureIsLossless' /\ FateSteps
      BY <1>2, <1>5, <1>10, SettlingKeeps
    <2> QED  BY <1>2, <1>7, <1>10, <2>4, <2>5, <2>6, UnroutedUnchanged, CustodyParts
  <1> QED  BY <1>0, <1>1, <1>6, <1>9, <1>10

\* The newest batch takes the slot, and what it finds there is the one that overflows.
LEMMA DeliverHoldsCustody ==
  ASSUME Machine, Custody, NEW i \in Instance, DeliverHolds(i)
  PROVE  Custody' /\ FateSteps
  <1>1. PICK c \in todo[i] :
           /\ Delivered(i, c)
           /\ Table[c].overflow = "DropOldest"
           /\ fate' = IF held[c] = 0 THEN fate ELSE Settle(c, held[c], "overflow")
           /\ held' = [held EXCEPT ![c] = cursor[i]]
    BY DEF DeliverHolds
  <1>2. UNCHANGED <<pc, emitted, cursor, retry, unrouted, up, asked, mbox>>
    BY DEF DeliverHolds, queueVars
  <1>3. /\ c \in Conn /\ From(c) = i /\ To(c) \in Instance /\ cursor[i] \in Serial
        /\ cursor[i] \in Nat /\ fate[c][cursor[i]] = "accepted" /\ InHand(c, cursor[i])
        /\ held[c] # cursor[i] /\ InBox(c, cursor[i]) = 0
        /\ held[c] \in Nat /\ held[c] <= MaxEmit
    BY Carried, Bounds
  <1>4. held[c] < cursor[i]
    BY <1>3 DEF Custody, OwnMail
  <1>5. /\ held'[c] = cursor[i]
        /\ \A d \in Conn : d # c => held'[d] = held[d]
        /\ todo'[i] = todo[i] \ {c} /\ \A k \in Instance : k # i => todo'[k] = todo[k]
    BY <1>1, <1>3 DEF Delivered, Machine, TypeOK, ThreadTypeOK
  <1>6. OnlyClosing /\ OnlyStarting /\ Advancing
    BY <1>2, StandingStill DEF OnlyClosing, OnlyStarting, Open
  <1>7. ASSUME NEW d \in Conn, NEW n \in Serial, d = c, n = held[c]
        PROVE  /\ fate[d][n] = "accepted" /\ fate'[d][n] = "overflow"
               /\ ~InOutbox(d, n) /\ ~InHand(d, n) /\ InBox(d, n) = 0
    <2>1. /\ fate[d][n] = "accepted" /\ ~InOutbox(d, n) /\ ~InHand(d, n) /\ InBox(d, n) = 0
      BY <1>3, <1>7, OnlyThere DEF Machine, TypeOK, Custody
    <2>2. fate' = Settle(c, n, "overflow")
      BY <1>1, <1>3, <1>7, SizeAssumption DEF Serial
    <2> QED  BY <1>7, <2>1, <2>2, SettleOne DEF Machine
  <1>8. ASSUME NEW d \in Conn, NEW n \in Serial, ~(d = c /\ n = held[c])
        PROVE  fate'[d][n] = fate[d][n]
    BY <1>1, <1>3, <1>8 DEF Settle, Machine, TypeOK
  <1>9. ASSUME NEW d \in Conn, NEW n \in Serial, fate'[d][n] # fate[d][n]
        PROVE  fate[d][n] = "accepted" /\ Justified(d, n)'
    <2>1. d = c /\ n = held[c]
      BY <1>8, <1>9
    <2>2. fate'[c][cursor[i]] = "accepted"
      BY <1>3, <1>8
    <2>3. cursor[i] > n
      BY <1>3, <1>4, <2>1
    <2> QED  BY <1>1, <1>3, <1>7, <2>1, <2>2, <2>3 DEF Justified
  <1>10. FatesAreOfEmissions' /\ Reasons' /\ BackpressureIsLossless' /\ FateSteps
    BY <1>2, <1>6, <1>9, SettlingKeeps
  <1>11. Mail'
    BY <1>2, <1>6, MailUnchanged, CustodyParts
  <1>12. Slots'
    <2> SUFFICES ASSUME NEW d \in Conn
                 PROVE  /\ held'[d] <= cursor'[From(d)]
                        /\ held'[d] # 0 => Table[d].overflow = "DropOldest"
      BY DEF Slots
    <2> QED  BY <1>1, <1>2, <1>3, <1>5, CustodyParts DEF Slots
  <1>13. ExactlyOnePlace'
    <2> SUFFICES ASSUME NEW d \in Conn, NEW n \in Serial
                 PROVE  One(InOutbox(d, n)') + One(InHand(d, n)') + One(held'[d] = n) + InBox(d, n)'
                           = One(fate'[d][n] = "accepted")
      BY AccountsBalance
    <2>1. (InOutbox(d, n)' <=> InOutbox(d, n)) /\ InBox(d, n)' = InBox(d, n)
      BY <1>2, InBoxUnchanged DEF InOutbox, Pending, Open
    <2>2. CASE d = c /\ n = cursor[i]
      <3>1. ~InHand(d, n)' /\ held'[d] = n /\ fate'[d][n] = fate[d][n]
        BY <1>2, <1>3, <1>5, <1>8, <2>2 DEF InHand
      <3>2. ~InOutbox(d, n)
        BY <1>3, <2>2, OnlyThere DEF Machine, TypeOK, Custody
      <3> QED  BY <1>3, <2>1, <2>2, <3>1, <3>2 DEF One
    <2>3. CASE d = c /\ n = held[c]
      <3>1. ~InHand(d, n)' /\ held'[d] # n
        BY <1>2, <1>3, <1>5, <2>3 DEF InHand
      <3>2. /\ ~InOutbox(d, n) /\ InBox(d, n) = 0 /\ fate'[d][n] = "overflow"
        BY <1>7, <2>3
      <3> QED  BY <2>1, <3>1, <3>2 DEF One
    <2>4. CASE ~(d = c /\ n = cursor[i]) /\ ~(d = c /\ n = held[c])
      <3>1. InHand(d, n)' <=> InHand(d, n)
        BY <1>2, <1>3, <1>5, <2>4, RouteEnds DEF InHand
      <3>2. (held'[d] = n <=> held[d] = n) /\ fate'[d][n] = fate[d][n]
        BY <1>5, <1>8, <2>4
      <3> QED  BY <2>1, <3>1, <3>2, OnlyThere DEF Machine, TypeOK, Custody, One
    <2> QED  BY <2>2, <2>3, <2>4
  <1> QED  BY <1>2, <1>10, <1>11, <1>12, <1>13, UnroutedUnchanged, CustodyParts

\* The loop takes up the next emission: from the pending ones into the hand, for the
\* connections of its port.
LEMMA NextEmissionCustody ==
  ASSUME Machine, Custody, NEW i \in Instance, NextEmission(i)
  PROVE  Custody' /\ FateSteps
  <1> DEFINE x == cursor[i] + 1
             p == emitted[i][x]
  <1>1. /\ Routing(i) /\ todo[i] = {} /\ cursor[i] < Len(emitted[i])
        /\ cursor' = [cursor EXCEPT ![i] = cursor[i] + 1]
        /\ todo' = [todo EXCEPT ![i] = Targets(i, p)]
        /\ unrouted' = [unrouted EXCEPT ![i] =
              IF p = ErrPort /\ Targets(i, p) = {} THEN unrouted[i] + 1 ELSE unrouted[i]]
        /\ UNCHANGED <<pc, emitted, retry, held, queueVars, up, asked, fate>>
    BY DEF NextEmission
  <1>2. /\ cursor[i] \in Nat /\ x \in Nat
        /\ \A k \in Instance : cursor[k] \in Nat
        /\ \A k \in Instance : cursor'[k] = IF k = i THEN x ELSE cursor[k]
        /\ \A k \in Instance : todo'[k] = IF k = i THEN Targets(i, p) ELSE todo[k]
    BY <1>1 DEF Machine, TypeOK, ThreadTypeOK
  <1>3. OnlyClosing /\ OnlyStarting /\ Advancing
    BY <1>1, <1>2 DEF OnlyClosing, OnlyStarting, Open, Advancing
  <1>4. FatesAreOfEmissions' /\ Reasons' /\ BackpressureIsLossless' /\ FateSteps
    BY <1>1, <1>3, SettlingKeeps
  <1>5. Mail'
    BY <1>1, <1>3, MailUnchanged, CustodyParts DEF queueVars
  <1>6. Slots'
    <2> SUFFICES ASSUME NEW c \in Conn
                 PROVE  /\ held'[c] <= cursor'[From(c)]
                        /\ held'[c] # 0 => Table[c].overflow = "DropOldest"
      BY DEF Slots
    <2> QED  BY <1>1, <1>2, Bounds, CustodyParts DEF Slots
  <1>7. ExactlyOnePlace'
    <2> SUFFICES ASSUME NEW c \in Conn, NEW n \in Serial
                 PROVE  One(InOutbox(c, n)') + One(InHand(c, n)') + One(held'[c] = n) + InBox(c, n)'
                           = One(fate'[c][n] = "accepted")
      BY AccountsBalance
    <2>1. InBox(c, n)' = InBox(c, n) /\ held'[c] = held[c] /\ fate'[c][n] = fate[c][n]
      BY <1>1, InBoxUnchanged DEF queueVars
    <2>2. n \in Nat /\ From(c) \in Instance
      BY RouteEnds, SizeAssumption DEF Serial
    <2>3. CASE From(c) = i /\ n = x
      <3>1. ~InHand(c, n) /\ (InHand(c, n)' <=> c \in Targets(i, p))
        BY <1>1, <1>2, <2>3 DEF InHand
      <3>2. c \in Targets(i, p) <=> p = Table[c].port
        BY <2>3 DEF Targets
      <3>3. InOutbox(c, n) <=> p = Table[c].port
        <4>1. Open(From(c)) /\ n > cursor[i] /\ n <= Len(emitted[i])
          BY <1>1, <1>2, <2>3, Bounds DEF Open, Routing
        <4> QED  BY <2>3, <4>1 DEF InOutbox, Pending
      <3>4. ~InOutbox(c, n)'
        BY <1>2, <2>3 DEF InOutbox, Pending
      <3> QED  BY <2>1, <3>1, <3>2, <3>3, <3>4, OnlyThere DEF Machine, TypeOK, Custody, One
    <2>4. CASE From(c) = i /\ n # x
      <3>1. ~InHand(c, n) /\ ~InHand(c, n)'
        BY <1>1, <1>2, <2>4 DEF InHand
      <3>2. InOutbox(c, n)' <=> InOutbox(c, n)
        BY <1>1, <1>2, <2>2, <2>4 DEF InOutbox, Pending, Open
      <3> QED  BY <2>1, <3>1, <3>2, OnlyThere DEF Machine, TypeOK, Custody, One
    <2>5. CASE From(c) # i
      <3>1. (InOutbox(c, n)' <=> InOutbox(c, n)) /\ (InHand(c, n)' <=> InHand(c, n))
        BY <1>1, <1>2, <2>2, <2>5 DEF InOutbox, Pending, Open, InHand
      <3> QED  BY <2>1, <3>1, OnlyThere DEF Machine, TypeOK, Custody, One
    <2> QED  BY <2>3, <2>4, <2>5
  <1>8. Unrouted'
    <2> SUFFICES ASSUME NEW k \in Instance
                 PROVE  unrouted'[k] = Cardinality(Unwired(k, cursor[k])')
      BY DEF Unrouted, Unwired
    <2>1. unrouted[k] = Cardinality(Unwired(k, cursor[k])) /\ unrouted[k] \in Nat
      BY CustodyParts DEF Unrouted, Machine, TypeOK, ThreadTypeOK
    <2>2. CASE k # i
      <3>1. unrouted'[k] = unrouted[k] /\ cursor'[k] = cursor[k] /\ emitted' = emitted
        BY <1>1, <1>2, <2>2 DEF Machine, TypeOK, ThreadTypeOK
      <3>2. Unwired(k, cursor[k])' = Unwired(k, cursor[k])
        BY <3>1 DEF Unwired
      <3> QED  BY <2>1, <3>1, <3>2
    <2>3. CASE k = i
      <3>0. emitted' = emitted /\ cursor'[i] = x
        BY <1>1, <1>2
      <3>1. IsFiniteSet(Unwired(i, cursor[i]))
        <4>0. 1 \in Int /\ cursor[i] \in Int
          BY <1>2
        <4>1. IsFiniteSet(1..cursor[i])
          BY <4>0, FS_Interval
        <4> QED  BY <4>1, FS_Subset DEF Unwired
      <3>2. x \notin Unwired(i, cursor[i])
        BY <1>2 DEF Unwired
      <3>3. CASE p = ErrPort /\ Targets(i, p) = {}
        <4>1. Unwired(i, cursor[i])' = Unwired(i, cursor[i]) \cup {x}
          BY <1>2, <3>0, <3>3 DEF Unwired
        <4>2. unrouted'[i] = unrouted[i] + 1
          BY <1>1, <3>3 DEF Machine, TypeOK, ThreadTypeOK
        <4> DEFINE U == Unwired(i, cursor[i])
        <4>3. IsFiniteSet(U) /\ x \notin U
          BY <3>1, <3>2
        <4> HIDE DEF U
        <4>4. Cardinality(U \cup {x}) = Cardinality(U) + 1
          BY <4>3, FS_AddElement
        <4>5. Cardinality(Unwired(i, cursor[i])') = unrouted[i] + 1
          BY <2>1, <2>3, <4>1, <4>4 DEF U
        <4> QED  BY <2>3, <4>2, <4>5
      <3>4. CASE ~(p = ErrPort /\ Targets(i, p) = {})
        <4>1. Unwired(i, cursor[i])' = Unwired(i, cursor[i])
          BY <1>2, <3>0, <3>4 DEF Unwired
        <4>2. unrouted'[i] = unrouted[i]
          BY <1>1, <3>4 DEF Machine, TypeOK, ThreadTypeOK
        <4> QED  BY <2>1, <2>3, <4>1, <4>2
      <3> QED  BY <3>3, <3>4
    <2> QED  BY <2>2, <2>3
  <1> QED  BY <1>4, <1>5, <1>6, <1>7, <1>8, CustodyParts

\* A thread returns: what was queued for it and what its outlet holds goes with it.
LEMMA EndCustody ==
  ASSUME Machine, Custody, NEW i \in Instance, End(i),
         UNCHANGED <<emitted, cursor, todo, retry, unrouted, up, asked>>,
         todo[i] = {}, cursor[i] = Len(emitted[i])
  PROVE  Custody' /\ FateSteps
  <1>1. /\ Close(i)
        /\ held' = [c \in Conn |-> IF From(c) = i THEN 0 ELSE held[c]]
        /\ fate' = [c \in Conn |-> [n \in Serial |->
                       IF Queued(i, c, n) THEN "withQueue"
                       ELSE IF From(c) = i /\ held[c] = n THEN "withOutlet"
                       ELSE fate[c][n]]]
    BY DEF End
  <1>2. /\ \A k \in Instance : pc'[k] = IF k = i THEN "ended" ELSE pc[k]
        /\ mbox' = [mbox EXCEPT ![i] = <<>>]
    BY <1>1 DEF Close, Machine, TypeOK, ThreadTypeOK
  <1>3. OnlyClosing /\ OnlyStarting /\ Advancing
    BY <1>2, StandingStill DEF OnlyClosing, OnlyStarting, Open
  <1>4. ASSUME NEW c \in Conn, NEW n \in Serial
        PROVE  /\ Queued(i, c, n) <=> To(c) = i /\ InBox(c, n) > 0
               /\ InBox(c, n)' = IF To(c) = i THEN 0 ELSE InBox(c, n)
               /\ held'[c] = IF From(c) = i THEN 0 ELSE held[c]
               /\ fate'[c][n] = IF Queued(i, c, n) THEN "withQueue"
                                ELSE IF From(c) = i /\ held[c] = n THEN "withOutlet"
                                ELSE fate[c][n]
               /\ n \in Nat /\ n # 0
    <2>1. Queued(i, c, n) => To(c) = i
      BY DEF Queued, Custody, OwnMail
    <2>2. To(c) = i => (Queued(i, c, n) <=> InBox(c, n) > 0)
      BY InBoxType DEF Queued, Machine, TypeOK
    <2>3. InBox(c, n)' = IF To(c) = i THEN 0 ELSE InBox(c, n)
      BY <1>1, InBoxClose DEF Machine, TypeOK
    <2> QED  BY <1>1, <2>1, <2>2, <2>3, SizeAssumption DEF Serial
  <1>5. ASSUME NEW c \in Conn, NEW n \in Serial, fate'[c][n] # fate[c][n]
        PROVE  fate[c][n] = "accepted" /\ Justified(c, n)'
    <2>1. CASE Queued(i, c, n)
      <3>1. fate[c][n] = "accepted"
        BY <1>4, <2>1, OnlyThere DEF Machine, TypeOK, Custody
      <3>2. fate'[c][n] = "withQueue" /\ ~Open(To(c))'
        BY <1>2, <1>4, <2>1, RouteEnds DEF Open
      <3> QED  BY <3>1, <3>2 DEF Justified
    <2>2. CASE ~Queued(i, c, n)
      <3>1. From(c) = i /\ held[c] = n
        BY <1>4, <1>5, <2>2
      <3>2. fate[c][n] = "accepted" /\ Table[c].overflow = "DropOldest"
        BY <1>4, <3>1, OnlyThere DEF Machine, TypeOK, Custody, OwnMail
      <3>3. fate'[c][n] = "withOutlet" /\ ~Open(From(c))'
        BY <1>2, <1>4, <2>2, <3>1 DEF Open
      <3> QED  BY <3>2, <3>3 DEF Justified
    <2> QED  BY <2>1, <2>2
  <1>6. FatesAreOfEmissions' /\ Reasons' /\ BackpressureIsLossless' /\ FateSteps
    BY <1>3, <1>5, SettlingKeeps
  <1>7. Mail'
    BY <1>1, <1>3, MailClose, CustodyParts DEF Machine, TypeOK
  <1>8. Slots'
    <2> SUFFICES ASSUME NEW c \in Conn
                 PROVE  /\ held'[c] <= cursor'[From(c)]
                        /\ held'[c] # 0 => Table[c].overflow = "DropOldest"
      BY DEF Slots
    <2> QED  BY <1>1, Bounds, CustodyParts DEF Slots
  <1>9. ExactlyOnePlace'
    <2> SUFFICES ASSUME NEW c \in Conn, NEW n \in Serial
                 PROVE  One(InOutbox(c, n)') + One(InHand(c, n)') + One(held'[c] = n) + InBox(c, n)'
                           = One(fate'[c][n] = "accepted")
      BY AccountsBalance
    <2>1. (InOutbox(c, n)' <=> InOutbox(c, n)) /\ (InHand(c, n)' <=> InHand(c, n))
      <3>1. InHand(c, n)' <=> InHand(c, n)
        BY DEF InHand
      <3>2. CASE From(c) = i
        <4>1. ~InOutbox(c, n)'
          BY <1>2, <3>2 DEF InOutbox, Open
        <4>2. ~Pending(c, n)
          BY <1>4, <3>2, Bounds DEF Pending
        <4> QED  BY <3>1, <4>1, <4>2 DEF InOutbox
      <3>3. CASE From(c) # i
        <4>1. Open(From(c))' <=> Open(From(c))
          BY <1>2, <3>3, RouteEnds DEF Open
        <4>2. Pending(c, n)' <=> Pending(c, n)
          BY DEF Pending
        <4> QED  BY <3>1, <4>1, <4>2 DEF InOutbox
      <3> QED  BY <3>1, <3>2, <3>3
    <2>2. CASE Queued(i, c, n)
      <3>1. /\ InBox(c, n)' = 0 /\ fate'[c][n] = "withQueue"
            /\ ~InOutbox(c, n) /\ ~InHand(c, n) /\ held[c] # n
        BY <1>4, <2>2, OnlyThere DEF Machine, TypeOK, Custody
      <3>2. held'[c] # n
        BY <1>4, <3>1
      <3> QED  BY <2>1, <3>1, <3>2 DEF One
    <2>3. CASE ~Queued(i, c, n) /\ From(c) = i /\ held[c] = n
      <3>1. /\ InBox(c, n)' = 0 /\ fate'[c][n] = "withOutlet"
            /\ ~InOutbox(c, n) /\ ~InHand(c, n) /\ held'[c] # n
        BY <1>4, <2>3, OnlyThere DEF Machine, TypeOK, Custody
      <3> QED  BY <2>1, <3>1 DEF One
    <2>4. CASE ~Queued(i, c, n) /\ ~(From(c) = i /\ held[c] = n)
      <3>1. /\ InBox(c, n)' = InBox(c, n) /\ fate'[c][n] = fate[c][n]
            /\ held'[c] = n <=> held[c] = n
        BY <1>4, <2>4, OnlyThere DEF Machine, TypeOK, Custody
      <3> QED  BY <2>1, <3>1, OnlyThere DEF Machine, TypeOK, Custody, One
    <2> QED  BY <2>2, <2>3, <2>4
  <1> QED  BY <1>6, <1>7, <1>8, <1>9, UnroutedUnchanged, CustodyParts

\* What the callbacks of one step of i emitted: the emissions join the earlier ones.
LEMMA Collected ==
  ASSUME Machine, NEW i \in Instance, NEW e \in Bursts(i), Collect(i, e)
  PROVE  /\ Len(e) \in Nat /\ Len(emitted[i]) \in Nat
         /\ Len(emitted'[i]) = Len(emitted[i]) + Len(e)
         /\ \A n \in Nat : n > 0 /\ n <= Len(emitted[i]) => emitted'[i][n] = emitted[i][n]
         /\ \A n \in Nat : n > Len(emitted[i]) /\ n <= Len(emitted[i]) + Len(e)
                              => emitted'[i][n] = e[n - Len(emitted[i])]
         /\ \A k \in Instance : k # i => emitted'[k] = emitted[k]
  <1>1. PICK k \in 0..MaxBurst : e \in [1..k -> Outputs[i]]
    BY DEF Bursts
  <1>2. e \in [1..k -> Port] /\ k \in Nat
    BY <1>1, TableAssumption, SizeAssumption
  <1>3. e \in Seq(Port) /\ emitted[i] \in Seq(Port)
    BY <1>2, SeqDef DEF Machine, TypeOK, ThreadTypeOK
  <1>4. /\ Len(e) \in Nat /\ Len(emitted[i]) \in Nat
        /\ Len(emitted[i] \o e) = Len(emitted[i]) + Len(e)
        /\ \A n \in 1..(Len(emitted[i]) + Len(e)) : (emitted[i] \o e)[n] =
              IF n <= Len(emitted[i]) THEN emitted[i][n] ELSE e[n - Len(emitted[i])]
    BY <1>3, LenProperties, ConcatProperties
  <1>5. /\ emitted'[i] = emitted[i] \o e
        /\ \A k2 \in Instance : k2 # i => emitted'[k2] = emitted[k2]
    BY DEF Collect, Machine, TypeOK, ThreadTypeOK
  <1> QED  BY <1>4, <1>5

\* What had been emitted and taken up is what it was, so the count stands.
LEMMA UnroutedCollected ==
  ASSUME Machine, Custody, NEW i \in Instance, NEW e \in Bursts(i), Collect(i, e),
         UNCHANGED <<cursor, unrouted>>
  PROVE  Unrouted'
  <1> SUFFICES ASSUME NEW k \in Instance
               PROVE  Unwired(k, cursor[k])' = Unwired(k, cursor[k])
    BY CustodyParts DEF Unrouted
  <1>1. cursor[k] \in Nat /\ cursor[k] <= Len(emitted[k])
    BY DEF Machine, TypeOK, ThreadTypeOK
  <1>2. CASE k = i
    <2>1. \A n \in 1..cursor[k] : emitted'[k][n] = emitted[k][n]
      <3>1. \A n \in Nat : n > 0 /\ n <= Len(emitted[i]) => emitted'[i][n] = emitted[i][n]
        BY Collected
      <3>2. \A n \in 1..cursor[k] : n \in Nat /\ n > 0 /\ n <= Len(emitted[i])
        <4>1. Len(emitted[i]) \in Nat
          BY Collected
        <4> QED  BY <1>1, <1>2, <4>1
      <3> QED  BY <1>2, <3>1, <3>2
    <2> QED  BY <2>1 DEF Unwired
  <1>3. CASE k # i
    <2>1. emitted'[k] = emitted[k]
      BY <1>3, Collected
    <2> QED  BY <2>1 DEF Unwired
  <1> QED  BY <1>2, <1>3

\* An instance that has not started has no batch anywhere.
LEMMA NothingBeforeStart ==
  ASSUME Machine, Custody, NEW i \in Instance, pc[i] \in {"unborn", "starting"},
         NEW c \in Conn, From(c) = i, NEW n \in Serial
  PROVE  /\ Len(emitted[i]) = 0 /\ cursor[i] = 0 /\ todo[i] = {} /\ i \notin up
         /\ fate[c][n] = "none" /\ InBox(c, n) = 0 /\ held[c] # n
         /\ ~InOutbox(c, n) /\ ~InHand(c, n)
  <1>1. emitted[i] = <<>>
    BY DEF Custody, FatesAreOfEmissions
  <1>2. Len(emitted[i]) = 0 /\ cursor[i] = 0 /\ todo[i] = {} /\ i \notin up
    BY <1>1, EmptySeq DEF Machine, TypeOK, ThreadTypeOK, Rounds, Routing
  <1>3. fate[c][n] = "none"
    BY <1>2, SizeAssumption DEF Custody, FatesAreOfEmissions, Serial
  <1> QED  BY <1>2, <1>3, OnlyThere DEF Machine, TypeOK, Custody

\* A thread that does not come up ends before it took up any emission.
LEMMA StartFailsCustody ==
  ASSUME Machine, Custody, NEW i \in Instance, StartFails(i)
  PROVE  Custody' /\ FateSteps
  <1>1. PICK e \in Bursts(i) :
           /\ Collect(i, e)
           /\ fate' = [c \in Conn |-> [n \in Serial |->
                 IF Queued(i, c, n) THEN "withQueue"
                 ELSE IF From(c) = i /\ Accept(i, e, fate)[c][n] = "accepted"
                 THEN "withStart" ELSE fate[c][n]]]
    BY DEF StartFails
  <1>2. /\ pc[i] = "starting" /\ Close(i)
        /\ UNCHANGED <<cursor, todo, retry, held, up, asked, unrouted>>
        /\ \A k \in Instance : pc'[k] = IF k = i THEN "ended" ELSE pc[k]
    BY DEF StartFails, Close, Machine, TypeOK, ThreadTypeOK
  <1>3. OnlyClosing /\ OnlyStarting /\ Advancing
    BY <1>2, StandingStill DEF OnlyClosing, OnlyStarting, Open
  <1>4. ASSUME NEW c \in Conn, NEW n \in Serial
        PROVE  /\ Queued(i, c, n) <=> To(c) = i /\ InBox(c, n) > 0
               /\ InBox(c, n)' = IF To(c) = i THEN 0 ELSE InBox(c, n)
               /\ fate'[c][n] = IF Queued(i, c, n) THEN "withQueue"
                                ELSE IF /\ From(c) = i /\ n <= Len(emitted'[i])
                                        /\ e[n] = Table[c].port
                                THEN "withStart" ELSE fate[c][n]
               /\ n \in Nat /\ n # 0
    <2>1. Queued(i, c, n) => To(c) = i
      BY DEF Queued, Custody, OwnMail
    <2>2. To(c) = i => (Queued(i, c, n) <=> InBox(c, n) > 0)
      BY InBoxType DEF Queued, Machine, TypeOK
    <2>3. InBox(c, n)' = IF To(c) = i THEN 0 ELSE InBox(c, n)
      BY <1>2, InBoxClose DEF Machine, TypeOK
    <2>4. n \in Nat /\ n # 0
      BY SizeAssumption DEF Serial
    <2>5. From(c) = i => (Accept(i, e, fate)[c][n] = "accepted"
                            <=> n <= Len(emitted'[i]) /\ e[n] = Table[c].port)
      <3> SUFFICES ASSUME From(c) = i
                   PROVE  Accept(i, e, fate)[c][n] = "accepted"
                            <=> n <= Len(emitted'[i]) /\ e[n] = Table[c].port
        OBVIOUS
      <3>1. Len(emitted[i]) = 0 /\ fate[c][n] = "none"
        BY <1>2, NothingBeforeStart
      <3>2. Len(e) \in Nat /\ Len(emitted'[i]) = Len(e)
        BY <1>1, <3>1, Collected
      <3>3. Accept(i, e, fate)[c][n] = IF n > 0 /\ n <= Len(e) /\ e[n - 0] = Table[c].port
                                        THEN "accepted" ELSE "none"
        BY <3>1, <3>2 DEF Accept
      <3> QED  BY <2>4, <3>2, <3>3
    <2> QED  BY <1>1, <2>1, <2>2, <2>3, <2>4, <2>5
  <1>5. ASSUME NEW c \in Conn, NEW n \in Serial, fate'[c][n] # fate[c][n]
        PROVE  \/ fate[c][n] = "accepted" /\ fate'[c][n] = "withQueue" /\ Justified(c, n)'
               \/ /\ From(c) = i /\ fate[c][n] = "none" /\ fate'[c][n] = "withStart"
                  /\ ~Open(From(c))' /\ n <= Len(emitted'[i])
    <2>1. CASE Queued(i, c, n)
      <3>1. fate[c][n] = "accepted"
        BY <1>4, <2>1, OnlyThere DEF Machine, TypeOK, Custody
      <3>2. fate'[c][n] = "withQueue" /\ ~Open(To(c))'
        BY <1>2, <1>4, <2>1, RouteEnds DEF Open
      <3> QED  BY <3>1, <3>2 DEF Justified
    <2>2. CASE ~Queued(i, c, n)
      <3>1. From(c) = i /\ fate'[c][n] = "withStart" /\ n <= Len(emitted'[i])
        BY <1>4, <1>5, <2>2
      <3>2. fate[c][n] = "none"
        BY <1>2, <3>1, NothingBeforeStart
      <3> QED  BY <1>2, <3>1, <3>2 DEF Open
    <2> QED  BY <2>1, <2>2
  <1>6. Reasons'
    BY <1>3, <1>5, ReasonsKept
  <1>7. FatesAreOfEmissions'
    <2>1. ASSUME NEW c \in Conn, NEW n \in Serial
          PROVE  /\ n > Len(emitted'[From(c)]) => fate'[c][n] = "none"
                 /\ From(c) \notin up' => fate'[c][n] \in {"none", "withStart"}
                 /\ From(c) \in up' => fate'[c][n] # "withStart"
      <3>1. CASE From(c) = i
        <4>1. fate[c][n] = "none" /\ i \notin up
          BY <1>2, <3>1, NothingBeforeStart
        <4>2. fate'[c][n] \in {"none", "withStart"}
          BY <1>5, <4>1
        <4>3. n > Len(emitted'[i]) => fate'[c][n] = "none"
          BY <1>4, <1>5, <4>1, <1>1, Collected
        <4> QED  BY <1>2, <3>1, <4>1, <4>2, <4>3
      <3>2. CASE From(c) # i
        <4>1. emitted'[From(c)] = emitted[From(c)]
          BY <1>1, <3>2, RouteEnds, Collected
        <4>2. fate'[c][n] = fate[c][n] \/ (fate[c][n] = "accepted" /\ fate'[c][n] = "withQueue")
          BY <1>5, <3>2
        <4> QED  BY <1>2, <4>1, <4>2 DEF Custody, FatesAreOfEmissions
      <3> QED  BY <3>1, <3>2
    <2>2. ASSUME NEW k \in Instance
          PROVE  /\ pc'[k] \in {"unborn", "starting"} => emitted'[k] = <<>>
                 /\ pc'[k] \in {"routing", "idle", "closing"} => k \in up'
      BY <1>1, <1>2, Collected DEF Custody, FatesAreOfEmissions
    <2> QED  BY <2>1, <2>2 DEF FatesAreOfEmissions
  <1>8. BackpressureIsLossless'
    <2> SUFFICES ASSUME NEW c \in Conn, Waits(c), NEW n \in Serial, fate'[c][n] = "handled",
                        NEW m \in 1..(n - 1)
                 PROVE  fate'[c][m] \in {"none", "handled"}
      BY DEF BackpressureIsLossless
    <2>1. m \in Serial
      BY SizeAssumption DEF Serial
    <2>2. fate[c][n] = "handled"
      BY <1>5
    <2>3. fate[c][m] \in {"none", "handled"}
      BY <2>2 DEF Custody, BackpressureIsLossless
    <2>4. From(c) # i
      BY <1>2, <2>2, NothingBeforeStart
    <2> QED  BY <1>5, <2>1, <2>3, <2>4
  <1>9. Mail'
    BY <1>2, <1>3, MailClose, CustodyParts DEF Machine, TypeOK
  <1>10. Slots' /\ Unrouted'
    BY <1>1, <1>2, SlotsUnchanged, UnroutedCollected
  <1>11. ExactlyOnePlace'
    <2> SUFFICES ASSUME NEW c \in Conn, NEW n \in Serial
                 PROVE  One(InOutbox(c, n)') + One(InHand(c, n)') + One(held'[c] = n) + InBox(c, n)'
                           = One(fate'[c][n] = "accepted")
      BY AccountsBalance
    <2>1. (InHand(c, n)' <=> InHand(c, n)) /\ held'[c] = held[c]
      BY <1>2 DEF InHand
    <2>2. CASE From(c) = i
      <3>1. ~InOutbox(c, n)'
        BY <1>2, <2>2 DEF InOutbox, Open
      <3>2. /\ ~InHand(c, n) /\ held[c] # n /\ InBox(c, n) = 0 /\ fate[c][n] = "none"
        BY <1>2, <2>2, NothingBeforeStart
      <3>3. InBox(c, n)' = 0 /\ fate'[c][n] # "accepted"
        BY <1>4, <1>5, <3>2
      <3> QED  BY <2>1, <3>1, <3>2, <3>3 DEF One
    <2>3. CASE From(c) # i
      <3>1. InOutbox(c, n)' <=> InOutbox(c, n)
        <4>1. Open(From(c))' <=> Open(From(c))
          BY <1>2, <2>3, RouteEnds DEF Open
        <4>2. emitted'[From(c)] = emitted[From(c)] /\ cursor' = cursor
          BY <1>1, <1>2, <2>3, RouteEnds, Collected
        <4>3. Pending(c, n)' <=> Pending(c, n)
          BY <4>2 DEF Pending
        <4> QED  BY <4>1, <4>3 DEF InOutbox
      <3>2. CASE Queued(i, c, n)
        <4>1. /\ InBox(c, n)' = 0 /\ fate'[c][n] = "withQueue"
              /\ ~InOutbox(c, n) /\ ~InHand(c, n) /\ held[c] # n
          BY <1>4, <3>2, OnlyThere DEF Machine, TypeOK, Custody
        <4> QED  BY <2>1, <3>1, <4>1 DEF One
      <3>3. CASE ~Queued(i, c, n)
        <4>1. InBox(c, n)' = InBox(c, n) /\ fate'[c][n] = fate[c][n]
          BY <1>4, <2>3, <3>3, OnlyThere DEF Machine, TypeOK, Custody
        <4> QED  BY <2>1, <3>1, <4>1, OnlyThere DEF Machine, TypeOK, Custody, One
      <3> QED  BY <3>2, <3>3
    <2> QED  BY <2>2, <2>3
  <1>12. FateSteps
    BY <1>5 DEF FateSteps
  <1> QED  BY <1>6, <1>7, <1>8, <1>9, <1>10, <1>11, <1>12, CustodyParts

\* A callback: it may have handled the batch it was called with, and what it emitted
\* is pending.
LEMMA CallbackCustody ==
  ASSUME Machine, Custody, NEW i \in Instance, NEW e \in Bursts(i),
         NEW f, NEW next \in {"routing", "closing"},
         pc[i] \in {"starting", "idle"},
         Callback(i, e, f, next),
         UNCHANGED <<cursor, todo, held, unrouted>>,
         i \in up' /\ up' \in {up, up \cup {i}},
         Mail',
         \A c \in Conn, n \in Serial :
            \/ InBox(c, n)' = InBox(c, n) /\ f[c][n] = fate[c][n]
            \/ InBox(c, n) = 1 /\ InBox(c, n)' = 0 /\ f[c][n] = "handled" /\ Open(To(c)),
         \A c \in Conn, n \in Serial : Waits(c) /\ f[c][n] = "handled" =>
            \A m \in 1..(n - 1) : fate[c][m] \in {"none", "handled"}
  PROVE  Custody' /\ FateSteps
  <1>1. /\ Collect(i, e) /\ fate' = Accept(i, e, f)
        /\ \A k \in Instance : pc'[k] = IF k = i THEN next ELSE pc[k]
    BY DEF Callback, Machine, TypeOK, ThreadTypeOK
  <1> DEFINE len == Len(emitted[i])
             new(c, n) == /\ From(c) = i /\ n > len /\ n <= len + Len(e)
                          /\ e[n - len] = Table[c].port
  <1>2. /\ len \in Nat /\ Len(e) \in Nat /\ Len(emitted'[i]) = len + Len(e)
        /\ \A k \in Instance : k # i => emitted'[k] = emitted[k]
        /\ cursor[i] = len /\ todo[i] = {}
    <2>1. cursor[i] = len /\ todo[i] = {}
      BY DEF Machine, Rounds, Routing
    <2> QED  BY <1>1, <2>1, Collected
  <1>3. ASSUME NEW c \in Conn, NEW n \in Serial
        PROVE  /\ fate'[c][n] = IF new(c, n) THEN "accepted" ELSE f[c][n]
               /\ n \in Nat /\ n # 0
    BY <1>1, SizeAssumption DEF Accept, Serial
  <1>4. ASSUME NEW c \in Conn, From(c) = i, NEW n \in Serial, n > len
        PROVE  /\ fate[c][n] = "none" /\ InBox(c, n) = 0 /\ held[c] # n
               /\ ~InOutbox(c, n) /\ ~InHand(c, n)
               /\ f[c][n] = "none" /\ InBox(c, n)' = 0
    <2>1. fate[c][n] = "none"
      BY <1>4 DEF Custody, FatesAreOfEmissions
    <2> QED  BY <2>1, OnlyThere DEF Machine, TypeOK, Custody
  <1>5. ASSUME NEW c \in Conn, NEW n \in Serial, f[c][n] # fate[c][n]
        PROVE  /\ fate[c][n] = "accepted" /\ f[c][n] = "handled"
               /\ InBox(c, n) = 1 /\ InBox(c, n)' = 0 /\ Open(To(c))
    <2>1. f[c][n] = "handled" /\ InBox(c, n) = 1 /\ InBox(c, n)' = 0 /\ Open(To(c))
      BY <1>5
    <2> QED  BY <2>1, OnlyThere DEF Machine, TypeOK, Custody
  <1>6. i \notin up => \A c \in Conn, n \in Serial : From(c) = i => fate[c][n] = "none"
    <2> SUFFICES ASSUME i \notin up, NEW c \in Conn, NEW n \in Serial, From(c) = i
                 PROVE  fate[c][n] = "none"
      OBVIOUS
    <2>1. pc[i] = "starting"
      BY DEF Custody, FatesAreOfEmissions
    <2> QED  BY <2>1, NothingBeforeStart
  <1>7. OnlyClosing
    BY <1>1 DEF OnlyClosing, Open
  <1>8. Reasons'
    <2>1. ASSUME NEW c \in Conn, NEW n \in Serial, fate'[c][n] # fate[c][n]
          PROVE  fate[c][n] \in {"none", "accepted"} /\ fate'[c][n] \in {"accepted", "handled"}
      BY <1>3, <1>4, <1>5, <2>1
    <2> QED  BY <1>7, <2>1, ReasonsKept
  <1>9. FatesAreOfEmissions'
    <2>1. ASSUME NEW c \in Conn, NEW n \in Serial
          PROVE  /\ n > Len(emitted'[From(c)]) => fate'[c][n] = "none"
                 /\ From(c) \notin up' => fate'[c][n] \in {"none", "withStart"}
                 /\ From(c) \in up' => fate'[c][n] # "withStart"
      <3>1. CASE From(c) = i
        <4>1. n > len + Len(e) => fate'[c][n] = "none"
          BY <1>2, <1>3, <1>4, <3>1
        <4>2. fate'[c][n] # "withStart"
          <5>1. fate[c][n] # "withStart"
            BY <1>6, <3>1 DEF Custody, FatesAreOfEmissions
          <5> QED  BY <1>3, <1>5, <5>1
        <4> QED  BY <1>2, <3>1, <4>1, <4>2
      <3>2. CASE From(c) # i
        <4>1. emitted'[From(c)] = emitted[From(c)] /\ (From(c) \in up' <=> From(c) \in up)
          BY <1>2, <3>2, RouteEnds
        <4>2. fate'[c][n] = f[c][n]
          BY <1>3, <3>2
        <4> QED  BY <1>5, <4>1, <4>2 DEF Custody, FatesAreOfEmissions
      <3> QED  BY <3>1, <3>2
    <2>2. ASSUME NEW k \in Instance
          PROVE  /\ pc'[k] \in {"unborn", "starting"} => emitted'[k] = <<>>
                 /\ pc'[k] \in {"routing", "idle", "closing"} => k \in up'
      BY <1>1, <1>2 DEF Custody, FatesAreOfEmissions
    <2> QED  BY <2>1, <2>2 DEF FatesAreOfEmissions
  <1>10. BackpressureIsLossless'
    <2> SUFFICES ASSUME NEW c \in Conn, Waits(c), NEW n \in Serial, fate'[c][n] = "handled",
                        NEW m \in 1..(n - 1)
                 PROVE  fate'[c][m] \in {"none", "handled"}
      BY DEF BackpressureIsLossless
    <2>1. m \in Serial /\ m < n
      BY SizeAssumption DEF Serial
    <2>2. f[c][n] = "handled"
      BY <1>3
    <2>3. fate[c][m] \in {"none", "handled"}
      BY <2>2
    <2>4. f[c][m] \in {"none", "handled"}
      BY <1>5, <2>1, <2>3
    <2>5. ~new(c, m)
      <3>1. CASE From(c) = i /\ m > len
        <4>1. n > len
          BY <1>2, <1>3, <2>1, <3>1
        <4> QED  BY <1>4, <2>2, <3>1, <4>1
      <3> QED  BY <3>1
    <2> QED  BY <1>3, <2>1, <2>4, <2>5
  <1>11. Slots' /\ Unrouted'
    BY <1>1, SlotsUnchanged, UnroutedCollected
  <1>12. ExactlyOnePlace'
    <2> SUFFICES ASSUME NEW c \in Conn, NEW n \in Serial
                 PROVE  One(InOutbox(c, n)') + One(InHand(c, n)') + One(held'[c] = n) + InBox(c, n)'
                           = One(fate'[c][n] = "accepted")
      BY AccountsBalance
    <2>1. (InHand(c, n)' <=> InHand(c, n)) /\ held'[c] = held[c]
      BY DEF InHand
    <2>2. Open(From(c))' <=> Open(From(c))
      BY <1>1, RouteEnds DEF Open
    <2>3. CASE From(c) = i /\ n > len
      <3>1. InOutbox(c, n)' <=> new(c, n)
        <4>1. Open(From(c))'
          BY <1>1, <2>3 DEF Open
        <4>2. n <= len + Len(e) => emitted'[i][n] = e[n - len]
          BY <1>1, <1>3, <2>3, Collected
        <4>3. Pending(c, n)' <=> n <= len + Len(e) /\ emitted'[i][n] = Table[c].port
          BY <1>2, <2>3 DEF Pending
        <4> QED  BY <2>3, <4>1, <4>2, <4>3 DEF InOutbox
      <3>2. fate'[c][n] = "accepted" <=> new(c, n)
        BY <1>3, <1>4, <2>3
      <3> QED  BY <1>4, <2>1, <2>3, <3>1, <3>2 DEF One
    <2>4. CASE ~(From(c) = i /\ n > len)
      <3>1. InOutbox(c, n)' <=> InOutbox(c, n)
        <4>1. CASE From(c) = i
          <5>1. ~Pending(c, n) /\ ~Pending(c, n)'
            BY <1>2, <1>3, <2>4, <4>1 DEF Pending
          <5> QED  BY <5>1 DEF InOutbox
        <4>2. CASE From(c) # i
          <5>1. emitted'[From(c)] = emitted[From(c)] /\ cursor' = cursor
            BY <1>2, <4>2, RouteEnds
          <5>2. Pending(c, n)' <=> Pending(c, n)
            BY <5>1 DEF Pending
          <5> QED  BY <2>2, <5>2 DEF InOutbox
        <4> QED  BY <4>1, <4>2
      <3>2. fate'[c][n] = f[c][n]
        BY <1>3, <2>4
      <3>3. CASE f[c][n] = fate[c][n] /\ InBox(c, n)' = InBox(c, n)
        BY <2>1, <3>1, <3>2, <3>3, OnlyThere DEF Machine, TypeOK, Custody, One
      <3>4. CASE f[c][n] = "handled" /\ InBox(c, n) = 1 /\ InBox(c, n)' = 0
        <4>1. ~InOutbox(c, n) /\ ~InHand(c, n) /\ held[c] # n
          BY <3>4, OnlyThere DEF Machine, TypeOK, Custody
        <4> QED  BY <2>1, <3>1, <3>2, <3>4, <4>1 DEF One
      <3> QED  BY <3>3, <3>4
    <2> QED  BY <2>3, <2>4
  <1>13. FateSteps
    <2> SUFFICES ASSUME NEW c \in Conn, NEW n \in Serial, fate'[c][n] # fate[c][n]
                 PROVE  \/ /\ fate[c][n] = "none" /\ fate'[c][n] = "accepted"
                           /\ Open(From(c)) /\ n > Len(emitted[From(c)])
                        \/ /\ fate[c][n] = "accepted" /\ fate'[c][n] = "handled"
                           /\ Open(To(c))
                           /\ Waits(c) => \A m \in 1..(n - 1) : fate[c][m] \in {"none", "handled"}
      BY DEF FateSteps
    <2>1. CASE new(c, n)
      BY <1>3, <1>4, <2>1 DEF Open
    <2>2. CASE ~new(c, n)
      BY <1>3, <1>5, <2>2
    <2> QED  BY <2>1, <2>2
  <1> QED  BY <1>8, <1>9, <1>10, <1>11, <1>12, <1>13, CustodyParts

\* The callbacks of a start, and of a batch from the bridge, take nothing.
LEMMA StartsCustody ==
  ASSUME Machine, Custody, NEW i \in Instance, Start(i) \/ Receive(i)
  PROVE  Custody' /\ FateSteps
  <1>1. PICK e \in Bursts(i) : Callback(i, e, fate, "routing")
    BY DEF Start, Receive
  <1>2. /\ UNCHANGED <<cursor, todo, held, unrouted, mbox>>
        /\ pc[i] \in {"starting", "idle"}
        /\ i \in up' /\ up' \in {up, up \cup {i}}
    BY DEF Start, Receive, queueVars, Custody, FatesAreOfEmissions
  <1>3. Mail'
    BY <1>2, StandingStill, MailUnchanged, CustodyParts
  <1>4. \A c \in Conn, n \in Serial : InBox(c, n)' = InBox(c, n)
    BY <1>2, InBoxUnchanged
  <1>5. \A c \in Conn, n \in Serial : Waits(c) /\ fate[c][n] = "handled" =>
            \A m \in 1..(n - 1) : fate[c][m] \in {"none", "handled"}
    BY DEF Custody, BackpressureIsLossless
  <1> QED  BY <1>1, <1>2, <1>3, <1>4, <1>5, CallbackCustody

\* Taking what is no batch takes no batch.
LEMMA TakeOtherCustody ==
  ASSUME Machine, Custody, NEW i \in Instance, TakeTimer(i) \/ TakeStop(i)
  PROVE  Custody' /\ FateSteps
  <1>1. PICK e \in Bursts(i), next \in {"routing", "closing"} : Callback(i, e, fate, next)
    BY DEF TakeTimer, TakeStop
  <1>2. /\ UNCHANGED <<cursor, todo, held, unrouted>> /\ Pop(i)
        /\ pc[i] = "idle" /\ Head(mbox[i]).kind # "Deliver"
        /\ i \in up' /\ up' = up
    BY DEF TakeTimer, TakeStop, Custody, FatesAreOfEmissions
  <1>3. Mail'
    BY <1>2, StandingStill, MailPop, CustodyParts DEF Machine, TypeOK
  <1>4. \A c \in Conn, n \in Serial : InBox(c, n)' = InBox(c, n)
    <2> SUFFICES ASSUME NEW c \in Conn, NEW n \in Serial PROVE InBox(c, n)' = InBox(c, n)
      OBVIOUS
    <2>1. Head(mbox[i]) # Delivery(c, n)
      BY <1>2 DEF Delivery
    <2> QED  BY <1>2, <2>1, InBoxPop DEF Machine, TypeOK
  <1>5. \A c \in Conn, n \in Serial : Waits(c) /\ fate[c][n] = "handled" =>
            \A m \in 1..(n - 1) : fate[c][m] \in {"none", "handled"}
    BY DEF Custody, BackpressureIsLossless
  <1> QED  BY <1>1, <1>2, <1>3, <1>4, <1>5, CallbackCustody

\* The batch at the head is handled, after every older one of a connection that waits.
LEMMA TakeBatchCustody ==
  ASSUME Machine, Custody, NEW i \in Instance, TakeBatch(i)
  PROVE  Custody' /\ FateSteps
  <1>1. /\ UNCHANGED <<cursor, todo, held, unrouted>> /\ Pop(i)
        /\ pc[i] = "idle" /\ mbox[i] # <<>> /\ Head(mbox[i]).kind = "Deliver"
        /\ i \in up' /\ up' = up
    BY DEF TakeBatch, Custody, FatesAreOfEmissions
  <1>2. mbox[i] \in Seq(Work) /\ QueueTypeOK
    BY DEF Machine, TypeOK, QueueTypeOK
  <1>3. Head(mbox[i]) \in Work /\ Head(mbox[i]) = mbox[i][1] /\ 1 \in DOMAIN mbox[i]
    BY <1>1, <1>2, HeadTailProperties, EmptySeq, LenProperties
  <1>4. PICK c \in Conn, n \in Serial : Head(mbox[i]) = Delivery(c, n)
    BY <1>1, <1>3 DEF Work, Delivery, Timer, Stop
  <1> DEFINE f == Settle(c, n, "handled")
  <1>5. PICK e \in Bursts(i), next \in {"routing", "closing"} : Callback(i, e, f, next)
    BY <1>4 DEF TakeBatch, Delivery
  <1>6. /\ To(c) = i /\ n <= cursor[From(c)] /\ InBox(c, n) = 1 /\ fate[c][n] = "accepted"
        /\ ~InOutbox(c, n) /\ ~InHand(c, n) /\ held[c] # n
    <2>1. To(c) = i /\ n <= cursor[From(c)]
      BY <1>3, <1>4 DEF Custody, OwnMail
    <2>2. InBox(c, n) \in Nat /\ InBox(c, n) # 0
      BY <1>2, <1>3, <1>4, <2>1, InBoxType
    <2> QED  BY <1>2, <2>1, <2>2, OnlyThere DEF Custody
  <1>7. \A d \in Conn, m \in Serial : f[d][m] = IF d = c /\ m = n THEN "handled" ELSE fate[d][m]
    BY DEF Settle, Machine, TypeOK
  <1>8. Mail'
    BY <1>1, <1>2, StandingStill, MailPop, CustodyParts
  <1>9. ASSUME NEW d \in Conn, NEW m \in Serial
        PROVE  \/ InBox(d, m)' = InBox(d, m) /\ f[d][m] = fate[d][m]
               \/ InBox(d, m) = 1 /\ InBox(d, m)' = 0 /\ f[d][m] = "handled" /\ Open(To(d))
    <2>1. /\ InBox(d, m)' \in Nat
          /\ InBox(d, m) = InBox(d, m)' + (IF To(d) = i /\ Head(mbox[i]) = Delivery(d, m) THEN 1 ELSE 0)
      BY <1>1, <1>2, InBoxPop
    <2>2. Head(mbox[i]) = Delivery(d, m) <=> d = c /\ m = n
      BY <1>4 DEF Delivery
    <2>3. CASE d = c /\ m = n
      BY <1>1, <1>6, <1>7, <2>1, <2>2, <2>3 DEF Open
    <2>4. CASE ~(d = c /\ m = n)
      BY <1>7, <2>1, <2>2, <2>4
    <2> QED  BY <2>3, <2>4
  <1>10. ASSUME NEW d \in Conn, NEW k \in Serial, Waits(d), f[d][k] = "handled",
                NEW m \in 1..(k - 1)
         PROVE  fate[d][m] \in {"none", "handled"}
    <2>0. m \in Serial /\ m \in Nat /\ m > 0 /\ m < k /\ k \in Nat
      BY SizeAssumption DEF Serial
    <2>1. CASE ~(d = c /\ k = n)
      <3>1. fate[d][k] = "handled"
        BY <1>7, <1>10, <2>1
      <3> QED  BY <1>10, <3>1 DEF Custody, BackpressureIsLossless
    <2>2. CASE d = c /\ k = n
      <3>1. Table[c].overflow = "Backpressure" /\ To(c) # From(c)
        BY <1>10, <2>2 DEF Waits
      <3>2. fate[c][m] # "accepted"
        <4>1. ~InOutbox(c, m) /\ ~InHand(c, m)
          BY <1>6, <2>0, <2>2, Bounds DEF InOutbox, Pending, InHand
        <4>2. held[c] # m
          BY <2>0, <3>1 DEF Custody, OwnMail
        <4>3. InBox(c, m) = 0
          <5>1. SUFFICES ASSUME NEW l \in DOMAIN mbox[To(c)], mbox[To(c)][l] = Delivery(c, m)
                         PROVE  FALSE
            BY <1>2, <2>0, InBoxType
          <5>2. l \in Nat /\ l > 0
            BY <1>2, <1>6, LenProperties
          <5>3. l # 1
            BY <1>3, <1>4, <1>6, <2>0, <2>2, <5>1 DEF Delivery
          <5>4. 1 < l
            BY <5>2, <5>3
          <5>5. n < m
            BY <1>3, <1>4, <1>6, <1>10, <2>0, <2>2, <5>1, <5>4 DEF Custody, InOrder
          <5> QED  BY <2>0, <2>2, <5>5
        <4> QED  BY <1>2, <2>0, <4>1, <4>2, <4>3, OnlyThere DEF Custody
      <3>3. fate[c][m] \notin {"overflow", "withOutlet", "selfFull"}
        BY <2>0, <3>1 DEF Custody, LossHasItsReason
      <3>4. fate[c][m] \notin {"gone", "withQueue"}
        BY <1>1, <1>6, <2>0 DEF Custody, LossHasItsReason, Open
      <3>5. fate[c][m] # "withStart"
        BY <1>6, <2>0 DEF Custody, FatesAreOfEmissions
      <3>6. fate[c][m] \in Fate
        BY <2>0 DEF Machine, TypeOK
      <3> QED  BY <2>2, <3>2, <3>3, <3>4, <3>5, <3>6 DEF Fate
    <2> QED  BY <2>1, <2>2
  <1> QED  BY <1>1, <1>5, <1>8, <1>9, <1>10, CallbackCustody

\* The steps that neither take, post nor drop a batch.
LEMMA QuietCustody ==
  ASSUME Machine, Custody, NEW i \in Instance,
         \/ Spawn(i) \/ DeliverWaits(i) \/ AskStop(i) \/ Tick(i)
         \/ SubscriberStops(i) \/ BridgeGone(i)
         \/ RoundDone(i) /\ pc[i] = "routing"
  PROVE  Custody' /\ FateSteps
  <1>1. UNCHANGED <<emitted, cursor, todo, held, unrouted, up, fate>>
    BY DEF Spawn, DeliverWaits, AskStop, StopPosted, StopWaits, StopGone, Tick,
           SubscriberStops, BridgeGone, RoundDone, threadVars
  <1>2. /\ OnlyClosing /\ OnlyStarting /\ Advancing
        /\ \A k \in Instance : Open(k)' <=> Open(k)
    <2>1. CASE UNCHANGED pc
      BY <1>1, <2>1, StandingStill DEF OnlyClosing, OnlyStarting, Open
    <2>2. CASE \/ pc[i] = "unborn" /\ pc' = [pc EXCEPT ![i] = "starting"]
               \/ pc[i] = "idle" /\ pc' = [pc EXCEPT ![i] = "closing"]
               \/ pc[i] = "routing" /\ pc' = [pc EXCEPT ![i] = "idle"]
      BY <1>1, <2>2, StandingStill DEF OnlyClosing, OnlyStarting, Open, Machine, TypeOK, ThreadTypeOK
    <2>3. \/ UNCHANGED pc
          \/ pc[i] = "unborn" /\ pc' = [pc EXCEPT ![i] = "starting"]
          \/ pc[i] = "idle" /\ pc' = [pc EXCEPT ![i] = "closing"]
          \/ pc[i] = "routing" /\ pc' = [pc EXCEPT ![i] = "idle"]
      BY DEF Spawn, DeliverWaits, AskStop, StopPosted, StopWaits, StopGone, Tick,
             SubscriberStops, BridgeGone, RoundDone, threadVars
    <2> QED  BY <2>1, <2>2, <2>3
  <1>3. QueueTypeOK
    BY DEF Machine, TypeOK
  <1>4. \/ UNCHANGED mbox
        \/ \E w \in {Timer, Stop} : Puts(i, w)
        \/ Pop(i) /\ Head(mbox[i]).kind = "Stop"
    BY DEF Spawn, DeliverWaits, AskStop, StopPosted, StopWaits, StopGone, Tick,
           SubscriberStops, BridgeGone, RoundDone, queueVars, Refused, Queue, Post,
           PostGranted, Puts
  <1>5. Mail' /\ \A c \in Conn, n \in Serial : InBox(c, n)' = InBox(c, n)
    <2>1. CASE UNCHANGED mbox
      BY <1>2, <2>1, MailUnchanged, InBoxUnchanged, CustodyParts
    <2>2. ASSUME NEW w \in {Timer, Stop}, Puts(i, w)
          PROVE  Mail' /\ \A c \in Conn, n \in Serial : InBox(c, n)' = InBox(c, n)
      <3>1. w \in Work /\ \A c \in Conn, n \in Serial : w # Delivery(c, n)
        BY DEF Work, Timer, Stop, Delivery
      <3>2. Mail'
        BY <1>2, <1>3, <2>2, <3>1, MailPost, CustodyParts
      <3>3. ASSUME NEW c \in Conn, NEW n \in Serial
            PROVE  InBox(c, n)' = InBox(c, n)
        <4>1. InBox(c, n)' = InBox(c, n) + (IF To(c) = i /\ w = Delivery(c, n) THEN 1 ELSE 0)
          BY <1>3, <2>2, <3>1, InBoxPost
        <4> QED  BY <1>3, <3>1, <4>1, InBoxType
      <3> QED  BY <3>2, <3>3
    <2>3. CASE Pop(i) /\ Head(mbox[i]).kind = "Stop"
      <3>1. \A c \in Conn, n \in Serial : Head(mbox[i]) # Delivery(c, n)
        BY <2>3 DEF Delivery
      <3> QED  BY <1>2, <1>3, <2>3, <3>1, MailPop, InBoxPop, CustodyParts
    <2> QED  BY <1>4, <2>1, <2>2, <2>3
  <1> QED  BY <1>1, <1>2, <1>5, QuietKeeps

\* An instance that was never spawned, and a thread that is done, end.
LEMMA EndsCustody ==
  ASSUME Machine, Custody, NEW i \in Instance,
         Abandon(i) \/ (RoundDone(i) /\ pc[i] # "routing")
  PROVE  Custody' /\ FateSteps
  <1>1. CASE Abandon(i)
    <2>1. pc[i] = "unborn" /\ todo[i] = {} /\ cursor[i] = Len(emitted[i])
      BY <1>1 DEF Abandon, Machine, Rounds, Routing
    <2> QED  BY <1>1, <2>1, EndCustody DEF Abandon
  <1>2. CASE RoundDone(i) /\ pc[i] # "routing"
    BY <1>2, EndCustody DEF RoundDone, RoundOver
  <1> QED  BY <1>1, <1>2

-----------------------------------------------------------------------------
\* At the start there is no batch.
LEMMA InitCustody == Init => Custody
  <1> SUFFICES ASSUME Init PROVE Custody
    OBVIOUS
  <1>0. Machine /\ QueueTypeOK
    BY InitMachine DEF Machine, TypeOK
  <1>1. FatesAreOfEmissions
    BY EmptySeq DEF Init, FatesAreOfEmissions
  <1>2. \A c \in Conn : From(c) \in Instance /\ To(c) \in Instance
    BY RouteEnds
  <1>3. Slots
    BY <1>2 DEF Init, Slots
  <1>4. Addressed /\ InOrder
    BY <1>2 DEF Init, Addressed, InOrder
  <1>5. ExactlyOnePlace
    <2> SUFFICES ASSUME NEW c \in Conn, NEW n \in Serial
                 PROVE  Copies(c, n) = One(fate[c][n] = "accepted")
      BY DEF ExactlyOnePlace
    <2>1. ~InOutbox(c, n) /\ ~InHand(c, n) /\ held[c] # n /\ fate[c][n] = "none"
      <3>1. n > 0 /\ Len(emitted[From(c)]) = 0
        BY <1>2, EmptySeq, SizeAssumption DEF Init, Serial
      <3> QED  BY <1>2, <3>1, SizeAssumption DEF Init, InOutbox, Pending, InHand, Serial
    <2>2. InBox(c, n) = 0
      BY <1>2, CountEmpty DEF Init, InBox
    <2> QED  BY <2>1, <2>2, Whereabouts DEF One
  <1>6. Reasons
    BY DEF Init, Reasons
  <1>7. Unrouted
    <2> SUFFICES ASSUME NEW i \in Instance PROVE unrouted[i] = Cardinality(Unwired(i, cursor[i]))
      BY DEF Unrouted
    <2>1. Unwired(i, cursor[i]) = {}
      BY DEF Init, Unwired
    <2> QED  BY <2>1, FS_EmptySet DEF Init
  <1>8. BackpressureIsLossless
    BY SizeAssumption DEF Init, BackpressureIsLossless, Serial
  <1> QED  BY <1>1, <1>3, <1>4, <1>5, <1>6, <1>7, <1>8, CustodyParts DEF Mail

\* Every step keeps it: one case per action.
LEMMA NextCustody == Machine /\ Custody /\ [Next]_vars => Custody' /\ FateSteps
  <1> SUFFICES ASSUME Machine, Custody, [Next]_vars PROVE Custody' /\ FateSteps
    OBVIOUS
  <1>1. CASE UNCHANGED vars
    <2>1. OnlyClosing /\ OnlyStarting /\ Advancing /\ \A k \in Instance : Open(k)' <=> Open(k)
      BY <1>1, StandingStill DEF vars, OnlyClosing, OnlyStarting, Open
    <2>2. Mail' /\ \A c \in Conn, n \in Serial : InBox(c, n)' = InBox(c, n)
      BY <1>1, <2>1, MailUnchanged, InBoxUnchanged, CustodyParts DEF vars
    <2>3. UNCHANGED <<emitted, cursor, todo, held, unrouted, up, fate>>
      BY <1>1 DEF vars
    <2> QED  BY <2>1, <2>2, <2>3, QuietKeeps
  <1>2. ASSUME NEW i \in Instance, Thread(i)
        PROVE  Custody' /\ FateSteps
    BY <1>2, StartsCustody, StartFailsCustody, TakeBatchCustody, TakeOtherCustody,
       QuietCustody, RetryHeldCustody, NextEmissionCustody, DeliverNowCustody,
       DeliverDiscardsCustody, DeliverHoldsCustody, EndsCustody DEF Thread
  <1>3. ASSUME NEW i \in Instance, World(i)
        PROVE  Custody' /\ FateSteps
    BY <1>3, QuietCustody, StartsCustody DEF World
  <1>4. ASSUME NEW i \in Instance, Spawn(i) \/ Abandon(i) \/ AskStop(i)
        PROVE  Custody' /\ FateSteps
    BY <1>4, QuietCustody, EndsCustody
  <1>5. CASE Over
    BY <1>1, <1>5 DEF Over
  <1> QED  BY <1>1, <1>2, <1>3, <1>4, <1>5 DEF Next

\* The whole inductive invariant, with the properties it strengthens.
LEMMA InvarianceAndCustody == Spec => [](Machine /\ Custody)
  <1>1. Machine /\ Custody /\ [Next]_vars => (Machine /\ Custody)'
    BY NextMachine, NextCustody
  <1> QED  BY InitMachine, InitCustody, <1>1, PTL DEF Spec

\* Every reachable state satisfies what the runs check as Inductive: types, the
\* accounts of the mailboxes, the rounds of the threads, and where batches may be.
THEOREM InvariantHolds == Spec => []Inductive
  <1>1. Machine /\ Custody => Inductive
    BY DEF Custody, Inductive
  <1> QED  BY <1>1, InvarianceAndCustody, PTL

\* An accepted batch is in exactly one place until its fate is settled, and in none
\* afterwards (Outlet::deliver, Outlet::flush, instance_task), whatever the graph.
THEOREM ExactlyOnePlaceHolds == Spec => []ExactlyOnePlace
  <1>1. Custody => ExactlyOnePlace
    BY DEF Custody
  <1> QED  BY <1>1, InvarianceAndCustody, PTL

\* A batch is lost only for the reason its fate says (Outlet::discard), and the error
\* emissions nobody wired are counted, each once (Outlet::route).
THEOREM LossHasItsReasonHolds == Spec => []LossHasItsReason
  <1>1. Custody => LossHasItsReason
    BY DEF Custody
  <1> QED  BY <1>1, InvarianceAndCustody, PTL

\* A backpressure connection loses nothing and keeps its order while its receiver
\* lives (Outlet::deliver, Mailbox::send), whatever else the graph does.
THEOREM BackpressureIsLosslessHolds == Spec => []BackpressureIsLossless
  <1>1. Custody => BackpressureIsLossless
    BY DEF Custody
  <1> QED  BY <1>1, InvarianceAndCustody, PTL

-----------------------------------------------------------------------------
(* The router implements the channels it promises.                         *)

Promised(x) == CASE x \in {"none", "withStart"} -> "unsent"
                 [] x = "accepted" -> "underway"
                 [] x = "handled" -> "arrived"
                 [] OTHER -> "lost"

PState == [c \in Conn |-> [n \in Serial |->
              CASE fate[c][n] \in {"none", "withStart"} -> "unsent"
                [] fate[c][n] = "accepted" -> "underway"
                [] fate[c][n] = "handled" -> "arrived"
                [] OTHER -> "lost"]]

\* The state of a batch is read off its fate.
LEMMA PStateIs ==
  ASSUME NEW c \in Conn, NEW n \in Serial
  PROVE  /\ PState[c][n] = Promised(fate[c][n])
         /\ PState'[c][n] = Promised(fate'[c][n])
  BY DEF PState, Promised

\* What Promised answers for each fate.
LEMMA PromisedIs ==
  /\ Promised("none") = "unsent" /\ Promised("withStart") = "unsent"
  /\ Promised("accepted") = "underway" /\ Promised("handled") = "arrived"
  /\ \A x \in {"overflow", "selfFull", "gone", "withQueue", "withOutlet"} : Promised(x) = "lost"
  /\ \A x : Promised(x) \in {"unsent", "underway", "arrived", "lost"}
  /\ \A x : x \notin {"none", "withStart"} => Promised(x) # "unsent"
  /\ \A x : x # "accepted" => Promised(x) # "underway"
  BY DEF Promised

\* At the start nothing was sent and everybody is there.
LEMMA InitPromise == Init => Promise!Init
  <1> SUFFICES ASSUME Init PROVE Promise!Init
    OBVIOUS
  <1>1. \A c \in Conn : Open(From(c)) /\ Open(To(c))
    BY RouteEnds DEF Init, Open
  <1>2. PState = [c \in Conn |-> [n \in Serial |-> "unsent"]]
    BY DEF Init, PState
  <1> QED  BY <1>1, <1>2 DEF Promise!Init, PState

\* A step of the router is a step of its channels: each fate moves as its channel may.
LEMMA StepPromise ==
  ASSUME Machine, Custody, Custody', FateSteps, OnlyClosing, up \subseteq up'
  PROVE  Promise!Next
  <1>1. /\ {c \in Conn : Open(To(c))}' \subseteq {c \in Conn : Open(To(c))}
        /\ {c \in Conn : Open(From(c))}' \subseteq {c \in Conn : Open(From(c))}
    BY RouteEnds DEF OnlyClosing
  <1>2. PState' \in [Conn -> [Serial -> Promise!States]]
    BY PromisedIs DEF PState, Promise!States
  <1>3. ASSUME NEW c \in Conn, NEW n \in Serial
        PROVE  Promise!Accept(c, n) \/ Promise!Arrive(c, n) \/ Promise!Lose(c, n)
                  \/ PState'[c][n] = PState[c][n]
    <2>1. CASE \/ fate'[c][n] = fate[c][n]
               \/ fate[c][n] = "none" /\ fate'[c][n] = "withStart"
      BY <2>1, PStateIs, PromisedIs
    <2>2. CASE /\ fate[c][n] = "none" /\ fate'[c][n] = "accepted"
               /\ Open(From(c)) /\ n > Len(emitted[From(c)])
      <3>1. PState[c][n] = "unsent" /\ PState'[c][n] = "underway"
        BY <2>2, PStateIs, PromisedIs
      <3>2. ASSUME NEW m \in Serial, m > n
            PROVE  PState[c][m] = "unsent"
        <4>1. m > Len(emitted[From(c)])
          BY <2>2, <3>2, Bounds, SizeAssumption DEF Serial
        <4>2. fate[c][m] = "none"
          BY <4>1 DEF Custody, FatesAreOfEmissions
        <4> QED  BY <4>2, PStateIs, PromisedIs
      <3>3. Promise!Accept(c, n)
        BY <2>2, <3>1, <3>2 DEF Promise!Accept, Promise!Goes, PState
      <3> QED  BY <3>3
    <2>3. CASE /\ fate[c][n] = "accepted" /\ fate'[c][n] = "handled"
               /\ Open(To(c))
               /\ Waits(c) => \A m \in 1..(n - 1) : fate[c][m] \in {"none", "handled"}
      <3>1. PState[c][n] = "underway" /\ PState'[c][n] = "arrived"
        BY <2>3, PStateIs, PromisedIs
      <3>2. ASSUME Waits(c), NEW m \in Serial, m < n
            PROVE  PState[c][m] # "underway"
        <4>1. m \in 1..(n - 1)
          BY <3>2, SizeAssumption DEF Serial
        <4>2. fate[c][m] # "accepted"
          BY <2>3, <3>2, <4>1
        <4> QED  BY <4>2, PStateIs, PromisedIs
      <3>3. Promise!Arrive(c, n)
        BY <2>3, <3>1, <3>2 DEF Promise!Arrive, Promise!Goes, PState
      <3> QED  BY <3>3
    <2>4. CASE fate[c][n] = "accepted" /\ Justified(c, n)'
      <3>1. PState[c][n] = "underway" /\ PState'[c][n] = "lost"
        BY <2>4, PStateIs, PromisedIs DEF Justified
      <3>2. Waits(c) => ~Open(To(c))'
        BY <2>4 DEF Justified, Waits
      <3>3. ASSUME Table[c].overflow = "DropOldest"
            PROVE  \/ ~Open(To(c))' \/ ~Open(From(c))'
                   \/ \E m \in Serial : m > n /\ PState'[c][m] # "unsent"
        <4>1. CASE fate'[c][n] = "overflow"
          <5>1. PICK m \in Serial : m > n /\ fate'[c][m] \notin {"none", "overflow"}
            BY <2>4, <4>1 DEF Justified
          <5>2. From(c) \in up
            BY <2>4 DEF Custody, FatesAreOfEmissions
          <5>3. fate'[c][m] # "withStart"
            BY <5>2 DEF Custody, FatesAreOfEmissions
          <5> QED  BY <5>1, <5>3, PStateIs, PromisedIs
        <4>2. CASE fate'[c][n] # "overflow"
          BY <2>4, <3>3, <4>2 DEF Justified
        <4> QED  BY <4>1, <4>2
      <3>4. Promise!Lose(c, n)
        BY <3>1, <3>2, <3>3 DEF Promise!Lose, Promise!Goes, PState
      <3> QED  BY <3>4
    <2> QED  BY <2>1, <2>2, <2>3, <2>4 DEF FateSteps
  <1> QED  BY <1>1, <1>2, <1>3 DEF Promise!Next, PState

\* No thread comes back from its end, and no instance that came up is forgotten.
LEMMA OneWay ==
  ASSUME Machine, [Next]_vars
  PROVE  /\ OnlyClosing /\ up \subseteq up'
         /\ \A k \in Instance : pc[k] = "ended" => pc'[k] = "ended"
  <1>0. pc \in [Instance -> PC]
    BY DEF Machine, TypeOK, ThreadTypeOK
  <1>1. /\ up' = up \/ \E i \in Instance : up' = up \cup {i}
        /\ \/ pc' = pc
           \/ \E i \in Instance, to \in PC : pc[i] # "ended" /\ pc' = [pc EXCEPT ![i] = to]
    <2>1. CASE UNCHANGED vars
      BY <2>1 DEF vars
    <2>2. ASSUME NEW i \in Instance,
                 Spawn(i) \/ Abandon(i) \/ Thread(i) \/ World(i) \/ AskStop(i)
          PROVE  /\ up' = up \/ up' = up \cup {i}
                 /\ \/ pc' = pc
                    \/ \E to \in PC : pc[i] # "ended" /\ pc' = [pc EXCEPT ![i] = to]
      <3>1. CASE Spawn(i) \/ Abandon(i) \/ AskStop(i)
        BY <3>1 DEF Spawn, Abandon, End, Close, AskStop, StopPosted, StopWaits, StopGone,
                    threadVars, PC
      <3>2. CASE Start(i) \/ StartFails(i) \/ TakeBatch(i) \/ TakeTimer(i) \/ TakeStop(i) \/ Receive(i)
        BY <3>2 DEF Start, StartFails, TakeBatch, TakeTimer, TakeStop, Receive, Callback, Close, PC
      <3>3. CASE \/ SubscriberStops(i) \/ BridgeGone(i) \/ RetryHeld(i) \/ NextEmission(i)
                 \/ DeliverNow(i) \/ DeliverWaits(i) \/ DeliverGone(i) \/ DeliverHolds(i)
                 \/ DeliverSelfFull(i) \/ Tick(i)
        BY <3>3 DEF SubscriberStops, BridgeGone, RetryHeld, NextEmission, DeliverNow,
                    DeliverWaits, DeliverGone, DeliverHolds, DeliverSelfFull, Tick,
                    threadVars, PC
      <3>4. CASE RoundDone(i)
        BY <3>4 DEF RoundDone, End, Close, PC
      <3> QED  BY <2>2, <3>1, <3>2, <3>3, <3>4 DEF Thread, World
    <2>3. CASE Over
      BY <2>3 DEF Over, vars
    <2> QED  BY <2>1, <2>2, <2>3 DEF Next
  <1> QED  BY <1>0, <1>1 DEF OnlyClosing, Open

\* The router implements module Channels: what a connection promises is kept, step by
\* step, whatever the graph, the depths and the failures (DAEMON 6.2, ABI 6.2).
THEOREM KeepsThePromiseHolds == Spec => KeepsThePromise
  <1>1. Machine /\ Custody /\ (Machine /\ Custody)' /\ [Next]_vars => [Promise!Next]_(Promise!vars)
    BY NextCustody, OneWay, StepPromise
  <1> QED  BY InitPromise, <1>1, InvarianceAndCustody, PTL DEF Spec, KeepsThePromise, Promise!Spec

\* A fate moves forward only, and for the reason it gives: from none to accepted in the
\* order of emission, from accepted to handled or to a loss (router.rs, instance.rs).
THEOREM FatesOnlySettle == Spec => [][FateSteps]_vars
  <1>1. Machine /\ Custody /\ [Next]_vars => [FateSteps]_vars
    BY NextCustody
  <1> QED  BY <1>1, InvarianceAndCustody, PTL DEF Spec
-----------------------------------------------------------------------------
(* The service: the order its task gives the steps of the router.          *)

\* Where the task's loop is, and what it has left behind and has yet to reach.
InSequence ==
    /\ phase \in Phase /\ at \in 1..(N + 1) /\ count \in 0..N
    /\ phase \in {"spawning", "awaiting"} =>
          /\ at = count + 1
          /\ count < N
          /\ \A i \in Instance : i > count + 1 => pc[i] = "unborn"
    /\ phase = "spawning" => pc[at] = "unborn"
    /\ phase \in {"unwinding", "reaping"} =>
          /\ count < N /\ at <= count + 1
          /\ \A i \in Instance : i > count => pc[i] \in {"unborn", "ended"}
    /\ phase \in {"running", "retiring", "joining"} => count = N
    /\ phase \in {"reaping", "joining"} =>
          \A i \in Instance : i < at => pc[i] = "ended"
    /\ NothingLeftRunning

\* An instance that has no thread, or had one, gets none by itself.
LEMMA ThreadsOnlyRun ==
  ASSUME TypeOK, NEW i \in Instance, Thread(i) \/ World(i)
  PROVE  \A k \in Instance : pc[k] \in {"unborn", "ended"} => pc'[k] = pc[k]
  <1>0. pc \in [Instance -> PC]
    BY DEF TypeOK, ThreadTypeOK
  <1>1. \/ pc' = pc
        \/ \E to \in PC : pc[i] \notin {"unborn", "ended"} /\ pc' = [pc EXCEPT ![i] = to]
    <2>1. CASE Start(i) \/ StartFails(i) \/ TakeBatch(i) \/ TakeTimer(i) \/ TakeStop(i) \/ Receive(i)
      BY <2>1 DEF Start, StartFails, TakeBatch, TakeTimer, TakeStop, Receive, Callback, Close, PC
    <2>2. CASE \/ SubscriberStops(i) \/ BridgeGone(i) \/ RetryHeld(i) \/ NextEmission(i)
               \/ DeliverNow(i) \/ DeliverWaits(i) \/ DeliverGone(i) \/ DeliverHolds(i)
               \/ DeliverSelfFull(i) \/ Tick(i)
      BY <2>2 DEF SubscriberStops, BridgeGone, RetryHeld, NextEmission, DeliverNow,
                  DeliverWaits, DeliverGone, DeliverHolds, DeliverSelfFull, Tick,
                  threadVars, PC
    <2>3. CASE RoundDone(i)
      BY <2>3 DEF RoundDone, End, Close, PC
    <2> QED  BY <2>1, <2>2, <2>3 DEF Thread, World
  <1> QED  BY <1>0, <1>1

\* A service whose threads are all unborn is at the beginning of its sequence.
LEMMA InitInSequence == SvcInit => InSequence
  BY SizeAssumption DEF SvcInit, Init, InSequence, Phase, NothingLeftRunning, Instance

\* Every step of the service keeps its sequence, and to the router it is a step of its
\* own: the task spawns, asks and abandons, or leaves it alone.
LEMMA NextInSequence ==
  ASSUME TypeOK, InSequence, [SvcNext]_allVars
  PROVE  InSequence' /\ [Next]_vars
  <1>0. /\ N \in Nat \ {0} /\ pc \in [Instance -> PC]
        /\ at \in Int /\ count \in Int /\ \A i \in Instance : i \in Int
    BY SizeAssumption DEF TypeOK, ThreadTypeOK, InSequence, Instance
  <1>1. CASE UNCHANGED allVars
    <2>1. UNCHANGED <<pc, phase, at, count>> /\ UNCHANGED vars
      BY <1>1 DEF allVars, svcVars, vars
    <2> QED  BY <2>1 DEF InSequence, NothingLeftRunning
  <1>2. CASE SpawnOne
    <2>1. at \in Instance /\ Spawn(at) /\ phase = "spawning" /\ phase' = "awaiting"
          /\ at' = at /\ count' = count
      BY <1>0, <1>2 DEF SpawnOne, Goto, InSequence, Instance
    <2>2. pc' = [pc EXCEPT ![at] = "starting"]
      BY <2>1 DEF Spawn
    <2>3. InSequence'
      BY <1>0, <2>1, <2>2 DEF InSequence, NothingLeftRunning, Phase
    <2> QED  BY <2>1, <2>3 DEF Next
  <1>3. CASE Answered
    <2>1. InSequence'
      BY <1>0, <1>3 DEF Answered, Goto, InSequence, NothingLeftRunning, Phase, Instance, vars
    <2> QED  BY <1>3, <2>1 DEF Answered
  <1>4. CASE Failed
    <2>1. InSequence'
      BY <1>0, <1>4 DEF Failed, Goto, InSequence, NothingLeftRunning, Phase, Instance, vars
    <2> QED  BY <1>4, <2>1 DEF Failed
  <1>5. CASE StopOne
    <2>1. at \in Instance /\ AskStop(at) /\ UNCHANGED pc
          /\ phase' = phase /\ count' = count /\ at' \in {at, at + 1} /\ at <= count
          /\ phase \in {"unwinding", "retiring"}
      BY <1>0, <1>5 DEF StopOne, Stopping, Goto, InSequence, Instance, AskStop, StopPosted,
                        StopGone, StopWaits, threadVars
    <2>2. InSequence'
      BY <1>0, <2>1 DEF InSequence, NothingLeftRunning, Phase
    <2> QED  BY <2>1, <2>2 DEF Next
  <1>6. CASE AllAsked
    <2>1. InSequence'
      BY <1>0, <1>6 DEF AllAsked, Stopping, Goto, InSequence, NothingLeftRunning, Phase, Instance, vars
    <2> QED  BY <1>6, <2>1 DEF AllAsked
  <1>7. CASE JoinOne
    <2>1. InSequence'
      BY <1>0, <1>7 DEF JoinOne, Goto, InSequence, NothingLeftRunning, Phase, Instance, vars
    <2> QED  BY <1>7, <2>1 DEF JoinOne
  <1>8. CASE Joined
    <2>1. InSequence'
      BY <1>0, <1>8 DEF Joined, Goto, InSequence, NothingLeftRunning, Phase, Instance, vars
    <2> QED  BY <1>8, <2>1 DEF Joined
  <1>9. CASE DropInbox
    <2>1. PICK i \in Instance : Abandon(i)
      BY <1>9 DEF DropInbox
    <2>2. /\ pc[i] = "unborn" /\ pc' = [pc EXCEPT ![i] = "ended"]
          /\ UNCHANGED <<phase, at, count>> /\ phase = "reaping"
      BY <1>9, <2>1 DEF DropInbox, svcVars, Abandon, End, Close
    <2>3. InSequence'
      BY <1>0, <2>2 DEF InSequence, NothingLeftRunning, Phase
    <2> QED  BY <2>1, <2>3 DEF Next
  <1>10. CASE SpawnFailed
    <2>1. InSequence'
      BY <1>0, <1>10 DEF SpawnFailed, Goto, InSequence, NothingLeftRunning, Phase, Instance, vars
    <2> QED  BY <1>10, <2>1 DEF SpawnFailed
  <1>11. CASE Retire
    <2>1. InSequence'
      BY <1>0, <1>11 DEF Retire, Goto, InSequence, NothingLeftRunning, Phase, Instance, vars
    <2> QED  BY <1>11, <2>1 DEF Retire
  <1>12. CASE Instances
    <2>1. PICK i \in Instance : Thread(i) \/ World(i)
      BY <1>12 DEF Instances
    <2>2. UNCHANGED <<phase, at, count>>
      BY <1>12 DEF Instances, svcVars
    <2>3. \A k \in Instance : pc[k] \in {"unborn", "ended"} => pc'[k] = pc[k]
      BY <2>1, ThreadsOnlyRun
    <2>4. InSequence'
      BY <1>0, <2>2, <2>3 DEF InSequence, NothingLeftRunning, Phase, Instance
    <2> QED  BY <2>1, <2>4 DEF Next
  <1> QED  BY <1>1, <1>2, <1>3, <1>4, <1>5, <1>6, <1>7, <1>8, <1>9, <1>10, <1>11, <1>12
           DEF SvcNext, Task, Ended

\* So both hold throughout.
LEMMA SvcInvariance == SvcSpec => [](Machine /\ InSequence)
  <1>1. SvcInit => Machine /\ InSequence
    BY InitMachine, InitInSequence DEF SvcInit
  <1>2. Machine /\ InSequence /\ [SvcNext]_allVars => (Machine /\ InSequence)'
    BY NextInSequence, NextMachine DEF Machine
  <1> QED  BY <1>1, <1>2, PTL DEF SvcSpec

\* A service is a router whose environment takes its steps in the order of
\* Service::spawn, stop and join: every theorem about the router holds of it.
THEOREM ServiceIsARouter == SvcSpec => Spec
  <1>1. Machine /\ InSequence /\ [SvcNext]_allVars => [Next]_vars
    BY NextInSequence DEF Machine
  <1>2. SvcInit => Init
    BY DEF SvcInit
  <1> QED  BY <1>1, <1>2, SvcInvariance, PTL DEF SvcSpec, Spec

\* When `spawn` has reported an error, and when a retired service has been joined, no
\* thread of the service is left (Service::spawn, stop and join).
THEOREM NothingLeftRunningHolds == SvcSpec => []NothingLeftRunning
  <1>1. InSequence => NothingLeftRunning
    BY DEF InSequence
  <1> QED  BY <1>1, SvcInvariance, PTL

\* What the router promises holds of every service.
THEOREM ServiceKeepsItsWord ==
    SvcSpec => [](NoLostWakeup /\ RoutedBeforeNext /\ BackpressureIsLossless /\ ExactlyOnePlace)
  BY ServiceIsARouter, NoLostWakeupHolds, RoutedBeforeNextHolds,
     BackpressureIsLosslessHolds, ExactlyOnePlaceHolds, PTL
=============================================================================
