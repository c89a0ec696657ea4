--------------------------- MODULE InstanceProofs ---------------------------
(***************************************************************************)
(* Theorems about one block instance, for every depth, budget and number   *)
(* of timer ids: the types and the ledger, the timers that are armed, the  *)
(* ticks of cancelled ones, and the one end of every life.                 *)
(*                                                                         *)
(* The inductive invariant adds to them what the properties leave unsaid:  *)
(* which lives can be where (Lives), that task numbers are given out once  *)
(* (NumberedOnce), and that a one-shot whose tick waits is no longer armed *)
(* (SpentAreForgotten).  The last is why `timer_cancel` cannot answer zero *)
(* for it.                                                                 *)
(***************************************************************************)
EXTENDS Instance, PropContext, TLAPS, SequenceTheorems, WellFoundedInduction


-----------------------------------------------------------------------------
(* Numbers: a least one exists, which is induction without a rule for it.  *)

\* Whatever is true of some natural number is true of a least one.
LEMMA Least ==
  ASSUME NEW S \in SUBSET Nat, S # {}
  PROVE  \E m \in S : \A k \in S : m <= k
  <1>1. \E m \in S : \A k \in S : <<k, m>> \notin OpToRel(<, Nat)
    <2> DEFINE R == OpToRel(<, Nat)
    <2>1. IsWellFoundedOn(R, Nat)
      BY NatLessThanWellFounded
    <2> HIDE DEF R
    <2>2. \E m \in S : \A k \in S : <<k, m>> \notin R
      BY <2>1, WFMin
    <2> QED  BY <2>2 DEF R
  <1>2. \A k, m \in Nat : <<k, m>> \notin OpToRel(<, Nat) => m <= k
    BY DEF OpToRel
  <1> QED  BY <1>1, <1>2

-----------------------------------------------------------------------------
(* The ledger: running totals of a sequence.                               *)

Total(f, e, m) == f = [n \in 0..m |-> IF n = 0 THEN 0 ELSE f[n - 1] + e[n]]

\* There are running totals of whatever has been accepted: the recursion of Sum ends.
LEMMA RunningTotal ==
  ASSUME NEW e, NEW m \in Nat
  PROVE  \E f : Total(f, e, m)
  <1> DEFINE Missing == {k \in Nat : ~\E f : Total(f, e, k)}
  <1> SUFFICES ASSUME Missing # {} PROVE FALSE
    OBVIOUS
  <1>1. PICK k \in Missing : \A j \in Missing : k <= j
    BY Least
  <1>2. k # 0
    <2> DEFINE f == [n \in 0..0 |-> 0]
    <2>1. Total(f, e, 0)
      BY DEF Total
    <2> QED  BY <2>1
  <1>3. k - 1 \in Nat /\ k - 1 \notin Missing
    BY <1>1, <1>2
  <1>4. PICK f : Total(f, e, k - 1)
    BY <1>3
  <1> DEFINE g == [n \in 0..k |-> IF n = k THEN f[k - 1] + e[k] ELSE f[n]]
  <1>5. Total(g, e, k)
    <2> SUFFICES ASSUME NEW n \in 0..k
                 PROVE  g[n] = IF n = 0 THEN 0 ELSE g[n - 1] + e[n]
      BY DEF Total
    <2>1. CASE n = k
      BY <2>1, <1>2, <1>3
    <2>2. CASE n # k
      <3>1. n \in 0..(k - 1) /\ g[n] = f[n] /\ (n # 0 => g[n - 1] = f[n - 1])
        BY <2>2, <1>3
      <3> QED  BY <3>1, <1>4 DEF Total
    <2> QED  BY <2>1, <2>2
  <1> QED  BY <1>5

\* They depend on the elements summed and on nothing else.
LEMMA TotalsAgree ==
  ASSUME NEW m \in Nat, NEW n \in 0..m, NEW e, NEW h, NEW f, NEW g,
         Total(f, e, m), Total(g, h, m), \A k \in 1..n : e[k] = h[k]
  PROVE  f[n] = g[n]
  <1> DEFINE Apart == {k \in Nat : k <= n /\ f[k] # g[k]}
  <1> SUFFICES ASSUME Apart # {} PROVE FALSE
    OBVIOUS
  <1>1. PICK k \in Apart : \A j \in Apart : k <= j
    BY Least
  <1>2. k \in 0..m /\ f[k] # g[k]
    BY <1>1
  <1>3. k # 0
    BY <1>2 DEF Total
  <1>4. k - 1 \in Nat /\ k - 1 \notin Apart
    BY <1>1, <1>3
  <1>5. f[k - 1] = g[k - 1] /\ e[k] = h[k]
    BY <1>1, <1>3, <1>4
  <1> QED  BY <1>2, <1>3, <1>5 DEF Total

\* Sum is such a total, of the emissions before a step and of those after it.
LEMMA SumIsTotal ==
  /\ MaxEmits \in Nat
  /\ Total(Sum, emissions, MaxEmits)
  /\ Total(Sum', emissions', MaxEmits)
  <1>1. MaxEmits \in Nat
    BY InstanceAssumption
  <1> QED  BY RunningTotal, <1>1 DEF Total, Sum

Ledger ==
    /\ emissions \in Seq(Lens) /\ Len(emissions) <= MaxEmits
    /\ held = Sum[Len(emissions)] /\ held <= Budget
    /\ ~(pc \in Calls) => held = 0

\* What is not charged does not change the ledger.
LEMMA LedgerKept ==
  ASSUME Ledger, emissions' = emissions, held' = held, pc' \in Calls \/ pc \notin Calls
  PROVE  Ledger'
  <1>1. Len(emissions) \in 0..MaxEmits
    BY SumIsTotal DEF Ledger
  <1>2. Sum'[Len(emissions)] = Sum[Len(emissions)]
    BY <1>1, SumIsTotal, TotalsAgree
  <1> QED  BY <1>2 DEF Ledger

\* Draining takes the charge with the batches.
LEMMA LedgerDrained ==
  ASSUME emissions' = <<>>, held' = 0
  PROVE  Ledger'
  <1>1. Sum'[0] = 0
    BY SumIsTotal DEF Total
  <1> QED  BY <1>1, InstanceAssumption, SumIsTotal DEF Ledger

-----------------------------------------------------------------------------
(* Timers: ids, tasks and the ticks that wait.                             *)

\* An id is found whenever one is free, and it names no timer (Inner::fresh_id).
LEMMA FreshIdIsFree ==
  ASSUME nextId \in Ids, NEW id \in Ids, Free(id)
  PROVE  FreshId \in Ids /\ Free(FreshId)
  <1> DEFINE Steps == {k \in 0 .. IdSpace - 1 : Free((nextId + k) % IdSpace)}
  <1>1. IdSpace \in Nat \ {0}
    BY InstanceAssumption
  <1>2. \A k \in Int : k % IdSpace \in Ids
    BY <1>1 DEF Ids
  <1>3. \E k \in 0 .. IdSpace - 1 : (nextId + k) % IdSpace = id
    <2>1. CASE nextId <= id
      <3>1. id - nextId \in 0 .. IdSpace - 1 /\ nextId + (id - nextId) = id /\ id % IdSpace = id
        BY <1>1, <2>1 DEF Ids
      <3> QED  BY <3>1
    <2>2. CASE id < nextId
      <3>1. id + IdSpace - nextId \in 0 .. IdSpace - 1 /\ nextId + (id + IdSpace - nextId) = id + IdSpace
        BY <1>1, <2>2 DEF Ids
      <3>2. (id + IdSpace) % IdSpace = id
        BY <1>1 DEF Ids
      <3> QED  BY <3>1, <3>2
    <2> QED  BY <2>1, <2>2 DEF Ids
  <1>4. Steps # {} /\ Steps \in SUBSET Nat
    BY <1>3
  <1>5. \E k \in Steps : \A j \in Steps : k <= j
    BY <1>4, Least
  <1> DEFINE k == CHOOSE k \in Steps : \A j \in Steps : k <= j
  <1>6. k \in Steps
    BY <1>5
  <1>7. FreshId = (nextId + k) % IdSpace
    BY DEF FreshId
  <1> HIDE DEF k
  <1>8. nextId + k \in Int
    BY <1>6 DEF Ids
  <1> QED  BY <1>2, <1>6, <1>7, <1>8

-----------------------------------------------------------------------------
(* The inductive invariant.                                                *)

Lives ==
    /\ pc \in {"abi", "configure", "start", "recv", "callback"} =>
          outcome = "none" /\ stops = 0 /\ ends = 0
    /\ pc \in {"abi", "configure", "start"} => after = "recv"
    /\ pc = "stop" => outcome = "none" /\ stops = 1 /\ ends = 0
    /\ pc = "route" /\ after # "ended" => outcome = "none" /\ stops = 0 /\ ends = 0
    /\ pc = "route" /\ after = "ended" =>
          ends = 1 /\ (outcome = "died" \/ (outcome = "stopped" /\ stops = 1))
    /\ EveryLifeIsClosed

NumberedOnce ==
    /\ cancelled \subseteq 1 .. sets
    /\ \A id \in DOMAIN armed : armed[id] \in 1 .. sets /\ armed[id] \notin cancelled
    /\ \A i, j \in DOMAIN armed : armed[i] = armed[j] => i = j

Ticks == {w \in {current} \cup {mailbox[i] : i \in 1 .. Len(mailbox)} : w.kind = "timer"}

SpentAreForgotten ==
    \A w \in Ticks : ~w.repeat =>
        /\ w.task \in 1 .. sets /\ w.task \notin cancelled
        /\ \A id \in DOMAIN armed : armed[id] # w.task

\* What `armed` may be: the numbers of tasks, by id.
ArmedMaps == UNION {[I -> 1 .. MaxSets] : I \in SUBSET Ids}

Types ==
    /\ pc \in Calls \cup {"recv", "route", "ended"}
    /\ after \in {"recv", "stop", "ended"} /\ listener \in BOOLEAN
    /\ mailbox \in Seq(Work) /\ Len(mailbox) <= Depth
    /\ current \in Work \cup {Idle}
    /\ pending \in Seq(Lens)
    /\ nextId \in Ids
    /\ armed \in ArmedMaps
    /\ tasks \in SUBSET Timer
    /\ outcome \in {"none", "failed", "stopped", "died"}
    /\ sets \in 0 .. MaxSets
    /\ cancelled \subseteq 1 .. MaxSets /\ lost \subseteq 1 .. MaxSets
    /\ stops \in 0 .. 1 /\ ends \in 0 .. 2 /\ posts \in 0 .. MaxPosts

Scheduled == NumberedOnce /\ ArmedAreRunning /\ SpentAreForgotten

Inductive == Types /\ Ledger /\ Lives /\ Scheduled

\* It contains the type invariant that the runs check, its ledger included.
LEMMA InductiveIsTyped == Inductive => TypeOK
  BY DEF Inductive, TypeOK, Types, Ledger, ArmedMaps


\* A step that arms, cancels and fires nothing, and adds no tick.
LEMMA TimersKept ==
  ASSUME Scheduled, armed' = armed, tasks' = tasks, sets' = sets, cancelled' = cancelled,
         outcome' = outcome, Ticks' \subseteq Ticks
  PROVE  Scheduled'
  BY DEF Scheduled, NumberedOnce, ArmedAreRunning, SpentAreForgotten

\* A step after which no timer is left.
LEMMA TimersGone ==
  ASSUME Scheduled, armed' = <<>>, tasks' = {}, sets' = sets, cancelled' = cancelled,
         Ticks' \subseteq Ticks
  PROVE  Scheduled'
  BY DEF Scheduled, NumberedOnce, ArmedAreRunning, SpentAreForgotten

\* What `cancel_all` aborts is all there is: a task that is not armed there is not.
LEMMA CancelAllEmpties ==
  ASSUME ArmedAreRunning, CancelAll
  PROVE  armed' = <<>> /\ tasks' = {}
  BY DEF ArmedAreRunning, CancelAll

\* The ticks that wait, when an item leaves the mailbox and when one joins it.
LEMMA TicksOfTail ==
  ASSUME mailbox \in Seq(Work), mailbox # <<>>, mailbox' = Tail(mailbox),
         current' \in {current, Head(mailbox), Idle}
  PROVE  Ticks' \subseteq Ticks
  <1>1. Len(mailbox) \in Nat \ {0} /\ Len(mailbox') = Len(mailbox) - 1
    BY EmptySeq, LenProperties
  <1>2. \A i \in 1 .. Len(mailbox') : mailbox'[i] = mailbox[i + 1] /\ i + 1 \in 1 .. Len(mailbox)
    BY <1>1
  <1>3. Head(mailbox) = mailbox[1] /\ 1 \in 1 .. Len(mailbox)
    BY <1>1
  <1>4. Idle.kind # "timer"
    BY DEF Idle
  <1> QED  BY <1>2, <1>3, <1>4 DEF Ticks

\* The same for what is appended.
LEMMA TicksOfAppend ==
  ASSUME mailbox \in Seq(Work), NEW w, mailbox' = Append(mailbox, w), current' = current
  PROVE  Ticks' \subseteq Ticks \cup {w}
  <1>1. Len(mailbox) \in Nat /\ Len(mailbox') = Len(mailbox) + 1
    OBVIOUS
  <1>2. \A i \in 1 .. Len(mailbox) : mailbox'[i] = mailbox[i]
    OBVIOUS
  <1>3. mailbox'[Len(mailbox) + 1] = w
    OBVIOUS
  <1> QED  BY <1>1, <1>2, <1>3 DEF Ticks

\* And when the mailbox stays.
LEMMA TicksOfSame ==
  ASSUME mailbox' \in {mailbox, <<>>}, current' \in {current, Idle}
  PROVE  Ticks' \subseteq Ticks
  <1>1. Idle.kind # "timer"
    BY DEF Idle
  <1> QED  BY <1>1 DEF Ticks

-----------------------------------------------------------------------------
(* What the guest does while it runs.                                      *)

\* An emission that is accepted.
LEMMA EmitKeeps ==
  ASSUME Inductive, NEW port \in Ports, NEW len \in Lens, Emit(port, len)
  PROVE  Inductive'
  <1> USE DEF Inductive
  <1>1. Types' /\ Lives'
    BY DEF Emit, Types, Lives, EveryLifeIsClosed, lifeVars, timerVars
  <1>2. Ledger'
    <2>1. emissions' \in Seq(Lens) /\ Len(emissions') = Len(emissions) + 1
          /\ emissions'[Len(emissions) + 1] = len
          /\ \A k \in 1 .. Len(emissions) : emissions'[k] = emissions[k]
      BY DEF Emit, Ledger
    <2>2. Len(emissions) \in 0 .. MaxEmits /\ Len(emissions) + 1 \in 1 .. MaxEmits
      BY SumIsTotal DEF Emit, Ledger
    <2>3. Sum'[Len(emissions)] = Sum[Len(emissions)]
      BY <2>1, <2>2, SumIsTotal, TotalsAgree
    <2>4. Sum'[Len(emissions) + 1] = Sum'[Len(emissions)] + emissions'[Len(emissions) + 1]
      BY <2>2, SumIsTotal DEF Total
    <2>5. held' = Sum'[Len(emissions')] /\ held' <= Budget
      BY <2>1, <2>3, <2>4 DEF Emit, Accepts, Ledger
    <2> QED  BY <2>1, <2>2, <2>5 DEF Emit, Ledger, lifeVars
  <1>3. Scheduled'
    BY TicksOfSame, TimersKept DEF Emit, lifeVars, timerVars
  <1> QED  BY <1>1, <1>2, <1>3

\* A timer that is set gets a number and an id of its own.
LEMMA TimerSetKeeps ==
  ASSUME Inductive, NEW repeat \in BOOLEAN, TimerSet(repeat)
  PROVE  Inductive'
  <1> USE DEF Inductive
  <1> DEFINE f == FreshId
             n == sets + 1
  <1>1. f \in Ids /\ f \notin DOMAIN armed
    BY FreshIdIsFree DEF TimerSet, Types, Free
  <1> HIDE DEF f
  <1>2. n \in 1 .. MaxSets /\ n \notin 1 .. sets /\ 1 .. sets \subseteq 1 .. n /\ sets \in Nat
    BY InstanceAssumption DEF TimerSet, Types
  <1>3. /\ sets' = n
        /\ armed' = [id \in DOMAIN armed \cup {f} |-> IF id = f THEN n ELSE armed[id]]
        /\ tasks' = tasks \cup {[task |-> n, id |-> f, repeat |-> repeat]}
        /\ nextId' = (f + 1) % IdSpace
        /\ UNCHANGED <<lifeVars, ledgerVars, mailbox, cancelled, lost, posts>>
        /\ pc \in Calls
    BY DEF TimerSet, f
  <1>4. nextId' \in Ids
    BY <1>1, <1>3, InstanceAssumption DEF Ids
  <1> HIDE DEF n
  <1>5. armed' \in ArmedMaps
    <2>1. PICK I \in SUBSET Ids : armed \in [I -> 1 .. MaxSets]
      BY DEF Types, ArmedMaps
    <2>2. armed' \in [I \cup {f} -> 1 .. MaxSets]
      BY <1>2, <1>3, <2>1
    <2> QED  BY <1>1, <2>2 DEF ArmedMaps
  <1> DEFINE u == [task |-> n, id |-> f, repeat |-> repeat]
  <1>6. u \in Timer /\ tasks' = tasks \cup {u} /\ u.id = f /\ u.task = n
    BY <1>1, <1>2, <1>3 DEF Timer
  <1> HIDE DEF u
  <1>12. Types'
    <2>1. UNCHANGED <<lifeVars, ledgerVars, mailbox, cancelled, lost, posts>>
      BY <1>3
    <2>2. sets' \in 0 .. MaxSets
      BY <1>2, <1>3
    <2>3. tasks' \in SUBSET Timer
      BY <1>6 DEF Types
    <2> QED  BY <1>4, <1>5, <2>1, <2>2, <2>3 DEF Types, lifeVars, ledgerVars
  <1>7. Ledger' /\ Lives'
    BY <1>3, LedgerKept DEF lifeVars, ledgerVars, Lives, EveryLifeIsClosed
  <1>8. /\ DOMAIN armed' = DOMAIN armed \cup {f} /\ armed'[f] = n
        /\ \A id \in DOMAIN armed : armed'[id] = armed[id]
        /\ sets' = n /\ cancelled' = cancelled /\ outcome' = outcome /\ outcome = "none"
    BY <1>1, <1>3 DEF Lives, Calls, lifeVars
  <1>9. NumberedOnce'
    BY <1>1, <1>2, <1>8 DEF Scheduled, NumberedOnce
  <1>10. ArmedAreRunning'
    BY <1>1, <1>6, <1>8 DEF Scheduled, ArmedAreRunning
  <1>11. SpentAreForgotten'
    <2>1. Ticks' \subseteq Ticks
      BY <1>3, TicksOfSame DEF Types, lifeVars
    <2> QED  BY <1>2, <1>8, <2>1 DEF Scheduled, SpentAreForgotten
  <1> QED  BY <1>12, <1>7, <1>9, <1>10, <1>11 DEF Scheduled

\* An id that is cancelled leaves no task behind.
LEMMA TimerCancelKeeps ==
  ASSUME Inductive, NEW id \in Ids, TimerCancel(id)
  PROVE  Inductive'
  <1> USE DEF Inductive
  <1>1. /\ id \in DOMAIN armed
        /\ armed' = [i \in DOMAIN armed \ {id} |-> armed[i]]
        /\ tasks' = {t \in tasks : t.task # armed[id]}
        /\ cancelled' = cancelled \cup {armed[id]}
        /\ UNCHANGED <<lifeVars, ledgerVars, mailbox, nextId, sets, lost, posts>>
    BY DEF TimerCancel, Free, Without, Abort
  <1>2. armed' \in ArmedMaps /\ armed[id] \in 1 .. MaxSets
    <2>1. PICK I \in SUBSET Ids : armed \in [I -> 1 .. MaxSets]
      BY DEF Types, ArmedMaps
    <2>2. armed' \in [I \ {id} -> 1 .. MaxSets]
      BY <1>1, <2>1
    <2> QED  BY <1>1, <2>1, <2>2 DEF ArmedMaps
  <1>3. Types'
    BY <1>1, <1>2 DEF Types, lifeVars, ledgerVars
  <1>4. Ledger' /\ Lives'
    BY <1>1, LedgerKept DEF lifeVars, ledgerVars, Lives, EveryLifeIsClosed
  <1>5. NumberedOnce'
    BY <1>1 DEF Scheduled, NumberedOnce
  <1>6. ArmedAreRunning'
    BY <1>1 DEF Scheduled, NumberedOnce, ArmedAreRunning, lifeVars
  <1>7. SpentAreForgotten'
    <2>1. Ticks' \subseteq Ticks
      BY <1>1, TicksOfSame DEF lifeVars
    <2> QED  BY <1>1, <2>1 DEF Scheduled, SpentAreForgotten
  <1> QED  BY <1>3, <1>4, <1>5, <1>6, <1>7 DEF Scheduled

-----------------------------------------------------------------------------
(* The steps of the instance's task.                                       *)

\* What was emitted joins what waits to be routed.
LEMMA Drained ==
  ASSUME Inductive, Collect
  PROVE  pending' \in Seq(Lens) /\ Ledger'
  BY LedgerDrained DEF Inductive, Types, Ledger, Collect

\* Steps that leave the mailbox and the timers alone.
LEMMA QuietKeeps ==
  ASSUME Inductive,
         AbiAccepted \/ ConfigureReturns \/ StartReturns \/ RouteOne \/ CallbackReturns \/ Abandoned
  PROVE  Inductive'
  <1> USE DEF Inductive
  <1>1. UNCHANGED <<timerVars, mailbox, outcome>> /\ current' \in {current, Idle}
    BY DEF AbiAccepted, ConfigureReturns, StartReturns, RouteOne, CallbackReturns, Abandoned, lifeVars
  <1>2. Scheduled'
    BY <1>1, TicksOfSame, TimersKept DEF timerVars
  <1>3. CASE AbiAccepted
    BY <1>2, <1>3, LedgerKept DEF AbiAccepted, Types, Lives, EveryLifeIsClosed, Calls, ledgerVars, timerVars
  <1>4. CASE ConfigureReturns
    BY <1>2, <1>4, Drained DEF ConfigureReturns, Types, Lives, EveryLifeIsClosed, Calls, timerVars
  <1>5. CASE StartReturns
    BY <1>2, <1>5, Drained DEF StartReturns, Types, Lives, EveryLifeIsClosed, timerVars
  <1>6. CASE RouteOne
    <2>1. pending' \in Seq(Lens)
      BY <1>6 DEF RouteOne, Types
    <2> QED  BY <1>2, <1>6, <2>1, LedgerKept DEF RouteOne, Types, Lives, EveryLifeIsClosed, lifeVars, timerVars
  <1>7. CASE CallbackReturns
    BY <1>2, <1>7, Drained DEF CallbackReturns, Types, Lives, EveryLifeIsClosed, timerVars
  <1>8. CASE Abandoned
    BY <1>2, <1>8, LedgerKept DEF Abandoned, Types, Lives, EveryLifeIsClosed, ledgerVars, timerVars
  <1> QED  BY <1>3, <1>4, <1>5, <1>6, <1>7, <1>8

\* The map of armed timers may be empty.
LEMMA NoneArmed == <<>> \in ArmedMaps
  <1>1. <<>> \in [{} -> 1 .. MaxSets]
    OBVIOUS
  <1> QED  BY <1>1 DEF ArmedMaps

\* The guest's last call: it returns, or it dies.
LEMMA LastCallKeeps ==
  ASSUME Inductive, Dies \/ StopReturns
  PROVE  Inductive'
  <1> USE DEF Inductive
  <1>1. armed' = <<>> /\ tasks' = {}
    BY CancelAllEmpties DEF Dies, StopReturns, Scheduled
  <1>2. UNCHANGED <<sets, cancelled, mailbox>> /\ current' \in {current, Idle}
    BY DEF Dies, StopReturns
  <1>3. Scheduled'
    BY <1>1, <1>2, TicksOfSame, TimersGone
  <1>4. CASE Dies
    <2>1. pc \in {"callback", "stop"} /\ ends = 0
      BY <1>4 DEF Dies, Lives
    <2> QED  BY <1>1, <1>3, <1>4, <2>1, Drained, NoneArmed DEF Dies, Types, Lives, EveryLifeIsClosed
  <1>5. CASE StopReturns
    BY <1>1, <1>3, <1>5, Drained, NoneArmed DEF StopReturns, Types, Lives, EveryLifeIsClosed
  <1> QED  BY <1>4, <1>5

\* The thread returns: nothing of the instance is left.
LEMMA ThreadEndsKeeps ==
  ASSUME Inductive, StartFails \/ RouteDone
  PROVE  Inductive'
  <1> USE DEF Inductive
  <1>1. CASE ThreadEnds /\ UNCHANGED <<sets, cancelled>>
    <2>1. Scheduled'
      BY <1>1, TicksOfSame, TimersGone DEF ThreadEnds
    <2>2. CASE StartFails
      <3>1. Ledger' /\ Lives'
        BY <1>1, <2>2, LedgerDrained DEF StartFails, ThreadEnds, Lives, EveryLifeIsClosed
      <3>2. mailbox' \in Seq(Work) /\ Len(mailbox') <= Depth /\ pending' \in Seq(Lens)
        BY <1>1, <2>2, InstanceAssumption DEF StartFails, ThreadEnds
      <3>3. Types'
        BY <1>1, <2>2, <3>2, NoneArmed DEF StartFails, ThreadEnds, Types
      <3> QED  BY <2>1, <3>1, <3>3
    <2>3. CASE RouteDone
      <3>1. pc = "route" /\ after = "ended" /\ UNCHANGED <<ledgerVars, posts>>
            /\ UNCHANGED <<after, listener, outcome, stops, ends, nextId, sets, cancelled, lost>>
        BY <1>1, <2>3 DEF RouteDone, ThreadEnds
      <3>2. Ledger'
        BY <3>1, LedgerKept DEF ledgerVars, Calls
      <3>3. Lives'
        BY <1>1, <3>1 DEF ThreadEnds, Lives, EveryLifeIsClosed
      <3>4. mailbox' \in Seq(Work) /\ Len(mailbox') <= Depth
        BY <1>1, InstanceAssumption DEF ThreadEnds
      <3>5. Types'
        BY <1>1, <3>1, <3>4, NoneArmed DEF ThreadEnds, Types, ledgerVars
      <3> QED  BY <2>1, <3>2, <3>3, <3>5
    <2> QED  BY <2>2, <2>3
  <1>2. CASE /\ RouteDone /\ after # "ended" /\ pc' = after
             /\ stops' = (IF after = "stop" THEN stops + 1 ELSE stops)
             /\ UNCHANGED <<after, listener, mailbox, current, outcome, ends, timerVars>>
    <2>1. pc = "route" /\ UNCHANGED <<ledgerVars, posts>> /\ stops = 0 /\ after \in {"recv", "stop"}
      BY <1>2 DEF RouteDone, Lives, Types
    <2>2. Scheduled'
      BY <1>2, TicksOfSame, TimersKept DEF timerVars
    <2>3. Ledger'
      BY <1>2, <2>1, LedgerKept DEF Ledger, ledgerVars, Calls
    <2>4. Lives'
      BY <1>2, <2>1 DEF Lives, EveryLifeIsClosed
    <2>5. Types'
      BY <1>2, <2>1 DEF Types, Calls, ledgerVars, timerVars
    <2> QED  BY <2>2, <2>3, <2>4, <2>5
  <1> QED  BY <1>1, <1>2 DEF StartFails, RouteDone

\* `recv` takes what is at the head of the queue.
LEMMA TakeKeeps ==
  ASSUME Inductive, TakeStop \/ TakeWork \/ Refuse
  PROVE  Inductive'
  <1> USE DEF Inductive
  <1>1. /\ pc = "recv" /\ mailbox # <<>> /\ mailbox' = Tail(mailbox)
        /\ current' \in {current, Head(mailbox)}
        /\ UNCHANGED <<outcome, timerVars>>
    BY DEF TakeStop, TakeWork, Refuse
  <1>2. Scheduled'
    BY <1>1, TicksOfTail, TimersKept DEF Types, timerVars
  <1>3. mailbox' \in Seq(Work) /\ Len(mailbox') <= Depth /\ Head(mailbox) \in Work
    BY <1>1, InstanceAssumption DEF Types
  <1>4. CASE TakeStop
    BY <1>1, <1>2, <1>3, <1>4, LedgerKept DEF TakeStop, Types, Lives, EveryLifeIsClosed, Calls, ledgerVars, timerVars
  <1>5. CASE TakeWork
    BY <1>1, <1>2, <1>3, <1>5, LedgerKept DEF TakeWork, Types, Lives, EveryLifeIsClosed, Calls, ledgerVars, timerVars
  <1>6. CASE Refuse
    BY <1>1, <1>2, <1>3, <1>6, Drained DEF Refuse, Types, Lives, EveryLifeIsClosed, timerVars
  <1> QED  BY <1>4, <1>5, <1>6

-----------------------------------------------------------------------------
(* Timers and the rest of the service.                                     *)

\* A timer fires: a one-shot is forgotten in the step that posts its tick.
LEMMA FiresKeeps ==
  ASSUME Inductive, NEW t \in tasks, Fires(t)
  PROVE  Inductive'
  <1> USE DEF Inductive
  <1>1. t \in Timer /\ t.id \in DOMAIN armed /\ armed[t.id] = t.task
    BY DEF Types, Scheduled, ArmedAreRunning
  <1>2. Tick(t) \in Work /\ Tick(t).kind = "timer" /\ Tick(t).task = t.task
        /\ Tick(t).repeat = t.repeat
    BY <1>1 DEF Work, Tick
  <1>3. /\ UNCHANGED <<lifeVars, ledgerVars, nextId, sets, cancelled, posts>>
        /\ mailbox' = mailbox \/ (mailbox' = Append(mailbox, Tick(t)) /\ Len(mailbox) < Depth)
        /\ pc \in {"recv", "route"}
    BY DEF Fires, Suspended
  <1>4. mailbox' \in Seq(Work) /\ Len(mailbox') <= Depth
    <2>1. mailbox \in Seq(Work) /\ Len(mailbox) <= Depth /\ Depth \in Nat
      BY InstanceAssumption DEF Types
    <2>2. CASE mailbox' = mailbox
      BY <2>1, <2>2
    <2>3. CASE mailbox' = Append(mailbox, Tick(t)) /\ Len(mailbox) < Depth
      BY <1>2, <2>1, <2>3, AppendProperties
    <2> QED  BY <1>3, <2>2, <2>3
  <1>5. Ticks' \subseteq Ticks \cup {Tick(t)}
    BY <1>2, <1>3, TicksOfSame, TicksOfAppend DEF Types, lifeVars
  <1>6. Ledger' /\ Lives'
    BY <1>3, LedgerKept DEF lifeVars, ledgerVars, Lives, EveryLifeIsClosed
  <1>7. CASE t.repeat
    <2>1. UNCHANGED <<armed, tasks, lost>>
      BY <1>7 DEF Fires
    <2>2. Types'
      BY <1>3, <1>4, <2>1 DEF Types, lifeVars, ledgerVars
    <2>3. Scheduled'
      BY <1>2, <1>3, <1>5, <1>7, <2>1 DEF Scheduled, NumberedOnce, ArmedAreRunning, SpentAreForgotten, lifeVars
    <2> QED  BY <1>6, <2>2, <2>3
  <1>8. CASE ~t.repeat
    <2>1. /\ armed' = [i \in DOMAIN armed \ {t.id} |-> armed[i]]
          /\ tasks' = {u \in tasks : u.task # t.task}
          /\ lost' \subseteq lost \cup {t.task}
      BY <1>8 DEF Fires, Without, Abort
    <2>2. armed' \in ArmedMaps /\ t.task \in 1 .. MaxSets
      <3>1. PICK I \in SUBSET Ids : armed \in [I -> 1 .. MaxSets]
        BY DEF Types, ArmedMaps
      <3>2. armed' \in [I \ {t.id} -> 1 .. MaxSets]
        BY <2>1, <3>1
      <3> QED  BY <1>1, <3>1, <3>2 DEF ArmedMaps
    <2>3. Types'
      <3>1. lost' \subseteq 1 .. MaxSets /\ tasks' \in SUBSET Timer
        BY <2>1, <2>2 DEF Types
      <3> QED  BY <1>3, <1>4, <2>2, <3>1 DEF Types, lifeVars, ledgerVars
    <2>4. NumberedOnce'
      BY <1>3, <2>1 DEF Scheduled, NumberedOnce
    <2>5. ArmedAreRunning'
      <3>1. /\ \A u \in tasks : u.id \in DOMAIN armed /\ armed[u.id] = u.task
            /\ \A id \in DOMAIN armed : \E u \in tasks : u.id = id /\ u.task = armed[id]
            /\ \A i, j \in DOMAIN armed : armed[i] = armed[j] => i = j
            /\ outcome # "none" => tasks = {}
        BY DEF Scheduled, NumberedOnce, ArmedAreRunning
      <3>2. t.id \in DOMAIN armed /\ armed[t.id] = t.task
        BY <3>1
      <3>3. ASSUME NEW u \in tasks'
            PROVE  u.id \in DOMAIN armed' /\ armed'[u.id] = u.task
        <4>1. u \in tasks /\ u.task # t.task
          BY <2>1
        <4>2. u.id \in DOMAIN armed /\ armed[u.id] = u.task /\ u.id # t.id
          BY <3>1, <3>2, <4>1
        <4> QED  BY <2>1, <4>2
      <3>4. ASSUME NEW id \in DOMAIN armed'
            PROVE  \E u \in tasks' : u.id = id /\ u.task = armed'[id]
        <4>1. id \in DOMAIN armed /\ id # t.id /\ armed'[id] = armed[id]
          BY <2>1
        <4>2. PICK u \in tasks : u.id = id /\ u.task = armed[id]
          BY <3>1, <4>1
        <4>3. u.task # t.task
          BY <3>1, <3>2, <4>1, <4>2
        <4> QED  BY <2>1, <4>1, <4>2, <4>3
      <3>5. outcome' = "none"
        BY <1>3, <3>1 DEF lifeVars
      <3> QED  BY <3>3, <3>4, <3>5 DEF ArmedAreRunning
    <2>6. SpentAreForgotten'
      <3>1. \A id \in DOMAIN armed' : armed'[id] = armed[id] /\ armed[id] # t.task
        BY <1>1, <2>1 DEF Scheduled, NumberedOnce
      <3>2. t.task \in 1 .. sets /\ t.task \notin cancelled
        BY <1>1 DEF Scheduled, NumberedOnce
      <3> QED  BY <1>2, <1>3, <1>5, <2>1, <3>1, <3>2 DEF Scheduled, SpentAreForgotten
    <2> QED  BY <1>6, <2>3, <2>4, <2>5, <2>6 DEF Scheduled
  <1> QED  BY <1>7, <1>8

\* A batch or a stop arrives: neither is a tick.
LEMMA ArrivalKeeps ==
  ASSUME Inductive, Arrives \/ StopSent
  PROVE  Inductive'
  <1> USE DEF Inductive
  <1>1. PICK w \in {Batch, Stop} : mailbox' = Append(mailbox, w)
    BY DEF Arrives, StopSent
  <1>2. w \in Work /\ w.kind # "timer"
    BY <1>1 DEF Work, Batch, Stop
  <1>3. /\ UNCHANGED <<lifeVars, ledgerVars, timerVars>> /\ Len(mailbox) < Depth
        /\ posts' \in 0 .. MaxPosts
    BY SMTT(30), InstanceAssumption DEF Arrives, StopSent, Types
  <1>4. mailbox' \in Seq(Work) /\ Len(mailbox') <= Depth
    BY <1>1, <1>2, <1>3, InstanceAssumption DEF Types
  <1>5. Ticks' \subseteq Ticks
    <2>1. Ticks' \subseteq Ticks \cup {w}
      BY <1>1, <1>3, TicksOfAppend DEF Types, lifeVars
    <2>2. w \notin Ticks'
      BY <1>2 DEF Ticks
    <2> QED  BY <2>1, <2>2
  <1>6. Scheduled'
    BY <1>3, <1>5, TimersKept DEF lifeVars, timerVars
  <1>7. Ledger' /\ Lives'
    BY <1>3, LedgerKept DEF lifeVars, ledgerVars, Lives, EveryLifeIsClosed
  <1>8. Types'
    BY <1>3, <1>4 DEF Types, lifeVars, ledgerVars, timerVars
  <1> QED  BY <1>6, <1>7, <1>8

-----------------------------------------------------------------------------
(* The theorems.                                                           *)

\* A new instance has no timer, no charge and no work.
LEMMA InitInductive == Init => Inductive
  <1> SUFFICES ASSUME Init PROVE Inductive
    OBVIOUS
  <1>1. Types
    BY NoneArmed, InstanceAssumption DEF Init, Types, Calls, Ids
  <1>2. Ledger
    <2>1. Sum[0] = 0
      BY SumIsTotal DEF Total
    <2> QED  BY <2>1, SumIsTotal, InstanceAssumption DEF Init, Ledger
  <1>3. Lives
    BY DEF Init, Lives, EveryLifeIsClosed
  <1>4. Scheduled
    <2>1. Ticks = {}
      BY DEF Init, Ticks, Idle
    <2> QED  BY <2>1 DEF Init, Scheduled, NumberedOnce, ArmedAreRunning, SpentAreForgotten
  <1> QED  BY <1>1, <1>2, <1>3, <1>4 DEF Inductive

\* Every step keeps the invariant.
LEMMA NextInductive == Inductive /\ [Next]_vars => Inductive'
  <1> SUFFICES ASSUME Inductive, [Next]_vars PROVE Inductive'
    OBVIOUS
  <1>1. CASE GuestActs
    BY <1>1, EmitKeeps, TimerSetKeeps, TimerCancelKeeps DEF GuestActs
  <1>2. CASE TaskSteps
    BY <1>2, QuietKeeps, LastCallKeeps, ThreadEndsKeeps, TakeKeeps DEF TaskSteps
  <1>3. CASE \E t \in tasks : Fires(t)
    BY <1>3, FiresKeeps
  <1>4. CASE Arrives \/ StopSent
    BY <1>4, ArrivalKeeps
  <1>5. CASE Abandoned
    BY <1>5, QuietKeeps
  <1>6. CASE UNCHANGED vars
    <2>1. UNCHANGED <<lifeVars, ledgerVars, timerVars, mailbox, posts>>
      BY <1>6 DEF vars
    <2>2. Ledger'
      BY <2>1, LedgerKept DEF Inductive, lifeVars, ledgerVars
    <2>3. Scheduled'
      BY <2>1, TicksOfSame, TimersKept DEF Inductive, lifeVars, timerVars
    <2>4. Types' /\ Lives'
      BY <2>1 DEF Inductive, Types, Lives, EveryLifeIsClosed, lifeVars, ledgerVars, timerVars
    <2> QED  BY <2>2, <2>3, <2>4 DEF Inductive
  <1> QED  BY <1>1, <1>2, <1>3, <1>4, <1>5, <1>6 DEF Next

\* The invariant holds throughout every life (Live::run and Scheduler).
THEOREM InstanceInvariance == Spec => []Inductive
  BY InitInductive, NextInductive, PTL DEF Spec

\* Types, and the ledger: a guest call begins without a charge, and what is charged is
\* what waits to be drained, never more than max_emission_bytes (Outbound, Shared::held).
THEOREM LedgerIsExact == Spec => []TypeOK
  BY InstanceInvariance, InductiveIsTyped, PTL

\* The armed timers and the tasks that will fire are the same (Scheduler::set, cancel,
\* cancel_all and `fire`), whatever ids are reused.
THEOREM ArmedAreRunningHolds == Spec => []ArmedAreRunning
  <1>1. Inductive => ArmedAreRunning
    BY DEF Inductive, Scheduled
  <1> QED  BY <1>1, InstanceInvariance, PTL

\* A one-shot that `timer_cancel` answered zero for never fires (Scheduler::cancel).
THEOREM CancelledOneShotNeverFiresHolds == Spec => []CancelledOneShotNeverFires
  <1>1. Inductive => CancelledOneShotNeverFires
    BY DEF Inductive, Scheduled, SpentAreForgotten, Ticks, CancelledOneShotNeverFires
  <1> QED  BY <1>1, InstanceInvariance, PTL

\* A guest that started is closed exactly once (Live::run, Live::died, Live::stop).
THEOREM EveryLifeIsClosedHolds == Spec => []EveryLifeIsClosed
  <1>1. Inductive => EveryLifeIsClosed
    BY DEF Inductive, Lives
  <1> QED  BY <1>1, InstanceInvariance, PTL

-----------------------------------------------------------------------------
(* Properties (PropContext).                                               *)

NothingRefused == \A p \in DOMAIN manifest : Source(p) # None => ~Refused(Source(p))

(* What the guest asks of is what this deployment supplies, compiled. *)
Compiled ==
    /\ phase = "ready" => /\ bodies = [p \in DOMAIN manifest |-> Body(Source(p), manifest[p].ty)]
                          /\ NothingRefused
    /\ phase # "ready" => ~open
    /\ open => phase = "ready"

(* The cache holds evaluations on the batch of this callback, and nothing between two. *)
CacheIsFresh ==
    \A p, idx : <<p, idx>> \in DOMAIN cache =>
        /\ open /\ p \in DOMAIN manifest /\ idx \in DOMAIN signals
        /\ cache[<<p, idx>>] = Answer(Source(p), manifest[p].ty, signals[idx])

PropInductive ==
    /\ manifest \in Manifests /\ supplied \in Supplies
    /\ signals \in Batches \cup {<<>>}
    /\ ~open => said = Unasked
    /\ Compiled
    /\ CacheIsFresh
    /\ AnswersTheQuestion

\* What a property is compiled from was declared or supplied (resolve).
LEMMA SourceIsDeployable ==
  ASSUME manifest \in Manifests, supplied \in Supplies, NEW p \in DOMAIN manifest,
         Source(p) # None
  PROVE  Source(p) \in Deployable
  <1> DEFINE Given == UNION {{s[n] : n \in DOMAIN s} : s \in Supplies}
             Defaults == UNION {{m[q].default : q \in DOMAIN m} : m \in Manifests}
  <1>1. CASE manifest[p].name \in DOMAIN supplied
    <2>1. Source(p) \in {supplied[n] : n \in DOMAIN supplied}
      BY <1>1 DEF Source
    <2>2. {supplied[n] : n \in DOMAIN supplied} \in {{s[n] : n \in DOMAIN s} : s \in Supplies}
      OBVIOUS
    <2>3. Source(p) \in Given
      BY <2>1, <2>2
    <2> QED  BY <2>3 DEF Deployable
  <1>2. CASE manifest[p].name \notin DOMAIN supplied
    <2>1. Source(p) \in {manifest[q].default : q \in DOMAIN manifest}
      BY <1>2 DEF Source
    <2>2. {manifest[q].default : q \in DOMAIN manifest}
            \in {{m[q].default : q \in DOMAIN m} : m \in Manifests}
      OBVIOUS
    <2>3. Source(p) \in Defaults
      BY <2>1, <2>2
    <2> QED  BY <2>3 DEF Deployable
  <1> QED  BY <1>1, <1>2

\* An answer for a signal of the batch, or for none, is right if it is what evaluating
\* the source gives, and where a fold may stand in for it, it does (PropContext::answer).
LEMMA FoldsStandIn ==
  ASSUME Language, manifest \in Manifests, supplied \in Supplies,
         signals \in Batches \cup {<<>>}, NothingRefused,
         NEW p \in DOMAIN manifest, Source(p) # None, ~DependsOnSignal(Source(p)),
         NEW idx, InRange(idx)
  PROVE  Right(p, idx) = Served(Answer(Source(p), manifest[p].ty, NothingToRead))
  <1>1. Source(p) \in Deployable /\ ~Refused(Source(p))
    BY SourceIsDeployable DEF NothingRefused
  <1>2. ~ReadsSignal(Source(p))
    BY <1>1 DEF Language
  <1>3. CASE idx = SIGNAL_NONE
    BY <1>2, <1>3 DEF Right
  <1>4. CASE idx # SIGNAL_NONE
    <2>1. idx \in DOMAIN signals
      BY <1>4 DEF InRange
    <2>2. signals \in Batches
      BY <2>1
    <2>3. Evaluates(Source(p), signals[idx]) = Evaluates(Source(p), NothingToRead)
      BY <1>1, <2>1, <2>2 DEF Language
    <2>4. Answer(Source(p), manifest[p].ty, signals[idx])
            = Answer(Source(p), manifest[p].ty, NothingToRead)
      BY <2>3 DEF Answer
    <2> QED  BY <1>2, <1>4, <2>4 DEF Right
  <1> QED  BY <1>3, <1>4

\* An expression that reads the signal is answered from its evaluation on one, or not
\* at all (PropContext::answer).
LEMMA SignalsAreRead ==
  ASSUME Language, manifest \in Manifests, supplied \in Supplies, NothingRefused,
         NEW p \in DOMAIN manifest, Source(p) # None, DependsOnSignal(Source(p)),
         NEW idx
  PROVE  /\ idx = SIGNAL_NONE => Right(p, idx) = Status("NoSignalContext")
         /\ idx # SIGNAL_NONE /\ ~InRange(idx) => Right(p, idx) = Status("InvalidArg")
         /\ idx # SIGNAL_NONE /\ InRange(idx) =>
              Right(p, idx) = Served(Answer(Source(p), manifest[p].ty, signals[idx]))
  <1>1. Source(p) \in Deployable /\ ~Refused(Source(p))
    BY SourceIsDeployable DEF NothingRefused
  <1>2. ReadsSignal(Source(p))
    BY <1>1 DEF Language
  <1> QED  BY <1>2 DEF Right

\* SIGNAL_NONE is never out of range, and no index of a batch is it (State::signal_at).
LEMMA NoneIsNoIndex ==
  ASSUME NEW idx, idx = SIGNAL_NONE
  PROVE  InRange(idx)
  BY DEF InRange

\* What became of each property (PropContext::compile_one).
LEMMA BodyOfSource ==
  ASSUME NEW e, NEW ty
  PROVE  /\ Body(e, ty).kind = "unset" => e = None
         /\ Body(e, ty).kind = "folded" =>
              e # None /\ ~DependsOnSignal(e) /\ Body(e, ty).answer = Answer(e, ty, NothingToRead)
         /\ Body(e, ty).kind = "perSignal" =>
              e # None /\ DependsOnSignal(e) /\ Body(e, ty).expr = e
  BY DEF Body

\* An answer no evaluation is needed for: a status, a fold or the cache.
LEMMA KnownIsRight ==
  ASSUME Language, PropInductive, NEW p, NEW idx, AskKnown(p, idx)
  PROVE  said'.reply = Right(p, idx) /\ said'.prop = p /\ said'.idx = idx
  <1>1. /\ bodies = [q \in DOMAIN manifest |-> Body(Source(q), manifest[q].ty)]
        /\ NothingRefused
    BY DEF PropInductive, Compiled, AskKnown
  <1>2. DOMAIN bodies = DOMAIN manifest
    BY <1>1
  <1> DEFINE Replies(reply) == said' = [prop |-> p, idx |-> idx, reply |-> reply]
  <1>3. CASE p \notin DOMAIN bodies
    <2>1. Replies(Status("InvalidArg"))
      BY <1>3 DEF AskKnown, Says
    <2>2. Right(p, idx) = Status("InvalidArg")
      BY <1>2, <1>3 DEF Right
    <2> QED  BY <2>1, <2>2
  <1>4. CASE p \in DOMAIN bodies
    <2> DEFINE e == Source(p)
    <2>1. p \in DOMAIN manifest /\ bodies[p] = Body(Source(p), manifest[p].ty)
      BY <1>1, <1>2, <1>4
    <2>2. CASE bodies[p].kind = "unset"
      <3>1. Replies(Status("NotFound"))
        BY <1>4, <2>2 DEF AskKnown, Says
      <3>2. Right(p, idx) = Status("NotFound")
        BY <2>1, <2>2, BodyOfSource DEF Right
      <3> QED  BY <3>1, <3>2
    <2>3. CASE bodies[p].kind = "folded"
      <3>1. Replies(IF InRange(idx) THEN Served(bodies[p].answer) ELSE Status("InvalidArg"))
        BY <1>4, <2>3 DEF AskKnown, Says
      <3>2. /\ Source(p) # None /\ ~DependsOnSignal(Source(p))
            /\ bodies[p].answer = Answer(Source(p), manifest[p].ty, NothingToRead)
        BY <2>1, <2>3, BodyOfSource
      <3>3. CASE InRange(idx)
        <4>1. Right(p, idx) = Served(bodies[p].answer)
          BY <1>1, <2>1, <3>2, <3>3, FoldsStandIn DEF PropInductive
        <4> QED  BY <3>1, <3>3, <4>1
      <3>4. CASE ~InRange(idx)
        <4>1. idx # SIGNAL_NONE
          BY <3>4, NoneIsNoIndex
        <4>2. Right(p, idx) = Status("InvalidArg")
          BY <2>1, <3>2, <3>4, <4>1 DEF Right
        <4> QED  BY <3>1, <3>4, <4>2
      <3> QED  BY <3>3, <3>4
    <2>4. CASE bodies[p].kind = "perSignal"
      <3>1. /\ Source(p) # None /\ DependsOnSignal(Source(p))
        BY <2>1, <2>4, BodyOfSource
      <3>2. /\ idx = SIGNAL_NONE => Right(p, idx) = Status("NoSignalContext")
            /\ idx # SIGNAL_NONE /\ ~InRange(idx) => Right(p, idx) = Status("InvalidArg")
            /\ idx # SIGNAL_NONE /\ InRange(idx) =>
                 Right(p, idx) = Served(Answer(Source(p), manifest[p].ty, signals[idx]))
        BY <1>1, <2>1, <3>1, SignalsAreRead DEF PropInductive
      <3>3. \/ idx = SIGNAL_NONE /\ Replies(Status("NoSignalContext"))
            \/ ~InRange(idx) /\ Replies(Status("InvalidArg"))
            \/ /\ idx # SIGNAL_NONE /\ InRange(idx) /\ <<p, idx>> \in DOMAIN cache
               /\ Replies(Served(cache[<<p, idx>>]))
        BY <1>4, <2>4 DEF AskKnown, Says
      <3>4. <<p, idx>> \in DOMAIN cache =>
              cache[<<p, idx>>] = Answer(Source(p), manifest[p].ty, signals[idx])
        BY DEF PropInductive, CacheIsFresh
      <3>5. ~InRange(idx) => idx # SIGNAL_NONE
        BY NoneIsNoIndex
      <3> QED  BY <3>2, <3>3, <3>4, <3>5
    <2>5. bodies[p].kind \in {"unset", "folded", "perSignal"}
      BY <1>4 DEF AskKnown
    <2> QED  BY <2>2, <2>3, <2>4, <2>5
  <1> QED  BY <1>3, <1>4

\* It holds of an instance that was just deployed.
LEMMA PropInitInductive == PropInit => PropInductive
  BY DEF PropInit, PropInductive, Compiled, CacheIsFresh, AnswersTheQuestion

\* A question answered without an evaluation changes nothing else (PropContext::answer).
LEMMA AskKnownKeeps ==
  ASSUME Language, PropInductive, NEW p, NEW idx, AskKnown(p, idx)
  PROVE  PropInductive'
  <1>1. UNCHANGED <<manifest, supplied, phase, bodies, open, signals, cache>> /\ open
    BY DEF AskKnown
  <1>2. Compiled'
    BY <1>1 DEF PropInductive, Compiled, NothingRefused, Source
  <1>3. CacheIsFresh'
    BY <1>1 DEF PropInductive, CacheIsFresh, Source
  <1>4. AnswersTheQuestion'
    <2>1. said'.reply = Right(said'.prop, said'.idx)
      BY KnownIsRight
    <2>2. Right(said'.prop, said'.idx) = (Right(said.prop, said.idx))'
      BY <1>1 DEF Right, Source, InRange
    <2> QED  BY <2>1, <2>2 DEF AnswersTheQuestion
  <1> QED  BY <1>1, <1>2, <1>3, <1>4 DEF PropInductive

\* One that needs an evaluation leaves it in the cache (PropContext::answer).
LEMMA AskFreshKeeps ==
  ASSUME Language, PropInductive, NEW p, NEW idx, AskFresh(p, idx)
  PROVE  PropInductive'
  <1>1. /\ UNCHANGED <<manifest, supplied, phase, bodies, open, signals>> /\ open
        /\ p \in DOMAIN bodies /\ bodies[p].kind = "perSignal"
        /\ idx # SIGNAL_NONE /\ InRange(idx) /\ idx \in DOMAIN signals
    BY DEF AskFresh, InRange
  <1>2. Compiled'
    BY <1>1 DEF PropInductive, Compiled, NothingRefused, Source
  <1>3. /\ bodies = [q \in DOMAIN manifest |-> Body(Source(q), manifest[q].ty)]
        /\ NothingRefused
    BY <1>1 DEF PropInductive, Compiled
  <1>4. p \in DOMAIN manifest /\ bodies[p] = Body(Source(p), manifest[p].ty)
    BY <1>1, <1>3
  <1>5. Source(p) # None /\ DependsOnSignal(Source(p)) /\ bodies[p].expr = Source(p)
    BY <1>1, <1>4, BodyOfSource
  <1> DEFINE answer == Answer(Source(p), manifest[p].ty, signals[idx])
  <1>6. /\ cache' = [key \in DOMAIN cache \cup {<<p, idx>>} |->
                       IF key = <<p, idx>> THEN answer ELSE cache[key]]
        /\ said' = [prop |-> p, idx |-> idx, reply |-> Served(answer)]
    BY <1>5 DEF AskFresh, Says
  <1>7. CacheIsFresh'
    <2> SUFFICES ASSUME NEW q, NEW i, <<q, i>> \in DOMAIN cache'
                 PROVE  (/\ open /\ q \in DOMAIN manifest /\ i \in DOMAIN signals
                         /\ cache[<<q, i>>] = Answer(Source(q), manifest[q].ty, signals[i]))'
      BY DEF CacheIsFresh
    <2>1. CASE <<q, i>> = <<p, idx>>
      <3>1. q = p /\ i = idx
        BY <2>1
      <3>2. cache'[<<p, idx>>] = answer
        BY <1>6
      <3>3. answer = (Answer(Source(p), manifest[p].ty, signals[i]))'
        BY <1>1, <3>1 DEF Source, Answer
      <3> QED  BY <1>1, <1>4, <3>1, <3>2, <3>3
    <2>2. CASE <<q, i>> # <<p, idx>>
      <3>1. <<q, i>> \in DOMAIN cache /\ cache'[<<q, i>>] = cache[<<q, i>>]
        BY <1>6, <2>2
      <3>2. /\ open /\ q \in DOMAIN manifest /\ i \in DOMAIN signals
            /\ cache[<<q, i>>] = Answer(Source(q), manifest[q].ty, signals[i])
        BY <3>1 DEF PropInductive, CacheIsFresh
      <3>3. Answer(Source(q), manifest[q].ty, signals[i])
              = (Answer(Source(q), manifest[q].ty, signals[i]))'
        BY <1>1 DEF Source, Answer
      <3> QED  BY <1>1, <3>1, <3>2, <3>3
    <2> QED  BY <2>1, <2>2
  <1>8. AnswersTheQuestion'
    <2>1. Right(p, idx) = Served(answer)
      BY <1>1, <1>3, <1>4, <1>5, SignalsAreRead DEF PropInductive
    <2>2. Right(p, idx) = (Right(said.prop, said.idx))'
      BY <1>1, <1>6 DEF Right, Source, InRange
    <2> QED  BY <1>6, <2>1, <2>2 DEF AnswersTheQuestion
  <1> QED  BY <1>1, <1>2, <1>7, <1>8 DEF PropInductive

\* A callback begins with nothing asked and nothing cached (PropContext::during).
LEMMA BeginKeeps ==
  ASSUME PropInductive, NEW batch \in Batches \cup {<<>>}, Begin(batch)
  PROVE  PropInductive'
  <1>1. /\ UNCHANGED <<manifest, supplied, phase, bodies, cache, said>>
        /\ phase = "ready" /\ ~open /\ signals' = batch /\ open'
    BY DEF Begin
  <1>2. said = Unasked /\ \A p, idx : <<p, idx>> \notin DOMAIN cache
    BY <1>1 DEF PropInductive, CacheIsFresh
  <1>3. Compiled'
    BY <1>1 DEF PropInductive, Compiled, NothingRefused, Source
  <1>4. CacheIsFresh' /\ AnswersTheQuestion'
    BY <1>1, <1>2 DEF CacheIsFresh, AnswersTheQuestion
  <1> QED  BY <1>1, <1>3, <1>4 DEF PropInductive

\* One that ends takes its batch and its cache with it (Scope::drop).
LEMMA EndKeeps == PropInductive /\ End => PropInductive'
  <1> SUFFICES ASSUME PropInductive, End PROVE PropInductive'
    OBVIOUS
  <1>1. /\ UNCHANGED <<manifest, supplied, phase, bodies>>
        /\ open /\ ~open' /\ signals' = <<>> /\ said' = Unasked /\ cache' = <<>>
    BY DEF End
  <1>2. Compiled'
    BY <1>1 DEF PropInductive, Compiled, NothingRefused, Source
  <1>3. CacheIsFresh' /\ AnswersTheQuestion'
    BY <1>1 DEF CacheIsFresh, AnswersTheQuestion
  <1> QED  BY <1>1, <1>2, <1>3 DEF PropInductive

\* A deployment is refused, or compiled once (PropContext::compile_with_limits).
LEMMA DeployKeeps == PropInductive /\ (Reject \/ Compile) => PropInductive'
  <1> SUFFICES ASSUME PropInductive, Reject \/ Compile PROVE PropInductive'
    OBVIOUS
  <1>1. UNCHANGED <<manifest, supplied, open, signals, cache, said>> /\ phase = "deployed"
    BY DEF Reject, Compile
  <1>2. ~open /\ said = Unasked /\ \A p, idx : <<p, idx>> \notin DOMAIN cache
    BY <1>1 DEF PropInductive, Compiled, CacheIsFresh
  <1>3. Compiled'
    <2>1. CASE Reject
      <3>1. phase' = "rejected"
        BY <2>1 DEF Reject
      <3> QED  BY <1>1, <1>2, <3>1 DEF Compiled
    <2>2. CASE Compile
      <3>1. /\ phase' = "ready"
            /\ bodies' = [p \in DOMAIN manifest |-> Body(Source(p), manifest[p].ty)]
            /\ \A p \in DOMAIN manifest : Source(p) # None => ~Refused(Source(p))
        BY <2>2 DEF Compile
      <3> QED  BY <1>1, <1>2, <3>1 DEF Compiled, NothingRefused, Source
    <2> QED  BY <2>1, <2>2 DEF Reject, Compile
  <1>4. CacheIsFresh' /\ AnswersTheQuestion'
    BY <1>1, <1>2 DEF CacheIsFresh, AnswersTheQuestion
  <1> QED  BY <1>1, <1>2, <1>3, <1>4 DEF PropInductive

\* Every step keeps the invariant, in a language that keeps its promise.
LEMMA PropNextInductive ==
  ASSUME Language, PropInductive, [PropNext]_propVars
  PROVE  PropInductive'
  <1>1. CASE Reject \/ Compile
    BY <1>1, DeployKeeps
  <1>2. CASE \E batch \in Batches \cup {<<>>} : Begin(batch)
    BY <1>2, BeginKeeps
  <1>3. CASE Ask
    BY <1>3, AskKnownKeeps, AskFreshKeeps DEF Ask
  <1>4. CASE End
    BY <1>4, EndKeeps
  <1>5. CASE UNCHANGED propVars
    <2>1. UNCHANGED <<manifest, supplied, phase, bodies, open, signals, cache, said>>
      BY <1>5 DEF propVars
    <2>2. Compiled'
      BY <2>1 DEF PropInductive, Compiled, NothingRefused, Source
    <2>3. CacheIsFresh'
      BY <2>1 DEF PropInductive, CacheIsFresh, Source
    <2>4. AnswersTheQuestion'
      BY <2>1 DEF PropInductive, AnswersTheQuestion, Right, Source, InRange
    <2> QED  BY <2>1, <2>2, <2>3, <2>4 DEF PropInductive
  <1> QED  BY <1>1, <1>2, <1>3, <1>4, <1>5 DEF PropNext

\* However often a guest asks, and whether its answer comes from the fold, the cache or
\* an evaluation, it is the one a fresh evaluation of what was deployed for the property
\* gives for that signal of the batch it holds now (PropContext::answer, Scope::drop):
\* for every manifest, every deployment and every language in which no expression that
\* may be folded reads the signal.
THEOREM AnswersTheQuestionHolds ==
  ASSUME Language
  PROVE  PropSpec => []AnswersTheQuestion
  <1>1. PropInductive /\ [PropNext]_propVars => PropInductive'
    BY PropNextInductive
  <1>2. PropInductive => AnswersTheQuestion
    BY DEF PropInductive
  <1> QED  BY <1>1, <1>2, PropInitInductive, PTL DEF PropSpec
=============================================================================
