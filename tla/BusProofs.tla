-------------------------------- MODULE BusProofs --------------------------------
(***************************************************************************)
(* Theorems about what a node sends and is sent.                           *)
(*                                                                         *)
(* The observation bus, for any sources, readers, filters, size of the     *)
(* ring and number of events: nothing a reader waits for vanishes before   *)
(* it reaches the ring, and the bus implements Feed.  A slot holds what was*)
(* said at the position it carries (Stocked), and positions that share a   *)
(* slot are a whole ring apart.  So a reader that finds its position is    *)
(* shown what Feed shows, and one that finds a later position is behind by *)
(* more than the ring.                                                     *)
(*                                                                         *)
(* The bridge to the broker, for any topics, subscribers, candidates,      *)
(* capacities and number of connections: batches are received in the order *)
(* of the broker and none twice, because what waits for a subscriber is    *)
(* between what it received and what is on its way (QueueInOrder); and once*)
(* a session's topics have been reinstated, each known topic is subscribed,*)
(* asked for, missed, or still to be asked for (NoneForgotten).            *)
(***************************************************************************)
EXTENDS Bridge, ObserveBus, TLAPS, SequenceTheorems, FiniteSetTheorems

-----------------------------------------------------------------------------
(* Sequences.                                                              *)

\* What is left of a sequence when its first member is taken.
LEMMA TailShifts ==
  ASSUME NEW S, NEW q \in Seq(S), q # <<>>
  PROVE  /\ Head(q) \in S /\ Head(q) = q[1] /\ Len(q) \in Nat /\ 1 \in 1 .. Len(q)
         /\ Tail(q) \in Seq(S) /\ Len(Tail(q)) = Len(q) - 1
         /\ \A i \in 1 .. Len(Tail(q)) : i + 1 \in 1 .. Len(q) /\ Tail(q)[i] = q[i + 1]
PROOF
  BY HeadTailProperties, LenProperties

\* A sequence and what is appended to it.
LEMMA AppendEnds ==
  ASSUME NEW S, NEW q \in Seq(S), NEW e \in S
  PROVE  /\ Append(q, e) \in Seq(S) /\ Len(q) \in Nat /\ Len(Append(q, e)) = Len(q) + 1
         /\ \A i \in 1 .. Len(q) : Append(q, e)[i] = q[i]
         /\ Append(q, e)[Len(q) + 1] = e
PROOF
  BY AppendProperties, LenProperties

-----------------------------------------------------------------------------
(* The observation bus.                                                    *)

BusTypes ==
    /\ events \in [Source -> Seq(1 .. MaxEvents)]
    /\ count \in [Source -> 0 .. MaxEvents]
    /\ publishing \in [Source -> 0 .. MaxEvents]
    /\ slots \in [0 .. Ring - 1 -> [at : Int, value : (Source \X Event) \cup {<<>>}]]
    /\ said \in Seq(Source \X Event) /\ tail = Len(said)
    /\ next \in [Reader -> Nat]
    /\ DOMAIN out = Reader
    /\ opened \in [Reader -> [times : Nat, count : [Source -> 0 .. MaxEvents]]]

\* A slot holds the observation of its position.
Stocked ==
    \A i \in 0 .. Ring - 1 :
        /\ slots[i].at % Ring = i /\ slots[i].at <= tail
        /\ slots[i].at >= 1 => slots[i].value = said[slots[i].at]

\* No receiver is further than what will be sent next.
Behindhand == \A r \in Reader : next[r] <= tail + 1

BusInductive == BusTypes /\ Stocked /\ Behindhand /\ NothingVanishes

USE DEF busVars

-----------------------------------------------------------------------------
(* The ring.                                                               *)

\* Positions that share a slot are a whole ring apart.
LEMMA SlotsRecur ==
  ASSUME NEW R \in Nat \ {0}, NEW a \in Int, NEW b \in Int, a % R = b % R, a < b
  PROVE  a + R <= b
PROOF
  <1> DEFINE p == a \div R
             q == b \div R
             m == a % R
  <1>1. p \in Int /\ q \in Int /\ m \in Int
    OBVIOUS
  <1>2. a = R * p + m /\ b = R * q + m
    OBVIOUS
  <1> HIDE DEF p, q, m
  <1>3. p < q
    BY <1>1, <1>2
  <1>4. R * p + R <= R * q
    BY <1>1, <1>3
  <1> QED  BY <1>1, <1>2, <1>4

\* A position has a slot.
LEMMA HasASlot ==
  ASSUME NEW p \in Int
  PROVE  p % Ring \in 0 .. Ring - 1
PROOF
  BY BusAssumption

\* The ring begins empty: no slot carries a position there is.
LEMMA RingBegins ==
  ASSUME NEW i \in 0 .. Ring - 1
  PROVE  (i - Ring) % Ring = i /\ i - Ring <= 0
PROOF
  <1>1. Ring \in Nat \ {0}
    BY BusAssumption
  <1> DEFINE q == (i - Ring) \div Ring
             m == (i - Ring) % Ring
  <1>2. q \in Int /\ m \in 0 .. Ring - 1 /\ i - Ring = Ring * q + m
    BY <1>1
  <1> HIDE DEF q, m
  <1>3. m = i
    <2>1. CASE q >= 0
      BY <1>1, <1>2, <2>1
    <2>2. CASE q <= -2
      <3>1. Ring * q <= Ring * (-2)
        BY <1>1, <1>2, <2>2
      <3> QED  BY <1>1, <1>2, <3>1
    <2>3. CASE q = -1
      BY <1>1, <1>2, <2>3
    <2> QED  BY <1>2, <2>1, <2>2, <2>3
  <1> QED  BY <1>1, <1>3 DEF m

-----------------------------------------------------------------------------
(* The steps.                                                              *)

\* What is said is said at the next position, and nothing said before moves.
LEMMA SaidStays ==
  ASSUME BusTypes, NEW o \in Source \X Event, said' = Append(said, o)
  PROVE  /\ said' \in Seq(Source \X Event) /\ Len(said) \in Nat /\ Len(said') = Len(said) + 1
         /\ \A i \in 1 .. Len(said) : said'[i] = said[i]
         /\ said'[Len(said) + 1] = o
PROOF
  BY DEF BusTypes

\* Before anything happened.
LEMMA InitBus == BusInit => BusInductive
PROOF
  <1> SUFFICES ASSUME BusInit PROVE BusInductive
    OBVIOUS
  <1> USE BusAssumption DEF BusInit
  <1>1. /\ events \in [Source -> Seq(1 .. MaxEvents)] /\ count \in [Source -> 0 .. MaxEvents]
        /\ publishing \in [Source -> 0 .. MaxEvents]
    OBVIOUS
  <1>2. /\ slots \in [0 .. Ring - 1 -> [at : Int, value : (Source \X Event) \cup {<<>>}]]
        /\ \A i \in 0 .. Ring - 1 : slots[i].at = i - Ring
    OBVIOUS
  <1>3. said \in Seq(Source \X Event) /\ tail = Len(said) /\ tail = 0
    BY EmptySeq
  <1>4. /\ next \in [Reader -> Nat] /\ DOMAIN out = Reader
        /\ \A r \in Reader : next[r] = 0
    OBVIOUS
  <1>5. opened \in [Reader -> [times : Nat, count : [Source -> 0 .. MaxEvents]]]
    BY <1>1
  <1>6. BusTypes
    BY <1>1, <1>2, <1>3, <1>4, <1>5 DEF BusTypes
  <1>7. Stocked
    BY <1>2, <1>3, RingBegins DEF Stocked
  <1>8. Behindhand /\ NothingVanishes
    BY <1>3, <1>4 DEF Behindhand, NothingVanishes
  <1> QED  BY <1>6, <1>7, <1>8 DEF BusInductive

\* Nothing vanishes in a step that opens no stream and keeps underway what is.
LEMMA UnderwayStays ==
  ASSUME BusInductive, UNCHANGED <<next, opened>>,
         \A u \in Source, n \in 1 .. MaxEvents :
            Watched /\ Underway(u, n) => Underway(u, n)',
         \A u \in Source, n \in 1 .. MaxEvents :
            Watched /\ n <= count'[u] /\ ~(n <= count[u]) => Underway(u, n)'
  PROVE  NothingVanishes'
PROOF
  <1> SUFFICES ASSUME NEW r \in Reader, next'[r] # 0, NEW u \in Mine[r], NEW n \in 1 .. MaxEvents,
                      opened'[r].count[u] < n, n <= count'[u]
               PROVE  Underway(u, n)'
    BY DEF NothingVanishes
  <1>1. u \in Source /\ next[r] # 0 /\ opened[r].count[u] < n
    BY BusAssumption
  <1>2. n <= count[u] => Underway(u, n)
    BY <1>1 DEF BusInductive, NothingVanishes
  <1>3. Watched
    BY <1>1 DEF Watched
  <1> QED  BY <1>1, <1>2, <1>3

\* An instance reports: the event waits in its channel.
LEMMA ReportKeeps ==
  ASSUME BusInductive, NEW s \in Source, Reports(s)
  PROVE  BusInductive'
PROOF
  <1> USE DEF BusInductive
  <1>1. /\ count[s] \in Nat /\ count[s] + 1 \in 1 .. MaxEvents
        /\ count' = [count EXCEPT ![s] = count[s] + 1]
        /\ events' = [events EXCEPT ![s] = Append(events[s], count[s] + 1)]
        /\ UNCHANGED <<publishing, slots, tail, said, taps, next, out, opened>>
    BY BusAssumption DEF BusTypes, Reports
  <1>2. /\ events[s] \in Seq(1 .. MaxEvents) /\ events'[s] = Append(events[s], count[s] + 1)
        /\ events'[s] \in Seq(1 .. MaxEvents)
        /\ \A u \in Source : u # s => events'[u] = events[u] /\ count'[u] = count[u]
        /\ count'[s] = count[s] + 1
    BY <1>1 DEF BusTypes
  <1>3. BusTypes'
    BY <1>1, <1>2 DEF BusTypes
  <1>4. Stocked' /\ Behindhand'
    BY <1>1 DEF Stocked, Behindhand
  <1>5. ASSUME NEW i \in 1 .. Len(events[s])
        PROVE  i \in 1 .. Len(events'[s]) /\ events'[s][i] = events[s][i]
    BY <1>2
  <1>6. ASSUME NEW u \in Source, NEW n \in 1 .. MaxEvents, Underway(u, n)
        PROVE  Underway(u, n)'
    <2>1. CASE u = s
      BY <1>1, <1>5, <1>6, <2>1 DEF Underway
    <2>2. CASE u # s
      BY <1>1, <1>2, <1>6, <2>2 DEF Underway
    <2> QED  BY <2>1, <2>2
  <1>7. ASSUME NEW u \in Source, NEW n \in 1 .. MaxEvents, n <= count'[u], ~(n <= count[u])
        PROVE  Underway(u, n)'
    <2>1. u = s /\ n = count[s] + 1
      BY <1>1, <1>2, <1>7
    <2>2. Len(events[s]) + 1 \in 1 .. Len(events'[s]) /\ events'[s][Len(events[s]) + 1] = n
      BY <1>2, <2>1
    <2> QED  BY <2>1, <2>2 DEF Underway
  <1>8. NothingVanishes'
    BY <1>1, <1>6, <1>7, UnderwayStays
  <1> QED  BY <1>3, <1>4, <1>8

\* The drain takes an event from its channel: somebody who waits for it has it published.
LEMMA DrainKeeps ==
  ASSUME BusInductive, NEW s \in Source, Drains(s)
  PROVE  BusInductive'
PROOF
  <1> USE DEF BusInductive
  <1> DEFINE q == events[s]
             e == Head(events[s])
  <1>1. q \in Seq(1 .. MaxEvents) /\ q # <<>>
    BY DEF BusTypes, Drains
  <1>2. /\ e \in 1 .. MaxEvents /\ e = q[1] /\ Len(q) \in Nat
        /\ Tail(q) \in Seq(1 .. MaxEvents) /\ Len(Tail(q)) = Len(q) - 1
        /\ \A i \in 1 .. Len(q) - 1 : Tail(q)[i] = q[i + 1]
    BY <1>1, TailShifts
  <1>3. /\ publishing[s] = 0
        /\ events' = [events EXCEPT ![s] = Tail(q)]
        /\ publishing' = [publishing EXCEPT ![s] = IF Watched THEN e ELSE 0]
        /\ UNCHANGED <<count, slots, tail, said, taps, next, out, opened>>
    BY DEF Drains
  <1> HIDE DEF q, e
  <1>4. /\ events'[s] = Tail(q) /\ publishing'[s] = IF Watched THEN e ELSE 0
        /\ \A u \in Source : u # s => events'[u] = events[u] /\ publishing'[u] = publishing[u]
    BY <1>3 DEF BusTypes
  <1>5. BusTypes'
    <2>1. events' \in [Source -> Seq(1 .. MaxEvents)]
      BY <1>2, <1>3 DEF BusTypes
    <2>2. publishing' \in [Source -> 0 .. MaxEvents]
      BY <1>2, <1>3, BusAssumption DEF BusTypes
    <2> QED  BY <1>3, <2>1, <2>2 DEF BusTypes
  <1>6. Stocked' /\ Behindhand'
    BY <1>3 DEF Stocked, Behindhand
  <1>7. ASSUME NEW u \in Source, NEW n \in 1 .. MaxEvents, Watched, Underway(u, n)
        PROVE  Underway(u, n)'
    <2>1. CASE u # s
      BY <1>3, <1>4, <1>7, <2>1 DEF Underway
    <2>2. CASE u = s
      <3>1. CASE \E i \in 1 .. Len(q) : q[i] = n
        <4>1. PICK i \in 1 .. Len(q) : q[i] = n
          BY <3>1
        <4>2. n = e \/ (i - 1 \in 1 .. Len(Tail(q)) /\ Tail(q)[i - 1] = n)
          BY <1>2, <4>1
        <4> QED  BY <1>4, <1>7, <2>2, <4>2 DEF Underway
      <3>2. CASE \E i \in 1 .. Len(said) : said[i] = <<u, n>>
        BY <1>3, <3>2 DEF Underway
      <3> QED  BY <1>3, <1>7, <2>2, <3>1, <3>2 DEF Underway, q
    <2> QED  BY <2>1, <2>2
  <1>8. NothingVanishes'
    BY <1>3, <1>7, UnderwayStays
  <1> QED  BY <1>5, <1>6, <1>8

\* A log line is published by who writes it.
LEMMA WriteKeeps ==
  ASSUME BusInductive, NEW s \in Source, WritesLog(s)
  PROVE  BusInductive'
PROOF
  <1> USE DEF BusInductive
  <1>1. /\ count[s] \in Nat /\ count[s] + 1 \in 1 .. MaxEvents /\ publishing[s] = 0
        /\ count' = [count EXCEPT ![s] = count[s] + 1]
        /\ publishing' = [publishing EXCEPT ![s] = IF Watched THEN count'[s] ELSE 0]
        /\ UNCHANGED <<events, slots, tail, said, taps, next, out, opened>>
    BY BusAssumption DEF BusTypes, WritesLog
  <1>2. /\ count'[s] = count[s] + 1
        /\ publishing'[s] = IF Watched THEN count[s] + 1 ELSE 0
        /\ \A u \in Source : u # s => count'[u] = count[u] /\ publishing'[u] = publishing[u]
    BY <1>1 DEF BusTypes
  <1>3. BusTypes'
    BY <1>1, <1>2 DEF BusTypes
  <1>4. Stocked' /\ Behindhand'
    BY <1>1 DEF Stocked, Behindhand
  <1>5. ASSUME NEW u \in Source, NEW n \in 1 .. MaxEvents, Underway(u, n)
        PROVE  Underway(u, n)'
    BY <1>1, <1>2, <1>5 DEF Underway
  <1>6. ASSUME NEW u \in Source, NEW n \in 1 .. MaxEvents, Watched, n <= count'[u],
               ~(n <= count[u])
        PROVE  Underway(u, n)'
    <2>1. u = s /\ n = count[s] + 1
      BY <1>1, <1>2, <1>6
    <2> QED  BY <1>2, <1>6, <2>1 DEF Underway
  <1>7. NothingVanishes'
    BY <1>1, <1>5, <1>6, UnderwayStays
  <1> QED  BY <1>3, <1>4, <1>7

\* What is sent takes the slot of what was sent a ring ago, and of nothing later.
LEMMA BroadcastKeeps ==
  ASSUME BusInductive, NEW s \in Source, Broadcasts(s)
  PROVE  BusInductive'
PROOF
  <1> USE DEF BusInductive
  <1> DEFINE o == <<s, publishing[s]>>
             k == (tail + 1) % Ring
  <1>1. /\ publishing[s] \in 1 .. MaxEvents /\ o \in Source \X Event
        /\ publishing' = [publishing EXCEPT ![s] = 0]
        /\ UNCHANGED <<events, count, taps, next, out, opened>>
    BY BusAssumption DEF BusTypes, Broadcasts, Event
  <1>2. \A u \in Source : publishing'[u] = IF u = s THEN 0 ELSE publishing[u]
    BY <1>1 DEF BusTypes
  <1>3. publishing' \in [Source -> 0 .. MaxEvents]
    BY <1>1, BusAssumption DEF BusTypes
  <1>4. tail \in Nat /\ tail = Len(said) /\ k \in 0 .. Ring - 1
    <2>1. tail \in Nat /\ tail = Len(said) /\ tail + 1 \in Int
      BY DEF BusTypes
    <2> QED  BY <2>1, HasASlot
  <1>5. CASE Watched
    <2>1. /\ tail' = tail + 1 /\ said' = Append(said, o)
          /\ slots' = [slots EXCEPT ![k] = [at |-> tail + 1, value |-> o]]
      BY <1>5 DEF Broadcasts
    <2>2. /\ said' \in Seq(Source \X Event) /\ Len(said) \in Nat /\ Len(said') = Len(said) + 1
          /\ \A i \in 1 .. Len(said) : said'[i] = said[i]
          /\ said'[Len(said) + 1] = o
      BY <1>1, <2>1, SaidStays
    <2> HIDE DEF o
    <2>3. \A i \in 0 .. Ring - 1 :
             slots'[i] = IF i = k THEN [at |-> tail + 1, value |-> o] ELSE slots[i]
      BY <2>1, <1>4 DEF BusTypes
    <2>4. slots' \in [0 .. Ring - 1 -> [at : Int, value : (Source \X Event) \cup {<<>>}]]
      BY <1>1, <1>4, <2>1 DEF BusTypes
    <2>5. BusTypes'
      BY <1>1, <1>3, <2>1, <2>2, <2>4 DEF BusTypes
    <2>6. Stocked'
      <3> SUFFICES ASSUME NEW i \in 0 .. Ring - 1
                   PROVE  /\ slots'[i].at % Ring = i /\ slots'[i].at <= tail'
                          /\ slots'[i].at >= 1 => slots'[i].value = said'[slots'[i].at]
        BY DEF Stocked
      <3>1. CASE i = k
        <4>1. slots'[i].at = tail + 1 /\ slots'[i].value = o
          BY <2>3, <3>1
        <4> QED  BY <1>4, <2>1, <2>2, <3>1, <4>1
      <3>2. CASE i # k
        <4>1. slots'[i] = slots[i] /\ slots[i].at \in Int
          BY <2>3, <3>2 DEF BusTypes
        <4>2. /\ slots[i].at % Ring = i /\ slots[i].at <= tail
              /\ slots[i].at >= 1 => slots[i].value = said[slots[i].at]
          BY DEF Stocked
        <4>3. slots[i].at >= 1 => said'[slots[i].at] = said[slots[i].at]
          BY <1>4, <2>2, <4>1, <4>2
        <4> QED  BY <1>4, <2>1, <4>1, <4>2, <4>3
      <3> QED  BY <3>1, <3>2
    <2>7. Behindhand'
      BY <1>1, <1>4, <2>1 DEF Behindhand, BusTypes
    <2>8. ASSUME NEW u \in Source, NEW n \in 1 .. MaxEvents, Underway(u, n)
          PROVE  Underway(u, n)'
      <3>1. CASE publishing[u] = n
        <4>1. CASE u = s
          <5>1. said'[Len(said) + 1] = <<u, n>> /\ Len(said) + 1 \in 1 .. Len(said')
            BY <2>2, <3>1, <4>1 DEF o
          <5> QED  BY <5>1 DEF Underway
        <4>2. CASE u # s
          BY <1>2, <3>1, <4>2 DEF Underway
        <4> QED  BY <4>1, <4>2
      <3>2. CASE \E i \in 1 .. Len(said) : said[i] = <<u, n>>
        <4>1. PICK i \in 1 .. Len(said) : said[i] = <<u, n>>
          BY <3>2
        <4>2. i \in 1 .. Len(said') /\ said'[i] = <<u, n>>
          BY <2>2, <4>1
        <4> QED  BY <4>2 DEF Underway
      <3> QED  BY <1>1, <2>8, <3>1, <3>2 DEF Underway
    <2>9. NothingVanishes'
      BY <1>1, <2>8, UnderwayStays
    <2> QED  BY <2>5, <2>6, <2>7, <2>9
  <1>6. CASE ~Watched
    <2>1. UNCHANGED <<slots, tail, said>> /\ \A r \in Reader : next[r] = 0
      BY <1>6 DEF Broadcasts, Watched
    <2>2. BusTypes'
      BY <1>1, <1>3, <2>1 DEF BusTypes
    <2>3. Stocked' /\ Behindhand' /\ NothingVanishes'
      BY <1>1, <2>1 DEF Stocked, Behindhand, NothingVanishes
    <2> QED  BY <2>2, <2>3
  <1> QED  BY <1>5, <1>6

\* A stream opens: it waits for what has not been reported yet.
LEMMA StreamKeeps ==
  ASSUME BusInductive, NEW r \in Reader, Streams(r)
  PROVE  BusInductive'
PROOF
  <1> USE DEF BusInductive
  <1>1. /\ next' = [next EXCEPT ![r] = tail + 1]
        /\ opened' = [opened EXCEPT ![r] = [times |-> opened[r].times + 1, count |-> count]]
        /\ UNCHANGED <<events, count, publishing, slots, tail, said, taps, out>>
        /\ tail \in Nat
    BY DEF Streams, BusTypes
  <1>2. /\ opened'[r].count = count
        /\ \A p \in Reader : p # r => next'[p] = next[p] /\ opened'[p] = opened[p]
    BY <1>1 DEF BusTypes
  <1>3. BusTypes'
    BY <1>1 DEF BusTypes
  <1>4. Stocked' /\ Behindhand'
    BY <1>1 DEF Stocked, Behindhand, BusTypes
  <1>5. NothingVanishes'
    <2> SUFFICES ASSUME NEW p \in Reader, next'[p] # 0, NEW u \in Mine[p],
                        NEW n \in 1 .. MaxEvents, opened'[p].count[u] < n, n <= count'[u]
                 PROVE  Underway(u, n)'
      BY DEF NothingVanishes
    <2>1. u \in Source /\ n <= count[u]
      BY <1>1, BusAssumption
    <2>2. p # r
      BY <1>2, <2>1 DEF BusTypes
    <2>3. Underway(u, n)
      BY <1>2, <2>1, <2>2 DEF NothingVanishes
    <2> QED  BY <1>1, <2>3 DEF Underway
  <1> QED  BY <1>3, <1>4, <1>5

\* A receiver moves on, or is dropped: not past what will be sent next.
LEMMA ReadingKeeps ==
  ASSUME BusInductive, NEW r \in Reader, NEW p \in 0 .. tail + 1, next[r] # 0,
         next' = [next EXCEPT ![r] = p], DOMAIN out' = Reader,
         UNCHANGED <<events, count, publishing, slots, tail, said, opened>>
  PROVE  BusInductive'
PROOF
  <1> USE DEF BusInductive
  <1>1. tail \in Nat /\ p \in Nat
    BY DEF BusTypes
  <1>2. \A d \in Reader : next'[d] = IF d = r THEN p ELSE next[d]
    BY DEF BusTypes
  <1>3. BusTypes'
    BY <1>1 DEF BusTypes
  <1>4. Stocked' /\ Behindhand'
    BY <1>1, <1>2 DEF Stocked, Behindhand
  <1>5. NothingVanishes'
    <2> SUFFICES ASSUME NEW d \in Reader, next'[d] # 0, NEW u \in Mine[d],
                        NEW n \in 1 .. MaxEvents, opened'[d].count[u] < n, n <= count'[u]
                 PROVE  Underway(u, n)'
      BY DEF NothingVanishes
    <2>1. next[d] # 0 /\ opened[d].count[u] < n /\ n <= count[u]
      BY <1>2
    <2>2. Underway(u, n)
      BY <2>1 DEF NothingVanishes
    <2> QED  BY <2>2 DEF Underway
  <1> QED  BY <1>3, <1>4, <1>5

\* A reader that finds its position has not seen everything.
LEMMA HearsWithinTail ==
  ASSUME BusInductive, NEW r \in Reader, Hears(r)
  PROVE  /\ next[r] \in 1 .. tail /\ tail = Len(said) /\ tail \in Nat
         /\ Slot(r).value = said[next[r]]
         /\ next' = [next EXCEPT ![r] = next[r] + 1]
PROOF
  <1>1. next[r] \in Nat \ {0} /\ tail = Len(said) /\ tail \in Nat
    BY DEF BusInductive, BusTypes, Hears
  <1>2. next[r] % Ring \in 0 .. Ring - 1
    <2>1. next[r] \in Int
      BY <1>1
    <2> QED  BY <2>1, HasASlot
  <1>3. Slot(r).at <= tail /\ (Slot(r).at >= 1 => Slot(r).value = said[Slot(r).at])
    BY <1>2 DEF BusInductive, Stocked, Slot
  <1> QED  BY <1>1, <1>3 DEF Hears

\* A reader that finds a later position is behind by more than the ring.
LEMMA LagsByARing ==
  ASSUME BusInductive, NEW r \in Reader, Lags(r)
  PROVE  /\ next[r] \in Nat \ {0} /\ tail = Len(said) /\ tail \in Nat
         /\ next[r] + Ring <= tail
         /\ next' = [next EXCEPT ![r] = tail - Ring + 1]
PROOF
  <1>1. next[r] \in Nat \ {0} /\ tail = Len(said) /\ tail \in Nat
    BY DEF BusInductive, BusTypes, Lags
  <1> DEFINE i == next[r] % Ring
  <1>2. i \in 0 .. Ring - 1
    <2>1. next[r] \in Int
      BY <1>1
    <2> QED  BY <2>1, HasASlot
  <1>3. slots[i].at \in Int /\ slots[i].at % Ring = i /\ slots[i].at <= tail
    BY <1>2 DEF BusInductive, BusTypes, Stocked
  <1>4. slots[i].at > next[r]
    BY DEF Lags, Slot
  <1>5. next[r] + Ring <= slots[i].at
    BY <1>1, <1>3, <1>4, SlotsRecur, BusAssumption
  <1> QED  BY <1>1, <1>3, <1>5, BusAssumption DEF Lags

\* The invariant is inductive.
LEMMA NextBus == BusInductive /\ [BusNext]_allVars => BusInductive'
PROOF
  <1> SUFFICES ASSUME BusInductive, [BusNext]_allVars PROVE BusInductive'
    OBVIOUS
  <1>1. ASSUME NEW s \in Source, Reports(s) PROVE BusInductive'
    BY <1>1, ReportKeeps
  <1>2. ASSUME NEW s \in Source, Drains(s) PROVE BusInductive'
    BY <1>2, DrainKeeps
  <1>3. ASSUME NEW s \in Source, WritesLog(s) PROVE BusInductive'
    BY <1>3, WriteKeeps
  <1>4. ASSUME NEW s \in Source, Broadcasts(s) PROVE BusInductive'
    BY <1>4, BroadcastKeeps
  <1>5. ASSUME UNCHANGED <<events, count, publishing, slots, tail, said, next, out, opened>>
        PROVE  BusInductive'
    <2>1. BusTypes' /\ Stocked' /\ Behindhand'
      BY <1>5 DEF BusInductive, BusTypes, Stocked, Behindhand
    <2>2. NothingVanishes'
      BY <1>5 DEF BusInductive, NothingVanishes, Underway
    <2> QED  BY <2>1, <2>2 DEF BusInductive
  <1>6. ASSUME NEW r \in Reader, Creates(r) \/ Deletes(r) PROVE BusInductive'
    BY <1>5, <1>6 DEF Creates, Deletes
  <1>7. ASSUME NEW r \in Reader, Streams(r) PROVE BusInductive'
    BY <1>7, StreamKeeps
  <1>8. ASSUME NEW r \in Reader, Hears(r) PROVE BusInductive'
    <2>1. next[r] + 1 \in 0 .. tail + 1 /\ next[r] # 0 /\ next' = [next EXCEPT ![r] = next[r] + 1]
      BY <1>8, HearsWithinTail
    <2>2. DOMAIN out' = Reader /\ UNCHANGED <<events, count, publishing, slots, tail, said, opened>>
      BY <1>8 DEF Hears, BusInductive, BusTypes
    <2> QED  BY <2>1, <2>2, ReadingKeeps
  <1>9. ASSUME NEW r \in Reader, Lags(r) PROVE BusInductive'
    <2>1. /\ tail - Ring + 1 \in 0 .. tail + 1 /\ next[r] # 0
          /\ next' = [next EXCEPT ![r] = tail - Ring + 1]
      BY <1>9, LagsByARing, BusAssumption
    <2>2. DOMAIN out' = Reader /\ UNCHANGED <<events, count, publishing, slots, tail, said, opened>>
      BY <1>9 DEF Lags, BusInductive, BusTypes
    <2> QED  BY <2>1, <2>2, ReadingKeeps
  <1>10. ASSUME NEW r \in Reader, HangsUp(r) PROVE BusInductive'
    <2>1. 0 \in 0 .. tail + 1 /\ next[r] # 0 /\ next' = [next EXCEPT ![r] = 0]
      BY <1>10 DEF HangsUp, BusInductive, BusTypes
    <2>2. DOMAIN out' = Reader /\ UNCHANGED <<events, count, publishing, slots, tail, said, opened>>
      BY <1>10 DEF HangsUp, BusInductive, BusTypes
    <2> QED  BY <2>1, <2>2, ReadingKeeps
  <1>11. ASSUME Over \/ UNCHANGED allVars PROVE BusInductive'
    BY <1>5, <1>11 DEF Over, allVars
  <1> QED  BY <1>1, <1>2, <1>3, <1>4, <1>6, <1>7, <1>8, <1>9, <1>10, <1>11 DEF BusNext

\* The bus keeps its invariant.
THEOREM BusInvariance == BusSpec => []BusInductive
PROOF
  <1> QED  BY InitBus, NextBus, PTL DEF BusSpec

\* An event a reader waits for is in its channel, being published, or said
\* (registry of taps, drain task, ring: observe.rs).
THEOREM NothingVanishesHolds == BusSpec => []NothingVanishes
PROOF
  <1>1. BusInductive => NothingVanishes
    BY DEF BusInductive
  <1> QED  BY <1>1, BusInvariance, PTL

-----------------------------------------------------------------------------
(* The bus implements Feed.                                                *)

\* Where Feed has a reader that stays or moves to position p.
LEMMA AtMoves ==
  ASSUME BusInductive, NEW r \in Reader, NEW p \in Nat, next' = [next EXCEPT ![r] = p]
  PROVE  /\ at[r] = IF next[r] = 0 THEN -1 ELSE next[r] - 1
         /\ p = 0 => at' = [at EXCEPT ![r] = -1]
         /\ \A a \in Nat : p = a + 1 => at' = [at EXCEPT ![r] = a]
PROOF
  <1>1. next \in [Reader -> Nat] /\ Off = -1
    BY DEF BusInductive, BusTypes, Off
  <1>2. \A d \in Reader : at[d] = IF next[d] = 0 THEN -1 ELSE next[d] - 1
    BY <1>1 DEF at
  <1>3. at' = [d \in Reader |-> IF d = r THEN (IF p = 0 THEN -1 ELSE p - 1) ELSE at[d]]
    BY <1>1, <1>2 DEF at
  <1>4. at = [d \in Reader |-> at[d]]
    BY DEF at
  <1>5. \A a : [at EXCEPT ![r] = a] = [d \in Reader |-> IF d = r THEN a ELSE at[d]]
    BY <1>4
  <1>6. p = 0 => at' = [at EXCEPT ![r] = -1]
    BY <1>3, <1>5
  <1>7. ASSUME NEW a \in Nat, p = a + 1 PROVE at' = [at EXCEPT ![r] = a]
    <2>1. a = IF p = 0 THEN -1 ELSE p - 1
      BY <1>7
    <2>2. at' = [d \in Reader |-> IF d = r THEN a ELSE at[d]]
      BY <1>3, <2>1
    <2> QED  BY <1>5, <2>2
  <1> QED  BY <1>2, <1>6, <1>7

\* A reader that finds its position is shown what Feed shows it.
LEMMA HearsShows ==
  ASSUME BusInductive, NEW r \in Reader, Hears(r)
  PROVE  F!Show(r)
PROOF
  <1>1. /\ next[r] \in 1 .. tail /\ tail = Len(said) /\ tail \in Nat
        /\ Slot(r).value = said[next[r]]
        /\ next' = [next EXCEPT ![r] = next[r] + 1]
    BY HearsWithinTail
  <1>2. /\ at' = [at EXCEPT ![r] = next[r]]
        /\ at[r] = next[r] - 1
    <2>1. next[r] \in Nat /\ next[r] # 0 /\ next[r] + 1 \in Nat
      BY <1>1
    <2>2. at' = [at EXCEPT ![r] = next[r]]
      BY <1>1, <2>1, AtMoves
    <2>3. at[r] = next[r] - 1
      BY <1>1, <2>1, AtMoves
    <2> QED  BY <2>2, <2>3
  <1>3. at[r] # -1 /\ F!Behind(r) > 0 /\ at[r] + 1 = next[r]
    BY <1>1, <1>2 DEF F!Behind
  <1>4. out' = IF said[at[r] + 1][1] \in Mine[r]
               THEN [out EXCEPT ![r] = Append(@, F!Saw(said[at[r] + 1]))] ELSE out
    BY <1>1, <1>3 DEF Hears, Saw, F!Saw
  <1>5. at' = [at EXCEPT ![r] = @ + 1] /\ said' = said
    BY <1>2, <1>3 DEF Hears
  <1> QED  BY <1>3, <1>4, <1>5 DEF F!Show, F!Off

\* A reader that finds a later position is told exactly what it was not shown.
LEMMA LagsSkips ==
  ASSUME BusInductive, NEW r \in Reader, Lags(r)
  PROVE  F!Skip(r)
PROOF
  <1> DEFINE p == tail - Ring + 1
  <1>1. /\ next[r] \in Nat \ {0} /\ tail = Len(said) /\ tail \in Nat
        /\ next[r] + Ring <= tail /\ Ring \in Nat
        /\ next' = [next EXCEPT ![r] = p]
    BY LagsByARing, BusAssumption
  <1>2. p \in Nat /\ p # 0
    BY <1>1
  <1>3. at' = [at EXCEPT ![r] = tail - Ring] /\ at[r] = next[r] - 1
    <2>1. tail - Ring \in Nat /\ p = tail - Ring + 1
      BY <1>1
    <2>2. at' = [at EXCEPT ![r] = tail - Ring]
      BY <1>1, <1>2, <2>1, AtMoves
    <2>3. at[r] = next[r] - 1
      BY <1>1, <1>2, AtMoves
    <2> QED  BY <2>2, <2>3, Zenon
  <1>4. /\ at[r] # -1 /\ F!Behind(r) > Ring
        /\ F!Behind(r) - Ring = tail - Ring + 1 - next[r]
    BY <1>1, <1>3 DEF F!Behind
  <1>5. out' = [out EXCEPT ![r] = Append(@, F!Lagged(F!Behind(r) - Ring))]
    <2>1. Lagged(tail - Ring + 1 - next[r]) = F!Lagged(F!Behind(r) - Ring)
      BY <1>4 DEF Lagged, F!Lagged
    <2> QED  BY <2>1, Zenon DEF Lags
  <1>6. said' = said
    BY DEF Lags
  <1> QED  BY <1>1, <1>3, <1>4, <1>5, <1>6 DEF F!Skip, F!Off

\* Every step of the bus is a step of Feed or none.
LEMMA NextFeeds == BusInductive /\ [BusNext]_allVars => [F!Next]_F!vars
PROOF
  <1> SUFFICES ASSUME BusInductive, [BusNext]_allVars PROVE [F!Next]_F!vars
    OBVIOUS
  <1>1. ASSUME UNCHANGED <<said, next, out>> PROVE UNCHANGED F!vars
    BY <1>1 DEF F!vars, at
  <1>2. ASSUME NEW s \in Source, Reports(s) \/ Drains(s) \/ WritesLog(s)
        PROVE  UNCHANGED F!vars
    BY <1>1, <1>2 DEF Reports, Drains, WritesLog
  <1>3. ASSUME NEW s \in Source, Broadcasts(s) PROVE [F!Next]_F!vars
    <2>1. publishing[s] \in Event
      BY <1>3, BusAssumption DEF BusInductive, BusTypes, Broadcasts, Event
    <2>2. next' = next /\ out' = out /\ at' = at
      BY <1>3 DEF Broadcasts, at
    <2>3. CASE Watched
      <3>1. said' = Append(said, <<s, publishing[s]>>)
        BY <1>3, <2>3 DEF Broadcasts
      <3> QED  BY <2>1, <2>2, <3>1 DEF F!Next, F!Say
    <2>4. CASE ~Watched
      BY <1>1, <1>3, <2>2, <2>4 DEF Broadcasts
    <2> QED  BY <2>3, <2>4
  <1>4. ASSUME NEW r \in Reader, Creates(r) \/ Deletes(r) PROVE UNCHANGED F!vars
    BY <1>1, <1>4 DEF Creates, Deletes
  <1>5. ASSUME NEW r \in Reader, Streams(r) PROVE F!Open(r)
    <2>1. tail = Len(said) /\ tail \in Nat /\ tail + 1 \in Nat /\ tail + 1 # 0
      BY DEF BusInductive, BusTypes
    <2>2. /\ next[r] = 0 /\ next' = [next EXCEPT ![r] = tail + 1]
          /\ said' = said /\ out' = out
      BY <1>5 DEF Streams
    <2>3. at' = [at EXCEPT ![r] = Len(said)]
      BY <2>1, <2>2, AtMoves
    <2>4. at[r] = -1
      BY <2>1, <2>2, AtMoves
    <2> QED  BY <2>2, <2>3, <2>4 DEF F!Open, F!Off
  <1>6. ASSUME NEW r \in Reader, HangsUp(r) PROVE F!Close(r)
    <2>1. next[r] \in Nat \ {0} /\ next' = [next EXCEPT ![r] = 0] /\ said' = said /\ out' = out
      BY <1>6 DEF HangsUp, BusInductive, BusTypes
    <2>2. at' = [at EXCEPT ![r] = -1] /\ at[r] = next[r] - 1
      BY <2>1, AtMoves
    <2>3. at[r] # -1
      BY <2>1, <2>2
    <2> QED  BY <2>1, <2>2, <2>3 DEF F!Close, F!Off
  <1>7. ASSUME Over \/ UNCHANGED allVars PROVE UNCHANGED F!vars
    BY <1>1, <1>7 DEF Over, allVars
  <1> QED  BY <1>2, <1>3, <1>4, <1>5, <1>6, <1>7, HearsShows, LagsSkips DEF BusNext, F!Next

\* The bus implements Feed (observe.rs, Bus::publish, Bus::subscribe, stream_of): what a
\* reader is sent is what was said since it opened, with the gaps counted exactly.
THEOREM KeepsTheFeedHolds == BusSpec => KeepsTheFeed
PROOF
  <1>1. BusInit => F!Init
    BY DEF BusInit, F!Init, at, Off, F!Off
  <1> QED  BY <1>1, BusInvariance, NextFeeds, PTL DEF BusSpec, KeepsTheFeed, F!Spec

-----------------------------------------------------------------------------
(* The bridge.                                                             *)

Wants == {Ask(t) : t \in Topic} \cup {Publish(t) : t \in Topic}

\* The part of the type invariant the proofs need, and that few topics are known.
BridgeTypes ==
    /\ subscribers \in [Topic -> SUBSET Subscriber]
    /\ known \subseteq Topic /\ IsFiniteSet(known)
    /\ requests \in Seq(Wants)
    /\ sub \in [Subscriber -> {"new", "recorded", "listens", "gone"}]
    /\ queue \in [Subscriber -> Seq(Nat)] /\ seen \in [Subscriber -> Nat]
    /\ inbox \in Seq([topic : Topic, serial : Nat]) /\ serial \in Nat

\* What the broker has sent to this node is on its way in the order of the broker.
InboxInOrder ==
    /\ \A i \in 1 .. Len(inbox) : inbox[i].serial <= serial
    /\ \A i, j \in 1 .. Len(inbox) : i < j => inbox[i].serial < inbox[j].serial

\* So is what waits for a subscriber, after what it received, before what is on its way.
QueueInOrder(s) ==
    /\ seen[s] <= serial
    /\ \A i \in 1 .. Len(queue[s]) : seen[s] < queue[s][i] /\ queue[s][i] <= serial
    /\ \A i, j \in 1 .. Len(queue[s]) : i < j => queue[s][i] < queue[s][j]
    /\ \A j \in 1 .. Len(inbox) :
          /\ seen[s] < inbox[j].serial
          /\ \A i \in 1 .. Len(queue[s]) : queue[s][i] < inbox[j].serial

\* A topic this session has: it is subscribed, asked for, or somebody will ask.
Provided(t) ==
    \/ t \in session \/ t \in missed \/ Asked(t)
    \/ \E s \in Subscriber : sub[s] = "recorded" /\ TopicOf[s] = t

\* Once a session's topics have been reinstated, no known topic is forgotten.
NoneForgotten == Reinstated => \A t \in known : Provided(t)

Ordered == InboxInOrder /\ \A s \in Subscriber : QueueInOrder(s)
BridgeInductive == BridgeTypes /\ Ordered /\ NoneForgotten

USE DEF runVars, localVars, wireVars

-----------------------------------------------------------------------------
(* Requests.                                                               *)

\* A finite set as a sequence has each member.
LEMMA SetToSeqHasAll ==
  ASSUME NEW S, IsFiniteSet(S)
  PROVE  /\ SetToSeq(S) \in Seq(S)
         /\ \A x \in S : \E i \in 1 .. Len(SetToSeq(S)) : SetToSeq(S)[i] = x
PROOF
  <1> DEFINE n == Cardinality(S)
             q == SetToSeq(S)
  <1>1. n \in Nat /\ ExistsBijection(1 .. n, S)
    BY FS_CardinalityType
  <1>2. PICK f \in Bijection(1 .. n, S) : TRUE
    BY <1>1 DEF ExistsBijection
  <1>3. f \in [1 .. n -> S] /\ IsInjective(f)
    BY <1>2 DEF Bijection, Injection
  <1>4. q \in [1 .. n -> S] /\ IsInjective(q)
    BY <1>3 DEF SetToSeq
  <1>5. q \in Injection(1 .. n, S)
    BY <1>4 DEF Injection
  <1>6. Cardinality(1 .. n) = n
    BY <1>1, FS_Interval
  <1>7. q \in Surjection(1 .. n, S)
    BY <1>5, <1>6, FS_Injection
  <1>8. q \in Seq(S) /\ Len(q) = n
    BY <1>1, <1>4
  <1> QED  BY <1>7, <1>8 DEF Surjection

\* The requests a session begins with.
LEMMA AsksForEach ==
  ASSUME NEW asked, IsFiniteSet(asked), asked \subseteq Topic
  PROVE  /\ SetToSeq({Ask(t) : t \in asked}) \in Seq(Wants)
         /\ \A t \in asked : \E i \in 1 .. Len(SetToSeq({Ask(u) : u \in asked})) :
                SetToSeq({Ask(u) : u \in asked})[i] = Ask(t)
PROOF
  <1> DEFINE A == {Ask(t) : t \in asked}
             f == [t \in asked |-> Ask(t)]
  <1>1. f \in Surjection(asked, A)
    BY DEF Surjection
  <1>2. IsFiniteSet(A)
    BY <1>1, FS_Surjection
  <1>3. A \subseteq Wants
    BY DEF Wants
  <1>4. \A t \in asked : Ask(t) \in A
    OBVIOUS
  <1> HIDE DEF A
  <1>5. SetToSeq(A) \in Seq(A) /\ \A x \in A : \E i \in 1 .. Len(SetToSeq(A)) : SetToSeq(A)[i] = x
    BY <1>2, SetToSeqHasAll
  <1>6. SetToSeq(A) \in Seq(Wants)
    BY <1>3, <1>5
  <1> QED  BY <1>4, <1>5, <1>6 DEF A

-----------------------------------------------------------------------------
(* Order.                                                                  *)

\* What is on its way, and what waits for a subscriber, is numbered.
LEMMA Numbered ==
  ASSUME BridgeTypes
  PROVE  /\ \A i \in 1 .. Len(inbox) : inbox[i].topic \in Topic /\ inbox[i].serial \in Nat
         /\ \A s \in Subscriber : \A i \in 1 .. Len(queue[s]) : queue[s][i] \in Nat
         /\ serial \in Nat /\ \A s \in Subscriber : seen[s] \in Nat /\ queue[s] \in Seq(Nat)
PROOF
  <1>1. ASSUME NEW i \in 1 .. Len(inbox)
        PROVE  inbox[i].topic \in Topic /\ inbox[i].serial \in Nat
    <2>1. inbox[i] \in [topic : Topic, serial : Nat]
      BY ElementOfSeq DEF BridgeTypes
    <2> QED  BY <2>1
  <1>2. ASSUME NEW s \in Subscriber
        PROVE  seen[s] \in Nat /\ queue[s] \in Seq(Nat)
    BY DEF BridgeTypes
  <1>3. ASSUME NEW s \in Subscriber, NEW i \in 1 .. Len(queue[s])
        PROVE  queue[s][i] \in Nat
    BY <1>2, ElementOfSeq
  <1> QED  BY <1>1, <1>2, <1>3 DEF BridgeTypes

\* Steps that leave alone what is ordered, or lose what is on its way.
LEMMA OrderStays ==
  ASSUME Ordered, UNCHANGED <<queue, seen, serial>>, inbox' \in {inbox, <<>>}
  PROVE  Ordered'
PROOF
  <1>1. CASE inbox' = inbox
    BY <1>1 DEF Ordered, InboxInOrder, QueueInOrder
  <1>2. CASE inbox' = <<>>
    <2>1. Len(inbox') = 0 /\ 1 .. Len(inbox') = {}
      BY <1>2
    <2> QED  BY <2>1 DEF Ordered, InboxInOrder, QueueInOrder
  <1> QED  BY <1>1, <1>2

\* The broker numbers what it forwards.
LEMMA ForwardsKeepsOrder ==
  ASSUME BridgeTypes, Ordered, NEW t \in Topic, Forwards(t), UNCHANGED <<queue, seen>>
  PROVE  Ordered' /\ serial' \in Nat /\ inbox' \in Seq([topic : Topic, serial : Nat])
PROOF
  <1> DEFINE M == [topic : Topic, serial : Nat]
             e == [topic |-> t, serial |-> serial + 1]
  <1>1. /\ serial \in Nat /\ serial' = serial + 1 /\ e \in M /\ inbox \in Seq(M)
        /\ inbox' \in {inbox, Append(inbox, e)}
    BY DEF BridgeTypes, Forwards
  <1>2. \A i \in 1 .. Len(inbox) : inbox[i].serial \in Nat /\ inbox[i].serial <= serial
    BY Numbered DEF Ordered, InboxInOrder
  <1>3. \A s \in Subscriber :
           /\ seen[s] \in Nat /\ seen[s] <= serial
           /\ \A i \in 1 .. Len(queue[s]) : queue[s][i] \in Nat /\ queue[s][i] <= serial
    BY Numbered DEF Ordered, QueueInOrder
  <1>4. CASE inbox' = inbox
    <2>1. InboxInOrder'
      BY <1>1, <1>2, <1>4 DEF Ordered, InboxInOrder
    <2>2. ASSUME NEW s \in Subscriber PROVE QueueInOrder(s)'
      <3>1. /\ seen'[s] <= serial'
            /\ \A i \in 1 .. Len(queue'[s]) : queue'[s][i] <= serial'
        BY <1>1, <1>3
      <3> QED  BY <1>4, <3>1 DEF Ordered, QueueInOrder
    <2> QED  BY <1>1, <1>4, <2>1, <2>2 DEF Ordered
  <1>5. CASE inbox' = Append(inbox, e)
    <2>1. /\ inbox' \in Seq(M) /\ Len(inbox) \in Nat /\ Len(inbox') = Len(inbox) + 1
          /\ \A i \in 1 .. Len(inbox) : inbox'[i] = inbox[i]
          /\ inbox'[Len(inbox) + 1] = e
      BY <1>1, <1>5, AppendEnds
    <2>2. e.serial = serial + 1
      OBVIOUS
    <2>3. \A i \in 1 .. Len(inbox') :
             \/ i \in 1 .. Len(inbox) /\ inbox'[i].serial = inbox[i].serial
             \/ i = Len(inbox) + 1 /\ inbox'[i].serial = serial + 1
      BY <2>1, <2>2
    <2> HIDE DEF M, e
    <2>4. InboxInOrder'
      <3>1. \A i \in 1 .. Len(inbox') : inbox'[i].serial <= serial'
        BY <1>1, <1>2, <2>3
      <3>2. ASSUME NEW i \in 1 .. Len(inbox'), NEW j \in 1 .. Len(inbox'), i < j
            PROVE  inbox'[i].serial < inbox'[j].serial
        <4>1. i \in 1 .. Len(inbox) /\ inbox'[i].serial = inbox[i].serial
          BY <2>1, <2>3, <3>2
        <4>2. CASE j \in 1 .. Len(inbox) /\ inbox'[j].serial = inbox[j].serial
          BY <3>2, <4>1, <4>2 DEF Ordered, InboxInOrder
        <4>3. CASE inbox'[j].serial = serial + 1
          BY <1>1, <1>2, <4>1, <4>3
        <4> QED  BY <2>3, <4>2, <4>3
      <3> QED  BY <3>1, <3>2 DEF InboxInOrder
    <2>5. ASSUME NEW s \in Subscriber PROVE QueueInOrder(s)'
      <3>1. seen'[s] <= serial'
        BY <1>1, <1>3
      <3>2. \A i \in 1 .. Len(queue'[s]) : seen'[s] < queue'[s][i] /\ queue'[s][i] <= serial'
        BY <1>1, <1>3 DEF Ordered, QueueInOrder
      <3>3. \A i, j \in 1 .. Len(queue'[s]) : i < j => queue'[s][i] < queue'[s][j]
        BY DEF Ordered, QueueInOrder
      <3>4. ASSUME NEW j \in 1 .. Len(inbox')
            PROVE  /\ seen'[s] < inbox'[j].serial
                   /\ \A i \in 1 .. Len(queue'[s]) : queue'[s][i] < inbox'[j].serial
        <4>1. CASE j \in 1 .. Len(inbox) /\ inbox'[j].serial = inbox[j].serial
          BY <4>1 DEF Ordered, QueueInOrder
        <4>2. CASE inbox'[j].serial = serial + 1
          BY <1>1, <1>3, <4>2
        <4> QED  BY <2>3, <4>1, <4>2
      <3> QED  BY <3>1, <3>2, <3>3, <3>4 DEF QueueInOrder
    <2> QED  BY <1>1, <2>1, <2>4, <2>5 DEF Ordered, M
  <1> QED  BY <1>1, <1>4, <1>5

\* A batch is delivered behind everything delivered before, and before what follows it.
LEMMA ReceivesKeepsOrder ==
  ASSUME BridgeTypes, Ordered, Receives
  PROVE  /\ Ordered'
         /\ queue' \in [Subscriber -> Seq(Nat)] /\ inbox' \in Seq([topic : Topic, serial : Nat])
         /\ subscribers' \in [Topic -> SUBSET Subscriber]
PROOF
  <1> DEFINE M == [topic : Topic, serial : Nat]
             b == Head(inbox)
  <1>1. inbox \in Seq(M) /\ inbox # <<>> /\ inbox' = Tail(inbox)
    BY DEF BridgeTypes, Receives
  <1>2. /\ b \in M /\ b = inbox[1] /\ Len(inbox) \in Nat /\ 1 \in 1 .. Len(inbox)
        /\ inbox' \in Seq(M) /\ Len(inbox') = Len(inbox) - 1
        /\ \A i \in 1 .. Len(inbox') : i + 1 \in 1 .. Len(inbox) /\ inbox'[i] = inbox[i + 1]
    BY <1>1, TailShifts
  <1>3. /\ seen' = seen /\ serial' = serial /\ serial \in Nat /\ sub' = sub
        /\ \A s \in Subscriber : seen[s] \in Nat /\ queue[s] \in Seq(Nat)
        /\ Delivers(b) \/ UNCHANGED <<queue, subscribers>>
    BY DEF BridgeTypes, Receives
  <1>4. /\ b.topic \in Topic /\ b.serial \in Nat /\ b.serial = inbox[1].serial
        /\ b.serial <= serial
    BY <1>2 DEF Ordered, InboxInOrder
  <1>5. \A i \in 1 .. Len(inbox) : inbox[i].serial \in Nat
    BY Numbered
  <1> HIDE DEF b, M
  <1>6. \A i \in 1 .. Len(inbox') : i + 1 \in 1 .. Len(inbox) /\ inbox'[i].serial = inbox[i + 1].serial
    BY <1>2
  <1>7. /\ subscribers' \in [Topic -> SUBSET Subscriber]
        /\ queue' \in [Subscriber -> Seq(Nat)]
        /\ \A s \in Subscriber : queue'[s] \in {queue[s], Append(queue[s], b.serial)}
    <2>1. CASE UNCHANGED <<queue, subscribers>>
      BY <2>1 DEF BridgeTypes
    <2>2. CASE Delivers(b)
      <3>1. subscribers' \in [Topic -> SUBSET Subscriber]
        BY <2>2, <1>4 DEF BridgeTypes, Delivers
      <3>2. \A s \in Subscriber : Append(queue[s], b.serial) \in Seq(Nat)
        BY <1>3, <1>4
      <3>3. \A s \in Subscriber : queue'[s] \in {queue[s], Append(queue[s], b.serial)}
        BY <2>2 DEF Delivers
      <3>4. queue' = [s \in Subscriber |-> queue'[s]]
        BY <2>2 DEF Delivers
      <3> QED  BY <1>3, <3>1, <3>2, <3>3, <3>4
    <2> QED  BY <1>3, <2>1, <2>2
  <1>8. InboxInOrder'
    <2>1. \A i \in 1 .. Len(inbox') : inbox'[i].serial <= serial'
      BY <1>3, <1>6 DEF Ordered, InboxInOrder
    <2>2. ASSUME NEW i \in 1 .. Len(inbox'), NEW j \in 1 .. Len(inbox'), i < j
          PROVE  inbox'[i].serial < inbox'[j].serial
      <3>1. i + 1 \in 1 .. Len(inbox) /\ j + 1 \in 1 .. Len(inbox) /\ i + 1 < j + 1
        BY <1>6, <2>2
      <3> QED  BY <1>6, <3>1 DEF Ordered, InboxInOrder
    <2> QED  BY <2>1, <2>2 DEF InboxInOrder
  <1>9. ASSUME NEW s \in Subscriber PROVE QueueInOrder(s)'
    <2>1. /\ seen[s] <= serial /\ seen[s] < b.serial
          /\ \A i \in 1 .. Len(queue[s]) : /\ seen[s] < queue[s][i] /\ queue[s][i] <= serial
                                           /\ queue[s][i] < b.serial
          /\ \A i, j \in 1 .. Len(queue[s]) : i < j => queue[s][i] < queue[s][j]
      BY <1>2, <1>4 DEF Ordered, QueueInOrder
    <2>2. \A j \in 1 .. Len(inbox') :
             /\ seen[s] < inbox'[j].serial /\ b.serial < inbox'[j].serial
             /\ \A i \in 1 .. Len(queue[s]) : queue[s][i] < inbox'[j].serial
      BY <1>2, <1>4, <1>6 DEF Ordered, InboxInOrder, QueueInOrder
    <2>3. CASE queue'[s] = queue[s]
      BY <1>3, <2>1, <2>2, <2>3 DEF QueueInOrder
    <2>4. CASE queue'[s] = Append(queue[s], b.serial)
      <3>1. /\ Len(queue[s]) \in Nat /\ Len(queue'[s]) = Len(queue[s]) + 1
            /\ \A i \in 1 .. Len(queue[s]) : queue'[s][i] = queue[s][i]
            /\ queue'[s][Len(queue[s]) + 1] = b.serial
        BY <1>3, <1>4, <2>4, AppendEnds
      <3>2. \A i \in 1 .. Len(queue'[s]) :
               \/ i \in 1 .. Len(queue[s]) /\ queue'[s][i] = queue[s][i]
               \/ i = Len(queue[s]) + 1 /\ queue'[s][i] = b.serial
        BY <3>1
      <3>3. \A i \in 1 .. Len(queue'[s]) : seen'[s] < queue'[s][i] /\ queue'[s][i] <= serial'
        BY <1>3, <1>4, <2>1, <3>2
      <3>4. ASSUME NEW i \in 1 .. Len(queue'[s]), NEW j \in 1 .. Len(queue'[s]), i < j
            PROVE  queue'[s][i] < queue'[s][j]
        <4>1. i \in 1 .. Len(queue[s]) /\ queue'[s][i] = queue[s][i]
          BY <3>1, <3>2, <3>4
        <4>2. CASE j \in 1 .. Len(queue[s]) /\ queue'[s][j] = queue[s][j]
          BY <2>1, <3>4, <4>1, <4>2
        <4>3. CASE queue'[s][j] = b.serial
          BY <2>1, <4>1, <4>3
        <4> QED  BY <3>2, <4>2, <4>3
      <3>5. \A j \in 1 .. Len(inbox') :
               /\ seen'[s] < inbox'[j].serial
               /\ \A i \in 1 .. Len(queue'[s]) : queue'[s][i] < inbox'[j].serial
        BY <1>3, <2>2, <3>2
      <3> QED  BY <1>3, <2>1, <3>3, <3>4, <3>5 DEF QueueInOrder
    <2> QED  BY <1>7, <2>3, <2>4
  <1> QED  BY <1>2, <1>7, <1>8, <1>9 DEF Ordered, M

\* A subscriber takes the first that waits for it.
LEMMA ConsumesKeepsOrder ==
  ASSUME BridgeTypes, Ordered, NEW s \in Subscriber, Consumes(s)
  PROVE  Ordered' /\ queue' \in [Subscriber -> Seq(Nat)] /\ seen' \in [Subscriber -> Nat]
PROOF
  <1> DEFINE q == queue[s]
  <1>1. /\ q \in Seq(Nat) /\ q # <<>> /\ inbox' = inbox /\ serial' = serial
        /\ queue' = [queue EXCEPT ![s] = Tail(q)] /\ seen' = [seen EXCEPT ![s] = Head(q)]
    BY DEF BridgeTypes, Consumes
  <1>2. /\ Head(q) \in Nat /\ Head(q) = q[1] /\ Len(q) \in Nat /\ 1 \in 1 .. Len(q)
        /\ Tail(q) \in Seq(Nat) /\ Len(Tail(q)) = Len(q) - 1
        /\ \A i \in 1 .. Len(Tail(q)) : i + 1 \in 1 .. Len(q) /\ Tail(q)[i] = q[i + 1]
    BY <1>1, TailShifts
  <1>3. /\ queue' \in [Subscriber -> Seq(Nat)] /\ seen' \in [Subscriber -> Nat]
        /\ queue'[s] = Tail(q) /\ seen'[s] = q[1]
        /\ \A u \in Subscriber : u # s => queue'[u] = queue[u] /\ seen'[u] = seen[u]
    BY <1>1, <1>2 DEF BridgeTypes
  <1>4. InboxInOrder'
    BY <1>1 DEF Ordered, InboxInOrder
  <1>5. ASSUME NEW u \in Subscriber PROVE QueueInOrder(u)'
    <2>1. CASE u = s
      <3>1. /\ \A i \in 1 .. Len(q) : q[i] <= serial
            /\ \A i, j \in 1 .. Len(q) : i < j => q[i] < q[j]
            /\ \A j \in 1 .. Len(inbox) : \A i \in 1 .. Len(q) : q[i] < inbox[j].serial
        BY DEF Ordered, QueueInOrder
      <3> HIDE DEF q
      <3>2. /\ \A i \in 1 .. Len(Tail(q)) : q[1] < Tail(q)[i] /\ Tail(q)[i] <= serial
            /\ \A i, j \in 1 .. Len(Tail(q)) : i < j => Tail(q)[i] < Tail(q)[j]
        BY <1>2, <3>1
      <3> QED  BY <1>1, <1>2, <1>3, <2>1, <3>1, <3>2 DEF QueueInOrder
    <2>2. CASE u # s
      BY <1>1, <1>3, <2>2 DEF Ordered, QueueInOrder
    <2> QED  BY <2>1, <2>2
  <1> QED  BY <1>3, <1>4, <1>5 DEF Ordered

\* A subscriber that leaves leaves nothing behind.
LEMMA LeavesKeepsOrder ==
  ASSUME BridgeTypes, Ordered, NEW s \in Subscriber, Leaves(s)
  PROVE  Ordered' /\ queue' \in [Subscriber -> Seq(Nat)]
PROOF
  <1>1. /\ queue' = [queue EXCEPT ![s] = <<>>] /\ UNCHANGED <<seen, inbox, serial>>
        /\ queue \in [Subscriber -> Seq(Nat)]
    BY DEF BridgeTypes, Leaves
  <1>2. queue' \in [Subscriber -> Seq(Nat)]
    BY <1>1
  <1>3. \A u \in Subscriber : queue'[u] = queue[u] \/ (Len(queue'[u]) = 0 /\ 1 .. Len(queue'[u]) = {})
    BY <1>1
  <1>4. InboxInOrder'
    BY <1>1 DEF Ordered, InboxInOrder
  <1>5. ASSUME NEW u \in Subscriber PROVE QueueInOrder(u)'
    BY <1>1, <1>3 DEF Ordered, QueueInOrder
  <1> QED  BY <1>2, <1>4, <1>5 DEF Ordered

-----------------------------------------------------------------------------
(* Topics.                                                                 *)

\* A request stays asked for, and a new one joins it, when the channel grows.
LEMMA AskedStays ==
  ASSUME BridgeTypes, NEW e \in Wants, requests' = Append(requests, e)
  PROVE  /\ requests' \in Seq(Wants)
         /\ \A t : Asked(t) => Asked(t)'
         /\ \A t : e = Ask(t) => Asked(t)'
PROOF
  <1>1. /\ requests' \in Seq(Wants) /\ Len(requests) \in Nat
        /\ Len(requests') = Len(requests) + 1
        /\ \A i \in 1 .. Len(requests) : requests'[i] = requests[i]
        /\ requests'[Len(requests) + 1] = e
    BY AppendEnds DEF BridgeTypes
  <1>2. \A i \in 1 .. Len(requests) : i \in 1 .. Len(requests')
    BY <1>1
  <1>3. Len(requests) + 1 \in 1 .. Len(requests')
    BY <1>1
  <1> QED  BY <1>1, <1>2, <1>3 DEF Asked

\* The first request leaves: the others are still asked for.
LEMMA AskedOrSent ==
  ASSUME BridgeTypes, requests # <<>>, requests' = Tail(requests)
  PROVE  /\ requests' \in Seq(Wants) /\ Head(requests) \in Wants
         /\ \A t : Asked(t) => Asked(t)' \/ Head(requests) = Ask(t)
PROOF
  <1>1. /\ Head(requests) \in Wants /\ Head(requests) = requests[1] /\ Len(requests) \in Nat
        /\ requests' \in Seq(Wants) /\ Len(requests') = Len(requests) - 1
        /\ \A i \in 1 .. Len(requests') : requests'[i] = requests[i + 1]
    BY TailShifts DEF BridgeTypes
  <1>2. ASSUME NEW t, NEW i \in 1 .. Len(requests), requests[i] = Ask(t), i # 1
        PROVE  Asked(t)'
    <2>1. i - 1 \in 1 .. Len(requests') /\ requests'[i - 1] = Ask(t)
      BY <1>1, <1>2
    <2> QED  BY <2>1 DEF Asked
  <1> QED  BY <1>1, <1>2 DEF Asked

\* A topic that is provided stays so while nothing is taken back.
LEMMA ProvidedStays ==
  ASSUME NEW t, Provided(t), session \subseteq session', missed \subseteq missed',
         Asked(t) => Asked(t)' \/ t \in session',
         \A s \in Subscriber : sub[s] = "recorded" => sub'[s] = "recorded"
  PROVE  Provided(t)'
PROOF
  BY DEF Provided

-----------------------------------------------------------------------------
(* The steps.                                                              *)

\* Before the first connection.
LEMMA InitBridge == Init => BridgeInductive
PROOF
  <1> SUFFICES ASSUME Init PROVE BridgeInductive
    OBVIOUS
  <1>1. BridgeTypes
    BY FS_EmptySet DEF Init, BridgeTypes
  <1>2. Ordered
    <2>1. /\ Len(inbox) = 0 /\ serial = 0
          /\ \A s \in Subscriber : Len(queue[s]) = 0 /\ seen[s] = 0
      BY DEF Init
    <2>2. 1 .. 0 = {}
      OBVIOUS
    <2> QED  BY <2>1, <2>2 DEF Ordered, InboxInOrder, QueueInOrder
  <1>3. NoneForgotten
    BY DEF Init, NoneForgotten
  <1> QED  BY <1>1, <1>2, <1>3 DEF BridgeInductive

\* Steps that neither move a batch, nor a request, nor a topic.
LEMMA QuietKeeps ==
  ASSUME BridgeInductive, UNCHANGED <<localVars, session, inbox, serial, requests, missed>>,
         Reinstated' => Reinstated
  PROVE  BridgeInductive'
PROOF
  <1>1. BridgeTypes'
    BY DEF BridgeInductive, BridgeTypes
  <1>2. Ordered'
    BY OrderStays DEF BridgeInductive
  <1>3. NoneForgotten'
    BY DEF BridgeInductive, NoneForgotten, Provided, Asked
  <1> QED  BY <1>1, <1>2, <1>3 DEF BridgeInductive

\* A connection that begins or ends leaves nothing on its way.
LEMMA ConnectionKeeps ==
  ASSUME BridgeInductive, DialAnswers \/ Notices
  PROVE  BridgeInductive'
PROOF
  <1>1. /\ UNCHANGED <<localVars, serial>> /\ inbox' = <<>> /\ requests' = <<>>
        /\ pc' \in {"reinstate", "lower"}
    BY DEF DialAnswers, Notices
  <1>2. BridgeTypes'
    BY <1>1 DEF BridgeInductive, BridgeTypes
  <1>3. Ordered'
    BY <1>1, OrderStays DEF BridgeInductive
  <1>4. NoneForgotten'
    BY <1>1 DEF NoneForgotten, Reinstated
  <1> QED  BY <1>2, <1>3, <1>4 DEF BridgeInductive

\* Every known topic is asked for, or counted as missed.
LEMMA ReinstatesKeeps ==
  ASSUME BridgeInductive, Reinstates
  PROVE  BridgeInductive'
PROOF
  <1>1. PICK asked \in kSubset(Slots, known) :
           /\ requests' = SetToSeq({Ask(t) : t \in asked})
           /\ missed' = known \ asked
    BY DEF Reinstates
  <1>2. UNCHANGED <<localVars, session, inbox, serial>>
    BY DEF Reinstates
  <1>3. asked \subseteq known
    BY DEF kSubset
  <1>4. IsFiniteSet(asked) /\ asked \subseteq Topic
    BY <1>3, FS_Subset DEF BridgeInductive, BridgeTypes
  <1>5. /\ requests' \in Seq(Wants)
        /\ \A t \in asked : \E i \in 1 .. Len(requests') : requests'[i] = Ask(t)
    BY <1>1, <1>4, AsksForEach
  <1>6. BridgeTypes'
    BY <1>2, <1>5 DEF BridgeInductive, BridgeTypes
  <1>7. Ordered'
    BY <1>2, OrderStays DEF BridgeInductive
  <1>8. NoneForgotten'
    BY <1>1, <1>2, <1>5 DEF NoneForgotten, Provided, Asked
  <1> QED  BY <1>6, <1>7, <1>8 DEF BridgeInductive

\* A request leaves for the broker: a topic asked for becomes subscribed.
LEMMA SendsKeeps ==
  ASSUME BridgeInductive, Sends
  PROVE  BridgeInductive'
PROOF
  <1> DEFINE h == Head(requests)
  <1>1. /\ requests # <<>> /\ requests' = Tail(requests) /\ BridgeTypes
        /\ UNCHANGED <<pc, localVars, missed>>
    BY DEF Sends, BridgeInductive
  <1>2. /\ requests' \in Seq(Wants) /\ h \in Wants
        /\ \A t : Asked(t) => Asked(t)' \/ h = Ask(t)
    BY <1>1, AskedOrSent
  <1>3. CASE h.op = "subscribe"
    <2>1. session' = session \cup {h.topic} /\ inbox' = inbox /\ serial' = serial
      BY <1>3 DEF Sends
    <2>2. BridgeTypes'
      BY <1>1, <1>2, <2>1 DEF BridgeTypes
    <2>3. Ordered'
      BY <1>1, <2>1, OrderStays DEF BridgeInductive
    <2>4. \A t : h = Ask(t) => t \in session'
      BY <2>1 DEF Ask
    <2>5. NoneForgotten'
      <3>1. ASSUME NEW t, Provided(t) PROVE Provided(t)'
        <4>1. session \subseteq session' /\ missed \subseteq missed' /\ sub' = sub
          BY <1>1, <2>1
        <4>2. Asked(t) => Asked(t)' \/ t \in session'
          BY <1>2, <2>4
        <4> QED  BY <3>1, <4>1, <4>2, ProvidedStays
      <3> QED  BY <1>1, <3>1 DEF BridgeInductive, NoneForgotten, Reinstated
    <2> QED  BY <2>2, <2>3, <2>5 DEF BridgeInductive
  <1>4. CASE h.op = "publish"
    <2>1. Forwards(h.topic) /\ session' = session
      BY <1>4 DEF Sends
    <2>2. h.topic \in Topic
      BY <1>2 DEF Wants, Ask, Publish
    <2>3. Ordered' /\ serial' \in Nat /\ inbox' \in Seq([topic : Topic, serial : Nat])
      BY <1>1, <2>1, <2>2, ForwardsKeepsOrder DEF BridgeInductive
    <2>4. BridgeTypes'
      BY <1>1, <1>2, <2>3 DEF BridgeTypes
    <2>5. \A t : h # Ask(t)
      BY <1>4 DEF Ask
    <2>6. NoneForgotten'
      <3>1. ASSUME NEW t, Provided(t) PROVE Provided(t)'
        BY <1>1, <1>2, <2>1, <2>5, <3>1, ProvidedStays
      <3> QED  BY <1>1, <3>1 DEF BridgeInductive, NoneForgotten, Reinstated
    <2> QED  BY <2>3, <2>4, <2>6 DEF BridgeInductive
  <1> QED  BY <1>3, <1>4 DEF Sends

\* Steps that move no topic.
LEMMA TopicsStay ==
  ASSUME NoneForgotten, UNCHANGED <<pc, known, session, missed, requests, sub>>
  PROVE  NoneForgotten'
PROOF
  BY DEF NoneForgotten, Provided, Asked, Reinstated

\* A batch arrives.
LEMMA ReceivesKeeps ==
  ASSUME BridgeInductive, Receives
  PROVE  BridgeInductive'
PROOF
  <1>1. BridgeTypes /\ Ordered /\ NoneForgotten
    BY DEF BridgeInductive
  <1>2. UNCHANGED <<pc, known, session, missed, requests, sub, seen, serial>>
    BY DEF Receives
  <1>3. /\ Ordered'
        /\ queue' \in [Subscriber -> Seq(Nat)] /\ inbox' \in Seq([topic : Topic, serial : Nat])
        /\ subscribers' \in [Topic -> SUBSET Subscriber]
    BY <1>1, ReceivesKeepsOrder
  <1>4. BridgeTypes'
    BY <1>1, <1>2, <1>3 DEF BridgeTypes
  <1> QED  BY <1>1, <1>2, <1>3, <1>4, TopicsStay DEF BridgeInductive

\* A subscriber receives.
LEMMA ConsumesKeeps ==
  ASSUME BridgeInductive, NEW s \in Subscriber, Consumes(s)
  PROVE  BridgeInductive'
PROOF
  <1>1. BridgeTypes /\ Ordered /\ NoneForgotten
    BY DEF BridgeInductive
  <1>2. UNCHANGED <<pc, subscribers, known, session, missed, requests, sub, serial, inbox>>
    BY DEF Consumes
  <1>3. Ordered' /\ queue' \in [Subscriber -> Seq(Nat)] /\ seen' \in [Subscriber -> Nat]
    BY <1>1, ConsumesKeepsOrder
  <1>4. BridgeTypes'
    BY <1>1, <1>2, <1>3 DEF BridgeTypes
  <1> QED  BY <1>1, <1>2, <1>3, <1>4, TopicsStay DEF BridgeInductive

\* A subscriber leaves: it was not one that will still ask.
LEMMA LeavesKeeps ==
  ASSUME BridgeInductive, NEW s \in Subscriber, Leaves(s)
  PROVE  BridgeInductive'
PROOF
  <1>1. BridgeTypes /\ Ordered /\ NoneForgotten
    BY DEF BridgeInductive
  <1>2. /\ UNCHANGED <<pc, subscribers, known, session, missed, requests, seen, serial, inbox>>
        /\ sub[s] = "listens" /\ sub' = [sub EXCEPT ![s] = "gone"]
    BY DEF Leaves
  <1>3. Ordered' /\ queue' \in [Subscriber -> Seq(Nat)]
    BY <1>1, LeavesKeepsOrder
  <1>4. BridgeTypes'
    BY <1>1, <1>2, <1>3 DEF BridgeTypes
  <1>5. \A u \in Subscriber : sub[u] = "recorded" => sub'[u] = "recorded"
    BY <1>1, <1>2 DEF BridgeTypes
  <1>6. NoneForgotten'
    <2>1. ASSUME NEW t, Provided(t) PROVE Provided(t)'
      <3>1. Asked(t) => Asked(t)'
        BY <1>2 DEF Asked
      <3> QED  BY <1>2, <1>5, <2>1, <3>1, ProvidedStays
    <2> QED  BY <1>1, <1>2, <2>1 DEF NoneForgotten, Reinstated
  <1> QED  BY <1>3, <1>4, <1>6 DEF BridgeInductive

\* A topic is recorded by who will ask for it.
LEMMA RecordsKeeps ==
  ASSUME BridgeInductive, NEW s \in Subscriber, Records(s)
  PROVE  BridgeInductive'
PROOF
  <1> DEFINE t == TopicOf[s]
  <1>1. BridgeTypes /\ Ordered /\ NoneForgotten /\ t \in Topic
    BY BridgeAssumption DEF BridgeInductive
  <1>2. /\ UNCHANGED <<pc, session, missed, requests, queue, seen, serial, inbox>>
        /\ sub' = [sub EXCEPT ![s] = "recorded"] /\ known' = known \cup {t}
        /\ subscribers' = [subscribers EXCEPT ![t] = @ \cup {s}]
    BY DEF Records
  <1>3. IsFiniteSet(known')
    BY <1>1, <1>2, FS_AddElement DEF BridgeTypes
  <1>4. BridgeTypes'
    BY <1>1, <1>2, <1>3 DEF BridgeTypes
  <1>5. Ordered'
    BY <1>1, <1>2, OrderStays
  <1>6. sub'[s] = "recorded" /\ \A u \in Subscriber : sub[u] = "recorded" => sub'[u] = "recorded"
    BY <1>1, <1>2 DEF BridgeTypes
  <1>7. NoneForgotten'
    <2>1. ASSUME NEW u, Provided(u) PROVE Provided(u)'
      <3>1. Asked(u) => Asked(u)'
        BY <1>2 DEF Asked
      <3> QED  BY <1>2, <1>6, <2>1, <3>1, ProvidedStays
    <2>2. Provided(t)'
      BY <1>6 DEF Provided
    <2> QED  BY <1>1, <1>2, <2>1, <2>2 DEF NoneForgotten, Reinstated
  <1> QED  BY <1>4, <1>5, <1>7 DEF BridgeInductive

\* A topic is asked for by who recorded it: taken, there already, or missed.
LEMMA AsksKeeps ==
  ASSUME BridgeInductive, NEW s \in Subscriber, Asks(s)
  PROVE  BridgeInductive'
PROOF
  <1> DEFINE t == TopicOf[s]
  <1>1. BridgeTypes /\ Ordered /\ NoneForgotten /\ t \in Topic
    BY BridgeAssumption DEF BridgeInductive
  <1>2. /\ UNCHANGED <<pc, subscribers, known, session, queue, seen, serial, inbox>>
        /\ sub' = [sub EXCEPT ![s] = "listens"]
        /\ requests' = IF client /\ Takes THEN Append(requests, Ask(t)) ELSE requests
        /\ missed' = IF Reinstated /\ t \notin session /\ ~Asked(t) /\ ~(client /\ Takes)
                     THEN missed \cup {t} ELSE missed
    BY DEF Asks
  <1>3. Ask(t) \in Wants
    BY <1>1 DEF Wants
  <1>4. requests' \in Seq(Wants) /\ \A u : Asked(u) => Asked(u)'
    <2>1. CASE client /\ Takes
      BY <1>1, <1>2, <1>3, <2>1, AskedStays
    <2>2. CASE ~(client /\ Takes)
      BY <1>1, <1>2, <2>2 DEF BridgeTypes, Asked
    <2> QED  BY <2>1, <2>2
  <1>5. BridgeTypes'
    BY <1>1, <1>2, <1>4 DEF BridgeTypes
  <1>6. Ordered'
    BY <1>1, <1>2, OrderStays
  <1>7. Reinstated => Provided(t)'
    <2>1. CASE client /\ Takes
      <3>1. Asked(t)'
        BY <1>1, <1>2, <1>3, <2>1, AskedStays
      <3> QED  BY <3>1 DEF Provided
    <2>2. CASE ~(client /\ Takes)
      BY <1>2, <1>4, <2>2 DEF Provided
    <2> QED  BY <2>1, <2>2
  <1>8. ASSUME NEW u, Provided(u), u # t PROVE Provided(u)'
    <2>1. CASE \E v \in Subscriber : sub[v] = "recorded" /\ TopicOf[v] = u
      <3>1. PICK v \in Subscriber : sub[v] = "recorded" /\ TopicOf[v] = u
        BY <2>1
      <3>2. v # s
        BY <1>8, <3>1
      <3>3. sub'[v] = "recorded"
        BY <1>1, <1>2, <3>1, <3>2 DEF BridgeTypes
      <3> QED  BY <3>1, <3>3 DEF Provided
    <2>2. CASE u \in session \/ u \in missed \/ Asked(u)
      BY <1>2, <1>4, <2>2 DEF Provided
    <2> QED  BY <1>8, <2>1, <2>2 DEF Provided
  <1>9. NoneForgotten'
    BY <1>1, <1>2, <1>7, <1>8 DEF NoneForgotten, Reinstated
  <1> QED  BY <1>5, <1>6, <1>9 DEF BridgeInductive

\* A batch is handed to the client, or dropped.
LEMMA PublishHandsKeeps ==
  ASSUME BridgeInductive, NEW t \in Topic, PublishHands(t)
  PROVE  BridgeInductive'
PROOF
  <1>1. BridgeTypes /\ Ordered /\ NoneForgotten
    BY DEF BridgeInductive
  <1>2. /\ UNCHANGED <<pc, localVars, session, missed, serial, inbox>>
        /\ requests' \in {requests, Append(requests, Publish(t))}
    BY DEF PublishHands
  <1>3. Publish(t) \in Wants
    BY DEF Wants
  <1>4. requests' \in Seq(Wants) /\ \A u : Asked(u) => Asked(u)'
    <2>1. CASE requests' = Append(requests, Publish(t))
      BY <1>1, <1>3, <2>1, AskedStays
    <2>2. CASE requests' = requests
      BY <1>1, <2>2 DEF BridgeTypes, Asked
    <2> QED  BY <1>2, <2>1, <2>2
  <1>5. BridgeTypes'
    BY <1>1, <1>2, <1>4 DEF BridgeTypes
  <1>6. Ordered'
    BY <1>1, <1>2, OrderStays
  <1>7. NoneForgotten'
    <2>1. ASSUME NEW u, Provided(u) PROVE Provided(u)'
      BY <1>2, <1>4, <2>1, ProvidedStays
    <2> QED  BY <1>1, <1>2, <2>1 DEF NoneForgotten, Reinstated
  <1> QED  BY <1>5, <1>6, <1>7 DEF BridgeInductive

\* Another node publishes.
LEMMA OtherPublishesKeeps ==
  ASSUME BridgeInductive, NEW t \in Topic, OtherPublishes(t)
  PROVE  BridgeInductive'
PROOF
  <1>1. BridgeTypes /\ Ordered /\ NoneForgotten
    BY DEF BridgeInductive
  <1>2. Forwards(t) /\ UNCHANGED <<pc, localVars, session, missed, requests>>
    BY DEF OtherPublishes
  <1>3. Ordered' /\ serial' \in Nat /\ inbox' \in Seq([topic : Topic, serial : Nat])
    BY <1>1, <1>2, ForwardsKeepsOrder
  <1>4. BridgeTypes'
    BY <1>1, <1>2, <1>3 DEF BridgeTypes
  <1> QED  BY <1>1, <1>2, <1>3, <1>4, TopicsStay DEF BridgeInductive

\* Every step of the bridge keeps the invariant.
LEMMA NextBridge == BridgeInductive /\ [Next]_vars => BridgeInductive'
PROOF
  <1> SUFFICES ASSUME BridgeInductive, [Next]_vars PROVE BridgeInductive'
    OBVIOUS
  <1>1. ASSUME DialFails \/ Slept \/ Installs \/ Raises \/ Lowers \/ Clears
        PROVE  BridgeInductive'
    BY <1>1, QuietKeeps DEF DialFails, Slept, Installs, Raises, Lowers, Clears, Reinstated
  <1>2. ASSUME PublishChecks \/ Breaks \/ Flips PROVE BridgeInductive'
    BY <1>2, QuietKeeps DEF PublishChecks, Breaks, Flips, Reinstated
  <1>3. ASSUME Rest \/ UNCHANGED vars PROVE BridgeInductive'
    BY <1>3, QuietKeeps DEF Rest, vars, Reinstated
  <1>4. CASE Run
    BY <1>1, <1>4, ConnectionKeeps, ReinstatesKeeps, SendsKeeps, ReceivesKeeps DEF Run
  <1>5. CASE Instances
    BY <1>2, <1>5, PublishHandsKeeps, RecordsKeeps, AsksKeeps, ConsumesKeeps, LeavesKeeps
       DEF Instances
  <1> QED  BY <1>2, <1>3, <1>4, <1>5, OtherPublishesKeeps DEF Next

\* The bridge keeps its invariant.
THEOREM BridgeInvariance == Spec => []BridgeInductive
PROOF
  <1> QED  BY InitBridge, NextBridge, PTL DEF Spec

\* Whatever connections come and go, a subscriber receives what it receives in the order
\* of the broker, and nothing twice (bridge.rs, drive and dispatch).
THEOREM AtMostOnceInOrderHolds == Spec => []AtMostOnceInOrder
PROOF
  <1>1. BridgeInductive => AtMostOnceInOrder
    <2> SUFFICES ASSUME BridgeInductive, NEW s \in Subscriber,
                        NEW i \in 1 .. Len(<<seen[s]>> \o queue[s]) - 1
                 PROVE  (<<seen[s]>> \o queue[s])[i] < (<<seen[s]>> \o queue[s])[i + 1]
      BY DEF AtMostOnceInOrder
    <2> DEFINE q == queue[s]
               got == <<seen[s]>> \o q
    <2>1. seen[s] \in Nat /\ q \in Seq(Nat) /\ Len(q) \in Nat
      BY DEF BridgeInductive, BridgeTypes
    <2>2. /\ \A k \in 1 .. Len(q) : seen[s] < q[k]
          /\ \A k, m \in 1 .. Len(q) : k < m => q[k] < q[m]
      BY DEF BridgeInductive, Ordered, QueueInOrder
    <2> HIDE DEF q
    <2>3. Len(got) = Len(q) + 1 /\ got[1] = seen[s] /\ \A k \in 1 .. Len(q) : got[k + 1] = q[k]
      BY <2>1
    <2>4. i \in 1 .. Len(q) /\ got[i + 1] = q[i]
      BY <2>1, <2>3 DEF q
    <2> HIDE DEF got
    <2>5. ASSUME i = 1 PROVE got[i] < got[i + 1]
      BY <2>2, <2>3, <2>4, <2>5
    <2>6. ASSUME i # 1 PROVE got[i] < got[i + 1]
      <3>1. i - 1 \in 1 .. Len(q) /\ i - 1 < i /\ i - 1 + 1 = i
        BY <2>4, <2>6
      <3>2. got[i] = q[i - 1]
        BY <2>3, <3>1
      <3> QED  BY <2>2, <2>3, <2>4, <3>1, <3>2
    <2>7. got[i] < got[i + 1]
      BY <2>5, <2>6
    <2> QED  BY <2>7 DEF got, q
  <1> QED  BY <1>1, BridgeInvariance, PTL

\* On a connection that has sent its requests a recorded topic is subscribed, but for
\* those the module calls missed (bridge.rs:1073, reinstate and subscribe).
THEOREM TopicsAreHeardHolds == Spec => []TopicsAreHeard
PROOF
  <1>1. BridgeInductive => TopicsAreHeard
    <2> SUFFICES ASSUME BridgeInductive, pc = "drive", requests = <<>>, NEW t \in known
                 PROVE  \/ t \in session \cup missed
                        \/ t \in {TopicOf[s] : s \in {s \in Subscriber : sub[s] = "recorded"}}
      BY DEF TopicsAreHeard
    <2>1. Provided(t)
      BY DEF BridgeInductive, NoneForgotten, Reinstated
    <2>2. ~Asked(t)
      <3>1. Len(requests) = 0
        OBVIOUS
      <3> QED  BY <3>1 DEF Asked
    <2> QED  BY <2>1, <2>2 DEF Provided
  <1> QED  BY <1>1, BridgeInvariance, PTL

-----------------------------------------------------------------------------
(* The broker of one process.                                              *)

LocalBroker == [listens : [Topic -> SUBSET Subscriber], queue : [Subscriber -> Seq(Nat)],
                gone : SUBSET Subscriber, dropped : Nat]

\* Batches are numbered as they are published, n the last; q holds some, in order.
InOrder(q, n) == /\ \A i \in 1 .. Len(q) : q[i] <= n
                 /\ \A i, j \in 1 .. Len(q) : i < j => q[i] < q[j]

LocalOrdered(b, n) == b \in LocalBroker /\ \A s \in Subscriber : InOrder(b.queue[s], n)

\* The next batch goes behind those that wait.
LEMMA NextIsLast ==
  ASSUME NEW q \in Seq(Nat), NEW n \in Nat, InOrder(q, n)
  PROVE  InOrder(q, n + 1) /\ InOrder(Append(q, n + 1), n + 1) /\ Append(q, n + 1) \in Seq(Nat)
PROOF
  <1>1. \A i \in 1 .. Len(q) : q[i] \in Nat
    BY ElementOfSeq
  <1>2. InOrder(q, n + 1)
    BY <1>1 DEF InOrder
  <1>3. /\ Append(q, n + 1) \in Seq(Nat) /\ Len(q) \in Nat /\ Len(Append(q, n + 1)) = Len(q) + 1
        /\ \A i \in 1 .. Len(q) : Append(q, n + 1)[i] = q[i]
        /\ Append(q, n + 1)[Len(q) + 1] = n + 1
    BY AppendEnds
  <1> DEFINE r == Append(q, n + 1)
  <1> HIDE DEF r
  <1>4. \A i \in 1 .. Len(q) : r[i] = q[i] /\ r[i] \in Nat /\ r[i] <= n
    BY <1>1, <1>3 DEF r, InOrder
  <1>5. Len(r) = Len(q) + 1 /\ r[Len(q) + 1] = n + 1 /\ Len(q) \in Nat
    BY <1>3 DEF r
  <1>6. \A i \in 1 .. Len(r) : i \in 1 .. Len(q) \/ i = Len(q) + 1
    BY <1>5
  <1>7. \A i \in 1 .. Len(r) : r[i] <= n + 1
    BY <1>4, <1>5, <1>6
  <1>8. ASSUME NEW i \in 1 .. Len(r), NEW j \in 1 .. Len(r), i < j PROVE r[i] < r[j]
    <2>1. i \in 1 .. Len(q)
      BY <1>5, <1>8
    <2>2. CASE j \in 1 .. Len(q)
      BY <1>4, <1>8, <2>1, <2>2 DEF InOrder
    <2>3. CASE j = Len(q) + 1
      BY <1>4, <1>5, <2>1, <2>3
    <2> QED BY <1>6, <2>2, <2>3
  <1>9. InOrder(r, n + 1)
    BY <1>7, <1>8 DEF InOrder
  <1> QED BY <1>2, <1>3, <1>9 DEF r

\* What waits behind the first is still in order, and after it.
LEMMA RestIsLater ==
  ASSUME NEW q \in Seq(Nat), NEW n \in Nat, InOrder(q, n), q # <<>>
  PROVE  /\ Tail(q) \in Seq(Nat) /\ InOrder(Tail(q), n)
         /\ \A i \in 1 .. Len(Tail(q)) : Head(q) < Tail(q)[i]
PROOF
  <1>1. /\ Head(q) = q[1] /\ Len(q) \in Nat /\ 1 \in 1 .. Len(q)
        /\ Tail(q) \in Seq(Nat) /\ Len(Tail(q)) = Len(q) - 1
        /\ \A i \in 1 .. Len(Tail(q)) : i + 1 \in 1 .. Len(q) /\ Tail(q)[i] = q[i + 1]
    BY TailShifts
  <1> DEFINE r == Tail(q)
  <1> HIDE DEF r
  <1>2. Len(r) = Len(q) - 1 /\ \A i \in 1 .. Len(r) : i + 1 \in 1 .. Len(q) /\ r[i] = q[i + 1]
    BY <1>1 DEF r
  <1>3. \A i \in 1 .. Len(r) : r[i] <= n /\ q[1] < r[i]
    BY <1>1, <1>2 DEF InOrder
  <1>4. \A i, j \in 1 .. Len(r) : i < j => r[i] < r[j]
    BY <1>1, <1>2 DEF InOrder
  <1> QED BY <1>1, <1>3, <1>4 DEF r, InOrder

\* The broker of one process (bridge.rs, InProcessBridge), whatever connections share it and
\* whichever are severed: what waits for a subscriber is in the order of publication and
\* none twice, after every operation; and what it takes comes before all that waits.
THEOREM LocalIsInOrder ==
  ASSUME NEW b, NEW n \in Nat, LocalOrdered(b, n), NEW live \in BOOLEAN, NEW t \in Topic,
         NEW s \in Subscriber, IsFiniteSet(Subscriber)
  PROVE  /\ LocalOrdered(NewBroker, 0)
         /\ LocalOrdered(LocalPublish(b, live, t, n + 1).broker, n + 1)
         /\ LocalOrdered(LocalSubscribe(b, s, t), n) /\ LocalOrdered(LocalLeaves(b, s), n)
         /\ b.queue[s] # <<>> =>
               /\ LocalOrdered(LocalRecv(b, s), n)
               /\ \A i \in 1 .. Len(Tail(b.queue[s])) : Head(b.queue[s]) < Tail(b.queue[s])[i]
PROOF
  <1>1. /\ b \in LocalBroker
        /\ \A u \in Subscriber : b.queue[u] \in Seq(Nat) /\ InOrder(b.queue[u], n)
    BY DEF LocalOrdered, LocalBroker
  <1>2. <<>> \in Seq(Nat) /\ \A k \in Nat : InOrder(<<>>, k)
    BY EmptySeq DEF InOrder
  <1>3. LocalOrdered(NewBroker, 0)
    BY <1>2 DEF LocalOrdered, LocalBroker, NewBroker
  <1>4. LocalOrdered(LocalPublish(b, live, t, n + 1).broker, n + 1)
    <2> DEFINE p == LocalPublish(b, live, t, n + 1).broker
    <2> HIDE DEF p
    <2> SUFFICES LocalOrdered(p, n + 1)
      BY DEF p
    <2>1. CASE ~live
      <3>1. p = [b EXCEPT !.dropped = @ + 1]
        BY <2>1 DEF LocalPublish, p
      <3>2. b.dropped + 1 \in Nat
        BY <1>1 DEF LocalBroker
      <3>3. /\ p.queue = b.queue
            /\ p = [listens |-> b.listens, queue |-> b.queue, gone |-> b.gone, dropped |-> b.dropped + 1]
        BY <1>1, <3>1 DEF LocalBroker
      <3>4. p \in LocalBroker
        BY <1>1, <3>2, <3>3 DEF LocalBroker
      <3>5. \A u \in Subscriber : InOrder(p.queue[u], n + 1)
        BY <1>1, <3>3, NextIsLast
      <3> QED BY <3>4, <3>5 DEF LocalOrdered
    <2>2. CASE live
      <3>1. p = [listens |-> [b.listens EXCEPT ![t] = @ \ b.gone],
                 queue |-> [u \in Subscriber |-> IF u \in Reached(b, t) THEN Append(b.queue[u], n + 1)
                                                 ELSE b.queue[u]],
                 gone |-> b.gone,
                 dropped |-> b.dropped + Cardinality(Crowded(b, t))]
        BY <2>2 DEF LocalPublish, p
      <3>2. Crowded(b, t) \in SUBSET Subscriber
        BY <1>1 DEF Crowded, LocalBroker
      <3>3. Cardinality(Crowded(b, t)) \in Nat
        BY <3>2, FS_Subset, FS_CardinalityType
      <3>4. \A u \in Subscriber :
               /\ Append(b.queue[u], n + 1) \in Seq(Nat) /\ InOrder(Append(b.queue[u], n + 1), n + 1)
               /\ InOrder(b.queue[u], n + 1)
        BY <1>1, NextIsLast
      <3>5. p \in LocalBroker
        BY <1>1, <3>1, <3>3, <3>4 DEF LocalBroker
      <3>6. \A u \in Subscriber : InOrder(p.queue[u], n + 1)
        BY <3>1, <3>4
      <3> QED BY <3>5, <3>6 DEF LocalOrdered
    <2> QED BY <2>1, <2>2
  <1>5. LocalOrdered(LocalSubscribe(b, s, t), n)
    BY <1>1 DEF LocalSubscribe, LocalOrdered, LocalBroker
  <1>6. LocalOrdered(LocalLeaves(b, s), n)
    BY <1>1, <1>2 DEF LocalLeaves, LocalOrdered, LocalBroker
  <1>7. ASSUME b.queue[s] # <<>>
        PROVE  /\ LocalOrdered(LocalRecv(b, s), n)
               /\ \A i \in 1 .. Len(Tail(b.queue[s])) : Head(b.queue[s]) < Tail(b.queue[s])[i]
    <2>1. Tail(b.queue[s]) \in Seq(Nat) /\ InOrder(Tail(b.queue[s]), n)
      BY <1>1, <1>7, RestIsLater
    <2>2. LocalOrdered(LocalRecv(b, s), n)
      BY <1>1, <2>1 DEF LocalRecv, LocalOrdered, LocalBroker
    <2> QED BY <1>1, <1>7, <2>2, RestIsLater
  <1> QED BY <1>3, <1>4, <1>5, <1>6, <1>7

\* On a connection that is not severed, each subscriber that still listens to the topic
\* either gets the batch behind what waits for it, or is full and counted: no loss is
\* silent, none is counted twice, nobody who listens loses its place, and no other
\* topic's subscriber is touched.
THEOREM LocalLossIsCounted ==
  ASSUME NEW b \in LocalBroker, NEW t \in Topic, NEW batch \in Nat, IsFiniteSet(Subscriber)
  PROVE  LET after == LocalPublish(b, TRUE, t, batch).broker
             here == b.listens[t] \ b.gone
             got == {s \in here : after.queue[s] = Append(b.queue[s], batch)} IN
         /\ Cardinality(got) + after.dropped = Cardinality(here) + b.dropped
         /\ \A s \in here \ got : after.queue[s] = b.queue[s] /\ Len(b.queue[s]) = Capacity
         /\ here \subseteq after.listens[t]
         /\ \A s \in Subscriber \ b.listens[t] : after.queue[s] = b.queue[s]
PROOF
  <1> DEFINE after == LocalPublish(b, TRUE, t, batch).broker
             here == b.listens[t] \ b.gone
             got == {s \in here : after.queue[s] = Append(b.queue[s], batch)}
  <1>1. /\ after.queue = [s \in Subscriber |-> IF s \in Reached(b, t) THEN Append(b.queue[s], batch)
                                               ELSE b.queue[s]]
        /\ after.dropped = b.dropped + Cardinality(Crowded(b, t))
        /\ after.listens = [b.listens EXCEPT ![t] = @ \ b.gone]
    BY DEF LocalPublish
  <1>2. /\ here \in SUBSET Subscriber /\ \A s \in Subscriber : b.queue[s] \in Seq(Nat)
        /\ b.listens \in [Topic -> SUBSET Subscriber] /\ b.dropped \in Nat
    BY DEF LocalBroker
  <1>3. Crowded(b, t) \in SUBSET here /\ Reached(b, t) = here \ Crowded(b, t)
    BY DEF Crowded, Reached
  <1>4. \A s \in Subscriber : Append(b.queue[s], batch) # b.queue[s]
    <2> TAKE s \in Subscriber
    <2>1. Len(Append(b.queue[s], batch)) = Len(b.queue[s]) + 1 /\ Len(b.queue[s]) \in Nat
      BY <1>2, AppendEnds
    <2> QED BY <2>1
  <1> HIDE DEF after
  <1>5. got = Reached(b, t)
    BY <1>1, <1>2, <1>3, <1>4
  <1>6. Cardinality(got) = Cardinality(here) - Cardinality(Crowded(b, t))
    <2>1. IsFiniteSet(here)
      BY <1>2, FS_Subset
    <2>2. here \cap Crowded(b, t) = Crowded(b, t)
      BY <1>3
    <2>3. got = here \ Crowded(b, t)
      BY <1>3, <1>5
    <2> HIDE DEF got, here
    <2>4. Cardinality(here \ Crowded(b, t)) = Cardinality(here) - Cardinality(here \cap Crowded(b, t))
      BY <2>1, FS_Difference
    <2> QED BY <2>2, <2>3, <2>4
  <1>7. Cardinality(here) \in Nat /\ Cardinality(Crowded(b, t)) \in Nat
    BY <1>2, <1>3, FS_Subset, FS_CardinalityType
  <1>8. Cardinality(got) + after.dropped = Cardinality(here) + b.dropped
    <2> HIDE DEF got, here
    <2> QED BY <1>1, <1>2, <1>6, <1>7
  <1>9. \A s \in here \ got : after.queue[s] = b.queue[s] /\ Len(b.queue[s]) = Capacity
    BY <1>1, <1>2, <1>3, <1>5 DEF Crowded
  <1>10. here \subseteq after.listens[t]
    BY <1>1, <1>2
  <1>11. \A s \in Subscriber \ b.listens[t] : after.queue[s] = b.queue[s]
    BY <1>1, <1>3
  <1> QED BY <1>8, <1>9, <1>10, <1>11 DEF after
===============================================================================
