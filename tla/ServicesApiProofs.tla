--------------------------- MODULE ServicesApiProofs ---------------------------
(***************************************************************************)
(* Theorems about a service and the requests of the management API, for    *)
(* any requests, definitions and preconditions, any edits and boots.       *)
(*                                                                         *)
(* Whoever changes anything has the lock (Lined), and what it has in hand  *)
(* when it lets go is what it spawned, retired and read (Hands, Viewed).   *)
(* A PUT that wrote has changed the file from every version it named: it   *)
(* takes somebody else to bring one back (Spent).                          *)
(***************************************************************************)
EXTENDS ServicesApi, Integers, TLAPS, SequenceTheorems

Types ==
    /\ node \in Node
    /\ file \in Text \cup {None}
    /\ loaded \in Loaded \cup {None}
    /\ live \subseteq Graph
    /\ line \in Seq(Request)
    /\ ask \in [Request -> Ask \cup {None}]
    /\ pc \in [Request -> PC]
    /\ hand \in [Request -> Loaded \cup {None}]
    /\ old \in [Request -> Graph \cup {None}]
    /\ diverged \in BOOLEAN
    /\ edits \in Nat

Busy == {"starting", "setting", "retiring"}
InLine == {"waiting"} \cup Busy

\* Who waits or works is in line, once, and who works is its head.
Lined ==
    /\ \A j, k \in DOMAIN line : line[j] = line[k] => j = k
    /\ \A r \in Request : pc[r] \in InLine <=> \E j \in DOMAIN line : line[j] = r
    /\ \A r \in Request : pc[r] \in Busy => Holds(r)

\* A request that was accepted asks for something; a stream changes nothing.
Asked ==
    \A r \in Request :
        /\ pc[r] # "new" => ask[r] \in Ask
        /\ pc[r] = "watching" => ask[r].kind = "watch"

\* A process that is gone serves nobody.
Down ==
    node \in {"down", "exited"} =>
        loaded = None /\ \A r \in Request : pc[r] \in Over \cup {"new"}

\* What a handler that works has spawned, and what it retires.
Hands ==
    \A r \in Request :
        /\ pc[r] \in Busy => hand[r] \in Loaded
        /\ pc[r] = "starting" /\ hand[r].text \notin Autostart => ask[r].kind = "start"
        /\ pc[r] \in {"setting", "retiring"} /\ hand[r].state = "running" =>
              hand[r].graph = r /\ (hand[r].text \notin Autostart => ask[r].kind = "start")
        /\ pc[r] \in {"setting", "retiring"} /\ r \in live => hand[r].state = "running"
        /\ pc[r] = "retiring" => loaded = None
        /\ pc[r] \notin {"retiring", "lost"} => old[r] = None
        /\ pc[r] \in {"new", "validating", "waiting"} => r \notin live

\* The graph of a running service was spawned at boot, or by a request.
Spawner == IsRunning /\ loaded.graph \in Request => pc[loaded.graph] # "new"

\* What the lock's holder is about to set is what the file says, and what is set while
\* nobody works is.
Viewed ==
    ~diverged /\ node \in {"up", "draining"} =>
        /\ \A r \in Request : pc[r] \in Busy => hand[r].text = file
        /\ (\A r \in Request : pc[r] \notin Busy) =>
              IF file = None THEN loaded = None ELSE loaded # None /\ loaded.text = file

\* A graph with threads is listed, or somebody has it in hand or was dropped with it:
\* OnlyDroppedHandlersLeak, graph by graph.
Kept(g) ==
    \/ IsRunning /\ g = loaded.graph
    \/ \E q \in Request : (Holds(q) \/ pc[q] = "lost") /\ g \in {q, old[q]}
NoneLeaks == \A g \in live : Kept(g)

\* A request that may have left version `v`, and whether somebody did so to one that is
\* named: what OneWriterWins excuses.
MayLeave(s, v) ==
    \/ pc[s] = "answered" /\ ask[s].kind = "delete" /\ v = None
    \/ pc[s] \in Busy \cup {"answered", "lost"} /\ ask[s].kind = "put" /\ v = ask[s].text
    \/ pc[s] = "refused" /\ ask[s].kind = "put" /\ v = Torn
BroughtBack(match) == \E s \in Request, v \in Named(match) : MayLeave(s, v)
OneWins ==
    edits = 0 =>
        \A q, r \in Request :
            q # r /\ Wrote(q) /\ Wrote(r) /\ ask[q].match = ask[r].match =>
                Star \in ask[r].match \/ BroughtBack(ask[r].match)

\* The file is a version that a PUT overwrote only if somebody brought it back.
Spent ==
    edits = 0 =>
        \A r \in Request :
            Wrote(r) /\ Star \notin ask[r].match /\ file \in Named(ask[r].match) =>
                BroughtBack(ask[r].match)

Inductive ==
    /\ Types /\ Lined /\ Asked /\ Down /\ Hands /\ Spawner /\ OnlyStartOverrides
    /\ NoneLeaks /\ Viewed /\ Spent /\ OneWins

USE DEF reqVars

-----------------------------------------------------------------------------
(* The line.                                                               *)

\* A handler that changes nothing about being in line leaves the line in order.
LEMMA StaysOut ==
  ASSUME Types, Lined, NEW r \in Request, NEW p \in PC \ InLine, pc[r] \notin InLine,
         pc' = [pc EXCEPT ![r] = p], line' = line
  PROVE  Lined' /\ \A q \in Request : Holds(q)' <=> Holds(q)
PROOF
  <1>1. \A q \in Request : pc'[q] = IF q = r THEN p ELSE pc[q]
    BY DEF Types
  <1>2. \A q \in Request : /\ pc'[q] \in InLine <=> pc[q] \in InLine
                           /\ pc'[q] \in Busy <=> pc[q] \in Busy
    BY <1>1 DEF InLine
  <1> QED  BY <1>2 DEF Lined, Holds

\* Nor does one that has the lock and keeps it.
LEMMA StaysIn ==
  ASSUME Types, Lined, NEW r \in Request, NEW p \in InLine, pc[r] \in InLine, Holds(r),
         pc' = [pc EXCEPT ![r] = p], line' = line
  PROVE  Lined' /\ \A q \in Request : Holds(q)' <=> Holds(q)
PROOF
  <1>1. \A q \in Request : pc'[q] = IF q = r THEN p ELSE pc[q]
    BY DEF Types
  <1>2. \A q \in Request : pc'[q] \in InLine <=> pc[q] \in InLine
    BY <1>1
  <1>3. \A q \in Request : pc'[q] \in Busy => Holds(q)
    BY <1>1 DEF Lined
  <1> QED  BY <1>2, <1>3 DEF Lined, Holds

\* Who asks for the lock waits behind everybody else.
LEMMA Joins ==
  ASSUME Types, Lined, NEW r \in Request, pc[r] \notin InLine,
         pc' = [pc EXCEPT ![r] = "waiting"], line' = Append(line, r)
  PROVE  /\ line' \in Seq(Request) /\ Lined'
         /\ \A q \in Request : q # r => (Holds(q) => Holds(q)')
PROOF
  <1>1. \A q \in Request : pc'[q] = IF q = r THEN "waiting" ELSE pc[q]
    BY DEF Types
  <1>2. /\ line \in Seq(Request) /\ line' \in Seq(Request)
        /\ Len(line') = Len(line) + 1 /\ line'[Len(line) + 1] = r
        /\ \A j \in 1 .. Len(line) : line'[j] = line[j]
    BY DEF Types
  <1>3. \A j \in DOMAIN line : line[j] # r
    BY DEF Lined
  <1>4. \A j, k \in DOMAIN line' : line'[j] = line'[k] => j = k
    BY <1>2, <1>3 DEF Lined
  <1>5. \A q \in Request : (\E j \in DOMAIN line' : line'[j] = q)
                              <=> q = r \/ \E j \in DOMAIN line : line[j] = q
    BY <1>2
  <1>6. \A q \in Request : Holds(q) => Holds(q)'
    BY <1>2 DEF Holds
  <1>7. \A q \in Request : /\ pc'[q] \in InLine <=> q = r \/ pc[q] \in InLine
                           /\ pc'[q] \in Busy => pc[q] \in Busy
    BY <1>1 DEF InLine, Busy
  <1> QED  BY <1>2, <1>4, <1>5, <1>6, <1>7 DEF Lined

\* The lock is handed to the next.
LEMMA HandsOn ==
  ASSUME Types, Lined, NEW r \in Request, NEW p \in PC \ InLine, pc[r] \in InLine, Holds(r),
         pc' = [pc EXCEPT ![r] = p], line' = Tail(line)
  PROVE  /\ line' \in Seq(Request) /\ Lined'
         /\ \A q \in Request : q # r => ~Holds(q) /\ pc[q] \notin Busy
PROOF
  <1>1. \A q \in Request : pc'[q] = IF q = r THEN p ELSE pc[q]
    BY DEF Types
  <1>2. /\ line \in Seq(Request) /\ line # <<>> /\ line[1] = r
        /\ line' \in Seq(Request) /\ Len(line') = Len(line) - 1
        /\ \A j \in 1 .. Len(line) - 1 : line'[j] = line[j + 1]
    BY DEF Types, Holds
  <1>3. \A q \in Request : q # r => ~Holds(q) /\ pc[q] \notin Busy
    BY DEF Holds, Lined
  <1>4. \A j, k \in DOMAIN line' : line'[j] = line'[k] => j = k
    BY <1>2 DEF Lined
  <1>5. \A q \in Request : (\E j \in DOMAIN line' : line'[j] = q)
                              <=> q # r /\ \E j \in DOMAIN line : line[j] = q
    <2> SUFFICES ASSUME NEW q \in Request
                 PROVE  (\E j \in DOMAIN line' : line'[j] = q)
                              <=> q # r /\ \E j \in DOMAIN line : line[j] = q
      OBVIOUS
    <2>1. ASSUME NEW j \in DOMAIN line', line'[j] = q
          PROVE  q # r /\ \E k \in DOMAIN line : line[k] = q
      <3>1. j + 1 \in DOMAIN line /\ line[j + 1] = q /\ 1 \in DOMAIN line /\ j + 1 # 1
        BY <1>2, <2>1
      <3> QED  BY <1>2, <3>1 DEF Lined
    <2>2. ASSUME q # r, NEW j \in DOMAIN line, line[j] = q
          PROVE  \E k \in DOMAIN line' : line'[k] = q
      <3>1. j # 1 /\ j \in 1 .. Len(line)
        BY <1>2, <2>2
      <3>2. j - 1 \in DOMAIN line' /\ line'[j - 1] = q
        BY <1>2, <2>2, <3>1
      <3> QED  BY <3>2
    <2> QED  BY <2>1, <2>2
  <1>6. \A q \in Request : /\ pc'[q] \in InLine <=> q # r /\ pc[q] \in InLine
                           /\ pc'[q] \notin Busy
    BY <1>1, <1>3 DEF InLine
  <1> QED  BY <1>2, <1>3, <1>4, <1>5, <1>6 DEF Lined

\* What stays of a sequence from which one element is taken.
LEMMA Removed ==
  ASSUME NEW S, NEW s \in Seq(S), NEW k \in 1 .. Len(s)
  PROVE  /\ RemoveAt(s, k) \in Seq(S) /\ Len(RemoveAt(s, k)) = Len(s) - 1
         /\ \A j \in 1 .. Len(s) - 1 : RemoveAt(s, k)[j] = IF j < k THEN s[j] ELSE s[j + 1]
PROOF
  <1> DEFINE a == SubSeq(s, 1, k - 1)
             b == SubSeq(s, k + 1, Len(s))
  <1>1. Len(s) \in Nat /\ k \in Int /\ 1 <= k /\ k <= Len(s) /\ \A i \in 1 .. Len(s) : s[i] \in S
    BY LenProperties, ElementOfSeq
  <1>2. /\ a \in Seq(S) /\ Len(a) = k - 1
        /\ \A j \in 1 .. k - 1 : a[j] = s[j]
    <2>1. /\ a \in Seq(S) /\ Len(a) = IF 1 <= k - 1 THEN k - 1 - 1 + 1 ELSE 0
          /\ \A j \in 1 .. k - 1 - 1 + 1 : a[j] = s[1 + j - 1]
      BY <1>1, SubSeqProperties
    <2> HIDE DEF a
    <2> QED  BY <1>1, <2>1
  <1>3. /\ b \in Seq(S) /\ Len(b) = Len(s) - k
        /\ \A j \in 1 .. Len(s) - k : b[j] = s[k + j]
    <2>1. /\ b \in Seq(S) /\ Len(b) = IF k + 1 <= Len(s) THEN Len(s) - (k + 1) + 1 ELSE 0
          /\ \A j \in 1 .. Len(s) - (k + 1) + 1 : b[j] = s[k + 1 + j - 1]
      BY <1>1, SubSeqProperties
    <2> HIDE DEF b
    <2> QED  BY <1>1, <2>1
  <1>4. RemoveAt(s, k) = a \o b
    BY DEF RemoveAt
  <1> HIDE DEF a, b
  <1>5. /\ a \o b \in Seq(S) /\ Len(a \o b) = Len(a) + Len(b)
        /\ \A j \in 1 .. Len(a) + Len(b) :
              (a \o b)[j] = IF j <= Len(a) THEN a[j] ELSE b[j - Len(a)]
    BY <1>2, <1>3, ConcatProperties
  <1>6. ASSUME NEW j \in 1 .. Len(s) - 1
        PROVE  (a \o b)[j] = IF j < k THEN s[j] ELSE s[j + 1]
    <2>1. CASE j < k
      BY <1>1, <1>2, <1>3, <1>5, <2>1
    <2>2. CASE j >= k
      <3>1. j - (k - 1) \in 1 .. Len(s) - k /\ k + (j - (k - 1)) = j + 1
        BY <1>1, <2>2
      <3>2. b[j - (k - 1)] = s[j + 1]
        BY <1>3, <3>1
      <3>3. (a \o b)[j] = b[j - (k - 1)]
        BY <1>1, <1>2, <1>3, <1>5, <2>2
      <3>4. j \in Int /\ ~(j < k)
        BY <1>1, <2>2
      <3> QED  BY <3>2, <3>3, <3>4
    <2>3. j < k \/ j >= k
      BY <1>1
    <2> QED  BY <2>1, <2>2, <2>3
  <1> QED  BY <1>1, <1>2, <1>3, <1>4, <1>5, <1>6

\* Who hangs up leaves the line, wherever it was.
LEMMA Abandons ==
  ASSUME Types, Lined, NEW r \in Request, NEW p \in PC \ InLine, pc[r] \in InLine,
         pc' = [pc EXCEPT ![r] = p],
         NEW k \in DOMAIN line, line[k] = r, line' = RemoveAt(line, k)
  PROVE  /\ line' \in Seq(Request) /\ Lined'
         /\ \A q \in Request : q # r => (Holds(q) => Holds(q)')
PROOF
  <1>1. \A q \in Request : pc'[q] = IF q = r THEN p ELSE pc[q]
    BY DEF Types
  <1>2. line \in Seq(Request) /\ k \in 1 .. Len(line) /\ Len(line) \in Nat
    BY LenProperties DEF Types
  <1>3. /\ line' \in Seq(Request) /\ Len(line') = Len(line) - 1
        /\ DOMAIN line' = 1 .. Len(line) - 1
        /\ \A j \in 1 .. Len(line) - 1 : line'[j] = IF j < k THEN line[j] ELSE line[j + 1]
    BY <1>2, Removed, LenProperties
  <1>4. \A i, j \in DOMAIN line' : line'[i] = line'[j] => i = j
    <2> DEFINE at(i) == IF i < k THEN i ELSE i + 1
    <2>1. \A i \in DOMAIN line' : at(i) \in 1 .. Len(line) /\ line'[i] = line[at(i)]
      BY <1>2, <1>3
    <2>2. \A i, j \in DOMAIN line' : at(i) = at(j) => i = j
      BY <1>2, <1>3
    <2>3. DOMAIN line = 1 .. Len(line)
      BY <1>2, LenProperties
    <2> HIDE DEF at
    <2> QED  BY <2>1, <2>2, <2>3 DEF Lined
  <1>5. \A q \in Request : (\E j \in DOMAIN line' : line'[j] = q)
                              <=> q # r /\ \E j \in DOMAIN line : line[j] = q
    <2> SUFFICES ASSUME NEW q \in Request
                 PROVE  (\E j \in DOMAIN line' : line'[j] = q)
                              <=> q # r /\ \E j \in DOMAIN line : line[j] = q
      OBVIOUS
    <2>1. ASSUME NEW j \in DOMAIN line', line'[j] = q
          PROVE  q # r /\ \E i \in DOMAIN line : line[i] = q
      <3> DEFINE i == IF j < k THEN j ELSE j + 1
      <3>1. i \in DOMAIN line /\ line[i] = q /\ i # k
        BY <1>2, <1>3, <2>1
      <3> QED  BY <3>1 DEF Lined
    <2>2. ASSUME q # r, NEW i \in DOMAIN line, line[i] = q
          PROVE  \E j \in DOMAIN line' : line'[j] = q
      <3> DEFINE j == IF i < k THEN i ELSE i - 1
      <3>1. i # k /\ i \in 1 .. Len(line)
        BY <1>2, <2>2
      <3>2. j \in DOMAIN line' /\ line'[j] = q
        BY <1>2, <1>3, <2>2, <3>1
      <3> QED  BY <3>2
    <2> QED  BY <2>1, <2>2
  <1>6. \A q \in Request : q # r => (Holds(q) => Holds(q)')
    BY <1>2, <1>3 DEF Holds
  <1>7. \A q \in Request : /\ pc'[q] \in InLine <=> q # r /\ pc[q] \in InLine
                           /\ pc'[q] \in Busy => q # r /\ pc[q] \in Busy
    BY <1>1 DEF InLine
  <1> QED  BY <1>3, <1>4, <1>5, <1>6, <1>7 DEF Lined

\* Whoever has the lock works alone.
LEMMA Alone ==
  ASSUME Types, Lined, NEW r \in Request, Holds(r)
  PROVE  /\ pc[r] \in InLine
         /\ \A q \in Request : q # r => ~Holds(q) /\ pc[q] \notin Busy
PROOF
  <1>1. 1 \in DOMAIN line /\ line[1] = r
    BY DEF Holds, Types
  <1>2. \A q \in Request : q # r => ~Holds(q) /\ pc[q] \notin Busy
    BY DEF Lined, Holds
  <1> QED  BY <1>1, <1>2 DEF Lined

-----------------------------------------------------------------------------
(* Steps of handlers.                                                      *)

\* Nothing new was written, and nothing that was is forgotten.
LEMMA StillSpent ==
  ASSUME Spent, OneWins, file' = file, edits' = edits,
         \A q \in Request : Wrote(q)' => Wrote(q) /\ ask'[q] = ask[q],
         \A q \in Request : \A v : MayLeave(q, v) => MayLeave(q, v)'
  PROVE  Spent' /\ OneWins'
PROOF
  <1>1. \A m : BroughtBack(m) => BroughtBack(m)'
    BY DEF BroughtBack, Named
  <1>2. Spent'
    BY <1>1 DEF Spent
  <1>3. OneWins'
    BY <1>1 DEF OneWins
  <1> QED  BY <1>2, <1>3

\* A handler whose turn has come or not goes from one place to the next, and nothing else
\* is changed: it arrives, is refused, answers a GET, or is dropped before its turn.
LEMMA MovesOn ==
  ASSUME Inductive, NEW r \in Request, NEW p \in PC \ (Busy \cup {"new"}),
         pc[r] \in {"new", "validating", "waiting", "watching"},
         pc[r] = "watching" => p = "answered",
         pc' = [pc EXCEPT ![r] = p],
         \/ pc[r] # "new" /\ ask' = ask /\ (p = "answered" => ask[r].kind # "put")
         \/ /\ pc[r] = "new" /\ node = "up" /\ p # "answered"
            /\ \E a \in Ask : ask' = [ask EXCEPT ![r] = a],
         p = "watching" => ask'[r].kind = "watch",
         line' \in Seq(Request), Lined',
         \A q \in Request : q # r => (Holds(q) => Holds(q)'),
         hand' \in [Request -> Loaded \cup {None}],
         \A q \in Request : q # r => hand'[q] = hand[q],
         UNCHANGED <<node, file, loaded, live, old, diverged, edits>>
  PROVE  Inductive'
PROOF
  <1> USE DEF Inductive
  <1>1. \A q \in Request : pc'[q] = IF q = r THEN p ELSE pc[q]
    BY DEF Types
  <1>2. /\ ask' \in [Request -> Ask \cup {None}]
        /\ \A q \in Request : q # r => ask'[q] = ask[q]
        /\ ask'[r] \in Ask
        /\ pc[r] # "new" => ask' = ask
    BY DEF Types, Asked
  <1>3. Types'
    BY <1>2 DEF Types
  <1>4. Asked'
    BY <1>1, <1>2 DEF Asked
  <1>5. Down'
    BY <1>1 DEF Down, Over
  <1>6. Hands'
    <2>1. \A q \in Request : q # r => pc'[q] = pc[q] /\ ask'[q] = ask[q] /\ hand'[q] = hand[q]
      BY <1>1, <1>2
    <2>2. pc'[r] = p /\ old[r] = None /\ (p \in {"validating", "waiting"} => r \notin live)
      BY <1>1 DEF Hands
    <2> QED  BY <2>1, <2>2 DEF Hands, Busy
  <1>7. Spawner' /\ OnlyStartOverrides'
    BY <1>1, <1>2 DEF Spawner, OnlyStartOverrides, IsRunning
  <1>8. NoneLeaks'
    <2> SUFFICES ASSUME NEW g \in live PROVE Kept(g)'
      BY DEF NoneLeaks
    <2>1. Kept(g)
      BY DEF NoneLeaks
    <2>2. CASE IsRunning /\ g = loaded.graph
      BY <2>2 DEF Kept, IsRunning
    <2>3. ASSUME NEW q \in Request, Holds(q) \/ pc[q] = "lost", g \in {q, old[q]}
          PROVE  Kept(g)'
      <3>1. CASE q = r
        <4>1. Holds(r)
          BY <2>3, <3>1
        <4>2. pc[r] = "waiting"
          BY <4>1, Alone DEF InLine, Busy
        <4>3. g # r /\ g # old[r]
          BY <4>2, TextAssumption DEF Hands, Types, Graph
        <4> QED  BY <2>3, <3>1, <4>3
      <3>2. CASE q # r
        <4>1. Holds(q)' \/ pc'[q] = "lost"
          BY <1>1, <2>3, <3>2
        <4> QED  BY <2>3, <4>1 DEF Kept
      <3> QED  BY <3>1, <3>2
    <2> QED  BY <2>1, <2>2, <2>3 DEF Kept
  <1>9. Viewed'
    <2>1. \A q \in Request : /\ pc'[q] \in Busy <=> pc[q] \in Busy
                             /\ pc'[q] \in Busy => hand'[q] = hand[q]
      BY <1>1 DEF Busy
    <2> QED  BY <2>1 DEF Viewed
  <1>10. Spent' /\ OneWins'
    <2>1. \A q \in Request : Wrote(q)' => Wrote(q) /\ ask'[q] = ask[q]
      BY <1>1, <1>2 DEF Wrote, Busy
    <2>2. ASSUME NEW q \in Request, NEW v, MayLeave(q, v)
          PROVE  MayLeave(q, v)'
      <3>1. q # r
        BY <2>2 DEF MayLeave, Busy
      <3> QED  BY <1>1, <1>2, <2>2, <3>1 DEF MayLeave
    <2> QED  BY <2>1, <2>2, StillSpent
  <1> QED  BY <1>3, <1>4, <1>5, <1>6, <1>7, <1>8, <1>9, <1>10

\* The same of a handler that had taken nothing in hand and does not now.
LEMMA Moves ==
  ASSUME Inductive, NEW r \in Request, NEW p \in PC \ (Busy \cup {"new"}),
         pc[r] \in {"new", "validating", "waiting", "watching"},
         pc[r] = "watching" => p = "answered",
         pc' = [pc EXCEPT ![r] = p],
         \/ pc[r] # "new" /\ ask' = ask /\ (p = "answered" => ask[r].kind # "put")
         \/ /\ pc[r] = "new" /\ node = "up" /\ p # "answered"
            /\ \E a \in Ask : ask' = [ask EXCEPT ![r] = a],
         p = "watching" => ask'[r].kind = "watch",
         line' \in Seq(Request), Lined',
         \A q \in Request : q # r => (Holds(q) => Holds(q)'),
         UNCHANGED <<node, file, loaded, live, hand, old, diverged, edits>>
  PROVE  Inductive'
PROOF
  <1>1. /\ hand' \in [Request -> Loaded \cup {None}]
        /\ \A q \in Request : q # r => hand'[q] = hand[q]
    BY DEF Inductive, Types
  <1> QED  BY <1>1, MovesOn

\* The entry is there and not None, whatever is set.
LEMMA LoadedIs ==
  /\ None \notin Loaded
  /\ \A l \in Loaded : l.text \in Text /\ (l.state = "running" => l.graph \in Graph)
  /\ \A g \in Graph, t \in Text : Running(g, t) \in Loaded
  /\ \A t \in Text : Stopped(t) \in Loaded /\ Errored(t) \in Loaded
PROOF
  BY LoadedAssumption DEF Loaded, Running, Stopped, Errored

\* A handler whose turn has come takes up what it is going to set, with a graph that it is
\* spawning or without.
LEMMA TakesInHand ==
  ASSUME Inductive, NEW r \in Request, pc[r] = "waiting", Holds(r),
         NEW p \in {"starting", "setting"}, pc' = [pc EXCEPT ![r] = p],
         NEW h \in Loaded, h.state # "running", hand' = [hand EXCEPT ![r] = h],
         live' = IF p = "starting" THEN live \cup {r} ELSE live,
         p = "starting" /\ h.text \notin Autostart => ask[r].kind = "start",
         ~diverged' /\ node \in {"up", "draining"} => h.text = file',
         file' \in Text \cup {None}, diverged' \in BOOLEAN,
         Spent' /\ OneWins',
         UNCHANGED <<node, loaded, line, ask, old, edits>>
  PROVE  Inductive'
PROOF
  <1> USE DEF Inductive
  <1>1. \A q \in Request : /\ pc'[q] = IF q = r THEN p ELSE pc[q]
                           /\ hand'[q] = IF q = r THEN h ELSE hand[q]
    BY DEF Types
  <1>2. \A q \in Request : q # r => ~Holds(q) /\ pc[q] \notin Busy
    BY Alone
  <1>3. Types'
    BY DEF Types, PC, Graph
  <1>4. Lined' /\ \A q \in Request : Holds(q)' <=> Holds(q)
    BY StaysIn DEF InLine, Busy
  <1>5. Asked' /\ Spawner' /\ OnlyStartOverrides'
    BY <1>1 DEF Asked, Spawner, OnlyStartOverrides, IsRunning
  <1>6. Down'
    BY <1>1 DEF Down, Over
  <1>7. Hands'
    <2>1. old[r] = None /\ r \notin live
      BY DEF Hands
    <2>2. ASSUME NEW q \in Request, q # r
          PROVE  /\ pc'[q] = pc[q] /\ hand'[q] = hand[q] /\ pc[q] \notin Busy
                 /\ q \in live' => q \in live
      BY <1>1, <1>2, <2>2
    <2>3. /\ pc'[r] = p /\ hand'[r] = h
          /\ p = "setting" => r \notin live'
      BY <1>1, <2>1
    <2> QED  BY <2>1, <2>2, <2>3 DEF Hands, Busy
  <1>8. NoneLeaks'
    <2> SUFFICES ASSUME NEW g \in live' PROVE Kept(g)'
      BY DEF NoneLeaks
    <2>1. CASE g = r
      BY <1>4, <2>1 DEF Kept
    <2>2. CASE g # r
      <3>1. Kept(g)
        BY <2>2 DEF NoneLeaks
      <3> QED  BY <1>1, <1>4, <3>1 DEF Kept, IsRunning
    <2> QED  BY <2>1, <2>2
  <1>9. Viewed'
    <2>1. pc'[r] \in Busy /\ \A q \in Request : pc'[q] \in Busy => q = r
      BY <1>1, <1>2 DEF Busy
    <2> QED  BY <1>1, <2>1 DEF Viewed
  <1> QED  BY <1>3, <1>4, <1>5, <1>6, <1>7, <1>8, <1>9

\* A PUT that holds the lock and finds a version it names writes: another that named the
\* same one and wrote before needs somebody who brought it back.
LEMMA PutKeeps ==
  ASSUME Inductive, NEW r \in Request, PutWrites(r)
  PROVE  Inductive'
PROOF
  <1> USE DEF Inductive
  <1> DEFINE t == ask[r].text
             p == IF t \in Autostart THEN "starting" ELSE "setting"
  <1>1. /\ pc[r] = "waiting" /\ Holds(r) /\ ask[r].kind = "put" /\ Precondition(ask[r].match)
        /\ file' = t /\ diverged' = FALSE
        /\ pc' = [pc EXCEPT ![r] = p] /\ hand' = [hand EXCEPT ![r] = Stopped(t)]
        /\ live' = IF p = "starting" THEN live \cup {r} ELSE live
        /\ UNCHANGED <<node, loaded, line, ask, old, edits>>
    BY DEF PutWrites, At, Apply, Goto
  <1>2. ask[r] \in Ask /\ t \in Text
    BY <1>1, AskAssumption DEF Asked
  <1>3. \A q \in Request : pc'[q] = IF q = r THEN p ELSE pc[q]
    BY <1>1 DEF Types
  <1>4. \A q \in Request : Wrote(q)' => q = r \/ Wrote(q)
    BY <1>1, <1>3 DEF Wrote
  <1>5. \A q \in Request : \A v : MayLeave(q, v) => MayLeave(q, v)'
    BY <1>1, <1>3 DEF MayLeave, Busy
  <1>6. \A m : BroughtBack(m) => BroughtBack(m)'
    BY <1>5 DEF BroughtBack, Named
  <1>7. MayLeave(r, t)'
    BY <1>1, <1>3 DEF MayLeave, Busy
  <1>8. Spent'
    BY <1>1, <1>7 DEF Spent, BroughtBack, Named
  <1>9. OneWins'
    <2>1. ASSUME edits = 0, NEW q \in Request, NEW s \in Request, q # s,
                 Wrote(q)', Wrote(s)', NEW m, m = ask[q].match, m = ask[s].match, Star \notin m
          PROVE  BroughtBack(m)
      <3>1. CASE Wrote(q) /\ Wrote(s)
        BY <2>1, <3>1 DEF OneWins
      <3>2. CASE q = r \/ s = r
        <4>1. PICK w \in {q, s} : Wrote(w)
          BY <1>4, <2>1, <3>2
        <4>2. m = ask[r].match /\ m = ask[w].match
          BY <2>1, <3>2
        <4>3. file \in Named(m)
          BY <1>1, <2>1, <4>2 DEF Precondition, Named
        <4> QED  BY <2>1, <4>1, <4>2, <4>3 DEF Spent
      <3> QED  BY <1>4, <2>1, <3>1, <3>2
    <2>2. \A m : BroughtBack(m) => \E s \in Request, v \in Named(m) : MayLeave(s, v)'
      BY <1>5 DEF BroughtBack
    <2> QED  BY <1>1, <2>1, <2>2 DEF OneWins, BroughtBack, Named
  <1>10. Stopped(t) \in Loaded /\ Stopped(t).state # "running" /\ Stopped(t).text = t
    BY <1>2, LoadedIs DEF Stopped
  <1>11. p = "starting" /\ Stopped(t).text \notin Autostart => ask[r].kind = "start"
    BY <1>10
  <1> HIDE DEF t
  <1>12. /\ p \in {"starting", "setting"} /\ file' \in Text \cup {None}
         /\ diverged' \in BOOLEAN
    BY <1>1, <1>2
  <1> HIDE DEF p
  <1> QED  BY <1>1, <1>8, <1>9, <1>10, <1>11, <1>12, TakesInHand

\* A request that writes nothing takes up what it read, or what the entry has.
LEMMA ReadsInHand ==
  ASSUME Inductive, NEW r \in Request, Reloads(r) \/ StopSets(r), pc'[r] # "refused"
  PROVE  Inductive'
PROOF
  <1> USE DEF Inductive
  <1>1. /\ pc[r] = "waiting" /\ Holds(r) /\ ask[r].kind \in {"start", "reload", "stop"}
        /\ UNCHANGED <<node, file, loaded, ask, old, edits, line>>
    BY DEF Reloads, StopSets, At, Return, Goto, Types, PC
  <1>2. PICK h \in Loaded, p \in {"starting", "setting"} :
           /\ h.state # "running" /\ pc' = [pc EXCEPT ![r] = p] /\ hand' = [hand EXCEPT ![r] = h]
           /\ live' = IF p = "starting" THEN live \cup {r} ELSE live
           /\ p = "starting" /\ h.text \notin Autostart => ask[r].kind = "start"
           /\ ~diverged' /\ node \in {"up", "draining"} => h.text = file
           /\ diverged' \in BOOLEAN
    <2>1. CASE Reloads(r)
      <3>1. file \in Text
        BY <2>1 DEF Reloads, Types
      <3>2. CASE Apply(r, file, ask[r].kind = "start") /\ diverged' = FALSE
        <4> DEFINE p == IF ask[r].kind = "start" \/ file \in Autostart THEN "starting" ELSE "setting"
        <4>1. /\ Stopped(file) \in Loaded /\ Stopped(file).state # "running"
              /\ Stopped(file).text = file
          BY <3>1, LoadedIs DEF Stopped
        <4>2. /\ pc' = [pc EXCEPT ![r] = p] /\ hand' = [hand EXCEPT ![r] = Stopped(file)]
              /\ live' = IF p = "starting" THEN live \cup {r} ELSE live
          BY <3>2 DEF Apply, Goto
        <4>3. p \in {"starting", "setting"} /\ (p = "starting" /\ file \notin Autostart => ask[r].kind = "start")
          OBVIOUS
        <4> HIDE DEF p
        <4> QED  BY <3>2, <4>1, <4>2, <4>3
      <3>3. CASE /\ hand' = [hand EXCEPT ![r] = Errored(file)] /\ Goto(r, "setting")
                 /\ UNCHANGED live /\ diverged' = FALSE
        <4>1. /\ Errored(file) \in Loaded /\ Errored(file).state # "running"
              /\ Errored(file).text = file
          BY <3>1, LoadedIs DEF Errored
        <4> QED  BY <3>3, <4>1 DEF Goto
      <3> QED  BY <2>1, <3>2, <3>3 DEF Reloads
    <2>2. CASE StopSets(r)
      <3>0. pc' # [pc EXCEPT ![r] = "refused"]
        BY DEF Types
      <3>1. /\ loaded # None /\ hand' = [hand EXCEPT ![r] = Stopped(loaded.text)]
            /\ pc' = [pc EXCEPT ![r] = "setting"] /\ UNCHANGED <<live, diverged>>
        BY <2>2, <3>0 DEF StopSets, Return, Goto
      <3>2. loaded \in Loaded /\ loaded.text \in Text
        BY <3>1, LoadedIs DEF Types
      <3>3. /\ Stopped(loaded.text) \in Loaded /\ Stopped(loaded.text).state # "running"
            /\ Stopped(loaded.text).text = loaded.text
        BY <3>2, LoadedIs DEF Stopped
      <3>4. \A q \in Request : pc[q] \notin Busy
        BY <1>1, Alone DEF Busy
      <3>5. ~diverged /\ node \in {"up", "draining"} => loaded.text = file
        BY <3>1, <3>4 DEF Viewed
      <3>6. diverged' \in BOOLEAN /\ (~diverged' <=> ~diverged)
        BY <3>1 DEF Types
      <3> QED  BY <3>1, <3>3, <3>5, <3>6
    <2> QED  BY <2>1, <2>2
  <1>3. Spent' /\ OneWins'
    <2>1. \A q \in Request : pc'[q] = IF q = r THEN p ELSE pc[q]
      BY <1>2 DEF Types
    <2>2. \A q \in Request : Wrote(q)' => Wrote(q) /\ ask'[q] = ask[q]
      BY <1>1, <2>1 DEF Wrote
    <2>3. \A q \in Request : \A v : MayLeave(q, v) => MayLeave(q, v)'
      BY <1>1, <2>1 DEF MayLeave, Busy
    <2> QED  BY <1>1, <2>2, <2>3, StillSpent
  <1>4. file' \in Text \cup {None}
    BY <1>1 DEF Types
  <1> QED  BY <1>1, <1>2, <1>3, <1>4, TakesInHand

\* A handler that was never at work lets go of the lock, of a file that it removed with its
\* entry or that its write tore.
LEMMA LetsGo ==
  ASSUME Inductive, NEW r \in Request, pc[r] = "waiting", Holds(r),
         NEW p \in {"refused", "answered"}, Return(r, p),
         file' \in Text \cup {None}, diverged' \in BOOLEAN,
         loaded' = loaded \/ (loaded' = None /\ ~IsRunning),
         ~diverged' => file' = None /\ loaded' = None,
         Spent' /\ OneWins',
         UNCHANGED <<node, live, ask, hand, old, edits>>
  PROVE  Inductive'
PROOF
  <1> USE DEF Inductive
  <1>1. pc' = [pc EXCEPT ![r] = p] /\ line' = Tail(line)
    BY DEF Return, Goto
  <1>2. \A q \in Request : pc'[q] = IF q = r THEN p ELSE pc[q]
    BY <1>1 DEF Types
  <1>3. /\ line' \in Seq(Request) /\ Lined'
        /\ \A q \in Request : q # r => ~Holds(q) /\ pc[q] \notin Busy
    <2>1. p \in PC \ InLine /\ pc[r] \in InLine
      BY DEF PC, InLine, Busy
    <2> QED  BY <1>1, <2>1, HandsOn
  <1>4. Types'
    BY <1>1, <1>3 DEF Types, PC
  <1>5. Asked' /\ Down' /\ Spawner' /\ OnlyStartOverrides'
    BY <1>2 DEF Asked, Down, Over, Spawner, OnlyStartOverrides, IsRunning
  <1>6. Hands'
    <2>1. old[r] = None
      BY DEF Hands
    <2>2. \A q \in Request : q # r => pc'[q] = pc[q] /\ pc[q] \notin Busy
      BY <1>2, <1>3
    <2> QED  BY <1>2, <2>1, <2>2 DEF Hands, Busy
  <1>7. NoneLeaks'
    <2> SUFFICES ASSUME NEW g \in live PROVE Kept(g)'
      BY DEF NoneLeaks
    <2>1. Kept(g) /\ g # r /\ g # old[r]
      BY TextAssumption DEF NoneLeaks, Hands, Types, Graph
    <2> QED  BY <1>2, <1>3, <2>1 DEF Kept, IsRunning
  <1>8. Viewed'
    <2>1. \A q \in Request : pc'[q] \notin Busy
      BY <1>2, <1>3 DEF Busy
    <2> QED  BY <2>1 DEF Viewed
  <1> QED  BY <1>3, <1>4, <1>5, <1>6, <1>7, <1>8

\* A write that tears the file leaves what no PUT that wrote before it named, but for the
\* torn file itself.
LEMMA FailKeeps ==
  ASSUME Inductive, NEW r \in Request, PutWriteFails(r), file' # file
  PROVE  Inductive'
PROOF
  <1> USE DEF Inductive
  <1>1. /\ pc[r] = "waiting" /\ Holds(r) /\ ask[r].kind = "put" /\ Return(r, "refused")
        /\ file' = Torn /\ diverged' = TRUE
        /\ UNCHANGED <<node, loaded, live, ask, hand, old, edits>>
    BY DEF PutWriteFails, At
  <1>2. \A q \in Request : pc'[q] = IF q = r THEN "refused" ELSE pc[q]
    BY <1>1 DEF Return, Goto, Types
  <1>3. \A q \in Request : Wrote(q)' => Wrote(q)
    BY <1>1, <1>2 DEF Wrote
  <1>4. \A q \in Request : \A v : MayLeave(q, v) => MayLeave(q, v)'
    BY <1>1, <1>2 DEF MayLeave, Busy
  <1>5. MayLeave(r, Torn)'
    BY <1>1, <1>2 DEF MayLeave
  <1>6. Spent'
    BY <1>1, <1>5 DEF Spent, BroughtBack, Named
  <1>7. OneWins'
    BY <1>1, <1>3, <1>4 DEF OneWins, BroughtBack, Named
  <1>8. file' \in Text \cup {None} /\ diverged' \in BOOLEAN
    BY <1>1, TextAssumption
  <1> QED  BY <1>1, <1>6, <1>7, <1>8, LetsGo

\* Whoever deletes leaves no file for the next to create, and no entry.
LEMMA DeleteKeeps ==
  ASSUME Inductive, NEW r \in Request, Deletes(r)
  PROVE  Inductive'
PROOF
  <1> USE DEF Inductive
  <1>1. /\ pc[r] = "waiting" /\ Holds(r) /\ ask[r].kind = "delete" /\ Return(r, "answered")
        /\ file' = None /\ diverged' = FALSE /\ ~IsRunning /\ loaded' = None
        /\ UNCHANGED <<node, live, ask, hand, old, edits>>
    BY DEF Deletes, At
  <1>2. \A q \in Request : pc'[q] = IF q = r THEN "answered" ELSE pc[q]
    BY <1>1 DEF Return, Goto, Types
  <1>3. \A q \in Request : Wrote(q)' => Wrote(q)
    BY <1>1, <1>2 DEF Wrote
  <1>4. \A q \in Request : \A v : MayLeave(q, v) => MayLeave(q, v)'
    BY <1>1, <1>2 DEF MayLeave, Busy
  <1>5. MayLeave(r, None)'
    BY <1>1, <1>2 DEF MayLeave
  <1>6. Spent'
    BY <1>1, <1>5 DEF Spent, BroughtBack, Named
  <1>7. OneWins'
    BY <1>1, <1>3, <1>4 DEF OneWins, BroughtBack, Named
  <1> QED  BY <1>1, <1>6, <1>7, LetsGo

\* The handler at work goes on, answers or is dropped: what it wrote stays written.
LEMMA WorkGoesOn ==
  ASSUME Inductive, NEW r \in Request, pc[r] \in Busy,
         NEW p \in Busy \cup {"answered", "lost"}, pc' = [pc EXCEPT ![r] = p],
         UNCHANGED <<file, ask, edits>>
  PROVE  /\ \A q \in Request : pc'[q] = IF q = r THEN p ELSE pc[q]
         /\ \A q \in Request : q # r => ~Holds(q) /\ pc[q] \notin Busy
         /\ Holds(r) /\ Asked' /\ Spent' /\ OneWins'
PROOF
  <1> USE DEF Inductive
  <1>1. \A q \in Request : pc'[q] = IF q = r THEN p ELSE pc[q]
    BY DEF Types
  <1>2. Holds(r) /\ \A q \in Request : q # r => ~Holds(q) /\ pc[q] \notin Busy
    BY Alone DEF Lined
  <1>3. Asked'
    BY <1>1 DEF Asked, Busy
  <1>4. \A q \in Request : Wrote(q)' => Wrote(q) /\ ask'[q] = ask[q]
    BY <1>1 DEF Wrote, Busy
  <1>5. \A q \in Request : \A v : MayLeave(q, v) => MayLeave(q, v)'
    BY <1>1 DEF MayLeave, Busy
  <1>6. Spent' /\ OneWins'
    BY <1>4, <1>5, StillSpent
  <1> QED  BY <1>1, <1>2, <1>3, <1>6

\* The graph is up, or nothing of it is left.
LEMMA SpawnKeeps ==
  ASSUME Inductive, NEW r \in Request, Spawned(r)
  PROVE  Inductive'
PROOF
  <1> USE DEF Inductive
  <1>1. /\ pc[r] = "starting" /\ pc' = [pc EXCEPT ![r] = "setting"]
        /\ UNCHANGED <<node, file, loaded, line, ask, old, diverged, edits>>
    BY DEF Spawned, Goto
  <1>2. hand[r] \in Loaded /\ hand[r].text \in Text /\ r \in Graph
    BY <1>1, LoadedIs DEF Hands, Busy, Graph
  <1>3. PICK h \in Loaded :
           /\ hand' = [hand EXCEPT ![r] = h] /\ h.text = hand[r].text
           /\ \/ h.state = "running" /\ h.graph = r /\ live' = live
              \/ h.state # "running" /\ live' = live \ {r}
    <2>1. hand[r] = hand[r] /\ hand \in [Request -> Loaded \cup {None}]
      BY DEF Types
    <2>2. CASE hand' = [hand EXCEPT ![r] = Running(r, hand[r].text)] /\ live' = live
      <3>1. /\ Running(r, hand[r].text) \in Loaded /\ Running(r, hand[r].text).text = hand[r].text
            /\ Running(r, hand[r].text).state = "running" /\ Running(r, hand[r].text).graph = r
        BY <1>2, LoadedIs DEF Running
      <3> QED  BY <2>2, <3>1
    <2>3. CASE hand' = [hand EXCEPT ![r] = Errored(hand[r].text)] /\ live' = live \ {r}
      <3>1. /\ Errored(hand[r].text) \in Loaded /\ Errored(hand[r].text).text = hand[r].text
            /\ Errored(hand[r].text).state # "running"
        BY <1>2, LoadedIs DEF Errored
      <3> QED  BY <2>3, <3>1
    <2> QED  BY <2>1, <2>2, <2>3 DEF Spawned
  <1>4. /\ \A q \in Request : pc'[q] = IF q = r THEN "setting" ELSE pc[q]
        /\ \A q \in Request : q # r => ~Holds(q) /\ pc[q] \notin Busy
        /\ Holds(r) /\ Asked' /\ Spent' /\ OneWins'
    <2>1. pc[r] \in Busy /\ "setting" \in Busy \cup {"answered", "lost"}
      BY <1>1 DEF Busy
    <2> QED  BY <1>1, <2>1, WorkGoesOn
  <1>5. \A q \in Request : hand'[q] = IF q = r THEN h ELSE hand[q]
    BY <1>3 DEF Types
  <1>6. Types'
    BY <1>1, <1>3 DEF Types, PC
  <1>7. Lined' /\ \A q \in Request : Holds(q)' <=> Holds(q)
    BY <1>1, <1>4, StaysIn DEF InLine, Busy
  <1>8. Down' /\ Spawner' /\ OnlyStartOverrides'
    BY <1>1, <1>4 DEF Down, Over, Spawner, OnlyStartOverrides, IsRunning
  <1>9. Hands'
    <2>1. old[r] = None /\ (h.text \notin Autostart => ask[r].kind = "start")
      BY <1>1, <1>3 DEF Hands
    <2>2. ASSUME NEW q \in Request, q # r
          PROVE  /\ pc'[q] = pc[q] /\ hand'[q] = hand[q] /\ pc[q] \notin Busy
                 /\ q \in live' => q \in live
      BY <1>3, <1>4, <1>5, <2>2
    <2>3. /\ pc'[r] = "setting" /\ hand'[r] = h /\ (r \in live' => h.state = "running")
          /\ h.state = "running" => h.graph = r
      BY <1>3, <1>4, <1>5
    <2> QED  BY <1>1, <2>1, <2>2, <2>3 DEF Hands, Busy
  <1>10. NoneLeaks'
    BY <1>1, <1>3, <1>4, <1>7 DEF NoneLeaks, Kept, IsRunning
  <1>11. Viewed'
    <2>1. pc[r] \in Busy /\ pc'[r] \in Busy /\ \A q \in Request : pc'[q] \in Busy => q = r
      BY <1>1, <1>4 DEF Busy
    <2> QED  BY <1>1, <1>3, <1>5, <2>1 DEF Viewed
  <1> QED  BY <1>4, <1>6, <1>7, <1>8, <1>9, <1>10, <1>11

\* The running graph leaves the entry for the hands of who retires it.
LEMMA RetireKeeps ==
  ASSUME Inductive, NEW r \in Request, Sets(r), IsRunning
  PROVE  Inductive'
PROOF
  <1> USE DEF Inductive
  <1>1. /\ pc[r] = "setting" /\ pc' = [pc EXCEPT ![r] = "retiring"] /\ loaded' = None
        /\ old' = [old EXCEPT ![r] = loaded.graph]
        /\ UNCHANGED <<node, file, live, line, hand, ask, diverged, edits>>
    BY DEF Sets, Goto
  <1>2. /\ \A q \in Request : pc'[q] = IF q = r THEN "retiring" ELSE pc[q]
        /\ \A q \in Request : q # r => ~Holds(q) /\ pc[q] \notin Busy
        /\ Holds(r) /\ Asked' /\ Spent' /\ OneWins'
    <2>1. pc[r] \in Busy /\ "retiring" \in Busy \cup {"answered", "lost"}
      BY <1>1 DEF Busy
    <2> QED  BY <1>1, <2>1, WorkGoesOn
  <1>3. loaded.graph \in Graph
    BY LoadedIs DEF IsRunning, Types
  <1>4. \A q \in Request : old'[q] = IF q = r THEN loaded.graph ELSE old[q]
    BY <1>1 DEF Types
  <1>5. Types'
    BY <1>1, <1>3 DEF Types, PC
  <1>6. Lined' /\ \A q \in Request : Holds(q)' <=> Holds(q)
    BY <1>1, <1>2, StaysIn DEF InLine, Busy
  <1>7. Down' /\ Spawner' /\ OnlyStartOverrides'
    BY <1>1, <1>2 DEF Down, Over, Spawner, OnlyStartOverrides, IsRunning
  <1>8. Hands'
    BY <1>1, <1>2, <1>4 DEF Hands, Busy
  <1>9. NoneLeaks'
    <2> SUFFICES ASSUME NEW g \in live PROVE Kept(g)'
      BY <1>1 DEF NoneLeaks
    <2>1. old[r] = None /\ None \notin Graph /\ g \in Graph
      BY <1>1, TextAssumption DEF Hands, Types, Graph
    <2>2. Kept(g)
      BY DEF NoneLeaks
    <2>3. CASE IsRunning /\ g = loaded.graph
      BY <1>2, <1>4, <1>6, <2>3 DEF Kept
    <2>4. ASSUME NEW q \in Request, Holds(q) \/ pc[q] = "lost", g \in {q, old[q]}
          PROVE  Kept(g)'
      <3>1. CASE q = r
        BY <1>2, <1>6, <2>1, <2>4, <3>1 DEF Kept
      <3>2. CASE q # r
        BY <1>2, <1>4, <1>6, <2>4, <3>2 DEF Kept
      <3> QED  BY <3>1, <3>2
    <2> QED  BY <2>2, <2>3, <2>4 DEF Kept
  <1>10. Viewed'
    <2>1. pc[r] \in Busy /\ pc'[r] \in Busy /\ \A q \in Request : pc'[q] \in Busy => q = r
      BY <1>1, <1>2 DEF Busy
    <2> QED  BY <1>1, <2>1 DEF Viewed
  <1> QED  BY <1>2, <1>5, <1>6, <1>7, <1>8, <1>9, <1>10

\* What the handler had in hand is the entry, with the graph it spawned; what it retired is
\* gone.
LEMMA InsertKeeps ==
  ASSUME Inductive, NEW r \in Request, pc[r] \in {"setting", "retiring"}, ~IsRunning,
         Inserts(r), live' = live \ {old[r]},
         UNCHANGED <<node, file, ask, diverged, edits>>
  PROVE  Inductive'
PROOF
  <1> USE DEF Inductive
  <1>1. /\ loaded' = hand[r] /\ hand' = [hand EXCEPT ![r] = None]
        /\ old' = [old EXCEPT ![r] = None]
        /\ pc' = [pc EXCEPT ![r] = "answered"] /\ line' = Tail(line)
    BY DEF Inserts, Return, Goto
  <1>2. /\ \A q \in Request : pc'[q] = IF q = r THEN "answered" ELSE pc[q]
        /\ \A q \in Request : q # r => ~Holds(q) /\ pc[q] \notin Busy
        /\ Holds(r) /\ Asked' /\ Spent' /\ OneWins'
    <2>1. pc[r] \in Busy /\ "answered" \in Busy \cup {"answered", "lost"}
      BY DEF Busy
    <2> QED  BY <1>1, <2>1, WorkGoesOn
  <1>3. /\ hand[r] \in Loaded /\ hand[r] # None /\ hand[r].text \in Text
        /\ hand[r].state = "running" =>
              hand[r].graph = r /\ (hand[r].text \notin Autostart => ask[r].kind = "start")
        /\ r \in live => hand[r].state = "running"
    BY LoadedIs DEF Hands, Busy
  <1>4. line' \in Seq(Request) /\ Lined'
    <2>1. "answered" \in PC \ InLine /\ pc[r] \in InLine
      BY DEF PC, InLine, Busy
    <2> QED  BY <1>1, <1>2, <2>1, HandsOn
  <1>5. Types'
    BY <1>1, <1>3, <1>4 DEF Types, PC
  <1>6. Down'
    BY <1>2 DEF Down, Over
  <1>7. \A q \in Request : old'[q] = IF q = r THEN None ELSE old[q]
    BY <1>1 DEF Types
  <1>8. Hands'
    <2>1. \A q \in Request : pc'[q] \notin Busy
      BY <1>2 DEF Busy
    <2>2. \A q \in Request : q # r => pc'[q] = pc[q] /\ old'[q] = old[q]
      BY <1>2, <1>7
    <2>3. pc'[r] = "answered" /\ old'[r] = None
      BY <1>2, <1>7
    <2> QED  BY <2>1, <2>2, <2>3 DEF Hands, Busy
  <1>9. IsRunning' => loaded'.graph = r /\ hand[r].state = "running" /\ loaded' = hand[r]
    BY <1>1, <1>3 DEF IsRunning
  <1>10. Spawner' /\ OnlyStartOverrides'
    BY <1>1, <1>2, <1>3, <1>9 DEF Spawner, OnlyStartOverrides
  <1>11. NoneLeaks'
    <2> SUFFICES ASSUME NEW g \in live, g # old[r] PROVE Kept(g)'
      BY DEF NoneLeaks
    <2>1. PICK q \in Request : (Holds(q) \/ pc[q] = "lost") /\ g \in {q, old[q]}
      BY DEF NoneLeaks, Kept
    <2>2. CASE q = r
      <3>1. g = r /\ IsRunning'
        BY <1>1, <1>3, <2>1, <2>2 DEF IsRunning
      <3> QED  BY <1>9, <3>1 DEF Kept
    <2>3. CASE q # r
      <3>1. pc'[q] = "lost" /\ g \in {q, old'[q]}
        BY <1>2, <1>7, <2>1, <2>3
      <3> QED  BY <3>1 DEF Kept
    <2> QED  BY <2>2, <2>3
  <1>12. Viewed'
    <2>1. pc[r] \in Busy
      BY DEF Busy
    <2>2. \A q \in Request : pc'[q] \notin Busy
      BY <1>2 DEF Busy
    <2>3. file # None \/ (file = None /\ None \notin Text)
      BY TextAssumption
    <2> QED  BY <1>1, <1>3, <2>1, <2>2, <2>3 DEF Viewed
  <1> QED  BY <1>2, <1>4, <1>5, <1>6, <1>8, <1>10, <1>11, <1>12

\* The entry is set, or the one before it is retired first.
LEMMA SetKeeps ==
  ASSUME Inductive, NEW r \in Request, Sets(r) \/ Retired(r)
  PROVE  Inductive'
PROOF
  <1> USE DEF Inductive
  <1>1. CASE Sets(r) /\ IsRunning
    BY <1>1, RetireKeeps
  <1>2. CASE Sets(r) /\ ~IsRunning
    <2>1. /\ pc[r] = "setting" /\ Inserts(r)
          /\ UNCHANGED <<node, file, live, ask, diverged, edits>>
      BY <1>2 DEF Sets
    <2>2. live' = live \ {old[r]}
      BY <2>1, TextAssumption DEF Hands, Types, Graph
    <2> QED  BY <1>2, <2>1, <2>2, InsertKeeps
  <1>3. CASE Retired(r)
    <2>1. /\ pc[r] = "retiring" /\ Inserts(r) /\ live' = live \ {old[r]}
          /\ UNCHANGED <<node, file, ask, diverged, edits>>
      BY <1>3 DEF Retired
    <2>2. ~IsRunning
      BY <2>1 DEF Hands, IsRunning
    <2> QED  BY <2>1, <2>2, InsertKeeps
  <1> QED  BY <1>1, <1>2, <1>3

\* A handler that is dropped at its work leaves the lock to the next, and its graphs to
\* nobody.
LEMMA DropKeeps ==
  ASSUME Inductive, NEW r \in Request, HangsUp(r), pc[r] \in Busy
  PROVE  Inductive'
PROOF
  <1> USE DEF Inductive
  <1>1. /\ pc[r] \in {"starting", "retiring"} /\ pc' = [pc EXCEPT ![r] = "lost"]
        /\ \E k \in DOMAIN line : line[k] = r /\ line' = RemoveAt(line, k)
        /\ hand' = [hand EXCEPT ![r] = None] /\ live' \subseteq live /\ diverged' = TRUE
        /\ UNCHANGED <<node, file, loaded, ask, old, edits>>
    BY DEF HangsUp, Goto, Busy
  <1>2. /\ \A q \in Request : pc'[q] = IF q = r THEN "lost" ELSE pc[q]
        /\ \A q \in Request : q # r => ~Holds(q) /\ pc[q] \notin Busy
        /\ Holds(r) /\ Asked' /\ Spent' /\ OneWins'
    <2>1. "lost" \in Busy \cup {"answered", "lost"}
      OBVIOUS
    <2> QED  BY <1>1, <2>1, WorkGoesOn
  <1>3. line' \in Seq(Request) /\ Lined'
    <2>1. "lost" \in PC \ InLine /\ pc[r] \in InLine
      BY DEF PC, InLine, Busy
    <2> QED  BY <1>1, <2>1, Abandons
  <1>4. Types'
    BY <1>1, <1>3 DEF Types, PC
  <1>5. Down' /\ Spawner' /\ OnlyStartOverrides'
    BY <1>1, <1>2 DEF Down, Over, Spawner, OnlyStartOverrides, IsRunning
  <1>6. Hands'
    <2>1. \A q \in Request : pc'[q] \notin Busy
      BY <1>2 DEF Busy
    <2>2. \A q \in Request : q # r => pc'[q] = pc[q]
      BY <1>2
    <2> QED  BY <1>1, <1>2, <2>1, <2>2 DEF Hands, Busy
  <1>7. NoneLeaks'
    BY <1>1, <1>2 DEF NoneLeaks, Kept, IsRunning
  <1>8. Viewed'
    BY <1>1 DEF Viewed
  <1> QED  BY <1>2, <1>3, <1>4, <1>5, <1>6, <1>7, <1>8

-----------------------------------------------------------------------------
(* Steps of the process and the file system.                               *)

\* An edit by hand may bring anything back.
LEMMA EditKeeps ==
  ASSUME Inductive, Edit
  PROVE  Inductive'
PROOF
  <1> USE DEF Inductive
  <1>1. /\ edits' = edits + 1 /\ edits' # 0 /\ file' \in Text \cup {None} /\ diverged' = TRUE
        /\ UNCHANGED <<node, loaded, live, line, ask, pc, hand, old>>
    BY DEF Edit, Types
  <1>2. Types'
    BY <1>1 DEF Types
  <1>3. Lined' /\ Asked' /\ Down' /\ Hands' /\ Spawner' /\ OnlyStartOverrides'
    BY <1>1 DEF Lined, Holds, Asked, Down, Hands, Spawner, OnlyStartOverrides, IsRunning
  <1>4. NoneLeaks'
    BY <1>1 DEF NoneLeaks, Kept, Holds, IsRunning
  <1>5. Viewed' /\ Spent' /\ OneWins'
    BY <1>1 DEF Viewed, Spent, OneWins
  <1> QED  BY <1>2, <1>3, <1>4, <1>5

\* Nobody's request moves, and nothing is written.
LEMMA NothingWritten ==
  ASSUME Inductive, UNCHANGED <<file, ask, pc, edits>>
  PROVE  Spent' /\ OneWins'
PROOF
  <1>1. \A q \in Request : Wrote(q)' => Wrote(q) /\ ask'[q] = ask[q]
    BY DEF Wrote
  <1>2. \A q \in Request : \A v : MayLeave(q, v) => MayLeave(q, v)'
    BY DEF MayLeave
  <1> QED  BY <1>1, <1>2, StillSpent DEF Inductive

\* A boot takes up the file, with nobody at work.
LEMMA BootKeeps ==
  ASSUME Inductive, Boots
  PROVE  Inductive'
PROOF
  <1> USE DEF Inductive
  <1>1. /\ node \in {"down", "exited"} /\ node' = "up" /\ diverged' = FALSE
        /\ UNCHANGED <<file, line, ask, pc, hand, old, edits>>
    BY DEF Boots
  <1>2. \/ file = None /\ loaded' = None /\ live' = {}
        \/ /\ file \in Text /\ loaded' \in Loaded /\ loaded'.text = file
           /\ \/ loaded'.state # "running" /\ live' = {}
              \/ /\ loaded'.state = "running" /\ loaded'.graph = Boot /\ live' = {Boot}
                 /\ file \in Autostart
    <2>1. CASE file = None
      BY <2>1 DEF Boots
    <2>2. CASE file # None
      <3>1. file \in Text /\ Boot \in Graph
        BY <2>2 DEF Types, Graph
      <3>2. /\ Errored(file) \in Loaded /\ Errored(file).text = file /\ Errored(file).state # "running"
            /\ Stopped(file) \in Loaded /\ Stopped(file).text = file /\ Stopped(file).state # "running"
            /\ Running(Boot, file) \in Loaded /\ Running(Boot, file).text = file
            /\ Running(Boot, file).state = "running" /\ Running(Boot, file).graph = Boot
        BY <3>1, LoadedIs DEF Running, Stopped, Errored
      <3> QED  BY <2>2, <3>1, <3>2 DEF Boots
    <2> QED  BY <2>1, <2>2
  <1>3. loaded' # None => loaded' \in Loaded
    BY <1>2
  <1>4. \A q \in Request : pc[q] \in Over \cup {"new"} /\ pc[q] \notin Busy
    BY <1>1 DEF Down, Over, Busy
  <1>5. Types'
    BY <1>1, <1>2 DEF Types, Node, Graph
  <1>6. Lined' /\ Asked' /\ Down'
    BY <1>1 DEF Lined, Holds, Asked, Down
  <1>7. Hands'
    BY <1>1, <1>2, <1>4, TextAssumption DEF Hands, Busy
  <1>8. Spawner' /\ OnlyStartOverrides'
    BY <1>2, TextAssumption DEF Spawner, OnlyStartOverrides, IsRunning
  <1>9. NoneLeaks'
    BY <1>2, LoadedIs DEF NoneLeaks, Kept, IsRunning
  <1>10. Viewed'
    BY <1>1, <1>2, <1>4, LoadedIs, TextAssumption DEF Viewed
  <1>11. Spent' /\ OneWins'
    BY <1>1, NothingWritten
  <1> QED  BY <1>5, <1>6, <1>7, <1>8, <1>9, <1>10, <1>11

\* A kill loses the requests in flight, who may have written.
LEMMA KillKeeps ==
  ASSUME Inductive, Killed
  PROVE  Inductive'
PROOF
  <1> USE DEF Inductive
  <1>1. /\ node' = "down" /\ loaded' = None /\ live' = {} /\ line' = <<>>
        /\ pc' = [r \in Request |-> IF pc[r] \in Over \cup {"new"} THEN pc[r] ELSE "lost"]
        /\ hand' = [r \in Request |-> None] /\ old' = [r \in Request |-> None]
        /\ UNCHANGED <<file, ask, diverged, edits>>
    BY DEF Killed
  <1>2. \A q \in Request : /\ pc'[q] \in Over \cup {"new"}
                           /\ pc[q] \in Over \cup {"new"} => pc'[q] = pc[q]
                           /\ pc[q] \notin Over \cup {"new"} => pc'[q] = "lost"
    BY <1>1 DEF Over
  <1>3. Types'
    BY <1>1 DEF Types, Node, PC, Over
  <1>4. Lined' /\ Asked' /\ Down'
    BY <1>1, <1>2 DEF Lined, Asked, Down, InLine, Busy, Over
  <1>5. Hands' /\ Spawner' /\ OnlyStartOverrides' /\ NoneLeaks' /\ Viewed'
    BY <1>1, <1>2 DEF Hands, Spawner, OnlyStartOverrides, NoneLeaks, Viewed, IsRunning, Busy, Over
  <1>6. \A q \in Request : Wrote(q)' => Wrote(q) /\ ask'[q] = ask[q]
    BY <1>1, <1>2 DEF Wrote, Over
  <1>7. \A q \in Request : \A v : MayLeave(q, v) => MayLeave(q, v)'
    BY <1>1, <1>2 DEF MayLeave, Busy, Over
  <1>8. Spent' /\ OneWins'
    BY <1>1, <1>6, <1>7, StillSpent
  <1> QED  BY <1>3, <1>4, <1>5, <1>8

\* A node that exits stops what is listed.
LEMMA ExitKeeps ==
  ASSUME Inductive, Terminates \/ Exits
  PROVE  Inductive'
PROOF
  <1> USE DEF Inductive
  <1>1. Spent' /\ OneWins'
    BY NothingWritten DEF Terminates, Exits, Drained
  <1>2. CASE Terminates
    <2>1. /\ node = "up" /\ node' = "draining"
          /\ UNCHANGED <<file, loaded, live, line, ask, pc, hand, old, diverged, edits>>
      BY <1>2 DEF Terminates
    <2>2. Types' /\ Lined' /\ Asked' /\ Down'
      BY <2>1 DEF Types, Node, Lined, Holds, Asked, Down
    <2>3. Hands' /\ Spawner' /\ OnlyStartOverrides'
      BY <2>1 DEF Hands, Spawner, OnlyStartOverrides, IsRunning
    <2>4. NoneLeaks' /\ Viewed'
      BY <2>1 DEF NoneLeaks, Kept, Holds, Viewed, IsRunning
    <2> QED  BY <1>1, <2>2, <2>3, <2>4
  <1>3. CASE Exits
    <2>1. /\ \A q \in Request : pc[q] \in Over \cup {"new"}
          /\ line = <<>> /\ node' = "exited" /\ loaded' = None
          /\ live' = IF IsRunning THEN live \ {loaded.graph} ELSE live
          /\ UNCHANGED <<file, line, ask, pc, hand, old, diverged, edits>>
      BY <1>3 DEF Exits, Drained
    <2>2. Types' /\ Lined' /\ Asked' /\ Down'
      BY <2>1 DEF Types, Node, Lined, Holds, Asked, Down
    <2>3. Hands' /\ Spawner' /\ OnlyStartOverrides'
      BY <2>1 DEF Hands, Spawner, OnlyStartOverrides, IsRunning, Busy, Over
    <2>4. NoneLeaks'
      BY <2>1 DEF NoneLeaks, Kept, Holds, IsRunning
    <2>5. Viewed'
      BY <2>1 DEF Viewed
    <2> QED  BY <1>1, <2>2, <2>3, <2>4, <2>5
  <1> QED  BY <1>2, <1>3

-----------------------------------------------------------------------------
(* Arrivals, refusals and hang-ups.                                        *)

\* A request arrives, and is refused at once, validated, served in line, or a stream.
LEMMA ArrivalKeeps ==
  ASSUME Inductive, NEW r \in Request,
         PutArrives(r) \/ GetArrives(r) \/ OperationArrives(r) \/ WatchArrives(r)
  PROVE  Inductive'
PROOF
  <1> USE DEF Inductive
  <1>1. /\ node = "up" /\ pc[r] = "new" /\ \E a \in Ask : ask' = [ask EXCEPT ![r] = a]
        /\ UNCHANGED <<node, file, loaded, live, hand, old, diverged, edits>>
    BY DEF PutArrives, GetArrives, OperationArrives, WatchArrives, Accepts
  <1>2. PICK p \in {"validating", "refused", "watching", "waiting"} :
           /\ pc' = [pc EXCEPT ![r] = p]
           /\ IF p = "waiting" THEN line' = Append(line, r) ELSE line' = line
           /\ p = "watching" => ask'[r].kind = "watch"
    <2>1. CASE PutArrives(r)
      BY <2>1 DEF PutArrives, Goto
    <2>2. CASE GetArrives(r)
      BY <2>2 DEF GetArrives, Goto, Join
    <2>3. CASE OperationArrives(r)
      BY <2>3 DEF OperationArrives, Goto, Join
    <2>4. CASE WatchArrives(r)
      <3>1. PICK a \in Ask : a.kind = "watch" /\ ask' = [ask EXCEPT ![r] = a]
        BY <2>4 DEF WatchArrives, Accepts
      <3>2. ask'[r].kind = "watch"
        BY <3>1 DEF Types
      <3> QED  BY <2>4, <3>2 DEF WatchArrives, Goto
    <2> QED  BY <2>1, <2>2, <2>3, <2>4
  <1>3. pc[r] \notin InLine /\ pc[r] \in {"new", "validating", "waiting", "watching"}
    BY <1>1 DEF InLine, Busy
  <1>4. /\ line' \in Seq(Request) /\ Lined'
        /\ \A q \in Request : q # r => (Holds(q) => Holds(q)')
    <2>1. CASE p = "waiting"
      BY <1>2, <1>3, <2>1, Joins
    <2>2. CASE p # "waiting"
      <3>1. p \in PC \ InLine
        BY <2>2 DEF PC, InLine, Busy
      <3>2. Lined' /\ \A q \in Request : Holds(q)' <=> Holds(q)
        BY <1>2, <1>3, <2>2, <3>1, StaysOut
      <3> QED  BY <1>2, <2>2, <3>2 DEF Types
    <2> QED  BY <2>1, <2>2
  <1>5. p \in PC \ (Busy \cup {"new"}) /\ p # "answered"
    BY DEF PC, Busy
  <1> QED  BY <1>1, <1>2, <1>3, <1>4, <1>5, Moves

\* A handler that changed nothing hands the lock on.
LEMMA ReturnKeeps ==
  ASSUME Inductive, NEW r \in Request, pc[r] = "waiting", Holds(r),
         NEW p \in {"refused", "answered"}, Return(r, p), p = "answered" => ask[r].kind # "put",
         UNCHANGED <<node, file, loaded, live, ask, hand, old, diverged, edits>>
  PROVE  Inductive'
PROOF
  <1> USE DEF Inductive
  <1>1. pc' = [pc EXCEPT ![r] = p] /\ line' = Tail(line)
    BY DEF Return, Goto
  <1>2. p \in PC \ InLine /\ pc[r] \in InLine /\ p \in PC \ (Busy \cup {"new"}) /\ p # "watching"
    BY DEF PC, InLine, Busy
  <1>3. /\ line' \in Seq(Request) /\ Lined'
        /\ \A q \in Request : q # r => (Holds(q) => Holds(q)')
    BY <1>1, <1>2, HandsOn
  <1> QED  BY <1>1, <1>2, <1>3, Moves

\* A handler is dropped before its turn, or while a definition is validated.
LEMMA HangUpKeeps ==
  ASSUME Inductive, NEW r \in Request, HangsUp(r)
  PROVE  Inductive'
PROOF
  <1> USE DEF Inductive
  <1>1. CASE pc[r] \in Busy
    BY <1>1, DropKeeps
  <1>2. CASE pc[r] \notin Busy
    <2>1. /\ pc[r] \in {"validating", "waiting"} /\ pc' = [pc EXCEPT ![r] = "lost"]
          /\ \/ pc[r] = "validating" /\ line' = line
             \/ pc[r] = "waiting" /\ \E k \in DOMAIN line : line[k] = r /\ line' = RemoveAt(line, k)
          /\ live' = live /\ diverged' = (diverged \/ FALSE)
          /\ hand' = [hand EXCEPT ![r] = None]
          /\ UNCHANGED <<node, file, loaded, ask, old, edits>>
      BY <1>2 DEF HangsUp, Goto, Busy
    <2>2. "lost" \in PC \ InLine /\ "lost" \in PC \ (Busy \cup {"new"})
      BY DEF PC, InLine, Busy
    <2>3. /\ line' \in Seq(Request) /\ Lined'
          /\ \A q \in Request : q # r => (Holds(q) => Holds(q)')
      <3>1. CASE pc[r] = "validating"
        <4>1. pc[r] \notin InLine /\ line' = line
          BY <2>1, <3>1 DEF InLine, Busy
        <4> QED  BY <2>1, <2>2, <4>1, StaysOut DEF Types
      <3>2. CASE pc[r] = "waiting"
        <4>1. pc[r] \in InLine
          BY <3>2 DEF InLine
        <4> QED  BY <2>1, <2>2, <3>2, <4>1, Abandons
      <3> QED  BY <2>1, <3>1, <3>2
    <2>4. diverged' = diverged
      BY <2>1 DEF Types
    <2>5. /\ hand' \in [Request -> Loaded \cup {None}]
          /\ \A q \in Request : q # r => hand'[q] = hand[q]
      BY <2>1 DEF Types
    <2> QED  BY <2>1, <2>2, <2>3, <2>4, <2>5, MovesOn
  <1> QED  BY <1>1, <1>2

\* Each step of a handler.
LEMMA ServesKeeps ==
  ASSUME Inductive, NEW r \in Request, Serves(r)
  PROVE  Inductive'
PROOF
  <1> USE DEF Inductive
  <1>1. CASE Validated(r)
    <2>1. /\ pc[r] = "validating"
          /\ UNCHANGED <<node, file, loaded, live, ask, hand, old, diverged, edits>>
          /\ \/ pc' = [pc EXCEPT ![r] = "waiting"] /\ line' = Append(line, r)
             \/ pc' = [pc EXCEPT ![r] = "refused"] /\ line' = line
      BY <1>1 DEF Validated, Goto, Join
    <2>2. pc[r] \notin InLine /\ "refused" \in PC \ InLine
          /\ {"waiting", "refused"} \subseteq PC \ (Busy \cup {"new"})
      BY <2>1 DEF PC, InLine, Busy
    <2>3. CASE pc' = [pc EXCEPT ![r] = "waiting"] /\ line' = Append(line, r)
      <3>1. /\ line' \in Seq(Request) /\ Lined'
            /\ \A q \in Request : q # r => (Holds(q) => Holds(q)')
        BY <2>2, <2>3, Joins
      <3> QED  BY <2>1, <2>2, <2>3, <3>1, Moves
    <2>4. CASE pc' = [pc EXCEPT ![r] = "refused"] /\ line' = line
      <3>1. /\ line' \in Seq(Request) /\ Lined'
            /\ \A q \in Request : q # r => (Holds(q) => Holds(q)')
        BY <2>2, <2>4, StaysOut DEF Types
      <3> QED  BY <2>1, <2>2, <2>4, <3>1, Moves
    <2> QED  BY <2>1, <2>3, <2>4
  <1>2. CASE PutRefused(r) \/ NoSuchService(r) \/ DeleteRefused(r) \/ DeleteFails(r)
    BY <1>2, ReturnKeeps DEF PutRefused, NoSuchService, DeleteRefused, DeleteFails, At
  <1>3. CASE GetReplies(r)
    BY <1>3, ReturnKeeps DEF GetReplies, At
  <1>4. CASE PutWrites(r)
    BY <1>4, PutKeeps
  <1>5. CASE PutWriteFails(r) /\ file' # file
    BY <1>5, FailKeeps
  <1>6. CASE PutWriteFails(r) /\ file' = file
    <2>1. /\ pc[r] = "waiting" /\ Holds(r) /\ Return(r, "refused") /\ ask[r].kind = "put"
          /\ (diverged' = diverged \/ (diverged' = TRUE /\ file = Torn))
          /\ UNCHANGED <<node, file, loaded, live, ask, hand, old, edits>>
      BY <1>6 DEF PutWriteFails, At
    <2>2. CASE diverged' = diverged
      BY <2>1, <2>2, ReturnKeeps
    <2>3. CASE diverged' = TRUE
      <3>1. pc' = [pc EXCEPT ![r] = "refused"]
        BY <2>1 DEF Return, Goto
      <3>2. \A q \in Request : pc'[q] = IF q = r THEN "refused" ELSE pc[q]
        BY <3>1 DEF Types
      <3>3. \A q \in Request : Wrote(q)' => Wrote(q) /\ ask'[q] = ask[q]
        BY <2>1, <3>2 DEF Wrote
      <3>4. \A q \in Request : \A v : MayLeave(q, v) => MayLeave(q, v)'
        BY <2>1, <3>2 DEF MayLeave, Busy
      <3>5. Spent' /\ OneWins'
        BY <2>1, <3>3, <3>4, StillSpent
      <3>6. file' \in Text \cup {None} /\ diverged' \in BOOLEAN
        BY <2>1, <2>3 DEF Types
      <3> QED  BY <2>1, <2>3, <3>5, <3>6, LetsGo
    <2> QED  BY <2>1, <2>2, <2>3
  <1>7. CASE Reloads(r)
    <2>1. pc'[r] # "refused"
      BY <1>7 DEF Reloads, Apply, Goto, Types
    <2> QED  BY <1>7, <2>1, ReadsInHand
  <1>8. CASE StopSets(r) /\ pc'[r] # "refused"
    BY <1>8, ReadsInHand
  <1>9. CASE StopSets(r) /\ pc'[r] = "refused"
    <2>1. pc' # [pc EXCEPT ![r] = "setting"]
      BY <1>9 DEF Types
    <2> QED  BY <1>9, <2>1, ReturnKeeps DEF StopSets, At, Goto
  <1>10. CASE Spawned(r)
    BY <1>10, SpawnKeeps
  <1>11. CASE Sets(r) \/ Retired(r)
    BY <1>11, SetKeeps
  <1>12. CASE Deletes(r)
    BY <1>12, DeleteKeeps
  <1> QED  BY <1>1, <1>2, <1>3, <1>4, <1>5, <1>6, <1>7, <1>8, <1>9, <1>10, <1>11, <1>12 DEF Serves

\* The client of a stream hangs up.
LEMMA WatcherKeeps ==
  ASSUME Inductive, NEW r \in Request, WatcherLeaves(r)
  PROVE  Inductive'
PROOF
  <1> USE DEF Inductive
  <1>1. /\ pc[r] = "watching" /\ pc' = [pc EXCEPT ![r] = "answered"]
        /\ UNCHANGED <<node, file, loaded, live, line, ask, hand, old, diverged, edits>>
    BY DEF WatcherLeaves, Goto
  <1>2. ask[r].kind # "put"
    BY <1>1 DEF Asked
  <1>3. pc[r] \notin InLine /\ "answered" \in PC \ InLine /\ "answered" \in PC \ (Busy \cup {"new"})
    BY <1>1 DEF PC, InLine, Busy
  <1>4. /\ line' \in Seq(Request) /\ Lined'
        /\ \A q \in Request : q # r => (Holds(q) => Holds(q)')
    BY <1>1, <1>3, StaysOut DEF Types
  <1> QED  BY <1>1, <1>2, <1>3, <1>4, Moves

-----------------------------------------------------------------------------
(* The theorems.                                                           *)

\* Before the first boot nobody asked for anything.
LEMMA InitInductive == Init => Inductive
PROOF
  <1> SUFFICES ASSUME Init PROVE Inductive
    OBVIOUS
  <1>1. Types
    <2>1. node \in Node /\ file \in Text \cup {None} /\ live \subseteq Graph /\ edits \in Nat
      BY DEF Init, Node
    <2>2. loaded \in Loaded \cup {None} /\ diverged \in BOOLEAN
      BY DEF Init
    <2>3. line \in Seq(Request)
      BY EmptySeq DEF Init
    <2>4. /\ ask \in [Request -> Ask \cup {None}] /\ pc \in [Request -> PC]
          /\ hand \in [Request -> Loaded \cup {None}] /\ old \in [Request -> Graph \cup {None}]
      BY DEF Init, PC
    <2> QED  BY <2>1, <2>2, <2>3, <2>4 DEF Types
  <1>2. Lined /\ Asked /\ Down
    BY DEF Init, Lined, Asked, Down, InLine, Busy
  <1>3. Hands /\ Spawner /\ OnlyStartOverrides /\ NoneLeaks /\ Viewed
    BY DEF Init, Hands, Spawner, OnlyStartOverrides, NoneLeaks, Viewed, IsRunning, Busy
  <1>4. Spent /\ OneWins
    BY DEF Init, Spent, OneWins, Wrote
  <1> QED  BY <1>1, <1>2, <1>3, <1>4 DEF Inductive

\* Whether what is waited for will ever come is no part of the invariant.
LEMMA StutterKeeps ==
  ASSUME Inductive, UNCHANGED plainVars
  PROVE  Inductive'
PROOF
  <1>1. Types' /\ Lined' /\ Asked' /\ Down' /\ Hands'
    BY DEF plainVars, Inductive, Types, Lined, Holds, Asked, Down, Hands
  <1>2. Spawner' /\ OnlyStartOverrides' /\ Viewed'
    BY DEF plainVars, Inductive, Spawner, OnlyStartOverrides, Viewed, IsRunning
  <1>3. NoneLeaks'
    BY DEF plainVars, Inductive, NoneLeaks, Kept, Holds, IsRunning
  <1>4. Spent' /\ OneWins'
    BY StillSpent DEF plainVars, Inductive, Wrote, MayLeave
  <1> QED  BY <1>1, <1>2, <1>3, <1>4 DEF Inductive

\* Whatever the requests, the clients, the editors and the process do.
LEMMA StepKeeps ==
  ASSUME Inductive, [Next]_vars
  PROVE  Inductive'
PROOF
  <1>1. CASE UNCHANGED vars
    BY <1>1, StutterKeeps DEF vars
  <1>2. ASSUME NEW r \in Request, Client(r) PROVE Inductive'
    BY <1>2, ArrivalKeeps, WatcherKeeps, HangUpKeeps DEF Client
  <1>3. ASSUME NEW r \in Request, Serves(r) PROVE Inductive'
    BY <1>3, ServesKeeps
  <1>4. CASE Edit
    BY <1>4, EditKeeps
  <1>5. CASE Boots
    BY <1>5, BootKeeps
  <1>6. CASE Killed
    BY <1>6, KillKeeps
  <1>7. CASE Terminates \/ Exits
    BY <1>7, ExitKeeps
  <1>8. CASE Idle
    BY <1>1, <1>8 DEF Idle
  <1>9. CASE ExitStalls \/ \E r \in Request : Stalls(r)
    BY <1>9, StutterKeeps DEF ExitStalls, Stalls
  <1> QED  BY <1>1, <1>2, <1>3, <1>4, <1>5, <1>6, <1>7, <1>8, <1>9 DEF Next

\* The inductive invariant of the management API: the line, what its head has in hand, and
\* what may be in the file.
THEOREM ApiInvariance == Spec => []Inductive
PROOF
  BY InitInductive, StepKeeps, PTL DEF Spec

\* No handler that runs to its end leaves a graph behind (Services::set, Services::remove,
\* run_node).
THEOREM OnlyDroppedHandlersLeakHolds == Spec => []OnlyDroppedHandlersLeak
PROOF
  <1>1. Inductive => OnlyDroppedHandlersLeak
    BY DEF Inductive, NoneLeaks, Kept, OnlyDroppedHandlersLeak, Listed, InHand, Dropped
  <1> QED  BY <1>1, ApiInvariance, PTL

\* The map of services is a view of the files, whenever nobody is at work and nothing came
\* between them (delete_service).
THEOREM ViewMatchesFileHolds == Spec => []ViewMatchesFile
PROOF
  <1>1. Inductive => ViewMatchesFile
    BY DEF Inductive, Lined, Viewed, Holds, ViewMatchesFile
  <1> QED  BY <1>1, ApiInvariance, PTL

\* DAEMON 9.3: of the PUTs that name one version, one wins, unless somebody brought that
\* version back.
THEOREM OneWriterWinsHolds == Spec => []OneWriterWins
PROOF
  <1>1. ASSUME Inductive PROVE OneWriterWins
    <2>1. ASSUME NEW s \in Request, NEW v, MayLeave(s, v)
          PROVE  v \in Left(s)
      BY <2>1 DEF MayLeave, Left, Wrote, Busy
    <2>2. \A m : BroughtBack(m) => \E s \in Request : Left(s) \cap Named(m) # {}
      BY <2>1 DEF BroughtBack
    <2>3. edits \in Nat
      BY <1>1 DEF Inductive, Types
    <2>4. edits # 0 => edits > 0
      BY <2>3
    <2> QED  BY <1>1, <2>2, <2>4 DEF Inductive, OneWins, OneWriterWins
  <1> QED  BY <1>1, ApiInvariance, PTL

\* A service that runs although its file does not say so was started by POST start
\* (DAEMON 9.4).
THEOREM OnlyStartOverridesHolds == Spec => []OnlyStartOverrides
PROOF
  <1>1. Inductive => OnlyStartOverrides
    BY DEF Inductive
  <1> QED  BY <1>1, ApiInvariance, PTL

\* The API never removes the definition of a service that has a graph, even one on its way
\* up (delete_service).
THEOREM DeleteSparesTheRunningHolds == Spec => DeleteSparesTheRunning
PROOF
  <1>1. ASSUME Inductive, [Next]_vars, file # None, file' = None, edits' = edits
        PROVE  live \subseteq Dropped
    <2>1. PICK r \in Request : Deletes(r)
      <3>1. file' # file
        BY <1>1
      <3>2. ~Edit
        BY <1>1 DEF Edit, Inductive, Types
      <3>3. ASSUME NEW r \in Request, PutWrites(r) \/ PutWriteFails(r) PROVE FALSE
        <4>1. pc[r] = "waiting" /\ ask[r].kind = "put"
          BY <3>3 DEF PutWrites, PutWriteFails, At
        <4>2. ask[r] \in Ask
          BY <1>1, <4>1 DEF Inductive, Asked
        <4>3. file' \in {ask[r].text, Torn, file}
          BY <3>3 DEF PutWrites, PutWriteFails
        <4> QED  BY <1>1, <4>1, <4>2, <4>3, AskAssumption, TextAssumption
      <3>4. ASSUME NEW r \in Request, Client(r) PROVE file' = file
        BY <3>4 DEF Client, PutArrives, GetArrives, OperationArrives, WatchArrives, Accepts,
                    WatcherLeaves, HangsUp
      <3>5. ASSUME NEW r \in Request, Serves(r) PROVE Deletes(r)
        BY <3>1, <3>3, <3>5 DEF Serves, Validated, PutRefused, NoSuchService, Reloads, StopSets,
                    Spawned, Sets, Retired, DeleteRefused, DeleteFails, GetReplies
      <3>6. ~(Boots \/ Killed \/ Terminates \/ Exits \/ Idle \/ UNCHANGED vars)
        BY <3>1 DEF Boots, Killed, Terminates, Exits, Idle, vars, plainVars
      <3>7. ~(ExitStalls \/ \E r \in Request : Stalls(r))
        BY <3>1 DEF ExitStalls, Stalls, plainVars
      <3>8. \E r \in Request : Client(r) \/ Serves(r)
        BY <1>1, <3>2, <3>6, <3>7 DEF Next
      <3> QED  BY <3>1, <3>4, <3>5, <3>8
    <2>2. pc[r] = "waiting" /\ Holds(r) /\ ~IsRunning
      BY <2>1 DEF Deletes, At
    <2>3. /\ r \notin live /\ old[r] \notin live
          /\ \A q \in Request : q # r => ~Holds(q)
      BY <1>1, <2>2, Alone, TextAssumption DEF Inductive, Hands, Types, Graph
    <2>4. ASSUME NEW g \in live PROVE \E q \in Request : pc[q] = "lost" /\ g \in {q, old[q]}
      BY <1>1, <2>2, <2>3 DEF Inductive, NoneLeaks, Kept
    <2> QED  BY <2>4 DEF Dropped
  <1>2. Inductive /\ [Next]_vars
           => [file # None /\ file' = None /\ edits' = edits => live \subseteq Dropped]_vars
    BY <1>1
  <1> QED  BY <1>2, ApiInvariance, PTL DEF Spec, DeleteSparesTheRunning
=============================================================================
