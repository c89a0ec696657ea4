--------------------------- MODULE DesignerProofs ---------------------------
(***************************************************************************)
(* Theorems about the Designer's edit path and the service files it edits, *)
(* for any ids, names, services and number of gestures; and about the      *)
(* directory of the node it edits them on, and the command line that edits *)
(* them too.                                                               *)
(*                                                                         *)
(* First the files: what every operation and every batch preserves (the    *)
(* operations of crates/service/src/edit.rs and the wiring that parse.rs   *)
(* checks are separate code, and agree).  Then the path: its invariant     *)
(* says that edits are answered in the order they were made (InLine), that *)
(* a canvas nobody meddled with is the text the edit was made from         *)
(* (Unmeddled), and that in a tab whose calls and edits all went well the  *)
(* canvas is what is on the node wherever an edit begins (Fresh), so that  *)
(* only somebody else can make a tag stale.                                *)
(***************************************************************************)
EXTENDS Designer, Node, TLAPS, FiniteSetTheorems, SequenceTheorems

-----------------------------------------------------------------------------
(* Operations and batches.                                                 *)


\* An operation that is not refused leaves no connection, label or property behind
\* that names an instance the file does not define (parse.rs, check_connections).
THEOREM EditsKeepTheWiring ==
    ASSUME NEW d \in Definition, NEW o \in Operation, Wired(d), ~Refuses(d, o)
    PROVE  Applied(d, o) \in Definition /\ Wired(Applied(d, o))
PROOF
  <1>1. CASE o.op = "remove_block"
    <2>1. o.id \in Id
      BY <1>1 DEF Operation, OnBlock
    <2>2. Applied(d, o) = RemoveBlock(d, o.id)
      BY <1>1 DEF Applied
    <2>3. RemoveBlock(d, o.id) \in Definition
      BY <2>1 DEF RemoveBlock, Definition
    <2>4. \A w \in d.wires \ Touching(d, o.id) : w \in (d.blocks \ {o.id}) \X (d.blocks \ {o.id})
      <3>1. TAKE w \in d.wires \ Touching(d, o.id)
      <3>2. w \in d.blocks \X d.blocks
        BY DEF Wired
      <3>3. w[1] # o.id /\ w[2] # o.id
        BY DEF Touching
      <3> QED BY <3>2, <3>3
    <2>5. Wired(RemoveBlock(d, o.id))
      BY <2>1, <2>4 DEF RemoveBlock, Wired, Definition
    <2> QED BY <2>2, <2>3, <2>5
  <1>2. CASE o.op = "connect"
    <2>1. o.from \in Id /\ o.to \in Id
      BY <1>2 DEF Operation, OnBlock
    <2>2. o.from \in d.blocks /\ o.to \in d.blocks
      BY <1>2 DEF Refuses
    <2>3. Applied(d, o) = [d EXCEPT !.wires = @ \cup {<<o.from, o.to>>}]
      BY <1>2 DEF Applied
    <2> QED BY <2>1, <2>2, <2>3 DEF Definition, Wired
  <1>3. CASE o.op = "disconnect"
    <2>1. PICK fewer \in SUBSET d.wires : Applied(d, o) = [d EXCEPT !.wires = fewer]
      BY <1>3 DEF Applied
    <2>2. fewer \subseteq Id \X Id /\ fewer \subseteq d.blocks \X d.blocks
      BY DEF Definition, Wired
    <2>3. [d EXCEPT !.wires = fewer] \in Definition
      BY <2>2 DEF Definition
    <2>4. Wired([d EXCEPT !.wires = fewer])
      BY <2>2 DEF Definition, Wired
    <2> QED BY <2>1, <2>3, <2>4
  <1>4. CASE o.op \in {"set_prop", "remove_prop"}
    <2>1. o.id \in d.blocks
      BY <1>4 DEF Refuses, Identified
    <2>2. PICK v \in {"unset", "sound", "unsound"} : Applied(d, o) = [d EXCEPT !.prop[o.id] = v]
      BY <1>4 DEF Applied, Operation, OnBlock
    <2> QED BY <2>1, <2>2 DEF Definition, Wired
  <1>5. CASE o.op = "add_block"
    <2>1. o.id \in Id
      BY <1>5 DEF Operation, OnBlock
    <2>2. Applied(d, o) = [d EXCEPT !.blocks = @ \cup {o.id}]
      BY <1>5 DEF Applied
    <2> QED BY <2>1, <2>2 DEF Definition, Wired
  <1>6. CASE o.op \in {"set_name", "remove_name"}
    <2>1. o.id \in d.blocks
      BY <1>6 DEF Refuses, Identified
    <2>2. PICK labels \in {d.label \cup {o.id}, d.label \ {o.id}} :
            Applied(d, o) = [d EXCEPT !.label = labels]
      BY <1>6 DEF Applied
    <2> QED BY <2>1, <2>2 DEF Definition, Wired
  <1>7. CASE o.op \in {"set_ui", "remove_ui"}
    <2>1. o.id \in Id
      BY <1>7 DEF Operation, OnBlock
    <2>2. PICK places \in {d.ui \cup {o.id}, d.ui \ {o.id}} : Applied(d, o) = [d EXCEPT !.ui = places]
      BY <1>7 DEF Applied
    <2> QED BY <2>1, <2>2 DEF Definition, Wired
  <1>8. CASE o.op = "set_autostart"
    <2>1. o.to \in BOOLEAN
      BY <1>8 DEF Operation, OnBlock
    <2>2. Applied(d, o) = [d EXCEPT !.autostart = o.to]
      BY <1>8 DEF Applied
    <2> QED BY <2>1, <2>2 DEF Definition, Wired
  <1> QED BY <1>1, <1>2, <1>3, <1>4, <1>5, <1>6, <1>7, <1>8 DEF Operation, OnBlock

\* Whatever an operation does to a definition, it leaves one of the same name, refused
\* or not.
LEMMA AppliedType ==
  ASSUME NEW d \in Definition, NEW o \in Operation
  PROVE  Applied(d, o) \in Definition /\ Applied(d, o).name = d.name
  <1>1. CASE o.op = "remove_block"
    <2>1. o.id \in Id
      BY <1>1 DEF Operation, OnBlock
    <2>2. Applied(d, o) = RemoveBlock(d, o.id)
      BY <1>1 DEF Applied
    <2>3. RemoveBlock(d, o.id) \in Definition
      BY <2>1 DEF RemoveBlock, Definition
    <2>4. RemoveBlock(d, o.id).name = d.name
      BY DEF RemoveBlock, Definition
    <2> QED  BY <2>2, <2>3, <2>4
  <1>2. CASE o.op \in {"connect", "disconnect"}
    <2>1. o.from \in Id /\ o.to \in Id
      BY <1>2 DEF Operation, OnBlock
    <2>2. PICK wires \in SUBSET (Id \X Id) : Applied(d, o) = [d EXCEPT !.wires = wires]
      <3>1. d.wires \subseteq Id \X Id /\ <<o.from, o.to>> \in Id \X Id
        BY <2>1 DEF Definition
      <3> QED  BY <1>2, <3>1 DEF Applied
    <2> QED  BY <2>2 DEF Definition
  <1>3. CASE o.op \in {"set_prop", "remove_prop"}
    <2>1. PICK v \in {"unset", "sound", "unsound"} : Applied(d, o) = [d EXCEPT !.prop[o.id] = v]
      BY <1>3 DEF Applied, Operation, OnBlock
    <2> QED  BY <2>1 DEF Definition
  <1>4. CASE o.op \in {"add_block", "set_name", "remove_name", "set_ui", "remove_ui"}
    <2>1. o.id \in Id
      BY <1>4 DEF Operation, OnBlock
    <2> QED  BY <1>4, <2>1 DEF Applied, Definition
  <1>5. CASE o.op = "set_autostart"
    <2>1. o.to \in BOOLEAN
      BY <1>5 DEF Operation, OnBlock
    <2> QED  BY <1>5, <2>1 DEF Applied, Definition
  <1> QED  BY <1>1, <1>2, <1>3, <1>4, <1>5 DEF Operation, OnBlock

\* Whatever is true of some natural number is true of a least one.
LEMMA Least ==
  ASSUME NEW S \in SUBSET Nat, S # {}
  PROVE  \E m \in S : \A k \in S : m <= k
  <1>1. \E m \in S : \A k \in S : <<k, m>> \notin OpToRel(<, Nat)
    <2> DEFINE R == OpToRel(<, Nat)
    <2>1. IsWellFoundedOn(R, Nat)
      BY NatLessThanWellFounded
    <2> HIDE DEF R
    <2>2. \E m \in S : \A k \in S : <<k, m>> \notin R
      BY <2>1, WFMin
    <2> QED  BY <2>2 DEF R
  <1>2. \A k, m \in Nat : <<k, m>> \notin OpToRel(<, Nat) => m <= k
    BY DEF OpToRel
  <1> QED  BY <1>1, <1>2


\* g is what a batch comes to, operation by operation.
Course(g, d, ops) ==
    g = [n \in 0..Len(ops) |-> IF n = 0 THEN d ELSE OneStep(g[n - 1], ops[n])]

\* Every batch has a course.
LEMMA CourseExists ==
  ASSUME NEW d, NEW ops, Len(ops) \in Nat
  PROVE  \E g : Course(g, d, ops)
  <1> DEFINE Upto(g, m) == g = [n \in 0..m |-> IF n = 0 THEN d ELSE OneStep(g[n - 1], ops[n])]
  <1> DEFINE Missing == {k \in Nat : ~\E g : Upto(g, k)}
  <1> SUFFICES ASSUME Missing # {} PROVE FALSE
    BY DEF Course
  <1>1. PICK k \in Missing : \A j \in Missing : k <= j
    BY Least
  <1>2. k # 0
    <2> DEFINE g == [n \in 0..0 |-> d]
    <2>1. Upto(g, 0)
      OBVIOUS
    <2> QED  BY <2>1
  <1>3. k - 1 \in Nat /\ k - 1 \notin Missing
    BY SMTT(30), <1>1, <1>2
  <1>4. PICK f : Upto(f, k - 1)
    BY <1>3
  <1> DEFINE g == [n \in 0..k |-> IF n = k THEN OneStep(f[k - 1], ops[k]) ELSE f[n]]
  <1>5. Upto(g, k)
    <2> SUFFICES ASSUME NEW n \in 0..k
                 PROVE  g[n] = IF n = 0 THEN d ELSE OneStep(g[n - 1], ops[n])
      OBVIOUS
    <2>1. CASE n = k
      BY <2>1, <1>2, <1>3
    <2>2. CASE n # k
      <3>1. n \in 0..(k - 1) /\ g[n] = f[n] /\ (n # 0 => g[n - 1] = f[n - 1])
        BY <2>2, <1>3
      <3> QED  BY <3>1, <1>4
    <2> QED  BY <2>1, <2>2
  <1> QED  BY <1>5

\* What comes back from a batch is refused, or a sound definition of the same name.
LEMMA EditIsSound ==
  ASSUME NEW d \in Definition, NEW ops \in Seq(Operation)
  PROVE  /\ Edit(d, ops) \in Definition \cup {Refused}
         /\ Edit(d, ops) # Refused => Sound(Edit(d, ops)) /\ Edit(d, ops).name = d.name
  <1>1. Len(ops) \in Nat /\ \A n \in 1..Len(ops) : ops[n] \in Operation
    OBVIOUS
  <1> DEFINE g == CHOOSE g : g = [n \in 0..Len(ops) |->
                                     IF n = 0 THEN d ELSE OneStep(g[n - 1], ops[n])]
  <1>5. Course(g, d, ops)
    BY <1>1, CourseExists DEF Course
  <1>6. Edit(d, ops) = IF g[Len(ops)] = Refused THEN Refused
                       ELSE IF Sound(g[Len(ops)]) THEN g[Len(ops)] ELSE Refused
    BY DEF Edit
  <1> HIDE DEF g
  <1>2. /\ Course(g, d, ops)
        /\ Edit(d, ops) = IF g[Len(ops)] = Refused THEN Refused
                          ELSE IF Sound(g[Len(ops)]) THEN g[Len(ops)] ELSE Refused
    BY <1>5, <1>6
  <1> DEFINE Fine(x) == x = Refused \/ (x \in Definition /\ x.name = d.name)
             Bad == {n \in Nat : n <= Len(ops) /\ ~Fine(g[n])}
  <1>3. Bad = {}
    <2> SUFFICES ASSUME Bad # {} PROVE FALSE
      OBVIOUS
    <2>1. PICK n \in Bad : \A m \in Bad : n <= m
      BY Least
    <2>2. n # 0
      BY <1>1, <1>2 DEF Course
    <2>3. n - 1 \in Nat /\ Fine(g[n - 1]) /\ ops[n] \in Operation /\ n \in 1..Len(ops)
      BY <1>1, <2>1, <2>2
    <2>4. g[n] = OneStep(g[n - 1], ops[n])
      BY SMTT(30), <1>1, <1>2, <2>2, <2>3 DEF Course
    <2>5. Fine(OneStep(g[n - 1], ops[n]))
      BY <2>3, AppliedType DEF OneStep
    <2> QED  BY <2>1, <2>4, <2>5
  <1>4. Fine(g[Len(ops)])
    BY <1>1, <1>3
  <1> QED  BY <1>2, <1>4

\* A finite set has a sequence of its elements.
LEMMA SetToSeqType ==
  ASSUME NEW S, IsFiniteSet(S)
  PROVE  SetToSeq(S) \in Seq(S)
  <1>1. Cardinality(S) \in Nat /\ ExistsBijection(1..Cardinality(S), S)
    BY FS_CardinalityType
  <1>2. \E f \in [1..Cardinality(S) -> S] : IsInjective(f)
    BY <1>1 DEF ExistsBijection, Bijection, Injection
  <1>3. SetToSeq(S) \in [1..Cardinality(S) -> S]
    BY <1>2 DEF SetToSeq
  <1> QED  BY <1>1, <1>3

\* The gestures of a canvas are batches of operations.
LEMMA GesturesAreBatches ==
  ASSUME NEW d \in Definition, NEW k \in Kinds
  PROVE  Gestures(d, k) \subseteq Seq(Operation)
  <1>1. \A i \in Id, op \in OnBlock : Do(op, i) \in Operation
    BY DEF Do, Operation
  <1>2. \A i, j \in Id, op \in {"connect", "disconnect"} : Wire(op, i, j) \in Operation
    BY DEF Wire, Operation
  <1>3. d.blocks \subseteq Id /\ d.wires \subseteq Id \X Id /\ d.autostart \in BOOLEAN
    BY DEF Definition
  <1>4. \A o \in Operation : <<o>> \in Seq(Operation)
    OBVIOUS
  <1>5. \A o, p \in Operation : <<o, p>> \in Seq(Operation)
    OBVIOUS
  <1>6. \A i \in Id : Delete(d, i) \in Seq(Operation)
    <2> TAKE i \in Id
    <2> DEFINE S == {Wire("disconnect", w[1], w[2]) : w \in Touching(d, i)}
    <2>1. IsFiniteSet(Touching(d, i))
      <3>1. IsFiniteSet(Id \X Id)
        BY DesignerAssumption, FS_Product
      <3>2. Touching(d, i) \in SUBSET (Id \X Id)
        BY <1>3 DEF Touching
      <3> QED  BY <3>1, <3>2, FS_Subset
    <2>2. IsFiniteSet(S)
      <3> DEFINE f == [w \in Touching(d, i) |-> Wire("disconnect", w[1], w[2])]
      <3>1. f \in Surjection(Touching(d, i), S)
        BY DEF Surjection
      <3> QED  BY <2>1, <3>1, FS_Surjection
    <2>3. S \subseteq Operation
      BY <1>2, <1>3 DEF Touching
    <2>4. SetToSeq(S) \in Seq(Operation)
      BY <2>2, <2>3, SetToSeqType
    <2>5. <<Do("remove_block", i)>> \in Seq(Operation)
      BY <1>1, <1>4 DEF OnBlock
    <2> QED  BY <2>4, <2>5 DEF Delete
  <1>7. k \in {"toggle", "add", "drag", "connect", "disconnect", "delete", "configure", "clear"}
    BY DesignerAssumption
  <1>8. CASE k = "toggle"
    <2>1. [op |-> "set_autostart", to |-> ~d.autostart] \in Operation
      BY <1>3 DEF Operation
    <2> QED  BY <1>4, <1>8, <2>1 DEF Gestures
  <1>9. CASE k = "add"
    <2>1. Gestures(d, k) = {<<Do("add_block", i), Do("set_ui", i)>> : i \in Id \ d.blocks}
      BY <1>9 DEF Gestures
    <2>2. \A i \in Id : <<Do("add_block", i), Do("set_ui", i)>> \in Seq(Operation)
      BY <1>1, <1>5 DEF OnBlock
    <2> QED  BY <2>1, <2>2
  <1>10. CASE k = "drag"
    <2>1. Gestures(d, k) = {<<Do("set_ui", i)>> : i \in d.blocks}
      BY <1>10 DEF Gestures
    <2>2. \A i \in Id : <<Do("set_ui", i)>> \in Seq(Operation)
      BY <1>1, <1>4 DEF OnBlock
    <2> QED  BY <1>3, <2>1, <2>2
  <1>11. CASE k = "connect"
    <2>1. Gestures(d, k) = {<<Wire("connect", i, j)>> : i, j \in d.blocks}
      BY <1>11 DEF Gestures
    <2>2. \A i, j \in Id : <<Wire("connect", i, j)>> \in Seq(Operation)
      BY <1>2, <1>4
    <2>3. \A ops \in Gestures(d, k) : \E i, j \in Id : ops = <<Wire("connect", i, j)>>
      BY <1>3, <2>1
    <2> QED  BY <2>2, <2>3
  <1>12. CASE k = "disconnect"
    <2>1. Gestures(d, k) = {<<Wire("disconnect", w[1], w[2])>> : w \in d.wires}
      BY <1>12 DEF Gestures
    <2>2. \A i, j \in Id : <<Wire("disconnect", i, j)>> \in Seq(Operation)
      BY <1>2, <1>4
    <2> QED  BY <1>3, <2>1, <2>2
  <1>13. CASE k = "delete"
    BY <1>3, <1>6, <1>13 DEF Gestures
  <1>14. CASE k = "configure"
    <2>1. Gestures(d, k) = {<<[op |-> "set_prop", id |-> i, to |-> x], Do("set_name", i)>> :
                               i \in d.blocks, x \in {"sound", "unsound"}}
      BY <1>14 DEF Gestures
    <2>2. \A i \in Id, x \in {"sound", "unsound"} :
             [op |-> "set_prop", id |-> i, to |-> x] \in Operation /\ Do("set_name", i) \in Operation
      BY <1>1 DEF Operation, OnBlock
    <2>3. \A i \in Id, x \in {"sound", "unsound"} :
             <<[op |-> "set_prop", id |-> i, to |-> x], Do("set_name", i)>> \in Seq(Operation)
      BY <1>5, <2>2
    <2>4. \A ops \in Gestures(d, k) : \E i \in Id, x \in {"sound", "unsound"} :
             ops = <<[op |-> "set_prop", id |-> i, to |-> x], Do("set_name", i)>>
      BY <1>3, <2>1
    <2> QED  BY <2>3, <2>4
  <1>15. CASE k = "clear"
    <2>1. Gestures(d, k) = {<<Do("remove_prop", i), Do("remove_name", i)>> : i \in d.blocks}
      BY <1>15 DEF Gestures
    <2>2. \A i \in Id : <<Do("remove_prop", i), Do("remove_name", i)>> \in Seq(Operation)
      BY <1>1, <1>5 DEF OnBlock
    <2> QED  BY <1>3, <2>1, <2>2
  <1> QED  BY <1>7, <1>8, <1>9, <1>10, <1>11, <1>12, <1>13, <1>14, <1>15

-----------------------------------------------------------------------------
(* The inductive invariant of the edit path.                               *)

\* Where the edit under way is.
At(x) == edit # None /\ edit.pc = x

\* What waits in the queue.
Entry == [id : Edits, ops : Seq(Operation)]

\* What is being loaded.
Load == [n : Nat, why : {"edit", "select", "reload", "verb"}, pc : {"verb", "asked", "read"},
         at : Place, text : Definition \cup {Broken, None}]

Outcome == {"none", "queued", "ignored", "threw", "refused", "conflict", "invalid", "landed"}

Types ==
    /\ file \in [Place -> Definition \cup {Broken}]
    /\ selected \in Place \cup {None} /\ shown \in Definition \cup {None}
    /\ queue \in Seq(Entry)
    /\ edit \in Underway \cup {None} /\ (edit # None /\ ~At("transform") => edit.text # Refused)
    /\ loads \subseteq Load
    /\ \A l \in loads : l.pc = "read" => l.text # None
    /\ outcome \in [Edits -> Outcome]
    /\ calls \in Nat /\ outside \in Nat

\* No edit from e on has been answered, by the outcomes o.
Awaits(o, e) == \A f \in Edits : f >= e => o[f] \in {"none", "queued"}

\* Edits are answered in the order of their numbers, which is that of the gestures.
InLine ==
    /\ \A e, f \in Edits : e < f /\ outcome[f] # "none" => outcome[e] # "none"
    /\ \A i \in 1..Len(queue) : outcome[queue[i].id] = "queued" /\ Awaits(outcome, queue[i].id)
    /\ \A i, j \in 1..Len(queue) : i < j => queue[i].id < queue[j].id
    /\ edit # None =>
          /\ outcome[edit.id] = "queued" /\ Awaits(outcome, edit.id)
          /\ \A i \in 1..Len(queue) : edit.id < queue[i].id

\* The canvas nobody meddled with is the text of the edit, and lends it its tag.
Unmeddled ==
    edit # None /\ ~edit.meddled =>
        (edit.pc = "transform" => shown = edit.base) /\ (edit.pc = "put" => edit.tag = edit.base)

\* All that was asked went well, and nobody else edits.  The one call of such a tab
\* selected a service.
Quiet == outside = 0 /\ calls <= 1 /\ \A f \in Edits : outcome[f] # "threw"

\* Then what is on the canvas, and what is read for it, is what is on the node.
Fresh ==
    /\ calls = 0 => selected = None /\ shown = None /\ loads = {}
    /\ shown = None => edit = None /\ \A l \in loads : l.why = "select"
    /\ shown # None => selected # None /\ \A l \in loads : l.why = "edit" /\ At("refetch")
    /\ shown # None /\ ~At("written") /\ ~At("refetch") => shown = file[selected]
    /\ At("put") => edit.at = selected /\ edit.tag = shown
    /\ \A l \in loads : /\ l.at = selected /\ l.pc # "verb"
                        /\ l.pc = "read" => l.text = file[selected]
                        /\ loads = {l}

Inductive ==
    Types /\ InLine /\ Unmeddled /\ FilesAreSound /\ OwnEditsDoNotRace /\ (Quiet => Fresh)

-----------------------------------------------------------------------------
(* Lemmas about its parts.                                                 *)

\* The values that stand for nothing are nothing else.
LEMMA Nothing ==
  /\ \A e \in Underway : e # None
  /\ \A d \in Definition : d # None /\ d # Broken /\ d # Refused
  /\ \A p \in Place : p # None
  /\ Broken # None
  /\ MaxEdits \in Nat
  BY DesignerAssumption

\* What is in the queue is an entry.
LEMMA QueueEntries ==
  ASSUME Types
  PROVE  /\ Len(queue) \in Nat
         /\ \A i \in 1..Len(queue) : /\ queue[i] \in Entry /\ queue[i].id \in Edits
                                     /\ queue[i].ops \in Seq(Operation)
  <1>1. queue \in Seq(Entry)
    BY DEF Types
  <1>2. Len(queue) \in Nat /\ \A i \in 1..Len(queue) : queue[i] \in Entry
    BY <1>1
  <1>3. \A x \in Entry : x.id \in Edits /\ x.ops \in Seq(Operation)
    BY DEF Entry
  <1> QED  BY <1>2, <1>3

\* The order of the edits, where none is begun, added or answered.
LEMMA OrderKept ==
  ASSUME InLine, OwnEditsDoNotRace, calls \in Nat, outside \in Nat,
         UNCHANGED <<queue, outcome>>, calls' \in Nat, calls' >= calls, outside' \in Nat,
         outside' >= outside, edit' = None \/ (edit # None /\ edit'.id = edit.id)
  PROVE  InLine' /\ OwnEditsDoNotRace'
  BY DEF InLine, Awaits, OwnEditsDoNotRace

\* The edit under way is answered.  Those after it have had no answer yet, so a conflict
\* is explained by what came before it, or by others.
LEMMA FinishKeepsOrder ==
  ASSUME Inductive, edit # None, NEW o \in Outcome \ {"none", "queued"}, Finish(o),
         UNCHANGED <<queue, calls, outside>>, o = "conflict" => ~Quiet
  PROVE  InLine' /\ OwnEditsDoNotRace'
  <1> USE DEF Inductive
  <1>1. edit \in Underway /\ edit.id \in Edits /\ outcome \in [Edits -> Outcome]
    BY DEF Types, Underway
  <1>2. edit' = None /\ outcome'[edit.id] = o
        /\ \A f \in Edits : f # edit.id => outcome'[f] = outcome[f]
    BY <1>1 DEF Finish
  <1>3. Awaits(outcome, edit.id) /\ outcome[edit.id] = "queued"
        /\ \A i \in 1..Len(queue) : edit.id < queue[i].id
    BY <1>1 DEF InLine
  <1>4. \A f \in Edits : f \in Int
    BY DEF Edits
  <1>5. \A i \in 1..Len(queue) : queue[i].id \in Edits
    BY QueueEntries
  <1>6. InLine'
    <2>1. \A e, f \in Edits : e < f /\ outcome'[f] # "none" => outcome'[e] # "none"
      BY <1>2, <1>3 DEF InLine
    <2>2. \A i \in 1..Len(queue) : outcome'[queue[i].id] = "queued" /\ Awaits(outcome', queue[i].id)
      BY <1>2, <1>3, <1>4, <1>5 DEF InLine, Awaits
    <2> QED  BY <1>2, <2>1, <2>2 DEF InLine
  <1>7. OwnEditsDoNotRace'
    <2> SUFFICES ASSUME NEW e \in Edits, outcome'[e] = "conflict", outside = 0, calls <= 1
                 PROVE  \E f \in 1..(e - 1) : outcome'[f] = "threw"
      BY DEF OwnEditsDoNotRace, Types
    <2>1. CASE e # edit.id
      <3>1. PICK f \in 1..(e - 1) : outcome[f] = "threw"
        BY <1>2, <2>1 DEF OwnEditsDoNotRace, Types
      <3>2. f \in Edits /\ f # edit.id
        BY <1>3, <3>1, Nothing DEF Edits
      <3> QED  BY <1>2, <3>1, <3>2
    <2>2. CASE e = edit.id
      <3>1. PICK f \in Edits : outcome[f] = "threw"
        BY <1>2, <2>2 DEF Quiet
      <3>2. ~(f >= e)
        BY <1>3, <2>2, <3>1 DEF Awaits
      <3>3. f \in 1..(e - 1) /\ f # edit.id
        BY <2>2, <3>2 DEF Edits
      <3> QED  BY <1>2, <3>1, <3>3
    <2> QED  BY <2>1, <2>2
  <1> QED  BY <1>6, <1>7

\* A tab of which something is asked, or in which something goes wrong, is not quiet.
LEMMA QuietBefore ==
  ASSUME Types, Quiet', calls' \in Nat, calls' >= calls, outside' \in Nat, outside' >= outside,
         \A f \in Edits : outcome[f] = "threw" => outcome'[f] = "threw"
  PROVE  Quiet
  BY DEF Types, Quiet

-----------------------------------------------------------------------------
(* The steps of the edit path.                                             *)

\* A gesture joins the queue behind every edit made before it.
LEMMA GestureStep ==
  ASSUME Inductive, Gesture
  PROVE  Inductive'
  <1> USE DEF Inductive
  <1>a. PICK e \in Edits, k \in Kinds : \E ops \in Gestures(shown, k) :
           /\ outcome[e] = "none"
           /\ \A f \in Edits : f < e => outcome[f] # "none"
           /\ queue' = Append(queue, [id |-> e, ops |-> ops])
           /\ outcome' = [outcome EXCEPT ![e] = "queued"]
    BY DEF Gesture
  <1>1. PICK ops \in Gestures(shown, k) :
           /\ outcome[e] = "none"
           /\ \A f \in Edits : f < e => outcome[f] # "none"
           /\ queue' = Append(queue, [id |-> e, ops |-> ops])
           /\ outcome' = [outcome EXCEPT ![e] = "queued"]
    BY <1>a
  <1>2. UNCHANGED <<file, selected, shown, conflict, busy, edit, loads, calls, outside>>
    BY DEF Gesture, canvasVars, boundVars
  <1>3. shown \in Definition
    BY DEF Gesture, Types
  <1>4. ops \in Seq(Operation)
    BY <1>3, GesturesAreBatches
  <1>5. [id |-> e, ops |-> ops] \in Entry
    BY <1>4 DEF Entry
  <1>6. queue \in Seq(Entry) /\ Len(queue) \in Nat /\ outcome \in [Edits -> Outcome]
    BY QueueEntries DEF Types
  <1>7. /\ queue' \in Seq(Entry) /\ Len(queue') = Len(queue) + 1
        /\ \A i \in 1..Len(queue) : queue'[i] = queue[i]
        /\ queue'[Len(queue) + 1].id = e
    BY <1>1, <1>5, <1>6
  <1>8. outcome' \in [Edits -> Outcome] /\ outcome'[e] = "queued"
        /\ \A f \in Edits : f # e => outcome'[f] = outcome[f]
    BY <1>1, <1>6 DEF Outcome
  <1>9. Types'
    BY <1>2, <1>7, <1>8 DEF Types, At
  <1>10. \A f \in Edits : f \in Int
    BY DEF Edits
  <1>11. \A f \in Edits : outcome[f] # "none" => f < e
    BY <1>1, <1>10 DEF InLine
  <1>12. \A f \in Edits : Awaits(outcome, f) => Awaits(outcome', f)
    BY <1>8 DEF Awaits
  <1>13. \A i \in 1..Len(queue) : queue[i].id \in Edits /\ outcome[queue[i].id] = "queued" /\ Awaits(outcome, queue[i].id)
    BY QueueEntries DEF InLine
  <1>14. InLine'
    <2>1. \A g, f \in Edits : g < f /\ outcome'[f] # "none" => outcome'[g] # "none"
      BY <1>1, <1>8 DEF InLine
    <2>2. \A i \in 1..Len(queue') : outcome'[queue'[i].id] = "queued" /\ Awaits(outcome', queue'[i].id)
      <3>1. \A i \in 1..Len(queue) : outcome'[queue'[i].id] = "queued" /\ Awaits(outcome', queue'[i].id)
        BY <1>7, <1>8, <1>12, <1>13
      <3>2. Awaits(outcome', e)
        BY <1>8, <1>10, <1>11 DEF Awaits
      <3> QED  BY <1>6, <1>7, <1>8, <3>1, <3>2
    <2>3. \A i, j \in 1..Len(queue') : i < j => queue'[i].id < queue'[j].id
      <3>1. \A i, j \in 1..Len(queue) : i < j => queue'[i].id < queue'[j].id
        BY <1>7 DEF InLine
      <3>2. \A i \in 1..Len(queue) : queue'[i].id < e
        BY <1>7, <1>11, <1>13
      <3> QED  BY <1>6, <1>7, <3>1, <3>2
    <2>4. edit # None =>
            /\ outcome'[edit.id] = "queued" /\ Awaits(outcome', edit.id)
            /\ \A i \in 1..Len(queue') : edit.id < queue'[i].id
      <3> HAVE edit # None
      <3>1. edit.id \in Edits /\ outcome[edit.id] = "queued" /\ Awaits(outcome, edit.id)
        BY DEF Types, Underway, InLine
      <3>2. edit.id < e
        BY <1>11, <3>1
      <3>3. \A i \in 1..Len(queue) : edit.id < queue'[i].id
        BY <1>7 DEF InLine
      <3> QED  BY <1>6, <1>7, <1>8, <1>12, <3>1, <3>2, <3>3
    <2> QED  BY <1>2, <2>1, <2>2, <2>3, <2>4 DEF InLine
  <1>15. OwnEditsDoNotRace'
    <2> SUFFICES ASSUME NEW f \in Edits, outcome'[f] = "conflict", outside = 0, calls <= 1
                 PROVE  \E g \in 1..(f - 1) : outcome'[g] = "threw"
      BY <1>2 DEF OwnEditsDoNotRace, Types
    <2>1. outcome[f] = "conflict"
      BY <1>8
    <2>2. PICK g \in 1..(f - 1) : outcome[g] = "threw"
      BY <2>1 DEF OwnEditsDoNotRace, Types
    <2>3. g \in Edits /\ g # e
      BY <1>1, <2>2, Nothing DEF Edits
    <2> QED  BY <1>8, <2>2, <2>3
  <1>16. Unmeddled' /\ FilesAreSound'
    BY <1>2 DEF Unmeddled, FilesAreSound
  <1>17. Quiet' => Quiet
    BY <1>1, <1>2, <1>8, QuietBefore DEF Types
  <1>18. Fresh => Fresh'
    BY <1>2 DEF Fresh, At
  <1> QED  BY <1>9, <1>14, <1>15, <1>16, <1>17, <1>18

\* An edit begins with what is on the canvas, which a quiet tab has from the node.
LEMMA BeginStep ==
  ASSUME Inductive, Begin
  PROVE  Inductive'
  <1> USE DEF Inductive
  <1>1. UNCHANGED <<file, selected, shown, conflict, loads, outcome, calls, outside>>
    BY DEF Begin, canvasVars, boundVars
  <1>2. queue \in Seq(Entry) /\ queue # <<>> /\ queue' = Tail(queue) /\ edit = None
    BY DEF Begin, Types
  <1>3. Len(queue) \in Nat /\ Len(queue) > 0 /\ Head(queue) = queue[1] /\ queue[1] \in Entry
    BY <1>2
  <1>4. /\ queue' \in Seq(Entry) /\ Len(queue') = Len(queue) - 1
        /\ \A i \in 1..Len(queue') : i + 1 \in 1..Len(queue) /\ queue'[i] = queue[i + 1]
    BY <1>2, <1>3
  <1>5. queue[1].id \in Edits /\ queue[1].ops \in Seq(Operation)
    BY <1>3, QueueEntries
  <1>6. edit' = [pc |-> "transform", id |-> queue[1].id,
                 base |-> shown, text |-> Edit(shown, queue[1].ops),
                 at |-> selected, tag |-> shown, meddled |-> FALSE]
    BY <1>3 DEF Begin
  <1>7. shown \in Definition /\ selected \in Place
    BY DEF Begin, Types
  <1>8. Edit(shown, queue[1].ops) \in Definition \cup {Refused}
    BY <1>5, <1>7, EditIsSound
  <1> HIDE DEF Inductive
  <1>9. edit' \in Underway /\ edit' # None
    <2>1. edit' \in Underway
      BY <1>5, <1>6, <1>7, <1>8 DEF Underway
    <2> QED  BY <2>1, Nothing
  <1> USE DEF Inductive
  <1>10. /\ edit'.pc = "transform" /\ edit'.id = queue[1].id
         /\ edit'.base = shown
    BY <1>6
  <1>11. Types'
    BY <1>1, <1>4, <1>9, <1>10 DEF Types, At
  <1>12. InLine'
    <2>1. \A i \in 1..Len(queue') : outcome[queue'[i].id] = "queued" /\ Awaits(outcome, queue'[i].id)
      BY <1>4 DEF InLine
    <2>2. \A i, j \in 1..Len(queue') : i < j => queue'[i].id < queue'[j].id
      BY SMTT(30), <1>3, <1>4 DEF InLine
    <2>3. /\ outcome[queue[1].id] = "queued" /\ Awaits(outcome, queue[1].id)
          /\ \A i \in 1..Len(queue') : queue[1].id < queue'[i].id
      BY <1>3, <1>4 DEF InLine
    <2> QED  BY <1>1, <1>10, <2>1, <2>2, <2>3 DEF InLine, Awaits
  <1>13. OwnEditsDoNotRace' /\ Unmeddled' /\ FilesAreSound'
    BY <1>1, <1>10 DEF OwnEditsDoNotRace, Unmeddled, FilesAreSound
  <1>14. (Quiet' => Quiet) /\ (Fresh => Fresh')
    <2>1. Quiet' => Quiet
      BY <1>1 DEF Quiet
    <2>2. ASSUME Fresh PROVE loads = {} /\ shown = file[selected]
      BY <1>2, <1>7, <2>2, Nothing DEF Fresh, At
    <2>3. Fresh => Fresh'
      BY <1>1, <1>2, <1>7, <1>10, <2>2, Nothing DEF Fresh, At
    <2> QED  BY <2>1, <2>3
  <1> QED  BY <1>11, <1>12, <1>13, <1>14

\* An edit of an empty canvas is answered in its turn.
LEMMA BeginNothingStep ==
  ASSUME Inductive, BeginNothing
  PROVE  Inductive'
  <1> USE DEF Inductive
  <1>1. UNCHANGED <<file, selected, shown, conflict, busy, edit, loads, calls, outside>>
    BY DEF BeginNothing, canvasVars, boundVars
  <1>2. queue \in Seq(Entry) /\ queue # <<>> /\ queue' = Tail(queue) /\ edit = None
    BY DEF BeginNothing, Types
  <1>3. Len(queue) \in Nat /\ Len(queue) > 0 /\ Head(queue) = queue[1] /\ queue[1] \in Entry
    BY <1>2
  <1>4. /\ queue' \in Seq(Entry) /\ Len(queue') = Len(queue) - 1
        /\ \A i \in 1..Len(queue') : i + 1 \in 1..Len(queue) /\ queue'[i] = queue[i + 1]
    BY <1>2, <1>3
  <1>5. \A i \in 1..Len(queue) : queue[i].id \in Edits
    BY QueueEntries
  <1> DEFINE b == queue[1].id
  <1>6. b \in Edits /\ outcome \in [Edits -> Outcome] /\ outcome[b] = "queued" /\ Awaits(outcome, b)
        /\ \A i \in 1..Len(queue') : b < queue'[i].id
    BY SMTT(30), <1>3, <1>4, <1>5 DEF InLine, Types
  <1>7. outcome' \in [Edits -> Outcome] /\ outcome'[b] = "ignored"
        /\ \A f \in Edits : f # b => outcome'[f] = outcome[f]
    <2>1. outcome' = [outcome EXCEPT ![b] = "ignored"]
      BY <1>3 DEF BeginNothing
    <2> QED  BY <1>6, <2>1 DEF Outcome
  <1> HIDE DEF b
  <1>8. Types'
    BY <1>1, <1>4, <1>7 DEF Types, At
  <1>9. \A f \in Edits : f \in Int
    BY DEF Edits
  <1>10. InLine'
    <2>1. \A e, f \in Edits : e < f /\ outcome'[f] # "none" => outcome'[e] # "none"
      BY <1>7, <1>6 DEF InLine
    <2>2. \A i \in 1..Len(queue') : outcome[queue'[i].id] = "queued" /\ Awaits(outcome, queue'[i].id)
                                    /\ queue'[i].id \in Edits
      BY <1>4, <1>5 DEF InLine
    <2>3. \A i \in 1..Len(queue') : outcome'[queue'[i].id] = "queued" /\ Awaits(outcome', queue'[i].id)
      BY <1>6, <1>7, <1>9, <2>2 DEF Awaits
    <2>4. \A i, j \in 1..Len(queue') : i < j => queue'[i].id < queue'[j].id
      BY SMTT(30), <1>3, <1>4 DEF InLine
    <2> QED  BY <1>1, <1>2, <2>1, <2>3, <2>4 DEF InLine
  <1>11. OwnEditsDoNotRace'
    <2> SUFFICES ASSUME NEW f \in Edits, outcome'[f] = "conflict", outside = 0, calls <= 1
                 PROVE  \E g \in 1..(f - 1) : outcome'[g] = "threw"
      BY <1>1 DEF OwnEditsDoNotRace, Types
    <2>1. outcome[f] = "conflict"
      BY <1>7
    <2>2. PICK g \in 1..(f - 1) : outcome[g] = "threw"
      BY <2>1 DEF OwnEditsDoNotRace, Types
    <2>3. g \in Edits /\ g # b
      BY <1>6, <2>2, Nothing DEF Edits
    <2> QED  BY <1>7, <2>2, <2>3
  <1>12. Unmeddled' /\ FilesAreSound'
    BY <1>1 DEF Unmeddled, FilesAreSound
  <1>13. (Quiet' => Quiet) /\ (Fresh => Fresh')
    <2>1. Quiet' => Quiet
      BY <1>1, <1>6, <1>7, QuietBefore DEF Types
    <2>2. Fresh => Fresh'
      BY <1>1 DEF Fresh, At
    <2> QED  BY <2>1, <2>2
  <1> QED  BY <1>8, <1>10, <1>11, <1>12, <1>13

\* What is known of the edit under way.
LEMMA UnderwayIs ==
  ASSUME Types, edit # None
  PROVE  /\ edit \in Underway /\ edit.id \in Edits /\ edit.at \in Place
         /\ edit.pc \in {"transform", "put", "written", "refetch"}
         /\ edit.base \in Definition /\ edit.tag \in Definition
         /\ edit.text \in Definition \cup {Refused}
         /\ edit.pc # "transform" => edit.text \in Definition
  BY DEF Types, Underway, At

\* The answer to an edit, where the file and the canvas stay as they are and no load
\* is added.
LEMMA AnsweredStep ==
  ASSUME Inductive, edit # None, NEW o \in Outcome \ {"none", "queued"}, Finish(o),
         UNCHANGED <<file, selected, shown, queue, calls, outside>>, loads' \subseteq loads,
         o = "conflict" => ~Quiet,
         o # "threw" => UNCHANGED loads /\ (Fresh => shown = file[selected] /\ ~At("refetch"))
  PROVE  Inductive'
  <1> USE DEF Inductive
  <1>1. InLine' /\ OwnEditsDoNotRace'
    BY FinishKeepsOrder
  <1>2. edit.id \in Edits /\ outcome \in [Edits -> Outcome] /\ edit' = None
        /\ outcome' = [outcome EXCEPT ![edit.id] = o]
    BY UnderwayIs DEF Types, Finish
  <1>3. outcome' \in [Edits -> Outcome] /\ outcome'[edit.id] = o
        /\ \A f \in Edits : f # edit.id => outcome'[f] = outcome[f]
    BY <1>2
  <1>4. Types'
    BY <1>2, <1>3 DEF Types, At
  <1>5. Unmeddled' /\ FilesAreSound'
    BY <1>2 DEF Unmeddled, FilesAreSound
  <1>6. outcome[edit.id] = "queued"
    BY <1>2 DEF InLine
  <1>7. Quiet' => Quiet /\ o # "threw"
    BY <1>2, <1>3, <1>6, QuietBefore DEF Types, Quiet
  <1>8. ASSUME Fresh, o # "threw" PROVE Fresh'
    <2>1. shown = file[selected] /\ ~At("refetch") /\ UNCHANGED <<file, selected, shown, loads, calls>>
      BY <1>8
    <2>2. edit' = None
      BY <1>2
    <2> QED  BY <1>8, <2>1, <2>2 DEF Fresh, At
  <1> QED  BY <1>1, <1>4, <1>5, <1>7, <1>8

\* The transform answers: the tag of the PUT is that of the canvas now.
LEMMA TransformedStep ==
  ASSUME Inductive, Transformed
  PROVE  Inductive'
  <1> USE DEF Inductive
  <1>1. UNCHANGED <<file, selected, shown, conflict, busy, queue, loads, outcome, calls, outside>>
    BY DEF Transformed, canvasVars, boundVars
  <1>2. edit # None /\ edit.pc = "transform" /\ edit.text # Refused
        /\ edit' = [edit EXCEPT !.pc = "put", !.at = selected, !.tag = shown]
    BY DEF Transformed
  <1>3. selected \in Place /\ shown \in Definition /\ edit \in Underway
    BY <1>2 DEF Transformed, Types
  <1>4. edit' \in Underway /\ edit' # None
    <2>1. edit' \in Underway
      BY <1>2, <1>3 DEF Underway
    <2> QED  BY <2>1, Nothing
  <1>5. /\ edit'.pc = "put" /\ edit'.at = selected /\ edit'.tag = shown
        /\ edit'.id = edit.id /\ edit'.base = edit.base /\ edit'.text = edit.text
        /\ edit'.meddled = edit.meddled
    BY <1>2, <1>3 DEF Underway
  <1>6. Types'
    BY <1>1, <1>2, <1>4, <1>5 DEF Types, At
  <1>7. InLine' /\ OwnEditsDoNotRace'
    BY <1>1, <1>2, <1>5, OrderKept DEF Types
  <1>8. Unmeddled' /\ FilesAreSound'
    BY <1>1, <1>2, <1>5 DEF Unmeddled, FilesAreSound
  <1>9. Quiet' => Quiet
    BY <1>1 DEF Quiet
  <1>10. Fresh => Fresh'
    BY <1>1, <1>2, <1>3, <1>4, <1>5, Nothing DEF Fresh, At
  <1> QED  BY <1>6, <1>7, <1>8, <1>9, <1>10

\* It answers after the canvas went away: the edit throws.
LEMMA TransformedTooLateStep ==
  ASSUME Inductive, TransformedTooLate
  PROVE  Inductive'
  BY AnsweredStep DEF TransformedTooLate, canvasVars, boundVars, Outcome

\* It refuses the batch: the canvas and the node stay as they were.
LEMMA TransformRefusedStep ==
  ASSUME Inductive, TransformRefused
  PROVE  Inductive'
  <1>1. /\ edit # None /\ edit.pc = "transform" /\ Finish("refused")
        /\ UNCHANGED <<file, selected, shown, queue, loads, calls, outside>>
    BY DEF TransformRefused, canvasVars, boundVars
  <1>2. Fresh => shown = file[selected] /\ ~At("refetch")
    BY <1>1 DEF Fresh, At
  <1>3. "refused" \in Outcome \ {"none", "queued"}
    BY DEF Outcome
  <1> QED  BY <1>1, <1>2, <1>3, AnsweredStep

\* A PUT is stale only where the tab is not quiet.
LEMMA PutStaleStep ==
  ASSUME Inductive, PutStale
  PROVE  Inductive'
  <1>1. /\ edit # None /\ edit.pc = "put" /\ Finish("conflict") /\ file[edit.at] # edit.tag
        /\ UNCHANGED <<file, selected, shown, queue, loads, calls, outside>>
    BY DEF PutStale, Stale, boundVars
  <1>2. Fresh => shown = file[selected] /\ ~At("refetch") /\ edit.at = selected /\ edit.tag = shown
    BY <1>1 DEF Fresh, At
  <1>3. ~Quiet
    BY <1>1, <1>2 DEF Inductive
  <1>4. "conflict" \in Outcome \ {"none", "queued"}
    BY DEF Outcome
  <1> QED  BY <1>1, <1>2, <1>3, <1>4, AnsweredStep

\* A PUT the node finds invalid leaves the file as it was.
LEMMA PutInvalidStep ==
  ASSUME Inductive, PutInvalid
  PROVE  Inductive'
  <1>1. /\ edit # None /\ edit.pc = "put" /\ Finish("invalid")
        /\ UNCHANGED <<file, selected, shown, queue, loads, calls, outside>>
    BY DEF PutInvalid, canvasVars, boundVars
  <1>2. Fresh => shown = file[selected] /\ ~At("refetch")
    BY <1>1 DEF Fresh, At
  <1>3. "invalid" \in Outcome \ {"none", "queued"}
    BY DEF Outcome
  <1> QED  BY <1>1, <1>2, <1>3, AnsweredStep

\* An edit that throws makes the tab one in which something went wrong.
LEMMA ThrowsStep ==
  ASSUME Inductive, Throws
  PROVE  Inductive'
  BY AnsweredStep DEF Throws, canvasVars, boundVars, Outcome

\* A PUT that is written leaves a service file under its own name.
LEMMA PutStep ==
  ASSUME Inductive, Put
  PROVE  Inductive'
  <1> USE DEF Inductive
  <1>1. UNCHANGED <<selected, shown, conflict, busy, queue, loads, outcome, calls, outside>>
    BY DEF Put, canvasVars, boundVars
  <1>2. /\ edit # None /\ edit.pc = "put" /\ ~Invalid(edit.at, edit.text)
        /\ file' = [file EXCEPT ![edit.at] = edit.text]
        /\ edit' = [edit EXCEPT !.pc = "written"]
    BY DEF Put
  <1>3. edit \in Underway /\ edit.at \in Place /\ edit.text \in Definition
    BY <1>2, UnderwayIs
  <1>4. edit' \in Underway /\ edit' # None
    <2>1. edit' \in Underway
      BY <1>2, <1>3 DEF Underway
    <2> QED  BY <2>1, Nothing
  <1>5. edit'.pc = "written" /\ edit'.id = edit.id /\ edit'.text = edit.text
    BY <1>2, <1>3 DEF Underway
  <1>6. file \in [Place -> Definition \cup {Broken}]
    BY DEF Types
  <1>7. /\ file' \in [Place -> Definition \cup {Broken}]
        /\ file'[edit.at] = edit.text
        /\ \A p \in Place : p # edit.at => file'[p] = file[p]
    BY <1>2, <1>3, <1>6
  <1>8. Types'
    BY <1>1, <1>3, <1>4, <1>5, <1>7, Nothing DEF Types, At
  <1>9. InLine' /\ OwnEditsDoNotRace'
    BY <1>1, <1>2, <1>5, OrderKept DEF Types
  <1>10. Unmeddled'
    BY <1>5 DEF Unmeddled
  <1>11. FilesAreSound'
    BY <1>2, <1>3, <1>7 DEF FilesAreSound, Invalid
  <1>12. Quiet' => Quiet
    BY <1>1 DEF Quiet
  <1>13. ASSUME Fresh PROVE Fresh'
    <2>1. shown # None /\ loads = {}
      BY <1>2, <1>13 DEF Fresh, At
    <2> QED  BY <1>1, <1>4, <1>5, <1>13, <2>1 DEF Fresh, At
  <1> QED  BY <1>8, <1>9, <1>10, <1>11, <1>12, <1>13

\* What is asked for is a load.
LEMMA AskIsALoad ==
  ASSUME Types, NEW why \in {"edit", "select", "reload", "verb"}, NEW pc \in {"verb", "asked"},
         NEW p \in Place
  PROVE  /\ Ask(why, pc, p) \in Load
         /\ Ask(why, pc, p).why = why /\ Ask(why, pc, p).pc = pc /\ Ask(why, pc, p).at = p
  BY DEF Types, Ask, Load

\* What was written is asked for, by the only load of a quiet tab.
LEMMA RefetchStep ==
  ASSUME Inductive, Refetch
  PROVE  Inductive'
  <1> USE DEF Inductive
  <1>1. UNCHANGED <<file, selected, shown, conflict, busy, queue, outcome, calls, outside>>
    BY DEF Refetch, canvasVars, boundVars
  <1> DEFINE a == Ask("edit", "asked", selected)
  <1>2. /\ edit # None /\ edit.pc = "written" /\ selected \in Place
        /\ edit' = [edit EXCEPT !.pc = "refetch"]
        /\ loads' = loads \cup {a}
    BY DEF Refetch, Types
  <1>3. a \in Load /\ a.why = "edit" /\ a.pc = "asked" /\ a.at = selected
    BY <1>2, AskIsALoad
  <1> HIDE DEF a
  <1>4. edit \in Underway /\ edit.text # Refused
    BY <1>2, UnderwayIs DEF Types, At
  <1>5. edit' \in Underway /\ edit' # None
    <2>1. edit' \in Underway
      BY <1>2, <1>4 DEF Underway
    <2> QED  BY <2>1, Nothing
  <1>6. edit'.pc = "refetch" /\ edit'.id = edit.id /\ edit'.text = edit.text
    BY <1>2, <1>4 DEF Underway
  <1>7. Types'
    BY <1>1, <1>2, <1>3, <1>4, <1>5, <1>6 DEF Types, At
  <1>8. InLine' /\ OwnEditsDoNotRace'
    BY <1>1, <1>2, <1>6, OrderKept DEF Types
  <1>9. Unmeddled' /\ FilesAreSound'
    BY <1>1, <1>6 DEF Unmeddled, FilesAreSound
  <1>10. Quiet' => Quiet
    BY <1>1 DEF Quiet
  <1>11. ASSUME Fresh PROVE Fresh'
    <2>1. shown # None /\ loads = {} /\ calls # 0
      BY <1>2, <1>11, Nothing DEF Fresh, At
    <2>2. loads' = {a}
      BY <1>2, <2>1
    <2> QED  BY <1>1, <1>2, <1>3, <1>5, <1>6, <1>11, <2>1, <2>2 DEF Fresh, At
  <1> QED  BY <1>7, <1>8, <1>9, <1>10, <1>11

-----------------------------------------------------------------------------
(* The steps of what else changes the canvas.                              *)

\* Whatever meddles with the canvas leaves the edit where it was, and marks it as long
\* as the transform has its text.
LEMMA MeddleIs ==
  ASSUME Types, Meddle
  PROVE  /\ edit = None => edit' = None
         /\ edit # None => /\ edit' \in Underway /\ edit' # None
                           /\ edit'.pc = edit.pc /\ edit'.id = edit.id /\ edit'.text = edit.text
                           /\ edit'.tag = edit.tag /\ edit'.base = edit.base
                           /\ edit.pc = "transform" => edit'.meddled
                           /\ edit.pc # "transform" => edit' = edit
  <1>1. CASE edit = None
    BY <1>1 DEF Meddle
  <1>2. CASE edit # None /\ edit.pc # "transform"
    BY <1>2 DEF Meddle, Types
  <1>3. CASE edit # None /\ edit.pc = "transform"
    <2>1. edit \in Underway /\ edit' = [edit EXCEPT !.meddled = TRUE]
      BY <1>3 DEF Meddle, Types
    <2>2. edit' \in Underway
      BY <2>1 DEF Underway
    <2>3. /\ edit'.pc = edit.pc /\ edit'.id = edit.id /\ edit'.text = edit.text
          /\ edit'.tag = edit.tag /\ edit'.base = edit.base /\ edit'.meddled
      BY <2>1 DEF Underway
    <2> QED  BY <1>3, <2>2, <2>3, Nothing
  <1> QED  BY <1>1, <1>2, <1>3

\* What a step that meddles keeps, whatever it does to the canvas.
LEMMA MeddleKeeps ==
  ASSUME Inductive, Meddle, UNCHANGED <<file, queue, outcome, outside>>,
         calls' \in Nat, calls' >= calls,
         selected' \in Place \cup {None}, shown' \in Definition \cup {None},
         loads' \subseteq Load, \A l \in loads' : l.pc = "read" => l.text # None
  PROVE  Types' /\ InLine' /\ OwnEditsDoNotRace' /\ Unmeddled' /\ FilesAreSound'
  <1> USE DEF Inductive
  <1>1. Types'
    BY MeddleIs DEF Types, At
  <1>2. InLine' /\ OwnEditsDoNotRace'
    BY MeddleIs, OrderKept DEF Types
  <1>3. Unmeddled'
    BY MeddleIs DEF Unmeddled
  <1>4. FilesAreSound'
    BY DEF FilesAreSound
  <1> QED  BY <1>1, <1>2, <1>3, <1>4

\* What a step keeps that leaves the canvas and the edit alone.
LEMMA AloneKeeps ==
  ASSUME Inductive, UNCHANGED <<file, selected, shown, edit, queue, outcome, outside>>,
         calls' \in Nat, calls' >= calls,
         loads' \subseteq Load, \A l \in loads' : l.pc = "read" => l.text # None
  PROVE  Types' /\ InLine' /\ OwnEditsDoNotRace' /\ Unmeddled' /\ FilesAreSound'
  <1> USE DEF Inductive
  <1>1. Types'
    BY DEF Types, At
  <1>2. InLine' /\ OwnEditsDoNotRace'
    BY OrderKept DEF Types
  <1>3. Unmeddled' /\ FilesAreSound'
    BY DEF FilesAreSound, Unmeddled
  <1> QED  BY <1>1, <1>2, <1>3

\* A second call, or a first one with something on the canvas, is not of a quiet tab.
LEMMA FirstCall ==
  ASSUME Inductive, Call, Quiet', UNCHANGED <<outcome, outside>>
  PROVE  calls = 0 /\ calls' = 1 /\ selected = None /\ shown = None /\ loads = {} /\ edit = None
  <1>1. calls \in Nat /\ calls' = calls + 1 /\ calls' <= 1
    BY DEF Inductive, Types, Call, Quiet
  <1>2. Quiet
    BY <1>1 DEF Quiet
  <1> QED  BY <1>1, <1>2 DEF Inductive, Fresh

\* The first service selected is the only load of a quiet tab.
LEMMA SelectStep ==
  ASSUME Inductive, NEW p \in Place, Select(p)
  PROVE  Inductive'
  <1> DEFINE a == Ask("select", "asked", p)
  <1>1. Types
    BY DEF Inductive
  <1>2. /\ Call /\ selected' = p /\ shown' = None /\ loads' = loads \cup {a} /\ Meddle
        /\ UNCHANGED <<file, queue, outcome, outside>>
    BY DEF Select
  <1>3. a \in Load /\ a.why = "select" /\ a.pc = "asked" /\ a.at = p
    BY <1>1, AskIsALoad
  <1> HIDE DEF a
  <1>4. calls' \in Nat /\ calls' >= calls
    BY <1>1, <1>2 DEF Types, Call
  <1>5. loads' \subseteq Load /\ \A l \in loads' : l.pc = "read" => l.text # None
    BY <1>1, <1>2, <1>3 DEF Types
  <1>6. Types' /\ InLine' /\ OwnEditsDoNotRace' /\ Unmeddled' /\ FilesAreSound'
    BY <1>2, <1>4, <1>5, MeddleKeeps
  <1>7. ASSUME Quiet' PROVE Fresh'
    <2>1. calls' = 1 /\ loads = {} /\ edit = None
      BY <1>2, <1>7, FirstCall
    <2>2. edit' = None /\ loads' = {a}
      BY <1>1, <1>2, <2>1, MeddleIs
    <2> QED  BY <1>2, <1>3, <2>1, <2>2 DEF Fresh, At
  <1> QED  BY <1>6, <1>7 DEF Inductive

\* Signing out of something is a second call.
LEMMA SignOutStep ==
  ASSUME Inductive, SignOut
  PROVE  Inductive'
  <1>1. Types
    BY DEF Inductive
  <1>2. /\ Call /\ selected # None /\ selected' = None /\ shown' = None /\ Meddle
        /\ UNCHANGED <<file, queue, loads, outcome, outside>>
    BY DEF SignOut
  <1>3. calls' \in Nat /\ calls' >= calls
    BY <1>1, <1>2 DEF Types, Call
  <1>4. loads' \subseteq Load /\ \A l \in loads' : l.pc = "read" => l.text # None
    BY <1>1, <1>2 DEF Types
  <1>5. Types' /\ InLine' /\ OwnEditsDoNotRace' /\ Unmeddled' /\ FilesAreSound'
    BY <1>2, <1>3, <1>4, MeddleKeeps
  <1>6. ~Quiet'
    BY <1>2, FirstCall
  <1> QED  BY <1>5, <1>6 DEF Inductive

\* Reloading from the banner is a second call.
LEMMA ReloadLatestStep ==
  ASSUME Inductive, ReloadLatest
  PROVE  Inductive'
  <1> DEFINE a == Ask("reload", "asked", selected)
  <1>1. Types
    BY DEF Inductive
  <1>2. /\ Call /\ selected # None /\ loads' = loads \cup {a}
        /\ UNCHANGED <<file, selected, shown, edit, queue, outcome, outside>>
    BY DEF ReloadLatest
  <1>3. a \in Load /\ a.pc = "asked"
    BY <1>1, <1>2, AskIsALoad DEF Types
  <1> HIDE DEF a
  <1>4. calls' \in Nat /\ calls' >= calls
    BY <1>1, <1>2 DEF Types, Call
  <1>5. loads' \subseteq Load /\ \A l \in loads' : l.pc = "read" => l.text # None
    BY <1>1, <1>2, <1>3 DEF Types
  <1>6. Types' /\ InLine' /\ OwnEditsDoNotRace' /\ Unmeddled' /\ FilesAreSound'
    BY <1>2, <1>4, <1>5, AloneKeeps
  <1>7. ~Quiet'
    BY <1>2, FirstCall
  <1> QED  BY <1>6, <1>7 DEF Inductive

\* Dismissing the banner changes nothing else.
LEMMA DismissStep ==
  ASSUME Inductive, Dismiss
  PROVE  Inductive'
  <1>1. UNCHANGED <<file, selected, shown, edit, queue, loads, outcome, calls, outside>>
    BY DEF Dismiss, boundVars
  <1>2. Types' /\ InLine' /\ OwnEditsDoNotRace' /\ Unmeddled' /\ FilesAreSound'
    BY <1>1, AloneKeeps DEF Inductive, Types
  <1>3. (Quiet' => Quiet) /\ (Fresh => Fresh')
    BY <1>1 DEF Quiet, Fresh, At
  <1> QED  BY <1>2, <1>3 DEF Inductive

\* A lifecycle call for what is selected is a second call.
LEMMA LifecycleStep ==
  ASSUME Inductive, Lifecycle
  PROVE  Inductive'
  <1> DEFINE a == Ask("verb", "verb", selected)
  <1>1. Types
    BY DEF Inductive
  <1>2. /\ Call /\ selected # None /\ loads' = loads \cup {a}
        /\ UNCHANGED <<file, selected, shown, edit, queue, outcome, outside>>
    BY DEF Lifecycle, canvasVars
  <1>3. a \in Load /\ a.pc = "verb"
    BY <1>1, <1>2, AskIsALoad DEF Types
  <1> HIDE DEF a
  <1>4. calls' \in Nat /\ calls' >= calls
    BY <1>1, <1>2 DEF Types, Call
  <1>5. loads' \subseteq Load /\ \A l \in loads' : l.pc = "read" => l.text # None
    BY <1>1, <1>2, <1>3 DEF Types
  <1>6. Types' /\ InLine' /\ OwnEditsDoNotRace' /\ Unmeddled' /\ FilesAreSound'
    BY <1>2, <1>4, <1>5, AloneKeeps
  <1>7. ~Quiet'
    BY <1>2, FirstCall
  <1> QED  BY <1>6, <1>7 DEF Inductive

\* So is what comes of it.
LEMMA LifecycleDoneStep ==
  ASSUME Inductive, NEW l \in loads, LifecycleDone(l)
  PROVE  Inductive'
  <1>1. Types /\ l \in Load /\ l.pc = "verb" /\ selected \in Place
    BY DEF Inductive, Types, LifecycleDone
  <1> DEFINE a == [l EXCEPT !.pc = "asked", !.at = selected]
  <1>2. /\ loads' = (loads \ {l}) \cup {a}
        /\ UNCHANGED <<file, selected, shown, edit, queue, outcome, calls, outside>>
    BY DEF LifecycleDone, canvasVars, boundVars
  <1>3. a \in Load /\ a.pc = "asked"
    BY <1>1 DEF Load
  <1> HIDE DEF a
  <1>4. loads' \subseteq Load /\ \A m \in loads' : m.pc = "read" => m.text # None
    BY <1>1, <1>2, <1>3 DEF Types
  <1>5. Types' /\ InLine' /\ OwnEditsDoNotRace' /\ Unmeddled' /\ FilesAreSound'
    BY <1>1, <1>2, <1>4, AloneKeeps DEF Types
  <1>6. ~Quiet'
    <2>1. ~Fresh
      BY <1>1 DEF Fresh
    <2> QED  BY <1>2, <2>1 DEF Inductive, Quiet
  <1> QED  BY <1>5, <1>6 DEF Inductive

\* What is read of a file is what is on the node.
LEMMA ReadStep ==
  ASSUME Inductive, NEW l \in loads, Read(l)
  PROVE  Inductive'
  <1>1. Types /\ l \in Load /\ l.pc = "asked" /\ l.at \in Place
    BY DEF Inductive, Types, Read, Load
  <1> DEFINE a == [l EXCEPT !.pc = "read", !.text = file[l.at]]
  <1>2. /\ loads' = (loads \ {l}) \cup {a}
        /\ UNCHANGED <<file, selected, shown, edit, queue, outcome, calls, outside>>
    BY DEF Read, canvasVars, boundVars
  <1>3. file[l.at] \in Definition \cup {Broken} /\ file[l.at] # None
    <2>1. file[l.at] \in Definition \cup {Broken}
      BY <1>1 DEF Types
    <2> QED  BY <2>1, Nothing
  <1>4. a \in Load /\ a.pc = "read" /\ a.text = file[l.at] /\ a.at = l.at /\ a.why = l.why
    BY <1>1, <1>3 DEF Load
  <1> HIDE DEF a
  <1>5. loads' \subseteq Load /\ \A m \in loads' : m.pc = "read" => m.text # None
    BY <1>1, <1>2, <1>3, <1>4 DEF Types
  <1>6. Types' /\ InLine' /\ OwnEditsDoNotRace' /\ Unmeddled' /\ FilesAreSound'
    BY <1>1, <1>2, <1>5, AloneKeeps DEF Types
  <1>7. Quiet' => Quiet
    BY <1>2 DEF Quiet
  <1>8. ASSUME Fresh PROVE Fresh'
    <2>1. loads' = {a} /\ l.at = selected
      BY <1>2, <1>8 DEF Fresh
    <2> QED  BY <1>2, <1>4, <1>8, <2>1 DEF Fresh, At
  <1> QED  BY <1>6, <1>7, <1>8 DEF Inductive

\* What arrives for a quiet tab is what is on the node.
LEMMA ArriveStep ==
  ASSUME Inductive, NEW l \in loads, Arrive(l)
  PROVE  Inductive'
  <1>1. /\ Types /\ l \in Load /\ l.pc = "read" /\ l.why # "edit" /\ l.text # Broken /\ Meddle
        /\ shown' = l.text /\ loads' = loads \ {l}
        /\ UNCHANGED <<file, selected, queue, outcome, calls, outside>>
    BY DEF Inductive, Types, Arrive, boundVars
  <1>2. l.text \in Definition
    BY <1>1 DEF Types, Load
  <1>3. loads' \subseteq Load /\ \A m \in loads' : m.pc = "read" => m.text # None
    BY <1>1 DEF Types
  <1>4. Types' /\ InLine' /\ OwnEditsDoNotRace' /\ Unmeddled' /\ FilesAreSound'
    BY <1>1, <1>2, <1>3, MeddleKeeps DEF Types
  <1>5. Quiet' => Quiet
    BY <1>1 DEF Quiet
  <1>6. ASSUME Fresh PROVE Fresh'
    <2>1. shown = None /\ edit = None /\ l.at = selected /\ l.text = file[selected] /\ loads = {l}
      BY <1>1, <1>6 DEF Fresh
    <2>2. loads' = {} /\ edit' = None /\ selected # None /\ calls # 0
      <3>1. l.at \in Place
        BY <1>1 DEF Load
      <3> QED  BY <1>1, <1>6, <2>1, <3>1, MeddleIs, Nothing DEF Fresh
    <2> QED  BY <1>1, <1>2, <2>1, <2>2, Nothing DEF Fresh, At
  <1> QED  BY <1>4, <1>5, <1>6 DEF Inductive

\* A load that fails leaves a quiet tab with an empty canvas.
LEMMA ArriveFailsStep ==
  ASSUME Inductive, NEW l \in loads, ArriveFails(l)
  PROVE  Inductive'
  <1>1. /\ Types /\ l.why # "edit" /\ loads' = loads \ {l}
        /\ UNCHANGED <<file, selected, shown, edit, queue, outcome, calls, outside>>
    BY DEF Inductive, ArriveFails, canvasVars, boundVars
  <1>2. loads' \subseteq Load /\ \A m \in loads' : m.pc = "read" => m.text # None
    BY <1>1 DEF Types
  <1>3. Types' /\ InLine' /\ OwnEditsDoNotRace' /\ Unmeddled' /\ FilesAreSound'
    BY <1>1, <1>2, AloneKeeps DEF Types
  <1>4. Quiet' => Quiet
    BY <1>1 DEF Quiet
  <1>5. ASSUME Fresh PROVE Fresh'
    <2>1. loads' = {}
      BY <1>1, <1>5 DEF Fresh
    <2> QED  BY <1>1, <1>5, <2>1 DEF Fresh, At
  <1> QED  BY <1>3, <1>4, <1>5 DEF Inductive

\* What an edit wrote and read back is on the canvas of a quiet tab.
LEMMA LandedStep ==
  ASSUME Inductive, NEW l \in loads, Landed(l)
  PROVE  Inductive'
  <1>1. /\ Types /\ l \in Load /\ l.pc = "read" /\ l.text # Broken
        /\ edit # None /\ edit.pc = "refetch"
        /\ shown' = l.text /\ loads' = loads \ {l}
        /\ UNCHANGED <<file, selected, queue, calls, outside>>
    BY DEF Inductive, Types, Landed, boundVars
  <1>2. PICK o \in {"landed", "threw"} : Finish(o)
    BY DEF Landed
  <1>3. o \in Outcome \ {"none", "queued"} /\ o # "conflict"
    BY DEF Outcome
  <1>4. InLine' /\ OwnEditsDoNotRace'
    BY <1>1, <1>2, <1>3, FinishKeepsOrder
  <1>5. l.text \in Definition
    BY <1>1 DEF Types, Load
  <1>6. edit' = None /\ outcome' = [outcome EXCEPT ![edit.id] = o] /\ edit.id \in Edits
    BY <1>1, <1>2, UnderwayIs DEF Finish
  <1>7. outcome' \in [Edits -> Outcome] /\ \A f \in Edits : f # edit.id => outcome'[f] = outcome[f]
    BY <1>1, <1>3, <1>6 DEF Types
  <1>8. Types'
    BY <1>1, <1>5, <1>6, <1>7 DEF Types, At
  <1>9. Unmeddled' /\ FilesAreSound'
    BY <1>1, <1>6 DEF Unmeddled, FilesAreSound, Inductive
  <1>10. Quiet' => Quiet
    <2>1. outcome[edit.id] = "queued"
      BY <1>1 DEF Inductive, InLine
    <2> QED  BY <1>1, <1>6, <1>7, <2>1, QuietBefore DEF Types
  <1>11. ASSUME Fresh PROVE Fresh'
    <2>1. l.at = selected /\ l.text = file[selected] /\ loads = {l}
      BY <1>1, <1>11 DEF Fresh
    <2>2. l.at \in Place
      BY <1>1 DEF Load
    <2>3. loads' = {} /\ selected # None /\ calls # 0
      BY <1>1, <1>11, <2>1, <2>2, Nothing DEF Fresh
    <2> QED  BY <1>1, <1>5, <1>6, <2>1, <2>3, Nothing DEF Fresh, At
  <1> QED  BY <1>4, <1>8, <1>9, <1>10, <1>11 DEF Inductive

\* Somebody else's edit leaves a service file under its own name, or a broken one.
LEMMA OutsideStep ==
  ASSUME Inductive, NEW p \in Place, Outside(p)
  PROVE  Inductive'
  <1>1. Types /\ FilesAreSound /\ InLine /\ OwnEditsDoNotRace /\ Unmeddled
    BY DEF Inductive
  <1>2. /\ outside' = outside + 1
        /\ UNCHANGED <<selected, shown, conflict, busy, queue, edit, loads, outcome, calls>>
    BY DEF Outside, canvasVars
  <1>3. file \in [Place -> Definition \cup {Broken}] /\ outside \in Nat
    BY <1>1 DEF Types
  <1>4. PICK t \in Definition \cup {Broken} :
           /\ file' = [file EXCEPT ![p] = t]
           /\ t # Broken => Sound(t) /\ t.name = NameOf[p]
    <2>1. CASE file' = [file EXCEPT ![p] = Broken]
      BY <2>1
    <2>2. CASE /\ file[p] # Broken
               /\ \E k \in Kinds : \E ops \in Gestures(file[p], k) :
                     /\ Edit(file[p], ops) # Refused
                     /\ file' = [file EXCEPT ![p] = Edit(file[p], ops)]
      <3>1. file[p] \in Definition /\ file[p].name = NameOf[p]
        BY <1>1, <1>3, <2>2 DEF FilesAreSound
      <3>2. PICK k \in Kinds : \E ops \in Gestures(file[p], k) :
                     /\ Edit(file[p], ops) # Refused
                     /\ file' = [file EXCEPT ![p] = Edit(file[p], ops)]
        BY <2>2
      <3>3. PICK ops \in Gestures(file[p], k) :
                     /\ Edit(file[p], ops) # Refused
                     /\ file' = [file EXCEPT ![p] = Edit(file[p], ops)]
        BY <3>2
      <3>4. ops \in Seq(Operation)
        BY <3>1, GesturesAreBatches
      <3> DEFINE d == Edit(file[p], ops)
      <3>5. d \in Definition /\ Sound(d) /\ d.name = NameOf[p]
        BY <3>1, <3>3, <3>4, EditIsSound
      <3>6. file' = [file EXCEPT ![p] = d]
        BY <3>3
      <3> HIDE DEF d
      <3> QED  BY <3>5, <3>6
    <2> QED  BY <2>1, <2>2 DEF Outside
  <1>5. file' \in [Place -> Definition \cup {Broken}] /\ file'[p] = t
        /\ \A q \in Place : q # p => file'[q] = file[q]
    BY <1>3, <1>4
  <1>6. Types'
    BY <1>1, <1>2, <1>3, <1>5 DEF Types, At
  <1>7. InLine' /\ OwnEditsDoNotRace'
    BY <1>1, <1>2, <1>3, OrderKept DEF Types
  <1>8. Unmeddled' /\ FilesAreSound'
    BY <1>1, <1>2, <1>4, <1>5 DEF Unmeddled, FilesAreSound
  <1>9. ~Quiet'
    BY <1>2, <1>3 DEF Quiet
  <1> QED  BY <1>6, <1>7, <1>8, <1>9 DEF Inductive

-----------------------------------------------------------------------------
(* The theorems.                                                           *)

\* The invariant holds at first.
LEMMA InitInductive == Init => Inductive
  <1> SUFFICES ASSUME Init PROVE Inductive
    OBVIOUS
  <1> USE DEF Init
  <1>1. Types /\ FilesAreSound
    BY DesignerAssumption DEF Types, FilesAreSound, At, Outcome
  <1>2. InLine /\ Unmeddled /\ OwnEditsDoNotRace
    BY DEF InLine, Unmeddled, OwnEditsDoNotRace
  <1>3. Fresh
    BY DEF Fresh, At
  <1> QED  BY <1>1, <1>2, <1>3 DEF Inductive

\* Every step preserves it.
LEMMA NextInductive == Inductive /\ [Next]_vars => Inductive'
  <1> SUFFICES ASSUME Inductive, [Next]_vars PROVE Inductive'
    OBVIOUS
  <1>1. CASE UNCHANGED vars
    BY <1>1 DEF vars, canvasVars, boundVars, Inductive, Types, InLine, Awaits, Unmeddled,
                FilesAreSound, OwnEditsDoNotRace, Quiet, Fresh, At
  <1>2. CASE Editor
    BY <1>2, BeginStep, BeginNothingStep, TransformedStep, TransformedTooLateStep,
       TransformRefusedStep, PutStep, PutStaleStep, PutInvalidStep, RefetchStep, ThrowsStep,
       ReadStep, LandedStep DEF Editor
  <1>3. CASE Operator
    BY <1>3, GestureStep, SelectStep, SignOutStep, ReloadLatestStep, DismissStep, LifecycleStep
       DEF Operator
  <1>4. CASE Loading
    BY <1>4, LifecycleDoneStep, ReadStep, ArriveStep, ArriveFailsStep DEF Loading
  <1>5. CASE \E p \in Place : Outside(p)
    BY <1>5, OutsideStep
  <1> QED  BY <1>1, <1>2, <1>3, <1>4, <1>5 DEF Next

\* The invariant of the edit path: types, the order of the edits, the canvas an edit was
\* made from, and what a quiet tab shows.
THEOREM DesignerInvariance == Spec => []Inductive
  <1>1. Init => Inductive
    BY InitInductive
  <1>2. Inductive /\ [Next]_vars => Inductive'
    BY NextInductive
  <1> QED  BY <1>1, <1>2, PTL DEF Spec

\* What the Designer and its peers leave on a node is a service file under its own name
\* (FilesAreSound), for any ids, names, services and batches.
THEOREM FilesAreSoundHolds == Spec => []FilesAreSound
  <1>1. Inductive => FilesAreSound
    BY DEF Inductive
  <1> QED  BY <1>1, DesignerInvariance, PTL

\* A conflict takes somebody else's edit, a second call, or an edit that threw before it
\* (OwnEditsDoNotRace): the tab's own edits do not race each other.
THEOREM OwnEditsDoNotRaceHolds == Spec => []OwnEditsDoNotRace
  <1>1. Inductive => OwnEditsDoNotRace
    BY DEF Inductive
  <1> QED  BY <1>1, DesignerInvariance, PTL

\* An edit replaces the very text it was made from, as long as the canvas is left alone
\* while the transform has it (NothingOverwrittenUnseen).
THEOREM NothingOverwrittenUnseenHolds == Spec => NothingOverwrittenUnseen
  <1> DEFINE Seen == \A p \in Place :
                        file'[p] # file[p] /\ outside' = outside => edit.base = file[p] \/ edit.meddled
  <1>1. Inductive /\ [Next]_vars => Seen
    <2> SUFFICES ASSUME Inductive, [Next]_vars, NEW p \in Place, file'[p] # file[p], outside' = outside
                 PROVE  edit.base = file[p] \/ edit.meddled
      OBVIOUS
    <2>1. Put \/ \E q \in Place : Outside(q)
      BY DEF Next, Editor, Operator, Loading, vars, Gesture, Begin, BeginNothing, Transformed,
             TransformedTooLate, TransformRefused, PutStale, PutInvalid, Refetch, Throws, Read,
             Landed, Select, SignOut, ReloadLatest, Dismiss, Lifecycle, LifecycleDone, Arrive,
             ArriveFails
    <2>2. Put
      BY <2>1 DEF Outside, Inductive, Types
    <2>3. /\ edit # None /\ edit.pc = "put" /\ file[edit.at] = edit.tag
          /\ file' = [file EXCEPT ![edit.at] = edit.text]
      BY <2>2 DEF Put, Stale
    <2>4. p = edit.at
      BY <2>3 DEF Inductive, Types
    <2> QED  BY <2>3, <2>4 DEF Inductive, Unmeddled
  <1>2. Inductive /\ [Next]_vars => [Seen]_vars
    BY <1>1
  <1> QED  BY <1>2, DesignerInvariance, PTL DEF Spec, NothingOverwrittenUnseen

-----------------------------------------------------------------------------
(* The node.                                                               *)

\* What is there already stays, so that to provide it twice is to provide it once.
LEMMA ProvidedStays ==
    ASSUME NEW have, NEW a, NEW b
    PROVE  Provided(Provided(have, a), b) = Provided(have, a)
PROOF
  BY DEF Provided

\* A directory with all its trees.
Directory(ignores, token, registries, toml, keys) ==
    [trees |-> TREES, gitignore |-> ignores, token |-> token, registries |-> registries,
     toml |-> toml, keys |-> keys]

\* The two steps of a start.
LEMMA FirstHalf ==
    ASSUME NEW trees, NEW ignores, NEW had, NEW registries, NEW toml, NEW keys, NEW token
    PROVE  ProvisionToken(ProvisionGitignore([trees |-> trees, gitignore |-> ignores, token |-> had,
                                              registries |-> registries, toml |-> toml, keys |-> keys]), token)
             = Directory(Provided(ignores, "*"), Provided(had, token), registries, toml, keys)
PROOF
  <1> DEFINE dir == [trees |-> trees, gitignore |-> ignores, token |-> had,
                     registries |-> registries, toml |-> toml, keys |-> keys]
             g == Provided(ignores, "*")
             first == [trees |-> TREES, gitignore |-> g, token |-> had,
                       registries |-> registries, toml |-> toml, keys |-> keys]
  <1>1. ProvisionGitignore(dir) = [[dir EXCEPT !.trees = TREES] EXCEPT !.gitignore = g]
    BY ZenonT(20) DEF ProvisionGitignore
  <1> HIDE DEF g
  <1>2. ProvisionGitignore(dir) = first
    BY <1>1
  <1>3. ProvisionToken(first, token) = Directory(g, Provided(had, token), registries, toml, keys)
    BY DEF ProvisionToken, Directory
  <1> QED BY <1>2, <1>3 DEF g

\* The last step of a start, which writes node.toml, of a directory whose other files are there.
LEMMA SecondHalf ==
    ASSUME NEW ignores, NEW token, NEW registries, NEW toml, NEW keys, NEW id
    PROVE  ProvisionToml(Directory(ignores, token, registries, toml, keys), id)
             = Directory(ignores, token, registries, Provided(toml, Says(TEMPLATE(id))), keys)
PROOF
  BY DEF ProvisionToml, Directory

\* A node keeps what it was when it first started (node.rs, provision_token and
\* provision_toml): a later start, whatever it would mint, opens the same node or refuses
\* for the same reason, and writes no file.
THEOREM IdentityIsKept ==
    ASSUME NEW Ignores, NEW Tokens, NEW Tables, NEW Texts, NEW Keys,
           NEW dir \in [trees : SUBSET TREES, gitignore : SUBSET Ignores, token : SUBSET Tokens,
                        registries : Tables, toml : SUBSET Texts, keys : Keys],
           NEW token, NEW id, NEW later, NEW other
    PROVE  Open(Open(dir, token, id).dir, later, other) = Open(dir, token, id)
PROOF
  <1> DEFINE g == Provided(dir.gitignore, "*")
             t == Provided(dir.token, token)
             m == Provided(dir.toml, Says(TEMPLATE(id)))
             r == dir.registries
             half == Directory(g, t, r, dir.toml, dir.keys)
             whole == Directory(g, t, r, m, dir.keys)
  <1>1. ProvisionToken(ProvisionGitignore(dir), token) = half
    <2>1. dir = [trees |-> dir.trees, gitignore |-> dir.gitignore, token |-> dir.token,
                 registries |-> dir.registries, toml |-> dir.toml, keys |-> dir.keys]
      OBVIOUS
    <2>2. ProvisionToken(ProvisionGitignore([trees |-> dir.trees, gitignore |-> dir.gitignore,
                 token |-> dir.token, registries |-> dir.registries, toml |-> dir.toml,
                 keys |-> dir.keys]), token) = half
      BY FirstHalf
    <2> QED BY <2>1, <2>2
  <1>2. ProvisionToml(half, id) = whole
    BY SecondHalf
  <1>3. Provided(g, "*") = g /\ Provided(t, later) = t /\ Provided(m, Says(TEMPLATE(other))) = m
    BY ProvidedStays
  <1> HIDE DEF g, t, m, r
  <1>4. ProvisionToken(ProvisionGitignore(half), later) = half
    <2>1. half = [trees |-> TREES, gitignore |-> g, token |-> t, registries |-> r, toml |-> dir.toml,
             keys |-> dir.keys]
      BY DEF Directory
    <2>2. ProvisionToken(ProvisionGitignore([trees |-> TREES, gitignore |-> g, token |-> t,
             registries |-> r, toml |-> dir.toml, keys |-> dir.keys]), later) = half
      BY <1>3, FirstHalf
    <2> QED BY <2>1, <2>2
  <1>5. ProvisionToken(ProvisionGitignore(whole), later) = whole
    <2>1. whole = [trees |-> TREES, gitignore |-> g, token |-> t, registries |-> r, toml |-> m,
             keys |-> dir.keys]
      BY DEF Directory
    <2>2. ProvisionToken(ProvisionGitignore([trees |-> TREES, gitignore |-> g, token |-> t,
             registries |-> r, toml |-> m, keys |-> dir.keys]), later) = whole
      BY <1>3, FirstHalf
    <2> QED BY <2>1, <2>2
  <1>6. ProvisionToml(whole, other) = whole
    BY <1>3, SecondHalf
  <1>7. half.registries = r /\ whole.registries = r /\ whole.toml = m
    BY DEF Directory
  <1> HIDE DEF half, whole
  <1> DEFINE node == UNION {UNION {IntoNode(f, whole, k) : f \in FileOf(x)} : x \in m, k \in LoadRegistries(r)}
  <1>8. CASE LoadRegistries(r) = {}
    <2>1. Open(dir, token, id) = [dir |-> half, node |-> {}]
      BY <1>1, <1>7, <1>8 DEF Open
    <2>2. Open(half, later, other) = [dir |-> half, node |-> {}]
      BY <1>4, <1>7, <1>8 DEF Open
    <2> QED BY <2>1, <2>2
  <1>9. CASE LoadRegistries(r) # {}
    <2>1. Open(dir, token, id) = [dir |-> whole, node |-> node]
      BY <1>1, <1>2, <1>7, <1>9 DEF Open
    <2>2. Open(whole, later, other) = [dir |-> whole, node |-> node]
      BY <1>5, <1>6, <1>7, <1>9 DEF Open
    <2> HIDE DEF node
    <2> QED BY <2>1, <2>2
  <1> QED BY <1>8, <1>9

\* What a node decodes is at least as deep as what its expressions build, and as what
\* every host decodes; and no budget is below its floor, whatever node.toml asks for
\* (node.rs, into_node; host-core/src/budget.rs).
THEOREM DecodesWhatItBuilds ==
    ASSUME NEW conf, NEW dir, NEW credentials, NEW n \in IntoNode(conf, dir, credentials),
           MAX_DEPTH \in Nat, "max_depth" \in DOMAIN FLOORS,
           \A k \in DOMAIN FLOORS : FLOORS[k] \in Nat /\ conf[k] \in Nat
    PROVE  /\ n.decode >= n.eval["max_depth"] /\ n.decode >= MAX_DEPTH
           /\ \A k \in DOMAIN FLOORS : n.eval[k] >= FLOORS[k] /\ n.eval[k] >= conf[k]
PROOF
  <1>1. PICK s \in SigningOf(conf, dir.keys) :
          n = [id |-> conf.id, name |-> IF "name" \in DOMAIN conf THEN {conf.name} ELSE {},
               listen |-> conf.listen, max_payload |-> conf.max_payload, max_batch |-> conf.max_batch,
               fuel |-> conf.fuel, deadline_ms |-> conf.deadline_ms,
               eval |-> [k \in DOMAIN FLOORS |-> Larger(conf[k], FLOORS[k])],
               decode |-> Larger(MAX_DEPTH, Larger(conf.max_depth, FLOORS.max_depth)),
               mailbox |-> conf.mailbox, signing |-> s, credentials |-> credentials, token |-> dir.token]
    BY ZenonT(30) DEF IntoNode
  <1>2. /\ n.eval = [k \in DOMAIN FLOORS |-> Larger(conf[k], FLOORS[k])]
        /\ n.decode = Larger(MAX_DEPTH, Larger(conf.max_depth, FLOORS.max_depth))
    BY <1>1
  <1>3. \A k, l \in Nat : Larger(k, l) \in Nat /\ Larger(k, l) >= k /\ Larger(k, l) >= l
    BY DEF Larger
  <1>4. conf["max_depth"] \in Nat /\ FLOORS["max_depth"] \in Nat
    OBVIOUS
  <1>5. \A k \in DOMAIN FLOORS :
           /\ n.eval[k] = Larger(conf[k], FLOORS[k])
           /\ n.eval[k] \in Nat /\ n.eval[k] >= FLOORS[k] /\ n.eval[k] >= conf[k]
    BY <1>2, <1>3
  <1>6. n.decode >= MAX_DEPTH /\ n.decode >= Larger(conf["max_depth"], FLOORS["max_depth"])
    BY <1>2, <1>3, <1>4
  <1> QED BY <1>5, <1>6

-----------------------------------------------------------------------------
(* The command line, which edits what the Designer edits.                  *)

C == INSTANCE Client

\* A push without --force writes under the tag it read.
LEMMA TagIsTheText ==
    ASSUME NEW Texts, NEW node \in {{}} \cup {{t} : t \in Texts}
    PROVE  C!CurrentEtag(node) = node
PROOF
  <1>1. CASE node = {}
    <2>1. C!GetService(node).status = 404
      BY <1>1 DEF C!GetService, C!Status
    <2> QED BY <1>1, <2>1 DEF C!CurrentEtag
  <1>2. CASE node # {}
    <2>1. C!GetService(node).status = 200 /\ C!GetService(node).etag = node
      BY <1>2 DEF C!GetService
    <2> QED BY <2>1 DEF C!CurrentEtag
  <1> QED BY <1>1, <1>2

\* A push is a read and then a write (cli/src/services.rs, push): it goes through exactly if
\* the node has, when it writes, what it had when the tag was read, be it nothing; otherwise
\* it changes nothing.
THEOREM PushesAreOrdered ==
    ASSUME NEW Texts, "*" \notin Texts, NEW text \in Texts,
           NEW before \in {{}} \cup {{t} : t \in Texts}, NEW after \in {{}} \cup {{t} : t \in Texts}
    PROVE  /\ C!PushService(text, FALSE, before, after).says = {} <=> before = after
           /\ C!PushService(text, FALSE, before, after).node = IF before = after THEN {text} ELSE after
PROOF
  <1> DEFINE push == C!PushService(text, FALSE, before, after)
  <1>1. push = C!PutService(after, text, before)
    BY TagIsTheText DEF C!PushService, C!PushTag
  <1>2. "*" \notin before
    OBVIOUS
  <1>3. C!IfMatch(after, before) = {} <=> before = after
    BY <1>2 DEF C!IfMatch
  <1> HIDE DEF push
  <1>4. push.says = C!IfMatch(after, before)
    BY <1>1 DEF C!PutService
  <1>5. push.node = IF C!IfMatch(after, before) = {} THEN {text} ELSE after
    BY <1>1 DEF C!PutService
  <1> QED BY <1>3, <1>4, <1>5 DEF push

\* Of two pushes that read the same tag the second to write is refused, unless the first
\* wrote what was there already.
THEOREM OnePushWins ==
    ASSUME NEW Texts, "*" \notin Texts, NEW one \in Texts, NEW other \in Texts,
           NEW node \in {{}} \cup {{t} : t \in Texts}
    PROVE  LET first == C!PushService(one, FALSE, node, node) IN
           C!PushService(other, FALSE, node, first.node).says = {} <=> node = {one}
PROOF
  <1>1. C!PushService(one, FALSE, node, node) = C!PutService(node, one, node)
    BY TagIsTheText DEF C!PushService, C!PushTag
  <1>2. C!IfMatch(node, node) = {}
    BY DEF C!IfMatch
  <1>3. C!PutService(node, one, node).node = {one}
    BY <1>2 DEF C!PutService
  <1>4. C!PushService(other, FALSE, node, {one}) = C!PutService({one}, other, node)
    BY TagIsTheText DEF C!PushService, C!PushTag
  <1>5. C!IfMatch({one}, node) = {} <=> node = {one}
    BY DEF C!IfMatch
  <1>6. C!PutService({one}, other, node).says = {} <=> node = {one}
    BY <1>5 DEF C!PutService
  <1> QED BY <1>1, <1>3, <1>4, <1>6
=============================================================================
