--------------------------- MODULE BlockCacheProofs --------------------------
(***************************************************************************)
(* Theorems about an entry of the block cache, for any tasks, digests,     *)
(* policies and number of lives.                                           *)
(*                                                                         *)
(* Bytes in a file come from a manifest some task fetched, and a task goes *)
(* on to store only what passed every check (Backed): that is the evidence *)
(* of an entry, whoever wrote over whom.  That it is whole takes more: a   *)
(* task alone at the store has opened a file that is not the entry, named  *)
(* for this life and no task that may still stage (Named), and what it has *)
(* written there is its own (Alone).                                       *)
(***************************************************************************)
EXTENDS BlockCache, TLAPS

\* Of the pulls p that passed every check, one gave the bytes of d.
Backed(p, d) == \E e \in p : e.manifest = d /\ Vouches(e)

Pulling == {"blob", "legacy", "bundle"}
Stored == {"stage", "write", "rename"}

\* What a task fetched is what the reference names, and what it stores was checked.
Checked ==
    \A t \in Task :
        /\ pc[t] \in Pulling \cup Stored => manifest[t] \in Digest /\ pin \in {ATag, manifest[t]}
        /\ pc[t] \in Stored => Backed(pulled, manifest[t])

\* What a file holds was checked.
Evidenced == \A n \in Inode : data[n] \in Digest => Backed(pulled, data[n])

\* A file that has a name was opened first by a task of an earlier life, or by one of this
\* life that has staged.
Named ==
    \A name \in {"entry", "staging"} : dir[name] # NoInode =>
        \/ dir[name][1] < life
        \/ dir[name][1] = life /\ pc[dir[name][2]] \in {"write", "rename", "answered", "refused"}

\* Whoever stores is alone, with a file that is not the entry and is its own.
Alone ==
    /\ dir["staging"] # NoInode => dir["staging"] # dir["entry"]
    /\ \A t, u \in Task : Storing(t) /\ Storing(u) => t = u
    /\ \A t \in Task : Storing(t) =>
          /\ dir["staging"] # NoInode /\ inode[t] = dir["staging"]
          /\ writers[inode[t]].last = t /\ writers[inode[t]].cut = {}
          /\ pc[t] = "rename" => data[inode[t]] \in Digest

Inductive ==
    TypeOK /\ Checked /\ Evidenced /\ Named /\ (~shared => Alone /\ TornOnlyByTwo)
-----------------------------------------------------------------------------
(* Lemmas. *)

\* A file is not nothing, and no torn bytes are an artifact's.
LEMMA Distinct ==
  /\ \A n \in Inode : n # NoInode /\ n[1] \in 1 .. MaxLives /\ n[2] \in Task
  /\ NoInode \notin Task /\ ATag \notin Digest
  /\ "partial" \notin Digest /\ "mixed" \notin Digest
  BY CacheAssumption DEF Inode

\* What is backed stays so, as long as the node's settings stay.
LEMMA BackedStays ==
  ASSUME UNCHANGED <<pin, policy>>, NEW p, NEW q, p \subseteq q, NEW d, Backed(p, d)
  PROVE  Backed(q, d)'
  BY DEF Backed, Vouches

\* A step of a task that does not store yet, and leaves the disk alone.
LEMMA NetworkStep ==
  ASSUME Inductive, NEW t \in Task, UNCHANGED <<pin, policy, life>>, UNCHANGED diskVars,
         pc[t] \in {"read", "manifest", "blob", "legacy", "bundle"},
         NEW w \in {"manifest", "blob", "legacy", "bundle", "stage", "answered", "refused"},
         Goto(t, w), NEW d \in Digest \cup {ATag}, manifest' = [manifest EXCEPT ![t] = d],
         pulled \subseteq pulled', pulled' \subseteq Evidence,
         w \in Pulling \cup Stored => d \in Digest /\ pin \in {ATag, d},
         w = "stage" => Backed(pulled', d)
  PROVE  Inductive'
  <1> USE DEF Inductive
  <1>1. UNCHANGED <<inode, dir, data, writers, shared>>
    BY DEF diskVars
  <1>2. /\ pc' \in [Task -> PC] /\ pc'[t] = w /\ \A u \in Task \ {t} : pc'[u] = pc[u]
        /\ manifest' \in [Task -> Digest \cup {ATag}] /\ manifest'[t] = d
        /\ \A u \in Task \ {t} : manifest'[u] = manifest[u]
    BY DEF TypeOK, Goto, PC
  <1>3. TypeOK'
    BY <1>1, <1>2 DEF TypeOK
  <1>4. Checked'
    <2> SUFFICES ASSUME NEW u \in Task
                 PROVE  /\ pc'[u] \in Pulling \cup Stored => manifest'[u] \in Digest /\ pin \in {ATag, manifest'[u]}
                        /\ pc'[u] \in Stored => Backed(pulled', manifest'[u])
      BY DEF Checked, Backed, Vouches
    <2>1. CASE u = t
      BY <1>2, <2>1 DEF Pulling, Stored
    <2>2. CASE u # t
      BY <1>2, <2>2 DEF Checked, Backed
    <2> QED  BY <2>1, <2>2
  <1>5. Evidenced'
    BY <1>1 DEF Evidenced, Backed, Vouches
  <1>6. Named'
    <2>1. dir \in [{"entry", "staging"} -> Inode \cup {NoInode}]
      BY DEF TypeOK
    <2>2. \A name \in {"entry", "staging"} : dir[name] # NoInode => dir[name][2] \in Task
      BY <2>1, Distinct
    <2> QED  BY <1>1, <1>2, <2>2 DEF Named
  <1>7. ~shared' => Alone' /\ TornOnlyByTwo'
    <2> HAVE ~shared'
    <2>1. \A u \in Task : Storing(u)' <=> Storing(u)
      BY <1>2 DEF Storing
    <2>2. \A u \in Task : pc'[u] = "rename" => pc[u] = "rename"
      BY <1>2
    <2> QED  BY <1>1, <2>1, <2>2 DEF Alone, TornOnlyByTwo
  <1> QED  BY <1>3, <1>4, <1>5, <1>6, <1>7

\* So does a refusal.
LEMMA RefusedStep ==
  ASSUME Inductive, NEW t \in Task, UNCHANGED <<pin, policy, life>>,
         pc[t] \in {"read", "manifest", "blob", "legacy", "bundle"}, Refused(t)
  PROVE  Inductive'
  <1>1. pulled' \subseteq Evidence /\ UNCHANGED pulled
    BY DEF Refused, Inductive, TypeOK
  <1> QED  BY <1>1, NetworkStep DEF Refused, Pulling, Stored

\* A step that leaves the registry's word as it was.
LEMMA OnwardStep ==
  ASSUME Inductive, NEW t \in Task, UNCHANGED <<pin, policy, life>>, UNCHANGED <<registryVars, diskVars>>,
         pc[t] \in {"read", "manifest", "blob", "legacy", "bundle"},
         NEW w \in {"manifest", "blob", "legacy", "bundle", "answered", "refused"}, Goto(t, w),
         w \in Pulling => pc[t] \in Pulling
  PROVE  Inductive'
  <1>1. manifest \in [Task -> Digest \cup {ATag}] /\ pulled \subseteq Evidence
        /\ UNCHANGED manifest /\ UNCHANGED pulled
    BY DEF registryVars, Inductive, TypeOK
  <1>2. manifest' = [manifest EXCEPT ![t] = manifest[t]] /\ manifest[t] \in Digest \cup {ATag}
    BY <1>1
  <1>3. w \in Pulling \cup Stored => manifest[t] \in Digest /\ pin \in {ATag, manifest[t]}
    BY DEF Inductive, Checked, Pulling, Stored
  <1>4. PICK d \in Digest \cup {ATag} :
           /\ manifest' = [manifest EXCEPT ![t] = d]
           /\ w \in Pulling \cup Stored => d \in Digest /\ pin \in {ATag, d}
    BY <1>2, <1>3
  <1>5. w # "stage" /\ UNCHANGED diskVars /\ pulled \subseteq pulled' /\ pulled' \subseteq Evidence
    BY <1>1
  <1> QED  BY <1>4, <1>5, NetworkStep

\* What the verdict lets pass, the policy vouches for.
LEMMA VerdictVouches ==
  ASSUME NEW signed \in Signed, NEW d, pin \in {ATag, d}, Verdict(signed)
  PROVE  Vouches([manifest |-> d, signed |-> signed])
  BY DEF Verdict, Vouches

\* The judgement at the end of either lookup.
LEMMA JudgeStep ==
  ASSUME Inductive, NEW t \in Task, UNCHANGED <<pin, policy, life>>,
         pc[t] \in {"legacy", "bundle"}, NEW signed \in Signed, Judge(t, signed)
  PROVE  Inductive'
  <1>1. manifest[t] \in Digest /\ pin \in {ATag, manifest[t]}
    BY DEF Inductive, Checked, Pulling
  <1>2. CASE ~Verdict(signed)
    BY <1>2, RefusedStep DEF Judge
  <1>3. CASE Verdict(signed)
    <2> DEFINE e == [manifest |-> manifest[t], signed |-> signed]
    <2>1. /\ Goto(t, "stage") /\ pulled' = pulled \cup {e} /\ UNCHANGED manifest
          /\ UNCHANGED diskVars
      BY <1>3 DEF Judge
    <2>2. e \in Evidence /\ e.manifest = manifest[t] /\ Vouches(e)
      BY <1>1, <1>3, VerdictVouches DEF Evidence
    <2> HIDE DEF e
    <2>3. pulled' \subseteq Evidence /\ Backed(pulled', manifest[t])
      BY <2>1, <2>2 DEF Inductive, TypeOK, Backed
    <2>4. manifest' = [manifest EXCEPT ![t] = manifest[t]]
      BY <2>1 DEF Inductive, TypeOK
    <2> QED  BY <1>1, <2>1, <2>3, <2>4, NetworkStep
  <1> QED  BY <1>2, <1>3

\* A task that reads the entry answers, fails or goes to the registry.
LEMMA ReadStep ==
  ASSUME Inductive, NEW t \in Task, UNCHANGED <<pin, policy, life>>, Read(t)
  PROVE  Inductive'
  <1>1. \E w \in {"answered", "refused", "manifest"} : Goto(t, w)
    BY DEF Read
  <1> QED  BY <1>1, OnwardStep DEF Read, Pulling

\* The manifest is one the reference names.
LEMMA PullManifestStep ==
  ASSUME Inductive, NEW t \in Task, UNCHANGED <<pin, policy, life>>, PullManifest(t)
  PROVE  Inductive'
  <1>1. CASE Refused(t)
    BY <1>1, RefusedStep DEF PullManifest
  <1>2. CASE /\ \E d \in Digest : pin \in {ATag, d} /\ manifest' = [manifest EXCEPT ![t] = d]
             /\ Goto(t, "blob") /\ UNCHANGED <<pulled, diskVars>>
    <2>1. PICK d \in Digest : pin \in {ATag, d} /\ manifest' = [manifest EXCEPT ![t] = d]
      BY <1>2
    <2>2. UNCHANGED pulled /\ UNCHANGED diskVars /\ pulled \subseteq Evidence /\ pc[t] = "manifest"
      BY <1>2 DEF Inductive, TypeOK, PullManifest
    <2> QED  BY <1>2, <2>1, <2>2, NetworkStep
  <1> QED  BY <1>1, <1>2 DEF PullManifest

\* The blob adds nothing: it is the manifest's, or refused.
LEMMA PullBlobStep ==
  ASSUME Inductive, NEW t \in Task, UNCHANGED <<pin, policy, life>>, PullBlob(t)
  PROVE  Inductive'
  <1>1. CASE Refused(t)
    BY <1>1, RefusedStep DEF PullBlob
  <1>2. CASE Goto(t, "legacy") /\ UNCHANGED <<registryVars, diskVars>>
    BY <1>2, OnwardStep DEF PullBlob, Pulling
  <1> QED  BY <1>1, <1>2 DEF PullBlob

\* A lookup of the signature ends in a judgement, or goes on.
LEMMA SignatureStep ==
  ASSUME Inductive, NEW t \in Task, UNCHANGED <<pin, policy, life>>,
         LegacySignature(t) \/ BundleSignature(t)
  PROVE  Inductive'
  <1>1. pc[t] \in {"legacy", "bundle"}
    BY DEF LegacySignature, BundleSignature
  <1>2. CASE Refused(t)
    BY <1>1, <1>2, RefusedStep
  <1>3. CASE \E signed \in Signed : Judge(t, signed)
    BY <1>1, <1>3, JudgeStep
  <1>4. CASE Goto(t, "bundle") /\ UNCHANGED <<registryVars, diskVars>>
    BY <1>1, <1>4, OnwardStep DEF Pulling
  <1> QED  BY <1>2, <1>3, <1>4 DEF LegacySignature, BundleSignature, Signed

\* A file that is staged is not the entry, unless another task stores too.
LEMMA StageStep ==
  ASSUME Inductive, NEW t \in Task, UNCHANGED <<pin, policy, life>>, Stage(t)
  PROVE  Inductive'
  <1> USE DEF Inductive
  <1>1. PICK n \in Inode :
           /\ n = IF dir["staging"] = NoInode THEN <<life, t>> ELSE dir["staging"]
           /\ inode' = [inode EXCEPT ![t] = n]
           /\ dir' = [dir EXCEPT !["staging"] = n]
           /\ data' = [data EXCEPT ![n] = "partial"]
           /\ writers' = [writers EXCEPT ![n] = OpenedBy(t, n)]
    <2>1. <<life, t>> \in Inode /\ dir["staging"] \in Inode \cup {NoInode}
      BY DEF TypeOK, Inode
    <2> QED  BY <2>1 DEF Stage
  <1>2. pc[t] = "stage" /\ Goto(t, "write") /\ UNCHANGED <<manifest, pulled>>
        /\ shared' = (shared \/ \E u \in Task : Storing(u))
    BY DEF Stage, registryVars
  <1>3. /\ pc' \in [Task -> PC] /\ pc'[t] = "write" /\ \A u \in Task \ {t} : pc'[u] = pc[u]
        /\ inode' \in [Task -> Inode \cup {NoInode}] /\ inode'[t] = n
        /\ \A u \in Task \ {t} : inode'[u] = inode[u]
        /\ dir' \in [{"entry", "staging"} -> Inode \cup {NoInode}]
        /\ dir'["staging"] = n /\ dir'["entry"] = dir["entry"]
        /\ data' \in [Inode -> Bytes] /\ data'[n] = "partial" /\ \A m \in Inode \ {n} : data'[m] = data[m]
    BY <1>1, <1>2 DEF TypeOK, Goto, PC, Bytes
  <1>4. /\ writers' \in [Inode -> [last : Task \cup {NoInode}, cut : SUBSET Task]]
        /\ writers'[n] = OpenedBy(t, n) /\ \A m \in Inode \ {n} : writers'[m] = writers[m]
        /\ OpenedBy(t, n).last = t
        /\ OpenedBy(t, n).cut = {u \in Task : pc[u] = "write" /\ inode[u] = n}
    BY <1>1 DEF TypeOK, OpenedBy
  <1>5. TypeOK'
    <2>1. \A u \in Task : pc'[u] = "write" =>
             inode'[u] # NoInode /\ u \in {writers'[inode'[u]].last} \cup writers'[inode'[u]].cut
      <3> SUFFICES ASSUME NEW u \in Task, pc'[u] = "write"
                   PROVE  inode'[u] # NoInode /\ u \in {writers'[inode'[u]].last} \cup writers'[inode'[u]].cut
        OBVIOUS
      <3>1. CASE u = t
        BY <1>3, <1>4, <3>1, Distinct
      <3>2. CASE u # t
        <4>1. pc[u] = "write" /\ inode'[u] = inode[u] /\ inode[u] # NoInode
              /\ u \in {writers[inode[u]].last} \cup writers[inode[u]].cut /\ inode[u] \in Inode
          BY <1>3, <3>2 DEF TypeOK
        <4> QED  BY <1>4, <4>1
      <3> QED  BY <3>1, <3>2
    <2>2. shared' \in BOOLEAN
      BY <1>2 DEF TypeOK
    <2> QED  BY <1>2, <1>3, <1>4, <2>1, <2>2 DEF TypeOK
  <1>6. Checked'
    <2>1. \A u \in Task : /\ pc'[u] \in Pulling \cup Stored => pc[u] \in Pulling \cup Stored
                          /\ pc'[u] \in Stored => pc[u] \in Stored
      BY <1>2, <1>3 DEF Pulling, Stored
    <2> QED  BY <1>2, <2>1 DEF Checked, Backed, Vouches
  <1>7. Evidenced'
    BY <1>2, <1>3, Distinct DEF Evidenced, Backed, Vouches
  <1>8. Named'
    <2>1. \A name \in {"entry", "staging"} : dir[name] # NoInode => dir[name][2] \in Task
      BY Distinct DEF TypeOK
    <2>2. \A u \in Task : pc[u] \in {"write", "rename", "answered", "refused"} =>
             pc'[u] \in {"write", "rename", "answered", "refused"}
      BY <1>3
    <2>3. \A name \in {"entry", "staging"} : dir[name] # NoInode =>
             \/ dir[name][1] < life
             \/ dir[name][1] = life /\ pc'[dir[name][2]] \in {"write", "rename", "answered", "refused"}
      BY <2>1, <2>2 DEF Named
    <2>4. <<life, t>>[1] = life /\ pc'[<<life, t>>[2]] = "write"
      BY <1>3
    <2> QED  BY <1>1, <1>3, <2>3, <2>4 DEF Named
  <1>9. ~shared' => Alone' /\ TornOnlyByTwo'
    <2> HAVE ~shared'
    <2>1. ~shared /\ \A u \in Task : ~Storing(u)
      BY <1>2 DEF TypeOK
    <2>2. n # dir["entry"]
      <3>1. CASE dir["staging"] # NoInode
        BY <1>1, <2>1, <3>1 DEF Alone
      <3>2. CASE dir["staging"] = NoInode
        <4>1. n[1] = life /\ pc[n[2]] = "stage" /\ life \in Nat
          BY <1>1, <1>2, <3>2, CacheAssumption DEF TypeOK
        <4> QED  BY <4>1, Distinct DEF Named
      <3> QED  BY <3>1, <3>2
    <2>3. \A u \in Task : Storing(u)' <=> u = t
      BY <1>3, <2>1 DEF Storing
    <2>4. OpenedBy(t, n).cut = {}
      BY <1>4, <2>1 DEF Storing
    <2>5. Alone'
      BY <1>3, <1>4, <2>2, <2>3, <2>4, Distinct DEF Alone
    <2>6. TornOnlyByTwo'
      BY <1>3, <2>1, <2>2 DEF TornOnlyByTwo, TypeOK
    <2> QED  BY <2>5, <2>6
  <1> QED  BY <1>5, <1>6, <1>7, <1>8, <1>9

\* What a task alone has written is the artifact it was checked for.
LEMMA WriteStep ==
  ASSUME Inductive, NEW t \in Task, UNCHANGED <<pin, policy, life>>, Write(t)
  PROVE  Inductive'
  <1> USE DEF Inductive
  <1> DEFINE n == inode[t]
  <1>1. /\ pc[t] = "write" /\ n \in Inode /\ manifest[t] \in Digest /\ Backed(pulled, manifest[t])
        /\ UNCHANGED <<manifest, pulled, inode, dir, writers, shared>>
    BY DEF Write, registryVars, TypeOK, Checked, Pulling, Stored
  <1>2. PICK w \in {"rename", "refused"}, b \in Written(n, t) \cup {data[n]} :
           /\ Goto(t, w) /\ data' = [data EXCEPT ![n] = b]
           /\ w = "rename" => b \in Written(n, t)
    <2>1. CASE Goto(t, "refused") /\ UNCHANGED data
      <3>1. data' = [data EXCEPT ![n] = data[n]]
        BY <1>1, <2>1 DEF TypeOK
      <3> QED  BY <2>1, <3>1
    <2>2. CASE /\ \E bytes \in Written(inode[t], t) : data' = [data EXCEPT ![inode[t]] = bytes]
               /\ Goto(t, "rename")
      BY <2>2
    <2> QED  BY <2>1, <2>2 DEF Write
  <1>3. b \in Bytes /\ (b \in Digest => Backed(pulled, b))
    <2>1. data[n] \in Bytes /\ (data[n] \in Digest => Backed(pulled, data[n]))
      BY <1>1 DEF TypeOK, Evidenced
    <2>2. b \in {manifest[t], "mixed", data[n]}
      BY DEF Written
    <2> QED  BY <1>1, <2>1, <2>2, Distinct DEF Bytes
  <1>4. writers[n].last = t /\ writers[n].cut = {} => Written(n, t) = {manifest[t]}
    BY DEF Written
  <1> HIDE DEF n
  <1>5. /\ pc' \in [Task -> PC] /\ pc'[t] = w /\ \A u \in Task \ {t} : pc'[u] = pc[u]
        /\ data' \in [Inode -> Bytes] /\ data'[n] = b /\ \A m \in Inode \ {n} : data'[m] = data[m]
    BY <1>1, <1>2, <1>3 DEF TypeOK, Goto, PC
  <1>6. TypeOK'
    BY <1>1, <1>5 DEF TypeOK
  <1>7. Checked'
    BY <1>1, <1>5 DEF Checked, Backed, Vouches, Pulling, Stored
  <1>8. Evidenced'
    BY <1>1, <1>3, <1>5 DEF Evidenced, Backed, Vouches
  <1>9. Named'
    <2>1. \A name \in {"entry", "staging"} : dir[name] # NoInode => dir[name][2] \in Task
      BY Distinct DEF TypeOK
    <2>2. \A u \in Task : pc[u] \in {"write", "rename", "answered", "refused"} =>
             pc'[u] \in {"write", "rename", "answered", "refused"}
      BY <1>5
    <2> QED  BY <1>1, <2>1, <2>2 DEF Named
  <1>10. ~shared' => Alone' /\ TornOnlyByTwo'
    <2> HAVE ~shared'
    <2>1. /\ ~shared /\ Storing(t) /\ dir["staging"] = n /\ n # dir["entry"]
          /\ writers[n].last = t /\ writers[n].cut = {}
      BY <1>1 DEF Alone, Storing, n
    <2>2. w = "rename" => data'[n] \in Digest
      BY <1>1, <1>2, <1>4, <1>5, <2>1
    <2>3. \A u \in Task : Storing(u)' => Storing(u) /\ u = t
      BY <1>1, <1>5, <2>1 DEF Storing, Alone
    <2>4. Alone'
      BY <1>1, <1>5, <2>1, <2>2, <2>3 DEF Alone, n
    <2>5. TornOnlyByTwo'
      BY <1>1, <1>5, <2>1 DEF TornOnlyByTwo, TypeOK
    <2> QED  BY <2>4, <2>5
  <1> QED  BY <1>6, <1>7, <1>8, <1>9, <1>10

\* What takes the entry's name is what was staged.
LEMMA RenameStep ==
  ASSUME Inductive, NEW t \in Task, UNCHANGED <<pin, policy, life>>, Rename(t)
  PROVE  Inductive'
  <1> USE DEF Inductive
  <1>1. /\ pc[t] = "rename" /\ inode' = [inode EXCEPT ![t] = NoInode]
        /\ UNCHANGED <<manifest, pulled, data, writers, shared>>
    BY DEF Rename, registryVars
  <1>2. PICK w \in {"answered", "refused"} : Goto(t, w)
    BY DEF Rename
  <1>3. /\ pc' \in [Task -> PC] /\ pc'[t] = w /\ \A u \in Task \ {t} : pc'[u] = pc[u]
        /\ inode' \in [Task -> Inode \cup {NoInode}] /\ \A u \in Task \ {t} : inode'[u] = inode[u]
    BY <1>1, <1>2 DEF TypeOK, Goto, PC
  <1>4. \/ dir["staging"] = NoInode /\ UNCHANGED dir
        \/ /\ dir["staging"] # NoInode /\ dir'["entry"] = dir["staging"] /\ dir'["staging"] = NoInode
           /\ dir' \in [{"entry", "staging"} -> Inode \cup {NoInode}]
    BY DEF Rename, TypeOK
  <1>5. TypeOK'
    BY <1>1, <1>3, <1>4 DEF TypeOK
  <1>6. Checked' /\ Evidenced'
    BY <1>1, <1>3 DEF Checked, Evidenced, Backed, Vouches, Pulling, Stored
  <1>7. Named'
    <2>1. \A name \in {"entry", "staging"} : dir[name] # NoInode => dir[name][2] \in Task
      BY Distinct DEF TypeOK
    <2>2. \A u \in Task : pc[u] \in {"write", "rename", "answered", "refused"} =>
             pc'[u] \in {"write", "rename", "answered", "refused"}
      BY <1>3
    <2>3. \A name \in {"entry", "staging"} : dir[name] # NoInode =>
             \/ dir[name][1] < life
             \/ dir[name][1] = life /\ pc'[dir[name][2]] \in {"write", "rename", "answered", "refused"}
      BY <2>1, <2>2 DEF Named
    <2> QED  BY <1>4, <2>3 DEF Named
  <1>8. ~shared' => Alone' /\ TornOnlyByTwo'
    <2> HAVE ~shared'
    <2>1. /\ ~shared /\ Storing(t) /\ dir["staging"] # NoInode /\ inode[t] = dir["staging"]
          /\ data[dir["staging"]] \in Digest
      BY <1>1 DEF Alone, Storing
    <2>2. \A u \in Task : ~Storing(u)'
      BY <1>3, <2>1 DEF Storing, Alone
    <2>3. dir'["entry"] = dir["staging"] /\ dir'["staging"] = NoInode
      BY <1>4, <2>1
    <2> QED  BY <1>1, <2>1, <2>2, <2>3 DEF Alone, TornOnlyByTwo
  <1> QED  BY <1>5, <1>6, <1>7, <1>8

\* A kill leaves the entry, and no name of a file of this life but that.
LEMMA KilledStep ==
  ASSUME Inductive, Killed
  PROVE  Inductive'
  <1> USE DEF Inductive
  <1>1. /\ UNCHANGED <<pin, policy, pulled, shared>> /\ life < MaxLives /\ life' = life + 1
        /\ pc' = [t \in Task |-> "read"] /\ manifest' = [t \in Task |-> ATag]
        /\ inode' = [t \in Task |-> NoInode] /\ writers' = [n \in Inode |-> Unopened]
        /\ data' = [n \in Inode |-> IF n = dir["entry"] THEN data[n] ELSE "partial"]
    BY DEF Killed
  <1>2. /\ dir' \in [{"entry", "staging"} -> Inode \cup {NoInode}]
        /\ dir'["staging"] = NoInode /\ dir'["entry"] = dir["entry"]
    BY DEF Killed, TypeOK
  <1>3. TypeOK'
    <2>1. life' \in 1 .. MaxLives
      BY <1>1, CacheAssumption DEF TypeOK
    <2>2. data' \in [Inode -> Bytes] /\ writers' \in [Inode -> [last : Task \cup {NoInode}, cut : SUBSET Task]]
      BY <1>1 DEF TypeOK, Bytes, Unopened
    <2> QED  BY <1>1, <1>2, <2>1, <2>2 DEF TypeOK, PC
  <1>4. Checked' /\ Evidenced'
    BY <1>1, Distinct DEF Checked, Evidenced, Backed, Vouches, Pulling, Stored
  <1>5. Named'
    <2>1. dir["entry"] # NoInode => dir["entry"][1] \in 1 .. MaxLives /\ dir["entry"][1] <= life
      BY Distinct, CacheAssumption DEF Named, TypeOK
    <2> QED  BY <1>1, <1>2, <2>1, CacheAssumption DEF Named, TypeOK
  <1>6. ~shared' => Alone' /\ TornOnlyByTwo'
    BY <1>1, <1>2 DEF Alone, TornOnlyByTwo, Storing, TypeOK
  <1> QED  BY <1>3, <1>4, <1>5, <1>6

-----------------------------------------------------------------------------
(* The theorems. *)

\* The invariant holds of an empty cache.
LEMMA InitInductive == Init => Inductive
  <1> SUFFICES ASSUME Init PROVE Inductive
    OBVIOUS
  <1> USE DEF Init
  <1>1. TypeOK
    <2>1. /\ life \in 1 .. MaxLives /\ pc \in [Task -> PC]
          /\ manifest \in [Task -> Digest \cup {ATag}] /\ inode \in [Task -> Inode \cup {NoInode}]
          /\ dir \in [{"entry", "staging"} -> Inode \cup {NoInode}]
      BY CacheAssumption DEF PC
    <2>2. data \in [Inode -> Bytes]
      BY DEF Bytes
    <2>3. writers \in [Inode -> [last : Task \cup {NoInode}, cut : SUBSET Task]]
      BY DEF Unopened
    <2> QED  BY <2>1, <2>2, <2>3 DEF TypeOK
  <1>2. Checked /\ Evidenced
    BY Distinct DEF Checked, Evidenced, Pulling, Stored
  <1>3. Named /\ Alone /\ TornOnlyByTwo
    BY DEF Named, Alone, TornOnlyByTwo, Storing
  <1> QED  BY <1>1, <1>2, <1>3 DEF Inductive

\* Every step preserves it.
LEMMA NextInductive == Inductive /\ [Next]_vars => Inductive'
  <1> SUFFICES ASSUME Inductive, [Next]_vars PROVE Inductive'
    OBVIOUS
  <1>1. CASE UNCHANGED vars
    BY <1>1 DEF vars, registryVars, diskVars, Inductive, TypeOK, Checked, Evidenced, Named, Alone,
                TornOnlyByTwo, Backed, Vouches, Storing
  <1>2. CASE \E t \in Task : Step(t)
    BY <1>2, ReadStep, PullManifestStep, PullBlobStep, SignatureStep, StageStep, WriteStep,
       RenameStep DEF Step
  <1>3. CASE Killed
    BY <1>3, KilledStep
  <1> QED  BY <1>1, <1>2, <1>3 DEF Next, Rest

\* The invariant of an entry: the evidence of every file's bytes, the names of files, and
\* the file of whoever stores alone.
THEOREM CacheInvariance == Spec => []Inductive
  <1> QED  BY InitInductive, NextInductive, PTL DEF Spec

\* Whole bytes under the entry's name are those of a pull that passed every check
\* (registry.rs, `pull`), whatever the registry answered and wherever the process was killed.
THEOREM EntryIsVouchedForHolds == Spec => []EntryIsVouchedFor
  <1>1. Inductive => EntryIsVouchedFor
    BY DEF Inductive, TypeOK, Evidenced, Backed, EntryIsVouchedFor
  <1> QED  BY <1>1, CacheInvariance, PTL

\* Unless two tasks of one process stored at the same time, the entry is missing or whole
\* (blocks.rs, `store`).
THEOREM TornOnlyByTwoHolds == Spec => []TornOnlyByTwo
  <1>1. Inductive => TornOnlyByTwo
    BY DEF Inductive, TornOnlyByTwo
  <1> QED  BY <1>1, CacheInvariance, PTL
=============================================================================
