----------------------------- MODULE BlockCache -----------------------------
(***************************************************************************)
(* One entry of a node's block cache (crates/daemon/src/blocks.rs), and    *)
(* the tasks that want its bytes: the validation of a definition           *)
(* (boot.rs, `fetch`) on blocking threads, and `POST /blocks/pull`         *)
(* (api/blocks.rs), whose file system calls run on the reactor.  Each      *)
(* reads the entry and, on a miss, pulls it (registry.rs) and stores it.   *)
(* Nothing orders them: the lock of the services API is taken later.       *)
(*                                                                         *)
(* A registry answers what it likes at every request, so a tag that moves, *)
(* an outage, an expired token and a corrupted transfer are all replies.   *)
(* The bytes of an artifact are named by the digest of its manifest.       *)
(***************************************************************************)
EXTENDS Integers

CONSTANTS
    Task,       \* tasks that want the entry
    Reactor,    \* those among them that handle `POST /blocks/pull`
    Digest,     \* digests of the manifests a registry may serve
    Pins,       \* what the reference may name: digests, or ATag
    ATag,
    Policies,   \* [key, require, credential] of the node
    MaxLives,   \* bound: lives of the daemon
    NoInode

ASSUME CacheAssumption ==
    /\ Reactor \subseteq Task
    /\ ATag \notin Digest /\ Pins \subseteq Digest \cup {ATag}
    /\ Digest \cap {"partial", "mixed"} = {}
    /\ MaxLives \in Nat \ {0}
    /\ NoInode \notin Task /\ NoInode \notin (1 .. MaxLives) \X Task

VARIABLES
    pin,       \* what the reference names
    policy,    \* node.toml and auth/
    life,      \* which life of the daemon this is
    pc,        \* where each task is
    manifest,  \* digest of the manifest it fetched
    inode,     \* the file it has open
    dir,       \* what the names in the entry's directory refer to
    data,      \* what each file holds
    writers,   \* who opened it last, and who was writing it then
    pulled,    \* what the registry gave the tasks that went on to store (history)
    shared     \* whether two of them ever had one file open (history)

registryVars == <<manifest, pulled>>
diskVars == <<inode, dir, data, writers, shared>>
vars == <<pin, policy, life, pc, registryVars, diskVars>>

Inode == (1 .. MaxLives) \X Task
Bytes == Digest \cup {"partial", "mixed"}
Signed == {"none", "good", "bad"}
Evidence == [manifest : Digest, signed : Signed]
PC == {"read", "manifest", "blob", "legacy", "bundle", "stage", "write", "rename",
       "answered", "refused"}

TypeOK ==
    /\ pin \in Pins /\ policy \in Policies /\ life \in 1 .. MaxLives
    /\ pc \in [Task -> PC]
    /\ manifest \in [Task -> Digest \cup {ATag}]
    /\ inode \in [Task -> Inode \cup {NoInode}]
    /\ dir \in [{"entry", "staging"} -> Inode \cup {NoInode}]
    /\ data \in [Inode -> Bytes]
    /\ writers \in [Inode -> [last : Task \cup {NoInode}, cut : SUBSET Task]]
    /\ \A t \in Task : pc[t] = "write" =>
          inode[t] # NoInode /\ t \in {writers[inode[t]].last} \cup writers[inode[t]].cut
    /\ pulled \subseteq Evidence
    /\ shared \in BOOLEAN

Unopened == [last |-> NoInode, cut |-> {}]

Init ==
    /\ pin \in Pins /\ policy \in Policies /\ life = 1
    /\ pc = [t \in Task |-> "read"]
    /\ manifest = [t \in Task |-> ATag] /\ pulled = {}
    /\ inode = [t \in Task |-> NoInode]
    /\ dir = [name \in {"entry", "staging"} |-> NoInode]
    /\ data = [n \in Inode |-> "partial"] /\ writers = [n \in Inode |-> Unopened]
    /\ shared = FALSE

Goto(t, where) == pc' = [pc EXCEPT ![t] = where]

-----------------------------------------------------------------------------
(* The registry client. *)

Status == {"200", "401", "403", "404", "failed"}   \* failed: any other, or no answer
Minted == {"token", "none", "refused", "failed"}

(* Registry::token, asked after a 401: a configured bearer token is used as it
   is, anything else is minted where the challenge says, if it says so. *)
Token(minted) == IF policy.credential = "bearer" THEN "token" ELSE minted

Denied == IF policy.credential = "none" THEN "unauthorized" ELSE "invalid"

(* Registry::fetch: one retry with a minted token, and no more. *)
Answer(status) == CASE status = "200" -> "body"
                    [] status \in {"401", "403"} -> Denied
                    [] status = "404" -> "absent"
                    [] status = "failed" -> "error"
Fetch(first, minted, second) ==
    CASE first # "401" -> Answer(first)
      [] first = "401" /\ Token(minted) = "none" -> "unauthorized"
      [] first = "401" /\ Token(minted) = "refused" -> Denied
      [] first = "401" /\ Token(minted) = "failed" -> "error"
      [] OTHER -> Answer(second)
Fetched == {Fetch(first, minted, second) : first, second \in Status, minted \in Minted}

Refused(t) ==
    /\ Goto(t, "refused")
    /\ manifest' = [manifest EXCEPT ![t] = ATag]
    /\ UNCHANGED <<pulled, diskVars>>

(* The manifest, and the pin's word on it, before any layer is fetched.  A body
   may still be malformed, or name no single wasm layer. *)
PullManifest(t) ==
    /\ pc[t] = "manifest"
    /\ \E answer \in Fetched :
        \/ /\ answer = "body"
           /\ \E d \in Digest :
                /\ pin \in {ATag, d}
                /\ manifest' = [manifest EXCEPT ![t] = d]
           /\ Goto(t, "blob")
           /\ UNCHANGED <<pulled, diskVars>>
        \/ Refused(t)

(* Registry::blob: length and digest are the layer's, or it is refused. *)
PullBlob(t) ==
    /\ pc[t] = "blob"
    /\ \E answer \in Fetched :
        \/ answer = "body" /\ Goto(t, "legacy") /\ UNCHANGED <<registryVars, diskVars>>
        \/ Refused(t)

(* Mutant: a signature is looked at only where the policy asks for one. *)
VerdictIfRequired(signed) == policy.require => policy.key /\ signed = "good"

(* Registry::verify, once the lookups have said what signature there is. *)
Verdict(signed) ==
    IF policy.key /\ signed # "none" THEN signed = "good" ELSE ~policy.require

Judge(t, signed) ==
    /\ IF Verdict(signed)
       THEN /\ Goto(t, "stage")
            /\ pulled' = pulled \cup {[manifest |-> manifest[t], signed |-> signed]}
            /\ UNCHANGED <<manifest, diskVars>>
       ELSE Refused(t)

(* An absent tag, a denied one, and a manifest without a signature layer send
   the lookup on to the next place; anything else it cannot use is an error. *)
LegacySignature(t) ==
    /\ pc[t] = "legacy"
    /\ \E answer \in Fetched :
        \/ answer = "body" /\ \E signed \in {"good", "bad"} : Judge(t, signed)
        \/ /\ answer \in {"body", "absent", "unauthorized"}
           /\ Goto(t, "bundle") /\ UNCHANGED <<registryVars, diskVars>>
        \/ answer \in {"body", "error", "invalid"} /\ Refused(t)

BundleSignature(t) ==
    /\ pc[t] = "bundle"
    /\ \E answer \in Fetched :
        \/ answer = "body" /\ \E signed \in {"good", "bad"} : Judge(t, signed)
        \/ answer \in {"body", "absent", "unauthorized"} /\ Judge(t, "none")
        \/ answer \in {"body", "error", "invalid"} /\ Refused(t)

-----------------------------------------------------------------------------
(* The cache. *)

(* Cache::read_at.  Bytes that are no module are refused by the validation that
   follows.  `POST /blocks/pull` pulls after any failure to read, validation
   only when there is no entry. *)
Read(t) ==
    /\ pc[t] = "read"
    /\ \/ /\ dir["entry"] # NoInode
          /\ Goto(t, IF data[dir["entry"]] \in Digest THEN "answered" ELSE "refused")
       \/ dir["entry"] = NoInode /\ Goto(t, "manifest")
       \/ dir["entry"] # NoInode /\ Goto(t, IF t \in Reactor THEN "manifest" ELSE "refused")
    /\ UNCHANGED <<registryVars, diskVars>>

Storing(t) == pc[t] \in {"write", "rename"}
Turn(t) == t \in Reactor => \A u \in Reactor \ {t} : ~Storing(u)

OpenedBy(t, n) ==
    [last |-> t, cut |-> {u \in Task : pc[u] = "write" /\ inode[u] = n}]

(* Mutant: no temporary. *)
StageInPlace(t) ==
    /\ pc[t] = "stage" /\ Turn(t)
    /\ LET n == IF dir["entry"] = NoInode THEN <<life, t>> ELSE dir["entry"]
       IN  /\ inode' = [inode EXCEPT ![t] = n]
           /\ dir' = [name \in {"entry", "staging"} |-> n]
           /\ data' = [data EXCEPT ![n] = "partial"]
           /\ writers' = [writers EXCEPT ![n] = OpenedBy(t, n)]
    /\ shared' = (shared \/ \E u \in Task : Storing(u))
    /\ Goto(t, "write")
    /\ UNCHANGED registryVars

(* Cache::store opens its temporary, which is named for the process alone: an
   existing one is emptied under whoever is writing it. *)
Stage(t) ==
    /\ pc[t] = "stage" /\ Turn(t)
    /\ LET n == IF dir["staging"] = NoInode THEN <<life, t>> ELSE dir["staging"]
       IN  /\ inode' = [inode EXCEPT ![t] = n]
           /\ dir' = [dir EXCEPT !["staging"] = n]
           /\ data' = [data EXCEPT ![n] = "partial"]
           /\ writers' = [writers EXCEPT ![n] = OpenedBy(t, n)]
    /\ shared' = (shared \/ \E u \in Task : Storing(u))
    /\ Goto(t, "write")
    /\ UNCHANGED registryVars

(* What file n holds once t has written all of its bytes.  Who opened it last
   has the whole of it, where nobody writes other bytes over them; who was cut
   off by a later opening has a tail of it. *)
Written(n, t) ==
    LET mine == manifest[t]
    IN  IF writers[n].last = t
        THEN {mine} \cup (IF \E u \in writers[n].cut : manifest[u] # mine THEN {"mixed"} ELSE {})
        ELSE IF data[n] \in {"partial", mine} THEN {data[n]} ELSE {data[n], "mixed"}

(* The write is complete, or it fails and the temporary stays. *)
Write(t) ==
    /\ pc[t] = "write"
    /\ \/ /\ \E bytes \in Written(inode[t], t) : data' = [data EXCEPT ![inode[t]] = bytes]
          /\ Goto(t, "rename")
       \/ Goto(t, "refused") /\ UNCHANGED data
    /\ UNCHANGED <<registryVars, inode, dir, writers, shared>>

(* The temporary takes the entry's name, unless another task moved it. *)
Rename(t) ==
    /\ pc[t] = "rename"
    /\ IF dir["staging"] # NoInode
       THEN /\ dir' = [name \in {"entry", "staging"} |->
                          IF name = "entry" THEN dir["staging"] ELSE NoInode]
            /\ Goto(t, "answered")
       ELSE Goto(t, "refused") /\ UNCHANGED dir
    /\ inode' = [inode EXCEPT ![t] = NoInode]
    /\ UNCHANGED <<registryVars, data, writers, shared>>

-----------------------------------------------------------------------------
(* The process ends at any point.  The next one has another temporary, and a file
   that is not the entry cannot be named any more. *)
Killed ==
    /\ life < MaxLives
    /\ life' = life + 1
    /\ pc' = [t \in Task |-> "read"]
    /\ manifest' = [t \in Task |-> ATag]
    /\ inode' = [t \in Task |-> NoInode]
    /\ dir' = [dir EXCEPT !["staging"] = NoInode]
    /\ data' = [n \in Inode |-> IF n = dir["entry"] THEN data[n] ELSE "partial"]
    /\ writers' = [n \in Inode |-> Unopened]
    /\ UNCHANGED <<pin, policy, pulled, shared>>

Step(t) ==
    /\ \/ Read(t) \/ PullManifest(t) \/ PullBlob(t) \/ LegacySignature(t)
       \/ BundleSignature(t) \/ Stage(t) \/ Write(t) \/ Rename(t)
    /\ UNCHANGED <<pin, policy, life>>

Rest == (\A t \in Task : pc[t] \in {"answered", "refused"}) /\ UNCHANGED vars

Next == (\E t \in Task : Step(t)) \/ Killed \/ Rest

Spec == Init /\ [][Next]_vars

-----------------------------------------------------------------------------
(* What a node of this policy may run: the manifest the reference names, over a
   signature that verifies if there is one and a key to try it with, and under
   one where the policy requires it. *)
Vouches(e) ==
    /\ pin \in {ATag, e.manifest}
    /\ policy.key /\ e.signed # "none" => e.signed = "good"
    /\ policy.require => policy.key /\ e.signed = "good"

(* No entry without its evidence: a cached block is never checked again, so
   whole bytes under the entry's name are those of a pull that passed every
   check, whatever the registry answered from one request to the next and
   wherever the process was killed (registry.rs, `pull`). *)
EntryIsVouchedFor ==
    dir["entry"] # NoInode /\ data[dir["entry"]] \in Digest =>
        \E e \in pulled : e.manifest = data[dir["entry"]] /\ Vouches(e)

(* Half an entry is never the work of one: unless two tasks of one process
   stored at the same time, the entry is missing or whole after any kill, any
   failed write and any leftover temporary (blocks.rs, `store`). *)
TornOnlyByTwo ==
    ~shared /\ dir["entry"] # NoInode => data[dir["entry"]] \in Digest

(* blocks.rs:142, "leaves no entry rather than a truncated one": without the
   excuse of TornOnlyByTwo. *)
NeverTorn == dir["entry"] # NoInode => data[dir["entry"]] \in Digest
=============================================================================
