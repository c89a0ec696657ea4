------------------------------- MODULE Publish -------------------------------
(***************************************************************************)
(* A block between its author and a node: where `cargo eio publish` pushes *)
(* it and in which order (crates/cargo-eio/src/publish.rs, oci.rs), how a  *)
(* node reads a reference, once for the pull (crates/daemon/src/           *)
(* registry.rs) and once for its cache (blocks.rs), what the pull takes of *)
(* a registry, and what the node lists (api/blocks.rs, api/available.rs).  *)
(* A text is a sequence of characters, as in Blocks; "localhost" and       *)
(* "sha256" are one each, and the digest of a document is the document.    *)
(***************************************************************************)
EXTENDS Blocks

CONSTANT SystemNames    \* the names of the two host-native blocks

-----------------------------------------------------------------------------
(* References. *)

\* The loopback host with the scheme of a plain one; both crates spell the rule out.
Loopback == {<<"localhost">>, <<"1", ".", "0", ".", "0", ".", "1">>,
             <<"[", ":", ":", "1", "]">>, <<":", ":", "1">>}
Scheme(host) == IF Before(host, ":") \in Loopback THEN "http" ELSE "https"
BaseUrl(host) == <<IF Before(host, ":") \in Loopback THEN "http" ELSE "https", "://">> \o host

\* `publish` names a namespace under a host by the rule a pull names a repository.
LooksLikeARegistry(host) == {".", ":"} \cap ToSet(host) # {} \/ host = <<"localhost">>
SplitRepository(path) ==
    {[host |-> Before(path, "/"), repository |-> r] :
        r \in {r \in After(path, "/") : LooksLikeARegistry(Before(path, "/")) /\ r # <<>>}}
PublishTo(registry) ==
    {[host |-> Before(registry, "/"), namespace |-> n] :
        n \in {n \in After(registry, "/") : LooksLikeARegistry(Before(registry, "/")) /\ n # <<>>}}

LastCut(t, c) == IF Cuts(t, c) = {} THEN 0 ELSE Max(Cuts(t, c))
LastPart(t) == SubSeq(t, LastCut(t, "/") + 1, Len(t))
SplitTag(reference) ==
    LET colon == LastCut(reference, ":")
    IN  IF colon > LastCut(reference, "/") /\ colon < Len(reference)
        THEN {<<SubSeq(reference, 1, colon - 1), SubSeq(reference, colon + 1, Len(reference))>>} ELSE {}
SplitDigest(reference) == {<<Before(reference, "@"), digest>> : digest \in After(reference, "@")}

Lowered(t) == [i \in DOMAIN t |-> IF t[i] \in Upper THEN CHOOSE c \in Lower : Capital[c] = t[i] ELSE t[i]]

\* What a pull asks for.
Locate(reference) ==
    LET pins == IF SplitDigest(reference) # {} THEN {<<s[1], Lowered(s[2])>> : s \in SplitDigest(reference)}
                ELSE SplitTag(reference)
    IN  UNION {{[host |-> at.host, repository |-> at.repository, pin |-> s[2]] : at \in SplitRepository(s[1])} :
                 s \in pins}

\* Where its bytes are kept.
IsComponent(t) == t \notin {<<>>, <<".">>, <<".", ".">>} /\ "/" \notin ToSet(t)
EntryOf(name, version) ==
    IF IsComponent(name) /\ IsComponent(version) THEN {[name |-> name, version |-> version]} ELSE {}
Hex == Digit \cup {"b", "e", "f", "B", "E", "F"}
ParseDigest(path, digest) ==
    UNION {IF Before(digest, ":") = <<"sha256">> /\ hex # <<>> /\ ToSet(hex) \subseteq Hex
           THEN EntryOf(LastPart(path), <<"sha256", "-">> \o Lowered(hex)) ELSE {} : hex \in After(digest, ":")}
Parse(reference) ==
    IF SplitDigest(reference) # {} THEN UNION {ParseDigest(s[1], s[2]) : s \in SplitDigest(reference)}
    ELSE UNION {EntryOf(LastPart(s[1]), s[2]) : s \in SplitTag(reference)}

\* The reference of a cached block; GET /blocks, with the two host-native blocks first.
ListedAs(entry) == entry.name \o <<":">> \o entry.version
SystemListing == {[name |-> n, version |-> <<"1", ".", "0", ".", "0">>] : n \in SystemNames}
CacheListing(dirs, loadable) == {e \in dirs : \E p \in Parse(ListedAs(e)) : p \in loadable}
\* What a service's reference runs: a host-native block before anything cached.
Runs(reference) == UNION {IF e.name \in SystemNames THEN {[native |-> e.name]} ELSE {e} : e \in Parse(reference)}

\* Only hosts of auth/registries.toml are browsed, by the host's exact spelling.
Browses(reference, configured) == {at \in Locate(reference) : at.host \in configured}
ListsTags(repository, configured) == {at \in SplitRepository(repository) : at.host \in configured}
Available(repository, tags) == {repository \o <<":">> \o tag : tag \in tags}

-----------------------------------------------------------------------------
(* Publishing. *)

\* A tag an OCI registry takes: no `+`.
RefTag(version) ==
    /\ version # <<>> /\ version[1] \in Alnum \cup Upper \cup {"_"}
    /\ ToSet(version) \subseteq Alnum \cup Upper \cup {".", "_", "-"}
    /\ Len(version) <= 128

\* Both or neither, each from its flag or else from the environment.
Credentials(flags, env) ==
    LET given(k) == flags[k] \cup (IF flags[k] = {} THEN env[k] ELSE {})
    IN  IF (given("username") = {}) # (given("password") = {}) THEN "together"
        ELSE IF given("username") = {} THEN "none" ELSE "both"

Repository(namespace, name) == namespace \o <<"/">> \o name
Reference(host, namespace, m) == host \o <<"/">> \o Repository(namespace, m.name) \o <<":">> \o m.version

WASM_LAYER == "application/wasm"
IMAGE_CONFIG == "{}"
ImageManifest(wasm) ==
    [manifests |-> {}, config |-> IMAGE_CONFIG, layers |-> <<[media |-> WASM_LAYER, digest |-> wasm]>>]

\* A registry: blobs, what each tag names, the manifests that carry a signature.
PushBlob(r, digest) == [r EXCEPT !.blobs = @ \cup {digest}]
PushManifest(r, tag, doc) ==
    [r EXCEPT !.tags = [t \in DOMAIN @ \cup {tag} |-> IF t = tag THEN doc ELSE @[t]]]
Sign(r, doc) == [r EXCEPT !.signatures = @ \cup {doc}]

\* `run`, cut off after `k` of its steps.
Published(r, m, wasm, key, k) ==
    LET one   == IF k >= 1 THEN PushBlob(r, IMAGE_CONFIG) ELSE r
        two   == IF k >= 2 THEN PushBlob(one, wasm) ELSE one
        three == IF k >= 3 THEN PushManifest(two, m.version, ImageManifest(wasm)) ELSE two
    IN  IF k >= 4 /\ key THEN Sign(three, ImageManifest(wasm)) ELSE three

\* `Push::send`: one challenge is answered.  `challenge_params` splits at every comma,
\* those inside quotes too.
Unquoted(t) == LET inner == {i \in DOMAIN t : t[i] # "'"}
               IN  IF inner = {} THEN <<>> ELSE SubSeq(t, Min(inner), Max(inner))
ChallengeParams(text) ==
    LET pairs == SelectSeq(Parts(text, ","), LAMBDA p : Cuts(p, "=") # {})
        last(k) == Max({i \in DOMAIN pairs : Before(pairs[i], "=") = k})
    IN  [k \in {Before(p, "=") : p \in ToSet(pairs)} |-> UNION {{Unquoted(v)} : v \in After(pairs[last(k)], "=")}]
MintToken(challenge, minted) ==
    IF ~challenge.bearer \/ <<"r">> \notin DOMAIN ChallengeParams(challenge.params) THEN "error" ELSE minted
Send(first, challenges, minted, second) ==
    IF first # 401 THEN first
    ELSE IF challenges = {} \/ (\E c \in challenges : MintToken(c, minted) = "error") THEN 0 ELSE second
BlobPushed(opened, located, put) == opened = 202 /\ located /\ put \in 200..299

\* `Push::absolute`: where the upload goes on.
Absolute(host, location) ==
    IF Len(location) > 1 /\ location[1] \in {"http", "https"} /\ location[2] = "://" THEN location
    ELSE BaseUrl(host) \o <<"/">> \o (IF location # <<>> /\ location[1] = "/" THEN Tail(location) ELSE location)

-----------------------------------------------------------------------------
(* The pull, from what the registry holds when it asks for the manifest, for the      *)
(* blob and for the signature.                                                        *)

WasmLayers(doc) == SelectSeq(doc.layers, LAMBDA l : l.media = WASM_LAYER)
ParseManifest(doc) ==
    IF doc.manifests # {} THEN "index" ELSE IF WasmLayers(doc) = <<>> THEN "not a block"
    ELSE IF Len(WasmLayers(doc)) > 1 THEN "more than one" ELSE "ok"

Pull(atManifest, atBlob, atSignature, tag, policy) ==
    IF tag \notin DOMAIN atManifest.tags THEN "absent"
    ELSE LET doc == atManifest.tags[tag]
             wasm == WasmLayers(doc)[1].digest
         IN  IF ParseManifest(doc) # "ok" THEN ParseManifest(doc)
             ELSE IF wasm \notin atBlob.blobs THEN "no blob"
             ELSE IF policy.require /\ ~policy.key THEN "no key"
             ELSE IF policy.require /\ doc \notin atSignature.signatures THEN "unsigned"
             ELSE wasm

\* The referrers of an artifact, of which an attestation is no signature; and what a
\* bundle's signature is made over.
BundleOf(index) ==
    LET bundles == SelectSeq(index, LAMBDA e : e.bundle)
        found == {i \in DOMAIN bundles : bundles[i].holds # "attestation"}
    IN  IF found = {} THEN "unsigned" ELSE bundles[Min(found)].holds
Figures == <<"0", "1", "2", "3", "4", "5", "6", "7", "8", "9">>
Decimal(n) == IF n < 10 THEN <<Figures[n + 1]>> ELSE <<Figures[n \div 10 + 1], Figures[(n % 10) + 1]>>
Spaced(part) == <<" ">> \o Decimal(Len(part)) \o <<" ">> \o part
DssePae(type, payload) == <<"DSSEv1">> \o Spaced(type) \o Spaced(payload)
=============================================================================
