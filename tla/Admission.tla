------------------------------ MODULE Admission ------------------------------
(***************************************************************************)
(* From the bytes of a block to an instance that can run it: what the      *)
(* loader checks of a module and its manifest (crates/manifest/src/        *)
(* check.rs), what a host refuses besides (daemon/src/instance.rs, leaf/   *)
(* src/lib.rs), and the host functions it then registers (host-core).      *)
(* Names are spelled in three places; the engine has none of the checks.   *)
(***************************************************************************)
EXTENDS Naturals, FiniteSets

Capability == {"state", "timer", "gpio", "i2c", "http"}

CoreFunctions == {"log", "emit", "prop", "error", "time_unix_ms", "time_mono_ms", "rand"}

\* The namespace of a capability bears its name.
Functions(c) ==
    CASE c = "state" -> {"state_get", "state_put", "state_del"}
      [] c = "timer" -> {"timer_set", "timer_cancel"}
      [] c = "gpio"  -> {"gpio_mode", "gpio_read", "gpio_write", "gpio_watch", "gpio_unwatch"}
      [] c = "i2c"   -> {"i2c_write", "i2c_read", "i2c_write_read"}
      [] c = "http"  -> {"http_request"}

\* The callback a capability is paired with, if it is.
Callback(c) ==
    CASE c = "timer" -> {"eio_on_timer"}
      [] c = "gpio"  -> {"eio_on_gpio"}
      [] c = "http"  -> {"eio_on_http"}
      [] OTHER -> {}

RequiredExports == {"memory", "eio_abi_version", "eio_alloc", "eio_free", "eio_configure",
                    "eio_start", "eio_stop", "eio_process_signals"}

(***************************************************************************)
(* A module as the loader reads it: `imports` are pairs of a namespace and *)
(* a name; `exports` are names, `sound` those of the right kind and        *)
(* signature; `pages` are the ends of its memory it declares, `embedded`   *)
(* its manifest if it carries one, `version` what eio_abi_version returns. *)
(* A manifest declares capabilities and an ABI, and names artifacts or no. *)
(***************************************************************************)
EffectiveManifest(m, registry) == IF m.embedded # {} THEN m.embedded ELSE registry

ManifestIsWrong(m, registry) ==
    \/ ~m.readable
    \/ m.embedded # {} /\ registry # {} /\ m.embedded # registry
    \/ EffectiveManifest(m, registry) = {}

AcceptedBy(abi, host) == abi.major = host.major /\ abi.minor <= host.minor

ImportsNamespace(m, ns) == \E i \in m.imports : i[1] = ns

\* `check_imports`, for one import.
ImportIsWrong(i, manifest) ==
    IF i[1] = "core" THEN i[2] \notin CoreFunctions
    ELSE \/ i[1] \notin Capability
         \/ i[2] \notin Functions(i[1])
         \/ i[1] \notin manifest.capabilities

\* `check_callbacks`, both directions, and `check_required_exports`.
ExportsAreWrong(m) ==
    \/ \E c \in Capability : \E f \in Callback(c) :
         \/ ImportsNamespace(m, c) # (f \in m.exports)
         \/ f \in m.exports /\ f \notin m.sound
    \/ \E f \in RequiredExports : f \notin m.exports \/ f \notin m.sound

\* `validate_with`; `ceiling` is empty for a host that bounds nothing.
Admits(m, registry, abi, ceiling) ==
    /\ m.portable
    /\ \A p \in m.pages, c \in ceiling : p <= c
    /\ ~ManifestIsWrong(m, registry)
    /\ \A manifest \in EffectiveManifest(m, registry) :
         /\ manifest.artifact
         /\ AcceptedBy(manifest.abi, abi)
         /\ \A i \in m.imports : ~ImportIsWrong(i, manifest)
    /\ ~ExportsAreWrong(m)

\* IMPLEMENTED_CAPABILITIES, and the two a leaf wires.
Implemented == {"state", "timer"}

\* What instance.rs and `spawn_resolved` register: eio:core for every block, the rest
\* by what its manifest declares.
Registered(manifest) ==
    ({"core"} \X {"log", "emit", "prop", "error", "time_unix_ms", "time_mono_ms", "rand"})
    \cup (IF "state" \in manifest.capabilities
          THEN {"state"} \X {"state_get", "state_put", "state_del"} ELSE {})
    \cup (IF "timer" \in manifest.capabilities
          THEN {"timer"} \X {"timer_set", "timer_cancel"} ELSE {})

\* A daemon validates a block from its own bytes, refuses what it does not implement,
\* and compares what the module says of its ABI with what the manifest says.
DaemonLoads(m, manifest, abi) ==
    /\ Admits(m, {}, abi, {})
    /\ m.embedded = {manifest}
    /\ manifest.capabilities \subseteq Implemented
    /\ AcceptedBy(m.version, abi)
    /\ m.version = manifest.abi

\* A leaf image is built from what the loader admits (`bake`); the device registers what
\* was declared and refuses the rest when it starts (`spawn_resolved`).
LeafBuilds(m, manifest, abi, ceiling) ==
    Admits(m, {}, abi, ceiling) /\ m.embedded = {manifest}

LeafBoots(manifest) == manifest.capabilities \subseteq Implemented
=============================================================================
