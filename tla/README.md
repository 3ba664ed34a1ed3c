# TLA+ models of xnumon's event serializer (`src/logevt.c`)

This directory holds TLA+ models of the part of xnumon that turns monitored
events into structured log records, and the TLC configurations that check
them. All source references point to `src/logevt.c` unless a line says
otherwise.

## 1. The system and its parts

`logevt.c` is a single-threaded serializer. Event producers (the process,
socket and launchd monitors, and the event loop's statistics) build
descriptors. The log writer then calls one `logevt_*` entry point per event,
with a *sink*: a `logfmt_t` table of callbacks (`record_begin`, `dict_item`,
`value_uint`, ...) and a `FILE *`. The serializer walks the descriptor and
issues the sink calls that make up one record. A global `config_t *`,
installed once by `logevt_init` (lines 44-49), controls what is printed.

| Part | Code | State / inputs | Operations |
|---|---|---|---|
| Configuration snapshot | `config`, `logevt_init` (44-49) | pointer, set once | `logevt_init` |
| Identity resolver | `logevt_uid`, `logevt_gid` (51-91) | id, passwd/group databases | print id, `-1` sentinel, optional name |
| Record envelope | `logevt_header`/`logevt_footer` (93-110) | event code, time | open a record with version/time/eventcode, close it |
| Redaction policy | `omit_*`, `resolve_users_groups` tests throughout | configuration switches | suppress fields |
| Image renderings | `logevt_image_exec_image` (475-552), `logevt_process_image_exec` (554-618) | `image_exec_t`: flags, stat, hashes, codesign, script | object form; process-context form |
| Ancestry walk | `logevt_process_image_exec_ancestors` (620-633) | `prev` chain, `config->ancestors` | bounded walk |
| Process serializer | `logevt_process` (635-689) | `audit_proc_t`, pid-only form, image | pid/credentials/image/ancestors |
| Event serializers | `logevt_xnumon_ops`, `_stats`, `_image_exec`, `_process_access`, `_launchd_add`, `_socket_listen`, `_accept`, `_connect` (112-904) | one descriptor each | emit one record, return 0 |
| Sink interface | `logfmt_t` (not in `src/`) | encoder state | the calls above |
| Syslog destination | `src/logdstsyslog.h` | declaration only | none in `src/` |

**How they interact.** Each event serializer calls the envelope, then its own
fields. Fields that hold a process go through the process serializer, which
uses the identity resolver and the process-context image rendering. That
rendering covers the ancestry walk and, for a script, a nested rendering.
Every rendering consults the configuration snapshot for the redaction
switches, the hash selection (`hflags`) and the ancestor depth.

**Hard behaviours.**
- The sink grammar must hold across dozens of optional branches.
- Numeric sentinels: `(uid_t)-1`, pid `<= 0` ending a chain, and `SIZE_MAX`
  meaning "unlimited" ancestors.
- The off-by-one position of the depth check.
- A corrupted, cyclic `prev` chain.
- Redaction tests scattered over many call sites.
- A compound "Apple hash" guard, repeated in two places.
- Signature fields that differ between the two image renderings.
- An `assert` that is compiled out under `NDEBUG`.
- Sink write failures, which the code ignores.

There is no concurrency inside `logevt.c`. Each call runs to completion on
immutable descriptors, so the model makes each entry point one atomic step.
The interesting behaviour is in the *content* of the step, over every
configuration and descriptor shape.

## 2. Modules

| Module | Models | Notes |
|---|---|---|
| `LogFmt` | the `logfmt_t` call vocabulary and the grammar of spec §6 | spec-modelled, because `logfmt.h` is not in `src/`. Sink calls are uniform tokens `[op, key, vt, val]`. `Field`, `Dict`, `List` build call sequences. `SinkScan` is a pushdown automaton folded over a call sequence; it reports grammar misuse and duplicate keys. |
| `LogEvtRender` | every rendering function of `logevt.c` | parameterised by the descriptor heap (`IE`, `Image`), processes (`Proc`), the `config` snapshot, the passwd/group databases, and the bit widths of `uid_t` and `size_t`. Each C function is one operator returning its call sequence. `AncestorWalk` is `RECURSIVE` and follows the C loop, including its exit conditions. `assert()` becomes an `"abort"` token unless `NDEBUG`. |
| `LogEvt` | the serializer as a state machine | VARIABLES `config`, `rec` (the calls of the last record), `evt` (its descriptor), `written` (how many calls reached the stream), `ret`, `running`. There is one action per entry point plus `logevt_init`. `Emit` models the shared tail of every entry point: an abort stops the process; otherwise the call returns 0 however much was written. `R(c) == INSTANCE LogEvtRender WITH config <- c` renders a descriptor under other snapshots, for the reference properties. |
| `EventSchema` | the abstract specification: what the serializer promises record by record (spec §4.1, §4.6, §7) | VARIABLES `config`, `last`, `running`. `Configure` installs the snapshot once. `Serialize(k)` delivers one whole record of kind `k`: its event code is `k`'s, and its top-level keys are the envelope, every field `k` always has, and optional fields of `k` only. An address is never without its port. Every subject and object is a process dict of the shape `ProcessShape` gives (spec §4.2, §4.4): credentials come whole and after a pid, with `egid`/`rgid` and `sid` exactly when not redacted; a name never comes without its id; fork time, the reconstruction mark and ancestors come only with an image; and ancestors are present exactly when a depth is set. Every image dict has the shape `ImageShape` gives its rendering (spec §4.5): object image, process context, or script. Every rendering names its path, carries the whole configured hash selection or none, and carries no field a set switch redacts. Signature details come only with the signature status; the process context has no status (ident and teamid alone); a script has no signature fields. `Abort` stops the process without delivering a record. |
| `LogEvtStream` | LogEvt seen by the consumer of the stream | EXTENDS LogEvt with the auxiliary variable `seen`: the record a consumer parses from the first `written` calls. LogFmt's automaton also rebuilds the record's tree (`fields`: the block each value or nested block sits in, its key, its value). `Abstract == INSTANCE EventSchema WITH last <- seen` gives the refinement. `seen` only observes: no action of LogEvt reads it. |
| `MC_LogEvtStream` | model values for `LogEvtStream` | EXTENDS `LogEvtStream` and `MC_LogEvt` |
| `MC_LogEvt` | model values | a 9-node image heap, 3 processes, 2 databases, event sets and configuration sets |

**Correspondence.** `rec'` is the exact sequence of sink calls the C function
makes, in order. Data is abstracted to what the properties tell apart:
- strings are `TRUE`/`FALSE` (present or not) or small integers;
- hashes and paths are field presence;
- the fixed counters of the ops and stats records are generic `k01`..`k30`
  keys carrying their value type. The ops record's policy fields
  (`hashes`, the nine redaction switches, `ancestors`) keep their names and
  values, as the code writes them. `hashes_flags_s` is modelled
  as a number with one bit per algorithm, which names the selection as
  uniquely as its string does.

Control is kept: every `if`, loop exit, `break`, early return and assert is
translated.

**Bounds.**
- `uid_t` and `size_t` are 3 bits wide, so `(uid_t)-1` is 7 and
  "unlimited" is 7. This keeps the sentinel comparisons width-faithful while
  the numbers stay small.
- The heap has:
  - the lineage `4→3→2→1`, ending at launchd (`prev` NULL);
  - a script (5) attached to 3, which has a bad signature and `-1` uid/gid;
  - a PIDLOOKUP-reconstructed image (4);
  - a chain `7→6` whose node 6 has pid 0 but a live `prev`;
  - a cycle `8↔9`.
- Ancestor depths 0, 1, 2, 3 and unlimited cover:
  - stopping at the depth limit;
  - stopping at NULL;
  - stopping at pid 0;
  - walking round the cycle until the limit.
- Processes cover:
  - `auid = -1`;
  - known and unknown users and groups;
  - `rgid = -1`;
  - tty and address present or absent.

**Fairness.** None is assumed. All checked properties are safety
properties, including the refinement, which is checked without fairness.
Every call is one atomic step, and the code has no waiting or retrying of
its own. When the serializer is called is the caller's choice (the log
thread, not in `src/`), so no fairness condition is justified by this code.
The one loop, the ancestor walk, is bounded by `config->ancestors`. It
terminates within a step for every chain of the model, including the cyclic
one.

## 3. Runs

| Run | Config | Expect | Checks |
|---|---|---|---|
| `structure` | `MC_LogEvt_structure.cfg` | pass | `TypeOK`, `EnvelopeProtocol`, `NoDuplicateKeys`, `AncestryFaithful`, `PlatformHashPolicy`, `SignatureFields`, `ProcessPidFaithful`. The configurations are every `hflags` subset × ancestors {0,1,2,3,unlimited} × switches all on/all off. |
| `redaction` | `MC_LogEvt_redaction.cfg` | pass | `RedactionExact`, `IdentityResolution` over every assignment of the nine switches with at most two set, and all set (47 configurations). Each switch acts on its own fields, so a wrong interaction between switches involves a pair of them, and this set covers every pair in all four combinations. |
| `schema` | `MC_LogEvtStream_schema.cfg` | pass | `SchemaRefined` (`Abstract!Spec` as a PROPERTY). The configurations are switches all on or all off × no hashes or all hashes × ancestors off or unlimited, because the top-level schema does not depend on the finer settings. |
| `signed_script` | `MC_LogEvt_signed_script.cfg` | violation | `ScriptSignatureFatal`, using a heap where the script carries a signature |
| `reconstructed_subject` | `MC_LogEvt_reconstructed_subject.cfg` | violation | `SubjectIdentified` |
| `sink_failure` | `MC_LogEvt_sink_failure.cfg` | violation | `FailurePropagated` when the stream may stop part way |

What the properties say:
- `EnvelopeProtocol`: every record is exactly one well-formed record, and
  it opens with version, time and eventcode.
- `NoDuplicateKeys`: no dict at any depth repeats a key.
- `AncestryFaithful`: the `exec_pid` values are exactly the images and
  ancestors the spec's walk (`RefAncestors`) prescribes, including the
  cycle.
- `RedactionExact`: a set switch removes exactly its fields. The record is
  otherwise identical to the unredacted one. This is a metamorphic check
  through `R(c)`.
- `IdentityResolution`: `-1` is never resolved. Names appear exactly when
  they are resolvable.
- `PlatformHashPolicy`: hashes are omitted only for trusted-platform images
  when the switch is set.
- `SignatureFields`: the object rendering has the full signature block; the
  process context has only ident/teamid, and only for good signatures.
- `ProcessPidFaithful`: the pid of a subject or object is the pid it is
  known by, when only the pid is known (line 648 tests `processpid` before
  the descriptor). Otherwise it is its `audit_proc_t`'s pid. Credentials
  appear only for a process known by its descriptor.
- `SchemaRefined`: LogEvt implements EventSchema. This catches any branch of
  any serializer that drops a field its kind must have, adds a field of
  another kind, writes an address without its port, writes a process dict
  with partial or redacted credentials or an ancestors list at depth 0,
  writes an image dict outside its rendering's shape (a redacted stat
  field, part of a hash selection, a signature detail without its status),
  or delivers a record that is not whole.

Every property of a passing run has a mutant in `PROJECT.json`. The mutant
is a plausible bug in the mapped definition, and TLC finds the property
violated under that run's configuration.

**Findings.**
1. `signed_script`: the assert `!ie->script->codesign` exists only on the
   process-context path (line 597). `logevt_image_exec` renders the script
   with `logevt_image_exec_image` (line 732). That path writes the signature
   with no check, while spec §4.5/§7 call a signed script a fatal invariant
   violation.
2. `reconstructed_subject`: for an image reconstructed from a pid,
   `logevt_image_exec` passes process NULL and pid 0 to `logevt_process`
   (line 737). The subject then has no pid and no credentials, and it is an
   empty dict when `prev` is NULL. Spec §4.4 gives every process its pid,
   and §4.3 asks for an explicit null rather than an omitted field, so
   that records of one kind keep one shape.
3. `sink_failure`: every serializer returns 0 unconditionally (for example,
   line 741) and ignores the sink's results. Spec §7 says a write failure is
   propagated as the failure of the serialization call.

## 4. Not modelled

- The encoders behind `logfmt_t` and the syslog destination
  (`src/logdstsyslog.h` only declares `logdstsyslog`). Their code is not in
  `src/`, and they are byte I/O.
- Code-signature evaluation, hashing and `ipaddrtoa`/`protocoltoa`. These are
  inputs: `codesign_is_good` and `codesign_is_apple_system` are fields of the
  signature record.
- The event producers and `config.c`. Their outputs are the constant
  descriptor and configuration sets.
- The 64-bit cost of an unlimited walk over a cyclic chain. With a 64-bit
  `size_t` the loop runs practically forever; the model checks the walk's
  content with a 3-bit `size_t`.

- A serializer called before `logevt_init` (line 134 and every other
  `config->` read). Spec §6 makes initialisation first the caller's
  obligation ("calling any serializer beforehand is undefined behavior"),
  and the caller (the log thread) is not in `src/`. `Emit`'s guard
  `config # NoConfig` states that obligation as the model's environment.
- Builds with `NDEBUG`. The model keeps assertions (`NDEBUG = FALSE`);
  the build flags are not in `src/`. Of the two asserts, `assert(hdr)` can
  only fail on a NULL descriptor, which the producers never pass. Without
  `assert(!ie->script->codesign)` (line 597), the process-context script
  rendering still writes no signature, so the only change is that the
  abort disappears.

## 5. Plan for the next steps

Done so far:
- **Sitting 1**: the core modules, 7 properties and the first two findings.
- **Sitting 2** added:
  - the abstract specification `EventSchema` and the refinement through
    `LogEvtStream`;
  - the reconstructed-image and pid-only-object properties;
  - the `reconstructed_subject` finding.
- **Sitting 3** added:
  - pairwise redaction configurations, which keep the `redaction` run
    within its time budget;
  - the ops record's policy fields with their real names, value types and
    values;
  - the process-dict shape in `EventSchema`, checked through the
    refinement.
- **Sitting 4** added the image-dict shapes of the three renderings to
  `EventSchema`, checked through the refinement.
- **Review** removed three properties that only restated the code:
  - `ReconstructionMarked` read back the two flag tests at lines 557 and
    644.
  - `OpsProvenance` restated the assignments of the ops record.
  - The second `TypeOK`, in the `redaction` run, repeated the one the
    `structure` run checks.

Still open: the values (not only the keys) of nested dicts in
`EventSchema`, for example that a process dict's `pid` is the pid of the
process it describes. `ProcessPidFaithful` already checks this on the
detailed model.
