-------------------------------- MODULE LogEvt --------------------------------
(***************************************************************************)
(* The logging thread's use of src/logevt.c: logevt_init installs the      *)
(* configuration snapshot once, then every call of a logevt_* serializer   *)
(* turns one immutable event descriptor into one record of sink calls.     *)
(* A step is a whole call; `rec' is the call sequence of the last record,  *)
(* `evt' the descriptor it was made from.  The sink (a FILE stream behind  *)
(* the format engine) may stop writing part way when SinkMayFail holds;    *)
(* `written' counts the calls it took, `ret' is the serializer's result.   *)
(***************************************************************************)
EXTENDS Integers, Sequences, SequencesExt, LogFmt

CONSTANTS
  IE, Image, ProcIds, Proc, Passwd, GroupDb, UidBits, SizeBits, LogevtSize,
  NDEBUG,
  Configs,       \* the config_t snapshots logevt_init may be given
  ExecImages,    \* image_exec_t descriptors handed to logevt_image_exec
  AccessEvts,    \* process_access_t descriptors
  LaunchdEvts,   \* launchd_add_t descriptors
  SocketEvts,    \* socket_listen/accept/connect_t descriptors
  SinkMayFail    \* the stream may fail part way through a record

VARIABLES config, rec, evt, written, ret, running

vars == <<config, rec, evt, written, ret, running>>

\* The renderings under configuration c.
R(c) == INSTANCE LogEvtRender WITH config <- c

NULL == 0
NoConfig == [unset |-> TRUE]
NoEvent == [kind |-> "none", arg |-> 0]

Kinds == {"ops", "stats", "image_exec", "process_access", "launchd_add",
          "socket_listen", "socket_accept", "socket_connect"}

\* The field names of the record schema (spec 6: renaming one is a breaking
\* change) and the list item labels.
Schema ==
  {"version", "time", "eventcode", "op", "build", "config", "system", "id",
   "path", "ancestors", "logoneline", "logfile", "evtloop", "procmon", "miss",
   "hackmon", "filemon", "sockmon", "kext_cdevq", "prep_queue", "aupi_cdevq",
   "work_queue", "log_queue", "buckets", "events", "errors", "hash_cache",
   "csig_cache", "ldpl_cache", "mode", "uid", "uname", "gid", "gname", "size",
   "mtime", "ctime", "btime", "md5", "sha1", "sha256", "signature", "origin",
   "cdhash", "ident", "teamid", "certcn", "exec_time", "exec_pid", "script",
   "pid", "auid", "auname", "euid", "euname", "egid", "egname", "ruid",
   "runame", "rgid", "rgname", "sid", "dev", "addr", "reconstructed",
   "fork_time", "image", "argv", "env", "cwd", "subject", "method", "object",
   "plist", "program", "rpath", "proto", "sockaddr", "sockport", "peeraddr",
   "peerport", "hashes"}
  \cup {R(config)!PolicySwitches[n] : n \in DOMAIN R(config)!PolicySwitches}
  \cup {R(config)!CounterKey[n] : n \in DOMAIN R(config)!CounterKey}
Labels == {"ancestor", "arg", "var", "event"}

Token == [op : Ops, key : Schema \cup Labels \cup {""},
          vt : ValueTypes \cup {""}, val : Int]

TypeOK ==
  /\ config \in Configs \cup {NoConfig}
  /\ rec \in Seq(Token)
  /\ evt.kind \in Kinds \cup {"none"}
  /\ written \in 0..Len(rec)
  /\ ret = 0
  /\ running \in BOOLEAN

\* The process starts with no configuration and no record.
Init ==
  /\ config = NoConfig
  /\ rec = <<>>
  /\ evt = NoEvent
  /\ written = 0
  /\ ret = 0
  /\ running = TRUE

\* logevt_init: the configuration pointer is set once, before any record.
logevt_init ==
  /\ config = NoConfig
  /\ \E cfg \in Configs : config' = cfg
  /\ UNCHANGED <<rec, evt, written, ret, running>>

\* One serializer call producing the sink calls `tokens' for descriptor e.
\* A failed assert() aborts the process at that call; otherwise the call
\* returns 0, however many of the calls the stream actually wrote.
Emit(e, tokens) ==
  LET k == SelectInSeq(tokens, LAMBDA t : t.op = "abort") IN
  /\ config # NoConfig
  /\ running
  /\ evt' = e
  /\ UNCHANGED config
  /\ IF k = 0
     THEN /\ rec' = tokens
          /\ \E w \in IF SinkMayFail THEN 0..Len(tokens) ELSE {Len(tokens)} :
               written' = w
          /\ ret' = 0
          /\ UNCHANGED running
     ELSE /\ rec' = SubSeq(tokens, 1, k - 1)
          /\ written' = k - 1
          /\ running' = FALSE
          /\ UNCHANGED ret

logevt_xnumon_ops ==
  Emit([kind |-> "ops", arg |-> 0], R(config)!OpsRecord)

logevt_xnumon_stats ==
  Emit([kind |-> "stats", arg |-> 0], R(config)!StatsRecord)

logevt_image_exec ==
  \E i \in ExecImages :
    Emit([kind |-> "image_exec", arg |-> i], R(config)!ImageExecRecord(i))

logevt_process_access ==
  \E pa \in AccessEvts :
    Emit([kind |-> "process_access", arg |-> pa], R(config)!ProcessAccessRecord(pa))

logevt_launchd_add ==
  \E ld \in LaunchdEvts :
    Emit([kind |-> "launchd_add", arg |-> ld], R(config)!LaunchdAddRecord(ld))

logevt_socket_listen ==
  \E so \in SocketEvts :
    Emit([kind |-> "socket_listen", arg |-> so], R(config)!SocketListenRecord(so))

logevt_socket_accept ==
  \E so \in SocketEvts :
    Emit([kind |-> "socket_accept", arg |-> so], R(config)!SocketAcceptRecord(so))

logevt_socket_connect ==
  \E so \in SocketEvts :
    Emit([kind |-> "socket_connect", arg |-> so], R(config)!SocketConnectRecord(so))

Next ==
  \/ logevt_init
  \/ logevt_xnumon_ops
  \/ logevt_xnumon_stats
  \/ logevt_image_exec
  \/ logevt_process_access
  \/ logevt_launchd_add
  \/ logevt_socket_listen
  \/ logevt_socket_accept
  \/ logevt_socket_connect

Spec == Init /\ [][Next]_vars

-----------------------------------------------------------------------------
(***************************************************************************)
(* Helpers for reading a record                                           *)
(***************************************************************************)

IsItem(t, keys) == t.op = "dict_item" /\ t.key \in keys

\* The values emitted for key k, in call order.
ValuesOf(s, k) ==
  LET at == SelectSeq([j \in 1..Len(s) |-> j],
                      LAMBDA j : j < Len(s) /\ s[j] = Item(k))
  IN [n \in DOMAIN at |-> s[at[n] + 1].val]

\* Indices j where a dict_item "path" names an image_exec_t descriptor: the
\* start of an object-image, process-context or script rendering of it.
ImagePaths(s) ==
  {j \in 1..Len(s) - 1 : s[j] = Item("path") /\ s[j + 1].val \in IE}

\* The keys of the fields that follow the path at j in the same dict, up to
\* the first nested block or the end of the dict.
Segment(s, j) ==
  LET stop == SelectInSubSeq(s, j + 2, Len(s),
                LAMBDA t : t.op \in {"dict_begin", "dict_end", "list_begin"})
  IN {s[k].key : k \in {k \in j + 2..stop - 1 : s[k].op = "dict_item"}}

\* The path at j belongs to a process-context rendering (exec_pid first).
InProcessContext(s, j) == j > 2 /\ s[j - 2] = Item("exec_pid")

\* The images rendered as processes by the record of e, in call order
\* (NULL for a process without an image).
ProcessImages(e) ==
  CASE e.kind = "image_exec" -> <<Image[e.arg].prev>>
    [] e.kind = "process_access" -> <<e.arg.object_ie, e.arg.subject_ie>>
    [] e.kind = "launchd_add" ->
         IF e.arg.nosubject THEN <<>> ELSE <<e.arg.subject_ie>>
    [] e.kind \in {"socket_listen", "socket_accept", "socket_connect"} ->
         <<e.arg.subject_ie>>
    [] OTHER -> <<>>

\* The record of descriptor e under configuration c.
RecordOf(c, e) ==
  CASE e.kind = "ops" -> R(c)!OpsRecord
    [] e.kind = "stats" -> R(c)!StatsRecord
    [] e.kind = "image_exec" -> R(c)!ImageExecRecord(e.arg)
    [] e.kind = "process_access" -> R(c)!ProcessAccessRecord(e.arg)
    [] e.kind = "launchd_add" -> R(c)!LaunchdAddRecord(e.arg)
    [] e.kind = "socket_listen" -> R(c)!SocketListenRecord(e.arg)
    [] e.kind = "socket_accept" -> R(c)!SocketAcceptRecord(e.arg)
    [] e.kind = "socket_connect" -> R(c)!SocketConnectRecord(e.arg)

Recorded == evt.kind # "none" /\ running

-----------------------------------------------------------------------------
(***************************************************************************)
(* Reference definitions taken from the spec (sections 4.3 - 4.5)          *)
(***************************************************************************)

\* The chain p, p.prev, ... cut at NULL, at most n links long.
RECURSIVE ChainOf(_, _)
ChainOf(p, n) ==
  IF p = NULL \/ n = 0 THEN <<>> ELSE <<p>> \o ChainOf(Image[p].prev, n - 1)

\* Section 4.4: the ancestors of an image whose predecessor is p: the chain
\* from p up to the configured depth, ending before the first node whose
\* pid is not strictly positive.
RefAncestors(p) ==
  LET c == ChainOf(p, config.ancestors)
      live == {k \in 0..Len(c) : \A j \in 1..k : Image[c[j]].pid > 0}
  IN SubSeq(c, 1, Max(live))

\* The exec_pid values a record of e must carry: for each process with an
\* image, the image's pid and then its ancestors' pids, nearest first.
RefExecPids(e) ==
  LET procs == ProcessImages(e)
      pids(i) == <<Image[i].pid>>
                 \o IF config.ancestors > 0
                    THEN LET a == RefAncestors(Image[i].prev)
                         IN [k \in DOMAIN a |-> Image[a[k]].pid]
                    ELSE <<>>
  IN FlattenSeq([n \in DOMAIN procs |->
                   IF procs[n] = NULL THEN <<>> ELSE pids(procs[n])])

\* Section 4.3: the keys each redaction switch suppresses, when set.
NameKeys == {"uname", "gname", "auname", "euname", "egname", "runame", "rgname"}
GroupKeys == {"gid", "gname", "egid", "egname", "rgid", "rgname"}

Redacted(c) ==
  UNION {IF c.omit_mode THEN {"mode"} ELSE {},
         IF c.omit_size THEN {"size"} ELSE {},
         IF c.omit_mtime THEN {"mtime"} ELSE {},
         IF c.omit_ctime THEN {"ctime"} ELSE {},
         IF c.omit_btime THEN {"btime"} ELSE {},
         IF c.omit_sid THEN {"sid"} ELSE {},
         IF c.omit_groups THEN GroupKeys ELSE {},
         IF c.resolve_users_groups THEN {} ELSE NameKeys}

\* The switches themselves, which the ops record lists with their values.
RedactionSwitches ==
  {"resolve_users_groups", "omit_mode", "omit_size", "omit_mtime",
   "omit_ctime", "omit_btime", "omit_sid", "omit_groups", "omit_apple_hashes"}

\* The same snapshot with every switch letting its field through.
Unredacted(c) ==
  [c EXCEPT !.omit_mode = FALSE, !.omit_size = FALSE, !.omit_mtime = FALSE,
            !.omit_ctime = FALSE, !.omit_btime = FALSE, !.omit_sid = FALSE,
            !.omit_groups = FALSE, !.resolve_users_groups = TRUE]

\* s without the fields whose key is in G (each is an item and one value).
Without(s, G) ==
  LET keep == SelectSeq([j \in 1..Len(s) |-> j],
                LAMBDA j : ~IsItem(s[j], G) /\ ~(j > 1 /\ IsItem(s[j - 1], G)))
  IN [n \in DOMAIN keep |-> s[keep[n]]]

\* The id field of each name field, and the database that resolves it.
NameOf == [uid |-> "uname", gid |-> "gname", auid |-> "auname",
           euid |-> "euname", egid |-> "egname", ruid |-> "runame",
           rgid |-> "rgname"]
IdDb(k) == IF k \in {"gid", "egid", "rgid"} THEN GroupDb ELSE Passwd

HashKeys == {"md5", "sha1", "sha256"}
SigKeys == {"signature", "origin", "cdhash", "ident", "teamid", "certcn"}

\* Section 4.3: hashes of image i are shown unless the omit_apple_hashes
\* switch is set and i carries a trusted-platform signature.
RefHashKeys(i) ==
  LET e == Image[i]
      platform == e.cs.present /\ e.cs.good /\ e.cs.applesys
  IN IF "HASHES" \in e.flags /\ ~(config.omit_apple_hashes /\ platform)
     THEN {h \in HashKeys : \E n \in config.hflags :
             <<n, h>> \in {<<"MD5", "md5">>, <<"SHA1", "sha1">>,
                           <<"SHA256", "sha256">>}}
     ELSE {}

\* Section 4.5: the signature fields of image i in the object-image
\* rendering (ctx FALSE) and in the process-context rendering (ctx TRUE).
RefSigKeys(i, ctx) ==
  LET cs == Image[i].cs
      opt == {k \in {"origin", "cdhash", "ident", "teamid", "certcn"} : cs[k]}
  IN CASE ~cs.present -> {}
       [] ctx -> IF cs.good THEN opt \cap {"ident", "teamid"} ELSE {}
       [] OTHER -> {"signature"} \cup opt


\* Spec 4.6: the process each top-level process field of the record of e
\* describes -- its audit_proc_t (proc) and, for an object known by pid
\* only, that pid (bypid > 0).
Described(e) ==
  CASE e.kind = "image_exec" ->
         {[field |-> "subject", proc |-> Image[e.arg].subject, bypid |-> 0]}
    [] e.kind = "process_access" ->
         {[field |-> "object", proc |-> e.arg.object, bypid |-> e.arg.objectpid],
          [field |-> "subject", proc |-> e.arg.subject, bypid |-> 0]}
    [] e.kind \in {"launchd_add", "socket_listen", "socket_accept",
                   "socket_connect"} ->
         {[field |-> "subject", proc |-> e.arg.subject, bypid |-> 0]}
    [] OTHER -> {}

\* Spec 4.4: the credential fields of a fully known process.
CredKeys == {"auid", "euid", "egid", "ruid", "rgid", "sid", "dev", "addr"}

-----------------------------------------------------------------------------
(***************************************************************************)
(* Properties                                                              *)
(***************************************************************************)

\* Spec 4.1 and 6, about logevt_header/logevt_footer and every serializer
\* between them: each call makes exactly one record that the sink accepts
\* (every item followed by exactly one value or block, every begin matched
\* by its end, nothing outside the record's dict), and the record opens with
\* version, time and eventcode, in that order, carrying the schema version
\* and the event's code.
EnvelopeProtocol ==
  Recorded =>
    /\ OneRecord(rec)
    /\ <<rec[3], rec[5], rec[7]>> = <<Item("version"), Item("time"), Item("eventcode")>>
    /\ rec[4].val = R(config)!LOGEVT_VERSION
    /\ rec[8].val = R(config)!EventCode[evt.kind]

\* No dictionary of any record, at any depth (the event, a process, its
\* image, an ancestor, a script), carries the same key twice: consumers key
\* off field names, so a repeated key loses one of the two values.
NoDuplicateKeys ==
  Recorded => "dupkey" \notin SinkScan(rec).bad

\* Spec 4.4 and 8, about logevt_process and the ancestor loop of
\* logevt_process_image_exec_ancestors: the exec_pid fields of a record
\* are, for each process in order, the pid of its image followed by the pids
\* of its ancestors from the nearest outwards, exactly min(D, k) of them
\* where D is config->ancestors and k the length of the chain before NULL
\* or the first non-positive pid; malformed (cyclic) chains included.
AncestryFaithful ==
  Recorded => ValuesOf(rec, "exec_pid") = RefExecPids(evt)

\* Spec 4.3 and 8, about the omit_* and resolve_users_groups switches in
\* logevt_image_exec_image, logevt_process, logevt_uid and logevt_gid: a
\* set switch removes its fields from every dict of the record, and the
\* record is otherwise call for call the record the same descriptor gets
\* with every switch letting its field through -- no other field is lost,
\* added or moved.  (The ops record's copy of the switches states the
\* configuration rather than observed data, so it is left out of the
\* comparison.)
RedactionExact ==
  Recorded =>
    LET G == Redacted(config) \cup RedactionSwitches
    IN /\ \A j \in 1..Len(rec) : ~IsItem(rec[j], Redacted(config))
       /\ Without(rec, G) = Without(RecordOf(Unredacted(config), evt), G)

\* Spec 4.2 and 8, about logevt_uid and logevt_gid wherever they are
\* called: an id equal to (uid_t)-1 is written as -1 and never resolved;
\* any other id is written unsigned and is followed by its name exactly
\* when resolution is on and the right database knows the id; a name field
\* never appears except right after its own id field.
IdentityResolution ==
  Recorded =>
    \A j \in 1..Len(rec) - 1 :
      /\ IsItem(rec[j], DOMAIN NameOf) =>
           LET v == rec[j + 1]
               named == j + 2 <= Len(rec) /\ rec[j + 2] = Item(NameOf[rec[j].key])
           IN /\ v.vt \in {"int", "uint"}
              /\ v.vt = "int" => v.val = -1 /\ ~named
              /\ v.vt = "uint" =>
                   /\ v.val # R(config)!NoId
                   /\ named <=> (config.resolve_users_groups
                                 /\ v.val \in IdDb(rec[j].key))
      /\ IsItem(rec[j], NameKeys) =>
           /\ j > 2
           /\ IsItem(rec[j - 2], DOMAIN NameOf)
           /\ NameOf[rec[j - 2].key] = rec[j].key

\* Spec 4.3 and 8, about the compound hash guard of logevt_image_exec_image
\* and logevt_process_image_exec and the script hashes: every rendering of
\* an image (object, process context, ancestor, script) carries exactly the
\* configured hashes, unless the image is a trusted-platform binary and
\* omit_apple_hashes is set; unsigned and non-platform binaries always keep
\* their hashes.
PlatformHashPolicy ==
  Recorded =>
    \A j \in ImagePaths(rec) :
      Segment(rec, j) \cap HashKeys = RefHashKeys(rec[j + 1].val)

\* Spec 4.5 and 8, about the codesign blocks of logevt_image_exec_image and
\* logevt_process_image_exec: the object-image rendering carries the whole
\* signature block of a signed image; the process-context rendering (the
\* image of a process and each ancestor) carries only ident and teamid, and
\* only for a good signature.
SignatureFields ==
  Recorded =>
    \A j \in ImagePaths(rec) :
      Segment(rec, j) \cap SigKeys
        = RefSigKeys(rec[j + 1].val, InProcessContext(rec, j))

\* Spec 4.5 and 7, about the script renderings in logevt_image_exec and
\* logevt_process_image_exec: a script carrying a signature is an invariant
\* violation that stops the program; no record that is completed shows a
\* signature for an image that is some image's script.
Scripts == {Image[i].script : i \in IE} \ {NULL}

ScriptSignatureFatal ==
  Recorded =>
    \A j \in ImagePaths(rec) :
      rec[j + 1].val \in Scripts => "signature" \notin Segment(rec, j)

\* Spec 7, about the return value of every logevt_* serializer: a write
\* failure of the sink is reported to the caller as the failure of the
\* record's serialization, so a call that returns 0 had all of its record
\* written.
FailurePropagated ==
  Recorded => (ret = 0 => written = Len(rec))


\* The record as a tree.
Tree == SinkScan(rec).fields

\* Spec 4.4, about the branch order of logevt_process ("process must be
\* ignored" when processpid is set): the pid a subject or object carries is
\* the pid the object is known by when it is known by pid only, and the
\* pid of its audit_proc_t otherwise; credentials are written only for a
\* process that is not known by pid only.
ProcessPidFaithful ==
  Recorded =>
    LET F == Tree IN
    \A d \in Described(evt) : \A b \in BlocksIn(F, TopDict, d.field) :
      /\ "pid" \in KeysIn(F, b) =>
           ValIn(F, b, "pid") = IF d.bypid > 0 THEN d.bypid ELSE Proc[d.proc].pid
      /\ KeysIn(F, b) \cap CredKeys # {} => d.bypid = 0

\* Spec 4.4 with 4.3 ("genuinely unknown data is an explicit null, not
\* omitted, so schema shape stays uniform"), about the subject that
\* logevt_image_exec passes to logevt_process: every subject and object of
\* a record says which process it is.
SubjectIdentified ==
  Recorded =>
    LET F == Tree IN
    \A d \in Described(evt) : \A b \in BlocksIn(F, TopDict, d.field) :
      "pid" \in KeysIn(F, b)


=============================================================================
