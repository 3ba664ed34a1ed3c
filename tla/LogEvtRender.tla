---------------------------- MODULE LogEvtRender ----------------------------
(***************************************************************************)
(* The record renderings of src/logevt.c: for each logevt_* function the   *)
(* sequence of sink calls (LogFmt tokens) it makes for a descriptor under  *)
(* the configuration snapshot `config'.  The descriptors are immutable     *)
(* inputs owned by the producer; they are the constants Image (the         *)
(* image_exec_t heap, linked through prev) and Proc (audit_proc_t).        *)
(* Data is abstracted to what the properties tell apart: a path is the id  *)
(* of its image_exec_t, strings and times are the value 0, an optional     *)
(* field is a BOOLEAN saying whether it is set.                            *)
(***************************************************************************)
EXTENDS Integers, Sequences, SequencesExt, LogFmt

CONSTANTS
  IE,          \* ids of the image_exec_t descriptors (positive integers)
  Image,       \* IE -> image_exec_t
  ProcIds,     \* ids of the audit_proc_t descriptors (positive integers)
  Proc,        \* ProcIds -> audit_proc_t
  config,      \* the config_t snapshot installed by logevt_init
  Passwd,      \* the uids getpwuid() resolves
  GroupDb,     \* the gids getgrgid() resolves
  UidBits,     \* width of uid_t and gid_t
  SizeBits,    \* width of size_t
  LogevtSize,  \* LOGEVT_SIZE, the number of event kinds counted in stats
  NDEBUG       \* TRUE when assert() is compiled out

\* The null pointer; descriptor ids are positive.
NULL == 0

\* (uid_t)-1 and (gid_t)-1: "no such id".
NoId == 2^UidBits - 1

\* SIZE_MAX, the "unlimited" ancestors setting.
SizeMax == 2^SizeBits - 1

\* Event kinds and their LOGEVT_* codes (hdr->code, set by the producer).
EventCode == [ops |-> 0, stats |-> 1, image_exec |-> 2, process_access |-> 3,
              launchd_add |-> 4, socket_listen |-> 5, socket_accept |-> 6,
              socket_connect |-> 7]

LOGEVT_VERSION == 16

\* Generic keys for the fixed runs of counters of the ops and stats records.
CounterKey == <<"k01", "k02", "k03", "k04", "k05", "k06", "k07", "k08", "k09",
                "k10", "k11", "k12", "k13", "k14", "k15", "k16", "k17", "k18",
                "k19", "k20", "k21", "k22", "k23", "k24", "k25", "k26", "k27",
                "k28", "k29", "k30">>

\* n value fields of one type with keys CounterKey[from], CounterKey[from+1]..
Counters(from, n, t) ==
  FlattenSeq([j \in 1..n |-> Field(CounterKey[from + j - 1], t, 0)])

\* n list items of one label, each with a value of type t (argv, envv, ...).
Entries(label, n, t) == FlattenSeq([j \in 1..n |-> <<LItem(label), Val(t, 0)>>])

\* assert(c): abort() unless c holds or assertions are compiled out.
AbortUnless(c) == IF c \/ NDEBUG THEN <<>> ELSE <<Tok("abort")>>

-----------------------------------------------------------------------------
(* Identity resolution *)

LogUidNoSentinel(uid, idlabel, namelabel) ==
  Field(idlabel, "uint", uid)
  \o Opt(config.resolve_users_groups /\ uid \in Passwd,
         Field(namelabel, "string", 0))

\* logevt_uid: the numeric id always, -1 for the sentinel, the name only if
\* resolution is enabled and getpwuid() finds one.
LogUid(uid, idlabel, namelabel) ==
  IF uid = NoId THEN Field(idlabel, "int", -1)
  ELSE Field(idlabel, "uint", uid)
       \o Opt(config.resolve_users_groups /\ uid \in Passwd,
              Field(namelabel, "string", 0))

\* logevt_gid: the same against the group database.
LogGid(gid, idlabel, namelabel) ==
  IF gid = NoId THEN Field(idlabel, "int", -1)
  ELSE Field(idlabel, "uint", gid)
       \o Opt(config.resolve_users_groups /\ gid \in GroupDb,
              Field(namelabel, "string", 0))

-----------------------------------------------------------------------------
(* Envelope *)

HeaderTimeLast(kind) ==
  <<Tok("record_begin"), Tok("dict_begin")>>
  \o Field("version", "uint", LOGEVT_VERSION)
  \o Field("eventcode", "uint", EventCode[kind])
  \o Field("time", "timespec", 0)

HeaderRenamedCode(kind) ==
  <<Tok("record_begin"), Tok("dict_begin")>>
  \o Field("version", "uint", LOGEVT_VERSION)
  \o Field("time", "timespec", 0)
  \o Field("code", "uint", EventCode[kind])

\* logevt_header: open the record and its dict, then version, time, code.
Header(kind) ==
  <<Tok("record_begin"), Tok("dict_begin")>>
  \o Field("version", "uint", LOGEVT_VERSION)
  \o Field("time", "timespec", 0)
  \o Field("eventcode", "uint", EventCode[kind])

\* logevt_footer
Footer == <<Tok("dict_end"), Tok("record_end")>>

\* A dict_item naming a nested dictionary.
Group(name, body) == <<Item(name)>> \o Dict(body)

-----------------------------------------------------------------------------
(* logevt_xnumon_ops: build, the whole configuration, the system.  The     *)
(* policy fields (hash selection, redaction switches, ancestor depth) are  *)
(* written under their names with their values; the other fields, whose   *)
(* content no property reads, are runs of counters of their value type.   *)
\* The redaction switches of config_t, in the order the ops record lists
\* them.
PolicySwitches == <<"resolve_users_groups", "omit_mode", "omit_size",
                    "omit_mtime", "omit_ctime", "omit_btime", "omit_sid",
                    "omit_groups", "omit_apple_hashes">>

\* hashes_flags_s(): the hash selection as a string naming it; abstracted
\* to a number that names the selection just as uniquely (one bit per
\* algorithm).
hashes_flags_s(h) ==
  (IF "MD5" \in h THEN 1 ELSE 0) + (IF "SHA1" \in h THEN 2 ELSE 0)
  + (IF "SHA256" \in h THEN 4 ELSE 0)

\* The ancestors setting: its number, or the string "unlimited" for
\* SIZE_MAX.
OpsAncestors ==
  IF config.ancestors < SizeMax
  THEN Field("ancestors", "uint", config.ancestors)
  ELSE Field("ancestors", "string", 0)

OpsRecord ==
  Header("ops")
  \o Field("op", "string", 0)
  \o Group("build", Counters(1, 3, "string"))
  \o Group("config",
       Field("path", "string", 0)
       \o Field("id", IF config.id THEN "string" ELSE "null", 0)
       \o Counters(1, 2, "bool") \o Counters(3, 1, "string")
       \o Counters(4, 1, "uint") \o Counters(5, 1, "string")
       \o Field("hashes", "string", hashes_flags_s(config.hflags))
       \o Counters(6, 1, "bool") \o Counters(7, 1, "string")
       \o FlattenSeq([j \in 1..Len(PolicySwitches) |->
                      Field(PolicySwitches[j], "bool",
                            IF config[PolicySwitches[j]] THEN 1 ELSE 0)])
       \o OpsAncestors
       \o Counters(8, 2, "string")
       \o Field("logoneline", IF config.logoneline = -1 THEN "null"
                              ELSE "bool", 0)
       \o Field("logfile", IF config.logfile THEN "string" ELSE "null", 0)
       \o Counters(10, 1, "uint") \o Counters(11, 1, "bool")
       \o Counters(12, 6, "uint") \o Counters(18, 1, "bool")
       \o Counters(19, 2, "uint"))
  \o Group("system", Counters(1, 3, "string"))
  \o Footer

\* logevt_xnumon_stats: a fixed tree of counters; only the log queue holds
\* a list, one entry per event kind.
StatsRecord ==
  Header("stats")
  \o Group("evtloop", Counters(1, 22, "uint"))
  \o Group("procmon", Counters(1, 3, "uint")
                      \o Group("miss", Counters(1, 6, "uint"))
                      \o Counters(4, 1, "uint"))
  \o Group("hackmon", Counters(1, 3, "uint"))
  \o Group("filemon", Counters(1, 4, "uint"))
  \o Group("sockmon", Counters(1, 3, "uint"))
  \o Group("kext_cdevq", Counters(1, 6, "uint"))
  \o Group("prep_queue", Counters(1, 5, "uint"))
  \o Group("aupi_cdevq", Counters(1, 5, "uint"))
  \o Group("work_queue", Counters(1, 1, "uint"))
  \o Group("log_queue", Field("buckets", "uint", 0)
                        \o <<Item("events")>> \o List(Entries("event", LogevtSize, "uint"))
                        \o Field("errors", "uint", 0))
  \o Group("hash_cache", Counters(1, 7, "uint"))
  \o Group("csig_cache", Counters(1, 7, "uint"))
  \o Group("ldpl_cache", Counters(1, 7, "uint"))
  \o Footer

-----------------------------------------------------------------------------
(* Image-exec renderings *)

HashKeys == {"md5", "sha1", "sha256"}

\* The configured hash fields when the hashes are to be shown.
HashFields(shown) ==
  Opt(shown, Opt("MD5" \in config.hflags, Field("md5", "hex", 0))
             \o Opt("SHA1" \in config.hflags, Field("sha1", "hex", 0))
             \o Opt("SHA256" \in config.hflags, Field("sha256", "hex", 0)))

HashesShownAnd(e) ==
  /\ "HASHES" \in e.flags
  /\ ~config.omit_apple_hashes
  /\ (~e.cs.present \/ ~e.cs.applesys)

\* The guard of the hash block: hashes were computed and they are not the
\* hashes of an Apple system binary that the configuration omits.
\* (codesign_is_apple_system is the descriptor's applesys flag.)
HashesShown(e) ==
  /\ "HASHES" \in e.flags
  /\ \/ ~config.omit_apple_hashes
     \/ ~e.cs.present
     \/ ~e.cs.applesys

\* (Mutant: the file group written whatever omit_groups says.)
ImageExecImageGroupsAlways(i) ==
  LET e == Image[i] IN
  Dict(Field("path", "string", i)
       \o Opt(e.flags \cap {"STAT", "ATTR"} # {},
              Opt(~config.omit_mode, Field("mode", "oct", 0))
              \o LogUid(e.uid, "uid", "uname")
              \o LogGid(e.gid, "gid", "gname"))
       \o Opt("STAT" \in e.flags,
              Opt(~config.omit_size, Field("size", "uint", 0))
              \o Opt(~config.omit_mtime, Field("mtime", "timespec", 0))
              \o Opt(~config.omit_ctime, Field("ctime", "timespec", 0))
              \o Opt(~config.omit_btime, Field("btime", "timespec", 0)))
       \o HashFields(HashesShown(e))
       \o Opt(e.cs.present,
              Field("signature", "string", 0)
              \o Opt(e.cs.origin, Field("origin", "string", 0))
              \o Opt(e.cs.cdhash, Field("cdhash", "hex", 0))
              \o Opt(e.cs.ident, Field("ident", "string", 0))
              \o Opt(e.cs.teamid, Field("teamid", "string", 0))
              \o Opt(e.cs.certcn, Field("certcn", "string", 0))))

\* logevt_image_exec_image: the object-image rendering, the image as the
\* subject of a record: stat fields under the omit_* switches, hashes, and
\* the whole code-signature block.
ImageExecImage(i) ==
  LET e == Image[i] IN
  Dict(Field("path", "string", i)
       \o Opt(e.flags \cap {"STAT", "ATTR"} # {},
              Opt(~config.omit_mode, Field("mode", "oct", 0))
              \o LogUid(e.uid, "uid", "uname")
              \o Opt(~config.omit_groups, LogGid(e.gid, "gid", "gname")))
       \o Opt("STAT" \in e.flags,
              Opt(~config.omit_size, Field("size", "uint", 0))
              \o Opt(~config.omit_mtime, Field("mtime", "timespec", 0))
              \o Opt(~config.omit_ctime, Field("ctime", "timespec", 0))
              \o Opt(~config.omit_btime, Field("btime", "timespec", 0)))
       \o HashFields(HashesShown(e))
       \o Opt(e.cs.present,
              Field("signature", "string", 0)
              \o Opt(e.cs.origin, Field("origin", "string", 0))
              \o Opt(e.cs.cdhash, Field("cdhash", "hex", 0))
              \o Opt(e.cs.ident, Field("ident", "string", 0))
              \o Opt(e.cs.teamid, Field("teamid", "string", 0))
              \o Opt(e.cs.certcn, Field("certcn", "string", 0))))

\* The script dict inside the process-context rendering; scripts carry no
\* signature (asserted) and their hashes ignore omit_apple_hashes.
ScriptOfProcess(s) ==
  Dict(Field("path", "string", s)
       \o AbortUnless(~Image[s].cs.present)
       \o HashFields("HASHES" \in Image[s].flags))

ProcessImageExecAnyCs(i) ==
  LET e == Image[i] IN
  Dict(Opt("PIDLOOKUP" \notin e.flags, Field("exec_time", "timespec", 0))
       \o Field("exec_pid", "int", e.pid)
       \o Field("path", "string", i)
       \o HashFields(HashesShown(e))
       \o Opt(e.cs.present,
              Opt(e.cs.ident, Field("ident", "string", 0))
              \o Opt(e.cs.teamid, Field("teamid", "string", 0)))
       \o Opt(e.script # NULL, <<Item("script")>> \o ScriptOfProcess(e.script)))

\* logevt_process_image_exec: the process-context rendering, used for the
\* image of a process and for every ancestor: exec time unless the image
\* was reconstructed from a pid, pid, path, hashes, ident and team id of a
\* good signature only, and the script.
ProcessImageExec(i) ==
  LET e == Image[i] IN
  Dict(Opt("PIDLOOKUP" \notin e.flags, Field("exec_time", "timespec", 0))
       \o Field("exec_pid", "int", e.pid)
       \o Field("path", "string", i)
       \o HashFields(HashesShown(e))
       \o Opt(e.cs.present /\ e.cs.good,
              Opt(e.cs.ident, Field("ident", "string", 0))
              \o Opt(e.cs.teamid, Field("teamid", "string", 0)))
       \o Opt(e.script # NULL, <<Item("script")>> \o ScriptOfProcess(e.script)))

RECURSIVE AncestorWalk(_, _)

AncestorWalkOffByOne(pie, depth) ==
  IF pie = NULL \/ Image[pie].pid <= 0 \/ depth > config.ancestors THEN <<>>
  ELSE <<LItem("ancestor")>> \o ProcessImageExec(pie)
       \o AncestorWalk(Image[pie].prev, depth + 1)

\* The loop of logevt_process_image_exec_ancestors from pie on, depth
\* entries already emitted: stop at NULL, at a non-positive pid, or when
\* depth reaches config->ancestors.
AncestorWalk(pie, depth) ==
  IF pie = NULL \/ Image[pie].pid <= 0 \/ depth = config.ancestors THEN <<>>
  ELSE <<LItem("ancestor")>> \o ProcessImageExec(pie)
       \o AncestorWalk(Image[pie].prev, depth + 1)

\* logevt_process_image_exec_ancestors
ProcessImageExecAncestors(i) == List(AncestorWalk(i, 0))

-----------------------------------------------------------------------------
(* Processes *)

ProcessCredsSidAlways(p) ==
  Field("pid", "int", p.pid)
  \o LogUid(p.auid, "auid", "auname")
  \o LogUid(p.euid, "euid", "euname")
  \o Opt(~config.omit_groups, LogGid(p.egid, "egid", "egname"))
  \o LogUid(p.ruid, "ruid", "runame")
  \o Opt(~config.omit_groups, LogGid(p.rgid, "rgid", "rgname"))
  \o Field("sid", "uint", p.sid)
  \o Opt(p.tty, Field("dev", "ttydev", 0))
  \o Opt(p.addr, Field("addr", "string", 0))

\* The credentials branch of logevt_process for a full audit_proc_t.
ProcessCreds(p) ==
  Field("pid", "int", p.pid)
  \o LogUid(p.auid, "auid", "auname")
  \o LogUid(p.euid, "euid", "euname")
  \o Opt(~config.omit_groups, LogGid(p.egid, "egid", "egname"))
  \o LogUid(p.ruid, "ruid", "runame")
  \o Opt(~config.omit_groups, LogGid(p.rgid, "rgid", "rgname"))
  \o Opt(~config.omit_sid, Field("sid", "uint", p.sid))
  \o Opt(p.tty, Field("dev", "ttydev", 0))
  \o Opt(p.addr, Field("addr", "string", 0))

ProcessObjectFirst(process, processpid, ie) ==
  Dict(Opt(ie # NULL /\ "PIDLOOKUP" \in Image[ie].flags,
           Field("reconstructed", "bool", 1))
       \o (IF process # NULL THEN ProcessCreds(Proc[process])
           ELSE IF processpid > 0 THEN Field("pid", "int", processpid)
           ELSE <<>>)
       \o Opt(ie # NULL,
              Opt(Image[ie].forked, Field("fork_time", "timespec", 0))
              \o <<Item("image")>> \o ProcessImageExec(ie)
              \o Opt(config.ancestors > 0,
                     <<Item("ancestors")>>
                     \o ProcessImageExecAncestors(Image[ie].prev))))

\* (Mutant: the ancestors list without the depth test.)
ProcessAncestorsAlways(process, processpid, ie) ==
  Dict(Opt(ie # NULL /\ "PIDLOOKUP" \in Image[ie].flags,
           Field("reconstructed", "bool", 1))
       \o (IF processpid > 0 THEN Field("pid", "int", processpid)
           ELSE IF process # NULL THEN ProcessCreds(Proc[process])
           ELSE <<>>)
       \o Opt(ie # NULL,
              Opt(Image[ie].forked, Field("fork_time", "timespec", 0))
              \o <<Item("image")>> \o ProcessImageExec(ie)
              \o <<Item("ancestors")>>
              \o ProcessImageExecAncestors(Image[ie].prev)))

\* logevt_process: a process known by pid only (processpid > 0), by its
\* audit_proc_t, or by neither; then, if an image is attached, its fork
\* time, its process-context rendering and the ancestors of the image.
Process(process, processpid, ie) ==
  Dict(Opt(ie # NULL /\ "PIDLOOKUP" \in Image[ie].flags,
           Field("reconstructed", "bool", 1))
       \o (IF processpid > 0 THEN Field("pid", "int", processpid)
           ELSE IF process # NULL THEN ProcessCreds(Proc[process])
           ELSE <<>>)
       \o Opt(ie # NULL,
              Opt(Image[ie].forked, Field("fork_time", "timespec", 0))
              \o <<Item("image")>> \o ProcessImageExec(ie)
              \o Opt(config.ancestors > 0,
                     <<Item("ancestors")>>
                     \o ProcessImageExecAncestors(Image[ie].prev))))

-----------------------------------------------------------------------------
(* The event serializers *)

ImageExecRecordNoSubject(i) ==
  LET e == Image[i] IN
  Header("image_exec")
  \o Opt("PIDLOOKUP" \in e.flags, Field("reconstructed", "bool", 1))
  \o Opt(e.argc >= 0, <<Item("argv")>> \o List(Entries("arg", e.argc, "string")))
  \o Opt(e.envc >= 0, <<Item("env")>> \o List(Entries("var", e.envc, "string")))
  \o Opt(e.cwd, Field("cwd", "string", 0))
  \o <<Item("image")>> \o ImageExecImage(i)
  \o Opt(e.script # NULL, <<Item("script")>> \o ImageExecImage(e.script))
  \o Opt("PIDLOOKUP" \notin e.flags,
         <<Item("subject")>> \o Process(e.subject, 0, e.prev))
  \o Footer

\* logevt_image_exec: argv, env, cwd, the executed image and its script in
\* the object-image rendering, and the subject: the process as it was
\* before the exec (its previous image), without credentials when the
\* image was reconstructed from a pid.
ImageExecRecord(i) ==
  LET e == Image[i] IN
  Header("image_exec")
  \o Opt("PIDLOOKUP" \in e.flags, Field("reconstructed", "bool", 1))
  \o Opt(e.argc >= 0, <<Item("argv")>> \o List(Entries("arg", e.argc, "string")))
  \o Opt(e.envc >= 0, <<Item("env")>> \o List(Entries("var", e.envc, "string")))
  \o Opt(e.cwd, Field("cwd", "string", 0))
  \o <<Item("image")>> \o ImageExecImage(i)
  \o Opt(e.script # NULL, <<Item("script")>> \o ImageExecImage(e.script))
  \o <<Item("subject")>>
  \o Process(IF "PIDLOOKUP" \in e.flags THEN NULL ELSE e.subject, 0, e.prev)
  \o Footer

\* logevt_process_access: method, the object (perhaps by pid only) and the
\* subject.
ProcessAccessRecord(pa) ==
  Header("process_access")
  \o Field("method", "string", 0)
  \o <<Item("object")>> \o Process(pa.object, pa.objectpid, pa.object_ie)
  \o <<Item("subject")>> \o Process(pa.subject, 0, pa.subject_ie)
  \o Footer

\* logevt_launchd_add: plist path, program, and the subject unless the
\* descriptor has LAFLAG_NOSUBJECT.
LaunchdAddRecord(ld) ==
  Header("launchd_add")
  \o Group("plist", Field("path", "string", 0))
  \o Group("program",
       Opt(ld.rpath, Field("rpath", "string", 0))
       \o Opt(ld.path, Field("path", "string", 0))
       \o Opt(ld.argc >= 0, <<Item("argv")>> \o List(Entries("arg", ld.argc, "string"))))
  \o Opt(~ld.nosubject,
         <<Item("subject")>> \o Process(ld.subject, 0, ld.subject_ie))
  \o Footer

\* The protocol and local address of a socket event, if known.
SocketLocal(so) ==
  Opt(so.protocol, Field("proto", "string", 0))
  \o Opt(so.sock, Field("sockaddr", "string", 0) \o Field("sockport", "uint", 0))

\* logevt_socket_listen
SocketListenRecord(so) ==
  Header("socket_listen")
  \o SocketLocal(so)
  \o <<Item("subject")>> \o Process(so.subject, 0, so.subject_ie)
  \o Footer

PeerSockaddr(so) ==
  Opt(so.peer, Field("sockaddr", "string", 0) \o Field("peerport", "uint", 0))

\* The peer address of an accepted or connected socket, if known.
Peer(so) ==
  Opt(so.peer, Field("peeraddr", "string", 0) \o Field("peerport", "uint", 0))

\* logevt_socket_accept
SocketAcceptRecord(so) ==
  Header("socket_accept")
  \o SocketLocal(so) \o Peer(so)
  \o <<Item("subject")>> \o Process(so.subject, 0, so.subject_ie)
  \o Footer

\* logevt_socket_connect
SocketConnectRecord(so) ==
  Header("socket_connect")
  \o SocketLocal(so) \o Peer(so)
  \o <<Item("subject")>> \o Process(so.subject, 0, so.subject_ie)
  \o Footer

=============================================================================
