---------------------------- MODULE EventSchema ----------------------------
(***************************************************************************)
(* What the serializer promises, one record at a time (spec 4.1, 4.6, 7): *)
(* the configuration is installed once, before any record; every call of   *)
(* a serializer then hands the stream one whole record of its kind, whose  *)
(* top-level dictionary holds the envelope, the fields the kind always     *)
(* has and a choice of its optional fields; a fatal check stops the        *)
(* process and no record is delivered by that call.  The record is seen   *)
(* as a consumer parses it: its kind, its event code, the keys of its      *)
(* top-level dictionary, the key sets of its process dictionaries (subject *)
(* and object), the key sets of its image dictionaries by rendering, and   *)
(* whether it is whole.                                                    *)
(***************************************************************************)
EXTENDS Integers, Sequences

CONSTANTS
  Configs,     \* the configuration snapshots logevt_init may install
  NoConfig,    \* no snapshot installed yet
  EventCode    \* event kind -> LOGEVT_* code

VARIABLES
  config,      \* the installed snapshot
  last,        \* the record the last call delivered
  running      \* FALSE once a fatal check stopped the process

Kinds == DOMAIN EventCode

\* Spec 4.1: version, timestamp and event code open every record.
Envelope == {"version", "time", "eventcode"}

SocketLocalKeys == {"proto", "sockaddr", "sockport"}
SocketPeerKeys == {"peeraddr", "peerport"}

\* Spec 4.6: the top-level fields each kind always carries ...
Required ==
  [ops |-> {"op", "build", "config", "system"},
   stats |-> {"evtloop", "procmon", "hackmon", "filemon", "sockmon",
              "kext_cdevq", "prep_queue", "aupi_cdevq", "work_queue",
              "log_queue", "hash_cache", "csig_cache", "ldpl_cache"},
   image_exec |-> {"image", "subject"},
   process_access |-> {"method", "object", "subject"},
   launchd_add |-> {"plist", "program"},
   socket_listen |-> {"subject"},
   socket_accept |-> {"subject"},
   socket_connect |-> {"subject"}]

\* ... and the ones it carries only when the data is there (or, for the
\* launchd subject, unless suppressed).
Optional ==
  [ops |-> {}, stats |-> {},
   image_exec |-> {"reconstructed", "argv", "env", "cwd", "script"},
   process_access |-> {},
   launchd_add |-> {"subject"},
   socket_listen |-> SocketLocalKeys,
   socket_accept |-> SocketLocalKeys \cup SocketPeerKeys,
   socket_connect |-> SocketLocalKeys \cup SocketPeerKeys]

\* An address is never written without its port, nor a port without it.
Paired(O) == /\ "sockaddr" \in O <=> "sockport" \in O
             /\ "peeraddr" \in O <=> "peerport" \in O

\* The top-level key sets a record of kind k may have.
Shapes(k) ==
  {Envelope \cup Required[k] \cup O : O \in {O \in SUBSET Optional[k] : Paired(O)}}

\* Spec 4.2 and 4.4: the keys a process dictionary is made of.  The ids of
\* a full descriptor come as a whole (egid and rgid unless secondary groups
\* are redacted, sid unless the session id is), each after the pid; a name
\* never without its id; fork time, reconstruction mark and ancestors only
\* with the image they describe, ancestors exactly when a depth is set.
IdName == [auname |-> "auid", euname |-> "euid", egname |-> "egid",
           runame |-> "ruid", rgname |-> "rgid"]
Creds == {"auid", "euid", "egid", "ruid", "rgid", "sid", "dev", "addr"}
          \cup DOMAIN IdName
ProcessKeys == {"pid", "reconstructed", "fork_time", "image", "ancestors"}
               \cup Creds

ProcessShape(K) ==
  /\ K \subseteq ProcessKeys
  /\ K \cap Creds # {} =>
       /\ "pid" \in K
       /\ {"auid", "euid", "ruid"} \subseteq K
       /\ {"egid", "rgid"} \subseteq K <=> ~config.omit_groups
       /\ "sid" \in K <=> ~config.omit_sid
  /\ \A n \in DOMAIN IdName : n \in K => IdName[n] \in K
  /\ K \cap {"reconstructed", "fork_time", "ancestors"} # {} => "image" \in K
  /\ "ancestors" \in K <=> "image" \in K /\ config.ancestors > 0

\* Spec 4.3 and 4.5: the keys of an image dictionary, in each of its three
\* renderings.  Every rendering names its path.  Hashes come as the whole
\* configured selection or not at all; a field a set switch redacts never
\* comes; a name never without its id.  The object-image rendering has
\* the stat fields and the signature block, whose details never come
\* without the signature status.  The process-context rendering has the
\* exec pid, maybe the exec time, and no signature status (ident and
\* teamid alone).  A script sub-image never has signature fields.
HashKeys == {"md5", "sha1", "sha256"}
SigKeys == {"signature", "origin", "cdhash", "ident", "teamid", "certcn"}
StatKeys == {"mode", "uid", "uname", "gid", "gname", "size", "mtime",
             "ctime", "btime"}

Selected == {h \in HashKeys :
               \E n \in config.hflags :
                 <<n, h>> \in {<<"MD5", "md5">>, <<"SHA1", "sha1">>,
                              <<"SHA256", "sha256">>}}

Withheld ==
  {k \in {"mode", "size", "mtime", "ctime", "btime"} :
     config[("omit_" \o k)]}
  \cup (IF config.omit_groups THEN {"gid", "gname"} ELSE {})
  \cup (IF config.resolve_users_groups THEN {} ELSE {"uname", "gname"})

ImageCommon(K) ==
  /\ "path" \in K
  /\ K \cap HashKeys \in {{}, Selected}
  /\ K \cap Withheld = {}
  /\ "uname" \in K => "uid" \in K
  /\ "gname" \in K => "gid" \in K

ImageKeys == {"path", "exec_time", "exec_pid", "script"}
             \cup HashKeys \cup SigKeys \cup StatKeys

Renderings == {"object", "context", "script"}

ImageShape(r, K) ==
  /\ ImageCommon(K)
  /\ r = "object" =>
       /\ K \subseteq {"path"} \cup HashKeys \cup SigKeys \cup StatKeys
       /\ K \cap SigKeys # {} => "signature" \in K
  /\ r = "context" =>
       /\ K \subseteq {"exec_time", "exec_pid", "path", "ident", "teamid",
                       "script"} \cup HashKeys
       /\ "exec_pid" \in K
  /\ r = "script" => K \subseteq {"path"} \cup HashKeys \cup StatKeys

ImageViews ==
  {v \in Renderings \X SUBSET ImageKeys : ImageShape(v[1], v[2])}

NoRecord == [kind |-> "none", code |-> -1, keys |-> {}, procs |-> {},
             images |-> {}, whole |-> TRUE]

Init ==
  /\ config = NoConfig
  /\ last = NoRecord
  /\ running = TRUE

\* logevt_init
Configure ==
  /\ config = NoConfig
  /\ config' \in Configs
  /\ UNCHANGED <<last, running>>

\* A serializer call for an event of kind k.
Serialize(k) ==
  /\ config # NoConfig
  /\ running
  /\ last' \in [kind : {k}, code : {EventCode[k]}, keys : Shapes(k),
                procs : SUBSET {K \in SUBSET ProcessKeys : ProcessShape(K)},
                images : SUBSET ImageViews,
                whole : {TRUE}]
  /\ UNCHANGED <<config, running>>

\* A fatal check fails during a call.
Abort ==
  /\ running
  /\ running' = FALSE
  /\ last' = NoRecord
  /\ UNCHANGED config

Next == Configure \/ (\E k \in Kinds : Serialize(k)) \/ Abort

Spec == Init /\ [][Next]_<<config, last, running>>

=============================================================================
