------------------------------- MODULE MC_LogEvt -------------------------------
(***************************************************************************)
(* Model values for LogEvt: a small image_exec_t heap whose prev chains    *)
(* cover the cases the serializer branches on, three processes, and the    *)
(* configuration snapshots and event descriptors the runs enumerate.       *)
(***************************************************************************)
EXTENDS LogEvt, TLC, FiniteSets

\* Code-signature results: none, an Apple system binary, a good developer
\* signature, a signature that failed validation.
NoCs    == [present |-> FALSE, good |-> FALSE, applesys |-> FALSE, origin |-> FALSE,
            cdhash |-> FALSE, ident |-> FALSE, teamid |-> FALSE, certcn |-> FALSE]
AppleCs == [present |-> TRUE, good |-> TRUE, applesys |-> TRUE, origin |-> TRUE,
            cdhash |-> TRUE, ident |-> TRUE, teamid |-> FALSE, certcn |-> TRUE]
DevCs   == [present |-> TRUE, good |-> TRUE, applesys |-> FALSE, origin |-> TRUE,
            cdhash |-> TRUE, ident |-> TRUE, teamid |-> TRUE, certcn |-> TRUE]
BadCs   == [present |-> TRUE, good |-> FALSE, applesys |-> FALSE, origin |-> FALSE,
            cdhash |-> TRUE, ident |-> TRUE, teamid |-> TRUE, certcn |-> FALSE]

MCUidBits == 3      \* uid_t of 3 bits: (uid_t)-1 is 7
MCSizeBits == 3     \* size_t of 3 bits: SIZE_MAX ("unlimited") is 7
MCNoId == 2^MCUidBits - 1

Img(pid, prev, flags, uid, gid, cs, script, forked, argc, envc, cwd, subject) ==
  [pid |-> pid, prev |-> prev, flags |-> flags, uid |-> uid, gid |-> gid,
   cs |-> cs, script |-> script, forked |-> forked, argc |-> argc,
   envc |-> envc, cwd |-> cwd, subject |-> subject]

(***************************************************************************)
(* The heap.  4 -> 3 -> 2 -> 1 is a lineage ending at launchd (pid 1,      *)
(* prev NULL); 3 runs the script 5; 4 was reconstructed from a pid; 7 -> 6 *)
(* reaches a node with pid 0 whose prev is still a live image; 8 and 9     *)
(* form a corrupted, cyclic chain.                                         *)
(***************************************************************************)
MCIE == 1..9
MCImage ==
  [i \in MCIE |->
    CASE i = 1 -> Img(1, 0, {"STAT", "HASHES"}, 0, 0, AppleCs, 0, FALSE, -1, -1, FALSE, 1)
      [] i = 2 -> Img(10, 1, {"STAT", "HASHES"}, 1, 2, DevCs, 0, TRUE, 2, 0, TRUE, 2)
      [] i = 3 -> Img(11, 2, {"ATTR", "HASHES"}, MCNoId, MCNoId, BadCs, 5, TRUE, 1, 1, FALSE, 2)
      [] i = 4 -> Img(12, 3, {"PIDLOOKUP"}, 3, 3, NoCs, 0, FALSE, -1, -1, FALSE, 3)
      [] i = 5 -> Img(11, 0, {"HASHES"}, 1, 2, NoCs, 0, FALSE, -1, -1, FALSE, 2)
      [] i = 6 -> Img(0, 1, {"STAT"}, 0, 0, NoCs, 0, FALSE, -1, -1, FALSE, 1)
      [] i = 7 -> Img(30, 6, {"STAT", "HASHES"}, 1, 2, AppleCs, 0, TRUE, 0, -1, TRUE, 2)
      [] i = 8 -> Img(40, 9, {"HASHES"}, 1, 0, DevCs, 0, TRUE, 1, -1, FALSE, 3)
      [] i = 9 -> Img(41, 8, {"STAT", "HASHES", "PIDLOOKUP"}, 0, 2, NoCs, 0, FALSE, -1, -1, FALSE, 3)]

\* The same heap where the script 5 of image 3 carries a signature, a
\* state the producer must never build (spec 4.5).
MCImageSignedScript == [MCImage EXCEPT ![5].cs = DevCs]

\* Processes: root, a user with an unset audit uid and a terminal, and an
\* unknown user.
MCProcIds == 1..3
MCProc ==
  [p \in MCProcIds |->
    CASE p = 1 -> [pid |-> 1, auid |-> MCNoId, euid |-> 0, egid |-> 0, ruid |-> 0,
                   rgid |-> 0, sid |-> 1, tty |-> FALSE, addr |-> FALSE]
      [] p = 2 -> [pid |-> 10, auid |-> 1, euid |-> 1, egid |-> 2, ruid |-> 1,
                   rgid |-> 2, sid |-> 10, tty |-> TRUE, addr |-> TRUE]
      [] p = 3 -> [pid |-> 12, auid |-> 3, euid |-> 0, egid |-> 3, ruid |-> 3,
                   rgid |-> MCNoId, sid |-> 12, tty |-> FALSE, addr |-> TRUE]]

MCPasswd == {0, 1}
MCGroupDb == {0, 2}

MCExecImages == {2, 3, 4, 7, 8}

MCAccessEvts ==
  [object : {3}, objectpid : {0, 77}, object_ie : {0, 4, 7},
   subject : {2}, subject_ie : {2, 8}]

MCLaunchdEvts ==
  [rpath : BOOLEAN, path : {TRUE}, argc : {-1, 2}, nosubject : BOOLEAN,
   subject : {1}, subject_ie : {1}]

MCSocketEvts ==
  [protocol : BOOLEAN, sock : BOOLEAN, peer : BOOLEAN, subject : {2},
   subject_ie : {0, 3}]

SwitchNames == RedactionSwitches

MkConfig(sw, hflags, ancestors, opsnull) ==
  [s \in SwitchNames |-> sw[s]]
  @@ [hflags |-> hflags, ancestors |-> ancestors, id |-> ~opsnull,
      logoneline |-> IF opsnull THEN -1 ELSE 1, logfile |-> ~opsnull]

\* The redaction switches in every pairwise combination: every assignment
\* with at most two switches set (so each pair of switches is seen set/set,
\* set/unset, unset/set and unset/unset), and all of them set.
FewSet == {sw \in [SwitchNames -> BOOLEAN] :
             \A a, b, c \in SwitchNames :
               (sw[a] /\ sw[b] /\ sw[c]) => Cardinality({a, b, c}) < 3}
Pairwise == FewSet \cup {[s \in SwitchNames |-> TRUE]}

RedactionConfigs ==
  {MkConfig(sw, {"MD5", "SHA256"}, 2, FALSE) : sw \in Pairwise}

\* Every hash selection and ancestor depth (0, 1, 2, 3 and unlimited), with
\* the switches all off or all on.
StructureConfigs ==
  {MkConfig([s \in SwitchNames |-> b], h, a, b) :
     b \in BOOLEAN, h \in SUBSET {"MD5", "SHA1", "SHA256"},
     a \in {0, 1, 2, 3, 2^MCSizeBits - 1}}

\* For the record-level schema: the switches all off or all on, no hashes
\* or all three, ancestors off or unlimited.
SchemaConfigs ==
  {MkConfig([s \in SwitchNames |-> b], h, a, b) :
     b \in BOOLEAN, h \in {{}, {"MD5", "SHA1", "SHA256"}},
     a \in {0, 2^MCSizeBits - 1}}

=============================================================================
