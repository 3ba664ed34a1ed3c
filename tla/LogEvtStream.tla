----------------------------- MODULE LogEvtStream -----------------------------
(***************************************************************************)
(* LogEvt seen from the consumer of the log stream: the auxiliary variable *)
(* `seen' is the record a consumer parses from the calls the stream took   *)
(* in the last serializer call.  It only observes LogEvt (no action reads  *)
(* it), so every behaviour of LogEvt is a behaviour of this module and     *)
(* back.  Through `seen' the serializer is shown to implement the          *)
(* record-level specification EventSchema.                                 *)
(***************************************************************************)
EXTENDS LogEvt

VARIABLE seen

\* A record as a consumer parses the calls s the stream took for event e:
\* its kind, its event code, the keys of its top-level dict, the key sets
\* of its subject and object dicts, the key sets of its image dicts with
\* the rendering each is in (the object image and its script at the top,
\* the image and ancestors of a process, their scripts), and whether it is
\* one whole record.
NoRecord == [kind |-> "none", code |-> -1, keys |-> {}, procs |-> {},
             images |-> {}, whole |-> TRUE]

ParseOf(e, s) ==
  LET F == SinkScan(s).fields
      Under(B, k) == UNION {BlocksIn(F, b, k) : b \in B}
      procs == Under({TopDict}, "subject") \cup Under({TopDict}, "object")
      context == Under(procs, "image")
                 \cup Under(Under(procs, "ancestors"), "ancestor")
      scripts == Under({TopDict}, "script") \cup Under(context, "script")
      View(r, B) == {<<r, KeysIn(F, b)>> : b \in B}
  IN [kind |-> e.kind,
      code |-> IF "eventcode" \in KeysIn(F, TopDict)
               THEN ValIn(F, TopDict, "eventcode") ELSE -1,
      keys |-> KeysIn(F, TopDict),
      procs |-> {KeysIn(F, b) : b \in procs},
      images |-> View("object", Under({TopDict}, "image"))
                 \cup View("context", context) \cup View("script", scripts),
      whole |-> OneRecord(s)]

StreamInit == Init /\ seen = NoRecord

\* A step of LogEvt; the consumer then parses what reached the stream, and
\* a process stopped by a failed check delivers no record.
StreamNext ==
  /\ Next
  /\ seen' = IF running' /\ evt' # NoEvent
             THEN ParseOf(evt', SubSeq(rec', 1, written'))
             ELSE NoRecord

StreamSpec == StreamInit /\ [][StreamNext]_<<vars, seen>>

Abstract == INSTANCE EventSchema
              WITH last <- seen, EventCode <- R(config)!EventCode

\* Spec 4.1, 4.6 and 7, about logevt_init and every logevt_* serializer:
\* the serializer implements EventSchema -- the configuration is set once
\* before any record, and each call delivers one whole record whose event
\* code is its kind's and whose top-level fields are the envelope, every
\* field its kind always has and only optional fields of that kind, an
\* address never without its port; and every subject and object is a
\* process dict of the shape spec 4.4 gives (credentials whole and after
\* a pid, names with their ids, ancestors exactly with an image when a
\* depth is set), and every image dict of the shape spec 4.5 gives its
\* rendering.
SchemaRefined == Abstract!Spec

=============================================================================
