------------------------------- MODULE LogFmt -------------------------------
(***************************************************************************)
(* The sink capability interface (logfmt_t) that logevt.c drives: every    *)
(* fmt->... call of the serializer is one token of a record's call         *)
(* sequence.  logfmt.h is not part of src/, so the vocabulary and the call *)
(* grammar are taken from spec section 6:                                  *)
(*   - record_begin/record_end enclose exactly one dictionary;             *)
(*   - every dict_item (list_item) is followed by exactly one value or     *)
(*     one nested dict/list block;                                         *)
(*   - every dict_begin/list_begin is matched by its own _end.             *)
(* A token is a record with the same fields whatever its op, so that TLC   *)
(* can compare any two tokens.                                             *)
(***************************************************************************)
EXTENDS Integers, Sequences

\* The sink operations; every typed value emitter is the op "value".
Ops == {"record_begin", "record_end", "dict_begin", "dict_end", "dict_item",
        "list_begin", "list_end", "list_item", "value"}

\* The typed value emitters of the interface (value_uint, value_int, ...).
ValueTypes == {"string", "int", "uint", "oct", "bool", "null", "timespec",
               "hex", "ttydev"}

Tok(op) == [op |-> op, key |-> "", vt |-> "", val |-> 0]
Item(k) == [op |-> "dict_item", key |-> k, vt |-> "", val |-> 0]
LItem(k) == [op |-> "list_item", key |-> k, vt |-> "", val |-> 0]
Val(t, v) == [op |-> "value", key |-> "", vt |-> t, val |-> v]

\* fmt->dict_item(f, k) followed by one typed value.
Field(k, t, v) == <<Item(k), Val(t, v)>>

\* The token sequence s when c holds, nothing otherwise (an `if' around
\* a group of calls).
Opt(c, s) == IF c THEN s ELSE <<>>

\* A dict_begin ... dict_end block and a list_begin ... list_end block.
Dict(body) == <<Tok("dict_begin")>> \o body \o <<Tok("dict_end")>>
List(body) == <<Tok("list_begin")>> \o body \o <<Tok("list_end")>>

-----------------------------------------------------------------------------
(***************************************************************************)
(* The sink grammar as a pushdown automaton.  A frame is an open block:    *)
(* its kind ("rec", "dict" or "list"), the keys already used in it, and    *)
(* `at', the position of the call that opened it (the block's id).  `want' *)
(* says that the previous call was an item (or record_begin) that still    *)
(* waits for its value; `pending' is that item's key or label.  `bad'      *)
(* collects the kinds of misuse seen: "grammar" for a call the interface   *)
(* does not allow at that point, "dupkey" for a key used twice in one      *)
(* dictionary.  `fields' is the record as a tree a consumer reads: one     *)
(* entry per value or nested block, saying in which block (`in') it sits,  *)
(* under which key, and its value (for a nested block, the block's id).    *)
(***************************************************************************)
SinkInit == [stack |-> <<>>, want |-> FALSE, pending |-> "", n |-> 0,
             records |-> 0, bad |-> {}, fields |-> {}]

Top(st) == IF st.stack = <<>> THEN "none" ELSE st.stack[Len(st.stack)].kind

\* The id of the innermost open block.
Here(st) == IF st.stack = <<>> THEN 0 ELSE st.stack[Len(st.stack)].at

\* An entry of `fields' for the pending item of the innermost block.
Leaf(st, v, block) ==
  [st EXCEPT !.fields = @ \cup {[in |-> Here(st), key |-> st.pending,
                                 val |-> v, block |-> block]}]

Push(st, kind) ==
  [Leaf(st, st.n, TRUE) EXCEPT
     !.stack = Append(@, [kind |-> kind, keys |-> {}, at |-> st.n]),
     !.want = FALSE]

Pop(st) == [st EXCEPT !.stack = SubSeq(@, 1, Len(@) - 1)]

Misuse(st, why) == [st EXCEPT !.bad = @ \cup {why}]

\* A value or a nested block may come only where an item waits for one.
Opens(st, kind) == IF st.want THEN Push(st, kind) ELSE Misuse(st, "grammar")

\* dict_item(k) in the innermost open dictionary.
AddKey(st, k) ==
  LET n == Len(st.stack)
      st2 == [st EXCEPT !.want = TRUE, !.pending = k,
                        !.stack[n].keys = @ \cup {k}]
  IN IF k \in st.stack[n].keys THEN Misuse(st2, "dupkey") ELSE st2

SinkStep(st0, t) ==
  LET st == [st0 EXCEPT !.n = @ + 1] IN
  CASE t.op = "record_begin" ->
         IF st.stack = <<>> /\ ~st.want
         THEN [Push(st, "rec") EXCEPT !.want = TRUE, !.records = @ + 1]
         ELSE Misuse(st, "grammar")
    [] t.op = "record_end" ->
         IF Top(st) = "rec" /\ ~st.want THEN Pop(st) ELSE Misuse(st, "grammar")
    [] t.op = "dict_begin" -> Opens(st, "dict")
    [] t.op = "list_begin" -> Opens(st, "list")
    [] t.op = "dict_end" ->
         IF Top(st) = "dict" /\ ~st.want THEN Pop(st) ELSE Misuse(st, "grammar")
    [] t.op = "list_end" ->
         IF Top(st) = "list" /\ ~st.want THEN Pop(st) ELSE Misuse(st, "grammar")
    [] t.op = "dict_item" ->
         IF Top(st) = "dict" /\ ~st.want THEN AddKey(st, t.key)
         ELSE Misuse(st, "grammar")
    [] t.op = "list_item" ->
         IF Top(st) = "list" /\ ~st.want
         THEN [st EXCEPT !.want = TRUE, !.pending = t.key]
         ELSE Misuse(st, "grammar")
    [] t.op = "value" ->
         \* a value inside a record but outside any dict is misuse too
         IF st.want /\ Top(st) \in {"dict", "list"}
         THEN [Leaf(st, t.val, FALSE) EXCEPT !.want = FALSE]
         ELSE Misuse(st, "grammar")

\* The automaton's state after the calls s[i..j] starting from st.
\* (Reading st.records first makes TLC evaluate each state as it goes.)
RECURSIVE SinkBlock(_, _, _, _)
SinkBlock(st, s, i, j) ==
  IF i > j \/ st.records < 0 THEN st
  ELSE SinkBlock(SinkStep(st, s[i]), s, i + 1, j)

\* The same for s[i..Len(s)], in blocks of 16 calls to keep recursion shallow.
RECURSIVE SinkRun(_, _, _)
SinkRun(st, s, i) ==
  IF i > Len(s) \/ st.records < 0 THEN st
  ELSE LET j == IF i + 15 < Len(s) THEN i + 15 ELSE Len(s)
       IN SinkRun(SinkBlock(st, s, i, j), s, j + 1)

SinkScan(s) == SinkRun(SinkInit, s, 1)

\* s is one complete record that the sink interface accepts.
OneRecord(s) ==
  LET st == SinkScan(s)
  IN /\ "grammar" \notin st.bad
     /\ st.stack = <<>>
     /\ ~st.want
     /\ st.records = 1


-----------------------------------------------------------------------------
(* Reading the tree of a record (F is SinkScan(s).fields). *)

\* The record's dictionary is the block opened by the second call.
TopDict == 2

\* The keys used directly in block b.
KeysIn(F, b) == {f.key : f \in {g \in F : g.in = b}}

\* The value under key k in block b (the block id for a nested block).
ValIn(F, b, k) == (CHOOSE f \in F : f.in = b /\ f.key = k).val

\* The ids of the blocks nested under key k of block b.
BlocksIn(F, b, k) == {f.val : f \in {g \in F : g.in = b /\ g.key = k /\ g.block}}

=============================================================================
