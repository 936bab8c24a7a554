------------------------------ MODULE Exports ------------------------------
(***************************************************************************)
(* Fields of a json message as one row of a binary COPY: the exports       *)
(* producer (exports.c) and the jsonexport hook (hooks/jsonexport.c), which *)
(* share the code of this module.  The list `jpointers' of the             *)
(* configuration is validated and normalised in place, the needles are     *)
(* built from it, and then every message is matched against the needles.   *)
(*                                                                         *)
(* The producer keeps the result of every needle from one message to the   *)
(* next; the hook works on a copy of the needles, one for every message.   *)
(***************************************************************************)
EXTENDS Timestamp

CONSTANTS Setups,    \* the configurations to explore
          Docs,      \* Docs[setup.docs]: the messages such a setup is given
          Strstr     \* pairs <<text, data>>: strstr(text, data) # NULL

Missing == "missing"    \* a member that is not in the configuration

pq_types == {"text", "timestamp"}
filter_types == {"noop", "match", "substr", "exists"}
needs_data(filter) == filter \in {"match", "substr"}
action_types(hook) ==
  {"store", "store_true", "discard_false", "discard_true"}
    \cup (IF hook THEN {"store_meta"} ELSE {})
stores(needle) == needle.action \notin {"discard_false", "discard_true"}

NoDate == [year |-> 0, month |-> 0, day |-> 0, hour |-> 0, minute |-> 0,
           second |-> 0, fraction |-> <<>>]
Absent == [found |-> FALSE, text |-> "", tm |-> NoDate]
NULL == [at |-> "NULL", value |-> <<>>]

VARIABLES
  setup,      \* hook or producer, its jpointers, messages; never changes
  phase,      \* "validate", "refused", "crashed", "run", "freed"
  setting,    \* the list jpointers, as validation leaves it so far
  i,          \* the loop variable of the validation
  needles,    \* internal->needles
  result,     \* needles[n]->result: NULL, on the heap, or inside of json-c
  leaked,     \* allocations that nothing points to any more
  count,      \* messages so far
  doc,        \* the last message
  out,        \* [sent |-> was there a row, fields |-> its fields]
  metadata    \* values the hook has set as metadata of the last message

vars == <<setup, phase, setting, i, needles, result, leaked, count, doc, out, metadata>>

NoRow == [sent |-> FALSE, fields |-> <<>>]
NoDoc == [form |-> "none"]

Init ==
  /\ setup \in Setups
  /\ phase = "validate"
  /\ setting = setup.jpointers
  /\ i = 0
  /\ needles = <<>> /\ result = <<>> /\ leaked = 0
  /\ count = 0 /\ doc = NoDoc /\ out = NoRow /\ metadata = <<>>
-----------------------------------------------------------------------------
(***************************************************************************)
(* exporter_validate and h_jsonexport_validate.                            *)
(***************************************************************************)
member(child, name, default) ==
  IF child.kind \in {"scalar", "other"} \/ child[name] = Missing THEN default ELSE child[name]

normalised(child) ==
  LET filter == member(child, "filter", "noop") IN
  [kind |-> "array",
   jpointer |-> IF child.kind = "other" THEN Missing ELSE child.jpointer,
   pqtype |-> member(child, "pqtype", "text"),
   action |-> member(child, "action", "store"),
   filter |-> filter,
   data |-> IF needs_data(filter) THEN member(child, "data", "") ELSE ""]

(* An element that is neither string, array nor group only gets a message. *)
invalid(child) ==
  /\ child.kind # "other"
  /\ \/ child.jpointer = Missing
     \/ member(child, "pqtype", "text") \notin pq_types
     \/ member(child, "action", "store") \notin action_types(setup.hook)
     \/ member(child, "filter", "noop") \notin filter_types
     \/ needs_data(member(child, "filter", "noop")) /\ child.data = Missing

validating_once_more == i <= Len(setting)

validating == i < Len(setting)

(* One turn of the loop: the first element goes, its normal form comes in  *)
(* at the end.                                                             *)
validate ==
  /\ phase = "validate" /\ setting # <<>> /\ validating
  /\ IF invalid(Head(setting))
     THEN phase' = "refused" /\ UNCHANGED <<setting, i>>
     ELSE /\ setting' = Append(Tail(setting), normalised(Head(setting)))
          /\ i' = i + 1
          /\ UNCHANGED phase
  /\ UNCHANGED <<setup, needles, result, leaked, count, doc, out, metadata>>

(* _needles: strdup() of a jpointer that is missing is the end.            *)
init ==
  /\ phase = "validate" /\ (setting = <<>> \/ ~validating)
  /\ IF \E n \in DOMAIN setting : setting[n].jpointer = Missing
     THEN phase' = "crashed" /\ UNCHANGED <<needles, result>>
     ELSE /\ phase' = "run"
          /\ needles' = setting
          /\ result' = [n \in DOMAIN setting |-> NULL]
  /\ UNCHANGED <<setup, setting, i, leaked, count, doc, out, metadata>>
-----------------------------------------------------------------------------
(***************************************************************************)
(* Filters, actions and conversions of a needle on the value v at its      *)
(* jpointer.                                                               *)
(***************************************************************************)
filter(needle, v) ==
  CASE needle.filter = "match"  -> v.found /\ v.text = needle.data
    [] needle.filter = "substr" -> v.found /\ <<v.text, needle.data>> \in Strstr
    [] needle.filter = "noop"   -> TRUE
    [] needle.filter = "exists" -> v.found

action(needle, v) ==
  CASE needle.action \in {"store", "store_meta"} -> TRUE
    [] needle.action \in {"store_true", "discard_false"} -> filter(needle, v)
    [] needle.action = "discard_true" -> ~filter(needle, v)

maxsecond == IF setup.hook THEN 60 ELSE 59

converts(needle, v) == needle.pqtype = "text" \/ in_range(v.tm, maxsecond)

format(needle, v) ==
  IF needle.pqtype = "text" THEN [at |-> "json", value |-> <<v.text>>]
  ELSE LET e == epoch(v.tm) IN
       [at |-> "heap", value |-> <<e.seconds[1], e.seconds[2], e.micro>>]

(***************************************************************************)
(* _deref on needles whose results are old: stop is the needle it returns  *)
(* at, early when the needle's action discards the message and late when   *)
(* its conversion fails, which has allocated the result by then.           *)
(***************************************************************************)
at(d, n) == d.at[needles[n].jpointer]
discards(d, n) == ~action(needles[n], at(d, n))
fails(d, n) == at(d, n).found /\ ~converts(needles[n], at(d, n))

stop(d) == Min({n \in DOMAIN needles : discards(d, n) \/ fails(d, n)} \cup {Len(needles) + 1})
assigned(d) ==
  {n \in DOMAIN needles : n < stop(d) \/ (n = stop(d) /\ ~discards(d, n))}

deref_keeping(d, old) ==
  [n \in DOMAIN needles |->
     CASE n \notin assigned(d) \/ ~at(d, n).found -> old[n]
       [] n \in assigned(d) /\ fails(d, n) -> [at |-> "heap", value |-> <<>>]
       [] OTHER -> format(needles[n], at(d, n))]

deref(d, old) ==
  [n \in DOMAIN needles |->
     CASE n \notin assigned(d) -> old[n]
       [] n \in assigned(d) /\ ~at(d, n).found -> NULL
       [] n \in assigned(d) /\ fails(d, n) -> [at |-> "heap", value |-> <<>>]
       [] OTHER -> format(needles[n], at(d, n))]

freed_not(r) == r

(* needles[n]->free: only a timestamp is ours to free.                     *)
freed(r) == IF r.at = "heap" THEN NULL ELSE r

(* json_object_put: what pointed into the json is no longer there.         *)
put(r) == IF r.at = "json" THEN [at |-> "dangling", value |-> <<"dangling">>] ELSE r

(* The row: a field for every needle that stores; NULL is <<>>.            *)
fields(res) ==
  LET stored == SelectSeq([n \in DOMAIN needles |-> n], LAMBDA n : stores(needles[n]))
  IN [k \in DOMAIN stored |-> res[stored[k]].value]
-----------------------------------------------------------------------------
(***************************************************************************)
(* exports_producer_produce, apart from the COPY, which module PgCommit is *)
(* about.  A payload without terminator or that is not json leaves the     *)
(* results alone.                                                          *)
(***************************************************************************)
produce(d) ==
  /\ phase = "run" /\ ~setup.hook /\ count < setup.limit
  /\ LET new == deref(d, result)
         unread == {n \in assigned(d) : result[n].at = "heap"}
     IN \/ /\ d.form # "json"
           /\ out' = NoRow
           /\ UNCHANGED <<result, leaked>>
        \/ /\ d.form = "json" /\ stop(d) <= Len(needles)
           /\ out' = NoRow
           /\ result' = [n \in DOMAIN needles |-> put(freed(new[n]))]
           /\ leaked' = leaked + Cardinality(unread)
        \/ /\ d.form = "json" /\ stop(d) > Len(needles)
           /\ out' = [sent |-> TRUE, fields |-> fields(new)]
           /\ result' = [n \in DOMAIN needles |->
                           put(IF stores(needles[n]) THEN freed(new[n]) ELSE new[n])]
           /\ leaked' = leaked + Cardinality(unread)
  /\ doc' = d /\ count' = count + 1
  /\ UNCHANGED <<setup, phase, setting, i, needles, metadata>>

(***************************************************************************)
(* h_jsonexport.  _copy_internal copies needles without a result and       *)
(* _free_internal frees the copy; a payload without terminator returns     *)
(* before that.  The value of a needle with metadata is copied after its   *)
(* result is freed: a timestamp is read from NULL.                         *)
(***************************************************************************)
flagged(d) == {n \in DOMAIN needles : needles[n].action = "store_meta" /\ at(d, n).found}

jpointer_metadata_first(d, res) ==
  IF flagged(d) = {} THEN <<>> ELSE res[Min(flagged(d))].value

(* Every needle with metadata inserts under the same key "jpointer".       *)
jpointer_metadata(d, res) ==
  IF flagged(d) = {} THEN <<>> ELSE res[Max(flagged(d))].value

h_jsonexport(d) ==
  /\ phase = "run" /\ setup.hook /\ count < setup.limit
  /\ LET new == deref(d, result)
     IN \/ /\ d.form = "unterminated"
           /\ out' = NoRow /\ metadata' = <<>>
           /\ leaked' = leaked + 1
           /\ UNCHANGED phase
        \/ /\ d.form = "garbage" \/ (d.form = "json" /\ stop(d) <= Len(needles))
           /\ out' = NoRow /\ metadata' = <<>>
           /\ UNCHANGED <<phase, leaked>>
        \/ /\ d.form = "json" /\ stop(d) > Len(needles)
           /\ \E n \in flagged(d) : freed(new[n]) = NULL
           /\ phase' = "crashed"
           /\ UNCHANGED <<out, metadata, leaked>>
        \/ /\ d.form = "json" /\ stop(d) > Len(needles)
           /\ \A n \in flagged(d) : freed(new[n]) # NULL
           /\ out' = [sent |-> TRUE, fields |-> fields(new)]
           /\ metadata' = jpointer_metadata(d, new)
           /\ UNCHANGED <<phase, leaked>>
  /\ doc' = d /\ count' = count + 1
  /\ UNCHANGED <<setup, setting, i, needles, result>>

(* exports_meta_free and h_jsonexport_free.                                *)
free ==
  /\ phase = "run"
  /\ phase' = "freed"
  /\ result' = [n \in DOMAIN needles |-> freed(result[n])]
  /\ UNCHANGED <<setup, setting, i, needles, leaked, count, doc, out, metadata>>

Next ==
  \/ validate
  \/ init
  \/ \E d \in Docs[setup.docs] : produce(d) \/ h_jsonexport(d)
  \/ free

Spec == Init /\ [][Next]_vars
-----------------------------------------------------------------------------
(* Validation rewrites the list it iterates over, one rotation in all: the *)
(* needles stand in the order of the configuration, each with its defaults *)
(* filled in, and so do the columns of the row.  What is refused has an    *)
(* invalid element.                                                        *)
ConfigRight ==
  /\ phase \in {"run", "freed"} =>
       /\ Len(needles) = Len(setup.jpointers)
       /\ \A n \in DOMAIN needles :
            LET asked == setup.jpointers[n] IN
            /\ needles[n].jpointer = asked.jpointer
            /\ \A name \in {"pqtype", "action", "filter"} :
                 IF asked.kind # "scalar" /\ asked[name] # Missing
                 THEN needles[n][name] = asked[name]
                 ELSE needles[n][name] = [pqtype |-> "text", action |-> "store", filter |-> "noop"][name]
            /\ needs_data(needles[n].filter) => needles[n].data = asked.data
  /\ phase \in {"run", "freed", "crashed"} => \A n \in DOMAIN setup.jpointers : ~invalid(setup.jpointers[n])
  /\ phase = "refused" => \E n \in DOMAIN setup.jpointers : invalid(setup.jpointers[n])

(* A message becomes a row exactly if no needle discards it and every      *)
(* value found converts.  The row then has a field for every needle that   *)
(* stores, in order, made of this message's value or NULL if the message   *)
(* has none: never a result of an earlier message or one that json-c has   *)
(* freed.                                                                  *)
RowRight ==
  phase = "run" /\ count > 0 =>
    LET refused == \E n \in DOMAIN needles :
                     discards(doc, n) \/ (at(doc, n).found /\ ~converts(needles[n], at(doc, n)))
        value(n) == IF ~at(doc, n).found THEN <<>> ELSE format(needles[n], at(doc, n)).value
        columns == {n \in DOMAIN needles : stores(needles[n])}
        place(n) == Cardinality({m \in columns : m <= n})
    IN /\ out.sent <=> doc.form = "json" /\ ~refused
       /\ out.sent => /\ Len(out.fields) = Cardinality(columns)
                      /\ \A n \in columns : out.fields[place(n)] = value(n)

(* The timestamp in the row is the date of the message, for every date of  *)
(* the calendar up to 2136-02-07T06:28:15.  Dates are accepted until 4027, *)
(* and later ones lose multiples of 2^32 seconds: the sum is a uint32_t,   *)
(* though the microseconds it becomes part of have 64 bits.                *)
TimestampExact ==
  phase = "run" /\ out.sent =>
    \A n \in DOMAIN needles :
      /\ needles[n].pqtype = "timestamp" /\ stores(needles[n])
      /\ at(doc, n).found /\ IsDate(at(doc, n).tm)
      => LET exact == Exact(at(doc, n).tm)
             place == Cardinality({m \in 1..n : stores(needles[m])})
         IN out.fields[place] = <<exact.seconds[1] % 2^25, exact.seconds[2], exact.micro>>

(* Memory is lost in two ways only: the producer overwrites the timestamp  *)
(* of a needle that does not store, and the hook forgets its copy of the   *)
(* needles when a payload has no terminator.                               *)
LeaksKnown ==
  [][leaked' # leaked =>
       \/ setup.hook /\ doc'.form = "unterminated"
       \/ \E n \in DOMAIN needles : needles[n].pqtype = "timestamp" /\ ~stores(needles[n])]_vars

(* The hook's metadata is the value of the last needle with store_meta     *)
(* that is found, as it stands in the row.  The process dies only for a    *)
(* timestamp with store_meta or a jpointer that is none.                   *)
MetadataRight ==
  /\ phase = "run" /\ setup.hook /\ out.sent =>
       LET asked == {n \in DOMAIN needles : needles[n].action = "store_meta" /\ at(doc, n).found}
       IN IF asked = {} THEN metadata = <<>>
          ELSE \E n \in asked : /\ \A m \in asked : m <= n
                                /\ metadata = out.fields[Cardinality({m \in 1..n : stores(needles[m])})]
  /\ phase = "crashed" =>
       \/ \E n \in DOMAIN setup.jpointers : setup.jpointers[n].kind = "other"
       \/ \E n \in DOMAIN needles : /\ needles[n].pqtype = "timestamp"
                                    /\ needles[n].action = "store_meta" /\ at(doc, n).found
=============================================================================
