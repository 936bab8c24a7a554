----------------------------- MODULE MCProcess -----------------------------
(***************************************************************************)
(* Process.tla over families of configurations; each family varies one     *)
(* part and leaves the rest plain.  Messages flow where hooks are varied.  *)
(***************************************************************************)
EXTENDS Process

AllMessages == 1 .. 3

Dummy == [Blank EXCEPT !.type = "dummy", !.threads = 1]
Plain == [NoFile EXCEPT !.consumers = <<Dummy>>, !.producers = <<Dummy>>]
NoArguments ==
  [file |-> Missing, readable |-> TRUE, logger |-> Missing, input |-> Missing, consumer |-> Blank,
   output |-> Missing, producer |-> Blank, messages |-> {}]
WithFile(file) == [NoArguments EXCEPT !.file = file]
Consumers(list) == WithFile([Plain EXCEPT !.consumers = list])
Producers(list) == WithFile([Plain EXCEPT !.producers = list])

MayBe == {Missing, "given"}
Name == [list |-> FALSE, ranges |-> <<>>]
Host(masters, replicas) == [masters |-> masters, replicas |-> replicas]

(* Loggers of the file and of -l.                                          *)
Loggers ==
  {[type |-> t, file |-> f, mode |-> m, facility |-> s] :
     t \in {Missing, "stdout", "STDERR", "file", "FILE", "syslog", "null", "bogus"},
     f \in MayBe, m \in {"plain", "special", "illegal"}, s \in {Missing, "daemon", "unknown"}}
LoggerCases ==
  {WithFile([Plain EXCEPT !.logger = l]) : l \in Loggers}
    \cup {[WithFile([Plain EXCEPT !.logger = [NoLogger EXCEPT !.type = "bogus"]])
            EXCEPT !.logger = o] : o \in DOMAIN logger_parse}

(* Lists that are missing, empty or have unfit instances, alone or behind  *)
(* a fit one.                                                              *)
Unfit ==
  {Dummy, [Dummy EXCEPT !.type = Missing], [Dummy EXCEPT !.type = "bogus"],
   [Dummy EXCEPT !.threads = 0], [Dummy EXCEPT !.threads = Missing],
   [Dummy EXCEPT !.hooks = <<"bogus">>], [Dummy EXCEPT !.hooks = <<"dummy", "xmark_unknown">>],
   [Dummy EXCEPT !.type = "file"], [Dummy EXCEPT !.type = "file", !.file = "given"],
   [Dummy EXCEPT !.type = "file", !.file = "given", !.threads = 2]}
    \cup {[Dummy EXCEPT !.type = t, !.host = h, !.topic = n, !.jpointers = j] :
            t \in {"redis", "exports"}, n \in {Missing, Name}, j \in MayBe,
            h \in {Missing, Host(<<"a", "b">>, <<>>), Host(<<"badport">>, <<>>)}}
Lists == {Missing, <<>>} \cup {<<e>> : e \in Unfit} \cup {<<Dummy, e>> : e \in Unfit}
ListCases == {Consumers(list) : list \in Lists} \cup {Producers(list) : list \in Lists}

(* Kafka consumers and producers.                                          *)
Kafkas ==
  {[Dummy EXCEPT !.type = "kafka", !.broker = b, !.topic = n, !.groupid = g, !.transactional = x,
                 !.partitions = p, !.kafka_options = o] :
     b \in MayBe, g \in MayBe, x \in BOOLEAN,
     n \in {Missing, Name, [Name EXCEPT !.list = TRUE], [Name EXCEPT !.ranges = <<<<0, 5>>>>],
            [Name EXCEPT !.ranges = <<<<0, 5>>, <<7, 7>>>>]},
     p \in {Missing} \cup [is : {"string", "int", "negative", "malformed"}, ranges : {<<<<7, 7>>>>}]
            \cup {[is |-> "string", ranges |-> r] :
                     r \in {<<<<7, 7>>, <<9, 9>>>>, <<<<9, 7>>>>,
                            <<<<MAX_PARTITIONS, 1>>>>, <<<<0, MAX_PARTITIONS>>>>}},
     o \in {Missing, [NoOptions EXCEPT !.group = FALSE], [NoOptions EXCEPT !.refused = TRUE]}
            \cup {[NoOptions EXCEPT !.enable_auto_offset_store = v] : v \in {Missing, "false"}}}
Topics == {[k EXCEPT !.topic_options = [NoTopicOptions EXCEPT !.group = g, !.refused = r]] :
             k \in {e \in Kafkas : e.topic = Name /\ e.partitions = Missing}, g, r \in BOOLEAN}
Racers == {k \in Kafkas : k.broker # Missing /\ k.topic = Name /\ k.partitions = Missing}
KafkaCases == {Consumers(<<k>>) : k \in Kafkas \cup Topics \cup {[k EXCEPT !.threads = 2] : k \in Racers}}
               \cup {Producers(<<k>>) : k \in {e \in Kafkas \cup Topics : e.groupid = Missing}
                                                 \cup {[k EXCEPT !.threads = 2] : k \in Racers}}

(* Postgres: lists of hosts, one and two threads, defaults needed or not.  *)
Masters == {<<>>, <<"a">>, <<"a", "b">>, <<"badport">>, <<"a", "badport">>}
Replicas == {<<>>, <<"c">>, <<"c", "d">>}
Postgreses ==
  {[Dummy EXCEPT !.type = "postgres", !.threads = n, !.host = h, !.topic = t, !.replica = r] :
     n \in {Missing, 1}, h \in {Missing} \cup [masters : Masters, replicas : Replicas],
     t \in {Missing, Name}, r \in {Missing, single("e"), single("badport")}}
Settings ==
  {[Dummy EXCEPT !.type = "postgres", !.topic = Name, !.threads = n, !.host = h, !.user = u,
                 !.dbname = d, !.format = f] :
     n \in {1, 2}, h \in {Host(<<"a">>, <<>>), Host(<<"a", "b">>, <<"c">>)},
     u \in MayBe, d \in MayBe, f \in {Missing, "csv", "unknown"}}
Served == {s \in Settings : \/ s.threads = 1 \/ Len(s.host.masters) = 1
                            \/ s.user = s.dbname /\ s.format = "csv"}
PostgresCases ==
  {Producers(<<e>>) : e \in Postgreses \cup Served}
    \cup {Consumers(<<e>>) : e \in {s \in Settings : s.threads = 1}}

(* The command line, with and without a file.                              *)
Given == [Blank EXCEPT !.threads = 1, !.host = Host(<<"a", "b">>, <<"c">>), !.topic = Name,
                       !.broker = "given", !.groupid = "given", !.file = "given"]
ArgumentCases ==
  {[NoArguments EXCEPT !.file = f, !.readable = r, !.input = i, !.consumer = Given,
                       !.output = o, !.producer = Given] :
     f \in {Missing, Plain}, r \in BOOLEAN,
     i \in {Missing, "d", "f", "k", "r", "p", "e"}, o \in {Missing, "d", "f", "k", "r", "p", "e"}}
    \ {NoArguments}

(* Hooks at each place; a third message only where order counts.           *)
HookLists ==
  {<<>>, <<"jsonexport">>, <<"xmark_of_field">>, <<"jsonexport", "xmark_of_field">>,
   <<"jsonexport", "jsonexport">>}
Transactional ==
  [Dummy EXCEPT !.type = "kafka", !.broker = "given", !.topic = Name, !.groupid = "given",
                !.transactional = TRUE]
HookCases ==
  {[WithFile([Plain EXCEPT !.consumers = <<[c EXCEPT !.hooks = h]>>,
                           !.queue = [postadd |-> a, preget |-> g],
                           !.producers = <<[Dummy EXCEPT !.hooks = t]>>])
    EXCEPT !.messages = IF c = Transactional THEN AllMessages ELSE AllMessages \ {3}] :
     c \in {Dummy, Transactional}, h \in HookLists, a \in HookLists,
     g \in {<<>>, <<"jsonexport">>},
     t \in {<<>>, <<"jsonexport">>, <<"xmark_of_field">>, <<"xmark_unknown">>}}

AllCases == LoggerCases \cup ListCases \cup KafkaCases \cup PostgresCases \cup ArgumentCases
              \cup HookCases
=============================================================================
