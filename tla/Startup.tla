------------------------------ MODULE Startup ------------------------------
(***************************************************************************)
(* From the command line and the configuration file to running threads:    *)
(* config_merge, config_validate with the validator of every type,         *)
(* logger_init and the threads that build consumers and producers.         *)
(*                                                                         *)
(* A group of the configuration is a record; a member that is not there is *)
(* Missing, and a string of which only the presence matters is "given".    *)
(* All threads of an instance share its group, and complete it by defaults. *)
(* Servers are reachable and files can be opened.                          *)
(***************************************************************************)
EXTENDS Integers, Sequences, FiniteSets, SequencesExt

CONSTANTS Cases,       \* command lines, each with its configuration file
          Missing

VARIABLES
  given,      \* the command line and the file it names; never changes
  config,     \* the configuration tree
  phase,      \* what main() does next, or how the process ended
  valid,      \* what config_validate returned
  threads     \* a record for every thread that was created

startup == <<given, config, phase, valid, threads>>

(* How the process can end before all its threads are up.                  *)
Failures == {"usage", "exit", "abort", "crash"}

(* host: masters and replicas, as written "m1,m2;r1,r2"; topic: the        *)
(* partitions of "name:0-5,7" are its ranges <<0, 5>> and <<7, 7>>; a      *)
(* topic may be a list.                                                    *)
Blank == [type |-> Missing, threads |-> Missing, host |-> Missing, replica |-> Missing, topic |-> Missing,
          broker |-> Missing, groupid |-> Missing, file |-> Missing, transactional |-> FALSE,
          partitions |-> Missing, kafka_options |-> Missing, topic_options |-> Missing,
          jpointers |-> Missing, user |-> Missing, dbname |-> Missing, format |-> Missing,
          hooks |-> <<>>]

(* group: the setting is a group.  Other options go the way of these;      *)
(* refused: among them is one that librdkafka does not know, or with a     *)
(* value it does not take.                                                 *)
NoOptions == [group |-> TRUE, refused |-> FALSE, enable_auto_commit |-> Missing,
              enable_auto_offset_store |-> Missing, enable_idempotence |-> Missing,
              compression_codec |-> Missing]
NoTopicOptions == [group |-> TRUE, refused |-> FALSE, auto_offset_reset |-> Missing]
NoLogger == [type |-> Missing, file |-> Missing, mode |-> "plain", facility |-> Missing]
NoHooks == [postadd |-> <<>>, preget |-> <<>>]
NoFile == [logger |-> Missing, queue |-> NoHooks, consumers |-> Missing, producers |-> Missing]

StartupInit(case) ==
  /\ given = case
  /\ config = NoFile
  /\ phase = "merge"
  /\ valid = FALSE
  /\ threads = <<>>
-----------------------------------------------------------------------------
(***************************************************************************)
(* config_merge.  A list on the command line replaces the whole list of    *)
(* the file; it has one instance, with the members that have an option.    *)
(***************************************************************************)
module_to_string ==
  [d |-> "dummy", r |-> "redis", k |-> "kafka", p |-> "postgres", f |-> "file"]

unknown(letter) == letter # Missing /\ letter \notin DOMAIN module_to_string

logger_parse ==
  [STDOUT |-> [NoLogger EXCEPT !.type = "stdout"],
   STDERR |-> [NoLogger EXCEPT !.type = "stderr"],
   NULL |-> [NoLogger EXCEPT !.type = "null"],
   SYSLOG |-> [NoLogger EXCEPT !.type = "syslog"],
   SYSLOG_unknown |-> [NoLogger EXCEPT !.type = "syslog", !.facility = "unknown"],
   FILE |-> [NoLogger EXCEPT !.type = "file", !.file = "given"],
   FILE_special |-> [NoLogger EXCEPT !.type = "file", !.file = "given", !.mode = "special"],
   path |-> [NoLogger EXCEPT !.type = "file", !.file = "given"]]

merged(file, letter, instance) ==
  IF letter = Missing THEN file
  ELSE <<[instance EXCEPT !.type = module_to_string[letter]]>>

(* A mode with setuid, setgid or sticky bit in -l aborts at once.          *)
config_merge ==
  /\ phase = "merge"
  /\ phase' = IF given.file # Missing /\ ~given.readable THEN "exit"
              ELSE IF \/ given.logger # Missing /\ logger_parse[given.logger].mode = "special"
                      \/ unknown(given.input) \/ unknown(given.output)
              THEN "abort"
              ELSE "validate"
  /\ IF phase' # "validate" THEN UNCHANGED config
     ELSE LET file == IF given.file = Missing THEN NoFile ELSE given.file IN
          config' = [logger |-> IF given.logger # Missing THEN logger_parse[given.logger]
                                ELSE IF file.logger # Missing THEN file.logger
                                ELSE logger_parse["STDERR"],
                     queue |-> file.queue,
                     consumers |-> merged(file.consumers, given.input, given.consumer),
                     producers |-> merged(file.producers, given.output, given.producer)]
  /\ UNCHANGED <<given, valid, threads>>
-----------------------------------------------------------------------------
(***************************************************************************)
(* Validators.  Each gives whether the group is fit, whether the process   *)
(* ends here instead, and the group as it leaves it; that of postgres also *)
(* adds instances to the list.                                             *)
(***************************************************************************)
verdict(e, ok) == [entry |-> e, ok |-> ok, ends |-> Missing, more |-> <<>>]
ends(e, how) == [verdict(e, FALSE) EXCEPT !.ends = how]

strlwr(type) ==
  CASE type = "STDERR" -> "stderr" [] type = "FILE" -> "file" [] OTHER -> type

(* The facility is searched in a list whose end is never the result, so    *)
(* every facility passes.                                                  *)
logger_validate(l) ==
  CASE strlwr(l.type) = "file" -> l.mode = "plain" /\ l.file # Missing
    [] strlwr(l.type) \in {"stdout", "stderr", "null", "syslog"} -> TRUE
    [] OTHER -> FALSE

logger_defaults(l) ==
  IF strlwr(l.type) = "syslog" /\ l.facility = Missing THEN [l EXCEPT !.facility = "daemon"] ELSE l

(* What the validators of the hooks accept; xmark_unknown: its hash is a   *)
(* string, but no hash function.                                           *)
hooks_available ==
  {"dummy", "xmark", "xmark_of_field", "xmark_unknown", "jsonexport"}
hooks_validate(hooks) == Range(hooks) \subseteq hooks_available
queue_validate(q) == hooks_validate(q.postadd) /\ hooks_validate(q.preget)

redis_validator(e) == verdict(e, e.host # Missing /\ e.topic # Missing)
exporter_validate(e) == verdict(e, e.host # Missing /\ e.topic # Missing /\ e.jpointers # Missing)
file_validate(e) == verdict(e, (e.threads = Missing \/ e.threads <= 1) /\ e.file # Missing)

(* The partitions behind the name of a topic become the setting            *)
(* `partitions', and turn auto commit off.                                 *)
manual_partitions(e) ==
  IF e.topic.ranges = <<>> THEN verdict(e, TRUE)
  ELSE LET options == IF e.kafka_options = Missing THEN NoOptions ELSE e.kafka_options
       IN verdict([e EXCEPT !.topic.ranges = <<>>,
                            !.partitions = [is |-> "string", ranges |-> e.topic.ranges],
                            !.kafka_options = [options EXCEPT !.enable_auto_commit = "false"]],
                  e.partitions = Missing /\ options.group)

kafka_validator(e) ==
  IF e.broker = Missing THEN verdict(e, FALSE)
  ELSE IF e.topic = Missing THEN ends(e, "crash")
  ELSE IF e.topic.list THEN verdict(e, FALSE)
  ELSE LET v == manual_partitions(e)
           p == v.entry.partitions
       IN IF ~v.ok \/ p = Missing THEN v
          ELSE [v EXCEPT !.ok = p.is \in {"string", "int"}, !.entry.partitions.is = "string"]

(* config_create_path gives NULL for a group that exists; then nothing is  *)
(* set in it.                                                              *)
new_options_none(e, key, value) == e

new_options(e, key, value) ==
  IF e.kafka_options # Missing THEN e
  ELSE [e EXCEPT !.kafka_options = [NoOptions EXCEPT ![key] = value]]

kafka_consumer_validator(e) ==
  LET options == IF e.kafka_options = Missing THEN NoOptions ELSE e.kafka_options
      committed == [options EXCEPT !.enable_auto_commit = IF @ = Missing THEN "false" ELSE @]
      grouped == IF e.groupid # Missing THEN e ELSE [e EXCEPT !.kafka_options = committed]
  IN IF e.groupid = Missing /\ ~options.group THEN ends(e, "abort")
     ELSE IF ~e.transactional THEN kafka_validator(grouped)
     ELSE IF e.groupid = Missing THEN verdict(grouped, FALSE)
     ELSE kafka_validator(new_options(e, "enable_auto_offset_store", "false"))

(* A transactional_id is looked up in kafka_opts, where there is none.     *)
kafka_producer_validator(e) ==
  kafka_validator(IF e.transactional THEN new_options(e, "enable_idempotence", "true") ELSE e)

(* The other masters of the list become instances of their own, each with  *)
(* the replica at the same place, if there is one.                         *)
single(h) == [masters |-> <<h>>, replicas |-> <<>>]

replica_at_first(e, i) == IF e.host.replicas = <<>> THEN Missing ELSE single(e.host.replicas[1])

replica_at(e, i) == IF i <= Len(e.host.replicas) THEN single(e.host.replicas[i]) ELSE Missing

instance_of(e, i) ==
  [Blank EXCEPT !.type = "postgres", !.host = single(e.host.masters[i]), !.topic = e.topic,
                !.threads = e.threads, !.replica = replica_at(e, i)]

postgres_validate(e) ==
  IF \/ e.host = Missing \/ e.threads = Missing \/ e.topic = Missing
  THEN verdict(e, FALSE)
  ELSE IF \/ e.replica # Missing /\ e.host.replicas # <<>>
          \/ e.host.masters = <<>>
  THEN verdict(e, FALSE)
  ELSE [verdict([e EXCEPT !.host = single(e.host.masters[1]),
                          !.replica = IF e.host.replicas = <<>> THEN @ ELSE replica_at(e, 1)], TRUE)
        EXCEPT !.more = [i \in 1 .. Len(e.host.masters) - 1 |-> instance_of(e, i + 1)]]

validate(type, consumer, e) ==
  CASE type = "dummy" -> verdict(e, TRUE)
    [] type = "file" -> file_validate(e)
    [] type = "redis" -> redis_validator(e)
    [] type = "exports" -> exporter_validate(e)
    [] type = "postgres" -> postgres_validate(e)
    [] type = "kafka" -> IF consumer THEN kafka_consumer_validator(e)
                         ELSE kafka_producer_validator(e)
    [] OTHER -> verdict(e, FALSE)

(***************************************************************************)
(* _thread_validate goes over the instances that are there when it begins, *)
(* and stops where a validator refuses.  conf_str keeps the type of the    *)
(* instance before, if the next one has none.                              *)
(***************************************************************************)
instance_validate(s, i, consumer) ==
  LET e == s.list[i]
      type == IF e.type # Missing THEN e.type ELSE s.conf_str
      v == validate(type, consumer, e)
      fit == e.threads # Missing /\ e.threads > 0 /\ e.type # Missing /\ hooks_validate(e.hooks)
  IN IF s.stop THEN s
     ELSE IF type = Missing THEN [s EXCEPT !.ends = "crash", !.stop = TRUE]
     ELSE [list |-> [s.list EXCEPT ![i] = v.entry] \o v.more,
           ok |-> s.ok /\ fit /\ v.ok, ends |-> v.ends, stop |-> ~v.ok, conf_str |-> type]

thread_validate(list, consumer) ==
  LET step(s, i) == instance_validate(s, i, consumer)
      begin == [list |-> list, ok |-> TRUE, ends |-> Missing, stop |-> FALSE, conf_str |-> Missing]
  IN IF list = Missing \/ list = <<>> THEN [begin EXCEPT !.ok = FALSE]
     ELSE FoldLeft(step, begin, [i \in 1 .. Len(list) |-> i])

config_validate ==
  /\ phase = "validate"
  /\ LET c == thread_validate(config.consumers, TRUE)
         p == thread_validate(config.producers, FALSE)
         fit == logger_validate(config.logger) /\ queue_validate(config.queue) /\ c.ok /\ p.ok
     IN /\ phase' = CASE c.ends # Missing -> c.ends
                      [] c.ends = Missing /\ p.ends # Missing -> p.ends
                      [] fit -> "logger"
                      [] OTHER -> IF given.file = Missing THEN "usage" ELSE "exit"
        /\ valid' = (phase' = "logger")
        /\ config' = [config EXCEPT !.logger = logger_defaults(@),
                                    !.consumers = c.list, !.producers = p.list]
  /\ UNCHANGED <<given, threads>>

(* The type is compared as it is written.  Only syslog has a facility, and *)
(* beyond the last one is a NULL pointer.                                  *)
logger_init ==
  /\ phase = "logger"
  /\ phase' = CASE config.logger.type \in {"STDERR", "FILE"} -> "exit"
                [] config.logger.type = "syslog" /\ config.logger.facility = "unknown" -> "crash"
                [] OTHER -> "consumers"
  /\ UNCHANGED <<given, config, valid, threads>>
-----------------------------------------------------------------------------
(***************************************************************************)
(* Threads <<kind, i, n>>: the n-th one of instance i of a list.           *)
(***************************************************************************)
Instance(t) == config[t[1]][t[2]]
NewThread == [at |-> "init", key |-> 1, mode |-> Missing, params |-> Missing]

created(kind) ==
  UNION {{<<kind, i, n>> : n \in 1 .. config[kind][i].threads} : i \in DOMAIN config[kind]}

(* queue_init is done before the first; main() does not wait in between.   *)
init_threads(kind) ==
  /\ phase = kind
  /\ threads' = [t \in DOMAIN threads \cup created(kind) |->
                    IF t \in DOMAIN threads THEN threads[t] ELSE NewThread]
  /\ phase' = IF kind = "consumers" THEN "producers" ELSE "starting"
  /\ UNCHANGED <<given, config, valid>>

Starting(t, at) == phase \in {"producers", "starting"} /\ threads[t].at = at

(* Only the first host of a list is looked at; port 0 is none.             *)
parse_connstring(host) == IF host.masters[1] = "badport" THEN -1 ELSE 0
connects(host) == host = Missing \/ parse_connstring(host) # -1

(* What a thread does after its init: kafka and postgres complete their    *)
(* group first.                                                            *)
init(e) ==
  CASE e.type \in {"dummy", "file"} -> "running"
    [] e.type \in {"redis", "exports"} -> IF connects(e.host) THEN "running" ELSE "abort"
    [] e.type = "kafka" -> "path"
    [] e.type = "postgres" -> "add"

consumer_init(t) ==
  LET e == Instance(t)
      at == IF e.type \in {"exports", "postgres"} THEN "gone" ELSE init(e)
  IN /\ Starting(t, "init") /\ t[1] = "consumers"
     /\ phase' = IF at \in Failures THEN at ELSE phase
     /\ threads' = [threads EXCEPT ![t].at = at]
     /\ UNCHANGED <<given, config, valid>>

producer_init(t) ==
  LET at == init(Instance(t)) IN
  /\ Starting(t, "init") /\ t[1] = "producers"
  /\ phase' = IF at \in Failures THEN at ELSE phase
  /\ threads' = [threads EXCEPT ![t].at = at]
  /\ UNCHANGED <<given, config, valid>>

(***************************************************************************)
(* Defaults.  A setting is looked for, and added without a value (""); it  *)
(* gets its value then.  Nothing locks the group.                          *)
(***************************************************************************)
postgres_defaults ==
  <<[in |-> Missing, key |-> "user", value |-> "postgres"],
    [in |-> Missing, key |-> "dbname", value |-> "data"],
    [in |-> Missing, key |-> "format", value |-> "json"]>>
kafka_producer_defaults ==
  <<[in |-> "kafka_options", key |-> "compression_codec", value |-> "lz4"]>>
kafka_consumer_defaults ==
  <<[in |-> "kafka_options", key |-> "enable_auto_commit", value |-> "true"],
    [in |-> "kafka_options", key |-> "enable_auto_offset_store", value |-> "true"],
    [in |-> "topic_options", key |-> "auto_offset_reset", value |-> "latest"]>>

defaults(t) ==
  CASE Instance(t).type = "postgres" -> postgres_defaults
    [] Instance(t).type = "kafka" /\ t[1] = "producers" -> kafka_producer_defaults
    [] Instance(t).type = "kafka" /\ t[1] = "consumers" -> kafka_consumer_defaults
default(t) == defaults(t)[threads[t].key]

(* The thread that goes on with default k; in the group of the one before  *)
(* there is no path to go along.                                           *)
goes_to(t, k) ==
  [threads EXCEPT ![t].key = k,
                  ![t].at = IF k > Len(defaults(t)) THEN "read"
                            ELSE IF defaults(t)[k].in = default(t).in THEN "add" ELSE "path"]

(* A consumer leaves the options of a group that is there alone.           *)
config_create_path(t) ==
  LET group == default(t).in
      found == Instance(t)[group]
  IN /\ Starting(t, "path")
     /\ IF found = Missing
        THEN /\ config' = [config EXCEPT ![t[1]][t[2]][group] =
                            IF group = "kafka_options" THEN NoOptions ELSE NoTopicOptions]
             /\ threads' = [threads EXCEPT ![t].at = "add"] /\ UNCHANGED phase
        ELSE /\ UNCHANGED config
             /\ IF group = "kafka_options" /\ t[1] = "consumers"
                THEN threads' = goes_to(t, Len(defaults(t))) /\ UNCHANGED phase
                ELSE /\ threads' = [threads EXCEPT ![t].at = IF found.group THEN "add" ELSE "abort"]
                     /\ phase' = IF found.group THEN phase ELSE "abort"
     /\ UNCHANGED <<given, valid>>

setting(t) ==
  LET d == default(t) IN IF d.in = Missing THEN Instance(t)[d.key] ELSE Instance(t)[d.in][d.key]
with_setting(t, value) ==
  LET d == default(t) IN
  IF d.in = Missing THEN [config EXCEPT ![t[1]][t[2]][d.key] = value]
  ELSE [config EXCEPT ![t[1]][t[2]][d.in][d.key] = value]

config_setting_add(t) ==
  /\ Starting(t, "add")
  /\ IF setting(t) = Missing
     THEN config' = with_setting(t, "") /\ threads' = [threads EXCEPT ![t].at = "set"]
     ELSE UNCHANGED config /\ threads' = goes_to(t, threads[t].key + 1)
  /\ UNCHANGED <<given, phase, valid>>

config_setting_set_string(t) ==
  /\ Starting(t, "set")
  /\ config' = with_setting(t, default(t).value)
  /\ threads' = goes_to(t, threads[t].key + 1)
  /\ UNCHANGED <<given, phase, valid>>

(* Then the group is read.                                                 *)
read_pg_params(e) ==
  [host |-> e.host, replica |-> e.replica, topic |-> e.topic, user |-> e.user,
   dbname |-> e.dbname, format |-> e.format]

postgres_meta_init(t) ==
  LET p == read_pg_params(Instance(t))
      at == CASE p.format \notin {"csv", "json", "binary"} \/ ~connects(p.host) -> "abort"
              [] p.format \in {"csv", "json", "binary"} /\ connects(p.host) ->
                   IF p.dbname = "" \/ p.user = "" THEN "crash"
                   ELSE IF connects(p.replica) THEN "running" ELSE "abort"
  IN /\ Starting(t, "read") /\ Instance(t).type = "postgres"
     /\ phase' = IF at \in Failures THEN at ELSE phase
     /\ threads' = [threads EXCEPT ![t].at = at, ![t].params = p]
     /\ UNCHANGED <<given, config, valid>>

(* A partition is a number, or two with a - between, in any order; a comma *)
(* behind them is neither.  An array of 8192 has room for 8190 of them.    *)
MAX_PARTITIONS == 8190

Many(r) == r[2] - r[1] >= MAX_PARTITIONS \/ r[1] - r[2] >= MAX_PARTITIONS


explode_partitions(p) ==
  IF p # Missing /\ (Len(p.ranges) > 1 \/ Many(p.ranges[1])) THEN "abort" ELSE "running"

mode(e) ==
  CASE e.groupid # Missing /\ ~e.transactional -> "group"
    [] e.transactional -> "transactional"
    [] OTHER -> "simple"

(* config_group_apply sets the options of librdkafka, if they are a group; *)
(* one without a value keeps librdkafka's own default, one that is refused *)
(* ends the process.                                                       *)
refused(options) == options # Missing /\ options.group /\ options.refused

kafka_meta_init(t) ==
  LET e == Instance(t)
      at == IF refused(e.kafka_options) \/ refused(e.topic_options) THEN "abort"
            ELSE IF t[1] = "consumers" THEN explode_partitions(e.partitions) ELSE "running"
  IN /\ Starting(t, "read") /\ e.type = "kafka"
     /\ phase' = IF at \in Failures THEN at ELSE phase
     /\ threads' = [threads EXCEPT ![t].at = at,
                                   ![t].mode = IF t[1] = "consumers" THEN mode(e) ELSE Missing,
                                   ![t].params = [kafka_options |-> e.kafka_options,
                                                  topic_options |-> e.topic_options]]
     /\ UNCHANGED <<given, config, valid>>

(* Consumers begin to poll with the first producer that is up; the simple  *)
(* one polls a queue that exists for its partitions only.                  *)
produce_state == \E t \in DOMAIN threads : t[1] = "producers" /\ threads[t].at = "running"
no_queue(t) == threads[t].mode = "simple" /\ Instance(t).partitions = Missing

simple_consumer_poll(t) ==
  /\ Starting(t, "running") /\ t[1] = "consumers" /\ produce_state
  /\ no_queue(t)
  /\ phase' = "crash"
  /\ UNCHANGED <<given, config, valid, threads>>

(* No thread is left that may end the process by its init.                 *)
all_up ==
  /\ phase = "starting"
  /\ \A t \in DOMAIN threads : threads[t].at \in {"running", "gone"} /\ ~no_queue(t)
  /\ phase' = "up"
  /\ UNCHANGED <<given, config, valid, threads>>

StartupNext ==
  \/ config_merge \/ config_validate \/ logger_init
  \/ \E kind \in {"consumers", "producers"} : init_threads(kind)
  \/ \E t \in DOMAIN threads :
       \/ consumer_init(t) \/ producer_init(t)
       \/ config_create_path(t) \/ config_setting_add(t) \/ config_setting_set_string(t)
       \/ postgres_meta_init(t) \/ kafka_meta_init(t) \/ simple_consumer_poll(t)
  \/ all_up
-----------------------------------------------------------------------------
(* The instances that were asked for: a reference for the tree above.      *)
AskedFor(kind) ==
  LET letter == IF kind = "consumers" THEN given.input ELSE given.output
      instance == IF kind = "consumers" THEN given.consumer ELSE given.producer
  IN IF letter # Missing THEN <<[instance EXCEPT !.type = module_to_string[letter]]>>
     ELSE given.file[kind]

(* Master and replica of each host of a list.                              *)
Pairs(e) ==
  [i \in DOMAIN e.host.masters |->
     [host |-> single(e.host.masters[i]),
      replica |-> IF i \in DOMAIN e.host.replicas THEN single(e.host.replicas[i])
                  ELSE IF i = 1 THEN e.replica ELSE Missing]]
Ranges(e) ==
  (IF e.topic = Missing THEN <<>> ELSE e.topic.ranges)
    \o (IF e.partitions = Missing THEN <<>> ELSE e.partitions.ranges)

(* What no validator looks at, and what ends the process later on.         *)
LoggerGap(l) == l.type \in {"STDERR", "FILE"} \/ (l.type = "syslog" /\ l.facility = "unknown")
OptionsGap(e) == \E o \in {e.kafka_options, e.topic_options} : refused(o)
ConsumerGap(e) ==
  \/ e.type = "redis" /\ e.host.masters[1] = "badport"
  \/ e.type = "kafka" /\ (Len(Ranges(e)) > 1 \/ \E r \in Range(Ranges(e)) : Many(r))
  \/ e.type = "kafka" /\ e.groupid = Missing /\ Ranges(e) = <<>>
  \/ e.type = "kafka" /\ (OptionsGap(e) \/ (e.topic_options # Missing /\ ~e.topic_options.group))
ProducerGap(e) ==
  \/ e.type \in {"redis", "exports"} /\ e.host.masters[1] = "badport"
  \/ e.type = "kafka" /\ (OptionsGap(e) \/ (e.kafka_options # Missing /\ ~e.kafka_options.group))
  \/ /\ e.type = "postgres"
     /\ \/ e.format = "unknown"
        \/ \E p \in Range(Pairs(e)) : ~connects(p.host) \/ ~connects(p.replica)

(* Threads of one instance that complete its group at the same time.       *)
Races(e) ==
  /\ e.type = "postgres" /\ e.threads > 1
  /\ \/ Missing \in {e.user, e.dbname, e.format}
     \/ Len(e.host.masters) > 1

LoggerAskedFor ==
  IF given.logger # Missing THEN logger_parse[given.logger]
  ELSE IF given.file # Missing /\ given.file.logger # Missing THEN given.file.logger
  ELSE logger_parse["STDERR"]

Gap ==
  \/ LoggerGap(LoggerAskedFor)
  \/ \E e \in Range(AskedFor("consumers")) : ConsumerGap(e)
  \/ \E e \in Range(AskedFor("producers")) : ProducerGap(e)


(* When all are up, every host that a postgres producer was given has the  *)
(* configured number of threads, with the replica at the same place of the *)
(* list and the same topic.  User, database and format are those of the    *)
(* instance for its first host, and the defaults for the others.           *)
Or(v, d) == IF v = Missing THEN d ELSE v

EveryHostServed ==
  phase = "up" =>
    \A e \in {x \in Range(AskedFor("producers")) : x.type = "postgres"} :
    \A i \in DOMAIN Pairs(e) :
      LET serving == {t \in DOMAIN threads : /\ t[1] = "producers" /\ Instance(t).type = "postgres"
                                             /\ threads[t].params.host = Pairs(e)[i].host}
          own == IF i = 1 THEN e ELSE Blank
      IN /\ Cardinality(serving) = e.threads
         /\ \A t \in serving :
              threads[t].params =
                [host |-> Pairs(e)[i].host, replica |-> Pairs(e)[i].replica, topic |-> e.topic,
                 user |-> Or(own.user, "postgres"), dbname |-> Or(own.dbname, "data"),
                 format |-> Or(own.format, "json")]

(* A transactional consumer stores the offset of a message when the        *)
(* message is through: librdkafka is told not to do so when it hands it    *)
(* out.  A transactional producer is told to be idempotent.  The validator *)
(* sees to both, however the threads race for the defaults, unless there   *)
(* are kafka_options already: it leaves them alone, and they have to say   *)
(* it themselves.                                                          *)
TransactionalSet ==
  \A t \in DOMAIN threads :
    LET e == AskedFor(t[1])[t[2]] IN
    /\ threads[t].params # Missing /\ Instance(t).type = "kafka"
    /\ e.transactional /\ e.kafka_options = Missing
    => IF t[1] = "consumers"
       THEN threads[t].params.kafka_options.enable_auto_offset_store = "false"
       ELSE threads[t].params.kafka_options.enable_idempotence = "true"

(* "protect against multi thread access to config structure"               *)
(* (utils/config.c:20): the threads of an instance, which complete its     *)
(* group side by side, go on with the same settings.                       *)
DefaultsSeen ==
  \A t, u \in DOMAIN threads :
    t[1] = u[1] /\ t[2] = u[2] /\ Missing \notin {threads[t].params, threads[u].params}
    => threads[t].params = threads[u].params
=============================================================================
