------------------------------ MODULE Process ------------------------------
(***************************************************************************)
(* The process from its command line to the end of its threads: Startup    *)
(* reads the configuration and starts the threads, Ownership moves the     *)
(* messages of the first consumer and the first producer through the hooks *)
(* that the configuration puts at each place.                              *)
(***************************************************************************)
EXTENDS Startup, Ownership

vars == <<startup, setup, flow>>

Unconfigured == [preadd |-> <<>>, postadd |-> <<>>, preget |-> <<>>, postget |-> <<>>,
                 transactional |-> FALSE]

(* The hook lists of consumer_init, producer_init and queue_init.          *)
Configured ==
  [preadd |-> config.consumers[1].hooks, postadd |-> config.queue.postadd,
   preget |-> config.queue.preget, postget |-> config.producers[1].hooks,
   transactional |-> threads[<<"consumers", 1, 1>>].mode = "transactional"]

ProcessInit ==
  /\ \E case \in Cases : StartupInit(case) /\ input = case.messages
  /\ setup = Unconfigured
  /\ FlowInit

(* The consumer's first turn follows when a producer is up.                *)
start == StartupNext /\ setup' = (IF phase' = "up" THEN Configured ELSE setup) /\ UNCHANGED flow

(* A thread whose consumer could not be built returns at once.             *)
Consuming == phase = "up" /\ threads[<<"consumers", 1, 1>>].at = "running"

move == Consuming /\ FlowNext /\ UNCHANGED startup

ends_here ==
  /\ phase \in Failures \/ (phase = "up" /\ (Halted \/ ~Consuming))
  /\ UNCHANGED vars

Next == start \/ move \/ ends_here
Spec == ProcessInit /\ [][Next]_vars
=============================================================================
