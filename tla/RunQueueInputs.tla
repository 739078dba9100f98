--------------------------- MODULE RunQueueInputs ----------------------------
(***************************************************************************)
(* Building blocks of the queues RunQueue is checked on.  The tasks are    *)
(* numbered so that a task only depends on smaller ones; every dependency  *)
(* graph is one of these up to the names of the tasks.  Everything in a    *)
(* queue is there because a target needs it, so the tasks nothing depends  *)
(* on are targets.                                                         *)
(***************************************************************************)
EXTENDS Naturals

Dags(tasks) == {d \in [tasks -> SUBSET tasks] : \A t \in tasks : d[t] \subseteq 1..(t-1)}

EndPoints(d) == {t \in DOMAIN d : \A u \in DOMAIN d : t \notin d[u]}

Queue(d, ss, tg) ==
    [depends |-> d, setscene |-> ss, targets |-> tg, harddeps |-> [t \in DOMAIN d |-> {}],
     noexec |-> {}, nostamp |-> {}, fn |-> [t \in DOMAIN d |-> 1], twin |-> [t \in DOMAIN d |-> t],
     options |-> {},
     stamps |-> {}, sstate |-> {}, revdeps |-> <<>>, sq_covered_tasks |-> <<>>,
     sq_revdeps |-> <<>>, sq_deps |-> <<>>, cantskip |-> {}, unskippable |-> {}]

FirstObjects(S) == {<<t, 0>> : t \in S}
==============================================================================
