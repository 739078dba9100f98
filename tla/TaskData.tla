------------------------------- MODULE TaskData -------------------------------
(***************************************************************************)
(* TaskData (taskdata.py): from the targets a user asks for to the recipe  *)
(* files that take part in the build.  Every target gets its providers,    *)
(* every provider brings the targets it depends on, and a file that turns  *)
(* out not to be buildable is taken back, with everything that needs it.   *)
(*                                                                         *)
(* A target is a pair <<kind, item>>: "b" for build_targets, "r" for       *)
(* run_targets.  The calls fail_fn, remove_buildtarget and                 *)
(* remove_runtarget recurse into each other; their frames are on a stack,  *)
(* and an exception unwinds it.  Dictionaries are read in any order.       *)
(***************************************************************************)
EXTENDS Providers

CONSTANT Inputs     \* records:
                    \*   dataCache, cfgData  see Providers
                    \*   deps        [file -> set of targets]: DEPENDS,
                    \*               RDEPENDS and RRECOMMENDS
                    \*   ideps       the same for the tasks' depends and
                    \*               rdepends flags
                    \*   ignored     targets of ASSUME_PROVIDED
                    \*   wanted      items the user asked for
                    \*   halt        no --continue
                    \*   allowincomplete  bitbake -e, -g and the like

VARIABLES
    input,
    targets,        \* build_targets and run_targets
    failed,         \* failed_deps and failed_rdeps
    failed_fns,
    seenfns,
    external,       \* external_targets
    stack,          \* frames: Failing(file) or RemovalOf(target)
    adding,         \* add_provider_internal or add_rprovider: its target, the
                    \* eligible files left, who catches NoProvider, and
                    \* whether none was raised
    loop,           \* the loop of buildTaskData, or that of add_unresolved
    pc

vars == <<input, targets, failed, failed_fns, seenfns, external, stack, adding, loop, pc>>

IsBuild(t) == t[1] = "b"
Nothing == [target |-> <<"b", None>>, eligible |-> <<>>, catch |-> "nobody", ok |-> TRUE]

Init ==
  /\ input \in Inputs
  /\ targets = [t \in {} |-> {}]
  /\ failed = {} /\ failed_fns = {} /\ seenfns = {} /\ external = {}
  /\ stack = <<>>
  /\ adding = Nothing
  /\ loop = [part |-> "ask", left |-> {<<"b", i>> : i \in input.wanted}, added |-> FALSE]
  /\ pc = "loop"

------------------------------------------------------------------------------
Providers(t) == IF t \in DOMAIN targets THEN targets[t] ELSE {}

Unambiguous(found) == IF found.numberPreferred > 1 THEN <<>> ELSE found.eligible

(* What filterProviders or filterProvidersRunTime leave for a target.      *)
(* getRuntimeProviders found none, or preferences conflict: no file.       *)
Eligible(t) ==
  IF IsBuild(t)
  THEN IF input.dataCache.providers[t[2]] = {} THEN <<>>
       ELSE filterProviders(t[2], input.cfgData, input.dataCache).eligible
  ELSE IF input.dataCache.rproviders[t[2]] = {} THEN <<>>
       ELSE Unambiguous(filterProvidersRunTime(t[2], input.cfgData, input.dataCache))

Unresolved(kind) ==
  {t \in DOMAIN targets : (IsBuild(t) <=> kind = "b") /\ t \notin input.ignored /\ t \notin failed
                          /\ targets[t] = {}}

Dependees(t) == {f \in seenfns : t \in input.deps[f] \cup input.ideps[f]}

Failing(f) == <<"fail_fn", f>>
RemovalOf(t) == <<"remove_target", t>>

Push(frame) == stack' = <<frame>> \o stack
Pop == stack' = Tail(stack)

Removing(t, rest) ==
  /\ failed' = failed \cup {t}
  /\ stack' = <<RemovalOf(t)>> \o rest

(* Where the exception leaves the command: with halt, add_provider raises  *)
(* it again, and add_unresolved does for an external target.               *)
Stops(a) ==
  \/ a.catch = "nobody"
  \/ a.catch = "add_provider" /\ input.halt
  \/ a.catch = "add_unresolved" /\ input.halt /\ a.target \in external
       /\ ~input.allowincomplete

(* NoProvider reaches the try that is open, if one is; unless it is raised *)
(* again, the target being added is removed.                               *)
Caught(a) ==
  \/ /\ Stops(a)
     /\ pc' = "error" /\ stack' = <<>> /\ adding' = Nothing
     /\ UNCHANGED failed
  \/ /\ ~Stops(a) /\ a.catch = "add_unresolved" /\ input.allowincomplete
     /\ adding' = [a EXCEPT !.eligible = <<>>, !.ok = FALSE]
     /\ pc' = "adding" /\ stack' = <<>>
     /\ UNCHANGED failed
  \/ /\ ~Stops(a) /\ ~(a.catch = "add_unresolved" /\ input.allowincomplete)
     /\ adding' = [a EXCEPT !.eligible = <<>>, !.ok = FALSE, !.catch = "nobody"]
     /\ pc' = "adding" /\ Removing(a.target, <<>>)

------------------------------------------------------------------------------
(* fail_fn and remove_buildtarget, remove_runtarget. *)

\* A target loses the file that fails, and is removed with its last one; build
\* targets come first.
FailFn ==
  /\ stack # <<>> /\ Head(stack)[1] = "fail_fn"
  /\ \E f \in {Head(stack)[2]} :
       LET mine == {t \in DOMAIN targets : f \in targets[t]}
           next == IF \E t \in mine : IsBuild(t) THEN {t \in mine : IsBuild(t)} ELSE mine
       IN  IF mine = {} THEN Pop /\ UNCHANGED <<targets, failed>>
           ELSE \E t \in next :
                  /\ targets' = [targets EXCEPT ![t] = @ \ {f}]
                  /\ IF targets[t] = {f} THEN Removing(t, stack)
                     ELSE UNCHANGED <<failed, stack>>
  /\ UNCHANGED <<input, failed_fns, seenfns, external, adding, loop, pc>>

\* The files that depend on the target fail; then a required build target is
\* an error.
RemoveTarget ==
  /\ stack # <<>> /\ Head(stack)[1] = "remove_target"
  /\ \E t \in {Head(stack)[2]} : \E left \in {Dependees(t) \ failed_fns} :
       \/ \E f \in left :
            /\ failed_fns' = failed_fns \cup {f}
            /\ Push(Failing(f))
            /\ UNCHANGED <<failed, adding, pc>>
       \/ /\ left = {} /\ ~(input.halt /\ IsBuild(t) /\ t \in external)
          /\ Pop /\ UNCHANGED <<failed, failed_fns, adding, pc>>
       \/ /\ left = {} /\ input.halt /\ IsBuild(t) /\ t \in external
          /\ Caught(adding) /\ UNCHANGED failed_fns
  /\ UNCHANGED <<input, targets, seenfns, external, loop>>

------------------------------------------------------------------------------
(* add_provider_internal, add_rprovider and add_tasks. *)

Seen(items) == [t \in DOMAIN targets \cup items |-> Providers(t)]

\* Mutant: add_tasks does not look whether a dependency has failed already.
DoomedBy_Nothing(f) == {}

DoomedBy(f) == input.deps[f] \cap failed

\* add_tasks of a file not seen before: its dependencies become targets, up to
\* one that has failed.
AddTasks(f, t) ==
  LET with == [Seen({t}) EXCEPT ![t] = @ \cup {f}]
      Known(items) == [s \in DOMAIN with \cup items |->
                         IF s \in DOMAIN with THEN with[s] ELSE {}]
  IN  IF f \in seenfns THEN targets' = with /\ UNCHANGED <<seenfns, failed_fns, stack>>
      ELSE /\ seenfns' = seenfns \cup {f}
           /\ IF DoomedBy(f) = {}
              THEN /\ targets' = Known(input.deps[f] \cup input.ideps[f])
                   /\ UNCHANGED <<failed_fns, stack>>
              ELSE /\ \E before \in SUBSET (input.deps[f] \ failed) :
                        targets' = Known(before \cup input.ideps[f])
                   /\ failed_fns' = failed_fns \cup {f}
                   /\ Push(Failing(f))

AddNext ==
  /\ pc = "adding" /\ stack = <<>> /\ adding.eligible # <<>>
  /\ adding' = [adding EXCEPT !.eligible = Tail(@)]
  /\ \E f \in {Head(adding.eligible)} :
       IF f \in failed_fns THEN UNCHANGED <<targets, seenfns, failed_fns, stack>>
       ELSE AddTasks(f, adding.target)
  /\ UNCHANGED <<input, failed, external, loop, pc>>

\* The call returns: add_provider marks its target external, add_unresolved
\* counts the targets it added.
AddReturns ==
  /\ pc = "adding" /\ stack = <<>> /\ adding.eligible = <<>>
  /\ external' = IF loop.part = "ask" THEN external \cup {adding.target} ELSE external
  /\ loop' = [loop EXCEPT !.added = @ \/ adding.ok]
  /\ adding' = Nothing
  /\ pc' = "loop"
  /\ UNCHANGED <<input, targets, failed, failed_fns, seenfns, stack>>

Catch(t) == IF loop.part = "ask" THEN "add_provider"
            ELSE IF IsBuild(t) THEN "add_unresolved" ELSE "nobody"

\* A target is taken up: it needs nothing, has no eligible provider left, or
\* its eligible files are added one after the other.
Begin(t) ==
  \E eligible \in {SelectSeq(Eligible(t), LAMBDA f : f \notin failed_fns)} :
  \E a \in {[target |-> t, eligible |-> eligible, catch |-> Catch(t), ok |-> TRUE]} :
      \/ /\ t \in input.ignored \/ Providers(t) # {}
         /\ adding' = [a EXCEPT !.eligible = <<>>] /\ pc' = "adding"
         /\ UNCHANGED <<failed, stack>>
      \/ /\ t \notin input.ignored /\ Providers(t) = {} /\ eligible # <<>>
         /\ adding' = a /\ pc' = "adding"
         /\ UNCHANGED <<failed, stack>>
      \/ /\ t \notin input.ignored /\ Providers(t) = {} /\ eligible = <<>>
         /\ IF IsBuild(t) THEN Caught(a)
            ELSE /\ adding' = [a EXCEPT !.ok = FALSE] /\ pc' = "adding"
                 /\ Removing(t, <<>>)

LoopTakes ==
  /\ pc = "loop"
  /\ \E t \in loop.left : Begin(t) /\ loop' = [loop EXCEPT !.left = @ \ {t}]
  /\ UNCHANGED <<input, targets, failed_fns, seenfns, external>>

\* buildTaskData has asked for every target and calls add_unresolved; its loop
\* goes through the build targets, then the runtime targets, until a round
\* adds nothing.
LoopTurns ==
  /\ pc = "loop" /\ loop.left = {}
  /\ \/ /\ loop.part = "b"
        /\ loop' = [loop EXCEPT !.part = "r", !.left = Unresolved("r")]
        /\ UNCHANGED pc
     \/ /\ loop.part = "ask" \/ (loop.part = "r" /\ loop.added)
        /\ loop' = [part |-> "b", left |-> Unresolved("b"), added |-> FALSE]
        /\ UNCHANGED pc
     \/ /\ loop.part = "r" /\ ~loop.added
        /\ pc' = "done" /\ UNCHANGED loop
  /\ UNCHANGED <<input, targets, failed, failed_fns, seenfns, external, stack, adding>>

Ended == pc \in {"done", "error"} /\ UNCHANGED vars

Next == FailFn \/ RemoveTarget \/ AddNext \/ AddReturns \/ LoopTakes \/ LoopTurns \/ Ended

Spec == Init /\ [][Next]_vars

------------------------------------------------------------------------------
Ignored(t) == t \in input.ignored

\* A target the user asked for was removed, but the exception that should have
\* ended the command was taken for one about a dependency: what fail_fn and
\* remove_buildtarget had yet to do is not done.
GivenUp == input.halt /\ external \cap failed # {}

\* When the dependencies are resolved, every file that takes part has, for
\* each of its dependencies, a provider, and none that has failed: the run
\* queue indexes build_targets[dep][0] without looking.
Closed ==
  pc = "done" /\ ~input.allowincomplete /\ ~GivenUp =>
    \A f \in seenfns \ failed_fns : \A t \in input.deps[f] :
      Ignored(t) \/ (Providers(t) # {} /\ Providers(t) \cap failed_fns = {})

===============================================================================
