--------------------------- MODULE Planning_proof ---------------------------
(***************************************************************************)
(* Proofs about what is planned before a build runs, and in what order it  *)
(* runs.                                                                   *)
(*                                                                         *)
(* Dependency resolution, for any recipes, providers and dependencies:     *)
(* what takes part in the build finds its dependencies, in whatever order  *)
(* dictionaries are read and however deep the removals nest.  The files in *)
(* a provider list play no part, so that nothing is assumed of them.       *)
(*                                                                         *)
(* The schedulers, for any queue and any limits: which tasks they let run  *)
(* together.                                                               *)
(***************************************************************************)
EXTENDS TaskData, Scheduler, SequenceTheorems, FiniteSetTheorems, TLAPS

-----------------------------------------------------------------------------
(* The stack *)

IsSeq(s) == \E S : s \in Seq(S)
On(frame, s) == \E i \in DOMAIN s : s[i] = frame

\* A sequence stays one in a larger set.
LEMMA SeqInLarger ==
  ASSUME NEW S, NEW T, S \subseteq T, NEW s \in Seq(S)
  PROVE  s \in Seq(T)
<1>1. Len(s) \in Nat /\ s = [i \in 1..Len(s) |-> s[i]]
  BY LenProperties
<1>2. \A i \in 1..Len(s) : s[i] \in T
  BY ElementOfSeq
<1> QED BY <1>1, <1>2

\* The positions behind the first.
LEMMA Behind ==
  ASSUME NEW n \in Nat, NEW i \in 1..(1 + n), i # 1
  PROVE  i \in Nat /\ ~(i <= 1) /\ i - 1 \in 1..n /\ (i - 1) + 1 = i
OBVIOUS

\* Push adds a frame and keeps the others.
LEMMA PushFrame ==
  ASSUME NEW s, IsSeq(s), NEW x
  PROVE  /\ IsSeq(<<x>> \o s)
         /\ <<x>> \o s # <<>>
         /\ On(x, <<x>> \o s)
         /\ \A y : On(y, s) => On(y, <<x>> \o s)
         /\ \A y : On(y, <<x>> \o s) => y = x \/ On(y, s)
<1>1. PICK S : s \in Seq(S)
  BY DEF IsSeq
<1> DEFINE T == S \cup {x}
<1>2. s \in Seq(T) /\ <<x>> \in Seq(T)
  BY <1>1, SeqInLarger
<1>3. /\ <<x>> \o s \in Seq(T)
      /\ Len(<<x>> \o s) = 1 + Len(s)
      /\ \A i \in 1..(1 + Len(s)) :
           (<<x>> \o s)[i] = IF i <= 1 THEN <<x>>[i] ELSE s[i - 1]
  BY <1>2, ConcatProperties
<1>4. Len(s) \in Nat /\ DOMAIN s = 1..Len(s) /\ DOMAIN (<<x>> \o s) = 1..(1 + Len(s))
  BY <1>2, <1>3, LenProperties
<1>5. (<<x>> \o s)[1] = x
  BY <1>3, <1>4
<1>6. \A i \in 1..Len(s) : i + 1 \in 1..(1 + Len(s)) /\ (<<x>> \o s)[i + 1] = s[i]
  BY <1>3, <1>4
<1>7. ASSUME NEW i \in 1..(1 + Len(s)), i # 1
      PROVE  i - 1 \in 1..Len(s) /\ (<<x>> \o s)[i] = s[i - 1]
  <2>1. ~(i <= 1) /\ i - 1 \in 1..Len(s)
    BY <1>4, <1>7, Behind
  <2> QED BY <1>3, <2>1
<1>8. <<x>> \o s # <<>>
  BY <1>3, <1>4, EmptySeq
<1>9. IsSeq(<<x>> \o s)
  BY <1>3 DEF IsSeq
<1>10. On(x, <<x>> \o s)
  BY <1>4, <1>5 DEF On
<1>11. \A y : On(y, s) => On(y, <<x>> \o s)
  BY <1>4, <1>6 DEF On
<1>12. \A y : On(y, <<x>> \o s) => y = x \/ On(y, s)
  BY <1>4, <1>5, <1>7 DEF On
<1> QED BY <1>8, <1>9, <1>10, <1>11, <1>12

\* Pop takes the head and keeps the others.
LEMMA PopFrame ==
  ASSUME NEW s, IsSeq(s), s # <<>>
  PROVE  /\ IsSeq(Tail(s))
         /\ On(Head(s), s)
         /\ \A y : On(y, s) => y = Head(s) \/ On(y, Tail(s))
         /\ \A y : On(y, Tail(s)) => On(y, s)
<1>1. PICK S : s \in Seq(S)
  BY DEF IsSeq
<1>2. /\ Tail(s) \in Seq(S)
      /\ Len(Tail(s)) = Len(s) - 1
      /\ \A i \in 1..Len(Tail(s)) : Tail(s)[i] = s[i + 1]
      /\ Head(s) = s[1]
  BY <1>1, HeadTailProperties
<1>3. Len(s) \in Nat /\ DOMAIN s = 1..Len(s) /\ Len(s) # 0
  BY <1>1, LenProperties, EmptySeq
<1>4. DOMAIN Tail(s) = 1..(Len(s) - 1)
  BY <1>2, LenProperties
<1>5. IsSeq(Tail(s))
  BY <1>2 DEF IsSeq
<1>6. On(Head(s), s)
  BY <1>2, <1>3 DEF On
<1>7. ASSUME NEW i \in 1..Len(s), i # 1
      PROVE  i - 1 \in 1..(Len(s) - 1) /\ Tail(s)[i - 1] = s[i]
  <2> DEFINE n == Len(s) - 1
  <2>1. n \in Nat /\ i \in 1..(1 + n)
    BY <1>3
  <2>2. i - 1 \in 1..n /\ (i - 1) + 1 = i
    BY <1>7, <2>1, Behind
  <2> QED BY <1>2, <2>2
<1>8. ASSUME NEW i \in 1..(Len(s) - 1)
      PROVE  i + 1 \in 1..Len(s) /\ s[i + 1] = Tail(s)[i]
  BY <1>2, <1>3
<1>9. \A y : On(y, s) => y = Head(s) \/ On(y, Tail(s))
  BY <1>2, <1>3, <1>4, <1>7 DEF On
<1>10. \A y : On(y, Tail(s)) => On(y, s)
  BY <1>3, <1>4, <1>8 DEF On
<1> QED BY <1>5, <1>6, <1>9, <1>10

\* Nothing is on the empty stack, and two frames are equal when they are of one
\* call with one argument.
LEMMA EmptyStack == IsSeq(<<>>) /\ \A y : ~On(y, <<>>)
BY EmptySeq DEF IsSeq, On

LEMMA Frames ==
  /\ \A f, g : Failing(f) = Failing(g) => f = g
  /\ \A s, t : RemovalOf(s) = RemovalOf(t) => s = t
  /\ \A f, t : Failing(f) # RemovalOf(t)
BY DEF Failing, RemovalOf

-----------------------------------------------------------------------------
(* The inductive invariant *)

\* Until an exception leaves the command, or a target the user asked for is
\* given up, every failure is followed up.
Fine == pc # "error" /\ ~input.allowincomplete /\ ~GivenUp

\* The control state.  A target that is being removed is a failed one, and what
\* raised an exception has no providers left to add.
Shape ==
  /\ adding = [target |-> adding.target, eligible |-> adding.eligible,
               catch |-> adding.catch, ok |-> adding.ok]
  /\ loop = [part |-> loop.part, left |-> loop.left, added |-> loop.added]
  /\ adding.ok \in BOOLEAN /\ loop.added \in BOOLEAN
  /\ loop.part \in {"ask", "b", "r"}
  /\ pc \in {"loop", "adding", "done", "error"}
  /\ pc # "adding" => stack = <<>>
  /\ pc = "adding" /\ ~adding.ok => adding.eligible = <<>>
  /\ pc = "done" => loop.part = "r" /\ ~loop.added /\ loop.left = {}
  /\ IsSeq(stack)
  /\ \A y : On(y, stack) => y = Failing(y[2]) \/ y = RemovalOf(y[2])
  /\ \A t : On(RemovalOf(t), stack) => t \in failed

\* A file that takes part has entered its dependencies as targets.
DepsKnown == \A f \in seenfns \ failed_fns : input.deps[f] \subseteq DOMAIN targets

\* One that needs a failed target is about to fail, or has.
FailedDepsFail ==
  \A f \in seenfns \ failed_fns : \A t \in input.deps[f] \cap failed :
    On(RemovalOf(t), stack)

\* A failed file is about to be struck off the targets it is still on.
FailedFilesGo ==
  \A t \in DOMAIN targets : \A f \in targets[t] \cap failed_fns : On(Failing(f), stack)

\* A round of add_unresolved that adds nothing leaves nothing unresolved.
NothingMissed ==
  \/ loop.added
  \/ pc = "adding" /\ adding.ok
  \/ /\ loop.part = "b" => Unresolved("b") \subseteq loop.left
     /\ loop.part = "r" => Unresolved("b") = {} /\ Unresolved("r") \subseteq loop.left

FollowedUp == DepsKnown /\ FailedDepsFail /\ FailedFilesGo /\ NothingMissed

TaskInv == Shape /\ (Fine => FollowedUp)

\* At the start nothing is known yet.
LEMMA TaskInitially == Init => TaskInv
<1> SUFFICES ASSUME Init PROVE TaskInv
  OBVIOUS
<1> USE DEF Init
<1>1. Shape
  BY EmptyStack DEF Shape, Nothing
<1>2. FollowedUp
  BY DEF FollowedUp, DepsKnown, FailedDepsFail, FailedFilesGo, NothingMissed
<1> QED BY <1>1, <1>2 DEF TaskInv

\* What is given up stays given up, and an error stays one.
LEMMA FineBefore == Shape /\ Next /\ Fine' => Fine
<1> SUFFICES ASSUME Shape, Next, Fine' PROVE Fine
  OBVIOUS
<1>1. input' = input
  BY DEF Next, FailFn, RemoveTarget, AddNext, AddReturns, LoopTakes, LoopTurns, Ended, vars
<1>2. external \subseteq external'
  BY DEF Next, FailFn, RemoveTarget, AddNext, AddReturns, LoopTakes, LoopTurns, Ended, vars
<1>3. failed \subseteq failed'
  BY DEF Next, FailFn, RemoveTarget, AddNext, AddReturns, LoopTakes, LoopTurns, Ended, vars,
         Removing, Caught, Begin
<1>4. pc # "error"
  BY DEF Next, FailFn, RemoveTarget, AddNext, AddReturns, LoopTakes, LoopTurns, Ended, vars,
         Shape, Fine
<1> QED BY <1>1, <1>2, <1>3, <1>4 DEF Fine, GivenUp

-----------------------------------------------------------------------------
(* The calls that take targets and files back *)

\* Turning a frame over to the caller or to a further call keeps what
\* the frames below it stand for.
LEMMA FailFnKeeps == TaskInv /\ FailFn => Shape' /\ (Fine => FollowedUp')
<1> SUFFICES ASSUME TaskInv, FailFn PROVE Shape' /\ (Fine => FollowedUp')
  OBVIOUS
<1>1. /\ stack # <<>> /\ Head(stack)[1] = "fail_fn"
      /\ input' = input /\ failed_fns' = failed_fns /\ seenfns' = seenfns
      /\ adding' = adding /\ loop' = loop /\ pc' = pc
  BY DEF FailFn
<1>2. Shape
  BY DEF TaskInv
<1>3. pc = "adding"
  BY <1>1, <1>2 DEF Shape
<1>4. PICK f : f = Head(stack)[2]
  OBVIOUS
<1>5. /\ IsSeq(Tail(stack)) /\ On(Head(stack), stack)
      /\ \A y : On(y, stack) => y = Head(stack) \/ On(y, Tail(stack))
      /\ \A y : On(y, Tail(stack)) => On(y, stack)
  BY <1>1, <1>2, PopFrame DEF Shape
<1>6. Head(stack) = Failing(f)
  BY <1>1, <1>2, <1>4, <1>5 DEF Shape, Failing, RemovalOf
<1> DEFINE mine == {t \in DOMAIN targets : f \in targets[t]}
<1>7. CASE mine = {}
  <2>1. stack' = Tail(stack) /\ targets' = targets /\ failed' = failed
    BY <1>1, <1>4, <1>7 DEF FailFn, Pop
  <2>2. Shape'
    BY <1>1, <1>2, <1>3, <1>5, <2>1 DEF Shape
  <2>3. ASSUME Fine PROVE FollowedUp'
    <3>1. FollowedUp
      BY <2>3 DEF TaskInv
    <3>2. DepsKnown' /\ NothingMissed'
      BY <1>1, <2>1, <3>1 DEF FollowedUp, DepsKnown, NothingMissed, Unresolved
    <3>3. FailedDepsFail'
      BY <1>1, <1>5, <1>6, <2>1, <3>1, Frames DEF FollowedUp, FailedDepsFail
    <3>4. FailedFilesGo'
      BY <1>1, <1>5, <1>6, <1>7, <2>1, <3>1, Frames DEF FollowedUp, FailedFilesGo
    <3> QED BY <3>2, <3>3, <3>4 DEF FollowedUp
  <2> QED BY <2>2, <2>3
<1>8. CASE mine # {}
  <2>1. PICK t \in mine : /\ targets' = [targets EXCEPT ![t] = @ \ {f}]
                          /\ IF targets[t] = {f} THEN Removing(t, stack)
                             ELSE UNCHANGED <<failed, stack>>
    <3> DEFINE next == IF \E t \in mine : IsBuild(t) THEN {t \in mine : IsBuild(t)} ELSE mine
    <3>1. \E t \in next : /\ targets' = [targets EXCEPT ![t] = @ \ {f}]
                          /\ IF targets[t] = {f} THEN Removing(t, stack)
                             ELSE UNCHANGED <<failed, stack>>
      BY <1>1, <1>4, <1>8 DEF FailFn
    <3>2. next \subseteq mine
      OBVIOUS
    <3> QED BY <3>1, <3>2
  <2>2. /\ \/ failed' = failed /\ stack' = stack /\ targets[t] # {f}
           \/ failed' = failed \cup {t} /\ stack' = <<RemovalOf(t)>> \o stack
        /\ IsSeq(stack')
        /\ \A y : On(y, stack) => On(y, stack')
        /\ \A y : On(y, stack') =>
             On(y, stack) \/ (y = RemovalOf(t) /\ failed' = failed \cup {t})
        /\ failed' = failed \cup {t} => On(RemovalOf(t), stack') \/ t \in failed
    <3>1. CASE targets[t] = {f}
      <4>1. failed' = failed \cup {t} /\ stack' = <<RemovalOf(t)>> \o stack
        BY <2>1, <3>1 DEF Removing
      <4> QED BY <1>2, <4>1, PushFrame DEF Shape
    <3>2. CASE targets[t] # {f}
      <4>1. failed' = failed /\ stack' = stack
        BY <2>1, <3>2
      <4> QED BY <1>2, <3>2, <4>1 DEF Shape
    <3> QED BY <3>1, <3>2
  <2>3. failed \subseteq failed' /\ failed' \subseteq failed \cup {t}
    BY <2>2
  <2>4. Shape'
    <3>1. \A y : On(y, stack') => y = Failing(y[2]) \/ y = RemovalOf(y[2])
      BY <1>2, <2>2 DEF Shape, RemovalOf
    <3>2. \A s : On(RemovalOf(s), stack') => s \in failed'
      BY <1>2, <2>2, <2>3, Frames DEF Shape
    <3> QED BY <1>1, <1>2, <1>3, <2>2, <3>1, <3>2 DEF Shape
  <2>5. ASSUME Fine PROVE FollowedUp'
    <3>1. FollowedUp
      BY <2>5 DEF TaskInv
    <3>2. /\ DOMAIN targets' = DOMAIN targets
          /\ \A s \in DOMAIN targets : s # t => targets'[s] = targets[s]
          /\ targets'[t] = targets[t] \ {f} /\ t \in DOMAIN targets /\ f \in targets[t]
      BY <2>1
    <3>3. DepsKnown'
      BY <1>1, <3>1, <3>2 DEF FollowedUp, DepsKnown
    <3>4. FailedDepsFail'
      BY <1>1, <2>2, <3>1 DEF FollowedUp, FailedDepsFail
    <3>5. FailedFilesGo'
      BY <1>1, <2>2, <3>1, <3>2 DEF FollowedUp, FailedFilesGo
    <3>6. \A kind : Unresolved(kind)' \subseteq Unresolved(kind)
      <4> SUFFICES ASSUME NEW kind, NEW s \in Unresolved(kind)' PROVE s \in Unresolved(kind)
        OBVIOUS
      <4>1. /\ s \in DOMAIN targets /\ (IsBuild(s) <=> kind = "b") /\ s \notin input.ignored
            /\ s \notin failed' /\ targets'[s] = {}
        BY <1>1, <3>2 DEF Unresolved
      <4>2. s # t
        BY <2>2, <3>2, <4>1
      <4> QED BY <2>3, <3>2, <4>1, <4>2 DEF Unresolved
    <3>7. NothingMissed'
      BY <1>1, <3>1, <3>6 DEF FollowedUp, NothingMissed
    <3> QED BY <3>3, <3>4, <3>5, <3>7 DEF FollowedUp
  <2> QED BY <2>4, <2>5
<1> QED BY <1>7, <1>8

\* An exception empties the stack.  Where it is caught the target being added
\* has failed and is removed, unless incomplete builds are allowed.
LEMMA CaughtState ==
  ASSUME NEW a, a = [target |-> a.target, eligible |-> a.eligible, catch |-> a.catch,
                     ok |-> a.ok],
         Caught(a)
  PROVE  /\ adding' = [target |-> adding'.target, eligible |-> adding'.eligible,
                       catch |-> adding'.catch, ok |-> adding'.ok]
         /\ adding'.ok \in BOOLEAN
         /\ pc' \in {"adding", "error"}
         /\ pc' # "adding" => stack' = <<>>
         /\ pc' = "adding" => adding'.eligible = <<>>
         /\ IsSeq(stack')
         /\ \A y : On(y, stack') => y = RemovalOf(a.target) /\ a.target \in failed'
         /\ \A y : On(y, stack') => y = Failing(y[2]) \/ y = RemovalOf(y[2])
         /\ pc' # "error" /\ ~input.allowincomplete =>
              failed' = failed \cup {a.target} /\ On(RemovalOf(a.target), stack')
<1> DEFINE with(caught) == [a EXCEPT !.eligible = <<>>, !.ok = FALSE, !.catch = caught]
<1>1. CASE pc' = "error" /\ stack' = <<>> /\ adding' = Nothing
  BY <1>1, EmptyStack DEF Nothing
<1>2. CASE /\ a.catch = "add_unresolved" /\ input.allowincomplete
           /\ adding' = [a EXCEPT !.eligible = <<>>, !.ok = FALSE]
           /\ pc' = "adding" /\ stack' = <<>>
  <2>1. adding' = [target |-> a.target, eligible |-> <<>>, catch |-> a.catch, ok |-> FALSE]
    BY <1>2
  <2> QED BY <1>2, <2>1, EmptyStack
<1>3. CASE /\ adding' = [a EXCEPT !.eligible = <<>>, !.ok = FALSE, !.catch = "nobody"]
           /\ pc' = "adding" /\ Removing(a.target, <<>>)
  <2>1. adding' = [target |-> a.target, eligible |-> <<>>, catch |-> "nobody", ok |-> FALSE]
    BY <1>3
  <2>2. failed' = failed \cup {a.target} /\ stack' = <<RemovalOf(a.target)>> \o <<>>
    BY <1>3 DEF Removing
  <2>3. /\ IsSeq(stack') /\ On(RemovalOf(a.target), stack')
        /\ \A y : On(y, stack') => y = RemovalOf(a.target)
    BY <2>2, EmptyStack, PushFrame
  <2>4. \A y : On(y, stack') => y = RemovalOf(y[2])
    BY <2>3 DEF RemovalOf
  <2> QED BY <1>3, <2>1, <2>2, <2>3, <2>4
<1> QED BY <1>1, <1>2, <1>3 DEF Caught

\* A file that needs the target fails, or none is left and the call returns or
\* raises; what it raises gives up a target the user asked for.
LEMMA RemoveTargetKeeps == TaskInv /\ RemoveTarget => Shape' /\ (Fine /\ Fine' => FollowedUp')
<1> SUFFICES ASSUME TaskInv, RemoveTarget PROVE Shape' /\ (Fine /\ Fine' => FollowedUp')
  OBVIOUS
<1>1. /\ stack # <<>> /\ Head(stack)[1] = "remove_target"
      /\ input' = input /\ targets' = targets /\ seenfns' = seenfns
      /\ external' = external /\ loop' = loop
  BY DEF RemoveTarget
<1>2. Shape
  BY DEF TaskInv
<1>3. pc = "adding"
  BY <1>1, <1>2 DEF Shape
<1>4. PICK t : t = Head(stack)[2]
  OBVIOUS
<1>5. /\ IsSeq(Tail(stack)) /\ On(Head(stack), stack)
      /\ \A y : On(y, stack) => y = Head(stack) \/ On(y, Tail(stack))
      /\ \A y : On(y, Tail(stack)) => On(y, stack)
  BY <1>1, <1>2, PopFrame DEF Shape
<1>6. Head(stack) = RemovalOf(t)
  BY <1>1, <1>2, <1>4, <1>5 DEF Shape, Failing, RemovalOf
<1>7. t \in failed
  BY <1>2, <1>5, <1>6 DEF Shape
<1> DEFINE left == Dependees(t) \ failed_fns
<1>8. \/ \E f \in left :
           /\ failed_fns' = failed_fns \cup {f}
           /\ Push(Failing(f))
           /\ UNCHANGED <<failed, adding, pc>>
      \/ /\ left = {} /\ Pop /\ UNCHANGED <<failed, failed_fns, adding, pc>>
      \/ /\ input.halt /\ IsBuild(t) /\ t \in external
         /\ Caught(adding) /\ UNCHANGED failed_fns
  BY <1>4 DEF RemoveTarget
<1>9. ASSUME NEW f \in left, failed_fns' = failed_fns \cup {f}, Push(Failing(f)),
             failed' = failed, adding' = adding, pc' = pc
      PROVE  Shape' /\ (Fine => FollowedUp')
  <2>1. /\ IsSeq(stack') /\ On(Failing(f), stack')
        /\ \A y : On(y, stack) => On(y, stack')
        /\ \A y : On(y, stack') => y = Failing(f) \/ On(y, stack)
    BY <1>2, <1>9, PushFrame DEF Shape, Push
  <2>2. Shape'
    <3>1. \A y : On(y, stack') => y = Failing(y[2]) \/ y = RemovalOf(y[2])
      BY <1>2, <2>1 DEF Shape, Failing
    <3>2. \A s : On(RemovalOf(s), stack') => s \in failed'
      BY <1>2, <1>9, <2>1, Frames DEF Shape
    <3> QED BY <1>1, <1>2, <1>3, <1>9, <2>1, <3>1, <3>2 DEF Shape
  <2>3. ASSUME Fine PROVE FollowedUp'
    <3>1. FollowedUp
      BY <2>3 DEF TaskInv
    <3>2. DepsKnown' /\ FailedDepsFail'
      BY <1>1, <1>9, <2>1, <3>1 DEF FollowedUp, DepsKnown, FailedDepsFail
    <3>3. FailedFilesGo'
      BY <1>1, <1>9, <2>1, <3>1 DEF FollowedUp, FailedFilesGo
    <3>4. NothingMissed'
      BY <1>1, <1>9, <3>1 DEF FollowedUp, NothingMissed, Unresolved
    <3> QED BY <3>2, <3>3, <3>4 DEF FollowedUp
  <2> QED BY <2>2, <2>3
<1>10. ASSUME left = {}, Pop, failed' = failed, failed_fns' = failed_fns, adding' = adding,
              pc' = pc
       PROVE  Shape' /\ (Fine => FollowedUp')
  <2>1. stack' = Tail(stack)
    BY <1>10 DEF Pop
  <2>2. Shape'
    BY <1>1, <1>2, <1>3, <1>5, <1>10, <2>1 DEF Shape
  <2>3. ASSUME Fine PROVE FollowedUp'
    <3>1. FollowedUp
      BY <2>3 DEF TaskInv
    <3>2. DepsKnown' /\ NothingMissed'
      BY <1>1, <1>10, <3>1 DEF FollowedUp, DepsKnown, NothingMissed, Unresolved
    <3>3. FailedDepsFail'
      <4> SUFFICES ASSUME NEW f \in seenfns \ failed_fns, NEW s \in input.deps[f] \cap failed
                   PROVE  On(RemovalOf(s), Tail(stack))
        BY <1>1, <1>10, <2>1 DEF FailedDepsFail
      <4>1. On(RemovalOf(s), stack)
        BY <3>1 DEF FollowedUp, FailedDepsFail
      <4>2. s # t
        BY <1>10 DEF Dependees
      <4> QED BY <1>5, <1>6, <4>1, <4>2, Frames
    <3>4. FailedFilesGo'
      BY <1>1, <1>5, <1>6, <1>10, <2>1, <3>1, Frames DEF FollowedUp, FailedFilesGo
    <3> QED BY <3>2, <3>3, <3>4 DEF FollowedUp
  <2> QED BY <2>2, <2>3
<1>11. ASSUME input.halt, t \in external, Caught(adding) PROVE Shape' /\ ~Fine
  <2>1. ~Fine
    BY <1>7, <1>11 DEF Fine, GivenUp
  <2>2. Shape'
    BY <1>1, <1>2, <1>11, CaughtState, Frames DEF Shape
  <2> QED BY <2>1, <2>2
<1> QED BY <1>8, <1>9, <1>10, <1>11

-----------------------------------------------------------------------------
(* Adding the files of a target *)

\* A file is added only if it has not failed, a new one only with all its
\* dependencies; one with a failed dependency fails at once.
LEMMA AddNextKeeps == TaskInv /\ AddNext => Shape' /\ (Fine => FollowedUp')
<1> SUFFICES ASSUME TaskInv, AddNext PROVE Shape' /\ (Fine => FollowedUp')
  OBVIOUS
<1>1. /\ pc = "adding" /\ stack = <<>> /\ adding.eligible # <<>>
      /\ adding' = [adding EXCEPT !.eligible = Tail(@)]
      /\ input' = input /\ failed' = failed /\ external' = external /\ loop' = loop
      /\ pc' = pc
  BY DEF AddNext
<1>2. Shape
  BY DEF TaskInv
<1>3. adding.ok = TRUE
  BY <1>1, <1>2 DEF Shape
<1>4. /\ adding' = [target |-> adding'.target, eligible |-> adding'.eligible,
                    catch |-> adding'.catch, ok |-> adding'.ok]
      /\ adding'.ok = TRUE
  <2>1. adding' = [target |-> adding.target, eligible |-> Tail(adding.eligible),
                   catch |-> adding.catch, ok |-> adding.ok]
    BY <1>1, <1>2 DEF Shape
  <2> QED BY <1>3, <2>1
<1>5. PICK f : f = Head(adding.eligible)
  OBVIOUS
<1>6. IF f \in failed_fns THEN UNCHANGED <<targets, seenfns, failed_fns, stack>>
      ELSE AddTasks(f, adding.target)
  BY <1>5 DEF AddNext
<1>7. /\ \A y : ~On(y, stack)
      /\ IsSeq(stack)
  BY <1>1, EmptyStack
<1>8. NothingMissed'
  BY <1>1, <1>4 DEF NothingMissed
<1>9. ASSUME stack' = stack PROVE Shape'
  BY <1>1, <1>2, <1>4, <1>9 DEF Shape
<1>10. CASE f \in failed_fns
  <2>1. targets' = targets /\ seenfns' = seenfns /\ failed_fns' = failed_fns /\ stack' = stack
    BY <1>6, <1>10
  <2>2. Fine => DepsKnown' /\ FailedDepsFail' /\ FailedFilesGo'
    BY <1>1, <2>1 DEF TaskInv, FollowedUp, DepsKnown, FailedDepsFail, FailedFilesGo
  <2> QED BY <1>8, <1>9, <2>1, <2>2 DEF FollowedUp
<1>11. CASE f \notin failed_fns
  <2> DEFINE t == adding.target
             with == [Seen({t}) EXCEPT ![t] = @ \cup {f}]
             Entered(items) == [s \in DOMAIN with \cup items |->
                                  IF s \in DOMAIN with THEN with[s] ELSE {}]
  <2>1. /\ DOMAIN with = DOMAIN targets \cup {t}
        /\ \A s \in DOMAIN with : with[s] \subseteq Providers(s) \cup {f}
    <3>1. with = [s \in DOMAIN targets \cup {t} |->
                    IF s = t THEN Providers(t) \cup {f} ELSE Providers(s)]
      BY DEF Seen
    <3> QED BY <3>1
  <2> HIDE DEF with
  <2>2. \A s \in DOMAIN with : \A g \in with[s] : g # f => s \in DOMAIN targets /\ g \in targets[s]
    BY <2>1 DEF Providers
  <2>3. \A items : /\ DOMAIN Entered(items) = DOMAIN targets \cup {t} \cup items
                   /\ \A s \in DOMAIN Entered(items) : \A g \in Entered(items)[s] :
                        g # f => s \in DOMAIN targets /\ g \in targets[s]
    BY <2>1, <2>2
  <2>4. CASE f \in seenfns
    <3>1. targets' = with /\ seenfns' = seenfns /\ failed_fns' = failed_fns /\ stack' = stack
      BY <1>6, <1>11, <2>4 DEF AddTasks, with
    <3>2. Fine => DepsKnown' /\ FailedDepsFail' /\ FailedFilesGo'
      BY <1>1, <1>11, <2>1, <2>2, <3>1
         DEF TaskInv, FollowedUp, DepsKnown, FailedDepsFail, FailedFilesGo
    <3> QED BY <1>8, <1>9, <3>1, <3>2 DEF FollowedUp
  <2>5. CASE f \notin seenfns /\ DoomedBy(f) = {}
    <3>1. /\ targets' = Entered(input.deps[f] \cup input.ideps[f])
          /\ seenfns' = seenfns \cup {f} /\ failed_fns' = failed_fns /\ stack' = stack
      BY <1>6, <1>11, <2>5 DEF AddTasks, with
    <3> HIDE DEF Entered
    <3>2. Fine => DepsKnown' /\ FailedFilesGo'
      BY <1>1, <1>11, <2>3, <3>1 DEF TaskInv, FollowedUp, DepsKnown, FailedFilesGo
    <3>3. Fine => FailedDepsFail'
      BY <1>1, <2>5, <3>1 DEF TaskInv, FollowedUp, FailedDepsFail, DoomedBy
    <3> QED BY <1>8, <1>9, <3>1, <3>2, <3>3 DEF FollowedUp
  <2>6. CASE f \notin seenfns /\ DoomedBy(f) # {}
    <3>1. /\ \E before \in SUBSET (input.deps[f] \ failed) :
               targets' = Entered(before \cup input.ideps[f])
          /\ seenfns' = seenfns \cup {f} /\ failed_fns' = failed_fns \cup {f}
          /\ Push(Failing(f))
      BY <1>6, <1>11, <2>6 DEF AddTasks, with
    <3>2. PICK items : targets' = Entered(items)
      BY <3>1
    <3> HIDE DEF Entered
    <3>3. /\ IsSeq(stack') /\ On(Failing(f), stack')
          /\ \A y : On(y, stack') => y = Failing(f)
      BY <1>7, <3>1, PushFrame DEF Push
    <3>4. Shape'
      <4>1. \A y : On(y, stack') => y = Failing(y[2]) \/ y = RemovalOf(y[2])
        BY <3>3 DEF Failing
      <4>2. \A s : ~On(RemovalOf(s), stack')
        BY <3>3, Frames
      <4> QED BY <1>1, <1>2, <1>4, <3>3, <4>1, <4>2 DEF Shape
    <3>5. Fine => DepsKnown' /\ FailedFilesGo'
      BY <1>1, <1>7, <2>3, <3>1, <3>2, <3>3 DEF TaskInv, FollowedUp, DepsKnown, FailedFilesGo
    <3>6. Fine => FailedDepsFail'
      BY <1>1, <1>7, <3>1 DEF TaskInv, FollowedUp, FailedDepsFail
    <3> QED BY <1>8, <3>4, <3>5, <3>6 DEF FollowedUp
  <2> QED BY <2>4, <2>5, <2>6
<1> QED BY <1>10, <1>11

\* A target that was added counts for the round.
LEMMA AddReturnsKeeps == TaskInv /\ AddReturns => Shape' /\ (Fine => FollowedUp')
<1> SUFFICES ASSUME TaskInv, AddReturns PROVE Shape' /\ (Fine => FollowedUp')
  OBVIOUS
<1>1. /\ pc = "adding" /\ stack = <<>>
      /\ loop' = [loop EXCEPT !.added = @ \/ adding.ok]
      /\ adding' = Nothing /\ pc' = "loop"
      /\ input' = input /\ targets' = targets /\ failed' = failed
      /\ failed_fns' = failed_fns /\ seenfns' = seenfns /\ stack' = stack
  BY DEF AddReturns
<1>2. Shape
  BY DEF TaskInv
<1>3. /\ loop' = [part |-> loop'.part, left |-> loop'.left, added |-> loop'.added]
      /\ loop'.part = loop.part /\ loop'.left = loop.left
      /\ loop'.added \in BOOLEAN
      /\ loop.added \/ adding.ok => loop'.added
      /\ loop'.added => loop.added \/ adding.ok
  <2> DEFINE counted == loop.added \/ adding.ok
  <2>1. counted \in BOOLEAN
    OBVIOUS
  <2>2. loop' = [loop EXCEPT !.added = counted]
    BY <1>1
  <2> HIDE DEF counted
  <2>3. loop' = [part |-> loop.part, left |-> loop.left, added |-> counted]
    BY <1>2, <2>2 DEF Shape
  <2>4. loop'.added = counted
    BY <2>3
  <2> QED BY <2>1, <2>3, <2>4 DEF counted
<1>4. Shape'
  BY <1>1, <1>2, <1>3, EmptyStack DEF Shape, Nothing
<1>5. ASSUME Fine PROVE FollowedUp'
  <2>1. FollowedUp
    BY <1>5 DEF TaskInv
  <2>2. DepsKnown' /\ FailedDepsFail' /\ FailedFilesGo'
    BY <1>1, <2>1 DEF FollowedUp, DepsKnown, FailedDepsFail, FailedFilesGo
  <2>3. NothingMissed'
    BY <1>1, <1>3, <2>1 DEF FollowedUp, NothingMissed, Unresolved
  <2> QED BY <2>2, <2>3 DEF FollowedUp
<1> QED BY <1>4, <1>5

-----------------------------------------------------------------------------
(* The loops over the targets *)

\* The target taken up is resolved, or gets providers, or fails.
LEMMA LoopTakesKeeps == TaskInv /\ LoopTakes => Shape' /\ (Fine /\ Fine' => FollowedUp')
<1> SUFFICES ASSUME TaskInv, LoopTakes PROVE Shape' /\ (Fine /\ Fine' => FollowedUp')
  OBVIOUS
<1>1. /\ pc = "loop"
      /\ input' = input /\ targets' = targets /\ failed_fns' = failed_fns
      /\ seenfns' = seenfns /\ external' = external
  BY DEF LoopTakes
<1>2. PICK t \in loop.left : Begin(t) /\ loop' = [loop EXCEPT !.left = @ \ {t}]
  BY DEF LoopTakes
<1>3. Shape /\ stack = <<>>
  BY <1>1 DEF TaskInv, Shape
<1>4. \A y : ~On(y, stack)
  BY <1>3, EmptyStack
<1>5. loop' = [part |-> loop.part, left |-> loop.left \ {t}, added |-> loop.added]
  BY <1>2, <1>3 DEF Shape
<1>6. /\ loop' = [part |-> loop'.part, left |-> loop'.left, added |-> loop'.added]
      /\ loop'.part = loop.part /\ loop'.left = loop.left \ {t} /\ loop'.added = loop.added
  BY <1>5
<1>7. PICK a : /\ a = [target |-> t, eligible |-> a.eligible, catch |-> Catch(t), ok |-> TRUE]
               /\ \/ /\ adding' = [a EXCEPT !.eligible = <<>>] /\ pc' = "adding"
                     /\ UNCHANGED <<failed, stack>>
                  \/ /\ adding' = a /\ pc' = "adding"
                     /\ UNCHANGED <<failed, stack>>
                  \/ /\ a.eligible = <<>>
                     /\ IF IsBuild(t) THEN Caught(a)
                        ELSE /\ adding' = [a EXCEPT !.ok = FALSE] /\ pc' = "adding"
                             /\ Removing(t, <<>>)
  <2>1. PICK eligible \in {SelectSeq(Eligible(t), LAMBDA f : f \notin failed_fns)} :
        \E a \in {[target |-> t, eligible |-> eligible, catch |-> Catch(t), ok |-> TRUE]} :
          \/ /\ adding' = [a EXCEPT !.eligible = <<>>] /\ pc' = "adding"
             /\ UNCHANGED <<failed, stack>>
          \/ /\ adding' = a /\ pc' = "adding"
             /\ UNCHANGED <<failed, stack>>
          \/ /\ eligible = <<>>
             /\ IF IsBuild(t) THEN Caught(a)
                ELSE /\ adding' = [a EXCEPT !.ok = FALSE] /\ pc' = "adding"
                     /\ Removing(t, <<>>)
    BY <1>2 DEF Begin
  <2> QED BY <2>1
<1>8. /\ a = [target |-> a.target, eligible |-> a.eligible, catch |-> a.catch, ok |-> a.ok]
      /\ a.target = t
  BY <1>7
\* It needs nothing, or its files are to be added.
<1>9. CASE /\ adding' = [a EXCEPT !.eligible = <<>>] \/ adding' = a
           /\ pc' = "adding" /\ failed' = failed /\ stack' = stack
  <2>1. /\ adding' = [target |-> adding'.target, eligible |-> adding'.eligible,
                      catch |-> adding'.catch, ok |-> adding'.ok]
        /\ adding'.ok = TRUE
    <3>1. \/ adding' = [target |-> t, eligible |-> <<>>, catch |-> Catch(t), ok |-> TRUE]
          \/ adding' = [target |-> t, eligible |-> a.eligible, catch |-> Catch(t), ok |-> TRUE]
      BY <1>7, <1>9
    <3> QED BY <3>1
  <2>2. Shape'
    BY <1>1, <1>3, <1>6, <1>9, <2>1 DEF Shape
  <2>3. Fine => DepsKnown' /\ FailedDepsFail' /\ FailedFilesGo'
    BY <1>1, <1>9 DEF TaskInv, FollowedUp, DepsKnown, FailedDepsFail, FailedFilesGo
  <2>4. NothingMissed'
    BY <1>9, <2>1 DEF NothingMissed
  <2> QED BY <2>2, <2>3, <2>4 DEF FollowedUp
\* It has no provider.
<1>10. ASSUME /\ adding' = [target |-> adding'.target, eligible |-> adding'.eligible,
                            catch |-> adding'.catch, ok |-> adding'.ok]
              /\ adding'.ok \in BOOLEAN
              /\ pc' \in {"adding", "error"}
              /\ pc' # "adding" => stack' = <<>>
              /\ pc' = "adding" => adding'.eligible = <<>>
              /\ IsSeq(stack')
              /\ \A y : On(y, stack') => y = RemovalOf(t) /\ t \in failed',
              \A y : On(y, stack') => y = Failing(y[2]) \/ y = RemovalOf(y[2]),
              pc' # "error" /\ ~input.allowincomplete =>
                failed' = failed \cup {t} /\ On(RemovalOf(t), stack')
       PROVE  Shape' /\ (Fine /\ Fine' => FollowedUp')
  <2>1. Shape'
    BY <1>3, <1>6, <1>10, Frames DEF Shape
  <2>2. ASSUME Fine, Fine' PROVE FollowedUp'
    <3>1. FollowedUp
      BY <2>2 DEF TaskInv
    <3>2. failed' = failed \cup {t} /\ On(RemovalOf(t), stack')
      BY <1>10, <2>2 DEF Fine
    <3>3. DepsKnown' /\ FailedDepsFail' /\ FailedFilesGo'
      BY <1>1, <1>4, <3>1, <3>2 DEF FollowedUp, DepsKnown, FailedDepsFail, FailedFilesGo
    <3>4. \A kind : Unresolved(kind)' \subseteq Unresolved(kind) \ {t}
      BY <1>1, <3>2 DEF Unresolved
    <3>5. NothingMissed'
      BY <1>1, <1>6, <3>1, <3>4 DEF FollowedUp, NothingMissed
    <3> QED BY <3>3, <3>5 DEF FollowedUp
  <2> QED BY <2>1, <2>2
<1>11. CASE Caught(a)
  <2>1. /\ adding' = [target |-> adding'.target, eligible |-> adding'.eligible,
                      catch |-> adding'.catch, ok |-> adding'.ok]
        /\ adding'.ok \in BOOLEAN
        /\ pc' \in {"adding", "error"}
        /\ pc' # "adding" => stack' = <<>>
        /\ pc' = "adding" => adding'.eligible = <<>>
        /\ IsSeq(stack')
        /\ \A y : On(y, stack') => y = RemovalOf(a.target) /\ a.target \in failed'
        /\ \A y : On(y, stack') => y = Failing(y[2]) \/ y = RemovalOf(y[2])
        /\ pc' # "error" /\ ~input.allowincomplete =>
             failed' = failed \cup {a.target} /\ On(RemovalOf(a.target), stack')
    BY <1>8, <1>11, CaughtState
  <2> QED BY <1>8, <1>10, <2>1
<1>12. CASE /\ a.eligible = <<>> /\ adding' = [a EXCEPT !.ok = FALSE] /\ pc' = "adding"
            /\ Removing(t, <<>>)
  <2>1. adding' = [target |-> t, eligible |-> <<>>, catch |-> Catch(t), ok |-> FALSE]
    <3>1. a = [target |-> t, eligible |-> <<>>, catch |-> Catch(t), ok |-> TRUE]
      BY <1>7, <1>12
    <3> QED BY <1>12, <3>1
  <2>2. failed' = failed \cup {t} /\ stack' = <<RemovalOf(t)>> \o <<>>
    BY <1>12 DEF Removing
  <2>3. /\ IsSeq(stack') /\ On(RemovalOf(t), stack')
        /\ \A y : On(y, stack') => y = RemovalOf(t)
    BY <2>2, EmptyStack, PushFrame
  <2>4. \A y : On(y, stack') => y = Failing(y[2]) \/ y = RemovalOf(y[2])
    BY <2>3 DEF RemovalOf
  <2> QED BY <1>10, <1>12, <2>1, <2>2, <2>3, <2>4
<1> QED BY <1>7, <1>9, <1>11, <1>12

\* A round begins with what is unresolved then; the one that added nothing was
\* through with both kinds of targets.
LEMMA LoopTurnsKeeps == TaskInv /\ LoopTurns => Shape' /\ (Fine => FollowedUp')
<1> SUFFICES ASSUME TaskInv, LoopTurns PROVE Shape' /\ (Fine => FollowedUp')
  OBVIOUS
<1>1. /\ pc = "loop" /\ loop.left = {}
      /\ input' = input /\ targets' = targets /\ failed' = failed
      /\ failed_fns' = failed_fns /\ seenfns' = seenfns /\ external' = external
      /\ stack' = stack /\ adding' = adding
  BY DEF LoopTurns
<1>2. Shape
  BY DEF TaskInv
<1>3. Fine => DepsKnown' /\ FailedDepsFail' /\ FailedFilesGo'
  BY <1>1 DEF TaskInv, FollowedUp, DepsKnown, FailedDepsFail, FailedFilesGo
<1>4. \A kind : Unresolved(kind)' = Unresolved(kind)
  BY <1>1 DEF Unresolved
<1>5. CASE /\ loop.part = "b" /\ pc' = pc
           /\ loop' = [loop EXCEPT !.part = "r", !.left = Unresolved("r")]
  <2>1. loop' = [part |-> "r", left |-> Unresolved("r"), added |-> loop.added]
    BY <1>2, <1>5 DEF Shape
  <2>2. /\ loop' = [part |-> loop'.part, left |-> loop'.left, added |-> loop'.added]
        /\ loop'.part = "r" /\ loop'.left = Unresolved("r") /\ loop'.added = loop.added
    BY <2>1
  <2>3. Shape'
    BY <1>1, <1>2, <1>5, <2>2 DEF Shape
  <2>4. Fine => NothingMissed'
    BY <1>1, <1>4, <1>5, <2>2 DEF TaskInv, FollowedUp, NothingMissed
  <2> QED BY <1>3, <2>3, <2>4 DEF FollowedUp
<1>6. CASE /\ loop' = [part |-> "b", left |-> Unresolved("b"), added |-> FALSE]
           /\ pc' = pc
  <2>1. /\ loop' = [part |-> loop'.part, left |-> loop'.left, added |-> loop'.added]
        /\ loop'.part = "b" /\ loop'.left = Unresolved("b") /\ loop'.added = FALSE
    BY <1>6
  <2>2. Shape'
    BY <1>1, <1>2, <1>6, <2>1 DEF Shape
  <2>3. NothingMissed'
    BY <1>4, <2>1 DEF NothingMissed
  <2> QED BY <1>3, <2>2, <2>3 DEF FollowedUp
<1>7. CASE loop.part = "r" /\ ~loop.added /\ pc' = "done" /\ loop' = loop
  <2>1. Shape'
    BY <1>1, <1>2, <1>7 DEF Shape
  <2>2. Fine => NothingMissed'
    BY <1>1, <1>4, <1>7 DEF TaskInv, FollowedUp, NothingMissed
  <2> QED BY <1>3, <2>1, <2>2 DEF FollowedUp
<1> QED BY <1>5, <1>6, <1>7 DEF LoopTurns

-----------------------------------------------------------------------------
(* The theorem *)

\* Every step keeps the invariant.
LEMMA TaskStep == TaskInv /\ [Next]_vars => TaskInv'
<1> SUFFICES ASSUME TaskInv, [Next]_vars PROVE TaskInv'
  OBVIOUS
<1>1. CASE UNCHANGED vars
  BY <1>1 DEF vars, TaskInv, Shape, Fine, GivenUp, FollowedUp, DepsKnown, FailedDepsFail,
              FailedFilesGo, NothingMissed, Unresolved
<1>2. ASSUME Next, Shape', Fine /\ Fine' => FollowedUp' PROVE TaskInv'
  BY <1>2, FineBefore DEF TaskInv
<1>3. CASE FailFn
  BY <1>2, <1>3, FailFnKeeps DEF Next
<1>4. CASE RemoveTarget
  BY <1>2, <1>4, RemoveTargetKeeps DEF Next
<1>5. CASE AddNext
  BY <1>2, <1>5, AddNextKeeps DEF Next
<1>6. CASE AddReturns
  BY <1>2, <1>6, AddReturnsKeeps DEF Next
<1>7. CASE LoopTakes
  BY <1>2, <1>7, LoopTakesKeeps DEF Next
<1>8. CASE LoopTurns
  BY <1>2, <1>8, LoopTurnsKeeps DEF Next
<1> QED BY <1>1, <1>3, <1>4, <1>5, <1>6, <1>7, <1>8 DEF Next, Ended

\* At the end nothing is left to follow up.
LEMMA TaskInvClosed == TaskInv => Closed
<1> SUFFICES ASSUME TaskInv, pc = "done", ~input.allowincomplete, ~GivenUp,
                    NEW f \in seenfns \ failed_fns, NEW t \in input.deps[f], ~Ignored(t)
             PROVE  Providers(t) # {} /\ Providers(t) \cap failed_fns = {}
  BY DEF Closed
<1>1. Shape /\ FollowedUp
  BY DEF TaskInv, Fine
<1>2. \A y : ~On(y, stack)
  BY <1>1, EmptyStack DEF Shape
<1>3. t \in DOMAIN targets /\ t \notin failed
  BY <1>1, <1>2 DEF FollowedUp, DepsKnown, FailedDepsFail
<1>4. targets[t] \cap failed_fns = {}
  BY <1>1, <1>2, <1>3 DEF FollowedUp, FailedFilesGo
<1>5. Unresolved("b") = {} /\ Unresolved("r") = {}
  BY <1>1 DEF Shape, FollowedUp, NothingMissed
<1>6. targets[t] # {}
  BY <1>3, <1>5 DEF Unresolved, Ignored
<1> QED BY <1>3, <1>4, <1>6 DEF Providers

\* When dependency resolution ends, every file that takes part in the build has
\* for each dependency a provider and none that has failed, whatever recipes,
\* preferences, orders and --continue: unless a target the user asked for was
\* given up.
THEOREM ClosedTheorem == Spec => []Closed
  BY TaskInitially, TaskStep, TaskInvClosed, PTL DEF Spec

-----------------------------------------------------------------------------
(* The schedulers *)

(***************************************************************************)
(* Tasks that failed count against number_threads for the rest of the      *)
(* build: the limit is one on all that were started and did not complete,  *)
(* which is what next_buildable_task counts.                               *)
(***************************************************************************)
StartedBounded ==
    \A n \in DOMAIN build.number_threads :
        build.number_threads[n] > 0 => Cardinality(OfThatName(n)) <= build.number_threads[n]

(* The types, of a build that is one of the builds. *)
SchedulerTyped == build \in Builds /\ SchedulerTypeOK

SchedulerInv ==
    /\ SchedulerTyped
    /\ Cardinality(Active) <= NumberTasks
    /\ StartedBounded
    /\ StampsExclusive

(* The tasks of a queue are finitely many, and so are all sets of them that
   are counted. *)
LEMMA Finite ==
    ASSUME SchedulerTyped
    PROVE  /\ IsFiniteSet(Active)
           /\ \A n : IsFiniteSet(OfThatName(n))
<1>1. IsFiniteSet(Tids)
  BY SchedulerAssumption DEF SchedulerTyped, SchedulerTypeOK, Tids
<1>2. Active \subseteq Tids
  BY DEF SchedulerTyped, SchedulerTypeOK, Active
<1>3. \A n : OfThatName(n) \subseteq Tids
  BY DEF SchedulerTyped, SchedulerTypeOK, OfThatName
<1> QED
  BY <1>1, <1>2, <1>3, FS_Subset

(* At the start nothing runs. *)
LEMMA SchedulerInitially == SchedulerInit => SchedulerInv
<1> SUFFICES ASSUME SchedulerInit PROVE SchedulerInv
  OBVIOUS
<1>1. SchedulerTyped
  BY DEF SchedulerInit, SchedulerTyped, SchedulerTypeOK
<1>2. Active = {} /\ \A n : OfThatName(n) = {}
  BY DEF SchedulerInit, Active, OfThatName
<1>3. Cardinality({}) = 0
  BY FS_EmptySet
<1>4. Cardinality(Active) <= NumberTasks
  BY <1>2, <1>3, SchedulerAssumption
<1>5. StartedBounded
  <2> SUFFICES ASSUME NEW n \in DOMAIN build.number_threads
               PROVE  0 <= build.number_threads[n]
    BY <1>2, <1>3 DEF StartedBounded
  <2> QED BY SchedulerAssumption DEF SchedulerInit
<1>6. StampsExclusive
  BY <1>2 DEF StampsExclusive
<1> QED BY <1>1, <1>4, <1>5, <1>6 DEF SchedulerInv

(* What runs, and what was started of one name, only shrinks where no task is
   started. *)
LEMMA FewerAreFine ==
    ASSUME SchedulerInv, SchedulerTyped', build' = build,
           Active' \subseteq Active, \A n : OfThatName(n)' \subseteq OfThatName(n)
    PROVE  SchedulerInv'
<1>1. SchedulerTyped
  BY DEF SchedulerInv
<1>2. Cardinality(Active') <= NumberTasks
  <2>1. IsFiniteSet(Active) /\ IsFiniteSet(Active')
    BY <1>1, Finite, FS_Subset
  <2>2. Cardinality(Active') <= Cardinality(Active)
    BY <2>1, FS_Subset
  <2>3. Cardinality(Active) \in Nat /\ Cardinality(Active') \in Nat
    BY <2>1, FS_CardinalityType
  <2> QED BY <2>2, <2>3, SchedulerAssumption DEF SchedulerInv
<1>3. StartedBounded'
  <2> SUFFICES ASSUME NEW n \in DOMAIN build.number_threads, build.number_threads[n] > 0
               PROVE  Cardinality(OfThatName(n)') <= build.number_threads[n]
    BY DEF StartedBounded
  <2>1. IsFiniteSet(OfThatName(n)) /\ IsFiniteSet(OfThatName(n)')
    BY <1>1, Finite, FS_Subset
  <2>2. Cardinality(OfThatName(n)') <= Cardinality(OfThatName(n))
    BY <2>1, FS_Subset
  <2>3. Cardinality(OfThatName(n)) \in Nat /\ Cardinality(OfThatName(n)') \in Nat
    BY <2>1, FS_CardinalityType
  <2>4. Cardinality(OfThatName(n)) <= build.number_threads[n]
    BY DEF SchedulerInv, StartedBounded
  <2>5. build.number_threads[n] \in Nat
    BY <1>1, SchedulerAssumption DEF SchedulerTyped, SchedulerTypeOK
  <2> QED BY <2>2, <2>3, <2>4, <2>5
<1>4. StampsExclusive'
  BY DEF SchedulerInv, StampsExclusive
<1> QED BY <1>2, <1>3, <1>4 DEF SchedulerInv

(* The task that is started is one the limits and the stamps admit. *)
LEMMA StartTaskKeeps ==
    ASSUME SchedulerInv, NEW tid \in Tids, StartTask(tid) PROVE SchedulerInv'
<1>1. /\ tid \notin rq.running /\ tid \in buildable
      /\ ThreadsLeft(tid) /\ StampFree(tid) /\ CanStartTask
      /\ rq' = [rq EXCEPT !.running = @ \union {tid}]
      /\ buildable' = Runnable
      /\ build' = build
  BY DEF StartTask, Best, Admissible, Runnable
<1>2. SchedulerTyped
  BY DEF SchedulerInv
<1>3. rq' = [running |-> rq.running \union {tid}, complete |-> rq.complete,
             failed |-> rq.failed, state |-> rq.state]
  BY <1>1, <1>2 DEF SchedulerTyped, SchedulerTypeOK
<1>4. /\ rq'.running = rq.running \union {tid} /\ rq'.complete = rq.complete
      /\ rq'.failed = rq.failed /\ rq'.state = rq.state
  BY <1>3
<1>5. tid \notin rq.complete /\ tid \notin rq.failed
  BY <1>1, <1>2 DEF SchedulerTyped, SchedulerTypeOK
<1>6. SchedulerTyped'
  BY <1>1, <1>2, <1>3, <1>4 DEF SchedulerTyped, SchedulerTypeOK, Tids, Runnable
<1>7. Active' = Active \union {tid} /\ tid \notin Active
  BY <1>1, <1>4, <1>5 DEF Active
<1>8. Cardinality(Active') <= NumberTasks
  <2>1. Cardinality(Active) \in Nat /\ Cardinality(Active') = Cardinality(Active) + 1
    BY <1>2, <1>7, Finite, FS_AddElement, FS_CardinalityType
  <2> QED BY <1>1, <2>1, SchedulerAssumption DEF CanStartTask
<1>9. StartedBounded'
  <2> SUFFICES ASSUME NEW n \in DOMAIN build.number_threads, build.number_threads[n] > 0
               PROVE  Cardinality(OfThatName(n)') <= build.number_threads[n]
    BY <1>1 DEF StartedBounded
  <2>1. Cardinality(OfThatName(n)) <= build.number_threads[n]
    BY DEF SchedulerInv, StartedBounded
  <2>2. CASE TaskName(tid) = n
    <3>1. OfThatName(n)' = OfThatName(n) \union {tid} /\ tid \notin OfThatName(n)
      BY <1>1, <1>4, <1>5, <2>2 DEF OfThatName
    <3>2. /\ Cardinality(OfThatName(n)) \in Nat
          /\ Cardinality(OfThatName(n)') = Cardinality(OfThatName(n)) + 1
      BY <1>2, <3>1, Finite, FS_AddElement, FS_CardinalityType
    <3>3. build.number_threads[n] \in Nat
      BY <1>2, SchedulerAssumption DEF SchedulerTyped, SchedulerTypeOK
    <3>4. Cardinality(OfThatName(n)) < build.number_threads[n]
      BY <1>1, <2>2, <3>3 DEF ThreadsLeft
    <3> QED BY <3>2, <3>3, <3>4
  <2>3. CASE TaskName(tid) # n
    <3>1. OfThatName(n)' = OfThatName(n)
      BY <1>4, <2>3 DEF OfThatName
    <3> QED BY <2>1, <3>1
  <2> QED BY <2>2, <2>3
<1>10. StampsExclusive'
  <2> SUFFICES ASSUME NEW s \in Active', NEW t \in Active', s # t
               PROVE  build.stamp[s] # build.stamp[t]
    BY <1>1 DEF StampsExclusive
  <2>1. CASE s \in Active /\ t \in Active
    BY <2>1 DEF SchedulerInv, StampsExclusive
  <2>2. CASE s = tid /\ t \in Active
    BY <1>1, <2>2 DEF StampFree
  <2>3. CASE s \in Active /\ t = tid
    BY <1>1, <2>3 DEF StampFree
  <2> QED BY <1>7, <2>1, <2>2, <2>3
<1> QED BY <1>6, <1>8, <1>9, <1>10 DEF SchedulerInv

(* Every step keeps the invariant. *)
LEMMA SchedulerStep == SchedulerInv /\ [SchedulerNext]_schedulerVars => SchedulerInv'
<1> SUFFICES ASSUME SchedulerInv, [SchedulerNext]_schedulerVars PROVE SchedulerInv'
  OBVIOUS
<1>1. SchedulerTyped
  BY DEF SchedulerInv
<1>2. /\ rq = [running |-> rq.running, complete |-> rq.complete, failed |-> rq.failed,
               state |-> rq.state]
      /\ Active \subseteq rq.running
  BY <1>1 DEF SchedulerTyped, SchedulerTypeOK, Active
<1>3. ASSUME build' = build, buildable' \subseteq Tids,
             NEW done, rq.complete \subseteq done, done \subseteq rq.complete \union Active,
             NEW broken, rq.failed \subseteq broken, broken \subseteq rq.failed \union Active,
             done \intersect broken = {},
             NEW state \in {"prepare", "running", "cleanup", "failed", "complete", "raised"},
             rq' = [running |-> rq.running, complete |-> done, failed |-> broken,
                    state |-> state]
      PROVE  SchedulerInv'
  <2>1. rq'.running = rq.running /\ rq'.complete = done /\ rq'.failed = broken
    BY <1>3
  <2>2. rq' \in [running : SUBSET Tids, complete : SUBSET Tids, failed : SUBSET Tids,
                 state : {"prepare", "running", "cleanup", "failed", "complete", "raised"}]
    <3>1. done \subseteq Tids /\ broken \subseteq Tids /\ rq.running \subseteq Tids
      BY <1>1, <1>2, <1>3 DEF SchedulerTyped, SchedulerTypeOK
    <3> QED BY <1>3, <3>1
  <2>3. /\ rq'.complete \union rq'.failed \subseteq rq'.running
        /\ rq'.complete \intersect rq'.failed = {}
    BY <1>1, <1>3, <2>1 DEF SchedulerTyped, SchedulerTypeOK, Active
  <2>4. SchedulerTyped'
    BY <1>1, <1>3, <2>2, <2>3 DEF SchedulerTyped, SchedulerTypeOK, Tids
  <2>5. Active' \subseteq Active /\ \A n : OfThatName(n)' \subseteq OfThatName(n)
    BY <1>3, <2>1 DEF Active, OfThatName
  <2> QED BY <1>3, <2>4, <2>5, FewerAreFine
<1>4. /\ rq.complete \intersect rq.failed = {} /\ buildable \subseteq Tids
       /\ rq.state \in {"prepare", "running", "cleanup", "failed", "complete", "raised"}
  BY <1>1 DEF SchedulerTyped, SchedulerTypeOK
<1>5. ASSUME build' = build, buildable' = buildable, rq' = rq PROVE SchedulerInv'
  BY <1>5 DEF SchedulerInv, SchedulerTyped, SchedulerTypeOK, StartedBounded, StampsExclusive, Active,
              OfThatName, Tids
<1>6. CASE Construct
  <2>1. /\ build' = build /\ buildable' \subseteq Tids
        /\ rq' = [running |-> rq.running, complete |-> rq.complete, failed |-> rq.failed,
                  state |-> "running"]
    BY <1>2, <1>6 DEF Construct
  <2> QED BY <1>3, <1>4, <2>1
<1>7. ASSUME NEW t \in Tids, StartTask(t) PROVE SchedulerInv'
  BY <1>7, StartTaskKeeps
<1>8. CASE RaiseValueError
  <2>1. /\ build' = build /\ buildable' \subseteq Tids
        /\ rq' = [running |-> rq.running, complete |-> rq.complete, failed |-> rq.failed,
                  state |-> "raised"]
    BY <1>1, <1>2, <1>8 DEF RaiseValueError, SchedulerTyped, SchedulerTypeOK
  <2> QED BY <1>3, <1>4, <2>1
<1>9. CASE NoMoreTasks
  <2>1. build' = build /\ buildable' \subseteq Tids
    BY <1>1, <1>9 DEF NoMoreTasks, SchedulerTyped, SchedulerTypeOK
  <2>2. PICK state \in {"failed", "complete"} : rq' = [rq EXCEPT !.state = state]
    BY <1>9 DEF NoMoreTasks
  <2>3. rq' = [running |-> rq.running, complete |-> rq.complete, failed |-> rq.failed,
               state |-> state]
    BY <1>2, <2>2
  <2> QED BY <1>3, <1>4, <2>1, <2>3
<1>10. ASSUME NEW t \in Tids, TaskComplete(t) PROVE SchedulerInv'
  <2>1. /\ t \in Active /\ build' = build /\ buildable' \subseteq Tids
        /\ rq' = [rq EXCEPT !.complete = @ \union {t}]
    BY <1>1, <1>10 DEF TaskComplete, SchedulerTyped, SchedulerTypeOK
  <2>2. rq' = [running |-> rq.running, complete |-> rq.complete \union {t},
               failed |-> rq.failed, state |-> rq.state]
    BY <1>2, <2>1
  <2>3. {t} \intersect rq.failed = {} /\ {t} \subseteq Active
    BY <2>1 DEF Active
  <2> QED BY <1>3, <1>4, <2>1, <2>2, <2>3
<1>11. ASSUME NEW t \in Tids, TaskFail(t) PROVE SchedulerInv'
  <2>1. /\ t \in Active /\ build' = build /\ buildable' \subseteq Tids
    BY <1>1, <1>11 DEF TaskFail, SchedulerTyped, SchedulerTypeOK
  <2>2. PICK state \in {rq.state, "cleanup"} :
          rq' = [rq EXCEPT !.failed = @ \union {t}, !.state = state]
    BY <1>11 DEF TaskFail
  <2>3. rq' = [running |-> rq.running, complete |-> rq.complete,
               failed |-> rq.failed \union {t}, state |-> state]
    BY <1>2, <2>2
  <2>4. {t} \intersect rq.complete = {} /\ {t} \subseteq Active
    BY <2>1 DEF Active
  <2> QED BY <1>3, <1>4, <2>1, <2>3, <2>4
<1>12. CASE CleanUp
  <2>1. /\ build' = build /\ buildable' \subseteq Tids
        /\ rq' = [running |-> rq.running, complete |-> rq.complete, failed |-> rq.failed,
                  state |-> "failed"]
    BY <1>1, <1>2, <1>12 DEF CleanUp, SchedulerTyped, SchedulerTypeOK
  <2> QED BY <1>3, <1>4, <2>1
<1>13. CASE PressureChanges \/ SchedulerEnds \/ UNCHANGED schedulerVars
  BY <1>5, <1>13 DEF PressureChanges, SchedulerEnds, schedulerVars
<1> QED
  BY <1>6, <1>7, <1>8, <1>9, <1>10, <1>11, <1>12, <1>13 DEF SchedulerNext

(* For every queue, scheduler, limit and pressure: no more tasks run together
   than BB_NUMBER_THREADS and number_threads allow, and never two that write
   one stamp. *)
THEOREM AdmissionCorrectTheorem == SchedulerSpec => []AdmissionCorrect
<1>1. SchedulerInv => AdmissionCorrect
  <2> SUFFICES ASSUME SchedulerInv PROVE NumberThreadsRespected
    BY DEF SchedulerInv, AdmissionCorrect, SchedulerTyped
  <2> SUFFICES ASSUME NEW n \in DOMAIN build.number_threads, build.number_threads[n] > 0
               PROVE  Cardinality({t \in Active : TaskName(t) = n}) <= build.number_threads[n]
    BY DEF NumberThreadsRespected
  <2> DEFINE running == {t \in Active : TaskName(t) = n}
  <2>1. SchedulerTyped /\ Cardinality(OfThatName(n)) <= build.number_threads[n]
    BY DEF SchedulerInv, StartedBounded
  <2>2. running \subseteq OfThatName(n)
    BY DEF Active, OfThatName
  <2>3. IsFiniteSet(OfThatName(n)) /\ IsFiniteSet(running)
    BY <2>1, <2>2, Finite, FS_Subset
  <2>4. Cardinality(running) <= Cardinality(OfThatName(n))
    BY <2>2, <2>3, FS_Subset
  <2>5. Cardinality(running) \in Nat /\ Cardinality(OfThatName(n)) \in Nat
    BY <2>3, FS_CardinalityType
  <2>6. build.number_threads[n] \in Nat
    BY <2>1, SchedulerAssumption DEF SchedulerTyped, SchedulerTypeOK
  <2> QED BY <2>1, <2>4, <2>5, <2>6
<1> QED BY <1>1, SchedulerInitially, SchedulerStep, PTL DEF SchedulerSpec
=============================================================================
