--------------------------- MODULE BackgroundWork ---------------------------
(***************************************************************************)
(* PosixEnv::Schedule and BackgroundThreadMain (util/env_posix.cc): any    *)
(* thread adds work items to a queue, one detached thread runs them.       *)
(*                                                                         *)
(* A critical section of background_work_mutex_ is one step; a Wait on     *)
(* background_work_cv_ ends one critical section and, once the thread has  *)
(* been signalled (or has woken for no reason), begins another.            *)
(*                                                                         *)
(* The specification is WorkSpec, a name that leaves Spec to the other     *)
(* parts of PosixEnv.                                                      *)
(***************************************************************************)
EXTENDS Integers, Sequences

CONSTANTS
    Items,          \* the work items, each scheduled at most once
    Children        \* per item: the items its function schedules in turn

ASSUME ItemsAssumption == Children \in [Items -> SUBSET Items]

VARIABLES
    background_work_queue_,
    started_background_thread_,
    thread,         \* where the background thread is
    item,           \* the item it runs; meaningful while it is "running"
    scheduled,      \* the items scheduled so far, in order
    ran             \* the items whose function has returned, in order

workVars == <<background_work_queue_, started_background_thread_, thread, item, scheduled, ran>>

\* "absent": not created; "loop": about to lock the mutex; "waiting": in cv_.Wait();
\* "woken": about to lock it again in Wait; "running": in background_work_function.
ThreadStates == {"absent", "loop", "waiting", "woken", "running"}

In(s) == {s[j] : j \in 1 .. Len(s)}

\* Mutant: signal when there is work already.
SignalIfNotEmpty ==
    IF background_work_queue_ # <<>> /\ thread = "waiting" THEN "woken" ELSE thread

\* cv_.Signal() if the queue is empty; it is lost on a thread that is not waiting.
Signal == IF background_work_queue_ = <<>> /\ thread = "waiting" THEN "woken" ELSE thread

\* One call of Schedule, by anybody; the running function is one of the callers.
Schedule(w) ==
    /\ w \notin In(scheduled)
    /\ started_background_thread_' = TRUE
    /\ thread' = IF started_background_thread_ THEN Signal ELSE "loop"
    /\ background_work_queue_' = Append(background_work_queue_, w)
    /\ scheduled' = Append(scheduled, w)
    /\ UNCHANGED <<item, ran>>

\* A caller outside the background thread.
ScheduleFromOutside(w) == Schedule(w)

\* The running function schedules more work.
ScheduleFromFunction(w) ==
    /\ thread = "running"
    /\ w \in Children[item]
    /\ Schedule(w)

\* Mutant: an if in the place of the while around Wait.
TakeWorkUnchecked ==
    /\ thread = "woken" \/ (thread = "loop" /\ background_work_queue_ # <<>>)
    /\ thread' = "running"
    /\ item' = IF background_work_queue_ = <<>> THEN item ELSE Head(background_work_queue_)
    /\ background_work_queue_' =
         IF background_work_queue_ = <<>> THEN <<>> ELSE Tail(background_work_queue_)
    /\ UNCHANGED <<started_background_thread_, scheduled, ran>>

\* The thread has the mutex and finds work: it pops the front and unlocks.
TakeWork ==
    /\ thread \in {"loop", "woken"}
    /\ background_work_queue_ # <<>>
    /\ thread' = "running"
    /\ item' = Head(background_work_queue_)
    /\ background_work_queue_' = Tail(background_work_queue_)
    /\ UNCHANGED <<started_background_thread_, scheduled, ran>>

\* The thread has the mutex and finds nothing: Wait() gives it up.
Wait ==
    /\ thread \in {"loop", "woken"}
    /\ background_work_queue_ = <<>>
    /\ thread' = "waiting"
    /\ UNCHANGED <<background_work_queue_, started_background_thread_, item, scheduled, ran>>

\* std::condition_variable may wake without a signal.
SpuriousWakeup ==
    /\ thread = "waiting"
    /\ thread' = "woken"
    /\ UNCHANGED <<background_work_queue_, started_background_thread_, item, scheduled, ran>>

\* background_work_function(background_work_arg) returns, having scheduled its items.
FunctionReturns ==
    /\ thread = "running"
    /\ Children[item] \subseteq In(scheduled)
    /\ thread' = "loop"
    /\ ran' = Append(ran, item)
    /\ UNCHANGED <<background_work_queue_, started_background_thread_, item, scheduled>>

WorkInit ==
    /\ background_work_queue_ = <<>>
    /\ started_background_thread_ = FALSE
    /\ thread = "absent"
    /\ item \in Items
    /\ scheduled = <<>>
    /\ ran = <<>>

\* Items no function schedules come from outside.
WorkNext ==
    \/ \E w \in Items \ UNION {Children[v] : v \in Items} : ScheduleFromOutside(w)
    \/ \E w \in Items : ScheduleFromFunction(w)
    \/ TakeWork
    \/ Wait
    \/ SpuriousWakeup
    \/ FunctionReturns

WorkSpec == WorkInit /\ [][WorkNext]_workVars

\* The thread is scheduled and gets the mutex, and functions return; nobody has to call
\* Schedule, and no wakeup is to be had without a signal.
WorkFairness ==
    /\ WF_workVars(TakeWork \/ Wait)
    /\ WF_workVars(FunctionReturns)
    /\ \A w \in Items : WF_workVars(ScheduleFromFunction(w))

FairWorkSpec == WorkSpec /\ WorkFairness

(***************************************************************************)
(* Properties.                                                             *)
(***************************************************************************)
\* Type invariant.
WorkTypeOK ==
    /\ background_work_queue_ \in Seq(Items)
    /\ started_background_thread_ \in BOOLEAN
    /\ thread \in ThreadStates
    /\ item \in Items
    /\ scheduled \in Seq(Items)
    /\ ran \in Seq(Items)

\* Every item scheduled has run, runs or is queued: none is lost, none runs twice, and
\* they run in the order of their Schedule calls.
RunInOrder ==
    scheduled = ran \o (IF thread = "running" THEN <<item>> ELSE <<>>) \o background_work_queue_

\* The thread never sleeps on a queue that has work and no wakeup on its way.
NoLostWakeup == thread \in {"absent", "waiting"} => background_work_queue_ = <<>>

\* env.h: Schedule arranges to run the function; each one does run.
EveryItemRuns == \A w \in Items : w \in In(scheduled) ~> w \in In(ran)
============================================================================
