----------------------------- MODULE ThreadPool -----------------------------
(***************************************************************************)
(* The thread pool on which Laser casts its rays and PcdSampler projects   *)
(* its map (flatland_plugins/include/thirdparty/ThreadPool.h): a queue     *)
(* under a mutex, workers asleep on a condition variable, a destructor     *)
(* that lets the workers empty the queue before it joins them.             *)
(*                                                                         *)
(* A step that holds the mutex is one action; a notification, which the    *)
(* code gives after it released the mutex, is another.                     *)
(***************************************************************************)
EXTENDS Integers, Sequences

CONSTANTS
  Worker,  \* the threads
  NoJob    \* a worker without a task

VARIABLES
  tasks,    \* the queue
  worker,   \* "awake" before it locks the mutex, "asleep", "busy", "gone"
  task,     \* the task a busy worker runs
  signals,  \* notifications promised and not given yet: "none", "one", "all"
  stop      \* the destructor has begun

poolVars == <<tasks, worker, task, signals, stop>>

PoolInit ==
  /\ tasks = << >>
  /\ worker = [w \in Worker |-> "awake"]
  /\ task = [w \in Worker |-> NoJob]
  /\ signals = "none"
  /\ stop = FALSE

(* enqueue: the owner of the pool does not enqueue once it is destroyed.   *)
Enqueue(job) ==
  /\ ~stop /\ signals = "none"
  /\ tasks' = Append(tasks, job)
  /\ signals' = "one"
  /\ UNCHANGED <<worker, task, stop>>

Asleep == {w \in Worker : worker[w] = "asleep"}

(* notify_one wakes one sleeper, if there is one.                          *)
NotifyOne ==
  /\ signals = "one"
  /\ signals' = "none"
  /\ worker' \in IF Asleep = {} THEN {worker}
                 ELSE {[worker EXCEPT ![w] = "awake"] : w \in Asleep}
  /\ UNCHANGED <<tasks, task, stop>>

(* The predicate of the wait.                                              *)
Wakes == stop \/ tasks # << >>

(* A worker locks the mutex and goes to sleep, leaves, or takes a task.    *)
Sleep(w) ==
  /\ worker[w] = "awake" /\ ~Wakes
  /\ worker' = [worker EXCEPT ![w] = "asleep"]
  /\ UNCHANGED <<tasks, task, signals, stop>>

Leave(w) ==
  /\ worker[w] = "awake" /\ stop /\ tasks = << >>
  /\ worker' = [worker EXCEPT ![w] = "gone"]
  /\ UNCHANGED <<tasks, task, signals, stop>>

Take(w) ==
  /\ worker[w] = "awake" /\ tasks # << >>
  /\ worker' = [worker EXCEPT ![w] = "busy"]
  /\ task' = [task EXCEPT ![w] = Head(tasks)]
  /\ tasks' = Tail(tasks)
  /\ UNCHANGED <<signals, stop>>

(* The task returns and its future is ready.                               *)
Return(w) ==
  /\ worker[w] = "busy"
  /\ worker' = [worker EXCEPT ![w] = "awake"]
  /\ task' = [task EXCEPT ![w] = NoJob]
  /\ UNCHANGED <<tasks, signals, stop>>

(* ~ThreadPool: stop is set under the mutex, then all sleepers are woken.  *)
Stop ==
  /\ ~stop /\ signals = "none"
  /\ stop' = TRUE
  /\ signals' = "all"
  /\ UNCHANGED <<tasks, worker, task>>

MutantNotifyAll ==
  /\ signals = "all"
  /\ signals' = "none"
  /\ worker' \in IF Asleep = {} THEN {worker}
                 ELSE {[worker EXCEPT ![w] = "awake"] : w \in Asleep}
  /\ UNCHANGED <<tasks, task, stop>>
NotifyAll ==
  /\ signals = "all"
  /\ signals' = "none"
  /\ worker' = [w \in Worker |-> IF w \in Asleep THEN "awake" ELSE worker[w]]
  /\ UNCHANGED <<tasks, task, stop>>

Joined == \A w \in Worker : worker[w] = "gone"

(* Threads are scheduled.                                                  *)
WorkerRuns(w) == Sleep(w) \/ Leave(w) \/ Take(w)
=============================================================================
