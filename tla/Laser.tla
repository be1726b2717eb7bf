------------------------------- MODULE Laser -------------------------------
(***************************************************************************)
(* The Laser plugin (flatland_plugins/src/laser.cpp): a scan is cut into   *)
(* clusters of rays that the workers of a thread pool cast, each ray first *)
(* as far as the obstacle of the last scan and a bit, and only if nothing  *)
(* is there to the end.                                                    *)
(*                                                                         *)
(* A distance along a ray is a whole number up to Range.  What lies along  *)
(* the rays is a scene, from ray to its hits [at, seen, bright]: whether   *)
(* the callback takes the fixture for an obstacle (layers, sensors,        *)
(* ignored and elevated bodies), and whether it is of a reflectance layer. *)
(* The physics thread waits for the scan, so a scene lasts for one.        *)
(* Without noise.                                                          *)
(***************************************************************************)
EXTENDS ThreadPool, FiniteSetsExt

CONSTANTS
  Rays,         \* number of rays
  ClusterSize,  \* rays of a cluster, 10 in the code
  MaxRange,     \* range_
  Growth,       \* lastScanExpansion, a whole number here
  Scenes,       \* what may lie along the rays
  Nan           \* the range of a ray that hits nothing

VARIABLES
  scene,       \* what lies along the rays now
  subscribed,  \* somebody listens to the scan
  next,        \* cluster enqueued next; -1 between scans
  hints,       \* m_lastMaxFractions_
  results,     \* results of the clusters whose future is ready
  scan         \* laser_scan_ as published

laserVars == <<scene, subscribed, next, hints, results, scan>>
vars == <<laserVars, poolVars>>

(* ParseParameters refuses angles whose increment is zero or leads away     *)
(* from the last one, so there is at least one ray.                        *)
ParametersAccepted == Rays >= 1 /\ MaxRange >= 0

Ray == 0 .. Rays - 1

LaserAssumption ==
  /\ {Rays, MaxRange, Growth} \subseteq Nat /\ ClusterSize \in Nat \ {0}
  /\ Scenes \subseteq [Ray -> SUBSET [at : Nat, seen : BOOLEAN, bright : BOOLEAN]]
  /\ Worker # {}

ASSUME LaserAssumption

LastClusterSize == IF Rays % ClusterSize = 0 THEN ClusterSize
                   ELSE Rays % ClusterSize
Clusters == Rays \div ClusterSize + (IF Rays % ClusterSize = 0 THEN 0 ELSE 1)

(* The indices the job of a cluster goes through.                          *)
Cluster(i) ==
  LET size == IF i = Clusters - 1 THEN LastClusterSize ELSE ClusterSize
  IN  i * ClusterSize .. i * ClusterSize + size - 1

Init ==
  /\ PoolInit
  /\ scene \in Scenes
  /\ subscribed = TRUE
  /\ next = -1
  /\ hints = [r \in Ray |-> MaxRange]
  /\ results = << >>
  /\ scan = << >>

-----------------------------------------------------------------------------
(***************************************************************************)
(* One ray                                                                 *)
(***************************************************************************)

(* ReportFixture clips the ray at every obstacle, so of the obstacles      *)
(* between two distances the nearest is reported, and others before it or  *)
(* not, as the tree of Box2D happens to be ordered.                        *)
Between(hits, from, to) ==
  {h \in hits : h.seen /\ from <= h.at /\ h.at <= to}
Nearest(hits) == Min({h.at : h \in hits})
Reported(hits) == {T \in SUBSET hits : \E h \in T : h.at = Nearest(hits)}

(* intensity_ stays at 255 once a reflecting fixture is reported.          *)
Echo(reported) ==
  [hint |-> Nearest(reported), range |-> Nearest(reported),
   bright |-> \E h \in reported : h.bright]

Silence == [hint |-> 0, range |-> Nan, bright |-> FALSE]

Reach(hint) == Min({Growth * hint, MaxRange})

(* The second cast starts where the first ended; its fraction is composed  *)
(* with that of the first.                                                 *)
MutantRest(hits, reach) == Between(hits, MaxRange, MaxRange)
Rest(hits, reach) == IF reach < MaxRange THEN Between(hits, reach, MaxRange) ELSE {}

(* What the job of a ray may return.                                       *)
Cast(hits, hint) ==
  LET near == Between(hits, 0, Reach(hint))
      far == Rest(hits, Reach(hint))
  IN  IF near # {} THEN {Echo(T) : T \in Reported(near)}
      ELSE IF far # {} THEN {Echo(T) : T \in Reported(far)}
      ELSE {Silence}

-----------------------------------------------------------------------------
(***************************************************************************)
(* The scan                                                                *)
(***************************************************************************)

(* Bodies move, and listeners come and go, between two scans.              *)
Move ==
  /\ next = -1 /\ ~stop
  /\ scene' \in Scenes
  /\ subscribed' \in BOOLEAN
  /\ UNCHANGED <<next, hints, results, scan, poolVars>>

(* BeforePhysicsStep, when the timer is due and somebody listens.          *)
BeforePhysicsStep ==
  /\ next = -1 /\ ~stop /\ subscribed
  /\ next' = 0
  /\ results' = << >>
  /\ UNCHANGED <<scene, subscribed, hints, scan, poolVars>>

EnqueueCluster ==
  /\ next \in 0 .. Clusters - 1
  /\ Enqueue(next)
  /\ next' = next + 1
  /\ UNCHANGED <<scene, subscribed, hints, results, scan>>

(* The job of a cluster: its rays one after the other.                     *)
RunCluster(w) ==
  /\ Return(w)
  /\ \E echo \in {f \in [Cluster(task[w]) ->
                          UNION {Cast(scene[r], hints[r]) : r \in Cluster(task[w])}] :
                    \A r \in Cluster(task[w]) : f[r] \in Cast(scene[r], hints[r])} :
       /\ hints' = [r \in Ray |-> IF r \in DOMAIN echo THEN echo[r].hint ELSE hints[r]]
       /\ results' = [i \in DOMAIN results \cup {task[w]} |->
                        IF i = task[w] THEN echo ELSE results[i]]
  /\ UNCHANGED <<scene, subscribed, next, scan>>

(* The futures are read in order of the clusters, and the scan published.  *)
Publish ==
  /\ next = Clusters /\ signals = "none"
  /\ DOMAIN results = 0 .. Clusters - 1
  /\ scan' = [r \in UNION {DOMAIN results[i] : i \in DOMAIN results} |->
                LET i == CHOOSE i \in DOMAIN results : r \in DOMAIN results[i]
                IN  [range |-> results[i][r].range, bright |-> results[i][r].bright]]
  /\ next' = -1
  /\ UNCHANGED <<scene, subscribed, hints, results, poolVars>>

(* The plugin is deleted between two steps, and its pool with it.          *)
Delete ==
  /\ next = -1
  /\ Stop
  /\ UNCHANGED laserVars

Pool ==
  /\ \/ NotifyOne
     \/ NotifyAll
     \/ \E w \in Worker : WorkerRuns(w)
  /\ UNCHANGED laserVars

Next ==
  \/ Move \/ BeforePhysicsStep \/ EnqueueCluster \/ Publish \/ Delete
  \/ Pool
  \/ \E w \in Worker : RunCluster(w)

Spec == Init /\ [][Next]_vars
-----------------------------------------------------------------------------
(* No two jobs that run at the same time share a ray, so none of them      *)
(* writes m_lastMaxFractions_ or the scan where another one does, and no   *)
(* job outlives the scan it belongs to.                                    *)
JobsApart ==
  /\ \A v, w \in Worker : v # w /\ worker[v] = "busy" /\ worker[w] = "busy" =>
       Cluster(task[v]) \cap Cluster(task[w]) = {}
  /\ next = -1 => tasks = << >> /\ \A w \in Worker : worker[w] # "busy"

(* Once all notifications are given, a job in the queue will be seen by    *)
(* some worker, and nobody sleeps through the destructor.                  *)
NoLostWakeup ==
  signals = "none" =>
    /\ tasks # << >> => \E w \in Worker : worker[w] \in {"awake", "busy"}
    /\ stop => Asleep = {}

(* A published scan holds for every ray the nearest obstacle of the moment *)
(* of the scan, however far that is from where the last scan found one,    *)
(* and one that reflects is never without its intensity; the jobs that     *)
(* cast it stay apart, and none is left behind in the queue.               *)
ScansAreTrue ==
  /\ [](JobsApart /\ NoLostWakeup)
  /\ [][scan' # scan =>
       /\ DOMAIN scan' = Ray
       /\ \A r \in Ray :
            LET hits == Between(scene[r], 0, MaxRange)
                first == {h \in hits : h.at = Nearest(hits)}
            IN  IF hits = {} THEN scan'[r].range = Nan
                ELSE /\ scan'[r].range = Nearest(hits)
                     /\ (\A h \in first : h.bright) => scan'[r].bright]_vars

(* Every scan that is begun is published, and ~ThreadPool returns: no wake *)
(* up is lost between the mutex and the condition variable.                *)
ScansEnd == /\ (next # -1) ~> (next = -1)
            /\ stop ~> Joined

(* Threads are scheduled, and the physics thread goes on with its scan.    *)
Fairness ==
  /\ WF_vars(EnqueueCluster) /\ WF_vars(Publish)
  /\ WF_vars(NotifyOne /\ UNCHANGED laserVars)
  /\ WF_vars(NotifyAll /\ UNCHANGED laserVars)
  /\ \A w \in Worker : WF_vars(WorkerRuns(w) /\ UNCHANGED laserVars)
                      /\ WF_vars(RunCluster(w))
=============================================================================
