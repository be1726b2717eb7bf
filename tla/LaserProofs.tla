---------------------------- MODULE LaserProofs ----------------------------
(***************************************************************************)
(* Proofs about the Laser and its thread pool, for any number of rays and  *)
(* threads and any obstacles: each ray of a scan is cast by one job, what  *)
(* is published is the nearest obstacle of every ray, and no job waits for *)
(* a thread that sleeps.                                                   *)
(***************************************************************************)
EXTENDS Laser, WellFoundedInduction, TLAPS

(***************************************************************************)
(* Clusters: a division of the rays.                                       *)
(***************************************************************************)

LEMMA Division ==
  ASSUME NEW q \in Nat \ {0}, NEW x \in Nat
  PROVE  /\ x \div q \in Nat /\ x % q \in 0 .. q - 1
         /\ x = (x \div q) * q + (x % q)
<1>1. x \div q \in Int /\ x % q \in 0 .. q - 1 /\ x = q * (x \div q) + (x % q)
  BY Z3
<1>2. x \div q \in Nat
  BY Z3
<1> QED
  BY <1>1, <1>2

(* The next multiple.                                                      *)
LEMMA Multiple ==
  ASSUME NEW q \in Nat \ {0}, NEW a \in Nat, NEW b \in Nat
  PROVE  /\ a * q \in Nat /\ b * q \in Nat
         /\ (a + 1) * q = a * q + q
         /\ a < b => a * q + q <= b * q
<1>1. a * q \in Nat /\ b * q \in Nat
  BY Z3
<1>2. (a + 1) * q = a * q + q
  BY Z3
<1>3. ASSUME a < b PROVE a * q + q <= b * q
  <2>1. b - a - 1 \in Nat
    BY <1>3
  <2>2. (b - a - 1) * q \in Nat
    BY <2>1, Z3
  <2>3. (b - a - 1) * q = b * q - a * q - q
    BY Z3
  <2> QED
    BY <1>1, <2>2, <2>3
<1> QED
  BY <1>1, <1>2, <1>3

(* Full clusters, and perhaps a shorter one, divide the rays.              *)
LEMMA ClustersAre ==
  ASSUME LaserAssumption
  PROVE  /\ Clusters \in Nat
         /\ \A i \in 0 .. Clusters - 1 :
              /\ i * ClusterSize \in Nat
              /\ Cluster(i) \subseteq i * ClusterSize .. i * ClusterSize + ClusterSize - 1
              /\ Cluster(i) \subseteq Ray
         /\ \A r \in Ray : \E i \in 0 .. Clusters - 1 : r \in Cluster(i)
<1> DEFINE q == Rays \div ClusterSize
           m == Rays % ClusterSize
<1>1. /\ Rays \in Nat /\ ClusterSize \in Nat \ {0}
      /\ q \in Nat /\ m \in 0 .. ClusterSize - 1
      /\ Rays = q * ClusterSize + m
  BY Division DEF LaserAssumption
<1>2. /\ Clusters = q + (IF m = 0 THEN 0 ELSE 1)
      /\ LastClusterSize = IF m = 0 THEN ClusterSize ELSE m
  BY DEF Clusters, LastClusterSize
<1> HIDE DEF q, m
<1>3. Clusters \in Nat
  BY <1>1, <1>2
<1>4. q * ClusterSize \in Nat
  BY <1>1, Multiple
<1>5. ASSUME NEW i \in 0 .. Clusters - 1
      PROVE  /\ i * ClusterSize \in Nat
             /\ Cluster(i) \subseteq i * ClusterSize .. i * ClusterSize + ClusterSize - 1
             /\ Cluster(i) \subseteq Ray
             /\ i < q => Cluster(i) = i * ClusterSize .. i * ClusterSize + ClusterSize - 1
             /\ i = q => Cluster(i) = i * ClusterSize .. i * ClusterSize + m - 1
  <2>1. i \in Nat /\ i <= q
    BY <1>1, <1>2
  <2>2. i * ClusterSize \in Nat
    BY <1>1, <2>1, Multiple
  <2>3. CASE i < q
    <3>1. Cluster(i) = i * ClusterSize .. i * ClusterSize + ClusterSize - 1
      BY <1>1, <1>2, <2>3 DEF Cluster
    <3>2. i * ClusterSize + ClusterSize <= q * ClusterSize
      BY <1>1, <2>1, <2>3, Multiple
    <3> QED
      BY <1>1, <1>4, <2>1, <2>2, <2>3, <3>1, <3>2 DEF Ray
  <2>4. CASE i = q
    <3>1. m # 0
      BY <1>1, <1>2, <2>4
    <3>2. Cluster(i) = i * ClusterSize .. i * ClusterSize + m - 1
      BY <1>1, <1>2, <2>4, <3>1 DEF Cluster
    <3> QED
      BY <1>1, <1>4, <2>2, <2>4, <3>2 DEF Ray
  <2> QED
    BY <1>1, <2>1, <2>3, <2>4
<1>6. ASSUME NEW r \in Ray PROVE \E i \in 0 .. Clusters - 1 : r \in Cluster(i)
  <2>1. r \in Nat /\ r < Rays
    BY <1>1 DEF Ray
  <2> DEFINE i == r \div ClusterSize
             s == r % ClusterSize
  <2>2. i \in Nat /\ s \in 0 .. ClusterSize - 1 /\ r = i * ClusterSize + s
    BY <1>1, <2>1, Division
  <2> HIDE DEF i, s
  <2>3. i * ClusterSize \in Nat
    BY <1>1, <2>2, Multiple
  <2>4. ~(q < i)
    <3>1. q < i => q * ClusterSize + ClusterSize <= i * ClusterSize
      BY <1>1, <2>2, Multiple
    <3> QED
      BY <1>1, <1>4, <2>1, <2>2, <2>3, <3>1
  <2>5. CASE i < q
    <3>1. i \in 0 .. Clusters - 1
      BY <1>1, <1>2, <2>2, <2>5
    <3>2. r \in Cluster(i)
      BY <1>1, <1>5, <2>2, <2>3, <2>5, <3>1
    <3> QED
      BY <3>1, <3>2
  <2>6. CASE i = q
    <3>1. s < m
      BY <1>1, <1>4, <2>1, <2>2, <2>6
    <3>2. i \in 0 .. Clusters - 1
      BY <1>1, <1>2, <2>2, <2>6, <3>1
    <3>3. r \in Cluster(i)
      BY <1>1, <1>5, <2>2, <2>3, <2>6, <3>1, <3>2
    <3> QED
      BY <3>2, <3>3
  <2> QED
    BY <1>1, <2>2, <2>4, <2>5, <2>6
<1> QED
  BY <1>3, <1>5, <1>6

LEMMA ClustersDisjoint ==
  ASSUME LaserAssumption, NEW i \in 0 .. Clusters - 1, NEW j \in 0 .. Clusters - 1,
         i # j
  PROVE  Cluster(i) \cap Cluster(j) = {}
<1>1. /\ i \in Nat /\ j \in Nat /\ ClusterSize \in Nat \ {0}
      /\ i * ClusterSize \in Nat /\ j * ClusterSize \in Nat
      /\ Cluster(i) \subseteq i * ClusterSize .. i * ClusterSize + ClusterSize - 1
      /\ Cluster(j) \subseteq j * ClusterSize .. j * ClusterSize + ClusterSize - 1
  BY ClustersAre DEF LaserAssumption
<1>2. \/ i * ClusterSize + ClusterSize <= j * ClusterSize
      \/ j * ClusterSize + ClusterSize <= i * ClusterSize
  <2>1. CASE i < j
    BY <1>1, <2>1, Multiple
  <2>2. CASE j < i
    BY <1>1, <2>2, Multiple
  <2> QED
    BY <1>1, <2>1, <2>2
<1>3. ASSUME NEW r \in Cluster(i) \cap Cluster(j) PROVE FALSE
  BY <1>1, <1>2, <1>3
<1> QED
  BY <1>3

-----------------------------------------------------------------------------
(***************************************************************************)
(* One ray                                                                 *)
(***************************************************************************)

Hit == [at : Nat, seen : BOOLEAN, bright : BOOLEAN]

LEMMA MinIs ==
  ASSUME NEW S \in SUBSET Nat, S # {}
  PROVE  Min(S) \in S /\ \A j \in S : Min(S) <= j
<1> DEFINE Less == {p \in Nat \X Nat : p[1] < p[2]}
<1>1. IsWellFoundedOn(Less, Nat)
  BY NatLessThanWellFounded DEF OpToRel
<1> HIDE DEF Less
<1>2. PICK i \in S : \A j \in S : <<j, i>> \notin Less
  BY <1>1, WFMin, Zenon
<1>3. \A j \in S : ~(j < i)
  BY <1>2 DEF Less
<1>4. \A j \in S : i <= j
  BY <1>3
<1> QED
  BY <1>4 DEF Min

LEMMA NearestIs ==
  ASSUME NEW hits \in SUBSET Hit, hits # {}
  PROVE  /\ Nearest(hits) \in Nat
         /\ \E h \in hits : h.at = Nearest(hits)
         /\ \A h \in hits : Nearest(hits) <= h.at
<1> DEFINE S == {h.at : h \in hits}
<1>1. S \in SUBSET Nat /\ S # {}
  BY DEF Hit
<1>2. Nearest(hits) = Min(S)
  BY DEF Nearest
<1> HIDE DEF S
<1>3. Nearest(hits) \in S /\ \A j \in S : Nearest(hits) <= j
  BY <1>1, <1>2, MinIs
<1> QED
  BY <1>1, <1>3 DEF S

(* What a scan says of a ray that meets these hits.                        *)
TrueEcho(echo, hits) ==
  LET seen == Between(hits, 0, MaxRange)
      first == {h \in seen : h.at = Nearest(seen)}
  IN  IF seen = {} THEN echo.range = Nan
      ELSE /\ echo.range = Nearest(seen)
           /\ (\A h \in first : h.bright) => echo.bright

(* A reported set of the hits in front is enough.                          *)
LEMMA EchoIsTrue ==
  ASSUME LaserAssumption, NEW hits \in SUBSET Hit, NEW near,
         near \subseteq Between(hits, 0, MaxRange), near # {},
         \A h \in Between(hits, 0, MaxRange) \ near : \A n \in near : n.at <= h.at,
         NEW T \in Reported(near)
  PROVE  TrueEcho(Echo(T), hits) /\ Echo(T).hint \in Nat
<1> DEFINE seen == Between(hits, 0, MaxRange)
<1>1. seen \subseteq hits /\ seen \in SUBSET Hit /\ near \in SUBSET Hit
  BY DEF Between
<1>2. PICK h \in T : h.at = Nearest(near)
  BY DEF Reported
<1>3. T \subseteq near /\ T \in SUBSET Hit /\ T # {}
  BY <1>1, <1>2 DEF Reported
<1> HIDE DEF seen
<1>4. /\ Nearest(near) \in Nat
      /\ \E n \in near : n.at = Nearest(near)
      /\ \A n \in near : Nearest(near) <= n.at
  BY <1>1, NearestIs
<1>5. /\ Nearest(T) \in Nat
      /\ \E n \in T : n.at = Nearest(T)
      /\ \A n \in T : Nearest(T) <= n.at
  BY <1>3, NearestIs
<1>6. near \subseteq seen /\ \A n \in seen \ near : \A k \in near : k.at <= n.at
  BY DEF seen
<1>7. /\ Nearest(seen) \in Nat
      /\ \E n \in seen : n.at = Nearest(seen)
      /\ \A n \in seen : Nearest(seen) <= n.at
  BY <1>1, <1>6, NearestIs
<1>8. \A n \in seen : n.at \in Nat
  BY <1>1 DEF Hit
<1>9. Nearest(T) = Nearest(near)
  BY <1>2, <1>3, <1>4, <1>5, <1>6, <1>8
<1>10. Nearest(near) = Nearest(seen)
  BY <1>4, <1>6, <1>7, <1>8
<1>11. h \in seen /\ h.at = Nearest(seen)
  BY <1>2, <1>3, <1>6, <1>10
<1>12. Echo(T).range = Nearest(seen) /\ Echo(T).hint \in Nat
  BY <1>5, <1>9, <1>10 DEF Echo
<1>13. (\A n \in {n \in seen : n.at = Nearest(seen)} : n.bright) => Echo(T).bright
  BY <1>11 DEF Echo
<1> QED
  BY <1>6, <1>12, <1>13 DEF TrueEcho, seen

(* Looking first as far as a hint and then further is as good as looking   *)
(* all the way, whatever the hint.                                         *)
LEMMA CastIsTrue ==
  ASSUME LaserAssumption, NEW hits \in SUBSET Hit, NEW hint \in Nat,
         NEW echo \in Cast(hits, hint)
  PROVE  TrueEcho(echo, hits) /\ echo.hint \in Nat
<1> DEFINE reach == Reach(hint)
           near == Between(hits, 0, reach)
           far == Rest(hits, reach)
<1>1. MaxRange \in Nat /\ Growth \in Nat
  BY DEF LaserAssumption
<1>2. reach \in Nat /\ reach <= MaxRange
  <2>1. Growth * hint \in Nat
    BY <1>1, Z3
  <2>2. {Growth * hint, MaxRange} \in SUBSET Nat
    BY <1>1, <2>1
  <2>3. /\ Min({Growth * hint, MaxRange}) \in {Growth * hint, MaxRange}
        /\ \A j \in {Growth * hint, MaxRange} : Min({Growth * hint, MaxRange}) <= j
    BY <2>2, MinIs
  <2> QED
    BY <2>2, <2>3 DEF Reach
<1>3. echo \in IF near # {} THEN {Echo(T) : T \in Reported(near)}
               ELSE IF far # {} THEN {Echo(T) : T \in Reported(far)}
               ELSE {Silence}
  BY DEF Cast
<1> HIDE DEF reach
<1>4. \A h \in hits : h.at \in Nat
  BY DEF Hit
<1>5. CASE near # {}
  <2>1. near \subseteq Between(hits, 0, MaxRange)
    BY <1>1, <1>2, <1>4 DEF Between
  <2>2. \A h \in Between(hits, 0, MaxRange) \ near : \A n \in near : n.at <= h.at
    BY <1>1, <1>2, <1>4 DEF Between
  <2>3. PICK T \in Reported(near) : echo = Echo(T)
    BY <1>3, <1>5
  <2> HIDE DEF near
  <2> QED
    BY <1>5, <2>1, <2>2, <2>3, EchoIsTrue
<1>6. CASE near = {} /\ far # {}
  <2>1. far = Between(hits, 0, MaxRange)
    BY <1>1, <1>2, <1>4, <1>6 DEF Between, Rest
  <2>2. PICK T \in Reported(far) : echo = Echo(T)
    BY <1>3, <1>6
  <2> HIDE DEF far
  <2> QED
    BY <1>6, <2>1, <2>2, EchoIsTrue
<1>7. CASE near = {} /\ far = {}
  <2>1. Between(hits, 0, MaxRange) = {}
    BY <1>1, <1>2, <1>4, <1>7 DEF Between, Rest
  <2>2. echo = Silence
    BY <1>3, <1>7
  <2> QED
    BY <2>1, <2>2 DEF Silence, TrueEcho
<1> QED
  BY <1>5, <1>6, <1>7

-----------------------------------------------------------------------------
(***************************************************************************)
(* The invariant                                                           *)
(***************************************************************************)

Job == 0 .. Clusters - 1

Busy(w) == worker[w] = "busy"

(* Whoever has left has seen the end of the queue; after the destructor    *)
(* has begun nobody is told of a single job.                               *)
PoolOK ==
  /\ worker \in [Worker -> {"awake", "asleep", "busy", "gone"}]
  /\ task \in [Worker -> Job \cup {NoJob}]
  /\ tasks \in Seq(Job)
  /\ signals \in {"none", "one", "all"} /\ stop \in BOOLEAN
  /\ \A w \in Worker : worker[w] = "gone" => stop /\ tasks = << >>
  /\ signals = "one" => ~stop

(* A job that was enqueued is in one place: the queue, a worker, or the    *)
(* results.                                                                *)
JobsOnce ==
  /\ next \in -1 .. Clusters
  /\ \A w \in Worker : Busy(w) => task[w] \in 0 .. next - 1
  /\ \A i \in DOMAIN tasks : tasks[i] \in 0 .. next - 1
  /\ \A i, j \in DOMAIN tasks : i # j => tasks[i] # tasks[j]
  /\ \A v, w \in Worker : v # w /\ Busy(v) /\ Busy(w) => task[v] # task[w]
  /\ \A i \in DOMAIN tasks, w \in Worker : Busy(w) => tasks[i] # task[w]
  /\ next # -1 =>
       /\ DOMAIN results \subseteq 0 .. next - 1
       /\ \A i \in DOMAIN tasks : tasks[i] \notin DOMAIN results
       /\ \A w \in Worker : Busy(w) => task[w] \notin DOMAIN results

(* The results of a scan are those of the scene, which does not change.    *)
ResultsTrue ==
  /\ scene \in Scenes /\ hints \in [Ray -> Nat]
  /\ next # -1 =>
       \A i \in DOMAIN results :
         /\ DOMAIN results[i] = Cluster(i)
         /\ \A r \in Cluster(i) : TrueEcho(results[i][r], scene[r])

IInv == PoolOK /\ NoLostWakeup /\ JobsOnce /\ ResultsTrue

LEMMA SceneIs ==
  ASSUME LaserAssumption, ResultsTrue, NEW r \in Ray
  PROVE  scene[r] \in SUBSET Hit /\ hints[r] \in Nat
BY DEF LaserAssumption, ResultsTrue, Hit

LEMMA InitialInvariant == LaserAssumption /\ Init => IInv
<1> SUFFICES ASSUME LaserAssumption, Init PROVE IInv
  OBVIOUS
<1>1. Clusters \in Nat
  BY ClustersAre
<1>2. PoolOK
  <2>1. /\ worker = [w \in Worker |-> "awake"] /\ task = [w \in Worker |-> NoJob]
        /\ tasks = << >> /\ signals = "none" /\ stop = FALSE
    BY DEF Init, PoolInit
  <2>2. /\ worker \in [Worker -> {"awake", "asleep", "busy", "gone"}]
        /\ task \in [Worker -> Job \cup {NoJob}]
    BY <2>1
  <2>3. tasks \in Seq(Job)
    BY <2>1
  <2>4. \A w \in Worker : worker[w] # "gone"
    BY <2>1
  <2> QED
    BY <2>1, <2>2, <2>3, <2>4 DEF PoolOK
<1>3. JobsOnce
  BY <1>1 DEF Init, PoolInit, JobsOnce, Busy
<1>4. ResultsTrue
  BY DEF Init, ResultsTrue, LaserAssumption
<1>5. NoLostWakeup
  BY DEF Init, PoolInit, NoLostWakeup
<1> QED
  BY <1>2, <1>3, <1>4, <1>5 DEF IInv

-----------------------------------------------------------------------------
LEMMA PlainStepsKeep ==
  ASSUME LaserAssumption, IInv, Move \/ BeforePhysicsStep \/ UNCHANGED vars
  PROVE  IInv'
<1>1. Clusters \in Nat
  BY ClustersAre
<1>2. UNCHANGED poolVars
  BY DEF Move, BeforePhysicsStep, vars
<1>3. PoolOK' /\ NoLostWakeup'
  BY <1>2 DEF poolVars, IInv, PoolOK, NoLostWakeup, Asleep
<1>4. CASE Move
  <2>1. JobsOnce'
    BY <1>2, <1>4 DEF poolVars, Move, IInv, JobsOnce, Busy
  <2>2. ResultsTrue'
    BY <1>4 DEF Move, IInv, ResultsTrue
  <2> QED
    BY <1>3, <2>1, <2>2 DEF IInv
<1>5. CASE BeforePhysicsStep
  <2>1. tasks' = << >> /\ (\A w \in Worker : ~Busy(w)')
    <3>1. \A i \in DOMAIN tasks : FALSE
      BY <1>5 DEF BeforePhysicsStep, IInv, JobsOnce
    <3>2. tasks = << >>
      <4>1. tasks \in Seq(Job)
        BY DEF IInv, PoolOK
      <4>2. Len(tasks) = 0
        BY <3>1, <4>1
      <4> QED
        BY <4>1, <4>2
    <3>3. \A w \in Worker : ~Busy(w)
      BY <1>5 DEF BeforePhysicsStep, IInv, JobsOnce
    <3> QED
      BY <1>2, <3>2, <3>3 DEF poolVars, Busy
  <2>2. JobsOnce'
    BY <1>1, <1>5, <2>1 DEF BeforePhysicsStep, JobsOnce
  <2>3. ResultsTrue'
    BY <1>5 DEF BeforePhysicsStep, IInv, ResultsTrue
  <2> QED
    BY <1>3, <2>2, <2>3 DEF IInv
<1>6. CASE UNCHANGED vars
  BY <1>3, <1>6 DEF vars, laserVars, poolVars, IInv, JobsOnce, Busy, ResultsTrue
<1> QED
  BY <1>4, <1>5, <1>6

LEMMA EnqueueClusterKeeps ==
  ASSUME LaserAssumption, IInv, EnqueueCluster
  PROVE  IInv'
<1>1. /\ next \in Job /\ next' = next + 1 /\ Clusters \in Nat
      /\ ~stop /\ tasks' = Append(tasks, next) /\ signals' = "one"
      /\ UNCHANGED <<worker, task, stop, scene, hints, results>>
  BY ClustersAre DEF EnqueueCluster, Enqueue, Job
<1>2. PoolOK'
  BY <1>1 DEF IInv, PoolOK
<1>3. NoLostWakeup'
  BY <1>1 DEF NoLostWakeup
<1>4. JobsOnce'
  <2>1. /\ DOMAIN tasks' = DOMAIN tasks \cup {Len(tasks) + 1}
        /\ \A i \in DOMAIN tasks : tasks'[i] = tasks[i] /\ i # Len(tasks) + 1
        /\ tasks'[Len(tasks) + 1] = next
    BY <1>1 DEF IInv, PoolOK
  <2>2. \A w \in Worker : Busy(w)' = Busy(w) /\ task'[w] = task[w]
    BY <1>1 DEF Busy
  <2>3. next \in Nat /\ next # -1 /\ next' # -1 /\ next' \in -1 .. Clusters
    BY <1>1 DEF Job
  <2>4. 0 .. next' - 1 = (0 .. next - 1) \cup {next} /\ next \notin 0 .. next - 1
    BY <1>1, <2>3
  <2> QED
    BY <1>1, <2>1, <2>2, <2>3, <2>4 DEF IInv, JobsOnce
<1>5. ResultsTrue'
  <2>1. next # -1
    BY <1>1 DEF Job
  <2> QED
    BY <1>1, <2>1 DEF IInv, ResultsTrue
<1> QED
  BY <1>2, <1>3, <1>4, <1>5 DEF IInv

LEMMA RunClusterKeeps ==
  ASSUME LaserAssumption, IInv, NEW w \in Worker, RunCluster(w)
  PROVE  IInv'
<1> DEFINE job == task[w]
<1>1. /\ Busy(w) /\ worker' = [worker EXCEPT ![w] = "awake"]
      /\ task' = [task EXCEPT ![w] = NoJob]
      /\ UNCHANGED <<tasks, signals, stop, scene, next>>
  BY DEF RunCluster, Return, Busy
<1>2. job \in Job /\ job \in 0 .. next - 1
  BY <1>1, ClustersAre DEF IInv, JobsOnce, Job
<1>3. Cluster(job) \subseteq Ray
  BY <1>2, ClustersAre DEF Job
<1>4. PICK echo :
        /\ DOMAIN echo = Cluster(job)
        /\ \A r \in Cluster(job) : echo[r] \in Cast(scene[r], hints[r])
        /\ hints' = [r \in Ray |-> IF r \in DOMAIN echo THEN echo[r].hint ELSE hints[r]]
        /\ results' = [i \in DOMAIN results \cup {job} |->
                         IF i = job THEN echo ELSE results[i]]
  BY DEF RunCluster
<1> HIDE DEF job
<1>5. \A r \in Cluster(job) : TrueEcho(echo[r], scene[r]) /\ echo[r].hint \in Nat
  <2> TAKE r \in Cluster(job)
  <2>1. r \in Ray
    BY <1>3
  <2>2. scene[r] \in SUBSET Hit /\ hints[r] \in Nat
    BY <2>1, SceneIs DEF IInv
  <2> QED
    BY <1>4, <2>2, CastIsTrue
<1>6. PoolOK'
  BY <1>1 DEF IInv, PoolOK
<1>7. NoLostWakeup'
  BY <1>1 DEF IInv, PoolOK, NoLostWakeup, Asleep, Busy
<1>8. JobsOnce'
  <2>1. \A v \in Worker : Busy(v)' => v # w /\ Busy(v) /\ task'[v] = task[v]
    BY <1>1 DEF IInv, PoolOK, Busy
  <2>2. DOMAIN results' = DOMAIN results \cup {job}
    BY <1>4
  <2>3. \A v \in Worker : Busy(v)' => task'[v] # job
    BY <1>1, <2>1 DEF IInv, JobsOnce, job
  <2>4. \A i \in DOMAIN tasks : tasks[i] # job
    BY <1>1 DEF IInv, JobsOnce, job
  <2> QED
    BY <1>1, <1>2, <2>1, <2>2, <2>3, <2>4 DEF IInv, JobsOnce
<1>9. ResultsTrue'
  <2>1. scene' = scene /\ next' = next
    BY <1>1
  <2>2. hints' \in [Ray -> Nat]
    BY <1>4, <1>5 DEF IInv, ResultsTrue
  <2>3. ASSUME next # -1, NEW i \in DOMAIN results'
        PROVE  /\ DOMAIN results'[i] = Cluster(i)
               /\ \A r \in Cluster(i) : TrueEcho(results'[i][r], scene[r])
    <3>1. CASE i = job
      BY <1>4, <1>5, <3>1
    <3>2. CASE i # job
      <4>1. i \in DOMAIN results /\ results'[i] = results[i]
        BY <1>4, <3>2
      <4> QED
        BY <2>3, <4>1 DEF IInv, ResultsTrue
    <3> QED
      BY <3>1, <3>2
  <2> QED
    BY <2>1, <2>2, <2>3 DEF IInv, ResultsTrue
<1> QED
  BY <1>6, <1>7, <1>8, <1>9 DEF IInv

(* When all clusters have reported, nothing is queued and nobody is busy.  *)
LEMMA PublishKeeps ==
  ASSUME LaserAssumption, IInv, Publish
  PROVE  IInv'
<1>1. /\ next = Clusters /\ next' = -1 /\ DOMAIN results = Job /\ Clusters \in Nat
      /\ UNCHANGED <<scene, hints, results>>
      /\ UNCHANGED poolVars
  BY ClustersAre DEF Publish, Job
<1>2. PoolOK' /\ NoLostWakeup'
  BY <1>1 DEF poolVars, IInv, PoolOK, NoLostWakeup, Asleep
<1>3. next # -1 /\ 0 .. next - 1 = Job
  BY <1>1 DEF Job
<1>4. DOMAIN tasks = {} /\ \A w \in Worker : ~Busy(w)
  BY <1>1, <1>3 DEF IInv, JobsOnce
<1>5. JobsOnce'
  BY <1>1, <1>4 DEF poolVars, JobsOnce, Busy
<1>6. ResultsTrue'
  BY <1>1 DEF IInv, ResultsTrue
<1> QED
  BY <1>2, <1>5, <1>6 DEF IInv

(* What the pool does to the queue and the workers.                        *)
LEMMA PoolStepsKeep ==
  ASSUME LaserAssumption, IInv, Pool \/ Delete
  PROVE  IInv'
<1>1. scene' = scene /\ hints' = hints /\ next' = next /\ results' = results
  BY DEF Pool, Delete, laserVars
<1>2. ResultsTrue'
  BY <1>1 DEF IInv, ResultsTrue
<1>3. CASE NotifyOne
  <2>1. PoolOK'
    BY <1>3 DEF NotifyOne, Asleep, IInv, PoolOK
  <2>2. \A w \in Worker : worker[w] # "gone"
    BY <1>3 DEF NotifyOne, IInv, PoolOK
  <2>3. \E w \in Worker : worker'[w] \in {"awake", "busy"}
    <3>1. CASE Asleep = {}
      BY <1>3, <2>2, <3>1 DEF NotifyOne, Asleep, IInv, PoolOK, LaserAssumption
    <3>2. CASE Asleep # {}
      BY <1>3, <3>2 DEF NotifyOne, Asleep, IInv, PoolOK
    <3> QED
      BY <3>1, <3>2
  <2>4. NoLostWakeup'
    BY <1>3, <2>3 DEF NotifyOne, IInv, PoolOK, NoLostWakeup
  <2>5. \A w \in Worker : Busy(w)' = Busy(w)
    BY <1>3 DEF NotifyOne, Asleep, Busy, IInv, PoolOK
  <2>6. JobsOnce'
    BY <1>1, <1>3, <2>5 DEF NotifyOne, IInv, JobsOnce
  <2> QED
    BY <1>2, <2>1, <2>4, <2>6 DEF IInv
<1>4. CASE NotifyAll
  <2>1. PoolOK'
    BY <1>4 DEF NotifyAll, Asleep, IInv, PoolOK
  <2>2. \A w \in Worker : worker'[w] # "asleep"
    BY <1>4 DEF NotifyAll, Asleep, IInv, PoolOK
  <2>3. NoLostWakeup'
    BY <2>1, <2>2 DEF PoolOK, NoLostWakeup, Asleep, LaserAssumption
  <2>4. \A w \in Worker : Busy(w)' = Busy(w)
    BY <1>4 DEF NotifyAll, Asleep, Busy, IInv, PoolOK
  <2>5. JobsOnce'
    BY <1>1, <1>4, <2>4 DEF NotifyAll, IInv, JobsOnce
  <2> QED
    BY <1>2, <2>1, <2>3, <2>5 DEF IInv
<1>5. CASE \E w \in Worker : Sleep(w) \/ Leave(w)
  <2>1. PICK w \in Worker : Sleep(w) \/ Leave(w)
    BY <1>5
  <2>2. tasks = << >> /\ tasks' = tasks /\ task' = task
    BY <2>1 DEF Sleep, Leave, Wakes
  <2>3. PoolOK'
    BY <2>1 DEF Sleep, Leave, Wakes, IInv, PoolOK
  <2>4. NoLostWakeup'
    BY <2>1 DEF Sleep, Leave, Wakes, IInv, PoolOK, NoLostWakeup, Asleep
  <2>5. \A v \in Worker : Busy(v)' = Busy(v)
    BY <2>1 DEF Sleep, Leave, Busy, IInv, PoolOK
  <2>6. JobsOnce'
    BY <1>1, <2>2, <2>5 DEF IInv, JobsOnce
  <2> QED
    BY <1>2, <2>3, <2>4, <2>6 DEF IInv
<1>6. CASE \E w \in Worker : Take(w)
  <2>1. PICK w \in Worker : Take(w)
    BY <1>6
  <2>2. /\ tasks \in Seq(Job) /\ tasks # << >>
        /\ worker[w] = "awake" /\ worker' = [worker EXCEPT ![w] = "busy"]
        /\ task' = [task EXCEPT ![w] = Head(tasks)] /\ tasks' = Tail(tasks)
        /\ signals' = signals /\ stop' = stop
    BY <2>1 DEF Take, IInv, PoolOK
  <2>3. /\ tasks' \in Seq(Job) /\ Head(tasks) = tasks[1] /\ 1 \in DOMAIN tasks
        /\ tasks[1] \in Job
        /\ \A i \in DOMAIN tasks' : /\ i + 1 \in DOMAIN tasks /\ i + 1 # 1
                                    /\ tasks'[i] = tasks[i + 1]
    BY <2>2
  <2>4. PoolOK'
    BY <2>2, <2>3 DEF IInv, PoolOK
  <2>5. NoLostWakeup'
    BY <2>2 DEF IInv, PoolOK, NoLostWakeup, Asleep
  <2>6. \A v \in Worker : IF v = w THEN ~Busy(v) /\ task'[v] = tasks[1]
                          ELSE Busy(v)' = Busy(v) /\ task'[v] = task[v]
    BY <2>2, <2>3 DEF Busy, IInv, PoolOK
  <2>7. \A i, j \in DOMAIN tasks' : i # j => i + 1 # j + 1
    BY <2>2
  <2>8. JobsOnce'
    <3>1. \A i, j \in DOMAIN tasks' : i # j => tasks'[i] # tasks'[j]
      BY <2>3, <2>7 DEF IInv, JobsOnce
    <3>2. \A i \in DOMAIN tasks' : tasks'[i] # tasks[1] /\ tasks'[i] \in 0 .. next - 1
      BY <2>3 DEF IInv, JobsOnce
    <3>3. \A v \in Worker : v # w /\ Busy(v)' => Busy(v) /\ task'[v] # tasks[1]
      BY <2>3, <2>6 DEF IInv, JobsOnce
    <3>4. \A i \in DOMAIN tasks', v \in Worker : Busy(v)' => tasks'[i] # task'[v]
      BY <2>3, <2>6, <3>2 DEF IInv, JobsOnce
    <3>5. \A u, v \in Worker : u # v /\ Busy(u)' /\ Busy(v)' => task'[u] # task'[v]
      BY <2>6, <3>3 DEF IInv, JobsOnce
    <3>6. \A v \in Worker : Busy(v)' => task'[v] \in 0 .. next - 1
      BY <2>3, <2>6 DEF IInv, JobsOnce
    <3>7. next # -1 =>
            /\ \A i \in DOMAIN tasks' : tasks'[i] \notin DOMAIN results
            /\ \A v \in Worker : Busy(v)' => task'[v] \notin DOMAIN results
      BY <2>3, <2>6 DEF IInv, JobsOnce
    <3> QED
      BY <1>1, <3>1, <3>2, <3>4, <3>5, <3>6, <3>7 DEF IInv, JobsOnce
  <2> QED
    BY <1>2, <2>4, <2>5, <2>8 DEF IInv
<1>7. CASE Delete
  <2>1. /\ stop' = TRUE /\ signals' = "all"
        /\ UNCHANGED <<tasks, worker, task>>
    BY <1>7 DEF Delete, Stop
  <2>2. PoolOK' /\ NoLostWakeup'
    BY <2>1 DEF IInv, PoolOK, NoLostWakeup
  <2>3. JobsOnce'
    BY <1>1, <2>1 DEF IInv, JobsOnce, Busy
  <2> QED
    BY <1>2, <2>2, <2>3 DEF IInv
<1> QED
  BY <1>3, <1>4, <1>5, <1>6, <1>7 DEF Pool, WorkerRuns

LEMMA StepKeepsInvariant ==
  LaserAssumption /\ IInv /\ [Next]_vars => IInv'
BY PlainStepsKeep, EnqueueClusterKeeps, RunClusterKeeps, PublishKeeps, PoolStepsKeep
   DEF Next

-----------------------------------------------------------------------------
LEMMA JobsStayApart == LaserAssumption /\ IInv => JobsApart
<1> SUFFICES ASSUME LaserAssumption, IInv PROVE JobsApart
  OBVIOUS
<1>1. Clusters \in Nat /\ next \in -1 .. Clusters
  BY ClustersAre DEF IInv, JobsOnce
<1>2. \A w \in Worker : worker[w] = "busy" => task[w] \in 0 .. Clusters - 1
  BY <1>1 DEF IInv, JobsOnce, Busy
<1>3. \A v, w \in Worker : v # w /\ worker[v] = "busy" /\ worker[w] = "busy" =>
        Cluster(task[v]) \cap Cluster(task[w]) = {}
  BY <1>2, ClustersDisjoint DEF IInv, JobsOnce, Busy
<1>4. next = -1 => tasks = << >> /\ \A w \in Worker : worker[w] # "busy"
  <2> SUFFICES ASSUME next = -1
               PROVE  tasks = << >> /\ \A w \in Worker : worker[w] # "busy"
    OBVIOUS
  <2>1. \A i \in DOMAIN tasks : FALSE
    BY DEF IInv, JobsOnce
  <2> QED
    BY <2>1 DEF IInv, PoolOK, JobsOnce, Busy
<1> QED
  BY <1>3, <1>4 DEF JobsApart

(* The clusters of a finished scan are those of all rays.                  *)
LEMMA PublishedIsTrue ==
  ASSUME LaserAssumption, IInv, Publish
  PROVE  DOMAIN scan' = Ray /\ \A r \in Ray : TrueEcho(scan'[r], scene[r])
<1> DEFINE rays == UNION {DOMAIN results[i] : i \in DOMAIN results}
           cluster(r) == CHOOSE i \in DOMAIN results : r \in DOMAIN results[i]
<1>1. /\ DOMAIN results = 0 .. Clusters - 1
      /\ scan' = [r \in rays |-> [range |-> results[cluster(r)][r].range,
                                  bright |-> results[cluster(r)][r].bright]]
  BY DEF Publish
<1>2. next # -1
  BY ClustersAre DEF Publish
<1>3. \A i \in DOMAIN results :
        /\ DOMAIN results[i] = Cluster(i)
        /\ \A r \in Cluster(i) : TrueEcho(results[i][r], scene[r])
  BY <1>2 DEF IInv, ResultsTrue
<1>4. rays = Ray
  BY <1>1, <1>3, ClustersAre
<1>5. ASSUME NEW r \in Ray PROVE TrueEcho(scan'[r], scene[r])
  <2>1. \E i \in DOMAIN results : r \in DOMAIN results[i]
    BY <1>1, <1>3, ClustersAre
  <2>2. cluster(r) \in DOMAIN results /\ r \in DOMAIN results[cluster(r)]
    BY <2>1
  <2> HIDE DEF cluster
  <2>3. TrueEcho(results[cluster(r)][r], scene[r])
    BY <1>3, <2>2
  <2>4. /\ scan'[r].range = results[cluster(r)][r].range
        /\ scan'[r].bright = results[cluster(r)][r].bright
    BY <1>1, <1>4
  <2> QED
    BY <2>3, <2>4 DEF TrueEcho
<1> QED
  BY <1>1, <1>4, <1>5

(* Whatever the obstacles, the number of rays and threads, and the order   *)
(* in which jobs run: a published scan shows the nearest obstacle of every *)
(* ray, no two jobs share a ray at one time, none outlives its scan, and   *)
(* no job in the queue waits for sleepers that nobody wakes (Laser,        *)
(* ThreadPool.h).                                                          *)
THEOREM ScansShowTheScene ==
  ASSUME LaserAssumption
  PROVE  Spec => ScansAreTrue
<1>1. Init => IInv
  BY InitialInvariant
<1>2. IInv /\ [Next]_vars => IInv'
  BY StepKeepsInvariant
<1>3. IInv => JobsApart /\ NoLostWakeup
  BY JobsStayApart DEF IInv
<1> DEFINE Shown == /\ DOMAIN scan' = Ray
                    /\ \A r \in Ray : TrueEcho(scan'[r], scene[r])
<1>4. IInv /\ [Next]_vars => [scan' # scan => Shown]_vars
  <2> SUFFICES ASSUME IInv, [Next]_vars, scan' # scan PROVE Shown
    OBVIOUS
  <2>1. Publish
    BY DEF Next, Move, BeforePhysicsStep, EnqueueCluster, Delete, Pool, RunCluster,
           vars, laserVars
  <2> QED
    BY <2>1, PublishedIsTrue
<1>5. Shown <=>
        /\ DOMAIN scan' = Ray
        /\ \A r \in Ray :
             LET hits == Between(scene[r], 0, MaxRange)
                 first == {h \in hits : h.at = Nearest(hits)}
             IN  IF hits = {} THEN scan'[r].range = Nan
                 ELSE /\ scan'[r].range = Nearest(hits)
                      /\ (\A h \in first : h.bright) => scan'[r].bright
  BY DEF TrueEcho
<1> HIDE DEF Shown
<1> QED
  BY <1>1, <1>2, <1>3, <1>4, <1>5, PTL DEF Spec, ScansAreTrue
=============================================================================
