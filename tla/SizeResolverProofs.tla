-------------------------- MODULE SizeResolverProofs --------------------------
(***************************************************************************)
(* Proofs that SizeResolver keeps its invariants, for every finite set of  *)
(* paths, any set of rows, and every value of the limits and intervals.    *)
(*                                                                         *)
(* The inductive invariant joins the invariants that the runs check with   *)
(* two facts that only the proof needs:                                    *)
(*   - QueueFits: the queue itself is within its limit, from which the     *)
(*     bound on m_inFlight follows because m_inFlight is exact;            *)
(*   - HitIsShown: a row that is still in queue_refresh_if_due shows the   *)
(*     size it hit, so that what that call returns may be ignored.         *)
(***************************************************************************)
EXTENDS SizeResolver, SizeCacheProofs, SequenceTheorems

QueueFits == Len(m_queue) <= MAX_PENDING_REQUESTS

HitIsShown == \A r \in Row : rowPc[r] \in {"refresh", "force"} => shown[r] \in Size

QueueInv == InFlightIsWork /\ QueueFits /\ FailedIsNotInFlight

ResolverInv == /\ ResolverTypeOK
               /\ CacheWithinLimits
               /\ QueueInv
               /\ HitIsShown
               /\ PendingIsBacked

(* What ResolverTypeOK says of the variables that requests change.         *)
QueueTypeOK ==
  /\ m_queue \in Seq(Key)
  /\ m_inFlight \in SUBSET Key
  /\ m_forceRefresh \in SUBSET Key
  /\ DOMAIN m_recentFailures \in SUBSET Key
  /\ \A k \in DOMAIN m_recentFailures : m_recentFailures[k] \in FailureAge

-----------------------------------------------------------------------------
(* The resolver's key for a row is the cache's key for it.                 *)
LEMMA RowKeyAgrees ==
  /\ \A r \in Row : /\ PathOf[r] \in Path
                    /\ RowKey(r) \in Key
                    /\ RequestOf[PathOf[r]] = RowKey(r)
  /\ \A k \in Key : k \in Path \cup Key /\ KeyOf[k] = k
<1>1. ASSUME NEW r \in Row
      PROVE  /\ PathOf[r] \in Path
             /\ RowKey(r) \in Key
             /\ RequestOf[PathOf[r]] = RowKey(r)
  <2>1. PathOf[r] \in Path
    BY ResolverAssumption
  <2>2. RowKey(r) \in Key /\ RowKey(r) = CacheKey(PathOf[r])
    BY <2>1, KeyOfPath DEF RowKey
  <2>3. RequestOf[PathOf[r]] = RequestKey(PathOf[r])
    BY <2>1 DEF RequestOf
  <2> QED
    BY <2>1, <2>2, <2>3, PathsAreKept
<1> QED
  BY <1>1, KeyOfPath

LEMMA HitType ==
  ASSUME CacheTypeOK, NEW k
  PROVE  Hit(k) \in Size \cup {NoSize}
BY DEF Hit, Fresh, CacheTypeOK, Entry

(* The queue as a set, and without duplicates.                             *)
Distinct(q) == \A i, j \in DOMAIN q : q[i] = q[j] => i = j

LEMMA AppendToQueue ==
  ASSUME NEW q \in Seq(Key), NEW k \in Key
  PROVE  /\ Append(q, k) \in Seq(Key)
         /\ Len(Append(q, k)) = Len(q) + 1
         /\ Range(Append(q, k)) = Range(q) \cup {k}
         /\ Distinct(q) /\ k \notin Range(q) => Distinct(Append(q, k))
<1>1. /\ Append(q, k) \in Seq(Key) /\ Len(Append(q, k)) = Len(q) + 1 /\ Len(q) \in Nat
      /\ DOMAIN q = 1 .. Len(q) /\ DOMAIN Append(q, k) = 1 .. Len(q) + 1
      /\ \A i \in 1 .. Len(q) : Append(q, k)[i] = q[i]
      /\ Append(q, k)[Len(q) + 1] = k
  OBVIOUS
<1>2. Range(Append(q, k)) = Range(q) \cup {k}
  <2>1. \A i \in 1 .. Len(q) + 1 : i \in 1 .. Len(q) \/ i = Len(q) + 1
    BY <1>1
  <2>2. Len(q) + 1 \in DOMAIN Append(q, k) /\ DOMAIN q \subseteq DOMAIN Append(q, k)
    BY <1>1
  <2> QED
    BY <1>1, <2>1, <2>2 DEF Range
<1>3. ASSUME Distinct(q), k \notin Range(q)
      PROVE  Distinct(Append(q, k))
  <2>1. \A i \in 1 .. Len(q) : q[i] # k
    BY <1>1, <1>3 DEF Range
  <2> QED
    BY <1>1, <1>3, <2>1 DEF Distinct
<1> QED
  BY <1>1, <1>2, <1>3

LEMMA TakeFromQueue ==
  ASSUME NEW q \in Seq(Key), q # <<>>
  PROVE  /\ Head(q) \in Key
         /\ Tail(q) \in Seq(Key)
         /\ Len(Tail(q)) = Len(q) - 1
         /\ Range(q) = Range(Tail(q)) \cup {Head(q)}
         /\ Distinct(q) => Distinct(Tail(q)) /\ Head(q) \notin Range(Tail(q))
<1>1. /\ Len(q) \in Nat \ {0} /\ DOMAIN q = 1 .. Len(q)
      /\ Head(q) = q[1] /\ Head(q) \in Key
      /\ Tail(q) \in Seq(Key) /\ Len(Tail(q)) = Len(q) - 1
      /\ DOMAIN Tail(q) = 1 .. Len(q) - 1
      /\ \A i \in 1 .. Len(q) - 1 : Tail(q)[i] = q[i + 1]
  BY EmptySeq, HeadTailProperties, LenProperties
<1>2. \A i \in DOMAIN q : i = 1 \/ (i - 1 \in DOMAIN Tail(q) /\ q[i] = Tail(q)[i - 1])
  BY <1>1
<1>3. 1 \in DOMAIN q /\ \A i \in DOMAIN Tail(q) : i + 1 \in DOMAIN q /\ Tail(q)[i] = q[i + 1]
  BY <1>1
<1>4. Range(q) = Range(Tail(q)) \cup {Head(q)}
  <2>1. ASSUME NEW i \in DOMAIN q
        PROVE  q[i] = Head(q) \/ \E j \in DOMAIN Tail(q) : q[i] = Tail(q)[j]
    BY <1>1, <1>2
  <2>2. ASSUME NEW j \in DOMAIN Tail(q)
        PROVE  \E i \in DOMAIN q : Tail(q)[j] = q[i]
    BY <1>3
  <2>3. Head(q) = q[1] /\ 1 \in DOMAIN q
    BY <1>1, <1>3
  <2> QED
    BY <2>1, <2>2, <2>3 DEF Range
<1>5. ASSUME Distinct(q)
      PROVE  Distinct(Tail(q)) /\ Head(q) \notin Range(Tail(q))
  <2>1. ASSUME NEW i \in DOMAIN Tail(q), NEW j \in DOMAIN Tail(q), Tail(q)[i] = Tail(q)[j]
        PROVE  i = j
    <3>1. i + 1 = j + 1
      BY <1>3, <1>5, <2>1 DEF Distinct
    <3> QED
      BY <1>1, <3>1
  <2>2. ASSUME NEW i \in DOMAIN Tail(q), Tail(q)[i] = Head(q)
        PROVE  FALSE
    <3>1. i + 1 = 1
      BY <1>1, <1>3, <1>5, <2>2 DEF Distinct
    <3> QED
      BY <1>1, <3>1
  <2> QED
    BY <2>1, <2>2 DEF Distinct, Range
<1> QED
  BY <1>1, <1>4, <1>5

-----------------------------------------------------------------------------
(* queue_background_resolution, whichever of its returns it takes: the     *)
(* queue, the set that deduplicates it and the failures stay consistent,   *)
(* nothing leaves m_inFlight, and "accepted" means the key is in it.       *)
LEMMA QueueRequest ==
  ASSUME ResolverTypeOK, QueueInv,
         NEW k \in Key, NEW force \in BOOLEAN, NEW accepted \in BOOLEAN,
         QueueBackgroundResolution(k, force, accepted),
         UNCHANGED <<workerPath, workerSize>>
  PROVE  /\ QueueTypeOK' /\ QueueInv'
         /\ m_inFlight \subseteq m_inFlight'
         /\ accepted => k \in m_inFlight'
         /\ workerPc' = workerPc \/ (workerPc = "unstarted" /\ workerPc' = "waiting")
<1> USE DEF QueueInv
<1>1. QueueTypeOK
  BY DEF ResolverTypeOK, QueueTypeOK
<1>2. /\ DOMAIN Without(m_recentFailures, {k}) = DOMAIN m_recentFailures \ {k}
      /\ \A q \in DOMAIN m_recentFailures \ {k} :
           Without(m_recentFailures, {k})[q] = m_recentFailures[q]
  BY WithoutDef
<1>3. CASE Refuse(k) /\ ~accepted
  BY <1>1, <1>3
  DEF Refuse, queueVars, QueueTypeOK, InFlightIsWork, Work, Running, QueueFits,
      FailedIsNotInFlight
<1>4. CASE JoinInFlight(k, force) /\ accepted
  <2>1. UNCHANGED <<m_queue, m_inFlight, workerPc>> /\ k \in m_inFlight
    BY <1>4 DEF JoinInFlight
  <2>2. m_recentFailures' = Without(m_recentFailures, {k})
    BY <1>4 DEF JoinInFlight
  <2>3. m_forceRefresh' \in SUBSET Key
    BY <1>1, <1>4 DEF JoinInFlight, QueueTypeOK
  <2>4. QueueTypeOK'
    BY <1>1, <1>2, <2>1, <2>2, <2>3 DEF QueueTypeOK
  <2>5. QueueInv'
    BY <1>2, <2>1, <2>2
    DEF InFlightIsWork, Work, Running, QueueFits, FailedIsNotInFlight
  <2> QED
    BY <2>1, <2>4, <2>5
<1>5. CASE Overflow(k) /\ ~accepted
  <2>1. /\ UNCHANGED <<m_queue, m_inFlight, m_forceRefresh, workerPc>>
        /\ m_recentFailures' = Without(m_recentFailures, {k})
    BY <1>5 DEF Overflow, queueVars
  <2>2. QueueTypeOK'
    BY <1>1, <1>2, <2>1 DEF QueueTypeOK
  <2>3. QueueInv'
    BY <1>2, <2>1
    DEF InFlightIsWork, Work, Running, QueueFits, FailedIsNotInFlight
  <2> QED
    BY <1>5, <2>1, <2>2, <2>3
<1>6. CASE Enqueue(k, force) /\ accepted
  <2>1. /\ k \notin m_inFlight
        /\ Len(m_queue) < MAX_PENDING_REQUESTS
        /\ m_recentFailures' = Without(m_recentFailures, {k})
        /\ m_queue' = Append(m_queue, k)
        /\ m_inFlight' = m_inFlight \cup {k}
    BY <1>6 DEF Enqueue
  <2>2. workerPc' = workerPc \/ (workerPc = "unstarted" /\ workerPc' = "waiting")
    BY <1>6 DEF Enqueue, EnsureWorkerStarted
  <2>3. m_forceRefresh' \in SUBSET Key
    BY <1>1, <1>6 DEF Enqueue, QueueTypeOK
  <2>4. /\ m_queue' \in Seq(Key) /\ Len(m_queue') = Len(m_queue) + 1
        /\ Range(m_queue') = Range(m_queue) \cup {k}
        /\ Distinct(m_queue) /\ k \notin Range(m_queue) => Distinct(m_queue')
    BY <1>1, <2>1, AppendToQueue DEF QueueTypeOK
  <2>5. QueueTypeOK'
    BY <1>1, <1>2, <2>1, <2>2, <2>3, <2>4 DEF QueueTypeOK
  <2>6. InFlightIsWork'
    <3>1. Running' = Running
      BY <2>2 DEF Running
    <3>2. k \notin Range(m_queue) /\ (Running => workerPath # k)
      BY <2>1 DEF InFlightIsWork, Work
    <3>3. Distinct(m_queue')
      BY <2>4, <3>2 DEF InFlightIsWork, Distinct
    <3>4. m_inFlight' = Work'
      BY <2>1, <2>4, <3>1 DEF InFlightIsWork, Work
    <3>5. Running' => workerPath' \notin Range(m_queue')
      BY <2>4, <3>1, <3>2 DEF InFlightIsWork
    <3> QED
      BY <3>3, <3>4, <3>5 DEF InFlightIsWork, Distinct
  <2>7. QueueFits'
    <3>1. Len(m_queue) \in Nat
      BY <1>1, LenProperties DEF QueueTypeOK
    <3> QED
      BY <2>1, <2>4, <3>1, ResolverAssumption DEF QueueFits
  <2>8. FailedIsNotInFlight'
    BY <1>2, <2>1 DEF FailedIsNotInFlight
  <2> QED
    BY <2>1, <2>2, <2>5, <2>6, <2>7, <2>8
<1> QED
  BY <1>3, <1>4, <1>5, <1>6 DEF QueueBackgroundResolution

-----------------------------------------------------------------------------
(* Initially all of it holds: nothing is cached, queued or remembered.     *)
LEMMA InitEstablishesInv == ResolverInit => ResolverInv
<1> SUFFICES ASSUME ResolverInit
             PROVE  ResolverInv
  OBVIOUS
<1> USE ResolverAssumption, CacheAssumption DEF ResolverInit, CacheInit
<1>1. /\ DOMAIN m_cache = {} /\ DOMAIN m_recentFailures = {} /\ DOMAIN m_recentRefreshes = {}
      /\ DOMAIN m_queue = {} /\ Len(m_queue) = 0 /\ m_queue \in Seq(Key)
      /\ Range(m_queue) = {}
  BY EmptySeq DEF Range
<1>2. ~Running /\ workerPc = "unstarted"
  BY DEF Running
<1>3. ResolverTypeOK
  <2>1. CacheTypeOK
    BY <1>1 DEF CacheTypeOK
  <2>2. /\ rowClock \in [Row -> Clock]
        /\ shown \in [Row -> Shown]
        /\ rowPc \in [Row -> {"idle", "queue", "refresh", "force"}]
        /\ dirty \in [Row -> BOOLEAN]
    BY DEF Clock, Shown
  <2>3. /\ DOMAIN m_recentFailures \in SUBSET Key
        /\ \A k \in DOMAIN m_recentFailures : m_recentFailures[k] \in FailureAge
        /\ DOMAIN m_recentRefreshes \in SUBSET Key
        /\ \A k \in DOMAIN m_recentRefreshes : m_recentRefreshes[k] \in RefreshAge
    BY <1>1
  <2>4. /\ m_inFlight \in SUBSET Key /\ m_forceRefresh \in SUBSET Key
        /\ workerPc \in WorkerPcs /\ workerPath \in Key \cup {<<>>} /\ effectivePath = <<>>
        /\ workerSize \in Size \cup {NoSize}
    BY DEF WorkerPcs
  <2> QED
    BY <1>1, <1>2, <2>1, <2>2, <2>3, <2>4 DEF ResolverTypeOK
<1>4. CacheWithinLimits
  <2>1. Cardinality(DOMAIN m_cache) = 0
    BY <1>1, FS_EmptySet, Zenon
  <2> QED
    BY <2>1 DEF CacheWithinLimits
<1>5. QueueInv
  BY <1>1, <1>2 DEF QueueInv, InFlightIsWork, Work, QueueFits, FailedIsNotInFlight
<1>6. HitIsShown /\ PendingIsBacked
  BY DEF HitIsShown, PendingIsBacked
<1> QED
  BY <1>3, <1>4, <1>5, <1>6 DEF ResolverInv

(* ResolverTypeOK, action by action.                                       *)
LEMMA StepKeepsType ==
  ResolverTypeOK /\ QueueInv /\ [ResolverNext]_resolverVars => ResolverTypeOK'
<1> SUFFICES ASSUME ResolverTypeOK, QueueInv, [ResolverNext]_resolverVars
             PROVE  ResolverTypeOK'
  OBVIOUS
<1> USE DEF ResolverTypeOK, queueVars, workerVars, historyVars, rowVars
<1>1. ASSUME NEW r \in Row, StartQuery(r)
      PROVE  ResolverTypeOK'
  <2>1. CacheTypeOK'
    BY <1>1, RowKeyAgrees, GetKeepsType DEF StartQuery
  <2>2. Hit(RowKey(r)) # NoSize => Hit(RowKey(r)) \in Shown
    BY HitType DEF Shown
  <2>3. /\ rowPc' \in [Row -> {"idle", "queue", "refresh", "force"}]
        /\ shown' \in [Row -> Shown]
        /\ dirty' \in [Row -> BOOLEAN]
    BY <1>1, <2>2 DEF StartQuery
  <2> QED
    BY <1>1, <2>1, <2>3 DEF StartQuery, Running
<1>2. ASSUME NEW k \in Key, NEW force \in BOOLEAN, NEW accepted \in BOOLEAN,
             QueueBackgroundResolution(k, force, accepted),
             UNCHANGED <<m_cache, workerPath, effectivePath, workerSize, m_recentRefreshes, rowClock,
                         dirty>>,
             rowPc' \in [Row -> {"idle", "queue", "refresh", "force"}],
             shown' \in [Row -> Shown]
      PROVE  ResolverTypeOK'
  <2>1. /\ QueueTypeOK'
        /\ workerPc' = workerPc \/ (workerPc = "unstarted" /\ workerPc' = "waiting")
    BY <1>2, QueueRequest
  <2>2. CacheTypeOK'
    BY <1>2 DEF CacheTypeOK
  <2>3. /\ workerPc' \in WorkerPcs
        /\ Running' \/ workerPc' = "notify" => workerPath' \in Key
        /\ workerPc' = "store" => workerSize' \in Size
        /\ workerPc' = "scan" => effectivePath' \in Path \cup Key /\ HasDrive(effectivePath')
    BY <1>2, <2>1 DEF WorkerPcs, Running
  <2> QED
    BY <1>2, <2>1, <2>2, <2>3 DEF QueueTypeOK
<1>3. ASSUME NEW r \in Row, QueueMiss(r)
      PROVE  ResolverTypeOK'
  <2>1. PICK accepted \in BOOLEAN :
          /\ QueueBackgroundResolution(RequestOf[PathOf[r]], FALSE, accepted)
          /\ shown' = [shown EXCEPT ![r] = IF accepted THEN Pending ELSE Blank]
    BY <1>3 DEF QueueMiss
  <2>2. RequestOf[PathOf[r]] \in Key
    BY RowKeyAgrees
  <2>3. /\ rowPc' \in [Row -> {"idle", "queue", "refresh", "force"}]
        /\ shown' \in [Row -> Shown]
    BY <1>3, <2>1 DEF QueueMiss, Shown
  <2> QED
    BY <1>2, <1>3, <2>1, <2>2, <2>3 DEF QueueMiss
<1>4. ASSUME NEW r \in Row, QueueRefresh(r)
      PROVE  ResolverTypeOK'
  <2>1. PICK accepted \in BOOLEAN :
          QueueBackgroundResolution(RequestOf[PathOf[r]], TRUE, accepted)
    BY <1>4 DEF QueueRefresh
  <2>2. RequestOf[PathOf[r]] \in Key
    BY RowKeyAgrees
  <2>3. /\ rowPc' \in [Row -> {"idle", "queue", "refresh", "force"}]
        /\ shown' \in [Row -> Shown]
    BY <1>4 DEF QueueRefresh
  <2> QED
    BY <1>2, <1>4, <2>1, <2>2, <2>3 DEF QueueRefresh
<1>5. ASSUME NEW r \in Row, NEW since \in 0 .. rowClock[r], TakeRefreshSlot(r, since)
      PROVE  ResolverTypeOK'
  <2>1. since \in RefreshAge
    <3>1. rowClock[r] \in 0 .. MaxDelay
      BY DEF Clock
    <3> QED
      BY <3>1, ResolverAssumption DEF RefreshAge
  <2>2. RequestOf[PathOf[r]] \in Key
    BY RowKeyAgrees
  <2>3. /\ DOMAIN m_recentRefreshes' \in SUBSET Key
        /\ \A q \in DOMAIN m_recentRefreshes' : m_recentRefreshes'[q] \in RefreshAge
    BY <1>5, <2>1, <2>2 DEF TakeRefreshSlot, RestrictDomain, Restrict
  <2>4. /\ rowPc' \in [Row -> {"idle", "queue", "refresh", "force"}]
        /\ rowClock' \in [Row -> Clock]
    BY <1>5, ResolverAssumption DEF TakeRefreshSlot, Clock
  <2> QED
    BY <1>5, <2>3, <2>4 DEF TakeRefreshSlot, CacheTypeOK, Running
<1>6. CASE Dequeue
  <2>1. /\ Head(m_queue) \in Key /\ Tail(m_queue) \in Seq(Key)
    BY <1>6, TakeFromQueue DEF Dequeue
  <2>2. CacheTypeOK'
    BY <1>6 DEF Dequeue, CacheTypeOK
  <2> QED
    BY <1>6, <2>1, <2>2 DEF Dequeue, Running, WorkerPcs
<1>7. CASE Lookup
  <2>1. workerPath \in Key
    BY <1>7 DEF Lookup, Running
  <2>2. CacheTypeOK'
    BY <1>7, <2>1, GetKeepsType DEF Lookup
  <2>3. workerSize' \in Size \cup {NoSize}
    BY <1>7, HitType DEF Lookup
  <2> QED
    BY <1>7, <2>1, <2>2, <2>3 DEF Lookup, Running, WorkerPcs
<1>8. CASE ResolveReparse
  <2>1. workerPath \in Key /\ workerPc' \in {"scan", "finish"}
    BY <1>8 DEF ResolveReparse, Running
  <2>2. /\ effectivePath' \in Path \cup Key \cup {<<>>}
        /\ workerPc' = "scan" => effectivePath' \in Path \cup Key /\ HasDrive(effectivePath')
    BY <1>8, <2>1, ResolverAssumption DEF ResolveReparse
  <2> QED
    BY <1>8, <2>1, <2>2 DEF ResolveReparse, CacheTypeOK, Running, WorkerPcs
<1>9. ASSUME NEW size \in Size \cup {NoSize}, Scan(size)
       PROVE  ResolverTypeOK'
  BY <1>9 DEF Scan, CacheTypeOK, Running, WorkerPcs
<1>10. CASE Store
  <2>1. workerPath \in Key /\ workerSize \in Size
    BY <1>10 DEF Store, Running
  <2>2. CacheTypeOK'
    BY <1>10, <2>1, PutKeepsType DEF Store
  <2> QED
    BY <1>10, <2>1, <2>2 DEF Store, Running, WorkerPcs
<1>11. CASE Finish
  <2>1. workerPath \in Key
    BY <1>11 DEF Finish, Running
  <2>2. /\ DOMAIN m_recentFailures' \in SUBSET Key
        /\ \A k \in DOMAIN m_recentFailures' : m_recentFailures'[k] \in FailureAge
    <3>1. CASE workerSize # NoSize
      BY <1>11, <3>1 DEF Finish, Without, Restrict
    <3>2. CASE workerSize = NoSize
      BY <1>11, <2>1, <3>2, ResolverAssumption DEF Finish, FailureAge
    <3> QED
      BY <3>1, <3>2
  <2> QED
    BY <1>11, <2>1, <2>2 DEF Finish, CacheTypeOK, Running, WorkerPcs
<1>12. CASE NotifyShellItemChanged
  <2>1. dirty' \in [Row -> BOOLEAN]
    BY <1>12 DEF NotifyShellItemChanged, UpdateItem
  <2> QED
    BY <1>12, <2>1 DEF NotifyShellItemChanged, CacheTypeOK, Running, WorkerPcs
<1>13. CASE Tick
  <2>1. CacheTypeOK'
    BY <1>13, TickKeepsType DEF Tick
  <2>2. /\ DOMAIN m_recentFailures' \in SUBSET Key
        /\ \A k \in DOMAIN m_recentFailures' : m_recentFailures'[k] \in FailureAge
    BY <1>13, ResolverAssumption DEF Tick, UpTo, FailureAge
  <2>3. /\ DOMAIN m_recentRefreshes' \in SUBSET Key
        /\ \A k \in DOMAIN m_recentRefreshes' : m_recentRefreshes'[k] \in RefreshAge
    BY <1>13, ResolverAssumption DEF Tick, UpTo, RefreshAge
  <2>4. rowClock' \in [Row -> Clock]
    BY <1>13, ResolverAssumption DEF Tick, Clock
  <2> QED
    BY <1>13, <2>1, <2>2, <2>3, <2>4 DEF Tick, Running
<1>14. CASE UNCHANGED resolverVars
  BY <1>14 DEF resolverVars, CacheTypeOK, Running
<1> QED
  BY <1>1, <1>3, <1>4, <1>5, <1>6, <1>7, <1>8, <1>9, <1>10, <1>11, <1>12, <1>13, <1>14
  DEF ResolverNext, RowStep, WorkerStep

-----------------------------------------------------------------------------
(* CacheWithinLimits: of all steps only Store adds an entry.               *)
LEMMA StepKeepsLimits ==
  ResolverTypeOK /\ CacheWithinLimits /\ [ResolverNext]_resolverVars => CacheWithinLimits'
<1> SUFFICES ASSUME ResolverTypeOK, CacheWithinLimits, [ResolverNext]_resolverVars
             PROVE  CacheWithinLimits'
  OBVIOUS
<1>1. CacheTypeOK
  BY DEF ResolverTypeOK
<1>2. ASSUME NEW r \in Row, StartQuery(r)
      PROVE  CacheWithinLimits'
  BY <1>1, <1>2, RowKeyAgrees, GetKeepsType, FewerEntriesKeepLimits DEF StartQuery
<1>3. CASE Lookup
  <2>1. workerPath \in Key
    BY <1>3 DEF Lookup, ResolverTypeOK, Running
  <2> QED
    BY <1>1, <1>3, <2>1, GetKeepsType, FewerEntriesKeepLimits DEF Lookup
<1>4. CASE Store
  <2>1. workerPath \in Key /\ workerSize \in Size
    BY <1>4 DEF Store, ResolverTypeOK, Running
  <2> QED
    BY <1>1, <1>4, <2>1, PutKeepsLimits DEF Store
<1>5. CASE Tick
  BY <1>1, <1>5, TickKeepsType, FewerEntriesKeepLimits DEF Tick
<1>6. CASE UNCHANGED m_cache
  BY <1>6 DEF CacheWithinLimits
<1>7. \/ \E r \in Row : StartQuery(r)
      \/ Lookup \/ Store \/ Tick
      \/ UNCHANGED m_cache
  BY DEF ResolverNext, RowStep, WorkerStep, resolverVars, QueueMiss, TakeRefreshSlot,
         QueueRefresh, Dequeue, ResolveReparse, Scan, Finish,
         NotifyShellItemChanged
<1> QED
  BY <1>2, <1>3, <1>4, <1>5, <1>6, <1>7

(* The queue, m_inFlight and the failures: requests are QueueRequest's     *)
(* affair, Dequeue moves a key from the queue to the worker and Finish     *)
(* drops it from the worker and from m_inFlight at once.                   *)
LEMMA StepKeepsQueue ==
  ResolverTypeOK /\ QueueInv /\ [ResolverNext]_resolverVars => QueueInv'
<1> SUFFICES ASSUME ResolverTypeOK, QueueInv, [ResolverNext]_resolverVars
             PROVE  QueueInv'
  OBVIOUS
<1> USE DEF queueVars, workerVars, historyVars, rowVars
<1>1. ASSUME NEW r \in Row, QueueMiss(r) \/ QueueRefresh(r)
      PROVE  QueueInv'
  <2>1. \E force, accepted \in BOOLEAN :
          QueueBackgroundResolution(RequestOf[PathOf[r]], force, accepted)
    BY <1>1 DEF QueueMiss, QueueRefresh
  <2>2. RequestOf[PathOf[r]] \in Key
    BY RowKeyAgrees
  <2>3. UNCHANGED <<workerPath, workerSize>>
    BY <1>1 DEF QueueMiss, QueueRefresh
  <2> QED
    BY <2>1, <2>2, <2>3, QueueRequest
<1>2. CASE Dequeue
  <2>1. /\ m_queue \in Seq(Key) /\ m_queue # <<>>
        /\ m_queue' = Tail(m_queue) /\ workerPath' = Head(m_queue)
        /\ ~Running /\ Running'
        /\ UNCHANGED <<m_inFlight, m_recentFailures>>
    BY <1>2 DEF Dequeue, ResolverTypeOK, Running
  <2>2. /\ Len(m_queue') = Len(m_queue) - 1
        /\ Range(m_queue) = Range(m_queue') \cup {workerPath'}
        /\ Distinct(m_queue) => Distinct(m_queue') /\ workerPath' \notin Range(m_queue')
    BY <2>1, TakeFromQueue
  <2>3. Distinct(m_queue) /\ m_inFlight = Range(m_queue)
    BY <2>1 DEF QueueInv, InFlightIsWork, Work, Distinct
  <2>4. InFlightIsWork'
    BY <2>1, <2>2, <2>3 DEF InFlightIsWork, Work, Distinct
  <2>5. QueueFits'
    BY <2>1, <2>2, LenProperties, ResolverAssumption DEF QueueInv, QueueFits
  <2>6. FailedIsNotInFlight'
    BY <2>1 DEF QueueInv, FailedIsNotInFlight
  <2> QED
    BY <2>4, <2>5, <2>6 DEF QueueInv
<1>3. CASE Finish
  <2>1. /\ Running /\ ~Running'
        /\ m_inFlight' = m_inFlight \ {workerPath}
        /\ UNCHANGED m_queue
    BY <1>3 DEF Finish, Running
  <2>2. DOMAIN m_recentFailures' \subseteq DOMAIN m_recentFailures \cup {workerPath}
    BY <1>3 DEF Finish, Without, Restrict
  <2> QED
    BY <2>1, <2>2 DEF QueueInv, InFlightIsWork, Work, QueueFits, FailedIsNotInFlight
<1>4. CASE NotifyShellItemChanged
  BY <1>4
  DEF NotifyShellItemChanged, QueueInv, InFlightIsWork, Work, Running, QueueFits,
      FailedIsNotInFlight
<1>5. CASE Tick
  <2>1. DOMAIN m_recentFailures' = DOMAIN m_recentFailures
    BY <1>5 DEF Tick
  <2> QED
    BY <1>5, <2>1
    DEF Tick, QueueInv, InFlightIsWork, Work, Running, QueueFits, FailedIsNotInFlight
<1> DEFINE Apart == /\ UNCHANGED <<m_queue, m_inFlight, m_recentFailures, workerPath>>
                    /\ Running' = Running
<1>6. CASE Apart
  BY <1>6 DEF QueueInv, InFlightIsWork, Work, QueueFits, FailedIsNotInFlight
<1>7. ASSUME \/ \E r \in Row : \/ StartQuery(r)
                               \/ \E since \in 0 .. rowClock[r] : TakeRefreshSlot(r, since)
             \/ Lookup \/ ResolveReparse
             \/ \E size \in Size \cup {NoSize} : Scan(size)
             \/ Store
             \/ UNCHANGED resolverVars
      PROVE  Apart
  <2>1. CASE \E r \in Row : StartQuery(r)
    BY <2>1 DEF StartQuery, Running
  <2>2. CASE \E r \in Row : \E since \in 0 .. rowClock[r] : TakeRefreshSlot(r, since)
    BY <2>2 DEF TakeRefreshSlot, Running
  <2>3. CASE Lookup \/ Store
    BY <2>3 DEF Lookup, Store, Running
  <2>4. CASE ResolveReparse
    BY <2>4 DEF ResolveReparse, Running
  <2>5. CASE \E size \in Size \cup {NoSize} : Scan(size)
    BY <2>5 DEF Scan, Running
  <2>6. CASE UNCHANGED resolverVars
    BY <2>6 DEF resolverVars, Running
  <2> QED
    BY <1>7, <2>1, <2>2, <2>3, <2>4, <2>5, <2>6
<1> QED
  BY <1>1, <1>2, <1>3, <1>4, <1>5, <1>6, <1>7 DEF ResolverNext, RowStep, WorkerStep

(* A hit leaves the row showing the size, until the row's next query.      *)
LEMMA StepKeepsHit ==
  ResolverTypeOK /\ HitIsShown /\ [ResolverNext]_resolverVars => HitIsShown'
<1> SUFFICES ASSUME ResolverTypeOK, HitIsShown, [ResolverNext]_resolverVars,
                    NEW s \in Row, rowPc'[s] \in {"refresh", "force"}
             PROVE  shown'[s] \in Size
  BY DEF HitIsShown
<1> USE DEF queueVars, workerVars, historyVars, rowVars
<1>1. rowPc \in [Row -> {"idle", "queue", "refresh", "force"}] /\ shown \in [Row -> Shown]
  BY DEF ResolverTypeOK
<1>2. ASSUME NEW r \in Row, StartQuery(r)
      PROVE  shown'[s] \in Size
  <2>1. Hit(RowKey(r)) \in Size \cup {NoSize}
    BY HitType DEF ResolverTypeOK
  <2> QED
    BY <1>1, <1>2, <2>1 DEF StartQuery, HitIsShown
<1>3. ASSUME NEW r \in Row, QueueMiss(r)
      PROVE  shown'[s] \in Size
  BY <1>1, <1>3 DEF QueueMiss, HitIsShown
<1>4. ASSUME NEW r \in Row, NEW since \in 0 .. rowClock[r], TakeRefreshSlot(r, since)
      PROVE  shown'[s] \in Size
  BY <1>1, <1>4 DEF TakeRefreshSlot, HitIsShown
<1>5. ASSUME NEW r \in Row, QueueRefresh(r)
      PROVE  shown'[s] \in Size
  BY <1>1, <1>5 DEF QueueRefresh, HitIsShown
<1>6. CASE UNCHANGED <<rowPc, shown>>
  BY <1>6 DEF HitIsShown
<1>7. \/ \E r \in Row : StartQuery(r) \/ RowStep(r)
      \/ UNCHANGED <<rowPc, shown>>
  BY DEF ResolverNext, WorkerStep, resolverVars, Dequeue, Lookup, ResolveReparse,
         Scan, Store, Finish, NotifyShellItemChanged, Tick
<1> QED
  BY <1>2, <1>3, <1>4, <1>5, <1>6, <1>7 DEF RowStep

(* PendingIsBacked: a row shows Pending only if its request was accepted,  *)
(* so that its key is in m_inFlight; Finish takes it out of there on the   *)
(* way to the notification, which makes the row dirty.                     *)
LEMMA StepKeepsPending ==
  ResolverInv /\ [ResolverNext]_resolverVars => PendingIsBacked'
<1> SUFFICES ASSUME ResolverInv, [ResolverNext]_resolverVars,
                    NEW s \in Row, shown'[s] = Pending, rowPc'[s] = "idle", ~dirty'[s]
             PROVE  \/ RowKey(s) \in m_inFlight'
                    \/ workerPc' = "notify" /\ workerPath' = RowKey(s)
  BY DEF PendingIsBacked, RowKey
<1> DEFINE Backed == \/ RowKey(s) \in m_inFlight
                     \/ (workerPc = "notify" /\ workerPath = RowKey(s))
           BackedNext == \/ RowKey(s) \in m_inFlight'
                         \/ (workerPc' = "notify" /\ workerPath' = RowKey(s))
<1> USE DEF queueVars, workerVars, historyVars, rowVars
<1>1. /\ rowPc \in [Row -> {"idle", "queue", "refresh", "force"}]
      /\ shown \in [Row -> Shown] /\ dirty \in [Row -> BOOLEAN]
  BY DEF ResolverInv, ResolverTypeOK
<1>2. shown[s] = Pending /\ rowPc[s] = "idle" /\ ~dirty[s] => Backed
  BY DEF ResolverInv, PendingIsBacked
<1>3. ASSUME NEW r \in Row, StartQuery(r)
      PROVE  BackedNext
  <2>1. s # r
    BY <1>1, <1>3 DEF StartQuery
  <2>2. shown'[s] = shown[s] /\ rowPc'[s] = rowPc[s] /\ dirty'[s] = dirty[s]
    BY <1>1, <1>3, <2>1 DEF StartQuery
  <2> QED
    BY <1>2, <1>3, <2>2 DEF StartQuery
<1>4. ASSUME NEW r \in Row, NEW force \in BOOLEAN, NEW accepted \in BOOLEAN,
             QueueBackgroundResolution(RequestOf[PathOf[r]], force, accepted),
             UNCHANGED <<workerPath, workerSize>>
      PROVE  /\ m_inFlight \subseteq m_inFlight'
             /\ accepted => RowKey(r) \in m_inFlight'
             /\ workerPc = "notify" => workerPc' = "notify"
  BY <1>4, QueueRequest, RowKeyAgrees DEF ResolverInv
<1>5. ASSUME NEW r \in Row, QueueMiss(r)
      PROVE  BackedNext
  <2>1. PICK accepted \in BOOLEAN :
          /\ QueueBackgroundResolution(RequestOf[PathOf[r]], FALSE, accepted)
          /\ shown' = [shown EXCEPT ![r] = IF accepted THEN Pending ELSE Blank]
    BY <1>5 DEF QueueMiss
  <2>2. UNCHANGED <<workerPath, workerSize, dirty>> /\ rowPc' = [rowPc EXCEPT ![r] = "idle"]
    BY <1>5 DEF QueueMiss
  <2>3. /\ m_inFlight \subseteq m_inFlight'
        /\ accepted => RowKey(r) \in m_inFlight'
        /\ workerPc = "notify" => workerPc' = "notify"
    BY <1>4, <2>1, <2>2
  <2>4. CASE s = r
    <3>1. accepted
      BY <1>1, <2>1, <2>4, ResolverAssumption
    <3> QED
      BY <2>3, <2>4, <3>1
  <2>5. CASE s # r
    BY <1>1, <1>2, <2>1, <2>2, <2>3, <2>5
  <2> QED
    BY <2>4, <2>5
<1>6. ASSUME NEW r \in Row, QueueRefresh(r)
      PROVE  BackedNext
  <2>1. \E accepted \in BOOLEAN :
          QueueBackgroundResolution(RequestOf[PathOf[r]], TRUE, accepted)
    BY <1>6 DEF QueueRefresh
  <2>2. /\ UNCHANGED <<workerPath, workerSize, shown, dirty>>
        /\ rowPc' = [rowPc EXCEPT ![r] = "idle"] /\ rowPc[r] = "force"
    BY <1>6 DEF QueueRefresh
  <2>3. m_inFlight \subseteq m_inFlight' /\ (workerPc = "notify" => workerPc' = "notify")
    BY <1>4, <2>1, <2>2
  <2>4. s # r
    BY <2>2, ResolverAssumption DEF ResolverInv, HitIsShown
  <2> QED
    BY <1>1, <1>2, <2>2, <2>3, <2>4
<1>7. ASSUME NEW r \in Row, NEW since \in 0 .. rowClock[r], TakeRefreshSlot(r, since)
      PROVE  BackedNext
  <2>1. /\ rowPc[r] = "refresh"
        /\ \A q \in Row : q # r => rowPc'[q] = rowPc[q]
        /\ UNCHANGED <<shown, dirty, m_inFlight, workerPc, workerPath>>
    BY <1>1, <1>7 DEF TakeRefreshSlot
  <2>2. s # r
    BY <2>1, ResolverAssumption DEF ResolverInv, HitIsShown
  <2> QED
    BY <1>2, <2>1, <2>2
<1>8. CASE Finish
  <2>1. /\ UNCHANGED <<shown, rowPc, dirty, workerPath>>
        /\ workerPc = "finish" /\ workerPc' = "notify"
        /\ m_inFlight' = m_inFlight \ {workerPath}
    BY <1>8 DEF Finish
  <2> QED
    BY <1>2, <2>1
<1>9. CASE NotifyShellItemChanged
  <2>1. /\ UNCHANGED <<shown, rowPc, m_inFlight>>
        /\ dirty'[s] = (dirty[s] \/ RowKey(s) = workerPath)
    BY <1>9 DEF NotifyShellItemChanged, UpdateItem
  <2> QED
    BY <1>2, <2>1
<1>10. CASE Tick
  BY <1>2, <1>10 DEF Tick
<1>11. CASE /\ UNCHANGED <<shown, rowPc, dirty, m_inFlight>>
            /\ workerPc # "notify"
  BY <1>2, <1>11
<1>12. CASE UNCHANGED <<shown, rowPc, dirty, m_inFlight, workerPc, workerPath>>
  BY <1>2, <1>12
<1>13. \/ \E r \in Row : StartQuery(r) \/ RowStep(r)
       \/ Finish \/ NotifyShellItemChanged \/ Tick
       \/ UNCHANGED <<shown, rowPc, dirty, m_inFlight>> /\ workerPc # "notify"
       \/ UNCHANGED <<shown, rowPc, dirty, m_inFlight, workerPc, workerPath>>
  BY DEF ResolverNext, WorkerStep, resolverVars, Dequeue, Lookup, ResolveReparse,
         Scan, Store
<1> QED
  BY <1>3, <1>5, <1>6, <1>7, <1>8, <1>9, <1>10, <1>11, <1>12, <1>13 DEF RowStep

-----------------------------------------------------------------------------
(* An exact m_inFlight is no larger than a full queue and the worker's     *)
(* folder: a queue is a surjection from its indices onto what it holds.    *)
LEMMA ExactSetIsBounded == ResolverInv => WorkIsBounded
<1> SUFFICES ASSUME ResolverInv
             PROVE  Cardinality(m_inFlight) <= MAX_PENDING_REQUESTS + 1
  BY DEF WorkIsBounded, ResolverInv, QueueInv, QueueFits
<1> DEFINE queued == Range(m_queue)
<1>1. /\ m_queue \in Seq(Key) /\ Len(m_queue) \in Nat /\ DOMAIN m_queue = 1 .. Len(m_queue)
      /\ m_queue \in [DOMAIN m_queue -> Key]
      /\ Len(m_queue) <= MAX_PENDING_REQUESTS
      /\ m_inFlight = Work
  BY LenProperties
  DEF ResolverInv, ResolverTypeOK, QueueInv, QueueFits, InFlightIsWork
<1>2. /\ IsFiniteSet(queued) /\ Cardinality(queued) \in Nat
      /\ Cardinality(queued) <= Len(m_queue)
  <2>1. m_queue \in Surjection(DOMAIN m_queue, queued)
    BY <1>1, Fun_RangeProperties
  <2>2. IsFiniteSet(DOMAIN m_queue) /\ Cardinality(DOMAIN m_queue) = Len(m_queue)
    <3>1. \A n \in Nat : IsFiniteSet(1 .. n) /\ Cardinality(1 .. n) = n
      <4> SUFFICES ASSUME NEW n \in Nat
                   PROVE  IsFiniteSet(1 .. n) /\ Cardinality(1 .. n) = n
        OBVIOUS
      <4>1. /\ IsFiniteSet(1 .. n)
            /\ Cardinality(1 .. n) = IF 1 > n THEN 0 ELSE n - 1 + 1
        BY FS_Interval
      <4> QED
        BY <4>1
    <3> QED
      BY <1>1, <3>1
  <2> QED
    BY <2>1, <2>2, FS_Surjection, FS_CardinalityType
<1>3. /\ IsFiniteSet(queued \cup {workerPath})
      /\ Cardinality(queued \cup {workerPath}) <= Len(m_queue) + 1
  <2>1. /\ IsFiniteSet(queued \cup {workerPath})
        /\ Cardinality(queued \cup {workerPath})
             = IF workerPath \in queued THEN Cardinality(queued) ELSE Cardinality(queued) + 1
    BY <1>2, FS_AddElement
  <2> QED
    BY <1>1, <1>2, <2>1
<1>4. m_inFlight \in SUBSET (queued \cup {workerPath})
  BY <1>1 DEF Work
<1>5. /\ Cardinality(m_inFlight) <= Cardinality(queued \cup {workerPath})
      /\ Cardinality(m_inFlight) \in Nat /\ Cardinality(queued \cup {workerPath}) \in Nat
  BY <1>3, <1>4, FS_Subset, FS_CardinalityType
<1> QED
  BY <1>1, <1>3, <1>5, ResolverAssumption

LEMMA StepKeepsInv == ResolverInv /\ [ResolverNext]_resolverVars => ResolverInv'
<1> SUFFICES ASSUME ResolverInv, [ResolverNext]_resolverVars
             PROVE  ResolverInv'
  OBVIOUS
<1>1. ResolverTypeOK'
  BY StepKeepsType DEF ResolverInv
<1>2. CacheWithinLimits'
  BY StepKeepsLimits DEF ResolverInv
<1>3. QueueInv'
  BY StepKeepsQueue DEF ResolverInv
<1>4. HitIsShown'
  BY StepKeepsHit DEF ResolverInv
<1>5. PendingIsBacked'
  BY StepKeepsPending
<1> QED
  BY <1>1, <1>2, <1>3, <1>4, <1>5 DEF ResolverInv

(* The invariant is inductive.                                             *)
THEOREM ResolverInvariant == ResolverSpec => []ResolverInv
BY InitEstablishesInv, StepKeepsInv, PTL DEF ResolverSpec

(* Every variable of the resolver keeps its type: only complete scans      *)
(* reach the cache (Store), and what is queued, remembered and cached is   *)
(* filed under normalised paths.                                           *)
THEOREM ResolverTypeCorrect == ResolverSpec => []ResolverTypeOK
<1>1. ResolverInv => ResolverTypeOK
  BY DEF ResolverInv
<1> QED
  BY <1>1, ResolverInvariant, PTL

(* Whatever the resolver does, the cache stays within both its limits.     *)
THEOREM CacheStaysWithinLimits == ResolverSpec => []CacheWithinLimits
<1>1. ResolverInv => CacheWithinLimits
  BY DEF ResolverInv
<1> QED
  BY <1>1, ResolverInvariant, PTL

(* m_inFlight is exactly what is queued or being resolved, without         *)
(* duplicates, for any number of rows that ask.                            *)
THEOREM InFlightIsExact == ResolverSpec => []InFlightIsWork
<1>1. ResolverInv => InFlightIsWork
  BY DEF ResolverInv, QueueInv
<1> QED
  BY <1>1, ResolverInvariant, PTL

(* The work accepted never exceeds a full queue and one running request.   *)
THEOREM WorkStaysBounded == ResolverSpec => []WorkIsBounded
<1>1. ResolverInv => WorkIsBounded
  BY ExactSetIsBounded
<1> QED
  BY <1>1, ResolverInvariant, PTL

(* A folder whose failure is remembered is neither queued nor running.     *)
THEOREM FailedStaysOutOfQueue == ResolverSpec => []FailedIsNotInFlight
<1>1. ResolverInv => FailedIsNotInFlight
  BY DEF ResolverInv, QueueInv
<1> QED
  BY <1>1, ResolverInvariant, PTL

(* No row shows Pending with nobody left to tell it to ask again.          *)
THEOREM PendingIsNeverAbandoned == ResolverSpec => []PendingIsBacked
<1>1. ResolverInv => PendingIsBacked
  BY DEF ResolverInv
<1> QED
  BY <1>1, ResolverInvariant, PTL
=============================================================================
