---------------------------- MODULE SizeResolver ----------------------------
(***************************************************************************)
(* fs::core::SizeResolver (size_resolver.h, size_resolver.cpp): Explorer's *)
(* threads ask for folder sizes, one worker thread finds them.             *)
(*                                                                         *)
(* m_queueMutex and the cache's own m_mutex are never held together, so a  *)
(* query and the worker take several steps, one for each stretch of code   *)
(* under a lock, and anything may happen between them.                     *)
(*                                                                         *)
(* Nothing stops the worker here: the destructor, which does, runs in      *)
(* DllMain, and is modelled there, with the lock that goes with it         *)
(* (Lifecycle).                                                            *)
(*                                                                         *)
(* Explorer is external: a row of a window holds the value its last query  *)
(* returned, asks again when an UPDATEITEM for its folder arrives, and may *)
(* ask at any other time (scrolling, F5).                                  *)
(***************************************************************************)
EXTENDS SizeCache

CONSTANTS
  Row,                      \* rows of Explorer windows
  PathOf,                   \* the path extract_path finds for a row
  Target,                   \* what resolve_real_path may make of a reparse point's key
  MAX_PENDING_REQUESTS,
  FAILURE_RETRY_INTERVAL,
  VISIBLE_REFRESH_INTERVAL,
  Blank,                    \* the hook left the original, empty value alone
  Pending,                  \* kPendingSizeSentinel
  REFRESH_MEMORY,           \* age at which m_recentRefreshes is pruned
  MaxDelay                  \* bound: time from a hit to the refresh behind it

VARIABLES
  m_queue, m_inFlight, m_forceRefresh,
  m_recentFailures,   \* key -> time since the failure
  m_recentRefreshes,  \* key -> time since the refresh was granted
  workerPc, workerPath, effectivePath, workerSize,  \* where worker_main stands, its
                                                    \* locals and resolve_size's
  rowPc,     \* where a row's resolve_and_inject stands
  rowClock,  \* time since a hit, while the refresh behind it is not granted
  shown,     \* the value the row's last query put in its PROPVARIANT
  dirty      \* an UPDATEITEM reached the row after its last query began

queueVars   == <<m_queue, m_inFlight, m_forceRefresh>>
workerVars  == <<workerPc, workerPath, effectivePath, workerSize>>
historyVars == <<m_recentFailures, m_recentRefreshes>>
rowVars     == <<rowPc, rowClock, shown, dirty>>
resolverVars == <<m_cache, queueVars, workerVars, historyVars, rowVars>>

Shown == Size \cup {Blank, Pending}

RowKey(r) == KeyOf[PathOf[r]]

(* normalize_request_path, tabulated.                                      *)
RequestOf == [p \in Path \cup Key |-> RequestKey(p)]

FailureAge == 0 .. FAILURE_RETRY_INTERVAL
RefreshAge == 0 .. REFRESH_MEMORY + MaxDelay + 1
Clock      == 0 .. MaxDelay

WorkerPcs == {"unstarted", "waiting", "lookup", "reparse", "scan", "store",
              "finish", "notify"}

OnServer(p) == Len(p) > 1 /\ p[1] = Sep /\ p[2] = Sep

ASSUME ResolverAssumption ==
  /\ PathOf \in [Row -> Path]
  /\ \A k \in Key : OnServer(k) \/ Target[k] \subseteq Path \cup Key
  /\ MAX_PENDING_REQUESTS \in Nat \ {0}
  /\ FAILURE_RETRY_INTERVAL \in Nat
  /\ VISIBLE_REFRESH_INTERVAL \in Nat
  /\ REFRESH_MEMORY \in Nat
  /\ VISIBLE_REFRESH_INTERVAL <= REFRESH_MEMORY
  /\ MaxDelay \in Nat
  /\ Blank # Pending /\ Size \cap {Blank, Pending} = {}

ResolverInit ==
  /\ CacheInit
  /\ m_queue = <<>>
  /\ m_inFlight = {}
  /\ m_forceRefresh = {}
  /\ m_recentFailures = <<>>
  /\ m_recentRefreshes = <<>>
  /\ workerPc = "unstarted"
  /\ workerPath = <<>>
  /\ effectivePath = <<>>
  /\ workerSize = NoSize
  /\ rowPc = [r \in Row |-> "idle"]
  /\ rowClock = [r \in Row |-> 0]
  /\ shown = [r \in Row |-> Blank]
  /\ dirty = [r \in Row |-> FALSE]

-----------------------------------------------------------------------------
(* queue_background_resolution, under m_queueMutex from end to end.  Each  *)
(* disjunct is one of its returns; accepted is what it returns.            *)
CoolingDown(k) ==
  k \in DOMAIN m_recentFailures /\ m_recentFailures[k] < FAILURE_RETRY_INTERVAL

(* The first request starts the worker.                                    *)
EnsureWorkerStarted ==
  workerPc' = IF workerPc = "unstarted" THEN "waiting" ELSE workerPc

Refuse(k) ==
  /\ CoolingDown(k)
  /\ UNCHANGED <<queueVars, m_recentFailures, workerPc>>

JoinInFlight(k, force) ==
  /\ ~CoolingDown(k)
  /\ k \in m_inFlight
  /\ m_recentFailures' = Without(m_recentFailures, {k})
  /\ m_forceRefresh' = IF force THEN m_forceRefresh \cup {k} ELSE m_forceRefresh
  /\ UNCHANGED <<m_queue, m_inFlight, workerPc>>

Overflow(k) ==
  /\ ~CoolingDown(k)
  /\ k \notin m_inFlight
  /\ Len(m_queue) >= MAX_PENDING_REQUESTS
  /\ m_recentFailures' = Without(m_recentFailures, {k})
  /\ UNCHANGED <<queueVars, workerPc>>

EnqueueInFlight(k, force) ==
  /\ ~CoolingDown(k)
  /\ Len(m_queue) < MAX_PENDING_REQUESTS
  /\ m_recentFailures' = Without(m_recentFailures, {k})
  /\ m_queue' = Append(m_queue, k)
  /\ m_inFlight' = m_inFlight \cup {k}
  /\ m_forceRefresh' = IF force THEN m_forceRefresh \cup {k} ELSE m_forceRefresh
  /\ EnsureWorkerStarted

EnqueueOneTooMany(k, force) ==
  /\ ~CoolingDown(k)
  /\ k \notin m_inFlight
  /\ Len(m_queue) <= MAX_PENDING_REQUESTS
  /\ m_recentFailures' = Without(m_recentFailures, {k})
  /\ m_queue' = Append(m_queue, k)
  /\ m_inFlight' = m_inFlight \cup {k}
  /\ m_forceRefresh' = IF force THEN m_forceRefresh \cup {k} ELSE m_forceRefresh
  /\ EnsureWorkerStarted

EnqueueKeepingFailure(k, force) ==
  /\ ~CoolingDown(k)
  /\ k \notin m_inFlight
  /\ Len(m_queue) < MAX_PENDING_REQUESTS
  /\ m_queue' = Append(m_queue, k)
  /\ m_inFlight' = m_inFlight \cup {k}
  /\ m_forceRefresh' = IF force THEN m_forceRefresh \cup {k} ELSE m_forceRefresh
  /\ EnsureWorkerStarted
  /\ UNCHANGED m_recentFailures

Enqueue(k, force) ==
  /\ ~CoolingDown(k)
  /\ k \notin m_inFlight
  /\ Len(m_queue) < MAX_PENDING_REQUESTS
  /\ m_recentFailures' = Without(m_recentFailures, {k})
  /\ m_queue' = Append(m_queue, k)
  /\ m_inFlight' = m_inFlight \cup {k}
  /\ m_forceRefresh' = IF force THEN m_forceRefresh \cup {k} ELSE m_forceRefresh
  /\ EnsureWorkerStarted

QueuePromisingOverflow(k, force, accepted) ==
  \/ Refuse(k) /\ ~accepted
  \/ JoinInFlight(k, force) /\ accepted
  \/ Overflow(k) /\ accepted
  \/ Enqueue(k, force) /\ accepted

QueueBackgroundResolution(k, force, accepted) ==
  \/ Refuse(k) /\ ~accepted
  \/ JoinInFlight(k, force) /\ accepted
  \/ Overflow(k) /\ ~accepted
  \/ Enqueue(k, force) /\ accepted

-----------------------------------------------------------------------------
(* resolve_and_inject, on the thread of a row.  First the cache: a hit is  *)
(* returned at once and may be refreshed behind the row's back, a miss is  *)
(* queued.                                                                 *)
StartQuery(r) ==
  LET hit == Hit(RowKey(r))
  IN  /\ rowPc[r] = "idle"
      /\ Get(PathOf[r])
      /\ dirty' = [dirty EXCEPT ![r] = FALSE]
      /\ IF hit = NoSize
         THEN rowPc' = [rowPc EXCEPT ![r] = "queue"] /\ UNCHANGED shown
         ELSE /\ rowPc' = [rowPc EXCEPT ![r] = "refresh"]
              /\ shown' = [shown EXCEPT ![r] = hit]
      /\ UNCHANGED <<queueVars, workerVars, historyVars, rowClock>>

QueueMiss(r) ==
  /\ rowPc[r] = "queue"
  /\ \E accepted \in BOOLEAN :
       /\ QueueBackgroundResolution(RequestOf[PathOf[r]], FALSE, accepted)
       /\ shown' = [shown EXCEPT ![r] = IF accepted THEN Pending ELSE Blank]
  /\ rowPc' = [rowPc EXCEPT ![r] = "idle"]
  /\ UNCHANGED <<m_cache, workerPath, effectivePath, workerSize, m_recentRefreshes, rowClock,
                 dirty>>

(* queue_refresh_if_due.  It reads the clock before it takes the lock:     *)
(* since is how long ago that was by the time it has the lock.  Prune,     *)
(* then grant the refresh unless the folder had one too recently.          *)
TakeRefreshSlot(r, since) ==
  LET k      == RequestOf[PathOf[r]]
      Since(q) == m_recentRefreshes[q] - since
      pruned == RestrictDomain(m_recentRefreshes, LAMBDA q : Since(q) <= REFRESH_MEMORY)
      recent == k \in DOMAIN pruned /\ Since(k) < VISIBLE_REFRESH_INTERVAL
  IN  /\ rowPc[r] = "refresh"
      /\ m_recentRefreshes' = IF recent THEN pruned
                              ELSE [q \in DOMAIN pruned \cup {k} |->
                                      IF q = k THEN since ELSE pruned[q]]
      /\ rowPc' = [rowPc EXCEPT ![r] = IF recent THEN "idle" ELSE "force"]
      /\ rowClock' = [rowClock EXCEPT ![r] = 0]
      /\ UNCHANGED <<m_cache, queueVars, workerVars, m_recentFailures, shown, dirty>>

(* ... and queues it after the lock is released; the answer is ignored.    *)
QueueRefresh(r) ==
  /\ rowPc[r] = "force"
  /\ \E accepted \in BOOLEAN :
       QueueBackgroundResolution(RequestOf[PathOf[r]], TRUE, accepted)
  /\ rowPc' = [rowPc EXCEPT ![r] = "idle"]
  /\ UNCHANGED <<m_cache, workerPath, effectivePath, workerSize, m_recentRefreshes, rowClock,
                 shown, dirty>>

-----------------------------------------------------------------------------
(* worker_main.  It sleeps on m_queueCv until there is work.               *)
Dequeue ==
  /\ workerPc = "waiting"
  /\ m_queue # <<>>
  /\ workerPath' = Head(m_queue)
  /\ m_queue' = Tail(m_queue)
  /\ m_forceRefresh' = m_forceRefresh \ {Head(m_queue)}
  /\ workerPc' = IF Head(m_queue) \in m_forceRefresh THEN "reparse" ELSE "lookup"
  /\ workerSize' = NoSize
  /\ UNCHANGED <<m_cache, m_inFlight, effectivePath, historyVars, rowVars>>

(* resolve_size: an unforced request is answered by the cache if it can.   *)
Lookup ==
  /\ workerPc = "lookup"
  /\ Get(workerPath)
  /\ workerSize' = Hit(workerPath)
  /\ workerPc' = IF Hit(workerPath) = NoSize THEN "reparse" ELSE "finish"
  /\ UNCHANGED <<queueVars, workerPath, effectivePath, historyVars, rowVars>>

(* A reparse point is replaced by its target (resolve_real_path), when it  *)
(* is not on a server and can be opened; a path that then has no drive     *)
(* letter is given up.  What is scanned is the target; what comes of it is *)
(* filed and announced under the path that was asked for.                  *)
ResolveReparse ==
  /\ workerPc = "reparse"
  /\ \E effective \in {workerPath} \cup (IF OnServer(workerPath) THEN {} ELSE Target[workerPath]) :
       IF HasDrive(effective)
       THEN workerPc' = "scan" /\ effectivePath' = effective
       ELSE workerPc' = "finish" /\ UNCHANGED effectivePath
  /\ UNCHANGED <<m_cache, queueVars, workerPath, workerSize, historyVars, rowVars>>

(* FolderScanner's future delivers: a size, or an incomplete or cancelled  *)
(* scan.                                                                   *)
ScanKeepingIncomplete(size) ==
  /\ workerPc = "scan"
  /\ workerSize' = size
  /\ effectivePath' = <<>>
  /\ workerPc' = "store"
  /\ UNCHANGED <<m_cache, queueVars, workerPath, historyVars, rowVars>>

Scan(size) ==
  /\ workerPc = "scan"
  /\ workerSize' = size
  /\ effectivePath' = <<>>
  /\ workerPc' = IF size = NoSize THEN "finish" ELSE "store"
  /\ UNCHANGED <<m_cache, queueVars, workerPath, historyVars, rowVars>>

Store ==
  /\ workerPc = "store"
  /\ Put(workerPath, workerSize)
  /\ workerPc' = "finish"
  /\ UNCHANGED <<queueVars, workerPath, effectivePath, workerSize, historyVars, rowVars>>

(* Under the lock again: the request is no longer in flight, and its       *)
(* outcome is remembered.                                                  *)
Finish ==
  /\ workerPc = "finish"
  /\ m_inFlight' = m_inFlight \ {workerPath}
  /\ m_recentFailures' =
       IF workerSize # NoSize THEN Without(m_recentFailures, {workerPath})
       ELSE [k \in DOMAIN m_recentFailures \cup {workerPath} |->
               IF k = workerPath THEN 0 ELSE m_recentFailures[k]]
  /\ workerPc' = "notify"
  /\ UNCHANGED <<m_cache, m_queue, m_forceRefresh, workerPath, effectivePath, workerSize,
                 m_recentRefreshes, rowVars>>

(* SHChangeNotify(SHCNE_UPDATEITEM) marks every row that shows the folder. *)
UpdateItem(k) == dirty' = [r \in Row |-> dirty[r] \/ RowKey(r) = k]

NotifyOfSizesOnly ==
  /\ workerPc = "notify"
  /\ IF workerSize = NoSize THEN UNCHANGED dirty ELSE UpdateItem(workerPath)
  /\ workerPc' = "waiting"
  /\ workerPath' = <<>>
  /\ workerSize' = NoSize
  /\ UNCHANGED <<m_cache, queueVars, effectivePath, historyVars, rowPc, rowClock, shown>>

NotifyShellItemChanged ==
  /\ workerPc = "notify"
  /\ UpdateItem(workerPath)
  /\ workerPc' = "waiting"
  /\ workerPath' = <<>>
  /\ workerSize' = NoSize
  /\ UNCHANGED <<m_cache, queueVars, effectivePath, historyVars, rowPc, rowClock, shown>>

-----------------------------------------------------------------------------
UpTo(cap, a) == IF a < cap THEN a + 1 ELSE cap

Tick ==
  /\ \A r \in Row : rowPc[r] = "refresh" => rowClock[r] < MaxDelay
  /\ CacheTick
  /\ m_recentFailures' = [k \in DOMAIN m_recentFailures |->
                            UpTo(FAILURE_RETRY_INTERVAL, m_recentFailures[k])]
  /\ m_recentRefreshes' = [k \in DOMAIN m_recentRefreshes |->
                             UpTo(REFRESH_MEMORY + MaxDelay + 1, m_recentRefreshes[k])]
  /\ rowClock' = [r \in Row |-> IF rowPc[r] = "refresh" THEN rowClock[r] + 1 ELSE 0]
  /\ UNCHANGED <<queueVars, workerVars, rowPc, shown, dirty>>

RowStep(r) == \/ QueueMiss(r)
              \/ \E since \in 0 .. rowClock[r] : TakeRefreshSlot(r, since)
              \/ QueueRefresh(r)

WorkerStep == \/ Dequeue \/ Lookup \/ ResolveReparse
              \/ \E size \in Size \cup {NoSize} : Scan(size)
              \/ Store \/ Finish \/ NotifyShellItemChanged

ResolverNext == \/ \E r \in Row : StartQuery(r) \/ RowStep(r)
                \/ WorkerStep
                \/ Tick

ResolverSpec == ResolverInit /\ [][ResolverNext]_resolverVars

(* The worker is a thread that is scheduled and whose scans end, a query   *)
(* that has begun returns, and a row told to update asks again.  Nothing   *)
(* makes Explorer ask unprompted, and nothing makes time pass.             *)
ResolverFairness ==
  /\ WF_resolverVars(WorkerStep)
  /\ \A r \in Row : /\ WF_resolverVars(RowStep(r))
                    /\ WF_resolverVars(dirty[r] /\ StartQuery(r))

-----------------------------------------------------------------------------
(* worker_main is busy with workerPath from the dequeue to the lock that   *)
(* ends it.                                                                *)
Running == workerPc \in {"lookup", "reparse", "scan", "store", "finish"}

Work == Range(m_queue) \cup (IF Running THEN {workerPath} ELSE {})

ResolverTypeOK ==
  /\ CacheTypeOK
  /\ m_queue \in Seq(Key)
  /\ m_inFlight \in SUBSET Key
  /\ m_forceRefresh \in SUBSET Key
  /\ DOMAIN m_recentFailures \in SUBSET Key
  /\ \A k \in DOMAIN m_recentFailures : m_recentFailures[k] \in FailureAge
  /\ DOMAIN m_recentRefreshes \in SUBSET Key
  /\ \A k \in DOMAIN m_recentRefreshes : m_recentRefreshes[k] \in RefreshAge
  /\ workerPc \in WorkerPcs
  /\ workerPath \in Key \cup {<<>>}
  /\ Running \/ workerPc = "notify" => workerPath \in Key
  /\ effectivePath \in Path \cup Key \cup {<<>>}
  /\ workerPc = "scan" => effectivePath \in Path \cup Key /\ HasDrive(effectivePath)
  /\ workerSize \in Size \cup {NoSize}
  /\ workerPc = "store" => workerSize \in Size
  /\ rowPc \in [Row -> {"idle", "queue", "refresh", "force"}]
  /\ rowClock \in [Row -> Clock]
  /\ shown \in [Row -> Shown]
  /\ dirty \in [Row -> BOOLEAN]

(* The set that deduplicates requests is exact: m_inFlight holds the       *)
(* folders that are queued or being resolved and no others, and no folder  *)
(* is there twice (queue_background_resolution against worker_main).  An   *)
(* extra member would swallow every later request for its folder; a        *)
(* missing one would have it scanned twice.                                *)
InFlightIsWork ==
  /\ m_inFlight = Work
  /\ \A i, j \in DOMAIN m_queue : m_queue[i] = m_queue[j] => i = j
  /\ Running => workerPath \notin Range(m_queue)

(* However many rows ask, the work accepted is capped: a full queue and    *)
(* the folder being resolved (MAX_PENDING_REQUESTS).                       *)
WorkIsBounded == /\ Len(m_queue) <= MAX_PENDING_REQUESTS
                 /\ Cardinality(m_inFlight) <= MAX_PENDING_REQUESTS + 1

(* A row that shows Pending is never abandoned: its folder is queued or    *)
(* being resolved, or its UPDATEITEM is about to be sent, or has been and  *)
(* the row will ask again.  (The hit on m_inFlight, the erase at the end   *)
(* of worker_main and the notification after it are three steps that rows  *)
(* may fall between.)                                                      *)
PendingIsBacked ==
  \A r \in Row :
    shown[r] = Pending /\ rowPc[r] = "idle" /\ ~dirty[r] =>
      \/ RowKey(r) \in m_inFlight
      \/ workerPc = "notify" /\ workerPath = RowKey(r)

(* A folder whose last scan failed is not queued or scanned again while    *)
(* its failure is remembered (FAILURE_RETRY_INTERVAL).                     *)
FailedIsNotInFlight == DOMAIN m_recentFailures \cap m_inFlight = {}

(* Every row that shows Pending is eventually told to ask again or shows   *)
(* something else.                                                         *)
PendingSettles ==
  \A r \in Row : shown[r] = Pending ~> shown[r] # Pending \/ dirty[r]
=============================================================================
