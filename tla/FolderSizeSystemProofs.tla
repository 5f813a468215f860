----------------------- MODULE FolderSizeSystemProofs -----------------------
(***************************************************************************)
(* Proofs about FolderSizeSystem, for any folders, files, rows and limits: *)
(* the resolver's invariant survives a notifier that erases entries behind *)
(* its back, and every wrong size in the cache is excused.                 *)
(***************************************************************************)
EXTENDS FolderSizeSystem, SizeResolverProofs

NotifierTypeOK ==
  /\ events \subseteq Event
  /\ visits \in Seq(Path \cup Key) /\ toNotify \in Seq(Path \cup Key)
  /\ renamed \in Path \cup {<<>>}

FilesTypeOK ==
  /\ bytes \in [Folder -> 0 .. MaxChanges] /\ changes \in 0 .. MaxChanges
  /\ scanned \in [DOMAIN scanned -> 0 .. MaxChanges]
  /\ DOMAIN scanned \subseteq IF workerPc = "scan" THEN Contents(workerPath) ELSE {}
  /\ workerPc = "store" => DOMAIN workerSize = Contents(workerPath)
  /\ spoiled \in BOOLEAN /\ (spoiled => workerPc \in {"scan", "store"})

(* The scan is under way where the path that was asked for leads to.       *)
RootIsHome ==
  workerPc = "scan" => /\ KeyOf[effectivePath] \in Folder
                       /\ Home[KeyOf[effectivePath]] = Home[workerPath]

(* What the running scan has found is right, but for excused changes.      *)
ScanIsExcused ==
  \/ spoiled
  \/ /\ workerPc = "scan" => \A g \in DOMAIN scanned : scanned[g] = bytes[g]
     /\ workerPc = "store" => workerSize = TrueSize(workerPath)

(* So is every entry of the cache, expired ones included.                  *)
EntriesAreWhole == \A k \in DOMAIN m_cache : k \in Folder /\ DOMAIN m_cache[k].size = Contents(k)

Excused(k) == Awaited(k) \/ k \in excused

EntriesAreExcused ==
  \A k \in DOMAIN m_cache : m_cache[k].size = TrueSize(k) \/ Excused(k)

SystemInv ==
  /\ ResolverInv /\ m_inFlight \subseteq Folder
  /\ NotifierTypeOK /\ FilesTypeOK /\ RootIsHome
  /\ ScanIsExcused /\ EntriesAreWhole /\ EntriesAreExcused

-----------------------------------------------------------------------------
(* The cache's operations change no size, but for the one that is put.     *)
SizesKept(K) ==
  \A k \in DOMAIN m_cache' \ K : k \in DOMAIN m_cache /\ m_cache'[k].size = m_cache[k].size

LEMMA GetKeepsSizes ==
  ASSUME NEW p, Get(p)
  PROVE  SizesKept({})
<1> DEFINE k == KeyOf[p]
<1>1. CASE Fresh(k)
  <2>1. m_cache' = [m_cache EXCEPT ![k].idle = 0]
    BY <1>1 DEF Get
  <2>2. ASSUME NEW q \in DOMAIN m_cache'
        PROVE  q \in DOMAIN m_cache /\ m_cache'[q].size = m_cache[q].size
    BY <2>1
  <2> QED
    BY <2>2 DEF SizesKept
<1>2. CASE ~Fresh(k)
  <2>1. m_cache' = [q \in DOMAIN m_cache \ {k} |-> m_cache[q]]
    BY <1>2 DEF Get, Without, Restrict
  <2> QED
    BY <2>1 DEF SizesKept
<1> QED
  BY <1>1, <1>2

LEMMA PutKeepsSizes ==
  ASSUME CacheTypeOK, NEW p \in Path \cup Key, NEW s, Put(p, s)
  PROVE  /\ SizesKept({KeyOf[p]})
         /\ KeyOf[p] \in DOMAIN m_cache' => m_cache'[KeyOf[p]].size = s
<1> DEFINE k == KeyOf[p]
           e == [size |-> s, age |-> 0, idle |-> 0]
           c == [x \in DOMAIN m_cache \cup {k} |-> IF x = k THEN e ELSE m_cache[x]]
<1>1. DOMAIN c \in SUBSET Key
  BY KeyOfPath DEF CacheTypeOK
<1>2. m_cache' \in Evicted(c)
  BY DEF Put
<1>3. DOMAIN c = DOMAIN m_cache \cup {k} /\ \A x \in DOMAIN c : x # k => c[x] = m_cache[x]
  OBVIOUS
<1>4. c[k].size = s
  OBVIOUS
<1> HIDE DEF c
<1>5. DOMAIN m_cache' \in SUBSET DOMAIN c /\ \A x \in DOMAIN m_cache' : m_cache'[x] = c[x]
  BY <1>1, <1>2, EvictedKeeps
<1> QED
  BY <1>3, <1>4, <1>5 DEF SizesKept

LEMMA InvalidateKeepsSizes ==
  ASSUME NEW p, Invalidate(p)
  PROVE  SizesKept({}) /\ KeyOf[p] \notin DOMAIN m_cache'
<1>1. m_cache' = [q \in DOMAIN m_cache \ {KeyOf[p]} |-> m_cache[q]]
  BY DEF Invalidate, Without, Restrict
<1> QED
  BY <1>1 DEF SizesKept

LEMMA TickKeepsSizes == CacheTick => SizesKept({})
BY DEF CacheTick, SizesKept

-----------------------------------------------------------------------------
(* The first of a sequence, and the others.                                *)
LEMMA FirstAndOthers ==
  ASSUME NEW S, NEW q \in Seq(S), q # <<>>
  PROVE  /\ Head(q) \in S /\ Tail(q) \in Seq(S)
         /\ Range(q) = Range(Tail(q)) \cup {Head(q)}
<1>1. /\ Len(q) \in Nat \ {0} /\ DOMAIN q = 1 .. Len(q)
      /\ Head(q) = q[1] /\ Head(q) \in S
      /\ Tail(q) \in Seq(S)
      /\ DOMAIN Tail(q) = 1 .. Len(q) - 1
      /\ \A i \in 1 .. Len(q) - 1 : Tail(q)[i] = q[i + 1]
  BY EmptySeq, HeadTailProperties, LenProperties
<1>2. \A i \in DOMAIN q : i = 1 \/ (i - 1 \in DOMAIN Tail(q) /\ q[i] = Tail(q)[i - 1])
  BY <1>1
<1>3. 1 \in DOMAIN q /\ \A i \in DOMAIN Tail(q) : i + 1 \in DOMAIN q /\ Tail(q)[i] = q[i + 1]
  BY <1>1
<1>4. \A x \in Range(q) : x = Head(q) \/ x \in Range(Tail(q))
  <2> SUFFICES ASSUME NEW i \in DOMAIN q
               PROVE  q[i] = Head(q) \/ \E j \in DOMAIN Tail(q) : q[i] = Tail(q)[j]
    BY DEF Range
  <2> QED
    BY <1>1, <1>2
<1>5. Head(q) \in Range(q)
  BY <1>1, <1>3 DEF Range
<1>6. \A x \in Range(Tail(q)) : x \in Range(q)
  BY <1>3 DEF Range
<1> QED
  BY <1>1, <1>4, <1>5, <1>6

LEMMA NothingInEmpty == Range(<<>>) = {}
BY DEF Range

-----------------------------------------------------------------------------
(* What is awaited stays so while the notifier is elsewhere, and more is   *)
(* posted.                                                                 *)
LEMMA AwaitedStays ==
  ASSUME NEW k, events \subseteq events', UNCHANGED <<visits, renamed>>, Awaited(k)
  PROVE  Awaited(k)'
BY DEF Awaited

(* Steps that change no file and put nothing.                              *)
LEMMA EntriesStay ==
  ASSUME EntriesAreWhole, EntriesAreExcused, SizesKept({}), UNCHANGED <<bytes, excused>>,
         \A k \in DOMAIN m_cache' : Awaited(k) => Awaited(k)'
  PROVE  EntriesAreWhole' /\ EntriesAreExcused'
<1> SUFFICES ASSUME NEW k \in DOMAIN m_cache'
             PROVE  /\ k \in Folder /\ DOMAIN m_cache'[k].size = Contents(k)
                    /\ m_cache'[k].size = TrueSize(k)' \/ Awaited(k)' \/ k \in excused'
  BY DEF EntriesAreWhole, EntriesAreExcused, Excused
<1>1. k \in DOMAIN m_cache /\ m_cache'[k].size = m_cache[k].size
  BY DEF SizesKept
<1>2. TrueSize(k)' = TrueSize(k)
  BY DEF TrueSize
<1> QED
  BY <1>1, <1>2 DEF EntriesAreWhole, EntriesAreExcused, Excused

(* Steps at which no scan begins, reads or ends.                           *)
LEMMA ScanStays ==
  ASSUME FilesTypeOK, RootIsHome, ScanIsExcused, UNCHANGED fileVars,
         UNCHANGED workerVars \/ {workerPc, workerPc'} \cap {"scan", "store"} = {}
  PROVE  FilesTypeOK' /\ RootIsHome' /\ ScanIsExcused'
<1>1. CASE UNCHANGED workerVars
  <2>1. TrueSize(workerPath)' = TrueSize(workerPath)
    BY <1>1 DEF fileVars, workerVars, TrueSize
  <2> QED
    BY <1>1, <2>1 DEF fileVars, workerVars, FilesTypeOK, RootIsHome, ScanIsExcused
<1>2. CASE {workerPc, workerPc'} \cap {"scan", "store"} = {}
  BY <1>2 DEF fileVars, FilesTypeOK, RootIsHome, ScanIsExcused
<1> QED
  BY <1>1, <1>2

(* A request changes the worker's place only where it starts it.           *)
LEMMA RequestStartsWorker ==
  ASSUME NEW k, NEW force, NEW accepted, QueueBackgroundResolution(k, force, accepted)
  PROVE  /\ m_inFlight' \subseteq m_inFlight \cup {k}
         /\ workerPc' = workerPc \/ (workerPc = "unstarted" /\ workerPc' = "waiting")
BY DEF QueueBackgroundResolution, Refuse, JoinInFlight, Overflow, Enqueue,
       EnsureWorkerStarted, queueVars

-----------------------------------------------------------------------------
(* The resolver's own steps, with nothing else happening.                  *)
LEMMA QueryKeepsInv ==
  ASSUME SystemInv, NEW r \in Row, StartQuery(r) \/ RowStep(r),
         UNCHANGED <<notifierVars, fileVars>>, ResolverInv'
  PROVE  SystemInv'
<1>1. PathOf[r] \in Path /\ RequestOf[PathOf[r]] = RowKey(r) /\ RowKey(r) \in Folder
  BY RowKeyAgrees, SystemAssumption
<1>2. /\ m_cache' = m_cache \/ Get(PathOf[r])
      /\ workerPath' = workerPath /\ workerSize' = workerSize
      /\ workerPc' = workerPc \/ (workerPc = "unstarted" /\ workerPc' = "waiting")
      /\ m_inFlight' \subseteq m_inFlight \cup {RowKey(r)}
  <2>1. CASE StartQuery(r)
    BY <2>1 DEF StartQuery, queueVars, workerVars
  <2>2. CASE QueueMiss(r)
    BY <1>1, <2>2, RequestStartsWorker DEF QueueMiss
  <2>3. CASE \E since \in 0 .. rowClock[r] : TakeRefreshSlot(r, since)
    BY <2>3 DEF TakeRefreshSlot, queueVars, workerVars
  <2>4. CASE QueueRefresh(r)
    BY <1>1, <2>4, RequestStartsWorker DEF QueueRefresh
  <2> QED
    BY <2>1, <2>2, <2>3, <2>4 DEF RowStep
<1>3. SizesKept({})
  BY <1>2, GetKeepsSizes DEF SizesKept
<1>4. EntriesAreWhole' /\ EntriesAreExcused'
  BY <1>3, EntriesStay, AwaitedStays DEF SystemInv, notifierVars, fileVars
<1>5. FilesTypeOK' /\ RootIsHome' /\ ScanIsExcused'
  BY <1>2, ScanStays DEF SystemInv, workerVars
<1> QED
  BY <1>1, <1>2, <1>4, <1>5 DEF SystemInv, NotifierTypeOK, notifierVars

(* The worker's folder is one that rows show, from the dequeue to Finish.  *)
LEMMA WorkerIsOnFolder ==
  ASSUME SystemInv, Running
  PROVE  workerPath \in Folder /\ workerPath \in Key
BY DEF SystemInv, ResolverInv, QueueInv, InFlightIsWork, Work, ResolverTypeOK

LEMMA StoreKeepsInv ==
  ASSUME SystemInv, StoreSize, ResolverInv'
  PROVE  SystemInv'
<1>1. workerPath \in Folder /\ workerPath \in Path \cup Key /\ KeyOf[workerPath] = workerPath
  BY WorkerIsOnFolder, KeyOfPath DEF StoreSize, Store, Running
<1>2. /\ DOMAIN workerSize = Contents(workerPath)
      /\ workerSize = TrueSize(workerPath) \/ workerPath \in excused'
  BY DEF StoreSize, Store, SystemInv, FilesTypeOK, ScanIsExcused
<1>3. /\ SizesKept({workerPath})
      /\ workerPath \in DOMAIN m_cache' => m_cache'[workerPath].size = workerSize
  <2>1. CacheTypeOK /\ Put(workerPath, workerSize)
    BY DEF StoreSize, Store, SystemInv, ResolverInv, ResolverTypeOK
  <2> QED
    BY <1>1, <2>1, PutKeepsSizes
<1>4. ASSUME NEW k \in DOMAIN m_cache'
      PROVE  /\ k \in Folder /\ DOMAIN m_cache'[k].size = Contents(k)
             /\ m_cache'[k].size = TrueSize(k)' \/ Awaited(k)' \/ k \in excused'
  <2>1. TrueSize(k)' = TrueSize(k) /\ (k # workerPath => (k \in excused' <=> k \in excused))
    BY DEF TrueSize, StoreSize
  <2>2. CASE k = workerPath
    BY <1>1, <1>2, <1>3, <1>4, <2>1, <2>2
  <2>3. CASE k # workerPath
    <3>1. k \in DOMAIN m_cache /\ m_cache'[k].size = m_cache[k].size
      BY <1>3, <1>4, <2>3 DEF SizesKept
    <3>2. Awaited(k) => Awaited(k)'
      BY AwaitedStays DEF StoreSize, notifierVars
    <3> QED
      BY <2>1, <2>3, <3>1, <3>2 DEF SystemInv, EntriesAreWhole, EntriesAreExcused, Excused
  <2> QED
    BY <2>2, <2>3
<1>5. EntriesAreWhole' /\ EntriesAreExcused'
  BY <1>4 DEF EntriesAreWhole, EntriesAreExcused, Excused
<1>6. FilesTypeOK' /\ RootIsHome' /\ ScanIsExcused'
  <2>1. DOMAIN scanned = {} /\ UNCHANGED <<bytes, changes, scanned>> /\ spoiled' = FALSE
    BY DEF StoreSize, Store, SystemInv, FilesTypeOK
  <2>2. workerPc' = "finish"
    BY DEF StoreSize, Store
  <2> QED
    BY <2>1, <2>2 DEF SystemInv, FilesTypeOK, RootIsHome, ScanIsExcused
<1>7. m_inFlight' = m_inFlight /\ UNCHANGED notifierVars
  BY DEF StoreSize, Store, queueVars
<1> QED
  BY <1>5, <1>6, <1>7 DEF SystemInv, NotifierTypeOK, notifierVars

(* The worker's other steps, but for the scan.                             *)
LEMMA WorkerKeepsInv ==
  ASSUME SystemInv, Dequeue \/ Lookup \/ ResolveReparse \/ Finish,
         UNCHANGED <<notifierVars, fileVars>>, ResolverInv'
  PROVE  SystemInv'
<1>1. SizesKept({})
  BY GetKeepsSizes DEF SizesKept, Dequeue, Lookup, ResolveReparse, Finish
<1>2. EntriesAreWhole' /\ EntriesAreExcused'
  BY <1>1, EntriesStay, AwaitedStays DEF SystemInv, notifierVars, fileVars
<1>3. FilesTypeOK' /\ RootIsHome' /\ ScanIsExcused'
  <2>1. CASE ResolveReparse
    <3>1. /\ workerPath \in Folder /\ KeyOf[workerPath] = workerPath
      BY <2>1, WorkerIsOnFolder, RowKeyAgrees DEF ResolveReparse, Running
    <3>2. RootIsHome'
      BY <2>1, <3>1, JunctionAssumption DEF ResolveReparse, RootIsHome
    <3>3. DOMAIN scanned = {} /\ ~spoiled /\ UNCHANGED fileVars
      BY <2>1 DEF ResolveReparse, SystemInv, FilesTypeOK
    <3>4. FilesTypeOK' /\ ScanIsExcused'
      BY <2>1, <3>3 DEF SystemInv, FilesTypeOK, ScanIsExcused, ResolveReparse, fileVars
    <3> QED
      BY <3>2, <3>4
  <2>2. CASE Dequeue \/ Lookup \/ Finish
    <3>1. {workerPc, workerPc'} \cap {"scan", "store"} = {}
      BY <2>2 DEF Dequeue, Lookup, Finish
    <3> QED
      BY <3>1, ScanStays DEF SystemInv
  <2> QED
    BY <2>1, <2>2
<1>4. m_inFlight' \subseteq m_inFlight
  BY DEF Dequeue, Lookup, ResolveReparse, Finish, queueVars
<1> QED
  BY <1>2, <1>3, <1>4 DEF SystemInv, NotifierTypeOK, notifierVars

LEMMA RootIsRead ==
  ASSUME SystemInv, workerPc = "scan"
  PROVE  UnderRoot = Contents(workerPath)
BY DEF SystemInv, RootIsHome, UnderRoot, Contents

(* The scan: it reads a folder, ends with all of them, or is abandoned.    *)
LEMMA ReadFolderKeepsInv ==
  ASSUME SystemInv, NEW g, ReadFolder(g), ResolverInv'
  PROVE  SystemInv'
<1>1. /\ g \in Contents(workerPath) /\ g \in Folder /\ workerPc = "scan"
      /\ UNCHANGED <<m_cache, m_inFlight, workerVars, notifierVars, bytes, changes, spoiled,
                     excused>>
  BY RootIsRead DEF ReadFolder, Contents, Subtree, resolverVars, queueVars
<1>2. /\ DOMAIN scanned' = DOMAIN scanned \cup {g}
      /\ \A h \in DOMAIN scanned' : scanned'[h] = IF h = g THEN bytes[g] ELSE scanned[h]
      /\ scanned' = [h \in DOMAIN scanned' |-> scanned'[h]]
  BY DEF ReadFolder
<1>3. FilesTypeOK'
  <2>1. scanned' \in [DOMAIN scanned' -> 0 .. MaxChanges]
    BY <1>1, <1>2 DEF SystemInv, FilesTypeOK
  <2> QED
    BY <1>1, <1>2, <2>1 DEF SystemInv, FilesTypeOK, workerVars
<1>4. RootIsHome' /\ ScanIsExcused'
  BY <1>1, <1>2 DEF SystemInv, RootIsHome, ScanIsExcused, workerVars
<1>5. EntriesAreWhole' /\ EntriesAreExcused'
  BY <1>1, EntriesStay, AwaitedStays DEF SystemInv, notifierVars, SizesKept
<1> QED
  BY <1>1, <1>3, <1>4, <1>5 DEF SystemInv, NotifierTypeOK, notifierVars

LEMMA ScannedIsSize ==
  ASSUME SystemInv, workerPc = "scan", DOMAIN scanned = Contents(workerPath)
  PROVE  scanned \in Size /\ scanned # NoSize
<1>1. workerPath \in Folder /\ scanned \in [Contents(workerPath) -> 0 .. MaxChanges]
  BY WorkerIsOnFolder DEF Running, SystemInv, FilesTypeOK
<1> QED
  BY <1>1, SystemAssumption, CacheAssumption DEF Vectors

LEMMA EndOfScanKeepsInv ==
  ASSUME SystemInv, CompleteScan \/ AbandonScan, ResolverInv'
  PROVE  SystemInv'
<1>1. /\ workerPc = "scan"
      /\ UNCHANGED <<m_cache, m_inFlight, workerPath, notifierVars, bytes, changes, excused>>
      /\ scanned' = <<>> /\ spoiled' \in {spoiled, FALSE}
  BY DEF CompleteScan, AbandonScan, Scan, queueVars
<1>2. DOMAIN scanned' = {} /\ scanned' \in [DOMAIN scanned' -> 0 .. MaxChanges]
  BY <1>1
<1>3. \/ workerPc' = "finish" /\ spoiled' = FALSE
      \/ /\ workerPc' = "store" /\ workerSize' = scanned /\ spoiled' = spoiled
         /\ DOMAIN scanned = Contents(workerPath)
  <2>1. CASE AbandonScan
    BY <2>1 DEF AbandonScan, Scan
  <2>2. CASE CompleteScan
    <3>1. scanned # NoSize
      BY <1>1, <2>2, ScannedIsSize, RootIsRead DEF CompleteScan
    <3> QED
      BY <1>1, <2>2, <3>1, RootIsRead DEF CompleteScan, Scan
  <2> QED
    BY <2>1, <2>2
<1>4. FilesTypeOK' /\ RootIsHome'
  BY <1>1, <1>2, <1>3 DEF SystemInv, FilesTypeOK, RootIsHome
<1>5. ScanIsExcused'
  <2>1. CASE spoiled /\ workerPc' = "store"
    BY <1>3, <2>1 DEF ScanIsExcused
  <2>2. CASE ~spoiled /\ workerPc' = "store"
    <3>1. \A g \in DOMAIN scanned : scanned[g] = bytes[g]
      BY <1>1, <2>2 DEF SystemInv, ScanIsExcused
    <3>2. scanned = [g \in DOMAIN scanned |-> scanned[g]]
      BY DEF SystemInv, FilesTypeOK
    <3>3. scanned = TrueSize(workerPath)'
      BY <1>1, <1>3, <2>2, <3>1, <3>2 DEF TrueSize
    <3> QED
      BY <1>1, <1>3, <2>2, <3>3 DEF ScanIsExcused
  <2>3. CASE workerPc' = "finish"
    BY <2>3 DEF ScanIsExcused
  <2> QED
    BY <1>3, <2>1, <2>2, <2>3
<1>6. EntriesAreWhole' /\ EntriesAreExcused'
  BY <1>1, EntriesStay, AwaitedStays DEF SystemInv, notifierVars, SizesKept
<1> QED
  BY <1>1, <1>4, <1>5, <1>6 DEF SystemInv, NotifierTypeOK, notifierVars

(* The worker's announcement, which the shell posts to the notifier.       *)
LEMMA AnnouncementIsEvent ==
  ASSUME NotifierTypeOK, NEW p \in Path \cup Key, Announce(p)
  PROVE  events' \subseteq Event /\ events \subseteq events'
BY DEF NotifierTypeOK, Announce, Event

LEMMA NotifyKeepsInv ==
  ASSUME SystemInv, NotifyShellItemChanged, Announce(workerPath),
         UNCHANGED <<visits, toNotify, renamed, fileVars>>, ResolverInv'
  PROVE  SystemInv'
<1>1. workerPath \in Key
  BY DEF NotifyShellItemChanged, SystemInv, ResolverInv, ResolverTypeOK
<1>2. events' \subseteq Event /\ events \subseteq events'
  BY <1>1, AnnouncementIsEvent DEF SystemInv
<1>3. /\ m_cache' = m_cache /\ m_inFlight' = m_inFlight
      /\ {workerPc, workerPc'} \cap {"scan", "store"} = {}
  BY DEF NotifyShellItemChanged, queueVars
<1>4. EntriesAreWhole' /\ EntriesAreExcused'
  BY <1>2, <1>3, EntriesStay, AwaitedStays DEF SystemInv, SizesKept, fileVars
<1>5. FilesTypeOK' /\ RootIsHome' /\ ScanIsExcused'
  BY <1>3, ScanStays DEF SystemInv
<1> QED
  BY <1>2, <1>3, <1>4, <1>5 DEF SystemInv, NotifierTypeOK

LEMMA TickKeepsInv ==
  ASSUME SystemInv, TimePasses, ResolverInv'
  PROVE  SystemInv'
<1>1. SizesKept({}) /\ UNCHANGED <<workerVars, m_inFlight, notifierVars, fileVars>>
  BY TickKeepsSizes DEF TimePasses, Tick, queueVars
<1>2. EntriesAreWhole' /\ EntriesAreExcused'
  BY <1>1, EntriesStay, AwaitedStays DEF SystemInv, notifierVars, fileVars
<1>3. FilesTypeOK' /\ RootIsHome' /\ ScanIsExcused'
  BY <1>1, ScanStays DEF SystemInv
<1> QED
  BY <1>1, <1>2, <1>3 DEF SystemInv, NotifierTypeOK, notifierVars

-----------------------------------------------------------------------------
(* The notifier's steps: what it takes from the events it has still to     *)
(* visit, and what it has visited is gone.                                 *)
LEMMA TakeEventKeepsInv ==
  ASSUME SystemInv, NEW e \in events, TakeEvent(e),
         UNCHANGED <<m_inFlight, workerVars, fileVars>>, ResolverInv'
  PROVE  SystemInv'
<1>1. /\ visits = <<>> /\ renamed = <<>>
      /\ e \in Event /\ e.path \in Path \cup Key /\ e.newPath \in Path \cup {<<>>}
  BY DEF TakeEvent, NotifierIdle, SystemInv, NotifierTypeOK, Event
<1>2. ASSUME NEW k, Awaited(k)
      PROVE  Awaited(k)'
  <2>1. PICK d \in events : \E p \in {d.path, d.newPath} \ {<<>>} :
          /\ ~(d.kind = "updateitem" /\ IsExistingFolder(d.path))
          /\ k \in {KeyOf[v] : v \in Range(VisitedPaths(p))}
    BY <1>1, <1>2, NothingInEmpty DEF Awaited
  <2>2. CASE d # e
    BY <2>1, <2>2 DEF TakeEvent, Awaited
  <2>3. CASE d = e
    BY <2>1, <2>3 DEF TakeEvent, Awaited
  <2> QED
    BY <2>2, <2>3
<1>3. NotifierTypeOK'
  BY <1>1, SystemAssumption DEF TakeEvent, SystemInv, NotifierTypeOK
<1>4. EntriesAreWhole' /\ EntriesAreExcused'
  BY <1>2, EntriesStay DEF SystemInv, SizesKept, TakeEvent, fileVars
<1>5. FilesTypeOK' /\ RootIsHome' /\ ScanIsExcused'
  BY ScanStays DEF SystemInv
<1> QED
  BY <1>3, <1>4, <1>5 DEF SystemInv

LEMMA InvalidateNextKeepsInv ==
  ASSUME SystemInv, InvalidateNext, UNCHANGED <<m_inFlight, workerVars, fileVars>>, ResolverInv'
  PROVE  SystemInv'
<1> DEFINE p == Head(visits)
<1>1. /\ p \in Path \cup Key /\ Tail(visits) \in Seq(Path \cup Key)
      /\ Range(visits) = Range(Tail(visits)) \cup {p}
  BY FirstAndOthers DEF InvalidateNext, SystemInv, NotifierTypeOK
<1>2. SizesKept({}) /\ KeyOf[p] \notin DOMAIN m_cache'
  BY InvalidateKeepsSizes DEF InvalidateNext
<1>3. ASSUME NEW k \in DOMAIN m_cache', Awaited(k)
      PROVE  Awaited(k)'
  <2>1. k # KeyOf[p] /\ visits' = Tail(visits) /\ UNCHANGED <<events, renamed>>
    BY <1>2, <1>3 DEF InvalidateNext
  <2> QED
    BY <1>1, <1>3, <2>1 DEF Awaited
<1>4. NotifierTypeOK'
  BY <1>1 DEF InvalidateNext, SystemInv, NotifierTypeOK
<1>5. EntriesAreWhole' /\ EntriesAreExcused'
  BY <1>2, <1>3, EntriesStay DEF SystemInv, fileVars
<1>6. FilesTypeOK' /\ RootIsHome' /\ ScanIsExcused'
  BY ScanStays DEF SystemInv
<1> QED
  BY <1>4, <1>5, <1>6 DEF SystemInv

LEMMA ContinueKeepsInv ==
  ASSUME SystemInv, ContinueWithNewPath, UNCHANGED <<m_inFlight, workerVars, fileVars>>,
         ResolverInv'
  PROVE  SystemInv'
<1>1. ASSUME NEW k, Awaited(k)
      PROVE  Awaited(k)'
  BY <1>1, NothingInEmpty DEF ContinueWithNewPath, Awaited
<1>2. NotifierTypeOK'
  BY SystemAssumption DEF ContinueWithNewPath, SystemInv, NotifierTypeOK
<1>3. EntriesAreWhole' /\ EntriesAreExcused'
  BY <1>1, EntriesStay DEF SystemInv, SizesKept, ContinueWithNewPath, fileVars
<1>4. FilesTypeOK' /\ RootIsHome' /\ ScanIsExcused'
  BY ScanStays DEF SystemInv
<1> QED
  BY <1>2, <1>3, <1>4 DEF SystemInv

LEMMA NotifyNextKeepsInv ==
  ASSUME SystemInv, NotifyNext, UNCHANGED <<m_inFlight, workerVars, fileVars>>, ResolverInv'
  PROVE  SystemInv'
<1>1. Head(toNotify) \in Path \cup Key /\ Tail(toNotify) \in Seq(Path \cup Key)
  BY FirstAndOthers DEF NotifyNext, SystemInv, NotifierTypeOK
<1>2. events' \subseteq Event /\ events \subseteq events'
  BY <1>1, AnnouncementIsEvent DEF SystemInv, NotifyNext
<1>3. EntriesAreWhole' /\ EntriesAreExcused'
  BY <1>2, EntriesStay, AwaitedStays DEF SystemInv, SizesKept, NotifyNext, fileVars
<1>4. FilesTypeOK' /\ RootIsHome' /\ ScanIsExcused'
  BY ScanStays DEF SystemInv
<1>5. NotifierTypeOK'
  BY <1>1, <1>2 DEF NotifyNext, SystemInv, NotifierTypeOK
<1> QED
  BY <1>3, <1>4, <1>5 DEF SystemInv

-----------------------------------------------------------------------------
(* Files change: who holds or reads an older size is awaited or excused.   *)
LEMMA ChangeKeepsInv ==
  ASSUME SystemInv, NEW e \in Event, NEW gs \in SUBSET Folder, Post(e, gs),
         changes < MaxChanges, changes' = changes + 1,
         bytes' \in [Folder -> 0 .. MaxChanges],
         \A h \in Folder \ {Home[g] : g \in gs} : bytes'[h] = bytes[h],
         UNCHANGED <<resolverVars, visits, toNotify, renamed, scanned>>, ResolverInv',
         \A k \in UNION {Above(g) : g \in gs} : \E p \in {e.path, e.newPath} \ {<<>>} :
           /\ ~(e.kind = "updateitem" /\ IsExistingFolder(e.path))
           /\ k \in {KeyOf[v] : v \in Range(VisitedPaths(p))}
  PROVE  SystemInv'
<1> DEFINE affected == UNION {Affected(g) : g \in gs}
<1>1. UNCHANGED <<m_cache, m_inFlight, workerPc, workerPath, workerSize, visits, toNotify,
                  renamed, scanned>>
  BY DEF resolverVars, queueVars, workerVars
<1>2. events \subseteq events' /\ events' \subseteq Event /\ excused \subseteq excused'
  BY DEF Post, SystemInv, NotifierTypeOK
<1>3. ASSUME NEW k \in Folder, k \notin affected
      PROVE  (\A g \in Contents(k) : bytes'[g] = bytes[g]) /\ TrueSize(k)' = TrueSize(k)
  <2>1. \A g \in Contents(k) : g \in Folder \ {Home[h] : h \in gs}
    BY <1>3 DEF Affected, Contents, Subtree
  <2> QED
    BY <2>1 DEF TrueSize
<1>4. ASSUME NEW k \in affected
      PROVE  Awaited(k)' \/ k \in excused'
  <2>1. CASE k \in UNION {Above(g) : g \in gs}
    BY <1>4, <2>1 DEF Post, Awaited
  <2>2. CASE k \notin UNION {Above(g) : g \in gs}
    BY <1>4, <2>2 DEF Post
  <2> QED
    BY <2>1, <2>2
<1>5. EntriesAreWhole' /\ EntriesAreExcused'
  <2> SUFFICES ASSUME NEW k \in DOMAIN m_cache
               PROVE  /\ k \in Folder /\ DOMAIN m_cache[k].size = Contents(k)
                      /\ m_cache[k].size = TrueSize(k)' \/ Awaited(k)' \/ k \in excused'
    BY <1>1 DEF EntriesAreWhole, EntriesAreExcused, Excused
  <2>1. k \in Folder /\ DOMAIN m_cache[k].size = Contents(k)
    BY DEF SystemInv, EntriesAreWhole
  <2>2. CASE k \in affected
    BY <1>4, <2>1, <2>2
  <2>3. CASE k \notin affected
    <3>1. Awaited(k) => Awaited(k)'
      BY <1>1, <1>2, AwaitedStays
    <3>2. TrueSize(k)' = TrueSize(k)
      BY <1>3, <2>1, <2>3
    <3> QED
      BY <1>2, <2>1, <3>1, <3>2 DEF SystemInv, EntriesAreExcused, Excused
  <2> QED
    BY <2>2, <2>3
<1>6. ScanIsExcused'
  <2>1. CASE workerPc \notin {"scan", "store"}
    BY <1>1, <2>1 DEF ScanIsExcused
  <2>2. CASE workerPc \in {"scan", "store"} /\ workerPath \in affected
    <3>1. spoiled'
      BY <2>2 DEF Post, UnderScan
    <3> QED
      BY <1>1, <3>1 DEF ScanIsExcused
  <2>3. CASE workerPc \in {"scan", "store"} /\ workerPath \notin affected
    <3>1. workerPath \in Folder
      BY <2>3, WorkerIsOnFolder DEF Running
    <3>2. /\ \A g \in Contents(workerPath) : bytes'[g] = bytes[g]
          /\ TrueSize(workerPath)' = TrueSize(workerPath)
      BY <1>1, <1>3, <2>3, <3>1 DEF TrueSize
    <3>3. DOMAIN scanned \subseteq Contents(workerPath)
      BY DEF SystemInv, FilesTypeOK
    <3>4. spoiled => spoiled'
      BY DEF Post, SystemInv, FilesTypeOK
    <3> QED
      BY <1>1, <3>2, <3>3, <3>4 DEF SystemInv, ScanIsExcused
  <2> QED
    BY <2>1, <2>2, <2>3
<1>7. FilesTypeOK' /\ RootIsHome'
  <2>1. changes' \in 0 .. MaxChanges
    BY SystemAssumption DEF SystemInv, FilesTypeOK
  <2>2. spoiled' \in BOOLEAN /\ (spoiled' => workerPc \in {"scan", "store"})
    BY DEF Post, UnderScan, SystemInv, FilesTypeOK
  <2>3. UNCHANGED effectivePath
    BY DEF resolverVars, workerVars
  <2> QED
    BY <1>1, <2>1, <2>2, <2>3 DEF SystemInv, FilesTypeOK, RootIsHome
<1> QED
  BY <1>1, <1>2, <1>5, <1>6, <1>7 DEF SystemInv, NotifierTypeOK

(* The walk from a file visits every folder above it.                      *)
LEMMA FilesAreVisited ==
  ASSUME NEW g \in DOMAIN FileIn
  PROVE  /\ g \in Folder /\ FileIn[g] \in Path \ {<<>>} /\ ~IsExistingFolder(FileIn[g])
         /\ Above(g) \subseteq {KeyOf[v] : v \in Range(VisitedPaths(FileIn[g]))}
<1> DEFINE p == FileIn[g]
<1>1. /\ g \in Folder /\ p \in Path /\ ~IsExistingFolder(p)
      /\ DriveShape(p) \/ ServerShape(p)
      /\ \A i \in 1 .. Len(p) : p[i] # AltSep
      /\ p[Len(p)] \in Name /\ g = CacheKey(Chop(p))
  BY FileAssumption
<1>2. p # <<>>
  BY <1>1 DEF DriveShape, ServerShape
<1> HIDE DEF p
<1>3. ASSUME NEW k \in Above(g)
      PROVE  k \in {KeyOf[v] : v \in Range(VisitedPaths(p))}
  <2>1. k \in Folder /\ Len(k) <= Len(g) /\ SubSeq(g, 1, Len(k)) = k
    BY DEF Above, Subtree
  <2>2. PICK q \in Path : k = CacheKey(q)
    BY <2>1, SystemAssumption DEF Key
  <2>3. k \in Seq(Token) /\ (LongerThanRoot(k) => ~EndsInSep(k))
    BY <2>2, SpellingAssumption, KeysAreKept
  <2>4. Len(k) >= 2
    BY <2>1, FileAssumption
  <2>5. PICK v \in Range(VisitedPaths(p)) : CacheKey(v) = k
    <3>1. Len(k) <= Len(CacheKey(Chop(p))) /\ SubSeq(CacheKey(Chop(p)), 1, Len(k)) = k
      BY <1>1, <2>1
    <3> QED
      BY <1>1, <2>3, <2>4, <3>1, FoldersAboveAreVisited
  <2>6. v \in Path \cup Key
    <3>1. VisitedPaths(p) \in Seq(Path \cup Key)
      BY <1>1, SystemAssumption
    <3> QED
      BY <3>1 DEF Range
  <2> QED
    BY <2>5, <2>6 DEF KeyOf
<1> QED
  BY <1>1, <1>2, <1>3 DEF p

LEMMA FilesChangeKeepsInv ==
  ASSUME SystemInv, FilesChange, ResolverInv'
  PROVE  SystemInv'
<1>1. /\ changes < MaxChanges => changes + 1 \in 0 .. MaxChanges
      /\ bytes \in [Folder -> 0 .. MaxChanges]
  BY SystemAssumption DEF SystemInv, FilesTypeOK
<1>2. ASSUME NEW g \in DOMAIN FileIn, WriteFile(g)
      PROVE  SystemInv'
  <2> DEFINE e == [kind |-> "updateitem", path |-> FileIn[g], newPath |-> <<>>]
  <2>1. e \in Event /\ g \in Folder /\ FileIn[g] # <<>> /\ ~IsExistingFolder(FileIn[g])
    BY FilesAreVisited DEF Event
  <2>2. bytes' \in [Folder -> 0 .. MaxChanges] /\ \A h \in Folder \ {Home[f] : f \in {g}} : bytes'[h] = bytes[h]
    BY <1>1, <1>2, <2>1, JunctionAssumption DEF WriteFile
  <2>3. \A k \in UNION {Above(h) : h \in {g}} :
          k \in {KeyOf[v] : v \in Range(VisitedPaths(FileIn[g]))}
    BY FilesAreVisited
  <2>4. Post(e, {g}) /\ changes < MaxChanges /\ changes' = changes + 1
        /\ UNCHANGED <<resolverVars, visits, toNotify, renamed, scanned>>
    BY <1>2 DEF WriteFile
  <2>5. \A k \in UNION {Above(h) : h \in {g}} : \E p \in {e.path, e.newPath} \ {<<>>} :
           /\ ~(e.kind = "updateitem" /\ IsExistingFolder(e.path))
           /\ k \in {KeyOf[v] : v \in Range(VisitedPaths(p))}
    BY <2>1, <2>3
  <2> HIDE DEF e
  <2> QED
    BY <2>1, <2>2, <2>4, <2>5, ChangeKeepsInv
<1>3. ASSUME NEW g \in DOMAIN FileIn, NEW h \in DOMAIN FileIn, MoveFile(g, h)
      PROVE  SystemInv'
  <2> DEFINE e == [kind |-> "rename", path |-> FileIn[g], newPath |-> FileIn[h]]
  <2>1. /\ e \in Event /\ g \in Folder /\ h \in Folder
        /\ FileIn[g] # <<>> /\ FileIn[h] # <<>>
    BY FilesAreVisited DEF Event
  <2>2. /\ bytes' \in [Folder -> 0 .. MaxChanges]
        /\ \A f \in Folder \ {Home[x] : x \in {g, h}} : bytes'[f] = bytes[f]
    BY <1>1, <1>3, <2>1, JunctionAssumption DEF MoveFile
  <2>3. \A k \in UNION {Above(f) : f \in {g, h}} :
          \/ k \in {KeyOf[v] : v \in Range(VisitedPaths(FileIn[g]))}
          \/ k \in {KeyOf[v] : v \in Range(VisitedPaths(FileIn[h]))}
    BY FilesAreVisited
  <2>4. Post(e, {g, h}) /\ changes < MaxChanges /\ changes' = changes + 1
        /\ UNCHANGED <<resolverVars, visits, toNotify, renamed, scanned>>
    BY <1>3 DEF MoveFile
  <2>5. \A k \in UNION {Above(f) : f \in {g, h}} : \E p \in {e.path, e.newPath} \ {<<>>} :
           /\ ~(e.kind = "updateitem" /\ IsExistingFolder(e.path))
           /\ k \in {KeyOf[v] : v \in Range(VisitedPaths(p))}
    BY <2>1, <2>3
  <2> HIDE DEF e
  <2> QED
    BY <2>1, <2>2, <2>4, <2>5, ChangeKeepsInv
<1> QED
  BY <1>2, <1>3 DEF FilesChange

-----------------------------------------------------------------------------
(* The resolver's invariant: the system takes the resolver's steps, and    *)
(* the notifier's, which erase entries and make rows ask again.            *)
LEMMA NotifierKeepsResolver ==
  ASSUME ResolverInv, UNCHANGED resolverRest,
         m_cache' = m_cache \/ \E p \in Path \cup Key : Invalidate(p),
         dirty' \in [Row -> BOOLEAN], \A r \in Row : dirty[r] => dirty'[r]
  PROVE  ResolverInv'
<1>1. CacheTypeOK' /\ CacheWithinLimits'
  <2>1. CASE m_cache' = m_cache
    BY <2>1 DEF ResolverInv, ResolverTypeOK, CacheTypeOK, CacheWithinLimits
  <2>2. CASE \E p \in Path \cup Key : Invalidate(p)
    BY <2>2, InvalidateKeepsType, FewerEntriesKeepLimits DEF ResolverInv, ResolverTypeOK
  <2> QED
    BY <2>1, <2>2
<1> USE DEF resolverRest, queueVars, workerVars, historyVars
<1>2. ResolverTypeOK'
  BY <1>1 DEF ResolverInv, ResolverTypeOK, Running
<1>3. QueueInv' /\ HitIsShown'
  BY DEF ResolverInv, QueueInv, InFlightIsWork, Work, Running, QueueFits, FailedIsNotInFlight,
         HitIsShown
<1>4. PendingIsBacked'
  BY DEF ResolverInv, PendingIsBacked
<1> QED
  BY <1>1, <1>2, <1>3, <1>4 DEF ResolverInv

LEMMA SystemKeepsResolver ==
  ASSUME SystemInv, [SystemNext]_systemVars
  PROVE  ResolverInv'
<1>1. ResolverInv /\ dirty \in [Row -> BOOLEAN]
  BY DEF SystemInv, ResolverInv, ResolverTypeOK
<1>2. CASE NotifierStep
  <2>1. UNCHANGED resolverRest /\ dirty' \in [Row -> BOOLEAN] /\ \A r \in Row : dirty[r] => dirty'[r]
    BY <1>1, <1>2 DEF NotifierStep, UpdateItem
  <2>2. m_cache' = m_cache \/ \E p \in Path \cup Key : Invalidate(p)
    BY <1>2, FirstAndOthers
    DEF NotifierStep, TakeEvent, InvalidateNext, ContinueWithNewPath, NotifyNext, SystemInv,
        NotifierTypeOK
  <2> QED
    BY <1>1, <2>1, <2>2, NotifierKeepsResolver
<1>3. CASE CompleteScan
  <2>1. workerPc = "scan" /\ DOMAIN scanned = Contents(workerPath)
    BY <1>3, RootIsRead DEF CompleteScan
  <2>2. scanned \in Size /\ Scan(scanned)
    BY <1>3, <2>1, ScannedIsSize DEF CompleteScan
  <2> QED
    BY <1>1, <2>2, StepKeepsInv DEF ResolverNext, WorkerStep
<1>4. CASE AbandonScan
  BY <1>1, <1>4, StepKeepsInv DEF AbandonScan, ResolverNext, WorkerStep
<1>5. CASE UNCHANGED resolverVars
  BY <1>1, <1>5, StepKeepsInv
<1>6. CASE \/ Dequeue \/ Lookup \/ ResolveReparse \/ StoreSize \/ Finish
           \/ NotifyShellItemChanged \/ Tick
  BY <1>1, <1>6, StepKeepsInv DEF StoreSize, ResolverNext, WorkerStep
<1>7. CASE \E r \in Row : StartQuery(r) \/ RowStep(r)
  BY <1>1, <1>7, StepKeepsInv DEF ResolverNext
<1> QED
  BY <1>2, <1>3, <1>4, <1>5, <1>6, <1>7
  DEF SystemNext, Query, QueryStep, WorkerProgress, TimePasses, FilesChange, WriteFile, MoveFile,
      ReadFolder, systemVars

-----------------------------------------------------------------------------
LEMMA SystemInitEstablishesInv == SystemInit => SystemInv
<1> SUFFICES ASSUME SystemInit
             PROVE  SystemInv
  OBVIOUS
<1>1. ResolverInv
  BY InitEstablishesInv DEF SystemInit
<1>2. DOMAIN m_cache = {} /\ m_inFlight = {} /\ workerPc = "unstarted"
  BY DEF SystemInit, ResolverInit, CacheInit
<1>3. NotifierTypeOK
  BY DEF SystemInit, NotifierInit, NotifierTypeOK
<1>4. FilesTypeOK /\ RootIsHome /\ ScanIsExcused
  <2>1. DOMAIN scanned = {} /\ scanned \in [DOMAIN scanned -> 0 .. MaxChanges]
    BY DEF SystemInit
  <2>2. bytes \in [Folder -> 0 .. MaxChanges] /\ changes \in 0 .. MaxChanges
    BY SystemAssumption DEF SystemInit
  <2>3. spoiled = FALSE
    BY DEF SystemInit
  <2> QED
    BY <1>2, <2>1, <2>2, <2>3 DEF FilesTypeOK, RootIsHome, ScanIsExcused
<1> QED
  BY <1>1, <1>2, <1>3, <1>4 DEF SystemInv, EntriesAreWhole, EntriesAreExcused

LEMMA SystemStepKeepsInv == SystemInv /\ [SystemNext]_systemVars => SystemInv'
<1> SUFFICES ASSUME SystemInv, [SystemNext]_systemVars
             PROVE  SystemInv'
  OBVIOUS
<1>1. ResolverInv'
  BY SystemKeepsResolver
<1>2. ASSUME NEW r \in Row, Query(r) \/ QueryStep(r)
      PROVE  SystemInv'
  BY <1>1, <1>2, QueryKeepsInv DEF Query, QueryStep
<1>3. CASE WorkerProgress
  BY <1>1, <1>3, WorkerKeepsInv, StoreKeepsInv, ReadFolderKeepsInv, EndOfScanKeepsInv,
     NotifyKeepsInv
  DEF WorkerProgress
<1>4. CASE NotifierStep
  <2>1. UNCHANGED <<m_inFlight, workerVars, fileVars>>
    BY <1>4 DEF NotifierStep, resolverRest, queueVars
  <2> QED
    BY <1>1, <1>4, <2>1, TakeEventKeepsInv, InvalidateNextKeepsInv, ContinueKeepsInv,
       NotifyNextKeepsInv
    DEF NotifierStep
<1>5. CASE FilesChange
  BY <1>1, <1>5, FilesChangeKeepsInv
<1>6. CASE TimePasses
  BY <1>1, <1>6, TickKeepsInv
<1>7. CASE UNCHANGED systemVars
  <2>1. UNCHANGED <<m_cache, m_inFlight, workerVars, notifierVars, fileVars>>
    BY <1>7 DEF systemVars, resolverVars, queueVars
  <2>2. EntriesAreWhole' /\ EntriesAreExcused'
    BY <2>1, EntriesStay, AwaitedStays DEF SystemInv, notifierVars, fileVars, SizesKept
  <2>3. FilesTypeOK' /\ RootIsHome' /\ ScanIsExcused'
    BY <2>1, ScanStays DEF SystemInv
  <2> QED
    BY <1>1, <2>1, <2>2, <2>3 DEF SystemInv, NotifierTypeOK, notifierVars
<1> QED
  BY <1>2, <1>3, <1>4, <1>5, <1>6, <1>7 DEF SystemNext

(* The invariant is inductive.                                             *)
THEOREM SystemInvariant == SystemSpec => []SystemInv
BY SystemInitEstablishesInv, SystemStepKeepsInv, PTL DEF SystemSpec

(* Every entry of the cache is a whole tree's size: of the tree that the   *)
(* path it is filed under leads to, junction or not, whatever changes,     *)
(* fails or is lost (ResolveReparse, the scan, Store).                     *)
THEOREM SystemTypeCorrect == SystemSpec => []SystemTypeOK
<1>1. SystemInv => SystemTypeOK
  <2> SUFFICES ASSUME SystemInv
               PROVE  SystemTypeOK
    OBVIOUS
  <2>1. \A i \in DOMAIN visits : visits[i] \in Path \cup Key
    BY DEF SystemInv, NotifierTypeOK
  <2>2. DOMAIN scanned \subseteq Folder
    BY DEF SystemInv, FilesTypeOK, Contents, Subtree
  <2>3. spoiled => workerPc \in {"scan", "store"}
    BY DEF SystemInv, FilesTypeOK
  <2> QED
    BY <2>1, <2>2, <2>3 DEF SystemInv, ResolverInv, EntriesAreWhole, NotifierTypeOK, SystemTypeOK
<1> QED
  BY <1>1, SystemInvariant, PTL

(* The cache serves a wrong size only while the event that will erase it   *)
(* is on its way, or, until the next scan, if that event was lost, came    *)
(* during the scan of that folder, or named the change by a path on the    *)
(* other side of a junction: the notifier's erasures, the worker's Store   *)
(* and the files' changes come in any order.                               *)
THEOREM StaleStaysExcused == SystemSpec => []StaleIsExcused
<1>1. SystemInv => StaleIsExcused
  BY DEF SystemInv, EntriesAreExcused, Excused, StaleIsExcused, Stale, Fresh
<1> QED
  BY <1>1, SystemInvariant, PTL

(* No row is abandoned, either, in a system whose cache is erased behind   *)
(* the resolver's back.                                                    *)
THEOREM PendingIsNeverAbandonedInSystem == SystemSpec => []PendingIsBacked
<1>1. SystemInv => PendingIsBacked
  BY DEF SystemInv, ResolverInv
<1> QED
  BY <1>1, SystemInvariant, PTL
=============================================================================
