-------------------------- MODULE FolderSizeSystem --------------------------
(***************************************************************************)
(* The whole pipeline on a file system that changes: Explorer's rows, the  *)
(* resolver and its worker, the scan of a folder tree, the cache, and the  *)
(* change notifier that invalidates the cache behind their backs.          *)
(*                                                                         *)
(* A size is the vector of what the scan read in each folder of the tree:  *)
(* the code adds these numbers up, and two vectors with one sum would      *)
(* only hide a stale part.                                                 *)
(*                                                                         *)
(* Several paths may lead to one folder, through junctions: Home says      *)
(* which.  The worker scans what a path leads to and files the size under  *)
(* the path; the notifier knows the shell's paths only.                    *)
(***************************************************************************)
EXTENDS SizeResolver, ChangeNotifier, FolderNames

CONSTANTS
  FileIn,      \* the files that change: for its folder, a file's path as the shell
               \* reports it
  Home,        \* the folder that a folder's path leads to, itself unless the path is or
               \* passes a junction
  MaxChanges,  \* bound: file system changes
  MayLose      \* whether the shell may lose an event

VARIABLES
  bytes,    \* what the file of each folder holds
  changes,  \* changes made so far
  scanned,  \* what the running scan has read
  spoiled,  \* history: a change fell into the running scan, or before its size is stored
  excused   \* history: entries with a change the notifier cannot answer for

fileVars   == <<bytes, changes, scanned, spoiled, excused>>
systemVars == <<resolverVars, notifierVars, fileVars>>

(* The folders whose paths begin with k's, and the folders that a scan of  *)
(* k reads: it starts where k leads to, and passes over the junctions it   *)
(* comes to.                                                               *)
Subtree(k)  == {g \in Folder : Len(g) >= Len(k) /\ SubSeq(g, 1, Len(k)) = k}
Contents(k) == {g \in Subtree(Home[k]) : Home[g] = g}
TrueSize(k) == [g \in Contents(k) |-> bytes[g]]

(* What a scan of some folder can add up.                                  *)
Vectors == UNION {[Contents(k) -> 0 .. MaxChanges] : k \in Folder}

(* The paths are closed under the notifier's walk, and rows show folders.  *)
ASSUME SystemAssumption ==
  /\ MaxChanges \in Nat
  /\ Folder \subseteq Key /\ Vectors \subseteq Size
  /\ \A r \in Row : RowKey(r) \in Folder
  /\ \A p \in Path \cup Key : VisitedPaths(p) \in Seq(Path \cup Key)

(* GetFinalPathNameByHandle names the folder that the junction leads to,   *)
(* and junctions stay as they are.                                         *)
ASSUME JunctionAssumption ==
  /\ Home \in [Folder -> Folder]
  /\ \A k \in Folder : Home[Home[k]] = Home[k]
  /\ \A k \in Folder : ~OnServer(k) =>
       \A t \in Target[k] : HasDrive(t) => KeyOf[t] \in Folder /\ Home[KeyOf[t]] = Home[k]

SystemInit ==
  /\ ResolverInit
  /\ NotifierInit
  /\ bytes = [g \in Folder |-> 0]
  /\ changes = 0
  /\ scanned = <<>>
  /\ spoiled = FALSE
  /\ excused = {}

-----------------------------------------------------------------------------
(* FolderScanner::scan_recursive reads the folders of the tree one by one, *)
(* and files change between the reads.                                     *)
UnderRoot == Contents(KeyOf[effectivePath])

ReadFolder(g) ==
  /\ workerPc = "scan"
  /\ g \in UnderRoot \ DOMAIN scanned
  /\ scanned' = [h \in DOMAIN scanned \cup {g} |-> IF h = g THEN bytes[g] ELSE scanned[h]]
  /\ UNCHANGED <<resolverVars, notifierVars, bytes, changes, spoiled, excused>>

CompleteScanOfPart ==
  /\ workerPc = "scan"
  /\ DOMAIN scanned \subseteq UnderRoot
  /\ Scan(scanned)
  /\ scanned' = <<>>
  /\ UNCHANGED <<notifierVars, bytes, changes, spoiled, excused>>

CompleteScan ==
  /\ workerPc = "scan"
  /\ DOMAIN scanned = UnderRoot
  /\ Scan(scanned)
  /\ scanned' = <<>>
  /\ UNCHANGED <<notifierVars, bytes, changes, spoiled, excused>>

AbandonScan ==
  /\ Scan(NoSize)
  /\ scanned' = <<>>
  /\ spoiled' = FALSE
  /\ UNCHANGED <<notifierVars, bytes, changes, excused>>

StoreSize ==
  /\ Store
  /\ spoiled' = FALSE
  /\ excused' = IF spoiled THEN excused \cup {workerPath} ELSE excused \ {workerPath}
  /\ UNCHANGED <<notifierVars, bytes, changes, scanned>>

-----------------------------------------------------------------------------
(* The file system.  A change to the file of a folder changes the size of  *)
(* every folder whose path leads above it; the shell posts an event for    *)
(* it, which names the path the change was made by, or loses it.           *)
Above(g)    == {k \in Folder : g \in Subtree(k)}
Affected(g) == {k \in Folder : Home[g] \in Contents(k)}

(* A file is no folder.  It is spelled as the shell spells it, with "\"    *)
(* only, and behind the folder it is in comes its name.  A folder is a     *)
(* root at least.                                                          *)
ASSUME FileAssumption ==
  /\ \A k \in Folder : Len(k) >= 2
  /\ \A g \in DOMAIN FileIn :
       LET p == FileIn[g]
       IN  /\ g \in Folder /\ p \in Path /\ ~IsExistingFolder(p)
           /\ DriveShape(p) \/ ServerShape(p)
           /\ \A i \in 1 .. Len(p) : p[i] # AltSep
           /\ p[Len(p)] \in Name /\ g = CacheKey(Chop(p))

UnderScan == IF workerPc \in {"scan", "store"} THEN {workerPath} ELSE {}

Post(e, gs) ==
  LET affected == UNION {Affected(g) : g \in gs}
      named    == UNION {Above(g) : g \in gs}
  IN  /\ spoiled' = (spoiled \/ affected \cap UnderScan # {})
      /\ \/ events' = events \cup {e} /\ excused' = excused \cup (affected \ named)
         \/ MayLose /\ excused' = excused \cup affected /\ UNCHANGED events

WriteFile(g) ==
  /\ changes < MaxChanges
  /\ changes' = changes + 1
  /\ bytes' = [bytes EXCEPT ![Home[g]] = changes + 1]
  /\ Post([kind |-> "updateitem", path |-> FileIn[g], newPath |-> <<>>], {g})
  /\ UNCHANGED <<resolverVars, visits, toNotify, renamed, scanned>>

MoveFile(g, h) ==
  /\ Home[g] # Home[h]
  /\ changes < MaxChanges
  /\ changes' = changes + 1
  /\ bytes' = [bytes EXCEPT ![Home[g]] = changes + 1, ![Home[h]] = changes + 1]
  /\ Post([kind |-> "rename", path |-> FileIn[g], newPath |-> FileIn[h]], {g, h})
  /\ UNCHANGED <<resolverVars, visits, toNotify, renamed, scanned>>

-----------------------------------------------------------------------------
resolverRest == <<queueVars, workerVars, historyVars, rowPc, rowClock, shown>>

NotifierStep ==
  \/ /\ \/ \E e \in events : TakeEvent(e)
        \/ InvalidateNext
        \/ ContinueWithNewPath
     /\ UNCHANGED <<resolverRest, dirty, fileVars>>
  \/ /\ NotifyNext
     /\ UpdateItem(KeyOf[Head(toNotify)])
     /\ UNCHANGED <<resolverRest, fileVars>>

WorkerProgress ==
  \/ (Dequeue \/ Lookup \/ ResolveReparse \/ Finish) /\ UNCHANGED <<notifierVars, fileVars>>
  \/ \E g \in Folder : ReadFolder(g)
  \/ CompleteScan
  \/ AbandonScan
  \/ StoreSize
  \/ /\ NotifyShellItemChanged
     /\ Announce(workerPath)
     /\ UNCHANGED <<visits, toNotify, renamed, fileVars>>

Query(r)    == StartQuery(r) /\ UNCHANGED <<notifierVars, fileVars>>
QueryStep(r) == RowStep(r) /\ UNCHANGED <<notifierVars, fileVars>>
TimePasses  == Tick /\ UNCHANGED <<notifierVars, fileVars>>

FilesChange == \/ \E g \in DOMAIN FileIn : WriteFile(g)
               \/ \E g, h \in DOMAIN FileIn : MoveFile(g, h)

SystemNext == \/ \E r \in Row : Query(r) \/ QueryStep(r)
              \/ WorkerProgress
              \/ NotifierStep
              \/ FilesChange
              \/ TimePasses

SystemSpec == SystemInit /\ [][SystemNext]_systemVars

(* Threads are scheduled and a row told to update asks again; besides,     *)
(* time passes, and the user looks at the window again and again.  Strong  *)
(* fairness for time, because MaxDelay stops the clock while a row is      *)
(* between a hit and its refresh.                                          *)
WatchedSystemSpec ==
  /\ SystemSpec
  /\ WF_systemVars(WorkerProgress)
  /\ WF_systemVars(NotifierStep)
  /\ \A r \in Row : /\ WF_systemVars(QueryStep(r))
                    /\ WF_systemVars(Query(r))
  /\ SF_systemVars(TimePasses)

-----------------------------------------------------------------------------
(* Every size in the cache is complete: it was read in all the folders     *)
(* that the path it is filed under leads to, and in no others.             *)
SystemTypeOK ==
  /\ ResolverTypeOK
  /\ \A k \in DOMAIN m_cache : k \in Folder /\ DOMAIN m_cache[k].size = Contents(k)
  /\ events \subseteq Event
  /\ \A i \in DOMAIN visits : visits[i] \in Path \cup Key
  /\ DOMAIN scanned \subseteq Folder
  /\ spoiled => workerPc \in {"scan", "store"}

Stale(k) == Fresh(k) /\ m_cache[k].size # TrueSize(k)

(* An event whose invalidation of k is still to come.                      *)
Awaited(k) ==
  \/ \E e \in events : \E p \in {e.path, e.newPath} \ {<<>>} :
       /\ ~(e.kind = "updateitem" /\ IsExistingFolder(e.path))
       /\ k \in {KeyOf[v] : v \in Range(VisitedPaths(p))}
  \/ k \in {KeyOf[v] : v \in Range(visits)}
  \/ renamed # <<>> /\ k \in {KeyOf[v] : v \in Range(VisitedPaths(renamed))}

(* The cache serves a size that is not the folder's only while the event   *)
(* that will erase it is on its way, or until it is scanned again if that  *)
(* event was lost, if the change fell into the very scan the size is from, *)
(* or if the event named the change by a path that does not pass the       *)
(* entry's, a junction being between the two.  (The notifier's walk,       *)
(* against Store in the worker and the hits of rows.)                      *)
StaleIsExcused == \A k \in Folder : Stale(k) => Awaited(k) \/ k \in excused

(* The notifier's own announcements and the worker's do not feed it: once  *)
(* files stop changing it stops invalidating, though refreshes go on.      *)
NotifierCalmsDown == <>[](visits = <<>>)

(* Whatever events are lost and whichever scans fail, once files stop      *)
(* changing a row that is looked at again and again stops showing a size   *)
(* that is not its folder's.                                               *)
SizesConverge ==
  \A r \in Row : <>[](shown[r] \in {Blank, Pending, TrueSize(RowKey(r))})

(* change_notifier.cpp:57: after the invalidation, "re-navigating a parent *)
(* folder shows updated sizes".                                            *)
InvalidatedIsUpdated ==
  events = {} /\ NotifierIdle => \A k \in Folder : ~Stale(k)

(* technical-overview.md:21: a visible folder is refreshed "periodically   *)
(* in the background so missed shell notifications do not leave Explorer   *)
(* stuck on stale sizes until the full cache TTL expires".  When the TTL   *)
(* has expired, no row still shows a wrong size with nothing under way     *)
(* that would replace it.                                                  *)
NothingUnderWay == /\ events = {} /\ NotifierIdle
                   /\ workerPc \in {"unstarted", "waiting"} /\ m_queue = <<>>
                   /\ \A r \in Row : rowPc[r] = "idle" /\ ~dirty[r]

VisibleIsRefreshed ==
  NothingUnderWay =>
    \A r \in Row : shown[r] \in {Blank, Pending, TrueSize(RowKey(r))} \/ Fresh(RowKey(r))
=============================================================================
