-------------------------- MODULE LifecycleProofs ---------------------------
(***************************************************************************)
(* The safety properties of Lifecycle, for any hooked functions, and those *)
(* of HookCalls, for any threads and any nesting; and that the calls leave *)
(* Lifecycle's invariant, whose steps they only watch, as it is.           *)
(***************************************************************************)
EXTENDS HookCalls, FiniteSetTheorems, SequenceTheorems, TLAPS

(* The initialisation thread's place, and those of the functions it calls. *)
InitPlaces ==
  /\ initPc = "none" <=> ~s_initFlag
  /\ initPc \in {"none", "created", "check"} => installPc = "idle"
  /\ initPc = "install" => installPc # "idle"
  /\ initPc \in {"start", "ending", "gone"} => installPc \in {"idle", "returned"}
  /\ initPc \in {"none", "created", "check", "install"} => startPc = "idle"
  /\ initPc \in {"ending", "gone"} => startPc \in {"idle", "returned"}

(* DllMain's: it is past its look at s_initialized only after an install.  *)
DetachPlaces ==
  /\ detachPc # "loaded" => s_initFlag
  /\ detachPc \notin {"loaded", "exited"} /\ threadsPin => ~InitInModule
  /\ s_initialized \/ detachPc \in {"stop", "remove"} =>
       installPc = "returned" /\ initPc \in {"start", "ending", "gone"}
  /\ removePc # "idle" => installPc = "returned"
  /\ removePc \in {"check", "begin", "detach", "commit"} => detachPc = "remove"

(* The transaction is pending while its owner is between begin and commit. *)
TransactionOwned ==
  /\ transaction = "install" <=> installPc \in {"attach", "commit"}
  /\ transaction = "remove" <=> removePc \in {"detach", "commit"}

(* Nothing is hooked before install_hooks returns; then all of originals.  *)
Installing ==
  /\ installPc # "returned" => ~m_active /\ hooked = {}
  /\ installPc \in {"begin", "attach", "commit"} => Critical \subseteq originals
  /\ installPc = "commit" => queued = originals

(* A removal begins on active hooks, and takes all of them or has failed.  *)
Removing ==
  /\ s_initialized /\ detachPc \in {"loaded", "check"} => m_active
  /\ detachPc = "stop" => m_active
  /\ removePc \in {"check", "begin", "detach", "commit"} => m_active
  /\ removePc = "commit" => queued = originals \/ removalFailed
  /\ removePc = "returned" => hooked = {} \/ removalFailed

(* Hooks that stay are known to DllMain, or it looked too early.           *)
Announced ==
  /\ initPc \in {"start", "ending", "gone"} /\ hooked # {} => s_initialized \/ removalFailed
  /\ threadsPin /\ detachPc \in {"clean", "join", "leave", "unloaded"} =>
       hooked = {} \/ removalFailed

(* m_thread is set last and cleared with the event.                        *)
Handles ==
  /\ m_thread => startPc = "returned"
  /\ stopPc \in {"wait", "close"} => m_thread
  /\ startPc \in {"idle", "start"} => ~m_stop_event
  /\ startPc \in {"create", "store"} => m_stop_event
  /\ startPc \in {"idle", "returned"} => (m_thread <=> m_stop_event)

(* DllMain gets past the join only without a worker.                       *)
WorkerIsJoined == detachPc \in {"leave", "unloaded"} /\ m_stopWorker => ~m_worker

LifecycleInv ==
  /\ LifecycleFlags /\ LifecyclePlaces /\ HooksAreKnown /\ InitPlaces /\ DetachPlaces
  /\ TransactionOwned /\ Installing /\ Removing /\ Announced /\ Handles
  /\ WorkerIsJoined

-----------------------------------------------------------------------------
(* install_hooks.                                                          *)
LEMMA InstallKeeps ==
  ASSUME LifecycleInv, InstallStep, UNCHANGED <<notifierVars, threadVars, lifeVars>>
  PROVE  LifecycleInv'
<1> USE DEF LifecycleInv, notifierVars, threadVars, lifeVars
<1>1. CASE Resolve
  <2> USE <1>1 DEF Resolve, detourVars
  <2>1. LifecycleFlags'
    BY Zenon DEF LifecycleFlags
  <2>2. LifecyclePlaces'
    BY DEF LifecyclePlaces, Hook
  <2>3. InitPlaces' /\ DetachPlaces'
    BY DEF InitPlaces, DetachPlaces, LifecyclePlaces, Removing, Installing,
           HooksAreKnown, InitInModule
  <2>4. TransactionOwned' /\ Installing' /\ Removing'
    BY DEF TransactionOwned, Installing, Removing, HooksAreKnown, InitPlaces,
           DetachPlaces
  <2>5. HooksAreKnown' /\ Announced'
    BY DEF HooksAreKnown, Announced, Installing, Removing, InitPlaces, DetachPlaces,
           InitInModule, LifecyclePlaces
  <2>6. Handles' /\ WorkerIsJoined'
    BY DEF Handles, InitPlaces, LifecyclePlaces, WorkerIsJoined
  <2> QED
    BY <2>1, <2>2, <2>3, <2>4, <2>5, <2>6
<1>2. CASE BeginInstall
  <2> USE <1>2 DEF BeginInstall, Begin, detourVars
  <2>1. LifecycleFlags'
    BY Zenon DEF LifecycleFlags
  <2>2. LifecyclePlaces'
    BY DEF LifecyclePlaces, Hook
  <2>3. InitPlaces' /\ DetachPlaces'
    BY DEF InitPlaces, DetachPlaces, LifecyclePlaces, Removing, Installing,
           HooksAreKnown, InitInModule
  <2>4. TransactionOwned' /\ Installing' /\ Removing'
    BY DEF TransactionOwned, Installing, Removing, HooksAreKnown, InitPlaces,
           DetachPlaces
  <2>5. HooksAreKnown' /\ Announced'
    BY DEF HooksAreKnown, Announced, Installing, Removing, InitPlaces, DetachPlaces,
           InitInModule, LifecyclePlaces
  <2>6. Handles' /\ WorkerIsJoined'
    BY DEF Handles, InitPlaces, LifecyclePlaces, WorkerIsJoined
  <2> QED
    BY <2>1, <2>2, <2>3, <2>4, <2>5, <2>6
<1>3. CASE AttachAll
  <2> USE <1>3 DEF AttachAll, InstallRegQueryHook, EndTransaction
  <2>1. LifecycleFlags'
    BY Zenon DEF LifecycleFlags
  <2>2. LifecyclePlaces'
    BY DEF LifecyclePlaces, Hook
  <2>3. InitPlaces' /\ DetachPlaces'
    BY DEF InitPlaces, DetachPlaces, LifecyclePlaces, Removing, Installing,
           HooksAreKnown, InitInModule
  <2>4. TransactionOwned' /\ Installing' /\ Removing'
    BY DEF TransactionOwned, Installing, Removing, HooksAreKnown, InitPlaces,
           DetachPlaces
  <2>5. HooksAreKnown' /\ Announced'
    BY DEF HooksAreKnown, Announced, Installing, Removing, InitPlaces, DetachPlaces,
           InitInModule, LifecyclePlaces
  <2>6. Handles' /\ WorkerIsJoined'
    BY DEF Handles, InitPlaces, LifecyclePlaces, WorkerIsJoined
  <2> QED
    BY <2>1, <2>2, <2>3, <2>4, <2>5, <2>6
<1>4. CASE CommitInstall
  <2> USE <1>4 DEF CommitInstall, EndTransaction
  <2>1. LifecycleFlags'
    BY Zenon DEF LifecycleFlags
  <2>2. LifecyclePlaces'
    BY DEF LifecyclePlaces, Hook
  <2>3. InitPlaces' /\ DetachPlaces'
    BY DEF InitPlaces, DetachPlaces, LifecyclePlaces, Removing, Installing,
           HooksAreKnown, InitInModule
  <2>4. TransactionOwned' /\ Installing' /\ Removing'
    BY DEF TransactionOwned, Installing, Removing, HooksAreKnown, InitPlaces,
           DetachPlaces
  <2>5. HooksAreKnown' /\ Announced'
    BY DEF HooksAreKnown, Announced, Installing, Removing, InitPlaces, DetachPlaces,
           InitInModule, LifecyclePlaces
  <2>6. Handles' /\ WorkerIsJoined'
    BY DEF Handles, InitPlaces, LifecyclePlaces, WorkerIsJoined
  <2> QED
    BY <2>1, <2>2, <2>3, <2>4, <2>5, <2>6
<1> QED
  BY <1>1, <1>2, <1>3, <1>4 DEF InstallStep

(* remove_hooks.                                                           *)
LEMMA RemoveKeeps ==
  ASSUME LifecycleInv, RemoveStep, UNCHANGED <<notifierVars, threadVars, lifeVars>>
  PROVE  LifecycleInv'
<1> USE DEF LifecycleInv, notifierVars, threadVars, lifeVars
<1>1. CASE CheckActive
  <2> USE <1>1 DEF CheckActive, detourVars
  <2>1. LifecycleFlags'
    BY Zenon DEF LifecycleFlags
  <2>2. LifecyclePlaces'
    BY DEF LifecyclePlaces, Hook
  <2>3. InitPlaces' /\ DetachPlaces'
    BY DEF InitPlaces, DetachPlaces, LifecyclePlaces, Removing, Installing,
           HooksAreKnown, InitInModule
  <2>4. TransactionOwned' /\ Installing' /\ Removing'
    BY DEF TransactionOwned, Installing, Removing, HooksAreKnown, InitPlaces,
           DetachPlaces
  <2>5. HooksAreKnown' /\ Announced'
    BY DEF HooksAreKnown, Announced, Installing, Removing, InitPlaces, DetachPlaces,
           InitInModule, LifecyclePlaces
  <2>6. Handles' /\ WorkerIsJoined'
    BY DEF Handles, InitPlaces, LifecyclePlaces, WorkerIsJoined
  <2> QED
    BY <2>1, <2>2, <2>3, <2>4, <2>5, <2>6
<1>2. CASE BeginRemoval
  <2> USE <1>2 DEF BeginRemoval, Begin, RemovalFails, detourVars
  <2>1. LifecycleFlags'
    BY Zenon DEF LifecycleFlags
  <2>2. LifecyclePlaces'
    BY DEF LifecyclePlaces, Hook
  <2>3. InitPlaces' /\ DetachPlaces'
    BY DEF InitPlaces, DetachPlaces, LifecyclePlaces, Removing, Installing,
           HooksAreKnown, InitInModule
  <2>4. TransactionOwned' /\ Installing' /\ Removing'
    BY DEF TransactionOwned, Installing, Removing, HooksAreKnown, InitPlaces,
           DetachPlaces
  <2>5. HooksAreKnown' /\ Announced'
    BY DEF HooksAreKnown, Announced, Installing, Removing, InitPlaces, DetachPlaces,
           InitInModule, LifecyclePlaces
  <2>6. Handles' /\ WorkerIsJoined'
    BY DEF Handles, InitPlaces, LifecyclePlaces, WorkerIsJoined
  <2> QED
    BY <2>1, <2>2, <2>3, <2>4, <2>5, <2>6
<1>3. CASE DetachAll
  <2> USE <1>3 DEF DetachAll, RemovalFails, EndTransaction
  <2>1. LifecycleFlags'
    BY Zenon DEF LifecycleFlags
  <2>2. LifecyclePlaces'
    BY DEF LifecyclePlaces, Hook
  <2>3. InitPlaces' /\ DetachPlaces'
    BY DEF InitPlaces, DetachPlaces, LifecyclePlaces, Removing, Installing,
           HooksAreKnown, InitInModule
  <2>4. TransactionOwned' /\ Installing' /\ Removing'
    BY DEF TransactionOwned, Installing, Removing, HooksAreKnown, InitPlaces,
           DetachPlaces
  <2>5. HooksAreKnown' /\ Announced'
    BY DEF HooksAreKnown, Announced, Installing, Removing, InitPlaces, DetachPlaces,
           InitInModule, LifecyclePlaces
  <2>6. Handles' /\ WorkerIsJoined'
    BY DEF Handles, InitPlaces, LifecyclePlaces, WorkerIsJoined
  <2> QED
    BY <2>1, <2>2, <2>3, <2>4, <2>5, <2>6
<1>4. CASE CommitRemoval
  <2> USE <1>4 DEF CommitRemoval, RemovalFails, EndTransaction
  <2>1. LifecycleFlags'
    BY Zenon DEF LifecycleFlags
  <2>2. LifecyclePlaces'
    BY DEF LifecyclePlaces, Hook
  <2>3. InitPlaces' /\ DetachPlaces'
    BY DEF InitPlaces, DetachPlaces, LifecyclePlaces, Removing, Installing,
           HooksAreKnown, InitInModule
  <2>4. TransactionOwned' /\ Installing' /\ Removing'
    BY DEF TransactionOwned, Installing, Removing, HooksAreKnown, InitPlaces,
           DetachPlaces
  <2>5. HooksAreKnown' /\ Announced'
    BY DEF HooksAreKnown, Announced, Installing, Removing, InitPlaces, DetachPlaces,
           InitInModule, LifecyclePlaces
  <2>6. Handles' /\ WorkerIsJoined'
    BY DEF Handles, InitPlaces, LifecyclePlaces, WorkerIsJoined
  <2> QED
    BY <2>1, <2>2, <2>3, <2>4, <2>5, <2>6
<1> QED
  BY <1>1, <1>2, <1>3, <1>4 DEF RemoveStep

(* ChangeNotifier::start.                                                  *)
LEMMA StartKeeps ==
  ASSUME LifecycleInv, StartStep, UNCHANGED <<hookVars, threadVars, lifeVars>>
  PROVE  LifecycleInv'
<1> USE DEF LifecycleInv, hookVars, detourVars, threadVars, lifeVars
<1>1. CASE CreateStopEvent
  <2> USE <1>1 DEF CreateStopEvent
  <2>1. LifecycleFlags'
    BY Zenon DEF LifecycleFlags
  <2>2. LifecyclePlaces'
    BY DEF LifecyclePlaces, Hook
  <2>3. InitPlaces' /\ DetachPlaces'
    BY DEF InitPlaces, DetachPlaces, LifecyclePlaces, Removing, Installing,
           HooksAreKnown, InitInModule
  <2>4. TransactionOwned' /\ Installing' /\ Removing'
    BY DEF TransactionOwned, Installing, Removing, HooksAreKnown, InitPlaces,
           DetachPlaces
  <2>5. HooksAreKnown' /\ Announced'
    BY DEF HooksAreKnown, Announced, Installing, Removing, InitPlaces, DetachPlaces,
           InitInModule, LifecyclePlaces
  <2>6. Handles' /\ WorkerIsJoined'
    BY DEF Handles, InitPlaces, LifecyclePlaces, WorkerIsJoined
  <2> QED
    BY <2>1, <2>2, <2>3, <2>4, <2>5, <2>6
<1>2. CASE CreateNotifierThread
  <2> USE <1>2 DEF CreateNotifierThread
  <2>1. LifecycleFlags'
    BY Zenon DEF LifecycleFlags
  <2>2. LifecyclePlaces'
    BY DEF LifecyclePlaces, Hook
  <2>3. InitPlaces' /\ DetachPlaces'
    BY DEF InitPlaces, DetachPlaces, LifecyclePlaces, Removing, Installing,
           HooksAreKnown, InitInModule
  <2>4. TransactionOwned' /\ Installing' /\ Removing'
    BY DEF TransactionOwned, Installing, Removing, HooksAreKnown, InitPlaces,
           DetachPlaces
  <2>5. HooksAreKnown' /\ Announced'
    BY DEF HooksAreKnown, Announced, Installing, Removing, InitPlaces, DetachPlaces,
           InitInModule, LifecyclePlaces
  <2>6. Handles' /\ WorkerIsJoined'
    BY DEF Handles, InitPlaces, LifecyclePlaces, WorkerIsJoined
  <2> QED
    BY <2>1, <2>2, <2>3, <2>4, <2>5, <2>6
<1>3. CASE StoreThread
  <2> USE <1>3 DEF StoreThread
  <2>1. LifecycleFlags'
    BY Zenon DEF LifecycleFlags
  <2>2. LifecyclePlaces'
    BY DEF LifecyclePlaces, Hook
  <2>3. InitPlaces' /\ DetachPlaces'
    BY DEF InitPlaces, DetachPlaces, LifecyclePlaces, Removing, Installing,
           HooksAreKnown, InitInModule
  <2>4. TransactionOwned' /\ Installing' /\ Removing'
    BY DEF TransactionOwned, Installing, Removing, HooksAreKnown, InitPlaces,
           DetachPlaces
  <2>5. HooksAreKnown' /\ Announced'
    BY DEF HooksAreKnown, Announced, Installing, Removing, InitPlaces, DetachPlaces,
           InitInModule, LifecyclePlaces
  <2>6. Handles' /\ WorkerIsJoined'
    BY DEF Handles, InitPlaces, LifecyclePlaces, WorkerIsJoined
  <2> QED
    BY <2>1, <2>2, <2>3, <2>4, <2>5, <2>6
<1> QED
  BY <1>1, <1>2, <1>3 DEF StartStep

(* ChangeNotifier::stop.                                                   *)
LEMMA StopKeeps ==
  ASSUME LifecycleInv, StopStep, UNCHANGED <<hookVars, threadVars, lifeVars>>
  PROVE  LifecycleInv'
<1> USE DEF LifecycleInv, hookVars, detourVars, threadVars, lifeVars
<1>1. CASE SignalStop
  <2> USE <1>1 DEF SignalStop
  <2>1. LifecycleFlags'
    BY Zenon DEF LifecycleFlags
  <2>2. LifecyclePlaces'
    BY DEF LifecyclePlaces, Hook
  <2>3. InitPlaces' /\ DetachPlaces'
    BY DEF InitPlaces, DetachPlaces, LifecyclePlaces, Removing, Installing,
           HooksAreKnown, InitInModule
  <2>4. TransactionOwned' /\ Installing' /\ Removing'
    BY DEF TransactionOwned, Installing, Removing, HooksAreKnown, InitPlaces,
           DetachPlaces
  <2>5. HooksAreKnown' /\ Announced'
    BY DEF HooksAreKnown, Announced, Installing, Removing, InitPlaces, DetachPlaces,
           InitInModule, LifecyclePlaces
  <2>6. Handles' /\ WorkerIsJoined'
    BY DEF Handles, InitPlaces, LifecyclePlaces, WorkerIsJoined
  <2> QED
    BY <2>1, <2>2, <2>3, <2>4, <2>5, <2>6
<1>2. CASE WaitForThread
  <2> USE <1>2 DEF WaitForThread
  <2>1. LifecycleFlags'
    BY Zenon DEF LifecycleFlags
  <2>2. LifecyclePlaces'
    BY DEF LifecyclePlaces, Hook
  <2>3. InitPlaces' /\ DetachPlaces'
    BY DEF InitPlaces, DetachPlaces, LifecyclePlaces, Removing, Installing,
           HooksAreKnown, InitInModule
  <2>4. TransactionOwned' /\ Installing' /\ Removing'
    BY DEF TransactionOwned, Installing, Removing, HooksAreKnown, InitPlaces,
           DetachPlaces
  <2>5. HooksAreKnown' /\ Announced'
    BY DEF HooksAreKnown, Announced, Installing, Removing, InitPlaces, DetachPlaces,
           InitInModule, LifecyclePlaces
  <2>6. Handles' /\ WorkerIsJoined'
    BY DEF Handles, InitPlaces, LifecyclePlaces, WorkerIsJoined
  <2> QED
    BY <2>1, <2>2, <2>3, <2>4, <2>5, <2>6
<1>3. CASE CloseHandles
  <2> USE <1>3 DEF CloseHandles
  <2>1. LifecycleFlags'
    BY Zenon DEF LifecycleFlags
  <2>2. LifecyclePlaces'
    BY DEF LifecyclePlaces, Hook
  <2>3. InitPlaces' /\ DetachPlaces'
    BY DEF InitPlaces, DetachPlaces, LifecyclePlaces, Removing, Installing,
           HooksAreKnown, InitInModule
  <2>4. TransactionOwned' /\ Installing' /\ Removing'
    BY DEF TransactionOwned, Installing, Removing, HooksAreKnown, InitPlaces,
           DetachPlaces
  <2>5. HooksAreKnown' /\ Announced'
    BY DEF HooksAreKnown, Announced, Installing, Removing, InitPlaces, DetachPlaces,
           InitInModule, LifecyclePlaces
  <2>6. Handles' /\ WorkerIsJoined'
    BY DEF Handles, InitPlaces, LifecyclePlaces, WorkerIsJoined
  <2> QED
    BY <2>1, <2>2, <2>3, <2>4, <2>5, <2>6
<1> QED
  BY <1>1, <1>2, <1>3 DEF StopStep

(* background_init.                                                        *)
LEMMA InitKeeps ==
  ASSUME LifecycleInv, CheckShutdown \/ Initialized \/ LeaveInit
  PROVE  LifecycleInv'
<1> USE DEF LifecycleInv, hookVars, detourVars, notifierVars, threadVars
<1>1. CASE CheckShutdown
  <2> USE <1>1 DEF CheckShutdown
  <2>1. LifecycleFlags'
    BY Zenon DEF LifecycleFlags
  <2>2. LifecyclePlaces'
    BY DEF LifecyclePlaces, Hook
  <2>3. InitPlaces' /\ DetachPlaces'
    BY DEF InitPlaces, DetachPlaces, LifecyclePlaces, Removing, Installing,
           HooksAreKnown, InitInModule
  <2>4. TransactionOwned' /\ Installing' /\ Removing'
    BY DEF TransactionOwned, Installing, Removing, HooksAreKnown, InitPlaces,
           DetachPlaces
  <2>5. HooksAreKnown' /\ Announced'
    BY DEF HooksAreKnown, Announced, Installing, Removing, InitPlaces, DetachPlaces,
           InitInModule, LifecyclePlaces
  <2>6. Handles' /\ WorkerIsJoined'
    BY DEF Handles, InitPlaces, LifecyclePlaces, WorkerIsJoined
  <2> QED
    BY <2>1, <2>2, <2>3, <2>4, <2>5, <2>6
<1>2. CASE Initialized
  <2> USE <1>2 DEF Initialized
  <2>1. LifecycleFlags'
    BY Zenon DEF LifecycleFlags
  <2>2. LifecyclePlaces'
    BY DEF LifecyclePlaces, Hook
  <2>3. InitPlaces' /\ DetachPlaces'
    BY DEF InitPlaces, DetachPlaces, LifecyclePlaces, Removing, Installing,
           HooksAreKnown, InitInModule
  <2>4. TransactionOwned' /\ Installing' /\ Removing'
    BY DEF TransactionOwned, Installing, Removing, HooksAreKnown, InitPlaces,
           DetachPlaces
  <2>5. HooksAreKnown' /\ Announced'
    BY DEF HooksAreKnown, Announced, Installing, Removing, InitPlaces, DetachPlaces,
           InitInModule, LifecyclePlaces
  <2>6. Handles' /\ WorkerIsJoined'
    BY DEF Handles, InitPlaces, LifecyclePlaces, WorkerIsJoined
  <2> QED
    BY <2>1, <2>2, <2>3, <2>4, <2>5, <2>6
<1>3. CASE LeaveInit
  <2> USE <1>3 DEF LeaveInit
  <2>1. LifecycleFlags'
    BY Zenon DEF LifecycleFlags
  <2>2. LifecyclePlaces'
    BY DEF LifecyclePlaces, Hook
  <2>3. InitPlaces' /\ DetachPlaces'
    BY DEF InitPlaces, DetachPlaces, LifecyclePlaces, Removing, Installing,
           HooksAreKnown, InitInModule
  <2>4. TransactionOwned' /\ Installing' /\ Removing'
    BY DEF TransactionOwned, Installing, Removing, HooksAreKnown, InitPlaces,
           DetachPlaces
  <2>5. HooksAreKnown' /\ Announced'
    BY DEF HooksAreKnown, Announced, Installing, Removing, InitPlaces, DetachPlaces,
           InitInModule, LifecyclePlaces
  <2>6. Handles' /\ WorkerIsJoined'
    BY DEF Handles, InitPlaces, LifecyclePlaces, WorkerIsJoined
  <2> QED
    BY <2>1, <2>2, <2>3, <2>4, <2>5, <2>6
<1> QED
  BY <1>1, <1>2, <1>3 DEF LifecycleInv

(* DllMain.                                                                *)
LEMMA DllMainKeeps ==
  ASSUME LifecycleInv, InitializeFolderSize \/ Detach \/ ExitProcess
           \/ CheckInitialized \/ RemoveHooks \/ Uninitialize
           \/ DestroyResolver \/ JoinWorker \/ Unload
  PROVE  LifecycleInv'
<1> USE DEF LifecycleInv, hookVars, detourVars, notifierVars, threadVars
<1>1. CASE InitializeFolderSize
  <2> USE <1>1 DEF InitializeFolderSize
  <2>1. LifecycleFlags'
    BY Zenon DEF LifecycleFlags
  <2>2. LifecyclePlaces'
    BY DEF LifecyclePlaces, Hook
  <2>3. InitPlaces' /\ DetachPlaces'
    BY DEF InitPlaces, DetachPlaces, LifecyclePlaces, Removing, Installing,
           HooksAreKnown, InitInModule
  <2>4. TransactionOwned' /\ Installing' /\ Removing'
    BY DEF TransactionOwned, Installing, Removing, HooksAreKnown, InitPlaces,
           DetachPlaces
  <2>5. HooksAreKnown' /\ Announced'
    BY DEF HooksAreKnown, Announced, Installing, Removing, InitPlaces, DetachPlaces,
           InitInModule, LifecyclePlaces
  <2>6. Handles' /\ WorkerIsJoined'
    BY DEF Handles, InitPlaces, LifecyclePlaces, WorkerIsJoined
  <2> QED
    BY <2>1, <2>2, <2>3, <2>4, <2>5, <2>6
<1>2. CASE Detach
  <2> USE <1>2 DEF Detach
  <2>1. LifecycleFlags'
    BY Zenon DEF LifecycleFlags
  <2>2. LifecyclePlaces'
    BY DEF LifecyclePlaces, Hook
  <2>3. InitPlaces' /\ DetachPlaces'
    BY DEF InitPlaces, DetachPlaces, LifecyclePlaces, Removing, Installing,
           HooksAreKnown, InitInModule
  <2>4. TransactionOwned' /\ Installing' /\ Removing'
    BY DEF TransactionOwned, Installing, Removing, HooksAreKnown, InitPlaces,
           DetachPlaces
  <2>5. HooksAreKnown' /\ Announced'
    BY DEF HooksAreKnown, Announced, Installing, Removing, InitPlaces, DetachPlaces,
           InitInModule, LifecyclePlaces
  <2>6. Handles' /\ WorkerIsJoined'
    BY DEF Handles, InitPlaces, LifecyclePlaces, WorkerIsJoined
  <2> QED
    BY <2>1, <2>2, <2>3, <2>4, <2>5, <2>6
<1>3. CASE ExitProcess
  <2> USE <1>3 DEF ExitProcess
  <2>1. LifecycleFlags'
    BY Zenon DEF LifecycleFlags
  <2>2. LifecyclePlaces'
    BY DEF LifecyclePlaces, Hook
  <2>3. InitPlaces' /\ DetachPlaces'
    BY DEF InitPlaces, DetachPlaces, LifecyclePlaces, Removing, Installing,
           HooksAreKnown, InitInModule
  <2>4. TransactionOwned' /\ Installing' /\ Removing'
    BY DEF TransactionOwned, Installing, Removing, HooksAreKnown, InitPlaces,
           DetachPlaces
  <2>5. HooksAreKnown' /\ Announced'
    BY DEF HooksAreKnown, Announced, Installing, Removing, InitPlaces, DetachPlaces,
           InitInModule, LifecyclePlaces
  <2>6. Handles' /\ WorkerIsJoined'
    BY DEF Handles, InitPlaces, LifecyclePlaces, WorkerIsJoined
  <2> QED
    BY <2>1, <2>2, <2>3, <2>4, <2>5, <2>6
<1>4. CASE CheckInitialized
  <2> USE <1>4 DEF CheckInitialized
  <2>1. LifecycleFlags'
    BY Zenon DEF LifecycleFlags
  <2>2. LifecyclePlaces'
    BY DEF LifecyclePlaces, Hook
  <2>3. InitPlaces' /\ DetachPlaces'
    BY DEF InitPlaces, DetachPlaces, LifecyclePlaces, Removing, Installing,
           HooksAreKnown, InitInModule
  <2>4. TransactionOwned' /\ Installing' /\ Removing'
    BY DEF TransactionOwned, Installing, Removing, HooksAreKnown, InitPlaces,
           DetachPlaces
  <2>5. HooksAreKnown' /\ Announced'
    BY DEF HooksAreKnown, Announced, Installing, Removing, InitPlaces, DetachPlaces,
           InitInModule, LifecyclePlaces
  <2>6. Handles' /\ WorkerIsJoined'
    BY DEF Handles, InitPlaces, LifecyclePlaces, WorkerIsJoined
  <2> QED
    BY <2>1, <2>2, <2>3, <2>4, <2>5, <2>6
<1>5. CASE RemoveHooks
  <2> USE <1>5 DEF RemoveHooks
  <2>1. LifecycleFlags'
    BY Zenon DEF LifecycleFlags
  <2>2. LifecyclePlaces'
    BY DEF LifecyclePlaces, Hook
  <2>3. InitPlaces' /\ DetachPlaces'
    BY DEF InitPlaces, DetachPlaces, LifecyclePlaces, Removing, Installing,
           HooksAreKnown, InitInModule
  <2>4. TransactionOwned' /\ Installing' /\ Removing'
    BY DEF TransactionOwned, Installing, Removing, HooksAreKnown, InitPlaces,
           DetachPlaces
  <2>5. HooksAreKnown' /\ Announced'
    BY DEF HooksAreKnown, Announced, Installing, Removing, InitPlaces, DetachPlaces,
           InitInModule, LifecyclePlaces
  <2>6. Handles' /\ WorkerIsJoined'
    BY DEF Handles, InitPlaces, LifecyclePlaces, WorkerIsJoined
  <2> QED
    BY <2>1, <2>2, <2>3, <2>4, <2>5, <2>6
<1>6. CASE Uninitialize
  <2> USE <1>6 DEF Uninitialize
  <2>1. LifecycleFlags'
    BY Zenon DEF LifecycleFlags
  <2>2. LifecyclePlaces'
    BY DEF LifecyclePlaces, Hook
  <2>3. InitPlaces' /\ DetachPlaces'
    BY DEF InitPlaces, DetachPlaces, LifecyclePlaces, Removing, Installing,
           HooksAreKnown, InitInModule
  <2>4. TransactionOwned' /\ Installing' /\ Removing'
    BY DEF TransactionOwned, Installing, Removing, HooksAreKnown, InitPlaces,
           DetachPlaces
  <2>5. HooksAreKnown' /\ Announced'
    BY DEF HooksAreKnown, Announced, Installing, Removing, InitPlaces, DetachPlaces,
           InitInModule, LifecyclePlaces
  <2>6. Handles' /\ WorkerIsJoined'
    BY DEF Handles, InitPlaces, LifecyclePlaces, WorkerIsJoined
  <2> QED
    BY <2>1, <2>2, <2>3, <2>4, <2>5, <2>6
<1>7. CASE DestroyResolver
  <2> USE <1>7 DEF DestroyResolver
  <2>1. LifecycleFlags'
    BY Zenon DEF LifecycleFlags
  <2>2. LifecyclePlaces'
    BY DEF LifecyclePlaces, Hook
  <2>3. InitPlaces' /\ DetachPlaces'
    BY DEF InitPlaces, DetachPlaces, LifecyclePlaces, Removing, Installing,
           HooksAreKnown, InitInModule
  <2>4. TransactionOwned' /\ Installing' /\ Removing'
    BY DEF TransactionOwned, Installing, Removing, HooksAreKnown, InitPlaces,
           DetachPlaces
  <2>5. HooksAreKnown' /\ Announced'
    BY DEF HooksAreKnown, Announced, Installing, Removing, InitPlaces, DetachPlaces,
           InitInModule, LifecyclePlaces
  <2>6. Handles' /\ WorkerIsJoined'
    BY DEF Handles, InitPlaces, LifecyclePlaces, WorkerIsJoined
  <2> QED
    BY <2>1, <2>2, <2>3, <2>4, <2>5, <2>6
<1>8. CASE JoinWorker
  <2> USE <1>8 DEF JoinWorker, LoaderLockHeld
  <2>1. LifecycleFlags'
    BY Zenon DEF LifecycleFlags
  <2>2. LifecyclePlaces'
    BY DEF LifecyclePlaces, Hook
  <2>3. InitPlaces' /\ DetachPlaces'
    BY DEF InitPlaces, DetachPlaces, LifecyclePlaces, Removing, Installing,
           HooksAreKnown, InitInModule
  <2>4. TransactionOwned' /\ Installing' /\ Removing'
    BY DEF TransactionOwned, Installing, Removing, HooksAreKnown, InitPlaces,
           DetachPlaces
  <2>5. HooksAreKnown' /\ Announced'
    BY DEF HooksAreKnown, Announced, Installing, Removing, InitPlaces, DetachPlaces,
           InitInModule, LifecyclePlaces
  <2>6. Handles' /\ WorkerIsJoined'
    BY DEF Handles, InitPlaces, LifecyclePlaces, WorkerIsJoined
  <2> QED
    BY <2>1, <2>2, <2>3, <2>4, <2>5, <2>6
<1>9. CASE Unload
  <2> USE <1>9 DEF Unload
  <2>1. LifecycleFlags'
    BY Zenon DEF LifecycleFlags
  <2>2. LifecyclePlaces'
    BY DEF LifecyclePlaces, Hook
  <2>3. InitPlaces' /\ DetachPlaces'
    BY DEF InitPlaces, DetachPlaces, LifecyclePlaces, Removing, Installing,
           HooksAreKnown, InitInModule
  <2>4. TransactionOwned' /\ Installing' /\ Removing'
    BY DEF TransactionOwned, Installing, Removing, HooksAreKnown, InitPlaces,
           DetachPlaces
  <2>5. HooksAreKnown' /\ Announced'
    BY DEF HooksAreKnown, Announced, Installing, Removing, InitPlaces, DetachPlaces,
           InitInModule, LifecyclePlaces
  <2>6. Handles' /\ WorkerIsJoined'
    BY DEF Handles, InitPlaces, LifecyclePlaces, WorkerIsJoined
  <2> QED
    BY <2>1, <2>2, <2>3, <2>4, <2>5, <2>6
<1> QED
  BY <1>1, <1>2, <1>3, <1>4, <1>5, <1>6, <1>7, <1>8, <1>9 DEF LifecycleInv

(* The first folder is queued.                                             *)
LEMMA StartWorkerKeeps ==
  ASSUME LifecycleInv, StartWorker
  PROVE  LifecycleInv'
<1> USE DEF LifecycleInv, StartWorker, hookVars, detourVars, notifierVars, lifeVars
<1>1. LifecycleFlags'
  BY Zenon DEF LifecycleFlags
<1>2. LifecyclePlaces' /\ InitPlaces' /\ DetachPlaces'
  BY DEF LifecyclePlaces, Hook, InitPlaces, DetachPlaces, InitInModule
<1>3. TransactionOwned' /\ Installing' /\ Removing'
  BY DEF TransactionOwned, Installing, Removing
<1>4. HooksAreKnown' /\ Announced' /\ Handles' /\ WorkerIsJoined'
  BY DEF HooksAreKnown, Announced, Handles, WorkerIsJoined
<1> QED
  BY <1>1, <1>2, <1>3, <1>4

(* The notifier's thread moves, or some thread begins or ends.             *)
LEMMA ThreadKeeps ==
  ASSUME LifecycleInv, NEW from, NEW to, GoTo(from, to), to \subseteq
           {"register", "loop", "waiting", "draining", "cleanup", "ending", "gone"},
         UNCHANGED <<hookVars, threadVars, lifeVars>>
  PROVE  LifecycleInv'
<1> USE DEF LifecycleInv, GoTo, hookVars, detourVars, threadVars, lifeVars
<1>1. LifecycleFlags'
  BY Zenon DEF LifecycleFlags
<1>2. LifecyclePlaces'
  BY DEF LifecyclePlaces, Hook
<1>3. InitPlaces' /\ DetachPlaces'
  BY DEF InitPlaces, DetachPlaces, InitInModule
<1>4. TransactionOwned' /\ Installing' /\ Removing'
  BY DEF TransactionOwned, Installing, Removing
<1>5. HooksAreKnown' /\ Announced' /\ Handles' /\ WorkerIsJoined'
  BY DEF HooksAreKnown, Announced, Handles, WorkerIsJoined
<1> QED
  BY <1>1, <1>2, <1>3, <1>4, <1>5

LEMMA BeginOrEndKeeps ==
  ASSUME LifecycleInv, BeginOrEndThread
  PROVE  LifecycleInv'
<1>1. CASE /\ \/ initPc = "created" /\ initPc' = "check"
              \/ initPc = "ending" /\ initPc' = "gone"
           /\ UNCHANGED <<hookVars, notifierVars, threadVars, threadsPin, s_initFlag,
                          s_initialized, s_shutdownRequested, detachPc>>
  <2> USE <1>1 DEF LifecycleInv, hookVars, detourVars, notifierVars, threadVars
  <2>1. LifecycleFlags'
    BY Zenon DEF LifecycleFlags
  <2>2. LifecyclePlaces'
    BY DEF LifecyclePlaces, Hook
  <2>3. InitPlaces' /\ DetachPlaces'
    BY DEF InitPlaces, DetachPlaces, InitInModule
  <2>4. TransactionOwned' /\ Installing' /\ Removing'
    BY DEF TransactionOwned, Installing, Removing
  <2>5. HooksAreKnown' /\ Announced' /\ Handles' /\ WorkerIsJoined'
    BY DEF HooksAreKnown, Announced, Installing, InitPlaces, Handles, WorkerIsJoined
  <2> QED
    BY <2>1, <2>2, <2>3, <2>4, <2>5
<1>2. CASE /\ GoTo("created", {"register"}) \/ GoTo("ending", {"gone"})
           /\ UNCHANGED <<hookVars, threadVars, lifeVars>>
  BY <1>2, ThreadKeeps
<1> QED
  BY <1>1, <1>2 DEF BeginOrEndThread

LEMMA ThreadStepKeeps ==
  ASSUME LifecycleInv, ThreadStep
  PROVE  LifecycleInv'
<1>1. UNCHANGED <<hookVars, threadVars, lifeVars>>
  BY DEF ThreadStep
<1>2. \/ GoTo("register", {"loop", "ending"}) \/ GoTo("loop", {"waiting"})
      \/ GoTo("loop", {"draining"}) \/ GoTo("waiting", {"cleanup"})
      \/ GoTo("waiting", {"draining"}) \/ GoTo("draining", {"loop"})
      \/ GoTo("cleanup", {"ending"})
  BY DEF ThreadStep, NotifierThreadStep, Register, WaitForMessages, StopSeen,
         MessageArrives, Drain, Deregister
<1> QED
  BY <1>1, <1>2, ThreadKeeps

-----------------------------------------------------------------------------
LEMMA LifecycleInitEstablishes == LifecycleInit => LifecycleInv
<1> SUFFICES ASSUME LifecycleInit
             PROVE  LifecycleInv
  OBVIOUS
<1> USE DEF LifecycleInit, HookInit, NotifierInit
<1>1. LifecycleFlags
  BY Zenon DEF LifecycleFlags
<1>2. LifecyclePlaces
  BY DEF LifecyclePlaces, Hook
<1>3. /\ HooksAreKnown /\ InitPlaces /\ DetachPlaces /\ TransactionOwned
      /\ Installing /\ Removing /\ Announced /\ Handles /\ WorkerIsJoined
  BY DEF HooksAreKnown, InitPlaces, DetachPlaces, InitInModule, TransactionOwned,
         Installing, Removing, Announced, Handles, WorkerIsJoined
<1> QED
  BY <1>1, <1>2, <1>3 DEF LifecycleInv

LEMMA LifecycleStepKeeps == LifecycleInv /\ [LifecycleNext]_lifecycleVars => LifecycleInv'
<1> SUFFICES ASSUME LifecycleInv, [LifecycleNext]_lifecycleVars
             PROVE  LifecycleInv'
  OBVIOUS
<1>1. CASE InitStep
  BY <1>1, InitKeeps, InstallKeeps, StartKeeps DEF InitStep
<1>2. CASE DetachStep
  BY <1>2, DllMainKeeps, StopKeeps, RemoveKeeps DEF DetachStep
<1>3. CASE InitializeFolderSize \/ Detach \/ ExitProcess
  BY <1>3, DllMainKeeps
<1>4. CASE BeginOrEndThread \/ ThreadStep
  BY <1>4, BeginOrEndKeeps, ThreadStepKeeps
<1>5. CASE StartWorker
  BY <1>5, StartWorkerKeeps
<1>6. CASE UNCHANGED lifecycleVars
  BY <1>6 DEF lifecycleVars, hookVars, detourVars, notifierVars, threadVars, lifeVars,
              LifecycleInv, LifecycleFlags, LifecyclePlaces, HooksAreKnown, InitPlaces,
              DetachPlaces, InitInModule, TransactionOwned, Installing, Removing,
              Announced, Handles, WorkerIsJoined
<1> QED
  BY <1>1, <1>2, <1>3, <1>4, <1>5, <1>6 DEF LifecycleNext, ModuleStep

(* The inductive invariant, for any functions that are hooked.             *)
THEOREM LifecycleInvariant == LifecycleSpec => []LifecycleInv
<1> QED
  BY LifecycleInitEstablishes, LifecycleStepKeeps, PTL DEF LifecycleSpec

(* Types, and that the notifier's two handles come and go together.        *)
THEOREM LifecycleTypeCorrect == LifecycleSpec => []LifecycleTypeOK
<1>1. LifecycleInv => LifecycleTypeOK
  BY DEF LifecycleInv, LifecycleTypeOK, Handles
<1> QED
  BY <1>1, LifecycleInvariant, PTL

(* remove_hooks always finds the pointers of exactly what is hooked.       *)
THEOREM HooksStayKnown == LifecycleSpec => []HooksAreKnown
<1>1. LifecycleInv => HooksAreKnown
  BY DEF LifecycleInv
<1> QED
  BY <1>1, LifecycleInvariant, PTL

(* The removal never comes upon an installation that is under way.         *)
THEOREM RemovalAlwaysFollowsInstall == LifecycleSpec => []RemovalFollowsInstall
<1>1. LifecycleInv => RemovalFollowsInstall
  BY DEF LifecycleInv, LifecyclePlaces, RemovalFollowsInstall, TransactionOwned,
         DetachPlaces, Removing
<1> QED
  BY <1>1, LifecycleInvariant, PTL

(* Where the runtime keeps the module for background_init, an unloaded     *)
(* module leaves no hook unless Detours refused; where it does not, what   *)
(* is left was installed after DllMain's look at s_initialized.            *)
THEOREM UnloadedModuleIsUnhooked == LifecycleSpec => []HooksLeaveWithModule
<1>1. LifecycleInv => HooksLeaveWithModule
  BY DEF LifecycleInv, LifecyclePlaces, HooksLeaveWithModule, Announced, Installing,
         InitPlaces, InitInModule
<1> QED
  BY <1>1, LifecycleInvariant, PTL

(* An unloaded module leaves no worker behind that ~SizeResolver told to   *)
(* stop: it waited for it, for ever if need be.                            *)
THEOREM UnloadedModuleHasNoWorker == LifecycleSpec => []WorkerLeavesWithModule
<1>1. LifecycleInv => WorkerLeavesWithModule
  BY DEF LifecycleInv, WorkerIsJoined, WorkerLeavesWithModule
<1> QED
  BY <1>1, LifecycleInvariant, PTL

-----------------------------------------------------------------------------
Frame == [fn : Hook, at : Place]

GuardedAt(s) == {i \in DOMAIN s : Guarded(s[i])}

Weight(f) == IF Guarded(f) THEN 1 ELSE 0

Quiet(s) == \A i, j \in DOMAIN s : i < j /\ Guarded(s[i]) => s[j].at # "resolve"

(* Every frame's original can be called, and only formatters format.       *)
Known(s) == \A i \in DOMAIN s : /\ s[i].fn \in originals
                                /\ s[i].at = "format" => s[i].fn \in Formatter

-----------------------------------------------------------------------------
(* What the stack operations do to the guarded frames.                     *)
LEMMA GuardedFinite ==
  ASSUME NEW s \in Seq(Frame)
  PROVE  IsFiniteSet(GuardedAt(s)) /\ Cardinality(GuardedAt(s)) \in Nat
<1>1. GuardedAt(s) \subseteq 1 .. Len(s)
  BY DEF GuardedAt
<1>2. IsFiniteSet(1 .. Len(s))
  BY FS_Interval
<1> QED
  BY <1>1, <1>2, FS_Subset, FS_CardinalityType

LEMMA PushedFrame ==
  ASSUME NEW s \in Seq(Frame), NEW f \in Frame
  PROVE  /\ Append(s, f) \in Seq(Frame)
         /\ Cardinality(GuardedAt(Append(s, f))) = Cardinality(GuardedAt(s)) + Weight(f)
<1> DEFINE n == Len(s) + 1
<1>1. /\ Append(s, f) \in Seq(Frame) /\ DOMAIN Append(s, f) = 1 .. n
      /\ Append(s, f)[n] = f /\ n \notin DOMAIN s
      /\ \A i \in DOMAIN s : Append(s, f)[i] = s[i]
      /\ DOMAIN s = 1 .. n - 1 /\ n \in Nat
  OBVIOUS
<1>2. CASE Guarded(f)
  <2>1. GuardedAt(Append(s, f)) = GuardedAt(s) \cup {n} /\ n \notin GuardedAt(s)
    BY <1>1, <1>2 DEF GuardedAt
  <2> QED
    BY <2>1, <1>1, <1>2, GuardedFinite, FS_AddElement DEF Weight
<1>3. CASE ~Guarded(f)
  <2>1. GuardedAt(Append(s, f)) = GuardedAt(s)
    BY <1>1, <1>3 DEF GuardedAt
  <2> QED
    BY <2>1, <1>1, <1>3, GuardedFinite DEF Weight
<1> QED
  BY <1>2, <1>3

LEMMA PoppedFrame ==
  ASSUME NEW s \in Seq(Frame), s # <<>>
  PROVE  /\ SubSeq(s, 1, Len(s) - 1) \in Seq(Frame)
         /\ Cardinality(GuardedAt(SubSeq(s, 1, Len(s) - 1)))
              = Cardinality(GuardedAt(s)) - Weight(s[Len(s)])
<1> DEFINE n == Len(s)
           r == SubSeq(s, 1, n - 1)
<1>1. /\ r \in Seq(Frame) /\ DOMAIN r = 1 .. n - 1 /\ DOMAIN s = 1 .. n
      /\ \A i \in 1 .. n - 1 : r[i] = s[i]
      /\ n \in DOMAIN s /\ n \in Nat
  OBVIOUS
<1>2. CASE Guarded(s[n])
  <2>1. GuardedAt(r) = GuardedAt(s) \ {n} /\ n \in GuardedAt(s)
    BY <1>1, <1>2 DEF GuardedAt
  <2> QED
    BY <2>1, <1>1, <1>2, GuardedFinite, FS_RemoveElement DEF Weight
<1>3. CASE ~Guarded(s[n])
  <2>1. GuardedAt(r) = GuardedAt(s)
    BY <1>1, <1>3 DEF GuardedAt
  <2> QED
    BY <2>1, <1>1, <1>3, GuardedFinite DEF Weight
<1> QED
  BY <1>2, <1>3

(* A frame moves to a place that no guard is held at.                      *)
LEMMA MovedFrame ==
  ASSUME NEW s \in Seq(Frame), s # <<>>, NEW place \in Place,
         ~(s[Len(s)].fn \in Operation /\ place = "original")
  PROVE  /\ [s EXCEPT ![Len(s)].at = place] \in Seq(Frame)
         /\ Cardinality(GuardedAt([s EXCEPT ![Len(s)].at = place]))
              = Cardinality(GuardedAt(s)) - Weight(s[Len(s)])
         /\ DOMAIN [s EXCEPT ![Len(s)].at = place] = DOMAIN s
         /\ \A i \in DOMAIN s :
              /\ i # Len(s) => [s EXCEPT ![Len(s)].at = place][i] = s[i]
              /\ i = Len(s) => /\ [s EXCEPT ![Len(s)].at = place][i].fn = s[i].fn
                               /\ [s EXCEPT ![Len(s)].at = place][i].at = place
<1> DEFINE n == Len(s)
           r == [s EXCEPT ![n].at = place]
<1>1. s[n] \in Frame /\ DOMAIN s = 1 .. n /\ n \in DOMAIN s /\ n \in Nat
  OBVIOUS
<1>2. /\ r \in Seq(Frame) /\ DOMAIN r = 1 .. n
      /\ \A i \in 1 .. n : i # n => r[i] = s[i]
      /\ r[n].fn = s[n].fn /\ r[n].at = place
  BY <1>1 DEF Frame
<1>3. ~Guarded(r[n])
  BY <1>2 DEF Guarded
<1>4. CASE Guarded(s[n])
  <2>1. GuardedAt(r) = GuardedAt(s) \ {n} /\ n \in GuardedAt(s)
    BY <1>1, <1>2, <1>3, <1>4 DEF GuardedAt
  <2> QED
    BY <2>1, <1>2, <1>4, GuardedFinite, FS_RemoveElement DEF Weight
<1>5. CASE ~Guarded(s[n])
  <2>1. GuardedAt(r) = GuardedAt(s)
    BY <1>1, <1>2, <1>3, <1>5 DEF GuardedAt
  <2> QED
    BY <2>1, <1>2, <1>5, GuardedFinite DEF Weight
<1> QED
  BY <1>1, <1>2, <1>4, <1>5

-----------------------------------------------------------------------------
(* The pointers are set before anything is hooked, and then stay.          *)
PointersInv ==
  /\ hooked \subseteq originals
  /\ installPc \in {"idle", "resolve"} => originals = {}

LEMMA PointersStay ==
  ASSUME LifecycleInv, PointersInv, [LifecycleNext]_lifecycleVars
  PROVE  PointersInv' /\ originals \subseteq originals'
<1> USE DEF PointersInv
<1>1. CASE InstallStep
  <2> USE DEF LifecycleInv
  <2>1. CASE Resolve
    BY <2>1 DEF Resolve, Installing
  <2>2. CASE BeginInstall
    BY <2>2 DEF BeginInstall
  <2>3. CASE AttachAll
    BY <2>3 DEF AttachAll, InstallRegQueryHook
  <2>4. CASE CommitInstall
    BY <2>4 DEF CommitInstall, Installing
  <2> QED
    BY <1>1, <2>1, <2>2, <2>3, <2>4 DEF InstallStep
<1>2. CASE RemoveStep
  BY <1>2 DEF RemoveStep, CheckActive, BeginRemoval, DetachAll, CommitRemoval
<1>3. CASE UNCHANGED <<hooked, originals, installPc>>
  BY <1>3
<1>4. CASE CheckShutdown
  BY <1>4 DEF CheckShutdown, LifecycleInv, InitPlaces
<1>5. \/ InstallStep \/ RemoveStep \/ CheckShutdown \/ UNCHANGED <<hooked, originals, installPc>>
  BY DEF LifecycleNext, ModuleStep, lifecycleVars, hookVars, InitializeFolderSize,
         BeginOrEndThread, InitStep, ThreadStep, Detach, ExitProcess, DetachStep, Initialized,
         LeaveInit, CheckInitialized, RemoveHooks, Uninitialize, DestroyResolver, JoinWorker,
         Unload, StartWorker
<1> QED
  BY <1>1, <1>2, <1>3, <1>4, <1>5

-----------------------------------------------------------------------------
CallTypes == /\ frames \in [Thread -> Seq(Frame)]
             /\ s_depth \in [Thread -> Int] /\ lost \in [Thread -> Nat]

(* A thread's counter counts its guards, the lost ones included.           *)
GuardsCounted == \A t \in Thread : s_depth[t] = Cardinality(GuardedAt(frames[t])) + lost[t]

StacksQuiet == \A t \in Thread : Quiet(frames[t])
StacksKnown == \A t \in Thread : Known(frames[t])

CallsInv == CallTypes /\ GuardsCounted /\ StacksQuiet /\ StacksKnown

HookCallsInv == LifecycleInv /\ PointersInv /\ CallsInv

(* What a step of one thread has to show.                                  *)
LEMMA ThreadCallKeeps ==
  ASSUME CallsInv, UNCHANGED originals,
         NEW t \in Thread, NEW s \in Seq(Frame), NEW d \in Int, NEW l \in Nat,
         frames' = [frames EXCEPT ![t] = s],
         s_depth' = [s_depth EXCEPT ![t] = d],
         lost' = [lost EXCEPT ![t] = l],
         d = Cardinality(GuardedAt(s)) + l, Quiet(s), Known(s)
  PROVE  CallsInv'
<1>a. CallTypes /\ GuardsCounted /\ StacksQuiet /\ StacksKnown
  BY DEF CallsInv
<1>1. CallTypes'
  <2>1. frames' \in [Thread -> Seq(Frame)]
    BY <1>a DEF CallTypes
  <2>2. s_depth' \in [Thread -> Int]
    BY <1>a DEF CallTypes
  <2>3. lost' \in [Thread -> Nat]
    BY <1>a DEF CallTypes
  <2> QED
    BY <2>1, <2>2, <2>3 DEF CallTypes
<1>2. \A u \in Thread : frames'[u] = IF u = t THEN s ELSE frames[u]
  BY <1>a DEF CallTypes
<1>3. \A u \in Thread : s_depth'[u] = IF u = t THEN d ELSE s_depth[u]
  BY <1>a DEF CallTypes
<1>4. \A u \in Thread : lost'[u] = IF u = t THEN l ELSE lost[u]
  BY <1>a DEF CallTypes
<1>5. GuardsCounted'
  <2> SUFFICES ASSUME NEW u \in Thread
               PROVE  s_depth'[u] = Cardinality(GuardedAt(frames'[u])) + lost'[u]
    BY DEF GuardsCounted, GuardedAt, Guarded
  <2>1. s_depth[u] = Cardinality(GuardedAt(frames[u])) + lost[u]
    BY <1>a DEF GuardsCounted
  <2> QED
    BY <2>1, <1>2, <1>3, <1>4
<1>6. StacksQuiet'
  BY <1>a, <1>2 DEF StacksQuiet
<1>7. StacksKnown'
  BY <1>a, <1>2 DEF StacksKnown, Known
<1> QED
  BY <1>1, <1>5, <1>6, <1>7 DEF CallsInv

(* The innermost frame of a thread, and the stack without it or with it    *)
(* moved.                                                                  *)
LEMMA InnermostFrame ==
  ASSUME CallsInv, NEW t \in Thread, frames[t] # <<>>
  PROVE  /\ frames[t] \in Seq(Frame) /\ Len(frames[t]) \in DOMAIN frames[t]
         /\ Within(t) = frames[t][Len(frames[t])] /\ Within(t) \in Frame
         /\ Within(t).fn \in originals
         /\ Within(t).at = "format" => Within(t).fn \in Formatter
<1>1. frames[t] \in Seq(Frame) /\ Known(frames[t])
  BY DEF CallsInv, CallTypes, StacksKnown
<1>2. Len(frames[t]) \in DOMAIN frames[t] /\ frames[t][Len(frames[t])] \in Frame
  BY <1>1
<1> QED
  BY <1>1, <1>2 DEF Within, Known

LEMMA PushKeeps ==
  ASSUME HookCallsInv, UNCHANGED originals, NEW t \in Thread, EnterHook(t)
  PROVE  CallsInv'
<1>1. CallsInv /\ hooked \subseteq originals /\ LifecyclePlaces
  BY DEF HookCallsInv, PointersInv, LifecycleInv
<1>a. PICK f \in hooked : \E place \in FirstPlace(f) :
        /\ frames' = [frames EXCEPT ![t] = Append(@, [fn |-> f, at |-> place])]
        /\ s_depth' = IF Guarded([fn |-> f, at |-> place])
                      THEN [s_depth EXCEPT ![t] = @ + 1] ELSE s_depth
        /\ UNCHANGED lost
  BY Zenon DEF EnterHook
<1>2. PICK place \in FirstPlace(f) :
        /\ frames' = [frames EXCEPT ![t] = Append(@, [fn |-> f, at |-> place])]
        /\ s_depth' = IF Guarded([fn |-> f, at |-> place])
                      THEN [s_depth EXCEPT ![t] = @ + 1] ELSE s_depth
        /\ UNCHANGED lost
  BY <1>a
<1> DEFINE frame == [fn |-> f, at |-> place]
           s == Append(frames[t], frame)
           d == s_depth[t] + Weight(frame)
<1>3. /\ frames \in [Thread -> Seq(Frame)] /\ s_depth \in [Thread -> Int]
      /\ lost \in [Thread -> Nat] /\ frames[t] \in Seq(Frame)
      /\ s_depth[t] = Cardinality(GuardedAt(frames[t])) + lost[t]
      /\ Quiet(frames[t]) /\ Known(frames[t])
  BY <1>1 DEF CallsInv, CallTypes, GuardsCounted, StacksQuiet, StacksKnown
<1>4. place \in {"format", "original"}
  BY DEF FirstPlace
<1>5. /\ frame \in Frame /\ frame.fn \in originals /\ frame.at # "resolve"
      /\ frame.at = "format" => frame.fn \in Formatter
  BY <1>1, <1>4 DEF Frame, Place, LifecyclePlaces, FirstPlace
<1>6. s \in Seq(Frame) /\ Cardinality(GuardedAt(s)) = Cardinality(GuardedAt(frames[t])) + Weight(frame)
  BY <1>3, <1>5, PushedFrame
<1>7. frames' = [frames EXCEPT ![t] = s]
  BY <1>2, <1>3
<1>8. s_depth' = [s_depth EXCEPT ![t] = d]
  <2>1. CASE Guarded(frame)
    BY <2>1, <1>2, <1>3 DEF Weight
  <2>2. CASE ~Guarded(frame)
    BY <2>2, <1>2, <1>3 DEF Weight
  <2> QED
    BY <2>1, <2>2
<1>9. lost' = [lost EXCEPT ![t] = lost[t]]
  BY <1>2, <1>3
<1>10. /\ DOMAIN s = 1 .. Len(frames[t]) + 1 /\ DOMAIN frames[t] = 1 .. Len(frames[t])
       /\ s[Len(frames[t]) + 1] = frame /\ Len(frames[t]) \in Nat
       /\ \A i \in DOMAIN frames[t] : s[i] = frames[t][i]
  BY <1>3, <1>5
<1>11. Quiet(s) /\ Known(s)
  BY <1>10, <1>3, <1>5 DEF Quiet, Known
<1>12. Cardinality(GuardedAt(frames[t])) \in Nat /\ Weight(frame) \in Nat /\ lost[t] \in Nat
  BY <1>3, GuardedFinite DEF Weight
<1>13. d \in Int /\ d = Cardinality(GuardedAt(s)) + lost[t]
  BY <1>3, <1>6, <1>12
<1> HIDE DEF s, d, frame
<1> QED
  BY <1>1, <1>6, <1>7, <1>8, <1>9, <1>11, <1>12, <1>13, ThreadCallKeeps

LEMMA PopKeeps ==
  ASSUME HookCallsInv, UNCHANGED originals, NEW t \in Thread, ReturnFromHook(t)
  PROVE  CallsInv'
<1>1. CallsInv /\ frames[t] # <<>>
  BY DEF HookCallsInv, ReturnFromHook
<1> DEFINE top == Within(t)
           s == SubSeq(frames[t], 1, Len(frames[t]) - 1)
           d == s_depth[t] - Weight(top)
<1>2. /\ frames \in [Thread -> Seq(Frame)] /\ s_depth \in [Thread -> Int]
      /\ lost \in [Thread -> Nat] /\ frames[t] \in Seq(Frame)
      /\ s_depth[t] = Cardinality(GuardedAt(frames[t])) + lost[t]
      /\ Quiet(frames[t]) /\ Known(frames[t])
  BY <1>1 DEF CallsInv, CallTypes, GuardsCounted, StacksQuiet, StacksKnown
<1>3. s \in Seq(Frame) /\ Cardinality(GuardedAt(s)) = Cardinality(GuardedAt(frames[t])) - Weight(top)
  BY <1>1, <1>2, PoppedFrame DEF Within
<1>4. frames' = [frames EXCEPT ![t] = s]
  BY <1>2 DEF ReturnFromHook, Leave
<1>5. s_depth' = [s_depth EXCEPT ![t] = d] /\ lost' = [lost EXCEPT ![t] = lost[t]]
  <2>1. UNCHANGED lost /\ s_depth' = IF Guarded(top) THEN [s_depth EXCEPT ![t] = @ - 1] ELSE s_depth
    BY DEF ReturnFromHook, ReleaseGuard
  <2>2. CASE Guarded(top)
    BY <2>1, <2>2, <1>2 DEF Weight
  <2>3. CASE ~Guarded(top)
    BY <2>1, <2>3, <1>2 DEF Weight
  <2> QED
    BY <2>2, <2>3
<1>6. /\ DOMAIN s = 1 .. Len(frames[t]) - 1 /\ DOMAIN frames[t] = 1 .. Len(frames[t])
      /\ \A i \in DOMAIN s : s[i] = frames[t][i]
  BY <1>1, <1>2
<1>7. Quiet(s) /\ Known(s)
  BY <1>6, <1>2 DEF Quiet, Known
<1>8. Cardinality(GuardedAt(frames[t])) \in Nat /\ Weight(top) \in Nat /\ lost[t] \in Nat
  BY <1>2, GuardedFinite DEF Weight
<1>9. d \in Int /\ d = Cardinality(GuardedAt(s)) + lost[t]
  BY <1>2, <1>3, <1>8
<1> HIDE DEF s, d, top
<1> QED
  BY <1>1, <1>3, <1>4, <1>5, <1>7, <1>8, <1>9, ThreadCallKeeps

(* The innermost frame moves to a place where it holds no guard: the guard *)
(* it held is released or lost, and a frame that is to resolve has no      *)
(* guarded one beneath it.                                                 *)
LEMMA MoveKeeps ==
  ASSUME CallsInv, UNCHANGED originals,
         NEW t \in Thread, frames[t] # <<>>, NEW place \in Place, NEW d \in Int, NEW l \in Nat,
         MoveTo(t, place), ~(Within(t).fn \in Operation /\ place = "original"),
         place = "resolve" => s_depth[t] <= 0, place # "format",
         s_depth' = [s_depth EXCEPT ![t] = d], lost' = [lost EXCEPT ![t] = l],
         d - l = s_depth[t] - lost[t] - Weight(Within(t))
  PROVE  CallsInv'
<1> DEFINE n == Len(frames[t])
           s == [frames[t] EXCEPT ![n].at = place]
<1>1. /\ frames \in [Thread -> Seq(Frame)] /\ s_depth \in [Thread -> Int]
      /\ lost \in [Thread -> Nat] /\ frames[t] \in Seq(Frame)
      /\ s_depth[t] = Cardinality(GuardedAt(frames[t])) + lost[t]
      /\ Quiet(frames[t]) /\ Known(frames[t])
  BY DEF CallsInv, CallTypes, GuardsCounted, StacksQuiet, StacksKnown
<1>2. /\ s \in Seq(Frame)
      /\ Cardinality(GuardedAt(s)) = Cardinality(GuardedAt(frames[t])) - Weight(Within(t))
  BY <1>1, MovedFrame DEF Within
<1>3. frames' = [frames EXCEPT ![t] = s]
  BY <1>1, InnermostFrame DEF MoveTo
<1>4. /\ DOMAIN s = DOMAIN frames[t] /\ n \in DOMAIN frames[t] /\ DOMAIN frames[t] = 1 .. n
      /\ \A i \in DOMAIN frames[t] : /\ i # n => s[i] = frames[t][i]
                                    /\ i = n => s[i].fn = frames[t][i].fn /\ s[i].at = place
  BY <1>1, MovedFrame, InnermostFrame DEF Within
<1>5. Known(s)
  BY <1>4, <1>1 DEF Known
<1>6. IsFiniteSet(GuardedAt(frames[t])) /\ Cardinality(GuardedAt(frames[t])) \in Nat /\ lost[t] \in Nat
  BY <1>1, GuardedFinite
<1>7. Quiet(s)
  <2>1. CASE place = "resolve"
    <3>1. Cardinality(GuardedAt(frames[t])) = 0
      BY <2>1, <1>1, <1>6
    <3>2. GuardedAt(frames[t]) = {}
      BY <3>1, <1>6, FS_EmptySet
    <3>3. \A i \in DOMAIN s : i # n => ~Guarded(s[i])
      BY <3>2, <1>4 DEF GuardedAt
    <3> QED
      BY <3>3, <1>4 DEF Quiet
  <2>2. CASE place # "resolve"
    BY <2>2, <1>1, <1>4 DEF Quiet
  <2> QED
    BY <2>1, <2>2
<1>8. d = Cardinality(GuardedAt(s)) + l
  <2>1. Weight(Within(t)) \in Nat
    BY DEF Weight
  <2> QED
    BY <2>1, <1>1, <1>2, <1>6
<1> HIDE DEF s, n
<1> QED
  BY <1>2, <1>3, <1>5, <1>7, <1>8, ThreadCallKeeps

LEMMA CallStepKeeps ==
  ASSUME HookCallsInv, UNCHANGED originals, CallStep
  PROVE  CallsInv'
<1>1. CallsInv
  BY DEF HookCallsInv
<1>2. PICK t \in Thread : \/ EnterHook(t) \/ ResolveSize(t) \/ LeaveToOriginal(t)
                         \/ ReturnFromHook(t) \/ Catch(t) \/ Except(t)
  BY DEF CallStep
<1>3. /\ s_depth \in [Thread -> Int] /\ lost \in [Thread -> Nat]
      /\ s_depth[t] \in Int /\ lost[t] \in Nat
      /\ s_depth = [s_depth EXCEPT ![t] = s_depth[t]] /\ lost = [lost EXCEPT ![t] = lost[t]]
  BY <1>1 DEF CallsInv, CallTypes
<1>4. CASE EnterHook(t)
  BY <1>4, PushKeeps
<1>5. CASE ReturnFromHook(t)
  BY <1>5, PopKeeps
<1>6. CASE ResolveSize(t)
  <2>1. Within(t).fn \notin Operation /\ frames[t] # <<>> /\ MoveTo(t, "resolve")
    BY <1>6, HookCallsAssumption DEF ResolveSize, Inside
  <2>2. s_depth[t] <= 0
    BY <1>6, <1>3 DEF ResolveSize, Active
  <2>3. Weight(Within(t)) = 0
    BY <2>1 DEF Weight, Guarded
  <2>4. s_depth' = s_depth /\ lost' = lost
    BY <1>6 DEF ResolveSize
  <2>5. "resolve" \in Place
    BY DEF Place
  <2> QED
    BY <1>1, <1>3, <2>1, <2>2, <2>3, <2>4, <2>5, MoveKeeps
<1>7. CASE LeaveToOriginal(t)
  <2>1. frames[t] # <<>> /\ Within(t).at = "format" /\ MoveTo(t, "original")
    BY <1>7 DEF LeaveToOriginal, Inside
  <2>2. Within(t).fn \notin Operation
    BY <1>1, <2>1, InnermostFrame DEF Formatter
  <2>3. Weight(Within(t)) = 0
    BY <2>1 DEF Weight, Guarded
  <2>4. s_depth' = s_depth /\ lost' = lost
    BY <1>7 DEF LeaveToOriginal
  <2>5. "original" \in Place
    BY DEF Place
  <2> QED
    BY <1>1, <1>3, <2>1, <2>2, <2>3, <2>4, <2>5, MoveKeeps
<1>8. CASE Catch(t)
  <2>1. frames[t] # <<>> /\ MoveTo(t, "catch")
    BY <1>8 DEF Catch
  <2>2. s_depth' = [s_depth EXCEPT ![t] = s_depth[t] - Weight(Within(t))] /\ lost' = lost
    <3>1. CASE Guarded(Within(t))
      BY <3>1, <1>8, <1>3 DEF Catch, ReleaseGuard, Weight
    <3>2. CASE ~Guarded(Within(t))
      BY <3>2, <1>8, <1>3 DEF Catch, ReleaseGuard, Weight
    <3> QED
      BY <3>1, <3>2
  <2>3. Weight(Within(t)) \in Nat /\ "catch" \in Place
    BY DEF Weight, Place
  <2> DEFINE d == s_depth[t] - Weight(Within(t))
  <2>4. /\ d \in Int /\ d - lost[t] = s_depth[t] - lost[t] - Weight(Within(t))
        /\ s_depth' = [s_depth EXCEPT ![t] = d] /\ lost' = [lost EXCEPT ![t] = lost[t]]
    BY <1>3, <2>2, <2>3
  <2> HIDE DEF d
  <2> QED
    BY <1>1, <1>3, <2>1, <2>3, <2>4, MoveKeeps
<1>9. CASE Except(t)
  <2>1. frames[t] # <<>> /\ MoveTo(t, "except") /\ s_depth' = s_depth
    BY <1>9 DEF Except
  <2>2. lost' = [lost EXCEPT ![t] = lost[t] + Weight(Within(t))]
    <3>1. CASE Guarded(Within(t))
      BY <3>1, <1>9, <1>3 DEF Except, Weight
    <3>2. CASE ~Guarded(Within(t))
      BY <3>2, <1>9, <1>3 DEF Except, Weight
    <3> QED
      BY <3>1, <3>2
  <2>3. Weight(Within(t)) \in Nat /\ "except" \in Place
    BY DEF Weight, Place
  <2> DEFINE l == lost[t] + Weight(Within(t))
  <2>4. /\ l \in Nat /\ s_depth[t] - l = s_depth[t] - lost[t] - Weight(Within(t))
        /\ s_depth' = [s_depth EXCEPT ![t] = s_depth[t]] /\ lost' = [lost EXCEPT ![t] = l]
    BY <1>3, <2>1, <2>2, <2>3
  <2> HIDE DEF l
  <2> QED
    BY <1>1, <1>3, <2>1, <2>3, <2>4, MoveKeeps
<1> QED
  BY <1>2, <1>4, <1>5, <1>6, <1>7, <1>8, <1>9

-----------------------------------------------------------------------------
LEMMA LifecycleStepIsNoCall ==
  ASSUME HookCallsInv, [LifecycleNext]_lifecycleVars, UNCHANGED callVars
  PROVE  HookCallsInv'
<1>1. LifecycleInv' /\ PointersInv' /\ originals \subseteq originals'
  BY LifecycleStepKeeps, PointersStay DEF HookCallsInv
<1>2. CallTypes' /\ GuardsCounted' /\ StacksQuiet'
  BY DEF HookCallsInv, CallsInv, CallTypes, GuardsCounted, StacksQuiet, callVars, GuardedAt,
         Guarded, Quiet
<1>3. StacksKnown'
  BY <1>1 DEF HookCallsInv, CallsInv, StacksKnown, Known, callVars
<1> QED
  BY <1>1, <1>2, <1>3 DEF HookCallsInv, CallsInv

LEMMA HookCallsInitEstablishes == HookCallsInit => HookCallsInv
<1> SUFFICES ASSUME HookCallsInit
             PROVE  HookCallsInv
  OBVIOUS
<1>1. LifecycleInv
  BY LifecycleInitEstablishes DEF HookCallsInit
<1>2. PointersInv
  BY DEF HookCallsInit, LifecycleInit, HookInit, PointersInv
<1>3. CallTypes
  BY DEF HookCallsInit, CallTypes
<1>4. \A t \in Thread : frames[t] = <<>> /\ s_depth[t] = 0 /\ lost[t] = 0
  BY DEF HookCallsInit
<1>5. GuardedAt(<<>>) = {} /\ Quiet(<<>>) /\ Known(<<>>)
  BY DEF GuardedAt, Quiet, Known
<1>6. GuardsCounted /\ StacksQuiet /\ StacksKnown
  BY <1>4, <1>5, FS_EmptySet DEF GuardsCounted, StacksQuiet, StacksKnown
<1> QED
  BY <1>1, <1>2, <1>3, <1>6 DEF HookCallsInv, CallsInv

LEMMA HookCallsStepKeeps == HookCallsInv /\ [HookCallsNext]_hookCallVars => HookCallsInv'
<1> SUFFICES ASSUME HookCallsInv, [HookCallsNext]_hookCallVars
             PROVE  HookCallsInv'
  OBVIOUS
<1>1. CASE LifecycleNext /\ UNCHANGED callVars
  BY <1>1, LifecycleStepIsNoCall
<1>2. CASE CallStep /\ UNCHANGED lifecycleVars
  <2>1. LifecycleInv' /\ PointersInv' /\ UNCHANGED originals
    BY <1>2, LifecycleStepKeeps DEF HookCallsInv, PointersInv, lifecycleVars, hookVars
  <2>2. CallsInv'
    BY <1>2, <2>1, CallStepKeeps
  <2> QED
    BY <2>1, <2>2 DEF HookCallsInv
<1>3. CASE UNCHANGED hookCallVars
  BY <1>3, LifecycleStepIsNoCall DEF hookCallVars
<1> QED
  BY <1>1, <1>2, <1>3 DEF HookCallsNext, LifecycleNext, QueueMiss

(* The inductive invariant, for any threads, nesting and exceptions.       *)
THEOREM HookCallsInvariant == HookCallsSpec => []HookCallsInv
<1> QED
  BY HookCallsInitEstablishes, HookCallsStepKeeps, PTL DEF HookCallsSpec

(* With Explorer's threads in it, the module lives as Lifecycle says: what *)
(* is proved of LifecycleSpec holds while hooked functions run.            *)
THEOREM CallsImplementLifecycle == HookCallsSpec => LifecycleSpec
<1>1. HookCallsInit => LifecycleInit
  BY DEF HookCallsInit
<1>2. [HookCallsNext]_hookCallVars => [LifecycleNext]_lifecycleVars
  BY DEF HookCallsNext, LifecycleNext, QueueMiss, hookCallVars
<1> QED
  BY <1>1, <1>2, PTL DEF HookCallsSpec, LifecycleSpec

(* No hooked function calls through a null pointer.                        *)
THEOREM OriginalsStayCallable == HookCallsSpec => []OriginalIsCallable
<1>1. HookCallsInv => OriginalIsCallable
  BY DEF HookCallsInv, CallsInv, StacksKnown, Known, OriginalIsCallable
<1> QED
  BY <1>1, HookCallsInvariant, PTL

(* Nothing is resolved on a thread under Prepare or Do.                    *)
THEOREM OperationsResolveNothing == HookCallsSpec => []RecursionIsQuiet
<1>1. HookCallsInv => RecursionIsQuiet
  BY DEF HookCallsInv, CallsInv, StacksQuiet, Quiet, RecursionIsQuiet
<1> QED
  BY <1>1, HookCallsInvariant, PTL
=============================================================================
