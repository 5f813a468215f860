----------------------------- MODULE Lifecycle -----------------------------
(***************************************************************************)
(* The module's life in its process (dll_main.cpp, init.cpp): DllMain      *)
(* starts a thread that installs the hooks and starts the notifier, and    *)
(* when the module is unloaded DllMain undoes this, under the loader lock, *)
(* which a thread needs in order to begin and to end.                      *)
(*                                                                         *)
(* Whether std::thread, which background_init and the resolver's worker    *)
(* run on, holds a reference to the module while its thread runs depends   *)
(* on the C++ runtime; CreateThread, which the notifier uses, does not.    *)
(* threadsPin is which of the two this build has.                          *)
(***************************************************************************)
EXTENDS HookManager, NotifierThread

VARIABLES
  threadsPin,
  m_worker,      \* whether it holds a thread, which then has not ended
  m_stopWorker,
  s_initFlag, s_initialized, s_shutdownRequested,
  initPc,     \* where the initialisation thread stands
  detachPc    \* where DllMain stands when the module is unloaded

threadVars == <<m_worker, m_stopWorker>>
lifeVars == <<threadsPin, s_initFlag, s_initialized, s_shutdownRequested, initPc, detachPc>>
lifecycleVars == <<hookVars, notifierVars, threadVars, lifeVars>>

LifecycleInit ==
  /\ HookInit
  /\ NotifierInit
  /\ m_worker = FALSE /\ m_stopWorker = FALSE
  /\ threadsPin \in BOOLEAN
  /\ s_initFlag = FALSE /\ s_initialized = FALSE /\ s_shutdownRequested = FALSE
  /\ initPc = "none"
  /\ detachPc = "loaded"

Loaded == detachPc \notin {"unloaded", "exited"}
LoaderLockHeld == detachPc \notin {"loaded", "unloaded", "exited"}

(* Inside the module's code, where a thread is lost if the module goes.    *)
InitInModule == initPc \in {"created", "check", "install", "start"}
NotifierInModule ==
  notifierPc \in {"created", "register", "loop", "waiting", "draining", "cleanup"}

-----------------------------------------------------------------------------
(* DLL_PROCESS_ATTACH.                                                     *)
InitializeFolderSize ==
  /\ ~s_initFlag /\ detachPc = "loaded"
  /\ s_initFlag' = TRUE
  /\ initPc' = "created"
  /\ UNCHANGED <<hookVars, notifierVars, threadVars, threadsPin, s_initialized,
                 s_shutdownRequested, detachPc>>

(* A thread begins and ends.                                               *)
BeginOrEndThread ==
  /\ ~LoaderLockHeld
  /\ \/ /\ \/ initPc = "created" /\ initPc' = "check"
           \/ initPc = "ending" /\ initPc' = "gone"
        /\ UNCHANGED <<notifierVars, threadVars, threadsPin, s_initFlag, s_initialized,
                       s_shutdownRequested, detachPc>>
     \/ /\ GoTo("created", {"register"}) \/ GoTo("ending", {"gone"})
        /\ UNCHANGED <<threadVars, lifeVars>>
  /\ UNCHANGED hookVars

(* background_init.                                                        *)
CheckShutdownAndAnnounce ==
  /\ initPc = "check"
  /\ IF s_shutdownRequested
     THEN initPc' = "ending" /\ UNCHANGED <<installPc, s_initialized>>
     ELSE initPc' = "install" /\ installPc' = "resolve" /\ s_initialized' = TRUE
  /\ UNCHANGED <<m_active, originals, hooked, detourVars, removePc, removalFailed,
                 notifierVars, threadVars, threadsPin, s_initFlag, s_shutdownRequested, detachPc>>

CheckShutdown ==
  /\ initPc = "check"
  /\ IF s_shutdownRequested
     THEN initPc' = "ending" /\ UNCHANGED installPc
     ELSE initPc' = "install" /\ installPc' = "resolve"
  /\ UNCHANGED <<m_active, originals, hooked, detourVars, removePc, removalFailed,
                 notifierVars, threadVars, threadsPin, s_initFlag, s_initialized,
                 s_shutdownRequested, detachPc>>

Initialized ==
  /\ initPc = "install" /\ installPc = "returned"
  /\ IF m_active
     THEN s_initialized' = TRUE /\ initPc' = "start" /\ startPc' = "start"
     ELSE UNCHANGED <<s_initialized, startPc>> /\ initPc' = "ending"
  /\ UNCHANGED <<hookVars, m_thread, m_stop_event, stopSignalled, stopPc, notifierPc, threadVars,
                 threadsPin, s_initFlag, s_shutdownRequested, detachPc>>

LeaveInit ==
  /\ initPc = "start" /\ startPc = "returned"
  /\ initPc' = "ending"
  /\ UNCHANGED <<hookVars, notifierVars, threadVars, threadsPin, s_initFlag, s_initialized,
                 s_shutdownRequested, detachPc>>

InitStep == \/ CheckShutdown \/ Initialized \/ LeaveInit
            \/ (InstallStep /\ UNCHANGED <<notifierVars, threadVars, lifeVars>>)
            \/ (StartStep /\ UNCHANGED <<hookVars, threadVars, lifeVars>>)

-----------------------------------------------------------------------------
(* DLL_PROCESS_DETACH: the last reference to the module is released, or    *)
(* the process exits, in which case nothing is undone.                     *)
Detach ==
  /\ s_initFlag /\ detachPc = "loaded"
  /\ threadsPin => ~InitInModule /\ ~m_worker
  /\ detachPc' = "check"
  /\ s_shutdownRequested' = TRUE
  /\ UNCHANGED <<hookVars, notifierVars, threadVars, threadsPin, s_initFlag, s_initialized,
                 initPc>>

ExitProcess ==
  /\ s_initFlag /\ detachPc = "loaded"
  /\ detachPc' = "exited"
  /\ UNCHANGED <<hookVars, notifierVars, threadVars, threadsPin, s_initFlag, s_initialized,
                 s_shutdownRequested, initPc>>

(* shutdown_foldersize.                                                    *)
CheckNotifier ==
  /\ detachPc = "check"
  /\ IF m_thread
     THEN detachPc' = "stop" /\ stopPc' = "signal"
     ELSE detachPc' = "clean" /\ UNCHANGED stopPc
  /\ UNCHANGED <<hookVars, m_thread, m_stop_event, stopSignalled, startPc, notifierPc,
                 threadVars, threadsPin, s_initFlag, s_initialized, s_shutdownRequested, initPc>>

CheckInitialized ==
  /\ detachPc = "check"
  /\ IF s_initialized
     THEN detachPc' = "stop" /\ stopPc' = "signal"
     ELSE detachPc' = "clean" /\ UNCHANGED stopPc
  /\ UNCHANGED <<hookVars, m_thread, m_stop_event, stopSignalled, startPc, notifierPc,
                 threadVars, threadsPin, s_initFlag, s_initialized, s_shutdownRequested, initPc>>

RemoveHooks ==
  /\ detachPc = "stop" /\ stopPc = "returned"
  /\ detachPc' = "remove" /\ removePc' = "check"
  /\ UNCHANGED <<m_active, originals, hooked, detourVars, installPc, removalFailed,
                 notifierVars, threadVars, threadsPin, s_initFlag, s_initialized,
                 s_shutdownRequested, initPc>>

Uninitialize ==
  /\ detachPc = "remove" /\ removePc = "returned"
  /\ detachPc' = "clean"
  /\ s_initialized' = FALSE
  /\ UNCHANGED <<hookVars, notifierVars, threadVars, threadsPin, s_initFlag,
                 s_shutdownRequested, initPc>>

(* shutdown_foldersize has told the Everything client, the scans and the   *)
(* cache to let go, and the static objects are destroyed, still under the  *)
(* loader lock.  Of their destructors only ~SizeResolver's concerns        *)
(* anything here: it tells the worker to stop, and joins it.               *)
DestroyResolver ==
  /\ detachPc = "clean"
  /\ m_stopWorker' = TRUE
  /\ detachPc' = "join"
  /\ UNCHANGED <<hookVars, notifierVars, m_worker, threadsPin, s_initFlag, s_initialized,
                 s_shutdownRequested, initPc>>

LeaveWorker ==
  /\ detachPc = "join"
  /\ detachPc' = "leave"
  /\ UNCHANGED <<hookVars, notifierVars, threadVars, threadsPin, s_initFlag, s_initialized,
                 s_shutdownRequested, initPc>>

(* Without the lock the worker can neither end nor get the thread that     *)
(* scans for it, and nobody has told it to end before.                     *)
JoinWorker ==
  /\ detachPc = "join"
  /\ m_worker => ~LoaderLockHeld
  /\ m_worker' = FALSE
  /\ detachPc' = "leave"
  /\ UNCHANGED <<hookVars, notifierVars, m_stopWorker, threadsPin, s_initFlag, s_initialized,
                 s_shutdownRequested, initPc>>

(* DllMain returns.                                                        *)
Unload ==
  /\ detachPc = "leave"
  /\ detachPc' = "unloaded"
  /\ UNCHANGED <<hookVars, notifierVars, threadVars, threadsPin, s_initFlag, s_initialized,
                 s_shutdownRequested, initPc>>

DetachStep == \/ CheckInitialized \/ RemoveHooks \/ Uninitialize
              \/ DestroyResolver \/ JoinWorker \/ Unload
              \/ (StopStep /\ UNCHANGED <<hookVars, threadVars, lifeVars>>)
              \/ (RemoveStep /\ UNCHANGED <<notifierVars, threadVars, lifeVars>>)

-----------------------------------------------------------------------------
ThreadStep == NotifierThreadStep /\ UNCHANGED <<hookVars, threadVars, lifeVars>>

(* ensure_worker_started, at the first folder that a hooked function       *)
(* queues.  Threads get there once s_initialized is set, which is when     *)
(* background_init starts the notifier, and may stay until the module goes. *)
StartWorker ==
  /\ startPc # "idle" /\ ~m_worker
  /\ m_worker' = TRUE /\ m_stopWorker' = FALSE
  /\ UNCHANGED <<hookVars, notifierVars, lifeVars>>

ModuleStep == \/ InitializeFolderSize \/ BeginOrEndThread \/ InitStep \/ ThreadStep
              \/ Detach \/ ExitProcess \/ DetachStep

(* A module that is gone, or a process, takes no step.                     *)
LifecycleNext == Loaded /\ (ModuleStep \/ StartWorker)

(* DllMain runs on a thread of the process.                                *)
LifecycleSpec     == LifecycleInit /\ [][LifecycleNext]_lifecycleVars
LifecycleFairness == WF_lifecycleVars(DetachStep)

-----------------------------------------------------------------------------
(* Types, and that the stop event exists with the thread's handle whenever *)
(* neither start nor stop is at work on them: neither leaves the other     *)
(* handle behind.                                                          *)
LifecycleFlags ==
  {m_active, removalFailed, m_thread, m_stop_event, stopSignalled,
   m_worker, m_stopWorker, threadsPin, s_initFlag, s_initialized,
   s_shutdownRequested} \subseteq BOOLEAN

LifecyclePlaces ==
  /\ originals \subseteq Hook /\ hooked \subseteq Hook /\ queued \subseteq Hook
  /\ transaction \in {"none", "install", "remove"}
  /\ installPc \in {"idle", "resolve", "begin", "attach", "commit", "returned"}
  /\ removePc \in {"idle", "check", "begin", "detach", "commit", "returned"}
  /\ startPc \in {"idle", "start", "create", "store", "returned"}
  /\ stopPc \in {"idle", "signal", "wait", "close", "returned"}
  /\ notifierPc \in {"none", "created", "register", "loop", "waiting", "draining",
                     "cleanup", "ending", "gone"}
  /\ initPc \in {"none", "created", "check", "install", "start", "ending", "gone"}
  /\ detachPc \in {"loaded", "check", "stop", "remove", "clean", "join", "leave",
                   "unloaded", "exited"}

LifecycleTypeOK ==
  /\ LifecycleFlags /\ LifecyclePlaces
  /\ startPc \in {"idle", "returned"} => (m_thread <=> m_stop_event)

(* remove_hooks finds the pointers of exactly the functions that are       *)
(* hooked, the optional ones included, whatever failed on the way; and no  *)
(* function is hooked that it does not know of, unless a removal failed.   *)
HooksAreKnown ==
  /\ m_active => hooked = originals /\ Critical \subseteq hooked
  /\ ~m_active => hooked = {} \/ removalFailed

(* remove_hooks never comes upon an installation that is still under way,  *)
(* in which case it would find nothing active, or Detours busy, and leave  *)
(* hooks that are installed a moment later: s_initialized, by which        *)
(* shutdown decides, is set after the commit.                              *)
RemovalFollowsInstall == removePc \in {"check", "begin"} => m_active /\ transaction = "none"

(* No function leads into the module after it has gone, unless Detours     *)
(* refused the removal, or unless the runtime lets the module go in the    *)
(* middle of background_init, after its only look at s_shutdownRequested.  *)
HooksLeaveWithModule ==
  detachPc = "unloaded" /\ hooked # {} =>
    removalFailed \/ (~threadsPin /\ (InitInModule \/ s_initialized))

(* The module leaves no worker behind, waiting or scanning in it, but      *)
(* where a folder was queued after ~SizeResolver had looked for one:       *)
(* nothing forbids that, and it takes m_stopWorker back.                   *)
WorkerLeavesWithModule == detachPc = "unloaded" /\ m_stopWorker => ~m_worker

(* The unloading of the module comes to an end, although the thread that   *)
(* stop waits for cannot end while DllMain holds the loader lock; but not  *)
(* where a worker was started: ~SizeResolver waits for it without a limit. *)
UnloadEnds == detachPc = "check" ~> detachPc = "unloaded" \/ (detachPc = "join" /\ m_worker)

(* init.h on shutdown: "just set flags and let things unwind".  When the   *)
(* module goes, the notifier's thread has unwound out of it.  Refuted.     *)
NotifierUnwinds == threadsPin /\ detachPc = "unloaded" => ~NotifierInModule
=============================================================================
