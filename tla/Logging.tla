------------------------------ MODULE Logging ------------------------------
(***************************************************************************)
(* The log (logging.cpp, logging.h) from DllMain's attach to its detach,   *)
(* in either build: a release build logs warnings and errors, a debug      *)
(* build everything, and to a file (CMakeLists.txt).                       *)
(*                                                                         *)
(* g_log_mutex is a std::mutex.  To lock it on the thread that holds it is *)
(* undefined: the thread never goes on, or the runtime throws.             *)
(***************************************************************************)
CONSTANTS
  Loader,  \* the thread that loads and unloads the module
  Thread,  \* others, which log while it is loaded
  Nobody

VARIABLES
  build,          \* "debug" or "release"
  dll,            \* "attaching", "attached" or "failed"
  g_log_mutex,    \* who holds it
  g_initialized,
  g_log_file,     \* is open
  place,          \* in DllMain, init_logging and shutdown_logging
  logging         \* where a thread is in log_message

loggingVars == <<build, dll, g_log_mutex, g_initialized, g_log_file, place, logging>>

LoggingInit ==
  /\ build \in {"debug", "release"}
  /\ dll = "attaching" /\ place = "init"
  /\ g_log_mutex = Nobody /\ g_initialized = FALSE /\ g_log_file = FALSE
  /\ logging = [t \in Thread \cup {Loader} |-> "no"]

-----------------------------------------------------------------------------
(* log_message and log_message_w, for a level that the build has.          *)
LockToLog(t) ==
  /\ logging[t] = "lock" /\ g_log_mutex = Nobody
  /\ g_log_mutex' = t /\ logging' = [logging EXCEPT ![t] = "write"]
  /\ UNCHANGED <<build, dll, g_initialized, g_log_file, place>>

WriteAndUnlock(t) ==
  /\ logging[t] = "write"
  /\ g_log_mutex' = Nobody /\ logging' = [logging EXCEPT ![t] = "no"]
  /\ UNCHANGED <<build, dll, g_initialized, g_log_file, place>>

LockAgain(t) ==
  /\ logging[t] = "lock" /\ g_log_mutex = t
  /\ \/ logging' = [logging EXCEPT ![t] = "blocked"] /\ UNCHANGED <<g_log_mutex, dll>>
     \/ logging' = [logging EXCEPT ![t] = "no"] /\ g_log_mutex' = Nobody /\ dll' = "failed"
  /\ UNCHANGED <<build, g_initialized, g_log_file, place>>

LogStep(t) == LockToLog(t) \/ WriteAndUnlock(t) \/ LockAgain(t)

LogWarning(t) ==
  /\ dll = "attached" /\ place # "gone" /\ logging[t] = "no"
  /\ logging' = [logging EXCEPT ![t] = "lock"]
  /\ UNCHANGED <<build, dll, g_log_mutex, g_initialized, g_log_file, place>>

(* FS_INFO on the loader's thread, on the way to the next place.           *)
Info(next) ==
  /\ place' = next
  /\ logging' = IF build = "debug" THEN [logging EXCEPT ![Loader] = "lock"] ELSE logging

-----------------------------------------------------------------------------
At(p) == place = p /\ logging[Loader] = "no" /\ dll # "failed"

Lock(p, next) == /\ At(p) /\ g_log_mutex = Nobody
                 /\ g_log_mutex' = Loader /\ place' = next
                 /\ UNCHANGED <<build, dll, g_initialized, g_log_file, logging>>

Unlock(p, next) == /\ At(p)
                   /\ g_log_mutex' = Nobody /\ place' = next
                   /\ UNCHANGED <<build, dll, g_initialized, g_log_file, logging>>

(* init_logging: the file is a debug build's, and may not be opened.       *)
Greet == /\ At("greet")
         /\ g_initialized' = TRUE
         /\ IF g_initialized THEN place' = "initialized" /\ UNCHANGED logging ELSE Info("open")
         /\ UNCHANGED <<build, dll, g_log_mutex, g_log_file>>

OpenFile == /\ At("open")
            /\ \/ build = "debug" /\ g_log_file' = TRUE /\ Info("initialized")
               \/ place' = "initialized" /\ UNCHANGED <<g_log_file, logging>>
            /\ UNCHANGED <<build, dll, g_log_mutex, g_initialized>>

(* DllMain, which starts the others and, when all is done, ends them.      *)
Announce(p, next) == /\ At(p)
                     /\ Info(next)
                     /\ UNCHANGED <<build, dll, g_log_mutex, g_initialized, g_log_file>>

Attach == /\ At("attach")
          /\ dll' = "attached" /\ place' = "loaded"
          /\ UNCHANGED <<build, g_log_mutex, g_initialized, g_log_file, logging>>

(* shutdown_logging, after its own message.                                *)
CloseFile == /\ At("close")
             /\ g_log_file' = FALSE /\ g_initialized' = FALSE /\ place' = "closed"
             /\ UNCHANGED <<build, dll, g_log_mutex, logging>>

LoaderStep ==
  \/ Lock("init", "greet") \/ Greet \/ OpenFile \/ Unlock("initialized", "announce")
  \/ Announce("announce", "attach") \/ Attach \/ Announce("loaded", "shutdown")
  \/ Lock("shutdown", "farewell") \/ Announce("farewell", "close") \/ CloseFile
  \/ Unlock("closed", "gone")

LoggingNext == LoaderStep \/ LogStep(Loader) \/ \E t \in Thread : LogWarning(t) \/ LogStep(t)

(* Every thread that can go on does.                                       *)
LoggingSpec == /\ LoggingInit /\ [][LoggingNext]_loggingVars
               /\ WF_loggingVars(LoaderStep)
               /\ WF_loggingVars(LogStep(Loader))
               /\ \A t \in Thread : WF_loggingVars(LogStep(t))

-----------------------------------------------------------------------------
(* README.md: "scripts\build.bat Debug :: Debug build (verbose logging)".  *)
(* The module gets through DllMain in either build.  Refuted for the debug *)
(* build: init_logging logs while it holds the mutex that log_message      *)
(* locks.                                                                  *)
ModuleAttaches == <>(dll = "attached")
=============================================================================
