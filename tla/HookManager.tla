---------------------------- MODULE HookManager ----------------------------
(***************************************************************************)
(* fs::hooks::HookManager (hook_manager.cpp) with its DetourTransaction    *)
(* (detour_wrapper.cpp) and the hook of RegQueryValueExW                   *)
(* (reg_query_hook.cpp): which functions are hooked, and how a transaction *)
(* changes that all at once or, when something fails, not at all.          *)
(*                                                                         *)
(* Detours has one transaction at a time in the process.  A begin fails    *)
(* while there is one, an operation in it may be refused, and so may the   *)
(* commit; a refused commit ends the transaction.  Whether a refused       *)
(* operation also fails the commit is left open.                           *)
(***************************************************************************)
CONSTANTS
  Critical,   \* functions that must be found and hooked
  NonAlloc,   \* PSFormatForDisplay, which may be missing
  RegQuery    \* RegQueryValueExW, whose hook is optional

ASSUME HookAssumption ==
  Critical # {} /\ NonAlloc \notin Critical /\ RegQuery \notin Critical \cup {NonAlloc}

Hook == Critical \cup {NonAlloc, RegQuery}

VARIABLES
  m_active,
  originals,     \* functions whose s_original pointer is set
  hooked,        \* functions that lead into the module
  transaction,   \* Detours' transaction: "none", or who began it
  queued,        \* operations accepted in it
  installPc, removePc,  \* where install_hooks and remove_hooks stand
  removalFailed  \* history: an operation or the commit of a removal failed

detourVars == <<transaction, queued>>
hookVars   == <<m_active, originals, hooked, detourVars, installPc, removePc, removalFailed>>

HookInit ==
  /\ m_active = FALSE
  /\ originals = {} /\ hooked = {}
  /\ transaction = "none" /\ queued = {}
  /\ installPc = "idle" /\ removePc = "idle"
  /\ removalFailed = FALSE

(* DetourTransaction::begin, which also fails, after an abort, when        *)
(* DetourUpdateThread does; abort and a commit, which leave none pending.  *)
Begin(who) == /\ transaction = "none"
              /\ transaction' = who
              /\ queued' = {}

EndTransaction == transaction' = "none" /\ queued' = {}

-----------------------------------------------------------------------------
(* install_hooks.  A module, an address or a function is not found, or all *)
(* are, but perhaps not PSFormatForDisplay.                                *)
Resolve ==
  /\ installPc = "resolve"
  /\ \/ installPc' = "returned" /\ UNCHANGED originals
     \/ /\ installPc' = "begin"
        /\ originals' \in {Critical, Critical \cup {NonAlloc}}
  /\ UNCHANGED <<m_active, hooked, detourVars, removePc, removalFailed>>

BeginInstall ==
  /\ installPc = "begin"
  /\ \/ Begin("install") /\ installPc' = "attach"
     \/ installPc' = "returned" /\ UNCHANGED detourVars
  /\ UNCHANGED <<m_active, originals, hooked, removePc, removalFailed>>

AttachAllKeepingPointer ==
  /\ installPc = "attach"
  /\ originals' \in {originals, originals \cup {RegQuery}}
  /\ \E attached \in SUBSET originals' :
       IF originals \subseteq attached
       THEN installPc' = "commit" /\ queued' = attached /\ UNCHANGED transaction
       ELSE installPc' = "returned" /\ EndTransaction
  /\ UNCHANGED <<m_active, hooked, removePc, removalFailed>>

(* install_reg_query_hook sets the pointer, attaches, and clears the       *)
(* pointer if that fails; its failure is not the caller's.                 *)
InstallRegQueryHook(attached) == originals' = originals \cup (attached \cap {RegQuery})

AttachAll ==
  /\ installPc = "attach"
  /\ \E attached \in SUBSET (originals \cup {RegQuery}) :
       /\ InstallRegQueryHook(attached)
       /\ IF originals \subseteq attached
          THEN installPc' = "commit" /\ queued' = attached /\ UNCHANGED transaction
          ELSE installPc' = "returned" /\ EndTransaction
  /\ UNCHANGED <<m_active, hooked, removePc, removalFailed>>

CommitInstall ==
  /\ installPc = "commit"
  /\ \/ hooked' = queued /\ m_active' = TRUE
     \/ UNCHANGED <<hooked, m_active>>
  /\ EndTransaction
  /\ installPc' = "returned"
  /\ UNCHANGED <<originals, removePc, removalFailed>>

InstallStep == Resolve \/ BeginInstall \/ AttachAll \/ CommitInstall

-----------------------------------------------------------------------------
(* remove_hooks.                                                           *)
CheckActive ==
  /\ removePc = "check"
  /\ removePc' = IF m_active THEN "begin" ELSE "returned"
  /\ UNCHANGED <<m_active, originals, hooked, detourVars, installPc, removalFailed>>

RemovalFails == removePc' = "returned" /\ removalFailed' = TRUE

BeginRemoval ==
  /\ removePc = "begin"
  /\ \/ Begin("remove") /\ removePc' = "detach" /\ UNCHANGED removalFailed
     \/ RemovalFails /\ UNCHANGED detourVars
  /\ UNCHANGED <<m_active, originals, hooked, installPc>>

(* Detours refuses to detach what is not attached.  The optional hook's    *)
(* refusal is not remove_hooks's.                                          *)
DetachAll ==
  /\ removePc = "detach"
  /\ \E detached \in SUBSET (originals \cap hooked) :
       IF originals \ {RegQuery} \subseteq detached
       THEN /\ queued' = detached
            /\ removePc' = "commit"
            /\ removalFailed' = (removalFailed \/ detached # originals)
            /\ UNCHANGED transaction
       ELSE RemovalFails /\ EndTransaction
  /\ UNCHANGED <<m_active, originals, hooked, installPc>>

(* The original pointers outlive the hooks; in the mutant they do not.     *)
CommitRemovalClearing ==
  /\ removePc = "commit"
  /\ \/ /\ hooked' = hooked \ queued
        /\ originals' = {}
        /\ m_active' = FALSE
        /\ removePc' = "returned"
        /\ UNCHANGED removalFailed
     \/ RemovalFails /\ UNCHANGED <<hooked, originals, m_active>>
  /\ EndTransaction
  /\ UNCHANGED installPc

CommitRemoval ==
  /\ removePc = "commit"
  /\ \/ /\ hooked' = hooked \ queued
        /\ m_active' = FALSE
        /\ removePc' = "returned"
        /\ UNCHANGED removalFailed
     \/ RemovalFails /\ UNCHANGED <<hooked, m_active>>
  /\ EndTransaction
  /\ UNCHANGED <<originals, installPc>>

RemoveStep == CheckActive \/ BeginRemoval \/ DetachAll \/ CommitRemoval
=============================================================================
