----------------------------- MODULE HookCalls -----------------------------
(***************************************************************************)
(* Explorer's threads inside the hooked functions (hook_manager.cpp,       *)
(* hook_manager.h) while the module starts up and is unloaded: every       *)
(* hooked function calls the original, which may call hooked functions in  *)
(* its turn, and meets C++ exceptions in an inner try block and structured *)
(* exceptions in an outer one.                                             *)
(*                                                                         *)
(* The module is compiled with /EHsc (CMakeLists.txt): a structured        *)
(* exception passes a function without running its destructors.            *)
(***************************************************************************)
EXTENDS Lifecycle, Integers, Sequences

CONSTANTS
  Thread,      \* Explorer's threads
  GetSize,     \* CFSFolder::_GetSize
  Operation,   \* CRecursiveFolderOperation's Prepare and Do
  MaxNesting,  \* bound on the hooked functions a thread is in
  MaxLost      \* bound on the exceptions that lose a guard

ASSUME HookCallsAssumption ==
  /\ Operation \cup {GetSize} \subseteq Critical /\ GetSize \notin Operation
  /\ {MaxNesting, MaxLost} \subseteq Nat

Formatter == Hook \ (Operation \cup {GetSize, RegQuery})

VARIABLES
  frames,   \* a thread's hooked functions, the outermost first
  s_depth,  \* RecursiveOpGuard's counter, one for each thread
  lost      \* history: the guards of a thread that nothing released

callVars == <<frames, s_depth, lost>>
hookCallVars == <<lifecycleVars, callVars>>

(* Where a hooked function is: in the original, which it calls first, in   *)
(* resolve_and_inject or in the formatting, or in the original again, from *)
(* the handler of the inner block or of the outer one.                     *)
Place == {"original", "resolve", "format", "catch", "except"}

HookCallsInit ==
  /\ LifecycleInit
  /\ frames = [t \in Thread |-> <<>>]
  /\ s_depth = [t \in Thread |-> 0]
  /\ lost = [t \in Thread |-> 0]

Within(t) == frames[t][Len(frames[t])]
Inside(t, place) == frames[t] # <<>> /\ Within(t).at = place

MoveTo(t, place) == frames' = [frames EXCEPT ![t][Len(frames[t])].at = place]
Leave(t)         == frames' = [frames EXCEPT ![t] = SubSeq(@, 1, Len(@) - 1)]

-----------------------------------------------------------------------------
(* RecursiveOpGuard, which only Prepare and Do hold, around the original.  *)
Guarded(frame) == frame.fn \in Operation /\ frame.at = "original"

ReleaseGuard(t) ==
  s_depth' = IF Guarded(Within(t)) THEN [s_depth EXCEPT ![t] = @ - 1] ELSE s_depth

Active(t) == s_depth[t] > 0

(* A thread calls a function that leads into the module, from the shell or *)
(* from within an original or resolve_and_inject, which ask the shell.     *)
FirstPlace(f) == IF f \in Formatter /\ s_initialized THEN {"format", "original"} ELSE {"original"}

EnterHook(t) ==
  /\ ~Inside(t, "format") /\ Len(frames[t]) < MaxNesting
  /\ \E f \in hooked : \E place \in FirstPlace(f) :
       LET frame == [fn |-> f, at |-> place]
       IN  /\ frames' = [frames EXCEPT ![t] = Append(@, frame)]
           /\ s_depth' = IF Guarded(frame) THEN [s_depth EXCEPT ![t] = @ + 1] ELSE s_depth
  /\ UNCHANGED lost

(* hooked_GetSize_inner, when the original left the size blank; then it    *)
(* asks whether an operation is under way on this thread.                  *)
ResolveWhateverIsActive(t) ==
  /\ Inside(t, "original") /\ Within(t).fn = GetSize
  /\ s_initialized
  /\ MoveTo(t, "resolve")
  /\ UNCHANGED <<s_depth, lost>>

ResolveSize(t) ==
  /\ Inside(t, "original") /\ Within(t).fn = GetSize
  /\ ~Active(t) /\ s_initialized
  /\ MoveTo(t, "resolve")
  /\ UNCHANGED <<s_depth, lost>>

(* The property is not the size, or the text could not be allocated.       *)
LeaveToOriginal(t) == /\ Inside(t, "format")
                      /\ MoveTo(t, "original")
                      /\ UNCHANGED <<s_depth, lost>>

(* The function returns, or an exception of its last call of the original  *)
(* goes on to whoever called it.                                           *)
ReturnFromHook(t) == /\ frames[t] # <<>>
                     /\ Leave(t)
                     /\ ReleaseGuard(t)
                     /\ UNCHANGED lost

(* A C++ exception reaches the inner block, unless it comes from that      *)
(* block's handler; hooked_RegQueryValueEx has no inner block.             *)
Catch(t) ==
  /\ frames[t] # <<>> /\ Within(t).at \in Place \ {"catch", "except"}
  /\ Within(t).fn # RegQuery
  /\ MoveTo(t, "catch")
  /\ ReleaseGuard(t)
  /\ UNCHANGED lost

(* A structured exception, or one that no inner block is there for.        *)
Except(t) ==
  /\ frames[t] # <<>> /\ Within(t).at # "except"
  /\ MoveTo(t, "except")
  /\ IF Guarded(Within(t))
     THEN lost[t] < MaxLost /\ lost' = [lost EXCEPT ![t] = @ + 1]
     ELSE UNCHANGED lost
  /\ UNCHANGED s_depth

CallStep == \E t \in Thread : \/ EnterHook(t) \/ ResolveSize(t) \/ LeaveToOriginal(t)
                              \/ ReturnFromHook(t) \/ Catch(t) \/ Except(t)

(* resolve_and_inject does not know the folder, and queues it.             *)
QueueMiss(t) == Inside(t, "resolve") /\ StartWorker /\ UNCHANGED callVars

HookCallsNext == /\ Loaded
                 /\ \/ ModuleStep /\ UNCHANGED callVars
                    \/ CallStep /\ UNCHANGED lifecycleVars
                    \/ \E t \in Thread : QueueMiss(t)

HookCallsSpec == HookCallsInit /\ [][HookCallsNext]_hookCallVars

-----------------------------------------------------------------------------
(* A hooked function never finds a null pointer where the original was,    *)
(* whatever fails in install_hooks and remove_hooks: the pointers are set  *)
(* before the hooks lead into the module, and stay when they no longer do, *)
(* for the threads that are still inside (remove_reg_query_hook).          *)
OriginalIsCallable ==
  \A t \in Thread : \A i \in DOMAIN frames[t] : frames[t][i].fn \in originals

(* While Prepare or Do works through a folder nothing on its thread        *)
(* resolves a size, however deep the calls go and whatever was thrown in   *)
(* them, until an exception takes the guard away (RecursiveOpGuard).       *)
RecursionIsQuiet ==
  \A t \in Thread : \A i, j \in DOMAIN frames[t] :
    i < j /\ Guarded(frames[t][i]) => frames[t][j].at # "resolve"

(* docs/hook-targets.md: "Guard is exception-safe - counter always         *)
(* decremented even on exception".  A thread that is in no operation has   *)
(* no guard.  Refuted.                                                     *)
GuardIsReleased == \A t \in Thread : frames[t] = <<>> => ~Active(t)
=============================================================================
