--------------------------- MODULE NotifierThread ---------------------------
(***************************************************************************)
(* The life of ChangeNotifier's thread (change_notifier.cpp): start, stop, *)
(* and thread_proc around its message loop, whose handling of messages is  *)
(* the module ChangeNotifier.                                              *)
(***************************************************************************)
VARIABLES
  m_thread,       \* whether it holds a handle
  m_stop_event,   \* whether it holds a handle
  stopSignalled,  \* the event behind the handle is set
  startPc, stopPc,  \* where start and stop stand
  notifierPc      \* where the thread stands

notifierVars == <<m_thread, m_stop_event, stopSignalled, startPc, stopPc, notifierPc>>

NotifierInit ==
  /\ m_thread = FALSE /\ m_stop_event = FALSE /\ stopSignalled = FALSE
  /\ startPc = "idle" /\ stopPc = "idle"
  /\ notifierPc = "none"

-----------------------------------------------------------------------------
(* start.                                                                  *)
CreateStopEvent ==
  /\ startPc = "start"
  /\ \/ /\ ~m_thread
        /\ m_stop_event' = TRUE
        /\ startPc' = "create"
     \/ startPc' = "returned" /\ UNCHANGED m_stop_event
  /\ UNCHANGED <<m_thread, stopSignalled, stopPc, notifierPc>>

LeaveStopEvent ==
  /\ startPc = "create"
  /\ notifierPc' \in {"created", "none"}
  /\ startPc' = IF notifierPc' = "created" THEN "store" ELSE "returned"
  /\ UNCHANGED <<m_thread, m_stop_event, stopSignalled, stopPc>>

(* The thread exists before m_thread holds its handle.                     *)
CreateNotifierThread ==
  /\ startPc = "create"
  /\ \/ notifierPc' = "created" /\ startPc' = "store" /\ UNCHANGED m_stop_event
     \/ startPc' = "returned" /\ m_stop_event' = FALSE /\ UNCHANGED notifierPc
  /\ UNCHANGED <<m_thread, stopSignalled, stopPc>>

StoreThread ==
  /\ startPc = "store"
  /\ m_thread' = TRUE
  /\ startPc' = "returned"
  /\ UNCHANGED <<m_stop_event, stopSignalled, stopPc, notifierPc>>

StartStep == CreateStopEvent \/ CreateNotifierThread \/ StoreThread

-----------------------------------------------------------------------------
(* stop.                                                                   *)
SignalStop ==
  /\ stopPc = "signal"
  /\ stopPc' = IF m_thread THEN "wait" ELSE "returned"
  /\ stopSignalled' = (m_thread \/ stopSignalled)
  /\ UNCHANGED <<m_thread, m_stop_event, startPc, notifierPc>>

WaitForEver ==
  /\ stopPc = "wait"
  /\ notifierPc = "gone"
  /\ stopPc' = "close"
  /\ UNCHANGED <<m_thread, m_stop_event, stopSignalled, startPc, notifierPc>>

(* WaitForSingleObject returns when the thread has ended or after five     *)
(* seconds, and the code does not ask which.                               *)
WaitForThread ==
  /\ stopPc = "wait"
  /\ stopPc' = "close"
  /\ UNCHANGED <<m_thread, m_stop_event, stopSignalled, startPc, notifierPc>>

CloseHandles ==
  /\ stopPc = "close"
  /\ m_thread' = FALSE /\ m_stop_event' = FALSE
  /\ stopPc' = "returned"
  /\ UNCHANGED <<stopSignalled, startPc, notifierPc>>

StopStep == SignalStop \/ WaitForThread \/ CloseHandles

-----------------------------------------------------------------------------
(* thread_proc.                                                            *)
GoTo(from, to) ==
  /\ notifierPc = from
  /\ notifierPc' \in to
  /\ UNCHANGED <<m_thread, m_stop_event, stopSignalled, startPc, stopPc>>

(* The window or the registration with the shell fails, or the loop begins. *)
Register == GoTo("register", {"loop", "ending"})

(* MsgWaitForMultipleObjects reads the handle.  Without one it fails, and  *)
(* the code takes that for messages.                                       *)
WaitForMessages == GoTo("loop", IF m_stop_event THEN {"waiting"} ELSE {"draining"})
StopSeen        == stopSignalled /\ GoTo("waiting", {"cleanup"})
MessageArrives  == GoTo("waiting", {"draining"})
Drain           == GoTo("draining", {"loop"})
Deregister      == GoTo("cleanup", {"ending"})

NotifierThreadStep == \/ Register \/ WaitForMessages \/ StopSeen
                      \/ MessageArrives \/ Drain \/ Deregister
=============================================================================
