--------------------------- MODULE ChangeNotifier ---------------------------
(***************************************************************************)
(* The message loop of fs::core::ChangeNotifier (change_notifier.cpp): it  *)
(* takes a shell event, erases the cache entries of the path and of every  *)
(* folder above it, one lock at a time, and then asks Explorer to query    *)
(* the folders among them again.                                           *)
(*                                                                         *)
(* The shell is external: it posts an event to the hidden window or loses  *)
(* it, and it posts the UPDATEITEMs this program sends back to it as well. *)
(***************************************************************************)
EXTENDS SizeCache, SequencesExt

CONSTANT Folder   \* the keys of the directories that exist

VARIABLES
  events,   \* shell events posted and not yet taken from the message queue
  visits,   \* paths invalidate_path_and_ancestors has still to invalidate
  toNotify, \* its foldersToNotify
  renamed   \* the new path of the rename being handled, or <<>>

notifierVars == <<events, visits, toNotify, renamed>>

Event == [kind : {"updateitem", "rename"}, path : Path \cup Key,
          newPath : Path \cup {<<>>}]

IsDriveRoot(p)     == Len(p) = 2 /\ HasDrive(p) /\ EndsInSep(p)
IsExistingFolder(p) == KeyOf[p] \in Folder

NotifierInit == events = {} /\ visits = <<>> /\ toNotify = <<>> /\ renamed = <<>>

NotifierIdle == visits = <<>> /\ toNotify = <<>> /\ renamed = <<>>

(* A message is taken.  An UPDATEITEM on a directory is dropped: it is one *)
(* of our own, sent when a size is ready.                                  *)
TakeEveryEvent(e) ==
  /\ NotifierIdle
  /\ e \in events
  /\ events' = events \ {e}
  /\ visits' = VisitedPaths(e.path)
  /\ renamed' = e.newPath
  /\ UNCHANGED <<m_cache, toNotify>>

TakeEventForOldPath(e) ==
  /\ NotifierIdle
  /\ e \in events
  /\ events' = events \ {e}
  /\ visits' = IF e.kind = "updateitem" /\ IsExistingFolder(e.path) THEN <<>>
               ELSE VisitedPaths(e.path)
  /\ UNCHANGED <<m_cache, toNotify, renamed>>

TakeEvent(e) ==
  /\ NotifierIdle
  /\ e \in events
  /\ events' = events \ {e}
  /\ visits' = IF e.kind = "updateitem" /\ IsExistingFolder(e.path) THEN <<>>
               ELSE VisitedPaths(e.path)
  /\ renamed' = e.newPath
  /\ UNCHANGED <<m_cache, toNotify>>

(* The loop of invalidate_path_and_ancestors, one path at a time.          *)
InvalidateNext ==
  LET p == Head(visits)
  IN  /\ visits # <<>>
      /\ Invalidate(p)
      /\ visits' = Tail(visits)
      /\ toNotify' = IF IsExistingFolder(p) /\ ~IsDriveRoot(p) THEN Append(toNotify, p)
                     ELSE toNotify
      /\ UNCHANGED <<events, renamed>>

(* Only when every entry is gone are the folders announced, one by one.    *)
(* The shell posts each announcement to this loop, too.                    *)
Announce(p) == events' = events \cup {[kind |-> "updateitem", path |-> p, newPath |-> <<>>]}

NotifyNext ==
  /\ visits = <<>>
  /\ toNotify # <<>>
  /\ Announce(Head(toNotify))
  /\ toNotify' = Tail(toNotify)
  /\ UNCHANGED <<m_cache, visits, renamed>>

(* A rename is handled for the new name after it has been for the old one. *)
ContinueWithNewPath ==
  /\ visits = <<>>
  /\ toNotify = <<>>
  /\ renamed # <<>>
  /\ visits' = VisitedPaths(renamed)
  /\ renamed' = <<>>
  /\ UNCHANGED <<m_cache, events, toNotify>>
=============================================================================
