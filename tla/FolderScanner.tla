--------------------------- MODULE FolderScanner ---------------------------
(***************************************************************************)
(* fs::providers::FolderScanner (folder_scanner.cpp).  A call starts a     *)
(* thread (std::async) that walks a tree, and registers a cancel token for *)
(* it.  cancel_all stores true in every registered token and forgets them; *)
(* a scan forgets its own when it ends.  Callers of scan_sync give up      *)
(* after a while, and then cancel every scan of the process; callers of    *)
(* scan_async wait.                                                        *)
(*                                                                         *)
(* A future of std::async waits for its thread when it is destroyed, so a  *)
(* caller has at most one scan at a time, which goes by its name.  The     *)
(* tree itself does not change here (FolderSizeSystem is about that).      *)
(***************************************************************************)
EXTENDS Integers, Sequences, FiniteSets

CONSTANTS
  Caller,    \* threads that call the scanner
  Impatient, \* those of them that call scan_sync
  Dir,       \* directories
  Entries,   \* Entries[d]: the entries of d in FindNextFile's order
  SizeOfFirst,  \* SizeOfFirst[d][n]: the bytes in the first n entries of d
  NoSize

VARIABLES
  m_cancelTokens,  \* scans whose token is registered
  cancelled,       \* scans whose token holds true
  callerPc, reply, \* where a caller stands, and its last answer
  asked,           \* the path of a caller's call
  scanPc,          \* where a caller's scan thread stands
  frames,          \* its activations of scan_recursive, innermost last
  result,          \* the ScanResult returned last
  disturbed        \* history: calls with a failed read or a cancellation

tokenVars  == <<m_cancelTokens, cancelled>>
callerVars == <<callerPc, asked, reply>>
scanVars   == <<scanPc, frames, result>>
scannerVars == <<tokenVars, callerVars, scanVars, disturbed>>

(* "other" is skipped: ".", ".." and reparse points.                       *)
Entry == [kind : {"file"}, size : Nat] \cup [kind : {"folder"}, dir : Dir]
           \cup [kind : {"other"}]

ASSUME ScannerAssumption ==
  /\ Impatient \subseteq Caller
  /\ Entries \in [Dir -> Seq(Entry)]
  /\ NoSize \notin Dir \cup Nat

(* What "the size of a tree" means: the size of a folder is that of all    *)
(* its entries, that of a skipped entry is nothing.                        *)
WholeSize(d) == SizeOfFirst[d][Len(Entries[d])]

EntrySize(e) == CASE e.kind = "file"   -> e.size
                  [] e.kind = "folder" -> WholeSize(e.dir)
                  [] e.kind = "other"  -> 0

ASSUME SizesAssumption ==
  \A d \in Dir :
    /\ SizeOfFirst[d] \in [0 .. Len(Entries[d]) -> Nat]
    /\ SizeOfFirst[d][0] = 0
    /\ \A n \in DOMAIN Entries[d] :
         SizeOfFirst[d][n] = SizeOfFirst[d][n - 1] + EntrySize(Entries[d][n])

Frame  == [dir : Dir, next : Nat \ {0}, total : Nat]
Result == [size : Nat, status : {"complete", "incomplete", "cancelled"}]
Nothing == [size |-> 0, status |-> "incomplete"]

ScannerInit ==
  /\ m_cancelTokens = {}
  /\ cancelled = {}
  /\ callerPc = [c \in Caller |-> "idle"]
  /\ asked = [c \in Caller |-> NoSize]
  /\ reply = [c \in Caller |-> NoSize]
  /\ scanPc = [c \in Caller |-> "none"]
  /\ frames = [c \in Caller |-> <<>>]
  /\ result = [c \in Caller |-> Nothing]
  /\ disturbed = {}

-----------------------------------------------------------------------------
(* scan_recursive.  An activation returns its total and a status to the    *)
(* one below it, or to the thread.                                         *)
Top(c) == frames[c][Len(frames[c])]
Below(c) == SubSeq(frames[c], 1, Len(frames[c]) - 1)
Activation(d) == [dir |-> d, next |-> 1, total |-> 0]

GoOn(c, pc, stack) == /\ scanPc' = [scanPc EXCEPT ![c] = pc]
                      /\ frames' = [frames EXCEPT ![c] = stack]
                      /\ UNCHANGED result

Return(c, size, status) ==
  /\ result' = [result EXCEPT ![c] = [size |-> size, status |-> status]]
  /\ frames' = [frames EXCEPT ![c] = Below(c)]
  /\ scanPc' = [scanPc EXCEPT ![c] = "return"]

(* The check on entry, then FindFirstFileEx, which may be denied, and      *)
(* which finds nothing at all in an empty drive root.                      *)
OpenDirectory(c) ==
  /\ scanPc[c] = "open"
  /\ \/ c \in cancelled /\ Return(c, 0, "cancelled") /\ UNCHANGED disturbed
     \/ /\ c \notin cancelled
        /\ Return(c, 0, "incomplete")
        /\ disturbed' = disturbed \cup {c}
     \/ /\ c \notin cancelled
        /\ Entries[Top(c).dir] # <<>>
        /\ GoOn(c, "entry", frames[c])
        /\ UNCHANGED disturbed
  /\ UNCHANGED <<tokenVars, callerVars>>

(* The body of the loop: the check between entries, then the entry.        *)
VisitEntry(c) ==
  LET top   == Top(c)
      entry == Entries[top.dir][top.next]
  IN  /\ scanPc[c] = "entry"
      /\ IF c \in cancelled THEN Return(c, top.total, "cancelled")
         ELSE IF entry.kind = "folder"
         THEN GoOn(c, "open", Append(frames[c], Activation(entry.dir)))
         ELSE GoOn(c, "next", Append(Below(c), [top EXCEPT
                !.total = @ + IF entry.kind = "file" THEN entry.size ELSE 0]))
      /\ UNCHANGED <<tokenVars, callerVars, disturbed>>

(* FindNextFile: another entry, no more files, or an error.                *)
FindNext(c) ==
  LET top  == Top(c)
      last == top.next = Len(Entries[top.dir])
  IN  /\ scanPc[c] = "next"
      /\ \/ /\ ~last
            /\ GoOn(c, "entry", Append(Below(c), [top EXCEPT !.next = @ + 1]))
            /\ UNCHANGED disturbed
         \/ last /\ Return(c, top.total, "complete") /\ UNCHANGED disturbed
         \/ /\ Return(c, top.total, "incomplete")
            /\ disturbed' = disturbed \cup {c}
      /\ UNCHANGED <<tokenVars, callerVars>>

(* Back in the activation below: its total grows; it goes on, or returns   *)
(* in its turn if the folder was not completed.                            *)
ReturnAsIfComplete(c) ==
  LET sum == Top(c).total + result[c].size
  IN  /\ scanPc[c] = "return"
      /\ frames[c] # <<>>
      /\ GoOn(c, "next", Append(Below(c), [Top(c) EXCEPT !.total = sum]))
      /\ UNCHANGED <<tokenVars, callerVars, disturbed>>

ReturnToFolderAbove(c) ==
  LET sum == Top(c).total + result[c].size
  IN  /\ scanPc[c] = "return"
      /\ frames[c] # <<>>
      /\ IF result[c].status = "complete"
         THEN GoOn(c, "next", Append(Below(c), [Top(c) EXCEPT !.total = sum]))
         ELSE Return(c, sum, result[c].status)
      /\ UNCHANGED <<tokenVars, callerVars, disturbed>>

(* remove_cancel_token, if the token is still registered; then the future  *)
(* has its value.                                                          *)
RemoveRegisteredToken(c) ==
  /\ scanPc[c] = "return"
  /\ frames[c] = <<>>
  /\ c \in m_cancelTokens
  /\ m_cancelTokens' = m_cancelTokens \ {c}
  /\ scanPc' = [scanPc EXCEPT ![c] = "ready"]
  /\ UNCHANGED <<cancelled, callerVars, frames, result, disturbed>>

KeepCancelToken(c) ==
  /\ scanPc[c] = "return"
  /\ frames[c] = <<>>
  /\ scanPc' = [scanPc EXCEPT ![c] = "ready"]
  /\ UNCHANGED <<tokenVars, callerVars, frames, result, disturbed>>

RemoveCancelToken(c) ==
  /\ scanPc[c] = "return"
  /\ frames[c] = <<>>
  /\ m_cancelTokens' = m_cancelTokens \ {c}
  /\ scanPc' = [scanPc EXCEPT ![c] = "ready"]
  /\ UNCHANGED <<cancelled, callerVars, frames, result, disturbed>>

-----------------------------------------------------------------------------
(* scan_async_result: a new token, which holds false, and the thread.      *)
StartScan(c, d) ==
  /\ callerPc[c] = "idle"
  /\ callerPc' = [callerPc EXCEPT ![c] = "waiting"]
  /\ asked' = [asked EXCEPT ![c] = d]
  /\ m_cancelTokens' = m_cancelTokens \cup {c}
  /\ scanPc' = [scanPc EXCEPT ![c] = "open"]
  /\ frames' = [frames EXCEPT ![c] = <<Activation(d)>>]
  /\ UNCHANGED <<cancelled, reply, result, disturbed>>

(* The caller returns once the thread has ended, be it that future.get()   *)
(* or that the future's destructor waited for it.  The token and the       *)
(* ScanResult go with the thread's state.                                  *)
EndCall(c, answer) ==
  /\ scanPc[c] = "ready"
  /\ callerPc' = [callerPc EXCEPT ![c] = "idle"]
  /\ asked' = [asked EXCEPT ![c] = NoSize]
  /\ scanPc' = [scanPc EXCEPT ![c] = "none"]
  /\ result' = [result EXCEPT ![c] = Nothing]
  /\ cancelled' = cancelled \ {c}
  /\ reply' = [reply EXCEPT ![c] = answer]
  /\ disturbed' = disturbed \ {c}
  /\ UNCHANGED <<m_cancelTokens, frames>>

GetResult(c) ==
  /\ callerPc[c] = "waiting"
  /\ EndCall(c, IF result[c].status = "complete" THEN result[c].size ELSE NoSize)

(* scan_sync_result: wait_for times out.                                   *)
TimeOut(c) ==
  /\ c \in Impatient
  /\ callerPc[c] = "waiting"
  /\ scanPc[c] # "ready"
  /\ callerPc' = [callerPc EXCEPT ![c] = "cancelling"]
  /\ disturbed' = disturbed \cup {c}
  /\ UNCHANGED <<tokenVars, asked, reply, scanVars>>

(* cancel_all, called after a time-out, by shutdown_foldersize and by the  *)
(* destructor.                                                             *)
CancelAll ==
  /\ cancelled' = cancelled \cup m_cancelTokens
  /\ m_cancelTokens' = {}
  /\ disturbed' = disturbed \cup m_cancelTokens
  /\ UNCHANGED scanVars

CancelAfterTimeOut(c) ==
  /\ callerPc[c] = "cancelling"
  /\ CancelAll
  /\ callerPc' = [callerPc EXCEPT ![c] = "abandoning"]
  /\ UNCHANGED <<asked, reply>>

LeaveScanBehind(c) ==
  /\ callerPc[c] = "abandoning"
  /\ callerPc' = [callerPc EXCEPT ![c] = "idle"]
  /\ asked' = [asked EXCEPT ![c] = NoSize]
  /\ reply' = [reply EXCEPT ![c] = NoSize]
  /\ UNCHANGED <<tokenVars, scanVars, disturbed>>

LeaveScan(c) == callerPc[c] = "abandoning" /\ EndCall(c, NoSize)

Shutdown == m_cancelTokens # {} /\ CancelAll /\ UNCHANGED callerVars

-----------------------------------------------------------------------------
ScanStep(c) == \/ OpenDirectory(c) \/ VisitEntry(c) \/ FindNext(c)
               \/ ReturnToFolderAbove(c) \/ RemoveCancelToken(c)

CallerStep(c) == GetResult(c) \/ CancelAfterTimeOut(c) \/ LeaveScan(c)

ScannerNext == \/ \E c \in Caller : \/ \E d \in Dir : StartScan(c, d)
                                    \/ ScanStep(c)
                                    \/ CallerStep(c)
                                    \/ TimeOut(c)
               \/ Shutdown

(* Threads are scheduled, and FindNextFile comes to an end.                *)
ScannerSpec == ScannerInit /\ [][ScannerNext]_scannerVars
FairScannerSpec ==
  /\ ScannerSpec
  /\ \A c \in Caller : WF_scannerVars(ScanStep(c)) /\ WF_scannerVars(CallerStep(c))

-----------------------------------------------------------------------------
Scanning(c) == scanPc[c] \in {"open", "entry", "next", "return"}

ScannerTypes ==
  /\ m_cancelTokens \subseteq Caller
  /\ cancelled \subseteq Caller
  /\ callerPc \in [Caller -> {"idle", "waiting", "cancelling", "abandoning"}]
  /\ asked \in [Caller -> Dir \cup {NoSize}]
  /\ reply \in [Caller -> Nat \cup {NoSize}]
  /\ scanPc \in [Caller -> {"none", "open", "entry", "next", "return", "ready"}]
  /\ frames \in [Caller -> Seq(Frame)]
  /\ result \in [Caller -> Result]
  /\ disturbed \subseteq Caller

(* Besides the types: a caller that has returned left no thread behind     *)
(* (the future's destructor), and no caller is left with none to wait for. *)
ScannerTypeOK ==
  /\ ScannerTypes
  /\ \A c \in Caller : callerPc[c] = "idle" <=> scanPc[c] = "none"

Service == INSTANCE ScanService WITH Whole <- [d \in Dir |-> WholeSize(d)]

(* The scanner keeps ScanService's promise: the whole tree's size or       *)
(* nothing, and nothing only for a reason, whatever the other callers'     *)
(* time-outs, the shutdown and failed reads do in between.                 *)
KeepsScanPromise == Service!Spec

(* Every scan that runs can be cancelled or has been: it has a registered  *)
(* token or one that holds true, and not both; and no token of a scan that *)
(* has ended stays registered (create_cancel_token and remove_cancel_token *)
(* of one scan, against cancel_all by another thread).                     *)
TokensAreExact ==
  m_cancelTokens = {c \in Caller : Scanning(c) /\ c \notin cancelled}

(* A call is never left waiting: after a time-out, too, the future's       *)
(* destructor lets it return.                                              *)
EveryCallReturns == \A c \in Caller : callerPc[c] # "idle" ~> callerPc[c] = "idle"
=============================================================================
