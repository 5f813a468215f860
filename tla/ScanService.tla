---------------------------- MODULE ScanService ----------------------------
(***************************************************************************)
(* What FolderScanner promises its callers: a scan of a directory answers  *)
(* the size of the whole tree below it or nothing, and nothing only if     *)
(* something disturbed it: a directory could not be read, or the scan was  *)
(* cancelled while it ran.                                                 *)
(***************************************************************************)
CONSTANTS Caller, Dir, Whole, NoSize

VARIABLES
  asked,      \* the directory of a caller's call, or NoSize between calls
  reply,      \* the answer to the caller's last call
  disturbed   \* the callers whose call was disturbed

serviceVars == <<asked, reply, disturbed>>

Init == /\ asked = [c \in Caller |-> NoSize]
        /\ reply = [c \in Caller |-> NoSize]
        /\ disturbed = {}

Ask(c, d) == /\ asked[c] = NoSize
             /\ asked' = [asked EXCEPT ![c] = d]
             /\ UNCHANGED <<reply, disturbed>>

Disturb(C) == /\ C \subseteq {c \in Caller : asked[c] # NoSize}
              /\ disturbed' = disturbed \cup C
              /\ UNCHANGED <<asked, reply>>

Answer(c) == /\ asked[c] # NoSize
             /\ \/ reply' = [reply EXCEPT ![c] = Whole[asked[c]]]
                \/ c \in disturbed /\ reply' = [reply EXCEPT ![c] = NoSize]
             /\ asked' = [asked EXCEPT ![c] = NoSize]
             /\ disturbed' = disturbed \ {c}

Next == \/ \E c \in Caller : Answer(c) \/ \E d \in Dir : Ask(c, d)
        \/ \E C \in SUBSET Caller : Disturb(C)

Spec == Init /\ [][Next]_serviceVars
=============================================================================
