-------------------------- MODULE EverythingQuery --------------------------
(***************************************************************************)
(* What EverythingClient promises who asks it for a folder's size: the     *)
(* service's answer about that very folder, or nothing.  Only on a         *)
(* connection on which something of an earlier reply was left unread may   *)
(* an answer be another folder's, or no size at all.                       *)
(***************************************************************************)
CONSTANTS Folder, Connecting, Disconnecting, Idle, NoAnswer, WrongSize

VARIABLES
  asked,      \* what the call under way is about, or Idle
  answer,     \* what the last call returned
  outOfStep   \* something was left unread on the connection

queryVars == <<asked, answer, outOfStep>>

Init == asked = Idle /\ answer = NoAnswer /\ outOfStep = FALSE

Ask == /\ asked = Idle
       /\ asked' \in Folder \cup {Connecting, Disconnecting}
       /\ UNCHANGED <<answer, outOfStep>>

Answer == /\ asked # Idle
          /\ asked' = Idle
          /\ \/ answer' = NoAnswer
             \/ asked \in Folder /\ answer' = asked
             \/ asked \in Folder /\ outOfStep /\ answer' \in Folder \cup {WrongSize}
          /\ outOfStep' \in BOOLEAN

Spec == Init /\ [][Ask \/ Answer]_queryVars
=============================================================================
