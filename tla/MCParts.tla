------------------------------ MODULE MCParts ------------------------------
(***************************************************************************)
(* The parts that share no state with any other, each on its own: the      *)
(* initial state picks one, and only that one takes steps.                 *)
(***************************************************************************)
EXTENDS PathSpelling, CacheCallers, PathExtraction, EverythingClient, RegQueryHook,
        SizeFormatter, ComServer, TLC

MCDrive == {"C:", "c:", "d:"}
MCName  == {"A", "a", "b"}
MCLower == [t \in MCDrive \cup MCName |->
              CASE t = "C:" -> "c:" [] t = "A" -> "a" [] OTHER -> t]

(* Three folders, of which one is spelled in two ways.                     *)
MCPath == {<<"C:", "\\">>, <<"C:", "\\", "A", "\\">>, <<"c:", "/", "a">>,
           <<"C:", "\\", "A", "\\", "b">>}

VARIABLE part

Parts == <<path, callerVars, extractionVars, everythingVars, regQueryVars, bytes, comVars>>

PartsInit ==
  /\ part \in {"paths", "cache", "extraction", "everything", "registry", "formatter", "com"}
  /\ PathInit /\ CallersInit /\ ExtractionInit /\ EverythingInit /\ RegQueryInit
  /\ FormatterInit /\ ComInit

PartsNext ==
  /\ UNCHANGED part
  /\ \/ part = "paths" /\ PathNext
        /\ UNCHANGED <<callerVars, extractionVars, everythingVars, regQueryVars, bytes, comVars>>
     \/ part = "cache" /\ CallersNext
        /\ UNCHANGED <<path, extractionVars, everythingVars, regQueryVars, bytes, comVars>>
     \/ part = "extraction" /\ ExtractionNext
        /\ UNCHANGED <<path, callerVars, everythingVars, regQueryVars, bytes, comVars>>
     \/ part = "everything" /\ EverythingNext
        /\ UNCHANGED <<path, callerVars, extractionVars, regQueryVars, bytes, comVars>>
     \/ part = "registry" /\ RegQueryNext
        /\ UNCHANGED <<path, callerVars, extractionVars, everythingVars, bytes, comVars>>
     \/ part = "formatter" /\ FormatterNext
        /\ UNCHANGED <<path, callerVars, extractionVars, everythingVars, regQueryVars, comVars>>
     \/ part = "com" /\ ComNext
        /\ UNCHANGED <<path, callerVars, extractionVars, everythingVars, regQueryVars, bytes>>

(* The fairness is the Everything client's: behaviours in which another    *)
(* part was picked, and nobody asks the client, are not fair, and the      *)
(* client's liveness says nothing of them.                                 *)
PartsSpec == PartsInit /\ [][PartsNext]_<<part, Parts>> /\ EverythingFairness
=============================================================================
