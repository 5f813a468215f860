------------------------- MODULE MCFolderSizeSystem -------------------------
(***************************************************************************)
(* The system on a folder, a folder within it, a folder beside it, and a   *)
(* junction beside them that leads to the first.  Files change in the      *)
(* inner one, by either of its paths, and beside it, and move between the  *)
(* two.  One row shows the junction, or else the outer folder.             *)
(***************************************************************************)
EXTENDS FolderSizeSystem

MCDrive == {"C:", "c:"}
MCName  == {"A", "a", "b", "d", "f", "j"}
MCLower == [t \in MCDrive \cup MCName |->
              CASE t = "C:" -> "c:" [] t = "A" -> "a" [] OTHER -> t]

PathRoot == <<"C:", "\\">>
PathA == <<"C:", "\\", "A">>
PathB == <<"C:", "\\", "A", "\\", "b">>
PathD == <<"C:", "\\", "d">>
FileD == <<"C:", "\\", "d", "\\", "f">>
FileB == <<"C:", "\\", "A", "\\", "b", "\\", "f">>
PathJ == <<"C:", "\\", "j">>
PathJB == <<"C:", "\\", "j", "\\", "b">>
FileJB == <<"C:", "\\", "j", "\\", "b", "\\", "f">>
MCPath == {PathRoot, PathA, PathB, PathD, FileB, FileD, PathJ, PathJB, FileJB}

KeyA  == <<"c:", "\\", "a">>
KeyB  == <<"c:", "\\", "a", "\\", "b">>
KeyD  == <<"c:", "\\", "d">>
KeyJ  == <<"c:", "\\", "j">>
KeyJB == <<"c:", "\\", "j", "\\", "b">>
MCFolder == {KeyA, KeyB, KeyD, KeyJ, KeyJB}
MCHome == [k \in MCFolder |-> CASE k = KeyJ -> KeyA [] k = KeyJB -> KeyB [] OTHER -> k]
MCTarget == [k \in Key |-> IF k = KeyJ THEN {PathA} ELSE {}]

MCFileIn == KeyB :> FileB @@ KeyJB :> FileJB @@ KeyD :> FileD
MCPlainFiles == KeyB :> FileB @@ KeyD :> FileD
MCInnerFile == KeyB :> FileB

MCRow    == {"r"}
MCPathOf == "r" :> PathA
MCJunctionPathOf == "r" :> PathJ
MCSize   == Vectors
=============================================================================
