--------------------------- MODULE MCSizeResolver ---------------------------
(***************************************************************************)
(* SizeResolver with three rows: two windows show one folder, spelled      *)
(* C:/A/ and c:\a, which is a junction to a server; and \\s\b is on that    *)
(* server, so that it can never be scanned.                                *)
(***************************************************************************)
EXTENDS SizeResolver, TLC

MCDrive == {"C:", "c:"}
MCName  == {"A", "a", "b", "s"}
MCLower == [t \in MCDrive \cup MCName |->
              CASE t = "C:" -> "c:" [] t = "A" -> "a" [] OTHER -> t]

PathA  == <<"C:", "/", "A", "/">>
PathB  == <<"\\", "\\", "s", "\\", "b">>
KeyA   == <<"c:", "\\", "a">>
MCPath == {PathA, KeyA, PathB}

MCRow    == {"r1", "r2", "r3"}
MCPathOf == "r1" :> PathA @@ "r2" :> KeyA @@ "r3" :> PathB

MCTarget == KeyA :> {PathB} @@ PathB :> {KeyA}
=============================================================================
