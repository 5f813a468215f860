---------------------------- MODULE FolderNames ----------------------------
(***************************************************************************)
(* The folder that a path of the shell names, whichever way it is spelled: *)
(* the reference for the normalisations of Paths.                          *)
(***************************************************************************)
EXTENDS Paths

(* The shapes of the paths the shell spells: a drive, and then separators  *)
(* and names by turns; or two separators, and then names and separators by *)
(* turns.                                                                  *)
DriveShape(p) ==
  /\ p \in Seq(Token) /\ Len(p) >= 2
  /\ p[1] \in Drive
  /\ \A i \in 2 .. Len(p) : IF i % 2 = 1 THEN p[i] \in Name ELSE p[i] \in {Sep, AltSep}

ServerShape(p) ==
  /\ p \in Seq(Token) /\ Len(p) >= 3
  /\ p[1] = Sep /\ p[2] = Sep
  /\ \A i \in 3 .. Len(p) : IF i % 2 = 1 THEN p[i] \in Name ELSE p[i] \in {Sep, AltSep}

(* The folder a spelling names: its drive or server, then its names, in    *)
(* lower case; and one spelling of each folder, put together anew.         *)
Components(p) ==
  LET Listed[n \in 0 .. Len(p)] ==
        IF n = 0 THEN <<>>
        ELSE IF IsSep(p[n]) THEN Listed[n - 1]
        ELSE Append(Listed[n - 1], Lower[p[n]])
  IN  Listed[Len(p)]

Joined(c) == [i \in 1 .. 2 * Len(c) - 1 |-> IF i % 2 = 1 THEN c[(i + 1) \div 2] ELSE Sep]

Canonical(drive, c) ==
  IF ~drive THEN <<Sep, Sep>> \o Joined(c)
  ELSE IF Len(c) = 1 THEN <<c[1], Sep>>
  ELSE Joined(c)
=============================================================================
