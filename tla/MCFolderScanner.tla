-------------------------- MODULE MCFolderScanner --------------------------
(***************************************************************************)
(* FolderScanner with a caller that waits and one that times out, on a     *)
(* drive with a folder in it, and on an empty drive.                       *)
(***************************************************************************)
EXTENDS FolderScanner, TLC

File(n)   == [kind |-> "file", size |-> n]
Folder(d) == [kind |-> "folder", dir |-> d]
Skipped   == [kind |-> "other"]

MCEntries == "root"  :> <<Folder("a"), File(1)>> @@
             "a"     :> <<Skipped, File(2)>> @@
             "empty" :> <<>>

RECURSIVE FirstBytes(_, _)
FirstBytes(d, n) ==
  IF n = 0 THEN 0
  ELSE LET e == MCEntries[d][n]
       IN  FirstBytes(d, n - 1) + CASE e.kind = "file"   -> e.size
                                    [] e.kind = "folder" -> FirstBytes(e.dir, Len(MCEntries[e.dir]))
                                    [] e.kind = "other"  -> 0

MCSizeOfFirst == [d \in DOMAIN MCEntries |->
                    [n \in 0 .. Len(MCEntries[d]) |-> FirstBytes(d, n)]]
=============================================================================
