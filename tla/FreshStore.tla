----------------------------- MODULE FreshStore ----------------------------
(***************************************************************************)
(* What SizeCache promises its callers, stated over folders instead of     *)
(* spellings.  A read answers with the size of the latest write to that    *)
(* folder, unless that write is older than TTL, was erased since, or was   *)
(* dropped to make room for a later write; then it answers nothing.  It    *)
(* never answers with anything else.                                       *)
(***************************************************************************)
EXTENDS Integers

CONSTANTS Folder, Path, FolderOf, Size, TTL, NoSize, NoEntry

VARIABLES
  stored,  \* the live write of each folder, with its age
  last     \* the last call and its answer

Stored == [size : Size, age : 0 .. TTL]

Init == /\ stored = [f \in Folder |-> NoEntry]
        /\ last = [op |-> "none", path |-> NoEntry, reply |-> NoSize]

Read(p) ==
  /\ last' = [op |-> "get", path |-> p,
              reply |-> IF stored[FolderOf[p]] = NoEntry THEN NoSize
                        ELSE stored[FolderOf[p]].size]
  /\ UNCHANGED stored

Write(p, s) ==
  /\ \E dropped \in SUBSET Folder :
       stored' = [f \in Folder |->
                    IF f \in dropped THEN NoEntry
                    ELSE IF f = FolderOf[p] THEN [size |-> s, age |-> 0]
                    ELSE stored[f]]
  /\ last' = [op |-> "put", path |-> p, reply |-> NoSize]

Erase(p) ==
  /\ stored' = [stored EXCEPT ![FolderOf[p]] = NoEntry]
  /\ last' = [op |-> "invalidate", path |-> p, reply |-> NoSize]

EraseAll ==
  /\ stored' = [f \in Folder |-> NoEntry]
  /\ last' = [op |-> "clear", path |-> NoEntry, reply |-> NoSize]

Age ==
  /\ stored' = [f \in Folder |->
                  IF stored[f] = NoEntry \/ stored[f].age = TTL THEN NoEntry
                  ELSE [stored[f] EXCEPT !.age = @ + 1]]
  /\ UNCHANGED last

Next == \/ \E p \in Path : Read(p) \/ Erase(p) \/ \E s \in Size : Write(p, s)
        \/ EraseAll
        \/ Age

Spec == Init /\ [][Next]_<<stored, last>>
=============================================================================
