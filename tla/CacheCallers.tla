---------------------------- MODULE CacheCallers ---------------------------
(***************************************************************************)
(* SizeCache driven by callers that use every operation in every order, on *)
(* folders that may each be spelled in several ways.                       *)
(***************************************************************************)
EXTENDS SizeCache, FolderNames

CONSTANT NoEntry  \* the absence of an entry, and of a path

VARIABLES
  last,  \* the last call and its answer, as FreshStore records it
  used   \* per key, the time since a put or a hit, as the callers saw them

callerVars == <<m_cache, last, used>>

(* The folder each path names.                                             *)
FolderNamed == [p \in Path |-> Canonical(HasDrive(p), Components(p))]
Named       == {FolderNamed[p] : p \in Path}

(* Callers pass paths of the shell.                                        *)
ASSUME CallersAssumption ==
  /\ \A p \in Path : DriveShape(p) \/ ServerShape(p)
  /\ NoEntry \notin [size : Size, age : 0 .. TTL]

CallersInit ==
  /\ CacheInit
  /\ last = [op |-> "none", path |-> NoEntry, reply |-> NoSize]
  /\ used = [k \in Key |-> TTL + 1]

Called(op, p, reply) == last' = [op |-> op, path |-> p, reply |-> reply]

CallGet(p) ==
  LET k == KeyOf[p]
  IN  /\ Get(p)
      /\ Called("get", p, Hit(k))
      /\ used' = IF Hit(k) = NoSize THEN used ELSE [used EXCEPT ![k] = 0]

CallPut(p, s) == /\ Put(p, s)
                 /\ Called("put", p, NoSize)
                 /\ used' = [used EXCEPT ![KeyOf[p]] = 0]

CallInvalidate(p) == Invalidate(p) /\ Called("invalidate", p, NoSize) /\ UNCHANGED used

CallClear == Clear /\ Called("clear", NoEntry, NoSize) /\ UNCHANGED used

Tick == /\ CacheTick
        /\ used' = [k \in Key |-> Older(used[k])]
        /\ UNCHANGED last

CallersNext ==
  \/ \E p \in Path : \/ CallGet(p)
                     \/ \E s \in Size : CallPut(p, s)
                     \/ CallInvalidate(p)
  \/ CallClear
  \/ Tick

CallersSpec == CallersInit /\ [][CallersNext]_callerVars

-----------------------------------------------------------------------------
(* The live put of each folder, as the cache holds it.                     *)
Stored == [f \in Named |->
             IF Fresh(f) THEN [size |-> m_cache[f].size, age |-> m_cache[f].age]
             ELSE NoEntry]

Store == INSTANCE FreshStore WITH Folder <- Named, FolderOf <- FolderNamed, stored <- Stored

(* The cache keeps FreshStore's promise: under every spelling a get hits   *)
(* exactly when the folder's latest put is alive, and answers its size.    *)
KeepsFreshStorePromise == Store!Spec

(* An eviction never drops an entry that callers used (put or hit) more    *)
(* recently than one it keeps, the entry just put included.                *)
EvictsLeastRecentlyUsed ==
  [][last'.op = "put" =>
       \A lost \in (DOMAIN m_cache \cup {KeyOf[last'.path]}) \ DOMAIN m_cache' :
         \A kept \in DOMAIN m_cache' : used'[lost] >= used'[kept]]_callerVars
=============================================================================
