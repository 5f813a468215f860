---------------------------- MODULE PartsProofs -----------------------------
(***************************************************************************)
(* The safety properties of the parts that are checked one by one: the     *)
(* spellings of a path, the cache under its callers, the registry hook,    *)
(* the path extraction, the size column and the COM server.                *)
(***************************************************************************)
EXTENDS PathSpelling, SizeCacheProofs, CacheCallers, RegQueryHook, PathExtraction,
        SizeFormatter, ComServer

(* The paths that are spelled.                                             *)
PathInv == path = <<>> \/ DriveShape(path) \/ ServerShape(path)

LEMMA AppendKeepsShape ==
  ASSUME NEW p, DriveShape(p) \/ ServerShape(p),
         NEW t, \/ IsSep(p[Len(p)]) /\ t \in Name
                \/ ~IsSep(p[Len(p)]) /\ t \in {Sep, AltSep}
  PROVE  DriveShape(Append(p, t)) \/ ServerShape(Append(p, t))
<1> DEFINE n == Len(p)
           q == Append(p, t)
<1>1. p \in Seq(Token) /\ n \in Nat /\ n >= 2 /\ t \in Token
  BY DEF DriveShape, ServerShape, Token
<1>2. q \in Seq(Token) /\ Len(q) = n + 1 /\ q[n + 1] = t /\ \A i \in 1 .. n : q[i] = p[i]
  BY <1>1
<1>3. n % 2 = 1 => (n + 1) % 2 # 1
  BY <1>1
<1>4. n % 2 # 1 => (n + 1) % 2 = 1
  BY <1>1
<1> HIDE DEF q
<1>5. IF (n + 1) % 2 = 1 THEN t \in Name ELSE t \in {Sep, AltSep}
  <2>1. n % 2 = 1 => p[n] \in Name
    <3>1. n \in 2 .. Len(p)
      BY <1>1
    <3>2. CASE DriveShape(p)
      BY <3>1, <3>2 DEF DriveShape
    <3>3. CASE ServerShape(p)
      BY <1>1, <3>3 DEF ServerShape
    <3> QED
      BY <3>2, <3>3
  <2>2. n % 2 # 1 => p[n] \in {Sep, AltSep}
    <3>2. CASE DriveShape(p)
      BY <1>1, <3>2 DEF DriveShape
    <3>3. CASE ServerShape(p)
      BY <1>1, <3>3 DEF ServerShape
    <3> QED
      BY <3>2, <3>3
  <2> HIDE DEF n
  <2>3. CASE n % 2 = 1
    <3>1. ~IsSep(p[n])
      BY <2>1, <2>3, TokensDiffer DEF IsSep
    <3> QED
      BY <1>3, <2>3, <3>1 DEF n
  <2>4. CASE n % 2 # 1
    <3>1. IsSep(p[n])
      BY <2>2, <2>4 DEF IsSep
    <3> QED
      BY <1>4, <2>4, <3>1 DEF n
  <2> QED
    BY <2>3, <2>4
<1>6. CASE DriveShape(p)
  <2>1. \A i \in 2 .. n : IF i % 2 = 1 THEN q[i] \in Name ELSE q[i] \in {Sep, AltSep}
    BY <1>1, <1>2, <1>6 DEF DriveShape
  <2>2. q[1] \in Drive
    BY <1>1, <1>2, <1>6 DEF DriveShape
  <2>3. \A i \in 2 .. n + 1 : IF i % 2 = 1 THEN q[i] \in Name ELSE q[i] \in {Sep, AltSep}
    BY <1>1, <1>2, <1>5, <2>1
  <2> QED
    BY <1>1, <1>2, <2>2, <2>3 DEF DriveShape, q
<1>7. CASE ServerShape(p)
  <2>1. \A i \in 3 .. n : IF i % 2 = 1 THEN q[i] \in Name ELSE q[i] \in {Sep, AltSep}
    BY <1>1, <1>2, <1>7 DEF ServerShape
  <2>2. q[1] = Sep /\ q[2] = Sep
    BY <1>1, <1>2, <1>7 DEF ServerShape
  <2>3. \A i \in 3 .. n + 1 : IF i % 2 = 1 THEN q[i] \in Name ELSE q[i] \in {Sep, AltSep}
    BY <1>1, <1>2, <1>5, <2>1
  <2> QED
    BY <1>1, <1>2, <2>2, <2>3, <1>7 DEF ServerShape, q
<1> QED
  BY <1>6, <1>7

LEMMA RootHasShape ==
  /\ \A d \in Drive, s \in {Sep, AltSep} : DriveShape(<<d, s>>)
  /\ \A n \in Name : ServerShape(<<Sep, Sep, n>>)
<1>1. ASSUME NEW d \in Drive, NEW s \in {Sep, AltSep}
      PROVE  DriveShape(<<d, s>>)
  <2>1. <<d, s>> \in Seq(Token)
    BY DEF Token
  <2>2. 2 % 2 # 1
    OBVIOUS
  <2> QED
    BY <2>1, <2>2 DEF DriveShape
<1>2. ASSUME NEW n \in Name
      PROVE  ServerShape(<<Sep, Sep, n>>)
  <2>1. <<Sep, Sep, n>> \in Seq(Token)
    BY DEF Token
  <2>2. 3 % 2 = 1
    OBVIOUS
  <2> QED
    BY <2>1, <2>2 DEF ServerShape
<1> QED
  BY <1>1, <1>2

(* Every path the shell spells has one of the two shapes.                  *)
THEOREM PathShapes == PathSpec => []PathInv
<1>1. PathInit => PathInv
  BY DEF PathInit, PathInv
<1>2. ASSUME PathInv, [PathNext]_path
      PROVE  PathInv'
  <2>1. CASE SpellRoot
    BY <2>1, RootHasShape DEF SpellRoot, PathInv
  <2>2. CASE SpellName
    BY <1>2, <2>2, AppendKeepsShape DEF SpellName, PathInv
  <2>3. CASE SpellSeparator
    BY <1>2, <2>3, AppendKeepsShape DEF SpellSeparator, PathInv
  <2>4. CASE UNCHANGED path
    BY <1>2, <2>4 DEF PathInv
  <2> QED
    BY <1>2, <2>1, <2>2, <2>3, <2>4 DEF PathNext
<1> QED
  BY <1>1, <1>2, PTL DEF PathSpec

(* For a path of any length the request key is the cache key, and a key    *)
(* that is normalised again stays as it is (normalize_path,                *)
(* queue_background_resolution).                                           *)
THEOREM KeysAlwaysAgree == PathSpec => []KeysAgree
<1>1. PathInv => KeysAgree
  <2>1. CASE path = <<>>
    <3>1. <<>> \in Seq(Token) /\ Len(<<>>) = 0
      OBVIOUS
    <3>2. Spelling(<<>>) = <<>>
      <4> DEFINE e == <<>>
      <4> HIDE DEF e
      <4>1. e \in Seq(Token) /\ Len(e) = 0
        BY <3>1 DEF e
      <4>2. Spelling(e) \in Seq(Token) /\ Len(Spelling(e)) = 0
        BY <4>1, SpellingFacts
      <4>3. Spelling(e) = <<>>
        BY <4>2, EmptySeq
      <4> QED
        BY <4>3 DEF e
    <3>3. Respelled(<<>>) = <<>>
      BY DEF Respelled, EndsInSep
    <3>4. RequestKey(<<>>) = <<>> /\ CacheKey(<<>>) = <<>>
      BY <3>1, <3>2, <3>3, KeysAreRespelled
    <3> QED
      BY <2>1, <3>4 DEF KeysAgree
  <2>2. CASE DriveShape(path) \/ ServerShape(path)
    BY <2>2, KeyOfShape DEF KeysAgree
  <2> QED
    BY <2>1, <2>2 DEF PathInv
<1> QED
  BY <1>1, PathShapes, PTL

(* For a path of any length the cache key is the one spelling of the       *)
(* folder's components: two spellings of one folder share it, spellings of *)
(* two folders never do (SizeCache::normalize_path).                       *)
THEOREM KeysAreCanonical == PathSpec => []KeyIsCanonical
<1>1. PathInv => KeyIsCanonical
  BY KeyOfShellPath DEF PathInv, KeyIsCanonical
<1> QED
  BY <1>1, PathShapes, PTL

(* However deep the path, the invalidation erases the keys of the folder,  *)
(* of every folder above it and of the drive, and no other                 *)
(* (invalidate_path_and_ancestors).                                        *)
THEOREM InvalidationIsComplete == PathSpec => []InvalidationReachesAncestors
<1>1. PathInv => InvalidationReachesAncestors
  <2> SUFFICES ASSUME PathInv, HasDrive(path), AltSep \notin Range(path)
               PROVE  {CacheKey(v) : v \in Range(VisitedPaths(path))}
                        = {Canonical(TRUE, SubSeq(Components(path), 1, n)) :
                             n \in 1 .. Len(Components(path))}
    BY DEF InvalidationReachesAncestors
  <2>1. DriveShape(path)
    BY SpellingOfShape DEF PathInv, HasDrive
  <2>2. \A i \in 1 .. Len(path) : path[i] # AltSep
    BY <2>1 DEF Range, DriveShape
  <2> QED
    BY <2>1, <2>2, InvalidationOfDrivePath
<1> QED
  BY <1>1, PathShapes, PTL

-----------------------------------------------------------------------------
(* The folders are the keys.                                               *)
LEMMA NamedAreKeys ==
  /\ Named = Key
  /\ \A p \in Path : FolderNamed[p] = KeyOf[p]
<1>1. \A p \in Path : FolderNamed[p] = CacheKey(p)
  BY CallersAssumption, KeyOfShellPath DEF FolderNamed
<1>2. \A p \in Path : KeyOf[p] = CacheKey(p)
  BY KeyOfPath
<1> QED
  BY <1>1, <1>2 DEF Named, Key

-----------------------------------------------------------------------------
(* The callers' view of the cache is the cache's own: what they saw used   *)
(* last is what has last_access, and a put that was itself evicted had     *)
(* been used no later than what is kept.                                   *)
CallersInv ==
  /\ CacheTypeOK
  /\ CacheWithinLimits
  /\ used \in [Key -> Age]
  /\ \A k \in DOMAIN m_cache : used[k] = m_cache[k].idle
  /\ last.op = "put" =>
       /\ last.path \in Path
       /\ KeyOf[last.path] \notin DOMAIN m_cache =>
            \A k \in DOMAIN m_cache : used[KeyOf[last.path]] >= used[k]

LEMMA OlderGrows ==
  /\ \A a \in Age : Older(a) \in Age
  /\ \A a, b \in Age : a <= b => Older(a) <= Older(b)
BY CacheAssumption DEF Older, Age

(* Each round of an eviction takes what was used least.                    *)
LEMMA OldestRemovedIsOldest ==
  ASSUME NEW c, NEW n, NEW d \in OldestRemoved(c, n),
         NEW u \in DOMAIN c \ DOMAIN d, NEW k \in DOMAIN d
  PROVE  c[u].idle >= c[k].idle
<1>1. PICK U \in SUBSET DOMAIN c :
        /\ d = Without(c, U)
        /\ \A x \in U, y \in DOMAIN c \ U : c[x].idle >= c[y].idle
  BY DEF OldestRemoved
<1>2. DOMAIN d = DOMAIN c \ U
  BY <1>1, WithoutDef
<1> QED
  BY <1>1, <1>2

LEMMA EvictedIsOldest ==
  ASSUME NEW c, DOMAIN c \in SUBSET Key, NEW d \in Evicted(c),
         NEW u \in DOMAIN c \ DOMAIN d, NEW k \in DOMAIN d
  PROVE  c[u].idle >= c[k].idle
<1>1. PICK b : /\ b \in IF TooMany(c) THEN OldestRemoved(c, Tenth(c)) ELSE {c}
               /\ d \in IF TooBig(b) THEN OldestRemoved(b, Tenth(b)) ELSE {b}
  BY DEF Evicted
<1>2. DOMAIN b \in SUBSET DOMAIN c /\ \A x \in DOMAIN b : b[x] = c[x]
  BY <1>1, TenthPositive, OldestRemovedShrinks
<1>3. DOMAIN d \in SUBSET DOMAIN b
  BY <1>1, <1>2, TenthPositive, OldestRemovedShrinks
<1>4. CASE u \notin DOMAIN b
  <2>1. b # c
    BY <1>4
  <2>2. b \in OldestRemoved(c, Tenth(c))
    BY <1>1, <2>1
  <2> QED
    BY <1>3, <1>4, <2>2, OldestRemovedIsOldest
<1>5. CASE u \in DOMAIN b
  <2>1. b # d
    BY <1>5
  <2>2. d \in OldestRemoved(b, Tenth(b))
    BY <1>1, <2>1
  <2>3. b[u].idle >= b[k].idle
    BY <1>5, <2>2, OldestRemovedIsOldest
  <2> QED
    BY <1>2, <1>3, <1>5, <2>3
<1> QED
  BY <1>4, <1>5

(* What a put leaves is what was there, and the entry put, less what was   *)
(* used least.                                                             *)
LEMMA PutLeaves ==
  ASSUME CallersInv, NEW p \in Path, NEW s \in Size, CallPut(p, s)
  PROVE  /\ DOMAIN m_cache' \in SUBSET (DOMAIN m_cache \cup {KeyOf[p]})
         /\ \A k \in DOMAIN m_cache' :
              m_cache'[k] = IF k = KeyOf[p] THEN [size |-> s, age |-> 0, idle |-> 0]
                            ELSE m_cache[k]
         /\ \A k \in DOMAIN m_cache' : used'[k] = m_cache'[k].idle
         /\ \A lost \in (DOMAIN m_cache \cup {KeyOf[p]}) \ DOMAIN m_cache' :
              \A kept \in DOMAIN m_cache' : used'[lost] >= used'[kept]
         /\ used' \in [Key -> Age]
<1> DEFINE e == [size |-> s, age |-> 0, idle |-> 0]
           c == [x \in DOMAIN m_cache \cup {KeyOf[p]} |->
                   IF x = KeyOf[p] THEN e ELSE m_cache[x]]
<1>1. DOMAIN c \in SUBSET Key /\ KeyOf[p] \in Key
  BY KeyOfPath DEF CallersInv, CacheTypeOK
<1>2. m_cache' \in Evicted(c)
  BY DEF CallPut, Put
<1>3. used' \in [Key -> Age] /\ \A x \in DOMAIN c : used'[x] = c[x].idle
  <2>1. used' = [used EXCEPT ![KeyOf[p]] = 0] /\ used \in [Key -> Age]
    BY DEF CallPut, CallersInv
  <2>2. 0 \in Age
    BY CacheAssumption DEF Age
  <2>3. \A k \in DOMAIN m_cache : used[k] = m_cache[k].idle /\ k \in Key
    BY DEF CallersInv, CacheTypeOK
  <2> QED
    BY <1>1, <2>1, <2>2, <2>3
<1>4. /\ DOMAIN c = DOMAIN m_cache \cup {KeyOf[p]}
      /\ \A x \in DOMAIN c : c[x] = IF x = KeyOf[p] THEN e ELSE m_cache[x]
  OBVIOUS
<1> HIDE DEF c, e
<1>5. DOMAIN m_cache' \in SUBSET DOMAIN c /\ \A x \in DOMAIN m_cache' : m_cache'[x] = c[x]
  BY <1>1, <1>2, EvictedKeeps
<1>6. \A lost \in DOMAIN c \ DOMAIN m_cache', kept \in DOMAIN m_cache' :
        c[lost].idle >= c[kept].idle
  BY <1>1, <1>2, EvictedIsOldest
<1>7. \A k \in DOMAIN m_cache' : m_cache'[k] = IF k = KeyOf[p] THEN e ELSE m_cache[k]
  BY <1>4, <1>5
<1>8. \A k \in DOMAIN m_cache' : used'[k] = m_cache'[k].idle
  BY <1>3, <1>5
<1>9. \A lost \in DOMAIN c \ DOMAIN m_cache', kept \in DOMAIN m_cache' :
        used'[lost] >= used'[kept]
  BY <1>3, <1>5, <1>6
<1> QED
  BY <1>3, <1>4, <1>5, <1>7, <1>8, <1>9 DEF e

-----------------------------------------------------------------------------
LEMMA CallersInitInv == CallersInit => CallersInv
<1> SUFFICES ASSUME CallersInit PROVE CallersInv
  OBVIOUS
<1>1. DOMAIN m_cache = {}
  BY DEF CallersInit, CacheInit
<1>2. CacheTypeOK
  BY <1>1 DEF CacheTypeOK
<1>3. CacheWithinLimits
  <2>1. Cardinality(DOMAIN m_cache) = 0
    BY <1>1, FS_EmptySet, Zenon
  <2>2. 0 * ENTRY_BYTES = 0
    BY CacheAssumption
  <2> QED
    BY <2>1, <2>2, CacheAssumption DEF CacheWithinLimits
<1>4. used \in [Key -> Age]
  <2>1. TTL + 1 \in Age
    BY CacheAssumption DEF Age
  <2> QED
    BY <2>1 DEF CallersInit
<1>5. last.op # "put"
  BY DEF CallersInit
<1> QED
  BY <1>1, <1>2, <1>3, <1>4, <1>5 DEF CallersInv

LEMMA CallersStepInv ==
  ASSUME CallersInv, [CallersNext]_callerVars
  PROVE  CallersInv'
<1> USE DEF CallersInv
<1>1. ASSUME NEW p \in Path, CallGet(p)
      PROVE  CallersInv'
  <2> DEFINE k == KeyOf[p]
  <2>1. CacheTypeOK' /\ CacheWithinLimits' /\ k \in Key
    BY <1>1, GetKeepsType, FewerEntriesKeepLimits, KeyOfPath DEF CallGet
  <2>2. last'.op # "put"
    BY <1>1 DEF CallGet, Called
  <2>3. CASE Fresh(k)
    <3>1. m_cache' = [m_cache EXCEPT ![k].idle = 0] /\ k \in DOMAIN m_cache
      BY <1>1, <2>3 DEF CallGet, Get, Fresh
    <3>2. Hit(k) # NoSize
      BY <2>3, CacheAssumption DEF CacheTypeOK, Entry, Hit, Fresh
    <3>3. used' = [used EXCEPT ![k] = 0]
      BY <1>1, <3>2 DEF CallGet
    <3>4. used' \in [Key -> Age]
      BY <2>1, <3>3, CacheAssumption DEF Age
    <3>5. ASSUME NEW q \in DOMAIN m_cache'
          PROVE  used'[q] = m_cache'[q].idle
      <4>1. q \in DOMAIN m_cache /\ q \in Key /\ m_cache[q] \in Entry
        BY <3>1 DEF CacheTypeOK
      <4>2. CASE q = k
        <5>1. m_cache'[q] = [m_cache[q] EXCEPT !.idle = 0]
          BY <3>1, <4>1, <4>2
        <5>2. m_cache'[q].idle = 0
          BY <4>1, <5>1 DEF Entry
        <5> QED
          BY <2>1, <3>3, <4>2, <5>2
      <4>3. CASE q # k
        BY <3>1, <3>3, <4>1, <4>3
      <4> QED
        BY <4>2, <4>3
    <3> QED
      BY <2>1, <2>2, <3>4, <3>5
  <2>4. CASE ~Fresh(k)
    <3>1. m_cache' = [q \in DOMAIN m_cache \ {k} |-> m_cache[q]]
      BY <1>1, <2>4 DEF CallGet, Get, Without, Restrict
    <3>2. used' = used
      BY <1>1, <2>4 DEF CallGet, Hit
    <3> QED
      BY <2>1, <2>2, <3>1, <3>2
  <2> QED
    BY <2>3, <2>4
<1>2. ASSUME NEW p \in Path, NEW s \in Size, CallPut(p, s)
      PROVE  CallersInv'
  <2>1. CacheTypeOK' /\ CacheWithinLimits'
    BY <1>2, PutKeepsType, PutKeepsLimits DEF CallPut
  <2>2. last' = [op |-> "put", path |-> p, reply |-> NoSize]
    BY <1>2 DEF CallPut, Called
  <2> QED
    BY <1>2, <2>1, <2>2, PutLeaves
<1>3. ASSUME NEW p \in Path, CallInvalidate(p)
      PROVE  CallersInv'
  <2>1. CacheTypeOK' /\ CacheWithinLimits'
    BY <1>3, InvalidateKeepsType, FewerEntriesKeepLimits DEF CallInvalidate
  <2>2. m_cache' = [q \in DOMAIN m_cache \ {KeyOf[p]} |-> m_cache[q]] /\ used' = used
    BY <1>3 DEF CallInvalidate, Invalidate, Without, Restrict
  <2>3. last'.op # "put"
    BY <1>3 DEF CallInvalidate, Called
  <2> QED
    BY <2>1, <2>2, <2>3
<1>4. ASSUME CallClear
      PROVE  CallersInv'
  <2>1. DOMAIN m_cache' = {} /\ used' = used
    BY <1>4 DEF CallClear, Clear
  <2>2. CacheTypeOK' /\ CacheWithinLimits'
    BY <2>1, FewerEntriesKeepLimits DEF CacheTypeOK
  <2>3. last'.op # "put"
    BY <1>4 DEF CallClear, Called
  <2> QED
    BY <2>1, <2>2, <2>3
<1>5. ASSUME Tick
      PROVE  CallersInv'
  <2>1. CacheTypeOK' /\ CacheWithinLimits'
    BY <1>5, TickKeepsType, FewerEntriesKeepLimits DEF Tick
  <2>2. /\ used' = [k \in Key |-> Older(used[k])] /\ last' = last
        /\ DOMAIN m_cache' = DOMAIN m_cache
        /\ \A k \in DOMAIN m_cache : m_cache'[k].idle = Older(m_cache[k].idle)
    BY <1>5 DEF Tick, CacheTick
  <2>3. used' \in [Key -> Age]
    BY <2>2, OlderGrows
  <2>4. \A k \in DOMAIN m_cache' : k \in Key /\ used'[k] = m_cache'[k].idle
    BY <2>2 DEF CacheTypeOK
  <2>5. last'.op = "put" => \A p \in Path : KeyOf[p] \in Key
    BY KeyOfPath
  <2> QED
    BY <2>1, <2>2, <2>3, <2>4, <2>5, OlderGrows
<1>6. ASSUME UNCHANGED callerVars
      PROVE  CallersInv'
  BY <1>6 DEF callerVars, CacheTypeOK, CacheWithinLimits
<1> QED
  BY <1>1, <1>2, <1>3, <1>4, <1>5, <1>6 DEF CallersNext

(* The inductive invariant, for any spellings, sizes and limits.           *)
THEOREM CallersInvariant == CallersSpec => []CallersInv
<1>1. CallersInit => CallersInv
  BY CallersInitInv
<1>2. CallersInv /\ [CallersNext]_callerVars => CallersInv'
  BY CallersStepInv
<1> QED
  BY <1>1, <1>2, PTL DEF CallersSpec

(* Whatever is put, asked for, invalidated and cleared, and however time   *)
(* passes, the cache holds keys of paths, sizes and ages within the TTL.   *)
THEOREM CacheIsTypeCorrect == CallersSpec => []CacheTypeOK
<1>1. CallersInv => CacheTypeOK
  BY DEF CallersInv
<1> QED
  BY <1>1, CallersInvariant, PTL

(* Under any callers the cache ends every call within both its limits      *)
(* (SizeCache::put, evict_if_needed_locked).                               *)
THEOREM CacheKeepsItsLimits == CallersSpec => []CacheWithinLimits
<1>1. CallersInv => CacheWithinLimits
  BY DEF CallersInv
<1> QED
  BY <1>1, CallersInvariant, PTL

(* An eviction, of however many entries, takes those that were used least  *)
(* recently, and the entry just put is no exception                        *)
(* (SizeCache::evict_if_needed_locked).                                    *)
THEOREM EvictionIsLRU == CallersSpec => EvictsLeastRecentlyUsed
<1> DEFINE Kept == last'.op = "put" =>
       \A lost \in (DOMAIN m_cache \cup {KeyOf[last'.path]}) \ DOMAIN m_cache' :
         \A kept \in DOMAIN m_cache' : used'[lost] >= used'[kept]
<1>1. ASSUME CallersInv, CallersInv', [CallersNext]_callerVars
      PROVE  [Kept]_callerVars
  <2>1. ASSUME NEW p \in Path, NEW s \in Size, CallPut(p, s)
        PROVE  Kept
    <3>1. last'.path = p
      BY <2>1 DEF CallPut, Called
    <3> QED
      BY <1>1, <2>1, <3>1, PutLeaves
  <2>2. ASSUME Tick
        PROVE  Kept
    <3>1. DOMAIN m_cache' = DOMAIN m_cache
      BY <2>2 DEF Tick, CacheTick
    <3> QED
      BY <1>1, <3>1 DEF CallersInv
  <2>3. ASSUME \/ \E p \in Path : CallGet(p) \/ CallInvalidate(p)
               \/ CallClear
        PROVE  Kept
    BY <2>3 DEF CallGet, CallInvalidate, CallClear, Called
  <2> QED
    BY <1>1, <2>1, <2>2, <2>3 DEF CallersNext
<1> QED
  BY <1>1, CallersInvariant, PTL DEF CallersSpec, EvictsLeastRecentlyUsed

-----------------------------------------------------------------------------
LEMMA StoredIsNoEntry ==
  ASSUME CacheTypeOK, NEW f \in Key
  PROVE  /\ Fresh(f) => Stored[f] = [size |-> m_cache[f].size, age |-> m_cache[f].age]
         /\ Fresh(f) => Stored[f] # NoEntry
         /\ ~Fresh(f) => Stored[f] = NoEntry
<1>1. Fresh(f) => [size |-> m_cache[f].size, age |-> m_cache[f].age]
                     \in [size : Size, age : 0 .. TTL]
  BY CacheAssumption DEF Fresh, CacheTypeOK, Entry, Age
<1> QED
  BY <1>1, NamedAreKeys, CallersAssumption DEF Stored

(* What two caches hold of a folder is equal when their entries are.       *)
LEMMA StoredAfter ==
  /\ DOMAIN Stored = Key
  /\ \A f \in Key : Stored[f] = IF Fresh(f)
                                THEN [size |-> m_cache[f].size, age |-> m_cache[f].age]
                                ELSE NoEntry
  /\ \A f \in Key : Stored'[f] = IF Fresh(f)'
                                 THEN [size |-> m_cache'[f].size, age |-> m_cache'[f].age]
                                 ELSE NoEntry
BY NamedAreKeys DEF Stored

LEMMA GetReads ==
  ASSUME CallersInv, CallersInv', NEW p \in Path, CallGet(p)
  PROVE  Store!Read(p)
<1> DEFINE k == KeyOf[p]
<1>1. k \in Key /\ FolderNamed[p] = k /\ CacheTypeOK /\ CacheTypeOK'
  BY KeyOfPath, NamedAreKeys DEF CallersInv
<1>2. last' = [op |-> "get", path |-> p, reply |-> Hit(k)]
  BY DEF CallGet, Called
<1>3. Hit(k) = IF Stored[k] = NoEntry THEN NoSize ELSE Stored[k].size
  <2>1. CASE Fresh(k)
    <3>1. /\ Stored[k] # NoEntry
          /\ Stored[k] = [size |-> m_cache[k].size, age |-> m_cache[k].age]
      BY <1>1, <2>1, StoredIsNoEntry, Zenon
    <3> QED
      BY <2>1, <3>1 DEF Hit
  <2>2. CASE ~Fresh(k)
    BY <1>1, <2>2, StoredIsNoEntry DEF Hit
  <2> QED
    BY <2>1, <2>2
<1>4. ASSUME NEW f \in Key
      PROVE  Stored'[f] = Stored[f]
  <2>1. CASE Fresh(k)
    <3>1. m_cache' = [m_cache EXCEPT ![k].idle = 0] /\ k \in DOMAIN m_cache
      BY <2>1 DEF CallGet, Get, Fresh
    <3>2. DOMAIN m_cache' = DOMAIN m_cache
      BY <3>1
    <3>3. ASSUME f \in DOMAIN m_cache
          PROVE  m_cache'[f].size = m_cache[f].size /\ m_cache'[f].age = m_cache[f].age
      <4>1. m_cache[f] \in Entry
        BY <1>1, <3>3 DEF CacheTypeOK
      <4>2. m_cache'[f] = IF f = k THEN [m_cache[f] EXCEPT !.idle = 0] ELSE m_cache[f]
        BY <3>1, <3>3
      <4> QED
        BY <4>1, <4>2 DEF Entry
    <3> QED
      BY <3>2, <3>3, StoredAfter DEF Fresh
  <2>2. CASE ~Fresh(k)
    <3>1. m_cache' = [q \in DOMAIN m_cache \ {k} |-> m_cache[q]]
      BY <2>2 DEF CallGet, Get, Without, Restrict
    <3>2. Fresh(f)' <=> Fresh(f)
      BY <2>2, <3>1 DEF Fresh
    <3>3. Fresh(f) => m_cache'[f] = m_cache[f]
      BY <2>2, <3>1 DEF Fresh
    <3> QED
      BY <3>2, <3>3, StoredAfter
  <2> QED
    BY <2>1, <2>2
<1>5. Stored' = Stored
  BY <1>4, NamedAreKeys DEF Stored
<1> QED
  BY <1>1, <1>2, <1>3, <1>5 DEF Store!Read

LEMMA PutWrites ==
  ASSUME CallersInv, CallersInv', NEW p \in Path, NEW s \in Size, CallPut(p, s)
  PROVE  Store!Write(p, s)
<1> DEFINE k == KeyOf[p]
           dropped == {f \in Key : ~Fresh(f)'}
<1>1. k \in Key /\ FolderNamed[p] = k /\ CacheTypeOK
  BY KeyOfPath, NamedAreKeys DEF CallersInv
<1>2. last' = [op |-> "put", path |-> p, reply |-> NoSize]
  BY DEF CallPut, Called
<1>3. \A f \in DOMAIN m_cache' :
        m_cache'[f] = IF f = k THEN [size |-> s, age |-> 0, idle |-> 0] ELSE m_cache[f]
  BY PutLeaves
<1>4. DOMAIN m_cache' \in SUBSET (DOMAIN m_cache \cup {k})
  BY PutLeaves
<1>5. ASSUME NEW f \in Key
      PROVE  Stored'[f] = IF f \in dropped THEN NoEntry
                          ELSE IF f = k THEN [size |-> s, age |-> 0] ELSE Stored[f]
  <2>1. CASE f \in dropped
    BY <2>1, StoredAfter
  <2>2. CASE f \notin dropped /\ f = k
    BY <1>3, <2>2, StoredAfter DEF Fresh
  <2>3. CASE f \notin dropped /\ f # k
    <3>1. Fresh(f)' /\ f \in DOMAIN m_cache' /\ m_cache'[f] = m_cache[f]
      BY <1>3, <2>3 DEF Fresh
    <3>2. Fresh(f)
      BY <1>4, <2>3, <3>1 DEF Fresh
    <3> QED
      BY <2>3, <3>1, <3>2, StoredAfter
  <2> QED
    BY <2>1, <2>2, <2>3
<1>6. Stored' = [f \in Key |-> IF f \in dropped THEN NoEntry
                               ELSE IF f = k THEN [size |-> s, age |-> 0] ELSE Stored[f]]
  BY <1>5, NamedAreKeys DEF Stored
<1>7. dropped \in SUBSET Named
  BY NamedAreKeys
<1> HIDE DEF dropped, k
<1> QED
  BY <1>1, <1>2, <1>6, <1>7, NamedAreKeys DEF Store!Write

LEMMA InvalidateErases ==
  ASSUME CallersInv, NEW p \in Path, CallInvalidate(p)
  PROVE  Store!Erase(p)
<1> DEFINE k == KeyOf[p]
<1>1. k \in Key /\ FolderNamed[p] = k
  BY KeyOfPath, NamedAreKeys
<1>2. last' = [op |-> "invalidate", path |-> p, reply |-> NoSize]
  BY DEF CallInvalidate, Called
<1>3. m_cache' = [q \in DOMAIN m_cache \ {k} |-> m_cache[q]]
  BY DEF CallInvalidate, Invalidate, Without, Restrict
<1>4. ASSUME NEW f \in Key
      PROVE  Stored'[f] = IF f = k THEN NoEntry ELSE Stored[f]
  BY <1>3, StoredAfter DEF Fresh
<1>5. Stored' = [Stored EXCEPT ![k] = NoEntry]
  BY <1>4, NamedAreKeys DEF Stored
<1> QED
  BY <1>1, <1>2, <1>5 DEF Store!Erase

LEMMA ClearErasesAll ==
  ASSUME CallClear
  PROVE  Store!EraseAll
<1>1. DOMAIN m_cache' = {}
  BY DEF CallClear, Clear
<1>2. Stored' = [f \in Named |-> NoEntry]
  BY <1>1 DEF Stored, Fresh
<1> QED
  BY <1>2 DEF Store!EraseAll, CallClear, Called

LEMMA TickAges ==
  ASSUME CallersInv, Tick
  PROVE  Store!Age
<1>1. /\ DOMAIN m_cache' = DOMAIN m_cache
      /\ \A k \in DOMAIN m_cache : /\ m_cache'[k].size = m_cache[k].size
                                   /\ m_cache'[k].age = Older(m_cache[k].age)
  BY DEF Tick, CacheTick
<1>2. ASSUME NEW f \in Key
      PROVE  Stored'[f] = IF Stored[f] = NoEntry \/ Stored[f].age = TTL THEN NoEntry
                          ELSE [Stored[f] EXCEPT !.age = @ + 1]
  <2>1. CacheTypeOK
    BY DEF CallersInv
  <2>2. CASE ~Fresh(f)
    <3>1. ~Fresh(f)'
      BY <1>1, <2>1, <2>2, CacheAssumption DEF Fresh, Older, CacheTypeOK, Entry, Age
    <3> QED
      BY <2>1, <2>2, <3>1, StoredAfter
  <2>3. CASE Fresh(f)
    <3>1. /\ Stored[f] # NoEntry
          /\ Stored[f] = [size |-> m_cache[f].size, age |-> m_cache[f].age]
      BY <2>1, <2>3, StoredIsNoEntry, Zenon
    <3>2. f \in DOMAIN m_cache /\ m_cache[f].age \in 0 .. TTL
      BY <2>1, <2>3, CacheAssumption DEF Fresh, CacheTypeOK, Entry, Age
    <3>3. CASE m_cache[f].age = TTL
      <4>1. ~Fresh(f)'
        BY <1>1, <3>2, <3>3, CacheAssumption DEF Fresh, Older
      <4>2. Stored'[f] = NoEntry
        BY <4>1, StoredAfter
      <4>3. Stored[f].age = TTL
        BY <3>1, <3>3
      <4> QED
        BY <4>2, <4>3, Zenon
    <3>4. CASE m_cache[f].age # TTL
      <4>1. Fresh(f)' /\ m_cache'[f].age = m_cache[f].age + 1
        BY <1>1, <3>2, <3>4, CacheAssumption DEF Fresh, Older
      <4>2. Stored'[f] = [size |-> m_cache[f].size, age |-> m_cache[f].age + 1]
        BY <1>1, <3>2, <4>1, StoredAfter
      <4>3. [Stored[f] EXCEPT !.age = @ + 1]
              = [size |-> m_cache[f].size, age |-> m_cache[f].age + 1]
        BY <3>1
      <4>4. Stored[f].age # TTL
        BY <3>1, <3>4
      <4> QED
        BY <3>1, <4>2, <4>3, <4>4, Zenon
    <3> QED
      BY <3>3, <3>4
  <2> QED
    BY <2>2, <2>3
<1>3. Stored' = [f \in Named |->
                   IF Stored[f] = NoEntry \/ Stored[f].age = TTL THEN NoEntry
                   ELSE [Stored[f] EXCEPT !.age = @ + 1]]
  BY <1>2, NamedAreKeys DEF Stored
<1> QED
  BY <1>3 DEF Store!Age, Tick

(* The cache implements FreshStore, step by step: under every spelling, a  *)
(* get answers the folder's latest put while it is alive, and nothing      *)
(* otherwise (SizeCache::get, put, invalidate, clear).                     *)
THEOREM CacheKeepsItsPromise == CallersSpec => KeepsFreshStorePromise
<1>1. CallersInit => Store!Init
  <2> SUFFICES ASSUME CallersInit PROVE Store!Init
    OBVIOUS
  <2>1. Stored = [f \in Named |-> NoEntry]
    BY DEF CallersInit, CacheInit, Stored, Fresh
  <2> QED
    BY <2>1 DEF CallersInit, Store!Init
<1>2. ASSUME CallersInv, CallersInv', [CallersNext]_callerVars
      PROVE  [Store!Next]_<<Stored, last>>
  <2>1. ASSUME NEW p \in Path, CallGet(p) PROVE Store!Next
    BY <1>2, <2>1, GetReads DEF Store!Next
  <2>2. ASSUME NEW p \in Path, NEW s \in Size, CallPut(p, s) PROVE Store!Next
    BY <1>2, <2>2, PutWrites DEF Store!Next
  <2>3. ASSUME NEW p \in Path, CallInvalidate(p) PROVE Store!Next
    BY <1>2, <2>3, InvalidateErases DEF Store!Next
  <2>4. ASSUME CallClear PROVE Store!Next
    BY <2>4, ClearErasesAll DEF Store!Next
  <2>5. ASSUME Tick PROVE Store!Next
    BY <1>2, <2>5, TickAges DEF Store!Next
  <2>6. ASSUME UNCHANGED callerVars PROVE UNCHANGED <<Stored, last>>
    BY <2>6 DEF callerVars, Stored, Fresh
  <2> QED
    BY <1>2, <2>1, <2>2, <2>3, <2>4, <2>5, <2>6 DEF CallersNext
<1> QED
  BY <1>1, <1>2, CallersInvariant, PTL DEF CallersSpec, KeepsFreshStorePromise, Store!Spec

-----------------------------------------------------------------------------
(* The lists for absent values have a size item.                           *)
LEMMA PairHasSize ==
  ASSUME NEW a, NEW b \in SizeItem
  PROVE  Len(<<a, b>>) = 2 /\ has_system_size(<<a, b>>)
<1>1. 2 \in DOMAIN <<a, b>> /\ <<a, b>>[2] = b
  OBVIOUS
<1> QED
  BY <1>1 DEF has_system_size

LEMMA TripleHasSize ==
  ASSUME NEW a, NEW b, NEW c, b \in SizeItem \/ c \in SizeItem
  PROVE  Len(<<a, b, c>>) = 3 /\ has_system_size(<<a, b, c>>)
<1>1. {2, 3} \subseteq DOMAIN <<a, b, c>> /\ <<a, b, c>>[2] = b /\ <<a, b, c>>[3] = c
  OBVIOUS
<1> QED
  BY <1>1 DEF has_system_size

(* What is injected is a size item, by one of the three strategies.        *)
LEMMA TargetsInject ==
  ASSUME NEW name \in DOMAIN k_targets
  PROVE  /\ k_targets[name].mode \in {"Append", "InsertAfterKey", "InsertAtPos2"}
         /\ k_targets[name].toInject \in SizeItem
         /\ Len(k_targets[name].synthDefault) \in Nat
         /\ has_system_size(k_targets[name].synthDefault)
<1> DEFINE Good(t) == /\ t.mode \in {"Append", "InsertAfterKey", "InsertAtPos2"}
                      /\ t.toInject \in SizeItem
                      /\ Len(t.synthDefault) \in Nat
                      /\ has_system_size(t.synthDefault)
<1>1. ASSUME NEW key, NEW mode \in {"Append", "InsertAfterKey", "InsertAtPos2"},
             NEW item \in SizeItem, NEW v, Len(v) \in Nat, has_system_size(v)
      PROVE  Good(Target(key, mode, item, v))
  <2> DEFINE t == Target(key, mode, item, v)
  <2>1. t.mode = mode /\ t.toInject = item /\ t.synthDefault = v
    BY DEF Target
  <2> HIDE DEF t
  <2>2. Good(t)
    BY <1>1, <2>1, Zenon
  <2> QED
    BY <2>2 DEF t
<1>2. "System.Size" \in SizeItem /\ "~System.Size" \in SizeItem
  BY RegQueryAssumption
<1> HIDE DEF Good
<1>3. CASE name = "TileInfo"
  <2> DEFINE v == <<"prop:*System.ItemType", "System.Size">>
  <2>1. Len(v) \in Nat /\ has_system_size(v)
    BY <1>2, PairHasSize
  <2>2. k_targets[name] = Target("Folder", "Append", "System.Size", v)
    BY <1>3 DEF k_targets
  <2> HIDE DEF v
  <2> QED
    BY <1>1, <1>2, <2>1, <2>2 DEF Good
<1>4. CASE name = "ContentViewModeForBrowse" \/ name = "ContentViewModeForSearch"
  <2> DEFINE v == <<"prop:Name", "DateModified", "System.Size">>
  <2>1. Len(v) \in Nat /\ has_system_size(v)
    BY <1>2, TripleHasSize
  <2>2. k_targets[name] = Target("Folder", "Append", "System.Size", v)
    BY <1>4 DEF k_targets
  <2> HIDE DEF v
  <2> QED
    BY <1>1, <1>2, <2>1, <2>2 DEF Good
<1>5. CASE name = "PreviewDetails"
  <2> DEFINE v == <<"prop:*System.DateModified", "System.Size", "System.ItemFolderNameDisplay">>
  <2>1. Len(v) \in Nat /\ has_system_size(v)
    BY <1>2, TripleHasSize
  <2>2. k_targets[name] = Target("Directory", "InsertAfterKey", "System.Size", v)
    BY <1>5 DEF k_targets
  <2> HIDE DEF v
  <2> QED
    BY <1>1, <1>2, <2>1, <2>2 DEF Good
<1>6. CASE name = "StatusBar"
  <2> DEFINE v == <<"prop:*System.DateModified", "~System.Size">>
  <2>1. Len(v) \in Nat /\ has_system_size(v)
    BY <1>2, PairHasSize
  <2>2. k_targets[name] = Target("Directory", "InsertAtPos2", "~System.Size", v)
    BY <1>6 DEF k_targets
  <2> HIDE DEF v
  <2> QED
    BY <1>1, <1>2, <2>1, <2>2 DEF Good
<1>7. name \in {"TileInfo", "ContentViewModeForBrowse", "ContentViewModeForSearch",
                "PreviewDetails", "StatusBar"}
  BY DEF k_targets
<1> QED
  BY <1>3, <1>4, <1>5, <1>6, <1>7

LEMMA ListsAreSequences ==
  ASSUME NEW v \in List
  PROVE  v \in Seq(Item) /\ Len(v) \in Nat \ {0} /\ DOMAIN v = 1 .. Len(v)
<1>1. PICK n \in 1 .. MaxItems : v \in [1 .. n -> Item]
  BY DEF List
<1> QED
  BY <1>1, RegQueryAssumption

(* A value has a length and is absent, a list or not a string.             *)
LEMMA ValuesHaveLength ==
  ASSUME NEW v \in Value, v # Absent
  PROVE  Len(v) \in Nat \ {0} /\ (v \in List <=> v \notin NotString)
<1>1. CASE v \in List
  <2>1. v \in Seq(Item) /\ Len(v) \in Nat \ {0}
    BY <1>1, ListsAreSequences
  <2>2. ASSUME v \in NotString
        PROVE  FALSE
    <3>1. PICK n \in 1 .. MaxItems : v \in [1 .. n -> {OtherType}]
      BY <2>2 DEF NotString
    <3>2. 1 \in 1 .. Len(v) /\ v[1] \in Item
      BY <2>1
    <3>3. v[1] = OtherType
      BY <3>1, RegQueryAssumption
    <3> QED
      BY <3>2, <3>3, RegQueryAssumption
  <2> QED
    BY <1>1, <2>1, <2>2
<1>2. CASE v \notin List
  <2>1. v \in NotString
    BY <1>2 DEF Value
  <2>2. PICK n \in 1 .. MaxItems : v \in [1 .. n -> {OtherType}]
    BY <2>1 DEF NotString
  <2>3. Len(v) \in Nat \ {0}
    BY <2>2, RegQueryAssumption
  <2> QED
    BY <1>2, <2>1, <2>3
<1> QED
  BY <1>1, <1>2

(* Injection, for any sequence of items that is not empty.                 *)
LEMMA InsertionPointInside ==
  ASSUME NEW T, NEW v \in Seq(T), Len(v) > 0, NEW name \in DOMAIN k_targets
  PROVE  InsertionPoint(v, k_targets[name]) \in 0 .. Len(v)
<1>1. MarkerAt(v) \in 0 .. Len(v)
  <2>1. CASE \E i \in DOMAIN v : v[i] \in MarkerItem
    <3> DEFINE M == {i \in DOMAIN v : v[i] \in MarkerItem}
    <3>1. M \in SUBSET Nat /\ M # {}
      BY <2>1
    <3>2. PICK i \in M : \A m \in M : i <= m
      BY <3>1, LeastNatural
    <3>3. v[i] \in MarkerItem /\ i \in DOMAIN v
      BY <3>2
    <3>4. \A j \in 1 .. i - 1 : v[j] \notin MarkerItem
      BY <3>2
    <3>5. MarkerAt(v) \in DOMAIN v
      BY <2>1, <3>3, <3>4 DEF MarkerAt
    <3> QED
      BY <3>5
  <2>2. CASE ~\E i \in DOMAIN v : v[i] \in MarkerItem
    BY <2>2 DEF MarkerAt
  <2> QED
    BY <2>1, <2>2
<1>2. k_targets[name].mode \in {"Append", "InsertAfterKey", "InsertAtPos2"}
  BY TargetsInject
<1>3. 1 \in 0 .. Len(v) /\ Len(v) \in 0 .. Len(v)
  OBVIOUS
<1> QED
  BY <1>1, <1>2, <1>3 DEF InsertionPoint

(* A slice of a sequence, item by item.                                    *)
LEMMA InsertedIs ==
  ASSUME NEW T, NEW v \in Seq(T), NEW n \in 0 .. Len(v), NEW item,
         NEW w, w = Inserted(v, n, item)
  PROVE  /\ Len(w) = Len(v) + 1
         /\ n + 1 \in DOMAIN w /\ w[n + 1] = item
         /\ WithoutItem(w, n + 1) = v
<1> DEFINE U == T \cup {item}
<1>1. v \in Seq(U) /\ <<item>> \in Seq(U) /\ Len(<<item>>) = 1 /\ <<item>>[1] = item
  OBVIOUS
<1> DEFINE left  == SubSeq(v, 1, n)
           right == SubSeq(v, n + 1, Len(v))
           most  == left \o <<item>>
<1>2. left \in Seq(U) /\ Len(left) = n /\ \A i \in 1 .. n : left[i] = v[i]
  BY <1>1, SliceIs
<1>3. /\ right \in Seq(U) /\ Len(right) = Len(v) - n
      /\ \A i \in 1 .. Len(v) - n : right[i] = v[n + i]
  BY <1>1, SliceIs
<1> HIDE DEF left, right
<1>4. /\ most \in Seq(U) /\ Len(most) = n + 1
      /\ \A i \in 1 .. n + 1 : most[i] = IF i <= n THEN v[i] ELSE item
  BY <1>1, <1>2, ConcatProperties
<1> HIDE DEF most
<1>5. /\ w \in Seq(U) /\ Len(w) = Len(v) + 1
      /\ \A i \in 1 .. Len(w) : w[i] = IF i <= n THEN v[i]
                                       ELSE IF i = n + 1 THEN item ELSE v[i - 1]
  <2>1. w = most \o right
    BY DEF Inserted, most, left, right
  <2>2. /\ most \o right \in Seq(U) /\ Len(most \o right) = Len(most) + Len(right)
        /\ \A i \in 1 .. Len(most) + Len(right) :
             (most \o right)[i] = IF i <= Len(most) THEN most[i] ELSE right[i - Len(most)]
    BY <1>3, <1>4, ConcatProperties
  <2>3. /\ w \in Seq(U) /\ Len(w) = Len(v) + 1
        /\ \A i \in 1 .. Len(w) : w[i] = IF i <= n + 1 THEN most[i] ELSE right[i - (n + 1)]
    BY <1>3, <1>4, <2>1, <2>2
  <2>4. ASSUME NEW i \in 1 .. Len(w), i > n + 1
        PROVE  w[i] = v[i - 1]
    <3> DEFINE j == i - (n + 1)
    <3>1. w[i] = right[j]
      BY <2>3, <2>4
    <3>2. j \in 1 .. Len(v) - n /\ n + j = i - 1
      BY <2>3, <2>4
    <3> HIDE DEF j
    <3>3. right[j] = v[n + j]
      BY <1>3, <3>2
    <3> QED
      BY <3>1, <3>2, <3>3
  <2> QED
    BY <1>4, <2>3, <2>4
<1>6. n + 1 \in DOMAIN w /\ w[n + 1] = item
  BY <1>5
<1>7. WithoutItem(w, n + 1) = v
  <2> DEFINE front == SubSeq(w, 1, n)
             back  == SubSeq(w, n + 2, Len(w))
             u     == front \o back
  <2>1. front \in Seq(U) /\ Len(front) = n /\ \A i \in 1 .. n : front[i] = w[i]
    BY <1>5, SliceIs
  <2>2. /\ back \in Seq(U) /\ Len(back) = Len(w) - (n + 1)
        /\ \A i \in 1 .. Len(w) - (n + 1) : back[i] = w[n + 1 + i]
    BY <1>5, SliceIs
  <2> HIDE DEF front, back
  <2>3. /\ u \in Seq(U) /\ Len(u) = Len(v)
        /\ \A i \in 1 .. Len(v) : u[i] = IF i <= n THEN front[i] ELSE back[i - n]
    BY <1>5, <2>1, <2>2, ConcatProperties
  <2> HIDE DEF u
  <2>4. ASSUME NEW i \in 1 .. Len(v)
        PROVE  u[i] = v[i]
    <3>1. CASE i <= n
      <4>1. u[i] = front[i]
        BY <2>3, <3>1
      <4>2. i \in 1 .. n /\ i \in 1 .. Len(w)
        BY <1>5, <3>1
      <4>3. front[i] = w[i]
        BY <2>1, <4>2
      <4>4. w[i] = v[i]
        BY <1>5, <3>1, <4>2
      <4> QED
        BY <4>1, <4>3, <4>4
    <3>2. CASE i > n
      <4>1. i - n \in 1 .. Len(w) - (n + 1) /\ n + 1 + (i - n) = i + 1
        BY <1>5, <3>2
      <4>2. u[i] = w[i + 1] /\ i + 1 \in 1 .. Len(w) /\ i + 1 > n + 1
        BY <1>5, <2>2, <2>3, <3>2, <4>1
      <4> QED
        BY <1>5, <4>2
    <3> QED
      BY <3>1, <3>2
  <2>5. u = v
    BY <1>1, <2>3, <2>4, SeqEqual
  <2>6. (n + 1) - 1 = n /\ (n + 1) + 1 = n + 2
    OBVIOUS
  <2>7. WithoutItem(w, n + 1) = u
    BY <2>6 DEF WithoutItem, u, front, back
  <2> QED
    BY <2>5, <2>7
<1> QED
  BY <1>5, <1>6, <1>7

(* What injection makes of a list of the registry.                         *)
LEMMA InjectionFacts ==
  ASSUME NEW v \in List, NEW name \in DOMAIN k_targets
  PROVE  LET w == apply_injection(v, k_targets[name])
         IN  /\ Len(w) \in Nat
             /\ has_system_size(w)
             /\ IF has_system_size(v) THEN w = v
                ELSE \E i \in DOMAIN w : w[i] \in SizeItem /\ WithoutItem(w, i) = v
<1> DEFINE t == k_targets[name]
           w == apply_injection(v, t)
           n == InsertionPoint(v, t)
           x == Inserted(v, n, t.toInject)
<1>1. v \in Seq(Item) /\ Len(v) > 0 /\ Len(v) \in Nat
  BY ListsAreSequences
<1>2. CASE has_system_size(v)
  BY <1>1, <1>2 DEF apply_injection
<1>3. CASE ~has_system_size(v)
  <2>1. w = x
    BY <1>3 DEF apply_injection
  <2>2. n \in 0 .. Len(v)
    BY <1>1, InsertionPointInside
  <2> HIDE DEF n, t
  <2>3. x = Inserted(v, n, t.toInject)
    OBVIOUS
  <2> HIDE DEF x
  <2>4. /\ Len(x) = Len(v) + 1 /\ n + 1 \in DOMAIN x
        /\ x[n + 1] = t.toInject /\ WithoutItem(x, n + 1) = v
    BY <1>1, <2>2, <2>3, InsertedIs
  <2>5. t.toInject \in SizeItem
    BY TargetsInject DEF t
  <2> HIDE DEF w
  <2>6. /\ Len(w) \in Nat /\ n + 1 \in DOMAIN w
        /\ w[n + 1] \in SizeItem /\ WithoutItem(w, n + 1) = v
    BY <1>1, <2>1, <2>4, <2>5
  <2>7. has_system_size(w)
    BY <2>6 DEF has_system_size
  <2> QED
    BY <1>3, <2>6, <2>7 DEF w, t
<1> QED
  BY <1>2, <1>3

-----------------------------------------------------------------------------
(* A value that is returned as a string may be fetched with the length     *)
(* that any call for it was told.                                          *)
LEMMA ReturnedTwice ==
  ASSUME NEW v, Len(v) \in Nat, NEW cb
  PROVE  /\ return_string_value(v, cb).length = Len(v)
         /\ return_string_value(v, cb).ret # "not found"
         /\ return_string_value(v, Len(v)).ret = "success"
<1>1. ~(Len(v) < Len(v)) /\ Len(v) # NoBuffer
  BY RegQueryAssumption
<1>2. return_string_value(v, Len(v)) = Answer("success", Len(v), v)
  BY <1>1 DEF return_string_value
<1> DEFINE a == return_string_value(v, cb)
<1>3. a.length = Len(v) /\ a.ret # "not found"
  <2> HIDE DEF a
  <2>1. CASE cb = NoBuffer
    <3>1. a = Answer("success", Len(v), <<>>)
      BY <2>1 DEF return_string_value, a
    <3>2. a.length = Len(v)
      BY <3>1 DEF Answer
    <3>3. a.ret # "not found"
      BY <3>1 DEF Answer
    <3> QED
      BY <3>2, <3>3
  <2>2. CASE cb # NoBuffer /\ cb < Len(v)
    <3>1. a = Answer("more data", Len(v), <<>>)
      BY <2>2 DEF return_string_value, a
    <3>2. a.length = Len(v)
      BY <3>1 DEF Answer
    <3>3. a.ret # "not found"
      BY <3>1 DEF Answer
    <3> QED
      BY <3>2, <3>3
  <2>3. CASE cb # NoBuffer /\ ~(cb < Len(v))
    <3>1. a = Answer("success", Len(v), v)
      BY <2>3 DEF return_string_value, a
    <3>2. a.length = Len(v)
      BY <3>1 DEF Answer
    <3>3. a.ret # "not found"
      BY <3>1 DEF Answer
    <3> QED
      BY <3>2, <3>3
  <2> QED
    BY <2>1, <2>2, <2>3
<1>4. return_string_value(v, Len(v)).ret = "success"
  BY <1>2 DEF Answer
<1> QED
  BY <1>3, <1>4

LEMMA AnsweredTwice ==
  ASSUME NEW v \in Value, NEW cb
  PROVE  /\ RegQueryValueEx(v, cb).length \in Nat
         /\ RegQueryValueEx(v, cb).ret # "not found" =>
              RegQueryValueEx(v, RegQueryValueEx(v, cb).length).ret = "success"
<1>1. CASE v = Absent
  BY <1>1 DEF RegQueryValueEx, Answer
<1>2. CASE v # Absent
  <2>1. \A b : RegQueryValueEx(v, b) = return_string_value(v, b)
    BY <1>2 DEF RegQueryValueEx
  <2>2. Len(v) \in Nat
    BY <1>2, ValuesHaveLength
  <2> QED
    BY <2>1, <2>2, ReturnedTwice
<1> QED
  BY <1>1, <1>2

(* The hook keeps to that, unless its own buffer is too small.             *)
LEMMA HookedTwice ==
  ASSUME NEW name, NEW key, NEW v \in Value, NEW cb
  PROVE  LET first == hooked_RegQueryValueEx(name, key, v, cb)
         IN  /\ first.length \in Nat
             /\ first.ret # "not found" /\ ~(Matches(name, key) /\ v # Absent /\ Len(v) > kBufCch)
                  => hooked_RegQueryValueEx(name, key, v, first.length).ret = "success"
<1> DEFINE H(b) == hooked_RegQueryValueEx(name, key, v, b)
           own == RegQueryValueEx(v, kBufCch)
           target == k_targets[name]
<1>1. CASE ~Matches(name, key)
  <2>1. \A b : H(b) = RegQueryValueEx(v, b)
    BY <1>1 DEF hooked_RegQueryValueEx
  <2> HIDE DEF H
  <2>2. H(cb).length \in Nat /\ (H(cb).ret # "not found" => H(H(cb).length).ret = "success")
    BY <2>1, AnsweredTwice
  <2> QED
    BY <1>1, <2>2 DEF H
<1>2. CASE Matches(name, key)
  <2>1. name \in DOMAIN k_targets
    BY <1>2 DEF Matches
  <2>2. CASE v = Absent
    <3>1. own.ret = "not found"
      BY <2>2 DEF RegQueryValueEx, Answer
    <3>2. \A b : H(b) = return_string_value(target.synthDefault, b)
      BY <1>2, <3>1 DEF hooked_RegQueryValueEx
    <3>3. Len(target.synthDefault) \in Nat
      BY <2>1, TargetsInject
    <3> HIDE DEF H, target
    <3>4. H(cb).length \in Nat /\ (H(cb).ret # "not found" => H(H(cb).length).ret = "success")
      BY <3>2, <3>3, ReturnedTwice
    <3> QED
      BY <3>4 DEF H
  <2>3. CASE v # Absent
    <3>1. Len(v) \in Nat /\ (v \in List <=> v \notin NotString)
      BY <2>3, ValuesHaveLength
    <3>2. own = return_string_value(v, kBufCch) /\ kBufCch # NoBuffer
      BY <2>3, RegQueryAssumption DEF RegQueryValueEx
    <3>3. CASE kBufCch < Len(v)
      <4> DEFINE a == H(cb)
      <4>1. own = Answer("more data", Len(v), <<>>)
        BY <3>2, <3>3 DEF return_string_value
      <4> HIDE DEF own
      <4>2. own.ret = "more data"
        BY <4>1 DEF Answer
      <4>3. own.length = Len(v)
        BY <4>1 DEF Answer
      <4>4. a = Answer("more data", Len(v) + Hint, <<>>)
        BY <1>2, <4>2, <4>3 DEF hooked_RegQueryValueEx, own
      <4> HIDE DEF a
      <4>5. a.length \in Nat
        <5>1. a.length = Len(v) + Hint
          BY <4>4 DEF Answer
        <5> QED
          BY <3>1, <5>1, RegQueryAssumption
      <4>6. Len(v) > kBufCch
        BY <3>1, <3>3, RegQueryAssumption
      <4> QED
        BY <1>2, <2>3, <4>5, <4>6 DEF a
    <3>4. CASE ~(kBufCch < Len(v))
      <4>1. own = Answer("success", Len(v), v)
        BY <3>2, <3>4 DEF return_string_value
      <4>2. own.ret = "success"
        BY <4>1 DEF Answer
      <4>3. CASE v \in NotString
        <5>1. \A b : H(b) = RegQueryValueEx(v, b)
          BY <1>2, <4>2, <4>3 DEF hooked_RegQueryValueEx
        <5> HIDE DEF H
        <5>2. H(cb).length \in Nat /\ (H(cb).ret # "not found" => H(H(cb).length).ret = "success")
          BY <5>1, AnsweredTwice
        <5> QED
          BY <5>2 DEF H
      <4>4. CASE v \in List
        <5>1. \A b : H(b) = return_string_value(apply_injection(v, target), b)
          BY <1>2, <3>1, <4>2, <4>4 DEF hooked_RegQueryValueEx
        <5>2. Len(apply_injection(v, target)) \in Nat
          BY <2>1, <4>4, InjectionFacts
        <5> HIDE DEF H, target
        <5>3. H(cb).length \in Nat /\ (H(cb).ret # "not found" => H(H(cb).length).ret = "success")
          BY <5>1, <5>2, ReturnedTwice
        <5> QED
          BY <5>3 DEF H
      <4> QED
        BY <3>1, <4>3, <4>4
    <3> QED
      BY <3>3, <3>4
  <2> QED
    BY <2>2, <2>3
<1> QED
  BY <1>1, <1>2

-----------------------------------------------------------------------------
(* What every call leaves: a length, and if it was told for the value that *)
(* is there now, one with which the value can be fetched.                  *)
RegQueryInv ==
  /\ value \in Value
  /\ buffer \in Nat
  /\ TwoCallsAgree

LEMMA ToldKeepsInv ==
  ASSUME value \in Value, NEW cb,
         \/ Told(hooked_RegQueryValueEx(lpValueName, hKey, value, cb), cb, TRUE)
         \/ Told(RegQueryValueEx(value, cb), cb, FALSE)
  PROVE  RegQueryInv'
<1> DEFINE a == hooked_RegQueryValueEx(lpValueName, hKey, value, cb)
           b == RegQueryValueEx(value, cb)
<1>1. /\ a.length \in Nat
      /\ a.ret # "not found" /\ ~TooLong =>
           hooked_RegQueryValueEx(lpValueName, hKey, value, a.length).ret = "success"
  BY HookedTwice DEF TooLong
<1>2. b.length \in Nat
  BY AnsweredTwice
<1>3. Told(a, cb, TRUE) \/ Told(b, cb, FALSE)
  OBVIOUS
<1> HIDE DEF a, b
<1>4. lpValueName' = lpValueName /\ hKey' = hKey /\ value' = value /\ TooLong' = TooLong
  BY <1>3 DEF Told, TooLong
<1>5. buffer' \in Nat
  <2>1. buffer' = 0 \/ buffer' = a.length \/ buffer' = b.length
    BY <1>3, Zenon DEF Told
  <2>2. 0 \in Nat
    OBVIOUS
  <2> QED
    BY <1>1, <1>2, <2>1, <2>2, Zenon
<1>6. caller' = "fetching" /\ current' => a.ret # "not found" /\ buffer' = a.length
  BY <1>3 DEF Told
<1>7. TwoCallsAgree'
  BY <1>1, <1>4, <1>6 DEF TwoCallsAgree
<1> QED
  BY <1>4, <1>5, <1>7 DEF RegQueryInv

(* The inductive invariant: whatever the caller's buffer and whatever the  *)
(* registry's value, what the hook answered is what it answers again.      *)
THEOREM RegQueryInvariant == RegQuerySpec => []RegQueryInv
<1>1. RegQueryInit => RegQueryInv
  BY DEF RegQueryInit, RegQueryInv, Value, TwoCallsAgree
<1>2. ASSUME RegQueryInv, [RegQueryNext]_regQueryVars
      PROVE  RegQueryInv'
  <2>1. CASE Ask
    BY <1>2, <2>1 DEF Ask, RegQueryInv, TwoCallsAgree
  <2>2. CASE AskLength
    BY <1>2, <2>2, ToldKeepsInv DEF AskLength, RegQueryInv
  <2>3. CASE FetchValue
    BY <1>2, <2>3, ToldKeepsInv DEF FetchValue, RegQueryInv
  <2>4. CASE WriteValue
    BY <1>2, <2>4 DEF WriteValue, RegQueryInv, TwoCallsAgree
  <2>5. CASE HandlerPassesOn
    BY <1>2, <2>5, ToldKeepsInv DEF HandlerPassesOn, RegQueryInv
  <2>6. CASE UNCHANGED regQueryVars
    BY <1>2, <2>6 DEF regQueryVars, RegQueryInv, TwoCallsAgree, TooLong
  <2> QED
    BY <1>2, <2>1, <2>2, <2>3, <2>4, <2>5, <2>6 DEF RegQueryNext
<1> QED
  BY <1>1, <1>2, PTL DEF RegQuerySpec

(* A caller that asks for the length and fetches with a buffer of it is    *)
(* never told that there is more, unless the value was written meanwhile,  *)
(* an exception had the original tell the length, or the value is longer   *)
(* than the hook's own buffer (hooked_RegQueryValueEx_inner).              *)
THEOREM LengthAndValueAgree == RegQuerySpec => []TwoCallsAgree
<1>1. RegQueryInv => TwoCallsAgree
  BY DEF RegQueryInv
<1> QED
  BY <1>1, RegQueryInvariant, PTL

(* For lists of any length and any items, the injection adds one size item *)
(* or, where there is one, nothing (apply_injection).                      *)
THEOREM EveryInjectionIsFaithful == RegQuerySpec => []InjectionIsFaithful
<1>1. RegQueryInv => InjectionIsFaithful
  <2> SUFFICES ASSUME NEW name \in DOMAIN k_targets
               PROVE  LET t == k_targets[name]
                          w == apply_injection(value, t)
                      IN  /\ apply_injection(t.synthDefault, t) = t.synthDefault
                          /\ value \in List =>
                               /\ has_system_size(w)
                               /\ apply_injection(w, t) = w
                               /\ IF has_system_size(value) THEN w = value
                                  ELSE \E i \in DOMAIN w : w[i] \in SizeItem
                                                           /\ WithoutItem(w, i) = value
    BY DEF InjectionIsFaithful
  <2> DEFINE t == k_targets[name]
             w == apply_injection(value, t)
  <2>1. apply_injection(t.synthDefault, t) = t.synthDefault
    BY TargetsInject DEF apply_injection
  <2>2. ASSUME value \in List
        PROVE  /\ has_system_size(w)
               /\ apply_injection(w, t) = w
               /\ IF has_system_size(value) THEN w = value
                  ELSE \E i \in DOMAIN w : w[i] \in SizeItem /\ WithoutItem(w, i) = value
    <3>1. /\ has_system_size(w)
          /\ IF has_system_size(value) THEN w = value
             ELSE \E i \in DOMAIN w : w[i] \in SizeItem /\ WithoutItem(w, i) = value
      BY <2>2, InjectionFacts
    <3> HIDE DEF w
    <3>2. apply_injection(w, t) = w
      BY <3>1 DEF apply_injection
    <3> QED
      BY <3>1, <3>2
  <2> QED
    BY <2>1, <2>2
<1> QED
  BY <1>1, RegQueryInvariant, PTL

-----------------------------------------------------------------------------
(* What the call has in hand.                                              *)
InHand == {l \in Link : extracting /\ link = l}

ExtractionInv ==
  /\ link \in 0 .. 4
  /\ references \in [Link -> Nat] /\ thrown \in [Link -> Nat]
  /\ \A l \in Link : references[l] = thrown[l] + IF l \in InHand THEN 1 ELSE 0

(* What is released was counted.                                           *)
LEMMA ReleasedIsCounted ==
  ASSUME ExtractionInv, extracting
  PROVE  Released(link) = thrown
<1>1. \A l \in Link : l \in InHand <=> l = link
  BY DEF InHand
<1>2. \A l \in Link : references[l] = thrown[l] + (IF l = link THEN 1 ELSE 0) /\ thrown[l] \in Nat
  BY <1>1 DEF ExtractionInv
<1>3. references \in [Link -> Nat] /\ thrown \in [Link -> Nat]
  BY DEF ExtractionInv
<1>4. CASE link \in Link
  <2>1. Released(link) = [references EXCEPT ![link] = @ - 1]
    BY <1>4 DEF Released
  <2> QED
    BY <1>2, <1>3, <1>4, <2>1
<1>5. CASE link \notin Link
  <2>1. Released(link) = references /\ \A l \in Link : l # link
    BY <1>5 DEF Released
  <2> QED
    BY <1>2, <1>3, <2>1
<1> QED
  BY <1>4, <1>5

LEMMA ExtractionStepKeepsInv == ExtractionInv /\ [ExtractionNext]_extractionVars => ExtractionInv'
<1> SUFFICES ASSUME ExtractionInv, [ExtractionNext]_extractionVars
             PROVE  ExtractionInv'
  OBVIOUS
<1>1. link \in 0 .. 4 /\ references \in [Link -> Nat] /\ thrown \in [Link -> Nat]
  BY DEF ExtractionInv
(* A call that has begun or ended has nothing in hand.                     *)
<1>2. ASSUME link' = 0 \/ extracting' = FALSE, link' \in 0 .. 4, references' = thrown',
             thrown' \in [Link -> Nat]
      PROVE  ExtractionInv'
  <2>1. InHand' = {}
    BY <1>2 DEF InHand, Link
  <2> QED
    BY <1>2, <2>1 DEF ExtractionInv
<1>3. CASE Start
  <2>1. ~extracting /\ link' = 0 /\ references' = references /\ thrown' = thrown
    BY <1>3 DEF Start
  <2>2. InHand = {}
    BY <2>1 DEF InHand
  <2>3. references = thrown
    BY <1>1, <2>2 DEF ExtractionInv
  <2> QED
    BY <1>1, <1>2, <2>1, <2>3
<1>4. CASE NextLink
  <2>1. extracting /\ link < 4 /\ thrown' = thrown
    BY <1>4 DEF NextLink
  <2>2. Released(link) = thrown
    BY <2>1, ReleasedIsCounted
  <2>3. CASE /\ link' = link + 1 /\ UNCHANGED extracting
             /\ references' = [Released(link) EXCEPT ![link + 1] = @ + 1]
    <3>1. link + 1 \in Link /\ link' \in 0 .. 4
      BY <1>1, <2>1, <2>3 DEF Link
    <3>2. extracting'
      BY <2>1, <2>3
    <3>3. InHand' = {link + 1}
      BY <2>3, <3>1, <3>2 DEF InHand
    <3>4. references' = [thrown EXCEPT ![link + 1] = @ + 1]
      BY <2>2, <2>3
    <3> QED
      BY <1>1, <2>1, <3>1, <3>3, <3>4 DEF ExtractionInv
  <2>4. CASE link' = 0 /\ references' = Released(link)
    BY <1>1, <1>2, <2>1, <2>2, <2>4
  <2> QED
    BY <1>4, <2>3, <2>4 DEF NextLink
<1>5. CASE FindPath
  <2>1. extracting /\ link' = 0 /\ references' = Released(link) /\ thrown' = thrown
    BY <1>5 DEF FindPath
  <2> QED
    BY <1>1, <1>2, <2>1, ReleasedIsCounted
<1>6. CASE Throw
  <2>1. extracting /\ link' = 0 /\ references' = references
    BY <1>6 DEF Throw
  <2>2. \A l \in Link : references[l] = thrown[l] + (IF l = link THEN 1 ELSE 0)
    <3>1. \A l \in Link : l \in InHand <=> l = link
      BY <2>1 DEF InHand
    <3> QED
      BY <3>1 DEF ExtractionInv
  <2>3. CASE link \in Link
    <3>1. thrown' = [thrown EXCEPT ![link] = @ + 1]
      BY <1>6, <2>3 DEF Throw
    <3> QED
      BY <1>1, <1>2, <2>1, <2>2, <2>3, <3>1
  <2>4. CASE link \notin Link
    <3>1. thrown' = thrown /\ \A l \in Link : l # link
      BY <1>6, <2>4 DEF Throw
    <3> QED
      BY <1>1, <1>2, <2>1, <2>2, <3>1
  <2> QED
    BY <2>3, <2>4
<1>7. CASE UNCHANGED extractionVars
  <2>1. InHand' = InHand
    BY <1>7 DEF extractionVars, InHand
  <2> QED
    BY <1>7, <2>1 DEF extractionVars, ExtractionInv
<1> QED
  BY <1>3, <1>4, <1>5, <1>6, <1>7 DEF ExtractionNext

(* Whichever steps fail and whichever throw, each reference is released or *)
(* was passed by in an exception (extract_path).                           *)
THEOREM ExtractionAlwaysLeavesNothing == ExtractionSpec => []ExtractionLeavesNothing
<1>1. ExtractionInit => ExtractionInv
  <2> SUFFICES ASSUME ExtractionInit
               PROVE  ExtractionInv
    OBVIOUS
  <2>1. InHand = {}
    BY DEF ExtractionInit, InHand
  <2> QED
    BY <2>1 DEF ExtractionInit, ExtractionInv
<1>2. ExtractionInv => ExtractionLeavesNothing
  <2> SUFFICES ASSUME ExtractionInv, NEW l \in Link
               PROVE  references[l] = thrown[l] + IF extracting /\ link = l THEN 1 ELSE 0
    BY DEF ExtractionLeavesNothing
  <2>1. l \in InHand <=> extracting /\ link = l
    BY DEF InHand
  <2>2. references[l] = thrown[l] + IF l \in InHand THEN 1 ELSE 0
    BY DEF ExtractionInv
  <2>3. CASE extracting /\ link = l
    BY <2>1, <2>2, <2>3
  <2>4. CASE ~(extracting /\ link = l)
    BY <2>1, <2>2, <2>4
  <2> QED
    BY <2>3, <2>4
<1> QED
  BY <1>1, <1>2, ExtractionStepKeepsInv, PTL DEF ExtractionSpec

-----------------------------------------------------------------------------
(* Division, as the provers know it.                                       *)
LEMMA RoundedIsNear ==
  ASSUME NEW n \in Nat, NEW d \in Nat \ {0}, NEW a \in Rounded(n, d)
  PROVE  /\ a \in Nat
         /\ \E q \in Nat, s \in 0 .. d - 1 : /\ n = d * q + s
                                             /\ (a = q /\ 2 * s <= d) \/ (a = q + 1 /\ 2 * s >= d)
<1>1. /\ n = d * (n \div d) + (n % d)
      /\ n % d \in 0 .. d - 1 /\ n \div d \in Nat
  OBVIOUS
<1>2. \/ a = n \div d /\ 2 * (n % d) <= d
      \/ a = n \div d + 1 /\ 2 * (n % d) >= d
  BY <1>1 DEF Rounded
<1> QED
  BY <1>1, <1>2

(* A product grows with its factors.                                       *)
LEMMA ProductGrows ==
  ASSUME NEW a \in Nat, NEW b \in Nat, NEW c \in Nat, a <= b
  PROVE  a * c <= b * c /\ c * a <= c * b /\ a * c \in Nat /\ c * a = a * c
OBVIOUS

LEMMA ProductReorders ==
  ASSUME NEW a \in Nat, NEW b \in Nat, NEW c \in Nat
  PROVE  a * b = b * a /\ (a * b) * c = (a * c) * b /\ a * b \in Nat
OBVIOUS

LEMMA FactorsInOrder ==
  ASSUME NEW d \in Nat \ {0}, NEW p \in Nat, NEW q \in Nat, d * p < d * q
  PROVE  p < q
<1>1. q <= p => d * q <= d * p
  BY ProductGrows
<1> QED
  BY <1>1

(* Rounding keeps the order, and whole numbers.                            *)
LEMMA RoundedKeepsOrder ==
  ASSUME NEW n \in Nat, NEW m \in Nat, n < m, NEW d \in Nat \ {0},
         NEW a \in Rounded(n, d), NEW b \in Rounded(m, d)
  PROVE  a <= b
<1>1. PICK q \in Nat, s \in 0 .. d - 1 : /\ n = d * q + s
                                         /\ (a = q /\ 2 * s <= d) \/ (a = q + 1 /\ 2 * s >= d)
  BY RoundedIsNear
<1>2. PICK p \in Nat, t \in 0 .. d - 1 : /\ m = d * p + t
                                         /\ (b = p /\ 2 * t <= d) \/ (b = p + 1 /\ 2 * t >= d)
  BY RoundedIsNear
<1>3. d * q \in Nat /\ d * p \in Nat /\ d * (p + 1) = d * p + d
  OBVIOUS
<1>4. q < p + 1
  <2>1. d * q < d * (p + 1)
    BY <1>1, <1>2, <1>3
  <2> QED
    BY <2>1, FactorsInOrder
<1>5. CASE q = p
  <2>1. s < t
    BY <1>1, <1>2, <1>3, <1>5
  <2> QED
    BY <1>1, <1>2, <1>5, <2>1
<1>6. CASE q # p
  BY <1>1, <1>2, <1>4, <1>6
<1> QED
  BY <1>5, <1>6

LEMMA RoundedKeepsWhole ==
  ASSUME NEW n \in Nat, NEW d \in Nat \ {0}, NEW k \in Nat, NEW a \in Rounded(n, d)
  PROVE  (n < k * d => a <= k) /\ (n >= k * d => k <= a)
<1>1. PICK q \in Nat, s \in 0 .. d - 1 : /\ n = d * q + s
                                         /\ (a = q /\ 2 * s <= d) \/ (a = q + 1 /\ 2 * s >= d)
  BY RoundedIsNear
<1>2. d * q \in Nat /\ d * k \in Nat /\ k * d = d * k /\ d * (q + 1) = d * q + d
  OBVIOUS
<1>3. ASSUME n < k * d
      PROVE  a <= k
  <2>1. d * q < d * k
    BY <1>1, <1>2, <1>3
  <2>2. q < k
    BY <2>1, FactorsInOrder
  <2> QED
    BY <1>1, <2>2
<1>4. ASSUME n >= k * d
      PROVE  k <= a
  <2>1. d * k < d * (q + 1)
    BY <1>1, <1>2, <1>4
  <2>2. k < q + 1
    BY <2>1, FactorsInOrder
  <2> QED
    BY <1>1, <2>2
<1> QED
  BY <1>3, <1>4

LEMMA Tens ==
  ASSUME NEW k \in 0 .. 2
  PROVE  10 ^ k \in Nat \ {0}
<1>1. 10 ^ 0 = 1 /\ 10 ^ 1 = 10 /\ 10 ^ 2 = 100
  OBVIOUS
<1>2. k = 0 \/ k = 1 \/ k = 2
  OBVIOUS
<1>3. 10 ^ k = 1 \/ 10 ^ k = 10 \/ 10 ^ k = 100
  BY <1>1, <1>2, Zenon
<1> QED
  BY <1>3

LEMMA Powers ==
  /\ Power[0] = 1
  /\ \A u \in 0 .. 4 : Power[u] \in Nat \ {0}
  /\ \A u \in 0 .. 3 : Power[u + 1] = Kilo * Power[u] /\ Power[u] < Power[u + 1]
<1> DEFINE k2 == Kilo * Kilo
           k3 == Kilo * k2
           k4 == Kilo * k3
<1>1. Power[0] = 1 /\ Power[1] = Kilo /\ Power[2] = k2 /\ Power[3] = k3 /\ Power[4] = k4
  BY DEF Power
<1>2. Kilo \in Nat /\ 1 < Kilo
  BY FormatterAssumption
<1>3. ASSUME NEW n \in Nat \ {0}
      PROVE  Kilo * n \in Nat /\ n < Kilo * n
  <2>1. 2 * n <= Kilo * n /\ Kilo * n \in Nat
    BY <1>2, ProductGrows
  <2> QED
    BY <2>1
<1>4. k2 \in Nat \ {0} /\ Kilo < k2
  BY <1>2, <1>3
<1> HIDE DEF k2
<1>5. k3 \in Nat \ {0} /\ k2 < k3
  BY <1>3, <1>4
<1> HIDE DEF k3
<1>6. k4 \in Nat \ {0} /\ k3 < k4
  BY <1>3, <1>5
<1>7. Kilo * 1 = Kilo
  BY <1>2
<1>8. k2 = Kilo * Kilo /\ k3 = Kilo * k2 /\ k4 = Kilo * k3
  BY DEF k2, k3
<1> HIDE DEF k4
<1>9. \A u \in 0 .. 4 : u = 0 \/ u = 1 \/ u = 2 \/ u = 3 \/ u = 4
  OBVIOUS
<1>10. \A u \in 0 .. 4 : Power[u] \in Nat \ {0}
  BY <1>1, <1>2, <1>4, <1>5, <1>6, <1>9
<1>11. ASSUME NEW u \in 0 .. 3
       PROVE  Power[u + 1] = Kilo * Power[u] /\ Power[u] < Power[u + 1]
  <2>1. u = 0 \/ u = 1 \/ u = 2 \/ u = 3
    OBVIOUS
  <2> QED
    BY <2>1, <1>1, <1>2, <1>4, <1>5, <1>6, <1>7, <1>8
<1> QED
  BY <1>1, <1>10, <1>11

(* The unit of a size is the largest that is not larger than it.           *)
LEMMA UnitFits ==
  ASSUME NEW n \in Nat
  PROVE  /\ UnitOf(n) \in 0 .. 4
         /\ UnitOf(n) < 4 => n < Power[UnitOf(n) + 1]
         /\ Power[UnitOf(n)] <= n \/ UnitOf(n) = 0
<1> DEFINE Fits(u) == /\ u < 4 => n < Power[u + 1]
                      /\ u > 0 => n >= Power[u]
<1>1. \E u \in 0 .. 4 : Fits(u)
  <2>1. /\ Power[1] \in Nat /\ Power[2] \in Nat /\ Power[3] \in Nat /\ Power[4] \in Nat
    BY Powers
  <2>2. CASE n < Power[1]
    <3>1. Fits(0)
      BY <2>2
    <3> QED
      BY <3>1
  <2>3. CASE Power[1] <= n /\ n < Power[2]
    <3>1. Fits(1)
      BY <2>3
    <3> QED
      BY <3>1
  <2>4. CASE Power[2] <= n /\ n < Power[3]
    <3>1. Fits(2)
      BY <2>4
    <3> QED
      BY <3>1
  <2>5. CASE Power[3] <= n /\ n < Power[4]
    <3>1. Fits(3)
      BY <2>5
    <3> QED
      BY <3>1
  <2>6. CASE Power[4] <= n
    <3>1. Fits(4)
      BY <2>6
    <3> QED
      BY <3>1
  <2> QED
    BY <2>1, <2>2, <2>3, <2>4, <2>5, <2>6
<1>2. UnitOf(n) \in 0 .. 4 /\ Fits(UnitOf(n))
  BY <1>1 DEF UnitOf
<1> QED
  BY <1>2
(* The next size has the same unit, or is the first of the next one.       *)
LEMMA NextUnit ==
  ASSUME NEW n \in Nat
  PROVE  \/ UnitOf(n + 1) = UnitOf(n)
         \/ UnitOf(n) < 4 /\ UnitOf(n + 1) = UnitOf(n) + 1 /\ n + 1 = Power[UnitOf(n + 1)]
<1> DEFINE u == UnitOf(n)
           w == UnitOf(n + 1)
<1>1. /\ u \in 0 .. 4 /\ (u < 4 => n < Power[u + 1]) /\ (Power[u] <= n \/ u = 0)
      /\ w \in 0 .. 4 /\ (w < 4 => n + 1 < Power[w + 1]) /\ (Power[w] <= n + 1 \/ w = 0)
  BY UnitFits
<1>2. /\ Power[0] = 1
      /\ Power[0] \in Nat /\ Power[1] \in Nat /\ Power[2] \in Nat
      /\ Power[3] \in Nat /\ Power[4] \in Nat
      /\ Power[0] < Power[1] /\ Power[1] < Power[2] /\ Power[2] < Power[3] /\ Power[3] < Power[4]
  <2>1. /\ Power[0] < Power[0 + 1] /\ Power[1] < Power[1 + 1]
        /\ Power[2] < Power[2 + 1] /\ Power[3] < Power[3 + 1]
    BY Powers
  <2> QED
    BY <2>1, Powers
<1> HIDE DEF u, w
<1>3. \A i, j \in 0 .. 4 : i < j => Power[i + 1] <= Power[j]
  <2>1. \A i \in 0 .. 4 : i = 0 \/ i = 1 \/ i = 2 \/ i = 3 \/ i = 4
    OBVIOUS
  <2> QED
    BY <1>2, <2>1
<1>4. CASE w < u
  <2>1. Power[w + 1] <= Power[u] /\ Power[w + 1] \in Nat /\ Power[u] \in Nat
    BY <1>1, <1>3, <1>4, Powers
  <2> QED
    BY <1>1, <1>4, <2>1
<1>5. CASE u < w
  <2>1. Power[u + 1] <= Power[w] /\ Power[u + 1] \in Nat /\ Power[w] \in Nat
    BY <1>1, <1>3, <1>5, Powers
  <2>2. n + 1 = Power[u + 1] /\ n + 1 = Power[w]
    BY <1>1, <1>5, <2>1
  <2>3. w = u + 1
    <3> SUFFICES ASSUME u + 1 < w
                 PROVE  FALSE
      BY <1>1, <1>5
    <3>1. u + 1 \in 0 .. 3 /\ Power[u + 1 + 1] <= Power[w]
      BY <1>1, <1>3
    <3>2. Power[u + 1] < Power[u + 1 + 1] /\ Power[u + 1 + 1] \in Nat
      BY <1>1, <3>1, Powers
    <3> QED
      BY <2>1, <2>2, <3>1, <3>2
  <2> QED
    BY <1>1, <1>5, <2>2, <2>3 DEF u, w
<1> QED
  BY <1>1, <1>4, <1>5 DEF u, w

LEMMA FormatKeepsOrder ==
  ASSUME NEW n \in Nat, NEW decimals \in [0 .. 4 -> 0 .. 2],
         NEW x \in Format(n, decimals), NEW y \in Format(n + 1, decimals)
  PROVE  NamesNoMore(x, y)
<1> DEFINE u == UnitOf(n)
           w == UnitOf(n + 1)
           T == 10 ^ decimals[u]
           W == 10 ^ decimals[w]
<1>1. /\ u \in 0 .. 4 /\ w \in 0 .. 4
      /\ Power[u] \in Nat \ {0} /\ Power[w] \in Nat \ {0}
      /\ T \in Nat \ {0} /\ W \in Nat \ {0}
      /\ (u < 4 => n < Power[u + 1])
  <2>1. UnitOf(n) \in 0 .. 4 /\ UnitOf(n + 1) \in 0 .. 4 /\ (u < 4 => n < Power[u + 1])
    BY UnitFits
  <2> QED
    BY <2>1, Powers, Tens
<1>2. /\ x.unit = u /\ x.places = decimals[u] /\ x.amount \in Rounded(n * T, Power[u])
      /\ y.unit = w /\ y.places = decimals[w] /\ y.amount \in Rounded((n + 1) * W, Power[w])
  BY DEF Format, Formatted
<1> HIDE DEF u, w, T, W
<1>4. /\ n * T \in Nat /\ (n + 1) * T = n * T + T /\ (n + 1) * W \in Nat
  BY <1>1
<1>5. x.amount \in Nat /\ y.amount \in Nat
  BY <1>1, <1>2, <1>4, RoundedIsNear
<1>6. x.amount * Power[u] * W <= y.amount * Power[w] * T
  <2>1. CASE w = u
    <3>1. W = T
      BY <2>1 DEF T, W
    <3>2. x.amount <= y.amount
      BY <1>1, <1>2, <1>4, <2>1, <3>1, RoundedKeepsOrder
    <3>3. x.amount * Power[u] <= y.amount * Power[u] /\ x.amount * Power[u] \in Nat
          /\ y.amount * Power[u] \in Nat
      BY <1>1, <1>5, <3>2, ProductGrows
    <3> QED
      BY <1>1, <2>1, <3>1, <3>3, ProductGrows
  <2>2. CASE w # u
    <3>1. u < 4 /\ w = u + 1 /\ n + 1 = Power[w]
      BY <2>2, NextUnit DEF u, w
    <3>2. Power[w] = Kilo * Power[u] /\ Kilo \in Nat
      BY <1>1, <3>1, Powers, FormatterAssumption
    <3>3. x.amount <= Kilo * T
      <4>1. n * T < (Kilo * T) * Power[u]
        <5>1. (Kilo * Power[u]) * T = (Kilo * T) * Power[u]
          BY <1>1, <3>2, ProductReorders
        <5>2. (n + 1) * T = (Kilo * Power[u]) * T
          BY <3>1, <3>2
        <5> QED
          BY <1>1, <1>4, <5>1, <5>2
      <4>2. Kilo * T \in Nat
        BY <1>1, <3>2, ProductReorders
      <4> DEFINE N == n * T
                 k == Kilo * T
                 d == Power[u]
                 a == x.amount
      <4>3. /\ N \in Nat /\ k \in Nat /\ d \in Nat \ {0} /\ a \in Rounded(N, d)
            /\ N < k * d
        BY <1>1, <1>2, <1>4, <4>1, <4>2
      <4> HIDE DEF N, k, d, a
      <4>4. a <= k
        BY <4>3, RoundedKeepsWhole
      <4> QED
        BY <4>4 DEF a, k
    <3>4. W <= y.amount
      <4>1. (n + 1) * W = W * Power[w]
        <5>1. Power[w] \in Nat /\ W \in Nat
          BY <1>1
        <5>2. Power[w] * W = W * Power[w]
          BY <5>1, ProductReorders
        <5> QED
          BY <3>1, <5>2
      <4> DEFINE N == (n + 1) * W
                 d == Power[w]
                 a == y.amount
      <4>2. N \in Nat /\ d \in Nat \ {0} /\ a \in Rounded(N, d)
        BY <1>1, <1>2, <1>4
      <4>3. N = W * d
        BY <4>1
      <4> HIDE DEF N, d, a
      <4>4. N >= W * d
        BY <4>2, <4>3
      <4>5. W <= a
        BY <1>1, <4>2, <4>4, RoundedKeepsWhole
      <4> QED
        BY <4>5 DEF a
    <3>5. x.amount * Power[u] * W <= (Kilo * T) * Power[u] * W
      <4>1. x.amount * Power[u] <= (Kilo * T) * Power[u] /\ x.amount * Power[u] \in Nat
            /\ (Kilo * T) * Power[u] \in Nat
        BY <1>1, <1>5, <3>2, <3>3, ProductGrows
      <4> QED
        BY <1>1, <4>1, ProductGrows
    <3>6. W * Power[w] * T <= y.amount * Power[w] * T
      <4>1. W * Power[w] <= y.amount * Power[w] /\ W * Power[w] \in Nat
            /\ y.amount * Power[w] \in Nat
        BY <1>1, <1>5, <3>4, ProductGrows
      <4> QED
        BY <1>1, <4>1, ProductGrows
    <3>7. (Kilo * T) * Power[u] * W = W * Power[w] * T
      <4>1. (Kilo * T) * Power[u] = Power[w] * T
        BY <1>1, <3>2, ProductReorders
      <4>2. (Power[w] * T) * W = (W * Power[w]) * T
        BY <1>1, ProductReorders
      <4> QED
        BY <4>1, <4>2
    <3>8. /\ x.amount * Power[u] * W \in Nat /\ W * Power[w] * T \in Nat
          /\ y.amount * Power[w] * T \in Nat
      BY <1>1, <1>5, ProductReorders
    <3> QED
      BY <3>5, <3>6, <3>7, <3>8
  <2> QED
    BY <2>1, <2>2
<1> QED
  BY <1>2, <1>6 DEF NamesNoMore, T, W

(* A larger folder never reads smaller, at any size below the sentinel, on *)
(* either side of every change of unit and of decimals, whichever way the  *)
(* halves are rounded (format_size, format_size_for_shell_column).         *)
THEOREM ColumnStaysInOrder == FormatterSpec => []ColumnKeepsOrder
<1>1. FormatterInit => bytes \in Nat
  BY DEF FormatterInit
<1>2. bytes \in Nat /\ [FormatterNext]_bytes => (bytes \in Nat)'
  BY FormatterAssumption DEF FormatterNext
<1>3. bytes \in Nat => ColumnKeepsOrder
  <2> SUFFICES ASSUME bytes \in Nat, bytes < Sentinel
               PROVE  /\ \A x \in format_size(bytes), y \in format_size(bytes + 1) :
                           NamesNoMore(x, y)
                      /\ \A x \in format_size_for_shell_column(bytes),
                            y \in format_size_for_shell_column(bytes + 1) :
                           x # Pending /\ (y = Pending \/ NamesNoMore(x, y))
    BY DEF ColumnKeepsOrder
  <2>1. SizeDecimals \in [0 .. 4 -> 0 .. 2] /\ ColumnDecimals \in [0 .. 4 -> 0 .. 2]
    BY DEF SizeDecimals, ColumnDecimals
  <2>2. format_size_for_shell_column(bytes) = Format(bytes, ColumnDecimals)
    BY FormatterAssumption DEF format_size_for_shell_column, is_pending_size, format_size_for_column
  <2>3. ASSUME NEW y \in format_size_for_shell_column(bytes + 1)
        PROVE  y = Pending \/ y \in Format(bytes + 1, ColumnDecimals)
    BY <2>3 DEF format_size_for_shell_column, format_size_for_column
  <2>5. ASSUME NEW x \in format_size(bytes), NEW y \in format_size(bytes + 1)
        PROVE  NamesNoMore(x, y)
    BY <2>1, <2>5, FormatKeepsOrder DEF format_size
  <2>6. ASSUME NEW x \in Format(bytes, ColumnDecimals), NEW y \in Format(bytes + 1, ColumnDecimals)
        PROVE  NamesNoMore(x, y)
    BY <2>1, <2>6, FormatKeepsOrder
  <2>7. ASSUME NEW x \in Format(bytes, ColumnDecimals)
        PROVE  x # Pending
    <3>1. x.unit \in 0 .. 4
      BY UnitFits DEF Format, Formatted
    <3> QED
      BY <3>1 DEF Pending
  <2> QED
    BY <2>2, <2>3, <2>5, <2>6, <2>7
<1> QED
  BY <1>1, <1>2, <1>3, PTL DEF FormatterSpec

-----------------------------------------------------------------------------
(* The overlays that count: those alive, and those on the way to their     *)
(* destructor.  The registry holds what the server writes, nothing else.   *)
Counted == Alive(Overlay) \cup dying

ComInv ==
  /\ m_refCount \in [Factory \cup Overlay -> Nat]
  /\ dying \subseteq Overlay /\ \A o \in dying : m_refCount[o] = 0
  /\ g_objectCount = Cardinality(Counted) /\ g_lockCount \in Nat
  /\ classes \subseteq ClassEntries \cup ServerEntries \cup OverlayEntries
  /\ RegistrationIsWhole

LEMMA CountedAreFinite ==
  ASSUME dying \subseteq Overlay
  PROVE  IsFiniteSet(Counted) /\ Cardinality(Counted) \in Nat
<1>1. Counted \subseteq Overlay
  BY DEF Alive, Counted
<1> QED
  BY <1>1, ComServerAssumption, FS_Subset, FS_CardinalityType

(* What is written or deleted first, and last.                             *)
LEMMA WrittenInOrder ==
  ASSUME NEW n \in 0 .. 7
  PROVE  /\ {Written[i] : i \in 1 .. n} \subseteq ClassEntries \cup ServerEntries \cup OverlayEntries
         /\ {Written[i] : i \in 1 .. 7} = ClassEntries \cup ServerEntries \cup OverlayEntries
         /\ "overlay class" \in {Written[i] : i \in 1 .. n} => n = 7
<1>1. /\ Written[1] = "class" /\ Written[2] = "description" /\ Written[3] = "server"
      /\ Written[4] = "path" /\ Written[5] = "threading" /\ Written[6] = "overlay"
      /\ Written[7] = "overlay class"
  BY DEF Written
<1>2. \A i \in 1 .. 7 : i = 1 \/ i = 2 \/ i = 3 \/ i = 4 \/ i = 5 \/ i = 6 \/ i = 7
  OBVIOUS
<1>3. \A i \in 1 .. 7 : Written[i] = "overlay class" => i = 7
  BY <1>1, <1>2
<1>4. \A i \in 1 .. 7 : Written[i] \in ClassEntries \cup ServerEntries \cup OverlayEntries
  BY <1>1, <1>2 DEF ClassEntries, ServerEntries, OverlayEntries
<1>5. \A x \in ClassEntries \cup ServerEntries \cup OverlayEntries : x \in {Written[i] : i \in 1 .. 7}
  <2> DEFINE W == {Written[i] : i \in 1 .. 7}
  <2>1. \A i \in 1 .. 7 : Written[i] \in W
    OBVIOUS
  <2>2. /\ Written[1] \in W /\ Written[2] \in W /\ Written[3] \in W /\ Written[4] \in W
        /\ Written[5] \in W /\ Written[6] \in W /\ Written[7] \in W
    BY <2>1
  <2> HIDE DEF W
  <2>3. ClassEntries \cup ServerEntries \cup OverlayEntries \subseteq W
    BY <1>1, <2>2 DEF ClassEntries, ServerEntries, OverlayEntries
  <2> QED
    BY <2>3 DEF W
<1>6. \A x \in {Written[i] : i \in 1 .. n} : \E i \in 1 .. n : x = Written[i]
  OBVIOUS
<1>7. \A i \in 1 .. n : i \in 1 .. 7
  OBVIOUS
<1>8. {Written[i] : i \in 1 .. 7} = ClassEntries \cup ServerEntries \cup OverlayEntries
  BY <1>4, <1>5
<1>9. {Written[i] : i \in 1 .. n} \subseteq ClassEntries \cup ServerEntries \cup OverlayEntries
  BY <1>4, <1>6, <1>7
<1>10. "overlay class" \in {Written[i] : i \in 1 .. n} => n = 7
  <2>0. 7 \in 1 .. n => n = 7
    OBVIOUS
  <2> SUFFICES ASSUME "overlay class" \in {Written[i] : i \in 1 .. n}
               PROVE  7 \in 1 .. n
    BY <2>0, Zenon
  <2>1. PICK i \in 1 .. n : Written[i] = "overlay class"
    BY <1>6
  <2>2. i = 7
    BY <1>3, <1>7, <2>1
  <2> QED
    BY <2>2
<1> QED
  BY <1>8, <1>9, <1>10

LEMMA DeletedInOrder ==
  ASSUME NEW n \in 0 .. 3
  PROVE  /\ n > 0 => OverlayEntries \subseteq UNION {Deleted[i] : i \in 1 .. n}
         /\ n = 3 => ClassEntries \cup ServerEntries \cup OverlayEntries
                       \subseteq UNION {Deleted[i] : i \in 1 .. n}
<1>1. Deleted[1] = OverlayEntries /\ Deleted[2] = ServerEntries /\ Deleted[3] = ClassEntries
  BY DEF Deleted
<1>2. n > 0 => 1 \in 1 .. n
  OBVIOUS
<1>3. n = 3 => 2 \in 1 .. n /\ 3 \in 1 .. n
  OBVIOUS
<1> QED
  BY <1>1, <1>2, <1>3

LEMMA ComInitEstablishesInv == ComInit => ComInv
<1> SUFFICES ASSUME ComInit
             PROVE  ComInv
  OBVIOUS
<1>1. Counted = {}
  BY DEF ComInit, Alive, Counted
<1>2. Cardinality(Counted) = 0
  BY <1>1, FS_EmptySet
<1> QED
  BY <1>2 DEF ComInit, ComInv, RegistrationIsWhole, ServerEntries

LEMMA ComStepKeepsInv == ComInv /\ [ComNext]_comVars => ComInv'
<1> SUFFICES ASSUME ComInv, [ComNext]_comVars
             PROVE  ComInv'
  OBVIOUS
<1> USE DEF ComInv
<1>r. UNCHANGED <<classes, registration>> =>
        RegistrationIsWhole' /\ (classes \subseteq ClassEntries \cup ServerEntries \cup OverlayEntries)'
  BY DEF RegistrationIsWhole
<1>f. IsFiniteSet(Counted) /\ Cardinality(Counted) \in Nat
  BY CountedAreFinite
<1>s. ASSUME UNCHANGED objectVars
      PROVE  Counted' = Counted /\ UNCHANGED <<m_refCount, dying, g_objectCount, g_lockCount>>
  BY <1>s DEF objectVars, Alive, Counted
<1>m. ASSUME NEW o \in Factory \cup Overlay, Make(o), UNCHANGED <<g_lockCount, classes, registration>>
      PROVE  ComInv'
  <2>1. /\ m_refCount[o] = 0 /\ o \notin dying
        /\ m_refCount' \in [Factory \cup Overlay -> Nat]
        /\ m_refCount'[o] \in {0, 1}
        /\ \A q \in Factory \cup Overlay : q # o => m_refCount'[q] = m_refCount[q]
    BY <1>m DEF Make
  <2>2. dying' = IF o \in Overlay /\ m_refCount'[o] = 0 THEN dying \cup {o} ELSE dying
    BY <1>m DEF Make
  <2>3. g_objectCount' = IF o \in Overlay THEN g_objectCount + 1 ELSE g_objectCount
    BY <1>m DEF Make
  <2>4. dying' \subseteq Overlay /\ \A q \in dying' : m_refCount'[q] = 0
    BY <2>1, <2>2
  <2>5. CASE o \in Overlay
    <3>1. Counted' = Counted \cup {o} /\ o \notin Counted
      BY <2>1, <2>2, <2>5 DEF Alive, Counted
    <3>2. Cardinality(Counted') = g_objectCount'
      BY <1>f, <2>3, <2>5, <3>1, FS_AddElement
    <3> QED
      BY <1>r, <1>m, <2>1, <2>4, <3>2
  <2>6. CASE o \notin Overlay
    <3>1. Counted' = Counted
      BY <2>1, <2>2, <2>6 DEF Alive, Counted
    <3> QED
      BY <1>r, <1>m, <2>1, <2>3, <2>4, <2>6, <3>1
  <2> QED
    BY <2>5, <2>6
<1>1. CASE DllGetClassObject
  BY <1>1, <1>m DEF DllGetClassObject
<1>2. CASE CreateInstance
  BY <1>2, <1>m DEF CreateInstance
<1>3. CASE AddRef
  <2>1. PICK o \in Alive(Factory \cup Overlay) : m_refCount' = [m_refCount EXCEPT ![o] = @ + 1]
    BY <1>3 DEF AddRef
  <2>2. o \in Factory \cup Overlay /\ m_refCount[o] \in Nat /\ m_refCount[o] > 0
    BY <2>1 DEF Alive
  <2>3. /\ m_refCount' \in [Factory \cup Overlay -> Nat] /\ m_refCount'[o] > 0
        /\ \A q \in Factory \cup Overlay : q # o => m_refCount'[q] = m_refCount[q]
    BY <2>1, <2>2
  <2>4. UNCHANGED <<dying, g_objectCount, g_lockCount, classes, registration>> /\ o \notin dying
    BY <1>3, <2>2 DEF AddRef
  <2>5. Counted' = Counted
    BY <2>2, <2>3, <2>4 DEF Alive, Counted
  <2>6. \A q \in dying' : m_refCount'[q] = 0
    BY <2>3, <2>4
  <2> QED
    BY <1>r, <2>3, <2>4, <2>5, <2>6
<1>4. CASE Release
  <2>1. PICK o \in Alive(Factory \cup Overlay) :
           /\ m_refCount' = [m_refCount EXCEPT ![o] = @ - 1]
           /\ dying' = IF o \in Overlay /\ m_refCount[o] = 1 THEN dying \cup {o} ELSE dying
    BY <1>4 DEF Release
  <2>2. o \in Factory \cup Overlay /\ m_refCount[o] \in Nat /\ m_refCount[o] > 0
    BY <2>1 DEF Alive
  <2>3. /\ m_refCount' \in [Factory \cup Overlay -> Nat] /\ m_refCount'[o] = m_refCount[o] - 1
        /\ \A q \in Factory \cup Overlay : q # o => m_refCount'[q] = m_refCount[q]
    BY <2>1, <2>2
  <2>4. UNCHANGED <<g_objectCount, g_lockCount, classes, registration>> /\ o \notin dying
    BY <1>4, <2>2 DEF Release
  <2>5. Counted' = Counted
    BY <2>1, <2>2, <2>3, <2>4 DEF Alive, Counted
  <2>6. dying' \subseteq Overlay /\ \A q \in dying' : m_refCount'[q] = 0
    BY <2>1, <2>3, <2>4
  <2> QED
    BY <1>r, <2>3, <2>4, <2>5, <2>6
<1>9. CASE Destroy
  <2>1. PICK o \in dying : dying' = dying \ {o}
    BY <1>9 DEF Destroy
  <2>2. /\ g_objectCount' = g_objectCount - 1
        /\ UNCHANGED <<m_refCount, g_lockCount, classes, registration>>
    BY <1>9 DEF Destroy
  <2>3. Counted' = Counted \ {o} /\ o \in Counted
    BY <2>1, <2>2 DEF Alive, Counted
  <2>4. Cardinality(Counted') = g_objectCount'
    BY <1>f, <2>2, <2>3, FS_RemoveElement
  <2> QED
    BY <1>r, <2>1, <2>2, <2>4
<1>5. CASE LockServer
  <2>1. Counted' = Counted /\ g_lockCount' \in Nat
    BY <1>5 DEF LockServer, Alive, Counted
  <2> QED
    BY <1>r, <1>5, <2>1 DEF LockServer
<1>6. CASE DllRegisterServer
  <2>1. PICK n \in 0 .. 7 :
           /\ classes' = classes \cup {Written[i] : i \in 1 .. n}
           /\ registration' = IF n = 7 THEN "registered" ELSE "registering failed"
    BY <1>6 DEF DllRegisterServer
  <2>2. RegistrationIsWhole' /\ classes' \subseteq ClassEntries \cup ServerEntries \cup OverlayEntries
    <3>1. CASE n = 7
      BY <2>1, <3>1, WrittenInOrder DEF RegistrationIsWhole, ClassEntries
    <3>2. CASE n # 7
      BY <2>1, <3>2, WrittenInOrder DEF RegistrationIsWhole
    <3> QED
      BY <3>1, <3>2
  <2>3. UNCHANGED objectVars
    BY <1>6 DEF DllRegisterServer
  <2> QED
    BY <1>s, <2>2, <2>3
<1>7. CASE DllUnregisterServer
  <2>1. PICK n \in 0 .. 3 :
           /\ classes' = classes \ UNION {Deleted[i] : i \in 1 .. n}
           /\ registration' = IF n = 3 THEN "unregistered" ELSE "unregistering failed"
    BY <1>7 DEF DllUnregisterServer
  <2>2. RegistrationIsWhole' /\ classes' \subseteq ClassEntries \cup ServerEntries \cup OverlayEntries
    <3>1. CASE n = 0
      <4>1. classes' = classes /\ registration' = "unregistering failed"
        <5>1. UNION {Deleted[i] : i \in 1 .. 0} = {}
          OBVIOUS
        <5>2. classes' = classes \ {}
          BY <2>1, <3>1, <5>1, Zenon
        <5>3. registration' = "unregistering failed"
          <6>1. n # 3
            BY <3>1
          <6> QED
            BY <2>1, <6>1, Zenon
        <5> QED
          BY <5>2, <5>3
      <4> QED
        BY <4>1 DEF RegistrationIsWhole
    <3>2. CASE n > 0
      <4>1. "overlay class" \notin classes' /\ (n = 3 => classes' = {})
        BY <2>1, <3>2, DeletedInOrder DEF OverlayEntries
      <4> QED
        BY <2>1, <4>1 DEF RegistrationIsWhole
    <3> QED
      BY <3>1, <3>2
  <2>3. UNCHANGED objectVars
    BY <1>7 DEF DllUnregisterServer
  <2>4. classes' \subseteq ClassEntries \cup ServerEntries \cup OverlayEntries
    BY <2>1
  <2> QED
    BY <1>s, <2>2, <2>3, <2>4
<1>8. CASE UNCHANGED comVars
  BY <1>r, <1>s, <1>8 DEF comVars
<1> QED
  BY <1>1, <1>2, <1>3, <1>4, <1>5, <1>6, <1>7, <1>8, <1>9 DEF ComNext

(* The inductive invariant, for any clients, objects and locks.            *)
THEOREM ComInvariant == ComSpec => []ComInv
BY ComInitEstablishesInv, ComStepKeepsInv, PTL DEF ComSpec

(* The module may be unloaded exactly when no overlay is alive or on the   *)
(* way to its destructor and nobody holds a lock: no failed QueryInterface *)
(* or late Release is miscounted (CreateInstance, AddRef, Release,         *)
(* DllCanUnloadNow).                                                       *)
THEOREM CountsStayExact == ComSpec => []CountsAreExact
<1>1. ComInv => CountsAreExact
  <2> SUFFICES ASSUME ComInv
               PROVE  CountsAreExact
    OBVIOUS
  <2>1. Cardinality(Counted) = 0 <=> Counted = {}
    BY CountedAreFinite, FS_EmptySet DEF ComInv
  <2> QED
    BY <2>1 DEF ComInv, CountsAreExact, DllCanUnloadNow, Counted
<1> QED
  BY <1>1, ComInvariant, PTL

(* In whatever order DllRegisterServer and DllUnregisterServer follow each *)
(* other, and wherever they fail, an overlay identifier in the registry    *)
(* names a class that can be loaded.                                       *)
THEOREM RegistrationStaysWhole == ComSpec => []RegistrationIsWhole
<1>1. ComInv => RegistrationIsWhole
  BY DEF ComInv
<1> QED
  BY <1>1, ComInvariant, PTL
=============================================================================
