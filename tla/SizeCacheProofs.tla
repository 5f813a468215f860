--------------------------- MODULE SizeCacheProofs ---------------------------
(***************************************************************************)
(* Lemmas about the operations of SizeCache, for every finite set of       *)
(* paths, every TTL and every pair of limits: what an operation does to    *)
(* the set of keys, that it keeps CacheTypeOK, and that it keeps           *)
(* CacheWithinLimits.                                                      *)
(***************************************************************************)
EXTENDS SizeCache, PathsProofs, FiniteSetTheorems, FunctionTheorems, TLAPS

(* The two normalisations agree on the paths, and on their keys.           *)
LEMMA PathsAreKept ==
  ASSUME NEW p \in Path
  PROVE  /\ RequestKey(p) = CacheKey(p)
         /\ CacheKey(CacheKey(p)) = CacheKey(p) /\ RequestKey(CacheKey(p)) = CacheKey(p)
BY SpellingAssumption, KeysAreKept

(* KeyOf takes a path to its key, and a key to itself.                     *)
LEMMA KeyOfPath ==
  /\ \A p \in Path : KeyOf[p] \in Key /\ KeyOf[p] = CacheKey(p)
  /\ \A k \in Key : KeyOf[k] = k
<1>1. \A p \in Path : KeyOf[p] \in Key /\ KeyOf[p] = CacheKey(p)
  BY DEF KeyOf, Key
<1>2. ASSUME NEW k \in Key
      PROVE  KeyOf[k] = k
  <2>1. PICK p \in Path : k = CacheKey(p)
    BY DEF Key
  <2>2. CacheKey(k) = k
    BY <2>1, PathsAreKept
  <2> QED
    BY <2>2 DEF KeyOf
<1> QED
  BY <1>1, <1>2

(* There are finitely many keys: CacheKey maps Path onto Key.              *)
LEMMA KeyFinite == IsFiniteSet(Key)
<1> DEFINE f == [p \in Path |-> CacheKey(p)]
<1>1. f \in Surjection(Path, Key)
  <2>1. f \in [Path -> Key]
    BY DEF Key
  <2>2. \A k \in Key : \E p \in Path : f[p] = k
    BY DEF Key
  <2> QED
    BY <2>1, <2>2, Fun_IsSurj
<1> QED
  BY <1>1, FS_Surjection, CacheAssumption

-----------------------------------------------------------------------------
(* What erasing keys leaves.                                               *)
LEMMA WithoutDef ==
  ASSUME NEW f, NEW K
  PROVE  /\ DOMAIN Without(f, K) = DOMAIN f \ K
         /\ \A k \in DOMAIN f \ K : Without(f, K)[k] = f[k]
BY DEF Without, Restrict

(* A cache is a function on keys, and hence has finitely many entries.     *)
LEMMA CacheFinite ==
  ASSUME NEW c, DOMAIN c \in SUBSET Key
  PROVE  /\ IsFiniteSet(DOMAIN c)
         /\ Cardinality(DOMAIN c) \in Nat
BY KeyFinite, FS_Subset, FS_CardinalityType

-----------------------------------------------------------------------------
(* evict_if_needed removes at least one entry whenever it removes any.     *)
LEMMA TenthPositive ==
  ASSUME NEW c, DOMAIN c \in SUBSET Key
  PROVE  Tenth(c) \in Nat \ {0}
BY CacheFinite DEF Tenth

LEMMA OldestRemovedShrinks ==
  ASSUME NEW c, DOMAIN c \in SUBSET Key, NEW n \in Nat, NEW d \in OldestRemoved(c, n)
  PROVE  /\ DOMAIN d \in SUBSET DOMAIN c
         /\ \A k \in DOMAIN d : d[k] = c[k]
         /\ Cardinality(DOMAIN d) = Cardinality(DOMAIN c) - n
<1>1. PICK U \in SUBSET DOMAIN c : d = Without(c, U) /\ Cardinality(U) = n
  BY DEF OldestRemoved
<1>2. DOMAIN d = DOMAIN c \ U /\ \A k \in DOMAIN d : d[k] = c[k]
  <2>1. d = [k \in DOMAIN c \ U |-> c[k]]
    BY <1>1 DEF Without, Restrict
  <2> QED
    BY <2>1
<1>3. Cardinality(DOMAIN c) = Cardinality(U) + Cardinality(DOMAIN d)
  <2>1. /\ IsFiniteSet(DOMAIN c) /\ IsFiniteSet(U) /\ IsFiniteSet(DOMAIN c \ U)
        /\ Cardinality(U) \in Nat /\ Cardinality(DOMAIN c \ U) \in Nat
    BY CacheFinite, FS_Subset, FS_CardinalityType
  <2>2. U \cup (DOMAIN c \ U) = DOMAIN c /\ U \cap (DOMAIN c \ U) = {}
    OBVIOUS
  <2>3. Cardinality(U \cup (DOMAIN c \ U))
          = Cardinality(U) + Cardinality(DOMAIN c \ U) - Cardinality(U \cap (DOMAIN c \ U))
    BY <2>1, FS_Union
  <2>4. /\ Cardinality(U \cup (DOMAIN c \ U)) = Cardinality(DOMAIN c)
        /\ Cardinality(U \cap (DOMAIN c \ U)) = 0
    BY <2>2, FS_EmptySet, Zenon
  <2>5. Cardinality(DOMAIN d) = Cardinality(DOMAIN c \ U)
    BY <1>2, Zenon
  <2> QED
    BY <2>1, <2>3, <2>4, <2>5
<1>4. Cardinality(DOMAIN d) \in Nat
  BY <1>2, CacheFinite
<1> QED
  BY <1>1, <1>2, <1>3, <1>4

(* Eviction keeps some of the entries and changes none of them.            *)
LEMMA EvictedKeeps ==
  ASSUME NEW c, DOMAIN c \in SUBSET Key, NEW d \in Evicted(c)
  PROVE  /\ DOMAIN d \in SUBSET DOMAIN c
         /\ \A k \in DOMAIN d : d[k] = c[k]
<1>1. PICK b : /\ b \in IF TooMany(c) THEN OldestRemoved(c, Tenth(c)) ELSE {c}
               /\ d \in IF TooBig(b) THEN OldestRemoved(b, Tenth(b)) ELSE {b}
  BY DEF Evicted
<1>2. DOMAIN b \in SUBSET DOMAIN c /\ \A k \in DOMAIN b : b[k] = c[k]
  BY <1>1, TenthPositive, OldestRemovedShrinks
<1>3. DOMAIN d \in SUBSET DOMAIN b /\ \A k \in DOMAIN d : d[k] = b[k]
  BY <1>1, <1>2, TenthPositive, OldestRemovedShrinks
<1> QED
  BY <1>2, <1>3

(* Fewer entries take no more memory.                                      *)
LEMMA FewerIsSmaller ==
  ASSUME NEW m \in Nat, NEW n \in Nat, m <= n, n * ENTRY_BYTES <= MAX_MEMORY_BYTES
  PROVE  m * ENTRY_BYTES <= MAX_MEMORY_BYTES
<1>1. n * ENTRY_BYTES = m * ENTRY_BYTES + (n - m) * ENTRY_BYTES
  BY CacheAssumption
<1>2. (n - m) * ENTRY_BYTES \in Nat /\ m * ENTRY_BYTES \in Nat
  BY CacheAssumption
<1> QED
  BY <1>1, <1>2, CacheAssumption

(* One entry too many is what a put can add, and eviction brings the cache *)
(* back within both limits.                                                *)
LEMMA EvictedWithinLimits ==
  ASSUME NEW c, DOMAIN c \in SUBSET Key, NEW n \in Nat,
         n <= MAX_ENTRIES, n * ENTRY_BYTES <= MAX_MEMORY_BYTES,
         Cardinality(DOMAIN c) <= n + 1,
         NEW d \in Evicted(c)
  PROVE  /\ Cardinality(DOMAIN d) <= MAX_ENTRIES
         /\ Cardinality(DOMAIN d) * ENTRY_BYTES <= MAX_MEMORY_BYTES
<1>1. PICK b : /\ b \in IF TooMany(c) THEN OldestRemoved(c, Tenth(c)) ELSE {c}
               /\ d \in IF TooBig(b) THEN OldestRemoved(b, Tenth(b)) ELSE {b}
  BY DEF Evicted
<1>2. /\ DOMAIN b \in SUBSET Key /\ DOMAIN d \in SUBSET Key
      /\ \/ b = c /\ ~TooMany(c)
         \/ Cardinality(DOMAIN b) = Cardinality(DOMAIN c) - Tenth(c)
      /\ \/ d = b /\ ~TooBig(b)
         \/ Cardinality(DOMAIN d) = Cardinality(DOMAIN b) - Tenth(b)
  <2>1. /\ DOMAIN b \in SUBSET Key
        /\ \/ b = c /\ ~TooMany(c)
           \/ Cardinality(DOMAIN b) = Cardinality(DOMAIN c) - Tenth(c)
    BY <1>1, TenthPositive, OldestRemovedShrinks
  <2> QED
    BY <1>1, <2>1, TenthPositive, OldestRemovedShrinks
<1>3. /\ Cardinality(DOMAIN c) \in Nat /\ Cardinality(DOMAIN b) \in Nat
      /\ Cardinality(DOMAIN d) \in Nat
      /\ Tenth(c) \in Nat \ {0} /\ Tenth(b) \in Nat \ {0}
  BY <1>2, CacheFinite, TenthPositive
<1>4. CASE b = c /\ ~TooMany(c) /\ d = b /\ ~TooBig(b)
  <2>1. ~(Cardinality(DOMAIN d) > MAX_ENTRIES)
    BY <1>4 DEF TooMany
  <2>2. ~(Cardinality(DOMAIN d) * ENTRY_BYTES > MAX_MEMORY_BYTES)
    BY <1>4 DEF TooBig
  <2>3. Cardinality(DOMAIN d) * ENTRY_BYTES \in Nat
    BY <1>3, CacheAssumption
  <2> QED
    BY <1>3, <2>1, <2>2, <2>3, CacheAssumption
<1>5. CASE ~(b = c /\ ~TooMany(c) /\ d = b /\ ~TooBig(b))
  <2>1. Cardinality(DOMAIN d) <= n
    BY <1>2, <1>3, <1>5
  <2> QED
    BY <2>1, <1>3, FewerIsSmaller, CacheAssumption
<1> QED
  BY <1>4, <1>5

-----------------------------------------------------------------------------
(* What the operations do to the set of keys, and that they keep           *)
(* CacheTypeOK.                                                            *)
LEMMA GetKeepsType ==
  ASSUME CacheTypeOK, NEW p \in Path \cup Key, Get(p)
  PROVE  CacheTypeOK' /\ DOMAIN m_cache' \in SUBSET DOMAIN m_cache
<1> DEFINE k == KeyOf[p]
<1>1. CASE Fresh(k)
  <2>1. m_cache' = [m_cache EXCEPT ![k].idle = 0]
    BY <1>1 DEF Get
  <2>2. DOMAIN m_cache' = DOMAIN m_cache
    BY <2>1
  <2>3. ASSUME NEW q \in DOMAIN m_cache
        PROVE  m_cache'[q] \in Entry /\ m_cache'[q].idle <= m_cache'[q].age
    <3>1. m_cache[q] \in Entry /\ m_cache[q].idle <= m_cache[q].age
      BY DEF CacheTypeOK
    <3>2. CASE q = k
      <4>1. m_cache'[q] = [m_cache[q] EXCEPT !.idle = 0]
        BY <2>1, <3>2
      <4> QED
        BY <3>1, <4>1, CacheAssumption DEF Entry, Age
    <3>3. CASE q # k
      <4>1. m_cache'[q] = m_cache[q]
        BY <2>1, <3>3
      <4> QED
        BY <3>1, <4>1
    <3> QED
      BY <3>2, <3>3
  <2> QED
    BY <2>2, <2>3 DEF CacheTypeOK
<1>2. CASE ~Fresh(k)
  <2>1. m_cache' = [q \in DOMAIN m_cache \ {k} |-> m_cache[q]]
    BY <1>2 DEF Get, Without, Restrict
  <2> QED
    BY <2>1 DEF CacheTypeOK
<1> QED
  BY <1>1, <1>2

LEMMA PutKeepsType ==
  ASSUME CacheTypeOK, NEW p \in Path \cup Key, NEW s \in Size, Put(p, s)
  PROVE  CacheTypeOK'
<1> DEFINE k == KeyOf[p]
           e == [size |-> s, age |-> 0, idle |-> 0]
           c == [x \in DOMAIN m_cache \cup {k} |-> IF x = k THEN e ELSE m_cache[x]]
<1>1. DOMAIN c \in SUBSET Key
  BY KeyOfPath DEF CacheTypeOK
<1>2. \A x \in DOMAIN c : c[x] \in Entry /\ c[x].idle <= c[x].age
  <2>1. e \in Entry /\ e.idle <= e.age
    BY CacheAssumption DEF Entry, Age
  <2> QED
    BY <2>1 DEF CacheTypeOK
<1>3. m_cache' \in Evicted(c)
  BY DEF Put
<1> HIDE DEF c
<1>4. DOMAIN m_cache' \in SUBSET DOMAIN c /\ \A x \in DOMAIN m_cache' : m_cache'[x] = c[x]
  BY <1>1, <1>3, EvictedKeeps
<1> QED
  BY <1>1, <1>2, <1>4 DEF CacheTypeOK

LEMMA InvalidateKeepsType ==
  ASSUME CacheTypeOK, NEW p \in Path \cup Key, Invalidate(p)
  PROVE  CacheTypeOK' /\ DOMAIN m_cache' \in SUBSET DOMAIN m_cache
<1>1. m_cache' = [q \in DOMAIN m_cache \ {KeyOf[p]} |-> m_cache[q]]
  BY DEF Invalidate, Without, Restrict
<1> QED
  BY <1>1 DEF CacheTypeOK

LEMMA TickKeepsType ==
  ASSUME CacheTypeOK, CacheTick
  PROVE  CacheTypeOK' /\ DOMAIN m_cache' \in SUBSET DOMAIN m_cache
<1>1. DOMAIN m_cache' = DOMAIN m_cache
  BY DEF CacheTick
<1>2. ASSUME NEW k \in DOMAIN m_cache
      PROVE  m_cache'[k] \in Entry /\ m_cache'[k].idle <= m_cache'[k].age
  <2>1. m_cache[k] \in Entry /\ m_cache[k].idle <= m_cache[k].age
    BY DEF CacheTypeOK
  <2>2. m_cache'[k] = [size |-> m_cache[k].size,
                       age  |-> Older(m_cache[k].age),
                       idle |-> Older(m_cache[k].idle)]
    BY DEF CacheTick
  <2> QED
    BY <2>1, <2>2, CacheAssumption DEF Entry, Age, Older
<1> QED
  BY <1>1, <1>2 DEF CacheTypeOK

(* Erasing keeps the cache within its limits, and a put does because it    *)
(* evicts.                                                                 *)
LEMMA FewerEntriesKeepLimits ==
  ASSUME CacheTypeOK, CacheWithinLimits, DOMAIN m_cache' \in SUBSET DOMAIN m_cache
  PROVE  CacheWithinLimits'
<1>1. /\ Cardinality(DOMAIN m_cache) \in Nat /\ Cardinality(DOMAIN m_cache') \in Nat
      /\ Cardinality(DOMAIN m_cache') <= Cardinality(DOMAIN m_cache)
  BY CacheFinite, FS_Subset, FS_CardinalityType DEF CacheTypeOK
<1> QED
  BY <1>1, FewerIsSmaller, CacheAssumption DEF CacheWithinLimits

LEMMA PutKeepsLimits ==
  ASSUME CacheTypeOK, CacheWithinLimits, NEW p \in Path \cup Key, NEW s \in Size, Put(p, s)
  PROVE  CacheWithinLimits'
<1> DEFINE k == KeyOf[p]
           c == [x \in DOMAIN m_cache \cup {k} |->
                   IF x = k THEN [size |-> s, age |-> 0, idle |-> 0] ELSE m_cache[x]]
           n == Cardinality(DOMAIN m_cache)
<1>1. DOMAIN c \in SUBSET Key
  BY KeyOfPath DEF CacheTypeOK
<1>2. n \in Nat /\ n <= MAX_ENTRIES /\ n * ENTRY_BYTES <= MAX_MEMORY_BYTES
  BY CacheFinite DEF CacheTypeOK, CacheWithinLimits
<1>3. Cardinality(DOMAIN c) <= n + 1
  <2>1. IsFiniteSet(DOMAIN m_cache)
    BY CacheFinite DEF CacheTypeOK
  <2>2. DOMAIN c = DOMAIN m_cache \cup {k}
    OBVIOUS
  <2>3. Cardinality(DOMAIN m_cache \cup {k}) = IF k \in DOMAIN m_cache THEN n ELSE n + 1
    BY <2>1, FS_AddElement
  <2>4. Cardinality(DOMAIN c) = Cardinality(DOMAIN m_cache \cup {k})
    BY <2>2, Zenon
  <2> QED
    BY <1>2, <2>3, <2>4
<1>4. m_cache' \in Evicted(c)
  BY DEF Put
<1> HIDE DEF c, n
<1> QED
  BY <1>1, <1>2, <1>3, <1>4, EvictedWithinLimits DEF CacheWithinLimits
=============================================================================
