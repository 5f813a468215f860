----------------------------- MODULE SizeCache -----------------------------
(***************************************************************************)
(* fs::SizeCache (size_cache.h, size_cache.cpp): a map from normalised path to *)
(* the size of a completed scan.  One action per public operation; each    *)
(* holds m_mutex from its first statement to its last, so each is one      *)
(* step, eviction included.                                                *)
(*                                                                         *)
(* A steady_clock time_point is kept as its distance from now: "age" is    *)
(* now - timestamp and "idle" is now - last_access.  Both stop growing     *)
(* one unit above TTL, the only duration they are compared with.           *)
(***************************************************************************)
EXTENDS Paths, Integers, FiniteSets, Functions

CONSTANTS
  Path,              \* the paths callers pass, as they spell them
  Size,              \* what a scan can find
  TTL,               \* time units in which an entry may be served
  MAX_ENTRIES,       \* entries above which a put evicts
  MAX_MEMORY_BYTES,  \* estimated bytes above which a put evicts
  ENTRY_BYTES,       \* estimated bytes of an entry: 200 + sizeof + 64
  NoSize             \* std::nullopt

VARIABLE m_cache

Key == {CacheKey(p) : p \in Path}

(* normalize_path, tabulated over what is ever passed to it.               *)
KeyOf == [p \in Path \cup Key |-> CacheKey(p)]

Age == 0 .. TTL + 1
Entry == [size : Size, age : Age, idle : Age]

ASSUME CacheAssumption ==
  /\ IsFiniteSet(Path)
  /\ TTL \in Nat
  /\ MAX_ENTRIES \in Nat
  /\ MAX_MEMORY_BYTES \in Nat
  /\ ENTRY_BYTES \in Nat \ {0}
  /\ NoSize \notin Size

(* The shell spells no path that is more than a root and ends in two       *)
(* separators, of which the normalisations would drop one.                 *)
ASSUME SpellingAssumption ==
  \A p \in Path : /\ p \in Seq(Token)
                  /\ LongerThanRoot(p) /\ IsSep(p[Len(p)]) => ~IsSep(p[Len(p) - 1])

(* f without the keys in K (unordered_map::erase).                         *)
Without(f, K) == Restrict(f, DOMAIN f \ K)

-----------------------------------------------------------------------------
CacheInit == m_cache = <<>>

FreshForEver(k) == k \in DOMAIN m_cache

Fresh(k) == k \in DOMAIN m_cache /\ m_cache[k].age <= TTL

(* What get returns for a key, in the state it is called in.               *)
Hit(k) == IF Fresh(k) THEN m_cache[k].size ELSE NoSize

(* get: a hit is touched, an expired entry is erased.                      *)
GetTouchingTimestamp(p) ==
  LET k == KeyOf[p]
  IN  m_cache' = IF Fresh(k) THEN [m_cache EXCEPT ![k].age = 0]
                 ELSE Without(m_cache, {k})

Get(p) ==
  LET k == KeyOf[p]
  IN  m_cache' = IF Fresh(k) THEN [m_cache EXCEPT ![k].idle = 0]
                 ELSE Without(m_cache, {k})

(* The n entries sorted first by last_access go.  std::sort leaves the     *)
(* order of equal time_points open, hence a set of outcomes.               *)
NewestRemoved(c, n) ==
  {Without(c, V) : V \in {U \in SUBSET DOMAIN c :
     /\ Cardinality(U) = n
     /\ \A u \in U, k \in DOMAIN c \ U : c[u].idle <= c[k].idle}}

OldestRemoved(c, n) ==
  {Without(c, V) : V \in {U \in SUBSET DOMAIN c :
     /\ Cardinality(U) = n
     /\ \A u \in U, k \in DOMAIN c \ U : c[u].idle >= c[k].idle}}

(* A tenth of the entries, at least one.                                   *)
BareTenth(c) == Cardinality(DOMAIN c) \div 10

Tenth(c) == IF Cardinality(DOMAIN c) < 10 THEN 1 ELSE Cardinality(DOMAIN c) \div 10

TooMany(c) == Cardinality(DOMAIN c) > MAX_ENTRIES
TooBig(c)  == Cardinality(DOMAIN c) * ENTRY_BYTES > MAX_MEMORY_BYTES

(* evict_if_needed, called with the lock held: by count, then by memory.   *)
Evicted(c) ==
  LET ByCount   == IF TooMany(c) THEN OldestRemoved(c, Tenth(c)) ELSE {c}
      ByMemory(d) == IF TooBig(d) THEN OldestRemoved(d, Tenth(d)) ELSE {d}
  IN  UNION {ByMemory(d) : d \in ByCount}

(* put: insert or overwrite, then evict under the same lock.               *)
Put(p, s) ==
  LET k == KeyOf[p]
      e == [size |-> s, age |-> 0, idle |-> 0]
  IN  m_cache' \in Evicted([x \in DOMAIN m_cache \cup {k} |->
                              IF x = k THEN e ELSE m_cache[x]])

InvalidateAsSpelled(p) == m_cache' = Without(m_cache, {p})

Invalidate(p) == m_cache' = Without(m_cache, {KeyOf[p]})

Clear == m_cache' = <<>>

Older(a) == IF a > TTL THEN a ELSE a + 1

CacheTick ==
  m_cache' = [k \in DOMAIN m_cache |->
                [size |-> m_cache[k].size,
                 age  |-> Older(m_cache[k].age),
                 idle |-> Older(m_cache[k].idle)]]

-----------------------------------------------------------------------------
(* Every entry is filed under a normalised path and was last accessed no   *)
(* earlier than it was written (get touches last_access only).             *)
CacheTypeOK ==
  /\ DOMAIN m_cache \in SUBSET Key
  /\ \A k \in DOMAIN m_cache : /\ m_cache[k] \in Entry
                               /\ m_cache[k].idle <= m_cache[k].age

(* Whatever is put, the cache ends every operation within both limits: a   *)
(* put adds at most one entry and an eviction removes at least one.        *)
CacheWithinLimits ==
  /\ Cardinality(DOMAIN m_cache) <= MAX_ENTRIES
  /\ Cardinality(DOMAIN m_cache) * ENTRY_BYTES <= MAX_MEMORY_BYTES
=============================================================================
