---------------------------- MODULE PathsProofs -----------------------------
(***************************************************************************)
(* The three normalisations of a path agree, for every spelling the shell  *)
(* may use: SizeCache::normalize_path, the request key of                  *)
(* SizeResolver::queue_background_resolution, and the walk of              *)
(* invalidate_path_and_ancestors.  Where the code loops over a path, the   *)
(* proof is by induction over its length, on sets of naturals.             *)
(***************************************************************************)
EXTENDS FolderNames, Functions, Integers, NaturalsInduction, WellFoundedInduction,
        SequenceTheorems, TLAPS

(* A set of naturals has a least one, and induction, on a set.             *)
LEMMA LeastNatural ==
  ASSUME NEW S \in SUBSET Nat, S # {}
  PROVE  \E n \in S : \A m \in S : n <= m
<1> DEFINE R == {ss \in Nat \X Nat : ss[1] < ss[2]}
<1>1. IsWellFoundedOn(R, Nat)
  BY NatLessThanWellFounded DEF OpToRel
<1>2. \E x \in S : \A y \in S : ~(<<y, x>> \in R)
  <2> HIDE DEF R
  <2> QED BY <1>1, WFMin
<1>3. PICK x \in S : \A y \in S : ~(<<y, x>> \in R)
  BY <1>2
<1>4. \A y \in S : ~(y < x)
  <2> SUFFICES ASSUME NEW y \in S, y < x PROVE FALSE
    OBVIOUS
  <2>1. <<y, x>> \in Nat \X Nat /\ <<y, x>>[1] < <<y, x>>[2]
    OBVIOUS
  <2> QED BY <2>1, <1>3
<1> QED BY <1>4

LEMMA NatInductionOnSets ==
  ASSUME NEW S, 0 \in S, \A n \in Nat : n \in S => n + 1 \in S
  PROVE  Nat \subseteq S
<1> SUFFICES ASSUME Nat \ S # {} PROVE FALSE
  OBVIOUS
<1>1. PICK n \in Nat \ S : \A m \in Nat \ S : n <= m
  BY LeastNatural
<1> QED BY <1>1

(* A function on 0 .. N may be defined by recursion, from f[0] and from    *)
(* what g makes of f[n - 1].                                               *)
LEMMA RecursiveFunctionExists ==
  ASSUME NEW T, NEW z \in T, NEW N \in Nat, NEW g \in [1 .. N -> [T -> T]]
  PROVE  \E f \in [0 .. N -> T] : f[0] = z /\ \A n \in 1 .. N : f[n] = g[n][f[n - 1]]
<1> DEFINE Good(f, m) == /\ f \in [0 .. m -> T] /\ f[0] = z
                         /\ \A n \in 1 .. m : f[n] = g[n][f[n - 1]]
           S == {m \in Nat : m <= N => \E f : Good(f, m)}
<1>1. 0 \in S
  <2>1. Good([i \in 0 .. 0 |-> z], 0)
    OBVIOUS
  <2> QED
    BY <2>1
<1>2. ASSUME NEW m \in Nat, m \in S
      PROVE  m + 1 \in S
  <2> SUFFICES ASSUME m + 1 <= N PROVE \E f : Good(f, m + 1)
    OBVIOUS
  <2>1. PICK f : Good(f, m)
    BY <1>2
  <2> DEFINE h == [i \in 0 .. m + 1 |-> IF i = m + 1 THEN g[m + 1][f[m]] ELSE f[i]]
  <2>2. m + 1 \in 1 .. N /\ f[m] \in T /\ g[m + 1] \in [T -> T] /\ g[m + 1][f[m]] \in T
    BY <2>1
  <2>3. /\ h \in [0 .. m + 1 -> T] /\ h[0] = z
        /\ h[m + 1] = g[m + 1][f[m]] /\ \A i \in 0 .. m : h[i] = f[i]
    BY <2>1, <2>2
  <2> HIDE DEF h
  <2>4. ASSUME NEW n \in 1 .. m + 1
        PROVE  h[n] = g[n][h[n - 1]]
    <3>1. CASE n = m + 1
      BY <2>3, <3>1
    <3>2. CASE n # m + 1
      <4>1. n \in 1 .. m /\ n \in 0 .. m /\ n - 1 \in 0 .. m
        BY <3>2
      <4> QED
        BY <2>1, <2>3, <4>1
    <3> QED
      BY <3>1, <3>2
  <2> QED
    BY <2>3, <2>4
<1> HIDE DEF S
<1>3. \A m \in Nat : m \in S => m + 1 \in S
  BY <1>2
<1>4. N \in S
  BY <1>1, <1>3, NatInductionOnSets
<1> QED
  BY <1>4 DEF S

(* A slice of a sequence, item by item.                                    *)
LEMMA SliceIs ==
  ASSUME NEW T, NEW v \in Seq(T), NEW m \in Nat \ {0}, NEW n \in 0 .. Len(v), m <= n + 1
  PROVE  /\ SubSeq(v, m, n) \in Seq(T)
         /\ Len(SubSeq(v, m, n)) = n - m + 1
         /\ \A i \in 1 .. n - m + 1 : SubSeq(v, m, n)[i] = v[m + i - 1]
<1>1. \A i \in m .. n : v[i] \in T
  OBVIOUS
<1>2. m \in Int /\ n \in Int
  OBVIOUS
<1> QED
  BY <1>1, <1>2, SubSeqProperties

-----------------------------------------------------------------------------
LEMMA TokensDiffer ==
  /\ Sep # AltSep
  /\ Sep \notin Drive /\ Sep \notin Name /\ AltSep \notin Drive /\ AltSep \notin Name
  /\ \A d \in Drive : d \notin Name
BY TokenAssumption DEF Sep, AltSep

-----------------------------------------------------------------------------
(* One pass or two, every token is spelled the same.                       *)
Spelling(p) == [i \in DOMAIN p |-> IF p[i] = AltSep THEN Sep ELSE LowerToken(p[i])]

Respelled(s) == IF LongerThanRoot(s) /\ EndsInSep(s) THEN Chop(s) ELSE s

LEMMA LowerTokenFacts ==
  ASSUME NEW t \in Token
  PROVE  /\ LowerToken(t) \in Token
         /\ LowerToken(t) = AltSep <=> t = AltSep
         /\ t \in Drive \cup Name => LowerToken(t) = Lower[t]
         /\ t = Sep => LowerToken(t) = Sep
         /\ LowerToken(LowerToken(t)) = LowerToken(t)
<1>1. DOMAIN Lower = Drive \cup Name /\ \A x \in Drive \cup Name : Lower[x] \in Drive \cup Name
  BY LowerAssumption
<1>2. CASE t \in Drive \cup Name
  <2>1. LowerToken(t) = Lower[t] /\ Lower[t] \in Drive \cup Name /\ t # AltSep /\ t # Sep
    BY <1>1, <1>2, TokensDiffer DEF LowerToken
  <2>2. Lower[t] # AltSep
    BY <2>1, TokensDiffer
  <2>3. LowerToken(Lower[t]) = Lower[t]
    BY <1>1, <1>2, <2>1, LowerAssumption DEF LowerToken
  <2> QED
    BY <2>1, <2>2, <2>3 DEF Token
<1>3. CASE t \in {Sep, AltSep}
  <2>1. LowerToken(t) = t
    BY <1>1, <1>3, TokensDiffer DEF LowerToken
  <2> QED
    BY <1>3, <2>1, TokensDiffer
<1> QED
  BY <1>2, <1>3 DEF Token

LEMMA SpellingFacts ==
  ASSUME NEW p \in Seq(Token)
  PROVE  /\ Spelling(p) \in Seq(Token) /\ Len(Spelling(p)) = Len(p)
         /\ \A i \in 1 .. Len(p) :
              Spelling(p)[i] = IF p[i] = AltSep THEN Sep ELSE LowerToken(p[i])
<1>1. \A i \in 1 .. Len(p) : (IF p[i] = AltSep THEN Sep ELSE LowerToken(p[i])) \in Token
  <2> TAKE i \in 1 .. Len(p)
  <2>1. p[i] \in Token
    OBVIOUS
  <2> QED
    BY <2>1, LowerTokenFacts DEF Token
<1>2. DOMAIN p = 1 .. Len(p) /\ Len(p) \in Nat
  OBVIOUS
<1>3. Spelling(p) \in [1 .. Len(p) -> Token]
  BY <1>1, <1>2 DEF Spelling
<1> QED
  BY <1>2, <1>3 DEF Spelling

LEMMA KeysAreRespelled ==
  ASSUME NEW p \in Seq(Token)
  PROVE  /\ RequestKey(p) = Respelled(Spelling(p))
         /\ CacheKey(p) = Respelled(Spelling(p))
<1> DEFINE lowered == [i \in DOMAIN p |-> LowerToken(p[i])]
           swapped == [i \in DOMAIN p |-> IF lowered[i] = AltSep THEN Sep ELSE lowered[i]]
<1>1. RequestKey(p) = Respelled(Spelling(p))
  BY DEF RequestKey, Respelled, Spelling
<1>2. swapped = Spelling(p)
  <2>1. \A i \in DOMAIN p : LowerToken(p[i]) = AltSep <=> p[i] = AltSep
    BY LowerTokenFacts
  <2> QED
    BY <2>1 DEF Spelling
<1>3. CacheKey(p) = Respelled(swapped)
  BY DEF CacheKey, Respelled
<1> HIDE DEF swapped
<1> QED
  BY <1>1, <1>2, <1>3

(* The spelling of a path keeps its shape, and is its own spelling.        *)
LEMMA SpellingOfShape ==
  ASSUME NEW p, DriveShape(p) \/ ServerShape(p)
  PROVE  /\ DriveShape(p) => DriveShape(Spelling(p))
         /\ ServerShape(p) => ServerShape(Spelling(p))
         /\ HasDrive(p) <=> DriveShape(p)
         /\ AltSep \notin {Spelling(p)[i] : i \in 1 .. Len(p)}
         /\ \A i \in 1 .. Len(p) : /\ p[i] \in {Sep, AltSep} => Spelling(p)[i] = Sep
                                   /\ p[i] \notin {Sep, AltSep} => Spelling(p)[i] = Lower[p[i]]
<1> DEFINE s == Spelling(p)
<1>1. p \in Seq(Token) /\ Len(p) \in Nat /\ Len(p) >= 2
  BY DEF DriveShape, ServerShape
<1>2. /\ s \in Seq(Token) /\ Len(s) = Len(p)
      /\ \A i \in 1 .. Len(p) : s[i] = IF p[i] = AltSep THEN Sep ELSE LowerToken(p[i])
  BY <1>1, SpellingFacts
<1> HIDE DEF s
<1>3. ASSUME NEW i \in 1 .. Len(p)
      PROVE  /\ p[i] \in {Sep, AltSep} => s[i] = Sep
             /\ p[i] \notin {Sep, AltSep} => s[i] = Lower[p[i]]
             /\ p[i] \in Drive => s[i] \in Drive
             /\ p[i] \in Name => s[i] \in Name
             /\ s[i] # AltSep
  <2>1. p[i] \in Token
    BY <1>1
  <2>2. s[i] = IF p[i] = AltSep THEN Sep ELSE LowerToken(p[i])
    BY <1>2
  <2>3. p[i] \in {Sep, AltSep} => s[i] = Sep
    BY <2>1, <2>2, LowerTokenFacts
  <2>4. p[i] \notin {Sep, AltSep} => s[i] = Lower[p[i]] /\ p[i] \in Drive \cup Name
    BY <2>1, <2>2, LowerTokenFacts DEF Token
  <2>5. p[i] \in Drive \cup Name => p[i] \notin {Sep, AltSep}
    BY TokensDiffer
  <2> QED
    BY <2>3, <2>4, <2>5, LowerAssumption, TokensDiffer
<1>4. ASSUME DriveShape(p)
      PROVE  DriveShape(s)
  <2>1. s[1] \in Drive
    BY <1>1, <1>3, <1>4 DEF DriveShape
  <2>2. ASSUME NEW i \in 2 .. Len(p)
        PROVE  IF i % 2 = 1 THEN s[i] \in Name ELSE s[i] \in {Sep, AltSep}
    <3>1. i \in 1 .. Len(p)
      BY <1>1
    <3>2. IF i % 2 = 1 THEN p[i] \in Name ELSE p[i] \in {Sep, AltSep}
      BY <1>4 DEF DriveShape
    <3> QED
      BY <1>3, <3>1, <3>2
  <2> QED
    BY <1>1, <1>2, <2>1, <2>2 DEF DriveShape
<1>5. ASSUME ServerShape(p)
      PROVE  ServerShape(s)
  <2>1. s[1] = Sep /\ s[2] = Sep
    BY <1>1, <1>3, <1>5 DEF ServerShape
  <2>2. ASSUME NEW i \in 3 .. Len(p)
        PROVE  IF i % 2 = 1 THEN s[i] \in Name ELSE s[i] \in {Sep, AltSep}
    <3>1. i \in 1 .. Len(p)
      BY <1>1
    <3>2. IF i % 2 = 1 THEN p[i] \in Name ELSE p[i] \in {Sep, AltSep}
      BY <1>5 DEF ServerShape
    <3> QED
      BY <1>3, <3>1, <3>2
  <2>3. Len(p) >= 3
    BY <1>5 DEF ServerShape
  <2> QED
    BY <1>2, <2>1, <2>2, <2>3 DEF ServerShape
<1>6. HasDrive(p) <=> DriveShape(p)
  <2>1. p # <<>>
    BY <1>1
  <2>2. DriveShape(p) => p[1] \in Drive
    BY DEF DriveShape
  <2>3. ServerShape(p) => p[1] \notin Drive
    BY TokensDiffer DEF ServerShape
  <2> QED
    BY <2>1, <2>2, <2>3 DEF HasDrive
<1> QED
  BY <1>3, <1>4, <1>5, <1>6 DEF s

(* Cut behind the root or behind a name, a path keeps its shape.           *)
LEMMA CutKeepsShape ==
  ASSUME NEW p, DriveShape(p) \/ ServerShape(p), NEW n \in 2 .. Len(p)
  PROVE  /\ DriveShape(p) => DriveShape(SubSeq(p, 1, n))
         /\ ServerShape(p) /\ n >= 3 => ServerShape(SubSeq(p, 1, n))
         /\ Len(SubSeq(p, 1, n)) = n /\ \A i \in 1 .. n : SubSeq(p, 1, n)[i] = p[i]
<1> DEFINE q == SubSeq(p, 1, n)
<1>1. p \in Seq(Token) /\ Len(p) \in Nat
  BY DEF DriveShape, ServerShape
<1>2. q \in Seq(Token) /\ Len(q) = n /\ \A i \in 1 .. n : q[i] = p[i]
  BY <1>1, SliceIs
<1> HIDE DEF q
<1>3. DriveShape(p) => DriveShape(q)
  BY <1>1, <1>2 DEF DriveShape
<1>4. ServerShape(p) /\ n >= 3 => ServerShape(q)
  BY <1>1, <1>2 DEF ServerShape
<1> QED
  BY <1>2, <1>3, <1>4 DEF q

(* The length of the key of a path that is spelled s.                      *)
KeyLength(s) == IF LongerThanRoot(s) /\ EndsInSep(s) THEN Len(s) - 1 ELSE Len(s)

LEMMA EvenIsTwoOrMore == \A n \in Nat : n >= 2 /\ n % 2 # 1 /\ n # 2 => n >= 4
<1> SUFFICES ASSUME NEW n \in Nat, n >= 2, n % 2 # 1, n # 2, n # 3 PROVE n >= 4
  <2>1. 3 % 2 = 1
    OBVIOUS
  <2> QED
    BY <2>1
<1> QED
  OBVIOUS

LEMMA OddBeforeEven == \A n \in Nat : n >= 1 /\ n % 2 # 1 => (n - 1) % 2 = 1
OBVIOUS

LEMMA RespelledShape ==
  ASSUME NEW s, DriveShape(s) \/ ServerShape(s), AltSep \notin {s[i] : i \in 1 .. Len(s)}
  PROVE  /\ KeyLength(s) \in 2 .. Len(s)
         /\ ServerShape(s) => KeyLength(s) >= 3
         /\ Respelled(s) = SubSeq(s, 1, KeyLength(s))
         /\ KeyLength(s) = 2 \/ KeyLength(s) % 2 = 1
         /\ KeyLength(s) = IF Len(s) > 2 /\ Len(s) % 2 # 1 THEN Len(s) - 1 ELSE Len(s)
<1> DEFINE n == KeyLength(s)
<1>1. s \in Seq(Token) /\ Len(s) \in Nat /\ Len(s) >= 2 /\ s # <<>>
  BY DEF DriveShape, ServerShape
<1>2. HasDrive(s) <=> DriveShape(s)
  BY SpellingOfShape
<1>3. EndsInSep(s) /\ LongerThanRoot(s) => Len(s) % 2 # 1
  <2> SUFFICES ASSUME Len(s) % 2 = 1, EndsInSep(s) PROVE FALSE
    OBVIOUS
  <2>1. Len(s) >= 3
    BY <1>1
  <2>2. s[Len(s)] \in Name
    BY <1>1, <2>1 DEF DriveShape, ServerShape
  <2> QED
    BY <2>2, TokensDiffer DEF EndsInSep
<1>4. Len(s) % 2 # 1 /\ ~(EndsInSep(s) /\ LongerThanRoot(s)) => Len(s) = 2
  <2> SUFFICES ASSUME Len(s) % 2 # 1, Len(s) # 2 PROVE EndsInSep(s) /\ LongerThanRoot(s)
    OBVIOUS
  <2>1. Len(s) >= 4
    BY <1>1, EvenIsTwoOrMore
  <2>2. s[Len(s)] \in {Sep, AltSep}
    BY <1>1, <2>1 DEF DriveShape, ServerShape
  <2>3. s[Len(s)] = Sep
    BY <1>1, <2>1, <2>2
  <2> QED
    BY <1>1, <2>1, <2>3 DEF EndsInSep, LongerThanRoot
<1>5. CASE LongerThanRoot(s) /\ EndsInSep(s)
  <2>1. n = Len(s) - 1 /\ Respelled(s) = SubSeq(s, 1, n)
    BY <1>5 DEF Respelled, Chop, KeyLength
  <2>2. Len(s) >= 3 /\ (ServerShape(s) => Len(s) >= 4)
    <3>1. ServerShape(s) => ~HasDrive(s)
      BY TokensDiffer DEF ServerShape, HasDrive
    <3> QED
      BY <1>1, <1>5, <3>1 DEF LongerThanRoot
  <2> HIDE DEF n
  <2>3. Len(s) % 2 # 1 /\ Len(s) >= 4
    BY <1>1, <1>3, <1>5, <2>2, EvenIsTwoOrMore
  <2>4. n % 2 = 1
    BY <1>1, <2>1, <2>3, OddBeforeEven
  <2>5. n >= 3 /\ n \in 2 .. Len(s)
    BY <1>1, <2>1, <2>3
  <2> QED
    BY <2>1, <2>3, <2>4, <2>5 DEF n
<1>6. CASE ~(LongerThanRoot(s) /\ EndsInSep(s))
  <2>1. n = Len(s) /\ Respelled(s) = s
    BY <1>6 DEF Respelled, KeyLength
  <2>2. SubSeq(s, 1, n) = s
    BY <1>1, <2>1, SubSeqFull
  <2>3. n = 2 \/ n % 2 = 1
    BY <1>1, <1>4, <1>6, <2>1
  <2>4. n \in 2 .. Len(s) /\ (ServerShape(s) => n >= 3)
    BY <1>1, <2>1 DEF ServerShape
  <2>5. ~(Len(s) > 2 /\ Len(s) % 2 # 1)
    BY <1>1, <2>1, <2>3
  <2> QED
    BY <2>1, <2>2, <2>3, <2>4, <2>5
<1> QED
  BY <1>5, <1>6

LEMMA KeyOfShape ==
  ASSUME NEW p, DriveShape(p) \/ ServerShape(p)
  PROVE  LET s == Spelling(p)
         IN  /\ RequestKey(p) = SubSeq(s, 1, KeyLength(s))
             /\ CacheKey(p) = SubSeq(s, 1, KeyLength(s))
             /\ RequestKey(RequestKey(p)) = RequestKey(p)
             /\ CacheKey(RequestKey(p)) = RequestKey(p)
<1> DEFINE s == Spelling(p)
           k == SubSeq(s, 1, KeyLength(s))
<1>1. p \in Seq(Token)
  BY DEF DriveShape, ServerShape
<1>2. s \in Seq(Token) /\ Len(s) = Len(p) /\ Len(p) \in Nat
  BY <1>1, SpellingFacts
<1>3. DriveShape(s) \/ ServerShape(s)
  BY SpellingOfShape
<1>4. AltSep \notin {s[i] : i \in 1 .. Len(s)}
  BY <1>2, SpellingOfShape
<1> HIDE DEF s
<1>5. /\ KeyLength(s) \in 2 .. Len(s)
      /\ ServerShape(s) => KeyLength(s) >= 3
      /\ Respelled(s) = k
      /\ KeyLength(s) = 2 \/ KeyLength(s) % 2 = 1
  BY <1>3, <1>4, RespelledShape
<1>6. RequestKey(p) = k /\ CacheKey(p) = k
  BY <1>1, <1>5, KeysAreRespelled DEF s
<1>7. /\ DriveShape(k) \/ ServerShape(k)
      /\ Len(k) = KeyLength(s) /\ \A i \in 1 .. KeyLength(s) : k[i] = s[i]
  BY <1>3, <1>5, CutKeepsShape
<1> HIDE DEF k
<1>8. AltSep \notin {k[i] : i \in 1 .. Len(k)} /\ k \in Seq(Token)
  BY <1>4, <1>5, <1>7, <1>2 DEF DriveShape, ServerShape
<1>9. Spelling(k) = k
  <2>1. ASSUME NEW i \in 1 .. Len(k)
        PROVE  Spelling(k)[i] = k[i]
    <3>1. i \in 1 .. Len(p) /\ k[i] = s[i] /\ p[i] \in Token
      BY <1>1, <1>2, <1>5, <1>7
    <3>2. s[i] = IF p[i] = AltSep THEN Sep ELSE LowerToken(p[i])
      BY <1>1, <3>1, SpellingFacts DEF s
    <3>3. LowerToken(s[i]) = s[i] /\ s[i] # AltSep
      <4>1. CASE p[i] = AltSep
        <5>1. s[i] = Sep
          BY <3>2, <4>1
        <5>2. Sep \in Token
          BY DEF Token
        <5> QED
          BY <5>1, <5>2, LowerTokenFacts, TokensDiffer
      <4>2. CASE p[i] # AltSep
        <5>1. s[i] = LowerToken(p[i])
          BY <3>2, <4>2
        <5> QED
          BY <3>1, <4>2, <5>1, LowerTokenFacts
      <4> QED
        BY <4>1, <4>2
    <3> QED
      BY <1>8, <3>1, <3>3, SpellingFacts
  <2>2. Spelling(k) \in Seq(Token) /\ Len(Spelling(k)) = Len(k)
    BY <1>8, SpellingFacts
  <2> QED
    BY <1>8, <2>1, <2>2, SeqEqual
<1>10. Respelled(k) = k
  <2>1. /\ KeyLength(k) = IF Len(k) > 2 /\ Len(k) % 2 # 1 THEN Len(k) - 1 ELSE Len(k)
        /\ Respelled(k) = SubSeq(k, 1, KeyLength(k))
    BY <1>7, <1>8, RespelledShape
  <2>2. ~(Len(k) > 2 /\ Len(k) % 2 # 1)
    BY <1>5, <1>7
  <2>3. Respelled(k) = SubSeq(k, 1, Len(k))
    BY <2>1, <2>2
  <2> QED
    BY <1>8, <2>3, SubSeqFull
<1>11. RequestKey(k) = k /\ CacheKey(k) = k
  BY <1>8, <1>9, <1>10, KeysAreRespelled
<1> QED
  BY <1>6, <1>11 DEF k, s

(* Whatever the path, unless it is more than a root and ends in two        *)
(* separators, of which only one is dropped: the two normalisations agree, *)
(* and a key is its own key.                                               *)
LEMMA KeysAreKept ==
  ASSUME NEW p \in Seq(Token),
         LongerThanRoot(p) /\ IsSep(p[Len(p)]) => ~IsSep(p[Len(p) - 1])
  PROVE  /\ RequestKey(p) = CacheKey(p)
         /\ CacheKey(p) \in Seq(Token)
         /\ CacheKey(CacheKey(p)) = CacheKey(p) /\ RequestKey(CacheKey(p)) = CacheKey(p)
         /\ LongerThanRoot(CacheKey(p)) => ~EndsInSep(CacheKey(p))
<1> DEFINE s == Spelling(p)
           k == Respelled(s)
           n == Len(p)
<1>1. /\ s \in Seq(Token) /\ Len(s) = n /\ n \in Nat
      /\ \A i \in 1 .. n : s[i] = IF p[i] = AltSep THEN Sep ELSE LowerToken(p[i])
  BY SpellingFacts
<1>2. RequestKey(p) = k /\ CacheKey(p) = k
  BY KeysAreRespelled
<1> HIDE DEF s
<1>3. ASSUME NEW i \in 1 .. n
      PROVE  /\ s[i] = Sep <=> IsSep(p[i])
             /\ s[i] # AltSep /\ LowerToken(s[i]) = s[i]
             /\ s[i] \in Drive <=> p[i] \in Drive
  <2>1. p[i] \in Token /\ Sep \in Token /\ LowerToken(Sep) = Sep
    BY LowerTokenFacts DEF Token
  <2>2. CASE p[i] \in Drive
    <3>1. s[i] = Lower[p[i]] /\ Lower[p[i]] \in Drive
      BY <1>1, <2>1, <2>2, LowerTokenFacts, LowerAssumption, TokensDiffer
    <3>2. LowerToken(s[i]) = s[i]
      BY <1>1, <2>1, <2>2, LowerTokenFacts, TokensDiffer
    <3> QED
      BY <2>2, <3>1, <3>2, TokensDiffer DEF IsSep
  <2>3. CASE p[i] \in Name
    <3>1. s[i] = Lower[p[i]] /\ Lower[p[i]] \in Name
      BY <1>1, <2>1, <2>3, LowerTokenFacts, LowerAssumption, TokensDiffer
    <3>2. LowerToken(s[i]) = s[i]
      BY <1>1, <2>1, <2>3, LowerTokenFacts, TokensDiffer
    <3> QED
      BY <2>3, <3>1, <3>2, TokensDiffer DEF IsSep
  <2>4. CASE p[i] \in {Sep, AltSep}
    <3>1. s[i] = Sep
      BY <1>1, <2>1, <2>4
    <3> QED
      BY <2>1, <2>4, <3>1, TokensDiffer DEF IsSep
  <2> QED
    BY <2>1, <2>2, <2>3, <2>4 DEF Token
<1>4. LongerThanRoot(s) <=> LongerThanRoot(p)
  <2>1. CASE n = 0
    BY <1>1, <2>1 DEF LongerThanRoot
  <2>2. CASE n # 0
    <3>1. s # <<>> /\ p # <<>> /\ 1 \in 1 .. n
      BY <1>1, <2>2
    <3>2. HasDrive(s) <=> HasDrive(p)
      BY <1>3, <3>1 DEF HasDrive
    <3> QED
      BY <1>1, <3>2 DEF LongerThanRoot
  <2> QED
    BY <2>1, <2>2
<1>5. /\ k \in Seq(Token) /\ Len(k) <= n
      /\ \A i \in 1 .. Len(k) : k[i] = s[i]
      /\ LongerThanRoot(k) => ~EndsInSep(k)
  <2>1. CASE LongerThanRoot(s) /\ EndsInSep(s)
    <3>1. n >= 3
      BY <1>1, <2>1 DEF LongerThanRoot
    <3>2. k = SubSeq(s, 1, n - 1)
      BY <1>1, <2>1 DEF Respelled, Chop
    <3>3. n - 1 \in 0 .. Len(s) /\ 1 <= (n - 1) + 1
      BY <1>1, <3>1
    <3>4. /\ k \in Seq(Token) /\ Len(k) = n - 1
          /\ \A i \in 1 .. n - 1 : k[i] = s[i]
      BY <1>1, <3>2, <3>3, SliceIs
    <3>5. n \in 1 .. n /\ n - 1 \in 1 .. n /\ n - 1 \in 1 .. n - 1
      BY <1>1, <3>1
    <3>6. s[n] = Sep
      BY <1>1, <2>1 DEF EndsInSep
    <3>7. ~IsSep(p[n - 1])
      BY <1>3, <1>4, <2>1, <3>5, <3>6
    <3>8. k[Len(k)] # Sep
      BY <1>3, <3>4, <3>5, <3>7
    <3> HIDE DEF k
    <3> QED
      BY <1>1, <3>4, <3>8 DEF EndsInSep
  <2>2. CASE ~(LongerThanRoot(s) /\ EndsInSep(s))
    BY <1>1, <2>2 DEF Respelled
  <2> QED
    BY <2>1, <2>2
<1> HIDE DEF k
<1>6. Spelling(k) = k
  <2>1. Spelling(k) \in Seq(Token) /\ Len(Spelling(k)) = Len(k)
    BY <1>5, SpellingFacts
  <2>2. ASSUME NEW i \in 1 .. Len(k)
        PROVE  Spelling(k)[i] = k[i]
    <3>1. i \in 1 .. n /\ k[i] = s[i]
      BY <1>1, <1>5
    <3>2. k[i] # AltSep /\ LowerToken(k[i]) = k[i]
      BY <1>3, <3>1
    <3> QED
      BY <1>5, <3>2, SpellingFacts
  <2> QED
    BY <1>5, <2>1, <2>2, SeqEqual
<1>7. Respelled(k) = k
  BY <1>5 DEF Respelled
<1>8. RequestKey(k) = k /\ CacheKey(k) = k
  BY <1>5, <1>6, <1>7, KeysAreRespelled
<1> QED
  BY <1>2, <1>5, <1>8

-----------------------------------------------------------------------------
(* The recursion of Components is well founded.                            *)
Lowered == Seq(Drive \cup Name)

LEMMA ComponentsUnfold ==
  ASSUME NEW p \in Seq(Token)
  PROVE  \E f \in [0 .. Len(p) -> Lowered] :
           /\ f[0] = <<>>
           /\ \A n \in 1 .. Len(p) : f[n] = IF IsSep(p[n]) THEN f[n - 1]
                                            ELSE Append(f[n - 1], Lower[p[n]])
           /\ Components(p) = f[Len(p)]
<1> DEFINE N == Len(p)
           g == [n \in 1 .. N |-> [c \in Lowered |-> IF IsSep(p[n]) THEN c
                                                     ELSE Append(c, Lower[p[n]])]]
           e == <<>>
           R(f) == [n \in 0 .. N |-> IF n = 0 THEN e
                                     ELSE IF IsSep(p[n]) THEN f[n - 1]
                                     ELSE Append(f[n - 1], Lower[p[n]])]
<1>1. N \in Nat
  OBVIOUS
<1>2. g \in [1 .. N -> [Lowered -> Lowered]]
  <2>1. ASSUME NEW n \in 1 .. N, NEW c \in Lowered, ~IsSep(p[n])
        PROVE  Append(c, Lower[p[n]]) \in Lowered
    <3>1. p[n] \in Drive \cup Name
      BY <2>1 DEF IsSep, Token
    <3> QED
      BY <3>1, LowerAssumption DEF Lowered
  <2> QED
    BY <2>1
<1>3. e \in Lowered
  BY DEF Lowered
<1>4. PICK f \in [0 .. N -> Lowered] : f[0] = e /\ \A n \in 1 .. N : f[n] = g[n][f[n - 1]]
  <2> HIDE DEF g, N, e
  <2> QED
    BY <1>1, <1>2, <1>3, RecursiveFunctionExists
<1>5. ASSUME NEW n \in 1 .. N
      PROVE  f[n] = IF IsSep(p[n]) THEN f[n - 1] ELSE Append(f[n - 1], Lower[p[n]])
  <2>1. f[n - 1] \in Lowered
    BY <1>4
  <2>2. f[n] = g[n][f[n - 1]]
    BY <1>4
  <2> QED
    BY <2>1, <2>2
<1> HIDE DEF e, g
<1>6. f = R(f)
  <2>1. ASSUME NEW n \in 0 .. N
        PROVE  R(f)[n] = f[n]
    <3>1. CASE n = 0
      BY <1>4, <3>1
    <3>2. CASE n # 0
      BY <1>5, <3>2
    <3> QED
      BY <3>1, <3>2
  <2> DEFINE r == R(f)
  <2>2. DOMAIN r = 0 .. N /\ r = [n \in 0 .. N |-> r[n]]
    OBVIOUS
  <2> HIDE DEF r
  <2>3. \A n \in 0 .. N : r[n] = f[n]
    BY <2>1 DEF r
  <2>4. f = r
    BY <2>2, <2>3
  <2> QED
    BY <2>4 DEF r
<1> DEFINE h == CHOOSE f_1 : f_1 = R(f_1)
<1>7. h = R(h)
  BY <1>6
<1>8. Components(p) = h[N]
  BY DEF Components, e
<1> HIDE DEF h
<1>9. \A n \in 0 .. N : h[n] = IF n = 0 THEN e
                               ELSE IF IsSep(p[n]) THEN h[n - 1]
                               ELSE Append(h[n - 1], Lower[p[n]])
  BY <1>7
<1>10. \A n \in 0 .. N : h[n] \in Lowered
  <2> DEFINE S == {m \in Nat : m <= N => h[m] \in Lowered}
  <2>1. 0 \in S
    BY <1>3, <1>9
  <2>2. ASSUME NEW m \in Nat, m \in S
        PROVE  m + 1 \in S
    <3> SUFFICES ASSUME m + 1 <= N PROVE h[m + 1] \in Lowered
      OBVIOUS
    <3>1. h[m] \in Lowered /\ m + 1 \in 1 .. N /\ (m + 1) - 1 = m
      BY <2>2
    <3>2. ~IsSep(p[m + 1]) => Lower[p[m + 1]] \in Drive \cup Name
      BY <3>1, LowerAssumption DEF IsSep, Token
    <3>3. h[m + 1] = IF IsSep(p[m + 1]) THEN h[m] ELSE Append(h[m], Lower[p[m + 1]])
      BY <1>9, <3>1
    <3> QED
      BY <3>1, <3>2, <3>3 DEF Lowered
  <2> HIDE DEF S
  <2>3. \A m \in Nat : m \in S => m + 1 \in S
    BY <2>2
  <2>4. Nat \subseteq S
    BY <2>1, <2>3, NatInductionOnSets
  <2> QED
    BY <2>4 DEF S
<1>11. h \in [0 .. N -> Lowered]
  BY <1>7, <1>10
<1>12. /\ h[0] = <<>>
       /\ \A n \in 1 .. N : h[n] = IF IsSep(p[n]) THEN h[n - 1]
                                   ELSE Append(h[n - 1], Lower[p[n]])
  BY <1>9 DEF e
<1> HIDE DEF N
<1> QED
  BY <1>8, <1>11, <1>12 DEF N

(* How many components the first m tokens of a path have, of which the     *)
(* first o pairs of tokens are the separators of a server.                 *)
Listable(o, m) == IF m <= 2 * o THEN 0 ELSE ((m + 1) \div 2) - o

LEMMA ListableGrows ==
  ASSUME NEW o \in {0, 1}, NEW m \in Nat
  PROVE  /\ Listable(o, 0) = 0 /\ Listable(o, m) \in Nat
         /\ (m + 1) % 2 = 1 /\ m + 1 > 2 * o =>
              /\ Listable(o, m + 1) = Listable(o, m) + 1
              /\ 2 * Listable(o, m + 1) - 1 + 2 * o = m + 1
         /\ ~((m + 1) % 2 = 1 /\ m + 1 > 2 * o) => Listable(o, m + 1) = Listable(o, m)
<1>1. CASE o = 0
  BY <1>1 DEF Listable
<1>2. CASE o = 1
  <2>1. Listable(1, m) = IF m <= 2 THEN 0 ELSE ((m + 1) \div 2) - 1
    BY DEF Listable
  <2>2. Listable(1, m + 1) = IF m + 1 <= 2 THEN 0 ELSE ((m + 2) \div 2) - 1
    BY DEF Listable
  <2>3. Listable(1, 0) = 0
    BY DEF Listable
  <2> QED
    BY <1>2, <2>1, <2>2, <2>3
<1> QED
  BY <1>1, <1>2

LEMMA ComponentsAre ==
  ASSUME NEW p \in Seq(Token), NEW o \in {0, 1},
         \A i \in 1 .. Len(p) : ~IsSep(p[i]) <=> (i % 2 = 1 /\ i > 2 * o)
  PROVE  /\ Components(p) \in Lowered
         /\ Len(Components(p)) = Listable(o, Len(p))
         /\ \A k \in 1 .. Listable(o, Len(p)) :
              Components(p)[k] = Lower[p[2 * k - 1 + 2 * o]]
<1> DEFINE N == Len(p)
<1>1. PICK f \in [0 .. N -> Lowered] :
        /\ f[0] = <<>>
        /\ \A n \in 1 .. N : f[n] = IF IsSep(p[n]) THEN f[n - 1]
                                    ELSE Append(f[n - 1], Lower[p[n]])
        /\ Components(p) = f[N]
  BY ComponentsUnfold
<1> DEFINE L(m) == Listable(o, m)
           Good(m) == /\ Len(f[m]) = L(m)
                      /\ \A k \in 1 .. L(m) : f[m][k] = Lower[p[2 * k - 1 + 2 * o]]
           S == {m \in Nat : m <= N => Good(m)}
<1>2. N \in Nat /\ o \in Nat
  OBVIOUS
<1> HIDE DEF N
<1>3. 0 \in S
  <2>1. L(0) = 0
    BY ListableGrows
  <2> HIDE DEF L
  <2>2. Len(f[0]) = 0 /\ 1 .. L(0) = {}
    BY <1>1, <2>1
  <2> QED
    BY <2>1, <2>2
<1>4. ASSUME NEW m \in Nat, m \in S
      PROVE  m + 1 \in S
  <2> SUFFICES ASSUME m + 1 <= N PROVE Good(m + 1)
    OBVIOUS
  <2>1. Good(m) /\ m + 1 \in 1 .. N /\ (m + 1) - 1 = m /\ f[m] \in Lowered
    BY <1>1, <1>2, <1>4
  <2>2. f[m + 1] = IF IsSep(p[m + 1]) THEN f[m] ELSE Append(f[m], Lower[p[m + 1]])
    BY <1>1, <2>1
  <2>3. L(m) \in Nat
    BY ListableGrows
  <2>4. CASE (m + 1) % 2 = 1 /\ m + 1 > 2 * o
    <3>1. ~IsSep(p[m + 1])
      BY <2>1, <2>4 DEF N
    <3>2. L(m + 1) = L(m) + 1 /\ 2 * L(m + 1) - 1 + 2 * o = m + 1
      BY <2>4, ListableGrows
    <3>3. f[m + 1] = Append(f[m], Lower[p[m + 1]])
      BY <2>2, <3>1
    <3>4. /\ Len(f[m + 1]) = Len(f[m]) + 1
          /\ f[m + 1][Len(f[m]) + 1] = Lower[p[m + 1]]
          /\ \A k \in 1 .. Len(f[m]) : f[m + 1][k] = f[m][k]
      BY <2>1, <3>3 DEF Lowered
    <3> HIDE DEF L
    <3>5. ASSUME NEW k \in 1 .. L(m + 1)
          PROVE  f[m + 1][k] = Lower[p[2 * k - 1 + 2 * o]]
      <4>1. CASE k = L(m + 1)
        <5>1. f[m + 1][k] = Lower[p[m + 1]]
          BY <2>1, <3>2, <3>4, <4>1
        <5>2. 2 * k - 1 + 2 * o = m + 1
          BY <3>2, <4>1
        <5> QED
          BY <5>1, <5>2
      <4>2. CASE k # L(m + 1)
        <5>1. k \in 1 .. L(m)
          <6>1. L(m + 1) = L(m) + 1 /\ L(m) \in Nat
            BY <2>3, <3>2
          <6> QED
            BY <4>2, <6>1
        <5> QED
          BY <2>1, <3>4, <5>1
      <4> QED
        BY <4>1, <4>2
    <3> QED
      BY <2>1, <3>2, <3>4, <3>5
  <2>5. CASE ~((m + 1) % 2 = 1 /\ m + 1 > 2 * o)
    <3>1. IsSep(p[m + 1])
      BY <2>1, <2>5 DEF N
    <3>2. L(m + 1) = L(m)
      BY <2>5, ListableGrows
    <3>3. f[m + 1] = f[m]
      BY <2>2, <3>1
    <3> HIDE DEF L
    <3> QED
      BY <2>1, <3>2, <3>3
  <2> QED
    BY <2>4, <2>5
<1> HIDE DEF S
<1>5. \A m \in Nat : m \in S => m + 1 \in S
  BY <1>4
<1>6. N \in S
  BY <1>2, <1>3, <1>5, NatInductionOnSets
<1>7. Good(N)
  BY <1>2, <1>6 DEF S
<1>8. f[N] \in Lowered
  BY <1>1, <1>2
<1> QED
  BY <1>1, <1>7, <1>8 DEF N

LEMMA ComponentsOfDrive ==
  ASSUME NEW p, DriveShape(p)
  PROVE  /\ Components(p) \in Lowered
         /\ Len(Components(p)) = (Len(p) + 1) \div 2
         /\ \A k \in 1 .. (Len(p) + 1) \div 2 : Components(p)[k] = Lower[p[2 * k - 1]]
<1>1. p \in Seq(Token) /\ Len(p) \in Nat /\ Len(p) >= 2
  BY DEF DriveShape
<1>2. ASSUME NEW i \in 1 .. Len(p)
      PROVE  ~IsSep(p[i]) <=> (i % 2 = 1 /\ i > 0)
  <2>1. CASE i = 1
    BY <2>1, TokensDiffer DEF DriveShape, IsSep
  <2>2. CASE i # 1
    <3>1. IF i % 2 = 1 THEN p[i] \in Name ELSE p[i] \in {Sep, AltSep}
      BY <2>2 DEF DriveShape
    <3> QED
      BY <3>1, TokensDiffer DEF IsSep
  <2> QED
    BY <2>1, <2>2
<1>3. Listable(0, Len(p)) = (Len(p) + 1) \div 2
  BY <1>1 DEF Listable
<1>4. \A i \in 1 .. Len(p) : ~IsSep(p[i]) <=> (i % 2 = 1 /\ i > 2 * 0)
  BY <1>2
<1>5. /\ Components(p) \in Lowered
      /\ Len(Components(p)) = Listable(0, Len(p))
      /\ \A k \in 1 .. Listable(0, Len(p)) : Components(p)[k] = Lower[p[2 * k - 1 + 2 * 0]]
  BY <1>1, <1>4, ComponentsAre
<1>6. \A k \in Nat : 2 * k - 1 + 2 * 0 = 2 * k - 1
  OBVIOUS
<1> QED
  BY <1>1, <1>3, <1>5, <1>6

LEMMA ComponentsOfServer ==
  ASSUME NEW p, ServerShape(p)
  PROVE  /\ Components(p) \in Lowered
         /\ Len(Components(p)) = (Len(p) - 1) \div 2
         /\ \A k \in 1 .. (Len(p) - 1) \div 2 : Components(p)[k] = Lower[p[2 * k + 1]]
<1>1. p \in Seq(Token) /\ Len(p) \in Nat /\ Len(p) >= 3
  BY DEF ServerShape
<1>2. ASSUME NEW i \in 1 .. Len(p)
      PROVE  ~IsSep(p[i]) <=> (i % 2 = 1 /\ i > 2 * 1)
  <2>1. CASE i = 1 \/ i = 2
    BY <2>1 DEF ServerShape, IsSep
  <2>2. CASE i # 1 /\ i # 2
    <3>1. IF i % 2 = 1 THEN p[i] \in Name ELSE p[i] \in {Sep, AltSep}
      BY <2>2 DEF ServerShape
    <3> QED
      BY <2>2, <3>1, TokensDiffer DEF IsSep
  <2> QED
    BY <2>1, <2>2
<1>3. Listable(1, Len(p)) = (Len(p) - 1) \div 2
  BY <1>1 DEF Listable
<1>4. /\ Components(p) \in Lowered
      /\ Len(Components(p)) = Listable(1, Len(p))
      /\ \A k \in 1 .. Listable(1, Len(p)) : Components(p)[k] = Lower[p[2 * k - 1 + 2 * 1]]
  BY <1>1, <1>2, ComponentsAre
<1>5. \A k \in Nat : 2 * k - 1 + 2 * 1 = 2 * k + 1
  OBVIOUS
<1> QED
  BY <1>1, <1>3, <1>4, <1>5

-----------------------------------------------------------------------------
(* Every other token of a joined sequence is a component.                  *)
LEMMA JoinedIs ==
  ASSUME NEW c \in Lowered, Len(c) >= 1
  PROVE  /\ Joined(c) \in Seq(Token) /\ Len(Joined(c)) = 2 * Len(c) - 1
         /\ \A i \in 1 .. 2 * Len(c) - 1 :
              Joined(c)[i] = IF i % 2 = 1 THEN c[(i + 1) \div 2] ELSE Sep
<1> DEFINE M == 2 * Len(c) - 1
<1>1. M \in Nat /\ Len(c) \in Nat
  BY DEF Lowered
<1>2. ASSUME NEW i \in 1 .. M
      PROVE  (IF i % 2 = 1 THEN c[(i + 1) \div 2] ELSE Sep) \in Token
  <2>1. CASE i % 2 = 1
    <3>1. (i + 1) \div 2 \in 1 .. Len(c)
      BY <1>1
    <3>2. c[(i + 1) \div 2] \in Drive \cup Name
      BY <3>1 DEF Lowered
    <3> QED
      BY <2>1, <3>2 DEF Token
  <2>2. CASE i % 2 # 1
    BY <2>2 DEF Token
  <2> QED
    BY <2>1, <2>2
<1>3. Joined(c) \in [1 .. M -> Token]
  BY <1>2 DEF Joined
<1>4. Joined(c) \in Seq(Token) /\ Len(Joined(c)) = M
  BY <1>1, <1>3
<1> QED
  BY <1>4 DEF Joined

LEMMA OddPositions ==
  ASSUME NEW i \in Nat \ {0}, i % 2 = 1
  PROVE  /\ (i + 1) \div 2 \in Nat \ {0}
         /\ 2 * ((i + 1) \div 2) - 1 = i
OBVIOUS

LEMMA KeyOfDrivePath ==
  ASSUME NEW p, DriveShape(p)
  PROVE  CacheKey(p) = Canonical(TRUE, Components(p))
<1> DEFINE s == Spelling(p)
           n == Len(p)
           N == KeyLength(s)
           c == Components(p)
           k == SubSeq(s, 1, N)
<1>1. p \in Seq(Token) /\ n \in Nat /\ n >= 2
  BY DEF DriveShape
<1>2. s \in Seq(Token) /\ Len(s) = n
  BY <1>1, SpellingFacts
<1>3. /\ DriveShape(s) /\ AltSep \notin {s[i] : i \in 1 .. Len(s)}
      /\ \A i \in 1 .. n : /\ p[i] \in {Sep, AltSep} => s[i] = Sep
                           /\ p[i] \notin {Sep, AltSep} => s[i] = Lower[p[i]]
  BY <1>2, SpellingOfShape
<1>4. /\ c \in Lowered /\ Len(c) = (n + 1) \div 2
      /\ \A j \in 1 .. (n + 1) \div 2 : c[j] = Lower[p[2 * j - 1]]
  BY ComponentsOfDrive
<1>5. CacheKey(p) = k
  BY KeyOfShape
<1> HIDE DEF s, c
<1>6. N \in 2 .. n /\ N = IF n > 2 /\ n % 2 # 1 THEN n - 1 ELSE n
  BY <1>2, <1>3, RespelledShape
<1>7. ASSUME NEW i \in 1 .. n
      PROVE  s[i] = IF i % 2 = 1 THEN c[(i + 1) \div 2] ELSE Sep
  <2>1. CASE i % 2 = 1
    <3>1. (i + 1) \div 2 \in 1 .. (n + 1) \div 2 /\ 2 * ((i + 1) \div 2) - 1 = i
      BY <1>1, <2>1
    <3>2. c[(i + 1) \div 2] = Lower[p[i]]
      BY <1>4, <3>1
    <3>3. p[i] \notin {Sep, AltSep}
      <4>1. CASE i = 1
        BY <4>1, TokensDiffer DEF DriveShape
      <4>2. CASE i # 1
        <5>1. p[i] \in Name
          BY <2>1, <4>2 DEF DriveShape
        <5> QED
          BY <5>1, TokensDiffer
      <4> QED
        BY <4>1, <4>2
    <3> QED
      BY <1>3, <2>1, <3>2, <3>3
  <2>2. CASE i % 2 # 1
    <3>1. i # 1
      BY <2>2
    <3>2. p[i] \in {Sep, AltSep}
      BY <2>2, <3>1 DEF DriveShape
    <3> QED
      BY <1>3, <2>2, <3>2
  <2> QED
    BY <2>1, <2>2
<1> HIDE DEF N
<1>8. k \in Seq(Token) /\ Len(k) = N /\ \A i \in 1 .. N : k[i] = s[i]
  BY <1>1, <1>2, <1>6, SliceIs
<1> HIDE DEF k
<1>9. CASE n = 2
  <2>1. Len(c) = 1 /\ N = 2
    BY <1>4, <1>6, <1>9
  <2>2. Canonical(TRUE, c) = <<c[1], Sep>>
    BY <2>1 DEF Canonical
  <2>3. k[1] = c[1] /\ k[2] = Sep
    <3>1. s[1] = c[(1 + 1) \div 2] /\ s[2] = Sep
      BY <1>7, <1>9
    <3>2. (1 + 1) \div 2 = 1
      OBVIOUS
    <3> QED
      BY <1>8, <2>1, <3>1, <3>2
  <2>4. k = <<c[1], Sep>>
    BY <1>8, <2>1, <2>3
  <2> QED
    BY <1>5, <2>2, <2>4 DEF c
<1>10. CASE n > 2
  <2>1. Len(c) >= 1 /\ Len(c) # 1 /\ N = 2 * Len(c) - 1 /\ Len(c) \in Nat
    <3>1. n \in Nat /\ n > 2
      BY <1>1, <1>10
    <3>2. Len(c) = (n + 1) \div 2
      BY <1>4
    <3> HIDE DEF n
    <3> QED
      BY <1>6, <3>1, <3>2
  <2>2. Canonical(TRUE, c) = Joined(c)
    BY <2>1 DEF Canonical
  <2>3. /\ Joined(c) \in Seq(Token) /\ Len(Joined(c)) = N
        /\ \A i \in 1 .. N : Joined(c)[i] = IF i % 2 = 1 THEN c[(i + 1) \div 2] ELSE Sep
    BY <1>4, <2>1, JoinedIs
  <2>4. \A i \in 1 .. N : k[i] = Joined(c)[i]
    BY <1>1, <1>6, <1>7, <1>8, <2>3
  <2>5. k = Joined(c)
    BY <1>8, <2>3, <2>4, SeqEqual
  <2> QED
    BY <1>5, <2>2, <2>5 DEF c
<1>11. n = 2 \/ n > 2
  <2>1. n \in Nat /\ n >= 2
    BY <1>1
  <2> HIDE DEF n
  <2> QED
    BY <2>1
<1> QED
  BY <1>9, <1>10, <1>11

LEMMA KeyOfServerPath ==
  ASSUME NEW p, ServerShape(p)
  PROVE  CacheKey(p) = Canonical(FALSE, Components(p))
<1> DEFINE s == Spelling(p)
           n == Len(p)
           N == KeyLength(s)
           c == Components(p)
           k == SubSeq(s, 1, N)
           q == <<Sep, Sep>> \o Joined(c)
<1>1. p \in Seq(Token) /\ n \in Nat /\ n >= 3
  BY DEF ServerShape
<1>2. s \in Seq(Token) /\ Len(s) = n
  BY <1>1, SpellingFacts
<1>3. /\ ServerShape(s) /\ AltSep \notin {s[i] : i \in 1 .. Len(s)}
      /\ \A i \in 1 .. n : /\ p[i] \in {Sep, AltSep} => s[i] = Sep
                           /\ p[i] \notin {Sep, AltSep} => s[i] = Lower[p[i]]
  BY <1>2, SpellingOfShape
<1>4. /\ c \in Lowered /\ Len(c) = (n - 1) \div 2
      /\ \A j \in 1 .. (n - 1) \div 2 : c[j] = Lower[p[2 * j + 1]]
  BY ComponentsOfServer
<1>5. CacheKey(p) = k
  BY KeyOfShape
<1> HIDE DEF s, c
<1>6. N \in 3 .. n /\ N = IF n > 2 /\ n % 2 # 1 THEN n - 1 ELSE n
  BY <1>1, <1>2, <1>3, RespelledShape
<1>7. ASSUME NEW i \in 3 .. n
      PROVE  s[i] = IF i % 2 = 1 THEN c[(i - 1) \div 2] ELSE Sep
  <2>1. CASE i % 2 = 1
    <3>1. (i - 1) \div 2 \in 1 .. (n - 1) \div 2 /\ 2 * ((i - 1) \div 2) + 1 = i
      BY <1>1, <2>1
    <3>2. c[(i - 1) \div 2] = Lower[p[i]]
      BY <1>4, <3>1
    <3>3. p[i] \in Name
      BY <2>1 DEF ServerShape
    <3> QED
      BY <1>3, <2>1, <3>2, <3>3, TokensDiffer
  <2>2. CASE i % 2 # 1
    <3>1. p[i] \in {Sep, AltSep}
      BY <2>2 DEF ServerShape
    <3> QED
      BY <1>3, <2>2, <3>1
  <2> QED
    BY <2>1, <2>2
<1>8. s[1] = Sep /\ s[2] = Sep
  BY <1>3 DEF ServerShape
<1> HIDE DEF N
<1>9. k \in Seq(Token) /\ Len(k) = N /\ \A i \in 1 .. N : k[i] = s[i]
  BY <1>1, <1>2, <1>6, SliceIs
<1> HIDE DEF k
<1>10. Len(c) >= 1 /\ N = 2 * Len(c) + 1 /\ Len(c) \in Nat
  <2>1. n \in Nat /\ n >= 3 /\ Len(c) = (n - 1) \div 2
    BY <1>1, <1>4
  <2> HIDE DEF n
  <2>2. CASE n % 2 = 1
    BY <1>6, <2>1, <2>2
  <2>3. CASE n % 2 # 1
    BY <1>6, <2>1, <2>3
  <2> QED
    BY <2>2, <2>3
<1>11. Canonical(FALSE, c) = q
  BY DEF Canonical
<1>12. /\ Joined(c) \in Seq(Token) /\ Len(Joined(c)) = 2 * Len(c) - 1
       /\ \A i \in 1 .. 2 * Len(c) - 1 :
            Joined(c)[i] = IF i % 2 = 1 THEN c[(i + 1) \div 2] ELSE Sep
  BY <1>4, <1>10, JoinedIs
<1>13. <<Sep, Sep>> \in Seq(Token) /\ Len(<<Sep, Sep>>) = 2
       /\ <<Sep, Sep>>[1] = Sep /\ <<Sep, Sep>>[2] = Sep
  BY DEF Token
<1>14. /\ q \in Seq(Token) /\ Len(q) = 2 + (2 * Len(c) - 1)
       /\ \A i \in 1 .. 2 + (2 * Len(c) - 1) :
            q[i] = IF i <= 2 THEN <<Sep, Sep>>[i] ELSE Joined(c)[i - 2]
  BY <1>12, <1>13, ConcatProperties
<1> HIDE DEF q
<1>15. ASSUME NEW i \in 1 .. N
       PROVE  k[i] = q[i]
  <2>1. CASE i <= 2
    <3>1. q[i] = Sep
      BY <1>10, <1>13, <1>14, <2>1
    <3> QED
      BY <1>8, <1>9, <2>1, <3>1
  <2>2. CASE i > 2
    <3> DEFINE j == i - 2
    <3>1. i \in 3 .. n /\ j \in 1 .. 2 * Len(c) - 1
      BY <1>1, <1>6, <1>10, <2>2
    <3>2. (j + 1) \div 2 = (i - 1) \div 2 /\ (j % 2 = 1 <=> i % 2 = 1)
      BY <3>1
    <3>3. q[i] = Joined(c)[j]
      BY <1>10, <1>14, <2>2
    <3> HIDE DEF j
    <3>4. Joined(c)[j] = IF j % 2 = 1 THEN c[(j + 1) \div 2] ELSE Sep
      BY <1>12, <3>1
    <3>5. k[i] = IF i % 2 = 1 THEN c[(i - 1) \div 2] ELSE Sep
      BY <1>7, <1>9, <3>1
    <3> QED
      BY <3>2, <3>3, <3>4, <3>5
  <2> QED
    BY <2>1, <2>2
<1>16. k = q
  <2>1. Len(q) = N
    BY <1>10, <1>14
  <2> QED
    BY <1>9, <1>14, <1>15, <2>1, SeqEqual
<1> QED
  BY <1>5, <1>11, <1>16 DEF c

(* The key of every path of the shell is its folder's canonical spelling.  *)
LEMMA KeyOfShellPath ==
  ASSUME NEW p, DriveShape(p) \/ ServerShape(p)
  PROVE  CacheKey(p) = Canonical(HasDrive(p), Components(p))
<1>1. CASE DriveShape(p)
  <2>1. HasDrive(p) = TRUE
    BY <1>1, SpellingOfShape DEF HasDrive
  <2> QED
    BY <1>1, <2>1, KeyOfDrivePath
<1>2. CASE ServerShape(p)
  <2>1. HasDrive(p) = FALSE
    BY <1>2, TokensDiffer DEF HasDrive, ServerShape
  <2> QED
    BY <1>2, <2>1, KeyOfServerPath
<1> QED
  BY <1>1, <1>2

-----------------------------------------------------------------------------
(* What strip_trailing_separators keeps of a path with a drive.            *)
KeptLength(p) == IF Len(p) > 2 /\ Len(p) % 2 # 1 THEN Len(p) - 1 ELSE Len(p)

LEMMA KeptFacts ==
  ASSUME NEW n \in Nat, n >= 2
  PROVE  LET k == IF n > 2 /\ n % 2 # 1 THEN n - 1 ELSE n
         IN  /\ k \in 2 .. n /\ (k = 2 \/ k % 2 = 1)
             /\ \A m \in k + 1 .. n : m = n /\ m > 2 /\ m % 2 # 1
             /\ (k + 1) \div 2 = (n + 1) \div 2
<1>1. CASE n > 2 /\ n % 2 # 1
  BY <1>1
<1>2. CASE ~(n > 2 /\ n % 2 # 1)
  BY <1>2
<1> QED
  BY <1>1, <1>2

LEMMA StrippedIs ==
  ASSUME NEW p, DriveShape(p), \A i \in 1 .. Len(p) : p[i] # AltSep
  PROVE  Stripped(p) = SubSeq(p, 1, KeptLength(p))
<1> DEFINE N == Len(p)
           K == KeptLength(p)
           Stops(n) == LET q == SubSeq(p, 1, n)
                       IN  ~(LongerThanRoot(q) /\ EndsInSep(q))
           Found(n) == Stops(n) /\ \A m \in n + 1 .. N : ~Stops(m)
           kept == CHOOSE n \in 0 .. N : Found(n)
<1>1. p \in Seq(Token) /\ N \in Nat /\ N >= 2
  BY DEF DriveShape
<1>2. /\ K \in 2 .. N /\ (K = 2 \/ K % 2 = 1)
      /\ \A m \in K + 1 .. N : m = N /\ m > 2 /\ m % 2 # 1
  <2>1. K = IF N > 2 /\ N % 2 # 1 THEN N - 1 ELSE N
    BY DEF KeptLength
  <2> HIDE DEF N, K
  <2> QED
    BY <1>1, <2>1, KeptFacts
<1>3. ASSUME NEW n \in 2 .. N
      PROVE  Stops(n) <=> (n = 2 \/ n % 2 = 1)
  <2> DEFINE q == SubSeq(p, 1, n)
  <2>1. DriveShape(q) /\ Len(q) = n /\ \A i \in 1 .. n : q[i] = p[i]
    BY CutKeepsShape
  <2> HIDE DEF q
  <2>2. HasDrive(q) /\ q # <<>>
    BY <2>1, SpellingOfShape DEF HasDrive
  <2>3. n # 2 => (p[n] = Sep <=> n % 2 # 1)
    <3>1. n \in 2 .. N /\ n \in 1 .. N
      BY <1>1
    <3>2. IF n % 2 = 1 THEN p[n] \in Name ELSE p[n] \in {Sep, AltSep}
      BY DEF DriveShape
    <3>3. p[n] # AltSep
      BY <3>1
    <3> QED
      BY <3>2, <3>3, TokensDiffer
  <2>4. q[n] = p[n]
    BY <1>1, <2>1
  <2>5. ~(LongerThanRoot(q) /\ EndsInSep(q)) <=> (n = 2 \/ n % 2 = 1)
    <3>1. LongerThanRoot(q) <=> n > 2
      BY <2>1, <2>2 DEF LongerThanRoot
    <3>2. EndsInSep(q) <=> p[n] = Sep
      BY <2>1, <2>2, <2>4 DEF EndsInSep
    <3> QED
      BY <1>1, <2>3, <3>1, <3>2
  <2> QED
    BY <2>5 DEF q
<1> HIDE DEF Stops, K
<1>4. Found(K)
  <2>1. Stops(K)
    BY <1>2, <1>3
  <2>2. \A m \in K + 1 .. N : ~Stops(m)
    BY <1>1, <1>2, <1>3
  <2> QED
    BY <2>1, <2>2
<1>5. kept \in 0 .. N /\ Found(kept)
  BY <1>1, <1>2, <1>4
<1>6. Stripped(p) = SubSeq(p, 1, kept)
  BY DEF Stripped, Stops
<1> HIDE DEF kept
<1>7. kept = K
  <2>1. ~(kept < K)
    BY <1>1, <1>2, <1>4, <1>5
  <2>2. ~(K < kept)
    BY <1>1, <1>2, <1>4, <1>5
  <2> QED
    BY <1>1, <1>2, <1>5, <2>1, <2>2
<1> QED
  BY <1>6, <1>7 DEF K

-----------------------------------------------------------------------------
(* What the loop of invalidate_path_and_ancestors cuts off at the first m  *)
(* tokens of q.                                                            *)
CutAt(j) == IF j <= 2 THEN j ELSE j - 1

CutsOf(q, m) == {SubSeq(q, 1, CutAt(j)) : j \in {i \in 1 .. m : q[i] = Sep}}

LEMMA RangeOfConcat ==
  ASSUME NEW T, NEW a \in T, NEW w \in Seq(T)
  PROVE  <<a>> \o w \in Seq(T) /\ Range(<<a>> \o w) = {a} \cup Range(w)
<1> DEFINE u == <<a>>
           x == u \o w
<1>1. u \in Seq(T) /\ Len(u) = 1 /\ u[1] = a
  OBVIOUS
<1> HIDE DEF u
<1>2. /\ x \in Seq(T) /\ Len(x) = 1 + Len(w)
      /\ \A i \in 1 .. 1 + Len(w) : x[i] = IF i <= 1 THEN u[i] ELSE w[i - 1]
  <2>1. /\ u \o w \in Seq(T) /\ Len(u \o w) = Len(u) + Len(w)
        /\ \A i \in 1 .. Len(u) + Len(w) :
             (u \o w)[i] = IF i <= Len(u) THEN u[i] ELSE w[i - Len(u)]
    BY <1>1, ConcatProperties
  <2> QED
    BY <1>1, <2>1
<1> HIDE DEF x
<1>3. DOMAIN x = 1 .. 1 + Len(w) /\ DOMAIN w = 1 .. Len(w) /\ Len(w) \in Nat
  BY <1>2
<1>4. x[1] = a /\ 1 \in DOMAIN x
  BY <1>1, <1>2, <1>3
<1>5. ASSUME NEW i \in DOMAIN x, i # 1
      PROVE  i - 1 \in DOMAIN w /\ x[i] = w[i - 1]
  BY <1>2, <1>3, <1>5
<1>6. ASSUME NEW i \in DOMAIN w
      PROVE  i + 1 \in DOMAIN x /\ x[i + 1] = w[i]
  BY <1>2, <1>3
<1>7. Range(x) = {a} \cup Range(w)
  BY <1>4, <1>5, <1>6 DEF Range
<1> QED
  BY <1>2, <1>7 DEF x, u

LEMMA VisitedUnfold ==
  ASSUME NEW p, Stripped(p) \in Seq(Token)
  PROVE  LET q == Stripped(p)
         IN  \E f \in [0 .. Len(q) -> Seq(Seq(Token))] :
               /\ f[0] = <<>>
               /\ \A m \in 0 .. Len(q) - 1 :
                    f[m + 1] = IF q[m + 1] # Sep THEN f[m]
                               ELSE IF m + 1 <= 2 THEN <<SubSeq(q, 1, m + 1)>>
                               ELSE <<SubSeq(q, 1, (m + 1) - 1)>> \o f[m]
               /\ VisitedPaths(p) = <<q>> \o f[Len(q)]
<1> DEFINE q == Stripped(p)
           N == Len(q)
           T == Seq(Seq(Token))
           e == <<>>
           Step(n, w) == IF q[n] # Sep THEN w
                         ELSE IF n <= 2 THEN <<SubSeq(q, 1, n)>>
                         ELSE <<SubSeq(q, 1, n - 1)>> \o w
           g == [n \in 1 .. N |-> [w \in T |-> Step(n, w)]]
           R(f) == [n \in 0 .. N |-> IF n = 0 THEN e ELSE Step(n, f[n - 1])]
<1> HIDE DEF q
<1>1. N \in Nat /\ q \in Seq(Token)
  BY DEF q
<1>2. ASSUME NEW n \in 1 .. N, NEW w \in T
      PROVE  Step(n, w) \in T
  <2>1. SubSeq(q, 1, n) \in Seq(Token)
    BY <1>1, SliceIs
  <2>2. SubSeq(q, 1, n - 1) \in Seq(Token)
    <3>1. n - 1 \in 0 .. Len(q) /\ 1 <= (n - 1) + 1
      BY <1>1
    <3> QED
      BY <1>1, <3>1, SliceIs
  <2> QED
    BY <2>1, <2>2, RangeOfConcat
<1> HIDE DEF Step
<1>3. g \in [1 .. N -> [T -> T]]
  BY <1>2
<1>4. e \in T
  OBVIOUS
<1> HIDE DEF e, T
<1>5. PICK f \in [0 .. N -> T] : f[0] = e /\ \A n \in 1 .. N : f[n] = g[n][f[n - 1]]
  <2> HIDE DEF g, N
  <2>1. N \in Nat
    BY <1>1
  <2> QED
    BY <2>1, <1>3, <1>4, RecursiveFunctionExists
<1>6. ASSUME NEW n \in 1 .. N
      PROVE  f[n] = Step(n, f[n - 1])
  <2>1. f[n - 1] \in T
    BY <1>5
  <2>2. f[n] = g[n][f[n - 1]]
    BY <1>5
  <2> QED
    BY <2>1, <2>2
<1> HIDE DEF g
<1>7. f = R(f)
  <2>1. ASSUME NEW n \in 0 .. N
        PROVE  R(f)[n] = f[n]
    <3>1. CASE n = 0
      BY <1>5, <3>1
    <3>2. CASE n # 0
      <4>1. n \in 1 .. N
        BY <3>2
      <4> QED
        BY <1>6, <3>2, <4>1
    <3> QED
      BY <3>1, <3>2
  <2> DEFINE r == R(f)
  <2>2. DOMAIN r = 0 .. N /\ r = [n \in 0 .. N |-> r[n]]
    OBVIOUS
  <2> HIDE DEF r
  <2>3. \A n \in 0 .. N : r[n] = f[n]
    BY <2>1 DEF r
  <2>4. f = r
    BY <2>2, <2>3
  <2> QED
    BY <2>4 DEF r
<1> DEFINE h == CHOOSE f_1 : f_1 = R(f_1)
<1>8. h = R(h)
  BY <1>7
<1>9. VisitedPaths(p) = <<q>> \o h[N]
  BY DEF VisitedPaths, Step, e, q
<1> HIDE DEF h
<1>10. \A n \in 0 .. N : h[n] = IF n = 0 THEN e ELSE Step(n, h[n - 1])
  BY <1>8
<1>11. h[0] = e /\ \A m \in 0 .. N - 1 : h[m + 1] = Step(m + 1, h[m])
  <2>1. h[0] = e
    BY <1>1, <1>10
  <2>2. ASSUME NEW m \in 0 .. N - 1
        PROVE  h[m + 1] = Step(m + 1, h[m])
    <3>1. m + 1 \in 0 .. N /\ m + 1 # 0 /\ (m + 1) - 1 = m
      BY <1>1
    <3> QED
      BY <1>10, <3>1
  <2> QED
    BY <2>1, <2>2
<1>12. \A n \in 0 .. N : h[n] \in T
  <2> DEFINE S == {m \in Nat : m <= N => h[m] \in T}
  <2>1. 0 \in S
    BY <1>4, <1>11
  <2>2. ASSUME NEW m \in Nat, m \in S
        PROVE  m + 1 \in S
    <3> SUFFICES ASSUME m + 1 <= N PROVE h[m + 1] \in T
      OBVIOUS
    <3>1. h[m] \in T /\ m + 1 \in 1 .. N /\ m \in 0 .. N - 1
      BY <1>1, <2>2
    <3> QED
      BY <1>2, <1>11, <3>1
  <2> HIDE DEF S
  <2>3. \A m \in Nat : m \in S => m + 1 \in S
    BY <2>2
  <2>4. Nat \subseteq S
    BY <2>1, <2>3, NatInductionOnSets
  <2> QED
    BY <2>4 DEF S
<1>13. h \in [0 .. N -> T]
  BY <1>8, <1>12
<1> HIDE DEF N
<1>14. \A m \in 0 .. N - 1 : h[m + 1] = IF q[m + 1] # Sep THEN h[m]
                                        ELSE IF m + 1 <= 2 THEN <<SubSeq(q, 1, m + 1)>>
                                        ELSE <<SubSeq(q, 1, (m + 1) - 1)>> \o h[m]
  BY <1>11 DEF Step
<1>15. h[0] = <<>>
  BY <1>11 DEF e
<1> QED
  BY <1>9, <1>13, <1>14, <1>15 DEF N, T, q

LEMMA CutsGrow ==
  ASSUME NEW q, NEW m \in Nat
  PROVE  /\ CutsOf(q, 0) = {}
         /\ q[m + 1] # Sep => CutsOf(q, m + 1) = CutsOf(q, m)
         /\ q[m + 1] = Sep => CutsOf(q, m + 1) = {SubSeq(q, 1, CutAt(m + 1))} \cup CutsOf(q, m)
<1>1. 1 .. 0 = {} /\ 1 .. m + 1 = 1 .. m \cup {m + 1}
  OBVIOUS
<1>2. CutsOf(q, 0) = {}
  BY <1>1 DEF CutsOf
<1>3. ASSUME q[m + 1] # Sep
      PROVE  {i \in 1 .. m + 1 : q[i] = Sep} = {i \in 1 .. m : q[i] = Sep}
  BY <1>1, <1>3
<1>4. ASSUME q[m + 1] = Sep
      PROVE  {i \in 1 .. m + 1 : q[i] = Sep} = {i \in 1 .. m : q[i] = Sep} \cup {m + 1}
  BY <1>1, <1>4
<1>5. q[m + 1] # Sep => CutsOf(q, m + 1) = CutsOf(q, m)
  BY <1>3 DEF CutsOf
<1>6. ASSUME q[m + 1] = Sep
      PROVE  CutsOf(q, m + 1) = {SubSeq(q, 1, CutAt(m + 1))} \cup CutsOf(q, m)
  <2> DEFINE I == {i \in 1 .. m : q[i] = Sep}
             C(j) == SubSeq(q, 1, CutAt(j))
  <2>1. CutsOf(q, m + 1) = {C(j) : j \in I \cup {m + 1}}
    BY <1>4, <1>6 DEF CutsOf
  <2>2. CutsOf(q, m) = {C(j) : j \in I}
    BY DEF CutsOf
  <2> HIDE DEF I, C
  <2>3. {C(j) : j \in I \cup {m + 1}} = {C(m + 1)} \cup {C(j) : j \in I}
    OBVIOUS
  <2> QED
    BY <2>1, <2>2, <2>3 DEF C
<1> QED
  BY <1>2, <1>5, <1>6

LEMMA RangeOfOne ==
  ASSUME NEW a
  PROVE  Range(<<a>>) = {a}
<1> DEFINE s == <<a>>
<1>1. DOMAIN s = {1} /\ s[1] = a
  OBVIOUS
<1> HIDE DEF s
<1>2. Range(s) = {a}
  BY <1>1 DEF Range
<1> QED
  BY <1>2 DEF s

LEMMA VisitedAre ==
  ASSUME NEW p, NEW q, q = Stripped(p), q \in Seq(Token), q[1] # Sep
  PROVE  Range(VisitedPaths(p)) = {q} \cup CutsOf(q, Len(q))
<1> DEFINE N == Len(q)
           T == Seq(Seq(Token))
<1>1. PICK f \in [0 .. N -> T] :
        /\ f[0] = <<>>
        /\ \A m \in 0 .. N - 1 :
             f[m + 1] = IF q[m + 1] # Sep THEN f[m]
                        ELSE IF m + 1 <= 2 THEN <<SubSeq(q, 1, m + 1)>>
                        ELSE <<SubSeq(q, 1, (m + 1) - 1)>> \o f[m]
        /\ VisitedPaths(p) = <<q>> \o f[N]
  BY VisitedUnfold
<1>2. N \in Nat
  OBVIOUS
<1> DEFINE S == {m \in Nat : m <= N => Range(f[m]) = CutsOf(q, m)}
<1>3. 0 \in S
  <2>1. Range(f[0]) = {}
    BY <1>1 DEF Range
  <2> QED
    BY <2>1, CutsGrow
<1>4. ASSUME NEW m \in Nat, m \in S
      PROVE  m + 1 \in S
  <2> SUFFICES ASSUME m + 1 <= N PROVE Range(f[m + 1]) = CutsOf(q, m + 1)
    OBVIOUS
  <2>1. Range(f[m]) = CutsOf(q, m) /\ m \in 0 .. N - 1 /\ f[m] \in T /\ m + 1 \in 1 .. N
    BY <1>1, <1>2, <1>4
  <2>2. f[m + 1] = IF q[m + 1] # Sep THEN f[m]
                   ELSE IF m + 1 <= 2 THEN <<SubSeq(q, 1, m + 1)>>
                   ELSE <<SubSeq(q, 1, (m + 1) - 1)>> \o f[m]
    BY <1>1, <2>1
  <2>3. CASE q[m + 1] # Sep
    <3>1. f[m + 1] = f[m]
      BY <2>2, <2>3
    <3>2. CutsOf(q, m + 1) = CutsOf(q, m)
      BY <2>3, CutsGrow
    <3> QED
      BY <2>1, <3>1, <3>2
  <2>4. CASE q[m + 1] = Sep /\ m + 1 <= 2
    <3>1. m = 1
      BY <2>4
    <3> DEFINE a == SubSeq(q, 1, 2)
    <3>2. f[m + 1] = <<a>>
      BY <2>2, <2>4, <3>1
    <3>3. Range(<<a>>) = {a}
      BY RangeOfOne
    <3>4. CutsOf(q, 1) = {}
      <4>1. CutsOf(q, 0 + 1) = CutsOf(q, 0) /\ CutsOf(q, 0) = {}
        BY CutsGrow
      <4> QED
        BY <4>1
    <3>5. CutsOf(q, m + 1) = {SubSeq(q, 1, CutAt(m + 1))} \cup CutsOf(q, m)
      BY <2>4, CutsGrow
    <3>6. CutAt(m + 1) = 2
      BY <3>1 DEF CutAt
    <3> HIDE DEF a
    <3>7. CutsOf(q, m + 1) = {a}
      BY <3>1, <3>4, <3>5, <3>6 DEF a
    <3> QED
      BY <3>2, <3>3, <3>7
  <2>5. CASE q[m + 1] = Sep /\ ~(m + 1 <= 2)
    <3> DEFINE a == SubSeq(q, 1, m)
    <3>1. f[m + 1] = <<a>> \o f[m]
      <4>1. (m + 1) - 1 = m
        OBVIOUS
      <4> QED
        BY <2>2, <2>5, <4>1
    <3>2. a \in Seq(Token)
      BY <2>1, SliceIs
    <3> HIDE DEF a
    <3>3. Range(<<a>> \o f[m]) = {a} \cup Range(f[m])
      BY <2>1, <3>2, RangeOfConcat
    <3>4. CutsOf(q, m + 1) = {SubSeq(q, 1, CutAt(m + 1))} \cup CutsOf(q, m)
      BY <2>5, CutsGrow
    <3>5. CutAt(m + 1) = m
      BY <2>5 DEF CutAt
    <3>6. CutsOf(q, m + 1) = {a} \cup CutsOf(q, m)
      BY <3>4, <3>5 DEF a
    <3> QED
      BY <2>1, <3>1, <3>3, <3>6
  <2> QED
    BY <2>3, <2>4, <2>5
<1> HIDE DEF S
<1>5. \A m \in Nat : m \in S => m + 1 \in S
  BY <1>4
<1>6. N \in S
  BY <1>2, <1>3, <1>5, NatInductionOnSets
<1>7. Range(f[N]) = CutsOf(q, N) /\ f[N] \in T
  BY <1>1, <1>2, <1>6 DEF S
<1>8. Range(<<q>> \o f[N]) = {q} \cup Range(f[N])
  BY <1>7, RangeOfConcat
<1> QED
  BY <1>1, <1>7, <1>8

-----------------------------------------------------------------------------
(* The key of what is left of a path, cut behind the root or a name.       *)
LEMMA KeyOfCut ==
  ASSUME NEW p, DriveShape(p), NEW k \in 2 .. Len(p), k = 2 \/ k % 2 = 1
  PROVE  CacheKey(SubSeq(p, 1, k))
           = Canonical(TRUE, SubSeq(Components(p), 1, (k + 1) \div 2))
<1> DEFINE v == SubSeq(p, 1, k)
           c == Components(p)
           d == Components(v)
           n == (k + 1) \div 2
           b == SubSeq(c, 1, n)
<1>1. p \in Seq(Token) /\ Len(p) \in Nat /\ Len(p) >= 2 /\ k \in Nat
  BY DEF DriveShape
<1>2. DriveShape(v) /\ Len(v) = k /\ \A i \in 1 .. k : v[i] = p[i]
  BY CutKeepsShape
<1>3. /\ c \in Lowered /\ Len(c) = (Len(p) + 1) \div 2
      /\ \A j \in 1 .. (Len(p) + 1) \div 2 : c[j] = Lower[p[2 * j - 1]]
  BY ComponentsOfDrive
<1> HIDE DEF v, c
<1>4. /\ d \in Lowered /\ Len(d) = n
      /\ \A j \in 1 .. n : d[j] = Lower[v[2 * j - 1]]
  BY <1>2, ComponentsOfDrive
<1> HIDE DEF d
<1>5. n \in 1 .. Len(c) /\ n \in Nat
  BY <1>1, <1>3
<1>6. \A j \in 1 .. n : 2 * j - 1 \in 1 .. k
  <2>1. CASE k = 2
    BY <2>1
  <2>2. CASE k % 2 = 1
    BY <1>1, <2>2
  <2> QED
    BY <2>1, <2>2
<1> HIDE DEF n
<1>7. /\ b \in Lowered /\ Len(b) = n /\ \A j \in 1 .. n : b[j] = c[j]
  <2>1. c \in Seq(Drive \cup Name)
    BY <1>3 DEF Lowered
  <2>2. n \in 0 .. Len(c) /\ 1 <= n + 1
    BY <1>5
  <2> QED
    BY <1>5, <2>1, <2>2, SliceIs DEF Lowered
<1> HIDE DEF b
<1>8. ASSUME NEW j \in 1 .. n
      PROVE  b[j] = d[j]
  <2>1. j \in 1 .. (Len(p) + 1) \div 2
    BY <1>3, <1>5
  <2>2. v[2 * j - 1] = p[2 * j - 1]
    BY <1>2, <1>6
  <2> QED
    BY <1>3, <1>4, <1>7, <2>1, <2>2
<1>9. b = d
  BY <1>4, <1>7, <1>8, SeqEqual DEF Lowered
<1>10. CacheKey(v) = Canonical(TRUE, d)
  BY <1>2, KeyOfDrivePath DEF d
<1> QED
  BY <1>9, <1>10 DEF v, b, n, c

LEMMA InvalidationOfDrivePath ==
  ASSUME NEW p, DriveShape(p), \A i \in 1 .. Len(p) : p[i] # AltSep
  PROVE  {CacheKey(v) : v \in Range(VisitedPaths(p))}
           = {Canonical(TRUE, SubSeq(Components(p), 1, n)) : n \in 1 .. Len(Components(p))}
<1> DEFINE N == Len(p)
           K == KeptLength(p)
           q == SubSeq(p, 1, K)
           M == (N + 1) \div 2
           Key(n) == Canonical(TRUE, SubSeq(Components(p), 1, n))
           Ks == {K} \cup {CutAt(j) : j \in {i \in 1 .. K : q[i] = Sep}}
<1>1. p \in Seq(Token) /\ N \in Nat /\ N >= 2
  BY DEF DriveShape
<1>2. /\ K \in 2 .. N /\ (K = 2 \/ K % 2 = 1)
      /\ (K + 1) \div 2 = M
  <2>1. K = IF N > 2 /\ N % 2 # 1 THEN N - 1 ELSE N
    BY DEF KeptLength
  <2> HIDE DEF N, K
  <2> QED
    BY <1>1, <2>1, KeptFacts
<1>3. q = Stripped(p)
  BY StrippedIs
<1>4. DriveShape(q) /\ Len(q) = K /\ \A i \in 1 .. K : q[i] = p[i]
  BY <1>2, CutKeepsShape
<1>5. q \in Seq(Token) /\ q[1] # Sep
  BY <1>4, TokensDiffer DEF DriveShape
<1> HIDE DEF K
<1>6. Range(VisitedPaths(p)) = {q} \cup CutsOf(q, K)
  <2> HIDE DEF q
  <2> QED
    BY <1>3, <1>4, <1>5, VisitedAre
<1>7. ASSUME NEW j \in 1 .. K
      PROVE  q[j] = Sep <=> j % 2 # 1
  <2>1. CASE j = 1
    BY <1>5, <2>1
  <2>2. CASE j # 1
    <3>1. j \in 2 .. Len(p) /\ j \in 1 .. Len(p)
      BY <1>1, <1>2, <2>2
    <3>2. IF j % 2 = 1 THEN p[j] \in Name ELSE p[j] \in {Sep, AltSep}
      BY <3>1 DEF DriveShape
    <3>3. p[j] # AltSep /\ q[j] = p[j]
      BY <1>4, <3>1
    <3> QED
      BY <3>2, <3>3, TokensDiffer
  <2> QED
    BY <2>1, <2>2
<1>8. \A k \in Ks : k \in 2 .. K /\ (k = 2 \/ k % 2 = 1)
  <2>1. ASSUME NEW j \in 1 .. K, q[j] = Sep
        PROVE  CutAt(j) \in 2 .. K /\ (CutAt(j) = 2 \/ CutAt(j) % 2 = 1)
    <3>1. j % 2 # 1
      BY <1>7, <2>1
    <3>2. j \in Nat /\ j >= 2 /\ K \in Nat
      BY <1>2, <3>1
    <3>3. CASE j = 2
      BY <3>2, <3>3 DEF CutAt
    <3>4. CASE j # 2
      BY <3>1, <3>2, <3>4 DEF CutAt
    <3> QED
      BY <3>3, <3>4
  <2> QED
    BY <1>2, <2>1
<1>9. \A n \in 1 .. M : \E k \in Ks : (k + 1) \div 2 = n
  <2> TAKE n \in 1 .. M
  <2>1. n \in Nat /\ n >= 1 /\ M \in Nat /\ K \in Nat
    BY <1>1, <1>2
  <2>2. CASE n = 1
    <3>1. (2 + 1) \div 2 = 1
      OBVIOUS
    <3>2. 2 \in 1 .. K /\ q[2] = Sep /\ CutAt(2) = 2
      BY <1>2, <1>7 DEF CutAt
    <3>3. 2 \in Ks
      BY <3>2
    <3> QED
      BY <2>2, <3>1, <3>3
  <2>3. CASE n # 1
    <3> DEFINE k == 2 * n - 1
    <3>1. (k + 1) \div 2 = n /\ k <= K /\ k \in Nat /\ k >= 3 /\ k % 2 = 1
      BY <1>2, <2>1, <2>3
    <3>2. CASE k = K
      BY <3>1, <3>2
    <3>3. CASE k # K
      <4>1. k + 1 \in 1 .. K /\ (k + 1) % 2 # 1 /\ CutAt(k + 1) = k
        BY <2>1, <3>1, <3>3 DEF CutAt
      <4>2. q[k + 1] = Sep
        BY <1>7, <4>1
      <4>3. k \in Ks
        BY <4>1, <4>2
      <4> QED
        BY <3>1, <4>3
    <3> QED
      BY <3>2, <3>3
  <2> QED
    BY <2>2, <2>3
<1>10. \A k \in 2 .. K : SubSeq(q, 1, k) = SubSeq(p, 1, k)
  <2> TAKE k \in 2 .. K
  <2>1. k \in 0 .. Len(q) /\ k \in 0 .. Len(p) /\ 1 <= k + 1
    BY <1>1, <1>2, <1>4
  <2>2. /\ SubSeq(q, 1, k) \in Seq(Token) /\ Len(SubSeq(q, 1, k)) = k
        /\ \A i \in 1 .. k : SubSeq(q, 1, k)[i] = q[i]
    BY <1>5, <2>1, SliceIs
  <2>3. /\ SubSeq(p, 1, k) \in Seq(Token) /\ Len(SubSeq(p, 1, k)) = k
        /\ \A i \in 1 .. k : SubSeq(p, 1, k)[i] = p[i]
    BY <1>1, <2>1, SliceIs
  <2>4. \A i \in 1 .. k : SubSeq(q, 1, k)[i] = SubSeq(p, 1, k)[i]
    BY <1>2, <1>4, <2>2, <2>3
  <2> QED
    BY <2>2, <2>3, <2>4, SeqEqual
<1>11. Range(VisitedPaths(p)) = {SubSeq(p, 1, k) : k \in Ks}
  <2>1. \A j \in {i \in 1 .. K : q[i] = Sep} : SubSeq(q, 1, CutAt(j)) = SubSeq(p, 1, CutAt(j))
    BY <1>8, <1>10
  <2>2. CutsOf(q, K) = {SubSeq(p, 1, CutAt(j)) : j \in {i \in 1 .. K : q[i] = Sep}}
    BY <2>1 DEF CutsOf
  <2> QED
    BY <1>6, <2>2
<1>12. \A k \in Ks : /\ CacheKey(SubSeq(p, 1, k)) = Key((k + 1) \div 2)
                     /\ (k + 1) \div 2 \in 1 .. M
  <2> TAKE k \in Ks
  <2>1. k \in 2 .. Len(p) /\ (k = 2 \/ k % 2 = 1) /\ k \in 2 .. K
    BY <1>1, <1>2, <1>8
  <2>2. (k + 1) \div 2 \in 1 .. M
    BY <1>1, <1>2, <2>1
  <2> QED
    BY <2>1, <2>2, KeyOfCut
<1>13. Len(Components(p)) = M
  BY ComponentsOfDrive
<1> HIDE DEF Ks, M, Key
<1>14. {CacheKey(v) : v \in Range(VisitedPaths(p))} = {Key((k + 1) \div 2) : k \in Ks}
  <2> DEFINE Cut(k) == SubSeq(p, 1, k)
             m(k)   == (k + 1) \div 2
  <2>1. \A k \in Ks : CacheKey(Cut(k)) = Key(m(k))
    BY <1>12
  <2>2. Range(VisitedPaths(p)) = {Cut(k) : k \in Ks}
    BY <1>11
  <2> HIDE DEF Cut, m
  <2>3. {CacheKey(v) : v \in Range(VisitedPaths(p))} = {Key(m(k)) : k \in Ks}
    BY <2>1, <2>2
  <2> QED
    BY <2>3 DEF m
<1>15. {Key((k + 1) \div 2) : k \in Ks} = {Key(n) : n \in 1 .. M}
  BY <1>9, <1>12
<1> QED
  BY <1>13, <1>14, <1>15 DEF Key

-----------------------------------------------------------------------------
(* A path that ends in no separator is stripped of nothing, and the walk   *)
(* from it cuts it behind the root and before each separator beyond.       *)
LEMMA NothingIsStripped ==
  ASSUME NEW p \in Seq(Token), p[Len(p)] # Sep
  PROVE  Stripped(p) = p
<1> DEFINE N == Len(p)
           Stops(n) == LET q == SubSeq(p, 1, n)
                       IN  ~(LongerThanRoot(q) /\ EndsInSep(q))
           Found(n) == Stops(n) /\ \A m \in n + 1 .. N : ~Stops(m)
           kept == CHOOSE n \in 0 .. N : Found(n)
<1>1. N \in Nat /\ SubSeq(p, 1, N) = p
  BY SubSeqFull
<1>2. Stops(N)
  BY <1>1 DEF EndsInSep
<1> HIDE DEF Stops
<1>3. Found(N)
  BY <1>1, <1>2
<1>4. kept \in 0 .. N /\ Found(kept)
  BY <1>1, <1>3
<1>5. Stripped(p) = SubSeq(p, 1, kept)
  BY DEF Stripped, Stops
<1> HIDE DEF kept
<1>6. kept = N
  <2>1. \A m \in kept + 1 .. N : ~Stops(m)
    BY <1>4
  <2>2. N \notin kept + 1 .. N
    BY <1>2, <2>1
  <2>3. N \in Nat /\ kept \in 0 .. N
    BY <1>1, <1>4
  <2> HIDE DEF N
  <2> QED
    BY <2>2, <2>3
<1> QED
  BY <1>1, <1>5, <1>6

LEMMA CutsAreVisited ==
  ASSUME NEW p, NEW q, q = Stripped(p), q \in Seq(Token), NEW i \in 2 .. Len(q), q[i] = Sep
  PROVE  SubSeq(q, 1, CutAt(i)) \in Range(VisitedPaths(p))
<1> DEFINE N == Len(q)
           T == Seq(Seq(Token))
<1>1. PICK f \in [0 .. N -> T] :
        /\ f[0] = <<>>
        /\ \A m \in 0 .. N - 1 :
             f[m + 1] = IF q[m + 1] # Sep THEN f[m]
                        ELSE IF m + 1 <= 2 THEN <<SubSeq(q, 1, m + 1)>>
                        ELSE <<SubSeq(q, 1, (m + 1) - 1)>> \o f[m]
        /\ VisitedPaths(p) = <<q>> \o f[N]
  BY VisitedUnfold
<1>2. N \in Nat /\ i \in Nat /\ i >= 2 /\ i <= N
  OBVIOUS
<1> DEFINE a == SubSeq(q, 1, CutAt(i))
           S == {m \in Nat : i <= m /\ m <= N => a \in Range(f[m])}
<1>3. 0 \in S
  BY <1>2
<1>4. ASSUME NEW m \in Nat, m \in S
      PROVE  m + 1 \in S
  <2> SUFFICES ASSUME i <= m + 1, m + 1 <= N PROVE a \in Range(f[m + 1])
    OBVIOUS
  <2>1. m \in 0 .. N - 1 /\ f[m] \in T /\ (i <= m => a \in Range(f[m]))
    <3>1. m \in 0 .. N - 1
      BY <1>2
    <3>2. i <= m /\ m <= N => a \in Range(f[m])
      BY <1>4
    <3> HIDE DEF a, T
    <3> QED
      BY <1>2, <3>1, <3>2
  <2>2. f[m + 1] = IF q[m + 1] # Sep THEN f[m]
                   ELSE IF m + 1 <= 2 THEN <<SubSeq(q, 1, m + 1)>>
                   ELSE <<SubSeq(q, 1, (m + 1) - 1)>> \o f[m]
    BY <1>1, <2>1
  <2>3. i # m + 1 => i <= m
    BY <1>2
  <2>4. CASE q[m + 1] # Sep
    BY <2>1, <2>2, <2>3, <2>4
  <2>5. CASE q[m + 1] = Sep /\ m + 1 <= 2
    <3>1. i = m + 1 /\ CutAt(i) = i
      BY <1>2, <2>5 DEF CutAt
    <3>2. f[m + 1] = <<a>>
      BY <2>2, <2>5, <3>1
    <3> HIDE DEF a
    <3> QED
      BY <3>2, RangeOfOne
  <2>6. CASE q[m + 1] = Sep /\ ~(m + 1 <= 2)
    <3> DEFINE b == SubSeq(q, 1, m)
    <3>1. (m + 1) - 1 = m /\ m \in 0 .. N /\ 1 <= m + 1
      BY <2>1
    <3>2. f[m + 1] = <<b>> \o f[m]
      BY <2>2, <2>6, <3>1
    <3>3. b \in Seq(Token)
      BY <3>1, SliceIs
    <3>4. i = m + 1 => a = b
      BY <2>6 DEF CutAt
    <3> HIDE DEF a, b
    <3>5. Range(f[m + 1]) = {b} \cup Range(f[m])
      BY <2>1, <3>2, <3>3, RangeOfConcat
    <3> QED
      BY <2>1, <2>3, <3>4, <3>5
  <2> QED
    BY <2>4, <2>5, <2>6
<1> HIDE DEF S
<1>5. \A m \in Nat : m \in S => m + 1 \in S
  BY <1>4
<1>6. N \in S
  BY <1>2, <1>3, <1>5, NatInductionOnSets
<1>7. a \in Range(f[N]) /\ f[N] \in T
  <2>1. f[N] \in T
    <3> HIDE DEF T, N
    <3> QED
      BY <1>2
  <2> HIDE DEF a, T, N
  <2>2. i <= N /\ N <= N
    BY <1>2
  <2>3. a \in Range(f[N])
    BY <1>6, <2>2 DEF S
  <2> QED
    BY <2>1, <2>3
<1> HIDE DEF a
<1>8. Range(<<q>> \o f[N]) = {q} \cup Range(f[N])
  BY <1>7, RangeOfConcat
<1> QED
  BY <1>1, <1>7, <1>8 DEF a

(* The walk from a file visits every folder above it: whatever begins the  *)
(* key of the folder it is in, and is a key itself, is a visited path's.   *)
LEMMA FoldersAboveAreVisited ==
  ASSUME NEW p, DriveShape(p) \/ ServerShape(p),
         \A i \in 1 .. Len(p) : p[i] # AltSep, p[Len(p)] \in Name,
         NEW k \in Seq(Token), Len(k) >= 2, LongerThanRoot(k) => ~EndsInSep(k),
         Len(k) <= Len(CacheKey(Chop(p))), SubSeq(CacheKey(Chop(p)), 1, Len(k)) = k
  PROVE  \E v \in Range(VisitedPaths(p)) : CacheKey(v) = k
<1> DEFINE N == Len(p)
           L == Len(k)
           o == Chop(p)
           g == CacheKey(o)
           s == Spelling(o)
           v == SubSeq(p, 1, L)
<1>1. p \in Seq(Token) /\ N \in Nat /\ N >= 3 /\ L \in Nat /\ L >= 2 /\ p[N] # Sep
  <2>1. p \in Seq(Token) /\ N \in Nat /\ N >= 2 /\ p[N] # Sep
    BY TokensDiffer DEF DriveShape, ServerShape
  <2>2. N # 2
    <3>1. CASE DriveShape(p)
      <4>1. N = 2 => p[2] \in {Sep, AltSep}
        BY <3>1 DEF DriveShape
      <4> QED
        BY <4>1, TokensDiffer
    <3>2. CASE ServerShape(p)
      BY <3>2 DEF ServerShape
    <3> QED
      BY <3>1, <3>2
  <2>3. L \in Nat /\ L >= 2
    OBVIOUS
  <2> HIDE DEF N, L
  <2> QED
    BY <2>1, <2>2, <2>3
<1>2. /\ o \in Seq(Token) /\ Len(o) = N - 1
      /\ \A i \in 1 .. N - 1 : o[i] = p[i]
  <2>1. N - 1 \in 0 .. Len(p) /\ 1 <= (N - 1) + 1
    BY <1>1
  <2> QED
    BY <1>1, <2>1, SliceIs DEF Chop
<1> HIDE DEF o
<1>3. /\ s \in Seq(Token) /\ Len(s) = N - 1
      /\ \A i \in 1 .. N - 1 : s[i] = LowerToken(p[i])
  <2>1. /\ s \in Seq(Token) /\ Len(s) = N - 1
        /\ \A i \in 1 .. N - 1 : s[i] = IF o[i] = AltSep THEN Sep ELSE LowerToken(o[i])
    BY <1>2, SpellingFacts
  <2>2. \A i \in 1 .. N - 1 : o[i] # AltSep /\ o[i] = p[i]
    BY <1>1, <1>2
  <2> QED
    BY <2>1, <2>2
<1>4. g = Respelled(s)
  BY <1>2, KeysAreRespelled
<1> HIDE DEF s
<1>5. L <= N - 1 /\ \A i \in 1 .. L : k[i] = s[i]
  <2>1. L <= Len(g) /\ SubSeq(g, 1, L) = k
    BY DEF o
  <2>2. g \in Seq(Token) /\ Len(g) <= N - 1 /\ \A i \in 1 .. Len(g) : g[i] = s[i]
    <3>1. CASE LongerThanRoot(s) /\ EndsInSep(s)
      <4>1. g = SubSeq(s, 1, N - 2) /\ N - 2 \in 0 .. Len(s) /\ 1 <= (N - 2) + 1
        BY <1>1, <1>3, <1>4, <3>1 DEF Respelled, Chop
      <4>2. g \in Seq(Token) /\ Len(g) = N - 2 /\ \A i \in 1 .. N - 2 : g[i] = s[i]
        BY <1>1, <1>3, <4>1, SliceIs
      <4> HIDE DEF g
      <4> QED
        BY <1>1, <4>2
    <3>2. CASE ~(LongerThanRoot(s) /\ EndsInSep(s))
      BY <1>3, <1>4, <3>2 DEF Respelled
    <3> QED
      BY <3>1, <3>2
  <2> HIDE DEF g, L
  <2>3. L \in 0 .. Len(g) /\ 1 <= L + 1
    BY <1>1, <2>1
  <2>4. \A i \in 1 .. L : k[i] = g[i]
    BY <1>1, <2>1, <2>2, <2>3, SliceIs
  <2> QED
    BY <1>1, <2>1, <2>2, <2>4
<1>6. /\ v \in Seq(Token) /\ Len(v) = L
      /\ \A i \in 1 .. L : v[i] = p[i] /\ v[i] # AltSep
  <2>1. L \in 0 .. Len(p) /\ 1 <= L + 1 /\ \A i \in 1 .. L : i \in 1 .. N
    BY <1>1, <1>5
  <2> QED
    BY <1>1, <2>1, SliceIs
<1>7. Spelling(v) = k
  <2> HIDE DEF L, v
  <2>1. /\ Spelling(v) \in Seq(Token) /\ Len(Spelling(v)) = L
        /\ \A i \in 1 .. L : Spelling(v)[i] = LowerToken(p[i])
    BY <1>6, SpellingFacts
  <2>2. \A i \in 1 .. L : i \in 1 .. N - 1
    BY <1>1, <1>5
  <2>3. \A i \in 1 .. L : Spelling(v)[i] = k[i]
    BY <1>3, <1>5, <2>1, <2>2
  <2>4. k \in Seq(Token) /\ Len(k) = L
    BY DEF L
  <2> QED
    BY <2>1, <2>3, <2>4, SeqEqual
<1>8. CacheKey(v) = k
  BY <1>6, <1>7, KeysAreRespelled DEF Respelled
<1> HIDE DEF v
<1>9. \A i \in 2 .. N : /\ i = 2 => p[i] = Sep
                        /\ i > 2 /\ i % 2 = 1 => p[i] \in Name
                        /\ i > 2 /\ i % 2 # 1 => p[i] = Sep
  <2> TAKE i \in 2 .. N
  <2>1. p[i] # AltSep /\ i \in 1 .. N
    BY <1>1
  <2>2. CASE DriveShape(p)
    BY <2>1, <2>2 DEF DriveShape
  <2>3. CASE ServerShape(p)
    BY <2>1, <2>3 DEF ServerShape
  <2> QED
    BY <2>2, <2>3
<1>10. p = Stripped(p)
  BY <1>1, NothingIsStripped
<1>11. CASE L = 2
  <2>1. p[2] = Sep /\ CutAt(2) = 2 /\ 2 \in 2 .. N
    BY <1>1, <1>9 DEF CutAt
  <2>2. v \in Range(VisitedPaths(p))
    BY <1>1, <1>10, <1>11, <2>1, CutsAreVisited DEF v
  <2> QED
    BY <1>8, <2>2
<1>12. CASE L # 2
  <2>1. L >= 3 /\ L \in 2 .. N /\ L \in 1 .. N - 1 /\ L \in 1 .. L
    BY <1>1, <1>5, <1>12
  <2>2. L % 2 = 1
    <3>1. CASE L = 3
      BY <3>1
    <3>2. CASE L # 3
      <4>1. k # <<>> /\ LongerThanRoot(k)
        BY <1>1, <1>12, <3>2 DEF LongerThanRoot
      <4>2. k[L] # Sep
        BY <4>1 DEF EndsInSep
      <4>3. p[L] # Sep
        BY <1>1, <1>3, <1>5, <2>1, <4>2, LowerTokenFacts
      <4> QED
        BY <1>9, <2>1, <4>3
    <3> QED
      BY <3>1, <3>2
  <2>3. L + 1 \in 2 .. N /\ L + 1 > 2 /\ (L + 1) % 2 # 1 /\ CutAt(L + 1) = L
    <3> HIDE DEF L, N
    <3>1. L + 1 \in 2 .. N /\ L + 1 > 2 /\ ~(L + 1 <= 2) /\ (L + 1) - 1 = L
      BY <1>1, <2>1
    <3>2. (L + 1) % 2 # 1
      BY <2>1, <2>2
    <3> QED
      BY <3>1, <3>2 DEF CutAt
  <2>4. p[L + 1] = Sep
    BY <1>9, <2>3
  <2>5. v \in Range(VisitedPaths(p))
    BY <1>1, <1>10, <2>3, <2>4, CutsAreVisited DEF v
  <2> QED
    BY <1>8, <2>5
<1> QED
  BY <1>11, <1>12
=============================================================================
