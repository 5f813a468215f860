------------------------------- MODULE Paths -------------------------------
(***************************************************************************)
(* The three spellings of "the same folder" in the code.  A path is a      *)
(* sequence of tokens: a drive ("C:", two characters), a separator or the  *)
(* name of a file or folder.  Every cache entry, queued request and        *)
(* invalidation is keyed by such a sequence, so the code works only if     *)
(*   - SizeCache::normalize_path,                                          *)
(*   - SizeResolver::normalize_request_path, and                           *)
(*   - the string surgery of ChangeNotifier::invalidate_path_and_ancestors *)
(* agree on what a folder is called.                                       *)
(***************************************************************************)
EXTENDS Naturals, Sequences

CONSTANTS
  Drive,   \* tokens that are a drive letter and a colon, in either case
  Name,    \* tokens that are a file or folder name, in either case
  Lower    \* towlower, as a function on Drive \cup Name

Sep    == "\\"
AltSep == "/"
Token  == Drive \cup Name \cup {Sep, AltSep}

ASSUME LowerAssumption ==
  /\ Lower \in [Drive \cup Name -> Drive \cup Name]
  /\ \A d \in Drive : Lower[d] \in Drive
  /\ \A n \in Name : Lower[n] \in Name
  /\ \A t \in DOMAIN Lower : Lower[Lower[t]] = Lower[t]

(* No name has a colon, and neither a drive nor a name is a separator.     *)
ASSUME TokenAssumption ==
  /\ Drive \cap Name = {}
  /\ {Sep, AltSep} \cap (Drive \cup Name) = {}

IsSep(t) == t \in {Sep, AltSep}

HasDrive(p)  == p # <<>> /\ p[1] \in Drive
EndsInSep(p) == p # <<>> /\ p[Len(p)] = Sep

(* "More than three characters": what follows "C:\", or follows two        *)
(* separators and a one-letter server.                                     *)
LongerThanRoot(p) == Len(p) > IF HasDrive(p) THEN 2 ELSE 3

Chop(p) == SubSeq(p, 1, Len(p) - 1)

LowerToken(t) == IF t \in DOMAIN Lower THEN Lower[t] ELSE t

-----------------------------------------------------------------------------
(***************************************************************************)
(* SizeCache::normalize_path: a pass that lowers every character, a pass   *)
(* that turns "/" into "\", then one trailing separator is dropped unless  *)
(* the path is a root.  The mutant drops it before the second pass.        *)
(***************************************************************************)
KeySwappedLast(p) ==
  LET lowered == [i \in DOMAIN p |-> LowerToken(p[i])]
      chopped == IF LongerThanRoot(lowered) /\ EndsInSep(lowered) THEN Chop(lowered) ELSE lowered
  IN  [i \in DOMAIN chopped |-> IF chopped[i] = AltSep THEN Sep ELSE chopped[i]]

CacheKey(p) ==
  LET lowered == [i \in DOMAIN p |-> LowerToken(p[i])]
      swapped == [i \in DOMAIN p |-> IF lowered[i] = AltSep THEN Sep ELSE lowered[i]]
  IN  IF LongerThanRoot(swapped) /\ EndsInSep(swapped)
      THEN Chop(swapped) ELSE swapped

(***************************************************************************)
(* SizeResolver::normalize_request_path: one pass, "/" or lowering.  The   *)
(* mutant looks for the trailing separator in what it was given.           *)
(***************************************************************************)
RequestKeyOfWritten(p) ==
  LET spelled == [i \in DOMAIN p |-> IF p[i] = AltSep THEN Sep ELSE LowerToken(p[i])]
  IN  IF LongerThanRoot(p) /\ EndsInSep(p) THEN Chop(spelled) ELSE spelled

RequestKey(p) ==
  LET spelled == [i \in DOMAIN p |-> IF p[i] = AltSep THEN Sep ELSE LowerToken(p[i])]
  IN  IF LongerThanRoot(spelled) /\ EndsInSep(spelled)
      THEN Chop(spelled) ELSE spelled

-----------------------------------------------------------------------------
(***************************************************************************)
(* ChangeNotifier::invalidate_path_and_ancestors.  Every trailing "\" is   *)
(* stripped but that of "C:\"; then the path is cut at its last "\" until  *)
(* that "\" is one of the first three characters, where the root itself    *)
(* ("\" kept) comes last.                                                  *)
(***************************************************************************)
Stripped(p) ==
  LET Stops(n) == LET q == SubSeq(p, 1, n)
                  IN  ~(LongerThanRoot(q) /\ EndsInSep(q))
      kept == CHOOSE n \in 0 .. Len(p) :
                Stops(n) /\ \A m \in n + 1 .. Len(p) : ~Stops(m)
  IN  SubSeq(p, 1, kept)

(* The paths the loop hands to SizeCache::invalidate, in the loop's order. *)
(* Walk[n] is what the loop does from the n-th token of the stripped path  *)
(* downwards; a separator among the first two tokens is the root's.        *)
VisitedPathsWithoutRoot(p) ==
  LET q == Stripped(p)
      Walk[n \in 0 .. Len(q)] ==
        IF n <= 2 THEN <<>>
        ELSE IF q[n] # Sep THEN Walk[n - 1]
        ELSE <<SubSeq(q, 1, n - 1)>> \o Walk[n - 1]
  IN  <<q>> \o Walk[Len(q)]

VisitedPaths(p) ==
  LET q == Stripped(p)
      Walk[n \in 0 .. Len(q)] ==
        IF n = 0 THEN <<>>
        ELSE IF q[n] # Sep THEN Walk[n - 1]
        ELSE IF n <= 2 THEN <<SubSeq(q, 1, n)>>
        ELSE <<SubSeq(q, 1, n - 1)>> \o Walk[n - 1]
  IN  <<q>> \o Walk[Len(q)]
=============================================================================
