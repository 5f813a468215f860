---------------------------- MODULE PathSpelling ---------------------------
(***************************************************************************)
(* Holds the operators of Paths against reference definitions, on every    *)
(* spelling of every path up to MaxTokens tokens.  The path is spelled one *)
(* token at a time, so that a counterexample shows the spelling.           *)
(***************************************************************************)
EXTENDS FolderNames, Functions

CONSTANT MaxTokens

VARIABLE path

(* Shell paths start at a drive root or at a server.                       *)
PathInit == path = <<>>

SpellRoot == /\ path = <<>>
             /\ \/ \E d \in Drive, s \in {Sep, AltSep} : path' = <<d, s>>
                \/ \E n \in Name : path' = <<Sep, Sep, n>>

SpellName == /\ path # <<>> /\ Len(path) < MaxTokens
             /\ IsSep(path[Len(path)])
             /\ \E n \in Name : path' = Append(path, n)

SpellSeparator == /\ path # <<>> /\ Len(path) < MaxTokens
                  /\ ~IsSep(path[Len(path)])
                  /\ \E s \in {Sep, AltSep} : path' = Append(path, s)

PathNext == SpellRoot \/ SpellName \/ SpellSeparator

PathSpec == PathInit /\ [][PathNext]_path

-----------------------------------------------------------------------------
(* Two spellings of one folder share a cache key and spellings of two      *)
(* folders never do: the key is the folder's one canonical spelling        *)
(* (SizeCache::normalize_path).                                            *)
KeyIsCanonical ==
  path # <<>> => CacheKey(path) = Canonical(HasDrive(path), Components(path))

(* The resolver's request key and the cache's key are the same, and either *)
(* may be normalised again without changing: queue_refresh_if_due          *)
(* normalises before queue_background_resolution does, and resolve_size    *)
(* hands the request key to SizeCache::put, which normalises again.        *)
KeysAgree == /\ RequestKey(path) = CacheKey(path)
             /\ RequestKey(RequestKey(path)) = RequestKey(path)
             /\ CacheKey(RequestKey(path)) = RequestKey(path)

(* For a path the shell reports ("\" only), the cache entries that         *)
(* invalidate_path_and_ancestors erases are those of the path itself, of   *)
(* every folder above it and of the drive root, and no others.             *)
InvalidationReachesAncestors ==
  HasDrive(path) /\ AltSep \notin Range(path) =>
    LET c == Components(path)
    IN  {CacheKey(v) : v \in Range(VisitedPaths(path))}
          = {Canonical(TRUE, SubSeq(c, 1, n)) : n \in 1 .. Len(c)}
=============================================================================
