--------------------------- MODULE PathExtraction ---------------------------
(***************************************************************************)
(* SizeResolver::extract_path (size_resolver.cpp): from the shell's folder *)
(* to a path by a chain of four things, each obtained from the one before: *)
(* pFolder, pChildFolder, pPersist and pidlAbsolute.  They are released by *)
(* hand, and the shell's extensions that are asked for them may fail, for  *)
(* a file or a virtual folder, or throw what passes the function by.       *)
(***************************************************************************)
EXTENDS Naturals

CONSTANT MaxThrown  \* bound on the exceptions

ASSUME PathExtractionAssumption == MaxThrown \in Nat

Link == 1 .. 4

VARIABLES
  extracting,  \* a call is under way
  link,        \* how far it is in the chain
  references,  \* to each link, of this call and of earlier ones
  thrown       \* history: the exceptions that passed, with each in hand

extractionVars == <<extracting, link, references, thrown>>

ExtractionInit == /\ extracting = FALSE /\ link = 0
                  /\ references = [l \in Link |-> 0]
                  /\ thrown = [l \in Link |-> 0]

Start == /\ ~extracting
         /\ extracting' = TRUE /\ link' = 0
         /\ UNCHANGED <<references, thrown>>

Released(l) == IF l \in Link THEN [references EXCEPT ![l] = @ - 1] ELSE references

(* The link in hand is asked for the next and released, whatever it says;  *)
(* in the mutant, only if it has one.                                      *)
NextLinkOrLeave ==
  /\ extracting /\ link < 4
  /\ \/ link' = link + 1 /\ references' = [Released(link) EXCEPT ![link + 1] = @ + 1]
        /\ UNCHANGED extracting
     \/ link' = 0 /\ extracting' = FALSE /\ UNCHANGED references
  /\ UNCHANGED thrown

NextLink ==
  /\ extracting /\ link < 4
  /\ \/ link' = link + 1 /\ references' = [Released(link) EXCEPT ![link + 1] = @ + 1]
        /\ UNCHANGED extracting
     \/ link' = 0 /\ extracting' = FALSE /\ references' = Released(link)
  /\ UNCHANGED thrown

(* The path of pidlAbsolute, which may have none.                          *)
FindPath == /\ extracting /\ link = 4
            /\ extracting' = FALSE /\ link' = 0
            /\ references' = Released(link)
            /\ UNCHANGED thrown

Throw == /\ extracting
         /\ extracting' = FALSE /\ link' = 0
         /\ IF link \in Link
            THEN thrown[link] < MaxThrown /\ thrown' = [thrown EXCEPT ![link] = @ + 1]
            ELSE UNCHANGED thrown
         /\ UNCHANGED references

ExtractionNext == Start \/ NextLink \/ FindPath \/ Throw

ExtractionSpec == ExtractionInit /\ [][ExtractionNext]_extractionVars

-----------------------------------------------------------------------------
(* "Every COM pointer is released on each step": the resolver's hot path   *)
(* holds the one thing it asks next, and leaves nothing in Explorer's      *)
(* process behind when it returns, at whatever step; what an exception     *)
(* passes by is left for good (extract_path).                              *)
ExtractionLeavesNothing ==
  \A l \in Link :
    references[l] = thrown[l] + IF extracting /\ link = l THEN 1 ELSE 0
=============================================================================
