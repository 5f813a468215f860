----------------------------- MODULE MCThreads ------------------------------
(***************************************************************************)
(* The two parts in which somebody waits for a thread, each on its own: a  *)
(* row that waits for the resolver's worker, and DllMain, which waits for  *)
(* the threads of a module that is unloaded.  The initial state picks one. *)
(***************************************************************************)
EXTENDS MCSizeResolver, Lifecycle

(* One window only.                                                        *)
MCTwoRows    == {"r1", "r3"}
MCTwoPathsOf == "r1" :> PathA @@ "r3" :> PathB

VARIABLE part

ThreadsInit == part \in {"resolver", "lifecycle"} /\ ResolverInit /\ LifecycleInit

ThreadsNext ==
  /\ UNCHANGED part
  /\ \/ part = "resolver" /\ ResolverNext /\ UNCHANGED lifecycleVars
     \/ part = "lifecycle" /\ LifecycleNext /\ UNCHANGED resolverVars

(* The part that was not picked stays in its initial state, in which its   *)
(* fairness asks for no step.                                              *)
ThreadsSpec ==
  /\ ThreadsInit /\ [][ThreadsNext]_<<part, resolverVars, lifecycleVars>>
  /\ ResolverFairness /\ LifecycleFairness
=============================================================================
