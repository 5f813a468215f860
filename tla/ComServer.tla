----------------------------- MODULE ComServer -----------------------------
(***************************************************************************)
(* The module as a COM server (class_factory.cpp, shell_overlay.cpp,       *)
(* com_exports.cpp): class factories and overlays, which clients hold      *)
(* references to, DllCanUnloadNow, and the registration of the server.     *)
(* A function that makes an object, asks it for an interface and releases  *)
(* it is one step: nobody else has a reference to the object yet.          *)
(***************************************************************************)
EXTENDS Integers, FiniteSets

CONSTANTS
  Factory, Overlay,  \* class factories and ShellOverlays that may be made
  MaxReferences,     \* bound on the references to one of them
  MaxLocks           \* bound on LockServer(TRUE)

ASSUME ComServerAssumption ==
  /\ IsFiniteSet(Overlay) /\ Factory \cap Overlay = {}
  /\ {MaxReferences, MaxLocks} \subseteq Nat

VARIABLES
  m_refCount,     \* of each object; 0 if there is none
  dying,          \* overlays in Release, between --m_refCount and --g_objectCount
  g_objectCount,
  g_lockCount,
  classes,        \* what is in the registry
  registration    \* history: what registered or unregistered last, and how

objectVars == <<m_refCount, dying, g_objectCount, g_lockCount>>
comVars    == <<objectVars, classes, registration>>

ComInit ==
  /\ m_refCount = [o \in Factory \cup Overlay |-> 0]
  /\ dying = {} /\ g_objectCount = 0 /\ g_lockCount = 0
  /\ classes = {} /\ registration = "none"

Alive(objects) == {o \in objects : m_refCount[o] > 0}

-----------------------------------------------------------------------------
(* An object is made with one reference; the interface, if it has it, is   *)
(* another, and the first is released, which may be the last.              *)
MakeLeaking(o) ==
  /\ m_refCount[o] = 0 /\ o \notin dying
  /\ m_refCount' \in {[m_refCount EXCEPT ![o] = 1], m_refCount}
  /\ dying' = dying
  /\ g_objectCount' = IF o \in Overlay THEN g_objectCount + 1 ELSE g_objectCount

Make(o) ==
  /\ m_refCount[o] = 0 /\ o \notin dying
  /\ m_refCount' \in {[m_refCount EXCEPT ![o] = 1], m_refCount}
  /\ dying' = IF o \in Overlay /\ m_refCount'[o] = 0 THEN dying \cup {o} ELSE dying
  /\ g_objectCount' = IF o \in Overlay THEN g_objectCount + 1 ELSE g_objectCount

DllGetClassObject == /\ \E f \in Factory : Make(f)
                     /\ UNCHANGED <<g_lockCount, classes, registration>>

CreateInstance == /\ Alive(Factory) # {}
                  /\ \E o \in Overlay : Make(o)
                  /\ UNCHANGED <<g_lockCount, classes, registration>>

(* AddRef, and QueryInterface for an interface the object has.             *)
AddRef ==
  /\ \E o \in Alive(Factory \cup Overlay) :
       /\ m_refCount[o] < MaxReferences
       /\ m_refCount' = [m_refCount EXCEPT ![o] = @ + 1]
  /\ UNCHANGED <<dying, g_objectCount, g_lockCount, classes, registration>>

(* The last reference's release goes on to delete the object: an overlay's *)
(* destructor counts it, a factory's has nothing to count.                 *)
Release ==
  /\ \E o \in Alive(Factory \cup Overlay) :
       /\ m_refCount' = [m_refCount EXCEPT ![o] = @ - 1]
       /\ dying' = IF o \in Overlay /\ m_refCount[o] = 1 THEN dying \cup {o} ELSE dying
  /\ UNCHANGED <<g_objectCount, g_lockCount, classes, registration>>

Destroy ==
  /\ \E o \in dying : dying' = dying \ {o}
  /\ g_objectCount' = g_objectCount - 1
  /\ UNCHANGED <<m_refCount, g_lockCount, classes, registration>>

(* A client unlocks what it has locked.                                    *)
LockServer ==
  /\ Alive(Factory) # {}
  /\ \/ g_lockCount < MaxLocks /\ g_lockCount' = g_lockCount + 1
     \/ g_lockCount > 0 /\ g_lockCount' = g_lockCount - 1
  /\ UNCHANGED <<m_refCount, dying, g_objectCount, classes, registration>>

DllCanUnloadNow == g_lockCount = 0 /\ g_objectCount = 0

-----------------------------------------------------------------------------
(* The registry: the class's key and description, its server's key, path   *)
(* and threading model, and the overlay identifier's key and class.        *)
Written == <<"class", "description", "server", "path", "threading", "overlay", "overlay class">>

ServerEntries  == {"server", "path", "threading"}
ClassEntries   == {"class", "description"}
OverlayEntries == {"overlay", "overlay class"}

(* DllRegisterServer writes one after the other and stops at the first     *)
(* failure; DllUnregisterServer does so with three keys, and does not mind *)
(* one that is not there.  A process that ends on the way does the same.   *)
DllRegisterServer ==
  \E n \in 0 .. 7 :
    /\ classes' = classes \cup {Written[i] : i \in 1 .. n}
    /\ registration' = IF n = 7 THEN "registered" ELSE "registering failed"
    /\ UNCHANGED objectVars

Deleted == <<OverlayEntries, ServerEntries, ClassEntries>>

DllUnregisterClassFirst ==
  \E n \in 0 .. 3 :
    /\ classes' = classes \ UNION {Deleted[4 - i] : i \in 1 .. n}
    /\ registration' = IF n = 3 THEN "unregistered" ELSE "unregistering failed"
    /\ UNCHANGED objectVars

DllUnregisterServer ==
  \E n \in 0 .. 3 :
    /\ classes' = classes \ UNION {Deleted[i] : i \in 1 .. n}
    /\ registration' = IF n = 3 THEN "unregistered" ELSE "unregistering failed"
    /\ UNCHANGED objectVars

ComNext == \/ DllGetClassObject \/ CreateInstance \/ AddRef \/ Release \/ Destroy
           \/ LockServer \/ DllRegisterServer \/ DllUnregisterServer

ComSpec == ComInit /\ [][ComNext]_comVars

-----------------------------------------------------------------------------
(* The module may be unloaded exactly when no overlay is alive or on the   *)
(* way to its destructor and nobody holds a lock, whatever interfaces were *)
(* asked for in vain and however often references were passed on: no       *)
(* object is lost from the count, and none stays in it for good            *)
(* (DllCanUnloadNow).                                                      *)
CountsAreExact ==
  DllCanUnloadNow <=> Alive(Overlay) \cup dying = {} /\ g_lockCount = 0

(* Explorer never finds an overlay identifier whose class it could not     *)
(* load, however registering and unregistering fail and follow each other: *)
(* the identifier is written last and deleted first.  What reports success *)
(* has written all, or left nothing.                                       *)
RegistrationIsWhole ==
  /\ "overlay class" \in classes => {"class"} \cup ServerEntries \subseteq classes
  /\ registration = "registered" => classes = {Written[i] : i \in 1 .. 7}
  /\ registration = "unregistered" => classes = {}
=============================================================================
