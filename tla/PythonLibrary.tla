---------------------------- MODULE PythonLibrary ----------------------------
(***************************************************************************)
(* How the Python binding loads its library: _binding._load_library over   *)
(* _native.load_library, with the two module globals that cache the CDLL   *)
(* object and the one that says its functions are declared.                *)
(*                                                                         *)
(* There is no lock.  A thread may lose the interpreter between any two    *)
(* reads or writes of a global, and a function that tests a global and     *)
(* then returns it reads it twice.  Each CDLL() makes an object of its     *)
(* own, whose functions have to be declared on that object.  Which library *)
(* an attempt finds depends on the environment and on files that may have  *)
(* changed since the last one.                                             *)
(***************************************************************************)
EXTENDS Naturals, FiniteSets

CONSTANTS
  Threads,
  Libraries,    \* CDLL objects of the package's version: bounds the attempts
  Mismatched,   \* a CDLL object of another version
  None

VARIABLES
  nativeCache,    \* _native._library
  bindingCache,   \* _binding._library
  configured,     \* _binding._configured
  opened,         \* the CDLL objects of the right version made so far
  declared,       \* those whose functions _configure_library has declared
  step,           \* where each thread is in _load_library
  got             \* what load_library or _load_library gave each thread

vars == <<nativeCache, bindingCache, configured, opened, declared, step, got>>

Settled == {"returned", "raised"}

Init ==
  /\ nativeCache = None
  /\ bindingCache = None
  /\ configured = FALSE
  /\ opened = {}
  /\ declared = {}
  /\ step = [t \in Threads |-> "idle"]
  /\ got = [t \in Threads |-> None]

Goto(t, next) == step' = [step EXCEPT ![t] = next]

Load(t) ==
  /\ step[t] = "idle"
  /\ Goto(t, IF bindingCache = None THEN "native" ELSE "test")
  /\ UNCHANGED <<nativeCache, bindingCache, configured, opened, declared, got>>

(***************************************************************************)
(* _native.load_library.                                                   *)
(***************************************************************************)
NativeCached(t) ==
  /\ step[t] = "native"
  /\ Goto(t, IF nativeCache = None THEN "search" ELSE "reread")
  /\ UNCHANGED <<nativeCache, bindingCache, configured, opened, declared, got>>

(* The environment's library, then the package's own, then the system's:   *)
(* each opens one, finds none or raises.  No global is read in between.    *)
NoneFound(t) ==
  /\ step[t] = "search"
  /\ Goto(t, "raised")
  /\ UNCHANGED <<nativeCache, bindingCache, configured, opened, declared, got>>

(* Mutant: the package's own library is cached before its version is       *)
(* compared.                                                               *)
OpenMismatchedCached(t) ==
  /\ step[t] = "search"
  /\ nativeCache' \in {None, Mismatched}
  /\ Goto(t, "raised")
  /\ UNCHANGED <<bindingCache, configured, opened, declared, got>>

(* VersionMismatchError: for two of the sources its handler resets the     *)
(* cache, whatever another thread has put there; for the package's own     *)
(* library, and when the version cannot be asked for, it stays as it is.   *)
OpenMismatched(t) ==
  /\ step[t] = "search"
  /\ nativeCache' \in {None, nativeCache}
  /\ Goto(t, "raised")
  /\ UNCHANGED <<bindingCache, configured, opened, declared, got>>

Open(t) ==
  /\ step[t] = "search"
  /\ \E library \in Libraries \ opened :
       /\ opened' = opened \cup {library}
       /\ nativeCache' = library
  /\ Goto(t, "reread")
  /\ UNCHANGED <<bindingCache, configured, declared, got>>

(* `return _library`. *)
Reread(t) ==
  /\ step[t] = "reread"
  /\ got' = [got EXCEPT ![t] = nativeCache]
  /\ Goto(t, "assign")
  /\ UNCHANGED <<nativeCache, bindingCache, configured, opened, declared>>

(***************************************************************************)
(* The rest of _binding._load_library.                                     *)
(***************************************************************************)
Assign(t) ==
  /\ step[t] = "assign"
  /\ bindingCache' = got[t]
  /\ got' = [got EXCEPT ![t] = None]
  /\ Goto(t, "test")
  /\ UNCHANGED <<nativeCache, configured, opened, declared>>

(* Mutant: the flag is set before the functions are declared. *)
FlagFirst(t) ==
  /\ step[t] = "test"
  /\ configured' = TRUE
  /\ Goto(t, IF configured THEN "return" ELSE "configure")
  /\ UNCHANGED <<nativeCache, bindingCache, opened, declared, got>>

TestConfigured(t) ==
  /\ step[t] = "test"
  /\ Goto(t, IF configured THEN "return" ELSE "configure")
  /\ UNCHANGED <<nativeCache, bindingCache, configured, opened, declared, got>>

(* Declaring the functions of None raises an AttributeError. *)
Configure(t) ==
  /\ step[t] = "configure"
  /\ IF bindingCache = None
     THEN Goto(t, "raised") /\ UNCHANGED declared
     ELSE Goto(t, "flag") /\ declared' = declared \cup {bindingCache}
  /\ UNCHANGED <<nativeCache, bindingCache, configured, opened, got>>

SetConfigured(t) ==
  /\ step[t] = "flag"
  /\ configured' = TRUE
  /\ Goto(t, "return")
  /\ UNCHANGED <<nativeCache, bindingCache, opened, declared, got>>

Return(t) ==
  /\ step[t] = "return"
  /\ got' = [got EXCEPT ![t] = bindingCache]
  /\ Goto(t, "returned")
  /\ UNCHANGED <<nativeCache, bindingCache, configured, opened, declared>>

(* A caller goes on with a library; with None, it can call no function.    *)
Ready(t)  == step[t] = "returned" /\ got[t] # None
Failed(t) == step[t] = "raised" \/ (step[t] = "returned" /\ got[t] = None)

(* The caller takes up what it got, or an exception from outside ends the  *)
(* call wherever it is.                                                    *)
Leave(t) ==
  /\ Goto(t, "idle")
  /\ got' = [got EXCEPT ![t] = None]
  /\ UNCHANGED <<nativeCache, bindingCache, configured, opened, declared>>

Proceed(t) ==
  \/ NativeCached(t) \/ NoneFound(t) \/ OpenMismatched(t) \/ Open(t) \/ Reread(t)
  \/ Assign(t) \/ TestConfigured(t) \/ Configure(t) \/ SetConfigured(t) \/ Return(t)

Next == \E t \in Threads : Load(t) \/ Proceed(t) \/ Leave(t)

Spec == Init /\ [][Next]_vars

TypeOK ==
  /\ {nativeCache, bindingCache} \subseteq Libraries \cup {None}
  /\ configured \in BOOLEAN
  /\ opened \subseteq Libraries
  /\ declared \subseteq opened
  /\ step \in [Threads -> Settled \cup
                 {"idle", "native", "search", "reread", "assign", "test", "configure", "flag", "return"}]
  /\ got \in [Threads -> Libraries \cup {None}]

(* A library given to a caller has been compared with the version of the   *)
(* package, and its functions are declared, as long as no two threads have *)
(* opened one each for itself.  Without a lock this rests on the order in  *)
(* which the caches and the flag are written.                              *)
ReturnedIsReady ==
  \A t \in Threads : step[t] = "returned" /\ got[t] # None =>
    /\ got[t] \in opened
    /\ Cardinality(opened) = 1 => got[t] \in declared
=============================================================================
