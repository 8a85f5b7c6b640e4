---------------------------- MODULE PythonBinding ----------------------------
(***************************************************************************)
(* The Python objects over native handles: _NativeResource with Model,     *)
(* Options and Result, and the function solve of _binding.py.  Threads     *)
(* share the objects.  The interpreter may be given to another thread      *)
(* between any two steps below, and in some threads, the main thread for   *)
(* KeyboardInterrupt, an exception may arrive there.                       *)
(*                                                                         *)
(* An options object caches its settings; the three of them are written    *)
(* alike, one stands for them.  The other contents of native objects are   *)
(* left to CApiModel and CApiSolve: a native call may succeed or fail.     *)
(* Client code keeps its objects reachable: _binding.py has no finalizer,  *)
(* and an object nobody can reach any more is never destroyed.             *)
(***************************************************************************)
EXTENDS Naturals, Sequences

CONSTANTS
  Threads,
  Interruptible,                      \* threads that exceptions may reach
  Models, OptionsObjects, Results,    \* the Python objects there may be
  Handles,                            \* addresses of native objects
  Values, Default,                    \* of the setting
  Libraries, Mismatched, None         \* of PythonLibrary

Objects == Models \cup OptionsObjects \cup Results

ASSUME NoneAssumption          == None \notin Objects \cup Handles \cup Values
ASSUME LibrariesAssumption     == {Mismatched, None} \cap Libraries = {}
ASSUME DefaultAssumption       == Default \in Values
ASSUME InterruptibleAssumption == Interruptible \subseteq Threads
ASSUME KindsAssumption         == /\ Models \cap OptionsObjects = {}
                                  /\ Models \cap Results = {}
                                  /\ OptionsObjects \cap Results = {}

VARIABLES
  nativeCache, bindingCache, configured, opened, declared, step, got,
  constructed,    \* the objects that exist
  handle,         \* their field _handle
  mirror,         \* what each options object says its setting is
  setting,        \* what native options at each address hold
  live,           \* the addresses of allocated native objects
  pc,             \* where each thread is in a method
  call,           \* what the method it is in has in hand
  contested,      \* history: a handle could be destroyed twice
  raced,          \* history: a setter overlapped another setter or a close
  stranded        \* history: addresses lost to exceptions

Library == INSTANCE PythonLibrary

library == <<nativeCache, bindingCache, configured, opened, declared, step, got>>
heap    == <<constructed, handle, mirror, setting, live>>
history == <<contested, raced, stranded>>
vars    == <<library, heap, pc, call, history>>

(* A method in progress: its objects, the handles it has read from them,   *)
(* the handle a native call gave it, the object that is to get it, the     *)
(* options that solve makes for itself, the value to set, and whether the  *)
(* method loads the library later or has been given it, which may be None. *)
NoCall == [args |-> <<>>, handles |-> <<>>, made |-> None, new |-> None,
           owned |-> None, value |-> None, library |-> "later"]

Init ==
  /\ Library!Init
  /\ constructed = {}
  /\ handle = [o \in Objects |-> None]
  /\ mirror = [o \in OptionsObjects |-> None]
  /\ setting = [h \in Handles |-> Default]
  /\ live = {}
  /\ pc = [t \in Threads |-> "idle"]
  /\ call = [t \in Threads |-> NoCall]
  /\ contested = FALSE
  /\ raced = FALSE
  /\ stranded = {}

Continue(t, next, record) ==
  /\ pc' = [pc EXCEPT ![t] = next]
  /\ call' = [call EXCEPT ![t] = record]

End(t) == Continue(t, "idle", NoCall)

Idle(t) == pc[t] = "idle"

(* The objects that a method has made and not yet returned are its own. *)
Private == UNION {{call[t].new, call[t].owned} : t \in Threads}
Shared  == constructed \ Private
Unmade(kind) == kind \ (constructed \cup Private)

(* Objects that are gone with the frame that held them. *)
Forget(gone) ==
  /\ constructed' = constructed \ gone
  /\ handle' = [o \in Objects |-> IF o \in gone THEN None ELSE handle[o]]
  /\ mirror' = [o \in OptionsObjects |-> IF o \in gone THEN None ELSE mirror[o]]

(***************************************************************************)
(* _load_library, wherever a method calls it.                              *)
(***************************************************************************)
Loading(t) ==
  /\ Library!Proceed(t)
  /\ UNCHANGED <<heap, pc, call, history>>

Loaded(t) == Library!Ready(t) /\ Library!Leave(t)

(***************************************************************************)
(* An exception, from the loader or from outside.  solve catches what is   *)
(* raised inside its try and closes the options it has made; everything    *)
(* else that only the frame knows is lost.                                 *)
(***************************************************************************)
InTry(t) == pc[t] \in {"require", "native", "wrap"}

Fail(t) ==
  IF call[t].owned # None
  THEN Continue(t, "finally", [NoCall EXCEPT !.owned = call[t].owned])
  ELSE End(t)

(* What goes down with the frame of a method interrupted where it is: a    *)
(* handle just made; outside the try, options and a result of its own.     *)
Lost(t) ==
  IF pc[t] = "init" \/ pc[t] = "wrap" THEN {call[t].made}
  ELSE IF pc[t] \in {"enter", "finally", "destroy"}
       THEN {handle[o] : o \in {call[t].owned, call[t].new} \cap constructed}
  ELSE IF pc[t] = "clear"
       THEN {handle[o] : o \in {call[t].new} \cap constructed}
  ELSE {}

Raise(t) ==
  /\ IF InTry(t)
     THEN Fail(t) /\ UNCHANGED <<constructed, handle, mirror>>
     ELSE End(t) /\ Forget({call[t].owned, call[t].new})
  /\ stranded' = stranded \cup (Lost(t) \cap live)
  /\ contested' = (contested \/ (pc[t] = "clear" /\ call[t].owned = None))
  /\ raced' = (raced \/ pc[t] = "mirror")
  /\ UNCHANGED <<setting, live>>

LoadFails(t) ==
  /\ pc[t] \in {"load", "create", "call", "destroy"}
  /\ Library!Failed(t)
  /\ pc[t] = "load" => step[t] = "raised"
  /\ Library!Leave(t)
  /\ Raise(t)

Interrupted(t) ==
  /\ t \in Interruptible
  /\ ~Idle(t)
  /\ Library!Leave(t)
  /\ Raise(t)

(***************************************************************************)
(* Model() and Options().                                                  *)
(***************************************************************************)
New(t, o) ==
  /\ Idle(t)
  /\ o \in Unmade(Models \cup OptionsObjects)
  /\ Library!Load(t)
  /\ Continue(t, "create", [NoCall EXCEPT !.new = o])
  /\ UNCHANGED <<heap, history>>

(* The native create, or any of the native calls that make an object. *)
Allocate(t, next, record) ==
  \E h \in Handles \ live :
    /\ live' = live \cup {h}
    /\ Continue(t, next, [record EXCEPT !.made = h])

Create(t) ==
  /\ pc[t] = "create"
  /\ Allocate(t, "init", call[t])
  /\ Loaded(t)
  /\ UNCHANGED <<constructed, handle, mirror, setting, history>>

CreateFails(t) ==
  /\ pc[t] = "create"
  /\ End(t)
  /\ Loaded(t)
  /\ UNCHANGED <<heap, history>>

(* The rest of __init__: the field and, of options, the cached settings.   *)
(* The options of solve are then kept in a local variable.                 *)
Initialise(t) ==
  /\ pc[t] = "init"
  /\ LET o == IF call[t].new # None THEN call[t].new ELSE call[t].owned IN
       /\ constructed' = constructed \cup {o}
       /\ handle' = [handle EXCEPT ![o] = call[t].made]
       /\ mirror' = IF o \in OptionsObjects THEN [mirror EXCEPT ![o] = Default] ELSE mirror
  /\ IF call[t].owned = None
     THEN End(t)
     ELSE Continue(t, "enter", [call[t] EXCEPT !.made = None])
  /\ UNCHANGED <<library, setting, live, history>>

(***************************************************************************)
(* Methods of one object: they require its handle, check their arguments,  *)
(* load and call.  validate loads before it requires, like solve.  tour    *)
(* makes two of these calls, on tour_size and on the tour.                 *)
(***************************************************************************)
Use(t, o) ==
  /\ Idle(t)
  /\ o \in Shared
  /\ Continue(t, "require", [NoCall EXCEPT !.args = <<o>>])
  /\ UNCHANGED <<library, heap, history>>

Set(t, options, value) ==
  /\ Idle(t)
  /\ options \in Shared \cap OptionsObjects
  /\ Continue(t, "require", [NoCall EXCEPT !.args = <<options>>, !.value = value])
  /\ UNCHANGED <<library, heap, history>>

Validate(t, model) ==
  /\ Idle(t)
  /\ model \in Shared \cap Models
  /\ Library!Load(t)
  /\ Continue(t, "load", [NoCall EXCEPT !.args = <<model>>])
  /\ UNCHANGED <<heap, history>>

(* solve, with options or, where the caller has none, with its own. *)
Solve(t, model, options, owned) ==
  /\ Idle(t)
  /\ model \in Shared \cap Models
  /\ \/ owned = None /\ options \in Shared
     \/ owned = options /\ options \in Unmade(OptionsObjects)
  /\ Library!Load(t)
  /\ Continue(t, "load", [NoCall EXCEPT !.args = <<model, options>>, !.owned = owned])
  /\ UNCHANGED <<heap, history>>

(* The library may be None: an AttributeError, but only where it is used.  *)
TakeLibrary(t) ==
  /\ pc[t] = "load"
  /\ step[t] = "returned"
  /\ Continue(t, IF call[t].owned = None THEN "require" ELSE "own",
              [call[t] EXCEPT !.library = IF got[t] = None THEN "missing" ELSE "given"])
  /\ Library!Leave(t)
  /\ UNCHANGED <<heap, history>>

MakeOwn(t) ==
  /\ pc[t] = "own"
  /\ Library!Load(t)
  /\ Continue(t, "create", call[t])
  /\ UNCHANGED <<heap, history>>

EnterTry(t) ==
  /\ pc[t] = "enter"
  /\ Continue(t, "require", call[t])
  /\ UNCHANGED <<library, heap, history>>

Required(t) == handle[call[t].args[Len(call[t].handles) + 1]]

Unusable(t) == call[t].library = "missing" \/ Required(t) = None

RequireFails(t) ==
  /\ pc[t] = "require"
  /\ Unusable(t)
  /\ Fail(t)
  /\ UNCHANGED <<library, heap, history>>

Require(t) ==
  /\ pc[t] = "require"
  /\ ~Unusable(t)
  /\ LET handles == Append(call[t].handles, Required(t)) IN
       Continue(t, IF Len(handles) < Len(call[t].args) THEN "require"
                   ELSE IF call[t].library = "later" THEN "argument" ELSE "native",
                   [call[t] EXCEPT !.handles = handles])
  /\ UNCHANGED <<library, heap, history>>

ArgumentFails(t) ==
  /\ pc[t] = "argument"
  /\ End(t)
  /\ UNCHANGED <<library, heap, history>>

(* Mutant: a setter caches the value before it passes it on. *)
MirrorFirst(t) ==
  /\ pc[t] = "argument"
  /\ Library!Load(t)
  /\ mirror' = IF call[t].value = None THEN mirror
               ELSE [mirror EXCEPT ![call[t].args[1]] = call[t].value]
  /\ Continue(t, "call", call[t])
  /\ UNCHANGED <<constructed, handle, setting, live, history>>

Coerced(t) ==
  /\ pc[t] = "argument"
  /\ Library!Load(t)
  /\ Continue(t, "call", call[t])
  /\ UNCHANGED <<heap, history>>

Call(t) ==
  /\ pc[t] = "call"
  /\ Continue(t, "native", call[t])
  /\ Loaded(t)
  /\ UNCHANGED <<heap, history>>

Return(t) ==
  /\ pc[t] = "native"
  /\ Len(call[t].args) = 1
  /\ call[t].value = None
  /\ End(t)
  /\ UNCHANGED <<library, heap, history>>

(* The native setter writes to what is at the address now. *)
SetReturns(t) ==
  /\ pc[t] = "native"
  /\ call[t].value # None
  /\ LET h == call[t].handles[1]
         o == call[t].args[1]
     IN /\ setting' = IF h \in live THEN [setting EXCEPT ![h] = call[t].value] ELSE setting
        /\ raced' = \/ raced
                    \/ handle[o] # h
                    \/ \E u \in Threads : pc[u] \in {"mirror", "clear"} /\ call[u].args[1] = o
  /\ Continue(t, "mirror", call[t])
  /\ UNCHANGED <<library, constructed, handle, mirror, live, contested, stranded>>

Mirror(t) ==
  /\ pc[t] = "mirror"
  /\ mirror' = [mirror EXCEPT ![call[t].args[1]] = call[t].value]
  /\ End(t)
  /\ UNCHANGED <<library, constructed, handle, setting, live, history>>

SolveFails(t) ==
  /\ pc[t] = "native"
  /\ Len(call[t].args) = 2
  /\ Fail(t)
  /\ UNCHANGED <<library, heap, history>>

SolveReturns(t) ==
  /\ pc[t] = "native"
  /\ Len(call[t].args) = 2
  /\ \E r \in Unmade(Results) : Allocate(t, "wrap", [call[t] EXCEPT !.new = r])
  /\ UNCHANGED <<library, constructed, handle, mirror, setting, history>>

(* Result._from_handle; solve then returns through its finally. *)
Wrap(t) ==
  /\ pc[t] = "wrap"
  /\ constructed' = constructed \cup {call[t].new}
  /\ handle' = [handle EXCEPT ![call[t].new] = call[t].made]
  /\ IF call[t].owned = None
     THEN End(t)
     ELSE Continue(t, "finally", [NoCall EXCEPT !.owned = call[t].owned, !.new = call[t].new])
  /\ UNCHANGED <<library, mirror, setting, live, history>>

(***************************************************************************)
(* close: read, load, destroy, clear.                                      *)
(***************************************************************************)
Closing(t, o) == pc[t] \in {"destroy", "clear"} /\ call[t].args[1] = o

Close(t, o) ==
  /\ Idle(t)
  /\ o \in Shared
  /\ handle[o] # None
  /\ Library!Load(t)
  /\ Continue(t, "destroy", [NoCall EXCEPT !.args = <<o>>, !.handles = <<handle[o]>>])
  /\ contested' = (contested \/ \E u \in Threads : Closing(u, o))
  /\ UNCHANGED <<heap, raced, stranded>>

(* Mutant: solve closes its options only when it has a result. *)
CloseOwnedOnSuccess(t) ==
  /\ pc[t] = "finally"
  /\ LET o == call[t].owned IN
       IF call[t].new # None
       THEN /\ Continue(t, "destroy", [call[t] EXCEPT !.args = <<o>>, !.handles = <<handle[o]>>])
            /\ Library!Load(t)
            /\ UNCHANGED <<constructed, handle, mirror>>
       ELSE End(t) /\ Forget({o}) /\ UNCHANGED library
  /\ UNCHANGED <<setting, live, history>>

CloseOwned(t) ==
  /\ pc[t] = "finally"
  /\ LET o == call[t].owned IN
       Continue(t, "destroy", [call[t] EXCEPT !.args = <<o>>, !.handles = <<handle[o]>>])
  /\ Library!Load(t)
  /\ UNCHANGED <<heap, history>>

Destroy(t) ==
  /\ pc[t] = "destroy"
  /\ live' = live \ {call[t].handles[1]}
  /\ setting' = [setting EXCEPT ![call[t].handles[1]] = Default]
  /\ Continue(t, "clear", call[t])
  /\ Loaded(t)
  /\ UNCHANGED <<constructed, handle, mirror, history>>

(* Mutant: the handle is destroyed and stays in the field. *)
ClearForgotten(t) ==
  /\ pc[t] = "clear"
  /\ End(t)
  /\ UNCHANGED <<library, heap, history>>

(* The options of solve are gone once it returns. *)
Clear(t) ==
  /\ pc[t] = "clear"
  /\ IF call[t].owned = None
     THEN /\ handle' = [handle EXCEPT ![call[t].args[1]] = None]
          /\ UNCHANGED <<constructed, mirror>>
     ELSE Forget({call[t].owned})
  /\ End(t)
  /\ UNCHANGED <<library, setting, live, history>>

Step(t) ==
  \/ Loading(t) \/ LoadFails(t) \/ Interrupted(t)
  \/ Create(t) \/ CreateFails(t) \/ Initialise(t)
  \/ TakeLibrary(t) \/ MakeOwn(t) \/ EnterTry(t)
  \/ RequireFails(t) \/ Require(t) \/ ArgumentFails(t) \/ Coerced(t) \/ Call(t)
  \/ Return(t) \/ SetReturns(t) \/ Mirror(t)
  \/ SolveFails(t) \/ SolveReturns(t) \/ Wrap(t)
  \/ CloseOwned(t) \/ Destroy(t) \/ Clear(t)

Begin(t) ==
  \/ \E o \in Objects : New(t, o) \/ Use(t, o) \/ Close(t, o)
  \/ \E options \in OptionsObjects, value \in Values : Set(t, options, value)
  \/ \E model \in Models : Validate(t, model)
  \/ \E model \in Models, options \in OptionsObjects, owned \in OptionsObjects \cup {None} :
       Solve(t, model, options, owned)

Next == \E t \in Threads : Step(t) \/ Begin(t)

Spec == Init /\ [][Next]_vars

(***************************************************************************)
(* Properties.                                                             *)
(***************************************************************************)
Calls == [args : Seq(Objects), handles : Seq(Handles), made : Handles \cup {None},
          new : Objects \cup {None}, owned : OptionsObjects \cup {None},
          value : Values \cup {None}, library : {"later", "given", "missing"}]

TypeOK ==
  /\ Library!TypeOK
  /\ constructed \subseteq Objects
  /\ handle \in [Objects -> Handles \cup {None}]
  /\ mirror \in [OptionsObjects -> Values \cup {None}]
  /\ setting \in [Handles -> Values]
  /\ live \subseteq Handles
  /\ pc \in [Threads -> {"idle", "load", "own", "create", "init", "enter", "require",
                         "argument", "call", "native", "mirror", "wrap", "finally",
                         "destroy", "clear"}]
  /\ call \in [Threads -> Calls]
  /\ {contested, raced} \subseteq BOOLEAN
  /\ stranded \subseteq Handles

BeingCleared(o) == \E t \in Threads : pc[t] = "clear" /\ call[t].args[1] = o

(* close destroys before it clears.  But for the moment between the two,   *)
(* and unless it was interrupted there or two threads closed one object    *)
(* together, a handle in a field is the address of a live native object    *)
(* that is in no other field, whatever other calls fail or are interrupted.*)
FieldsNameLiveObjects ==
  ~contested =>
    \A o \in constructed : handle[o] # None /\ ~BeingCleared(o) =>
      /\ handle[o] \in live
      /\ \A other \in constructed \ {o} :
           handle[other] = handle[o] => BeingCleared(other)

(* A native object that is not in a field is in the hand of a method,      *)
(* unless an exception came just after it was made, or at the end of solve *)
(* before its finally was done.  In particular solve closes the options it *)
(* made in whatever way it ends.                                           *)
NothingLost ==
  \A h \in live \ stranded :
    \/ \E o \in constructed : handle[o] = h
    \/ \E t \in Threads : call[t].made = h

(* What an options object says of its setting is what its native object    *)
(* holds, and what solve will use: unless two setters, or a setter and a   *)
(* close, overlapped, or a setter was interrupted after its native call,   *)
(* or a close was contested.                                               *)
MirrorMatches ==
  ~contested /\ ~raced =>
    \A o \in OptionsObjects \cap constructed :
      \/ handle[o] = None
      \/ \E t \in Threads : pc[t] \in {"mirror", "clear"} /\ call[t].args[1] = o
      \/ mirror[o] = setting[handle[o]]

(* Every library that a method gets has been compared with the version of  *)
(* the package, and its functions are declared unless two threads have     *)
(* each opened one: also when threads load at the same time, and when an   *)
(* exception ends a load half-way.                                         *)
LibraryReady == Library!ReturnedIsReady
=============================================================================
