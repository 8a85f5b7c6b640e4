----------------------------- MODULE JavaBinding -----------------------------
(***************************************************************************)
(* The Java objects over native handles: NativeResource with its           *)
(* subclasses Model, Options and Result, Solver.solve, and the functions   *)
(* of the JNI bridge that they call.  Threads share the objects; no method *)
(* takes a lock or declares a field volatile, so their reads and writes    *)
(* interleave in any order.                                                *)
(*                                                                         *)
(* A handle is an address: once an object is destroyed, the allocator may  *)
(* give its address to the next one.  The contents of native objects are   *)
(* left to CApiModel and CApiSolve; a call answers here with any code its  *)
(* function of the C API can return.                                       *)
(***************************************************************************)
EXTENDS Naturals, Sequences

CONSTANTS
  Threads,
  Models, OptionsObjects, Results,    \* the Java objects there may be
  Handles,                            \* addresses
  Null,                               \* the handle 0
  Versions, Version,                  \* Version.STRING is one of Versions
  Foreign, Unbound, NoThread, NoObject

Objects == Models \cup OptionsObjects \cup Results

ASSUME NullAssumption     == Null \notin Handles
ASSUME NoObjectAssumption == NoObject \notin Objects
ASSUME KindsAssumption    == /\ Models \cap OptionsObjects = {}
                             /\ Models \cap Results = {}
                             /\ OptionsObjects \cap Results = {}
ASSUME VersionAssumption  == Version \in Versions /\ {Foreign, Unbound} \cap Versions = {}
ASSUME NoThreadAssumption == NoThread \notin Threads

VARIABLES
  loaded, monitor, bridge, step, expected,  \* of JavaLibrary
  constructed,    \* the objects whose constructor has returned
  nativeHandle,   \* their field
  live,           \* the addresses of allocated native objects
  pc,             \* where each thread is in a method
  call,           \* the objects and handles of the method it is in
  outcome,        \* how its last method ended, "none" within one
  met,            \* the threads whose last method read a handle of 0
  contested       \* history: two threads had read one handle to close it

Library == INSTANCE JavaLibrary

library == <<loaded, monitor, bridge, step, expected>>
heap    == <<constructed, nativeHandle, live>>
vars    == <<library, heap, pc, call, outcome, met, contested>>

(* A method in progress: the objects whose handles it requires, those it   *)
(* has read so far, and the object it is to fill in.                       *)
Call(args, handles, new) == [args |-> args, handles |-> handles, new |-> new]
NoCall == Call(<<>>, <<>>, NoObject)

ErrorCodes == {"OK", "INVALID_ARGUMENT", "OUT_OF_RANGE", "ALLOCATION_FAILED",
               "INVALID_MODEL", "INTERNAL_ERROR"}

(* Mutant: throw_for_error throws for the codes it knows and passes on the *)
(* others.                                                                 *)
ThrownRaw(code) ==
  CASE code = "OK"               -> "returned"
    [] code = "INVALID_ARGUMENT" -> "IllegalArgumentException"
    [] code = "OUT_OF_RANGE"     -> "IndexOutOfBoundsException"
    [] code = "INVALID_MODEL"    -> "IllegalStateException"
    [] OTHER                     -> code

(* throw_for_error. *)
Thrown(code) ==
  CASE code = "OK"               -> "returned"
    [] code = "INVALID_ARGUMENT" -> "IllegalArgumentException"
    [] code = "OUT_OF_RANGE"     -> "IndexOutOfBoundsException"
    [] code = "INVALID_MODEL"    -> "IllegalStateException"
    [] OTHER                     -> "SolverNativeException"

Outcomes == {"none", "returned",
             "IllegalArgumentException", "IndexOutOfBoundsException",
             "IllegalStateException", "SolverNativeException",
             "OutOfMemoryError", "UnsatisfiedLinkError"}

Init ==
  /\ Library!Init
  /\ constructed = {}
  /\ nativeHandle = [o \in Objects |-> Null]
  /\ live = {}
  /\ pc = [t \in Threads |-> "idle"]
  /\ call = [t \in Threads |-> NoCall]
  /\ outcome = [t \in Threads |-> "returned"]
  /\ met = {}
  /\ contested = FALSE

(* The method goes on at `next`, with what it knows in `record`. *)
Continue(t, next, record) ==
  /\ pc' = [pc EXCEPT ![t] = next]
  /\ call' = [call EXCEPT ![t] = record]
  /\ outcome' = [outcome EXCEPT ![t] = "none"]

(* The method returns or throws. *)
End(t, how) ==
  /\ pc' = [pc EXCEPT ![t] = "idle"]
  /\ call' = [call EXCEPT ![t] = NoCall]
  /\ outcome' = [outcome EXCEPT ![t] = how]

Idle(t) == pc[t] = "idle"

Reserved == {call[t].new : t \in Threads}

(***************************************************************************)
(* NativeLibrary.load, as the constructors and solve call it.              *)
(***************************************************************************)
CallLoad(t) == Library!Load(t, Version)

Loading(t) ==
  /\ Library!Proceed(t)
  /\ UNCHANGED <<heap, pc, call, outcome, met, contested>>

LoadThrows(t) ==
  /\ pc[t] \in {"create", "load"}
  /\ step[t] \in {"mismatch", "unsatisfied"}
  /\ End(t, IF step[t] = "mismatch" THEN "IllegalStateException"
                                    ELSE "UnsatisfiedLinkError")
  /\ Library!Take(t)
  /\ UNCHANGED <<heap, met, contested>>

(* load(expectedVersion) called alone, as the tests do. *)
LoadAlone(t) ==
  /\ Idle(t)
  /\ \E version \in Versions : Library!Load(t, version)
  /\ Continue(t, "load", NoCall)
  /\ met' = met \ {t}
  /\ UNCHANGED <<heap, contested>>

LoadedAlone(t) ==
  /\ pc[t] = "load"
  /\ call[t] = NoCall
  /\ step[t] = "returned"
  /\ End(t, "returned")
  /\ Library!Take(t)
  /\ UNCHANGED <<heap, met, contested>>

(***************************************************************************)
(* new Model() and new Options().                                          *)
(***************************************************************************)
New(t, o) ==
  /\ Idle(t)
  /\ o \in (Models \cup OptionsObjects) \ (constructed \cup Reserved)
  /\ CallLoad(t)
  /\ Continue(t, "create", Call(<<>>, <<>>, o))
  /\ met' = met \ {t}
  /\ UNCHANGED <<heap, contested>>

(* A free address becomes an object's handle. *)
Adopt(o) ==
  \E h \in Handles \ live :
    /\ live' = live \cup {h}
    /\ nativeHandle' = [nativeHandle EXCEPT ![o] = h]
    /\ constructed' = constructed \cup {o}

Create(t) ==
  /\ pc[t] = "create"
  /\ step[t] = "returned"
  /\ Adopt(call[t].new)
  /\ End(t, "returned")
  /\ Library!Take(t)
  /\ UNCHANGED <<met, contested>>

CreateFails(t) ==
  /\ pc[t] = "create"
  /\ step[t] = "returned"
  /\ End(t, Thrown("ALLOCATION_FAILED"))
  /\ Library!Take(t)
  /\ UNCHANGED <<heap, met, contested>>

(***************************************************************************)
(* The methods that need a handle: one of the object itself, or for solve  *)
(* of the model and of the options.  requireHandle reads the field twice,  *)
(* once to compare it with 0 and once to return it.                        *)
(***************************************************************************)
Use(t, o) ==
  /\ Idle(t)
  /\ o \in constructed
  /\ Continue(t, "check", Call(<<o>>, <<>>, NoObject))
  /\ met' = met \ {t}
  /\ UNCHANGED <<library, heap, contested>>

Solve(t, model, options) ==
  /\ Idle(t)
  /\ model \in constructed \cap Models
  /\ options \in constructed \cap OptionsObjects
  /\ CallLoad(t)
  /\ Continue(t, "load", Call(<<model, options>>, <<>>, NoObject))
  /\ met' = met \ {t}
  /\ UNCHANGED <<heap, contested>>

(* `new Result(nativeSolve(...))` allocates the object before it evaluates *)
(* the arguments of the constructor.                                       *)
NewResult(t) ==
  /\ pc[t] = "load"
  /\ call[t] # NoCall
  /\ step[t] = "returned"
  /\ \/ \E r \in Results \ (constructed \cup Reserved) :
          Continue(t, "check", [call[t] EXCEPT !.new = r])
     \/ End(t, "OutOfMemoryError")
  /\ Library!Take(t)
  /\ UNCHANGED <<heap, met, contested>>

(* The field that requireHandle is reading. *)
Field(t) == nativeHandle[call[t].args[Len(call[t].handles) + 1]]

Check(t) ==
  /\ pc[t] = "check"
  /\ IF Field(t) = Null
     THEN End(t, "IllegalStateException") /\ met' = met \cup {t}
     ELSE Continue(t, "read", call[t]) /\ UNCHANGED met
  /\ UNCHANGED <<library, heap, contested>>

Read(t) ==
  /\ pc[t] = "read"
  /\ LET handles == Append(call[t].handles, Field(t)) IN
       Continue(t, IF Len(handles) < Len(call[t].args) THEN "check" ELSE "bridge",
                   [call[t] EXCEPT !.handles = handles])
  /\ met' = IF Field(t) = Null THEN met \cup {t} ELSE met
  /\ UNCHANGED <<library, heap, contested>>

(***************************************************************************)
(* The JNI functions.                                                      *)
(***************************************************************************)
(* Mutant: nativeSolve requires the model's handle only. *)
HasNullFirst(t) == call[t].handles[1] = Null

HasNull(t) == \E n \in DOMAIN call[t].handles : call[t].handles[n] = Null

(* The bridge's own require_handle.  When both handles of nativeSolve are  *)
(* 0 it looks up a second exception class while the first is pending; the  *)
(* exception is an IllegalStateException whichever of the two is left.     *)
BridgeRejects(t) ==
  /\ pc[t] = "bridge"
  /\ HasNull(t)
  /\ End(t, "IllegalStateException")
  /\ UNCHANGED <<library, heap, met, contested>>

EnterNative(t) ==
  /\ pc[t] = "bridge"
  /\ ~HasNull(t)
  /\ Continue(t, "native", call[t])
  /\ UNCHANGED <<library, heap, met, contested>>

(* What the functions of the C API answer: those of a model, of options    *)
(* (the bridge itself rejects a negative value, as an invalid argument),   *)
(* of a result, and solve.                                                 *)
ModelCodes   == {"OK", "OUT_OF_RANGE", "ALLOCATION_FAILED", "INVALID_MODEL"}
OptionsCodes == {"OK", "INVALID_ARGUMENT"}
ResultCodes  == {"OK"}
SolveFailures == {"INVALID_MODEL", "ALLOCATION_FAILED", "OUT_OF_RANGE"}

Codes(o) ==
  IF o \in Models THEN ModelCodes
  ELSE IF o \in OptionsObjects THEN OptionsCodes ELSE ResultCodes

(* The C API checks for null again, and would call it an argument error;   *)
(* of a destroyed object it may read anything.                             *)
Answers(t, codes) ==
  IF HasNull(t) THEN {"INVALID_ARGUMENT"}
  ELSE IF \A n \in DOMAIN call[t].handles : call[t].handles[n] \in live
       THEN codes ELSE ErrorCodes

ReturnFromUse(t) ==
  /\ pc[t] = "native"
  /\ Len(call[t].args) = 1
  /\ \E code \in Answers(t, Codes(call[t].args[1])) : End(t, Thrown(code))
  /\ UNCHANGED <<library, heap, met, contested>>

(* getTour cannot allocate its array. *)
NoArray(t) ==
  /\ pc[t] = "native"
  /\ call[t].args \in {<<r>> : r \in Results}
  /\ End(t, "OutOfMemoryError")
  /\ UNCHANGED <<library, heap, met, contested>>

(* Mutant: the Result is allocated after nativeSolve has returned. *)
SolveThenNewResult(t) ==
  /\ pc[t] = "native"
  /\ Len(call[t].args) = 2
  /\ "OK" \in Answers(t, SolveFailures \cup {"OK"})
  /\ \/ Adopt(call[t].new) /\ End(t, "returned")
     \/ /\ \E h \in Handles \ live : live' = live \cup {h}
        /\ End(t, "OutOfMemoryError")
        /\ UNCHANGED <<constructed, nativeHandle>>
  /\ UNCHANGED <<library, met, contested>>

SolveReturns(t) ==
  /\ pc[t] = "native"
  /\ Len(call[t].args) = 2
  /\ "OK" \in Answers(t, SolveFailures \cup {"OK"})
  /\ Adopt(call[t].new)
  /\ End(t, "returned")
  /\ UNCHANGED <<library, met, contested>>

SolveFails(t) ==
  /\ pc[t] = "native"
  /\ Len(call[t].args) = 2
  /\ \E code \in Answers(t, SolveFailures) \ {"OK"} : End(t, Thrown(code))
  /\ UNCHANGED <<library, heap, met, contested>>

(***************************************************************************)
(* close: read, clear, release.                                            *)
(***************************************************************************)
Closing(t, o) == pc[t] = "clear" /\ call[t].args = <<o>>

Close(t, o) ==
  /\ Idle(t)
  /\ o \in constructed
  /\ IF nativeHandle[o] = Null
     THEN End(t, "returned") /\ UNCHANGED contested
     ELSE /\ Continue(t, "clear", Call(<<o>>, <<nativeHandle[o]>>, NoObject))
          /\ contested' = (contested \/ \E u \in Threads : Closing(u, o))
  /\ met' = met \ {t}
  /\ UNCHANGED <<library, heap>>

(* Mutant: the handle is released and stays in the field. *)
ClearForgotten(t) ==
  /\ pc[t] = "clear"
  /\ Continue(t, "release", call[t])
  /\ UNCHANGED <<library, heap, met, contested>>

Clear(t) ==
  /\ pc[t] = "clear"
  /\ nativeHandle' = [nativeHandle EXCEPT ![call[t].args[1]] = Null]
  /\ Continue(t, "release", call[t])
  /\ UNCHANGED <<library, constructed, live, met, contested>>

Release(t) ==
  /\ pc[t] = "release"
  /\ live' = live \ {call[t].handles[1]}
  /\ End(t, "returned")
  /\ UNCHANGED <<library, constructed, nativeHandle, met, contested>>

Step(t) ==
  \/ Loading(t) \/ LoadThrows(t) \/ LoadedAlone(t)
  \/ Create(t) \/ CreateFails(t)
  \/ NewResult(t) \/ Check(t) \/ Read(t)
  \/ BridgeRejects(t) \/ EnterNative(t)
  \/ ReturnFromUse(t) \/ NoArray(t) \/ SolveReturns(t) \/ SolveFails(t)
  \/ Clear(t) \/ Release(t)

Begin(t) ==
  \/ LoadAlone(t)
  \/ \E o \in Objects : New(t, o) \/ Use(t, o) \/ Close(t, o)
  \/ \E model \in Models, options \in OptionsObjects : Solve(t, model, options)

Next == \E t \in Threads : Step(t) \/ Begin(t)

Spec == Init /\ [][Next]_vars

(***************************************************************************)
(* Properties.                                                             *)
(***************************************************************************)
Calls == [args : Seq(Objects), handles : Seq(Handles \cup {Null}),
          new : Objects \cup {NoObject}]

TypeOK ==
  /\ Library!TypeOK
  /\ constructed \subseteq Objects
  /\ nativeHandle \in [Objects -> Handles \cup {Null}]
  /\ live \subseteq Handles
  /\ pc \in [Threads -> {"idle", "load", "create", "check", "read", "bridge",
                         "native", "clear", "release"}]
  /\ call \in [Threads -> Calls]
  /\ outcome \in [Threads -> Outcomes]
  /\ met \subseteq Threads
  /\ contested \in BOOLEAN

(* As long as no two threads close the same object at the same time, a     *)
(* handle in a field is the address of a live native object, and no other  *)
(* field has it: close clears the field before it releases, so that no     *)
(* call begun later can meet a destroyed object or one that took over its  *)
(* address.                                                                *)
FieldsNameLiveObjects ==
  ~contested =>
    \A o \in Objects : nativeHandle[o] # Null =>
      /\ nativeHandle[o] \in live
      /\ \A other \in Objects \ {o} : nativeHandle[other] # nativeHandle[o]

Releasing(t, h) == pc[t] = "release" /\ call[t].handles[1] = h

(* A native object is released once.  None is lost: while it lives it is   *)
(* in a field, or in the hand of the thread that goes on to release it,    *)
(* whichever calls failed before.  And as long as no two threads close the *)
(* same object at the same time, only one thread has it in hand.           *)
ReleasedOnce ==
  /\ \A h \in live :
       \/ \E o \in constructed : nativeHandle[o] = h
       \/ \E t \in Threads : Releasing(t, h)
  /\ ~contested =>
       \A t \in Threads, h \in Handles : Releasing(t, h) =>
         /\ h \in live
         /\ \A u \in Threads \ {t} : ~Releasing(u, h)

(* A method that reads a handle of 0 ends in an IllegalStateException, and *)
(* not in the argument error of the C API: also when another thread closes *)
(* the object between the two reads of requireHandle, or one of the two    *)
(* objects of solve after the other was read.                              *)
ClosedMeansIllegalState ==
  \A t \in met : pc[t] = "idle" => outcome[t] = "IllegalStateException"

(* Native objects exist only once a bridge of the binding's own version is *)
(* bound, and a thread whose load returned got the version it asked for.   *)
LibraryChecked ==
  /\ Library!ReturnMeansMatch
  /\ live # {} => bridge = Version
=============================================================================
