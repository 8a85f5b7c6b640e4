------------------------- MODULE PythonBinding_proofs -------------------------
(***************************************************************************)
(* Proofs about the Python binding, for any number of threads, objects,    *)
(* addresses and libraries.                                                *)
(***************************************************************************)
EXTENDS PythonBinding, FiniteSetTheorems, TLAPS

-----------------------------------------------------------------------------
(* The loader.  What the caches and the threads hold has been opened, and  *)
(* the flag, like every place behind it, means that some library has been  *)
(* declared: the only one, if only one was ever opened.                    *)
LoaderInv ==
  /\ Library!TypeOK
  /\ IsFiniteSet(opened)
  /\ nativeCache \in opened \cup {None}
  /\ bindingCache \in opened \cup {None}
  /\ \A t \in Threads : got[t] \in opened \cup {None}
  /\ configured => declared # {}
  /\ \A t \in Threads : step[t] \in {"flag", "return", "returned"} => declared # {}

LibraryStep(t) ==
  Library!Load(t) \/ Library!Proceed(t) \/ Library!Leave(t) \/ UNCHANGED library

(* Every step of the loader, an exception that ends it half-way included,  *)
(* keeps its invariant: the caches are written after the library has been  *)
(* compared, and the flag after its functions are declared.                *)
LEMMA LoaderSteps ==
  ASSUME LoaderInv, NEW t \in Threads, LibraryStep(t)
  PROVE  LoaderInv'
<1> USE NoneAssumption, LibrariesAssumption
    DEF LoaderInv, Library!TypeOK, Library!Settled, Library!Goto
<1>1. CASE Library!Load(t)
  BY <1>1 DEF Library!Load
<1>2. CASE Library!NativeCached(t)
  BY <1>2 DEF Library!NativeCached
<1>3. CASE Library!NoneFound(t)
  BY <1>3 DEF Library!NoneFound
<1>4. CASE Library!OpenMismatched(t)
  BY <1>4 DEF Library!OpenMismatched
<1>5. CASE Library!Open(t)
  BY <1>5, FS_AddElement DEF Library!Open
<1>6. CASE Library!Reread(t)
  BY <1>6 DEF Library!Reread
<1>7. CASE Library!Assign(t)
  BY <1>7 DEF Library!Assign
<1>8. CASE Library!TestConfigured(t)
  BY <1>8 DEF Library!TestConfigured
<1>9. CASE Library!Configure(t)
  BY <1>9 DEF Library!Configure
<1>10. CASE Library!SetConfigured(t)
  BY <1>10 DEF Library!SetConfigured
<1>11. CASE Library!Return(t)
  BY <1>11 DEF Library!Return
<1>12. CASE Library!Leave(t)
  BY <1>12 DEF Library!Leave
<1>13. CASE UNCHANGED library
  BY <1>13 DEF library
<1> QED
  BY <1>1, <1>2, <1>3, <1>4, <1>5, <1>6, <1>7, <1>8, <1>9, <1>10, <1>11, <1>12,
     <1>13 DEF LibraryStep, Library!Proceed

(* A step of the binding takes at most one step of the loader.             *)
LEMMA LibraryMoves ==
  ASSUME NEW t \in Threads, Step(t) \/ Begin(t) \/ UNCHANGED vars
  PROVE  LibraryStep(t)
<1>1. Step(t) => LibraryStep(t)
  BY DEF LibraryStep, Step, Loading, Loaded, LoadFails, Interrupted, Create,
         CreateFails, Initialise, TakeLibrary, MakeOwn, EnterTry, RequireFails,
         Require, ArgumentFails, Coerced, Call, Return, SetReturns, Mirror,
         SolveFails, SolveReturns, Wrap, CloseOwned, Destroy, Clear
<1>2. Begin(t) => LibraryStep(t)
  BY DEF LibraryStep, Begin, New, Use, Set, Validate, Solve, Close
<1>3. UNCHANGED vars => LibraryStep(t)
  BY DEF LibraryStep, vars
<1> QED
  BY <1>1, <1>2, <1>3

(* A library given to a caller is ready, if only one was opened.           *)
LEMMA LoaderReady == LoaderInv => LibraryReady
<1> SUFFICES ASSUME LoaderInv, NEW t \in Threads,
                    step[t] = "returned", got[t] # None
             PROVE  /\ got[t] \in opened
                    /\ Cardinality(opened) = 1 => got[t] \in declared
  BY DEF LibraryReady, Library!ReturnedIsReady, Library!Cardinality, Cardinality
<1>1. got[t] \in opened /\ declared # {} /\ declared \subseteq opened
  BY DEF LoaderInv, Library!TypeOK
<1>2. ASSUME Cardinality(opened) = 1
      PROVE  \E only : opened = {only}
  BY <1>2, FS_Singleton DEF LoaderInv
<1> QED
  BY <1>1, <1>2

-----------------------------------------------------------------------------
(* What every thread has in hand where it is.                              *)
Places == {"idle", "load", "own", "create", "init", "enter", "require", "argument",
           "call", "native", "mirror", "wrap", "finally", "destroy", "clear"}

DataType ==
  /\ mirror \in [OptionsObjects -> Values \cup {None}]
  /\ setting \in [Handles -> Values]
  /\ live \subseteq Handles
  /\ {contested, raced} \subseteq BOOLEAN
  /\ stranded \subseteq Handles

HeapType ==
  /\ constructed \subseteq Objects
  /\ handle \in [Objects -> Handles \cup {None}]
  /\ pc \in [Threads -> Places]
  /\ call \in [Threads -> Calls]
  /\ DataType

(* What a method has in hand at each place.  A handle that a native call   *)
(* has just made is there until it is in a field.                          *)
HoldsMade(place, c) == c.made # None <=> place \in {"init", "wrap"}

(* The object that is being made, or, of solve, the result it has made. *)
NewFits(place, c) ==
  /\ c.new # None =>
       /\ place \in {"create", "init", "wrap", "finally", "destroy", "clear"}
       /\ place \in {"create", "init", "wrap"} => c.new \notin constructed
       /\ place \in {"create", "init"} => c.owned = None
       /\ place \in {"finally", "destroy", "clear"} =>
            c.owned # None /\ c.new \in constructed
  /\ place = "wrap" => c.new \in Results

(* The options of solve: made before the try, and open until its finally. *)
OwnedFits(place, c) ==
  /\ c.owned # None =>
       /\ place \notin {"idle", "argument", "call", "mirror"}
       /\ place \in {"load", "own", "create", "init"} => c.owned \notin constructed
       /\ place \notin {"load", "own", "create", "init"} =>
            c.owned \in constructed /\ handle[c.owned] \in Handles
       /\ place \in {"load", "own", "create", "init", "enter", "require", "native"} =>
            Len(c.args) = 2
  /\ place \in {"own", "enter", "finally"} => c.owned # None
  /\ place \in {"create", "init"} => c.new # None \/ c.owned # None

(* The objects of the method and the handles read from them. *)
ArgsFit(place, c) ==
  /\ place \in {"load", "own", "create", "init", "enter"} => c.handles = <<>>
  /\ place \in {"load", "require", "native"} => Len(c.args) \in {1, 2}
  /\ place = "require" => Len(c.handles) < Len(c.args)
  /\ place = "native" => Len(c.handles) = Len(c.args)
  /\ place \in {"argument", "call", "mirror", "destroy", "clear"} =>
       Len(c.args) = 1 /\ Len(c.handles) = 1
  /\ place \in {"own", "create", "init", "enter"} /\ c.owned # None => c.library # "later"
  /\ place = "require" /\ c.library = "later" => Len(c.args) = 1
  /\ place \in {"destroy", "clear"} =>
       /\ c.owned # None => c.args[1] = c.owned
       /\ handle[c.args[1]] \in {None, c.handles[1]}
       /\ c.args[1] \in constructed

(* The value of a setter, whose one object is an options object. *)
ValueFits(place, c) ==
  /\ c.value # None =>
       /\ place \in {"require", "argument", "call", "native", "mirror"}
       /\ c.library = "later"
       /\ Len(c.args) = 1 /\ c.args[1] \in OptionsObjects
       /\ c.owned = None
  /\ place = "mirror" => c.value # None

Fits(place, c) ==
  /\ place = "idle" => c = NoCall
  /\ HoldsMade(place, c) /\ NewFits(place, c) /\ OwnedFits(place, c)
  /\ ArgsFit(place, c) /\ ValueFits(place, c)

TypeInv == HeapType /\ \A t \in Threads : Fits(pc[t], call[t])

-----------------------------------------------------------------------------
(* What a method has made and not yet returned is in no other thread's     *)
(* hand, and what it was called with is nobody's alone.                    *)
Mine(t) == {call[t].new, call[t].owned} \ {None}

Apart ==
  /\ \A t, u \in Threads : t # u => Mine(t) \cap Mine(u) = {}
  /\ \A t \in Threads : \A i \in 1 .. Len(call[t].args) :
       call[t].args[i] \in Shared \/ call[t].args[i] = call[t].owned

(* A step is of one thread, and changes no object but those that thread    *)
(* has in hand: it may clear a shared one.                                 *)
OthersStay(t) ==
  \A u \in Threads \ {t} : pc'[u] = pc[u] /\ call'[u] = call[u]

Touches(t) ==
  /\ OthersStay(t)
  /\ constructed' \ Mine(t) = constructed \ Mine(t)
  /\ \A o \in Objects \ Mine(t) :
       handle'[o] = handle[o] \/ (handle'[o] = None /\ o \in Shared)

(* What is shared is in no method's hand as its own. *)
LEMMA SharedMeans ==
  \A o : o \in Shared <=>
    o \in constructed /\ \A t \in Threads : o # call[t].new /\ o # call[t].owned
  BY DEF Shared, Private

(* So it leaves every other thread with what it needs. *)
LEMMA OthersFit ==
  ASSUME TypeInv, Apart, NEW t \in Threads, Touches(t), NEW u \in Threads \ {t}
  PROVE  Fits(pc[u], call[u])'
<1> DEFINE place == pc[u]
           c     == call[u]
<1>1. /\ Fits(place, c) /\ pc'[u] = place /\ call'[u] = c
      /\ c.new \in Objects \cup {None}
      /\ c.owned \in OptionsObjects \cup {None}
      /\ c.args \in Seq(Objects)
  BY DEF TypeInv, HeapType, Calls, Touches, OthersStay
<1>2. /\ c.new # None => c.new \in Objects /\ c.new \notin Mine(t) /\ c.new \notin Shared
      /\ c.owned # None =>
           c.owned \in Objects /\ c.owned \notin Mine(t) /\ c.owned \notin Shared
  <2>1. Mine(t) \cap Mine(u) = {}
    BY DEF Apart
  <2> QED
    BY <1>1, <2>1, SharedMeans DEF Mine, Objects
<1>3. \A o \in Objects : o \notin Mine(t) =>
        /\ o \in constructed' <=> o \in constructed
        /\ handle'[o] = handle[o] \/ (handle'[o] = None /\ o \in Shared)
  BY DEF Touches
<1>4. Len(c.args) = 1 => c.args[1] \in Objects /\ c.args[1] \notin Mine(t)
  <2>1. Len(c.args) = 1 => c.args[1] \in Shared \/ c.args[1] = c.owned
    BY DEF Apart
  <2>2. Len(c.args) = 1 => c.args[1] \in Objects
    BY <1>1
  <2>3. \A o \in Objects \cap Shared : o \notin Mine(t)
    BY SharedMeans DEF Mine
  <2> QED
    BY <1>2, <2>1, <2>2, <2>3, NoneAssumption
<1> HIDE DEF place, c
<1>5. HoldsMade(place, c) /\ ValueFits(place, c) /\ (place = "idle" => c = NoCall)
  BY <1>1 DEF Fits
<1>6. NewFits(place, c)'
  BY <1>1, <1>2, <1>3 DEF Fits, NewFits, place, c
<1>7. OwnedFits(place, c)'
  BY <1>1, <1>2, <1>3 DEF Fits, OwnedFits, place, c
<1>8. ArgsFit(place, c)'
  BY <1>1, <1>3, <1>4 DEF Fits, ArgsFit, place, c
<1> QED
  BY <1>1, <1>5, <1>6, <1>7, <1>8 DEF Fits, HoldsMade, ValueFits, place, c

(* Where a thread is and what it has in hand after a step. *)
LEMMA Moved ==
  ASSUME HeapType, NEW t \in Threads, NEW next \in Places, NEW record \in Calls,
         Continue(t, next, record)
  PROVE  /\ pc' \in [Threads -> Places] /\ call' \in [Threads -> Calls]
         /\ pc'[t] = next /\ call'[t] = record
         /\ OthersStay(t)
  BY DEF HeapType, Continue, OthersStay

(* A step that changes no field keeps what the threads have in hand. *)
LEMMA MoveKeepsTypes ==
  ASSUME TypeInv, NEW t \in Threads, NEW next \in Places, NEW record \in Calls,
         Continue(t, next, record), UNCHANGED <<constructed, handle>>, DataType',
         Fits(next, record)
  PROVE  TypeInv'
<1>1. /\ pc' \in [Threads -> Places] /\ call' \in [Threads -> Calls]
      /\ pc'[t] = next /\ call'[t] = record
      /\ OthersStay(t)
  BY Moved DEF TypeInv
<1>2. HeapType'
  BY <1>1 DEF TypeInv, HeapType
<1>3. ASSUME NEW u \in Threads
      PROVE  Fits(pc[u], call[u])'
  <2>1. Fits(pc'[u], call'[u])
    BY <1>1 DEF TypeInv, OthersStay
  <2> QED
    BY <2>1 DEF Fits, HoldsMade, NewFits, OwnedFits, ArgsFit, ValueFits
<1> QED
  BY <1>2, <1>3 DEF TypeInv

(* So does one that only moves its thread. *)
LEMMA QuietKeepsTypes ==
  ASSUME TypeInv, NEW t \in Threads, NEW next \in Places, NEW record \in Calls,
         Continue(t, next, record), UNCHANGED <<heap, history>>, Fits(next, record)
  PROVE  TypeInv'
<1>1. UNCHANGED <<constructed, handle>> /\ DataType'
  BY DEF TypeInv, HeapType, DataType, heap, history
<1> QED
  BY <1>1, MoveKeepsTypes

(* Any other keeps them if it leaves its own thread with what it needs. *)
LEMMA TouchKeepsTypes ==
  ASSUME TypeInv, Apart, NEW t \in Threads, Touches(t), HeapType', Fits(pc[t], call[t])'
  PROVE  TypeInv'
  BY OthersFit DEF TypeInv

(* What a thread has in hand is typed. *)
LEMMA HandType ==
  ASSUME TypeInv, NEW t \in Threads
  PROVE  /\ call[t] \in Calls /\ pc[t] \in Places /\ Fits(pc[t], call[t])
         /\ call[t].args \in Seq(Objects) /\ call[t].handles \in Seq(Handles)
         /\ call[t].made \in Handles \cup {None} /\ call[t].new \in Objects \cup {None}
         /\ call[t].owned \in OptionsObjects \cup {None}
         /\ call[t].value \in Values \cup {None}
         /\ call[t].library \in {"later", "given", "missing"}
         /\ NoCall \in Calls
  BY DEF TypeInv, HeapType, Calls, NoCall

(* A thread with nothing in hand is where it may be. *)
LEMMA NothingFits == Fits("idle", NoCall)
  BY NoneAssumption DEF Fits, HoldsMade, NewFits, OwnedFits, ArgsFit, ValueFits, NoCall

(* A method that fails inside the try of solve goes on to its finally. *)
LEMMA FailFits ==
  ASSUME TypeInv, NEW t \in Threads, InTry(t), Fail(t)
  PROVE  \E next \in Places, record \in Calls :
           /\ Continue(t, next, record)
           /\ record.made = None /\ record.new = None /\ record.args = <<>>
           /\ record.owned = call[t].owned
           /\ next \in {"idle", "finally"}
           /\ Fits(next, record)
<1>1. CASE call[t].owned # None
  <2> DEFINE record == [NoCall EXCEPT !.owned = call[t].owned]
  <2>1. Continue(t, "finally", record)
    BY <1>1 DEF Fail
  <2>2. record \in Calls
    BY HandType DEF Calls, NoCall
  <2>3. /\ record.made = None /\ record.new = None /\ record.args = <<>>
        /\ record.owned = call[t].owned /\ record.value = None /\ record.handles = <<>>
    BY DEF NoCall
  <2>4. call[t].owned \in constructed /\ handle[call[t].owned] \in Handles
    BY <1>1, HandType DEF InTry, Fits, OwnedFits
  <2> HIDE DEF record
  <2>5. Fits("finally", record)
    BY <1>1, <2>3, <2>4
    DEF Fits, HoldsMade, NewFits, OwnedFits, ArgsFit, ValueFits
  <2> QED
    BY <2>1, <2>2, <2>3, <2>5 DEF Places
<1>2. CASE call[t].owned = None
  <2>1. Continue(t, "idle", NoCall)
    BY <1>2 DEF Fail, End
  <2>2. /\ NoCall.made = None /\ NoCall.new = None /\ NoCall.args = <<>>
        /\ NoCall.owned = call[t].owned
    BY <1>2 DEF NoCall
  <2> QED
    BY <2>1, <2>2, HandType, NothingFits DEF Places
<1> QED
  BY <1>1, <1>2

(* The steps that only move their thread. *)
LEMMA QuietSteps ==
  ASSUME TypeInv, NEW t \in Threads,
         \/ CreateFails(t) \/ ArgumentFails(t) \/ Return(t) \/ EnterTry(t)
         \/ MakeOwn(t) \/ Coerced(t) \/ Call(t) \/ TakeLibrary(t) \/ Require(t)
         \/ RequireFails(t) \/ SolveFails(t)
  PROVE  TypeInv'
<1> DEFINE c == call[t]
<1>1. CASE CreateFails(t)
  <2>1. Continue(t, "idle", NoCall) /\ UNCHANGED <<heap, history>>
    BY <1>1 DEF CreateFails, End
  <2> QED
    BY <2>1, NothingFits, HandType, QuietKeepsTypes DEF Places
<1>2. CASE ArgumentFails(t)
  <2>1. Continue(t, "idle", NoCall) /\ UNCHANGED <<heap, history>>
    BY <1>2 DEF ArgumentFails, End
  <2> QED
    BY <2>1, NothingFits, HandType, QuietKeepsTypes DEF Places
<1>3. CASE Return(t)
  <2>1. Continue(t, "idle", NoCall) /\ UNCHANGED <<heap, history>>
    BY <1>3 DEF Return, End
  <2> QED
    BY <2>1, NothingFits, HandType, QuietKeepsTypes DEF Places
<1>4. CASE EnterTry(t)
  <2>1. Continue(t, "require", call[t]) /\ UNCHANGED <<heap, history>>
    BY <1>4 DEF EnterTry
  <2>2. Len(call[t].handles) = 0 /\ Len(call[t].args) = 2
    <3>1. call[t].handles = <<>> /\ Len(call[t].args) = 2
      BY <1>4, HandType DEF EnterTry, Fits, OwnedFits, ArgsFit
    <3> QED
      BY <3>1
  <2>3. Fits("require", call[t])
    BY <1>4, <2>2, HandType
    DEF EnterTry, Fits, HoldsMade, NewFits, OwnedFits, ArgsFit, ValueFits
  <2> QED
    BY <2>1, <2>3, HandType, QuietKeepsTypes DEF Places
<1>5. CASE MakeOwn(t)
  <2>1. Continue(t, "create", call[t]) /\ UNCHANGED <<heap, history>>
    BY <1>5 DEF MakeOwn
  <2>2. Fits("create", call[t])
    BY <1>5, HandType DEF MakeOwn, Fits, HoldsMade, NewFits, OwnedFits, ArgsFit, ValueFits
  <2> QED
    BY <2>1, <2>2, HandType, QuietKeepsTypes DEF Places
<1>6. CASE Coerced(t)
  <2>1. Continue(t, "call", call[t]) /\ UNCHANGED <<heap, history>>
    BY <1>6 DEF Coerced
  <2>2. Fits("call", call[t])
    BY <1>6, HandType DEF Coerced, Fits, HoldsMade, NewFits, OwnedFits, ArgsFit, ValueFits
  <2> QED
    BY <2>1, <2>2, HandType, QuietKeepsTypes DEF Places
<1>7. CASE Call(t)
  <2>1. Continue(t, "native", call[t]) /\ UNCHANGED <<heap, history>>
    BY <1>7 DEF Call
  <2>2. Fits("native", call[t])
    BY <1>7, HandType DEF Call, Fits, HoldsMade, NewFits, OwnedFits, ArgsFit, ValueFits
  <2> QED
    BY <2>1, <2>2, HandType, QuietKeepsTypes DEF Places
<1>8. CASE TakeLibrary(t)
  <2> DEFINE next   == IF c.owned = None THEN "require" ELSE "own"
             record == [c EXCEPT !.library = IF got[t] = None THEN "missing" ELSE "given"]
  <2>1. Continue(t, next, record) /\ UNCHANGED <<heap, history>> /\ pc[t] = "load"
    BY <1>8 DEF TakeLibrary
  <2>2. /\ record \in Calls /\ record.library # "later"
        /\ record.args = c.args /\ record.handles = c.handles /\ record.made = c.made
        /\ record.new = c.new /\ record.owned = c.owned /\ record.value = c.value
    BY HandType DEF Calls
  <2>3. /\ next \in Places /\ next \in {"require", "own"}
        /\ next = "own" <=> c.owned # None
    BY DEF Places
  <2> HIDE DEF record, next
  <2>4. record.handles = <<>> /\ Len(record.handles) = 0
    <3>1. record.handles = <<>>
      BY <2>1, <2>2, HandType DEF Fits, ArgsFit
    <3> QED
      BY <3>1
  <2>5. Fits(next, record)
    <3>1. Fits("load", c)
      BY <2>1, HandType
    <3>2. HoldsMade(next, record) /\ NewFits(next, record) /\ next # "idle"
      BY <2>2, <2>3, <3>1 DEF Fits, HoldsMade, NewFits
    <3>3. OwnedFits(next, record) /\ ValueFits(next, record)
      BY <2>2, <2>3, <3>1 DEF Fits, OwnedFits, ValueFits
    <3>4. Len(record.args) \in {1, 2} /\ Len(record.handles) < Len(record.args)
      <4>1. Len(c.args) \in {1, 2}
        BY <3>1 DEF Fits, ArgsFit
      <4>2. record.args = c.args /\ Len(record.handles) = 0
        BY <2>2, <2>4
      <4>3. Len(record.args) \in {1, 2}
        BY <4>1, <4>2
      <4> DEFINE n == Len(record.handles)
                 m == Len(record.args)
      <4>4. n = 0 /\ m \in {1, 2}
        BY <4>2, <4>3
      <4> HIDE DEF n, m
      <4>5. n < m
        BY <4>4
      <4> QED
        BY <4>3, <4>5 DEF n, m
    <3>5. ArgsFit(next, record)
      BY <2>2, <2>3, <2>4, <3>4 DEF ArgsFit
    <3> QED
      BY <3>2, <3>3, <3>5 DEF Fits
  <2> QED
    BY <2>1, <2>2, <2>3, <2>5, QuietKeepsTypes
<1>9. CASE Require(t)
  <2> DEFINE handles == Append(c.handles, Required(t))
             next    == IF Len(handles) < Len(c.args) THEN "require"
                        ELSE IF c.library = "later" THEN "argument" ELSE "native"
             record  == [c EXCEPT !.handles = handles]
  <2>1. /\ Continue(t, next, record) /\ UNCHANGED <<heap, history>>
        /\ pc[t] = "require" /\ Required(t) # None
    BY <1>9 DEF Require, Unusable
  <2>2. /\ Len(c.handles) \in Nat /\ Len(c.handles) < Len(c.args) /\ Len(c.args) \in {1, 2}
        /\ c.library = "later" => Len(c.args) = 1
    BY <2>1, HandType DEF Fits, ArgsFit
  <2>3. Required(t) \in Handles
    <3>1. c.args[Len(c.handles) + 1] \in Objects
      BY <2>2, HandType
    <3> QED
      BY <2>1, <3>1 DEF Required, TypeInv, HeapType
  <2>4. handles \in Seq(Handles) /\ Len(handles) = Len(c.handles) + 1
    BY <2>3, HandType
  <2> HIDE DEF handles
  <2>5. /\ record \in Calls /\ record.library = c.library
        /\ record.args = c.args /\ record.handles = handles /\ record.made = c.made
        /\ record.new = c.new /\ record.owned = c.owned /\ record.value = c.value
    BY <2>4, HandType DEF Calls
  <2>6. /\ next = "require" => Len(handles) < Len(c.args)
        /\ next = "argument" => Len(c.args) = 1 /\ Len(handles) = 1 /\ c.library = "later"
        /\ next = "native" => Len(handles) = Len(c.args) /\ c.library # "later"
        /\ next \in {"require", "argument", "native"}
    <3> DEFINE n == Len(handles)
               m == Len(c.args)
    <3>1. n \in Nat /\ n <= m /\ m \in {1, 2} /\ n >= 1
      BY <2>2, <2>4
    <3> HIDE DEF n, m
    <3>2. c.library = "later" => m = 1
      BY <2>2 DEF m
    <3>3. next = IF n < m THEN "require"
                 ELSE IF c.library = "later" THEN "argument" ELSE "native"
      BY DEF n, m
    <3> HIDE DEF next
    <3>4. /\ next = "require" => n < m
          /\ next = "argument" => m = 1 /\ n = 1 /\ c.library = "later"
          /\ next = "native" => n = m /\ c.library # "later"
          /\ next \in {"require", "argument", "native"}
      BY <3>1, <3>2, <3>3
    <3> QED
      BY <3>4 DEF n, m
  <2> HIDE DEF record, next
  <2>7. Fits(next, record)
    <3>1. Fits("require", c)
      BY <2>1, HandType
    <3>2. HoldsMade(next, record) /\ NewFits(next, record) /\ next # "idle"
      BY <2>5, <2>6, <3>1 DEF Fits, HoldsMade, NewFits
    <3>3. c.owned # None => Len(c.args) = 2 /\ c.library # "later"
      BY <2>2, <3>1 DEF Fits, OwnedFits
    <3>4. OwnedFits(next, record) /\ ArgsFit(next, record) /\ ValueFits(next, record)
      BY <2>2, <2>5, <2>6, <3>1, <3>3 DEF Fits, OwnedFits, ArgsFit, ValueFits
    <3> QED
      BY <3>2, <3>4 DEF Fits
  <2> QED
    BY <2>1, <2>5, <2>6, <2>7, QuietKeepsTypes DEF Places
<1>10. CASE RequireFails(t) \/ SolveFails(t)
  <2>1. InTry(t) /\ Fail(t) /\ UNCHANGED <<heap, history>>
    BY <1>10 DEF RequireFails, SolveFails, InTry
  <2> QED
    BY <2>1, FailFits, QuietKeepsTypes
<1> QED
  BY <1>1, <1>2, <1>3, <1>4, <1>5, <1>6, <1>7, <1>8, <1>9, <1>10

(* Sequences of one and of two. *)
LEMMA Short ==
  ASSUME NEW S, NEW a \in S
  PROVE  /\ <<a>> \in Seq(S) /\ Len(<<a>>) = 1 /\ <<a>>[1] = a
         /\ \A b \in S : <<b, a>> \in Seq(S) /\ Len(<<b, a>>) = 2
  OBVIOUS

(* The fields of a method that begins. *)
LEMMA Fresh ==
  ASSUME TypeInv
  PROVE  /\ \A o \in Objects :
              /\ [NoCall EXCEPT !.new = o] \in Calls
              /\ [NoCall EXCEPT !.args = <<o>>] \in Calls
         /\ \A o \in OptionsObjects, v \in Values :
              [NoCall EXCEPT !.args = <<o>>, !.value = v] \in Calls
         /\ \A m \in Models, o \in OptionsObjects, own \in OptionsObjects \cup {None} :
              [NoCall EXCEPT !.args = <<m, o>>, !.owned = own] \in Calls
<1>1. NoCall \in Calls
  BY DEF Calls, NoCall
<1>2. \A o \in Objects : <<o>> \in Seq(Objects)
  BY Short
<1>3. \A m \in Models, o \in OptionsObjects : <<m, o>> \in Seq(Objects)
  BY Short DEF Objects
<1>4. \A o \in OptionsObjects : <<o>> \in Seq(Objects)
  BY Short DEF Objects
<1>5. \A o \in Objects : [NoCall EXCEPT !.new = o] \in Calls
  BY <1>1 DEF Calls
<1>6. \A o \in Objects : [NoCall EXCEPT !.args = <<o>>] \in Calls
  BY <1>1, <1>2 DEF Calls
<1>7. \A o \in OptionsObjects, v \in Values :
        [NoCall EXCEPT !.args = <<o>>, !.value = v] \in Calls
  BY <1>1, <1>4 DEF Calls
<1>8. \A m \in Models, o \in OptionsObjects, own \in OptionsObjects \cup {None} :
        [NoCall EXCEPT !.args = <<m, o>>, !.owned = own] \in Calls
  BY <1>1, <1>3 DEF Calls
<1> QED
  BY <1>5, <1>6, <1>7, <1>8

(* A method begins with nothing in hand but what it is called with. *)
LEMMA NewTypes ==
  ASSUME TypeInv, NEW t \in Threads, NEW o \in Objects, New(t, o)
  PROVE  TypeInv'
<1> DEFINE record == [NoCall EXCEPT !.new = o]
<1>1. Continue(t, "create", record) /\ UNCHANGED <<heap, history>> /\ o \notin constructed
  BY DEF New, Unmade
<1>2. /\ record \in Calls /\ record.new = o /\ record.made = None /\ record.owned = None
      /\ record.value = None /\ record.args = <<>> /\ record.handles = <<>>
  BY Fresh DEF NoCall, Objects
<1> HIDE DEF record
<1>3. Fits("create", record)
  BY <1>1, <1>2, NoneAssumption
  DEF Fits, HoldsMade, NewFits, OwnedFits, ArgsFit, ValueFits
<1> QED
  BY <1>1, <1>2, <1>3, QuietKeepsTypes DEF Places

(* A method of one object has it and no handle yet. *)
LEMMA UseTypes ==
  ASSUME TypeInv, NEW t \in Threads, NEW o \in Objects, Use(t, o)
  PROVE  TypeInv'
<1> DEFINE record == [NoCall EXCEPT !.args = <<o>>]
<1>1. Continue(t, "require", record) /\ UNCHANGED <<heap, history>>
  BY DEF Use
<1>2. /\ record \in Calls /\ record.new = None /\ record.made = None
      /\ record.owned = None /\ record.value = None
      /\ Len(record.args) = 1 /\ Len(record.handles) = 0
  BY Fresh DEF NoCall, Objects
<1> HIDE DEF record
<1>3. Fits("require", record)
  BY <1>2, NoneAssumption DEF Fits, HoldsMade, NewFits, OwnedFits, ArgsFit, ValueFits
<1> QED
  BY <1>1, <1>2, <1>3, QuietKeepsTypes DEF Places

(* So has a setter, with the value to set. *)
LEMMA SetTypes ==
  ASSUME TypeInv, NEW t \in Threads, NEW o \in OptionsObjects, NEW v \in Values,
         Set(t, o, v)
  PROVE  TypeInv'
<1> DEFINE record == [NoCall EXCEPT !.args = <<o>>, !.value = v]
<1>1. Continue(t, "require", record) /\ UNCHANGED <<heap, history>>
  BY DEF Set
<1>2. /\ record \in Calls /\ record.new = None /\ record.made = None
      /\ record.owned = None /\ record.value = v /\ record.library = "later"
      /\ record.args[1] = o /\ Len(record.args) = 1 /\ Len(record.handles) = 0
  BY Fresh DEF NoCall, Objects
<1> HIDE DEF record
<1>3. Fits("require", record)
  BY <1>2, NoneAssumption DEF Fits, HoldsMade, NewFits, OwnedFits, ArgsFit, ValueFits
<1> QED
  BY <1>1, <1>2, <1>3, QuietKeepsTypes DEF Places

(* validate loads the library first. *)
LEMMA ValidateTypes ==
  ASSUME TypeInv, NEW t \in Threads, NEW o \in Models, Validate(t, o)
  PROVE  TypeInv'
<1> DEFINE record == [NoCall EXCEPT !.args = <<o>>]
<1>1. Continue(t, "load", record) /\ UNCHANGED <<heap, history>>
  BY DEF Validate
<1>2. /\ record \in Calls /\ record.new = None /\ record.made = None
      /\ record.owned = None /\ record.value = None
      /\ Len(record.args) = 1 /\ record.handles = <<>>
  BY Fresh DEF NoCall, Objects
<1> HIDE DEF record
<1>3. Fits("load", record)
  BY <1>2, NoneAssumption DEF Fits, HoldsMade, NewFits, OwnedFits, ArgsFit, ValueFits
<1> QED
  BY <1>1, <1>2, <1>3, QuietKeepsTypes DEF Places

(* So does solve, with a model and options that may be its own. *)
LEMMA SolveTypes ==
  ASSUME TypeInv, NEW t \in Threads, NEW m \in Models, NEW o \in OptionsObjects,
         NEW own \in OptionsObjects \cup {None}, Solve(t, m, o, own)
  PROVE  TypeInv'
<1> DEFINE record == [NoCall EXCEPT !.args = <<m, o>>, !.owned = own]
<1>1. Continue(t, "load", record) /\ UNCHANGED <<heap, history>>
  BY DEF Solve
<1>2. /\ record \in Calls /\ record.new = None /\ record.made = None
      /\ record.owned = own /\ record.value = None
      /\ Len(record.args) = 2 /\ record.handles = <<>>
  BY Fresh DEF NoCall, Objects
<1>3. own # None => own \notin constructed
  BY DEF Solve, Unmade
<1> HIDE DEF record
<1>4. Fits("load", record)
  BY <1>2, <1>3, NoneAssumption
  DEF Fits, HoldsMade, NewFits, OwnedFits, ArgsFit, ValueFits
<1> QED
  BY <1>1, <1>2, <1>4, QuietKeepsTypes DEF Places

(* A close has the object and the handle it has read from it. *)
LEMMA CloseTypes ==
  ASSUME TypeInv, NEW t \in Threads, NEW o \in Objects, Close(t, o)
  PROVE  TypeInv'
<1> DEFINE record == [NoCall EXCEPT !.args = <<o>>, !.handles = <<handle[o]>>]
<1>1. Continue(t, "destroy", record) /\ UNCHANGED <<constructed, handle>> /\ DataType'
  BY DEF Close, heap, TypeInv, HeapType, DataType
<1>2. handle[o] \in Handles /\ o \in constructed
  BY SharedMeans DEF Close, TypeInv, HeapType
<1>3. /\ record \in Calls /\ record.new = None /\ record.made = None
      /\ record.owned = None /\ record.value = None
      /\ Len(record.args) = 1 /\ Len(record.handles) = 1
      /\ record.args[1] = o /\ record.handles[1] = handle[o]
  <2>1. /\ <<o>> \in Seq(Objects) /\ Len(<<o>>) = 1 /\ <<o>>[1] = o
        /\ <<handle[o]>> \in Seq(Handles) /\ Len(<<handle[o]>>) = 1
        /\ <<handle[o]>>[1] = handle[o]
    BY <1>2, Short
  <2>2. record \in Calls
    BY <2>1, HandType DEF Calls
  <2> QED
    BY <2>1, <2>2 DEF NoCall
<1> HIDE DEF record
<1>4. Fits("destroy", record)
  BY <1>2, <1>3, NoneAssumption
  DEF Fits, HoldsMade, NewFits, OwnedFits, ArgsFit, ValueFits
<1> QED
  BY <1>1, <1>3, <1>4, MoveKeepsTypes DEF Places

(* The finally of solve closes the options it has made. *)
LEMMA CloseOwnedTypes ==
  ASSUME TypeInv, NEW t \in Threads, CloseOwned(t)
  PROVE  TypeInv'
<1> DEFINE c      == call[t]
           o      == c.owned
           record == [c EXCEPT !.args = <<o>>, !.handles = <<handle[o]>>]
<1>1. Continue(t, "destroy", record) /\ UNCHANGED <<heap, history>> /\ pc[t] = "finally"
  BY DEF CloseOwned
<1>2. o \in OptionsObjects /\ o \in Objects /\ o \in constructed /\ handle[o] \in Handles
  BY <1>1, HandType DEF Fits, OwnedFits, Objects
<1>3. /\ record \in Calls /\ record.new = c.new /\ record.made = c.made
      /\ record.owned = o /\ record.value = c.value
      /\ Len(record.args) = 1 /\ Len(record.handles) = 1
      /\ record.args[1] = o /\ record.handles[1] = handle[o]
  <2>1. /\ <<o>> \in Seq(Objects) /\ Len(<<o>>) = 1 /\ <<o>>[1] = o
        /\ <<handle[o]>> \in Seq(Handles) /\ Len(<<handle[o]>>) = 1
        /\ <<handle[o]>>[1] = handle[o]
    BY <1>2, Short
  <2>2. record \in Calls
    BY <2>1, HandType DEF Calls
  <2> QED
    BY <2>1, <2>2, HandType DEF Calls
<1>4. Fits("finally", c)
  BY <1>1, HandType
<1> HIDE DEF record, c
<1>5. Fits("destroy", record)
  BY <1>2, <1>3, <1>4 DEF Fits, HoldsMade, NewFits, OwnedFits, ArgsFit, ValueFits
<1> QED
  BY <1>1, <1>3, <1>5, QuietKeepsTypes DEF Places

(* A native call that makes an object leaves its handle in hand. *)
LEMMA CreateTypes ==
  ASSUME TypeInv, NEW t \in Threads, Create(t)
  PROVE  TypeInv'
<1> PICK h \in Handles \ live : /\ live' = live \cup {h}
                                /\ Continue(t, "init", [call[t] EXCEPT !.made = h])
  BY DEF Create, Allocate
<1> DEFINE c      == call[t]
           record == [c EXCEPT !.made = h]
<1>1. UNCHANGED <<constructed, handle>> /\ DataType' /\ Fits("create", c)
  BY HandType DEF Create, TypeInv, HeapType, DataType, history
<1>2. /\ record \in Calls /\ record.new = c.new /\ record.made = h
      /\ record.owned = c.owned /\ record.value = c.value
      /\ record.args = c.args /\ record.handles = c.handles /\ record.library = c.library
  BY HandType DEF Calls
<1> HIDE DEF record, c
<1>3. Fits("init", record)
  BY <1>1, <1>2, NoneAssumption
  DEF Fits, HoldsMade, NewFits, OwnedFits, ArgsFit, ValueFits
<1> QED
  BY <1>1, <1>2, <1>3, MoveKeepsTypes DEF Places, record, c

(* solve has the handle of its result and the object that is to get it. *)
LEMMA SolveReturnsTypes ==
  ASSUME TypeInv, NEW t \in Threads, SolveReturns(t)
  PROVE  TypeInv'
<1> PICK r \in Unmade(Results), h \in Handles \ live :
      /\ live' = live \cup {h}
      /\ Continue(t, "wrap", [[call[t] EXCEPT !.new = r] EXCEPT !.made = h])
  BY DEF SolveReturns, Allocate
<1> DEFINE c      == call[t]
           record == [[c EXCEPT !.new = r] EXCEPT !.made = h]
<1>1. /\ UNCHANGED <<constructed, handle>> /\ DataType' /\ Fits("native", c)
      /\ Len(c.args) = 2
  BY HandType DEF SolveReturns, TypeInv, HeapType, DataType, history
<1>2. r \in Results /\ r \in Objects /\ r \notin constructed
  BY DEF Unmade, Objects
<1>3. /\ record \in Calls /\ record.new = r /\ record.made = h
      /\ record.owned = c.owned /\ record.value = c.value
      /\ record.args = c.args /\ record.handles = c.handles /\ record.library = c.library
  BY <1>2, HandType DEF Calls
<1> HIDE DEF record, c
<1>4. Fits("wrap", record)
  BY <1>1, <1>2, <1>3, NoneAssumption
  DEF Fits, HoldsMade, NewFits, OwnedFits, ArgsFit, ValueFits
<1> QED
  BY <1>1, <1>3, <1>4, MoveKeepsTypes DEF Places, record, c

(* The steps of a setter, and the native destroy, change no field. *)
LEMMA DataTypes ==
  ASSUME TypeInv, Apart, NEW t \in Threads, SetReturns(t) \/ Mirror(t) \/ Destroy(t)
  PROVE  TypeInv'
<1> DEFINE c == call[t]
<1>1. CASE SetReturns(t)
  <2>1. /\ Continue(t, "mirror", c) /\ UNCHANGED <<constructed, handle>>
        /\ Fits("native", c) /\ c.value # None
    BY <1>1, HandType DEF SetReturns
  <2>2. DataType'
    BY <1>1, HandType DEF SetReturns, TypeInv, HeapType, DataType
  <2>3. Fits("mirror", c)
    BY <2>1 DEF Fits, HoldsMade, NewFits, OwnedFits, ArgsFit, ValueFits
  <2> QED
    BY <2>1, <2>2, <2>3, HandType, MoveKeepsTypes DEF Places
<1>2. CASE Mirror(t)
  <2>1. /\ Continue(t, "idle", NoCall) /\ UNCHANGED <<constructed, handle>>
        /\ Fits("mirror", c)
    BY <1>2, HandType DEF Mirror, End
  <2>2. DataType'
    BY <1>2, HandType DEF Mirror, TypeInv, HeapType, DataType, history
  <2> QED
    BY <2>1, <2>2, NothingFits, HandType, MoveKeepsTypes DEF Places
<1>3. CASE Destroy(t)
  <2>1. /\ Continue(t, "clear", c) /\ UNCHANGED <<constructed, handle>>
        /\ Fits("destroy", c)
    BY <1>3, HandType DEF Destroy
  <2>2. DataType'
    BY <1>3, DefaultAssumption DEF Destroy, TypeInv, HeapType, DataType, history
  <2>3. Fits("clear", c)
    BY <2>1 DEF Fits, HoldsMade, NewFits, OwnedFits, ArgsFit, ValueFits
  <2> QED
    BY <2>1, <2>2, <2>3, HandType, MoveKeepsTypes DEF Places
<1> QED
  BY <1>1, <1>2, <1>3

(* The rest of a constructor writes the fields of the method's own object. *)
LEMMA InitialiseTypes ==
  ASSUME TypeInv, Apart, NEW t \in Threads, Initialise(t)
  PROVE  TypeInv' /\ Touches(t)
<1> DEFINE c == call[t]
           o == IF c.new # None THEN c.new ELSE c.owned
<1>1. Fits("init", c) /\ pc[t] = "init"
  BY HandType DEF Initialise
<1>2. /\ o \in Objects /\ o \in Mine(t) /\ o \notin constructed /\ c.made \in Handles
      /\ c.new # None => c.owned = None
  BY <1>1, HandType, NoneAssumption
  DEF Fits, HoldsMade, NewFits, OwnedFits, Mine, Objects
<1>3. /\ constructed' = constructed \cup {o}
      /\ handle' = [handle EXCEPT ![o] = c.made]
      /\ mirror' = IF o \in OptionsObjects THEN [mirror EXCEPT ![o] = Default] ELSE mirror
      /\ UNCHANGED <<setting, live, history>>
  BY DEF Initialise
<1>4. DataType'
  BY <1>3, DefaultAssumption DEF DataType, HeapType, TypeInv, history
<1>5. /\ constructed' \subseteq Objects
      /\ handle' \in [Objects -> Handles \cup {None}]
      /\ handle'[o] = c.made
      /\ \A x \in Objects : x # o => handle'[x] = handle[x]
  BY <1>2, <1>3 DEF HeapType, TypeInv
<1>6. CASE c.owned = None
  <2>1. Continue(t, "idle", NoCall)
    BY <1>6 DEF Initialise, End
  <2>2. /\ HeapType' /\ OthersStay(t) /\ pc'[t] = "idle" /\ call'[t] = NoCall
    BY <1>4, <1>5, <2>1, Moved, HandType DEF HeapType, TypeInv, Places
  <2>3. Touches(t)
    BY <1>2, <1>3, <1>5, <2>2 DEF Touches
  <2>4. Fits(pc[t], call[t])'
    BY <2>2, NoneAssumption
    DEF Fits, HoldsMade, NewFits, OwnedFits, ArgsFit, ValueFits, NoCall
  <2> QED
    BY <2>2, <2>3, <2>4, TouchKeepsTypes
<1>7. CASE c.owned # None
  <2> DEFINE record == [c EXCEPT !.made = None]
  <2>1. Continue(t, "enter", record)
    BY <1>7 DEF Initialise
  <2>2. /\ record \in Calls /\ record.new = c.new /\ record.made = None
        /\ record.owned = c.owned /\ record.value = c.value
        /\ record.args = c.args /\ record.handles = c.handles
        /\ record.library = c.library
    BY HandType DEF Calls
  <2> HIDE DEF record
  <2>3. /\ HeapType' /\ OthersStay(t) /\ pc'[t] = "enter" /\ call'[t] = record
    BY <1>4, <1>5, <2>1, <2>2, Moved DEF HeapType, TypeInv, Places
  <2>4. Touches(t)
    BY <1>2, <1>3, <1>5, <2>3 DEF Touches
  <2>5. o = c.owned /\ c.new = None /\ c.owned \in constructed' /\ handle'[c.owned] \in Handles
    BY <1>2, <1>3, <1>5, <1>7
  <2>6. Fits(pc[t], call[t])'
    <3>1. /\ pc'[t] = "enter" /\ call'[t].made = None /\ call'[t].new = None
          /\ call'[t].owned = c.owned /\ call'[t].value = c.value
          /\ call'[t].args = c.args /\ call'[t].handles = c.handles
          /\ call'[t].library = c.library
      BY <2>2, <2>3, <2>5
    <3> HIDE DEF c, o, record
    <3>2. HoldsMade(pc[t], call[t])' /\ NewFits(pc[t], call[t])'
      BY <3>1 DEF HoldsMade, NewFits
    <3>3. OwnedFits(pc[t], call[t])' /\ ValueFits(pc[t], call[t])'
      BY <1>1, <2>5, <3>1 DEF OwnedFits, ValueFits, Fits
    <3>4. ArgsFit(pc[t], call[t])'
      BY <1>1, <3>1 DEF ArgsFit, Fits
    <3> QED
      BY <3>1, <3>2, <3>3, <3>4 DEF Fits
  <2> QED
    BY <2>3, <2>4, <2>6, TouchKeepsTypes
<1> QED
  BY <1>6, <1>7

(* So does the wrapping of a result, which stays with solve until its    *)
(* finally is done.                                                       *)
LEMMA WrapTypes ==
  ASSUME TypeInv, Apart, NEW t \in Threads, Wrap(t)
  PROVE  TypeInv' /\ Touches(t)
<1> DEFINE c == call[t]
           o == c.new
<1>1. Fits("wrap", c) /\ pc[t] = "wrap"
  BY HandType DEF Wrap
<1>2. /\ o \in Objects /\ o \in Mine(t) /\ o \notin constructed /\ c.made \in Handles
      /\ c.owned # None => c.owned \in constructed /\ handle[c.owned] \in Handles
      /\ o # None /\ c.owned \in Objects \cup {None}
  BY <1>1, HandType, NoneAssumption
  DEF Fits, HoldsMade, NewFits, OwnedFits, Mine, Objects
<1>3. /\ constructed' = constructed \cup {o}
      /\ handle' = [handle EXCEPT ![o] = c.made]
      /\ UNCHANGED <<mirror, setting, live, history>>
  BY DEF Wrap
<1>4. DataType'
  BY <1>3 DEF DataType, HeapType, TypeInv, history
<1>5. /\ constructed' \subseteq Objects
      /\ handle' \in [Objects -> Handles \cup {None}]
      /\ handle'[o] = c.made
      /\ \A x \in Objects : x # o => handle'[x] = handle[x]
  BY <1>2, <1>3 DEF HeapType, TypeInv
<1>6. CASE c.owned = None
  <2>1. Continue(t, "idle", NoCall)
    BY <1>6 DEF Wrap, End
  <2>2. /\ HeapType' /\ OthersStay(t) /\ pc'[t] = "idle" /\ call'[t] = NoCall
    BY <1>4, <1>5, <2>1, Moved, HandType DEF HeapType, TypeInv, Places
  <2>3. Touches(t)
    BY <1>2, <1>3, <1>5, <2>2 DEF Touches
  <2>4. Fits(pc[t], call[t])'
    BY <2>2, NoneAssumption
    DEF Fits, HoldsMade, NewFits, OwnedFits, ArgsFit, ValueFits, NoCall
  <2> QED
    BY <2>2, <2>3, <2>4, TouchKeepsTypes
<1>7. CASE c.owned # None
  <2> DEFINE record == [NoCall EXCEPT !.owned = c.owned, !.new = o]
  <2>1. Continue(t, "finally", record)
    BY <1>7 DEF Wrap
  <2>2. /\ record \in Calls /\ record.new = o /\ record.made = None
        /\ record.owned = c.owned /\ record.value = None
        /\ record.args = <<>> /\ record.handles = <<>> /\ record.library = "later"
    <3>1. record \in Calls
      BY <1>2, HandType DEF Calls
    <3> QED
      BY <3>1 DEF NoCall
  <2> HIDE DEF record
  <2>3. /\ HeapType' /\ OthersStay(t) /\ pc'[t] = "finally" /\ call'[t] = record
    BY <1>4, <1>5, <2>1, <2>2, Moved DEF HeapType, TypeInv, Places
  <2>4. Touches(t)
    BY <1>2, <1>3, <1>5, <2>3 DEF Touches
  <2>5. c.owned \in constructed' /\ handle'[c.owned] \in Handles /\ o \in constructed'
    BY <1>2, <1>3, <1>5, <1>7
  <2>6. Fits(pc[t], call[t])'
    <3>1. /\ pc'[t] = "finally" /\ call'[t].made = None /\ call'[t].new = o
          /\ call'[t].owned = c.owned /\ call'[t].value = None
          /\ call'[t].args = <<>> /\ call'[t].handles = <<>>
          /\ call'[t].library = "later"
      BY <2>2, <2>3
    <3> HIDE DEF c, o, record
    <3>2. HoldsMade(pc[t], call[t])' /\ NewFits(pc[t], call[t])'
      BY <1>7, <2>5, <3>1 DEF HoldsMade, NewFits
    <3>3. OwnedFits(pc[t], call[t])' /\ ValueFits(pc[t], call[t])'
      BY <1>7, <2>5, <3>1 DEF OwnedFits, ValueFits
    <3>4. ArgsFit(pc[t], call[t])'
      BY <3>1 DEF ArgsFit
    <3> QED
      BY <3>1, <3>2, <3>3, <3>4 DEF Fits
  <2> QED
    BY <2>3, <2>4, <2>6, TouchKeepsTypes
<1> QED
  BY <1>6, <1>7

(* What is gone with a frame was its own. *)
LEMMA ForgetTypes ==
  ASSUME TypeInv, Apart, NEW t \in Threads, End(t),
         NEW gone, gone \ {None} \subseteq Mine(t), Forget(gone), DataType'
  PROVE  TypeInv' /\ Touches(t)
<1>1. Continue(t, "idle", NoCall)
  BY DEF End
<1>2. /\ constructed' = constructed \ gone
      /\ \A o \in Objects : handle'[o] = IF o \in gone THEN None ELSE handle[o]
      /\ handle' \in [Objects -> Handles \cup {None}]
  BY DEF Forget, TypeInv, HeapType
<1>3. constructed' \subseteq Objects
  BY <1>2 DEF TypeInv, HeapType
<1>4. /\ HeapType' /\ OthersStay(t) /\ pc'[t] = "idle" /\ call'[t] = NoCall
  BY <1>1, <1>2, <1>3, Moved, HandType DEF HeapType, TypeInv, Places
<1>5. Touches(t)
  BY <1>2, <1>4, NoneAssumption DEF Touches, TypeInv, HeapType
<1>6. Fits(pc[t], call[t])'
  BY <1>4, NoneAssumption
  DEF Fits, HoldsMade, NewFits, OwnedFits, ArgsFit, ValueFits, NoCall
<1> QED
  BY <1>4, <1>5, <1>6, TouchKeepsTypes

(* What Forget leaves of the caches is typed. *)
LEMMA ForgetData ==
  ASSUME TypeInv, NEW gone, Forget(gone), UNCHANGED <<setting, live>>,
         {contested, raced}' \subseteq BOOLEAN, stranded' \subseteq Handles
  PROVE  DataType'
  BY DEF Forget, DataType, TypeInv, HeapType

(* The end of a close clears a shared object, or forgets the options of    *)
(* solve.                                                                  *)
LEMMA ClearTypes ==
  ASSUME TypeInv, Apart, NEW t \in Threads, Clear(t)
  PROVE  TypeInv' /\ Touches(t)
<1> DEFINE c == call[t]
           o == c.args[1]
<1>1. Fits("clear", c) /\ End(t) /\ UNCHANGED <<setting, live, history>>
  BY HandType DEF Clear
<1>2. CASE c.owned = None
  <2>1. o \in Shared /\ o \in Objects
    <3>1. Len(c.args) = 1 /\ o \in constructed
      BY <1>1 DEF Fits, ArgsFit
    <3>2. o \in Shared \/ o = c.owned
      BY <3>1 DEF Apart
    <3> QED
      BY <1>2, <3>1, <3>2, NoneAssumption DEF TypeInv, HeapType
  <2>2. /\ handle' = [handle EXCEPT ![o] = None] /\ UNCHANGED <<constructed, mirror>>
    BY <1>2 DEF Clear
  <2>3. Continue(t, "idle", NoCall)
    BY <1>1 DEF End
  <2>4. /\ HeapType' /\ OthersStay(t) /\ pc'[t] = "idle" /\ call'[t] = NoCall
    BY <1>1, <2>2, <2>3, Moved, HandType
    DEF HeapType, DataType, TypeInv, Places, history
  <2>5. Touches(t)
    BY <2>1, <2>2, <2>4 DEF Touches, TypeInv, HeapType
  <2>6. Fits(pc[t], call[t])'
    BY <2>4, NoneAssumption
    DEF Fits, HoldsMade, NewFits, OwnedFits, ArgsFit, ValueFits, NoCall
  <2> QED
    BY <2>4, <2>5, <2>6, TouchKeepsTypes
<1>3. CASE c.owned # None
  <2>1. Forget({c.owned}) /\ {c.owned} \ {None} \subseteq Mine(t)
    BY <1>3 DEF Clear, Mine
  <2>2. DataType'
    BY <1>1, <2>1, ForgetData DEF TypeInv, HeapType, DataType, history
  <2> QED
    BY <1>1, <2>1, <2>2, ForgetTypes
<1> QED
  BY <1>2, <1>3

(* An exception leaves solve for its finally, and any other method. *)
LEMMA RaiseTypes ==
  ASSUME TypeInv, Apart, NEW t \in Threads, Raise(t)
  PROVE  TypeInv' /\ Touches(t)
<1>1. /\ {contested, raced}' \subseteq BOOLEAN /\ stranded' \subseteq Handles
      /\ UNCHANGED <<setting, live>>
  BY DEF Raise, TypeInv, HeapType, DataType
<1>2. CASE InTry(t)
  <2>1. Fail(t) /\ UNCHANGED <<constructed, handle, mirror>>
    BY <1>2 DEF Raise
  <2>2. DataType'
    BY <1>1, <2>1 DEF TypeInv, HeapType, DataType
  <2>3. PICK next \in Places, record \in Calls :
               Continue(t, next, record) /\ Fits(next, record)
    BY <1>2, <2>1, FailFits
  <2>4. TypeInv'
    BY <2>1, <2>2, <2>3, MoveKeepsTypes
  <2>5. OthersStay(t)
    BY <2>3, Moved DEF TypeInv
  <2> QED
    BY <2>1, <2>4, <2>5 DEF Touches
<1>3. CASE ~InTry(t)
  <2> DEFINE gone == {call[t].owned, call[t].new}
  <2>1. End(t) /\ Forget(gone) /\ gone \ {None} \subseteq Mine(t)
    BY <1>3 DEF Raise, Mine
  <2> HIDE DEF gone
  <2>2. DataType'
    BY <1>1, <2>1, ForgetData
  <2> QED
    BY <2>1, <2>2, ForgetTypes
<1> QED
  BY <1>2, <1>3

-----------------------------------------------------------------------------
(* A step takes for its thread alone only objects that nobody has made     *)
(* yet, and is given none that another method has to itself.               *)
Steady(t) ==
  /\ OthersStay(t)
  /\ Mine(t)' \ Mine(t) \subseteq Unmade(Objects)
  /\ \A i \in 1 .. Len(call'[t].args) :
       call'[t].args[i] \in Shared \/ call'[t].args[i] = call'[t].owned

(* What is shared stays shared then. *)
LEMMA StaysShared ==
  ASSUME TypeInv, NEW t \in Threads, Touches(t), Mine(t)' \ Mine(t) \subseteq Unmade(Objects)
  PROVE  Shared \subseteq Shared'
<1> SUFFICES ASSUME NEW o, o \in Shared
             PROVE  o \in Shared'
  OBVIOUS
<1>1. o \in constructed /\ o \in Objects /\ o # None /\ o \notin Mine(t)
  BY SharedMeans, NoneAssumption DEF TypeInv, HeapType, Mine
<1>2. o \in constructed'
  BY <1>1 DEF Touches
<1>3. o \notin Unmade(Objects)
  BY <1>1 DEF Unmade
<1>4. o \notin Mine(t)'
  BY <1>1, <1>3
<1>5. o # call'[t].new /\ o # call'[t].owned
  BY <1>1, <1>4 DEF Mine
<1>6. \A u \in Threads \ {t} : o # call'[u].new /\ o # call'[u].owned
  BY SharedMeans DEF Touches, OthersStay
<1> QED
  BY <1>2, <1>5, <1>6 DEF Shared, Private

(* So what the methods have stays apart. *)
LEMMA ApartSteps ==
  ASSUME TypeInv, Apart, NEW t \in Threads, Touches(t), Steady(t)
  PROVE  Apart' /\ Shared \subseteq Shared'
<1>1. Shared \subseteq Shared'
  BY StaysShared DEF Steady
<1>2. ASSUME NEW u \in Threads \ {t}
      PROVE  /\ Mine(u)' = Mine(u)
             /\ Mine(t)' \cap Mine(u)' = {}
  <2>1. Mine(u)' = Mine(u)
    BY DEF Steady, OthersStay, Mine
  <2>2. Mine(t) \cap Mine(u) = {}
    BY DEF Apart
  <2>3. Unmade(Objects) \cap Mine(u) = {}
    BY DEF Unmade, Private, Mine
  <2> QED
    BY <2>1, <2>2, <2>3 DEF Steady
<1>3. ASSUME NEW u \in Threads, NEW v \in Threads, u # v
      PROVE  Mine(u)' \cap Mine(v)' = {}
  <2>1. CASE u # t /\ v # t
    BY <1>2, <1>3, <2>1 DEF Apart
  <2> QED
    BY <1>2, <1>3, <2>1
<1>4. ASSUME NEW u \in Threads, NEW i \in 1 .. Len(call'[u].args)
      PROVE  call'[u].args[i] \in Shared' \/ call'[u].args[i] = call'[u].owned
  <2>1. CASE u = t
    BY <1>1, <2>1 DEF Steady
  <2>2. CASE u # t
    <3>1. call'[u] = call[u]
      BY <2>2 DEF Steady, OthersStay
    <3> QED
      BY <1>1, <3>1 DEF Apart
  <2> QED
    BY <2>1, <2>2
<1> QED
  BY <1>1, <1>3, <1>4 DEF Apart

(* Where a thread is after a step. *)
LEMMA Goes ==
  ASSUME TypeInv, NEW t \in Threads, NEW next, NEW record, Continue(t, next, record)
  PROVE  pc'[t] = next /\ call'[t] = record /\ OthersStay(t)
  BY DEF TypeInv, HeapType, Continue, OthersStay

(* A step that ends the method is steady. *)
LEMMA EndSteady ==
  ASSUME TypeInv, NEW t \in Threads, Continue(t, "idle", NoCall)
  PROVE  Steady(t)
<1>1. /\ OthersStay(t) /\ call'[t].new = None /\ call'[t].owned = None
      /\ Len(call'[t].args) = 0
  BY Goes DEF NoCall
<1>2. Mine(t)' = {}
  BY <1>1 DEF Mine
<1> QED
  BY <1>1, <1>2 DEF Steady

(* A step that goes on with the same objects is steady. *)
LEMMA SameSteady ==
  ASSUME TypeInv, Apart, NEW t \in Threads, OthersStay(t),
         call'[t].args = call[t].args, call'[t].owned = call[t].owned,
         \/ call'[t].new \in {None, call[t].new}
         \/ call'[t].new \in Unmade(Objects)
  PROVE  Steady(t)
<1>1. Mine(t)' \ Mine(t) \subseteq Unmade(Objects)
  BY DEF Mine
<1> QED
  BY <1>1 DEF Steady, Apart

(* A step that fails inside the try is. *)
LEMMA FailSteady ==
  ASSUME TypeInv, NEW t \in Threads, InTry(t), Fail(t)
  PROVE  Steady(t) /\ pc'[t] \in {"idle", "finally"}
<1>1. PICK next \in Places, record \in Calls :
             /\ Continue(t, next, record)
             /\ record.made = None /\ record.new = None /\ record.args = <<>>
             /\ record.owned = call[t].owned
             /\ next \in {"idle", "finally"}
  BY FailFits
<1>2. /\ OthersStay(t) /\ pc'[t] \in {"idle", "finally"} /\ call'[t].new = None
      /\ call'[t].owned = call[t].owned /\ Len(call'[t].args) = 0
  BY <1>1, Goes
<1>3. Mine(t)' \subseteq Mine(t)
  BY <1>2 DEF Mine
<1> QED
  BY <1>2, <1>3 DEF Steady

-----------------------------------------------------------------------------
(* What the steps do to the objects.  Most only move their thread. *)
Busy == {"init", "wrap", "mirror", "destroy", "clear"}

Quiet(t) ==
  /\ OthersStay(t)
  /\ UNCHANGED <<heap, history>>
  /\ pc[t] \notin Busy /\ pc'[t] \notin Busy

(* These steps only move their thread. *)
LEMMA QuietMoves ==
  ASSUME TypeInv, Apart, NEW t \in Threads,
         \/ CreateFails(t) \/ ArgumentFails(t) \/ Return(t) \/ EnterTry(t)
         \/ MakeOwn(t) \/ Coerced(t) \/ Call(t) \/ TakeLibrary(t) \/ Require(t)
         \/ RequireFails(t) \/ SolveFails(t)
  PROVE  Quiet(t) /\ Steady(t)
<1>1. CASE CreateFails(t)
  <2>1. Continue(t, "idle", NoCall) /\ UNCHANGED <<heap, history>> /\ pc[t] \notin Busy
    BY <1>1 DEF CreateFails, End, Busy
  <2>2. OthersStay(t) /\ pc'[t] = "idle"
    BY <2>1, Goes
  <2> QED
    BY <2>1, <2>2, EndSteady DEF Quiet, Busy
<1>2. CASE ArgumentFails(t)
  <2>1. Continue(t, "idle", NoCall) /\ UNCHANGED <<heap, history>> /\ pc[t] \notin Busy
    BY <1>2 DEF ArgumentFails, End, Busy
  <2>2. OthersStay(t) /\ pc'[t] = "idle"
    BY <2>1, Goes
  <2> QED
    BY <2>1, <2>2, EndSteady DEF Quiet, Busy
<1>3. CASE Return(t)
  <2>1. Continue(t, "idle", NoCall) /\ UNCHANGED <<heap, history>> /\ pc[t] \notin Busy
    BY <1>3 DEF Return, End, Busy
  <2>2. OthersStay(t) /\ pc'[t] = "idle"
    BY <2>1, Goes
  <2> QED
    BY <2>1, <2>2, EndSteady DEF Quiet, Busy
<1>4. CASE EnterTry(t)
  <2>1. Continue(t, "require", call[t]) /\ UNCHANGED <<heap, history>> /\ pc[t] \notin Busy
    BY <1>4 DEF EnterTry, Busy
  <2>2. OthersStay(t) /\ pc'[t] = "require" /\ call'[t] = call[t]
    BY <2>1, Goes
  <2> QED
    BY <2>1, <2>2, SameSteady DEF Quiet, Busy
<1>5. CASE MakeOwn(t)
  <2>1. Continue(t, "create", call[t]) /\ UNCHANGED <<heap, history>> /\ pc[t] \notin Busy
    BY <1>5 DEF MakeOwn, Busy
  <2>2. OthersStay(t) /\ pc'[t] = "create" /\ call'[t] = call[t]
    BY <2>1, Goes
  <2> QED
    BY <2>1, <2>2, SameSteady DEF Quiet, Busy
<1>6. CASE Coerced(t)
  <2>1. Continue(t, "call", call[t]) /\ UNCHANGED <<heap, history>> /\ pc[t] \notin Busy
    BY <1>6 DEF Coerced, Busy
  <2>2. OthersStay(t) /\ pc'[t] = "call" /\ call'[t] = call[t]
    BY <2>1, Goes
  <2> QED
    BY <2>1, <2>2, SameSteady DEF Quiet, Busy
<1>7. CASE Call(t)
  <2>1. Continue(t, "native", call[t]) /\ UNCHANGED <<heap, history>> /\ pc[t] \notin Busy
    BY <1>7 DEF Call, Busy
  <2>2. OthersStay(t) /\ pc'[t] = "native" /\ call'[t] = call[t]
    BY <2>1, Goes
  <2> QED
    BY <2>1, <2>2, SameSteady DEF Quiet, Busy
<1>8. CASE TakeLibrary(t)
  <2> DEFINE next   == IF call[t].owned = None THEN "require" ELSE "own"
             record == [call[t] EXCEPT !.library =
                          IF got[t] = None THEN "missing" ELSE "given"]
  <2>1. Continue(t, next, record) /\ UNCHANGED <<heap, history>> /\ pc[t] \notin Busy
    BY <1>8 DEF TakeLibrary, Busy
  <2>2. /\ record.args = call[t].args /\ record.owned = call[t].owned
        /\ record.new = call[t].new
    BY HandType DEF Calls
  <2>3. next \notin Busy
    BY DEF Busy
  <2> HIDE DEF next, record
  <2>4. OthersStay(t) /\ pc'[t] = next /\ call'[t] = record
    BY <2>1, Goes
  <2> QED
    BY <2>1, <2>2, <2>3, <2>4, SameSteady DEF Quiet
<1>9. CASE Require(t)
  <2> DEFINE handles == Append(call[t].handles, Required(t))
             next    == IF Len(handles) < Len(call[t].args) THEN "require"
                        ELSE IF call[t].library = "later" THEN "argument" ELSE "native"
             record  == [call[t] EXCEPT !.handles = handles]
  <2>1. Continue(t, next, record) /\ UNCHANGED <<heap, history>> /\ pc[t] \notin Busy
    BY <1>9 DEF Require, Busy
  <2> HIDE DEF handles
  <2>2. /\ record.args = call[t].args /\ record.owned = call[t].owned
        /\ record.new = call[t].new
    BY HandType DEF Calls
  <2>3. next \notin Busy
    BY DEF Busy
  <2> HIDE DEF next, record
  <2>4. OthersStay(t) /\ pc'[t] = next /\ call'[t] = record
    BY <2>1, Goes
  <2> QED
    BY <2>1, <2>2, <2>3, <2>4, SameSteady DEF Quiet
<1>10. CASE RequireFails(t) \/ SolveFails(t)
  <2>1. InTry(t) /\ Fail(t) /\ UNCHANGED <<heap, history>> /\ pc[t] \notin Busy
    BY <1>10 DEF RequireFails, SolveFails, InTry, Busy
  <2>2. Steady(t) /\ pc'[t] \notin Busy
    BY <2>1, FailSteady DEF Busy
  <2> QED
    BY <2>1, <2>2 DEF Quiet, Steady
<1> QED
  BY <1>1, <1>2, <1>3, <1>4, <1>5, <1>6, <1>7, <1>8, <1>9, <1>10

(* So do the methods that begin, but for close. *)
LEMMA BeginMoves ==
  ASSUME TypeInv, Apart, NEW t \in Threads,
         NEW next, NEW record \in Calls, Continue(t, next, record),
         UNCHANGED <<heap, history>>, Idle(t), next \notin Busy,
         {record.new, record.owned} \ {None} \subseteq Unmade(Objects),
         \A i \in 1 .. Len(record.args) :
           record.args[i] \in Shared \/ record.args[i] = record.owned
  PROVE  Quiet(t) /\ Steady(t)
<1>1. OthersStay(t) /\ pc'[t] = next /\ call'[t] = record /\ pc[t] = "idle"
  BY Goes DEF Idle
<1>2. Mine(t)' \subseteq Unmade(Objects)
  BY <1>1 DEF Mine
<1>3. Steady(t)
  BY <1>1, <1>2 DEF Steady
<1> QED
  BY <1>1, <1>3 DEF Quiet, Busy

(* Every method but close begins quietly. *)
LEMMA BeginsQuiet ==
  ASSUME TypeInv, Apart, NEW t \in Threads,
         \/ \E o \in Objects : New(t, o) \/ Use(t, o)
         \/ \E o \in OptionsObjects, v \in Values : Set(t, o, v)
         \/ \E m \in Models : Validate(t, m)
         \/ \E m \in Models, o \in OptionsObjects, own \in OptionsObjects \cup {None} :
              Solve(t, m, o, own)
  PROVE  Quiet(t) /\ Steady(t)
<1>1. ASSUME NEW o \in Objects, New(t, o)
      PROVE  Quiet(t) /\ Steady(t)
  <2> DEFINE record == [NoCall EXCEPT !.new = o]
  <2>1. Continue(t, "create", record) /\ UNCHANGED <<heap, history>> /\ Idle(t)
    BY <1>1 DEF New
  <2>2. o \in Unmade(Objects)
    BY <1>1 DEF New, Unmade
  <2>3. /\ record \in Calls /\ record.new = o /\ record.owned = None
        /\ Len(record.args) = 0
    BY Fresh DEF NoCall
  <2> HIDE DEF record
  <2> QED
    BY <2>1, <2>2, <2>3, BeginMoves DEF Busy
<1>2. ASSUME NEW o \in Objects, Use(t, o)
      PROVE  Quiet(t) /\ Steady(t)
  <2> DEFINE record == [NoCall EXCEPT !.args = <<o>>]
  <2>1. /\ Continue(t, "require", record) /\ UNCHANGED <<heap, history>> /\ Idle(t)
        /\ o \in Shared
    BY <1>2 DEF Use
  <2>2. /\ record \in Calls /\ record.new = None /\ record.owned = None
        /\ record.args = <<o>>
    BY Fresh DEF NoCall
  <2> HIDE DEF record
  <2> QED
    BY <2>1, <2>2, BeginMoves DEF Busy
<1>3. ASSUME NEW o \in OptionsObjects, NEW v \in Values, Set(t, o, v)
      PROVE  Quiet(t) /\ Steady(t)
  <2> DEFINE record == [NoCall EXCEPT !.args = <<o>>, !.value = v]
  <2>1. /\ Continue(t, "require", record) /\ UNCHANGED <<heap, history>> /\ Idle(t)
        /\ o \in Shared
    BY <1>3 DEF Set
  <2>2. /\ record \in Calls /\ record.new = None /\ record.owned = None
        /\ record.args = <<o>>
    BY Fresh DEF NoCall
  <2> HIDE DEF record
  <2> QED
    BY <2>1, <2>2, BeginMoves DEF Busy
<1>4. ASSUME NEW o \in Models, Validate(t, o)
      PROVE  Quiet(t) /\ Steady(t)
  <2> DEFINE record == [NoCall EXCEPT !.args = <<o>>]
  <2>1. /\ Continue(t, "load", record) /\ UNCHANGED <<heap, history>> /\ Idle(t)
        /\ o \in Shared /\ o \in Objects
    BY <1>4 DEF Validate, Objects
  <2>2. /\ record \in Calls /\ record.new = None /\ record.owned = None
        /\ record.args = <<o>>
    BY <2>1, Fresh DEF NoCall
  <2> HIDE DEF record
  <2> QED
    BY <2>1, <2>2, BeginMoves DEF Busy
<1>5. ASSUME NEW m \in Models, NEW o \in OptionsObjects,
             NEW own \in OptionsObjects \cup {None}, Solve(t, m, o, own)
      PROVE  Quiet(t) /\ Steady(t)
  <2> DEFINE record == [NoCall EXCEPT !.args = <<m, o>>, !.owned = own]
  <2>1. /\ Continue(t, "load", record) /\ UNCHANGED <<heap, history>> /\ Idle(t)
        /\ m \in Shared
        /\ \/ own = None /\ o \in Shared
           \/ own = o /\ o \in Unmade(Objects)
    BY <1>5 DEF Solve, Unmade, Objects
  <2>2. /\ record \in Calls /\ record.new = None /\ record.owned = own
        /\ record.args = <<m, o>>
    BY Fresh DEF NoCall
  <2> HIDE DEF record
  <2>3. \A i \in 1 .. Len(record.args) : record.args[i] \in Shared \/ record.args[i] = own
    BY <2>1, <2>2
  <2> QED
    BY <2>1, <2>2, <2>3, BeginMoves DEF Busy
<1> QED
  BY <1>1, <1>2, <1>3, <1>4, <1>5

(* A native call makes an object at an address that was free. *)
Allocates(t) ==
  /\ OthersStay(t)
  /\ \E h \in Handles \ live : live' = live \cup {h} /\ call'[t].made = h
  /\ UNCHANGED <<constructed, handle, mirror, setting, history>>
  /\ pc[t] \in {"create", "native"} /\ pc'[t] \in {"init", "wrap"}

(* The native create and the native solve allocate. *)
LEMMA AllocateMoves ==
  ASSUME TypeInv, Apart, NEW t \in Threads, Create(t) \/ SolveReturns(t)
  PROVE  TypeInv' /\ Allocates(t) /\ Steady(t)
<1>1. CASE Create(t)
  <2>1. PICK h \in Handles \ live : /\ live' = live \cup {h}
                                    /\ Continue(t, "init", [call[t] EXCEPT !.made = h])
    BY <1>1 DEF Create, Allocate
  <2> DEFINE record == [call[t] EXCEPT !.made = h]
  <2>2. /\ record.made = h /\ record.new = call[t].new
        /\ record.args = call[t].args /\ record.owned = call[t].owned
    BY HandType DEF Calls
  <2> HIDE DEF record
  <2>3. OthersStay(t) /\ pc'[t] = "init" /\ call'[t] = record
    BY <2>1, Goes DEF record
  <2>4. Allocates(t)
    BY <1>1, <2>1, <2>2, <2>3 DEF Create, Allocates
  <2>5. Steady(t)
    BY <2>2, <2>3, SameSteady
  <2> QED
    BY <1>1, <2>4, <2>5, CreateTypes
<1>2. CASE SolveReturns(t)
  <2>1. PICK r \in Unmade(Results), h \in Handles \ live :
          /\ live' = live \cup {h}
          /\ Continue(t, "wrap", [[call[t] EXCEPT !.new = r] EXCEPT !.made = h])
    BY <1>2 DEF SolveReturns, Allocate
  <2> DEFINE record == [[call[t] EXCEPT !.new = r] EXCEPT !.made = h]
  <2>2. /\ record.made = h /\ record.new = r
        /\ record.args = call[t].args /\ record.owned = call[t].owned
    BY HandType DEF Calls
  <2> HIDE DEF record
  <2>3. OthersStay(t) /\ pc'[t] = "wrap" /\ call'[t] = record
    BY <2>1, Goes DEF record
  <2>4. Allocates(t)
    BY <1>2, <2>1, <2>2, <2>3 DEF SolveReturns, Allocates
  <2>5. r \in Unmade(Objects)
    BY DEF Unmade, Objects
  <2>6. Steady(t)
    BY <2>2, <2>3, <2>5, SameSteady
  <2> QED
    BY <1>2, <2>4, <2>6, SolveReturnsTypes
<1> QED
  BY <1>1, <1>2

(* An object gets the handle that was made for it. *)
Fills(t, o) ==
  /\ OthersStay(t)
  /\ o \in Objects /\ o \in Mine(t) /\ o \notin constructed
  /\ constructed' = constructed \cup {o}
  /\ handle' = [handle EXCEPT ![o] = call[t].made]
  /\ \/ pc[t] = "init" /\ (o \in OptionsObjects => mirror'[o] = Default)
     \/ pc[t] = "wrap" /\ o \notin OptionsObjects
  /\ \A x \in OptionsObjects : x # o => mirror'[x] = mirror[x]
  /\ pc'[t] \in {"idle", "enter", "finally"}
  /\ UNCHANGED <<setting, live, history>>

(* The two constructors fill a field. *)
LEMMA FillMoves ==
  ASSUME TypeInv, Apart, NEW t \in Threads, Initialise(t) \/ Wrap(t)
  PROVE  TypeInv' /\ Touches(t) /\ Steady(t) /\ \E o : Fills(t, o)
<1> DEFINE c == call[t]
<1>1. CASE Initialise(t)
  <2> DEFINE o == IF c.new # None THEN c.new ELSE c.owned
  <2>1. Fits("init", c) /\ pc[t] = "init"
    BY <1>1, HandType DEF Initialise
  <2>2. o \in Objects /\ o \in Mine(t) /\ o \notin constructed
    BY <2>1, HandType, NoneAssumption DEF Fits, NewFits, OwnedFits, Mine, Objects
  <2>3. OthersStay(t) /\ pc'[t] \in {"idle", "enter"} /\ Steady(t)
    <3>1. CASE c.owned = None
      <4>1. Continue(t, "idle", NoCall)
        BY <1>1, <3>1 DEF Initialise, End
      <4> QED
        BY <4>1, Goes, EndSteady
    <3>2. CASE c.owned # None
      <4> DEFINE record == [c EXCEPT !.made = None]
      <4>1. Continue(t, "enter", record)
        BY <1>1, <3>2 DEF Initialise
      <4>2. record.new = c.new /\ record.args = c.args /\ record.owned = c.owned
        BY HandType DEF Calls
      <4> HIDE DEF record
      <4> QED
        BY <4>1, <4>2, Goes, SameSteady
    <3> QED
      BY <3>1, <3>2
  <2>4. /\ constructed' = constructed \cup {o}
        /\ handle' = [handle EXCEPT ![o] = c.made]
        /\ mirror' = IF o \in OptionsObjects THEN [mirror EXCEPT ![o] = Default] ELSE mirror
        /\ UNCHANGED <<setting, live, history>>
    BY <1>1 DEF Initialise
  <2> HIDE DEF o
  <2>5. /\ o \in OptionsObjects => mirror'[o] = Default
        /\ \A x \in OptionsObjects : x # o => mirror'[x] = mirror[x]
    BY <2>4 DEF TypeInv, HeapType, DataType
  <2>6. Fills(t, o)
    BY <2>1, <2>2, <2>3, <2>4, <2>5 DEF Fills
  <2> QED
    BY <1>1, <2>3, <2>6, InitialiseTypes
<1>2. CASE Wrap(t)
  <2>1. Fits("wrap", c) /\ pc[t] = "wrap"
    BY <1>2, HandType DEF Wrap
  <2>2. /\ c.new \in Objects /\ c.new \in Mine(t) /\ c.new \notin constructed
        /\ c.new \notin OptionsObjects
    BY <2>1, HandType, NoneAssumption, KindsAssumption DEF Fits, NewFits, Mine, Objects
  <2>3. OthersStay(t) /\ pc'[t] \in {"idle", "finally"} /\ Steady(t)
    <3>1. CASE c.owned = None
      <4>1. Continue(t, "idle", NoCall)
        BY <1>2, <3>1 DEF Wrap, End
      <4> QED
        BY <4>1, Goes, EndSteady
    <3>2. CASE c.owned # None
      <4> DEFINE record == [NoCall EXCEPT !.owned = c.owned, !.new = c.new]
      <4>1. Continue(t, "finally", record)
        BY <1>2, <3>2 DEF Wrap
      <4>2. record.new = c.new /\ Len(record.args) = 0 /\ record.owned = c.owned
        BY DEF NoCall
      <4> HIDE DEF record
      <4>3. OthersStay(t) /\ pc'[t] = "finally" /\ call'[t] = record
        BY <4>1, Goes
      <4>4. Mine(t)' = Mine(t)
        BY <4>2, <4>3 DEF Mine
      <4> QED
        BY <4>2, <4>3, <4>4 DEF Steady
    <3> QED
      BY <3>1, <3>2
  <2>4. /\ constructed' = constructed \cup {c.new}
        /\ handle' = [handle EXCEPT ![c.new] = c.made]
        /\ UNCHANGED <<mirror, setting, live, history>>
    BY <1>2 DEF Wrap
  <2>5. Fills(t, c.new)
    BY <2>1, <2>2, <2>3, <2>4 DEF Fills
  <2> QED
    BY <1>2, <2>3, <2>5, WrapTypes
<1> QED
  BY <1>1, <1>2

(* The steps of a setter and the native destroy go on with the same call, *)
(* or end it.                                                             *)
LEMMA DataMoves ==
  ASSUME TypeInv, Apart, NEW t \in Threads
  PROVE  /\ SetReturns(t) =>
              /\ TypeInv' /\ OthersStay(t) /\ Steady(t)
              /\ pc'[t] = "mirror" /\ call'[t] = call[t]
         /\ Mirror(t) => TypeInv' /\ OthersStay(t) /\ Steady(t) /\ pc'[t] = "idle"
         /\ Destroy(t) =>
              /\ TypeInv' /\ OthersStay(t) /\ Steady(t)
              /\ pc'[t] = "clear" /\ call'[t] = call[t]
<1>1. ASSUME SetReturns(t)
      PROVE  /\ TypeInv' /\ OthersStay(t) /\ Steady(t)
             /\ pc'[t] = "mirror" /\ call'[t] = call[t]
  <2>1. Continue(t, "mirror", call[t])
    BY <1>1 DEF SetReturns
  <2>2. OthersStay(t) /\ pc'[t] = "mirror" /\ call'[t] = call[t]
    BY <2>1, Goes
  <2> QED
    BY <1>1, <2>2, SameSteady, DataTypes
<1>2. ASSUME Mirror(t)
      PROVE  TypeInv' /\ OthersStay(t) /\ Steady(t) /\ pc'[t] = "idle"
  <2>1. Continue(t, "idle", NoCall)
    BY <1>2 DEF Mirror, End
  <2>2. OthersStay(t) /\ pc'[t] = "idle"
    BY <2>1, Goes
  <2> QED
    BY <1>2, <2>1, <2>2, EndSteady, DataTypes
<1>3. ASSUME Destroy(t)
      PROVE  /\ TypeInv' /\ OthersStay(t) /\ Steady(t)
             /\ pc'[t] = "clear" /\ call'[t] = call[t]
  <2>1. Continue(t, "clear", call[t])
    BY <1>3 DEF Destroy
  <2>2. OthersStay(t) /\ pc'[t] = "clear" /\ call'[t] = call[t]
    BY <2>1, Goes
  <2> QED
    BY <1>3, <2>2, SameSteady, DataTypes
<1> QED
  BY <1>1, <1>2, <1>3

(* What another thread has in hand first is not this thread's own. *)
LEMMA NotInHand ==
  ASSUME TypeInv, Apart, NEW t \in Threads, NEW u \in Threads, u # t,
         Len(call[u].args) = 1
  PROVE  /\ call[u].args[1] \in Objects /\ call[u].args[1] \notin Mine(t)
         /\ call[u].owned = None => call[u].args[1] \in Shared
<1>1. call[u].args[1] \in Objects
  BY HandType
<1>2. call[u].args[1] \in Shared \/ call[u].args[1] = call[u].owned
  BY DEF Apart
<1>3. call[u].owned # None => call[u].owned \in Mine(u)
  BY DEF Mine
<1>4. Mine(u) \cap Mine(t) = {}
  BY DEF Apart
<1>5. call[u].args[1] \in Shared => call[u].args[1] \notin Mine(t)
  BY SharedMeans DEF Mine
<1> QED
  BY <1>1, <1>2, <1>3, <1>4, <1>5, NoneAssumption

(* A close takes an object and its handle.  Nobody else is closing it,     *)
(* unless the close is contested.                                          *)
Closes(t, o) ==
  /\ OthersStay(t)
  /\ pc[t] \in {"idle", "finally"} /\ pc'[t] = "destroy"
  /\ call'[t].args = <<o>> /\ call'[t].handles = <<handle[o]>>
  /\ UNCHANGED <<heap, raced, stranded>>
  /\ ~contested' => ~contested /\ \A u \in Threads \ {t} : ~Closing(u, o)

(* close and the finally of solve begin a close. *)
LEMMA CloseMoves ==
  ASSUME TypeInv, Apart, NEW t \in Threads,
         CloseOwned(t) \/ \E o \in Objects : Close(t, o)
  PROVE  TypeInv' /\ Steady(t) /\ \E o \in Objects : Closes(t, o)
<1>1. CASE CloseOwned(t)
  <2> DEFINE o      == call[t].owned
             record == [call[t] EXCEPT !.args = <<o>>, !.handles = <<handle[o]>>]
  <2>1. Continue(t, "destroy", record) /\ UNCHANGED <<heap, history>> /\ pc[t] = "finally"
    BY <1>1 DEF CloseOwned
  <2>2. /\ record.args = <<o>> /\ record.handles = <<handle[o]>>
        /\ record.new = call[t].new /\ record.owned = o
    BY HandType DEF Calls
  <2> HIDE DEF record
  <2>3. OthersStay(t) /\ pc'[t] = "destroy" /\ call'[t] = record
    BY <2>1, Goes
  <2>4. o \in Objects /\ o \in Mine(t)
    BY <2>1, HandType, NoneAssumption DEF Fits, OwnedFits, Mine, Objects
  <2>5. Mine(t)' = Mine(t)
    BY <2>2, <2>3 DEF Mine
  <2>6. Steady(t)
    BY <2>2, <2>3, <2>5 DEF Steady
  <2>7. ASSUME NEW u \in Threads \ {t}
        PROVE  ~Closing(u, o)
    <3>1. pc[u] \in {"destroy", "clear"} => Len(call[u].args) = 1
      BY HandType DEF Fits, ArgsFit
    <3> QED
      BY <2>4, <3>1, NotInHand DEF Closing
  <2>8. Closes(t, o)
    BY <2>1, <2>2, <2>3, <2>7 DEF Closes, history
  <2> QED
    BY <1>1, <2>4, <2>6, <2>8, CloseOwnedTypes
<1>2. ASSUME NEW o \in Objects, Close(t, o)
      PROVE  TypeInv' /\ Steady(t) /\ Closes(t, o)
  <2> DEFINE record == [NoCall EXCEPT !.args = <<o>>, !.handles = <<handle[o]>>]
  <2>1. /\ Continue(t, "destroy", record) /\ pc[t] = "idle" /\ o \in Shared
        /\ contested' = (contested \/ \E u \in Threads : Closing(u, o))
        /\ UNCHANGED <<heap, raced, stranded>>
    BY <1>2 DEF Close, Idle
  <2>2. /\ record.args = <<o>> /\ record.handles = <<handle[o]>>
        /\ record.new = None /\ record.owned = None
    BY DEF NoCall
  <2> HIDE DEF record
  <2>3. OthersStay(t) /\ pc'[t] = "destroy" /\ call'[t] = record
    BY <2>1, Goes
  <2>4. Mine(t)' = {}
    BY <2>2, <2>3 DEF Mine
  <2>5. Steady(t)
    BY <2>1, <2>2, <2>3, <2>4 DEF Steady
  <2>6. Closes(t, o)
    BY <2>1, <2>2, <2>3 DEF Closes
  <2> QED
    BY <1>2, <2>5, <2>6, CloseTypes
<1> QED
  BY <1>1, <1>2

-----------------------------------------------------------------------------
(* A live object has a field that nobody is clearing, or is in the hand of *)
(* the method that made it.                                                *)
Held(h) ==
  \/ \E o \in constructed : handle[o] = h /\ ~BeingCleared(o)
  \/ \E t \in Threads : call[t].made = h

Kept == \A h \in live \ stranded : Held(h)

(* Who owns a live object while no close is contested.                     *)
FieldsOwn ==
  \A o \in constructed : handle[o] # None /\ ~BeingCleared(o) =>
    /\ handle[o] \in live
    /\ \A other \in constructed \ {o} :
         handle[other] = handle[o] => BeingCleared(other)

ClosesAlone(t) ==
  pc[t] \in {"destroy", "clear"} =>
    /\ handle[call[t].args[1]] = call[t].handles[1]
    /\ \A u \in Threads \ {t} : ~Closing(u, call[t].args[1])

MadeAlone(t) ==
  call[t].made # None =>
    /\ call[t].made \in live
    /\ \A o \in constructed : handle[o] = call[t].made => BeingCleared(o)
    /\ \A u \in Threads \ {t} : call[u].made # call[t].made

Owned ==
  ~contested => /\ FieldsOwn
                /\ \A t \in Threads : ClosesAlone(t) /\ MadeAlone(t)

(* What a setter has written and is about to cache is what is there, or    *)
(* the object is closed or being closed; a new object has the defaults.    *)
Written(t) ==
  pc[t] = "mirror" =>
    LET o == call[t].args[1] IN
    \/ handle[o] = None
    \/ BeingCleared(o)
    \/ setting[handle[o]] = call[t].value

Defaults ==
  /\ \A h \in Handles \ live : setting[h] = Default
  /\ ~contested /\ ~raced =>
       \A t \in Threads : pc[t] = "init" => setting[call[t].made] = Default

Mirrored ==
  /\ Defaults
  /\ MirrorMatches
  /\ ~contested /\ ~raced => \A t \in Threads : Written(t)

IInv == LoaderInv /\ TypeInv /\ Apart /\ Kept /\ Owned /\ Mirrored

-----------------------------------------------------------------------------
(* The end of a close, and an exception, leave fields behind.  Whatever    *)
(* becomes unreachable with them is stranded or destroyed.                 *)
Leaves(t, gone) ==
  /\ OthersStay(t) /\ pc'[t] \in {"idle", "finally"}
  /\ UNCHANGED <<setting, live>> /\ stranded \subseteq stranded'
  /\ constructed' \subseteq constructed /\ constructed \ gone \subseteq constructed'
  /\ \A o \in constructed' : handle'[o] = IF o \in gone THEN None ELSE handle[o]
  /\ \A o \in constructed' \cap OptionsObjects : o \notin gone => mirror'[o] = mirror[o]
  /\ ~contested' =>
       /\ ~contested
       /\ pc[t] = "clear" => call[t].args[1] \in gone
       /\ \A u \in Threads \ {t} :
            pc[u] \in {"destroy", "clear"} => call[u].args[1] \notin gone
  /\ ~raced' => ~raced /\ pc[t] # "mirror"
  /\ \A h \in live \ stranded' :
       /\ call[t].made # h
       /\ \A o \in gone \cap constructed : handle[o] = h => BeingCleared(o)

(* The end of a close leaves the one field that it clears. *)
LEMMA ClearMoves ==
  ASSUME TypeInv, Apart, Owned, NEW t \in Threads, Clear(t)
  PROVE  TypeInv' /\ Touches(t) /\ Steady(t) /\ \E gone : Leaves(t, gone)
<1> DEFINE o == call[t].args[1]
<1>1. /\ Continue(t, "idle", NoCall) /\ pc[t] = "clear" /\ Fits("clear", call[t])
      /\ UNCHANGED <<setting, live, contested, raced, stranded>>
  BY HandType DEF Clear, End, history
<1>2. OthersStay(t) /\ pc'[t] = "idle" /\ Steady(t)
  BY <1>1, Goes, EndSteady
<1>3. /\ Len(call[t].args) = 1 /\ o \in constructed /\ o \in Objects
      /\ call[t].made = None
      /\ call[t].owned # None => o = call[t].owned
  BY <1>1 DEF Fits, ArgsFit, HoldsMade, TypeInv, HeapType
<1>4. /\ constructed' \subseteq constructed /\ constructed \ {o} \subseteq constructed'
      /\ \A x \in constructed' : handle'[x] = IF x \in {o} THEN None ELSE handle[x]
      /\ \A x \in constructed' \cap OptionsObjects : x \notin {o} => mirror'[x] = mirror[x]
  <2>1. CASE call[t].owned = None
    <3>1. handle' = [handle EXCEPT ![o] = None] /\ UNCHANGED <<constructed, mirror>>
      BY <2>1 DEF Clear
    <3> QED
      BY <1>3, <3>1 DEF TypeInv, HeapType
  <2>2. CASE call[t].owned # None
    <3>1. Forget({o})
      BY <1>3, <2>2 DEF Clear
    <3> HIDE DEF o
    <3>2. constructed' = constructed \ {o} /\ constructed \subseteq Objects
      BY <3>1 DEF TypeInv, HeapType, Forget
    <3>3. \A x \in Objects \ {o} : handle'[x] = handle[x]
      BY <3>1 DEF Forget
    <3>4. \A x \in OptionsObjects \ {o} : mirror'[x] = mirror[x]
      BY <3>1 DEF Forget
    <3> QED
      BY <3>2, <3>3, <3>4
  <2> QED
    BY <2>1, <2>2
<1>5. ~contested' => /\ ~contested
                     /\ \A u \in Threads \ {t} :
                          pc[u] \in {"destroy", "clear"} => call[u].args[1] \notin {o}
  BY <1>1 DEF Owned, ClosesAlone, Closing
<1>6. BeingCleared(o)
  BY <1>1 DEF BeingCleared
<1>7. None \notin live
  BY NoneAssumption DEF TypeInv, HeapType, DataType
<1>8. ~raced' => ~raced /\ pc[t] # "mirror"
  BY <1>1
<1> HIDE DEF o
<1>9. \A h \in live \ stranded' :
        /\ call[t].made # h
        /\ \A x \in {o} \cap constructed : handle[x] = h => BeingCleared(x)
  BY <1>3, <1>6, <1>7
<1>10. pc[t] = "clear" => call[t].args[1] \in {o}
  BY DEF o
<1>11. UNCHANGED <<setting, live, stranded>>
  BY <1>1
<1>12. Leaves(t, {o})
  BY <1>2, <1>4, <1>5, <1>8, <1>9, <1>10, <1>11 DEF Leaves
<1> QED
  BY <1>2, <1>12, ClearTypes

(* What an exception takes away is stranded, or was being destroyed. *)
LEMMA LostIsAll ==
  ASSUME TypeInv, NEW t \in Threads, ~InTry(t), pc[t] # "idle",
         NEW o \in {call[t].owned, call[t].new} \cap constructed
  PROVE  handle[o] \in Lost(t) \/ BeingCleared(o)
<1>1. Fits(pc[t], call[t]) /\ pc[t] \in Places /\ o # None
  BY HandType, NoneAssumption DEF TypeInv, HeapType
<1>2. pc[t] \in {"enter", "finally", "destroy", "clear"}
  BY <1>1 DEF Fits, NewFits, OwnedFits, InTry, Places
<1>3. CASE pc[t] = "clear" /\ o # call[t].new
  BY <1>1, <1>3 DEF Fits, ArgsFit, BeingCleared
<1>4. CASE pc[t] # "clear" \/ o = call[t].new
  BY <1>2, <1>4 DEF Lost
<1> QED
  BY <1>3, <1>4

(* An exception leaves what its frame has to itself. *)
LEMMA RaiseMoves ==
  ASSUME TypeInv, Apart, NEW t \in Threads, Raise(t), pc[t] # "idle"
  PROVE  TypeInv' /\ Touches(t) /\ Steady(t) /\ \E gone : Leaves(t, gone)
<1> DEFINE gone == IF InTry(t) THEN {} ELSE {call[t].owned, call[t].new} \ {None}
<1>1. /\ stranded' = stranded \cup (Lost(t) \cap live)
      /\ contested' = (contested \/ (pc[t] = "clear" /\ call[t].owned = None))
      /\ raced' = (raced \/ pc[t] = "mirror")
      /\ UNCHANGED <<setting, live>>
  BY DEF Raise
<1>2. Fits(pc[t], call[t]) /\ None \notin live /\ constructed \subseteq Objects
  BY HandType, NoneAssumption DEF TypeInv, HeapType, DataType
<1>3. OthersStay(t) /\ pc'[t] \in {"idle", "finally"} /\ Steady(t)
  <2>1. CASE InTry(t)
    BY <2>1, FailSteady DEF Raise, Steady
  <2>2. CASE ~InTry(t)
    <3>1. Continue(t, "idle", NoCall)
      BY <2>2 DEF Raise, End
    <3> QED
      BY <3>1, Goes, EndSteady
  <2> QED
    BY <2>1, <2>2
<1>4. /\ constructed' \subseteq constructed /\ constructed \ gone \subseteq constructed'
      /\ \A x \in constructed' : handle'[x] = IF x \in gone THEN None ELSE handle[x]
      /\ \A x \in constructed' \cap OptionsObjects : x \notin gone => mirror'[x] = mirror[x]
  <2>1. CASE InTry(t)
    BY <2>1 DEF Raise
  <2>2. CASE ~InTry(t)
    <3>1. Forget({call[t].owned, call[t].new})
      BY <2>2 DEF Raise
    <3> QED
      BY <1>2, <2>2, <3>1, NoneAssumption DEF Forget
  <2> QED
    BY <2>1, <2>2
<1>5. pc[t] = "clear" /\ call[t].owned # None => call[t].args[1] \in gone
  BY <1>2 DEF Fits, ArgsFit, InTry
<1>6. ASSUME NEW u \in Threads \ {t}, pc[u] \in {"destroy", "clear"}
      PROVE  call[u].args[1] \notin gone
  <2>1. Len(call[u].args) = 1
    BY <1>6, HandType DEF Fits, ArgsFit
  <2>2. call[u].args[1] \notin Mine(t)
    BY <2>1, NotInHand
  <2> QED
    BY <2>2 DEF Mine
<1>7. ASSUME NEW h \in live \ stranded'
      PROVE  /\ call[t].made # h
             /\ \A o \in gone \cap constructed : handle[o] = h => BeingCleared(o)
  <2>1. h \notin Lost(t) /\ h # None
    BY <1>1, <1>2
  <2>2. call[t].made # h
    <3>1. pc[t] \in {"init", "wrap"} => call[t].made \in Lost(t)
      BY DEF Lost
    <3> QED
      BY <1>2, <2>1, <3>1 DEF Fits, HoldsMade
  <2>3. \A o \in gone \cap constructed : handle[o] = h => BeingCleared(o)
    BY <2>1, LostIsAll
  <2> QED
    BY <2>2, <2>3
<1> HIDE DEF gone
<1>8. Leaves(t, gone)
  BY <1>1, <1>3, <1>4, <1>5, <1>6, <1>7 DEF Leaves
<1> QED
  BY <1>3, <1>8, RaiseTypes

-----------------------------------------------------------------------------
(* Every step of a thread is one of these. *)
Sets(t) ==
  SetReturns(t) /\ OthersStay(t) /\ pc'[t] = "mirror" /\ call'[t] = call[t]

Caches(t) == Mirror(t) /\ OthersStay(t) /\ pc'[t] = "idle"

Destroys(t) ==
  Destroy(t) /\ OthersStay(t) /\ pc'[t] = "clear" /\ call'[t] = call[t]

Effect(t) ==
  \/ Quiet(t) \/ Allocates(t) \/ Sets(t) \/ Caches(t) \/ Destroys(t)
  \/ \E o \in Objects : Closes(t, o)
  \/ \E o : Fills(t, o)
  \/ \E gone : Leaves(t, gone)

(* They keep the types and what the threads have apart. *)
LEMMA Effects ==
  ASSUME TypeInv, Apart, Owned, NEW t \in Threads, Step(t) \/ Begin(t), ~Loading(t)
  PROVE  TypeInv' /\ Apart' /\ Shared \subseteq Shared' /\ Effect(t)
<1>1. CASE \/ CreateFails(t) \/ ArgumentFails(t) \/ Return(t) \/ EnterTry(t)
           \/ MakeOwn(t) \/ Coerced(t) \/ Call(t) \/ TakeLibrary(t) \/ Require(t)
           \/ RequireFails(t) \/ SolveFails(t)
  <2>1. Quiet(t) /\ Steady(t) /\ TypeInv'
    BY <1>1, QuietMoves, QuietSteps
  <2>2. Touches(t)
    BY <2>1 DEF Quiet, Touches, heap
  <2> QED
    BY <2>1, <2>2, ApartSteps DEF Effect
<1>2. CASE \/ \E o \in Objects : New(t, o) \/ Use(t, o)
           \/ \E o \in OptionsObjects, v \in Values : Set(t, o, v)
           \/ \E m \in Models : Validate(t, m)
           \/ \E m \in Models, o \in OptionsObjects, own \in OptionsObjects \cup {None} :
                Solve(t, m, o, own)
  <2>1. Quiet(t) /\ Steady(t)
    BY <1>2, BeginsQuiet
  <2>2. TypeInv'
    BY <1>2, NewTypes, UseTypes, SetTypes, ValidateTypes, SolveTypes
  <2>3. Touches(t)
    BY <2>1 DEF Quiet, Touches, heap
  <2> QED
    BY <2>1, <2>2, <2>3, ApartSteps DEF Effect
<1>3. CASE Create(t) \/ SolveReturns(t)
  <2>1. TypeInv' /\ Allocates(t) /\ Steady(t)
    BY <1>3, AllocateMoves
  <2>2. Touches(t)
    BY <2>1 DEF Allocates, Touches
  <2> QED
    BY <2>1, <2>2, ApartSteps DEF Effect
<1>4. CASE Initialise(t) \/ Wrap(t)
  BY <1>4, FillMoves, ApartSteps DEF Effect
<1>5. CASE SetReturns(t)
  <2>1. TypeInv' /\ Sets(t) /\ Steady(t)
    BY <1>5, DataMoves DEF Sets
  <2>2. Touches(t)
    BY <2>1 DEF Sets, SetReturns, Touches
  <2> QED
    BY <2>1, <2>2, ApartSteps DEF Effect
<1>6. CASE Mirror(t)
  <2>1. TypeInv' /\ Caches(t) /\ Steady(t)
    BY <1>6, DataMoves DEF Caches
  <2>2. Touches(t)
    BY <2>1 DEF Caches, Mirror, Touches
  <2> QED
    BY <2>1, <2>2, ApartSteps DEF Effect
<1>7. CASE Destroy(t)
  <2>1. TypeInv' /\ Destroys(t) /\ Steady(t)
    BY <1>7, DataMoves DEF Destroys
  <2>2. Touches(t)
    BY <2>1 DEF Destroys, Destroy, Touches
  <2> QED
    BY <2>1, <2>2, ApartSteps DEF Effect
<1>8. CASE CloseOwned(t) \/ \E o \in Objects : Close(t, o)
  <2>1. TypeInv' /\ Steady(t) /\ \E o \in Objects : Closes(t, o)
    BY <1>8, CloseMoves
  <2>2. Touches(t)
    BY <2>1 DEF Closes, Touches, heap
  <2> QED
    BY <2>1, <2>2, ApartSteps DEF Effect
<1>9. CASE Clear(t)
  BY <1>9, ClearMoves, ApartSteps DEF Effect
<1>10. CASE LoadFails(t) \/ Interrupted(t)
  <2>1. Raise(t) /\ pc[t] # "idle"
    BY <1>10 DEF LoadFails, Interrupted, Idle
  <2> QED
    BY <2>1, RaiseMoves, ApartSteps DEF Effect
<1> QED
  BY <1>1, <1>2, <1>3, <1>4, <1>5, <1>6, <1>7, <1>8, <1>9, <1>10 DEF Step, Begin

(* A step can end the clearing of an object only of its own thread.        *)
LEMMA Cleared ==
  ASSUME NEW t \in Threads, OthersStay(t)
  PROVE  /\ pc'[t] # "clear" => \A o : BeingCleared(o)' => BeingCleared(o)
         /\ \A o : BeingCleared(o) =>
              BeingCleared(o)' \/ (pc[t] = "clear" /\ call[t].args[1] = o)
  BY DEF OthersStay, BeingCleared

-----------------------------------------------------------------------------
(* Nothing is lost. *)
LEMMA KeptSteps ==
  ASSUME TypeInv, TypeInv', Apart, Kept, NEW t \in Threads, Effect(t)
  PROVE  Kept'
<1> USE Cleared
<1>1. /\ call[t].made # None <=> pc[t] \in {"init", "wrap"}
      /\ call'[t].made # None <=> pc'[t] \in {"init", "wrap"}
      /\ None \notin live /\ None \notin live'
  BY NoneAssumption DEF TypeInv, HeapType, DataType, Fits, HoldsMade
<1> SUFFICES ASSUME NEW h \in live' \ stranded'
             PROVE  Held(h)'
  BY DEF Kept
<1>2. ASSUME h \in live \ stranded
      PROVE  \/ \E o \in constructed : handle[o] = h /\ ~BeingCleared(o)
             \/ \E u \in Threads \ {t} : call[u].made = h
             \/ call[t].made = h
  BY <1>2 DEF Kept, Held
<1>3. ASSUME OthersStay(t), NEW u \in Threads \ {t}, call[u].made = h
      PROVE  Held(h)'
  BY <1>3 DEF OthersStay, Held
<1>4. CASE OthersStay(t) /\ UNCHANGED <<constructed, handle, live, stranded>>
           /\ pc[t] \notin {"init", "wrap"} /\ pc'[t] # "clear"
  BY <1>1, <1>2, <1>3, <1>4 DEF Held
<1>5. CASE Quiet(t) \/ Sets(t) \/ Caches(t) \/ \E o \in Objects : Closes(t, o)
  BY <1>4, <1>5
  DEF Quiet, Busy, Sets, SetReturns, Caches, Mirror, Closes, heap, history
<1>6. CASE Allocates(t)
  BY <1>1, <1>2, <1>3, <1>6 DEF Allocates, Held, history
<1>7. ASSUME NEW o, Fills(t, o)
      PROVE  Held(h)'
  <2>1. /\ OthersStay(t) /\ o \in Objects /\ o \in Mine(t) /\ o \notin constructed
        /\ constructed' = constructed \cup {o} /\ constructed \subseteq Objects
        /\ handle'[o] = call[t].made
        /\ \A x \in Objects \ {o} : handle'[x] = handle[x]
        /\ pc'[t] # "clear" /\ h \in live \ stranded
    BY <1>7 DEF Fills, TypeInv, HeapType, history
  <2>2. ~BeingCleared(o)
    <3>1. \A u \in Threads : pc[u] = "clear" => Len(call[u].args) = 1
      BY HandType DEF Fits, ArgsFit
    <3>2. pc[t] # "clear"
      BY <1>7 DEF Fills
    <3> QED
      BY <2>1, <3>1, <3>2, NotInHand DEF BeingCleared
  <2> QED
    BY <1>2, <1>3, <2>1, <2>2 DEF Held
<1>8. CASE Destroys(t)
  <2>1. /\ OthersStay(t) /\ pc[t] = "destroy" /\ pc'[t] = "clear" /\ call'[t] = call[t]
        /\ h \in live \ stranded /\ h # call[t].handles[1]
        /\ UNCHANGED <<constructed, handle>>
    BY <1>8 DEF Destroys, Destroy, history
  <2>2. handle[call[t].args[1]] \in {None, call[t].handles[1]}
    BY <2>1, HandType DEF Fits, ArgsFit
  <2>3. \A o : BeingCleared(o)' => BeingCleared(o) \/ o = call[t].args[1]
    BY <2>1 DEF BeingCleared, OthersStay
  <2> QED
    BY <1>1, <1>2, <1>3, <2>1, <2>2, <2>3 DEF Held
<1>9. ASSUME NEW gone, Leaves(t, gone)
      PROVE  Held(h)'
  <2>1. /\ OthersStay(t) /\ pc'[t] # "clear" /\ h \in live \ stranded
        /\ constructed \ gone \subseteq constructed'
        /\ \A o \in constructed' : o \notin gone => handle'[o] = handle[o]
        /\ call[t].made # h
        /\ \A o \in gone \cap constructed : handle[o] = h => BeingCleared(o)
    BY <1>9 DEF Leaves
  <2> QED
    BY <1>2, <1>3, <2>1 DEF Held
<1> QED
  BY <1>5, <1>6, <1>7, <1>8, <1>9 DEF Effect

-----------------------------------------------------------------------------
(* While no close is contested, every live object has one owner.  The step *)
(* that could break it is the native destroy: the field it is about to     *)
(* leave behind is being cleared, and no other field has the address.      *)
LEMMA Alone ==
  ASSUME TypeInv, Owned, ~contested, NEW t \in Threads, pc[t] = "destroy"
  PROVE  LET o == call[t].args[1]
             h == call[t].handles[1]
         IN /\ o \in constructed /\ h \in Handles /\ handle[o] = h /\ ~BeingCleared(o)
            /\ \A x \in constructed : x # o /\ handle[x] = h => BeingCleared(x)
            /\ \A u \in Threads : call[u].made # h
<1> DEFINE o == call[t].args[1]
           h == call[t].handles[1]
<1>1. Len(call[t].handles) = 1 /\ o \in constructed /\ call[t].made = None
  BY HandType DEF Fits, ArgsFit, HoldsMade
<1>2. h \in Handles /\ h # None
  BY <1>1, HandType, NoneAssumption
<1>3. handle[o] = h /\ \A u \in Threads \ {t} : ~Closing(u, o)
  BY DEF Owned, ClosesAlone
<1>4. ~BeingCleared(o)
  BY <1>3 DEF BeingCleared, Closing
<1>5. \A x \in constructed : x # o /\ handle[x] = h => BeingCleared(x)
  BY <1>1, <1>2, <1>3, <1>4 DEF Owned, FieldsOwn
<1>6. \A u \in Threads : call[u].made # h
  BY <1>1, <1>2, <1>3, <1>4 DEF Owned, MadeAlone
<1> QED
  BY <1>1, <1>2, <1>3, <1>4, <1>5, <1>6

(* Steps that change no field, no address and no close keep the owners. *)
LEMMA CalmOwned ==
  ASSUME TypeInv, TypeInv', Owned, NEW t \in Threads, OthersStay(t),
         UNCHANGED <<constructed, handle, live>>, contested => contested',
         {pc[t], pc'[t]} \cap {"init", "wrap", "destroy", "clear"} = {}
  PROVE  Owned'
<1> SUFFICES ASSUME ~contested'
             PROVE  /\ FieldsOwn'
                    /\ \A u \in Threads : ClosesAlone(u)' /\ MadeAlone(u)'
  BY DEF Owned
<1>1. FieldsOwn /\ \A u \in Threads : ClosesAlone(u) /\ MadeAlone(u)
  BY DEF Owned
<1>2. \A o : BeingCleared(o)' <=> BeingCleared(o)
  BY Cleared
<1>3. call[t].made = None /\ call'[t].made = None
  BY DEF TypeInv, Fits, HoldsMade
<1>4. FieldsOwn'
  BY <1>1, <1>2 DEF FieldsOwn
<1>5. \A u \in Threads : \A o : Closing(u, o)' <=> Closing(u, o)
  BY DEF Closing, OthersStay
<1>6. ASSUME NEW u \in Threads
      PROVE  ClosesAlone(u)' /\ MadeAlone(u)'
  <2>1. ClosesAlone(u)'
    BY <1>1, <1>5 DEF ClosesAlone, OthersStay
  <2>2. MadeAlone(u)'
    BY <1>1, <1>2, <1>3 DEF MadeAlone, OthersStay
  <2> QED
    BY <2>1, <2>2
<1> QED
  BY <1>4, <1>6

(* Every step keeps the owners. *)
LEMMA OwnedSteps ==
  ASSUME TypeInv, TypeInv', Apart, Owned, NEW t \in Threads, Effect(t)
  PROVE  Owned'
<1> SUFFICES ASSUME ~contested'
             PROVE  Owned'
  BY DEF Owned
<1>1. ~contested
  BY DEF Effect, Quiet, Allocates, Sets, SetReturns, Caches, Mirror, Destroys, Destroy,
         Closes, Fills, Leaves, history
<1>2. FieldsOwn /\ \A u \in Threads : ClosesAlone(u) /\ MadeAlone(u)
  BY <1>1 DEF Owned
<1>3. /\ None \notin Handles /\ None \notin live
      /\ constructed \subseteq Objects
      /\ call[t].made # None <=> pc[t] \in {"init", "wrap"}
      /\ call'[t].made # None <=> pc'[t] \in {"init", "wrap"}
  BY NoneAssumption DEF TypeInv, HeapType, DataType, Fits, HoldsMade
<1>4. CASE Quiet(t) \/ Sets(t) \/ Caches(t)
  BY <1>1, <1>4, CalmOwned
  DEF Quiet, Busy, Sets, SetReturns, Caches, Mirror, heap, history
<1>5. ASSUME NEW o \in Objects, Closes(t, o)
      PROVE  Owned'
  <2>1. /\ OthersStay(t) /\ pc[t] \in {"idle", "finally"} /\ pc'[t] = "destroy"
        /\ call'[t].args = <<o>> /\ call'[t].handles = <<handle[o]>>
        /\ UNCHANGED <<constructed, handle, live>>
        /\ \A u \in Threads \ {t} : ~Closing(u, o)
    BY <1>5 DEF Closes, heap
  <2>2. \A x : BeingCleared(x)' <=> BeingCleared(x)
    BY <2>1, Cleared
  <2>3. FieldsOwn'
    BY <1>2, <2>1, <2>2 DEF FieldsOwn
  <2>4. ClosesAlone(t)'
    BY <2>1 DEF ClosesAlone, Closing, OthersStay
  <2>5. \A u \in Threads \ {t} : ClosesAlone(u)'
    BY <1>2, <2>1 DEF ClosesAlone, Closing, OthersStay
  <2>6. \A u \in Threads : MadeAlone(u)'
    BY <1>2, <1>3, <2>1, <2>2 DEF MadeAlone, OthersStay
  <2> QED
    BY <2>3, <2>4, <2>5, <2>6 DEF Owned
<1>6. CASE Allocates(t)
  <2>1. PICK h \in Handles \ live : live' = live \cup {h} /\ call'[t].made = h
    BY <1>6 DEF Allocates
  <2>2. /\ OthersStay(t) /\ UNCHANGED <<constructed, handle>>
        /\ pc[t] \in {"create", "native"} /\ pc'[t] \in {"init", "wrap"}
    BY <1>6 DEF Allocates
  <2>3. \A x : BeingCleared(x)' <=> BeingCleared(x)
    BY <2>2, Cleared
  <2>4. FieldsOwn'
    BY <1>2, <2>1, <2>2, <2>3 DEF FieldsOwn
  <2>5. \A u \in Threads : \A x : Closing(u, x)' <=> Closing(u, x)
    BY <2>2 DEF Closing, OthersStay
  <2>6. \A u \in Threads : ClosesAlone(u)'
    BY <1>2, <2>2, <2>5 DEF ClosesAlone, OthersStay
  <2>7. MadeAlone(t)'
    <3>1. \A o \in constructed : handle[o] = h => BeingCleared(o)
      BY <1>2, <1>3, <2>1 DEF FieldsOwn
    <3>2. \A u \in Threads \ {t} : call[u].made # h
      BY <1>2, <1>3, <2>1 DEF MadeAlone
    <3> QED
      BY <2>1, <2>2, <2>3, <3>1, <3>2 DEF MadeAlone, OthersStay
  <2>8. \A u \in Threads \ {t} : MadeAlone(u)'
    BY <1>2, <2>1, <2>2, <2>3 DEF MadeAlone, OthersStay
  <2> QED
    BY <2>4, <2>6, <2>7, <2>8 DEF Owned
<1>7. ASSUME NEW o, Fills(t, o)
      PROVE  Owned'
  <2> DEFINE m == call[t].made
  <2>1. /\ OthersStay(t) /\ o \in Objects /\ o \in Mine(t) /\ o \notin constructed
        /\ constructed' = constructed \cup {o} /\ UNCHANGED live
        /\ handle'[o] = m
        /\ \A x \in Objects \ {o} : handle'[x] = handle[x]
        /\ pc[t] \in {"init", "wrap"} /\ pc'[t] \in {"idle", "enter", "finally"}
    BY <1>7 DEF Fills, TypeInv, HeapType
  <2>2. \A x : BeingCleared(x)' <=> BeingCleared(x)
    BY <2>1, Cleared
  <2>3. /\ m \in live /\ m # None
        /\ \A x \in constructed : handle[x] = m => BeingCleared(x)
        /\ \A u \in Threads \ {t} : call[u].made # m
    BY <1>2, <1>3, <2>1 DEF MadeAlone
  <2> HIDE DEF m
  <2>4. FieldsOwn'
    <3> SUFFICES ASSUME NEW x \in constructed', handle'[x] # None, ~BeingCleared(x)'
                 PROVE  /\ handle'[x] \in live
                        /\ \A other \in constructed' \ {x} :
                             handle'[other] = handle'[x] => BeingCleared(other)'
      BY <2>1 DEF FieldsOwn
    <3>1. CASE x = o
      BY <1>3, <2>1, <2>2, <2>3, <3>1
    <3>2. CASE x # o
      <4>1. x \in constructed /\ handle'[x] = handle[x] /\ handle[x] # m
        BY <1>3, <2>1, <2>2, <2>3, <3>2
      <4> QED
        BY <1>2, <1>3, <2>1, <2>2, <4>1 DEF FieldsOwn
    <3> QED
      BY <3>1, <3>2
  <2>5. ASSUME NEW u \in Threads
        PROVE  ClosesAlone(u)'
    <3>1. \A v \in Threads : \A x : Closing(v, x)' <=> Closing(v, x)
      BY <2>1 DEF Closing, OthersStay
    <3>2. u # t /\ pc[u] \in {"destroy", "clear"} =>
            call[u].args[1] # o /\ call[u].args[1] \in Objects
      <4>1. pc[u] \in {"destroy", "clear"} => Len(call[u].args) = 1
        BY HandType DEF Fits, ArgsFit
      <4> QED
        BY <2>1, <4>1, NotInHand
    <3> QED
      BY <1>2, <2>1, <3>1, <3>2 DEF ClosesAlone, OthersStay
  <2>6. ASSUME NEW u \in Threads
        PROVE  MadeAlone(u)'
    <3>1. CASE u = t
      BY <1>3, <2>1, <3>1 DEF MadeAlone
    <3>2. CASE u # t
      <4>1. call'[u] = call[u] /\ call[u].made # m
        BY <2>1, <2>3, <3>2 DEF OthersStay
      <4>2. call'[t].made = None
        BY <1>3, <2>1
      <4>3. call[u].made # None =>
              /\ call[u].made \in live
              /\ \A x \in constructed' : handle'[x] = call[u].made => BeingCleared(x)'
        BY <1>2, <1>3, <2>1, <2>2, <4>1 DEF MadeAlone
      <4>4. \A v \in Threads \ {u} : call[u].made # None => call'[v].made # call[u].made
        BY <1>2, <2>1, <4>2 DEF MadeAlone, OthersStay
      <4> QED
        BY <2>1, <4>1, <4>3, <4>4 DEF MadeAlone
    <3> QED
      BY <3>1, <3>2
  <2> QED
    BY <2>4, <2>5, <2>6 DEF Owned
<1>8. CASE Destroys(t)
  <2> DEFINE o == call[t].args[1]
             h == call[t].handles[1]
  <2>1. /\ OthersStay(t) /\ pc[t] = "destroy" /\ pc'[t] = "clear" /\ call'[t] = call[t]
        /\ live' = live \ {h} /\ UNCHANGED <<constructed, handle>>
    BY <1>8 DEF Destroys, Destroy
  <2>2. /\ o \in constructed /\ h \in Handles /\ handle[o] = h
        /\ \A x \in constructed : x # o /\ handle[x] = h => BeingCleared(x)
        /\ \A u \in Threads : call[u].made # h
    BY <1>1, <2>1, Alone
  <2>3. \A x : BeingCleared(x)' <=> BeingCleared(x) \/ x = o
    BY <2>1 DEF BeingCleared, OthersStay
  <2>4. \A u \in Threads : \A x : Closing(u, x)' <=> Closing(u, x)
    BY <2>1 DEF Closing, OthersStay
  <2>5. \A u \in Threads : call'[u].args = call[u].args /\ call'[u].handles = call[u].handles
                           /\ call'[u].made = call[u].made
    BY <2>1 DEF OthersStay
  <2>6. \A u \in Threads : pc'[u] \in {"destroy", "clear"} => pc[u] \in {"destroy", "clear"}
    BY <2>1 DEF OthersStay
  <2> HIDE DEF o, h
  <2>7. FieldsOwn'
    BY <1>2, <2>1, <2>2, <2>3 DEF FieldsOwn
  <2>8. \A u \in Threads : ClosesAlone(u)'
    BY <1>2, <2>1, <2>4, <2>5, <2>6 DEF ClosesAlone
  <2>9. \A u \in Threads : MadeAlone(u)'
    BY <1>2, <2>1, <2>2, <2>3, <2>5 DEF MadeAlone
  <2> QED
    BY <2>7, <2>8, <2>9 DEF Owned
<1>9. ASSUME NEW gone, Leaves(t, gone)
      PROVE  Owned'
  <2>1. /\ OthersStay(t) /\ pc'[t] \in {"idle", "finally"} /\ UNCHANGED live
        /\ constructed' \subseteq constructed
        /\ \A x \in constructed' : handle'[x] = IF x \in gone THEN None ELSE handle[x]
        /\ pc[t] = "clear" => call[t].args[1] \in gone
        /\ \A u \in Threads \ {t} :
             pc[u] \in {"destroy", "clear"} => call[u].args[1] \notin gone
    BY <1>9 DEF Leaves
  <2>2. \A x : x \notin gone => (BeingCleared(x)' <=> BeingCleared(x))
    BY <2>1, Cleared
  <2>3. FieldsOwn'
    BY <1>2, <2>1, <2>2 DEF FieldsOwn
  <2>4. \A u \in Threads \ {t} : pc'[u] = pc[u] /\ call'[u] = call[u]
    BY <2>1 DEF OthersStay
  <2>5. call'[t].made = None
    BY <1>3, <2>1
  <2>6. ASSUME NEW u \in Threads
        PROVE  ClosesAlone(u)'
    <3>1. CASE u = t
      BY <2>1, <3>1 DEF ClosesAlone
    <3>2. CASE u # t
      <4>1. ASSUME pc[u] \in {"destroy", "clear"}
            PROVE  handle'[call[u].args[1]] = handle[call[u].args[1]]
        <5>1. call[u].args[1] \in constructed'
          BY <2>4, <3>2, <4>1 DEF TypeInv, Fits, ArgsFit
        <5> QED
          BY <2>1, <3>2, <4>1, <5>1
      <4>2. \A v \in Threads : \A x : Closing(v, x)' => Closing(v, x)
        BY <2>1, <2>4 DEF Closing
      <4> QED
        BY <1>2, <2>4, <3>2, <4>1, <4>2 DEF ClosesAlone
    <3> QED
      BY <3>1, <3>2
  <2>7. ASSUME NEW u \in Threads
        PROVE  MadeAlone(u)'
    <3>1. CASE u = t
      BY <2>5, <3>1 DEF MadeAlone
    <3>2. CASE u # t
      <4>1. call[u].made # None =>
              /\ call[u].made \in live
              /\ \A x \in constructed' : handle'[x] = call[u].made => BeingCleared(x)'
        BY <1>2, <2>1, <2>2 DEF MadeAlone
      <4>2. call[u].made # None => \A v \in Threads \ {u} : call'[v].made # call[u].made
        BY <1>2, <2>4, <2>5 DEF MadeAlone
      <4> QED
        BY <2>1, <2>4, <3>2, <4>1, <4>2 DEF MadeAlone
    <3> QED
      BY <3>1, <3>2
  <2> QED
    BY <2>3, <2>6, <2>7 DEF Owned
<1> QED
  BY <1>4, <1>5, <1>6, <1>7, <1>8, <1>9 DEF Effect

-----------------------------------------------------------------------------
(* What an options object says of its setting is what is there, unless it  *)
(* is being set or closed.                                                 *)
BeingSet(o) == \E t \in Threads : pc[t] = "mirror" /\ call[t].args[1] = o

Matches(o) ==
  \/ handle[o] = None
  \/ BeingCleared(o) \/ BeingSet(o)
  \/ mirror[o] = setting[handle[o]]

(* The property in these words. *)
LEMMA MirrorMeans ==
  MirrorMatches <=>
    (~contested /\ ~raced => \A o \in OptionsObjects \cap constructed : Matches(o))
  BY DEF MirrorMatches, Matches, BeingCleared, BeingSet

(* The same of the state after a step. *)
LEMMA MirrorMeansNext ==
  MirrorMatches' <=>
    (~contested' /\ ~raced' => \A o \in OptionsObjects \cap constructed' : Matches(o)')
  BY DEF MirrorMatches, Matches, BeingCleared, BeingSet

(* Every history variable stays TRUE. *)
LEMMA Remembered ==
  ASSUME NEW t \in Threads, Effect(t)
  PROVE  (contested => contested') /\ (raced => raced')
<1>1. Quiet(t) \/ Allocates(t) \/ Caches(t) \/ Destroys(t) \/ (\E o : Fills(t, o)) =>
        UNCHANGED history
  BY DEF Quiet, Allocates, Caches, Mirror, Destroys, Destroy, Fills
<1>2. UNCHANGED history => (contested => contested') /\ (raced => raced')
  BY DEF history
<1>3. Sets(t) => (contested => contested') /\ (raced => raced')
  BY DEF Sets, SetReturns
<1>4. \A o : Closes(t, o) => (contested => contested') /\ (raced => raced')
  BY DEF Closes
<1>5. \A gone : Leaves(t, gone) => (contested => contested') /\ (raced => raced')
  BY DEF Leaves
<1> QED
  BY <1>1, <1>2, <1>3, <1>4, <1>5 DEF Effect

(* A step that writes no setting and no field of a living object, and ends *)
(* neither a setter nor a close, keeps what is there.                      *)
LEMMA CalmMirrored ==
  ASSUME TypeInv, Mirrored, NEW t \in Threads, OthersStay(t),
         UNCHANGED <<constructed, handle, mirror, setting>>, live \subseteq live',
         contested => contested', raced => raced',
         pc[t] \notin {"mirror", "clear"}, pc'[t] # "mirror",
         pc'[t] = "init" => pc[t] # "init" /\ call'[t].made \in Handles \ live
  PROVE  Mirrored'
<1>1. \A o : (BeingCleared(o) => BeingCleared(o)') /\ (BeingSet(o) => BeingSet(o)')
  BY DEF OthersStay, BeingCleared, BeingSet
<1>2. Defaults'
  BY DEF Mirrored, Defaults, OthersStay
<1>3. MirrorMatches'
  BY <1>1, MirrorMeans, MirrorMeansNext DEF Mirrored, Matches
<1>4. ~contested' /\ ~raced' => \A u \in Threads : Written(u)'
  BY <1>1 DEF Mirrored, Written, OthersStay
<1> QED
  BY <1>2, <1>3, <1>4 DEF Mirrored

(* A setter has the handle of a shared options object. *)
LEMMA Setting ==
  ASSUME TypeInv, Apart, NEW t \in Threads,
         \/ pc[t] = "mirror"
         \/ pc[t] = "native" /\ call[t].value # None
  PROVE  LET o == call[t].args[1]
         IN /\ o \in Shared /\ o \in constructed /\ o \in OptionsObjects /\ o \in Objects
            /\ call[t].handles[1] \in Handles /\ call[t].owned = None
            /\ call[t].value \in Values /\ Len(call[t].args) = 1
<1>1. /\ call[t].value # None /\ call[t].owned = None /\ call[t].args[1] \in OptionsObjects
      /\ Len(call[t].args) = 1 /\ Len(call[t].handles) = 1
  BY HandType DEF Fits, ValueFits, ArgsFit
<1>2. call[t].args[1] \in Shared \/ call[t].args[1] = None
  BY <1>1 DEF Apart
<1>3. call[t].args[1] \in Objects /\ call[t].args[1] # None
  BY <1>1, NoneAssumption DEF Objects
<1> QED
  BY <1>1, <1>2, <1>3, SharedMeans, HandType

(* An address in two fields is in one that is being cleared. *)
LEMMA OneField ==
  ASSUME TypeInv, Owned, ~contested, NEW o \in constructed, NEW x \in constructed,
         handle[o] \in Handles, handle[x] = handle[o], ~BeingCleared(o), ~BeingCleared(x)
  PROVE  x = o
  BY NoneAssumption DEF Owned, FieldsOwn

(* The cached settings match wherever nobody is setting or closing. *)
LEMMA MirroredSteps ==
  ASSUME TypeInv, TypeInv', Apart, Owned, Mirrored, NEW t \in Threads, Effect(t),
         Shared \subseteq Shared'
  PROVE  Mirrored'
<1> USE Remembered
<1>1. CASE Quiet(t)
  BY <1>1, CalmMirrored DEF Quiet, Busy, heap
<1>2. CASE Allocates(t)
  <2>1. /\ OthersStay(t) /\ UNCHANGED <<constructed, handle, mirror, setting>>
        /\ live \subseteq live' /\ call'[t].made \in Handles \ live
        /\ pc[t] \in {"create", "native"} /\ pc'[t] \in {"init", "wrap"}
    BY <1>2 DEF Allocates
  <2> QED
    BY <2>1, CalmMirrored
<1>3. ASSUME NEW o \in Objects, Closes(t, o)
      PROVE  Mirrored'
  <2>1. /\ OthersStay(t) /\ UNCHANGED <<constructed, handle, mirror, setting, live>>
        /\ pc[t] \in {"idle", "finally"} /\ pc'[t] = "destroy"
    BY <1>3 DEF Closes, heap
  <2> QED
    BY <2>1, CalmMirrored
<1>4. ASSUME NEW o, Fills(t, o)
      PROVE  Mirrored'
  <2>1. /\ OthersStay(t) /\ o \in Objects /\ o \in Mine(t) /\ o \notin constructed
        /\ constructed' = constructed \cup {o} /\ UNCHANGED <<live, setting>>
        /\ handle'[o] = call[t].made
        /\ \A x \in Objects \ {o} : handle'[x] = handle[x]
        /\ \A x \in OptionsObjects : x # o => mirror'[x] = mirror[x]
        /\ o \in OptionsObjects => pc[t] = "init" /\ mirror'[o] = Default
        /\ pc[t] \in {"init", "wrap"} /\ pc'[t] \in {"idle", "enter", "finally"}
        /\ OptionsObjects \subseteq Objects
    BY <1>4 DEF Fills, TypeInv, HeapType, Objects
  <2>2. \A x : (BeingCleared(x) => BeingCleared(x)') /\ (BeingSet(x) => BeingSet(x)')
    BY <2>1 DEF OthersStay, BeingCleared, BeingSet
  <2>3. Defaults'
    BY <2>1 DEF Mirrored, Defaults, OthersStay
  <2>4. ASSUME ~contested', ~raced', NEW x \in OptionsObjects \cap constructed'
        PROVE  Matches(x)'
    <3>1. CASE x = o
      <4>1. setting[call[t].made] = Default
        BY <2>1, <2>4, <3>1 DEF Mirrored, Defaults
      <4> QED
        BY <2>1, <3>1, <4>1 DEF Matches
    <3>2. CASE x # o
      <4>1. Matches(x) /\ handle'[x] = handle[x] /\ mirror'[x] = mirror[x]
        BY <2>1, <2>4, <3>2, MirrorMeans DEF Mirrored
      <4> QED
        BY <2>1, <2>2, <4>1 DEF Matches
    <3> QED
      BY <3>1, <3>2
  <2>5. ASSUME ~contested', ~raced', NEW u \in Threads, pc'[u] = "mirror"
        PROVE  Written(u)'
    <3>1. u # t /\ pc[u] = "mirror" /\ call'[u] = call[u]
      BY <2>1, <2>5 DEF OthersStay
    <3>2. call[u].args[1] \in Objects /\ call[u].args[1] # o
      BY <2>1, <3>1, Setting, NotInHand
    <3>3. Written(u)
      BY <2>5 DEF Mirrored
    <3> QED
      BY <2>1, <2>2, <3>1, <3>2, <3>3 DEF Written
  <2>6. MirrorMatches'
    BY <2>4, MirrorMeansNext
  <2>7. ~contested' /\ ~raced' => \A u \in Threads : Written(u)'
    BY <2>5 DEF Written
  <2> QED
    BY <2>3, <2>6, <2>7 DEF Mirrored
<1>5. CASE Sets(t)
  <2> PICK o, h : o = call[t].args[1] /\ h = call[t].handles[1]
    OBVIOUS
  <2>1. /\ OthersStay(t) /\ pc[t] = "native" /\ call[t].value # None
        /\ pc'[t] = "mirror" /\ call'[t] = call[t]
        /\ setting' = IF h \in live THEN [setting EXCEPT ![h] = call[t].value] ELSE setting
        /\ UNCHANGED <<constructed, handle, mirror, live>>
    BY <1>5 DEF Sets, SetReturns
  <2>2. /\ o \in constructed /\ o \in OptionsObjects /\ h \in Handles /\ h # None
    BY <2>1, Setting, NoneAssumption
  <2>3. ASSUME ~raced'
        PROVE  /\ handle[o] = h
               /\ \A u \in Threads : pc[u] \in {"mirror", "clear"} => call[u].args[1] # o
    BY <1>5, <2>3 DEF Sets, SetReturns
  <2>4. \A x : (BeingCleared(x) => BeingCleared(x)') /\ (BeingSet(x) => BeingSet(x)')
    BY <2>1 DEF OthersStay, BeingCleared, BeingSet
  <2>5. BeingSet(o)'
    BY <2>1 DEF BeingSet
  <2>6. /\ \A x \in Handles \ {h} : setting'[x] = setting[x]
        /\ h \in live => setting'[h] = call[t].value
        /\ h \notin live => setting' = setting
    BY <2>1, <2>2 DEF TypeInv, HeapType, DataType
  <2>7. ASSUME ~contested', ~raced'
        PROVE  /\ ~BeingCleared(o) /\ handle[o] = h /\ h \in live
               /\ \A u \in Threads : call[u].made # h
               /\ \A x \in constructed : handle[x] = h => x = o \/ BeingCleared(x)
    <3>1. ~BeingCleared(o) /\ handle[o] = h /\ ~contested
      BY <2>3, <2>7 DEF BeingCleared
    <3>2. h \in live
      BY <2>2, <3>1 DEF Owned, FieldsOwn
    <3>3. \A u \in Threads : call[u].made # h
      BY <2>2, <3>1 DEF Owned, MadeAlone
    <3>4. \A x \in constructed : handle[x] = h => x = o \/ BeingCleared(x)
      BY <2>2, <3>1, OneField
    <3> QED
      BY <3>1, <3>2, <3>3, <3>4
  <2>8. Defaults'
    <3>1. \A x \in Handles \ live : setting'[x] = Default
      BY <2>6 DEF Mirrored, Defaults
    <3>2. ASSUME ~contested', ~raced', NEW u \in Threads, pc'[u] = "init"
          PROVE  setting'[call'[u].made] = Default
      <4>1. pc[u] = "init" /\ call'[u] = call[u]
        BY <2>1, <3>2 DEF OthersStay
      <4>2. setting[call[u].made] = Default
        BY <3>2, <4>1 DEF Mirrored, Defaults
      <4>3. call[u].made \in Handles /\ call[u].made # h
        BY <2>7, <3>2, <4>1, HandType DEF Fits, HoldsMade
      <4> QED
        BY <2>6, <4>1, <4>2, <4>3
    <3> QED
      BY <2>1, <3>1, <3>2 DEF Defaults
  <2>9. ASSUME ~contested', ~raced', NEW x \in OptionsObjects \cap constructed
        PROVE  Matches(x)'
    <3>1. Matches(x)
      BY <2>9, MirrorMeans DEF Mirrored
    <3>2. CASE handle[x] = h
      <4>1. x = o \/ BeingCleared(x)
        BY <2>7, <2>9, <3>2
      <4>2. BeingSet(x)' \/ BeingCleared(x)'
        BY <2>4, <2>5, <4>1
      <4> QED
        BY <4>2 DEF Matches
    <3>3. CASE handle[x] # h
      <4>1. handle[x] \in Handles \cup {None}
        BY DEF TypeInv, HeapType
      <4> QED
        BY <2>1, <2>4, <2>6, <3>1, <3>3, <4>1 DEF Matches
    <3> QED
      BY <3>2, <3>3
  <2>10. ASSUME ~contested', ~raced', NEW u \in Threads, pc'[u] = "mirror"
         PROVE  Written(u)'
    <3>1. CASE u = t
      BY <2>1, <2>6, <2>7, <2>10, <3>1 DEF Written
    <3>2. CASE u # t
      <4> DEFINE x == call[u].args[1]
      <4>1. pc[u] = "mirror" /\ call'[u] = call[u]
        BY <2>1, <2>10, <3>2 DEF OthersStay
      <4>2. x \in constructed /\ x \in Objects
        BY <4>1, Setting
      <4>3. x # o
        BY <2>3, <2>10, <4>1
      <4>4. handle[x] \in Handles \cup {None}
        BY <4>2 DEF TypeInv, HeapType
      <4>5. handle[x] = h => BeingCleared(x)
        BY <2>7, <2>10, <4>2, <4>3
      <4>6. \/ handle[x] = None \/ BeingCleared(x)
            \/ setting[handle[x]] = call[u].value
        BY <2>10, <4>1 DEF Mirrored, Written
      <4> QED
        BY <2>1, <2>4, <2>6, <4>1, <4>4, <4>5, <4>6 DEF Written
    <3> QED
      BY <3>1, <3>2
  <2>11. MirrorMatches'
    BY <2>1, <2>9, MirrorMeansNext
  <2>12. ~contested' /\ ~raced' => \A u \in Threads : Written(u)'
    BY <2>10 DEF Written
  <2> QED
    BY <2>8, <2>11, <2>12 DEF Mirrored
<1>6. CASE Caches(t)
  <2> DEFINE o == call[t].args[1]
  <2>1. /\ OthersStay(t) /\ pc[t] = "mirror" /\ pc'[t] = "idle"
        /\ mirror' = [mirror EXCEPT ![o] = call[t].value]
        /\ UNCHANGED <<constructed, handle, setting, live>>
    BY <1>6 DEF Caches, Mirror
  <2>2. \A x : /\ BeingCleared(x) => BeingCleared(x)'
               /\ BeingSet(x) /\ x # o => BeingSet(x)'
    BY <2>1 DEF OthersStay, BeingCleared, BeingSet
  <2>3. Defaults'
    BY <2>1 DEF Mirrored, Defaults, OthersStay
  <2>4. ASSUME ~contested', ~raced', NEW x \in OptionsObjects \cap constructed
        PROVE  Matches(x)'
    <3>1. CASE x = o
      <4>1. /\ mirror'[o] = call[t].value
            /\ handle[o] = None \/ BeingCleared(o) \/ setting[handle[o]] = call[t].value
        BY <2>1, <2>4, <3>1 DEF Mirrored, Written, TypeInv, HeapType, DataType
      <4> QED
        BY <2>1, <2>2, <3>1, <4>1 DEF Matches
    <3>2. CASE x # o
      <4>1. Matches(x) /\ mirror'[x] = mirror[x]
        BY <2>1, <2>4, <3>2, MirrorMeans DEF Mirrored, TypeInv, HeapType, DataType
      <4> QED
        BY <2>1, <2>2, <3>2, <4>1 DEF Matches
    <3> QED
      BY <3>1, <3>2
  <2>5. ~contested' /\ ~raced' => \A u \in Threads : Written(u)'
    BY <2>1, <2>2 DEF Mirrored, Written, OthersStay
  <2>6. MirrorMatches'
    BY <2>1, <2>4, MirrorMeansNext
  <2> QED
    BY <2>3, <2>5, <2>6 DEF Mirrored
<1>7. CASE Destroys(t)
  <2> PICK o, h : o = call[t].args[1] /\ h = call[t].handles[1]
    OBVIOUS
  <2>1. /\ OthersStay(t) /\ pc[t] = "destroy" /\ pc'[t] = "clear" /\ call'[t] = call[t]
        /\ live' = live \ {h} /\ setting' = [setting EXCEPT ![h] = Default]
        /\ UNCHANGED <<constructed, handle, mirror>>
    BY <1>7 DEF Destroys, Destroy
  <2>2. ~contested' =>
          /\ \A x \in constructed : x # o /\ handle[x] = h => BeingCleared(x)
          /\ \A u \in Threads : call[u].made # h
    BY <2>1, Alone
  <2>3. /\ \A x : (BeingCleared(x) => BeingCleared(x)') /\ (BeingSet(x) => BeingSet(x)')
        /\ BeingCleared(o)'
    BY <2>1 DEF OthersStay, BeingCleared, BeingSet
  <2>4. \A x \in Handles : setting'[x] = IF x = h THEN Default ELSE setting[x]
    BY <2>1 DEF TypeInv, HeapType, DataType
  <2>5. Defaults'
    <3>1. \A x \in Handles \ live' : setting'[x] = Default
      BY <2>1, <2>4 DEF Mirrored, Defaults
    <3>2. ASSUME ~contested', ~raced', NEW u \in Threads, pc'[u] = "init"
          PROVE  setting'[call'[u].made] = Default
      <4>1. pc[u] = "init" /\ call'[u] = call[u]
        BY <2>1, <3>2 DEF OthersStay
      <4>2. setting[call[u].made] = Default
        BY <3>2, <4>1 DEF Mirrored, Defaults
      <4>3. call[u].made \in Handles
        BY <4>1, HandType DEF Fits, HoldsMade
      <4> QED
        BY <2>4, <4>1, <4>2, <4>3
    <3> QED
      BY <3>1, <3>2 DEF Defaults
  <2>6. ASSUME ~contested', ~raced', NEW x \in OptionsObjects \cap constructed
        PROVE  Matches(x)'
    <3>1. Matches(x) /\ handle[x] \in Handles \cup {None}
      BY <2>6, MirrorMeans DEF Mirrored, TypeInv, HeapType
    <3>2. handle[x] = h => BeingCleared(x)'
      BY <2>2, <2>3, <2>6
    <3> QED
      BY <2>1, <2>3, <2>4, <3>1, <3>2 DEF Matches
  <2>7. ASSUME ~contested', ~raced', NEW u \in Threads, pc'[u] = "mirror"
        PROVE  Written(u)'
    <3> PICK x : x = call[u].args[1]
      OBVIOUS
    <3>1. pc[u] = "mirror" /\ call'[u] = call[u]
      BY <2>1, <2>7 DEF OthersStay
    <3>2. x \in constructed /\ handle[x] \in Handles \cup {None}
      BY <3>1, Setting DEF TypeInv, HeapType
    <3>3. handle[x] = h => BeingCleared(x)'
      BY <2>2, <2>3, <2>7, <3>2
    <3>4. \/ handle[x] = None \/ BeingCleared(x)
          \/ setting[handle[x]] = call[u].value
      BY <2>7, <3>1 DEF Mirrored, Written
    <3> QED
      BY <2>1, <2>3, <2>4, <3>1, <3>2, <3>3, <3>4 DEF Written
  <2>8. MirrorMatches'
    BY <2>1, <2>6, MirrorMeansNext
  <2>9. ~contested' /\ ~raced' => \A u \in Threads : Written(u)'
    BY <2>7 DEF Written
  <2> QED
    BY <2>5, <2>8, <2>9 DEF Mirrored
<1>8. ASSUME NEW gone, Leaves(t, gone)
      PROVE  Mirrored'
  <2>1. /\ OthersStay(t) /\ pc'[t] \in {"idle", "finally"} /\ UNCHANGED <<setting, live>>
        /\ constructed' \subseteq constructed
        /\ \A x \in constructed' : handle'[x] = IF x \in gone THEN None ELSE handle[x]
        /\ \A x \in constructed' \cap OptionsObjects : x \notin gone => mirror'[x] = mirror[x]
        /\ ~contested' => (pc[t] = "clear" => call[t].args[1] \in gone)
        /\ ~raced' => pc[t] # "mirror"
    BY <1>8 DEF Leaves
  <2>2. ~contested' => \A x : x \notin gone => (BeingCleared(x) => BeingCleared(x)')
    BY <2>1, Cleared
  <2>3. ~raced' => \A x : BeingSet(x) => BeingSet(x)'
    BY <2>1 DEF OthersStay, BeingSet
  <2>4. Defaults'
    BY <2>1 DEF Mirrored, Defaults, OthersStay
  <2>5. ASSUME ~contested', ~raced', NEW x \in OptionsObjects \cap constructed'
        PROVE  Matches(x)'
    <3>1. Matches(x)
      BY <2>1, <2>5, MirrorMeans DEF Mirrored
    <3> QED
      BY <2>1, <2>2, <2>3, <2>5, <3>1 DEF Matches
  <2>6. ASSUME ~contested', ~raced', NEW u \in Threads, pc'[u] = "mirror"
        PROVE  Written(u)'
    <3> DEFINE x == call[u].args[1]
    <3>1. pc[u] = "mirror" /\ call'[u] = call[u]
      BY <2>1, <2>6 DEF OthersStay
    <3>2. x \in constructed'
      <4>1. x \in Shared'
        BY <3>1, Setting
      <4> QED
        BY <4>1 DEF Shared
    <3>3. \/ handle[x] = None \/ BeingCleared(x)
          \/ setting[handle[x]] = call[u].value
      BY <2>6, <3>1 DEF Mirrored, Written
    <3> QED
      BY <2>1, <2>2, <2>6, <3>1, <3>2, <3>3 DEF Written
  <2>7. MirrorMatches'
    BY <2>5, MirrorMeansNext
  <2>8. ~contested' /\ ~raced' => \A u \in Threads : Written(u)'
    BY <2>6 DEF Written
  <2> QED
    BY <2>4, <2>7, <2>8 DEF Mirrored
<1> QED
  BY <1>1, <1>2, <1>3, <1>4, <1>5, <1>6, <1>7, <1>8 DEF Effect

-----------------------------------------------------------------------------
(* The inductive invariant: the loader's, what each thread has in hand     *)
(* where it is, that private objects are apart, and what is kept, owned    *)
(* and mirrored.                                                           *)
LEMMA InitIInv == Init => IInv
<1> SUFFICES ASSUME Init
             PROVE  IInv
  OBVIOUS
<1> USE NoneAssumption DEF Init
<1>1. LoaderInv
  BY FS_EmptySet DEF Library!Init, LoaderInv, Library!TypeOK
<1>2. \A t \in Threads : pc[t] = "idle" /\ call[t] = NoCall
  OBVIOUS
<1>3. HeapType
  <2>1. NoCall \in Calls
    BY DEF Calls, NoCall
  <2> QED
    BY <2>1, DefaultAssumption DEF HeapType, DataType, Places
<1>4. TypeInv
  BY <1>2, <1>3, NothingFits DEF TypeInv
<1>5. Apart
  BY <1>2 DEF Apart, Mine, NoCall
<1>6. Kept
  BY DEF Kept
<1>7. Owned
  BY <1>2 DEF Owned, FieldsOwn, ClosesAlone, MadeAlone, NoCall
<1>8. Mirrored
  BY <1>2 DEF Mirrored, Defaults, MirrorMatches, Written
<1> QED
  BY <1>1, <1>4, <1>5, <1>6, <1>7, <1>8 DEF IInv

(* Nothing but the loader's state changes while a thread loads. *)
LEMMA LoadingKeeps ==
  ASSUME TypeInv, Apart, Kept, Owned, Mirrored, UNCHANGED <<heap, pc, call, history>>
  PROVE  TypeInv' /\ Apart' /\ Kept' /\ Owned' /\ Mirrored'
<1> USE DEF heap, history
<1>1. TypeInv'
  <2>1. HeapType'
    BY DEF TypeInv, HeapType, DataType
  <2>2. ASSUME NEW t \in Threads
        PROVE  Fits(pc[t], call[t])'
    <3>1. Fits(pc[t], call[t])
      BY DEF TypeInv
    <3>2. UNCHANGED <<pc, call, constructed, handle>>
      OBVIOUS
    <3> QED
      BY <3>1, <3>2 DEF Fits, HoldsMade, NewFits, OwnedFits, ArgsFit, ValueFits
  <2> QED
    BY <2>1, <2>2 DEF TypeInv
<1>2. Apart'
  <2>1. Shared' = Shared
    BY DEF Shared, Private
  <2> QED
    BY <2>1 DEF Apart, Mine
<1>3. \A o : BeingCleared(o)' <=> BeingCleared(o)
  BY DEF BeingCleared
<1>4. Kept'
  BY <1>3 DEF Kept, Held
<1>5. Owned'
  BY <1>3 DEF Owned, FieldsOwn, ClosesAlone, MadeAlone, Closing
<1>6. Mirrored'
  BY <1>3 DEF Mirrored, Defaults, MirrorMatches, Written
<1> QED
  BY <1>1, <1>2, <1>4, <1>5, <1>6

(* Every step keeps the invariant. *)
LEMMA NextIInv == IInv /\ [Next]_vars => IInv'
<1> SUFFICES ASSUME IInv, [Next]_vars
             PROVE  IInv'
  OBVIOUS
<1>1. LoaderInv /\ TypeInv /\ Apart /\ Kept /\ Owned /\ Mirrored
  BY DEF IInv
<1>2. ASSUME NEW t \in Threads, Step(t) \/ Begin(t)
      PROVE  IInv'
  <2>1. LoaderInv'
    BY <1>1, <1>2, LibraryMoves, LoaderSteps
  <2>2. CASE Loading(t)
    <3>1. UNCHANGED <<heap, pc, call, history>>
      BY <2>2 DEF Loading
    <3> QED
      BY <1>1, <2>1, <3>1, LoadingKeeps DEF IInv
  <2>3. CASE ~Loading(t)
    <3>1. TypeInv' /\ Apart' /\ Shared \subseteq Shared' /\ Effect(t)
      BY <1>1, <1>2, <2>3, Effects
    <3>2. Kept' /\ Owned' /\ Mirrored'
      BY <1>1, <3>1, KeptSteps, OwnedSteps, MirroredSteps
    <3> QED
      BY <2>1, <3>1, <3>2 DEF IInv
  <2> QED
    BY <2>2, <2>3
<1>3. CASE UNCHANGED vars
  <2>1. UNCHANGED library /\ UNCHANGED <<heap, pc, call, history>>
    BY <1>3 DEF vars
  <2>2. LoaderInv'
    BY <1>1, <2>1 DEF LoaderInv, Library!TypeOK, library
  <2> QED
    BY <1>1, <2>1, <2>2, LoadingKeeps DEF IInv
<1> QED
  BY <1>2, <1>3 DEF Next

(* The invariant holds in every reachable state. *)
THEOREM Invariance == Spec => []IInv
  BY InitIInv, NextIInv, PTL DEF Spec

(* Every variable keeps its type, whatever the threads do. *)
THEOREM TypeCorrect == Spec => []TypeOK
<1>1. IInv => TypeOK
  BY DEF IInv, LoaderInv, TypeInv, HeapType, DataType, Places, TypeOK
<1> QED
  BY <1>1, Invariance, PTL

(* Unless a close is contested, the handle in a field is the address of a  *)
(* live native object that no other field has, but for the moment in which *)
(* close has destroyed the one and not yet cleared the other.              *)
THEOREM FieldsAlive == Spec => []FieldsNameLiveObjects
<1>1. IInv => FieldsNameLiveObjects
  BY DEF IInv, Owned, FieldsOwn, FieldsNameLiveObjects
<1> QED
  BY <1>1, Invariance, PTL

(* A native object is in a field, in the hand of the method that made it,  *)
(* or was stranded by an exception at the one or the other moment.         *)
THEOREM NoneLost == Spec => []NothingLost
<1>1. IInv => NothingLost
  BY DEF IInv, Kept, Held, NothingLost
<1> QED
  BY <1>1, Invariance, PTL

(* What an options object says of its setting is what its native object    *)
(* holds, unless setters and closes overlapped or were interrupted.        *)
THEOREM MirrorsAgree == Spec => []MirrorMatches
<1>1. IInv => MirrorMatches
  BY DEF IInv, Mirrored
<1> QED
  BY <1>1, Invariance, PTL

(* Every library that a method gets was compared, and is declared if only  *)
(* one was opened.                                                         *)
THEOREM LibraryIsReady == Spec => []LibraryReady
<1>1. IInv => LibraryReady
  BY LoaderReady DEF IInv
<1> QED
  BY <1>1, Invariance, PTL

=============================================================================
