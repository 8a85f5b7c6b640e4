-------------------------- MODULE JavaBinding_proofs --------------------------
(***************************************************************************)
(* Proofs about the Java binding, for any number of threads, objects,      *)
(* addresses and versions.                                                 *)
(***************************************************************************)
EXTENDS JavaBinding, TLAPS

-----------------------------------------------------------------------------
(* The loader.  A thread inside load has asked for a version, so that no   *)
(* unbound bridge ever compares equal with what it asked for.              *)
LoaderInv ==
  /\ Library!TypeOK
  /\ \A t \in Threads : step[t] # "idle" => expected[t] \in Versions
  /\ Library!ReturnMeansMatch

(* Every step of the loader, and every step that leaves it alone, keeps    *)
(* its invariant; and a bridge once bound stays bound, whatever is loaded  *)
(* later.                                                                  *)
LEMMA LoaderSteps ==
  ASSUME LoaderInv, NEW t \in Threads,
         \/ Library!Proceed(t) \/ Library!Take(t)
         \/ \E version \in Versions : Library!Load(t, version)
         \/ UNCHANGED library
  PROVE  /\ LoaderInv'
         /\ bridge \in Versions => bridge' = bridge
<1> USE VersionAssumption DEF LoaderInv, Library!TypeOK, Library!ReturnMeansMatch,
                             Library!Settled, Library!Goto, Library!Leave, Library!Compared
<1>1. CASE Library!FastPath(t)
  BY <1>1 DEF Library!FastPath
<1>2. CASE Library!SlowPath(t)
  BY <1>2 DEF Library!SlowPath
<1>3. CASE Library!Enter(t)
  BY <1>3 DEF Library!Enter
<1>4. CASE Library!LoadedMeanwhile(t)
  BY <1>4 DEF Library!LoadedMeanwhile
<1>5. CASE Library!OpenFails(t)
  BY <1>5 DEF Library!OpenFails
<1>6. CASE Library!Open(t)
  BY <1>6 DEF Library!Open
<1>7. CASE Library!Verify(t)
  BY <1>7 DEF Library!Verify
<1>8. CASE Library!Take(t)
  BY <1>8 DEF Library!Take
<1>9. CASE \E version \in Versions : Library!Load(t, version)
  BY <1>9 DEF Library!Load
<1>10. CASE UNCHANGED library
  BY <1>10 DEF library
<1> QED
  BY <1>1, <1>2, <1>3, <1>4, <1>5, <1>6, <1>7, <1>8, <1>9, <1>10 DEF Library!Proceed

-----------------------------------------------------------------------------
(* What every thread has in hand where it is, and what a new object needs. *)
HeapType ==
  /\ constructed \subseteq Objects
  /\ nativeHandle \in [Objects -> Handles \cup {Null}]
  /\ live \subseteq Handles
  /\ pc \in [Threads -> {"idle", "load", "create", "check", "read", "bridge",
                         "native", "clear", "release"}]
  /\ call \in [Threads -> Calls]
  /\ outcome \in [Threads -> Outcomes]
  /\ met \subseteq Threads
  /\ contested \in BOOLEAN

InMethod(t) == pc[t] \in {"check", "read", "bridge", "native"}

Shaped(t) ==
  /\ pc[t] = "idle" => call[t] = NoCall
  /\ pc[t] = "load" => call[t] = NoCall \/ (Len(call[t].args) = 2 /\ call[t].handles = <<>>)
  /\ pc[t] = "create" => call[t].new # NoObject
  /\ InMethod(t) =>
       /\ Len(call[t].args) \in {1, 2}
       /\ pc[t] \in {"check", "read"} => Len(call[t].handles) < Len(call[t].args)
       /\ pc[t] \in {"bridge", "native"} => Len(call[t].handles) = Len(call[t].args)
       /\ Len(call[t].args) = 2 => call[t].new # NoObject
  /\ pc[t] \in {"clear", "release"} =>
       /\ Len(call[t].args) = 1
       /\ Len(call[t].handles) = 1
       /\ call[t].args[1] \in constructed
       /\ call[t].handles[1] \in Handles

TypeInv == HeapType /\ \A t \in Threads : Shaped(t)

(* Every step keeps the types, and leaves each thread with what the place  *)
(* it is at needs: a method that reads handles never reads more than it    *)
(* has objects for.                                                        *)
LEMMA TypeSteps ==
  ASSUME TypeInv, NEW t \in Threads,
         Step(t) \/ Begin(t) \/ UNCHANGED vars
  PROVE  TypeInv'
<1> USE NullAssumption, NoObjectAssumption
    DEF TypeInv, HeapType, Shaped, InMethod, Calls, Outcomes, Call, NoCall,
        Continue, End, heap, Objects, Idle, Reserved
<1>1. CASE Loading(t)
  BY <1>1 DEF Loading
<1>2. CASE LoadThrows(t)
  BY <1>2 DEF LoadThrows
<1>3. CASE LoadedAlone(t)
  BY <1>3 DEF LoadedAlone
<1>4. CASE Create(t)
  BY <1>4 DEF Create, Adopt
<1>5. CASE CreateFails(t)
  BY <1>5 DEF CreateFails, Thrown
<1>6. CASE NewResult(t)
  <2>1. CASE End(t, "OutOfMemoryError")
    BY <1>6, <2>1 DEF NewResult
  <2>2. ASSUME NEW r \in Results,
               Continue(t, "check", [call[t] EXCEPT !.new = r])
        PROVE  TypeInv'
    <3>1. Len(call[t].args) = 2 /\ call[t].handles = <<>> /\ call[t] \in Calls
      BY <1>6 DEF NewResult
    <3>2. call'[t] \in Calls /\ call'[t].args = call[t].args
                             /\ call'[t].handles = <<>> /\ call'[t].new = r
      BY <3>1, <2>2
    <3>3. pc'[t] = "check"
      BY <2>2
    <3>4. Shaped(t)'
      <4> HIDE DEF TypeInv, Continue, Calls
      <4> QED
        BY <3>1, <3>2, <3>3
    <3> QED
      BY <1>6, <2>2, <3>2, <3>4 DEF NewResult
  <2> QED
    BY <1>6, <2>1, <2>2 DEF NewResult
<1>7. CASE Check(t)
  <2>1. CASE End(t, "IllegalStateException") /\ met' = met \cup {t}
    BY <1>7, <2>1 DEF Check
  <2>2. CASE Continue(t, "read", call[t]) /\ UNCHANGED met
    BY <1>7, <2>2 DEF Check
  <2> QED
    BY <1>7, <2>1, <2>2 DEF Check
<1>8. CASE Read(t)
  <2> DEFINE n == Len(call[t].handles) + 1
             handles == Append(call[t].handles, Field(t))
  <2>1. /\ call[t].args \in Seq(Objects) /\ call[t].handles \in Seq(Handles \cup {Null})
        /\ n \in 1..Len(call[t].args) /\ call[t].new \in Objects \cup {NoObject}
    BY <1>8 DEF Read
  <2>2. Field(t) \in Handles \cup {Null}
    BY <2>1 DEF Field
  <2>3. handles \in Seq(Handles \cup {Null}) /\ Len(handles) = n
    BY <2>1, <2>2
  <2> HIDE DEF handles, n
  <2>4. /\ pc' = [pc EXCEPT ![t] = IF Len(handles) < Len(call[t].args) THEN "check" ELSE "bridge"]
        /\ call' = [call EXCEPT ![t] = [call[t] EXCEPT !.handles = handles]]
        /\ outcome' = [outcome EXCEPT ![t] = "none"]
        /\ met' \in {met, met \cup {t}}
        /\ UNCHANGED <<heap, contested>>
    BY <1>8 DEF Read, handles
  <2>5. /\ call'[t] \in Calls /\ call'[t].args = call[t].args
        /\ call'[t].handles = handles /\ call'[t].new = call[t].new
    <3>1. call[t] \in Calls /\ call'[t] = [call[t] EXCEPT !.handles = handles]
      BY <2>4
    <3> HIDE DEF TypeInv
    <3> QED
      BY <2>1, <2>3, <3>1
  <2>6. Shaped(t)'
    <3>1. /\ Len(call[t].args) \in {1, 2} /\ n \in Nat /\ n <= Len(call[t].args)
          /\ Len(call[t].args) = 2 => call[t].new # NoObject
      BY <1>8, <2>1 DEF Read
    <3>2. pc'[t] = IF n < Len(call[t].args) THEN "check" ELSE "bridge"
      BY <2>3, <2>4
    <3> QED
      BY <2>3, <2>5, <3>1, <3>2
  <2> HIDE DEF Calls
  <2> QED
    BY <2>4, <2>5, <2>6
<1>9. CASE BridgeRejects(t)
  BY <1>9 DEF BridgeRejects
<1>10. CASE EnterNative(t)
  BY <1>10 DEF EnterNative
<1>11. CASE ReturnFromUse(t)
  BY <1>11 DEF ReturnFromUse, Thrown
<1>12. CASE NoArray(t)
  BY <1>12 DEF NoArray
<1>13. CASE SolveReturns(t)
  BY <1>13 DEF SolveReturns, Adopt
<1>14. CASE SolveFails(t)
  BY <1>14 DEF SolveFails, Thrown
<1>15. CASE Clear(t)
  BY <1>15 DEF Clear
<1>16. CASE Release(t)
  BY <1>16 DEF Release
<1>17. CASE LoadAlone(t)
  BY <1>17 DEF LoadAlone
<1>18. CASE \E o \in Objects : New(t, o)
  BY <1>18 DEF New
<1>19. CASE \E o \in Objects : Use(t, o)
  BY <1>19 DEF Use
<1>20. ASSUME NEW o \in Objects, Close(t, o)
       PROVE  TypeInv'
  <2>1. CASE nativeHandle[o] = Null
    <3>1. End(t, "returned") /\ UNCHANGED <<heap, contested>> /\ met' = met \ {t}
      <4> HIDE DEF TypeInv, End
      <4> QED
        BY <1>20, <2>1 DEF Close
    <3> QED
      BY <3>1
  <2>2. CASE nativeHandle[o] # Null
    <3>1. nativeHandle[o] \in Handles
      BY <2>2
    <3>2. /\ Continue(t, "clear", Call(<<o>>, <<nativeHandle[o]>>, NoObject))
          /\ UNCHANGED heap /\ o \in constructed /\ met' = met \ {t} /\ contested' \in BOOLEAN
      <4> HIDE DEF TypeInv, Continue
      <4> QED
        BY <1>20, <2>2 DEF Close
    <3>3. call'[t] = Call(<<o>>, <<nativeHandle[o]>>, NoObject) /\ pc'[t] = "clear"
      BY <3>2
    <3>4. Call(<<o>>, <<nativeHandle[o]>>, NoObject) \in Calls
      <4> HIDE DEF TypeInv
      <4> QED
        BY <3>1
    <3>5. Shaped(t)'
      <4> HIDE DEF TypeInv, Continue, Calls
      <4> QED
        BY <3>1, <3>2, <3>3
    <3> HIDE DEF Call, Calls
    <3> QED
      BY <3>2, <3>3, <3>4, <3>5
  <2> QED
    BY <2>1, <2>2
<1>21. CASE \E model \in Models, options \in OptionsObjects : Solve(t, model, options)
  BY <1>21 DEF Solve
<1>22. CASE UNCHANGED vars
  BY <1>22 DEF vars
<1> QED
  BY <1>1, <1>2, <1>3, <1>4, <1>5, <1>6, <1>7, <1>8, <1>9, <1>10, <1>11, <1>12,
     <1>13, <1>14, <1>15, <1>16, <1>17, <1>18, <1>19, <1>20, <1>21, <1>22 DEF
     Step, Begin

-----------------------------------------------------------------------------
(* The ways in which a step can concern the native objects.                *)
Stays == UNCHANGED <<heap, pc, call, contested>>

OthersStay(t) ==
  \A u \in Threads \ {t} : pc'[u] = pc[u] /\ call'[u] = call[u]

InClose(t) == pc[t] \in {"clear", "release"}

Quiet(t) ==
  /\ UNCHANGED <<heap, contested>>
  /\ OthersStay(t)
  /\ ~InClose(t) /\ ~InClose(t)'
  /\ call'[t].new \in {NoObject, call[t].new} \cup (Objects \ (constructed \cup Reserved))

Adopts(t) ==
  /\ ~InClose(t)
  /\ call[t].new \in Objects
  /\ Adopt(call[t].new)
  /\ End(t, "returned")
  /\ UNCHANGED contested

Grabs(t, o) ==
  /\ pc[t] = "idle"
  /\ o \in constructed
  /\ nativeHandle[o] \in Handles
  /\ pc' = [pc EXCEPT ![t] = "clear"]
  /\ call' = [call EXCEPT ![t] = Call(<<o>>, <<nativeHandle[o]>>, NoObject)]
  /\ ~contested' => ~contested /\ \A u \in Threads : ~Closing(u, o)
  /\ UNCHANGED heap

(* Whatever a thread does, it concerns the native objects in one of these  *)
(* ways: only a constructor and solve adopt one, and only close moves one  *)
(* to a thread and releases it.                                            *)
LEMMA Moves ==
  ASSUME TypeInv, NEW t \in Threads,
         Step(t) \/ Begin(t) \/ UNCHANGED vars
  PROVE  \/ Stays \/ Quiet(t) \/ Adopts(t) \/ Clear(t) \/ Release(t)
         \/ \E o \in Objects : Grabs(t, o)
<1> USE DEF TypeInv, HeapType, Shaped, InMethod, Calls, Call, NoCall,
            Continue, End, heap, Idle, Stays, Quiet, OthersStay, InClose
<1>1. CASE Loading(t)
  BY <1>1 DEF Loading
<1>2. CASE LoadThrows(t)
  BY <1>2 DEF LoadThrows
<1>3. CASE LoadedAlone(t)
  BY <1>3 DEF LoadedAlone
<1>4. CASE Create(t)
  BY <1>4 DEF Create, Adopts
<1>5. CASE CreateFails(t)
  BY <1>5 DEF CreateFails
<1>6. CASE NewResult(t)
  BY <1>6 DEF NewResult, Objects
<1>7. CASE Check(t)
  BY <1>7 DEF Check
<1>8. CASE Read(t)
  BY <1>8 DEF Read
<1>9. CASE BridgeRejects(t)
  BY <1>9 DEF BridgeRejects
<1>10. CASE EnterNative(t)
  BY <1>10 DEF EnterNative
<1>11. CASE ReturnFromUse(t)
  BY <1>11 DEF ReturnFromUse
<1>12. CASE NoArray(t)
  BY <1>12 DEF NoArray
<1>13. CASE SolveReturns(t)
  BY <1>13 DEF SolveReturns, Adopts
<1>14. CASE SolveFails(t)
  BY <1>14 DEF SolveFails
<1>15. CASE LoadAlone(t)
  BY <1>15 DEF LoadAlone
<1>16. CASE \E o \in Objects : New(t, o)
  BY <1>16 DEF New, Objects
<1>17. CASE \E o \in Objects : Use(t, o)
  BY <1>17 DEF Use
<1>18. ASSUME NEW o \in Objects, Close(t, o)
      PROVE  Quiet(t) \/ Grabs(t, o)
  <2>1. CASE nativeHandle[o] = Null
    <3>1. End(t, "returned") /\ UNCHANGED <<heap, contested>> /\ Idle(t)
      <4> HIDE DEF TypeInv, End
      <4> QED
        BY <1>18, <2>1 DEF Close
    <3> QED
      BY <3>1
  <2>2. CASE nativeHandle[o] # Null
    <3>1. nativeHandle[o] \in Handles
      BY <2>2
    <3> HIDE DEF TypeInv
    <3> QED
      BY <1>18, <2>2, <3>1 DEF Close, Grabs
  <2> QED
    BY <2>1, <2>2
<1>19. CASE \E model \in Models, options \in OptionsObjects : Solve(t, model, options)
  BY <1>19 DEF Solve
<1>20. CASE UNCHANGED vars
  BY <1>20 DEF vars
<1> QED
  BY <1>1, <1>2, <1>3, <1>4, <1>5, <1>6, <1>7, <1>8, <1>9, <1>10, <1>11, <1>12,
     <1>13, <1>14, <1>15, <1>16, <1>17, <1>18, <1>19, <1>20 DEF Step, Begin

-----------------------------------------------------------------------------
(* An object that is being made is in no other thread's hand, is not       *)
(* constructed yet, and has no handle.                                     *)
Fresh ==
  /\ \A t \in Threads : call[t].new \notin constructed
  /\ \A t, u \in Threads : t # u /\ call[t].new # NoObject => call[u].new # call[t].new
  /\ \A o \in Objects \ constructed : nativeHandle[o] = Null

(* Every step keeps objects that are being made apart: two threads never   *)
(* fill in the same one.                                                   *)
LEMMA FreshSteps ==
  ASSUME TypeInv, Fresh, NEW t \in Threads,
         Step(t) \/ Begin(t) \/ UNCHANGED vars
  PROVE  Fresh'
<1> USE NoObjectAssumption
    DEF TypeInv, HeapType, Call, NoCall, End, heap, Fresh, Reserved
<1>1. CASE Stays
  BY <1>1 DEF Stays
<1>2. CASE Quiet(t)
  BY <1>2 DEF Quiet, OthersStay
<1>3. CASE Adopts(t)
  BY <1>3 DEF Adopts, Adopt
<1>4. CASE Clear(t)
  BY <1>4 DEF Clear, Continue
<1>5. CASE Release(t)
  BY <1>5 DEF Release
<1>6. CASE \E o \in Objects : Grabs(t, o)
  BY <1>6 DEF Grabs
<1> QED
  BY <1>1, <1>2, <1>3, <1>4, <1>5, <1>6, Moves

-----------------------------------------------------------------------------
(* None is lost, contested or not: a thread about to clear a field finds   *)
(* there the handle it read, or 0.                                         *)
Kept ==
  /\ \A t \in Threads : pc[t] = "clear" =>
       nativeHandle[call[t].args[1]] \in {Null, call[t].handles[1]}
  /\ \A h \in live :
       \/ \E o \in constructed : nativeHandle[o] = h
       \/ \E t \in Threads : Releasing(t, h)

(* Every step leaves each native object where a close can find it, or in   *)
(* the hand of a thread that releases it.                                  *)
LEMMA KeptSteps ==
  ASSUME TypeInv, Fresh, Kept, NEW t \in Threads,
         Step(t) \/ Begin(t) \/ UNCHANGED vars
  PROVE  Kept'
<1>0. /\ \A u \in Threads : pc[u] = "clear" => call[u].args[1] \in constructed
      /\ NoObject \notin constructed /\ Null \notin live
      /\ call[t].new \notin constructed
      /\ call[t].new \in Objects => nativeHandle[call[t].new] = Null
  BY NullAssumption, NoObjectAssumption DEF TypeInv, HeapType, Shaped, Fresh
<1> USE <1>0 DEF TypeInv, HeapType, heap, Kept, Releasing
<1>1. CASE Stays
  BY <1>1 DEF Stays
<1>2. CASE Quiet(t)
  BY <1>2 DEF Quiet, OthersStay, InClose
<1>3. CASE Adopts(t)
  BY <1>3 DEF Adopts, Adopt, InClose, End
<1>4. CASE Clear(t)
  BY <1>4 DEF Clear, Continue
<1>5. CASE Release(t)
  BY <1>5 DEF Release, End
<1>6. CASE \E o \in Objects : Grabs(t, o)
  BY <1>6 DEF Grabs, Call
<1> QED
  BY <1>1, <1>2, <1>3, <1>4, <1>5, <1>6, Moves

-----------------------------------------------------------------------------
(* Who owns a live object while no close is contested: one field, or the   *)
(* one thread that is releasing it.  A thread about to clear a field is    *)
(* alone with its object, and finds the handle it read.                    *)
FieldsOwn ==
  \A o \in Objects : nativeHandle[o] # Null =>
    /\ nativeHandle[o] \in live
    /\ \A other \in Objects \ {o} : nativeHandle[other] # nativeHandle[o]

ClearsAlone(t) ==
  pc[t] = "clear" =>
    /\ nativeHandle[call[t].args[1]] = call[t].handles[1]
    /\ \A u \in Threads \ {t} : pc[u] = "clear" => call[u].args[1] # call[t].args[1]

ReleasesAlone(t) ==
  pc[t] = "release" =>
    /\ call[t].handles[1] \in live
    /\ \A o \in Objects : nativeHandle[o] # call[t].handles[1]
    /\ \A u \in Threads \ {t} : pc[u] = "release" => call[u].handles[1] # call[t].handles[1]

Owned ==
  ~contested => /\ FieldsOwn
                /\ \A t \in Threads : ClearsAlone(t) /\ ReleasesAlone(t)

(* Every step keeps each native object with one owner, unless it is the    *)
(* read of a field that another close has read already.                    *)
LEMMA OwnedSteps ==
  ASSUME TypeInv, Fresh, Owned, NEW t \in Threads,
         Step(t) \/ Begin(t) \/ UNCHANGED vars
  PROVE  Owned'
<1>0. /\ \A u \in Threads : InClose(u) =>
           call[u].args[1] \in constructed /\ call[u].handles[1] \in Handles
      /\ constructed \subseteq Objects /\ NoObject \notin constructed /\ Null \notin Handles
      /\ call[t].new \notin constructed
      /\ call[t].new \in Objects => nativeHandle[call[t].new] = Null
  BY NullAssumption, NoObjectAssumption DEF TypeInv, HeapType, Shaped, Fresh,
     InClose
<1> USE <1>0 DEF TypeInv, HeapType, heap, Owned, FieldsOwn, ClearsAlone,
        ReleasesAlone, InClose
<1>1. CASE Stays
  BY <1>1 DEF Stays
<1>2. CASE Quiet(t)
  BY <1>2 DEF Quiet, OthersStay
<1>3. CASE Adopts(t)
  BY <1>3 DEF Adopts, Adopt, End
<1>4. CASE Clear(t)
  BY <1>4 DEF Clear, Continue
<1>5. CASE Release(t)
  BY <1>5 DEF Release, End
<1>6. ASSUME NEW o \in Objects, Grabs(t, o)
      PROVE  Owned'
  <2>1. ASSUME ~contested'
        PROVE  \A u \in Threads : pc[u] = "clear" => call[u].args[1] # o
    <3> SUFFICES ASSUME NEW u \in Threads, pc[u] = "clear", call[u].args[1] = o
                 PROVE  Closing(u, o)
      BY <1>6, <2>1 DEF Grabs
    <3>1. call[u].args \in Seq(Objects) /\ Len(call[u].args) = 1
      BY DEF Shaped, Calls
    <3> QED
      BY <3>1 DEF Closing
  <2> QED
    BY <1>6, <2>1 DEF Grabs, Call
<1> QED
  BY <1>1, <1>2, <1>3, <1>4, <1>5, <1>6, Moves

-----------------------------------------------------------------------------
(* A thread that met a handle of 0 has failed with the right exception, or *)
(* is on its way to the bridge with the 0 among the handles it passes.     *)
Met(t) ==
  t \in met =>
    \/ pc[t] = "idle" /\ outcome[t] = "IllegalStateException"
    \/ pc[t] \in {"check", "read", "bridge"} /\ HasNull(t)

MetInv == \A t \in Threads : Met(t)

OthersUntouched(t) ==
  /\ OthersStay(t)
  /\ \A u \in Threads \ {t} : outcome'[u] = outcome[u] /\ (u \in met' => u \in met)

(* Every step keeps a handle of 0 on the way to an IllegalStateException:  *)
(* requireHandle throws it, or the bridge does.                            *)
LEMMA MetSteps ==
  ASSUME TypeInv, MetInv, NEW t \in Threads,
         Step(t) \/ Begin(t) \/ UNCHANGED vars
  PROVE  MetInv'
<1> USE DEF TypeInv, HeapType, MetInv, Met, HasNull, Continue, End, Idle,
        OthersUntouched, OthersStay
<1>1. CASE UNCHANGED <<pc, call, outcome, met>>
  BY <1>1
<1>2. CASE OthersUntouched(t) /\ t \notin met'
  BY <1>2
<1>3. CASE OthersUntouched(t) /\ pc'[t] = "idle" /\ outcome'[t] = "IllegalStateException"
  BY <1>3
<1>4. Loading(t) \/ UNCHANGED vars => UNCHANGED <<pc, call, outcome, met>>
  BY DEF Loading, vars
<1>5. LoadThrows(t) => OthersUntouched(t) /\ t \notin met'
  BY DEF LoadThrows
<1>6. LoadedAlone(t) => OthersUntouched(t) /\ t \notin met'
  BY DEF LoadedAlone
<1>7. Create(t) => OthersUntouched(t) /\ t \notin met'
  BY DEF Create
<1>8. CreateFails(t) => OthersUntouched(t) /\ t \notin met'
  BY DEF CreateFails
<1>9. NewResult(t) => OthersUntouched(t) /\ t \notin met'
  BY DEF NewResult
<1>10. ReturnFromUse(t) => OthersUntouched(t) /\ t \notin met'
  BY DEF ReturnFromUse
<1>11. NoArray(t) => OthersUntouched(t) /\ t \notin met'
  BY DEF NoArray
<1>12. SolveReturns(t) => OthersUntouched(t) /\ t \notin met'
  BY DEF SolveReturns
<1>13. SolveFails(t) => OthersUntouched(t) /\ t \notin met'
  BY DEF SolveFails
<1>14. Clear(t) => OthersUntouched(t) /\ t \notin met'
  BY DEF Clear
<1>15. Release(t) => OthersUntouched(t) /\ t \notin met'
  BY DEF Release
<1>16. EnterNative(t) => OthersUntouched(t) /\ t \notin met'
  BY DEF EnterNative
<1>17. LoadAlone(t) => OthersUntouched(t) /\ t \notin met'
  BY DEF LoadAlone
<1>18. (\E o \in Objects : New(t, o) \/ Use(t, o)) =>
         OthersUntouched(t) /\ t \notin met'
  BY DEF New, Use
<1>19. (\E o \in Objects : Close(t, o)) =>
         OthersUntouched(t) /\ t \notin met'
  BY DEF Close
<1>20. (\E model \in Models, options \in OptionsObjects : Solve(t, model, options)) =>
         OthersUntouched(t) /\ t \notin met'
  BY DEF Solve
<1>21. BridgeRejects(t) =>
         OthersUntouched(t) /\ pc'[t] = "idle" /\ outcome'[t] = "IllegalStateException"
  BY DEF BridgeRejects
<1>22. CASE Check(t)
  BY <1>22 DEF Check
<1>23. CASE Read(t)
  <2> DEFINE handles == Append(call[t].handles, Field(t))
  <2>1. /\ OthersUntouched(t) /\ call'[t].handles = handles
        /\ pc'[t] \in {"check", "bridge"}
        /\ t \in met' => t \in met \/ Field(t) = Null
    BY <1>23 DEF Read, Calls
  <2>2. /\ call[t].handles \in Seq(Handles \cup {Null})
        /\ Field(t) \in Handles \cup {Null}
    <3>1. call[t] \in Calls /\ Len(call[t].handles) + 1 \in 1..Len(call[t].args)
      BY <1>23 DEF Read, Shaped, InMethod, Calls
    <3> QED
      BY <3>1 DEF Field, Calls
  <2>3. HasNull(t) \/ Field(t) = Null => HasNull(t)'
    BY <2>1, <2>2
  <2>4. t \in met => HasNull(t)
    BY <1>23 DEF Read
  <2> QED
    BY <2>1, <2>3, <2>4
<1> QED
  BY <1>1, <1>2, <1>3, <1>4, <1>5, <1>6, <1>7, <1>8, <1>9, <1>10, <1>11, <1>12,
     <1>13, <1>14, <1>15, <1>16, <1>17, <1>18, <1>19, <1>20, <1>21, <1>22, <1>23
     DEF Step, Begin

-----------------------------------------------------------------------------
(* A constructor and a solve ask for the binding's own version, and go on  *)
(* to make a native object only once a bridge of that version is bound.    *)
AsksForVersion(t) ==
  pc[t] = "create" \/ (pc[t] = "load" /\ call[t] # NoCall) => expected[t] = Version

SolvesBound(t) ==
  InMethod(t) /\ Len(call[t].args) = 2 => bridge = Version

BridgeInv ==
  /\ live # {} => bridge = Version
  /\ \A t \in Threads : AsksForVersion(t) /\ SolvesBound(t)

LibraryStep(t) ==
  \/ Library!Proceed(t) \/ Library!Take(t)
  \/ \E version \in Versions : Library!Load(t, version)
  \/ UNCHANGED library

(* A step of the binding takes at most one step of the loader, of the same *)
(* thread.                                                                 *)
LEMMA LibraryMoves ==
  ASSUME NEW t \in Threads, Step(t) \/ Begin(t) \/ UNCHANGED vars
  PROVE  LibraryStep(t)
<1>1. Step(t) => LibraryStep(t)
  BY DEF LibraryStep, Step, Loading, LoadThrows, LoadedAlone, Create,
     CreateFails, NewResult,
         Check, Read, BridgeRejects, EnterNative, ReturnFromUse, NoArray, SolveReturns,
         SolveFails, Clear, Release
<1>2. Begin(t) => LibraryStep(t)
  BY VersionAssumption DEF LibraryStep, Begin, LoadAlone, New, Use, Close,
     Solve, CallLoad
<1>3. UNCHANGED vars => LibraryStep(t)
  BY DEF LibraryStep, vars
<1> QED
  BY <1>1, <1>2, <1>3

(* A step of the loader leaves alone what other threads asked for, and     *)
(* changes what its own asked for at the beginning and at the end only.    *)
LEMMA ExpectedStays ==
  ASSUME LoaderInv, NEW t \in Threads, LibraryStep(t)
  PROVE  /\ \A u \in Threads \ {t} : expected'[u] = expected[u]
         /\ Library!Proceed(t) \/ UNCHANGED library => expected' = expected
<1>1. Library!Proceed(t) \/ UNCHANGED library => expected' = expected
  BY DEF Library!Proceed, Library!FastPath, Library!SlowPath, Library!Enter,
         Library!LoadedMeanwhile, Library!OpenFails, Library!Open, Library!Verify, library
<1>2. Library!Take(t) => \A u \in Threads \ {t} : expected'[u] = expected[u]
  BY DEF Library!Take, LoaderInv, Library!TypeOK
<1>3. ASSUME NEW version \in Versions, Library!Load(t, version)
      PROVE  \A u \in Threads \ {t} : expected'[u] = expected[u]
  BY <1>3 DEF Library!Load, LoaderInv, Library!TypeOK
<1> QED
  BY <1>1, <1>2, <1>3 DEF LibraryStep

(* Every step keeps the bridge of the right version under every solve in   *)
(* progress and every native object.                                       *)
LEMMA BridgeSteps ==
  ASSUME LoaderInv, TypeInv, BridgeInv, NEW t \in Threads,
         Step(t) \/ Begin(t) \/ UNCHANGED vars
  PROVE  BridgeInv'
<1>1. bridge = Version => bridge' = Version
  BY VersionAssumption, LibraryMoves, LoaderSteps DEF LibraryStep
<1>2. /\ \A u \in Threads \ {t} : expected'[u] = expected[u]
      /\ Library!Proceed(t) \/ UNCHANGED library => expected' = expected
  BY LibraryMoves, ExpectedStays
<1>3. step[t] = "returned" => bridge = expected[t]
  BY DEF LoaderInv, Library!ReturnMeansMatch
<1> USE <1>1, <1>2, <1>3
    DEF TypeInv, HeapType, BridgeInv, AsksForVersion, SolvesBound, InMethod,
        Continue, End, heap, Idle
<1>4. CASE Loading(t)
  BY <1>4 DEF Loading
<1>5. CASE LoadThrows(t)
  BY <1>5 DEF LoadThrows
<1>6. CASE LoadedAlone(t)
  BY <1>6 DEF LoadedAlone
<1>7. CASE Create(t)
  BY <1>7 DEF Create, Adopt
<1>8. CASE CreateFails(t)
  BY <1>8 DEF CreateFails
<1>9. CASE NewResult(t)
  BY <1>9 DEF NewResult
<1>10. CASE Check(t)
  BY <1>10 DEF Check
<1>11. CASE Read(t)
  BY <1>11 DEF Read
<1>12. CASE BridgeRejects(t)
  BY <1>12 DEF BridgeRejects
<1>13. CASE EnterNative(t)
  BY <1>13 DEF EnterNative
<1>14. CASE ReturnFromUse(t)
  BY <1>14 DEF ReturnFromUse
<1>15. CASE NoArray(t)
  BY <1>15 DEF NoArray
<1>16. CASE SolveReturns(t)
  BY <1>16 DEF SolveReturns, Adopt
<1>17. CASE SolveFails(t)
  BY <1>17 DEF SolveFails
<1>18. CASE Clear(t)
  BY <1>18 DEF Clear
<1>19. CASE Release(t)
  BY <1>19 DEF Release
<1>20. CASE LoadAlone(t)
  BY <1>20 DEF LoadAlone
<1>21. CASE \E o \in Objects : New(t, o)
  BY <1>21 DEF New, CallLoad, Library!Load, LoaderInv, Library!TypeOK
<1>22. CASE \E o \in Objects : Use(t, o)
  BY <1>22 DEF Use, Call
<1>23. CASE \E o \in Objects : Close(t, o)
  BY <1>23 DEF Close
<1>24. CASE \E model \in Models, options \in OptionsObjects : Solve(t, model, options)
  BY <1>24 DEF Solve, CallLoad, Library!Load, LoaderInv, Library!TypeOK
<1>25. CASE UNCHANGED vars
  BY <1>25 DEF vars, library
<1> QED
  BY <1>4, <1>5, <1>6, <1>7, <1>8, <1>9, <1>10, <1>11, <1>12, <1>13, <1>14,
     <1>15, <1>16, <1>17, <1>18, <1>19, <1>20, <1>21, <1>22, <1>23, <1>24, <1>25
     DEF Step, Begin

-----------------------------------------------------------------------------
(* The invariants together.                                                *)
IInv ==
  /\ LoaderInv /\ TypeInv /\ Fresh /\ Kept /\ Owned /\ MetInv /\ BridgeInv

(* The invariant holds before any object is made.                          *)
LEMMA InitIInv ==
  ASSUME Init PROVE IInv
<1> USE DEF Init, Library!Init
<1>1. LoaderInv
  BY VersionAssumption DEF LoaderInv, Library!TypeOK, Library!ReturnMeansMatch,
     Library!Settled
<1>2. TypeInv
  <2>1. NoCall \in Calls
    BY DEF NoCall, Call, Calls
  <2> QED
    BY <2>1 DEF TypeInv, HeapType, Shaped, InMethod, Outcomes
<1>3. Fresh
  BY NoObjectAssumption DEF Fresh, NoCall, Call
<1>4. Kept
  BY DEF Kept
<1>5. Owned
  BY DEF Owned, FieldsOwn, ClearsAlone, ReleasesAlone
<1>6. MetInv
  BY DEF MetInv, Met
<1>7. BridgeInv
  BY DEF BridgeInv, AsksForVersion, SolvesBound, InMethod
<1> QED
  BY <1>1, <1>2, <1>3, <1>4, <1>5, <1>6, <1>7 DEF IInv

(* Every step keeps the invariant, each part by its own lemma; with no     *)
(* threads at all nothing changes.                                         *)
LEMMA NextIInv ==
  ASSUME IInv, [Next]_vars PROVE IInv'
<1>1. ASSUME NEW t \in Threads, Step(t) \/ Begin(t) \/ UNCHANGED vars
      PROVE  IInv'
  <2>1. LoaderInv'
    BY <1>1, LibraryMoves, LoaderSteps DEF IInv, LibraryStep
  <2> QED
    BY <1>1, <2>1, TypeSteps, FreshSteps, KeptSteps, OwnedSteps, MetSteps, BridgeSteps DEF IInv
<1>2. CASE Next
  BY <1>1, <1>2 DEF Next
<1>3. CASE UNCHANGED vars
  <2>1. CASE Threads # {}
    BY <1>1, <1>3, <2>1
  <2>2. CASE Threads = {}
    BY <1>3, <2>2 DEF vars, library, heap, IInv, LoaderInv, TypeInv, HeapType, Fresh, Kept,
                      Owned, FieldsOwn, MetInv, BridgeInv, Library!TypeOK,
                      Library!ReturnMeansMatch
  <2> QED
    BY <2>1, <2>2
<1> QED
  BY <1>2, <1>3

(* The inductive invariant holds throughout.                               *)
THEOREM Invariance == Spec => []IInv
  BY InitIInv, NextIInv, PTL DEF Spec

(* Type correctness of the binding and of its loader.                      *)
THEOREM TypeCorrect == Spec => []TypeOK
<1>1. IInv => TypeOK
  BY DEF IInv, LoaderInv, TypeInv, HeapType, TypeOK
<1> QED
  BY <1>1, Invariance, PTL

(* A handle in a field is the address of a live object that no other field *)
(* has, as long as no two threads close one object at the same time        *)
(* (NativeResource.close clears before it releases).                       *)
THEOREM FieldsAlive == Spec => []FieldsNameLiveObjects
<1>1. IInv => FieldsNameLiveObjects
  BY DEF IInv, Owned, FieldsOwn, FieldsNameLiveObjects
<1> QED
  BY <1>1, Invariance, PTL

(* No native object is lost, and without a contested close none is         *)
(* released twice (NativeResource.close, Solver.solve).                    *)
THEOREM Released == Spec => []ReleasedOnce
<1>1. IInv => ReleasedOnce
  BY DEF IInv, Kept, Owned, ReleasesAlone, Releasing, ReleasedOnce
<1> QED
  BY <1>1, Invariance, PTL

(* A method that meets a closed object throws IllegalStateException,       *)
(* whenever it was closed (requireHandle in Java and require_handle in the *)
(* bridge).                                                                *)
THEOREM ClosedRejected == Spec => []ClosedMeansIllegalState
<1>1. IInv => ClosedMeansIllegalState
  BY DEF IInv, TypeInv, HeapType, MetInv, Met, ClosedMeansIllegalState
<1> QED
  BY <1>1, Invariance, PTL

(* load returns to a thread only with the version it asked for, and native *)
(* objects come from a bridge of the version of the binding                *)
(* (NativeLibrary.load).                                                   *)
THEOREM VersionChecked == Spec => []LibraryChecked
<1>1. IInv => LibraryChecked
  BY DEF IInv, LoaderInv, BridgeInv, LibraryChecked
<1> QED
  BY <1>1, Invariance, PTL
=============================================================================
