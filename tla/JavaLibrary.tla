----------------------------- MODULE JavaLibrary -----------------------------
(***************************************************************************)
(* tsp.solver.NativeLibrary.load: the double-checked loading of the JNI    *)
(* bridge, with the comparison of its version.                             *)
(*                                                                         *)
(* What System.load does is the virtual machine's (external): a native     *)
(* method is bound to the first loaded bridge that defines it and stays    *)
(* bound to it, whatever is loaded later.  Which file a call opens depends *)
(* on a system property, on an environment variable and on the library     *)
(* path, all of which may change between two calls; the file stands here   *)
(* by what is in it.                                                       *)
(***************************************************************************)
CONSTANTS
  Threads,
  Versions,             \* versions of bridges, and versions asked for
  Foreign,              \* a library without the symbols of the bridge
  Unbound,              \* nativeVersionString is bound to no bridge yet
  NoThread

VARIABLES
  loaded,       \* the volatile flag
  monitor,      \* the thread inside synchronized (NativeLibrary.class)
  bridge,       \* the version that nativeVersionString answers
  step,         \* where each thread is in load, or how its last load ended
  expected      \* the version each thread asked for

vars == <<loaded, monitor, bridge, step, expected>>

Settled == {"returned", "mismatch", "unsatisfied"}

Init ==
  /\ loaded = FALSE
  /\ monitor = NoThread
  /\ bridge = Unbound
  /\ step = [t \in Threads |-> "idle"]
  /\ expected = [t \in Threads |-> Unbound]

Goto(t, next) == step' = [step EXCEPT ![t] = next]

(* ensureVersionMatch(expectedVersion, nativeVersionString()). *)
Compared(t) == IF bridge = expected[t] THEN "returned" ELSE "mismatch"

Load(t, version) ==
  /\ step[t] = "idle"
  /\ expected' = [expected EXCEPT ![t] = version]
  /\ Goto(t, "entered")
  /\ UNCHANGED <<loaded, monitor, bridge>>

(* Mutant: a library that is loaded is taken for the right one. *)
FastPathUnchecked(t) ==
  /\ step[t] = "entered"
  /\ loaded
  /\ Goto(t, "returned")
  /\ UNCHANGED <<loaded, monitor, bridge, expected>>

FastPath(t) ==
  /\ step[t] = "entered"
  /\ loaded
  /\ Goto(t, Compared(t))
  /\ UNCHANGED <<loaded, monitor, bridge, expected>>

SlowPath(t) ==
  /\ step[t] = "entered"
  /\ ~loaded
  /\ Goto(t, "blocked")
  /\ UNCHANGED <<loaded, monitor, bridge, expected>>

Enter(t) ==
  /\ step[t] = "blocked"
  /\ monitor = NoThread
  /\ monitor' = t
  /\ Goto(t, "inside")
  /\ UNCHANGED <<loaded, bridge, expected>>

(* Leaving the block, by return or by exception, releases the monitor. *)
Leave(t, how) ==
  /\ monitor' = NoThread
  /\ Goto(t, how)

LoadedMeanwhile(t) ==
  /\ step[t] = "inside"
  /\ loaded
  /\ Leave(t, Compared(t))
  /\ UNCHANGED <<loaded, bridge, expected>>

OpenFails(t) ==
  /\ step[t] = "inside"
  /\ ~loaded
  /\ Leave(t, "unsatisfied")
  /\ UNCHANGED <<loaded, bridge, expected>>

Open(t) ==
  /\ step[t] = "inside"
  /\ ~loaded
  /\ \E file \in Versions \cup {Foreign} :
       bridge' = IF bridge = Unbound /\ file # Foreign THEN file ELSE bridge
  /\ Goto(t, "opened")
  /\ UNCHANGED <<loaded, monitor, expected>>

(* The flag is written last: a mismatch leaves it as it was.  Calling      *)
(* nativeVersionString unbound throws the error that System.load throws.   *)
Verify(t) ==
  /\ step[t] = "opened"
  /\ \/ bridge = Unbound /\ Leave(t, "unsatisfied") /\ UNCHANGED loaded
     \/ bridge # Unbound /\ Leave(t, Compared(t)) /\ loaded' = (bridge = expected[t])
  /\ UNCHANGED <<bridge, expected>>

(* The caller takes up what load did, and forgets what it asked for. *)
Take(t) ==
  /\ step[t] \in Settled
  /\ Goto(t, "idle")
  /\ expected' = [expected EXCEPT ![t] = Unbound]
  /\ UNCHANGED <<loaded, monitor, bridge>>

Proceed(t) ==
  \/ FastPath(t) \/ SlowPath(t) \/ Enter(t) \/ LoadedMeanwhile(t)
  \/ OpenFails(t) \/ Open(t) \/ Verify(t)

Next == \E t \in Threads : Proceed(t) \/ Take(t) \/ \E version \in Versions : Load(t, version)

Spec == Init /\ [][Next]_vars

TypeOK ==
  /\ loaded \in BOOLEAN
  /\ monitor \in Threads \cup {NoThread}
  /\ bridge \in Versions \cup {Unbound}
  /\ step \in [Threads -> Settled \cup {"idle", "entered", "blocked", "inside", "opened"}]
  /\ expected \in [Threads -> Versions \cup {Unbound}]

(* load returns to a caller only when the bridge that its native methods   *)
(* are bound to has the version it asked for: neither the flag read        *)
(* without the lock, nor the second thread that finds it set inside, nor a *)
(* good file opened after a bad one gets around the comparison.            *)
ReturnMeansMatch == \A t \in Threads : step[t] = "returned" => bridge = expected[t]
=============================================================================
