----------------------------- MODULE IdleMaint ------------------------------
(***************************************************************************)
(* Idle maintenance: RunIdleMaint, AbortIdleMaint and SetGCUrgentPace of   *)
(* IdleMaint.cpp.                                                          *)
(*                                                                         *)
(* The binder handlers runIdleMaint and abortIdleMaint start a detached    *)
(* thread per call, so any number of them run together; all they share is  *)
(* idle_maint_stat, guarded by cv_m, the condition variables cv_abort and  *)
(* cv_stop, and the gc_urgent files of the kernel.  A critical section of  *)
(* cv_m is one step.                                                       *)
(*                                                                         *)
(* A waiter of cv_abort wakes up by itself after 10 s, so the notification *)
(* of cv_abort only shortens a wait and is no step.  cv_stop is waited for *)
(* without a timeout: blocked threads are a wait set, from which           *)
(* notify_one releases one.                                                *)
(*                                                                         *)
(* The time a garbage collection may take is a number of 10 s waits; the   *)
(* trim, and the loop of the device's own collection, which its timeout    *)
(* ends, are a step each.                                                  *)
(***************************************************************************)
EXTENDS Integers, FiniteSets

CONSTANTS
  Runners,      \* threads for RunIdleMaint
  Aborters,     \* threads for AbortIdleMaint
  Paths,        \* f2fs sysfs directories, each with a gc_urgent file
  DataPath,     \* the one of the data partition
  GcRounds,     \* GC_TIMEOUT_SEC in waits of 10 s
  MaxRuns       \* bound: calls of runIdleMaint

ASSUME IdleMaintAssumption ==
  /\ Runners \cap Aborters = {}
  /\ DataPath \in Paths
  /\ GcRounds \in Nat /\ MaxRuns \in Nat

VARIABLES
  stat,       \* idle_maint_stat
  pc,         \* what each thread is doing
  gcUrgent,   \* content of the gc_urgent files: "0", "1", or "3" (MID mode)
  rounds,     \* waits of waitForGc so far
  gcAborted,  \* gc_aborted
  runs,       \* calls of runIdleMaint so far
  manualGc,   \* content of the manual_gc file of the device: "0" or "1"
  leaked,     \* history: paths on which writing "0" to gc_urgent failed
  devLeaked,  \* history: writing "0" to manual_gc failed
  stuck       \* history: a run has returned without the wakelock

device == <<manualGc, devLeaked>>
vars == <<stat, pc, gcUrgent, rounds, gcAborted, runs, leaked, device, stuck>>

Threads == Runners \cup Aborters

\* RunIdleMaint between its two critical sections.
Maintaining == {"wakelock", "gc start", "gc check", "gc wait", "gc stop", "trim", "dev gc",
                "dev stop", "end"}
PCs == Maintaining \cup {"none", "notify", "stop check", "stop wait"}

Goto(t, label) == pc' = [pc EXCEPT ![t] = label]

-----------------------------------------------------------------------------
(* RunIdleMaint *)

\* Mutant of AlreadyRunning: a run that is being aborted does not count.
AlreadyRunningOnly == stat = "running"

AlreadyRunning == stat # "stopped"

\* The call reports success at once when maintenance is already running.
RunBegin(t) ==
  /\ pc[t] = "none" /\ runs < MaxRuns
  /\ runs' = runs + 1
  /\ IF AlreadyRunning THEN UNCHANGED <<stat, pc>>
                       ELSE stat' = "running" /\ Goto(t, "wakelock")
  /\ UNCHANGED <<gcUrgent, rounds, gcAborted, leaked, stuck, device>>

\* Without the wakelock RunIdleMaint returns, and leaves the status as it is.
RunWakeLock(t) ==
  /\ pc[t] = "wakelock"
  /\ gcAborted' = FALSE /\ rounds' = 0
  /\ \/ Goto(t, "gc start") /\ UNCHANGED stuck    \* needGC
     \/ Goto(t, "trim") /\ UNCHANGED stuck
     \/ Goto(t, "none") /\ stuck' = TRUE
  /\ UNCHANGED <<stat, gcUrgent, runs, leaked, device>>

\* startGc: writes "1"; a write that fails is skipped.
StartGc(t, failed) ==
  /\ pc[t] = "gc start"
  /\ gcUrgent' = [p \in Paths |-> IF p \in failed THEN gcUrgent[p] ELSE "1"]
  /\ Goto(t, "gc check")
  /\ UNCHANGED <<stat, rounds, gcAborted, runs, leaked, stuck, device>>

\* waitForGc: few dirty segments, or the timeout, end the loop; else it waits.
GcCheck(t) ==
  /\ pc[t] = "gc check"
  /\ \/ Goto(t, "gc stop")
     \/ rounds < GcRounds /\ Goto(t, "gc wait")
  /\ UNCHANGED <<stat, gcUrgent, rounds, gcAborted, runs, leaked, stuck, device>>

\* cv_abort.wait_for returns: whether there is an abort decides.
GcWait(t) ==
  /\ pc[t] = "gc wait"
  /\ rounds' = rounds + 1
  /\ gcAborted' = (stat = "abort")
  /\ Goto(t, IF stat = "abort" THEN "gc stop" ELSE "gc check")
  /\ UNCHANGED <<stat, gcUrgent, runs, leaked, stuck, device>>

\* Mutant of StopGc: an aborted collection is not switched off.
StopGcUnlessAborted(t, failed) ==
  /\ pc[t] = "gc stop"
  /\ gcUrgent' = [p \in Paths |-> IF p \in failed \/ gcAborted THEN gcUrgent[p] ELSE "0"]
  /\ leaked' = leaked \cup failed
  /\ Goto(t, IF gcAborted THEN "end" ELSE "trim")
  /\ UNCHANGED <<stat, rounds, gcAborted, runs, stuck, device>>

StopGc(t, failed) ==
  /\ pc[t] = "gc stop"
  /\ gcUrgent' = [p \in Paths |-> IF p \in failed THEN gcUrgent[p] ELSE "0"]
  /\ leaked' = leaked \cup failed
  /\ Goto(t, IF gcAborted THEN "end" ELSE "trim")
  /\ UNCHANGED <<stat, rounds, gcAborted, runs, stuck, device>>

Trim(t) ==
  /\ pc[t] = "trim"
  /\ Goto(t, "dev gc")
  /\ UNCHANGED <<stat, gcUrgent, rounds, gcAborted, runs, leaked, stuck, device>>

\* runDevGcFstab: a device without the file is left alone.  Otherwise the loop writes "1"
\* as long as the device asks for it, unless a read or write fails or the time is up.  It
\* does not look for an abort.
runDevGc(t) ==
  /\ pc[t] = "dev gc"
  /\ \/ Goto(t, "end") /\ UNCHANGED manualGc
     \/ Goto(t, "dev stop") /\ manualGc' \in {manualGc, "1"}
  /\ UNCHANGED <<stat, gcUrgent, rounds, gcAborted, runs, leaked, devLeaked, stuck>>

\* Whatever ended the loop, "0" is written.
StopDevGc(t) ==
  /\ pc[t] = "dev stop" /\ Goto(t, "end")
  /\ \/ manualGc' = "0" /\ UNCHANGED devLeaked
     \/ devLeaked' = TRUE /\ UNCHANGED manualGc
  /\ UNCHANGED <<stat, gcUrgent, rounds, gcAborted, runs, leaked, stuck>>

RunEnd(t) ==
  /\ pc[t] = "end"
  /\ stat' = "stopped"
  /\ Goto(t, "notify")
  /\ UNCHANGED <<gcUrgent, rounds, gcAborted, runs, leaked, stuck, device>>

\* Mutant of RunNotify: nobody is told.
RunNotifyForgotten(t) ==
  /\ pc[t] = "notify" /\ Goto(t, "none")
  /\ UNCHANGED <<stat, gcUrgent, rounds, gcAborted, runs, leaked, stuck, device>>

\* cv_stop.notify_one, and the listener.
RunNotify(t) ==
  LET blocked == {a \in Aborters : pc[a] = "stop wait"} IN
  /\ pc[t] = "notify"
  /\ \/ blocked = {} /\ Goto(t, "none")
     \/ \E a \in blocked : pc' = [pc EXCEPT ![t] = "none", ![a] = "stop check"]
  /\ UNCHANGED <<stat, gcUrgent, rounds, gcAborted, runs, leaked, stuck, device>>

RunStep(t) ==
  \/ RunWakeLock(t)
  \/ \E failed \in SUBSET Paths : StartGc(t, failed) \/ StopGc(t, failed)
  \/ GcCheck(t)
  \/ GcWait(t)
  \/ Trim(t)
  \/ runDevGc(t)
  \/ StopDevGc(t)
  \/ RunEnd(t)
  \/ RunNotify(t)

-----------------------------------------------------------------------------
(* AbortIdleMaint *)

\* With nothing to abort, or without the wakelock, the call returns.
AbortBegin(a) ==
  /\ pc[a] = "none" /\ stat # "stopped"
  /\ stat' = "abort"
  /\ Goto(a, "stop check")
  /\ UNCHANGED <<gcUrgent, rounds, gcAborted, runs, leaked, stuck, device>>

\* The predicate of cv_stop.wait: on entry, and after every wakeup.
AbortCheck(a) ==
  /\ pc[a] = "stop check"
  /\ Goto(a, IF stat = "stopped" THEN "none" ELSE "stop wait")
  /\ UNCHANGED <<stat, gcUrgent, rounds, gcAborted, runs, leaked, stuck, device>>

\* A condition variable may wake up a thread for no reason.
SpuriousWakeup(a) ==
  /\ pc[a] = "stop wait"
  /\ Goto(a, "stop check")
  /\ UNCHANGED <<stat, gcUrgent, rounds, gcAborted, runs, leaked, stuck, device>>

-----------------------------------------------------------------------------
\* SetGCUrgentPace, in the binder thread: "0", or a sleep time and MID mode.
SetGCUrgentPace(mode) ==
  /\ gcUrgent' = [gcUrgent EXCEPT ![DataPath] = mode]
  /\ UNCHANGED <<stat, pc, rounds, gcAborted, runs, leaked, stuck, device>>

Init ==
  /\ stat = "stopped" /\ pc = [t \in Threads |-> "none"]
  /\ gcUrgent = [p \in Paths |-> "0"]
  /\ rounds = 0 /\ gcAborted = FALSE /\ runs = 0 /\ leaked = {} /\ stuck = FALSE
  /\ manualGc = "0" /\ devLeaked = FALSE

Next ==
  \/ \E t \in Runners : RunBegin(t) \/ RunStep(t)
  \/ \E a \in Aborters : AbortBegin(a) \/ AbortCheck(a) \/ SpuriousWakeup(a)
  \/ \E mode \in {"0", "3"} : SetGCUrgentPace(mode)

Spec == Init /\ [][Next]_vars

\* Every thread goes on while it can; no spurious wakeup is relied upon.
Fairness ==
  /\ \A t \in Runners : WF_vars(RunStep(t))
  /\ \A a \in Aborters : WF_vars(AbortCheck(a))

FairSpec == Spec /\ Fairness

-----------------------------------------------------------------------------
(* Properties *)

\* Every variable keeps its type.
TypeOK ==
  /\ stat \in {"stopped", "running", "abort"}
  /\ pc \in [Threads -> PCs]
  /\ gcUrgent \in [Paths -> {"0", "1", "3"}]
  /\ rounds \in 0..GcRounds /\ gcAborted \in BOOLEAN
  /\ runs \in 0..MaxRuns /\ leaked \subseteq Paths
  /\ manualGc \in {"0", "1"} /\ devLeaked \in BOOLEAN /\ stuck \in BOOLEAN

\* However runs and aborts overlap, one thread at most is doing maintenance, and
\* the status says so: two would switch the collection off under each other.
OneRun ==
  /\ \A t, u \in Runners : pc[t] \in Maintaining /\ pc[u] \in Maintaining => t = u
  /\ \A t \in Runners : pc[t] \in Maintaining => stat # "stopped"

\* Neither the kernel nor the device is left collecting, which wears the storage out:
\* whenever no run is collecting no gc_urgent file says 1, and manual_gc says 1 only
\* before the run that wrote it goes on, unless writing to the file failed.
UrgentOnlyInGc ==
  /\ (\A t \in Runners : pc[t] \notin {"gc check", "gc wait", "gc stop"}) =>
       \A p \in Paths \ leaked : gcUrgent[p] # "1"
  /\ (\A t \in Runners : pc[t] # "dev stop") => devLeaked \/ manualGc = "0"

\* Callers of AbortIdleMaint do not all wait for ever: the run that they abort
\* ends, and answers one of them, unless a run has returned without the wakelock.
AbortReturns ==
  (\A a \in Aborters : pc[a] # "none") ~> (stuck \/ \E a \in Aborters : pc[a] = "none")
=============================================================================
