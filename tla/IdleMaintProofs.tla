-------------------------- MODULE IdleMaintProofs ---------------------------
(***************************************************************************)
(* Proofs about IdleMaint, for any number of threads, paths, rounds and    *)
(* runs.  UrgentOnlyInGc is not inductive by itself: that a run switches   *)
(* off a collection which no other run is using needs OneRun, and so does  *)
(* the bound on the rounds, which all runs count in one variable.          *)
(***************************************************************************)
EXTENDS IdleMaint, TLAPS

\* The collection waits only before the timeout.
RoundsLeft == \A t \in Runners : pc[t] = "gc wait" => rounds < GcRounds

\* The inductive invariant.
IInv == TypeOK /\ RoundsLeft /\ OneRun /\ UrgentOnlyInGc

\* A move of one thread changes no other pc.
LEMMA GotoFacts ==
  ASSUME pc \in [Threads -> PCs], NEW t \in Threads, NEW label \in PCs, Goto(t, label)
  PROVE  /\ pc' \in [Threads -> PCs]
         /\ pc'[t] = label
         /\ \A u \in Threads \ {t} : pc'[u] = pc[u]
  BY DEF Goto

\* Every step keeps the types.
LEMMA TypeStep == IInv /\ [Next]_vars => TypeOK'
<1> USE IdleMaintAssumption DEF IInv, TypeOK, PCs, Maintaining, Goto, Threads, device
<1> SUFFICES ASSUME IInv, [Next]_vars PROVE TypeOK'
  OBVIOUS
<1>1. ASSUME NEW t \in Runners, RunBegin(t) PROVE TypeOK'
  <2>0. /\ runs \in 0..MaxRuns /\ MaxRuns \in Nat
        /\ runs < MaxRuns /\ runs' = runs + 1
    BY <1>1, Zenon DEF RunBegin
  <2>1. runs' \in 0..MaxRuns
    BY ONLY <2>0
  <2>2. stat' \in {"stopped", "running", "abort"} /\ pc' \in [Threads -> PCs]
    <3>1. CASE AlreadyRunning
      BY <1>1, <3>1 DEF RunBegin
    <3>2. CASE ~AlreadyRunning
      BY <1>1, <3>2 DEF RunBegin
    <3> QED BY <3>1, <3>2
  <2> QED BY <1>1, <2>1, <2>2 DEF RunBegin
<1>2. ASSUME NEW t \in Runners, RunWakeLock(t) PROVE TypeOK'
  <2>0. GcRounds \in Nat /\ rounds' = 0
    BY <1>2, Zenon DEF RunWakeLock
  <2>1. rounds' \in 0..GcRounds
    BY ONLY <2>0
  <2>2. pc' \in [Threads -> PCs] /\ stuck' \in BOOLEAN
    BY <1>2 DEF RunWakeLock
  <2> QED BY <1>2, <2>1, <2>2 DEF RunWakeLock
<1>3. ASSUME NEW t \in Runners, NEW failed \in SUBSET Paths, StartGc(t, failed) PROVE TypeOK'
  BY <1>3 DEF StartGc
<1>4. ASSUME NEW t \in Runners, NEW failed \in SUBSET Paths, StopGc(t, failed) PROVE TypeOK'
  BY <1>4 DEF StopGc
<1>5. ASSUME NEW t \in Runners, GcCheck(t) PROVE TypeOK'
  BY <1>5 DEF GcCheck
<1>6. ASSUME NEW t \in Runners, GcWait(t) PROVE TypeOK'
  <2>0. /\ rounds \in 0..GcRounds /\ GcRounds \in Nat
        /\ rounds < GcRounds /\ rounds' = rounds + 1
    BY <1>6, Zenon DEF GcWait, RoundsLeft
  <2>1. rounds' \in 0..GcRounds
    BY ONLY <2>0
  <2>2. pc' \in [Threads -> PCs] /\ gcAborted' \in BOOLEAN
    BY <1>6 DEF GcWait
  <2> QED BY <1>6, <2>1, <2>2 DEF GcWait
<1>7. ASSUME NEW t \in Runners, Trim(t) \/ runDevGc(t) \/ StopDevGc(t) PROVE TypeOK'
  BY <1>7 DEF Trim, runDevGc, StopDevGc
<1>8. ASSUME NEW t \in Runners, RunEnd(t) PROVE TypeOK'
  BY <1>8 DEF RunEnd
<1>9. ASSUME NEW t \in Runners, RunNotify(t) PROVE TypeOK'
  BY <1>9 DEF RunNotify
<1>10. ASSUME NEW a \in Aborters, AbortBegin(a) \/ AbortCheck(a) \/ SpuriousWakeup(a)
       PROVE TypeOK'
  BY <1>10 DEF AbortBegin, AbortCheck, SpuriousWakeup
<1>11. ASSUME NEW mode \in {"0", "3"}, SetGCUrgentPace(mode) PROVE TypeOK'
  BY <1>11 DEF SetGCUrgentPace
<1>12. CASE UNCHANGED vars
  BY <1>12 DEF vars
<1> QED
  BY <1>1, <1>2, <1>3, <1>4, <1>5, <1>6, <1>7, <1>8, <1>9, <1>10, <1>11, <1>12
     DEF Next, RunStep

\* The thread t does no maintenance, before the step and after it.
Outside(t) == pc[t] \notin Maintaining /\ pc'[t] \notin Maintaining

\* The rest of the invariant, for a step after which the runners are where they
\* were, the status is not reset and no file is switched to "1".
LEMMA RunnersKept ==
  ASSUME IInv, TypeOK', \A t \in Runners : pc'[t] = pc[t] \/ Outside(t),
         rounds' = rounds, stat' = "stopped" => stat = "stopped", leaked' = leaked,
         \A p \in Paths : gcUrgent'[p] = gcUrgent[p] \/ gcUrgent'[p] # "1",
         UNCHANGED device
  PROVE  RoundsLeft' /\ OneRun' /\ UrgentOnlyInGc'
  BY DEF IInv, RoundsLeft, OneRun, UrgentOnlyInGc, Maintaining, Outside, device

\* The same for a step of the one runner t that is doing maintenance.
LEMMA RunnerMoves ==
  ASSUME IInv, TypeOK', NEW t \in Runners, pc[t] \in Maintaining,
         \A u \in Runners \ {t} : pc'[u] = pc[u],
         pc'[t] \in Maintaining => stat' = stat,
         pc'[t] = "gc wait" => rounds' < GcRounds,
         \/ pc'[t] \in {"gc check", "gc wait", "gc stop"}
         \/ \A p \in Paths \ leaked' : gcUrgent'[p] # "1",
         pc'[t] = "dev stop" \/ devLeaked' \/ manualGc' = "0"
  PROVE  RoundsLeft' /\ OneRun' /\ UrgentOnlyInGc'
<1> \A u \in Runners \ {t} : pc'[u] \notin Maintaining
  BY DEF IInv, OneRun
<1> QED
  BY DEF IInv, RoundsLeft, OneRun, UrgentOnlyInGc, Maintaining

\* While the one run is not about to write "0" to manual_gc, the file does not say 1.
LEMMA DevGcEnds ==
  ASSUME IInv, NEW t \in Runners, pc[t] \in Maintaining, pc[t] # "dev stop"
  PROVE  devLeaked \/ manualGc = "0"
  BY DEF IInv, OneRun, UrgentOnlyInGc, Maintaining

\* Every step keeps the rest of the invariant.
LEMMA SafeStep == IInv /\ [Next]_vars => RoundsLeft' /\ OneRun' /\ UrgentOnlyInGc'
<1> SUFFICES ASSUME IInv, [Next]_vars PROVE RoundsLeft' /\ OneRun' /\ UrgentOnlyInGc'
  OBVIOUS
<1> USE IdleMaintAssumption DEF IInv, TypeOK, Maintaining, Goto, Threads, device
<1>0. TypeOK'
  BY TypeStep
<1>1. ASSUME NEW t \in Runners, RunBegin(t) PROVE RoundsLeft' /\ OneRun' /\ UrgentOnlyInGc'
  <2>1. CASE AlreadyRunning
    BY <1>0, <1>1, <2>1, RunnersKept DEF RunBegin
  <2>2. CASE ~AlreadyRunning
    <3>1. \A u \in Runners : pc[u] \notin Maintaining
      BY <2>2 DEF AlreadyRunning, OneRun
    <3>2. /\ pc'[t] = "wakelock" /\ stat' = "running"
          /\ \A u \in Runners \ {t} : pc'[u] \notin Maintaining
      BY <1>1, <2>2, <3>1 DEF RunBegin
    <3> QED BY <1>0, <1>1, <3>1, <3>2 DEF RunBegin, RoundsLeft, OneRun, UrgentOnlyInGc
  <2> QED BY <2>1, <2>2
<1>2. ASSUME NEW t \in Runners, RunWakeLock(t) PROVE RoundsLeft' /\ OneRun' /\ UrgentOnlyInGc'
  <2>1. \A p \in Paths \ leaked : gcUrgent[p] # "1"
    BY <1>2 DEF RunWakeLock, OneRun, UrgentOnlyInGc
  <2>2. /\ \A u \in Runners \ {t} : pc'[u] = pc[u]
        /\ pc'[t] \in {"gc start", "trim", "none"}
        /\ stat' = stat /\ leaked' = leaked /\ gcUrgent' = gcUrgent
    BY <1>2 DEF RunWakeLock
  <2> QED BY <1>0, <1>2, <2>1, <2>2, RunnerMoves, DevGcEnds DEF RunWakeLock
<1>3. ASSUME NEW t \in Runners, NEW failed \in SUBSET Paths, StartGc(t, failed)
      PROVE RoundsLeft' /\ OneRun' /\ UrgentOnlyInGc'
  BY <1>0, <1>3, RunnerMoves, DevGcEnds DEF StartGc
<1>4. ASSUME NEW t \in Runners, NEW failed \in SUBSET Paths, StopGc(t, failed)
      PROVE RoundsLeft' /\ OneRun' /\ UrgentOnlyInGc'
  <2>1. \A p \in Paths \ leaked' : gcUrgent'[p] # "1"
    BY <1>4 DEF StopGc
  <2>2. /\ \A u \in Runners \ {t} : pc'[u] = pc[u]
        /\ pc'[t] \in {"end", "trim"} /\ stat' = stat
    BY <1>4 DEF StopGc
  <2> QED BY <1>0, <1>4, <2>1, <2>2, RunnerMoves, DevGcEnds DEF StopGc
<1>5. ASSUME NEW t \in Runners, GcCheck(t) PROVE RoundsLeft' /\ OneRun' /\ UrgentOnlyInGc'
  BY <1>0, <1>5, RunnerMoves, DevGcEnds DEF GcCheck
<1>6. ASSUME NEW t \in Runners, GcWait(t) PROVE RoundsLeft' /\ OneRun' /\ UrgentOnlyInGc'
  <2>1. /\ \A u \in Runners \ {t} : pc'[u] = pc[u]
        /\ pc'[t] \in {"gc check", "gc stop"} /\ stat' = stat
    BY <1>6 DEF GcWait
  <2> QED BY <1>0, <1>6, <2>1, RunnerMoves, DevGcEnds DEF GcWait
<1>7. ASSUME NEW t \in Runners, Trim(t) \/ runDevGc(t) \/ StopDevGc(t) \/ RunEnd(t)
      PROVE RoundsLeft' /\ OneRun' /\ UrgentOnlyInGc'
  <2>1. \A p \in Paths \ leaked : gcUrgent[p] # "1"
    BY <1>7 DEF Trim, runDevGc, StopDevGc, RunEnd, OneRun, UrgentOnlyInGc
  <2>2. /\ \A u \in Runners \ {t} : pc'[u] = pc[u]
        /\ pc'[t] = "notify" \/ (pc'[t] \in {"dev gc", "dev stop", "end"} /\ stat' = stat)
        /\ leaked' = leaked /\ gcUrgent' = gcUrgent
    BY <1>7 DEF Trim, runDevGc, StopDevGc, RunEnd
  <2>3. pc'[t] = "dev stop" \/ devLeaked' \/ manualGc' = "0"
    <3>1. CASE StopDevGc(t)
      BY <3>1 DEF StopDevGc
    <3>2. CASE Trim(t) \/ runDevGc(t) \/ RunEnd(t)
      BY <1>7, <3>2, DevGcEnds DEF Trim, runDevGc, RunEnd
    <3> QED BY <1>7, <3>1, <3>2
  <2> QED BY <1>0, <1>7, <2>1, <2>2, <2>3, RunnerMoves DEF Trim, runDevGc, StopDevGc, RunEnd
<1>9. ASSUME NEW t \in Runners, RunNotify(t) PROVE RoundsLeft' /\ OneRun' /\ UrgentOnlyInGc'
  <2>1. \A u \in Runners : pc'[u] = pc[u] \/ Outside(u)
    BY <1>9 DEF RunNotify, Outside
  <2> QED BY <1>0, <1>9, <2>1, RunnersKept DEF RunNotify
<1>10. ASSUME NEW a \in Aborters, AbortBegin(a) \/ AbortCheck(a) \/ SpuriousWakeup(a)
       PROVE RoundsLeft' /\ OneRun' /\ UrgentOnlyInGc'
  <2>1. \A u \in Runners : pc'[u] = pc[u]
    BY <1>10 DEF AbortBegin, AbortCheck, SpuriousWakeup
  <2>2. /\ rounds' = rounds /\ leaked' = leaked /\ gcUrgent' = gcUrgent
        /\ stat' = stat \/ stat' = "abort"
        /\ UNCHANGED device
    BY <1>10 DEF AbortBegin, AbortCheck, SpuriousWakeup
  <2> QED BY <1>0, <2>1, <2>2, RunnersKept
<1>11. ASSUME NEW mode \in {"0", "3"}, SetGCUrgentPace(mode)
       PROVE RoundsLeft' /\ OneRun' /\ UrgentOnlyInGc'
  BY <1>0, <1>11, RunnersKept DEF SetGCUrgentPace
<1>12. CASE UNCHANGED vars
  BY <1>12, RunnersKept DEF vars
<1> QED
  BY <1>1, <1>2, <1>3, <1>4, <1>5, <1>6, <1>7, <1>9, <1>10, <1>11, <1>12
     DEF Next, RunStep

\* The invariant holds in every reachable state.
THEOREM Inductive == Spec => []IInv
<1>1. Init => IInv
  <2> SUFFICES ASSUME Init PROVE IInv
    OBVIOUS
  <2>1. 0 \in 0..GcRounds /\ 0 \in 0..MaxRuns
    BY IdleMaintAssumption
  <2>2. TypeOK
    BY <2>1, Zenon DEF Init, TypeOK, PCs
  <2>3. RoundsLeft /\ OneRun /\ UrgentOnlyInGc
    BY DEF Init, RoundsLeft, OneRun, UrgentOnlyInGc, Maintaining, Threads
  <2> QED BY <2>2, <2>3 DEF IInv
<1>2. IInv /\ [Next]_vars => IInv'
  BY TypeStep, SafeStep DEF IInv
<1> QED BY <1>1, <1>2, PTL DEF Spec

\* Every variable keeps its type: in particular a collection never waits longer
\* than GC_TIMEOUT_SEC.
THEOREM TypeCorrect == Spec => []TypeOK
  BY Inductive, PTL DEF IInv

\* Two maintenance runs never overlap, for any number of calls and aborts.
THEOREM RunsExclude == Spec => []OneRun
  BY Inductive, PTL DEF IInv

\* No path stays in urgent garbage collection after the run that started it.
THEOREM UrgentEnds == Spec => []UrgentOnlyInGc
  BY Inductive, PTL DEF IInv
=============================================================================
