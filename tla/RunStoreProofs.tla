--------------------------- MODULE RunStoreProofs ---------------------------
(***************************************************************************)
(* Proofs about RunStore, for every number of runs, workers, faults and    *)
(* stops.  The inductive invariant is TypeOK together with four facts:     *)
(* who is inside the lock (Held), when threads may be busy (Serving), what *)
(* a thread inside the lock may rely on about its run's files (Calls), and *)
(* that a creation in progress still has room (Room).  The second part     *)
(* follows a run from the handler that accepted it through the executor's  *)
(* queue to one worker, and adds what each thread may be asked to do       *)
(* (Errands), that whatever is queued or worked on was written to disk     *)
(* before (Known), that nobody shares a run (Once), and that a run is new  *)
(* to the executor when it is submitted (Fresh).                           *)
(***************************************************************************)
EXTENDS RunStore, FiniteSetTheorems, SequenceTheorems, TLAPS

\* Whoever is between two file operations of RunStore holds its lock.
Held == \A t \in Threads : thread[t].at \in Locking => lock = {t}

\* Busy threads have a run.  The event loop is busy only while the server
\* takes requests, a worker also while it drains.
Serving ==
  \A t \in Threads :
    thread[t].at # "idle" =>
      thread[t].run \in Runs /\ (server = "up" \/ (server = "stopping" /\ t \in Workers))

\* What was read under the lock still holds at the next file operation.
Relies(t) ==
  LET r == thread[t].run
  IN  /\ thread[t].at = "create" => t = EventLoop /\ meta[r] = "dir"
      /\ thread[t].at = "write_meta" => <<meta[r], thread[t].status>> \in ValidTransitions
      /\ thread[t].at = "open_report" => meta[r] = "completed" /\ report[r] = "absent"
      /\ thread[t].at = "fill_report" => meta[r] = "completed" /\ report[r] = "partial"

Calls == \A t \in Threads : Relies(t)

\* create_run counted under the lock, and nobody else may add a run.
Room == thread[EventLoop].at = "create" => Cardinality(InflightRuns) < MaxInflight

SafeInv == TypeOK /\ Held /\ Serving /\ Calls /\ ReportOnlyForCompleted

IInv == SafeInv /\ CapacityRespected /\ Room

USE DEF files, bounds

LEMMA SafeInit == Init => SafeInv
<1> SUFFICES ASSUME Init PROVE SafeInv
    OBVIOUS
<1> USE RunStoreAssumption DEF Init
<1>1. TypeOK
    BY DEF TypeOK, ReportStates, ServerPhases, Statuses, Idle, NoPage, ThreadStates,
           PageStates, Moments
<1>2. Held /\ Serving /\ Calls /\ ReportOnlyForCompleted
    BY DEF Held, Serving, Calls, Relies, ReportOnlyForCompleted, Idle, Locking
<1> QED
    BY <1>1, <1>2 DEF SafeInv

\* The places a thread can be at, and where it goes on from them.
LEMMA Moved ==
  ASSUME TypeOK, NEW t \in Threads
  PROVE  /\ thread[t] \in ThreadStates
         /\ \A m \in Locking \cup {"submit", "simulate"} : At(t, m) \in ThreadStates
         /\ AfterReturn(t) \in ThreadStates
         /\ AfterRaise(t) \in ThreadStates
         /\ Idle \in ThreadStates
         /\ \A r \in Runs, s \in Statuses : Update(r, s) \in ThreadStates
         /\ \A r \in Runs, s \in Statuses, m \in Reading \cup Locking :
              [at |-> m, run |-> r, status |-> s] \in ThreadStates
         /\ \A s \in ThreadStates :
              [thread EXCEPT ![t] = s] \in [Threads -> ThreadStates]
  BY DEF TypeOK, AfterReturn, AfterRaise, At, Update, Idle, ThreadStates, Moments,
         Statuses, Final, Inflight, Working, Reading, Locking

LEMMA TypeStep == SafeInv /\ [Next]_vars => TypeOK'
<1> SUFFICES ASSUME SafeInv, [Next]_vars PROVE TypeOK'
    OBVIOUS
<1> USE RunStoreAssumption DEF SafeInv, TypeOK
<1>0. EventLoop \in Threads /\ Workers \subseteq Threads
    BY DEF Threads
<1>1. ASSUME NEW t \in Threads, EnterUpdate(t) PROVE TypeOK'
  <2>1. CASE <<meta[thread[t].run], thread[t].status>> \in ValidTransitions
    BY <1>1, <2>1, Moved DEF EnterUpdate, CheckTransition, Locking
  <2>2. CASE <<meta[thread[t].run], thread[t].status>> \notin ValidTransitions
    BY <1>1, <2>2, Moved DEF EnterUpdate, CheckTransition
  <2> QED
    BY <2>1, <2>2
<1>2. ASSUME NEW t \in Threads, WriteMeta(t) PROVE TypeOK'
  <2>1. meta' \in [Runs -> Statuses \cup {"none", "dir"}]
    BY <1>2, Moved DEF WriteMeta, ThreadStates
  <2>2. CASE thread[t].status = "completed"
    BY <1>2, <2>1, <2>2, Moved DEF WriteMeta, Locking
  <2>3. CASE thread[t].status # "completed"
    BY <1>2, <2>1, <2>3, Moved DEF WriteMeta
  <2> QED
    BY <2>2, <2>3
<1>3. ASSUME NEW t \in Threads, OpenReport(t) PROVE TypeOK'
    BY <1>3, Moved DEF OpenReport, Locking, ReportStates
<1>4. ASSUME NEW t \in Threads, FillReport(t) PROVE TypeOK'
    BY <1>4, Moved DEF FillReport, ReportStates
<1>5. ASSUME NEW t \in Threads, DiskFault(t) PROVE TypeOK'
    BY <1>5, Moved DEF DiskFault
<1>6. ASSUME NEW r \in Runs, EnterCreate(r) PROVE TypeOK'
    BY <1>0, <1>6, Moved DEF EnterCreate, MakeDirectory, Locking, Statuses, Inflight
<1>7. ASSUME NEW r \in Runs, LoadPage(r) \/ Poll(r) PROVE TypeOK'
  <2>0. \E at \in Reading, polling \in BOOLEAN : ReadMeta(r, at, polling)
    <3>1. CASE LoadPage(r)
      <4> USE DEF Reading
      <4> WITNESS "page" \in Reading, (meta[r] \in Inflight) \in BOOLEAN
      <4> QED
        BY <3>1 DEF LoadPage
    <3>2. CASE Poll(r)
      <4> USE DEF Reading
      <4> WITNESS "partial" \in Reading, TRUE \in BOOLEAN
      <4> QED
        BY <3>2 DEF Poll
    <3> QED
      BY <1>7, <3>1, <3>2
  <2>1. PICK at \in Reading, polling \in BOOLEAN : ReadMeta(r, at, polling)
    BY <2>0
  <2>2. CASE meta[r] = "completed"
    BY SMTT(30), <1>0, <2>1, <2>2, Moved DEF ReadMeta, Statuses, Final
  <2>3. CASE meta[r] # "completed"
    <3>1. [status |-> meta[r], report |-> "absent", polling |-> polling] \in PageStates
      BY <2>1 DEF ReadMeta, PageStates, ReportStates
    <3> QED
      BY <2>1, <2>3, <3>1 DEF ReadMeta
  <2> QED
    BY <2>2, <2>3
<1>8. ASSUME NEW r \in Runs, Reconcile(r) PROVE TypeOK'
    BY <1>8 DEF Reconcile, MarkStale, Statuses, Final
<1>9. CASE WriteNew
    BY <1>0, <1>9, Moved DEF WriteNew, Statuses, Inflight
<1>10. CASE Submit
    BY <1>0, <1>10, Moved DEF Submit, Serving
<1>11. CASE SubmitRaises
  <2>1. thread[EventLoop].run \in Runs
    BY <1>0, <1>11 DEF SubmitRaises, Serving
  <2>2. thread' \in [Threads -> ThreadStates]
    BY <1>0, <1>11, <2>1, Moved DEF SubmitRaises, Statuses, Final
  <2>3. queue' \in Seq(Runs)
    BY <1>11, <2>1 DEF SubmitRaises
  <2> QED
    BY <1>11, <2>2, <2>3 DEF SubmitRaises
<1>12. CASE ReadReport
  <2>1. page' \in [Runs -> PageStates]
    BY <1>0, <1>12 DEF ReadReport, Serving, PageStates, Statuses, Final, Reading
  <2> QED
    BY <1>0, <1>12, <2>1, Moved DEF ReadReport
<1>13. ASSUME NEW w \in Workers, Take(w) PROVE TypeOK'
    BY <1>0, <1>13, Moved DEF Take, Statuses, Inflight
<1>14. ASSUME NEW w \in Workers, Simulate(w) PROVE TypeOK'
    BY <1>0, <1>14, Moved DEF Simulate, Serving, Statuses
<1>15. CASE ReconcileFault \/ Serve \/ Stop \/ Exit \/ Restart
    BY <1>15 DEF ReconcileFault, Serve, Stop, Exit, Restart, ServerPhases
<1>16. CASE Crash
    BY <1>16 DEF Crash, ServerPhases, Idle, ThreadStates, Moments
<1>17. CASE UNCHANGED vars
    BY <1>17 DEF vars
<1> QED
    BY <1>1, <1>2, <1>3, <1>4, <1>5, <1>6, <1>7, <1>8, <1>9, <1>10, <1>11,
       <1>12, <1>13, <1>14, <1>15, <1>16, <1>17 DEF Next, UpdateStatus

\* A step of one thread that only changes that thread: what every other one
\* is doing stays as it is.
LEMMA HeldStep == SafeInv /\ [Next]_vars => Held'
<1> SUFFICES ASSUME SafeInv, [Next]_vars, NEW u \in Threads, thread'[u].at \in Locking
             PROVE  lock' = {u}
    BY DEF Held
<1> USE RunStoreAssumption DEF SafeInv, TypeOK, Held, Locking
<1>0. EventLoop \in Threads /\ Workers \subseteq Threads
    BY DEF Threads
<1>1. ASSUME NEW t \in Threads, EnterUpdate(t) PROVE lock' = {u}
    BY <1>1 DEF EnterUpdate, CheckTransition, AfterRaise, Update, Idle, At
<1>2. ASSUME NEW t \in Threads, WriteMeta(t) PROVE lock' = {u}
  <2>1. CASE thread[t].status = "completed"
    BY <1>2, <2>1 DEF WriteMeta, At
  <2>2. CASE thread[t].status # "completed"
    <3>1. thread'[t].at \notin Locking
      BY <1>2, <2>2 DEF WriteMeta, AfterReturn, Idle, At
    <3>2. u # t
      BY <3>1
    <3>3. thread'[u] = thread[u] /\ lock = {t}
      BY <1>2, <2>2, <3>2 DEF WriteMeta
    <3> QED
      BY <3>2, <3>3
  <2> QED
    BY <2>1, <2>2
<1>3. ASSUME NEW t \in Threads, OpenReport(t) PROVE lock' = {u}
    BY <1>3 DEF OpenReport, At
<1>4. ASSUME NEW t \in Threads, FillReport(t) PROVE lock' = {u}
    BY ZenonT(60), <1>4 DEF FillReport, AfterReturn, Idle, At
<1>5. ASSUME NEW t \in Threads, DiskFault(t) PROVE lock' = {u}
    BY ZenonT(60), <1>5 DEF DiskFault, AfterRaise, Update, Idle
<1>6. ASSUME NEW r \in Runs, EnterCreate(r) PROVE lock' = {u}
    BY <1>0, <1>6 DEF EnterCreate, MakeDirectory
<1>7. ASSUME NEW r \in Runs, LoadPage(r) \/ Poll(r) PROVE lock' = {u}
    BY <1>0, <1>7 DEF LoadPage, Poll, ReadMeta
<1>8. ASSUME NEW r \in Runs, Reconcile(r) PROVE lock' = {u}
    BY <1>8 DEF Reconcile, MarkStale
<1>9. CASE WriteNew
    BY <1>0, <1>9 DEF WriteNew, At
<1>10. CASE Submit \/ SubmitRaises
    BY SMTT(30), <1>0, <1>10 DEF Submit, SubmitRaises, Update, Idle
<1>11. CASE ReadReport
    BY <1>0, <1>11 DEF ReadReport, Idle
<1>12. ASSUME NEW w \in Workers, Take(w) \/ Simulate(w) PROVE lock' = {u}
    BY <1>0, <1>12 DEF Take, Simulate, Update
<1>13. CASE ReconcileFault \/ Serve \/ Stop \/ Exit \/ Restart \/ UNCHANGED vars
    BY <1>13 DEF ReconcileFault, Serve, Stop, Exit, Restart, vars
<1>14. CASE Crash
    BY <1>14 DEF Crash, Idle
<1> QED
    BY <1>1, <1>2, <1>3, <1>4, <1>5, <1>6, <1>7, <1>8, <1>9, <1>10, <1>11,
       <1>12, <1>13, <1>14 DEF Next, UpdateStatus

LEMMA ServingStep == SafeInv /\ [Next]_vars => Serving'
<1> SUFFICES ASSUME SafeInv, [Next]_vars, NEW u \in Threads, thread'[u].at # "idle"
             PROVE  thread'[u].run \in Runs
                      /\ (server' = "up" \/ (server' = "stopping" /\ u \in Workers))
    BY DEF Serving
<1> USE RunStoreAssumption DEF SafeInv, TypeOK, Serving
<1> DEFINE Goal == thread'[u].run \in Runs
                     /\ (server' = "up" \/ (server' = "stopping" /\ u \in Workers))
<1>0. EventLoop \in Threads /\ Workers \subseteq Threads
    BY DEF Threads
<1>1. ASSUME NEW t \in Threads, EnterUpdate(t) PROVE Goal
    BY <1>1 DEF EnterUpdate, CheckTransition, AfterRaise, Update, Idle, At
<1>2. ASSUME NEW t \in Threads, WriteMeta(t) PROVE Goal
    BY <1>2 DEF WriteMeta, AfterReturn, Idle, At
<1>3. ASSUME NEW t \in Threads, OpenReport(t) PROVE Goal
    BY <1>3 DEF OpenReport, At
<1>4. ASSUME NEW t \in Threads, FillReport(t) PROVE Goal
    BY <1>4 DEF FillReport, AfterReturn, Idle, At
<1>5. ASSUME NEW t \in Threads, DiskFault(t) PROVE Goal
    BY <1>5 DEF DiskFault, AfterRaise, Update, Idle, Locking
<1>6. ASSUME NEW r \in Runs, EnterCreate(r) PROVE Goal
  <2>1. server' = "up"
    BY <1>6 DEF EnterCreate, MakeDirectory
  <2>2. CASE u = EventLoop
    BY <1>0, <1>6, <2>1, <2>2 DEF EnterCreate, MakeDirectory
  <2>3. CASE u # EventLoop
    BY <1>0, <1>6, <2>3 DEF EnterCreate, MakeDirectory
  <2> QED
    BY <2>2, <2>3
<1>7. ASSUME NEW r \in Runs, LoadPage(r) \/ Poll(r) PROVE Goal
  <2>1. server' = "up"
    BY <1>7 DEF LoadPage, Poll, ReadMeta
  <2>2. CASE u = EventLoop
    <3>1. thread'[u] = thread[u] \/ thread'[u].run = r
      BY <1>0, <1>7, <2>2 DEF LoadPage, Poll, ReadMeta
    <3> QED
      BY <2>1, <2>2, <3>1
  <2>3. CASE u # EventLoop
    <3>1. thread'[u] = thread[u]
      BY <1>0, <1>7, <2>3 DEF LoadPage, Poll, ReadMeta
    <3> QED
      BY <1>7, <3>1 DEF LoadPage, Poll, ReadMeta
  <2> QED
    BY <2>2, <2>3
<1>8. ASSUME NEW r \in Runs, Reconcile(r) PROVE Goal
    BY <1>8 DEF Reconcile, MarkStale
<1>9. CASE WriteNew
    BY <1>0, <1>9 DEF WriteNew, At
<1>10. CASE Submit \/ SubmitRaises
    BY <1>0, <1>10 DEF Submit, SubmitRaises, Update, Idle
<1>11. CASE ReadReport
    BY <1>0, <1>11 DEF ReadReport, Idle
<1>12. ASSUME NEW w \in Workers, Take(w) PROVE Goal
    BY <1>0, <1>12 DEF Take, Update
<1>13. ASSUME NEW w \in Workers, Simulate(w) PROVE Goal
    BY <1>0, <1>13 DEF Simulate, Update
<1>14. CASE ReconcileFault \/ Serve \/ Restart \/ UNCHANGED vars
    BY <1>14 DEF ReconcileFault, Serve, Restart, vars
<1>15. CASE Stop
    BY <1>15 DEF Stop, Threads, Idle
<1>16. CASE Exit
    BY <1>16 DEF Exit, Idle
<1>17. CASE Crash
    BY <1>17 DEF Crash, Idle
<1> QED
    BY <1>1, <1>2, <1>3, <1>4, <1>5, <1>6, <1>7, <1>8, <1>9, <1>10, <1>11,
       <1>12, <1>13, <1>14, <1>15, <1>16, <1>17 DEF Next, UpdateStatus

\* A thread that is not inside the lock after the step relies on nothing; one
\* that is inside, and was not moved, relies on the files of its own run.
LEMMA CallsStep == SafeInv /\ [Next]_vars => Calls'
<1> SUFFICES ASSUME SafeInv, [Next]_vars, NEW u \in Threads PROVE Relies(u)'
    BY DEF Calls
<1> USE RunStoreAssumption DEF SafeInv, TypeOK, Locking
<1>0. EventLoop \in Threads /\ Workers \subseteq Threads
    BY DEF Threads
<1>a. ASSUME thread'[u].at \notin Locking PROVE Relies(u)'
    BY <1>a DEF Relies
<1>b. ASSUME thread'[u] = thread[u], UNCHANGED files PROVE Relies(u)'
    BY <1>b DEF Relies, Calls
<1>c. ASSUME NEW t \in Threads, thread[t].at \in Locking, u # t, thread'[u] = thread[u]
      PROVE  Relies(u)'
    BY <1>a, <1>c DEF Held
<1>d. ASSUME NEW t \in Threads, lock = {}, u # t, thread'[u] = thread[u]
      PROVE  Relies(u)'
    BY <1>a, <1>d DEF Held
<1>1. ASSUME NEW t \in Threads, EnterUpdate(t) PROVE Relies(u)'
  <2>1. CASE u # t
    BY <1>1, <1>d, <2>1 DEF EnterUpdate, CheckTransition
  <2>2. CASE u = t /\ <<meta[thread[t].run], thread[t].status>> \in ValidTransitions
    BY <1>1, <2>2 DEF EnterUpdate, CheckTransition, Relies, At
  <2>3. CASE u = t /\ <<meta[thread[t].run], thread[t].status>> \notin ValidTransitions
    BY <1>1, <1>a, <2>3 DEF EnterUpdate, CheckTransition, AfterRaise, Update, Idle
  <2> QED
    BY <2>1, <2>2, <2>3
<1>2. ASSUME NEW t \in Threads, WriteMeta(t) PROVE Relies(u)'
  <2>1. CASE u # t
    BY <1>2, <1>c, <2>1 DEF WriteMeta
  <2>2. CASE u = t /\ thread[t].status = "completed"
    <3>1. meta[thread[t].run] = "running" /\ thread[t].run \in Runs
      BY <1>2, <2>2 DEF WriteMeta, Calls, Relies, ValidTransitions, Serving
    <3>2. report[thread[t].run] = "absent"
      BY <3>1 DEF ReportOnlyForCompleted
    <3> QED
      BY <1>2, <2>2, <3>1, <3>2 DEF WriteMeta, Relies, At
  <2>3. CASE u = t /\ thread[t].status # "completed"
    BY <1>2, <1>a, <2>3 DEF WriteMeta, AfterReturn, Idle, At
  <2> QED
    BY <2>1, <2>2, <2>3
<1>3. ASSUME NEW t \in Threads, OpenReport(t) PROVE Relies(u)'
  <2>1. CASE u # t
    BY <1>3, <1>c, <2>1 DEF OpenReport
  <2>2. CASE u = t
    BY <1>3, <2>2 DEF OpenReport, Relies, Calls, Serving, At
  <2> QED
    BY <2>1, <2>2
<1>4. ASSUME NEW t \in Threads, FillReport(t) \/ DiskFault(t) PROVE Relies(u)'
  <2>1. CASE u # t
    BY <1>4, <1>c, <2>1 DEF FillReport, DiskFault
  <2>2. CASE u = t
    BY <1>4, <1>a, <2>2 DEF FillReport, DiskFault, AfterReturn, AfterRaise, Update, Idle, At
  <2> QED
    BY <2>1, <2>2
<1>5. ASSUME NEW r \in Runs, EnterCreate(r) PROVE Relies(u)'
  <2>1. CASE u # EventLoop
    BY <1>0, <1>5, <1>d, <2>1 DEF EnterCreate, MakeDirectory
  <2>2. CASE u = EventLoop
    BY <1>5, <2>2 DEF EnterCreate, MakeDirectory, Relies
  <2> QED
    BY <2>1, <2>2
<1>6. ASSUME NEW r \in Runs, LoadPage(r) \/ Poll(r) PROVE Relies(u)'
  <2>1. thread'[u] = thread[u] \/ thread'[u].at \notin Locking
    BY <1>0, <1>6 DEF LoadPage, Poll, ReadMeta
  <2> QED
    BY <1>6, <1>a, <1>b, <2>1 DEF LoadPage, Poll, ReadMeta
<1>7. ASSUME NEW r \in Runs, Reconcile(r) PROVE Relies(u)'
  <2>1. thread'[u].at = "idle"
    BY <1>7 DEF Reconcile, MarkStale, Serving
  <2> QED
    BY <1>a, <2>1
<1>8. CASE WriteNew
  <2>1. CASE u # EventLoop
    BY <1>0, <1>8, <1>c, <2>1 DEF WriteNew
  <2>2. CASE u = EventLoop
    BY <1>8, <1>a, <2>2 DEF WriteNew, At
  <2> QED
    BY <2>1, <2>2
<1>9. CASE Submit \/ SubmitRaises \/ ReadReport
  <2>1. thread'[u] = thread[u] \/ thread'[u].at \notin Locking
    BY <1>0, <1>9 DEF Submit, SubmitRaises, ReadReport, Update, Idle
  <2> QED
    BY <1>9, <1>a, <1>b, <2>1 DEF Submit, SubmitRaises, ReadReport
<1>10. ASSUME NEW w \in Workers, Take(w) \/ Simulate(w) PROVE Relies(u)'
  <2>1. thread'[u] = thread[u] \/ thread'[u].at \notin Locking
    BY <1>0, <1>10 DEF Take, Simulate, Update
  <2> QED
    BY <1>10, <1>a, <1>b, <2>1 DEF Take, Simulate
<1>11. CASE ReconcileFault \/ Serve \/ Stop \/ Exit \/ Restart \/ UNCHANGED vars
    BY <1>11, <1>b DEF ReconcileFault, Serve, Stop, Exit, Restart, vars
<1>12. CASE Crash
    BY <1>12, <1>a DEF Crash, Idle
<1> QED
    BY <1>1, <1>2, <1>3, <1>4, <1>5, <1>6, <1>7, <1>8, <1>9, <1>10, <1>11, <1>12
    DEF Next, UpdateStatus

\* While create_run is between its count and its write, meta.json of no run
\* changes: writers need the lock, and reconciliation runs before any request.
LEMMA RoomStep == IInv /\ [Next]_vars => Room'
<1> SUFFICES ASSUME IInv, [Next]_vars, thread'[EventLoop].at = "create"
             PROVE  Cardinality(InflightRuns') < MaxInflight
    BY DEF Room
<1> USE RunStoreAssumption DEF IInv, SafeInv, TypeOK
<1>0. EventLoop \in Threads /\ Workers \subseteq Threads
    BY DEF Threads
<1>1. ASSUME NEW r \in Runs, EnterCreate(r) PROVE InflightRuns' = InflightRuns
    BY <1>1 DEF EnterCreate, MakeDirectory, InflightRuns, Inflight
<1>2. ASSUME NEW t \in Threads, WriteMeta(t) PROVE FALSE
  <2>1. t # EventLoop
    BY <1>0, <1>2 DEF WriteMeta, AfterReturn, Idle, At
  <2>2. lock = {t} /\ thread[EventLoop].at = "create"
    BY <1>0, <1>2, <2>1 DEF WriteMeta, Held, Locking
  <2> QED
    BY <1>0, <2>1, <2>2 DEF Held, Locking
<1>3. ASSUME NEW r \in Runs, Reconcile(r) PROVE FALSE
    BY <1>0, <1>3 DEF Reconcile, MarkStale, Serving
<1>4. CASE WriteNew
    BY <1>0, <1>4 DEF WriteNew, At
<1>5. ASSUME NEW t \in Threads, EnterUpdate(t) \/ OpenReport(t) \/ FillReport(t) \/ DiskFault(t)
      PROVE  UNCHANGED meta /\ thread[EventLoop].at = "create"
    BY <1>0, <1>5 DEF EnterUpdate, CheckTransition, OpenReport, FillReport, DiskFault, AfterReturn,
                      AfterRaise, Update, Idle, At
<1>6. ASSUME NEW r \in Runs, LoadPage(r) \/ Poll(r)
      PROVE  UNCHANGED meta /\ thread[EventLoop].at = "create"
    BY <1>0, <1>6 DEF LoadPage, Poll, ReadMeta
<1>7. ASSUME Submit \/ SubmitRaises \/ ReadReport
      PROVE  FALSE
    BY <1>0, <1>7 DEF Submit, SubmitRaises, ReadReport, Update, Idle
<1>8. ASSUME NEW w \in Workers, Take(w) \/ Simulate(w)
      PROVE  UNCHANGED meta /\ thread[EventLoop].at = "create"
    BY <1>0, <1>8 DEF Take, Simulate, Update
<1>9. ASSUME ReconcileFault \/ Serve \/ Stop \/ Exit \/ Restart \/ UNCHANGED vars
      PROVE  UNCHANGED meta /\ thread[EventLoop].at = "create"
    BY <1>9 DEF ReconcileFault, Serve, Stop, Exit, Restart, vars
<1>10. CASE Crash
    BY <1>0, <1>10 DEF Crash, Idle
<1>11. CASE UNCHANGED meta /\ thread[EventLoop].at = "create"
    BY <1>11 DEF Room, InflightRuns
<1>12. CASE \E r \in Runs : EnterCreate(r)
    BY <1>1, <1>12 DEF EnterCreate, MakeDirectory
<1> QED
    BY <1>2, <1>3, <1>4, <1>5, <1>6, <1>7, <1>8, <1>9, <1>10, <1>11, <1>12
    DEF Next, UpdateStatus

\* All that a step may do to the files: nothing, make a directory, accept a
\* run while there is room, take a valid transition, or extend a report.
Files ==
  \/ UNCHANGED files
  \/ \E r \in Runs : /\ meta[r] = "none"
                     /\ meta' = [meta EXCEPT ![r] = "dir"]
                     /\ UNCHANGED report
  \/ \E r \in Runs : /\ meta[r] = "dir"
                     /\ Cardinality(InflightRuns) < MaxInflight
                     /\ meta' = [meta EXCEPT ![r] = "pending"]
                     /\ UNCHANGED report
  \/ \E r \in Runs, s \in Statuses :
       /\ <<meta[r], s>> \in ValidTransitions
       /\ meta' = [meta EXCEPT ![r] = s]
       /\ UNCHANGED report
  \/ \E r \in Runs : /\ meta[r] = "completed"
                     /\ \E step \in {<<"absent", "partial">>, <<"partial", "whole">>} :
                          /\ report[r] = step[1]
                          /\ report' = [report EXCEPT ![r] = step[2]]
                     /\ UNCHANGED meta

LEMMA FileStep == IInv /\ [Next]_vars => Files
<1> SUFFICES ASSUME IInv, [Next]_vars PROVE Files
    OBVIOUS
<1> USE RunStoreAssumption DEF IInv, SafeInv, TypeOK
<1>0. EventLoop \in Threads
    BY DEF Threads
<1>1. ASSUME NEW t \in Threads, WriteMeta(t) PROVE Files
  <2>1. thread[t].run \in Runs
    BY <1>1 DEF WriteMeta, Serving
  <2>2. <<meta[thread[t].run], thread[t].status>> \in ValidTransitions
    BY <1>1 DEF WriteMeta, Calls, Relies
  <2>3. thread[t].status \in Statuses
    BY <2>2 DEF ValidTransitions, Statuses, Inflight, Final
  <2> QED
    BY <1>1, <2>1, <2>2, <2>3 DEF WriteMeta, Files
<1>2. ASSUME NEW t \in Threads, OpenReport(t) PROVE Files
  <2>1. thread[t].run \in Runs
    BY <1>2 DEF OpenReport, Serving
  <2>2. meta[thread[t].run] = "completed" /\ report[thread[t].run] = "absent"
    BY <1>2 DEF OpenReport, Calls, Relies
  <2> QED
    BY <1>2, <2>1, <2>2 DEF OpenReport, Files
<1>3. ASSUME NEW t \in Threads, FillReport(t) PROVE Files
  <2>1. thread[t].run \in Runs
    BY <1>3 DEF FillReport, Serving
  <2>2. meta[thread[t].run] = "completed" /\ report[thread[t].run] = "partial"
    BY <1>3 DEF FillReport, Calls, Relies
  <2> QED
    BY <1>3, <2>1, <2>2 DEF FillReport, Files
<1>4. ASSUME NEW r \in Runs, EnterCreate(r) PROVE Files
    BY <1>4 DEF EnterCreate, MakeDirectory, Files
<1>5. CASE WriteNew
  <2>1. thread[EventLoop].run \in Runs
    BY <1>0, <1>5 DEF WriteNew, Serving
  <2>2. meta[thread[EventLoop].run] = "dir" /\ Cardinality(InflightRuns) < MaxInflight
    BY <1>0, <1>5 DEF WriteNew, Calls, Relies, Room
  <2> QED
    BY <1>5, <2>1, <2>2 DEF WriteNew, Files
<1>6. ASSUME NEW r \in Runs, Reconcile(r) PROVE Files
  <2>1. <<meta[r], "failed">> \in ValidTransitions /\ "failed" \in Statuses
    BY <1>6 DEF Reconcile, MarkStale, ValidTransitions, Inflight, Statuses, Final
  <2> QED
    BY <1>6, <2>1 DEF Reconcile, MarkStale, Files
<1>7. ASSUME NEW t \in Threads, EnterUpdate(t) \/ DiskFault(t) PROVE UNCHANGED files
    BY <1>7 DEF EnterUpdate, CheckTransition, DiskFault
<1>8. ASSUME NEW r \in Runs, LoadPage(r) \/ Poll(r) PROVE UNCHANGED files
    BY <1>8 DEF LoadPage, Poll, ReadMeta
<1>9. ASSUME NEW w \in Workers, Take(w) \/ Simulate(w) PROVE UNCHANGED files
    BY <1>9 DEF Take, Simulate
<1>10. ASSUME \/ Submit \/ SubmitRaises \/ ReadReport \/ ReconcileFault \/ Serve
              \/ Stop \/ Exit \/ Crash \/ Restart \/ UNCHANGED vars
       PROVE  UNCHANGED files
    BY <1>10 DEF Submit, SubmitRaises, ReadReport, ReconcileFault, Serve, Stop, Exit,
                 Crash, Restart, vars
<1>11. CASE UNCHANGED files
    BY <1>11 DEF Files
<1> QED
    BY <1>1, <1>2, <1>3, <1>4, <1>5, <1>6, <1>7, <1>8, <1>9, <1>10, <1>11
    DEF Next, UpdateStatus

\* A report exists only after completion, and completion is never undone.
LEMMA ReportStep == IInv /\ Files => ReportOnlyForCompleted'
  BY DEF IInv, SafeInv, TypeOK, Files, ReportOnlyForCompleted, ValidTransitions

\* Only acceptance adds an inflight run, and it found room for one more.
LEMMA CapacityStep == IInv /\ Files => CapacityRespected'
<1> SUFFICES ASSUME IInv, Files PROVE Cardinality(InflightRuns') <= MaxInflight
    BY DEF CapacityRespected
<1> USE RunStoreAssumption DEF IInv, SafeInv, TypeOK, CapacityRespected
<1>1. IsFiniteSet(InflightRuns) /\ Cardinality(InflightRuns) \in Nat
    BY FS_Subset, FS_CardinalityType DEF InflightRuns
<1>2. CASE InflightRuns' \subseteq InflightRuns
  <2>1. Cardinality(InflightRuns') <= Cardinality(InflightRuns)
    BY <1>1, <1>2, FS_Subset
  <2>2. Cardinality(InflightRuns') \in Nat
    BY <1>1, <1>2, FS_Subset, FS_CardinalityType
  <2> QED
    BY <1>1, <2>1, <2>2
<1>3. ASSUME NEW r \in Runs, meta[r] = "dir", Cardinality(InflightRuns) < MaxInflight,
             meta' = [meta EXCEPT ![r] = "pending"]
      PROVE  Cardinality(InflightRuns') <= MaxInflight
  <2>1. InflightRuns' = InflightRuns \cup {r} /\ r \notin InflightRuns
    BY <1>3 DEF InflightRuns, Inflight
  <2>2. Cardinality(InflightRuns') = Cardinality(InflightRuns) + 1
    BY <1>1, <2>1, FS_AddElement
  <2> QED
    BY <1>1, <1>3, <2>2
<1>4. \/ InflightRuns' \subseteq InflightRuns
      \/ \E r \in Runs : /\ meta[r] = "dir"
                         /\ Cardinality(InflightRuns) < MaxInflight
                         /\ meta' = [meta EXCEPT ![r] = "pending"]
    BY DEF Files, InflightRuns, Inflight, ValidTransitions
<1> QED
    BY <1>2, <1>3, <1>4

LEMMA InitInv == Init => IInv
<1> SUFFICES ASSUME Init PROVE IInv
    OBVIOUS
<1>1. SafeInv
    BY SafeInit
<1>2. InflightRuns = {}
    BY DEF Init, InflightRuns, Inflight
<1>3. CapacityRespected
    BY <1>2, FS_EmptySet, RunStoreAssumption DEF CapacityRespected
<1>4. Room
    BY DEF Init, Room, Idle, Threads
<1> QED
    BY <1>1, <1>3, <1>4 DEF IInv

LEMMA InvStep == IInv /\ [Next]_vars => IInv'
  BY TypeStep, HeldStep, ServingStep, CallsStep, RoomStep, FileStep, ReportStep,
     CapacityStep DEF IInv, SafeInv

LEMMA Invariance == Spec => []IInv
  BY InitInv, InvStep, PTL DEF Spec

-----------------------------------------------------------------------------
\* Every variable of RunStore stays in its domain (web/run_store.py,
\* web/services.py and the routes, in every interleaving).
THEOREM TypeCorrect == Spec => []TypeOK
<1>1. IInv => TypeOK
    BY DEF IInv, SafeInv
<1> QED
    BY <1>1, Invariance, PTL

\* create_run never lets more than MaxInflight runs be pending or running,
\* however many runs, workers, faults and restarts there are.
THEOREM CapacityHolds == Spec => []CapacityRespected
<1>1. IInv => CapacityRespected
    BY DEF IInv
<1> QED
    BY <1>1, Invariance, PTL

\* report.md exists only beside a meta.json that says completed.
THEOREM ReportsOfCompletedRuns == Spec => []ReportOnlyForCompleted
<1>1. IInv => ReportOnlyForCompleted
    BY DEF IInv, SafeInv
<1> QED
    BY <1>1, Invariance, PTL

\* update_status and reconcile_stale_runs never change a completed or a
\* failed run: the transition check and the write are one critical section.
THEOREM FinalIsFinal == Spec => FinalStays
<1>1. IInv /\ [Next]_vars => [\A r \in Runs : meta[r] \in Final => meta'[r] = meta[r]]_vars
  <2> SUFFICES ASSUME IInv, [Next]_vars, NEW r \in Runs, meta[r] \in Final
               PROVE  meta'[r] = meta[r]
      OBVIOUS
  <2>1. Files
      BY FileStep
  <2> QED
      BY <2>1 DEF Files, Final, ValidTransitions, IInv, SafeInv, TypeOK
<1> QED
    BY <1>1, Invariance, PTL DEF Spec, FinalStays

\* The run store with its threads, faults and restarts implements the life
\* cycle of RunLifecycle: every step is a step of it, or leaves it alone.
THEOREM Refinement == Spec => ImplementsLifecycle
<1> DEFINE st == [r \in Runs |-> IF meta[r] = "dir" THEN "none" ELSE meta[r]]
<1>1. Init => Lifecycle!Init
    BY DEF Init, Lifecycle!Init
<1>2. ASSUME IInv, [Next]_vars PROVE [Lifecycle!Next]_(Lifecycle!lifecycle)
  <2> USE DEF Lifecycle!lifecycle, IInv, SafeInv, TypeOK
  <2>1. Files
      BY <1>2, FileStep
  <2>2. CASE UNCHANGED files
      BY <2>2
  <2>3. ASSUME NEW r \in Runs, meta[r] = "none", meta' = [meta EXCEPT ![r] = "dir"],
               UNCHANGED report
        PROVE  UNCHANGED Lifecycle!lifecycle
      BY <1>2, <2>3
  <2>4. ASSUME NEW r \in Runs, meta[r] = "dir", Cardinality(InflightRuns) < MaxInflight,
               meta' = [meta EXCEPT ![r] = "pending"], UNCHANGED report
        PROVE  Lifecycle!Accept(r)
    <3>1. {q \in Runs : st[q] \in {"pending", "running"}} = InflightRuns
        BY DEF InflightRuns, Inflight
    <3>2. Lifecycle!Cardinality(InflightRuns) = Cardinality(InflightRuns)
        BY DEF Lifecycle!Cardinality, Cardinality
    <3> QED
        BY <1>2, <2>4, <3>1, <3>2 DEF Lifecycle!Accept, Lifecycle!Move
  <2>5. ASSUME NEW r \in Runs, NEW s \in Statuses,
               <<meta[r], s>> \in ValidTransitions,
               meta' = [meta EXCEPT ![r] = s], UNCHANGED report
        PROVE  Lifecycle!Begin(r) \/ Lifecycle!Complete(r) \/ Lifecycle!Fail(r)
    <3>1. /\ st[r] = meta[r]
          /\ st' = [st EXCEPT ![r] = s]
        BY <1>2, <2>5 DEF ValidTransitions
    <3> QED
        BY <1>2, <2>5, <3>1 DEF ValidTransitions, Lifecycle!Begin, Lifecycle!Complete,
                                Lifecycle!Fail, Lifecycle!Move
  <2>6. ASSUME NEW r \in Runs, meta[r] = "completed", UNCHANGED meta,
               \E step \in {<<"absent", "partial">>, <<"partial", "whole">>} :
                 report[r] = step[1] /\ report' = [report EXCEPT ![r] = step[2]]
        PROVE  Lifecycle!Publish(r)
      BY <1>2, <2>6 DEF Lifecycle!Publish
  <2> QED
      BY <2>1, <2>2, <2>3, <2>4, <2>5, <2>6 DEF Files, Lifecycle!Next
<1> QED
    BY <1>1, <1>2, Invariance, PTL DEF Spec, ImplementsLifecycle, Lifecycle!Spec

-----------------------------------------------------------------------------
(* Who has to finish a run, and what a reader is told of it.               *)

USE DEF files, bounds

\* An idle thread has dropped its run.  Workers report the progress of the
\* run they were given; the event loop only ever reports failure, and reads
\* the report of a completed run only.
Errands ==
  /\ \A t \in Threads : thread[t].at = "idle" => thread[t] = Idle
  /\ \A w \in Workers :
       /\ thread[w].at \in {"update", "write_meta"} =>
            thread[w].status \in {"running"} \cup Final
       /\ thread[w].at \notin {"create", "submit"} \cup Reading
  /\ thread[EventLoop].at \in {"update", "write_meta"} =>
       thread[EventLoop].status = "failed"
  /\ thread[EventLoop].at \notin {"open_report", "fill_report", "simulate"}
  /\ thread[EventLoop].at \in Reading => meta[thread[EventLoop].run] = "completed"

\* meta.json of a run is there before anybody but its creator has the run.
Known ==
  /\ \A i \in DOMAIN queue : meta[queue[i]] \in Statuses
  /\ \A t \in Threads :
       thread[t].at \notin {"idle", "create"} => meta[thread[t].run] \in Statuses

\* No run is queued twice, with two workers, or queued and with a worker.
Once ==
  /\ \A i, j \in DOMAIN queue : queue[i] = queue[j] => i = j
  /\ \A v, w \in Workers : v # w /\ thread[v].at # "idle" => thread[v].run # thread[w].run
  /\ \A w \in Workers, i \in DOMAIN queue : thread[w].run # queue[i]

\* The run that is about to be submitted.
Fresh ==
  thread[EventLoop].at = "submit" =>
    /\ \A i \in DOMAIN queue : queue[i] # thread[EventLoop].run
    /\ \A w \in Workers : thread[w].run # thread[EventLoop].run

OInv == IInv /\ Errands /\ Known /\ Once /\ Fresh

\* Files change as Files says: what is written is never unwritten, and what
\* is completed or failed stays so.
LEMMA MetaStays ==
  ASSUME IInv, [Next]_vars, NEW r \in Runs
  PROVE  /\ meta[r] \in Statuses => meta'[r] \in Statuses
         /\ meta[r] \in Final => meta'[r] = meta[r]
<1>1. Files
    BY FileStep
<1> QED
    BY <1>1 DEF Files, Final, Inflight, Statuses, ValidTransitions, IInv, SafeInv, TypeOK

LEMMA ErrandsStep == IInv /\ Errands /\ [Next]_vars => Errands'
<1> SUFFICES ASSUME IInv, Errands, [Next]_vars PROVE Errands'
    OBVIOUS
<1> USE RunStoreAssumption DEF IInv, SafeInv, TypeOK, Errands, Reading
<1>0. EventLoop \in Threads /\ Workers \subseteq Threads /\ EventLoop \notin Workers
    BY DEF Threads
<1>m. \A r \in Runs : meta[r] = "completed" => meta'[r] = "completed"
    BY MetaStays DEF Final
<1>r. thread[EventLoop].at \in Reading => thread[EventLoop].run \in Runs
    BY <1>0 DEF Serving
<1>1. ASSUME NEW t \in Threads, EnterUpdate(t) PROVE Errands'
  <2>1. CASE <<meta[thread[t].run], thread[t].status>> \in ValidTransitions
    <3>1. thread' = [thread EXCEPT ![t] = At(t, "write_meta")] /\ thread[t].at = "update"
      BY <1>1, <2>1 DEF EnterUpdate, CheckTransition
    <3>2. thread'[t].at = "write_meta" /\ thread'[t].status = thread[t].status
      BY <3>1 DEF At
    <3>3. \A u \in Threads : u # t => thread'[u] = thread[u]
      BY <3>1
    <3>4. UNCHANGED meta
      BY <1>1 DEF EnterUpdate, CheckTransition
    <3> QED
      BY <1>0, <3>1, <3>2, <3>3, <3>4
  <2>2. CASE <<meta[thread[t].run], thread[t].status>> \notin ValidTransitions
    <3>1. /\ thread' = [thread EXCEPT ![t] = AfterRaise(t)] /\ UNCHANGED meta
      BY <1>1, <2>2 DEF EnterUpdate, CheckTransition
    <3>2. \A u \in Threads : u # t => thread'[u] = thread[u]
      BY <3>1
    <3>3. thread'[t] = AfterRaise(t)
      BY <3>1
    <3> QED
      BY <1>0, <3>1, <3>2, <3>3 DEF AfterRaise, Update, Idle, Final
  <2> QED
    BY <2>1, <2>2
<1>2. ASSUME NEW t \in Threads, WriteMeta(t) PROVE Errands'
    BY SMTT(30), <1>0, <1>2, <1>m, <1>r DEF WriteMeta, AfterReturn, At, Idle, Final
<1>3. ASSUME NEW t \in Threads, OpenReport(t) PROVE Errands'
    BY <1>0, <1>3 DEF OpenReport, At, Idle
<1>4. ASSUME NEW t \in Threads, FillReport(t) PROVE Errands'
    BY <1>0, <1>4 DEF FillReport, AfterReturn, At, Idle
<1>5. ASSUME NEW t \in Threads, DiskFault(t) PROVE Errands'
    BY <1>0, <1>5 DEF DiskFault, Locking, AfterRaise, Update, Idle, Final
<1>6. ASSUME NEW r \in Runs, EnterCreate(r) PROVE Errands'
    BY <1>0, <1>6 DEF EnterCreate, MakeDirectory, Idle
<1>7. ASSUME NEW r \in Runs, LoadPage(r) \/ Poll(r) PROVE Errands'
    BY SMTT(30), <1>0, <1>7 DEF LoadPage, Poll, ReadMeta, Idle
<1>8. ASSUME NEW r \in Runs, Reconcile(r) PROVE Errands'
    BY <1>0, <1>8, <1>m, <1>r DEF Reconcile, MarkStale
<1>9. CASE WriteNew
    BY <1>0, <1>9 DEF WriteNew, At, Idle
<1>10. CASE Submit \/ SubmitRaises \/ ReadReport
  <2>1. \/ thread' = [thread EXCEPT ![EventLoop] = Idle]
        \/ thread' = [thread EXCEPT ![EventLoop] = Update(thread[EventLoop].run, "failed")]
    BY <1>10 DEF Submit, SubmitRaises, ReadReport
  <2>2. UNCHANGED meta
    BY <1>10 DEF Submit, SubmitRaises, ReadReport
  <2> QED
    BY <1>0, <2>1, <2>2 DEF Update, Idle
<1>11. ASSUME NEW w \in Workers, Take(w) \/ Simulate(w) PROVE Errands'
    BY <1>0, <1>11 DEF Take, Simulate, Update, Idle, Final
<1>12. CASE ReconcileFault \/ Serve \/ Stop \/ Exit \/ Restart \/ UNCHANGED vars
    BY <1>0, <1>12 DEF ReconcileFault, Serve, Stop, Exit, Restart, vars
<1>13. CASE Crash
    BY <1>0, <1>13 DEF Crash, Idle
<1> QED
    BY <1>1, <1>2, <1>3, <1>4, <1>5, <1>6, <1>7, <1>8, <1>9, <1>10, <1>11,
       <1>12, <1>13 DEF Next, UpdateStatus

\* All that a step may do to the runs that are queued or with a worker: a
\* worker keeps or drops its run, takes the oldest of the queue, the run at
\* hand is queued, or all are lost.
Handover ==
  \/ /\ UNCHANGED queue
     /\ \A w \in Workers : thread'[w].run \in {thread[w].run, NoRun}
  \/ /\ queue # <<>> /\ queue' = Tail(queue)
     /\ \E w \in Workers : thread' = [thread EXCEPT ![w] = Update(Head(queue), "running")]
  \/ /\ thread[EventLoop].at = "submit" /\ thread'[EventLoop].at # "submit"
     /\ queue' = Append(queue, thread[EventLoop].run)
     /\ \A w \in Workers : thread'[w] = thread[w]
  \/ /\ queue' = <<>> /\ thread' = [t \in Threads |-> Idle]
     /\ server' = "crashed"

LEMMA HandoverStep == IInv /\ [Next]_vars => Handover
<1> SUFFICES ASSUME IInv, [Next]_vars PROVE Handover
    OBVIOUS
<1> USE RunStoreAssumption DEF IInv, SafeInv, TypeOK
<1>0. EventLoop \in Threads /\ Workers \subseteq Threads /\ EventLoop \notin Workers
    BY DEF Threads
<1> DEFINE Quiet == /\ UNCHANGED queue
                    /\ \A w \in Workers : thread'[w].run \in {thread[w].run, NoRun}
<1>1. ASSUME NEW t \in Threads, UpdateStatus(t) \/ DiskFault(t) PROVE Quiet
  <2>1. /\ UNCHANGED queue
        /\ \E m \in Moments : thread' \in {[thread EXCEPT ![t] = At(t, m)],
                                           [thread EXCEPT ![t] = AfterReturn(t)],
                                           [thread EXCEPT ![t] = AfterRaise(t)]}
    BY <1>1 DEF UpdateStatus, EnterUpdate, CheckTransition, WriteMeta, OpenReport, FillReport,
                DiskFault, Moments, Working, Locking
  <2>2. /\ \A m \in Moments : At(t, m).run = thread[t].run
        /\ AfterReturn(t).run \in {thread[t].run, NoRun}
        /\ AfterRaise(t).run \in {thread[t].run, NoRun}
    BY DEF At, AfterReturn, AfterRaise, Update, Idle
  <2> QED
    BY <1>0, <2>1, <2>2
<1>2. ASSUME NEW r \in Runs, EnterCreate(r) \/ LoadPage(r) \/ Poll(r) \/ Reconcile(r) PROVE Quiet
    BY <1>0, <1>2 DEF EnterCreate, MakeDirectory, LoadPage, Poll, ReadMeta, Reconcile, MarkStale
<1>3. CASE WriteNew \/ ReadReport
    BY <1>0, <1>3 DEF WriteNew, ReadReport, Handover
<1>4. CASE Submit
    BY <1>0, <1>4 DEF Submit, Idle, Handover
<1>5. CASE SubmitRaises
    BY <1>0, <1>5 DEF SubmitRaises, Update, Handover
<1>6. ASSUME NEW w \in Workers, Take(w) PROVE Handover
    BY <1>6 DEF Take, Handover
<1>7. ASSUME NEW w \in Workers, Simulate(w) PROVE Quiet
    BY <1>0, <1>7 DEF Simulate, Update
<1>8. CASE ReconcileFault \/ Serve \/ Stop \/ Exit \/ Restart \/ UNCHANGED vars
    BY <1>8 DEF ReconcileFault, Serve, Stop, Exit, Restart, vars, Handover
<1>9. CASE Crash
    BY <1>9 DEF Crash, Handover
<1>10. CASE Quiet
    BY <1>10 DEF Handover
<1> QED
    BY <1>1, <1>2, <1>3, <1>4, <1>5, <1>6, <1>7, <1>8, <1>9, <1>10 DEF Next

\* Whoever is given a run finds its meta.json there.
LEMMA KnownStep == OInv /\ [Next]_vars => Known'
<1> SUFFICES ASSUME OInv, [Next]_vars PROVE Known'
    OBVIOUS
<1> USE RunStoreAssumption DEF OInv, IInv, SafeInv, TypeOK
<1>0. EventLoop \in Threads /\ Workers \subseteq Threads /\ EventLoop \notin Workers
    BY DEF Threads
<1>s. \A r \in Runs : meta[r] \in Statuses => meta'[r] \in Statuses
    BY MetaStays
<1>q. ASSUME NEW i \in DOMAIN queue' PROVE meta'[queue'[i]] \in Statuses
  <2>1. \A j \in DOMAIN queue : queue[j] \in Runs /\ meta[queue[j]] \in Statuses
    BY DEF Known
  <2>2. CASE queue' = queue
    BY <1>s, <1>q, <2>1, <2>2
  <2>3. CASE queue # <<>> /\ queue' = Tail(queue)
    BY <1>s, <1>q, <2>1, <2>3
  <2>4. CASE thread[EventLoop].at = "submit" /\ queue' = Append(queue, thread[EventLoop].run)
    <3>1. thread[EventLoop].run \in Runs /\ meta[thread[EventLoop].run] \in Statuses
      BY <1>0, <2>4 DEF Known, Serving
    <3> QED
      BY <1>s, <1>q, <2>1, <2>4, <3>1
  <2>5. CASE queue' = <<>>
    BY <1>q, <2>5
  <2> QED
    BY HandoverStep, <2>2, <2>3, <2>4, <2>5 DEF Handover
<1>t. ASSUME NEW u \in Threads, thread'[u].at \notin {"idle", "create"}
      PROVE  meta'[thread'[u].run] \in Statuses
  <2> DEFINE Goal == meta'[thread'[u].run] \in Statuses
  <2>a. ASSUME thread'[u].run = thread[u].run, thread[u].at \notin {"idle", "create"} PROVE Goal
    BY <1>s, <2>a DEF Known, Serving
  <2>1. ASSUME NEW t \in Threads, EnterUpdate(t) \/ WriteMeta(t) \/ OpenReport(t) \/ FillReport(t) PROVE Goal
    <3>1. thread'[u].run = thread[u].run /\ thread[u].at \notin {"idle", "create"}
      BY <1>0, <1>t, <2>1 DEF EnterUpdate, CheckTransition, WriteMeta, OpenReport, FillReport,
                              AfterReturn, AfterRaise, Update, At, Idle
    <3> QED
      BY <2>a, <3>1
  <2>2. ASSUME NEW t \in Threads, DiskFault(t) PROVE Goal
    <3>1. thread'[u].run = thread[u].run /\ thread[u].at \notin {"idle", "create"}
      <4>1. CASE u # t
        BY <1>t, <2>2, <4>1 DEF DiskFault
      <4>2. CASE u = t /\ t \in Workers
        BY <1>0, <1>t, <2>2, <4>2 DEF DiskFault, AfterRaise, Update, Idle, Locking, Errands
      <4>3. CASE u = t /\ t \notin Workers
        BY <1>0, <1>t, <2>2, <4>3 DEF DiskFault, AfterRaise, Idle
      <4> QED
        BY <4>1, <4>2, <4>3
    <3> QED
      BY <2>a, <3>1
  <2>3. ASSUME NEW r \in Runs, EnterCreate(r) PROVE Goal
    BY <1>0, <1>t, <2>3, <2>a DEF EnterCreate, MakeDirectory
  <2>4. ASSUME NEW r \in Runs, LoadPage(r) \/ Poll(r) PROVE Goal
    <3>1. thread'[u] = thread[u] \/ (thread'[u].run = r /\ meta[r] \in Statuses)
      BY <1>0, <2>4 DEF LoadPage, Poll, ReadMeta
    <3> QED
      BY <1>s, <1>t, <2>a, <3>1
  <2>5. CASE WriteNew
    <3>1. thread[EventLoop].run \in Runs /\ meta'[thread[EventLoop].run] = "pending"
      BY <1>0, <2>5 DEF WriteNew, Serving
    <3>2. CASE u = EventLoop
      BY <1>0, <2>5, <3>1, <3>2 DEF WriteNew, At, Statuses, Inflight
    <3>3. CASE u # EventLoop
      BY <1>0, <1>t, <2>5, <2>a, <3>3 DEF WriteNew
    <3> QED
      BY <3>2, <3>3
  <2>6. CASE Submit \/ SubmitRaises \/ ReadReport
    BY <1>0, <1>t, <2>6, <2>a DEF Submit, SubmitRaises, ReadReport, Update, Idle
  <2>7. ASSUME NEW w \in Workers, Take(w) PROVE Goal
    <3>1. 1 \in DOMAIN queue /\ Head(queue) = queue[1]
      BY <2>7 DEF Take
    <3>2. queue[1] \in Runs /\ meta'[queue[1]] \in Statuses
      BY <1>s, <3>1 DEF Known
    <3>3. CASE u = w
      BY <1>0, <2>7, <3>1, <3>2, <3>3 DEF Take, Update
    <3>4. CASE u # w
      BY <1>0, <1>t, <2>7, <2>a, <3>4 DEF Take
    <3> QED
      BY <3>3, <3>4
  <2>8. ASSUME NEW w \in Workers, Simulate(w) PROVE Goal
    BY <1>0, <1>t, <2>8, <2>a DEF Simulate, Update
  <2>9. ASSUME \/ \E r \in Runs : Reconcile(r)
               \/ ReconcileFault \/ Serve \/ Stop \/ Exit \/ Restart \/ UNCHANGED vars
        PROVE  Goal
    BY <1>t, <2>9, <2>a DEF Reconcile, MarkStale, ReconcileFault, Serve, Stop, Exit, Restart, vars
  <2>10. CASE Crash
    BY <1>t, <2>10 DEF Crash, Idle
  <2> QED
    BY <2>1, <2>2, <2>3, <2>4, <2>5, <2>6, <2>7, <2>8, <2>9, <2>10 DEF Next, UpdateStatus
<1> QED
    BY <1>q, <1>t DEF Known

\* A run is only ever handed on: what a worker takes leaves the queue, and
\* what is queued was with nobody.
LEMMA OnceStep == OInv /\ [Next]_vars => Once'
<1> SUFFICES ASSUME OInv, [Next]_vars PROVE Once'
    OBVIOUS
<1> USE RunStoreAssumption DEF OInv, IInv, SafeInv, TypeOK
<1>0. EventLoop \in Threads /\ Workers \subseteq Threads /\ EventLoop \notin Workers
    BY DEF Threads
<1>q. \A i \in DOMAIN queue : queue[i] \in Runs /\ queue[i] # NoRun
    OBVIOUS
<1>i. \A w \in Workers : /\ thread[w].at = "idle" => thread[w].run = NoRun
                         /\ thread[w].at # "idle" => thread[w].run \in Runs
    BY <1>0 DEF Errands, Idle, Serving
<1>j. \A w \in Workers : thread'[w].at # "idle" => thread'[w].run \in Runs
    BY <1>0, ServingStep DEF Serving
<1>1. CASE UNCHANGED queue /\ \A w \in Workers : thread'[w].run \in {thread[w].run, NoRun}
    BY <1>1, <1>q, <1>i, <1>j DEF Once
<1>2. ASSUME queue # <<>>, queue' = Tail(queue), NEW w \in Workers,
             thread' = [thread EXCEPT ![w] = Update(Head(queue), "running")]
      PROVE  Once'
  <2>1. /\ DOMAIN queue = 1..Len(queue) /\ Len(queue) \in Nat \ {0}
        /\ DOMAIN queue' = 1..(Len(queue) - 1)
        /\ \A i \in DOMAIN queue' : queue'[i] = queue[i + 1]
        /\ Head(queue) = queue[1]
    BY <1>2, HeadTailProperties, LenProperties
  <2>2. /\ \A i \in DOMAIN queue' : i + 1 \in DOMAIN queue /\ i + 1 # 1
        /\ 1 \in DOMAIN queue
    BY <2>1
  <2>3. \A i, j \in DOMAIN queue' : queue'[i] = queue'[j] => i = j
    BY <2>1, <2>2 DEF Once
  <2>4. thread'[w].run = queue[1]
    BY <1>0, <1>2, <2>1 DEF Update
  <2>5. \A v \in Workers : v # w => thread'[v] = thread[v] /\ thread'[v].run # queue[1]
    BY <1>0, <1>2, <2>2 DEF Once
  <2>6. \A v \in Workers, i \in DOMAIN queue' : thread'[v].run # queue'[i]
    <3> SUFFICES ASSUME NEW v \in Workers, NEW i \in DOMAIN queue' PROVE thread'[v].run # queue'[i]
        OBVIOUS
    <3>1. CASE v = w
      BY <2>1, <2>2, <2>4, <3>1 DEF Once
    <3>2. CASE v # w
      BY <2>1, <2>2, <2>5, <3>2 DEF Once
    <3> QED
      BY <3>1, <3>2
  <2>7. \A u, v \in Workers : u # v /\ thread'[u].at # "idle" => thread'[u].run # thread'[v].run
    BY <2>4, <2>5 DEF Once
  <2> QED
    BY <2>3, <2>6, <2>7 DEF Once
<1>3. ASSUME thread[EventLoop].at = "submit", queue' = Append(queue, thread[EventLoop].run),
             \A w \in Workers : thread'[w] = thread[w]
      PROVE  Once'
  <2>1. thread[EventLoop].run \in Runs
    BY <1>0, <1>3 DEF Serving
  <2>2. /\ DOMAIN queue' = DOMAIN queue \cup {Len(queue) + 1}
        /\ \A i \in DOMAIN queue : queue'[i] = queue[i]
        /\ queue'[Len(queue) + 1] = thread[EventLoop].run
    BY <1>3, <2>1, AppendProperties, LenProperties
  <2>3. /\ \A i \in DOMAIN queue : queue[i] # thread[EventLoop].run
        /\ \A w \in Workers : thread[w].run # thread[EventLoop].run
    BY <1>3 DEF Fresh
  <2>4. \A i, j \in DOMAIN queue' : queue'[i] = queue'[j] => i = j
    BY <2>2, <2>3 DEF Once
  <2>5. \A w \in Workers, i \in DOMAIN queue' : thread'[w].run # queue'[i]
    BY <1>3, <2>2, <2>3 DEF Once
  <2> QED
    BY <1>3, <2>4, <2>5 DEF Once
<1>4. CASE queue' = <<>> /\ thread' = [t \in Threads |-> Idle]
    BY <1>0, <1>4 DEF Once, Idle
<1> QED
    BY HandoverStep, <1>1, <1>2, <1>3, <1>4 DEF Handover

\* The run at hand has a directory but no meta.json until it is submitted,
\* so nobody else can have it.
LEMMA FreshStep == OInv /\ [Next]_vars => Fresh'
<1> SUFFICES ASSUME OInv, [Next]_vars, thread'[EventLoop].at = "submit"
             PROVE  /\ \A i \in DOMAIN queue' : queue'[i] # thread'[EventLoop].run
                    /\ \A w \in Workers : thread'[w].run # thread'[EventLoop].run
    BY DEF Fresh
<1> USE RunStoreAssumption DEF OInv, IInv, SafeInv, TypeOK
<1>0. EventLoop \in Threads /\ Workers \subseteq Threads /\ EventLoop \notin Workers
    BY DEF Threads
<1> DEFINE r == thread[EventLoop].run
<1>1. /\ thread[EventLoop].at \in {"create", "submit"}
      /\ thread'[EventLoop].run = r
  <2>1. ASSUME NEW t \in Threads, UpdateStatus(t) \/ DiskFault(t) PROVE UNCHANGED thread[EventLoop]
    BY <1>0, <2>1 DEF UpdateStatus, EnterUpdate, CheckTransition, WriteMeta, OpenReport, FillReport,
                      DiskFault, AfterReturn, AfterRaise, Update, At, Idle
  <2>2. ASSUME NEW q \in Runs, EnterCreate(q) \/ LoadPage(q) \/ Poll(q) \/ Reconcile(q)
        PROVE  UNCHANGED thread[EventLoop]
    BY <1>0, <2>2 DEF EnterCreate, MakeDirectory, LoadPage, Poll, ReadMeta, Reconcile, MarkStale
  <2>3. CASE WriteNew
    BY <1>0, <2>3 DEF WriteNew, At
  <2>4. ASSUME Submit \/ SubmitRaises \/ ReadReport \/ Crash PROVE FALSE
    BY <1>0, <2>4 DEF Submit, SubmitRaises, ReadReport, Crash, Update, Idle
  <2>5. ASSUME \/ \E w \in Workers : Take(w) \/ Simulate(w)
               \/ ReconcileFault \/ Serve \/ Stop \/ Exit \/ Restart \/ UNCHANGED vars
        PROVE  UNCHANGED thread[EventLoop]
    BY <1>0, <2>5 DEF Take, Simulate, ReconcileFault, Serve, Stop, Exit, Restart, vars
  <2> QED
    BY <2>1, <2>2, <2>3, <2>4, <2>5 DEF Next
<1>2. /\ \A i \in DOMAIN queue : queue[i] # r
      /\ \A w \in Workers : thread[w].run # r
  <2>1. CASE thread[EventLoop].at = "submit"
    BY <2>1 DEF Fresh
  <2>2. CASE thread[EventLoop].at = "create"
    <3>1. r \in Runs /\ meta[r] \notin Statuses
      BY <1>0, <2>2 DEF Serving, Calls, Relies, Statuses, Inflight, Final
    <3>2. \A w \in Workers : thread[w].at = "idle" => thread[w].run = NoRun
      BY <1>0 DEF Errands, Idle
    <3> QED
      BY <1>0, <3>1, <3>2 DEF Known, Errands
  <2> QED
    BY <1>1, <2>1, <2>2
<1>3. r \in Runs
    BY <1>0, <1>1 DEF Serving
<1>4. CASE UNCHANGED queue /\ \A w \in Workers : thread'[w].run \in {thread[w].run, NoRun}
    BY <1>1, <1>2, <1>3, <1>4
<1>5. ASSUME queue # <<>>, queue' = Tail(queue), NEW w \in Workers,
             thread' = [thread EXCEPT ![w] = Update(Head(queue), "running")]
      PROVE  /\ \A i \in DOMAIN queue' : queue'[i] # r
             /\ \A v \in Workers : thread'[v].run # r
  <2>1. /\ \A i \in DOMAIN queue' : i + 1 \in DOMAIN queue /\ queue'[i] = queue[i + 1]
        /\ 1 \in DOMAIN queue /\ Head(queue) = queue[1]
    BY <1>5, HeadTailProperties, LenProperties
  <2> QED
    BY <1>0, <1>2, <1>5, <2>1 DEF Update
<1>6. CASE queue' = <<>> /\ thread' = [t \in Threads |-> Idle]
    BY <1>0, <1>3, <1>6 DEF Idle
<1> QED
    BY HandoverStep, <1>1, <1>4, <1>5, <1>6 DEF Handover

LEMMA Ownership == Spec => []OInv
<1>1. Init => OInv
  <2> SUFFICES ASSUME Init PROVE OInv
      OBVIOUS
  <2>1. IInv
      BY InitInv
  <2>2. EventLoop \in Threads /\ Workers \subseteq Threads
      BY DEF Threads
  <2> QED
      BY <2>1, <2>2 DEF Init, OInv, Errands, Known, Once, Fresh, Idle, Reading
<1>2. OInv /\ [Next]_vars => OInv'
    BY InvStep, ErrandsStep, KnownStep, OnceStep, FreshStep DEF OInv
<1> QED
    BY <1>1, <1>2, PTL DEF Spec

-----------------------------------------------------------------------------
\* A set whose elements are all equal has at most one.
LEMMA AtMostOne ==
  ASSUME NEW S, \A x, y \in S : x = y
  PROVE  /\ Cardinality(S) \in {0, 1}
         /\ S = {} => Cardinality(S) = 0
<1>1. CASE S = {}
    BY <1>1, FS_EmptySet
<1>2. CASE S # {}
  <2>1. PICK x \in S : TRUE
      BY <1>2
  <2>2. S = {x}
      BY <2>1
  <2> QED
      BY <2>2, <1>2, FS_Singleton
<1> QED
    BY <1>1, <1>2

\* run_simulation_background never runs twice for a run: no run is handed to
\* two workers, or queued again while one has it, for any number of workers.
THEOREM RunsExecutedOnce == Spec => []ExecutedOnce
<1>1. OInv => ExecutedOnce
  <2> SUFFICES ASSUME OInv, NEW r \in Runs
               PROVE  Cardinality({w \in Workers : thread[w].run = r})
                        + Cardinality({i \in DOMAIN queue : queue[i] = r}) <= 1
      BY DEF ExecutedOnce
  <2> USE RunStoreAssumption DEF OInv
  <2> DEFINE Having == {w \in Workers : thread[w].run = r}
             Places == {i \in DOMAIN queue : queue[i] = r}
  <2>1. \A v, w \in Having : v = w
    <3>1. \A w \in Workers : thread[w].at = "idle" => thread[w].run # r
        BY DEF Errands, Idle, Threads
    <3> QED
        BY <3>1 DEF Once
  <2>2. \A i, j \in Places : i = j
      BY DEF Once
  <2>3. Having = {} \/ Places = {}
      BY DEF Once
  <2> HIDE DEF Having, Places
  <2>4. Cardinality(Having) + Cardinality(Places) <= 1
      BY <2>1, <2>2, <2>3, AtMostOne
  <2> QED
      BY <2>4 DEF Having, Places
<1> QED
    BY <1>1, Ownership, PTL

\* A final status that the pages of routes/pages.py show, which read meta.json
\* without the lock, is the status the run keeps.
THEOREM PagesStayTrue == Spec => []PageNotContradicted
<1>1. Init => PageNotContradicted
    BY DEF Init, PageNotContradicted, NoPage, Final
<1>2. ASSUME OInv, PageNotContradicted, [Next]_vars PROVE PageNotContradicted'
  <2> SUFFICES ASSUME NEW r \in Runs, page'[r].status \in Final
               PROVE  meta'[r] = page'[r].status
      BY DEF PageNotContradicted
  <2> USE <1>2 DEF OInv, IInv, SafeInv, TypeOK
  <2>0. EventLoop \in Threads
      BY DEF Threads
  <2>1. meta[r] \in Final => meta'[r] = meta[r]
      BY MetaStays
  <2>2. CASE UNCHANGED page
      BY <2>1, <2>2 DEF PageNotContradicted
  <2>3. ASSUME NEW q \in Runs, LoadPage(q) \/ Poll(q) PROVE meta'[r] = page'[r].status
    <3>1. page'[r] = page[r] \/ (page'[r].status = meta[r])
        BY <2>3 DEF LoadPage, Poll, ReadMeta
    <3> QED
        BY <2>1, <3>1 DEF PageNotContradicted
  <2>4. CASE ReadReport
    <3>1. meta[thread[EventLoop].run] = "completed"
        BY <2>4 DEF ReadReport, Errands
    <3>2. page'[r] = page[r] \/ (r = thread[EventLoop].run /\ page'[r].status = "completed")
        BY <2>4 DEF ReadReport
    <3> QED
        BY <2>1, <3>1, <3>2 DEF PageNotContradicted, Final
  <2> QED
      BY <2>2, <2>3, <2>4 DEF Next, UpdateStatus, EnterUpdate, CheckTransition, WriteMeta,
         OpenReport, FillReport, DiskFault, EnterCreate, MakeDirectory, Reconcile, MarkStale,
         WriteNew, Submit, SubmitRaises, Take, Simulate, ReconcileFault, Serve, Stop, Exit,
         Crash, Restart, vars
<1> QED
    BY <1>1, <1>2, Ownership, PTL DEF Spec

LEMMA SumGrows ==
  \A a, b, c, d \in Nat : c >= a /\ d >= b /\ a + b > 0 => c + d > 0
  OBVIOUS

\* Faults and stops are only ever counted up.
LEMMA Monotone ==
  ASSUME TypeOK, [Next]_vars
  PROVE  faults' >= faults /\ stops' >= stops
<1> USE RunStoreAssumption DEF TypeOK
<1>1. ASSUME NEW t \in Threads, UpdateStatus(t) \/ DiskFault(t) PROVE faults' >= faults /\ stops' >= stops
    BY <1>1 DEF UpdateStatus, EnterUpdate, CheckTransition, WriteMeta, OpenReport, FillReport, DiskFault
<1>2. ASSUME NEW r \in Runs, EnterCreate(r) \/ LoadPage(r) \/ Poll(r) \/ Reconcile(r)
      PROVE  UNCHANGED bounds
    BY <1>2 DEF EnterCreate, MakeDirectory, LoadPage, Poll, ReadMeta, Reconcile, MarkStale
<1>3. CASE WriteNew \/ Submit \/ SubmitRaises \/ ReadReport \/ ReconcileFault
    BY <1>3 DEF WriteNew, Submit, SubmitRaises, ReadReport, ReconcileFault
<1>4. ASSUME NEW w \in Workers, Take(w) \/ Simulate(w) PROVE UNCHANGED bounds
    BY <1>4 DEF Take, Simulate
<1>5. CASE Serve \/ Stop \/ Exit \/ Crash \/ Restart \/ UNCHANGED vars
    BY <1>5 DEF Serve, Stop, Exit, Crash, Restart, vars
<1> QED
    BY <1>1, <1>2, <1>3, <1>4, <1>5 DEF Next

\* update_status writes meta.json before report.md: as long as no file
\* operation has failed and no server was stopped or killed, a completed run is
\* without its report only while its worker is between the two.
THEOREM ReportsFollow == Spec => []CompletedHasReport
<1>1. Init => CompletedHasReport
    BY DEF Init, CompletedHasReport
<1>2. ASSUME OInv, CompletedHasReport, [Next]_vars PROVE CompletedHasReport'
  <2> DEFINE Writing(r) == \E w \in Workers : /\ thread[w].run = r
                                             /\ thread[w].at \in {"open_report", "fill_report"}
  <2> SUFFICES ASSUME NEW r \in Runs, meta'[r] = "completed", report'[r] # "whole"
               PROVE  Writing(r)' \/ faults' + stops' > 0
      BY DEF CompletedHasReport
  <2> USE <1>2, RunStoreAssumption DEF OInv, IInv, SafeInv, TypeOK
  <2>0. EventLoop \in Threads /\ Workers \subseteq Threads /\ EventLoop \notin Workers
      BY DEF Threads
  <2>1. faults \in Nat /\ stops \in Nat /\ faults' \in Nat /\ stops' \in Nat
           /\ faults' >= faults /\ stops' >= stops
      BY TypeStep, Monotone
  <2>k. ASSUME meta[r] = "completed", report[r] # "whole",
               \A w \in Workers : thread[w].run = r /\ thread[w].at \in {"open_report", "fill_report"}
                                  => thread'[w] = thread[w]
        PROVE  Writing(r)' \/ faults' + stops' > 0
    <3>1. CASE faults + stops > 0
        BY <2>1, <3>1, SumGrows
    <3>2. CASE ~(faults + stops > 0)
      <4>1. PICK w \in Workers : thread[w].run = r /\ thread[w].at \in {"open_report", "fill_report"}
          BY <2>k, <3>2 DEF CompletedHasReport
      <4>2. thread'[w] = thread[w]
          BY <2>k, <4>1
      <4> QED
          BY <4>1, <4>2
    <3> QED
        BY <3>1, <3>2
  <2>2. ASSUME NEW t \in Threads, WriteMeta(t) PROVE Writing(r)' \/ faults' + stops' > 0
    <3>1. thread[t].run \in Runs
        BY <2>2 DEF WriteMeta, Serving
    <3>2. CASE r = thread[t].run
      <4>1. thread[t].status = "completed" /\ t \in Workers
          BY <2>2, <3>2 DEF WriteMeta, Errands, Threads
      <4> QED
          BY <2>0, <2>2, <3>2, <4>1 DEF WriteMeta, At
    <3>3. CASE r # thread[t].run
      <4>1. meta[r] = "completed" /\ report[r] # "whole"
          BY <2>2, <3>1, <3>3 DEF WriteMeta
      <4>2. \A w \in Workers : w # t => thread'[w] = thread[w]
          BY <2>0, <2>2 DEF WriteMeta
      <4> QED
          BY <3>3, <4>1, <4>2, <2>k
    <3> QED
        BY <3>2, <3>3
  <2>3. ASSUME NEW t \in Threads, OpenReport(t) PROVE Writing(r)' \/ faults' + stops' > 0
    <3>1. CASE r = thread[t].run
      <4>1. t \in Workers
          BY <2>3 DEF OpenReport, Errands, Threads
      <4> QED
          BY <2>0, <2>3, <3>1, <4>1 DEF OpenReport, At
    <3>2. CASE r # thread[t].run
        BY <2>3, <3>2, <2>k DEF OpenReport
    <3> QED
        BY <3>1, <3>2
  <2>4. ASSUME NEW t \in Threads, FillReport(t) PROVE Writing(r)' \/ faults' + stops' > 0
    <3>1. r # thread[t].run
        BY <2>4 DEF FillReport
    <3> QED
        BY <2>4, <3>1, <2>k DEF FillReport
  <2>5. ASSUME NEW t \in Threads, DiskFault(t) PROVE faults' + stops' > 0
      BY <2>1, <2>5 DEF DiskFault
  <2>6. CASE Crash
      BY <2>1, <2>6 DEF Crash
  <2>7. ASSUME NEW t \in Threads, EnterUpdate(t) PROVE Writing(r)' \/ faults' + stops' > 0
    <3>1. meta[r] = "completed" /\ report[r] # "whole" /\ thread[t].at = "update"
        BY <2>7 DEF EnterUpdate, CheckTransition
    <3>2. \A w \in Workers : w # t => thread'[w] = thread[w]
        BY <2>0, <2>7 DEF EnterUpdate, CheckTransition
    <3> QED
        BY <3>1, <3>2, <2>k
  <2>8. ASSUME NEW q \in Runs, EnterCreate(q) \/ LoadPage(q) \/ Poll(q) \/ Reconcile(q)
        PROVE  Writing(r)' \/ faults' + stops' > 0
    <3>1. meta[r] = "completed" /\ UNCHANGED report
        BY <2>8 DEF EnterCreate, MakeDirectory, LoadPage, Poll, ReadMeta, Reconcile, MarkStale
    <3>2. \A w \in Workers : thread'[w] = thread[w]
        BY <2>0, <2>8 DEF EnterCreate, MakeDirectory, LoadPage, Poll, ReadMeta, Reconcile, MarkStale
    <3> QED
        BY <3>1, <3>2, <2>k
  <2>9. CASE WriteNew \/ Submit \/ SubmitRaises \/ ReadReport
    <3>1. meta[r] = "completed" /\ UNCHANGED report
        BY <2>9 DEF WriteNew, Submit, SubmitRaises, ReadReport
    <3>2. \A w \in Workers : thread'[w] = thread[w]
        BY <2>0, <2>9 DEF WriteNew, Submit, SubmitRaises, ReadReport
    <3> QED
        BY <3>1, <3>2, <2>k
  <2>10. ASSUME NEW w \in Workers, Take(w) \/ Simulate(w)
         PROVE  Writing(r)' \/ faults' + stops' > 0
    <3>1. thread[w].at \notin {"open_report", "fill_report"}
        BY <2>10 DEF Take, Simulate, Idle
    <3>2. meta[r] = "completed" /\ report[r] # "whole"
        BY <2>10 DEF Take, Simulate
    <3>3. \A v \in Workers : v # w => thread'[v] = thread[v]
        BY <2>0, <2>10 DEF Take, Simulate
    <3> QED
        BY <3>1, <3>2, <3>3, <2>k
  <2>11. CASE ReconcileFault \/ Serve \/ Stop \/ Exit \/ Restart \/ UNCHANGED vars
      BY <2>11, <2>k DEF ReconcileFault, Serve, Stop, Exit, Restart, vars
  <2> QED
      BY <2>2, <2>3, <2>4, <2>5, <2>6, <2>7, <2>8, <2>9, <2>10, <2>11 DEF Next, UpdateStatus
<1> QED
    BY <1>1, <1>2, Ownership, PTL DEF Spec

-----------------------------------------------------------------------------
\* Every step but a failure of the disk and a kill hands an inflight run that
\* is owned on to an owner, or ends it.
LEMMA HandedOn ==
  ASSUME OInv, [Next]_vars, server' # "crashed",
         NEW r \in Runs, meta[r] \in Inflight, meta'[r] \in Inflight, Owned(r),
         \A t \in Threads : thread[t].run = r => ~DiskFault(t)
  PROVE  Owned(r)'
<1> USE RunStoreAssumption DEF OInv, IInv, SafeInv, TypeOK
<1>0. EventLoop \in Threads /\ Workers \subseteq Threads /\ EventLoop \notin Workers
    BY DEF Threads
<1>k. ASSUME NEW u \in Threads, thread'[u].run = r, thread'[u].at \in Working PROVE Owned(r)'
    BY <1>k DEF Owned
<1>1. ASSUME NEW i \in DOMAIN queue, queue[i] = r PROVE Owned(r)'
  <2>1. CASE UNCHANGED queue
      BY <1>1, <2>1 DEF Owned
  <2>2. ASSUME queue # <<>>, queue' = Tail(queue), NEW w \in Workers,
               thread' = [thread EXCEPT ![w] = Update(Head(queue), "running")]
        PROVE  Owned(r)'
    <3>1. /\ DOMAIN queue = 1..Len(queue) /\ DOMAIN queue' = 1..(Len(queue) - 1)
          /\ Len(queue) \in Nat
          /\ \A j \in DOMAIN queue' : queue'[j] = queue[j + 1]
          /\ Head(queue) = queue[1]
        BY <2>2, HeadTailProperties, LenProperties
    <3>2. CASE i = 1
      <4>1. thread'[w].run = r /\ thread'[w].at \in Working
          BY <1>0, <1>1, <2>2, <3>1, <3>2 DEF Update, Working
      <4> QED
          BY <1>0, <1>k, <4>1
    <3>3. CASE i # 1
      <4>1. i - 1 \in DOMAIN queue' /\ queue'[i - 1] = queue[i]
          BY <3>1, <3>3
      <4> QED
          BY <1>1, <4>1 DEF Owned
    <3> QED
        BY <3>2, <3>3
  <2>3. CASE thread[EventLoop].at = "submit" /\ queue' = Append(queue, thread[EventLoop].run)
    <3>1. thread[EventLoop].run \in Runs
        BY <1>0, <2>3 DEF Serving
    <3>2. i \in DOMAIN queue' /\ queue'[i] = queue[i]
        BY <1>1, <2>3, <3>1, AppendProperties, LenProperties
    <3> QED
        BY <1>1, <3>2 DEF Owned
  <2> QED
      BY HandoverStep, <2>1, <2>2, <2>3 DEF Handover
<1>2. ASSUME NEW t \in Threads, thread[t].run = r, thread[t].at \in Working,
             thread'[t] # thread[t]
      PROVE  Owned(r)'
  <2> USE DEF Working, Locking
  <2>w. ASSUME thread'[t].run = r, thread'[t].at \in Working PROVE Owned(r)'
      BY <1>2, <1>k, <2>w
  <2>1. CASE EnterUpdate(t)
    <3>1. CASE <<meta[r], thread[t].status>> \in ValidTransitions
        BY <1>2, <2>1, <2>w, <3>1 DEF EnterUpdate, CheckTransition, At
    <3>2. CASE <<meta[r], thread[t].status>> \notin ValidTransitions
      <4>1. thread[t].status # "failed"
          BY <3>2 DEF ValidTransitions, Inflight
      <4>2. t \in Workers
          BY <2>1, <4>1 DEF EnterUpdate, CheckTransition, Errands, Threads
      <4> QED
          BY <1>2, <2>1, <2>w, <3>2, <4>1, <4>2 DEF EnterUpdate, CheckTransition, AfterRaise, Update
    <3> QED
        BY <3>1, <3>2
  <2>2. CASE WriteMeta(t)
    <3>1. meta'[r] = thread[t].status
        BY <1>2, <2>2 DEF WriteMeta
    <3>2. thread[t].status \in {"running"} \cup Final /\ (t = EventLoop => thread[t].status = "failed")
        BY <2>2 DEF WriteMeta, Errands, Threads, Final
    <3>3. thread[t].status = "running" /\ t \in Workers
        BY <3>1, <3>2 DEF Inflight, Final, Threads
    <3> QED
        BY <1>2, <2>2, <2>w, <3>3 DEF WriteMeta, AfterReturn, At
  <2>3. CASE OpenReport(t) \/ FillReport(t)
      BY <1>2, <2>3 DEF OpenReport, FillReport, Calls, Relies, Inflight
  <2>4. ASSUME NEW u \in Threads, UpdateStatus(u) \/ DiskFault(u), u # t PROVE FALSE
      BY <1>2, <2>4 DEF UpdateStatus, EnterUpdate, CheckTransition, WriteMeta, OpenReport, FillReport,
                        DiskFault
  <2>5. ASSUME NEW q \in Runs, EnterCreate(q) \/ LoadPage(q) \/ Poll(q) \/ Reconcile(q) PROVE FALSE
      BY <1>2, <2>5 DEF EnterCreate, MakeDirectory, LoadPage, Poll, ReadMeta, Reconcile, MarkStale, Idle
  <2>6. ASSUME WriteNew \/ SubmitRaises PROVE Owned(r)'
    <3>1. t = EventLoop
        BY <1>2, <2>6 DEF WriteNew, SubmitRaises
    <3> QED
        BY <1>2, <2>6, <2>w, <3>1 DEF WriteNew, SubmitRaises, At, Update
  <2>7. CASE Submit
    <3>1. t = EventLoop /\ queue' = Append(queue, r)
        BY <1>2, <2>7 DEF Submit
    <3>2. Len(queue) + 1 \in DOMAIN queue' /\ queue'[Len(queue) + 1] = r
        BY <3>1, AppendProperties, LenProperties
    <3> QED
        BY <3>2 DEF Owned
  <2>8. ASSUME ReadReport PROVE FALSE
      BY <1>2, <2>8 DEF ReadReport, Reading
  <2>9. ASSUME NEW w \in Workers, Take(w) PROVE FALSE
      BY <1>2, <2>9 DEF Take, Idle
  <2>10. ASSUME NEW w \in Workers, Simulate(w) PROVE Owned(r)'
    <3>1. t = w
        BY <1>2, <2>10 DEF Simulate
    <3> QED
        BY <1>2, <2>10, <2>w, <3>1 DEF Simulate, Update
  <2>11. ASSUME ReconcileFault \/ Serve \/ Stop \/ Exit \/ Crash \/ Restart \/ UNCHANGED vars PROVE FALSE
      BY <1>2, <2>11 DEF ReconcileFault, Serve, Stop, Exit, Crash, Restart, vars
  <2> QED
      BY <1>2, <2>1, <2>2, <2>3, <2>4, <2>5, <2>6, <2>7, <2>8, <2>9, <2>10, <2>11 DEF Next, UpdateStatus
<1>3. ASSUME NEW t \in Threads, thread[t].run = r, thread[t].at \in Working,
             thread'[t] = thread[t]
      PROVE  Owned(r)'
    BY <1>3, <1>k
<1> QED
    BY <1>1, <1>2, <1>3 DEF Owned

\* A run becomes inflight in the hands of the handler that accepts it.
LEMMA AcceptedOwned ==
  ASSUME OInv, [Next]_vars, NEW r \in Runs, meta[r] \notin Inflight, meta'[r] \in Inflight
  PROVE  Owned(r)'
<1> USE RunStoreAssumption DEF OInv, IInv, SafeInv, TypeOK
<1>0. EventLoop \in Threads
    BY DEF Threads
<1>1. CASE WriteNew
  <2>1. thread[EventLoop].run = r
      BY <1>1 DEF WriteNew
  <2>2. thread'[EventLoop].run = r /\ thread'[EventLoop].at \in Working
      BY <1>0, <1>1, <2>1 DEF WriteNew, At, Working
  <2> QED
      BY <1>0, <2>2 DEF Owned
<1>2. ASSUME NEW t \in Threads, WriteMeta(t) PROVE FALSE
  <2>1. thread[t].run = r /\ meta'[r] = thread[t].status
      BY <1>2 DEF WriteMeta
  <2>2. <<meta[r], thread[t].status>> \in ValidTransitions
      BY <1>2, <2>1 DEF WriteMeta, Calls, Relies
  <2> QED
      BY <2>1, <2>2 DEF ValidTransitions, Inflight
<1>3. ASSUME NEW t \in Threads, EnterUpdate(t) \/ OpenReport(t) \/ FillReport(t) \/ DiskFault(t) PROVE FALSE
    BY <1>3 DEF EnterUpdate, CheckTransition, OpenReport, FillReport, DiskFault
<1>4. ASSUME NEW q \in Runs, EnterCreate(q) \/ LoadPage(q) \/ Poll(q) \/ Reconcile(q) PROVE FALSE
    BY <1>4 DEF EnterCreate, MakeDirectory, LoadPage, Poll, ReadMeta, Reconcile, MarkStale, Inflight
<1>5. ASSUME \/ Submit \/ SubmitRaises \/ ReadReport \/ \E w \in Workers : Take(w) \/ Simulate(w)
             \/ ReconcileFault \/ Serve \/ Stop \/ Exit \/ Crash \/ Restart \/ UNCHANGED vars
      PROVE  FALSE
    BY <1>5 DEF Submit, SubmitRaises, ReadReport, Take, Simulate, ReconcileFault, Serve, Stop, Exit,
                Crash, Restart, vars
<1> QED
    BY <1>1, <1>2, <1>3, <1>4, <1>5 DEF Next, UpdateStatus

\* Once the server is up, it stays among the phases that LeakBounded is about
\* until it crashes or is restarted.
LEMMA Phases ==
  ASSUME OInv, [Next]_vars, server' \in {"up", "stopping", "stopped"}
  PROVE  Serve \/ server \in {"up", "stopping", "stopped"}
<1>1. ASSUME NEW t \in Threads, UpdateStatus(t) \/ DiskFault(t) PROVE UNCHANGED server
    BY <1>1 DEF UpdateStatus, EnterUpdate, CheckTransition, WriteMeta, OpenReport, FillReport, DiskFault
<1>2. ASSUME NEW r \in Runs, EnterCreate(r) \/ LoadPage(r) \/ Poll(r) \/ Reconcile(r)
      PROVE  UNCHANGED server
    BY <1>2 DEF EnterCreate, MakeDirectory, LoadPage, Poll, ReadMeta, Reconcile, MarkStale
<1>3. CASE WriteNew \/ Submit \/ SubmitRaises \/ ReadReport \/ \E w \in Workers : Take(w) \/ Simulate(w)
    BY <1>3 DEF WriteNew, Submit, SubmitRaises, ReadReport, Take, Simulate
<1>4. CASE ReconcileFault \/ Serve \/ Stop \/ Exit \/ Crash \/ Restart \/ UNCHANGED vars
    BY <1>4 DEF ReconcileFault, Serve, Stop, Exit, Crash, Restart, vars
<1> QED
    BY <1>1, <1>2, <1>3, <1>4 DEF Next

\* Every inflight run that nobody will finish cost a failure of the disk or of
\* a thread's start: _inflight_run_count counts no other forgotten run until
\* the next restart, and a graceful stop leaves none behind.
THEOREM LeaksCostFaults == Spec => []LeakBounded
<1> DEFINE Leaked == {r \in InflightRuns : ~Owned(r)}
<1>1. Init => LeakBounded
    BY DEF Init, LeakBounded
<1>2. ASSUME OInv, LeakBounded, [Next]_vars PROVE LeakBounded'
  <2> SUFFICES ASSUME server' \in {"up", "stopping", "stopped"}
               PROVE  Cardinality(Leaked') <= faults'
      BY DEF LeakBounded
  <2>0. /\ IsFiniteSet(Leaked) /\ Leaked \subseteq Runs
        /\ faults \in Nat /\ faults' \in Nat /\ faults' >= faults
        /\ Cardinality(Leaked) \in Nat
    <3>1. TypeOK /\ TypeOK'
        BY <1>2, TypeStep DEF OInv, IInv, SafeInv
    <3>2. IsFiniteSet(Leaked) /\ Leaked \subseteq Runs
        BY FS_Subset, RunStoreAssumption DEF InflightRuns
    <3> QED
        BY <1>2, <3>1, <3>2, Monotone, FS_CardinalityType, RunStoreAssumption DEF TypeOK
  <2>1. CASE Serve
    <3>1. Leaked' = {}
        BY <2>1 DEF Serve, InflightRuns
    <3> QED
        BY <2>0, <3>1, FS_EmptySet
  <2>2. CASE ~Serve
    <3>1. Cardinality(Leaked) <= faults
        BY <1>2, <2>2, Phases DEF LeakBounded
    <3>2. \A r \in Leaked' : r \in Leaked \/ \E t \in Threads : thread[t].run = r /\ DiskFault(t)
      <4> SUFFICES ASSUME NEW r \in Runs, meta'[r] \in Inflight, ~Owned(r)',
                          \A t \in Threads : thread[t].run = r => ~DiskFault(t)
                   PROVE  meta[r] \in Inflight /\ ~Owned(r)
          BY DEF InflightRuns
      <4>1. meta[r] \in Inflight
          BY <1>2, AcceptedOwned
      <4> QED
          BY <1>2, <4>1, HandedOn
    <3>3. CASE \A t \in Threads : ~DiskFault(t)
      <4>1. Leaked' \subseteq Leaked
          BY <3>2, <3>3
      <4>2. Cardinality(Leaked') <= Cardinality(Leaked) /\ Cardinality(Leaked') \in Nat
          BY <2>0, <4>1, FS_Subset, FS_CardinalityType
      <4> QED
          BY <2>0, <3>1, <4>2
    <3>4. ASSUME NEW t \in Threads, DiskFault(t) PROVE Cardinality(Leaked') <= faults'
      <4>1. \A u \in Threads : DiskFault(u) => u = t
          BY <1>2, <3>4 DEF DiskFault, OInv, IInv, SafeInv, Held
      <4>2. Leaked' \subseteq Leaked \cup {thread[t].run}
          BY <3>2, <4>1
      <4>3. /\ IsFiniteSet(Leaked \cup {thread[t].run})
            /\ Cardinality(Leaked \cup {thread[t].run}) <= Cardinality(Leaked) + 1
            /\ Cardinality(Leaked \cup {thread[t].run}) \in Nat
        <5> DEFINE run == thread[t].run
        <5> HIDE DEF Leaked, run
        <5>1. /\ IsFiniteSet(Leaked \cup {run})
              /\ Cardinality(Leaked \cup {run}) =
                   IF run \in Leaked THEN Cardinality(Leaked) ELSE Cardinality(Leaked) + 1
            BY <2>0, FS_AddElement
        <5>2. Cardinality(Leaked \cup {run}) <= Cardinality(Leaked) + 1
              /\ Cardinality(Leaked \cup {run}) \in Nat
            BY <2>0, <5>1
        <5> QED
            BY <5>1, <5>2 DEF run
      <4>4. Cardinality(Leaked') <= Cardinality(Leaked \cup {thread[t].run})
            /\ Cardinality(Leaked') \in Nat
          BY <4>2, <4>3, FS_Subset, FS_CardinalityType
      <4>5. faults' = faults + 1
          BY <3>4 DEF DiskFault
      <4> QED
          BY <2>0, <3>1, <4>3, <4>4, <4>5
    <3> QED
        BY <3>3, <3>4
  <2> QED
      BY <2>1, <2>2
<1> QED
    BY <1>1, <1>2, Ownership, PTL DEF Spec
=============================================================================
