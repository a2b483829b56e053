------------------------------ MODULE RunStore ------------------------------
(***************************************************************************)
(* The life of a simulation run in the web application: the run store      *)
(* (web/run_store.py) that keeps meta.json and report.md of every run on   *)
(* disk, the event loop that answers submissions and pages                 *)
(* (web/routes/simulate.py, web/routes/pages.py), the executor's worker    *)
(* threads that run the simulations (web/services.py), and the start, stop *)
(* and crash of the server around them (web/app.py).                       *)
(*                                                                         *)
(* The files survive a crash; threads, queue and lock do not.  meta.json   *)
(* is replaced atomically; report.md is opened, truncated and then filled. *)
(***************************************************************************)
EXTENDS Naturals, FiniteSets, Sequences

CONSTANTS
  Runs,        \* the run ids that uuid4 may hand out
  NoRun,       \* the run of a thread that serves none
  Workers,     \* the threads of ThreadPoolExecutor(max_workers=2)
  EventLoop,   \* the one thread that serves HTTP requests
  MaxInflight, \* YOUNGGEUL_WEB_MAX_INFLIGHT_RUNS
  MaxFaults,   \* bound: how often the disk or the thread start fails
  MaxStops     \* bound: how often the server is killed or told to stop

ASSUME RunStoreAssumption ==
  /\ IsFiniteSet(Runs)
  /\ NoRun \notin Runs
  /\ EventLoop \notin Workers
  /\ MaxInflight \in Nat \ {0}
  /\ MaxFaults \in Nat
  /\ MaxStops \in Nat

VARIABLES
  meta,    \* status in the run's meta.json; "dir": the directory without one
  report,  \* content of the run's report.md
  lock,    \* the threads inside `with self._lock` (RunStore._lock)
  thread,  \* where each thread is, for which run, with which status argument
  queue,   \* the executor's work items, oldest first
  page,    \* what the browser shows of the run, and whether it polls
  server,  \* the phase of the server process
  faults, stops

vars == <<meta, report, lock, thread, queue, page, server, faults, stops>>
files == <<meta, report>>
bounds == <<faults, stops>>

Threads == Workers \cup {EventLoop}
Inflight == {"pending", "running"}
Final == {"completed", "failed"}
Statuses == Inflight \cup Final
ReportStates == {"absent", "partial", "whole"}
ServerPhases == {"starting", "up", "stopping", "stopped", "crashed"}

\* (A bug to detect: any status may follow any other.)
AnyTransition == Statuses \X Statuses

\* _VALID_TRANSITIONS
ValidTransitions ==
  {<<"pending", "running">>, <<"pending", "failed">>,
   <<"running", "completed">>, <<"running", "failed">>}

\* The places where a thread can be interleaved with the others.
Locking == {"create", "write_meta", "open_report", "fill_report"}
Working == {"submit", "update", "simulate"} \cup Locking
Reading == {"page", "partial"}
Idle == [at |-> "idle", run |-> NoRun, status |-> "none"]
NoPage == [status |-> "none", report |-> "absent", polling |-> FALSE]

Moments == Working \cup Reading \cup {"idle"}
ThreadStates == [at : Moments, run : Runs \cup {NoRun}, status : Statuses \cup {"none"}]
PageStates == [status : Statuses \cup {"none"}, report : ReportStates, polling : BOOLEAN]

\* Thread t, gone on to another place with the same run and status.
At(t, where) == [at |-> where, run |-> thread[t].run, status |-> thread[t].status]

\* A call of update_status(r, s) about to ask for the lock.
Update(r, s) == [at |-> "update", run |-> r, status |-> s]

\* _inflight_run_count counts these.
InflightRuns == {r \in Runs : meta[r] \in Inflight}

Init ==
  /\ meta = [r \in Runs |-> "none"]
  /\ report = [r \in Runs |-> "absent"]
  /\ lock = {}
  /\ thread = [t \in Threads |-> Idle]
  /\ queue = <<>>
  /\ page = [r \in Runs |-> NoPage]
  /\ server = "starting"
  /\ faults = 0
  /\ stops = 0

-----------------------------------------------------------------------------
(* RunStore.update_status, called by workers and by the event loop.        *)

\* Where the caller goes on when update_status returns.
AfterReturn(t) ==
  IF t \in Workers /\ thread[t].status = "running"
    THEN At(t, "simulate")
    ELSE Idle

\* Where it goes on when it raises: run_simulation_background reports the
\* exception with update_status(run_id, "failed"); an exception of that call
\* ends in the future, or in the HTTP 500 of the submission.
AfterRaise(t) ==
  IF t \in Workers /\ thread[t].status # "failed"
    THEN Update(thread[t].run, "failed")
    ELSE Idle

\* Read meta.json and check the transition; ValueError if not allowed.
CheckTransition(t) ==
  /\ thread[t].at = "update"
  /\ IF <<meta[thread[t].run], thread[t].status>> \in ValidTransitions
       THEN /\ thread' = [thread EXCEPT ![t] = At(t, "write_meta")]
            /\ lock' = {t}
       ELSE /\ thread' = [thread EXCEPT ![t] = AfterRaise(t)]
            /\ UNCHANGED lock
  /\ UNCHANGED <<files, queue, page, server, bounds>>

\* (A bug to detect: the read and the write are not one critical section.)
EnterUpdateUnlocked(t) == CheckTransition(t)

\* `with self._lock`
EnterUpdate(t) == lock = {} /\ CheckTransition(t)

\* (A bug to detect: the report is never written.)
WriteMetaOnly(t) ==
  /\ thread[t].at = "write_meta"
  /\ meta' = [meta EXCEPT ![thread[t].run] = thread[t].status]
  /\ thread' = [thread EXCEPT ![t] = AfterReturn(t)]
  /\ lock' = {}
  /\ UNCHANGED <<report, queue, page, server, bounds>>

\* _write_meta; a completed run's report is still to be written.
WriteMeta(t) ==
  /\ thread[t].at = "write_meta"
  /\ meta' = [meta EXCEPT ![thread[t].run] = thread[t].status]
  /\ IF thread[t].status = "completed"
       THEN /\ thread' = [thread EXCEPT ![t] = At(t, "open_report")]
            /\ UNCHANGED lock
       ELSE /\ thread' = [thread EXCEPT ![t] = AfterReturn(t)]
            /\ lock' = {}
  /\ UNCHANGED <<report, queue, page, server, bounds>>

\* Path.write_text truncates the file first ...
OpenReport(t) ==
  /\ thread[t].at = "open_report"
  /\ report' = [report EXCEPT ![thread[t].run] = "partial"]
  /\ thread' = [thread EXCEPT ![t] = At(t, "fill_report")]
  /\ UNCHANGED <<meta, lock, queue, page, server, bounds>>

\* ... and then writes the text and closes it.
FillReport(t) ==
  /\ thread[t].at = "fill_report"
  /\ report' = [report EXCEPT ![thread[t].run] = "whole"]
  /\ thread' = [thread EXCEPT ![t] = AfterReturn(t)]
  /\ lock' = {}
  /\ UNCHANGED <<meta, queue, page, server, bounds>>

\* An OSError of a file operation under the lock: `with` releases the lock.
DiskFault(t) ==
  /\ thread[t].at \in Locking
  /\ faults < MaxFaults
  /\ faults' = faults + 1
  /\ thread' = [thread EXCEPT ![t] = AfterRaise(t)]
  /\ lock' = {}
  /\ UNCHANGED <<files, queue, page, server, stops>>

UpdateStatus(t) ==
  EnterUpdate(t) \/ WriteMeta(t) \/ OpenReport(t) \/ FillReport(t)

-----------------------------------------------------------------------------
(* The event loop: POST /simulate, POST /ui/simulate, the run pages.       *)

\* The directory of a new run, under the lock.
MakeDirectory(r) ==
  /\ server = "up"
  /\ thread[EventLoop] = Idle
  /\ lock = {}
  /\ meta[r] = "none"
  /\ meta' = [meta EXCEPT ![r] = "dir"]
  /\ lock' = {EventLoop}
  /\ thread' = [thread EXCEPT ![EventLoop] =
                  [at |-> "create", run |-> r, status |-> "pending"]]
  /\ UNCHANGED <<report, queue, page, server, bounds>>

\* (A bug to detect: the cap is off by one.)
EnterCreateOverfull(r) == Cardinality(InflightRuns) <= MaxInflight /\ MakeDirectory(r)

\* create_run up to mkdir.  A full store answers 503 and changes nothing.
EnterCreate(r) == Cardinality(InflightRuns) < MaxInflight /\ MakeDirectory(r)

\* create_run from the first _write_meta to its return.
WriteNew ==
  /\ thread[EventLoop].at = "create"
  /\ meta' = [meta EXCEPT ![thread[EventLoop].run] = "pending"]
  /\ lock' = {}
  /\ thread' = [thread EXCEPT ![EventLoop] = At(EventLoop, "submit")]
  /\ UNCHANGED <<report, queue, page, server, bounds>>

Submit ==
  /\ thread[EventLoop].at = "submit"
  /\ queue' = Append(queue, thread[EventLoop].run)
  /\ thread' = [thread EXCEPT ![EventLoop] = Idle]
  /\ UNCHANGED <<files, lock, page, server, bounds>>

\* (A bug to detect: the handler submits again.)
SubmitAgain ==
  /\ thread[EventLoop].at = "submit"
  /\ faults < MaxFaults
  /\ faults' = faults + 1
  /\ queue' = Append(queue, thread[EventLoop].run)
  /\ UNCHANGED <<files, lock, thread, page, server, stops>>

\* executor.submit raises: it puts the work item in its queue before it
\* starts a thread, so the item may be there all the same.  The handler
\* marks the run failed.
SubmitRaises ==
  /\ thread[EventLoop].at = "submit"
  /\ faults < MaxFaults
  /\ faults' = faults + 1
  /\ queue' \in {queue, Append(queue, thread[EventLoop].run)}
  /\ thread' = [thread EXCEPT ![EventLoop] = Update(thread[EventLoop].run, "failed")]
  /\ UNCHANGED <<files, lock, page, server, stops>>

\* _run_context reads meta.json without the lock.  Only a completed run has
\* its report read too; the page polls if it was inflight when it was loaded.
ReadMeta(r, at, polling) ==
  /\ server = "up"
  /\ thread[EventLoop] = Idle
  /\ meta[r] \in Statuses
  /\ IF meta[r] = "completed"
       THEN /\ thread' = [thread EXCEPT ![EventLoop] =
                            [at |-> at, run |-> r, status |-> "completed"]]
            /\ UNCHANGED page
       ELSE /\ page' = [page EXCEPT ![r] = [status |-> meta[r],
                          report |-> "absent", polling |-> polling]]
            /\ UNCHANGED thread
  /\ UNCHANGED <<files, lock, queue, server, bounds>>

LoadPage(r) == ReadMeta(r, "page", meta[r] \in Inflight)

\* (A bug to detect: the page stops polling when it shows the end.)
PollUntilFinal(r) ==
  page[r].polling /\ page[r].status \notin Final /\ ReadMeta(r, "partial", TRUE)

\* hx-trigger="load, every 2s" of a page that was loaded inflight.
Poll(r) == page[r].polling /\ ReadMeta(r, "partial", TRUE)

\* _run_report, and the answer; a full page of a completed run never polls.
ReadReport ==
  /\ thread[EventLoop].at \in Reading
  /\ LET r == thread[EventLoop].run
     IN  page' = [page EXCEPT ![r] = [status |-> "completed",
                    report |-> report[r],
                    polling |-> thread[EventLoop].at = "partial"]]
  /\ thread' = [thread EXCEPT ![EventLoop] = Idle]
  /\ UNCHANGED <<files, lock, queue, server, bounds>>

-----------------------------------------------------------------------------
(* The executor's workers: run_simulation_background.                      *)

Take(w) ==
  /\ server \in {"up", "stopping"}
  /\ thread[w] = Idle
  /\ queue # <<>>
  /\ thread' = [thread EXCEPT ![w] = Update(Head(queue), "running")]
  /\ queue' = Tail(queue)
  /\ UNCHANGED <<files, lock, page, server, bounds>>

\* (A bug to detect: an exception of the simulation is not caught.)
SimulateUncaught(w) ==
  /\ thread[w].at = "simulate"
  /\ thread' \in {[thread EXCEPT ![w] = Update(thread[w].run, "completed")],
                  [thread EXCEPT ![w] = Idle]}
  /\ UNCHANGED <<files, lock, queue, page, server, bounds>>

\* graph.invoke and _extract_report_text: a report, or an exception.
Simulate(w) ==
  /\ thread[w].at = "simulate"
  /\ \E s \in Final : thread' = [thread EXCEPT ![w] = Update(thread[w].run, s)]
  /\ UNCHANGED <<files, lock, queue, page, server, bounds>>

-----------------------------------------------------------------------------
(* The server process: app_lifespan, a kill, a restart.                    *)

MarkStale(r, s) ==
  /\ server = "starting"
  /\ meta' = [meta EXCEPT ![r] = s]
  /\ UNCHANGED <<report, lock, thread, queue, page, server, bounds>>

\* (Bugs to detect: reconciliation ends every run, starts the interrupted
\* ones again, or gives them a status that does not exist.)
ReconcileAll(r) == meta[r] \in Statuses /\ MarkStale(r, "failed")
ReconcileRequeue(r) == meta[r] = "running" /\ MarkStale(r, "pending")
ReconcileInterrupted(r) == meta[r] \in Inflight /\ MarkStale(r, "interrupted")

\* reconcile_stale_runs, one stale run after the other.
Reconcile(r) == meta[r] \in Inflight /\ MarkStale(r, "failed")

\* An OSError in it ends the startup.
ReconcileFault ==
  /\ server = "starting"
  /\ InflightRuns # {}
  /\ faults < MaxFaults
  /\ faults' = faults + 1
  /\ server' = "crashed"
  /\ UNCHANGED <<files, lock, thread, queue, page, stops>>

Serve ==
  /\ server = "starting"
  /\ InflightRuns = {}
  /\ server' = "up"
  /\ UNCHANGED <<files, lock, thread, queue, page, bounds>>

\* The server stops accepting requests once the last one is answered, and
\* executor.shutdown(wait=True) waits for the queue to drain.
Stop ==
  /\ server = "up"
  /\ thread[EventLoop] = Idle
  /\ stops < MaxStops
  /\ stops' = stops + 1
  /\ server' = "stopping"
  /\ UNCHANGED <<files, lock, thread, queue, page, faults>>

\* (A bug to detect: shutdown drops what is queued.)
ExitWithQueue ==
  /\ server = "stopping"
  /\ \A w \in Workers : thread[w] = Idle
  /\ server' = "stopped"
  /\ queue' = <<>>
  /\ UNCHANGED <<files, lock, thread, page, bounds>>

Exit ==
  /\ server = "stopping"
  /\ queue = <<>>
  /\ \A w \in Workers : thread[w] = Idle
  /\ server' = "stopped"
  /\ UNCHANGED <<files, lock, thread, queue, page, bounds>>

\* The process is killed: only the files, and the browser's page, survive.
Crash ==
  /\ server \in {"starting", "up", "stopping"}
  /\ stops < MaxStops
  /\ stops' = stops + 1
  /\ server' = "crashed"
  /\ lock' = {}
  /\ thread' = [t \in Threads |-> Idle]
  /\ queue' = <<>>
  /\ UNCHANGED <<files, page, faults>>

Restart ==
  /\ server \in {"stopped", "crashed"}
  /\ server' = "starting"
  /\ UNCHANGED <<files, lock, thread, queue, page, bounds>>

-----------------------------------------------------------------------------
Next ==
  \/ \E t \in Threads : UpdateStatus(t) \/ DiskFault(t)
  \/ \E r \in Runs : EnterCreate(r) \/ LoadPage(r) \/ Poll(r) \/ Reconcile(r)
  \/ WriteNew \/ Submit \/ SubmitRaises \/ ReadReport
  \/ \E w \in Workers : Take(w) \/ Simulate(w)
  \/ ReconcileFault \/ Serve \/ Stop \/ Exit \/ Crash \/ Restart

Spec == Init /\ [][Next]_vars

\* Threads run, every simulation ends, startup and shutdown go on, and the
\* event loop serves the polls of an open page in the order they come in.
\* Nobody is obliged to submit, to open a page, or to restart the server.
Fairness ==
  /\ \A t \in Threads : WF_vars(UpdateStatus(t))
  /\ \A w \in Workers : WF_vars(Take(w)) /\ WF_vars(Simulate(w))
  /\ WF_vars(WriteNew) /\ WF_vars(Submit) /\ WF_vars(ReadReport)
  /\ \A r \in Runs : WF_vars(Reconcile(r)) /\ SF_vars(Poll(r))
  /\ WF_vars(Serve) /\ WF_vars(Exit)

FairSpec == Spec /\ Fairness

-----------------------------------------------------------------------------
(* Properties.                                                             *)

\* Every variable stays in its domain, in every interleaving of the threads
\* of web/services.py with the routes.
TypeOK ==
  /\ meta \in [Runs -> Statuses \cup {"none", "dir"}]
  /\ report \in [Runs -> ReportStates]
  /\ lock \in SUBSET Threads
  /\ thread \in [Threads -> ThreadStates]
  /\ queue \in Seq(Runs)
  /\ page \in [Runs -> PageStates]
  /\ server \in ServerPhases
  /\ faults \in 0..MaxFaults
  /\ stops \in 0..MaxStops

\* At no time are more than YOUNGGEUL_WEB_MAX_INFLIGHT_RUNS runs pending or
\* running, whatever fails and however often the server restarts.
CapacityRespected == Cardinality(InflightRuns) <= MaxInflight

\* A run that is completed or failed keeps that status: a worker that was
\* handed a run the submission already marked failed, a second failure
\* report and a restart all leave it alone.
FinalStays ==
  [][\A r \in Runs : meta[r] \in Final => meta'[r] = meta[r]]_vars

\* report.md, in part or whole, exists only for completed runs.
ReportOnlyForCompleted ==
  \A r \in Runs : report[r] # "absent" => meta[r] = "completed"

\* In a history without a failing file operation and without a stop or a kill,
\* a completed run lacks its report only while its worker is about to write it.
CompletedHasReport ==
  \A r \in Runs :
    meta[r] = "completed" /\ report[r] # "whole" =>
      \/ \E w \in Workers : /\ thread[w].run = r
                            /\ thread[w].at \in {"open_report", "fill_report"}
      \/ faults + stops > 0

\* Somebody who will finish the run: the handler, the queue, a worker.
Owned(r) ==
  \/ \E i \in DOMAIN queue : queue[i] = r
  \/ \E t \in Threads : thread[t].run = r /\ thread[t].at \in Working

\* A run that stays pending or running with nobody to finish it holds a slot
\* of the cap until the next restart.  Each such run costs a fault of the
\* disk; in particular a graceful stop without faults leaves none behind.
LeakBounded ==
  server \in {"up", "stopping", "stopped"} =>
    Cardinality({r \in InflightRuns : ~Owned(r)}) <= faults

\* No run is handed to two workers, or queued again while one has it.
ExecutedOnce ==
  \A r \in Runs :
    Cardinality({w \in Workers : thread[w].run = r})
      + Cardinality({i \in DOMAIN queue : queue[i] = r}) <= 1

\* An end that a page shows is never taken back: a final status it shows is the
\* status of the run.  What it shows of a run that goes on may be older.
PageNotContradicted ==
  \A r \in Runs : page[r].status \in Final => meta[r] = page[r].status

\* As long as the server is up again and again and the disk does not fail,
\* every accepted run ends completed or failed.
EveryRunEnds ==
  []<>(server = "up") =>
    \A r \in Runs : meta[r] = "pending" ~> (meta[r] \in Final \/ faults > 0)

\* A page opened while its run was inflight ends up showing how the run
\* ended, with the whole report when it completed, unless the user loads it
\* anew, the disk fails, or the server is stopped or killed.
PolledPageSettles ==
  [](stops = 0) =>
    \A r \in Runs :
      page[r].polling ~> \/ page[r].status = "failed"
                         \/ page[r].status = "completed" /\ page[r].report = "whole"
                         \/ ~page[r].polling
                         \/ faults > 0

\* The run store, its threads and its restarts implement the life cycle of
\* RunLifecycle: a directory without meta.json is a run nobody has heard of.
Lifecycle ==
  INSTANCE RunLifecycle WITH
    status <- [r \in Runs |-> IF meta[r] = "dir" THEN "none" ELSE meta[r]]

ImplementsLifecycle == Lifecycle!Spec

-----------------------------------------------------------------------------
(* A statement of the documentation and the tests that the code falsifies.  *)

\* While the server is up, reconcile behind it, a completed run that no worker
\* is still writing has its report: the test of run_store asserts both
\* together, docs/web-ui.md says both are persisted.
CompletedIsPersisted ==
  server = "up" =>
    \A r \in Runs :
      meta[r] = "completed" /\ (\A w \in Workers : thread[w].run # r) =>
        report[r] = "whole"
=============================================================================
