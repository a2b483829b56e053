--------------------------- MODULE SnapshotStore ---------------------------
(***************************************************************************)
(* Snapshots of gold rows in one directory (snapshot.py), published and    *)
(* resolved by processes that share nothing but the file system: CLI       *)
(* invocations and the web application.                                    *)
(*                                                                         *)
(* A snapshot's id is a hash of its content, so the content stands for the *)
(* id and for its directory.  Table and manifest are each written to a     *)
(* temporary file of their own and moved into place, in one step here.     *)
(***************************************************************************)
EXTENDS Naturals, FiniteSets

CONSTANTS
  Contents,   \* the gold rows somebody may publish
  NoContent,  \* the content of a process that has none yet
  Processes,
  MaxClock,   \* bound: the last value of the wall clock
  MaxCrashes  \* bound: how often a process is killed or a file operation fails

ASSUME SnapshotStoreAssumption ==
  /\ IsFiniteSet(Contents)
  /\ NoContent \notin Contents
  /\ MaxClock \in Nat \ {0}
  /\ MaxCrashes \in Nat

VARIABLES
  dir,      \* the contents whose directory exists
  table,    \* the contents whose table file exists
  created,  \* created_at in the content's manifest.json; 0: there is none
  process,  \* where each process is, with its locals
  clock,    \* datetime.now, which may be set back
  crashes

vars == <<dir, table, created, process, clock, crashes>>
files == <<dir, table, created>>

Publishing == {"mkdir", "table", "stamp", "manifest"}
Republishing == {"load", "compare"}
Resolving == {"open", "scan", "read"}
Ended == {"idle", "published", "refused", "resolved", "raised"}

\* content: the snapshot at hand.  stamp: its created_at as this process knows
\* it.  left: the directories `latest` has still to look at.  seen: what was
\* created when `latest` listed them (an observer of LatestIsFresh).
ProcessStates ==
  [at : Publishing \cup Republishing \cup Resolving \cup Ended,
   content : Contents \cup {NoContent}, stamp : 0..MaxClock,
   left : SUBSET Contents, seen : [Contents -> 0..MaxClock]]

NoManifest == [c \in Contents |-> 0]

Idle == [at |-> "idle", content |-> NoContent, stamp |-> 0, left |-> {}, seen |-> NoManifest]

\* A process that starts work on content c.
Begun(at, c) == [Idle EXCEPT !.at = at, !.content = c]

Init ==
  /\ dir = {}
  /\ table = {}
  /\ created = NoManifest
  /\ process = [p \in Processes |-> Idle]
  /\ clock = 1
  /\ crashes = 0

Goto(p, at) == process' = [process EXCEPT ![p].at = at]

-----------------------------------------------------------------------------
(* publish_snapshot                                                        *)

\* snapshot_dir.exists()
Publish(p, c) ==
  /\ process[p].at \in Ended
  /\ process' = [process EXCEPT ![p] = Begun(IF c \in dir THEN "load" ELSE "mkdir", c)]
  /\ UNCHANGED <<files, clock, crashes>>

\* (Bugs to detect: mkdir with exist_ok=True, and a directory just made that
\* is taken for one that was there.)
MakeDirectoryShared(p) ==
  /\ process[p].at = "mkdir"
  /\ dir' = dir \cup {process[p].content}
  /\ Goto(p, "table")
  /\ UNCHANGED <<table, created, clock, crashes>>
MakeDirectoryThenLoad(p) ==
  /\ process[p].at = "mkdir"
  /\ dir' = dir \cup {process[p].content}
  /\ Goto(p, "load")
  /\ UNCHANGED <<table, created, clock, crashes>>

\* mkdir, or FileExistsError if somebody was faster.
MakeDirectory(p) ==
  /\ process[p].at = "mkdir"
  /\ dir' = dir \cup {process[p].content}
  /\ Goto(p, IF process[p].content \in dir THEN "load" ELSE "table")
  /\ UNCHANGED <<table, created, clock, crashes>>

\* (A bug to detect: the table is never moved into place.)
LeaveTableTemporary(p) ==
  /\ process[p].at = "table"
  /\ Goto(p, "stamp")
  /\ UNCHANGED <<files, clock, crashes>>

WriteTable(p) ==
  /\ process[p].at = "table"
  /\ table' = table \cup {process[p].content}
  /\ Goto(p, "stamp")
  /\ UNCHANGED <<dir, created, clock, crashes>>

\* created_at = datetime.now(timezone.utc)
Stamp(p) ==
  /\ process[p].at = "stamp"
  /\ process' = [process EXCEPT ![p].at = "manifest", ![p].stamp = clock]
  /\ UNCHANGED <<files, clock, crashes>>

\* (A bug to detect: the reference is dated anew.)
WriteManifestDatedAnew(p) ==
  /\ process[p].at = "manifest"
  /\ created' = [created EXCEPT ![process[p].content] = process[p].stamp]
  /\ process' = [process EXCEPT ![p].at = "published", ![p].stamp = clock]
  /\ UNCHANGED <<dir, table, clock, crashes>>

\* The manifest, and the reference with the same created_at.
WriteManifest(p) ==
  /\ process[p].at = "manifest"
  /\ created' = [created EXCEPT ![process[p].content] = process[p].stamp]
  /\ Goto(p, "published")
  /\ UNCHANGED <<dir, table, clock, crashes>>

\* _resolve_existing_snapshot: _load_manifest ...
LoadExisting(p) ==
  /\ process[p].at = "load"
  /\ IF created[process[p].content] = 0
       THEN Goto(p, "refused")
       ELSE process' = [process EXCEPT ![p].at = "compare",
                                       ![p].stamp = created[process[p].content]]
  /\ UNCHANGED <<files, clock, crashes>>

\* ... and the bytes of the table.
Compare(p) ==
  /\ process[p].at = "compare"
  /\ Goto(p, IF process[p].content \in table THEN "published" ELSE "refused")
  /\ UNCHANGED <<files, clock, crashes>>

-----------------------------------------------------------------------------
(* resolve_snapshot                                                        *)

\* snapshot_dir.exists()
Resolve(p, c) ==
  /\ process[p].at \in Ended
  /\ process' = [process EXCEPT ![p] = Begun(IF c \in dir THEN "open" ELSE "raised", c)]
  /\ UNCHANGED <<files, clock, crashes>>

\* _load_manifest of the snapshot asked for.
OpenManifest(p) ==
  /\ process[p].at = "open"
  /\ IF created[process[p].content] = 0
       THEN Goto(p, "raised")
       ELSE process' = [process EXCEPT ![p].at = "read",
                                       ![p].stamp = created[process[p].content]]
  /\ UNCHANGED <<files, clock, crashes>>

\* "latest": base_dir.iterdir() lists the directories there are.
ListDirectories(p) ==
  /\ process[p].at \in Ended
  /\ process' = [process EXCEPT ![p] =
                   [Idle EXCEPT !.at = "scan", !.left = dir, !.seen = created]]
  /\ UNCHANGED <<files, clock, crashes>>

\* (A bug to detect: the first candidate with a manifest is kept.)
ScanKeepingFirst(p, c) ==
  /\ process[p].at = "scan"
  /\ c \in process[p].left
  /\ process' = [process EXCEPT ![p] =
       IF created[c] # 0 /\ @.stamp = 0
         THEN [@ EXCEPT !.left = process[p].left \ {c}, !.content = c, !.stamp = created[c]]
         ELSE [@ EXCEPT !.left = process[p].left \ {c}]]
  /\ UNCHANGED <<files, clock, crashes>>

\* One candidate, in the order the file system lists them.
Scan(p, c) ==
  /\ process[p].at = "scan"
  /\ c \in process[p].left
  /\ process' = [process EXCEPT ![p] =
       IF created[c] > @.stamp
         THEN [@ EXCEPT !.left = process[p].left \ {c}, !.content = c, !.stamp = created[c]]
         ELSE [@ EXCEPT !.left = process[p].left \ {c}]]
  /\ UNCHANGED <<files, clock, crashes>>

\* (A bug to detect: nobody looks whether there was a candidate.)
ChooseUnchecked(p) ==
  /\ process[p].at = "scan"
  /\ process[p].left = {}
  /\ Goto(p, "read")
  /\ UNCHANGED <<files, clock, crashes>>

\* No candidate left: the newest one, or FileNotFoundError.
Choose(p) ==
  /\ process[p].at = "scan"
  /\ process[p].left = {}
  /\ Goto(p, IF process[p].content = NoContent THEN "raised" ELSE "read")
  /\ UNCHANGED <<files, clock, crashes>>

\* The table and its hash.
ReadTable(p) ==
  /\ process[p].at = "read"
  /\ Goto(p, IF process[p].content \in table THEN "resolved" ELSE "raised")
  /\ UNCHANGED <<files, clock, crashes>>

-----------------------------------------------------------------------------
(* Around the processes.                                                   *)

Tick ==
  /\ clock' \in 1..MaxClock
  /\ UNCHANGED <<files, process, crashes>>

\* The process is killed, or a file operation raises OSError: what is on
\* disk stays, and there is no cleanup.
Crash(p) ==
  /\ process[p].at \notin Ended
  /\ crashes < MaxCrashes
  /\ crashes' = crashes + 1
  /\ process' = [process EXCEPT ![p] = Idle]
  /\ UNCHANGED <<files, clock>>

Next ==
  \/ \E p \in Processes :
       \/ \E c \in Contents : Publish(p, c) \/ Resolve(p, c) \/ Scan(p, c)
       \/ MakeDirectory(p) \/ WriteTable(p) \/ Stamp(p) \/ WriteManifest(p)
       \/ LoadExisting(p) \/ Compare(p)
       \/ OpenManifest(p) \/ ListDirectories(p) \/ Choose(p) \/ ReadTable(p)
       \/ Crash(p)
  \/ Tick

Spec == Init /\ [][Next]_vars

-----------------------------------------------------------------------------
(* Properties.                                                             *)

\* Every variable stays in its domain while processes publish, resolve and
\* die (snapshot.py).
TypeOK ==
  /\ dir \in SUBSET Contents
  /\ table \in SUBSET Contents
  /\ created \in [Contents -> 0..MaxClock]
  /\ process \in [Processes -> ProcessStates]
  /\ \A p \in Processes :
       process[p].at \notin {"idle", "scan", "raised"} => process[p].content \in Contents
  /\ clock \in 1..MaxClock
  /\ crashes \in 0..MaxCrashes

\* A manifest never promises a table that is not there, wherever a publisher
\* is interrupted: who finds a manifest can read the snapshot.
ManifestIsLast == \A c \in Contents : created[c] # 0 => c \in table

\* A published snapshot is immutable: no later, slower or restarted publisher
\* of the same rows changes its manifest.
Immutable ==
  [][\A c \in Contents : created[c] # 0 => created'[c] = created[c]]_vars

\* Every publisher of the same rows, first or not, returns the reference of
\* the one manifest, and a reader that holds a snapshot knows its date.
ReferencesAgree ==
  \A p \in Processes :
    process[p].at \in {"compare", "read", "published", "resolved"} =>
      process[p].stamp = created[process[p].content]

\* "latest" is at least as new as every snapshot that was complete when it
\* was asked for, whatever is published while it looks.
LatestIsFresh ==
  \A p \in Processes :
    process[p].at \in {"read", "resolved"} =>
      \A c \in Contents : process[p].stamp >= process[p].seen[c]

\* A directory nobody is filling and that has no manifest, which makes its
\* rows impossible to publish from then on, was left behind by a crash.
OnlyCrashesStrand ==
  Cardinality({c \in dir : created[c] = 0
                 /\ \A p \in Processes : ~(/\ process[p].content = c
                                           /\ process[p].at \in {"table", "stamp", "manifest"})})
    <= crashes

-----------------------------------------------------------------------------
(* A statement of the tests that the code falsifies.                       *)

\* Publishing rows that somebody else is publishing at the same time returns
\* the reference of their snapshot: without a crash publish_snapshot never
\* raises.
RepublishSucceeds == crashes = 0 => \A p \in Processes : process[p].at # "refused"
=============================================================================
