------------------------------ MODULE EventLog ------------------------------
(***************************************************************************)
(* FileEventStore (simulation/event_store.py) for one run: writers append  *)
(* and clear under a lock, readers take no lock, the disk may fail, and    *)
(* the process may be killed and started again on the same file.           *)
(*                                                                         *)
(* A line that exceeds the buffers of a file object reaches the file in    *)
(* two pieces, a failing write cuts one short.  Whoever has a file open    *)
(* keeps it when it is unlinked.  Abstracted: no cut spares a whole line   *)
(* but for its line feed, and a reader's own errors are not told apart.    *)
(***************************************************************************)
EXTENDS Integers, Sequences, FiniteSets

CONSTANTS
  Writers, Readers,
  Owner,       \* the writer of each event
  Large,       \* the events whose line is written in two pieces
  Stamp,       \* their timestamps: wall-clock times taken before the append
  None,        \* nobody
  MaxClears, MaxKills, MaxFaults \* bounds

Events == DOMAIN Owner

ASSUME EventLogAssumption ==
  /\ Owner \in [Events -> Writers] /\ Large \subseteq Events
  /\ Stamp \in [Events -> Nat]
  /\ None \notin Writers \cup Events
  /\ MaxClears \in Nat /\ MaxKills \in Nat /\ MaxFaults \in Nat

VARIABLES
  lock,    \* the writer that holds _lock
  path,    \* the file run_path names, 0 if there is none
  files,   \* the pieces in each file ever made
  pending, \* the event each writer appends, None outside append
  reader,  \* [at, file, seen, lines, result] of each reader: the pieces count has
           \* read and those that ended a line when it read them
  clears, kills, faults,
  appended, \* history: events whose append returned since the last clear
  begun,    \* history: events of which something was written
  expected, \* history, by reader: of what was appended when the read began,
            \* what no clear has removed since
  grown     \* history, by reader: events whose line went on during the read

vars == <<lock, path, files, pending, reader, clears, kills, faults,
          appended, begun, expected, grown>>
stored == <<lock, path, files, pending, clears, kills, faults, appended, begun>>
read == <<reader, expected, grown>>

Idle == [at |-> "idle", file |-> 0, seen |-> 0, lines |-> {}, result |-> <<>>]

Init ==
  /\ lock = None /\ path = 0 /\ files = <<>>
  /\ pending = [w \in Writers |-> None]
  /\ reader = [r \in Readers |-> Idle]
  /\ clears = 0 /\ kills = 0 /\ faults = 0
  /\ appended = {} /\ begun = {}
  /\ expected = [r \in Readers |-> {}] /\ grown = [r \in Readers |-> {}]

-----------------------------------------------------------------------------
(* append and clear.                                                       *)

\* The event and its timestamp are made; then the lock is waited for.
Begin(w, e) ==
  /\ pending[w] = None
  /\ Owner[e] = w /\ e \notin begun
  /\ pending' = [pending EXCEPT ![w] = e]
  /\ UNCHANGED <<lock, path, files, clears, kills, faults, appended, begun, read>>

\* `with self._lock`, and open("a") makes the file if there is none.
Enter(w) ==
  /\ pending[w] # None
  /\ lock' = w
  /\ IF path = 0 THEN files' = Append(files, <<>>) /\ path' = Len(files) + 1
                 ELSE UNCHANGED <<files, path>>
  /\ UNCHANGED <<pending, clears, kills, faults, appended, begun, read>>

AcquireAlways(w) == Enter(w)  \* mutant: the store has no lock

Acquire(w) == lock = None /\ Enter(w)

Piece(e, part) == [event |-> e, part |-> part]
Put(piece) == files' = [files EXCEPT ![path] = Append(@, piece)]

\* The first buffers of a long line are flushed by write().
WriteHead(w) ==
  /\ lock = w /\ pending[w] \in Large \ begun
  /\ Put(Piece(pending[w], "head"))
  /\ begun' = begun \cup {pending[w]}
  /\ UNCHANGED <<lock, path, pending, clears, kills, faults, appended, read>>

Leave(w) ==
  /\ lock' = None
  /\ pending' = [pending EXCEPT ![w] = None]

\* The last piece the writer adds to its line.
PutLast(w, part) ==
  /\ Put(Piece(pending[w], part))
  /\ begun' = begun \cup {pending[w]}
  /\ grown' = [r \in Readers |-> IF reader[r].at # "idle" /\ pending[w] \in begun
                                  THEN grown[r] \cup {pending[w]} ELSE grown[r]]

PutEnd(w) ==
  \/ pending[w] \in Large \cap begun /\ PutLast(w, "tail")
  \/ pending[w] \notin Large /\ PutLast(w, "whole")

\* The file is closed, which writes the rest of the line, then the lock is
\* released and append returns.
Close(w) ==
  /\ lock = w
  /\ PutEnd(w) /\ Leave(w)
  /\ appended' = appended \cup {pending[w]}
  /\ UNCHANGED <<path, reader, clears, kills, faults, expected>>

\* write() or close() raises OSError: of what was left of the line nothing, a
\* part or all is in the file, and the lock is released.
AppendFails(w) ==
  /\ lock = w /\ faults < MaxFaults
  /\ faults' = faults + 1
  /\ Leave(w)
  /\ \/ UNCHANGED <<files, begun, grown>>
     \/ PutLast(w, "torn")
     \/ PutEnd(w)
  /\ UNCHANGED <<path, reader, clears, kills, appended, expected>>

\* open() raises: nothing was made.
OpenFails(w) ==
  /\ pending[w] # None /\ lock = None /\ faults < MaxFaults
  /\ faults' = faults + 1
  /\ Leave(w)
  /\ UNCHANGED <<path, files, clears, kills, appended, begun, read>>

ClearUnlocked ==  \* mutant
  /\ clears < MaxClears
  /\ clears' = clears + 1
  /\ path' = 0
  /\ appended' = {}
  /\ expected' = [r \in Readers |-> {}]
  /\ UNCHANGED <<lock, files, pending, reader, kills, faults, begun, grown>>

\* clear: the file loses its name.
Clear ==
  /\ lock = None /\ clears < MaxClears
  /\ clears' = clears + 1
  /\ path' = 0
  /\ appended' = {}
  /\ expected' = [r \in Readers |-> {}]
  /\ UNCHANGED <<lock, files, pending, reader, kills, faults, begun, grown>>

-----------------------------------------------------------------------------
(* get_events and count.                                                   *)

\* run_path.exists()
Exists(r) ==
  /\ reader[r].at = "idle"
  /\ expected' = [expected EXCEPT ![r] = appended]
  /\ reader' = [reader EXCEPT ![r].at = IF path = 0 THEN "returned" ELSE "open"]
  /\ UNCHANGED <<stored, grown>>

\* open("r"), FileNotFoundError if a clear came between.
Open(r) ==
  /\ reader[r].at = "open"
  /\ reader' = [reader EXCEPT ![r].at = IF path = 0 THEN "raised" ELSE "read",
                              ![r].file = path]
  /\ UNCHANGED <<stored, expected, grown>>

\* A piece that was cut off does not end its line, which goes on with whatever
\* is written next; only the last line may lack its end.
Cut(piece) == piece.part \in {"head", "torn"}
LineEnds(pieces) == {i \in DOMAIN pieces : ~Cut(pieces[i]) \/ i = Len(pieces)}
Begins(pieces, i) == i = 1 \/ ~Cut(pieces[i - 1])

\* json.loads accepts one whole event, here in the line that ends with piece i.
Parses(pieces, i) ==
  \/ pieces[i].part = "whole" /\ Begins(pieces, i)
  \/ /\ pieces[i].part = "tail" /\ i > 1
     /\ pieces[i - 1] = Piece(pieces[i].event, "head") /\ Begins(pieces, i - 1)

\* The given lines, sorted by timestamp, stable.
Sortings(pieces, ends) ==
  {places \in [1..Cardinality(ends) -> ends] :
     /\ \A i \in ends : \E k \in DOMAIN places : places[k] = i
     /\ \A j, k \in DOMAIN places : j < k =>
          LET s == Stamp[pieces[places[j]].event]
              t == Stamp[pieces[places[k]].event]
          IN  s < t \/ (s = t /\ places[j] < places[k])}

Return(r, pieces, ends) ==
  \E places \in Sortings(pieces, ends) :
    reader' = [reader EXCEPT ![r].at = "returned",
                 ![r].result = [k \in DOMAIN places |-> pieces[places[k]].event]]

GetEventsSkipping(r) ==  \* mutant: lines that do not parse are skipped
  LET pieces == files[reader[r].file]
  IN  /\ reader[r].at = "read"
      /\ Return(r, pieces, {i \in LineEnds(pieces) : Parses(pieces, i)})
      /\ UNCHANGED <<stored, expected, grown>>

\* get_events reads until there is no more: what the file holds then.  A line
\* it read before its end was written does not parse.
GetEvents(r) ==
  LET pieces == files[reader[r].file]
  IN  /\ reader[r].at = "read"
      /\ IF \A i \in LineEnds(pieces) : Parses(pieces, i)
           THEN Return(r, pieces, LineEnds(pieces))
           ELSE reader' = [reader EXCEPT ![r].at = "raised"]
      /\ UNCHANGED <<stored, expected, grown>>

Counting(r) == reader[r].at \in {"read", "counting"}

\* The line after those read ends with piece i, as the file is now.
NextEnd(pieces, seen, i) ==
  /\ i > seen /\ i \in LineEnds(pieces)
  /\ \A j \in LineEnds(pieces) : j > seen => i <= j

\* The bytes after piece i are not those it was cut off from.
CutShort(pieces, i) ==
  Cut(pieces[i]) /\ (i < Len(pieces) => pieces[i + 1].event # pieces[i].event)

CountWhole(r) ==  \* mutant: only lines that parse are counted
  /\ Counting(r)
  /\ LET pieces == files[reader[r].file]
     IN \E i \in DOMAIN pieces :
          /\ NextEnd(pieces, reader[r].seen, i)
          /\ reader' = [reader EXCEPT ![r].at = "counting", ![r].seen = i,
                         ![r].lines = @ \cup {j \in {i} : Parses(pieces, j)}]
  /\ UNCHANGED <<stored, expected, grown>>

\* count takes the next line, which ends where the file ends now if nothing
\* else ends it.  A cut inside a character does not decode.
CountLine(r) ==
  /\ Counting(r)
  /\ LET pieces == files[reader[r].file]
     IN \E i \in DOMAIN pieces :
          /\ NextEnd(pieces, reader[r].seen, i)
          /\ \/ reader' = [reader EXCEPT ![r].at = "counting", ![r].seen = i,
                                         ![r].lines = @ \cup {i}]
             \/ /\ \E j \in (reader[r].seen + 1)..i : CutShort(pieces, j)
                /\ reader' = [reader EXCEPT ![r].at = "raised"]
  /\ UNCHANGED <<stored, expected, grown>>

\* It returns when there is no more to read.
CountEnd(r) ==
  /\ Counting(r)
  /\ reader[r].seen = Len(files[reader[r].file])
  /\ reader' = [reader EXCEPT ![r].at = "counted",
                              ![r].result = <<Cardinality(reader[r].lines)>>]
  /\ UNCHANGED <<stored, expected, grown>>

Done(r) ==
  /\ reader[r].at \in {"returned", "raised", "counted"}
  /\ reader' = [reader EXCEPT ![r] = Idle]
  /\ expected' = [expected EXCEPT ![r] = {}]
  /\ grown' = [grown EXCEPT ![r] = {}]
  /\ UNCHANGED stored

-----------------------------------------------------------------------------
\* The process is killed and another opens the store on the same directory.
Kill ==
  /\ kills < MaxKills
  /\ kills' = kills + 1
  /\ lock' = None
  /\ pending' = [w \in Writers |-> None]
  /\ reader' = [r \in Readers |-> Idle]
  /\ expected' = [r \in Readers |-> {}] /\ grown' = [r \in Readers |-> {}]
  /\ UNCHANGED <<path, files, clears, faults, appended, begun>>

Next ==
  \/ \E w \in Writers :
       \/ \E e \in Events : Begin(w, e)
       \/ Acquire(w) \/ WriteHead(w) \/ Close(w) \/ AppendFails(w) \/ OpenFails(w)
  \/ Clear
  \/ \E r \in Readers :
       Exists(r) \/ Open(r) \/ GetEvents(r) \/ CountLine(r) \/ CountEnd(r) \/ Done(r)
  \/ Kill

Spec == Init /\ [][Next]_vars

-----------------------------------------------------------------------------
(* Properties.                                                             *)

\* The lock has one holder, who appends, an appended event was begun, and a
\* file is only named once it is there.
TypeOK ==
  /\ lock \in Writers \cup {None}
  /\ lock # None => pending[lock] # None /\ path # 0
  /\ path \in 0..Len(files)
  /\ pending \in [Writers -> Events \cup {None}]
  /\ \A r \in Readers : Counting(r) => reader[r].file \in 1..Len(files)
  /\ appended \subseteq begun /\ \A r \in Readers : expected[r] \subseteq appended
  /\ clears \in 0..MaxClears /\ kills \in 0..MaxKills /\ faults \in 0..MaxFaults

\* A read that returns, returns whole events, each once, in the order of
\* their timestamps, and all that were there when it began, although it takes
\* no lock: it is missing none that a clear did not remove, not even after a
\* kill, when it raises instead (event_store.py, get_events).
ReadsComplete ==
  \A r \in Readers : reader[r].at = "returned" =>
    LET result == reader[r].result
    IN  /\ \A e \in expected[r] : \E i \in DOMAIN result : result[i] = e
        /\ \A i \in DOMAIN result : result[i] \in begun
        /\ \A i, j \in DOMAIN result : result[i] = result[j] => i = j
        /\ \A i, j \in DOMAIN result : i < j => Stamp[result[i]] <= Stamp[result[j]]

\* count is never less than the events that were there when it began, and never
\* more than those begun when it ends and once more those whose line it may
\* have met half written, torn and joined lines included (event_store.py, count).
CountsBetween ==
  \A r \in Readers : reader[r].at = "counted" =>
    reader[r].result[1]
      \in Cardinality(expected[r])..(Cardinality(begun) + Cardinality(grown[r]))

\* The lines get_events cannot read, in any file.
Spoiled ==
  UNION {{f} \X {i \in LineEnds(files[f]) : ~Parses(files[f], i)} : f \in DOMAIN files}

\* A kill or a failed append spoils one line at the most, its own or the next
\* one, which joins it; nothing else spoils any (event_store.py, append).
DamageBounded == lock = None => Cardinality(Spoiled) <= kills + faults
=============================================================================
