--------------------------- MODULE EventLogProofs ---------------------------
(***************************************************************************)
(* Proofs about EventLog, for every number of writers, readers, events,    *)
(* clears, faults and kills.  The inductive invariant says where the       *)
(* pieces of each event are: in one place at most (Unique), what follows a *)
(* head right behind it (Adjacent, Tails), those of an event being         *)
(* appended at the end of the named file (Appending), those of an appended *)
(* event in the named file (Kept); which lines count has taken so far      *)
(* (Lined); and that kills and faults account for every event cut short    *)
(* (Blamed).                                                               *)
(***************************************************************************)
EXTENDS EventLog, SequenceTheorems, FiniteSetTheorems, TLAPS

Pieces == [event : Events, part : {"head", "torn", "tail", "whole"}]
Moments == {"idle", "open", "read", "counting", "returned", "raised", "counted"}
ReaderType == [at : Moments, file : Nat, seen : Nat, lines : SUBSET Nat,
               result : Seq(Events \cup Nat)]

Shape ==
  /\ files \in Seq(Seq(Pieces))
  /\ begun \subseteq Events /\ IsFiniteSet(begun)
  /\ reader \in [Readers -> ReaderType]
  /\ expected \in [Readers -> SUBSET Events] /\ grown \in [Readers -> SUBSET begun]

\* Whatever is in a file was begun; long events are in two pieces.
Written ==
  \A f \in DOMAIN files : \A i \in DOMAIN files[f] :
    /\ files[f][i].event \in begun
    /\ files[f][i].part = "whole" => files[f][i].event \notin Large
    /\ files[f][i].part \in {"head", "tail"} => files[f][i].event \in Large

\* No event has two heads or two others, in any file.
Unique ==
  \A f, g \in DOMAIN files : \A i \in DOMAIN files[f], j \in DOMAIN files[g] :
    /\ files[f][i].event = files[g][j].event
    /\ files[f][i].part = "head" <=> files[g][j].part = "head"
    => f = g /\ i = j

\* What an event has behind its head is the next piece of the same file.
Adjacent ==
  \A f, g \in DOMAIN files : \A i \in DOMAIN files[f], j \in DOMAIN files[g] :
    /\ files[f][i].event = files[g][j].event
    /\ files[f][i].part # "head" /\ files[g][j].part = "head"
    => f = g /\ i = j + 1

\* A tail has a head before it.
Tails ==
  \A f \in DOMAIN files : \A i \in DOMAIN files[f] :
    files[f][i].part = "tail" =>
      i > 1 /\ files[f][i - 1] = Piece(files[f][i].event, "head")

\* An event being appended has not ended, and is begun only by who holds the
\* lock, at the end of the named file.
Unended(w) ==
  \A f \in DOMAIN files : \A i \in DOMAIN files[f] :
    files[f][i].event = pending[w] => files[f][i].part = "head"

AtEnd(w) ==
  pending[w] \in begun =>
    /\ lock = w /\ Len(files[path]) > 0
    /\ files[path][Len(files[path])] = Piece(pending[w], "head")

Appending ==
  \A w \in Writers :
    pending[w] # None => Owner[pending[w]] = w /\ Unended(w) /\ AtEnd(w)

\* An appended event has ended in the named file.
Kept ==
  \A e \in appended :
    path # 0 /\ \E i \in DOMAIN files[path] :
                  files[path][i].event = e /\ ~Cut(files[path][i])

\* Who has a file open reads the named one, unless a clear took its name.
Unmoved ==
  \A r \in Readers :
    /\ Counting(r) /\ expected[r] # {} => reader[r].file = path
    /\ reader[r].at \in {"idle", "open", "read"} =>
         reader[r].result = <<>> /\ reader[r].seen = 0 /\ reader[r].lines = {}

\* The lines counted in what was seen of a file: every piece that ends one, and
\* a head whose event goes on behind it only if it went on since.
LinesOf(pieces, seen, lines, grew) ==
  /\ seen <= Len(pieces) /\ lines \subseteq 1..seen
  /\ \A i \in 1..seen : ~Cut(pieces[i]) => i \in lines
  /\ \A i \in lines :
       /\ pieces[i].part = "head" /\ i < Len(pieces)
       /\ pieces[i + 1].event = pieces[i].event
       => pieces[i].event \in grew

Lined ==
  \A r \in Readers : Counting(r) =>
    LinesOf(files[reader[r].file], reader[r].seen, reader[r].lines, grown[r])

\* The events that have no end, without the one being appended, are no more
\* than the kills and faults.
Stranded ==
  {e \in begun : \A f \in DOMAIN files : \A i \in DOMAIN files[f] :
                   files[f][i].event = e => Cut(files[f][i])}
Held == {e \in begun : lock # None /\ e = pending[lock]}
Blamed == Cardinality(Stranded \ Held) <= kills + faults

Places ==
  /\ Shape /\ TypeOK /\ Written /\ Unique /\ Adjacent /\ Tails /\ Appending /\ Kept
  /\ Unmoved /\ Lined

IInv == Places /\ Blamed /\ ReadsComplete /\ CountsBetween

-----------------------------------------------------------------------------
(* How the files grow.                                                     *)

\* The files have no gaps.
LEMMA Dense ==
  ASSUME Shape
  PROVE  /\ DOMAIN files = 1..Len(files) /\ Len(files) \in Nat
         /\ \A f \in DOMAIN files :
              /\ files[f] \in Seq(Pieces) /\ Len(files[f]) \in Nat
              /\ DOMAIN files[f] = 1..Len(files[f])
              /\ \A i \in DOMAIN files[f] : files[f][i] \in Pieces
  BY DEF Shape

\* A piece goes to the end of the named file and changes nothing else.
LEMMA Extended ==
  ASSUME Shape, path \in DOMAIN files, NEW piece \in Pieces, Put(piece)
  PROVE  /\ files' \in Seq(Seq(Pieces)) /\ DOMAIN files' = DOMAIN files
         /\ Len(files') = Len(files)
         /\ \A f \in DOMAIN files : f # path => files'[f] = files[f]
         /\ Len(files'[path]) = Len(files[path]) + 1
         /\ DOMAIN files'[path] = 1..(Len(files[path]) + 1)
         /\ \A i \in DOMAIN files[path] : files'[path][i] = files[path][i]
         /\ files'[path][Len(files[path]) + 1] = piece
<1> DEFINE longer == Append(files[path], piece)
<1>1. files[path] \in Seq(Pieces) /\ files \in Seq(Seq(Pieces))
    BY DEF Shape
<1>2. /\ longer \in Seq(Pieces) /\ Len(longer) = Len(files[path]) + 1
      /\ DOMAIN longer = 1..(Len(files[path]) + 1)
      /\ \A i \in DOMAIN files[path] : longer[i] = files[path][i]
      /\ longer[Len(files[path]) + 1] = piece
    BY <1>1
<1>3. files' = [files EXCEPT ![path] = longer]
    BY DEF Put
<1> HIDE DEF longer
<1>4. files' \in Seq(Seq(Pieces)) /\ Len(files') = Len(files) /\ DOMAIN files' = DOMAIN files
    BY <1>1, <1>2, <1>3
<1>5. files'[path] = longer /\ \A f \in DOMAIN files : f # path => files'[f] = files[f]
    BY <1>1, <1>3
<1> QED
    BY <1>2, <1>4, <1>5

\* Where a piece of the longer files comes from.
LEMMA Older ==
  ASSUME Shape, path \in DOMAIN files, NEW piece \in Pieces, Put(piece),
         NEW f \in DOMAIN files', NEW i \in DOMAIN files'[f]
  PROVE  /\ f \in DOMAIN files
         /\ \/ i \in DOMAIN files[f] /\ files'[f][i] = files[f][i]
            \/ f = path /\ i = Len(files[path]) + 1 /\ files'[f][i] = piece
<1>1. f \in DOMAIN files
    BY Extended
<1>2. CASE f = path
    BY SMTT(30), <1>1, <1>2, Extended, Dense
<1>3. CASE f # path
    BY <1>1, <1>3, Extended
<1> QED
    BY <1>1, <1>2, <1>3

\* Acquire names a file and leaves what is in the others.
LEMMA Opened ==
  ASSUME Shape, TypeOK, NEW w \in Writers, Acquire(w)
  PROVE  /\ files' \in Seq(Seq(Pieces)) /\ path' \in DOMAIN files'
         /\ Len(files') \in Nat /\ Len(files) <= Len(files')
         /\ path # 0 => path' = path
         /\ \A f \in DOMAIN files : f \in DOMAIN files' /\ files'[f] = files[f]
         /\ \A f \in DOMAIN files' : \A i \in DOMAIN files'[f] :
              f \in DOMAIN files /\ i \in DOMAIN files[f] /\ files'[f][i] = files[f][i]
<1>0. files \in Seq(Seq(Pieces)) /\ path \in 0..Len(files)
    BY DEF Shape, TypeOK
<1>1. CASE path # 0
    BY <1>0, <1>1 DEF Acquire, Enter
<1>2. CASE path = 0
  <2>1. files' = Append(files, <<>>) /\ path' = Len(files) + 1
      BY <1>2 DEF Acquire, Enter
  <2>2. <<>> \in Seq(Pieces) /\ DOMAIN <<>> = {}
      OBVIOUS
  <2> DEFINE empty == <<>>
  <2>3. files' = Append(files, empty) /\ empty \in Seq(Pieces)
      BY <2>1, <2>2
  <2>4. DOMAIN empty = {}
      BY <2>2
  <2> HIDE DEF empty
  <2>5. /\ files' \in Seq(Seq(Pieces)) /\ DOMAIN files' = 1..(Len(files) + 1)
        /\ Len(files') = Len(files) + 1
        /\ \A f \in 1..Len(files) : files'[f] = files[f]
        /\ files'[Len(files) + 1] = empty
      BY <1>0, <2>3
  <2> QED
      BY <1>0, <1>2, <2>1, <2>4, <2>5
<1> QED
    BY <1>1, <1>2

\* Who holds the lock writes one piece of its event, and unless that is the
\* head, its append ends.
Puts(w, piece) ==
  /\ lock = w /\ w # None /\ pending[w] \in Events /\ path \in DOMAIN files /\ path # 0
  /\ piece = Piece(pending[w], piece.part) /\ piece.event = pending[w]
  /\ Put(piece) /\ begun' = begun \cup {pending[w]}
  /\ piece.part = "head" => /\ pending[w] \in Large \ begun
                            /\ UNCHANGED <<lock, pending, faults, appended, grown>>
  /\ piece.part = "whole" => pending[w] \notin Large
  /\ piece.part = "tail" => pending[w] \in Large \cap begun
  /\ piece.part # "head" => Leave(w) /\ PutLast(w, piece.part)
  /\ appended' \in {appended, appended \cup {pending[w]}}
  /\ Cut(piece) => appended' = appended
  /\ faults' \in {faults, faults + 1} /\ faults' <= MaxFaults
  /\ piece.part = "torn" => faults' = faults + 1
  /\ UNCHANGED <<path, reader, clears, kills, expected>>

\* An append fails and leaves nothing more in the file.
GivesUp(w) ==
  /\ pending[w] \in Events /\ lock \in {w, None} /\ w # None
  /\ faults < MaxFaults /\ faults' = faults + 1
  /\ Leave(w)
  /\ UNCHANGED <<path, files, clears, kills, appended, begun, read>>

Reads(r) ==
  Exists(r) \/ Open(r) \/ GetEvents(r) \/ CountLine(r) \/ CountEnd(r) \/ Done(r)

\* The steps, sorted by what they do to the files.
LEMMA Steps ==
  Shape /\ TypeOK /\ [Next]_vars =>
    \/ \E w \in Writers :
         \/ \E e \in Events : Begin(w, e)
         \/ Acquire(w) \/ GivesUp(w)
         \/ \E piece \in Pieces : Puts(w, piece)
    \/ Clear \/ Kill \/ UNCHANGED vars
    \/ \E r \in Readers : Reads(r)
<1> SUFFICES ASSUME Shape, TypeOK, [Next]_vars
             PROVE  \/ \E w \in Writers :
                         \/ \E e \in Events : Begin(w, e)
                         \/ Acquire(w) \/ GivesUp(w)
                         \/ \E piece \in Pieces : Puts(w, piece)
                    \/ Clear \/ Kill \/ UNCHANGED vars
                    \/ \E r \in Readers : Reads(r)
    OBVIOUS
<1>0. faults \in Nat /\ MaxFaults \in Nat /\ faults <= MaxFaults /\ None \notin Writers
    BY EventLogAssumption DEF TypeOK
\* Who holds the lock appends to a file that is there.
<1>1. ASSUME NEW w \in Writers, lock = w
      PROVE  /\ w # None /\ pending[w] \in Events /\ path \in DOMAIN files /\ path # 0
             /\ \A part \in {"head", "torn", "tail", "whole"} :
                  /\ Piece(pending[w], part) \in Pieces
                  /\ Piece(pending[w], part).event = pending[w]
                  /\ Piece(pending[w], part).part = part
  <2>1. w # None /\ pending[w] \in Events /\ path # 0
      BY <1>0, <1>1 DEF TypeOK
  <2>2. path \in DOMAIN files
      BY <2>1, Dense DEF TypeOK
  <2> QED
      BY <2>1, <2>2 DEF Piece, Pieces
<1>2. ASSUME NEW w \in Writers, WriteHead(w)
      PROVE  \E piece \in Pieces : Puts(w, piece)
  <2> DEFINE piece == Piece(pending[w], "head")
  <2>1. lock = w /\ pending[w] \in Large \ begun /\ Put(piece)
        /\ begun' = begun \cup {pending[w]}
        /\ UNCHANGED <<lock, path, pending, clears, kills, faults, appended, read>>
      BY <1>2 DEF WriteHead
  <2>2. piece \in Pieces /\ piece.event = pending[w] /\ piece.part = "head"
      BY <1>1, <2>1
  <2> HIDE DEF piece
  <2>3. piece = Piece(pending[w], piece.part)
      BY <2>2 DEF piece
  <2>4. Puts(w, piece)
      BY <1>0, <1>1, <2>1, <2>2, <2>3 DEF Puts, read
  <2> QED
      BY <2>2, <2>4
\* The last piece, written by an append that returns or by one that fails.
<1>3. ASSUME NEW w \in Writers, lock = w,
             NEW part \in {"torn", "tail", "whole"}, PutLast(w, part), Leave(w),
             part = "whole" => pending[w] \notin Large,
             part = "tail" => pending[w] \in Large \cap begun,
             part = "torn" => faults' = faults + 1 /\ appended' = appended,
             faults' \in {faults, faults + 1} /\ faults' <= MaxFaults,
             appended' \in {appended, appended \cup {pending[w]}},
             UNCHANGED <<path, reader, clears, kills, expected>>
      PROVE  \E piece \in Pieces : Puts(w, piece)
  <2> DEFINE piece == Piece(pending[w], part)
  <2>1. piece \in Pieces /\ piece.event = pending[w] /\ piece.part = part
      BY <1>1, <1>3
  <2>2. Put(piece) /\ begun' = begun \cup {pending[w]}
      BY <1>3 DEF PutLast
  <2> HIDE DEF piece
  <2>3. piece = Piece(pending[w], piece.part)
      BY <2>1 DEF piece
  <2>4. Cut(piece) <=> part = "torn"
      BY <2>1 DEF Cut
  <2>5. Puts(w, piece)
      BY <1>1, <1>3, <2>1, <2>2, <2>3, <2>4 DEF Puts
  <2> QED
      BY <2>1, <2>5
<1>4. ASSUME NEW w \in Writers, Close(w) PROVE \E piece \in Pieces : Puts(w, piece)
  <2>1. /\ lock = w /\ Leave(w) /\ appended' = appended \cup {pending[w]} /\ faults' = faults
        /\ UNCHANGED <<path, reader, clears, kills, expected>>
      BY <1>4 DEF Close
  <2>2. CASE pending[w] \in Large \cap begun /\ PutLast(w, "tail")
      BY <1>0, <1>3, <2>1, <2>2
  <2>3. CASE pending[w] \notin Large /\ PutLast(w, "whole")
      BY <1>0, <1>3, <2>1, <2>3
  <2> QED
      BY <1>4, <2>2, <2>3 DEF Close, PutEnd
<1>5. ASSUME NEW w \in Writers, AppendFails(w)
      PROVE  GivesUp(w) \/ \E piece \in Pieces : Puts(w, piece)
  <2>1. /\ lock = w /\ Leave(w) /\ appended' = appended /\ faults' = faults + 1
        /\ faults < MaxFaults
        /\ UNCHANGED <<path, reader, clears, kills, expected>>
      BY <1>5 DEF AppendFails
  <2>2. faults' <= MaxFaults
      BY <1>0, <2>1
  <2>3. CASE UNCHANGED <<files, begun, grown>>
      BY <1>1, <2>1, <2>3 DEF GivesUp, read
  <2>4. CASE PutLast(w, "torn")
      BY <1>3, <2>1, <2>2, <2>4
  <2>5. CASE pending[w] \in Large \cap begun /\ PutLast(w, "tail")
      BY <1>3, <2>1, <2>2, <2>5
  <2>6. CASE pending[w] \notin Large /\ PutLast(w, "whole")
      BY <1>3, <2>1, <2>2, <2>6
  <2> QED
      BY <1>5, <2>3, <2>4, <2>5, <2>6 DEF AppendFails, PutEnd
<1>6. ASSUME NEW w \in Writers, OpenFails(w) PROVE GivesUp(w)
    BY <1>0, <1>6 DEF OpenFails, GivesUp, TypeOK
<1> QED
    BY <1>2, <1>4, <1>5, <1>6 DEF Next, Reads

\* A reader changes nothing that is stored.
LEMMA ReadsOnly ==
  ASSUME NEW r \in Readers, Reads(r)
  PROVE  UNCHANGED stored
  BY DEF Reads, Exists, Open, GetEvents, CountLine, CountEnd, Done

\* Only an append touches the files.
LEMMA OthersRead ==
  Shape /\ TypeOK /\ [Next]_vars =>
    \/ \E w \in Writers : Acquire(w) \/ \E piece \in Pieces : Puts(w, piece)
    \/ UNCHANGED <<files, begun>>
  BY Steps, ReadsOnly DEF stored, vars, Begin, GivesUp, Clear, Kill

-----------------------------------------------------------------------------
(* The invariant, part by part.                                            *)

LEMMA InitInv == Init => IInv
<1> SUFFICES ASSUME Init PROVE IInv
    OBVIOUS
<1> USE EventLogAssumption DEF Init
<1>1. Shape
  <2>1. Idle \in ReaderType
      BY DEF Idle, Moments, ReaderType
  <2> QED
      BY <2>1, FS_EmptySet DEF Shape
<1>2. TypeOK
    BY DEF TypeOK, Idle, Counting
<1>3. /\ DOMAIN files = {}
      /\ \A r \in Readers : /\ reader[r].at = "idle" /\ reader[r].result = <<>>
                            /\ reader[r].seen = 0 /\ reader[r].lines = {}
    BY DEF Idle
<1>4. Written /\ Unique /\ Adjacent /\ Tails
    BY <1>3 DEF Written, Unique, Adjacent, Tails
<1>5. Appending /\ Kept /\ Unmoved /\ Lined /\ ReadsComplete /\ CountsBetween
    BY <1>3 DEF Appending, Kept, Unmoved, Lined, Counting, ReadsComplete, CountsBetween
<1>6. Blamed
  <2>1. Stranded \ Held = {}
      BY DEF Stranded
  <2>2. Cardinality(Stranded \ Held) = 0
      BY <2>1, FS_EmptySet
  <2> HIDE DEF Init
  <2>3. kills = 0 /\ faults = 0
      BY DEF Init
  <2> QED
      BY <2>2, <2>3 DEF Blamed
<1> QED
    BY <1>1, <1>2, <1>4, <1>5, <1>6 DEF IInv, Places

LEMMA WrittenStep == Places /\ [Next]_vars => Written'
<1> SUFFICES ASSUME Places, [Next]_vars PROVE Written'
    OBVIOUS
<1> USE DEF Places
<1>1. ASSUME NEW w \in Writers, Acquire(w) PROVE Written'
  <2>1. begun' = begun
      BY <1>1 DEF Acquire, Enter
  <2> QED
      BY <1>1, <2>1, Opened DEF Written
<1>2. ASSUME NEW w \in Writers, NEW piece \in Pieces, Puts(w, piece) PROVE Written'
  <2>1. /\ Put(piece) /\ piece.event = pending[w]
        /\ piece.part = "whole" => pending[w] \notin Large
        /\ piece.part \in {"head", "tail"} => pending[w] \in Large
        /\ path \in DOMAIN files /\ begun' = begun \cup {pending[w]}
      BY <1>2 DEF Puts
  <2> SUFFICES ASSUME NEW f \in DOMAIN files', NEW i \in DOMAIN files'[f]
               PROVE  /\ files'[f][i].event \in begun'
                      /\ files'[f][i].part = "whole" => files'[f][i].event \notin Large
                      /\ files'[f][i].part \in {"head", "tail"} =>
                           files'[f][i].event \in Large
      BY DEF Written
  <2> QED
      BY <2>1, Older DEF Written
<1>3. CASE UNCHANGED <<files, begun>>
    BY <1>3 DEF Written
<1> QED
    BY <1>1, <1>2, <1>3, OthersRead

\* What is there of the event of a new piece: nothing, or its head at the end.
LEMMA Before ==
  ASSUME Places, NEW w \in Writers, NEW piece \in Pieces, Puts(w, piece),
         NEW f \in DOMAIN files, NEW i \in DOMAIN files[f],
         files[f][i].event = piece.event
  PROVE  /\ piece.part # "head" /\ files[f][i].part = "head"
         /\ f = path /\ i = Len(files[path])
<1> USE DEF Places
<1>1. /\ piece.event = pending[w] /\ pending[w] # None /\ path \in DOMAIN files
      /\ piece.part = "head" => pending[w] \notin begun
    BY EventLogAssumption DEF Puts
<1>2. pending[w] \in begun /\ files[f][i].part = "head" /\ piece.part # "head"
    BY <1>1 DEF Written, Appending, Unended
<1>3. Len(files[path]) > 0 /\ files[path][Len(files[path])] = Piece(pending[w], "head")
    BY <1>1, <1>2 DEF Appending, AtEnd
<1>4. Len(files[path]) \in DOMAIN files[path]
    BY <1>1, <1>3, Dense
<1>5. /\ files[path][Len(files[path])].event = files[f][i].event
      /\ files[path][Len(files[path])].part = "head"
    BY <1>1, <1>3 DEF Piece
<1> QED
    BY <1>1, <1>2, <1>4, <1>5 DEF Unique

LEMMA UniqueStep == Places /\ [Next]_vars => Unique' /\ Adjacent'
<1> SUFFICES ASSUME Places, [Next]_vars PROVE Unique' /\ Adjacent'
    OBVIOUS
<1> USE DEF Places
<1>1. ASSUME NEW w \in Writers, Acquire(w) PROVE Unique' /\ Adjacent'
  <2>1. Unique'
      BY <1>1, Opened DEF Unique
  <2>2. ASSUME NEW f \in DOMAIN files', NEW g \in DOMAIN files',
               NEW i \in DOMAIN files'[f], NEW j \in DOMAIN files'[g],
               files'[f][i].event = files'[g][j].event,
               files'[f][i].part # "head", files'[g][j].part = "head"
        PROVE  f = g /\ i = j + 1
    <3>1. /\ f \in DOMAIN files /\ i \in DOMAIN files[f] /\ files'[f][i] = files[f][i]
          /\ g \in DOMAIN files /\ j \in DOMAIN files[g] /\ files'[g][j] = files[g][j]
        BY <1>1, Opened
    <3> QED
        BY <2>2, <3>1 DEF Adjacent
  <2> QED
      BY <2>1, <2>2 DEF Adjacent
<1>2. ASSUME NEW w \in Writers, NEW piece \in Pieces, Puts(w, piece)
      PROVE  Unique' /\ Adjacent'
  <2>1. Put(piece) /\ path \in DOMAIN files
      BY <1>2 DEF Puts
  <2> SUFFICES ASSUME NEW f \in DOMAIN files', NEW g \in DOMAIN files',
                      NEW i \in DOMAIN files'[f], NEW j \in DOMAIN files'[g],
                      files'[f][i].event = files'[g][j].event
               PROVE  /\ (files'[f][i].part = "head" <=> files'[g][j].part = "head") =>
                           f = g /\ i = j
                      /\ files'[f][i].part # "head" /\ files'[g][j].part = "head" =>
                           f = g /\ i = j + 1
      BY DEF Unique, Adjacent
  <2>2. /\ \/ i \in DOMAIN files[f] /\ files'[f][i] = files[f][i]
           \/ f = path /\ i = Len(files[path]) + 1 /\ files'[f][i] = piece
        /\ \/ j \in DOMAIN files[g] /\ files'[g][j] = files[g][j]
           \/ g = path /\ j = Len(files[path]) + 1 /\ files'[g][j] = piece
        /\ f \in DOMAIN files /\ g \in DOMAIN files
      BY <2>1, Older
  <2>3. CASE /\ i \in DOMAIN files[f] /\ files'[f][i] = files[f][i]
             /\ j \in DOMAIN files[g] /\ files'[g][j] = files[g][j]
      BY <2>2, <2>3 DEF Unique, Adjacent
  <2>4. CASE /\ i \in DOMAIN files[f] /\ files'[f][i] = files[f][i]
             /\ g = path /\ j = Len(files[path]) + 1 /\ files'[g][j] = piece
    <3>1. files[f][i].part = "head" /\ piece.part # "head"
        BY <1>2, <2>2, <2>4, Before
    <3> QED
        BY <2>4, <3>1
  <2>5. CASE /\ f = path /\ i = Len(files[path]) + 1 /\ files'[f][i] = piece
             /\ j \in DOMAIN files[g] /\ files'[g][j] = files[g][j]
    <3>1. piece.part # "head" /\ files[g][j].part = "head" /\ g = path /\ j = Len(files[path])
        BY <1>2, <2>2, <2>5, Before
    <3> QED
        BY <2>5, <3>1
  <2>6. CASE f = path /\ g = path /\ i = Len(files[path]) + 1 /\ j = Len(files[path]) + 1
      BY <2>6
  <2> QED
      BY <2>2, <2>3, <2>4, <2>5, <2>6
<1>3. CASE UNCHANGED <<files, begun>>
    BY <1>3 DEF Unique, Adjacent
<1> QED
    BY <1>1, <1>2, <1>3, OthersRead

LEMMA TailsStep == Places /\ [Next]_vars => Tails'
<1> SUFFICES ASSUME Places, [Next]_vars PROVE Tails'
    OBVIOUS
<1> USE DEF Places
<1>1. ASSUME NEW w \in Writers, Acquire(w) PROVE Tails'
  <2> SUFFICES ASSUME NEW f \in DOMAIN files', NEW i \in DOMAIN files'[f],
                      files'[f][i].part = "tail"
               PROVE  i > 1 /\ files'[f][i - 1] = Piece(files'[f][i].event, "head")
      BY DEF Tails
  <2>1. f \in DOMAIN files /\ files'[f] = files[f] /\ i \in DOMAIN files[f]
      BY <1>1, Opened
  <2> QED
      BY <2>1 DEF Tails
<1>2. ASSUME NEW w \in Writers, NEW piece \in Pieces, Puts(w, piece) PROVE Tails'
  <2>1. /\ Put(piece) /\ piece.event = pending[w] /\ pending[w] # None
        /\ piece.part = "tail" => pending[w] \in begun
        /\ path \in DOMAIN files
      BY <1>2, EventLogAssumption DEF Puts
  <2> SUFFICES ASSUME NEW f \in DOMAIN files', NEW i \in DOMAIN files'[f],
                      files'[f][i].part = "tail"
               PROVE  i > 1 /\ files'[f][i - 1] = Piece(files'[f][i].event, "head")
      BY DEF Tails
  <2>2. f \in DOMAIN files
      BY <2>1, Older
  <2>3. CASE i \in DOMAIN files[f] /\ files'[f][i] = files[f][i]
    <3>1. i > 1 /\ files[f][i - 1] = Piece(files[f][i].event, "head")
        BY <2>2, <2>3 DEF Tails
    <3>2. i - 1 \in DOMAIN files[f]
        BY <2>2, <2>3, <3>1, Dense
    <3>3. files'[f][i - 1] = files[f][i - 1]
        BY <2>1, <2>2, <3>2, Extended
    <3> QED
        BY <2>3, <3>1, <3>3
  <2>4. CASE f = path /\ i = Len(files[path]) + 1 /\ files'[f][i] = piece
    <3> DEFINE n == Len(files[path])
    <3>1. n > 0 /\ files[path][n] = Piece(pending[w], "head")
        BY <2>1, <2>4 DEF Appending, AtEnd
    <3>2. n \in DOMAIN files[path] /\ n \in Nat
        BY <2>1, <3>1, Dense
    <3>3. files'[path][n] = files[path][n]
        BY <2>1, <3>2, Extended
    <3> QED
        BY <2>1, <2>4, <3>1, <3>2, <3>3
  <2> QED
      BY <2>1, <2>3, <2>4, Older
<1>3. CASE UNCHANGED <<files, begun>>
    BY <1>3 DEF Tails
<1> QED
    BY <1>1, <1>2, <1>3, OthersRead

\* What get_events returns: events of the lines, one for each.
Lists(log, ends, places) ==
  /\ [k \in DOMAIN places |-> log[places[k]].event] \in Seq(Events)
  /\ \A k \in DOMAIN places : places[k] \in ends
  /\ \A i \in ends : \E k \in DOMAIN places : places[k] = i
  /\ \A j, k \in DOMAIN places : places[j] = places[k] => j = k
  /\ \A j, k \in DOMAIN places : j < k =>
       Stamp[log[places[j]].event] <= Stamp[log[places[k]].event]

LEMMA Sorted ==
  ASSUME Shape, NEW f \in DOMAIN files, NEW ends \in SUBSET DOMAIN files[f],
         NEW places \in Sortings(files[f], ends)
  PROVE  Lists(files[f], ends, places)
<1> DEFINE n == Cardinality(ends)
           result == [k \in DOMAIN places |-> files[f][places[k]].event]
<1>1. /\ Len(files[f]) \in Nat /\ DOMAIN files[f] = 1..Len(files[f])
      /\ \A i \in DOMAIN files[f] : files[f][i].event \in Events
    BY Dense DEF Pieces
<1>2. n \in Nat
  <2>1. IsFiniteSet(DOMAIN files[f])
      BY <1>1, FS_Interval
  <2> QED
      BY <2>1, FS_Subset, FS_CardinalityType
<1>3. /\ places \in [1..n -> ends] /\ DOMAIN places = 1..n
      /\ \A i \in ends : \E k \in DOMAIN places : places[k] = i
      /\ \A j, k \in 1..n : j < k =>
           LET s == Stamp[files[f][places[j]].event]
               t == Stamp[files[f][places[k]].event]
           IN  s < t \/ (s = t /\ places[j] < places[k])
    BY DEF Sortings
<1> HIDE DEF n
<1>4. result \in [1..n -> Events]
    BY <1>1, <1>3
<1>5. result \in Seq(Events)
    BY <1>2, <1>4
<1>6. \A e \in Events : Stamp[e] \in Nat
    BY EventLogAssumption
<1>7. \A k \in 1..n : /\ places[k] \in Nat /\ Stamp[files[f][places[k]].event] \in Nat
                      /\ result[k] = files[f][places[k]].event
    BY <1>1, <1>3, <1>6
<1>8. ASSUME NEW j \in 1..n, NEW k \in 1..n, j < k
      PROVE  places[j] # places[k] /\ Stamp[result[j]] <= Stamp[result[k]]
    BY <1>3, <1>7, <1>8
<1>9. ASSUME NEW j \in 1..n, NEW k \in 1..n, j # k PROVE places[j] # places[k]
  <2>1. j < k \/ k < j
      BY <1>2, <1>9
  <2> QED
      BY <1>8, <2>1
<1>10. \A j, k \in 1..n : j < k =>
         Stamp[files[f][places[j]].event] <= Stamp[files[f][places[k]].event]
    BY <1>7, <1>8
<1> QED
    BY <1>3, <1>5, <1>9, <1>10 DEF Lists

\* The reader's step leaves it in its domain, and it reads a file that is there.
LEMMA Reading ==
  ASSUME Shape, TypeOK, Lined, NEW r \in Readers, Reads(r)
  PROVE  /\ reader' \in [Readers -> ReaderType]
         /\ \A q \in Readers : q # r => reader'[q] = reader[q] /\ expected'[q] = expected[q]
                                        /\ grown'[q] = grown[q]
         /\ Counting(r)' => \/ Open(r) /\ path \in DOMAIN files /\ reader'[r].file = path
                            \/ CountLine(r) /\ reader'[r].file = reader[r].file
         /\ Counting(r) => reader[r].file \in DOMAIN files
<1> USE DEF Moments
<1>0. /\ reader \in [Readers -> ReaderType] /\ reader[r] \in ReaderType
      /\ path \in 0..Len(files) /\ Len(files) \in Nat /\ DOMAIN files = 1..Len(files)
      /\ expected \in [Readers -> SUBSET Events] /\ grown \in [Readers -> SUBSET begun]
      /\ Counting(r) => reader[r].file \in DOMAIN files
    BY Dense DEF Shape, TypeOK
<1>1. /\ expected' = expected \/ expected' = [expected EXCEPT ![r] = appended]
         \/ expected' = [expected EXCEPT ![r] = {}]
      /\ grown' = grown \/ grown' = [grown EXCEPT ![r] = {}]
    BY DEF Reads, Exists, Open, GetEvents, CountLine, CountEnd, Done
\* It is enough to say what becomes of the reader itself.
<1>2. ASSUME NEW new \in ReaderType, reader' = [reader EXCEPT ![r] = new],
             new.at \in {"read", "counting"} =>
               \/ Open(r) /\ path \in DOMAIN files /\ new.file = path
               \/ CountLine(r) /\ new.file = reader[r].file
      PROVE  /\ reader' \in [Readers -> ReaderType]
             /\ \A q \in Readers : q # r => reader'[q] = reader[q]
                                            /\ expected'[q] = expected[q]
                                            /\ grown'[q] = grown[q]
             /\ Counting(r)' => \/ Open(r) /\ path \in DOMAIN files /\ reader'[r].file = path
                                \/ CountLine(r) /\ reader'[r].file = reader[r].file
  <2>1. reader'[r] = new /\ \A q \in Readers : q # r => reader'[q] = reader[q]
      BY <1>0, <1>2
  <2>2. \A q \in Readers : q # r => expected'[q] = expected[q] /\ grown'[q] = grown[q]
      BY <1>0, <1>1
  <2>3. Counting(r)' <=> new.at \in {"read", "counting"}
      BY <2>1 DEF Counting
  <2>4. reader' \in [Readers -> ReaderType]
      BY <1>0, <1>2
  <2> QED
      BY <1>2, <2>1, <2>2, <2>3, <2>4
<1>3. ASSUME NEW to \in Moments \ {"read", "counting"},
             reader' = [reader EXCEPT ![r].at = to]
      PROVE  /\ reader' \in [Readers -> ReaderType]
             /\ \A q \in Readers : q # r => reader'[q] = reader[q]
                                            /\ expected'[q] = expected[q]
                                            /\ grown'[q] = grown[q]
             /\ ~Counting(r)'
  <2> DEFINE new == [reader[r] EXCEPT !.at = to]
  <2>1. new \in ReaderType /\ new.at = to
      BY <1>0 DEF ReaderType
  <2>2. reader' = [reader EXCEPT ![r] = new]
      BY <1>3
  <2> HIDE DEF new
  <2>3. reader'[r].at = to
      BY <1>0, <2>1, <2>2
  <2> QED
      BY <1>2, <2>1, <2>2, <2>3 DEF Counting
<1>4. ASSUME NEW to \in {"returned", "counted"}, NEW list \in Seq(Events \cup Nat),
             reader' = [reader EXCEPT ![r].at = to, ![r].result = list]
      PROVE  /\ reader' \in [Readers -> ReaderType]
             /\ \A q \in Readers : q # r => reader'[q] = reader[q]
                                            /\ expected'[q] = expected[q]
                                            /\ grown'[q] = grown[q]
             /\ ~Counting(r)'
  <2> DEFINE new == [reader[r] EXCEPT !.at = to, !.result = list]
  <2>1. new \in ReaderType /\ new.at = to
      BY <1>0 DEF ReaderType
  <2>2. reader' = [reader EXCEPT ![r] = new]
      BY <1>4
  <2> HIDE DEF new
  <2>3. reader'[r].at = to
      BY <1>0, <2>1, <2>2
  <2> QED
      BY <1>2, <2>1, <2>2, <2>3 DEF Counting
<1>5. CASE Exists(r)
  <2>1. reader' = [reader EXCEPT ![r].at = "returned"] \/ reader' = [reader EXCEPT ![r].at = "open"]
      BY <1>5 DEF Exists
  <2> QED
      BY <1>0, <1>3, <2>1
<1>6. CASE Open(r)
  <2> DEFINE to == IF path = 0 THEN "raised" ELSE "read"
             new == [reader[r] EXCEPT !.at = to, !.file = path]
  <2>0. to \in Moments /\ path \in Nat /\ (to = "read" => path # 0) /\ to # "counting"
      BY <1>0
  <2>2. reader' = [reader EXCEPT ![r] = new]
      BY <1>6 DEF Open
  <2> HIDE DEF to
  <2>1. new \in ReaderType /\ new.file = path /\ new.at = to
      BY <1>0, <2>0 DEF ReaderType
  <2> HIDE DEF new
  <2>3. new.at \in {"read", "counting"} => path \in DOMAIN files
      BY <1>0, <2>0, <2>1
  <2> QED
      BY <1>0, <1>2, <1>6, <2>1, <2>2, <2>3
<1>7. CASE GetEvents(r)
  <2> DEFINE f == reader[r].file
  <2>1. f \in DOMAIN files
      BY <1>0, <1>7 DEF GetEvents, Counting
  <2>2. CASE \A i \in LineEnds(files[f]) : Parses(files[f], i)
    <3>1. PICK places \in Sortings(files[f], LineEnds(files[f])) :
            reader' = [reader EXCEPT ![r].at = "returned",
                 ![r].result = [k \in DOMAIN places |-> files[f][places[k]].event]]
        BY <1>7, <2>2 DEF GetEvents, Return
    <3>2. LineEnds(files[f]) \in SUBSET DOMAIN files[f]
        BY DEF LineEnds
    <3>3. [k \in DOMAIN places |-> files[f][places[k]].event] \in Seq(Events)
        BY <2>1, <3>2, Sorted DEF Lists
    <3>4. \A s \in Seq(Events) : s \in Seq(Events \cup Nat)
        OBVIOUS
    <3> DEFINE list == [k \in DOMAIN places |-> files[f][places[k]].event]
    <3>5. list \in Seq(Events \cup Nat)
        BY <3>3, <3>4
    <3>6. reader' = [reader EXCEPT ![r].at = "returned", ![r].result = list]
        BY <3>1
    <3> HIDE DEF list
    <3> QED
        BY <1>0, <1>4, <3>5, <3>6
  <2>3. CASE ~\A i \in LineEnds(files[f]) : Parses(files[f], i)
    <3>1. reader' = [reader EXCEPT ![r].at = "raised"]
        BY <1>7, <2>3 DEF GetEvents
    <3> QED
        BY <1>0, <1>3, <3>1
  <2> QED
      BY <2>2, <2>3
<1>8. CASE CountLine(r)
  <2>1. Counting(r) /\ reader[r].file \in DOMAIN files
      BY <1>0, <1>8 DEF CountLine
  <2>2. PICK i \in DOMAIN files[reader[r].file] :
          \/ reader' = [reader EXCEPT ![r].at = "counting", ![r].seen = i,
                                      ![r].lines = @ \cup {i}]
          \/ reader' = [reader EXCEPT ![r].at = "raised"]
      BY <1>8 DEF CountLine
  <2>3. CASE reader' = [reader EXCEPT ![r].at = "raised"]
      BY <1>0, <1>3, <2>3
  <2>4. CASE reader' = [reader EXCEPT ![r].at = "counting", ![r].seen = i,
                                      ![r].lines = @ \cup {i}]
    <3>1. i \in Nat
        BY <2>1, <2>2, Dense
    <3> DEFINE new == [reader[r] EXCEPT !.at = "counting", !.seen = i, !.lines = @ \cup {i}]
    <3>2. new \in ReaderType /\ new.file = reader[r].file
        BY <1>0, <3>1 DEF ReaderType
    <3>3. reader' = [reader EXCEPT ![r] = new]
        BY <2>4
    <3> HIDE DEF new
    <3> QED
        BY <1>0, <1>2, <1>8, <3>2, <3>3
  <2> QED
      BY <2>2, <2>3, <2>4
<1>9. CASE CountEnd(r)
  <2> DEFINE n == Cardinality(reader[r].lines)
  <2>1. reader' = [reader EXCEPT ![r].at = "counted", ![r].result = <<n>>]
      BY <1>9 DEF CountEnd
  <2>2. n \in Nat
    <3>1. reader[r].lines \subseteq 1..reader[r].seen /\ reader[r].seen \in Nat
        BY <1>0, <1>9 DEF CountEnd, Lined, LinesOf, ReaderType
    <3>2. IsFiniteSet(1..reader[r].seen)
        BY <3>1, FS_Interval
    <3> QED
        BY <3>1, <3>2, FS_Subset, FS_CardinalityType
  <2> HIDE DEF n
  <2>3. <<n>> \in Seq(Events \cup Nat)
      BY <2>2
  <2> QED
      BY <1>0, <1>4, <2>1, <2>3
<1>10. CASE Done(r)
  <2>1. Idle \in ReaderType /\ Idle.at = "idle"
      BY DEF Idle, ReaderType
  <2>2. reader' = [reader EXCEPT ![r] = Idle]
      BY <1>10 DEF Done
  <2> HIDE DEF Idle
  <2> QED
      BY <1>0, <1>2, <2>1, <2>2
<1> QED
    BY <1>0, <1>5, <1>6, <1>7, <1>8, <1>9, <1>10 DEF Reads

LEMMA ShapeStep == Places /\ [Next]_vars => Shape'
<1> SUFFICES ASSUME Places, [Next]_vars PROVE Shape'
    OBVIOUS
<1> USE DEF Places
<1>1. /\ files \in Seq(Seq(Pieces)) /\ begun \subseteq Events /\ IsFiniteSet(begun)
      /\ reader \in [Readers -> ReaderType]
      /\ expected \in [Readers -> SUBSET Events] /\ grown \in [Readers -> SUBSET begun]
    BY DEF Shape
<1>2. ASSUME NEW w \in Writers, Acquire(w) PROVE Shape'
    BY <1>1, <1>2, Opened DEF Shape, Acquire, Enter, read
<1>3. ASSUME NEW w \in Writers, NEW piece \in Pieces, Puts(w, piece) PROVE Shape'
  <2>1. /\ pending[w] \in Events /\ path \in DOMAIN files /\ Put(piece)
        /\ begun' = begun \cup {pending[w]} /\ UNCHANGED <<reader, expected>>
      BY <1>3 DEF Puts
  <2>2. files' \in Seq(Seq(Pieces)) /\ begun' \subseteq Events /\ IsFiniteSet(begun')
      BY <1>1, <2>1, Extended, FS_AddElement
  <2>3. grown' \in [Readers -> SUBSET begun']
      BY <1>1, <1>3, <2>1 DEF Puts, PutLast
  <2> QED
      BY <1>1, <2>1, <2>2, <2>3 DEF Shape
<1>4. ASSUME NEW r \in Readers, Reads(r) PROVE Shape'
  <2>1. reader' \in [Readers -> ReaderType] /\ appended \subseteq Events /\ UNCHANGED stored
      BY <1>1, <1>4, Reading, ReadsOnly DEF TypeOK
  <2>2. expected' \in [Readers -> SUBSET Events] /\ grown' \in [Readers -> SUBSET begun]
      BY <1>1, <1>4, <2>1 DEF Reads, Exists, Open, GetEvents, CountLine, CountEnd, Done
  <2> QED
      BY <1>1, <2>1, <2>2 DEF Shape, stored
<1>5. CASE Clear
    BY <1>1, <1>5 DEF Clear, Shape
<1>6. CASE Kill
  <2>1. Idle \in ReaderType
      BY DEF Idle, Moments, ReaderType
  <2> QED
      BY <1>1, <1>6, <2>1 DEF Kill, Shape
<1>7. ASSUME NEW w \in Writers, GivesUp(w) \/ \E e \in Events : Begin(w, e) PROVE Shape'
    BY <1>1, <1>7 DEF GivesUp, Begin, read, Shape
<1>8. CASE UNCHANGED vars
    BY <1>1, <1>8 DEF vars, Shape
<1> QED
    BY <1>2, <1>3, <1>4, <1>5, <1>6, <1>7, <1>8, Steps

LEMMA TypeStep == Places /\ [Next]_vars => TypeOK'
<1> SUFFICES ASSUME Places, [Next]_vars PROVE TypeOK'
    OBVIOUS
<1> USE EventLogAssumption DEF Places
<1>0. Len(files) \in Nat /\ DOMAIN files = 1..Len(files)
    BY Dense
<1>1. ASSUME NEW w \in Writers, NEW e \in Events, Begin(w, e) PROVE TypeOK'
    BY <1>1 DEF Begin, TypeOK, read, Counting
<1>2. ASSUME NEW w \in Writers, Acquire(w) PROVE TypeOK'
  <2>1. /\ Len(files') \in Nat /\ Len(files) <= Len(files') /\ path' \in 1..Len(files')
      BY <1>2, Opened
  <2>2. /\ lock' = w /\ pending' = pending /\ pending[w] # None
        /\ UNCHANGED <<reader, clears, kills, faults, appended, begun, expected>>
      BY <1>2 DEF Acquire, Enter, read
  <2> QED
      BY <1>0, <2>1, <2>2 DEF TypeOK, Counting
<1>3. ASSUME NEW w \in Writers, NEW piece \in Pieces, Puts(w, piece) PROVE TypeOK'
  <2>1. /\ pending[w] \in Events /\ lock = w /\ path' = path /\ begun' = begun \cup {pending[w]}
        /\ Put(piece) /\ path \in DOMAIN files
        /\ faults' \in {faults, faults + 1} /\ faults' <= MaxFaults
        /\ appended' \in {appended, appended \cup {pending[w]}}
        /\ UNCHANGED <<reader, clears, kills, expected>>
      BY <1>3 DEF Puts
  <2>2. Len(files') = Len(files)
      BY <2>1, Extended
  <2>3. \/ lock' = lock /\ pending' = pending
        \/ lock' = None /\ pending' = [pending EXCEPT ![w] = None]
      BY <1>3 DEF Puts, Leave
  <2> QED
      BY <2>1, <2>2, <2>3 DEF TypeOK, Counting
<1>4. CASE Clear
    BY <1>4 DEF Clear, TypeOK, Counting
<1>5. ASSUME NEW r \in Readers, Reads(r) PROVE TypeOK'
  <2>1. UNCHANGED stored
      BY <1>5, ReadsOnly
  <2>2. \A q \in Readers : expected'[q] \subseteq appended
      BY <1>5 DEF Reads, Exists, Open, GetEvents, CountLine, CountEnd, Done, TypeOK, Shape
  <2>3. ASSUME NEW q \in Readers, Counting(q)' PROVE reader'[q].file \in 1..Len(files)
    <3>1. CASE q = r
        BY <1>0, <1>5, <2>3, <3>1, Reading DEF CountLine
    <3>2. CASE q # r
        BY <1>5, <2>3, <3>2, Reading DEF TypeOK, Counting
    <3> QED
        BY <3>1, <3>2
  <2> QED
      BY <2>1, <2>2, <2>3 DEF TypeOK, stored
<1>6. CASE Kill
    BY <1>6 DEF Kill, TypeOK, Idle, Counting
<1>7. ASSUME NEW w \in Writers, GivesUp(w) PROVE TypeOK'
    BY <1>7 DEF GivesUp, Leave, read, TypeOK, Counting
<1>8. CASE UNCHANGED vars
    BY <1>8 DEF vars, TypeOK, Counting
<1> QED
    BY <1>1, <1>2, <1>3, <1>4, <1>5, <1>6, <1>7, <1>8, Steps

LEMMA AppendingStep == Places /\ [Next]_vars => Appending'
<1> SUFFICES ASSUME Places, [Next]_vars, NEW v \in Writers, pending'[v] # None
             PROVE  Owner[pending'[v]] = v /\ Unended(v)' /\ AtEnd(v)'
    BY DEF Appending
<1> USE EventLogAssumption DEF Places
<1>0. pending[v] # None =>
        /\ Owner[pending[v]] = v /\ Unended(v) /\ AtEnd(v)
        /\ v # None /\ pending[v] \in Events
    BY DEF Appending, TypeOK
<1>1. ASSUME UNCHANGED <<files, begun>>, pending'[v] = pending[v],
             pending[v] \in begun => lock' = lock /\ path' = path
      PROVE  Owner[pending'[v]] = v /\ Unended(v)' /\ AtEnd(v)'
    BY <1>0, <1>1 DEF Unended, AtEnd
<1>2. ASSUME NEW w \in Writers, NEW e \in Events, Begin(w, e)
      PROVE  Owner[pending'[v]] = v /\ Unended(v)' /\ AtEnd(v)'
  <2>1. CASE v = w
    <3>1. pending'[v] = e /\ Owner[e] = v /\ e \notin begun /\ UNCHANGED <<files, begun>>
        BY <1>2, <2>1 DEF Begin, TypeOK
    <3> QED
        BY <3>1 DEF Unended, AtEnd, Written
  <2>2. CASE v # w
      BY <1>1, <1>2, <2>2 DEF Begin, TypeOK
  <2> QED
      BY <2>1, <2>2
<1>3. ASSUME NEW w \in Writers, Acquire(w)
      PROVE  Owner[pending'[v]] = v /\ Unended(v)' /\ AtEnd(v)'
  <2>1. pending'[v] = pending[v] /\ lock = None /\ begun' = begun
      BY <1>3 DEF Acquire, Enter
  <2>2. pending[v] \notin begun
      BY <1>0, <2>1 DEF AtEnd
  <2> QED
      BY <1>0, <1>3, <2>1, <2>2, Opened DEF Unended, AtEnd
<1>4. ASSUME NEW w \in Writers, NEW piece \in Pieces, Puts(w, piece)
      PROVE  Owner[pending'[v]] = v /\ Unended(v)' /\ AtEnd(v)'
  <2>1. /\ Put(piece) /\ piece = Piece(pending[w], piece.part)
        /\ piece.event = pending[w]
        /\ path \in DOMAIN files /\ lock = w /\ path' = path
        /\ begun' = begun \cup {pending[w]} /\ pending[w] # None
      BY <1>4 DEF Puts
  <2>2. CASE v = w
    <3>1. piece.part = "head" /\ pending' = pending /\ lock' = lock
        BY <1>4, <2>2 DEF Puts, Leave, TypeOK
    <3>2. Unended(v)'
        BY <1>0, <2>1, <2>2, <3>1, Older DEF Unended
    <3>3. AtEnd(v)'
      <4>1. Len(files'[path]) = Len(files[path]) + 1 /\ Len(files[path]) \in Nat
          BY <2>1, Extended, Dense
      <4>2. files'[path][Len(files[path]) + 1] = Piece(pending[v], "head")
          BY <2>1, <2>2, <3>1, Extended
      <4> QED
          BY <2>1, <2>2, <3>1, <4>1, <4>2 DEF AtEnd
    <3> QED
        BY <1>0, <2>1, <2>2, <3>1, <3>2, <3>3
  <2>3. CASE v # w
    <3>1. pending'[v] = pending[v]
        BY <1>4, <2>3 DEF Puts, Leave, TypeOK
    <3>2. pending[v] # pending[w]
        BY <1>0, <2>1, <2>3, <3>1 DEF Appending
    <3>3. pending[v] \notin begun'
        BY <1>0, <2>1, <2>3, <3>1, <3>2 DEF AtEnd
    <3>4. Unended(v)'
        BY <1>0, <2>1, <3>1, <3>2, Older DEF Unended
    <3> QED
        BY <1>0, <3>1, <3>3, <3>4 DEF AtEnd
  <2> QED
      BY <2>2, <2>3
<1>5. CASE Clear
  <2>1. pending' = pending /\ lock = None /\ UNCHANGED <<files, begun>>
      BY <1>5 DEF Clear
  <2> QED
      BY <1>0, <1>1, <2>1 DEF AtEnd
<1>6. ASSUME NEW r \in Readers, Reads(r)
      PROVE  Owner[pending'[v]] = v /\ Unended(v)' /\ AtEnd(v)'
    BY <1>1, <1>6, ReadsOnly DEF stored
<1>7. CASE Kill
    BY <1>7 DEF Kill
<1>8. ASSUME NEW w \in Writers, GivesUp(w)
      PROVE  Owner[pending'[v]] = v /\ Unended(v)' /\ AtEnd(v)'
  <2>1. pending'[v] = pending[v] /\ v # w /\ UNCHANGED <<files, path, begun>>
      BY <1>8 DEF GivesUp, Leave, TypeOK
  <2>2. pending[v] \notin begun
      BY <1>0, <1>8, <2>1 DEF AtEnd, GivesUp
  <2> QED
      BY <1>1, <2>1, <2>2
<1>9. CASE UNCHANGED vars
    BY <1>1, <1>9 DEF vars
<1> QED
    BY <1>2, <1>3, <1>4, <1>5, <1>6, <1>7, <1>8, <1>9, Steps

LEMMA KeptStep == Places /\ [Next]_vars => Kept'
<1> SUFFICES ASSUME Places, [Next]_vars, NEW e \in appended'
             PROVE  path' # 0 /\ \E i \in DOMAIN files'[path'] :
                      files'[path'][i].event = e /\ ~Cut(files'[path'][i])
    BY DEF Kept
<1> USE EventLogAssumption DEF Places
<1>0. e \in appended =>
        path \in DOMAIN files /\ path # 0
        /\ \E i \in DOMAIN files[path] :
             files[path][i].event = e /\ ~Cut(files[path][i])
    BY Dense DEF Kept, TypeOK
<1>1. ASSUME NEW w \in Writers, Acquire(w)
      PROVE  path' # 0 /\ \E i \in DOMAIN files'[path'] :
               files'[path'][i].event = e /\ ~Cut(files'[path'][i])
  <2>1. e \in appended
      BY <1>1 DEF Acquire, Enter
  <2>2. path' = path /\ files'[path] = files[path]
      BY <1>0, <1>1, <2>1, Opened
  <2> QED
      BY <1>0, <2>1, <2>2
<1>2. ASSUME NEW w \in Writers, NEW piece \in Pieces, Puts(w, piece)
      PROVE  path' # 0 /\ \E i \in DOMAIN files'[path'] :
               files'[path'][i].event = e /\ ~Cut(files'[path'][i])
  <2>1. /\ Put(piece) /\ piece.event = pending[w]
        /\ path \in DOMAIN files /\ path # 0 /\ path' = path
        /\ appended' \in {appended, appended \cup {pending[w]}}
        /\ Cut(piece) => appended' = appended
      BY <1>2 DEF Puts
  <2>2. CASE e \in appended
    <3>1. PICK i \in DOMAIN files[path] :
             files[path][i].event = e /\ ~Cut(files[path][i])
        BY <1>0, <2>2
    <3>2. i \in DOMAIN files'[path] /\ files'[path][i] = files[path][i]
        BY <2>1, Extended, Dense
    <3> QED
        BY <2>1, <3>1, <3>2
  <2>3. CASE e \notin appended
    <3>1. e = pending[w] /\ ~Cut(piece)
        BY <2>1, <2>3
    <3>2. /\ Len(files[path]) + 1 \in DOMAIN files'[path]
          /\ files'[path][Len(files[path]) + 1] = piece
        BY <2>1, Extended, Dense
    <3> QED
        BY <2>1, <3>1, <3>2
  <2> QED
      BY <2>2, <2>3
<1>3. CASE Clear
    BY <1>3 DEF Clear
<1>4. CASE UNCHANGED <<path, files, appended>>
    BY <1>0, <1>4
<1>5. ASSUME NEW w \in Writers, GivesUp(w) \/ \E g \in Events : Begin(w, g)
      PROVE  UNCHANGED <<path, files, appended>>
    BY <1>5 DEF Begin, GivesUp
<1> QED
    BY <1>1, <1>2, <1>3, <1>4, <1>5, Steps, ReadsOnly DEF Kill, vars, stored

-----------------------------------------------------------------------------
(* The readers.                                                            *)

\* A step of anybody else leaves a reader alone or starts it over.
LEMMA Alone ==
  ASSUME Places, [Next]_vars, NEW r \in Readers, ~Reads(r)
  PROVE  /\ \/ reader'[r] = reader[r] /\ grown[r] \subseteq grown'[r]
            \/ reader'[r] = Idle
         /\ expected'[r] \in {expected[r], {}}
         /\ path' = path \/ path = 0 \/ expected'[r] = {}
<1> USE DEF Places
<1>1. ASSUME NEW q \in Readers, q # r, Reads(q)
      PROVE  /\ reader'[r] = reader[r] /\ expected'[r] = expected[r] /\ path' = path
             /\ grown'[r] = grown[r]
  <2>1. path' = path
      BY <1>1, ReadsOnly DEF stored
  <2> QED
      BY <1>1, <2>1, Reading
<1>2. ASSUME NEW w \in Writers,
             Acquire(w) \/ GivesUp(w) \/ \E e \in Events : Begin(w, e)
      PROVE  UNCHANGED <<reader, expected, grown>> /\ (path' = path \/ path = 0)
    BY <1>2 DEF Begin, Acquire, Enter, GivesUp, read
<1>3. ASSUME NEW w \in Writers, NEW piece \in Pieces, Puts(w, piece)
      PROVE  UNCHANGED <<reader, expected, path>> /\ grown[r] \subseteq grown'[r]
    BY <1>3 DEF Puts, PutLast, Shape
<1>4. CASE Clear
    BY <1>4 DEF Clear
<1>5. CASE Kill
    BY <1>5 DEF Kill
<1>6. CASE UNCHANGED vars
    BY <1>6 DEF vars
<1> QED
    BY <1>1, <1>2, <1>3, <1>4, <1>5, <1>6, Steps

LEMMA UnmovedStep == Places /\ [Next]_vars => Unmoved'
<1> SUFFICES ASSUME Places, [Next]_vars, NEW r \in Readers
             PROVE  /\ Counting(r)' /\ expected'[r] # {} => reader'[r].file = path'
                    /\ reader'[r].at \in {"idle", "open", "read"} =>
                         /\ reader'[r].result = <<>> /\ reader'[r].seen = 0
                         /\ reader'[r].lines = {}
    BY DEF Unmoved
<1> USE DEF Places
<1>0. path = 0 => appended = {} /\ expected[r] = {}
    BY DEF Kept, TypeOK
<1>1. CASE Reads(r)
  <2>0. reader \in [Readers -> ReaderType] /\ reader[r] \in ReaderType
      BY DEF Shape
  <2>1. path' = path
      BY <1>1, ReadsOnly DEF stored
  <2>2. ASSUME Counting(r)', expected'[r] # {} PROVE reader'[r].file = path
    <3>1. CASE Open(r)
        BY <1>1, <2>2, <3>1, Reading DEF CountLine, Open, Counting
    <3>2. CASE CountLine(r)
      <4>0. PICK i \in DOMAIN files[reader[r].file] :
              \/ reader' = [reader EXCEPT ![r].at = "counting", ![r].seen = i,
                                          ![r].lines = @ \cup {i}]
              \/ reader' = [reader EXCEPT ![r].at = "raised"]
          BY <3>2 DEF CountLine
      <4>1. Counting(r) /\ expected' = expected /\ reader'[r].file = reader[r].file
          BY <2>0, <3>2, <4>0 DEF CountLine, ReaderType
      <4> QED
          BY <2>2, <4>1 DEF Unmoved
    <3> QED
        BY <1>1, <2>2, <3>1, <3>2, Reading
  <2>3. ASSUME reader'[r].at \in {"idle", "open", "read"}
        PROVE  reader'[r].result = <<>> /\ reader'[r].seen = 0 /\ reader'[r].lines = {}
    <3>1. ASSUME Exists(r) \/ Open(r)
          PROVE  /\ reader'[r].result = reader[r].result /\ reader'[r].seen = reader[r].seen
                 /\ reader'[r].lines = reader[r].lines /\ reader[r].at \in {"idle", "open"}
        BY <2>0, <3>1 DEF Exists, Open, ReaderType
    <3>2. ASSUME GetEvents(r) PROVE reader'[r].at \in {"returned", "raised"}
        BY <2>0, <3>2 DEF GetEvents, Return, ReaderType
    <3>3. ASSUME CountLine(r) PROVE reader'[r].at \in {"counting", "raised"}
        BY <2>0, <3>3 DEF CountLine, ReaderType
    <3>4. ASSUME CountEnd(r) PROVE reader'[r].at = "counted"
        BY <2>0, <3>4 DEF CountEnd, ReaderType
    <3>5. ASSUME Done(r) PROVE reader'[r] = Idle
        BY <2>0, <3>5 DEF Done
    <3> QED
        BY <1>1, <2>3, <3>1, <3>2, <3>3, <3>4, <3>5 DEF Reads, Idle, Unmoved
  <2> QED
      BY <2>1, <2>2, <2>3
<1>2. CASE ~Reads(r)
  <2>1. CASE reader'[r] = Idle
      BY <2>1 DEF Idle, Counting
  <2>2. CASE reader'[r] = reader[r]
      BY <1>0, <1>2, <2>2, Alone DEF Unmoved, Counting
  <2> QED
      BY <1>2, <2>1, <2>2, Alone
<1> QED
    BY <1>1, <1>2

\* What a line that is counted adds.
LEMMA LineCounted ==
  ASSUME NEW pieces \in Seq(Pieces), NEW seen \in Nat, NEW lines, NEW grew,
         NEW i \in DOMAIN pieces, LinesOf(pieces, seen, lines, grew), NextEnd(pieces, seen, i)
  PROVE  LinesOf(pieces, i, lines \cup {i}, grew)
<1>1. /\ Len(pieces) \in Nat /\ DOMAIN pieces = 1..Len(pieces)
      /\ seen <= Len(pieces) /\ lines \subseteq 1..seen /\ i > seen /\ i \in Nat
    BY DEF LinesOf, NextEnd
<1>2. i <= Len(pieces) /\ 1..seen \subseteq 1..i /\ i \in 1..i
    BY <1>1
<1>5. lines \cup {i} \subseteq 1..i
    BY <1>1, <1>2
<1>3. ASSUME NEW j \in 1..i, ~Cut(pieces[j]) PROVE j \in lines \cup {i}
  <2>1. CASE j <= seen
      BY <1>3, <2>1 DEF LinesOf
  <2>2. CASE j > seen
    <3>0. j \in DOMAIN pieces
        BY <1>1, <1>2
    <3>1. j \in LineEnds(pieces)
        BY <1>3, <3>0 DEF LineEnds
    <3> QED
        BY <1>1, <1>3, <2>2, <3>1 DEF NextEnd
  <2> QED
      BY <1>1, <2>1, <2>2
<1>4. ASSUME NEW j \in lines \cup {i}, pieces[j].part = "head", j < Len(pieces),
             pieces[j + 1].event = pieces[j].event
      PROVE  pieces[j].event \in grew
  <2>1. CASE j = i
      BY <1>1, <1>4, <2>1 DEF NextEnd, LineEnds, Cut
  <2>2. CASE j \in lines
      BY <1>4, <2>2 DEF LinesOf
  <2> QED
      BY <1>4, <2>1, <2>2
<1> QED
    BY <1>2, <1>3, <1>4, <1>5 DEF LinesOf

\* A file that grows behind a reader leaves its lines as they are.
LEMMA LinesKept ==
  ASSUME Places, [Next]_vars, NEW r \in Readers, Counting(r),
         reader'[r] = reader[r], grown[r] \subseteq grown'[r]
  PROVE  LinesOf(files'[reader[r].file], reader[r].seen, reader[r].lines, grown'[r])
<1> USE DEF Places
<1> DEFINE f == reader[r].file
<1>0. /\ f \in DOMAIN files /\ Len(files[f]) \in Nat /\ DOMAIN files[f] = 1..Len(files[f])
      /\ reader[r].seen \in Nat
      /\ LinesOf(files[f], reader[r].seen, reader[r].lines, grown[r])
    BY Dense DEF TypeOK, Lined, Shape, ReaderType
<1> DEFINE seen == reader[r].seen
           lines == reader[r].lines
<1>1. seen <= Len(files[f]) /\ lines \subseteq 1..seen /\ lines \subseteq DOMAIN files[f]
    BY <1>0 DEF LinesOf
<1>2. CASE files'[f] = files[f]
    BY <1>0, <1>2 DEF LinesOf
<1>3. ASSUME NEW w \in Writers, NEW piece \in Pieces, Puts(w, piece), f = path
      PROVE  LinesOf(files'[f], seen, lines, grown'[r])
  <2>1. Put(piece) /\ path \in DOMAIN files /\ piece.event = pending[w]
      BY <1>3 DEF Puts
  <2>2. /\ Len(files'[f]) = Len(files[f]) + 1
        /\ \A i \in DOMAIN files[f] : files'[f][i] = files[f][i]
        /\ files'[f][Len(files[f]) + 1] = piece
      BY <1>3, <2>1, Extended
  <2>3. seen <= Len(files'[f])
      BY <1>0, <1>1, <2>2
  <2>4. \A i \in 1..seen : ~Cut(files'[f][i]) => i \in lines
      BY <1>0, <1>1, <2>2 DEF LinesOf
  <2>5. ASSUME NEW i \in lines, files'[f][i].part = "head", i < Len(files'[f]),
               files'[f][i + 1].event = files'[f][i].event
        PROVE  files'[f][i].event \in grown'[r]
    <3>1. i \in DOMAIN files[f] /\ files'[f][i] = files[f][i]
        BY <1>1, <2>2
    <3>2. CASE i < Len(files[f])
      <4>1. i + 1 \in DOMAIN files[f]
          BY <1>0, <3>1, <3>2
      <4>2. files[f][i].event \in grown[r]
          BY <1>0, <2>2, <2>5, <3>1, <3>2, <4>1 DEF LinesOf
      <4> QED
          BY <3>1, <4>2
    <3>3. CASE i = Len(files[f])
      <4>1. files[f][i].event = piece.event
          BY <2>2, <2>5, <3>1, <3>3
      <4>2. piece.part # "head" /\ pending[w] \in begun
          BY <1>0, <1>3, <2>1, <3>1, <4>1, Before DEF Written
      <4>3. reader[r].at # "idle"
          BY DEF Counting
      <4>4. pending[w] \in grown'[r]
          BY <1>3, <4>2, <4>3 DEF Puts, PutLast
      <4> QED
          BY <2>1, <3>1, <4>1, <4>4
    <3> QED
        BY <1>0, <3>1, <3>2, <3>3
  <2> QED
      BY <1>1, <2>3, <2>4, <2>5 DEF LinesOf
<1>4. ASSUME NEW w \in Writers, NEW piece \in Pieces, Puts(w, piece), f # path
      PROVE  files'[f] = files[f]
    BY <1>0, <1>4, Extended DEF Puts
<1>5. ASSUME NEW w \in Writers, Acquire(w) PROVE files'[f] = files[f]
    BY <1>0, <1>5, Opened
<1> QED
    BY <1>2, <1>3, <1>4, <1>5, OthersRead

LEMMA LinedStep == Places /\ [Next]_vars => Lined'
<1> SUFFICES ASSUME Places, [Next]_vars, NEW r \in Readers, Counting(r)'
             PROVE  LinesOf(files'[reader'[r].file], reader'[r].seen, reader'[r].lines, grown'[r])
    BY DEF Lined
<1> USE DEF Places
<1>0. reader \in [Readers -> ReaderType] /\ reader[r] \in ReaderType
    BY DEF Shape
<1>1. CASE Open(r)
  <2>1. path \in DOMAIN files /\ reader'[r].file = path /\ files' = files
      BY <1>1, Reading, ReadsOnly DEF Reads, Open, CountLine, Counting, stored
  <2>2. reader'[r].seen = 0 /\ reader'[r].lines = {}
      BY <1>0, <1>1 DEF Open, Unmoved, ReaderType
  <2>3. Len(files[path]) \in Nat
      BY <2>1, Dense
  <2> QED
      BY <2>1, <2>2, <2>3 DEF LinesOf
<1>2. CASE CountLine(r)
  <2> DEFINE f == reader[r].file
  <2>1. /\ Counting(r) /\ f \in DOMAIN files /\ files[f] \in Seq(Pieces)
        /\ reader[r].seen \in Nat /\ files' = files /\ grown' = grown
      BY <1>0, <1>2, Dense DEF CountLine, stored, TypeOK, ReaderType
  <2>2. PICK i \in DOMAIN files[f] :
          /\ NextEnd(files[f], reader[r].seen, i)
          /\ \/ reader' = [reader EXCEPT ![r].at = "counting", ![r].seen = i,
                                         ![r].lines = @ \cup {i}]
             \/ reader' = [reader EXCEPT ![r].at = "raised"]
      BY <1>2 DEF CountLine
  <2>3. reader'[r].file = f /\ reader'[r].seen = i /\ reader'[r].lines = reader[r].lines \cup {i}
      BY <1>0, <2>2 DEF Counting, ReaderType
  <2> QED
    <3>1. LinesOf(files[f], reader[r].seen, reader[r].lines, grown[r])
        BY <2>1 DEF Lined
    <3>2. LinesOf(files[f], i, reader[r].lines \cup {i}, grown[r])
        BY <2>1, <2>2, <3>1, LineCounted
    <3> QED
        BY <2>1, <2>3, <3>2
<1>3. CASE ~Reads(r)
  <2>1. reader'[r] = reader[r] /\ grown[r] \subseteq grown'[r]
      BY <1>3, Alone DEF Idle, Counting
  <2>2. Counting(r)
      BY <2>1 DEF Counting
  <2> QED
      BY <2>1, <2>2, LinesKept
<1> QED
    BY <1>1, <1>2, <1>3, Reading DEF Reads

LEMMA PlacesStep == Places /\ [Next]_vars => Places'
  BY ShapeStep, TypeStep, WrittenStep, UniqueStep, TailsStep, AppendingStep, KeptStep,
     UnmovedStep, LinedStep DEF Places

\* The ends of lines that parse tell events apart.
LEMMA OneLineEach ==
  ASSUME Places, NEW f \in DOMAIN files,
         NEW i \in DOMAIN files[f], NEW j \in DOMAIN files[f],
         files[f][i].event = files[f][j].event,
         Parses(files[f], i) /\ Parses(files[f], j)
  PROVE  i = j
<1>1. files[f][i].part # "head" /\ files[f][j].part # "head"
    BY DEF Parses
<1> QED
    BY <1>1 DEF Places, Unique

\* The file a reader has open holds whatever is expected of it.
LEMMA Accepted ==
  ASSUME Places, NEW r \in Readers, Counting(r), NEW e \in expected[r]
  PROVE  /\ reader[r].file \in DOMAIN files
         /\ \E i \in LineEnds(files[reader[r].file]) :
              /\ files[reader[r].file][i].event = e
              /\ ~Cut(files[reader[r].file][i])
<1>1. e \in appended /\ reader[r].file = path
    BY DEF Places, TypeOK, Unmoved
<1>2. reader[r].file \in DOMAIN files
    BY Dense DEF Places, TypeOK
<1> QED
    BY <1>1, <1>2 DEF Places, Kept, LineEnds

LEMMA BegunGrows == Places /\ [Next]_vars => begun \subseteq begun'
  BY OthersRead DEF Places, Acquire, Enter, Puts

LEMMA ReadsStep == Places /\ ReadsComplete /\ [Next]_vars => ReadsComplete'
<1> SUFFICES ASSUME Places, ReadsComplete, [Next]_vars,
                    NEW r \in Readers, reader'[r].at = "returned"
             PROVE  LET result == reader'[r].result
                    IN  /\ \A e \in expected'[r] : \E i \in DOMAIN result : result[i] = e
                        /\ \A i \in DOMAIN result : result[i] \in begun'
                        /\ \A i, j \in DOMAIN result : result[i] = result[j] => i = j
                        /\ \A i, j \in DOMAIN result :
                             i < j => Stamp[result[i]] <= Stamp[result[j]]
    BY DEF ReadsComplete
<1>0. reader \in [Readers -> ReaderType] /\ reader[r] \in ReaderType /\ begun \subseteq begun'
    BY BegunGrows DEF Places, Shape
<1>1. CASE GetEvents(r)
  <2> DEFINE f == reader[r].file
             ends == LineEnds(files[f])
  <2>1. f \in DOMAIN files /\ Counting(r) /\ ends \in SUBSET DOMAIN files[f]
        /\ UNCHANGED <<expected, begun>>
      BY <1>1, Dense DEF GetEvents, Places, TypeOK, LineEnds, Counting, stored
  <2>2. \A i \in ends : Parses(files[f], i)
      BY <1>0, <1>1 DEF GetEvents, ReaderType
  <2>3. PICK places \in Sortings(files[f], ends) :
          reader' = [reader EXCEPT ![r].at = "returned",
                 ![r].result = [k \in DOMAIN places |-> files[f][places[k]].event]]
      BY <1>1, <2>2 DEF GetEvents, Return
  <2> DEFINE result == [k \in DOMAIN places |-> files[f][places[k]].event]
  <2>4. reader'[r].result = result
      BY <1>0, <2>3 DEF ReaderType
  <2>5. /\ DOMAIN result = DOMAIN places /\ \A k \in DOMAIN places : places[k] \in ends
        /\ \A i \in ends : \E k \in DOMAIN places : places[k] = i
        /\ \A j, k \in DOMAIN places : places[j] = places[k] => j = k
        /\ \A j, k \in DOMAIN places : j < k => Stamp[result[j]] <= Stamp[result[k]]
    <3>1. Shape
        BY DEF Places
    <3>2. places \in Sortings(files[f], ends)
        BY <2>3
    <3>3. f \in DOMAIN files /\ ends \in SUBSET DOMAIN files[f]
        BY <2>1
    <3> HIDE DEF f, ends
    <3>4. Lists(files[f], ends, places)
        BY <3>1, <3>2, <3>3, Sorted
    <3> QED
        BY <3>4 DEF Lists
  <2>6. \A k \in DOMAIN places : result[k] = files[f][places[k]].event
      OBVIOUS
  <2> HIDE DEF result
  <2>7. \A e \in expected[r] : \E i \in ends : files[f][i].event = e
      BY <2>1, Accepted
  <2>8. \A e \in expected[r] : \E k \in DOMAIN result : result[k] = e
      BY <2>5, <2>6, <2>7
  <2>9. \A k \in DOMAIN result : result[k] \in begun
      BY <2>1, <2>5, <2>6 DEF Places, Written
  <2>10. ASSUME NEW j \in DOMAIN result, NEW k \in DOMAIN result, result[j] = result[k]
         PROVE  j = k
    <3>1. places[j] = places[k]
        BY <2>1, <2>2, <2>5, <2>6, <2>10, OneLineEach
    <3> QED
        BY <2>5, <3>1
  <2> QED
      BY <2>1, <2>4, <2>5, <2>8, <2>9, <2>10
<1>2. CASE Exists(r)
  <2>1. path = 0 /\ reader'[r].result = reader[r].result /\ reader[r].at = "idle"
      BY <1>0, <1>2 DEF Exists, ReaderType
  <2>2. reader'[r].result = <<>>
      BY <2>1 DEF Places, Unmoved
  <2>3. expected'[r] = {}
      BY <1>2, <2>1 DEF Exists, Places, Kept, Shape
  <2> QED
      BY <2>2, <2>3
<1>3. CASE Open(r) \/ CountLine(r) \/ CountEnd(r) \/ Done(r)
  <2>1. ASSUME Open(r) PROVE reader'[r].at \in {"raised", "read"}
      BY <1>0, <2>1 DEF Open, ReaderType
  <2>2. ASSUME CountLine(r) PROVE reader'[r].at \in {"counting", "raised"}
      BY <1>0, <2>2 DEF CountLine, ReaderType
  <2>3. ASSUME CountEnd(r) PROVE reader'[r].at = "counted"
      BY <1>0, <2>3 DEF CountEnd, ReaderType
  <2>4. ASSUME Done(r) PROVE reader'[r].at = "idle"
      BY <1>0, <2>4 DEF Done, Idle
  <2> QED
      BY <1>3, <2>1, <2>2, <2>3, <2>4
<1>4. CASE ~Reads(r)
  <2>1. reader'[r] = reader[r] /\ expected'[r] \subseteq expected[r]
      BY <1>4, Alone DEF Idle
  <2> DEFINE result == reader[r].result
  <2>2. /\ \A e \in expected[r] : \E i \in DOMAIN result : result[i] = e
        /\ \A i \in DOMAIN result : result[i] \in begun
        /\ \A i, j \in DOMAIN result : result[i] = result[j] => i = j
        /\ \A i, j \in DOMAIN result : i < j => Stamp[result[i]] <= Stamp[result[j]]
      BY <2>1 DEF ReadsComplete
  <2> HIDE DEF result
  <2>3. reader'[r].result = result
      BY <2>1 DEF result
  <2> QED
      BY <1>0, <2>1, <2>2, <2>3
<1> QED
    BY <1>1, <1>2, <1>3, <1>4 DEF Reads

-----------------------------------------------------------------------------
(* What count counts.                                                      *)

\* Every event expected has a line that was counted, and an event has a second
\* one only if its line went on during the read.
LEMMA LineCount ==
  ASSUME Places, NEW r \in Readers, Counting(r),
         reader[r].seen = Len(files[reader[r].file])
  PROVE  Cardinality(reader[r].lines)
           \in Cardinality(expected[r])..(Cardinality(begun) + Cardinality(grown[r]))
<1> DEFINE f == reader[r].file
           lines == reader[r].lines
           event(i) == files[f][i].event
           part(i) == files[f][i].part
           GoesOn(i) == part(i) = "head" /\ i < Len(files[f]) /\ event(i + 1) = event(i)
           again == {i \in lines : GoesOn(i)}
           once == lines \ again
<1>1. /\ f \in DOMAIN files /\ DOMAIN files[f] = 1..Len(files[f])
      /\ Len(files[f]) \in Nat /\ lines \subseteq DOMAIN files[f]
      /\ LinesOf(files[f], Len(files[f]), lines, grown[r])
    BY Dense DEF Places, TypeOK, Lined, LinesOf
<1>2. IsFiniteSet(lines) /\ IsFiniteSet(begun) /\ IsFiniteSet(grown[r])
  <2>1. IsFiniteSet(1..Len(files[f])) /\ IsFiniteSet(begun) /\ grown[r] \subseteq begun
      BY <1>1, FS_Interval DEF Places, Shape
  <2> HIDE DEF lines
  <2> QED
      BY <1>1, <2>1, FS_Subset
<1>3. IsFiniteSet(again) /\ IsFiniteSet(once) /\ again \cup once = lines /\ again \cap once = {}
  <2>1. again \subseteq lines /\ once \subseteq lines
      OBVIOUS
  <2>2. IsFiniteSet(again) /\ IsFiniteSet(once)
    <3> HIDE DEF again, once, lines
    <3> QED
        BY <1>2, <2>1, FS_Subset
  <2> QED
      BY <2>2
<1>4. \A i \in again : event(i) \in grown[r]
    BY <1>1 DEF LinesOf
<1>5. \A i \in once : event(i) \in begun
    BY <1>1 DEF Places, Written
<1>6. ASSUME NEW i \in again, NEW j \in again, event(i) = event(j) PROVE i = j
    BY <1>1, <1>6 DEF Places, Unique
<1>7. ASSUME NEW i \in once, NEW j \in once, event(i) = event(j) PROVE i = j
  <2>1. ASSUME NEW k \in once, NEW l \in once, event(k) = event(l),
               part(k) # "head", part(l) = "head"
        PROVE  FALSE
    <3>1. k = l + 1
        BY <1>1, <2>1 DEF Places, Adjacent
    <3>2. l < Len(files[f]) /\ event(l + 1) = event(l)
        BY <1>1, <2>1, <3>1
    <3> QED
        BY <2>1, <3>2
  <2>2. CASE part(i) = "head" <=> part(j) = "head"
      BY <1>1, <1>7, <2>2 DEF Places, Unique
  <2> QED
      BY <1>7, <2>1, <2>2
<1>8. Cardinality(once) <= Cardinality(begun)
  <2> DEFINE to == [i \in once |-> event(i)]
  <2>1. to \in [once -> begun] /\ \A i \in once : to[i] = event(i)
      BY <1>5
  <2> HIDE DEF to, once, event
  <2>2. to \in Injection(once, begun)
      BY <1>7, <2>1 DEF Injection, IsInjective
  <2> QED
      BY <1>2, <2>2, FS_Injection
<1>9. Cardinality(again) <= Cardinality(grown[r])
  <2> DEFINE to == [i \in again |-> event(i)]
  <2>1. to \in [again -> grown[r]] /\ \A i \in again : to[i] = event(i)
      BY <1>4
  <2> HIDE DEF to, again, event
  <2>2. to \in Injection(again, grown[r])
      BY <1>6, <2>1 DEF Injection, IsInjective
  <2> QED
      BY <1>2, <2>2, FS_Injection
<1>10. Cardinality(expected[r]) <= Cardinality(lines)
  <2>1. ASSUME NEW e \in expected[r] PROVE \E i \in lines : event(i) = e
    <3>1. PICK i \in LineEnds(files[f]) : event(i) = e /\ ~Cut(files[f][i])
        BY Accepted
    <3>2. i \in 1..Len(files[f])
        BY <1>1 DEF LineEnds
    <3> QED
        BY <1>1, <3>1, <3>2 DEF LinesOf
  <2> DEFINE line(e) == CHOOSE i \in lines : event(i) = e
             to == [e \in expected[r] |-> line(e)]
  <2>2. \A e \in expected[r] : line(e) \in lines /\ event(line(e)) = e
      BY <2>1
  <2>3. to \in [expected[r] -> lines] /\ \A e \in expected[r] : event(to[e]) = e
      BY <2>2
  <2> HIDE DEF to, lines, event
  <2>4. to \in Injection(expected[r], lines)
      BY <2>3 DEF Injection, IsInjective
  <2> QED
      BY <1>2, <2>4, FS_Injection
<1>11. Cardinality(lines) = Cardinality(again) + Cardinality(once)
  <2> HIDE DEF again, once, lines
  <2>1. Cardinality(again \cup once)
          = Cardinality(again) + Cardinality(once) - Cardinality(again \cap once)
      BY <1>3, FS_Union
  <2>2. Cardinality(again \cap once) = 0
      BY <1>3, FS_EmptySet
  <2>3. Cardinality(again) \in Nat /\ Cardinality(once) \in Nat
      BY <1>3, FS_CardinalityType
  <2>4. Cardinality(lines) = Cardinality(again \cup once)
      BY <1>3
  <2>5. \A m, n : m \in Nat /\ n \in Nat => m + n - 0 = m + n
      OBVIOUS
  <2> QED
      BY <2>1, <2>2, <2>3, <2>4, <2>5
<1>12. /\ Cardinality(begun) \in Nat /\ Cardinality(grown[r]) \in Nat
       /\ Cardinality(expected[r]) \in Nat /\ Cardinality(again) \in Nat
       /\ Cardinality(once) \in Nat /\ Cardinality(lines) \in Nat
  <2>1. expected[r] \subseteq begun
      BY DEF Places, TypeOK
  <2> HIDE DEF again, once, lines
  <2> QED
      BY <1>2, <1>3, <2>1, FS_Subset, FS_CardinalityType
<1> HIDE DEF again, once, lines
<1>13. Cardinality(lines)
         \in Cardinality(expected[r])..(Cardinality(begun) + Cardinality(grown[r]))
    BY <1>8, <1>9, <1>10, <1>11, <1>12
<1> QED
    BY <1>13 DEF lines

LEMMA CountsStep == Places /\ CountsBetween /\ [Next]_vars => CountsBetween'
<1> SUFFICES ASSUME Places, CountsBetween, [Next]_vars,
                    NEW r \in Readers, reader'[r].at = "counted"
             PROVE  reader'[r].result[1] \in Cardinality(expected'[r])
                      ..(Cardinality(begun') + Cardinality(grown'[r]))
    BY DEF CountsBetween
<1>0. reader \in [Readers -> ReaderType] /\ reader[r] \in ReaderType
    BY DEF Places, Shape
<1>1. CASE CountEnd(r)
  <2>1. /\ Counting(r) /\ reader[r].seen = Len(files[reader[r].file])
        /\ UNCHANGED <<expected, begun, grown>>
      BY <1>1 DEF CountEnd, stored
  <2> DEFINE n == Cardinality(reader[r].lines)
  <2>2. reader' = [reader EXCEPT ![r].at = "counted", ![r].result = <<n>>]
      BY <1>1 DEF CountEnd
  <2>3. n \in Cardinality(expected[r])..(Cardinality(begun) + Cardinality(grown[r]))
      BY <2>1, LineCount
  <2> HIDE DEF n
  <2>4. reader'[r].result = <<n>>
      BY <1>0, <2>2 DEF ReaderType
  <2> QED
      BY <2>1, <2>3, <2>4
<1>2. CASE Reads(r) /\ ~CountEnd(r)
  <2>1. ASSUME Exists(r) \/ Open(r) PROVE reader'[r].at # "counted"
      BY <1>0, <2>1 DEF Exists, Open, ReaderType
  <2>2. ASSUME GetEvents(r) PROVE reader'[r].at # "counted"
      BY <1>0, <2>2 DEF GetEvents, Return, ReaderType
  <2>3. ASSUME CountLine(r) PROVE reader'[r].at # "counted"
      BY <1>0, <2>3 DEF CountLine, ReaderType
  <2>4. ASSUME Done(r) PROVE reader'[r].at # "counted"
      BY <1>0, <2>4 DEF Done, Idle
  <2> QED
      BY <1>2, <2>1, <2>2, <2>3, <2>4 DEF Reads
<1>3. CASE ~Reads(r)
  <2>1. /\ reader'[r] = reader[r] /\ expected'[r] \in {expected[r], {}}
        /\ grown[r] \subseteq grown'[r]
      BY <1>3, Alone DEF Idle
  <2>2. begun \subseteq begun' /\ IsFiniteSet(begun') /\ grown'[r] \subseteq begun'
      BY BegunGrows, ShapeStep DEF Shape
  <2>3. reader[r].result[1]
          \in Cardinality(expected[r])..(Cardinality(begun) + Cardinality(grown[r]))
      BY <2>1 DEF CountsBetween
  <2>4. /\ Cardinality(begun) <= Cardinality(begun')
        /\ Cardinality(begun) \in Nat /\ Cardinality(begun') \in Nat
      BY <2>2, FS_Subset, FS_CardinalityType
  <2>5. /\ Cardinality(grown[r]) <= Cardinality(grown'[r])
        /\ Cardinality(grown[r]) \in Nat /\ Cardinality(grown'[r]) \in Nat
    <3>1. IsFiniteSet(grown'[r])
        BY <2>2, FS_Subset
    <3> QED
        BY <2>1, <3>1, FS_Subset, FS_CardinalityType
  <2>6. Cardinality(expected[r]) \in Nat /\ Cardinality({}) = 0
    <3>1. expected[r] \subseteq begun /\ IsFiniteSet(begun)
        BY DEF Places, Shape, TypeOK
    <3> QED
        BY <3>1, FS_Subset, FS_CardinalityType, FS_EmptySet
  <2> DEFINE before == Cardinality(expected[r])
             after == Cardinality(expected'[r])
             low == Cardinality(begun) + Cardinality(grown[r])
             high == Cardinality(begun') + Cardinality(grown'[r])
  <2>7. after = before \/ after = 0
      BY <2>1, <2>6
  <2>8. low \in Nat /\ high \in Nat /\ low <= high
      BY <2>4, <2>5
  <2> HIDE DEF before, after, low, high
  <2>9. \A n, a, b, l, h : n \in a..l /\ a \in Nat /\ l \in Nat /\ h \in Nat /\ l <= h
                             /\ (b = a \/ b = 0) => n \in b..h
      OBVIOUS
  <2>10. reader[r].result[1] \in before..low /\ before \in Nat
      BY <2>3, <2>6 DEF before, low
  <2>11. reader[r].result[1] \in after..high
      BY <2>7, <2>8, <2>9, <2>10
  <2> QED
      BY <2>1, <2>11 DEF after, high
<1> QED
    BY <1>1, <1>2, <1>3

-----------------------------------------------------------------------------
(* What kills and faults cost.                                             *)

\* One piece more gives its event an end, or leaves it without.
LEMMA StrandedPut ==
  ASSUME Places, NEW w \in Writers, NEW piece \in Pieces, Puts(w, piece)
  PROVE  /\ Cut(piece) => Stranded' = Stranded \cup {pending[w]}
         /\ ~Cut(piece) => Stranded' = Stranded \ {pending[w]}
<1> USE DEF Places
<1>1. /\ Put(piece) /\ path \in DOMAIN files /\ piece.event = pending[w]
      /\ begun' = begun \cup {pending[w]} /\ pending[w] # None
    BY EventLogAssumption DEF Puts
<1>2. /\ DOMAIN files' = DOMAIN files
      /\ Len(files[path]) + 1 \in DOMAIN files'[path]
      /\ files'[path][Len(files[path]) + 1] = piece
      /\ \A f \in DOMAIN files : \A i \in DOMAIN files[f] :
           i \in DOMAIN files'[f] /\ files'[f][i] = files[f][i]
  <2>1. ASSUME NEW f \in DOMAIN files, NEW i \in DOMAIN files[f]
        PROVE  i \in DOMAIN files'[f] /\ files'[f][i] = files[f][i]
    <3>1. CASE f = path
        BY <1>1, <3>1, Extended, Dense
    <3>2. CASE f # path
        BY <1>1, <3>2, Extended
    <3> QED
        BY <3>1, <3>2
  <2> QED
      BY <1>1, <2>1, Extended, Dense
<1>3. ASSUME NEW e, e # pending[w] PROVE e \in Stranded' <=> e \in Stranded
  <2>1. ASSUME e \in Stranded PROVE e \in Stranded'
      BY <1>1, <1>3, <2>1, Older DEF Stranded
  <2>2. ASSUME e \in Stranded' PROVE e \in Stranded
      BY <1>1, <1>2, <1>3, <2>2 DEF Stranded
  <2> QED
      BY <2>1, <2>2
<1>4. ASSUME Cut(piece) PROVE pending[w] \in Stranded'
  <2> SUFFICES ASSUME NEW f \in DOMAIN files', NEW i \in DOMAIN files'[f],
                      files'[f][i].event = pending[w]
               PROVE  Cut(files'[f][i])
      BY <1>1 DEF Stranded
  <2>1. CASE f \in DOMAIN files /\ i \in DOMAIN files[f] /\ files'[f][i] = files[f][i]
      BY <1>1, <2>1 DEF Appending, Unended, Cut
  <2> QED
      BY <1>1, <1>4, <2>1, Older
<1>5. ASSUME ~Cut(piece) PROVE pending[w] \notin Stranded'
    BY <1>1, <1>2, <1>5 DEF Stranded
<1>6. \A e : e \in Stranded' <=> IF e = pending[w] THEN Cut(piece) ELSE e \in Stranded
    BY <1>3, <1>4, <1>5
<1> QED
    BY <1>6

\* A step adds no event to those without an end, unless it is a kill or a
\* fault, which adds one.
LEMMA Damage ==
  ASSUME Places, [Next]_vars
  PROVE  \/ Stranded' \ Held' \subseteq Stranded \ Held /\ kills' + faults' >= kills + faults
         \/ /\ \E e \in Events : Stranded' \ Held' \subseteq (Stranded \ Held) \cup {e}
            /\ kills' + faults' = kills + faults + 1
<1> USE DEF Places
<1>0. kills \in Nat /\ faults \in Nat /\ None \notin Writers /\ begun \subseteq Events
    BY EventLogAssumption DEF TypeOK, Shape
<1>1. ASSUME UNCHANGED <<files, begun>>, Held' = Held, UNCHANGED <<kills, faults>>
      PROVE  /\ Stranded' \ Held' \subseteq Stranded \ Held
             /\ kills' + faults' >= kills + faults
    BY <1>0, <1>1 DEF Stranded
<1>2. ASSUME NEW w \in Writers, NEW e \in Events, Begin(w, e)
      PROVE  Held' = Held /\ UNCHANGED <<files, begun, kills, faults>>
    BY <1>2 DEF Begin, Held, TypeOK
<1>3. ASSUME NEW w \in Writers, Acquire(w)
      PROVE  /\ Stranded' \ Held' \subseteq Stranded \ Held
             /\ kills' + faults' >= kills + faults
  <2>1. /\ lock = None /\ lock' = w /\ pending' = pending /\ begun' = begun
        /\ pending[w] # None /\ kills' = kills /\ faults' = faults
      BY <1>3 DEF Acquire, Enter
  <2>2. pending[w] \notin begun
      BY <1>0, <2>1 DEF Appending, AtEnd
  <2>3. Held = {} /\ Held' = {}
      BY <2>1, <2>2 DEF Held
  <2>4. Stranded' \subseteq Stranded
      BY <1>3, <2>1, Opened DEF Stranded
  <2> QED
      BY <1>0, <2>1, <2>3, <2>4
<1>4. ASSUME NEW w \in Writers, NEW piece \in Pieces, Puts(w, piece)
      PROVE  \/ /\ Stranded' \ Held' \subseteq Stranded \ Held
                /\ kills' + faults' >= kills + faults
             \/ /\ \E e \in Events : Stranded' \ Held' \subseteq (Stranded \ Held) \cup {e}
                /\ kills' + faults' = kills + faults + 1
  <2>1. /\ lock = w /\ w # None /\ pending[w] \in Events /\ begun' = begun \cup {pending[w]}
        /\ kills' = kills /\ faults' \in {faults, faults + 1}
        /\ piece.part = "torn" => faults' = faults + 1
      BY <1>4 DEF Puts
  <2>2. Held \subseteq {pending[w]} /\ kills' + faults' >= kills + faults
    <3>1. Held \subseteq {pending[w]}
        BY <2>1 DEF Held
    <3>2. faults' = faults \/ faults' = faults + 1
        BY <2>1
    <3>3. \A k, m, n \in Nat : n = m \/ n = m + 1 => k + n >= k + m
        OBVIOUS
    <3>4. faults' \in Nat
        BY <1>0, <3>2
    <3>5. kills + faults' >= kills + faults
        BY <1>0, <3>2, <3>3, <3>4
    <3> QED
        BY <2>1, <3>1, <3>5
  <2>3. CASE piece.part = "head"
    <3>1. Stranded' = Stranded \cup {pending[w]}
        BY <1>4, <2>3, StrandedPut DEF Cut
    <3>2. lock' = lock /\ pending' = pending /\ pending[w] \notin begun
        BY <1>4, <2>3 DEF Puts
    <3>3. Held' = {pending[w]}
        BY <2>1, <3>2 DEF Held
    <3> QED
        BY <2>2, <3>1, <3>3
  <2>4. CASE piece.part = "torn"
    <3>1. Stranded' = Stranded \cup {pending[w]}
        BY <1>4, <2>4, StrandedPut DEF Cut
    <3>2. Stranded' \ Held' \subseteq (Stranded \ Held) \cup {pending[w]}
        BY <2>2, <3>1
    <3>3. kills' + faults' = kills + faults + 1
        BY <1>0, <2>1, <2>4
    <3> QED
        BY <2>1, <3>2, <3>3
  <2>5. CASE piece.part \notin {"head", "torn"}
    <3>1. Stranded' = Stranded \ {pending[w]}
        BY <1>4, <2>5, StrandedPut DEF Cut
    <3> QED
        BY <2>2, <3>1
  <2> QED
      BY <2>3, <2>4, <2>5
\* An append that ends where it is leaves at most its own event.
<1>5. ASSUME NEW e \in Events, Held \subseteq {e}, UNCHANGED <<files, begun>>
      PROVE  Stranded' \ Held' \subseteq (Stranded \ Held) \cup {e}
    BY <1>5 DEF Stranded
<1>6. ASSUME NEW w \in Writers, GivesUp(w)
      PROVE  /\ \E e \in Events : Stranded' \ Held' \subseteq (Stranded \ Held) \cup {e}
             /\ kills' + faults' = kills + faults + 1
  <2>1. /\ pending[w] \in Events /\ lock \in {w, None} /\ UNCHANGED <<files, begun, kills>>
        /\ faults' = faults + 1
      BY <1>6 DEF GivesUp
  <2>2. Held \subseteq {pending[w]}
      BY <2>1 DEF Held
  <2> QED
      BY <1>0, <1>5, <2>1, <2>2
<1>7. CASE Kill
  <2>1. UNCHANGED <<files, begun, faults>> /\ kills' = kills + 1
      BY <1>7 DEF Kill
  <2>2. CASE Stranded' = {}
    <3>1. kills' + faults' >= kills + faults
        BY <1>0, <2>1
    <3> QED
        BY <2>2, <3>1
  <2>3. CASE Stranded' # {}
    <3>1. \E e \in Events : Held \subseteq {e}
      <4>1. PICK g \in Events : g \in Stranded'
          BY <1>0, <2>1, <2>3 DEF Stranded
      <4>2. CASE lock = None
          BY <4>1, <4>2 DEF Held
      <4>3. CASE lock # None
        <5>1. pending[lock] \in Events
            BY <4>3 DEF TypeOK
        <5> QED
            BY <5>1 DEF Held
      <4> QED
          BY <4>2, <4>3
    <3> QED
        BY <1>0, <1>5, <2>1, <3>1
  <2> QED
      BY <2>2, <2>3
<1>8. CASE Clear \/ UNCHANGED vars
    BY <1>1, <1>8 DEF Clear, vars, Held
<1>9. ASSUME NEW r \in Readers, Reads(r)
      PROVE  Held' = Held /\ UNCHANGED <<files, begun, kills, faults>>
    BY <1>9, ReadsOnly DEF stored, Held
<1> QED
    BY <1>1, <1>2, <1>3, <1>4, <1>6, <1>7, <1>8, <1>9, Steps

LEMMA BlamedStep == Places /\ Blamed /\ [Next]_vars => Blamed'
<1> SUFFICES ASSUME Places, Blamed, [Next]_vars PROVE Blamed'
    OBVIOUS
<1> DEFINE lost == Stranded \ Held
           more == Stranded' \ Held'
<1>1. IsFiniteSet(lost)
  <2>1. lost \subseteq begun /\ IsFiniteSet(begun)
      BY DEF Stranded, Places, Shape
  <2> QED
      BY <2>1, FS_Subset
<1>2. kills \in Nat /\ faults \in Nat /\ kills' \in Nat /\ faults' \in Nat
    BY TypeStep DEF Places, TypeOK
<1>3. \/ more \subseteq lost /\ kills' + faults' >= kills + faults
      \/ /\ \E e \in Events : more \subseteq lost \cup {e}
         /\ kills' + faults' = kills + faults + 1
    BY Damage
<1>4. Cardinality(lost) <= kills + faults
    BY DEF Blamed
<1> HIDE DEF lost, more
<1>5. CASE more \subseteq lost /\ kills' + faults' >= kills + faults
  <2>1. Cardinality(more) <= Cardinality(lost) /\ Cardinality(more) \in Nat
        /\ Cardinality(lost) \in Nat
      BY <1>1, <1>5, FS_Subset, FS_CardinalityType
  <2>2. \A m, n, k, f, j, g \in Nat :
           m <= n /\ n <= k + f /\ j + g >= k + f => m <= j + g
      OBVIOUS
  <2>3. Cardinality(more) <= kills' + faults'
      BY <1>2, <1>4, <1>5, <2>1, <2>2
  <2> QED
      BY <2>3 DEF more, Blamed
<1>6. ASSUME NEW e \in Events, more \subseteq lost \cup {e},
             kills' + faults' = kills + faults + 1
      PROVE  Blamed'
  <2>1. /\ IsFiniteSet(lost \cup {e}) /\ Cardinality(lost) \in Nat
        /\ Cardinality(lost \cup {e}) <= Cardinality(lost) + 1
        /\ Cardinality(lost \cup {e}) \in Nat
    <3>1. /\ IsFiniteSet(lost \cup {e})
          /\ \/ Cardinality(lost \cup {e}) = Cardinality(lost)
             \/ Cardinality(lost \cup {e}) = Cardinality(lost) + 1
        BY <1>1, FS_AddElement
    <3>2. Cardinality(lost) \in Nat
        BY <1>1, FS_CardinalityType
    <3> QED
        BY <3>1, <3>2
  <2>2. Cardinality(more) <= Cardinality(lost \cup {e}) /\ Cardinality(more) \in Nat
    <3> DEFINE all == lost \cup {e}
    <3>1. IsFiniteSet(all) /\ more \subseteq all
        BY <1>6, <2>1
    <3> HIDE DEF all
    <3>2. Cardinality(more) <= Cardinality(all) /\ Cardinality(more) \in Nat
        BY <3>1, FS_Subset, FS_CardinalityType
    <3> QED
        BY <3>2 DEF all
  <2> DEFINE before == kills + faults
             after == kills' + faults'
  <2>3. before \in Nat /\ after = before + 1 /\ Cardinality(lost) <= before
    <3>1. before \in Nat
        BY <1>2
    <3>2. after = before + 1
        BY <1>6
    <3> QED
        BY <1>4, <3>1, <3>2
  <2> HIDE DEF before, after
  <2>4. Cardinality(more) <= after
      BY <2>1, <2>2, <2>3
  <2> QED
      BY <2>4 DEF after, more, Blamed
<1> QED
    BY <1>3, <1>5, <1>6

LEMMA Invariance == Spec => []IInv
<1>1. IInv /\ [Next]_vars => IInv'
    BY PlacesStep, BlamedStep, ReadsStep, CountsStep DEF IInv
<1> QED
    BY <1>1, InitInv, PTL DEF Spec

-----------------------------------------------------------------------------
(* Theorems.                                                               *)

\* The lock has one holder, who appends, an appended event was begun, and who
\* reads, reads a file that is there (FileEventStore).
THEOREM LogTypeCorrect == Spec => []TypeOK
<1>1. IInv => TypeOK
    BY DEF IInv, Places
<1> QED
    BY <1>1, Invariance, PTL

\* get_events takes no lock, and still what it returns is every event that
\* was there when it began and that no clear removed, each once and in the
\* order of time, with any number of writers, clears, faults and kills.
THEOREM ReadsAreComplete == Spec => []ReadsComplete
<1>1. IInv => ReadsComplete
    BY DEF IInv
<1> QED
    BY <1>1, Invariance, PTL

\* count, which reads line by line and takes no lock, returns at least the
\* events there when it began and not removed, and at most those begun when it
\* ends and once more each long event whose line went on while it read, however
\* many lines were torn or joined by faults and kills.
THEOREM CountsAreBounded == Spec => []CountsBetween
<1>1. IInv => CountsBetween
    BY DEF IInv
<1> QED
    BY <1>1, Invariance, PTL

\* Where the last piece written of an event was cut off, it has no end.
LEMMA NoEnd ==
  ASSUME Places, NEW f \in DOMAIN files, NEW k \in DOMAIN files[f], CutShort(files[f], k)
  PROVE  files[f][k].event \in Stranded
<1> USE DEF Places
<1>1. Cut(files[f][k]) /\ (k < Len(files[f]) => files[f][k + 1].event # files[f][k].event)
    BY DEF CutShort
<1> SUFFICES ASSUME NEW g \in DOMAIN files, NEW j \in DOMAIN files[g],
                    files[g][j].event = files[f][k].event, ~Cut(files[g][j])
             PROVE  FALSE
    BY DEF Stranded, Written
<1>2. CASE files[f][k].part = "head"
  <2>1. g = f /\ j = k + 1
      BY <1>2 DEF Adjacent, Cut
  <2>2. k < Len(files[f])
      BY <2>1, Dense
  <2> QED
      BY <1>1, <2>1, <2>2
<1>3. CASE files[f][k].part # "head"
    BY <1>1, <1>3 DEF Unique, Cut
<1> QED
    BY <1>2, <1>3

\* A line that does not parse has a piece of such an event: it is the last one
\* of the file, or stands before the event that the line ends with.
Guilty(pieces, i, k) ==
  /\ k \in DOMAIN pieces /\ CutShort(pieces, k)
  /\ \/ k = i /\ i = Len(pieces)
     \/ k = i - 1 /\ pieces[i].part = "whole"
     \/ k = i - 2 /\ pieces[i].part = "tail" /\ pieces[i - 1].part = "head"

LEMMA SomeGuilty ==
  ASSUME Places, NEW f \in DOMAIN files, NEW i \in LineEnds(files[f]), ~Parses(files[f], i)
  PROVE  \E k \in DOMAIN files[f] : Guilty(files[f], i, k)
<1> USE DEF Places
<1>1. /\ i \in DOMAIN files[f] /\ Len(files[f]) \in Nat /\ DOMAIN files[f] = 1..Len(files[f])
      /\ files[f][i].part \in {"head", "torn", "tail", "whole"}
      /\ Cut(files[f][i]) => i = Len(files[f])
    BY Dense DEF LineEnds, Pieces
<1>2. CASE Cut(files[f][i])
    BY <1>1, <1>2 DEF Guilty, CutShort
<1>3. CASE files[f][i].part = "whole"
  <2>1. i # 1 /\ Cut(files[f][i - 1])
      BY <1>3 DEF Parses, Begins
  <2>2. i - 1 \in DOMAIN files[f] /\ (i - 1) + 1 = i
      BY <1>1, <2>1
  <2>3. files[f][i].event # files[f][i - 1].event
    <3> SUFFICES ASSUME files[f][i].event = files[f][i - 1].event PROVE FALSE
        OBVIOUS
    <3> DEFINE m == i - 1
    <3>1. m \in DOMAIN files[f] /\ m # i /\ files[f][m].event = files[f][i].event
        BY <1>1, <2>2
    <3> HIDE DEF m
    <3>2. files[f][m].part # "head"
        BY <1>1, <1>3, <3>1 DEF Written
    <3> QED
        BY <1>1, <1>3, <3>1, <3>2 DEF Unique
  <2> QED
      BY <1>3, <2>1, <2>2, <2>3 DEF Guilty, CutShort
<1>4. CASE files[f][i].part = "tail"
  <2>1. i > 1 /\ files[f][i - 1] = Piece(files[f][i].event, "head")
      BY <1>1, <1>4 DEF Tails
  <2>2. i - 1 # 1 /\ Cut(files[f][(i - 1) - 1])
      BY <1>4, <2>1 DEF Parses, Begins
  <2>3. /\ i - 1 \in DOMAIN files[f] /\ i - 2 \in DOMAIN files[f] /\ (i - 1) - 1 = i - 2
        /\ (i - 2) + 1 = i - 1
      BY <1>1, <2>1, <2>2
  <2>4. files[f][i - 1].part = "head" /\ files[f][i - 1].event = files[f][i].event
      BY <2>1 DEF Piece
  <2>5. files[f][i - 1].event # files[f][i - 2].event
    <3> SUFFICES ASSUME files[f][i - 1].event = files[f][i - 2].event PROVE FALSE
        OBVIOUS
    <3> DEFINE m == i - 1
               n == i - 2
    <3>1. /\ m \in DOMAIN files[f] /\ n \in DOMAIN files[f] /\ n # m /\ n # m + 1
          /\ files[f][m].part = "head" /\ files[f][m].event = files[f][n].event
        BY <1>1, <2>3, <2>4
    <3> HIDE DEF m, n
    <3>2. CASE files[f][n].part = "head"
        BY <3>1, <3>2 DEF Unique
    <3>3. CASE files[f][n].part # "head"
        BY <3>1, <3>3 DEF Adjacent
    <3> QED
        BY <3>2, <3>3
  <2> DEFINE k == i - 2
  <2>6. k \in DOMAIN files[f] /\ k + 1 = i - 1 /\ Cut(files[f][k])
        /\ files[f][k + 1].event # files[f][k].event
      BY <2>2, <2>3, <2>5
  <2>7. Guilty(files[f], i, k)
      BY <1>4, <2>4, <2>6 DEF Guilty, CutShort
  <2> QED
      BY <2>6, <2>7
<1> QED
    BY <1>1, <1>2, <1>3, <1>4 DEF Cut

\* No event is guilty of two lines.
LEMMA OneVictim ==
  ASSUME Places, NEW f \in DOMAIN files, NEW g \in DOMAIN files,
         NEW i \in DOMAIN files[f], NEW j \in DOMAIN files[g],
         NEW k \in DOMAIN files[f], NEW l \in DOMAIN files[g],
         Guilty(files[f], i, k), Guilty(files[g], j, l),
         files[f][k].event = files[g][l].event
  PROVE  f = g /\ i = j
<1> USE DEF Places
<1>1. CutShort(files[f], k) /\ CutShort(files[g], l)
    BY DEF Guilty
<1>2. ASSUME NEW a \in DOMAIN files, NEW b \in DOMAIN files,
             NEW m \in DOMAIN files[a], NEW n \in DOMAIN files[b],
             files[a][m].event = files[b][n].event, CutShort(files[b], n),
             files[a][m].part # "head", files[b][n].part = "head"
      PROVE  FALSE
  <2>1. a = b /\ m = n + 1
      BY <1>2 DEF Adjacent
  <2>2. n < Len(files[b])
      BY <2>1, Dense
  <2> QED
      BY <1>2, <2>1, <2>2 DEF CutShort
<1>3. f = g /\ k = l
    BY <1>1, <1>2 DEF Unique
<1>4. /\ i \in 1..Len(files[f]) /\ j \in 1..Len(files[f]) /\ Len(files[f]) \in Nat
    BY <1>3, Dense
<1>5. /\ \/ k = i /\ i = Len(files[f])
         \/ k = i - 1 /\ files[f][i].part = "whole"
         \/ k = i - 2 /\ files[f][i].part = "tail" /\ files[f][i - 1].part = "head"
      /\ \/ k = j /\ j = Len(files[f])
         \/ k = j - 1 /\ files[f][j].part = "whole"
         \/ k = j - 2 /\ files[f][j].part = "tail" /\ files[f][j - 1].part = "head"
    BY <1>3 DEF Guilty
<1>6. i = j
  <2>1. ASSUME NEW m \in 1..Len(files[f]), NEW n \in 1..Len(files[f]), k = m - 1, k = n - 2,
               files[f][m].part = "whole", files[f][n - 1].part = "head"
        PROVE  FALSE
    <3>1. m = n - 1
        BY <1>4, <2>1
    <3> QED
        BY <2>1, <3>1
  <2>2. CASE (k = i /\ i = Len(files[f])) \/ (k = j /\ j = Len(files[f]))
      BY <1>4, <1>5, <2>2
  <2>3. CASE k = i - 1 /\ k = j - 1
      BY <1>4, <2>3
  <2>4. CASE k = i - 2 /\ k = j - 2
      BY <1>4, <2>4
  <2> QED
      BY <1>4, <1>5, <2>1, <2>2, <2>3, <2>4
<1> QED
    BY <1>3, <1>6

\* Whoever finds the lock free finds at most one line that get_events cannot
\* read for every kill and every append that failed, in all files together:
\* append's lock keeps every other line whole, and a cut line spoils none but
\* itself or the one that joins it.
THEOREM DamageIsBounded == Spec => []DamageBounded
<1>1. IInv => DamageBounded
  <2> SUFFICES ASSUME IInv, lock = None PROVE Cardinality(Spoiled) <= kills + faults
      BY DEF DamageBounded
  <2> USE DEF IInv, Places
  <2> DEFINE Blames(p, e) == \E k \in DOMAIN files[p[1]] :
                               Guilty(files[p[1]], p[2], k) /\ files[p[1]][k].event = e
  <2>1. ASSUME NEW p \in Spoiled
        PROVE  /\ p = <<p[1], p[2]>> /\ p[1] \in DOMAIN files /\ p[2] \in DOMAIN files[p[1]]
               /\ \E e \in Stranded : Blames(p, e)
    <3>1. PICK f \in DOMAIN files :
            p \in {f} \X {i \in LineEnds(files[f]) : ~Parses(files[f], i)}
        BY DEF Spoiled
    <3>2. /\ p = <<p[1], p[2]>> /\ p[1] = f
          /\ p[2] \in LineEnds(files[f]) /\ ~Parses(files[f], p[2])
        BY <3>1
    <3>3. PICK k \in DOMAIN files[f] : Guilty(files[f], p[2], k)
        BY <3>2, SomeGuilty
    <3>4. files[f][k].event \in Stranded
        BY <3>3, NoEnd DEF Guilty
    <3>5. p[2] \in DOMAIN files[f]
        BY <3>2 DEF LineEnds
    <3> QED
        BY <3>2, <3>3, <3>4, <3>5
  <2>2. ASSUME NEW p \in Spoiled, NEW q \in Spoiled, NEW e, Blames(p, e), Blames(q, e)
        PROVE  p = q
    <3>1. p[1] = q[1] /\ p[2] = q[2]
        BY <2>1, <2>2, OneVictim
    <3> QED
        BY <2>1, <3>1
  <2>3. IsFiniteSet(Stranded) /\ Cardinality(Stranded) <= kills + faults
    <3>1. Stranded \subseteq begun /\ IsFiniteSet(begun)
        BY DEF Stranded, Shape
    <3>2. Stranded \ Held = Stranded
        BY DEF Held
    <3> QED
        BY <3>1, <3>2, FS_Subset DEF Blamed
  <2> HIDE DEF Blames
  <2> DEFINE to == [p \in Spoiled |-> CHOOSE e \in Stranded : Blames(p, e)]
  <2>4. to \in [Spoiled -> Stranded] /\ \A p \in Spoiled : Blames(p, to[p])
      BY <2>1
  <2> HIDE DEF to
  <2>5. to \in Injection(Spoiled, Stranded)
      BY <2>2, <2>4 DEF Injection, IsInjective
  <2>6. IsFiniteSet(Spoiled) /\ Cardinality(Spoiled) <= Cardinality(Stranded)
      BY <2>3, <2>5, FS_Injection
  <2>7. kills \in Nat /\ faults \in Nat /\ Cardinality(Spoiled) \in Nat
        /\ Cardinality(Stranded) \in Nat
      BY <2>3, <2>6, FS_CardinalityType DEF TypeOK
  <2> QED
      BY <2>3, <2>6, <2>7
<1> QED
    BY <1>1, Invariance, PTL
=============================================================================
