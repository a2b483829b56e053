--------------------------- MODULE SnapshotProofs ---------------------------
(***************************************************************************)
(* Proofs about SnapshotStore, for any contents, processes, clock and      *)
(* number of crashes.  The invariant says who may write which file: from   *)
(* mkdir to the manifest a directory belongs to the one process that made  *)
(* it, and whoever has read a manifest knows a date that never changes.    *)
(***************************************************************************)
EXTENDS SnapshotStore, FiniteSetTheorems, TLAPS

\* p is between its mkdir and its manifest.
Fills(p) == process[p].at \in {"table", "stamp", "manifest"}

\* What p knows of the files, and what they owe to p.
Owned(p) ==
  Fills(p) =>
    /\ process[p].content \in dir
    /\ created[process[p].content] = 0
    /\ process[p].at # "table" => process[p].content \in table
    /\ process[p].at = "manifest" => process[p].stamp # 0

Known(p) ==
  process[p].at \in {"compare", "read", "published", "resolved"} =>
    /\ process[p].stamp = created[process[p].content]
    /\ process[p].stamp # 0

\* While p looks for the latest snapshot, each one it has seen is no newer
\* than its best candidate, or still to come.
Looking(p) ==
  process[p].at = "scan" =>
    /\ process[p].content = NoContent => process[p].stamp = 0
    /\ process[p].content # NoContent =>
         /\ process[p].stamp = created[process[p].content]
         /\ process[p].stamp # 0
    /\ \A c \in Contents :
         \/ process[p].seen[c] <= process[p].stamp
         \/ c \in process[p].left /\ created[c] = process[p].seen[c]

Fresh(p) ==
  /\ process[p].at = "open" => \A c \in Contents : process[p].seen[c] = 0
  /\ process[p].at \in {"read", "resolved"} =>
       \A c \in Contents : process[p].stamp >= process[p].seen[c]

Local(p) == Owned(p) /\ Known(p) /\ Looking(p) /\ Fresh(p)

Exclusive ==
  \A p, q \in Processes :
    p # q /\ Fills(p) /\ Fills(q) => process[p].content # process[q].content

DirectoryFirst == \A c \in Contents : created[c] # 0 => c \in dir

IInv ==
  /\ TypeOK
  /\ ManifestIsLast
  /\ DirectoryFirst
  /\ Exclusive
  /\ \A p \in Processes : Local(p)

-----------------------------------------------------------------------------

\* A step of p that moves nothing but p.
LEMMA LocalStep ==
  ASSUME IInv, NEW p \in Processes, NEW r \in ProcessStates,
         process' = [process EXCEPT ![p] = r], UNCHANGED <<files, clock, crashes>>,
         r.at \notin {"idle", "scan", "raised"} => r.content \in Contents,
         r.at \in {"table", "stamp", "manifest"} => Fills(p) /\ r.content = process[p].content,
         Local(p)'
  PROVE  IInv'
<1> USE DEF IInv
<1>1. process'[p] = r /\ \A q \in Processes : q # p => process'[q] = process[q]
  BY DEF TypeOK
<1>2. TypeOK'
  BY <1>1 DEF TypeOK, files
<1>3. ManifestIsLast' /\ DirectoryFirst'
  BY DEF ManifestIsLast, DirectoryFirst, files
<1>4. Exclusive'
  BY <1>1 DEF Exclusive, Fills
<1>5. ASSUME NEW q \in Processes, q # p PROVE Local(q)'
  BY <1>1, <1>5 DEF Local, Owned, Known, Looking, Fresh, Fills, files
<1>6. QED BY <1>2, <1>3, <1>4, <1>5

LEMMA Initially == Init => IInv
BY SnapshotStoreAssumption
   DEF Init, IInv, TypeOK, ManifestIsLast, DirectoryFirst, Exclusive, Local, Owned, Known,
       Looking, Fresh, Fills, Idle, NoManifest, ProcessStates, Ended

\* What the actions make of a process.
LEMMA Moved ==
  ASSUME NEW s \in ProcessStates,
         NEW at \in Publishing \cup Republishing \cup Resolving \cup Ended
  PROVE  /\ [s EXCEPT !.at = at] \in ProcessStates
         /\ \A t \in 0..MaxClock : [s EXCEPT !.at = at, !.stamp = t] \in ProcessStates
         /\ \A c \in Contents, t \in 0..MaxClock :
              [s EXCEPT !.left = @ \ {c}, !.content = c, !.stamp = t] \in ProcessStates
         /\ \A c \in Contents : [s EXCEPT !.left = @ \ {c}] \in ProcessStates
  BY DEF ProcessStates

LEMMA Started ==
  ASSUME TypeOK, NEW c \in Contents,
         NEW at \in Publishing \cup Republishing \cup Resolving \cup Ended
  PROVE  /\ Begun(at, c) \in ProcessStates
         /\ Begun(at, c).at = at /\ Begun(at, c).content = c
         /\ Begun(at, c).seen = NoManifest
<1>1. NoManifest \in [Contents -> 0..MaxClock] /\ 0 \in 0..MaxClock
  BY SnapshotStoreAssumption DEF NoManifest
<1>2. Idle \in ProcessStates /\ Idle.seen = NoManifest
  BY <1>1 DEF ProcessStates, Idle, Ended
<1> QED
  BY <1>2 DEF Begun, ProcessStates

LEMMA Steps == IInv /\ [Next]_vars => IInv'
<1> SUFFICES ASSUME IInv, [Next]_vars PROVE IInv'
  OBVIOUS
<1> USE SnapshotStoreAssumption
<1> USE DEF IInv
<1>t. /\ process \in [Processes -> ProcessStates]
      /\ created \in [Contents -> 0..MaxClock]
      /\ dir \in SUBSET Contents
      /\ table \in SUBSET Contents
      /\ clock \in 1..MaxClock
      /\ \A p \in Processes : Local(p)
  BY DEF TypeOK
<1>1. ASSUME NEW p \in Processes, NEW c \in Contents, Publish(p, c) PROVE IInv'
  <2> DEFINE r == Begun(IF c \in dir THEN "load" ELSE "mkdir", c)
  <2>1. /\ r \in ProcessStates
        /\ r.at \in {"load", "mkdir"} /\ r.content = c /\ r.seen = NoManifest
    BY Started DEF Publishing, Republishing
  <2>2. process' = [process EXCEPT ![p] = r] /\ UNCHANGED <<files, clock, crashes>>
    BY <1>1 DEF Publish
  <2> HIDE DEF r
  <2>3. process'[p] = r
    BY <2>2, <1>t
  <2>4. Local(p)'
    BY <2>1, <2>3 DEF Local, Owned, Known, Looking, Fresh, Fills, NoManifest
  <2> QED
    BY <2>1, <2>2, <2>4, LocalStep
<1>2. ASSUME NEW p \in Processes, NEW c \in Contents, Resolve(p, c) PROVE IInv'
  <2> DEFINE r == Begun(IF c \in dir THEN "open" ELSE "raised", c)
  <2>1. /\ r \in ProcessStates
        /\ r.at \in {"open", "raised"} /\ r.content = c /\ r.seen = NoManifest
    BY Started DEF Resolving, Ended
  <2>2. process' = [process EXCEPT ![p] = r] /\ UNCHANGED <<files, clock, crashes>>
    BY <1>2 DEF Resolve
  <2> HIDE DEF r
  <2>3. process'[p] = r
    BY <2>2, <1>t
  <2>4. Local(p)'
    BY <2>1, <2>3 DEF Local, Owned, Known, Looking, Fresh, Fills, NoManifest
  <2> QED
    BY <2>1, <2>2, <2>4, LocalStep
<1>3. ASSUME NEW p \in Processes, Stamp(p) PROVE IInv'
  <2> DEFINE r == [process[p] EXCEPT !.at = "manifest", !.stamp = clock]
  <2>1. process[p] \in ProcessStates /\ Local(p)
    BY <1>t
  <2>2. /\ process' = [process EXCEPT ![p] = r] /\ UNCHANGED <<files, clock, crashes>>
        /\ process[p].at = "stamp"
    BY <1>3 DEF Stamp, Goto
  <2>3. r \in ProcessStates
    <3>1. clock \in 0..MaxClock
      BY <1>t
    <3>2. "manifest" \in Publishing \cup Republishing \cup Resolving \cup Ended
      BY DEF Publishing
    <3> QED
      BY <2>1, <3>1, <3>2, Moved
  <2>4. /\ r.at = "manifest" /\ r.stamp = clock
        /\ r.content = process[p].content /\ r.left = process[p].left
        /\ r.seen = process[p].seen
    BY <2>1, <2>2, <1>t DEF ProcessStates
  <2> HIDE DEF r
  <2>5. process'[p] = r
    BY <2>2, <1>t
  <2>6. Local(p)'
    BY <2>1, <2>2, <2>4, <2>5, <1>t DEF TypeOK, Local, Owned, Known, Looking, Fresh, Fills, files
  <2>7. r.at \notin {"idle", "scan", "raised"} => r.content \in Contents
    BY <2>1, <2>2, <2>4 DEF TypeOK
  <2>8. r.at \in {"table", "stamp", "manifest"} => Fills(p) /\ r.content = process[p].content
    BY <2>2, <2>4 DEF Fills
  <2> QED
    BY <2>2, <2>3, <2>6, <2>7, <2>8, LocalStep
<1>4. ASSUME NEW p \in Processes, LoadExisting(p) PROVE IInv'
  <2> DEFINE r == IF created[process[p].content] = 0
                THEN [process[p] EXCEPT !.at = "refused"]
                ELSE [process[p] EXCEPT !.at = "compare",
                                        !.stamp = created[process[p].content]]
  <2>1. process[p] \in ProcessStates /\ Local(p)
    BY <1>t
  <2>2. /\ process' = [process EXCEPT ![p] = r] /\ UNCHANGED <<files, clock, crashes>>
        /\ process[p].at = "load"
    BY <1>4 DEF LoadExisting, Goto
  <2>3. r \in ProcessStates
    BY <2>1, <2>2, <1>t, Moved DEF Republishing, Ended, TypeOK
  <2>4. /\ r.at \in {"refused", "compare"}
        /\ r.at = "compare" => created[process[p].content] # 0 /\ r.stamp = created[process[p].content]
        /\ r.content = process[p].content /\ r.left = process[p].left
        /\ r.seen = process[p].seen
    BY <2>1, <2>2, <1>t DEF ProcessStates
  <2> HIDE DEF r
  <2>5. process'[p] = r
    BY <2>2, <1>t
  <2>6. Local(p)'
    BY <2>1, <2>2, <2>4, <2>5, <1>t DEF TypeOK, Local, Owned, Known, Looking, Fresh, Fills, files
  <2>7. r.at \notin {"idle", "scan", "raised"} => r.content \in Contents
    BY <2>1, <2>2, <2>4 DEF TypeOK
  <2>8. r.at \in {"table", "stamp", "manifest"} => Fills(p) /\ r.content = process[p].content
    BY <2>2, <2>4 DEF Fills
  <2> QED
    BY <2>2, <2>3, <2>6, <2>7, <2>8, LocalStep
<1>5. ASSUME NEW p \in Processes, Compare(p) PROVE IInv'
  <2> DEFINE r == [process[p] EXCEPT !.at = IF process[p].content \in table
                                         THEN "published" ELSE "refused"]
  <2>1. process[p] \in ProcessStates /\ Local(p)
    BY <1>t
  <2>2. /\ process' = [process EXCEPT ![p] = r] /\ UNCHANGED <<files, clock, crashes>>
        /\ process[p].at = "compare"
    BY <1>5 DEF Compare, Goto
  <2>3. r \in ProcessStates
    BY <2>1, <2>2, <1>t, Moved DEF Ended
  <2>4. /\ r.at \in {"published", "refused"}
        /\ r.content = process[p].content /\ r.stamp = process[p].stamp
        /\ r.left = process[p].left /\ r.seen = process[p].seen
    BY <2>1, <2>2, <1>t DEF ProcessStates
  <2> HIDE DEF r
  <2>5. process'[p] = r
    BY <2>2, <1>t
  <2>6. Local(p)'
    BY <2>1, <2>2, <2>4, <2>5, <1>t DEF TypeOK, Local, Owned, Known, Looking, Fresh, Fills, files
  <2>7. r.at \notin {"idle", "scan", "raised"} => r.content \in Contents
    BY <2>1, <2>2, <2>4 DEF TypeOK
  <2>8. r.at \in {"table", "stamp", "manifest"} => Fills(p) /\ r.content = process[p].content
    BY <2>2, <2>4 DEF Fills
  <2> QED
    BY <2>2, <2>3, <2>6, <2>7, <2>8, LocalStep
<1>6. ASSUME NEW p \in Processes, OpenManifest(p) PROVE IInv'
  <2> DEFINE r == IF created[process[p].content] = 0
                THEN [process[p] EXCEPT !.at = "raised"]
                ELSE [process[p] EXCEPT !.at = "read",
                                        !.stamp = created[process[p].content]]
  <2>1. process[p] \in ProcessStates /\ Local(p)
    BY <1>t
  <2>2. /\ process' = [process EXCEPT ![p] = r] /\ UNCHANGED <<files, clock, crashes>>
        /\ process[p].at = "open"
    BY <1>6 DEF OpenManifest, Goto
  <2>3. r \in ProcessStates
    BY <2>1, <2>2, <1>t, Moved DEF Resolving, Ended, TypeOK
  <2>4. /\ r.at \in {"raised", "read"}
        /\ r.at = "read" => created[process[p].content] # 0 /\ r.stamp = created[process[p].content]
        /\ r.content = process[p].content /\ r.left = process[p].left
        /\ r.seen = process[p].seen
    BY <2>1, <2>2, <1>t DEF ProcessStates
  <2> HIDE DEF r
  <2>5. process'[p] = r
    BY <2>2, <1>t
  <2>6. Local(p)'
    BY <2>1, <2>2, <2>4, <2>5, <1>t DEF TypeOK, Local, Owned, Known, Looking, Fresh, Fills, files
  <2>7. r.at \notin {"idle", "scan", "raised"} => r.content \in Contents
    BY <2>1, <2>2, <2>4 DEF TypeOK
  <2>8. r.at \in {"table", "stamp", "manifest"} => Fills(p) /\ r.content = process[p].content
    BY <2>2, <2>4 DEF Fills
  <2> QED
    BY <2>2, <2>3, <2>6, <2>7, <2>8, LocalStep
<1>7. ASSUME NEW p \in Processes, ReadTable(p) PROVE IInv'
  <2> DEFINE r == [process[p] EXCEPT !.at = IF process[p].content \in table
                                         THEN "resolved" ELSE "raised"]
  <2>1. process[p] \in ProcessStates /\ Local(p)
    BY <1>t
  <2>2. /\ process' = [process EXCEPT ![p] = r] /\ UNCHANGED <<files, clock, crashes>>
        /\ process[p].at = "read"
    BY <1>7 DEF ReadTable, Goto
  <2>3. r \in ProcessStates
    BY <2>1, <2>2, <1>t, Moved DEF Ended
  <2>4. /\ r.at \in {"resolved", "raised"}
        /\ r.content = process[p].content /\ r.stamp = process[p].stamp
        /\ r.left = process[p].left /\ r.seen = process[p].seen
    BY <2>1, <2>2, <1>t DEF ProcessStates
  <2> HIDE DEF r
  <2>5. process'[p] = r
    BY <2>2, <1>t
  <2>6. Local(p)'
    BY <2>1, <2>2, <2>4, <2>5, <1>t DEF TypeOK, Local, Owned, Known, Looking, Fresh, Fills, files
  <2>7. r.at \notin {"idle", "scan", "raised"} => r.content \in Contents
    BY <2>1, <2>2, <2>4 DEF TypeOK
  <2>8. r.at \in {"table", "stamp", "manifest"} => Fills(p) /\ r.content = process[p].content
    BY <2>2, <2>4 DEF Fills
  <2> QED
    BY <2>2, <2>3, <2>6, <2>7, <2>8, LocalStep
<1>8. ASSUME NEW p \in Processes, Choose(p) PROVE IInv'
  <2> DEFINE r == [process[p] EXCEPT !.at = IF process[p].content = NoContent
                                         THEN "raised" ELSE "read"]
  <2>1. process[p] \in ProcessStates /\ Local(p)
    BY <1>t
  <2>2. /\ process' = [process EXCEPT ![p] = r] /\ UNCHANGED <<files, clock, crashes>>
        /\ process[p].at = "scan" /\ process[p].left = {}
    BY <1>8 DEF Choose, Goto
  <2>3. r \in ProcessStates
    BY <2>1, <2>2, <1>t, Moved DEF Ended, Resolving
  <2>4. /\ r.at \in {"raised", "read"}
        /\ r.at = "read" <=> process[p].content # NoContent
        /\ r.content = process[p].content /\ r.stamp = process[p].stamp
        /\ r.left = process[p].left /\ r.seen = process[p].seen
    BY <2>1, <2>2, <1>t DEF ProcessStates
  <2> HIDE DEF r
  <2>5. process'[p] = r
    BY <2>2, <1>t
  <2>6. Local(p)'
    BY <2>1, <2>2, <2>4, <2>5, <1>t DEF TypeOK, Local, Owned, Known, Looking, Fresh, Fills, files
  <2>7. r.at \notin {"idle", "scan", "raised"} => r.content \in Contents
    BY <2>1, <2>4 DEF ProcessStates
  <2>8. r.at \in {"table", "stamp", "manifest"} => Fills(p) /\ r.content = process[p].content
    BY <2>2, <2>4 DEF Fills
  <2> QED
    BY <2>2, <2>3, <2>6, <2>7, <2>8, LocalStep
<1>9. ASSUME NEW p \in Processes, NEW c \in Contents, Scan(p, c) PROVE IInv'
  <2> DEFINE r == IF created[c] > process[p].stamp
                THEN [process[p] EXCEPT !.left = @ \ {c}, !.content = c, !.stamp = created[c]]
                ELSE [process[p] EXCEPT !.left = @ \ {c}]
  <2>1. process[p] \in ProcessStates /\ Local(p)
    BY <1>t
  <2>2. /\ process' = [process EXCEPT ![p] = r] /\ UNCHANGED <<files, clock, crashes>>
        /\ process[p].at = "scan" /\ c \in process[p].left
    <3>1. /\ UNCHANGED <<files, clock, crashes>>
          /\ process[p].at = "scan" /\ c \in process[p].left
      BY <1>9 DEF Scan
    <3>2. process' = [process EXCEPT ![p] = r]
      BY <1>9, Zenon DEF Scan
    <3> QED
      BY <3>1, <3>2
  <2>3. r \in ProcessStates
    BY <2>1, <2>2, <1>t, Moved DEF Resolving
  <2>4. /\ r.at = "scan" /\ r.left = process[p].left \ {c} /\ r.seen = process[p].seen
        /\ \/ created[c] > process[p].stamp /\ r.content = c /\ r.stamp = created[c]
           \/ /\ ~(created[c] > process[p].stamp)
              /\ r.content = process[p].content /\ r.stamp = process[p].stamp
    BY <2>1, <2>2, <1>t DEF ProcessStates
  <2> HIDE DEF r
  <2>5. process'[p] = r
    BY <2>2, <1>t
  <2>6. Local(p)'
    <3>1. Owned(p)' /\ Known(p)' /\ Fresh(p)'
      BY <2>4, <2>5 DEF Owned, Known, Fresh, Fills
    <3>2. Looking(p)
      BY <2>1 DEF Local
    <3>3. /\ process[p].seen \in [Contents -> 0..MaxClock]
          /\ process[p].stamp \in 0..MaxClock /\ created[c] \in 0..MaxClock
          /\ process[p].content \in Contents \cup {NoContent}
      BY <2>1, <1>t DEF ProcessStates
    <3>4. created' = created
      BY <2>2 DEF files
    <3>5. /\ r.content = NoContent => r.stamp = 0
          /\ r.content # NoContent => r.stamp = created[r.content] /\ r.stamp # 0
      BY <2>2, <2>4, <3>2, <3>3 DEF Looking
    <3>6. ASSUME NEW d \in Contents
          PROVE  r.seen[d] <= r.stamp \/ (d \in r.left /\ created[d] = r.seen[d])
      <4>1. process[p].seen[d] \in 0..MaxClock
        BY <3>3
      <4>2. \/ process[p].seen[d] <= process[p].stamp
            \/ d \in process[p].left /\ created[d] = process[p].seen[d]
        BY <2>2, <3>2 DEF Looking
      <4> QED
        BY <2>4, <3>3, <4>1, <4>2
    <3> QED
      BY <2>5, <3>1, <3>4, <3>5, <3>6 DEF Local, Looking
  <2>7. r.at \notin {"idle", "scan", "raised"} => r.content \in Contents
    BY <2>1, <2>2, <2>4 DEF TypeOK
  <2>8. r.at \in {"table", "stamp", "manifest"} => Fills(p) /\ r.content = process[p].content
    BY <2>2, <2>4 DEF Fills
  <2> QED
    BY <2>2, <2>3, <2>6, <2>7, <2>8, LocalStep
<1>10. ASSUME NEW p \in Processes, ListDirectories(p) PROVE IInv'
  <2> DEFINE r == [Idle EXCEPT !.at = "scan", !.left = dir, !.seen = created]
  <2>1. Idle \in ProcessStates /\ Idle.stamp = 0 /\ Idle.content = NoContent
    BY DEF ProcessStates, Idle, Ended, NoManifest
  <2>2. process' = [process EXCEPT ![p] = r] /\ UNCHANGED <<files, clock, crashes>>
    BY <1>10 DEF ListDirectories
  <2>3. /\ r \in ProcessStates
        /\ r.at = "scan" /\ r.content = NoContent /\ r.stamp = 0 /\ r.left = dir
        /\ r.seen = created
    BY <2>1, <1>t DEF ProcessStates, Resolving
  <2> HIDE DEF r
  <2>4. process'[p] = r
    BY <2>2, <1>t
  <2>5. \A c \in Contents : created[c] \in 0..MaxClock /\ (created[c] # 0 => c \in dir)
    BY <1>t DEF DirectoryFirst
  <2>6. Local(p)'
    BY <2>2, <2>3, <2>4, <2>5 DEF Local, Owned, Known, Looking, Fresh, Fills, files
  <2> QED
    BY <2>2, <2>3, <2>6, LocalStep
<1>11. ASSUME NEW p \in Processes, Crash(p) PROVE IInv'
  <2>1. Idle \in ProcessStates /\ Idle.at = "idle"
    BY DEF ProcessStates, Idle, Ended, NoManifest
  <2>2. /\ process' = [process EXCEPT ![p] = Idle] /\ UNCHANGED <<files, clock>>
        /\ crashes < MaxCrashes /\ crashes' = crashes + 1
    BY <1>11 DEF Crash
  <2>3. process'[p] = Idle /\ \A q \in Processes : q # p => process'[q] = process[q]
    BY <2>2, <1>t
  <2>4. TypeOK'
    BY <2>1, <2>2, <2>3 DEF TypeOK, files
  <2>5. ManifestIsLast' /\ DirectoryFirst' /\ Exclusive'
    BY <2>1, <2>2, <2>3 DEF ManifestIsLast, DirectoryFirst, Exclusive, Fills, files
  <2>6. ASSUME NEW q \in Processes PROVE Local(q)'
    BY <2>1, <2>2, <2>3, <2>6 DEF Local, Owned, Known, Looking, Fresh, Fills, files
  <2> QED
    BY <2>4, <2>5, <2>6
<1>12. ASSUME NEW p \in Processes, MakeDirectory(p) PROVE IInv'
  <2> DEFINE c == process[p].content
  <2> DEFINE to == IF c \in dir THEN "load" ELSE "table"
  <2>1. /\ process[p].at = "mkdir" /\ c \in Contents /\ process[p] \in ProcessStates
        /\ process' = [process EXCEPT ![p] = [process[p] EXCEPT !.at = to]]
        /\ dir' = dir \cup {c} /\ UNCHANGED <<table, created, clock, crashes>>
    BY <1>12, <1>t DEF MakeDirectory, Goto, TypeOK
  <2>2. /\ process'[p] \in ProcessStates
        /\ process'[p].at = to /\ process'[p].content = c
    BY <2>1, <1>t DEF ProcessStates, Publishing, Republishing
  <2>3. \A q \in Processes : q # p => process'[q] = process[q]
    BY <2>1, <1>t
  <2>4. c \notin dir => created[c] = 0
    BY <2>1 DEF DirectoryFirst
  <2>5. TypeOK'
    BY <2>1, <2>2, <2>3 DEF TypeOK
  <2>6. ManifestIsLast' /\ DirectoryFirst'
    BY <2>1 DEF ManifestIsLast, DirectoryFirst
  <2>7. \A q \in Processes : Fills(q) => process[q].content \in dir
    BY <1>t DEF Local, Owned
  <2>8. Exclusive'
    BY <2>2, <2>3, <2>7 DEF Exclusive, Fills
  <2>9. Local(p)'
    BY <2>1, <2>2, <2>4 DEF Local, Owned, Known, Looking, Fresh, Fills
  <2>10. ASSUME NEW q \in Processes, q # p PROVE Local(q)'
    BY <2>1, <2>3, <2>10, <1>t DEF Local, Owned, Known, Looking, Fresh, Fills
  <2> QED
    BY <2>5, <2>6, <2>8, <2>9, <2>10
<1>13. ASSUME NEW p \in Processes, WriteTable(p) PROVE IInv'
  <2> DEFINE c == process[p].content
  <2>1. /\ process[p].at = "table" /\ c \in Contents /\ process[p] \in ProcessStates
        /\ process' = [process EXCEPT ![p] = [process[p] EXCEPT !.at = "stamp"]]
        /\ table' = table \cup {c} /\ UNCHANGED <<dir, created, clock, crashes>>
    BY <1>13, <1>t DEF WriteTable, Goto, TypeOK
  <2>2. /\ process'[p] \in ProcessStates
        /\ process'[p].at = "stamp" /\ process'[p].content = c
    BY <2>1, <1>t DEF ProcessStates, Publishing
  <2>3. \A q \in Processes : q # p => process'[q] = process[q]
    BY <2>1, <1>t
  <2>4. TypeOK'
    BY <2>1, <2>2, <2>3 DEF TypeOK
  <2>5. ManifestIsLast' /\ DirectoryFirst'
    BY <2>1 DEF ManifestIsLast, DirectoryFirst
  <2>6. Exclusive'
    BY <2>1, <2>2, <2>3 DEF Exclusive, Fills
  <2>7. Local(p)'
    BY <2>1, <2>2, <1>t DEF Local, Owned, Known, Looking, Fresh, Fills
  <2>8. ASSUME NEW q \in Processes, q # p PROVE Local(q)'
    BY <2>1, <2>3, <2>8, <1>t DEF Local, Owned, Known, Looking, Fresh, Fills
  <2> QED
    BY <2>4, <2>5, <2>6, <2>7, <2>8
<1>14. ASSUME NEW p \in Processes, WriteManifest(p) PROVE IInv'
  <2> DEFINE c == process[p].content
  <2>1. /\ process[p].at = "manifest" /\ c \in Contents /\ process[p] \in ProcessStates
        /\ process' = [process EXCEPT ![p] = [process[p] EXCEPT !.at = "published"]]
        /\ created' = [created EXCEPT ![c] = process[p].stamp]
        /\ UNCHANGED <<dir, table, clock, crashes>>
    BY <1>14, <1>t DEF WriteManifest, Goto, TypeOK
  <2>2. /\ process'[p] \in ProcessStates /\ process'[p].at = "published"
        /\ process'[p].content = c /\ process'[p].stamp = process[p].stamp
    BY <2>1, <1>t DEF ProcessStates, Ended
  <2>3. \A q \in Processes : q # p => process'[q] = process[q]
    BY <2>1, <1>t
  <2>4. /\ c \in dir /\ c \in table /\ created[c] = 0
        /\ process[p].stamp # 0 /\ process[p].stamp \in 0..MaxClock
    BY <2>1, <1>t DEF Local, Owned, Fills, ProcessStates
  <2>5. /\ created' \in [Contents -> 0..MaxClock] /\ created'[c] = process[p].stamp
        /\ \A d \in Contents : d # c => created'[d] = created[d]
    BY <2>1, <2>4, <1>t
  <2>6. TypeOK'
    BY <2>1, <2>2, <2>3, <2>5 DEF TypeOK
  <2>7. ManifestIsLast' /\ DirectoryFirst'
    BY <2>1, <2>4, <2>5 DEF ManifestIsLast, DirectoryFirst
  <2>8. Exclusive'
    BY <2>2, <2>3 DEF Exclusive, Fills
  <2>9. Local(p)'
    BY <2>2, <2>4, <2>5 DEF Local, Owned, Known, Looking, Fresh, Fills
  <2>10. ASSUME NEW q \in Processes, q # p PROVE Local(q)'
    <3>1. /\ process'[q] = process[q] /\ process[q] \in ProcessStates /\ Local(q)
          /\ Fills(q) => process[q].content # c
      BY <2>1, <2>3, <2>10, <1>t DEF Exclusive, Fills
    <3>2. process[q].content \in Contents \cup {NoContent}
      BY <3>1 DEF ProcessStates
    <3>3. Owned(q)' /\ Fresh(q)'
      BY <2>1, <2>5, <3>1, <3>2 DEF Local, Owned, Fresh, Fills, TypeOK
    <3>4. Known(q)'
      BY <2>4, <2>5, <3>1 DEF Local, Known, TypeOK
    <3>5. Looking(q)'
      <4>1. CASE process[q].at = "scan"
        <5>1. /\ process[q].content = NoContent => process[q].stamp = 0
              /\ process[q].content # NoContent =>
                   process[q].stamp = created'[process[q].content] /\ process[q].stamp # 0
          BY <2>4, <2>5, <3>1, <3>2, <4>1 DEF Local, Looking
        <5>2. ASSUME NEW d \in Contents
              PROVE  \/ process[q].seen[d] <= process[q].stamp
                     \/ d \in process[q].left /\ created'[d] = process[q].seen[d]
          <6>1. \/ process[q].seen[d] <= process[q].stamp
                \/ d \in process[q].left /\ created[d] = process[q].seen[d]
            BY <3>1, <4>1 DEF Local, Looking
          <6>2. process[q].stamp \in 0..MaxClock
            BY <3>1 DEF ProcessStates
          <6> QED
            BY <2>4, <2>5, <6>1, <6>2
        <5> QED
          BY <3>1, <5>1, <5>2 DEF Looking
      <4>2. CASE process[q].at # "scan"
        BY <3>1, <4>2 DEF Looking
      <4> QED
        BY <4>1, <4>2
    <3> QED
      BY <3>3, <3>4, <3>5 DEF Local
  <2> QED
    BY <2>6, <2>7, <2>8, <2>9, <2>10
<1>15. CASE Tick
  BY <1>15 DEF Tick, TypeOK, ManifestIsLast, DirectoryFirst, Exclusive, Local, Owned, Known,
       Looking, Fresh, Fills, files
<1>16. CASE UNCHANGED vars
  BY <1>16 DEF vars, TypeOK, ManifestIsLast, DirectoryFirst, Exclusive, Local, Owned, Known,
       Looking, Fresh, Fills
<1> QED
  BY <1>1, <1>2, <1>3, <1>4, <1>5, <1>6, <1>7, <1>8, <1>9, <1>10, <1>11, <1>12, <1>13, <1>14,
     <1>15, <1>16 DEF Next

LEMMA Invariance == Spec => []IInv
BY Initially, Steps, PTL DEF Spec

-----------------------------------------------------------------------------

\* Every variable of the snapshot store stays in its domain (snapshot.py).
THEOREM SnapshotTypeCorrect == Spec => []TypeOK
BY Invariance, PTL DEF IInv

\* Whoever finds a manifest finds the table it promises, wherever publishers
\* were killed (publish_snapshot writes the manifest last).
THEOREM ManifestPromisesTable == Spec => []ManifestIsLast
BY Invariance, PTL DEF IInv

\* All who publish or resolve the same rows hold one and the same reference
\* (publish_snapshot, _resolve_existing_snapshot).
THEOREM OneReference == Spec => []ReferencesAgree
<1>1. IInv => ReferencesAgree
  BY DEF IInv, Local, Known, ReferencesAgree
<1> QED
  BY <1>1, Invariance, PTL

\* "latest" is no older than any snapshot that was complete when it was asked
\* for (resolve_snapshot).
THEOREM LatestIsNotStale == Spec => []LatestIsFresh
<1>1. IInv => LatestIsFresh
  BY DEF IInv, Local, Fresh, LatestIsFresh
<1> QED
  BY <1>1, Invariance, PTL

LEMMA ManifestStays ==
  ASSUME IInv, [Next]_vars, NEW c \in Contents, created[c] # 0
  PROVE  created'[c] = created[c]
<1>1. ASSUME NEW p \in Processes, WriteManifest(p) PROVE created'[c] = created[c]
  <2>1. c # process[p].content
    BY SMTT(30), <1>1 DEF IInv, Local, Owned, Fills, WriteManifest
  <2> QED
    BY <1>1, <2>1 DEF IInv, TypeOK, WriteManifest
<1>2. (\E p \in Processes : WriteManifest(p)) \/ UNCHANGED created
  BY DEF Next, vars, files, Publish, Resolve, Scan, MakeDirectory, WriteTable, Stamp,
       LoadExisting, Compare, OpenManifest, ListDirectories, Choose, ReadTable, Crash, Tick
<1> QED
  BY <1>1, <1>2

\* No step of any process changes a manifest that is there: mkdir lets one
\* process in, and it writes its manifest once (publish_snapshot).
THEOREM PublishedForEver == Spec => Immutable
<1>1. IInv /\ [Next]_vars =>
        [\A c \in Contents : created[c] # 0 => created'[c] = created[c]]_vars
  BY ManifestStays
<1> QED
  BY <1>1, Invariance, PTL DEF Spec, Immutable

-----------------------------------------------------------------------------

\* The directories without a manifest that nobody is filling.
Stranded ==
  {c \in dir : created[c] = 0 /\ \A p \in Processes : ~(process[p].content = c /\ Fills(p))}

\* The process of a directory fills it until its manifest is there, or dies.
LEMMA FilledOn ==
  ASSUME IInv, [Next]_vars, NEW p \in Processes, Fills(p), ~Crash(p),
         created'[process[p].content] = 0
  PROVE  Fills(p)' /\ process'[p].content = process[p].content
<1> USE DEF IInv, TypeOK, Fills
<1>1. ASSUME NEW q \in Processes, q # p,
             \E s : process' = [process EXCEPT ![q] = s]
      PROVE  Fills(p)' /\ process'[p].content = process[p].content
  BY <1>1
<1>2. ASSUME NEW q \in Processes, NEW c \in Contents, Publish(q, c) \/ Resolve(q, c) \/ Scan(q, c)
      PROVE  q # p /\ \E s : process' = [process EXCEPT ![q] = s]
  BY <1>2 DEF Publish, Resolve, Scan, Ended
<1>3. ASSUME NEW q \in Processes, WriteTable(q) \/ Stamp(q)
      PROVE  Fills(p)' /\ process'[p].content = process[p].content
  <2>1. CASE q = p
    <3>1. process[p] \in ProcessStates
      OBVIOUS
    <3>2. CASE WriteTable(q)
      BY <2>1, <3>1, <3>2 DEF WriteTable, Goto, ProcessStates
    <3>3. CASE Stamp(q)
      BY <2>1, <3>1, <3>3 DEF Stamp, ProcessStates
    <3> QED
      BY <1>3, <3>2, <3>3
  <2>2. CASE q # p
    BY <1>3, <2>2 DEF WriteTable, Stamp, Goto
  <2> QED
    BY <2>1, <2>2
<1>4. ASSUME NEW q \in Processes, WriteManifest(q)
      PROVE  Fills(p)' /\ process'[p].content = process[p].content
  <2>1. q # p
    BY <1>4 DEF WriteManifest, Local, Owned
  <2> QED
    BY <1>4, <2>1 DEF WriteManifest, Goto
<1>5. ASSUME NEW q \in Processes,
             \/ MakeDirectory(q) \/ LoadExisting(q) \/ Compare(q) \/ OpenManifest(q)
             \/ ListDirectories(q) \/ Choose(q) \/ ReadTable(q)
      PROVE  q # p /\ \E s : process' = [process EXCEPT ![q] = s]
  BY <1>5 DEF MakeDirectory, LoadExisting, Compare, OpenManifest, ListDirectories, Choose,
              ReadTable, Goto, Ended
<1>6. ASSUME NEW q \in Processes, Crash(q)
      PROVE  q # p /\ \E s : process' = [process EXCEPT ![q] = s]
  BY <1>6 DEF Crash
<1>7. CASE Tick \/ UNCHANGED vars
  BY <1>7 DEF Tick, vars
<1> QED
  BY <1>1, <1>2, <1>3, <1>4, <1>5, <1>6, <1>7 DEF Next

\* Only mkdir makes a directory, and who makes it goes on to fill it.
LEMMA MadeFilled ==
  ASSUME IInv, [Next]_vars, NEW c \in dir', c \notin dir
  PROVE  \E p \in Processes : process'[p].content = c /\ Fills(p)'
<1>1. PICK p \in Processes : MakeDirectory(p)
  BY ZenonT(60) DEF Next, vars, files, Publish, Resolve, Scan, WriteTable, Stamp, WriteManifest,
       LoadExisting, Compare, OpenManifest, ListDirectories, Choose, ReadTable, Crash, Tick
<1>2. process[p].content = c
  BY <1>1 DEF MakeDirectory
<1> QED
  BY <1>1, <1>2 DEF MakeDirectory, Goto, Fills, IInv, TypeOK

\* A directory without a manifest that nobody is filling, whose rows can then
\* never be published, cost a crash (publish_snapshot has no cleanup).
THEOREM CrashesStrand == Spec => []OnlyCrashesStrand
<1>0. OnlyCrashesStrand <=> Cardinality(Stranded) <= crashes
  BY DEF OnlyCrashesStrand, Stranded, Fills
<1>1. Init => Cardinality(Stranded) <= crashes
  <2> SUFFICES ASSUME Init PROVE Cardinality(Stranded) <= crashes
    OBVIOUS
  <2>1. Stranded = {}
    BY DEF Init, Stranded
  <2> QED
    BY <2>1, FS_EmptySet DEF Init
<1>2. ASSUME IInv, [Next]_vars, Cardinality(Stranded) <= crashes
      PROVE  Cardinality(Stranded') <= crashes'
  <2>0. /\ IsFiniteSet(Stranded) /\ Cardinality(Stranded) \in Nat
        /\ crashes \in Nat /\ crashes' \in {crashes, crashes + 1}
    <3>1. Stranded \subseteq Contents
      BY <1>2 DEF Stranded, IInv, TypeOK
    <3>2. crashes' \in {crashes, crashes + 1}
      BY <1>2 DEF Next, vars, Publish, Resolve, Scan, MakeDirectory, WriteTable, Stamp, WriteManifest,
         LoadExisting, Compare, OpenManifest, ListDirectories, Choose, ReadTable, Crash, Tick
    <3>3. crashes \in Nat
      BY <1>2, SnapshotStoreAssumption DEF IInv, TypeOK
    <3> QED
      BY <3>1, <3>2, <3>3, SnapshotStoreAssumption, FS_Subset, FS_CardinalityType
  <2>1. \A c \in Stranded' : c \in Stranded \/ \E p \in Processes : process[p].content = c /\ Crash(p)
    <3> SUFFICES ASSUME NEW c \in Stranded',
                        \A p \in Processes : process[p].content = c => ~Crash(p)
                 PROVE  c \in Stranded
      OBVIOUS
    <3>1. c \in dir
      BY <1>2, MadeFilled DEF Stranded
    <3>2. created[c] = 0
      BY <1>2, <3>1, ManifestStays DEF Stranded, IInv, TypeOK
    <3>3. ASSUME NEW p \in Processes, process[p].content = c, Fills(p) PROVE FALSE
      BY <1>2, <3>3, FilledOn DEF Stranded
    <3> QED
      BY <3>1, <3>2, <3>3 DEF Stranded
  <2>2. CASE \A p \in Processes : ~Crash(p)
    <3>1. Stranded' \subseteq Stranded
      BY <2>1, <2>2
    <3>2. Cardinality(Stranded') <= Cardinality(Stranded) /\ Cardinality(Stranded') \in Nat
      BY <2>0, <3>1, FS_Subset, FS_CardinalityType
    <3> QED
      BY <1>2, <2>0, <3>2
  <2>3. ASSUME NEW p \in Processes, Crash(p) PROVE Cardinality(Stranded') <= crashes'
    <3> DEFINE c == process[p].content
    <3>1. \A q \in Processes : Crash(q) => q = p
      BY <1>2, <2>3 DEF Crash, IInv, TypeOK, Idle, Ended
    <3>2. Stranded' \subseteq Stranded \cup {c}
      BY <2>1, <3>1
    <3> HIDE DEF c
    <3>3. /\ IsFiniteSet(Stranded \cup {c})
          /\ Cardinality(Stranded \cup {c}) =
               IF c \in Stranded THEN Cardinality(Stranded) ELSE Cardinality(Stranded) + 1
      BY <2>0, FS_AddElement
    <3>4. Cardinality(Stranded') <= Cardinality(Stranded \cup {c}) /\ Cardinality(Stranded') \in Nat
      BY <3>2, <3>3, FS_Subset, FS_CardinalityType
    <3>5. crashes' = crashes + 1
      BY <2>3 DEF Crash
    <3> QED
      BY <1>2, <2>0, <3>3, <3>4, <3>5
  <2> QED
    BY <2>2, <2>3
<1>3. IInv /\ OnlyCrashesStrand /\ [Next]_vars => OnlyCrashesStrand'
  BY <1>0, <1>2 DEF OnlyCrashesStrand, Stranded, Fills
<1>4. Init => OnlyCrashesStrand
  BY <1>0, <1>1
<1> QED
  BY <1>3, <1>4, Invariance, PTL DEF Spec
=============================================================================
