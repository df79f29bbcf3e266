----------------------- MODULE KnowledgeSourcesProofs -----------------------
(***************************************************************************)
(* Proofs about KnowledgeSources, for any number of processes, folders and *)
(* files and for both kinds of platform.  A call carries the list it is    *)
(* going to save: the checkpoint stays whole because every list under way  *)
(* is whole (CallsWhole), and answered changes are kept because a list     *)
(* under way continues the checkpoint it was made from, which is still the *)
(* visible one when its revision is (CallsOrdered).                        *)
(***************************************************************************)
EXTENDS KnowledgeSources, TLAPS

Source == [root : Root, identity : Nat, enabled : BOOLEAN, entries : [Path -> File \cup {None}]]

State == [revision : Nat, sources : Seq(Source)]

Places == {"comparing", "opening", "extracting", "reading", "unchanged", "renamed"} \cup SaveWindow

CallState ==
    [at : Places, base : State, source : Nat, paths : SUBSET Path, read : File \cup {None},
     next : Seq(Source)]

Types ==
    /\ folder \in [Root -> File]
    /\ disk \in [visible : State, synced : BOOLEAN, durable : State]
    /\ calls \in [Process -> CallState \cup {None}]
    /\ kept \in State
    /\ raced \in BOOLEAN

\* The list of a call under way is whole and names the call's source, which is not revoked
\* while its files are read; and those files were opened.
CallWhole(c) ==
    /\ \A i \in DOMAIN c.next : WholeSource(c.next[i])
    /\ c.source \in DOMAIN c.next
    /\ c.at \in {"opening", "reading"} => c.next[c.source].enabled
    /\ c.at = "reading" => c.read \in File

CallsWhole == \A p \in Process : calls[p] # None => CallWhole(calls[p])

WholeInv == Types /\ CheckpointWhole /\ CallsWhole

-----------------------------------------------------------------------------
(* Sequences of sources. *)

LEMMA Appended ==
  ASSUME NEW S, NEW s \in Seq(S), NEW x \in S
  PROVE  /\ Append(s, x) \in Seq(S)
         /\ DOMAIN Append(s, x) = 1 .. Len(s) + 1
         /\ DOMAIN s = 1 .. Len(s) /\ Len(s) \in Nat
         /\ \A i \in DOMAIN s : Append(s, x)[i] = s[i]
         /\ Append(s, x)[Len(s) + 1] = x
         /\ Len(Append(s, x)) = Len(s) + 1
OBVIOUS

LEMMA Replaced ==
  ASSUME NEW S, NEW s \in Seq(S), NEW i \in DOMAIN s, NEW x \in S
  PROVE  /\ [s EXCEPT ![i] = x] \in Seq(S)
         /\ DOMAIN [s EXCEPT ![i] = x] = DOMAIN s
         /\ Len([s EXCEPT ![i] = x]) = Len(s)
         /\ \A j \in DOMAIN s : [s EXCEPT ![i] = x][j] = IF j = i THEN x ELSE s[j]
OBVIOUS

LEMMA Element ==
  ASSUME NEW S, NEW s \in Seq(S), NEW i \in DOMAIN s
  PROVE  s[i] \in S /\ i \in Nat
OBVIOUS

-----------------------------------------------------------------------------
(* A call that begins. *)

\* The source that add() selects.
LEMMA AddedSource ==
  ASSUME Types, NEW r \in Root
  PROVE  LET source == [root |-> r, identity |-> folder[r].identity, enabled |-> TRUE,
                        entries |-> NoEntries]
         IN  source \in Source /\ WholeSource(source)
BY DEF Types, File, Source, WholeSource, NoEntries

\* A source that revoke() empties.
LEMMA RevokedSource ==
  ASSUME NEW source \in Source
  PROVE  LET revoked == [source EXCEPT !.enabled = FALSE, !.entries = NoEntries]
         IN  revoked \in Source /\ WholeSource(revoked)
BY DEF Source, WholeSource, NoEntries

\* Whatever a call intends, it may begin with any whole list that contains its source.
LEMMA BegunWhole ==
  ASSUME WholeInv, NEW p \in Process, NEW place \in Places \ {"reading"}, NEW source \in Nat,
         NEW paths \in SUBSET Path, NEW next \in Seq(Source),
         source \in DOMAIN next, \A i \in DOMAIN next : WholeSource(next[i]),
         place = "opening" => next[source].enabled,
         Begins(p, place, source, paths, next)
  PROVE  WholeInv'
<1> DEFINE call == [at |-> place, base |-> disk.visible, source |-> source, paths |-> paths,
                    read |-> None, next |-> next]
<1>1. call \in CallState /\ CallWhole(call)
  BY DEF CallState, CallWhole, WholeInv, Types
<1>2. calls' = [calls EXCEPT ![p] = call] /\ UNCHANGED <<folder, disk, kept, raced>>
  BY DEF Begins
<1> HIDE DEF call
<1>3. Types'
  BY <1>1, <1>2 DEF WholeInv, Types
<1>4. CheckpointWhole'
  BY <1>2 DEF WholeInv, CheckpointWhole
<1>5. CallsWhole'
  BY <1>1, <1>2 DEF WholeInv, Types, CallsWhole
<1>6. QED
  BY <1>3, <1>4, <1>5 DEF WholeInv

LEMMA StoredWhole ==
  ASSUME WholeInv
  PROVE  Stored \in Seq(Source) /\ \A i \in DOMAIN Stored : WholeSource(Stored[i])
BY DEF WholeInv, Types, State, CheckpointWhole, WholeState, Stored

LEMMA AddWhole ==
  ASSUME WholeInv, NEW p \in Process, NEW r \in Root, Add(p, r)
  PROVE  WholeInv'
<1> DEFINE source == [root |-> r, identity |-> folder[r].identity, enabled |-> TRUE,
                      entries |-> NoEntries]
           next == Append(Stored, source)
<1>1. source \in Source /\ WholeSource(source)
  BY AddedSource DEF WholeInv
<1>2. Begins(p, "comparing", Len(Stored) + 1, {}, next)
  BY DEF Add
<1> HIDE DEF source
<1>3. /\ next \in Seq(Source) /\ Len(Stored) + 1 \in Nat /\ Len(Stored) + 1 \in DOMAIN next
      /\ \A i \in DOMAIN next : WholeSource(next[i])
  <2>1. Stored \in Seq(Source)
    BY StoredWhole
  <2>2. /\ next \in Seq(Source) /\ DOMAIN next = 1 .. Len(Stored) + 1
        /\ DOMAIN Stored = 1 .. Len(Stored) /\ Len(Stored) \in Nat
        /\ \A i \in DOMAIN Stored : next[i] = Stored[i]
        /\ next[Len(Stored) + 1] = source
    BY <1>1, <2>1, Appended
  <2> HIDE DEF next
  <2>3. ASSUME NEW i \in DOMAIN next PROVE WholeSource(next[i])
    <3>1. i \in DOMAIN Stored \/ i = Len(Stored) + 1
      BY <2>2
    <3>2. QED
      BY <3>1, <2>2, <1>1, StoredWhole
  <2>4. QED
    BY <2>2, <2>3
<1> HIDE DEF next
<1>4. "comparing" \in Places \ {"reading"} /\ {} \in SUBSET Path
  BY DEF Places
<1>5. QED
  BY <1>2, <1>3, <1>4, BegunWhole

LEMMA RevokeWhole ==
  ASSUME WholeInv, NEW p \in Process, NEW i \in Nat, Revoke(p, i)
  PROVE  WholeInv'
<1> DEFINE revoked == [Stored[i] EXCEPT !.enabled = FALSE, !.entries = NoEntries]
           next == [Stored EXCEPT ![i] = revoked]
<1>1. Stored \in Seq(Source) /\ i \in DOMAIN Stored
  BY StoredWhole DEF Revoke, Selected
<1>2. revoked \in Source /\ WholeSource(revoked)
  BY <1>1, Element, RevokedSource
<1>3. Begins(p, "comparing", i, {}, next)
  BY DEF Revoke
<1> HIDE DEF revoked
<1>4. /\ next \in Seq(Source) /\ i \in DOMAIN next
      /\ \A j \in DOMAIN next : WholeSource(next[j])
  BY <1>1, <1>2, Replaced, StoredWhole
<1> HIDE DEF next
<1>5. "comparing" \in Places \ {"reading"} /\ {} \in SUBSET Path
  BY DEF Places
<1>6. QED
  BY <1>3, <1>4, <1>5, BegunWhole

LEMMA ScanWhole ==
  ASSUME WholeInv, NEW p \in Process, NEW i \in Nat, NEW paths \in SUBSET Path, Scan(p, i, paths)
  PROVE  WholeInv'
<1>1. Begins(p, "opening", i, paths, Stored) /\ i \in DOMAIN Stored /\ Stored[i].enabled
  BY DEF Scan, Selected
<1>2. "opening" \in Places \ {"reading"}
  BY DEF Places
<1>3. QED
  BY <1>1, <1>2, StoredWhole, BegunWhole

LEMMA ExtractWhole ==
  ASSUME WholeInv, NEW p \in Process, NEW i \in Nat, NEW path \in Path, Extract(p, i, path)
  PROVE  WholeInv'
<1>1. Begins(p, "extracting", i, {path}, Stored) /\ i \in DOMAIN Stored
  BY DEF Extract, Selected
<1>2. "extracting" \in Places \ {"reading"} /\ {path} \in SUBSET Path
  BY DEF Places
<1>3. QED
  BY <1>1, <1>2, StoredWhole, BegunWhole

-----------------------------------------------------------------------------
(* A call that goes on or ends. *)

\* What a call does may change its own record only, as long as that stays sound.
LEMMA GoesWhole ==
  ASSUME WholeInv, NEW p \in Process, NEW call \in CallState \cup {None},
         call # None => CallWhole(call),
         calls' = [calls EXCEPT ![p] = call], UNCHANGED <<folder, disk>>,
         kept' \in State, raced' \in BOOLEAN
  PROVE  WholeInv'
<1>1. Types'
  BY DEF WholeInv, Types
<1>2. CheckpointWhole'
  BY DEF WholeInv, CheckpointWhole
<1>3. CallsWhole'
  BY DEF WholeInv, Types, CallsWhole
<1>4. QED
  BY <1>1, <1>2, <1>3 DEF WholeInv

LEMMA EndsWhole ==
  ASSUME WholeInv, NEW p \in Process, Ends(p), UNCHANGED <<folder, disk>>,
         kept' \in State, raced' \in BOOLEAN
  PROVE  WholeInv'
BY GoesWhole DEF Ends

\* A call under way is one.
LEMMA UnderWay ==
  ASSUME WholeInv, NEW p \in Process, NEW place, At(p, place)
  PROVE  calls[p] \in CallState /\ CallWhole(calls[p])
BY DEF WholeInv, Types, CallsWhole, At

LEMMA MovesWhole ==
  ASSUME WholeInv, NEW p \in Process, NEW from, At(p, from), NEW to \in Places \ {"opening", "reading"},
         Moves(p, to), UNCHANGED <<folder, disk>>, kept' \in State, raced' \in BOOLEAN
  PROVE  WholeInv'
<1> DEFINE call == [calls[p] EXCEPT !.at = to]
<1>1. calls[p] \in CallState /\ CallWhole(calls[p])
  BY UnderWay
<1>2. call \in CallState /\ CallWhole(call)
  BY <1>1 DEF CallState, CallWhole
<1>3. calls' = [calls EXCEPT ![p] = call]
  BY DEF Moves
<1> HIDE DEF call
<1>4. QED
  BY <1>2, <1>3, GoesWhole

\* A call whose files have been opened.
Opened(p) ==
    [calls[p] EXCEPT !.at = "reading", !.read = folder[calls[p].next[calls[p].source].root]]

LEMMA OpenedCall ==
  ASSUME WholeInv, NEW p \in Process, OpenFiles(p)
  PROVE  Opened(p) \in CallState /\ CallWhole(Opened(p)) /\ calls' = [calls EXCEPT ![p] = Opened(p)]
<1> DEFINE root == calls[p].next[calls[p].source].root
<1>1. calls[p] \in CallState /\ CallWhole(calls[p])
  BY UnderWay DEF OpenFiles
<1>2. folder[root] \in File
  <2>1. calls[p].next \in Seq(Source) /\ calls[p].source \in DOMAIN calls[p].next
    BY <1>1 DEF CallState, CallWhole
  <2>2. calls[p].next[calls[p].source] \in Source
    BY <2>1, Element
  <2>3. QED
    BY <2>2 DEF Source, WholeInv, Types
<1>3. calls' = [calls EXCEPT ![p] = Opened(p)]
  BY DEF OpenFiles, Opened
<1>4. calls[p].next[calls[p].source].enabled
  BY <1>1 DEF OpenFiles, At, CallWhole
<1>5. Opened(p) = [calls[p] EXCEPT !.at = "reading", !.read = folder[root]]
  BY DEF Opened
<1> HIDE DEF root
<1>6. Opened(p) \in CallState /\ CallWhole(Opened(p))
  BY <1>1, <1>2, <1>4, <1>5 DEF CallState, CallWhole, Places
<1>7. QED
  BY <1>3, <1>6

LEMMA OpenFilesWhole ==
  ASSUME WholeInv, NEW p \in Process, OpenFiles(p)
  PROVE  WholeInv'
<1>1. kept' \in State /\ raced' \in BOOLEAN /\ UNCHANGED <<folder, disk>>
  BY DEF OpenFiles, WholeInv, Types
<1>2. QED
  BY <1>1, OpenedCall, GoesWhole

\* What was read undisturbed comes from the directory that was selected.
LEMMA ScannedWhole ==
  ASSUME WholeInv, NEW p \in Process, At(p, "reading"), Undisturbed(p)
  PROVE  LET scanned == [ScannedSource(p) EXCEPT !.entries = ScannedEntries(p)]
         IN  scanned \in Source /\ WholeSource(scanned)
<1>1. calls[p] \in CallState /\ CallWhole(calls[p])
  BY UnderWay
<1>2. ScannedSource(p) \in Source /\ WholeSource(ScannedSource(p))
  BY <1>1, Element DEF CallState, CallWhole, ScannedSource
<1>3. calls[p].read \in File /\ calls[p].read.identity = ScannedSource(p).identity
  BY <1>1 DEF CallWhole, Undisturbed, SameFolder, At
<1>4. ScannedEntries(p) \in [Path -> File \cup {None}]
  BY <1>1, <1>2, <1>3 DEF ScannedEntries, Source
<1>5. \A path \in Path :
         ScannedEntries(p)[path] # None => ScannedEntries(p)[path].identity = ScannedSource(p).identity
  BY <1>2, <1>3 DEF ScannedEntries, WholeSource
<1>6. ScannedSource(p).enabled
  BY <1>1 DEF CallWhole, ScannedSource, At
<1>7. QED
  BY <1>2, <1>4, <1>5, <1>6 DEF Source, WholeSource

LEMMA FilesReadWhole ==
  ASSUME WholeInv, NEW p \in Process, FilesRead(p)
  PROVE  WholeInv'
<1> DEFINE c == calls[p]
           scanned == [ScannedSource(p) EXCEPT !.entries = ScannedEntries(p)]
           next == [c.next EXCEPT ![c.source] = scanned]
           place == IF ScannedEntries(p) = ScannedSource(p).entries THEN "unchanged" ELSE "comparing"
           call == [c EXCEPT !.at = place, !.next = next]
<1>1. c \in CallState /\ CallWhole(c)
  BY UnderWay DEF FilesRead
<1>2. scanned \in Source /\ WholeSource(scanned)
  BY ScannedWhole DEF FilesRead
<1>3. calls' = [calls EXCEPT ![p] = call]
  BY DEF FilesRead, ScannedSource
<1>4. place \in {"unchanged", "comparing"}
  OBVIOUS
<1> HIDE DEF scanned, place
<1>5. /\ next \in Seq(Source) /\ DOMAIN next = DOMAIN c.next
      /\ \A i \in DOMAIN next : WholeSource(next[i])
  BY <1>1, <1>2, Replaced DEF CallState, CallWhole
<1> HIDE DEF next
<1>6. call \in CallState /\ CallWhole(call)
  BY <1>1, <1>4, <1>5 DEF CallState, CallWhole, Places
<1> HIDE DEF call
<1>7. kept' \in State /\ raced' \in BOOLEAN /\ UNCHANGED <<folder, disk>>
  BY DEF FilesRead, WholeInv, Types
<1>8. QED
  BY <1>3, <1>6, <1>7, GoesWhole

-----------------------------------------------------------------------------
(* The rename, the synchronisation of the directory, and the surroundings. *)

\* What a call saves is a whole checkpoint.
LEMMA SavedWhole ==
  ASSUME WholeInv, NEW p \in Process, NEW place, At(p, place)
  PROVE  Saved(p) \in State /\ WholeState(Saved(p))
<1>1. calls[p] \in CallState /\ CallWhole(calls[p])
  BY UnderWay
<1>2. Saved(p) \in State /\ Saved(p).revision >= 0
  BY <1>1 DEF CallState, Saved, State
<1>3. Saved(p) # Torn
  BY <1>2 DEF Torn
<1>4. \A i \in DOMAIN Saved(p).sources : WholeSource(Saved(p).sources[i])
  BY <1>1 DEF CallWhole, Saved
<1>5. QED
  BY <1>2, <1>3, <1>4 DEF WholeState

\* The disk may change to any whole one while calls go on soundly.
LEMMA DiskWhole ==
  ASSUME WholeInv, disk' \in [visible : State, synced : BOOLEAN, durable : State],
         CheckpointWhole', CallsWhole', calls' \in [Process -> CallState \cup {None}],
         folder' = folder, kept' \in State, raced' = raced
  PROVE  WholeInv'
BY DEF WholeInv, Types

LEMMA CallMoves ==
  ASSUME WholeInv, NEW p \in Process, NEW from, At(p, from), NEW to \in Places \ {"opening", "reading"},
         Moves(p, to)
  PROVE  calls' \in [Process -> CallState \cup {None}] /\ CallsWhole'
<1> DEFINE call == [calls[p] EXCEPT !.at = to]
<1>1. calls[p] \in CallState /\ CallWhole(calls[p])
  BY UnderWay
<1>2. call \in CallState /\ CallWhole(call)
  BY <1>1 DEF CallState, CallWhole
<1>3. calls' = [calls EXCEPT ![p] = call]
  BY DEF Moves
<1> HIDE DEF call
<1>4. QED
  BY <1>2, <1>3 DEF WholeInv, Types, CallsWhole

LEMMA CallEnds ==
  ASSUME WholeInv, NEW p \in Process, Ends(p)
  PROVE  calls' \in [Process -> CallState \cup {None}] /\ CallsWhole'
BY DEF WholeInv, Types, CallsWhole, Ends

LEMMA RenameWhole ==
  ASSUME WholeInv, NEW p \in Process, Rename(p)
  PROVE  WholeInv'
<1>1. Saved(p) \in State /\ WholeState(Saved(p))
  BY SavedWhole DEF Rename
<1>2. disk' = [disk EXCEPT !.visible = Saved(p), !.synced = TRUE]
  BY DEF Rename
<1>3. disk' \in [visible : State, synced : BOOLEAN, durable : State] /\ CheckpointWhole'
  <2>1. /\ disk' \in [visible : State, synced : BOOLEAN, durable : State]
        /\ disk'.visible = Saved(p) /\ disk'.durable = disk.durable /\ disk'.synced
    BY <1>1, <1>2 DEF WholeInv, Types
  <2>2. WholeState(disk'.visible) /\ WholeState(disk'.durable)
    BY <1>1, <2>1 DEF WholeInv, CheckpointWhole
  <2>3. QED
    BY <2>1, <2>2 DEF CheckpointWhole, WholeState, WholeSource
<1>4. calls' \in [Process -> CallState \cup {None}] /\ CallsWhole'
  BY CallMoves DEF Rename, Places
<1>5. QED
  BY <1>3, <1>4, DiskWhole DEF Rename, WholeInv, Types

LEMMA SyncDirectoryWhole ==
  ASSUME WholeInv, NEW p \in Process, SyncDirectory(p)
  PROVE  WholeInv'
<1>1. Saved(p) \in State
  BY SavedWhole DEF SyncDirectory
<1>2. kept' \in State
  BY <1>1 DEF SyncDirectory, WholeInv, Types
<1>3. disk' \in [visible : State, synced : BOOLEAN, durable : State] /\ CheckpointWhole'
  BY DEF SyncDirectory, WholeInv, Types, CheckpointWhole, WholeState, WholeSource
<1>4. calls' \in [Process -> CallState \cup {None}] /\ CallsWhole'
  BY CallEnds DEF SyncDirectory
<1>5. QED
  BY <1>2, <1>3, <1>4, DiskWhole DEF SyncDirectory

LEMMA PowerLossWhole ==
  ASSUME WholeInv, PowerLoss
  PROVE  WholeInv'
<1>1. PICK left \in {disk.durable, disk.visible} :
          disk' = [visible |-> left, synced |-> TRUE, durable |-> left]
  BY DEF PowerLoss, WholeInv, CheckpointWhole
<1>2. left \in State /\ WholeState(left)
  BY DEF WholeInv, Types, CheckpointWhole
<1>3. disk' \in [visible : State, synced : BOOLEAN, durable : State] /\ CheckpointWhole'
  BY <1>1, <1>2 DEF CheckpointWhole, WholeState, WholeSource
<1>4. calls' \in [Process -> CallState \cup {None}] /\ CallsWhole'
  BY DEF PowerLoss, CallsWhole
<1>5. QED
  BY <1>3, <1>4, DiskWhole DEF PowerLoss, WholeInv, Types

LEMMA FoldersWhole ==
  ASSUME WholeInv, NEW r \in Root, FolderEdited(r) \/ FolderReplaced(r)
  PROVE  WholeInv'
<1>1. folder' \in [Root -> File]
  BY DEF FolderEdited, FolderReplaced, WholeInv, Types, File
<1>2. UNCHANGED <<disk, calls, kept, raced>>
  BY DEF FolderEdited, FolderReplaced
<1>3. Types' /\ CheckpointWhole' /\ CallsWhole'
  BY <1>1, <1>2 DEF WholeInv, Types, CheckpointWhole, CallsWhole
<1>4. QED
  BY <1>3 DEF WholeInv

LEMMA InitWhole ==
  ASSUME Init
  PROVE  WholeInv
<1>1. Empty \in State /\ WholeState(Empty)
  BY DEF Empty, State, WholeState, Torn
<1>2. QED
  BY <1>1 DEF Init, WholeInv, Types, File, CheckpointWhole, CallsWhole

LEMMA StepWhole ==
  ASSUME WholeInv, [Next]_vars
  PROVE  WholeInv'
<1>1. kept \in State /\ raced \in BOOLEAN
  BY DEF WholeInv, Types
<1>2. CASE \E p \in Process, r \in Root : Add(p, r)
  BY <1>2, AddWhole
<1>3. CASE \E p \in Process, i \in 1..MaxSources : Revoke(p, i)
  <2>1. PICK p \in Process, i \in 1..MaxSources : Revoke(p, i)
    BY <1>3
  <2>2. i \in Nat
    BY <2>1, StoredWhole, Element DEF Revoke, Selected
  <2>3. QED
    BY <2>1, <2>2, RevokeWhole
<1>4. CASE \E p \in Process, i \in 1..MaxSources, paths \in SUBSET Path : Scan(p, i, paths)
  <2>1. PICK p \in Process, i \in 1..MaxSources, paths \in SUBSET Path : Scan(p, i, paths)
    BY <1>4
  <2>2. i \in Nat
    BY <2>1, StoredWhole, Element DEF Scan, Selected
  <2>3. QED
    BY <2>1, <2>2, ScanWhole
<1>5. CASE \E p \in Process, i \in 1..MaxSources, path \in Path : Extract(p, i, path)
  <2>1. PICK p \in Process, i \in 1..MaxSources, path \in Path : Extract(p, i, path)
    BY <1>5
  <2>2. i \in Nat
    BY <2>1, StoredWhole, Element DEF Extract, Selected
  <2>3. QED
    BY <2>1, <2>2, ExtractWhole
<1>6. CASE \E p \in Process : OpenFiles(p)
  BY <1>6, OpenFilesWhole
<1>7. CASE \E p \in Process : FilesRead(p)
  BY <1>7, FilesReadWhole
<1>8. ASSUME NEW p \in Process,
             \/ FilesRefused(p) \/ Conflict(p) \/ SaveFails(p) \/ ScanUnchanged(p)
             \/ GiveExcerpt(p) \/ Crash(p)
      PROVE  WholeInv'
  BY <1>1, <1>8, EndsWhole
     DEF FilesRefused, Conflict, SaveFails, ScanUnchanged, GiveExcerpt, Crash
<1>9. ASSUME NEW p \in Process, Compare(p)
      PROVE  WholeInv'
  BY <1>1, <1>9, MovesWhole DEF Compare, Places, SaveWindow
<1>10. ASSUME NEW p \in Process, WriteTemporary(p) \/ SyncTemporary(p)
       PROVE  WholeInv'
  BY <1>1, <1>10, MovesWhole DEF WriteTemporary, SyncTemporary, Places, SaveWindow
<1>11. CASE \E p \in Process : Rename(p)
  BY <1>11, RenameWhole
<1>12. CASE \E p \in Process : SyncDirectory(p)
  BY <1>12, SyncDirectoryWhole
<1>13. CASE \E r \in Root : FolderEdited(r) \/ FolderReplaced(r)
  BY <1>13, FoldersWhole
<1>14. CASE PowerLoss
  BY <1>14, PowerLossWhole
<1>15. CASE UNCHANGED vars
  BY <1>15 DEF vars, WholeInv, Types, CheckpointWhole, CallsWhole
<1>16. QED
  BY <1>2, <1>3, <1>4, <1>5, <1>6, <1>7, <1>8, <1>9, <1>10, <1>11, <1>12, <1>13, <1>14, <1>15 DEF Next

\* Whatever fails between two file system calls of any number of processes, the checkpoint
\* that is seen, and the one a loss of power leaves, is whole: it can be read, holds nothing
\* of a revoked source and no excerpt of another directory than the one selected.
THEOREM CheckpointStaysWhole == Spec => []CheckpointWhole
<1>1. Init => WholeInv
  BY InitWhole
<1>2. WholeInv /\ [Next]_vars => WholeInv'
  BY StepWhole
<1>3. WholeInv => CheckpointWhole
  BY DEF WholeInv
<1>4. QED
  BY <1>1, <1>2, <1>3, PTL DEF Spec

-----------------------------------------------------------------------------
(* The order of the states of a checkpoint. *)

SavedBy(c) == [revision |-> c.base.revision + 1, sources |-> c.next]

\* What a call knows of the checkpoint while no two saves overlap: its list continues the state
\* that it loaded, which is still the visible one when the revision is; no other save comes
\* between its comparison and its rename; and what it renamed is only ever continued.
CallOrdered(c, seen) ==
    /\ c.base.revision <= seen.revision
    /\ c.base.revision = seen.revision => c.base = seen
    /\ c.at \in SaveWindow => c.base.revision = seen.revision
    /\ c.at = "renamed" => Continues(seen, SavedBy(c))
    /\ Continues(SavedBy(c), c.base)
    /\ c.at = "extracting" =>
           c.next = c.base.sources /\ c.source \in DOMAIN c.next /\ c.next[c.source].enabled

CallsOrdered == \A p \in Process : calls[p] # None => CallOrdered(calls[p], disk.visible)

Saving(p) == calls[p] # None /\ calls[p].at \in SaveWindow

OneSaving == \A p, q \in Process : Saving(p) /\ Saving(q) => p = q

KeptOrdered ==
    SyncsDirectory => Continues(disk.durable, kept) /\ Continues(disk.visible, disk.durable)

Ordered == CallsOrdered /\ OneSaving /\ KeptOrdered

OrderedInv == WholeInv /\ (~raced => Ordered)

LEMMA ContinuesItself ==
  ASSUME NEW a \in State
  PROVE  Continues(a, a)
BY DEF Continues, State

LEMMA ContinuesTransitive ==
  ASSUME NEW a \in State, NEW b \in State, NEW c \in State, Continues(a, b), Continues(b, c)
  PROVE  Continues(a, c)
<1>1. /\ Len(a.sources) \in Nat /\ Len(b.sources) \in Nat /\ Len(c.sources) \in Nat
      /\ DOMAIN a.sources = 1 .. Len(a.sources)
      /\ DOMAIN b.sources = 1 .. Len(b.sources)
      /\ DOMAIN c.sources = 1 .. Len(c.sources)
      /\ a.revision \in Nat /\ b.revision \in Nat /\ c.revision \in Nat
  BY DEF State
<1>2. a.revision >= c.revision /\ Len(a.sources) >= Len(c.sources)
  BY <1>1 DEF Continues
<1>3. DOMAIN c.sources \subseteq DOMAIN b.sources
  BY <1>1 DEF Continues
<1>4. QED
  BY <1>2, <1>3 DEF Continues

\* The state that a call would save is a state.
LEMMA SavedByState ==
  ASSUME NEW c \in CallState
  PROVE  SavedBy(c) \in State
BY DEF SavedBy, CallState, State

\* What a call does may change its own record only, as long as it enters the window between
\* comparison and rename when no other call is there.
LEMMA GoesOrdered ==
  ASSUME WholeInv, Ordered, NEW p \in Process, NEW call \in CallState \cup {None},
         call # None => CallOrdered(call, disk.visible),
         call # None /\ call.at \in SaveWindow => \A q \in Process \ {p} : ~Saving(q),
         calls' = [calls EXCEPT ![p] = call], UNCHANGED <<disk, kept>>
  PROVE  Ordered'
<1>1. CallsOrdered'
  BY DEF Ordered, CallsOrdered, WholeInv, Types
<1>2. OneSaving'
  BY DEF Ordered, OneSaving, Saving, WholeInv, Types
<1>3. KeptOrdered'
  BY DEF Ordered, KeptOrdered
<1>4. QED
  BY <1>1, <1>2, <1>3 DEF Ordered

LEMMA EndsOrdered ==
  ASSUME WholeInv, Ordered, NEW p \in Process, Ends(p), UNCHANGED <<disk, kept>>
  PROVE  Ordered'
BY GoesOrdered DEF Ends

LEMMA BegunOrdered ==
  ASSUME WholeInv, Ordered, NEW p \in Process, NEW place \in {"comparing", "opening", "extracting"},
         NEW source \in Nat, NEW paths \in SUBSET Path, NEW next \in Seq(Source),
         Continues([revision |-> disk.visible.revision + 1, sources |-> next], disk.visible),
         place = "extracting" => next = Stored /\ source \in DOMAIN next /\ next[source].enabled,
         Begins(p, place, source, paths, next)
  PROVE  Ordered'
<1> DEFINE call == [at |-> place, base |-> disk.visible, source |-> source, paths |-> paths,
                    read |-> None, next |-> next]
<1>1. call \in CallState
  BY DEF CallState, WholeInv, Types, Places
<1>2. disk.visible.revision \in Nat
  BY DEF WholeInv, Types, State
<1>3. CallOrdered(call, disk.visible)
  BY <1>2 DEF CallOrdered, SavedBy, SaveWindow, Stored
<1>4. call.at \notin SaveWindow
  BY DEF SaveWindow
<1>5. calls' = [calls EXCEPT ![p] = call] /\ UNCHANGED <<disk, kept>>
  BY DEF Begins
<1> HIDE DEF call
<1>6. QED
  BY <1>1, <1>3, <1>4, <1>5, GoesOrdered

LEMMA AddOrdered ==
  ASSUME WholeInv, Ordered, NEW p \in Process, NEW r \in Root, Add(p, r)
  PROVE  Ordered'
<1> DEFINE source == [root |-> r, identity |-> folder[r].identity, enabled |-> TRUE,
                      entries |-> NoEntries]
           next == Append(Stored, source)
           later == [revision |-> disk.visible.revision + 1, sources |-> next]
<1>1. source \in Source
  BY AddedSource DEF WholeInv
<1>2. Begins(p, "comparing", Len(Stored) + 1, {}, next)
  BY DEF Add
<1> HIDE DEF source
<1>3. Stored \in Seq(Source)
  BY StoredWhole
<1>4. /\ next \in Seq(Source) /\ Len(next) = Len(Stored) + 1 /\ Len(Stored) \in Nat
      /\ \A i \in DOMAIN Stored : next[i] = Stored[i]
  BY <1>1, <1>3, Appended
<1> HIDE DEF next
<1>5. Continues(later, disk.visible)
  <2>1. disk.visible.revision \in Nat
    BY DEF WholeInv, Types, State
  <2>2. QED
    BY <1>4, <2>1 DEF Continues, Stored
<1> HIDE DEF later
<1>6. Continues([revision |-> disk.visible.revision + 1, sources |-> next], disk.visible)
  BY <1>5 DEF later
<1>7. Len(Stored) + 1 \in Nat /\ {} \in SUBSET Path
  BY <1>4
<1>8. QED
  BY <1>2, <1>4, <1>6, <1>7, BegunOrdered

LEMMA RevokeOrdered ==
  ASSUME WholeInv, Ordered, NEW p \in Process, NEW i \in Nat, Revoke(p, i)
  PROVE  Ordered'
<1> DEFINE revoked == [Stored[i] EXCEPT !.enabled = FALSE, !.entries = NoEntries]
           next == [Stored EXCEPT ![i] = revoked]
<1>1. Stored \in Seq(Source) /\ i \in DOMAIN Stored
  BY StoredWhole DEF Revoke, Selected
<1>2. Stored[i] \in Source
  BY <1>1, Element
<1>3. revoked \in Source /\ revoked.root = Stored[i].root /\ ~revoked.enabled
  BY <1>2, RevokedSource DEF Source
<1>4. Begins(p, "comparing", i, {}, next)
  BY DEF Revoke
<1> HIDE DEF revoked
<1>5. /\ next \in Seq(Source) /\ Len(next) = Len(Stored)
      /\ \A j \in DOMAIN Stored : next[j] = IF j = i THEN revoked ELSE Stored[j]
  BY <1>1, <1>3, Replaced
<1> HIDE DEF next
<1>6. Continues([revision |-> disk.visible.revision + 1, sources |-> next], disk.visible)
  <2>1. disk.visible.revision \in Nat /\ Len(Stored) \in Nat
    BY <1>1 DEF WholeInv, Types, State
  <2>2. QED
    BY <1>3, <1>5, <2>1 DEF Continues, Stored
<1>7. QED
  BY <1>4, <1>5, <1>6, BegunOrdered

\* A call that changes nothing yet continues what it loaded.
LEMMA StoredContinues ==
  ASSUME WholeInv
  PROVE  Continues([revision |-> disk.visible.revision + 1, sources |-> Stored], disk.visible)
<1>1. disk.visible \in State
  BY DEF WholeInv, Types
<1>2. disk.visible.revision \in Nat /\ Continues(disk.visible, disk.visible)
  BY <1>1, ContinuesItself DEF State
<1>3. QED
  BY <1>2 DEF Continues, Stored

LEMMA ScanOrdered ==
  ASSUME WholeInv, Ordered, NEW p \in Process, NEW i \in Nat, NEW paths \in SUBSET Path,
         Scan(p, i, paths)
  PROVE  Ordered'
<1>1. Begins(p, "opening", i, paths, Stored)
  BY DEF Scan
<1>2. QED
  BY <1>1, StoredWhole, StoredContinues, BegunOrdered

LEMMA ExtractOrdered ==
  ASSUME WholeInv, Ordered, NEW p \in Process, NEW i \in Nat, NEW path \in Path, Extract(p, i, path)
  PROVE  Ordered'
<1>1. Begins(p, "extracting", i, {path}, Stored) /\ i \in DOMAIN Stored /\ Stored[i].enabled
  BY DEF Extract, Selected
<1>2. {path} \in SUBSET Path
  OBVIOUS
<1>3. QED
  BY <1>1, <1>2, StoredWhole, StoredContinues, BegunOrdered

LEMMA OpenFilesOrdered ==
  ASSUME WholeInv, Ordered, NEW p \in Process, OpenFiles(p)
  PROVE  Ordered'
<1>1. calls[p] \in CallState /\ CallOrdered(calls[p], disk.visible)
  BY UnderWay DEF OpenFiles, At, Ordered, CallsOrdered
<1>2. /\ Opened(p).at = "reading" /\ Opened(p).base = calls[p].base
      /\ Opened(p).next = calls[p].next
  BY <1>1 DEF CallState, Opened
<1>3. CallOrdered(Opened(p), disk.visible)
  BY <1>1, <1>2 DEF CallOrdered, SavedBy, SaveWindow
<1>4. Opened(p).at \notin SaveWindow
  BY <1>2 DEF SaveWindow
<1>5. UNCHANGED <<disk, kept>>
  BY DEF OpenFiles
<1>6. QED
  BY <1>3, <1>4, <1>5, OpenedCall, GoesOrdered

\* A file that has been read remains in the list: nothing of it is lost by reading others.
LEMMA ScannedContinues ==
  ASSUME WholeInv, NEW p \in Process, At(p, "reading"), Undisturbed(p),
         Continues(SavedBy(calls[p]), calls[p].base)
  PROVE  LET scanned == [ScannedSource(p) EXCEPT !.entries = ScannedEntries(p)]
             next == [calls[p].next EXCEPT ![calls[p].source] = scanned]
         IN  Continues([revision |-> calls[p].base.revision + 1, sources |-> next], calls[p].base)
<1> DEFINE c == calls[p]
           scanned == [ScannedSource(p) EXCEPT !.entries = ScannedEntries(p)]
           next == [c.next EXCEPT ![c.source] = scanned]
<1>1. c \in CallState /\ CallWhole(c)
  BY UnderWay
<1>2. scanned \in Source /\ ScannedSource(p) \in Source
  BY <1>1, ScannedWhole, Element DEF CallState, CallWhole, ScannedSource
<1>3. /\ scanned.root = ScannedSource(p).root /\ scanned.enabled = ScannedSource(p).enabled
      /\ \A path \in Path : ScannedSource(p).entries[path] # None => scanned.entries[path] # None
  <2>1. c.read # None
    BY <1>1, NoneAssumption DEF CallWhole, At
  <2>2. scanned.entries = ScannedEntries(p)
    BY <1>2 DEF Source
  <2>3. \A path \in Path : ScannedSource(p).entries[path] # None => ScannedEntries(p)[path] # None
    BY <2>1 DEF ScannedEntries
  <2>4. QED
    BY <1>2, <2>2, <2>3 DEF Source
<1> HIDE DEF scanned
<1>4. /\ Len(next) = Len(c.next) /\ c.source \in DOMAIN c.next
      /\ \A i \in DOMAIN c.next : next[i] = IF i = c.source THEN scanned ELSE c.next[i]
  BY <1>1, <1>2, Replaced DEF CallState, CallWhole
<1>5. DOMAIN c.base.sources \subseteq DOMAIN c.next
  <2>1. /\ DOMAIN c.base.sources = 1 .. Len(c.base.sources) /\ DOMAIN c.next = 1 .. Len(c.next)
        /\ Len(c.base.sources) \in Nat /\ Len(c.next) \in Nat
    BY <1>1 DEF CallState, State
  <2>2. Len(c.next) >= Len(c.base.sources)
    BY DEF Continues, SavedBy
  <2>3. QED
    BY <2>1, <2>2
<1> HIDE DEF next
<1>6. ASSUME NEW i \in DOMAIN c.base.sources
      PROVE  /\ next[i].root = c.base.sources[i].root
             /\ next[i].enabled => c.base.sources[i].enabled
             /\ next[i].enabled => \A path \in Path :
                    c.base.sources[i].entries[path] # None => next[i].entries[path] # None
  <2>1. /\ c.next[i].root = c.base.sources[i].root
        /\ c.next[i].enabled => c.base.sources[i].enabled
        /\ c.next[i].enabled => \A path \in Path :
               c.base.sources[i].entries[path] # None => c.next[i].entries[path] # None
    BY <1>6 DEF Continues, SavedBy
  <2>2. CASE i = c.source
    <3>1. next[i] = scanned /\ c.next[i] = ScannedSource(p)
      BY <1>4, <1>5, <2>2 DEF ScannedSource
    <3>2. QED
      BY <1>3, <2>1, <3>1
  <2>3. CASE i # c.source
    <3>1. next[i] = c.next[i]
      BY <1>4, <1>5, <2>3
    <3>2. QED
      BY <2>1, <3>1
  <2>4. QED
    BY <2>2, <2>3
<1>7. Continues([revision |-> c.base.revision + 1, sources |-> next], c.base)
  BY <1>4, <1>6 DEF Continues, SavedBy
<1>8. QED
  BY <1>7 DEF next, scanned

LEMMA FilesReadOrdered ==
  ASSUME WholeInv, Ordered, NEW p \in Process, FilesRead(p)
  PROVE  Ordered'
<1> DEFINE c == calls[p]
           scanned == [ScannedSource(p) EXCEPT !.entries = ScannedEntries(p)]
           next == [c.next EXCEPT ![c.source] = scanned]
           place == IF ScannedEntries(p) = ScannedSource(p).entries THEN "unchanged" ELSE "comparing"
           call == [c EXCEPT !.at = place, !.next = next]
<1>1. c \in CallState /\ CallWhole(c) /\ c # None /\ CallOrdered(c, disk.visible)
  BY UnderWay DEF FilesRead, At, Ordered, CallsOrdered
<1>2. calls' = [calls EXCEPT ![p] = call] /\ UNCHANGED <<disk, kept>>
  BY DEF FilesRead, ScannedSource
<1>3. place \in {"unchanged", "comparing"}
  OBVIOUS
<1>4. Continues([revision |-> c.base.revision + 1, sources |-> next], c.base)
  BY <1>1, ScannedContinues DEF FilesRead, CallOrdered
<1>5. next \in Seq(Source)
  <2>1. scanned \in Source
    BY ScannedWhole DEF FilesRead
  <2> HIDE DEF scanned
  <2>2. QED
    BY <1>1, <2>1, Replaced DEF CallState, CallWhole
<1> HIDE DEF place, scanned, next
<1>6. call \in CallState /\ call.at = place /\ call.base = c.base /\ call.next = next
  BY <1>1, <1>3, <1>5 DEF CallState, Places
<1> HIDE DEF call
<1>7. call.at \notin SaveWindow /\ call.at # "renamed" /\ call.at # "extracting"
  BY <1>3, <1>6 DEF SaveWindow
<1>8. CallOrdered(call, disk.visible)
  BY <1>1, <1>4, <1>6, <1>7 DEF CallOrdered, SavedBy
<1>9. QED
  BY <1>2, <1>6, <1>7, <1>8, GoesOrdered

\* A call goes on to the window between comparison and rename, or within it.
LEMMA WindowOrdered ==
  ASSUME WholeInv, Ordered, NEW p \in Process, NEW from, At(p, from), NEW to \in SaveWindow,
         Moves(p, to), UNCHANGED <<disk, kept>>,
         calls[p].base.revision = disk.visible.revision,
         \A q \in Process \ {p} : ~Saving(q)
  PROVE  Ordered'
<1> DEFINE call == [calls[p] EXCEPT !.at = to]
<1>1. calls[p] \in CallState /\ calls[p] # None /\ CallOrdered(calls[p], disk.visible)
  BY UnderWay DEF At, Ordered, CallsOrdered
<1>2. calls' = [calls EXCEPT ![p] = call]
  BY DEF Moves
<1>3. call \in CallState /\ call.at = to /\ call.base = calls[p].base /\ call.next = calls[p].next
  BY <1>1 DEF CallState, Places
<1> HIDE DEF call
<1>4. to # "renamed" /\ to # "extracting"
  BY DEF SaveWindow
<1>5. CallOrdered(call, disk.visible)
  BY <1>1, <1>3, <1>4 DEF CallOrdered, SavedBy
<1>6. QED
  BY <1>2, <1>3, <1>5, GoesOrdered

\* Unless two saves overlap, a comparison that succeeds finds no other save between its
\* comparison and its rename.
LEMMA CompareOrdered ==
  ASSUME WholeInv, Ordered, NEW p \in Process, Compare(p), ~raced'
  PROVE  Ordered'
<1>1. \A q \in Process \ {p} : ~Saving(q)
  BY DEF Compare, Saving, At
<1>2. At(p, "comparing") /\ Moves(p, "writing") /\ UNCHANGED <<disk, kept>>
      /\ calls[p].base.revision = disk.visible.revision
  BY DEF Compare, RevisionUnchanged
<1>3. "writing" \in SaveWindow
  BY DEF SaveWindow
<1>4. QED
  BY <1>1, <1>2, <1>3, WindowOrdered

LEMMA WriteOrdered ==
  ASSUME WholeInv, Ordered, NEW p \in Process, WriteTemporary(p) \/ SyncTemporary(p)
  PROVE  Ordered'
<1>1. PICK from \in SaveWindow, to \in SaveWindow : At(p, from) /\ Moves(p, to)
  BY DEF WriteTemporary, SyncTemporary, SaveWindow
<1>2. Saving(p) /\ calls[p].base.revision = disk.visible.revision
  BY <1>1 DEF At, Saving, Ordered, CallsOrdered, CallOrdered
<1>3. \A q \in Process \ {p} : ~Saving(q)
  BY <1>2 DEF Ordered, OneSaving
<1>4. UNCHANGED <<disk, kept>>
  BY DEF WriteTemporary, SyncTemporary
<1>5. QED
  BY <1>1, <1>2, <1>3, <1>4, WindowOrdered

\* A rename replaces the very state that the call loaded by one that continues it.
LEMMA RenameOrdered ==
  ASSUME WholeInv, Ordered, NEW p \in Process, Rename(p)
  PROVE  Ordered'
<1> DEFINE c == calls[p]
           seen == disk.visible
           saved == SavedBy(c)
           call == [c EXCEPT !.at = "renamed"]
<1>1. c \in CallState /\ CallOrdered(c, seen) /\ Saving(p) /\ seen \in State /\ disk.durable \in State
      /\ kept \in State
  BY UnderWay DEF Rename, At, Ordered, CallsOrdered, Saving, SaveWindow, WholeInv, Types
<1>2. c.base = seen /\ Continues(saved, seen)
  BY <1>1 DEF CallOrdered, Saving
<1>3. saved \in State /\ saved.revision = seen.revision + 1 /\ seen.revision \in Nat
  BY <1>1, <1>2, SavedByState DEF SavedBy, State
<1>4. disk'.visible = saved /\ disk'.durable = disk.durable /\ kept' = kept
      /\ calls' = [calls EXCEPT ![p] = call]
  BY DEF Rename, Saved, SavedBy, Moves, WholeInv, Types
<1>5. /\ call.at = "renamed" /\ call.base = c.base /\ call.next = c.next /\ SavedBy(call) = saved
  BY <1>1 DEF CallState, SavedBy
<1> HIDE DEF call, saved
<1>6. ASSUME NEW q \in Process, calls'[q] # None
      PROVE  CallOrdered(calls'[q], disk'.visible)
  <2>1. CASE q = p
    <3>1. calls'[q] = call
      BY <1>4, <2>1 DEF WholeInv, Types
    <3>2. Continues(saved, saved)
      BY <1>3, ContinuesItself
    <3>3. Continues(saved, c.base) /\ c.base.revision \in Nat /\ saved.revision = c.base.revision + 1
      BY <1>2, <1>3
    <3>4. call.at \notin SaveWindow
      BY <1>5 DEF SaveWindow
    <3>5. QED
      BY <1>4, <1>5, <3>1, <3>2, <3>3, <3>4 DEF CallOrdered
  <2>2. CASE q # p
    <3>1. calls'[q] = calls[q] /\ calls[q] # None
      BY <1>4, <1>6, <2>2 DEF WholeInv, Types
    <3>2. calls[q] \in CallState /\ CallOrdered(calls[q], seen)
      BY <3>1 DEF Ordered, CallsOrdered, WholeInv, Types
    <3>3. calls[q].at \notin SaveWindow
      BY <1>1, <2>2, <3>1 DEF Ordered, OneSaving, Saving
    <3>4. calls[q].base.revision \in Nat /\ calls[q].base.revision < saved.revision
      BY <1>3, <3>2 DEF CallOrdered, CallState, State
    <3>5. calls[q].at = "renamed" => Continues(saved, SavedBy(calls[q]))
      <4>1. SavedBy(calls[q]) \in State
        BY <3>2, SavedByState
      <4>2. QED
        BY <1>1, <1>2, <1>3, <3>2, <4>1, ContinuesTransitive DEF CallOrdered
    <3>6. QED
      BY <1>3, <1>4, <3>1, <3>2, <3>3, <3>4, <3>5 DEF CallOrdered
  <2>3. QED
    BY <2>1, <2>2
<1>7. CallsOrdered'
  BY <1>6 DEF CallsOrdered, CallOrdered, Continues, SavedBy
<1>8. OneSaving'
  <2>1. call.at \notin SaveWindow
    BY <1>5 DEF SaveWindow
  <2>2. QED
    BY <1>4, <2>1 DEF Ordered, OneSaving, Saving, WholeInv, Types
<1>9. KeptOrdered'
  <2>1. ASSUME SyncsDirectory PROVE Continues(saved, disk.durable) /\ Continues(disk.durable, kept)
    BY <1>1, <1>2, <1>3, <2>1, ContinuesTransitive DEF Ordered, KeptOrdered
  <2>2. QED
    BY <1>4, <2>1 DEF KeptOrdered, Continues
<1>10. QED
  BY <1>7, <1>8, <1>9 DEF Ordered

LEMMA SyncDirectoryOrdered ==
  ASSUME WholeInv, Ordered, NEW p \in Process, SyncDirectory(p)
  PROVE  Ordered'
<1> DEFINE c == calls[p]
           seen == disk.visible
<1>1. c \in CallState /\ CallOrdered(c, seen) /\ c.at = "renamed" /\ seen \in State
      /\ disk.durable \in State /\ kept \in State
  BY UnderWay DEF SyncDirectory, At, Ordered, CallsOrdered, WholeInv, Types
<1>2. Continues(seen, SavedBy(c))
  BY <1>1 DEF CallOrdered
<1>3. disk'.visible = seen /\ disk'.durable = (IF SyncsDirectory THEN seen ELSE disk.durable)
      /\ kept' \in {kept, SavedBy(c)} /\ calls' = [calls EXCEPT ![p] = None]
  BY DEF SyncDirectory, Saved, SavedBy, Ends, WholeInv, Types
<1>4. CallsOrdered'
  <2>1. ASSUME NEW q \in Process, calls'[q] # None
        PROVE  CallOrdered(calls'[q], disk'.visible)
    BY <1>3, <2>1 DEF Ordered, CallsOrdered, WholeInv, Types
  <2>2. QED
    BY <2>1 DEF CallsOrdered, CallOrdered, Continues, SavedBy
<1>5. OneSaving'
  BY <1>3 DEF Ordered, OneSaving, Saving, WholeInv, Types
<1>6. KeptOrdered'
  <2>1. ASSUME SyncsDirectory PROVE Continues(seen, kept) /\ Continues(seen, seen)
    BY <1>1, <2>1, ContinuesItself, ContinuesTransitive DEF Ordered, KeptOrdered
  <2>2. SyncsDirectory => Continues(disk'.durable, kept') /\ Continues(disk'.visible, disk'.durable)
    BY <1>2, <1>3, <2>1
  <2>3. QED
    BY <2>2 DEF KeptOrdered, Continues
<1>7. QED
  BY <1>4, <1>5, <1>6 DEF Ordered

\* A loss of power leaves the visible state or the durable one, and both continue what was kept.
LEMMA PowerLossOrdered ==
  ASSUME WholeInv, Ordered, PowerLoss
  PROVE  Ordered'
<1>1. PICK left \in {disk.durable, disk.visible} :
          disk' = [visible |-> left, synced |-> TRUE, durable |-> left]
  BY DEF PowerLoss, WholeInv, CheckpointWhole
<1>2. left \in State /\ disk.durable \in State /\ kept \in State
  BY DEF WholeInv, Types
<1>3. CallsOrdered' /\ OneSaving'
  BY DEF PowerLoss, CallsOrdered, OneSaving, Saving
<1>4. KeptOrdered'
  <2>1. ASSUME SyncsDirectory PROVE Continues(left, kept) /\ Continues(left, left)
    BY <1>2, <2>1, ContinuesItself, ContinuesTransitive DEF Ordered, KeptOrdered
  <2>2. disk'.visible = left /\ disk'.durable = left /\ kept' = kept
    BY <1>1 DEF PowerLoss
  <2>3. QED
    BY <2>1, <2>2 DEF KeptOrdered, Continues
<1>5. QED
  BY <1>3, <1>4 DEF Ordered

LEMMA InitOrdered ==
  ASSUME Init
  PROVE  Ordered
<1>1. Continues(Empty, Empty)
  <2>1. Empty \in State
    BY DEF Empty, State
  <2>2. QED
    BY <2>1, ContinuesItself
<1>2. disk.visible = Empty /\ disk.durable = Empty /\ kept = Empty
  BY DEF Init
<1>3. CallsOrdered /\ OneSaving
  BY DEF Init, CallsOrdered, OneSaving, Saving
<1>4. KeptOrdered
  BY <1>1, <1>2 DEF KeptOrdered
<1>5. QED
  BY <1>3, <1>4 DEF Ordered

LEMMA StepOrdered ==
  ASSUME WholeInv, Ordered, [Next]_vars, ~raced'
  PROVE  Ordered'
<1>1. CASE \E p \in Process, r \in Root : Add(p, r)
  BY <1>1, AddOrdered
<1>2. CASE \E p \in Process, i \in 1..MaxSources : Revoke(p, i)
  <2>1. PICK p \in Process, i \in 1..MaxSources : Revoke(p, i)
    BY <1>2
  <2>2. i \in Nat
    BY <2>1, StoredWhole, Element DEF Revoke, Selected
  <2>3. QED
    BY <2>1, <2>2, RevokeOrdered
<1>3. CASE \E p \in Process, i \in 1..MaxSources, paths \in SUBSET Path : Scan(p, i, paths)
  <2>1. PICK p \in Process, i \in 1..MaxSources, paths \in SUBSET Path : Scan(p, i, paths)
    BY <1>3
  <2>2. i \in Nat
    BY <2>1, StoredWhole, Element DEF Scan, Selected
  <2>3. QED
    BY <2>1, <2>2, ScanOrdered
<1>4. CASE \E p \in Process, i \in 1..MaxSources, path \in Path : Extract(p, i, path)
  <2>1. PICK p \in Process, i \in 1..MaxSources, path \in Path : Extract(p, i, path)
    BY <1>4
  <2>2. i \in Nat
    BY <2>1, StoredWhole, Element DEF Extract, Selected
  <2>3. QED
    BY <2>1, <2>2, ExtractOrdered
<1>5. CASE \E p \in Process : OpenFiles(p)
  BY <1>5, OpenFilesOrdered
<1>6. CASE \E p \in Process : FilesRead(p)
  BY <1>6, FilesReadOrdered
<1>7. ASSUME NEW p \in Process,
             \/ FilesRefused(p) \/ Conflict(p) \/ SaveFails(p) \/ ScanUnchanged(p)
             \/ GiveExcerpt(p) \/ Crash(p)
      PROVE  Ordered'
  BY <1>7, EndsOrdered DEF FilesRefused, Conflict, SaveFails, ScanUnchanged, GiveExcerpt, Crash
<1>8. CASE \E p \in Process : Compare(p)
  BY <1>8, CompareOrdered
<1>9. CASE \E p \in Process : WriteTemporary(p) \/ SyncTemporary(p)
  BY <1>9, WriteOrdered
<1>10. CASE \E p \in Process : Rename(p)
  BY <1>10, RenameOrdered
<1>11. CASE \E p \in Process : SyncDirectory(p)
  BY <1>11, SyncDirectoryOrdered
<1>12. CASE PowerLoss
  BY <1>12, PowerLossOrdered
<1>13. CASE UNCHANGED <<disk, calls, kept>>
  BY <1>13 DEF Ordered, CallsOrdered, OneSaving, Saving, KeptOrdered
<1>14. (\E r \in Root : FolderEdited(r) \/ FolderReplaced(r)) \/ UNCHANGED vars
          => UNCHANGED <<disk, calls, kept>>
  BY DEF FolderEdited, FolderReplaced, vars
<1>15. QED
  BY <1>1, <1>2, <1>3, <1>4, <1>5, <1>6, <1>7, <1>8, <1>9, <1>10, <1>11, <1>12, <1>13, <1>14 DEF Next

\* Two saves that have overlapped have overlapped for good.
LEMMA RacedForGood ==
  ASSUME [Next]_vars, raced
  PROVE  raced'
BY DEF Next, vars, Add, Revoke, Scan, Extract, Begins, OpenFiles, FilesRead, FilesRefused, Compare,
       Conflict, WriteTemporary, SyncTemporary, Rename, SyncDirectory, SaveFails, ScanUnchanged,
       GiveExcerpt, FolderEdited, FolderReplaced, Crash, PowerLoss

LEMMA OrderedInvariant == Spec => []OrderedInv
<1>1. Init => OrderedInv
  BY InitWhole, InitOrdered DEF OrderedInv
<1>2. OrderedInv /\ [Next]_vars => OrderedInv'
  BY StepWhole, StepOrdered, RacedForGood DEF OrderedInv, WholeInv
<1>3. QED
  BY <1>1, <1>2, PTL DEF Spec

\* On a platform that synchronises directories, and as long as two saves are never both past
\* their comparison, whatever was answered as changed is in the checkpoint that is seen and in
\* the one that a loss of power leaves: no revoked source returns and no excerpt is lost.
THEOREM AnswersSurvive == Spec => []AnsweredChangesKept
<1>1. OrderedInv => AnsweredChangesKept
  <2> SUFFICES ASSUME OrderedInv, SyncsDirectory, ~raced
               PROVE  Continues(disk.durable, kept) /\ Continues(disk.visible, kept)
    BY DEF AnsweredChangesKept
  <2>1. disk.visible \in State /\ disk.durable \in State /\ kept \in State
    BY DEF OrderedInv, WholeInv, Types
  <2>2. Continues(disk.durable, kept) /\ Continues(disk.visible, disk.durable)
    BY DEF OrderedInv, Ordered, KeptOrdered
  <2>3. QED
    BY <2>1, <2>2, ContinuesTransitive
<1>2. QED
  BY <1>1, OrderedInvariant, PTL

\* Under the same condition no process hands over an excerpt of a source that is revoked by
\* then, or one that another save has replaced.
THEOREM ExcerptsAreCurrent == Spec => ExcerptsCurrent
<1>1. ASSUME OrderedInv, NEW p \in Process, ~raced, GiveExcerpt(p)
      PROVE  \A path \in calls[p].paths :
                 /\ Selected(calls[p].source)
                 /\ Stored[calls[p].source].entries[path]
                        = calls[p].next[calls[p].source].entries[path]
  <2>1. CallOrdered(calls[p], disk.visible) /\ calls[p].at = "extracting"
    BY <1>1 DEF OrderedInv, Ordered, CallsOrdered, GiveExcerpt, At
  <2>2. calls[p].next = Stored
    BY <1>1, <2>1 DEF CallOrdered, GiveExcerpt, RevisionUnchanged, Stored
  <2>3. QED
    BY <2>1, <2>2 DEF CallOrdered, Selected
<1>2. OrderedInv =>
        [\A p \in Process : ~raced /\ GiveExcerpt(p) =>
           \A path \in calls[p].paths :
               /\ Selected(calls[p].source)
               /\ Stored[calls[p].source].entries[path]
                      = calls[p].next[calls[p].source].entries[path]]_vars
  BY <1>1
<1>3. QED
  BY <1>2, OrderedInvariant, PTL DEF ExcerptsCurrent
=============================================================================
