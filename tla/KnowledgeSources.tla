-------------------------- MODULE KnowledgeSources --------------------------
(***************************************************************************)
(* Folders an owner selected, and the checkpoint that holds the excerpts   *)
(* read from them.  A call runs in one turn of its process, but its file   *)
(* system calls are steps: another process, the owner of the folders, a    *)
(* crash and a loss of power come between them.                            *)
(***************************************************************************)
EXTENDS Integers, Sequences, FiniteSets

CONSTANTS
    Process,          \* server processes on one knowledge home
    Root,             \* folders that can be selected
    Path,             \* relative paths of text files
    None,             \* no value
    MaxSources,       \* selections a checkpoint holds (16)
    MaxEntries,       \* excerpts retained per selection (128)
    SyncsDirectory,   \* the platform synchronises directories (not win32)
    MaxRevision,      \* bound: revision at which no further change begins
    MaxEdition        \* bound: edits and replacements of a folder

\* A folder as a file is read from it: which directory, and which edition of its files.
File == [identity : Nat, edition : Nat]

ASSUME NoneAssumption == None \notin File

VARIABLES
    folder,   \* the folders: which directory it is, and which edition of its files
    disk,     \* the checkpoint as seen, whether its bytes are on the disk, and what a loss of power leaves
    calls,    \* the call each process is in
    kept,     \* history: the newest state a completed save was answered for
    raced     \* history: two saves were past their comparison at once

vars == <<folder, disk, calls, kept, raced>>

NoEntries == [path \in Path |-> None]

\* What load() makes of a missing checkpoint, and a checkpoint it cannot parse.
Empty == [revision |-> 0, sources |-> <<>>]
Torn == [revision |-> -1, sources |-> <<>>]

Init ==
    /\ folder = [r \in Root |-> [identity |-> 0, edition |-> 0]]
    /\ disk = [visible |-> Empty, synced |-> TRUE, durable |-> Empty]
    /\ calls = [p \in Process |-> None]
    /\ kept = Empty
    /\ raced = FALSE

-----------------------------------------------------------------------------
(* Calls.  One that is refused before it has written changes nothing. *)

At(p, place) == calls[p] # None /\ calls[p].at = place

Ends(p) == calls' = [calls EXCEPT ![p] = None]

Moves(p, place) == calls' = [calls EXCEPT ![p].at = place]

\* A call begins: it has loaded the checkpoint.
Begins(p, place, source, paths, next) ==
    /\ calls[p] = None
    /\ disk.visible # Torn
    /\ calls' = [calls EXCEPT ![p] = [at |-> place, base |-> disk.visible, source |-> source,
                                      paths |-> paths, read |-> None, next |-> next]]
    /\ UNCHANGED <<folder, disk, kept, raced>>

Stored == disk.visible.sources

Selected(i) == i \in DOMAIN Stored /\ Stored[i].enabled

\* The root is still the directory that was selected.
SameFolder(source) == folder[source.root].identity = source.identity

\* The same folder, still enabled, is answered from the list.
Add(p, r) ==
    /\ disk.visible.revision < MaxRevision
    /\ ~\E i \in DOMAIN Stored : Stored[i].enabled /\ Stored[i].root = r
    /\ Len(Stored) < MaxSources
    /\ LET source == [root |-> r, identity |-> folder[r].identity, enabled |-> TRUE, entries |-> NoEntries]
       IN  Begins(p, "comparing", Len(Stored) + 1, {}, Append(Stored, source))

Revoke(p, i) ==
    /\ disk.visible.revision < MaxRevision
    /\ Selected(i)
    /\ Begins(p, "comparing", i, {}, [Stored EXCEPT ![i].enabled = FALSE, ![i].entries = NoEntries])

Scan(p, i, paths) ==
    /\ disk.visible.revision < MaxRevision
    /\ Selected(i)
    /\ paths # {}
    /\ SameFolder(Stored[i])
    /\ Begins(p, "opening", i, paths, Stored)

Extract(p, i, path) ==
    /\ Selected(i)
    /\ SameFolder(Stored[i])
    /\ Stored[i].entries[path] # None
    /\ Begins(p, "extracting", i, {path}, Stored)

-----------------------------------------------------------------------------
(* Reading the files of a scan *)

\* Whatever directory is at the root by now.
OpenFiles(p) ==
    /\ At(p, "opening")
    /\ calls' = [calls EXCEPT ![p].at = "reading",
                              ![p].read = folder[calls[p].next[calls[p].source].root]]
    /\ UNCHANGED <<folder, disk, kept, raced>>

ScannedSource(p) == calls[p].next[calls[p].source]

\* The files are as they were opened, and in the directory that was selected.
Undisturbed(p) ==
    /\ SameFolder(ScannedSource(p))
    /\ folder[ScannedSource(p).root] = calls[p].read

ScannedEntries(p) ==
    [path \in Path |-> IF path \in calls[p].paths THEN calls[p].read ELSE ScannedSource(p).entries[path]]

WithinLimit(entries) == Cardinality({path \in Path : entries[path] # None}) <= MaxEntries

FilesRead(p) ==
    /\ At(p, "reading")
    /\ Undisturbed(p)
    /\ WithinLimit(ScannedEntries(p))
    /\ calls' = [calls EXCEPT
           ![p].at = IF ScannedEntries(p) = ScannedSource(p).entries THEN "unchanged" ELSE "comparing",
           ![p].next = [@ EXCEPT ![calls[p].source].entries = ScannedEntries(p)]]
    /\ UNCHANGED <<folder, disk, kept, raced>>

\* SOURCE_CHANGED or LIMIT_EXCEEDED: nothing of the batch is kept.
FilesRefused(p) ==
    /\ At(p, "reading")
    /\ ~Undisturbed(p) \/ ~WithinLimit(ScannedEntries(p))
    /\ Ends(p)
    /\ UNCHANGED <<folder, disk, kept, raced>>

-----------------------------------------------------------------------------
(* save(): compare, write, synchronise, rename, synchronise the directory *)

SaveWindow == {"writing", "written", "synced"}

RevisionUnchanged(p) == disk.visible.revision = calls[p].base.revision

\* Mutant: the revision is not compared.
CompareNothing(p) ==
    /\ At(p, "comparing")
    /\ raced' = (raced \/ \E q \in Process \ {p}, place \in SaveWindow : At(q, place))
    /\ Moves(p, "writing")
    /\ UNCHANGED <<folder, disk, kept>>

Compare(p) ==
    /\ At(p, "comparing")
    /\ RevisionUnchanged(p)
    /\ raced' = (raced \/ \E q \in Process \ {p}, place \in SaveWindow : At(q, place))
    /\ Moves(p, "writing")
    /\ UNCHANGED <<folder, disk, kept>>

\* CONFLICT: the checkpoint is not the one the call loaded.
Conflict(p) ==
    /\ \E place \in {"comparing", "unchanged", "extracting"} : At(p, place)
    /\ ~RevisionUnchanged(p)
    /\ Ends(p)
    /\ UNCHANGED <<folder, disk, kept, raced>>

WriteTemporary(p) ==
    /\ At(p, "writing")
    /\ Moves(p, "written")
    /\ UNCHANGED <<folder, disk, kept, raced>>

SyncTemporary(p) ==
    /\ At(p, "written")
    /\ Moves(p, "synced")
    /\ UNCHANGED <<folder, disk, kept, raced>>

Saved(p) == [revision |-> calls[p].base.revision + 1, sources |-> calls[p].next]

\* Mutant: the bytes of the new checkpoint may not be on the disk yet.
RenameUnsynced(p) ==
    /\ At(p, "written") \/ At(p, "synced")
    /\ disk' = [disk EXCEPT !.visible = Saved(p), !.synced = At(p, "synced")]
    /\ Moves(p, "renamed")
    /\ UNCHANGED <<folder, kept, raced>>

Rename(p) ==
    /\ At(p, "synced")
    /\ disk' = [disk EXCEPT !.visible = Saved(p), !.synced = TRUE]
    /\ Moves(p, "renamed")
    /\ UNCHANGED <<folder, kept, raced>>

\* The save returns and the change is answered.
SyncDirectory(p) ==
    /\ At(p, "renamed")
    /\ disk' = IF SyncsDirectory THEN [disk EXCEPT !.durable = disk.visible] ELSE disk
    /\ kept' = IF Saved(p).revision > kept.revision THEN Saved(p) ELSE kept
    /\ Ends(p)
    /\ UNCHANGED <<folder, raced>>

\* Any of these file system calls fails.  After the rename the answer is an error all the
\* same, and the change is made.
SaveFails(p) ==
    /\ \E place \in SaveWindow \union {"renamed"} : At(p, place)
    /\ Ends(p)
    /\ UNCHANGED <<folder, disk, kept, raced>>

-----------------------------------------------------------------------------
(* Answers that change nothing *)

ScanUnchanged(p) ==
    /\ At(p, "unchanged")
    /\ RevisionUnchanged(p)
    /\ Ends(p)
    /\ UNCHANGED <<folder, disk, kept, raced>>

\* Mutant: the excerpt is handed over without another look at the checkpoint.
GiveAnyExcerpt(p) ==
    /\ At(p, "extracting")
    /\ Ends(p)
    /\ UNCHANGED <<folder, disk, kept, raced>>

GiveExcerpt(p) ==
    /\ At(p, "extracting")
    /\ RevisionUnchanged(p)
    /\ Ends(p)
    /\ UNCHANGED <<folder, disk, kept, raced>>

-----------------------------------------------------------------------------
(* The surroundings *)

FolderEdited(r) ==
    /\ folder[r].edition < MaxEdition
    /\ folder' = [folder EXCEPT ![r].edition = @ + 1]
    /\ UNCHANGED <<disk, calls, kept, raced>>

FolderReplaced(r) ==
    /\ folder[r].edition < MaxEdition
    /\ folder' = [folder EXCEPT ![r] = [identity |-> @.identity + 1, edition |-> @.edition + 1]]
    /\ UNCHANGED <<disk, calls, kept, raced>>

\* A process dies and is started again; its temporary file is never read.
Crash(p) ==
    /\ calls[p] # None
    /\ Ends(p)
    /\ UNCHANGED <<folder, disk, kept, raced>>

\* A rename that was not synchronised may be undone, and bytes that were not are lost.
PowerLoss ==
    /\ \E left \in {disk.durable, IF disk.synced THEN disk.visible ELSE Torn} :
           disk' = [visible |-> left, synced |-> TRUE, durable |-> left]
    /\ calls' = [p \in Process |-> None]
    /\ UNCHANGED <<folder, kept, raced>>

Next ==
    \/ \E p \in Process, r \in Root : Add(p, r)
    \/ \E p \in Process, i \in 1..MaxSources : Revoke(p, i)
    \/ \E p \in Process, i \in 1..MaxSources, paths \in SUBSET Path : Scan(p, i, paths)
    \/ \E p \in Process, i \in 1..MaxSources, path \in Path : Extract(p, i, path)
    \/ \E p \in Process : OpenFiles(p)
    \/ \E p \in Process : FilesRead(p)
    \/ \E p \in Process : FilesRefused(p)
    \/ \E p \in Process : Compare(p)
    \/ \E p \in Process : Conflict(p)
    \/ \E p \in Process : WriteTemporary(p)
    \/ \E p \in Process : SyncTemporary(p)
    \/ \E p \in Process : Rename(p)
    \/ \E p \in Process : SyncDirectory(p)
    \/ \E p \in Process : SaveFails(p)
    \/ \E p \in Process : ScanUnchanged(p)
    \/ \E p \in Process : GiveExcerpt(p)
    \/ \E r \in Root : FolderEdited(r)
    \/ \E r \in Root : FolderReplaced(r)
    \/ \E p \in Process : Crash(p)
    \/ PowerLoss

Spec == Init /\ [][Next]_vars

-----------------------------------------------------------------------------
(* Properties *)

WholeSource(source) ==
    /\ ~source.enabled => source.entries = NoEntries
    /\ \A path \in Path :
           source.entries[path] # None => source.entries[path].identity = source.identity

WholeState(state) == state # Torn /\ \A i \in DOMAIN state.sources : WholeSource(state.sources[i])

\* Whatever process, machine or folder fails between two file system calls, the checkpoint
\* (seen now or found after a loss of power) can be read, a revoked source retains no
\* excerpt, and every excerpt comes from the very directory that was selected.
CheckpointWhole ==
    /\ WholeState(disk.visible)
    /\ WholeState(disk.durable)
    /\ disk.synced

\* A later state of the same selections: nothing revoked is back, nothing read is lost.
Continues(later, earlier) ==
    /\ later.revision >= earlier.revision
    /\ Len(later.sources) >= Len(earlier.sources)
    /\ \A i \in DOMAIN earlier.sources :
           /\ later.sources[i].root = earlier.sources[i].root
           /\ later.sources[i].enabled => earlier.sources[i].enabled
           /\ later.sources[i].enabled => \A path \in Path :
                  earlier.sources[i].entries[path] # None => later.sources[i].entries[path] # None

\* A change that was answered survives crashes, losses of power and the other processes'
\* saves, unless two saves were once between comparison and rename together: no other
\* interleaving defeats the comparison of revisions.
AnsweredChangesKept ==
    SyncsDirectory /\ ~raced => Continues(disk.durable, kept) /\ Continues(disk.visible, kept)

\* Under the same condition an excerpt that is handed over is, at that moment, the stored
\* excerpt of a source that is not revoked.
ExcerptsCurrent ==
    [][\A p \in Process : ~raced /\ GiveExcerpt(p) =>
           \A path \in calls[p].paths :
               /\ Selected(calls[p].source)
               /\ Stored[calls[p].source].entries[path] = calls[p].next[calls[p].source].entries[path]]_vars

=============================================================================
