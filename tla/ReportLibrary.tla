----------------------------- MODULE ReportLibrary -----------------------------
(***************************************************************************)
(* The library's cache of search rows (src/app/storage/library_cache.py)    *)
(* over the folders of ReportTrash.  A search reads every report with no    *)
(* file lock, while it is saved, finished, removed or restored; the cache's *)
(* own lock is held over one whole load, so there is one loader.            *)
(*                                                                          *)
(* A row is kept with a fingerprint of scan.json and terminal.json.  Each   *)
(* replacement of a file changes its fingerprint, moving a folder does not: *)
(* the revision and the presence of the sidecar stand for it.  Which reports *)
(* may have a row is a matter of sizes and ranks, here a choice.             *)
(***************************************************************************)
EXTENDS ReportTrash

CONSTANT NoRow

VARIABLES
    row,     \* entries
    load     \* the load in progress

cache == <<row, load>>
libraryVars == <<vars, cache>>

Stamp == [rev : 1 .. MaxRev, sidecar : BOOLEAN]

\* What a search shows of a report, and its other rows depend on.
Projection == [rev : 1 .. MaxRev, finished : BOOLEAN]

Row == [stamp : Stamp, shown : Projection]

Fingerprint(r) == [rev |-> folder[r].rev, sidecar |-> folder[r].sidecar]

Shown(r) == [rev |-> folder[r].rev, finished |-> Finished(folder[r])]

NoLoad == [at |-> "idle", scan |-> Absent, stamp |-> NoRow, shown |-> NoRow]

LibraryInit ==
    /\ Init
    /\ row = [r \in Reports |-> NoRow]
    /\ load = NoLoad

\* prefer, before a sweep over all reports: the others have no row.
Prefer(newest) ==
    /\ load.at = "idle"
    /\ row' = [r \in Reports |-> IF r \in newest THEN row[r] ELSE NoRow]
    /\ UNCHANGED <<vars, load>>

\* A row with another fingerprint is dropped, one with this fingerprint served.
LoadBegin(r) ==
    /\ load.at = "idle" /\ Loadable(r)
    /\ row[r] # NoRow => row[r].stamp # Fingerprint(r)
    /\ row' = [row EXCEPT ![r] = NoRow]
    /\ load' = [NoLoad EXCEPT !.at = "primary", !.scan = r, !.stamp = Fingerprint(r)]
    /\ UNCHANGED vars

\* _load_scan reads scan.json ...
LoadPrimary ==
    /\ load.at = "primary" /\ Loadable(load.scan)
    /\ load' = [load EXCEPT !.at = "sidecar",
                            !.shown = [rev |-> folder[load.scan].rev,
                                       finished |-> ~folder[load.scan].open]]
    /\ UNCHANGED <<vars, row>>

\* ... and then looks for a sidecar of that revision.
LoadSidecar ==
    /\ load.at = "sidecar"
    /\ load' = [load EXCEPT !.at = "insert",
                   !.shown.finished = \/ @
                                      \/ /\ Loadable(load.scan)
                                         /\ folder[load.scan].sidecar
                                         /\ folder[load.scan].rev = load.shown.rev]
    /\ UNCHANGED <<vars, row>>

\* A report that went away meanwhile, whose files changed, or that does not rank
\* high enough for its size, is not cached.
LoadEnd ==
    /\ load.at \in {"primary", "sidecar", "insert"}
    /\ load' = NoLoad
    /\ UNCHANGED <<vars, row>>

\* Same files before and after: other rows make room.
Insert ==
    /\ load.at = "insert"
    /\ Loadable(load.scan) /\ load.stamp = Fingerprint(load.scan)
    /\ \E others \in SUBSET (Reports \ {load.scan}) :
          row' = [r \in Reports |->
                    IF r = load.scan THEN [stamp |-> load.stamp, shown |-> load.shown]
                    ELSE IF r \in others THEN row[r] ELSE NoRow]
    /\ load' = NoLoad
    /\ UNCHANGED vars

\* Mutant: the row is dropped without the cache's lock.
EvictAtOnce ==
    /\ Evict
    /\ row' = [row EXCEPT ![op.scan] = NoRow]
    /\ UNCHANGED load

\* The thread of a removal waits for the cache's lock with the file locks held:
\* no restore can bring the files back while a load that saw them go is going on.
EvictRemoved ==
    /\ Evict /\ load.at = "idle"
    /\ row' = [row EXCEPT ![op.scan] = NoRow]
    /\ UNCHANGED load

\* The cache is in memory only.
CrashAll ==
    /\ Crash
    /\ row' = [r \in Reports |-> NoRow] /\ load' = NoLoad

Search ==
    \/ \E newest \in SUBSET Reports : Prefer(newest)
    \/ \E r \in Reports : LoadBegin(r)
    \/ LoadPrimary \/ LoadSidecar \/ LoadEnd \/ Insert

LibraryNext ==
    \/ ((\E r \in Reports : Work(r)) \/ Call \/ Thread) /\ UNCHANGED cache
    \/ EvictRemoved \/ CrashAll \/ Search

LibrarySpec == LibraryInit /\ [][LibraryNext]_libraryVars

-----------------------------------------------------------------------------

LibraryTypeOK ==
    /\ TypeOK
    /\ row \in [Reports -> Row \cup {NoRow}]
    /\ load \in [at : {"idle", "primary", "sidecar", "insert"},
                 scan : Reports \cup {Absent},
                 stamp : Stamp \cup {NoRow}, shown : Projection \cup {NoRow}]

\* A row the cache would serve for the files as they are shows the report as a
\* full load would, also after writes during its own load, and after the report
\* was removed and came back with the same files.
CachedRowIsCurrent ==
    \A r \in Reports :
       Loadable(r) /\ row[r] # NoRow /\ row[r].stamp = Fingerprint(r) => row[r].shown = Shown(r)

=============================================================================
