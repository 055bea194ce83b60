------------------------------ MODULE Exporter ------------------------------
(***************************************************************************)
(* The export command with layout "both", of a dataset: a file of all its  *)
(* rows and one for each source, all copied in one REPEATABLE READ         *)
(* transaction while others commit, then put in place one by one, and the  *)
(* manifest behind them.  The rows are the contents of EntityBatches.      *)
(***************************************************************************)
EXTENDS EntityBatches, FiniteSets, FiniteSetsExt

CONSTANTS
  SourceOf,     \* the source of an entity
  Combined,     \* the name of the file of all sources
  FileOrder,    \* the files, in the order of the requests
  ExportBudget  \* bounds

\* Exports begun, and steps of them that fail.
ExportEvents == {"export", "fail"}

ExportSources == {SourceOf[e] : e \in Entities}
Files == ExportSources \cup {Combined}

ASSUME ExporterAssumption ==
  /\ IsFiniteSet(Entities)
  /\ DOMAIN SourceOf = Entities /\ Combined \notin ExportSources
  /\ FileOrder \in Seq(Files)
  /\ \A f \in Files : \E i \in DOMAIN FileOrder : FileOrder[i] = f
  /\ ExportBudget \in [ExportEvents -> Nat]

VARIABLES
  exporting,  \* where the command is
  turn,       \* the request it has reached
  snapshot,   \* what its transaction sees
  copied,     \* the temporary files
  results,    \* the counts of the rows
  files,      \* the files in place
  manifest,   \* export_manifest.json
  exportBudget

exportVars == <<exporting, turn, snapshot, copied, results, files, manifest,
                exportBudget>>

NoRows == [f \in Files |-> {}]
NoCounts == [f \in Files |-> 0]

ExportInit(events) ==
  /\ exporting = "idle" /\ turn = 0
  /\ snapshot = [e \in Entities |-> NoContent]
  /\ copied = NoRows /\ results = NoCounts
  /\ files = NoRows /\ manifest = NoCounts
  /\ exportBudget = events

ExportSpend(kind) ==
  /\ exportBudget[kind] > 0
  /\ exportBudget' = [exportBudget EXCEPT ![kind] = @ - 1]

Current == FileOrder[turn]

\* The rows of a file, in a state of the database.
RowsOf(f, contents) ==
  {<<e, contents[e]>> : e \in {x \in Entities :
     contents[x] # NoContent /\ (f = Combined \/ SourceOf[x] = f)}}

\* What a statement of the transaction sees.  (Broken: READ COMMITTED.)
Committed == hash
Visible == snapshot

-----------------------------------------------------------------------------

BeginExport ==
  /\ exporting \in {"idle", "done"} /\ ExportSpend("export")
  /\ exporting' = "count" /\ turn' = 1
  /\ copied' = NoRows /\ results' = NoCounts
  /\ UNCHANGED <<snapshot, files, manifest>>

\* SELECT count(*): the first one takes the snapshot.
CountRows ==
  /\ exporting = "count"
  /\ snapshot' = IF turn = 1 THEN hash ELSE snapshot
  /\ results' = [results EXCEPT
       ![Current] = Cardinality(RowsOf(Current, Visible'))]
  /\ exporting' = "copy"
  /\ UNCHANGED <<turn, copied, files, manifest, exportBudget>>

CopyRows ==
  /\ exporting = "copy"
  /\ copied' = [copied EXCEPT ![Current] = RowsOf(Current, Visible)]
  /\ IF turn < Len(FileOrder) THEN exporting' = "count" /\ turn' = turn + 1
     ELSE exporting' = "replace" /\ turn' = 1
  /\ UNCHANGED <<snapshot, results, files, manifest, exportBudget>>

\* _write_csv, behind the transaction.
ReplaceFile ==
  /\ exporting = "replace"
  /\ files' = [files EXCEPT ![Current] = copied[Current]]
  /\ IF turn < Len(FileOrder) THEN turn' = turn + 1 /\ UNCHANGED exporting
     ELSE exporting' = "manifest" /\ UNCHANGED turn
  /\ UNCHANGED <<snapshot, copied, results, manifest, exportBudget>>

WriteManifest ==
  /\ exporting = "manifest"
  /\ manifest' = results
  /\ exporting' = "done"
  /\ UNCHANGED <<turn, snapshot, copied, results, files, exportBudget>>

\* A statement, a copy or a replacement fails or the process is killed: the
\* files that are in place stay.
ExportFails ==
  /\ exporting \in {"count", "copy", "replace", "manifest"}
  /\ ExportSpend("fail")
  /\ exporting' = "idle"
  /\ UNCHANGED <<turn, snapshot, copied, results, files, manifest>>

ExportNext ==
  \/ BeginExport \/ CountRows \/ CopyRows \/ ReplaceFile \/ WriteManifest
  \/ ExportFails

\* Whatever the sessions commit to hash meanwhile.
ExportSpec == ExportInit(ExportBudget) /\ [][ExportNext]_exportVars

-----------------------------------------------------------------------------
\* Properties.

\* validate_export_directory finds no _split_mismatches.
SplitsMatch ==
  Cardinality(files[Combined]) =
    MapThenSumSet(LAMBDA s : Cardinality(files[s]), ExportSources)

\* "All files of one run are read from one REPEATABLE READ snapshot": when the
\* command has ended well the files say the same of every entity, whatever was
\* committed meanwhile, they pass the validation, and the manifest counts their
\* rows, also behind an export that failed half way.
ExportIsOneSnapshot ==
  exporting = "done" =>
    /\ files[Combined] = UNION {files[s] : s \in ExportSources}
    /\ SplitsMatch
    /\ \A f \in Files : manifest[f] = Cardinality(files[f])

=============================================================================
