---------------------------- MODULE CorpusImport ----------------------------
(***************************************************************************)
(* apply_import: one transaction that turns a workbook into DRAFT          *)
(* questions of the catalog and a batch that remembers the import.  It     *)
(* holds an advisory lock on the workbook's identity, reads the catalog    *)
(* without locks, and its rows are visible to others only when it commits. *)
(***************************************************************************)
EXTENDS Catalog

CONSTANTS
  Importers,  \* processes of the import command
  Corpus      \* the questions of the workbook

ASSUME ImportAssumption == Corpus \subseteq Questions

VARIABLES
  importing,  \* per importer: its phase, the questions created and reused
  batches     \* LegacyImportBatch rows of the workbook

importVars == <<importing, batches>>

NoImport == [phase |-> "IDLE", created |-> {}, reused |-> {}]

Importing(i) == importing[i].phase = "RUNNING"

ImportInit == importing = [i \in Importers |-> NoImport] /\ batches = 0

\* Variant: stable_id is not unique, and nobody waits for an uncommitted row.
NeverWaits(q) == FALSE

\* The question was inserted by an importer that has not committed: whoever
\* inserts the same stable id waits for it.
Uncommitted(q) == \E i \in Importers : q \in importing[i].created

\* pg_advisory_xact_lock of the workbook's identity.
AdvisoryLockFree == \A j \in Importers : ~Importing(j)

\* reconcile_import finds no conflict.
Reconciled == \A q \in Corpus : Exists(q) => question[q].text = "WORKBOOK"

\* An import that finds a batch under the lock is a no-op.
BeginImport(i) ==
  /\ AdvisoryLockFree
  /\ batches = 0
  /\ Reconciled
  /\ importing' = [importing EXCEPT ![i].phase = "RUNNING"]
  /\ UNCHANGED <<catalogVars, batches>>

\* Looked up again by stable id, whatever became of it since the check.
ImportQuestion(i, q) ==
  /\ Importing(i)
  /\ q \in Corpus \ (importing[i].created \cup importing[i].reused)
  /\ ~Uncommitted(q)
  /\ importing' = IF Exists(q) THEN [importing EXCEPT ![i].reused = @ \cup {q}]
                  ELSE [importing EXCEPT ![i].created = @ \cup {q}]
  /\ UNCHANGED <<catalogVars, batches>>

\* The batch is unique per workbook and mapping.
CommitImport(i) ==
  /\ Importing(i)
  /\ batches = 0
  /\ importing[i].created \cup importing[i].reused = Corpus
  /\ question' = [q \in Items |-> IF q \in importing[i].created
                                  THEN FirstVersion("DRAFT", "WORKBOOK") ELSE question[q]]
  /\ importing' = [importing EXCEPT ![i] = NoImport]
  /\ batches' = batches + 1
  /\ UNCHANGED <<scenario, target, changes>>

\* The command dies, a constraint refuses a row, or the file was changed.
RollBackImport(i) ==
  /\ Importing(i)
  /\ importing' = [importing EXCEPT ![i] = NoImport]
  /\ UNCHANGED <<catalogVars, batches>>

ImportStep ==
  \E i \in Importers :
    \/ BeginImport(i) \/ CommitImport(i) \/ RollBackImport(i)
    \/ \E q \in Corpus : ImportQuestion(i, q)

-----------------------------------------------------------------------------

ImportTypes ==
  /\ importing \in [Importers -> [phase : {"IDLE", "RUNNING"},
                                  created : SUBSET Corpus, reused : SUBSET Corpus]]
  /\ batches \in Nat

\* What an import creates did not exist: it never overwrites a question that
\* somebody else made while it ran.
ImportKeepsQuestions ==
  [][batches' # batches =>
       \A q \in Items : Exists(q) => question'[q] = question[q]]_<<catalogVars, importVars>>

=============================================================================
