------------------- MODULE MCBackgroundDiagnosticsWorker -------------------
(* Small instances of the worker: two documents, one indexed source file,   *)
(* jobs that cover every number of open documents and the cold gate.        *)
EXTENDS BackgroundDiagnosticsWorker

\* The request of a job over the documents D and the source files P; `cold'
\* asks for the skip of a large workspace without a fresh snapshot.
MCRequest(D, P, cold) ==
  [semantic_generation |-> 1,
   allow_cold_snapshot_build |-> ~cold,
   workspace_had_fresh_snapshot |-> FALSE,
   indexed_source_paths |-> P,
   open_documents |-> [d \in Document |-> IF d \in D THEN <<1, 1>> ELSE Closed]]

MCJobRequest ==
  {MCRequest(D, P, FALSE) : D \in SUBSET Document, P \in SUBSET Path}
    \cup {MCRequest(Document, Path, TRUE)}
============================================================================
