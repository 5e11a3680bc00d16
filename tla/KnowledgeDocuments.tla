--------------------------- MODULE KnowledgeDocuments ---------------------------
(***************************************************************************)
(* The knowledge store: ingestion and removal of a document, which is a    *)
(* stored file and its points in the vector store                          *)
(* (knowledge/services/knowledge.py, vector_store.py, upload_validation.py,*)
(* embeddings.py).                                                         *)
(*                                                                         *)
(* Everything between two awaits is one step of the event loop; a call of  *)
(* the vector store takes effect in the store before it is answered.  The  *)
(* operators describe the steps of the two coroutines; their callers say   *)
(* what they do with the result in the same step.                          *)
(***************************************************************************)
EXTENDS Integers, Sequences, FiniteSets

CONSTANTS
  Document,
  Actor,      \* who may be removing a document
  NoDocument,
  Faults      \* what may go wrong

(* "api": a call of the embedding service or of the vector store fails     *)
(* without effect.  "lost": it has had its effect and fails.  "db": a      *)
(* write of the history database fails.  "crash": the process dies.        *)
ASSUME KnowledgeAssumption == Faults \subseteq {"api", "lost", "db", "crash"}

VARIABLES
  file,      \* the documents with a stored file
  points,    \* the documents with points in the vector store
  ingest,    \* where the ingestion of a document is
  removing   \* the document an actor is removing, and how far it is

store == <<file, points, ingest, removing>>
Ingesting == {"embedding", "upserting", "upserted"}
IngestStages == Ingesting \cup {"idle", "stored", "failed", "dead"}
NotRemoving == [document |-> NoDocument, stage |-> "none"]
Removals == {NotRemoving} \cup [document : Document, stage : {"counting", "erasing"}]

StoreTypeOK ==
  /\ file \subseteq Document /\ points \subseteq Document
  /\ ingest \in [Document -> IngestStages]
  /\ removing \in [Actor -> Removals]

StoreInit ==
  /\ file = {} /\ points = {}
  /\ ingest = [d \in Document |-> "idle"]
  /\ removing = [a \in Actor |-> NotRemoving]

-------------------------------------------------------------------------------
(* upload_prepared_document.                                               *)

\* The file is written and its text extracted; without text it is removed.
Ingests(d) ==
  /\ ingest' = [ingest EXCEPT ![d] = "embedding"] /\ file' = file \cup {d}
  /\ UNCHANGED <<points, removing>>
HasNoText(d) ==
  /\ ingest' = [ingest EXCEPT ![d] = "failed"]
  /\ UNCHANGED <<file, points, removing>>

Embeds(d) ==
  /\ ingest[d] = "embedding"
  /\ ingest' = [ingest EXCEPT ![d] = "upserting"]
  /\ UNCHANGED <<file, points, removing>>

\* The vector store has written the points ...
Upserts(d) ==
  /\ ingest[d] = "upserting"
  /\ points' = points \cup {d} /\ ingest' = [ingest EXCEPT ![d] = "upserted"]
  /\ UNCHANGED <<file, removing>>

\* ... and the answer arrives; somebody may have removed the points since.
Ingested(d) ==
  /\ ingest[d] = "upserted"
  /\ ingest' = [ingest EXCEPT ![d] = "stored"]
  /\ UNCHANGED <<file, points, removing>>

\* Any failure removes the file, never the points.
IngestFails(d) ==
  /\ ingest[d] \in Ingesting
  /\ "api" \in Faults /\ (ingest[d] = "upserted" => "lost" \in Faults)
  /\ ingest' = [ingest EXCEPT ![d] = "failed"] /\ file' = file \ {d}
  /\ UNCHANGED <<points, removing>>

-------------------------------------------------------------------------------
(* delete_document.                                                        *)

Removes(a, d) == [removing EXCEPT ![a] = [document |-> d, stage |-> "counting"]]

Counts(a) ==
  /\ removing[a].stage = "counting" /\ removing[a].document \in points
  /\ removing' = [removing EXCEPT ![a].stage = "erasing"]
  /\ UNCHANGED <<file, points, ingest>>

Erases(a) ==
  /\ removing[a].stage = "erasing"
  /\ points' = points \ {removing[a].document}
  /\ UNCHANGED <<file, ingest, removing>>

\* No points, "Document not found"; or the points are gone and the file goes; or
\* a call fails.  What the actor removes next is up to its caller.
RemovalEnds(a, how) ==
  LET d == removing[a].document IN
  /\ d # NoDocument
  /\ \/ how = "missing" /\ removing[a].stage = "counting" /\ d \notin points
        /\ UNCHANGED file
     \/ how = "deleted" /\ removing[a].stage = "erasing" /\ d \notin points
        /\ file' = file \ {d}
     \/ /\ how = "failed" /\ "api" \in Faults
        /\ removing[a].stage = "erasing" /\ d \notin points => "lost" \in Faults
        /\ UNCHANGED file
  /\ UNCHANGED <<points, ingest>>

StoreCrash ==
  /\ ingest' = [d \in Document |->
                  IF ingest[d] \in Ingesting THEN "dead" ELSE ingest[d]]
  /\ removing' = [a \in Actor |-> NotRemoving]
  /\ UNCHANGED <<file, points>>

==============================================================================
