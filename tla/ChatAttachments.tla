---------------------------- MODULE ChatAttachments ----------------------------
(***************************************************************************)
(* The life of a chat attachment: upload under the quotas of its           *)
(* conversation, ingestion into the knowledge store with compensation,     *)
(* binding to a message, deletion by itself or with its conversation       *)
(* (history/chat_attachment_service.py, chat_attachment_repository.py,     *)
(* chat_service.py, chat_repository.py); and the knowledge routes that see *)
(* its document: the catalogue's delete, which asks no chat, and the       *)
(* unscoped search that must leave chat documents out (knowledge/routes.py,*)
(* services/knowledge.py).                                                 *)
(*                                                                         *)
(* An upload, the row it writes and the document it ingests have one name. *)
(***************************************************************************)
EXTENDS KnowledgeDocuments

CONSTANTS
  Upload, Deletion,   \* requests
  Conversation,
  MaxAttachments, MaxBytes,
  Sizes,              \* sizes of the files tried (a bound)
  MaxMessages         \* messages with attachments in a conversation (a bound)

ASSUME ChatAssumption ==
  /\ Document = Upload /\ Actor = Upload \cup Deletion /\ Upload \cap Deletion = {}
  /\ MaxAttachments \in Nat \ {0} /\ MaxBytes \in Nat /\ Sizes \subseteq Nat
  /\ MaxMessages \in Nat /\ IsFiniteSet(Upload)

VARIABLES
  conversations,   \* the rows of chat_conversations
  row,             \* chat_attachments: the row of an upload
  messages,        \* the last message sequence number of a conversation
  phase,           \* where the request of an upload is
  home,            \* the conversation it names
  reply,           \* what it was answered
  deletion,        \* the deletion requests
  search           \* one unscoped search: what it excludes and has found

chat == <<conversations, row, messages>>
uploads == <<phase, home, reply>>
vars == <<store, chat, uploads, deletion, search>>

Status == {"pending", "indexed", "failed", "deleting"}
Absent == [status |-> "absent", document |-> FALSE, size |-> 0, message |-> 0]
Rows == [status : Status, document : BOOLEAN, size : Sizes, message : 0 .. MaxMessages]
Phases == {"idle", "reading", "ingesting", "compensating", "answered", "dead"}
Replies == {"none", "indexed", "refused", "failed", "unowned"}
\* What a deletion names, an attachment, a conversation or a document; and what it
\* has still to remove, nothing when it has been answered.
NoDeletion == [kind |-> "none", of |-> NoDocument, queue |-> <<>>]

\* Type correctness; the second conjunct is the CHECK constraint of the table
\* (database.py).
TypeOK ==
  /\ StoreTypeOK
  /\ \A u \in Upload : row[u].status \in {"indexed", "deleting"} => row[u].document
  /\ conversations \subseteq Conversation
  /\ row \in [Upload -> Rows \cup {Absent}]
  /\ messages \in [Conversation -> 0 .. MaxMessages]
  /\ phase \in [Upload -> Phases] /\ reply \in [Upload -> Replies]
  /\ home \in [Upload -> Conversation \cup {NoDocument}]
  /\ \A r \in Deletion :
       /\ deletion[r].kind \in {"none", "attachment", "conversation", "document"}
       /\ deletion[r].of \in Conversation \cup Upload \cup {NoDocument}
       /\ deletion[r].queue \in Seq(Upload)
  /\ search.stage \in {"idle", "asking", "done"}
  /\ search.answered \subseteq Upload /\ search.excluded \subseteq Upload
  /\ search.found \subseteq Upload

Init ==
  /\ StoreInit
  /\ conversations = Conversation
  /\ row = [u \in Upload |-> Absent]
  /\ messages = [c \in Conversation |-> 0]
  /\ phase = [u \in Upload |-> "idle"]
  /\ home = [u \in Upload |-> NoDocument]
  /\ reply = [u \in Upload |-> "none"]
  /\ deletion = [r \in Deletion |-> NoDeletion]
  /\ search = [stage |-> "idle", answered |-> {}, excluded |-> {}, found |-> {}]

Attached(c) == {u \in Upload : home[u] = c /\ row[u] # Absent}
DatabaseFails == "db" \in Faults

\* The size of some attachments: their bytes, counted.
Bytes(us) == UNION {{u} \X (1 .. row[u].size) : u \in us}
TotalSize(us) == Cardinality(Bytes(us))

-------------------------------------------------------------------------------
(* upload_attachment.                                                      *)

Answer(u, r) ==
  /\ reply' = [reply EXCEPT ![u] = r] /\ phase' = [phase EXCEPT ![u] = "answered"]
  /\ UNCHANGED home

\* The count is looked at before the file is read.
Request(u) ==
  /\ phase[u] = "idle"
  /\ \E c \in conversations :
       /\ home' = [home EXCEPT ![u] = c]
       /\ IF Cardinality(Attached(c)) >= MaxAttachments
          THEN /\ phase' = [phase EXCEPT ![u] = "answered"]
               /\ reply' = [reply EXCEPT ![u] = "refused"]
          ELSE phase' = [phase EXCEPT ![u] = "reading"] /\ UNCHANGED reply
  /\ UNCHANGED <<store, chat, deletion, search>>

\* create_pending looks again, in the transaction that inserts the row.
Inserted(status, size) == [status |-> status, document |-> FALSE, size |-> size, message |-> 0]
AdmittedByBytes(c, size) ==
  c \in conversations /\ TotalSize(Attached(c)) + size <= MaxBytes
Admitted(c, size) ==
  /\ c \in conversations
  /\ Cardinality(Attached(c)) < MaxAttachments
  /\ TotalSize(Attached(c)) + size <= MaxBytes

CreatePending(u) ==
  /\ phase[u] = "reading"
  /\ \E size \in Sizes :
       /\ Admitted(home[u], size)
       /\ \/ /\ Ingests(u)
             /\ row' = [row EXCEPT ![u] = Inserted("pending", size)]
             /\ phase' = [phase EXCEPT ![u] = "ingesting"] /\ UNCHANGED <<home, reply>>
          \/ /\ HasNoText(u)
             /\ \E status \in {"failed"} \cup IF DatabaseFails THEN {"pending"} ELSE {} :
                  row' = [row EXCEPT ![u] = Inserted(status, size)]
             /\ Answer(u, "failed")
          \/ /\ DatabaseFails   \* committed, but not to be read again
             /\ row' = [row EXCEPT ![u] = Inserted("pending", size)]
             /\ Answer(u, "failed") /\ UNCHANGED store
  /\ UNCHANGED <<conversations, messages, deletion, search>>

\* Invalid file, over a limit, the conversation is gone or the row not written.
Refuse(u) ==
  /\ phase[u] = "reading"
  /\ Answer(u, "refused")
  /\ UNCHANGED <<store, chat, deletion, search>>

\* mark_failed, mark_indexed and mark_cleanup_required change a pending row only.
Pending(u) == row[u].status = "pending"
MarkFailed(u) ==
  row' = IF Pending(u) THEN [row EXCEPT ![u].status = "failed"] ELSE row
MarkIndexed(u) ==
  row' = [row EXCEPT ![u].status = "indexed", ![u].document = TRUE]
MarkCleanupRequired(u) ==
  row' = IF Pending(u) THEN [row EXCEPT ![u].status = "deleting", ![u].document = TRUE] ELSE row

UploadFails(u) ==
  /\ phase[u] = "ingesting" /\ IngestFails(u)
  /\ MarkFailed(u) \/ (DatabaseFails /\ UNCHANGED row)
  /\ Answer(u, "failed")
  /\ UNCHANGED <<conversations, messages, deletion, search>>

\* The document is stored and the row takes it over; or it is removed again, because
\* the row was not pending any more, was not written, or was written and committed
\* and could not be read again.
Finalize(u) ==
  /\ phase[u] = "ingesting" /\ Pending(u) /\ Ingested(u)
  /\ MarkIndexed(u)
  /\ Answer(u, "indexed")
  /\ UNCHANGED <<conversations, messages, deletion, search>>

Compensate(u) ==
  /\ phase[u] = "ingesting" /\ ingest[u] = "upserted"
  /\ \/ ~Pending(u) /\ UNCHANGED row
     \/ Pending(u) /\ DatabaseFails /\ (UNCHANGED row \/ MarkIndexed(u))
  /\ ingest' = [ingest EXCEPT ![u] = "stored"]
  /\ removing' = Removes(u, u)
  /\ phase' = [phase EXCEPT ![u] = "compensating"]
  /\ UNCHANGED <<file, points, conversations, messages, home, reply, deletion, search>>

\* A document that could not be removed stays with its row, to be deleted later.  A
\* row that has been indexed all the same stays indexed, its document gone or not.
CleanedAnyway(u, how) == TRUE
Cleaned(u, how) == how # "failed"
Compensated(u) ==
  /\ phase[u] = "compensating"
  /\ \E how \in {"missing", "deleted", "failed"} :
       /\ RemovalEnds(u, how)
       /\ \/ /\ Cleaned(u, how)
             /\ MarkFailed(u) \/ (DatabaseFails /\ UNCHANGED row)
             /\ Answer(u, "failed")
          \/ /\ ~Cleaned(u, how)
             /\ MarkCleanupRequired(u)
             /\ Answer(u, IF Pending(u) THEN "failed" ELSE "unowned")
          \/ /\ ~Cleaned(u, how) /\ DatabaseFails
             /\ UNCHANGED row
             /\ Answer(u, "unowned")
  /\ removing' = [removing EXCEPT ![u] = NotRemoving]
  /\ UNCHANGED <<conversations, messages, deletion, search>>

-------------------------------------------------------------------------------
(* create_message binds attachments in its transaction.                    *)

Bindable(c, u) ==
  u \in Attached(c) /\ row[u].status = "indexed" /\ row[u].message = 0

CreateMessage ==
  /\ \E c \in conversations, us \in SUBSET Upload :
       /\ us # {} /\ \A u \in us : Bindable(c, u)
       /\ messages[c] < MaxMessages
       /\ messages' = [messages EXCEPT ![c] = @ + 1]
       /\ row' = [u \in Upload |->
                    IF u \in us THEN [row[u] EXCEPT !.message = messages[c] + 1] ELSE row[u]]
  /\ UNCHANGED <<store, conversations, uploads, deletion, search>>

-------------------------------------------------------------------------------
(* Deletion.                                                               *)

Becomes(r, kind, of, queue) ==
  deletion' = [deletion EXCEPT ![r] = [kind |-> kind, of |-> of, queue |-> queue]]
Ends(r) ==
  /\ deletion' = [deletion EXCEPT ![r].queue = <<>>]
  /\ removing' = [removing EXCEPT ![r] = NotRemoving]
Forgotten(us) == [u \in Upload |-> IF u \in us THEN Absent ELSE row[u]]

\* mark_deleting, for an indexed row or one that is being deleted already; it may
\* fail before its commit or, reading the row again, after it.
Deleting(d, rows) == row' = [rows EXCEPT ![d].status = "deleting"]
BeginDelete(r, d, rows) == Deleting(d, rows) /\ removing' = Removes(r, d)

\* delete_conversation_attachment and delete_attachment up to the knowledge store.
DeleteAttachment(r) ==
  /\ deletion[r].kind = "none"
  /\ \E u \in Upload :
       /\ row[u] # Absent /\ row[u].message = 0
       /\ \/ /\ row[u].document /\ BeginDelete(r, u, row)
             /\ Becomes(r, "attachment", u, <<u>>)
          \/ /\ ~row[u].document /\ row' = Forgotten({u}) /\ UNCHANGED removing
             /\ Becomes(r, "attachment", u, <<>>)
          \/ /\ DatabaseFails /\ (UNCHANGED row \/ (row[u].document /\ Deleting(u, row)))
             /\ UNCHANGED removing
             /\ Becomes(r, "attachment", u, <<>>)
  /\ UNCHANGED <<file, points, ingest, conversations, messages, uploads, search>>

\* The catalogue's delete: any document it lists or an attachment names, whatever
\* rows own it.
DeleteDocument(r) ==
  /\ deletion[r].kind = "none"
  /\ \E u \in Upload :
       /\ u \in points \/ row[u].document
       /\ Becomes(r, "document", u, <<u>>)
       /\ removing' = Removes(r, u)
  /\ UNCHANGED <<file, points, ingest, chat, uploads, search>>

\* The targets that are left of a conversation, or its row with all that refers to
\* it.  A target that is gone ends the request, as a write that fails does.
NextTarget(r, c, queue, rows) ==
  \/ /\ queue = <<>>
     /\ row' = [u \in Upload |-> IF home[u] = c THEN Absent ELSE rows[u]]
     /\ conversations' = conversations \ {c} /\ messages' = [messages EXCEPT ![c] = 0]
     /\ removing' = [removing EXCEPT ![r] = NotRemoving]
     /\ Becomes(r, "conversation", c, <<>>)
  \/ /\ queue # <<>> /\ rows[Head(queue)] # Absent
     /\ BeginDelete(r, Head(queue), rows)
     /\ Becomes(r, "conversation", c, queue)
     /\ UNCHANGED <<conversations, messages>>
  \/ /\ \/ row' = rows /\ (DatabaseFails \/ (queue # <<>> /\ rows[Head(queue)] = Absent))
        \/ DatabaseFails /\ queue # <<>> /\ rows[Head(queue)] # Absent /\ Deleting(Head(queue), rows)
     /\ removing' = [removing EXCEPT ![r] = NotRemoving]
     /\ Becomes(r, "conversation", c, <<>>)
     /\ UNCHANGED <<conversations, messages>>

\* list_cleanup_targets, the rows with a document.
DeleteConversation(r) ==
  /\ deletion[r].kind = "none"
  /\ \E c \in conversations :
       LET targets == {u \in Attached(c) : row[u].document} IN
       \E queue \in [1 .. Cardinality(targets) -> targets] :
         /\ targets = {queue[i] : i \in DOMAIN queue}
         /\ NextTarget(r, c, queue, row)
  /\ UNCHANGED <<file, points, ingest, uploads, search>>

\* The metadata goes when the document is gone, or was gone already.
Gone(how) == how # "failed"
Running(r) == deletion[r].queue # <<>>
Deleted(r) ==
  /\ Running(r) /\ deletion[r].kind # "document"
  /\ \E how \in {"missing", "deleted", "failed"} :
       /\ RemovalEnds(r, how)
       /\ LET rows == Forgotten({Head(deletion[r].queue)}) IN
          \/ /\ Gone(how) /\ deletion[r].kind = "conversation"
             /\ NextTarget(r, deletion[r].of, Tail(deletion[r].queue), rows)
          \/ /\ Gone(how) /\ deletion[r].kind = "attachment"
             /\ row' = rows /\ Ends(r) /\ UNCHANGED <<conversations, messages>>
          \/ ~Gone(how) /\ Ends(r) /\ UNCHANGED chat
  /\ UNCHANGED <<uploads, search>>

\* delete_metadata raises after the document was removed: the row stays.
MetadataStays(r) ==
  /\ Running(r) /\ deletion[r].kind # "document" /\ DatabaseFails
  /\ \E how \in {"missing", "deleted"} : RemovalEnds(r, how)
  /\ Ends(r)
  /\ UNCHANGED <<chat, uploads, search>>

\* The catalogue's delete is answered; no row hears of it.
DocumentDeleted(r) ==
  /\ Running(r) /\ deletion[r].kind = "document"
  /\ \E how \in {"missing", "deleted", "failed"} : RemovalEnds(r, how)
  /\ Ends(r)
  /\ UNCHANGED <<chat, uploads, search>>

-------------------------------------------------------------------------------
(* The unscoped search: the documents to leave out are read when the query *)
(* is embedded, the vector store answers later.  That it finds what is     *)
(* ingested in between is known; which uploads had been answered when it   *)
(* was asked is kept to say so.                                            *)

Owned == {u \in Upload : row[u].document}

SearchAsks ==
  /\ search.stage = "idle"
  /\ search' = [search EXCEPT !.stage = "asking", !.excluded = Owned,
                              !.answered = {u \in Upload : phase[u] = "answered"}]
  /\ UNCHANGED <<store, chat, uploads, deletion>>

SearchFinds ==
  /\ search.stage = "asking"
  /\ search' = [search EXCEPT !.stage = "done", !.found = points \ search.excluded,
                              !.excluded = {}]
  /\ UNCHANGED <<store, chat, uploads, deletion>>

Crash ==
  /\ "crash" \in Faults
  /\ StoreCrash
  /\ phase' = [u \in Upload |->
                 IF phase[u] \in {"idle", "answered"} THEN phase[u] ELSE "dead"]
  /\ deletion' = [r \in Deletion |-> [deletion[r] EXCEPT !.queue = <<>>]]
  /\ search' = [search EXCEPT !.stage = IF @ = "asking" THEN "idle" ELSE @,
                              !.excluded = {}, !.answered = {}]
  /\ UNCHANGED <<chat, home, reply>>

Store(step) == step /\ UNCHANGED <<chat, uploads, deletion, search>>

Uploads(u) ==
  \/ CreatePending(u) \/ Refuse(u) \/ Store(Embeds(u)) \/ Store(Upserts(u))
  \/ UploadFails(u) \/ Finalize(u) \/ Compensate(u) \/ Compensated(u)

Next ==
  \/ \E u \in Upload : Request(u) \/ Uploads(u)
  \/ \E a \in Actor : Store(Counts(a)) \/ Store(Erases(a))
  \/ \E r \in Deletion :
       \/ DeleteAttachment(r) \/ DeleteConversation(r) \/ Deleted(r) \/ MetadataStays(r)
       \/ DeleteDocument(r) \/ DocumentDeleted(r)
  \/ CreateMessage \/ SearchAsks \/ SearchFinds \/ Crash

Spec == Init /\ [][Next]_vars

-------------------------------------------------------------------------------
(* Properties.                                                             *)

\* However uploads overlap, a conversation never holds more attachments or bytes
\* than it may (chat_attachment_repository.py, create_pending).
QuotaHolds ==
  \A c \in Conversation :
    Cardinality(Attached(c)) <= MaxAttachments /\ TotalSize(Attached(c)) <= MaxBytes

Asked(kind, of) == \E r \in Deletion : deletion[r].kind = kind /\ deletion[r].of = of

\* An attachment whose upload was answered as indexed has its file and its points
\* for as long as its row is indexed, unless its document is deleted through the
\* catalogue; and a bound one stays indexed until its conversation is deleted
\* (chat_attachment_service.py, chat_repository.py).
EvidenceIsKept ==
  \A u \in Upload :
    /\ reply[u] = "indexed" /\ row[u].status = "indexed" /\ ~Asked("document", u)
         => u \in points /\ u \in file
    /\ row[u].message # 0 => row[u].status = "indexed" \/ Asked("conversation", home[u])

\* A stored document whose upload was answered has a row to delete it by, as long
\* as its conversation is there.  The one exception was answered with an error of
\* its own, "unowned": the compensation and the row both failed
\* (chat_attachment_service.py, delete_attachment and _compensate_after_indexing).
DocumentsHaveOwners ==
  \A u \in points :
    /\ phase[u] = "answered" /\ reply[u] # "unowned" /\ home[u] \in conversations
    /\ ingest[u] = "stored"
    => row[u].document

\* Knowledge is isolated from chat attachments: a search that names no document
\* never answers out of one whose upload had been answered before it was asked,
\* unless it is owned by nobody, as above (knowledge.py, search).
SearchLeavesChatsOut ==
  \A u \in search.found \cap search.answered :
    reply[u] = "unowned" \/ home[u] \notin conversations \/ ingest[u] # "stored"

\* Row, file and points of an attachment tell one story, whatever failed between
\* them, and all of it is of the right type.
AttachmentsAreWhole ==
  TypeOK /\ EvidenceIsKept /\ DocumentsHaveOwners /\ SearchLeavesChatsOut
==============================================================================
