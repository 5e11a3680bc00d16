------------------------- MODULE ChatAttachmentsProofs -------------------------
(***************************************************************************)
(* What is proved of ChatAttachments, for any number of uploads and        *)
(* deletions and whatever goes wrong: the parts of an attachment tell one  *)
(* story, and conversations keep to their quotas.                          *)
(*                                                                         *)
(* The inductive invariant says, for each upload, which rows and documents *)
(* go with where its request is, and for each deletion, what it removes    *)
(* and what its queue may hold.  Most steps are of one actor: a step of an *)
(* upload leaves everything else alone (OwnStep), a step of a deletion     *)
(* does one of three things to a row (DeletionStep), a step inside the     *)
(* knowledge store only takes points away (StoreStep); and points and file *)
(* go only of a document nobody was promised, or that the catalogue was    *)
(* asked to delete (MayGo).  One lemma for each kind says what is left to  *)
(* show, and each action is brought under its kind.                        *)
(*                                                                         *)
(* At the end, the two pure algorithms of ChatContext for inputs of any    *)
(* length: no text is lost between its chunks, and a prompt is packed full *)
(* and within its budget.  Both are defined by recursion; what a recursive *)
(* function is, is first shown by building it, one value after another.    *)
(***************************************************************************)
EXTENDS ChatAttachments, ChatContext, FiniteSetTheorems, SequenceTheorems,
        WellFoundedInduction, TLAPS

-------------------------------------------------------------------------------
(* The inductive invariant.                                                *)

Deletions ==
  [kind : {"none", "attachment", "conversation", "document"},
   of : Conversation \cup Upload \cup {NoDocument}, queue : Seq(Upload)]
Searches ==
  [stage : {"idle", "asking", "done"}, answered : SUBSET Upload,
   excluded : SUBSET Upload, found : SUBSET Upload]

TheRows == [Upload -> Rows \cup {Absent}]

\* The functions and records TypeOK looks into are functions and records.
Shapes ==
  /\ StoreTypeOK /\ conversations \subseteq Conversation
  /\ row \in TheRows
  /\ messages \in [Conversation -> 0 .. MaxMessages]
  /\ phase \in [Upload -> Phases] /\ reply \in [Upload -> Replies]
  /\ home \in [Upload -> Conversation \cup {NoDocument}]
  /\ deletion \in [Deletion -> Deletions] /\ search \in Searches

AtWork(a) == removing[a].stage # "none"
\* Before the knowledge store has answered an upload.
Early(u) == phase[u] \in {"idle", "reading", "ingesting"}

\* Where the request of an upload is says what its row and its document may be.
UploadFits(u) ==
  /\ phase[u] \in {"idle", "reading"} => row[u] = Absent /\ ingest[u] = "idle"
  /\ phase[u] = "ingesting" =>
       /\ ingest[u] \in Ingesting /\ row[u].status \in {"pending", "absent"}
       /\ u \in file \/ Asked("document", u)
       /\ ingest[u] = "upserted" => u \in points \/ Asked("document", u)
  /\ ingest[u] \in Ingesting => phase[u] = "ingesting"
  /\ phase[u] = "compensating" =>
       ingest[u] = "stored" /\ AtWork(u) /\ removing[u].document = u
  /\ AtWork(u) => phase[u] = "compensating"
  /\ reply[u] # "none" => phase[u] = "answered"
  /\ row[u].document => ~Early(u)
  /\ row[u].document <=> row[u].status \in {"indexed", "deleting"}

\* What may be in the queue of a deletion: the document it names; or what is gone or
\* still has its document, and is of the conversation it names.
Target(r, q) ==
  IF deletion[r].kind = "document" THEN q = deletion[r].of
  ELSE /\ ~Early(q) /\ (row[q].document \/ row[q] = Absent)
       /\ deletion[r].kind = "conversation" => home[q] = deletion[r].of

\* A deletion removes the head of its queue.
DeletionFits(r) ==
  /\ Running(r) =>
       /\ AtWork(r) /\ deletion[r].kind # "none"
       /\ removing[r].document = Head(deletion[r].queue)
       /\ deletion[r].kind = "conversation" => deletion[r].of \in Conversation
  /\ AtWork(r) =>
       /\ Running(r)
       /\ deletion[r].kind # "document" => row[removing[r].document].status \in {"deleting", "absent"}
  /\ \A i \in DOMAIN deletion[r].queue : Target(r, deletion[r].queue[i])

Excused(u) == reply[u] = "unowned" \/ home[u] \notin conversations \/ ingest[u] # "stored"

\* What a search that is waiting leaves out still covers the uploads that had been
\* answered when it was asked.
SearchFits ==
  /\ search.stage # "done" => search.found = {}
  /\ \A u \in search.answered :
       /\ phase[u] = "answered"
       /\ search.stage = "asking" => u \notin points \/ u \in search.excluded \/ Excused(u)

IInv ==
  /\ Shapes
  /\ \A u \in Upload : UploadFits(u)
  /\ \A r \in Deletion : DeletionFits(r)
  /\ SearchFits
  /\ EvidenceIsKept /\ DocumentsHaveOwners /\ SearchLeavesChatsOut

\* The assumptions in the form the proofs use them.
LEMMA WhoIsWho ==
  /\ Document = Upload /\ Actor = Upload \cup Deletion
  /\ \A u \in Upload : u \in Actor /\ u \notin Deletion
  /\ \A r \in Deletion : r \in Actor /\ r \notin Upload
  /\ MaxAttachments \in Nat /\ MaxBytes \in Nat /\ MaxMessages \in Nat
  /\ Sizes \subseteq Nat /\ IsFiniteSet(Upload)
BY ChatAssumption DEF ChatAssumption

\* The variables of a typed state, one fact each.
LEMMA Typed ==
  ASSUME Shapes
  PROVE  /\ file \subseteq Upload /\ points \subseteq Upload
         /\ ingest \in [Upload -> IngestStages]
         /\ removing \in [Upload \cup Deletion -> Removals]
         /\ row \in TheRows
BY WhoIsWho DEF Shapes, StoreTypeOK

-------------------------------------------------------------------------------
(* A step of an upload leaves the others alone.                            *)

Untouched(v) ==
  /\ phase'[v] = phase[v] /\ home'[v] = home[v] /\ reply'[v] = reply[v]
  /\ row'[v] = row[v] /\ ingest'[v] = ingest[v] /\ removing'[v] = removing[v]
  /\ (v \in points' <=> v \in points) /\ (v \in file' <=> v \in file)

\* Nothing but the upload itself changes, and it had not been answered; while it is
\* compensated its row is not touched if that is indexed, being deleted or gone.
OwnStep(u) ==
  /\ phase[u] # "answered"
  /\ \/ Early(u)
     \/ /\ ~Early(u)' /\ home'[u] = home[u]
        /\ row[u].document \/ row[u] = Absent => row'[u] = row[u]
  /\ \A v \in Upload \ {u} : Untouched(v)
  /\ \A r \in Deletion : removing'[r] = removing[r]
  /\ UNCHANGED <<conversations, messages, deletion, search>>

\* What an own step has to establish of its upload.
Sound(u) ==
  /\ UploadFits(u)
  /\ reply[u] = "indexed" /\ row[u].status = "indexed" /\ ~Asked("document", u)
       => u \in points /\ u \in file
  /\ row[u].message = 0 \/ row[u].status = "indexed" \/ Asked("conversation", home[u])
  /\ u \in points /\ phase[u] = "answered" /\ reply[u] # "unowned"
       /\ home[u] \in conversations /\ ingest[u] = "stored" => row[u].document

\* The invariant, one upload and one deletion at a time.
LEMMA InvariantByParts ==
  IInv <=> /\ Shapes /\ SearchFits /\ SearchLeavesChatsOut
           /\ \A u \in Upload : Sound(u)
           /\ \A r \in Deletion : DeletionFits(r)
BY WhoIsWho DEF IInv, Sound, EvidenceIsKept, DocumentsHaveOwners, Shapes, StoreTypeOK

LEMMA InvariantByPartsNext ==
  IInv' <=> /\ Shapes' /\ SearchFits' /\ SearchLeavesChatsOut'
            /\ \A u \in Upload : Sound(u)'
            /\ \A r \in Deletion : DeletionFits(r)'
BY WhoIsWho DEF IInv, Sound, EvidenceIsKept, DocumentsHaveOwners, Shapes, StoreTypeOK

\* What a deletion removes is the head of its queue, and all of that are uploads.
LEMMA QueueOfUploads ==
  ASSUME IInv, NEW r \in Deletion
  PROVE  /\ \A i \in DOMAIN deletion[r].queue :
              deletion[r].queue[i] \in Upload /\ Target(r, deletion[r].queue[i])
         /\ AtWork(r) => removing[r].document \in Upload /\ Target(r, removing[r].document)
<1> DEFINE q == deletion[r].queue
<1>1. q \in Seq(Upload)
  BY DEF IInv, Shapes, Deletions
<1>2. \A i \in DOMAIN q : q[i] \in Upload
  BY <1>1, ElementOfSeq
<1>3. \A i \in DOMAIN q : Target(r, q[i])
  BY DEF IInv, DeletionFits
<1>4. ASSUME AtWork(r) PROVE 1 \in DOMAIN q /\ removing[r].document = q[1]
  BY <1>1, <1>4, HeadTailProperties DEF IInv, DeletionFits, Running
<1> QED BY <1>2, <1>3, <1>4

\* An own step does not disturb what a deletion relies on.
LEMMA TargetsStay ==
  ASSUME NEW u \in Upload, OwnStep(u), NEW r \in Deletion, NEW q \in Upload, Target(r, q)
  PROVE  Target(r, q)' /\ (deletion[r].kind # "document" => row'[q] = row[q])
<1>1. deletion' = deletion
  BY DEF OwnStep
<1>2. CASE deletion[r].kind = "document"
  BY <1>1, <1>2 DEF Target
<1>3. CASE deletion[r].kind # "document"
  <2>1. ~Early(q) /\ (row[q].document \/ row[q] = Absent)
        /\ (deletion[r].kind = "conversation" => home[q] = deletion[r].of)
    BY <1>3 DEF Target
  <2>2. ~Early(q)' /\ home'[q] = home[q] /\ row'[q] = row[q]
    <3>1. CASE q = u
      BY <2>1, <3>1 DEF OwnStep
    <3>2. CASE q # u
      BY <2>1, <3>2 DEF OwnStep, Untouched, Early
    <3> QED BY <3>1, <3>2
  <2> QED BY <1>1, <1>3, <2>1, <2>2 DEF Target
<1> QED BY <1>2, <1>3

\* So an own step disturbs no deletion, no search and no other upload.
LEMMA OwnStepKeeps ==
  ASSUME IInv, NEW u \in Upload, OwnStep(u), Shapes', Sound(u)' PROVE IInv'
<1>1. ASSUME NEW v \in Upload, v # u PROVE Sound(v)'
  <2>1. Sound(v) /\ Untouched(v) /\ UNCHANGED <<conversations, deletion>>
    BY <1>1, InvariantByParts DEF OwnStep
  <2> QED BY <2>1 DEF Sound, UploadFits, Untouched, AtWork, Early, Asked
<1>2. ASSUME NEW r \in Deletion PROVE DeletionFits(r)'
  <2>1. DeletionFits(r) /\ removing'[r] = removing[r] /\ deletion' = deletion
    BY <1>2 DEF IInv, OwnStep
  <2>2. \A i \in DOMAIN deletion[r].queue : Target(r, deletion[r].queue[i])'
    BY <2>1, QueueOfUploads, TargetsStay
  <2>3. AtWork(r) /\ deletion[r].kind # "document" =>
          row'[removing[r].document] = row[removing[r].document]
    BY QueueOfUploads, TargetsStay
  <2> QED BY <2>1, <2>2, <2>3 DEF DeletionFits, AtWork, Running
<1>3. SearchFits' /\ SearchLeavesChatsOut'
  <2>1. search' = search /\ conversations' = conversations /\ search.answered \subseteq Upload
    BY DEF OwnStep, IInv, Shapes, Searches
  <2>2. \A v \in search.answered : phase[v] = "answered" /\ Untouched(v)
    BY <2>1 DEF OwnStep, IInv, SearchFits
  <2>3. SearchFits /\ SearchLeavesChatsOut
    BY DEF IInv
  <2> QED BY <2>1, <2>2, <2>3 DEF SearchFits, SearchLeavesChatsOut, Untouched, Excused
<1> QED BY <1>1, <1>2, <1>3, InvariantByPartsNext

-------------------------------------------------------------------------------
(* What is written to a row.                                               *)

LEMMA AbsentRow ==
  /\ Absent.status = "absent" /\ Absent.document = FALSE /\ Absent.message = 0
  /\ \A x \in Rows : x.status \in Status /\ x.document \in BOOLEAN /\ x.size \in Sizes
                     /\ x.message \in 0 .. MaxMessages /\ x # Absent
BY DEF Absent, Rows, Status

\* The fields of a row after create_pending.
LEMMA NewRow ==
  ASSUME row \in TheRows, NEW u \in Upload, NEW size \in Sizes, NEW s \in {"pending", "failed"},
         row' = [row EXCEPT ![u] = Inserted(s, size)]
  PROVE  /\ row' \in TheRows
         /\ row'[u].status = s /\ row'[u].document = FALSE
         /\ row'[u].message = 0 /\ row'[u].size = size
<1>1. Inserted(s, size) \in Rows
  BY WhoIsWho DEF Rows, Status, Inserted
<1>2. row'[u] = Inserted(s, size)
  BY DEF TheRows
<1> QED BY <1>1, <1>2 DEF TheRows, Inserted

LEMMA MarkedFailed ==
  ASSUME row \in TheRows, NEW u \in Upload, MarkFailed(u) \/ UNCHANGED row
  PROVE  /\ row' \in TheRows
         /\ row'[u].document = row[u].document /\ row'[u].message = row[u].message
         /\ row'[u].size = row[u].size
         /\ row'[u].status = row[u].status \/ (row[u].status = "pending" /\ row'[u].status = "failed")
<1>1. CASE row' = row
  <2>1. row'[u] = row[u] /\ row' \in TheRows
    BY <1>1
  <2>2. row'[u].document = row[u].document
    BY <2>1
  <2>3. row'[u].message = row[u].message /\ row'[u].size = row[u].size
    BY <2>1
  <2>4. row'[u].status = row[u].status
    BY <2>1
  <2> QED BY <2>1, <2>2, <2>3, <2>4
<1>2. CASE MarkFailed(u) /\ Pending(u)
  <2>1. row[u] # Absent /\ row[u] \in Rows
    BY <1>2, AbsentRow DEF Pending, TheRows
  <2>2. row'[u] = [row[u] EXCEPT !.status = "failed"]
    BY <1>2 DEF MarkFailed, TheRows
  <2>3. row'[u] \in Rows
    BY <2>1, <2>2 DEF Rows, Status
  <2>4. row' = [row EXCEPT ![u] = row'[u]]
    BY <1>2, <2>2 DEF MarkFailed, TheRows
  <2>5. row' \in TheRows
    BY <2>3, <2>4 DEF TheRows
  <2> QED BY <1>2, <2>1, <2>2, <2>5 DEF Pending, Rows
<1> QED BY <1>1, <1>2 DEF MarkFailed

LEMMA MarkedIndexed ==
  ASSUME row \in TheRows, NEW u \in Upload, Pending(u), MarkIndexed(u)
  PROVE  /\ row' \in TheRows
         /\ row'[u].status = "indexed" /\ row'[u].document = TRUE
         /\ row'[u].message = row[u].message /\ row'[u].size = row[u].size
<1>1. row[u] # Absent /\ row[u] \in Rows
  BY AbsentRow DEF Pending, TheRows
<1>2. row'[u] = [row[u] EXCEPT !.status = "indexed", !.document = TRUE]
  BY DEF MarkIndexed, TheRows
<1>3. row'[u] \in Rows
  BY <1>1, <1>2 DEF Rows, Status
<1>4. row' = [row EXCEPT ![u] = row'[u]]
  BY <1>2 DEF MarkIndexed, TheRows
<1>5. row' \in TheRows
  BY <1>3, <1>4 DEF TheRows
<1> QED BY <1>1, <1>2, <1>5 DEF Rows

LEMMA MarkedForCleanup ==
  ASSUME row \in TheRows, NEW u \in Upload, MarkCleanupRequired(u)
  PROVE  /\ row' \in TheRows
         /\ row'[u].message = row[u].message /\ row'[u].size = row[u].size
         /\ Pending(u) => row'[u].status = "deleting" /\ row'[u].document = TRUE
         /\ ~Pending(u) => row' = row
<1>1. CASE Pending(u)
  <2>1. row[u] # Absent /\ row[u] \in Rows
    BY <1>1, AbsentRow DEF Pending, TheRows
  <2>2. row'[u] = [row[u] EXCEPT !.status = "deleting", !.document = TRUE]
    BY <1>1 DEF MarkCleanupRequired, TheRows
  <2>3. row'[u] \in Rows
    BY <2>1, <2>2 DEF Rows, Status
  <2>4. row' = [row EXCEPT ![u] = row'[u]]
    BY <1>1, <2>2 DEF MarkCleanupRequired, TheRows
  <2>5. row' \in TheRows
    BY <2>3, <2>4 DEF TheRows
  <2> QED BY <1>1, <2>1, <2>2, <2>5 DEF Rows
<1> QED BY <1>1 DEF MarkCleanupRequired

-------------------------------------------------------------------------------
(* The steps of an upload.                                                 *)

LEMMA RequestKeeps ==
  ASSUME IInv, NEW u \in Upload, Request(u) PROVE IInv'
<1> USE WhoIsWho
<1>1. Shapes /\ UploadFits(u) /\ Sound(u)
  BY InvariantByParts DEF IInv
<1>2. OwnStep(u)
  BY <1>1 DEF Shapes, Request, store, chat, OwnStep, Untouched, Early
<1>3. Shapes'
  BY <1>1 DEF Shapes, Request, store, chat, StoreTypeOK, Phases, Replies
<1>4. Sound(u)'
  <2>1. /\ row'[u] = Absent /\ ingest'[u] = "idle" /\ reply'[u] \in {"none", "refused"}
        /\ (phase'[u] = "reading" /\ reply'[u] = "none") \/ phase'[u] = "answered"
        /\ ~AtWork(u)'
    BY <1>1 DEF Shapes, Request, store, chat, UploadFits, AtWork
  <2>2. UploadFits(u)'
    BY <2>1, AbsentRow DEF UploadFits, Early, Ingesting
  <2> QED BY <2>1, <2>2, AbsentRow DEF Sound
<1> QED BY <1>2, <1>3, <1>4, OwnStepKeeps

LEMMA CreatePendingKeeps ==
  ASSUME IInv, NEW u \in Upload, CreatePending(u) PROVE IInv'
<1> USE WhoIsWho
<1>1. Shapes /\ UploadFits(u) /\ Sound(u)
  BY InvariantByParts DEF IInv
<1>2. PICK size \in Sizes, status \in {"pending", "failed"} :
        /\ row' = [row EXCEPT ![u] = Inserted(status, size)]
        /\ \/ Ingests(u) /\ status = "pending"
              /\ phase' = [phase EXCEPT ![u] = "ingesting"] /\ UNCHANGED <<home, reply>>
           \/ HasNoText(u) /\ Answer(u, "failed")
           \/ UNCHANGED store /\ Answer(u, "failed")
  BY DEF CreatePending
<1>3. UNCHANGED <<conversations, messages, deletion, search>> /\ phase[u] = "reading"
  BY DEF CreatePending
<1>4. OwnStep(u)
  BY <1>1, <1>2, <1>3, Typed DEF Shapes, TheRows, Answer, Ingests, HasNoText, store, OwnStep, Untouched, Early
<1>5. /\ row' \in TheRows /\ row'[u].status = status
      /\ row'[u].document = FALSE /\ row'[u].message = 0
  BY <1>1, <1>2, NewRow DEF Shapes
<1>6. Shapes'
  BY <1>1, <1>2, <1>3, <1>5, Typed DEF Shapes, Answer, Ingests, HasNoText, store, StoreTypeOK, Phases, Replies,
     IngestStages, Ingesting
<1>7. Sound(u)'
  BY <1>1, <1>2, <1>3, <1>5, Typed DEF Shapes, Answer, Ingests, HasNoText, store, Sound, UploadFits, AtWork, Early,
     Asked, Ingesting
<1> QED BY <1>4, <1>6, <1>7, OwnStepKeeps

LEMMA RefuseKeeps ==
  ASSUME IInv, NEW u \in Upload, Refuse(u) PROVE IInv'
<1> USE WhoIsWho
<1>1. Shapes /\ UploadFits(u) /\ Sound(u)
  BY InvariantByParts DEF IInv
<1>2. OwnStep(u)
  BY <1>1, Typed DEF Shapes, Refuse, Answer, store, chat, OwnStep, Untouched, Early
<1>3. Shapes'
  BY <1>1, Typed DEF Shapes, Refuse, Answer, store, chat, StoreTypeOK, Phases, Replies
<1>4. Sound(u)'
  BY <1>1, Typed DEF Shapes, Refuse, Answer, store, chat, Sound, UploadFits, AtWork, Early, Asked, Ingesting
<1> QED BY <1>2, <1>3, <1>4, OwnStepKeeps

LEMMA EmbedsKeeps ==
  ASSUME IInv, NEW u \in Upload, Store(Embeds(u)) PROVE IInv'
<1> USE WhoIsWho
<1>1. Shapes /\ UploadFits(u) /\ Sound(u)
  BY InvariantByParts DEF IInv
<1>2. OwnStep(u)
  BY <1>1, Typed DEF Shapes, Store, Embeds, chat, uploads, OwnStep, Untouched, UploadFits, Early, Ingesting
<1>3. Shapes'
  BY <1>1, Typed DEF Shapes, Store, Embeds, chat, uploads, StoreTypeOK, IngestStages, Ingesting
<1>4. Sound(u)'
  BY <1>1, Typed DEF Shapes, Store, Embeds, chat, uploads, Sound, UploadFits, AtWork, Early, Asked, Ingesting
<1> QED BY <1>2, <1>3, <1>4, OwnStepKeeps

LEMMA UpsertsKeeps ==
  ASSUME IInv, NEW u \in Upload, Store(Upserts(u)) PROVE IInv'
<1> USE WhoIsWho
<1>1. Shapes /\ UploadFits(u) /\ Sound(u)
  BY InvariantByParts DEF IInv
<1>2. OwnStep(u)
  BY <1>1, Typed DEF Shapes, Store, Upserts, chat, uploads, OwnStep, Untouched, UploadFits, Early, Ingesting
<1>3. Shapes'
  BY <1>1, Typed DEF Shapes, Store, Upserts, chat, uploads, StoreTypeOK, IngestStages, Ingesting
<1>4. Sound(u)'
  BY <1>1, Typed DEF Shapes, Store, Upserts, chat, uploads, Sound, UploadFits, AtWork, Early, Asked, Ingesting
<1> QED BY <1>2, <1>3, <1>4, OwnStepKeeps

LEMMA UploadFailsKeeps ==
  ASSUME IInv, NEW u \in Upload, UploadFails(u) PROVE IInv'
<1> USE WhoIsWho
<1>1. Shapes /\ UploadFits(u) /\ Sound(u)
  BY InvariantByParts DEF IInv
<1>2. OwnStep(u)
  BY <1>1, Typed DEF Shapes, TheRows, UploadFails, MarkFailed, IngestFails, Answer, OwnStep, Untouched, Early
<1>3. /\ row' \in TheRows
      /\ row'[u].document = row[u].document /\ row'[u].message = row[u].message
      /\ row'[u].status = row[u].status \/ (row[u].status = "pending" /\ row'[u].status = "failed")
  BY <1>1, MarkedFailed DEF Shapes, UploadFails
<1>4. Shapes'
  BY <1>1, <1>3, Typed DEF Shapes, UploadFails, IngestFails, Answer, StoreTypeOK, Phases, Replies, IngestStages, Ingesting
<1>5. Sound(u)'
  BY <1>1, <1>3, Typed DEF Shapes, UploadFails, IngestFails, Answer, Sound, UploadFits, AtWork, Early, Asked, Ingesting
<1> QED BY <1>2, <1>4, <1>5, OwnStepKeeps

LEMMA FinalizeKeeps ==
  ASSUME IInv, NEW u \in Upload, Finalize(u) PROVE IInv'
<1> USE WhoIsWho
<1>1. Shapes /\ UploadFits(u) /\ Sound(u)
  BY InvariantByParts DEF IInv
<1>2. OwnStep(u)
  BY <1>1, Typed DEF Shapes, TheRows, Finalize, MarkIndexed, Ingested, Answer, OwnStep, Untouched, Early
<1>3. /\ row' \in TheRows /\ row'[u].status = "indexed"
      /\ row'[u].document = TRUE /\ row'[u].message = row[u].message
  BY <1>1, MarkedIndexed DEF Shapes, Finalize
<1>4. Shapes'
  BY <1>1, <1>3, Typed DEF Shapes, Finalize, Ingested, Answer, StoreTypeOK, Phases, Replies, IngestStages, Ingesting
<1>5. Sound(u)'
  BY <1>1, <1>3, Typed DEF Shapes, Finalize, Ingested, Answer, Sound, UploadFits, AtWork, Early, Asked, Ingesting
<1> QED BY <1>2, <1>4, <1>5, OwnStepKeeps

LEMMA CompensateKeeps ==
  ASSUME IInv, NEW u \in Upload, Compensate(u) PROVE IInv'
<1> USE WhoIsWho
<1>1. Shapes /\ UploadFits(u) /\ Sound(u)
  BY InvariantByParts DEF IInv
<1>2. /\ phase[u] = "ingesting" /\ row[u].document = FALSE
      /\ UNCHANGED row \/ (Pending(u) /\ MarkIndexed(u))
  BY <1>1 DEF Compensate, UploadFits, Shapes, TheRows, Rows, Absent
<1>3. OwnStep(u)
  BY <1>1, <1>2, Typed DEF Shapes, TheRows, Compensate, Removes, MarkIndexed, OwnStep, Untouched, Early
<1>4. /\ row' \in TheRows /\ row'[u].message = row[u].message
      /\ row'[u].document <=> row'[u].status = "indexed"
      /\ row'[u].status \in {"pending", "absent", "indexed"}
      /\ row'[u].status = "indexed" \/ row' = row
  <2>1. CASE UNCHANGED row
    BY <1>1, <1>2, <2>1 DEF Shapes, UploadFits
  <2>2. CASE Pending(u) /\ MarkIndexed(u)
    BY <1>1, <2>2, MarkedIndexed DEF Shapes
  <2> QED BY <1>2, <2>1, <2>2
<1>5. /\ ingest' = [ingest EXCEPT ![u] = "stored"] /\ removing' = Removes(u, u)
      /\ phase' = [phase EXCEPT ![u] = "compensating"]
      /\ UNCHANGED <<file, points, conversations, messages, home, reply, deletion, search>>
  BY DEF Compensate
<1>6. Shapes'
  BY <1>1, <1>4, <1>5, Typed DEF Shapes, Removes, StoreTypeOK, Phases, IngestStages, Removals
<1>7. Sound(u)'
  <2>1. phase'[u] = "compensating" /\ ingest'[u] = "stored"
    BY <1>1, <1>5, Typed DEF Shapes
  <2>2. AtWork(u)' /\ removing'[u].document = u
    BY <1>1, <1>5, Typed DEF Removes, AtWork
  <2>3. reply'[u] = "none"
    BY <1>1, <1>2, <1>5 DEF UploadFits
  <2>4. row'[u].message = 0 \/ row'[u].status = "indexed" \/ Asked("conversation", home[u])'
    BY <1>1, <1>4, <1>5 DEF Sound, Asked
  <2>5. UploadFits(u)'
    BY <1>4, <2>1, <2>2, <2>3 DEF UploadFits, Early, Ingesting
  <2> QED BY <2>1, <2>3, <2>4, <2>5 DEF Sound
<1> QED BY <1>3, <1>6, <1>7, OwnStepKeeps

\* A removal that is not said to have failed has left no points.
LEMMA CompensatedKeeps ==
  ASSUME IInv, NEW u \in Upload, Compensated(u) PROVE IInv'
<1> USE WhoIsWho
<1>1. Shapes /\ UploadFits(u) /\ Sound(u)
  BY InvariantByParts DEF IInv
<1>3. PICK how \in {"missing", "deleted", "failed"} :
        /\ RemovalEnds(u, how)
        /\ \/ /\ Cleaned(u, how) /\ (MarkFailed(u) \/ UNCHANGED row)
              /\ Answer(u, "failed")
           \/ /\ ~Cleaned(u, how) /\ MarkCleanupRequired(u)
              /\ Answer(u, IF Pending(u) THEN "failed" ELSE "unowned")
           \/ /\ ~Cleaned(u, how) /\ UNCHANGED row
              /\ Answer(u, "unowned")
  BY DEF Compensated
<1>2. /\ phase[u] = "compensating" /\ AtWork(u) /\ ingest[u] = "stored"
      /\ removing' = [removing EXCEPT ![u] = NotRemoving]
      /\ UNCHANGED <<conversations, messages, deletion, search>>
  BY <1>1 DEF Compensated, UploadFits
<1>4. /\ row' \in TheRows /\ row'[u].message = row[u].message
      /\ row[u].document \/ row[u] = Absent => row'[u] = row[u]
      /\ \A v \in Upload \ {u} : row'[v] = row[v]
      /\ \/ /\ Cleaned(u, how) /\ row'[u].document = row[u].document
            /\ row'[u].status = row[u].status \/ (row[u].status = "pending" /\ row'[u].status = "failed")
            /\ Answer(u, "failed")
         \/ /\ row'[u].document = TRUE /\ row'[u].status = "deleting" /\ row[u].status = "pending"
            /\ Answer(u, "failed")
         \/ row' = row /\ Answer(u, "unowned")
  <2>1. CASE /\ Cleaned(u, how) /\ (MarkFailed(u) \/ UNCHANGED row)
             /\ Answer(u, "failed")
    <3>1. \A v \in Upload \ {u} : row'[v] = row[v]
      BY <1>1, <2>1 DEF MarkFailed, Shapes, TheRows
    <3>2. row[u].document \/ row[u] = Absent => row'[u] = row[u]
      BY <1>1, <2>1, AbsentRow DEF MarkFailed, Pending, UploadFits
    <3> QED BY <1>1, <2>1, <3>1, <3>2, MarkedFailed DEF Shapes
  <2>2. CASE /\ ~Cleaned(u, how) /\ MarkCleanupRequired(u)
             /\ Answer(u, IF Pending(u) THEN "failed" ELSE "unowned")
    <3>1. \A v \in Upload \ {u} : row'[v] = row[v]
      BY <1>1, <2>2 DEF MarkCleanupRequired, Shapes, TheRows
    <3>2. row[u].document \/ row[u] = Absent => row'[u] = row[u]
      BY <1>1, <2>2, AbsentRow DEF MarkCleanupRequired, Pending, UploadFits
    <3> QED BY <1>1, <2>2, <3>1, <3>2, MarkedForCleanup DEF Shapes, Pending
  <2>3. CASE ~Cleaned(u, how) /\ UNCHANGED row /\ Answer(u, "unowned")
    BY <1>1, <2>3 DEF Shapes
  <2> QED BY <1>3, <2>1, <2>2, <2>3
<1>5. /\ Cleaned(u, how) => u \notin points
      /\ UNCHANGED <<points, ingest>> /\ file' \subseteq file /\ file \ {u} \subseteq file'
  BY <1>1, <1>2, <1>3 DEF RemovalEnds, Cleaned, UploadFits
<1>6. \E x \in {"failed", "unowned"} : Answer(u, x)
  BY <1>4
<1>7. OwnStep(u)
  BY <1>1, <1>2, <1>4, <1>5, <1>6, Typed DEF Shapes, Answer, OwnStep, Untouched, Early
<1>8. Shapes'
  BY <1>1, <1>2, <1>4, <1>5, <1>6, Typed DEF Shapes, Answer, StoreTypeOK, Phases, Replies, Removals
<1>9. Sound(u)'
  <2>1. phase'[u] = "answered" /\ ingest'[u] = "stored" /\ ~AtWork(u)'
    BY <1>1, <1>2, <1>5, <1>6, Typed DEF Shapes, Answer, AtWork, NotRemoving
  <2>2. row'[u].document <=> row'[u].status \in {"indexed", "deleting"}
    BY <1>1, <1>4 DEF UploadFits
  <2>3. UploadFits(u)'
    BY <2>1, <2>2 DEF UploadFits, Early, Ingesting
  <2>4. u \in points' => reply'[u] = "unowned" \/ row'[u].document
    BY <1>1, <1>4, <1>5 DEF Answer, Shapes
  <2>5. row'[u].message = 0 \/ row'[u].status = "indexed" \/ Asked("conversation", home[u])'
    BY <1>1, <1>2, <1>4, <1>6, AbsentRow DEF Sound, Asked, Answer, Shapes, TheRows
  <2>6. reply'[u] # "indexed"
    BY <1>1, <1>6 DEF Answer, Shapes
  <2> QED BY <2>3, <2>4, <2>5, <2>6 DEF Sound
<1> QED BY <1>7, <1>8, <1>9, OwnStepKeeps

-------------------------------------------------------------------------------
(* The steps of a removal inside the knowledge store.                      *)

\* The points and the file of a document may go when the catalogue was asked to
\* delete it, or when it is not promised to anybody, or not any more.
MayGo(v) ==
  Asked("document", v) \/ (~Early(v) /\ ~(reply[v] = "indexed" /\ row[v].status = "indexed"))

LEMMA RemovedMayGo ==
  ASSUME IInv, NEW a \in Actor, AtWork(a)
  PROVE  removing[a].document \in Upload /\ MayGo(removing[a].document)
<1>1. CASE a \in Upload
  <2>1. removing[a].document = a /\ phase[a] = "compensating" /\ reply[a] = "none"
    BY <1>1 DEF IInv, UploadFits
  <2> QED BY <1>1, <2>1 DEF MayGo, Early
<1>2. CASE a \in Deletion
  <2>1. removing[a].document \in Upload /\ Target(a, removing[a].document) /\ DeletionFits(a)
    BY <1>2, QueueOfUploads DEF IInv
  <2>2. CASE deletion[a].kind = "document"
    BY <1>2, <2>1, <2>2 DEF Target, MayGo, Asked
  <2>3. CASE deletion[a].kind # "document"
    BY <2>1, <2>3 DEF Target, MayGo, DeletionFits
  <2> QED BY <2>1, <2>2, <2>3
<1> QED BY <1>1, <1>2, WhoIsWho

\* Who removes what stays, and points go only where they may.
StoreStep ==
  /\ \A x \in Actor : /\ AtWork(x)' <=> AtWork(x)
                      /\ removing'[x].document = removing[x].document
  /\ points' \subseteq points
  /\ \A v \in points \ points' : MayGo(v)
  /\ UNCHANGED <<file, ingest, chat, uploads, deletion, search>>

LEMMA StoreStepKeeps ==
  ASSUME IInv, StoreStep, Shapes' PROVE IInv'
<1> USE WhoIsWho
<1>1. ASSUME NEW v \in Upload PROVE Sound(v)'
  <2>1. Sound(v)
    BY InvariantByParts
  <2>2. v \in points => v \in points' \/ MayGo(v)
    BY DEF StoreStep
  <2>3. AtWork(v)' = AtWork(v) /\ removing'[v].document = removing[v].document
    BY DEF StoreStep, AtWork
  <2>4. UNCHANGED <<file, ingest, chat, uploads, deletion>> /\ points' \subseteq points
    BY DEF StoreStep
  <2>5. UploadFits(v)'
    BY <2>1, <2>2, <2>3, <2>4 DEF Sound, UploadFits, MayGo, Early, Asked, chat, uploads
  <2> QED BY <2>1, <2>2, <2>4, <2>5 DEF Sound, MayGo, Asked, chat, uploads
<1>2. ASSUME NEW r \in Deletion PROVE DeletionFits(r)'
  <2>1. DeletionFits(r)
    BY DEF IInv
  <2> QED BY <2>1 DEF StoreStep, DeletionFits, Target, Running, Early, chat, uploads
<1>3. SearchFits' /\ SearchLeavesChatsOut'
  BY DEF IInv, StoreStep, SearchFits, SearchLeavesChatsOut, chat, uploads, Excused
<1> QED BY <1>1, <1>2, <1>3, InvariantByPartsNext

LEMMA CountsKeeps ==
  ASSUME IInv, NEW a \in Actor, Store(Counts(a)) PROVE IInv'
<1> USE WhoIsWho
<1>1. Shapes
  BY DEF IInv
<1>2. removing[a] \in Removals
  BY <1>1, Typed
<1>3. removing'[a].stage = "erasing" /\ removing'[a].document = removing[a].document
  BY <1>1, <1>2, Typed DEF Store, Counts, Removals, NotRemoving
<1>4. removing'[a] \in Removals
  <2>1. removing[a] \in [document : Document, stage : {"counting", "erasing"}]
    BY <1>2 DEF Store, Counts, Removals, NotRemoving
  <2> QED BY <1>1, <2>1, Typed DEF Store, Counts, Removals
<1>5. Shapes'
  BY <1>1, <1>4, Typed DEF Shapes, StoreTypeOK, Store, Counts, chat, uploads
<1>6. StoreStep
  BY <1>1, <1>3, Typed DEF Store, Counts, StoreStep, AtWork
<1> QED BY <1>5, <1>6, StoreStepKeeps

LEMMA ErasesKeeps ==
  ASSUME IInv, NEW a \in Actor, Store(Erases(a)) PROVE IInv'
<1> USE WhoIsWho
<1>1. Shapes
  BY DEF IInv
<1>2. AtWork(a)
  BY DEF AtWork, Store, Erases
<1>3. Shapes'
  BY <1>1, Typed DEF Shapes, StoreTypeOK, Store, Erases, chat, uploads
<1>4. StoreStep
  BY <1>2, RemovedMayGo DEF Store, Erases, StoreStep, AtWork
<1> QED BY <1>3, <1>4, StoreStepKeeps

-------------------------------------------------------------------------------
(* The steps of a deletion.                                                *)

\* A deletion leaves a row alone, begins to delete it or forgets it.
RowFate(v) ==
  \/ row'[v] = row[v]
  \/ row'[v] = Absent
  \/ /\ row[v].document /\ row'[v].document
     /\ row'[v].status = "deleting" /\ row'[v].message = row[v].message

DeletionStep(r) ==
  /\ UNCHANGED <<points, ingest, uploads, search>>
  /\ conversations' \subseteq conversations
  /\ \A v \in Upload : RowFate(v)
  /\ file' \subseteq file /\ \A v \in file \ file' : MayGo(v)
  /\ \A a \in Actor \ {r} : removing'[a] = removing[a]
  /\ \A s \in Deletion \ {r} : deletion'[s] = deletion[s]
  /\ deletion[r].kind # "none" =>
       deletion'[r].kind = deletion[r].kind /\ deletion'[r].of = deletion[r].of

\* A row is forgotten when it has no document, when the document is gone or when
\* the conversation is; one that is bound is touched by its conversation's
\* deletion only.
Rightly(r, v) ==
  /\ row'[v] = Absent => ~row[v].document \/ v \notin points \/ home[v] \notin conversations'
  /\ row[v].status = "indexed" /\ row[v].message # 0 /\ row'[v] # Absent =>
       \/ row'[v].status = "indexed"
       \/ deletion'[r].kind = "conversation" /\ deletion'[r].of = home[v]

\* What was asked for once stays asked for.
LEMMA AskedStays ==
  ASSUME NEW r \in Deletion, DeletionStep(r), NEW kind, kind # "none", NEW of, Asked(kind, of)
  PROVE  Asked(kind, of)'
BY DEF DeletionStep, Asked

LEMMA DeletionStepKeeps ==
  ASSUME IInv, NEW r \in Deletion, DeletionStep(r), Shapes', DeletionFits(r)',
         \A v \in Upload : Rightly(r, v)
  PROVE  IInv'
<1> USE WhoIsWho
<1>1. ASSUME NEW v \in Upload PROVE Sound(v)'
  <2>1. Sound(v) /\ RowFate(v) /\ Rightly(r, v)
    BY InvariantByParts DEF DeletionStep
  <2>2. v \in file => v \in file' \/ MayGo(v)
    BY DEF DeletionStep
  <2>3. /\ Asked("document", v) => Asked("document", v)'
        /\ Asked("conversation", home[v]) => Asked("conversation", home[v])'
    <3>1. Asked("document", v) => Asked("document", v)'
      BY AskedStays
    <3>2. home' = home
      BY DEF DeletionStep, uploads
    <3>3. ASSUME Asked("conversation", home[v]) PROVE Asked("conversation", home[v])'
      BY <3>2, <3>3 DEF DeletionStep, Asked
    <3> QED BY <3>1, <3>3
  <2>4. UNCHANGED <<points, ingest, phase, home, reply>> /\ removing'[v] = removing[v] /\ file' \subseteq file
    BY DEF DeletionStep, uploads
  <2>5. row'[v].document => row[v].document
    BY <2>1, AbsentRow DEF RowFate
  <2>6. UploadFits(v)'
    <3>1. UploadFits(v)
      BY <2>1 DEF Sound
    <3>2. row'[v].status \in {row[v].status, "absent"} \/ (row[v].document /\ row'[v].status = "deleting")
      BY <2>1, AbsentRow DEF RowFate
    <3>3. row[v] = Absent => row'[v] = Absent
      BY <2>1, AbsentRow DEF RowFate
    <3>4. row'[v].document <=> row'[v].status \in {"indexed", "deleting"}
      BY <2>1, <3>1, AbsentRow DEF RowFate, UploadFits
    <3> QED BY <2>2, <2>3, <2>4, <2>5, <3>1, <3>2, <3>3, <3>4 DEF UploadFits, AtWork, Early, MayGo
  <2>7. reply'[v] = "indexed" /\ row'[v].status = "indexed" /\ ~Asked("document", v)'
          => v \in points' /\ v \in file'
    <3>1. row'[v].status = "indexed" => row'[v] = row[v]
      BY <2>1, AbsentRow DEF RowFate
    <3> QED BY <2>1, <2>2, <2>3, <2>4, <3>1 DEF Sound, MayGo
  <2>8. row'[v].message = 0 \/ row'[v].status = "indexed" \/ Asked("conversation", home[v])'
    <3>1. deletion'[r].kind = "conversation" /\ deletion'[r].of = home[v] => Asked("conversation", home[v])'
      BY <2>4 DEF Asked
    <3> QED BY <2>1, <2>3, <3>1, AbsentRow DEF Sound, RowFate, Rightly
  <2>9. v \in points' /\ phase'[v] = "answered" /\ reply'[v] # "unowned"
          /\ home'[v] \in conversations' /\ ingest'[v] = "stored" => row'[v].document
    BY <2>1, <2>4 DEF Sound, RowFate, Rightly, DeletionStep
  <2> QED BY <2>6, <2>7, <2>8, <2>9 DEF Sound
<1>2. ASSUME NEW s \in Deletion, s # r PROVE DeletionFits(s)'
  <2>1. DeletionFits(s) /\ deletion'[s] = deletion[s] /\ removing'[s] = removing[s]
    BY <1>2 DEF IInv, DeletionStep
  <2>2. \A v \in Upload : RowFate(v)
    BY DEF DeletionStep
  <2>3. ASSUME NEW q \in Upload, Target(s, q) PROVE Target(s, q)'
    BY <2>1, <2>2, <2>3 DEF Target, RowFate, Early, DeletionStep, uploads
  <2>4. \A i \in DOMAIN deletion[s].queue : Target(s, deletion[s].queue[i])'
    <3>1. ASSUME NEW i \in DOMAIN deletion[s].queue PROVE Target(s, deletion[s].queue[i])'
      <4> DEFINE q == deletion[s].queue[i]
      <4>1. q \in Upload /\ Target(s, q) /\ q' = q
        BY <2>1, <3>1, QueueOfUploads
      <4>2. ASSUME NEW x \in Upload, Target(s, x) PROVE Target(s, x)'
        BY <2>3, <4>2
      <4>3. PICK x \in Upload : x = q /\ Target(s, x)'
        BY <4>1, <4>2
      <4> QED BY <4>1, <4>3
    <3> QED BY <3>1
  <2>5. AtWork(s) /\ deletion[s].kind # "document" =>
          row'[removing[s].document].status \in {"deleting", "absent"}
    BY <2>1, <2>2, QueueOfUploads, AbsentRow DEF DeletionFits, RowFate
  <2> QED BY <2>1, <2>4, <2>5 DEF DeletionFits, AtWork, Running
<1>3. SearchFits' /\ SearchLeavesChatsOut'
  BY DEF IInv, DeletionStep, SearchFits, SearchLeavesChatsOut, uploads, Excused
<1> QED BY <1>1, <1>2, <1>3, InvariantByPartsNext

\* mark_deleting of a row with a document.
LEMMA BegunDelete ==
  ASSUME row \in TheRows, NEW d \in Upload, NEW rows \in TheRows, rows[d].document,
         row' = [rows EXCEPT ![d].status = "deleting"]
  PROVE  /\ row' \in TheRows
         /\ row'[d].document = rows[d].document /\ row'[d].status = "deleting"
         /\ row'[d].message = rows[d].message
         /\ \A v \in Upload \ {d} : row'[v] = rows[v]
<1>1. rows[d] \in Rows
  BY AbsentRow DEF TheRows
<1>2. row'[d] = [rows[d] EXCEPT !.status = "deleting"]
  BY DEF TheRows
<1>3. row'[d] \in Rows
  BY <1>1, <1>2 DEF Rows, Status
<1>4. row' = [rows EXCEPT ![d] = row'[d]]
  BY <1>2 DEF TheRows
<1>5. row' \in TheRows
  BY <1>3, <1>4 DEF TheRows
<1> QED BY <1>1, <1>2, <1>4, <1>5 DEF Rows, TheRows

\* What remains of the step of a deletion when the store has done its part: the
\* next target of a conversation, none or a last one that another deletion took.
TargetsOf(c, queue, rows) ==
  \A i \in DOMAIN queue : /\ ~Early(queue[i]) /\ home[queue[i]] = c
                          /\ rows[queue[i]].document \/ rows[queue[i]] = Absent
\* The rows before one more target, with those that were forgotten for the last.
RowsOf(rows) == \A v \in Upload : rows[v] = row[v] \/ (rows[v] = Absent /\ v \notin points)

LEMMA NextTargetStep ==
  ASSUME Shapes, NEW r \in Deletion, NEW c \in Conversation, NEW queue \in Seq(Upload),
         NEW rows \in TheRows, NextTarget(r, c, queue, rows),
         RowsOf(rows), TargetsOf(c, queue, rows),
         UNCHANGED <<points, ingest, uploads, search>>
  PROVE  /\ row' \in TheRows /\ deletion' \in [Deletion -> Deletions]
         /\ removing' \in [Actor -> Removals]
         /\ conversations' \subseteq conversations
         /\ messages' \in [Conversation -> 0 .. MaxMessages]
         /\ \A v \in Upload : RowFate(v) /\ Rightly(r, v)
         /\ \A a \in Actor \ {r} : removing'[a] = removing[a]
         /\ \A s \in Deletion \ {r} : deletion'[s] = deletion[s]
         /\ deletion'[r].kind = "conversation" /\ deletion'[r].of = c
         /\ DeletionFits(r)'
<1> USE WhoIsWho DEF RowsOf, TargetsOf
<1> DEFINE d == Head(queue)
           ends == /\ removing' = [removing EXCEPT ![r] = NotRemoving]
                   /\ Becomes(r, "conversation", c, <<>>)
<1>1. /\ UNCHANGED <<points, ingest, phase, home, reply, search>>
      /\ queue # <<>> => /\ d \in Upload /\ ~Early(d) /\ home[d] = c
                         /\ rows[d] # Absent => rows[d].document /\ rows[d] = row[d]
  <2>1. queue # <<>> => 1 \in DOMAIN queue /\ d = queue[1] /\ d \in Upload
    BY HeadTailProperties, ElementOfSeq
  <2> QED BY <2>1 DEF uploads
\* Where the request ends, only the rows are left to look at.
<1>2. ASSUME ends
      PROVE  /\ deletion' \in [Deletion -> Deletions] /\ removing' \in [Actor -> Removals]
             /\ \A a \in Actor \ {r} : removing'[a] = removing[a]
             /\ \A s \in Deletion \ {r} : deletion'[s] = deletion[s]
             /\ deletion'[r].kind = "conversation" /\ deletion'[r].of = c
             /\ DeletionFits(r)'
  <2>1. [kind |-> "conversation", of |-> c, queue |-> <<>>] \in Deletions
    BY EmptySeq DEF Deletions
  <2>2. deletion' = [deletion EXCEPT ![r] = [kind |-> "conversation", of |-> c, queue |-> <<>>]]
    BY <1>2 DEF Becomes
  <2>3. deletion' \in [Deletion -> Deletions]
    BY <2>1, <2>2 DEF Shapes
  <2>4. deletion'[r] = [kind |-> "conversation", of |-> c, queue |-> <<>>]
    BY <2>2 DEF Shapes
  <2>5. removing' \in [Actor -> Removals] /\ ~AtWork(r)'
    BY <1>2, Typed DEF Removals, AtWork, NotRemoving
  <2>6. DeletionFits(r)'
    BY <2>4, <2>5 DEF DeletionFits, Running
  <2>7. \A a \in Actor \ {r} : removing'[a] = removing[a]
    BY <1>2, Typed
  <2> QED BY <2>2, <2>3, <2>4, <2>5, <2>6, <2>7
\* mark_deleting of the next target.
<1>3. ASSUME queue # <<>>, rows[d] # Absent, Deleting(d, rows)
      PROVE  /\ row' \in TheRows
             /\ row'[d].document /\ row'[d].status = "deleting" /\ row'[d].message = row[d].message
             /\ \A v \in Upload \ {d} : row'[v] = rows[v]
             /\ rows[d] = row[d]
  <2>1. d \in Upload /\ rows[d].document /\ rows[d] = row[d]
    BY <1>1, <1>3
  <2>2. row' = [rows EXCEPT ![d].status = "deleting"] /\ row \in TheRows
    BY <1>3 DEF Deleting, Shapes
  <2> HIDE DEF d
  <2>3. /\ row' \in TheRows
        /\ row'[d].document = rows[d].document /\ row'[d].status = "deleting"
        /\ row'[d].message = rows[d].message
        /\ \A v \in Upload \ {d} : row'[v] = rows[v]
    BY <2>1, <2>2, BegunDelete
  <2> QED BY <2>1, <2>3
<1>4. ASSUME queue # <<>>, rows[d] # Absent, Deleting(d, rows),
             deletion'[r].kind = "conversation" /\ deletion'[r].of = c
      PROVE  \A v \in Upload : RowFate(v) /\ Rightly(r, v)
  <2>1. RowFate(d) /\ Rightly(r, d)
    BY <1>1, <1>3, <1>4, AbsentRow DEF RowFate, Rightly
  <2>2. ASSUME NEW v \in Upload \ {d} PROVE RowFate(v) /\ Rightly(r, v)
    BY <1>1, <1>3, <1>4, <2>2, AbsentRow DEF RowFate, Rightly
  <2> QED BY <2>1, <2>2
<1>5. CASE /\ queue = <<>> /\ ends
           /\ row' = [u \in Upload |-> IF home[u] = c THEN Absent ELSE rows[u]]
           /\ conversations' = conversations \ {c} /\ messages' = [messages EXCEPT ![c] = 0]
  <2>1. row' \in TheRows
    BY <1>5 DEF TheRows
  <2>2. \A v \in Upload : RowFate(v) /\ Rightly(r, v)
    BY <1>5, AbsentRow DEF RowFate, Rightly
  <2>3. messages' \in [Conversation -> 0 .. MaxMessages]
    BY <1>5 DEF Shapes
  <2> HIDE DEF ends
  <2> QED BY <1>2, <1>5, <2>1, <2>2, <2>3
<1>6. CASE /\ queue # <<>> /\ rows[d] # Absent
           /\ BeginDelete(r, d, rows) /\ Becomes(r, "conversation", c, queue)
           /\ UNCHANGED <<conversations, messages>>
  <2>1. [kind |-> "conversation", of |-> c, queue |-> queue] \in Deletions
    BY DEF Deletions
  <2>2. deletion' = [deletion EXCEPT ![r] = [kind |-> "conversation", of |-> c, queue |-> queue]]
    BY <1>6 DEF Becomes
  <2>3. deletion' \in [Deletion -> Deletions]
    BY <2>1, <2>2 DEF Shapes
  <2>4. deletion'[r] = [kind |-> "conversation", of |-> c, queue |-> queue]
    BY <2>2 DEF Shapes
  <2>5. removing' = Removes(r, d) /\ Deleting(d, rows)
    BY <1>6 DEF BeginDelete
  <2>6. removing' \in [Actor -> Removals]
    BY <1>1, <1>6, <2>5, Typed DEF Removals, Removes
  <2>7. removing'[r].document = d /\ removing'[r].stage = "counting"
    BY <2>5, Typed DEF Removes
  <2>8. \A v \in Upload : RowFate(v) /\ Rightly(r, v)
    BY <1>4, <1>6, <2>4, <2>5
  <2>9. DeletionFits(r)'
    <3>1. \A i \in DOMAIN queue : queue[i] \in Upload
      BY ElementOfSeq
    <3>2. \A i \in DOMAIN queue : row'[queue[i]].document \/ row'[queue[i]] = Absent
      BY <1>3, <1>6, <2>5, <3>1
    <3>3. \A i \in DOMAIN queue : Target(r, queue[i])'
      BY <1>1, <2>4, <3>2 DEF Target, Early
    <3>4. row'[d].status = "deleting"
      BY <1>3, <1>6, <2>5
    <3> QED BY <1>6, <2>4, <2>7, <3>3, <3>4 DEF DeletionFits, AtWork, Running
  <2>10. row' \in TheRows
    BY <1>3, <1>6, <2>5
  <2>11. \A a \in Actor \ {r} : removing'[a] = removing[a]
    BY <2>5, Typed DEF Removes
  <2> QED BY <1>6, <2>2, <2>3, <2>4, <2>6, <2>8, <2>9, <2>10, <2>11 DEF Shapes
<1>7. CASE ends /\ row' = rows /\ UNCHANGED <<conversations, messages>>
  <2>1. \A v \in Upload : RowFate(v) /\ Rightly(r, v)
    BY <1>7, AbsentRow DEF RowFate, Rightly
  <2> HIDE DEF ends
  <2> QED BY <1>2, <1>7, <2>1 DEF Shapes
<1>8. CASE /\ ends /\ queue # <<>> /\ rows[d] # Absent /\ Deleting(d, rows)
           /\ UNCHANGED <<conversations, messages>>
  <2> HIDE DEF ends
  <2>1. \A v \in Upload : RowFate(v) /\ Rightly(r, v)
    BY <1>2, <1>4, <1>8
  <2> QED BY <1>2, <1>3, <1>8, <2>1 DEF Shapes
<1> QED BY <1>5, <1>6, <1>7, <1>8 DEF NextTarget

\* A deletion ends and leaves its conversation as it is.
LEMMA EndedKeeps ==
  ASSUME IInv, NEW r \in Deletion, Ends(r),
         UNCHANGED <<points, ingest, uploads, search, conversations, messages>>,
         file' \subseteq file, row' \in TheRows,
         \A v \in file \ file' : MayGo(v),
         \A v \in Upload : RowFate(v) /\ Rightly(r, v)
  PROVE  IInv'
<1> USE WhoIsWho
<1>1. Shapes
  BY DEF IInv
<1>2. /\ deletion' \in [Deletion -> Deletions]
      /\ deletion'[r].queue = <<>>
      /\ deletion'[r].kind = deletion[r].kind /\ deletion'[r].of = deletion[r].of
      /\ \A s \in Deletion \ {r} : deletion'[s] = deletion[s]
  <2>1. deletion[r] \in Deletions /\ <<>> \in Seq(Upload)
    BY <1>1, EmptySeq DEF Shapes
  <2>2. deletion' = [deletion EXCEPT ![r] = [deletion[r] EXCEPT !.queue = <<>>]]
    BY <1>1 DEF Ends, Shapes
  <2>3. [deletion[r] EXCEPT !.queue = <<>>] \in Deletions
    BY <2>1 DEF Deletions
  <2> QED BY <1>1, <2>1, <2>2, <2>3 DEF Shapes, Deletions
<1>3. removing' \in [Actor -> Removals]
  BY <1>1, Typed DEF Ends, Removals
<1>4. Shapes'
  BY <1>1, <1>2, <1>3 DEF Shapes, StoreTypeOK, uploads
<1>5. ~AtWork(r)'
  BY <1>1, Typed DEF Ends, AtWork, NotRemoving
<1>6. DeletionFits(r)'
  BY <1>2, <1>5 DEF DeletionFits, Running
<1>7. DeletionStep(r)
  BY <1>1, <1>2, Typed DEF Ends, DeletionStep
<1> QED BY <1>4, <1>6, <1>7, DeletionStepKeeps

LEMMA EndedAloneKeeps ==
  ASSUME IInv, NEW r \in Deletion, Ends(r),
         UNCHANGED <<points, ingest, uploads, search, chat>>,
         file' \subseteq file, \A v \in file \ file' : MayGo(v)
  PROVE  IInv'
<1>1. row' = row /\ UNCHANGED <<conversations, messages>> /\ row' \in TheRows /\ Shapes
  BY DEF IInv, Shapes, chat
<1>2. ASSUME NEW v \in Upload PROVE RowFate(v) /\ Rightly(r, v)
  <2>1. row'[v] = row[v] /\ (row[v] = Absent => ~row[v].document)
    BY <1>1, AbsentRow
  <2> QED BY <2>1 DEF RowFate, Rightly
<1> QED BY <1>1, <1>2, EndedKeeps

\* A request that begins: what it names, what is in its queue.
LEMMA NewlyBegun ==
  ASSUME Shapes, NEW r \in Deletion, NEW kind \in {"attachment", "document"}, NEW u \in Upload,
         NEW queue \in {<<>>, <<u>>}, Becomes(r, kind, u, queue)
  PROVE  /\ deletion' \in [Deletion -> Deletions]
         /\ deletion'[r] = [kind |-> kind, of |-> u, queue |-> queue]
         /\ \A s \in Deletion \ {r} : deletion'[s] = deletion[s]
<1>1. <<>> \in Seq(Upload) /\ <<u>> \in Seq(Upload)
  BY EmptySeq
<1>2. [kind |-> kind, of |-> u, queue |-> queue] \in Deletions
  BY <1>1 DEF Deletions
<1> QED BY <1>2 DEF Becomes, Shapes

\* The first of an attachment or document in the queue is all of it.
LEMMA BegunFits ==
  ASSUME Shapes, NEW r \in Deletion, NEW kind \in {"attachment", "document"}, NEW u \in Upload,
         Becomes(r, kind, u, <<u>>), removing' = Removes(r, u),
         kind = "attachment" => ~Early(u)' /\ row'[u].document /\ row'[u].status = "deleting"
  PROVE  DeletionFits(r)' /\ removing' \in [Actor -> Removals]
<1> USE WhoIsWho
<1>1. deletion'[r] = [kind |-> kind, of |-> u, queue |-> <<u>>]
  BY NewlyBegun
<1>2. removing' \in [Actor -> Removals] /\ removing'[r].document = u /\ removing'[r].stage = "counting"
  BY Typed DEF Removals, Removes
<1>3. <<u>> # <<>> /\ Head(<<u>>) = u /\ DOMAIN <<u>> = {1} /\ <<u>>[1] = u
  OBVIOUS
<1>4. Target(r, u)'
  BY <1>1 DEF Target
<1>5. \A i \in DOMAIN deletion'[r].queue : Target(r, deletion[r].queue[i])'
  BY <1>1, <1>3, <1>4
<1>6. deletion'[r].queue # <<>> /\ Head(deletion'[r].queue) = u /\ deletion'[r].kind = kind
  BY <1>1, <1>3
<1>7. deletion'[r].kind # "document" => row'[u].status = "deleting"
  BY <1>6
<1> QED BY <1>2, <1>5, <1>6, <1>7 DEF DeletionFits, AtWork, Running

LEMMA DeleteAttachmentKeeps ==
  ASSUME IInv, NEW r \in Deletion, DeleteAttachment(r) PROVE IInv'
<1> USE WhoIsWho
<1>1. Shapes
  BY DEF IInv
<1>2. PICK u \in Upload :
        /\ row[u] # Absent /\ row[u].message = 0
        /\ \/ /\ row[u].document /\ BeginDelete(r, u, row)
              /\ Becomes(r, "attachment", u, <<u>>)
           \/ /\ ~row[u].document /\ row' = Forgotten({u}) /\ UNCHANGED removing
              /\ Becomes(r, "attachment", u, <<>>)
           \/ /\ UNCHANGED row \/ (row[u].document /\ Deleting(u, row))
              /\ UNCHANGED removing
              /\ Becomes(r, "attachment", u, <<>>)
  BY DEF DeleteAttachment
<1>3. /\ deletion[r].kind = "none"
      /\ UNCHANGED <<file, points, ingest, conversations, messages, uploads, search>>
  BY DEF DeleteAttachment
<1>4. UploadFits(u) /\ Sound(u)
  BY InvariantByParts DEF Sound
\* What may happen to the rows.
<1>5. ASSUME row[u].document, Deleting(u, row)
      PROVE  /\ row' \in TheRows /\ row'[u].document /\ row'[u].status = "deleting"
             /\ \A v \in Upload : RowFate(v) /\ Rightly(r, v)
  <2>1. /\ row' \in TheRows
        /\ row'[u].document = row[u].document /\ row'[u].status = "deleting"
        /\ row'[u].message = row[u].message
        /\ \A v \in Upload \ {u} : row'[v] = row[v]
    BY <1>1, <1>5, BegunDelete DEF Shapes, Deleting
  <2>2. ASSUME NEW v \in Upload PROVE RowFate(v) /\ Rightly(r, v)
    <3>1. CASE v = u
      BY <1>2, <1>5, <2>1, <3>1, AbsentRow DEF RowFate, Rightly
    <3>2. CASE v # u
      BY <2>1, <3>2, AbsentRow DEF RowFate, Rightly
    <3> QED BY <3>1, <3>2
  <2> QED BY <1>5, <2>1, <2>2
<1>6. ASSUME (row' = Forgotten({u}) /\ ~row[u].document) \/ row' = row
      PROVE  row' \in TheRows /\ \A v \in Upload : RowFate(v) /\ Rightly(r, v)
  <2>1. row' \in TheRows
    BY <1>1, <1>6 DEF Shapes, TheRows, Forgotten
  <2>2. ASSUME NEW v \in Upload PROVE RowFate(v) /\ Rightly(r, v)
    <3>1. row'[v] = row[v] \/ (row'[v] = Absent /\ ~row[v].document)
      BY <1>6 DEF Forgotten
    <3> QED BY <3>1, AbsentRow DEF RowFate, Rightly
  <2> QED BY <2>1, <2>2
<1>7. CASE /\ row[u].document /\ BeginDelete(r, u, row)
           /\ Becomes(r, "attachment", u, <<u>>)
  <2>1. Deleting(u, row) /\ removing' = Removes(r, u) /\ ~Early(u)'
    BY <1>3, <1>4, <1>7 DEF BeginDelete, UploadFits, Early, uploads
  <2>2. DeletionFits(r)' /\ removing' \in [Actor -> Removals]
    BY <1>1, <1>5, <1>7, <2>1, BegunFits
  <2>3. Shapes'
    BY <1>1, <1>3, <1>5, <1>7, <2>1, <2>2, NewlyBegun DEF Shapes, StoreTypeOK, uploads
  <2>4. DeletionStep(r)
    BY <1>1, <1>3, <1>5, <1>7, <2>1, NewlyBegun, Typed DEF DeletionStep, Removes
  <2> QED BY <1>5, <1>7, <2>1, <2>2, <2>3, <2>4, DeletionStepKeeps
<1>8. CASE /\ row' \in TheRows /\ \A v \in Upload : RowFate(v) /\ Rightly(r, v)
           /\ UNCHANGED removing /\ Becomes(r, "attachment", u, <<>>)
  <2>1. /\ deletion' \in [Deletion -> Deletions] /\ deletion'[r].queue = <<>>
        /\ \A s \in Deletion \ {r} : deletion'[s] = deletion[s]
    <3>1. deletion'[r] = [kind |-> "attachment", of |-> u, queue |-> <<>>]
      BY <1>1, <1>8, NewlyBegun
    <3>2. deletion' \in [Deletion -> Deletions] /\ \A s \in Deletion \ {r} : deletion'[s] = deletion[s]
      BY <1>1, <1>8, NewlyBegun
    <3> QED BY <3>1, <3>2
  <2>2. Shapes'
    BY <1>1, <1>3, <1>8, <2>1 DEF Shapes, StoreTypeOK, uploads
  <2>3. ~AtWork(r)
    BY <1>3, InvariantByParts DEF DeletionFits
  <2>4. DeletionFits(r)'
    BY <1>8, <2>1, <2>3 DEF DeletionFits, AtWork, Running
  <2>5. DeletionStep(r)
    BY <1>1, <1>3, <1>8, <2>1 DEF DeletionStep
  <2> QED BY <1>8, <2>2, <2>4, <2>5, DeletionStepKeeps
<1> QED BY <1>2, <1>5, <1>6, <1>7, <1>8

LEMMA DeleteDocumentKeeps ==
  ASSUME IInv, NEW r \in Deletion, DeleteDocument(r) PROVE IInv'
<1> USE WhoIsWho
<1>1. Shapes
  BY DEF IInv
<1>2. PICK u \in Upload : Becomes(r, "document", u, <<u>>) /\ removing' = Removes(r, u)
  BY DEF DeleteDocument
<1>3. /\ deletion[r].kind = "none"
      /\ UNCHANGED <<file, points, ingest, chat, uploads, search>>
  BY DEF DeleteDocument
<1>4. DeletionFits(r)' /\ removing' \in [Actor -> Removals]
  BY <1>1, <1>2, BegunFits
<1>5. Shapes'
  BY <1>1, <1>2, <1>3, <1>4, NewlyBegun DEF Shapes, StoreTypeOK, chat, uploads
<1>6. \A v \in Upload : RowFate(v) /\ Rightly(r, v)
  BY <1>3, AbsentRow DEF RowFate, Rightly, chat
<1>7. DeletionStep(r)
  BY <1>1, <1>2, <1>3, <1>6, NewlyBegun, Typed DEF DeletionStep, Removes, chat
<1> QED BY <1>4, <1>5, <1>6, <1>7, DeletionStepKeeps

LEMMA DeleteConversationKeeps ==
  ASSUME IInv, NEW r \in Deletion, DeleteConversation(r) PROVE IInv'
<1> USE WhoIsWho
<1>1. Shapes /\ deletion[r].kind = "none"
  BY DEF IInv, DeleteConversation
<1>2. PICK c \in conversations :
        \E queue \in [1 .. Cardinality({u \in Attached(c) : row[u].document}) ->
                        {u \in Attached(c) : row[u].document}] :
          NextTarget(r, c, queue, row)
  BY DEF DeleteConversation
<1> DEFINE targets == {u \in Attached(c) : row[u].document}
<1>3. PICK queue \in [1 .. Cardinality(targets) -> targets] : NextTarget(r, c, queue, row)
  BY <1>2
<1>4. Cardinality(targets) \in Nat
  BY FS_Subset, FS_CardinalityType DEF Attached
<1>5. queue \in Seq(Upload) /\ \A i \in DOMAIN queue : queue[i] \in targets
  <2>1. targets \subseteq Upload
    BY DEF Attached
  <2> HIDE DEF targets
  <2>2. queue \in [1 .. Cardinality(targets) -> Upload]
    BY <1>3, <2>1
  <2> QED BY <1>3, <1>4, <2>2, IsASeq
<1>6. \A i \in DOMAIN queue : ~Early(queue[i]) /\ home[queue[i]] = c /\ row[queue[i]].document
  BY <1>5, InvariantByParts DEF Sound, UploadFits, Attached
<1>7. UNCHANGED <<file, points, ingest, uploads, search>>
  BY DEF DeleteConversation
<1>8. c \in Conversation /\ row \in TheRows
  BY <1>1 DEF Shapes
<1>9. RowsOf(row) /\ TargetsOf(c, queue, row)
  BY <1>6 DEF RowsOf, TargetsOf
<1>10. /\ row' \in TheRows /\ deletion' \in [Deletion -> Deletions]
       /\ removing' \in [Actor -> Removals]
       /\ conversations' \subseteq conversations
       /\ messages' \in [Conversation -> 0 .. MaxMessages]
       /\ \A v \in Upload : RowFate(v) /\ Rightly(r, v)
       /\ \A a \in Actor \ {r} : removing'[a] = removing[a]
       /\ \A s \in Deletion \ {r} : deletion'[s] = deletion[s]
       /\ DeletionFits(r)'
  BY <1>1, <1>3, <1>5, <1>6, <1>7, <1>8, <1>9, NextTargetStep
<1>11. Shapes'
  BY <1>1, <1>7, <1>10 DEF Shapes, StoreTypeOK, uploads
<1>12. DeletionStep(r)
  BY <1>1, <1>7, <1>10 DEF DeletionStep
<1> QED BY <1>10, <1>11, <1>12, DeletionStepKeeps

\* The knowledge store has answered a deletion: the row goes with its document.
LEMMA DeletedKeeps ==
  ASSUME IInv, NEW r \in Deletion, Deleted(r) PROVE IInv'
<1> USE WhoIsWho
<1> DEFINE queue == deletion[r].queue
           d == removing[r].document
           rows == Forgotten({Head(queue)})
<1>1. Shapes /\ DeletionFits(r) /\ Running(r) /\ deletion[r].kind # "document"
  BY DEF IInv, Deleted
<1>2. AtWork(r) /\ queue # <<>> /\ d = Head(queue) /\ queue \in Seq(Upload)
  BY <1>1 DEF DeletionFits, Shapes, Deletions, Running
<1>3. d \in Upload /\ MayGo(d)
  BY <1>2, RemovedMayGo
<1>4. PICK how \in {"missing", "deleted", "failed"} :
        /\ RemovalEnds(r, how)
        /\ \/ /\ Gone(how) /\ deletion[r].kind = "conversation"
              /\ NextTarget(r, deletion[r].of, Tail(queue), rows)
           \/ /\ Gone(how) /\ deletion[r].kind = "attachment"
              /\ row' = rows /\ Ends(r) /\ UNCHANGED <<conversations, messages>>
           \/ ~Gone(how) /\ Ends(r) /\ UNCHANGED chat
  BY DEF Deleted
<1>5. /\ UNCHANGED <<points, ingest, uploads, search>> /\ file \ {d} \subseteq file' /\ file' \subseteq file
      /\ Gone(how) => d \notin points
  BY <1>4 DEF RemovalEnds, Deleted, Gone
<1>6. \A v \in file \ file' : MayGo(v)
  BY <1>3, <1>5
<1>7. CASE /\ Gone(how) /\ deletion[r].kind = "conversation"
           /\ NextTarget(r, deletion[r].of, Tail(queue), rows)
  <2> DEFINE c == deletion[r].of
  <2>1. c \in Conversation /\ rows \in TheRows
    BY <1>1, <1>7 DEF DeletionFits, Forgotten, TheRows, Shapes
  <2>2. RowsOf(rows)
    BY <1>2, <1>5, <1>7 DEF Forgotten, RowsOf
  <2>3. /\ Tail(queue) \in Seq(Upload)
        /\ \A i \in DOMAIN Tail(queue) : \E j \in DOMAIN queue : Tail(queue)[i] = queue[j]
    <3>1. /\ Tail(queue) \in Seq(Upload) /\ Len(Tail(queue)) = Len(queue) - 1
          /\ \A i \in 1 .. Len(Tail(queue)) : Tail(queue)[i] = queue[i + 1]
      BY <1>2, HeadTailProperties
    <3>2. DOMAIN queue = 1 .. Len(queue) /\ Len(queue) \in Nat
      BY <1>2, LenProperties
    <3>3. DOMAIN Tail(queue) = 1 .. Len(Tail(queue))
      BY <3>1, LenProperties
    <3>4. \A i \in DOMAIN Tail(queue) : i + 1 \in DOMAIN queue
      BY <3>1, <3>2, <3>3
    <3> QED BY <3>1, <3>3, <3>4
  <2> HIDE DEF rows
  <2>4. \A j \in DOMAIN queue : /\ queue[j] \in Upload /\ ~Early(queue[j]) /\ home[queue[j]] = c
                                /\ row[queue[j]].document \/ row[queue[j]] = Absent
    BY <1>7, QueueOfUploads DEF Target
  <2>5. \A j \in DOMAIN queue : rows[queue[j]].document \/ rows[queue[j]] = Absent
    BY <2>2, <2>4 DEF RowsOf
  <2>6. TargetsOf(c, Tail(queue), rows)
    BY <2>3, <2>4, <2>5 DEF TargetsOf
  <2>7. Tail(queue) \in Seq(Upload) /\ NextTarget(r, c, Tail(queue), rows)
    BY <1>7, <2>3
  <2>8. UNCHANGED <<points, ingest, uploads, search>>
    BY <1>5
  <2> HIDE DEF queue, c
  <2>9. /\ row' \in TheRows /\ deletion' \in [Deletion -> Deletions]
        /\ removing' \in [Actor -> Removals]
        /\ conversations' \subseteq conversations
        /\ messages' \in [Conversation -> 0 .. MaxMessages]
        /\ \A v \in Upload : RowFate(v) /\ Rightly(r, v)
        /\ \A a \in Actor \ {r} : removing'[a] = removing[a]
        /\ \A s \in Deletion \ {r} : deletion'[s] = deletion[s]
        /\ deletion'[r].kind = "conversation" /\ deletion'[r].of = c
        /\ DeletionFits(r)'
    BY <1>1, <2>1, <2>2, <2>6, <2>7, <2>8, NextTargetStep
  <2>10. Shapes'
    BY <1>1, <1>5, <2>9 DEF Shapes, StoreTypeOK, uploads
  <2>11. DeletionStep(r)
    BY <1>5, <1>6, <1>7, <2>9 DEF DeletionStep, c
  <2> QED BY <2>9, <2>10, <2>11, DeletionStepKeeps
<1>8. CASE Gone(how) /\ row' = rows /\ Ends(r) /\ UNCHANGED <<conversations, messages>>
  <2>1. row' = Forgotten({d})
    BY <1>2, <1>8
  <2>2. row' \in TheRows
    BY <1>1, <2>1 DEF TheRows, Forgotten, Shapes
  <2>3. \A v \in Upload : RowFate(v) /\ Rightly(r, v)
    BY <1>1, <1>5, <1>8, <2>1, AbsentRow DEF RowFate, Rightly, Forgotten
  <2> QED BY <1>1, <1>5, <1>6, <1>8, <2>2, <2>3, EndedKeeps
<1>9. CASE Ends(r) /\ UNCHANGED chat
  BY <1>5, <1>6, <1>9, EndedAloneKeeps
<1> QED BY <1>4, <1>7, <1>8, <1>9

\* The requests that leave the rows as they are.
LEMMA RowStaysKeeps ==
  ASSUME IInv, NEW r \in Deletion, MetadataStays(r) \/ DocumentDeleted(r) PROVE IInv'
<1> USE WhoIsWho
<1>1. Running(r) /\ Ends(r) /\ UNCHANGED <<chat, uploads, search>>
      /\ \E how \in {"missing", "deleted", "failed"} : RemovalEnds(r, how)
  BY DEF MetadataStays, DocumentDeleted
<1>2. removing[r].document \in Upload /\ MayGo(removing[r].document)
  BY <1>1, RemovedMayGo DEF IInv, DeletionFits
<1>3. UNCHANGED <<points, ingest>> /\ file' \subseteq file /\ file \ {removing[r].document} \subseteq file'
  BY <1>1 DEF RemovalEnds
<1>4. \A v \in file \ file' : MayGo(v)
  BY <1>2, <1>3
<1> QED BY <1>1, <1>3, <1>4, EndedAloneKeeps

-------------------------------------------------------------------------------
(* Messages, searches, a crash.                                            *)

LEMMA CreateMessageKeeps ==
  ASSUME IInv, CreateMessage PROVE IInv'
<1> USE WhoIsWho
<1>1. Shapes
  BY DEF IInv
<1>2. PICK c \in conversations, us \in SUBSET Upload :
        /\ \A u \in us : Bindable(c, u)
        /\ messages[c] < MaxMessages
        /\ messages' = [messages EXCEPT ![c] = @ + 1]
        /\ row' = [u \in Upload |->
                     IF u \in us THEN [row[u] EXCEPT !.message = messages[c] + 1] ELSE row[u]]
  BY DEF CreateMessage
<1>3. UNCHANGED <<store, conversations, uploads, deletion, search>>
  BY DEF CreateMessage
<1>4. messages[c] \in 0 .. MaxMessages /\ messages[c] + 1 \in 0 .. MaxMessages
  BY <1>1, <1>2 DEF Shapes
<1>5. ASSUME NEW v \in Upload
      PROVE  /\ row'[v] \in Rows \cup {Absent} /\ (row'[v] = Absent <=> row[v] = Absent)
             /\ row'[v].status = row[v].status
             /\ row'[v].document <=> row[v].document
             /\ row'[v].message = row[v].message \/ row[v].status = "indexed"
  <2>1. CASE v \in us
    <3>1. row[v] \in Rows /\ row[v].status = "indexed"
      BY <1>1, <1>2, <2>1, AbsentRow DEF Bindable, Shapes, TheRows
    <3>2. row'[v] = [row[v] EXCEPT !.message = messages[c] + 1]
      BY <1>2, <2>1
    <3>3. row'[v] \in Rows
      BY <1>4, <3>1, <3>2 DEF Rows
    <3> QED BY <3>1, <3>2, <3>3, AbsentRow DEF Rows
  <2>2. CASE v \notin us
    <3>1. row'[v] = row[v] /\ row[v] \in Rows \cup {Absent}
      BY <1>1, <1>2, <2>2 DEF Shapes, TheRows
    <3>2. row'[v].status = row[v].status /\ row'[v].message = row[v].message
      BY <3>1
    <3>3. row'[v].document <=> row[v].document
      BY <3>1
    <3> QED BY <3>1, <3>2, <3>3
  <2> QED BY <2>1, <2>2
<1>6. Shapes'
  <2>1. row' \in TheRows
    BY <1>2, <1>5 DEF TheRows
  <2>2. messages' \in [Conversation -> 0 .. MaxMessages]
    BY <1>1, <1>2, <1>4 DEF Shapes
  <2> QED BY <1>1, <1>3, <2>1, <2>2 DEF Shapes, StoreTypeOK, store, uploads
<1>7. ASSUME NEW v \in Upload PROVE Sound(v)'
  <2>1. Sound(v)
    BY InvariantByParts
  <2> QED BY <1>3, <1>5, <2>1 DEF Sound, UploadFits, AtWork, Early, Asked, store, uploads
<1>8. ASSUME NEW r \in Deletion PROVE DeletionFits(r)'
  <2>1. DeletionFits(r)
    BY DEF IInv
  <2>2. \A i \in DOMAIN deletion[r].queue : Target(r, deletion[r].queue[i])'
    BY <1>3, <1>5, QueueOfUploads DEF Target, Early, uploads
  <2>3. AtWork(r) => removing[r].document \in Upload
    BY QueueOfUploads
  <2> QED BY <1>3, <1>5, <2>1, <2>2, <2>3 DEF DeletionFits, AtWork, Running, store, uploads
<1>9. SearchFits' /\ SearchLeavesChatsOut'
  BY <1>3 DEF IInv, SearchFits, SearchLeavesChatsOut, Excused, store, uploads
<1> QED BY <1>6, <1>7, <1>8, <1>9, InvariantByPartsNext

\* A search: nothing changes but the search.
LEMMA SearchKeeps ==
  ASSUME IInv, UNCHANGED <<store, chat, uploads, deletion>>, search' \in Searches,
         SearchFits', SearchLeavesChatsOut'
  PROVE  IInv'
<1>1. Shapes'
  BY DEF IInv, Shapes, StoreTypeOK, store, chat, uploads
<1>2. ASSUME NEW v \in Upload PROVE Sound(v)'
  <2>1. Sound(v)
    BY InvariantByParts
  <2> QED BY <2>1 DEF Sound, UploadFits, AtWork, Early, Asked, store, chat, uploads
<1>3. ASSUME NEW r \in Deletion PROVE DeletionFits(r)'
  <2>1. DeletionFits(r)
    BY DEF IInv
  <2> QED BY <2>1 DEF DeletionFits, AtWork, Target, Early, Running, store, chat, uploads
<1> QED BY <1>1, <1>2, <1>3, InvariantByPartsNext

LEMMA SearchAsksKeeps ==
  ASSUME IInv, SearchAsks PROVE IInv'
<1>1. search \in Searches /\ search.found = {} /\ Shapes
  BY DEF IInv, Shapes, SearchFits, SearchAsks
<1>2. /\ search'.stage = "asking" /\ search'.excluded = Owned /\ search'.found = {}
      /\ search'.answered = {u \in Upload : phase[u] = "answered"}
      /\ search' \in Searches
  BY <1>1 DEF SearchAsks, Searches, Owned
<1>3. \A u \in Upload : phase[u] = "answered" => u \notin points \/ u \in Owned \/ Excused(u)
  BY DEF IInv, DocumentsHaveOwners, Owned, Excused
<1>4. SearchFits' /\ SearchLeavesChatsOut'
  BY <1>2, <1>3 DEF SearchAsks, SearchFits, SearchLeavesChatsOut, Excused, store, chat, uploads
<1> QED BY <1>2, <1>4, SearchKeeps DEF SearchAsks

LEMMA SearchFindsKeeps ==
  ASSUME IInv, SearchFinds PROVE IInv'
<1>1. search \in Searches /\ Shapes
  BY DEF IInv, Shapes
<1>2. /\ search'.stage = "done" /\ search'.found = points \ search.excluded
      /\ search'.answered = search.answered
      /\ search' \in Searches
  BY <1>1, Typed DEF SearchFinds, Searches
<1>3. \A u \in search.answered \cap points : u \in search.excluded \/ Excused(u)
  BY DEF IInv, SearchFits, SearchFinds
<1>4. SearchFits' /\ SearchLeavesChatsOut'
  BY <1>2, <1>3 DEF IInv, SearchFinds, SearchFits, SearchLeavesChatsOut, Excused, store, chat, uploads
<1> QED BY <1>2, <1>4, SearchKeeps DEF SearchFinds

\* The process starts with empty memory: no request is under way, and what is on
\* disk is as it was.
LEMMA CrashKeeps ==
  ASSUME IInv, Crash PROVE IInv'
<1> USE WhoIsWho
<1>1. Shapes
  BY DEF IInv
<1>2. UNCHANGED <<chat, home, reply, file, points>>
  BY DEF Crash, StoreCrash
<1>3. ASSUME NEW v \in Upload
      PROVE  /\ phase'[v] = IF phase[v] \in {"idle", "answered"} THEN phase[v] ELSE "dead"
             /\ ingest'[v] = IF ingest[v] \in Ingesting THEN "dead" ELSE ingest[v]
  BY DEF Crash, StoreCrash
<1>4. \A a \in Actor : ~AtWork(a)'
  BY DEF Crash, StoreCrash, AtWork, NotRemoving
<1>5. ASSUME NEW r \in Deletion
      PROVE  /\ deletion'[r] \in Deletions /\ deletion'[r].kind = deletion[r].kind
             /\ deletion'[r].of = deletion[r].of /\ deletion'[r].queue = <<>>
  <2>1. deletion[r] \in Deletions /\ <<>> \in Seq(Upload)
    BY <1>1, EmptySeq DEF Shapes
  <2>2. deletion'[r] = [deletion[r] EXCEPT !.queue = <<>>]
    BY DEF Crash
  <2> QED BY <2>1, <2>2 DEF Deletions
<1>6. search' \in Searches /\ search'.answered = {} /\ search'.found = search.found
      /\ (search'.stage = "done" <=> search.stage = "done")
  BY <1>1 DEF Crash, Shapes, Searches
<1>7. Shapes'
  <2>1. ingest' \in [Upload -> IngestStages] /\ phase' \in [Upload -> Phases]
    BY <1>1, <1>3, Typed DEF Crash, StoreCrash, IngestStages, Ingesting, Phases, Shapes
  <2>2. removing' \in [Actor -> Removals]
    BY DEF Crash, StoreCrash, Removals
  <2>3. deletion' \in [Deletion -> Deletions]
    BY <1>5 DEF Crash
  <2> QED BY <1>1, <1>2, <1>6, <2>1, <2>2, <2>3 DEF Shapes, StoreTypeOK, chat
<1>8. ASSUME NEW v \in Upload PROVE Sound(v)'
  <2>1. Sound(v)
    BY InvariantByParts
  <2>2. Asked("document", v)' <=> Asked("document", v)
    BY <1>5 DEF Asked
  <2>3. UploadFits(v)'
    BY <1>2, <1>3, <1>4, <2>1, <2>2 DEF Sound, UploadFits, Early, Ingesting, chat
  <2>4. row'[v].message = 0 \/ row'[v].status = "indexed" \/ Asked("conversation", home[v])'
    BY <1>2, <1>5, <2>1 DEF Sound, Asked, chat
  <2> QED BY <1>2, <1>3, <2>1, <2>2, <2>3, <2>4 DEF Sound, chat
<1>9. ASSUME NEW r \in Deletion PROVE DeletionFits(r)'
  BY <1>4, <1>5 DEF DeletionFits, Running
<1>10. SearchFits' /\ SearchLeavesChatsOut'
  BY <1>6 DEF IInv, SearchFits, SearchLeavesChatsOut
<1> QED BY <1>7, <1>8, <1>9, <1>10, InvariantByPartsNext

-------------------------------------------------------------------------------
(* The theorem.                                                            *)

LEMMA InitIsSound ==
  ASSUME Init PROVE IInv
<1> USE WhoIsWho
<1>1. Shapes
  BY EmptySeq DEF Init, StoreInit, Shapes, StoreTypeOK, IngestStages, Removals, TheRows, Phases, Replies,
     Deletions, NoDeletion, Searches
<1>2. \A u \in Upload : UploadFits(u)
  BY DEF Init, StoreInit, UploadFits, AtWork, NotRemoving, Absent, Early, Ingesting
<1>3. \A r \in Deletion : DeletionFits(r)
  BY DEF Init, StoreInit, DeletionFits, AtWork, NotRemoving, NoDeletion, Running
<1>4. SearchFits /\ DocumentsHaveOwners /\ SearchLeavesChatsOut
  BY DEF Init, StoreInit, SearchFits, DocumentsHaveOwners, SearchLeavesChatsOut
<1>5. EvidenceIsKept
  BY AbsentRow DEF Init, StoreInit, EvidenceIsKept
<1> QED BY <1>1, <1>2, <1>3, <1>4, <1>5 DEF IInv

LEMMA StepIsSound ==
  ASSUME IInv, [Next]_vars PROVE IInv'
<1>1. CASE UNCHANGED vars
  BY <1>1 DEF IInv, vars, store, chat, uploads, Shapes, StoreTypeOK, UploadFits, AtWork, Early, Asked, DeletionFits,
     Target, Running, SearchFits, Excused, EvidenceIsKept, DocumentsHaveOwners, SearchLeavesChatsOut
<1>2. ASSUME NEW u \in Upload, Request(u) \/ Uploads(u) PROVE IInv'
  BY <1>2, RequestKeeps, CreatePendingKeeps, RefuseKeeps, EmbedsKeeps, UpsertsKeeps, UploadFailsKeeps,
     FinalizeKeeps, CompensateKeeps, CompensatedKeeps DEF Uploads
<1>3. ASSUME NEW a \in Actor, Store(Counts(a)) \/ Store(Erases(a)) PROVE IInv'
  BY <1>3, CountsKeeps, ErasesKeeps
<1>4. ASSUME NEW r \in Deletion,
             \/ DeleteAttachment(r) \/ DeleteConversation(r) \/ Deleted(r) \/ MetadataStays(r)
             \/ DeleteDocument(r) \/ DocumentDeleted(r)
      PROVE  IInv'
  BY <1>4, DeleteAttachmentKeeps, DeleteConversationKeeps, DeletedKeeps, RowStaysKeeps, DeleteDocumentKeeps
<1>5. ASSUME CreateMessage \/ SearchAsks \/ SearchFinds \/ Crash PROVE IInv'
  BY <1>5, CreateMessageKeeps, SearchAsksKeeps, SearchFindsKeeps, CrashKeeps
<1> QED BY <1>1, <1>2, <1>3, <1>4, <1>5 DEF Next

LEMMA InvariantIsWhole == IInv => AttachmentsAreWhole
<1> SUFFICES ASSUME IInv PROVE AttachmentsAreWhole
  OBVIOUS
<1>1. Shapes /\ \A u \in Upload : UploadFits(u)
  BY DEF IInv
<1>2. ASSUME NEW r \in Deletion
      PROVE  /\ deletion[r].kind \in {"none", "attachment", "conversation", "document"}
             /\ deletion[r].of \in Conversation \cup Upload \cup {NoDocument}
             /\ deletion[r].queue \in Seq(Upload)
  BY <1>1 DEF Shapes, Deletions
<1>3. TypeOK
  BY <1>1, <1>2 DEF TypeOK, Shapes, TheRows, UploadFits, Searches
<1> QED BY <1>3 DEF IInv, AttachmentsAreWhole

\* Whatever fails or dies in between, and however uploads, deletions, the catalogue's
\* among them, messages and searches overlap: what an upload was told is indexed has
\* its file and its points until its row or its document is deleted, a bound row goes
\* with its conversation only, a stored document keeps a row to delete it by, and a
\* search that names no document leaves the answered uploads out.
THEOREM AttachmentsAreAlwaysWhole == Spec => []AttachmentsAreWhole
<1>1. IInv /\ [Next]_vars => IInv'
  BY StepIsSound
<1> QED BY InitIsSound, <1>1, InvariantIsWhole, PTL DEF Spec
-------------------------------------------------------------------------------
(* The quotas.  The bytes of a conversation are counted as a set of pairs, *)
(* so what a row adds is the cardinality of a union.                       *)

WithinQuota(c) ==
  /\ Cardinality(Attached(c)) <= MaxAttachments
  /\ IsFiniteSet(Bytes(Attached(c))) /\ TotalSize(Attached(c)) <= MaxBytes

\* No attachment comes into a conversation, and none that stays grows.
KeepsSize(v) ==
  row'[v] # Absent => row[v] # Absent /\ home'[v] = home[v] /\ row'[v].size = row[v].size

LEMMA FewerFit ==
  ASSUME NEW c \in Conversation, WithinQuota(c), \A v \in Upload : KeepsSize(v)
  PROVE  WithinQuota(c)'
<1>1. Attached(c)' \subseteq Attached(c) /\ Bytes(Attached(c))' \subseteq Bytes(Attached(c))
  BY DEF KeepsSize, Attached, Bytes
<1>2. IsFiniteSet(Attached(c)) /\ IsFiniteSet(Bytes(Attached(c)))
  BY WhoIsWho, FS_Subset DEF Attached, WithinQuota
<1>3. /\ Cardinality(Attached(c)') <= Cardinality(Attached(c))
      /\ IsFiniteSet(Bytes(Attached(c))') /\ Cardinality(Bytes(Attached(c))') <= Cardinality(Bytes(Attached(c)))
  BY <1>1, <1>2, FS_Subset
<1>4. /\ IsFiniteSet(Attached(c)')
  BY <1>1, <1>2, FS_Subset
<1> QED BY <1>2, <1>3, <1>4, WhoIsWho, FS_CardinalityType DEF WithinQuota, TotalSize

\* The transaction that inserts a row has counted first.
LEMMA InsertedFits ==
  ASSUME IInv, NEW u \in Upload, CreatePending(u), NEW c \in Conversation, WithinQuota(c)
  PROVE  WithinQuota(c)'
<1> USE WhoIsWho
<1>1. Shapes /\ phase[u] = "reading" /\ row[u] = Absent
  BY DEF IInv, UploadFits, CreatePending
<1>2. PICK size \in Sizes, s \in {"pending", "failed"} :
        Admitted(home[u], size) /\ row' = [row EXCEPT ![u] = Inserted(s, size)] /\ home' = home
  BY DEF CreatePending, Answer
<1>3. /\ row'[u].size = size /\ row'[u] # Absent
      /\ \A v \in Upload \ {u} : row'[v] = row[v]
  BY <1>1, <1>2, NewRow, AbsentRow DEF Shapes, TheRows
<1>4. CASE home[u] # c
  <2>1. Attached(c)' = Attached(c)
    BY <1>1, <1>2, <1>3, <1>4 DEF Attached
  <2>2. Bytes(Attached(c))' = Bytes(Attached(c))
    BY <1>2, <1>3, <1>4, <2>1 DEF Bytes, Attached
  <2> QED BY <2>1, <2>2 DEF WithinQuota, TotalSize
<1>5. CASE home[u] = c
  <2> DEFINE had == Attached(c)
             new == {u} \X (1 .. size)
  <2>1. Attached(c)' = had \cup {u} /\ u \notin had
    BY <1>1, <1>2, <1>3, <1>5 DEF Attached
  <2>2. Bytes(Attached(c))' = Bytes(had) \cup new
    BY <1>2, <1>3, <1>5, <2>1 DEF Bytes, Attached
  <2>3. IsFiniteSet(had) /\ IsFiniteSet(Bytes(had))
    BY FS_Subset DEF Attached, WithinQuota
  <2>4. Cardinality(had) < MaxAttachments /\ Cardinality(Bytes(had)) + size <= MaxBytes
    BY <1>2, <1>5 DEF Admitted, TotalSize
  <2>5. IsFiniteSet(new) /\ Cardinality(new) = size
    <3>1. IsFiniteSet(1 .. size) /\ Cardinality(1 .. size) = size /\ size \in Nat
      BY FS_Interval
    <3>2. IsFiniteSet({u}) /\ Cardinality({u}) = 1
      BY FS_Singleton
    <3> DEFINE A == {u}
               B == 1 .. size
    <3> HIDE DEF A, B
    <3>3. IsFiniteSet(A \X B) /\ Cardinality(A \X B) = Cardinality(A) * Cardinality(B)
      BY <3>1, <3>2, FS_Product DEF A, B
    <3>4. Cardinality(A) = 1 /\ Cardinality(B) = size /\ new = A \X B
      BY <3>1, <3>2 DEF A, B
    <3> HIDE DEF new
    <3>5. Cardinality(A \X B) = size
      BY <3>1, <3>3, <3>4
    <3> QED BY <3>3, <3>4, <3>5
  <2> HIDE DEF had, new
  <2>6. IsFiniteSet(Bytes(had) \cup new) /\ Cardinality(Bytes(had) \cup new) <= Cardinality(Bytes(had)) + size
    <3>1. Bytes(had) \cap new \in SUBSET new
      OBVIOUS
    <3>2. Cardinality(Bytes(had) \cap new) \in Nat /\ Cardinality(Bytes(had)) \in Nat
      BY <2>3, <2>5, <3>1, FS_Subset, FS_CardinalityType
    <3>3. /\ IsFiniteSet(Bytes(had) \cup new)
          /\ Cardinality(Bytes(had) \cup new)
               = Cardinality(Bytes(had)) + Cardinality(new) - Cardinality(Bytes(had) \cap new)
      BY <2>3, <2>5, FS_Union
    <3> QED BY <2>5, <3>2, <3>3
  <2>7. Cardinality(had \cup {u}) = Cardinality(had) + 1 /\ Cardinality(had) \in Nat
    BY <2>1, <2>3, FS_AddElement, FS_CardinalityType
  <2>8. Cardinality(Bytes(had) \cup new) \in Nat /\ Cardinality(Bytes(had)) \in Nat
    BY <2>3, <2>6, FS_CardinalityType
  <2>9. Cardinality(Attached(c)') <= MaxAttachments
    BY <2>1, <2>4, <2>7
  <2>10. IsFiniteSet(Bytes(Attached(c))') /\ Cardinality(Bytes(Attached(c))') <= MaxBytes
    BY <2>2, <2>4, <2>6, <2>8
  <2> QED BY <2>9, <2>10 DEF WithinQuota, TotalSize
<1> QED BY <1>4, <1>5

\* Nothing else adds to a conversation.
LEMMA OthersKeepSizes ==
  ASSUME IInv, [Next]_vars, \A u \in Upload : ~CreatePending(u), NEW v \in Upload
  PROVE  KeepsSize(v)
<1> USE WhoIsWho
<1>1. Shapes /\ UploadFits(v)
  BY DEF IInv
<1>2. CASE UNCHANGED <<row, home>>
  BY <1>2 DEF KeepsSize
<1>3. ASSUME NEW u \in Upload, Request(u) PROVE KeepsSize(v)
  BY <1>1, <1>3 DEF Request, KeepsSize, chat, UploadFits, Shapes
<1>4. ASSUME NEW u \in Upload, UploadFails(u) \/ Compensate(u) \/ Compensated(u) \/ Finalize(u)
      PROVE  KeepsSize(v)
  <2>1. home' = home /\ (v # u => row'[v] = row[v])
    BY <1>1, <1>4 DEF Shapes, TheRows, UploadFails, Compensate, Compensated, Finalize, MarkFailed, MarkIndexed,
       MarkCleanupRequired, Answer
  <2>2. /\ row'[u].size = row[u].size
        /\ row[u] = Absent => row'[u] = Absent
    <3>1. MarkFailed(u) \/ UNCHANGED row \/ MarkCleanupRequired(u) \/ (Pending(u) /\ MarkIndexed(u))
      BY <1>4 DEF UploadFails, Compensate, Compensated, Finalize
    <3>2. row[u] = Absent => ~Pending(u)
      BY AbsentRow DEF Pending
    <3>3. row[u] = Absent => row'[u] = Absent
      BY <3>1, <3>2 DEF MarkFailed, MarkCleanupRequired
    <3> QED BY <1>1, <3>1, <3>3, MarkedFailed, MarkedForCleanup, MarkedIndexed DEF Shapes
  <2> QED BY <2>1, <2>2 DEF KeepsSize
<1>5. ASSUME CreateMessage PROVE KeepsSize(v)
  <2>1. row'[v] = row[v] \/ (\E m : row[v].status = "indexed" /\ row'[v] = [row[v] EXCEPT !.message = m])
    BY <1>5 DEF CreateMessage, Bindable
  <2>2. row[v] \in Rows \cup {Absent} /\ home' = home
    BY <1>1, <1>5 DEF Shapes, TheRows, CreateMessage, uploads
  <2> QED BY <2>1, <2>2, AbsentRow DEF KeepsSize, Rows
<1>6. ASSUME NEW r \in Deletion,
             \/ DeleteAttachment(r) \/ DeleteConversation(r) \/ Deleted(r)
      PROVE  KeepsSize(v)
  <2>1. home' = home
    BY <1>6 DEF DeleteAttachment, DeleteConversation, Deleted, uploads
  <2>2. \/ row'[v] = row[v] \/ row'[v] = Absent
        \/ row[v] # Absent /\ row'[v] = [row[v] EXCEPT !.status = "deleting"]
    <3>1. CASE DeleteAttachment(r)
      BY <1>1, <3>1, AbsentRow DEF DeleteAttachment, BeginDelete, Deleting, Forgotten, Shapes, TheRows
    <3>2. ASSUME NEW c, NEW queue, NEW rows \in TheRows, NextTarget(r, c, queue, rows)
          PROVE  \/ row'[v] = rows[v] \/ row'[v] = Absent
                 \/ rows[v] # Absent /\ row'[v] = [rows[v] EXCEPT !.status = "deleting"]
      BY <3>2 DEF NextTarget, BeginDelete, Deleting, TheRows
    <3>3. CASE DeleteConversation(r)
      BY <1>1, <3>2, <3>3 DEF DeleteConversation, Shapes
    <3>4. CASE Deleted(r)
      <4> DEFINE rows == Forgotten({Head(deletion[r].queue)})
      <4>1. rows \in TheRows /\ (rows[v] = row[v] \/ rows[v] = Absent)
        BY <1>1 DEF Forgotten, TheRows, Shapes
      <4>2. \/ NextTarget(r, deletion[r].of, Tail(deletion[r].queue), rows)
            \/ row' = rows \/ row' = row
        BY <3>4 DEF Deleted, chat
      <4> HIDE DEF rows
      <4> QED BY <4>1, <4>2, <3>2
    <3> QED BY <1>6, <3>1, <3>3, <3>4
  <2>3. row[v] \in Rows \cup {Absent}
    BY <1>1 DEF Shapes, TheRows
  <2> QED BY <2>1, <2>2, <2>3, AbsentRow DEF KeepsSize, Rows
<1> QED BY <1>2, <1>3, <1>4, <1>5, <1>6 DEF Next, vars, chat, uploads, Store, Uploads, Refuse, Answer, Embeds, Upserts,
       Counts, Erases, MetadataStays, DeleteDocument, DocumentDeleted, SearchAsks, SearchFinds, Crash

\* However many uploads overlap, a conversation keeps to its quotas: they are
\* checked again where the row is inserted.
THEOREM QuotaAlwaysHolds == Spec => []QuotaHolds
<1> DEFINE QuotaInv == IInv /\ \A c \in Conversation : WithinQuota(c)
<1>1. Init => QuotaInv
  <2> SUFFICES ASSUME Init, NEW c \in Conversation PROVE WithinQuota(c)
    BY InitIsSound
  <2>1. Attached(c) = {} /\ Bytes({}) = {}
    BY DEF Init, Attached, Bytes
  <2> QED BY <2>1, FS_EmptySet, WhoIsWho DEF WithinQuota, TotalSize
<1>2. QuotaInv /\ [Next]_vars => QuotaInv'
  <2> SUFFICES ASSUME QuotaInv, [Next]_vars, NEW c \in Conversation PROVE WithinQuota(c)'
    BY StepIsSound
  <2>1. CASE \E u \in Upload : CreatePending(u)
    BY <2>1, InsertedFits
  <2>2. CASE \A u \in Upload : ~CreatePending(u)
    BY <2>2, OthersKeepSizes, FewerFit
  <2> QED BY <2>1, <2>2
<1>3. QuotaInv => QuotaHolds
  BY DEF QuotaHolds, WithinQuota
<1> QED BY <1>1, <1>2, <1>3, PTL DEF Spec

-------------------------------------------------------------------------------
(* The algorithms of ChatContext, for every input.  First, numbers.        *)

\* Numbers are well-founded.
LEMMA LeastNumber ==
  ASSUME NEW T \in SUBSET Nat, T # {}
  PROVE  \E x \in T : \A y \in T : x <= y
<1> DEFINE R == OpToRel(<, Nat)
<1>1. \A x, y \in Nat : <<x, y>> \in R <=> x < y
  BY DEF OpToRel
<1>2. \E x \in T : \A y \in T : ~(<<y, x>> \in R)
  <2>1. IsWellFoundedOn(R, Nat)
    BY NatLessThanWellFounded
  <2> HIDE DEF R
  <2> QED BY <2>1, WFMin
<1>3. PICK x \in T : \A y \in T : ~(<<y, x>> \in R)
  BY <1>2
<1> HIDE DEF R
<1>4. ASSUME NEW y \in T PROVE x <= y
  <2>1. x \in Nat /\ y \in Nat /\ ~(y < x)
    BY <1>1, <1>3
  <2> QED BY <2>1
<1> QED
  BY <1>4

\* Induction, for a set of numbers.
LEMMA Inductively ==
  ASSUME NEW T, 0 \in T, \A n \in Nat : n \in T => n + 1 \in T
  PROVE  Nat \subseteq T
<1> SUFFICES ASSUME Nat \ T # {} PROVE FALSE
  OBVIOUS
<1>1. PICK x \in Nat \ T : \A y \in Nat \ T : x <= y
  BY LeastNumber
<1>2. x # 0 /\ x - 1 \in Nat /\ x - 1 \in T
  BY <1>1
<1> QED BY <1>1, <1>2

-------------------------------------------------------------------------------
(* Recursive functions.  The definition of one chooses some function that  *)
(* satisfies its equation; that there is one is shown by iterating.        *)

\* The first steps of an iteration: s, G[0][s], ...
Begun(S, s, G, n) ==
  {g \in [0 .. n -> S] : g[0] = s /\ \A i \in 0 .. n - 1 : g[i + 1] = G[i][g[i]]}

Iterable(S, s, G) == s \in S /\ G \in [Nat -> [S -> S]]

\* An iteration can be begun, in one way only, ...
LEMMA BegunOnce ==
  ASSUME NEW S, NEW s, NEW G, Iterable(S, s, G)
  PROVE  /\ \A n \in Nat : Begun(S, s, G, n) # {}
         /\ \A n, m \in Nat : \A g \in Begun(S, s, G, n), h \in Begun(S, s, G, m) :
              \A i \in 0 .. n : i <= m => g[i] = h[i]
<1>0. s \in S /\ G \in [Nat -> [S -> S]]
  BY DEF Iterable
<1>1. \A n \in Nat : Begun(S, s, G, n) # {}
  <2> DEFINE T == {n \in Nat : Begun(S, s, G, n) # {}}
  <2>1. 0 \in T
    <3>1. [i \in 0 .. 0 |-> s] \in Begun(S, s, G, 0)
      BY <1>0 DEF Begun
    <3> QED BY <3>1
  <2>2. ASSUME NEW n \in Nat, n \in T PROVE n + 1 \in T
    <3>1. PICK g \in [0 .. n -> S] : g[0] = s /\ \A i \in 0 .. n - 1 : g[i + 1] = G[i][g[i]]
      BY <2>2 DEF Begun
    <3> DEFINE h == [i \in 0 .. n + 1 |-> IF i <= n THEN g[i] ELSE G[n][g[n]]]
    <3>2. g[n] \in S /\ G[n] \in [S -> S] /\ G[n][g[n]] \in S
      BY <1>0, <3>1
    <3>3. h \in [0 .. n + 1 -> S]
      BY <3>1, <3>2
    <3>4. h[0] = s
      BY <3>1
    <3>5. ASSUME NEW i \in 0 .. (n + 1) - 1 PROVE h[i + 1] = G[i][h[i]]
      <4>1. CASE i = n
        BY <4>1
      <4>2. CASE i < n
        <5>1. i \in 0 .. n - 1 /\ i + 1 \in 0 .. n + 1 /\ i + 1 <= n
          BY <4>2
        <5> QED BY <3>1, <5>1
      <4> QED BY <4>1, <4>2
    <3> HIDE DEF h
    <3>6. h \in Begun(S, s, G, n + 1)
      BY <3>3, <3>4, <3>5 DEF Begun
    <3> QED BY <3>6
  <2> HIDE DEF T
  <2>3. Nat \subseteq T
    BY <2>1, <2>2, Inductively
  <2> QED BY <2>3 DEF T
<1>2. ASSUME NEW n \in Nat, NEW m \in Nat,
             NEW g \in Begun(S, s, G, n), NEW h \in Begun(S, s, G, m)
      PROVE  \A i \in 0 .. n : i <= m => g[i] = h[i]
  <2> DEFINE T == {i \in Nat : i <= n /\ i <= m => g[i] = h[i]}
  <2>1. /\ g[0] = s /\ \A i \in 0 .. n - 1 : g[i + 1] = G[i][g[i]]
        /\ h[0] = s /\ \A i \in 0 .. m - 1 : h[i + 1] = G[i][h[i]]
    BY DEF Begun
  <2>2. 0 \in T
    BY <2>1
  <2>3. ASSUME NEW i \in Nat, i \in T PROVE i + 1 \in T
    BY <2>1, <2>3
  <2> HIDE DEF T
  <2>4. Nat \subseteq T
    BY <2>2, <2>3, Inductively
  <2> QED BY <2>4 DEF T
<1> QED
  BY <1>1, <1>2

\* ... so it goes on for ever.
Iterates(f, S, s, G) ==
  f \in [Nat -> S] /\ f[0] = s /\ \A n \in Nat : f[n + 1] = G[n][f[n]]
LEMMA IterationExists ==
  ASSUME NEW S, NEW s, NEW G, Iterable(S, s, G)
  PROVE  \E f : Iterates(f, S, s, G)
<1> DEFINE first(n) == CHOOSE g : g \in Begun(S, s, G, n)
           f == [n \in Nat |-> first(n)[n]]
<1>1. \A n \in Nat : first(n) \in Begun(S, s, G, n)
  BY BegunOnce
<1> HIDE DEF first
<1>2. \A n \in Nat : first(n)[n] \in S
  BY <1>1 DEF Begun
<1>3. f[0] = s
  BY <1>1 DEF Begun
<1>4. ASSUME NEW n \in Nat PROVE f[n + 1] = G[n][f[n]]
  <2>1. first(n + 1)[n + 1] = G[n][first(n + 1)[n]]
    BY <1>1 DEF Begun
  <2>2. first(n + 1)[n] = first(n)[n]
    <3>1. n + 1 \in Nat /\ n \in 0 .. n + 1 /\ n <= n
      OBVIOUS
    <3>2. first(n + 1) \in Begun(S, s, G, n + 1) /\ first(n) \in Begun(S, s, G, n)
      BY <1>1
    <3>3. \A g \in Begun(S, s, G, n + 1), h \in Begun(S, s, G, n) :
            \A i \in 0 .. n + 1 : i <= n => g[i] = h[i]
      <4>1. \A k, m \in Nat : \A g \in Begun(S, s, G, k), h \in Begun(S, s, G, m) :
              \A i \in 0 .. k : i <= m => g[i] = h[i]
        BY BegunOnce
      <4> QED BY <3>1, <4>1, Zenon
    <3> QED BY <3>1, <3>2, <3>3
  <2> QED BY <2>1, <2>2
<1>5. f \in [Nat -> S]
  BY <1>2
<1> HIDE DEF f
<1> QED
  BY <1>3, <1>4, <1>5 DEF Iterates

-------------------------------------------------------------------------------
(* Chunks.                                                                 *)

\* A bounded set of numbers has a largest one.
LEMMA LargestIs ==
  ASSUME NEW T \in SUBSET Nat, T # {}, NEW n \in Nat, \A m \in T : m <= n
  PROVE  Largest(T) \in T /\ \A m \in T : m <= Largest(T)
<1> DEFINE D == {n - m : m \in T}
<1>1. D \in SUBSET Nat /\ D # {}
  <2>1. ASSUME NEW m \in T PROVE n - m \in Nat
    <3>1. m \in Nat /\ m <= n
      OBVIOUS
    <3> QED BY <3>1
  <2> QED BY <2>1
<1>2. PICK x \in D : \A y \in D : x <= y
  BY <1>1, LeastNumber
<1>3. PICK k \in T : x = n - k
  BY <1>2
<1>4. ASSUME NEW m \in T PROVE m <= k
  <2>1. n - k <= n - m
    BY <1>2, <1>3
  <2> QED BY <2>1
<1> QED
  BY <1>4 DEF Largest

\* A chunk ends where its text ends, a chunk size after its start, or in the second half.
LEMMA ChunkEndFits ==
  ASSUME NEW t \in Text, NEW s \in Nat
  PROVE  LET e == ChunkEnd(t, s) IN
         /\ e \in Nat /\ e <= t.length /\ (s >= t.length => e = t.length)
         /\ s < t.length => s < e /\ e <= s + ChunkSize
         /\ e = t.length \/ e = s + ChunkSize \/ s + (ChunkSize \div 2) + 2 <= e
<1> DEFINE target == IF s + ChunkSize < t.length THEN s + ChunkSize ELSE t.length
           whole  == {b \in t.blanks : b < target} \cup {b \in t.paragraphs : b + 1 < target}
           late   == {b \in whole : s + (ChunkSize \div 2) < b}
           half   == ChunkSize \div 2
<1>1. /\ t.length \in Nat /\ t.blanks \subseteq Nat /\ t.paragraphs \subseteq Nat
      /\ ChunkSize \in Nat /\ ChunkSize > 0 /\ half \in Nat
  BY ContextAssumption DEF Text
<1>2. target \in Nat /\ target <= t.length /\ target <= s + ChunkSize
      /\ (target < t.length => target = s + ChunkSize)
      /\ (s < t.length => s < target) /\ (s >= t.length => target = t.length)
  BY <1>1
<1>3. late \subseteq Nat /\ \A b \in late : b < target /\ s + half < b
  <2>1. whole \subseteq Nat /\ \A b \in whole : b < target
    BY <1>1, <1>2
  <2> QED BY <2>1
<1>4. ChunkEnd(t, s) = IF target < t.length /\ late # {} THEN Largest(late) + 1 ELSE target
  BY DEF ChunkEnd
<1> HIDE DEF late, target, half
<1>5. CASE target < t.length /\ late # {}
  <2> DEFINE b == Largest(late)
  <2>1. b \in late
    <3>1. late \in SUBSET Nat /\ \A m \in late : m <= target
      BY <1>2, <1>3
    <3> QED BY <1>2, <1>5, <3>1, LargestIs
  <2> HIDE DEF b
  <2>a. b \in Nat /\ b < target /\ s + half < b /\ half \in Nat
    BY <1>1, <1>3, <2>1 DEF half
  <2>2. b + 1 \in Nat /\ b + 1 <= target /\ s + half + 2 <= b + 1
    BY <1>2, <2>a
  <2>3. ChunkEnd(t, s) = b + 1
    BY <1>4, <1>5 DEF b
  <2> QED BY <1>1, <1>2, <1>5, <2>2, <2>3 DEF half
<1>6. CASE ~(target < t.length /\ late # {})
  <2>1. ChunkEnd(t, s) = target
    BY <1>4, <1>6
  <2> QED BY <1>1, <1>2, <2>1
<1> QED
  BY <1>5, <1>6

\* The next chunk starts later, and not after the end of this one.
LEMMA NextStartFits ==
  ASSUME NEW s \in Nat, NEW e \in Nat
  PROVE  /\ NextStart(s, e) \in Nat /\ s < NextStart(s, e)
         /\ s < e => NextStart(s, e) <= e /\ e - Overlap <= NextStart(s, e)
BY ContextAssumption DEF NextStart

\* The starts of the chunks are what their definition says.
LEMMA StartsAre ==
  ASSUME NEW t \in Text
  PROVE  /\ Starts(t) \in [Nat -> Nat] /\ Starts(t)[0] = 0
         /\ \A i \in Nat : Starts(t)[i + 1] = NextStart(Starts(t)[i], ChunkEnd(t, Starts(t)[i]))
<1> DEFINE next == [s \in Nat |-> NextStart(s, ChunkEnd(t, s))]
           G == [n \in Nat |-> next]
<1>1. next \in [Nat -> Nat]
  BY ChunkEndFits, NextStartFits
<1>2. G \in [Nat -> [Nat -> Nat]]
  BY <1>1
<1>3. PICK f \in [Nat -> Nat] : f[0] = 0 /\ \A n \in Nat : f[n + 1] = G[n][f[n]]
  <2> HIDE DEF G
  <2>1. Iterable(Nat, 0, G)
    BY <1>2 DEF Iterable
  <2>2. PICK f : Iterates(f, Nat, 0, G)
    BY <2>1, IterationExists
  <2> QED BY <2>2 DEF Iterates
<1>4. \A n \in Nat : f[n + 1] = NextStart(f[n], ChunkEnd(t, f[n]))
  BY <1>3
<1> DEFINE Is(g) ==
      g = [i \in Nat |-> IF i = 0 THEN 0 ELSE NextStart(g[i - 1], ChunkEnd(t, g[i - 1]))]
<1>5. Is(f)
  <2>1. ASSUME NEW i \in Nat, i # 0 PROVE f[i] = NextStart(f[i - 1], ChunkEnd(t, f[i - 1]))
    <3>1. i - 1 \in Nat /\ (i - 1) + 1 = i
      BY <2>1
    <3> QED BY <1>4, <3>1
  <2> QED BY <1>3, <2>1
<1>6. Starts(t) = CHOOSE g : Is(g)
  BY DEF Starts
<1> HIDE DEF Is
<1>7. Is(Starts(t))
  BY <1>5, <1>6, Zenon
<1>8. Starts(t) = [i \in Nat |->
        IF i = 0 THEN 0 ELSE NextStart(Starts(t)[i - 1], ChunkEnd(t, Starts(t)[i - 1]))]
  BY <1>7 DEF Is
<1> DEFINE g == Starts(t)
<1>9. g[0] = 0 /\ \A i \in Nat : g[i + 1] = NextStart(g[i], ChunkEnd(t, g[i]))
  <2>1. g[0] = 0
    BY <1>8
  <2>2. ASSUME NEW i \in Nat PROVE g[i + 1] = NextStart(g[i], ChunkEnd(t, g[i]))
    <3>1. i + 1 \in Nat /\ i + 1 # 0 /\ (i + 1) - 1 = i
      OBVIOUS
    <3> HIDE DEF g
    <3>2. g = [j \in Nat |-> IF j = 0 THEN 0 ELSE NextStart(g[j - 1], ChunkEnd(t, g[j - 1]))]
      BY <1>8 DEF g
    <3> QED BY <3>1, <3>2
  <2> QED BY <2>1, <2>2
<1>10. \A i \in Nat : g[i] \in Nat
  <2> DEFINE T == {i \in Nat : g[i] \in Nat}
  <2>1. 0 \in T
    BY <1>9
  <2>2. ASSUME NEW i \in Nat, i \in T PROVE i + 1 \in T
    <3>1. g[i] \in Nat /\ ChunkEnd(t, g[i]) \in Nat
      BY <2>2, ChunkEndFits
    <3>2. NextStart(g[i], ChunkEnd(t, g[i])) \in Nat
      BY <3>1, NextStartFits
    <3> QED BY <1>9, <3>2
  <2> HIDE DEF T
  <2>3. Nat \subseteq T
    BY <2>1, <2>2, Inductively
  <2> QED BY <2>3 DEF T
<1>11. DOMAIN g = Nat /\ g = [i \in DOMAIN g |-> g[i]]
  BY <1>8
<1> QED
  BY <1>9, <1>10, <1>11

\* The chunk of index i is within the text if those before it do not reach its end.
Reaches(t, i) == ChunkEnd(t, Starts(t)[i]) >= t.length

LEMMA StartsFit ==
  ASSUME NEW t \in Text, t.length # 0
  PROVE  /\ \A i \in Nat : i <= Starts(t)[i]
         /\ \A i \in Nat : (\A j \in 0 .. i - 1 : ~Reaches(t, j)) => Starts(t)[i] < t.length
<1> DEFINE g == Starts(t)
<1>0. /\ t.length \in Nat /\ g \in [Nat -> Nat] /\ g[0] = 0
      /\ \A i \in Nat : g[i + 1] = NextStart(g[i], ChunkEnd(t, g[i]))
      /\ \A i \in Nat : Reaches(t, i) <=> ChunkEnd(t, g[i]) >= t.length
  BY StartsAre DEF Text, Reaches
<1> HIDE DEF g
<1>1. \A i \in Nat : i <= g[i]
  <2> DEFINE T == {i \in Nat : i <= g[i]}
  <2>1. 0 \in T
    BY <1>0
  <2>2. ASSUME NEW i \in Nat, i \in T PROVE i + 1 \in T
    <3>1. g[i] \in Nat /\ ChunkEnd(t, g[i]) \in Nat
      BY <1>0, ChunkEndFits
    <3>2. g[i + 1] \in Nat /\ g[i] < g[i + 1]
      BY <1>0, <3>1, NextStartFits
    <3> QED BY <2>2, <3>1, <3>2
  <2> HIDE DEF T
  <2>3. Nat \subseteq T
    BY <2>1, <2>2, Inductively
  <2> QED BY <2>3 DEF T
<1>2. \A i \in Nat : (\A j \in 0 .. i - 1 : ~Reaches(t, j)) => g[i] < t.length
  <2> DEFINE T == {i \in Nat : (\A j \in 0 .. i - 1 : ~Reaches(t, j)) => g[i] < t.length}
  <2>1. 0 \in T
    BY <1>0
  <2>2. ASSUME NEW i \in Nat, i \in T PROVE i + 1 \in T
    <3> SUFFICES ASSUME \A j \in 0 .. (i + 1) - 1 : ~Reaches(t, j) PROVE g[i + 1] < t.length
      OBVIOUS
    <3>1. g[i] < t.length /\ ~Reaches(t, i) /\ g[i] \in Nat
      BY <1>0, <2>2
    <3>2. ChunkEnd(t, g[i]) \in Nat /\ g[i] < ChunkEnd(t, g[i]) /\ ChunkEnd(t, g[i]) < t.length
      BY <1>0, <3>1, ChunkEndFits
    <3>3. g[i + 1] <= ChunkEnd(t, g[i]) /\ g[i + 1] \in Nat
      BY <1>0, <3>1, <3>2, NextStartFits
    <3> QED BY <1>0, <3>2, <3>3
  <2> HIDE DEF T
  <2>3. Nat \subseteq T
    BY <2>1, <2>2, Inductively
  <2> QED BY <2>3 DEF T
<1> QED
  BY <1>1, <1>2 DEF g

\* The chunks go up to the first that reaches the end of the text.
LEMMA ChunksAre ==
  ASSUME NEW t \in Text, t.length # 0
  PROVE  \E last \in Nat :
           /\ Reaches(t, last) /\ \A j \in 0 .. last - 1 : ~Reaches(t, j)
           /\ Chunks(t) = [i \in 0 .. last |->
                             [start |-> Starts(t)[i], end |-> ChunkEnd(t, Starts(t)[i])]]
<1> DEFINE n == t.length
           R == {i \in Nat : Reaches(t, i)}
           end(i) == ChunkEnd(t, Starts(t)[i])
           Is(i) == end(i) >= n /\ \A j \in 0 .. i - 1 : ~(end(j) >= n)
           last == CHOOSE i \in 0 .. n - 1 : Is(i)
<1>1. n \in Nat /\ Starts(t) \in [Nat -> Nat]
  BY StartsAre DEF Text
<1>2. n \in R
  <2>1. Starts(t)[n] \in Nat /\ n <= Starts(t)[n]
    BY <1>1, StartsFit
  <2>2. ChunkEnd(t, Starts(t)[n]) = t.length
    BY <2>1, ChunkEndFits
  <2> QED BY <1>1, <2>2 DEF Reaches
<1>3. PICK x \in R : \A y \in R : x <= y
  <2>1. R \in SUBSET Nat /\ R # {}
    BY <1>2
  <2> HIDE DEF R
  <2> QED BY <2>1, LeastNumber
<1>4. x \in Nat /\ Is(x) /\ \A j \in 0 .. x - 1 : ~Reaches(t, j)
  BY <1>3 DEF Reaches
<1>5. x \in 0 .. n - 1
  <2>1. x <= Starts(t)[x] /\ Starts(t)[x] < n /\ Starts(t)[x] \in Nat
    BY <1>1, <1>4, StartsFit
  <2> QED BY <1>1, <1>4, <2>1
<1> HIDE DEF Is
<1>6. Is(last) /\ last \in 0 .. n - 1
  BY <1>4, <1>5
<1>7. last \in Nat
  BY <1>1, <1>6
<1>8. Chunks(t) = [i \in 0 .. last |-> [start |-> Starts(t)[i], end |-> end(i)]]
  BY DEF Chunks, Is
<1> HIDE DEF last
<1> QED
  BY <1>6, <1>7, <1>8 DEF Is, Reaches

\* Nothing of a text is lost by chunk_text, whatever the overlap.
THEOREM ChunksLoseNothing == \A t \in Text : NothingLost(Chunks(t), t)
<1> SUFFICES ASSUME NEW t \in Text PROVE NothingLost(Chunks(t), t)
  OBVIOUS
<1>0. t.length \in Nat /\ ChunkSize \in Nat
  BY ContextAssumption DEF Text
<1>1. CASE t.length = 0
  <2>1. Chunks(t) = <<>>
    BY <1>1 DEF Chunks
  <2> QED BY <1>1, <2>1 DEF NothingLost
<1>2. CASE t.length # 0
  <2> DEFINE g == Starts(t)
             end(i) == ChunkEnd(t, g[i])
             C == Chunks(t)
  <2>1. PICK last \in Nat :
           /\ Reaches(t, last) /\ \A j \in 0 .. last - 1 : ~Reaches(t, j)
           /\ C = [i \in 0 .. last |-> [start |-> g[i], end |-> end(i)]]
    BY <1>2, ChunksAre
  <2>2. /\ g \in [Nat -> Nat] /\ g[0] = 0 /\ end(last) >= t.length
        /\ \A i \in Nat : g[i + 1] = NextStart(g[i], end(i))
    BY <2>1, StartsAre DEF Reaches
  <2>3. ASSUME NEW i \in 0 .. last
        PROVE  /\ g[i] \in Nat /\ end(i) \in Nat /\ g[i] < t.length
               /\ g[i] < end(i) /\ end(i) <= g[i] + ChunkSize
    <3>1. i \in Nat /\ \A j \in 0 .. i - 1 : ~Reaches(t, j)
      BY <2>1
    <3>2. g[i] \in Nat /\ g[i] < t.length
      BY <1>2, <2>2, <3>1, StartsFit
    <3> QED BY <3>2, ChunkEndFits
  <2>4. /\ DOMAIN C = 0 .. last
        /\ \A i \in 0 .. last : C[i].start = g[i] /\ C[i].end = end(i)
    BY <2>1
  <2> HIDE DEF C, g, end
  <2>5. ASSUME NEW p \in 0 .. t.length - 1
        PROVE  \E i \in 0 .. last : g[i] <= p /\ p < end(i)
    <3> DEFINE L == {i \in 0 .. last : p < g[i]}
    <3>1. CASE L = {}
      <4>1. last \in 0 .. last
        OBVIOUS
      <4>2. g[last] \in Nat /\ end(last) \in Nat /\ ~(p < g[last])
        BY <2>3, <3>1, <4>1
      <4>3. g[last] <= p /\ p < end(last)
        BY <1>0, <2>2, <4>2
      <4> QED BY <4>1, <4>3
    <3>2. CASE L # {}
      <4>1. PICK x \in L : \A y \in L : x <= y
        <5>1. L \in SUBSET Nat
          OBVIOUS
        <5> HIDE DEF L
        <5> QED BY <3>2, <5>1, LeastNumber
      <4>2. x # 0 /\ x - 1 \in 0 .. last /\ x - 1 \in Nat /\ (x - 1) + 1 = x
        BY <2>2, <4>1
      <4>3. g[x - 1] <= p
        BY <2>3, <4>1, <4>2
      <4>4. g[x] = NextStart(g[x - 1], end(x - 1))
        BY <2>2, <4>2
      <4>5. g[x] <= end(x - 1) /\ g[x] \in Nat /\ end(x - 1) \in Nat
        BY <2>3, <4>2, <4>4, NextStartFits
      <4>6. p < end(x - 1)
        BY <4>1, <4>5
      <4> QED BY <4>2, <4>3, <4>6
    <3> QED BY <3>1, <3>2
  <2>6. ASSUME NEW i \in 0 .. last PROVE end(i) - g[i] \in 1 .. ChunkSize
    BY <1>0, <2>3
  <2> QED BY <2>4, <2>5, <2>6 DEF NothingLost, C
<1> QED
  BY <1>1, <1>2

\* The overlap is at most about half of a chunk: 150 of 900 as configured
\* (knowledge/config.py).  chunk_text accepts more, and then a chunk that ends early may
\* be followed by one that lies within it.
ModestOverlap == Overlap <= (ChunkSize \div 2) + 1

\* With a modest overlap every chunk of chunk_text adds to the ones before it.
THEOREM EachChunkAdds ==
  ASSUME ModestOverlap
  PROVE  \A t \in Text : EachAdds(Chunks(t))
<1> SUFFICES ASSUME NEW t \in Text PROVE EachAdds(Chunks(t))
  OBVIOUS
<1>0. t.length \in Nat /\ ChunkSize \in Nat /\ ChunkSize > 0 /\ Overlap \in Nat
      /\ Overlap < ChunkSize /\ ChunkSize \div 2 \in Nat
  BY ContextAssumption DEF Text
<1>1. CASE t.length = 0
  <2>1. Chunks(t) = <<>>
    BY <1>1 DEF Chunks
  <2> QED BY <1>1, <2>1 DEF EachAdds
<1>2. CASE t.length # 0
  <2> DEFINE g == Starts(t)
             end(i) == ChunkEnd(t, g[i])
             C == Chunks(t)
  <2>1. PICK last \in Nat :
           /\ Reaches(t, last) /\ \A j \in 0 .. last - 1 : ~Reaches(t, j)
           /\ C = [i \in 0 .. last |-> [start |-> g[i], end |-> end(i)]]
    BY <1>2, ChunksAre
  <2>2. /\ g \in [Nat -> Nat] /\ \A j \in 0 .. last - 1 : ~(end(j) >= t.length)
        /\ \A i \in Nat : g[i + 1] = NextStart(g[i], end(i))
    BY <2>1, StartsAre DEF Reaches
  <2>3. ASSUME NEW i \in 0 .. last
        PROVE  /\ g[i] \in Nat /\ end(i) \in Nat /\ g[i] < t.length /\ g[i] < end(i)
               /\ \/ end(i) = t.length \/ end(i) = g[i] + ChunkSize
                  \/ g[i] + (ChunkSize \div 2) + 2 <= end(i)
    <3>1. i \in Nat /\ \A j \in 0 .. i - 1 : ~Reaches(t, j)
      BY <2>1
    <3>2. g[i] \in Nat /\ g[i] < t.length
      BY <1>2, <2>2, <3>1, StartsFit
    <3> QED BY <3>2, ChunkEndFits
  <2>4. /\ DOMAIN C = 0 .. last
        /\ \A i \in 0 .. last : C[i].end = end(i)
    BY <2>1
  <2> HIDE DEF C, g, end
  <2>5. ASSUME NEW i \in 0 .. last - 1 PROVE end(i) < end(i + 1)
    <3>1. i \in 0 .. last /\ i + 1 \in 0 .. last /\ i \in Nat /\ end(i) < t.length
      BY <1>0, <2>2, <2>3
    <3>2. g[i + 1] >= end(i) - Overlap
      <4>1. g[i + 1] = NextStart(g[i], end(i))
        BY <2>2, <3>1
      <4>2. g[i] \in Nat /\ end(i) \in Nat /\ g[i] < end(i)
        BY <2>3, <3>1
      <4>3. end(i) - Overlap <= NextStart(g[i], end(i)) /\ NextStart(g[i], end(i)) \in Nat
        BY <4>2, NextStartFits
      <4> QED BY <1>0, <4>1, <4>2, <4>3
    <3>3. /\ end(i) \in Nat /\ g[i + 1] \in Nat /\ end(i + 1) \in Nat
      BY <2>3, <3>1
    <3>4. \/ end(i + 1) = t.length \/ end(i + 1) = g[i + 1] + ChunkSize
          \/ g[i + 1] + (ChunkSize \div 2) + 2 <= end(i + 1)
      BY <2>3, <3>1
    <3> QED BY <1>0, <3>1, <3>2, <3>3, <3>4 DEF ModestOverlap
  <2>6. ASSUME NEW i \in 0 .. last, NEW j \in 0 .. last, i < j PROVE end(i) < end(j)
    <3> DEFINE T == {k \in Nat : i + 1 + k <= last => end(i) < end(i + 1 + k)}
    <3>1. 0 \in T
      BY <2>5
    <3>2. ASSUME NEW k \in Nat, k \in T PROVE (k + 1) \in T
      <4> SUFFICES ASSUME i + 1 + (k + 1) <= last PROVE end(i) < end(i + 1 + (k + 1))
        OBVIOUS
      <4> DEFINE m == i + 1 + k
      <4>1. m \in 0 .. last - 1 /\ m \in 0 .. last /\ m + 1 \in 0 .. last /\ i + 1 + (k + 1) = m + 1
        OBVIOUS
      <4>2. end(i) < end(m)
        BY <3>2
      <4> HIDE DEF m
      <4>3. end(m) < end(m + 1)
        BY <2>5, <4>1
      <4>4. end(i) \in Nat /\ end(m) \in Nat /\ end(m + 1) \in Nat
        BY <2>3, <4>1
      <4> QED BY <4>1, <4>2, <4>3, <4>4
    <3> HIDE DEF T
    <3>3. Nat \subseteq T
      BY <3>1, <3>2, Inductively
    <3>4. j - i - 1 \in Nat /\ i + 1 + (j - i - 1) = j
      BY <2>6
    <3>5. j - i - 1 \in T
      BY <3>3, <3>4
    <3> QED BY <3>4, <3>5 DEF T
  <2> QED BY <2>4, <2>6 DEF EachAdds, C
<1> QED
  BY <1>1, <1>2

\* Both, for any texts: the search sees the whole document, and the loop of chunk_text
\* makes progress.
THEOREM ChunksAlwaysCoverText ==
  ASSUME ModestOverlap
  PROVE  InputSpec => []ChunksCoverText
<1>1. Texts \subseteq Text
  BY ContextAssumption
<1>2. InputInit => ChunksCoverText
  BY <1>1, ChunksLoseNothing, EachChunkAdds DEF InputInit, ChunksCoverText
<1>3. ChunksCoverText /\ [FALSE]_inputs => ChunksCoverText'
  BY DEF ChunksCoverText, inputs
<1> QED
  BY <1>2, <1>3, PTL DEF InputSpec

-------------------------------------------------------------------------------
(* The prompt.                                                             *)

\* Partial sums are what their definition says.
LEMMA TotalIs ==
  ASSUME NEW w \in Seq(Nat)
  PROVE  /\ Total(w) \in [0 .. Len(w) -> Nat] /\ Total(w)[0] = 0
         /\ \A i \in 1 .. Len(w) : Total(w)[i] = Total(w)[i - 1] + w[i]
<1> DEFINE n == Len(w)
           part(i) == IF i \in 1 .. n THEN w[i] ELSE 0
           G == [i \in Nat |-> [s \in Nat |-> s + part(i + 1)]]
<1>1. n \in Nat /\ \A i \in Nat : part(i) \in Nat
  OBVIOUS
<1>2. Iterable(Nat, 0, G)
  <2>1. \A i \in Nat : part(i + 1) \in Nat
    BY <1>1
  <2> HIDE DEF part
  <2>2. \A i, s \in Nat : s + part(i + 1) \in Nat
    BY <2>1
  <2> QED BY <2>2 DEF Iterable
<1>3. PICK f : Iterates(f, Nat, 0, G)
  <2> HIDE DEF G
  <2> QED BY <1>2, IterationExists
<1>4. f \in [Nat -> Nat] /\ f[0] = 0 /\ \A i \in Nat : f[i + 1] = f[i] + part(i + 1)
  BY <1>3 DEF Iterates
<1> DEFINE Is(g) == g = [i \in 0 .. n |-> IF i = 0 THEN 0 ELSE g[i - 1] + w[i]]
           h == [i \in 0 .. n |-> f[i]]
<1>5. Is(h)
  <2>1. ASSUME NEW i \in 0 .. n, i # 0 PROVE f[i] = h[i - 1] + w[i]
    <3>1. i - 1 \in Nat /\ i - 1 \in 0 .. n /\ (i - 1) + 1 = i /\ i \in 1 .. n
      BY <1>1, <2>1
    <3>2. f[i] = f[i - 1] + part(i)
      BY <1>4, <3>1
    <3> QED BY <3>1, <3>2
  <2> QED BY <1>4, <2>1
<1>6. Total(w) = CHOOSE g : Is(g)
  BY DEF Total
<1> HIDE DEF Is, h
<1>7. Is(Total(w))
  BY <1>5, <1>6, Zenon
<1> DEFINE t == Total(w)
<1>8. t = [i \in 0 .. n |-> IF i = 0 THEN 0 ELSE t[i - 1] + w[i]]
  BY <1>7 DEF Is
<1> HIDE DEF t
<1>9. t[0] = 0 /\ \A i \in 1 .. n : t[i] = t[i - 1] + w[i]
  <2>1. 0 \in 0 .. n /\ \A i \in 1 .. n : i \in 0 .. n /\ i # 0
    BY <1>1
  <2> QED BY <1>8, <2>1
<1>10. \A i \in 0 .. n : t[i] \in Nat
  <2> DEFINE T == {i \in Nat : i <= n => t[i] \in Nat}
  <2>1. 0 \in T
    BY <1>9
  <2>2. ASSUME NEW i \in Nat, i \in T PROVE i + 1 \in T
    <3> SUFFICES ASSUME i + 1 <= n PROVE t[i + 1] \in Nat
      OBVIOUS
    <3>1. i + 1 \in 1 .. n /\ (i + 1) - 1 = i /\ t[i] \in Nat
      BY <1>1, <2>2
    <3>2. t[i + 1] = t[i] + w[i + 1] /\ w[i + 1] \in Nat
      BY <1>9, <3>1
    <3> QED BY <3>1, <3>2
  <2> HIDE DEF T
  <2>3. Nat \subseteq T
    BY <2>1, <2>2, Inductively
  <2> QED BY <1>1, <2>3 DEF T
<1>11. t \in [0 .. n -> Nat]
  BY <1>8, <1>10
<1> QED
  BY <1>9, <1>11 DEF t

\* Equal beginnings have equal sums.
LEMMA TotalsAgree ==
  ASSUME NEW w \in Seq(Nat), NEW v \in Seq(Nat), NEW k \in Nat, k <= Len(w), k <= Len(v),
         \A i \in 1 .. k : w[i] = v[i]
  PROVE  Total(w)[k] = Total(v)[k]
<1> DEFINE T == {i \in Nat : i <= k => Total(w)[i] = Total(v)[i]}
<1>1. 0 \in T
  BY TotalIs
<1>2. ASSUME NEW i \in Nat, i \in T PROVE i + 1 \in T
  <2> SUFFICES ASSUME i + 1 <= k PROVE Total(w)[i + 1] = Total(v)[i + 1]
    OBVIOUS
  <2>1. i + 1 \in 1 .. k /\ i + 1 \in 1 .. Len(w) /\ i + 1 \in 1 .. Len(v) /\ (i + 1) - 1 = i
    OBVIOUS
  <2>2. Total(w)[i] = Total(v)[i]
    BY <1>2
  <2>3. Total(w)[i + 1] = Total(w)[i] + w[i + 1]
    BY <2>1, TotalIs
  <2>4. Total(v)[i + 1] = Total(v)[i] + v[i + 1]
    BY <2>1, TotalIs
  <2> QED BY <2>1, <2>2, <2>3, <2>4
<1> HIDE DEF T
<1>3. Nat \subseteq T
  BY <1>1, <1>2, Inductively
<1> QED
  BY <1>3 DEF T

\* What is cut fits, has its ellipsis, and is shorter.
LEMMA CutFits ==
  ASSUME NEW e \in Excerpt, NEW n \in Nat, n > 0
  PROVE  /\ Cut(e, n) \in 1 .. n /\ Cut(e, n) <= e.length
         /\ e.length <= n => Cut(e, n) = e.length
         /\ e.length > n => Cut(e, n) < e.length
<1>1. e.length \in Nat /\ e.length > 0
  BY DEF Excerpt
<1>2. Stripped(e, n - 1) \in 0 .. n - 1
  <2> DEFINE solid == (1 .. n - 1) \ e.blanks
  <2>1. CASE solid = {}
    BY <2>1 DEF Stripped
  <2>2. CASE solid # {}
    <3>1. solid \in SUBSET Nat /\ n \in Nat /\ \A m \in solid : m <= n
      OBVIOUS
    <3>2. Stripped(e, n - 1) = Largest(solid)
      BY <2>2 DEF Stripped
    <3>3. solid \subseteq 0 .. n - 1
      OBVIOUS
    <3> HIDE DEF solid
    <3>4. Largest(solid) \in solid
      BY <2>2, <3>1, LargestIs
    <3> QED BY <3>2, <3>3, <3>4
  <2> QED BY <2>1, <2>2
<1> QED
  BY <1>1, <1>2 DEF Cut

\* What an excerpt is once a long one was cut (build_context).
Source == [length : 1 .. ExcerptLimit, blanks : SUBSET Nat, heading : Nat \ {0}]

\* Cutting leaves sources of the admitted length.
LEMMA CandidatesAre ==
  ASSUME NEW finds \in Seq(Excerpt)
  PROVE  Candidates(finds) \in Seq(Source)
<1>1. ExcerptLimit \in Nat /\ ExcerptLimit > 0
  BY ContextAssumption
<1>2. ASSUME NEW i \in DOMAIN finds PROVE Candidates(finds)[i] \in Source
  <2> DEFINE e == finds[i]
             n == Cut(e, ExcerptLimit)
  <2>1. e \in Excerpt
    OBVIOUS
  <2>2. n \in 1 .. ExcerptLimit
    BY <1>1, <2>1, CutFits
  <2>3. Candidates(finds)[i] = [e EXCEPT !.length = n, !.blanks = {p \in @ : p < n}]
    BY DEF Candidates
  <2> HIDE DEF e, n
  <2> QED BY <2>1, <2>2, <2>3 DEF Excerpt, Source
<1>3. DOMAIN finds = 1 .. Len(finds) /\ Len(finds) \in Nat
  OBVIOUS
<1>4. DOMAIN Candidates(finds) = DOMAIN finds
  BY DEF Candidates
<1>5. Candidates(finds) = [i \in DOMAIN finds |-> Candidates(finds)[i]]
  BY DEF Candidates
<1> DEFINE c == Candidates(finds)
<1>6. ASSUME NEW i \in 1 .. Len(finds) PROVE c[i] \in Source
  BY <1>2, <1>3
<1>7. c = [i \in 1 .. Len(finds) |-> c[i]]
  BY <1>3, <1>5
<1> HIDE DEF c
<1>8. c \in [1 .. Len(finds) -> Source]
  BY <1>6, <1>7
<1> QED
  BY <1>3, <1>8 DEF c

\* A source is an excerpt.
LEMMA SourceIs ==
  ASSUME NEW e \in Source
  PROVE  /\ e \in Excerpt /\ e.length \in Nat /\ e.length > 0 /\ e.length <= ExcerptLimit
         /\ e.heading \in Nat /\ e.heading > 0
BY ContextAssumption DEF Source, Excerpt

\* A block is a heading and what follows it.
LEMMA BlocksAre ==
  ASSUME NEW sources \in Seq(Source), NEW lengths \in Seq(Nat), Len(lengths) <= Len(sources)
  PROVE  /\ Blocks(sources, lengths) \in Seq(Nat)
         /\ Len(Blocks(sources, lengths)) = Len(lengths)
         /\ \A i \in 1 .. Len(lengths) :
              Blocks(sources, lengths)[i] = sources[i].heading + lengths[i]
<1>1. ASSUME NEW i \in 1 .. Len(lengths) PROVE sources[i].heading + lengths[i] \in Nat
  <2>1. sources[i] \in Source /\ lengths[i] \in Nat
    OBVIOUS
  <2> QED BY <2>1, SourceIs
<1>2. Blocks(sources, lengths) = [i \in 1 .. Len(lengths) |-> sources[i].heading + lengths[i]]
  BY DEF Blocks
<1>3. Blocks(sources, lengths) \in [1 .. Len(lengths) -> Nat]
  BY <1>1, <1>2
<1> QED
  BY <1>2, <1>3

\* The lengths of whole sources.
LEMMA LengthsAre ==
  ASSUME NEW sources \in Seq(Source)
  PROVE  /\ Lengths(sources) \in Seq(Nat) /\ Len(Lengths(sources)) = Len(sources)
         /\ \A i \in 1 .. Len(sources) : Lengths(sources)[i] = sources[i].length
<1>1. ASSUME NEW i \in 1 .. Len(sources) PROVE sources[i].length \in Nat
  <2>1. sources[i] \in Source
    OBVIOUS
  <2> QED BY <2>1, SourceIs
<1>2. Lengths(sources) = [i \in 1 .. Len(sources) |-> sources[i].length]
  BY DEF Lengths
<1>3. Lengths(sources) \in [1 .. Len(sources) -> Nat]
  BY <1>1, <1>2
<1> QED
  BY <1>2, <1>3

\* The excerpts taken over are the first m: the next one found no room, or the last of
\* them is longer than its room.
LEMMA IncludedIs ==
  ASSUME NEW sources \in Seq(Source), NEW limit \in Nat
  PROVE  \E m \in 0 .. Len(sources) :
           /\ Included(sources, limit) = [i \in 1 .. m |-> Cut(sources[i], Room(sources, limit, i))]
           /\ \A i \in 1 .. m : Introduction < limit /\ Room(sources, limit, i) > 0
           /\ \A i \in 1 .. m - 1 : sources[i].length <= Room(sources, limit, i)
           /\ m < Len(sources) /\ Introduction < limit =>
                \/ ~(Room(sources, limit, m + 1) > 0)
                \/ m > 0 /\ ~(sources[m].length <= Room(sources, limit, m))
<1> DEFINE n == Len(sources)
           R(i) == Room(sources, limit, i)
           Fits(i) == sources[i].length <= R(i)
           taken == {i \in DOMAIN sources :
                  Introduction < limit /\ R(i) > 0 /\ \A j \in 1 .. i - 1 : Fits(j)}
           left == {i \in 1 .. n + 1 : i \notin taken}
<1>1. n \in Nat /\ DOMAIN sources = 1 .. n
  OBVIOUS
<1>2. Included(sources, limit) = [i \in 1 .. Cardinality(taken) |-> Cut(sources[i], R(i))]
  BY DEF Included
<1>3. ASSUME NEW i \in 1 .. n
      PROVE  i \in taken <=> Introduction < limit /\ R(i) > 0 /\ \A j \in 1 .. i - 1 : Fits(j)
  BY <1>1
<1>4. taken \subseteq 1 .. n
  BY <1>1
<1>5. ASSUME NEW i \in 1 .. n, Fits(i) PROVE R(i) > 0
  <2>1. sources[i] \in Source
    BY <1>1
  <2>2. sources[i].length \in Nat /\ sources[i].length > 0
    BY <2>1, SourceIs
  <2>3. R(i) \in Int
    <3>1. Lengths(sources) \in Seq(Nat) /\ Len(Lengths(sources)) = n
      BY LengthsAre
    <3>2. /\ Blocks(sources, Lengths(sources)) \in Seq(Nat)
          /\ Len(Blocks(sources, Lengths(sources))) = n
      BY <1>1, <3>1, BlocksAre
    <3>3. Total(Blocks(sources, Lengths(sources))) \in [0 .. n -> Nat]
      BY <3>2, TotalIs
    <3>5. i - 1 \in 0 .. n
      BY <1>1
    <3> DEFINE total == Total(Blocks(sources, Lengths(sources)))
    <3>6. total[i - 1] \in Nat
      <4> HIDE DEF total, n
      <4> QED BY <3>3, <3>5 DEF total
    <3>4. sources[i].heading \in Nat /\ Introduction \in Nat
      BY <2>1, SourceIs, ContextAssumption
    <3> QED BY <1>1, <3>4, <3>6 DEF Room
  <2> HIDE DEF R
  <2> QED BY <1>5, <2>2, <2>3
<1> HIDE DEF R, taken, Fits
<1>6. PICK x \in left : \A y \in left : x <= y
  <2>1. left \in SUBSET Nat
    BY <1>1
  <2>2. n + 1 \in left
    BY <1>1, <1>4
  <2> HIDE DEF left
  <2> QED BY <2>1, <2>2, LeastNumber
<1> DEFINE m == x - 1
<1>7. x \in 1 .. n + 1 /\ x \notin taken /\ m \in 0 .. n /\ m \in Nat
  BY <1>1, <1>6
<1>8. \A i \in 1 .. m : i \in taken
  BY <1>1, <1>6, <1>7
<1>9. \A i \in 1 .. n : i > m => i \notin taken
  <2> SUFFICES ASSUME NEW i \in 1 .. n, i > m, i \in taken PROVE FALSE
    OBVIOUS
  <2>1. x <= i /\ x \in 1 .. n
    BY <1>1, <1>7
  <2>2. x # i
    BY <1>7
  <2>3. Introduction < limit /\ Fits(x) /\ \A j \in 1 .. x - 1 : Fits(j)
    <3>1. Introduction < limit /\ \A j \in 1 .. i - 1 : Fits(j)
      BY <1>3
    <3>2. x \in 1 .. i - 1 /\ \A j \in 1 .. x - 1 : j \in 1 .. i - 1
      BY <2>1, <2>2
    <3> QED BY <3>1, <3>2
  <2>4. R(x) > 0
    BY <1>5, <2>1, <2>3
  <2> QED BY <1>3, <1>7, <2>1, <2>3, <2>4
<1>10. taken = 1 .. m
  <2>1. 1 .. m \subseteq 1 .. n
    BY <1>1, <1>7
  <2>2. \A i \in 1 .. n : i \in taken <=> i \in 1 .. m
    BY <1>1, <1>7, <1>8, <1>9
  <2> QED BY <1>4, <2>1, <2>2
<1>11. Cardinality(taken) = m
  BY <1>7, <1>10, FS_Interval
<1>12. \A i \in 1 .. m : Introduction < limit /\ R(i) > 0
  BY <1>3, <1>4, <1>8
<1>13. \A i \in 1 .. m - 1 : Fits(i)
  <2> SUFFICES ASSUME NEW i \in 1 .. m - 1 PROVE Fits(i)
    OBVIOUS
  <2>1. m \in 1 .. m /\ m \in 1 .. n
    BY <1>1, <1>7
  <2> QED BY <1>3, <1>8, <2>1
<1>14. ASSUME m < n, Introduction < limit
       PROVE  ~(R(m + 1) > 0) \/ (m > 0 /\ ~Fits(m))
  <2>1. x \in 1 .. n /\ m + 1 = x
    BY <1>1, <1>7, <1>14
  <2>2. ~(R(x) > 0) \/ \E j \in 1 .. x - 1 : ~Fits(j)
    BY <1>3, <1>7, <1>14, <2>1
  <2>3. ASSUME NEW j \in 1 .. x - 1, ~Fits(j) PROVE m > 0 /\ ~Fits(m)
    <3>1. j \notin 1 .. m - 1 /\ j \in 1 .. m
      BY <1>13, <2>3
    <3>2. j = m /\ m > 0
      BY <1>7, <3>1
    <3> QED BY <2>3, <3>2
  <2> QED BY <2>1, <2>2, <2>3
<1> HIDE DEF m
<1>15. Included(sources, limit) = [i \in 1 .. m |-> Cut(sources[i], R(i))]
  BY <1>2, <1>11
<1> QED
  BY <1>7, <1>12, <1>13, <1>14, <1>15 DEF R, Fits

\* Whatever the sources and the budget, _build_bounded_context packs the best sources that
\* fit, shortens only the last, and leaves one out only when there is no room for it.
THEOREM IncludedIsPacked ==
  \A sources \in Seq(Source), limit \in Nat : Packed(sources, Included(sources, limit), limit)
<1> SUFFICES ASSUME NEW sources \in Seq(Source), NEW limit \in Nat
             PROVE  Packed(sources, Included(sources, limit), limit)
  OBVIOUS
<1> DEFINE n == Len(sources)
           R(i) == Room(sources, limit, i)
           inc == Included(sources, limit)
           all == Total(Blocks(sources, Lengths(sources)))
           got == Total(Blocks(sources, inc))
<1>0. Introduction \in Nat /\ ExcerptLimit \in Nat
  BY ContextAssumption
<1>1. PICK m \in 0 .. n :
           /\ inc = [i \in 1 .. m |-> Cut(sources[i], R(i))]
           /\ \A i \in 1 .. m : Introduction < limit /\ R(i) > 0
           /\ \A i \in 1 .. m - 1 : sources[i].length <= R(i)
           /\ m < n /\ Introduction < limit =>
                \/ ~(R(m + 1) > 0)
                \/ m > 0 /\ ~(sources[m].length <= R(m))
  BY IncludedIs
<1>2. n \in Nat /\ m \in Nat /\ m <= n
  OBVIOUS
<1>3. ASSUME NEW i \in 1 .. n
      PROVE  /\ sources[i] \in Excerpt /\ sources[i].length \in Nat
             /\ sources[i].length <= ExcerptLimit
             /\ sources[i].heading \in Nat /\ sources[i].heading > 0
  <2>1. sources[i] \in Source
    OBVIOUS
  <2> QED BY <2>1, SourceIs
<1>4. /\ Lengths(sources) \in Seq(Nat) /\ Len(Lengths(sources)) = n
      /\ \A i \in 1 .. n : Lengths(sources)[i] = sources[i].length
  BY LengthsAre
<1>5. /\ Blocks(sources, Lengths(sources)) \in Seq(Nat)
      /\ Len(Blocks(sources, Lengths(sources))) = n
      /\ \A i \in 1 .. n :
           Blocks(sources, Lengths(sources))[i] = sources[i].heading + sources[i].length
  BY <1>2, <1>4, BlocksAre
<1>6. all \in [0 .. n -> Nat]
  BY <1>5, TotalIs
<1>7. ASSUME NEW i \in 1 .. n
      PROVE  R(i) \in Int /\ R(i) = limit - Introduction - all[i - 1] - sources[i].heading
  <2>1. all[i - 1] \in Nat
    BY <1>2, <1>6
  <2> QED BY <1>0, <1>3, <2>1 DEF Room
<1> HIDE DEF R, all
<1>8. ASSUME NEW i \in 1 .. m
      PROVE  /\ inc[i] = Cut(sources[i], R(i)) /\ inc[i] \in Nat /\ inc[i] > 0
             /\ inc[i] <= R(i) /\ inc[i] <= sources[i].length /\ inc[i] <= ExcerptLimit
             /\ sources[i].length <= R(i) => inc[i] = sources[i].length
             /\ ~(sources[i].length <= R(i)) => inc[i] < sources[i].length
  <2>1. i \in 1 .. n /\ inc[i] = Cut(sources[i], R(i)) /\ R(i) > 0
    BY <1>1, <1>2
  <2>2. R(i) \in Nat /\ sources[i] \in Excerpt /\ sources[i].length \in Nat
        /\ sources[i].length <= ExcerptLimit
    BY <1>3, <1>7, <2>1
  <2>3. /\ Cut(sources[i], R(i)) \in 1 .. R(i) /\ Cut(sources[i], R(i)) <= sources[i].length
        /\ sources[i].length <= R(i) => Cut(sources[i], R(i)) = sources[i].length
        /\ sources[i].length > R(i) => Cut(sources[i], R(i)) < sources[i].length
    BY <2>1, <2>2, CutFits
  <2> QED BY <1>0, <2>1, <2>2, <2>3
<1>9. inc \in Seq(Nat) /\ Len(inc) = m /\ (inc = <<>> <=> m = 0)
  <2>1. inc \in [1 .. m -> Nat]
    BY <1>1, <1>8
  <2>2. inc \in Seq(Nat) /\ Len(inc) = m
    BY <1>2, <2>1
  <2> QED BY <2>2
<1> HIDE DEF inc
<1>10. /\ Blocks(sources, inc) \in Seq(Nat) /\ Len(Blocks(sources, inc)) = m
       /\ \A i \in 1 .. m : Blocks(sources, inc)[i] = sources[i].heading + inc[i]
  BY <1>2, <1>9, BlocksAre
<1>11. /\ got \in [0 .. m -> Nat] /\ got[0] = 0
       /\ \A i \in 1 .. m : got[i] = got[i - 1] + sources[i].heading + inc[i]
  <2>1. /\ got \in [0 .. m -> Nat] /\ got[0] = 0
        /\ \A i \in 1 .. m : got[i] = got[i - 1] + Blocks(sources, inc)[i]
    BY <1>10, TotalIs
  <2> HIDE DEF got
  <2>2. ASSUME NEW i \in 1 .. m PROVE got[i] = got[i - 1] + sources[i].heading + inc[i]
    <3>3. i \in 1 .. n /\ i - 1 \in 0 .. m
      BY <1>2
    <3>4. got[i - 1] \in Nat
      BY <2>1, <3>3
    <3>5. sources[i].heading \in Nat
      BY <1>3, <3>3
    <3>6. inc[i] \in Nat
      BY <1>8
    <3>1. got[i - 1] \in Nat /\ sources[i].heading \in Nat /\ inc[i] \in Nat
      BY <3>4, <3>5, <3>6
    <3>2. got[i] = got[i - 1] + (sources[i].heading + inc[i])
      BY <1>10, <2>1
    <3> QED BY <3>1, <3>2
  <2> QED BY <2>1, <2>2
<1>12. ASSUME NEW k \in 0 .. m, \A i \in 1 .. k : inc[i] = sources[i].length
       PROVE  got[k] = all[k]
  <2>1. k \in Nat /\ k <= m /\ k <= n
    BY <1>2
  <2>2. \A i \in 1 .. k : Blocks(sources, inc)[i] = Blocks(sources, Lengths(sources))[i]
    <3> SUFFICES ASSUME NEW i \in 1 .. k
                 PROVE  Blocks(sources, inc)[i] = Blocks(sources, Lengths(sources))[i]
      OBVIOUS
    <3>1. i \in 1 .. m /\ i \in 1 .. n
      BY <2>1
    <3> QED BY <1>5, <1>10, <1>12, <3>1
  <2> QED BY <1>5, <1>10, <2>1, <2>2, TotalsAgree DEF all
<1> HIDE DEF got
<1>13. \A i \in 1 .. m - 1 : inc[i] = sources[i].length
  <2> SUFFICES ASSUME NEW i \in 1 .. m - 1 PROVE inc[i] = sources[i].length
    OBVIOUS
  <2>1. i \in 1 .. m
    BY <1>2
  <2> QED BY <1>1, <1>8, <2>1
<1>14. Filled(sources, inc) = Introduction + got[m]
  BY <1>9 DEF Filled, got
<1>15. ASSUME m > 0 PROVE Filled(sources, inc) <= limit
  <2>1. m \in 1 .. m /\ m \in 1 .. n /\ m - 1 \in 0 .. m
    BY <1>2, <1>15
  <2>2. got[m - 1] = all[m - 1] /\ all[m - 1] \in Nat
    <3>1. got[m - 1] = all[m - 1]
      BY <1>12, <1>13, <2>1
    <3>2. m - 1 \in 0 .. n
      BY <1>2, <2>1
    <3> QED BY <1>6, <3>1, <3>2
  <2>3. got[m] = got[m - 1] + sources[m].heading + inc[m]
    BY <1>11, <2>1
  <2>4. R(m) = limit - Introduction - all[m - 1] - sources[m].heading
    BY <1>7, <2>1
  <2>5. inc[m] \in Nat /\ inc[m] <= R(m)
    BY <1>8, <2>1
  <2>6. sources[m].heading \in Nat
    BY <1>3, <2>1
  <2> QED BY <1>0, <1>14, <2>2, <2>3, <2>4, <2>5, <2>6
<1>16. ContextLength(sources, inc, limit) <= limit
  <2>1. CASE m > 0
    BY <1>9, <1>15, <2>1 DEF ContextLength
  <2>2. CASE m = 0
    BY <1>9, <2>2 DEF ContextLength
  <2> QED BY <1>2, <2>1, <2>2
<1>17. \A i \in 1 .. m : inc[i] \in 1 .. ExcerptLimit
  BY <1>0, <1>8
<1>18. ASSUME m < n, Introduction < limit
       PROVE  \/ m > 0 /\ inc[m] < sources[m].length
              \/ Filled(sources, inc) + sources[m + 1].heading >= limit
  <2>1. CASE m > 0 /\ ~(sources[m].length <= R(m))
    <3>1. m \in 1 .. m
      BY <1>2, <2>1
    <3> QED BY <1>8, <2>1, <3>1
  <2>2. CASE ~(m > 0 /\ ~(sources[m].length <= R(m)))
    <3>1. \A i \in 1 .. m : inc[i] = sources[i].length
      <4> SUFFICES ASSUME NEW i \in 1 .. m PROVE inc[i] = sources[i].length
        OBVIOUS
      <4>1. CASE i = m
        BY <1>2, <1>8, <2>2, <4>1
      <4>2. CASE i # m
        <5>1. i \in 1 .. m - 1
          BY <1>2, <4>2
        <5> QED BY <1>13, <5>1
      <4> QED BY <4>1, <4>2
    <3>2. got[m] = all[m] /\ all[m] \in Nat
      <4>1. m \in 0 .. m /\ m \in 0 .. n
        BY <1>2
      <4> QED BY <1>6, <1>12, <3>1, <4>1
    <3>3. ~(R(m + 1) > 0)
      BY <1>1, <1>18, <2>2
    <3>4. m + 1 \in 1 .. n /\ (m + 1) - 1 = m
      BY <1>2, <1>18
    <3>5. R(m + 1) \in Int /\ R(m + 1) = limit - Introduction - all[m] - sources[m + 1].heading
      BY <1>7, <3>4
    <3>6. sources[m + 1].heading \in Nat
      BY <1>3, <3>4
    <3> QED BY <1>0, <1>14, <3>2, <3>3, <3>5, <3>6
  <2> QED BY <2>1, <2>2
<1>19. /\ Len(inc) <= n
       /\ \A i \in 1 .. Len(inc) : inc[i] \in 1 .. ExcerptLimit
       /\ \A i \in 1 .. Len(inc) - 1 : inc[i] = sources[i].length
  BY <1>2, <1>9, <1>13, <1>17
<1>20. Len(inc) < n /\ Introduction < limit =>
         \/ Len(inc) > 0 /\ inc[Len(inc)] < sources[Len(inc)].length
         \/ Filled(sources, inc) + sources[Len(inc) + 1].heading >= limit
  BY <1>9, <1>18
<1>21. Packed(sources, inc, limit)
  BY <1>16, <1>19, <1>20 DEF Packed
<1> QED
  BY <1>21 DEF inc

\* The prompt keeps to its budget, whatever was found and ranked.
THEOREM ContextAlwaysFits == InputSpec => []ContextFits
<1>1. Finds \subseteq Seq(Excerpt) /\ Budgets \subseteq Nat
  BY ContextAssumption
<1>2. InputInit => ContextFits
  BY <1>1, CandidatesAre, IncludedIsPacked DEF InputInit, ContextFits
<1>3. ContextFits /\ [FALSE]_inputs => ContextFits'
  BY DEF ContextFits, inputs
<1> QED
  BY <1>2, <1>3, PTL DEF InputSpec
================================================================================
