---------------------- MODULE EngineeringDeliveryProofs ----------------------
(***************************************************************************)
(* Theorems about EngineeringDelivery: what reaches GitHub is within the   *)
(* scope of its receipt, a delivery branch never moves, the evidence the   *)
(* owner decides on is true, and the whole is a reviewed delivery.         *)
(***************************************************************************)
EXTENDS EngineeringDelivery, TLAPS

Jobs == [ticket : Ticket \cup {Nothing}, plan : Plans \cup {Nothing}, left : SUBSET Path,
         tree : Trees, commit : Commits \cup {Nothing}, branchReused : BOOLEAN,
         pull : Nat, pullReused : BOOLEAN]

\* The stages at which a driver has a ticket, a plan, a commit.
Executing == {"extracting", "running"}
Built == {"built", "published", "recorded"} \cup Publishing
Planned == {"planned", "copying"} \cup Built

\* Types, as far as the rest needs them.
TypesFit ==
  /\ files \in [Ticket -> [Path -> Content] \cup {Nothing}]
  /\ results \subseteq Receipts
  /\ at \in [Driver -> Stages] /\ job \in [Driver -> Jobs]

\* What a driver knows at its stage: the plan is for a deliverable receipt, and the
\* commit changes what the receipt names.
JobFits(stage, j) ==
  /\ stage \in Executing => j.ticket \in Ticket
  /\ stage \in Planned => j.plan \in Plans /\ Deliverable(j.plan.receipt)
  /\ stage \in Built => j.commit \in Commits /\ Changed(j.commit.tree) = j.plan.receipt.changed
StagesFit == \A d \in Driver : JobFits(at[d], job[d])

RemoteFits == \A b \in DOMAIN remote : remote[b] \in Commits
Pulls == [branch : Receipts, base : Base, draft : BOOLEAN, open : BOOLEAN]

DeliveryInv ==
  TypesFit /\ StagesFit /\ RemoteFits /\ pulls \in Seq(Pulls) /\ PublishedWithinScope

\* What one driver does to itself and to nothing else that matters here.
OneDriver(d, stage, j) ==
  /\ at' = [at EXCEPT ![d] = stage] /\ job' = [job EXCEPT ![d] = j]
  /\ stage \in Stages /\ j \in Jobs /\ JobFits(stage, j)

-------------------------------------------------------------------------------
LEMMA InitFits == Init => DeliveryInv
<1>1. NoJob \in Jobs
  BY DEF NoJob, Jobs, Trees, Source, Content
<1> QED
  BY <1>1 DEF Init, DeliveryInv, TypesFit, StagesFit, JobFits, RemoteFits, PublishedWithinScope,
              Executing, Built, Planned, Publishing, Stages

\* A step of one driver that puts it at a stage it is fit for keeps types and stages.
LEMMA DriverMoves ==
  ASSUME TypesFit, StagesFit, NEW d \in Driver, NEW stage, NEW j, OneDriver(d, stage, j),
         files' \in [Ticket -> [Path -> Content] \cup {Nothing}], results' \subseteq Receipts
  PROVE  TypesFit' /\ StagesFit'
<1>1. TypesFit'
  BY DEF TypesFit, OneDriver
<1>2. ASSUME NEW e \in Driver PROVE JobFits(at'[e], job'[e])
  <2>1. CASE e = d
    BY <2>1 DEF TypesFit, OneDriver
  <2>2. CASE e # d
    BY <2>2 DEF TypesFit, StagesFit, OneDriver
  <2> QED BY <2>1, <2>2
<1>3. StagesFit' = \A e \in Driver : JobFits(at'[e], job'[e])
  BY DEF StagesFit, JobFits, Deliverable, Changed
<1> QED BY <1>1, <1>2, <1>3

LEMMA FoundIsContent ==
  ASSUME TypesFit, NEW t \in Ticket, NEW p \in Path
  PROVE  Found(t, p) \in Content
  BY DEF TypesFit, Found, Content

\* The runner: materialize, extract, observe.
LEMMA ExecutingFits ==
  ASSUME DeliveryInv, NEW d \in Driver, Executes(d)
  PROVE  TypesFit' /\ StagesFit'
<1> USE DEF DeliveryInv
<1>j. NoJob \in Jobs
  BY DEF NoJob, Jobs, Trees, Source, Content
<1>1. ASSUME NEW t \in Ticket, Materialize(d, t) PROVE TypesFit' /\ StagesFit'
  <2> DEFINE j == [job[d] EXCEPT !.ticket = t]
  <2>1. j \in Jobs /\ j.ticket = t
    BY DEF TypesFit, Jobs
  <2>2. at' = [at EXCEPT ![d] = "extracting"] /\ job' = [job EXCEPT ![d] = j]
    BY <1>1 DEF Materialize, Goes, TypesFit
  <2>3. JobFits("extracting", j)
    BY <2>1 DEF JobFits, Executing, Planned, Built, Publishing
  <2>4. files' \in [Ticket -> [Path -> Content] \cup {Nothing}] /\ results' \subseteq Receipts
    BY <1>1 DEF Materialize, TypesFit, Content
  <2>5. OneDriver(d, "extracting", j)
    BY <2>1, <2>2, <2>3 DEF OneDriver, Stages
  <2> HIDE DEF j
  <2> QED BY <2>4, <2>5, DriverMoves
<1>2. ASSUME Extract(d) PROVE TypesFit' /\ StagesFit'
  <2>1. at' = [at EXCEPT ![d] = "running"] /\ job' = [job EXCEPT ![d] = job[d]]
    BY <1>2 DEF Extract, Goes, TypesFit
  <2>2. job[d] \in Jobs /\ JobFits("running", job[d])
    BY <1>2 DEF Extract, TypesFit, StagesFit, JobFits, Executing, Planned, Built, Publishing
  <2>3. files' \in [Ticket -> [Path -> Content] \cup {Nothing}] /\ results' \subseteq Receipts
    BY <1>2 DEF Extract, TypesFit, Source, Content
  <2>4. OneDriver(d, "running", job[d])
    BY <2>1, <2>2 DEF OneDriver, Stages
  <2> QED BY <2>3, <2>4, DriverMoves
<1>3. ASSUME ExtractFails(d) PROVE TypesFit' /\ StagesFit'
  <2>1. OneDriver(d, "idle", NoJob)
    BY <1>3, <1>j DEF ExtractFails, Goes, OneDriver, Stages, JobFits, Executing, Planned, Built, Publishing
  <2>2. files' \in [Ticket -> [Path -> Content] \cup {Nothing}] /\ results' \subseteq Receipts
    BY <1>3 DEF ExtractFails, workspace, TypesFit
  <2> QED BY <2>1, <2>2, DriverMoves
<1>4. ASSUME Observe(d) PROVE TypesFit' /\ StagesFit'
  <2>1. OneDriver(d, "idle", NoJob)
    BY <1>4, <1>j DEF Observe, Goes, OneDriver, Stages, JobFits, Executing, Planned, Built, Publishing
  <2>2. job[d].ticket \in Ticket
    BY <1>4 DEF Observe, StagesFit, JobFits, Executing
  <2>3. ASSUME NEW changed \in SUBSET Path, NEW exit \in {0, 1}
        PROVE [ticket |-> job[d].ticket, changed |-> changed,
               disposition |-> Disposition(changed, exit)] \in Receipts
    BY <2>2 DEF Receipts, Disposition
  <2>4. results' \subseteq Receipts
    BY <1>4, <2>3 DEF Observe, TypesFit
  <2>5. files' \in [Ticket -> [Path -> Content] \cup {Nothing}]
    BY <1>4 DEF Observe, TypesFit
  <2> QED BY <2>1, <2>4, <2>5, DriverMoves
<1> QED BY <1>1, <1>2, <1>3, <1>4 DEF Executes

\* The builder: prepare, clone, copy, commit.
LEMMA BuildingFits ==
  ASSUME DeliveryInv, NEW d \in Driver, Builds(d)
  PROVE  TypesFit' /\ StagesFit'
<1> USE DEF DeliveryInv
<1>w. files' \in [Ticket -> [Path -> Content] \cup {Nothing}] /\ results' \subseteq Receipts
  BY DEF Builds, Prepare, Clone, Copy, Commit, BuildFails, workspace, TypesFit
<1>j. job[d] \in Jobs /\ at[d] \in Stages /\ JobFits(at[d], job[d])
  BY DEF TypesFit, StagesFit
<1>p. at[d] \in {"planned", "copying"} => job[d].plan \in Plans /\ Deliverable(job[d].plan.receipt)
  BY <1>j DEF JobFits, Planned
<1>1. ASSUME Prepare(d) PROVE TypesFit' /\ StagesFit'
  <2>1. PICK r \in results, b \in Base :
          Deliverable(r) /\ job' = [job EXCEPT ![d].plan = [receipt |-> r, base |-> b]]
    BY <1>1 DEF Prepare
  <2> DEFINE j == [job[d] EXCEPT !.plan = [receipt |-> r, base |-> b]]
  <2>2. [receipt |-> r, base |-> b] \in Plans
    BY <2>1 DEF TypesFit, Plans
  <2>3. j \in Jobs /\ j.plan = [receipt |-> r, base |-> b]
    BY <1>j, <2>2 DEF Jobs
  <2>4. JobFits("planned", j)
    BY <2>1, <2>2, <2>3 DEF JobFits, Executing, Planned, Built, Publishing
  <2>5. job' = [job EXCEPT ![d] = j] /\ at' = [at EXCEPT ![d] = "planned"]
    BY <1>1, <2>1 DEF Prepare, Goes, TypesFit
  <2>6. OneDriver(d, "planned", j)
    BY <2>3, <2>4, <2>5 DEF OneDriver, Stages
  <2> HIDE DEF j
  <2> QED BY <1>w, <2>6, DriverMoves
<1>2. ASSUME Clone(d) PROVE TypesFit' /\ StagesFit'
  <2>1. CASE at' = [at EXCEPT ![d] = "copying"]
             /\ job' = [job EXCEPT ![d].left = job[d].plan.receipt.changed]
    <3> DEFINE j == [job[d] EXCEPT !.left = job[d].plan.receipt.changed]
    <3>1. job[d].plan \in Plans /\ Deliverable(job[d].plan.receipt)
      BY <1>2, <1>p DEF Clone
    <3>2. j \in Jobs /\ j.plan = job[d].plan
      BY <1>j, <3>1 DEF Jobs, Plans, Receipts
    <3>3. JobFits("copying", j)
      BY <3>1, <3>2 DEF JobFits, Executing, Planned, Built, Publishing
    <3>4. job' = [job EXCEPT ![d] = j]
      BY <2>1 DEF TypesFit
    <3>5. OneDriver(d, "copying", j)
      BY <2>1, <3>2, <3>3, <3>4 DEF OneDriver, Stages
    <3> HIDE DEF j
    <3> QED BY <1>w, <3>5, DriverMoves
  <2>2. CASE UNCHANGED <<at, job>>
    BY <1>w, <2>2 DEF TypesFit, StagesFit, JobFits, Deliverable, Changed
  <2> QED BY <1>2, <2>1, <2>2 DEF Clone, Goes
<1>3. ASSUME Copy(d) PROVE TypesFit' /\ StagesFit'
  <2> DEFINE t == job[d].plan.receipt.ticket
  <2>1. PICK p \in job[d].left :
          /\ Copyable(Found(t, p))
          /\ job' = [job EXCEPT ![d].tree[p] = Found(t, p), ![d].left = @ \ {p}]
    BY <1>3 DEF Copy
  <2>2. at[d] = "copying" /\ at' = at
    BY <1>3 DEF Copy
  <2>3. p \in Path /\ t \in Ticket
    BY <1>j, <1>p, <2>1, <2>2 DEF Jobs, Plans, Receipts
  <2>4. Found(t, p) \in Content \ {"link"}
    BY <2>1, <2>3, FoundIsContent DEF Copyable
  <2> DEFINE j == [job[d] EXCEPT !.tree[p] = Found(t, p), !.left = @ \ {p}]
  <2> HIDE DEF t
  <2>5. j \in Jobs /\ j.plan = job[d].plan
    BY <1>j, <2>3, <2>4 DEF Jobs, Trees
  <2>6. JobFits("copying", j)
    BY <1>p, <2>2, <2>5 DEF JobFits, Executing, Planned, Built, Publishing
  <2>7. job' = [job EXCEPT ![d] = j] /\ at' = [at EXCEPT ![d] = "copying"]
    BY <2>1, <2>2 DEF TypesFit
  <2>8. OneDriver(d, "copying", j)
    BY <2>5, <2>6, <2>7 DEF OneDriver, Stages
  <2> HIDE DEF j
  <2> QED BY <1>w, <2>8, DriverMoves
<1>4. ASSUME Commit(d) PROVE TypesFit' /\ StagesFit'
  <2>1. PICK s \in Stamps :
          job' = [job EXCEPT ![d].commit = [tree |-> job[d].tree, stamp |-> s], ![d].tree = Source]
    BY <1>4 DEF Commit
  <2>2. /\ at[d] = "copying" /\ at' = [at EXCEPT ![d] = "built"]
        /\ Changed(job[d].tree) = job[d].plan.receipt.changed
    BY <1>4 DEF Commit, Goes, Agrees
  <2> DEFINE c == [tree |-> job[d].tree, stamp |-> s]
             j == [job[d] EXCEPT !.commit = c, !.tree = Source]
  <2>3. c \in Commits /\ c.tree = job[d].tree
    BY <1>j DEF Jobs, Commits
  <2>4. job' = [job EXCEPT ![d] = j]
    BY <2>1 DEF TypesFit
  <2> HIDE DEF c
  <2>5. Source \in Trees
    BY DEF Source, Trees, Content
  <2>6. j \in Jobs /\ j.plan = job[d].plan /\ j.commit = c
    BY <1>j, <2>3, <2>5 DEF Jobs
  <2>7. JobFits("built", j)
    BY <1>p, <2>2, <2>3, <2>6 DEF JobFits, Executing, Planned, Built, Publishing
  <2>8. OneDriver(d, "built", j)
    BY <2>2, <2>4, <2>6, <2>7 DEF OneDriver, Stages
  <2> HIDE DEF j
  <2> QED BY <1>w, <2>8, DriverMoves
<1>5. ASSUME BuildFails(d) PROVE TypesFit' /\ StagesFit'
  <2> DEFINE j == [job[d] EXCEPT !.left = {}, !.tree = Source]
  <2>1. at[d] = "copying" /\ at' = [at EXCEPT ![d] = "planned"] /\ job' = [job EXCEPT ![d] = j]
    BY <1>5 DEF BuildFails, Goes, TypesFit
  <2>2. Source \in Trees
    BY DEF Source, Trees, Content
  <2>3. j \in Jobs /\ j.plan = job[d].plan
    BY <1>j, <2>2 DEF Jobs
  <2>4. JobFits("planned", j)
    BY <1>p, <2>1, <2>3 DEF JobFits, Executing, Planned, Built, Publishing
  <2>5. OneDriver(d, "planned", j)
    BY <2>1, <2>3, <2>4 DEF OneDriver, Stages
  <2> HIDE DEF j
  <2> QED BY <1>w, <2>5, DriverMoves
<1> QED BY <1>1, <1>2, <1>3, <1>4, <1>5 DEF Builds

\* A publishing step changes of the job at most what the driver remembers of GitHub.
LEMMA PublisherMoves ==
  ASSUME TypesFit, StagesFit, NEW d \in Driver, NEW stage \in Built, NEW j \in Jobs,
         at[d] \in Built, j.plan = job[d].plan, j.commit = job[d].commit,
         at' = [at EXCEPT ![d] = stage], job' = [job EXCEPT ![d] = j], UNCHANGED workspace
  PROVE  TypesFit' /\ StagesFit'
<1>1. JobFits(at[d], job[d])
  BY DEF StagesFit
<1>2. JobFits(stage, j)
  BY <1>1 DEF JobFits, Executing, Planned, Built, Publishing
<1>3. OneDriver(d, stage, j)
  BY <1>2 DEF OneDriver, Built, Publishing, Stages
<1>4. files' \in [Ticket -> [Path -> Content] \cup {Nothing}] /\ results' \subseteq Receipts
  BY DEF workspace, TypesFit
<1> QED BY <1>3, <1>4, DriverMoves

\* The publisher: look, push, verify, list, create, confirm.
LEMMA PublishingFits ==
  ASSUME DeliveryInv, NEW d \in Driver, Publishes(d)
  PROVE  TypesFit' /\ StagesFit'
<1> USE DEF DeliveryInv
<1>j. job[d] \in Jobs /\ job = [job EXCEPT ![d] = job[d]]
  BY DEF TypesFit
<1>1. ASSUME Look(d) PROVE TypesFit' /\ StagesFit'
  <2>1. PICK stage \in {"pushing", "verifying"}, reused \in BOOLEAN :
          at' = [at EXCEPT ![d] = stage] /\ job' = [job EXCEPT ![d].branchReused = reused]
    BY <1>1 DEF Look, Goes
  <2> DEFINE j == [job[d] EXCEPT !.branchReused = reused]
  <2>2. j \in Jobs /\ j.plan = job[d].plan /\ j.commit = job[d].commit
    BY <1>j DEF Jobs
  <2>3. job' = [job EXCEPT ![d] = j] /\ stage \in Built /\ at[d] \in Built /\ UNCHANGED workspace
    BY <1>1, <2>1 DEF Look, TypesFit, Built, Publishing
  <2> HIDE DEF j
  <2> QED BY <2>1, <2>2, <2>3, PublisherMoves
<1>2. ASSUME Push(d) \/ Verify(d) \/ CreatePull(d) PROVE TypesFit' /\ StagesFit'
  <2>1. PICK stage \in Built : at' = [at EXCEPT ![d] = stage]
    BY <1>2 DEF Push, Verify, CreatePull, Goes, Built, Publishing
  <2>2. at[d] \in Built /\ job' = job /\ UNCHANGED workspace
    BY <1>2 DEF Push, Verify, CreatePull, Built, Publishing
  <2> QED BY <1>j, <2>1, <2>2, PublisherMoves
<1>3. ASSUME at[d] \in Built, NEW reused \in BOOLEAN, Settles(d, reused)
      PROVE  TypesFit' /\ StagesFit'
  <2>1. PICK n \in DOMAIN pulls : /\ job' = [job EXCEPT ![d].pull = n, ![d].pullReused = reused]
                                  /\ at' = [at EXCEPT ![d] = "published"] /\ UNCHANGED workspace
    BY <1>3 DEF Settles, Goes
  <2>2. n \in Nat
    BY <2>1
  <2> DEFINE j == [job[d] EXCEPT !.pull = n, !.pullReused = reused]
  <2>3. j \in Jobs /\ j.plan = job[d].plan /\ j.commit = job[d].commit
    BY <1>j, <2>2 DEF Jobs
  <2>4. job' = [job EXCEPT ![d] = j] /\ "published" \in Built
    BY <2>1 DEF TypesFit, Built
  <2> HIDE DEF j
  <2> QED BY <1>3, <2>1, <2>3, <2>4, PublisherMoves
<1>4. ASSUME ListPulls(d) PROVE TypesFit' /\ StagesFit'
  <2>1. at[d] \in Built
    BY <1>4 DEF ListPulls, Built, Publishing
  <2>2. CASE Settles(d, TRUE)
    BY <1>3, <2>1, <2>2
  <2>3. CASE at' = [at EXCEPT ![d] = "creating"] /\ job' = job /\ UNCHANGED workspace
    <3>1. "creating" \in Built
      BY DEF Built, Publishing
    <3> QED BY <1>j, <2>1, <2>3, <3>1, PublisherMoves
  <2> QED BY <1>4, <2>2, <2>3 DEF ListPulls, Goes
<1>5. ASSUME Confirm(d) PROVE TypesFit' /\ StagesFit'
  BY <1>3, <1>5 DEF Confirm, Built, Publishing
<1>6. ASSUME PublishFails(d) PROVE TypesFit' /\ StagesFit'
  <2> DEFINE j == [job[d] EXCEPT !.branchReused = FALSE]
  <2>1. j \in Jobs /\ j.plan = job[d].plan /\ j.commit = job[d].commit
    BY <1>j DEF Jobs
  <2>2. /\ at[d] \in Built /\ "built" \in Built
        /\ at' = [at EXCEPT ![d] = "built"] /\ job' = [job EXCEPT ![d] = j] /\ UNCHANGED workspace
    BY <1>6 DEF PublishFails, Goes, TypesFit, Built
  <2> HIDE DEF j
  <2> QED BY <2>1, <2>2, PublisherMoves
<1> QED BY <1>1, <1>2, <1>4, <1>5, <1>6 DEF Publishes

\* Everything else: the evidence, a death, the environment and the owner.
LEMMA OthersFit ==
  ASSUME DeliveryInv,
         \/ \E d \in Driver : Record(d) \/ Crash(d)
         \/ \E t \in Ticket : Writes(t) \/ CleanWorkspace(t)
         \/ CleanClone \/ Owner \/ RecordFailure \/ Decide
  PROVE  TypesFit' /\ StagesFit'
<1> USE DEF DeliveryInv
<1>1. ASSUME NEW d \in Driver, Record(d) PROVE TypesFit' /\ StagesFit'
  <2>1. at[d] \in Built /\ job' = job /\ UNCHANGED workspace
    BY <1>1 DEF Record, Built
  <2>2. PICK stage \in Built : at' = [at EXCEPT ![d] = stage]
    BY <1>1 DEF Record, Goes, TypesFit, Built
  <2>3. job[d] \in Jobs /\ job = [job EXCEPT ![d] = job[d]]
    BY DEF TypesFit
  <2> QED BY <2>1, <2>2, <2>3, PublisherMoves
<1>2. ASSUME NEW d \in Driver, Crash(d) PROVE TypesFit' /\ StagesFit'
  <2>1. NoJob \in Jobs
    BY DEF NoJob, Jobs, Trees, Source, Content
  <2>2. OneDriver(d, "idle", NoJob)
    BY <1>2, <2>1 DEF Crash, Goes, OneDriver, Stages, JobFits, Executing, Planned, Built, Publishing
  <2>3. files' \in [Ticket -> [Path -> Content] \cup {Nothing}] /\ results' \subseteq Receipts
    BY <1>2 DEF Crash, workspace, TypesFit
  <2> QED BY <2>2, <2>3, DriverMoves
<1>3. ASSUME NEW t \in Ticket, Writes(t) \/ CleanWorkspace(t) PROVE TypesFit' /\ StagesFit'
  <2>1. UNCHANGED <<at, job, results>>
    BY <1>3 DEF Writes, CleanWorkspace
  <2>2. files' \in [Ticket -> [Path -> Content] \cup {Nothing}]
    <3>1. CASE Writes(t)
      <4>1. PICK p \in Path, c \in Content : files' = [files EXCEPT ![t][p] = c]
        BY <3>1 DEF Writes
      <4>2. files[t] \in [Path -> Content]
        BY <3>1 DEF Writes, TypesFit
      <4> QED BY <4>1, <4>2 DEF TypesFit
    <3>2. CASE CleanWorkspace(t)
      BY <3>2 DEF CleanWorkspace, TypesFit
    <3> QED BY <1>3, <3>1, <3>2
  <2> QED BY <2>1, <2>2 DEF TypesFit, StagesFit, JobFits, Deliverable, Changed
<1>4. ASSUME CleanClone \/ Owner \/ RecordFailure \/ Decide PROVE TypesFit' /\ StagesFit'
  <2>1. UNCHANGED <<at, job, results, files>>
    BY <1>4 DEF CleanClone, Owner, RecordFailure, Decide, workspace
  <2> QED BY <2>1 DEF TypesFit, StagesFit, JobFits, Deliverable, Changed
<1> QED BY <1>1, <1>2, <1>3, <1>4

-------------------------------------------------------------------------------
(* What GitHub holds.                                                      *)

\* Only a push, a new pull request and the owner change what GitHub holds.
LEMMA WhoChangesGitHub ==
  ASSUME Next, \A d \in Driver : ~(Push(d) \/ CreatePull(d)), ~Owner
  PROVE  UNCHANGED github
  BY DEF Next, Executes, Builds, Publishes, Materialize, Extract, ExtractFails, Observe, Prepare,
         Clone, Copy, Commit, BuildFails, Look, Verify, ListPulls, Settles, Confirm, PublishFails,
         Record, Crash, Writes, CleanWorkspace, CleanClone, RecordFailure, Decide

\* What is pushed is a commit within the scope of its receipt.
LEMMA PushFits ==
  ASSUME DeliveryInv, NEW d \in Driver, Push(d)
  PROVE  /\ job[d].commit \in Commits /\ Branch(d) \in Receipts
         /\ RemoteFits' /\ PublishedWithinScope' /\ UNCHANGED pulls
<1>1. /\ job[d].plan \in Plans /\ Deliverable(Branch(d))
      /\ job[d].commit \in Commits /\ Changed(job[d].commit.tree) = Branch(d).changed
  BY DEF DeliveryInv, StagesFit, JobFits, Push, Planned, Built, Publishing, Branch
<1>2. Branch(d) \in Receipts
  BY <1>1 DEF Plans, Branch
<1>3. RemoteFits'
  BY <1>1 DEF DeliveryInv, RemoteFits, Push
<1>4. PublishedWithinScope'
  BY <1>1 DEF DeliveryInv, PublishedWithinScope, Push, Deliverable, Changed
<1> QED BY <1>1, <1>2, <1>3, <1>4 DEF Push

LEMMA GitHubFits ==
  ASSUME DeliveryInv, Next
  PROVE  RemoteFits' /\ pulls' \in Seq(Pulls) /\ PublishedWithinScope'
<1> USE DEF DeliveryInv
<1>1. CASE \E d \in Driver : Push(d)
  BY <1>1, PushFits
<1>2. CASE \E d \in Driver : CreatePull(d)
  <2>1. PICK d \in Driver : CreatePull(d)
    BY <1>2
  <2>2. job[d].plan \in Plans
    BY <2>1 DEF StagesFit, JobFits, CreatePull, Planned, Built, Publishing
  <2>3. [branch |-> Branch(d), base |-> job[d].plan.base, draft |-> TRUE, open |-> TRUE] \in Pulls
    BY <2>2 DEF Pulls, Plans, Branch
  <2>4. pulls' \in Seq(Pulls)
    BY <2>1, <2>3 DEF CreatePull
  <2> QED BY <2>1, <2>4 DEF CreatePull, RemoteFits, PublishedWithinScope, Changed
<1>3. CASE Owner
  <2>1. RemoteFits' /\ PublishedWithinScope'
    BY <1>3 DEF Owner, RemoteFits, PublishedWithinScope, Changed
  <2>2. DOMAIN pulls = 1 .. Len(pulls) /\ Len(pulls) \in Nat /\ \A n \in DOMAIN pulls : pulls[n] \in Pulls
    OBVIOUS
  <2>3. ASSUME NEW p \in Pulls
        PROVE  [p EXCEPT !.open = FALSE] \in Pulls /\ [p EXCEPT !.draft = FALSE] \in Pulls
    BY DEF Pulls
  <2>4. pulls' \in [1 .. Len(pulls) -> Pulls]
    <3>1. ASSUME NEW n \in DOMAIN pulls,
                 \/ pulls' = [pulls EXCEPT ![n] = [pulls[n] EXCEPT !.open = FALSE]]
                 \/ pulls' = [pulls EXCEPT ![n] = [pulls[n] EXCEPT !.draft = FALSE]]
          PROVE  pulls' \in [1 .. Len(pulls) -> Pulls]
      BY <2>2, <2>3, <3>1
    <3>2. ASSUME NEW b, pulls' = [n \in DOMAIN pulls |->
                   IF pulls[n].branch = b THEN [pulls[n] EXCEPT !.open = FALSE] ELSE pulls[n]]
          PROVE  pulls' \in [1 .. Len(pulls) -> Pulls]
      BY <2>2, <2>3, <3>2
    <3> QED BY <1>3, <3>1, <3>2 DEF Owner
  <2>5. pulls' \in Seq(Pulls)
    BY <2>2, <2>4
  <2> QED BY <2>1, <2>5
<1>4. CASE UNCHANGED github
  BY <1>4 DEF github, RemoteFits, PublishedWithinScope, Changed
<1> QED BY <1>1, <1>2, <1>3, <1>4, WhoChangesGitHub

-------------------------------------------------------------------------------
LEMMA NextFits == DeliveryInv /\ [Next]_vars => DeliveryInv'
<1> SUFFICES ASSUME DeliveryInv, [Next]_vars PROVE DeliveryInv'
  OBVIOUS
<1>1. CASE Next
  <2>1. TypesFit' /\ StagesFit'
    BY <1>1, ExecutingFits, BuildingFits, PublishingFits, OthersFit DEF Next
  <2> QED BY <1>1, <2>1, GitHubFits DEF DeliveryInv
<1>2. CASE UNCHANGED vars
  BY <1>2 DEF vars, workspace, github, DeliveryInv, TypesFit, StagesFit, JobFits, Deliverable,
              RemoteFits, PublishedWithinScope, Changed
<1> QED BY <1>1, <1>2

\* The invariant from which the next two theorems follow: what a driver knows of its plan
\* and its commit at every stage, and that GitHub holds such commits only.
THEOREM DeliveryInvariant == Spec => []DeliveryInv
<1>1. Init => DeliveryInv
  BY InitFits
<1>2. DeliveryInv /\ [Next]_vars => DeliveryInv'
  BY NextFits
<1> QED BY <1>1, <1>2, PTL DEF Spec

\* A commit that reaches GitHub changes exactly the paths its receipt names, all of them
\* listed in the work order (local_git_delivery.py, build).
THEOREM PublicationsAreWithinScope == Spec => []PublishedWithinScope
<1>1. DeliveryInv => PublishedWithinScope
  BY DEF DeliveryInv
<1> QED BY <1>1, DeliveryInvariant, PTL

LEMMA BranchesStay ==
  ASSUME DeliveryInv, Next, NEW b \in DOMAIN remote \cap DOMAIN remote'
  PROVE  remote'[b] = remote[b]
<1>1. CASE \E d \in Driver : Push(d)
  <2>1. PICK d \in Driver : Push(d)
    BY <1>1
  <2>2. CASE b = Branch(d)
    <3>1. remote[b] \in {Nothing, job[d].commit} /\ remote'[b] = job[d].commit
      BY <2>1, <2>2 DEF Push, Accepted, OnRemote
    <3>2. remote[b] # Nothing
      BY NothingAssumption DEF DeliveryInv, RemoteFits
    <3> QED BY <3>1, <3>2
  <2>3. CASE b # Branch(d)
    BY <2>1, <2>3 DEF Push
  <2> QED BY <2>2, <2>3
<1>2. CASE \E d \in Driver : CreatePull(d)
  BY <1>2 DEF CreatePull
<1>3. CASE Owner
  BY <1>3 DEF Owner
<1>4. CASE UNCHANGED github
  BY <1>4 DEF github
<1> QED BY <1>1, <1>2, <1>3, <1>4, WhoChangesGitHub

\* A delivery branch never moves from one commit to another, whoever publishes and how
\* often: only the owner removes it (remote_git_publisher.py, publish).
THEOREM BranchesNeverMove == Spec => BranchNeverMoves
<1>1. DeliveryInv /\ [Next]_vars =>
        [\A b \in DOMAIN remote \cap DOMAIN remote' : remote'[b] = remote[b]]_vars
  BY BranchesStay
<1> QED BY <1>1, DeliveryInvariant, PTL DEF Spec, BranchNeverMoves


-------------------------------------------------------------------------------
(* What the evidence says.                                                 *)

\* A pull request of GitHub proposes a plan.
Proposes(n, plan) ==
  n \in DOMAIN pulls /\ pulls[n].branch = plan.receipt /\ pulls[n].base = plan.base

\* The stages behind a push of the driver's commit, and behind its pull request.
Settled == {"published", "recorded"}
Pushed == {"verifying", "listing", "creating", "confirming"} \cup Settled

\* What GitHub has taken, as far as a driver goes by it.
Knows(stage, j) ==
  /\ stage \in Pushed => [branch |-> j.plan.receipt, commit |-> j.commit] \in published
  /\ stage \in Settled => Proposes(j.pull, j.plan)
  /\ j.pull \in 0 .. MaxPulls

CountsFit == writers \subseteq Ticket /\ runs \in 0 .. MaxRuns /\ trouble \in 0 .. MaxTrouble
ClonesFit == clones \subseteq [plan : Plans, commit : Commits \cup {Nothing}]
PushesFit ==
  /\ published \subseteq [branch : Receipts, commit : Commits]
  /\ \A b \in DOMAIN remote : [branch |-> b, commit |-> remote[b]] \in published
PullsFit == Len(pulls) <= MaxPulls
KnowledgeFits == \A d \in Driver : Knows(at[d], job[d])
EvidenceFits ==
  \A e \in evidence : e.outcome = "succeeded" =>
    /\ [branch |-> e.plan.receipt, commit |-> e.commit] \in published
    /\ Proposes(e.pull, e.plan)
DecisionsFit ==
  /\ decisions \subseteq evidence \X {"approve", "reject"}
  /\ \A x, y \in decisions : x[1].outcome = "succeeded" /\ (x[1] = y[1] => x = y)

EvidenceInv ==
  /\ CountsFit /\ ClonesFit /\ PushesFit /\ PullsFit
  /\ KnowledgeFits /\ EvidenceFits /\ DecisionsFit

LEMMA EvidenceInitially == Init => EvidenceInv
  BY DeliveryAssumption
  DEF Init, EvidenceInv, CountsFit, ClonesFit, PushesFit, PullsFit, KnowledgeFits, Knows,
      Pushed, Settled, EvidenceFits, DecisionsFit, NoJob

\* What GitHub took it keeps on record: a pull request keeps its number and its branches.
Grows ==
  /\ published \subseteq published'
  /\ \A n \in DOMAIN pulls :
       /\ n \in DOMAIN pulls'
       /\ pulls'[n].branch = pulls[n].branch /\ pulls'[n].base = pulls[n].base

LEMMA GitHubGrows ==
  ASSUME DeliveryInv, Next
  PROVE  Grows
<1>0. pulls \in Seq(Pulls) BY DEF DeliveryInv
<1>1. CASE \E d \in Driver : Push(d)
  BY <1>1 DEF Push, Grows
<1>2. ASSUME NEW d \in Driver, CreatePull(d) PROVE Grows
  <2> DEFINE new == [branch |-> Branch(d), base |-> job[d].plan.base, draft |-> TRUE,
                     open |-> TRUE]
  <2>1. pulls' = Append(pulls, new) /\ published' = published
    BY <1>2 DEF CreatePull
  <2>2. \A n \in DOMAIN pulls : n \in DOMAIN pulls' /\ pulls'[n] = pulls[n]
    <3> HIDE DEF new
    <3> QED BY <1>0, <2>1
  <2> QED BY <2>1, <2>2 DEF Grows
<1>3. CASE Owner
  <2>1. published' = published BY <1>3 DEF Owner
  <2>2. ASSUME NEW n \in DOMAIN pulls PROVE pulls[n] \in Pulls BY <1>0, <2>2
  <2>3. ASSUME NEW m \in DOMAIN pulls,
               \/ pulls' = [pulls EXCEPT ![m].open = FALSE]
               \/ pulls' = [pulls EXCEPT ![m].draft = FALSE]
        PROVE  Grows
    BY <2>1, <2>2, <2>3 DEF Grows, Pulls
  <2>4. ASSUME NEW b, pulls' = [n \in DOMAIN pulls |->
                 IF pulls[n].branch = b THEN [pulls[n] EXCEPT !.open = FALSE] ELSE pulls[n]]
        PROVE  Grows
    BY <2>1, <2>2, <2>4 DEF Grows, Pulls
  <2> QED BY <1>3, <2>3, <2>4 DEF Owner
<1>4. CASE UNCHANGED github
  BY <1>4 DEF github, Grows
<1> QED BY <1>1, <1>2, <1>3, <1>4, WhoChangesGitHub

-------------------------------------------------------------------------------
(* What the drivers know.                                                  *)

\* No other driver is touched.
Elsewhere(d) == \A e \in Driver \ {d} : at'[e] = at[e] /\ job'[e] = job[e]

\* One driver moves, and what it goes by at its new stage is so.
LEMMA KnowledgeMoves ==
  ASSUME KnowledgeFits, Grows, NEW d \in Driver, Elsewhere(d),
         LET j == job'[d] IN
         /\ at'[d] \in Pushed =>
              [branch |-> j.plan.receipt, commit |-> j.commit] \in published'
         /\ at'[d] \in Settled => Proposes(j.pull, j.plan) /\ j.pull \in DOMAIN pulls
         /\ j.pull \in 0 .. MaxPulls
  PROVE  KnowledgeFits'
<1> SUFFICES ASSUME NEW e \in Driver PROVE Knows(at[e], job[e])'
  BY DEF KnowledgeFits
<1>1. CASE e = d
  BY <1>1 DEF Knows, Proposes, Grows
<1>2. CASE e # d
  <2>1. Knows(at[e], job[e]) /\ at'[e] = at[e] /\ job'[e] = job[e]
    BY <1>2 DEF KnowledgeFits, Elsewhere
  <2> QED BY <2>1 DEF Knows, Proposes, Grows
<1> QED BY <1>1, <1>2

\* Before the push there is nothing to know.
LEMMA NothingToKnow ==
  ASSUME KnowledgeFits, Grows, NEW d \in Driver, Elsewhere(d), at'[d] \notin Pushed,
         job'[d].pull \in {0, job[d].pull}
  PROVE  KnowledgeFits'
<1>1. job[d].pull \in 0 .. MaxPulls
  BY DEF KnowledgeFits, Knows
<1>2. 0 \in 0 .. MaxPulls
  BY DeliveryAssumption
<1>3. job'[d].pull \in 0 .. MaxPulls
  BY <1>1, <1>2
<1> QED BY <1>3, KnowledgeMoves DEF Pushed

\* Until it has pushed, a driver works on its own.
LEMMA WorkingKnowledge ==
  ASSUME DeliveryInv, EvidenceInv, Grows, NEW d \in Driver, Executes(d) \/ Builds(d) \/ Crash(d)
  PROVE  KnowledgeFits'
<1>0. TypesFit /\ KnowledgeFits /\ job[d] \in Jobs
  BY DEF DeliveryInv, EvidenceInv, TypesFit
<1> USE DEF Pushed, Settled, Elsewhere, Goes, Jobs, TypesFit
<1>1. ASSUME NEW t \in Ticket, Materialize(d, t) PROVE KnowledgeFits'
  <2>1. Elsewhere(d) /\ at'[d] = "extracting" /\ job'[d].pull = job[d].pull
    BY <1>0, <1>1 DEF Materialize
  <2> QED BY <1>0, <2>1, NothingToKnow
<1>2. CASE Extract(d)
  <2>1. Elsewhere(d) /\ at'[d] = "running" /\ job'[d].pull = job[d].pull
    BY <1>0, <1>2 DEF Extract
  <2> QED BY <1>0, <2>1, NothingToKnow
<1>3. CASE ExtractFails(d) \/ Observe(d) \/ Crash(d)
  <2>1. Elsewhere(d) /\ at'[d] = "idle" /\ job'[d].pull = 0
    BY <1>0, <1>3 DEF ExtractFails, Observe, Crash, NoJob
  <2> QED BY <1>0, <2>1, NothingToKnow
<1>4. CASE Prepare(d)
  <2>1. Elsewhere(d) /\ at'[d] = "planned" /\ job'[d].pull = job[d].pull
    BY <1>0, <1>4 DEF Prepare
  <2> QED BY <1>0, <2>1, NothingToKnow
<1>5. CASE Clone(d)
  <2>1. Elsewhere(d) /\ at'[d] \in {"planned", "copying"} /\ job'[d].pull = job[d].pull
    BY <1>0, <1>5 DEF Clone
  <2> QED BY <1>0, <2>1, NothingToKnow
<1>6. CASE Copy(d)
  <2>1. PICK p \in job[d].left : \E c :
          job' = [job EXCEPT ![d].tree[p] = c, ![d].left = @ \ {p}]
    BY <1>6 DEF Copy
  <2>2. Elsewhere(d) /\ at'[d] = "copying" /\ job'[d].pull = job[d].pull
    BY <1>0, <1>6, <2>1 DEF Copy
  <2> QED BY <1>0, <2>2, NothingToKnow
<1>7. CASE Commit(d)
  <2>1. Elsewhere(d) /\ at'[d] = "built" /\ job'[d].pull = job[d].pull
    BY <1>0, <1>7 DEF Commit
  <2> QED BY <1>0, <2>1, NothingToKnow
<1>8. CASE BuildFails(d)
  <2>1. Elsewhere(d) /\ at'[d] = "planned" /\ job'[d].pull = job[d].pull
    BY <1>0, <1>8 DEF BuildFails
  <2> QED BY <1>0, <2>1, NothingToKnow
<1> QED
  BY <1>1, <1>2, <1>3, <1>4, <1>5, <1>6, <1>7, <1>8 DEF Executes, Builds

\* What a driver has seen on GitHub was pushed.
LEMMA SeenWasPushed ==
  ASSUME DeliveryInv, EvidenceInv, NEW b, NEW c \in Commits, OnRemote(b) = c
  PROVE  [branch |-> b, commit |-> c] \in published
  BY NothingAssumption DEF OnRemote, EvidenceInv, PushesFit

\* A publisher goes on only with a commit that is on GitHub, and a pull request that
\* proposes its plan.
LEMMA PublishingKnowledge ==
  ASSUME DeliveryInv, EvidenceInv, Grows, NEW d \in Driver, Publishes(d) \/ Record(d)
  PROVE  KnowledgeFits'
<1>0. TypesFit /\ KnowledgeFits /\ job[d] \in Jobs /\ pulls \in Seq(Pulls) /\ PullsFit
  BY DEF DeliveryInv, EvidenceInv, TypesFit
<1>k. Knows(at[d], job[d]) BY <1>0 DEF KnowledgeFits
<1>c. at[d] \in {"built", "pushing", "verifying"} => job[d].commit \in Commits
  BY DEF DeliveryInv, StagesFit, JobFits, Built, Publishing
<1> USE DEF Elsewhere, Goes, Jobs, TypesFit, Branch
<1>1. CASE Look(d)
  <2>1. /\ Elsewhere(d) /\ at'[d] \in {"pushing", "verifying"}
        /\ job'[d].plan = job[d].plan /\ job'[d].commit = job[d].commit
        /\ job'[d].pull = job[d].pull
    BY <1>0, <1>1 DEF Look
  <2>2. CASE at'[d] = "pushing"
    BY <1>0, <2>1, <2>2, NothingToKnow DEF Pushed, Settled
  <2>3. CASE at'[d] = "verifying"
    <3>1. OnRemote(Branch(d)) = job[d].commit BY <1>0, <1>1, <2>3 DEF Look
    <3>2. [branch |-> Branch(d), commit |-> job[d].commit] \in published
      BY <1>1, <1>c, <3>1, SeenWasPushed DEF Look
    <3> QED
      BY <1>0, <1>k, <2>1, <2>3, <3>2, KnowledgeMoves DEF Knows, Settled, Grows
  <2> QED BY <2>1, <2>2, <2>3
<1>2. CASE Push(d)
  <2>1. /\ Elsewhere(d) /\ at'[d] \in {"built", "verifying"} /\ job'[d] = job[d]
        /\ [branch |-> Branch(d), commit |-> job[d].commit] \in published'
    BY <1>0, <1>2 DEF Push
  <2> QED BY <1>0, <1>k, <2>1, KnowledgeMoves DEF Knows, Settled
<1>3. CASE Verify(d)
  <2>1. Elsewhere(d) /\ at[d] = "verifying" /\ at'[d] = "listing" /\ job'[d] = job[d]
    BY <1>0, <1>3 DEF Verify
  <2> QED BY <1>0, <1>k, <2>1, KnowledgeMoves DEF Knows, Pushed, Settled, Grows
<1>4. ASSUME NEW reused, Settles(d, reused), at[d] \in {"listing", "confirming"}
      PROVE  KnowledgeFits'
  <2>1. PICK n \in DOMAIN pulls :
          /\ Exact(d, pulls[n])
          /\ job' = [job EXCEPT ![d].pull = n, ![d].pullReused = reused]
          /\ at' = [at EXCEPT ![d] = "published"] /\ UNCHANGED github
    BY <1>4 DEF Settles
  <2>2. /\ Elsewhere(d) /\ job'[d].plan = job[d].plan /\ job'[d].commit = job[d].commit
        /\ job'[d].pull = n
    BY <1>0, <2>1
  <2>3. [branch |-> Branch(d), commit |-> job[d].commit] \in published'
    BY <1>4, <1>k, <2>1 DEF Knows, Pushed, github
  <2>4. Proposes(n, job[d].plan) BY <2>1 DEF Exact, Proposes
  <2>5. n \in 0 .. MaxPulls
    <3>1. n \in 1 .. Len(pulls) /\ Len(pulls) \in Nat BY <1>0, <2>1
    <3> QED BY <1>0, <3>1, DeliveryAssumption DEF PullsFit
  <2> QED BY <1>0, <2>1, <2>2, <2>3, <2>4, <2>5, KnowledgeMoves
<1>5. CASE ListPulls(d)
  <2>1. CASE Settles(d, TRUE) BY <1>4, <1>5, <2>1 DEF ListPulls
  <2>2. CASE ~Settles(d, TRUE)
    <3>1. Elsewhere(d) /\ at[d] = "listing" /\ at'[d] = "creating" /\ job'[d] = job[d]
      BY <1>0, <1>5, <2>2 DEF ListPulls
    <3> QED BY <1>0, <1>k, <3>1, KnowledgeMoves DEF Knows, Pushed, Settled, Grows
  <2> QED BY <2>1, <2>2
<1>6. CASE CreatePull(d)
  <2>1. /\ Elsewhere(d) /\ at[d] = "creating" /\ at'[d] \in {"confirming", "built"}
        /\ job'[d] = job[d]
    BY <1>0, <1>6 DEF CreatePull
  <2> QED BY <1>0, <1>k, <2>1, KnowledgeMoves DEF Knows, Pushed, Settled, Grows
<1>7. CASE Confirm(d) BY <1>4, <1>7 DEF Confirm
<1>8. CASE PublishFails(d)
  <2>1. Elsewhere(d) /\ at'[d] = "built" /\ job'[d].pull = job[d].pull
    BY <1>0, <1>8 DEF PublishFails
  <2> QED BY <1>0, <2>1, NothingToKnow DEF Pushed, Settled
<1>9. CASE Record(d)
  <2>1. Elsewhere(d) /\ at[d] = "published" /\ at'[d] \in Settled /\ job'[d] = job[d]
    BY <1>0, <1>9 DEF Record, Settled
  <2> QED BY <1>0, <1>k, <2>1, KnowledgeMoves DEF Knows, Pushed, Settled, Proposes, Grows
<1> QED
  BY <1>1, <1>2, <1>3, <1>5, <1>6, <1>7, <1>8, <1>9 DEF Publishes

-------------------------------------------------------------------------------
(* Evidence, decisions and the rest.                                       *)

\* Knowledge of one delivery outlasts whatever is done to GitHub.
LEMMA KnowledgeLasts ==
  ASSUME DeliveryInv, EvidenceInv, Next
  PROVE  KnowledgeFits'
<1>1. Grows BY GitHubGrows
<1>2. CASE UNCHANGED <<at, job>>
  BY <1>1, <1>2 DEF EvidenceInv, KnowledgeFits, Knows, Proposes, Grows
<1> QED
  BY <1>1, <1>2, WorkingKnowledge, PublishingKnowledge DEF Next, Writes, CleanWorkspace,
     CleanClone, Owner, RecordFailure, Decide

LEMMA EvidenceStaysTrue ==
  ASSUME DeliveryInv, EvidenceInv, Next
  PROVE  EvidenceFits'
<1>1. Grows BY GitHubGrows
<1> USE DEF EvidenceFits, Proposes
<1>2. CASE UNCHANGED evidence
  BY <1>1, <1>2 DEF EvidenceInv, Grows
<1>3. ASSUME NEW d \in Driver, Record(d) PROVE EvidenceFits'
  <2>1. Knows("published", job[d]) /\ UNCHANGED github
    BY <1>3 DEF EvidenceInv, KnowledgeFits, Record
  <2>2. /\ [branch |-> job[d].plan.receipt, commit |-> job[d].commit] \in published
        /\ Proposes(job[d].pull, job[d].plan)
    BY <2>1 DEF Knows, Pushed, Settled
  <2>3. Delivered(d).plan = job[d].plan /\ Delivered(d).commit = job[d].commit
        /\ Delivered(d).pull = job[d].pull
    BY DEF Delivered
  <2> QED BY <1>3, <2>1, <2>2, <2>3 DEF EvidenceInv, Record, github
<1>4. CASE RecordFailure
  <2>1. PICK r \in results :
          /\ r.disposition # "succeeded"
          /\ evidence' = evidence \cup {[outcome |-> r.disposition, receipt |-> r]}
    BY <1>4 DEF RecordFailure
  <2> QED BY <1>4, <2>1 DEF EvidenceInv, RecordFailure, github
<1>5. ASSUME NEW d \in Driver, Executes(d) \/ Builds(d) \/ Publishes(d) \/ Crash(d)
      PROVE  UNCHANGED evidence
  BY <1>5 DEF Executes, Builds, Publishes, Materialize, Extract, ExtractFails, Observe, Prepare,
     Clone, Copy, Commit, BuildFails, Look, Push, Verify, ListPulls, Settles, CreatePull,
     Confirm, PublishFails, Crash, review
<1> QED
  BY <1>2, <1>3, <1>4, <1>5 DEF Next, Writes, CleanWorkspace, CleanClone, Owner, Decide, review

\* A decision is about a success that was recorded, and the first one stays.
LEMMA DecisionsStay ==
  ASSUME EvidenceInv, Next
  PROVE  DecisionsFit'
<1> USE DEF DecisionsFit
<1>1. CASE UNCHANGED decisions /\ evidence \subseteq evidence'
  BY <1>1 DEF EvidenceInv
<1>2. CASE Decide
  <2>1. PICK e \in evidence, v \in {"approve", "reject"} :
          /\ e.outcome = "succeeded" /\ ~Decided(e)
          /\ decisions' = decisions \cup {<<e, v>>} /\ evidence' = evidence
    BY <1>2 DEF Decide
  <2>2. \A x \in decisions : x[1] # e BY <2>1 DEF Decided
  <2>3. decisions' \subseteq evidence' \X {"approve", "reject"} BY <2>1 DEF EvidenceInv
  <2>4. ASSUME NEW x \in decisions', NEW y \in decisions'
        PROVE  x[1].outcome = "succeeded" /\ (x[1] = y[1] => x = y)
    <3>1. CASE x \in decisions /\ y \in decisions BY <3>1 DEF EvidenceInv
    <3>2. CASE x = <<e, v>> BY <2>1, <2>2, <3>2
    <3>3. CASE x \in decisions /\ y = <<e, v>> BY <2>2, <3>3 DEF EvidenceInv
    <3> QED BY <2>1, <3>1, <3>2, <3>3
  <2> QED BY <2>3, <2>4
<1>3. ASSUME NEW d \in Driver, Executes(d) \/ Builds(d) \/ Publishes(d) \/ Crash(d)
      PROVE  UNCHANGED review
  BY <1>3 DEF Executes, Builds, Publishes, Materialize, Extract, ExtractFails, Observe, Prepare,
     Clone, Copy, Commit, BuildFails, Look, Push, Verify, ListPulls, Settles, CreatePull,
     Confirm, PublishFails, Crash, review
<1>4. (\E d \in Driver : Record(d)) \/ RecordFailure
        => UNCHANGED decisions /\ evidence \subseteq evidence'
  BY DEF Record, RecordFailure
<1> QED
  BY <1>1, <1>2, <1>3, <1>4 DEF Next, Writes, CleanWorkspace, CleanClone, Owner, review

LEMMA CountsStay ==
  ASSUME DeliveryInv, EvidenceInv, Next
  PROVE  CountsFit'
<1>1. trouble' \in 0 .. MaxTrouble
  <2> DEFINE Counted == trouble' = trouble \/ (trouble < MaxTrouble /\ trouble' = trouble + 1)
  <2> USE DEF Untoward
  <2>3. ASSUME NEW d \in Driver, Executes(d) \/ Crash(d) PROVE Counted
    BY <2>3 DEF Executes, Materialize, Extract, ExtractFails, Observe, Crash
  <2>4. ASSUME NEW d \in Driver, Builds(d) PROVE Counted
    BY <2>4 DEF Builds, Prepare, Clone, Copy, Commit, BuildFails
  <2>5. ASSUME NEW d \in Driver, Look(d) \/ Push(d) \/ Verify(d) PROVE Counted
    BY <2>5 DEF Look, Push, Verify
  <2>6. ASSUME NEW d \in Driver, ListPulls(d) \/ CreatePull(d) \/ Confirm(d) PROVE Counted
    BY <2>6 DEF ListPulls, Settles, CreatePull, Confirm
  <2>7. ASSUME NEW d \in Driver, PublishFails(d) \/ Record(d) PROVE Counted
    BY <2>7 DEF PublishFails, Record
  <2>8. ASSUME NEW t \in Ticket, Writes(t) \/ CleanWorkspace(t) PROVE Counted
    BY <2>8 DEF Writes, CleanWorkspace
  <2>9. ASSUME CleanClone \/ Owner \/ RecordFailure \/ Decide PROVE Counted
    BY <2>9 DEF CleanClone, Owner, RecordFailure, Decide
  <2>1. Counted
    BY <2>3, <2>4, <2>5, <2>6, <2>7, <2>8, <2>9 DEF Next, Publishes
  <2>2. trouble \in 0 .. MaxTrouble BY DEF EvidenceInv, CountsFit
  <2> QED BY <2>1, <2>2, DeliveryAssumption
<1>2. writers' \subseteq Ticket /\ runs' \in 0 .. MaxRuns
  <2>0. writers \subseteq Ticket /\ runs \in 0 .. MaxRuns BY DEF EvidenceInv, CountsFit
  <2>1. CASE UNCHANGED <<writers, runs>> BY <2>0, <2>1
  <2>2. ASSUME NEW d \in Driver, NEW t \in Ticket, Materialize(d, t)
        PROVE  writers' \subseteq Ticket /\ runs' \in 0 .. MaxRuns
    BY <2>0, <2>2, DeliveryAssumption DEF Materialize
  <2>3. ASSUME NEW d \in Driver, Extract(d)
        PROVE  writers' \subseteq Ticket /\ runs' \in 0 .. MaxRuns
    <3>1. job[d].ticket \in Ticket
      BY <2>3 DEF Extract, DeliveryInv, StagesFit, JobFits, Executing
    <3> QED BY <2>0, <2>3, <3>1 DEF Extract
  <2> QED
    BY <2>1, <2>2, <2>3 DEF Next, Executes, Builds, Publishes, ExtractFails, Observe,
       Prepare, Clone, Copy, Commit, BuildFails, Look, Push, Verify, ListPulls, Settles,
       CreatePull, Confirm, PublishFails, Record, Crash, Writes, CleanWorkspace, CleanClone,
       Owner, RecordFailure, Decide, workspace
<1> QED BY <1>1, <1>2 DEF CountsFit

LEMMA ClonesStay ==
  ASSUME DeliveryInv, EvidenceInv, Next
  PROVE  ClonesFit'
<1> USE DEF ClonesFit
<1>1. CASE clones' \subseteq clones BY <1>1 DEF EvidenceInv
<1>2. ASSUME NEW d \in Driver, Clone(d) PROVE ClonesFit'
  <2>1. job[d].plan \in Plans BY <1>2 DEF Clone, DeliveryInv, StagesFit, JobFits, Planned
  <2> QED BY <1>2, <2>1 DEF Clone, EvidenceInv
<1>3. ASSUME NEW d \in Driver, Commit(d) PROVE ClonesFit'
  <2>1. job[d].plan \in Plans /\ job[d].tree \in Trees
    BY <1>3 DEF Commit, DeliveryInv, TypesFit, StagesFit, JobFits, Planned, Jobs
  <2>2. PICK s \in Stamps :
          clones' = (clones \ CloneOf(job[d].plan)) \cup
                      {[plan |-> job[d].plan, commit |-> [tree |-> job[d].tree, stamp |-> s]]}
    BY <1>3 DEF Commit
  <2>3. [tree |-> job[d].tree, stamp |-> s] \in Commits BY <2>1 DEF Commits
  <2> QED BY <2>1, <2>2, <2>3 DEF EvidenceInv
<1>4. ASSUME NEW d \in Driver, Executes(d) \/ Publishes(d) \/ Record(d) \/ Crash(d)
      PROVE  UNCHANGED clones
  BY <1>4 DEF Executes, Publishes, Materialize, Extract, ExtractFails, Observe, Look, Push,
     Verify, ListPulls, Settles, CreatePull, Confirm, PublishFails, Record, Crash
<1> QED
  BY <1>1, <1>2, <1>3, <1>4 DEF Next, Builds, Prepare, Copy, BuildFails, Writes,
     CleanWorkspace, CleanClone, Owner, RecordFailure, Decide

\* What is on GitHub was pushed, and there are only so many pull requests.
LEMMA PushesStay ==
  ASSUME DeliveryInv, EvidenceInv, Next
  PROVE  PushesFit' /\ PullsFit'
<1>0. pulls \in Seq(Pulls) /\ PushesFit /\ PullsFit BY DEF DeliveryInv, EvidenceInv
<1>1. CASE \E d \in Driver : Push(d)
  BY <1>0, <1>1, PushFits DEF Push, PushesFit, PullsFit
<1>2. ASSUME NEW d \in Driver, CreatePull(d) PROVE PushesFit' /\ PullsFit'
  <2>1. PICK new : pulls' = Append(pulls, new) BY <1>2 DEF CreatePull
  <2>2. Len(pulls') = Len(pulls) + 1 /\ Len(pulls) \in Nat BY <1>0, <2>1
  <2>3. Len(pulls) < MaxPulls /\ UNCHANGED <<remote, published>> BY <1>2 DEF CreatePull
  <2>4. PullsFit' BY <2>2, <2>3, DeliveryAssumption DEF PullsFit
  <2> QED BY <1>0, <2>3, <2>4 DEF PushesFit
<1>3. CASE Owner
  <2>1. DOMAIN pulls' = DOMAIN pulls BY <1>3 DEF Owner
  <2>2. pulls' \in Seq(Pulls) BY GitHubFits
  <2>3. Len(pulls') = Len(pulls)
    <3>1. /\ Len(pulls') \in Nat /\ DOMAIN pulls' = 1 .. Len(pulls')
          /\ Len(pulls) \in Nat /\ DOMAIN pulls = 1 .. Len(pulls)
      BY <1>0, <2>2
    <3>2. ASSUME NEW m \in Nat, NEW n \in Nat, 1 .. m = 1 .. n PROVE m = n
      <4>1. m \in 1 .. m \/ m = 0 OBVIOUS
      <4>2. n \in 1 .. n \/ n = 0 OBVIOUS
      <4> QED BY <3>2, <4>1, <4>2
    <3> QED BY <2>1, <3>1, <3>2
  <2> QED BY <1>0, <1>3, <2>3 DEF Owner, PushesFit, PullsFit
<1>4. CASE UNCHANGED github BY <1>0, <1>4 DEF github, PushesFit, PullsFit
<1> QED BY <1>1, <1>2, <1>3, <1>4, WhoChangesGitHub

THEOREM EvidenceInvariant == Spec => []EvidenceInv
<1>1. ASSUME DeliveryInv, EvidenceInv, [Next]_vars PROVE EvidenceInv'
  <2>1. CASE Next
    BY <1>1, <2>1, KnowledgeLasts, EvidenceStaysTrue, DecisionsStay, CountsStay, ClonesStay,
       PushesStay DEF EvidenceInv
  <2>2. CASE UNCHANGED vars
    BY <1>1, <2>2 DEF vars, workspace, github, review, EvidenceInv, CountsFit, ClonesFit,
       PushesFit, PullsFit, KnowledgeFits, Knows, Proposes, EvidenceFits, DecisionsFit
  <2> QED BY <1>1, <2>1, <2>2
<1> QED BY <1>1, EvidenceInitially, DeliveryInvariant, PTL DEF Spec

\* Evidence of success is about one delivery, commit, branch and pull request alike, though
\* drivers die, GitHub's answers are lost and the owner interferes between any two steps;
\* and only such evidence is decided on, once (engineering_audit_evidence.py,
\* engineering_owner_review_repository.py).
THEOREM EvidenceIsAlwaysTrue == Spec => []EvidenceIsTrue
<1>1. ASSUME DeliveryInv, EvidenceInv PROVE EvidenceIsTrue
  <2>1. TypesFit /\ CountsFit /\ ClonesFit /\ PushesFit /\ PullsFit /\ KnowledgeFits
        /\ EvidenceFits /\ DecisionsFit /\ pulls \in Seq(Pulls)
    BY <1>1 DEF DeliveryInv, EvidenceInv
  <2>2. ASSUME NEW d \in Driver
        PROVE  /\ job[d].ticket \in Ticket \cup {Nothing}
               /\ job[d].plan \in Plans \cup {Nothing} /\ job[d].left \subseteq Path
               /\ job[d].tree \in Trees /\ job[d].commit \in Commits \cup {Nothing}
               /\ job[d].branchReused \in BOOLEAN /\ job[d].pullReused \in BOOLEAN
               /\ job[d].pull \in 0 .. MaxPulls
    <3>1. job[d] \in Jobs BY <2>1 DEF TypesFit
    <3>2. job[d].branchReused \in BOOLEAN BY <3>1 DEF Jobs
    <3>3. job[d].pullReused \in BOOLEAN BY <3>1 DEF Jobs
    <3>4. job[d].pull \in 0 .. MaxPulls BY <2>1 DEF KnowledgeFits, Knows
    <3> QED BY <3>1, <3>2, <3>3, <3>4 DEF Jobs
  <2>3. ASSUME NEW n \in DOMAIN pulls
        PROVE  pulls[n] \in [branch : Receipts, base : Base, draft : BOOLEAN, open : BOOLEAN]
    <3>1. pulls[n] \in Pulls BY <2>1, <2>3
    <3> QED BY <3>1 DEF Pulls
  <2>4. TypeOK
    BY <2>1, <2>2, <2>3 DEF TypeOK, TypesFit, CountsFit, ClonesFit, PushesFit, PullsFit,
       DecisionsFit
  <2> QED BY <2>1, <2>4 DEF EvidenceIsTrue, EvidenceFits, DecisionsFit, Proposes
<1> QED BY <1>1, DeliveryInvariant, EvidenceInvariant, PTL

-------------------------------------------------------------------------------
(* The delivery is a reviewed delivery.                                    *)

\* What drivers do in workspaces and clones, and what they only look at, nobody else sees.
LEMMA WhoIsSeen ==
  ASSUME Next, \A d \in Driver : ~(Push(d) \/ CreatePull(d) \/ Record(d)),
         ~Owner, ~RecordFailure, ~Decide
  PROVE  UNCHANGED <<github, review>>
<1>1. UNCHANGED github BY WhoChangesGitHub
<1>2. UNCHANGED review
  BY DEF Next, Executes, Builds, Publishes, Materialize, Extract, ExtractFails, Observe, Prepare,
         Clone, Copy, Commit, BuildFails, Look, Verify, ListPulls, Settles, Confirm, PublishFails,
         Crash, Writes, CleanWorkspace, CleanClone
<1> QED BY <1>1, <1>2

\* A push makes a branch appear in scope, or repeats what is there.
LEMMA PushIsSeen ==
  ASSUME DeliveryInv, NEW d \in Driver, Push(d)
  PROVE  Reviewed!Push
<1> DEFINE x == [branch |-> Branch(d), commit |-> job[d].commit]
<1>1. job[d].commit \in Commits /\ Branch(d) \in Receipts BY PushFits
<1>2. Deliverable(Branch(d)) /\ Changed(job[d].commit.tree) = Branch(d).changed
  BY DEF DeliveryInv, StagesFit, JobFits, Push, Planned, Built, Publishing, Branch
<1>3. x \in WithinScope BY <1>1, <1>2 DEF WithinScope
<1>4. /\ published' = published \cup {x}
      /\ remote' = [b \in DOMAIN remote \cup {x.branch} |->
                      IF b = x.branch THEN x.commit ELSE remote[b]]
      /\ UNCHANGED <<pulls, evidence, decisions>>
  BY DEF Push, review
<1>5. Branch(d) \in DOMAIN remote => remote[Branch(d)] = job[d].commit
  BY NothingAssumption DEF Push, Accepted, OnRemote, DeliveryInv, RemoteFits
<1>6. x.branch \in DOMAIN remote => remote[x.branch] = x.commit BY <1>5
<1> HIDE DEF x
<1> QED BY <1>3, <1>4, <1>6 DEF Reviewed!Push

\* A new pull request proposes a branch of GitHub, the only open one for its base.
LEMMA ProposalIsSeen ==
  ASSUME DeliveryInv, NEW d \in Driver, CreatePull(d)
  PROVE  Reviewed!Propose
<1>1. job[d].plan \in Plans
  BY DEF DeliveryInv, StagesFit, JobFits, CreatePull, Planned, Built, Publishing
<1>2. job[d].plan.base \in Base BY <1>1 DEF Plans
<1>3. Branch(d) \in DOMAIN remote BY DEF CreatePull, OnRemote
<1>4. \A n \in DOMAIN pulls :
        pulls[n].open => pulls[n].branch # Branch(d) \/ pulls[n].base # job[d].plan.base
  BY DEF CreatePull, OpenPulls
<1>5. /\ pulls' = Append(pulls, [branch |-> Branch(d), base |-> job[d].plan.base,
                                 draft |-> TRUE, open |-> TRUE])
      /\ UNCHANGED <<remote, published, evidence, decisions>>
  BY DEF CreatePull, review
<1> QED BY <1>2, <1>3, <1>4, <1>5 DEF Reviewed!Propose, Reviewed!Open

\* The owner closes a proposal or marks it as ready, or removes a branch.
LEMMA OwnerIsSeen ==
  ASSUME Owner
  PROVE  Reviewed!Attend \/ Reviewed!Remove
<1>0. UNCHANGED <<published, evidence, decisions>> BY DEF Owner, review
<1>1. CASE UNCHANGED remote /\ \E n \in DOMAIN pulls :
             /\ pulls[n].open
             /\ \/ pulls' = [pulls EXCEPT ![n].open = FALSE]
                \/ pulls' = [pulls EXCEPT ![n].draft = FALSE]
  BY <1>0, <1>1 DEF Reviewed!Attend, Reviewed!Open
<1>2. CASE \E b \in DOMAIN remote :
             /\ remote' = [c \in DOMAIN remote \ {b} |-> remote[c]]
             /\ pulls' = [n \in DOMAIN pulls |->
                            IF pulls[n].branch = b THEN [pulls[n] EXCEPT !.open = FALSE]
                            ELSE pulls[n]]
  BY <1>0, <1>2 DEF Reviewed!Remove
<1> QED BY <1>1, <1>2 DEF Owner

\* Evidence of success is recorded of what is on record at GitHub.
LEMMA RecordIsSeen ==
  ASSUME DeliveryInv, EvidenceInv, (\E d \in Driver : Record(d)) \/ RecordFailure
  PROVE  Reviewed!Record
<1>1. ASSUME NEW d \in Driver, Record(d) PROVE Reviewed!Record
  <2> DEFINE e == Delivered(d)
  <2>1. Knows("published", job[d])
    BY <1>1 DEF EvidenceInv, KnowledgeFits, Record
  <2>2. /\ [branch |-> job[d].plan.receipt, commit |-> job[d].commit] \in published
        /\ Proposes(job[d].pull, job[d].plan)
    BY <2>1 DEF Knows, Pushed, Settled
  <2>3. e.plan = job[d].plan /\ e.commit = job[d].commit /\ e.pull = job[d].pull
    BY DEF Delivered
  <2>4. evidence' = evidence \cup {e} /\ UNCHANGED <<remote, published, pulls, decisions>>
    BY <1>1 DEF Record, github
  <2> HIDE DEF e
  <2>5. Reviewed!Delivered(e) BY <2>2, <2>3 DEF Reviewed!Delivered, Proposes
  <2> QED BY <2>4, <2>5 DEF Reviewed!Record
<1>2. CASE RecordFailure
  <2>1. PICK r \in results :
          /\ r.disposition # "succeeded"
          /\ evidence' = evidence \cup {[outcome |-> r.disposition, receipt |-> r]}
    BY <1>2 DEF RecordFailure
  <2>2. UNCHANGED <<remote, published, pulls, decisions>> BY <1>2 DEF RecordFailure, github
  <2> DEFINE e == [outcome |-> r.disposition, receipt |-> r]
  <2>3. e.outcome # "succeeded" /\ evidence' = evidence \cup {e} BY <2>1
  <2> HIDE DEF e
  <2> QED BY <2>2, <2>3 DEF Reviewed!Record
<1> QED BY <1>1, <1>2

LEMMA DecisionIsSeen ==
  ASSUME Decide
  PROVE  Reviewed!Decide
<1>1. PICK e \in evidence, v \in {"approve", "reject"} :
        e.outcome = "succeeded" /\ ~Decided(e) /\ decisions' = decisions \cup {<<e, v>>}
  BY DEF Decide
<1>2. \A x \in decisions : x[1] # e BY <1>1 DEF Decided
<1>3. UNCHANGED <<remote, published, pulls, evidence>> BY DEF Decide, github
<1> QED BY <1>1, <1>2, <1>3 DEF Reviewed!Decide

LEMMA EveryStepIsSeen ==
  DeliveryInv /\ EvidenceInv /\ [Next]_vars => [Reviewed!Next]_(Reviewed!vars)
<1> SUFFICES ASSUME DeliveryInv, EvidenceInv, [Next]_vars
             PROVE  Reviewed!Next \/ UNCHANGED Reviewed!vars
  OBVIOUS
<1> USE DEF Reviewed!Next
<1>1. CASE \E d \in Driver : Push(d) BY <1>1, PushIsSeen
<1>2. CASE \E d \in Driver : CreatePull(d) BY <1>2, ProposalIsSeen
<1>3. CASE Owner BY <1>3, OwnerIsSeen
<1>4. CASE (\E d \in Driver : Record(d)) \/ RecordFailure BY <1>4, RecordIsSeen
<1>5. CASE Decide BY <1>5, DecisionIsSeen
<1>6. CASE UNCHANGED <<github, review>> BY <1>6 DEF github, review, Reviewed!vars
<1>7. UNCHANGED vars => UNCHANGED <<github, review>> BY DEF vars
<1> QED BY <1>1, <1>2, <1>3, <1>4, <1>5, <1>6, <1>7, WhoIsSeen

\* Whatever drivers, crashes, lost answers and leftover writers do, what GitHub and the
\* review log show is a run of the reviewed delivery: branches in scope that never move, one
\* open proposal of a branch for each base, true evidence, one decision on it
\* (remote_git_publisher.py, engineering_audit_repository.py,
\* engineering_owner_review_repository.py).
THEOREM DeliveriesAreReviewed == Spec => RefinesReviewed
<1>1. Init => Reviewed!Init BY DEF Init, Reviewed!Init
<1> QED
  BY <1>1, EveryStepIsSeen, DeliveryInvariant, EvidenceInvariant, PTL
  DEF Spec, RefinesReviewed, Reviewed!Spec
===============================================================================
