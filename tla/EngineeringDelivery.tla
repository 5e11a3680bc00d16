-------------------------- MODULE EngineeringDelivery --------------------------
(***************************************************************************)
(* From an admitted ticket to a reviewed pull request: Codex edits a       *)
(* snapshot (codex_runner.py), the observed change is judged               *)
(* (codex_execution_contract.py), copied into a fresh clone and committed  *)
(* (local_git_delivery.py), pushed and proposed (remote_git_publisher.py), *)
(* recorded as evidence and decided on by the owner.  A driver is one      *)
(* program that runs the stages; several may work on one run's result.     *)
(*                                                                         *)
(* The hashes that bind a plan to its run are the values themselves: a     *)
(* receipt names its branch, a receipt and a base name their local clone.  *)
(***************************************************************************)
EXTENDS Naturals, Sequences, FiniteSets

CONSTANTS
  Driver, Ticket,
  Path, Allowed,    \* paths of the repository, those the work order lists
  Tracked,          \* the paths that exist at the source commit
  Base,             \* branches a delivery may be proposed against
  Stamps,           \* times of commits (a bound)
  MaxChanged,       \* files a run may change
  MaxRuns, MaxPulls,   \* bounds
  MaxTrouble,       \* how much goes wrong or is interfered with (a bound)
  Nothing,
  Faults            \* subset of {"fail", "lost", "crash", "late", "clean", "owner"}

ASSUME DeliveryAssumption ==
  /\ Allowed \subseteq Path /\ Tracked \subseteq Path /\ IsFiniteSet(Path) /\ Allowed # {}
  /\ MaxChanged \in Nat /\ MaxRuns \in Nat /\ MaxPulls \in Nat /\ MaxTrouble \in Nat
  /\ Faults \subseteq {"fail", "lost", "crash", "late", "clean", "owner"}

VARIABLES
  files,      \* the workspace of a ticket, or Nothing
  writers,    \* tickets whose Codex processes may still write
  runs,       \* runs so far
  results,    \* receipts of finished runs
  at, job,    \* where a driver is, what it works on
  clones,     \* local delivery repositories
  remote,     \* delivery branches on GitHub
  published,  \* every push that took effect
  pulls,      \* pull requests
  evidence, decisions,
  trouble     \* what went wrong so far

workspace == <<files, writers, runs, results>>
github == <<remote, published, pulls>>
review == <<evidence, decisions>>
vars == <<workspace, at, job, clones, github, review, trouble>>

Content == {"source", "new", "absent", "link"}
Source == [p \in Path |-> IF p \in Tracked THEN "source" ELSE "absent"]
Changed(tree) == {p \in Path : tree[p] # Source[p]}

Receipts == [ticket : Ticket, changed : SUBSET Path,
             disposition : {"succeeded", "failed", "rejected"}]
Trees == [Path -> Content \ {"link"}]
Commits == [tree : Trees, stamp : Stamps]
ASSUME NothingAssumption == Nothing \notin Commits
Plans == [receipt : Receipts, base : Base]
NoJob == [ticket |-> Nothing, plan |-> Nothing, left |-> {}, tree |-> Source,
          commit |-> Nothing, branchReused |-> FALSE, pull |-> 0, pullReused |-> FALSE]
Publishing == {"pushing", "verifying", "listing", "creating", "confirming"}
Stages == {"idle", "extracting", "running", "planned", "copying", "built"}
            \cup Publishing \cup {"published", "recorded"}

\* Type correctness; no clone ever holds a link.
TypeOK ==
  /\ files \in [Ticket -> [Path -> Content] \cup {Nothing}]
  /\ writers \subseteq Ticket /\ runs \in 0 .. MaxRuns /\ results \subseteq Receipts
  /\ at \in [Driver -> Stages]
  /\ \A d \in Driver :
       /\ job[d].ticket \in Ticket \cup {Nothing}
       /\ job[d].plan \in Plans \cup {Nothing} /\ job[d].left \subseteq Path
       /\ job[d].tree \in Trees /\ job[d].commit \in Commits \cup {Nothing}
       /\ job[d].branchReused \in BOOLEAN /\ job[d].pullReused \in BOOLEAN
       /\ job[d].pull \in 0 .. MaxPulls
  /\ clones \subseteq [plan : Plans, commit : Commits \cup {Nothing}]
  /\ published \subseteq [branch : Receipts, commit : Commits]
  /\ \A b \in DOMAIN remote : [branch |-> b, commit |-> remote[b]] \in published
  /\ Len(pulls) <= MaxPulls
  /\ \A n \in DOMAIN pulls :
       pulls[n] \in [branch : Receipts, base : Base, draft : BOOLEAN, open : BOOLEAN]
  /\ decisions \subseteq evidence \X {"approve", "reject"}
  /\ trouble \in 0 .. MaxTrouble

Init ==
  /\ files = [t \in Ticket |-> Nothing]
  /\ writers = {} /\ runs = 0 /\ results = {}
  /\ at = [d \in Driver |-> "idle"] /\ job = [d \in Driver |-> NoJob]
  /\ clones = {}
  /\ remote = <<>> /\ published = {} /\ pulls = <<>>
  /\ evidence = {} /\ decisions = {}
  /\ trouble = 0

Goes(d, to) == at' = [at EXCEPT ![d] = to]
Untoward(what) == what \in Faults /\ trouble < MaxTrouble /\ trouble' = trouble + 1

-------------------------------------------------------------------------------
(* BoundedCodexRunner.execute.                                             *)

\* The directory of the workspace is made before it is filled; an old one is refused.
Materialize(d, t) ==
  /\ at[d] = "idle" /\ runs < MaxRuns /\ files[t] = Nothing
  /\ files' = [files EXCEPT ![t] = [p \in Path |-> "absent"]]
  /\ runs' = runs + 1
  /\ Goes(d, "extracting")
  /\ job' = [job EXCEPT ![d].ticket = t]
  /\ UNCHANGED <<writers, results, clones, github, review, trouble>>

Extract(d) ==
  LET t == job[d].ticket IN
  /\ at[d] = "extracting" /\ files[t] # Nothing
  /\ files' = [files EXCEPT ![t] = Source]
  /\ writers' = writers \cup {t}
  /\ Goes(d, "running")
  /\ UNCHANGED <<runs, results, job, clones, github, review, trouble>>

ExtractFails(d) ==
  /\ at[d] = "extracting" /\ ((files[job[d].ticket] = Nothing /\ UNCHANGED trouble) \/ Untoward("fail"))
  /\ Goes(d, "idle") /\ job' = [job EXCEPT ![d] = NoJob]
  /\ UNCHANGED <<workspace, clones, github, review>>

\* Codex and what it started write to the workspace, the latter even after the run.
Writes(t) ==
  /\ t \in writers /\ files[t] # Nothing
  /\ IF \E d \in Driver : at[d] = "running" /\ job[d].ticket = t
     THEN UNCHANGED trouble ELSE Untoward("late")
  /\ \E p \in Path, c \in Content :
       /\ IF p \in Allowed THEN c = "source" => p \in Tracked ELSE c \in {Source[p], "new"}
       /\ files' = [files EXCEPT ![t][p] = c]
  /\ UNCHANGED <<writers, runs, results, at, job, clones, github, review>>

Found(t, p) == IF files[t] = Nothing THEN "absent" ELSE files[t][p]

\* CodexExecutionValidator.evaluate, for an exit code and the paths that differ.
Disposition(changed, exit) ==
  IF ~(changed \subseteq Allowed) \/ Cardinality(changed) > MaxChanged THEN "rejected"
  ELSE IF exit = 0 THEN "succeeded" ELSE "failed"

\* A run that was killed at its time limit has another exit code than 0.
Observe(d) ==
  LET t == job[d].ticket
      changed == {p \in Path : Found(t, p) # Source[p]} IN
  /\ at[d] = "running"
  /\ \E exit \in {0, 1} :
       results' = results \cup
         {[ticket |-> t, changed |-> changed, disposition |-> Disposition(changed, exit)]}
  /\ Goes(d, "idle") /\ job' = [job EXCEPT ![d] = NoJob]
  /\ UNCHANGED <<files, writers, runs, clones, github, review, trouble>>

\* The workspace is removed, by whoever drives the runner.
CleanWorkspace(t) ==
  /\ files[t] # Nothing /\ Untoward("clean")
  /\ files' = [files EXCEPT ![t] = Nothing]
  /\ UNCHANGED <<writers, runs, results, at, job, clones, github, review>>

-------------------------------------------------------------------------------
(* GitDeliveryService.prepare and LocalGitDeliveryBuilder.build.           *)

Deliverable(r) ==
  r.disposition = "succeeded" /\ r.changed # {} /\ r.changed \subseteq Allowed

Prepare(d) ==
  /\ at[d] = "idle"
  /\ \E r \in results, b \in Base :
       /\ Deliverable(r)
       /\ job' = [job EXCEPT ![d].plan = [receipt |-> r, base |-> b]]
  /\ Goes(d, "planned")
  /\ UNCHANGED <<workspace, clones, github, review, trouble>>

CloneOf(plan) == {c \in clones : c.plan = plan}

\* A clone that is killed at its time limit leaves its directory behind.
Clone(d) ==
  LET plan == job[d].plan IN
  /\ at[d] = "planned"
  /\ files[plan.receipt.ticket] # Nothing /\ CloneOf(plan) = {}
  /\ clones' = clones \cup {[plan |-> plan, commit |-> Nothing]}
  /\ \/ /\ Goes(d, "copying")
        /\ job' = [job EXCEPT ![d].left = plan.receipt.changed] /\ UNCHANGED trouble
     \/ Untoward("fail") /\ UNCHANGED <<at, job>>
  /\ UNCHANGED <<workspace, github, review>>

Copyable(c) == c # "link"

\* _apply_changed_files reads the workspace again; a missing file is a deletion.
Copy(d) ==
  /\ at[d] = "copying"
  /\ \E p \in job[d].left :
       LET c == Found(job[d].plan.receipt.ticket, p) IN
       /\ Copyable(c)
       /\ job' = [job EXCEPT ![d].tree[p] = c, ![d].left = @ \ {p}]
  /\ UNCHANGED <<workspace, at, clones, github, review, trouble>>

\* What git reports is the planned list, changed, staged and committed.  The output of
\* git status is stripped before it is cut into lines: the change of a tracked path comes
\* first, begins with a space, and so never reads as the planned path.
Misread(tree) == Changed(tree) \cap Tracked # {}
AgreesInPart(tree, changed) ==
  Changed(tree) # {} /\ Changed(tree) \subseteq changed /\ ~Misread(tree)
Agrees(tree, changed) == Changed(tree) = changed /\ ~Misread(tree)

Commit(d) ==
  LET plan == job[d].plan IN
  /\ at[d] = "copying" /\ job[d].left = {}
  /\ Agrees(job[d].tree, plan.receipt.changed)
  /\ \E s \in Stamps :
       LET commit == [tree |-> job[d].tree, stamp |-> s] IN
       /\ clones' = (clones \ CloneOf(plan)) \cup {[plan |-> plan, commit |-> commit]}
       /\ job' = [job EXCEPT ![d].commit = commit, ![d].tree = Source]
  /\ Goes(d, "built")
  /\ UNCHANGED <<workspace, github, review, trouble>>

\* Whatever fails, the clone is removed and the plan may be built again.
BuildFails(d) ==
  LET plan == job[d].plan IN
  /\ at[d] = "copying"
  /\ \/ Untoward("fail")
     \/ /\ \/ \E p \in job[d].left : ~Copyable(Found(plan.receipt.ticket, p))
           \/ job[d].left = {} /\ ~Agrees(job[d].tree, plan.receipt.changed)
        /\ UNCHANGED trouble
  /\ clones' = clones \ CloneOf(plan)
  /\ Goes(d, "planned")
  /\ job' = [job EXCEPT ![d].left = {}, ![d].tree = Source]
  /\ UNCHANGED <<workspace, github, review>>

CleanClone ==
  /\ Untoward("clean")
  /\ \E c \in clones : clones' = clones \ {c}
  /\ UNCHANGED <<workspace, at, job, github, review>>

-------------------------------------------------------------------------------
(* RemoteGitPublisher.publish.                                             *)

Branch(d) == job[d].plan.receipt
HasCommit(d) == [plan |-> job[d].plan, commit |-> job[d].commit] \in clones
OnRemote(b) == IF b \in DOMAIN remote THEN remote[b] ELSE Nothing
OpenPulls(b) == {n \in DOMAIN pulls : pulls[n].open /\ pulls[n].branch = b}

\* The clone is checked, then the branch is looked up.
Look(d) ==
  /\ at[d] = "built" /\ HasCommit(d)
  /\ \/ /\ OnRemote(Branch(d)) = Nothing
        /\ Goes(d, "pushing")
        /\ job' = [job EXCEPT ![d].branchReused = FALSE]
     \/ /\ OnRemote(Branch(d)) = job[d].commit
        /\ Goes(d, "verifying")
        /\ job' = [job EXCEPT ![d].branchReused = TRUE]
  /\ UNCHANGED <<workspace, clones, github, review, trouble>>

\* A push without force: GitHub takes it for a new branch or the same commit.
AcceptedAlways(found, commit) == TRUE
Accepted(found, commit) == found \in {Nothing, commit}

Push(d) ==
  /\ at[d] = "pushing"
  /\ HasCommit(d) /\ Accepted(OnRemote(Branch(d)), job[d].commit)
  /\ remote' = [b \in DOMAIN remote \cup {Branch(d)} |->
                  IF b = Branch(d) THEN job[d].commit ELSE remote[b]]
  /\ published' = published \cup {[branch |-> Branch(d), commit |-> job[d].commit]}
  /\ (Goes(d, "verifying") /\ UNCHANGED trouble) \/ (Goes(d, "built") /\ Untoward("lost"))
  /\ UNCHANGED <<workspace, job, clones, pulls, review>>

Verify(d) ==
  /\ at[d] = "verifying" /\ OnRemote(Branch(d)) = job[d].commit
  /\ Goes(d, "listing")
  /\ UNCHANGED <<workspace, job, clones, github, review, trouble>>

\* _validate_exact_draft_pr
ExactBut(d, pull) == pull.draft /\ pull.branch = Branch(d)
Exact(d, pull) ==
  pull.draft /\ pull.branch = Branch(d) /\ pull.base = job[d].plan.base

\* The one open pull request of the branch is the planned one.
Settles(d, reused) ==
  \E n \in DOMAIN pulls :
    /\ OpenPulls(Branch(d)) = {n} /\ Exact(d, pulls[n])
    /\ Goes(d, "published")
    /\ job' = [job EXCEPT ![d].pull = n, ![d].pullReused = reused]
    /\ UNCHANGED <<workspace, clones, github, review, trouble>>

ListPulls(d) ==
  /\ at[d] = "listing"
  /\ \/ Settles(d, TRUE)
     \/ /\ OpenPulls(Branch(d)) = {} /\ Goes(d, "creating")
        /\ UNCHANGED <<workspace, job, clones, github, review, trouble>>

\* GitHub refuses a second open pull request of one branch against one base.
CreatePull(d) ==
  /\ at[d] = "creating" /\ OnRemote(Branch(d)) # Nothing /\ Len(pulls) < MaxPulls
  /\ \A n \in OpenPulls(Branch(d)) : pulls[n].base # job[d].plan.base
  /\ pulls' = Append(pulls, [branch |-> Branch(d), base |-> job[d].plan.base,
                             draft |-> TRUE, open |-> TRUE])
  /\ (Goes(d, "confirming") /\ UNCHANGED trouble) \/ (Goes(d, "built") /\ Untoward("lost"))
  /\ UNCHANGED <<workspace, job, clones, remote, published, review>>

Confirm(d) == at[d] = "confirming" /\ Settles(d, FALSE)

\* A command fails or an observation is not the planned one: the driver keeps the
\* local result and may publish it again.
PublishFails(d) ==
  /\ at[d] \in Publishing
  /\ \/ Untoward("fail")
     \/ /\ \/ at[d] = "pushing" /\ ~(HasCommit(d) /\ Accepted(OnRemote(Branch(d)), job[d].commit))
           \/ at[d] = "verifying" /\ OnRemote(Branch(d)) # job[d].commit
           \/ at[d] = "listing" /\ OpenPulls(Branch(d)) # {}
           \/ at[d] \in {"creating", "confirming"}
        /\ UNCHANGED trouble
  /\ Goes(d, "built")
  /\ job' = [job EXCEPT ![d].branchReused = FALSE]
  /\ UNCHANGED <<workspace, clones, github, review>>

\* What the owner does on GitHub.
Owner ==
  /\ Untoward("owner")
  /\ \/ /\ \E n \in DOMAIN pulls :
             /\ pulls[n].open
             /\ \/ pulls' = [pulls EXCEPT ![n].open = FALSE]
                \/ pulls[n].draft /\ pulls' = [pulls EXCEPT ![n].draft = FALSE]
        /\ UNCHANGED remote
     \/ \E b \in DOMAIN remote :
          /\ remote' = [c \in DOMAIN remote \ {b} |-> remote[c]]
          /\ pulls' = [n \in DOMAIN pulls |->
                         IF pulls[n].branch = b THEN [pulls[n] EXCEPT !.open = FALSE]
                         ELSE pulls[n]]
  /\ UNCHANGED <<workspace, at, job, clones, published, review>>

-------------------------------------------------------------------------------
(* Evidence and the owner's review.                                        *)

Delivered(d) ==
  [outcome |-> "succeeded", plan |-> job[d].plan, commit |-> job[d].commit,
   pull |-> job[d].pull, branchReused |-> job[d].branchReused,
   pullReused |-> job[d].pullReused]

\* What the evidence says of the delivery is compared stage by stage, and the diff is
\* taken from the clone, whose HEAD must still be the commit.
Recordable(d) ==
  /\ HasCommit(d) /\ Deliverable(Branch(d))
  /\ pulls[job[d].pull].branch = Branch(d)

Record(d) ==
  /\ at[d] = "published" /\ Recordable(d)
  /\ evidence' = evidence \cup {Delivered(d)}
  /\ (Goes(d, "recorded") /\ UNCHANGED trouble) \/ (UNCHANGED at /\ Untoward("lost"))
  /\ UNCHANGED <<workspace, job, clones, github, decisions>>

RecordFailure ==
  /\ \E r \in results :
       /\ r.disposition # "succeeded"
       /\ evidence' = evidence \cup {[outcome |-> r.disposition, receipt |-> r]}
  /\ UNCHANGED <<workspace, at, job, clones, github, decisions, trouble>>

\* The first decision on a piece of evidence stays.
Decided(e) == \E x \in decisions : x[1] = e
Decide ==
  /\ \E e \in evidence, v \in {"approve", "reject"} :
       /\ e.outcome = "succeeded" /\ ~Decided(e)
       /\ decisions' = decisions \cup {<<e, v>>}
  /\ UNCHANGED <<workspace, at, job, clones, github, evidence, trouble>>

\* A driver dies: its results in memory are lost, clones and processes stay.
Crash(d) ==
  /\ at[d] # "idle" /\ Untoward("crash")
  /\ Goes(d, "idle") /\ job' = [job EXCEPT ![d] = NoJob]
  /\ UNCHANGED <<workspace, clones, github, review>>

Executes(d) == (\E t \in Ticket : Materialize(d, t)) \/ Extract(d) \/ ExtractFails(d) \/ Observe(d)
Builds(d) == Prepare(d) \/ Clone(d) \/ Copy(d) \/ Commit(d) \/ BuildFails(d)
Publishes(d) ==
  \/ Look(d) \/ Push(d) \/ Verify(d) \/ ListPulls(d) \/ CreatePull(d) \/ Confirm(d)
  \/ PublishFails(d)

Next ==
  \/ \E d \in Driver : Executes(d) \/ Builds(d) \/ Publishes(d) \/ Record(d) \/ Crash(d)
  \/ \E t \in Ticket : Writes(t) \/ CleanWorkspace(t)
  \/ CleanClone \/ Owner \/ RecordFailure \/ Decide

Spec == Init /\ [][Next]_vars

-------------------------------------------------------------------------------
(* Properties.                                                             *)

\* Whatever still writes to a workspace, whichever builds overlap or are repeated:
\* a commit that reaches GitHub changes exactly the paths its receipt names, all of
\* them listed in the work order (local_git_delivery.py, build).
PublishedWithinScope ==
  \A x \in published :
    /\ x.branch.disposition = "succeeded" /\ x.branch.changed \subseteq Allowed
    /\ Changed(x.commit.tree) = x.branch.changed

\* A delivery branch never moves from one commit to another, however publishers
\* race or are repeated: only the owner removes it (remote_git_publisher.py, publish).
BranchNeverMoves ==
  [][\A b \in DOMAIN remote \cap DOMAIN remote' : remote'[b] = remote[b]]_vars

\* Evidence of success is about one delivery: its commit was pushed to its branch
\* and its pull request proposes that branch against the planned base; the owner
\* decides on such evidence only, and once (engineering_audit_evidence.py,
\* engineering_owner_review_repository.py).
EvidenceIsTrue ==
  /\ TypeOK
  /\ \A e \in evidence : e.outcome = "succeeded" =>
       /\ [branch |-> e.plan.receipt, commit |-> e.commit] \in published
       /\ pulls[e.pull].branch = e.plan.receipt /\ pulls[e.pull].base = e.plan.base
  /\ \A x, y \in decisions : x[1].outcome = "succeeded" /\ (x[1] = y[1] => x = y)

-------------------------------------------------------------------------------
(* The delivery, as an abstract specification.                             *)

WithinScope ==
  {x \in [branch : Receipts, commit : Commits] :
     Deliverable(x.branch) /\ Changed(x.commit.tree) = x.branch.changed}

Reviewed == INSTANCE ReviewedDelivery WITH InScope <- WithinScope

\* Whatever drivers, crashes, lost answers and leftover writers do, GitHub and the review
\* log see a plain sequence of atomic steps: a branch appears in scope or goes away, one
\* open proposal for each base, true evidence, one decision (remote_git_publisher.py,
\* engineering_audit_repository.py, engineering_owner_review_repository.py).
RefinesReviewed == Reviewed!Spec
================================================================================
