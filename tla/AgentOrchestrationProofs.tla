----------------------- MODULE AgentOrchestrationProofs -----------------------
(***************************************************************************)
(* What is proved of AgentOrchestration, for any registered agents,        *)
(* objectives, readings and requests, through crashes and lost writes:     *)
(* busy agents are seen, the ledger tells the truth, plans are executable  *)
(* and what is published is supported by the evidence.                     *)
(*                                                                         *)
(* The planner is settled first: whatever it is asked, its plan is         *)
(* Layered, which gives every task what it waits for and leaves no set of  *)
(* finished tasks from which nobody can go on.  The inductive invariant    *)
(* then relates the phase of the orchestration to the results that are in, *)
(* the stage of every run to its row, the tasks of an agent to its         *)
(* heartbeats, and the calls a child still has to make to its reading.     *)
(* Steps are of two kinds: a step of one run (RunStep), which touches      *)
(* nothing of the other runs and no result that is in, and a step of the   *)
(* orchestration (RunsAreQuiet), which touches no run.                     *)
(***************************************************************************)
EXTENDS AgentOrchestration, FiniteSetTheorems, SequenceTheorems, WellFoundedInduction, TLAPS

-------------------------------------------------------------------------------
(* The inductive invariant.                                                *)

\* The functions TypeOK looks into are functions.
Shapes ==
  /\ process \in 1 .. MaxProcess
  /\ agentOf \in [Task -> Agent \cup {NoAgent}]
  /\ plain \subseteq Task /\ found \subseteq Task
  /\ calls \in [Task -> Seq(Calls)]
  /\ stage \in [Task -> Stages] /\ outcome \in [Task -> Outcomes]
  /\ active \in [Agent -> Seq(Task)]
  /\ ledger \in [Row -> LedgerStatus \cup {"none"}] /\ lostRow \subseteq Row
  /\ beat \in [Agent -> Beats] /\ lostBeat \subseteq Agent
  /\ phase \in Phases /\ plan \in Seq(Agent)
  /\ batch \subseteq Agent /\ results \subseteq Agent /\ error \in Errors
  /\ \A line \in published : line.form \in Validator!Forms /\ line.style \in Validator!Styles
  /\ quoted \subseteq Agent /\ stored \in {"none", "completed", "failed"}
  /\ via \in [Direct -> Vias] /\ served \in [Direct -> Servings] /\ kept \subseteq Direct
  /\ DOMAIN measured = Agent

\* The heartbeats of an agent.
BeatFits(a) ==
  /\ beat[a].process <= process
  /\ a \notin lostBeat =>
       /\ active[a] # <<>> => beat[a].status = "busy" /\ beat[a].age = 0
       /\ active[a] = <<>> /\ beat[a].status = "busy" => beat[a].process # process

\* The row of a task.
TaskFits(t) ==
  /\ stage[t] # "idle" => agentOf[t] \in Agent
  /\ stage[t] = "idle" => t \notin plain
  /\ stage[t] = "idle" \/ t \in plain => ledger[t] = "none" /\ t \notin lostRow
  /\ outcome[t] # "none" => stage[t] \in {"ending", "ended", "dead"}
  /\ stage[t] \in {"ending", "ended"} => outcome[t] # "none"
  /\ t \notin lostRow =>
       /\ stage[t] = "running" /\ t \notin plain => ledger[t] = "running"
       /\ ledger[t] \in Open => stage[t] \in {"running", "dead"}
       /\ ledger[t] \in Settled => ledger[t] = RowOf(outcome[t])
       /\ stage[t] \in {"ending", "ended"} /\ t \notin plain => ledger[t] \in Settled

\* A plan names its agents once, and the formatter does not lead others.
Layered(p) ==
  /\ p \in Seq(Agent) /\ p # <<>>
  /\ \A i, j \in DOMAIN p : p[i] = p[j] => i = j
  /\ \A i \in DOMAIN p : i # 1 => p[1] # Formatter

Over == {"saving", "answered", "refused"}

\* Where the orchestration is.
PhaseFits ==
  /\ phase = "idle" => /\ plan = <<>> /\ ledger[Parent] = "none" /\ Parent \notin lostRow
                       /\ results = {} /\ error = "none" /\ published = {}
  /\ phase # "idle" => Layered(plan)
  /\ phase # "batch" => batch = {}
  /\ phase \in {"synthesis", "repair"} => Children \subseteq results /\ error = "none"
  /\ phase \in {"idle", "batch"} => error = "none"
  /\ phase \in {"closing"} \cup Over /\ error = "none" => Children \subseteq results
  /\ error # "deadlock"

\* Whose results are in.
ResultsFit ==
  /\ batch \cup results \subseteq Children /\ batch \cap results = {}
  /\ \A a \in results : stage[a] = "ended"
  /\ error # "child" => \A a \in results : outcome[a] = "completed"

\* Who runs has what it needs.
NeedsFit ==
  \A a \in Agent : a \in batch \/ stage[a] # "idle" =>
    a \in Children /\ \A b \in Needs(a) : b \in results /\ outcome[b] = "completed"

\* The row of the orchestration and its stored run.
ParentFits ==
  /\ ledger[Parent] \in Settled => phase \in Over \cup {"dead"}
  /\ ledger[Parent] = "completed" => error = "none" /\ Children \subseteq results
  /\ phase \in Over /\ Parent \notin lostRow => ledger[Parent] = RunStatus
  /\ stored # "none" => phase = "answered" /\ stored = RunStatus

\* What the tools of the children delivered.
ReadingFits(a) ==
  /\ stage[a] = "idle" => measured[a] = Validator!Unknown
  /\ stage[a] = "running" =>
       IF Kind[a] = "status"
       THEN calls[a] = <<"status", "chat">> \/ (calls[a] = <<"chat">> /\ measured[a] \in Reading)
       ELSE calls[a] \in {<<"chat">>, <<"ask">>, <<"search", "chat">>}
  /\ Kind[a] = "status" /\ outcome[a] = "completed" => measured[a] \in Reading
  /\ Kind[a] # "status" => measured[a] = Validator!Unknown

\* What is published has passed the check against the evidence there is.
PublishedFits ==
  published # {} => /\ phase \notin {"idle", "batch", "synthesis", "repair"}
                    /\ error = "none" /\ Children \subseteq results
                    /\ Validator!Passed(published, Evidence)

\* What is quoted without a synthesis is what others than the failed child said.
QuotedFits ==
  /\ quoted # {} => error = "child"
  /\ \A a \in quoted : a \in results \ {Formatter} /\ outcome[a] = "completed"

IInv ==
  /\ Shapes
  /\ \A a \in Agent : BeatFits(a) /\ ReadingFits(a)
  /\ \A t \in Task : TaskFits(t)
  /\ PhaseFits /\ ResultsFit /\ NeedsFit /\ ParentFits /\ PublishedFits /\ QuotedFits
\* The assumptions in the form the proofs use them.
LEMMA WhoIsWho ==
  /\ Task = Agent \cup Direct /\ Row = Task \cup {Parent} /\ Parent \notin Task
  /\ \A a \in Agent : a \in Task /\ a \notin Direct
  /\ \A d \in Direct : d \in Task /\ d \notin Agent
  /\ TTL \in Nat \ {0} /\ MaxProcess \in Nat \ {0} /\ MaxLost \in Nat
  /\ IsFiniteSet(Agent) /\ Asked \subseteq Agent
  /\ Kind \in [Agent -> {"status", "knowledge", "research", "prompt"}]
BY AgentOrchestrationAssumption, AgentRuntimeAssumption
DEF AgentOrchestrationAssumption, AgentRuntimeAssumption

-------------------------------------------------------------------------------
(* Sequences with an element taken out, and reports of a heartbeat.        *)

\* A set of numbers has a least one.
LEMMA LeastNumber ==
  ASSUME NEW T \in SUBSET Nat, T # {}
  PROVE  \E x \in T : \A y \in T : x <= y
<1> DEFINE R == OpToRel(<, Nat)
<1>1. \A x, y \in Nat : <<x, y>> \in R <=> x < y
  BY DEF OpToRel
<1>2. IsWellFoundedOn(R, Nat)
  BY NatLessThanWellFounded
<1> HIDE DEF R
<1>3. PICK x \in T : \A y \in T : ~(<<y, x>> \in R)
  BY <1>2, WFMin
<1>4. \A y \in T : ~(y < x)
  BY <1>1, <1>3
<1> QED BY <1>4

\* RemoveFirst drops the place of an element.
LEMMA RemoveFirstDrops ==
  ASSUME NEW S, NEW s \in Seq(S), NEW e
  PROVE  /\ (\A i \in 1 .. Len(s) : s[i] # e) => RemoveFirst(s, e) = s
         /\ (\E i \in 1 .. Len(s) : s[i] = e) =>
              \E i \in 1 .. Len(s) : s[i] = e /\ RemoveFirst(s, e) = RemoveAt(s, i)
<1>1. CASE \A i \in 1 .. Len(s) : s[i] # e
  BY <1>1 DEF RemoveFirst
<1>2. CASE \E i \in 1 .. Len(s) : s[i] = e
  <2> DEFINE I == {i \in 1 .. Len(s) : s[i] = e}
             m == CHOOSE x \in I : \A y \in I : x <= y
  <2>1. I # {} /\ I \subseteq Nat
    BY <1>2
  <2>2. \E x \in I : \A y \in I : x <= y
    <3> SUFFICES ASSUME \A x \in I : \E y \in I : ~(x <= y) PROVE FALSE
      OBVIOUS
    <3> QED BY <2>1, LeastNumber
  <2>3. m \in I
    BY <2>2
  <2>4. RemoveFirst(s, e) = RemoveAt(s, m)
    BY <1>2, <2>1 DEF RemoveFirst, SelectInSeq, Min
  <2> QED BY <1>2, <2>3, <2>4
<1> QED BY <1>1, <1>2

\* Taking out an element leaves a sequence of the same things; without the element
\* if it was there once.
LEMMA RemoveFirstTyped ==
  ASSUME NEW S, NEW s \in Seq(S), NEW e
  PROVE  RemoveFirst(s, e) \in Seq(S)
<1>1. CASE \A i \in 1 .. Len(s) : s[i] # e
  BY <1>1, RemoveFirstDrops
<1>2. CASE \E i \in 1 .. Len(s) : s[i] = e
  <2>1. PICK i \in 1 .. Len(s) : RemoveFirst(s, e) = RemoveAt(s, i)
    BY <1>2, RemoveFirstDrops
  <2>2. RemoveAt(s, i) \in Seq(S)
    BY DEF RemoveAt
  <2> QED BY <2>1, <2>2
<1> QED BY <1>1, <1>2

\* What taking one place out leaves at which place.
LEMMA RemoveAtPlaces ==
  ASSUME NEW S, NEW s \in Seq(S), NEW i \in 1 .. Len(s)
  PROVE  /\ RemoveAt(s, i) \in Seq(S) /\ Len(RemoveAt(s, i)) = Len(s) - 1
         /\ \A k \in 1 .. Len(s) - 1 : RemoveAt(s, i)[k] = IF k < i THEN s[k] ELSE s[k + 1]
<1> DEFINE l == SubSeq(s, 1, i - 1)
           r == SubSeq(s, i + 1, Len(s))
<1>1. l \in Seq(S) /\ Len(l) = i - 1 /\ \A k \in 1 .. i - 1 : l[k] = s[k]
  OBVIOUS
<1>2. r \in Seq(S) /\ Len(r) = Len(s) - i /\ \A k \in 1 .. Len(s) - i : r[k] = s[i + k]
  OBVIOUS
<1>3. RemoveAt(s, i) = l \o r
  BY DEF RemoveAt
<1> HIDE DEF l, r
<1>4. l \o r \in Seq(S) /\ Len(l \o r) = Len(s) - 1
  <2>1. l \in Seq(S) /\ r \in Seq(S)
    BY <1>1, <1>2
  <2>2. l \o r \in Seq(S) /\ Len(l \o r) = Len(l) + Len(r)
    BY <2>1, ConcatProperties
  <2>3. Len(s) \in Nat /\ i \in Nat
    OBVIOUS
  <2> QED BY <1>1, <1>2, <2>2, <2>3
<1>5. \A k \in 1 .. Len(s) - 1 : (l \o r)[k] = IF k <= Len(l) THEN l[k] ELSE r[k - Len(l)]
  BY <1>1, <1>2, ConcatProperties
<1>6. ASSUME NEW k \in 1 .. Len(s) - 1
      PROVE  (l \o r)[k] = IF k < i THEN s[k] ELSE s[k + 1]
  <2>1. CASE k < i
    BY <1>1, <1>5, <2>1
  <2>2. CASE ~(k < i)
    <3>1. k - Len(l) \in 1 .. Len(s) - i /\ i + (k - Len(l)) = k + 1
      BY <1>1, <2>2
    <3> QED BY <1>1, <1>2, <1>5, <2>2, <3>1
  <2> QED BY <2>1, <2>2
<1> QED BY <1>3, <1>4, <1>6

\* A report is a heartbeat of this process.
LEMMA ReportFits ==
  ASSUME NEW s \in Seq(Task), process \in 1 .. MaxProcess
  PROVE  /\ Report(s) \in Beats /\ Report(s).process = process /\ Report(s).age = 0
         /\ Report(s).status = IF s = <<>> THEN "available" ELSE "busy"
<1>1. Last(s) \in Task \/ s = <<>>
  <2> SUFFICES ASSUME s # <<>> PROVE Last(s) \in Task
    OBVIOUS
  <2>1. Len(s) \in 1 .. Len(s)
    BY EmptySeq, LenProperties
  <2> QED BY <2>1, ElementOfSeq DEF Last
<1> QED BY <1>1, WhoIsWho DEF Report, Beats

-------------------------------------------------------------------------------
(* The planner: what it makes of an objective is a layered plan.           *)

LEMMA Registered ==
  /\ Planner!Agents = Agent /\ Formatter \in Agent /\ General \in Agent /\ Librarian \in Agent
  /\ Limits \subseteq 1 .. 6
  /\ \A o \in Objectives : /\ o.scores \in [Agent -> Nat] /\ o.bonus \in [Agent -> Nat]
                           /\ o.document \in BOOLEAN
BY RegistryAssumption, AgentOrchestrationAssumption
DEF RegistryAssumption, AgentOrchestrationAssumption

\* The library's operators are the same in the planner's module.
LEMMA SameOperators ==
  /\ \A S : Planner!Cardinality(S) = Cardinality(S)
  /\ \A s, e : Planner!RemoveFirst(s, e) = RemoveFirst(s, e)
<1>1. \A S : Planner!Cardinality(S) = Cardinality(S)
  BY DEF Planner!Cardinality, Cardinality
<1>2. \A s, e : Planner!RemoveFirst(s, e) = RemoveFirst(s, e)
  BY DEF Planner!RemoveFirst, RemoveFirst, Planner!RemoveAt, RemoveAt,
     Planner!SelectInSeq, SelectInSeq, Planner!Min, Min
<1> QED BY <1>1, <1>2

\* Every agent has its own rank.
LEMMA RanksDiffer ==
  /\ \A a \in Agent : Planner!Rank(a) \in Nat
  /\ \A a, b \in Agent : Planner!Rank(a) = Planner!Rank(b) => a = b
<1>1. ASSUME NEW a \in Agent
      PROVE  Planner!Rank(a) \in DOMAIN Priority /\ Priority[Planner!Rank(a)] = a
  <2>1. \E i \in DOMAIN Priority : Priority[i] = a
    BY RegistryAssumption DEF RegistryAssumption, Planner!Agents
  <2> QED BY <2>1 DEF Planner!Rank
<1>2. DOMAIN Priority \subseteq Nat
  BY RegistryAssumption DEF RegistryAssumption
<1> QED BY <1>1, <1>2

\* The planner's order is a strict total order of the agents.
LEMMA OrderIsStrict ==
  ASSUME NEW c \in [Agent -> Nat], NEW lead
  PROVE  /\ \A a \in Agent : ~Planner!Before(a, a, c, lead)
         /\ \A a, b \in Agent :
              a # b => (Planner!Before(a, b, c, lead) \/ Planner!Before(b, a, c, lead))
         /\ \A a, b, d \in Agent : Planner!Before(a, b, c, lead) /\ Planner!Before(b, d, c, lead)
                                     => Planner!Before(a, d, c, lead)
<1> USE DEF Planner!Before
<1>1. \A a \in Agent : c[a] \in Nat /\ Planner!Rank(a) \in Nat
  BY RanksDiffer
<1>2. \A a \in Agent : ~Planner!Before(a, a, c, lead)
  BY <1>1
<1>3. ASSUME NEW a \in Agent, NEW b \in Agent, a # b
      PROVE  Planner!Before(a, b, c, lead) \/ Planner!Before(b, a, c, lead)
  <2>1. Planner!Rank(a) # Planner!Rank(b)
    BY <1>3, RanksDiffer
  <2> QED BY <1>1, <1>3, <2>1
<1>4. ASSUME NEW a \in Agent, NEW b \in Agent, NEW d \in Agent,
             Planner!Before(a, b, c, lead), Planner!Before(b, d, c, lead)
      PROVE  Planner!Before(a, d, c, lead)
  BY <1>1, <1>4
<1> QED BY <1>2, <1>3, <1>4

\* Agents count as many ahead of them as their place says.
LEMMA AheadIsBijection ==
  ASSUME NEW W \in SUBSET Agent, NEW c \in [Agent -> Nat], NEW lead
  PROVE  /\ IsFiniteSet(W) /\ Cardinality(W) \in Nat
         /\ \A a \in W : Planner!Ahead(W, a, c, lead) \in 0 .. Cardinality(W) - 1
         /\ \A a, b \in W : Planner!Ahead(W, a, c, lead) = Planner!Ahead(W, b, c, lead) => a = b
         /\ \A k \in 0 .. Cardinality(W) - 1 : \E a \in W : Planner!Ahead(W, a, c, lead) = k
<1> DEFINE n == Cardinality(W)
           L(a) == {b \in W : Planner!Before(b, a, c, lead)}
           f == [a \in W |-> Planner!Ahead(W, a, c, lead)]
<1>1. IsFiniteSet(W) /\ n \in Nat
  BY WhoIsWho, FS_Subset, FS_CardinalityType
<1>2. \A a \in W : Planner!Ahead(W, a, c, lead) = Cardinality(L(a))
  BY SameOperators DEF Planner!Ahead
<1>3. \A a \in W : IsFiniteSet(L(a)) /\ Cardinality(L(a)) \in Nat
  BY <1>1, FS_Subset, FS_CardinalityType
<1>4. ASSUME NEW a \in W PROVE Planner!Ahead(W, a, c, lead) \in 0 .. n - 1
  <2>1. IsFiniteSet(W \ {a}) /\ Cardinality(W \ {a}) = n - 1
    BY <1>1, FS_RemoveElement
  <2>2. L(a) \in SUBSET (W \ {a})
    BY OrderIsStrict
  <2>3. Cardinality(L(a)) <= n - 1
    BY <2>1, <2>2, FS_Subset
  <2> HIDE DEF L
  <2> QED BY <1>1, <1>2, <1>3, <2>3
<1>5. ASSUME NEW a \in W, NEW b \in W, Planner!Before(a, b, c, lead)
      PROVE  Planner!Ahead(W, a, c, lead) < Planner!Ahead(W, b, c, lead)
  <2>1. L(a) \in SUBSET L(b)
    BY <1>5, OrderIsStrict
  <2>2. a \in L(b) /\ a \notin L(a)
    BY <1>5, OrderIsStrict
  <2>3. L(a) \cup {a} \in SUBSET L(b)
    BY <2>1, <2>2
  <2> HIDE DEF L
  <2>4. Cardinality(L(a) \cup {a}) = Cardinality(L(a)) + 1
    BY <1>3, <2>2, FS_AddElement
  <2>5. Cardinality(L(a) \cup {a}) <= Cardinality(L(b))
    BY <1>3, <2>3, FS_Subset
  <2> QED BY <1>2, <1>3, <2>4, <2>5
<1>6. \A a, b \in W : Planner!Ahead(W, a, c, lead) = Planner!Ahead(W, b, c, lead) => a = b
  <2> SUFFICES ASSUME NEW a \in W, NEW b \in W, a # b
               PROVE  Planner!Ahead(W, a, c, lead) # Planner!Ahead(W, b, c, lead)
    OBVIOUS
  <2>1. Planner!Ahead(W, a, c, lead) \in Nat /\ Planner!Ahead(W, b, c, lead) \in Nat
    BY <1>2, <1>3
  <2>2. Planner!Before(a, b, c, lead) \/ Planner!Before(b, a, c, lead)
    BY OrderIsStrict
  <2> QED BY <1>5, <2>1, <2>2
<1>7. f \in Injection(W, 0 .. n - 1)
  BY <1>4, <1>6 DEF Injection, IsInjective
<1>8. IsFiniteSet(0 .. n - 1) /\ Cardinality(0 .. n - 1) = n
  BY <1>1, FS_Interval
<1>9. f \in Surjection(W, 0 .. n - 1)
  BY <1>1, <1>7, <1>8, FS_Injection
<1>10. \A k \in 0 .. n - 1 : \E a \in W : Planner!Ahead(W, a, c, lead) = k
  BY <1>9 DEF Surjection
<1> QED BY <1>1, <1>4, <1>6, <1>10

Distinct(s) == \A i, j \in 1 .. Len(s) : s[i] = s[j] => i = j

\* So the order lists agents, none of them twice.
LEMMA OrderedLists ==
  ASSUME NEW W \in SUBSET Agent, NEW c \in [Agent -> Nat], NEW lead
  PROVE  /\ Planner!Ordered(W, c, lead) \in Seq(W) /\ Cardinality(W) \in Nat
         /\ Len(Planner!Ordered(W, c, lead)) = Cardinality(W)
         /\ Distinct(Planner!Ordered(W, c, lead))
<1> DEFINE n == Cardinality(W)
           s == Planner!Ordered(W, c, lead)
<1>1. n \in Nat
  BY AheadIsBijection
<1>2. s = [k \in 1 .. n |-> CHOOSE a \in W : Planner!Ahead(W, a, c, lead) = k - 1]
  BY SameOperators DEF Planner!Ordered
<1>3. ASSUME NEW k \in 1 .. n
      PROVE  s[k] \in W /\ Planner!Ahead(W, s[k], c, lead) = k - 1
  <2>1. k - 1 \in 0 .. n - 1
    BY <1>1
  <2>2. \E a \in W : Planner!Ahead(W, a, c, lead) = k - 1
    BY <2>1, AheadIsBijection
  <2> QED BY <1>2, <2>2
<1>4. s \in [1 .. n -> W]
  BY <1>2, <1>3
<1> HIDE DEF s
<1>5. s \in Seq(W) /\ Len(s) = n
  BY <1>1, <1>4
<1>6. \A i, j \in 1 .. n : s[i] = s[j] => i = j
  <2> TAKE i, j \in 1 .. n
  <2> HAVE s[i] = s[j]
  <2>1. i - 1 = j - 1
    BY <1>3
  <2> QED BY <1>1, <2>1
<1>7. Distinct(s)
  BY <1>5, <1>6 DEF Distinct
<1> QED BY <1>1, <1>5, <1>7 DEF s

\* The router finds an agent: the one nobody is ahead of.
LEMMA RouteFindsAgent ==
  ASSUME NEW c \in [Agent -> Nat], NEW document \in BOOLEAN
  PROVE  Planner!Route(c, document) \in Agent
<1>1. CASE \A a \in Agent : c[a] = 0
  BY <1>1, Registered DEF Planner!Route
<1>2. CASE \E a \in Agent : c[a] # 0
  <2>1. PICK x \in Agent : c[x] # 0
    BY <1>2
  <2>2. IsFiniteSet(Agent) /\ Cardinality(Agent) \in Nat /\ Cardinality(Agent) # 0
    BY WhoIsWho, FS_CardinalityType, FS_EmptySet
  <2>3. \E a \in Agent : Planner!Ahead(Agent, a, c, Parent) = 0
    BY <2>2, AheadIsBijection
  <2>4. PICK a \in Agent : Planner!Ahead(Agent, a, c, Parent) = 0
    BY <2>3
  <2> DEFINE L == {b \in Agent : Planner!Before(b, a, c, Parent)}
  <2>5. IsFiniteSet(L) /\ Cardinality(L) = 0
    BY <2>2, <2>4, FS_Subset, SameOperators DEF Planner!Ahead
  <2>6. L = {}
    BY <2>5, FS_EmptySet
  <2>7. ASSUME NEW b \in Agent, b # a
        PROVE  c[a] > c[b] \/ (c[a] = c[b] /\ Planner!Rank(a) < Planner!Rank(b))
    <3>1. Planner!Before(a, b, c, Parent)
      BY <2>6, <2>7, OrderIsStrict
    <3>2. a # Parent
      BY WhoIsWho
    <3> QED BY <3>1, <3>2 DEF Planner!Before
  <2>8. Planner!Route(c, document) \in Agent
    BY <1>2, <2>7, Registered DEF Planner!Route
  <2> QED BY <2>8
<1> QED BY <1>1, <1>2

\* A list of agents with a first one and none twice.
Roster(s) == s \in Seq(Agent) /\ Len(s) >= 1 /\ Distinct(s)

LEMMA CutIsRoster ==
  ASSUME NEW s, Roster(s), NEW m \in 1 .. Len(s)
  PROVE  Roster(SubSeq(s, 1, m)) /\ Len(SubSeq(s, 1, m)) = m
<1>1. /\ SubSeq(s, 1, m) \in Seq(Agent) /\ Len(SubSeq(s, 1, m)) = m
      /\ \A i \in 1 .. m : SubSeq(s, 1, m)[i] = s[i]
  BY DEF Roster
<1>2. m \in Nat /\ m >= 1 /\ m <= Len(s) /\ Len(s) \in Nat
  BY DEF Roster
<1>3. \A i, j \in 1 .. m : s[i] = s[j] => i = j
  BY <1>2 DEF Roster, Distinct
<1> QED BY <1>1, <1>2, <1>3 DEF Roster, Distinct

LEMMA TakenIsRoster ==
  ASSUME NEW c \in [Agent -> Nat], NEW lead \in Agent, NEW formatting \in BOOLEAN,
         NEW limit \in 1 .. 6
  PROVE  Roster(Planner!Taken(c, lead, formatting, limit))
<1> DEFINE W == Planner!Wanted(c, lead, formatting)
           o == Planner!Ordered(W, c, lead)
           room == IF limit > 1 THEN limit - 1 ELSE 1
           m == IF Cardinality(W) < room THEN Cardinality(W) ELSE room
           r == SubSeq(o, 1, m)
           t == <<lead>> \o r
<1>1. W \in SUBSET (Agent \ {lead})
  BY Registered DEF Planner!Wanted
<1>2. Planner!Taken(c, lead, formatting, limit) = t
  BY SameOperators DEF Planner!Taken
<1>3. /\ o \in Seq(W) /\ Cardinality(W) \in Nat /\ Len(o) = Cardinality(W)
      /\ \A i, j \in 1 .. Len(o) : o[i] = o[j] => i = j
  BY <1>1, OrderedLists DEF Distinct
<1> HIDE DEF W, o
<1>4. m \in Nat /\ m <= Len(o)
  BY <1>3
<1> HIDE DEF m
<1>5. r \in Seq(W) /\ Len(r) = m /\ \A i \in 1 .. m : r[i] = o[i]
  BY <1>3, <1>4
<1>6. \A i \in 1 .. m : r[i] \in W
  BY <1>5, ElementOfSeq
<1>7. \A i, j \in 1 .. m : r[i] = r[j] => i = j
  BY <1>3, <1>4, <1>5
<1> HIDE DEF r
<1>8. r \in Seq(Agent) /\ <<lead>> \in Seq(Agent) /\ Len(<<lead>>) = 1
  BY <1>1, <1>5
<1>9. t \in Seq(Agent) /\ Len(t) = 1 + m
  BY <1>5, <1>8, ConcatProperties
<1>10. t[1] = lead /\ \A i \in 2 .. 1 + m : i - 1 \in 1 .. m /\ t[i] = r[i - 1]
  BY <1>4, <1>5, <1>8
<1> HIDE DEF t
<1>11. ASSUME NEW i \in 1 .. 1 + m, NEW j \in 1 .. 1 + m, t[i] = t[j] PROVE i = j
  <2>1. CASE i = 1 /\ j = 1
    BY <2>1
  <2>2. CASE i = 1 /\ j # 1
    <3>1. j \in 2 .. 1 + m
      BY <1>4, <2>2
    <3>2. t[j] \in W
      BY <1>6, <1>10, <3>1
    <3> QED BY <1>1, <1>10, <1>11, <2>2, <3>2
  <2>3. CASE i # 1 /\ j = 1
    <3>1. i \in 2 .. 1 + m
      BY <1>4, <2>3
    <3>2. t[i] \in W
      BY <1>6, <1>10, <3>1
    <3> QED BY <1>1, <1>10, <1>11, <2>3, <3>2
  <2>4. CASE i # 1 /\ j # 1
    <3>1. i \in 2 .. 1 + m /\ j \in 2 .. 1 + m
      BY <1>4, <2>4
    <3>2. r[i - 1] = r[j - 1]
      BY <1>10, <1>11, <3>1
    <3>3. i - 1 = j - 1
      BY <1>7, <1>10, <3>1, <3>2
    <3> QED BY <1>4, <3>3
  <2> QED BY <2>1, <2>2, <2>3, <2>4
<1> QED BY <1>2, <1>4, <1>9, <1>11 DEF Roster, Distinct

LEMMA WithFormatterIsRoster ==
  ASSUME NEW s, Roster(s), NEW asked \in BOOLEAN, NEW limit \in 1 .. 6
  PROVE  Roster(Planner!WithFormatter(s, asked, limit))
<1> DEFINE n == Len(s)
           t == Planner!WithFormatter(s, asked, limit)
<1>1. s \in Seq(Agent) /\ n \in Nat /\ n >= 1 /\ \A i, j \in 1 .. n : s[i] = s[j] => i = j
  BY DEF Roster, Distinct
<1>2. CASE ~asked \/ Planner!Contains(s, Formatter)
  BY <1>2 DEF Planner!WithFormatter
<1>3. CASE asked /\ ~Planner!Contains(s, Formatter)
  <2>1. \A i \in 1 .. n : s[i] # Formatter
    BY <1>3 DEF Planner!Contains
  <2>2. CASE n >= limit
    <3>1. t = [s EXCEPT ![n] = Formatter]
      BY <1>3, <2>2 DEF Planner!WithFormatter
    <3>2. /\ t \in Seq(Agent) /\ Len(t) = n
          /\ \A i \in 1 .. n : t[i] = IF i = n THEN Formatter ELSE s[i]
      BY <1>1, <3>1, Registered
    <3> QED BY <1>1, <2>1, <3>2 DEF Roster, Distinct
  <2>3. CASE ~(n >= limit)
    <3>1. t = Append(s, Formatter)
      BY <1>3, <2>3 DEF Planner!WithFormatter
    <3>2. /\ t \in Seq(Agent) /\ Len(t) = n + 1
          /\ \A i \in 1 .. n + 1 : t[i] = IF i = n + 1 THEN Formatter ELSE s[i]
      BY <1>1, <3>1, Registered
    <3> HIDE DEF t
    <3>3. ASSUME NEW i \in 1 .. n + 1, NEW j \in 1 .. n + 1, t[i] = t[j] PROVE i = j
      <4>1. CASE i = n + 1 \/ j = n + 1
        BY <1>1, <2>1, <3>2, <3>3, <4>1
      <4>2. CASE i # n + 1 /\ j # n + 1
        <5>1. i \in 1 .. n /\ j \in 1 .. n
          BY <1>1, <4>2
        <5> QED BY <1>1, <3>2, <3>3, <4>2, <5>1
      <4> QED BY <4>1, <4>2
    <3> QED BY <1>1, <3>2, <3>3 DEF Roster, Distinct, t
  <2> QED BY <2>2, <2>3
<1> QED BY <1>2, <1>3

\* The formatter is moved to the end, so that it leads nobody.
LEMMA FormatterLast ==
  ASSUME NEW s, Roster(s), NEW i \in 1 .. Len(s), s[i] = Formatter, Len(s) > 1
  PROVE  Layered(Append(RemoveAt(s, i), Formatter))
<1> DEFINE n == Len(s)
           r == RemoveAt(s, i)
           t == Append(r, Formatter)
<1>1. s \in Seq(Agent) /\ n \in Nat /\ \A k, l \in 1 .. n : s[k] = s[l] => k = l
  BY DEF Roster, Distinct
<1>2. /\ r \in Seq(Agent) /\ Len(r) = n - 1
      /\ \A k \in 1 .. n - 1 : r[k] = IF k < i THEN s[k] ELSE s[k + 1]
  BY <1>1, RemoveAtPlaces
<1> HIDE DEF r
<1>3. \A k \in 1 .. n - 1 : r[k] # Formatter
  <2> TAKE k \in 1 .. n - 1
  <2>1. k \in 1 .. n /\ k + 1 \in 1 .. n /\ i \in 1 .. n
    BY <1>1
  <2> QED BY <1>1, <1>2, <2>1
<1>4. \A k, l \in 1 .. n - 1 : r[k] = r[l] => k = l
  <2> TAKE k, l \in 1 .. n - 1
  <2> HAVE r[k] = r[l]
  <2>1. k \in 1 .. n /\ k + 1 \in 1 .. n /\ l \in 1 .. n /\ l + 1 \in 1 .. n /\ i \in 1 .. n
    BY <1>1
  <2> QED BY <1>1, <1>2, <2>1
<1>5. /\ t \in Seq(Agent) /\ Len(t) = n
      /\ \A k \in 1 .. n : t[k] = IF k = n THEN Formatter ELSE r[k]
  BY <1>1, <1>2, Registered
<1> HIDE DEF t
<1>6. ASSUME NEW k \in 1 .. n, NEW l \in 1 .. n, t[k] = t[l] PROVE k = l
  <2>1. CASE k = n \/ l = n
    BY <1>1, <1>3, <1>5, <1>6, <2>1
  <2>2. CASE k # n /\ l # n
    <3>1. k \in 1 .. n - 1 /\ l \in 1 .. n - 1
      BY <1>1, <2>2
    <3> QED BY <1>4, <1>5, <1>6, <2>2, <3>1
  <2> QED BY <2>1, <2>2
<1>7. t[1] # Formatter
  <2>1. 1 \in 1 .. n - 1 /\ 1 # n /\ 1 \in 1 .. n
    BY <1>1
  <2> QED BY <1>3, <1>5, <2>1
<1>8. t # <<>> /\ DOMAIN t = 1 .. n
  BY <1>1, <1>5, LenProperties
<1> QED BY <1>5, <1>6, <1>7, <1>8 DEF Layered, t, r

LEMMA SelectIsLayered ==
  ASSUME NEW c \in [Agent -> Nat], NEW lead \in Agent, NEW formatting \in BOOLEAN,
         NEW asked \in BOOLEAN, NEW limit \in 1 .. 6
  PROVE  Layered(Planner!SelectAgents(c, lead, formatting, asked, limit))
<1> DEFINE taken == Planner!WithFormatter(Planner!Taken(c, lead, formatting, limit),
                                          formatting /\ asked, limit)
           m == IF Len(taken) < limit THEN Len(taken) ELSE limit
           cut == SubSeq(taken, 1, m)
           whole == Planner!SelectAgents(c, lead, formatting, asked, limit)
<1>1. Roster(taken)
  BY TakenIsRoster, WithFormatterIsRoster
<1>2. whole = IF Planner!Contains(cut, Formatter) /\ Len(cut) > 1
              THEN Append(RemoveFirst(cut, Formatter), Formatter) ELSE cut
  BY SameOperators DEF Planner!SelectAgents
<1> HIDE DEF taken, whole
<1>3. m \in 1 .. Len(taken)
  BY <1>1 DEF Roster
<1>4. Roster(cut)
  BY <1>1, <1>3, CutIsRoster
<1> HIDE DEF cut
<1>5. CASE Planner!Contains(cut, Formatter) /\ Len(cut) > 1
  <2>1. \E i \in 1 .. Len(cut) : cut[i] = Formatter
    BY <1>5 DEF Planner!Contains
  <2>2. PICK i \in 1 .. Len(cut) :
          cut[i] = Formatter /\ RemoveFirst(cut, Formatter) = RemoveAt(cut, i)
    BY <1>4, <2>1, RemoveFirstDrops DEF Roster
  <2>3. Layered(Append(RemoveAt(cut, i), Formatter))
    BY <1>4, <1>5, <2>2, FormatterLast
  <2> QED BY <1>2, <1>5, <2>2, <2>3 DEF whole
<1>6. CASE ~(Planner!Contains(cut, Formatter) /\ Len(cut) > 1)
  <2>1. whole = cut
    BY <1>2, <1>6
  <2>2. cut \in Seq(Agent) /\ Len(cut) >= 1 /\ \A k, l \in 1 .. Len(cut) : cut[k] = cut[l] => k = l
    BY <1>4 DEF Roster, Distinct
  <2>3. cut # <<>> /\ DOMAIN cut = 1 .. Len(cut)
    BY <2>2, LenProperties
  <2>4. Len(cut) > 1 => cut[1] # Formatter
    BY <1>6, <2>2 DEF Planner!Contains
  <2>5. Layered(cut)
    BY <2>2, <2>3, <2>4 DEF Layered
  <2> QED BY <2>1, <2>5 DEF whole
<1> QED BY <1>5, <1>6

\* What OrchestrationService.run plans for an objective is layered.
LEMMA PlanIsLayered ==
  ASSUME NEW o \in Objectives, NEW formatting \in BOOLEAN, NEW limit \in Limits
  PROVE  Layered(Planner!Plan(o.scores, o.bonus, o.document, formatting, limit))
<1> DEFINE c == Planner!Candidates(o.scores, o.bonus, o.document)
           lead == Planner!Route(o.scores, o.document)
<1>1. o.scores \in [Agent -> Nat] /\ o.bonus \in [Agent -> Nat] /\ o.document \in BOOLEAN
      /\ limit \in 1 .. 6
  BY Registered
<1>2. c \in [Agent -> Nat]
  BY <1>1, Registered DEF Planner!Candidates, Planner!PlannerBonus
<1>3. lead \in Agent
  BY <1>1, RouteFindsAgent
<1>4. (o.bonus[Formatter] > 0) \in BOOLEAN
  OBVIOUS
<1> HIDE DEF c, lead
<1>5. Layered(Planner!SelectAgents(c, lead, formatting, o.bonus[Formatter] > 0, limit))
  BY <1>1, <1>2, <1>3, <1>4, SelectIsLayered
<1> QED BY <1>5 DEF Planner!Plan, c, lead

-------------------------------------------------------------------------------
(* The dependencies in a layered plan.                                     *)

LEMMA PlanNumbers ==
  ASSUME Layered(plan)
  PROVE  /\ 1 \in DOMAIN plan /\ Children \subseteq Agent
         /\ \A i \in DOMAIN plan : plan[i] \in Children /\ Number(plan[i]) = i
         /\ \A a \in Children : Number(a) \in DOMAIN plan /\ plan[Number(a)] = a
<1>1. 1 \in DOMAIN plan
  <2>1. Len(plan) # 0 /\ Len(plan) \in Nat /\ DOMAIN plan = 1 .. Len(plan)
    BY EmptySeq, LenProperties DEF Layered
  <2> QED BY <2>1
<1>2. \A i \in DOMAIN plan : plan[i] \in Agent
  BY ElementOfSeq, LenProperties DEF Layered
<1>3. \A i \in DOMAIN plan : plan[i] \in Children /\ Number(plan[i]) = i
  BY DEF Layered, Children, Number
<1>4. \A a \in Children : \E i \in DOMAIN plan : plan[i] = a
  BY DEF Children
<1> QED BY <1>1, <1>2, <1>3, <1>4

\* The lead needs nobody, a formatter everybody, the others the lead.
LEMMA LayeredNeeds ==
  ASSUME Layered(plan)
  PROVE  /\ plan[1] \in Children /\ Needs(plan[1]) = {}
         /\ \A a \in Children \ {plan[1]} :
              /\ plan[1] # Formatter
              /\ Needs(a) = IF a = Formatter THEN Children \ {a} ELSE {plan[1]}
<1>1. plan[1] \in Children /\ Number(plan[1]) = 1
  BY PlanNumbers
<1>2. Needs(plan[1]) = {}
  BY <1>1 DEF Needs, Planner!DependsOn, Planner!TaskRole
<1>3. ASSUME NEW a \in Children, a # plan[1]
      PROVE  plan[1] # Formatter /\ Needs(a) = IF a = Formatter THEN Children \ {a} ELSE {plan[1]}
  <2> DEFINE n == Number(a)
  <2>1. n \in DOMAIN plan /\ plan[n] = a /\ n # 1
    BY <1>3, PlanNumbers
  <2>2. plan[1] # Formatter
    BY <2>1 DEF Layered
  <2>3. CASE a = Formatter
    <3>1. Planner!TaskRole(plan, n) = "formatter"
      BY <2>1, <2>3 DEF Planner!TaskRole
    <3>2. Planner!DependsOn(plan, n) = {j \in DOMAIN plan : Planner!TaskRole(plan, j) # "formatter"}
      BY <3>1 DEF Planner!DependsOn
    <3>3. \A j \in DOMAIN plan : Planner!TaskRole(plan, j) # "formatter" <=> plan[j] # Formatter
      BY <2>2 DEF Planner!TaskRole
    <3>4. Needs(a) = {plan[j] : j \in {i \in DOMAIN plan : plan[i] # Formatter}}
      BY <3>2, <3>3 DEF Needs
    <3>5. Needs(a) = Children \ {a}
      BY <2>3, <3>4 DEF Children
    <3> QED BY <2>2, <2>3, <3>5
  <2>4. CASE a # Formatter
    <3>1. Planner!TaskRole(plan, n) = "specialist"
      BY <2>1, <2>4 DEF Planner!TaskRole
    <3>2. Planner!DependsOn(plan, n) = {1}
      BY <3>1 DEF Planner!DependsOn
    <3>3. Needs(a) = {plan[1]}
      BY <3>2 DEF Needs
    <3> QED BY <2>2, <2>4, <3>3
  <2> QED BY <2>3, <2>4
<1> QED BY <1>1, <1>2, <1>3

\* Whatever is done already, somebody can go on.
LEMMA SomebodyIsReady ==
  ASSUME Layered(plan), Pending # {} PROVE Ready # {}
<1>1. PICK a \in Children : a \notin results
  BY DEF Pending
<1>2. CASE plan[1] \notin results
  BY <1>2, LayeredNeeds DEF Ready, Pending
<1>3. CASE plan[1] \in results /\ \E b \in Children : b \notin results /\ b # Formatter
  BY <1>3, LayeredNeeds DEF Ready, Pending
<1>4. CASE plan[1] \in results /\ \A b \in Children : b \in results \/ b = Formatter
  BY <1>1, <1>4, LayeredNeeds DEF Ready, Pending
<1> QED BY <1>2, <1>3, <1>4

-------------------------------------------------------------------------------
(* Heartbeats.                                                             *)

Beating == Shapes /\ \A a \in Agent : BeatFits(a)

LEMMA QuietKeepsBeats ==
  ASSUME Beating, UNCHANGED <<process, active, beat, lostBeat>>
  PROVE  \A a \in Agent : BeatFits(a)'
BY DEF Beating, BeatFits

\* A heartbeat that is recorded with the tasks of the agent fits them, and so does
\* one that is lost.
LEMMA RecordKeepsBeats ==
  ASSUME Beating, process' = process, NEW a \in Agent, NEW s \in Seq(Task),
         active' = [active EXCEPT ![a] = s], RecordBeat(a, s)
  PROVE  /\ \A b \in Agent : BeatFits(b)'
         /\ beat' \in [Agent -> Beats] /\ lostBeat' \subseteq Agent
         /\ active' \in [Agent -> Seq(Task)]
<1>1. /\ process \in 1 .. MaxProcess /\ beat \in [Agent -> Beats] /\ lostBeat \subseteq Agent
      /\ active \in [Agent -> Seq(Task)]
  BY DEF Beating, Shapes
<1>2. /\ active'[a] = s /\ \A b \in Agent \ {a} : active'[b] = active[b]
      /\ active' \in [Agent -> Seq(Task)]
  BY <1>1
<1>3. CASE beat' = [beat EXCEPT ![a] = Report(s)] /\ lostBeat' = lostBeat \ {a}
  <2>1. /\ Report(s) \in Beats /\ Report(s).process = process /\ Report(s).age = 0
        /\ Report(s).status = IF s = <<>> THEN "available" ELSE "busy"
    BY <1>1, ReportFits
  <2>2. beat'[a] = Report(s) /\ \A b \in Agent \ {a} : beat'[b] = beat[b]
    BY <1>1, <1>3
  <2>3. beat' \in [Agent -> Beats] /\ lostBeat' \subseteq Agent
    BY <1>1, <1>3, <2>1
  <2>4. BeatFits(a)'
    BY <1>1, <1>2, <2>1, <2>2, WhoIsWho DEF BeatFits
  <2>5. ASSUME NEW b \in Agent, b # a PROVE BeatFits(b)'
    <3>1. BeatFits(b)
      BY DEF Beating
    <3> QED BY <1>2, <1>3, <2>2, <2>5, <3>1 DEF BeatFits
  <2> QED BY <1>2, <2>3, <2>4, <2>5
<1>4. CASE UNCHANGED beat /\ lostBeat' = lostBeat \cup {a}
  <2>1. \A b \in Agent : BeatFits(b)
    BY DEF Beating
  <2> QED BY <1>1, <1>2, <1>4, <2>1 DEF BeatFits
<1> QED BY <1>3, <1>4 DEF RecordBeat

LEMMA IntervalKeepsBeats ==
  ASSUME Beating, Interval
  PROVE  /\ \A b \in Agent : BeatFits(b)'
         /\ beat' \in [Agent -> Beats] /\ lostBeat' \subseteq Agent
<1>1. /\ process \in 1 .. MaxProcess /\ beat \in [Agent -> Beats] /\ lostBeat \subseteq Agent
      /\ active \in [Agent -> Seq(Task)] /\ \A a \in Agent : BeatFits(a)
  BY DEF Beating, Shapes
<1>2. process' = process /\ active' = active
  BY DEF Interval
<1>3. PICK silent \in SUBSET {a \in Agent : active[a] # <<>>} :
        /\ beat' = [a \in Agent |->
             IF active[a] # <<>> /\ a \notin silent THEN Report(active[a])
             ELSE IF beat[a].status = "none" \/ beat[a].age > TTL THEN beat[a]
             ELSE [beat[a] EXCEPT !.age = @ + 1]]
        /\ lostBeat' = (lostBeat \ {a \in Agent : active[a] # <<>>}) \cup silent
  BY DEF Interval
<1>4. lostBeat' \subseteq Agent
  BY <1>1, <1>3
<1>5. ASSUME NEW a \in Agent PROVE BeatFits(a)' /\ beat'[a] \in Beats
  <2>1. beat[a] \in Beats /\ active[a] \in Seq(Task) /\ BeatFits(a)
    BY <1>1
  <2>2. CASE active[a] # <<>> /\ a \notin silent
    <3>1. beat'[a] = Report(active[a])
      BY <1>3, <2>2
    <3>2. /\ Report(active[a]) \in Beats /\ Report(active[a]).process = process
          /\ Report(active[a]).age = 0 /\ Report(active[a]).status = "busy"
      BY <1>1, <2>1, <2>2, ReportFits
    <3> QED BY <1>1, <1>2, <2>2, <3>1, <3>2, WhoIsWho DEF BeatFits
  <2>3. CASE ~(active[a] # <<>> /\ a \notin silent)
    <3>1. CASE beat[a].status = "none" \/ beat[a].age > TTL
      <4>1. beat'[a] = beat[a]
        BY <1>3, <2>3, <3>1
      <4> QED BY <1>2, <1>3, <2>1, <2>3, <4>1 DEF BeatFits
    <3>2. CASE ~(beat[a].status = "none" \/ beat[a].age > TTL)
      <4>1. beat'[a] = [beat[a] EXCEPT !.age = @ + 1]
        BY <1>3, <2>3, <3>2
      <4>2. /\ beat'[a] \in Beats /\ beat'[a].status = beat[a].status
            /\ beat'[a].process = beat[a].process
        BY <2>1, <3>2, <4>1, WhoIsWho DEF Beats
      <4> QED BY <1>2, <1>3, <2>1, <2>3, <4>2 DEF BeatFits
    <3> QED BY <3>1, <3>2
  <2> QED BY <2>2, <2>3
<1>6. beat' \in [Agent -> Beats]
  BY <1>3, <1>5
<1> QED BY <1>4, <1>5, <1>6

LEMMA CrashKeepsBeats ==
  ASSUME Beating, RuntimeCrash
  PROVE  /\ \A b \in Agent : BeatFits(b)'
         /\ process' \in 1 .. MaxProcess /\ active' \in [Agent -> Seq(Task)]
<1>1. process \in 1 .. MaxProcess /\ beat \in [Agent -> Beats] /\ \A a \in Agent : BeatFits(a)
  BY DEF Beating, Shapes
<1>2. /\ process' = process + 1 /\ process < MaxProcess /\ active' = [a \in Agent |-> <<>>]
      /\ beat' = beat /\ lostBeat' = lostBeat
  BY DEF RuntimeCrash, truth
<1>3. ASSUME NEW a \in Agent PROVE BeatFits(a)'
  <2>1. beat[a].process \in Nat /\ beat[a].process <= process /\ active'[a] = <<>>
    BY <1>1, <1>2 DEF BeatFits, Beats
  <2> QED BY <1>1, <1>2, <2>1 DEF BeatFits
<1>4. active' \in [Agent -> Seq(Task)]
  BY <1>2
<1> QED BY <1>1, <1>2, <1>3, <1>4, WhoIsWho

-------------------------------------------------------------------------------
(* A step of one run.                                                      *)

\* A run starts, with a heartbeat of its agent or without.
Begins(t, a) == \E context, web \in BOOLEAN : Start(t, a, context, web) \/ StartPlain(t, a, context, web)

\* A run goes on to its next call.
GoesOn(t) == calls[t] # <<>> /\ found' \subseteq Task /\ Continue(t)

\* A run ends.
Finishes(t) == \E o \in Outcomes \ {"none"} : End(t, o)

RunStep(t) ==
  \/ stage[t] = "running" /\ (GoesOn(t) \/ Finishes(t))
  \/ Leave(t)
  \/ \E a \in Agent : Begins(t, a)

LEMMA ReturnsMakeSteps ==
  ASSUME Shapes, NEW t \in Task, Returns(t)
  PROVE  stage[t] = "running" /\ (GoesOn(t) \/ Finishes(t))
<1>1. found \subseteq Task
  BY DEF Shapes
<1>2. CASE ChatReturns(t)
  BY <1>2 DEF ChatReturns, Calling, Finishes, Outcomes
<1>3. CASE Raises(t)
  BY <1>3 DEF Raises, Finishes, Outcomes
<1>4. CASE \E ok \in BOOLEAN : StatusReturns(t, ok)
  BY <1>1, <1>4 DEF StatusReturns, Calling, GoesOn, Finishes, Outcomes
<1>5. CASE \E ok \in BOOLEAN : AskReturns(t, ok)
  BY <1>5 DEF AskReturns, Calling, Finishes, Outcomes
<1>6. CASE \E ok \in BOOLEAN : WebReturns(t, ok)
  BY <1>1, <1>6 DEF WebReturns, Calling, GoesOn, Finishes, Outcomes
<1>7. CASE \E ok, sources \in BOOLEAN : SearchReturns(t, ok, sources)
  BY <1>1, <1>7 DEF SearchReturns, Calling, GoesOn, Finishes, Outcomes
<1> QED BY <1>2, <1>3, <1>4, <1>5, <1>6, <1>7 DEF Returns

LEMMA CancelledMakesStep ==
  ASSUME NEW t \in Task, Cancelled(t) PROVE stage[t] = "running" /\ Finishes(t)
BY DEF Cancelled, Finishes, Outcomes

\* What a step of the run of t may not change.
Untouched(v) ==
  /\ agentOf'[v] = agentOf[v] /\ stage'[v] = stage[v] /\ outcome'[v] = outcome[v]
  /\ calls'[v] = calls[v] /\ ledger'[v] = ledger[v]
  /\ (v \in plain' <=> v \in plain) /\ (v \in lostRow' <=> v \in lostRow)

RunShapes ==
  /\ process \in 1 .. MaxProcess
  /\ agentOf \in [Task -> Agent \cup {NoAgent}]
  /\ plain \subseteq Task /\ found \subseteq Task
  /\ calls \in [Task -> Seq(Calls)]
  /\ stage \in [Task -> Stages] /\ outcome \in [Task -> Outcomes]
  /\ active \in [Agent -> Seq(Task)]
  /\ ledger \in [Row -> LedgerStatus \cup {"none"}] /\ lostRow \subseteq Row
  /\ beat \in [Agent -> Beats] /\ lostBeat \subseteq Agent

\* The row, the stage and the outcome a step leaves a task with.
RunFits(t) ==
  /\ process' = process
  /\ ledger'[Parent] = ledger[Parent] /\ (Parent \in lostRow' <=> Parent \in lostRow)
  /\ \A v \in Task \ {t} : Untouched(v)
  /\ TaskFits(t)'
  /\ stage[t] # "ended" /\ stage'[t] # "idle" /\ (stage[t] = "dead" => stage'[t] = "dead")
  /\ \A b \in Agent : BeatFits(b)'

LEMMA RowIsWritten ==
  ASSUME Shapes, NEW t \in Row, NEW s \in Settled, WriteRow(t, s)
  PROVE  /\ ledger' \in [Row -> LedgerStatus \cup {"none"}] /\ lostRow' \subseteq Row
         /\ \A v \in Row \ {t} : ledger'[v] = ledger[v] /\ (v \in lostRow' <=> v \in lostRow)
         /\ t \notin lostRow' => ledger'[t] = s
<1>1. t \in Row /\ ledger \in [Row -> LedgerStatus \cup {"none"}] /\ lostRow \subseteq Row
  BY WhoIsWho DEF Shapes
<1> QED BY <1>1 DEF WriteRow, LedgerStatus

LEMMA RowIsStarted ==
  ASSUME Shapes, NEW t \in Row, StartRow(t)
  PROVE  /\ ledger' \in [Row -> LedgerStatus \cup {"none"}] /\ lostRow' \subseteq Row
         /\ \A v \in Row \ {t} : ledger'[v] = ledger[v] /\ (v \in lostRow' <=> v \in lostRow)
         /\ t \notin lostRow' => ledger'[t] = "running"
         /\ ledger'[t] \in {ledger[t], "created", "assigned", "running"}
<1>1. ledger \in [Row -> LedgerStatus \cup {"none"}] /\ lostRow \subseteq Row
  BY DEF Shapes
<1>2. CASE ledger' = [ledger EXCEPT ![t] = "running"] /\ lostRow' = lostRow \ {t}
  BY <1>1, <1>2 DEF LedgerStatus, Open
<1>3. CASE /\ \E s \in {ledger[t], "created", "assigned"} : ledger' = [ledger EXCEPT ![t] = s]
           /\ lostRow' = lostRow \cup {t}
  <2>1. PICK s \in {ledger[t], "created", "assigned"} : ledger' = [ledger EXCEPT ![t] = s]
    BY <1>3
  <2>2. s \in LedgerStatus \cup {"none"}
    BY <1>1, <2>1 DEF LedgerStatus, Open
  <2>3. ledger'[t] = s /\ \A v \in Row \ {t} : ledger'[v] = ledger[v]
    BY <1>1, <2>1
  <2>4. ledger' \in [Row -> LedgerStatus \cup {"none"}]
    BY <1>1, <2>1, <2>2
  <2> QED BY <1>1, <1>3, <2>3, <2>4
<1> QED BY <1>2, <1>3 DEF StartRow

LEMMA GoingOnFits ==
  ASSUME IInv, NEW t \in Task, stage[t] = "running", GoesOn(t)
  PROVE  RunShapes' /\ RunFits(t)
<1>1. Shapes /\ TaskFits(t) /\ calls[t] \in Seq(Calls) /\ Beating /\ RunShapes
  BY DEF IInv, Beating, Shapes, RunShapes
<1>2. /\ UNCHANGED <<process, agentOf, plain, stage, outcome, active, ledger, lostRow, beat, lostBeat>>
      /\ calls' = [calls EXCEPT ![t] = Tail(@)] /\ found' \subseteq Task
  BY DEF GoesOn, Continue, truth
<1>3. Tail(calls[t]) \in Seq(Calls)
  BY <1>1, HeadTailProperties DEF GoesOn
<1>4. calls' \in [Task -> Seq(Calls)] /\ \A v \in Task \ {t} : calls'[v] = calls[v]
  BY <1>1, <1>2, <1>3 DEF RunShapes
<1>5. RunShapes'
  BY <1>1, <1>2, <1>4 DEF RunShapes
<1>6. \A b \in Agent : BeatFits(b)'
  BY <1>1, <1>2, QuietKeepsBeats
<1>7. TaskFits(t)'
  BY <1>1, <1>2 DEF TaskFits
<1> QED BY <1>2, <1>4, <1>5, <1>6, <1>7 DEF RunFits, Untouched

LEMMA FinishingFits ==
  ASSUME IInv, NEW t \in Task, stage[t] = "running", Finishes(t)
  PROVE  RunShapes' /\ RunFits(t)
<1>1. Shapes /\ TaskFits(t) /\ Beating /\ RunShapes /\ t \in Row /\ Parent \in Row /\ t # Parent
      /\ Task \subseteq Row
  BY WhoIsWho DEF IInv, Beating, Shapes, RunShapes
<1>2. PICK o \in Outcomes \ {"none"} : End(t, o)
  BY DEF Finishes
<1>3. /\ UNCHANGED <<process, agentOf, plain, found, active>>
      /\ outcome' = [outcome EXCEPT ![t] = o] /\ calls' = [calls EXCEPT ![t] = <<>>]
  BY <1>2 DEF End
<1>4. /\ outcome' \in [Task -> Outcomes] /\ calls' \in [Task -> Seq(Calls)] /\ outcome'[t] = o
      /\ \A v \in Task \ {t} : outcome'[v] = outcome[v] /\ calls'[v] = calls[v]
  BY <1>1, <1>3 DEF RunShapes
<1>5. RowOf(o) \in Settled
  BY DEF RowOf, Settled, Outcomes
<1>6. UNCHANGED <<beat, lostBeat>>
  BY <1>2 DEF End, truth
<1>7. \A b \in Agent : BeatFits(b)'
  BY <1>1, <1>3, <1>6, QuietKeepsBeats
<1>8. CASE t \in plain
  <2>1. stage' = [stage EXCEPT ![t] = "ended"] /\ UNCHANGED <<ledger, lostRow>>
    BY <1>2, <1>8 DEF End, truth
  <2>2. /\ stage' \in [Task -> Stages] /\ stage'[t] = "ended"
        /\ \A v \in Task \ {t} : stage'[v] = stage[v]
    BY <1>1, <2>1 DEF RunShapes, Stages
  <2>3. RunShapes'
    BY <1>1, <1>3, <1>4, <1>6, <2>1, <2>2 DEF RunShapes
  <2>4. TaskFits(t)'
    BY <1>1, <1>3, <1>4, <1>8, <2>1, <2>2 DEF TaskFits, Open, Settled
  <2> QED BY <1>3, <1>4, <1>7, <2>1, <2>2, <2>3, <2>4 DEF RunFits, Untouched
<1>9. CASE t \notin plain
  <2>1. stage' = [stage EXCEPT ![t] = "ending"] /\ WriteRow(t, RowOf(o))
    BY <1>2, <1>9 DEF End
  <2>2. /\ stage' \in [Task -> Stages] /\ stage'[t] = "ending"
        /\ \A v \in Task \ {t} : stage'[v] = stage[v]
    BY <1>1, <2>1 DEF RunShapes, Stages
  <2>3. /\ ledger' \in [Row -> LedgerStatus \cup {"none"}] /\ lostRow' \subseteq Row
        /\ \A v \in Row \ {t} : ledger'[v] = ledger[v] /\ (v \in lostRow' <=> v \in lostRow)
        /\ t \notin lostRow' => ledger'[t] = RowOf(o)
    BY <1>1, <1>5, <2>1, RowIsWritten
  <2>4. RunShapes'
    BY <1>1, <1>3, <1>4, <1>6, <2>2, <2>3 DEF RunShapes
  <2>5. TaskFits(t)'
    BY <1>1, <1>3, <1>4, <1>5, <1>9, <2>2, <2>3 DEF TaskFits, Open, Settled
  <2> QED BY <1>1, <1>3, <1>4, <1>7, <2>2, <2>3, <2>4, <2>5 DEF RunFits, Untouched
<1> QED BY <1>8, <1>9

LEMMA LeavingFits ==
  ASSUME IInv, NEW t \in Task, Leave(t)
  PROVE  RunShapes' /\ RunFits(t)
<1>1. Shapes /\ TaskFits(t) /\ Beating /\ RunShapes
  BY DEF IInv, Beating, Shapes, RunShapes
<1>2. /\ UNCHANGED <<process, agentOf, plain, calls, found, outcome, ledger, lostRow>>
      /\ stage[t] = "ending" /\ stage' = [stage EXCEPT ![t] = "ended"]
  BY DEF Leave
<1>3. /\ stage' \in [Task -> Stages] /\ stage'[t] = "ended"
      /\ \A v \in Task \ {t} : stage'[v] = stage[v]
  BY <1>1, <1>2 DEF RunShapes, Stages
<1> DEFINE a == agentOf[t]
           s == RemoveFirst(active[a], t)
<1>4. a \in Agent
  BY <1>1, <1>2 DEF TaskFits
<1>5. active' = [active EXCEPT ![a] = s] /\ RecordBeat(a, active'[a])
  BY DEF Leave, Deactivate
<1>6. s \in Seq(Task)
  BY <1>1, <1>4, RemoveFirstTyped DEF RunShapes
<1>7. active'[a] = s
  BY <1>1, <1>4, <1>5 DEF RunShapes
<1> HIDE DEF a, s
<1>8. /\ \A b \in Agent : BeatFits(b)'
      /\ beat' \in [Agent -> Beats] /\ lostBeat' \subseteq Agent /\ active' \in [Agent -> Seq(Task)]
  BY <1>1, <1>2, <1>4, <1>5, <1>6, <1>7, RecordKeepsBeats
<1>9. RunShapes'
  BY <1>1, <1>2, <1>3, <1>8 DEF RunShapes
<1>10. TaskFits(t)'
  BY <1>1, <1>2, <1>3 DEF TaskFits, Open
<1> QED BY <1>2, <1>3, <1>8, <1>9, <1>10 DEF RunFits, Untouched

LEMMA CallsTyped ==
  ASSUME NEW a \in Agent, NEW context \in BOOLEAN, NEW web \in BOOLEAN
  PROVE  HandlerCalls(a, context, web) \in Seq(Calls)
<1>1. Kind[a] \in {"status", "knowledge", "research", "prompt"}
  BY WhoIsWho
<1>2. <<"status", "chat">> \in Seq(Calls) /\ <<"chat">> \in Seq(Calls) /\ <<"ask">> \in Seq(Calls)
      /\ <<"search", "web", "chat">> \in Seq(Calls) /\ <<"search", "chat">> \in Seq(Calls)
  BY DEF Calls
<1>3. PromptCalls \in Seq(Calls) /\ StatusCalls \in Seq(Calls)
      /\ KnowledgeCalls(context) \in Seq(Calls) /\ ResearchCalls(context, web) \in Seq(Calls)
  BY <1>2 DEF PromptCalls, StatusCalls, KnowledgeCalls, ResearchCalls
<1> QED BY <1>1, <1>3 DEF HandlerCalls

LEMMA BeginningFits ==
  ASSUME IInv, NEW t \in Task, NEW a \in Agent, Begins(t, a)
  PROVE  RunShapes' /\ RunFits(t)
<1>1. Shapes /\ TaskFits(t) /\ Beating /\ RunShapes /\ t \in Row /\ Parent \in Row /\ t # Parent
      /\ Task \subseteq Row
  BY WhoIsWho DEF IInv, Beating, Shapes, RunShapes
<1>2. PICK context \in BOOLEAN, web \in BOOLEAN :
        Start(t, a, context, web) \/ StartPlain(t, a, context, web)
  BY DEF Begins
<1> DEFINE todo == HandlerCalls(a, context, web)
<1>3. todo \in Seq(Calls)
  BY CallsTyped
<1> HIDE DEF todo
<1>4. /\ UNCHANGED <<process, found, outcome>> /\ stage[t] = "idle"
      /\ stage' = [stage EXCEPT ![t] = "running"] /\ agentOf' = [agentOf EXCEPT ![t] = a]
      /\ calls' = [calls EXCEPT ![t] = todo]
  BY <1>2 DEF Start, StartPlain, todo
<1>5. /\ stage' \in [Task -> Stages] /\ agentOf' \in [Task -> Agent \cup {NoAgent}]
      /\ calls' \in [Task -> Seq(Calls)] /\ stage'[t] = "running" /\ agentOf'[t] = a
      /\ \A v \in Task \ {t} : /\ stage'[v] = stage[v] /\ agentOf'[v] = agentOf[v]
                               /\ calls'[v] = calls[v]
  BY <1>1, <1>3, <1>4 DEF RunShapes, Stages
<1>6. t \notin plain /\ ledger[t] = "none" /\ t \notin lostRow /\ outcome[t] = "none"
  <2>1. outcome[t] \in Outcomes
    BY <1>1 DEF RunShapes
  <2> QED BY <1>1, <1>4, <2>1 DEF TaskFits
<1>7. CASE StartPlain(t, a, context, web)
  <2>1. /\ plain' = plain \cup {t}
        /\ UNCHANGED <<active, ledger, lostRow, beat, lostBeat>>
    BY <1>7 DEF StartPlain, truth
  <2>2. RunShapes'
    BY <1>1, <1>4, <1>5, <2>1 DEF RunShapes
  <2>3. \A b \in Agent : BeatFits(b)'
    BY <1>1, <1>4, <2>1, QuietKeepsBeats
  <2>4. TaskFits(t)'
    BY <1>4, <1>5, <1>6, <2>1 DEF TaskFits, Open, Settled
  <2> QED BY <1>4, <1>5, <2>1, <2>2, <2>3, <2>4 DEF RunFits, Untouched
<1>8. CASE Start(t, a, context, web)
  <2>1. UNCHANGED plain /\ StartRow(t) /\ active' = [active EXCEPT ![a] = Append(@, t)]
        /\ RecordBeat(a, active'[a])
    BY <1>8 DEF Start, Activate
  <2> DEFINE s == Append(active[a], t)
  <2>2. s \in Seq(Task) /\ active' = [active EXCEPT ![a] = s] /\ active'[a] = s
    BY <1>1, <2>1 DEF RunShapes
  <2> HIDE DEF s
  <2>3. /\ \A b \in Agent : BeatFits(b)'
        /\ beat' \in [Agent -> Beats] /\ lostBeat' \subseteq Agent /\ active' \in [Agent -> Seq(Task)]
    BY <1>1, <1>4, <2>1, <2>2, RecordKeepsBeats
  <2>4. /\ ledger' \in [Row -> LedgerStatus \cup {"none"}] /\ lostRow' \subseteq Row
        /\ \A v \in Row \ {t} : ledger'[v] = ledger[v] /\ (v \in lostRow' <=> v \in lostRow)
        /\ t \notin lostRow' => ledger'[t] = "running"
    BY <1>1, <2>1, RowIsStarted
  <2>5. RunShapes'
    BY <1>1, <1>4, <1>5, <2>1, <2>3, <2>4 DEF RunShapes
  <2>6. TaskFits(t)'
    BY <1>4, <1>5, <1>6, <2>1, <2>4 DEF TaskFits, Open, Settled
  <2> QED BY <1>1, <1>4, <1>5, <2>1, <2>3, <2>4, <2>5, <2>6 DEF RunFits, Untouched
<1> QED BY <1>2, <1>7, <1>8

LEMMA RunStepFits ==
  ASSUME IInv, NEW t \in Task, RunStep(t)
  PROVE  RunShapes' /\ RunFits(t)
BY GoingOnFits, FinishingFits, LeavingFits, BeginningFits DEF RunStep

\* A step of a run that leaves the orchestration alone keeps the invariant when a
\* child that starts is in the batch, and the tools' readings fit.
LEMMA RunStepKeeps ==
  ASSUME IInv, NEW t \in Task, RunStep(t), UNCHANGED orchestration, Shapes',
         \A a \in Agent \ {t} : measured'[a] = measured[a],
         t \in Agent => ReadingFits(t)' /\ (stage[t] = "idle" => t \in batch)
  PROVE  IInv'
<1>1. RunFits(t)
  BY RunStepFits
<1>2. /\ UNCHANGED <<phase, plan, batch, results, error, published, quoted, stored>>
      /\ Children' = Children /\ \A a : Needs(a)' = Needs(a)
  BY DEF orchestration, Children, Needs, Number
<1>3. \A v \in Task \ {t} : Untouched(v)
  BY <1>1 DEF RunFits
<1>4. \A v \in Task : TaskFits(v)'
  <2> SUFFICES ASSUME NEW v \in Task \ {t} PROVE TaskFits(v)'
    BY <1>1 DEF RunFits
  <2>1. TaskFits(v) /\ Untouched(v)
    BY <1>3 DEF IInv
  <2> QED BY <2>1 DEF TaskFits, Untouched
<1>5. \A a \in Agent : BeatFits(a)' /\ ReadingFits(a)'
  <2> SUFFICES ASSUME NEW a \in Agent, a # t PROVE ReadingFits(a)'
    BY <1>1 DEF RunFits
  <2>1. ReadingFits(a) /\ Untouched(a) /\ measured'[a] = measured[a]
    BY <1>3, WhoIsWho DEF IInv
  <2> QED BY <2>1 DEF ReadingFits, Untouched
<1>6. \A a \in results : a \in Agent /\ a # t /\ stage'[a] = "ended" /\ outcome'[a] = outcome[a]
                         /\ measured'[a] = measured[a]
  <2> SUFFICES ASSUME NEW a \in results
               PROVE  a \in Agent /\ a # t /\ stage'[a] = "ended" /\ outcome'[a] = outcome[a]
                      /\ measured'[a] = measured[a]
    OBVIOUS
  <2>1. a \in Agent /\ stage[a] = "ended"
    BY DEF IInv, Shapes, ResultsFit
  <2>2. a # t
    BY <1>1, <2>1 DEF RunFits
  <2>3. Untouched(a)
    BY <1>3, <2>1, <2>2, WhoIsWho
  <2> QED BY <2>1, <2>2, <2>3 DEF Untouched
<1>7. PhaseFits'
  BY <1>1, <1>2 DEF IInv, PhaseFits, RunFits, Layered
<1>8. ResultsFit'
  BY <1>2, <1>6 DEF IInv, ResultsFit
<1>9. NeedsFit'
  <2> SUFFICES ASSUME NEW a \in Agent, a \in batch \/ stage'[a] # "idle"
               PROVE  a \in Children /\ \A b \in Needs(a) : b \in results /\ outcome'[b] = "completed"
    BY <1>2 DEF NeedsFit
  <2>1. a \in batch \/ stage[a] # "idle"
    <3>1. CASE a = t
      BY <3>1
    <3>2. CASE a # t
      BY <1>3, <3>2, WhoIsWho DEF Untouched
    <3> QED BY <3>1, <3>2
  <2>2. a \in Children /\ \A b \in Needs(a) : b \in results /\ outcome[b] = "completed"
    BY <2>1 DEF IInv, NeedsFit
  <2> QED BY <1>6, <2>2
<1>10. ParentFits'
  BY <1>1, <1>2 DEF IInv, ParentFits, RunFits, RunStatus
<1>11. PublishedFits'
  <2>1. ToolSteps' = ToolSteps
    <3>1. \A i \in DOMAIN plan : plan[i] \in results => measured'[plan[i]] = measured[plan[i]]
      BY <1>6
    <3> QED BY <1>2, <3>1 DEF ToolSteps
  <2>2. Evidence' = Evidence
    BY <2>1 DEF Evidence
  <2> QED BY <1>2, <2>2 DEF IInv, PublishedFits
<1>12. QuotedFits'
  BY <1>2, <1>6 DEF IInv, QuotedFits
<1> QED BY <1>4, <1>5, <1>7, <1>8, <1>9, <1>10, <1>11, <1>12 DEF IInv

-------------------------------------------------------------------------------
(* The steps of the children and of the direct requests.                   *)

OrchestrationShapes ==
  /\ phase \in Phases /\ plan \in Seq(Agent)
  /\ batch \subseteq Agent /\ results \subseteq Agent /\ error \in Errors
  /\ \A line \in published : line.form \in Validator!Forms /\ line.style \in Validator!Styles
  /\ quoted \subseteq Agent /\ stored \in {"none", "completed", "failed"}

RequestShapes == via \in [Direct -> Vias] /\ served \in [Direct -> Servings] /\ kept \subseteq Direct

LEMMA ShapesByParts ==
  Shapes <=> RunShapes /\ OrchestrationShapes /\ RequestShapes /\ DOMAIN measured = Agent
BY DEF Shapes, RunShapes, OrchestrationShapes, RequestShapes

LEMMA ShapesByPartsNext ==
  Shapes' <=> RunShapes' /\ OrchestrationShapes' /\ RequestShapes' /\ DOMAIN measured' = Agent
BY DEF Shapes, RunShapes, OrchestrationShapes, RequestShapes

LEMMA OrchestrationShapesStay ==
  ASSUME OrchestrationShapes, UNCHANGED orchestration PROVE OrchestrationShapes'
BY DEF OrchestrationShapes, orchestration

LEMMA StartChildKeeps ==
  ASSUME IInv, NEW a \in Agent, StartChild(a) PROVE IInv'
<1>1. a \in batch /\ stage[a] = "idle" /\ Start(a, a, FALSE, FALSE) /\ a \in Task
      /\ UNCHANGED <<orchestration, measured, requests>>
  BY WhoIsWho DEF StartChild, Start
<1>2. RunStep(a)
  BY <1>1 DEF RunStep, Begins
<1>3. Shapes'
  <2>1. OrchestrationShapes /\ RequestShapes /\ DOMAIN measured = Agent
    BY ShapesByParts DEF IInv
  <2>2. RunShapes'
    BY <1>1, <1>2, RunStepFits
  <2>3. OrchestrationShapes' /\ RequestShapes' /\ DOMAIN measured' = Agent
    BY <1>1, <2>1, OrchestrationShapesStay DEF RequestShapes, requests
  <2> QED BY <2>2, <2>3, ShapesByPartsNext
<1>4. ReadingFits(a)'
  <2>1. measured'[a] = Validator!Unknown /\ outcome'[a] = "none"
    <3>1. ReadingFits(a) /\ TaskFits(a) /\ outcome[a] \in Outcomes
      BY <1>1 DEF IInv, Shapes
    <3> QED BY <1>1, <3>1 DEF ReadingFits, TaskFits, Start
  <2>2. stage'[a] = "running" /\ calls'[a] = HandlerCalls(a, FALSE, FALSE)
    BY <1>1 DEF Start, IInv, Shapes
  <2>3. Kind[a] \in {"status", "knowledge", "research", "prompt"}
    BY WhoIsWho
  <2>4. /\ Kind[a] = "status" => calls'[a] = <<"status", "chat">>
        /\ Kind[a] # "status" => calls'[a] \in {<<"chat">>, <<"ask">>, <<"search", "chat">>}
    BY <2>2, <2>3 DEF HandlerCalls, StatusCalls, PromptCalls, KnowledgeCalls, ResearchCalls
  <2> QED BY <2>1, <2>2, <2>4 DEF ReadingFits
<1> QED BY <1>1, <1>2, <1>3, <1>4, RunStepKeeps

\* What the call of a child that returns leaves of its calls and its reading.
LEMMA ChildReadingFits ==
  ASSUME IInv, NEW a \in Agent, ChildReturns(a) PROVE ReadingFits(a)'
<1>1. /\ Returns(a) /\ a \in Task /\ stage[a] = "running"
      /\ GoesOn(a) \/ Finishes(a)
      /\ calls \in [Task -> Seq(Calls)] /\ stage \in [Task -> Stages]
      /\ outcome \in [Task -> Outcomes] /\ DOMAIN measured = Agent
  BY WhoIsWho, ReturnsMakeSteps DEF IInv, Shapes, ChildReturns
<1>2. ReadingFits(a) /\ outcome[a] = "none"
  BY <1>1 DEF IInv, TaskFits
<1>3. IF Calling(a, "status") /\ stage'[a] = "running"
      THEN \E r \in Reading : measured' = [measured EXCEPT ![a] = r]
      ELSE measured' = measured
  BY DEF ChildReturns
<1> DEFINE c == calls[a]
<1>4. CASE Kind[a] = "status" /\ c = <<"status", "chat">>
  <2>1. Head(c) = "status" /\ Tail(c) = <<"chat">> /\ c # <<>>
    BY <1>4
  <2>2. Calling(a, "status")
    BY <1>1, <2>1 DEF Calling
  <2>3. CASE stage'[a] = "running"
    <3>1. PICK r \in Reading : measured' = [measured EXCEPT ![a] = r]
      BY <1>3, <2>2, <2>3
    <3>2. measured'[a] \in Reading
      BY <1>1, <3>1
    <3>3. GoesOn(a)
      <4> SUFFICES ASSUME Finishes(a) PROVE FALSE
        BY <1>1
      <4>1. stage'[a] # "running"
        BY <1>1 DEF Finishes, End
      <4> QED BY <2>3, <4>1
    <3>4. calls'[a] = <<"chat">> /\ outcome'[a] = "none"
      BY <1>1, <1>2, <2>1, <3>3 DEF GoesOn, Continue
    <3> QED BY <1>4, <2>3, <3>2, <3>4 DEF ReadingFits
  <2>4. CASE stage'[a] # "running"
    <3>1. stage'[a] # "idle"
      BY <1>1, <2>4 DEF GoesOn, Continue, Finishes, End
    <3>2. outcome'[a] # "completed"
      <4>1. ~ChatReturns(a)
        BY <2>1 DEF ChatReturns, Calling
      <4>2. \A ok \in BOOLEAN : ~AskReturns(a, ok) /\ ~WebReturns(a, ok)
              /\ \A sources \in BOOLEAN : ~SearchReturns(a, ok, sources)
        BY <2>1 DEF AskReturns, WebReturns, SearchReturns, Calling
      <4>3. Raises(a) \/ \E ok \in BOOLEAN : StatusReturns(a, ok)
        BY <1>1, <4>1, <4>2 DEF Returns
      <4>4. Raises(a) => outcome'[a] = "raised"
        BY <1>1 DEF Raises, End
      <4>5. \A ok \in BOOLEAN : StatusReturns(a, ok) => outcome'[a] \in {"none", "failed"}
        BY <1>1, <1>2 DEF StatusReturns, Continue, End
      <4> QED BY <4>3, <4>4, <4>5
    <3> QED BY <1>4, <2>4, <3>1, <3>2 DEF ReadingFits
  <2> QED BY <2>3, <2>4
<1>5. CASE Kind[a] = "status" /\ c = <<"chat">> /\ measured[a] \in Reading
  <2>1. Head(c) = "chat" /\ c # <<>>
    BY <1>5
  <2>2. ~Calling(a, "status") /\ measured' = measured
    BY <1>3, <2>1 DEF Calling
  <2>3. ~GoesOn(a)
    <3>1. \A ok \in BOOLEAN : ~AskReturns(a, ok) /\ ~WebReturns(a, ok) /\ ~StatusReturns(a, ok)
            /\ \A sources \in BOOLEAN : ~SearchReturns(a, ok, sources)
      BY <2>1 DEF AskReturns, WebReturns, SearchReturns, StatusReturns, Calling
    <3>2. ChatReturns(a) \/ Raises(a)
      BY <1>1, <3>1 DEF Returns
    <3>3. stage'[a] # "running"
      BY <1>1, <3>2 DEF ChatReturns, Raises, End
    <3> QED BY <1>1, <3>3 DEF GoesOn, Continue
  <2>4. stage'[a] \notin {"running", "idle"}
    BY <1>1, <2>3 DEF Finishes, End
  <2> QED BY <1>5, <2>2, <2>4 DEF ReadingFits
<1>6. CASE Kind[a] # "status"
  <2>1. c \in {<<"chat">>, <<"ask">>, <<"search", "chat">>} /\ measured[a] = Validator!Unknown
    BY <1>1, <1>2, <1>6 DEF ReadingFits
  <2>2. Head(c) # "status"
    BY <2>1
  <2>3. measured' = measured
    BY <1>3, <2>2 DEF Calling
  <2>4. CASE Finishes(a)
    <3>1. stage'[a] \notin {"running", "idle"}
      BY <1>1, <2>4 DEF Finishes, End
    <3> QED BY <1>6, <2>1, <2>3, <3>1 DEF ReadingFits
  <2>5. CASE GoesOn(a)
    <3>1. stage'[a] = "running" /\ calls'[a] = Tail(c)
      BY <1>1, <2>5 DEF GoesOn, Continue
    <3>2. \/ \E ok \in BOOLEAN : AskReturns(a, ok) \/ WebReturns(a, ok) \/ StatusReturns(a, ok)
          \/ \E ok, sources \in BOOLEAN : SearchReturns(a, ok, sources)
          \/ ChatReturns(a) \/ Raises(a)
      BY <1>1 DEF Returns
    <3>3. c = <<"search", "chat">>
      <4> SUFFICES ASSUME c \in {<<"chat">>, <<"ask">>} PROVE FALSE
        BY <2>1
      <4>1. Head(c) \in {"chat", "ask"}
        OBVIOUS
      <4>2. ChatReturns(a) \/ Raises(a) \/ \E ok \in BOOLEAN : AskReturns(a, ok)
        BY <3>2, <4>1 DEF WebReturns, StatusReturns, SearchReturns, Calling
      <4>3. stage'[a] # "running"
        BY <1>1, <4>2 DEF ChatReturns, Raises, AskReturns, End
      <4> QED BY <3>1, <4>3
    <3>4. Tail(c) = <<"chat">>
      BY <3>3
    <3> QED BY <1>6, <2>1, <2>3, <3>1, <3>4 DEF ReadingFits
  <2> QED BY <1>1, <2>4, <2>5
<1> QED BY <1>1, <1>2, <1>4, <1>5, <1>6 DEF ReadingFits

LEMMA ChildReturnsKeeps ==
  ASSUME IInv, NEW a \in Agent, ChildReturns(a) PROVE IInv'
<1>1. Returns(a) /\ a \in Task /\ UNCHANGED orchestration /\ UNCHANGED requests
  BY WhoIsWho DEF ChildReturns
<1>2. stage[a] = "running" /\ RunStep(a)
  BY <1>1, ReturnsMakeSteps DEF IInv, RunStep
<1>3. DOMAIN measured' = Agent /\ \A b \in Agent \ {a} : measured'[b] = measured[b]
  BY DEF ChildReturns, IInv, Shapes
<1>4. Shapes'
  <2>1. OrchestrationShapes /\ RequestShapes
    BY ShapesByParts DEF IInv
  <2>2. RunShapes'
    BY <1>1, <1>2, RunStepFits
  <2>3. OrchestrationShapes' /\ RequestShapes'
    BY <1>1, <2>1, OrchestrationShapesStay DEF RequestShapes, requests
  <2> QED BY <1>3, <2>2, <2>3, ShapesByPartsNext
<1>5. ReadingFits(a)'
  BY ChildReadingFits
<1> QED BY <1>1, <1>2, <1>3, <1>4, <1>5, RunStepKeeps

\* A step of a direct request's run leaves the children alone.
LEMMA DirectStepKeeps ==
  ASSUME IInv, NEW d \in Direct, RunStep(d), UNCHANGED <<orchestration, measured>>, RequestShapes'
  PROVE  IInv'
<1>1. d \in Task /\ d \notin Agent
  BY WhoIsWho
<1>2. Shapes'
  <2>1. OrchestrationShapes /\ DOMAIN measured = Agent
    BY ShapesByParts DEF IInv
  <2>2. RunShapes'
    BY <1>1, RunStepFits
  <2>3. OrchestrationShapes'
    BY <2>1, OrchestrationShapesStay
  <2> QED BY <2>1, <2>2, <2>3, ShapesByPartsNext
<1> QED BY <1>1, <1>2, RunStepKeeps

LEMMA ServedTyped ==
  ASSUME RequestShapes, NEW d \in Direct, NEW s \in Servings, Serve(d, s), UNCHANGED via,
         kept' = kept \/ kept' = kept \cup {d}
  PROVE  RequestShapes'
BY DEF RequestShapes, Serve

LEMMA AskKeeps ==
  ASSUME IInv, NEW d \in Direct, Ask(d) PROVE IInv'
<1>1. PICK a \in Asked, context \in BOOLEAN, v \in Vias \ {"none"}, web \in BOOLEAN :
        /\ via' = [via EXCEPT ![d] = v]
        /\ IF v = "chat" THEN StartPlain(d, a, context, web) ELSE Start(d, a, context, web)
  BY DEF Ask
<1>2. RunStep(d)
  BY <1>1, WhoIsWho DEF RunStep, Begins
<1>3. RequestShapes'
  <2>1. RequestShapes
    BY ShapesByParts DEF IInv
  <2>2. served' = [served EXCEPT ![d] = "running"] /\ kept' = kept
    BY DEF Ask
  <2> QED BY <1>1, <2>1, <2>2 DEF RequestShapes, Servings
<1> QED BY <1>2, <1>3, DirectStepKeeps DEF Ask

LEMMA DirectRunKeeps ==
  ASSUME IInv, NEW d \in Direct,
         DirectReturns(d) \/ (Disconnect(d) /\ Cancelled(d))
  PROVE  IInv'
<1>1. d \in Task /\ RequestShapes
  BY WhoIsWho, ShapesByParts DEF IInv
<1>2. CASE DirectReturns(d)
  <2>1. RunStep(d)
    BY <1>1, <1>2, ReturnsMakeSteps DEF DirectReturns, RunStep, IInv
  <2>2. UNCHANGED <<orchestration, measured, requests>>
    BY <1>2 DEF DirectReturns
  <2>3. RequestShapes'
    BY <1>1, <2>2 DEF RequestShapes, requests
  <2> QED BY <2>1, <2>2, <2>3, DirectStepKeeps
<1>3. CASE Disconnect(d) /\ Cancelled(d)
  <2>1. RunStep(d)
    BY <1>1, <1>3, CancelledMakesStep DEF RunStep
  <2>2. UNCHANGED <<orchestration, measured, via, kept>> /\ Serve(d, "gone")
    BY <1>3 DEF Disconnect
  <2>3. RequestShapes'
    BY <1>1, <2>2, ServedTyped DEF Servings
  <2> QED BY <2>1, <2>2, <2>3, DirectStepKeeps
<1> QED BY <1>2, <1>3

LEMMA LeavesKeeps ==
  ASSUME IInv, NEW t \in Task, Leaves(t) PROVE IInv'
<1>1. Leave(t) /\ UNCHANGED <<orchestration, measured, requests>> /\ RunStep(t)
  BY DEF Leaves, RunStep
<1>2. RunShapes' /\ OrchestrationShapes /\ RequestShapes /\ DOMAIN measured = Agent
  BY <1>1, RunStepFits, ShapesByParts DEF IInv
<1>3. Shapes'
  <2>1. OrchestrationShapes' /\ RequestShapes'
    BY <1>1, <1>2, OrchestrationShapesStay DEF RequestShapes, requests
  <2> QED BY <1>1, <1>2, <2>1, ShapesByPartsNext
<1>4. t \in Agent => ReadingFits(t)' /\ stage[t] # "idle"
  <2> SUFFICES ASSUME t \in Agent PROVE ReadingFits(t)' /\ stage[t] # "idle"
    OBVIOUS
  <2>1. ReadingFits(t) /\ stage \in [Task -> Stages]
    BY DEF IInv, Shapes
  <2>2. stage[t] = "ending" /\ stage'[t] = "ended" /\ outcome' = outcome /\ measured' = measured
    BY <1>1, <2>1 DEF Leave
  <2> QED BY <2>1, <2>2 DEF ReadingFits
<1> QED BY <1>1, <1>3, <1>4, RunStepKeeps

-------------------------------------------------------------------------------
(* The steps of the orchestration and of the answers to clients.           *)

\* Neither the runs nor their rows, heartbeats and readings change.
RunsAreQuiet ==
  /\ UNCHANGED <<process, runs, active, beat, lostBeat, measured, requests>>
  /\ \A t \in Task : ledger'[t] = ledger[t] /\ (t \in lostRow' <=> t \in lostRow)
  /\ ledger' \in [Row -> LedgerStatus \cup {"none"}] /\ lostRow' \subseteq Row

LEMMA QuietRunsFit ==
  ASSUME IInv, RunsAreQuiet, OrchestrationShapes'
  PROVE  /\ Shapes' /\ \A a \in Agent : BeatFits(a)' /\ ReadingFits(a)'
         /\ \A t \in Task : TaskFits(t)'
<1>1. /\ UNCHANGED <<process, agentOf, plain, calls, found, stage, outcome>>
      /\ UNCHANGED <<active, beat, lostBeat, measured, via, served, kept>>
  BY DEF RunsAreQuiet, runs, requests
<1>2. Shapes'
  <2>1. RunShapes /\ RequestShapes /\ DOMAIN measured = Agent
    BY ShapesByParts DEF IInv
  <2>2. RunShapes' /\ RequestShapes' /\ DOMAIN measured' = Agent
    BY <1>1, <2>1 DEF RunShapes, RequestShapes, RunsAreQuiet
  <2> QED BY <2>2, ShapesByPartsNext
<1>3. \A a \in Agent : BeatFits(a)'
  BY <1>1, QuietKeepsBeats DEF Beating, IInv
<1>4. \A a \in Agent : ReadingFits(a)'
  BY <1>1 DEF IInv, ReadingFits
<1>5. \A t \in Task : TaskFits(t)'
  BY <1>1 DEF IInv, TaskFits, RunsAreQuiet
<1> QED BY <1>2, <1>3, <1>4, <1>5

\* Steps that change no row are quiet.
LEMMA StillRuntime ==
  ASSUME IInv, UNCHANGED <<runtimeVars, measured, requests>> PROVE RunsAreQuiet
<1>1. ledger \in [Row -> LedgerStatus \cup {"none"}] /\ lostRow \subseteq Row
  BY DEF IInv, Shapes
<1> QED BY <1>1 DEF RunsAreQuiet, runtimeVars, truth, runs, requests

LEMMA EvidenceStays ==
  ASSUME UNCHANGED <<plan, results, measured>> PROVE Evidence' = Evidence
<1>1. ToolSteps' = ToolSteps
  BY DEF ToolSteps
<1> QED BY <1>1 DEF Evidence

LEMMA PlanStays ==
  ASSUME UNCHANGED plan
  PROVE  Children' = Children /\ (\A a : Needs(a)' = Needs(a)) /\ (Layered(plan)' <=> Layered(plan))
BY DEF Children, Needs, Number, Layered

LEMMA RequestKeeps ==
  ASSUME IInv, Request PROVE IInv'
<1>1. /\ phase = "idle" /\ phase' = "batch" /\ StartRow(Parent)
      /\ UNCHANGED <<process, runs, active, beat, lostBeat, batch, results, error,
                     measured, published, quoted, stored, requests>>
  BY DEF Request
<1>2. Layered(plan')
  <2>1. PICK o \in Objectives, formatting \in BOOLEAN, limit \in Limits :
          plan' = Planner!Plan(o.scores, o.bonus, o.document, formatting, limit)
    BY DEF Request
  <2> QED BY <2>1, PlanIsLayered
<1>3. /\ plan = <<>> /\ ledger[Parent] = "none" /\ Parent \notin lostRow /\ results = {}
      /\ batch = {} /\ error = "none" /\ published = {} /\ quoted = {} /\ stored = "none"
  BY <1>1 DEF IInv, PhaseFits, ParentFits, QuotedFits
<1>4. /\ ledger' \in [Row -> LedgerStatus \cup {"none"}] /\ lostRow' \subseteq Row
      /\ \A t \in Task : ledger'[t] = ledger[t] /\ (t \in lostRow' <=> t \in lostRow)
      /\ ledger'[Parent] \notin Settled
  <2>1. Parent \in Row /\ Task \subseteq Row \ {Parent}
    BY WhoIsWho
  <2>2. /\ ledger' \in [Row -> LedgerStatus \cup {"none"}] /\ lostRow' \subseteq Row
        /\ \A v \in Row \ {Parent} : ledger'[v] = ledger[v] /\ (v \in lostRow' <=> v \in lostRow)
        /\ ledger'[Parent] \in {ledger[Parent], "created", "assigned", "running"}
    BY <1>1, <2>1, RowIsStarted DEF IInv
  <2> QED BY <1>3, <2>1, <2>2 DEF Settled
<1>5. OrchestrationShapes'
  <2>1. OrchestrationShapes
    BY ShapesByParts DEF IInv
  <2> QED BY <1>1, <1>2, <2>1 DEF OrchestrationShapes, Layered, Phases
<1>6. RunsAreQuiet
  BY <1>1, <1>4 DEF RunsAreQuiet
<1>7. Children = {}
  BY <1>3 DEF Children
<1>8. \A a \in Agent : stage'[a] = "idle"
  BY <1>1, <1>7 DEF IInv, NeedsFit, runs
<1>9. PhaseFits' /\ ResultsFit' /\ NeedsFit' /\ ParentFits' /\ PublishedFits' /\ QuotedFits'
  <2>1. PhaseFits'
    BY <1>1, <1>2, <1>3 DEF PhaseFits, Layered, Over
  <2>2. ResultsFit'
    BY <1>1, <1>3 DEF ResultsFit
  <2>3. NeedsFit'
    BY <1>1, <1>3, <1>8 DEF NeedsFit
  <2>4. ParentFits'
    BY <1>1, <1>3, <1>4 DEF ParentFits, Over, Settled
  <2>5. PublishedFits'
    BY <1>1, <1>3 DEF PublishedFits
  <2>6. QuotedFits'
    BY <1>1, <1>3 DEF QuotedFits
  <2> QED BY <2>1, <2>2, <2>3, <2>4, <2>5, <2>6
<1> QED BY <1>5, <1>6, <1>9, QuietRunsFit DEF IInv

LEMMA DispatchKeeps ==
  ASSUME IInv, Dispatch PROVE IInv'
<1>1. /\ phase = "batch" /\ batch = {} /\ Pending # {}
      /\ UNCHANGED <<runtimeVars, plan, results, measured, published, stored, requests>>
  BY DEF Dispatch
<1>2. Layered(plan) /\ error = "none" /\ published = {} /\ quoted = {}
  BY <1>1 DEF IInv, PhaseFits, PublishedFits, QuotedFits
<1>3. batch' = Ready /\ error' = error /\ phase' = phase /\ quoted' = quoted
  BY <1>1, <1>2, SomebodyIsReady DEF Dispatch
<1>4. Ready \subseteq Children /\ Ready \cap results = {} /\ Children \subseteq Agent
  BY <1>2, PlanNumbers DEF Ready, Pending
<1>5. OrchestrationShapes'
  <2>1. OrchestrationShapes
    BY ShapesByParts DEF IInv
  <2> QED BY <1>1, <1>3, <1>4, <2>1 DEF OrchestrationShapes
<1>6. RunsAreQuiet /\ UNCHANGED <<stage, outcome, ledger, lostRow>>
  BY <1>1, StillRuntime DEF runtimeVars, runs, truth
<1>7. PhaseFits'
  BY <1>1, <1>2, <1>3, <1>6 DEF PhaseFits, Over, IInv, Layered
<1>8. ResultsFit'
  BY <1>1, <1>2, <1>3, <1>4, <1>6, PlanStays DEF ResultsFit, IInv
<1>9. NeedsFit'
  <2> SUFFICES ASSUME NEW a \in Agent, a \in Ready \/ stage[a] # "idle"
               PROVE  a \in Children /\ \A b \in Needs(a) : b \in results /\ outcome[b] = "completed"
    BY <1>1, <1>3, <1>6, PlanStays DEF NeedsFit
  <2>1. CASE a \in Ready
    <3>1. a \in Children /\ Needs(a) \subseteq results
      BY <2>1 DEF Ready, Pending
    <3> QED BY <1>2, <3>1 DEF IInv, ResultsFit
  <2>2. CASE stage[a] # "idle"
    BY <2>2 DEF IInv, NeedsFit
  <2> QED BY <2>1, <2>2
<1>10. ParentFits'
  BY <1>1, <1>3, <1>6, PlanStays DEF ParentFits, RunStatus, IInv
<1>11. PublishedFits'
  BY <1>1, <1>2 DEF PublishedFits
<1>12. QuotedFits'
  BY <1>2, <1>3 DEF QuotedFits
<1> QED BY <1>5, <1>6, <1>7, <1>8, <1>9, <1>10, <1>11, <1>12, QuietRunsFit DEF IInv

\* A formatter that is done was alone in the last batch, so there is nothing to fall
\* back from: when a batch breaks, the fallback quotes the others who are done.
LEMMA FallbackIsPlain ==
  ASSUME IInv, phase = "batch", batch # {}, Broken, Fallback(results \cup batch)
  PROVE  \A a \in quoted' : a \in (results \cup batch) \ {Formatter} /\ outcome[a] = "completed"
<1>1. PICK spoke \in SUBSET {a \in results \cup batch : outcome[a] = "completed"} :
        quoted' = IF \E a \in spoke : Planner!TaskRole(plan, Number(a)) = "formatter"
                  THEN {Formatter} ELSE spoke
  BY DEF Fallback
<1>2. PICK b \in batch : outcome[b] # "completed"
  BY DEF Broken
<1>3. Layered(plan) /\ results \cup batch \subseteq Children /\ batch \cap results = {}
      /\ \A a \in results : stage[a] = "ended"
  BY DEF IInv, PhaseFits, ResultsFit
<1>4. Formatter \notin spoke
  <2> SUFFICES ASSUME Formatter \in spoke PROVE FALSE
    OBVIOUS
  <2>1. Formatter \in Children /\ Formatter \in results \cup batch /\ Formatter # b /\ b \in Children
    BY <1>1, <1>2, <1>3
  <2>2. Formatter # plan[1]
    BY <1>3, <2>1, LayeredNeeds
  <2>3. b \in Needs(Formatter)
    BY <1>3, <2>1, <2>2, LayeredNeeds
  <2>4. Formatter \in Agent /\ (Formatter \in batch \/ stage[Formatter] # "idle")
    BY <1>3, <2>1, PlanNumbers
  <2>5. b \in results
    BY <2>3, <2>4 DEF IInv, NeedsFit
  <2> QED BY <1>2, <1>3, <2>5
<1>5. ASSUME NEW a \in spoke PROVE Planner!TaskRole(plan, Number(a)) # "formatter"
  <2>1. plan[Number(a)] = a /\ a # Formatter
    BY <1>1, <1>3, <1>4, PlanNumbers
  <2> QED BY <2>1 DEF Planner!TaskRole
<1> QED BY <1>1, <1>4, <1>5

LEMMA GatherKeeps ==
  ASSUME IInv, Gather PROVE IInv'
<1>1. /\ phase = "batch" /\ batch # {} /\ Gathered
      /\ results' = results \cup batch /\ batch' = {}
      /\ UNCHANGED <<runtimeVars, plan, measured, published, stored, requests>>
  BY DEF Gather
<1>2. Layered(plan) /\ error = "none" /\ published = {} /\ quoted = {}
      /\ ledger[Parent] \notin Settled
  BY <1>1 DEF IInv, PhaseFits, PublishedFits, QuotedFits, ParentFits, Over
<1>3. IF Broken THEN error' = "child" /\ phase' = "closing" /\ Fallback(results')
      ELSE error' = error /\ quoted' = quoted /\
           phase' = IF Children \subseteq results' THEN "synthesis" ELSE "batch"
  BY DEF Gather
<1>12. QuotedFits'
  <2>1. CASE ~Broken
    BY <1>2, <1>3, <2>1 DEF QuotedFits
  <2>2. CASE Broken
    <3>1. \A a \in quoted' : a \in results' \ {Formatter} /\ outcome[a] = "completed"
      BY <1>1, <1>3, <2>2, FallbackIsPlain
    <3> QED BY <1>1, <1>3, <2>2, <3>1 DEF QuotedFits, runtimeVars, runs
  <2> QED BY <2>1, <2>2
<1>4. OrchestrationShapes'
  <2>1. OrchestrationShapes /\ results' \subseteq Agent
    BY <1>1, ShapesByParts DEF IInv, OrchestrationShapes
  <2>2. quoted' \subseteq Agent
    BY <1>12, <2>1 DEF QuotedFits
  <2> QED BY <1>1, <1>3, <2>1, <2>2 DEF OrchestrationShapes, Errors, Phases
<1>5. RunsAreQuiet /\ UNCHANGED <<stage, outcome, ledger, lostRow>>
  BY <1>1, StillRuntime DEF runtimeVars, runs, truth
<1>6. Children' = Children /\ \A a : Needs(a)' = Needs(a)
  BY <1>1, PlanStays
<1>7. PhaseFits'
  BY <1>1, <1>2, <1>3, <1>6, PlanStays DEF PhaseFits, Over
<1>8. ResultsFit'
  <2>1. batch \cup results \subseteq Children /\ \A a \in results : stage[a] = "ended" /\ outcome[a] = "completed"
    BY <1>2 DEF IInv, ResultsFit
  <2>2. \A a \in batch : stage[a] = "ended"
    BY <1>1 DEF Gathered
  <2>3. error' # "child" => \A a \in batch : outcome[a] = "completed"
    BY <1>3 DEF Broken
  <2> QED BY <1>1, <1>5, <1>6, <2>1, <2>2, <2>3 DEF ResultsFit
<1>9. NeedsFit'
  BY <1>1, <1>5, <1>6 DEF IInv, NeedsFit
<1>10. ParentFits'
  <2>1. stored = "none"
    BY <1>1 DEF IInv, ParentFits
  <2> QED BY <1>1, <1>2, <1>3, <1>5, <2>1 DEF ParentFits, Settled, Over
<1>11. PublishedFits'
  BY <1>1, <1>2 DEF PublishedFits
<1> QED BY <1>4, <1>5, <1>7, <1>8, <1>9, <1>10, <1>11, <1>12, QuietRunsFit DEF IInv

\* The lines of an answer and of the evidence summary have forms and styles.
LEMMA AnswersTyped ==
  /\ \A answer \in SUBSET Answer : \A line \in answer :
       line.form \in Validator!Forms /\ line.style \in Validator!Styles
  /\ \A s : \A line \in Validator!Summary(s) :
       line.form \in Validator!Forms /\ line.style \in Validator!Styles
<1>1. \A answer \in SUBSET Answer : \A line \in answer :
        line.form \in Validator!Forms /\ line.style \in Validator!Styles
  BY AgentOrchestrationAssumption DEF AgentOrchestrationAssumption
<1>2. \A s : \A line \in Validator!Summary(s) :
        line.form \in {"percent", "plain"} /\ line.style = "observation"
  BY DEF Validator!Summary
<1>3. {"percent", "plain"} \subseteq Validator!Forms /\ "observation" \in Validator!Styles
  BY DEF Validator!Forms, Validator!Styles
<1> QED BY <1>1, <1>2, <1>3

\* An answer that is checked is published, rejected, or given up for an error.
Checks ==
  /\ phase \in {"synthesis", "repair"} /\ phase' \in {"repair", "closing"}
  /\ UNCHANGED <<runtimeVars, plan, batch, results, measured, quoted, stored, requests>>
  /\ \/ /\ Validator!Passed(published', Evidence) /\ phase' = "closing" /\ error' = error
        /\ \A line \in published' : line.form \in Validator!Forms /\ line.style \in Validator!Styles
     \/ UNCHANGED <<published, error>> /\ phase' = "repair"
     \/ error' = "synthesis" /\ phase' = "closing" /\ UNCHANGED published

LEMMA SynthesisChecks ==
  ASSUME Synthesize \/ Repair PROVE Checks
<1>1. CASE Synthesize
  <2>1. CASE error' = "synthesis" /\ phase' = "closing" /\ UNCHANGED published
    BY <1>1, <2>1 DEF Synthesize, Checks
  <2>2. CASE \E answer \in SUBSET Answer :
               IF Validator!Passed(answer, Evidence)
               THEN published' = answer /\ phase' = "closing" /\ UNCHANGED error
               ELSE phase' = "repair" /\ UNCHANGED <<published, error>>
    BY <1>1, <2>2, AnswersTyped DEF Synthesize, Checks
  <2> QED BY <1>1, <2>1, <2>2 DEF Synthesize
<1>2. CASE Repair
  <2>1. CASE error' = "synthesis" /\ UNCHANGED published
    BY <1>2, <2>1 DEF Repair, Checks
  <2>2. CASE \E lines \in SUBSET Answer, summary \in {{}, Validator!Summary(Evidence)} :
               LET answer == lines \cup summary IN
               IF Validator!Passed(answer, Evidence)
               THEN published' = answer /\ UNCHANGED error
               ELSE error' = "synthesis" /\ UNCHANGED published
    <3>1. PICK lines \in SUBSET Answer, summary \in {{}, Validator!Summary(Evidence)} :
            IF Validator!Passed(lines \cup summary, Evidence)
            THEN published' = lines \cup summary /\ UNCHANGED error
            ELSE error' = "synthesis" /\ UNCHANGED published
      BY <2>2
    <3>2. \A line \in lines \cup summary :
            line.form \in Validator!Forms /\ line.style \in Validator!Styles
      BY AnswersTyped
    <3> QED BY <1>2, <3>1, <3>2 DEF Repair, Checks
  <2> QED BY <1>2, <2>1, <2>2 DEF Repair
<1> QED BY <1>1, <1>2

LEMMA ChecksKeep ==
  ASSUME IInv, Checks PROVE IInv'
<1>1. /\ phase \in {"synthesis", "repair"} /\ phase' \in {"repair", "closing"}
      /\ UNCHANGED <<runtimeVars, plan, batch, results, measured, quoted, stored, requests>>
  BY DEF Checks
<1>2. /\ Layered(plan) /\ error = "none" /\ published = {} /\ ledger[Parent] \notin Settled
      /\ batch = {} /\ Children \subseteq results /\ stored = "none" /\ quoted = {}
  BY <1>1 DEF IInv, PhaseFits, PublishedFits, QuotedFits, ParentFits, Over
<1>3. error' \in {"none", "synthesis"} /\ (error' # "none" => phase' = "closing" /\ published' = {})
  BY <1>2 DEF Checks
<1>4. OrchestrationShapes'
  <2>1. OrchestrationShapes
    BY ShapesByParts DEF IInv
  <2>2. \A line \in published' : line.form \in Validator!Forms /\ line.style \in Validator!Styles
    BY <1>2 DEF Checks
  <2> QED BY <1>1, <1>3, <2>1, <2>2 DEF OrchestrationShapes, Errors, Phases
<1>5. RunsAreQuiet /\ UNCHANGED <<stage, outcome, ledger, lostRow>>
  BY <1>1, StillRuntime DEF runtimeVars, runs, truth
<1>6. Children' = Children /\ (\A a : Needs(a)' = Needs(a)) /\ Layered(plan)' /\ Evidence' = Evidence
  BY <1>1, <1>2, PlanStays, EvidenceStays
<1>7. PhaseFits'
  BY <1>1, <1>2, <1>3, <1>6 DEF PhaseFits, Over, Checks
<1>8. ResultsFit'
  BY <1>1, <1>2, <1>3, <1>5, <1>6 DEF IInv, ResultsFit
<1>9. NeedsFit'
  BY <1>1, <1>5, <1>6 DEF IInv, NeedsFit
<1>10. ParentFits'
  BY <1>1, <1>2, <1>5, <1>6 DEF ParentFits, Settled, Over
<1>11. PublishedFits'
  <2> SUFFICES ASSUME published' # {}
               PROVE  /\ phase' \notin {"idle", "batch", "synthesis", "repair"}
                      /\ error' = "none" /\ Children \subseteq results
                      /\ Validator!Passed(published', Evidence)
    BY <1>1, <1>6 DEF PublishedFits
  <2> QED BY <1>2 DEF Checks
<1>12. QuotedFits'
  BY <1>1, <1>2 DEF QuotedFits
<1> QED BY <1>4, <1>5, <1>7, <1>8, <1>9, <1>10, <1>11, <1>12, QuietRunsFit DEF IInv

LEMMA FinishParentKeeps ==
  ASSUME IInv, FinishParent PROVE IInv'
<1>1. /\ phase = "closing" /\ phase' = "saving" /\ WriteRow(Parent, RunStatus)
      /\ UNCHANGED <<process, runs, active, beat, lostBeat, plan, batch, results, error,
                     measured, published, quoted, stored, requests>>
  BY DEF FinishParent
<1>2. /\ Layered(plan) /\ ledger[Parent] \notin Settled /\ batch = {} /\ stored = "none"
      /\ error = "none" => Children \subseteq results
  BY <1>1 DEF IInv, PhaseFits, ParentFits, Over
<1>3. RunStatus \in {"completed", "failed"} /\ (RunStatus = "completed" => error = "none")
      /\ RunStatus' = RunStatus
  BY <1>1 DEF RunStatus
<1>4. Parent \in Row /\ Task \subseteq Row \ {Parent} /\ RunStatus \in Settled
  BY <1>3, WhoIsWho DEF Settled
<1>5. /\ ledger' \in [Row -> LedgerStatus \cup {"none"}] /\ lostRow' \subseteq Row
      /\ \A v \in Row \ {Parent} : ledger'[v] = ledger[v] /\ (v \in lostRow' <=> v \in lostRow)
      /\ Parent \notin lostRow' => ledger'[Parent] = RunStatus
  BY <1>1, <1>4, RowIsWritten DEF IInv
<1>6. ledger'[Parent] = ledger[Parent] \/ ledger'[Parent] = RunStatus
  BY <1>1, <1>4 DEF WriteRow, IInv, Shapes
<1>7. RunsAreQuiet /\ UNCHANGED <<stage, outcome>>
  BY <1>1, <1>4, <1>5 DEF RunsAreQuiet, runs
<1>8. OrchestrationShapes'
  <2>1. OrchestrationShapes
    BY ShapesByParts DEF IInv
  <2> QED BY <1>1, <2>1 DEF OrchestrationShapes, Phases
<1>9. Children' = Children /\ (\A a : Needs(a)' = Needs(a)) /\ Layered(plan)' /\ Evidence' = Evidence
  BY <1>1, <1>2, PlanStays, EvidenceStays
<1>10. PhaseFits'
  BY <1>1, <1>2, <1>9 DEF PhaseFits, Over, IInv
<1>11. ResultsFit'
  BY <1>1, <1>7, <1>9 DEF IInv, ResultsFit
<1>12. NeedsFit'
  BY <1>1, <1>7, <1>9 DEF IInv, NeedsFit
<1>13. ParentFits'
  <2>1. ledger'[Parent] \in Settled => phase' \in Over \cup {"dead"}
    BY <1>1 DEF Over
  <2>2. ledger'[Parent] = "completed" => error' = "none" /\ Children' \subseteq results'
    BY <1>1, <1>2, <1>3, <1>6, <1>9 DEF Settled
  <2>3. Parent \notin lostRow' => ledger'[Parent] = RunStatus'
    BY <1>3, <1>5
  <2>4. stored' = "none"
    BY <1>1, <1>2
  <2> QED BY <2>1, <2>2, <2>3, <2>4 DEF ParentFits
<1>14. PublishedFits'
  BY <1>1, <1>9 DEF PublishedFits, IInv
<1>15. QuotedFits'
  BY <1>1, <1>7 DEF QuotedFits, IInv
<1> QED BY <1>7, <1>8, <1>10, <1>11, <1>12, <1>13, <1>14, <1>15, QuietRunsFit DEF IInv

LEMMA SaveKeeps ==
  ASSUME IInv, Save PROVE IInv'
<1>1. /\ phase = "saving"
      /\ UNCHANGED <<runtimeVars, plan, batch, results, error, measured, published, quoted, requests>>
      /\ \/ stored' = RunStatus /\ phase' = "answered"
         \/ phase' = "refused" /\ stored' = stored
  BY DEF Save
<1>2. Layered(plan) /\ stored = "none" /\ batch = {}
  BY <1>1 DEF IInv, PhaseFits, ParentFits
<1>3. RunStatus \in {"completed", "failed"} /\ RunStatus' = RunStatus
  BY <1>1 DEF RunStatus
<1>4. RunsAreQuiet /\ UNCHANGED <<stage, outcome, ledger, lostRow>>
  BY <1>1, StillRuntime DEF runtimeVars, runs, truth
<1>5. OrchestrationShapes'
  <2>1. OrchestrationShapes
    BY ShapesByParts DEF IInv
  <2> QED BY <1>1, <1>2, <1>3, <2>1 DEF OrchestrationShapes, Phases
<1>6. Children' = Children /\ (\A a : Needs(a)' = Needs(a)) /\ Layered(plan)' /\ Evidence' = Evidence
  BY <1>1, <1>2, PlanStays, EvidenceStays
<1>7. PhaseFits'
  BY <1>1, <1>2, <1>6 DEF PhaseFits, Over, IInv
<1>8. ResultsFit'
  BY <1>1, <1>4, <1>6 DEF IInv, ResultsFit
<1>9. NeedsFit'
  BY <1>1, <1>4, <1>6 DEF IInv, NeedsFit
<1>10. ParentFits'
  BY <1>1, <1>2, <1>3, <1>4, <1>6 DEF IInv, ParentFits, Over
<1>11. PublishedFits'
  BY <1>1, <1>6 DEF PublishedFits, IInv
<1>12. QuotedFits'
  BY <1>1, <1>4 DEF QuotedFits, IInv
<1> QED BY <1>4, <1>5, <1>7, <1>8, <1>9, <1>10, <1>11, <1>12, QuietRunsFit DEF IInv

\* Steps in which only heartbeats or the answers to clients change.
LEMMA OthersStay ==
  ASSUME IInv, UNCHANGED <<orchestration, runs, ledger, lostRow, measured>>
  PROVE  /\ OrchestrationShapes' /\ DOMAIN measured' = Agent
         /\ PhaseFits' /\ ResultsFit' /\ NeedsFit' /\ ParentFits' /\ PublishedFits' /\ QuotedFits'
         /\ \A a \in Agent : ReadingFits(a)'
         /\ \A t \in Task : TaskFits(t)'
<1>1. /\ UNCHANGED <<phase, plan, batch, results, error, published, quoted, stored>>
      /\ UNCHANGED <<agentOf, plain, calls, found, stage, outcome, ledger, lostRow, measured>>
  BY DEF orchestration, runs
<1>2. Children' = Children /\ (\A a : Needs(a)' = Needs(a)) /\ (Layered(plan)' <=> Layered(plan))
      /\ Evidence' = Evidence
  BY <1>1, PlanStays, EvidenceStays
<1>3. OrchestrationShapes' /\ DOMAIN measured' = Agent
  BY <1>1, ShapesByParts DEF IInv, OrchestrationShapes
<1>4. PhaseFits' /\ ResultsFit'
  BY <1>1, <1>2 DEF IInv, PhaseFits, ResultsFit
<1>5. NeedsFit'
  BY <1>1, <1>2 DEF IInv, NeedsFit
<1>6. ParentFits' /\ PublishedFits' /\ QuotedFits'
  BY <1>1, <1>2 DEF IInv, ParentFits, PublishedFits, QuotedFits, RunStatus
<1>7. \A a \in Agent : ReadingFits(a)'
  BY <1>1 DEF IInv, ReadingFits
<1>8. \A t \in Task : TaskFits(t)'
  BY <1>1 DEF IInv, TaskFits
<1> QED BY <1>3, <1>4, <1>5, <1>6, <1>7, <1>8

LEMMA AnsweringKeeps ==
  ASSUME IInv, NEW d \in Direct,
         Show(d) \/ Keep(d) \/ Fail(d) \/ (Disconnect(d) /\ UNCHANGED runtimeVars)
  PROVE  IInv'
<1>1. RunShapes /\ RequestShapes /\ Beating
  BY ShapesByParts DEF IInv, Beating
<1>2. UNCHANGED <<runtimeVars, orchestration, measured, via>>
  BY DEF Show, Keep, Fail, Disconnect
<1>3. RequestShapes'
  <2>1. CASE Show(d)
    BY <1>1, <2>1, ServedTyped DEF Show, Servings
  <2>2. CASE Keep(d)
    BY <1>1, <2>2, ServedTyped DEF Keep, Servings
  <2>3. CASE Fail(d)
    BY <1>1, <2>3, ServedTyped DEF Fail, Servings
  <2>4. CASE Disconnect(d)
    BY <1>1, <2>4, ServedTyped DEF Disconnect, Servings
  <2> QED BY <2>1, <2>2, <2>3, <2>4
<1>4. /\ UNCHANGED <<process, agentOf, plain, calls, found, stage, outcome>>
      /\ UNCHANGED <<active, ledger, lostRow, beat, lostBeat>>
  BY <1>2 DEF runtimeVars, runs, truth
<1>5. RunShapes' /\ \A b \in Agent : BeatFits(b)'
  BY <1>1, <1>4, QuietKeepsBeats DEF RunShapes
<1>6. UNCHANGED <<orchestration, runs, ledger, lostRow, measured>>
  BY <1>2, <1>4 DEF runs
<1> QED BY <1>3, <1>5, <1>6, OthersStay, ShapesByPartsNext DEF IInv

LEMMA PulseKeeps ==
  ASSUME IInv, Pulse PROVE IInv'
<1>1. Interval /\ UNCHANGED <<orchestration, measured, requests>>
  BY DEF Pulse
<1>2. UNCHANGED <<process, runs, active, ledger, lostRow>>
  BY <1>1 DEF Interval
<1>3. /\ \A b \in Agent : BeatFits(b)'
      /\ beat' \in [Agent -> Beats] /\ lostBeat' \subseteq Agent
  BY <1>1, IntervalKeepsBeats DEF IInv, Beating
<1>4. RunShapes /\ RequestShapes
  BY ShapesByParts DEF IInv
<1>5. RunShapes' /\ RequestShapes'
  BY <1>1, <1>2, <1>3, <1>4 DEF RunShapes, RequestShapes, runs, requests
<1> QED BY <1>1, <1>2, <1>3, <1>5, OthersStay, ShapesByPartsNext DEF IInv

LEMMA CrashKeeps ==
  ASSUME IInv, Crash PROVE IInv'
<1>1. /\ RuntimeCrash /\ batch' = {}
      /\ phase' = IF phase \in {"idle", "answered", "refused"} THEN phase ELSE "dead"
      /\ UNCHANGED <<plan, results, error, measured, published, quoted, stored, via, kept>>
      /\ UNCHANGED <<agentOf, plain, found, outcome, ledger, lostRow, beat, lostBeat>>
      /\ stage' = [t \in Task |-> IF stage[t] \in {"idle", "ended"} THEN stage[t] ELSE "dead"]
      /\ calls' = [t \in Task |-> <<>>]
  BY DEF Crash, RuntimeCrash, truth
<1>2. RunShapes /\ RequestShapes /\ OrchestrationShapes /\ DOMAIN measured = Agent
  BY ShapesByParts DEF IInv
<1>3. /\ \A b \in Agent : BeatFits(b)'
      /\ process' \in 1 .. MaxProcess /\ active' \in [Agent -> Seq(Task)]
  BY <1>1, CrashKeepsBeats DEF IInv, Beating
<1>4. stage' \in [Task -> Stages] /\ calls' \in [Task -> Seq(Calls)]
  BY <1>1, <1>2 DEF RunShapes, Stages
<1>5. Shapes'
  <2>1. RunShapes'
    BY <1>1, <1>2, <1>3, <1>4 DEF RunShapes
  <2>2. served' \in [Direct -> Servings]
    BY <1>2 DEF Crash, RequestShapes, Servings
  <2>3. RequestShapes'
    BY <1>1, <1>2, <2>2 DEF RequestShapes
  <2>4. OrchestrationShapes'
    BY <1>1, <1>2 DEF OrchestrationShapes, Phases
  <2> QED BY <1>1, <1>2, <2>1, <2>3, <2>4, ShapesByPartsNext
<1>6. \A t \in Task : /\ stage[t] = "idle" <=> stage'[t] = "idle"
                      /\ stage[t] = "ended" <=> stage'[t] = "ended"
                      /\ stage'[t] \in {"idle", "ended", "dead"}
  BY <1>1
<1>7. \A t \in Task : TaskFits(t)'
  BY <1>1, <1>6 DEF IInv, TaskFits
<1>8. \A a \in Agent : ReadingFits(a)'
  BY <1>1, <1>6, WhoIsWho DEF IInv, ReadingFits
<1>9. Children' = Children /\ (\A a : Needs(a)' = Needs(a)) /\ (Layered(plan)' <=> Layered(plan))
      /\ Evidence' = Evidence
  BY <1>1, PlanStays, EvidenceStays
<1>10. PhaseFits'
  BY <1>1, <1>9 DEF IInv, PhaseFits, Over
<1>11. ResultsFit'
  <2>1. \A a \in results : stage'[a] = "ended"
    BY <1>2, <1>6, WhoIsWho DEF IInv, ResultsFit, OrchestrationShapes
  <2> QED BY <1>1, <1>9, <2>1 DEF IInv, ResultsFit
<1>12. NeedsFit'
  <2>1. \A a \in Agent : a \in batch' \/ stage'[a] # "idle" => a \in batch \/ stage[a] # "idle"
    BY <1>1, <1>6, WhoIsWho
  <2> QED BY <1>1, <1>9, <2>1 DEF IInv, NeedsFit
<1>13. ParentFits'
  BY <1>1, <1>9 DEF IInv, ParentFits, Over, RunStatus
<1>14. PublishedFits'
  BY <1>1, <1>9 DEF IInv, PublishedFits
<1>15. QuotedFits'
  BY <1>1 DEF IInv, QuotedFits
<1> QED BY <1>3, <1>5, <1>7, <1>8, <1>10, <1>11, <1>12, <1>13, <1>14, <1>15 DEF IInv

-------------------------------------------------------------------------------
(* The invariant holds, and what follows from it.                          *)

LEMMA InitFits == Init => IInv
<1> SUFFICES ASSUME Init PROVE IInv
  OBVIOUS
<1> USE DEF Init, RuntimeInit
<1>1. RunShapes
  <2>1. beat \in [Agent -> Beats]
    <3>1. NoBeat \in Beats
      BY WhoIsWho DEF NoBeat, Beats
    <3> QED BY <3>1
  <2>2. ledger \in [Row -> LedgerStatus \cup {"none"}] /\ active \in [Agent -> Seq(Task)]
        /\ calls \in [Task -> Seq(Calls)] /\ process \in 1 .. MaxProcess
    BY WhoIsWho
  <2> QED BY <2>1, <2>2 DEF RunShapes, Stages, Outcomes
<1>2. OrchestrationShapes /\ RequestShapes /\ DOMAIN measured = Agent
  BY DEF OrchestrationShapes, RequestShapes, Phases, Errors, Vias, Servings
<1>3. \A a \in Agent : BeatFits(a) /\ ReadingFits(a)
  BY WhoIsWho DEF BeatFits, ReadingFits, NoBeat
<1>4. \A t \in Task : TaskFits(t)
  BY WhoIsWho DEF TaskFits, Open, Settled
<1>5. Children = {}
  BY DEF Children
<1>6. ledger[Parent] = "none" /\ Parent \notin lostRow
  BY WhoIsWho
<1>7. PhaseFits
  BY <1>6 DEF PhaseFits, Over
<1>8. ResultsFit /\ NeedsFit
  BY WhoIsWho DEF ResultsFit, NeedsFit
<1>9. ParentFits /\ PublishedFits /\ QuotedFits
  BY <1>6 DEF ParentFits, PublishedFits, QuotedFits, Over, Settled
<1> QED BY <1>1, <1>2, <1>3, <1>4, <1>7, <1>8, <1>9, ShapesByParts DEF IInv

LEMMA NextKeeps ==
  ASSUME IInv, [Next]_vars PROVE IInv'
<1>1. CASE UNCHANGED vars
  <2>1. UNCHANGED <<process, agentOf, plain, calls, found, stage, outcome, active, ledger,
                    lostRow, beat, lostBeat, phase, plan, batch, results, error, published,
                    quoted, stored, measured, via, served, kept>>
    BY <1>1 DEF vars, runtimeVars, runs, truth, orchestration, requests
  <2>2. RunShapes /\ RequestShapes /\ Beating
    BY ShapesByParts DEF IInv, Beating
  <2>3. RunShapes' /\ RequestShapes' /\ \A b \in Agent : BeatFits(b)'
    BY <2>1, <2>2, QuietKeepsBeats DEF RunShapes, RequestShapes
  <2>4. UNCHANGED <<orchestration, runs, ledger, lostRow, measured>>
    BY <2>1 DEF orchestration, runs
  <2> QED BY <2>3, <2>4, OthersStay, ShapesByPartsNext DEF IInv
<1>2. CASE Request
  BY <1>2, RequestKeeps
<1>3. CASE Orchestrates
  BY <1>3, DispatchKeeps, GatherKeeps, SynthesisChecks, ChecksKeep, FinishParentKeeps, SaveKeeps
  DEF Orchestrates
<1>4. CASE Pulse
  BY <1>4, PulseKeeps
<1>5. CASE Crash
  BY <1>5, CrashKeeps
<1>6. CASE \E a \in Agent : StartChild(a) \/ ChildReturns(a)
  BY <1>6, StartChildKeeps, ChildReturnsKeeps
<1>7. CASE \E d \in Direct : Ask(d) \/ Serves(d) \/ Disconnect(d)
  <2>1. PICK d \in Direct : Ask(d) \/ Serves(d) \/ Disconnect(d)
    BY <1>7
  <2>2. CASE Ask(d)
    BY <2>2, AskKeeps
  <2>3. CASE Serves(d)
    BY <2>3, DirectRunKeeps, AnsweringKeeps DEF Serves
  <2>4. CASE Disconnect(d)
    <3>1. Cancelled(d) \/ UNCHANGED runtimeVars
      BY <2>4 DEF Disconnect
    <3> QED BY <2>4, <3>1, DirectRunKeeps, AnsweringKeeps
  <2> QED BY <2>1, <2>2, <2>3, <2>4
<1>8. CASE \E t \in Task : Leaves(t)
  BY <1>8, LeavesKeeps
<1> QED BY <1>1, <1>2, <1>3, <1>4, <1>5, <1>6, <1>7, <1>8 DEF Next

\* Plans, rows, heartbeats and results fit together in every state of the program.
THEOREM OrchestrationInvariant == Spec => []IInv
<1>1. Init => IInv
  BY InitFits
<1>2. IInv /\ [Next]_vars => IInv'
  BY NextKeeps
<1> QED BY <1>1, <1>2, PTL DEF Spec

LEMMA BeatsShow == IInv => BusyIsVisible
<1> SUFFICES ASSUME IInv, NEW a \in Agent, a \notin lostBeat
             PROVE  /\ active[a] # <<>> => RuntimeStatus(a) = "busy"
                    /\ active[a] = <<>> /\ RuntimeStatus(a) # "available" => beat[a].process # process
  BY DEF BusyIsVisible
<1>1. BeatFits(a) /\ beat[a] \in Beats
  BY DEF IInv, Shapes
<1>2. ASSUME active[a] # <<>> PROVE RuntimeStatus(a) = "busy"
  BY <1>1, <1>2, WhoIsWho DEF BeatFits, RuntimeStatus
<1>3. ASSUME active[a] = <<>>, RuntimeStatus(a) # "available" PROVE beat[a].process # process
  BY <1>1, <1>3 DEF BeatFits, RuntimeStatus, ReadyState, Beats
<1> QED BY <1>2, <1>3

\* As long as its heartbeats are written, an agent with a task is seen busy, however its
\* tasks overlap and end, and one that is seen busy or offline without a task was left so
\* by a process that died (runtime_instrumentation.py, truth_service.py).
THEOREM BusyAgentsAreAlwaysVisible == Spec => []BusyIsVisible
BY OrchestrationInvariant, BeatsShow, PTL

LEMMA PlansExecute == IInv => PlansAreExecutable
<1> SUFFICES ASSUME IInv PROVE PlansAreExecutable
  OBVIOUS
<1>1. ASSUME NEW i \in DOMAIN plan, NEW j \in DOMAIN plan, stage[plan[i]] # "idle", j # i,
             j = 1 \/ plan[i] = Formatter
      PROVE  stage[plan[j]] = "ended" /\ outcome[plan[j]] = "completed"
  <2>1. Layered(plan)
    <3>1. plan # <<>>
      BY <1>1, EmptySeq
    <3> QED BY <3>1 DEF IInv, PhaseFits
  <2>2. /\ plan[i] \in Children /\ plan[i] \in Agent /\ plan[j] \in Children
        /\ plan[i] # plan[j] /\ 1 \in DOMAIN plan
    BY <1>1, <2>1, PlanNumbers DEF Layered
  <2>3. plan[i] # plan[1]
    BY <1>1, <2>1, <2>2 DEF Layered
  <2>4. plan[j] \in Needs(plan[i])
    BY <1>1, <2>1, <2>2, <2>3, LayeredNeeds
  <2>5. plan[j] \in results /\ outcome[plan[j]] = "completed"
    BY <1>1, <2>2, <2>4 DEF IInv, NeedsFit
  <2> QED BY <2>5 DEF IInv, ResultsFit
<1>2. error # "deadlock"
  BY DEF IInv, PhaseFits
<1> QED BY <1>1, <1>2 DEF PlansAreExecutable

\* Whatever the objective, a child runs only on the finished work it depends on, and the
\* tasks of a plan never wait for each other (planner.py, executor.py).
THEOREM PlansAreAlwaysExecutable == Spec => []PlansAreExecutable
BY OrchestrationInvariant, PlansExecute, PTL

LEMMA ChildrenAreDone ==
  ASSUME IInv, error = "none", Children \subseteq results
  PROVE  \A a \in Children : a \in results /\ outcome[a] = "completed"
BY DEF IInv, ResultsFit

LEMMA RowsTell == IInv => LedgerIsTrue
<1> SUFFICES ASSUME IInv PROVE LedgerIsTrue
  OBVIOUS
<1>1. TypeOK
  <2>1. RuntimeTypeOK
    BY DEF IInv, Shapes, RuntimeTypeOK
  <2> QED BY <2>1 DEF IInv, Shapes, TypeOK
<1>2. OrchestrationIsRecorded
  <2>1. ledger[Parent] = "completed" => \A a \in Children : outcome[a] = "completed"
    BY ChildrenAreDone DEF IInv, ParentFits
  <2>2. RunStatus \in {"completed", "failed"}
    BY DEF RunStatus
  <2>3. ASSUME Parent \notin lostRow, ledger[Parent] \in Open
        PROVE  phase \notin {"idle", "saving", "answered", "refused"}
    BY <2>2, <2>3 DEF IInv, PhaseFits, ParentFits, Over, Open
  <2>4. ASSUME Parent \notin lostRow, stored # "none" PROVE ledger[Parent] = stored
    BY <2>4 DEF IInv, ParentFits, Over
  <2> QED BY <2>1, <2>3, <2>4 DEF OrchestrationIsRecorded
<1>3. RunsAreRecorded
  BY DEF IInv, TaskFits, RunsAreRecorded
<1> QED BY <1>1, <1>2, <1>3 DEF LedgerIsTrue

\* The ledger and the stored runs tell what happened to single runs and to orchestrations,
\* through crashes and lost writes (runtime_instrumentation.py, orchestration/service.py).
THEOREM LedgerIsAlwaysTrue == Spec => []LedgerIsTrue
BY OrchestrationInvariant, RowsTell, PTL

\* A set of places in a plan has a last one.
LEMMA LastPlace ==
  ASSUME NEW I \in SUBSET DOMAIN plan, I # {}, plan \in Seq(Agent)
  PROVE  \E x \in I : \A y \in I : y <= x
<1> DEFINE n == Len(plan)
           T == {n - x : x \in I}
<1>1. n \in Nat /\ \A x \in I : x \in 1 .. n
  BY LenProperties
<1>2. T \in SUBSET Nat /\ T # {}
  BY <1>1
<1>3. PICK z \in T : \A y \in T : z <= y
  BY <1>2, LeastNumber
<1>4. PICK x \in I : z = n - x
  BY <1>3
<1>5. ASSUME NEW y \in I PROVE y <= x
  <2>1. n - x <= n - y
    BY <1>3, <1>4
  <2> QED BY <1>1, <2>1
<1> QED BY <1>5

LEMMA SynthesesAreSupported ==
  ASSUME IInv, published # {}
  PROVE  /\ error = "none" /\ quoted = {} /\ \A a \in Children : outcome[a] = "completed"
         /\ \A line \in published, m \in Validator!Metrics :
              LET read == {i \in DOMAIN plan : measured[plan[i]].percent[m] # NoValue}
                  last == CHOOSE i \in read : \A j \in read : j <= i
              IN  line.form = "percent" /\ line.style = "observation"
                  /\ m \in line.about /\ read # {} =>
                    \A v \in line.values :
                      Validator!Distance(v, measured[plan[last]].percent[m]) <= 1
<1>1. /\ error = "none" /\ Children \subseteq results /\ Validator!Passed(published, Evidence)
      /\ Layered(plan) /\ quoted = {}
  BY DEF IInv, PublishedFits, QuotedFits, PhaseFits
<1>2. \A a \in Children : a \in results /\ outcome[a] = "completed"
  BY <1>1, ChildrenAreDone
<1>3. ASSUME NEW line \in published, NEW m \in Validator!Metrics,
             line.form = "percent", line.style = "observation", m \in line.about,
             {i \in DOMAIN plan : measured[plan[i]].percent[m] # NoValue} # {},
             NEW v \in line.values
      PROVE  LET read == {i \in DOMAIN plan : measured[plan[i]].percent[m] # NoValue}
                 last == CHOOSE i \in read : \A j \in read : j <= i
             IN  Validator!Distance(v, measured[plan[last]].percent[m]) <= 1
  <2> DEFINE read == {i \in DOMAIN plan : measured[plan[i]].percent[m] # NoValue}
             readings == {i \in DOMAIN plan : Kind[plan[i]] = "status"}
             last == CHOOSE i \in read : \A j \in read : j <= i
  <2>1. \A i \in DOMAIN plan : plan[i] \in Agent /\ plan[i] \in results
                               /\ outcome[plan[i]] = "completed" /\ ReadingFits(plan[i])
    BY <1>1, <1>2, PlanNumbers DEF IInv
  <2>2. \A i \in readings : measured[plan[i]] \in Reading
    BY <2>1 DEF ReadingFits
  <2>3. read \subseteq readings
    <3>1. Validator!Unknown.percent[m] = NoValue
      BY DEF Validator!Unknown
    <3> QED BY <2>1, <3>1 DEF ReadingFits
  <2>4. readings \subseteq read
    <3>1. PICK i \in read : TRUE
      BY <1>3
    <3>2. measured[plan[i]] \in Reading /\ measured[plan[i]].percent[m] # NoValue
      BY <2>2, <2>3, <3>1
    <3>3. \A j \in readings : measured[plan[j]].percent[m] # NoValue
      BY <2>2, <3>2, ReadingAssumption DEF ReadingAssumption
    <3> QED BY <3>3
  <2>5. read = readings
    BY <2>3, <2>4
  <2>6. last \in read
    <3>1. \E i \in read : \A j \in read : j <= i
      BY <1>1, <1>3, LastPlace DEF Layered
    <3> HIDE DEF read
    <3> QED BY <3>1
  <2>7. {i \in DOMAIN ToolSteps : ToolSteps[i].tool = "status"} = readings
    BY <2>1, WhoIsWho DEF ToolSteps
  <2>8. ToolSteps[last].facts = measured[plan[last]]
    BY <2>1, <2>5, <2>6 DEF ToolSteps
  <2>9. Evidence.facts = Validator!SystemFacts(ToolSteps)
    BY DEF Evidence, Validator!Snapshot
  <2>10. Validator!SystemFacts(ToolSteps) = ToolSteps[last].facts
    <3> HIDE DEF read, readings
    <3>1. readings # {} /\ last = CHOOSE i \in readings : \A j \in readings : j <= i
      BY <2>5, <2>6
    <3> HIDE DEF last
    <3> QED BY <2>7, <3>1 DEF Validator!SystemFacts
  <2>11. Evidence.facts.percent[m] = measured[plan[last]].percent[m]
         /\ Evidence.facts.percent[m] # NoValue
    <3>1. measured[plan[last]].percent[m] # NoValue
      BY <2>6
    <3> QED BY <2>8, <2>9, <2>10, <3>1
  <2> HIDE DEF last, read, readings
  <2>12. Validator!ContradictoryPercentages(published, Evidence) = {}
    BY <1>1 DEF Validator!Passed, Validator!Issues
  <2>13. Validator!Agrees(v, Evidence.facts.percent[m])
    <3>1. ~Validator!NonObservation(line)
      BY <1>3 DEF Validator!NonObservation
    <3> QED BY <1>3, <2>11, <2>12, <3>1 DEF Validator!ContradictoryPercentages
  <2> QED BY <2>11, <2>13 DEF Validator!Agrees, last, read
<1> QED BY <1>1, <1>2, <1>3

LEMMA AnswersAreSupported == IInv => PublishedIsSupported
<1> SUFFICES ASSUME IInv PROVE PublishedIsSupported
  OBVIOUS
<1>1. \A a \in quoted : outcome[a] = "completed" /\ a \in results \ {Formatter}
  BY DEF IInv, QuotedFits
<1>2. ASSUME quoted # {}
      PROVE  error # "none" /\ "completed" \notin {stored, ledger[Parent]}
  <2>1. error = "child"
    BY <1>2 DEF IInv, QuotedFits
  <2>2. ledger[Parent] # "completed"
    BY <2>1 DEF IInv, ParentFits
  <2>3. stored # "completed"
    BY <2>1 DEF IInv, ParentFits, RunStatus
  <2> QED BY <2>1, <2>2, <2>3
<1>3. ASSUME published # {}
      PROVE  /\ error = "none" /\ quoted = {} /\ \A a \in Children : outcome[a] = "completed"
             /\ \A line \in published, m \in Validator!Metrics :
                  LET read == {i \in DOMAIN plan : measured[plan[i]].percent[m] # NoValue}
                      last == CHOOSE i \in read : \A j \in read : j <= i
                  IN  line.form = "percent" /\ line.style = "observation"
                      /\ m \in line.about /\ read # {} =>
                        \A v \in line.values :
                          Validator!Distance(v, measured[plan[last]].percent[m]) <= 1
  BY <1>3, SynthesesAreSupported
<1> QED BY <1>1, <1>2, <1>3 DEF PublishedIsSupported

\* A synthesized answer is published only when every agent of the plan did its part, and
\* what it observes about a metric is what the tools last measured; the fallback of a run
\* without one holds only what completed children other than the formatter said, and the
\* run is nowhere recorded as completed (executor.py, synthesizer.py, validator.py).
THEOREM PublishedAnswersAreSupported == Spec => []PublishedIsSupported
BY OrchestrationInvariant, AnswersAreSupported, PTL

===============================================================================
