-------------------------- MODULE EvidenceValidator --------------------------
(***************************************************************************)
(* The check of a synthesized answer against the evidence the agents'      *)
(* tools collected (agents/orchestration/validator.py), as operators.      *)
(*                                                                         *)
(* An answer is a set of lines.  What the regular expressions can tell of  *)
(* a line is its form, its style (an observation, or advice by one of the  *)
(* two lists of prefixes), the metrics it names and the numbers in it.     *)
(* Percentages are counted in half points, capacities in half GB.          *)
(***************************************************************************)
EXTENDS Integers, FiniteSets, Sequences

CONSTANT NoValue      \* a measurement the tool did not deliver

Metrics == {"cpu", "memory", "system_disk"}
Sized == {"memory", "system_disk"}
Rates == {"disk_io", "network"}
Styles == {"observation", "imperative", "recommendation", "run"}
Forms == {"percent", "baseline", "rate", "docker_state", "docker_phrase",
          "metadata", "raw_bytes", "plain"}

Unknown == [percent |-> [m \in Metrics |-> NoValue],
            total |-> [m \in Sized |-> NoValue]]

\* The topics a successful tool step inspects.
Topics(tool) ==
  IF tool = "status" THEN {"system", "cpu", "memory", "disk", "uptime", "ollama"}
  ELSE {"knowledge"}

FirstReading(steps) ==
  LET readings == {i \in DOMAIN steps : steps[i].tool = "status"} IN
  IF readings = {} THEN Unknown
  ELSE steps[CHOOSE i \in readings : \A j \in readings : i <= j].facts

\* The reading of the system that counts: the last one, in the order of the tasks.
SystemFacts(steps) ==
  LET readings == {i \in DOMAIN steps : steps[i].tool = "status"} IN
  IF readings = {} THEN Unknown
  ELSE steps[CHOOSE i \in readings : \A j \in readings : j <= i].facts

\* Evidence is what successful tool steps delivered; the steps are given by the
\* numbers of the tasks.
Snapshot(steps) ==
  LET topics == UNION {Topics(steps[i].tool) : i \in DOMAIN steps} IN
  [topics |-> topics,
   unavailable |-> {"docker", "kubernetes"} \ topics,
   facts |-> SystemFacts(steps)]

Distance(v, w) == IF v > w THEN v - w ELSE w - v

\* Within half a percentage point.
Agrees(value, measured) == Distance(value, measured) <= 1

\* Within half a GB or a twentieth of the capacity, whichever is more.
NearCapacity(value, measured) ==
  Distance(value, measured) <= 1 \/ 20 * Distance(value, measured) <= measured

\* _is_non_observation_line, and the shorter list the docker check has.
NonObservation(line) == line.style \in {"imperative", "recommendation"}
DockerAdvice(line) == line.style \in {"imperative", "run"}

\* Every number of the line is compared with every metric the line names.
ContradictoryPercentages(answer, snapshot) ==
  {line \in answer :
     /\ line.form = "percent" /\ ~NonObservation(line)
     /\ \E m \in line.about \cap Metrics :
          /\ snapshot.facts.percent[m] # NoValue
          /\ \E v \in line.values : ~Agrees(v, snapshot.facts.percent[m])}

\* The comparison with another machine is looked for in advice too.
ContradictoryBaselines(answer, snapshot) ==
  {line \in answer :
     /\ line.form = "baseline"
     /\ \E m \in line.about \cap Sized :
          /\ snapshot.facts.total[m] # NoValue
          /\ \E v \in line.values : ~NearCapacity(v, snapshot.facts.total[m])}

UninspectedMeasurements(answer, snapshot) ==
  {line \in answer : /\ line.form = "rate" /\ ~NonObservation(line)
                     /\ (line.about \cap Rates) \ snapshot.topics # {}}

UnsupportedDockerClaims(answer) == {line \in answer : line.form = "docker_phrase"}

DockerStateLines(answer) ==
  {line \in answer : line.form = "docker_state" /\ ~DockerAdvice(line)}

UnsupportedModelMetadata(answer) == {line \in answer : line.form = "metadata"}

UnitIssues(answer) == {line \in answer : line.form = "raw_bytes"}

\* The lines validate_answer reports; every one is an error.
Issues(answer, snapshot) ==
  (IF "docker" \in snapshot.unavailable
   THEN UnsupportedDockerClaims(answer) \cup DockerStateLines(answer) ELSE {})
  \cup ContradictoryPercentages(answer, snapshot)
  \cup ContradictoryBaselines(answer, snapshot)
  \cup UninspectedMeasurements(answer, snapshot)
  \cup UnitIssues(answer)
  \cup UnsupportedModelMetadata(answer)

Passed(answer, snapshot) == Issues(answer, snapshot) = {}

\* The evidence summary the model is told to use exactly: a line per measured
\* metric, and lines without a number for the rest.
Summary(snapshot) ==
  {[form |-> "percent", style |-> "observation", about |-> {m},
    values |-> {snapshot.facts.percent[m]}] :
      m \in {m \in Metrics : snapshot.facts.percent[m] # NoValue}}
  \cup {[form |-> "plain", style |-> "observation",
         about |-> snapshot.topics \cup snapshot.unavailable, values |-> {}]}
==============================================================================
