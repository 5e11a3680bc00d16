--------------------------- MODULE ResearchRetrieval ---------------------------
(***************************************************************************)
(* One research request: a search with fallback queries, a selection of    *)
(* URLs, and for each of them a bounded retrieval -- preflight, DNS,        *)
(* admission, a connection pinned to an admitted address, redirects that   *)
(* are admitted anew -- whose outcome is stored as evidence and as an      *)
(* operations event (gateway/web_search_discovery.py, internet_transport.py, *)
(* tools/internet_research_tools.py).                                       *)
(*                                                                         *)
(* The network answers as it likes: DNS may answer differently each time,  *)
(* a server may redirect anywhere, stay silent, or send without end.       *)
(***************************************************************************)
EXTENDS SourceSelection

CONSTANTS
  Words,           \* the query
  RawResults,      \* what a search may return: sequences of URLs, best first
  Blocked,         \* URLs the preflight refuses (scheme, port, host name)
  Address, Public, \* Address is a set of numbers: their order is the sorted order
  Text,
  MaxUrls, MaxRedirects, MaxRetries, MaxBody,
  Nothing

ASSUME RetrievalAssumption ==
  /\ Blocked \subseteq Url /\ Public \subseteq Address
  /\ Address \subseteq Nat /\ IsFiniteSet(Address)
  /\ MaxUrls \in 1..3 /\ MaxRedirects \in 0..3 /\ MaxRetries \in Nat /\ MaxBody \in Nat
  /\ RawResults \subseteq Seq(Url)

VARIABLES
  phase,      \* "search", "retrieve", or how the request ended
  query,      \* which of the queries is tried
  found,      \* the candidates of the last search
  selected,   \* the URLs to retrieve
  wanted,     \* cancellation was requested
  job,        \* the retrieval in progress
  evidence,   \* research_retrieval_evidence
  events,     \* research_operations_events
  results,    \* what the caller gets, per URL
  sent        \* <<URL, text>>: bodies that servers completed

stores == <<evidence, events>>
search == <<query, found, selected>>
vars == <<phase, search, wanted, job, stores, results, sent>>

Ended == {"done", "no-source", "no-candidates", "search-failed", "cancelled", "aborted"}
Hops == [url : Url, next : Url \cup {Nothing}]
Lookups == [url : Url, addresses : SUBSET Address]
NoLookup == [url |-> Nothing, addresses |-> {}]
Stages == {"completed", "cancelled", "preflight", "dns", "destination-admission",
           "connect", "response", "content-normalization"}
Outcomes == {"succeeded", "failed", "cancelled"}
Verdicts == [asked : Url, outcome : Outcomes, stage : Stages, hops : Seq(Hops),
             final : Url \cup {Nothing}, text : Text \cup {Nothing}]
Events == [evidence : Nat, outcome : Outcomes, retries : 0..MaxRetries]

Asked == selected[Len(results) + 1]

\* A retrieval begins at the URL asked for, also when it is repeated.
Begin(url, retries) ==
  [at |-> "preflight", url |-> url, hops |-> <<>>, lookup |-> NoLookup, left |-> <<>>,
   contact |-> Nothing, body |-> 0, retries |-> retries, verdict |-> Nothing]
NoJob == [Begin(Nothing, 0) EXCEPT !.at = "idle"]

Init ==
  /\ phase = "search" /\ query = 1 /\ found = <<>> /\ selected = <<>>
  /\ wanted = FALSE /\ job = NoJob
  /\ evidence = <<>> /\ events = <<>> /\ results = <<>>
  /\ sent = {}

-------------------------------------------------------------------------------
(* Discovery *)

\* Scheme, credentials, port and host name of a URL.
Refused(url) == url \in Blocked

\* Candidates the preflight refuses are dropped by the provider.
Admissible(raw) == Sub(raw, {i \in DOMAIN raw : ~Refused(raw[i])})

Discover(raw) ==
  LET urls == Select(Admissible(raw), MaxUrls)
  IN /\ phase = "search"
     /\ found' = Admissible(raw) /\ selected' = urls
     /\ IF urls # <<>>
        THEN phase' = "retrieve" /\ job' = Begin(urls[1], 0) /\ UNCHANGED query
        ELSE /\ UNCHANGED job
             /\ IF query < Len(Queries(Words))
                THEN query' = query + 1 /\ UNCHANGED phase
                ELSE phase' = "no-candidates" /\ UNCHANGED query
     /\ UNCHANGED <<wanted, stores, results, sent>>

\* A provider error ends the request; no further query is tried.
SearchFails ==
  /\ phase = "search"
  /\ phase' = IF wanted THEN "cancelled" ELSE "search-failed"
  /\ UNCHANGED <<search, wanted, job, stores, results, sent>>

-------------------------------------------------------------------------------
(* One retrieval.  A cancellation is noticed at its boundaries only. *)

Verdict(outcome, stage) ==
  [asked |-> Asked, outcome |-> outcome, stage |-> stage, hops |-> <<>>,
   final |-> Nothing, text |-> Nothing]

\* What the tool does with an error: repeat the URL once, or give a verdict.
RepeatsAlways(transient) == transient

Repeats(transient) == transient /\ job.retries < MaxRetries

Least(m, n) == IF m < n THEN m ELSE n

Fails(stage, transient) ==
  job' = IF Repeats(transient) THEN Begin(Asked, Least(job.retries + 1, MaxRetries))
         ELSE [job EXCEPT !.at = "store", !.verdict = Verdict("failed", stage)]

Cancels == job' = [job EXCEPT !.at = "store", !.verdict = Verdict("cancelled", "cancelled")]

OrCancelled(step) == IF wanted THEN Cancels ELSE step

Working(at) == phase = "retrieve" /\ job.at = at
Retrieving == phase = "retrieve" /\ job.at \in {"preflight", "dns", "connect", "read", "body"}

Preflight ==
  /\ Working("preflight")
  /\ OrCancelled(IF Refused(job.url) THEN Fails("preflight", FALSE)
                 ELSE job' = [job EXCEPT !.at = "dns"])
  /\ UNCHANGED <<phase, search, wanted, stores, results, sent>>

AdmittedByOne(addresses) == (addresses \cap Public) # {}

Admitted(addresses) == addresses \subseteq Public

Resolve(addresses) ==
  /\ Working("dns")
  /\ OrCancelled(
       IF Admitted(addresses)
       THEN job' = [job EXCEPT !.at = "connect", !.left = InOrder(addresses),
                               !.lookup = [url |-> job.url, addresses |-> addresses]]
       ELSE Fails("destination-admission", FALSE))
  /\ UNCHANGED <<phase, search, wanted, stores, results, sent>>

\* No answer in time, none at all, or (not repeated) an unusable one.
ResolveFails(transient) ==
  /\ Working("dns")
  /\ Fails("dns", transient)
  /\ UNCHANGED <<phase, search, wanted, stores, results, sent>>

\* The next admitted address; the last failure becomes the retrieval's.
NextAddress ==
  IF Len(job.left) > 1 THEN job' = [job EXCEPT !.at = "connect", !.left = Tail(@), !.body = 0]
  ELSE Fails("connect", TRUE)

Connect ==
  /\ Working("connect")
  /\ OrCancelled(job' = [job EXCEPT !.at = "read",
                                     !.contact = [url |-> job.url, address |-> Head(job.left)]])
  /\ UNCHANGED <<phase, search, wanted, stores, results, sent>>

\* No connection, or it breaks before the response is complete.
ConnectionFails ==
  /\ phase = "retrieve" /\ job.at \in {"connect", "read", "body"}
  /\ NextAddress
  /\ UNCHANGED <<phase, search, wanted, stores, results, sent>>

\* A response that is refused, or cut short (which is repeated).
ResponseFails(transient) ==
  /\ phase = "retrieve" /\ job.at \in {"read", "body"}
  /\ Fails("response", transient)
  /\ UNCHANGED <<phase, search, wanted, stores, results, sent>>

TotalTimeout ==
  /\ Retrieving
  /\ Fails("response", TRUE)
  /\ UNCHANGED <<phase, search, wanted, stores, results, sent>>

Hop(next) == Append(job.hops, [url |-> job.url, next |-> next])

Redirected(url) == [Begin(url, job.retries) EXCEPT !.hops = Hop(url)]

Redirect(url) ==
  /\ Working("read")
  /\ IF Len(job.hops) >= MaxRedirects THEN Fails("response", FALSE)
     ELSE job' = Redirected(url)
  /\ UNCHANGED <<phase, search, wanted, stores, results, sent>>

\* urljoin raises on a Location it cannot parse, and nothing catches it.
RedirectUnparsable ==
  /\ Working("read") /\ Len(job.hops) < MaxRedirects
  /\ phase' = "aborted"
  /\ UNCHANGED <<search, wanted, job, stores, results, sent>>

HeadersArrive ==
  /\ Working("read")
  /\ job' = [job EXCEPT !.at = "body"]
  /\ UNCHANGED <<phase, search, wanted, stores, results, sent>>

AtCeiling == job.body >= MaxBody

ChunkArrives ==
  /\ Working("body")
  /\ IF AtCeiling THEN Fails("response", FALSE)
     ELSE OrCancelled(job' = [job EXCEPT !.body = @ + 1])
  /\ UNCHANGED <<phase, search, wanted, stores, results, sent>>

SucceededAsAsked(text) ==
  [Verdict("succeeded", "completed") EXCEPT
     !.hops = Hop(Nothing), !.final = Asked, !.text = text]

Succeeded(text) ==
  [Verdict("succeeded", "completed") EXCEPT
     !.hops = Hop(Nothing), !.final = job.url, !.text = text]

BodyEnds(text) ==
  /\ Working("body")
  /\ sent' = sent \cup {<<job.url, text>>}
  /\ OrCancelled(job' = [job EXCEPT !.at = "store", !.verdict = Succeeded(text)])
  /\ UNCHANGED <<phase, search, wanted, stores, results>>

BodyNotText ==
  /\ Working("body")
  /\ OrCancelled(Fails("content-normalization", FALSE))
  /\ UNCHANGED <<phase, search, wanted, stores, results, sent>>

-------------------------------------------------------------------------------
(* The records of a URL: two transactions, then the result in memory. *)

StoreEvidence ==
  /\ Working("store")
  /\ evidence' = Append(evidence, job.verdict)
  /\ job' = [job EXCEPT !.at = "record"]
  /\ UNCHANGED <<phase, search, wanted, events, results, sent>>

RecordEvent ==
  /\ Working("record")
  /\ events' = Append(events, [evidence |-> Len(evidence), outcome |-> job.verdict.outcome,
                               retries |-> job.retries])
  /\ job' = [job EXCEPT !.at = "return"]
  /\ UNCHANGED <<phase, search, wanted, evidence, results, sent>>

AnySuccess(rs) == \E i \in DOMAIN rs : rs[i].outcome = "succeeded"

\* A cancelled URL ends the request without results; else the next URL begins.
Return ==
  /\ Working("return")
  /\ IF job.verdict.outcome = "cancelled"
     THEN phase' = "cancelled" /\ UNCHANGED results
     ELSE /\ results' = Append(results, [evidence |-> Len(evidence),
                                         outcome |-> job.verdict.outcome])
          /\ phase' = IF Len(results') < Len(selected) THEN "retrieve"
                      ELSE IF AnySuccess(results') THEN "done" ELSE "no-source"
  /\ job' = IF phase' = "retrieve" THEN Begin(selected[Len(results') + 1], 0) ELSE NoJob
  /\ UNCHANGED <<search, wanted, stores, sent>>

-------------------------------------------------------------------------------
RequestCancellation ==
  /\ phase \notin Ended /\ ~wanted
  /\ wanted' = TRUE
  /\ UNCHANGED <<phase, search, job, stores, results, sent>>

\* The process dies, or the request's task is cancelled from outside.
Crash ==
  /\ phase \notin Ended
  /\ phase' = "aborted" /\ job' = NoJob /\ results' = <<>>
  /\ UNCHANGED <<search, wanted, stores, sent>>

Finished == phase \in Ended /\ UNCHANGED vars

Answers == (SUBSET Address) \ {{}}

Step ==
  \/ \E raw \in RawResults : Discover(raw)
  \/ SearchFails
  \/ Preflight
  \/ \E addresses \in Answers : Resolve(addresses)
  \/ \E transient \in BOOLEAN : ResolveFails(transient) \/ ResponseFails(transient)
  \/ Connect \/ ConnectionFails \/ TotalTimeout
  \/ \E url \in Url : Redirect(url)
  \/ RedirectUnparsable \/ HeadersArrive \/ ChunkArrives
  \/ \E text \in Text : BodyEnds(text)
  \/ BodyNotText
  \/ StoreEvidence \/ RecordEvent \/ Return

Next == Step \/ RequestCancellation \/ Crash \/ Finished

\* Every wait has a timeout, so the request moves whatever the network does.
Fairness == WF_vars(Step)
Spec == Init /\ [][Next]_vars /\ Fairness

-------------------------------------------------------------------------------
TypeOK ==
  /\ phase \in {"search", "retrieve"} \cup Ended
  /\ query \in 1..3 /\ found \in Seq(Url) /\ selected \in Seq(Url)
  /\ wanted \in BOOLEAN
  /\ job.at \in {"idle", "preflight", "dns", "connect", "read", "body", "store", "record",
                 "return"}
  /\ job.url \in Url \cup {Nothing} /\ job.hops \in Seq(Hops) /\ job.lookup \in Lookups \cup {NoLookup}
  /\ job.left \in Seq(Address) /\ job.body \in 0..MaxBody /\ job.retries \in 0..MaxRetries
  /\ evidence \in Seq(Verdicts) /\ events \in Seq(Events)
  /\ job.contact \in [url : Url, address : Address] \cup {Nothing}
  /\ sent \subseteq Url \X Text

\* SSRF boundary of internet_transport.py: whatever DNS and the servers answer,
\* and on redirects, second addresses and repeats too, a connection is only
\* ever open to a URL the policy admits, at an address that the last lookup of
\* this very URL returned, and of which every address is public.
ContactsAreAdmitted ==
  job.at \in {"read", "body"} =>
    /\ job.contact.url = job.url /\ job.url \notin Blocked
    /\ job.lookup.url = job.url
    /\ job.contact.address \in job.lookup.addresses
    /\ job.lookup.addresses \subseteq Public

Chained(v) ==
  LET n == Len(v.hops)
  IN /\ n \in 1..(MaxRedirects + 1)
     /\ v.hops[1].url = v.asked /\ v.hops[n].url = v.final /\ v.hops[n].next = Nothing
     /\ \A k \in 1..(n - 1) : v.hops[k].next = v.hops[k + 1].url

\* Evidence of a success (research_retrieval_evidence.py) is of a text that the
\* final URL did send, at the end of an unbroken chain of redirects from the
\* URL asked for, also when a first attempt got part of the way.
EvidenceIsTrue ==
  \A i \in DOMAIN evidence :
    evidence[i].outcome = "succeeded" =>
      Chained(evidence[i]) /\ <<evidence[i].final, evidence[i].text>> \in sent

\* Each URL gets one verdict, in the order of selection, however often it was
\* attempted; its event follows; what the caller is told is what was stored; a
\* finished request has a verdict for each URL, a cancelled one the verdicts
\* up to the URL that noticed.
EveryUrlHasOneVerdict ==
  /\ Len(evidence) - Len(events) \in {0, 1} /\ Len(evidence) <= Len(selected)
  /\ \A i \in DOMAIN evidence :
       /\ evidence[i].asked = selected[i]
       /\ evidence[i].outcome = "cancelled" => i = Len(evidence)
  /\ \A i \in DOMAIN events :
       events[i].evidence = i /\ events[i].outcome = evidence[i].outcome
  /\ \A i \in DOMAIN results :
       results[i].evidence = i /\ results[i].outcome = evidence[i].outcome
  /\ phase \in {"done", "no-source"} =>
       /\ Len(events) = Len(selected) /\ Len(results) = Len(selected)
       /\ phase = "done" <=> \E i \in DOMAIN evidence : evidence[i].outcome = "succeeded"
  /\ phase = "cancelled" /\ evidence # <<>> =>
       Last(evidence).outcome = "cancelled" /\ Len(events) = Len(evidence)

\* The evidence is true and complete, and of its type.
EvidenceIsWhole == TypeOK /\ EvidenceIsTrue /\ EveryUrlHasOneVerdict

Families(urls) == {FamilyOf[u] : u \in ToSet(urls)}
Keys(urls) == {KeyOf[u] : u \in ToSet(urls)}
\* research_source_quality.py's policy, whatever the search returns: no page
\* twice under two spellings, as many URLs as there are, and among them as many
\* different families as the limit and the candidates allow.
SelectionIsDiverse ==
  /\ ToSet(selected) \subseteq ToSet(found) \ Blocked
  /\ Len(selected) = Least(MaxUrls, Cardinality(Keys(found)))
  /\ Cardinality(Keys(selected)) = Len(selected)
  /\ Cardinality(Families(selected)) = Least(MaxUrls, Cardinality(Families(found)))

\* Redirect loops, endless bodies and flapping errors end: the ceilings on
\* redirects, body, queries and repeats leave no way round.
ResearchEnds == <>(phase \in Ended)
================================================================================
