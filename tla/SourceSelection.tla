---------------------------- MODULE SourceSelection ----------------------------
(***************************************************************************)
(* Which URLs of a search are retrieved (gateway/research_source_quality.py) *)
(* and which queries are tried (gateway/research_query_fallback.py).  The  *)
(* parsing of a URL is abstracted to its duplicate key and its family.     *)
(***************************************************************************)
EXTENDS Naturals, Sequences, FiniteSets, SequencesExt

CONSTANTS Url,
          KeyOf,     \* URL -> what is left when tracking parameters are dropped
          FamilyOf   \* URL -> its host, without "www."

\* The key of a URL contains its host.
ASSUME UrlAssumption ==
  /\ DOMAIN KeyOf = Url /\ DOMAIN FamilyOf = Url
  /\ \A u, v \in Url : KeyOf[u] = KeyOf[v] => FamilyOf[u] = FamilyOf[v]

\* How many numbers of the finite set I are below i.
Below(I, i) == Cardinality({j \in I : j < i})

\* The numbers of I in increasing order.
InOrder(I) == [k \in 1..Cardinality(I) |-> CHOOSE i \in I : Below(I, i) = k - 1]

\* The elements of s at the places of I, in their order.
Sub(s, I) == [k \in 1..Cardinality(I) |-> s[InOrder(I)[k]]]

\* The first n places of I.
Lowest(I, n) == {i \in I : Below(I, i) < n}

\* The places of s whose value under f did not occur before.
Firsts(s, f) == {i \in DOMAIN s : \A j \in 1..(i - 1) : f[s[j]] # f[s[i]]}

Unique(candidates) == Sub(candidates, Firsts(candidates, KeyOf))

FirstByRank(u, limit) == Lowest(DOMAIN u, limit)

FirstOfFamily(u, limit) == Lowest(Firsts(u, FamilyOf), limit)

\* One URL of each family in rank order, then the URLs left over, up to limit.
Select(candidates, limit) ==
  LET u == Unique(candidates)
      heads == FirstOfFamily(u, limit)
      rest == Lowest(DOMAIN u \ heads, limit - Cardinality(heads))
  IN  Sub(u, heads) \o Sub(u, rest)

\* The query itself, then without its last and without its first word; queries
\* of less than three words are tried once, and none twice.
Queries(words) ==
  LET variants == IF Len(words) < 3 THEN <<words>>
                  ELSE <<words, Front(words), Tail(words)>>
  IN  Sub(variants, Firsts(variants, [v \in ToSet(variants) |-> v]))
================================================================================
