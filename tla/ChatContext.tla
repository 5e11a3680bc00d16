------------------------------ MODULE ChatContext ------------------------------
(***************************************************************************)
(* The two pure algorithms between a document and a prompt: how its text   *)
(* is cut into chunks for the search (knowledge/services/chunker.py), and  *)
(* how the excerpts a search has found are packed into a prompt of bounded *)
(* length (history/chat_attachment_context_service.py).                    *)
(*                                                                         *)
(* A text is its length and the positions of its separators: single blanks *)
(* and the starts of the two-character paragraph marks.  An excerpt is its *)
(* length, the positions of its blanks and the length of its heading.      *)
(* Variables hold an input of each algorithm and never change.             *)
(***************************************************************************)
EXTENDS Integers, Sequences, FiniteSets

CONSTANTS
  ChunkSize, Overlap,
  Introduction,            \* its length
  ExcerptLimit,            \* the longest excerpt taken over from a search
  Texts, Finds, Budgets    \* the inputs

VARIABLES text, found, budget
inputs == <<text, found, budget>>

Text == [length : Nat, blanks : SUBSET Nat, paragraphs : SUBSET Nat]
Excerpt == [length : Nat \ {0}, blanks : SUBSET Nat, heading : Nat \ {0}]

\* chunk_text refuses other sizes; chunks, and so excerpts, are never empty.
ASSUME ContextAssumption ==
  /\ ChunkSize \in Nat \ {0} /\ Overlap \in 0 .. ChunkSize - 1
  /\ Introduction \in Nat \ {0} /\ ExcerptLimit \in Nat \ {0}
  /\ Texts \subseteq Text /\ Finds \subseteq Seq(Excerpt) /\ Budgets \subseteq Nat

InputInit == text \in Texts /\ found \in Finds /\ budget \in Budgets
InputSpec == InputInit /\ [][FALSE]_inputs

-------------------------------------------------------------------------------
(* chunk_text.  A chunk is the half-open interval of its positions; blanks *)
(* at its ends are stripped off later and are of no use to a search.       *)

Largest(numbers) == CHOOSE n \in numbers : \A m \in numbers : m <= n

\* The last separator before the target end, when it lies in the second half.  (The
\* end of a sentence is sought as well, but the blank in it comes later.)
ChunkEnd(txt, start) ==
  LET target == IF start + ChunkSize < txt.length THEN start + ChunkSize ELSE txt.length
      whole  == {b \in txt.blanks : b < target} \cup {b \in txt.paragraphs : b + 1 < target}
      late   == {b \in whole : start + (ChunkSize \div 2) < b}
  IN  IF target < txt.length /\ late # {} THEN Largest(late) + 1 ELSE target

\* mutant of NextStart: the character after the chunk is skipped
NextStartPastEnd(start, end) == end + 1
NextStart(start, end) == IF end - Overlap > start THEN end - Overlap ELSE start + 1

\* Where the chunks start, if the loop never ended.
Starts(txt) ==
  LET start[i \in Nat] ==
        IF i = 0 THEN 0 ELSE NextStart(start[i - 1], ChunkEnd(txt, start[i - 1]))
  IN  start

\* Up to the first chunk that reaches the end of the text.
Chunks(txt) ==
  LET end(i) == ChunkEnd(txt, Starts(txt)[i])
      last == CHOOSE i \in 0 .. txt.length - 1 :
                end(i) >= txt.length /\ \A j \in 0 .. i - 1 : ~(end(j) >= txt.length)
  IN  IF txt.length = 0 THEN <<>>
      ELSE [i \in 0 .. last |-> [start |-> Starts(txt)[i], end |-> end(i)]]

\* No character is left out, and no chunk is longer than the chunk size.
NothingLost(chunks, txt) ==
  /\ \A p \in 0 .. txt.length - 1 :
       \E i \in DOMAIN chunks : chunks[i].start <= p /\ p < chunks[i].end
  /\ \A i \in DOMAIN chunks : chunks[i].end - chunks[i].start \in 1 .. ChunkSize

\* Each chunk has something that the chunks before it have not.
EachAdds(chunks) ==
  \A i, j \in DOMAIN chunks : i < j => chunks[i].end < chunks[j].end

-------------------------------------------------------------------------------
(* build_context and _build_bounded_context.                               *)

\* The first n characters without the blanks they end in.
Stripped(excerpt, n) ==
  LET solid == (1 .. n) \ excerpt.blanks
  IN  IF solid = {} THEN 0 ELSE Largest(solid)

\* A longer text keeps what fits beside the ellipsis.
\* mutant of Cut: no room is left for the ellipsis
CutWithoutRoom(excerpt, n) ==
  IF excerpt.length <= n THEN excerpt.length ELSE Stripped(excerpt, n) + 1
Cut(excerpt, n) ==
  IF excerpt.length <= n THEN excerpt.length ELSE Stripped(excerpt, n - 1) + 1

\* The ranked excerpts, a long one cut.
Candidates(finds) ==
  [i \in DOMAIN finds |->
     LET length == Cut(finds[i], ExcerptLimit)
     IN  [finds[i] EXCEPT !.length = length, !.blanks = {p \in @ : p < length}]]

\* The partial sums of a sequence of lengths.
Total(lengths) ==
  LET sum[i \in 0 .. Len(lengths)] == IF i = 0 THEN 0 ELSE sum[i - 1] + lengths[i]
  IN  sum

Blocks(sources, lengths) == [i \in DOMAIN lengths |-> sources[i].heading + lengths[i]]
Lengths(sources) == [i \in DOMAIN sources |-> sources[i].length]

\* What is left for excerpt i when all before it were taken over whole.
Room(sources, limit, i) ==
  limit - Introduction - Total(Blocks(sources, Lengths(sources)))[i - 1] - sources[i].heading

\* The lengths of the excerpts taken over, one after the other until one is cut or has
\* no room for more than its heading.
Included(sources, limit) ==
  LET taken == {i \in DOMAIN sources :
                  /\ Introduction < limit /\ Room(sources, limit, i) > 0
                  /\ \A j \in 1 .. i - 1 : sources[j].length <= Room(sources, limit, j)}
  IN  [i \in 1 .. Cardinality(taken) |-> Cut(sources[i], Room(sources, limit, i))]

\* The introduction and the blocks, before it is known whether there are any.
Filled(sources, included) == Introduction + Total(Blocks(sources, included))[Len(included)]

\* The length of the prompt before its last, unconditional cut: without a source there
\* is none, unless not even the introduction fits.
ContextLength(sources, included, limit) ==
  IF included # <<>> THEN Filled(sources, included)
  ELSE IF sources # <<>> /\ Introduction >= limit THEN limit ELSE 0

\* A prompt keeps to its budget before that cut, so that the sources that are answered
\* as included are in it; they are the best ones, only the last is shortened, and a
\* source is left out only when there is no room for more than its heading.
Packed(sources, included, limit) ==
  LET last == Len(included) IN
  /\ last <= Len(sources) /\ ContextLength(sources, included, limit) <= limit
  /\ \A i \in 1 .. last : included[i] \in 1 .. ExcerptLimit
  /\ \A i \in 1 .. last - 1 : included[i] = sources[i].length
  /\ last < Len(sources) /\ Introduction < limit =>
       \/ last > 0 /\ included[last] < sources[last].length
       \/ Filled(sources, included) + sources[last + 1].heading >= limit

-------------------------------------------------------------------------------
(* Properties.                                                             *)

\* Whatever the separators of a text, its chunks leave out none of it, keep to the chunk
\* size, and each adds to the ones before it: nothing is lost for the search and the
\* loop makes progress (knowledge/services/chunker.py, chunk_text).
ChunksCoverText == NothingLost(Chunks(text), text) /\ EachAdds(Chunks(text))

\* Whatever a search has found, the prompt keeps to its budget and holds what is
\* answered as its sources (chat_attachment_context_service.py,
\* _build_bounded_context).
ContextFits ==
  LET sources == Candidates(found)
  IN  Packed(sources, Included(sources, budget), budget)
================================================================================
