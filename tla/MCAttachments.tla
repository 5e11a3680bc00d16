----------------------------- MODULE MCAttachments -----------------------------
(***************************************************************************)
(* A small instance of ChatAttachments, in one of two ways.  Two uploads   *)
(* of files of size 1 into one conversation do all there is to do; or,     *)
(* when it is crowded, three of them, of size 1 or 2, race for two places  *)
(* and three bytes, with the steps that add and take away rows only.  The  *)
(* other initial states, from which nothing happens, hold the inputs of    *)
(* the two pure algorithms: a text of up to eleven characters as           *)
(* normalize_whitespace leaves it, or up to three excerpts as strip()      *)
(* leaves them and the budget of the prompt.                               *)
(***************************************************************************)
EXTENDS ChatAttachments, ChatContext, TLC

CONSTANTS u1, u2, u3, r1, r2, c1

VARIABLE crowded

TheActors == Upload \cup Deletion
Symmetry == Permutations({u1, u2}) \cup Permutations(Deletion)

NoText == [length |-> 0, blanks |-> {}, paragraphs |-> {}]
Inside(n) == 1 .. n - 2
\* Separators lie between words: not at the ends, and not next to each other.
Marked(t) == t.blanks \cup t.paragraphs \cup {p + 1 : p \in t.paragraphs}
Normalized(t) ==
  /\ t.blanks \cap t.paragraphs = {}
  /\ Marked(t) \subseteq Inside(t.length)
  /\ \A p \in t.blanks : p + 1 \notin Marked(t)
  /\ \A p \in t.paragraphs : p + 1 \notin t.blanks \cup t.paragraphs /\ p + 2 \notin Marked(t)
TheTexts ==
  {NoText} \cup
  {t \in [length : 1 .. 11, blanks : SUBSET (1 .. 9), paragraphs : SUBSET {1, 3, 5, 6, 7, 8}] :
     Normalized(t)}

TheExcerpts ==
  {e \in [length : 1 .. 4, blanks : SUBSET (2 .. 3), heading : {1, 2}] :
     e.blanks \subseteq 2 .. e.length - 1}
TheFinds == UNION {[1 .. n -> TheExcerpts] : n \in 0 .. 3}
TheBudgets == 1 .. 13

Resting == text = NoText /\ found = <<>> /\ budget = 1
MCInit ==
  /\ Init /\ InputInit
  /\ Resting \/ (found = <<>> /\ budget = 1) \/ text = NoText
  /\ crowded \in (IF Resting THEN BOOLEAN ELSE {FALSE})

\* A search asked before any upload has been answered may find anything: left out.
Lives ==
  /\ Next
  /\ phase'[u3] = "idle" /\ \A u \in Upload : row'[u].size <= 1
  /\ search'.stage = "asking" => search'.answered # {}
Races ==
  \/ \E u \in Upload : Request(u) \/ CreatePending(u) \/ Refuse(u)
  \/ DeleteAttachment(r1)

MCNext ==
  /\ Resting
  /\ IF crowded THEN Races ELSE Lives
  /\ UNCHANGED <<inputs, crowded>>
MCSpec == MCInit /\ [][MCNext]_<<vars, inputs, crowded>>
================================================================================
