------------------------------- MODULE MCResearch -------------------------------
(* Four pages of three families, two of them spellings of one page.         *)
EXTENDS ResearchRetrieval

Pages == {"page", "tracked", "sister", "other", "local"}
SameKey == [u \in Pages |-> IF u = "tracked" THEN "page" ELSE u]
Family == [u \in Pages |-> IF u = "tracked" \/ u = "sister" THEN "page" ELSE u]
Asking == <<"red", "green", "blue">>
Returns == {<<>>, <<"local">>, <<"other">>, <<"page", "tracked", "sister", "other">>,
            <<"tracked", "page", "sister">>, <<"local", "sister", "page", "other">>}
================================================================================
