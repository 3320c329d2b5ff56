------------------------------- MODULE MCPlatform -------------------------------
(***************************************************************************)
(* Two overlapping calls and a few rows for each part of Platform.          *)
(***************************************************************************)
EXTENDS Platform, TLC

CONSTANTS rain, snow, empty

\* Two titles have a slug, one has no letters to make one of.
MCTitleSlug == [t \in {rain, snow, empty} |-> IF t = empty THEN None ELSE t]

\* The first ten letters of "Thunderstorm" and "Thunderstorms" are the same.
MCCode == [l \in {"Thunderstorm", "Thunderstorms", "Drizzle"} |-> IF l = "Drizzle" THEN "DRIZZLE" ELSE "THUNDERSTO"]

Proposal(title, slug, outcomes) ==
    [title |-> title, slug |-> slug, titleLength |-> 20, questionLength |-> 40, placeholder |-> FALSE,
     mode |-> "oracle", access |-> "public", source |-> FALSE, rail |-> TRUE, outcomes |-> outcomes]

Binary == Proposal(rain, None, <<>>)
Named == Proposal(snow, rain, <<"Thunderstorm", "Drizzle">>)
Clashing == Proposal(empty, None, <<"Thunderstorm", "Thunderstorms">>)
Short == [Binary EXCEPT !.titleLength = 7]

MCProposals == {Binary, Named, Clashing, Short}

MCRepeated == {Binary}

MCCreated == {[visibility |-> "public", approval |-> TRUE]}
MCChanges == {[visibility |-> "private", approval |-> FALSE]}

\* Which of the calls, of the candidates, of the websockets and of their markets
\* makes no difference.
Symmetry ==
    Permutations(Callers) \cup Permutations(Candidates) \cup Permutations(Clients) \cup Permutations(Markets)
=============================================================================
