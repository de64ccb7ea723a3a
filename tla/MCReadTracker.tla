---------------------------- MODULE MCReadTracker ----------------------------
(***************************************************************************)
(* Instances of ReadTracker: a reader of two forums and of two topics,     *)
(* or three where nothing is taken away.                                   *)
(***************************************************************************)
EXTENDS ReadTracker, TLC

CONSTANTS f1, f2, c1, c2

MCCategoryOf == (f1 :> c1) @@ (f2 :> c2)

MCSymmetry == Permutations(Topics) \cup Permutations(Users)
\* Boards that differ in what may happen to a topic the reader knows.
MCBoards == {{"posttopic", "postreply", "addforum", "deleteuser"},
             {"posttopic", "postreply", "makehidden"},
             {"posttopic", "makehidden", "deleteuser"},
             {"posttopic", "postreply", "deletepost", "move"},
             {"posttopic", "deletetopic", "deleteforum", "deletecategory", "addforum"}}

\* Bound: three topics, or topic ids with a row of the reader, only on the first board,
\* where a topic can become too old while its forum has a newer one.
MCTopicsBound ==
    \/ {"postreply", "addforum"} \subseteq granted
    \/ Cardinality({t \in Topics : topic[t].forum # None \/ topicsRead[t].forum # None}) <= 2

\* The smallest board on which marking a forum fails.
MCMovingBoard == {{"posttopic", "postreply", "move"}}

\* Authors' and topics' post counts decide nothing about the tracker, and the history
\* is asked for on some boards only.
MCView ==
    <<post, [t \in Topics |-> [topic[t] EXCEPT !.posts = 0]],
      [f \in Forums |-> [forum[f] EXCEPT !.posts = 0, !.lastUser = None]],
      forums, users, clock, granted, topicsRead, forumsRead,
      IF Never({"move", "makehidden", "deletepost"}) THEN seen ELSE None>>
=============================================================================
