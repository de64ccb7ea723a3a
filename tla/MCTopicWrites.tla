--------------------------- MODULE MCTopicWrites ---------------------------
(***************************************************************************)
(* Instances of TopicWrites: two workers or one, two forums, two topics.   *)
(***************************************************************************)
EXTENDS TopicWrites, TLC

CONSTANTS f1, f2, c1

MCCategoryOf == (f1 :> c1) @@ (f2 :> c1)

\* Where topics are only written, where they are deleted, where they are moved, too.
MCBoards == {{"posttopic", "postreply"},
             {"posttopic", "postreply", "deletetopic"},
             {"posttopic", "postreply", "move", "deletetopic"}}
=============================================================================
