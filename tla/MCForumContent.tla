--------------------------- MODULE MCForumContent ---------------------------
(***************************************************************************)
(* Instances of ForumContent: two forums, each in a category of its own,   *)
(* two topics and one or two authors.                                      *)
(***************************************************************************)
EXTENDS ForumContent, TLC

CONSTANTS f1, f2, c1, c2

MCCategoryOf == (f1 :> c1) @@ (f2 :> c2)

\* Ids of topics and names of users are only ever compared for equality.
MCSymmetry == Permutations(Users) \cup Permutations(Topics)

\* A board where everything is permitted.
MCAnyBoard == {Permissions}

\* Boards on which some figure must be exact.
MCBoards == {Permissions \ {"makehidden", "deletecategory"},
             Permissions \ {"makehidden", "deletepost"},
             Permissions \ {"deleteforum", "deletecategory", "addforum", "deleteuser"},
             Permissions \ {"move", "addforum", "deleteuser"}}

\* The smallest board on which a topic shows the wrong last post.
MCDeletingBoard == {{"posttopic", "postreply", "deletepost"}}
=============================================================================
