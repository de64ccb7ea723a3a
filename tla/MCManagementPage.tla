-------------------------- MODULE MCManagementPage --------------------------
(***************************************************************************)
(* Instances of ManagementPage: the kinds of pages there are, with two     *)
(* rows, one of which is the user's own account or a standard group.       *)
(***************************************************************************)
EXTENDS ManagementPage

CONSTANTS own, other

NoneSpared == [op \in Ops |-> {}]

UsersPage ==
    [ops |-> {"ban", "unban", "delete"}, rights |-> {"ban", "unban", "delete"},
     button |-> Toggle, spared |-> [NoneSpared EXCEPT !["ban"] = {own}, !["delete"] = {own}],
     standard |-> {}]

ReportsPage ==
    [ops |-> {"read", "delete"}, rights |-> {"read", "delete"},
     button |-> [plain |-> "read", flagged |-> "none"],
     spared |-> NoneSpared, standard |-> {}]

GroupsPage ==
    [ops |-> {"delete"}, rights |-> {"delete"},
     button |-> [plain |-> "none", flagged |-> "none"],
     spared |-> NoneSpared, standard |-> {own}]

MCPages == {UsersPage, ReportsPage, GroupsPage}
MCUsersPage == {UsersPage}
=============================================================================
