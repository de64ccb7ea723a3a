----------------------------- MODULE ReadTracker -----------------------------
(***************************************************************************)
(* What a reader has read: the tables topicsread and forumsread of         *)
(* flaskbb/forum/models.py, on top of the content that ForumContent models.*)
(* Opening a topic and marking forums as read write them; the dates they   *)
(* hold are compared with topics.last_updated, with the date of the        *)
(* topic's last post and with forums.last_post_created, each by another    *)
(* function, so the question is whether those agree.                       *)
(*                                                                         *)
(* Readers do not share rows: there is one, who keeps his account.  Dates  *)
(* are those of ForumContent: "now" is the date of the latest post, and    *)
(* two dates taken one after the other are never equal in the program, so  *)
(* what it does with equal ones is left open.                              *)
(***************************************************************************)
EXTENDS ForumContent

CONSTANT TrackerLength  \* the setting TRACKER_LENGTH, in posts; 0 turns the tracker off

ASSUME TrackerAssumption == TrackerLength \in Nat

VARIABLES
    topicsRead,  \* table topicsread, the reader's rows
    forumsRead,  \* table forumsread, the reader's rows
    seen         \* history: when he last opened a topic or marked its forum as read

tracker == <<topicsRead, forumsRead, seen>>

\* A row that is not there, and the NULL of forumsread.cleared: before any date, as
\* every query and comparison of the code takes them.
Past == -1
Dates == Times \cup {Past}

NoTopicsRead == [forum |-> None, last |-> Past]
NoForumsRead == [last |-> Past, cleared |-> Past]

TrackerTypeOK ==
    /\ topicsRead \in [Topics -> [forum: Forums \cup {None}, last: Dates]]
    /\ forumsRead \in [Forums -> [last: Dates, cleared: Dates]]
    /\ seen \in [Topics -> Times]

-----------------------------------------------------------------------------
(* What the pages show.                                                    *)

\* read_cutoff
Recent(date) == TrackerLength > 0 /\ date >= clock - TrackerLength

NotReadOnce(t) == topicsRead[t].forum = None

\* topic_is_unread, first without the cutoff.
NotRead(t) ==
    IF topicsRead[t].forum = None
    THEN forumsRead[topic[t].forum].cleared < topic[t].updated
    ELSE topicsRead[t].last < topic[t].updated

TopicIsUnread(t) == Recent(topic[t].updated) /\ NotRead(t)

\* forum_is_unread
ForumIsUnread(f) ==
    /\ forum[f].topics # 0 /\ forum[f].last # None
    /\ Recent(forum[f].lastCreated)
    /\ forumsRead[f].last < forum[f].lastCreated

-----------------------------------------------------------------------------
(* Pieces of the handlers.                                                 *)

TrackerNeedsFirstRow(t) ==
    topic[t].last # None /\ topicsRead[t].forum = None

\* Topic.tracker_needs_update
TrackerNeedsUpdate(t) ==
    LET p == topic[t].last IN
    /\ p # None /\ Recent(post[p].created)
    /\ forumsRead[topic[t].forum].cleared < post[p].created
    /\ topicsRead[t].last < post[p].created

NoUnreadTopicsAssumed(f, R) == TRUE
NoUnreadTopicsUnmarked(f, R) ==
    \A t \in TopicsIn(f, topic) : ~Recent(topic[t].updated) \/ R[t].last >= topic[t].updated
NoUnreadTopicsEver(f, R) ==
    \A t \in TopicsIn(f, topic) :
        R[t].last >= topic[t].updated \/ forumsRead[f].last >= topic[t].updated

\* The count of Forum.update_read is zero; R are the rows with the visit in them.
NoUnreadTopics(f, R) ==
    \A t \in TopicsIn(f, topic) :
        \/ ~Recent(topic[t].updated)
        \/ R[t].last >= topic[t].updated
        \/ forumsRead[f].last >= topic[t].updated

VisitedAhead(t) ==
    [topicsRead EXCEPT ![t] = [forum |-> topic[t].forum, last |-> clock + 1]]

\* Topic.update_read finds the row by user and topic and leaves its forum alone.
Visited(t) ==
    [topicsRead EXCEPT ![t] = [forum |-> IF @.forum = None THEN topic[t].forum ELSE @.forum,
                               last  |-> clock]]

KeepingRows(f) == topicsRead
WithoutRowsOf(f) ==
    [t \in Topics |-> IF topicsRead[t].forum = f THEN NoTopicsRead ELSE topicsRead[t]]

-----------------------------------------------------------------------------
TrackerInit ==
    /\ Init
    /\ topicsRead = [t \in Topics |-> NoTopicsRead]
    /\ forumsRead = [f \in Forums |-> NoForumsRead]
    /\ seen = [t \in Topics |-> 0]

\* ViewTopic.get and Topic.update_read, then Forum.update_read with the row just
\* written, which is why the forum's one cannot be newer.
ViewTopic(t) ==
    LET f == topic[t].forum IN
    /\ t \in LiveTopics(topic)
    /\ seen' = [seen EXCEPT ![t] = clock]
    /\ IF TrackerNeedsUpdate(t)
       THEN /\ topicsRead' = Visited(t)
            /\ forumsRead' = IF NoUnreadTopics(f, Visited(t))
                             THEN [forumsRead EXCEPT ![f].last = clock] ELSE forumsRead
       ELSE UNCHANGED <<topicsRead, forumsRead>>
    /\ UNCHANGED vars

\* MarkRead of one forum.
MarkForum(f) ==
    /\ f \in forums
    /\ topicsRead' = WithoutRowsOf(f)
    /\ forumsRead' = [forumsRead EXCEPT ![f] = [last |-> clock, cleared |-> clock]]
    /\ seen' = [t \in Topics |-> IF topic[t].forum = f THEN clock ELSE seen[t]]
    /\ UNCHANGED vars

\* MarkRead of all forums.
MarkAll ==
    /\ topicsRead' = [t \in Topics |-> NoTopicsRead]
    /\ forumsRead' = [f \in Forums |-> IF f \in forums
                                       THEN [last |-> clock, cleared |-> clock]
                                       ELSE NoForumsRead]
    /\ seen' = [t \in Topics |-> clock]
    /\ UNCHANGED vars

\* Forum.move_topics_to.  Topic.move deletes the topic's rows after its last commit,
\* so they are gone only if the request moves another topic after this one.
Move(t, g) ==
    /\ MoveTopic(t, g)
    /\ \/ UNCHANGED topicsRead
       \/ /\ \E s \in LiveTopics(topic) \ {t} : topic[s].forum # g
          /\ topicsRead' = [topicsRead EXCEPT ![t] = NoTopicsRead]
    /\ UNCHANGED <<forumsRead, seen>>

\* The requests on the content that leave the rows alone: also those that delete a
\* topic or a forum, which leave the rows to the foreign keys.
ChangeContent ==
    \/ \E u \in Users, f \in Forums : NewTopic(u, f)
    \/ \E u \in Users, t \in Topics : Reply(u, t)
    \/ \E p \in PostIds : DeletePost(p) \/ HidePost(p) \/ UnhidePost(p)
    \/ \E t \in Topics : RemoveTopic(t) \/ ConcealTopic(t) \/ RevealTopic(t)
    \/ \E f \in Forums : DeleteForum(f) \/ AddForum(f)
    \/ \E c \in Categories : DeleteCategory(c)
    \/ \E u \in Users : DeleteUser(u)

TrackerNext ==
    \/ \E t \in Topics : ViewTopic(t)
    \/ \E f \in Forums : MarkForum(f)
    \/ MarkAll
    \/ \E t \in Topics, g \in Forums : Move(t, g)
    \/ ChangeContent /\ UNCHANGED tracker

TrackerSpec == TrackerInit /\ [][TrackerNext]_<<vars, tracker>>

-----------------------------------------------------------------------------
(* Properties.                                                             *)

\* A row was written after its forum was last marked as read, wherever its topic is
\* by now: MarkRead deletes the rows of the forum they name, not of its topics.
RowsSinceCleared ==
    \A t \in Topics : topicsRead[t].forum # None =>
        topicsRead[t].last >= forumsRead[topicsRead[t].forum].cleared

\* A post the reader was never shown, in a topic he did not mark as read, marks its
\* topic as unread, until it is too old.
UnseenIsUnread ==
    \A p \in ShownPosts(post, topic) :
        LET t == post[p].topic IN
        post[p].created > seen[t] /\ Recent(post[p].created) => TopicIsUnread(t)

\* It does where topics stay in their forum and posts come and go with their topic,
\* also when a topic takes over the id and the rows of a deleted one.
UnseenIsUnreadKept == Never({"move", "makehidden", "deletepost"}) => UnseenIsUnread

\* A topic the reader has just opened is not shown as unread: what Topic.update_read
\* asks of the last post agrees with what topic_is_unread asks of last_updated.
\* It is so where posts are not hidden and the topic's row names its forum.
VisitedIsRead ==
    [][\A t \in Topics :
        ViewTopic(t) /\ Never({"makehidden"})
          /\ topicsRead[t].forum \in {None, topic[t].forum}
        => ~TopicIsUnread(t)']_<<vars, tracker>>

\* A forum that is shown as read has no topic that is shown as unread, where nothing
\* is moved or deleted and no single reply is hidden: neither opening the last unread
\* topic nor marking forgets another one, nor does hiding a whole topic, which gives
\* the forum the date of the next one.  (A reply that is hidden and restored leaves
\* its topic with too old a date, and hiding another topic may hand that to the forum.)
ReadForumHasNoUnread ==
    /\ Never({"move", "deletepost", "deletetopic", "deleteforum", "deletecategory"})
    /\ Never({"makehidden"}) \/ Never({"postreply"})
    => \A f \in forums : ~ForumIsUnread(f) =>
            \A t \in ShownTopicsIn(f, topic) : ~TopicIsUnread(t)

\* A forum that is shown as unread has a topic that was not read since it was written to,
\* where nothing is ever taken away: one whose visit will be recorded, or one that has
\* become too old for that.  (With the latter alone the forum stays unread whatever is
\* opened in it, until it is marked as read, written to or too old itself.)
UnreadForumHasUnread ==
    granted \subseteq {"posttopic", "postreply", "addforum", "deleteuser"} =>
        \A f \in forums : ForumIsUnread(f) =>
            \E t \in TopicsIn(f, topic) :
                NotRead(t) /\ (TrackerNeedsUpdate(t) \/ ~Recent(topic[t].updated))

\* Opening the only topic of a forum that is shown as unread makes the forum one that is
\* shown as read, however the other ones came to be read: opened, marked or too old.
\* It is so where posts are not hidden and the topic's row names its forum.
LastVisitReadsForum ==
    [][\A t \in Topics :
        ViewTopic(t) /\ Never({"makehidden"})
          /\ topicsRead[t].forum \in {None, topic[t].forum}
          /\ {s \in TopicsIn(topic[t].forum, topic) : TopicIsUnread(s)} = {t}
        => ~ForumIsUnread(topic[t].forum)']_<<vars, tracker>>

\* A forum that was just marked as read has no unread topic.
MarkedIsRead ==
    [][\A f \in forums : MarkForum(f) =>
        \A t \in TopicsIn(f, topic) : ~TopicIsUnread(t)']_<<vars, tracker>>
=============================================================================
