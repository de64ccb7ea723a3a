---------------------------- MODULE ForumContent ----------------------------
(***************************************************************************)
(* The posts, topics and forums of flaskbb/forum/models.py and the figures *)
(* kept next to them: which post is the last one of a topic and of a       *)
(* forum, and how many posts a topic, a forum and a user have.  Nothing    *)
(* derives those figures on read, every operation patches them, so the     *)
(* question is whether the patches add up.                                 *)
(*                                                                         *)
(* One action is one request that runs to its last commit; what several    *)
(* requests do to each other, and what a crash between two commits leaves, *)
(* is the subject of other modules.  The database is the default SQLite:   *)
(* foreign keys are not enforced and the next row id is the largest one in *)
(* use plus one, so an id can come back after its row was deleted.         *)
(*                                                                         *)
(* A row that does not exist is the Blank one of its table.  "user" is the *)
(* user name a row keeps for ever; the account behind it is gone when the  *)
(* name is not in users (User.delete sets the foreign keys to NULL).       *)
(***************************************************************************)
EXTENDS Integers, FiniteSets

CONSTANTS
    Users,       \* user names
    Forums,      \* forum ids
    Topics,      \* topic ids (never compared with each other)
    Categories,  \* category ids
    CategoryOf,  \* the category of each forum
    Boards,      \* the sets of permissions in which the boards differ
    MaxTime,     \* bound: how many posts are ever written
    None         \* NULL

PostIds == 1..MaxTime
Times   == 0..MaxTime

\* Every request needs a permission: of a user, a moderator or an administrator.
Permissions == {"posttopic", "postreply", "deletepost", "deletetopic",
                "makehidden", "move", "deleteforum", "deletecategory",
                "addforum", "deleteuser"}

ASSUME BoundsAssumption == MaxTime \in Nat
ASSUME NoneAssumption == None \notin PostIds \cup Topics \cup Forums \cup Users
ASSUME FiniteAssumption == IsFiniteSet(Topics)
ASSUME CategoryAssumption == CategoryOf \in [Forums -> Categories]
ASSUME BoardsAssumption == Boards \subseteq SUBSET Permissions

VARIABLES
    post,    \* table posts
    topic,   \* table topics
    forum,   \* table forums
    tally,   \* users.post_count
    forums,  \* the forums that exist
    users,   \* the accounts that exist
    clock,   \* the time of the latest post
    granted  \* the permissions anyone on this board has

vars == <<post, topic, forum, tally, forums, users, clock, granted>>

PostRow  == [topic: Topics \cup {None}, user: Users \cup {None},
             hidden: BOOLEAN, created: Times]
TopicRow == [forum: Forums \cup {None}, user: Users \cup {None},
             hidden: BOOLEAN, first: PostIds \cup {None},
             last: PostIds \cup {None}, updated: Times, posts: Nat]
ForumRow == [last: PostIds \cup {None}, lastUser: Users \cup {None},
             lastCreated: Times, topics: Int, posts: Int]

BlankPost  == [topic |-> None, user |-> None, hidden |-> FALSE, created |-> 0]
BlankTopic == [forum |-> None, user |-> None, hidden |-> FALSE, first |-> None,
               last |-> None, updated |-> 0, posts |-> 0]
BlankForum == [last |-> None, lastUser |-> None, lastCreated |-> 0,
               topics |-> 0, posts |-> 0]

\* Rows are of their types; the counts of forums and users may be patched below zero
\* (moving a hidden topic does it), the count of a topic never is.
TypeOK ==
    /\ post \in [PostIds -> PostRow]
    /\ topic \in [Topics -> TopicRow]
    /\ forum \in [Forums -> ForumRow]
    /\ tally \in [Users -> Int]
    /\ forums \subseteq Forums
    /\ users \subseteq Users
    /\ clock \in Times
    /\ granted \in Boards

-----------------------------------------------------------------------------
(* Queries.  P and T are the post and the topic table the query runs on:   *)
(* the session flushes before it queries, so a handler's own changes are   *)
(* already in them.                                                        *)

PostsOf(t, P) == {p \in PostIds : P[p].topic = t}

LiveTopics(T) == {t \in Topics : T[t].forum # None}

TopicsIn(f, T) == {t \in Topics : T[t].forum = f}

PostsIn(f, P, T) ==
    {p \in PostIds : P[p].topic # None /\ T[P[p].topic].forum = f}

\* Post.hidden.is_(False) alone, whatever the post's topic.
UnhiddenIn(f, P, T) == {p \in PostsIn(f, P, T) : ~P[p].hidden}

\* Post.hidden.is_(False) and Topic.hidden.is_(False).
ShownPosts(P, T) ==
    {p \in PostIds : P[p].topic # None /\ ~P[p].hidden /\ ~T[P[p].topic].hidden}

ShownIn(f, P, T) == ShownPosts(P, T) \cap PostsIn(f, P, T)

ShownBy(u, P, T) == {p \in ShownPosts(P, T) : P[p].user = u}

ShownTopicsIn(f, T) == {t \in TopicsIn(f, T) : ~T[t].hidden}

Newest(S) == CHOOSE p \in S : \A q \in S : q <= p

\* The relationship forum.last_post: a dangling last_post_id loads as None.
LastPost(f) ==
    IF \E p \in PostIds : p = forum[f].last /\ post[p].topic # None
    THEN forum[f].last ELSE None

\* Topic.second_last_post: self.posts is a dynamic relationship and its query
\* refuses the index -2 with an IndexError, which the property turns into None.
SecondLastPost(t) == None

-----------------------------------------------------------------------------
(* Pieces of the handlers.                                                 *)

WithLast(row, p, name, time) ==
    [row EXCEPT !.last = p, !.lastUser = name, !.lastCreated = time]

\* Post.save and Topic.save: one more post, and perhaps one more topic.
WithNewPost(row, p, name, time, more) ==
    [WithLast(row, p, name, time) EXCEPT !.posts = @ + 1, !.topics = @ + more]

\* NULL in all three columns.  In the date 0 stands for it, as no post is that old: where
\* the code tests the date for NULL the model tests it for 0.
WithoutLast(row) == WithLast(row, None, None, 0)

\* Forum.update_last_post: the newest post of the forum, hidden or not.
UpdateLastPostKeepingName(row, f, P, T) ==
    LET all  == PostsIn(f, P, T)
        last == Newest(all)
    IN  IF all = {} THEN WithoutLast(row)
        ELSE WithLast(row, last, row.lastUser, P[last].created)

UpdateLastPost(row, f, P, T) ==
    LET all  == PostsIn(f, P, T)
        last == Newest(all)
    IN  IF all = {} THEN WithoutLast(row)
        ELSE IF last = row.last THEN row
        ELSE WithLast(row, last, P[last].user, P[last].created)

\* Topic._fix_user_post_counts
FixUserPostCountsOfHiddenTopics(involved, P, T) ==
    [u \in Users |-> IF u \in involved
                     THEN Cardinality({p \in PostIds : P[p].user = u /\ ~P[p].hidden})
                     ELSE tally[u]]

FixUserPostCounts(involved, P, T) ==
    [u \in Users |-> IF u \in involved THEN Cardinality(ShownBy(u, P, T))
                     ELSE tally[u]]

\* Topic.involved_users
InvolvedUsers(t) == {u \in users : \E p \in PostsOf(t, post) : post[p].user = u}

FixPostCountsUnflushed(row, f, P, T) ==
    [row EXCEPT !.topics = Cardinality(ShownTopicsIn(f, topic)),
                !.posts  = Cardinality(UnhiddenIn(f, post, topic))]

FixPostCountsAllTopics(row, f, P, T) ==
    [row EXCEPT !.topics = Cardinality(TopicsIn(f, T)),
                !.posts  = Cardinality(UnhiddenIn(f, P, T))]

\* Topic._fix_post_counts, after t was hidden or deleted in P and T.  The count
\* of posts asks for Post.hidden only.
FixPostCounts(row, f, P, T) ==
    [row EXCEPT !.topics = Cardinality(ShownTopicsIn(f, T)),
                !.posts  = Cardinality(UnhiddenIn(f, P, T))]

\* Forum.recalculate
Recalculate(row, f, P, T) ==
    [row EXCEPT !.topics = Cardinality(ShownTopicsIn(f, T)),
                !.posts  = Cardinality(ShownIn(f, P, T))]

TopicKeepingPost(p, row) == row

\* Post._deal_with_last_post, the topic's part.
TopicWithoutPost(p, row) ==
    LET t    == post[p].topic
        last == IF SecondLastPost(t) # None THEN SecondLastPost(t) ELSE row.first
    IN  IF row.last = p
        THEN [row EXCEPT !.last = last, !.updated = post[last].created]
        ELSE row

\* Post._deal_with_last_post, the forum's part: p is hidden or gone in P.
ForumWithoutPost(p, row, f, P) ==
    LET rest == UnhiddenIn(f, P, topic) \ {p}
        last == Newest(rest)
    IN  IF topic[post[p].topic].last # p \/ row.last # p THEN row
        ELSE IF rest = {} THEN WithoutLast(row)
        ELSE WithLast(row, last, P[last].user, P[last].created)

TopicCountUnflushed(t, P, hidden) ==
    IF hidden THEN 0 ELSE Cardinality({p \in PostsOf(t, post) : ~post[p].hidden})

TopicCountByOne(t, P, hidden) ==
    LET shown(Q) == Cardinality({p \in PostsOf(t, Q) : ~Q[p].hidden})
    IN  IF shown(P) > shown(post) THEN topic[t].posts + 1 ELSE topic[t].posts - 1

\* Post._update_counts, the topic's part.
TopicCount(t, P, hidden) ==
    IF hidden THEN 0 ELSE Cardinality({p \in PostsOf(t, P) : ~P[p].hidden})

\* Topic._remove_topic_from_forum: t still counts as shown when it queries.
RemoveTopicFromForum(t, row, f) ==
    LET shown  == ShownTopicsIn(f, topic)
        rest   == shown \ {t}
        second == CHOOSE s \in rest : \A o \in rest : topic[o].last <= topic[s].last
    IN  IF Cardinality(shown) <= 1 THEN WithoutLast(row)
        ELSE IF topic[t].last > topic[second].last
        THEN WithLast(row, topic[second].last, topic[second].user, topic[second].updated)
        ELSE row

RestoreOnlyNewerTopic(t, row, f) ==
    IF row.lastCreated > 0 /\ row.lastCreated < topic[t].updated
    THEN WithLast(row, topic[t].last, topic[t].user, topic[t].updated)
    ELSE row

\* Topic._restore_topic_to_forum
RestoreTopicToForum(t, row, f) ==
    IF \/ LastPost(f) = None
       \/ row.lastCreated > 0 /\ row.lastCreated < topic[t].updated
    THEN WithLast(row, topic[t].last, topic[t].user, topic[t].updated)
    ELSE row

\* Topic._handle_first_post
HandleFirstPost(t, hidden) == [post EXCEPT ![topic[t].first].hidden = hidden]

\* The cascades Forum.topics and Topic.posts.
WithoutCascade(gone, P) == P
WithoutTopics(gone, P) ==
    [p \in PostIds |-> IF P[p].topic \in gone THEN BlankPost ELSE P[p]]

\* SQLite's next row id.
NextId(p) ==
    /\ post[p].topic = None
    /\ \A q \in PostIds : post[q].topic # None => q < p
    /\ \A q \in PostIds : q = p - 1 => post[q].topic # None

-----------------------------------------------------------------------------
Init ==
    /\ post = [p \in PostIds |-> BlankPost]
    /\ topic = [t \in Topics |-> BlankTopic]
    /\ forum = [f \in Forums |-> BlankForum]
    /\ tally = [u \in Users |-> 0]
    /\ forums = Forums
    /\ users = Users
    /\ clock = 0
    /\ granted \in Boards

\* Topic.save of a new topic together with the Post.save it calls.
NewTopic(u, f) ==
    /\ "posttopic" \in granted
    /\ u \in users /\ f \in forums /\ clock < MaxTime
    /\ clock' = clock + 1
    /\ \E t \in Topics \ LiveTopics(topic), p \in PostIds :
        /\ NextId(p)
        /\ post' = [post EXCEPT ![p] = [topic |-> t, user |-> u,
                                        hidden |-> FALSE, created |-> clock']]
        /\ topic' = [topic EXCEPT ![t] = [forum |-> f, user |-> u, hidden |-> FALSE,
                                          first |-> p, last |-> p,
                                          updated |-> clock', posts |-> 1]]
        /\ forum' = [forum EXCEPT ![f] = WithNewPost(@, p, u, clock', 1)]
    /\ tally' = [tally EXCEPT ![u] = @ + 1]
    /\ UNCHANGED <<forums, users, granted>>

\* Post.save of a new post.  A reply to a hidden topic is stored and counted
\* nowhere.
Reply(u, t) ==
    LET f == topic[t].forum IN
    /\ "postreply" \in granted
    /\ u \in users /\ t \in LiveTopics(topic) /\ clock < MaxTime
    /\ clock' = clock + 1
    /\ \E p \in PostIds :
        /\ NextId(p)
        /\ post' = [post EXCEPT ![p] = [topic |-> t, user |-> u,
                                        hidden |-> FALSE, created |-> clock']]
        /\ IF topic[t].hidden
           THEN UNCHANGED <<topic, forum, tally>>
           ELSE /\ topic' = [topic EXCEPT ![t].last = p, ![t].updated = clock',
                                          ![t].posts = @ + 1]
                /\ forum' = [forum EXCEPT ![f] = WithNewPost(@, p, u, clock', 0)]
                /\ tally' = [tally EXCEPT ![u] = @ + 1]
    /\ UNCHANGED <<forums, users, granted>>

\* Topic.delete
DeleteTopic(t) ==
    LET f    == topic[t].forum
        P    == WithoutTopics({t}, post)
        T    == [topic EXCEPT ![t] = BlankTopic]
        row  == FixPostCounts(forum[f], f, P, T)
    IN  /\ post' = P
        /\ topic' = T
        /\ tally' = FixUserPostCounts(InvolvedUsers(t), P, T)
        /\ forum' = [forum EXCEPT ![f] =
                        IF row.last = None \/ row.last = topic[t].last
                        THEN UpdateLastPost(row, f, P, T) ELSE row]
        /\ UNCHANGED <<forums, users, clock, granted>>

\* Topic.hide
HideTopic(t) ==
    LET f == topic[t].forum
        P == HandleFirstPost(t, TRUE)
        T == [topic EXCEPT ![t].hidden = TRUE]
    IN  /\ ~topic[t].hidden
        /\ post' = P
        /\ topic' = T
        /\ tally' = FixUserPostCounts(InvolvedUsers(t), P, T)
        /\ forum' = [forum EXCEPT ![f] =
                        FixPostCounts(RemoveTopicFromForum(t, @, f), f, P, T)]
        /\ UNCHANGED <<forums, users, clock, granted>>

\* Topic.unhide
UnhideTopic(t) ==
    LET f == topic[t].forum
        P == HandleFirstPost(t, FALSE)
        T == [topic EXCEPT ![t].hidden = FALSE]
    IN  /\ topic[t].hidden
        /\ post' = P
        /\ topic' = T
        /\ tally' = FixUserPostCounts(InvolvedUsers(t), P, T)
        /\ forum' = [forum EXCEPT ![f] =
                        Recalculate(RestoreTopicToForum(t, @, f), f, P, T)]
        /\ UNCHANGED <<forums, users, clock, granted>>

\* What Post.delete and Post.hide do to a post that is not the first one of its
\* topic: P is the post table without it or with it hidden.  The count of its
\* author's posts needs the account (self.user.id); without it the request
\* fails and is rolled back.
TakeAway(p, P) ==
    LET t == post[p].topic
        f == topic[t].forum
        u == post[p].user
    IN  /\ u \in users
        /\ post' = P
        /\ topic' = [topic EXCEPT ![t] =
                        [TopicWithoutPost(p, @) EXCEPT
                            !.posts = TopicCount(t, P, topic[t].hidden)]]
        /\ forum' = [forum EXCEPT ![f] =
                        [ForumWithoutPost(p, @, f, P) EXCEPT
                            !.posts = Cardinality(ShownIn(f, P, topic))]]
        /\ tally' = [tally EXCEPT ![u] = Cardinality(ShownBy(u, P, topic))]
        /\ UNCHANGED <<forums, users, clock, granted>>

DeleteReply(p) == TakeAway(p, [post EXCEPT ![p] = BlankPost])

HideReply(p) == ~post[p].hidden /\ TakeAway(p, [post EXCEPT ![p].hidden = TRUE])

\* Post._restore_post_to_topic: the outcomes of comparing p with one unhidden
\* post of its topic.  The query names no order: any of them may be the one.
FoundNewest(p) ==
    LET others == {q \in PostsOf(post[p].topic, post) \ {p} : ~post[q].hidden}
    IN  {post[p].created > post[q].created : q \in others}
        \cup (IF others = {} THEN {FALSE} ELSE {})

\* Post.unhide of a post that is not the first one of its topic.
UnhideReply(p) ==
    LET t     == post[p].topic
        f     == topic[t].forum
        u     == post[p].user
        P     == [post EXCEPT ![p].hidden = FALSE]
        newer == LastPost(f) = None \/ post[p].created > post[LastPost(f)].created
    IN  /\ post[p].hidden /\ u \in users
        /\ \E newest \in FoundNewest(p) :
            /\ topic' = [topic EXCEPT ![t].last = IF newest THEN p ELSE @,
                                      ![t].posts = TopicCount(t, P, topic[t].hidden)]
            /\ forum' = [forum EXCEPT ![f] =
                            [IF newest /\ ~topic[t].hidden /\ newer
                             THEN WithLast(@, p, u, post[p].created) ELSE @ EXCEPT
                             !.posts = Cardinality(ShownIn(f, P, topic))]]
        /\ post' = P
        /\ tally' = [tally EXCEPT ![u] = Cardinality(ShownBy(u, P, topic))]
        /\ UNCHANGED <<forums, users, clock, granted>>

IsFirstNever(p) == FALSE
IsFirst(p) == topic[post[p].topic].first = p

\* Post.delete, Post.hide, Post.unhide: the first post stands for its topic.
DeletePost(p) ==
    /\ "deletepost" \in granted /\ post[p].topic # None
    /\ IF IsFirst(p) THEN DeleteTopic(post[p].topic) ELSE DeleteReply(p)

HidePost(p) ==
    /\ "makehidden" \in granted /\ post[p].topic # None
    /\ IF IsFirst(p) THEN ~post[p].hidden /\ HideTopic(post[p].topic) ELSE HideReply(p)

UnhidePost(p) ==
    /\ "makehidden" \in granted /\ post[p].topic # None
    /\ IF IsFirst(p) THEN post[p].hidden /\ UnhideTopic(post[p].topic) ELSE UnhideReply(p)

\* The views and moderator actions on a whole topic.
RemoveTopic(t) == "deletetopic" \in granted /\ t \in LiveTopics(topic) /\ DeleteTopic(t)

ConcealTopic(t) == "makehidden" \in granted /\ t \in LiveTopics(topic) /\ HideTopic(t)

RevealTopic(t) == "makehidden" \in granted /\ t \in LiveTopics(topic) /\ UnhideTopic(t)

\* Topic.move: the counters travel with the topic, then both forums look for
\* their last post again.
MoveTopic(t, g) ==
    LET f    == topic[t].forum
        T    == [topic EXCEPT ![t].forum = g]
        from == [forum[f] EXCEPT !.posts = @ - topic[t].posts, !.topics = @ - 1]
        to   == [forum[g] EXCEPT !.posts = @ + topic[t].posts, !.topics = @ + 1]
    IN  /\ "move" \in granted
        /\ t \in LiveTopics(topic) /\ g \in forums /\ f # g
        /\ topic' = T
        /\ forum' = [forum EXCEPT ![f] = UpdateLastPost(from, f, post, T),
                                  ![g] = UpdateLastPost(to, g, post, T)]
        /\ UNCHANGED <<post, tally, forums, users, clock, granted>>

\* The view DeleteForum: its query does not join posts to topics and returns
\* every author of the board as soon as the forum has a topic.
InvolvedInForum(f) ==
    {u \in users : TopicsIn(f, topic) # {} /\ \E p \in PostIds : post[p].user = u}

\* Forum.delete.  The posts of the users it is given are counted whether hidden
\* or not.
DeleteForum(f) ==
    LET gone == TopicsIn(f, topic)
        P    == WithoutTopics(gone, post)
    IN  /\ "deleteforum" \in granted /\ f \in forums
        /\ post' = P
        /\ topic' = [t \in Topics |-> IF t \in gone THEN BlankTopic ELSE topic[t]]
        /\ forum' = [forum EXCEPT ![f] = BlankForum]
        /\ tally' = [u \in Users |->
                        IF u \in InvolvedInForum(f)
                        THEN Cardinality({p \in PostIds : P[p].user = u}) ELSE tally[u]]
        /\ forums' = forums \ {f}
        /\ UNCHANGED <<users, clock, granted>>

\* DeleteCategory and Category.delete: the update of the counts that follows
\* the commit is never committed, so it is not in this step.
DeleteCategory(c) ==
    LET closed == {f \in forums : CategoryOf[f] = c}
        gone   == UNION {TopicsIn(f, topic) : f \in closed}
    IN  /\ "deletecategory" \in granted /\ closed # {}
        /\ post' = WithoutTopics(gone, post)
        /\ topic' = [t \in Topics |-> IF t \in gone THEN BlankTopic ELSE topic[t]]
        /\ forum' = [f \in Forums |-> IF f \in closed THEN BlankForum ELSE forum[f]]
        /\ forums' = forums \ closed
        /\ UNCHANGED <<tally, users, clock, granted>>

\* Forum.save of a new forum; last_post_created has the time as its default.
AddForum(f) ==
    /\ "addforum" \in granted /\ f \notin forums
    /\ forums' = forums \cup {f}
    /\ forum' = [forum EXCEPT ![f].lastCreated = clock]
    /\ UNCHANGED <<post, topic, tally, users, clock, granted>>

\* User.delete: the posts stay, their author's account is gone.
DeleteUser(u) ==
    /\ "deleteuser" \in granted /\ u \in users
    /\ users' = users \ {u}
    /\ tally' = [tally EXCEPT ![u] = 0]
    /\ UNCHANGED <<post, topic, forum, forums, clock, granted>>

Next ==
    \/ \E u \in Users, f \in Forums : NewTopic(u, f)
    \/ \E u \in Users, t \in Topics : Reply(u, t)
    \/ \E p \in PostIds : DeletePost(p)
    \/ \E p \in PostIds : HidePost(p)
    \/ \E p \in PostIds : UnhidePost(p)
    \/ \E t \in Topics : RemoveTopic(t)
    \/ \E t \in Topics : ConcealTopic(t)
    \/ \E t \in Topics : RevealTopic(t)
    \/ \E t \in Topics, g \in Forums : MoveTopic(t, g)
    \/ \E f \in Forums : DeleteForum(f)
    \/ \E c \in Categories : DeleteCategory(c)
    \/ \E f \in Forums : AddForum(f)
    \/ \E u \in Users : DeleteUser(u)

Spec == Init /\ [][Next]_vars

-----------------------------------------------------------------------------
(* Properties.                                                             *)

\* What is deleted takes everything below it along: every post is in a topic that
\* exists and every topic is in a forum that exists.  (The cascades of
\* Category.forums, Forum.topics and Topic.posts, and Topic.move.)
NoOrphans ==
    /\ \A p \in PostIds : post[p].topic # None => post[p].topic \in LiveTopics(topic)
    /\ \A t \in LiveTopics(topic) : topic[t].forum \in forums

\* The first post of a topic is one of its posts, the oldest one, and is hidden
\* exactly when the topic is: what hides one hides the other, and replies come
\* and go without touching either.  (Topic._handle_first_post and the tests on
\* first_post in Post.delete, Post.hide and Post.unhide.)
FirstPostMirrorsTopic ==
    \A t \in LiveTopics(topic) :
        LET p == topic[t].first IN
        /\ p \in PostsOf(t, post)
        /\ (post[p].hidden <=> topic[t].hidden)
        /\ \A q \in PostsOf(t, post) : p <= q

\* The last post of a topic exists and belongs to it, and it is a hidden one only
\* when it is the first one: a visible topic never shows a hidden post as its
\* last one.  (Post._deal_with_last_post, Post._restore_post_to_topic.)
LastPostInTopic ==
    \A t \in LiveTopics(topic) :
        LET p == topic[t].last IN
        /\ p \in PostsOf(t, post)
        /\ post[p].hidden => p = topic[t].first

\* A forum with a visible post never claims to have no last post.
ForumNotForgotten ==
    \A f \in forums : ShownIn(f, post, topic) # {} => forum[f].last # None

\* The inductive invariant: the properties above need each other.
IInv == /\ TypeOK
        /\ NoOrphans
        /\ FirstPostMirrorsTopic
        /\ LastPostInTopic
        /\ ForumNotForgotten

\* Nobody on this board may do any of S.
Never(S) == granted \cap S = {}

\* users.post_count is the number of the user's visible posts.
UserCountExact ==
    \A u \in users : tally[u] = Cardinality(ShownBy(u, post, topic))

\* It stays so through every way of writing, deleting, hiding, restoring and
\* moving, as long as no category is deleted, and no forum where posts are hidden.
UserCountKept ==
    Never({"deletecategory"}) /\ (Never({"makehidden"}) \/ Never({"deleteforum"}))
    => UserCountExact

\* forums.topic_count is the number of visible topics.
TopicCountExact ==
    \A f \in forums : forum[f].topics = Cardinality(ShownTopicsIn(f, topic))

\* It stays so where hidden topics are not moved.
TopicCountKept == Never({"move"}) \/ Never({"makehidden"}) => TopicCountExact

\* forums.post_count is the number of visible posts in visible topics.
PostCountExact ==
    \A f \in forums : forum[f].posts = Cardinality(ShownIn(f, post, topic))

\* It stays so, through every deletion and move, where nothing is hidden.
PostCountKept == Never({"makehidden"}) => PostCountExact

\* topics.post_count of a visible topic is the number of its visible posts.
RepliesCountExact ==
    \A t \in LiveTopics(topic) : ~topic[t].hidden =>
        topic[t].posts = Cardinality(PostsOf(t, post) \cap ShownPosts(post, topic))

\* It stays so where nothing is hidden.
RepliesCountKept == Never({"makehidden"}) => RepliesCountExact

\* The last post of a visible topic is its newest visible one.
TopicShowsNewest ==
    \A t \in LiveTopics(topic) : ~topic[t].hidden =>
        topic[t].last = Newest(PostsOf(t, post) \cap ShownPosts(post, topic))

\* The forum's last post is its newest visible one, with that post's author and
\* date next to it.
ForumShowsNewest ==
    \A f \in forums :
        LET shown == ShownIn(f, post, topic)
            p     == Newest(shown)
        IN  IF shown = {} THEN forum[f].last = None
            ELSE /\ forum[f].last = p
                 /\ forum[f].lastUser = post[p].user
                 /\ forum[f].lastCreated = post[p].created

\* That stays so, whatever topics are moved or deleted, where no single post is
\* hidden or deleted.
ForumShowsNewestKept == Never({"makehidden", "deletepost"}) => ForumShowsNewest
=============================================================================
