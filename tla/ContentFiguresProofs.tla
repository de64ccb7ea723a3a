----------------------- MODULE ContentFiguresProofs -----------------------
(***************************************************************************)
(* Theorems of ForumContent about the figures kept next to the posts: the  *)
(* counters and the last post of a forum are exact on the boards named by  *)
(* the properties, for any number of users, forums, topics and posts.      *)
(***************************************************************************)
EXTENDS ForumContentProofs

NothingHidden ==
    /\ \A p \in PostIds : ~post[p].hidden
    /\ \A t \in Topics : ~topic[t].hidden

\* A row that does not exist has no author.
BlankRows == \A p \in PostIds : post[p].topic = None => post[p].user = None

\* What all the proofs below start from.
Base == IInv /\ BlankRows /\ (Never({"makehidden"}) => NothingHidden)

\* What DeleteReply and HideReply have in common: P is the table afterwards.
ReplyTaken(p, P) ==
    /\ p \in PostIds /\ post[p].topic # None /\ ~IsFirst(p)
    /\ P \in PostTable /\ \A q \in PostIds \ {p} : P[q] = post[q]
    /\ \/ "deletepost" \in granted /\ P[p] = BlankPost
       \/ "makehidden" \in granted /\ P[p] = [post[p] EXCEPT !.hidden = TRUE]
    /\ TakeAway(p, P)

\* The handlers Next chooses from, whatever view they are called by.
Handlers ==
    \/ \E u \in Users, f \in Forums : NewTopic(u, f)
    \/ \E u \in Users, t \in Topics : Reply(u, t)
    \/ \E t \in LiveTopics(topic) :
        /\ "deletetopic" \in granted \/ "deletepost" \in granted
        /\ DeleteTopic(t)
    \/ \E t \in LiveTopics(topic) : "makehidden" \in granted /\ HideTopic(t)
    \/ \E t \in LiveTopics(topic) : "makehidden" \in granted /\ UnhideTopic(t)
    \/ \E p \in PostIds, P \in PostTable : ReplyTaken(p, P)
    \/ \E p \in PostIds : /\ "makehidden" \in granted /\ post[p].topic # None
                          /\ ~IsFirst(p) /\ UnhideReply(p)
    \/ \E t \in Topics, g \in Forums : MoveTopic(t, g)
    \/ \E f \in Forums : DeleteForum(f)
    \/ \E c \in Categories : DeleteCategory(c)
    \/ \E f \in Forums : AddForum(f)
    \/ \E u \in Users : DeleteUser(u)
    \/ UNCHANGED vars

-----------------------------------------------------------------------------
(* What the handlers do to the tables.                                     *)

LEMMA HandlersOnly ==
    ASSUME IInv, [Next]_vars
    PROVE  Handlers
<1>1. ASSUME NEW p \in PostIds, DeletePost(p) PROVE Handlers
    <2>1. post[p].topic # None /\ post[p].topic \in LiveTopics(topic)
        BY <1>1 DEF DeletePost, IInv, NoOrphans
    <2>2. CASE IsFirst(p)
        BY <1>1, <2>1, <2>2 DEF DeletePost, Handlers
    <2>3. CASE ~IsFirst(p)
        <3> DEFINE P == [post EXCEPT ![p] = BlankPost]
        <3>1. "deletepost" \in granted /\ TakeAway(p, P)
            BY <1>1, <2>3 DEF DeletePost, DeleteReply
        <3>2. BlankPost \in PostRow
            BY TimesFacts DEF BlankPost, PostRow
        <3>3. P \in PostTable /\ P[p] = BlankPost /\ \A q \in PostIds \ {p} : P[q] = post[q]
            BY <3>2 DEF IInv, TypeOK, PostTable
        <3> HIDE DEF P
        <3>4. ReplyTaken(p, P)
            BY <2>1, <2>3, <3>1, <3>3 DEF ReplyTaken
        <3> QED BY <3>3, <3>4 DEF Handlers
    <2> QED BY <2>2, <2>3
<1>2. ASSUME NEW p \in PostIds, HidePost(p) PROVE Handlers
    <2>1. post[p].topic # None /\ post[p].topic \in LiveTopics(topic)
        BY <1>2 DEF HidePost, IInv, NoOrphans
    <2>2. CASE IsFirst(p)
        BY <1>2, <2>1, <2>2 DEF HidePost, Handlers
    <2>3. CASE ~IsFirst(p)
        <3> DEFINE P == [post EXCEPT ![p].hidden = TRUE]
        <3>1. "makehidden" \in granted /\ TakeAway(p, P)
            BY <1>2, <2>3 DEF HidePost, HideReply
        <3>2. P \in PostTable
            BY DEF IInv, TypeOK, PostTable, PostRow
        <3>3. /\ P[p] = [post[p] EXCEPT !.hidden = TRUE]
              /\ \A q \in PostIds \ {p} : P[q] = post[q]
            BY DEF IInv, TypeOK
        <3> HIDE DEF P
        <3>4. ReplyTaken(p, P)
            BY <2>1, <2>3, <3>1, <3>2, <3>3 DEF ReplyTaken
        <3> QED BY <3>2, <3>4 DEF Handlers
    <2> QED BY <2>2, <2>3
<1>3. ASSUME NEW p \in PostIds, UnhidePost(p) PROVE Handlers
    <2>1. post[p].topic # None /\ post[p].topic \in LiveTopics(topic)
        BY <1>3 DEF UnhidePost, IInv, NoOrphans
    <2> QED BY <1>3, <2>1 DEF UnhidePost, Handlers
<1>4. ASSUME NEW t \in Topics, RemoveTopic(t) \/ ConcealTopic(t) \/ RevealTopic(t)
      PROVE  Handlers
    BY <1>4 DEF RemoveTopic, ConcealTopic, RevealTopic, Handlers
<1>5. CASE UNCHANGED vars
    BY <1>5 DEF Handlers
<1>6. ASSUME NEW u \in Users, DeleteUser(u) PROVE Handlers
    BY <1>6 DEF Handlers
<1>7. ASSUME NEW u \in Users, NEW f \in Forums, NewTopic(u, f) PROVE Handlers
    BY <1>7 DEF Handlers
<1>8. ASSUME NEW u \in Users, NEW t \in Topics, Reply(u, t) PROVE Handlers
    BY <1>8 DEF Handlers
<1>9. ASSUME NEW t \in Topics, NEW g \in Forums, MoveTopic(t, g) PROVE Handlers
    BY <1>9 DEF Handlers
<1>10. ASSUME NEW f \in Forums, DeleteForum(f) \/ AddForum(f) PROVE Handlers
    BY <1>10 DEF Handlers
<1>11. ASSUME NEW c \in Categories, DeleteCategory(c) PROVE Handlers
    BY <1>11 DEF Handlers
<1> QED BY <1>1, <1>2, <1>3, <1>4, <1>5, <1>6, <1>7, <1>8, <1>9, <1>10, <1>11 DEF Next

\* Permissions never change.
LEMMA GrantedStays == ASSUME IInv, [Next]_vars PROVE granted' = granted
<1>1. Handlers
    BY HandlersOnly
<1>2. ASSUME NEW p \in PostIds, NEW P \in PostTable, ReplyTaken(p, P) PROVE granted' = granted
    BY <1>2 DEF ReplyTaken, TakeAway
<1>3. ASSUME NEW t \in LiveTopics(topic), DeleteTopic(t) \/ HideTopic(t) \/ UnhideTopic(t)
      PROVE  granted' = granted
    BY <1>3 DEF DeleteTopic, HideTopic, UnhideTopic
<1>4. ASSUME NEW p \in PostIds, UnhideReply(p) PROVE granted' = granted
    BY <1>4 DEF UnhideReply
<1>5. ASSUME NEW u \in Users, NEW f \in Forums, NewTopic(u, f) PROVE granted' = granted
    BY <1>5 DEF NewTopic
<1>6. ASSUME NEW u \in Users, NEW t \in Topics, Reply(u, t) PROVE granted' = granted
    BY <1>6 DEF Reply
<1>7. ASSUME NEW t \in Topics, NEW g \in Forums, MoveTopic(t, g) PROVE granted' = granted
    BY <1>7 DEF MoveTopic
<1>8. ASSUME NEW f \in Forums, DeleteForum(f) \/ AddForum(f) PROVE granted' = granted
    BY <1>8 DEF DeleteForum, AddForum
<1>9. ASSUME NEW c \in Categories, DeleteCategory(c) PROVE granted' = granted
    BY <1>9 DEF DeleteCategory
<1>10. ASSUME NEW u \in Users, DeleteUser(u) PROVE granted' = granted
    BY <1>10 DEF DeleteUser
<1>11. CASE UNCHANGED vars
    BY <1>11 DEF vars
<1> QED BY <1>1, <1>2, <1>3, <1>4, <1>5, <1>6, <1>7, <1>8, <1>9, <1>10, <1>11 DEF Handlers

\* Changing the last post leaves the counters.
LEMMA LastLeavesCounters ==
    ASSUME NEW row \in ForumRow, NEW p, NEW name, NEW time
    PROVE  /\ WithLast(row, p, name, time).topics = row.topics
           /\ WithLast(row, p, name, time).posts = row.posts
BY DEF WithLast, ForumRow

LEMMA UpdateLeavesCounters ==
    ASSUME NEW row \in ForumRow, NEW f, NEW P, NEW T
    PROVE  /\ UpdateLastPost(row, f, P, T).topics = row.topics
           /\ UpdateLastPost(row, f, P, T).posts = row.posts
BY LastLeavesCounters DEF WithoutLast, UpdateLastPost

LEMMA TakingLeavesTopics ==
    ASSUME NEW row \in ForumRow, NEW p, NEW f, NEW P
    PROVE  ForumWithoutPost(p, row, f, P).topics = row.topics
BY LastLeavesCounters DEF WithoutLast, ForumWithoutPost

LEMMA NewPostCounts ==
    ASSUME NEW row \in ForumRow, NEW p, NEW name, NEW time, NEW more \in Int
    PROVE  /\ WithNewPost(row, p, name, time, more).topics = row.topics + more
           /\ WithNewPost(row, p, name, time, more).posts = row.posts + 1
           /\ WithNewPost(row, p, name, time, more).last = p
           /\ WithNewPost(row, p, name, time, more).lastUser = name
           /\ WithNewPost(row, p, name, time, more).lastCreated = time
BY DEF WithNewPost, WithLast, ForumRow

\* The new post p of user u in topic t is the last one of all.
Written(p, t, u) ==
    /\ p \in PostIds /\ post[p].topic = None
    /\ \A q \in PostIds : post[q].topic # None => q < p
    /\ post'[p] = [topic |-> t, user |-> u, hidden |-> FALSE, created |-> clock']
    /\ \A q \in PostIds \ {p} : post'[q] = post[q]

\* The topics of the posts there are stay in their forum, and as visible as they are.
TopicsStay ==
    \A q \in PostIds : post[q].topic # None =>
        /\ topic'[post[q].topic].forum = topic[post[q].topic].forum
        /\ topic'[post[q].topic].hidden = topic[post[q].topic].hidden

LEMMA WrittenIn ==
    ASSUME Base, NEW p, NEW t \in Topics, NEW u \in Users, Written(p, t, u), TopicsStay
    PROVE  \A f \in Forums :
                /\ p \notin PostsIn(f, post, topic)
                /\ PostsIn(f, post', topic') = PostsIn(f, post, topic)
                        \cup (IF topic'[t].forum = f THEN {p} ELSE {})
<1>0. t # None /\ None \notin Topics
    BY NullIsNoId
<1>1. /\ p \in PostIds /\ post[p].topic = None /\ post'[p].topic = t
      /\ \A q \in PostIds : q # p => post'[q] = post[q]
    BY DEF Written
<1> QED BY <1>0, <1>1 DEF PostsIn, TopicsStay

\* What is shown of a user: the new post is if its topic is visible.
WrittenIsShown(p, t, u) ==
    \A v \in Users :
        /\ p \notin ShownBy(v, post, topic)
        /\ ShownBy(v, post', topic') = ShownBy(v, post, topic)
                \cup (IF v = u /\ ~topic'[t].hidden THEN {p} ELSE {})

LEMMA WrittenShown ==
    ASSUME Base, NEW p, NEW t \in Topics, NEW u \in Users, Written(p, t, u), TopicsStay
    PROVE  WrittenIsShown(p, t, u)
<1>0. t # None /\ None \notin Topics
    BY NullIsNoId
<1>1. /\ p \in PostIds /\ post[p].topic = None
      /\ post'[p].topic = t /\ post'[p].user = u /\ ~post'[p].hidden
      /\ \A q \in PostIds : q # p => post'[q] = post[q]
    BY DEF Written
<1> QED BY <1>0, <1>1 DEF WrittenIsShown, ShownBy, ShownPosts, TopicsStay

LEMMA WrittenOf ==
    ASSUME NEW p, NEW t \in Topics, NEW u \in Users, Written(p, t, u)
    PROVE  \A s \in Topics :
                /\ p \notin PostsOf(s, post)
                /\ PostsOf(s, post') = PostsOf(s, post) \cup (IF s = t THEN {p} ELSE {})
<1>0. None \notin Topics
    BY NullIsNoId
<1>1. /\ p \in PostIds /\ post[p].topic = None /\ post'[p].topic = t
      /\ \A q \in PostIds : q # p => post'[q] = post[q]
    BY DEF Written
<1> QED BY <1>0, <1>1 DEF PostsOf

LEMMA TopicWritten ==
    ASSUME Base, NEW u \in Users, NEW f \in Forums, NewTopic(u, f)
    PROVE  /\ u \in users /\ users' = users
           /\ tally' = [tally EXCEPT ![u] = @ + 1]
           /\ \E t \in Topics, p \in PostIds :
                /\ Written(p, t, u) /\ TopicsStay
                /\ topic[t].forum = None
                /\ topic'[t] = [forum |-> f, user |-> u, hidden |-> FALSE, first |-> p,
                                last |-> p, updated |-> clock', posts |-> 1]
                /\ \A s \in Topics \ {t} : topic'[s] = topic[s]
                /\ forum' = [forum EXCEPT ![f] = WithNewPost(forum[f], p, u, clock', 1)]
<1>1. PICK t \in Topics \ LiveTopics(topic), p \in PostIds :
        /\ NextId(p)
        /\ post' = [post EXCEPT ![p] = [topic |-> t, user |-> u,
                                        hidden |-> FALSE, created |-> clock']]
        /\ topic' = [topic EXCEPT ![t] = [forum |-> f, user |-> u, hidden |-> FALSE,
                                          first |-> p, last |-> p,
                                          updated |-> clock', posts |-> 1]]
        /\ forum' = [forum EXCEPT ![f] = WithNewPost(@, p, u, clock', 1)]
    BY DEF NewTopic
<1>2. Written(p, t, u)
    BY <1>1, NextIdIsFresh DEF Written, Base, IInv, TypeOK
<1>3. /\ topic[t].forum = None
      /\ topic'[t] = [forum |-> f, user |-> u, hidden |-> FALSE, first |-> p,
                      last |-> p, updated |-> clock', posts |-> 1]
      /\ \A s \in Topics \ {t} : topic'[s] = topic[s]
    BY <1>1 DEF Base, IInv, TypeOK, LiveTopics
<1>4. TopicsStay
    BY <1>1, <1>3, Members DEF TopicsStay, Base, IInv, NoOrphans
<1> QED BY <1>1, <1>2, <1>3, <1>4 DEF NewTopic

LEMMA ReplyWritten ==
    ASSUME Base, NEW u \in Users, NEW t \in Topics, Reply(u, t)
    PROVE  /\ u \in users /\ users' = users
           /\ t \in LiveTopics(topic) /\ topic[t].forum \in Forums
           /\ \A s \in Topics : /\ topic'[s].forum = topic[s].forum
                                /\ topic'[s].hidden = topic[s].hidden
           /\ \A s \in Topics \ {t} : topic'[s] = topic[s]
           /\ \E p \in PostIds :
                /\ Written(p, t, u) /\ TopicsStay
                /\ IF topic[t].hidden
                   THEN UNCHANGED <<forum, tally>>
                   ELSE /\ topic'[t].last = p /\ topic'[t].posts = topic[t].posts + 1
                        /\ forum' = [forum EXCEPT ![topic[t].forum] =
                                        WithNewPost(forum[topic[t].forum], p, u, clock', 0)]
                        /\ tally' = [tally EXCEPT ![u] = @ + 1]
<1>1. PICK p \in PostIds :
        /\ NextId(p)
        /\ post' = [post EXCEPT ![p] = [topic |-> t, user |-> u,
                                        hidden |-> FALSE, created |-> clock']]
        /\ IF topic[t].hidden
           THEN UNCHANGED <<topic, forum, tally>>
           ELSE /\ topic' = [topic EXCEPT ![t].last = p, ![t].updated = clock',
                                          ![t].posts = @ + 1]
                /\ forum' = [forum EXCEPT ![topic[t].forum] = WithNewPost(@, p, u, clock', 0)]
                /\ tally' = [tally EXCEPT ![u] = @ + 1]
    BY DEF Reply
<1>2. Written(p, t, u)
    BY <1>1, NextIdIsFresh DEF Written, Base, IInv, TypeOK
<1>3. /\ \A s \in Topics : topic'[s].forum = topic[s].forum
      /\ \A s \in Topics : topic'[s].hidden = topic[s].hidden
      /\ \A s \in Topics \ {t} : topic'[s] = topic[s]
      /\ ~topic[t].hidden => topic'[t].last = p /\ topic'[t].posts = topic[t].posts + 1
    BY <1>1 DEF Base, IInv, TypeOK, TopicRow
<1>4. TopicsStay
    BY <1>3, Members DEF TopicsStay, Base, IInv, NoOrphans
<1>5. u \in users /\ users' = users /\ t \in LiveTopics(topic) /\ topic[t].forum \in Forums
    BY DEF Reply, Base, IInv, NoOrphans, TypeOK
<1> QED BY <1>1, <1>2, <1>3, <1>4, <1>5

\* The topics of gone are deleted, with their posts.
Vanished(gone) ==
    /\ gone \subseteq Topics
    /\ post' = WithoutTopics(gone, post)
    /\ \A s \in gone : topic'[s] = BlankTopic
    /\ \A s \in Topics \ gone : topic'[s] = topic[s]

LEMMA VanishedSets ==
    ASSUME Base, NEW gone, Vanished(gone)
    PROVE  /\ \A p \in PostIds : /\ post[p].topic \in gone => post'[p] = BlankPost
                                 /\ post[p].topic \notin gone => post'[p] = post[p]
           /\ \A f \in Forums : PostsIn(f, post', topic')
                    = {p \in PostsIn(f, post, topic) : post[p].topic \notin gone}
           /\ \A u \in Users : ShownBy(u, post', topic')
                    = {p \in ShownBy(u, post, topic) : post[p].topic \notin gone}
           /\ \A f \in Forums : ShownTopicsIn(f, topic') = ShownTopicsIn(f, topic) \ gone
           /\ \A s \in Topics \ gone : PostsOf(s, post') = PostsOf(s, post)
           /\ LiveTopics(topic') = LiveTopics(topic) \ gone
<1>0. None \notin Topics /\ None \notin Forums
    BY NullIsNoId
<1>1. /\ \A p \in PostIds : post[p].topic \in gone => post'[p] = BlankPost
      /\ \A p \in PostIds : post[p].topic \notin gone => post'[p] = post[p]
    BY DEF Vanished, WithoutTopics
<1>2. BlankPost.topic = None /\ BlankTopic.forum = None
    BY DEF BlankPost, BlankTopic
<1>3. \A p \in PostIds : post[p].topic # None => post[p].topic \in Topics
    BY Members DEF Base, IInv, NoOrphans
<1>4. ASSUME NEW f \in Forums
      PROVE  PostsIn(f, post', topic')
                = {p \in PostsIn(f, post, topic) : post[p].topic \notin gone}
    BY <1>1, <1>2, <1>3 DEF PostsIn, Vanished
<1>5. ASSUME NEW u \in Users
      PROVE  ShownBy(u, post', topic')
                = {p \in ShownBy(u, post, topic) : post[p].topic \notin gone}
    BY <1>1, <1>2, <1>3 DEF ShownBy, ShownPosts, Vanished
<1>6. ASSUME NEW f \in Forums
      PROVE  ShownTopicsIn(f, topic') = ShownTopicsIn(f, topic) \ gone
    BY <1>0, <1>2 DEF ShownTopicsIn, TopicsIn, Vanished
<1>7. ASSUME NEW s \in Topics \ gone PROVE PostsOf(s, post') = PostsOf(s, post)
    BY <1>0, <1>1, <1>2 DEF PostsOf
<1>8. LiveTopics(topic') = LiveTopics(topic) \ gone
    BY <1>2 DEF LiveTopics, Vanished
<1> QED BY <1>1, <1>4, <1>5, <1>6, <1>7, <1>8

LEMMA TopicVanishes ==
    ASSUME Base, NEW t \in LiveTopics(topic), DeleteTopic(t)
    PROVE  Vanished({t}) /\ t \in Topics /\ topic[t].forum \in Forums /\ users' = users
BY DEF DeleteTopic, Vanished, LiveTopics, Base, IInv, NoOrphans, TypeOK

LEMMA ForumVanishes ==
    ASSUME Base, NEW f \in Forums, DeleteForum(f)
    PROVE  /\ Vanished(TopicsIn(f, topic)) /\ users' = users
           /\ forum'[f] = BlankForum /\ \A g \in Forums \ {f} : forum'[g] = forum[g]
<1>1. TopicsIn(f, topic) \subseteq Topics
    BY DEF TopicsIn
<1>2. /\ post' = WithoutTopics(TopicsIn(f, topic), post)
      /\ topic' = [t \in Topics |-> IF t \in TopicsIn(f, topic) THEN BlankTopic ELSE topic[t]]
      /\ forum' = [forum EXCEPT ![f] = BlankForum] /\ users' = users
    BY DEF DeleteForum
<1> QED BY <1>1, <1>2 DEF Vanished, Base, IInv, TypeOK

LEMMA CategoryVanishes ==
    ASSUME Base, NEW c \in Categories, DeleteCategory(c)
    PROVE  LET closed == {f \in forums : CategoryOf[f] = c}
               gone   == UNION {TopicsIn(f, topic) : f \in closed}
           IN  /\ Vanished(gone) /\ "deletecategory" \in granted
               /\ \A f \in closed : forum'[f] = BlankForum
               /\ \A f \in Forums \ closed : forum'[f] = forum[f]
<1> DEFINE closed == {f \in forums : CategoryOf[f] = c}
           gone   == UNION {TopicsIn(f, topic) : f \in closed}
<1>1. gone \subseteq Topics
    BY DEF TopicsIn
<1>2. closed \subseteq Forums
    BY DEF Base, IInv, TypeOK
<1>3. /\ post' = WithoutTopics(gone, post)
      /\ topic' = [t \in Topics |-> IF t \in gone THEN BlankTopic ELSE topic[t]]
      /\ forum' = [f \in Forums |-> IF f \in closed THEN BlankForum ELSE forum[f]]
      /\ "deletecategory" \in granted
    BY DEF DeleteCategory
<1> HIDE DEF gone, closed
<1>4. Vanished(gone)
    BY <1>1, <1>3 DEF Vanished
<1>5. /\ \A f \in closed : forum'[f] = BlankForum
      /\ \A f \in Forums \ closed : forum'[f] = forum[f]
    BY <1>2, <1>3
<1> QED BY <1>3, <1>4, <1>5 DEF gone, closed

\* The forums closed are deleted, and gone are the topics in them.
Closing(closed, gone) ==
    /\ Vanished(gone)
    /\ \A g \in closed : forum'[g] = BlankForum /\ TopicsIn(g, topic) \subseteq gone
    /\ \A g \in Forums \ closed : forum'[g] = forum[g] /\ TopicsIn(g, topic) \cap gone = {}

ForumsGo == \/ \E f \in Forums : DeleteForum(f)
            \/ \E c \in Categories : DeleteCategory(c)

LEMMA ForumsClose ==
    ASSUME Base, ForumsGo
    PROVE  \E closed \in SUBSET Forums, gone \in SUBSET Topics : Closing(closed, gone)
<1>1. ASSUME NEW f \in Forums, DeleteForum(f)
      PROVE  Closing({f}, TopicsIn(f, topic)) /\ TopicsIn(f, topic) \in SUBSET Topics
    <2>1. /\ Vanished(TopicsIn(f, topic)) /\ forum'[f] = BlankForum
          /\ \A g \in Forums \ {f} : forum'[g] = forum[g]
        BY <1>1, ForumVanishes
    <2>2. \A g \in Forums \ {f} : TopicsIn(g, topic) \cap TopicsIn(f, topic) = {}
        BY DEF TopicsIn
    <2>3. TopicsIn(f, topic) \in SUBSET Topics
        BY DEF TopicsIn
    <2> QED BY <2>1, <2>2, <2>3 DEF Closing
<1>2. ASSUME NEW c \in Categories, DeleteCategory(c)
      PROVE  \E closed \in SUBSET Forums, gone \in SUBSET Topics : Closing(closed, gone)
    <2> DEFINE closed == {f \in forums : CategoryOf[f] = c}
               gone   == UNION {TopicsIn(f, topic) : f \in closed}
    <2>1. /\ Vanished(gone) /\ \A f \in closed : forum'[f] = BlankForum
          /\ \A f \in Forums \ closed : forum'[f] = forum[f]
        BY <1>2, CategoryVanishes
    <2>2. closed \in SUBSET Forums
        BY DEF Base, IInv, TypeOK
    <2>3. \A g \in closed : TopicsIn(g, topic) \subseteq gone
        OBVIOUS
    <2>4. \A g \in Forums \ closed : TopicsIn(g, topic) \cap gone = {}
        BY DEF TopicsIn
    <2>5. gone \in SUBSET Topics
        BY DEF TopicsIn
    <2> HIDE DEF closed, gone
    <2>6. Closing(closed, gone)
        BY <2>1, <2>3, <2>4 DEF Closing
    <2> QED BY <2>2, <2>5, <2>6
<1> QED BY <1>1, <1>2 DEF ForumsGo

\* Topic t is hidden or restored, and its first post with it.
LEMMA Flagged ==
    ASSUME Base, NEW t \in LiveTopics(topic), HideTopic(t) \/ UnhideTopic(t)
    PROVE  /\ t \in Topics /\ topic[t].forum \in Forums /\ users' = users
           /\ \A p \in PostIds : post'[p].topic = post[p].topic
           /\ \A p \in PostIds : post[p].topic # t => post'[p] = post[p]
           /\ \A p \in PostIds : post'[p].user = post[p].user
           /\ \A s \in Topics : topic'[s].forum = topic[s].forum
           /\ \A s \in Topics \ {t} : topic'[s] = topic[s]
           /\ tally' = FixUserPostCounts(InvolvedUsers(t), post', topic')
           /\ forum'[topic[t].forum].topics
                = Cardinality(ShownTopicsIn(topic[t].forum, topic'))
           /\ \A g \in Forums \ {topic[t].forum} : forum'[g] = forum[g]
<1>1. /\ t \in Topics /\ topic[t].forum \in Forums /\ topic[t].forum \in forums
      /\ topic[t].first \in PostIds /\ post[topic[t].first].topic = t
    BY DEF LiveTopics, Base, IInv, NoOrphans, TypeOK, FirstPostMirrorsTopic, PostsOf
<1>2. PICK hidden \in BOOLEAN : /\ post' = HandleFirstPost(t, hidden)
                                /\ topic' = [topic EXCEPT ![t].hidden = hidden]
    BY DEF HideTopic, UnhideTopic
<1>3. forums' = forums /\ users' = users
      /\ tally' = FixUserPostCounts(InvolvedUsers(t), post', topic')
    BY DEF HideTopic, UnhideTopic
<1>4. /\ \A p \in PostIds : post'[p].topic = post[p].topic
      /\ \A p \in PostIds \ {topic[t].first} : post'[p] = post[p]
      /\ \A s \in Topics : topic'[s].forum = topic[s].forum
      /\ \A s \in Topics \ {t} : topic'[s] = topic[s]
    BY <1>2, <1>3, FlagsOfTopic DEF Base
<1>5. \A p \in PostIds : post'[p].user = post[p].user
    BY <1>1, <1>2 DEF HandleFirstPost, Base, IInv, TypeOK, PostRow
<1>6. PICK row \in ForumRow :
        /\ forum' = [forum EXCEPT ![topic[t].forum] = row]
        /\ row.topics = Cardinality(ShownTopicsIn(topic[t].forum, topic'))
    <2> DEFINE f == topic[t].forum
               removed == RemoveTopicFromForum(t, forum[f], f)
               restored == RestoreTopicToForum(t, forum[f], f)
    <2>1. post' \in PostTable /\ topic' \in TopicTable
        BY <1>2, <1>3, FlagsOfTopic DEF Base
    <2>2. CASE HideTopic(t)
        <3>1. removed \in ForumRow
            BY <1>1, <2>2, RemoveTopicRow DEF Base, IInv, TypeOK, HideTopic
        <3>2. forum' = [forum EXCEPT ![f] = FixPostCounts(removed, f, post', topic')]
            BY <2>2 DEF HideTopic
        <3> HIDE DEF removed
        <3>3. /\ FixPostCounts(removed, f, post', topic') \in ForumRow
              /\ FixPostCounts(removed, f, post', topic').topics
                    = Cardinality(ShownTopicsIn(f, topic'))
            <4>1. FixPostCounts(removed, f, post', topic') \in ForumRow
                BY <1>1, <2>1, <3>1, CountedRow
            <4> QED BY <3>1, <4>1 DEF FixPostCounts, ForumRow
        <3> QED BY <3>2, <3>3
    <2>3. CASE UnhideTopic(t)
        <3>1. restored \in ForumRow
            BY <1>1, RestoreTopicRow DEF Base, IInv, TypeOK
        <3>2. forum' = [forum EXCEPT ![f] = Recalculate(restored, f, post', topic')]
            BY <2>3 DEF UnhideTopic
        <3> HIDE DEF restored
        <3>3. /\ Recalculate(restored, f, post', topic') \in ForumRow
              /\ Recalculate(restored, f, post', topic').topics
                    = Cardinality(ShownTopicsIn(f, topic'))
            <4>1. Recalculate(restored, f, post', topic') \in ForumRow
                BY <1>1, <2>1, <3>1, CountedRow
            <4> QED BY <3>1, <4>1 DEF Recalculate, ForumRow
        <3> QED BY <3>2, <3>3
    <2> QED BY <2>2, <2>3
<1>7. /\ forum'[topic[t].forum] = row
      /\ \A g \in Forums \ {topic[t].forum} : forum'[g] = forum[g]
    BY <1>1, <1>6 DEF Base, IInv, TypeOK
<1> QED BY <1>1, <1>3, <1>4, <1>5, <1>6, <1>7

\* The reply p is taken away, hidden or restored: P is the table afterwards.
ReplyMarked(p, P) ==
    /\ post[p].topic \in LiveTopics(topic) /\ post[p].user \in users
    /\ topic[post[p].topic].forum \in Forums
    /\ \A q \in PostIds \ {p} : P[q] = post[q]
    /\ P[p].topic = None \/ P[p].topic = post[p].topic
    /\ P[p].topic = None => P[p].user = None
    /\ P[p].topic # None => P[p].user = post[p].user
    /\ post' = P /\ users' = users
    /\ \A s \in Topics : /\ topic'[s].forum = topic[s].forum
                         /\ topic'[s].hidden = topic[s].hidden
    /\ \A s \in Topics \ {post[p].topic} : topic'[s] = topic[s]
    /\ topic'[post[p].topic].posts
            = TopicCount(post[p].topic, P, topic[post[p].topic].hidden)
    /\ \A g \in Forums : forum'[g].topics = forum[g].topics
    /\ \A g \in Forums \ {topic[post[p].topic].forum} : forum'[g] = forum[g]
    /\ forum'[topic[post[p].topic].forum].posts
            = Cardinality(ShownIn(topic[post[p].topic].forum, P, topic))
    /\ tally' = [tally EXCEPT ![post[p].user] = Cardinality(ShownBy(post[p].user, P, topic))]

LEMMA ReplyTakenMarks ==
    ASSUME Base, NEW p \in PostIds, NEW P \in PostTable, ReplyTaken(p, P)
    PROVE  ReplyMarked(p, P)
<1> DEFINE t   == post[p].topic
           f   == topic[t].forum
           u   == post[p].user
           row == TopicWithoutPost(p, topic[t])
           new == ForumWithoutPost(p, forum[f], f, P)
           n   == TopicCount(t, P, topic[t].hidden)
           m   == Cardinality(ShownIn(f, P, topic))
<1>1. /\ t \in LiveTopics(topic) /\ t \in Topics /\ f \in Forums
      /\ topic[t].first \in PostIds
    BY Members DEF ReplyTaken, Base, IInv, NoOrphans, TypeOK, FirstPostMirrorsTopic
<1>2. /\ u \in users /\ post' = P /\ users' = users
      /\ topic' = [topic EXCEPT ![t] = [row EXCEPT !.posts = n]]
      /\ forum' = [forum EXCEPT ![f] = [new EXCEPT !.posts = m]]
      /\ tally' = [tally EXCEPT ![u] = Cardinality(ShownBy(u, P, topic))]
    BY DEF ReplyTaken, TakeAway
<1>3. /\ \A q \in PostIds \ {p} : P[q] = post[q]
      /\ P[p].topic = None \/ P[p].topic = post[p].topic
      /\ P[p].topic = None => P[p].user = None
      /\ P[p].topic # None => P[p].user = post[p].user
    <2>1. post[p].topic # None /\ post[p] \in PostRow
        BY DEF ReplyTaken, Base, IInv, TypeOK
    <2> QED BY <2>1 DEF ReplyTaken, BlankPost, PostRow
<1>4. row \in TopicRow /\ row.forum = topic[t].forum /\ row.hidden = topic[t].hidden
    BY <1>1, TopicWithoutPostRow DEF Base, IInv, TypeOK
<1>5. new \in ForumRow /\ new.topics = forum[f].topics
    <2>1. forum[f] \in ForumRow
        BY <1>1 DEF Base, IInv, TypeOK
    <2>2. new.topics = forum[f].topics
        BY <2>1, TakingLeavesTopics
    <2> QED BY <1>1, <2>1, <2>2, ForumWithoutPostRow DEF Base, IInv
<1> HIDE DEF row, new, n, m
<1>6. topic'[t] = [row EXCEPT !.posts = n] /\ \A s \in Topics \ {t} : topic'[s] = topic[s]
    BY <1>1, <1>2 DEF Base, IInv, TypeOK
<1>7. forum'[f] = [new EXCEPT !.posts = m] /\ \A g \in Forums \ {f} : forum'[g] = forum[g]
    BY <1>1, <1>2 DEF Base, IInv, TypeOK
<1>8. topic'[t].posts = n /\ topic'[t].forum = topic[t].forum /\ topic'[t].hidden = topic[t].hidden
    BY <1>4, <1>6 DEF TopicRow
<1>9. forum'[f].posts = m /\ forum'[f].topics = forum[f].topics
    BY <1>5, <1>7 DEF ForumRow
<1> QED BY <1>1, <1>2, <1>3, <1>6, <1>7, <1>8, <1>9 DEF ReplyMarked, n, m

LEMMA ReplyRestoredMarks ==
    ASSUME Base, NEW p \in PostIds, post[p].topic # None, UnhideReply(p)
    PROVE  ReplyMarked(p, [post EXCEPT ![p].hidden = FALSE])
<1> DEFINE t == post[p].topic
           f == topic[t].forum
           u == post[p].user
           P == [post EXCEPT ![p].hidden = FALSE]
           n == TopicCount(t, P, topic[t].hidden)
           m == Cardinality(ShownIn(f, P, topic))
           newer == LastPost(f) = None \/ post[p].created > post[LastPost(f)].created
<1>1. t \in LiveTopics(topic) /\ t \in Topics /\ f \in Forums
    BY Members DEF Base, IInv, NoOrphans, TypeOK
<1>2. PICK newest \in BOOLEAN :
        /\ topic' = [topic EXCEPT ![t].last = IF newest THEN p ELSE @, ![t].posts = n]
        /\ forum' = [forum EXCEPT ![f] =
                        [IF newest /\ ~topic[t].hidden /\ newer
                         THEN WithLast(@, p, u, post[p].created) ELSE @ EXCEPT
                         !.posts = m]]
    BY DEF UnhideReply, FoundNewest
<1>3. /\ u \in users /\ post' = P /\ users' = users
      /\ tally' = [tally EXCEPT ![u] = Cardinality(ShownBy(u, P, topic))]
    BY DEF UnhideReply
<1>4. /\ P[p].topic = t /\ P[p].user = u /\ \A q \in PostIds \ {p} : P[q] = post[q]
    BY DEF Base, IInv, TypeOK, PostRow
<1> HIDE DEF P, n, m, newer
<1>5. /\ \A s \in Topics : topic'[s].forum = topic[s].forum
      /\ \A s \in Topics : topic'[s].hidden = topic[s].hidden
      /\ \A s \in Topics \ {t} : topic'[s] = topic[s]
      /\ topic'[t].posts = n
    BY <1>1, <1>2 DEF Base, IInv, TypeOK, TopicRow
<1>6. /\ \A g \in Forums \ {f} : forum'[g] = forum[g]
      /\ forum'[f].topics = forum[f].topics /\ forum'[f].posts = m
    <2> DEFINE old == IF newest /\ ~topic[t].hidden /\ newer
                      THEN WithLast(forum[f], p, u, post[p].created) ELSE forum[f]
    <2>1. forum' = [forum EXCEPT ![f] = [old EXCEPT !.posts = m]]
        BY <1>2
    <2>2. old \in ForumRow /\ old.topics = forum[f].topics
        <3>1. forum[f] \in ForumRow /\ post[p].created \in Times /\ u \in Users
            BY <1>1, <1>3 DEF Base, IInv, TypeOK, PostRow
        <3>2. WithLast(forum[f], p, u, post[p].created) \in ForumRow
            BY <3>1, WithLastRow
        <3> QED BY <3>1, <3>2, LastLeavesCounters
    <2> HIDE DEF old
    <2>3. [old EXCEPT !.posts = m].topics = forum[f].topics /\ [old EXCEPT !.posts = m].posts = m
        BY <2>2 DEF ForumRow
    <2> QED BY <1>1, <2>1, <2>3 DEF Base, IInv, TypeOK
<1>7. t # None
    OBVIOUS
<1> QED BY <1>1, <1>3, <1>4, <1>5, <1>6, <1>7 DEF ReplyMarked, P, n, m

\* What is in a forum or shown depends on the forum and the flag of each topic only.
LEMMA SameTopics ==
    ASSUME Base, NEW P, \A q \in PostIds : P[q].topic \in Topics \cup {None},
           \A s \in Topics : /\ topic'[s].forum = topic[s].forum
                             /\ topic'[s].hidden = topic[s].hidden
    PROVE  /\ \A f \in Forums : /\ PostsIn(f, P, topic') = PostsIn(f, P, topic)
                                /\ ShownIn(f, P, topic') = ShownIn(f, P, topic)
                                /\ ShownTopicsIn(f, topic') = ShownTopicsIn(f, topic)
           /\ \A u \in Users : ShownBy(u, P, topic') = ShownBy(u, P, topic)
           /\ LiveTopics(topic') = LiveTopics(topic)
BY DEF PostsIn, ShownIn, ShownBy, ShownPosts, ShownTopicsIn, TopicsIn, LiveTopics

\* No handler brings anything hidden where nothing may be hidden.
LEMMA BaseStep ==
    ASSUME Base, [Next]_vars
    PROVE  Base'
<1>1. IInv' /\ granted' = granted /\ Handlers
    BY NextPreserves, GrantedStays, HandlersOnly DEF Base
<1>2. BlankRows' /\ (Never({"makehidden"}) => NothingHidden')
    <2>1. ASSUME NEW p \in PostIds, NEW t \in Topics, NEW u \in Users, Written(p, t, u),
                 Never({"makehidden"}) => \A s \in Topics : ~topic'[s].hidden
          PROVE  BlankRows' /\ (Never({"makehidden"}) => NothingHidden')
        <3>1. t # None
            BY NullIsNoId
        <3> QED BY <2>1, <3>1 DEF Written, BlankRows, NothingHidden, Base
    <2>2. ASSUME NEW u \in Users, NEW f \in Forums, NewTopic(u, f)
          PROVE  BlankRows' /\ (Never({"makehidden"}) => NothingHidden')
        <3>1. PICK t \in Topics, p \in PostIds :
                /\ Written(p, t, u)
                /\ topic'[t] = [forum |-> f, user |-> u, hidden |-> FALSE, first |-> p,
                                last |-> p, updated |-> clock', posts |-> 1]
                /\ \A s \in Topics \ {t} : topic'[s] = topic[s]
            BY <2>2, TopicWritten
        <3>2. ~topic'[t].hidden
            BY <3>1
        <3> QED BY <2>1, <3>1, <3>2 DEF Base, NothingHidden
    <2>3. ASSUME NEW u \in Users, NEW t \in Topics, Reply(u, t)
          PROVE  BlankRows' /\ (Never({"makehidden"}) => NothingHidden')
        BY <2>1, <2>3, ReplyWritten DEF Base, NothingHidden
    <2>4. ASSUME NEW gone, Vanished(gone)
          PROVE  BlankRows' /\ (Never({"makehidden"}) => NothingHidden')
        <3>1. BlankPost.user = None /\ ~BlankPost.hidden /\ ~BlankTopic.hidden
            BY DEF BlankPost, BlankTopic
        <3>2. \A p \in PostIds : post'[p] = BlankPost \/ post'[p] = post[p]
            BY <2>4, VanishedSets
        <3>3. \A t \in Topics : topic'[t] = BlankTopic \/ topic'[t] = topic[t]
            BY <2>4 DEF Vanished
        <3> QED BY <3>1, <3>2, <3>3 DEF Base, BlankRows, NothingHidden
    <2>5. ASSUME NEW t \in LiveTopics(topic), "makehidden" \in granted,
                 HideTopic(t) \/ UnhideTopic(t)
          PROVE  BlankRows' /\ (Never({"makehidden"}) => NothingHidden')
        BY <2>5, Flagged DEF Base, BlankRows, Never
    <2>6. ASSUME NEW p \in PostIds, NEW P \in PostTable, ReplyMarked(p, P),
                 "makehidden" \in granted \/ ~P[p].hidden
          PROVE  BlankRows' /\ (Never({"makehidden"}) => NothingHidden')
        BY <2>6 DEF Base, BlankRows, NothingHidden, ReplyMarked, Never
    <2>7. ASSUME NEW p \in PostIds, NEW P \in PostTable, ReplyTaken(p, P)
          PROVE  BlankRows' /\ (Never({"makehidden"}) => NothingHidden')
        <3>1. ReplyMarked(p, P)
            BY <2>7, ReplyTakenMarks
        <3>2. "makehidden" \in granted \/ P[p] = BlankPost
            BY <2>7 DEF ReplyTaken
        <3>3. ~BlankPost.hidden
            BY DEF BlankPost
        <3> QED BY <2>6, <3>1, <3>2, <3>3
    <2>8. ASSUME NEW p \in PostIds, "makehidden" \in granted, post[p].topic # None,
                 UnhideReply(p)
          PROVE  BlankRows' /\ (Never({"makehidden"}) => NothingHidden')
        <3> DEFINE P == [post EXCEPT ![p].hidden = FALSE]
        <3>1. P \in PostTable
            BY DEF PostTable, PostRow, Base, IInv, TypeOK
        <3>2. ReplyMarked(p, P)
            BY <2>8, ReplyRestoredMarks
        <3> HIDE DEF P
        <3> QED BY <2>6, <2>8, <3>1, <3>2
    <2>9. ASSUME post' = post, \A t \in Topics : topic'[t].hidden <=> topic[t].hidden
          PROVE  BlankRows' /\ (Never({"makehidden"}) => NothingHidden')
        BY <2>9 DEF Base, BlankRows, NothingHidden
    <2>10. ASSUME NEW t \in Topics, NEW g \in Forums, MoveTopic(t, g)
           PROVE  BlankRows' /\ (Never({"makehidden"}) => NothingHidden')
        <3>1. \A s \in Topics : topic'[s].hidden <=> topic[s].hidden
            BY <2>10 DEF MoveTopic, Base, IInv, TypeOK, TopicRow
        <3>2. post' = post
            BY <2>10 DEF MoveTopic
        <3> QED BY <2>9, <3>1, <3>2
    <2>11. ASSUME NEW f \in Forums, AddForum(f)
           PROVE  BlankRows' /\ (Never({"makehidden"}) => NothingHidden')
        BY <2>9, <2>11 DEF AddForum
    <2>12. ASSUME NEW u \in Users, DeleteUser(u)
           PROVE  BlankRows' /\ (Never({"makehidden"}) => NothingHidden')
        BY <2>9, <2>12 DEF DeleteUser
    <2>13. ASSUME NEW t \in LiveTopics(topic), DeleteTopic(t)
           PROVE  BlankRows' /\ (Never({"makehidden"}) => NothingHidden')
        BY <2>4, <2>13, TopicVanishes
    <2>14. ASSUME NEW f \in Forums, DeleteForum(f)
           PROVE  BlankRows' /\ (Never({"makehidden"}) => NothingHidden')
        BY <2>4, <2>14, ForumVanishes
    <2>15. ASSUME NEW c \in Categories, DeleteCategory(c)
           PROVE  BlankRows' /\ (Never({"makehidden"}) => NothingHidden')
        BY <2>4, <2>15, CategoryVanishes
    <2>16. CASE UNCHANGED vars
        BY <2>9, <2>16 DEF vars
    <2> QED BY <1>1, <2>2, <2>3, <2>5, <2>7, <2>8, <2>10, <2>11, <2>12, <2>13, <2>14, <2>15,
               <2>16 DEF Handlers
<1> QED BY <1>1, <1>2 DEF Base, Never

LEMMA BaseInit == ASSUME Init PROVE Base
<1>1. IInv
    BY InitEstablishes
<1>2. BlankRows /\ NothingHidden
    BY DEF Init, BlankRows, NothingHidden, BlankPost, BlankTopic
<1> QED BY <1>1, <1>2 DEF Base

\* Topic.delete counts anew, and perhaps looks for the last post.
LEMMA TopicVanishesFromForum ==
    ASSUME Base, NEW t \in LiveTopics(topic), DeleteTopic(t)
    PROVE  LET f   == topic[t].forum
               row == FixPostCounts(forum[f], f, post', topic')
           IN  /\ row \in ForumRow
               /\ row.last = forum[f].last /\ row.lastUser = forum[f].lastUser
               /\ row.lastCreated = forum[f].lastCreated
               /\ forum'[f] = IF row.last = None \/ row.last = topic[t].last
                              THEN UpdateLastPost(row, f, post', topic') ELSE row
               /\ forum'[f].topics = Cardinality(ShownTopicsIn(f, topic'))
               /\ forum'[f].posts = Cardinality(UnhiddenIn(f, post', topic'))
               /\ \A g \in Forums \ {f} : forum'[g] = forum[g]
<1> DEFINE f   == topic[t].forum
           row == FixPostCounts(forum[f], f, post', topic')
           new == IF row.last = None \/ row.last = topic[t].last
                  THEN UpdateLastPost(row, f, post', topic') ELSE row
<1>1. f \in Forums /\ forum[f] \in ForumRow
    BY TopicVanishes DEF Base, IInv, TypeOK
<1>2. post' \in PostTable /\ topic' \in TopicTable
    BY DeleteTopicPreserves DEF Base, IInv, TypeOK, PostTable, TopicTable
<1>3. row \in ForumRow
    BY <1>1, <1>2, CountedRow
<1>4. /\ row.topics = Cardinality(ShownTopicsIn(f, topic'))
      /\ row.posts = Cardinality(UnhiddenIn(f, post', topic'))
      /\ row.last = forum[f].last /\ row.lastUser = forum[f].lastUser
      /\ row.lastCreated = forum[f].lastCreated
    BY <1>1 DEF FixPostCounts, ForumRow
<1>5. forum' = [forum EXCEPT ![f] = new]
    BY DEF DeleteTopic
<1> HIDE DEF row
<1>6. new.topics = row.topics /\ new.posts = row.posts
    BY <1>3, UpdateLeavesCounters
<1>7. forum'[f] = new /\ \A g \in Forums \ {f} : forum'[g] = forum[g]
    BY <1>1, <1>5 DEF Base, IInv, TypeOK
<1> QED BY <1>3, <1>4, <1>6, <1>7 DEF row

\* The rows of the two forums when Topic.move has moved the counters of t to g.
RowFrom(t) == [forum[topic[t].forum] EXCEPT !.posts = @ - topic[t].posts, !.topics = @ - 1]
RowTo(t, g) == [forum[g] EXCEPT !.posts = @ + topic[t].posts, !.topics = @ + 1]

\* Topic.move takes the counters along and both forums look for their last post.
LEMMA Moved ==
    ASSUME Base, NEW t \in Topics, NEW g \in Forums, MoveTopic(t, g)
    PROVE  LET f    == topic[t].forum
               from == RowFrom(t)
               to   == RowTo(t, g)
           IN  /\ "move" \in granted /\ post' = post /\ tally' = tally /\ users' = users
               /\ t \in LiveTopics(topic) /\ f \in Forums /\ f # g
               /\ topic' \in TopicTable
               /\ \A s \in Topics : topic'[s].forum = IF s = t THEN g ELSE topic[s].forum
               /\ \A s \in Topics : topic'[s].hidden = topic[s].hidden
               /\ \A s \in Topics : topic'[s].last = topic[s].last
               /\ \A s \in Topics : topic'[s].posts = topic[s].posts
               /\ from \in ForumRow /\ from.last = forum[f].last
               /\ from.lastUser = forum[f].lastUser /\ from.lastCreated = forum[f].lastCreated
               /\ to \in ForumRow /\ to.last = forum[g].last
               /\ to.lastUser = forum[g].lastUser /\ to.lastCreated = forum[g].lastCreated
               /\ forum'[f] = UpdateLastPost(from, f, post, topic')
               /\ forum'[f].topics = forum[f].topics - 1
               /\ forum'[f].posts = forum[f].posts - topic[t].posts
               /\ forum'[g] = UpdateLastPost(to, g, post, topic')
               /\ forum'[g].topics = forum[g].topics + 1
               /\ forum'[g].posts = forum[g].posts + topic[t].posts
               /\ \A h \in Forums \ {f, g} : forum'[h] = forum[h]
<1> DEFINE f    == topic[t].forum
           from == RowFrom(t)
           to   == RowTo(t, g)
<1>1. /\ "move" \in granted /\ t \in LiveTopics(topic) /\ f \in Forums /\ f # g
      /\ topic' = [topic EXCEPT ![t].forum = g]
      /\ forum' = [forum EXCEPT ![f] = UpdateLastPost(from, f, post, topic'),
                                ![g] = UpdateLastPost(to, g, post, topic')]
      /\ UNCHANGED <<post, tally, users>>
    BY DEF MoveTopic, RowFrom, RowTo, Base, IInv, NoOrphans, TypeOK
<1>2. /\ topic' \in TopicTable
      /\ \A s \in Topics : topic'[s].forum = IF s = t THEN g ELSE topic[s].forum
      /\ \A s \in Topics : topic'[s].hidden = topic[s].hidden
      /\ \A s \in Topics : topic'[s].last = topic[s].last
      /\ \A s \in Topics : topic'[s].posts = topic[s].posts
    BY <1>1 DEF Base, IInv, TypeOK, TopicTable, TopicRow
<1>3. /\ forum[f] \in ForumRow /\ forum[g] \in ForumRow /\ topic[t].posts \in Int
      /\ forum'[f] = UpdateLastPost(from, f, post, topic')
      /\ forum'[g] = UpdateLastPost(to, g, post, topic')
      /\ \A h \in Forums \ {f, g} : forum'[h] = forum[h]
    BY <1>1 DEF Base, IInv, TypeOK, TopicRow
<1>4. /\ from \in ForumRow /\ from.last = forum[f].last
      /\ from.lastUser = forum[f].lastUser /\ from.lastCreated = forum[f].lastCreated
      /\ from.topics = forum[f].topics - 1 /\ from.posts = forum[f].posts - topic[t].posts
    <2>1. forum[f].posts - topic[t].posts \in Int /\ forum[f].topics - 1 \in Int
        <3>1. forum[f].posts \in Int /\ forum[f].topics \in Int
            BY <1>3, CountersRow
        <3> QED BY <1>3, <3>1
    <2>2. from \in ForumRow
        BY <1>3, <2>1, CountersRow DEF RowFrom
    <2> QED BY <1>3, <2>2 DEF RowFrom, ForumRow
<1>5. /\ to \in ForumRow /\ to.last = forum[g].last
      /\ to.lastUser = forum[g].lastUser /\ to.lastCreated = forum[g].lastCreated
      /\ to.topics = forum[g].topics + 1 /\ to.posts = forum[g].posts + topic[t].posts
    <2>1. forum[g].posts + topic[t].posts \in Int /\ forum[g].topics + 1 \in Int
        <3>1. forum[g].posts \in Int /\ forum[g].topics \in Int
            BY <1>3, CountersRow
        <3> QED BY <1>3, <3>1
    <2>2. to \in ForumRow
        BY <1>3, <2>1, CountersRow DEF RowTo
    <2> QED BY <1>3, <2>2 DEF RowTo, ForumRow
<1>6. /\ forum'[f].topics = from.topics /\ forum'[f].posts = from.posts
      /\ forum'[g].topics = to.topics /\ forum'[g].posts = to.posts
    BY <1>3, <1>4, <1>5, UpdateLeavesCounters
<1> QED BY <1>1, <1>2, <1>3, <1>4, <1>5, <1>6

-----------------------------------------------------------------------------
(* Counting.                                                               *)

\* What is counted are posts or topics.
LEMMA CountedSets ==
    /\ \A f, T : ShownTopicsIn(f, T) \in SUBSET Topics
    /\ \A f, P, T : PostsIn(f, P, T) \in SUBSET PostIds
    /\ \A u, P, T : ShownBy(u, P, T) \in SUBSET PostIds
    /\ \A t, P : PostsOf(t, P) \in SUBSET PostIds
BY DEF ShownTopicsIn, TopicsIn, PostsIn, ShownBy, ShownPosts, PostsOf

-----------------------------------------------------------------------------
(* The number of topics in a forum.                                        *)

AllTopicsCounted == \A f \in Forums : forum[f].topics = Cardinality(ShownTopicsIn(f, topic))

TopicsCounted == Never({"move"}) \/ Never({"makehidden"}) => AllTopicsCounted

LEMMA TopicsCountedStep ==
    ASSUME Base, AllTopicsCounted, [Next]_vars, Never({"move"}) \/ Never({"makehidden"})
    PROVE  AllTopicsCounted'
<1>1. ASSUME NEW u \in Users, NEW f \in Forums, NewTopic(u, f) PROVE AllTopicsCounted'
    <2>1. PICK t \in Topics, p \in PostIds :
            /\ topic[t].forum = None
            /\ topic'[t] = [forum |-> f, user |-> u, hidden |-> FALSE, first |-> p,
                            last |-> p, updated |-> clock', posts |-> 1]
            /\ \A s \in Topics \ {t} : topic'[s] = topic[s]
            /\ forum' = [forum EXCEPT ![f] = WithNewPost(forum[f], p, u, clock', 1)]
        BY <1>1, TopicWritten
    <2>2. topic'[t].forum = f /\ ~topic'[t].hidden
        BY <2>1
    <2> SUFFICES ASSUME NEW g \in Forums
                 PROVE  forum'[g].topics = Cardinality(ShownTopicsIn(g, topic'))
        BY DEF AllTopicsCounted
    <2>3. CASE g = f
        <3>1. /\ ShownTopicsIn(f, topic') = ShownTopicsIn(f, topic) \cup {t}
              /\ t \notin ShownTopicsIn(f, topic)
            BY <2>1, <2>2, NullIsNoId DEF ShownTopicsIn, TopicsIn
        <3>2. Cardinality(ShownTopicsIn(f, topic')) = Cardinality(ShownTopicsIn(f, topic)) + 1
            BY <3>1, CountedSets, FiniteAssumption, OneMore
        <3>3. forum'[f] = WithNewPost(forum[f], p, u, clock', 1) /\ forum[f] \in ForumRow
            BY <2>1 DEF Base, IInv, TypeOK
        <3>4. forum'[f].topics = forum[f].topics + 1
            BY <3>3, NewPostCounts
        <3> QED BY <2>3, <3>2, <3>4 DEF AllTopicsCounted
    <2>4. CASE g # f
        <3>1. ShownTopicsIn(g, topic') = ShownTopicsIn(g, topic)
            BY <2>1, <2>2, <2>4, NullIsNoId DEF ShownTopicsIn, TopicsIn
        <3>2. forum'[g] = forum[g]
            BY <2>1, <2>4 DEF Base, IInv, TypeOK
        <3> QED BY <3>1, <3>2 DEF AllTopicsCounted
    <2> QED BY <2>3, <2>4
<1>2. ASSUME \A g \in Forums : /\ forum'[g].topics = forum[g].topics
                               /\ ShownTopicsIn(g, topic') = ShownTopicsIn(g, topic)
      PROVE  AllTopicsCounted'
    BY <1>2 DEF AllTopicsCounted
<1>3. ASSUME NEW u \in Users, NEW t \in Topics, Reply(u, t) PROVE AllTopicsCounted'
    <2>1. /\ \A s \in Topics : /\ topic'[s].forum = topic[s].forum
                               /\ topic'[s].hidden = topic[s].hidden
          /\ topic[t].forum \in Forums
        BY <1>3, ReplyWritten
    <2>2. \A g \in Forums : ShownTopicsIn(g, topic') = ShownTopicsIn(g, topic)
        BY <2>1 DEF ShownTopicsIn, TopicsIn
    <2>3. PICK p \in PostIds : \/ forum' = forum
                               \/ forum' = [forum EXCEPT ![topic[t].forum] =
                                     WithNewPost(forum[topic[t].forum], p, u, clock', 0)]
        BY <1>3, ReplyWritten
    <2>4. ASSUME NEW g \in Forums PROVE forum'[g].topics = forum[g].topics
        <3>1. forum[g] \in ForumRow /\ forum[g].topics \in Int
            BY CountersRow DEF Base, IInv, TypeOK
        <3>2. WithNewPost(forum[g], p, u, clock', 0).topics = forum[g].topics + 0
            BY <3>1, NewPostCounts
        <3>3. forum'[g] = forum[g] \/ forum'[g] = WithNewPost(forum[g], p, u, clock', 0)
            BY <2>1, <2>3 DEF Base, IInv, TypeOK
        <3> QED BY <3>1, <3>2, <3>3
    <2> QED BY <1>2, <2>2, <2>4
<1>4. ASSUME NEW t \in LiveTopics(topic), DeleteTopic(t) PROVE AllTopicsCounted'
    <2> DEFINE f == topic[t].forum
    <2>1. /\ forum'[f].topics = Cardinality(ShownTopicsIn(f, topic'))
          /\ \A g \in Forums \ {f} : forum'[g] = forum[g]
        BY <1>4, TopicVanishesFromForum
    <2>2. \A g \in Forums \ {f} : ShownTopicsIn(g, topic') = ShownTopicsIn(g, topic)
        <3>1. Vanished({t})
            BY <1>4, TopicVanishes
        <3>2. \A g \in Forums : ShownTopicsIn(g, topic') = ShownTopicsIn(g, topic) \ {t}
            BY <3>1, VanishedSets
        <3>3. \A g \in Forums \ {f} : t \notin ShownTopicsIn(g, topic)
            BY DEF ShownTopicsIn, TopicsIn
        <3> QED BY <3>2, <3>3
    <2> QED BY <2>1, <2>2 DEF AllTopicsCounted
<1>5. ASSUME NEW t \in LiveTopics(topic), HideTopic(t) \/ UnhideTopic(t)
      PROVE  AllTopicsCounted'
    <2> DEFINE f == topic[t].forum
    <2>1. /\ forum'[f].topics = Cardinality(ShownTopicsIn(f, topic'))
          /\ \A g \in Forums \ {f} : forum'[g] = forum[g]
          /\ \A s \in Topics : topic'[s].forum = topic[s].forum
          /\ \A s \in Topics \ {t} : topic'[s] = topic[s]
        BY <1>5, Flagged
    <2>2. \A g \in Forums \ {f} : ShownTopicsIn(g, topic') = ShownTopicsIn(g, topic)
        BY <2>1 DEF ShownTopicsIn, TopicsIn
    <2> QED BY <2>1, <2>2 DEF AllTopicsCounted
<1>6. ASSUME NEW p \in PostIds, NEW P, ReplyMarked(p, P) PROVE AllTopicsCounted'
    <2>1. \A s \in Topics : /\ topic'[s].forum = topic[s].forum
                            /\ topic'[s].hidden = topic[s].hidden
        BY <1>6 DEF ReplyMarked
    <2>2. \A g \in Forums : ShownTopicsIn(g, topic') = ShownTopicsIn(g, topic)
        BY <2>1 DEF ShownTopicsIn, TopicsIn
    <2> QED BY <1>2, <1>6, <2>2 DEF ReplyMarked
<1>7. ASSUME NEW t \in Topics, NEW g \in Forums, MoveTopic(t, g) PROVE AllTopicsCounted'
    <2> DEFINE f == topic[t].forum
    <2>1. /\ "move" \in granted /\ f \in Forums /\ f # g
          /\ \A s \in Topics : topic'[s].forum = IF s = t THEN g ELSE topic[s].forum
          /\ \A s \in Topics : topic'[s].hidden = topic[s].hidden
          /\ forum'[f].topics = forum[f].topics - 1
          /\ forum'[g].topics = forum[g].topics + 1
          /\ \A h \in Forums \ {f, g} : forum'[h] = forum[h]
        BY <1>7, Moved
    <2>2. ~topic[t].hidden
        BY <2>1 DEF Never, Base, NothingHidden
    <2>3. /\ ShownTopicsIn(f, topic') = ShownTopicsIn(f, topic) \ {t}
          /\ t \in ShownTopicsIn(f, topic)
        BY <2>1, <2>2 DEF ShownTopicsIn, TopicsIn
    <2>4. /\ ShownTopicsIn(g, topic') = ShownTopicsIn(g, topic) \cup {t}
          /\ t \notin ShownTopicsIn(g, topic)
        BY <2>1, <2>2 DEF ShownTopicsIn, TopicsIn
    <2>5. \A h \in Forums \ {f, g} : ShownTopicsIn(h, topic') = ShownTopicsIn(h, topic)
        BY <2>1 DEF ShownTopicsIn, TopicsIn
    <2>6. Cardinality(ShownTopicsIn(f, topic')) = Cardinality(ShownTopicsIn(f, topic)) - 1
        BY <2>3, CountedSets, FiniteAssumption, OneMore
    <2>7. Cardinality(ShownTopicsIn(g, topic')) = Cardinality(ShownTopicsIn(g, topic)) + 1
        BY <2>4, CountedSets, FiniteAssumption, OneMore
    <2> QED BY <2>1, <2>5, <2>6, <2>7 DEF AllTopicsCounted
<1>8. ASSUME ForumsGo PROVE AllTopicsCounted'
    <2>1. PICK closed \in SUBSET Forums, gone \in SUBSET Topics : Closing(closed, gone)
        BY <1>8, ForumsClose
    <2>2. \A g \in Forums : ShownTopicsIn(g, topic') = ShownTopicsIn(g, topic) \ gone
        BY <2>1, VanishedSets DEF Closing
    <2>3. \A g \in closed : ShownTopicsIn(g, topic') = {}
        BY <2>1, <2>2 DEF Closing, ShownTopicsIn
    <2>4. \A g \in Forums \ closed : ShownTopicsIn(g, topic') = ShownTopicsIn(g, topic)
        BY <2>1, <2>2 DEF Closing, ShownTopicsIn
    <2>5. BlankForum.topics = 0
        BY DEF BlankForum
    <2> QED BY <2>1, <2>3, <2>4, <2>5, FS_EmptySet DEF Closing, AllTopicsCounted
<1>9. ASSUME NEW f \in Forums, AddForum(f) PROVE AllTopicsCounted'
    <2>1. \A g \in Forums : forum'[g].topics = forum[g].topics
        BY <1>9 DEF AddForum, Base, IInv, TypeOK, ForumRow
    <2> QED BY <1>2, <1>9, <2>1 DEF AddForum
<1>10. ASSUME NEW u \in Users, DeleteUser(u) PROVE AllTopicsCounted'
    BY <1>2, <1>10 DEF DeleteUser
<1>11. CASE UNCHANGED vars
    BY <1>2, <1>11 DEF vars
<1> QED BY HandlersOnly, ReplyTakenMarks, ReplyRestoredMarks, <1>1, <1>3, <1>4, <1>5, <1>6,
           <1>7, <1>8, <1>9, <1>10, <1>11 DEF Handlers, ForumsGo, Base

\* forums.topic_count is the number of visible topics, on every board where topics are
\* not moved or not hidden, through every deletion, hiding and restoring there is.
THEOREM TopicCountsExact == Spec => []TopicCountKept
<1>1. Init => Base /\ TopicsCounted
    <2>1. ASSUME Init, NEW f \in Forums
          PROVE  ShownTopicsIn(f, topic) = {} /\ forum[f].topics = 0
        BY <2>1, NullIsNoId DEF Init, ShownTopicsIn, TopicsIn, BlankTopic, BlankForum
    <2> QED BY <2>1, BaseInit, FS_EmptySet DEF TopicsCounted, AllTopicsCounted
<1>2. Base /\ TopicsCounted /\ [Next]_vars => (Base /\ TopicsCounted)'
    <2> SUFFICES ASSUME Base, TopicsCounted, [Next]_vars PROVE Base' /\ TopicsCounted'
        OBVIOUS
    <2>1. granted' = granted
        BY GrantedStays DEF Base
    <2> QED BY <2>1, BaseStep, TopicsCountedStep DEF TopicsCounted, Never
<1>3. Base /\ TopicsCounted => TopicCountKept
    BY DEF Base, IInv, TypeOK, TopicsCounted, AllTopicsCounted, TopicCountKept, TopicCountExact
<1> QED BY <1>1, <1>2, <1>3, PTL DEF Spec

-----------------------------------------------------------------------------
(* The number of posts of a user.                                          *)

AllUsersCounted == \A u \in users : tally[u] = Cardinality(ShownBy(u, post, topic))

UserBoard == Never({"deletecategory"}) /\ (Never({"makehidden"}) \/ Never({"deleteforum"}))

UsersCounted == UserBoard => AllUsersCounted

\* Who has posts in the topic is counted anew; the others have lost and won nothing.
LEMMA InvolvedRecounted ==
    ASSUME Base, AllUsersCounted, NEW t \in Topics, users' = users,
           tally' = FixUserPostCounts(InvolvedUsers(t), post', topic'),
           \A p \in PostIds : post[p].topic # t => post'[p] = post[p],
           \A p \in PostIds : post[p].topic = t =>
                post'[p].user = post[p].user \/ post'[p].user = None,
           \A s \in Topics \ {t} : topic'[s] = topic[s]
    PROVE  AllUsersCounted'
<1> SUFFICES ASSUME NEW v \in users
             PROVE  tally'[v] = Cardinality(ShownBy(v, post', topic'))
    BY DEF AllUsersCounted
<1>0. v \in Users /\ v # None
    BY NoneAssumption DEF Base, IInv, TypeOK
<1>1. CASE v \in InvolvedUsers(t)
    BY <1>0, <1>1 DEF FixUserPostCounts
<1>2. CASE v \notin InvolvedUsers(t)
    <2>1. \A p \in PostIds : post[p].topic = t => post[p].user # v /\ post'[p].user # v
        BY <1>0, <1>2 DEF InvolvedUsers, PostsOf
    <2>2. \A p \in PostIds : post[p].topic # None => post[p].topic \in Topics
        BY Members DEF Base, IInv, NoOrphans
    <2>3. ShownBy(v, post', topic') = ShownBy(v, post, topic)
        BY <2>1, <2>2 DEF ShownBy, ShownPosts
    <2>4. tally'[v] = tally[v]
        BY <1>0, <1>2 DEF FixUserPostCounts
    <2> QED BY <2>3, <2>4 DEF AllUsersCounted
<1> QED BY <1>1, <1>2

LEMMA UsersCountedStep ==
    ASSUME Base, AllUsersCounted, [Next]_vars, UserBoard
    PROVE  AllUsersCounted'
<1>0. users \subseteq Users
    BY DEF Base, IInv, TypeOK
<1>1. ASSUME NEW t \in Topics, NEW p \in PostIds, NEW u \in users,
             Written(p, t, u), TopicsStay, users' = users,
             tally' = IF topic'[t].hidden THEN tally ELSE [tally EXCEPT ![u] = @ + 1]
      PROVE  AllUsersCounted'
    <2> SUFFICES ASSUME NEW v \in users
                 PROVE  tally'[v] = Cardinality(ShownBy(v, post', topic'))
        BY <1>1 DEF AllUsersCounted
    <2>0. u \in Users /\ v \in Users /\ Written(p, t, u) /\ TopicsStay
        BY <1>0, <1>1
    <2>1. /\ p \notin ShownBy(v, post, topic)
          /\ ShownBy(v, post', topic') = ShownBy(v, post, topic)
                \cup (IF v = u /\ ~topic'[t].hidden THEN {p} ELSE {})
        <3>1. WrittenIsShown(p, t, u)
            BY <1>1, <2>0, WrittenShown
        <3> QED BY <2>0, <3>1 DEF WrittenIsShown
    <2>2. tally[v] = Cardinality(ShownBy(v, post, topic))
        BY DEF AllUsersCounted
    <2>3. CASE v = u /\ ~topic'[t].hidden
        <3>1. Cardinality(ShownBy(v, post', topic')) = Cardinality(ShownBy(v, post, topic)) + 1
            BY <2>1, <2>3, CountedSets, PostsFinite, OneMore
        <3> QED BY <1>0, <1>1, <2>2, <2>3, <3>1 DEF Base, IInv, TypeOK
    <2>4. CASE ~(v = u /\ ~topic'[t].hidden)
        <3>1. tally'[v] = tally[v]
            BY <1>0, <1>1, <2>4 DEF Base, IInv, TypeOK
        <3> QED BY <2>1, <2>2, <2>4, <3>1
    <2> QED BY <2>3, <2>4
<1>2. ASSUME NEW u \in Users, NEW f \in Forums, NewTopic(u, f) PROVE AllUsersCounted'
    <2>1. PICK t \in Topics, p \in PostIds :
            /\ Written(p, t, u) /\ TopicsStay
            /\ topic'[t] = [forum |-> f, user |-> u, hidden |-> FALSE, first |-> p,
                            last |-> p, updated |-> clock', posts |-> 1]
        BY <1>2, TopicWritten
    <2>2. ~topic'[t].hidden
        BY <2>1
    <2>3. u \in users /\ users' = users /\ tally' = [tally EXCEPT ![u] = @ + 1]
        BY <1>2, TopicWritten
    <2> QED BY <1>1, <2>1, <2>2, <2>3
<1>3. ASSUME NEW u \in Users, NEW t \in Topics, Reply(u, t) PROVE AllUsersCounted'
    <2>1. PICK p \in PostIds :
            /\ Written(p, t, u) /\ TopicsStay
            /\ IF topic[t].hidden THEN tally' = tally
               ELSE tally' = [tally EXCEPT ![u] = @ + 1]
        BY <1>3, ReplyWritten
    <2>2. u \in users /\ users' = users /\ topic'[t].hidden = topic[t].hidden
        BY <1>3, ReplyWritten
    <2> QED BY <1>1, <2>1, <2>2
<1>4. ASSUME NEW t \in LiveTopics(topic), DeleteTopic(t) PROVE AllUsersCounted'
    <2>1. Vanished({t}) /\ t \in Topics /\ users' = users
        BY <1>4, TopicVanishes
    <2>2. /\ \A p \in PostIds : post[p].topic # t => post'[p] = post[p]
          /\ \A p \in PostIds : post[p].topic = t => post'[p] = BlankPost
        BY <2>1, VanishedSets
    <2>3. BlankPost.user = None
        BY DEF BlankPost
    <2>4. tally' = FixUserPostCounts(InvolvedUsers(t), post', topic')
        BY <1>4 DEF DeleteTopic
    <2>5. \A s \in Topics \ {t} : topic'[s] = topic[s]
        BY <2>1 DEF Vanished
    <2> QED BY <2>1, <2>2, <2>3, <2>4, <2>5, InvolvedRecounted
<1>5. ASSUME NEW t \in LiveTopics(topic), HideTopic(t) \/ UnhideTopic(t)
      PROVE  AllUsersCounted'
    <2>1. /\ t \in Topics /\ users' = users
          /\ \A p \in PostIds : post[p].topic # t => post'[p] = post[p]
          /\ \A p \in PostIds : post'[p].user = post[p].user
          /\ \A s \in Topics \ {t} : topic'[s] = topic[s]
          /\ tally' = FixUserPostCounts(InvolvedUsers(t), post', topic')
        BY <1>5, Flagged
    <2> QED BY <2>1, InvolvedRecounted
<1>6. ASSUME NEW p \in PostIds, NEW P \in PostTable, ReplyMarked(p, P)
      PROVE  AllUsersCounted'
    <2> DEFINE u == post[p].user
    <2>1. /\ u \in users /\ post' = P /\ users' = users
          /\ tally' = [tally EXCEPT ![u] = Cardinality(ShownBy(u, P, topic))]
          /\ \A s \in Topics : /\ topic'[s].forum = topic[s].forum
                               /\ topic'[s].hidden = topic[s].hidden
        BY <1>6 DEF ReplyMarked
    <2>2. \A v \in Users : ShownBy(v, P, topic') = ShownBy(v, P, topic)
        <3>1. \A q \in PostIds : P[q].topic \in Topics \cup {None}
            BY DEF PostTable, PostRow
        <3> QED BY <2>1, <3>1, SameTopics
    <2>3. ASSUME NEW v \in users, v # u
          PROVE  ShownBy(v, P, topic) = ShownBy(v, post, topic)
        <3>1. v # None /\ P[p].user # v
            BY <1>0, <1>6, <2>3, NoneAssumption DEF ReplyMarked
        <3>2. \A q \in PostIds \ {p} : P[q] = post[q]
            BY <1>6 DEF ReplyMarked
        <3> QED BY <2>3, <3>1, <3>2 DEF ShownBy, ShownPosts
    <2> SUFFICES ASSUME NEW v \in users
                 PROVE  tally'[v] = Cardinality(ShownBy(v, P, topic))
        BY <1>0, <2>1, <2>2 DEF AllUsersCounted
    <2>4. CASE v = u
        BY <1>0, <2>1, <2>4 DEF Base, IInv, TypeOK
    <2>5. CASE v # u
        BY <1>0, <2>1, <2>3, <2>5 DEF AllUsersCounted, Base, IInv, TypeOK
    <2> QED BY <2>4, <2>5
<1>7. ASSUME NEW t \in Topics, NEW g \in Forums, MoveTopic(t, g) PROVE AllUsersCounted'
    <2>1. /\ post' = post /\ tally' = tally /\ users' = users
          /\ \A s \in Topics : topic'[s].hidden = topic[s].hidden
        BY <1>7, Moved
    <2>2. \A p \in PostIds : post[p].topic # None => post[p].topic \in Topics
        BY Members DEF Base, IInv, NoOrphans
    <2>3. \A v \in users : ShownBy(v, post, topic') = ShownBy(v, post, topic)
        BY <2>1, <2>2 DEF ShownBy, ShownPosts
    <2> QED BY <2>1, <2>3 DEF AllUsersCounted
<1>8. ASSUME NEW f \in Forums, DeleteForum(f) PROVE AllUsersCounted'
    <2> DEFINE gone == TopicsIn(f, topic)
    <2>1. /\ Vanished(gone) /\ users' = users
          /\ post' = WithoutTopics(gone, post)
          /\ tally' = [v \in Users |->
                        IF v \in InvolvedInForum(f)
                        THEN Cardinality({p \in PostIds : post'[p].user = v}) ELSE tally[v]]
        BY <1>8, ForumVanishes DEF DeleteForum
    <2>2. NothingHidden
        BY <1>8 DEF DeleteForum, UserBoard, Never, Base
    <2>3. /\ \A v \in Users : ShownBy(v, post', topic')
                = {p \in ShownBy(v, post, topic) : post[p].topic \notin gone}
          /\ \A p \in PostIds : /\ post[p].topic \in gone => post'[p] = BlankPost
                                /\ post[p].topic \notin gone => post'[p] = post[p]
        BY <2>1, VanishedSets
    <2> SUFFICES ASSUME NEW v \in users
                 PROVE  tally'[v] = Cardinality(ShownBy(v, post', topic'))
        BY <2>1 DEF AllUsersCounted
    <2>4. v \in Users /\ v # None
        BY <1>0, NoneAssumption
    <2>5. \A p \in PostIds : post[p].topic # None => post[p].topic \in Topics
        BY Members DEF Base, IInv, NoOrphans
    <2>6. ShownBy(v, post, topic) = {p \in PostIds : post[p].user = v}
        BY <2>2, <2>4, <2>5 DEF ShownBy, ShownPosts, NothingHidden, Base, BlankRows
    <2>7. CASE v \in InvolvedInForum(f)
        <3>1. BlankPost.user = None
            BY DEF BlankPost
        <3>2. {p \in PostIds : post'[p].user = v} = ShownBy(v, post', topic')
            BY <2>3, <2>4, <2>6, <3>1
        <3> QED BY <2>1, <2>4, <2>7, <3>2
    <2>8. CASE v \notin InvolvedInForum(f)
        <3>1. gone = {} \/ {p \in PostIds : post[p].user = v} = {}
            BY <2>8 DEF InvolvedInForum
        <3>2. ShownBy(v, post', topic') = ShownBy(v, post, topic)
            BY <2>3, <2>4, <2>6, <3>1
        <3> QED BY <2>1, <2>4, <2>8, <3>2 DEF AllUsersCounted
    <2> QED BY <2>7, <2>8
<1>9. ASSUME NEW c \in Categories, DeleteCategory(c) PROVE AllUsersCounted'
    BY <1>9 DEF DeleteCategory, UserBoard, Never
<1>10. ASSUME NEW f \in Forums, AddForum(f) PROVE AllUsersCounted'
    BY <1>10 DEF AddForum, AllUsersCounted
<1>11. ASSUME NEW u \in Users, DeleteUser(u) PROVE AllUsersCounted'
    BY <1>0, <1>11 DEF DeleteUser, AllUsersCounted, Base, IInv, TypeOK
<1>12. CASE UNCHANGED vars
    BY <1>12 DEF vars, AllUsersCounted
<1>13. ASSUME NEW p \in PostIds, post[p].topic # None, UnhideReply(p) PROVE AllUsersCounted'
    <2>1. [post EXCEPT ![p].hidden = FALSE] \in PostTable
        BY DEF PostTable, PostRow, Base, IInv, TypeOK
    <2> QED BY <1>6, <1>13, <2>1, ReplyRestoredMarks
<1> QED BY HandlersOnly, ReplyTakenMarks, <1>2, <1>3, <1>4, <1>5, <1>6, <1>7, <1>8, <1>9,
           <1>10, <1>11, <1>12, <1>13 DEF Handlers, Base

\* users.post_count is the number of the user's visible posts, through everything that can
\* happen on a board where no category is deleted, and no forum where posts are hidden.
THEOREM UserCountsExact == Spec => []UserCountKept
<1>1. Init => Base /\ UsersCounted
    <2>1. ASSUME Init, NEW u \in Users PROVE ShownBy(u, post, topic) = {} /\ tally[u] = 0
        BY <2>1 DEF Init, ShownBy, ShownPosts, BlankPost
    <2> QED BY <2>1, BaseInit, FS_EmptySet DEF UsersCounted, AllUsersCounted, Init
<1>2. Base /\ UsersCounted /\ [Next]_vars => (Base /\ UsersCounted)'
    <2> SUFFICES ASSUME Base, UsersCounted, [Next]_vars PROVE Base' /\ UsersCounted'
        OBVIOUS
    <2>1. granted' = granted
        BY GrantedStays DEF Base
    <2> QED BY <2>1, BaseStep, UsersCountedStep DEF UsersCounted, UserBoard, Never
<1>3. Base /\ UsersCounted => UserCountKept
    BY DEF UsersCounted, AllUsersCounted, UserBoard, UserCountKept, UserCountExact
<1> QED BY <1>1, <1>2, <1>3, PTL DEF Spec

-----------------------------------------------------------------------------
(* The number of posts of a forum and of a topic.                          *)

AllPostsCounted ==
    /\ \A f \in Forums : forum[f].posts = Cardinality(PostsIn(f, post, topic))
    /\ \A t \in LiveTopics(topic) : topic[t].posts = Cardinality(PostsOf(t, post))

PostsCounted == Never({"makehidden"}) => AllPostsCounted

\* Where nothing is hidden the queries for what is not hidden find everything.
LEMMA AllAreShown ==
    ASSUME NEW P, NEW T, \A p \in PostIds : ~P[p].hidden, \A t \in Topics : ~T[t].hidden,
           \A p \in PostIds : P[p].topic # None => P[p].topic \in Topics
    PROVE  /\ \A f : /\ ShownIn(f, P, T) = PostsIn(f, P, T)
                     /\ UnhiddenIn(f, P, T) = PostsIn(f, P, T)
           /\ \A t : {p \in PostsOf(t, P) : ~P[p].hidden} = PostsOf(t, P)
           /\ \A t \in Topics : PostsOf(t, P) \cap ShownPosts(P, T) = PostsOf(t, P)
<1>1. \A f : ShownIn(f, P, T) = PostsIn(f, P, T)
    BY DEF ShownIn, ShownPosts, PostsIn
<1>2. \A f : UnhiddenIn(f, P, T) = PostsIn(f, P, T)
    BY DEF UnhiddenIn, PostsIn
<1>3. \A t : {p \in PostsOf(t, P) : ~P[p].hidden} = PostsOf(t, P)
    BY DEF PostsOf
<1>4. \A t \in Topics : PostsOf(t, P) \cap ShownPosts(P, T) = PostsOf(t, P)
    BY NullIsNoId DEF PostsOf, ShownPosts
<1> QED BY <1>1, <1>2, <1>3, <1>4

LEMMA PostsHaveTopics ==
    ASSUME Base
    PROVE  \A p \in PostIds : post[p].topic # None => post[p].topic \in LiveTopics(topic)
                                                      /\ post[p].topic \in Topics
BY Members DEF Base, IInv, NoOrphans

\* The posts of a topic go with it from one forum to another.
LEMMA PostsMove ==
    ASSUME Base, NEW t \in Topics, NEW g \in Forums, topic[t].forum \in Forums,
           topic[t].forum # g,
           \A s \in Topics : topic'[s].forum = IF s = t THEN g ELSE topic[s].forum
    PROVE  LET f == topic[t].forum IN
           /\ PostsOf(t, post) \subseteq PostsIn(f, post, topic)
           /\ PostsOf(t, post) \cap PostsIn(g, post, topic) = {}
           /\ PostsIn(f, post, topic') = PostsIn(f, post, topic) \ PostsOf(t, post)
           /\ PostsIn(g, post, topic') = PostsIn(g, post, topic) \cup PostsOf(t, post)
           /\ \A h \in Forums \ {f, g} : PostsIn(h, post, topic') = PostsIn(h, post, topic)
<1>1. \A p \in PostIds : post[p].topic # None => post[p].topic \in Topics
    BY PostsHaveTopics
<1>2. t # None
    BY NullIsNoId
<1> QED BY <1>1, <1>2 DEF PostsIn, PostsOf

LEMMA PostsCountedStep ==
    ASSUME Base, AllPostsCounted, [Next]_vars, Never({"makehidden"})
    PROVE  AllPostsCounted'
<1>0. Base' /\ NothingHidden /\ NothingHidden'
    <2>1. granted' = granted
        BY GrantedStays DEF Base
    <2> QED BY <2>1, BaseStep DEF Base, Never
<1>a. /\ \A p \in PostIds : post[p].topic # None => post[p].topic \in Topics
      /\ \A p \in PostIds : post'[p].topic # None => post'[p].topic \in Topics
    BY <1>0, PostsHaveTopics, Members DEF Base, IInv, NoOrphans, LiveTopics
<1>b. /\ \A g : UnhiddenIn(g, post', topic') = PostsIn(g, post', topic')
      /\ \A g : ShownIn(g, post', topic') = PostsIn(g, post', topic')
      /\ \A t : {p \in PostsOf(t, post') : ~post'[p].hidden} = PostsOf(t, post')
    BY <1>0, <1>a, AllAreShown DEF NothingHidden
<1>c. ASSUME NEW t \in LiveTopics(topic), topic'[t].posts = topic[t].posts,
             PostsOf(t, post') = PostsOf(t, post)
      PROVE  topic'[t].posts = Cardinality(PostsOf(t, post'))
    BY <1>c DEF AllPostsCounted
<1>d. ASSUME NEW g \in Forums, forum'[g].posts = forum[g].posts,
             PostsIn(g, post', topic') = PostsIn(g, post, topic)
      PROVE  forum'[g].posts = Cardinality(PostsIn(g, post', topic'))
    BY <1>d DEF AllPostsCounted
<1>e. \A g \in Forums : forum[g] \in ForumRow /\ forum[g].posts \in Int
    BY CountersRow DEF Base, IInv, TypeOK
\* One more post in the forum of its topic.
<1>1. ASSUME NEW p \in PostIds, NEW f \in Forums, NEW g \in Forums,
             p \notin PostsIn(g, post, topic),
             PostsIn(g, post', topic') = PostsIn(g, post, topic)
                    \cup (IF f = g THEN {p} ELSE {}),
             forum'[f].posts = forum[f].posts + 1,
             \A h \in Forums \ {f} : forum'[h] = forum[h]
      PROVE  forum'[g].posts = Cardinality(PostsIn(g, post', topic'))
    <2>1. CASE g = f
        <3>1. PostsIn(g, post', topic') = PostsIn(g, post, topic) \cup {p}
            BY <1>1, <2>1
        <3>2. Cardinality(PostsIn(g, post', topic')) = Cardinality(PostsIn(g, post, topic)) + 1
            BY <1>1, <3>1, CountedSets, PostsFinite, OneMore
        <3> QED BY <1>1, <2>1, <3>2 DEF AllPostsCounted
    <2>2. CASE g # f
        <3>1. PostsIn(g, post', topic') = PostsIn(g, post, topic)
            BY <1>1, <2>2
        <3> QED BY <1>1, <1>d, <2>2, <3>1
    <2> QED BY <2>1, <2>2
<1>2. ASSUME NEW u \in Users, NEW f \in Forums, NewTopic(u, f) PROVE AllPostsCounted'
    <2>1. PICK t \in Topics, p \in PostIds :
            /\ Written(p, t, u) /\ TopicsStay
            /\ topic[t].forum = None
            /\ topic'[t] = [forum |-> f, user |-> u, hidden |-> FALSE, first |-> p,
                            last |-> p, updated |-> clock', posts |-> 1]
            /\ \A s \in Topics \ {t} : topic'[s] = topic[s]
            /\ forum' = [forum EXCEPT ![f] = WithNewPost(forum[f], p, u, clock', 1)]
        BY <1>2, TopicWritten
    <2>2. topic'[t].forum = f /\ topic'[t].posts = 1
        BY <2>1
    <2>3. \A g \in Forums : forum'[g].posts = Cardinality(PostsIn(g, post', topic'))
        <3>1. /\ forum'[f] = WithNewPost(forum[f], p, u, clock', 1)
              /\ \A h \in Forums \ {f} : forum'[h] = forum[h]
            BY <2>1, <2>2 DEF Base, IInv, TypeOK
        <3>2. forum'[f].posts = forum[f].posts + 1
            BY <2>1, <3>1, <1>e, NewPostCounts
        <3>3. \A g \in Forums :
                /\ p \notin PostsIn(g, post, topic)
                /\ PostsIn(g, post', topic') = PostsIn(g, post, topic)
                        \cup (IF topic'[t].forum = g THEN {p} ELSE {})
            BY <2>1, <2>2, WrittenIn
        <3> QED BY <1>1, <2>1, <2>2, <3>1, <3>2, <3>3
    <2>4. \A s \in Topics :
            PostsOf(s, post') = PostsOf(s, post) \cup (IF s = t THEN {p} ELSE {})
        BY <2>1, WrittenOf
    <2>5. PostsOf(t, post) = {}
        <3>1. ~(\E q \in PostIds : post[q].topic = t)
            BY <2>1, PostsHaveTopics, NullIsNoId DEF LiveTopics
        <3> QED BY <3>1 DEF PostsOf
    <2>6. topic'[t].posts = Cardinality(PostsOf(t, post'))
        <3>1. PostsOf(t, post') = {p}
            BY <2>4, <2>5
        <3> QED BY <2>2, <3>1, FS_Singleton
    <2>7. ASSUME NEW s \in LiveTopics(topic'), s # t
          PROVE  topic'[s].posts = Cardinality(PostsOf(s, post'))
        <3>1. s \in LiveTopics(topic) /\ topic'[s] = topic[s]
            BY <2>1, <2>7 DEF LiveTopics
        <3>2. PostsOf(s, post') = PostsOf(s, post)
            BY <2>4, <2>7, <3>1 DEF LiveTopics
        <3> QED BY <1>c, <3>1, <3>2
    <2> QED BY <2>3, <2>6, <2>7 DEF AllPostsCounted
<1>3. ASSUME NEW u \in Users, NEW t \in Topics, Reply(u, t) PROVE AllPostsCounted'
    <2>1. /\ t \in LiveTopics(topic) /\ topic[t].forum \in Forums /\ ~topic[t].hidden
          /\ \A s \in Topics : topic'[s].forum = topic[s].forum
          /\ \A s \in Topics \ {t} : topic'[s] = topic[s]
        BY <1>0, <1>3, ReplyWritten DEF NothingHidden
    <2>2. PICK p \in PostIds :
            /\ Written(p, t, u) /\ TopicsStay
            /\ topic'[t].posts = topic[t].posts + 1
            /\ forum' = [forum EXCEPT ![topic[t].forum] =
                            WithNewPost(forum[topic[t].forum], p, u, clock', 0)]
        BY <1>3, <2>1, ReplyWritten
    <2>3. \A g \in Forums : forum'[g].posts = Cardinality(PostsIn(g, post', topic'))
        <3>1. /\ forum'[topic[t].forum] = WithNewPost(forum[topic[t].forum], p, u, clock', 0)
              /\ \A h \in Forums \ {topic[t].forum} : forum'[h] = forum[h]
            BY <2>1, <2>2 DEF Base, IInv, TypeOK
        <3>2. forum'[topic[t].forum].posts = forum[topic[t].forum].posts + 1
            BY <2>1, <3>1, <1>e, NewPostCounts
        <3>3. \A g \in Forums :
                /\ p \notin PostsIn(g, post, topic)
                /\ PostsIn(g, post', topic') = PostsIn(g, post, topic)
                        \cup (IF topic'[t].forum = g THEN {p} ELSE {})
            <4>1. Written(p, t, u) /\ TopicsStay
                BY <2>2
            <4> QED BY <4>1, WrittenIn
        <3> QED BY <1>1, <2>1, <2>2, <3>1, <3>2, <3>3
    <2>4. \A s \in Topics :
            /\ p \notin PostsOf(s, post)
            /\ PostsOf(s, post') = PostsOf(s, post) \cup (IF s = t THEN {p} ELSE {})
        BY <2>2, WrittenOf
    <2>5. topic'[t].posts = Cardinality(PostsOf(t, post'))
        <3>1. p \notin PostsOf(t, post) /\ PostsOf(t, post') = PostsOf(t, post) \cup {p}
            BY <2>4
        <3>2. Cardinality(PostsOf(t, post')) = Cardinality(PostsOf(t, post)) + 1
            BY <3>1, CountedSets, PostsFinite, OneMore
        <3> QED BY <2>1, <2>2, <3>2 DEF AllPostsCounted
    <2>6. ASSUME NEW s \in LiveTopics(topic'), s # t
          PROVE  topic'[s].posts = Cardinality(PostsOf(s, post'))
        <3>1. s \in LiveTopics(topic) /\ topic'[s] = topic[s]
            BY <2>1, <2>6 DEF LiveTopics
        <3>2. PostsOf(s, post') = PostsOf(s, post)
            BY <2>4, <2>6, <3>1 DEF LiveTopics
        <3> QED BY <1>c, <3>1, <3>2
    <2> QED BY <2>3, <2>5, <2>6 DEF AllPostsCounted
<1>4. ASSUME NEW gone, Vanished(gone), NEW s \in LiveTopics(topic')
      PROVE  topic'[s].posts = Cardinality(PostsOf(s, post'))
    <2>1. s \in LiveTopics(topic) /\ s \in Topics \ gone
        BY <1>4, VanishedSets DEF LiveTopics
    <2>2. topic'[s] = topic[s] /\ PostsOf(s, post') = PostsOf(s, post)
        BY <1>4, <2>1, VanishedSets DEF Vanished
    <2> QED BY <1>c, <2>1, <2>2
<1>5. ASSUME NEW t \in LiveTopics(topic), DeleteTopic(t) PROVE AllPostsCounted'
    <2> DEFINE f == topic[t].forum
    <2>1. Vanished({t}) /\ f \in Forums
        BY <1>5, TopicVanishes
    <2>2. /\ forum'[f].posts = Cardinality(UnhiddenIn(f, post', topic'))
          /\ \A g \in Forums \ {f} : forum'[g] = forum[g]
        BY <1>5, TopicVanishesFromForum
    <2>3. \A g \in Forums : PostsIn(g, post', topic')
                = {p \in PostsIn(g, post, topic) : post[p].topic \notin {t}}
        BY <2>1, VanishedSets
    <2>4. \A g \in Forums \ {f} : PostsIn(g, post', topic') = PostsIn(g, post, topic)
        BY <2>3 DEF PostsIn
    <2>5. \A g \in Forums : forum'[g].posts = Cardinality(PostsIn(g, post', topic'))
        BY <1>b, <1>d, <2>2, <2>4
    <2> QED BY <1>4, <2>1, <2>5 DEF AllPostsCounted
<1>6. ASSUME ForumsGo PROVE AllPostsCounted'
    <2>1. PICK closed \in SUBSET Forums, gone \in SUBSET Topics : Closing(closed, gone)
        BY <1>6, ForumsClose
    <2>2. Vanished(gone)
        BY <2>1 DEF Closing
    <2>3. \A g \in Forums : PostsIn(g, post', topic')
                = {p \in PostsIn(g, post, topic) : post[p].topic \notin gone}
        BY <2>2, VanishedSets
    <2>4. ASSUME NEW g \in closed
          PROVE  forum'[g].posts = Cardinality(PostsIn(g, post', topic'))
        <3>1. PostsIn(g, post', topic') = {}
            BY <1>a, <2>1, <2>3 DEF Closing, PostsIn, TopicsIn
        <3>2. forum'[g] = BlankForum /\ BlankForum.posts = 0
            BY <2>1 DEF Closing, BlankForum
        <3> QED BY <3>1, <3>2, FS_EmptySet
    <2>5. ASSUME NEW g \in Forums \ closed
          PROVE  forum'[g].posts = Cardinality(PostsIn(g, post', topic'))
        <3>1. PostsIn(g, post', topic') = PostsIn(g, post, topic)
            BY <1>a, <2>1, <2>3 DEF Closing, PostsIn, TopicsIn
        <3>2. forum'[g] = forum[g]
            BY <2>1 DEF Closing
        <3> QED BY <1>d, <3>1, <3>2
    <2> QED BY <1>4, <2>2, <2>4, <2>5 DEF AllPostsCounted
<1>7. ASSUME NEW p \in PostIds, NEW P \in PostTable, ReplyMarked(p, P) PROVE AllPostsCounted'
    <2> DEFINE t == post[p].topic
               f == topic[t].forum
    <2>1. /\ t \in LiveTopics(topic) /\ t \in Topics /\ f \in Forums /\ post' = P
          /\ \A q \in PostIds \ {p} : P[q] = post[q]
          /\ P[p].topic = None \/ P[p].topic = t
          /\ \A s \in Topics : /\ topic'[s].forum = topic[s].forum
                               /\ topic'[s].hidden = topic[s].hidden
          /\ \A s \in Topics \ {t} : topic'[s] = topic[s]
          /\ topic'[t].posts = TopicCount(t, P, topic[t].hidden)
          /\ \A g \in Forums \ {f} : forum'[g] = forum[g]
          /\ forum'[f].posts = Cardinality(ShownIn(f, P, topic))
        BY <1>7, Members DEF ReplyMarked
    <2>2. \A q \in PostIds : P[q].topic \in Topics \cup {None}
        BY DEF PostTable, PostRow
    <2>3. \A g \in Forums : /\ PostsIn(g, P, topic') = PostsIn(g, P, topic)
                            /\ ShownIn(g, P, topic') = ShownIn(g, P, topic)
        BY <2>1, <2>2, SameTopics
    <2>4. forum'[f].posts = Cardinality(PostsIn(f, post', topic'))
        BY <1>b, <2>1, <2>3
    <2>5. \A g \in Forums \ {f} : PostsIn(g, P, topic) = PostsIn(g, post, topic)
        BY <2>1 DEF PostsIn
    <2>6. ASSUME NEW g \in Forums \ {f}
          PROVE  forum'[g].posts = Cardinality(PostsIn(g, post', topic'))
        BY <1>d, <2>1, <2>3, <2>5
    <2>7. topic'[t].posts = Cardinality(PostsOf(t, post'))
        <3>1. ~topic[t].hidden
            BY <1>0, <2>1 DEF NothingHidden
        <3> QED BY <1>b, <2>1, <3>1 DEF TopicCount
    <2>8. ASSUME NEW s \in LiveTopics(topic'), s # t
          PROVE  topic'[s].posts = Cardinality(PostsOf(s, post'))
        <3>1. s \in LiveTopics(topic) /\ topic'[s] = topic[s]
            BY <2>1, <2>8 DEF LiveTopics
        <3>2. PostsOf(s, post') = PostsOf(s, post)
            BY <2>1, <2>8, NullIsNoId DEF LiveTopics, PostsOf
        <3> QED BY <1>c, <3>1, <3>2
    <2> QED BY <2>4, <2>6, <2>7, <2>8 DEF AllPostsCounted
<1>8. ASSUME NEW t \in Topics, NEW g \in Forums, MoveTopic(t, g) PROVE AllPostsCounted'
    <2> DEFINE f == topic[t].forum
    <2>1. /\ post' = post /\ t \in LiveTopics(topic) /\ f \in Forums /\ f # g
          /\ \A s \in Topics : topic'[s].forum = IF s = t THEN g ELSE topic[s].forum
          /\ \A s \in Topics : topic'[s].posts = topic[s].posts
          /\ forum'[f].posts = forum[f].posts - topic[t].posts
          /\ forum'[g].posts = forum[g].posts + topic[t].posts
          /\ \A h \in Forums \ {f, g} : forum'[h] = forum[h]
        BY <1>8, Moved
    <2>2. /\ PostsOf(t, post) \subseteq PostsIn(f, post, topic)
          /\ PostsOf(t, post) \cap PostsIn(g, post, topic) = {}
          /\ PostsIn(f, post, topic') = PostsIn(f, post, topic) \ PostsOf(t, post)
          /\ PostsIn(g, post, topic') = PostsIn(g, post, topic) \cup PostsOf(t, post)
          /\ \A h \in Forums \ {f, g} : PostsIn(h, post, topic') = PostsIn(h, post, topic)
        BY <2>1, PostsMove
    <2>3. Cardinality(PostsIn(f, post, topic'))
            = Cardinality(PostsIn(f, post, topic)) - Cardinality(PostsOf(t, post))
        BY <2>2, CountedSets, SomeMore
    <2>4. Cardinality(PostsIn(g, post, topic'))
            = Cardinality(PostsIn(g, post, topic)) + Cardinality(PostsOf(t, post))
        BY <2>2, CountedSets, SomeMore
    <2>5. \A h \in Forums : forum'[h].posts = Cardinality(PostsIn(h, post', topic'))
        BY <2>1, <2>2, <2>3, <2>4 DEF AllPostsCounted
    <2>6. \A s \in LiveTopics(topic') : s \in LiveTopics(topic) /\ s \in Topics
        BY <2>1, NullIsNoId DEF LiveTopics
    <2> QED BY <2>1, <2>5, <2>6 DEF AllPostsCounted
<1>9. ASSUME NEW f \in Forums, AddForum(f) PROVE AllPostsCounted'
    <2>1. \A g \in Forums : forum'[g].posts = forum[g].posts
        BY <1>9, <1>e DEF AddForum, Base, IInv, TypeOK, ForumRow
    <2> QED BY <1>9, <2>1 DEF AddForum, AllPostsCounted
<1>10. ASSUME NEW u \in Users, DeleteUser(u) PROVE AllPostsCounted'
    BY <1>10 DEF DeleteUser, AllPostsCounted
<1>11. CASE UNCHANGED vars
    BY <1>11 DEF vars, AllPostsCounted
<1>12. "makehidden" \notin granted
    BY DEF Never
<1> QED BY HandlersOnly, ReplyTakenMarks, <1>2, <1>3, <1>5, <1>6, <1>7, <1>8, <1>9, <1>10,
           <1>11, <1>12 DEF Handlers, ForumsGo, Base

LEMMA PostsCountedAlways == Spec => [](Base /\ PostsCounted)
<1>1. Init => Base /\ PostsCounted
    <2>1. ASSUME Init PROVE LiveTopics(topic) = {}
        BY <2>1 DEF Init, LiveTopics, BlankTopic
    <2>2. ASSUME Init, NEW f \in Forums
          PROVE  PostsIn(f, post, topic) = {} /\ forum[f].posts = 0
        BY <2>2 DEF Init, PostsIn, BlankPost, BlankForum
    <2> QED BY <2>1, <2>2, BaseInit, FS_EmptySet DEF PostsCounted, AllPostsCounted
<1>2. Base /\ PostsCounted /\ [Next]_vars => (Base /\ PostsCounted)'
    <2> SUFFICES ASSUME Base, PostsCounted, [Next]_vars PROVE Base' /\ PostsCounted'
        OBVIOUS
    <2>1. granted' = granted
        BY GrantedStays DEF Base
    <2> QED BY <2>1, BaseStep, PostsCountedStep DEF PostsCounted, Never
<1> QED BY <1>1, <1>2, PTL DEF Spec

\* forums.post_count is the number of visible posts in visible topics, through every
\* deletion and every move, where nothing is hidden.
THEOREM PostCountsExact == Spec => []PostCountKept
<1>1. Base /\ PostsCounted => PostCountKept
    <2> SUFFICES ASSUME Base, PostsCounted, Never({"makehidden"}), NEW f \in forums
                 PROVE  forum[f].posts = Cardinality(ShownIn(f, post, topic))
        BY DEF PostCountKept, PostCountExact
    <2>1. NothingHidden /\ AllPostsCounted /\ f \in Forums
        BY DEF Base, IInv, TypeOK, PostsCounted
    <2>2. ShownIn(f, post, topic) = PostsIn(f, post, topic)
        BY <2>1, PostsHaveTopics, AllAreShown DEF NothingHidden
    <2> QED BY <2>1, <2>2 DEF AllPostsCounted
<1> QED BY <1>1, PostsCountedAlways, PTL

\* topics.post_count of a visible topic is the number of its visible posts, through every
\* deletion and every move, where nothing is hidden.
THEOREM RepliesCountsExact == Spec => []RepliesCountKept
<1>1. Base /\ PostsCounted => RepliesCountKept
    <2> SUFFICES ASSUME Base, PostsCounted, Never({"makehidden"}), NEW t \in LiveTopics(topic)
                 PROVE  topic[t].posts
                            = Cardinality(PostsOf(t, post) \cap ShownPosts(post, topic))
        BY DEF RepliesCountKept, RepliesCountExact
    <2>1. NothingHidden /\ AllPostsCounted /\ t \in Topics
        BY DEF Base, PostsCounted, LiveTopics
    <2>2. PostsOf(t, post) \cap ShownPosts(post, topic) = PostsOf(t, post)
        BY <2>1, PostsHaveTopics, AllAreShown DEF NothingHidden
    <2> QED BY <2>1, <2>2 DEF AllPostsCounted
<1> QED BY <1>1, PostsCountedAlways, PTL

-----------------------------------------------------------------------------
(* The last post of a forum.                                               *)

RowNewest(row, f, P, T) ==
    LET all == PostsIn(f, P, T)
        p   == Newest(all)
    IN  IF all = {} THEN row.last = None
        ELSE row.last = p /\ row.lastUser = P[p].user /\ row.lastCreated = P[p].created

\* The newest post of a topic is the one it calls its last.
TopicsLast == \A t \in LiveTopics(topic) : \A q \in PostsOf(t, post) : q <= topic[t].last

AllLastsNewest ==
    /\ TopicsLast
    /\ \A f \in Forums : RowNewest(forum[f], f, post, topic)

LastsNewest == Never({"makehidden", "deletepost"}) => AllLastsNewest

LEMMA NewestIs ==
    ASSUME NEW S \in SUBSET PostIds, NEW p \in S, \A q \in S : q <= p
    PROVE  Newest(S) = p
<1>1. Newest(S) \in S /\ \A q \in S : q <= Newest(S)
    BY NewestIsLargest
<1>2. S \subseteq Int
    BY BoundsAssumption DEF PostIds
<1>3. Newest(S) <= p /\ p <= Newest(S)
    BY <1>1
<1>4. Newest(S) \in Int /\ p \in Int
    BY <1>1, <1>2
<1> QED BY <1>3, <1>4

\* Forum.update_last_post leaves the row alone when it names the newest post already.
LEMMA UpdateFindsNewest ==
    ASSUME NEW row \in ForumRow, NEW f \in Forums, NEW P \in PostTable, NEW T \in TopicTable,
           row.last \in PostsIn(f, P, T) =>
                row.lastUser = P[row.last].user /\ row.lastCreated = P[row.last].created
    PROVE  RowNewest(UpdateLastPost(row, f, P, T), f, P, T)
<1> DEFINE all  == PostsIn(f, P, T)
           last == Newest(all)
           new  == WithLast(row, last, P[last].user, P[last].created)
<1>1. CASE all = {}
    BY <1>1, WithoutLastRow DEF UpdateLastPost, RowNewest
<1>2. CASE all # {}
    <2>1. last \in all
        <3>1. all \in SUBSET PostIds
            BY CountedSets
        <3> HIDE DEF all
        <3> QED BY <1>2, <3>1, NewestIsLargest
    <2>2. CASE last = row.last
        BY <1>2, <2>1, <2>2 DEF UpdateLastPost, RowNewest
    <2>3. CASE last # row.last
        <3>1. new.last = last /\ new.lastUser = P[last].user /\ new.lastCreated = P[last].created
            BY DEF WithLast, ForumRow
        <3>2. UpdateLastPost(row, f, P, T) = new
            BY <1>2, <2>3 DEF UpdateLastPost
        <3> HIDE DEF new
        <3> QED BY <1>2, <3>1, <3>2 DEF RowNewest
    <2> QED BY <2>2, <2>3
<1> QED BY <1>1, <1>2

\* What names the newest post goes on doing so while the posts of the forum stay.
LEMMA StaysNewest ==
    ASSUME NEW f \in Forums, RowNewest(forum[f], f, post, topic),
           forum'[f].last = forum[f].last, forum'[f].lastUser = forum[f].lastUser,
           forum'[f].lastCreated = forum[f].lastCreated,
           PostsIn(f, post', topic') = PostsIn(f, post, topic),
           \A q \in PostsIn(f, post, topic) : post'[q] = post[q]
    PROVE  RowNewest(forum'[f], f, post', topic')
<1> DEFINE all == PostsIn(f, post, topic)
<1>1. CASE all = {}
    BY <1>1 DEF RowNewest
<1>2. CASE all # {}
    <2>1. Newest(all) \in all
        <3>1. all \in SUBSET PostIds
            BY CountedSets
        <3> HIDE DEF all
        <3> QED BY <1>2, <3>1, NewestIsLargest
    <2>2. post'[Newest(all)] = post[Newest(all)]
        BY <2>1
    <2> QED BY <1>2, <2>2 DEF RowNewest
<1> QED BY <1>1, <1>2

\* A row that names a post names its author and its date.
LEMMA NamedInRow ==
    ASSUME NEW f \in Forums, RowNewest(forum[f], f, post, topic), forum[f].last # None
    PROVE  /\ PostsIn(f, post, topic) # {}
           /\ forum[f].last \in PostsIn(f, post, topic)
           /\ \A q \in PostsIn(f, post, topic) : q <= forum[f].last
           /\ forum[f].lastUser = post[forum[f].last].user
           /\ forum[f].lastCreated = post[forum[f].last].created
<1>1. PostsIn(f, post, topic) # {}
    BY DEF RowNewest
<1>2. /\ Newest(PostsIn(f, post, topic)) \in PostsIn(f, post, topic)
      /\ \A q \in PostsIn(f, post, topic) : q <= Newest(PostsIn(f, post, topic))
    BY <1>1, CountedSets, NewestIsLargest
<1> QED BY <1>1, <1>2 DEF RowNewest

\* The post written last is the newest one of its forum and of its topic.
LEMMA WrittenIsNewest ==
    ASSUME Base, AllLastsNewest, NEW p \in PostIds, NEW t \in Topics, NEW u \in Users,
           Written(p, t, u), TopicsStay, topic'[t].forum \in Forums,
           topic'[t].last = p,
           \A s \in Topics \ {t} : topic'[s] = topic[s],
           forum'[topic'[t].forum].last = p, forum'[topic'[t].forum].lastUser = u,
           forum'[topic'[t].forum].lastCreated = clock',
           \A h \in Forums \ {topic'[t].forum} : forum'[h] = forum[h]
    PROVE  AllLastsNewest'
<1> DEFINE f == topic'[t].forum
<1>1. /\ post[p].topic = None
      /\ \A q \in PostIds : post[q].topic # None => q < p
      /\ post'[p].user = u /\ post'[p].created = clock'
      /\ \A q \in PostIds \ {p} : post'[q] = post[q]
    BY DEF Written
<1>2. \A g \in Forums :
        /\ p \notin PostsIn(g, post, topic)
        /\ PostsIn(g, post', topic') = PostsIn(g, post, topic)
                \cup (IF topic'[t].forum = g THEN {p} ELSE {})
    BY WrittenIn
<1>3. \A s \in Topics :
        PostsOf(s, post') = PostsOf(s, post) \cup (IF s = t THEN {p} ELSE {})
    BY WrittenOf
<1>4. p <= p /\ \A q \in PostIds : q < p => q <= p
    BY BoundsAssumption DEF PostIds
<1>5. TopicsLast'
    <2> SUFFICES ASSUME NEW s \in LiveTopics(topic'), NEW q \in PostsOf(s, post')
                 PROVE  q <= topic'[s].last
        BY DEF TopicsLast
    <2>1. CASE s = t
        <3>1. q \in PostsOf(t, post) \/ q = p
            BY <1>3, <2>1
        <3>2. q \in PostsOf(t, post) => q < p
            BY <1>1, NullIsNoId DEF PostsOf
        <3> QED BY <1>4, <2>1, <3>1, <3>2 DEF PostsOf
    <2>2. CASE s # t
        <3>1. s \in LiveTopics(topic) /\ topic'[s] = topic[s]
            BY <2>2 DEF LiveTopics
        <3>2. q \in PostsOf(s, post)
            BY <1>3, <2>2 DEF LiveTopics
        <3> QED BY <3>1, <3>2 DEF AllLastsNewest, TopicsLast
    <2> QED BY <2>1, <2>2
<1>6. RowNewest(forum'[f], f, post', topic')
    <2>1. PostsIn(f, post', topic') = PostsIn(f, post, topic) \cup {p}
        BY <1>2
    <2>2. \A q \in PostsIn(f, post', topic') : q <= p
        BY <1>1, <1>4, <2>1 DEF PostsIn
    <2>3. Newest(PostsIn(f, post', topic')) = p
        BY <2>1, <2>2, CountedSets, NewestIs
    <2>4. PostsIn(f, post', topic') # {}
        BY <2>1
    <2> QED BY <1>1, <2>3, <2>4 DEF RowNewest
<1>7. ASSUME NEW g \in Forums \ {f} PROVE RowNewest(forum'[g], g, post', topic')
    <2>1. PostsIn(g, post', topic') = PostsIn(g, post, topic)
        BY <1>2, <1>7
    <2>2. \A q \in PostsIn(g, post, topic) : post'[q] = post[q]
        BY <1>1 DEF PostsIn
    <2>3. forum'[g] = forum[g] /\ RowNewest(forum[g], g, post, topic)
        BY <1>7 DEF AllLastsNewest
    <2> QED BY <2>1, <2>2, <2>3, StaysNewest
<1> QED BY <1>5, <1>6, <1>7 DEF AllLastsNewest

\* What is left of a topic's posts when topics vanish.
LEMMA VanishedLeavesLasts ==
    ASSUME Base, TopicsLast, NEW gone, Vanished(gone)
    PROVE  TopicsLast'
<1> SUFFICES ASSUME NEW s \in LiveTopics(topic'), NEW q \in PostsOf(s, post')
             PROVE  q <= topic'[s].last
    BY DEF TopicsLast
<1>1. s \in LiveTopics(topic) /\ s \in Topics \ gone
    BY VanishedSets DEF LiveTopics
<1>2. topic'[s] = topic[s] /\ PostsOf(s, post') = PostsOf(s, post)
    BY <1>1, VanishedSets DEF Vanished
<1> QED BY <1>1, <1>2 DEF TopicsLast

\* Topic.delete looks for the last post when the forum named the topic's own.
LEMMA DeleteTopicLeavesNewest ==
    ASSUME Base, AllLastsNewest, NEW t \in LiveTopics(topic), DeleteTopic(t)
    PROVE  AllLastsNewest'
<1> DEFINE f   == topic[t].forum
           row == FixPostCounts(forum[f], f, post', topic')
<1>1. Vanished({t}) /\ t \in Topics /\ f \in Forums
    BY TopicVanishes
<1>2. /\ row \in ForumRow
      /\ row.last = forum[f].last /\ row.lastUser = forum[f].lastUser
      /\ row.lastCreated = forum[f].lastCreated
      /\ forum'[f] = IF row.last = None \/ row.last = topic[t].last
                     THEN UpdateLastPost(row, f, post', topic') ELSE row
      /\ \A g \in Forums \ {f} : forum'[g] = forum[g]
    BY TopicVanishesFromForum
<1> HIDE DEF row
<1>3. /\ \A p \in PostIds : post[p].topic \notin {t} => post'[p] = post[p]
      /\ \A g \in Forums : PostsIn(g, post', topic')
                = {p \in PostsIn(g, post, topic) : post[p].topic \notin {t}}
    BY <1>1, VanishedSets
<1>4. post' \in PostTable /\ topic' \in TopicTable
    BY DeleteTopicPreserves DEF Base, IInv, TypeOK, PostTable, TopicTable
<1>5. RowNewest(forum[f], f, post, topic)
    BY <1>1 DEF AllLastsNewest
<1>6. TopicsLast'
    BY <1>1, VanishedLeavesLasts DEF AllLastsNewest
<1>7. ASSUME row.last = None \/ row.last = topic[t].last
      PROVE  RowNewest(forum'[f], f, post', topic')
    <2>1. ASSUME row.last \in PostsIn(f, post', topic')
          PROVE  row.lastUser = post'[row.last].user /\ row.lastCreated = post'[row.last].created
        <3>1. row.last \in PostIds /\ post[row.last].topic \notin {t}
            BY <1>1, <1>3, <2>1 DEF PostsIn
        <3>2. post'[row.last] = post[row.last] /\ row.last # None
            BY <1>3, <3>1, NullIsNoId
        <3> QED BY <1>1, <1>2, <1>5, <3>2, NamedInRow
    <2>2. RowNewest(UpdateLastPost(row, f, post', topic'), f, post', topic')
        BY <1>1, <1>2, <1>4, <2>1, UpdateFindsNewest
    <2> QED BY <1>2, <1>7, <2>2
<1>8. ASSUME ~(row.last = None \/ row.last = topic[t].last)
      PROVE  RowNewest(forum'[f], f, post', topic')
    <2> DEFINE last == forum[f].last
    <2>1. /\ last \in PostsIn(f, post, topic)
          /\ \A q \in PostsIn(f, post, topic) : q <= last
          /\ forum[f].lastUser = post[last].user /\ forum[f].lastCreated = post[last].created
        BY <1>1, <1>2, <1>5, <1>8, NamedInRow
    <2>2. post[last].topic # t
        <3> SUFFICES ASSUME post[last].topic = t PROVE FALSE
            OBVIOUS
        <3>1. last \in PostsOf(t, post) /\ topic[t].last \in PostsOf(t, post)
            BY <2>1 DEF PostsIn, PostsOf, Base, IInv, LastPostInTopic
        <3>2. last <= topic[t].last
            BY <3>1 DEF AllLastsNewest, TopicsLast
        <3>3. topic[t].last \in PostsIn(f, post, topic)
            BY <1>1, <3>1, NullIsNoId DEF PostsIn, PostsOf
        <3>4. topic[t].last <= last /\ last \in Int /\ topic[t].last \in Int
            BY <2>1, <3>1, <3>3, BoundsAssumption DEF PostsOf, PostIds
        <3>5. last = topic[t].last
            BY <3>2, <3>4
        <3> QED BY <1>2, <1>8, <3>5
    <2>3. /\ last \in PostsIn(f, post', topic')
          /\ \A q \in PostsIn(f, post', topic') : q <= last
          /\ post'[last] = post[last]
        BY <1>1, <1>3, <2>1, <2>2 DEF PostsIn
    <2>4. Newest(PostsIn(f, post', topic')) = last
        BY <2>3, CountedSets, NewestIs
    <2>5. PostsIn(f, post', topic') # {}
        BY <2>3
    <2>6. forum'[f] = row
        BY <1>2, <1>8
    <2> QED BY <1>2, <2>1, <2>3, <2>4, <2>5, <2>6 DEF RowNewest
<1>9. ASSUME NEW g \in Forums \ {f} PROVE RowNewest(forum'[g], g, post', topic')
    <2>1. \A p \in PostsIn(g, post, topic) : post[p].topic \notin {t}
        BY <1>9 DEF PostsIn
    <2>2. PostsIn(g, post', topic') = PostsIn(g, post, topic)
        BY <1>3, <1>9, <2>1
    <2>3. \A q \in PostsIn(g, post, topic) : post'[q] = post[q]
        BY <1>3, <2>1 DEF PostsIn
    <2>4. forum'[g] = forum[g] /\ RowNewest(forum[g], g, post, topic)
        BY <1>2, <1>9 DEF AllLastsNewest
    <2> QED BY <2>2, <2>3, <2>4, StaysNewest
<1> QED BY <1>6, <1>7, <1>8, <1>9 DEF AllLastsNewest

LEMMA MoveFindsNewest ==
    ASSUME Base, AllLastsNewest, NEW t \in Topics, NEW g \in Forums, MoveTopic(t, g)
    PROVE  AllLastsNewest'
<1> DEFINE f == topic[t].forum
<1>1. /\ post' = post /\ t \in LiveTopics(topic) /\ f \in Forums /\ f # g
      /\ topic' \in TopicTable
      /\ \A s \in Topics : topic'[s].forum = IF s = t THEN g ELSE topic[s].forum
      /\ \A s \in Topics : topic'[s].last = topic[s].last
      /\ \A h \in Forums \ {f, g} : forum'[h] = forum[h]
    BY Moved
<1>2. /\ RowFrom(t) \in ForumRow /\ RowFrom(t).last = forum[f].last
      /\ RowFrom(t).lastUser = forum[f].lastUser
      /\ RowFrom(t).lastCreated = forum[f].lastCreated
      /\ forum'[f] = UpdateLastPost(RowFrom(t), f, post, topic')
    BY Moved
<1>3. /\ RowTo(t, g) \in ForumRow /\ RowTo(t, g).last = forum[g].last
      /\ RowTo(t, g).lastUser = forum[g].lastUser
      /\ RowTo(t, g).lastCreated = forum[g].lastCreated
      /\ forum'[g] = UpdateLastPost(RowTo(t, g), g, post, topic')
    BY Moved
<1>4. post \in PostTable
    BY DEF Base, IInv, TypeOK, PostTable
<1>5. ASSUME NEW h \in Forums, NEW row \in ForumRow, row.last = forum[h].last,
             row.lastUser = forum[h].lastUser, row.lastCreated = forum[h].lastCreated,
             forum'[h] = UpdateLastPost(row, h, post, topic')
      PROVE  RowNewest(forum'[h], h, post', topic')
    <2>1. RowNewest(forum[h], h, post, topic)
        BY DEF AllLastsNewest
    <2>2. ASSUME row.last \in PostsIn(h, post, topic')
          PROVE  row.lastUser = post[row.last].user /\ row.lastCreated = post[row.last].created
        <3>1. row.last # None
            BY <2>2, NullIsNoId DEF PostsIn
        <3> QED BY <1>5, <2>1, <3>1, NamedInRow
    <2>3. RowNewest(UpdateLastPost(row, h, post, topic'), h, post, topic')
        BY <1>1, <1>4, <2>2, UpdateFindsNewest
    <2> QED BY <1>1, <1>5, <2>3
<1>6. ASSUME NEW h \in Forums \ {f, g} PROVE RowNewest(forum'[h], h, post', topic')
    <2>1. PostsIn(h, post, topic') = PostsIn(h, post, topic)
        BY <1>1, <1>6, PostsMove
    <2>2. forum'[h] = forum[h] /\ RowNewest(forum[h], h, post, topic)
        BY <1>1, <1>6 DEF AllLastsNewest
    <2> QED BY <1>1, <2>1, <2>2, StaysNewest
<1>7. TopicsLast'
    <2>1. \A s \in LiveTopics(topic') : s \in LiveTopics(topic) /\ s \in Topics
        BY <1>1, NullIsNoId DEF LiveTopics
    <2> QED BY <1>1, <2>1 DEF AllLastsNewest, TopicsLast
<1>8. RowNewest(forum'[f], f, post', topic')
    BY <1>1, <1>2, <1>5
<1>9. RowNewest(forum'[g], g, post', topic')
    BY <1>3, <1>5
<1> QED BY <1>6, <1>7, <1>8, <1>9 DEF AllLastsNewest

LEMMA LastsNewestStep ==
    ASSUME Base, AllLastsNewest, [Next]_vars, Never({"makehidden", "deletepost"})
    PROVE  AllLastsNewest'
<1>0. NothingHidden /\ "makehidden" \notin granted /\ "deletepost" \notin granted
    BY DEF Base, Never
<1>e. \A g \in Forums : forum[g] \in ForumRow /\ forum[g].posts \in Int
    BY CountersRow DEF Base, IInv, TypeOK
<1>1. ASSUME NEW u \in Users, NEW f \in Forums, NewTopic(u, f) PROVE AllLastsNewest'
    <2>1. PICK t \in Topics, p \in PostIds :
            /\ Written(p, t, u) /\ TopicsStay
            /\ topic[t].forum = None
            /\ topic'[t] = [forum |-> f, user |-> u, hidden |-> FALSE, first |-> p,
                            last |-> p, updated |-> clock', posts |-> 1]
            /\ \A s \in Topics \ {t} : topic'[s] = topic[s]
            /\ forum' = [forum EXCEPT ![f] = WithNewPost(forum[f], p, u, clock', 1)]
        BY <1>1, TopicWritten
    <2>2. topic'[t].forum = f /\ topic'[t].last = p
        BY <2>1
    <2>3. /\ forum'[f] = WithNewPost(forum[f], p, u, clock', 1)
          /\ \A h \in Forums \ {f} : forum'[h] = forum[h]
        BY <2>1 DEF Base, IInv, TypeOK
    <2>4. forum'[f].last = p /\ forum'[f].lastUser = u /\ forum'[f].lastCreated = clock'
        BY <1>e, <2>3, NewPostCounts
    <2>5. Written(p, t, u) /\ TopicsStay /\ \A s \in Topics \ {t} : topic'[s] = topic[s]
        BY <2>1
    <2> QED BY <2>2, <2>3, <2>4, <2>5, WrittenIsNewest
<1>2. ASSUME NEW u \in Users, NEW t \in Topics, Reply(u, t) PROVE AllLastsNewest'
    <2> DEFINE f == topic[t].forum
    <2>1. /\ f \in Forums /\ ~topic[t].hidden /\ topic'[t].forum = f
          /\ \A s \in Topics \ {t} : topic'[s] = topic[s]
        BY <1>0, <1>2, ReplyWritten DEF NothingHidden
    <2>2. PICK p \in PostIds :
            /\ Written(p, t, u) /\ TopicsStay
            /\ topic'[t].last = p
            /\ forum' = [forum EXCEPT ![f] = WithNewPost(forum[f], p, u, clock', 0)]
        BY <1>2, <2>1, ReplyWritten
    <2>3. /\ forum'[f] = WithNewPost(forum[f], p, u, clock', 0)
          /\ \A h \in Forums \ {f} : forum'[h] = forum[h]
        BY <2>1, <2>2 DEF Base, IInv, TypeOK
    <2>4. forum'[f].last = p /\ forum'[f].lastUser = u /\ forum'[f].lastCreated = clock'
        BY <1>e, <2>1, <2>3, NewPostCounts
    <2>5. Written(p, t, u) /\ TopicsStay /\ topic'[t].last = p
        BY <2>2
    <2> HIDE DEF f
    <2> QED BY <2>1, <2>3, <2>4, <2>5, WrittenIsNewest
<1>3. ASSUME ForumsGo PROVE AllLastsNewest'
    <2>1. PICK closed \in SUBSET Forums, gone \in SUBSET Topics : Closing(closed, gone)
        BY <1>3, ForumsClose
    <2>2. Vanished(gone)
        BY <2>1 DEF Closing
    <2>3. /\ \A p \in PostIds : post[p].topic \notin gone => post'[p] = post[p]
          /\ \A g \in Forums : PostsIn(g, post', topic')
                = {p \in PostsIn(g, post, topic) : post[p].topic \notin gone}
        BY <2>2, VanishedSets
    <2>4. \A p \in PostIds : post[p].topic # None => post[p].topic \in Topics
        BY PostsHaveTopics
    <2>5. ASSUME NEW g \in closed PROVE RowNewest(forum'[g], g, post', topic')
        <3>1. PostsIn(g, post', topic') = {}
            BY <2>1, <2>3, <2>4 DEF Closing, PostsIn, TopicsIn
        <3>2. forum'[g] = BlankForum /\ BlankForum.last = None
            BY <2>1 DEF Closing, BlankForum
        <3> QED BY <3>1, <3>2 DEF RowNewest
    <2>6. ASSUME NEW g \in Forums \ closed PROVE RowNewest(forum'[g], g, post', topic')
        <3>1. \A p \in PostsIn(g, post, topic) : post[p].topic \notin gone
            BY <2>1, <2>4 DEF Closing, PostsIn, TopicsIn
        <3>2. PostsIn(g, post', topic') = PostsIn(g, post, topic)
            BY <2>3, <3>1
        <3>3. \A q \in PostsIn(g, post, topic) : post'[q] = post[q]
            BY <2>3, <3>1 DEF PostsIn
        <3>4. forum'[g] = forum[g] /\ RowNewest(forum[g], g, post, topic)
            BY <2>1 DEF Closing, AllLastsNewest
        <3> QED BY <3>2, <3>3, <3>4, StaysNewest
    <2>7. TopicsLast'
        BY <2>2, VanishedLeavesLasts DEF AllLastsNewest
    <2> QED BY <2>5, <2>6, <2>7 DEF AllLastsNewest
<1>4. ASSUME NEW f \in Forums, AddForum(f) PROVE AllLastsNewest'
    <2>1. /\ post' = post /\ topic' = topic /\ f \notin forums
          /\ forum' = [forum EXCEPT ![f].lastCreated = clock]
        BY <1>4 DEF AddForum
    <2>2. PostsIn(f, post, topic) = {}
        <3>1. \A p \in PostIds : post[p].topic # None => topic[post[p].topic].forum \in forums
            BY DEF Base, IInv, NoOrphans
        <3> QED BY <2>1, <3>1 DEF PostsIn
    <2>3. forum'[f].last = forum[f].last /\ \A g \in Forums \ {f} : forum'[g] = forum[g]
        BY <1>e, <2>1 DEF Base, IInv, TypeOK, ForumRow
    <2>4. RowNewest(forum'[f], f, post', topic')
        <3>1. RowNewest(forum[f], f, post, topic)
            BY DEF AllLastsNewest
        <3> QED BY <2>1, <2>2, <2>3, <3>1 DEF RowNewest
    <2>5. ASSUME NEW g \in Forums \ {f} PROVE RowNewest(forum'[g], g, post', topic')
        BY <2>1, <2>3, StaysNewest DEF AllLastsNewest
    <2>6. TopicsLast'
        BY <2>1 DEF AllLastsNewest, TopicsLast
    <2> QED BY <2>4, <2>5, <2>6 DEF AllLastsNewest
<1>5. ASSUME post' = post, topic' = topic, forum' = forum PROVE AllLastsNewest'
    BY <1>5 DEF AllLastsNewest, TopicsLast
<1>6. ASSUME NEW u \in Users, DeleteUser(u) PROVE AllLastsNewest'
    BY <1>5, <1>6 DEF DeleteUser
<1>7. CASE UNCHANGED vars
    BY <1>5, <1>7 DEF vars
<1>8. ASSUME NEW p \in PostIds, NEW P \in PostTable, ReplyTaken(p, P) PROVE FALSE
    BY <1>0, <1>8 DEF ReplyTaken
<1> QED BY HandlersOnly, DeleteTopicLeavesNewest, MoveFindsNewest, <1>0, <1>1, <1>2, <1>3,
           <1>4, <1>6, <1>7, <1>8 DEF Handlers, ForumsGo, Base

\* The forum's last post is its newest visible one, with that post's author and date next
\* to it, whatever is written, moved or deleted with its topic, its forum or its category,
\* where no single post is hidden or deleted.
THEOREM ForumsShowNewest == Spec => []ForumShowsNewestKept
<1>1. Init => Base /\ LastsNewest
    <2>1. ASSUME Init PROVE LiveTopics(topic) = {}
        BY <2>1 DEF Init, LiveTopics, BlankTopic
    <2>2. ASSUME Init, NEW f \in Forums PROVE RowNewest(forum[f], f, post, topic)
        BY <2>2 DEF Init, PostsIn, BlankPost, BlankForum, RowNewest
    <2> QED BY <2>1, <2>2, BaseInit DEF LastsNewest, AllLastsNewest, TopicsLast
<1>2. Base /\ LastsNewest /\ [Next]_vars => (Base /\ LastsNewest)'
    <2> SUFFICES ASSUME Base, LastsNewest, [Next]_vars PROVE Base' /\ LastsNewest'
        OBVIOUS
    <2>1. granted' = granted
        BY GrantedStays DEF Base
    <2> QED BY <2>1, BaseStep, LastsNewestStep DEF LastsNewest, Never
<1>3. Base /\ LastsNewest => ForumShowsNewestKept
    <2> SUFFICES ASSUME Base, LastsNewest, Never({"makehidden", "deletepost"})
                 PROVE  ForumShowsNewest
        BY DEF ForumShowsNewestKept
    <2>1. NothingHidden /\ AllLastsNewest
        BY DEF Base, LastsNewest, Never
    <2>2. \A f : ShownIn(f, post, topic) = PostsIn(f, post, topic)
        BY <2>1, PostsHaveTopics, AllAreShown DEF NothingHidden
    <2>3. forums \subseteq Forums
        BY DEF Base, IInv, TypeOK
    <2> QED BY <2>1, <2>2, <2>3 DEF AllLastsNewest, RowNewest, ForumShowsNewest
<1> QED BY <1>1, <1>2, <1>3, PTL DEF Spec
=============================================================================
