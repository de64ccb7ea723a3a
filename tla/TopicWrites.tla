---------------------------- MODULE TopicWrites ----------------------------
(***************************************************************************)
(* The requests that write a topic, a reply or a move, commit by commit:   *)
(* Topic.save, Post.save and Topic.move of flaskbb/forum/models.py as they *)
(* run in several workers of the web server at a time, or in one that may  *)
(* die between two commits.                                                *)
(*                                                                         *)
(* A request changes rows it has loaded: a counter is written as the value *)
(* loaded plus one, and a column that was set to the value it was loaded   *)
(* with is not written at all.  Every commit ends the transaction and      *)
(* expires the rows, so they are loaded again after it.  SQLite takes its  *)
(* lock at the first statement that writes: what was read before it may be *)
(* out of date, and the commit fails when a row to update is gone.         *)
(*                                                                         *)
(* A request loads its rows one after the other; here it does at once.     *)
(* Deleting a topic is one step, as in ForumContent, done by an idle       *)
(* worker.  Nothing is hidden here and no forum or account goes away.      *)
(***************************************************************************)
EXTENDS ForumContent

CONSTANTS
    Slots,      \* the workers there may be
    MaxCrashes, \* bound: how often a worker dies
    MaxRequests \* bound: how many requests there are

ASSUME WritesBoundsAssumption == MaxCrashes \in Nat /\ MaxRequests \in 0..MaxTime
ASSUME SlotsAssumption == IsFiniteSet(Slots) /\ None \notin Slots

VARIABLES
    workers,  \* the workers there are
    req,      \* what each of them works on
    crashes,  \* how many died in a request
    started   \* how many requests there were

writeVars == <<vars, workers, req, crashes, started>>

Stages == {"idle",
           "opened",    \* Topic.save after its first commit
           "loaded",    \* Post.save before its commit
           "saved",     \* Topic.save after Post.save
           "counting",  \* Topic.save before its last commit
           "moving",    \* Topic.move before its first commit
           "moved",     \* after it
           "settled"}   \* after it updated the new forum

\* A request: its arguments, what it created and the columns it loaded.
Request == [stage: Stages, new: BOOLEAN, user: Users \cup {None},
            topic: Topics \cup {None}, forum: Forums \cup {None},
            to: Forums \cup {None}, post: PostIds \cup {None}, time: Times,
            home: Forums \cup {None}, posts: Nat, tally: Int,
            row: ForumRow, toRow: ForumRow]

Idle == [stage |-> "idle", new |-> FALSE, user |-> None, topic |-> None,
         forum |-> None, to |-> None, post |-> None, time |-> 0, home |-> None,
         posts |-> 0, tally |-> 0, row |-> BlankForum, toRow |-> BlankForum]

WritesTypeOK ==
    /\ TypeOK
    /\ workers \subseteq Slots
    /\ req \in [Slots -> Request]
    /\ crashes \in 0..MaxCrashes
    /\ started \in 0..MaxRequests

-----------------------------------------------------------------------------
Is(s, stage) == s \in workers /\ req[s].stage = stage

\* The row to update is gone: the commit fails and is rolled back.
Gone(t) == topic[t].forum = None

FailWaiting(s) == UNCHANGED <<vars, req>>
Fail(s) == req' = [req EXCEPT ![s] = Idle] /\ UNCHANGED vars

\* The rows Post.save works on, with the date it gives the post.
Loaded(r) ==
    [r EXCEPT !.stage = "loaded", !.time = clock + 1, !.home = topic[r.topic].forum,
              !.posts = topic[r.topic].posts, !.tally = tally[r.user],
              !.row = forum[topic[r.topic].forum]]

\* A column is written when its new value is not the one that was loaded.
Written(current, loaded, new) == IF new = loaded THEN current ELSE new

\* The columns Post.save writes.
SavedForumNewest(row, r, p) ==
    [row EXCEPT !.last = IF @ # None /\ row.lastCreated > r.time THEN @ ELSE p,
                !.lastUser = Written(@, r.row.lastUser, r.user),
                !.lastCreated = r.time, !.posts = r.row.posts + 1]
SavedForumCounting(row, r, p) ==
    [row EXCEPT !.last = p, !.lastUser = Written(@, r.row.lastUser, r.user),
                !.lastCreated = r.time, !.posts = r.row.posts + 1,
                !.topics = IF r.new THEN @ + 1 ELSE @]
SavedForumLatest(row, r, p) ==
    [row EXCEPT !.last = p, !.lastUser = Written(@, r.row.lastUser, r.user),
                !.lastCreated = IF @ > r.time THEN @ ELSE r.time,
                !.posts = r.row.posts + 1]
SavedForum(row, r, p) ==
    [row EXCEPT !.last = p, !.lastUser = Written(@, r.row.lastUser, r.user),
                !.lastCreated = r.time, !.posts = r.row.posts + 1]

SavedTopic(row, r, p) ==
    [row EXCEPT !.last = p, !.updated = r.time, !.posts = r.posts + 1]

SavedTallyLater(r) == IF r.new THEN r.tally ELSE r.tally + 1
SavedTally(r) == r.tally + 1

\* The columns the last commit of Topic.save writes.
ClosedTopicLast(row, r) == [row EXCEPT !.last = r.post]
ClosedTopic(row, r) == [row EXCEPT !.first = r.post, !.last = r.post]

\* The columns the first commit of Topic.move writes.
LessOf(row, r) ==
    [row EXCEPT !.posts = Written(@, r.row.posts, r.row.posts - r.posts),
                !.topics = r.row.topics - 1]
MoreOf(row, r) ==
    [row EXCEPT !.posts = Written(@, r.toRow.posts, r.toRow.posts + r.posts),
                !.topics = r.toRow.topics + 1]

\* Forum.update_last_post, which takes the latest post by its date.
Latest(S) == CHOOSE p \in S : \A q \in S : post[q].created <= post[p].created

KeepLast(row, f, T) == row
LatestPost(row, f, T) ==
    LET all  == PostsIn(f, post, T)
        last == Latest(all)
    IN  IF all = {} THEN WithoutLast(row)
        ELSE IF last = row.last THEN row
        ELSE WithLast(row, last, post[last].user, post[last].created)

-----------------------------------------------------------------------------
WritesInit ==
    /\ Init
    /\ workers \in (SUBSET Slots) \ {{}}
    /\ req = [s \in Slots |-> Idle]
    /\ crashes = 0 /\ started = 0

NewRowGuessing(u, f) ==
    [BlankTopic EXCEPT !.forum = f, !.user = u, !.updated = clock,
                       !.last = CHOOSE p \in PostIds : NextId(p)]
NewRow(u, f) == [BlankTopic EXCEPT !.forum = f, !.user = u, !.updated = clock]

\* Topic.save up to its first commit: a topic without posts.
OpenTopic(s, u, f) ==
    /\ "posttopic" \in granted /\ Is(s, "idle")
    /\ u \in users /\ f \in forums
    /\ \E t \in Topics \ LiveTopics(topic) :
        /\ topic' = [topic EXCEPT ![t] = NewRow(u, f)]
        /\ req' = [req EXCEPT ![s] = [Idle EXCEPT !.stage = "opened", !.new = TRUE,
                                        !.user = u, !.topic = t, !.forum = f]]
    /\ UNCHANGED <<post, forum, tally, forums, users, clock, granted>>

\* Topic.save goes on to Post.save, which loads the topic again.
LoadNew(s) ==
    LET r == req[s] IN
    /\ Is(s, "opened")
    /\ IF Gone(r.topic) THEN Fail(s)
       ELSE /\ req' = [req EXCEPT ![s] = Loaded(r)]
            /\ clock' = clock + 1
            /\ UNCHANGED <<post, topic, forum, tally, forums, users, granted>>

\* A reply comes to Post.save.
LoadReply(s, u, t) ==
    /\ "postreply" \in granted /\ Is(s, "idle")
    /\ u \in users /\ ~Gone(t)
    /\ req' = [req EXCEPT ![s] = Loaded([Idle EXCEPT !.user = u, !.topic = t])]
    /\ clock' = clock + 1
    /\ UNCHANGED <<post, topic, forum, tally, forums, users, granted>>

\* The commit of Post.save.
Save(s) ==
    LET r == req[s] IN
    /\ Is(s, "loaded")
    /\ IF Gone(r.topic) THEN Fail(s)
       ELSE /\ \E p \in PostIds :
                /\ NextId(p)
                /\ post' = [post EXCEPT ![p] = [topic |-> r.topic, user |-> r.user,
                                                hidden |-> FALSE, created |-> r.time]]
                /\ topic' = [topic EXCEPT ![r.topic] = SavedTopic(@, r, p)]
                /\ forum' = [forum EXCEPT ![r.home] = SavedForum(@, r, p)]
                /\ req' = [req EXCEPT ![s] = IF r.new
                             THEN [r EXCEPT !.stage = "saved", !.post = p] ELSE Idle]
            /\ tally' = [tally EXCEPT ![r.user] = SavedTally(r)]
            /\ UNCHANGED <<forums, users, clock, granted>>

\* Topic.save loads the forum it was given, to count the topic, ...
LoadForum(s) ==
    /\ Is(s, "saved")
    /\ req' = [req EXCEPT ![s].stage = "counting", ![s].row = forum[req[s].forum]]
    /\ UNCHANGED vars

\* ... and commits for the last time.
CloseTopic(s) ==
    LET r == req[s] IN
    /\ Is(s, "counting")
    /\ IF Gone(r.topic) THEN Fail(s)
       ELSE /\ topic' = [topic EXCEPT ![r.topic] = ClosedTopic(@, r)]
            /\ forum' = [forum EXCEPT ![r.forum].topics = r.row.topics + 1]
            /\ req' = [req EXCEPT ![s] = Idle]
            /\ UNCHANGED <<post, tally, forums, users, clock, granted>>

\* Topic.move loads the topic and both forums, ...
StartMove(s, t, g) ==
    LET f == topic[t].forum IN
    /\ "move" \in granted /\ Is(s, "idle")
    /\ ~Gone(t) /\ g \in forums /\ f # g
    /\ req' = [req EXCEPT ![s] = [Idle EXCEPT !.stage = "moving", !.topic = t,
                                    !.forum = f, !.to = g, !.posts = topic[t].posts,
                                    !.row = forum[f], !.toRow = forum[g]]]
    /\ UNCHANGED vars

\* ... moves the counters with the topic and commits, ...
CommitMove(s) ==
    LET r == req[s] IN
    /\ Is(s, "moving")
    /\ IF Gone(r.topic) THEN Fail(s)
       ELSE /\ topic' = [topic EXCEPT ![r.topic].forum = r.to]
            /\ forum' = [forum EXCEPT ![r.forum] = LessOf(forum[r.forum], r),
                                      ![r.to] = MoreOf(forum[r.to], r)]
            /\ req' = [req EXCEPT ![s].stage = "moved"]
            /\ UNCHANGED <<post, tally, forums, users, clock, granted>>

\* ... and lets each forum look for its last post, with a commit of its own.
UpdateNew(s) ==
    /\ Is(s, "moved")
    /\ forum' = [forum EXCEPT ![req[s].to] = LatestPost(@, req[s].to, topic)]
    /\ req' = [req EXCEPT ![s].stage = "settled"]
    /\ UNCHANGED <<post, topic, tally, forums, users, clock, granted>>

UpdateOld(s) ==
    /\ Is(s, "settled")
    /\ forum' = [forum EXCEPT ![req[s].forum] = LatestPost(@, req[s].forum, topic)]
    /\ req' = [req EXCEPT ![s] = Idle]
    /\ UNCHANGED <<post, topic, tally, forums, users, clock, granted>>

\* Topic.delete
Remove(s, t) ==
    LET f   == topic[t].forum
        P   == WithoutTopics({t}, post)
        T   == [topic EXCEPT ![t] = BlankTopic]
        row == FixPostCounts(forum[f], f, P, T)
    IN  /\ "deletetopic" \in granted /\ Is(s, "idle") /\ ~Gone(t)
        /\ post' = P
        /\ topic' = T
        /\ tally' = FixUserPostCounts(InvolvedUsers(t), P, T)
        /\ forum' = [forum EXCEPT ![f] =
                        IF row.last = None \/ row.last = topic[t].last
                        THEN LatestPost(row, f, T) ELSE row]
        /\ UNCHANGED <<req, forums, users, clock, granted>>

\* The worker dies; what it had not committed is lost.
Crash(s) ==
    /\ s \in workers /\ ~Is(s, "idle") /\ crashes < MaxCrashes
    /\ crashes' = crashes + 1
    /\ req' = [req EXCEPT ![s] = Idle]
    /\ UNCHANGED <<vars, workers, started>>

\* The worker goes on with the request it has.
Proceed(s) ==
    /\ \/ LoadNew(s)
       \/ Save(s)
       \/ LoadForum(s)
       \/ CloseTopic(s)
       \/ CommitMove(s)
       \/ UpdateNew(s)
       \/ UpdateOld(s)
    /\ UNCHANGED <<workers, crashes, started>>

\* It gets a request.
Start(s) ==
    /\ started < MaxRequests
    /\ started' = started + 1
    /\ \/ \E u \in Users, f \in Forums : OpenTopic(s, u, f)
       \/ \E u \in Users, t \in Topics : LoadReply(s, u, t)
       \/ \E t \in Topics, g \in Forums : StartMove(s, t, g)
       \/ \E t \in Topics : Remove(s, t)
    /\ UNCHANGED <<workers, crashes>>

WritesNext == \E s \in Slots : Start(s) \/ Proceed(s) \/ Crash(s)

\* A worker that has a request is scheduled and goes on with it.
WritesSpec ==
    WritesInit /\ [][WritesNext]_writeVars /\ \A s \in Slots : WF_writeVars(Proceed(s))

-----------------------------------------------------------------------------
(* Properties.                                                             *)

Idling == \A s \in Slots : req[s].stage = "idle"

\* Where no topic is deleted, the first and the last post of a topic are posts of it,
\* also while it is written in three commits to which others reply in between.
TopicPointersLive ==
    Never({"deletetopic"}) =>
        \A t \in LiveTopics(topic) :
            {topic[t].first, topic[t].last} \subseteq PostsOf(t, post) \cup {None}

\* However requests overlap, a forum whose topics stay names the post committed last:
\* the date a request has given its post and the rows it has loaded make no difference.
OverlapKeepsNewest ==
    Never({"move", "deletetopic"}) =>
        \A f \in forums :
            LET all == PostsIn(f, post, topic) IN
            forum[f].last = IF all = {} THEN None ELSE Newest(all)

\* The columns about the last post are written each on its own, one of them perhaps not
\* at all.  Even so the date is that of the post the forum names.  The name may be another
\* one's when requests overlap, but it is that of an author in this forum; one worker
\* alone never mixes them up, not even one that dies.  (Post.save and Written.)
LastColumnsFit ==
    Never({"move", "deletetopic"}) =>
        \A f \in forums : forum[f].last # None =>
            LET p == forum[f].last IN
            /\ forum[f].lastCreated = post[p].created
            /\ \E q \in PostsIn(f, post, topic) : post[q].user = forum[f].lastUser
            /\ Cardinality(workers) = 1 => forum[f].lastUser = post[p].user

\* Increments are lost when requests overlap, but no figure runs ahead of what it
\* counts.  (The counters in Post.save and Topic.save.)
NeverAhead ==
    Never({"move", "deletetopic"}) =>
        /\ \A u \in users : tally[u] <= Cardinality(ShownBy(u, post, topic))
        /\ \A t \in LiveTopics(topic) : topic[t].posts <= Cardinality(PostsOf(t, post))
        /\ \A f \in forums :
            /\ forum[f].posts <= Cardinality(PostsIn(f, post, topic))
            /\ forum[f].topics <= Cardinality(TopicsIn(f, topic))

\* Only a worker that dies leaves a topic without a first post behind: no overlap and
\* no failed commit does.
OnlyCrashLeavesHalf ==
    Idling /\ crashes = 0 =>
        \A t \in LiveTopics(topic) : topic[t].first # None /\ PostsOf(t, post) # {}

\* With one worker the counts of posts are exact at every commit, and a worker that
\* dies in between leaves them so; what it can leave wrong is the count of topics, which
\* may or may not include the topics without a first post, and nothing else unless such
\* a topic is moved.
CrashKeepsCounts ==
    Cardinality(workers) = 1 =>
        /\ UserCountExact /\ PostCountExact /\ RepliesCountExact
        /\ Never({"move"}) => \A f \in forums :
            /\ forum[f].topics <= Cardinality(TopicsIn(f, topic))
            /\ forum[f].topics >= Cardinality({t \in TopicsIn(f, topic) : topic[t].first # None})

\* Every request ends.
EveryRequestEnds == \A s \in Slots : []<>(req[s].stage = "idle")

-----------------------------------------------------------------------------
(* One worker that does not die implements ForumContent: a new topic is there from *)
(* the commit of its post on, and a move from its first commit on, as if what the  *)
(* request still has to do were done.                                              *)

current == req[CHOOSE s \in workers : TRUE]

contentTopic ==
    IF current.stage \in {"opened", "loaded"} /\ current.new
    THEN [topic EXCEPT ![current.topic] = BlankTopic]
    ELSE IF current.stage \in {"saved", "counting"}
    THEN [topic EXCEPT ![current.topic].first = current.post]
    ELSE topic

contentForum ==
    [f \in Forums |->
        IF current.stage \in {"saved", "counting"} /\ f = current.forum
        THEN [forum[f] EXCEPT !.topics = @ + 1]
        ELSE IF \/ current.stage \in {"moved", "settled"} /\ f = current.forum
                \/ current.stage = "moved" /\ f = current.to
        THEN LatestPost(forum[f], f, topic)
        ELSE forum[f]]

contentClock == IF current.stage = "loaded" THEN clock - 1 ELSE clock

Content == INSTANCE ForumContent WITH
    topic <- contentTopic, forum <- contentForum, clock <- contentClock

\* Every step of the only worker is one request of ForumContent, or none.
OneWorkerImplements ==
    /\ Content!Init
    /\ [][Cardinality(workers) = 1 /\ crashes' = 0 => Content!Next]_Content!vars
=============================================================================
