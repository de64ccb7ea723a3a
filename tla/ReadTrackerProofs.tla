-------------------------- MODULE ReadTrackerProofs --------------------------
(***************************************************************************)
(* Theorems of ReadTracker.  Its steps are steps of ForumContent or leave  *)
(* the content alone, so the invariant of ForumContentProofs carries over. *)
(* The first part looks at the rows of the reader alone, the others relate *)
(* them to the dates of posts, topics and forums: what a page shows as     *)
(* read was shown to the reader, and what it shows as unread was not.      *)
(***************************************************************************)
EXTENDS ReadTracker, ContentFiguresProofs

\* No date is ahead of the clock.
DatesPast ==
    \A f \in Forums : forumsRead[f].last <= clock /\ forumsRead[f].cleared <= clock

TInv == IInv /\ TrackerTypeOK /\ DatesPast /\ RowsSinceCleared

LEMMA DatesAreNumbers ==
    /\ Times \subseteq Int /\ Dates \subseteq Int
    /\ Times \subseteq Dates
    /\ Past \in Dates /\ 0 \in Times
    /\ \A d \in Times : Past <= d
BY BoundsAssumption DEF Times, Dates, Past

LEMMA NoRowsTyped ==
    /\ NoTopicsRead \in [forum: Forums \cup {None}, last: Dates]
    /\ NoForumsRead \in [last: Dates, cleared: Dates]
    /\ NoTopicsRead.forum = None
    /\ NoForumsRead.last = Past /\ NoForumsRead.cleared = Past
BY DatesAreNumbers DEF NoTopicsRead, NoForumsRead

\* Every step of the tracker is one of the content or leaves it alone.
LEMMA ContentSteps == TrackerNext => [Next]_vars
BY DEF TrackerNext, ViewTopic, MarkForum, MarkAll, Move, ChangeContent, Next

\* The clock does not go back.
LEMMA ClockGoesOn ==
    ASSUME TypeOK, [Next]_vars
    PROVE  clock' \in Times /\ clock <= clock'
<1>1. clock \in Int /\ clock \in Times
    BY DatesAreNumbers DEF TypeOK
<1>2. ASSUME NEW u \in Users, NEW f \in Forums, NewTopic(u, f)
      PROVE  clock < MaxTime /\ clock' = clock + 1
    BY <1>2 DEF NewTopic
<1>3. ASSUME NEW u \in Users, NEW t \in Topics, Reply(u, t)
      PROVE  clock < MaxTime /\ clock' = clock + 1
    BY <1>3 DEF Reply
<1>4. CASE \/ \E u \in Users, f \in Forums : NewTopic(u, f)
           \/ \E u \in Users, t \in Topics : Reply(u, t)
    BY <1>1, <1>2, <1>3, <1>4, TimesFacts
<1>5. CASE clock' = clock
    BY <1>1, <1>5
<1>6. ASSUME NEW p \in PostIds, DeletePost(p) \/ HidePost(p) \/ UnhidePost(p)
      PROVE  clock' = clock
    BY <1>6 DEF DeletePost, HidePost, UnhidePost, DeleteTopic, HideTopic, UnhideTopic,
                DeleteReply, HideReply, UnhideReply, TakeAway
<1>7. ASSUME NEW t \in Topics, RemoveTopic(t) \/ ConcealTopic(t) \/ RevealTopic(t)
      PROVE  clock' = clock
    BY <1>7 DEF RemoveTopic, ConcealTopic, RevealTopic, DeleteTopic, HideTopic, UnhideTopic
<1>8. ASSUME NEW t \in Topics, NEW g \in Forums, MoveTopic(t, g) PROVE clock' = clock
    BY <1>8 DEF MoveTopic
<1>9. ASSUME NEW f \in Forums, DeleteForum(f) \/ AddForum(f) PROVE clock' = clock
    BY <1>9 DEF DeleteForum, AddForum
<1>10. ASSUME NEW c \in Categories, DeleteCategory(c) PROVE clock' = clock
    BY <1>10 DEF DeleteCategory
<1>11. ASSUME NEW u \in Users, DeleteUser(u) PROVE clock' = clock
    BY <1>11 DEF DeleteUser
<1>12. CASE UNCHANGED vars
    BY <1>5, <1>12 DEF vars
<1> QED BY <1>4, <1>5, <1>6, <1>7, <1>8, <1>9, <1>10, <1>11, <1>12 DEF Next

\* What the reader's own requests have in common: the content is as before.
LEMMA ReadingPreserves ==
    ASSUME TInv, UNCHANGED vars,
           topicsRead' \in [Topics -> [forum: Forums \cup {None}, last: Dates]],
           forumsRead' \in [Forums -> [last: Dates, cleared: Dates]],
           seen' \in [Topics -> Times],
           \A f \in Forums : forumsRead'[f].last <= clock /\ forumsRead'[f].cleared <= clock,
           \A t \in Topics : topicsRead'[t].forum # None =>
                topicsRead'[t].last >= forumsRead'[topicsRead'[t].forum].cleared
    PROVE  TInv'
<1>1. IInv'
    BY NextPreserves DEF TInv
<1>2. TrackerTypeOK'
    BY DEF TrackerTypeOK
<1>3. DatesPast'
    BY DEF DatesPast, vars
<1>4. RowsSinceCleared'
    BY DEF RowsSinceCleared
<1> QED BY <1>1, <1>2, <1>3, <1>4 DEF TInv

LEMMA ViewTopicPreserves ==
    ASSUME TInv, NEW t \in Topics, ViewTopic(t)
    PROVE  TInv'
<1> DEFINE f == topic[t].forum
           home == IF topicsRead[t].forum = None THEN f ELSE topicsRead[t].forum
           row == [forum |-> home, last |-> clock]
<1>1. UNCHANGED vars /\ seen' = [seen EXCEPT ![t] = clock]
    BY DEF ViewTopic
<1>2. clock \in Times /\ clock \in Dates /\ clock \in Int
    BY DatesAreNumbers DEF TInv, IInv, TypeOK
<1>3. f \in Forums
    BY NoneAssumption DEF ViewTopic, LiveTopics, TInv, IInv, TypeOK, TopicRow
<1>4. home \in Forums
    BY <1>3 DEF TInv, TrackerTypeOK
<1>5. seen' \in [Topics -> Times]
    BY <1>1, <1>2 DEF TInv, TrackerTypeOK
<1>6. /\ topicsRead \in [Topics -> [forum: Forums \cup {None}, last: Dates]]
      /\ forumsRead \in [Forums -> [last: Dates, cleared: Dates]]
    BY DEF TInv, TrackerTypeOK
<1>7. \A g \in Forums : forumsRead[g].last <= clock /\ forumsRead[g].cleared <= clock
    BY DEF TInv, DatesPast
<1>8. \A s \in Topics : topicsRead[s].forum # None =>
            topicsRead[s].last >= forumsRead[topicsRead[s].forum].cleared
    BY DEF TInv, RowsSinceCleared
<1>9. CASE UNCHANGED <<topicsRead, forumsRead>>
    BY <1>1, <1>5, <1>6, <1>7, <1>8, <1>9, ReadingPreserves
<1>10. CASE ~UNCHANGED <<topicsRead, forumsRead>>
    <2>1. topicsRead' = [topicsRead EXCEPT ![t] = row]
        BY <1>10 DEF ViewTopic, Visited
    <2>2. \/ forumsRead' = forumsRead
          \/ forumsRead' = [forumsRead EXCEPT ![f].last = clock]
        BY <1>10 DEF ViewTopic
    <2> HIDE DEF f, home
    <2>3. topicsRead' \in [Topics -> [forum: Forums \cup {None}, last: Dates]]
        BY <1>2, <1>4, <1>6, <2>1
    <2>4. forumsRead' \in [Forums -> [last: Dates, cleared: Dates]]
        BY <1>2, <1>3, <1>6, <2>2
    <2>5. \A g \in Forums : /\ forumsRead'[g].last <= clock
                            /\ forumsRead'[g].cleared = forumsRead[g].cleared
        BY <1>2, <1>3, <1>6, <1>7, <2>2
    <2>6. \A s \in Topics : topicsRead'[s].forum # None =>
                topicsRead'[s].last >= forumsRead'[topicsRead'[s].forum].cleared
        <3> SUFFICES ASSUME NEW s \in Topics, topicsRead'[s].forum # None
                     PROVE  topicsRead'[s].last >= forumsRead'[topicsRead'[s].forum].cleared
            OBVIOUS
        <3>1. CASE s = t
            <4>1. topicsRead'[s].forum = home /\ topicsRead'[s].last = clock
                BY <1>6, <2>1, <3>1
            <4>2. forumsRead'[home].cleared <= clock
                BY <1>4, <1>7, <2>5
            <4>3. forumsRead'[home].cleared \in Int
                BY <1>4, <2>4, DatesAreNumbers
            <4> QED BY <1>2, <4>1, <4>2, <4>3
        <3>2. CASE s # t
            <4>1. topicsRead'[s] = topicsRead[s]
                BY <1>6, <2>1, <3>2
            <4>2. topicsRead[s].forum \in Forums
                BY <1>6, <4>1
            <4> QED BY <1>8, <2>5, <4>1, <4>2
        <3> QED BY <3>1, <3>2
    <2>7. \A g \in Forums : forumsRead'[g].last <= clock /\ forumsRead'[g].cleared <= clock
        BY <1>7, <2>5
    <2> QED BY <1>1, <1>5, <2>3, <2>4, <2>6, <2>7, ReadingPreserves
<1> QED BY <1>9, <1>10

LEMMA MarkForumPreserves ==
    ASSUME TInv, NEW f \in Forums, MarkForum(f)
    PROVE  TInv'
<1>1. UNCHANGED vars /\ topicsRead' = WithoutRowsOf(f)
    BY DEF MarkForum
<1>2. clock \in Times /\ clock \in Dates /\ clock \in Int
    BY DatesAreNumbers DEF TInv, IInv, TypeOK
<1>3. \A s \in Topics : topicsRead'[s] = IF topicsRead[s].forum = f THEN NoTopicsRead
                                         ELSE topicsRead[s]
    BY <1>1 DEF WithoutRowsOf
<1>4. topicsRead' \in [Topics -> [forum: Forums \cup {None}, last: Dates]]
    BY <1>1, NoRowsTyped DEF WithoutRowsOf, TInv, TrackerTypeOK
<1>5. forumsRead' = [forumsRead EXCEPT ![f] = [last |-> clock, cleared |-> clock]]
    BY DEF MarkForum
<1>6. forumsRead' \in [Forums -> [last: Dates, cleared: Dates]]
    BY <1>2, <1>5 DEF TInv, TrackerTypeOK
<1>7. seen' \in [Topics -> Times]
    BY <1>2 DEF MarkForum, TInv, TrackerTypeOK
<1>8. \A g \in Forums : /\ forumsRead'[g].last <= clock /\ forumsRead'[g].cleared <= clock
                        /\ g # f => forumsRead'[g] = forumsRead[g]
    BY <1>2, <1>5 DEF TInv, TrackerTypeOK, DatesPast
<1>9. \A s \in Topics : topicsRead'[s].forum # None =>
            topicsRead'[s].last >= forumsRead'[topicsRead'[s].forum].cleared
    <2> SUFFICES ASSUME NEW s \in Topics, topicsRead'[s].forum # None
                 PROVE  topicsRead'[s].last >= forumsRead'[topicsRead'[s].forum].cleared
        OBVIOUS
    <2>1. topicsRead'[s] = topicsRead[s] /\ topicsRead[s].forum # f
        BY <1>3, NoRowsTyped
    <2>2. topicsRead[s].forum \in Forums
        BY <2>1 DEF TInv, TrackerTypeOK
    <2>3. topicsRead[s].last >= forumsRead[topicsRead[s].forum].cleared
        BY <2>1 DEF TInv, RowsSinceCleared
    <2> QED BY <1>8, <2>1, <2>2, <2>3
<1> QED BY <1>1, <1>4, <1>6, <1>7, <1>8, <1>9, ReadingPreserves

LEMMA MarkAllPreserves ==
    ASSUME TInv, MarkAll
    PROVE  TInv'
<1>1. clock \in Times /\ clock \in Dates /\ clock \in Int /\ Past <= clock
    BY DatesAreNumbers DEF TInv, IInv, TypeOK
<1>2. UNCHANGED vars /\ \A s \in Topics : topicsRead'[s] = NoTopicsRead
    BY DEF MarkAll
<1>3. topicsRead' \in [Topics -> [forum: Forums \cup {None}, last: Dates]]
    BY NoRowsTyped DEF MarkAll
<1>4. forumsRead' \in [Forums -> [last: Dates, cleared: Dates]]
    BY <1>1, NoRowsTyped DEF MarkAll
<1>5. seen' \in [Topics -> Times]
    BY <1>1 DEF MarkAll
<1>6. \A g \in Forums : forumsRead'[g].last <= clock /\ forumsRead'[g].cleared <= clock
    BY <1>1, NoRowsTyped DEF MarkAll
<1> QED BY <1>2, <1>3, <1>4, <1>5, <1>6, NoRowsTyped, ReadingPreserves

\* A step of the content that deletes at most rows of topicsread.
LEMMA WritingPreserves ==
    ASSUME TInv, [Next]_vars, UNCHANGED <<forumsRead, seen>>,
           \/ UNCHANGED topicsRead
           \/ \E t \in Topics : topicsRead' = [topicsRead EXCEPT ![t] = NoTopicsRead]
    PROVE  TInv'
<1>1. IInv'
    BY NextPreserves DEF TInv
<1>2. clock \in Int /\ clock' \in Int /\ clock <= clock'
    BY ClockGoesOn, DatesAreNumbers DEF TInv, IInv, TypeOK
<1>3. topicsRead' \in [Topics -> [forum: Forums \cup {None}, last: Dates]]
    BY NoRowsTyped DEF TInv, TrackerTypeOK
<1>4. \A s \in Topics : topicsRead'[s] = topicsRead[s] \/ topicsRead'[s] = NoTopicsRead
    BY DEF TInv, TrackerTypeOK
<1>5. TrackerTypeOK'
    BY <1>3 DEF TInv, TrackerTypeOK
<1>6. \A f \in Forums : forumsRead[f].last \in Int /\ forumsRead[f].cleared \in Int
    BY DatesAreNumbers DEF TInv, TrackerTypeOK
<1>7. DatesPast'
    BY <1>2, <1>6 DEF TInv, DatesPast
<1>8. RowsSinceCleared'
    BY <1>4, NoRowsTyped DEF TInv, RowsSinceCleared
<1> QED BY <1>1, <1>5, <1>7, <1>8 DEF TInv

LEMMA TrackerInitEstablishes == TrackerInit => TInv
<1> SUFFICES ASSUME TrackerInit PROVE TInv
    OBVIOUS
<1>1. IInv
    BY InitEstablishes DEF TrackerInit
<1>2. TrackerTypeOK
    BY NoRowsTyped, DatesAreNumbers DEF TrackerInit, TrackerTypeOK
<1>3. clock = 0
    BY DEF TrackerInit, Init
<1>4. DatesPast
    BY <1>3, NoRowsTyped, DatesAreNumbers DEF TrackerInit, DatesPast
<1>5. RowsSinceCleared
    BY NoRowsTyped DEF TrackerInit, RowsSinceCleared
<1> QED BY <1>1, <1>2, <1>4, <1>5 DEF TInv

LEMMA TrackerNextPreserves == TInv /\ [TrackerNext]_<<vars, tracker>> => TInv'
<1> SUFFICES ASSUME TInv, [TrackerNext]_<<vars, tracker>> PROVE TInv'
    OBVIOUS
<1>1. ASSUME NEW t \in Topics, ViewTopic(t) PROVE TInv'
    BY <1>1, ViewTopicPreserves
<1>2. ASSUME NEW f \in Forums, MarkForum(f) PROVE TInv'
    BY <1>2, MarkForumPreserves
<1>3. CASE MarkAll
    BY <1>3, MarkAllPreserves
<1>4. ASSUME NEW t \in Topics, NEW g \in Forums, Move(t, g) PROVE TInv'
    BY <1>4, WritingPreserves DEF Move, Next
<1>5. CASE ChangeContent /\ UNCHANGED tracker
    <2>1. Next
        BY <1>5 DEF ChangeContent, Next
    <2> QED BY <1>5, <2>1, WritingPreserves DEF tracker
<1>6. CASE UNCHANGED <<vars, tracker>>
    BY <1>6, WritingPreserves DEF tracker
<1> QED BY <1>1, <1>2, <1>3, <1>4, <1>5, <1>6 DEF TrackerNext

-----------------------------------------------------------------------------
(* What the rows alone guarantee.                                          *)

\* The content keeps its invariant under a reader, and the reader's rows theirs.
THEOREM TrackerInvariance == TrackerSpec => []TInv
BY TrackerInitEstablishes, TrackerNextPreserves, PTL DEF TrackerSpec

\* The reader's rows are rows of their types.
THEOREM TrackerTypeCorrect == TrackerSpec => []TrackerTypeOK
<1>1. TInv => TrackerTypeOK
    BY DEF TInv
<1> QED BY <1>1, TrackerInvariance, PTL

\* However topics move and whatever ids are used again, MarkRead leaves no row of its
\* forum that is older than the mark.
THEOREM MarksComeFirst == TrackerSpec => []RowsSinceCleared
<1>1. TInv => RowsSinceCleared
    BY DEF TInv
<1> QED BY <1>1, TrackerInvariance, PTL

\* A reader changes nothing of the content: with its tables alone one sees an
\* execution of ForumContent.
THEOREM ReadersOnlyRead == TrackerSpec => Spec
<1>1. TrackerInit => Init
    BY DEF TrackerInit
<1>2. [TrackerNext]_<<vars, tracker>> => [Next]_vars
    BY ContentSteps
<1> QED BY <1>1, <1>2, PTL DEF TrackerSpec, Spec

-----------------------------------------------------------------------------
(* Writing, as far as the tracker's dates are concerned.                   *)

\* User u writes post p in topic t of forum f, and every date follows.
PostAdded(p, t, u, f) ==
    /\ p \in PostIds /\ t \in Topics /\ u \in Users /\ f \in Forums
    /\ Written(p, t, u) /\ clock' = clock + 1
    /\ topic[t].forum \in {None, f} /\ topic'[t].forum = f
    /\ topic[t].forum = None => topic'[t].first = p
    /\ topic[t].forum # None => "postreply" \in granted
    /\ topic'[t].last = p /\ topic'[t].updated = clock'
    /\ \A s \in Topics \ {t} : topic'[s] = topic[s]
    /\ forum'[f].last = p /\ forum'[f].lastCreated = clock'
    /\ \A g \in Forums \ {f} : forum'[g] = forum[g]
    /\ forums' = forums /\ f \in forums

LEMMA NewTopicAdds ==
    ASSUME Base, NEW u \in Users, NEW f \in Forums, NewTopic(u, f)
    PROVE  \E t \in Topics, p \in PostIds : PostAdded(p, t, u, f)
<1>1. PICK t \in Topics, p \in PostIds :
        /\ Written(p, t, u)
        /\ topic[t].forum = None
        /\ topic'[t] = [forum |-> f, user |-> u, hidden |-> FALSE, first |-> p,
                        last |-> p, updated |-> clock', posts |-> 1]
        /\ \A s \in Topics \ {t} : topic'[s] = topic[s]
        /\ forum' = [forum EXCEPT ![f] = WithNewPost(forum[f], p, u, clock', 1)]
    BY TopicWritten
<1>2. clock' = clock + 1 /\ forums' = forums /\ f \in forums
    BY DEF NewTopic
<1>3. forum[f] \in ForumRow /\ forum'[f] = WithNewPost(forum[f], p, u, clock', 1)
    BY <1>1 DEF Base, IInv, TypeOK
<1>4. forum'[f].last = p /\ forum'[f].lastCreated = clock'
    BY <1>3, NewPostCounts
<1>5. \A g \in Forums \ {f} : forum'[g] = forum[g]
    BY <1>1 DEF Base, IInv, TypeOK
<1>6. /\ topic'[t].forum = f /\ topic'[t].first = p /\ topic'[t].last = p
      /\ topic'[t].updated = clock'
    BY <1>1
<1> QED BY <1>1, <1>2, <1>4, <1>5, <1>6 DEF PostAdded

LEMMA ReplyAdds ==
    ASSUME Base, NEW u \in Users, NEW t \in Topics, Reply(u, t), ~topic[t].hidden
    PROVE  \E p \in PostIds : PostAdded(p, t, u, topic[t].forum)
<1> DEFINE f == topic[t].forum
<1>1. PICK p \in PostIds :
        /\ NextId(p)
        /\ post' = [post EXCEPT ![p] = [topic |-> t, user |-> u,
                                        hidden |-> FALSE, created |-> clock']]
        /\ topic' = [topic EXCEPT ![t].last = p, ![t].updated = clock',
                                  ![t].posts = @ + 1]
        /\ forum' = [forum EXCEPT ![f] = WithNewPost(@, p, u, clock', 0)]
    BY DEF Reply
<1>2. Written(p, t, u)
    BY <1>1, NextIdIsFresh DEF Written, Base, IInv, TypeOK
<1>3. clock' = clock + 1 /\ forums' = forums /\ "postreply" \in granted
    BY DEF Reply
<1>4. f \in forums /\ f \in Forums
    BY DEF Reply, Base, IInv, NoOrphans, TypeOK
<1>5. /\ topic'[t].last = p /\ topic'[t].updated = clock' /\ topic'[t].forum = f
      /\ \A s \in Topics \ {t} : topic'[s] = topic[s]
    BY <1>1 DEF Base, IInv, TypeOK, TopicRow
<1>6. forum[f] \in ForumRow /\ forum'[f] = WithNewPost(forum[f], p, u, clock', 0)
    BY <1>1, <1>4 DEF Base, IInv, TypeOK
<1>7. forum'[f].last = p /\ forum'[f].lastCreated = clock'
    BY <1>6, NewPostCounts
<1>8. \A g \in Forums \ {f} : forum'[g] = forum[g]
    BY <1>1 DEF Base, IInv, TypeOK
<1>9. f # None
    BY <1>4, NullIsNoId
<1> HIDE DEF f
<1> QED BY <1>2, <1>3, <1>4, <1>5, <1>7, <1>8, <1>9 DEF PostAdded, f

\* The date of a post is the time it was written at, for as long as it is there.
LEMMA CreatedStays ==
    ASSUME Base, [Next]_vars, NEW q \in PostIds
    PROVE  \/ post'[q].created = clock' \/ post'[q] = BlankPost
           \/ /\ post'[q].created = post[q].created
              /\ post'[q].topic = post[q].topic
<1> DEFINE Goal == \/ post'[q].created = clock' \/ post'[q] = BlankPost
                   \/ /\ post'[q].created = post[q].created
                      /\ post'[q].topic = post[q].topic
<1>0. post[q] \in PostRow
    BY DEF Base, IInv, TypeOK
<1>1. ASSUME NEW p \in PostIds, NEW t \in Topics, NEW u \in Users, Written(p, t, u)
      PROVE  Goal
    BY <1>1 DEF Written
<1>2. ASSUME NEW u \in Users, NEW f \in Forums, NewTopic(u, f) PROVE Goal
    BY <1>1, <1>2, TopicWritten
<1>3. ASSUME NEW u \in Users, NEW t \in Topics, Reply(u, t) PROVE Goal
    BY <1>1, <1>3, ReplyWritten
<1>4. ASSUME NEW gone, Vanished(gone) PROVE Goal
    BY <1>4, VanishedSets
<1>5. ASSUME NEW t \in LiveTopics(topic), DeleteTopic(t) PROVE Goal
    BY <1>4, <1>5, TopicVanishes
<1>6. ASSUME ForumsGo PROVE Goal
    BY <1>4, <1>6, ForumsClose DEF Closing
<1>7. ASSUME NEW p \in PostIds, NEW hidden \in BOOLEAN,
             post' = [post EXCEPT ![p].hidden = hidden]
      PROVE  Goal
    BY <1>0, <1>7 DEF Base, IInv, TypeOK, PostRow
<1>8. ASSUME NEW t \in LiveTopics(topic), HideTopic(t) \/ UnhideTopic(t) PROVE Goal
    <2>1. topic[t].first \in PostIds
        BY DEF LiveTopics, Base, IInv, FirstPostMirrorsTopic, PostsOf
    <2> HIDE DEF Goal
    <2> QED BY <1>7, <1>8, <2>1 DEF HideTopic, UnhideTopic, HandleFirstPost
<1>9. ASSUME NEW p \in PostIds, UnhideReply(p) PROVE Goal
    <2> HIDE DEF Goal
    <2> QED BY <1>7, <1>9 DEF UnhideReply
<1>10. ASSUME NEW p \in PostIds, NEW P \in PostTable, ReplyTaken(p, P) PROVE Goal
    <2>1. /\ post' = P /\ \A r \in PostIds \ {p} : P[r] = post[r]
          /\ P[p] = BlankPost \/ P[p] = [post[p] EXCEPT !.hidden = TRUE]
        BY <1>10 DEF ReplyTaken, TakeAway
    <2> QED BY <1>0, <2>1 DEF PostRow
<1>11. ASSUME post' = post PROVE Goal
    BY <1>11
<1>12. ASSUME NEW t \in Topics, NEW g \in Forums, MoveTopic(t, g) PROVE Goal
    BY <1>11, <1>12 DEF MoveTopic
<1>13. ASSUME NEW f \in Forums, AddForum(f) PROVE Goal
    BY <1>11, <1>13 DEF AddForum
<1>14. ASSUME NEW u \in Users, DeleteUser(u) PROVE Goal
    BY <1>11, <1>14 DEF DeleteUser
<1>15. ASSUME UNCHANGED vars PROVE Goal
    BY <1>11, <1>15 DEF vars
<1> HIDE DEF Goal
<1>16. Handlers
    BY HandlersOnly DEF Base
<1>17. Goal
    BY <1>2, <1>3, <1>5, <1>6, <1>8, <1>9, <1>10, <1>12, <1>13, <1>14, <1>15, <1>16
    DEF Handlers, ForumsGo
<1> QED BY <1>17 DEF Goal

-----------------------------------------------------------------------------
(* The dates of posts and rows.                                            *)

\* No post and no row is ahead of the clock, and a row is not ahead of the reader.
Dated ==
    /\ \A p \in PostIds : post[p].created <= clock
    /\ \A t \in Topics : topicsRead[t].last <= seen[t] /\ seen[t] <= clock
    /\ \A t \in Topics : topicsRead[t].forum = None => topicsRead[t].last = Past
    /\ \A f \in Forums : forumsRead[f].cleared <= forumsRead[f].last

\* What the proofs about the reader's pages start from.
ReaderBase == TInv /\ Base /\ Dated

\* The dates are numbers.
LEMMA DatesOrdered ==
    ASSUME ReaderBase
    PROVE  /\ clock \in Int /\ Past \in Int /\ Past < 0 /\ clock \in Times /\ 0 <= clock
           /\ \A p \in PostIds : post[p].created \in Int /\ 0 <= post[p].created
           /\ \A t \in Topics : topic[t].updated \in Int /\ 0 <= topic[t].updated
           /\ \A f \in Forums : forum[f].lastCreated \in Int
           /\ \A t \in Topics : topicsRead[t].last \in Int /\ seen[t] \in Int
           /\ \A f \in Forums : forumsRead[f].last \in Int /\ forumsRead[f].cleared \in Int
<1>1. TypeOK /\ TrackerTypeOK
    BY DEF ReaderBase, TInv, IInv
<1>2. Times \subseteq Int /\ Dates \subseteq Int /\ (\A d \in Times : 0 <= d) /\ Past = -1
    BY DatesAreNumbers DEF Times, Past
<1>3. clock \in Int /\ Past \in Int /\ Past < 0 /\ clock \in Times /\ 0 <= clock
    BY <1>1, <1>2 DEF TypeOK
<1>4. \A p \in PostIds : post[p].created \in Int /\ 0 <= post[p].created
    BY <1>1, <1>2 DEF TypeOK, PostRow
<1>5. \A t \in Topics : topic[t].updated \in Int /\ 0 <= topic[t].updated
    BY <1>1, <1>2 DEF TypeOK, TopicRow
<1>6. \A f \in Forums : forum[f].lastCreated \in Int
    BY <1>1, <1>2 DEF TypeOK, ForumRow
<1>7. /\ \A t \in Topics : topicsRead[t].last \in Int /\ seen[t] \in Int
      /\ \A f \in Forums : forumsRead[f].last \in Int /\ forumsRead[f].cleared \in Int
    BY <1>1, <1>2 DEF TrackerTypeOK
<1> QED BY <1>3, <1>4, <1>5, <1>6, <1>7

\* What a visit does to the rows: f is the forum of the topic t.
VisitDone(t, f) ==
    /\ t \in Topics /\ f \in Forums /\ topic[t].forum = f /\ UNCHANGED vars
    /\ seen'[t] = clock /\ \A s \in Topics \ {t} : seen'[s] = seen[s]
    /\ \A s \in Topics \ {t} : topicsRead'[s] = topicsRead[s]
    /\ \/ topicsRead'[t] = topicsRead[t]
       \/ /\ topicsRead'[t].last = clock /\ topicsRead'[t].forum # None
          /\ topicsRead'[t].forum \in {f, topicsRead[t].forum}
    /\ \A g \in Forums : /\ forumsRead'[g].cleared = forumsRead[g].cleared
                         /\ \/ forumsRead'[g].last = forumsRead[g].last
                            \/ g = f /\ forumsRead'[g].last = clock

\* The visit that writes a row: the topic needed the update.
VisitRecorded(t, f) ==
    /\ VisitDone(t, f)
    /\ topicsRead'[t].last = clock /\ topicsRead'[t].forum # None
    /\ IF NoUnreadTopics(f, topicsRead')
       THEN forumsRead'[f].last = clock /\ \A g \in Forums \ {f} : forumsRead'[g] = forumsRead[g]
       ELSE forumsRead' = forumsRead

LEMMA Visiting ==
    ASSUME ReaderBase, NEW t \in Topics, ViewTopic(t)
    PROVE  /\ VisitDone(t, topic[t].forum)
           /\ IF TrackerNeedsUpdate(t) THEN VisitRecorded(t, topic[t].forum)
              ELSE UNCHANGED <<topicsRead, forumsRead>>
<1> DEFINE f == topic[t].forum
           home == IF topicsRead[t].forum = None THEN f ELSE topicsRead[t].forum
           row == [forum |-> home, last |-> clock]
<1>1. /\ UNCHANGED vars /\ t \in LiveTopics(topic)
      /\ seen'[t] = clock /\ \A s \in Topics \ {t} : seen'[s] = seen[s]
    BY DEF ViewTopic, ReaderBase, TInv, TrackerTypeOK
<1>2. f \in Forums /\ f # None
    BY <1>1, NullIsNoId DEF ReaderBase, Base, IInv, NoOrphans, TypeOK
<1>3. CASE ~TrackerNeedsUpdate(t)
    <2>1. UNCHANGED <<topicsRead, forumsRead>>
        BY <1>3 DEF ViewTopic
    <2> QED BY <1>1, <1>2, <1>3, <2>1 DEF VisitDone
<1>4. CASE TrackerNeedsUpdate(t)
    <2>1. topicsRead' = [topicsRead EXCEPT ![t] = row]
        BY <1>4 DEF ViewTopic, Visited
    <2>2. home \in {f, topicsRead[t].forum} /\ home # None
        BY <1>2
    <2> HIDE DEF home
    <2>3. /\ topicsRead'[t].last = clock /\ topicsRead'[t].forum = home
          /\ \A s \in Topics \ {t} : topicsRead'[s] = topicsRead[s]
        BY <2>1 DEF ReaderBase, TInv, TrackerTypeOK
    <2>4. forumsRead' = IF NoUnreadTopics(f, topicsRead')
                        THEN [forumsRead EXCEPT ![f].last = clock] ELSE forumsRead
        BY <1>4 DEF ViewTopic
    <2>5. /\ NoUnreadTopics(f, topicsRead')
                => /\ forumsRead'[f].last = clock
                   /\ \A g \in Forums \ {f} : forumsRead'[g] = forumsRead[g]
          /\ ~NoUnreadTopics(f, topicsRead') => forumsRead' = forumsRead
          /\ \A g \in Forums : forumsRead'[g].cleared = forumsRead[g].cleared
        BY <1>2, <2>4 DEF ReaderBase, TInv, TrackerTypeOK
    <2> HIDE DEF f
    <2>6. VisitDone(t, f)
        BY <1>1, <1>2, <2>2, <2>3, <2>5 DEF VisitDone, f
    <2> QED BY <1>4, <2>2, <2>3, <2>5, <2>6 DEF VisitRecorded, f
<1> QED BY <1>3, <1>4

LEMMA MarkingForum ==
    ASSUME ReaderBase, NEW f \in Forums, MarkForum(f)
    PROVE  /\ UNCHANGED vars
           /\ forumsRead'[f].last = clock /\ forumsRead'[f].cleared = clock
           /\ \A g \in Forums \ {f} : forumsRead'[g] = forumsRead[g]
           /\ \A s \in Topics : topicsRead[s].forum = f =>
                topicsRead'[s].forum = None /\ topicsRead'[s].last = Past
           /\ \A s \in Topics : topicsRead[s].forum # f => topicsRead'[s] = topicsRead[s]
           /\ \A s \in Topics : seen'[s] = IF topic[s].forum = f THEN clock ELSE seen[s]
<1>1. /\ forumsRead' = [forumsRead EXCEPT ![f] = [last |-> clock, cleared |-> clock]]
      /\ UNCHANGED vars /\ topicsRead' = WithoutRowsOf(f)
      /\ \A s \in Topics : seen'[s] = IF topic[s].forum = f THEN clock ELSE seen[s]
    BY DEF MarkForum
<1>2. /\ forumsRead'[f].last = clock /\ forumsRead'[f].cleared = clock
      /\ \A g \in Forums \ {f} : forumsRead'[g] = forumsRead[g]
    BY <1>1 DEF ReaderBase, TInv, TrackerTypeOK
<1>3. /\ \A s \in Topics : topicsRead[s].forum = f => topicsRead'[s] = NoTopicsRead
      /\ \A s \in Topics : topicsRead[s].forum # f => topicsRead'[s] = topicsRead[s]
    BY <1>1 DEF WithoutRowsOf
<1> QED BY <1>1, <1>2, <1>3 DEF NoTopicsRead

LEMMA MarkingAll ==
    ASSUME ReaderBase, MarkAll
    PROVE  /\ UNCHANGED vars
           /\ \A g \in forums : forumsRead'[g].last = clock /\ forumsRead'[g].cleared = clock
           /\ \A g \in Forums \ forums :
                forumsRead'[g].last = Past /\ forumsRead'[g].cleared = Past
           /\ \A s \in Topics : /\ topicsRead'[s].forum = None /\ topicsRead'[s].last = Past
                                /\ seen'[s] = clock
<1>1. forums \subseteq Forums
    BY DEF ReaderBase, Base, IInv, TypeOK
<1> QED BY <1>1 DEF MarkAll, NoTopicsRead, NoForumsRead

\* The requests that leave the rows of forumsread alone, and at most delete a visit.
Untouched ==
    /\ [Next]_vars /\ forumsRead' = forumsRead /\ seen' = seen
    /\ \A s \in Topics : \/ topicsRead'[s] = topicsRead[s]
                         \/ topicsRead'[s].forum = None /\ topicsRead'[s].last = Past

LEMMA TrackerSteps ==
    ASSUME ReaderBase, [TrackerNext]_<<vars, tracker>>
    PROVE  \/ \E t \in Topics : ViewTopic(t)
           \/ \E f \in Forums : f \in forums /\ MarkForum(f)
           \/ MarkAll
           \/ /\ Untouched
              /\ topicsRead' = topicsRead \/ "move" \in granted
<1>1. ASSUME NEW t \in Topics, NEW g \in Forums, Move(t, g)
      PROVE  Untouched /\ "move" \in granted
    <2>1. [Next]_vars /\ forumsRead' = forumsRead /\ seen' = seen /\ "move" \in granted
        BY <1>1 DEF Move, Next, MoveTopic
    <2>2. topicsRead' = topicsRead \/ topicsRead' = [topicsRead EXCEPT ![t] = NoTopicsRead]
        BY <1>1 DEF Move
    <2>3. \A s \in Topics : topicsRead'[s] = topicsRead[s] \/ topicsRead'[s] = NoTopicsRead
        BY <2>2 DEF ReaderBase, TInv, TrackerTypeOK
    <2> QED BY <2>1, <2>3 DEF Untouched, NoTopicsRead
<1>2. CASE ChangeContent /\ UNCHANGED tracker
    <2>1. [Next]_vars
        BY <1>2 DEF ChangeContent, Next
    <2> QED BY <1>2, <2>1 DEF Untouched, tracker
<1>3. CASE UNCHANGED <<vars, tracker>>
    BY <1>3 DEF Untouched, tracker
<1> QED BY <1>1, <1>2, <1>3 DEF TrackerNext, MarkForum

LEMMA DatedStep ==
    ASSUME ReaderBase, [TrackerNext]_<<vars, tracker>>
    PROVE  Dated'
<1>1. /\ \A p \in PostIds : post[p].created <= clock
      /\ \A t \in Topics : topicsRead[t].last <= seen[t] /\ seen[t] <= clock
      /\ \A t \in Topics : topicsRead[t].forum = None => topicsRead[t].last = Past
      /\ \A f \in Forums : forumsRead[f].cleared <= forumsRead[f].last
      /\ \A f \in Forums : forumsRead[f].last <= clock /\ forumsRead[f].cleared <= clock
    BY DEF ReaderBase, Dated, TInv, DatesPast
<1>2. /\ clock \in Int /\ Past \in Int /\ Past < 0 /\ 0 <= clock
      /\ \A p \in PostIds : post[p].created \in Int
      /\ \A t \in Topics : topicsRead[t].last \in Int /\ seen[t] \in Int
      /\ \A f \in Forums : forumsRead[f].last \in Int /\ forumsRead[f].cleared \in Int
    BY DatesOrdered
<1>3. ASSUME UNCHANGED vars,
             \A t \in Topics : topicsRead'[t].last <= seen'[t] /\ seen'[t] <= clock,
             \A t \in Topics : topicsRead'[t].forum = None => topicsRead'[t].last = Past,
             \A f \in Forums : forumsRead'[f].cleared <= forumsRead'[f].last
      PROVE  Dated'
    BY <1>1, <1>3 DEF Dated, vars
<1>4. ASSUME NEW t \in Topics, ViewTopic(t) PROVE Dated'
    <2>1. VisitDone(t, topic[t].forum)
        BY <1>4, Visiting
    <2>2. UNCHANGED vars
        BY <2>1 DEF VisitDone
    <2>3. ASSUME NEW s \in Topics
          PROVE  /\ topicsRead'[s].last <= seen'[s] /\ seen'[s] <= clock
                 /\ topicsRead'[s].forum = None => topicsRead'[s].last = Past
        <3>1. CASE s = t
            BY <1>1, <1>2, <2>1, <3>1 DEF VisitDone
        <3>2. CASE s # t
            BY <1>1, <2>1, <3>2 DEF VisitDone
        <3> QED BY <3>1, <3>2
    <2>4. \A f \in Forums : forumsRead'[f].cleared <= forumsRead'[f].last
        BY <1>1, <1>2, <2>1 DEF VisitDone
    <2> QED BY <1>3, <2>2, <2>3, <2>4
<1>5. ASSUME NEW f \in Forums, MarkForum(f) PROVE Dated'
    <2>1. UNCHANGED vars
        BY <1>5 DEF MarkForum
    <2>2. ASSUME NEW s \in Topics
          PROVE  /\ topicsRead'[s].last <= seen'[s] /\ seen'[s] <= clock
                 /\ topicsRead'[s].forum = None => topicsRead'[s].last = Past
        <3>1. seen'[s] = clock \/ seen'[s] = seen[s]
            BY <1>5, MarkingForum
        <3>2. \/ topicsRead'[s] = topicsRead[s]
              \/ topicsRead'[s].forum = None /\ topicsRead'[s].last = Past
            BY <1>5, MarkingForum
        <3>3. \/ topicsRead'[s].last = topicsRead[s].last
              \/ topicsRead'[s].last = Past
            BY <3>2
        <3>4. topicsRead'[s].last <= seen[s] /\ seen[s] <= clock
            <4>1. topicsRead[s].last <= seen[s] /\ seen[s] <= clock
                BY <1>1
            <4>2. Past <= seen[s]
                BY DatesOrdered, DatesAreNumbers DEF ReaderBase, TInv, TrackerTypeOK
            <4> QED BY <3>3, <4>1, <4>2
        <3> QED BY <1>1, <1>2, <3>1, <3>2, <3>4
    <2>3. ASSUME NEW g \in Forums PROVE forumsRead'[g].cleared <= forumsRead'[g].last
        <3>1. CASE g = f
            BY <1>2, <1>5, <3>1, MarkingForum
        <3>2. CASE g # f
            BY <1>1, <1>5, <3>2, MarkingForum
        <3> QED BY <3>1, <3>2
    <2> QED BY <1>3, <2>1, <2>2, <2>3
<1>6. ASSUME MarkAll PROVE Dated'
    <2>1. UNCHANGED vars
        BY <1>6 DEF MarkAll
    <2>2. \A s \in Topics : /\ topicsRead'[s].last <= seen'[s] /\ seen'[s] <= clock
                            /\ topicsRead'[s].forum = None => topicsRead'[s].last = Past
        BY <1>2, <1>6, MarkingAll
    <2>3. \A g \in Forums : forumsRead'[g].cleared <= forumsRead'[g].last
        BY <1>2, <1>6, MarkingAll
    <2> QED BY <1>3, <2>1, <2>2, <2>3
<1>7. ASSUME Untouched PROVE Dated'
    <2>1. [Next]_vars /\ forumsRead' = forumsRead /\ seen' = seen
        BY <1>7 DEF Untouched
    <2>2. clock <= clock' /\ clock' \in Int /\ 0 <= clock'
        <3>1. TypeOK
            BY DEF ReaderBase, Base, IInv
        <3>2. clock <= clock' /\ clock' \in Times
            BY <2>1, <3>1, ClockGoesOn
        <3> QED BY <3>2, TimesFacts, BoundsAssumption DEF Times
    <2>3. ASSUME NEW p \in PostIds PROVE post'[p].created <= clock'
        <3>1. \/ post'[p].created = clock' \/ post'[p] = BlankPost
              \/ post'[p].created = post[p].created
            BY <2>1, CreatedStays DEF ReaderBase
        <3>2. BlankPost.created = 0
            BY DEF BlankPost
        <3>3. post[p].created <= clock'
            BY <1>1, <1>2, <2>2
        <3> QED BY <2>2, <3>1, <3>2, <3>3
    <2>4. ASSUME NEW s \in Topics
          PROVE  /\ topicsRead'[s].last <= seen[s] /\ seen[s] <= clock'
                 /\ topicsRead'[s].forum = None => topicsRead'[s].last = Past
        <3>1. seen[s] <= clock'
            BY <1>1, <1>2, <2>2
        <3>2. Past <= seen[s]
            BY DatesAreNumbers DEF ReaderBase, TInv, TrackerTypeOK
        <3> QED BY <1>1, <1>7, <3>1, <3>2 DEF Untouched
    <2> QED BY <1>1, <2>1, <2>3, <2>4 DEF Dated
<1> QED BY <1>4, <1>5, <1>6, <1>7, TrackerSteps

LEMMA ReaderStep ==
    ASSUME ReaderBase, [TrackerNext]_<<vars, tracker>>
    PROVE  ReaderBase' /\ [Next]_vars /\ granted' = granted
<1>1. [Next]_vars
    BY ContentSteps DEF vars
<1>2. TInv' /\ Dated' /\ Base'
    BY <1>1, TrackerNextPreserves, DatedStep, BaseStep DEF ReaderBase
<1> QED BY <1>1, <1>2, GrantedStays DEF ReaderBase, Base

LEMMA ReaderInit == ASSUME TrackerInit PROVE ReaderBase
<1>1. TInv /\ Base
    BY TrackerInitEstablishes, BaseInit DEF TrackerInit
<1>2. Dated
    <2>1. \A p \in PostIds : post[p].created = 0
        BY DEF TrackerInit, Init, BlankPost
    <2>2. clock = 0 /\ \A t \in Topics : seen[t] = 0
        BY DEF TrackerInit, Init
    <2>3. \A t \in Topics : topicsRead[t].last = Past
        BY DEF TrackerInit, NoTopicsRead
    <2>4. \A f \in Forums : forumsRead[f].cleared = Past /\ forumsRead[f].last = Past
        BY DEF TrackerInit, NoForumsRead
    <2> QED BY <2>1, <2>2, <2>3, <2>4 DEF Dated, Past
<1> QED BY <1>1, <1>2 DEF ReaderBase

-----------------------------------------------------------------------------
(* Opening a topic.                                                        *)

\* Where nothing is hidden, last_updated of a topic, which topic_is_unread looks at, is
\* not later than its last post, which Topic.update_read looks at.
LastDates ==
    \A t \in LiveTopics(topic) : topic[t].updated <= post[topic[t].last].created

LEMMA LastDatesStep ==
    ASSUME ReaderBase, LastDates, [Next]_vars, Never({"makehidden"})
    PROVE  LastDates'
<1>0. Base /\ NothingHidden /\ "makehidden" \notin granted
    BY DEF ReaderBase, Base, Never
<1>1. \A t \in LiveTopics(topic) :
        /\ t \in Topics /\ topic[t].last \in PostIds /\ topic[t].first \in PostIds
        /\ post[topic[t].last].topic = t /\ post[topic[t].first].topic = t
        /\ topic[t].updated <= post[topic[t].last].created
        /\ t # None
    BY <1>0, NullIsNoId
    DEF LastDates, Base, IInv, LastPostInTopic, FirstPostMirrorsTopic, PostsOf, LiveTopics
<1>2. clock \in Int /\ clock + 1 \in Int /\ clock + 1 <= clock + 1
    BY DatesOrdered
<1>3. ASSUME NEW p \in PostIds, NEW t \in Topics, NEW u \in Users, NEW f \in Forums,
             PostAdded(p, t, u, f)
      PROVE  LastDates'
    <2>1. /\ post'[p].created = clock + 1 /\ post[p].topic = None
          /\ \A q \in PostIds \ {p} : post'[q] = post[q]
          /\ topic'[t].last = p /\ topic'[t].updated = clock + 1
          /\ \A s \in Topics \ {t} : topic'[s] = topic[s]
        BY <1>3 DEF PostAdded, Written
    <2>2. ASSUME NEW s \in LiveTopics(topic')
          PROVE  topic'[s].updated <= post'[topic'[s].last].created
        <3>1. CASE s = t
            BY <1>2, <2>1, <3>1
        <3>2. CASE s # t
            <4>1. s \in LiveTopics(topic) /\ topic'[s] = topic[s]
                BY <2>1, <3>2 DEF LiveTopics
            <4>2. post'[topic[s].last] = post[topic[s].last]
                BY <1>1, <2>1, <4>1
            <4> QED BY <1>1, <4>1, <4>2
        <3> QED BY <3>1, <3>2
    <2> QED BY <2>2 DEF LastDates
<1>4. ASSUME NEW gone, Vanished(gone) PROVE LastDates'
    <2>1. /\ \A p \in PostIds : post[p].topic \notin gone => post'[p] = post[p]
          /\ LiveTopics(topic') = LiveTopics(topic) \ gone
        BY <1>0, <1>4, VanishedSets
    <2>2. \A s \in Topics \ gone : topic'[s] = topic[s]
        BY <1>4 DEF Vanished
    <2>3. ASSUME NEW s \in LiveTopics(topic')
          PROVE  topic'[s].updated <= post'[topic'[s].last].created
        <3>1. s \in LiveTopics(topic) /\ s \notin gone /\ topic'[s] = topic[s]
            BY <1>1, <2>1, <2>2
        <3>2. post'[topic[s].last] = post[topic[s].last]
            BY <1>1, <2>1, <3>1
        <3> QED BY <1>1, <3>1, <3>2
    <2> QED BY <2>3 DEF LastDates
<1>5. ASSUME NEW p \in PostIds, NEW P \in PostTable, ReplyTaken(p, P) PROVE LastDates'
    <2> DEFINE t   == post[p].topic
               row == TopicWithoutPost(p, topic[t])
               n   == TopicCount(t, P, topic[t].hidden)
    <2>1. /\ t \in LiveTopics(topic) /\ topic[t].first # p
          /\ post' = P /\ \A q \in PostIds \ {p} : P[q] = post[q]
          /\ topic' = [topic EXCEPT ![t] = [row EXCEPT !.posts = n]]
        BY <1>0, <1>5 DEF ReplyTaken, TakeAway, IsFirst, Base, IInv, NoOrphans
    <2>2. /\ row = IF topic[t].last = p
                   THEN [topic[t] EXCEPT !.last = topic[t].first,
                                         !.updated = post[topic[t].first].created]
                   ELSE topic[t]
          /\ topic[t] \in TopicRow
        BY <1>1, <2>1 DEF TopicWithoutPost, SecondLastPost, ReaderBase, Base, IInv, TypeOK
    <2>3. /\ topic[t].last = p => /\ row.last = topic[t].first
                                  /\ row.updated = post[topic[t].first].created
          /\ topic[t].last # p => row.last = topic[t].last /\ row.updated = topic[t].updated
          /\ row \in TopicRow
        <3>1. row \in TopicRow
            BY <1>0, <1>1, <2>1, <2>2, TopicWithoutPostRow DEF Base, IInv
        <3> QED BY <2>2, <3>1 DEF TopicRow
    <2> HIDE DEF row, n
    <2>4. topic'[t] = [row EXCEPT !.posts = n] /\ \A s \in Topics \ {t} : topic'[s] = topic[s]
        BY <1>0, <1>1, <2>1 DEF Base, IInv, TypeOK
    <2>5. topic'[t].last = row.last /\ topic'[t].updated = row.updated
        BY <2>3, <2>4 DEF TopicRow
    <2>6. topic'[t].updated <= post'[topic'[t].last].created
        <3>1. CASE topic[t].last = p
            <4>1. post'[topic[t].first] = post[topic[t].first]
                BY <1>1, <2>1
            <4>2. post[topic[t].first].created \in Int
                BY <1>1, <2>1, DatesOrdered
            <4> QED BY <2>3, <2>5, <3>1, <4>1, <4>2
        <3>2. CASE topic[t].last # p
            <4>1. post'[topic[t].last] = post[topic[t].last]
                BY <1>1, <2>1, <3>2
            <4> QED BY <1>1, <2>1, <2>3, <2>5, <3>2, <4>1
        <3> QED BY <3>1, <3>2
    <2>7. ASSUME NEW s \in LiveTopics(topic'), s # t
          PROVE  topic'[s].updated <= post'[topic'[s].last].created
        <3>1. s \in Topics /\ topic'[s] = topic[s] /\ s \in LiveTopics(topic)
            BY <2>4, <2>7 DEF LiveTopics
        <3>2. post[topic[s].last].topic # t
            BY <1>1, <2>7, <3>1
        <3>3. post'[topic[s].last] = post[topic[s].last]
            BY <1>1, <2>1, <3>1, <3>2
        <3> QED BY <1>1, <3>1, <3>3
    <2> QED BY <2>6, <2>7 DEF LastDates
<1>6. ASSUME post' = post,
             \A s \in Topics : /\ topic'[s].updated = topic[s].updated
                               /\ topic'[s].last = topic[s].last
                               /\ topic'[s].forum # None => topic[s].forum # None
      PROVE  LastDates'
    BY <1>6 DEF LastDates, LiveTopics
<1>7. ASSUME NEW t \in Topics, NEW g \in Forums, MoveTopic(t, g) PROVE LastDates'
    <2>1. topic' = [topic EXCEPT ![t].forum = g] /\ post' = post /\ topic[t].forum # None
        BY <1>7 DEF MoveTopic, LiveTopics
    <2>2. \A s \in Topics : /\ topic'[s].updated = topic[s].updated
                            /\ topic'[s].last = topic[s].last
                            /\ topic'[s].forum # None => topic[s].forum # None
        BY <1>0, <2>1 DEF Base, IInv, TypeOK, TopicRow
    <2> QED BY <1>6, <2>1, <2>2
<1>8. ASSUME NEW f \in Forums, AddForum(f) PROVE LastDates'
    BY <1>6, <1>8 DEF AddForum
<1>9. ASSUME NEW u \in Users, DeleteUser(u) PROVE LastDates'
    BY <1>6, <1>9 DEF DeleteUser
<1>10. ASSUME UNCHANGED vars PROVE LastDates'
    BY <1>6, <1>10 DEF vars
<1>11. ASSUME NEW t \in LiveTopics(topic), DeleteTopic(t) PROVE LastDates'
    BY <1>0, <1>4, <1>11, TopicVanishes
<1>12. ASSUME ForumsGo PROVE LastDates'
    BY <1>0, <1>4, <1>12, ForumsClose DEF Closing
<1>13. ASSUME NEW u \in Users, NEW f \in Forums, NewTopic(u, f) PROVE LastDates'
    BY <1>0, <1>3, <1>13, NewTopicAdds
<1>14. ASSUME NEW u \in Users, NEW t \in Topics, Reply(u, t) PROVE LastDates'
    <2>1. ~topic[t].hidden
        BY <1>0 DEF NothingHidden
    <2>2. topic[t].forum \in Forums
        BY <1>0, <1>14, ReplyWritten
    <2> QED BY <1>0, <1>3, <1>14, <2>1, <2>2, ReplyAdds
<1>15. Handlers
    BY <1>0, HandlersOnly DEF Base
<1> QED BY <1>0, <1>5, <1>7, <1>8, <1>9, <1>10, <1>11, <1>12, <1>13, <1>14, <1>15
    DEF Handlers, ForumsGo

\* A topic that was not read since, and is not too old, is one whose visit is recorded.
LEMMA NotReadNeedsUpdate ==
    ASSUME ReaderBase, LastDates, NEW t \in LiveTopics(topic),
           topicsRead[t].forum \in {None, topic[t].forum},
           Recent(topic[t].updated), NotRead(t)
    PROVE  TrackerNeedsUpdate(t)
<1> DEFINE f == topic[t].forum
           d == post[topic[t].last].created
<1>1. t \in Topics /\ f \in Forums /\ topic[t].last \in PostIds /\ topic[t].last # None
    BY NullIsNoId DEF ReaderBase, Base, IInv, NoOrphans, TypeOK, LastPostInTopic, PostsOf, LiveTopics
<1>2. topic[t].updated <= d /\ d <= clock
    BY <1>1 DEF LastDates, ReaderBase, Dated
<1>3. /\ topic[t].updated \in Int /\ d \in Int /\ clock \in Int /\ 0 <= d /\ Past < 0
      /\ Past \in Int /\ forumsRead[f].cleared \in Int /\ topicsRead[t].last \in Int
    BY <1>1, DatesOrdered
<1>4. Recent(d)
    BY <1>2, <1>3, TrackerAssumption DEF Recent
<1>5. CASE topicsRead[t].forum = None
    <2>1. topicsRead[t].last = Past
        BY <1>1, <1>5 DEF ReaderBase, Dated
    <2>2. forumsRead[f].cleared < topic[t].updated
        BY <1>5 DEF NotRead
    <2> QED BY <1>1, <1>2, <1>3, <1>4, <2>1, <2>2 DEF TrackerNeedsUpdate
<1>6. CASE topicsRead[t].forum # None
    <2>1. topicsRead[t].forum = f
        BY <1>6
    <2>2. topicsRead[t].last >= forumsRead[f].cleared
        BY <1>1, <1>6, <2>1 DEF ReaderBase, TInv, RowsSinceCleared
    <2>3. topicsRead[t].last < topic[t].updated
        BY <1>6 DEF NotRead
    <2> QED BY <1>1, <1>2, <1>3, <1>4, <2>2, <2>3 DEF TrackerNeedsUpdate
<1> QED BY <1>5, <1>6

LEMMA OpenedIsRead ==
    ASSUME ReaderBase, LastDates, NEW t \in Topics, ViewTopic(t),
           topicsRead[t].forum \in {None, topic[t].forum}
    PROVE  ~TopicIsUnread(t)'
<1>1. t \in LiveTopics(topic) /\ topic[t].last \in PostIds
    BY DEF ViewTopic, ReaderBase, Base, IInv, LastPostInTopic, PostsOf
<1>2. topic' = topic /\ clock' = clock
    BY DEF ViewTopic, vars
<1>3. CASE TrackerNeedsUpdate(t)
    <2>1. topicsRead'[t].last = clock /\ topicsRead'[t].forum # None
        BY <1>3, Visiting DEF VisitRecorded
    <2>2. topic[t].updated <= clock /\ topic[t].updated \in Int /\ clock \in Int
        <3>1. /\ topic[t].updated <= post[topic[t].last].created
              /\ post[topic[t].last].created <= clock
            BY <1>1 DEF LastDates, ReaderBase, Dated
        <3>2. topic[t].updated \in Int /\ post[topic[t].last].created \in Int /\ clock \in Int
            BY <1>1, DatesOrdered
        <3> QED BY <3>1, <3>2
    <2> QED BY <1>2, <2>1, <2>2 DEF TopicIsUnread, NotRead
<1>4. CASE ~TrackerNeedsUpdate(t)
    <2>1. topicsRead' = topicsRead /\ forumsRead' = forumsRead
        BY <1>4, Visiting
    <2>2. ~(Recent(topic[t].updated) /\ NotRead(t))
        BY <1>1, <1>4, NotReadNeedsUpdate
    <2> QED BY <1>2, <2>1, <2>2 DEF TopicIsUnread, NotRead, Recent
<1> QED BY <1>3, <1>4

LastDatesKept == ReaderBase /\ (Never({"makehidden"}) => LastDates)

LEMMA LastDatesInvariance == TrackerSpec => []LastDatesKept
<1>1. TrackerInit => LastDatesKept
    <2>1. ASSUME TrackerInit PROVE LiveTopics(topic) = {}
        BY <2>1 DEF TrackerInit, Init, LiveTopics, BlankTopic
    <2> QED BY <2>1, ReaderInit DEF LastDates, LastDatesKept
<1>2. LastDatesKept /\ [TrackerNext]_<<vars, tracker>> => LastDatesKept'
    BY ReaderStep, LastDatesStep DEF Never, LastDatesKept
<1> QED BY <1>1, <1>2, PTL DEF TrackerSpec

\* A topic the reader has just opened is not shown as unread, where posts are not hidden
\* and the topic's row names its forum: what Topic.update_read asks of the last post agrees
\* with what topic_is_unread asks of last_updated, for any number of posts and topics.
THEOREM OpenedTopicsAreRead == TrackerSpec => VisitedIsRead
<1>1. LastDatesKept => [\A t \in Topics :
                ViewTopic(t) /\ Never({"makehidden"})
                  /\ topicsRead[t].forum \in {None, topic[t].forum}
                => ~TopicIsUnread(t)']_<<vars, tracker>>
    BY OpenedIsRead DEF LastDatesKept
<1> QED BY <1>1, LastDatesInvariance, PTL DEF VisitedIsRead

-----------------------------------------------------------------------------
(* A forum shown as unread.                                                *)

GrowBoard == granted \subseteq {"posttopic", "postreply", "addforum", "deleteuser"}

\* The row of a topic names the forum the topic is in, or nothing.
RowsAtHome == \A t \in Topics : topicsRead[t].forum \in {None, topic[t].forum}

UnreadHasTopic(f) ==
    forum[f].last # None /\ forumsRead[f].last < forum[f].lastCreated
    => \E t \in TopicsIn(f, topic) : NotRead(t)

\* On a board where nothing is taken away every forum stays, and the forum's date is never
\* ahead of the clock: marking it, or opening its last unread topic, catches up with it.
Growing ==
    /\ forums = Forums /\ RowsAtHome
    /\ \A f \in Forums : forum[f].lastCreated <= clock /\ UnreadHasTopic(f)

LEMMA GrowingOnly ==
    ASSUME ReaderBase, Growing, GrowBoard, [Next]_vars
    PROVE  \/ \E t \in Topics, p \in PostIds, u \in Users, f \in Forums : PostAdded(p, t, u, f)
           \/ UNCHANGED <<post, topic, forum, forums, clock>>
<1>0. /\ Base /\ NothingHidden /\ forums = Forums
      /\ \A a \in {"deletetopic", "deletepost", "makehidden", "move", "deleteforum",
                   "deletecategory"} : a \notin granted
    BY DEF ReaderBase, Base, Never, GrowBoard, Growing
<1>1. ASSUME NEW u \in Users, NEW f \in Forums, NewTopic(u, f)
      PROVE  \E t \in Topics, p \in PostIds : PostAdded(p, t, u, f)
    BY <1>0, <1>1, NewTopicAdds
<1>2. ASSUME NEW u \in Users, NEW t \in Topics, Reply(u, t)
      PROVE  topic[t].forum \in Forums /\ \E p \in PostIds : PostAdded(p, t, u, topic[t].forum)
    <2>1. ~topic[t].hidden
        BY <1>0 DEF NothingHidden
    <2>2. topic[t].forum \in Forums
        BY <1>0, <1>2, ReplyWritten
    <2> QED BY <1>0, <1>2, <2>1, <2>2, ReplyAdds
<1>3. ASSUME NEW p \in PostIds, NEW P \in PostTable, ReplyTaken(p, P) PROVE FALSE
    BY <1>0, <1>3 DEF ReplyTaken
<1>4. ASSUME NEW f \in Forums, AddForum(f) PROVE FALSE
    BY <1>0, <1>4 DEF AddForum
<1>5. ASSUME NEW u \in Users, DeleteUser(u)
      PROVE  UNCHANGED <<post, topic, forum, forums, clock>>
    BY <1>5 DEF DeleteUser
<1>6. ASSUME UNCHANGED vars PROVE UNCHANGED <<post, topic, forum, forums, clock>>
    BY <1>6 DEF vars
<1>7. ASSUME NEW t \in Topics, NEW g \in Forums, MoveTopic(t, g) PROVE FALSE
    BY <1>0, <1>7 DEF MoveTopic
<1>8. ASSUME NEW f \in Forums, DeleteForum(f) PROVE FALSE
    BY <1>0, <1>8 DEF DeleteForum
<1>9. ASSUME NEW c \in Categories, DeleteCategory(c) PROVE FALSE
    BY <1>0, <1>9 DEF DeleteCategory
<1>10. Handlers
    BY <1>0, HandlersOnly DEF Base
<1> QED BY <1>0, <1>1, <1>2, <1>3, <1>4, <1>5, <1>6, <1>7, <1>8, <1>9, <1>10 DEF Handlers

LEMMA AddingGrows ==
    ASSUME ReaderBase, Growing, topicsRead' = topicsRead, forumsRead' = forumsRead,
           NEW t \in Topics, NEW p \in PostIds, NEW u \in Users, NEW f \in Forums,
           PostAdded(p, t, u, f)
    PROVE  Growing'
<1>1. /\ clock' = clock + 1 /\ forums' = forums
      /\ topic[t].forum \in {None, f} /\ topic'[t].forum = f
      /\ topic'[t].updated = clock + 1
      /\ \A s \in Topics \ {t} : topic'[s] = topic[s]
      /\ forum'[f].lastCreated = clock + 1
      /\ \A g \in Forums \ {f} : forum'[g] = forum[g]
    BY DEF PostAdded
<1>2. /\ clock \in Int /\ \A g \in Forums : forum[g].lastCreated \in Int
      /\ forumsRead[f].cleared \in Int /\ forumsRead[f].cleared <= clock
      /\ topicsRead[t].last \in Int /\ topicsRead[t].last <= clock
    <2>1. seen[t] \in Int /\ topicsRead[t].last <= seen[t] /\ seen[t] <= clock
        BY DatesOrdered DEF ReaderBase, Dated
    <2>2. forumsRead[f].cleared <= clock
        BY DEF ReaderBase, TInv, DatesPast
    <2> QED BY <2>1, <2>2, DatesOrdered
<1>3. None \notin Forums
    BY NullIsNoId
<1>4. RowsAtHome'
    BY <1>1 DEF Growing, RowsAtHome
<1>5. NotRead(t)' /\ t \in TopicsIn(f, topic')
    BY <1>1, <1>2 DEF NotRead, TopicsIn
<1>6. \A g \in Forums : forum'[g].lastCreated <= clock'
    BY <1>1, <1>2 DEF Growing
<1>7. ASSUME NEW g \in Forums \ {f} PROVE UnreadHasTopic(g)'
    <2>1. \A s \in TopicsIn(g, topic) : s \in TopicsIn(g, topic') /\ (NotRead(s) => NotRead(s)')
        BY <1>1, <1>3 DEF TopicsIn, NotRead
    <2>2. UnreadHasTopic(g) /\ forum'[g] = forum[g]
        BY <1>1 DEF Growing
    <2> QED BY <2>1, <2>2 DEF UnreadHasTopic
<1>8. UnreadHasTopic(f)'
    BY <1>5 DEF UnreadHasTopic
<1> QED BY <1>1, <1>4, <1>6, <1>7, <1>8 DEF Growing

LEMMA VisitGrows ==
    ASSUME ReaderBase, Growing, NEW t \in Topics, ViewTopic(t)
    PROVE  Growing'
<1>0. PICK f \in Forums : f = topic[t].forum
    BY Visiting DEF VisitDone
<1>1. /\ UNCHANGED vars
      /\ \A s \in Topics \ {t} : topicsRead'[s] = topicsRead[s]
      /\ topicsRead'[t].forum \in {f, None, topicsRead[t].forum}
      /\ \A g \in Forums : forumsRead'[g].cleared = forumsRead[g].cleared
    BY <1>0, Visiting DEF VisitDone
<1>2. /\ topic' = topic /\ forum' = forum /\ forums' = forums /\ clock' = clock
    BY <1>1 DEF vars
<1>3. RowsAtHome'
    BY <1>0, <1>1, <1>2 DEF Growing, RowsAtHome
<1>4. CASE ~TrackerNeedsUpdate(t)
    <2>1. topicsRead' = topicsRead /\ forumsRead' = forumsRead
        BY <1>4, Visiting
    <2> QED BY <1>2, <2>1 DEF Growing, RowsAtHome, UnreadHasTopic, NotRead
<1>5. CASE TrackerNeedsUpdate(t)
    <2>1. VisitRecorded(t, f)
        BY <1>0, <1>5, Visiting
    <2>2. ASSUME NEW g \in Forums \ {f} PROVE UnreadHasTopic(g)'
        <3>1. \A s \in TopicsIn(g, topic) : topicsRead'[s] = topicsRead[s]
            BY <1>0, <1>1 DEF TopicsIn
        <3>2. forumsRead'[g] = forumsRead[g]
            BY <2>1 DEF VisitRecorded
        <3>3. \A s \in TopicsIn(g, topic) : NotRead(s) => NotRead(s)'
            BY <1>2, <3>1, <3>2 DEF NotRead, TopicsIn
        <3> QED BY <1>2, <3>2, <3>3 DEF Growing, UnreadHasTopic
    <2>3. CASE NoUnreadTopics(f, topicsRead')
        <3>1. forumsRead'[f].last = clock
            BY <2>1, <2>3 DEF VisitRecorded
        <3>2. ~(forumsRead'[f].last < forum'[f].lastCreated)
            BY <1>1, <1>2, <3>1, DatesOrdered DEF Growing
        <3>3. UnreadHasTopic(f)'
            BY <3>2 DEF UnreadHasTopic
        <3> QED BY <1>2, <1>3, <2>2, <3>3 DEF Growing
    <2>4. CASE ~NoUnreadTopics(f, topicsRead')
        <3>1. forumsRead' = forumsRead
            BY <2>1, <2>4 DEF VisitRecorded
        <3>2. PICK s \in TopicsIn(f, topic) : /\ ~(topicsRead'[s].last >= topic[s].updated)
                                              /\ ~(forumsRead[f].last >= topic[s].updated)
            BY <2>4 DEF NoUnreadTopics
        <3>3. s \in Topics /\ topic[s].forum = f
            BY <3>2 DEF TopicsIn
        <3>4. /\ topicsRead'[s].last < topic[s].updated
              /\ forumsRead[f].cleared < topic[s].updated
            <4>1. topic[s].updated \in Int /\ forumsRead[f].last \in Int
                    /\ forumsRead[f].cleared \in Int /\ clock \in Int
                BY <1>1, <3>3, DatesOrdered
            <4>2. topicsRead'[s].last \in Int
                BY <1>1, <2>1, <3>3, DatesOrdered DEF VisitRecorded
            <4>3. forumsRead[f].cleared <= forumsRead[f].last
                BY <1>1 DEF ReaderBase, Dated
            <4> QED BY <3>2, <4>1, <4>2, <4>3
        <3>5. NotRead(s)' /\ s \in TopicsIn(f, topic')
            BY <1>2, <3>1, <3>2, <3>3, <3>4 DEF NotRead
        <3>6. UnreadHasTopic(f)'
            BY <3>5 DEF UnreadHasTopic
        <3> QED BY <1>2, <1>3, <2>2, <3>6 DEF Growing
    <2> QED BY <2>3, <2>4
<1> QED BY <1>4, <1>5

LEMMA MarkGrows ==
    ASSUME ReaderBase, Growing, NEW f \in Forums, MarkForum(f)
    PROVE  Growing'
<1>1. /\ UNCHANGED vars /\ forumsRead'[f].last = clock
      /\ \A g \in Forums \ {f} : forumsRead'[g] = forumsRead[g]
      /\ \A s \in Topics : \/ topicsRead[s].forum # f /\ topicsRead'[s] = topicsRead[s]
                           \/ topicsRead[s].forum = f /\ topicsRead'[s].forum = None
    BY MarkingForum
<1>2. topic' = topic /\ forum' = forum /\ forums' = forums /\ clock' = clock
    BY <1>1 DEF vars
<1>3. RowsAtHome'
    BY <1>1, <1>2 DEF Growing, RowsAtHome
<1>4. UnreadHasTopic(f)'
    <2>1. ~(forumsRead'[f].last < forum'[f].lastCreated)
        BY <1>1, <1>2, DatesOrdered DEF Growing
    <2> QED BY <2>1 DEF UnreadHasTopic
<1>5. ASSUME NEW g \in Forums \ {f} PROVE UnreadHasTopic(g)'
    <2>1. ASSUME NEW s \in TopicsIn(g, topic) PROVE topicsRead'[s] = topicsRead[s]
        <3>1. s \in Topics /\ topicsRead[s].forum # f
            BY <1>5, <2>1, NullIsNoId DEF Growing, RowsAtHome, TopicsIn
        <3> QED BY <1>1, <3>1
    <2>2. \A s \in TopicsIn(g, topic) : NotRead(s) => NotRead(s)'
        BY <1>1, <1>2, <2>1 DEF NotRead, TopicsIn
    <2> QED BY <1>1, <1>2, <2>2 DEF Growing, UnreadHasTopic
<1> QED BY <1>2, <1>3, <1>4, <1>5 DEF Growing

LEMMA GrowingStep ==
    ASSUME ReaderBase, Growing, GrowBoard, [TrackerNext]_<<vars, tracker>>
    PROVE  Growing'
<1>1. ASSUME MarkAll PROVE Growing'
    <2>1. /\ UNCHANGED vars /\ forums = Forums
          /\ \A g \in Forums : forumsRead'[g].last = clock
          /\ \A s \in Topics : topicsRead'[s].forum = None
        BY <1>1, MarkingAll DEF Growing
    <2>2. topic' = topic /\ forum' = forum /\ forums' = forums /\ clock' = clock
        BY <2>1 DEF vars
    <2>3. ASSUME NEW g \in Forums PROVE UnreadHasTopic(g)'
        <3>1. ~(forumsRead'[g].last < forum'[g].lastCreated)
            BY <2>1, <2>2, DatesOrdered DEF Growing
        <3> QED BY <3>1 DEF UnreadHasTopic
    <2> QED BY <2>1, <2>2, <2>3 DEF Growing, RowsAtHome
<1>2. ASSUME Untouched, topicsRead' = topicsRead \/ "move" \in granted PROVE Growing'
    <2>1. [Next]_vars /\ forumsRead' = forumsRead /\ topicsRead' = topicsRead
        BY <1>2 DEF Untouched, GrowBoard
    <2>2. CASE UNCHANGED <<post, topic, forum, forums, clock>>
        BY <2>1, <2>2 DEF Growing, RowsAtHome, UnreadHasTopic, NotRead
    <2>3. CASE \E t \in Topics, p \in PostIds, u \in Users, f \in Forums : PostAdded(p, t, u, f)
        BY <2>1, <2>3, AddingGrows
    <2> QED BY <2>1, <2>2, <2>3, GrowingOnly
<1> QED BY <1>1, <1>2, TrackerSteps, VisitGrows, MarkGrows

\* A forum that is shown as unread has a topic that was not read since it was written to,
\* one whose visit will be recorded or one too old for that, for any number of forums,
\* topics and posts, where nothing is ever taken away.  (Forum.update_read's count,
\* forum_is_unread and Topic.tracker_needs_update.)
THEOREM UnreadForumsHaveUnread == TrackerSpec => []UnreadForumHasUnread
<1> DEFINE Kept == ReaderBase /\ (GrowBoard => Growing)
<1>1. TrackerInit => Kept
    <2> SUFFICES ASSUME TrackerInit PROVE Growing
        BY ReaderInit
    <2>1. \A f \in Forums : forum[f].last = None /\ forum[f].lastCreated = 0 /\ clock = 0
        BY DEF TrackerInit, Init, BlankForum
    <2>2. RowsAtHome /\ forums = Forums
        BY DEF TrackerInit, Init, RowsAtHome, NoTopicsRead
    <2> QED BY <2>1, <2>2 DEF Growing, UnreadHasTopic
<1>2. Kept /\ [TrackerNext]_<<vars, tracker>> => Kept'
    BY ReaderStep, GrowingStep DEF GrowBoard
<1>3. Kept /\ LastDatesKept => UnreadForumHasUnread
    <2> SUFFICES ASSUME Kept, LastDatesKept, GrowBoard, NEW f \in forums, ForumIsUnread(f)
                 PROVE  \E t \in TopicsIn(f, topic) :
                            NotRead(t) /\ (TrackerNeedsUpdate(t) \/ ~Recent(topic[t].updated))
        BY DEF UnreadForumHasUnread, GrowBoard
    <2>1. Growing /\ LastDates /\ f \in Forums
        BY DEF LastDatesKept, GrowBoard, Never, Growing
    <2>2. PICK t \in TopicsIn(f, topic) : NotRead(t)
        BY <2>1 DEF Growing, UnreadHasTopic, ForumIsUnread
    <2>3. t \in LiveTopics(topic) /\ topicsRead[t].forum \in {None, topic[t].forum}
        BY <2>1, <2>2, NullIsNoId DEF TopicsIn, LiveTopics, Growing, RowsAtHome
    <2>4. Recent(topic[t].updated) => TrackerNeedsUpdate(t)
        BY <2>1, <2>2, <2>3, NotReadNeedsUpdate
    <2> QED BY <2>2, <2>4
<1> QED BY <1>1, <1>2, <1>3, LastDatesInvariance, PTL DEF TrackerSpec

-----------------------------------------------------------------------------
(* Opening the last unread topic of a forum.                               *)

\* Where nothing is hidden, the date a forum shows is not ahead of the clock.
ForumDates == \A f \in Forums : forum[f].lastCreated <= clock

\* A forum that looks for its last post finds a date that is not ahead either.
LEMMA FoundDates ==
    ASSUME NEW row \in ForumRow, NEW P \in PostTable, NEW c \in Int, 0 <= c,
           row.lastCreated <= c, \A q \in PostIds : P[q].created <= c, NEW f
    PROVE  /\ \A T : UpdateLastPost(row, f, P, T).lastCreated <= c
           /\ \A p \in PostIds : ForumWithoutPost(p, row, f, P).lastCreated <= c
<1>1. WithoutLast(row).lastCreated <= c
    BY DEF WithoutLast, WithLast, ForumRow
<1>2. ASSUME NEW q \in PostIds, NEW name
      PROVE  WithLast(row, q, name, P[q].created).lastCreated <= c
    <2>1. WithLast(row, q, name, P[q].created).lastCreated = P[q].created
        BY DEF WithLast, ForumRow
    <2> QED BY <2>1
<1>3. ASSUME NEW T PROVE UpdateLastPost(row, f, P, T).lastCreated <= c
    <2> DEFINE all == PostsIn(f, P, T)
    <2>1. all \in SUBSET PostIds
        BY DEF PostsIn
    <2>2. all # {} => Newest(all) \in PostIds
        <3> HIDE DEF all
        <3> QED BY <2>1, NewestIsLargest
    <2> QED BY <1>1, <1>2, <2>2 DEF UpdateLastPost
<1>4. ASSUME NEW p \in PostIds PROVE ForumWithoutPost(p, row, f, P).lastCreated <= c
    <2> DEFINE rest == UnhiddenIn(f, P, topic) \ {p}
    <2>1. rest \in SUBSET PostIds
        BY DEF UnhiddenIn, PostsIn
    <2>2. rest # {} => Newest(rest) \in PostIds
        <3> HIDE DEF rest
        <3> QED BY <2>1, NewestIsLargest
    <2> QED BY <1>1, <1>2, <2>2 DEF ForumWithoutPost
<1> QED BY <1>3, <1>4

LEMMA ForumDatesStep ==
    ASSUME ReaderBase, ReaderBase', ForumDates, [Next]_vars, Never({"makehidden"})
    PROVE  ForumDates'
<1>0. Base /\ NothingHidden /\ "makehidden" \notin granted
    BY DEF ReaderBase, Base, Never
<1>1. /\ clock \in Int /\ 0 <= clock
      /\ \A f \in Forums : forum[f] \in ForumRow /\ forum[f].lastCreated <= clock
      /\ \A f \in Forums : forum[f].lastCreated \in Int
    BY <1>0, DatesOrdered DEF ForumDates, Base, IInv, TypeOK
<1>2. post' \in PostTable /\ \A q \in PostIds : post'[q].created <= clock'
    BY DEF ReaderBase, TInv, IInv, TypeOK, PostTable, Dated
<1>3. ASSUME NEW p \in PostIds, NEW t \in Topics, NEW u \in Users, NEW f \in Forums,
             PostAdded(p, t, u, f)
      PROVE  ForumDates'
    <2>1. /\ clock' = clock + 1 /\ forum'[f].lastCreated = clock'
          /\ \A g \in Forums \ {f} : forum'[g] = forum[g]
        BY <1>3 DEF PostAdded
    <2>2. clock + 1 <= clock + 1 /\ \A g \in Forums : forum[g].lastCreated <= clock + 1
        BY <1>1
    <2> QED BY <2>1, <2>2 DEF ForumDates
<1>4. ASSUME NEW t \in LiveTopics(topic), DeleteTopic(t) PROVE ForumDates'
    <2> DEFINE f   == topic[t].forum
               row == FixPostCounts(forum[f], f, post', topic')
    <2>1. /\ row \in ForumRow /\ row.lastCreated = forum[f].lastCreated
          /\ \/ forum'[f] = UpdateLastPost(row, f, post', topic')
             \/ forum'[f] = row
          /\ \A g \in Forums \ {f} : forum'[g] = forum[g]
        BY <1>0, <1>4, TopicVanishesFromForum
    <2>2. f \in Forums /\ clock' = clock
        BY <1>0, <1>4, TopicVanishes DEF DeleteTopic
    <2> HIDE DEF row
    <2>3. UpdateLastPost(row, f, post', topic').lastCreated <= clock
        BY <1>1, <1>2, <2>1, <2>2, FoundDates
    <2> QED BY <1>1, <2>1, <2>2, <2>3 DEF ForumDates
<1>5. ASSUME NEW p \in PostIds, NEW P \in PostTable, ReplyTaken(p, P) PROVE ForumDates'
    <2> DEFINE t   == post[p].topic
               f   == topic[t].forum
               new == ForumWithoutPost(p, forum[f], f, P)
               n   == Cardinality(ShownIn(f, P, topic))
    <2>1. t \in LiveTopics(topic) /\ f \in Forums
        BY <1>0, <1>5 DEF ReplyTaken, Base, IInv, NoOrphans, LiveTopics, TypeOK
    <2>2. /\ post' = P /\ clock' = clock
          /\ forum' = [forum EXCEPT ![f] = [new EXCEPT !.posts = n]]
        BY <1>5 DEF ReplyTaken, TakeAway
    <2>3. new \in ForumRow /\ new.lastCreated <= clock
        <3>1. forum[f] \in ForumRow /\ forum[f].lastCreated <= clock
            BY <1>1, <2>1
        <3>2. \A q \in PostIds : P[q].created <= clock
            BY <1>2, <2>2
        <3>3. new.lastCreated <= clock
            BY <1>1, <3>1, <3>2, FoundDates
        <3> QED BY <1>0, <2>1, <3>1, <3>3, ForumWithoutPostRow DEF Base, IInv
    <2> HIDE DEF new, n, f
    <2>4. forum'[f] = [new EXCEPT !.posts = n] /\ \A g \in Forums \ {f} : forum'[g] = forum[g]
        BY <1>0, <2>1, <2>2 DEF Base, IInv, TypeOK
    <2>5. forum'[f].lastCreated <= clock
        BY <2>3, <2>4 DEF ForumRow
    <2> QED BY <1>1, <2>2, <2>4, <2>5 DEF ForumDates
<1>6. ASSUME NEW t \in Topics, NEW g \in Forums, MoveTopic(t, g) PROVE ForumDates'
    <2> DEFINE f == topic[t].forum
    <2>1. /\ f \in Forums /\ \A h \in Forums \ {f, g} : forum'[h] = forum[h]
          /\ RowFrom(t) \in ForumRow /\ RowFrom(t).lastCreated = forum[f].lastCreated
          /\ forum'[f] = UpdateLastPost(RowFrom(t), f, post, topic')
          /\ RowTo(t, g) \in ForumRow /\ RowTo(t, g).lastCreated = forum[g].lastCreated
          /\ forum'[g] = UpdateLastPost(RowTo(t, g), g, post, topic')
          /\ post' = post
        BY <1>0, <1>6, Moved
    <2>2. clock' = clock
        BY <1>6 DEF MoveTopic
    <2>f. ASSUME NEW row \in ForumRow, NEW h \in Forums, row.lastCreated <= clock
          PROVE  UpdateLastPost(row, h, post', topic').lastCreated <= clock
        BY <1>1, <1>2, <2>2, <2>f, FoundDates
    <2> HIDE DEF f
    <2>3. forum'[f].lastCreated <= clock
        BY <1>1, <2>1, <2>f
    <2>4. forum'[g].lastCreated <= clock
        BY <1>1, <2>1, <2>f
    <2> QED BY <1>1, <2>1, <2>2, <2>3, <2>4 DEF ForumDates
<1>7. ASSUME ForumsGo PROVE ForumDates'
    <2>1. PICK closed \in SUBSET Forums, gone \in SUBSET Topics : Closing(closed, gone)
        BY <1>0, <1>7, ForumsClose
    <2>2. clock' = clock
        BY <1>7 DEF ForumsGo, DeleteForum, DeleteCategory
    <2>3. /\ \A g \in closed : forum'[g].lastCreated = 0
          /\ \A g \in Forums \ closed : forum'[g] = forum[g]
        BY <2>1 DEF Closing, BlankForum
    <2> QED BY <1>1, <2>2, <2>3 DEF ForumDates
<1>8. ASSUME NEW f \in Forums, AddForum(f) PROVE ForumDates'
    <2>1. forum' = [forum EXCEPT ![f].lastCreated = clock] /\ clock' = clock
        BY <1>8 DEF AddForum
    <2>2. forum'[f].lastCreated = clock /\ \A g \in Forums \ {f} : forum'[g] = forum[g]
        BY <1>0, <1>1, <2>1 DEF Base, IInv, TypeOK, ForumRow
    <2> QED BY <1>1, <2>1, <2>2 DEF ForumDates
<1>9. ASSUME UNCHANGED <<forum, clock>> PROVE ForumDates'
    BY <1>9 DEF ForumDates
<1>10. ASSUME NEW u \in Users, DeleteUser(u) PROVE ForumDates'
    BY <1>9, <1>10 DEF DeleteUser
<1>11. ASSUME UNCHANGED vars PROVE ForumDates'
    BY <1>9, <1>11 DEF vars
<1>12. ASSUME NEW u \in Users, NEW f \in Forums, NewTopic(u, f) PROVE ForumDates'
    BY <1>0, <1>3, <1>12, NewTopicAdds
<1>13. ASSUME NEW u \in Users, NEW t \in Topics, Reply(u, t) PROVE ForumDates'
    <2>1. ~topic[t].hidden
        BY <1>0 DEF NothingHidden
    <2>2. topic[t].forum \in Forums
        BY <1>0, <1>13, ReplyWritten
    <2> QED BY <1>0, <1>3, <1>13, <2>1, <2>2, ReplyAdds
<1>14. Handlers
    BY <1>0, HandlersOnly DEF Base
<1> QED BY <1>0, <1>4, <1>5, <1>6, <1>7, <1>8, <1>10, <1>11, <1>12, <1>13, <1>14
    DEF Handlers, ForumsGo

\* The visit of the only unread topic finds nothing that Forum.update_read counts.
LEMMA LastVisit ==
    ASSUME ReaderBase, LastDates, ForumDates, NEW t \in Topics, ViewTopic(t),
           topicsRead[t].forum \in {None, topic[t].forum},
           {s \in TopicsIn(topic[t].forum, topic) : TopicIsUnread(s)} = {t}
    PROVE  ~ForumIsUnread(topic[t].forum)'
<1>0. PICK f \in Forums : f = topic[t].forum
    BY Visiting DEF VisitDone
<1>1. UNCHANGED <<topic, forum, clock>>
    BY DEF ViewTopic, vars
<1>2. TopicIsUnread(t) /\ \A s \in TopicsIn(f, topic) \ {t} : ~TopicIsUnread(s)
    BY <1>0
<1>3. TrackerNeedsUpdate(t)
    <2>1. t \in LiveTopics(topic)
        BY DEF ViewTopic
    <2> QED BY <1>2, <2>1, NotReadNeedsUpdate DEF TopicIsUnread
<1>4. VisitRecorded(t, f)
    BY <1>0, <1>3, Visiting
<1>5. NoUnreadTopics(f, topicsRead')
    <2> SUFFICES ASSUME NEW s \in TopicsIn(f, topic), Recent(topic[s].updated)
                 PROVE  \/ topicsRead'[s].last >= topic[s].updated
                        \/ forumsRead[f].last >= topic[s].updated
        BY DEF NoUnreadTopics
    <2>1. /\ s \in Topics /\ topic[s].forum = f /\ topic[s].updated \in Int
          /\ topicsRead[s].last \in Int /\ forumsRead[f].last \in Int
          /\ forumsRead[f].cleared \in Int /\ forumsRead[f].cleared <= forumsRead[f].last
        BY DatesOrdered DEF TopicsIn, ReaderBase, Dated
    <2>2. CASE s = t
        <3>1. topicsRead'[t].last = clock
            BY <1>4 DEF VisitRecorded
        <3>2. t \in LiveTopics(topic) /\ topic[t].last \in PostIds
            BY DEF ViewTopic, ReaderBase, Base, IInv, LastPostInTopic, PostsOf
        <3>3. /\ topic[t].updated <= post[topic[t].last].created
              /\ post[topic[t].last].created <= clock
            BY <3>2 DEF LastDates, ReaderBase, Dated
        <3>4. topic[t].updated \in Int /\ post[topic[t].last].created \in Int /\ clock \in Int
            BY <3>2, DatesOrdered
        <3> QED BY <2>2, <3>1, <3>3, <3>4
    <2>3. CASE s # t
        <3>1. topicsRead'[s] = topicsRead[s]
            BY <1>4, <2>1, <2>3 DEF VisitRecorded, VisitDone
        <3>2. ~NotRead(s)
            BY <1>2, <2>3 DEF TopicIsUnread
        <3> QED BY <2>1, <3>1, <3>2 DEF NotRead
    <2> QED BY <2>2, <2>3
<1>6. forumsRead'[f].last = clock
    BY <1>4, <1>5 DEF VisitRecorded
<1>7. ~(forumsRead'[f].last < forum[f].lastCreated)
    <2>1. forum[f].lastCreated <= clock /\ forum[f].lastCreated \in Int /\ clock \in Int
        BY DatesOrdered DEF ForumDates
    <2> QED BY <1>6, <2>1
<1>8. ~ForumIsUnread(f)'
    BY <1>1, <1>7 DEF ForumIsUnread
<1> QED BY <1>0, <1>1, <1>8 DEF ForumIsUnread

\* Opening the only unread topic of a forum makes the forum one that is shown as read, for
\* any number of forums, topics and posts, where posts are not hidden and the topic's row
\* names its forum.  (Topic.update_read and the count of Forum.update_read.)
THEOREM LastVisitsReadForums == TrackerSpec => LastVisitReadsForum
<1>1. TrackerInit => ForumDates
    <2>1. ASSUME TrackerInit
          PROVE  clock = 0 /\ \A f \in Forums : forum[f].lastCreated = 0
        BY <2>1 DEF TrackerInit, Init, BlankForum
    <2> QED BY <2>1 DEF ForumDates
<1>2. /\ LastDatesKept /\ (Never({"makehidden"}) => ForumDates)
      /\ [TrackerNext]_<<vars, tracker>>
      => (Never({"makehidden"}) => ForumDates)'
    BY ReaderStep, ForumDatesStep DEF Never, LastDatesKept
<1>3. LastDatesKept /\ (Never({"makehidden"}) => ForumDates)
        => [\A t \in Topics :
                ViewTopic(t) /\ Never({"makehidden"})
                  /\ topicsRead[t].forum \in {None, topic[t].forum}
                  /\ {s \in TopicsIn(topic[t].forum, topic) : TopicIsUnread(s)} = {t}
                => ~ForumIsUnread(topic[t].forum)']_<<vars, tracker>>
    BY LastVisit DEF LastDatesKept
<1> QED BY <1>1, <1>2, <1>3, LastDatesInvariance, PTL DEF TrackerSpec, LastVisitReadsForum

-----------------------------------------------------------------------------
(* A post the reader was never shown.                                      *)

SeenBoard == Never({"move", "makehidden", "deletepost"})

\* A post is not newer than its topic's date, and one written after the reader last saw
\* the topic was written after the topic's forum was last marked as read.
SeenRight(p) ==
    /\ post[p].created <= topic[post[p].topic].updated
    /\ post[p].created > seen[post[p].topic]
       => post[p].created > forumsRead[topic[post[p].topic].forum].cleared

AllSeenRight == \A p \in PostIds : post[p].topic # None => SeenRight(p)

\* The topic and the forum of a post.
LEMMA PlaceOfPost ==
    ASSUME ReaderBase, NEW p \in PostIds, post[p].topic # None
    PROVE  /\ post[p].topic \in Topics /\ topic[post[p].topic].forum \in Forums
           /\ post[p].topic \in LiveTopics(topic)
BY Members DEF ReaderBase, Base, IInv, NoOrphans, TypeOK

\* Reading: what a topic's readers have seen is never older than its forum's mark.
LEMMA ReadingSeesAll ==
    ASSUME ReaderBase, AllSeenRight, UNCHANGED vars,
           \A t \in Topics : topic[t].forum \in Forums =>
                \/ seen'[t] = clock
                \/ /\ seen'[t] = seen[t]
                   /\ forumsRead'[topic[t].forum].cleared = forumsRead[topic[t].forum].cleared
    PROVE  AllSeenRight'
<1>1. post' = post /\ topic' = topic
    BY DEF vars
<1>2. ASSUME NEW p \in PostIds, post[p].topic # None
      PROVE  \/ seen'[post[p].topic] = clock
             \/ /\ seen'[post[p].topic] = seen[post[p].topic]
                /\ forumsRead'[topic[post[p].topic].forum].cleared
                        = forumsRead[topic[post[p].topic].forum].cleared
    BY <1>2, PlaceOfPost
<1>3. \A p \in PostIds : ~(post[p].created > clock)
    BY DatesOrdered DEF ReaderBase, Dated
<1> QED BY <1>1, <1>2, <1>3 DEF AllSeenRight, SeenRight

LEMMA AddingSeesAll ==
    ASSUME ReaderBase, AllSeenRight, forumsRead' = forumsRead, seen' = seen,
           NEW t \in Topics, NEW p \in PostIds, NEW u \in Users, NEW f \in Forums,
           PostAdded(p, t, u, f)
    PROVE  AllSeenRight'
<1>1. /\ post'[p].topic = t /\ post'[p].created = clock + 1 /\ post[p].topic = None
      /\ \A q \in PostIds \ {p} : post'[q] = post[q]
      /\ topic'[t].updated = clock + 1 /\ topic'[t].forum = f
      /\ topic[t].forum \in {None, f}
      /\ \A s \in Topics \ {t} : topic'[s] = topic[s]
    BY DEF PostAdded, Written
<1>2. /\ clock \in Int /\ forumsRead[f].cleared \in Int /\ forumsRead[f].cleared <= clock
    BY DatesOrdered DEF ReaderBase, TInv, DatesPast
<1>3. SeenRight(p)'
    <2>1. clock + 1 <= clock + 1 /\ clock + 1 > forumsRead[f].cleared
        BY <1>2
    <2> QED BY <1>1, <2>1 DEF SeenRight
<1>4. ASSUME NEW q \in PostIds \ {p}, post[q].topic # None PROVE SeenRight(q)'
    <2>1. post'[q] = post[q] /\ SeenRight(q)
        BY <1>1, <1>4 DEF AllSeenRight
    <2>2. CASE post[q].topic = t
        <3>1. topic[t].forum = f
            BY <1>1, <1>4, <2>2, PlaceOfPost, NullIsNoId
        <3>2. post[q].created <= clock + 1
            BY <1>2, DatesOrdered DEF ReaderBase, Dated
        <3> QED BY <1>1, <2>1, <2>2, <3>1, <3>2 DEF SeenRight
    <2>3. CASE post[q].topic # t
        <3>1. topic'[post[q].topic] = topic[post[q].topic]
            BY <1>1, <1>4, <2>3, PlaceOfPost
        <3> QED BY <2>1, <3>1 DEF SeenRight
    <2> QED BY <2>2, <2>3
<1> QED BY <1>1, <1>3, <1>4 DEF AllSeenRight

LEMMA WritingSeesAll ==
    ASSUME ReaderBase, AllSeenRight, SeenBoard, [Next]_vars,
           forumsRead' = forumsRead, seen' = seen
    PROVE  AllSeenRight'
<1>0. /\ Base /\ NothingHidden
      /\ "makehidden" \notin granted /\ "move" \notin granted /\ "deletepost" \notin granted
    BY DEF ReaderBase, Base, Never, SeenBoard
<1>1. ASSUME NEW gone, Vanished(gone) PROVE AllSeenRight'
    <2>1. /\ \A p \in PostIds : post[p].topic \in gone => post'[p] = BlankPost
          /\ \A p \in PostIds : post[p].topic \notin gone => post'[p] = post[p]
        BY <1>0, <1>1, VanishedSets
    <2>2. BlankPost.topic = None /\ \A s \in Topics \ gone : topic'[s] = topic[s]
        BY <1>1 DEF Vanished, BlankPost
    <2>3. ASSUME NEW p \in PostIds, post'[p].topic # None PROVE SeenRight(p)'
        <3>1. post'[p] = post[p] /\ post[p].topic \notin gone /\ SeenRight(p)
            BY <2>1, <2>2, <2>3 DEF AllSeenRight
        <3>2. topic'[post[p].topic] = topic[post[p].topic]
            BY <2>2, <2>3, <3>1, PlaceOfPost
        <3> QED BY <3>1, <3>2 DEF SeenRight
    <2> QED BY <2>3 DEF AllSeenRight
<1>2. ASSUME post' = post, topic' = topic PROVE AllSeenRight'
    BY <1>2 DEF AllSeenRight, SeenRight
<1>3. ASSUME NEW t \in LiveTopics(topic), DeleteTopic(t) PROVE AllSeenRight'
    BY <1>0, <1>1, <1>3, TopicVanishes
<1>4. ASSUME ForumsGo PROVE AllSeenRight'
    BY <1>0, <1>1, <1>4, ForumsClose DEF Closing
<1>5. ASSUME NEW u \in Users, NEW f \in Forums, NewTopic(u, f) PROVE AllSeenRight'
    BY <1>0, <1>5, NewTopicAdds, AddingSeesAll
<1>6. ASSUME NEW u \in Users, NEW t \in Topics, Reply(u, t) PROVE AllSeenRight'
    <2>1. ~topic[t].hidden
        BY <1>0 DEF NothingHidden
    <2>2. topic[t].forum \in Forums
        BY <1>0, <1>6, ReplyWritten
    <2> QED BY <1>0, <1>6, <2>1, <2>2, ReplyAdds, AddingSeesAll
<1>7. ASSUME NEW f \in Forums, AddForum(f) PROVE AllSeenRight'
    BY <1>2, <1>7 DEF AddForum
<1>8. ASSUME NEW u \in Users, DeleteUser(u) PROVE AllSeenRight'
    BY <1>2, <1>8 DEF DeleteUser
<1>9. ASSUME UNCHANGED vars PROVE AllSeenRight'
    BY <1>2, <1>9 DEF vars
<1>10. ASSUME NEW p \in PostIds, NEW P \in PostTable, ReplyTaken(p, P) PROVE FALSE
    BY <1>0, <1>10 DEF ReplyTaken
<1>11. ASSUME NEW t \in Topics, NEW g \in Forums, MoveTopic(t, g) PROVE FALSE
    BY <1>0, <1>11 DEF MoveTopic
<1>12. Handlers
    BY <1>0, HandlersOnly DEF Base
<1> QED BY <1>0, <1>3, <1>4, <1>5, <1>6, <1>7, <1>8, <1>9, <1>10, <1>11, <1>12
    DEF Handlers, ForumsGo

LEMMA SeenStep ==
    ASSUME ReaderBase, AllSeenRight, SeenBoard, [TrackerNext]_<<vars, tracker>>
    PROVE  AllSeenRight'
<1>1. ASSUME NEW t \in Topics, ViewTopic(t) PROVE AllSeenRight'
    <2>1. VisitDone(t, topic[t].forum)
        BY <1>1, Visiting
    <2>2. /\ UNCHANGED vars /\ seen'[t] = clock /\ \A s \in Topics \ {t} : seen'[s] = seen[s]
          /\ \A g \in Forums : forumsRead'[g].cleared = forumsRead[g].cleared
        BY <2>1 DEF VisitDone
    <2> QED BY <2>2, ReadingSeesAll
<1>2. ASSUME NEW f \in Forums, MarkForum(f) PROVE AllSeenRight'
    <2>1. /\ UNCHANGED vars
          /\ \A g \in Forums \ {f} : forumsRead'[g] = forumsRead[g]
          /\ \A s \in Topics : seen'[s] = IF topic[s].forum = f THEN clock ELSE seen[s]
        BY <1>2, MarkingForum
    <2>2. ASSUME NEW t \in Topics, topic[t].forum \in Forums
          PROVE  \/ seen'[t] = clock
                 \/ /\ seen'[t] = seen[t]
                    /\ forumsRead'[topic[t].forum].cleared = forumsRead[topic[t].forum].cleared
        BY <2>1, <2>2
    <2> QED BY <2>1, <2>2, ReadingSeesAll
<1>3. ASSUME MarkAll PROVE AllSeenRight'
    <2>1. UNCHANGED vars /\ \A s \in Topics : seen'[s] = clock
        BY <1>3, MarkingAll
    <2> QED BY <2>1, ReadingSeesAll
<1>4. ASSUME Untouched PROVE AllSeenRight'
    BY <1>4, WritingSeesAll DEF Untouched
<1> QED BY <1>1, <1>2, <1>3, <1>4, TrackerSteps

\* A post the reader was never shown, in a topic he did not mark as read, marks its topic
\* as unread until it is too old, also when a topic takes over the id and the rows of a
\* deleted one, where topics stay in their forum and posts come and go with their topic.
THEOREM UnseenTopicsAreUnread == TrackerSpec => []UnseenIsUnreadKept
<1> DEFINE Kept == ReaderBase /\ (SeenBoard => AllSeenRight)
<1>1. TrackerInit => Kept
    <2>1. ASSUME TrackerInit PROVE \A p \in PostIds : post[p].topic = None
        BY <2>1 DEF TrackerInit, Init, BlankPost
    <2> QED BY <2>1, ReaderInit DEF AllSeenRight
<1>2. Kept /\ [TrackerNext]_<<vars, tracker>> => Kept'
    BY ReaderStep, SeenStep DEF SeenBoard, Never
<1>3. Kept => UnseenIsUnreadKept
    <2> SUFFICES ASSUME ReaderBase, AllSeenRight PROVE UnseenIsUnread
        BY DEF UnseenIsUnreadKept, SeenBoard
    <2> SUFFICES ASSUME NEW p \in ShownPosts(post, topic),
                        post[p].created > seen[post[p].topic], Recent(post[p].created)
                 PROVE  TopicIsUnread(post[p].topic)
        BY DEF UnseenIsUnread
    <2> DEFINE t == post[p].topic
               d == post[p].created
    <2>1. p \in PostIds /\ t # None
        BY DEF ShownPosts
    <2>2. t \in Topics /\ topic[t].forum \in Forums /\ SeenRight(p)
        BY <2>1, PlaceOfPost DEF AllSeenRight
    <2>3. /\ d \in Int /\ topic[t].updated \in Int /\ clock \in Int /\ seen[t] \in Int
          /\ topicsRead[t].last \in Int /\ forumsRead[topic[t].forum].cleared \in Int
        BY <2>1, <2>2, DatesOrdered
    <2>4. /\ d <= topic[t].updated /\ d > forumsRead[topic[t].forum].cleared
          /\ topicsRead[t].last <= seen[t] /\ d > seen[t]
        BY <2>2 DEF SeenRight, ReaderBase, Dated
    <2>5. Recent(topic[t].updated)
        BY <2>3, <2>4, TrackerAssumption DEF Recent
    <2>6. NotRead(t)
        BY <2>3, <2>4 DEF NotRead
    <2> QED BY <2>5, <2>6 DEF TopicIsUnread
<1> QED BY <1>1, <1>2, <1>3, PTL DEF TrackerSpec

-----------------------------------------------------------------------------
(* A forum shown as read.                                                  *)

StayBoard ==
    /\ Never({"move", "deletepost", "deletetopic", "deleteforum", "deletecategory"})
    /\ Never({"makehidden"}) \/ Never({"postreply"})

\* What topic t of a board where everything stays owes to its forum: the forum's date is
\* not older, and a mark of the forum does not cover t while t is unread.
ListedRight(t) ==
    /\ 1 <= topic[t].updated /\ topic[t].updated <= clock
    /\ ~topic[t].hidden => topic[t].updated <= forum[topic[t].forum].lastCreated
    /\ TopicIsUnread(t) => forumsRead[topic[t].forum].last < topic[t].updated

\* The last post a forum names is there, and has a date.
LastThere(f) ==
    forum[f].last # None => /\ forum[f].last \in PostIds /\ post[forum[f].last].topic # None
                            /\ 1 <= forum[f].lastCreated

\* Without replies the post of a topic dates it, and ids are given in the order of dates.
OnlyFirsts ==
    /\ \A p \in PostIds : post[p].topic # None =>
            /\ topic[post[p].topic].first = p
            /\ topic[post[p].topic].updated = post[p].created
    /\ \A p, q \in PostIds : post[p].topic # None /\ post[q].topic # None /\ p < q
            => post[p].created <= post[q].created

Staying ==
    /\ forums = Forums /\ RowsAtHome
    /\ \A t \in LiveTopics(topic) : ListedRight(t)
    /\ \A f \in Forums : LastThere(f)
    /\ Never({"postreply"}) => OnlyFirsts

\* The requests on the content where everything stays.
LEMMA StayingOnly ==
    ASSUME ReaderBase, Staying, StayBoard, [Next]_vars
    PROVE  \/ \E t \in Topics, p \in PostIds, u \in Users, f \in Forums : PostAdded(p, t, u, f)
           \/ \E t \in LiveTopics(topic) : /\ HideTopic(t) \/ UnhideTopic(t)
                                           /\ Never({"postreply"})
           \/ UNCHANGED <<post, topic, forum, forums, clock>>
<1>0. /\ Base /\ forums = Forums
      /\ \A a \in {"deletetopic", "deletepost", "move", "deleteforum", "deletecategory"} :
            a \notin granted
      /\ "makehidden" \notin granted => NothingHidden
      /\ "makehidden" \in granted => "postreply" \notin granted /\ OnlyFirsts
    BY DEF ReaderBase, Base, Never, StayBoard, Staying
<1>1. ASSUME NEW u \in Users, NEW f \in Forums, NewTopic(u, f)
      PROVE  \E t \in Topics, p \in PostIds : PostAdded(p, t, u, f)
    BY <1>0, <1>1, NewTopicAdds
<1>2. ASSUME NEW u \in Users, NEW t \in Topics, Reply(u, t)
      PROVE  topic[t].forum \in Forums /\ \E p \in PostIds : PostAdded(p, t, u, topic[t].forum)
    <2>1. ~topic[t].hidden
        BY <1>0, <1>2 DEF NothingHidden, Reply
    <2>2. topic[t].forum \in Forums
        BY <1>0, <1>2, ReplyWritten
    <2> QED BY <1>0, <1>2, <2>1, <2>2, ReplyAdds
<1>3. ASSUME NEW p \in PostIds, NEW P \in PostTable, ReplyTaken(p, P) PROVE FALSE
    BY <1>0, <1>3 DEF ReplyTaken, OnlyFirsts, IsFirst
<1>4. ASSUME NEW f \in Forums, AddForum(f) PROVE FALSE
    BY <1>0, <1>4 DEF AddForum
<1>5. ASSUME NEW u \in Users, DeleteUser(u)
      PROVE  UNCHANGED <<post, topic, forum, forums, clock>>
    BY <1>5 DEF DeleteUser
<1>6. ASSUME UNCHANGED vars PROVE UNCHANGED <<post, topic, forum, forums, clock>>
    BY <1>6 DEF vars
<1>7. ASSUME NEW t \in Topics, NEW g \in Forums, MoveTopic(t, g) PROVE FALSE
    BY <1>0, <1>7 DEF MoveTopic
<1>8. ASSUME NEW f \in Forums, DeleteForum(f) PROVE FALSE
    BY <1>0, <1>8 DEF DeleteForum
<1>9. ASSUME NEW c \in Categories, DeleteCategory(c) PROVE FALSE
    BY <1>0, <1>9 DEF DeleteCategory
<1>10. ASSUME NEW p \in PostIds, "makehidden" \in granted, post[p].topic # None, ~IsFirst(p)
       PROVE  FALSE
    BY <1>0, <1>10 DEF OnlyFirsts, IsFirst
<1>11. ASSUME NEW t \in LiveTopics(topic), HideTopic(t) \/ UnhideTopic(t),
              "makehidden" \in granted
       PROVE  Never({"postreply"})
    BY <1>0, <1>11 DEF Never
<1>12. Handlers
    BY <1>0, HandlersOnly DEF Base
<1> QED BY <1>0, <1>1, <1>2, <1>3, <1>4, <1>5, <1>6, <1>7, <1>8, <1>9, <1>10, <1>11, <1>12
    DEF Handlers

\* Later the same dates are recent, or fewer.
LEMMA RecentBefore ==
    ASSUME NEW d \in Int, NEW then \in Int, NEW now \in Int, then <= now,
           d >= now - TrackerLength
    PROVE  d >= then - TrackerLength
BY TrackerAssumption

LEMMA AddingStays ==
    ASSUME ReaderBase, Staying, StayBoard, topicsRead' = topicsRead, forumsRead' = forumsRead,
           granted' = granted,
           NEW t \in Topics, NEW p \in PostIds, NEW u \in Users, NEW f \in Forums,
           PostAdded(p, t, u, f)
    PROVE  Staying'
<1>1. /\ post'[p].topic = t /\ post'[p].created = clock + 1 /\ post[p].topic = None
      /\ \A q \in PostIds : post[q].topic # None => q < p
      /\ \A q \in PostIds \ {p} : post'[q] = post[q]
      /\ topic'[t].updated = clock + 1 /\ topic'[t].forum = f
      /\ topic[t].forum \in {None, f}
      /\ topic[t].forum = None => topic'[t].first = p
      /\ topic[t].forum # None => "postreply" \in granted
      /\ \A s \in Topics \ {t} : topic'[s] = topic[s]
      /\ forum'[f].last = p /\ forum'[f].lastCreated = clock + 1
      /\ \A g \in Forums \ {f} : forum'[g] = forum[g]
      /\ clock' = clock + 1 /\ forums' = forums
    BY DEF PostAdded, Written
<1>2. /\ clock \in Int /\ 0 <= clock
      /\ forumsRead[f].last \in Int /\ forumsRead[f].last <= clock
    BY DatesOrdered DEF ReaderBase, TInv, DatesPast
<1>3. t # None /\ None \notin Topics /\ None \notin Forums /\ None \notin PostIds
    BY NullIsNoId
<1>4. RowsAtHome'
    BY <1>1 DEF Staying, RowsAtHome
<1>5. ListedRight(t)'
    <2>1. /\ 1 <= clock + 1 /\ clock + 1 <= clock + 1 /\ forumsRead[f].last < clock + 1
        BY <1>2
    <2> QED BY <1>1, <2>1 DEF ListedRight
<1>6. ASSUME NEW s \in LiveTopics(topic'), s # t PROVE ListedRight(s)'
    <2>1. s \in Topics /\ topic'[s] = topic[s] /\ s \in LiveTopics(topic) /\ ListedRight(s)
        BY <1>1, <1>6 DEF LiveTopics, Staying
    <2>2. topic[s].updated \in Int /\ topic[s].updated <= clock + 1
        BY <1>2, <2>1, DatesOrdered DEF ListedRight
    <2>3. forum'[topic[s].forum].lastCreated
                \in {clock + 1, forum[topic[s].forum].lastCreated}
        <3>1. topic[s].forum \in Forums
            BY <2>1 DEF ReaderBase, Base, IInv, NoOrphans, TypeOK
        <3> QED BY <1>1, <3>1
    <2>4. TopicIsUnread(s)' => TopicIsUnread(s)
        <3>1. NotRead(s)' <=> NotRead(s)
            BY <2>1 DEF NotRead
        <3>2. PICK d \in Int : d = topic[s].updated
            BY <2>2
        <3>3. d >= clock' - TrackerLength => d >= clock - TrackerLength
            BY <1>1, <1>2, RecentBefore
        <3> QED BY <2>1, <3>1, <3>2, <3>3 DEF TopicIsUnread, Recent
    <2> QED BY <1>1, <2>1, <2>2, <2>3, <2>4 DEF ListedRight
<1>7. ASSUME NEW g \in Forums PROVE LastThere(g)'
    <2>1. CASE g = f
        BY <1>1, <1>2, <1>3, <2>1 DEF LastThere
    <2>2. CASE g # f
        <3>1. forum'[g] = forum[g] /\ LastThere(g)
            BY <1>1, <2>2 DEF Staying
        <3> QED BY <1>1, <1>3, <3>1 DEF LastThere
    <2> QED BY <2>1, <2>2
<1>8. ASSUME Never({"postreply"}) PROVE OnlyFirsts'
    <2>1. topic[t].forum = None /\ topic'[t].first = p /\ OnlyFirsts
        BY <1>1, <1>8 DEF Never, Staying
    <2>2. ASSUME NEW q \in PostIds \ {p}, post[q].topic # None
          PROVE  topic'[post[q].topic] = topic[post[q].topic] /\ post[q].created <= clock
        <3>1. post[q].topic \in Topics /\ post[q].topic # t
            BY <1>3, <2>1, <2>2, PlaceOfPost
        <3> QED BY <1>1, <3>1 DEF ReaderBase, Dated
    <2>3. ASSUME NEW q \in PostIds, post'[q].topic # None
          PROVE  /\ topic'[post'[q].topic].first = q
                 /\ topic'[post'[q].topic].updated = post'[q].created
        <3>1. CASE q = p
            BY <1>1, <2>1, <3>1
        <3>2. CASE q # p
            BY <1>1, <2>1, <2>2, <2>3, <3>2 DEF OnlyFirsts
        <3> QED BY <3>1, <3>2
    <2>4. ASSUME NEW q \in PostIds, NEW r \in PostIds, post'[q].topic # None,
                 post'[r].topic # None, q < r
          PROVE  post'[q].created <= post'[r].created
        <3>0. q \in Int /\ r \in Int /\ p \in Int /\ r # q
            BY <2>4, BoundsAssumption DEF PostIds
        <3>1. CASE r = p
            <4>1. q \in PostIds \ {p} /\ post[q].topic # None /\ post'[q] = post[q]
                BY <1>1, <2>4, <3>0, <3>1
            <4> QED BY <1>1, <1>2, <2>2, <3>1, <4>1, DatesOrdered
        <3>2. CASE r # p
            <4>1. post'[r] = post[r] /\ post[r].topic # None /\ r < p
                BY <1>1, <2>4, <3>2
            <4>2. q # p
                BY <2>4, <3>0, <4>1
            <4> QED BY <1>1, <2>1, <2>4, <4>1, <4>2 DEF OnlyFirsts
        <3> QED BY <3>1, <3>2
    <2> QED BY <2>3, <2>4 DEF OnlyFirsts
<1>9. \A s \in LiveTopics(topic') : ListedRight(s)'
    BY <1>5, <1>6
<1>10. forums' = Forums /\ (Never({"postreply"})' => OnlyFirsts')
    BY <1>1, <1>8 DEF Staying, Never
<1> QED BY <1>4, <1>7, <1>9, <1>10 DEF Staying

\* What hiding and restoring a topic have in common, dates considered.
TopicFlagged(t, f) ==
    /\ t \in LiveTopics(topic) /\ f \in Forums /\ topic[t].forum = f
    /\ \A p \in PostIds : post'[p].topic = post[p].topic /\ post'[p].created = post[p].created
    /\ \A s \in Topics : /\ topic'[s].forum = topic[s].forum /\ topic'[s].first = topic[s].first
                         /\ topic'[s].updated = topic[s].updated
                         /\ s # t => topic'[s].hidden = topic[s].hidden
    /\ \A g \in Forums \ {f} : forum'[g] = forum[g]
    /\ UNCHANGED <<forums, clock>>

LEMMA FlaggedDates ==
    ASSUME Base, NEW t \in LiveTopics(topic), HideTopic(t) \/ UnhideTopic(t)
    PROVE  /\ TopicFlagged(t, topic[t].forum)
           /\ HideTopic(t) => topic'[t].hidden
<1>1. /\ t \in Topics /\ topic[t].first \in PostIds
    BY DEF LiveTopics, Base, IInv, FirstPostMirrorsTopic, PostsOf
<1>2. PICK hidden \in BOOLEAN : /\ post' = [post EXCEPT ![topic[t].first].hidden = hidden]
                                /\ topic' = [topic EXCEPT ![t].hidden = hidden]
                                /\ HideTopic(t) => hidden
    BY DEF HideTopic, UnhideTopic, HandleFirstPost
<1>3. UNCHANGED <<forums, clock>>
    BY DEF HideTopic, UnhideTopic
<1>4. \A p \in PostIds : post'[p].topic = post[p].topic /\ post'[p].created = post[p].created
    BY <1>1, <1>2 DEF Base, IInv, TypeOK, PostRow
<1>5. /\ \A s \in Topics : /\ topic'[s].forum = topic[s].forum /\ topic'[s].first = topic[s].first
                           /\ topic'[s].updated = topic[s].updated
                           /\ s # t => topic'[s].hidden = topic[s].hidden
      /\ topic'[t].hidden = hidden
    BY <1>1, <1>2 DEF Base, IInv, TypeOK, TopicRow
<1>6. topic[t].forum \in Forums /\ \A g \in Forums \ {topic[t].forum} : forum'[g] = forum[g]
    BY Flagged
<1> QED BY <1>2, <1>3, <1>4, <1>5, <1>6 DEF TopicFlagged

\* It keeps what is owed to the forum if the forum's date does not fall behind one of the
\* topics shown afterwards.
LEMMA FlaggingStays ==
    ASSUME ReaderBase, Staying, topicsRead' = topicsRead, forumsRead' = forumsRead,
           granted' = granted,
           NEW t \in Topics, NEW f \in Forums, TopicFlagged(t, f),
           \A s \in ShownTopicsIn(f, topic') : topic[s].updated <= forum'[f].lastCreated,
           forum'[f].last # None => /\ forum'[f].last \in PostIds
                                    /\ post[forum'[f].last].topic # None
                                    /\ 1 <= forum'[f].lastCreated
    PROVE  Staying'
<1>1. /\ \A p \in PostIds : post'[p].topic = post[p].topic /\ post'[p].created = post[p].created
      /\ \A s \in Topics : /\ topic'[s].forum = topic[s].forum
                           /\ topic'[s].first = topic[s].first
                           /\ topic'[s].updated = topic[s].updated
                           /\ s # t => topic'[s].hidden = topic[s].hidden
      /\ \A g \in Forums \ {f} : forum'[g] = forum[g]
      /\ forums' = forums /\ clock' = clock /\ topic[t].forum = f
    BY DEF TopicFlagged
<1>2. RowsAtHome'
    BY <1>1 DEF Staying, RowsAtHome
<1>3. ASSUME NEW s \in LiveTopics(topic') PROVE ListedRight(s)'
    <2>1. s \in Topics /\ s \in LiveTopics(topic) /\ ListedRight(s)
        BY <1>1, <1>3 DEF LiveTopics, Staying
    <2>2. TopicIsUnread(s)' <=> TopicIsUnread(s)
        BY <1>1, <2>1 DEF TopicIsUnread, NotRead, Recent
    <2>3. ~topic'[s].hidden => topic'[s].updated <= forum'[topic'[s].forum].lastCreated
        <3>1. CASE topic[s].forum = f
            <4>1. topic'[s].forum = f
                BY <1>1, <2>1, <3>1
            <4>2. ~topic'[s].hidden => s \in ShownTopicsIn(f, topic')
                BY <2>1, <4>1 DEF ShownTopicsIn, TopicsIn
            <4> QED BY <1>1, <2>1, <4>1, <4>2
        <3>2. CASE topic[s].forum # f
            <4>1. topic[s].forum \in Forums
                BY <2>1 DEF ReaderBase, Base, IInv, NoOrphans, TypeOK
            <4>2. forum'[topic[s].forum] = forum[topic[s].forum] /\ s # t
                BY <1>1, <3>2, <4>1
            <4> QED BY <1>1, <2>1, <4>2 DEF ListedRight
        <3> QED BY <3>1, <3>2
    <2> QED BY <1>1, <2>1, <2>2, <2>3 DEF ListedRight
<1>4. ASSUME NEW g \in Forums PROVE LastThere(g)'
    <2>1. CASE g = f
        BY <1>1, <2>1 DEF LastThere
    <2>2. CASE g # f
        <3>1. forum'[g] = forum[g] /\ LastThere(g)
            BY <1>1, <2>2 DEF Staying
        <3> QED BY <1>1, <3>1 DEF LastThere
    <2> QED BY <2>1, <2>2
<1>5. ASSUME Never({"postreply"}) PROVE OnlyFirsts'
    <2>1. OnlyFirsts
        BY <1>5 DEF Staying
    <2>2. \A p \in PostIds : post[p].topic # None => post[p].topic \in Topics
        BY PlaceOfPost
    <2> QED BY <1>1, <2>1, <2>2 DEF OnlyFirsts
<1>6. forums' = Forums /\ (Never({"postreply"})' => OnlyFirsts')
    BY <1>1, <1>5 DEF Staying, Never
<1> QED BY <1>2, <1>3, <1>4, <1>6 DEF Staying

\* What Topic._remove_topic_from_forum may do to the forum's last post.
LEMMA RemovedFrom ==
    ASSUME TypeOK, LastPostInTopic, NEW t \in LiveTopics(topic), ~topic[t].hidden,
           NEW row \in ForumRow, NEW f \in Forums, topic[t].forum = f
    PROVE  LET new  == RemoveTopicFromForum(t, row, f)
               rest == ShownTopicsIn(f, topic) \ {t}
           IN  \/ rest = {} /\ new = WithoutLast(row)
               \/ \E s \in rest :
                    /\ \A o \in rest : topic[o].last <= topic[s].last
                    /\ new = WithLast(row, topic[s].last, topic[s].user, topic[s].updated)
               \/ new = row
<1> DEFINE shown == ShownTopicsIn(f, topic)
           rest  == shown \ {t}
           lasts == {topic[s].last : s \in rest}
<1>1. /\ rest \subseteq LiveTopics(topic) /\ rest \subseteq Topics
      /\ shown \in SUBSET Topics /\ t \in shown /\ t \in Topics
    BY NullIsNoId DEF ShownTopicsIn, TopicsIn, LiveTopics
<1>2. Cardinality(shown) \in Nat /\ Cardinality(rest) = Cardinality(shown) - 1
    <2>1. IsFiniteSet(Topics)
        BY FiniteAssumption
    <2> HIDE DEF shown
    <2> QED BY <1>1, <2>1, OneMore
<1>3. IsFiniteSet(rest)
    BY <1>1, FiniteAssumption, FS_Subset
<1>4. CASE Cardinality(shown) <= 1
    <2>1. Cardinality(rest) \in Nat
        BY <1>3, FS_CardinalityType
    <2>2. Cardinality(rest) = 0
        BY <1>2, <1>4, <2>1
    <2>3. rest = {}
        BY <1>3, <2>2, FS_EmptySet
    <2> QED BY <1>4, <2>3 DEF RemoveTopicFromForum
<1>5. CASE ~(Cardinality(shown) <= 1)
    <2>1. rest # {}
        BY <1>2, <1>5, FS_EmptySet
    <2>2. lasts \in SUBSET PostIds /\ lasts # {}
        BY <1>1, <2>1 DEF LastPostInTopic, PostsOf
    <2>3. \E s \in rest : \A o \in rest : topic[o].last <= topic[s].last
        <3>1. Newest(lasts) \in lasts /\ \A q \in lasts : q <= Newest(lasts)
            <4> HIDE DEF lasts
            <4> QED BY <2>2, NewestIsLargest
        <3>2. \E s \in rest : topic[s].last = Newest(lasts)
            BY <3>1
        <3> QED BY <3>1, <3>2
    <2> DEFINE second == CHOOSE s \in rest : \A o \in rest : topic[o].last <= topic[s].last
    <2>4. second \in rest /\ \A o \in rest : topic[o].last <= topic[second].last
        BY <2>3
    <2>5. RemoveTopicFromForum(t, row, f)
            = IF topic[t].last > topic[second].last
              THEN WithLast(row, topic[second].last, topic[second].user, topic[second].updated)
              ELSE row
        BY <1>5 DEF RemoveTopicFromForum
    <2> HIDE DEF second, rest
    <2> QED BY <2>4, <2>5 DEF rest
<1> QED BY <1>4, <1>5

\* Without replies the posts' order is the topics' one.
LEMMA LastsOrdered ==
    ASSUME ReaderBase, OnlyFirsts,
           NEW s \in LiveTopics(topic), NEW o \in LiveTopics(topic),
           topic[o].last <= topic[s].last
    PROVE  topic[o].updated <= topic[s].updated
<1>1. /\ topic[s].last \in PostIds /\ post[topic[s].last].topic = s
      /\ topic[o].last \in PostIds /\ post[topic[o].last].topic = o
      /\ s # None /\ o # None /\ s \in Topics /\ o \in Topics
    BY NullIsNoId DEF ReaderBase, Base, IInv, LastPostInTopic, PostsOf, LiveTopics
<1>2. /\ topic[s].updated = post[topic[s].last].created
      /\ topic[o].updated = post[topic[o].last].created
      /\ topic[o].last \in Int /\ topic[s].last \in Int
      /\ topic[s].updated \in Int
    BY <1>1, DatesOrdered, BoundsAssumption DEF OnlyFirsts, PostIds
<1>3. CASE topic[o].last = topic[s].last
    BY <1>2, <1>3
<1>4. CASE topic[o].last # topic[s].last
    <2>1. topic[o].last < topic[s].last
        BY <1>2, <1>4
    <2> QED BY <1>1, <1>2, <2>1 DEF OnlyFirsts
<1> QED BY <1>3, <1>4

LEMMA HidingStays ==
    ASSUME ReaderBase, Staying, topicsRead' = topicsRead, forumsRead' = forumsRead,
           granted' = granted, Never({"postreply"}),
           NEW t \in LiveTopics(topic), HideTopic(t)
    PROVE  Staying'
<1>0. PICK f \in Forums : f = topic[t].forum
    BY Flagged DEF ReaderBase
<1>1. /\ TopicFlagged(t, f) /\ topic'[t].hidden /\ t \in Topics
      /\ TypeOK /\ LastPostInTopic /\ OnlyFirsts /\ ~topic[t].hidden
    BY <1>0, FlaggedDates DEF ReaderBase, Base, IInv, Staying, LiveTopics, HideTopic
<1> DEFINE new  == RemoveTopicFromForum(t, forum[f], f)
           rest == ShownTopicsIn(f, topic) \ {t}
<1>2. forum[f] \in ForumRow /\ new \in ForumRow
    BY <1>0, <1>1, RemoveTopicRow DEF TypeOK
<1>3. forum'[f].last = new.last /\ forum'[f].lastCreated = new.lastCreated
    <2>1. forum' = [forum EXCEPT ![f] = FixPostCounts(new, f, post', topic')]
        BY <1>0 DEF HideTopic
    <2> HIDE DEF new
    <2>2. forum'[f] = FixPostCounts(new, f, post', topic')
        BY <1>1, <2>1 DEF TypeOK
    <2> QED BY <1>2, <2>2 DEF FixPostCounts, ForumRow
<1>4. \/ rest = {} /\ new = WithoutLast(forum[f])
      \/ \E s \in rest :
            /\ \A o \in rest : topic[o].last <= topic[s].last
            /\ new = WithLast(forum[f], topic[s].last, topic[s].user, topic[s].updated)
      \/ new = forum[f]
    BY <1>0, <1>1, <1>2, RemovedFrom
<1>5. /\ rest \subseteq LiveTopics(topic) /\ rest \subseteq Topics
      /\ \A s \in ShownTopicsIn(f, topic') : s \in rest
    BY <1>1, NullIsNoId DEF TopicFlagged, ShownTopicsIn, TopicsIn, LiveTopics
<1>6. \A s \in rest : /\ ListedRight(s) /\ ~topic[s].hidden /\ topic[s].forum = f
                      /\ topic[s].updated <= forum[f].lastCreated
    BY <1>5 DEF Staying, ShownTopicsIn, TopicsIn, ListedRight
<1> HIDE DEF new, rest
<1>7. CASE rest = {} /\ new = WithoutLast(forum[f])
    <2>1. new.last = None
        BY <1>2, <1>7 DEF WithoutLast, WithLast, ForumRow
    <2> QED BY <1>1, <1>3, <1>5, <1>7, <2>1, FlaggingStays
<1>8. ASSUME NEW s \in rest, \A o \in rest : topic[o].last <= topic[s].last,
             new = WithLast(forum[f], topic[s].last, topic[s].user, topic[s].updated)
      PROVE  Staying'
    <2>1. new.last = topic[s].last /\ new.lastCreated = topic[s].updated
        BY <1>2, <1>8 DEF WithLast, ForumRow
    <2>2. \A o \in rest : topic[o].updated <= topic[s].updated
        BY <1>1, <1>5, <1>8, LastsOrdered
    <2>3. /\ topic[s].last \in PostIds /\ post[topic[s].last].topic # None
          /\ 1 <= topic[s].updated
        BY <1>1, <1>5, <1>6, <1>8, NullIsNoId DEF LastPostInTopic, PostsOf, ListedRight
    <2> QED BY <1>1, <1>3, <1>5, <2>1, <2>2, <2>3, FlaggingStays
<1>9. CASE new = forum[f]
    <2>1. LastThere(f)
        BY DEF Staying
    <2> QED BY <1>1, <1>3, <1>5, <1>6, <1>9, <2>1, FlaggingStays DEF LastThere
<1> QED BY <1>4, <1>7, <1>8, <1>9

\* A visible topic means that its forum has a last post.
LEMMA ShownMeansLast ==
    ASSUME ReaderBase, NEW f \in Forums, forums = Forums, NEW s \in ShownTopicsIn(f, topic)
    PROVE  forum[f].last # None
<1>1. s \in Topics /\ s \in LiveTopics(topic) /\ topic[s].forum = f /\ ~topic[s].hidden
    BY NullIsNoId DEF ShownTopicsIn, TopicsIn, LiveTopics
<1>2. /\ topic[s].first \in PostIds /\ post[topic[s].first].topic = s
      /\ ~post[topic[s].first].hidden /\ s # None
    BY <1>1, NullIsNoId DEF ReaderBase, Base, IInv, FirstPostMirrorsTopic, PostsOf
<1>3. topic[s].first \in ShownIn(f, post, topic)
    BY <1>1, <1>2 DEF ShownIn, ShownPosts, PostsIn
<1> QED BY <1>3 DEF ReaderBase, Base, IInv, ForumNotForgotten

LEMMA RestoringStays ==
    ASSUME ReaderBase, Staying, topicsRead' = topicsRead, forumsRead' = forumsRead,
           granted' = granted, NEW t \in LiveTopics(topic), UnhideTopic(t)
    PROVE  Staying'
<1>0. PICK f \in Forums : f = topic[t].forum
    BY Flagged DEF ReaderBase
<1>1. /\ TopicFlagged(t, f) /\ t \in Topics /\ TypeOK /\ LastPostInTopic
      /\ forums = Forums /\ ListedRight(t) /\ LastThere(f)
    BY <1>0, FlaggedDates DEF ReaderBase, Base, IInv, Staying, LiveTopics
<1> DEFINE new  == RestoreTopicToForum(t, forum[f], f)
           with == WithLast(forum[f], topic[t].last, topic[t].user, topic[t].updated)
           rest == ShownTopicsIn(f, topic)
<1>2. forum[f] \in ForumRow /\ new \in ForumRow
    BY <1>1, RestoreTopicRow DEF TypeOK
<1>3. forum'[f].last = new.last /\ forum'[f].lastCreated = new.lastCreated
    <2>1. forum' = [forum EXCEPT ![f] = Recalculate(new, f, post', topic')]
        BY <1>0 DEF UnhideTopic
    <2> HIDE DEF new
    <2>2. forum'[f] = Recalculate(new, f, post', topic')
        BY <1>1, <2>1 DEF TypeOK
    <2> QED BY <1>2, <2>2 DEF Recalculate, ForumRow
<1>4. /\ with.last = topic[t].last /\ with.lastCreated = topic[t].updated
    BY <1>2 DEF WithLast, ForumRow
<1>5. /\ topic[t].last \in PostIds /\ post[topic[t].last].topic # None
      /\ 1 <= topic[t].updated /\ topic[t].updated \in Int
      /\ forum[f].lastCreated \in Int
    BY <1>1, DatesOrdered, NullIsNoId DEF LastPostInTopic, PostsOf, LiveTopics, ListedRight
<1>6. \A s \in ShownTopicsIn(f, topic') : s \in rest \/ s = t
    BY <1>1 DEF TopicFlagged, ShownTopicsIn, TopicsIn
<1>7. \A s \in rest : /\ topic[s].updated <= forum[f].lastCreated /\ topic[s].updated \in Int
    <2>1. \A s \in rest : /\ s \in LiveTopics(topic) /\ topic[s].forum = f /\ ~topic[s].hidden
                          /\ s \in Topics
        BY NullIsNoId DEF ShownTopicsIn, TopicsIn, LiveTopics
    <2> QED BY <2>1, DatesOrdered DEF Staying, ListedRight
<1>8. CASE LastPost(f) = None
    <2>1. forum[f].last = None
        BY <1>1, <1>8 DEF LastPost, LastThere
    <2>2. rest = {}
        BY <1>1, <2>1, ShownMeansLast
    <2>3. new = with
        BY <1>8 DEF RestoreTopicToForum
    <2> HIDE DEF new, with, rest
    <2>4. \A s \in ShownTopicsIn(f, topic') : topic[s].updated <= forum'[f].lastCreated
        BY <1>3, <1>4, <1>5, <1>6, <2>2, <2>3
    <2> QED BY <1>1, <1>3, <1>4, <1>5, <2>3, <2>4, FlaggingStays
<1>9. CASE LastPost(f) # None /\ forum[f].lastCreated > 0
                              /\ forum[f].lastCreated < topic[t].updated
    <2>1. new = with
        BY <1>9 DEF RestoreTopicToForum
    <2> HIDE DEF new, with, rest
    <2>2. \A s \in ShownTopicsIn(f, topic') : topic[s].updated <= forum'[f].lastCreated
        BY <1>3, <1>4, <1>5, <1>6, <1>7, <1>9, <2>1
    <2> QED BY <1>1, <1>3, <1>4, <1>5, <2>1, <2>2, FlaggingStays
<1>10. CASE LastPost(f) # None /\ ~(forum[f].lastCreated > 0
                                    /\ forum[f].lastCreated < topic[t].updated)
    <2>1. forum[f].last # None /\ 1 <= forum[f].lastCreated
        BY <1>1, <1>10 DEF LastPost, LastThere
    <2>2. new = forum[f]
        BY <1>10 DEF RestoreTopicToForum
    <2>3. topic[t].updated <= forum[f].lastCreated
        BY <1>5, <1>10, <2>1
    <2> HIDE DEF new, with, rest
    <2>4. \A s \in ShownTopicsIn(f, topic') : topic[s].updated <= forum'[f].lastCreated
        BY <1>3, <1>6, <1>7, <2>2, <2>3
    <2> QED BY <1>1, <1>3, <2>2, <2>4, FlaggingStays DEF LastThere
<1> QED BY <1>8, <1>9, <1>10

\* The reader's own requests: only his rows are to be looked at.
LEMMA ReadingStays ==
    ASSUME Staying, UNCHANGED vars, RowsAtHome',
           \A s \in LiveTopics(topic) :
                TopicIsUnread(s)' => forumsRead'[topic[s].forum].last < topic[s].updated
    PROVE  Staying'
<1>1. /\ post' = post /\ topic' = topic /\ forum' = forum /\ forums' = forums
      /\ clock' = clock /\ granted' = granted
    BY DEF vars
<1>2. \A s \in LiveTopics(topic') : ListedRight(s)'
    BY <1>1 DEF Staying, ListedRight, LiveTopics
<1>3. (\A f \in Forums : LastThere(f)') /\ (Never({"postreply"})' => OnlyFirsts')
    BY <1>1 DEF Staying, LastThere, OnlyFirsts, Never
<1> QED BY <1>1, <1>2, <1>3 DEF Staying

LEMMA VisitStays ==
    ASSUME ReaderBase, Staying, NEW t \in Topics, ViewTopic(t)
    PROVE  Staying'
<1>0. PICK f \in Forums : f = topic[t].forum
    BY Visiting DEF VisitDone
<1>1. /\ UNCHANGED vars /\ topic' = topic /\ clock' = clock
      /\ \A s \in Topics \ {t} : topicsRead'[s] = topicsRead[s]
      /\ topicsRead'[t].forum \in {f, topicsRead[t].forum}
      /\ \A g \in Forums : forumsRead'[g].cleared = forumsRead[g].cleared
    BY <1>0, Visiting DEF VisitDone, vars
<1>2. RowsAtHome'
    BY <1>0, <1>1 DEF Staying, RowsAtHome
<1>3. \A s \in LiveTopics(topic) : /\ s \in Topics /\ topic[s].forum \in Forums
                                   /\ topic[s].updated \in Int /\ topic[s].updated <= clock
                                   /\ TopicIsUnread(s) => forumsRead[topic[s].forum].last < topic[s].updated
    BY DatesOrdered
    DEF LiveTopics, ReaderBase, Base, IInv, NoOrphans, TypeOK, Staying, ListedRight
<1>4. \A s \in Topics : topicsRead'[s] = topicsRead[s] /\ topic[s].forum \in Forums
            => (TopicIsUnread(s)' <=> TopicIsUnread(s))
    BY <1>1 DEF TopicIsUnread, NotRead, Recent
<1>5. CASE ~TrackerNeedsUpdate(t)
    <2>1. topicsRead' = topicsRead /\ forumsRead' = forumsRead
        BY <1>5, Visiting
    <2> QED BY <1>1, <1>2, <1>3, <1>4, <2>1, ReadingStays
<1>6. CASE TrackerNeedsUpdate(t)
    <2>1. VisitRecorded(t, f)
        BY <1>0, <1>6, Visiting
    <2>2. topicsRead'[t].last = clock /\ topicsRead'[t].forum # None
        BY <2>1 DEF VisitRecorded
    <2>3. t \in LiveTopics(topic) => ~TopicIsUnread(t)'
        BY <1>1, <1>3, <2>2, DatesOrdered DEF TopicIsUnread, NotRead
    <2>4. CASE ~NoUnreadTopics(f, topicsRead')
        <3>1. forumsRead' = forumsRead
            BY <2>1, <2>4 DEF VisitRecorded
        <3>2. ASSUME NEW s \in LiveTopics(topic), TopicIsUnread(s)'
              PROVE  forumsRead'[topic[s].forum].last < topic[s].updated
            <4>1. s # t /\ topicsRead'[s] = topicsRead[s]
                BY <1>1, <1>3, <2>3, <3>2
            <4> QED BY <1>3, <1>4, <3>1, <3>2, <4>1
        <3> QED BY <1>1, <1>2, <3>2, ReadingStays
    <2>5. CASE NoUnreadTopics(f, topicsRead')
        <3>1. \A g \in Forums \ {f} : forumsRead'[g] = forumsRead[g]
            BY <2>1, <2>5 DEF VisitRecorded
        <3>2. ASSUME NEW s \in LiveTopics(topic), TopicIsUnread(s)'
              PROVE  forumsRead'[topic[s].forum].last < topic[s].updated
            <4>1. s # t /\ topicsRead'[s] = topicsRead[s] /\ s \in Topics
                BY <1>1, <1>3, <2>3, <3>2
            <4>2. TopicIsUnread(s) /\ forumsRead[topic[s].forum].last < topic[s].updated
                BY <1>3, <1>4, <3>2, <4>1
            <4>3. CASE topic[s].forum = f
                <5>1. \/ ~Recent(topic[s].updated)
                      \/ topicsRead[s].last >= topic[s].updated
                      \/ forumsRead[f].last >= topic[s].updated
                    BY <2>5, <4>1, <4>3 DEF NoUnreadTopics, TopicsIn
                <5>2. topicsRead[s].last >= topic[s].updated
                    BY <1>3, <4>2, <4>3, <5>1, DatesOrdered DEF TopicIsUnread
                <5>3. /\ Past < 0 /\ 0 <= topic[s].updated /\ topic[s].updated \in Int
                      /\ Past \in Int /\ topicsRead[s].last \in Int
                    BY <4>1, DatesOrdered
                <5>4. topicsRead[s].last # Past
                    BY <5>2, <5>3
                <5>5. topicsRead[s].forum # None
                    BY <4>1, <5>4 DEF ReaderBase, Dated
                <5>6. topicsRead[s].last < topic[s].updated
                    BY <4>2, <5>5 DEF TopicIsUnread, NotRead
                <5> QED BY <5>2, <5>3, <5>6
            <4>4. CASE topic[s].forum # f
                BY <1>3, <3>1, <4>2, <4>4
            <4> QED BY <4>3, <4>4
        <3> QED BY <1>1, <1>2, <3>2, ReadingStays
    <2> QED BY <2>4, <2>5
<1> QED BY <1>5, <1>6

LEMMA MarkStays ==
    ASSUME ReaderBase, Staying, NEW f \in Forums, MarkForum(f)
    PROVE  Staying'
<1>1. /\ UNCHANGED vars /\ forumsRead'[f].cleared = clock
      /\ \A g \in Forums \ {f} : forumsRead'[g] = forumsRead[g]
      /\ \A s \in Topics : \/ topicsRead[s].forum # f /\ topicsRead'[s] = topicsRead[s]
                           \/ topicsRead[s].forum = f /\ topicsRead'[s].forum = None
    BY MarkingForum
<1>2. topic' = topic /\ clock' = clock
    BY <1>1 DEF vars
<1>3. RowsAtHome'
    BY <1>1, <1>2 DEF Staying, RowsAtHome
<1>4. ASSUME NEW s \in LiveTopics(topic), TopicIsUnread(s)'
      PROVE  forumsRead'[topic[s].forum].last < topic[s].updated
    <2>1. /\ s \in Topics /\ topic[s].forum \in Forums /\ topic[s].forum # None
          /\ topic[s].updated \in Int /\ topic[s].updated <= clock /\ clock \in Int
          /\ TopicIsUnread(s) => forumsRead[topic[s].forum].last < topic[s].updated
          /\ topicsRead[s].forum \in {None, topic[s].forum}
        BY DatesOrdered, NullIsNoId
        DEF LiveTopics, ReaderBase, Base, IInv, NoOrphans, TypeOK, Staying, ListedRight,
            RowsAtHome
    <2>2. CASE topic[s].forum = f
        <3>1. topicsRead'[s].forum = None
            BY <1>1, <2>1, <2>2
        <3>2. clock < topic[s].updated
            BY <1>1, <1>2, <1>4, <2>2, <3>1 DEF TopicIsUnread, NotRead
        <3> QED BY <2>1, <3>2
    <2>3. CASE topic[s].forum # f
        <3>1. topicsRead'[s] = topicsRead[s] /\ forumsRead'[topic[s].forum] = forumsRead[topic[s].forum]
            BY <1>1, <2>1, <2>3, NullIsNoId
        <3>2. TopicIsUnread(s)
            BY <1>2, <1>4, <3>1 DEF TopicIsUnread, NotRead, Recent
        <3> QED BY <2>1, <3>1, <3>2
    <2> QED BY <2>2, <2>3
<1> QED BY <1>1, <1>3, <1>4, ReadingStays

LEMMA StayingStep ==
    ASSUME ReaderBase, Staying, StayBoard, [TrackerNext]_<<vars, tracker>>
    PROVE  Staying'
<1>1. ASSUME MarkAll PROVE Staying'
    <2>1. /\ UNCHANGED vars /\ forums = Forums
          /\ \A g \in Forums : forumsRead'[g].cleared = clock
          /\ \A s \in Topics : topicsRead'[s].forum = None
        BY <1>1, MarkingAll DEF Staying
    <2>2. topic' = topic /\ clock' = clock
        BY <2>1 DEF vars
    <2>3. ASSUME NEW s \in LiveTopics(topic) PROVE ~TopicIsUnread(s)'
        <3>1. /\ s \in Topics /\ topic[s].forum \in Forums
              /\ topic[s].updated \in Int /\ topic[s].updated <= clock /\ clock \in Int
            BY DatesOrdered
            DEF LiveTopics, ReaderBase, Base, IInv, NoOrphans, TypeOK, Staying, ListedRight
        <3>2. ~(clock < topic[s].updated)
            BY <3>1
        <3> QED BY <2>1, <2>2, <3>1, <3>2 DEF TopicIsUnread, NotRead
    <2> QED BY <2>1, <2>3, ReadingStays DEF RowsAtHome
<1>2. ASSUME Untouched, topicsRead' = topicsRead \/ "move" \in granted PROVE Staying'
    <2>1. [Next]_vars /\ forumsRead' = forumsRead /\ topicsRead' = topicsRead
        BY <1>2 DEF Untouched, StayBoard, Never
    <2>2. granted' = granted
        BY <2>1, GrantedStays DEF ReaderBase, Base
    <2>3. CASE UNCHANGED <<post, topic, forum, forums, clock>>
        BY <2>1, <2>2, <2>3
        DEF Staying, RowsAtHome, ListedRight, LastThere, OnlyFirsts, TopicIsUnread, NotRead,
            Recent, Never
    <2>4. CASE \E t \in Topics, p \in PostIds, u \in Users, f \in Forums : PostAdded(p, t, u, f)
        BY <2>1, <2>2, <2>4, AddingStays
    <2>5. CASE \E t \in LiveTopics(topic) : /\ HideTopic(t) \/ UnhideTopic(t)
                                            /\ Never({"postreply"})
        BY <2>1, <2>2, <2>5, HidingStays, RestoringStays
    <2> QED BY <2>1, <2>3, <2>4, <2>5, StayingOnly
<1> QED BY <1>1, <1>2, TrackerSteps, VisitStays, MarkStays

\* A forum that is shown as read has no topic that is shown as unread, for any number of
\* forums, topics and posts, where nothing is moved or deleted and no single reply hidden:
\* reading the last unread topic, marking, and hiding a topic never forget another one.
THEOREM ReadForumsHaveNoUnread == TrackerSpec => []ReadForumHasNoUnread
<1> DEFINE Kept == ReaderBase /\ (StayBoard => Staying) /\ TopicsCounted
<1>1. TrackerInit => Kept
    <2> SUFFICES ASSUME TrackerInit PROVE Staying /\ TopicsCounted
        BY ReaderInit
    <2>1. /\ \A t \in Topics : topic[t].forum = None
          /\ \A p \in PostIds : post[p].topic = None
          /\ \A f \in Forums : forum[f].last = None
          /\ forums = Forums
        BY DEF TrackerInit, Init, BlankTopic, BlankPost, BlankForum
    <2>2. RowsAtHome
        BY DEF TrackerInit, RowsAtHome, NoTopicsRead
    <2>3. TopicsCounted
        <3>1. \A f \in Forums : ShownTopicsIn(f, topic) = {} /\ forum[f].topics = 0
            BY <2>1, NullIsNoId DEF ShownTopicsIn, TopicsIn, TrackerInit, Init, BlankForum
        <3> QED BY <3>1, FS_EmptySet DEF TopicsCounted, AllTopicsCounted
    <2> QED BY <2>1, <2>2, <2>3 DEF Staying, LiveTopics, LastThere, OnlyFirsts
<1>2. Kept /\ [TrackerNext]_<<vars, tracker>> => Kept'
    <2> SUFFICES ASSUME Kept, [TrackerNext]_<<vars, tracker>> PROVE Kept'
        OBVIOUS
    <2>1. ReaderBase' /\ [Next]_vars /\ granted' = granted
        BY ReaderStep
    <2>2. StayBoard' => Staying'
        BY <2>1, StayingStep DEF StayBoard, Never
    <2>3. TopicsCounted'
        BY <2>1, TopicsCountedStep DEF TopicsCounted, Never, ReaderBase
    <2> QED BY <2>1, <2>2, <2>3
<1>3. Kept => ReadForumHasNoUnread
    <2> SUFFICES ASSUME ReaderBase, Staying, StayBoard, TopicsCounted,
                        NEW f \in forums, ~ForumIsUnread(f),
                        NEW t \in ShownTopicsIn(f, topic), TopicIsUnread(t)
                 PROVE  FALSE
        BY DEF ReadForumHasNoUnread, StayBoard
    <2>1. /\ t \in Topics /\ t \in LiveTopics(topic) /\ topic[t].forum = f
          /\ ~topic[t].hidden /\ f \in Forums /\ forums = Forums
        BY NullIsNoId DEF ShownTopicsIn, TopicsIn, LiveTopics, Staying
    <2>2. /\ topic[t].updated <= forum[f].lastCreated
          /\ forumsRead[f].last < topic[t].updated
          /\ Recent(topic[t].updated)
        BY <2>1 DEF Staying, ListedRight, TopicIsUnread
    <2>3. /\ topic[t].updated \in Int /\ forum[f].lastCreated \in Int /\ clock \in Int
          /\ forumsRead[f].last \in Int
        BY <2>1, DatesOrdered
    <2>4. Recent(forum[f].lastCreated) /\ forumsRead[f].last < forum[f].lastCreated
        BY <2>2, <2>3, TrackerAssumption DEF Recent
    <2>5. forum[f].last # None
        BY <2>1, ShownMeansLast
    <2>6. forum[f].topics # 0
        <3>1. forum[f].topics = Cardinality(ShownTopicsIn(f, topic))
            BY <2>1 DEF TopicsCounted, AllTopicsCounted, StayBoard, Never
        <3>2. ShownTopicsIn(f, topic) \subseteq Topics
            BY DEF ShownTopicsIn, TopicsIn
        <3>3. IsFiniteSet(ShownTopicsIn(f, topic))
            BY <3>2, FiniteAssumption, FS_Subset
        <3> QED BY <3>1, <3>3, FS_EmptySet
    <2> QED BY <2>4, <2>5, <2>6 DEF ForumIsUnread
<1> QED BY <1>1, <1>2, <1>3, PTL DEF TrackerSpec
=============================================================================
