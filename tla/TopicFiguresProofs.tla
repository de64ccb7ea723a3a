------------------------ MODULE TopicFiguresProofs ------------------------
(***************************************************************************)
(* Theorems of TopicWrites, for any number of workers, requests and rows:  *)
(* where topics stay in their place, requests that overlap lose            *)
(* increments, but none makes a figure run ahead of what it counts; one    *)
(* worker that may die keeps the counts of posts exact; and the commits of *)
(* one that does not die are requests of ForumContent.                     *)
(***************************************************************************)
EXTENDS TopicWritesProofs

By(u, P) == {p \in PostIds : P[p].topic # None /\ P[p].user = u}
Closed(f, T) == {t \in Topics : T[t].forum = f /\ T[t].first # None}

NothingHidden ==
    /\ \A p \in PostIds : ~post[p].hidden
    /\ \A t \in Topics : ~topic[t].hidden

\* The figures are behind what they count ...
FiguresBehind ==
    /\ \A u \in Users : tally[u] <= Cardinality(By(u, post))
    /\ \A t \in Topics : topic[t].posts <= Cardinality(PostsOf(t, post))
    /\ \A f \in Forums : forum[f].posts <= Cardinality(PostsIn(f, post, topic))
    /\ \A f \in Forums : forum[f].topics <= Cardinality(Closed(f, topic))

\* ... and so are those a request has loaded.
LoadedLess(r, P, T) ==
    /\ r.stage = "loaded" =>
        /\ r.tally <= Cardinality(By(r.user, P))
        /\ r.posts <= Cardinality(PostsOf(r.topic, P))
        /\ r.row.posts <= Cardinality(PostsIn(r.home, P, T))
    /\ r.stage = "counting" => r.row.topics <= Cardinality(Closed(r.forum, T))

LoadedBehind == \A s \in Slots : LoadedLess(req[s], post, topic)

Creates(r) == r.new /\ r.stage \in {"opened", "loaded", "saved", "counting"}

\* A topic that is being created has one request that creates it, and no first post.
OneCreator ==
    /\ \A s \in Slots : Creates(req[s]) =>
        topic[req[s].topic].forum = req[s].forum /\ topic[req[s].topic].first = None
    /\ \A s, o \in Slots : Creates(req[s]) /\ Creates(req[o]) /\ s # o
                           => req[s].topic # req[o].topic

Behind == NothingHidden /\ FiguresBehind /\ LoadedBehind /\ OneCreator /\ NoMoves /\ AtHome

-----------------------------------------------------------------------------
(* Counting.                                                               *)

LEMMA CountsGrow ==
    ASSUME NEW U, IsFiniteSet(U), NEW S, NEW T, S \subseteq T, T \subseteq U
    PROVE  /\ Cardinality(S) \in Nat /\ Cardinality(T) \in Nat
           /\ Cardinality(S) <= Cardinality(T)
           /\ \A x \in T \ S : Cardinality(S) + 1 <= Cardinality(T)
<1>1. IsFiniteSet(T) /\ IsFiniteSet(S)
    BY FS_Subset
<1>2. /\ Cardinality(S) \in Nat /\ Cardinality(T) \in Nat
      /\ Cardinality(S) <= Cardinality(T)
    BY <1>1, FS_CardinalityType, FS_Subset
<1>3. ASSUME NEW x \in T \ S PROVE Cardinality(S) + 1 <= Cardinality(T)
    <2>1. S \cup {x} \subseteq T /\ Cardinality(S \cup {x}) = Cardinality(S) + 1
        BY <1>1, <1>3, FS_AddElement
    <2>2. Cardinality(S \cup {x}) <= Cardinality(T)
        BY <1>1, <2>1, FS_Subset
    <2> QED BY <2>1, <2>2
<1> QED BY <1>2, <1>3

LEMMA Counted ==
    ASSUME NEW P, NEW T
    PROVE  /\ \A u : By(u, P) \in SUBSET PostIds
           /\ \A t : PostsOf(t, P) \in SUBSET PostIds
           /\ \A f : PostsIn(f, P, T) \in SUBSET PostIds
           /\ \A f : Closed(f, T) \in SUBSET Topics
BY DEF By, Closed, PostsOf, PostsIn

LEMMA PostsGrow ==
    ASSUME NEW S \in SUBSET PostIds, NEW T \in SUBSET PostIds, S \subseteq T
    PROVE  /\ Cardinality(S) \in Nat /\ Cardinality(T) \in Nat
           /\ Cardinality(S) <= Cardinality(T)
           /\ \A x \in T \ S : Cardinality(S) + 1 <= Cardinality(T)
BY PostsFinite, CountsGrow

LEMMA TopicsGrow ==
    ASSUME NEW S \in SUBSET Topics, NEW T \in SUBSET Topics, S \subseteq T
    PROVE  /\ Cardinality(S) \in Nat /\ Cardinality(T) \in Nat
           /\ Cardinality(S) <= Cardinality(T)
           /\ \A x \in T \ S : Cardinality(S) + 1 <= Cardinality(T)
BY FiniteAssumption, CountsGrow

\* Nothing that is counted goes away.
AllGrow ==
    /\ \A u : By(u, post) \subseteq By(u, post')
    /\ \A t \in Topics : PostsOf(t, post) \subseteq PostsOf(t, post')
    /\ \A f \in Forums : PostsIn(f, post, topic) \subseteq PostsIn(f, post', topic')
    /\ \A f \in Forums : Closed(f, topic) \subseteq Closed(f, topic')

LEMMA CountsOfAll ==
    ASSUME AllGrow
    PROVE  /\ \A u : /\ Cardinality(By(u, post)) \in Nat
                     /\ Cardinality(By(u, post')) \in Nat
                     /\ Cardinality(By(u, post)) <= Cardinality(By(u, post'))
           /\ \A t \in Topics :
                /\ Cardinality(PostsOf(t, post)) \in Nat
                /\ Cardinality(PostsOf(t, post')) \in Nat
                /\ Cardinality(PostsOf(t, post)) <= Cardinality(PostsOf(t, post'))
           /\ \A f \in Forums :
                /\ Cardinality(PostsIn(f, post, topic)) \in Nat
                /\ Cardinality(PostsIn(f, post', topic')) \in Nat
                /\ Cardinality(PostsIn(f, post, topic)) <= Cardinality(PostsIn(f, post', topic'))
           /\ \A f \in Forums :
                /\ Cardinality(Closed(f, topic)) \in Nat
                /\ Cardinality(Closed(f, topic')) \in Nat
                /\ Cardinality(Closed(f, topic)) <= Cardinality(Closed(f, topic'))
BY Counted, PostsGrow, TopicsGrow DEF AllGrow

\* What the other requests have loaded stays behind.
LEMMA OthersStayBehind ==
    ASSUME WInv, AllGrow, LoadedBehind, NEW s \in Slots,
           \A o \in Slots \ {s} : req'[o] = req[o],
           LoadedLess(req'[s], post', topic')
    PROVE  LoadedBehind'
<1> SUFFICES ASSUME NEW o \in Slots, o # s PROVE LoadedLess(req[o], post', topic')
    BY DEF LoadedBehind
<1> DEFINE r == req[o]
<1>1. LoadedLess(r, post, topic) /\ r \in Request /\ RequestSound(r)
    BY Tables DEF LoadedBehind, WInv, RequestsSound
<1> HIDE DEF r
<1>2. /\ r.tally \in Int /\ r.posts \in Int /\ r.row.posts \in Int /\ r.row.topics \in Int
    BY <1>1 DEF Request, ForumRow
<1>3. CASE r.stage = "loaded"
    <2>1. r.topic \in Topics /\ r.home \in Forums
        BY <1>1, <1>3 DEF RequestSound
    <2> QED BY <1>1, <1>2, <1>3, <2>1, CountsOfAll DEF LoadedLess, r
<1>4. CASE r.stage = "counting"
    <2>1. r.forum \in Forums
        BY <1>1, <1>4 DEF RequestSound
    <2> QED BY <1>1, <1>2, <1>4, <2>1, CountsOfAll DEF LoadedLess, r
<1> QED BY <1>3, <1>4 DEF LoadedLess, r

\* A request that starts to create has a topic of its own; the others keep theirs.
LEMMA CreatorsApart ==
    ASSUME WInv, OneCreator, NEW s \in Slots,
           \A o \in Slots \ {s} : req'[o] = req[o],
           \A o \in Slots \ {s} : Creates(req[o]) =>
             /\ topic'[req[o].topic].forum = topic[req[o].topic].forum
             /\ topic'[req[o].topic].first = topic[req[o].topic].first
             /\ Creates(req'[s]) => req'[s].topic # req[o].topic,
           Creates(req'[s]) => /\ topic'[req'[s].topic].forum = req'[s].forum
                               /\ topic'[req'[s].topic].first = None
    PROVE  OneCreator'
BY DEF OneCreator

-----------------------------------------------------------------------------
(* The steps.                                                              *)

\* A step that only moves a request on.
LEMMA QuietStep ==
    ASSUME WInv, Behind, NEW s \in Slots,
           UNCHANGED <<post, topic, forum, tally>>,
           \A o \in Slots \ {s} : req'[o] = req[o],
           LoadedLess(req'[s], post, topic),
           Creates(req'[s]) => /\ Creates(req[s]) /\ req'[s].topic = req[s].topic
                               /\ req'[s].forum = req[s].forum,
           req'[s].stage \notin {"moving", "moved", "settled"},
           req'[s].stage = "loaded" => topic[req'[s].topic].forum = req'[s].home
    PROVE  Behind'
<1>1. AllGrow
    BY DEF AllGrow
<1>2. LoadedBehind'
    BY <1>1, OthersStayBehind DEF Behind
<1>3. OneCreator'
    BY CreatorsApart DEF Behind, OneCreator
<1>4. NothingHidden' /\ FiguresBehind' /\ NoMoves'
    BY DEF Behind, NothingHidden, FiguresBehind, NoMoves
<1>5. AtHome'
    BY HomesStay DEF Behind
<1> QED BY <1>2, <1>3, <1>4, <1>5 DEF Behind

LEMMA LoadedNow ==
    ASSUME WInv, FiguresBehind, NEW r \in Request, r.topic \in Topics, r.user \in Users,
           ~Gone(r.topic)
    PROVE  LoadedLess(Loaded(r), post, topic)
<1> DEFINE x == Loaded(r)
<1>1. /\ x.stage = "loaded" /\ x.topic = r.topic /\ x.user = r.user
      /\ x.home = topic[r.topic].forum /\ x.posts = topic[r.topic].posts
      /\ x.tally = tally[r.user] /\ x.row = forum[topic[r.topic].forum]
    BY DEF Loaded, Request
<1>2. topic[r.topic].forum \in Forums
    BY Tables DEF Gone, TopicRow
<1> HIDE DEF x
<1>3. LoadedLess(x, post, topic)
    BY <1>1, <1>2 DEF LoadedLess, FiguresBehind
<1> QED BY <1>3 DEF x

LEMMA LoadNewBehind ==
    ASSUME WInv, Behind, NEW s \in Slots, LoadNew(s)
    PROVE  Behind'
<1> DEFINE r == req[s]
<1>1. /\ r \in Request /\ r.stage = "opened" /\ r.new /\ r.topic \in Topics
      /\ r.user \in Users
    BY Tables DEF LoadNew, Is, WInv, RequestsSound, RequestSound
<1>2. CASE Gone(r.topic)
    <2>1. UNCHANGED <<post, topic, forum, tally>> /\ req' = [req EXCEPT ![s] = Idle]
        BY <1>2 DEF LoadNew, Fail, vars
    <2>2. req'[s].stage = "idle" /\ \A o \in Slots \ {s} : req'[o] = req[o]
        BY <2>1, Tables DEF Idle
    <2> QED BY <2>1, <2>2, QuietStep DEF LoadedLess, Creates
<1>3. CASE ~Gone(r.topic)
    <2>1. /\ UNCHANGED <<post, topic, forum, tally>>
          /\ req' = [req EXCEPT ![s] = Loaded(r)]
        BY <1>3 DEF LoadNew
    <2>2. req'[s] = Loaded(r) /\ \A o \in Slots \ {s} : req'[o] = req[o]
        BY <2>1, Tables
    <2>3. /\ Loaded(r).stage = "loaded" /\ Loaded(r).topic = r.topic
          /\ Loaded(r).forum = r.forum /\ Loaded(r).home = topic[r.topic].forum
        BY <1>1 DEF Loaded, Request
    <2>4. LoadedLess(req'[s], post, topic)
        BY <1>1, <1>3, <2>2, LoadedNow DEF Behind
    <2>5. Creates(r)
        BY <1>1 DEF Creates
    <2> QED BY <2>1, <2>2, <2>3, <2>4, <2>5, QuietStep
<1> QED BY <1>2, <1>3

LEMMA LoadReplyBehind ==
    ASSUME WInv, Behind, NEW s \in Slots, NEW u \in Users, NEW t \in Topics,
           LoadReply(s, u, t)
    PROVE  Behind'
<1> DEFINE r == [Idle EXCEPT !.user = u, !.topic = t]
<1>1. /\ ~Gone(t) /\ UNCHANGED <<post, topic, forum, tally>>
      /\ req' = [req EXCEPT ![s] = Loaded(r)]
    BY DEF LoadReply
<1>2. r \in Request
    <2>1. Idle \in Request
        BY IdleTyped
    <2> QED BY <2>1 DEF Request
<1>3. req'[s] = Loaded(r) /\ \A o \in Slots \ {s} : req'[o] = req[o]
    BY <1>1, Tables
<1>4. /\ Loaded(r).stage = "loaded" /\ Loaded(r).topic = t /\ ~Loaded(r).new
      /\ Loaded(r).home = topic[t].forum /\ r.topic = t /\ r.user = u
    BY DEF Loaded, Idle
<1> HIDE DEF r
<1>5. LoadedLess(req'[s], post, topic)
    BY <1>1, <1>2, <1>3, <1>4, LoadedNow DEF Behind
<1> QED BY <1>1, <1>3, <1>4, <1>5, QuietStep DEF Creates

LEMMA LoadForumBehind ==
    ASSUME WInv, Behind, NEW s \in Slots, LoadForum(s)
    PROVE  Behind'
<1> DEFINE r == req[s]
<1>1. /\ r \in Request /\ r.stage = "saved" /\ r.new /\ r.forum \in Forums
    BY Tables DEF LoadForum, Is, WInv, RequestsSound, RequestSound
<1>2. /\ UNCHANGED <<post, topic, forum, tally>>
      /\ req' = [req EXCEPT ![s].stage = "counting", ![s].row = forum[r.forum]]
    BY DEF LoadForum, vars
<1>3. \A o \in Slots \ {s} : req'[o] = req[o]
    BY <1>2, Tables
<1>4. /\ req'[s].stage = "counting" /\ req'[s].row = forum[r.forum]
      /\ req'[s].forum = r.forum /\ req'[s].topic = r.topic
    BY <1>1, <1>2, Tables DEF Request
<1>5. LoadedLess(req'[s], post, topic)
    BY <1>1, <1>4 DEF LoadedLess, Behind, FiguresBehind
<1>6. Creates(r)
    BY <1>1 DEF Creates
<1> QED BY <1>2, <1>3, <1>4, <1>5, <1>6, QuietStep

\* A request that ends without a trace.
LEMMA EndsBehind ==
    ASSUME WInv, Behind, NEW s \in Slots, req' = [req EXCEPT ![s] = Idle],
           UNCHANGED <<post, topic, forum, tally>>
    PROVE  Behind'
<1>1. req'[s].stage = "idle" /\ \A o \in Slots \ {s} : req'[o] = req[o]
    BY Tables DEF Idle
<1> QED BY <1>1, QuietStep DEF LoadedLess, Creates

\* A topic opens, without a post.
LEMMA OpenTopicBehind ==
    ASSUME WInv, Behind, NEW s \in Slots, NEW u \in Users, NEW f \in Forums,
           OpenTopic(s, u, f)
    PROVE  Behind'
<1>1. PICK t \in Topics \ LiveTopics(topic) :
        /\ topic' = [topic EXCEPT ![t] = NewRow(u, f)]
        /\ req' = [req EXCEPT ![s] = [Idle EXCEPT !.stage = "opened", !.new = TRUE,
                                        !.user = u, !.topic = t, !.forum = f]]
    BY DEF OpenTopic
<1>2. UNCHANGED <<post, forum, tally>>
    BY DEF OpenTopic
<1>3. topic[t].forum = None
    BY DEF LiveTopics
<1>4. /\ topic'[t] = NewRow(u, f) /\ \A o \in Topics \ {t} : topic'[o] = topic[o]
    BY <1>1, Tables
<1>5. /\ NewRow(u, f).forum = f /\ NewRow(u, f).first = None
      /\ NewRow(u, f).posts = 0 /\ ~NewRow(u, f).hidden
    BY DEF NewRow, BlankTopic
<1>6. /\ req'[s].stage = "opened" /\ req'[s].topic = t /\ req'[s].forum = f
      /\ \A o \in Slots \ {s} : req'[o] = req[o]
    BY <1>1, Tables DEF Idle
<1>7. ASSUME NEW q \in PostIds, post[q].topic # None
      PROVE  topic'[post[q].topic].forum = topic[post[q].topic].forum
    <2>1. post[q].topic \in Topics /\ ~Gone(post[q].topic)
        BY <1>7, Tables DEF PostRow, WInv, PostsHaveTopics
    <2> QED BY <1>3, <1>4, <2>1 DEF Gone
<1>8. \A g : PostsIn(g, post', topic') = PostsIn(g, post, topic)
    BY <1>2, <1>7 DEF PostsIn
<1>9. \A g \in Forums : Closed(g, topic') = Closed(g, topic)
    BY <1>3, <1>4, <1>5, NullIsNoId DEF Closed
<1>10. AllGrow
    BY <1>2, <1>8, <1>9 DEF AllGrow
<1>11. LoadedBehind'
    BY <1>6, <1>10, OthersStayBehind DEF Behind, LoadedLess
<1>12. OneCreator'
    <2>1. ASSUME NEW o \in Slots \ {s}, Creates(req[o])
          PROVE  req[o].topic \in Topics \ {t}
        <3>1. req[o].topic \in Topics /\ req[o].forum \in Forums
            BY <2>1 DEF Creates, WInv, RequestsSound, RequestSound
        <3>2. topic[req[o].topic].forum = req[o].forum
            BY <2>1 DEF Behind, OneCreator
        <3> QED BY <1>3, <3>1, <3>2, NullIsNoId
    <2>2. \A o \in Slots \ {s} : Creates(req[o]) =>
             /\ topic'[req[o].topic].forum = topic[req[o].topic].forum
             /\ topic'[req[o].topic].first = topic[req[o].topic].first
             /\ Creates(req'[s]) => req'[s].topic # req[o].topic
        BY <1>4, <1>6, <2>1
    <2>3. topic'[req'[s].topic].forum = req'[s].forum /\ topic'[req'[s].topic].first = None
        BY <1>4, <1>5, <1>6
    <2> QED BY <1>6, <2>2, <2>3, CreatorsApart DEF Behind
<1>13. NothingHidden'
    BY <1>2, <1>4, <1>5 DEF Behind, NothingHidden
<1>14. FiguresBehind'
    <2>1. ASSUME NEW o \in Topics PROVE topic'[o].posts <= Cardinality(PostsOf(o, post'))
        <3>1. CASE o = t
            <4>1. Cardinality(PostsOf(t, post)) \in Nat
                BY <1>10, CountsOfAll
            <4> QED BY <1>2, <1>4, <1>5, <3>1, <4>1
        <3>2. CASE o # t
            BY <1>2, <1>4, <3>2 DEF Behind, FiguresBehind
        <3> QED BY <3>1, <3>2
    <2> QED BY <1>2, <1>8, <1>9, <2>1 DEF Behind, FiguresBehind
<1>15. NoMoves'
    BY <1>6 DEF Behind, NoMoves
<1>16. AtHome'
    <2>1. \A o \in Topics : ~Gone(o) => topic'[o].forum = topic[o].forum
        BY <1>3, <1>4 DEF Gone
    <2> QED BY <1>6, <2>1, HomesStay DEF Behind
<1> QED BY <1>11, <1>12, <1>13, <1>14, <1>15, <1>16 DEF Behind

\* What the commit of a post writes.
LEMMA SavedFigures ==
    ASSUME WInv, NEW s \in Slots, Save(s), ~Gone(req[s].topic)
    PROVE  LET r == req[s] IN
           \E p \in PostIds :
                /\ post[p].topic = None /\ post'[p].topic = r.topic
                /\ post'[p].user = r.user /\ ~post'[p].hidden
                /\ \A q \in PostIds \ {p} : post'[q] = post[q]
                /\ topic'[r.topic].forum = topic[r.topic].forum
                /\ topic'[r.topic].first = topic[r.topic].first
                /\ topic'[r.topic].hidden = topic[r.topic].hidden
                /\ topic'[r.topic].posts = r.posts + 1
                /\ \A t \in Topics \ {r.topic} : topic'[t] = topic[t]
                /\ forum'[r.home].posts = r.row.posts + 1
                /\ forum'[r.home].topics = forum[r.home].topics
                /\ \A f \in Forums \ {r.home} : forum'[f] = forum[f]
                /\ tally'[r.user] = r.tally + 1
                /\ \A u \in Users \ {r.user} : tally'[u] = tally[u]
                /\ \/ /\ r.new /\ req'[s].stage = "saved"
                      /\ req'[s].forum = r.forum /\ req'[s].topic = r.topic
                   \/ req'[s].stage = "idle"
                /\ \A o \in Slots \ {s} : req'[o] = req[o]
<1> DEFINE r == req[s]
<1>1. /\ r \in Request /\ r.topic \in Topics /\ r.home \in Forums /\ r.user \in Users
      /\ tally' = [tally EXCEPT ![r.user] = SavedTally(r)]
    BY SaveFacts DEF Save, Is
<1>2. PICK p \in PostIds :
        /\ NextId(p)
        /\ post' = [post EXCEPT ![p] = [topic |-> r.topic, user |-> r.user,
                                        hidden |-> FALSE, created |-> r.time]]
        /\ topic' = [topic EXCEPT ![r.topic] = SavedTopic(topic[r.topic], r, p)]
        /\ forum' = [forum EXCEPT ![r.home] = SavedForum(forum[r.home], r, p)]
        /\ req' = [req EXCEPT ![s] = IF r.new
                     THEN [r EXCEPT !.stage = "saved", !.post = p] ELSE Idle]
    BY DEF Save
<1> HIDE DEF r
<1>3. post[p].topic = None
    BY <1>2, NextIdIsFresh
<1>4. /\ post'[p].topic = r.topic /\ post'[p].user = r.user /\ ~post'[p].hidden
      /\ \A q \in PostIds \ {p} : post'[q] = post[q]
    BY <1>2, Tables
<1>5. /\ topic'[r.topic] = SavedTopic(topic[r.topic], r, p)
      /\ \A t \in Topics \ {r.topic} : topic'[t] = topic[t]
    BY <1>1, <1>2, Tables
<1>6. /\ topic'[r.topic].forum = topic[r.topic].forum
      /\ topic'[r.topic].first = topic[r.topic].first
      /\ topic'[r.topic].hidden = topic[r.topic].hidden
      /\ topic'[r.topic].posts = r.posts + 1
    <2>1. topic[r.topic] \in TopicRow
        BY <1>1, Tables
    <2> QED BY <1>5, <2>1 DEF SavedTopic, TopicRow
<1>7. /\ forum'[r.home] = SavedForum(forum[r.home], r, p)
      /\ \A f \in Forums \ {r.home} : forum'[f] = forum[f]
    BY <1>1, <1>2, Tables
<1>8. forum'[r.home].posts = r.row.posts + 1 /\ forum'[r.home].topics = forum[r.home].topics
    <2>1. forum[r.home] \in ForumRow
        BY <1>1, Tables
    <2> QED BY <1>7, <2>1 DEF SavedForum, ForumRow
<1>9. tally'[r.user] = r.tally + 1 /\ \A u \in Users \ {r.user} : tally'[u] = tally[u]
    BY <1>1 DEF SavedTally, WInv, WritesTypeOK, TypeOK
<1>10. /\ \/ /\ r.new /\ req'[s].stage = "saved"
             /\ req'[s].forum = r.forum /\ req'[s].topic = r.topic
          \/ req'[s].stage = "idle"
       /\ \A o \in Slots \ {s} : req'[o] = req[o]
    <2>1. \A o \in Slots \ {s} : req'[o] = req[o]
        BY <1>2, Tables
    <2>2. CASE r.new
        <3>1. req'[s] = [r EXCEPT !.stage = "saved", !.post = p]
            BY <1>2, <2>2, Tables
        <3> QED BY <1>1, <2>1, <2>2, <3>1 DEF Request
    <2>3. CASE ~r.new
        <3>1. req'[s] = Idle
            BY <1>2, <2>3, Tables
        <3> QED BY <2>1, <3>1 DEF Idle
    <2> QED BY <2>2, <2>3
<1> QED BY <1>3, <1>4, <1>5, <1>6, <1>7, <1>8, <1>9, <1>10 DEF r

LEMMA SaveBehind ==
    ASSUME WInv, Behind, NEW s \in Slots, Save(s), ~Gone(req[s].topic)
    PROVE  Behind'
<1> DEFINE r == req[s]
           t == r.topic
           h == r.home
           u == r.user
<1>1. /\ r \in Request /\ r.stage = "loaded" /\ t \in Topics /\ h \in Forums /\ u \in Users
    BY SaveFacts DEF Save, Is
<1>2. PICK p \in PostIds :
        /\ post[p].topic = None /\ post'[p].topic = t
        /\ post'[p].user = u /\ ~post'[p].hidden
        /\ \A q \in PostIds \ {p} : post'[q] = post[q]
        /\ topic'[t].forum = topic[t].forum
        /\ topic'[t].first = topic[t].first
        /\ topic'[t].hidden = topic[t].hidden
        /\ topic'[t].posts = r.posts + 1
        /\ \A o \in Topics \ {t} : topic'[o] = topic[o]
        /\ forum'[h].posts = r.row.posts + 1
        /\ forum'[h].topics = forum[h].topics
        /\ \A f \in Forums \ {h} : forum'[f] = forum[f]
        /\ tally'[u] = r.tally + 1
        /\ \A o \in Users \ {u} : tally'[o] = tally[o]
        /\ \/ /\ r.new /\ req'[s].stage = "saved"
              /\ req'[s].forum = r.forum /\ req'[s].topic = t
           \/ req'[s].stage = "idle"
        /\ \A o \in Slots \ {s} : req'[o] = req[o]
    BY SavedFigures
<1>3. topic[t].forum = h /\ LoadedLess(r, post, topic)
    BY <1>1 DEF Behind, AtHome, LoadedBehind
<1>4. r.tally \in Int /\ r.posts \in Int /\ r.row.posts \in Int
    BY <1>1 DEF Request, ForumRow
<1>5. /\ r.tally <= Cardinality(By(u, post)) /\ r.posts <= Cardinality(PostsOf(t, post))
      /\ r.row.posts <= Cardinality(PostsIn(h, post, topic))
    BY <1>1, <1>3 DEF LoadedLess
<1>6. Creates(req'[s]) => Creates(r) /\ req'[s].forum = r.forum /\ req'[s].topic = t
    BY <1>1, <1>2 DEF Creates
<1> HIDE DEF r, t, h, u
<1>7. /\ \A o \in Topics : topic'[o].forum = topic[o].forum
      /\ \A o \in Topics : topic'[o].first = topic[o].first
    BY <1>2
<1>8. \A q \in PostIds : post[q].topic \in Topics \cup {None}
    BY Tables DEF PostRow
<1>9. t # None
    BY <1>1, NullIsNoId
<1>10. \A o : By(o, post) \subseteq By(o, post')
    BY <1>2 DEF By
<1>11. \A o \in Topics : PostsOf(o, post) \subseteq PostsOf(o, post')
    BY <1>2, NullIsNoId DEF PostsOf
<1>12. \A f : PostsIn(f, post, topic) \subseteq PostsIn(f, post', topic')
    BY <1>2, <1>7, <1>8 DEF PostsIn
<1>13. \A f : Closed(f, topic) = Closed(f, topic')
    BY <1>7 DEF Closed
<1>14. AllGrow
    BY <1>10, <1>11, <1>12, <1>13 DEF AllGrow
<1>15. /\ p \in By(u, post') \ By(u, post)
       /\ p \in PostsOf(t, post') \ PostsOf(t, post)
       /\ p \in PostsIn(h, post', topic') \ PostsIn(h, post, topic)
    BY <1>1, <1>2, <1>3, <1>7, <1>9 DEF By, PostsOf, PostsIn
<1>16. tally'[u] <= Cardinality(By(u, post'))
    <2>1. /\ Cardinality(By(u, post)) \in Nat /\ Cardinality(By(u, post')) \in Nat
          /\ Cardinality(By(u, post)) + 1 <= Cardinality(By(u, post'))
        BY <1>10, <1>15, Counted, PostsGrow
    <2> QED BY <1>2, <1>4, <1>5, <2>1
<1>17. topic'[t].posts <= Cardinality(PostsOf(t, post'))
    <2>1. /\ Cardinality(PostsOf(t, post)) \in Nat /\ Cardinality(PostsOf(t, post')) \in Nat
          /\ Cardinality(PostsOf(t, post)) + 1 <= Cardinality(PostsOf(t, post'))
        BY <1>1, <1>11, <1>15, Counted, PostsGrow
    <2> QED BY <1>2, <1>4, <1>5, <2>1
<1>18. forum'[h].posts <= Cardinality(PostsIn(h, post', topic'))
    <2>1. /\ Cardinality(PostsIn(h, post, topic)) \in Nat
          /\ Cardinality(PostsIn(h, post', topic')) \in Nat
          /\ Cardinality(PostsIn(h, post, topic)) + 1 <= Cardinality(PostsIn(h, post', topic'))
        BY <1>12, <1>15, Counted, PostsGrow
    <2> QED BY <1>2, <1>4, <1>5, <2>1
<1>19. FiguresBehind'
    <2>1. /\ \A o \in Users : tally[o] \in Int
          /\ \A o \in Topics : topic[o].posts \in Int
          /\ \A f \in Forums : forum[f].posts \in Int /\ forum[f].topics \in Int
        BY Tables DEF WInv, WritesTypeOK, TypeOK, TopicRow, ForumRow
    <2>2. FiguresBehind
        BY DEF Behind
    <2>3. \A o \in Users : tally'[o] <= Cardinality(By(o, post'))
        BY <1>2, <1>14, <1>16, <2>1, <2>2, CountsOfAll DEF FiguresBehind
    <2>4. \A o \in Topics : topic'[o].posts <= Cardinality(PostsOf(o, post'))
        BY <1>2, <1>14, <1>17, <2>1, <2>2, CountsOfAll DEF FiguresBehind
    <2>5. \A f \in Forums : forum'[f].posts <= Cardinality(PostsIn(f, post', topic'))
        BY <1>2, <1>14, <1>18, <2>1, <2>2, CountsOfAll DEF FiguresBehind
    <2>6. \A f \in Forums : forum'[f].topics = forum[f].topics
        BY <1>2
    <2> QED BY <1>13, <2>2, <2>3, <2>4, <2>5, <2>6 DEF FiguresBehind
<1>20. LoadedBehind'
    <2>1. LoadedLess(req'[s], post', topic')
        BY <1>2 DEF LoadedLess
    <2> QED BY <1>2, <1>14, <2>1, OthersStayBehind DEF Behind
<1>21. OneCreator'
    <2>1. ASSUME NEW o \in Slots, Creates(req[o]) PROVE req[o].topic \in Topics
        BY <2>1 DEF Creates, WInv, RequestsSound, RequestSound
    <2>2. \A o \in Slots \ {s} : Creates(req[o]) =>
             /\ topic'[req[o].topic].forum = topic[req[o].topic].forum
             /\ topic'[req[o].topic].first = topic[req[o].topic].first
             /\ Creates(req'[s]) => req'[s].topic # req[o].topic
        BY <1>6, <1>7, <2>1 DEF Behind, OneCreator, r, t
    <2>3. Creates(req'[s]) => /\ topic'[req'[s].topic].forum = req'[s].forum
                              /\ topic'[req'[s].topic].first = None
        BY <1>1, <1>6, <1>7 DEF Behind, OneCreator, r, t
    <2> QED BY <1>2, <2>2, <2>3, CreatorsApart DEF Behind
<1>22. NothingHidden'
    BY <1>2 DEF Behind, NothingHidden
<1>23. NoMoves'
    BY <1>2 DEF Behind, NoMoves
<1>24. AtHome'
    BY <1>2, <1>7, HomesStay DEF Behind
<1> QED BY <1>19, <1>20, <1>21, <1>22, <1>23, <1>24 DEF Behind

\* What the last commit of Topic.save writes.
LEMMA ClosedFigures ==
    ASSUME WInv, NEW s \in Slots, CloseTopic(s), ~Gone(req[s].topic)
    PROVE  LET r == req[s]
               t == r.topic
               f == r.forum
           IN  /\ r \in Request /\ r.stage = "counting" /\ r.new
               /\ t \in Topics /\ f \in Forums /\ r.post \in PostIds
               /\ topic'[t].forum = topic[t].forum /\ topic'[t].first = r.post
               /\ topic'[t].hidden = topic[t].hidden /\ topic'[t].posts = topic[t].posts
               /\ \A o \in Topics \ {t} : topic'[o] = topic[o]
               /\ forum'[f].topics = r.row.topics + 1 /\ forum'[f].posts = forum[f].posts
               /\ \A g \in Forums \ {f} : forum'[g] = forum[g]
               /\ req'[s].stage = "idle" /\ \A o \in Slots \ {s} : req'[o] = req[o]
               /\ UNCHANGED <<post, tally, users, granted>>
<1> DEFINE r == req[s]
           t == r.topic
           f == r.forum
<1>1. /\ r \in Request /\ r.stage = "counting" /\ r.new /\ t \in Topics /\ f \in Forums
      /\ r.post \in PostIds
    BY Tables DEF CloseTopic, Is, WInv, RequestsSound, RequestSound
<1>2. /\ topic' = [topic EXCEPT ![t] = ClosedTopic(topic[t], r)]
      /\ forum' = [forum EXCEPT ![f].topics = r.row.topics + 1]
      /\ req' = [req EXCEPT ![s] = Idle]
      /\ UNCHANGED <<post, tally, users, granted>>
    BY DEF CloseTopic
<1>3. req'[s].stage = "idle" /\ \A o \in Slots \ {s} : req'[o] = req[o]
    BY <1>2, Tables DEF Idle
<1> HIDE DEF r, t, f
<1>4. /\ topic'[t].forum = topic[t].forum /\ topic'[t].first = r.post
      /\ topic'[t].hidden = topic[t].hidden /\ topic'[t].posts = topic[t].posts
    <2>1. topic[t] \in TopicRow /\ topic'[t] = ClosedTopic(topic[t], r)
        BY <1>1, <1>2, Tables
    <2> QED BY <2>1 DEF ClosedTopic, TopicRow
<1>5. \A o \in Topics \ {t} : topic'[o] = topic[o]
    BY <1>2, Tables
<1>6. /\ forum'[f].topics = r.row.topics + 1 /\ forum'[f].posts = forum[f].posts
      /\ \A g \in Forums \ {f} : forum'[g] = forum[g]
    <2>1. forum[f] \in ForumRow
        BY <1>1, Tables
    <2> QED BY <1>1, <1>2, <2>1, Tables DEF ForumRow
<1> QED BY <1>1, <1>2, <1>3, <1>4, <1>5, <1>6 DEF r, t, f

LEMMA CloseTopicBehind ==
    ASSUME WInv, Behind, NEW s \in Slots, CloseTopic(s), ~Gone(req[s].topic)
    PROVE  Behind'
<1> DEFINE r == req[s]
           t == r.topic
           f == r.forum
<1>1. /\ r \in Request /\ r.stage = "counting" /\ r.new /\ t \in Topics /\ f \in Forums
      /\ r.post \in PostIds
    BY ClosedFigures
<1>2. UNCHANGED <<post, tally>>
    BY ClosedFigures
<1>3. /\ topic[t].forum = f /\ topic[t].first = None
      /\ r.row.topics <= Cardinality(Closed(f, topic))
    BY <1>1 DEF Behind, OneCreator, LoadedBehind, LoadedLess, Creates
<1>4. \A o \in Slots \ {s} : Creates(req[o]) => req[o].topic # t
    BY <1>1 DEF Behind, OneCreator, Creates
<1>5. r.row.topics \in Int
    BY <1>1 DEF Request, ForumRow
<1>6. /\ req'[s].stage = "idle" /\ \A o \in Slots \ {s} : req'[o] = req[o]
    BY ClosedFigures
<1>7. /\ topic'[t].forum = f /\ topic'[t].first = r.post
      /\ topic'[t].hidden = topic[t].hidden /\ topic'[t].posts = topic[t].posts
    BY <1>3, ClosedFigures
<1>8. \A o \in Topics \ {t} : topic'[o] = topic[o]
    BY ClosedFigures
<1>9. /\ forum'[f].topics = r.row.topics + 1 /\ forum'[f].posts = forum[f].posts
       /\ \A g \in Forums \ {f} : forum'[g] = forum[g]
    BY ClosedFigures
<1> HIDE DEF r, t, f
<1>10. \A o \in Topics : topic'[o].forum = topic[o].forum
    BY <1>3, <1>7, <1>8
<1>11. \A q \in PostIds : post[q].topic \in Topics \cup {None}
    BY Tables DEF PostRow
<1>12. \A g : PostsIn(g, post', topic') = PostsIn(g, post, topic)
    BY <1>2, <1>10, <1>11 DEF PostsIn
<1>13. \A g : Closed(g, topic) \subseteq Closed(g, topic')
    BY <1>3, <1>8, <1>10 DEF Closed
<1>14. t \in Closed(f, topic') \ Closed(f, topic)
    BY <1>1, <1>3, <1>7, NullIsNoId DEF Closed
<1>15. AllGrow
    BY <1>2, <1>12, <1>13 DEF AllGrow
<1>16. FiguresBehind'
    <2>1. FiguresBehind /\ \A g \in Forums : forum[g].topics \in Int
        BY Tables DEF Behind, ForumRow
    <2>2. forum'[f].topics <= Cardinality(Closed(f, topic'))
        <3>1. /\ Cardinality(Closed(f, topic)) \in Nat
              /\ Cardinality(Closed(f, topic')) \in Nat
              /\ Cardinality(Closed(f, topic)) + 1 <= Cardinality(Closed(f, topic'))
            BY <1>13, <1>14, Counted, TopicsGrow
        <3> QED BY <1>3, <1>5, <1>9, <3>1
    <2>3. \A g \in Forums : forum'[g].topics <= Cardinality(Closed(g, topic'))
        BY <1>9, <1>15, <2>1, <2>2, CountsOfAll DEF FiguresBehind
    <2>4. \A g \in Forums : forum'[g].posts = forum[g].posts
        BY <1>9
    <2>5. \A o \in Topics : topic'[o].posts = topic[o].posts
        BY <1>7, <1>8
    <2> QED BY <1>2, <1>12, <2>1, <2>3, <2>4, <2>5 DEF FiguresBehind
<1>17. LoadedBehind'
    BY <1>6, <1>15, OthersStayBehind DEF Behind, LoadedLess
<1>18. OneCreator'
    <2>1. ASSUME NEW o \in Slots, Creates(req[o]) PROVE req[o].topic \in Topics
        BY <2>1 DEF Creates, WInv, RequestsSound, RequestSound
    <2>2. ~Creates(req'[s])
        BY <1>6 DEF Creates
    <2>3. \A o \in Slots \ {s} : Creates(req[o]) =>
             /\ topic'[req[o].topic].forum = topic[req[o].topic].forum
             /\ topic'[req[o].topic].first = topic[req[o].topic].first
        BY <1>4, <1>8, <2>1
    <2> QED BY <1>6, <2>2, <2>3, CreatorsApart DEF Behind
<1>19. NothingHidden'
    BY <1>2, <1>7, <1>8 DEF Behind, NothingHidden
<1>20. NoMoves'
    BY <1>6 DEF Behind, NoMoves
<1>21. AtHome'
    BY <1>6, <1>10, HomesStay DEF Behind
<1> QED BY <1>16, <1>17, <1>18, <1>19, <1>20, <1>21 DEF Behind

LEMMA BehindStep ==
    ASSUME WInv, Never({"move", "deletetopic"}), Behind,
           NEW s \in Slots, Start(s) \/ Proceed(s) \/ Crash(s)
    PROVE  Behind'
<1>1. CASE Save(s)
    <2>1. CASE Gone(req[s].topic)
        BY <1>1, <2>1, EndsBehind DEF Save, Fail, vars
    <2> QED BY <1>1, <2>1, SaveBehind
<1>2. CASE CloseTopic(s)
    <2>1. CASE Gone(req[s].topic)
        BY <1>2, <2>1, EndsBehind DEF CloseTopic, Fail, vars
    <2> QED BY <1>2, <2>1, CloseTopicBehind
<1>3. CASE Crash(s)
    BY <1>3, EndsBehind DEF Crash, vars
<1>4. ~CommitMove(s) /\ ~UpdateNew(s) /\ ~UpdateOld(s)
    BY DEF CommitMove, UpdateNew, UpdateOld, Is, Behind, NoMoves
<1>5. ASSUME NEW t \in Topics PROVE ~Remove(s, t) /\ \A g \in Forums : ~StartMove(s, t, g)
    BY DEF Never, Remove, StartMove
<1> QED BY <1>1, <1>2, <1>3, <1>4, <1>5, OpenTopicBehind, LoadReplyBehind, LoadNewBehind,
           LoadForumBehind DEF Start, Proceed

LEMMA BehindInit == WritesInit => Behind
<1> SUFFICES ASSUME WritesInit PROVE Behind
    OBVIOUS
<1>1. /\ post = [p \in PostIds |-> BlankPost] /\ topic = [t \in Topics |-> BlankTopic]
      /\ forum = [f \in Forums |-> BlankForum] /\ tally = [u \in Users |-> 0]
      /\ \A s \in Slots : req[s].stage = "idle"
    BY DEF WritesInit, Init, Idle
<1>2. /\ \A u : Cardinality(By(u, post)) \in Nat
      /\ \A t : Cardinality(PostsOf(t, post)) \in Nat
      /\ \A f : Cardinality(PostsIn(f, post, topic)) \in Nat
      /\ \A f : Cardinality(Closed(f, topic)) \in Nat
    BY Counted, PostsGrow, TopicsGrow
<1>3. /\ \A u \in Users : tally[u] = 0
      /\ \A t \in Topics : topic[t].posts = 0
      /\ \A f \in Forums : forum[f].posts = 0 /\ forum[f].topics = 0
    BY <1>1 DEF BlankTopic, BlankForum
<1>4. FiguresBehind
    BY <1>3, <1>2 DEF FiguresBehind
<1>5. NothingHidden
    BY <1>1 DEF NothingHidden, BlankPost, BlankTopic
<1>6. LoadedBehind /\ OneCreator /\ NoMoves /\ AtHome
    BY <1>1 DEF LoadedBehind, LoadedLess, OneCreator, Creates, NoMoves, AtHome
<1> QED BY <1>4, <1>5, <1>6 DEF Behind

\* Where topics stay in their place, no figure of a user, a topic or a forum runs ahead of
\* what it counts, however the requests overlap.  (The counters in Post.save and
\* Topic.save, written as the value loaded plus one.)
THEOREM FiguresNeverAhead == WritesSpec => []NeverAhead
<1> DEFINE BInv == Never({"move", "deletetopic"}) => Behind
<1>1. WritesInit => BInv
    BY BehindInit
<1>2. WInv /\ BInv /\ [WritesNext]_writeVars => BInv'
    <2> SUFFICES ASSUME WInv, BInv, [WritesNext]_writeVars, Never({"move", "deletetopic"})'
                 PROVE  Behind'
        OBVIOUS
    <2>1. Never({"move", "deletetopic"})
        BY GrantedStays DEF Never
    <2>2. Behind
        BY <2>1
    <2>3. ASSUME UNCHANGED writeVars PROVE Behind'
        BY <2>2, <2>3 DEF writeVars, vars, Behind, NothingHidden, FiguresBehind, LoadedBehind,
                          OneCreator, NoMoves, AtHome
    <2>4. ASSUME NEW s \in Slots, Start(s) \/ Proceed(s) \/ Crash(s) PROVE Behind'
        BY <2>1, <2>2, <2>4, BehindStep
    <2> QED BY <2>3, <2>4 DEF WritesNext
<1>3. WInv /\ BInv => NeverAhead
    <2> SUFFICES ASSUME WInv, Behind PROVE NeverAhead
        BY DEF NeverAhead
    <2>1. \A u : ShownBy(u, post, topic) = By(u, post)
        <3>1. \A q \in PostIds : post[q].topic \in Topics \cup {None}
            BY Tables DEF PostRow
        <3> QED BY <3>1 DEF Behind, NothingHidden, ShownBy, ShownPosts, By
    <2>2. ASSUME NEW f \in Forums PROVE forum[f].topics <= Cardinality(TopicsIn(f, topic))
        <3>1. Closed(f, topic) \in SUBSET Topics /\ TopicsIn(f, topic) \in SUBSET Topics
              /\ Closed(f, topic) \subseteq TopicsIn(f, topic)
            BY DEF Closed, TopicsIn
        <3>2. /\ Cardinality(Closed(f, topic)) \in Nat
              /\ Cardinality(TopicsIn(f, topic)) \in Nat
              /\ Cardinality(Closed(f, topic)) <= Cardinality(TopicsIn(f, topic))
            BY <3>1, TopicsGrow
        <3>3. forum[f].topics \in Int /\ forum[f].topics <= Cardinality(Closed(f, topic))
            BY Tables DEF ForumRow, Behind, FiguresBehind
        <3> QED BY <3>2, <3>3
    <2>3. users \subseteq Users /\ forums \subseteq Forums
        BY DEF WInv, WritesTypeOK, TypeOK
    <2> QED BY <2>1, <2>2, <2>3 DEF NeverAhead, Behind, FiguresBehind, LiveTopics
<1> HIDE DEF BInv
<1> QED BY <1>1, <1>2, <1>3, WritesInvariance, PTL DEF WritesSpec

-----------------------------------------------------------------------------
(* One worker, that may die: the counts of posts are exact.                *)

\* No other worker has a request.
OthersRest(s) == \A o \in Slots \ {s} : req[o].stage = "idle"

PostsExact ==
    /\ \A u \in users : tally[u] = Cardinality(By(u, post))
    /\ \A t \in Topics : topic[t].posts = Cardinality(PostsOf(t, post))
    /\ \A f \in Forums : forum[f].posts = Cardinality(PostsIn(f, post, topic))

\* The rows a request has loaded are the ones in the tables.
FreshOf(s) ==
    LET r == req[s] IN
    /\ r.stage = "loaded" =>
        /\ r.home = topic[r.topic].forum /\ r.row.posts = forum[r.home].posts
        /\ r.posts = topic[r.topic].posts /\ r.tally = tally[r.user]
    /\ r.stage = "counting" => r.row.topics = forum[r.forum].topics
    /\ r.stage = "moving" =>
        /\ "move" \in granted
        /\ topic[r.topic].forum # None /\ r.forum = topic[r.topic].forum /\ r.forum # r.to
        /\ r.posts = topic[r.topic].posts
        /\ r.row.posts = forum[r.forum].posts /\ r.toRow.posts = forum[r.to].posts
    /\ Creates(r) => topic[r.topic].forum = r.forum /\ topic[r.topic].first = None

\* The topics a request is about to count.
Uncounted == {t \in Topics : \E s \in Slots : Creates(req[s]) /\ req[s].topic = t}

\* A forum counts the topics with a first post, and perhaps some without.
TopicsBetween ==
    \A f \in Forums :
        /\ Cardinality(Closed(f, topic)) <= forum[f].topics
        /\ forum[f].topics <= Cardinality(TopicsIn(f, topic) \ Uncounted)

Sole ==
    /\ NothingHidden /\ PostsExact
    /\ \A s \in Slots : FreshOf(s)
    /\ Never({"move"}) => TopicsBetween

LEMMA FreshOthers ==
    ASSUME NEW s \in Slots, OthersRest(s), \A o \in Slots \ {s} : req'[o] = req[o],
           FreshOf(s)'
    PROVE  (\A o \in Slots : FreshOf(o))'
<1> SUFFICES ASSUME NEW o \in Slots, o # s PROVE FreshOf(o)'
    OBVIOUS
<1>1. req'[o].stage = "idle"
    BY DEF OthersRest
<1> QED BY <1>1 DEF FreshOf, Creates

\* A request that is over, or that has not created a topic, has none to count.
LEMMA UncountedNow ==
    ASSUME NEW s \in Slots, OthersRest(s)
    PROVE  Uncounted = {t \in Topics : Creates(req[s]) /\ req[s].topic = t}
BY DEF OthersRest, Uncounted, Creates

LEMMA UncountedNext ==
    ASSUME NEW s \in Slots, OthersRest(s), \A o \in Slots \ {s} : req'[o] = req[o]
    PROVE  Uncounted' = {t \in Topics : Creates(req'[s]) /\ req'[s].topic = t}
BY DEF OthersRest, Uncounted, Creates

\* The bounds stay when the topics to be counted become more.
LEMMA BetweenKept ==
    ASSUME WInv, TopicsBetween, NEW f \in Forums, forum'[f].topics = forum[f].topics,
           Closed(f, topic') = Closed(f, topic),
           TopicsIn(f, topic) \ Uncounted \subseteq TopicsIn(f, topic') \ Uncounted'
    PROVE  /\ Cardinality(Closed(f, topic')) <= forum'[f].topics
           /\ forum'[f].topics <= Cardinality(TopicsIn(f, topic') \ Uncounted')
<1> DEFINE S == TopicsIn(f, topic) \ Uncounted
           T == TopicsIn(f, topic') \ Uncounted'
<1>1. S \in SUBSET Topics /\ T \in SUBSET Topics
    BY DEF TopicsIn
<1>2. /\ Cardinality(Closed(f, topic)) <= forum[f].topics
      /\ forum[f].topics <= Cardinality(S)
    BY DEF TopicsBetween
<1> HIDE DEF S, T
<1>3. /\ Cardinality(S) \in Nat /\ Cardinality(T) \in Nat
      /\ Cardinality(S) <= Cardinality(T)
    <2>1. S \subseteq T
        BY DEF S, T
    <2> QED BY <1>1, <2>1, TopicsGrow
<1>4. forum[f].topics \in Int
    BY Tables DEF ForumRow
<1>5. forum'[f].topics <= Cardinality(T)
    BY <1>2, <1>3, <1>4
<1> QED BY <1>2, <1>5 DEF T

\* A step that leaves the tables: perhaps it loads rows, and creates nothing more.
LEMMA SoleQuiet ==
    ASSUME WInv, Sole, NEW s \in Slots, OthersRest(s),
           UNCHANGED <<post, topic, forum, tally, users, granted>>,
           \A o \in Slots \ {s} : req'[o] = req[o], FreshOf(s)',
           Creates(req'[s]) => Creates(req[s]) /\ req'[s].topic = req[s].topic
    PROVE  Sole'
<1>1. (\A o \in Slots : FreshOf(o))'
    BY FreshOthers
<1>2. NothingHidden' /\ PostsExact'
    BY DEF Sole, NothingHidden, PostsExact
<1>3. Uncounted' \subseteq Uncounted
    BY UncountedNow, UncountedNext
<1>4. ASSUME TopicsBetween PROVE TopicsBetween'
    <2>1. ASSUME NEW f \in Forums
          PROVE  TopicsIn(f, topic) \ Uncounted \subseteq TopicsIn(f, topic') \ Uncounted'
        BY <1>3
    <2>2. \A f \in Forums : /\ forum'[f].topics = forum[f].topics
                            /\ Closed(f, topic') = Closed(f, topic)
        OBVIOUS
    <2> QED BY <1>4, <2>1, <2>2, BetweenKept DEF TopicsBetween
<1> QED BY <1>1, <1>2, <1>4 DEF Sole, Never

\* A request that ends, or dies, and leaves the tables alone.
LEMMA SoleEnds ==
    ASSUME WInv, Sole, NEW s \in Slots, OthersRest(s), req' = [req EXCEPT ![s] = Idle],
           UNCHANGED vars
    PROVE  Sole'
<1>1. req'[s].stage = "idle" /\ \A o \in Slots \ {s} : req'[o] = req[o]
    BY Tables DEF Idle
<1>2. FreshOf(s)' /\ ~Creates(req'[s])
    BY <1>1 DEF FreshOf, Creates
<1> QED BY <1>1, <1>2, SoleQuiet DEF vars

LEMMA SoleLoads ==
    ASSUME WInv, Sole, NEW s \in Slots, OthersRest(s),
           \/ LoadNew(s) /\ ~Gone(req[s].topic)
           \/ \E u \in Users, t \in Topics : LoadReply(s, u, t)
    PROVE  Sole'
<1>1. PICK r \in Request :
        /\ req' = [req EXCEPT ![s] = Loaded(r)]
        /\ Creates(r) => r = req[s] /\ r.stage = "opened"
        /\ r.new => Creates(r)
    <2>1. CASE LoadNew(s) /\ ~Gone(req[s].topic)
        BY <2>1, Tables DEF LoadNew, Is, Creates
    <2>2. ASSUME NEW u \in Users, NEW t \in Topics, LoadReply(s, u, t)
          PROVE  \E r \in Request : /\ req' = [req EXCEPT ![s] = Loaded(r)]
                                    /\ Creates(r) => r = req[s] /\ r.stage = "opened"
                                    /\ r.new => Creates(r)
        <3> DEFINE x == [Idle EXCEPT !.user = u, !.topic = t]
        <3>1. x \in Request
            BY IdleTyped DEF Request
        <3>2. ~x.new
            BY DEF Idle
        <3>3. req' = [req EXCEPT ![s] = Loaded(x)]
            BY <2>2 DEF LoadReply
        <3> HIDE DEF x
        <3> QED BY <3>1, <3>2, <3>3 DEF Creates
    <2> QED BY <2>1, <2>2
<1>2. UNCHANGED <<post, topic, forum, tally, users, granted>>
    BY DEF LoadNew, LoadReply
<1>3. req'[s] = Loaded(r) /\ \A o \in Slots \ {s} : req'[o] = req[o]
    BY <1>1, Tables
<1>4. /\ Loaded(r).stage = "loaded" /\ Loaded(r).topic = r.topic /\ Loaded(r).user = r.user
      /\ Loaded(r).home = topic[r.topic].forum /\ Loaded(r).posts = topic[r.topic].posts
      /\ Loaded(r).tally = tally[r.user] /\ Loaded(r).row = forum[topic[r.topic].forum]
      /\ Loaded(r).new = r.new /\ Loaded(r).forum = r.forum
    BY DEF Loaded, Request
<1>5. Creates(req'[s]) => Creates(req[s]) /\ req'[s].topic = req[s].topic
                                         /\ req'[s].forum = req[s].forum
    BY <1>1, <1>3, <1>4 DEF Creates
<1>6. Creates(req[s]) => /\ topic[req[s].topic].forum = req[s].forum
                         /\ topic[req[s].topic].first = None
    BY DEF Sole, FreshOf
<1>7. FreshOf(s)'
    BY <1>2, <1>3, <1>4, <1>5, <1>6 DEF FreshOf
<1> QED BY <1>2, <1>3, <1>5, <1>7, SoleQuiet

LEMMA SoleLoadsForum ==
    ASSUME WInv, Sole, NEW s \in Slots, OthersRest(s), LoadForum(s)
    PROVE  Sole'
<1> DEFINE r == req[s]
<1>1. /\ r \in Request /\ r.stage = "saved" /\ r.new /\ r.forum \in Forums
    BY Tables DEF LoadForum, Is, WInv, RequestsSound, RequestSound
<1>2. /\ UNCHANGED <<post, topic, forum, tally, users, granted>>
      /\ req' = [req EXCEPT ![s].stage = "counting", ![s].row = forum[r.forum]]
    BY DEF LoadForum, vars
<1>3. \A o \in Slots \ {s} : req'[o] = req[o]
    BY <1>2, Tables
<1>4. /\ req'[s].stage = "counting" /\ req'[s].row = forum[r.forum]
      /\ req'[s].forum = r.forum /\ req'[s].topic = r.topic
    BY <1>1, <1>2, Tables DEF Request
<1>5. Creates(r) /\ topic[r.topic].forum = r.forum /\ topic[r.topic].first = None
    BY <1>1 DEF Creates, Sole, FreshOf
<1>6. FreshOf(s)'
    BY <1>2, <1>4, <1>5 DEF FreshOf
<1> QED BY <1>2, <1>3, <1>4, <1>5, <1>6, SoleQuiet

LEMMA SoleStartsMove ==
    ASSUME WInv, Sole, NEW s \in Slots, OthersRest(s), NEW t \in Topics, NEW g \in Forums,
           StartMove(s, t, g)
    PROVE  Sole'
<1> DEFINE f == topic[t].forum
           x == [Idle EXCEPT !.stage = "moving", !.topic = t, !.forum = f, !.to = g,
                             !.posts = topic[t].posts, !.row = forum[f], !.toRow = forum[g]]
<1>1. /\ "move" \in granted /\ f # None /\ f # g /\ req' = [req EXCEPT ![s] = x]
      /\ UNCHANGED <<post, topic, forum, tally, users, granted>>
    BY DEF StartMove, Gone, vars
<1>2. /\ x.stage = "moving" /\ ~x.new /\ x.topic = t /\ x.forum = f /\ x.to = g
      /\ x.posts = topic[t].posts /\ x.row = forum[f] /\ x.toRow = forum[g]
    BY DEF Idle
<1> HIDE DEF x
<1>3. req'[s] = x /\ \A o \in Slots \ {s} : req'[o] = req[o]
    BY <1>1, Tables
<1>4. FreshOf(s)' /\ ~Creates(req'[s])
    BY <1>1, <1>2, <1>3 DEF FreshOf, Creates
<1> QED BY <1>1, <1>3, <1>4, SoleQuiet

\* A topic opens: no post more, and a topic that is not counted yet.
LEMMA SoleOpens ==
    ASSUME WInv, Sole, NEW s \in Slots, OthersRest(s), NEW u \in Users, NEW f \in Forums,
           OpenTopic(s, u, f)
    PROVE  Sole'
<1>1. PICK t \in Topics \ LiveTopics(topic) :
        /\ topic' = [topic EXCEPT ![t] = NewRow(u, f)]
        /\ req' = [req EXCEPT ![s] = [Idle EXCEPT !.stage = "opened", !.new = TRUE,
                                        !.user = u, !.topic = t, !.forum = f]]
    BY DEF OpenTopic
<1>2. Is(s, "idle") /\ UNCHANGED <<post, forum, tally, users, granted>>
    BY DEF OpenTopic
<1>3. topic[t].forum = None
    BY DEF LiveTopics
<1>4. /\ topic'[t] = NewRow(u, f) /\ \A o \in Topics \ {t} : topic'[o] = topic[o]
    BY <1>1, Tables
<1>5. /\ topic'[t].forum = f /\ topic'[t].first = None
      /\ topic'[t].posts = 0 /\ ~topic'[t].hidden
    BY <1>4 DEF NewRow, BlankTopic
<1>6. /\ req'[s].stage = "opened" /\ req'[s].topic = t /\ req'[s].forum = f
      /\ \A o \in Slots \ {s} : req'[o] = req[o]
    BY <1>1, Tables DEF Idle
<1>7. ASSUME NEW q \in PostIds, post[q].topic # None
      PROVE  /\ post[q].topic \in Topics \ {t}
             /\ topic'[post[q].topic].forum = topic[post[q].topic].forum
    <2>1. post[q].topic \in Topics /\ ~Gone(post[q].topic)
        BY <1>7, Tables DEF PostRow, WInv, PostsHaveTopics
    <2> QED BY <1>3, <1>4, <2>1 DEF Gone
<1>8. \A g : PostsIn(g, post', topic') = PostsIn(g, post, topic)
    BY <1>2, <1>7 DEF PostsIn
<1>9. Cardinality(PostsOf(t, post')) = 0
    <2>1. PostsOf(t, post') = {}
        BY <1>2, <1>7, NullIsNoId DEF PostsOf
    <2> QED BY <2>1, FS_EmptySet
<1>10. PostsExact'
    <2>1. \A o \in Topics : topic'[o].posts = Cardinality(PostsOf(o, post'))
        BY <1>2, <1>4, <1>5, <1>9 DEF Sole, PostsExact
    <2> QED BY <1>2, <1>8, <2>1 DEF Sole, PostsExact
<1>11. NothingHidden'
    BY <1>2, <1>4, <1>5 DEF Sole, NothingHidden
<1>12. (\A o \in Slots : FreshOf(o))'
    <2>1. FreshOf(s)'
        BY <1>5, <1>6 DEF FreshOf
    <2> QED BY <1>6, <2>1, FreshOthers
<1>13. ASSUME TopicsBetween PROVE TopicsBetween'
    <2>1. Uncounted = {} /\ Uncounted' \subseteq {t}
        BY <1>2, <1>6, UncountedNow, UncountedNext DEF Is, Creates
    <2>2. \A g \in Forums : Closed(g, topic') = Closed(g, topic)
        BY <1>3, <1>4, <1>5, NullIsNoId DEF Closed
    <2>3. ASSUME NEW g \in Forums
          PROVE  TopicsIn(g, topic) \ Uncounted \subseteq TopicsIn(g, topic') \ Uncounted'
        BY <1>3, <1>4, <2>1, NullIsNoId DEF TopicsIn
    <2>4. \A g \in Forums : forum'[g].topics = forum[g].topics
        BY <1>2
    <2> QED BY <1>13, <2>2, <2>3, <2>4, BetweenKept DEF TopicsBetween
<1> QED BY <1>2, <1>10, <1>11, <1>12, <1>13 DEF Sole, Never

\* A figure that counts one more.
LEMMA CountsOne ==
    ASSUME NEW S \in SUBSET PostIds, NEW T \in SUBSET PostIds, NEW p \in PostIds,
           p \notin S, T = S \cup {p}
    PROVE  Cardinality(T) = Cardinality(S) + 1
BY PostsFinite, OneMore

\* The commit of a post counts it everywhere.
LEMMA SoleSaves ==
    ASSUME WInv, Sole, NEW s \in Slots, OthersRest(s), Save(s), ~Gone(req[s].topic)
    PROVE  Sole'
<1> DEFINE r == req[s]
           t == r.topic
           h == r.home
           u == r.user
<1>1. /\ r \in Request /\ r.stage = "loaded" /\ t \in Topics /\ h \in Forums /\ u \in Users
      /\ UNCHANGED <<users, granted>>
    BY SaveFacts DEF Save, Is
<1>2. PICK p \in PostIds :
        /\ post[p].topic = None /\ post'[p].topic = t
        /\ post'[p].user = u /\ ~post'[p].hidden
        /\ \A q \in PostIds \ {p} : post'[q] = post[q]
        /\ topic'[t].forum = topic[t].forum
        /\ topic'[t].first = topic[t].first
        /\ topic'[t].hidden = topic[t].hidden
        /\ topic'[t].posts = r.posts + 1
        /\ \A o \in Topics \ {t} : topic'[o] = topic[o]
        /\ forum'[h].posts = r.row.posts + 1
        /\ forum'[h].topics = forum[h].topics
        /\ \A f \in Forums \ {h} : forum'[f] = forum[f]
        /\ tally'[u] = r.tally + 1
        /\ \A o \in Users \ {u} : tally'[o] = tally[o]
        /\ \/ /\ r.new /\ req'[s].stage = "saved"
              /\ req'[s].forum = r.forum /\ req'[s].topic = t
           \/ req'[s].stage = "idle"
        /\ \A o \in Slots \ {s} : req'[o] = req[o]
    BY SavedFigures
<1>3. /\ topic[t].forum = h /\ r.row.posts = forum[h].posts
      /\ r.posts = topic[t].posts /\ r.tally = tally[u]
    BY <1>1 DEF Sole, FreshOf
<1>4. Creates(req'[s]) => Creates(r) /\ req'[s].forum = r.forum /\ req'[s].topic = t
    BY <1>1, <1>2 DEF Creates
<1>5. Creates(r) => topic[t].forum = r.forum /\ topic[t].first = None
    BY DEF Sole, FreshOf
<1>6. Uncounted' \subseteq Uncounted
    BY <1>2, <1>4, UncountedNow, UncountedNext
<1> HIDE DEF r, t, h, u
<1>7. /\ \A o \in Topics : topic'[o].forum = topic[o].forum
      /\ \A o \in Topics : topic'[o].first = topic[o].first
    BY <1>2
<1>8. \A q \in PostIds : post[q].topic \in Topics \cup {None}
    BY Tables DEF PostRow
<1>9. t # None
    BY <1>1, NullIsNoId
<1>10. \A o \in users' : tally'[o] = Cardinality(By(o, post'))
    <2>1. By(u, post') = By(u, post) \cup {p} /\ p \notin By(u, post)
        BY <1>2, <1>9 DEF By
    <2>2. Cardinality(By(u, post')) = Cardinality(By(u, post)) + 1
        BY <2>1, Counted, CountsOne
    <2>3. \A o : o # u => By(o, post') = By(o, post)
        BY <1>2, <1>9 DEF By
    <2>4. users \subseteq Users
        BY DEF WInv, WritesTypeOK, TypeOK
    <2> QED BY <1>1, <1>2, <1>3, <2>2, <2>3, <2>4 DEF Sole, PostsExact
<1>11. \A o \in Topics : topic'[o].posts = Cardinality(PostsOf(o, post'))
    <2>1. PostsOf(t, post') = PostsOf(t, post) \cup {p} /\ p \notin PostsOf(t, post)
        BY <1>2, <1>9 DEF PostsOf
    <2>2. Cardinality(PostsOf(t, post')) = Cardinality(PostsOf(t, post)) + 1
        BY <2>1, Counted, CountsOne
    <2>3. \A o \in Topics : o # t => PostsOf(o, post') = PostsOf(o, post)
        BY <1>2, NullIsNoId DEF PostsOf
    <2> QED BY <1>1, <1>2, <1>3, <2>2, <2>3 DEF Sole, PostsExact
<1>12. \A f \in Forums : forum'[f].posts = Cardinality(PostsIn(f, post', topic'))
    <2>1. /\ PostsIn(h, post', topic') = PostsIn(h, post, topic) \cup {p}
          /\ p \notin PostsIn(h, post, topic)
        BY <1>1, <1>2, <1>3, <1>7, <1>8, <1>9 DEF PostsIn
    <2>2. Cardinality(PostsIn(h, post', topic')) = Cardinality(PostsIn(h, post, topic)) + 1
        BY <2>1, Counted, CountsOne
    <2>3. \A f \in Forums : f # h => PostsIn(f, post', topic') = PostsIn(f, post, topic)
        BY <1>1, <1>2, <1>3, <1>7, <1>8 DEF PostsIn
    <2> QED BY <1>1, <1>2, <1>3, <2>2, <2>3 DEF Sole, PostsExact
<1>13. NothingHidden'
    BY <1>2 DEF Sole, NothingHidden
<1>14. (\A o \in Slots : FreshOf(o))'
    <2>1. Creates(req'[s]) => /\ topic'[req'[s].topic].forum = req'[s].forum
                              /\ topic'[req'[s].topic].first = None
        BY <1>1, <1>4, <1>5, <1>7
    <2>2. FreshOf(s)'
        BY <1>2, <2>1 DEF FreshOf
    <2> QED BY <1>2, <2>2, FreshOthers
<1>15. ASSUME TopicsBetween PROVE TopicsBetween'
    <2>1. \A f \in Forums : /\ Closed(f, topic') = Closed(f, topic)
                            /\ TopicsIn(f, topic') = TopicsIn(f, topic)
        BY <1>7 DEF Closed, TopicsIn
    <2>2. \A f \in Forums : forum'[f].topics = forum[f].topics
        BY <1>2
    <2>3. \A f \in Forums : TopicsIn(f, topic) \ Uncounted
                            \subseteq TopicsIn(f, topic') \ Uncounted'
        BY <1>6, <2>1
    <2> QED BY <1>15, <2>1, <2>2, <2>3, BetweenKept DEF TopicsBetween
<1> QED BY <1>1, <1>10, <1>11, <1>12, <1>13, <1>14, <1>15 DEF Sole, PostsExact, Never

\* The last commit of Topic.save counts the topic.
LEMMA SoleCloses ==
    ASSUME WInv, Sole, NEW s \in Slots, OthersRest(s), CloseTopic(s), ~Gone(req[s].topic)
    PROVE  Sole'
<1> DEFINE r == req[s]
           t == r.topic
           f == r.forum
<1>1. /\ r \in Request /\ r.stage = "counting" /\ r.new /\ t \in Topics /\ f \in Forums
      /\ r.post \in PostIds
    BY ClosedFigures
<1>2. UNCHANGED <<post, tally, users, granted>>
    BY ClosedFigures
<1>3. /\ topic[t].forum = f /\ topic[t].first = None /\ r.row.topics = forum[f].topics
    BY <1>1 DEF Sole, FreshOf, Creates
<1>4. Uncounted = {t}
    BY <1>1, UncountedNow DEF Creates
<1>5. /\ req'[s].stage = "idle" /\ \A o \in Slots \ {s} : req'[o] = req[o]
    BY ClosedFigures
<1>6. Uncounted' = {}
    BY <1>5, UncountedNext DEF Creates
<1>7. /\ topic'[t].forum = f /\ topic'[t].first = r.post
      /\ topic'[t].hidden = topic[t].hidden /\ topic'[t].posts = topic[t].posts
    BY <1>3, ClosedFigures
<1>8. \A o \in Topics \ {t} : topic'[o] = topic[o]
    BY ClosedFigures
<1>9. /\ forum'[f].topics = r.row.topics + 1 /\ forum'[f].posts = forum[f].posts
      /\ \A g \in Forums \ {f} : forum'[g] = forum[g]
    BY ClosedFigures
<1> HIDE DEF r, t, f
<1>10. \A o \in Topics : topic'[o].forum = topic[o].forum
    BY <1>3, <1>7, <1>8
<1>11. \A q \in PostIds : post[q].topic \in Topics \cup {None}
    BY Tables DEF PostRow
<1>12. \A g : PostsIn(g, post', topic') = PostsIn(g, post, topic)
    BY <1>2, <1>10, <1>11 DEF PostsIn
<1>13. PostsExact'
    <2>1. \A o \in Topics : topic'[o].posts = topic[o].posts
        BY <1>7, <1>8
    <2>2. \A g \in Forums : forum'[g].posts = forum[g].posts
        BY <1>9
    <2> QED BY <1>2, <1>12, <2>1, <2>2 DEF Sole, PostsExact
<1>14. NothingHidden'
    BY <1>2, <1>7, <1>8 DEF Sole, NothingHidden
<1>15. (\A o \in Slots : FreshOf(o))'
    <2>1. FreshOf(s)'
        BY <1>5 DEF FreshOf, Creates
    <2> QED BY <1>5, <2>1, FreshOthers
<1>16. ASSUME TopicsBetween PROVE TopicsBetween'
    <2>1. \A g \in Forums : TopicsIn(g, topic') = TopicsIn(g, topic)
        BY <1>10 DEF TopicsIn
    <2>2. /\ Closed(f, topic') = Closed(f, topic) \cup {t} /\ t \notin Closed(f, topic)
          /\ \A g \in Forums \ {f} : Closed(g, topic') = Closed(g, topic)
        BY <1>1, <1>3, <1>7, <1>8, NullIsNoId DEF Closed
    <2>3. /\ Cardinality(Closed(f, topic')) <= forum'[f].topics
          /\ forum'[f].topics <= Cardinality(TopicsIn(f, topic'))
        <3>1. Cardinality(Closed(f, topic')) = Cardinality(Closed(f, topic)) + 1
            BY <1>1, <2>2, Counted, FiniteAssumption, OneMore
        <3>2. /\ TopicsIn(f, topic) \in SUBSET Topics /\ t \in TopicsIn(f, topic)
            BY <1>1, <1>3 DEF TopicsIn
        <3>3. /\ Cardinality(TopicsIn(f, topic)) \in Nat
              /\ Cardinality(TopicsIn(f, topic) \ {t}) = Cardinality(TopicsIn(f, topic)) - 1
            BY <1>1, <3>2, FiniteAssumption, OneMore
        <3>4. Cardinality(Closed(f, topic)) \in Nat
            BY <1>1, Counted, FiniteAssumption, OneMore
        <3>5. /\ Cardinality(Closed(f, topic)) <= forum[f].topics
              /\ forum[f].topics <= Cardinality(TopicsIn(f, topic) \ {t})
            BY <1>1, <1>4, <1>16 DEF TopicsBetween
        <3>6. forum[f].topics \in Int
            BY <1>1, Tables DEF ForumRow
        <3>7. forum'[f].topics = forum[f].topics + 1
            BY <1>3, <1>9
        <3> QED BY <1>1, <2>1, <3>1, <3>3, <3>4, <3>5, <3>6, <3>7
    <2>4. ASSUME NEW g \in Forums \ {f}
          PROVE  /\ Cardinality(Closed(g, topic')) <= forum'[g].topics
                 /\ forum'[g].topics <= Cardinality(TopicsIn(g, topic') \ Uncounted')
        <3>1. forum'[g].topics = forum[g].topics /\ Closed(g, topic') = Closed(g, topic)
            BY <1>9, <2>2
        <3>2. TopicsIn(g, topic) \ Uncounted \subseteq TopicsIn(g, topic') \ Uncounted'
            BY <1>6, <2>1
        <3> QED BY <1>16, <3>1, <3>2, BetweenKept
    <2>5. TopicsIn(f, topic') \ Uncounted' = TopicsIn(f, topic')
        BY <1>6
    <2> QED BY <2>3, <2>4, <2>5 DEF TopicsBetween
<1> QED BY <1>2, <1>13, <1>14, <1>15, <1>16 DEF Sole, Never

\* Topic.move takes the topic's posts along in both counts.
LEMMA SoleMoves ==
    ASSUME WInv, Sole, NEW s \in Slots, OthersRest(s), CommitMove(s), ~Gone(req[s].topic)
    PROVE  Sole'
<1> DEFINE r == req[s]
           t == r.topic
           f == r.forum
           g == r.to
<1>1. /\ r \in Request /\ r.stage = "moving" /\ t \in Topics /\ f \in Forums /\ g \in Forums
    BY Tables DEF CommitMove, Is, WInv, RequestsSound, RequestSound
<1>2. /\ topic' = [topic EXCEPT ![t].forum = g]
      /\ forum' = [forum EXCEPT ![f] = LessOf(forum[f], r), ![g] = MoreOf(forum[g], r)]
      /\ req' = [req EXCEPT ![s].stage = "moved"]
      /\ UNCHANGED <<post, tally, users, granted>>
    BY DEF CommitMove
<1>3. /\ "move" \in granted /\ topic[t].forum = f /\ f # g /\ r.posts = topic[t].posts
      /\ r.row.posts = forum[f].posts /\ r.toRow.posts = forum[g].posts
    BY <1>1 DEF Sole, FreshOf
<1>4. req'[s].stage = "moved" /\ \A o \in Slots \ {s} : req'[o] = req[o]
    BY <1>2, Tables DEF Request
<1> HIDE DEF r, t, f, g
<1>5. /\ topic'[t].forum = g /\ topic'[t].hidden = topic[t].hidden
      /\ topic'[t].posts = topic[t].posts
      /\ \A o \in Topics \ {t} : topic'[o] = topic[o]
    BY <1>1, <1>2, Tables DEF TopicRow
<1>6. /\ forum'[f].posts = forum[f].posts - topic[t].posts
      /\ forum'[g].posts = forum[g].posts + topic[t].posts
      /\ \A h \in Forums \ {f, g} : forum'[h] = forum[h]
    <2>1. /\ forum[f] \in ForumRow /\ forum[g] \in ForumRow
          /\ forum'[f] = LessOf(forum[f], r) /\ forum'[g] = MoreOf(forum[g], r)
          /\ \A h \in Forums \ {f, g} : forum'[h] = forum[h]
        BY <1>1, <1>2, <1>3, Tables
    <2>2. LessOf(forum[f], r).posts = Written(forum[f].posts, r.row.posts, r.row.posts - r.posts)
        BY <2>1 DEF LessOf, ForumRow
    <2>3. MoreOf(forum[g], r).posts = Written(forum[g].posts, r.toRow.posts, r.toRow.posts + r.posts)
        BY <2>1 DEF MoreOf, ForumRow
    <2> QED BY <1>3, <2>1, <2>2, <2>3 DEF Written
<1>7. \A q \in PostIds : post[q].topic \in Topics \cup {None}
    BY Tables DEF PostRow
<1>8. PostsOf(t, post) \in SUBSET PostIds /\ t # None
    BY <1>1, NullIsNoId DEF PostsOf
<1>9. /\ PostsIn(f, post', topic') = PostsIn(f, post, topic) \ PostsOf(t, post)
      /\ PostsOf(t, post) \subseteq PostsIn(f, post, topic)
    BY <1>2, <1>3, <1>5, <1>7, <1>8 DEF PostsIn, PostsOf
<1>10. /\ PostsIn(g, post', topic') = PostsIn(g, post, topic) \cup PostsOf(t, post)
       /\ PostsOf(t, post) \cap PostsIn(g, post, topic) = {}
    BY <1>2, <1>3, <1>5, <1>7, <1>8 DEF PostsIn, PostsOf
<1>11. \A h \in Forums \ {f, g} : PostsIn(h, post', topic') = PostsIn(h, post, topic)
    BY <1>2, <1>3, <1>5, <1>7 DEF PostsIn
<1>12. PostsExact'
    <2>1. topic[t].posts = Cardinality(PostsOf(t, post))
        BY <1>1 DEF Sole, PostsExact
    <2>2. /\ Cardinality(PostsIn(f, post', topic')) = forum[f].posts - topic[t].posts
          /\ Cardinality(PostsIn(g, post', topic')) = forum[g].posts + topic[t].posts
        BY <1>1, <1>8, <1>9, <1>10, <2>1, Counted, SomeMore DEF Sole, PostsExact
    <2>3. \A h \in Forums : forum'[h].posts = Cardinality(PostsIn(h, post', topic'))
        BY <1>6, <1>11, <2>2 DEF Sole, PostsExact
    <2>4. \A o \in Topics : topic'[o].posts = topic[o].posts
        BY <1>5
    <2> QED BY <1>2, <2>3, <2>4 DEF Sole, PostsExact
<1>13. NothingHidden'
    BY <1>2, <1>5 DEF Sole, NothingHidden
<1>14. (\A o \in Slots : FreshOf(o))'
    <2>1. FreshOf(s)'
        BY <1>4 DEF FreshOf, Creates
    <2> QED BY <1>4, <2>1, FreshOthers
<1> QED BY <1>2, <1>3, <1>12, <1>13, <1>14 DEF Sole, Never

\* Looking for the last post leaves the counters alone.
LEMMA LatestLeavesCounters ==
    ASSUME NEW row \in ForumRow, NEW f, NEW T
    PROVE  /\ LatestPost(row, f, T).posts = row.posts
           /\ LatestPost(row, f, T).topics = row.topics
BY DEF LatestPost, WithoutLast, WithLast, ForumRow

LEMMA SoleLooks ==
    ASSUME WInv, Sole, NEW s \in Slots, OthersRest(s), UpdateNew(s) \/ UpdateOld(s)
    PROVE  Sole'
<1>1. PICK f \in Forums : forum' = [forum EXCEPT ![f] = LatestPost(forum[f], f, topic)]
    BY DEF UpdateNew, UpdateOld, Is, WInv, RequestsSound, RequestSound
<1>2. UNCHANGED <<post, topic, tally, users, granted>>
    BY DEF UpdateNew, UpdateOld
<1>3. req'[s].stage \in {"settled", "idle"} /\ \A o \in Slots \ {s} : req'[o] = req[o]
    BY Tables DEF UpdateNew, UpdateOld, Idle, Request
<1>4. ASSUME NEW g \in Forums
      PROVE  forum'[g].posts = forum[g].posts /\ forum'[g].topics = forum[g].topics
    <2>1. forum'[g] = IF g = f THEN LatestPost(forum[f], f, topic) ELSE forum[g]
        BY <1>1, Tables
    <2> QED BY <2>1, Tables, LatestLeavesCounters
<1>5. PostsExact' /\ NothingHidden'
    BY <1>2, <1>4 DEF Sole, PostsExact, NothingHidden
<1>6. (\A o \in Slots : FreshOf(o))'
    <2>1. FreshOf(s)'
        BY <1>3 DEF FreshOf, Creates
    <2> QED BY <1>3, <2>1, FreshOthers
<1>7. Uncounted' = {}
    BY <1>3, UncountedNext DEF Creates
<1>8. ASSUME TopicsBetween PROVE TopicsBetween'
    <2>1. \A g \in Forums : /\ Closed(g, topic') = Closed(g, topic)
                            /\ TopicsIn(g, topic) \ Uncounted \subseteq TopicsIn(g, topic') \ Uncounted'
        BY <1>2, <1>7
    <2> QED BY <1>4, <1>8, <2>1, BetweenKept DEF TopicsBetween
<1> QED BY <1>2, <1>5, <1>6, <1>8 DEF Sole, Never

\* Deleting a topic counts the rows that are left.
LEMMA RemovedFigures ==
    ASSUME WInv, NEW s \in Slots, NEW t \in Topics, Remove(s, t)
    PROVE  LET f == topic[t].forum IN
           /\ f \in Forums /\ req[s].stage = "idle"
           /\ \A q \in PostIds : post[q].topic = t => post'[q] = BlankPost
           /\ \A q \in PostIds : post[q].topic # t => post'[q] = post[q]
           /\ topic'[t] = BlankTopic /\ \A o \in Topics \ {t} : topic'[o] = topic[o]
           /\ tally' = FixUserPostCounts(InvolvedUsers(t), post', topic')
           /\ forum'[f].posts = Cardinality(UnhiddenIn(f, post', topic'))
           /\ forum'[f].topics = Cardinality(ShownTopicsIn(f, topic'))
           /\ \A g \in Forums \ {f} : forum'[g] = forum[g]
           /\ UNCHANGED <<req, users, granted>>
<1> DEFINE f   == topic[t].forum
           row == FixPostCounts(forum[f], f, post', topic')
<1>1. /\ ~Gone(t) /\ req[s].stage = "idle" /\ UNCHANGED <<req, users, granted>>
      /\ post' = WithoutTopics({t}, post) /\ topic' = [topic EXCEPT ![t] = BlankTopic]
      /\ tally' = FixUserPostCounts(InvolvedUsers(t), post', topic')
      /\ forum' = [forum EXCEPT ![f] = IF row.last = None \/ row.last = topic[t].last
                                       THEN LatestPost(row, f, topic') ELSE row]
    BY DEF Remove, Is
<1>2. f \in Forums
    BY <1>1, Tables DEF Gone, TopicRow
<1>3. /\ \A q \in PostIds : post[q].topic = t => post'[q] = BlankPost
      /\ \A q \in PostIds : post[q].topic # t => post'[q] = post[q]
    BY <1>1 DEF WithoutTopics
<1>4. topic'[t] = BlankTopic /\ \A o \in Topics \ {t} : topic'[o] = topic[o]
    BY <1>1, Tables
<1>5. /\ row.posts = Cardinality(UnhiddenIn(f, post', topic'))
      /\ row.topics = Cardinality(ShownTopicsIn(f, topic')) /\ row \in ForumRow
    <2>1. /\ UnhiddenIn(f, post', topic') \in SUBSET PostIds
          /\ ShownTopicsIn(f, topic') \in SUBSET Topics
        BY DEF UnhiddenIn, PostsIn, ShownTopicsIn, TopicsIn
    <2>2. /\ Cardinality(UnhiddenIn(f, post', topic')) \in Int
          /\ Cardinality(ShownTopicsIn(f, topic')) \in Int
        BY <2>1, CountsArePosts, CountsAreTopics
    <2>3. forum[f] \in ForumRow
        BY <1>2, Tables
    <2> QED BY <2>2, <2>3 DEF FixPostCounts, ForumRow
<1> HIDE DEF row, f
<1>6. /\ forum'[f].posts = row.posts /\ forum'[f].topics = row.topics
      /\ \A g \in Forums \ {f} : forum'[g] = forum[g]
    <2> DEFINE looked == LatestPost(row, f, topic')
    <2>1. looked.posts = row.posts /\ looked.topics = row.topics
        BY <1>5, LatestLeavesCounters
    <2> HIDE DEF looked
    <2>2. forum'[f] = looked \/ forum'[f] = row
        BY <1>1, <1>2, Tables DEF looked
    <2>3. \A g \in Forums \ {f} : forum'[g] = forum[g]
        BY <1>1, Tables
    <2> QED BY <2>1, <2>2, <2>3
<1> QED BY <1>1, <1>2, <1>3, <1>4, <1>5, <1>6 DEF f

LEMMA SoleRemoves ==
    ASSUME WInv, Sole, NEW s \in Slots, OthersRest(s), NEW t \in Topics, Remove(s, t)
    PROVE  Sole'
<1> DEFINE f == topic[t].forum
<1>1. /\ f \in Forums /\ req[s].stage = "idle"
      /\ \A q \in PostIds : post[q].topic = t => post'[q] = BlankPost
      /\ \A q \in PostIds : post[q].topic # t => post'[q] = post[q]
      /\ topic'[t] = BlankTopic /\ \A o \in Topics \ {t} : topic'[o] = topic[o]
      /\ UNCHANGED <<req, users, granted>>
    BY RemovedFigures
<1>2. tally' = FixUserPostCounts(InvolvedUsers(t), post', topic')
    BY RemovedFigures
<1>3. /\ forum'[f].posts = Cardinality(UnhiddenIn(f, post', topic'))
      /\ forum'[f].topics = Cardinality(ShownTopicsIn(f, topic'))
      /\ \A g \in Forums \ {f} : forum'[g] = forum[g]
    BY RemovedFigures
<1> HIDE DEF f
<1>4. /\ BlankPost.topic = None /\ ~BlankPost.hidden
      /\ BlankTopic.forum = None /\ BlankTopic.posts = 0 /\ ~BlankTopic.hidden
    BY DEF BlankPost, BlankTopic
<1>5. NothingHidden'
    BY <1>1, <1>4 DEF Sole, NothingHidden
<1>6. \A q \in PostIds : post'[q].topic # None => post'[q].topic \in Topics \ {t}
    BY <1>1, <1>4, Tables DEF PostRow
<1>7. topic[t].forum = f
    BY DEF f
<1>8. /\ UnhiddenIn(f, post', topic') = PostsIn(f, post', topic')
      /\ ShownTopicsIn(f, topic') = TopicsIn(f, topic')
    BY <1>5 DEF NothingHidden, UnhiddenIn, PostsIn, ShownTopicsIn, TopicsIn
<1>9. \A g \in Forums \ {f} : PostsIn(g, post', topic') = PostsIn(g, post, topic)
    <2>1. ASSUME NEW g \in Forums \ {f}, NEW q \in PostIds
          PROVE  q \in PostsIn(g, post', topic') <=> q \in PostsIn(g, post, topic)
        <3>1. CASE post[q].topic = t
            BY <1>1, <1>4, <1>7, <2>1, <3>1 DEF PostsIn
        <3>2. CASE post[q].topic # t
            <4>1. post'[q] = post[q]
                BY <1>1, <3>2
            <4>2. post[q].topic # None => topic'[post[q].topic] = topic[post[q].topic]
                BY <1>1, <1>6, <4>1
            <4> QED BY <4>1, <4>2 DEF PostsIn
        <3> QED BY <3>1, <3>2
    <2> QED BY <2>1 DEF PostsIn
<1>10. \A g \in Forums : forum'[g].posts = Cardinality(PostsIn(g, post', topic'))
    BY <1>3, <1>8, <1>9 DEF Sole, PostsExact
<1>11. \A o \in Topics : topic'[o].posts = Cardinality(PostsOf(o, post'))
    <2>1. PostsOf(t, post') = {}
        BY <1>6, NullIsNoId DEF PostsOf
    <2>2. \A o \in Topics \ {t} : PostsOf(o, post') = PostsOf(o, post)
        BY <1>1, <1>4, NullIsNoId DEF PostsOf
    <2> QED BY <1>1, <1>4, <2>1, <2>2, FS_EmptySet DEF Sole, PostsExact
<1>12. \A u \in users' : tally'[u] = Cardinality(By(u, post'))
    <2> SUFFICES ASSUME NEW u \in users PROVE tally'[u] = Cardinality(By(u, post'))
        BY <1>1
    <2>1. u \in Users
        BY DEF WInv, WritesTypeOK, TypeOK
    <2>2. CASE u \in InvolvedUsers(t)
        <3>1. ShownBy(u, post', topic') = By(u, post')
            BY <1>5, <1>6 DEF NothingHidden, ShownBy, ShownPosts, By
        <3> QED BY <1>2, <2>1, <2>2, <3>1 DEF FixUserPostCounts
    <2>3. CASE u \notin InvolvedUsers(t)
        <3>1. \A q \in PostIds : post[q].topic = t => post[q].user # u
            BY <2>3 DEF InvolvedUsers, PostsOf
        <3>2. By(u, post') = By(u, post)
            BY <1>1, <1>4, <3>1 DEF By
        <3>3. tally'[u] = tally[u]
            BY <1>2, <2>1, <2>3 DEF FixUserPostCounts
        <3> QED BY <3>2, <3>3 DEF Sole, PostsExact
    <2> QED BY <2>2, <2>3
<1>13. ASSUME TopicsBetween PROVE TopicsBetween'
    <2>1. Uncounted = {} /\ Uncounted' = {}
        BY <1>1, UncountedNow, UncountedNext DEF Creates
    <2>2. /\ Cardinality(Closed(f, topic')) <= forum'[f].topics
          /\ forum'[f].topics <= Cardinality(TopicsIn(f, topic') \ Uncounted')
        <3>1. /\ Closed(f, topic') \in SUBSET Topics /\ TopicsIn(f, topic') \in SUBSET Topics
              /\ Closed(f, topic') \subseteq TopicsIn(f, topic')
            BY DEF Closed, TopicsIn
        <3>2. /\ Cardinality(TopicsIn(f, topic')) \in Nat
              /\ Cardinality(Closed(f, topic')) <= Cardinality(TopicsIn(f, topic'))
            BY <3>1, TopicsGrow
        <3>3. TopicsIn(f, topic') \ Uncounted' = TopicsIn(f, topic')
            BY <2>1
        <3> QED BY <1>3, <1>8, <3>2, <3>3
    <2>3. ASSUME NEW g \in Forums \ {f}
          PROVE  /\ Cardinality(Closed(g, topic')) <= forum'[g].topics
                 /\ forum'[g].topics <= Cardinality(TopicsIn(g, topic') \ Uncounted')
        <3>1. forum'[g].topics = forum[g].topics
            BY <1>3
        <3>2. Closed(g, topic') = Closed(g, topic) /\ TopicsIn(g, topic') = TopicsIn(g, topic)
            BY <1>1, <1>4, <1>7, NullIsNoId DEF Closed, TopicsIn
        <3>3. TopicsIn(g, topic) \ Uncounted \subseteq TopicsIn(g, topic') \ Uncounted'
            BY <2>1, <3>2
        <3> QED BY <1>13, <3>1, <3>2, <3>3, BetweenKept
    <2> QED BY <2>2, <2>3 DEF TopicsBetween
<1>14. (\A o \in Slots : FreshOf(o))'
    <2>1. req'[s].stage = "idle" /\ \A o \in Slots \ {s} : req'[o] = req[o]
        BY <1>1
    <2>2. FreshOf(s)'
        BY <2>1 DEF FreshOf, Creates
    <2> QED BY <2>1, <2>2, FreshOthers
<1> QED BY <1>1, <1>5, <1>10, <1>11, <1>12, <1>13, <1>14 DEF Sole, PostsExact, Never

LEMMA SoleStep ==
    ASSUME WInv, Sole, NEW s \in Slots, OthersRest(s), Start(s) \/ Proceed(s) \/ Crash(s)
    PROVE  Sole'
<1>1. CASE Start(s)
    BY <1>1, SoleOpens, SoleLoads, SoleStartsMove, SoleRemoves DEF Start
<1>2. CASE Proceed(s)
    <2>1. CASE LoadNew(s) \/ Save(s) \/ CloseTopic(s) \/ CommitMove(s)
        <3>1. CASE Gone(req[s].topic)
            <4>1. Fail(s)
                BY <2>1, <3>1 DEF LoadNew, Save, CloseTopic, CommitMove
            <4> QED BY <4>1, SoleEnds DEF Fail
        <3>2. CASE ~Gone(req[s].topic)
            BY <2>1, <3>2, SoleLoads, SoleSaves, SoleCloses, SoleMoves
        <3> QED BY <3>1, <3>2
    <2>2. CASE LoadForum(s) \/ UpdateNew(s) \/ UpdateOld(s)
        BY <2>2, SoleLoadsForum, SoleLooks
    <2> QED BY <1>2, <2>1, <2>2 DEF Proceed
<1>3. CASE Crash(s)
    BY <1>3, SoleEnds DEF Crash
<1> QED BY <1>1, <1>2, <1>3

LEMMA SoleInit == WritesInit => Sole
<1> SUFFICES ASSUME WritesInit PROVE Sole
    OBVIOUS
<1>1. /\ post = [p \in PostIds |-> BlankPost] /\ topic = [t \in Topics |-> BlankTopic]
      /\ forum = [f \in Forums |-> BlankForum] /\ tally = [u \in Users |-> 0]
      /\ users = Users /\ \A s \in Slots : req[s].stage = "idle"
    BY DEF WritesInit, Init, Idle
<1>2. NothingHidden
    BY <1>1 DEF NothingHidden, BlankPost, BlankTopic
<1>3. \A p \in PostIds : post[p].topic = None
    BY <1>1 DEF BlankPost
<1>4. Cardinality({}) = 0
    BY FS_EmptySet
<1>5. PostsExact
    <2>1. /\ \A u : By(u, post) = {} /\ \A f : PostsIn(f, post, topic) = {}
        BY <1>3 DEF By, PostsIn
    <2>2. \A t \in Topics : PostsOf(t, post) = {}
        BY <1>3, NullIsNoId DEF PostsOf
    <2> QED BY <1>1, <1>4, <2>1, <2>2 DEF PostsExact, BlankTopic, BlankForum
<1>6. TopicsBetween
    <2>1. ASSUME NEW f \in Forums PROVE Closed(f, topic) = {} /\ TopicsIn(f, topic) = {}
        BY <1>1, NullIsNoId DEF Closed, TopicsIn, BlankTopic
    <2>2. ASSUME NEW f \in Forums PROVE TopicsIn(f, topic) \ Uncounted = {}
        BY <2>1
    <2>3. \A f \in Forums : forum[f].topics = 0
        BY <1>1 DEF BlankForum
    <2>4. ASSUME NEW f \in Forums
          PROVE  /\ Cardinality(Closed(f, topic)) = 0
                 /\ Cardinality(TopicsIn(f, topic) \ Uncounted) = 0
        BY <1>4, <2>1, <2>2
    <2> QED BY <2>3, <2>4 DEF TopicsBetween
<1>7. \A s \in Slots : FreshOf(s)
    BY <1>1 DEF FreshOf, Creates
<1> QED BY <1>2, <1>5, <1>6, <1>7 DEF Sole

\* A slot that has no worker has no request.
Resting == \A s \in Slots \ workers : req[s].stage = "idle"

Alone == Cardinality(workers) = 1

LEMMA OnlyItsOwn ==
    ASSUME WInv, NEW s \in Slots, Start(s) \/ Proceed(s) \/ Crash(s)
    PROVE  s \in workers /\ workers' = workers /\ \A o \in Slots \ {s} : req'[o] = req[o]
<1>1. CASE Start(s)
    BY <1>1, Tables DEF Start, OpenTopic, LoadReply, StartMove, Remove, Is
<1>2. CASE Proceed(s)
    <2>1. CASE LoadNew(s) \/ Save(s) \/ LoadForum(s)
        BY <1>2, <2>1, Tables DEF Proceed, LoadNew, Save, LoadForum, Fail, Is
    <2>2. CASE CloseTopic(s) \/ CommitMove(s) \/ UpdateNew(s) \/ UpdateOld(s)
        BY <1>2, <2>2, Tables
        DEF Proceed, CloseTopic, CommitMove, UpdateNew, UpdateOld, Fail, Is
    <2> QED BY <1>2, <2>1, <2>2 DEF Proceed
<1>3. CASE Crash(s)
    BY <1>3, Tables DEF Crash
<1> QED BY <1>1, <1>2, <1>3

LEMMA AloneRests ==
    ASSUME WInv, Resting, Alone, NEW s \in Slots, s \in workers
    PROVE  OthersRest(s)
<1>1. IsFiniteSet(workers)
    BY SlotsAssumption, FS_Subset DEF WInv, WritesTypeOK
<1>2. \E x : workers = {x}
    BY <1>1, FS_Singleton DEF Alone
<1> QED BY <1>2 DEF Resting, OthersRest

OneInv == Resting /\ (Alone => Sole)

LEMMA OneInit == WritesInit => OneInv
<1> QED BY SoleInit DEF WritesInit, Resting, Idle, OneInv

LEMMA OneStep == WInv /\ OneInv /\ [WritesNext]_writeVars => OneInv'
<1> SUFFICES ASSUME WInv, OneInv, [WritesNext]_writeVars PROVE OneInv'
    OBVIOUS
<1>1. CASE UNCHANGED writeVars
    BY <1>1 DEF OneInv, writeVars, vars, Resting, Alone, Sole, NothingHidden, PostsExact, FreshOf,
                TopicsBetween, Uncounted, Never
<1>2. ASSUME NEW s \in Slots, Start(s) \/ Proceed(s) \/ Crash(s) PROVE OneInv'
    <2>1. s \in workers /\ workers' = workers /\ \A o \in Slots \ {s} : req'[o] = req[o]
        BY <1>2, OnlyItsOwn
    <2>2. Resting'
        BY <2>1 DEF OneInv, Resting
    <2>3. ASSUME Alone' PROVE Sole'
        <3>1. Alone
            BY <2>1, <2>3 DEF Alone
        <3>2. Sole /\ OthersRest(s)
            BY <2>1, <3>1, AloneRests DEF OneInv
        <3> QED BY <1>2, <3>2, SoleStep
    <2> QED BY <2>2, <2>3 DEF OneInv
<1> QED BY <1>1, <1>2 DEF WritesNext

LEMMA OneInvariance == WritesSpec => []OneInv
BY OneInit, OneStep, WritesInvariance, PTL DEF WritesSpec

\* One worker alone keeps the counts of posts exact at every commit, dead or alive, and
\* leaves out of a forum's count of topics none that has its first post.  (Topic.save,
\* Post.save and Topic.move, commit by commit, and Topic.delete.)
THEOREM CrashLeavesCounts == WritesSpec => []CrashKeepsCounts
<1>1. WInv /\ OneInv => CrashKeepsCounts
    <2> SUFFICES ASSUME WInv, Sole
                 PROVE  /\ UserCountExact /\ PostCountExact /\ RepliesCountExact
                        /\ Never({"move"}) => \A f \in forums :
                            /\ forum[f].topics <= Cardinality(TopicsIn(f, topic))
                            /\ forum[f].topics >= Cardinality({t \in TopicsIn(f, topic) :
                                                               topic[t].first # None})
        BY DEF CrashKeepsCounts, OneInv, Alone
    <2>1. \A q \in PostIds : post[q].topic # None => post[q].topic \in Topics
        BY Tables DEF PostRow
    <2>2. users \subseteq Users /\ forums \subseteq Forums
        BY DEF WInv, WritesTypeOK, TypeOK
    <2>3. UserCountExact
        <3>1. \A u : ShownBy(u, post, topic) = By(u, post)
            BY <2>1 DEF Sole, NothingHidden, ShownBy, ShownPosts, By
        <3> QED BY <2>2, <3>1 DEF UserCountExact, Sole, PostsExact
    <2>4. PostCountExact
        <3>1. \A f : ShownIn(f, post, topic) = PostsIn(f, post, topic)
            BY <2>1 DEF Sole, NothingHidden, ShownIn, ShownPosts, PostsIn
        <3> QED BY <2>2, <3>1 DEF PostCountExact, Sole, PostsExact
    <2>5. RepliesCountExact
        <3>1. \A t \in LiveTopics(topic) :
                PostsOf(t, post) \cap ShownPosts(post, topic) = PostsOf(t, post)
            BY <2>1, NullIsNoId DEF Sole, NothingHidden, ShownPosts, PostsOf, LiveTopics
        <3> QED BY <3>1 DEF RepliesCountExact, Sole, PostsExact, LiveTopics
    <2>6. ASSUME Never({"move"}), NEW f \in forums
          PROVE  /\ forum[f].topics <= Cardinality(TopicsIn(f, topic))
                 /\ forum[f].topics >= Cardinality({t \in TopicsIn(f, topic) :
                                                    topic[t].first # None})
        <3>1. {t \in TopicsIn(f, topic) : topic[t].first # None} = Closed(f, topic)
            BY DEF TopicsIn, Closed
        <3> DEFINE S == TopicsIn(f, topic) \ Uncounted
                   T == TopicsIn(f, topic)
        <3>2. S \in SUBSET Topics /\ T \in SUBSET Topics /\ S \subseteq T
            BY DEF TopicsIn
        <3>3. /\ Cardinality(S) \in Nat /\ Cardinality(T) \in Nat
              /\ Cardinality(S) <= Cardinality(T)
            <4> HIDE DEF S, T
            <4> QED BY <3>2, TopicsGrow
        <3>4. forum[f].topics \in Int /\ Cardinality(Closed(f, topic)) \in Nat
            <4>1. Cardinality(Closed(f, topic)) \in Nat
                BY Counted, TopicsGrow
            <4> QED BY <2>2, <4>1, Tables DEF ForumRow
        <3>5. /\ Cardinality(Closed(f, topic)) <= forum[f].topics
              /\ forum[f].topics <= Cardinality(S)
            BY <2>2, <2>6 DEF Sole, TopicsBetween
        <3> HIDE DEF S
        <3>6. forum[f].topics <= Cardinality(TopicsIn(f, topic))
            BY <3>3, <3>4, <3>5
        <3>7. forum[f].topics >= Cardinality(Closed(f, topic))
            BY <3>4, <3>5
        <3> QED BY <3>1, <3>6, <3>7
    <2> QED BY <2>3, <2>4, <2>5, <2>6
<1> QED BY <1>1, WritesInvariance, OneInvariance, PTL

-----------------------------------------------------------------------------
(* The columns about the last post of a forum.                             *)

\* The columns of one forum: all empty, or those of a post with the name of an author.
ColumnsAt(f) ==
    /\ forum[f].last = None => forum[f].lastUser = None
    /\ forum[f].last # None =>
        /\ forum[f].last \in PostIds /\ post[forum[f].last].topic # None
        /\ forum[f].lastCreated = post[forum[f].last].created
        /\ \E q \in PostsIn(f, post, topic) : post[q].user = forum[f].lastUser

\* A request that has loaded a name works on a forum that has a last post.
NameLoaded(s) ==
    req[s].stage = "loaded" /\ req[s].row.lastUser # None
    => forum[req[s].home].last # None

\* Without other workers the name is the right one, in the table and where it was loaded.
NameExact(f) == forum[f].last # None => forum[f].lastUser = post[forum[f].last].user

NameFresh(s) ==
    req[s].stage = "loaded" => req[s].row.lastUser = forum[req[s].home].lastUser

Columns ==
    /\ \A f \in Forums : ColumnsAt(f)
    /\ \A s \in Slots : NameLoaded(s)
    /\ Alone => (\A f \in Forums : NameExact(f)) /\ (\A s \in Slots : NameFresh(s))

ColumnsInv == Never({"move", "deletetopic"}) => Columns

\* A step that leaves posts and these columns alone, and loads them as they are.
ColumnsUntouched(s) ==
    /\ \A o \in Slots \ {s} : req'[o] = req[o]
    /\ post' = post /\ workers' = workers
    /\ \A t \in Topics : ~Gone(t) => topic'[t].forum = topic[t].forum
    /\ \A f \in Forums : /\ forum'[f].last = forum[f].last
                         /\ forum'[f].lastUser = forum[f].lastUser
                         /\ forum'[f].lastCreated = forum[f].lastCreated
    /\ req'[s].stage = "loaded" =>
        /\ req'[s].home \in Forums
        /\ req'[s].row.lastUser = forum[req'[s].home].lastUser

LEMMA ColumnsKept ==
    ASSUME WInv, Columns, NEW s \in Slots, ColumnsUntouched(s)
    PROVE  Columns'
<1>1. ASSUME NEW q \in PostIds, post[q].topic # None
      PROVE  topic'[post[q].topic].forum = topic[post[q].topic].forum
    <2>1. post[q].topic \in Topics /\ ~Gone(post[q].topic)
        BY <1>1, Tables DEF PostRow, WInv, PostsHaveTopics
    <2> QED BY <2>1 DEF ColumnsUntouched
<1>2. \A f : PostsIn(f, post', topic') = PostsIn(f, post, topic)
    BY <1>1 DEF PostsIn, ColumnsUntouched
<1>3. (\A f \in Forums : ColumnsAt(f))'
    BY <1>2 DEF Columns, ColumnsAt, ColumnsUntouched
<1>4. \A o \in Slots : req[o].stage = "loaded" => req[o].home \in Forums
    BY DEF WInv, RequestsSound, RequestSound
<1>5. (\A o \in Slots : NameLoaded(o))'
    BY <1>4 DEF Columns, ColumnsAt, NameLoaded, ColumnsUntouched
<1>6. ASSUME Alone' PROVE (\A f \in Forums : NameExact(f))' /\ (\A o \in Slots : NameFresh(o))'
    BY <1>4, <1>6 DEF Alone, Columns, NameExact, NameFresh, ColumnsUntouched
<1> QED BY <1>3, <1>5, <1>6 DEF Columns

\* What a commit of a post writes into the forum's columns.
LEMMA SavedColumns ==
    ASSUME WInv, NEW s \in Slots, Save(s), ~Gone(req[s].topic)
    PROVE  LET r == req[s] IN
           /\ r.stage = "loaded" /\ r.topic \in Topics /\ r.home \in Forums /\ r.user \in Users
           /\ \E p \in PostIds :
                /\ post[p].topic = None /\ post'[p].topic = r.topic
                /\ post'[p].user = r.user /\ post'[p].created = r.time
                /\ \A q \in PostIds \ {p} : post'[q] = post[q]
                /\ \A t \in Topics : topic'[t].forum = topic[t].forum
                /\ forum'[r.home].last = p /\ forum'[r.home].lastCreated = r.time
                /\ forum'[r.home].lastUser
                    = Written(forum[r.home].lastUser, r.row.lastUser, r.user)
                /\ \A f \in Forums \ {r.home} : forum'[f] = forum[f]
           /\ req'[s].stage # "loaded"
           /\ \A o \in Slots \ {s} : req'[o] = req[o]
<1> DEFINE r == req[s]
<1>1. /\ r \in Request /\ r.stage = "loaded" /\ r.topic \in Topics /\ r.user \in Users
      /\ r.home \in Forums
    BY SaveFacts
<1>2. PICK p \in PostIds :
        /\ post[p].topic = None
        /\ post' = [post EXCEPT ![p] = [topic |-> r.topic, user |-> r.user,
                                        hidden |-> FALSE, created |-> r.time]]
        /\ topic' = [topic EXCEPT ![r.topic] = SavedTopic(topic[r.topic], r, p)]
        /\ forum' = [forum EXCEPT ![r.home] = SavedForum(forum[r.home], r, p)]
        /\ req' = [req EXCEPT ![s] = IF r.new
                     THEN [r EXCEPT !.stage = "saved", !.post = p] ELSE Idle]
    BY SaveFacts
<1> HIDE DEF r
<1>3. /\ post'[p].topic = r.topic /\ post'[p].user = r.user /\ post'[p].created = r.time
      /\ \A q \in PostIds \ {p} : post'[q] = post[q]
    BY <1>2, Tables
<1>4. \A t \in Topics : topic'[t].forum = topic[t].forum
    <2>1. topic[r.topic] \in TopicRow
        BY <1>1, Tables
    <2>2. SavedTopic(topic[r.topic], r, p).forum = topic[r.topic].forum
        BY <2>1 DEF SavedTopic, TopicRow
    <2> QED BY <1>1, <1>2, <2>2, Tables
<1>5. /\ forum'[r.home] = SavedForum(forum[r.home], r, p)
      /\ \A f \in Forums \ {r.home} : forum'[f] = forum[f]
    BY <1>1, <1>2, Tables
<1>6. /\ forum'[r.home].last = p /\ forum'[r.home].lastCreated = r.time
      /\ forum'[r.home].lastUser = Written(forum[r.home].lastUser, r.row.lastUser, r.user)
    <2>1. forum[r.home] \in ForumRow
        BY <1>1, Tables
    <2> QED BY <1>5, <2>1 DEF SavedForum, ForumRow
<1>7. \A o \in Slots \ {s} : req'[o] = req[o]
    BY <1>2, Tables
<1>8. req'[s].stage # "loaded"
    <2>1. req'[s] = IF r.new THEN [r EXCEPT !.stage = "saved", !.post = p] ELSE Idle
        BY <1>2, Tables
    <2>2. [r EXCEPT !.stage = "saved", !.post = p].stage = "saved" /\ Idle.stage = "idle"
        BY <1>1 DEF Request, Idle
    <2> QED BY <2>1, <2>2
<1> QED BY <1>1, <1>2, <1>3, <1>4, <1>5, <1>6, <1>7, <1>8 DEF r

LEMMA ColumnsSaved ==
    ASSUME WInv, AtHome, Columns, NEW s \in Slots, Save(s), ~Gone(req[s].topic),
           workers' = workers, Alone => OthersRest(s)
    PROVE  Columns'
<1> DEFINE r == req[s]
<1>h. PICK h \in Forums : h = r.home
    BY SavedColumns
<1>n. PICK name : name = Written(forum[h].lastUser, r.row.lastUser, r.user)
    OBVIOUS
<1>1. /\ r.stage = "loaded" /\ r.topic \in Topics /\ h \in Forums /\ r.user \in Users
      /\ req'[s].stage # "loaded"
      /\ \A o \in Slots \ {s} : req'[o] = req[o]
    BY SavedColumns, <1>h
<1>2. PICK p \in PostIds :
        /\ post[p].topic = None /\ post'[p].topic = r.topic
        /\ post'[p].user = r.user /\ post'[p].created = r.time
        /\ \A q \in PostIds \ {p} : post'[q] = post[q]
        /\ \A t \in Topics : topic'[t].forum = topic[t].forum
        /\ forum'[h].last = p /\ forum'[h].lastCreated = r.time
        /\ forum'[h].lastUser = name
        /\ \A f \in Forums \ {h} : forum'[f] = forum[f]
    BY SavedColumns, <1>h, <1>n
<1>3. topic[r.topic].forum = h
    BY <1>1, <1>h DEF AtHome
<1>4. /\ r.user # None /\ r.topic # None /\ p # None
    BY <1>1, NullIsNoId, NoneAssumption
<1>5. NameLoaded(s) /\ ColumnsAt(h)
    BY <1>1 DEF Columns
<1>6. name = IF r.user = r.row.lastUser THEN forum[h].lastUser ELSE r.user
    BY <1>n DEF Written
<1>7. r.user = r.row.lastUser => forum[h].last # None
    BY <1>1, <1>4, <1>5, <1>h DEF NameLoaded
<1>8. Alone => (r.row.lastUser = forum[h].lastUser)
    BY <1>1, <1>h DEF Columns, NameFresh
<1> HIDE DEF r
<1>9. \A f : \A q \in PostsIn(f, post, topic) :
            q # p /\ q \in PostsIn(f, post', topic') /\ post'[q] = post[q]
    <2> SUFFICES ASSUME NEW f, NEW q \in PostsIn(f, post, topic)
                 PROVE  q # p /\ q \in PostsIn(f, post', topic') /\ post'[q] = post[q]
        OBVIOUS
    <2>1. q \in PostIds /\ post[q].topic # None /\ topic[post[q].topic].forum = f
        BY DEF PostsIn
    <2>2. post'[q] = post[q] /\ post[q].topic \in Topics /\ q # p
        BY <1>2, <2>1, Tables DEF PostRow
    <2> QED BY <1>2, <2>1, <2>2 DEF PostsIn
<1>10. ColumnsAt(h)'
    <2>1. \E q \in PostsIn(h, post', topic') : post'[q].user = name
        <3>1. CASE r.user = r.row.lastUser
            BY <1>5, <1>6, <1>7, <1>9, <3>1 DEF ColumnsAt
        <3>2. CASE r.user # r.row.lastUser
            <4>1. p \in PostsIn(h, post', topic')
                BY <1>1, <1>2, <1>3, <1>4 DEF PostsIn
            <4> QED BY <1>2, <1>6, <3>2, <4>1
        <3> QED BY <3>1, <3>2
    <2> QED BY <1>2, <1>4, <2>1 DEF ColumnsAt
<1>11. ASSUME NEW f \in Forums, f # h
       PROVE  ColumnsAt(f)' /\ (NameExact(f) => NameExact(f)')
    <2>1. ColumnsAt(f) /\ forum'[f] = forum[f]
        BY <1>2, <1>11 DEF Columns
    <2>2. forum[f].last # None => post'[forum[f].last] = post[forum[f].last]
        BY <1>2, <2>1 DEF ColumnsAt
    <2> QED BY <1>9, <2>1, <2>2 DEF ColumnsAt, NameExact
<1>12. ASSUME NEW o \in Slots PROVE NameLoaded(o)'
    <2>1. CASE o # s
        BY <1>1, <1>2, <1>4, <2>1 DEF Columns, NameLoaded, WInv, RequestsSound, RequestSound
    <2>2. CASE o = s
        BY <1>1, <2>2 DEF NameLoaded
    <2> QED BY <2>1, <2>2
<1>13. ASSUME Alone' PROVE (\A f \in Forums : NameExact(f))' /\ (\A o \in Slots : NameFresh(o))'
    <2>1. Alone
        BY <1>13 DEF Alone
    <2>2. NameExact(h)'
        BY <1>2, <1>6, <1>8, <2>1 DEF NameExact
    <2>3. ASSUME NEW f \in Forums, f # h PROVE NameExact(f)'
        BY <1>11, <2>1, <2>3 DEF Columns
    <2>4. ASSUME NEW o \in Slots PROVE NameFresh(o)'
        BY <1>1, <2>1 DEF OthersRest, NameFresh
    <2> QED BY <2>2, <2>3, <2>4
<1> QED BY <1>10, <1>11, <1>12, <1>13 DEF Columns

\* A request that comes to Post.save has loaded the forum as it is.
LEMMA LoadsColumns ==
    ASSUME WInv, NEW s \in Slots,
           \/ LoadNew(s) \/ LoadForum(s)
           \/ \E u \in Users, t \in Topics : LoadReply(s, u, t)
           \/ Save(s) /\ Gone(req[s].topic)
           \/ CloseTopic(s) /\ Gone(req[s].topic),
           req'[s].stage = "loaded"
    PROVE  req'[s].home \in Forums /\ req'[s].row = forum[req'[s].home]
<1> DEFINE Goal == req'[s].home \in Forums /\ req'[s].row = forum[req'[s].home]
<1>1. ASSUME NEW r \in Request, r.topic \in Topics, ~Gone(r.topic), req'[s] = Loaded(r)
      PROVE  Goal
    <2>1. topic[r.topic].forum \in Forums
        BY <1>1, Tables DEF Gone, TopicRow
    <2>2. Loaded(r).home = topic[r.topic].forum /\ Loaded(r).row = forum[topic[r.topic].forum]
        BY <1>1 DEF Loaded, Request
    <2> QED BY <1>1, <2>1, <2>2
<1> HIDE DEF Goal
<1>2. CASE LoadNew(s) /\ ~Gone(req[s].topic)
    <2>1. req[s] \in Request /\ req[s].topic \in Topics
        BY <1>2, Tables DEF LoadNew, Is, WInv, RequestsSound, RequestSound
    <2>2. req' = [req EXCEPT ![s] = Loaded(req[s])]
        BY <1>2 DEF LoadNew
    <2>3. req'[s] = Loaded(req[s])
        BY <2>2, Tables
    <2> QED BY <1>1, <1>2, <2>1, <2>3 DEF Goal
<1>3. ASSUME NEW u \in Users, NEW t \in Topics, LoadReply(s, u, t) PROVE Goal
    <2> DEFINE x == [Idle EXCEPT !.user = u, !.topic = t]
    <2>1. req'[s] = Loaded(x) /\ ~Gone(t)
        BY <1>3, Tables DEF LoadReply
    <2>2. x \in Request /\ x.topic = t
        BY IdleTyped DEF Request, Idle
    <2> HIDE DEF x
    <2> QED BY <1>1, <2>1, <2>2
<1>4. ASSUME Fail(s) PROVE FALSE
    BY <1>4, Tables DEF Fail, Idle
<1>5. ASSUME LoadForum(s) PROVE FALSE
    <2>1. req'[s] = [req[s] EXCEPT !.stage = "counting", !.row = forum[req[s].forum]]
        BY <1>5, Tables DEF LoadForum
    <2>2. req[s] \in Request
        BY Tables
    <2> QED BY <2>1, <2>2 DEF Request
<1> QED BY <1>2, <1>3, <1>4, <1>5 DEF Goal, LoadNew, Save, CloseTopic

\* The last commit of Topic.save counts the topic and leaves the forum's last post.
LEMMA ClosesColumns ==
    ASSUME WInv, NEW s \in Slots, CloseTopic(s), ~Gone(req[s].topic), NEW f \in Forums
    PROVE  /\ forum'[f].last = forum[f].last /\ forum'[f].lastUser = forum[f].lastUser
           /\ forum'[f].lastCreated = forum[f].lastCreated
<1>1. forum' = [forum EXCEPT ![req[s].forum].topics = req[s].row.topics + 1]
    BY DEF CloseTopic
<1>2. forum[f] \in ForumRow
    BY Tables
<1> QED BY <1>1, <1>2, Tables DEF ForumRow

LEMMA ColumnsStep ==
    ASSUME WInv, Never({"move", "deletetopic"}), NoMoves, AtHome, Resting, Columns,
           NEW s \in Slots, Start(s) \/ Proceed(s) \/ Crash(s)
    PROVE  Columns'
<1>0. s \in workers /\ workers' = workers /\ \A o \in Slots \ {s} : req'[o] = req[o]
    BY OnlyItsOwn
<1>1. ASSUME NEW u \in Users, NEW f \in Forums, OpenTopic(s, u, f) PROVE Columns'
    <2>1. /\ \A t \in Topics : ~Gone(t) => topic'[t].forum = topic[t].forum
          /\ req'[s].stage = "opened" /\ UNCHANGED <<post, forum>>
        BY <1>1, TopicOpens
    <2>2. ColumnsUntouched(s)
        BY <1>0, <2>1 DEF ColumnsUntouched
    <2> QED BY <2>2, ColumnsKept
<1>2. CASE Save(s) /\ ~Gone(req[s].topic)
    BY <1>0, <1>2, ColumnsSaved, AloneRests
<1>3. CASE CloseTopic(s) /\ ~Gone(req[s].topic)
    <2>1. /\ \A t \in Topics : topic'[t].forum = topic[t].forum
          /\ req'[s].stage = "idle" /\ post' = post
        BY <1>3, TopicCloses DEF Idle
    <2>2. \A f \in Forums : /\ forum'[f].last = forum[f].last
                            /\ forum'[f].lastUser = forum[f].lastUser
                            /\ forum'[f].lastCreated = forum[f].lastCreated
        BY <1>3, ClosesColumns
    <2>3. ColumnsUntouched(s)
        BY <1>0, <2>1, <2>2 DEF ColumnsUntouched
    <2> QED BY <2>3, ColumnsKept
<1>4. CASE \/ LoadNew(s) \/ LoadForum(s)
           \/ \E u \in Users, t \in Topics : LoadReply(s, u, t)
           \/ Save(s) /\ Gone(req[s].topic)
           \/ CloseTopic(s) /\ Gone(req[s].topic)
    <2>1. UNCHANGED <<post, topic, forum>>
        BY <1>4, RequestSteps
    <2>2. req'[s].stage = "loaded" => /\ req'[s].home \in Forums
                                      /\ req'[s].row = forum[req'[s].home]
        BY <1>4, LoadsColumns
    <2>3. ColumnsUntouched(s)
        BY <1>0, <2>1, <2>2 DEF ColumnsUntouched
    <2> QED BY <2>3, ColumnsKept
<1>5. CASE MovesOrDies(s)
    <2>1. UNCHANGED <<post, topic, forum>> /\ req'[s].stage = "idle"
        BY <1>5, OtherSteps DEF PointersUntouched, NoMoves, Never
    <2>2. ColumnsUntouched(s)
        BY <1>0, <2>1 DEF ColumnsUntouched
    <2> QED BY <2>2, ColumnsKept
<1>6. ASSUME NEW t \in Topics PROVE ~Remove(s, t)
    BY DEF Never, Remove
<1> QED BY <1>1, <1>2, <1>3, <1>4, <1>5, <1>6 DEF Start, Proceed, MovesOrDies

\* However requests overlap, where topics stay in their place the date a forum shows is
\* that of the post it names, and the name is that of an author in it: of that post, when
\* there is only one worker.  (The columns Post.save writes, each on its own.)
THEOREM LastColumnsStayFit == WritesSpec => []LastColumnsFit
<1>1. WritesInit => ColumnsInv
    <2> SUFFICES ASSUME WritesInit PROVE Columns
        BY DEF ColumnsInv
    <2>1. \A f \in Forums : forum[f].last = None /\ forum[f].lastUser = None
        BY DEF WritesInit, Init, BlankForum
    <2>2. \A s \in Slots : req[s].stage = "idle"
        BY DEF WritesInit, Idle
    <2> QED BY <2>1, <2>2 DEF Columns, ColumnsAt, NameLoaded, NameExact, NameFresh
<1>2. WInv /\ NewestInv /\ OneInv /\ ColumnsInv /\ [WritesNext]_writeVars => ColumnsInv'
    <2> SUFFICES ASSUME WInv, NewestInv, OneInv, ColumnsInv, [WritesNext]_writeVars,
                        Never({"move", "deletetopic"})'
                 PROVE  Columns'
        BY DEF ColumnsInv
    <2>1. Never({"move", "deletetopic"})
        BY GrantedStays DEF Never
    <2>2. NoMoves /\ AtHome /\ Columns /\ Resting
        BY <2>1 DEF NewestInv, ColumnsInv, OneInv
    <2>3. ASSUME UNCHANGED writeVars PROVE Columns'
        BY <2>2, <2>3 DEF writeVars, vars, Columns, ColumnsAt, NameLoaded, NameExact, NameFresh,
                          Alone, PostsIn
    <2>4. ASSUME NEW s \in Slots, Start(s) \/ Proceed(s) \/ Crash(s) PROVE Columns'
        BY <2>1, <2>2, <2>4, ColumnsStep
    <2> QED BY <2>3, <2>4 DEF WritesNext
<1>3. WInv /\ ColumnsInv => LastColumnsFit
    <2>1. WInv => forums \subseteq Forums
        BY DEF WInv, WritesTypeOK, TypeOK
    <2> QED BY <2>1 DEF ColumnsInv, Columns, ColumnsAt, NameExact, Alone, LastColumnsFit
<1> QED BY <1>1, <1>2, <1>3, WritesInvariance, NewestInvariance, OneInvariance, PTL
    DEF WritesSpec

-----------------------------------------------------------------------------
(* One worker that does not die: its commits are requests of               *)
(* ForumContent.  First the requests of ForumContent, from the rows a      *)
(* commit has to leave for them; then the stages of a request.  The commit *)
(* of a post, of a move and of a deletion is that request of ForumContent, *)
(* all other steps leave the content as it is shown.                       *)

\* The content, seen as the request of the only worker is going to leave it, makes a step
\* of ForumContent or none.
Advances == Content!Next \/ UNCHANGED Content!vars

LEMMA ContentRests ==
    ASSUME UNCHANGED <<post, tally, forums, users, granted>>,
           contentTopic' = contentTopic, contentForum' = contentForum,
           contentClock' = contentClock
    PROVE  Advances
BY DEF Advances, Content!vars

LEMMA ContentGains ==
    ASSUME NEW u \in Users, NEW f \in Forums, NEW t \in Topics, NEW p \in PostIds,
           "posttopic" \in granted, u \in users, f \in forums,
           contentClock < MaxTime, contentClock' = contentClock + 1,
           contentTopic[t].forum = None, NextId(p),
           post' = [post EXCEPT ![p] = [topic |-> t, user |-> u,
                                        hidden |-> FALSE, created |-> contentClock']],
           contentTopic' = [contentTopic EXCEPT
                              ![t] = [forum |-> f, user |-> u, hidden |-> FALSE,
                                      first |-> p, last |-> p,
                                      updated |-> contentClock', posts |-> 1]],
           contentForum' = [contentForum EXCEPT ![f] = WithNewPost(@, p, u, contentClock', 1)],
           tally' = [tally EXCEPT ![u] = @ + 1],
           UNCHANGED <<forums, users, granted>>
    PROVE  Advances
<1>1. Content!NextId(p)
    BY DEF Content!NextId, NextId, Content!PostIds, PostIds
<1>2. t \in Topics \ Content!LiveTopics(contentTopic)
    BY DEF Content!LiveTopics
<1>3. p \in Content!PostIds
    BY DEF Content!PostIds, PostIds
<1>4. contentForum' = [contentForum EXCEPT
                         ![f] = Content!WithNewPost(@, p, u, contentClock', 1)]
    BY DEF Content!WithNewPost, WithNewPost, Content!WithLast, WithLast
<1>5. Content!NewTopic(u, f)
    BY <1>1, <1>2, <1>3, <1>4 DEF Content!NewTopic
<1> QED BY <1>5 DEF Advances, Content!Next

LEMMA ContentReplies ==
    ASSUME NEW u \in Users, NEW t \in Topics, NEW p \in PostIds, NEW f,
           "postreply" \in granted, u \in users,
           contentClock < MaxTime, contentClock' = contentClock + 1,
           contentTopic[t].forum # None, ~contentTopic[t].hidden,
           f = contentTopic[t].forum, NextId(p),
           post' = [post EXCEPT ![p] = [topic |-> t, user |-> u,
                                        hidden |-> FALSE, created |-> contentClock']],
           contentTopic' = [contentTopic EXCEPT ![t].last = p, ![t].updated = contentClock',
                                                ![t].posts = @ + 1],
           contentForum' = [contentForum EXCEPT ![f] = WithNewPost(@, p, u, contentClock', 0)],
           tally' = [tally EXCEPT ![u] = @ + 1],
           UNCHANGED <<forums, users, granted>>
    PROVE  Advances
<1>1. Content!NextId(p)
    BY DEF Content!NextId, NextId, Content!PostIds, PostIds
<1>2. t \in Content!LiveTopics(contentTopic)
    BY DEF Content!LiveTopics
<1>3. p \in Content!PostIds
    BY DEF Content!PostIds, PostIds
<1>4. contentForum' = [contentForum EXCEPT
                         ![contentTopic[t].forum] = Content!WithNewPost(@, p, u, contentClock', 0)]
    BY DEF Content!WithNewPost, WithNewPost, Content!WithLast, WithLast
<1>5. Content!Reply(u, t)
    BY <1>1, <1>2, <1>3, <1>4 DEF Content!Reply
<1> QED BY <1>5 DEF Advances, Content!Next

\* The pieces the two modules share.
LEMMA SamePieces ==
    /\ \A row, f, P, T : Content!UpdateLastPost(row, f, P, T) = UpdateLastPost(row, f, P, T)
    /\ \A row, f, P, T : Content!FixPostCounts(row, f, P, T) = FixPostCounts(row, f, P, T)
    /\ \A gone, P : Content!WithoutTopics(gone, P) = WithoutTopics(gone, P)
<1>1. \A f, P, T : Content!PostsIn(f, P, T) = PostsIn(f, P, T)
    BY DEF Content!PostsIn, PostsIn, Content!PostIds, PostIds
<1>2. ASSUME NEW row, NEW f, NEW P, NEW T
      PROVE  Content!UpdateLastPost(row, f, P, T) = UpdateLastPost(row, f, P, T)
    <2>1. /\ \A S : Content!Newest(S) = Newest(S)
          /\ \A p, name, time : Content!WithLast(row, p, name, time) = WithLast(row, p, name, time)
          /\ Content!WithoutLast(row) = WithoutLast(row)
        BY DEF Content!Newest, Newest, Content!WithoutLast, WithoutLast,
               Content!WithLast, WithLast
    <2>2. Content!PostsIn(f, P, T) = PostsIn(f, P, T)
        BY <1>1
    <2> DEFINE all  == PostsIn(f, P, T)
               last == Newest(all)
    <2>3. UpdateLastPost(row, f, P, T) =
            IF all = {} THEN WithoutLast(row)
            ELSE IF last = row.last THEN row
            ELSE WithLast(row, last, P[last].user, P[last].created)
        BY DEF UpdateLastPost
    <2>4. Content!Newest(all) = last
        BY <2>1
    <2>5. Content!UpdateLastPost(row, f, P, T) =
            IF all = {} THEN Content!WithoutLast(row)
            ELSE IF Content!Newest(all) = row.last THEN row
            ELSE Content!WithLast(row, Content!Newest(all), P[Content!Newest(all)].user,
                                  P[Content!Newest(all)].created)
        BY <2>2, Zenon DEF Content!UpdateLastPost
    <2> HIDE DEF all, last
    <2> QED BY <2>1, <2>3, <2>4, <2>5
<1>3. \A row, f, P, T : Content!FixPostCounts(row, f, P, T) = FixPostCounts(row, f, P, T)
    <2>1. \A S : Content!Cardinality(S) = Cardinality(S)
        BY DEF Content!Cardinality, Cardinality
    <2> QED BY <1>1, <2>1 DEF Content!FixPostCounts, FixPostCounts, Content!ShownTopicsIn,
            ShownTopicsIn, Content!TopicsIn, TopicsIn, Content!UnhiddenIn, UnhiddenIn
<1>4. \A gone, P : Content!WithoutTopics(gone, P) = WithoutTopics(gone, P)
    BY DEF Content!WithoutTopics, WithoutTopics, Content!BlankPost, BlankPost,
           Content!PostIds, PostIds
<1> QED BY <1>2, <1>3, <1>4

\* A topic of n posts goes from one forum to the other.
Fewer(row, n) == [row EXCEPT !.posts = @ - n, !.topics = @ - 1]
Further(row, n) == [row EXCEPT !.posts = @ + n, !.topics = @ + 1]
ForumsMoved(F, f, g, n, P, T) ==
    [F EXCEPT ![f] = UpdateLastPost(Fewer(F[f], n), f, P, T),
              ![g] = UpdateLastPost(Further(F[g], n), g, P, T)]

LEMMA ContentMoves ==
    ASSUME NEW t \in Topics, NEW f, NEW g \in Forums,
           "move" \in granted, contentTopic[t].forum = f, f # None, g \in forums, f # g,
           contentTopic' = [contentTopic EXCEPT ![t].forum = g],
           contentForum' = ForumsMoved(contentForum, f, g, contentTopic[t].posts,
                                       post, contentTopic'),
           contentClock' = contentClock,
           UNCHANGED <<post, tally, forums, users, granted>>
    PROVE  Advances
<1>1. t \in Content!LiveTopics(contentTopic)
    BY DEF Content!LiveTopics
<1>2. Content!MoveTopic(t, g)
    BY <1>1, SamePieces DEF Content!MoveTopic, ForumsMoved, Fewer, Further
<1> QED BY <1>2 DEF Advances, Content!Next

\* A forum that named the last post of the topic that went looks for another one.
LooksAgain(row, last, f, P, T) ==
    IF row.last = None \/ row.last = last THEN UpdateLastPost(row, f, P, T) ELSE row

LEMMA ContentRemoves ==
    ASSUME NEW t \in Topics, NEW f, f = contentTopic[t].forum, f # None,
           "deletetopic" \in granted, post' = WithoutTopics({t}, post),
           contentTopic' = [contentTopic EXCEPT ![t] = BlankTopic],
           tally' = FixUserPostCounts(InvolvedUsers(t), post', contentTopic'),
           NEW row, row = FixPostCounts(contentForum[f], f, post', contentTopic'),
           contentForum' = [contentForum EXCEPT ![f] =
                              LooksAgain(row, contentTopic[t].last, f, post', contentTopic')],
           contentClock' = contentClock,
           UNCHANGED <<forums, users, granted>>
    PROVE  Advances
<1>1. t \in Content!LiveTopics(contentTopic)
    BY DEF Content!LiveTopics
<1>2. Content!InvolvedUsers(t) = InvolvedUsers(t)
    BY DEF Content!InvolvedUsers, InvolvedUsers, Content!PostsOf, PostsOf,
           Content!PostIds, PostIds
<1>3. \A I, P, T : Content!FixUserPostCounts(I, P, T) = FixUserPostCounts(I, P, T)
    <2>1. \A S : Content!Cardinality(S) = Cardinality(S)
        BY DEF Content!Cardinality, Cardinality
    <2>2. \A u, P, T : Content!ShownBy(u, P, T) = ShownBy(u, P, T)
        BY DEF Content!ShownBy, ShownBy, Content!ShownPosts, ShownPosts,
               Content!PostIds, PostIds
    <2> QED BY <2>1, <2>2 DEF Content!FixUserPostCounts, FixUserPostCounts
<1>4. Content!BlankTopic = BlankTopic
    BY DEF Content!BlankTopic, BlankTopic
<1>5. Content!DeleteTopic(t)
    BY <1>2, <1>3, <1>4, SamePieces DEF Content!DeleteTopic, LooksAgain
<1>6. Content!RemoveTopic(t)
    BY <1>1, <1>5 DEF Content!RemoveTopic
<1> QED BY <1>6 DEF Advances, Content!Next

-----------------------------------------------------------------------------
(* The last post as it is shown.                                           *)

\* Ids and dates order the posts alike: the post that was written last has both the
\* largest id and the latest date, whichever the code looks for.
DatesInOrder(P) ==
    \A p, q \in PostIds : P[p].topic # None /\ P[q].topic # None /\ p < q
                          => P[p].created < P[q].created

LatestBy(S, P) == CHOOSE p \in S : \A q \in S : P[q].created <= P[p].created
LatestIn(row, f, P, T) ==
    LET all  == PostsIn(f, P, T)
        last == LatestBy(all, P)
    IN  IF all = {} THEN WithoutLast(row)
        ELSE IF last = row.last THEN row
        ELSE WithLast(row, last, P[last].user, P[last].created)

\* Topics that name their last posts know the newest one of the forum.
LEMMA LatestIsNewest ==
    ASSUME NEW P \in [PostIds -> PostRow], DatesInOrder(P), NEW S \in SUBSET PostIds,
           S # {}, \A p \in S : P[p].topic # None
    PROVE  LatestBy(S, P) = Newest(S)
<1> DEFINE n == Newest(S)
           l == LatestBy(S, P)
<1>1. n \in S /\ \A q \in S : q <= n
    BY NewestIsLargest
<1>2. \A q \in S : q \in Int /\ P[q].created \in Int
    BY DEF PostRow, PostIds, Times
<1>3. \A q \in S : P[q].created <= P[n].created
    <2> HIDE DEF n
    <2> SUFFICES ASSUME NEW q \in S PROVE P[q].created <= P[n].created
        OBVIOUS
    <2>1. CASE q = n
        BY <1>1, <1>2, <2>1
    <2>2. CASE q # n
        BY <1>1, <1>2, <2>2 DEF DatesInOrder
    <2> QED BY <2>1, <2>2
<1>4. l \in S /\ \A q \in S : P[q].created <= P[l].created
    BY <1>1, <1>3 DEF LatestBy
<1> HIDE DEF n, l
<1>5. ~(l < n)
    BY <1>1, <1>2, <1>4 DEF DatesInOrder
<1> QED BY <1>1, <1>2, <1>4, <1>5 DEF n, l

LEMMA LooksForNewest ==
    ASSUME NEW P \in [PostIds -> PostRow], DatesInOrder(P), NEW row, NEW f, NEW T
    PROVE  LatestIn(row, f, P, T) = UpdateLastPost(row, f, P, T)
<1> DEFINE all == PostsIn(f, P, T)
<1>1. all \in SUBSET PostIds /\ \A p \in all : P[p].topic # None
    BY DEF PostsIn
<1>2. all # {} => LatestBy(all, P) = Newest(all)
    <2> HIDE DEF all
    <2> QED BY <1>1, LatestIsNewest
<1> QED BY <1>2 DEF LatestIn, UpdateLastPost

\* The content a request r leaves, once what it still has to do is done.
ShownTopic(r, T) ==
    IF r.stage \in {"opened", "loaded"} /\ r.new THEN [T EXCEPT ![r.topic] = BlankTopic]
    ELSE IF r.stage \in {"saved", "counting"} THEN [T EXCEPT ![r.topic].first = r.post]
    ELSE T
ShownForum(r, F, P, T) ==
    [f \in Forums |->
        IF r.stage \in {"saved", "counting"} /\ f = r.forum
        THEN [F[f] EXCEPT !.topics = @ + 1]
        ELSE IF \/ r.stage \in {"moved", "settled"} /\ f = r.forum
                \/ r.stage = "moved" /\ f = r.to
        THEN UpdateLastPost(F[f], f, P, T)
        ELSE F[f]]
ShownClock(r, c) == IF r.stage = "loaded" THEN c - 1 ELSE c

LEMMA ContentNow ==
    ASSUME WInv, DatesInOrder(post), NEW s \in Slots, workers = {s}
    PROVE  /\ contentTopic = ShownTopic(req[s], topic)
           /\ contentForum = ShownForum(req[s], forum, post, topic)
           /\ contentClock = ShownClock(req[s], clock)
<1>1. current = req[s]
    BY DEF current
<1>2. contentForum = [f \in Forums |->
        IF req[s].stage \in {"saved", "counting"} /\ f = req[s].forum
        THEN [forum[f] EXCEPT !.topics = @ + 1]
        ELSE IF \/ req[s].stage \in {"moved", "settled"} /\ f = req[s].forum
                \/ req[s].stage = "moved" /\ f = req[s].to
        THEN LatestIn(forum[f], f, post, topic)
        ELSE forum[f]]
    BY <1>1 DEF contentForum, LatestPost, Latest, LatestIn, LatestBy
<1>3. \A row, f : LatestIn(row, f, post, topic) = UpdateLastPost(row, f, post, topic)
    BY Tables, LooksForNewest
<1>4. contentForum = ShownForum(req[s], forum, post, topic)
    BY <1>2, <1>3 DEF ShownForum
<1> QED BY <1>1, <1>4 DEF contentTopic, ShownTopic, contentClock, ShownClock

LEMMA ContentNext ==
    ASSUME WInv', DatesInOrder(post'), NEW s \in Slots, workers' = {s}
    PROVE  /\ contentTopic' = ShownTopic(req'[s], topic')
           /\ contentForum' = ShownForum(req'[s], forum', post', topic')
           /\ contentClock' = ShownClock(req'[s], clock')
<1>1. current' = req'[s]
    BY DEF current
<1>2. contentForum' = [f \in Forums |->
        IF req'[s].stage \in {"saved", "counting"} /\ f = req'[s].forum
        THEN [forum'[f] EXCEPT !.topics = @ + 1]
        ELSE IF \/ req'[s].stage \in {"moved", "settled"} /\ f = req'[s].forum
                \/ req'[s].stage = "moved" /\ f = req'[s].to
        THEN LatestIn(forum'[f], f, post', topic')
        ELSE forum'[f]]
    BY <1>1 DEF contentForum, LatestPost, Latest, LatestIn, LatestBy
<1>3. \A row, f : LatestIn(row, f, post', topic') = UpdateLastPost(row, f, post', topic')
    <2>1. post' \in [PostIds -> PostRow]
        BY DEF WInv, WritesTypeOK, TypeOK
    <2> QED BY <2>1, LooksForNewest
<1>4. contentForum' = ShownForum(req'[s], forum', post', topic')
    BY <1>2, <1>3 DEF ShownForum
<1> QED BY <1>1, <1>4 DEF contentTopic, ShownTopic, contentClock, ShownClock

\* What the tables and the request of the only worker have in common.
Steady(s) ==
    LET r == req[s] IN
    /\ users = Users /\ forums = Forums
    /\ \A t \in Topics : Gone(t) => topic[t] = BlankTopic
    /\ DatesInOrder(post)
    /\ \A p \in PostIds : post[p].topic # None => post[p].created <= ShownClock(r, clock)
    /\ r.new /\ r.stage \in {"opened", "loaded"} =>
        /\ "posttopic" \in granted
        /\ topic[r.topic] = [BlankTopic EXCEPT !.forum = r.forum, !.user = r.user,
                                               !.updated = topic[r.topic].updated]
    /\ r.stage = "loaded" =>
        /\ r.time = clock /\ ~Gone(r.topic) /\ r.row.lastUser = forum[r.home].lastUser
        /\ ~r.new => "postreply" \in granted
    /\ r.stage \in {"saved", "counting"} => topic[r.topic].last = r.post
    /\ r.stage = "moving" => /\ r.row.topics = forum[r.forum].topics
                             /\ r.toRow.topics = forum[r.to].topics
    /\ r.stage \in {"moved", "settled"} => r.forum # r.to

\* The only worker has the request s.
Only(s) == WInv /\ Sole /\ Steady(s) /\ OthersRest(s) /\ workers = {s}

\* Nothing else takes the topic of its request away.
LEMMA NeverGone ==
    ASSUME NEW s \in Slots, Only(s),
           req[s].stage \in {"opened", "loaded", "saved", "counting", "moving"}
    PROVE  ~Gone(req[s].topic)
<1> DEFINE r == req[s]
<1>1. RequestSound(r) /\ FreshOf(s) /\ Steady(s)
    BY DEF Only, WInv, RequestsSound, Sole
<1>2. CASE r.stage = "loaded" \/ r.stage = "moving"
    BY <1>1, <1>2 DEF Steady, FreshOf, Gone
<1>3. CASE r.stage \in {"opened", "saved", "counting"}
    <2>1. Creates(r) /\ r.forum \in Forums
        BY <1>1, <1>3 DEF RequestSound, Creates
    <2> QED BY <1>1, <2>1, NullIsNoId DEF FreshOf, Gone
<1> QED BY <1>2, <1>3

\* A step that leaves the content as it is shown.
LEMMA ShownStays ==
    ASSUME NEW s \in Slots, Only(s), WInv', Steady(s)', workers' = workers,
           UNCHANGED <<post, tally, forums, users, granted>>,
           ShownTopic(req'[s], topic') = ShownTopic(req[s], topic),
           ShownForum(req'[s], forum', post', topic') = ShownForum(req[s], forum, post, topic),
           ShownClock(req'[s], clock') = ShownClock(req[s], clock)
    PROVE  Advances
<1>1. DatesInOrder(post) /\ DatesInOrder(post')
    BY DEF Only, Steady
<1>2. /\ contentTopic = ShownTopic(req[s], topic)
      /\ contentForum = ShownForum(req[s], forum, post, topic)
      /\ contentClock = ShownClock(req[s], clock)
    BY <1>1, ContentNow DEF Only
<1>3. /\ contentTopic' = ShownTopic(req'[s], topic')
      /\ contentForum' = ShownForum(req'[s], forum', post', topic')
      /\ contentClock' = ShownClock(req'[s], clock')
    BY <1>1, ContentNext DEF Only
<1> QED BY <1>2, <1>3, ContentRests

\* At these stages the forums are shown as they are.
LEMMA ForumsAsTheyAre ==
    ASSUME NEW r, NEW P, NEW T, NEW F \in [Forums -> ForumRow],
           r.stage \in {"idle", "opened", "loaded", "moving"}
    PROVE  ShownForum(r, F, P, T) = F
BY DEF ShownForum

LEMMA OpensUnseen ==
    ASSUME NEW s \in Slots, Only(s), WInv', workers' = workers, NEW u \in Users,
           NEW f \in Forums, OpenTopic(s, u, f)
    PROVE  Steady(s)' /\ Advances
<1>1. PICK t \in Topics \ LiveTopics(topic) :
        /\ topic' = [topic EXCEPT ![t] = NewRow(u, f)]
        /\ req' = [req EXCEPT ![s] = [Idle EXCEPT !.stage = "opened", !.new = TRUE,
                                        !.user = u, !.topic = t, !.forum = f]]
    BY DEF OpenTopic
<1>2. /\ req[s].stage = "idle" /\ "posttopic" \in granted
      /\ UNCHANGED <<post, forum, tally, forums, users, clock, granted>>
    BY DEF OpenTopic, Is
<1>3. /\ topic \in [Topics -> TopicRow] /\ forum \in [Forums -> ForumRow]
      /\ req \in [Slots -> Request]
    BY Tables DEF Only
<1>4. /\ topic'[t] = NewRow(u, f) /\ \A o \in Topics \ {t} : topic'[o] = topic[o]
    BY <1>1, <1>3
<1>5. /\ req'[s].stage = "opened" /\ req'[s].new /\ req'[s].topic = t
      /\ req'[s].forum = f /\ req'[s].user = u
    BY <1>1, <1>3 DEF Idle
<1>6. topic[t] = BlankTopic
    BY DEF Only, Steady, Gone, LiveTopics
<1>7. Steady(s)'
    <2>1. NewRow(u, f) = [BlankTopic EXCEPT !.forum = f, !.user = u,
                                            !.updated = NewRow(u, f).updated]
        BY DEF NewRow, BlankTopic
    <2>2. NewRow(u, f).forum = f /\ f # None
        BY NullIsNoId DEF NewRow, BlankTopic
    <2>3. \A o \in Topics : Gone(o)' => topic'[o] = BlankTopic
        BY <1>4, <2>2 DEF Only, Steady, Gone
    <2>4. ShownClock(req'[s], clock') = ShownClock(req[s], clock)
        BY <1>2, <1>5 DEF ShownClock
    <2> QED BY <1>2, <1>4, <1>5, <2>1, <2>3, <2>4 DEF Only, Steady
<1>8. ShownTopic(req'[s], topic') = ShownTopic(req[s], topic)
    <2>1. ShownTopic(req[s], topic) = topic
        BY <1>2 DEF ShownTopic
    <2>2. ShownTopic(req'[s], topic') = [topic' EXCEPT ![t] = BlankTopic]
        BY <1>5 DEF ShownTopic
    <2>3. [topic' EXCEPT ![t] = BlankTopic] = topic
        BY <1>1, <1>3, <1>6
    <2> QED BY <2>1, <2>2, <2>3
<1>9. /\ ShownForum(req'[s], forum', post', topic') = ShownForum(req[s], forum, post, topic)
      /\ ShownClock(req'[s], clock') = ShownClock(req[s], clock)
    BY <1>2, <1>3, <1>5, ForumsAsTheyAre DEF ShownClock
<1> QED BY <1>2, <1>7, <1>8, <1>9, ShownStays

LEMMA LoadsUnseen ==
    ASSUME NEW s \in Slots, Only(s), WInv', workers' = workers,
           \/ LoadNew(s)
           \/ \E u \in Users, t \in Topics : LoadReply(s, u, t)
    PROVE  Steady(s)' /\ Advances
<1>0. /\ topic \in [Topics -> TopicRow] /\ forum \in [Forums -> ForumRow]
      /\ req \in [Slots -> Request] /\ clock \in Int
    <2>1. clock \in Int
        BY DEF Only, WInv, WritesTypeOK, TypeOK, Times
    <2> QED BY <2>1, Tables DEF Only
<1>1. PICK r \in Request :
        /\ req' = [req EXCEPT ![s] = Loaded(r)] /\ ~Gone(r.topic)
        /\ \/ r = req[s] /\ r.stage = "opened" /\ r.new
           \/ ~r.new /\ req[s].stage = "idle" /\ "postreply" \in granted
        /\ clock' = clock + 1
        /\ UNCHANGED <<post, topic, forum, tally, forums, users, granted>>
    <2>1. CASE LoadNew(s)
        <3>1. req[s].stage = "opened" /\ req[s].new
            BY <2>1 DEF LoadNew, Is, Only, WInv, RequestsSound, RequestSound
        <3>2. ~Gone(req[s].topic)
            BY <3>1, NeverGone
        <3> QED BY <1>0, <2>1, <3>1, <3>2 DEF LoadNew
    <2>2. ASSUME NEW u \in Users, NEW t \in Topics, LoadReply(s, u, t)
          PROVE  \E r \in Request :
                    /\ req' = [req EXCEPT ![s] = Loaded(r)] /\ ~Gone(r.topic)
                    /\ ~r.new /\ req[s].stage = "idle" /\ "postreply" \in granted
                    /\ clock' = clock + 1
                    /\ UNCHANGED <<post, topic, forum, tally, forums, users, granted>>
        <3> DEFINE x == [Idle EXCEPT !.user = u, !.topic = t]
        <3>1. x \in Request /\ ~x.new /\ x.topic = t
            BY IdleTyped DEF Request, Idle
        <3>2. /\ req' = [req EXCEPT ![s] = Loaded(x)] /\ ~Gone(t)
              /\ req[s].stage = "idle" /\ "postreply" \in granted
              /\ clock' = clock + 1
              /\ UNCHANGED <<post, topic, forum, tally, forums, users, granted>>
            BY <2>2 DEF LoadReply, Is
        <3> HIDE DEF x
        <3> QED BY <3>1, <3>2
    <2> QED BY <2>1, <2>2
<1>2. req'[s] = Loaded(r)
    BY <1>0, <1>1
<1>3. /\ Loaded(r).stage = "loaded" /\ Loaded(r).topic = r.topic /\ Loaded(r).user = r.user
      /\ Loaded(r).home = topic[r.topic].forum /\ Loaded(r).time = clock + 1
      /\ Loaded(r).row = forum[topic[r.topic].forum]
      /\ Loaded(r).new = r.new /\ Loaded(r).forum = r.forum
    BY DEF Loaded, Request
<1>4. ShownClock(req'[s], clock') = ShownClock(req[s], clock)
    BY <1>0, <1>1, <1>2, <1>3 DEF ShownClock
<1>5. Steady(s)'
    <2>1. \A t \in Topics : Gone(t)' => topic'[t] = BlankTopic
        BY <1>1 DEF Only, Steady, Gone
    <2>2. /\ DatesInOrder(post')
          /\ \A p \in PostIds : post'[p].topic # None
                                => post'[p].created <= ShownClock(req'[s], clock')
        BY <1>1, <1>4 DEF Only, Steady
    <2>3. r.new => /\ "posttopic" \in granted
                   /\ topic[r.topic] = [BlankTopic EXCEPT !.forum = r.forum, !.user = r.user,
                                                  !.updated = topic[r.topic].updated]
        BY <1>1 DEF Only, Steady
    <2>4. topic'[r.topic].forum # None
        BY <1>1 DEF Gone
    <2>5. /\ users' = Users /\ forums' = Forums
          /\ ~r.new => "postreply" \in granted'
        BY <1>1 DEF Only, Steady
    <2>6. PICK x : x = req'[s]
        OBVIOUS
    <2>7. /\ x.stage = "loaded" /\ x.topic = r.topic /\ x.user = r.user /\ x.time = clock'
          /\ x.forum = r.forum /\ x.new = r.new /\ x.row.lastUser = forum'[x.home].lastUser
        BY <1>1, <1>2, <1>3, <2>6
    <2>8. x.new => /\ "posttopic" \in granted'
                   /\ topic'[x.topic] = [BlankTopic EXCEPT !.forum = x.forum, !.user = x.user,
                                                      !.updated = topic'[x.topic].updated]
        <3>1. topic' = topic /\ granted' = granted
            BY <1>1
        <3> QED BY <2>3, <2>7, <3>1
    <2>9. topic'[x.topic].forum # None
        BY <2>4, <2>7
    <2> QED BY <2>1, <2>2, <2>5, <2>6, <2>7, <2>8, <2>9 DEF Steady, Gone
<1>6. ShownTopic(req'[s], topic') = ShownTopic(req[s], topic)
    <2>1. CASE r = req[s] /\ r.stage = "opened" /\ r.new
        <3>1. /\ ShownTopic(req'[s], topic') = [topic' EXCEPT ![r.topic] = BlankTopic]
              /\ ShownTopic(req[s], topic) = [topic EXCEPT ![r.topic] = BlankTopic]
            BY <1>2, <1>3, <2>1 DEF ShownTopic
        <3> QED BY <1>1, <3>1
    <2>2. CASE ~r.new /\ req[s].stage = "idle"
        BY <1>1, <1>2, <1>3, <2>2 DEF ShownTopic
    <2> QED BY <1>1, <2>1, <2>2
<1>7. ShownForum(req'[s], forum', post', topic') = ShownForum(req[s], forum, post, topic)
    BY <1>0, <1>1, <1>2, <1>3, ForumsAsTheyAre
<1> QED BY <1>1, <1>4, <1>5, <1>6, <1>7, ShownStays

-----------------------------------------------------------------------------
(* The stages, one lemma each.                                             *)

LEMMA SameRow ==
    ASSUME NEW x \in ForumRow, NEW y \in ForumRow,
           x.last = y.last, x.lastUser = y.lastUser, x.lastCreated = y.lastCreated,
           x.topics = y.topics, x.posts = y.posts
    PROVE  x = y
BY DEF ForumRow

LEMMA RowsOfPost ==
    ASSUME NEW row \in ForumRow, NEW r \in Request, NEW p \in PostIds, r.user \in Users,
           r.row.lastUser = row.lastUser, r.row.posts = row.posts
    PROVE  /\ SavedForum(row, r, p) = WithNewPost(row, p, r.user, r.time, 0)
           /\ [SavedForum(row, r, p) EXCEPT !.topics = @ + 1]
                = WithNewPost(row, p, r.user, r.time, 1)
<1> DEFINE saved == SavedForum(row, r, p)
<1>1. /\ row.posts \in Int /\ row.topics \in Int /\ row.topics + 0 = row.topics
      /\ row.posts + 1 \in Int /\ row.topics + 1 \in Int
      /\ r.row.posts + 1 = row.posts + 1 /\ r.time \in Times
    BY DEF ForumRow, Request
<1>2. Written(row.lastUser, r.row.lastUser, r.user) = r.user
    BY DEF Written
<1>3. /\ saved \in ForumRow /\ saved.last = p /\ saved.lastUser = r.user
      /\ saved.lastCreated = r.time /\ saved.topics = row.topics
      /\ saved.posts = row.posts + 1
    <2>1. saved = [row EXCEPT !.last = p, !.lastUser = r.user, !.lastCreated = r.time,
                              !.posts = row.posts + 1]
        BY <1>1, <1>2 DEF SavedForum
    <2> HIDE DEF saved
    <2> QED BY <1>1, <2>1 DEF ForumRow
<1>4. ASSUME NEW k \in {0, 1}, NEW w, w = WithNewPost(row, p, r.user, r.time, k)
      PROVE  /\ w \in ForumRow /\ w.last = p /\ w.lastUser = r.user
             /\ w.lastCreated = r.time /\ w.topics = row.topics + k
             /\ w.posts = row.posts + 1
    <2>1. row.topics + k \in Int
        BY <1>1
    <2>2. PICK v : v = WithLast(row, p, r.user, r.time)
        OBVIOUS
    <2>3. /\ v \in ForumRow /\ v.last = p /\ v.lastUser = r.user /\ v.lastCreated = r.time
          /\ v.topics = row.topics /\ v.posts = row.posts
        BY <1>1, <2>2 DEF WithLast, ForumRow
    <2>4. w = [v EXCEPT !.posts = @ + 1, !.topics = @ + k]
        BY <1>4, <2>2 DEF WithNewPost
    <2>5. w = [v EXCEPT !.posts = row.posts + 1, !.topics = row.topics + k]
        BY <2>3, <2>4
    <2> QED BY <1>1, <2>1, <2>3, <2>5 DEF ForumRow
<1> HIDE DEF saved
<1>5. saved = WithNewPost(row, p, r.user, r.time, 0)
    BY <1>1, <1>3, <1>4, SameRow
<1>6. PICK more : more = [saved EXCEPT !.topics = @ + 1]
    OBVIOUS
<1>7. /\ more \in ForumRow /\ more.last = p /\ more.lastUser = r.user
      /\ more.lastCreated = r.time /\ more.topics = row.topics + 1
      /\ more.posts = row.posts + 1
    BY <1>1, <1>3, <1>6 DEF ForumRow
<1>8. more = WithNewPost(row, p, r.user, r.time, 1)
    BY <1>4, <1>7, SameRow
<1> QED BY <1>5, <1>6, <1>8 DEF saved

LEMMA FirstPostRow ==
    ASSUME NEW row \in TopicRow, NEW p \in PostIds
    PROVE  [row EXCEPT !.first = p]
             = [forum |-> row.forum, user |-> row.user, hidden |-> row.hidden, first |-> p,
                last |-> row.last, updated |-> row.updated, posts |-> row.posts]
BY DEF TopicRow

\* The commit of a post is what adds it, and the topic it opens.
LEMMA SaveIsPost ==
    ASSUME NEW s \in Slots, Only(s), WInv', workers' = workers, Save(s)
    PROVE  Steady(s)' /\ Advances
<1>1. PICK r \in Request : r = req[s]
    BY Tables DEF Only
<1>2. r.stage = "loaded" /\ ~Gone(r.topic)
    BY <1>1, NeverGone DEF Save, Is
<1>3. PICK p \in PostIds :
        /\ NextId(p) /\ post[p].topic = None
        /\ post' = [post EXCEPT ![p] = [topic |-> r.topic, user |-> r.user,
                                        hidden |-> FALSE, created |-> r.time]]
        /\ topic' = [topic EXCEPT ![r.topic] = SavedTopic(topic[r.topic], r, p)]
        /\ forum' = [forum EXCEPT ![r.home] = SavedForum(forum[r.home], r, p)]
        /\ req' = [req EXCEPT ![s] = IF r.new
                     THEN [r EXCEPT !.stage = "saved", !.post = p] ELSE Idle]
        /\ SavedTopic(topic[r.topic], r, p) \in TopicRow
        /\ SavedForum(forum[r.home], r, p) \in ForumRow
    BY <1>1, <1>2, SaveFacts DEF Only
<1>4. /\ r.topic \in Topics /\ r.user \in Users /\ r.home \in Forums
      /\ tally' = [tally EXCEPT ![r.user] = SavedTally(r)]
      /\ UNCHANGED <<forums, users, clock, granted>>
    BY <1>1, <1>2, SaveFacts DEF Only
<1>5. /\ r.home = topic[r.topic].forum /\ r.row.posts = forum[r.home].posts
      /\ r.posts = topic[r.topic].posts /\ r.tally = tally[r.user]
      /\ r.new => topic[r.topic].forum = r.forum
    BY <1>1, <1>2 DEF Only, Sole, FreshOf, Creates
<1>6. /\ r.time = clock /\ r.row.lastUser = forum[r.home].lastUser
      /\ ~r.new => "postreply" \in granted
      /\ r.new => /\ "posttopic" \in granted
                  /\ topic[r.topic] = [BlankTopic EXCEPT !.forum = r.forum, !.user = r.user,
                                                    !.updated = topic[r.topic].updated]
    BY <1>1, <1>2 DEF Only, Steady
<1>7. /\ post \in [PostIds -> PostRow] /\ topic \in [Topics -> TopicRow]
      /\ forum \in [Forums -> ForumRow] /\ req \in [Slots -> Request]
      /\ clock \in Int /\ clock \in Times /\ users = Users /\ forums = Forums
    <2>1. clock \in Int /\ clock \in Times
        BY DEF Only, WInv, WritesTypeOK, TypeOK, Times
    <2> QED BY <2>1, Tables DEF Only, Steady
<1>8. PICK x : x = req'[s]
    OBVIOUS
<1>9. \/ r.new /\ x.stage = "saved" /\ x.forum = r.home /\ x.topic = r.topic /\ x.post = p
      \/ ~r.new /\ x.stage = "idle"
    <2>1. CASE r.new
        <3>1. x = [r EXCEPT !.stage = "saved", !.post = p]
            BY <1>3, <1>7, <1>8, <2>1
        <3> QED BY <1>5, <2>1, <3>1 DEF Request
    <2>2. CASE ~r.new
        BY <1>3, <1>7, <1>8, <2>2 DEF Idle
    <2> QED BY <2>1, <2>2
<1>10. ShownClock(r, clock) = clock - 1 /\ ShownClock(x, clock') = clock
    BY <1>2, <1>4, <1>9 DEF ShownClock
<1>11. /\ topic'[r.topic] = SavedTopic(topic[r.topic], r, p)
       /\ \A t \in Topics \ {r.topic} : topic'[t] = topic[t]
       /\ topic[r.topic] \in TopicRow
    BY <1>3, <1>4, <1>7
<1>12. /\ topic'[r.topic].forum = topic[r.topic].forum /\ topic'[r.topic].last = p
    BY <1>11 DEF SavedTopic, TopicRow
<1>13. Steady(s)'
    <2>1. \A t \in Topics : topic'[t].forum = None => topic'[t] = BlankTopic
        BY <1>2, <1>11, <1>12 DEF Only, Steady, Gone
    <2>2. /\ \A q \in PostIds : post[q].topic # None => q < p
          /\ post'[p].created = clock /\ \A q \in PostIds \ {p} : post'[q] = post[q]
        BY <1>3, <1>6, <1>7, NextIdIsFresh
    <2>3. \A q \in PostIds : post[q].topic # None => post[q].created <= clock - 1
        BY <1>1, <1>10 DEF Only, Steady
    <2>4. \A q \in PostIds : q \in Int /\ post[q].created \in Int /\ post'[q].created \in Int
        BY <1>7, <2>2 DEF PostIds, PostRow, Times
    <2>5. DatesInOrder(post')
        <3> SUFFICES ASSUME NEW i \in PostIds, NEW j \in PostIds, post'[i].topic # None,
                            post'[j].topic # None, i < j
                     PROVE  post'[i].created < post'[j].created
            BY DEF DatesInOrder
        <3>1. CASE j = p
            BY <1>7, <2>2, <2>3, <2>4, <3>1
        <3>2. CASE j # p
            <4>1. i # p
                BY <2>2, <2>4, <3>2
            <4> QED BY <2>2, <3>2, <4>1 DEF DatesInOrder, Only, Steady
        <3> QED BY <3>1, <3>2
    <2>6. \A q \in PostIds : post'[q].topic # None => post'[q].created <= ShownClock(x, clock')
        BY <1>7, <1>10, <2>2, <2>3, <2>4
    <2>7. /\ x.stage = "saved" => topic'[x.topic].last = x.post
          /\ x.stage \in {"saved", "idle"}
        BY <1>9, <1>12
    <2>8. users' = Users /\ forums' = Forums
        BY <1>4, <1>7
    <2> QED BY <1>8, <2>1, <2>5, <2>6, <2>7, <2>8 DEF Steady, Gone
<1>14. /\ contentTopic = ShownTopic(r, topic) /\ contentTopic' = ShownTopic(x, topic')
       /\ contentForum = ShownForum(r, forum, post, topic)
       /\ contentForum' = ShownForum(x, forum', post', topic')
       /\ contentClock = clock - 1 /\ contentClock' = clock
    <2>1. DatesInOrder(post) /\ DatesInOrder(post') /\ workers = {s} /\ workers' = {s}
        BY <1>13 DEF Only, Steady
    <2>2. /\ contentTopic = ShownTopic(req[s], topic)
          /\ contentForum = ShownForum(req[s], forum, post, topic)
          /\ contentClock = ShownClock(req[s], clock)
        BY <2>1, ContentNow DEF Only
    <2>3. /\ contentTopic' = ShownTopic(req'[s], topic')
          /\ contentForum' = ShownForum(req'[s], forum', post', topic')
          /\ contentClock' = ShownClock(req'[s], clock')
        BY <2>1, ContentNext
    <2> QED BY <1>1, <1>8, <1>10, <2>2, <2>3
<1>15. /\ contentClock < MaxTime /\ contentClock' = contentClock + 1
       /\ contentClock' = r.time
    BY <1>6, <1>7, <1>14, BoundsAssumption DEF Times
<1>16. tally' = [tally EXCEPT ![r.user] = @ + 1]
    BY <1>4, <1>5 DEF SavedTally
<1>17. CASE r.new
    <2>1. contentTopic = [topic EXCEPT ![r.topic] = BlankTopic]
        BY <1>2, <1>14, <1>17 DEF ShownTopic
    <2>2. contentTopic[r.topic].forum = None
        BY <1>4, <1>7, <2>1 DEF BlankTopic
    <2> DEFINE row == [forum |-> r.home, user |-> r.user, hidden |-> FALSE, first |-> p,
                       last |-> p, updated |-> contentClock', posts |-> 1]
    <2>3. contentTopic' = [contentTopic EXCEPT ![r.topic] = row]
        <3>1. contentTopic' = [topic' EXCEPT ![r.topic].first = p]
            BY <1>9, <1>14, <1>17 DEF ShownTopic
        <3>2. contentTopic' = [topic EXCEPT ![r.topic] =
                                 [SavedTopic(topic[r.topic], r, p) EXCEPT !.first = p]]
            BY <1>3, <1>4, <1>7, <3>1
        <3>3. /\ topic[r.topic].forum = r.home /\ topic[r.topic].user = r.user
              /\ topic[r.topic].hidden = FALSE /\ topic[r.topic].posts = 0
            BY <1>5, <1>6, <1>17 DEF BlankTopic
        <3>4. r.posts + 1 = 1
            BY <1>5, <3>3
        <3>5. SavedTopic(topic[r.topic], r, p)
                = [topic[r.topic] EXCEPT !.last = p, !.updated = r.time, !.posts = 1]
            BY <3>4 DEF SavedTopic
        <3>6. [SavedTopic(topic[r.topic], r, p) EXCEPT !.first = p] = row
            <4>1. PICK saved \in TopicRow : saved = SavedTopic(topic[r.topic], r, p)
                BY <1>3
            <4>2. /\ saved.forum = r.home /\ saved.user = r.user /\ saved.hidden = FALSE
                  /\ saved.last = p /\ saved.updated = r.time /\ saved.posts = 1
                BY <1>11, <3>3, <3>5, <4>1 DEF TopicRow
            <4>3. [saved EXCEPT !.first = p]
                    = [forum |-> saved.forum, user |-> saved.user, hidden |-> saved.hidden,
                       first |-> p, last |-> saved.last, updated |-> saved.updated,
                       posts |-> saved.posts]
                BY FirstPostRow
            <4>4. [saved EXCEPT !.first = p]
                    = [forum |-> r.home, user |-> r.user, hidden |-> FALSE,
                       first |-> p, last |-> p, updated |-> r.time, posts |-> 1]
                BY <4>2, <4>3, Zenon
            <4> QED BY <1>15, <4>1, <4>4
        <3> QED BY <1>4, <1>7, <2>1, <3>2, <3>6
    <2>4. contentForum' = [contentForum EXCEPT ![r.home] =
                             WithNewPost(@, p, r.user, contentClock', 1)]
        <3>1. forum[r.home] \in ForumRow /\ contentForum = forum
            BY <1>2, <1>4, <1>7, <1>14, ForumsAsTheyAre
        <3>2. WithNewPost(forum[r.home], p, r.user, r.time, 1)
                = [SavedForum(forum[r.home], r, p) EXCEPT !.topics = @ + 1]
            BY <1>4, <1>5, <1>6, <3>1, RowsOfPost
        <3>3. [SavedForum(forum[r.home], r, p) EXCEPT !.topics = @ + 1] \in ForumRow
            BY <1>3 DEF ForumRow
        <3>4. contentForum' = [contentForum EXCEPT ![r.home] =
                                 [SavedForum(forum[r.home], r, p) EXCEPT !.topics = @ + 1]]
            <4> DEFINE new == SavedForum(forum[r.home], r, p)
            <4>1. contentForum' = [f \in Forums |->
                     IF f = r.home THEN [forum'[f] EXCEPT !.topics = @ + 1] ELSE forum'[f]]
                BY <1>9, <1>14, <1>17 DEF ShownForum
            <4>2. new \in ForumRow /\ forum' = [forum EXCEPT ![r.home] = new]
                BY <1>3
            <4> HIDE DEF new
            <4>3. /\ forum'[r.home] = new
                  /\ \A f \in Forums \ {r.home} : forum'[f] = forum[f]
                BY <1>4, <1>7, <4>2
            <4>4. contentForum' = [forum EXCEPT ![r.home] = [new EXCEPT !.topics = @ + 1]]
                BY <1>4, <1>7, <4>1, <4>3
            <4> QED BY <3>1, <4>4 DEF new
        <3> QED BY <1>15, <3>1, <3>2, <3>4
    <2>5. post' = [post EXCEPT ![p] = [topic |-> r.topic, user |-> r.user,
                                       hidden |-> FALSE, created |-> contentClock']]
        BY <1>3, <1>15
    <2>6. "posttopic" \in granted /\ r.user \in users /\ r.home \in forums
        BY <1>4, <1>6, <1>7, <1>17
    <2> HIDE DEF row
    <2>7. Advances
        BY <1>3, <1>4, <1>15, <1>16, <2>2, <2>3, <2>4, <2>5, <2>6, ContentGains DEF row
    <2> QED BY <1>13, <2>7
<1>18. CASE ~r.new
    <2>1. contentTopic = topic /\ contentTopic' = topic'
        BY <1>2, <1>9, <1>14, <1>18 DEF ShownTopic
    <2>2. topic' = [topic EXCEPT ![r.topic].last = p, ![r.topic].updated = contentClock',
                                 ![r.topic].posts = @ + 1]
        BY <1>3, <1>4, <1>5, <1>7, <1>15 DEF SavedTopic
    <2>3. topic[r.topic].forum # None /\ ~topic[r.topic].hidden
        BY <1>2, <1>4 DEF Gone, Only, Sole, NothingHidden
    <2>4. contentForum' = [contentForum EXCEPT ![r.home] =
                             WithNewPost(@, p, r.user, contentClock', 0)]
        <3>1. forum[r.home] \in ForumRow /\ contentForum = forum
            BY <1>2, <1>4, <1>7, <1>14, ForumsAsTheyAre
        <3>2. WithNewPost(forum[r.home], p, r.user, r.time, 0) = SavedForum(forum[r.home], r, p)
            BY <1>4, <1>5, <1>6, <3>1, RowsOfPost
        <3>3. contentForum' = [contentForum EXCEPT ![r.home] = SavedForum(forum[r.home], r, p)]
            <4>1. forum' \in [Forums -> ForumRow]
                BY <1>3, <1>4, <1>7
            <4>2. contentForum' = forum'
                BY <1>9, <1>14, <1>18, <4>1, ForumsAsTheyAre
            <4> QED BY <1>3, <3>1, <4>2
        <3> QED BY <1>15, <3>1, <3>2, <3>3
    <2>5. post' = [post EXCEPT ![p] = [topic |-> r.topic, user |-> r.user,
                                       hidden |-> FALSE, created |-> contentClock']]
        BY <1>3, <1>15
    <2>6. "postreply" \in granted /\ r.user \in users
        BY <1>4, <1>6, <1>7, <1>18
    <2>7. Advances
        BY <1>3, <1>4, <1>5, <1>15, <1>16, <2>1, <2>2, <2>3, <2>4, <2>5, <2>6, ContentReplies
    <2> QED BY <1>13, <2>7
<1> QED BY <1>17, <1>18

\* The types of what a step of the only worker starts from.
LEMMA OnlyTyped ==
    ASSUME NEW s \in Slots, Only(s)
    PROVE  /\ post \in [PostIds -> PostRow] /\ topic \in [Topics -> TopicRow]
           /\ forum \in [Forums -> ForumRow] /\ req \in [Slots -> Request]
           /\ users = Users /\ forums = Forums
           /\ DatesInOrder(post) /\ RequestSound(req[s]) /\ FreshOf(s) /\ Steady(s)
BY Tables DEF Only, Steady, WInv, RequestsSound, Sole

LEMMA LoadForumUnseen ==
    ASSUME NEW s \in Slots, Only(s), WInv', workers' = workers, LoadForum(s)
    PROVE  Steady(s)' /\ Advances
<1>1. PICK r \in Request : r = req[s]
    BY OnlyTyped
<1>2. /\ r.stage = "saved"
      /\ req' = [req EXCEPT ![s].stage = "counting", ![s].row = forum[r.forum]]
      /\ UNCHANGED <<post, topic, forum, tally, forums, users, clock, granted>>
    BY <1>1 DEF LoadForum, Is, vars
<1>3. PICK x : x = req'[s]
    OBVIOUS
<1>4. /\ x.stage = "counting" /\ x.topic = r.topic /\ x.post = r.post
      /\ x.forum = r.forum
    BY <1>1, <1>2, <1>3, OnlyTyped DEF Request
<1>5. ShownClock(x, clock') = ShownClock(r, clock)
    BY <1>2, <1>4 DEF ShownClock
<1>6. Steady(s)'
    <2>1. topic'[x.topic].last = x.post
        BY <1>1, <1>2, <1>4 DEF Only, Steady
    <2>2. \A p \in PostIds : post'[p].topic # None => post'[p].created <= ShownClock(x, clock')
        BY <1>1, <1>2, <1>5 DEF Only, Steady
    <2>3. /\ \A t \in Topics : topic'[t].forum = None => topic'[t] = BlankTopic
          /\ users' = Users /\ forums' = Forums /\ DatesInOrder(post')
        BY <1>2 DEF Only, Steady, Gone
    <2> QED BY <1>3, <1>4, <2>1, <2>2, <2>3 DEF Steady, Gone
<1>7. /\ ShownTopic(x, topic') = ShownTopic(r, topic)
      /\ ShownForum(x, forum', post', topic') = ShownForum(r, forum, post, topic)
    BY <1>2, <1>4 DEF ShownTopic, ShownForum
<1> QED BY <1>1, <1>2, <1>3, <1>5, <1>6, <1>7, ShownStays

LEMMA StartMoveUnseen ==
    ASSUME NEW s \in Slots, Only(s), WInv', workers' = workers, NEW t \in Topics,
           NEW g \in Forums, StartMove(s, t, g)
    PROVE  Steady(s)' /\ Advances
<1>1. /\ req[s].stage = "idle"
      /\ req' = [req EXCEPT ![s] = [Idle EXCEPT !.stage = "moving", !.topic = t,
                   !.forum = topic[t].forum, !.to = g, !.posts = topic[t].posts,
                   !.row = forum[topic[t].forum], !.toRow = forum[g]]]
      /\ UNCHANGED <<post, topic, forum, tally, forums, users, clock, granted>>
    BY DEF StartMove, Is, vars
<1>2. PICK x : x = req'[s]
    OBVIOUS
<1>3. /\ x.stage = "moving" /\ x.forum = topic[t].forum /\ x.to = g
      /\ x.row = forum[x.forum] /\ x.toRow = forum[x.to]
    BY <1>1, <1>2, OnlyTyped DEF Idle
<1>4. ShownClock(x, clock') = ShownClock(req[s], clock)
    BY <1>1, <1>3 DEF ShownClock
<1>5. Steady(s)'
    <2>1. x.row.topics = forum'[x.forum].topics /\ x.toRow.topics = forum'[x.to].topics
        BY <1>1, <1>3
    <2>2. \A p \in PostIds : post'[p].topic # None => post'[p].created <= ShownClock(x, clock')
        BY <1>1, <1>4 DEF Only, Steady
    <2>3. /\ \A o \in Topics : topic'[o].forum = None => topic'[o] = BlankTopic
          /\ users' = Users /\ forums' = Forums /\ DatesInOrder(post')
        BY <1>1 DEF Only, Steady, Gone
    <2> QED BY <1>2, <1>3, <2>1, <2>2, <2>3 DEF Steady, Gone
<1>6. ShownTopic(x, topic') = ShownTopic(req[s], topic)
    BY <1>1, <1>3 DEF ShownTopic
<1>7. ShownForum(x, forum', post', topic') = ShownForum(req[s], forum, post, topic)
    BY <1>1, <1>3, OnlyTyped, ForumsAsTheyAre
<1> QED BY <1>1, <1>2, <1>4, <1>5, <1>6, <1>7, ShownStays

LEMMA CloseTopicUnseen ==
    ASSUME NEW s \in Slots, Only(s), WInv', workers' = workers, CloseTopic(s)
    PROVE  Steady(s)' /\ Advances
<1>1. PICK r \in Request : r = req[s]
    BY OnlyTyped
<1>2. r.stage = "counting" /\ ~Gone(r.topic)
    BY <1>1, NeverGone DEF CloseTopic, Is
<1>3. /\ topic' = [topic EXCEPT ![r.topic] = ClosedTopic(topic[r.topic], r)]
      /\ forum' = [forum EXCEPT ![r.forum].topics = r.row.topics + 1]
      /\ req' = [req EXCEPT ![s] = Idle]
      /\ UNCHANGED <<post, tally, forums, users, clock, granted>>
    BY <1>1, <1>2 DEF CloseTopic
<1>4. /\ r.topic \in Topics /\ r.forum \in Forums /\ r.post \in PostIds
      /\ r.row.topics = forum[r.forum].topics /\ topic[r.topic].last = r.post
    BY <1>1, <1>2, OnlyTyped DEF RequestSound, FreshOf, Steady
<1>5. req'[s].stage = "idle"
    BY <1>3, OnlyTyped DEF Idle
<1>6. ShownClock(req'[s], clock') = ShownClock(r, clock)
    BY <1>2, <1>3, <1>5 DEF ShownClock
<1>7. topic[r.topic] \in TopicRow /\ forum[r.forum] \in ForumRow
    BY <1>4, OnlyTyped
<1>8. topic' = [topic EXCEPT ![r.topic].first = r.post]
    <2>1. ClosedTopic(topic[r.topic], r) = [topic[r.topic] EXCEPT !.first = r.post]
        <3>1. PICK row \in TopicRow : row = topic[r.topic]
            BY <1>7
        <3>2. [row EXCEPT !.first = r.post, !.last = r.post] = [row EXCEPT !.first = r.post]
            BY <1>4, <3>1 DEF TopicRow
        <3> QED BY <3>1, <3>2 DEF ClosedTopic
    <2> QED BY <1>3, <1>4, <2>1, OnlyTyped
<1>9. ShownTopic(req'[s], topic') = ShownTopic(r, topic)
    BY <1>2, <1>5, <1>8 DEF ShownTopic
<1>10. forum' \in [Forums -> ForumRow]
    BY DEF WInv, WritesTypeOK, TypeOK
<1>11. ShownForum(req'[s], forum', post', topic') = ShownForum(r, forum, post, topic)
    <2>1. ShownForum(req'[s], forum', post', topic') = forum'
        BY <1>5, <1>10, ForumsAsTheyAre
    <2>2. ShownForum(r, forum, post, topic) =
            [f \in Forums |-> IF f = r.forum THEN [forum[f] EXCEPT !.topics = @ + 1] ELSE forum[f]]
        BY <1>2 DEF ShownForum
    <2>3. forum' = [forum EXCEPT ![r.forum] = [forum[r.forum] EXCEPT !.topics = @ + 1]]
        BY <1>3, <1>4, OnlyTyped
    <2> QED BY <1>4, <2>1, <2>2, <2>3, OnlyTyped
<1>12. Steady(s)'
    <2>1. /\ topic'[r.topic].forum = topic[r.topic].forum
          /\ \A o \in Topics \ {r.topic} : topic'[o] = topic[o]
        BY <1>4, <1>7, <1>8, OnlyTyped DEF TopicRow
    <2>2. \A o \in Topics : topic'[o].forum = None => topic'[o] = BlankTopic
        BY <1>2, <2>1, OnlyTyped DEF Steady, Gone
    <2>3. \A p \in PostIds : post'[p].topic # None
                             => post'[p].created <= ShownClock(req'[s], clock')
        BY <1>1, <1>3, <1>6, OnlyTyped DEF Steady
    <2>4. users' = Users /\ forums' = Forums /\ DatesInOrder(post')
        BY <1>3, OnlyTyped
    <2> QED BY <1>5, <2>2, <2>3, <2>4 DEF Steady, Gone
<1> QED BY <1>1, <1>3, <1>6, <1>9, <1>11, <1>12, ShownStays

LEMMA MovedRows ==
    ASSUME NEW row \in ForumRow, NEW to \in ForumRow, NEW r \in Request,
           r.row.posts = row.posts, r.row.topics = row.topics,
           r.toRow.posts = to.posts, r.toRow.topics = to.topics
    PROVE  LessOf(row, r) = Fewer(row, r.posts) /\ MoreOf(to, r) = Further(to, r.posts)
<1>1. /\ Written(row.posts, r.row.posts, r.row.posts - r.posts) = row.posts - r.posts
      /\ Written(to.posts, r.toRow.posts, r.toRow.posts + r.posts) = to.posts + r.posts
    BY DEF Written
<1>2. r.row.topics - 1 = row.topics - 1 /\ r.toRow.topics + 1 = to.topics + 1
    OBVIOUS
<1> QED BY <1>1, <1>2 DEF LessOf, MoreOf, Fewer, Further

\* The first commit of a move is the move.
LEMMA CommitIsMove ==
    ASSUME NEW s \in Slots, Only(s), WInv', workers' = workers, CommitMove(s)
    PROVE  Steady(s)' /\ Advances
<1>1. PICK r \in Request : r = req[s]
    BY OnlyTyped
<1>2. r.stage = "moving" /\ ~Gone(r.topic)
    BY <1>1, NeverGone DEF CommitMove, Is
<1>3. PICK t, f, g : t = r.topic /\ f = r.forum /\ g = r.to
    OBVIOUS
<1>4. /\ topic' = [topic EXCEPT ![t].forum = g]
      /\ forum' = [forum EXCEPT ![f] = LessOf(forum[f], r), ![g] = MoreOf(forum[g], r)]
      /\ req' = [req EXCEPT ![s].stage = "moved"]
      /\ UNCHANGED <<post, tally, forums, users, clock, granted>>
    BY <1>1, <1>2, <1>3 DEF CommitMove
<1>5. /\ t \in Topics /\ f \in Forums /\ g \in Forums
      /\ "move" \in granted /\ topic[t].forum = f /\ f # g /\ r.posts = topic[t].posts
      /\ r.row.posts = forum[f].posts /\ r.toRow.posts = forum[g].posts
      /\ r.row.topics = forum[f].topics /\ r.toRow.topics = forum[g].topics
    BY <1>1, <1>2, <1>3, OnlyTyped DEF RequestSound, FreshOf, Steady
<1>6. PICK x : x = req'[s]
    OBVIOUS
<1>7. x.stage = "moved" /\ x.forum = f /\ x.to = g
    BY <1>1, <1>3, <1>4, <1>6, OnlyTyped DEF Request
<1>8. ShownClock(x, clock') = ShownClock(r, clock)
    BY <1>2, <1>4, <1>7 DEF ShownClock
<1>9. topic[t] \in TopicRow /\ forum[f] \in ForumRow /\ forum[g] \in ForumRow
    BY <1>5, OnlyTyped
<1>10. Steady(s)'
    <2>1. /\ topic'[t].forum = g
          /\ \A o \in Topics \ {t} : topic'[o] = topic[o]
        BY <1>4, <1>5, <1>9, OnlyTyped DEF TopicRow
    <2>2. \A o \in Topics : topic'[o].forum = None => topic'[o] = BlankTopic
        BY <1>5, <2>1, NullIsNoId, OnlyTyped DEF Steady, Gone
    <2>3. \A p \in PostIds : post'[p].topic # None => post'[p].created <= ShownClock(x, clock')
        BY <1>1, <1>4, <1>8, OnlyTyped DEF Steady
    <2>4. users' = Users /\ forums' = Forums /\ DatesInOrder(post')
        BY <1>4, OnlyTyped
    <2> QED BY <1>5, <1>6, <1>7, <2>2, <2>3, <2>4 DEF Steady, Gone
<1>11. /\ contentTopic = ShownTopic(r, topic) /\ contentTopic' = ShownTopic(x, topic')
       /\ contentForum = ShownForum(r, forum, post, topic)
       /\ contentForum' = ShownForum(x, forum', post', topic')
       /\ contentClock' = contentClock
    <2>1. DatesInOrder(post) /\ DatesInOrder(post') /\ workers = {s} /\ workers' = {s}
        BY <1>10 DEF Only, Steady
    <2>2. /\ contentTopic = ShownTopic(req[s], topic)
          /\ contentForum = ShownForum(req[s], forum, post, topic)
          /\ contentClock = ShownClock(req[s], clock)
        BY <2>1, ContentNow DEF Only
    <2>3. /\ contentTopic' = ShownTopic(req'[s], topic')
          /\ contentForum' = ShownForum(req'[s], forum', post', topic')
          /\ contentClock' = ShownClock(req'[s], clock')
        BY <2>1, ContentNext
    <2> QED BY <1>1, <1>6, <1>8, <2>2, <2>3
<1>12. contentTopic = topic /\ contentTopic' = topic' /\ contentForum = forum
    BY <1>2, <1>7, <1>11, OnlyTyped, ForumsAsTheyAre DEF ShownTopic
<1>13. /\ forum'[f] = Fewer(forum[f], topic[t].posts)
       /\ forum'[g] = Further(forum[g], topic[t].posts)
       /\ \A h \in Forums \ {f, g} : forum'[h] = forum[h]
    <2>1. /\ forum'[f] = LessOf(forum[f], r) /\ forum'[g] = MoreOf(forum[g], r)
          /\ \A h \in Forums \ {f, g} : forum'[h] = forum[h]
        BY <1>4, <1>5, OnlyTyped
    <2>2. LessOf(forum[f], r) = Fewer(forum[f], r.posts) /\ MoreOf(forum[g], r) = Further(forum[g], r.posts)
        BY <1>5, <1>9, MovedRows
    <2> QED BY <1>5, <2>1, <2>2
<1>14. contentForum' = [h \in Forums |-> IF h = f \/ h = g
                          THEN UpdateLastPost(forum'[h], h, post, topic') ELSE forum'[h]]
    BY <1>4, <1>7, <1>11 DEF ShownForum
<1>15. contentForum' = ForumsMoved(contentForum, f, g, contentTopic[t].posts, post, contentTopic')
    <2>1. PICK from, to : /\ from = UpdateLastPost(forum'[f], f, post, topic')
                          /\ to = UpdateLastPost(forum'[g], g, post, topic')
        OBVIOUS
    <2>2. contentForum' = [forum EXCEPT ![f] = from, ![g] = to]
        BY <1>5, <1>13, <1>14, <2>1, OnlyTyped
    <2> QED BY <1>12, <1>13, <2>1, <2>2 DEF ForumsMoved
<1>16. contentTopic' = [contentTopic EXCEPT ![t].forum = g]
    BY <1>4, <1>12
<1>17. g \in forums /\ f # None
    BY <1>5, NullIsNoId, OnlyTyped
<1>18. Advances
    BY <1>4, <1>5, <1>11, <1>12, <1>15, <1>16, <1>17, ContentMoves
<1> QED BY <1>10, <1>18

\* What is left to do of a move is already shown as done.
LEMMA UpdatesUnseen ==
    ASSUME NEW s \in Slots, Only(s), WInv', workers' = workers, UpdateNew(s) \/ UpdateOld(s)
    PROVE  Steady(s)' /\ Advances
<1>1. PICK r \in Request : r = req[s]
    BY OnlyTyped
<1>2. PICK x : x = req'[s]
    OBVIOUS
<1>3. PICK h \in Forums :
        /\ forum' = [forum EXCEPT ![h] = LatestPost(forum[h], h, topic)]
        /\ \/ /\ r.stage = "moved" /\ h = r.to /\ x.stage = "settled"
              /\ x.forum = r.forum /\ x.to = r.to
           \/ r.stage = "settled" /\ h = r.forum /\ x.stage = "idle"
        /\ UNCHANGED <<post, topic, tally, forums, users, clock, granted>>
    <2>1. CASE UpdateNew(s)
        <3>1. r.stage = "moved" /\ r.to \in Forums
            BY <1>1, <2>1, OnlyTyped DEF UpdateNew, Is, RequestSound
        <3>2. x = [r EXCEPT !.stage = "settled"]
            BY <1>1, <1>2, <2>1, OnlyTyped DEF UpdateNew
        <3>3. x.stage = "settled" /\ x.forum = r.forum /\ x.to = r.to
            BY <3>2 DEF Request
        <3> QED BY <1>1, <2>1, <3>1, <3>3 DEF UpdateNew
    <2>2. CASE UpdateOld(s)
        <3>1. r.stage = "settled" /\ r.forum \in Forums
            BY <1>1, <2>2, OnlyTyped DEF UpdateOld, Is, RequestSound
        <3>2. x.stage = "idle"
            BY <1>2, <2>2, OnlyTyped DEF UpdateOld, Idle
        <3> QED BY <1>1, <2>2, <3>1, <3>2 DEF UpdateOld
    <2> QED BY <2>1, <2>2
<1>4. r.forum # r.to
    BY <1>1, <1>3, OnlyTyped DEF Steady
<1>5. ShownClock(x, clock') = ShownClock(r, clock)
    BY <1>3 DEF ShownClock
<1>6. Steady(s)'
    <2>1. /\ \A o \in Topics : topic'[o].forum = None => topic'[o] = BlankTopic
          /\ users' = Users /\ forums' = Forums /\ DatesInOrder(post')
        BY <1>3, OnlyTyped DEF Steady, Gone
    <2>2. \A p \in PostIds : post'[p].topic # None => post'[p].created <= ShownClock(x, clock')
        BY <1>1, <1>3, <1>5, OnlyTyped DEF Steady
    <2>3. x.stage \in {"settled", "idle"} /\ (x.stage = "settled" => x.forum # x.to)
        BY <1>3, <1>4
    <2> QED BY <1>2, <2>1, <2>2, <2>3 DEF Steady, Gone
<1>7. ShownTopic(x, topic') = ShownTopic(r, topic)
    BY <1>3 DEF ShownTopic
<1>8. LatestPost(forum[h], h, topic) = UpdateLastPost(forum[h], h, post, topic)
    <2>1. LatestPost(forum[h], h, topic) = LatestIn(forum[h], h, post, topic)
        BY DEF LatestPost, Latest, LatestIn, LatestBy
    <2> QED BY <2>1, OnlyTyped, LooksForNewest
<1>9. PICK row : row = UpdateLastPost(forum[h], h, post, topic)
    OBVIOUS
<1>10. forum'[h] = row /\ \A f \in Forums \ {h} : forum'[f] = forum[f]
    BY <1>3, <1>8, <1>9, OnlyTyped
<1>11. ShownForum(x, forum', post', topic') = ShownForum(r, forum, post, topic)
    <2>1. CASE r.stage = "moved" /\ h = r.to /\ x.stage = "settled" /\ x.forum = r.forum
        <3>1. ShownForum(x, forum', post', topic') = [f \in Forums |->
                IF f = r.forum THEN UpdateLastPost(forum'[f], f, post, topic) ELSE forum'[f]]
            BY <1>3, <2>1 DEF ShownForum
        <3>2. ShownForum(r, forum, post, topic) = [f \in Forums |->
                IF f = r.forum \/ f = h THEN UpdateLastPost(forum[f], f, post, topic) ELSE forum[f]]
            BY <2>1 DEF ShownForum
        <3> QED BY <1>4, <1>9, <1>10, <2>1, <3>1, <3>2
    <2>2. CASE r.stage = "settled" /\ h = r.forum /\ x.stage = "idle"
        <3>1. ShownForum(x, forum', post', topic') = [f \in Forums |-> forum'[f]]
            BY <2>2 DEF ShownForum
        <3>2. ShownForum(r, forum, post, topic) = [f \in Forums |->
                IF f = h THEN UpdateLastPost(forum[f], f, post, topic) ELSE forum[f]]
            BY <2>2 DEF ShownForum
        <3> QED BY <1>9, <1>10, <3>1, <3>2
    <2> QED BY <1>3, <2>1, <2>2
<1> QED BY <1>1, <1>2, <1>3, <1>5, <1>6, <1>7, <1>11, ShownStays

\* A forum looks for its newest post among those the deleted topic leaves.
LEMMA LooksAmongTheRest ==
    ASSUME NEW P \in [PostIds -> PostRow], DatesInOrder(P), NEW t \in Topics,
           NEW T, NEW row, NEW f \in Forums, T[t].forum = None
    PROVE  LatestIn(row, f, P, T) = UpdateLastPost(row, f, WithoutTopics({t}, P), T)
<1> DEFINE Q   == WithoutTopics({t}, P)
           all == PostsIn(f, P, T)
<1>1. /\ \A q \in PostIds : P[q].topic = t => Q[q].topic = None
      /\ \A q \in PostIds : P[q].topic # t => Q[q] = P[q]
    BY DEF WithoutTopics, BlankPost
<1> HIDE DEF Q
<1>2. PostsIn(f, Q, T) = all /\ \A q \in all : Q[q] = P[q]
    BY <1>1, NullIsNoId DEF PostsIn
<1>3. all # {} => Newest(all) \in all
    <2>1. all \in SUBSET PostIds
        BY DEF PostsIn
    <2> HIDE DEF all
    <2> QED BY <2>1, NewestIsLargest
<1>4. UpdateLastPost(row, f, P, T) = UpdateLastPost(row, f, Q, T)
    <2>1. UpdateLastPost(row, f, P, T) =
            IF all = {} THEN WithoutLast(row)
            ELSE IF Newest(all) = row.last THEN row
            ELSE WithLast(row, Newest(all), P[Newest(all)].user, P[Newest(all)].created)
        BY DEF UpdateLastPost
    <2>2. UpdateLastPost(row, f, Q, T) =
            IF all = {} THEN WithoutLast(row)
            ELSE IF Newest(all) = row.last THEN row
            ELSE WithLast(row, Newest(all), Q[Newest(all)].user, Q[Newest(all)].created)
        BY <1>2, Zenon DEF UpdateLastPost
    <2> HIDE DEF all
    <2> QED BY <1>2, <1>3, <2>1, <2>2
<1> QED BY <1>4, LooksForNewest DEF Q

LEMMA RemoveIsRemove ==
    ASSUME NEW s \in Slots, Only(s), WInv', workers' = workers, NEW t \in Topics, Remove(s, t)
    PROVE  Steady(s)' /\ Advances
<1>1. PICK f : f = topic[t].forum
    OBVIOUS
<1>2. PICK row : row = FixPostCounts(forum[f], f, post', topic')
    OBVIOUS
<1>3. /\ "deletetopic" \in granted /\ ~Gone(t) /\ req[s].stage = "idle"
      /\ post' = WithoutTopics({t}, post) /\ topic' = [topic EXCEPT ![t] = BlankTopic]
      /\ tally' = FixUserPostCounts(InvolvedUsers(t), post', topic')
      /\ forum' = [forum EXCEPT ![f] = IF row.last = None \/ row.last = topic[t].last
                                       THEN LatestPost(row, f, topic') ELSE row]
      /\ UNCHANGED <<req, forums, users, clock, granted>>
    BY <1>1, <1>2 DEF Remove, Is
<1>4. f \in Forums /\ f # None
    BY <1>1, <1>3, OnlyTyped DEF Gone, TopicRow
<1>5. topic'[t] = BlankTopic /\ \A o \in Topics \ {t} : topic'[o] = topic[o]
    BY <1>3, OnlyTyped
<1>6. \A q \in PostIds : post'[q] = BlankPost \/ post'[q] = post[q]
    BY <1>3 DEF WithoutTopics
<1>7. Steady(s)'
    <2>1. \A o \in Topics : topic'[o].forum = None => topic'[o] = BlankTopic
        BY <1>5, OnlyTyped DEF Steady, Gone
    <2>2. BlankPost.topic = None
        BY DEF BlankPost
    <2>3. DatesInOrder(post')
        BY <1>6, <2>2, OnlyTyped DEF DatesInOrder
    <2>4. \A q \in PostIds : post'[q].topic # None
                             => post'[q].created <= ShownClock(req'[s], clock')
        BY <1>3, <1>6, <2>2, OnlyTyped DEF Steady
    <2>5. users' = Users /\ forums' = Forums /\ req'[s].stage = "idle"
        BY <1>3, OnlyTyped
    <2> QED BY <2>1, <2>3, <2>4, <2>5 DEF Steady, Gone
<1>8. /\ contentTopic = topic /\ contentTopic' = topic'
      /\ contentForum = forum /\ contentForum' = forum'
      /\ contentClock' = contentClock
    <2>1. DatesInOrder(post) /\ DatesInOrder(post') /\ workers = {s} /\ workers' = {s}
        BY <1>7 DEF Only, Steady
    <2>2. /\ contentTopic = ShownTopic(req[s], topic)
          /\ contentForum = ShownForum(req[s], forum, post, topic)
          /\ contentClock = ShownClock(req[s], clock)
        BY <2>1, ContentNow DEF Only
    <2>3. /\ contentTopic' = ShownTopic(req'[s], topic')
          /\ contentForum' = ShownForum(req'[s], forum', post', topic')
          /\ contentClock' = ShownClock(req'[s], clock')
        BY <2>1, ContentNext
    <2>4. forum' \in [Forums -> ForumRow]
        BY DEF WInv, WritesTypeOK, TypeOK
    <2>5. req' = req /\ clock' = clock /\ req[s].stage = "idle"
        BY <1>3
    <2>6. ShownTopic(req[s], topic) = topic /\ ShownTopic(req[s], topic') = topic'
        BY <2>5 DEF ShownTopic
    <2>7. /\ ShownForum(req[s], forum, post, topic) = forum
          /\ ShownForum(req[s], forum', post', topic') = forum'
        BY <2>4, <2>5, OnlyTyped, ForumsAsTheyAre
    <2> QED BY <2>2, <2>3, <2>5, <2>6, <2>7
<1>9. LatestPost(row, f, topic') = UpdateLastPost(row, f, post', topic')
    <2>1. LatestPost(row, f, topic') = LatestIn(row, f, post, topic')
        BY DEF LatestPost, Latest, LatestIn, LatestBy
    <2>2. topic'[t].forum = None
        BY <1>5 DEF BlankTopic
    <2>3. LatestIn(row, f, post, topic') = UpdateLastPost(row, f, WithoutTopics({t}, post), topic')
        BY <1>4, <2>2, OnlyTyped, LooksAmongTheRest
    <2> QED BY <1>3, <2>1, <2>3
<1>10. contentForum' = [contentForum EXCEPT ![f] =
                          LooksAgain(row, contentTopic[t].last, f, post', contentTopic')]
    BY <1>3, <1>8, <1>9 DEF LooksAgain
<1>11. /\ "deletetopic" \in granted /\ post' = WithoutTopics({t}, post)
       /\ f = contentTopic[t].forum /\ f # None
       /\ contentTopic' = [contentTopic EXCEPT ![t] = BlankTopic]
       /\ tally' = FixUserPostCounts(InvolvedUsers(t), post', contentTopic')
       /\ row = FixPostCounts(contentForum[f], f, post', contentTopic')
       /\ contentClock' = contentClock /\ UNCHANGED <<forums, users, granted>>
    BY <1>1, <1>2, <1>3, <1>4, <1>8
<1>12. Advances
    BY <1>10, <1>11, ContentRemoves
<1> QED BY <1>7, <1>12

-----------------------------------------------------------------------------
(* All steps.                                                              *)

LEMMA OnlyStep ==
    ASSUME NEW s \in Slots, Only(s), WInv', workers' = workers, Start(s) \/ Proceed(s)
    PROVE  Steady(s)' /\ Advances
<1>1. CASE Start(s)
    BY <1>1, OpensUnseen, LoadsUnseen, StartMoveUnseen, RemoveIsRemove DEF Start
<1>2. CASE Proceed(s)
    BY <1>2, LoadsUnseen, SaveIsPost, LoadForumUnseen, CloseTopicUnseen, CommitIsMove,
       UpdatesUnseen DEF Proceed
<1> QED BY <1>1, <1>2

\* As long as the only worker has not died.
SteadyAlone == Alone /\ crashes = 0 => \A s \in workers : Steady(s)

LEMMA SteadyInit == WritesInit => SteadyAlone
<1> SUFFICES ASSUME WritesInit, NEW s \in workers PROVE Steady(s)
    BY DEF SteadyAlone
<1>1. /\ post = [p \in PostIds |-> BlankPost] /\ topic = [t \in Topics |-> BlankTopic]
      /\ users = Users /\ forums = Forums
      /\ s \in Slots /\ req = [o \in Slots |-> Idle]
    BY DEF WritesInit, Init
<1>2. req[s].stage = "idle"
    BY <1>1 DEF Idle
<1>3. \A p \in PostIds : post[p].topic = None
    BY <1>1 DEF BlankPost
<1>4. \A t \in Topics : topic[t] = BlankTopic
    BY <1>1
<1>5. DatesInOrder(post)
    BY <1>3 DEF DatesInOrder
<1> QED BY <1>1, <1>2, <1>3, <1>4, <1>5 DEF Steady

LEMMA ContentInit == WritesInit => Content!Init
<1> SUFFICES ASSUME WritesInit PROVE Content!Init
    OBVIOUS
<1>1. current.stage = "idle"
    <2>1. /\ workers \in (SUBSET Slots) \ {{}} /\ req = [o \in Slots |-> Idle]
        BY DEF WritesInit
    <2>2. (CHOOSE s \in workers : TRUE) \in Slots
        <3>1. workers \subseteq Slots /\ \E s \in workers : TRUE
            BY <2>1
        <3>2. (CHOOSE s \in workers : TRUE) \in workers
            BY <3>1
        <3> QED BY <3>1, <3>2
    <2> QED BY <2>1, <2>2 DEF current, Idle
<1>2. /\ post = [p \in PostIds |-> BlankPost] /\ topic = [t \in Topics |-> BlankTopic]
      /\ forum = [f \in Forums |-> BlankForum] /\ tally = [u \in Users |-> 0]
      /\ forums = Forums /\ users = Users /\ clock = 0 /\ granted \in Boards
    BY DEF WritesInit, Init
<1>3. /\ contentTopic = topic /\ contentClock = clock
    BY <1>1 DEF contentTopic, contentClock
<1>4. contentForum = [f \in Forums |-> forum[f]]
    BY <1>1 DEF contentForum
<1>5. contentForum = forum
    BY <1>2, <1>4
<1>6. /\ Content!BlankPost = BlankPost /\ Content!BlankTopic = BlankTopic
      /\ Content!BlankForum = BlankForum /\ Content!PostIds = PostIds
    BY DEF Content!BlankPost, BlankPost, Content!BlankTopic, BlankTopic,
           Content!BlankForum, BlankForum, Content!PostIds, PostIds
<1> QED BY <1>2, <1>3, <1>5, <1>6 DEF Content!Init

LEMMA ContentUntouched == UNCHANGED writeVars => UNCHANGED Content!vars
<1> SUFFICES ASSUME UNCHANGED writeVars PROVE UNCHANGED Content!vars
    OBVIOUS
<1>1. UNCHANGED <<post, topic, forum, tally, forums, users, clock, granted, workers, req>>
    BY DEF writeVars, vars
<1>2. current' = current
    BY <1>1 DEF current
<1>3. contentTopic' = contentTopic /\ contentClock' = contentClock
    BY <1>1, <1>2 DEF contentTopic, contentClock
<1>4. contentForum' = contentForum
    BY <1>1, <1>2 DEF contentForum, LatestPost, Latest
<1> QED BY <1>1, <1>3, <1>4 DEF Content!vars

\* A step while there is one worker that has not died, and does not die in it.
LEMMA AliveStep ==
    ASSUME WInv, WInv', OneInv, SteadyAlone, Alone, crashes' = 0,
           NEW s \in Slots, Start(s) \/ Proceed(s) \/ Crash(s)
    PROVE  /\ SteadyAlone' /\ Advances
<1>1. s \in workers /\ workers' = workers
    BY OnlyItsOwn
<1>2. workers = {s}
    <2>1. IsFiniteSet(workers)
        BY SlotsAssumption, FS_Subset DEF WInv, WritesTypeOK
    <2>2. \E x : workers = {x}
        BY <2>1, FS_Singleton DEF Alone
    <2> QED BY <1>1, <2>2
<1>3. crashes \in Nat
    BY WritesBounds
<1>4. (Start(s) \/ Proceed(s)) /\ crashes = 0
    BY <1>3 DEF Crash, Start, Proceed
<1>5. Only(s)
    BY <1>1, <1>2, <1>4, AloneRests DEF Only, OneInv, SteadyAlone
<1>6. Steady(s)' /\ Advances
    BY <1>1, <1>4, <1>5, OnlyStep
<1> QED BY <1>1, <1>2, <1>6 DEF SteadyAlone

LEMMA SteadyStep ==
    WInv /\ WInv' /\ OneInv /\ SteadyAlone /\ [WritesNext]_writeVars => SteadyAlone'
<1> SUFFICES ASSUME WInv, WInv', OneInv, SteadyAlone, [WritesNext]_writeVars,
                    Alone', crashes' = 0
             PROVE  SteadyAlone'
    BY DEF SteadyAlone
<1>1. CASE UNCHANGED writeVars
    BY <1>1 DEF writeVars, vars, SteadyAlone, Alone, Steady, Gone, DatesInOrder, ShownClock
<1>2. ASSUME NEW s \in Slots, Start(s) \/ Proceed(s) \/ Crash(s) PROVE SteadyAlone'
    <2>1. Alone
        BY <1>2, OnlyItsOwn DEF Alone
    <2> QED BY <1>2, <2>1, AliveStep
<1> QED BY <1>1, <1>2 DEF WritesNext

\* One worker that does not die does, commit by commit, what ForumContent says of whole
\* requests: every commit of Topic.save, Post.save, Topic.move and Topic.delete is one
\* request of ForumContent or none.
THEOREM OneWorkerIsForumContent == WritesSpec => OneWorkerImplements
<1>1. WritesInit => OneInv /\ SteadyAlone /\ Content!Init
    BY OneInit, SteadyInit, ContentInit
<1>2. WInv /\ WInv' /\ OneInv /\ SteadyAlone /\ [WritesNext]_writeVars
        => OneInv' /\ SteadyAlone'
    BY OneStep, SteadyStep
<1>3. WInv /\ WInv' /\ OneInv /\ SteadyAlone /\ [WritesNext]_writeVars
        => [Cardinality(workers) = 1 /\ crashes' = 0 => Content!Next]_Content!vars
    <2> SUFFICES ASSUME WInv, WInv', OneInv, SteadyAlone, [WritesNext]_writeVars,
                        Alone, crashes' = 0
                 PROVE  Content!Next \/ UNCHANGED Content!vars
        BY DEF Alone
    <2>1. CASE UNCHANGED writeVars
        BY <2>1, ContentUntouched
    <2>2. CASE WritesNext
        BY <2>2, AliveStep DEF WritesNext, Advances
    <2> QED BY <2>1, <2>2
<1> QED BY <1>1, <1>2, <1>3, WritesInvariance, PTL DEF WritesSpec, OneWorkerImplements
=============================================================================
