------------------------- MODULE ForumContentProofs -------------------------
(***************************************************************************)
(* Theorems of ForumContent: its types, and the invariant that ties topics *)
(* to their first and last post, for any number of users, forums, topics   *)
(* and posts.                                                              *)
(***************************************************************************)
EXTENDS ForumContent, FiniteSetTheorems, WellFoundedInduction, TLAPS

-----------------------------------------------------------------------------
(* The operators the handlers are built from.                              *)

\* A non-empty set of post ids has a largest element, and Newest is it.
LEMMA NewestIsLargest ==
    ASSUME NEW S \in SUBSET PostIds, S # {}
    PROVE  Newest(S) \in S /\ \A q \in S : q <= Newest(S)
<1> DEFINE Above(p) == {q \in S : p < q}
           Tops     == {Above(p) : p \in S}
<1>1. IsFiniteSet(PostIds)
    BY BoundsAssumption, FS_Interval DEF PostIds
<1>2. IsFiniteSet(S)
    BY <1>1, FS_Subset
<1>0. S \subseteq Int
    BY BoundsAssumption DEF PostIds
<1>3. IsWellFoundedOn(StrictSubsetOrdering(S), FiniteSubsetsOf(S))
    BY FS_StrictSubsetOrderingWellFounded
<1>4. Tops \subseteq FiniteSubsetsOf(S) /\ Tops # {}
    <2>1. FiniteSubsetsOf(S) = SUBSET S
        BY <1>2, FS_FiniteSubsetsOfFinite
    <2>2. \A p \in S : Above(p) \in SUBSET S
        OBVIOUS
    <2>3. Tops \subseteq SUBSET S
        BY <2>2
    <2>4. Tops # {}
        OBVIOUS
    <2> QED BY <2>1, <2>3, <2>4
<1>5. PICK X \in Tops : \A Y \in Tops : ~(<<Y, X>> \in StrictSubsetOrdering(S))
    <2> HIDE DEF Tops
    <2> QED BY <1>3, <1>4, WFMin
<1>6. PICK p \in S : X = Above(p)
    BY <1>5
<1>7. ASSUME NEW q \in S PROVE q <= p
    <2> SUFFICES ASSUME p < q PROVE FALSE
        BY <1>0
    <2>1. q \in Above(p) /\ q \notin Above(q)
        BY <1>0
    <2>3. Above(q) \subseteq Above(p)
        <3> SUFFICES ASSUME NEW r \in S, q < r PROVE p < r
            OBVIOUS
        <3> QED BY <1>0
    <2>2. <<Above(q), X>> \in StrictSubsetOrdering(S)
        BY <2>1, <2>3, <1>6 DEF StrictSubsetOrdering
    <2> QED BY <2>2, <1>5
<1> QED BY <1>7 DEF Newest

LEMMA PostsFinite == IsFiniteSet(PostIds)
BY BoundsAssumption, FS_Interval DEF PostIds

\* Counting posts or topics yields a number.
LEMMA CountsArePosts ==
    ASSUME NEW S \in SUBSET PostIds
    PROVE  Cardinality(S) \in Nat /\ Cardinality(S) \in Int
BY PostsFinite, FS_Subset, FS_CardinalityType

LEMMA CountsAreTopics == ASSUME NEW S \in SUBSET Topics PROVE Cardinality(S) \in Int
BY FiniteAssumption, FS_Subset, FS_CardinalityType

\* One element more or less.
LEMMA OneMore ==
    ASSUME NEW U, IsFiniteSet(U), NEW S \in SUBSET U, NEW x \in U
    PROVE  /\ Cardinality(S) \in Nat
           /\ x \notin S => Cardinality(S \cup {x}) = Cardinality(S) + 1
           /\ x \in S => Cardinality(S \ {x}) = Cardinality(S) - 1
<1>1. IsFiniteSet(S)
    BY FS_Subset
<1>2. Cardinality(S) \in Nat
    BY <1>1, FS_CardinalityType
<1>3. x \notin S => Cardinality(S \cup {x}) = Cardinality(S) + 1
    BY <1>1, FS_AddElement
<1>4. x \in S => Cardinality(S \ {x}) = Cardinality(S) - 1
    BY <1>1, FS_RemoveElement
<1> QED BY <1>2, <1>3, <1>4

\* Posts lost from, or won by, a set of posts.
LEMMA SomeMore ==
    ASSUME NEW S \in SUBSET PostIds, NEW R \in SUBSET PostIds
    PROVE  /\ R \subseteq S => Cardinality(S \ R) = Cardinality(S) - Cardinality(R)
           /\ R \cap S = {} => Cardinality(S \cup R) = Cardinality(S) + Cardinality(R)
<1>1. IsFiniteSet(S) /\ IsFiniteSet(R)
    BY PostsFinite, FS_Subset
<1>2. /\ Cardinality(S) \in Nat /\ Cardinality(R) \in Nat
    BY <1>1, FS_CardinalityType
<1>3. Cardinality({}) = 0
    BY FS_EmptySet
<1>4. ASSUME R \subseteq S PROVE Cardinality(S \ R) = Cardinality(S) - Cardinality(R)
    <2>1. S \cap R = R
        BY <1>4
    <2> QED BY <1>1, <2>1, FS_Difference
<1>5. ASSUME R \cap S = {} PROVE Cardinality(S \cup R) = Cardinality(S) + Cardinality(R)
    <2>1. S \cap R = {}
        BY <1>5
    <2>2. Cardinality(S \cup R) = Cardinality(S) + Cardinality(R) - Cardinality({})
        BY <1>1, <2>1, FS_Union
    <2> QED BY <1>2, <1>3, <2>2
<1> QED BY <1>4, <1>5

\* Where the elements of the two derived sets come from.
LEMMA Members ==
    /\ LiveTopics(topic) \subseteq Topics
    /\ \A t : PostsOf(t, post) \subseteq PostIds
    /\ \A t : \A p \in PostsOf(t, post) : post[p].topic = t
BY DEF LiveTopics, PostsOf

-----------------------------------------------------------------------------
(* Rows.  What each piece of a handler returns has the row's type, and what *)
(* it does to the last post.                                               *)

PostTable  == [PostIds -> PostRow]
TopicTable == [Topics -> TopicRow]

LEMMA NullIsNoId == None \notin PostIds /\ None \notin Topics /\ None \notin Forums
BY NoneAssumption

LEMMA WithLastRow ==
    ASSUME NEW row \in ForumRow, NEW p \in PostIds \cup {None},
           NEW name \in Users \cup {None}, NEW time \in Times
    PROVE  /\ WithLast(row, p, name, time) \in ForumRow
           /\ WithLast(row, p, name, time).last = p
BY DEF WithLast, ForumRow

LEMMA CountersRow ==
    ASSUME NEW row \in ForumRow
    PROVE  /\ row.posts \in Int /\ row.topics \in Int
           /\ \A a, b \in Int : [row EXCEPT !.posts = a, !.topics = b] \in ForumRow
           /\ \A a \in Int : [row EXCEPT !.posts = a] \in ForumRow
BY DEF ForumRow

LEMMA WithNewPostRow ==
    ASSUME NEW row \in ForumRow, NEW p \in PostIds, NEW name \in Users,
           NEW time \in Times, NEW more \in Int
    PROVE  /\ WithNewPost(row, p, name, time, more) \in ForumRow
           /\ WithNewPost(row, p, name, time, more).last = p
<1> DEFINE shown == WithLast(row, p, name, time)
<1>1. shown \in ForumRow /\ shown.last = p
    BY WithLastRow
<1> HIDE DEF shown
<1>2. shown.posts \in Int /\ shown.topics \in Int
    BY <1>1, CountersRow
<1>3. shown.posts + 1 \in Int /\ shown.topics + more \in Int
    BY <1>2
<1>4. [shown EXCEPT !.posts = shown.posts + 1, !.topics = shown.topics + more] \in ForumRow
    BY <1>1, <1>3, CountersRow
<1>5. WithNewPost(row, p, name, time, more)
        = [shown EXCEPT !.posts = shown.posts + 1, !.topics = shown.topics + more]
    BY DEF WithNewPost, shown
<1> QED BY <1>1, <1>4, <1>5 DEF ForumRow

LEMMA WithoutLastRow ==
    ASSUME NEW row \in ForumRow
    PROVE  WithoutLast(row) \in ForumRow /\ WithoutLast(row).last = None
<1>1. 0 \in Times
    BY BoundsAssumption DEF Times
<1> QED BY <1>1, WithLastRow DEF WithoutLast

LEMMA UpdateLastPostRow ==
    ASSUME NEW row \in ForumRow, NEW f \in Forums,
           NEW P \in PostTable, NEW T \in TopicTable
    PROVE  /\ UpdateLastPost(row, f, P, T) \in ForumRow
           /\ PostsIn(f, P, T) # {} => UpdateLastPost(row, f, P, T).last # None
<1> DEFINE last == Newest(PostsIn(f, P, T))
<1>1. CASE PostsIn(f, P, T) = {}
    BY <1>1, WithoutLastRow DEF UpdateLastPost
<1>2. CASE PostsIn(f, P, T) # {}
    <2>1. PostsIn(f, P, T) \in SUBSET PostIds
        BY DEF PostsIn
    <2>2. last \in PostIds
        BY <1>2, <2>1, NewestIsLargest
    <2>3. P[last].user \in Users \cup {None} /\ P[last].created \in Times
        BY <2>2 DEF PostTable, PostRow
    <2> HIDE DEF last
    <2>4. /\ WithLast(row, last, P[last].user, P[last].created) \in ForumRow
          /\ WithLast(row, last, P[last].user, P[last].created).last = last
        BY <2>2, <2>3, WithLastRow
    <2> QED BY <1>2, <2>2, <2>4, NullIsNoId DEF UpdateLastPost, last
<1> QED BY <1>1, <1>2

LEMMA CountedRow ==
    ASSUME NEW row \in ForumRow, NEW f \in Forums,
           NEW P \in PostTable, NEW T \in TopicTable
    PROVE  /\ FixPostCounts(row, f, P, T) \in ForumRow
           /\ FixPostCounts(row, f, P, T).last = row.last
           /\ Recalculate(row, f, P, T) \in ForumRow
           /\ Recalculate(row, f, P, T).last = row.last
<1>1. Cardinality(ShownTopicsIn(f, T)) \in Int
    BY CountsAreTopics DEF ShownTopicsIn, TopicsIn
<1>2. Cardinality(UnhiddenIn(f, P, T)) \in Int
    BY CountsArePosts DEF UnhiddenIn, PostsIn
<1>3. Cardinality(ShownIn(f, P, T)) \in Int
    BY CountsArePosts DEF ShownIn, ShownPosts
<1> QED BY <1>1, <1>2, <1>3 DEF FixPostCounts, Recalculate, ForumRow

LEMMA CountedUsers ==
    ASSUME TypeOK, NEW involved, NEW P, NEW T
    PROVE  FixUserPostCounts(involved, P, T) \in [Users -> Int]
<1>1. \A u \in Users : Cardinality(ShownBy(u, P, T)) \in Int
    BY CountsArePosts DEF ShownBy, ShownPosts
<1> QED BY <1>1 DEF FixUserPostCounts, TypeOK

LEMMA TopicWithoutPostRow ==
    ASSUME TypeOK, NEW p \in PostIds, NEW row \in TopicRow, row.first \in PostIds
    PROVE  LET new == TopicWithoutPost(p, row) IN
           /\ new \in TopicRow
           /\ new.forum = row.forum /\ new.hidden = row.hidden /\ new.first = row.first
           /\ new.last = IF row.last = p THEN row.first ELSE row.last
<1>1. post[row.first].created \in Times
    BY DEF TypeOK, PostRow
<1> QED BY <1>1 DEF TopicWithoutPost, SecondLastPost, TopicRow

LEMMA ForumWithoutPostRow ==
    ASSUME TypeOK, NEW p \in PostIds, NEW row \in ForumRow, NEW f \in Forums,
           NEW P \in PostTable
    PROVE  LET new == ForumWithoutPost(p, row, f, P) IN
           /\ new \in ForumRow
           /\ new.last = None => row.last = None \/ UnhiddenIn(f, P, topic) \ {p} = {}
<1> DEFINE rest == UnhiddenIn(f, P, topic) \ {p}
           last == Newest(rest)
<1>1. CASE rest = {}
    BY <1>1, WithoutLastRow DEF ForumWithoutPost
<1>2. CASE rest # {}
    <2>1. rest \in SUBSET PostIds
        BY DEF UnhiddenIn, PostsIn
    <2> HIDE DEF rest
    <2>2. last \in PostIds
        BY <1>2, <2>1, NewestIsLargest
    <2>3. P[last].user \in Users \cup {None} /\ P[last].created \in Times
        BY <2>2 DEF PostTable, PostRow
    <2> HIDE DEF last
    <2>4. /\ WithLast(row, last, P[last].user, P[last].created) \in ForumRow
          /\ WithLast(row, last, P[last].user, P[last].created).last = last
        BY <2>2, <2>3, WithLastRow
    <2> QED BY <1>2, <2>2, <2>4, NullIsNoId DEF ForumWithoutPost, last, rest
<1> QED BY <1>1, <1>2

LEMMA RemoveTopicRow ==
    ASSUME TypeOK, LastPostInTopic, NEW t \in LiveTopics(topic), ~topic[t].hidden,
           NEW row \in ForumRow, NEW f \in Forums, topic[t].forum = f
    PROVE  LET new == RemoveTopicFromForum(t, row, f) IN
           /\ new \in ForumRow
           /\ new.last = None => row.last = None \/ ShownTopicsIn(f, topic) = {t}
<1> DEFINE shown == ShownTopicsIn(f, topic)
           rest  == shown \ {t}
           lasts == {topic[s].last : s \in rest}
<1>1. /\ rest \subseteq LiveTopics(topic) /\ rest \subseteq Topics
      /\ shown \in SUBSET Topics /\ t \in shown
    BY NullIsNoId DEF ShownTopicsIn, TopicsIn, LiveTopics
<1>2. IsFiniteSet(shown) /\ Cardinality(shown) \in Nat
    BY <1>1, FiniteAssumption, FS_Subset, FS_CardinalityType
<1>3. CASE Cardinality(shown) <= 1
    <2>1. Cardinality(shown) # 0
        BY <1>1, <1>2, FS_EmptySet
    <2>2. Cardinality(shown) = 1
        BY <1>2, <1>3, <2>1
    <2>3. shown = {t}
        BY <1>1, <1>2, <2>2, FS_Singleton
    <2> QED BY <1>3, <2>3, WithoutLastRow DEF RemoveTopicFromForum
<1>4. CASE ~(Cardinality(shown) <= 1)
    <2>1. rest # {}
        <3> SUFFICES ASSUME shown = {t} PROVE FALSE
            BY <1>1
        <3>1. Cardinality({t}) = 1
            BY FS_Singleton
        <3> QED BY <1>4, <3>1
    <2>2. lasts \in SUBSET PostIds /\ lasts # {}
        BY <1>1, <2>1 DEF LastPostInTopic, PostsOf
    <2>3. \E s \in rest : \A o \in rest : topic[o].last <= topic[s].last
        <3>1. Newest(lasts) \in lasts /\ \A q \in lasts : q <= Newest(lasts)
            <4> HIDE DEF lasts
            <4> QED BY <2>2, NewestIsLargest
        <3>2. \E s \in rest : topic[s].last = Newest(lasts)
            BY <3>1
        <3> QED BY <3>1, <3>2
    <2> DEFINE second == CHOOSE s \in rest : \A o \in rest : topic[o].last <= topic[s].last
    <2>4. second \in rest
        BY <2>3
    <2>5. /\ topic[second].last \in PostIds
          /\ topic[second].user \in Users \cup {None} /\ topic[second].updated \in Times
        <3> HIDE DEF second
        <3> QED BY <1>1, <2>4 DEF LastPostInTopic, PostsOf, TypeOK, TopicRow
    <2> HIDE DEF second
    <2>6. \A p \in PostIds, name \in Users \cup {None}, time \in Times :
            WithLast(row, p, name, time) \in ForumRow /\ WithLast(row, p, name, time).last = p
        BY WithLastRow
    <2>7. LET new == WithLast(row, topic[second].last, topic[second].user, topic[second].updated)
          IN  new \in ForumRow /\ new.last = topic[second].last
        BY <2>5, <2>6
    <2> QED BY <1>4, <2>5, <2>7, NullIsNoId DEF RemoveTopicFromForum, second
<1> QED BY <1>3, <1>4

LEMMA RestoreTopicRow ==
    ASSUME TypeOK, LastPostInTopic, NEW t \in LiveTopics(topic),
           NEW row \in ForumRow, NEW f \in Forums, row.last = forum[f].last
    PROVE  LET new == RestoreTopicToForum(t, row, f) IN
           new \in ForumRow /\ new.last # None
<1>1. t \in Topics /\ topic[t].last \in PostIds
    BY DEF LastPostInTopic, PostsOf, LiveTopics
<1>2. topic[t].user \in Users \cup {None} /\ topic[t].updated \in Times
    BY <1>1 DEF TypeOK, TopicRow
<1>3. LET new == WithLast(row, topic[t].last, topic[t].user, topic[t].updated)
      IN  new \in ForumRow /\ new.last # None
    BY <1>1, <1>2, WithLastRow, NullIsNoId
<1>4. row.last = None => LastPost(f) = None
    BY DEF LastPost
<1> QED BY <1>3, <1>4 DEF RestoreTopicToForum

-----------------------------------------------------------------------------
(* The handlers preserve the invariant.                                    *)

LEMMA TimesFacts ==
    /\ 0 \in Times
    /\ \A i \in Times : i < MaxTime => i + 1 \in Times
BY BoundsAssumption DEF Times

\* Hiding or unhiding a topic changes two flags.
LEMMA FlagsOfTopic ==
    ASSUME IInv, NEW t \in LiveTopics(topic), NEW hidden \in BOOLEAN,
           post' = HandleFirstPost(t, hidden),
           topic' = [topic EXCEPT ![t].hidden = hidden],
           forums' = forums
    PROVE  /\ post' \in PostTable /\ topic' \in TopicTable
           /\ \A p \in PostIds : post'[p].topic = post[p].topic
           /\ \A p \in PostIds \ {topic[t].first} : post'[p] = post[p]
           /\ \A s \in Topics : topic'[s].forum = topic[s].forum
           /\ \A s \in Topics \ {t} : topic'[s] = topic[s]
           /\ topic'[t].hidden = hidden
           /\ NoOrphans' /\ FirstPostMirrorsTopic' /\ LastPostInTopic'
<1> USE DEF IInv
<1>1. t \in Topics /\ topic[t].first \in PostIds /\ post[topic[t].first].topic = t
    BY DEF LiveTopics, FirstPostMirrorsTopic, PostsOf
<1>2. post' \in PostTable
    BY <1>1 DEF TypeOK, PostTable, PostRow, HandleFirstPost
<1>3. topic' \in TopicTable
    BY <1>1 DEF TypeOK, TopicTable, TopicRow
<1>4. /\ \A p \in PostIds : post'[p].topic = post[p].topic
      /\ \A p \in PostIds \ {topic[t].first} : post'[p] = post[p]
      /\ \A s \in Topics : topic'[s].forum = topic[s].forum
      /\ \A s \in Topics : topic'[s].first = topic[s].first
      /\ \A s \in Topics : topic'[s].last = topic[s].last
      /\ \A s \in Topics \ {t} : topic'[s] = topic[s]
      /\ post'[topic[t].first].hidden = hidden /\ topic'[t].hidden = hidden
    BY <1>1 DEF TypeOK, PostRow, TopicRow, HandleFirstPost
<1>5. ASSUME NEW s \in LiveTopics(topic')
      PROVE  /\ s \in LiveTopics(topic)
             /\ PostsOf(s, post') = PostsOf(s, post)
             /\ topic[s].first \in PostsOf(s, post) /\ topic[s].last \in PostsOf(s, post)
             /\ s = t \/ topic[s].first # topic[t].first
             /\ s = t \/ topic[s].last # topic[t].first
    <2>1. s \in LiveTopics(topic)
        BY <1>4, <1>5 DEF LiveTopics
    <2>2. PostsOf(s, post') = PostsOf(s, post)
        BY <1>4 DEF PostsOf
    <2>3. topic[s].first \in PostsOf(s, post)
        BY <2>1 DEF FirstPostMirrorsTopic
    <2>4. topic[s].last \in PostsOf(s, post)
        BY <2>1 DEF LastPostInTopic
    <2> QED BY <1>1, <2>1, <2>2, <2>3, <2>4, Members
<1>6. NoOrphans'
    <2>1. ASSUME NEW p \in PostIds, post'[p].topic # None
          PROVE  post'[p].topic \in LiveTopics(topic')
        BY <1>4, <2>1 DEF NoOrphans, LiveTopics
    <2>2. ASSUME NEW s \in LiveTopics(topic') PROVE topic'[s].forum \in forums'
        BY <1>4, <2>2 DEF NoOrphans, LiveTopics
    <2> QED BY <2>1, <2>2 DEF NoOrphans
<1>7. FirstPostMirrorsTopic'
    <2> SUFFICES ASSUME NEW s \in LiveTopics(topic')
                 PROVE  LET p == topic'[s].first IN
                        /\ p \in PostsOf(s, post')
                        /\ (post'[p].hidden <=> topic'[s].hidden)
                        /\ \A q \in PostsOf(s, post') : p <= q
        BY DEF FirstPostMirrorsTopic
    <2>1. CASE s = t
        <3>1. topic'[t].first = topic[t].first
            BY <1>1, <1>4
        <3>2. post'[topic[t].first].hidden <=> topic'[t].hidden
            BY <1>4
        <3>3. \A q \in PostsOf(t, post) : topic[t].first <= q
            BY DEF FirstPostMirrorsTopic
        <3> QED BY <1>5, <2>1, <3>1, <3>2, <3>3
    <2>2. CASE s # t
        <3>1. topic'[s] = topic[s] /\ post'[topic[s].first] = post[topic[s].first]
            BY <1>4, <1>5, <2>2, Members
        <3> QED BY <1>5, <3>1 DEF FirstPostMirrorsTopic
    <2> QED BY <2>1, <2>2
<1>8. LastPostInTopic'
    <2> SUFFICES ASSUME NEW s \in LiveTopics(topic')
                 PROVE  LET p == topic'[s].last IN
                        /\ p \in PostsOf(s, post')
                        /\ post'[p].hidden => p = topic'[s].first
        BY DEF LastPostInTopic
    <2>1. topic'[s].last = topic[s].last /\ topic'[s].first = topic[s].first
        BY <1>4, <1>5, Members
    <2>2. CASE topic[s].last = topic[t].first
        BY <1>5, <2>1, <2>2
    <2>3. CASE topic[s].last # topic[t].first
        <3>1. post'[topic[s].last] = post[topic[s].last]
            BY <1>4, <1>5, <2>3, Members
        <3> QED BY <1>5, <2>1, <3>1 DEF LastPostInTopic
    <2> QED BY <2>2, <2>3
<1> QED BY <1>2, <1>3, <1>4, <1>6, <1>7, <1>8

LEMMA HideTopicPreserves ==
    ASSUME IInv, NEW t \in LiveTopics(topic), HideTopic(t)
    PROVE  IInv'
<1> DEFINE f == topic[t].forum
           P == HandleFirstPost(t, TRUE)
           T == [topic EXCEPT ![t].hidden = TRUE]
           removed == RemoveTopicFromForum(t, forum[f], f)
<1> USE DEF IInv
<1>1. /\ t \in Topics /\ f \in forums /\ f \in Forums /\ ~topic[t].hidden
      /\ topic[t].first \in PostIds /\ post[topic[t].first].topic = t
    BY DEF LiveTopics, NoOrphans, HideTopic, TypeOK, FirstPostMirrorsTopic, PostsOf
<1>2. /\ post' = P /\ topic' = T
      /\ tally' = FixUserPostCounts(InvolvedUsers(t), P, T)
      /\ forum' = [forum EXCEPT ![f] = FixPostCounts(removed, f, P, T)]
      /\ UNCHANGED <<forums, users, clock, granted>>
    BY DEF HideTopic
<1>3. /\ P \in PostTable /\ T \in TopicTable
      /\ \A p \in PostIds : post'[p].topic = post[p].topic
      /\ \A p \in PostIds \ {topic[t].first} : post'[p] = post[p]
      /\ \A s \in Topics : topic'[s].forum = topic[s].forum
      /\ \A s \in Topics \ {t} : topic'[s] = topic[s]
      /\ topic'[t].hidden
      /\ NoOrphans' /\ FirstPostMirrorsTopic' /\ LastPostInTopic'
    BY <1>2, FlagsOfTopic
<1>4. /\ removed \in ForumRow
      /\ removed.last = None => forum[f].last = None \/ ShownTopicsIn(f, topic) = {t}
    BY <1>1, RemoveTopicRow DEF TypeOK
<1>5. /\ FixPostCounts(removed, f, P, T) \in ForumRow
      /\ FixPostCounts(removed, f, P, T).last = removed.last
    BY <1>1, <1>3, <1>4, CountedRow
<1>6. TypeOK'
    BY <1>1, <1>2, <1>3, <1>5, CountedUsers DEF TypeOK, PostTable, TopicTable
<1>7. ForumNotForgotten'
    <2> SUFFICES ASSUME NEW g \in forums, ShownIn(g, post', topic') # {}
                 PROVE  forum'[g].last # None
        BY <1>2 DEF ForumNotForgotten, ShownIn, ShownPosts, PostsIn
    <2>1. PICK p \in PostIds : /\ post[p].topic # None /\ ~post'[p].hidden
                               /\ ~topic'[post[p].topic].hidden
                               /\ topic'[post[p].topic].forum = g
        BY <1>3 DEF ShownIn, ShownPosts, PostsIn
    <2>2. /\ post[p].topic \in LiveTopics(topic) /\ post[p].topic # t
          /\ topic[post[p].topic].forum = g /\ ~topic[post[p].topic].hidden
          /\ ~post[p].hidden
        <3>1. post[p].topic \in LiveTopics(topic) /\ post[p].topic # t
            BY <1>3, <2>1 DEF NoOrphans
        <3>2. topic'[post[p].topic] = topic[post[p].topic]
            BY <1>3, <3>1, Members
        <3>3. p # topic[t].first
            BY <1>1, <3>1
        <3> QED BY <1>3, <2>1, <3>1, <3>2, <3>3
    <2>3. p \in ShownIn(g, post, topic) /\ forum[g].last # None
        BY <2>1, <2>2 DEF ShownIn, ShownPosts, PostsIn, ForumNotForgotten
    <2>4. post[p].topic \in ShownTopicsIn(g, topic)
        BY <2>2 DEF ShownTopicsIn, TopicsIn, LiveTopics
    <2>5. CASE g = f
        <3>1. ShownTopicsIn(f, topic) # {t}
            BY <2>2, <2>4, <2>5
        <3> QED BY <1>1, <1>2, <1>4, <1>5, <2>3, <2>5, <3>1 DEF TypeOK
    <2>6. CASE g # f
        BY <1>2, <2>3, <2>6 DEF TypeOK
    <2> QED BY <2>5, <2>6
<1> QED BY <1>3, <1>6, <1>7

LEMMA UnhideTopicPreserves ==
    ASSUME IInv, NEW t \in LiveTopics(topic), UnhideTopic(t)
    PROVE  IInv'
<1> DEFINE f == topic[t].forum
           P == HandleFirstPost(t, FALSE)
           T == [topic EXCEPT ![t].hidden = FALSE]
           restored == RestoreTopicToForum(t, forum[f], f)
<1> USE DEF IInv
<1>1. /\ t \in Topics /\ f \in forums /\ f \in Forums
      /\ topic[t].first \in PostIds /\ post[topic[t].first].topic = t
    BY DEF LiveTopics, NoOrphans, TypeOK, FirstPostMirrorsTopic, PostsOf
<1>2. /\ post' = P /\ topic' = T
      /\ tally' = FixUserPostCounts(InvolvedUsers(t), P, T)
      /\ forum' = [forum EXCEPT ![f] = Recalculate(restored, f, P, T)]
      /\ UNCHANGED <<forums, users, clock, granted>>
    BY DEF UnhideTopic
<1>3. /\ P \in PostTable /\ T \in TopicTable
      /\ \A p \in PostIds : post'[p].topic = post[p].topic
      /\ \A p \in PostIds \ {topic[t].first} : post'[p] = post[p]
      /\ \A s \in Topics : topic'[s].forum = topic[s].forum
      /\ \A s \in Topics \ {t} : topic'[s] = topic[s]
      /\ NoOrphans' /\ FirstPostMirrorsTopic' /\ LastPostInTopic'
    BY <1>2, FlagsOfTopic
<1>4. restored \in ForumRow /\ restored.last # None
    BY <1>1, RestoreTopicRow DEF TypeOK
<1>5. /\ Recalculate(restored, f, P, T) \in ForumRow
      /\ Recalculate(restored, f, P, T).last # None
    BY <1>1, <1>3, <1>4, CountedRow
<1>6. TypeOK'
    BY <1>1, <1>2, <1>3, <1>5, CountedUsers DEF TypeOK, PostTable, TopicTable
<1>7. ForumNotForgotten'
    <2> SUFFICES ASSUME NEW g \in forums, ShownIn(g, post', topic') # {}
                 PROVE  forum'[g].last # None
        BY <1>2 DEF ForumNotForgotten
    <2>1. CASE g = f
        BY <1>1, <1>2, <1>5, <2>1 DEF TypeOK
    <2>2. CASE g # f
        <3>1. PICK p \in PostIds : /\ post[p].topic # None /\ ~post'[p].hidden
                                   /\ ~topic'[post[p].topic].hidden
                                   /\ topic'[post[p].topic].forum = g
            BY <1>3 DEF ShownIn, ShownPosts, PostsIn
        <3>2. post[p].topic \in Topics /\ topic[post[p].topic].forum = g
            BY <1>3, <3>1, Members DEF NoOrphans
        <3>3. topic'[post[p].topic] = topic[post[p].topic] /\ post'[p] = post[p]
            BY <1>1, <1>3, <2>2, <3>2
        <3>4. p \in ShownIn(g, post, topic)
            BY <3>1, <3>3 DEF ShownIn, ShownPosts, PostsIn
        <3> QED BY <1>2, <2>2, <3>4 DEF TypeOK, ForumNotForgotten
    <2> QED BY <2>1, <2>2
<1> QED BY <1>3, <1>6, <1>7

\* Deleting topics, with their posts, leaves the others as they are.
LEMMA TopicsGone ==
    ASSUME IInv, NEW gone \in SUBSET Topics,
           post' = WithoutTopics(gone, post),
           \A s \in gone : topic'[s] = BlankTopic,
           \A s \in Topics \ gone : topic'[s] = topic[s],
           topic' \in [Topics -> {BlankTopic} \cup TopicRow],
           \A s \in LiveTopics(topic) \ gone : topic[s].forum \in forums'
    PROVE  /\ post' \in PostTable /\ topic' \in TopicTable
           /\ NoOrphans' /\ FirstPostMirrorsTopic' /\ LastPostInTopic'
           /\ \A f : ShownIn(f, post', topic') \subseteq ShownIn(f, post, topic)
<1> USE DEF IInv
<1>1. BlankPost \in PostRow /\ BlankTopic \in TopicRow
    BY TimesFacts DEF BlankPost, BlankTopic, PostRow, TopicRow
<1>2. post' \in PostTable
    BY <1>1 DEF TypeOK, PostTable, WithoutTopics
<1>3. topic' \in TopicTable
    BY <1>1 DEF TopicTable
<1>4. ASSUME NEW p \in PostIds, post'[p].topic # None
      PROVE  /\ post'[p] = post[p] /\ post[p].topic \in LiveTopics(topic) \ gone
             /\ post[p].topic \in Topics \ gone
    <2>1. post'[p] = post[p] /\ post[p].topic \notin gone
        BY <1>4 DEF WithoutTopics, BlankPost
    <2> QED BY <1>4, <2>1, Members DEF NoOrphans
<1>5. ASSUME NEW s \in LiveTopics(topic')
      PROVE  /\ s \in LiveTopics(topic) \ gone /\ topic'[s] = topic[s]
             /\ PostsOf(s, post') = PostsOf(s, post)
             /\ \A p \in PostsOf(s, post) : post'[p] = post[p]
    <2>1. s \in Topics \ gone
        BY <1>5 DEF LiveTopics, BlankTopic
    <2>2. topic'[s] = topic[s] /\ s \in LiveTopics(topic)
        BY <2>1, <1>5 DEF LiveTopics
    <2>3. \A p \in PostIds : post[p].topic = s => post'[p] = post[p]
        BY <2>1 DEF WithoutTopics
    <2>4. \A p \in PostIds : post'[p].topic = s => post'[p] = post[p]
        BY <1>4, <2>1, NullIsNoId
    <2>5. PostsOf(s, post') = PostsOf(s, post)
        BY <2>3, <2>4 DEF PostsOf
    <2> QED BY <2>1, <2>2, <2>3, <2>5, Members
<1>6. NoOrphans'
    <2>1. ASSUME NEW p \in PostIds, post'[p].topic # None
          PROVE  post'[p].topic \in LiveTopics(topic')
        BY <1>4, <2>1 DEF LiveTopics
    <2>2. ASSUME NEW s \in LiveTopics(topic') PROVE topic'[s].forum \in forums'
        BY <1>5, <2>2
    <2> QED BY <2>1, <2>2 DEF NoOrphans
<1>7. FirstPostMirrorsTopic'
    <2> SUFFICES ASSUME NEW s \in LiveTopics(topic')
                 PROVE  LET p == topic'[s].first IN
                        /\ p \in PostsOf(s, post')
                        /\ (post'[p].hidden <=> topic'[s].hidden)
                        /\ \A q \in PostsOf(s, post') : p <= q
        BY DEF FirstPostMirrorsTopic
    <2>1. topic[s].first \in PostsOf(s, post)
        BY <1>5 DEF FirstPostMirrorsTopic
    <2>2. post'[topic[s].first] = post[topic[s].first]
        BY <1>5, <2>1
    <2> QED BY <1>5, <2>2 DEF FirstPostMirrorsTopic
<1>8. LastPostInTopic'
    <2> SUFFICES ASSUME NEW s \in LiveTopics(topic')
                 PROVE  LET p == topic'[s].last IN
                        /\ p \in PostsOf(s, post')
                        /\ post'[p].hidden => p = topic'[s].first
        BY DEF LastPostInTopic
    <2>1. topic[s].last \in PostsOf(s, post)
        BY <1>5 DEF LastPostInTopic
    <2>2. post'[topic[s].last] = post[topic[s].last]
        BY <1>5, <2>1
    <2> QED BY <1>5, <2>2 DEF LastPostInTopic
<1>9. ASSUME NEW f PROVE ShownIn(f, post', topic') \subseteq ShownIn(f, post, topic)
    <2> SUFFICES ASSUME NEW p \in PostIds, post'[p].topic # None, ~post'[p].hidden,
                        ~topic'[post'[p].topic].hidden,
                        topic'[post'[p].topic].forum = f
                 PROVE  p \in ShownIn(f, post, topic)
        BY DEF ShownIn, ShownPosts, PostsIn
    <2>1. post'[p] = post[p] /\ topic'[post[p].topic] = topic[post[p].topic]
        BY <1>4
    <2> QED BY <2>1 DEF ShownIn, ShownPosts, PostsIn
<1> QED BY <1>2, <1>3, <1>6, <1>7, <1>8, <1>9

LEMMA BlankForumRow == BlankForum \in ForumRow
BY TimesFacts DEF BlankForum, ForumRow

LEMMA DeleteTopicPreserves ==
    ASSUME IInv, NEW t \in LiveTopics(topic), DeleteTopic(t)
    PROVE  IInv'
<1> DEFINE f == topic[t].forum
           P == WithoutTopics({t}, post)
           T == [topic EXCEPT ![t] = BlankTopic]
           row == FixPostCounts(forum[f], f, P, T)
           new == IF row.last = None \/ row.last = topic[t].last
                  THEN UpdateLastPost(row, f, P, T) ELSE row
<1> USE DEF IInv
<1>1. t \in Topics /\ f \in forums /\ f \in Forums
    BY DEF LiveTopics, NoOrphans, TypeOK
<1>2. /\ post' = P /\ topic' = T
      /\ tally' = FixUserPostCounts(InvolvedUsers(t), P, T)
      /\ forum' = [forum EXCEPT ![f] = new]
      /\ UNCHANGED <<forums, users, clock, granted>>
    BY DEF DeleteTopic
<1>3. /\ P \in PostTable /\ T \in TopicTable
      /\ NoOrphans' /\ FirstPostMirrorsTopic' /\ LastPostInTopic'
      /\ \A g : ShownIn(g, post', topic') \subseteq ShownIn(g, post, topic)
    <2>1. topic' \in [Topics -> {BlankTopic} \cup TopicRow]
        BY <1>2 DEF TypeOK
    <2>2. /\ \A s \in {t} : topic'[s] = BlankTopic
          /\ \A s \in Topics \ {t} : topic'[s] = topic[s]
        BY <1>1, <1>2 DEF TypeOK
    <2>3. \A s \in LiveTopics(topic) \ {t} : topic[s].forum \in forums'
        BY <1>2 DEF NoOrphans
    <2> HIDE DEF IInv, P, T
    <2> QED BY <1>1, <1>2, <2>1, <2>2, <2>3, TopicsGone DEF P
<1>4. row \in ForumRow
    BY <1>1, <1>3, CountedRow DEF TypeOK
<1>5. new \in ForumRow /\ (PostsIn(f, P, T) # {} => new.last # None)
    <2> HIDE DEF row, P, T, f
    <2> QED BY <1>1, <1>3, <1>4, UpdateLastPostRow
<1>6. TypeOK'
    BY <1>1, <1>2, <1>3, <1>5, CountedUsers DEF TypeOK, PostTable, TopicTable
<1>7. ForumNotForgotten'
    <2> SUFFICES ASSUME NEW g \in forums, ShownIn(g, post', topic') # {}
                 PROVE  forum'[g].last # None
        BY <1>2 DEF ForumNotForgotten
    <2>1. CASE g = f
        <3>1. PostsIn(f, P, T) # {}
            BY <1>2, <2>1 DEF ShownIn
        <3> QED BY <1>1, <1>2, <1>5, <2>1, <3>1 DEF TypeOK
    <2>2. CASE g # f
        BY <1>2, <1>3, <2>2 DEF TypeOK, ForumNotForgotten
    <2> QED BY <2>1, <2>2
<1> QED BY <1>3, <1>6, <1>7

LEMMA DeleteForumPreserves ==
    ASSUME IInv, NEW f \in Forums, DeleteForum(f)
    PROVE  IInv'
<1> DEFINE gone == TopicsIn(f, topic)
<1> USE DEF IInv
<1>1. /\ post' = WithoutTopics(gone, post)
      /\ topic' = [t \in Topics |-> IF t \in gone THEN BlankTopic ELSE topic[t]]
      /\ forum' = [forum EXCEPT ![f] = BlankForum]
      /\ forums' = forums \ {f} /\ UNCHANGED <<users, clock, granted>>
    BY DEF DeleteForum
<1>2. /\ post' \in PostTable /\ topic' \in TopicTable
      /\ NoOrphans' /\ FirstPostMirrorsTopic' /\ LastPostInTopic'
      /\ \A g : ShownIn(g, post', topic') \subseteq ShownIn(g, post, topic)
    <2>1. gone \in SUBSET Topics
        BY DEF TopicsIn
    <2>2. \A s \in LiveTopics(topic) \ gone : topic[s].forum \in forums'
        BY <1>1 DEF NoOrphans, TopicsIn, LiveTopics
    <2>3. topic' \in [Topics -> {BlankTopic} \cup TopicRow]
        BY <1>1 DEF TypeOK
    <2>4. /\ \A s \in gone : topic'[s] = BlankTopic
          /\ \A s \in Topics \ gone : topic'[s] = topic[s]
        BY <1>1, <2>1
    <2> HIDE DEF gone, IInv
    <2> QED BY <1>1, <2>1, <2>2, <2>3, <2>4, TopicsGone
<1>3. TypeOK'
    <2>1. tally' \in [Users -> Int]
        <3> DEFINE Of(u) == {p \in PostIds : WithoutTopics(gone, post)[p].user = u}
        <3>1. \A u \in Users : Cardinality(Of(u)) \in Int
            BY CountsArePosts
        <3> HIDE DEF gone
        <3> QED BY <3>1 DEF DeleteForum, TypeOK, gone
    <2> QED BY <1>1, <1>2, <2>1, BlankForumRow DEF TypeOK, PostTable, TopicTable
<1>4. ForumNotForgotten'
    BY <1>1, <1>2 DEF ForumNotForgotten, TypeOK
<1> QED BY <1>2, <1>3, <1>4

LEMMA DeleteCategoryPreserves ==
    ASSUME IInv, NEW c \in Categories, DeleteCategory(c)
    PROVE  IInv'
<1> DEFINE closed == {f \in forums : CategoryOf[f] = c}
           gone   == UNION {TopicsIn(f, topic) : f \in closed}
<1> USE DEF IInv
<1>1. /\ post' = WithoutTopics(gone, post)
      /\ topic' = [t \in Topics |-> IF t \in gone THEN BlankTopic ELSE topic[t]]
      /\ forum' = [f \in Forums |-> IF f \in closed THEN BlankForum ELSE forum[f]]
      /\ forums' = forums \ closed /\ UNCHANGED <<tally, users, clock, granted>>
    BY DEF DeleteCategory
<1>2. /\ post' \in PostTable /\ topic' \in TopicTable
      /\ NoOrphans' /\ FirstPostMirrorsTopic' /\ LastPostInTopic'
      /\ \A g : ShownIn(g, post', topic') \subseteq ShownIn(g, post, topic)
    <2>1. gone \in SUBSET Topics
        BY DEF TopicsIn
    <2>2. ASSUME NEW s \in LiveTopics(topic) \ gone PROVE topic[s].forum \in forums'
        <3>1. topic[s].forum \in forums /\ s \in TopicsIn(topic[s].forum, topic)
            BY DEF NoOrphans, TopicsIn, LiveTopics
        <3> QED BY <1>1, <3>1
    <2>3. topic' \in [Topics -> {BlankTopic} \cup TopicRow]
        BY <1>1 DEF TypeOK
    <2>4. /\ \A s \in gone : topic'[s] = BlankTopic
          /\ \A s \in Topics \ gone : topic'[s] = topic[s]
        BY <1>1, <2>1
    <2> HIDE DEF gone, closed, IInv
    <2> QED BY <1>1, <2>1, <2>2, <2>3, <2>4, TopicsGone
<1>3. TypeOK'
    <2> HIDE DEF gone
    <2> QED BY <1>1, <1>2, BlankForumRow DEF TypeOK, PostTable, TopicTable
<1>4. ForumNotForgotten'
    <2> HIDE DEF gone
    <2> QED BY <1>1, <1>2 DEF ForumNotForgotten, TypeOK
<1> QED BY <1>2, <1>3, <1>4

LEMMA AddForumPreserves ==
    ASSUME IInv, NEW f \in Forums, AddForum(f)
    PROVE  IInv'
<1> USE DEF IInv
<1>1. /\ f \notin forums /\ forums' = forums \cup {f}
      /\ forum' = [forum EXCEPT ![f].lastCreated = clock]
      /\ UNCHANGED <<post, topic, tally, users, clock, granted>>
    BY DEF AddForum
<1>2. TypeOK'
    BY <1>1 DEF TypeOK, ForumRow
<1>3. NoOrphans' /\ FirstPostMirrorsTopic' /\ LastPostInTopic'
    BY <1>1 DEF NoOrphans, FirstPostMirrorsTopic, LastPostInTopic
<1>4. ForumNotForgotten'
    <2>1. ShownIn(f, post, topic) = {}
        BY <1>1, Members DEF NoOrphans, ShownIn, ShownPosts, PostsIn
    <2> QED BY <1>1, <2>1 DEF ForumNotForgotten, TypeOK
<1> QED BY <1>2, <1>3, <1>4

LEMMA DeleteUserPreserves ==
    ASSUME IInv, NEW u \in Users, DeleteUser(u)
    PROVE  IInv'
<1> USE DEF IInv
<1>1. TypeOK'
    BY DEF TypeOK, DeleteUser
<1>2. NoOrphans' /\ FirstPostMirrorsTopic' /\ LastPostInTopic' /\ ForumNotForgotten'
    BY DEF DeleteUser, NoOrphans, FirstPostMirrorsTopic, LastPostInTopic, ForumNotForgotten
<1> QED BY <1>1, <1>2

LEMMA MoveTopicPreserves ==
    ASSUME IInv, NEW t \in Topics, NEW g \in Forums, MoveTopic(t, g)
    PROVE  IInv'
<1> DEFINE f    == topic[t].forum
           T    == [topic EXCEPT ![t].forum = g]
           from == [forum[f] EXCEPT !.posts = @ - topic[t].posts, !.topics = @ - 1]
           to   == [forum[g] EXCEPT !.posts = @ + topic[t].posts, !.topics = @ + 1]
<1> USE DEF IInv
<1>1. /\ t \in LiveTopics(topic) /\ g \in forums /\ f # g
      /\ f \in forums /\ f \in Forums
    BY DEF MoveTopic, NoOrphans, TypeOK
<1>2. /\ topic' = T
      /\ forum' = [forum EXCEPT ![f] = UpdateLastPost(from, f, post, T),
                                ![g] = UpdateLastPost(to, g, post, T)]
      /\ UNCHANGED <<post, tally, forums, users, clock, granted>>
    BY DEF MoveTopic
<1>3. post \in PostTable /\ T \in TopicTable /\ from \in ForumRow /\ to \in ForumRow
    <2>1. T \in TopicTable
        BY DEF TypeOK, TopicTable, TopicRow
    <2>2. /\ forum[f] \in ForumRow /\ forum[g] \in ForumRow
          /\ topic[t].posts \in Int
        BY <1>1 DEF TypeOK, TopicRow
    <2>3. from \in ForumRow /\ to \in ForumRow
        <3>0. /\ forum[f].posts \in Int /\ forum[f].topics \in Int
              /\ forum[g].posts \in Int /\ forum[g].topics \in Int
            BY <2>2, CountersRow
        <3>1. /\ forum[f].posts - topic[t].posts \in Int /\ forum[f].topics - 1 \in Int
              /\ forum[g].posts + topic[t].posts \in Int /\ forum[g].topics + 1 \in Int
            BY <2>2, <3>0
        <3> QED BY <2>2, <3>1, CountersRow
    <2> QED BY <2>1, <2>3 DEF TypeOK, PostTable
<1>4. /\ UpdateLastPost(from, f, post, T) \in ForumRow
      /\ PostsIn(f, post, T) # {} => UpdateLastPost(from, f, post, T).last # None
      /\ UpdateLastPost(to, g, post, T) \in ForumRow
      /\ PostsIn(g, post, T) # {} => UpdateLastPost(to, g, post, T).last # None
    <2> HIDE DEF f, T, from, to, IInv
    <2> QED BY <1>1, <1>3, UpdateLastPostRow
<1>5. TypeOK'
    BY <1>1, <1>2, <1>3, <1>4 DEF TypeOK, TopicTable
<1>6. /\ \A s \in Topics : topic'[s].forum = IF s = t THEN g ELSE topic[s].forum
      /\ \A s \in Topics : topic'[s].first = topic[s].first
      /\ \A s \in Topics : topic'[s].last = topic[s].last
      /\ \A s \in Topics : topic'[s].hidden <=> topic[s].hidden
      /\ \A s \in Topics \ {t} : topic'[s] = topic[s]
    BY <1>2 DEF TypeOK, TopicRow
<1>7. LiveTopics(topic') = LiveTopics(topic)
    BY <1>1, <1>6, NullIsNoId DEF LiveTopics
<1>8. NoOrphans'
    <2>1. ASSUME NEW p \in PostIds, post'[p].topic # None
          PROVE  post'[p].topic \in LiveTopics(topic')
        BY <1>2, <1>7, <2>1 DEF NoOrphans
    <2>2. ASSUME NEW s \in LiveTopics(topic') PROVE topic'[s].forum \in forums'
        BY <1>1, <1>2, <1>6, <1>7, Members DEF NoOrphans
    <2> QED BY <2>1, <2>2 DEF NoOrphans
<1>9. FirstPostMirrorsTopic'
    <2> SUFFICES ASSUME NEW s \in LiveTopics(topic)
                 PROVE  LET p == topic'[s].first IN
                        /\ p \in PostsOf(s, post')
                        /\ (post'[p].hidden <=> topic'[s].hidden)
                        /\ \A q \in PostsOf(s, post') : p <= q
        BY <1>7 DEF FirstPostMirrorsTopic
    <2> QED BY <1>2, <1>6, Members DEF FirstPostMirrorsTopic
<1>10. LastPostInTopic'
    <2> SUFFICES ASSUME NEW s \in LiveTopics(topic)
                 PROVE  LET p == topic'[s].last IN
                        /\ p \in PostsOf(s, post')
                        /\ post'[p].hidden => p = topic'[s].first
        BY <1>7 DEF LastPostInTopic
    <2> QED BY <1>2, <1>6, Members DEF LastPostInTopic
<1>11. ForumNotForgotten'
    <2> SUFFICES ASSUME NEW h \in forums, ShownIn(h, post', topic') # {}
                 PROVE  forum'[h].last # None
        BY <1>2 DEF ForumNotForgotten
    <2>1. PostsIn(h, post, T) # {}
        BY <1>2 DEF ShownIn
    <2>2. CASE h = f
        BY <1>1, <1>2, <1>4, <2>1, <2>2 DEF TypeOK
    <2>3. CASE h = g
        BY <1>1, <1>2, <1>4, <2>1, <2>3 DEF TypeOK
    <2>4. CASE h # f /\ h # g
        <3>1. PICK p \in PostIds : /\ post[p].topic # None /\ ~post[p].hidden
                                   /\ ~topic'[post[p].topic].hidden
                                   /\ topic'[post[p].topic].forum = h
            BY <1>2 DEF ShownIn, ShownPosts, PostsIn
        <3>2. post[p].topic \in Topics \ {t}
            BY <1>6, <2>4, <3>1, Members DEF NoOrphans
        <3>3. p \in ShownIn(h, post, topic)
            BY <1>6, <3>1, <3>2 DEF ShownIn, ShownPosts, PostsIn
        <3> QED BY <1>2, <2>4, <3>3 DEF TypeOK, ForumNotForgotten
    <2> QED BY <2>2, <2>3, <2>4
<1> QED BY <1>5, <1>8, <1>9, <1>10, <1>11

\* The next row id is larger than every id in use.
LEMMA NextIdIsFresh ==
    ASSUME NEW p \in PostIds, NextId(p)
    PROVE  /\ post[p].topic = None
           /\ \A q \in PostIds : post[q].topic # None => q < p
BY DEF NextId

LEMMA NewTopicPreserves ==
    ASSUME IInv, NEW u \in Users, NEW f \in Forums, NewTopic(u, f)
    PROVE  IInv'
<1> USE DEF IInv
<1>1. PICK t \in Topics \ LiveTopics(topic), p \in PostIds :
        /\ NextId(p)
        /\ post' = [post EXCEPT ![p] = [topic |-> t, user |-> u,
                                        hidden |-> FALSE, created |-> clock']]
        /\ topic' = [topic EXCEPT ![t] = [forum |-> f, user |-> u, hidden |-> FALSE,
                                          first |-> p, last |-> p,
                                          updated |-> clock', posts |-> 1]]
        /\ forum' = [forum EXCEPT ![f] = WithNewPost(@, p, u, clock', 1)]
    BY DEF NewTopic
<1>2. /\ f \in forums /\ clock' \in Times
      /\ tally' = [tally EXCEPT ![u] = @ + 1] /\ UNCHANGED <<forums, users, granted>>
    BY TimesFacts DEF NewTopic, TypeOK
<1>3. /\ post[p].topic = None
      /\ \A q \in PostIds : post[q].topic # t
    <2>1. t # None
        BY NullIsNoId
    <2> QED BY <1>1, <2>1, NextIdIsFresh DEF NoOrphans
<1>4. /\ post'[p].topic = t /\ ~post'[p].hidden
      /\ \A q \in PostIds \ {p} : post'[q] = post[q]
      /\ topic'[t].forum = f /\ ~topic'[t].hidden /\ topic'[t].first = p /\ topic'[t].last = p
      /\ \A s \in Topics \ {t} : topic'[s] = topic[s]
    BY <1>1 DEF TypeOK
<1>5. /\ WithNewPost(forum[f], p, u, clock', 1) \in ForumRow
      /\ WithNewPost(forum[f], p, u, clock', 1).last = p
    BY <1>2, WithNewPostRow DEF TypeOK
<1>6. TypeOK'
    <2>1. post' \in [PostIds -> PostRow] /\ topic' \in [Topics -> TopicRow]
        BY <1>1, <1>2 DEF TypeOK, PostRow, TopicRow
    <2>3. forum' \in [Forums -> ForumRow]
        BY <1>1, <1>5 DEF TypeOK
    <2>4. tally' \in [Users -> Int]
        BY <1>2 DEF TypeOK
    <2> QED BY <1>2, <2>1, <2>3, <2>4 DEF TypeOK
<1>7. PostsOf(t, post') = {p}
    BY <1>3, <1>4 DEF PostsOf
<1>8. ASSUME NEW s \in LiveTopics(topic') \ {t}
      PROVE  /\ s \in LiveTopics(topic) /\ topic'[s] = topic[s]
             /\ PostsOf(s, post') = PostsOf(s, post)
             /\ \A q \in PostsOf(s, post) : post'[q] = post[q]
    <2>1. s \in LiveTopics(topic) /\ topic'[s] = topic[s] /\ s # None
        BY <1>4, <1>8, NullIsNoId DEF LiveTopics
    <2>2. PostsOf(s, post') = PostsOf(s, post)
        BY <1>3, <1>4, <2>1 DEF PostsOf
    <2>3. p \notin PostsOf(s, post)
        BY <1>3, <2>1, Members
    <2> QED BY <1>4, <2>1, <2>2, <2>3, Members
<1>9. NoOrphans'
    <2>1. ASSUME NEW q \in PostIds, post'[q].topic # None
          PROVE  post'[q].topic \in LiveTopics(topic')
        BY <1>3, <1>4, <2>1, NullIsNoId DEF NoOrphans, LiveTopics
    <2>2. ASSUME NEW s \in LiveTopics(topic') PROVE topic'[s].forum \in forums'
        BY <1>2, <1>4, <1>8 DEF NoOrphans
    <2> QED BY <2>1, <2>2 DEF NoOrphans
<1>10. FirstPostMirrorsTopic'
    <2> SUFFICES ASSUME NEW s \in LiveTopics(topic')
                 PROVE  LET r == topic'[s].first IN
                        /\ r \in PostsOf(s, post')
                        /\ (post'[r].hidden <=> topic'[s].hidden)
                        /\ \A q \in PostsOf(s, post') : r <= q
        BY DEF FirstPostMirrorsTopic
    <2>1. CASE s = t
        BY <1>4, <1>7, <2>1 DEF PostIds
    <2>2. CASE s # t
        BY <1>8, <2>2 DEF FirstPostMirrorsTopic
    <2> QED BY <2>1, <2>2
<1>11. LastPostInTopic'
    <2> SUFFICES ASSUME NEW s \in LiveTopics(topic')
                 PROVE  LET r == topic'[s].last IN
                        /\ r \in PostsOf(s, post')
                        /\ post'[r].hidden => r = topic'[s].first
        BY DEF LastPostInTopic
    <2>1. CASE s = t
        BY <1>4, <1>7, <2>1
    <2>2. CASE s # t
        BY <1>8, <2>2 DEF LastPostInTopic
    <2> QED BY <2>1, <2>2
<1>12. ForumNotForgotten'
    <2> SUFFICES ASSUME NEW g \in forums, ShownIn(g, post', topic') # {}
                 PROVE  forum'[g].last # None
        BY <1>2 DEF ForumNotForgotten
    <2>1. CASE g = f
        BY <1>1, <1>5, <2>1, NullIsNoId DEF TypeOK
    <2>2. CASE g # f
        <3>1. PICK q \in PostIds : /\ post'[q].topic # None /\ ~post'[q].hidden
                                   /\ ~topic'[post'[q].topic].hidden
                                   /\ topic'[post'[q].topic].forum = g
            BY DEF ShownIn, ShownPosts, PostsIn
        <3>2. q # p /\ post'[q] = post[q]
            BY <1>4, <2>2, <3>1
        <3>3. post[q].topic \in Topics \ {t}
            BY <1>3, <3>1, <3>2, Members DEF NoOrphans
        <3>4. q \in ShownIn(g, post, topic)
            BY <1>4, <3>1, <3>2, <3>3 DEF ShownIn, ShownPosts, PostsIn
        <3> QED BY <1>1, <2>2, <3>4 DEF TypeOK, ForumNotForgotten
    <2> QED BY <2>1, <2>2
<1> QED BY <1>6, <1>9, <1>10, <1>11, <1>12

LEMMA ReplyPreserves ==
    ASSUME IInv, NEW u \in Users, NEW t \in Topics, Reply(u, t)
    PROVE  IInv'
<1> DEFINE f == topic[t].forum
<1> USE DEF IInv
<1>1. PICK p \in PostIds :
        /\ NextId(p)
        /\ post' = [post EXCEPT ![p] = [topic |-> t, user |-> u,
                                        hidden |-> FALSE, created |-> clock']]
        /\ IF topic[t].hidden
           THEN UNCHANGED <<topic, forum, tally>>
           ELSE /\ topic' = [topic EXCEPT ![t].last = p, ![t].updated = clock',
                                          ![t].posts = @ + 1]
                /\ forum' = [forum EXCEPT ![f] = WithNewPost(@, p, u, clock', 0)]
                /\ tally' = [tally EXCEPT ![u] = @ + 1]
    BY DEF Reply
<1>2. /\ t \in LiveTopics(topic) /\ f \in forums /\ f \in Forums
      /\ clock' \in Times /\ UNCHANGED <<forums, users, granted>>
    BY TimesFacts DEF Reply, TypeOK, NoOrphans
<1>3. post[p].topic = None /\ \A q \in PostIds : post[q].topic # None => q < p
    BY <1>1, NextIdIsFresh
<1>4. /\ post'[p].topic = t /\ ~post'[p].hidden
      /\ \A q \in PostIds \ {p} : post'[q] = post[q]
    BY <1>1 DEF TypeOK
<1>5. /\ \A s \in Topics : topic'[s].forum = topic[s].forum
      /\ \A s \in Topics : topic'[s].first = topic[s].first
      /\ \A s \in Topics : topic'[s].hidden <=> topic[s].hidden
      /\ \A s \in Topics \ {t} : topic'[s] = topic[s]
      /\ topic'[t].last = IF topic[t].hidden THEN topic[t].last ELSE p
    BY <1>1 DEF TypeOK, TopicRow
<1>6. /\ WithNewPost(forum[f], p, u, clock', 0) \in ForumRow
      /\ WithNewPost(forum[f], p, u, clock', 0).last = p
    BY <1>2, WithNewPostRow DEF TypeOK
<1>7. TypeOK'
    <2>1. post' \in [PostIds -> PostRow]
        BY <1>1, <1>2 DEF TypeOK, PostRow
    <2>2. topic' \in [Topics -> TopicRow]
        BY <1>1, <1>2 DEF TypeOK, TopicRow
    <2>3. forum' \in [Forums -> ForumRow]
        BY <1>1, <1>6 DEF TypeOK
    <2>4. tally' \in [Users -> Int]
        BY <1>1 DEF TypeOK
    <2> QED BY <1>2, <2>1, <2>2, <2>3, <2>4 DEF TypeOK
<1>8. LiveTopics(topic') = LiveTopics(topic)
    BY <1>5 DEF LiveTopics
<1>9. ASSUME NEW s \in Topics
      PROVE  /\ PostsOf(s, post') = PostsOf(s, post) \cup (IF s = t THEN {p} ELSE {})
             /\ \A q \in PostsOf(s, post) : q < p /\ post'[q] = post[q]
    <2>1. s # None /\ t # None
        BY NullIsNoId
    <2>2. PostsOf(s, post') = PostsOf(s, post) \cup (IF s = t THEN {p} ELSE {})
        BY <1>3, <1>4, <2>1 DEF PostsOf
    <2>3. p \notin PostsOf(s, post)
        BY <1>3, <2>1, Members
    <2> QED BY <1>3, <1>4, <2>1, <2>2, <2>3, Members
<1>10. NoOrphans'
    <2>1. ASSUME NEW q \in PostIds, post'[q].topic # None
          PROVE  post'[q].topic \in LiveTopics(topic')
        BY <1>2, <1>4, <1>8, <2>1 DEF NoOrphans
    <2>2. ASSUME NEW s \in LiveTopics(topic') PROVE topic'[s].forum \in forums'
        BY <1>2, <1>5, <1>8, Members DEF NoOrphans
    <2> QED BY <2>1, <2>2 DEF NoOrphans
<1>11. FirstPostMirrorsTopic'
    <2> SUFFICES ASSUME NEW s \in LiveTopics(topic)
                 PROVE  LET r == topic'[s].first IN
                        /\ r \in PostsOf(s, post')
                        /\ (post'[r].hidden <=> topic'[s].hidden)
                        /\ \A q \in PostsOf(s, post') : r <= q
        BY <1>8 DEF FirstPostMirrorsTopic
    <2>1. s \in Topics /\ topic'[s].first = topic[s].first
        BY <1>5, Members
    <2>2. /\ topic[s].first \in PostsOf(s, post)
          /\ post[topic[s].first].hidden <=> topic[s].hidden
          /\ \A q \in PostsOf(s, post) : topic[s].first <= q
        BY DEF FirstPostMirrorsTopic
    <2>3. topic[s].first < p /\ post'[topic[s].first] = post[topic[s].first]
        BY <1>9, <2>1, <2>2
    <2>4. topic[s].first <= p
        BY <2>2, <2>3, Members DEF PostIds
    <2> QED BY <1>5, <1>9, <2>1, <2>2, <2>3, <2>4
<1>12. LastPostInTopic'
    <2> SUFFICES ASSUME NEW s \in LiveTopics(topic)
                 PROVE  LET r == topic'[s].last IN
                        /\ r \in PostsOf(s, post')
                        /\ post'[r].hidden => r = topic'[s].first
        BY <1>8 DEF LastPostInTopic
    <2>1. s \in Topics /\ topic'[s].first = topic[s].first
        BY <1>5, Members
    <2>2. CASE s = t /\ ~topic[t].hidden
        BY <1>4, <1>5, <1>9, <2>1, <2>2
    <2>3. CASE ~(s = t /\ ~topic[t].hidden)
        <3>1. topic'[s].last = topic[s].last
            BY <1>5, <2>1, <2>3
        <3>2. /\ topic[s].last \in PostsOf(s, post)
              /\ post[topic[s].last].hidden => topic[s].last = topic[s].first
            BY DEF LastPostInTopic
        <3> QED BY <1>9, <2>1, <3>1, <3>2
    <2> QED BY <2>2, <2>3
<1>13. ForumNotForgotten'
    <2> SUFFICES ASSUME NEW g \in forums, ShownIn(g, post', topic') # {}
                 PROVE  forum'[g].last # None
        BY <1>2 DEF ForumNotForgotten
    <2>1. CASE g = f /\ ~topic[t].hidden
        BY <1>1, <1>2, <1>6, <2>1, NullIsNoId DEF TypeOK
    <2>2. CASE g # f \/ topic[t].hidden
        <3>1. PICK q \in PostIds : /\ post'[q].topic # None /\ ~post'[q].hidden
                                   /\ ~topic'[post'[q].topic].hidden
                                   /\ topic'[post'[q].topic].forum = g
            BY DEF ShownIn, ShownPosts, PostsIn
        <3>2. q # p /\ post'[q] = post[q]
            BY <1>4, <1>5, <2>2, <3>1
        <3>3. post[q].topic \in Topics
            BY <3>1, <3>2, Members DEF NoOrphans
        <3>4. q \in ShownIn(g, post, topic)
            BY <1>5, <3>1, <3>2, <3>3 DEF ShownIn, ShownPosts, PostsIn
        <3>5. forum'[g] = forum[g]
            BY <1>1, <2>2 DEF TypeOK
        <3> QED BY <3>4, <3>5 DEF ForumNotForgotten
    <2> QED BY <2>1, <2>2
<1> QED BY <1>7, <1>10, <1>11, <1>12, <1>13

\* Deleting or hiding a reply: P is the table in which it no longer shows.
LEMMA TakeAwayPreserves ==
    ASSUME IInv, NEW p \in PostIds, post[p].topic # None, ~IsFirst(p),
           NEW P \in PostTable, \A q \in PostIds \ {p} : P[q] = post[q],
           \/ P[p].topic = None
           \/ P[p].topic = post[p].topic /\ P[p].hidden,
           TakeAway(p, P)
    PROVE  IInv'
<1> DEFINE t   == post[p].topic
           f   == topic[t].forum
           u   == post[p].user
           row == TopicWithoutPost(p, topic[t])
           new == ForumWithoutPost(p, forum[f], f, P)
           n   == TopicCount(t, P, topic[t].hidden)
           m   == Cardinality(ShownIn(f, P, topic))
           k   == Cardinality(ShownBy(u, P, topic))
<1> USE DEF IInv
<1>1. /\ t \in LiveTopics(topic) /\ t \in Topics /\ f \in forums /\ f \in Forums
      /\ topic[t].first \in PostIds /\ topic[t].first \in PostsOf(t, post)
      /\ topic[t].first # p
    BY Members DEF NoOrphans, TypeOK, FirstPostMirrorsTopic, IsFirst
<1>2. /\ u \in users /\ u \in Users
      /\ post' = P /\ topic' = [topic EXCEPT ![t] = [row EXCEPT !.posts = n]]
      /\ forum' = [forum EXCEPT ![f] = [new EXCEPT !.posts = m]]
      /\ tally' = [tally EXCEPT ![u] = k]
      /\ UNCHANGED <<forums, users, clock, granted>>
    BY DEF TakeAway, TypeOK
<1>3. n \in Nat /\ m \in Int /\ k \in Int
    <2>1. \A S \in SUBSET PostIds : Cardinality(S) \in Nat /\ Cardinality(S) \in Int
        BY CountsArePosts
    <2>2. {q \in PostsOf(t, P) : ~P[q].hidden} \in SUBSET PostIds
        BY DEF PostsOf
    <2>3. n \in Nat
        BY <2>1, <2>2 DEF TopicCount
    <2>4. ShownIn(f, P, topic) \in SUBSET PostIds /\ ShownBy(u, P, topic) \in SUBSET PostIds
        BY DEF ShownIn, ShownBy, ShownPosts
    <2> QED BY <2>1, <2>3, <2>4
<1>4. /\ row \in TopicRow
      /\ row.forum = topic[t].forum /\ row.first = topic[t].first
      /\ row.hidden = topic[t].hidden
      /\ row.last = IF topic[t].last = p THEN topic[t].first ELSE topic[t].last
    BY <1>1, TopicWithoutPostRow DEF TypeOK
<1>5. /\ new \in ForumRow
      /\ new.last = None => forum[f].last = None \/ UnhiddenIn(f, P, topic) \ {p} = {}
    BY <1>1, ForumWithoutPostRow DEF TypeOK
<1> HIDE DEF n, m, k, row, new
<1>6. /\ [row EXCEPT !.posts = n] \in TopicRow
      /\ [new EXCEPT !.posts = m] \in ForumRow
      /\ [new EXCEPT !.posts = m].last = new.last
    BY <1>3, <1>4, <1>5 DEF TopicRow, ForumRow
<1>7. TypeOK'
    BY <1>1, <1>2, <1>3, <1>6 DEF TypeOK, PostTable
<1>8. /\ \A s \in Topics : topic'[s].forum = topic[s].forum
      /\ \A s \in Topics : topic'[s].first = topic[s].first
      /\ \A s \in Topics : topic'[s].hidden <=> topic[s].hidden
      /\ \A s \in Topics \ {t} : topic'[s] = topic[s]
      /\ topic'[t].last = IF topic[t].last = p THEN topic[t].first ELSE topic[t].last
    <2>1. topic'[t] = [row EXCEPT !.posts = n]
        BY <1>1, <1>2 DEF TypeOK
    <2>2. /\ topic'[t].forum = topic[t].forum /\ topic'[t].first = topic[t].first
          /\ topic'[t].hidden = topic[t].hidden
          /\ topic'[t].last = IF topic[t].last = p THEN topic[t].first ELSE topic[t].last
        BY <1>4, <2>1 DEF TopicRow
    <2>3. \A s \in Topics \ {t} : topic'[s] = topic[s]
        BY <1>2 DEF TypeOK
    <2> QED BY <2>2, <2>3
<1>9. LiveTopics(topic') = LiveTopics(topic)
    BY <1>8 DEF LiveTopics
<1>10. \A q \in PostIds \ {p} : post'[q] = post[q]
    BY <1>2
<1>11. ASSUME NEW s \in Topics
       PROVE  /\ PostsOf(s, post') \subseteq PostsOf(s, post)
              /\ \A q \in PostsOf(s, post) \ {p} : q \in PostsOf(s, post') /\ post'[q] = post[q]
    <2>1. s # None
        BY NullIsNoId
    <2> QED BY <1>2, <1>10, <2>1 DEF PostsOf
<1>12. NoOrphans'
    <2>1. ASSUME NEW q \in PostIds, post'[q].topic # None
          PROVE  post'[q].topic \in LiveTopics(topic')
        BY <1>2, <1>9, <1>10, <2>1 DEF NoOrphans
    <2>2. ASSUME NEW s \in LiveTopics(topic') PROVE topic'[s].forum \in forums'
        BY <1>2, <1>8, <1>9, Members DEF NoOrphans
    <2> QED BY <2>1, <2>2 DEF NoOrphans
<1>13. ASSUME NEW s \in LiveTopics(topic)
       PROVE  /\ s \in Topics /\ topic'[s].first = topic[s].first
              /\ topic[s].first \in PostsOf(s, post) \ {p}
              /\ (post[topic[s].first].hidden <=> topic[s].hidden)
              /\ \A q \in PostsOf(s, post) : topic[s].first <= q
              /\ topic[s].last \in PostsOf(s, post)
              /\ post[topic[s].last].hidden => topic[s].last = topic[s].first
    <2>1. /\ s \in Topics /\ topic'[s].first = topic[s].first
          /\ topic[s].first \in PostsOf(s, post)
          /\ (post[topic[s].first].hidden <=> topic[s].hidden)
          /\ \A q \in PostsOf(s, post) : topic[s].first <= q
        BY <1>8, Members DEF FirstPostMirrorsTopic
    <2>2. topic[s].first # p
        BY <1>1, <2>1, Members
    <2>3. /\ topic[s].last \in PostsOf(s, post)
          /\ post[topic[s].last].hidden => topic[s].last = topic[s].first
        BY DEF LastPostInTopic
    <2> QED BY <2>1, <2>2, <2>3
<1>14. FirstPostMirrorsTopic'
    <2> SUFFICES ASSUME NEW s \in LiveTopics(topic)
                 PROVE  LET r == topic'[s].first IN
                        /\ r \in PostsOf(s, post')
                        /\ (post'[r].hidden <=> topic'[s].hidden)
                        /\ \A q \in PostsOf(s, post') : r <= q
        BY <1>9 DEF FirstPostMirrorsTopic
    <2> QED BY <1>8, <1>11, <1>13
<1>15. LastPostInTopic'
    <2> SUFFICES ASSUME NEW s \in LiveTopics(topic)
                 PROVE  LET r == topic'[s].last IN
                        /\ r \in PostsOf(s, post')
                        /\ post'[r].hidden => r = topic'[s].first
        BY <1>9 DEF LastPostInTopic
    <2>1. CASE topic[s].last = p
        <3>1. s = t
            BY <1>13, <2>1, Members
        <3> QED BY <1>8, <1>11, <1>13, <2>1, <3>1
    <2>2. CASE topic[s].last # p
        <3>1. topic'[s].last = topic[s].last
            BY <1>8, <1>13, <2>2
        <3> QED BY <1>11, <1>13, <2>2, <3>1
    <2> QED BY <2>1, <2>2
<1>16. ForumNotForgotten'
    <2> SUFFICES ASSUME NEW g \in forums, ShownIn(g, post', topic') # {}
                 PROVE  forum'[g].last # None
        BY <1>2 DEF ForumNotForgotten
    <2>1. PICK q \in PostIds : /\ post'[q].topic # None /\ ~post'[q].hidden
                               /\ ~topic'[post'[q].topic].hidden
                               /\ topic'[post'[q].topic].forum = g
        BY DEF ShownIn, ShownPosts, PostsIn
    <2>2. q # p /\ post'[q] = post[q]
        BY <1>2, <1>10, <2>1
    <2>3. /\ post[q].topic \in Topics /\ topic[post[q].topic].forum = g
          /\ ~topic[post[q].topic].hidden
        BY <1>8, <2>1, <2>2, Members DEF NoOrphans
    <2>4. forum[g].last # None
        BY <2>1, <2>2, <2>3 DEF ShownIn, ShownPosts, PostsIn, ForumNotForgotten
    <2>5. CASE g = f
        <3>1. q \in UnhiddenIn(f, P, topic) \ {p}
            BY <1>2, <2>1, <2>2, <2>3, <2>5 DEF UnhiddenIn, PostsIn
        <3>2. new.last # None
            BY <1>5, <2>4, <2>5, <3>1
        <3> QED BY <1>1, <1>2, <1>6, <2>5, <3>2 DEF TypeOK
    <2>6. CASE g # f
        BY <1>2, <2>4, <2>6 DEF TypeOK
    <2> QED BY <2>5, <2>6
<1> QED BY <1>7, <1>12, <1>14, <1>15, <1>16

LEMMA UnhideReplyPreserves ==
    ASSUME IInv, NEW p \in PostIds, post[p].topic # None, ~IsFirst(p), UnhideReply(p)
    PROVE  IInv'
<1> DEFINE t == post[p].topic
           f == topic[t].forum
           u == post[p].user
           P == [post EXCEPT ![p].hidden = FALSE]
           n == TopicCount(t, P, topic[t].hidden)
           m == Cardinality(ShownIn(f, P, topic))
           k == Cardinality(ShownBy(u, P, topic))
           newer == LastPost(f) = None \/ post[p].created > post[LastPost(f)].created
<1> USE DEF IInv
<1>1. /\ t \in LiveTopics(topic) /\ t \in Topics /\ f \in forums /\ f \in Forums
      /\ topic[t].first \in PostsOf(t, post) /\ topic[t].first # p
    BY Members DEF NoOrphans, TypeOK, FirstPostMirrorsTopic, IsFirst
<1>2. PICK newest \in BOOLEAN :
        /\ topic' = [topic EXCEPT ![t].last = IF newest THEN p ELSE @, ![t].posts = n]
        /\ forum' = [forum EXCEPT ![f] =
                        [IF newest /\ ~topic[t].hidden /\ newer
                         THEN WithLast(@, p, u, post[p].created) ELSE @ EXCEPT
                         !.posts = m]]
    BY DEF UnhideReply, FoundNewest
<1>3. /\ u \in users /\ u \in Users /\ post' = P
      /\ tally' = [tally EXCEPT ![u] = k]
      /\ UNCHANGED <<forums, users, clock, granted>>
    BY DEF UnhideReply, TypeOK
<1>4. n \in Nat /\ m \in Int /\ k \in Int
    <2> HIDE DEF P
    <2>1. \A S \in SUBSET PostIds : Cardinality(S) \in Nat /\ Cardinality(S) \in Int
        BY CountsArePosts
    <2>2. {q \in PostsOf(t, P) : ~P[q].hidden} \in SUBSET PostIds
        BY DEF PostsOf
    <2>3. n \in Nat
        BY <2>1, <2>2 DEF TopicCount
    <2>4. ShownIn(f, P, topic) \in SUBSET PostIds /\ ShownBy(u, P, topic) \in SUBSET PostIds
        BY DEF ShownIn, ShownBy, ShownPosts
    <2> QED BY <2>1, <2>3, <2>4
<1> HIDE DEF n, m, k, newer
<1>5. /\ P \in PostTable
      /\ P[p].topic = t /\ ~P[p].hidden /\ \A q \in PostIds \ {p} : P[q] = post[q]
    <2>1. P \in PostTable
        BY DEF TypeOK, PostTable, PostRow
    <2> QED BY <2>1 DEF TypeOK, PostRow
<1>6. WithLast(forum[f], p, u, post[p].created) \in ForumRow
         /\ WithLast(forum[f], p, u, post[p].created).last = p
    <2>1. post[p].created \in Times
        BY DEF TypeOK, PostRow
    <2> QED BY <1>1, <1>3, <2>1, WithLastRow DEF TypeOK
<1>7. PICK row \in ForumRow : /\ forum' = [forum EXCEPT ![f] = row]
                              /\ row.last = forum[f].last \/ row.last = p
    <2> DEFINE old == IF newest /\ ~topic[t].hidden /\ newer
                      THEN WithLast(forum[f], p, u, post[p].created) ELSE forum[f]
    <2>1. old \in ForumRow /\ (old.last = forum[f].last \/ old.last = p)
        BY <1>1, <1>6 DEF TypeOK
    <2>2. forum' = [forum EXCEPT ![f] = [old EXCEPT !.posts = m]]
        BY <1>2
    <2> HIDE DEF old
    <2>3. [old EXCEPT !.posts = m] \in ForumRow /\ [old EXCEPT !.posts = m].last = old.last
        BY <1>4, <2>1 DEF ForumRow
    <2> QED BY <2>1, <2>2, <2>3
<1>8. TypeOK'
    <2>1. topic' \in [Topics -> TopicRow]
        BY <1>1, <1>2, <1>4 DEF TypeOK, TopicRow
    <2> QED BY <1>1, <1>3, <1>4, <1>5, <1>7, <2>1 DEF TypeOK, PostTable
<1>9. /\ \A s \in Topics : topic'[s].forum = topic[s].forum
      /\ \A s \in Topics : topic'[s].first = topic[s].first
      /\ \A s \in Topics : topic'[s].hidden <=> topic[s].hidden
      /\ \A s \in Topics \ {t} : topic'[s] = topic[s]
      /\ topic'[t].last = topic[t].last \/ topic'[t].last = p
    BY <1>1, <1>2 DEF TypeOK, TopicRow
<1>10. LiveTopics(topic') = LiveTopics(topic)
    BY <1>9 DEF LiveTopics
<1>11. ASSUME NEW s \in Topics
       PROVE  /\ PostsOf(s, post') = PostsOf(s, post)
              /\ \A q \in PostsOf(s, post) \ {p} : post'[q] = post[q]
    BY <1>3, <1>5, Members DEF PostsOf
<1>12. NoOrphans'
    <2>1. ASSUME NEW q \in PostIds, post'[q].topic # None
          PROVE  post'[q].topic \in LiveTopics(topic')
        BY <1>3, <1>5, <1>10, <2>1 DEF NoOrphans
    <2>2. ASSUME NEW s \in LiveTopics(topic') PROVE topic'[s].forum \in forums'
        BY <1>3, <1>9, <1>10, Members DEF NoOrphans
    <2> QED BY <2>1, <2>2 DEF NoOrphans
<1>13. FirstPostMirrorsTopic'
    <2> SUFFICES ASSUME NEW s \in LiveTopics(topic)
                 PROVE  LET r == topic'[s].first IN
                        /\ r \in PostsOf(s, post')
                        /\ (post'[r].hidden <=> topic'[s].hidden)
                        /\ \A q \in PostsOf(s, post') : r <= q
        BY <1>10 DEF FirstPostMirrorsTopic
    <2>1. /\ s \in Topics /\ topic[s].first \in PostsOf(s, post)
          /\ (post[topic[s].first].hidden <=> topic[s].hidden)
          /\ \A q \in PostsOf(s, post) : topic[s].first <= q
        BY Members DEF FirstPostMirrorsTopic
    <2>2. topic[s].first # p
        BY <1>1, <2>1, Members
    <2> QED BY <1>9, <1>11, <2>1, <2>2
<1>14. LastPostInTopic'
    <2> SUFFICES ASSUME NEW s \in LiveTopics(topic)
                 PROVE  LET r == topic'[s].last IN
                        /\ r \in PostsOf(s, post')
                        /\ post'[r].hidden => r = topic'[s].first
        BY <1>10 DEF LastPostInTopic
    <2>1. /\ s \in Topics /\ topic'[s].first = topic[s].first
          /\ topic[s].last \in PostsOf(s, post)
          /\ post[topic[s].last].hidden => topic[s].last = topic[s].first
        BY <1>9, Members DEF LastPostInTopic
    <2>2. CASE topic'[s].last = topic[s].last
        BY <1>3, <1>5, <1>11, <2>1, <2>2
    <2>3. CASE topic'[s].last # topic[s].last
        <3>1. s = t /\ topic'[s].last = p
            BY <1>9, <2>1, <2>3
        <3>2. p \in PostsOf(t, post)
            BY DEF PostsOf
        <3> QED BY <1>3, <1>5, <1>11, <2>1, <3>1, <3>2
    <2> QED BY <2>2, <2>3
<1>15. ForumNotForgotten'
    <2> SUFFICES ASSUME NEW g \in forums, ShownIn(g, post', topic') # {}
                 PROVE  forum'[g].last # None
        BY <1>3 DEF ForumNotForgotten
    <2>1. PICK q \in PostIds : /\ post'[q].topic # None /\ ~post'[q].hidden
                               /\ ~topic'[post'[q].topic].hidden
                               /\ topic'[post'[q].topic].forum = g
        BY DEF ShownIn, ShownPosts, PostsIn
    <2>2. post'[q].topic = post[q].topic
        BY <1>3, <1>5
    <2>3. /\ post[q].topic \in LiveTopics(topic) /\ post[q].topic \in Topics
          /\ topic[post[q].topic].forum = g /\ ~topic[post[q].topic].hidden
        BY <1>9, <2>1, <2>2, Members DEF NoOrphans
    <2> DEFINE r == topic[post[q].topic].first
    <2>4. r \in PostIds /\ post[r].topic = post[q].topic /\ ~post[r].hidden
        BY <2>3, Members DEF FirstPostMirrorsTopic
    <2>5. r \in ShownIn(g, post, topic)
        BY <2>1, <2>2, <2>3, <2>4 DEF ShownIn, ShownPosts, PostsIn
    <2>6. forum[g].last # None
        BY <2>5 DEF ForumNotForgotten
    <2> QED BY <1>1, <1>7, <2>6, NullIsNoId DEF TypeOK
<1> QED BY <1>8, <1>12, <1>13, <1>14, <1>15

-----------------------------------------------------------------------------
(* The theorems.                                                           *)

LEMMA InitEstablishes == Init => IInv
<1> SUFFICES ASSUME Init PROVE IInv
    OBVIOUS
<1>1. BlankPost \in PostRow /\ BlankTopic \in TopicRow
    BY TimesFacts DEF BlankPost, BlankTopic, PostRow, TopicRow
<1>2. TypeOK
    BY <1>1, BlankForumRow, TimesFacts DEF Init, TypeOK
<1>3. /\ \A p \in PostIds : post[p].topic = None
      /\ LiveTopics(topic) = {}
    BY DEF Init, BlankPost, BlankTopic, LiveTopics
<1>4. NoOrphans /\ FirstPostMirrorsTopic /\ LastPostInTopic
    BY <1>3 DEF NoOrphans, FirstPostMirrorsTopic, LastPostInTopic
<1>5. ForumNotForgotten
    BY <1>3 DEF ForumNotForgotten, ShownIn, ShownPosts, PostsIn
<1> QED BY <1>2, <1>4, <1>5 DEF IInv

LEMMA NextPreserves == IInv /\ [Next]_vars => IInv'
<1> SUFFICES ASSUME IInv, [Next]_vars PROVE IInv'
    OBVIOUS
<1>1. ASSUME NEW u \in Users, NEW f \in Forums, NewTopic(u, f) PROVE IInv'
    BY <1>1, NewTopicPreserves
<1>2. ASSUME NEW u \in Users, NEW t \in Topics, Reply(u, t) PROVE IInv'
    BY <1>2, ReplyPreserves
<1>3. ASSUME NEW p \in PostIds, DeletePost(p) PROVE IInv'
    <2>1. post[p].topic # None /\ post[p].topic \in LiveTopics(topic)
        BY <1>3 DEF DeletePost, IInv, NoOrphans
    <2>2. CASE IsFirst(p)
        BY <1>3, <2>1, <2>2, DeleteTopicPreserves DEF DeletePost
    <2>3. CASE ~IsFirst(p)
        <3> DEFINE P == [post EXCEPT ![p] = BlankPost]
        <3>1. TakeAway(p, P)
            BY <1>3, <2>3 DEF DeletePost, DeleteReply
        <3>2. BlankPost \in PostRow /\ BlankPost.topic = None
            BY TimesFacts DEF BlankPost, PostRow
        <3>3. P \in PostTable /\ P[p].topic = None /\ \A q \in PostIds \ {p} : P[q] = post[q]
            BY <3>2 DEF IInv, TypeOK, PostTable
        <3> HIDE DEF P
        <3> QED BY <2>1, <2>3, <3>1, <3>3, TakeAwayPreserves
    <2> QED BY <2>2, <2>3
<1>4. ASSUME NEW p \in PostIds, HidePost(p) PROVE IInv'
    <2>1. post[p].topic # None /\ post[p].topic \in LiveTopics(topic)
        BY <1>4 DEF HidePost, IInv, NoOrphans
    <2>2. CASE IsFirst(p)
        BY <1>4, <2>1, <2>2, HideTopicPreserves DEF HidePost
    <2>3. CASE ~IsFirst(p)
        <3> DEFINE P == [post EXCEPT ![p].hidden = TRUE]
        <3>1. TakeAway(p, P)
            BY <1>4, <2>3 DEF HidePost, HideReply
        <3>2. P \in PostTable
            BY DEF IInv, TypeOK, PostTable, PostRow
        <3>3. /\ P[p].topic = post[p].topic /\ P[p].hidden
              /\ \A q \in PostIds \ {p} : P[q] = post[q]
            BY DEF IInv, TypeOK, PostRow
        <3> HIDE DEF P
        <3> QED BY <2>1, <2>3, <3>1, <3>2, <3>3, TakeAwayPreserves
    <2> QED BY <2>2, <2>3
<1>5. ASSUME NEW p \in PostIds, UnhidePost(p) PROVE IInv'
    <2>1. post[p].topic # None /\ post[p].topic \in LiveTopics(topic)
        BY <1>5 DEF UnhidePost, IInv, NoOrphans
    <2>2. CASE IsFirst(p)
        BY <1>5, <2>1, <2>2, UnhideTopicPreserves DEF UnhidePost
    <2>3. CASE ~IsFirst(p)
        BY <1>5, <2>1, <2>3, UnhideReplyPreserves DEF UnhidePost
    <2> QED BY <2>2, <2>3
<1>6. ASSUME NEW t \in Topics, RemoveTopic(t) PROVE IInv'
    BY <1>6, DeleteTopicPreserves DEF RemoveTopic
<1>7. ASSUME NEW t \in Topics, ConcealTopic(t) PROVE IInv'
    BY <1>7, HideTopicPreserves DEF ConcealTopic
<1>8. ASSUME NEW t \in Topics, RevealTopic(t) PROVE IInv'
    BY <1>8, UnhideTopicPreserves DEF RevealTopic
<1>9. ASSUME NEW t \in Topics, NEW g \in Forums, MoveTopic(t, g) PROVE IInv'
    BY <1>9, MoveTopicPreserves
<1>10. ASSUME NEW f \in Forums, DeleteForum(f) PROVE IInv'
    BY <1>10, DeleteForumPreserves
<1>11. ASSUME NEW c \in Categories, DeleteCategory(c) PROVE IInv'
    BY <1>11, DeleteCategoryPreserves
<1>12. ASSUME NEW f \in Forums, AddForum(f) PROVE IInv'
    BY <1>12, AddForumPreserves
<1>13. ASSUME NEW u \in Users, DeleteUser(u) PROVE IInv'
    BY <1>13, DeleteUserPreserves
<1>14. CASE UNCHANGED vars
    BY <1>14 DEF vars, IInv, TypeOK, NoOrphans, FirstPostMirrorsTopic, LastPostInTopic,
                 ForumNotForgotten
<1> QED BY <1>1, <1>2, <1>3, <1>4, <1>5, <1>6, <1>7, <1>8, <1>9, <1>10, <1>11, <1>12,
           <1>13, <1>14 DEF Next

\* Every reachable state satisfies the inductive invariant.
THEOREM Invariance == Spec => []IInv
BY InitEstablishes, NextPreserves, PTL DEF Spec

\* The tables hold rows of their types: no column is ever NULL that the code
\* relies on, and no counter anything but a number.
THEOREM TypeCorrect == Spec => []TypeOK
<1>1. IInv => TypeOK
    BY DEF IInv
<1> QED BY <1>1, Invariance, PTL

\* No post without its topic, no topic without its forum, whatever is deleted.
THEOREM NothingOrphaned == Spec => []NoOrphans
<1>1. IInv => NoOrphans
    BY DEF IInv
<1> QED BY <1>1, Invariance, PTL

\* The first post of every topic exists, is the oldest, and is hidden with it.
THEOREM FirstPostStandsForTopic == Spec => []FirstPostMirrorsTopic
<1>1. IInv => FirstPostMirrorsTopic
    BY DEF IInv
<1> QED BY <1>1, Invariance, PTL

\* The last post of every topic exists and is a visible one if the topic is.
THEOREM LastPostIsOfTopic == Spec => []LastPostInTopic
<1>1. IInv => LastPostInTopic
    BY DEF IInv
<1> QED BY <1>1, Invariance, PTL

\* No forum with a visible post is ever without a last post.
THEOREM ForumsRemember == Spec => []ForumNotForgotten
<1>1. IInv => ForumNotForgotten
    BY DEF IInv
<1> QED BY <1>1, Invariance, PTL
=============================================================================
