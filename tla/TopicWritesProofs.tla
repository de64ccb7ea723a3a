------------------------- MODULE TopicWritesProofs -------------------------
(***************************************************************************)
(* Theorems of TopicWrites: what requests that overlap, fail and die can   *)
(* not do to the content, for any number of workers, requests and rows.    *)
(***************************************************************************)
EXTENDS TopicWrites, ForumContentProofs

Opened == {s \in Slots : req[s].stage = "opened"}

\* What a request has in hand at each stage.
RequestSound(r) ==
    /\ r.stage \in {"opened", "loaded", "saved", "counting", "moving", "moved", "settled"}
         => r.topic \in Topics
    /\ r.stage \in {"opened", "loaded"} => r.user \in Users
    /\ r.stage = "opened" => r.new
    /\ r.stage = "loaded" => r.home \in Forums
    /\ r.stage \in {"saved", "counting"} => r.new /\ r.post \in PostIds
    /\ r.stage \in {"opened", "saved", "counting", "moving", "moved", "settled"}
         => r.forum \in Forums
    /\ r.stage = "loaded" /\ r.new => r.forum \in Forums
    /\ r.stage \in {"moving", "moved", "settled"} => r.to \in Forums

RequestsSound == \A s \in Slots : RequestSound(req[s])

\* A post belongs to a topic that is there.
PostsHaveTopics == \A p \in PostIds : post[p].topic # None => ~Gone(post[p].topic)

\* Every request dates one post at most, and an open one has not done so yet.
ClockBehind == clock + Cardinality(Opened) <= started

WInv == WritesTypeOK /\ RequestsSound /\ PostsHaveTopics /\ ClockBehind

-----------------------------------------------------------------------------
(* Lemmas on the pieces.                                                   *)

\* Among any posts there is one with the latest date, and Latest is such a one.
LEMMA LatestIsOne ==
    ASSUME TypeOK, NEW S \in SUBSET PostIds, S # {}
    PROVE  Latest(S) \in S
<1> DEFINE Later(p) == {q \in S : post[p].created < post[q].created}
           Tops     == {Later(p) : p \in S}
<1>1. IsFiniteSet(S)
    <2>1. IsFiniteSet(PostIds)
        BY BoundsAssumption, FS_Interval DEF PostIds
    <2> QED BY <2>1, FS_Subset
<1>2. \A p \in S : post[p].created \in Int
    BY BoundsAssumption DEF TypeOK, PostRow, Times
<1>3. IsWellFoundedOn(StrictSubsetOrdering(S), FiniteSubsetsOf(S))
    BY FS_StrictSubsetOrderingWellFounded
<1>4. Tops \subseteq FiniteSubsetsOf(S) /\ Tops # {}
    <2>1. FiniteSubsetsOf(S) = SUBSET S
        BY <1>1, FS_FiniteSubsetsOfFinite
    <2>2. \A p \in S : Later(p) \in SUBSET S
        OBVIOUS
    <2>3. Tops \subseteq SUBSET S
        BY <2>2
    <2>4. Tops # {}
        OBVIOUS
    <2> QED BY <2>1, <2>3, <2>4
<1>5. PICK X \in Tops : \A Y \in Tops : ~(<<Y, X>> \in StrictSubsetOrdering(S))
    <2> HIDE DEF Tops
    <2> QED BY <1>3, <1>4, WFMin
<1>6. PICK p \in S : X = Later(p)
    BY <1>5
<1>7. ASSUME NEW q \in S PROVE post[q].created <= post[p].created
    <2> SUFFICES ASSUME post[p].created < post[q].created PROVE FALSE
        BY <1>2
    <2>1. q \in Later(p) /\ q \notin Later(q)
        BY <1>2
    <2>2. Later(q) \subseteq Later(p)
        <3> SUFFICES ASSUME NEW r \in S, post[q].created < post[r].created
                     PROVE  post[p].created < post[r].created
            OBVIOUS
        <3> QED BY <1>2
    <2>3. <<Later(q), X>> \in StrictSubsetOrdering(S)
        BY <2>1, <2>2, <1>6 DEF StrictSubsetOrdering
    <2> QED BY <2>3, <1>5
<1> QED BY <1>7 DEF Latest

LEMMA LatestPostRow ==
    ASSUME TypeOK, NEW row \in ForumRow, NEW f, NEW T
    PROVE  LatestPost(row, f, T) \in ForumRow
<1> DEFINE all  == PostsIn(f, post, T)
           last == Latest(all)
<1>1. CASE all = {}
    BY <1>1, WithoutLastRow DEF LatestPost
<1>2. CASE all # {}
    <2>1. all \in SUBSET PostIds
        BY DEF PostsIn
    <2>2. last \in PostIds
        BY <1>2, <2>1, LatestIsOne
    <2>3. post[last].user \in Users \cup {None} /\ post[last].created \in Times
        BY <2>2 DEF TypeOK, PostRow
    <2> HIDE DEF last
    <2>4. WithLast(row, last, post[last].user, post[last].created) \in ForumRow
        BY <2>2, <2>3, WithLastRow
    <2> QED BY <1>2, <2>4 DEF LatestPost, last
<1> QED BY <1>1, <1>2

LEMMA IdleTyped == Idle \in Request /\ Idle.stage = "idle" /\ RequestSound(Idle)
<1>1. BlankForum \in ForumRow /\ 0 \in Times
    BY BlankForumRow, TimesFacts
<1>2. Idle \in Request
    BY <1>1 DEF Idle, Request, Stages
<1> QED BY <1>2 DEF Idle, RequestSound

\* A request that changes keeps the others in order.
LEMMA Replaced ==
    ASSUME WInv, NEW s \in Slots, NEW x \in Request, RequestSound(x),
           req' = [req EXCEPT ![s] = x]
    PROVE  /\ req' \in [Slots -> Request] /\ RequestsSound'
           /\ req'[s] = x /\ \A o \in Slots \ {s} : req'[o] = req[o]
           /\ Opened' = IF x.stage = "opened" THEN Opened \cup {s} ELSE Opened \ {s}
           /\ Cardinality(Opened) \in Nat /\ Cardinality(Opened') \in Nat
           /\ Cardinality(Opened') <= Cardinality(Opened) + 1
           /\ x.stage # "opened" => Cardinality(Opened') <= Cardinality(Opened)
           /\ x.stage # "opened" /\ req[s].stage = "opened"
                => Cardinality(Opened') = Cardinality(Opened) - 1
<1>1. req \in [Slots -> Request]
    BY DEF WInv, WritesTypeOK
<1>2. /\ req' \in [Slots -> Request]
      /\ req'[s] = x /\ \A o \in Slots \ {s} : req'[o] = req[o]
    BY <1>1
<1>3. RequestsSound'
    BY <1>2 DEF WInv, RequestsSound
<1>4. Opened' = IF x.stage = "opened" THEN Opened \cup {s} ELSE Opened \ {s}
    BY <1>2 DEF Opened
<1>5. IsFiniteSet(Opened)
    BY SlotsAssumption, FS_Subset DEF Opened
<1>6. s \in Opened <=> req[s].stage = "opened"
    BY DEF Opened
<1>7. /\ Cardinality(Opened) \in Nat
      /\ IsFiniteSet(Opened \cup {s}) /\ IsFiniteSet(Opened \ {s})
      /\ Cardinality(Opened \cup {s}) = IF s \in Opened THEN Cardinality(Opened)
                                        ELSE Cardinality(Opened) + 1
      /\ Cardinality(Opened \ {s}) = IF s \in Opened THEN Cardinality(Opened) - 1
                                     ELSE Cardinality(Opened)
    BY <1>5, FS_CardinalityType, FS_AddElement, FS_RemoveElement
<1>8. Cardinality(Opened') \in Nat
    BY <1>4, <1>7, FS_CardinalityType
<1> QED BY <1>2, <1>3, <1>4, <1>6, <1>7, <1>8

LEMMA WritesBounds ==
    ASSUME WInv
    PROVE  /\ clock \in Nat /\ started \in Nat /\ MaxTime \in Nat /\ MaxRequests \in Nat
           /\ started <= MaxRequests /\ MaxRequests <= MaxTime
           /\ Cardinality(Opened) \in Nat
           /\ crashes \in Nat /\ MaxCrashes \in Nat
<1>1. IsFiniteSet(Opened)
    BY SlotsAssumption, FS_Subset DEF Opened
<1> QED BY <1>1, FS_CardinalityType, BoundsAssumption, WritesBoundsAssumption
        DEF WInv, WritesTypeOK, TypeOK, Times

\* Loading the rows of a topic that is there.
LEMMA LoadedSound ==
    ASSUME WInv, NEW r \in Request, r.topic \in Topics, r.user \in Users,
           r.new => r.forum \in Forums, ~Gone(r.topic), clock < MaxTime
    PROVE  /\ Loaded(r) \in Request /\ RequestSound(Loaded(r))
           /\ Loaded(r).stage = "loaded"
           /\ clock + 1 \in Times
<1>1. clock + 1 \in Times
    BY TimesFacts DEF WInv, WritesTypeOK, TypeOK
<1>2. /\ topic[r.topic].forum \in Forums /\ topic[r.topic].posts \in Nat
      /\ tally[r.user] \in Int
    BY DEF WInv, WritesTypeOK, TypeOK, TopicRow, Gone
<1>3. forum[topic[r.topic].forum] \in ForumRow
    BY <1>2 DEF WInv, WritesTypeOK, TypeOK
<1> DEFINE x == Loaded(r)
<1>4. x \in Request
    BY <1>1, <1>2, <1>3 DEF Loaded, Request, Stages
<1>5. /\ x.stage = "loaded" /\ x.topic = r.topic /\ x.user = r.user /\ x.new = r.new
      /\ x.forum = r.forum /\ x.home = topic[r.topic].forum
    BY DEF Loaded, Request
<1> HIDE DEF x
<1>6. RequestSound(x)
    BY <1>2, <1>5 DEF RequestSound
<1> QED BY <1>1, <1>4, <1>5, <1>6 DEF x

-----------------------------------------------------------------------------
(* Types, sound requests and posts with topics: one lemma per step.        *)

\* A step of a request that leaves the tables alone, but for the clock.
LEMMA RequestOnly ==
    ASSUME WInv, NEW s \in Slots, NEW x \in Request, RequestSound(x), x.stage # "opened",
           req' = [req EXCEPT ![s] = x],
           UNCHANGED <<post, topic, forum, tally, forums, users, granted, workers>>,
           clock' \in Times, started' \in 0..MaxRequests, crashes' \in 0..MaxCrashes,
           \/ clock' = clock /\ started' \in {started, started + 1}
           \/ clock' = clock + 1 /\ started' = started + 1
           \/ clock' = clock + 1 /\ started' = started /\ req[s].stage = "opened"
    PROVE  WInv'
<1>1. /\ req' \in [Slots -> Request] /\ RequestsSound'
      /\ Cardinality(Opened') \in Nat
      /\ Cardinality(Opened') <= Cardinality(Opened)
      /\ req[s].stage = "opened" => Cardinality(Opened') = Cardinality(Opened) - 1
    BY Replaced
<1>2. ClockBehind'
    BY <1>1, WritesBounds DEF WInv, ClockBehind
<1>3. WritesTypeOK'
    BY <1>1 DEF WInv, WritesTypeOK, TypeOK
<1>4. PostsHaveTopics'
    BY DEF WInv, PostsHaveTopics, Gone
<1> QED BY <1>1, <1>2, <1>3, <1>4 DEF WInv

\* A step that writes, and does not date a post.
LEMMA WriteOnly ==
    ASSUME WInv, NEW s \in Slots, NEW x \in Request, RequestSound(x),
           req' = [req EXCEPT ![s] = x] \/ req' = req,
           TypeOK', PostsHaveTopics', clock' = clock,
           UNCHANGED <<workers, crashes>>,
           \/ started' = started /\ x.stage # "opened"
           \/ started' = started + 1 /\ started < MaxRequests
    PROVE  WInv'
<1>1. CASE req' = req
    <2>1. Opened' = Opened
        BY <1>1 DEF Opened
    <2> QED BY <1>1, <2>1, WritesBounds
            DEF WInv, ClockBehind, WritesTypeOK, RequestsSound
<1>2. CASE req' = [req EXCEPT ![s] = x]
    <2>1. /\ req' \in [Slots -> Request] /\ RequestsSound'
          /\ Cardinality(Opened') \in Nat
          /\ Cardinality(Opened') <= Cardinality(Opened) + 1
          /\ x.stage # "opened" => Cardinality(Opened') <= Cardinality(Opened)
        BY <1>2, Replaced
    <2>2. ClockBehind'
        BY <2>1, WritesBounds DEF WInv, ClockBehind
    <2>3. started' \in 0..MaxRequests
        BY WritesBounds
    <2>4. WritesTypeOK'
        BY <2>1, <2>3 DEF WInv, WritesTypeOK
    <2> QED BY <2>1, <2>2, <2>4 DEF WInv
<1> QED BY <1>1, <1>2

LEMMA OpenTopicSound ==
    ASSUME WInv, NEW s \in Slots, NEW u \in Users, NEW f \in Forums, OpenTopic(s, u, f),
           started < MaxRequests, started' = started + 1, UNCHANGED <<workers, crashes>>
    PROVE  WInv'
<1>1. PICK t \in Topics \ LiveTopics(topic) :
        /\ topic' = [topic EXCEPT ![t] = NewRow(u, f)]
        /\ req' = [req EXCEPT ![s] = [Idle EXCEPT !.stage = "opened", !.new = TRUE,
                                        !.user = u, !.topic = t, !.forum = f]]
    BY DEF OpenTopic
<1>2. UNCHANGED <<post, forum, tally, forums, users, clock, granted>>
    BY DEF OpenTopic
<1> DEFINE x == [Idle EXCEPT !.stage = "opened", !.new = TRUE,
                             !.user = u, !.topic = t, !.forum = f]
<1>3. x \in Request /\ x.stage = "opened" /\ x.new /\ x.user = u /\ x.topic = t /\ x.forum = f
    BY IdleTyped DEF Request, Stages
<1>4. NewRow(u, f) \in TopicRow /\ NewRow(u, f).forum = f
    <2>1. BlankTopic \in TopicRow /\ clock \in Times
        BY TimesFacts DEF BlankTopic, TopicRow, WInv, WritesTypeOK, TypeOK
    <2> QED BY <2>1 DEF NewRow, TopicRow
<1>5. TypeOK'
    BY <1>1, <1>2, <1>4 DEF WInv, WritesTypeOK, TypeOK
<1>6. PostsHaveTopics'
    BY <1>1, <1>2, <1>4, NullIsNoId DEF WInv, WritesTypeOK, TypeOK, PostsHaveTopics, Gone
<1>7. req' = [req EXCEPT ![s] = x]
    BY <1>1
<1> HIDE DEF x
<1>8. RequestSound(x)
    BY <1>3 DEF RequestSound
<1> QED BY <1>2, <1>3, <1>5, <1>6, <1>7, <1>8, WriteOnly

LEMMA LoadNewSound ==
    ASSUME WInv, NEW s \in Slots, LoadNew(s), UNCHANGED <<workers, crashes, started>>
    PROVE  WInv'
<1>1. /\ req[s] \in Request /\ RequestSound(req[s]) /\ req[s].stage = "opened"
      /\ req[s].topic \in Topics /\ req[s].user \in Users /\ req[s].forum \in Forums
    BY DEF WInv, WritesTypeOK, RequestsSound, RequestSound, LoadNew, Is
<1>2. started' \in 0..MaxRequests /\ crashes' \in 0..MaxCrashes
    BY DEF WInv, WritesTypeOK
<1>3. CASE Gone(req[s].topic)
    <2>1. req' = [req EXCEPT ![s] = Idle] /\ UNCHANGED vars
        BY <1>3 DEF LoadNew, Fail
    <2> QED BY <1>2, <2>1, IdleTyped, RequestOnly DEF vars, WInv, WritesTypeOK, TypeOK
<1>4. CASE ~Gone(req[s].topic)
    <2>1. /\ req' = [req EXCEPT ![s] = Loaded(req[s])] /\ clock' = clock + 1
          /\ UNCHANGED <<post, topic, forum, tally, forums, users, granted>>
        BY <1>4 DEF LoadNew
    <2>2. Cardinality(Opened) >= 1
        <3>1. s \in Opened /\ IsFiniteSet(Opened)
            BY <1>1, SlotsAssumption, FS_Subset DEF Opened
        <3> QED BY <3>1, FS_EmptySet, FS_CardinalityType
    <2>3. clock < MaxTime
        BY <2>2, WritesBounds DEF WInv, ClockBehind
    <2>4. /\ Loaded(req[s]) \in Request /\ RequestSound(Loaded(req[s]))
          /\ Loaded(req[s]).stage = "loaded" /\ clock + 1 \in Times
        BY <1>1, <1>4, <2>3, LoadedSound
    <2> QED BY <1>1, <1>2, <2>1, <2>4, RequestOnly
<1> QED BY <1>3, <1>4

LEMMA LoadReplySound ==
    ASSUME WInv, NEW s \in Slots, NEW u \in Users, NEW t \in Topics, LoadReply(s, u, t),
           started < MaxRequests, started' = started + 1, UNCHANGED <<workers, crashes>>
    PROVE  WInv'
<1> DEFINE r == [Idle EXCEPT !.user = u, !.topic = t]
<1>1. /\ r \in Request /\ r.user = u /\ r.topic = t /\ ~r.new
    BY IdleTyped DEF Request, Idle
<1>2. /\ ~Gone(t) /\ req' = [req EXCEPT ![s] = Loaded(r)] /\ clock' = clock + 1
      /\ UNCHANGED <<post, topic, forum, tally, forums, users, granted>>
    BY DEF LoadReply
<1> HIDE DEF r
<1>3. clock < MaxTime
    BY WritesBounds DEF WInv, ClockBehind
<1>4. /\ Loaded(r) \in Request /\ RequestSound(Loaded(r))
      /\ Loaded(r).stage = "loaded" /\ clock + 1 \in Times
    BY <1>1, <1>2, <1>3, LoadedSound
<1>5. started' \in 0..MaxRequests /\ crashes' \in 0..MaxCrashes
    BY WritesBounds DEF WInv, WritesTypeOK
<1> QED BY <1>2, <1>4, <1>5, RequestOnly

LEMMA LoadForumSound ==
    ASSUME WInv, NEW s \in Slots, LoadForum(s), UNCHANGED <<workers, crashes, started>>
    PROVE  WInv'
<1> DEFINE r == req[s]
           x == [r EXCEPT !.stage = "counting", !.row = forum[r.forum]]
<1>1. /\ r \in Request /\ RequestSound(r) /\ r.stage = "saved"
      /\ req \in [Slots -> Request]
    BY DEF WInv, WritesTypeOK, RequestsSound, LoadForum, Is
<1>2. forum[r.forum] \in ForumRow
    BY <1>1 DEF RequestSound, WInv, WritesTypeOK, TypeOK
<1>3. /\ x \in Request /\ x.stage = "counting" /\ x.new = r.new
      /\ x.topic = r.topic /\ x.forum = r.forum /\ x.post = r.post
    BY <1>1, <1>2 DEF Request, Stages
<1>4. req' = [req EXCEPT ![s] = x] /\ UNCHANGED vars
    BY <1>1 DEF LoadForum
<1> HIDE DEF x
<1>5. RequestSound(x)
    BY <1>1, <1>3 DEF RequestSound
<1>6. started' \in 0..MaxRequests /\ crashes' \in 0..MaxCrashes /\ clock' \in Times
    BY <1>4 DEF WInv, WritesTypeOK, TypeOK, vars
<1> QED BY <1>3, <1>4, <1>5, <1>6, RequestOnly DEF vars

LEMMA StartMoveSound ==
    ASSUME WInv, NEW s \in Slots, NEW t \in Topics, NEW g \in Forums, StartMove(s, t, g),
           started < MaxRequests, started' = started + 1, UNCHANGED <<workers, crashes>>
    PROVE  WInv'
<1> DEFINE f == topic[t].forum
           x == [Idle EXCEPT !.stage = "moving", !.topic = t, !.forum = f, !.to = g,
                             !.posts = topic[t].posts, !.row = forum[f], !.toRow = forum[g]]
<1>1. req' = [req EXCEPT ![s] = x] /\ UNCHANGED vars /\ ~Gone(t)
    BY DEF StartMove
<1>2. f \in Forums /\ topic[t].posts \in Nat
    BY <1>1 DEF Gone, WInv, WritesTypeOK, TypeOK, TopicRow
<1>3. forum[f] \in ForumRow /\ forum[g] \in ForumRow
    BY <1>2 DEF WInv, WritesTypeOK, TypeOK
<1>4. /\ x \in Request /\ x.stage = "moving" /\ x.topic = t /\ x.forum = f /\ x.to = g
    BY <1>2, <1>3, IdleTyped DEF Request, Stages
<1> HIDE DEF x
<1>5. RequestSound(x)
    BY <1>2, <1>4 DEF RequestSound
<1>6. started' \in 0..MaxRequests /\ crashes' \in 0..MaxCrashes /\ clock' \in Times
    BY <1>1, WritesBounds DEF WInv, WritesTypeOK, TypeOK, vars
<1> QED BY <1>1, <1>4, <1>5, <1>6, RequestOnly DEF vars

LEMMA CrashSound ==
    ASSUME WInv, NEW s \in Slots, Crash(s)
    PROVE  WInv'
<1>1. /\ req' = [req EXCEPT ![s] = Idle] /\ UNCHANGED <<vars, workers, started>>
      /\ crashes < MaxCrashes /\ crashes' = crashes + 1
    BY DEF Crash
<1>2. started' \in 0..MaxRequests /\ crashes' \in 0..MaxCrashes /\ clock' \in Times
    BY <1>1, WritesBounds DEF WInv, WritesTypeOK, TypeOK, vars
<1> QED BY <1>1, <1>2, IdleTyped, RequestOnly DEF vars

\* A commit that fails leaves nothing but an idle worker.
LEMMA FailSound ==
    ASSUME WInv, NEW s \in Slots, Fail(s), UNCHANGED <<workers, crashes, started>>
    PROVE  WInv'
<1>1. started' \in 0..MaxRequests /\ crashes' \in 0..MaxCrashes /\ clock' \in Times
    BY DEF Fail, WInv, WritesTypeOK, TypeOK, vars
<1> QED BY <1>1, IdleTyped, RequestOnly DEF Fail, vars

\* What a successful Post.save commits.
LEMMA SaveFacts ==
    ASSUME WInv, NEW s \in Slots, Save(s), ~Gone(req[s].topic)
    PROVE  LET r == req[s] IN
           /\ r \in Request /\ RequestSound(r) /\ r.stage = "loaded"
           /\ r.topic \in Topics /\ r.user \in Users /\ r.home \in Forums
           /\ \E p \in PostIds :
                /\ NextId(p) /\ post[p].topic = None
                /\ post' = [post EXCEPT ![p] = [topic |-> r.topic, user |-> r.user,
                                                hidden |-> FALSE, created |-> r.time]]
                /\ topic' = [topic EXCEPT ![r.topic] = SavedTopic(topic[r.topic], r, p)]
                /\ forum' = [forum EXCEPT ![r.home] = SavedForum(forum[r.home], r, p)]
                /\ req' = [req EXCEPT ![s] = IF r.new
                             THEN [r EXCEPT !.stage = "saved", !.post = p] ELSE Idle]
                /\ SavedTopic(topic[r.topic], r, p) \in TopicRow
                /\ SavedForum(forum[r.home], r, p) \in ForumRow
           /\ tally' = [tally EXCEPT ![r.user] = SavedTally(r)]
           /\ SavedTally(r) \in Int
           /\ UNCHANGED <<forums, users, clock, granted>>
<1> DEFINE r == req[s]
<1>1. /\ r \in Request /\ RequestSound(r) /\ r.stage = "loaded"
      /\ r.topic \in Topics /\ r.user \in Users /\ r.home \in Forums
    BY DEF WInv, WritesTypeOK, RequestsSound, RequestSound, Save, Is
<1>2. PICK p \in PostIds :
        /\ NextId(p)
        /\ post' = [post EXCEPT ![p] = [topic |-> r.topic, user |-> r.user,
                                        hidden |-> FALSE, created |-> r.time]]
        /\ topic' = [topic EXCEPT ![r.topic] = SavedTopic(@, r, p)]
        /\ forum' = [forum EXCEPT ![r.home] = SavedForum(@, r, p)]
        /\ req' = [req EXCEPT ![s] = IF r.new
                     THEN [r EXCEPT !.stage = "saved", !.post = p] ELSE Idle]
    BY DEF Save
<1>3. /\ tally' = [tally EXCEPT ![r.user] = SavedTally(r)]
      /\ UNCHANGED <<forums, users, clock, granted>>
    BY DEF Save
<1>4. topic[r.topic] \in TopicRow /\ forum[r.home] \in ForumRow
    BY <1>1 DEF WInv, WritesTypeOK, TypeOK
<1> HIDE DEF r
<1>5. SavedTopic(topic[r.topic], r, p) \in TopicRow
    <2>1. r.time \in Times /\ r.posts + 1 \in Nat
        BY <1>1 DEF Request
    <2> QED BY <1>4, <2>1 DEF SavedTopic, TopicRow
<1>6. /\ r.time \in Times /\ r.row.posts + 1 \in Int /\ r.tally + 1 \in Int
      /\ Written(forum[r.home].lastUser, r.row.lastUser, r.user) \in Users \cup {None}
    BY <1>1, <1>4 DEF Written, Request, ForumRow
<1>7. SavedForum(forum[r.home], r, p) \in ForumRow
    BY <1>4, <1>6 DEF SavedForum, ForumRow
<1>8. post[p].topic = None
    BY <1>2, NextIdIsFresh
<1> QED BY <1>1, <1>2, <1>3, <1>5, <1>6, <1>7, <1>8 DEF r, SavedTally

LEMMA SaveSound ==
    ASSUME WInv, NEW s \in Slots, Save(s), UNCHANGED <<workers, crashes, started>>
    PROVE  WInv'
<1> DEFINE r == req[s]
<1>1. CASE Gone(r.topic)
    BY <1>1, FailSound DEF Save
<1>2. CASE ~Gone(r.topic)
    <2>1. /\ r \in Request /\ RequestSound(r) /\ r.stage = "loaded"
          /\ r.topic \in Topics /\ r.user \in Users /\ r.home \in Forums
          /\ tally' = [tally EXCEPT ![r.user] = SavedTally(r)]
          /\ SavedTally(r) \in Int
          /\ UNCHANGED <<forums, users, clock, granted>>
        BY <1>2, SaveFacts
    <2>2. PICK p \in PostIds :
            /\ post' = [post EXCEPT ![p] = [topic |-> r.topic, user |-> r.user,
                                            hidden |-> FALSE, created |-> r.time]]
            /\ topic' = [topic EXCEPT ![r.topic] = SavedTopic(topic[r.topic], r, p)]
            /\ forum' = [forum EXCEPT ![r.home] = SavedForum(forum[r.home], r, p)]
            /\ req' = [req EXCEPT ![s] = IF r.new
                         THEN [r EXCEPT !.stage = "saved", !.post = p] ELSE Idle]
            /\ SavedTopic(topic[r.topic], r, p) \in TopicRow
            /\ SavedForum(forum[r.home], r, p) \in ForumRow
        BY <1>2, SaveFacts
    <2> DEFINE x == IF r.new THEN [r EXCEPT !.stage = "saved", !.post = p] ELSE Idle
    <2> HIDE DEF r
    <2>3. /\ x \in Request /\ x.stage # "opened" /\ RequestSound(x)
        <3>1. CASE r.new
            <4>1. /\ x \in Request /\ x.stage = "saved" /\ x.new /\ x.topic = r.topic
                  /\ x.forum = r.forum /\ x.post = p
                BY <2>1, <3>1 DEF Request, Stages
            <4> HIDE DEF x
            <4>2. r.forum \in Forums
                BY <2>1, <3>1 DEF RequestSound
            <4> QED BY <2>1, <4>1, <4>2 DEF RequestSound
        <3>2. CASE ~r.new
            BY <3>2, IdleTyped
        <3> QED BY <3>1, <3>2
    <2>4. [topic |-> r.topic, user |-> r.user, hidden |-> FALSE, created |-> r.time] \in PostRow
        BY <2>1 DEF PostRow, Request
    <2>5. TypeOK'
        BY <2>1, <2>2, <2>4 DEF WInv, WritesTypeOK, TypeOK
    <2>6. PostsHaveTopics'
        <3>1. SavedTopic(topic[r.topic], r, p).forum = topic[r.topic].forum
            BY <2>1 DEF SavedTopic, WInv, WritesTypeOK, TypeOK, TopicRow
        <3>2. \A t \in Topics : topic'[t].forum = topic[t].forum
            BY <2>1, <2>2, <3>1 DEF WInv, WritesTypeOK, TypeOK
        <3>3. ASSUME NEW q \in PostIds, post'[q].topic # None
              PROVE  topic'[post'[q].topic].forum # None
            <4>1. CASE q = p
                <5>1. post'[q].topic = r.topic
                    BY <2>2, <4>1 DEF WInv, WritesTypeOK, TypeOK
                <5> QED BY <1>2, <2>1, <3>2, <5>1 DEF Gone, r
            <4>2. CASE q # p
                <5>1. post'[q] = post[q]
                    BY <2>2, <4>2 DEF WInv, WritesTypeOK, TypeOK
                <5>2. post[q].topic \in Topics
                    BY <3>3, <5>1 DEF WInv, WritesTypeOK, TypeOK, PostRow
                <5> QED BY <3>2, <3>3, <5>1, <5>2 DEF WInv, PostsHaveTopics, Gone
            <4> QED BY <4>1, <4>2
        <3> QED BY <3>3 DEF PostsHaveTopics, Gone
    <2>7. req' = [req EXCEPT ![s] = x]
        BY <2>2
    <2> HIDE DEF x
    <2> QED BY <2>1, <2>3, <2>5, <2>6, <2>7, WriteOnly
<1> QED BY <1>1, <1>2

LEMMA CloseTopicSound ==
    ASSUME WInv, NEW s \in Slots, CloseTopic(s), UNCHANGED <<workers, crashes, started>>
    PROVE  WInv'
<1> DEFINE r == req[s]
<1>1. CASE Gone(r.topic)
    BY <1>1, FailSound DEF CloseTopic
<1>2. CASE ~Gone(r.topic)
    <2>1. /\ r \in Request /\ r.topic \in Topics /\ r.forum \in Forums /\ r.post \in PostIds
        BY DEF CloseTopic, Is, WInv, WritesTypeOK, RequestsSound, RequestSound
    <2>2. /\ topic' = [topic EXCEPT ![r.topic] = ClosedTopic(topic[r.topic], r)]
          /\ forum' = [forum EXCEPT ![r.forum].topics = r.row.topics + 1]
          /\ req' = [req EXCEPT ![s] = Idle]
          /\ UNCHANGED <<post, tally, forums, users, clock, granted>>
        BY <1>2 DEF CloseTopic
    <2> HIDE DEF r
    <2>3. /\ ClosedTopic(topic[r.topic], r) \in TopicRow
          /\ ClosedTopic(topic[r.topic], r).forum = topic[r.topic].forum
        BY <2>1 DEF ClosedTopic, WInv, WritesTypeOK, TypeOK, TopicRow
    <2>4. r.row.topics + 1 \in Int
        BY <2>1 DEF Request, ForumRow
    <2>5. forum' \in [Forums -> ForumRow]
        BY <2>1, <2>2, <2>4 DEF WInv, WritesTypeOK, TypeOK, ForumRow
    <2>6. TypeOK'
        BY <2>1, <2>2, <2>3, <2>5 DEF WInv, WritesTypeOK, TypeOK
    <2>7. \A t \in Topics : topic'[t].forum = topic[t].forum
        BY <2>1, <2>2, <2>3 DEF WInv, WritesTypeOK, TypeOK
    <2>8. PostsHaveTopics'
        <3>1. ASSUME NEW q \in PostIds, post[q].topic # None PROVE post[q].topic \in Topics
            BY <3>1 DEF WInv, WritesTypeOK, TypeOK, PostRow
        <3> QED BY <2>2, <2>7, <3>1 DEF WInv, PostsHaveTopics, Gone
    <2> QED BY <2>2, <2>6, <2>8, IdleTyped, WriteOnly
<1> QED BY <1>1, <1>2

LEMMA CountersWritten ==
    ASSUME NEW row \in ForumRow, NEW i \in Int, NEW j \in Int
    PROVE  [row EXCEPT !.posts = i, !.topics = j] \in ForumRow
BY DEF ForumRow

LEMMA CommitMoveSound ==
    ASSUME WInv, NEW s \in Slots, CommitMove(s), UNCHANGED <<workers, crashes, started>>
    PROVE  WInv'
<1> DEFINE r == req[s]
<1>1. CASE Gone(r.topic)
    BY <1>1, FailSound DEF CommitMove
<1>2. CASE ~Gone(r.topic)
    <2>1. /\ r \in Request /\ RequestSound(r) /\ r.stage = "moving"
          /\ r.topic \in Topics /\ r.forum \in Forums /\ r.to \in Forums
        BY DEF CommitMove, Is, WInv, WritesTypeOK, RequestsSound, RequestSound
    <2> DEFINE a == LessOf(forum[r.forum], r)
               b == MoreOf(forum[r.to], r)
    <2>2. /\ topic' = [topic EXCEPT ![r.topic].forum = r.to]
          /\ forum' = [forum EXCEPT ![r.forum] = a, ![r.to] = b]
          /\ req' = [req EXCEPT ![s].stage = "moved"]
          /\ UNCHANGED <<post, tally, forums, users, clock, granted>>
        BY <1>2 DEF CommitMove
    <2> DEFINE x == [r EXCEPT !.stage = "moved"]
    <2>3. req' = [req EXCEPT ![s] = x]
        BY <2>2 DEF WInv, WritesTypeOK
    <2> HIDE DEF r
    <2>4. /\ r.row.posts \in Int /\ r.row.topics \in Int /\ r.posts \in Int
          /\ r.toRow.posts \in Int /\ r.toRow.topics \in Int
        BY <2>1 DEF Request, ForumRow
    <2>5. forum[r.forum] \in ForumRow /\ forum[r.to] \in ForumRow
        BY <2>1 DEF WInv, WritesTypeOK, TypeOK
    <2>7. a \in ForumRow
        <3>0. forum[r.forum].posts \in Int /\ r.row.posts - r.posts \in Int
            BY <2>4, <2>5 DEF ForumRow
        <3>1. Written(forum[r.forum].posts, r.row.posts, r.row.posts - r.posts) \in Int
            BY <3>0 DEF Written
        <3>2. r.row.topics - 1 \in Int
            BY <2>4
        <3> QED BY <2>5, <3>1, <3>2, CountersWritten DEF LessOf
    <2>8. b \in ForumRow
        <3>0. forum[r.to].posts \in Int /\ r.toRow.posts + r.posts \in Int
            BY <2>4, <2>5 DEF ForumRow
        <3>1. Written(forum[r.to].posts, r.toRow.posts, r.toRow.posts + r.posts) \in Int
            BY <3>0 DEF Written
        <3>2. r.toRow.topics + 1 \in Int
            BY <2>4
        <3> QED BY <2>5, <3>1, <3>2, CountersWritten DEF MoreOf
    <2> HIDE DEF a, b
    <2>9. forum' \in [Forums -> ForumRow]
        BY <2>1, <2>2, <2>7, <2>8 DEF WInv, WritesTypeOK, TypeOK
    <2>10. topic' \in [Topics -> TopicRow]
        BY <2>1, <2>2 DEF WInv, WritesTypeOK, TypeOK, TopicRow
    <2>11. TypeOK'
        BY <2>2, <2>9, <2>10 DEF WInv, WritesTypeOK, TypeOK
    <2>12. \A t \in Topics : topic[t].forum # None => topic'[t].forum # None
        BY <2>1, <2>2, NullIsNoId DEF WInv, WritesTypeOK, TypeOK, TopicRow
    <2>13. PostsHaveTopics'
        <3>1. ASSUME NEW q \in PostIds, post[q].topic # None PROVE post[q].topic \in Topics
            BY <3>1 DEF WInv, WritesTypeOK, TypeOK, PostRow
        <3> QED BY <2>2, <2>12, <3>1 DEF WInv, PostsHaveTopics, Gone
    <2>14. x \in Request /\ x.stage = "moved" /\ x.topic = r.topic /\ x.forum = r.forum /\ x.to = r.to
        BY <2>1 DEF Request, Stages
    <2> HIDE DEF x
    <2>15. RequestSound(x)
        BY <2>1, <2>14 DEF RequestSound
    <2> QED BY <2>2, <2>3, <2>11, <2>13, <2>14, <2>15, WriteOnly
<1> QED BY <1>1, <1>2

\* Either commit of a forum's last post.
LEMMA UpdateSound ==
    ASSUME WInv, NEW s \in Slots, NEW f \in Forums, NEW x \in Request, RequestSound(x),
           x.stage # "opened",
           forum' = [forum EXCEPT ![f] = LatestPost(forum[f], f, topic)],
           req' = [req EXCEPT ![s] = x],
           UNCHANGED <<post, topic, tally, forums, users, clock, granted>>,
           UNCHANGED <<workers, crashes, started>>
    PROVE  WInv'
<1>1. TypeOK /\ forum[f] \in ForumRow
    BY DEF WInv, WritesTypeOK, TypeOK
<1>2. LatestPost(forum[f], f, topic) \in ForumRow
    BY <1>1, LatestPostRow
<1>3. TypeOK'
    BY <1>1, <1>2 DEF TypeOK
<1>4. PostsHaveTopics'
    BY DEF WInv, PostsHaveTopics, Gone
<1> QED BY <1>3, <1>4, WriteOnly

LEMMA UpdateNewSound ==
    ASSUME WInv, NEW s \in Slots, UpdateNew(s), UNCHANGED <<workers, crashes, started>>
    PROVE  WInv'
<1> DEFINE r == req[s]
           x == [r EXCEPT !.stage = "settled"]
<1>1. /\ r \in Request /\ r.stage = "moved" /\ r.topic \in Topics /\ r.forum \in Forums
      /\ r.to \in Forums /\ req \in [Slots -> Request]
    BY DEF UpdateNew, Is, WInv, WritesTypeOK, RequestsSound, RequestSound
<1>2. /\ x \in Request /\ x.stage = "settled" /\ x.topic = r.topic /\ x.forum = r.forum
      /\ x.to = r.to
    BY <1>1 DEF Request, Stages
<1>3. /\ forum' = [forum EXCEPT ![r.to] = LatestPost(forum[r.to], r.to, topic)]
      /\ req' = [req EXCEPT ![s] = x]
      /\ UNCHANGED <<post, topic, tally, forums, users, clock, granted>>
    BY <1>1 DEF UpdateNew
<1> HIDE DEF x
<1>4. RequestSound(x)
    BY <1>1, <1>2 DEF RequestSound
<1> QED BY <1>1, <1>2, <1>3, <1>4, UpdateSound

LEMMA UpdateOldSound ==
    ASSUME WInv, NEW s \in Slots, UpdateOld(s), UNCHANGED <<workers, crashes, started>>
    PROVE  WInv'
<1>1. req[s].forum \in Forums
    BY DEF UpdateOld, Is, WInv, WritesTypeOK, RequestsSound, RequestSound
<1>2. /\ forum' = [forum EXCEPT ![req[s].forum] =
                       LatestPost(forum[req[s].forum], req[s].forum, topic)]
      /\ req' = [req EXCEPT ![s] = Idle]
      /\ UNCHANGED <<post, topic, tally, forums, users, clock, granted>>
    BY DEF UpdateOld
<1> QED BY <1>1, <1>2, IdleTyped, UpdateSound

LEMMA RemoveSound ==
    ASSUME WInv, NEW s \in Slots, NEW t \in Topics, Remove(s, t),
           started < MaxRequests, started' = started + 1, UNCHANGED <<workers, crashes>>
    PROVE  WInv'
<1> DEFINE f   == topic[t].forum
           P   == WithoutTopics({t}, post)
           T   == [topic EXCEPT ![t] = BlankTopic]
           row == FixPostCounts(forum[f], f, P, T)
           new == IF row.last = None \/ row.last = topic[t].last
                  THEN LatestPost(row, f, T) ELSE row
<1>1. /\ ~Gone(t) /\ post' = P /\ topic' = T
      /\ tally' = FixUserPostCounts(InvolvedUsers(t), P, T)
      /\ forum' = [forum EXCEPT ![f] = new]
      /\ UNCHANGED <<req, forums, users, clock, granted>>
    BY DEF Remove
<1>2. TypeOK /\ f \in Forums
    BY <1>1 DEF Gone, WInv, WritesTypeOK, TypeOK, TopicRow
<1>3. BlankPost \in PostRow /\ BlankTopic \in TopicRow
    BY TimesFacts DEF BlankPost, BlankTopic, PostRow, TopicRow
<1>4. P \in PostTable /\ T \in TopicTable
    BY <1>2, <1>3 DEF TypeOK, PostTable, TopicTable, WithoutTopics
<1>5. row \in ForumRow
    <2>1. forum[f] \in ForumRow
        BY <1>2 DEF TypeOK
    <2> HIDE DEF P, T
    <2> QED BY <1>2, <1>4, <2>1, CountedRow
<1>6. new \in ForumRow
    <2> HIDE DEF row, T
    <2> QED BY <1>2, <1>5, LatestPostRow
<1>7. tally' \in [Users -> Int]
    BY <1>1, <1>2, CountedUsers
<1>8. TypeOK'
    <2>1. forum' \in [Forums -> ForumRow]
        <3> HIDE DEF new
        <3> QED BY <1>1, <1>2, <1>6 DEF TypeOK
    <2> QED BY <1>1, <1>2, <1>4, <1>7, <2>1 DEF TypeOK, PostTable, TopicTable
<1>9. PostsHaveTopics'
    <2>1. ASSUME NEW q \in PostIds, post'[q].topic # None
          PROVE  topic'[post'[q].topic].forum # None
        <3>1. post'[q] = post[q] /\ post[q].topic # t
            BY <1>1, <2>1 DEF WithoutTopics, BlankPost
        <3>2. post[q].topic \in Topics
            BY <1>2, <2>1, <3>1 DEF TypeOK, PostRow
        <3>3. topic'[post[q].topic] = topic[post[q].topic]
            BY <1>1, <1>2, <3>1, <3>2 DEF TypeOK
        <3> QED BY <2>1, <3>1, <3>3 DEF WInv, PostsHaveTopics, Gone
    <2> QED BY <2>1 DEF PostsHaveTopics, Gone
<1> QED BY <1>1, <1>8, <1>9, IdleTyped, WriteOnly

-----------------------------------------------------------------------------
LEMMA WritesInitSound == WritesInit => WInv
<1> SUFFICES ASSUME WritesInit PROVE WInv
    OBVIOUS
<1>1. TypeOK
    BY InitEstablishes DEF WritesInit, IInv
<1>2. /\ req = [s \in Slots |-> Idle] /\ crashes = 0 /\ started = 0 /\ clock = 0
      /\ workers \subseteq Slots
    BY DEF WritesInit, Init
<1>3. WritesTypeOK
    BY <1>1, <1>2, IdleTyped, WritesBoundsAssumption DEF WritesTypeOK
<1>4. RequestsSound
    BY <1>2, IdleTyped DEF RequestsSound
<1>5. PostsHaveTopics
    BY DEF WritesInit, Init, PostsHaveTopics, BlankPost
<1>6. ClockBehind
    <2>1. Opened = {}
        BY <1>2, IdleTyped DEF Opened
    <2> QED BY <1>2, <2>1, FS_EmptySet DEF ClockBehind
<1> QED BY <1>3, <1>4, <1>5, <1>6 DEF WInv

LEMMA WritesNextSound == WInv /\ [WritesNext]_writeVars => WInv'
<1> SUFFICES ASSUME WInv, [WritesNext]_writeVars PROVE WInv'
    OBVIOUS
<1>1. ASSUME NEW s \in Slots, Start(s) PROVE WInv'
    BY <1>1, OpenTopicSound, LoadReplySound, StartMoveSound, RemoveSound DEF Start
<1>2. ASSUME NEW s \in Slots, Proceed(s) PROVE WInv'
    BY <1>2, LoadNewSound, SaveSound, LoadForumSound, CloseTopicSound, CommitMoveSound,
       UpdateNewSound, UpdateOldSound DEF Proceed
<1>3. ASSUME NEW s \in Slots, Crash(s) PROVE WInv'
    BY <1>3, CrashSound
<1>4. CASE UNCHANGED writeVars
    BY <1>4 DEF writeVars, vars, WInv, WritesTypeOK, TypeOK, RequestsSound, PostsHaveTopics,
                Gone, ClockBehind, Opened
<1> QED BY <1>1, <1>2, <1>3, <1>4 DEF WritesNext

\* However requests overlap, fail and die, rows and requests stay sound.
THEOREM WritesInvariance == WritesSpec => []WInv
BY WritesInitSound, WritesNextSound, PTL DEF WritesSpec

\* The tables and the requests at work are of their types.
THEOREM WritesTypeCorrect == WritesSpec => []WritesTypeOK
<1>1. WInv => WritesTypeOK
    BY DEF WInv
<1> QED BY <1>1, WritesInvariance, PTL

-----------------------------------------------------------------------------
(* What holds however requests overlap: the first and the last post of a    *)
(* topic, the last post of a forum, topics left half written.              *)

\* No post goes away or changes its topic.
PostsStay == \A q \in PostIds : post[q].topic # None => post'[q].topic = post[q].topic

\* The tables these theorems are about stay, and the request of s becomes x.
OnlyRequest(s, x) ==
    /\ req' = [req EXCEPT ![s] = x]
    /\ UNCHANGED <<post, topic, granted, forums>>

-----------------------------------------------------------------------------
(* What the steps do to these tables.                                      *)

LEMMA Tables ==
    ASSUME WInv
    PROVE  /\ post \in [PostIds -> PostRow] /\ topic \in [Topics -> TopicRow]
           /\ forum \in [Forums -> ForumRow] /\ req \in [Slots -> Request]
           /\ forums \subseteq Forums
BY DEF WInv, WritesTypeOK, TypeOK

LEMMA TopicOpens ==
    ASSUME WInv, NEW s \in Slots, NEW u \in Users, NEW f \in Forums, OpenTopic(s, u, f)
    PROVE  \E t \in Topics :
              /\ Gone(t) /\ topic'[t].forum = f
              /\ topic'[t].first = None /\ topic'[t].last = None
              /\ \A o \in Topics \ {t} : topic'[o] = topic[o]
              /\ req[s].stage = "idle" /\ req'[s].stage = "opened"
              /\ req'[s].new /\ req'[s].topic = t
              /\ \A o \in Slots \ {s} : req'[o] = req[o]
              /\ UNCHANGED <<post, forum, granted, forums>>
<1>1. PICK t \in Topics \ LiveTopics(topic) :
        /\ topic' = [topic EXCEPT ![t] = NewRow(u, f)]
        /\ req' = [req EXCEPT ![s] = [Idle EXCEPT !.stage = "opened", !.new = TRUE,
                                        !.user = u, !.topic = t, !.forum = f]]
    BY DEF OpenTopic
<1>2. req[s].stage = "idle" /\ UNCHANGED <<post, forum, granted, forums>>
    BY DEF OpenTopic, Is
<1>3. Gone(t)
    BY DEF LiveTopics, Gone
<1>4. /\ topic'[t] = NewRow(u, f) /\ \A o \in Topics \ {t} : topic'[o] = topic[o]
    BY <1>1, Tables
<1>5. NewRow(u, f).forum = f /\ NewRow(u, f).first = None /\ NewRow(u, f).last = None
    BY DEF NewRow, BlankTopic
<1>6. /\ req'[s].stage = "opened" /\ req'[s].new /\ req'[s].topic = t
      /\ \A o \in Slots \ {s} : req'[o] = req[o]
    BY <1>1, Tables DEF Idle
<1> QED BY <1>2, <1>3, <1>4, <1>5, <1>6

LEMMA PostSaved ==
    ASSUME WInv, NEW s \in Slots, Save(s), ~Gone(req[s].topic)
    PROVE  LET r == req[s] IN
           /\ r.stage = "loaded" /\ r.topic \in Topics /\ r.home \in Forums
           /\ \E p \in PostIds :
                /\ \A q \in PostIds : post[q].topic # None => q < p
                /\ post[p].topic = None /\ post'[p].topic = r.topic
                /\ \A q \in PostIds \ {p} : post'[q] = post[q]
                /\ topic'[r.topic].forum = topic[r.topic].forum
                /\ topic'[r.topic].first = topic[r.topic].first
                /\ topic'[r.topic].last = p
                /\ \A t \in Topics \ {r.topic} : topic'[t] = topic[t]
                /\ forum'[r.home].last = p
                /\ \A f \in Forums \ {r.home} : forum'[f] = forum[f]
                /\ \/ /\ r.new /\ req'[s].stage = "saved" /\ req'[s].new
                      /\ req'[s].post = p /\ req'[s].topic = r.topic
                   \/ ~r.new /\ req'[s] = Idle
           /\ \A o \in Slots \ {s} : req'[o] = req[o]
           /\ UNCHANGED <<granted, forums>>
<1> DEFINE r == req[s]
<1>1. /\ r \in Request /\ r.stage = "loaded" /\ r.topic \in Topics /\ r.home \in Forums
      /\ UNCHANGED <<granted, forums>>
    BY SaveFacts DEF Save, Is
<1>2. PICK p \in PostIds :
        /\ NextId(p)
        /\ post' = [post EXCEPT ![p] = [topic |-> r.topic, user |-> r.user,
                                        hidden |-> FALSE, created |-> r.time]]
        /\ topic' = [topic EXCEPT ![r.topic] = SavedTopic(topic[r.topic], r, p)]
        /\ forum' = [forum EXCEPT ![r.home] = SavedForum(forum[r.home], r, p)]
        /\ req' = [req EXCEPT ![s] = IF r.new
                     THEN [r EXCEPT !.stage = "saved", !.post = p] ELSE Idle]
    BY DEF Save
<1> HIDE DEF r
<1>3. post[p].topic = None /\ \A q \in PostIds : post[q].topic # None => q < p
    BY <1>2, NextIdIsFresh
<1>4. post'[p].topic = r.topic /\ \A q \in PostIds \ {p} : post'[q] = post[q]
    BY <1>2, Tables
<1>5. /\ topic'[r.topic] = SavedTopic(topic[r.topic], r, p)
      /\ \A t \in Topics \ {r.topic} : topic'[t] = topic[t]
    BY <1>1, <1>2, Tables
<1>6. /\ topic'[r.topic].forum = topic[r.topic].forum
      /\ topic'[r.topic].first = topic[r.topic].first
      /\ topic'[r.topic].last = p
    <2>1. topic[r.topic] \in TopicRow
        BY <1>1, Tables
    <2> QED BY <1>5, <2>1 DEF SavedTopic, TopicRow
<1>7. /\ forum'[r.home] = SavedForum(forum[r.home], r, p)
      /\ \A f \in Forums \ {r.home} : forum'[f] = forum[f]
    BY <1>1, <1>2, Tables
<1>8. forum'[r.home].last = p
    <2>1. forum[r.home] \in ForumRow
        BY <1>1, Tables
    <2> QED BY <1>7, <2>1 DEF SavedForum, ForumRow
<1>9. \A o \in Slots \ {s} : req'[o] = req[o]
    BY <1>2, Tables
<1>10. CASE r.new
    <2>1. req'[s] = [r EXCEPT !.stage = "saved", !.post = p]
        BY <1>2, <1>10, Tables
    <2>2. /\ req'[s].stage = "saved" /\ req'[s].new
          /\ req'[s].post = p /\ req'[s].topic = r.topic
        BY <1>1, <1>10, <2>1 DEF Request
    <2> QED BY <1>1, <1>3, <1>4, <1>5, <1>6, <1>7, <1>8, <1>9, <1>10, <2>2 DEF r
<1>11. CASE ~r.new
    <2>1. req'[s] = Idle
        BY <1>2, <1>11, Tables
    <2> QED BY <1>1, <1>3, <1>4, <1>5, <1>6, <1>7, <1>8, <1>9, <1>11, <2>1 DEF r
<1> QED BY <1>10, <1>11

LEMMA TopicCloses ==
    ASSUME WInv, NEW s \in Slots, CloseTopic(s), ~Gone(req[s].topic)
    PROVE  LET r == req[s] IN
           /\ r.stage = "counting" /\ r.topic \in Topics /\ r.post \in PostIds
           /\ topic'[r.topic].forum = topic[r.topic].forum
           /\ topic'[r.topic].first = r.post /\ topic'[r.topic].last = r.post
           /\ \A t \in Topics \ {r.topic} : topic'[t] = topic[t]
           /\ \A f \in Forums : forum'[f].last = forum[f].last
           /\ req'[s] = Idle /\ \A o \in Slots \ {s} : req'[o] = req[o]
           /\ UNCHANGED <<post, granted, forums>>
<1> DEFINE r == req[s]
<1>1. /\ r \in Request /\ r.stage = "counting" /\ r.topic \in Topics
      /\ r.forum \in Forums /\ r.post \in PostIds
    BY DEF CloseTopic, Is, WInv, WritesTypeOK, RequestsSound, RequestSound
<1>2. /\ topic' = [topic EXCEPT ![r.topic] = ClosedTopic(topic[r.topic], r)]
      /\ forum' = [forum EXCEPT ![r.forum].topics = r.row.topics + 1]
      /\ req' = [req EXCEPT ![s] = Idle]
      /\ UNCHANGED <<post, granted, forums>>
    BY DEF CloseTopic
<1>3. req'[s] = Idle /\ \A o \in Slots \ {s} : req'[o] = req[o]
    BY <1>2, Tables
<1> HIDE DEF r
<1>4. /\ topic'[r.topic] = ClosedTopic(topic[r.topic], r)
      /\ \A t \in Topics \ {r.topic} : topic'[t] = topic[t]
    BY <1>1, <1>2, Tables
<1>5. topic[r.topic] \in TopicRow
    BY <1>1, Tables
<1>6. /\ topic'[r.topic].forum = topic[r.topic].forum
      /\ topic'[r.topic].first = r.post /\ topic'[r.topic].last = r.post
    BY <1>4, <1>5 DEF ClosedTopic, TopicRow
<1>7. ASSUME NEW f \in Forums PROVE forum'[f].last = forum[f].last
    <2>1. forum[f] \in ForumRow
        BY Tables
    <2> QED BY <1>1, <1>2, <2>1, Tables DEF ForumRow
<1> QED BY <1>1, <1>2, <1>3, <1>4, <1>6, <1>7 DEF r

\* The other steps of a request that leave posts, topics and last posts alone.
LEMMA RequestSteps ==
    ASSUME WInv, NEW s \in Slots,
           \/ LoadNew(s) \/ LoadForum(s)
           \/ \E u \in Users, t \in Topics : LoadReply(s, u, t)
           \/ Save(s) /\ Gone(req[s].topic)
           \/ CloseTopic(s) /\ Gone(req[s].topic)
    PROVE  /\ UNCHANGED <<post, topic, forum, granted, forums>>
           /\ \A o \in Slots \ {s} : req'[o] = req[o]
           /\ \/ req[s].topic \in Topics /\ Gone(req[s].topic) /\ req'[s] = Idle
              \/ /\ req[s].stage \in {"idle", "opened"} /\ req'[s].stage = "loaded"
                 /\ req'[s].topic \in Topics /\ ~Gone(req'[s].topic)
                 /\ req'[s].home = topic[req'[s].topic].forum
                 /\ req[s].stage = "opened" =>
                      req'[s].topic = req[s].topic /\ req'[s].new = req[s].new
              \/ /\ req[s].stage = "saved" /\ req'[s].stage = "counting"
                 /\ req'[s].topic = req[s].topic /\ req'[s].post = req[s].post
                 /\ req'[s].new = req[s].new
<1> DEFINE r == req[s]
<1>0. r \in Request
    BY Tables
<1>1. CASE LoadNew(s)
    <2>1. r.stage = "opened" /\ r.topic \in Topics
        BY <1>1 DEF LoadNew, Is, WInv, RequestsSound, RequestSound
    <2>2. CASE Gone(r.topic)
        BY <1>1, <2>1, <2>2, Tables DEF LoadNew, Fail, vars
    <2>3. CASE ~Gone(r.topic)
        <3>1. req' = [req EXCEPT ![s] = Loaded(r)]
              /\ UNCHANGED <<post, topic, forum, granted, forums>>
            BY <1>1, <2>3 DEF LoadNew
        <3>2. req'[s] = Loaded(r) /\ \A o \in Slots \ {s} : req'[o] = req[o]
            BY <3>1, Tables
        <3>3. /\ Loaded(r).stage = "loaded" /\ Loaded(r).topic = r.topic
              /\ Loaded(r).new = r.new /\ Loaded(r).home = topic[r.topic].forum
            BY <1>0 DEF Loaded, Request
        <3> QED BY <2>1, <2>3, <3>1, <3>2, <3>3
    <2> QED BY <2>2, <2>3
<1>2. CASE LoadForum(s)
    <2>1. /\ r.stage = "saved" /\ UNCHANGED <<post, topic, forum, granted, forums>>
          /\ req' = [req EXCEPT ![s].stage = "counting", ![s].row = forum[req[s].forum]]
        BY <1>2 DEF LoadForum, Is, vars
    <2>2. \A o \in Slots \ {s} : req'[o] = req[o]
        BY <2>1, Tables
    <2>3. /\ req'[s].stage = "counting" /\ req'[s].topic = r.topic
          /\ req'[s].post = r.post /\ req'[s].new = r.new
        BY <1>0, <2>1, Tables DEF Request
    <2> QED BY <2>1, <2>2, <2>3
<1>3. ASSUME NEW u \in Users, NEW t \in Topics, LoadReply(s, u, t) PROVE
           /\ UNCHANGED <<post, topic, forum, granted, forums>>
           /\ \A o \in Slots \ {s} : req'[o] = req[o]
           /\ req[s].stage = "idle" /\ req'[s].stage = "loaded"
           /\ req'[s].topic = t /\ ~Gone(t) /\ req'[s].home = topic[t].forum
    <2> DEFINE x == [Idle EXCEPT !.user = u, !.topic = t]
    <2>1. /\ r.stage = "idle" /\ ~Gone(t) /\ req' = [req EXCEPT ![s] = Loaded(x)]
          /\ UNCHANGED <<post, topic, forum, granted, forums>>
        BY <1>3 DEF LoadReply, Is
    <2>2. req'[s] = Loaded(x) /\ \A o \in Slots \ {s} : req'[o] = req[o]
        BY <2>1, Tables
    <2>3. /\ Loaded(x).stage = "loaded" /\ Loaded(x).topic = t
          /\ Loaded(x).home = topic[t].forum
        BY DEF Loaded, Idle
    <2> QED BY <2>1, <2>2, <2>3
<1>4. CASE Save(s) /\ Gone(r.topic)
    <2>1. r.topic \in Topics
        BY <1>4 DEF Save, Is, WInv, RequestsSound, RequestSound
    <2> QED BY <1>4, <2>1, Tables DEF Save, Fail, vars
<1>5. CASE CloseTopic(s) /\ Gone(r.topic)
    <2>1. r.topic \in Topics
        BY <1>5 DEF CloseTopic, Is, WInv, RequestsSound, RequestSound
    <2> QED BY <1>5, <2>1, Tables DEF CloseTopic, Fail, vars
<1> QED BY <1>1, <1>2, <1>3, <1>4, <1>5

MovesOrDies(s) ==
    \/ Crash(s) \/ CommitMove(s) \/ UpdateNew(s) \/ UpdateOld(s)
    \/ \E t \in Topics, g \in Forums : StartMove(s, t, g)

\* What these leave alone.
PointersUntouched(s) ==
    /\ UNCHANGED <<post, granted, forums>>
    /\ \A o \in Slots \ {s} : req'[o] = req[o]
    /\ \A t \in Topics :
        /\ topic'[t].first = topic[t].first /\ topic'[t].last = topic[t].last
        /\ topic'[t].forum # None => topic[t].forum # None
    /\ req'[s].stage \in {"idle", "moving", "moved", "settled"}
    /\ \/ Crash(s) /\ req'[s] = Idle
       \/ ~Crash(s) /\ req[s].stage \in {"idle", "moving", "moved", "settled"}
    /\ \/ UNCHANGED <<topic, forum>>
       \/ req[s].stage \in {"moving", "moved", "settled"}
    /\ \/ req'[s].stage = "idle" \/ "move" \in granted
       \/ req[s].stage \in {"moving", "moved", "settled"}

LEMMA OtherSteps ==
    ASSUME WInv, NEW s \in Slots, MovesOrDies(s)
    PROVE  PointersUntouched(s)
<1> USE DEF PointersUntouched
<1> DEFINE r == req[s]
<1>1. CASE Crash(s)
    <2>1. UNCHANGED vars /\ req' = [req EXCEPT ![s] = Idle]
        BY <1>1 DEF Crash, vars
    <2>2. req'[s] = Idle /\ \A o \in Slots \ {s} : req'[o] = req[o]
        BY <2>1, Tables
    <2>3. req'[s].stage = "idle"
        BY <2>2 DEF Idle
    <2> QED BY <1>1, <2>1, <2>2, <2>3 DEF Gone, vars
<1>2. CASE CommitMove(s) /\ ~Crash(s)
    <2>1. r.stage = "moving" /\ r \in Request /\ r.topic \in Topics /\ r.to \in Forums
        BY <1>2 DEF CommitMove, Is, WInv, WritesTypeOK, RequestsSound, RequestSound
    <2>2. CASE Gone(r.topic)
        <3>1. UNCHANGED vars /\ req' = [req EXCEPT ![s] = Idle]
            BY <1>2, <2>2 DEF CommitMove, Fail
        <3>2. req'[s].stage = "idle" /\ \A o \in Slots \ {s} : req'[o] = req[o]
            BY <3>1, Tables DEF Idle
        <3> QED BY <1>2, <2>1, <3>1, <3>2 DEF Gone, vars
    <2>3. CASE ~Gone(r.topic)
        <3>1. /\ topic' = [topic EXCEPT ![r.topic].forum = r.to]
              /\ req' = [req EXCEPT ![s].stage = "moved"]
              /\ UNCHANGED <<post, granted, forums>>
            BY <1>2, <2>3 DEF CommitMove
        <3>2. req'[s].stage = "moved" /\ \A o \in Slots \ {s} : req'[o] = req[o]
            BY <2>1, <3>1, Tables DEF Request
        <3>3. ASSUME NEW t \in Topics
              PROVE  /\ topic'[t].first = topic[t].first
                     /\ topic'[t].last = topic[t].last
                     /\ topic'[t].forum # None => topic[t].forum # None
            <4>1. topic[t] \in TopicRow /\ r.to # None
                BY <2>1, Tables, NullIsNoId
            <4>2. /\ topic'[t].first = topic[t].first
                  /\ topic'[t].last = topic[t].last
                  /\ t # r.topic => topic'[t].forum = topic[t].forum
                  /\ t = r.topic => topic'[t].forum = r.to
                BY <2>1, <3>1, <4>1, Tables DEF TopicRow
            <4> QED BY <2>3, <4>1, <4>2 DEF Gone
        <3> QED BY <1>2, <2>1, <3>1, <3>2, <3>3
    <2> QED BY <2>2, <2>3
<1>3. CASE (UpdateNew(s) \/ UpdateOld(s)) /\ ~Crash(s)
    <2>1. /\ r.stage \in {"moved", "settled"} /\ r \in Request
          /\ UNCHANGED <<post, topic, granted, forums>>
          /\ \/ req' = [req EXCEPT ![s].stage = "settled"]
             \/ req' = [req EXCEPT ![s] = Idle]
        BY <1>3, Tables DEF UpdateNew, UpdateOld, Is
    <2>2. /\ req'[s].stage \in {"idle", "settled"}
          /\ \A o \in Slots \ {s} : req'[o] = req[o]
        BY <2>1, Tables DEF Idle, Request
    <2> QED BY <1>3, <2>1, <2>2 DEF Gone
<1>4. ASSUME NEW t \in Topics, NEW g \in Forums, StartMove(s, t, g), ~Crash(s)
      PROVE  PointersUntouched(s)
    <2>1. /\ r.stage = "idle" /\ UNCHANGED vars /\ "move" \in granted
        BY <1>4 DEF StartMove, Is
    <2>2. req'[s].stage = "moving" /\ \A o \in Slots \ {s} : req'[o] = req[o]
        BY <1>4, Tables DEF StartMove, Idle
    <2> QED BY <1>4, <2>1, <2>2 DEF Gone, vars
<1> QED BY <1>1, <1>2, <1>3, <1>4 DEF MovesOrDies

\* What an administrator allows on the board does not change here.
LEMMA GrantedStays == [WritesNext]_writeVars => granted' = granted
<1>1. ASSUME NEW s \in Slots, Start(s) \/ Proceed(s) \/ Crash(s) PROVE granted' = granted
    BY <1>1 DEF Start, Proceed, Crash, OpenTopic, LoadReply, StartMove, Remove, LoadNew, Save,
           LoadForum, CloseTopic, CommitMove, UpdateNew, UpdateOld, Fail, vars
<1> QED BY <1>1 DEF WritesNext, writeVars, vars

-----------------------------------------------------------------------------
(* First and last posts.                                                   *)

Pointers == \A t \in Topics :
              {topic[t].first, topic[t].last} \subseteq PostsOf(t, post) \cup {None}

\* A topic is closed with the post it was saved with.
PostsInHand == \A s \in Slots : req[s].stage \in {"saved", "counting"}
                                => post[req[s].post].topic = req[s].topic

PointersInv == Never({"deletetopic"}) => Pointers /\ PostsInHand

\* A pointer stays, goes away or is set to a post of the topic.
LEMMA PointersKept ==
    ASSUME WInv, Pointers, PostsStay, WInv',
           \A t \in Topics :
             /\ topic'[t].first \in {topic[t].first} \cup PostsOf(t, post') \cup {None}
             /\ topic'[t].last \in {topic[t].last} \cup PostsOf(t, post') \cup {None}
    PROVE  Pointers'
<1> SUFFICES ASSUME NEW t \in Topics
             PROVE  {topic'[t].first, topic'[t].last} \subseteq PostsOf(t, post') \cup {None}
    BY DEF Pointers
<1>1. PostsOf(t, post) \subseteq PostsOf(t, post')
    BY NullIsNoId DEF PostsOf, PostsStay
<1> QED BY <1>1 DEF Pointers

\* The posts in hand stay; a request that goes on keeps its post.
LEMMA InHandKept ==
    ASSUME WInv, PostsInHand, PostsStay, NEW s \in Slots,
           \A o \in Slots \ {s} : req'[o] = req[o],
           req'[s].stage \in {"saved", "counting"} =>
             \/ post'[req'[s].post].topic = req'[s].topic
             \/ req[s].stage \in {"saved", "counting"}
                /\ req'[s].post = req[s].post /\ req'[s].topic = req[s].topic
    PROVE  PostsInHand'
<1> SUFFICES ASSUME NEW o \in Slots, req'[o].stage \in {"saved", "counting"}
             PROVE  post'[req'[o].post].topic = req'[o].topic
    BY DEF PostsInHand
<1>1. ASSUME req[o].stage \in {"saved", "counting"},
             req'[o].post = req[o].post, req'[o].topic = req[o].topic
      PROVE  post'[req'[o].post].topic = req'[o].topic
    <2>1. req[o].post \in PostIds /\ req[o].topic \in Topics
        BY <1>1 DEF WInv, RequestsSound, RequestSound
    <2>2. post[req[o].post].topic = req[o].topic
        BY <1>1 DEF PostsInHand
    <2> QED BY <1>1, <2>1, <2>2, NullIsNoId DEF PostsStay
<1>2. CASE o = s
    BY <1>1, <1>2
<1>3. CASE o # s
    BY <1>1, <1>3
<1> QED BY <1>2, <1>3

LEMMA PointersStep ==
    ASSUME WInv, WInv', PointersInv, NEW s \in Slots, Start(s) \/ Proceed(s) \/ Crash(s)
    PROVE  PointersInv'
<1>0. CASE ~Never({"deletetopic"})
    <2>1. granted' = granted
        BY DEF Start, Proceed, Crash, OpenTopic, LoadReply, StartMove, Remove, LoadNew, Save,
               LoadForum, CloseTopic, CommitMove, UpdateNew, UpdateOld, Fail, vars
    <2> QED BY <1>0, <2>1 DEF PointersInv, Never
<1>1. CASE Never({"deletetopic"})
    <2> USE <1>1 DEF PointersInv
    <2>1. ASSUME NEW u \in Users, NEW f \in Forums, OpenTopic(s, u, f)
          PROVE  Pointers' /\ PostsInHand'
        <3>1. PostsStay /\ Pointers'
            BY <2>1, TopicOpens, PointersKept DEF PostsStay
        <3>2. PostsInHand'
            BY <2>1, <3>1, TopicOpens, InHandKept
        <3> QED BY <3>1, <3>2
    <2>2. CASE Save(s) /\ ~Gone(req[s].topic)
        <3>1. PostsStay
            BY <2>2, PostSaved DEF PostsStay
        <3>2. Pointers'
            BY <2>2, <3>1, PostSaved, PointersKept DEF PostsOf
        <3>3. PostsInHand'
            <4>1. req'[s] = Idle => req'[s].stage = "idle"
                BY DEF Idle
            <4> QED BY <2>2, <3>1, <4>1, PostSaved, InHandKept
        <3> QED BY <3>2, <3>3
    <2>3. CASE CloseTopic(s) /\ ~Gone(req[s].topic)
        <3>1. PostsStay
            BY <2>3, TopicCloses DEF PostsStay
        <3>2. req[s].post \in PostsOf(req[s].topic, post')
            BY <2>3, TopicCloses DEF PostsInHand, PostsOf
        <3>3. Pointers'
            BY <2>3, <3>1, <3>2, TopicCloses, PointersKept
        <3>4. PostsInHand'
            BY <2>3, <3>1, TopicCloses, InHandKept DEF Idle
        <3> QED BY <3>3, <3>4
    <2>4. CASE \/ LoadNew(s) \/ LoadForum(s)
               \/ \E u \in Users, t \in Topics : LoadReply(s, u, t)
               \/ Save(s) /\ Gone(req[s].topic)
               \/ CloseTopic(s) /\ Gone(req[s].topic)
        <3>1. PostsStay /\ Pointers'
            BY <2>4, RequestSteps, PointersKept DEF PostsStay
        <3>2. PostsInHand'
            <4>1. req'[s] = Idle => req'[s].stage = "idle"
                BY DEF Idle
            <4> QED BY <2>4, <3>1, <4>1, RequestSteps, InHandKept
        <3> QED BY <3>1, <3>2
    <2>5. CASE MovesOrDies(s)
        <3>1. /\ UNCHANGED post /\ req'[s].stage \notin {"saved", "counting"}
              /\ \A o \in Slots \ {s} : req'[o] = req[o]
            BY <2>5, OtherSteps DEF PointersUntouched
        <3>2. \A t \in Topics : topic'[t].first = topic[t].first /\ topic'[t].last = topic[t].last
            BY <2>5, OtherSteps DEF PointersUntouched
        <3>3. PostsStay /\ Pointers'
            BY <3>1, <3>2, PointersKept DEF PostsStay
        <3>4. PostsInHand'
            BY <3>3, <3>1, InHandKept
        <3> QED BY <3>3, <3>4
    <2>6. ASSUME NEW t \in Topics PROVE ~Remove(s, t)
        BY DEF Never, Remove
    <2> QED BY <2>1, <2>2, <2>3, <2>4, <2>5, <2>6
        DEF Start, Proceed, MovesOrDies
<1> QED BY <1>0, <1>1

LEMMA PointersInit == WritesInit => PointersInv
<1> SUFFICES ASSUME WritesInit PROVE Pointers /\ PostsInHand
    BY DEF PointersInv
<1>1. Pointers
    BY DEF WritesInit, Init, BlankTopic, Pointers
<1>2. PostsInHand
    BY DEF WritesInit, Idle, PostsInHand
<1> QED BY <1>1, <1>2

\* Where no topic is deleted, whatever overlaps, fails and dies, the first and the last
\* post of a topic are posts of it.  (The three commits of Topic.save and the replies
\* between them.)
THEOREM PointersStayLive == WritesSpec => []TopicPointersLive
<1>1. PointersInv => TopicPointersLive
    BY DEF PointersInv, Pointers, TopicPointersLive, LiveTopics
<1>2. WInv /\ WInv' /\ PointersInv /\ [WritesNext]_writeVars => PointersInv'
    <2>1. ASSUME PointersInv, UNCHANGED writeVars PROVE PointersInv'
        BY <2>1 DEF writeVars, vars, PointersInv, Pointers, PostsInHand, PostsOf, Never
    <2> QED BY <2>1, PointersStep DEF WritesNext
<1> QED BY <1>1, <1>2, PointersInit, WritesInvariance, PTL DEF WritesSpec

-----------------------------------------------------------------------------
(* Topics left half written.                                               *)

Whole(t) == topic[t].first # None /\ PostsOf(t, post) # {}

\* The request of s created t and goes on to complete it.
Finishing(s, t) ==
    /\ req[s].topic = t /\ req[s].new
    /\ \/ req[s].stage \in {"opened", "loaded"}
       \/ req[s].stage \in {"saved", "counting"} /\ PostsOf(t, post) # {}

NoneAbandoned ==
    \A t \in Topics : ~Gone(t) => Whole(t) \/ \E s \in Slots : Finishing(s, t)

HalfInv == crashes = 0 => NoneAbandoned

\* It is enough that topics stay whole and that s does not abandon one.
LEMMA NotAbandoned ==
    ASSUME NoneAbandoned, NEW s \in Slots,
           \A o \in Slots \ {s} : req'[o] = req[o],
           \A t \in Topics : topic'[t].forum # None =>
             \/ Finishing(s, t)'
             \/ /\ topic[t].forum # None
                /\ topic[t].first # None => topic'[t].first # None
                /\ PostsOf(t, post) # {} => PostsOf(t, post') # {}
                /\ Finishing(s, t) => Whole(t)'
    PROVE  NoneAbandoned'
<1> SUFFICES ASSUME NEW t \in Topics, topic'[t].forum # None, ~Finishing(s, t)'
             PROVE  Whole(t)' \/ \E o \in Slots : Finishing(o, t)'
    BY DEF NoneAbandoned, Gone
<1>1. /\ topic[t].forum # None
      /\ topic[t].first # None => topic'[t].first # None
      /\ PostsOf(t, post) # {} => PostsOf(t, post') # {}
      /\ Finishing(s, t) => Whole(t)'
    OBVIOUS
<1>2. CASE Whole(t)
    BY <1>1, <1>2 DEF Whole
<1>3. ASSUME NEW o \in Slots, Finishing(o, t) PROVE Whole(t)' \/ Finishing(o, t)'
    BY <1>1, <1>3 DEF Finishing
<1> QED BY <1>1, <1>2, <1>3 DEF NoneAbandoned, Gone

LEMMA HalfStep ==
    ASSUME WInv, NoneAbandoned, NEW s \in Slots, Start(s) \/ Proceed(s)
    PROVE  NoneAbandoned'
<1>0. ~Crash(s)
    BY WritesBounds DEF Start, Proceed, Crash
<1>1. ASSUME NEW u \in Users, NEW f \in Forums, OpenTopic(s, u, f)
      PROVE  NoneAbandoned'
    <2>1. PICK t \in Topics :
            /\ \A o \in Topics \ {t} : topic'[o] = topic[o]
            /\ req[s].stage = "idle" /\ req'[s].stage = "opened"
            /\ req'[s].new /\ req'[s].topic = t
            /\ \A o \in Slots \ {s} : req'[o] = req[o]
            /\ UNCHANGED post
        BY <1>1, TopicOpens
    <2>2. Finishing(s, t)'
        BY <2>1 DEF Finishing
    <2>3. \A o \in Topics : ~Finishing(s, o)
        BY <2>1 DEF Finishing
    <2> QED BY <2>1, <2>2, <2>3, NotAbandoned
<1>2. CASE Save(s) /\ ~Gone(req[s].topic)
    <2>1. PICK p \in PostIds :
            /\ post[p].topic = None /\ post'[p].topic = req[s].topic
            /\ \A q \in PostIds \ {p} : post'[q] = post[q]
            /\ topic'[req[s].topic].forum = topic[req[s].topic].forum
            /\ topic'[req[s].topic].first = topic[req[s].topic].first
            /\ \A t \in Topics \ {req[s].topic} : topic'[t] = topic[t]
            /\ \/ /\ req[s].new /\ req'[s].stage = "saved" /\ req'[s].new
                  /\ req'[s].topic = req[s].topic
               \/ ~req[s].new /\ req'[s] = Idle
        BY <1>2, PostSaved
    <2>2. \A o \in Slots \ {s} : req'[o] = req[o]
        BY <1>2, PostSaved
    <2>3. p \in PostsOf(req[s].topic, post')
        BY <2>1 DEF PostsOf
    <2>4. ASSUME NEW t \in Topics, Finishing(s, t) PROVE Finishing(s, t)'
        BY <2>1, <2>3, <2>4 DEF Finishing
    <2>5. ASSUME NEW t \in Topics
          PROVE  /\ topic'[t].forum = topic[t].forum /\ topic'[t].first = topic[t].first
                 /\ PostsOf(t, post) \subseteq PostsOf(t, post')
                 /\ Finishing(s, t) => Finishing(s, t)'
        <3>1. topic'[t].forum = topic[t].forum /\ topic'[t].first = topic[t].first
            BY <2>1
        <3>2. PostsOf(t, post) \subseteq PostsOf(t, post')
            BY <2>1, NullIsNoId DEF PostsOf
        <3> QED BY <2>4, <3>1, <3>2
    <2> QED BY <2>2, <2>5, NotAbandoned
<1>3. CASE CloseTopic(s) /\ ~Gone(req[s].topic)
    <2>1. /\ req[s].stage = "counting" /\ req[s].topic \in Topics
          /\ req[s].post \in PostIds
          /\ topic'[req[s].topic].forum = topic[req[s].topic].forum
          /\ topic'[req[s].topic].first = req[s].post
          /\ \A t \in Topics \ {req[s].topic} : topic'[t] = topic[t]
          /\ \A o \in Slots \ {s} : req'[o] = req[o]
          /\ UNCHANGED post
        BY <1>3, TopicCloses
    <2>2. ASSUME NEW t \in Topics, Finishing(s, t) PROVE Whole(t)'
        BY <2>1, <2>2, NullIsNoId DEF Finishing, Whole
    <2>3. \A t \in Topics : topic'[t].forum = topic[t].forum
        BY <2>1
    <2>4. \A t \in Topics : topic[t].first # None => topic'[t].first # None
        BY <2>1, NullIsNoId
    <2> QED BY <2>1, <2>2, <2>3, <2>4, NotAbandoned
<1>4. CASE \/ LoadNew(s) \/ LoadForum(s)
           \/ \E u \in Users, t \in Topics : LoadReply(s, u, t)
           \/ Save(s) /\ Gone(req[s].topic)
           \/ CloseTopic(s) /\ Gone(req[s].topic)
    <2>1. /\ UNCHANGED <<post, topic>>
          /\ \A o \in Slots \ {s} : req'[o] = req[o]
        BY <1>4, RequestSteps
    <2>2. ASSUME NEW t \in Topics, Finishing(s, t), ~Gone(t) PROVE Finishing(s, t)'
        <3>1. \/ req[s].topic \in Topics /\ Gone(req[s].topic)
              \/ /\ req[s].stage \in {"idle", "opened"} /\ req'[s].stage = "loaded"
                 /\ req[s].stage = "opened" =>
                      req'[s].topic = req[s].topic /\ req'[s].new = req[s].new
              \/ /\ req[s].stage = "saved" /\ req'[s].stage = "counting"
                 /\ req'[s].topic = req[s].topic /\ req'[s].new = req[s].new
            BY <1>4, RequestSteps
        <3> QED BY <2>1, <2>2, <3>1 DEF Finishing
    <2> QED BY <2>1, <2>2, NotAbandoned DEF Gone
<1>5. CASE MovesOrDies(s)
    <2>1. /\ UNCHANGED post
          /\ \A o \in Slots \ {s} : req'[o] = req[o]
          /\ req[s].stage \in {"idle", "moving", "moved", "settled"}
        BY <1>0, <1>5, OtherSteps DEF PointersUntouched
    <2>2. \A t \in Topics :
            /\ topic'[t].first = topic[t].first
            /\ topic'[t].forum # None => topic[t].forum # None
        BY <1>5, OtherSteps DEF PointersUntouched
    <2>3. \A t \in Topics : ~Finishing(s, t)
        BY <2>1 DEF Finishing
    <2> QED BY <2>1, <2>2, <2>3, NotAbandoned
<1>6. ASSUME NEW t \in Topics, Remove(s, t) PROVE NoneAbandoned'
    <2>1. /\ req[s].stage = "idle" /\ UNCHANGED req
          /\ post' = WithoutTopics({t}, post)
          /\ topic' = [topic EXCEPT ![t] = BlankTopic]
        BY <1>6 DEF Remove, Is
    <2>2. topic'[t].forum = None
        BY <2>1, Tables DEF BlankTopic
    <2>3. \A o \in Topics \ {t} : topic'[o] = topic[o]
        BY <2>1, Tables
    <2>4. \A o \in Topics \ {t} : PostsOf(o, post') = PostsOf(o, post)
        BY <2>1, NullIsNoId DEF PostsOf, WithoutTopics, BlankPost
    <2>5. \A o \in Topics : ~Finishing(s, o)
        BY <2>1 DEF Finishing
    <2> QED BY <2>1, <2>2, <2>3, <2>4, <2>5, NotAbandoned
<1> QED BY <1>1, <1>2, <1>3, <1>4, <1>5, <1>6 DEF Start, Proceed, MovesOrDies

\* As long as no worker died, a topic without a first post is one that a request goes on
\* to complete: failed commits, overlaps and deletions abandon none.  (Topic.save.)
THEOREM HalfOnlyByCrash == WritesSpec => []OnlyCrashLeavesHalf
<1>1. WritesInit => HalfInv
    BY DEF WritesInit, Init, BlankTopic, Gone, HalfInv, NoneAbandoned
<1>2. WInv /\ HalfInv /\ [WritesNext]_writeVars => HalfInv'
    <2> SUFFICES ASSUME WInv, HalfInv, [WritesNext]_writeVars, crashes' = 0
                 PROVE  NoneAbandoned'
        BY DEF HalfInv
    <2>1. ASSUME NEW s \in Slots, Start(s) \/ Proceed(s) PROVE NoneAbandoned'
        <3>1. crashes = 0
            BY <2>1 DEF Start, Proceed
        <3> QED BY <2>1, <3>1, HalfStep DEF HalfInv
    <2>2. ASSUME NEW s \in Slots PROVE ~Crash(s)
        BY WritesBounds DEF Crash
    <2>3. ASSUME UNCHANGED writeVars PROVE NoneAbandoned'
        BY <2>3 DEF writeVars, vars, HalfInv, NoneAbandoned, Gone, Whole, Finishing, PostsOf
    <2> QED BY <2>1, <2>2, <2>3 DEF WritesNext
<1>3. HalfInv => OnlyCrashLeavesHalf
    BY DEF HalfInv, NoneAbandoned, OnlyCrashLeavesHalf, Idling, LiveTopics, Gone, Whole,
           Finishing
<1> QED BY <1>1, <1>2, <1>3, WritesInvariance, PTL DEF WritesSpec

-----------------------------------------------------------------------------
(* The last post of a forum.                                               *)

NewestKept ==
    \A f \in forums :
        forum[f].last = IF PostsIn(f, post, topic) = {} THEN None
                        ELSE Newest(PostsIn(f, post, topic))

NoMoves == \A s \in Slots : req[s].stage \notin {"moving", "moved", "settled"}

\* The forum a request has loaded is the one its topic is in.
AtHome == \A s \in Slots : req[s].stage = "loaded"
                           => topic[req[s].topic].forum = req[s].home

NewestInv == Never({"move", "deletetopic"}) => NewestKept /\ NoMoves /\ AtHome

\* Posts stay in their forum when the topics that have posts do.
LEMMA ForumsKeepPosts ==
    ASSUME WInv, UNCHANGED <<post, forums>>, NewestKept,
           \A t \in Topics : ~Gone(t) => topic'[t].forum = topic[t].forum,
           \A f \in Forums : forum'[f].last = forum[f].last
    PROVE  NewestKept'
<1>1. ASSUME NEW q \in PostIds, post[q].topic # None
      PROVE  topic'[post[q].topic].forum = topic[post[q].topic].forum
    <2>1. post[q].topic \in Topics /\ ~Gone(post[q].topic)
        BY <1>1, Tables DEF PostRow, WInv, PostsHaveTopics
    <2> QED BY <2>1
<1>2. \A f : PostsIn(f, post', topic') = PostsIn(f, post, topic)
    BY <1>1 DEF PostsIn
<1> QED BY <1>2, Tables DEF NewestKept

\* Where no topic goes or moves, the requests loaded stay at home.
LEMMA HomesStay ==
    ASSUME WInv, AtHome, NEW s \in Slots,
           \A o \in Slots \ {s} : req'[o] = req[o],
           \A t \in Topics : ~Gone(t) => topic'[t].forum = topic[t].forum,
           req'[s].stage = "loaded" => topic'[req'[s].topic].forum = req'[s].home
    PROVE  AtHome'
<1> SUFFICES ASSUME NEW o \in Slots, o # s, req[o].stage = "loaded"
             PROVE  topic'[req[o].topic].forum = req[o].home
    BY DEF AtHome
<1>1. req[o].topic \in Topics /\ req[o].home \in Forums
    BY DEF WInv, RequestsSound, RequestSound
<1> QED BY <1>1, NullIsNoId DEF AtHome, Gone

\* The new post has the largest id.
LEMMA SavedIsNewest ==
    ASSUME WInv, NewestKept, AtHome, NEW s \in Slots, Save(s), ~Gone(req[s].topic)
    PROVE  NewestKept'
<1> DEFINE r == req[s]
<1>1. /\ r.stage = "loaded" /\ r.topic \in Topics /\ r.home \in Forums
      /\ forums' = forums
    BY PostSaved
<1>2. PICK p \in PostIds :
        /\ \A q \in PostIds : post[q].topic # None => q < p
        /\ post[p].topic = None /\ post'[p].topic = r.topic
        /\ \A q \in PostIds \ {p} : post'[q] = post[q]
        /\ topic'[r.topic].forum = topic[r.topic].forum
        /\ \A t \in Topics \ {r.topic} : topic'[t] = topic[t]
        /\ forum'[r.home].last = p
        /\ \A f \in Forums \ {r.home} : forum'[f] = forum[f]
    BY PostSaved
<1>3. topic[r.topic].forum = r.home
    BY <1>1 DEF AtHome
<1> HIDE DEF r
<1>4. \A t \in Topics : topic'[t].forum = topic[t].forum
    BY <1>2
<1>5. ASSUME NEW q \in PostIds \ {p}, NEW f
      PROVE  q \in PostsIn(f, post', topic') <=> q \in PostsIn(f, post, topic)
    <2>1. post'[q] = post[q] /\ (post[q].topic = None \/ post[q].topic \in Topics)
        BY <1>2, Tables DEF PostRow
    <2> QED BY <1>4, <2>1 DEF PostsIn
<1>6. \A f : p \in PostsIn(f, post', topic') <=> f = r.home
    BY <1>1, <1>2, <1>3, <1>4, NullIsNoId DEF PostsIn
<1>7. \A f : p \notin PostsIn(f, post, topic)
    BY <1>2 DEF PostsIn
<1>8. \A f : /\ PostsIn(f, post, topic) \subseteq PostIds
            /\ PostsIn(f, post', topic') \subseteq PostIds
    BY DEF PostsIn
<1>9. ASSUME NEW f \in forums, f # r.home
      PROVE  forum'[f].last = IF PostsIn(f, post', topic') = {} THEN None
                              ELSE Newest(PostsIn(f, post', topic'))
    <2>1. PostsIn(f, post', topic') = PostsIn(f, post, topic)
        BY <1>5, <1>6, <1>7, <1>8, <1>9
    <2>2. forum'[f] = forum[f]
        BY <1>2, <1>9, Tables
    <2> QED BY <2>1, <2>2 DEF NewestKept
<1>10. p = Newest(PostsIn(r.home, post', topic')) /\ PostsIn(r.home, post', topic') # {}
    <2> DEFINE S == PostsIn(r.home, post', topic')
    <2>1. p \in S /\ S \in SUBSET PostIds
        BY <1>6, <1>8
    <2>2. \A q \in S : q # p => q < p
        BY <1>2, <1>5, <1>8 DEF PostsIn
    <2> HIDE DEF S
    <2>3. Newest(S) \in S /\ p <= Newest(S)
        BY <2>1, NewestIsLargest
    <2>4. \A q \in PostIds : q \in Int
        BY BoundsAssumption DEF PostIds
    <2>5. ASSUME Newest(S) # p PROVE FALSE
        <3>1. Newest(S) < p
            BY <2>2, <2>3, <2>5
        <3> QED BY <2>1, <2>3, <2>4, <3>1
    <2> QED BY <2>1, <2>5 DEF S
<1> QED BY <1>1, <1>2, <1>9, <1>10 DEF NewestKept

LEMMA NewestStep ==
    ASSUME WInv, Never({"move", "deletetopic"}), NewestKept, NoMoves, AtHome,
           NEW s \in Slots, Start(s) \/ Proceed(s) \/ Crash(s)
    PROVE  NewestKept' /\ NoMoves' /\ AtHome'
<1>1. ASSUME NEW u \in Users, NEW f \in Forums, OpenTopic(s, u, f)
      PROVE  NewestKept' /\ NoMoves' /\ AtHome'
    <2>1. /\ \A t \in Topics : ~Gone(t) => topic'[t].forum = topic[t].forum
          /\ \A o \in Slots \ {s} : req'[o] = req[o]
          /\ req'[s].stage = "opened" /\ UNCHANGED <<post, forum, forums>>
        BY <1>1, TopicOpens
    <2>2. NewestKept'
        BY <2>1, ForumsKeepPosts
    <2>3. NoMoves'
        BY <2>1 DEF NoMoves
    <2>4. AtHome'
        BY <2>1, HomesStay
    <2> QED BY <2>2, <2>3, <2>4
<1>2. CASE Save(s) /\ ~Gone(req[s].topic)
    <2>1. /\ \A t \in Topics : topic'[t].forum = topic[t].forum
          /\ \A o \in Slots \ {s} : req'[o] = req[o]
          /\ req'[s].stage \in {"saved", "idle"}
        BY <1>2, PostSaved DEF Idle
    <2>2. NewestKept'
        BY <1>2, SavedIsNewest
    <2>3. NoMoves'
        BY <2>1 DEF NoMoves
    <2>4. AtHome'
        BY <2>1, HomesStay
    <2> QED BY <2>2, <2>3, <2>4
<1>3. CASE CloseTopic(s) /\ ~Gone(req[s].topic)
    <2>1. /\ \A t \in Topics : topic'[t].forum = topic[t].forum
          /\ \A f \in Forums : forum'[f].last = forum[f].last
          /\ \A o \in Slots \ {s} : req'[o] = req[o]
          /\ req'[s].stage = "idle" /\ UNCHANGED <<post, forums>>
        BY <1>3, TopicCloses DEF Idle
    <2>2. NewestKept'
        BY <2>1, ForumsKeepPosts
    <2>3. NoMoves'
        BY <2>1 DEF NoMoves
    <2>4. AtHome'
        BY <2>1, HomesStay
    <2> QED BY <2>2, <2>3, <2>4
<1>4. CASE \/ LoadNew(s) \/ LoadForum(s)
           \/ \E u \in Users, t \in Topics : LoadReply(s, u, t)
           \/ Save(s) /\ Gone(req[s].topic)
           \/ CloseTopic(s) /\ Gone(req[s].topic)
    <2>1. /\ \A o \in Slots \ {s} : req'[o] = req[o]
          /\ UNCHANGED <<post, topic, forum, forums>>
        BY <1>4, RequestSteps
    <2>2. /\ req'[s].stage \in {"idle", "loaded", "counting"}
          /\ req'[s].stage = "loaded" => topic[req'[s].topic].forum = req'[s].home
        BY <1>4, RequestSteps DEF Idle
    <2>3. NewestKept'
        BY <2>1, ForumsKeepPosts
    <2>4. NoMoves'
        BY <2>1, <2>2 DEF NoMoves
    <2>5. AtHome'
        BY <2>1, <2>2, HomesStay
    <2> QED BY <2>3, <2>4, <2>5
<1>5. CASE MovesOrDies(s)
    <2>1. /\ \A o \in Slots \ {s} : req'[o] = req[o]
          /\ UNCHANGED <<post, topic, forum, forums>>
          /\ req'[s].stage = "idle"
        BY <1>5, OtherSteps DEF PointersUntouched, NoMoves, Never
    <2>2. NewestKept'
        BY <2>1, ForumsKeepPosts
    <2>3. NoMoves'
        BY <2>1 DEF NoMoves
    <2>4. AtHome'
        BY <2>1, HomesStay
    <2> QED BY <2>2, <2>3, <2>4
<1>6. ASSUME NEW t \in Topics PROVE ~Remove(s, t)
    BY DEF Never, Remove
<1> QED BY <1>1, <1>2, <1>3, <1>4, <1>5, <1>6 DEF Start, Proceed, MovesOrDies

LEMMA NewestInvariance == WritesSpec => []NewestInv
<1>1. WritesInit => NewestInv
    <2> SUFFICES ASSUME WritesInit PROVE NewestKept /\ NoMoves /\ AtHome
        BY DEF NewestInv
    <2>1. \A f : PostsIn(f, post, topic) = {}
        BY DEF WritesInit, Init, PostsIn, BlankPost
    <2>2. NewestKept
        BY <2>1 DEF WritesInit, Init, NewestKept, BlankForum
    <2>3. \A s \in Slots : req[s].stage = "idle"
        BY DEF WritesInit, Idle
    <2> QED BY <2>2, <2>3 DEF NoMoves, AtHome
<1>2. WInv /\ NewestInv /\ [WritesNext]_writeVars => NewestInv'
    <2> SUFFICES ASSUME WInv, NewestInv, [WritesNext]_writeVars,
                        Never({"move", "deletetopic"})'
                 PROVE  (NewestKept /\ NoMoves /\ AtHome)'
        BY DEF NewestInv
    <2>1. Never({"move", "deletetopic"})
        BY GrantedStays DEF Never
    <2>2. NewestKept /\ NoMoves /\ AtHome
        BY <2>1 DEF NewestInv
    <2>3. ASSUME UNCHANGED writeVars PROVE (NewestKept /\ NoMoves /\ AtHome)'
        BY <2>2, <2>3 DEF writeVars, vars, NewestKept, NoMoves, AtHome, PostsIn
    <2>4. ASSUME NEW s \in Slots, Start(s) \/ Proceed(s) \/ Crash(s)
          PROVE  (NewestKept /\ NoMoves /\ AtHome)'
        BY <2>1, <2>2, <2>4, NewestStep
    <2> QED BY <2>3, <2>4 DEF WritesNext
<1> QED BY <1>1, <1>2, WritesInvariance, PTL DEF WritesSpec

\* However requests overlap, where topics stay in their place a forum names the post
\* committed last.  (The dates and rows Post.save has loaded when it commits.)
THEOREM NewestStaysKnown == WritesSpec => []OverlapKeepsNewest
<1>1. NewestInv => OverlapKeepsNewest
    BY DEF NewestInv, NewestKept, OverlapKeepsNewest
<1> QED BY <1>1, NewestInvariance, PTL
=============================================================================
