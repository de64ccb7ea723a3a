# Verification of flaskbb

TLA+ models of [flaskbb](https://github.com/flaskbb/flaskbb), a forum written in
Python on Flask and SQLAlchemy with a little JavaScript in the browser, with TLC runs on small instances and TLAPS proofs.
Every definition is translated from the code; `PROJECT.json` ("map") names the lines
each one stands for. Paths below are relative to `flaskbb/` in the repository, those
of the front end to `flaskbb/themes/aurora/src/app/`.

    tlc -config ContentStructure.cfg MCForumContent     # one run
    tlapm ForumContentProofs.tla                        # one module of proofs

## 1. The system

A Flask application in front of a relational database (SQLite by default). Requests
are served by several worker processes, perhaps with threads; they share the database
and nothing else, the default cache (`CACHE_TYPE = "SimpleCache"`) being a dictionary
of each process. There are no background threads of the program's own: mails go to
Celery. So the state that matters is in the tables, in the caches and in the objects a
request has loaded, and what is hard is that nearly everything a page shows is a copy
of something else, kept up to date by hand. In the browser two parts have state of their
own: the lists of the management panel, which are changed in place by the answers to
requests, and the editor.

| Component | State | Operations | Interacts with | What makes it correct |
|---|---|---|---|---|
| Content and figures (`forum/models.py`) | tables posts, topics, forums, categories; last-post pointers and counters in topics, forums, users | save, delete, hide, unhide, move, merge of cascades, recounts | every view; users' `post_count` | no orphan rows; pointers at the newest visible post; counters equal to what they count |
| Concurrent requests on it | rows loaded by each request; the commits inside `Topic.save`, `Post.save`, `Topic.move` | the same, commit by commit; a worker dies | the database only | the newest post known, no count ahead, no half-made topic but by a crash, every request ends |
| Read tracker (`forum/models.py`, `utils/helpers.py`) | topicsread, forumsread | ViewTopic, MarkRead, move, deletion | content; the filters `topic_is_unread`, `forum_is_unread` | unread exactly what was not shown |
| Topic tracking (`user/models.py`) | topictracker | track, untrack | content | rows of existing topics |
| Reports | reports | report, mark read, delete | content | reports of existing posts |
| Groups and permissions (`user/models.py`, `management/views.py`) | users.primary_group_id, groups_users, groups; cache entries of `get_groups`, `get_permissions` per process | ban, unban, edit user, edit group, register, delete; every permission check | requirements, all views | a withdrawn right is gone within a known time |
| Settings (`management/models.py`) | settings; one cache entry per process | update, as_dict | everything | the same |
| Authentication (`auth/services`) | login_attempts, last_failed_login, sessions | login, reauth, logout, hook chains | users, plugins | failures counted, blocked users kept out |
| Tokens (`tokens`, `auth/services`) | signed tokens with an hour to live; activated, password | request and redeem activation, reset | mail, accounts | a token acts on the account it was made for |
| Registration, account changes | users.username, users.email | register, change email, password, details | authentication, settings | names and addresses unique |
| Plugin registry (`plugins`) | plugin_registry, plugin_store; loaded modules | enable, disable, install, uninstall, restart | hooks everywhere | installed plugins have their settings once |
| Requirements (`utils/requirements.py`) | none | Can*, Is* | permissions | templates and views agree |
| Management lists in the browser (`flaskbb.js`, `confirm_modal.js`) | rows, check boxes, the forms in the rows, one dialog with its listeners, requests and answers under way | check, bulk action, press a button, Cancel, Yes, answers | the endpoints of `management/views.py` | only what was confirmed is sent, once; a row vanishes only when what it shows is gone; the outcome is told |
| Post editor in the browser (`editor.js`, `emoji.js`, `flaskbb.js`) | text, preview, list of suggestions, quotes under way | type, format, preview, choose, quote | `RawPost` of `forum/views.py`, textcomplete | preview and suggestions belong to the text |
| Search, mail, online list, markup, themes, translations, CLI, migrations | files and external services | | | not modelled, see 8 |

The hard behaviours, each listed at its line under "hazards" in `PROJECT.json`:

* derived columns patched by each operation with a query of its own, on a session whose
  pending changes are, or are not, flushed before it;
* ids that SQLite hands out again, dangling references it does not refuse, and rows
  that survive what they belong to;
* requests in several processes: cache entries filled with what was read before a
  change, entries dropped before or after the commit;
* requests that commit more than once, with increments computed on loaded rows;
* changes made after the last commit, which are lost without a word;
* answers that arrive late, out of order or never, at a page that has changed in between;
* listeners that outlive the dialog they were added for, a query that never ends.

## 2. The modules

| Module | What it is |
|---|---|
| `ForumContent` | content and figures: one action per request, 13 requests |
| `ForumContentProofs` | its inductive invariant and theorems |
| `ContentFiguresProofs` | EXTENDS `ForumContentProofs`: the counters and the last post of a forum are exact |
| `ReadTracker` | EXTENDS `ForumContent`: what a reader has read |
| `ReadTrackerProofs` | EXTENDS `ContentFiguresProofs`: the tracker's invariant, what its pages show as read and unread; it implements the content |
| `PermissionCache` | groups, permissions and the two memoised methods in several processes |
| `PermissionCacheProofs` | the bound on how late a withdrawn right is granted; a worker's own changes |
| `TopicWrites` | EXTENDS `ForumContent`: its writing requests commit by commit, in several workers, which may die; one worker implements `ForumContent` |
| `TopicWritesProofs` | the types and what a request has in hand at each stage; pointers, half-made topics and the newest post under any overlap |
| `TopicFiguresProofs` | EXTENDS `TopicWritesProofs`: no figure runs ahead of what it counts; the figures of one worker that dies; one that does not implements `ForumContent` |
| `ManagementPage` | a management list in the browser, its dialog, its requests and the server they reach |
| `ManagementPageProofs` | its inductive invariant and theorems |
| `PostEditor` | the editor in the browser: text, preview, suggestions, quotes |
| `PostEditorProofs` | its inductive invariant and theorems |
| `MC*` | instances for TLC |

`TopicWrites` and `ReadTracker` each build on `ForumContent`; the other three
stand alone, since they share nothing with it but the requests' outcomes.

### 2.1 ForumContent

Rows are records in `post`, `topic`, `forum`; a row that does not exist is the blank one.
`tally` is `users.post_count`, `clock` the date of the latest post (dates are only ever
compared, so the number of posts written so far serves as one). An action is a request
that runs to its last commit: `NewTopic` is `Topic.save` with the `Post.save` in it,
`DeletePost` chooses between `Post.delete` of a reply and `Topic.delete` as the code
does, and so on. The helpers have the names of the methods (`FixPostCounts`,
`UpdateLastPost`, `RemoveTopicFromForum`, ...) and take the tables their query runs on
as parameters `P` and `T`, since the order of change, flush and query is where they could
go wrong.

* Post ids are numbers, because `Topic.first_post` is the oldest and SQLite's next id is the largest
  plus one (`NextId`): an id comes back after the newest row was deleted. Topic ids are
  never compared and any free one is taken.
* `user` in a row is the user name stored in it; the foreign key is NULL once the
  account is deleted, which is when the name is not in `users`. A request that would then
  reach `self.user.id` fails and is rolled back: it is no step.
* A query without ORDER BY (`_restore_post_to_topic`, models.py:458) has every outcome
  the rows allow (`FoundNewest`).
* `granted` is the set of requests anyone on this board has the permission for. It is
  chosen in the initial state and never changes, so that a property can say on which
  boards it holds: `Never({"makehidden"}) => PostCountExact`. `Boards` is the set of
  boards an instance tries.

### 2.2 ReadTracker

One reader on top of the content (rows of different readers never meet). `topicsRead[t]`
and `forumsRead[f]` are his rows; `seen[t]` is history, the date at which he was last
shown everything in t. `ViewTopic` is `ViewTopic.get` with `Topic.update_read` and
`Forum.update_read`, `MarkForum` and `MarkAll` the two forms of `MarkRead.post`, and
`Move` a move that says what becomes of the topic's rows: they are deleted after the
last commit of `Topic.move`, so the deletion is committed only with the next topic the
same request moves. All other requests are those of `ForumContent`, with the reader's rows
unchanged: SQLite does not run the `ON DELETE CASCADE` of their foreign keys, and the
object layer has no relationship to them. The condition under which a
multi-move commits the deletion is over-approximated (any other movable topic may be the
next one). `TRACKER_LENGTH` is measured in posts. The reader keeps his account.

### 2.3 PermissionCache

`req` holds the requests, in slots of worker processes (`workerOf`, any way of spreading
two slots over two processes is tried: a process with two threads, or two processes). A
request goes through its steps one at a time, other requests in between: it loads the user with his
primary group, looks for the entry of `get_permissions`, then for that of `get_groups`,
queries the secondary groups, stores one entry, then the other; ban and unban go on to commit a new primary group and to drop the
two entries, editing a user drops them first and commits then. Entries live for `Timeout`
ticks. `lastHeld` and `lastBy` are history. The clock stops at `MaxTime`, a bound of the runs
only: the theorems hold for every value of it.

`MaxRequest` is an assumption about the deployment: no request takes longer. Without
one nothing bounds how old the user row is that a request stores, and
no bound on stale rights holds. WSGI servers kill a request after a timeout of this kind
(gunicorn after 30 s, against a cache timeout of 60 s in the default configuration).

### 2.4 TopicWrites

`ForumContent` runs each request to its end in one step. Here the requests that commit
more than once or increment what they have loaded are taken apart. `workers` is how many processes
there are (any non-empty subset of `Slots`); `req[s]` is what worker s works on: its stage, its arguments,
what it has created and the columns it has loaded.

| Stage | The request is | Next |
|---|---|---|
| idle | not there | `OpenTopic`, `LoadReply`, `StartMove`, `Remove` |
| opened | in `Topic.save` after the commit of the row (models.py:825) | `LoadNew` |
| loaded | in `Post.save` with the rows it increments (292-312) | `Save`, its commit |
| saved, counting | in `Topic.save` after the commit of the post (834), with the forum loaded | `LoadForum`, `CloseTopic` |
| moving | in `Topic.move` with topic and both forums loaded (762-776) | `CommitMove` |
| moved, settled | in `Topic.move` between its last commits (778-783) | `UpdateNew`, `UpdateOld` |

* A counter is written as the loaded value plus one; a column set to the value it was loaded with
  is not written (`Written`), which is how SQLAlchemy makes its UPDATE.
* A request whose row is gone at the commit fails and is rolled back (`Fail`).
* Loading several rows is one step. SQLite allows one writer at a time, so a commit is one, too.
* `Remove` is `Topic.delete` in one step by an idle worker. Hiding, and deleting forums and
  accounts, are not interleaved: they recount instead of incrementing, and `ForumContent` has them.
* `Crash` loses what a worker had not committed; it is possible at every stage.

`Content` is the refinement: `ForumContent` with a new topic hidden from view until its first post
is committed, and from then on, like a moved topic, seen as if the rest of the request were done.

### 2.5 ManagementPage

One page with its rows (`shown`, `checked`, and `action`, what the form with the changing button
of each row would do), the dialog (`phase`), the asks made so far and the `listeners` of its button
Yes, requests on the `wire`, `answers`, and the `account` behind each row on the server. `Execute`
is `BulkActions.execute` with `confirm` (flaskbb.js:46-84), `Press` a row's button with
`data-bs-toggle` (confirm_modal.js), `Yes` the click that runs every listener, `Serve` the endpoint
with its decorators and its answer, `Receive` the callback of `send_data` (86-122), `Fail` a
request that dies before, while or after the server works on it. `PageKind` tells the lists apart
(users, banned users, reports, groups).

Accounts, groups and reports are ids with three states. After `left` nothing is followed:
the response to a form has replaced the page. Bootstrap's dialog is modelled by how this code uses
it: showing it does nothing while it is open, hiding it does nothing while it fades, so that the
button Yes can be clicked while the dialog fades in or out, and a key held down on the button behind it
presses that again while it opens. Boxes are clicked only while an ask can follow; this
leaves out no behaviour of the properties, which are about asks.

### 2.6 PostEditor

Of the text we keep which quote it begins with, how much was written since, the emoji put in last, the
term after a colon at its end, and whether the end is inside of code: what the strategy of
editor.js (77-106) looks at and what a late answer can destroy. The cursor is at the end.
`Emojis` is the table of emoji.js as a sequence of names, `Finds` which name contains which term.
`Trigger` and `Replace` are textcomplete, external, as this code uses it: one query at a time,
the callback with all rows, the first five rendered, the text matched anew when a row is chosen. `Quote`,
`Answer` and `Fail` are the quote buttons (flaskbb.js:185-209); two clicks may
be unanswered at a time. Deleting what was typed and moving the cursor are left out.
`Format` is a button of the toolbar, a package that is not in the repository. Under the preview
editor.js (24-28) only gives the buttons the class `disabled`; that this stops them, for the keyboard as well as
for the mouse, is an assumption about the package and the style sheet, on which `PreviewMissesOnly` rests.

## 3. What the runs check

All runs finish within four minutes with two workers, most of them in seconds.

| Run | Instance | Shows |
|---|---|---|
| `content_structure` | one board where anyone may do anything; 1 user, 2 forums in a category each, 2 topics, 3 posts | `TypeOK`, `NoOrphans`, `FirstPostMirrorsTopic`, `LastPostInTopic`, `ForumNotForgotten`: together the inductive invariant of the proofs |
| `content_figures` | four boards, 2 users, 2 forums, 2 topics, 3 posts | which figures stay exact under which requests (below) |
| `read_marks` | five boards, 1 user, 1 reader, 2 forums, 2 topics (3 on one board), 3 posts, a tracker of 1 post | the tracker against what the reader was shown |
| `permission_bounds` | 2 slots over 2 processes, 1 name, 2 groups, timeout 1, requests of up to 1 tick, 3 ticks | `NoLateGrant`, `OwnChangesSeen` |
| `topic_writes` | three boards, up to 2 workers, 2 users, 2 forums, 2 topics, 3 requests, 1 crash | what overlap and crashes do to topics and figures; that requests end; that one worker implements `ForumContent` |
| `management_page` | lists of users, reports and groups; 2 rows, one of them spared or standard; 2 asks, 1 change from elsewhere | what the dialog sends and what answers do to the page |
| `post_editor` | 7 emojis, 5 terms, 2 clicks on quote buttons, 2 words | preview, suggestions and quotes against the text |

Two forums are needed for moves, two topics for a forum to fall back on another topic,
three posts for a topic with a first, a second last and a last post: every helper
distinguishes at most these. Three requests are two that overlap and one that finds what they
left, and one crash is needed for a half-made topic; with a fourth request safety and refinement
hold as well, in a run too long to repeat each time. Two asks are the one that is confirmed and
one that waits beside it, two rows the ones an answer names and one it does not; six of the emojis are more than
the five that are rendered, with one the first terms do not find. A second author matters for the counters only. Three ticks
exceed `Window` = 2 in `permission_bounds`, so a right that is granted too late would
be granted within the run, and with a window of one tick less the run fails. Three topics are
needed for one that has grown too old next to a newer one in its forum that was opened, with the post that
made both old somewhere else; `read_marks` has them on the board where nothing is taken away (`MCTopicsBound`).

`content_structure`: the type invariant says among the rest that `topics.post_count` never gets below
zero, which the counters of forums do on some boards (4): topics are recounted, forums are not always.

`content_figures`:

* `UserCountKept`: `users.post_count` is exact unless a category is deleted, or a forum
  on a board with hiding;
* `TopicCountKept`: `forums.topic_count` is exact unless hidden topics are moved;
* `PostCountKept`, `RepliesCountKept`: `forums.post_count` and `topics.post_count` are exact
  where nothing is hidden;
* `ForumShowsNewestKept`: the forum shows its newest post, with its author and date,
  where no single post is hidden or deleted.

`read_marks`:

* `RowsSinceCleared`: a row is later than the last clearing of the forum it names;
* `UnseenIsUnreadKept`: a recent post the reader was not shown marks its topic unread, also when
  the topic has taken over the id and the row of a deleted one (no moves, no hiding, no
  deletion of single posts);
* `ReadForumHasNoUnread`: a forum shown as read has no unread topic, where nothing is
  moved or deleted and there are no replies that can be hidden (see 4);
* `UnreadForumHasUnread`: a forum shown as unread has a topic that was not read since it was written
  to, where nothing is taken away: one whose visit will be recorded, or one that has become too old (see 4);
* `LastVisitReadsForum`: opening the only topic of a forum that is shown as unread makes the forum
  a read one, however the others came to be read, where nothing is hidden and the row of the topic names its forum;
* `VisitedIsRead`: a topic just opened is not unread, where nothing is hidden and its row
  names its forum.

`topic_writes`:

* `TopicPointersLive`: where no topic is deleted, a topic's first and last post are posts of it,
  although others reply between the three commits that make it;
* `OverlapKeepsNewest`: where topics stay in their place, a forum names the post *committed* last,
  although requests write dates and rows they loaded earlier;
* `LastColumnsFit`: where topics stay in their place, the date a forum shows is that of the post it
  names, and the name is that of an author in it, although each column is written on its own or not at all; with
  one worker it is the author of that post, also after a crash;
* `NeverAhead`: lost increments make a count lag; none makes it too high, the counts that a
  request has already loaded included;
* `OnlyCrashLeavesHalf`: a topic without first post is left behind by a crash and by nothing else;
* `CrashKeepsCounts`: with one worker a crash leaves all counts of posts exact, and a forum's count of
  topics wrong by no more than the topics without first post;
* `EveryRequestEnds` (liveness): no request waits for another for ever;
* `OneWorkerImplements` (refinement): every step of a single worker is a step of
  `ForumContent` or none, so that what holds there holds between the commits, too.

`management_page`:

* `RowsVanishOnlyWhenGone`: whatever is lost or reordered, a row leaves the page only when what it shows
  is gone from the server;
* `PageCatchesUp`: after requests that did not overlap, the page shows what is on the server;
* `NothingSentTwice`: a confirmation is sent once, however often Yes is clicked;
* `YesDoesWhatIsAsked`: what the open dialog asks is among what Yes sends;
* `MeantOrAlreadyDone`: a form sends what its button said, or the page knows that this was done in between;
* `EveryoneTold` (liveness): who confirmed something learns the outcome or leaves the page.

`post_editor`:

* `PreviewMissesOnly`: only a late quote and an emoji from a list left open get past the preview;
* `LastClickStands`: where clicks do not overlap, the text is the quote of the last one answered,
  until something is written;
* `SuggestionsFitTerm`, `EmojiOnlyForTerm`: suggestions are for the term at the cursor, and an emoji
  replaces only a term it was found for, although the text can change under the open list.

About the bounds: a refusal for want of a right (`op` not in `rights`) is exercised through
standard groups alone, since the instances' pages have every right they have buttons for;
and `MaxTime`, `MaxRequests`, `MaxCrashes`, `MaxAsks`, `MaxOthers`, `MaxClicks` and `MaxWords` are
bounds of the runs, while the theorems hold for any value of them.

Symmetry: the names, ids and slots that are only compared for equality are symmetric sets
in the runs of the content, of the tracker's marks and of the permissions' bounds. The runs
that check liveness use none (`topic_writes`, `management_page`), and forums are never
symmetric (`CategoryOf`). `MCView` of `MCReadTracker` leaves out counters no action of the
tracker, guard or property of the run reads; that of `MCPermissionCache` identifies expired
entries with absent ones, and ages of rights beyond the window, which no action or
property tells apart.

## 4. Where the code does something else

Each has a run with one property that TLC finds violated, and a finding in
`PROJECT.json` that quotes the comment or test the property comes from.

| Run | What happens |
|---|---|
| `find_second_last` | `Topic.second_last_post` indexes a dynamic relationship with -2, which SQLAlchemy 2 refuses, and returns None: after the last of three posts is deleted the first one is the topic's last post |
| `find_guest_cache` | the cache entries of guests are not dropped when their group is edited |
| `find_marked_unread` | a moved topic stays unread after its new forum was marked as read |
| `find_cancelled` | an action is asked for and cancelled, another one confirmed: Yes sends both, since Cancel leaves the listener of the first on the one button Yes (flaskbb.js:77, confirm_modal.js:28) |
| `find_autocomplete` | the search for an emoji returns null for each row that does not match (editor.js:80) and rendering one fails: unless the first five rows all match, nothing is suggested, and the query never ends, so nothing ever is until the page is loaded again |

Further deviations seen while modelling, each in the model and behind one of the conditions
above: after two deletions in a row `forums.last_post_id` names a row that is gone; the replies
of a hidden topic stay in the forum's `post_count`; the authors' counts after the deletion of a
category are never committed (1478); a restored post is compared with any unhidden post of its topic
(models.py:458), so an older one can become the last post; `update_last_post` takes hidden
posts into account (1106); moving a hidden topic subtracts it from a count it is not in
and leaves -1 (771); `Forum.delete` counts the hidden posts of the users it is
given (1301); after hiding and restoring, a topic's `last_updated` can be later than its last
post, and the topic stays unread however often it is opened; the other way round, hiding and restoring a reply
can leave `last_updated` behind, and a forum that is given this date when a newer topic is hidden (916)
is shown as read although another topic is unread; a forum stays unread after its
last unread topic was deleted, and when an unread topic of it has become too old while the forum has not: opening
that topic writes nothing (674); in a process with threads a ban can be followed by a
full timeout of the old rights there (`OwnChangesSeen` needs `Sequential`).

Between requests at a time (`TopicWrites`): increments are lost; a column set to the value it was loaded
with is not written, so that overlapping replies can leave a forum with the last post of
one author under the name of another (305); a reply committed between the second and the third commit of
`Topic.save` loses its place as the topic's last post (834); a crash between them, followed by a
move, takes a topic from a count it was never in and leaves -1; when a topic is deleted while its first
post is under way and SQLite hands out its id again, the post lands in the topic that has the id then.

In the browser: when requests overlap, a row's button can stay turned the wrong way, and a row whose
thing is gone can stay on the page when the answer names one before it that the page has no more (flaskbb.js:115); the answer to a
quote button replaces whatever was typed meanwhile, and when the server answers with an error page,
that page becomes the text (flaskbb.js:199).

Outside the models: `Forum.get_topics` builds a query with `hidden` and drops the result (1388);
`UnhidePost` lacks a `return` (views.py:1149); a click on a check box inside of a
`.set-checkbox` toggles it twice (flaskbb.js:222); the Celery notice is put in the place
of an element when that is null, and otherwise not (flaskbb.js:154).

## 5. Fairness

Two modules state fairness, and only for what is not up to a person.

* `TopicWrites`: weak fairness of `Proceed(s)` for each worker. A worker that has a request is a process
  that runs; nothing in the modelled code waits for another request, except for SQLite's lock, which is held
  only within one step. Starting a request and crashing are not fair. `EveryRequestEnds` would fail
  if a stage had no way out.
* `ManagementPage`: weak fairness of `Settle` and `Arrive`. A browser settles every fetch, with an answer
  or an error, and runs the callbacks that are due; which of them comes next is left open. Clicks are
  not fair.

The other modules state none: their properties are of states or of steps.

## 6. What is proved

TLAPS checks every theorem for all values of the constants, under the named assumptions
of the modules (sets are finite where they are counted, `None` is no row, bounds are numbers).

* **ForumContent**, the structure (`ForumContentProofs`). `IInv` = `TypeOK` /\ `NoOrphans` /\
  `FirstPostMirrorsTopic` /\ `LastPostInTopic` /\ `ForumNotForgotten`. No conjunct is inductive alone: deleting a reply
  falls back on the first post, which must exist and be visible for the last post to be; hiding
  through the first post is hiding the topic only if the two agree; a forum is given a last post from the
  last posts of its topics, which must be posts of it; the type of `last` needs the post looked
  up to exist. The proof has a lemma for each request (`ReplyPreserves`, ...), which are combined in
  `NextPreserves`. From it: `Invariance`, `TypeCorrect`, `NothingOrphaned`,
  `FirstPostStandsForTopic`, `LastPostIsOfTopic`, `ForumsRemember`.
* **ForumContent**, the figures (`ContentFiguresProofs`), each on the boards its property names. `Base` adds to
  `IInv` that rows which do not exist have no author and that on a board without hiding nothing is hidden. The first half of the
  module says what each request does to the tables (a post is added, a reply taken away or put back, a topic moved, ...), so that the
  figures can be counted case by case with the library's theorems on finite sets. `TopicCountsExact` and
  `UserCountsExact` need the count itself as the invariant; `PostCountsExact` and `RepliesCountsExact` need each other,
  since a move and a deletion take the topic's count from the forum's; `ForumsShowNewest` needs the last post of *every*
  topic to be its newest, because a forum falls back on the last posts of its topics, and a forum's date and author to be that post's.
* **ReadTracker.** `ReadersOnlyRead`: the tracker's specification implies that of the content, so
  all theorems above carry over. `TInv` adds that no mark is in the future (`DatesPast`), without which marking
  a forum would not be later than the rows. From it: `TrackerInvariance`, `TrackerTypeCorrect`, `MarksComeFirst`.
  What the pages show relates the rows to the content, and starts from `ReaderBase` (`TInv`, `Base` and
  `Dated`: nothing is dated after the clock, no row is later than what the reader saw). On top of it
  `OpenedTopicsAreRead` needs `LastDates` (the date the filter looks at is not later than that of the post the
  view looks at); `UnseenTopicsAreUnread` needs `AllSeenRight` (a post newer than what the reader saw is newer than
  the last marking of its forum, which survives ids used again because a new topic's post is newer than everything);
  `UnreadForumsHaveUnread` needs `Growing` (a forum's date is never ahead of the clock, so that opening or marking
  catches up with it) and `NotReadNeedsUpdate` (the two dates agree on what a visit will record), which
  `LastVisitsReadForums` needs, too, with `ForumDates` for all boards without hiding; `ReadForumsHaveNoUnread` needs `Staying` (a forum is dated no earlier
  than its visible topics, and its mark does not cover an unread one) and the exact count of topics, since a forum that counts none is shown as read. The last one was false as first stated: a board where replies are
  hidden and restored has a forum shown as read with an unread topic in it (4), and the property now excludes it.
* **PermissionCache.** The bound `Window` = 2 (`Timeout` + `MaxRequest` - 1) on late grants,
  `WithdrawnInTime`, for any number of users, groups, requests and processes. The inductive
  invariant follows a right on its way: what a request has loaded was held when it began, what an entry
  of `get_groups` holds was held at most a request before it was stored, what an entry of
  `get_permissions` holds at most a timeout and two requests before it was stored. The two timeouts are real: with one tick
  less the run finds a violation.
  `OwnChangesAnswered` needs, next to the entries of the process (`OwnEntries`), what its one request has in hand: what it has loaded
  is current (`SeenRight`), and what it has dropped before its commit nobody has stored again (`DroppedSoFar`); that
  is where a second thread would break it.
* **TopicWrites**, for any number of workers, requests and crashes. `WInv` is the type invariant with
  `RequestsSound` (what a request has in hand at each stage exists), `PostsHaveTopics` and
  `ClockBehind` (dates given and dates still to be given fit the bound), without which the types do not
  carry through `Save`. Three invariants are proved on top of it, one lemma for each kind of step:
  `Pointers` /\ `PostsInHand` (the post a request is about to attach is still one of its topic)
  for `PointersStayLive`; `NoneAbandoned` (a topic that is not whole has a request that is `Finishing`
  it) for `HalfOnlyByCrash`; `NewestKept` /\ `NoMoves` /\ `AtHome` (the forum a request loaded is still
  that of its topic) for `NewestStaysKnown`. `FiguresNeverAhead` needs the most: `Behind` says
  that not only the figures but also the *loaded* ones are behind, since they are what will be
  written, that a topic is counted only once it is closed, and that a topic under way has one creator.
  `LastColumnsStayFit` needs that a request which has loaded a name works on a forum that has a last post (`NameLoaded`),
  since the name it does not write is then that of an author there, and for one worker that the name it has loaded
  is the one in the table (`NameFresh`).
  `CrashLeavesCounts` is about one worker that may die: `Sole` says that the counts of posts are exact, that what the request has
  loaded is what the tables hold (`FreshOf`), and that a forum counts its closed topics and none that is
  still to be counted (`TopicsBetween`).
* **TopicWrites implements ForumContent** when there is one worker and it does not die (`OneWorkerIsForumContent`). The mapping
  shows the content as the request is going to leave it. The initial states map to initial states; `Save` maps to
  `NewTopic` or `Reply`, `CommitMove` to `Move`, `Remove` to the deletion of a topic, every other step to a stutter. For this `Sole` is
  strengthened to `Steady`: rows not in use are blank, posts are in the order of their dates (the newest post is found by its date here,
  where overlapping requests can give ids and dates in different orders, and by its id in `ForumContent`), and the request
  still has the right it began with. A crash breaks `Steady` and, in a half-made topic, the
  implementation; that case is what `CrashLeavesCounts` is for.
* **ManagementPage.** `PInv` ties the dialog to what waits for Yes: whoever opened the dialog is among
  the listeners, what listens was not sent, the form of a row that was pressed still does what it said unless
  the page was told that it is done, and a deletion in an answer is one on the server. From it:
  `VanishedIsGone`, `SentOnce`, `FormsDoAsTheySaid`, `YesDoes`. `PageShowsServer` needs `CalmInv`: without overlap there is one request or
  one answer under way, and the rows that differ from the server are those it is about (`OnlyAnswersMissing`).
* **PostEditor.** `EInv` adds to the properties that the toolbar is locked under the preview, that a failed query
  leaves no suggestions, and that without overlap what is under way is later than what was answered.
  From it: `PreviewIsNearlyTrue`, `LatestQuoteStands`, `SuggestionsFit`, `EmojiForTerm`.

Every invariant, action property and the refinement that a passing run checks is thus also a theorem; the types of
`TopicWrites` are proved without a run of their own (`WritesTypeCorrect`). Only model-checked
is liveness, `EveryRequestEnds` and `EveryoneTold`: it rests on fairness, hence on which actions are enabled, and the prover has no rules for
ENABLED. The violations of section 4 are traces, found by TLC.

## 7. Plan

Done: the content, its readers, permissions, the writing requests commit by commit with crashes, and the two
stateful parts of the front end; proofs of all their properties but liveness. Left, in this order:

1. Proofs: for any board, how far figures can be off where the properties of `content_figures` except it (a hidden reply, a category
   that is deleted); that overlapping workers implement a weaker `ForumContent` whose increments may be lost.
2. `Accounts`: registration, login, reauthentication, activation, reset, account changes,
   with the steps check and store apart, ids used again, tokens that expire. Questions: uniqueness of names and addresses under
   concurrency and upper case, whose account a token acts on, what the failure counter says.
3. `Settings` and plugins: the cache entry of the settings per process; enabled, loaded and installed
   plugins over restarts. Abstract specification shared with `PermissionCache`: a bounded-staleness read.
4. Topic tracking, reports and the requirements of `utils/requirements.py` against the permissions.
5. The read tracker on top of `TopicWrites`: a post is dated before it is committed, so a reader who
   opens the topic in between is marked as having read it.

## 8. Not modelled

Authentication, tokens, registration, settings, plugins, topic tracking, reports and requirements are not
modelled yet (7); deleting a group is missing from `PermissionCache`; hiding and the
deletion of forums and accounts are not interleaved in `TopicWrites`.

Of the front end: emoji.js is one table of data, which `PostEditor` takes as the constant `Emojis` (seven of its
rows in the run); no behaviour is in it. app.js and the webpack configurations are boot and build
files. Localised dates, twemoji, the search form and the Celery notice set one property of
one element each.

Search (Whoosh, an external library), mail delivery (Celery), the online list in Redis (display only, one pipeline
per request), markup, themes, translations and navigation (formatting), the command
line, fixtures and migrations (run on a stopped board), and the text of posts, topics and users,
which nothing modelled depends on. MySQL and PostgreSQL, which enforce foreign
keys and do not hand out ids again, behave like boards on which the corresponding rows are
deleted with their parents.
