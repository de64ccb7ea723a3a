--------------------------- MODULE ManagementPage ---------------------------
(***************************************************************************)
(* A list of the management panel in the browser (users, banned users,     *)
(* groups, reports): rows with a check box and buttons, the actions on all *)
(* checked rows (BulkActions), the one dialog that asks to confirm them    *)
(* (confirm_modal.js), the requests it sends and what their answers do to  *)
(* the rows.  It is themes/aurora/src/app/flaskbb.js and confirm_modal.js, *)
(* with the endpoints of management/views.py they talk to.                 *)
(*                                                                         *)
(* Requests and answers travel: several may be under way, answers come     *)
(* back in any order, a request may die before, while or after the server  *)
(* works on it.  The page ends (left) when a form was submitted and its    *)
(* response has replaced it: what happens after is not followed, the page  *)
(* that replaced it is a new behaviour.                                    *)
(***************************************************************************)
EXTENDS Integers, FiniteSets

CONSTANTS
    Ids,      \* what the rows stand for: accounts, groups or reports
    Pages,    \* the pages to look at, see PageKind
    MaxAsks,  \* bound: how often a confirmation is asked for on one page
    MaxOthers \* bound: how often somebody else changes a row

Ops  == {"ban", "unban", "read", "delete"}
Asks == 1..MaxAsks

States == {"plain", "flagged", "gone"}   \* flagged: banned, or read

\* ops: its bulk actions.  rights: what the server lets this user do, and so
\* the buttons in the rows.  button: the one that depends on the row's state.
\* spared: whom the server passes over.  standard: groups it never deletes.
PageKind == [ops: SUBSET Ops, rights: SUBSET Ops,
             button: [{"plain", "flagged"} -> Ops \cup {"none"}],
             spared: [Ops -> SUBSET Ids], standard: SUBSET Ids]

ASSUME BoundsAssumption == MaxAsks \in Nat /\ MaxOthers \in Nat
ASSUME PagesAssumption == Pages \subseteq PageKind
\* A list of accounts has buttons that ban and unban, a list of reports some that mark as
\* read (a row that send_data turns round says what its account is), others none of these.
Toggle == [plain |-> "ban", flagged |-> "unban"]
ASSUME ButtonsAssumption ==
    \A p \in Pages :
        \/ p.ops \subseteq {"ban", "unban", "delete"} /\ p.button = Toggle
        \/ /\ p.ops \subseteq {"read", "delete"}
           /\ \A s \in {"plain", "flagged"} : p.button[s] \in {"read", "none"}

VARIABLES
    page,      \* the kind of page
    account,   \* the state of each id on the server
    shown,     \* the rows in the document
    checked,   \* the rows whose box is checked
    action,    \* what the form with the state button would do, per row
    phase,     \* the dialog: hidden, opening, shown, closing
    asked,     \* how many confirmations were asked for
    ask,       \* what each of them was about
    listeners, \* the asks waiting for a click on Yes
    wire,      \* requests under way to the server
    answers,   \* answers under way to the page
    leaving,   \* the ask whose form is replacing the page, or 0
    left,      \* the page was replaced
    \* history
    sent,      \* asks that were sent
    told,      \* asks whose outcome the user was told
    done,      \* what the page was told to be done, by operation and row
    others,    \* how often somebody else changed a row
    calm       \* never two requests at a time, and none died

document == <<shown, checked, action>>
network  == <<wire, answers, leaving, left>>
history  == <<sent, told, done, others, calm>>
vars == <<page, account, document, phase, asked, ask, listeners, network, history>>

AskRow  == [form: BOOLEAN, op: Ops, ids: SUBSET Ids]
NoAsk   == [form |-> FALSE, op |-> "delete", ids |-> {}]
Request == [n: Asks, form: BOOLEAN, op: Ops, ids: SUBSET Ids]
Answer  == [n: Asks, op: Ops, ids: SUBSET Ids]

PageTypeOK ==
    /\ page \in Pages
    /\ account \in [Ids -> States]
    /\ shown \subseteq Ids /\ checked \subseteq shown
    /\ action \in [Ids -> Ops \cup {"none"}]
    /\ phase \in {"hidden", "opening", "shown", "closing"}
    /\ asked \in 0..MaxAsks
    /\ ask \in [Asks -> AskRow]
    /\ listeners \subseteq 1..asked
    /\ wire \subseteq Request
    /\ answers \subseteq Answer
    /\ leaving \in 0..asked
    /\ left \in BOOLEAN
    /\ sent \cup told \subseteq 1..asked
    /\ done \subseteq Ops \X Ids
    /\ others \in 0..MaxOthers
    /\ calm \in BOOLEAN

-----------------------------------------------------------------------------
(* The server.                                                             *)

\* The endpoint's decorator, or DeleteGroup meeting a standard group.
Refuses(op, ids) ==
    \/ op \notin page.rights
    \/ op = "delete" /\ ids \cap page.standard # {}

\* The rows a request changes: User.ban wants one that is not banned,
\* User.unban one that is, the others any that is there.
Affected(op, ids) ==
    IF Refuses(op, ids) THEN {}
    ELSE {i \in ids \ page.spared[op] :
            CASE op = "ban"   -> account[i] = "plain"
              [] op = "unban" -> account[i] = "flagged"
              [] OTHER        -> account[i] # "gone"}

After == [ban |-> "flagged", unban |-> "plain", read |-> "flagged", delete |-> "gone"]

Changed(op, S) == [i \in Ids |-> IF i \in S THEN After[op] ELSE account[i]]

-----------------------------------------------------------------------------
(* The page.                                                               *)

Flip(S, i) == IF i \in S THEN S \ {i} ELSE S \cup {i}

\* The answers that take rows away, obj.type == "delete".
RemovesIrreversible(op) == op \in {"delete", "read"}
Removes(op) == op = "delete"

\* send_data turns the button round: obj.reverse.
ReverseNot(op) == op
ReverseState(op) == After[op]
Reverse(op) == IF op = "ban" THEN "unban" ELSE "ban"

\* The buttons of a row: each a form of its own.
Buttons(i) == {action[i], "delete"} \cap page.rights

\* What a form does is decided when it is submitted.
FormAction(i, op) == IF op = "delete" THEN op ELSE action[i]

\* The request an ask becomes.
RequestOf(n) ==
    [n |-> n, form |-> ask[n].form, ids |-> ask[n].ids,
     op |-> IF ask[n].form THEN FormAction(CHOOSE i \in ask[n].ids : TRUE, ask[n].op)
            ELSE ask[n].op]

\* addEventListener
ListenOnce(n) == IF listeners = {} THEN {n} ELSE listeners
Listen(n) == listeners \cup {n}

Init ==
    /\ page \in Pages
    /\ account \in [Ids -> {"plain", "flagged"}]
    /\ shown = Ids /\ checked = {}
    /\ action = [i \in Ids |-> page.button[account[i]]]
    /\ phase = "hidden"
    /\ asked = 0 /\ ask = [n \in Asks |-> NoAsk] /\ listeners = {}
    /\ wire = {} /\ answers = {} /\ leaving = 0 /\ left = FALSE
    /\ sent = {} /\ told = {} /\ done = {}
    /\ others = 0 /\ calm = TRUE

\* A click on the box of a row, which the browser flips.  (No boxes are
\* clicked that no ask could follow.)
Check(i) ==
    /\ ~left /\ phase = "hidden" /\ asked < MaxAsks /\ i \in shown
    /\ checked' = Flip(checked, i)
    /\ UNCHANGED <<page, account, shown, action, phase, asked, ask, listeners,
                   network, history>>

\* A click on .action-checkall gives its own state to every box.
CheckAll ==
    /\ ~left /\ phase = "hidden" /\ asked < MaxAsks /\ page.ops # {}
    /\ checked' \in {shown, {}}
    /\ UNCHANGED <<page, account, shown, action, phase, asked, ask, listeners,
                   network, history>>

\* The dialog is told to show, and a listener is added to its button Yes.
Confirm(form, op, ids) ==
    /\ ~left /\ asked < MaxAsks
    /\ asked' = asked + 1
    /\ ask' = [ask EXCEPT ![asked'] = [form |-> form, op |-> op, ids |-> ids]]
    /\ listeners' = Listen(asked')
    /\ phase' = "opening"
    /\ UNCHANGED <<page, account, document, network, history>>

\* BulkActions.execute: nothing happens when nothing is selected.  While the dialog
\* fades in, a key held down presses the same button again: another listener.
Execute(op) ==
    /\ \/ phase = "hidden"
       \/ phase = "opening" /\ ask[asked] = [form |-> FALSE, op |-> op, ids |-> checked]
    /\ op \in page.ops /\ checked # {}
    /\ Confirm(FALSE, op, checked)

\* The button of a row opens the dialog with itself as relatedTarget; Modal.show
\* tells nobody when the dialog is not hidden.
Press(i, op) ==
    /\ phase = "hidden" /\ i \in shown /\ op \in Buttons(i)
    /\ Confirm(TRUE, op, {i})

\* The dialog has faded in or out.
Fade ==
    /\ ~left
    /\ \/ /\ phase = "opening"
          /\ phase' = "shown"
       \/ /\ phase = "closing"
          /\ phase' = "hidden"
    /\ UNCHANGED <<page, account, document, asked, ask, listeners, network, history>>

\* The button Cancel hides the dialog; nothing removes the listener.
Cancel ==
    /\ ~left /\ phase = "shown"
    /\ phase' = "closing"
    /\ UNCHANGED <<page, account, document, asked, ask, listeners, network, history>>

\* Modal.hide does nothing during a transition.
Hide == phase' = IF phase = "shown" THEN "closing" ELSE phase

\* A listener added with once is removed when it runs.
StayListening(run) == run
Forget(run) == {}

\* The button Yes: every listener runs, in the order they were added, and is
\* gone (once).  A form whose row left the document submits nothing; of several
\* submitted forms the last one replaces the page, and the navigation of the
\* others may be stopped before the server sees it.
Yes ==
    LET bulk  == {n \in listeners : ~ask[n].form}
        forms == {n \in listeners : ask[n].form /\ ask[n].ids \subseteq shown}
    IN  /\ ~left /\ phase # "hidden" /\ listeners # {}
        /\ \E out \in SUBSET (bulk \cup forms) :
            /\ bulk \subseteq out
            /\ \A n \in forms : (\A k \in forms : k <= n) => n \in out
            /\ wire' = wire \cup {RequestOf(n) : n \in out}
            /\ sent' = sent \cup out
            /\ calm' = (calm /\ wire = {} /\ answers = {} /\ Cardinality(out) <= 1)
        /\ leaving' \in IF forms = {} THEN {leaving}
                       ELSE {n \in forms : \A k \in forms : k <= n}
        /\ listeners' = Forget(listeners)
        /\ Hide
        /\ UNCHANGED <<page, account, document, asked, ask, answers, left,
                       told, done, others>>

\* Without the catch of send_data.
RespondUncaught(m, data) ==
    /\ wire' = wire \ {m}
    /\ answers' = IF m.form \/ data = {} THEN answers
                  ELSE answers \cup {[n |-> m.n, op |-> m.op, ids |-> data]}
    /\ left' = (left \/ m.n = leaving)

\* The end of a request: the answer to a fetch sets out (data is {} when there
\* is none to parse), the one to a form replaces the page, if it is the last.
Respond(m, data) ==
    /\ wire' = wire \ {m}
    /\ answers' = IF m.form THEN answers
                  ELSE answers \cup {[n |-> m.n, op |-> m.op, ids |-> data]}
    /\ left' = (left \/ m.n = leaving)

\* The server works a request off: DeleteUser, BanUser, UnbanUser, DeleteGroup,
\* MarkReportRead, DeleteReport.
Serve(m) ==
    LET S == Affected(m.op, m.ids) IN
    /\ ~left /\ m \in wire
    /\ account' = Changed(m.op, S)
    /\ Respond(m, S)
    /\ UNCHANGED <<page, document, phase, asked, ask, listeners, leaving,
                   sent, told, done, others, calm>>

\* It dies, on the way or after some of its rows, which are committed one by one,
\* or its answer is lost.
Fail(m) ==
    /\ ~left /\ m \in wire
    /\ \E S \in SUBSET Affected(m.op, m.ids) : account' = Changed(m.op, S)
    /\ Respond(m, {})
    /\ calm' = FALSE
    /\ UNCHANGED <<page, document, phase, asked, ask, listeners, leaving,
                   sent, told, done, others>>

\* The callback of send_data.  It goes through the objects of the answer in the
\* order the server's query gave them, and stops with an error at one whose form
\* is no longer in the document; for a report marked as read it does nothing.
Receive(a) ==
    /\ ~left /\ a \in answers
    /\ \E S \in SUBSET (a.ids \cap shown) :
        /\ a.ids \subseteq shown => S = a.ids
        /\ IF Removes(a.op)
           THEN /\ shown' = shown \ S
                /\ checked' = checked \ S
                /\ UNCHANGED action
           ELSE /\ action' = IF a.op = "read" THEN action
                             ELSE [i \in Ids |-> IF i \in S THEN Reverse(a.op) ELSE action[i]]
                /\ UNCHANGED <<shown, checked>>
    /\ answers' = answers \ {a}
    /\ told' = told \cup {a.n}
    /\ done' = done \cup ({a.op} \X a.ids)
    /\ UNCHANGED <<page, account, phase, asked, ask, listeners, wire, leaving, left,
                   sent, others, calm>>

\* Somebody else changes a row on the server.
Elsewhere(i) ==
    /\ ~left /\ others < MaxOthers /\ account[i] # "gone"
    /\ others' = others + 1
    /\ \E op \in page.ops :
        /\ After[op] # account[i]
        /\ account' = [account EXCEPT ![i] = After[op]]
    /\ UNCHANGED <<page, document, phase, asked, ask, listeners, network,
                   sent, told, done, calm>>

\* Requests settle, with an answer or an error, and the browser runs the callbacks
\* that are due.  What the user does is up to him.
Settle == \E m \in wire : Serve(m) \/ Fail(m)
Arrive == \E a \in answers : Receive(a)

Next ==
    \/ \E i \in Ids : Check(i)
    \/ CheckAll
    \/ \E op \in Ops : Execute(op)
    \/ \E i \in Ids, op \in Ops : Press(i, op)
    \/ Fade
    \/ Cancel
    \/ Yes
    \/ Settle
    \/ Arrive
    \/ \E i \in Ids : Elsewhere(i)

Spec == Init /\ [][Next]_vars /\ WF_vars(Settle) /\ WF_vars(Arrive)

-----------------------------------------------------------------------------
(* Properties.                                                             *)

\* A row disappears only when what it stands for is gone on the server, in
\* whatever order answers arrive and whatever request died.  (The removal of
\* form.parentNode.parentNode in send_data.)
RowsVanishOnlyWhenGone == \A i \in Ids \ shown : account[i] = "gone"

\* When nothing is under way, requests never overlapped or died and nobody else worked,
\* the page shows what is on the server: no row of something gone, and the button of
\* each user says what can be done to him.  (The loop of send_data.)
PageCatchesUp ==
    calm /\ others = 0 /\ wire = {} /\ answers = {} /\ ~left =>
        \A i \in shown :
            /\ account[i] # "gone"
            /\ action[i] \in {"ban", "unban"} => action[i] = page.button[account[i]]

\* A confirmation is executed at most once, however often Yes is clicked while
\* the dialog fades in and out.  (The option once of both listeners.)
NothingSentTwice == [][\A m \in wire' \ wire : m.n \notin sent]_vars

\* A row's form does what its button said when it was pressed, or the page has been
\* told that just this was done to the row: an answer that turns the button round while
\* the dialog is open.  (form.setAttribute in send_data against form.submit in
\* confirm_modal.js.)
MeantOrAlreadyDone ==
    [][\A m \in wire' \ wire : m.op # ask[m.n].op => {ask[m.n].op} \X m.ids \subseteq done]_vars

\* Yes does at least what the open dialog asks, whatever other asks still wait for a
\* click: of several forms it is the last one that replaces the page.  The only way
\* out is a form whose row left the page while the dialog was open.
YesDoesWhatIsAsked ==
    [][listeners # {} /\ listeners' = {} /\ phase \in {"opening", "shown"} =>
          asked \in sent' \/ (ask[asked].form /\ ~(ask[asked].ids \subseteq shown))]_vars

\* Whoever confirmed something learns what became of it, or leaves the page: time and
\* again nothing that was sent is open.
EveryoneTold == []<>(sent \subseteq told \/ left)

\* "Are you sure that you want to perform this action?": what Yes sends is what the
\* dialog asked for last, and nothing that was asked for before and cancelled.
OnlyWhatWasAsked == [][\A m \in wire' \ wire : ask[m.n] = ask[asked]]_vars
=============================================================================
