------------------------ MODULE ManagementPageProofs ------------------------
(***************************************************************************)
(* Theorems of ManagementPage: what the dialog, the requests it sends and  *)
(* the answers to them can do to the rows, for any kinds of pages, any     *)
(* number of rows and any number of confirmations.                         *)
(***************************************************************************)
EXTENDS ManagementPage, FiniteSetTheorems, TLAPS

\* A form in the dialog is that of one row, and what it would do is an operation:
\* the one on its button, or the page has been told that this one is done.
FormsKeepWord ==
    \A n \in 1..asked : ask[n].form =>
        \E i \in Ids :
            /\ ask[n].ids = {i}
            /\ ask[n].op # "delete" =>
                 /\ action[i] \in Ops
                 /\ action[i] = ask[n].op \/ <<ask[n].op, i>> \in done

\* Bulk actions, and the answers to them, are ones of this page.
OpsOfPage ==
    /\ \A n \in 1..asked : ~ask[n].form => ask[n].op \in page.ops
    /\ \A m \in wire : ~m.form => m.op \in page.ops
    /\ \A a \in answers : a.op \in page.ops

\* Only a page that bans nobody has a button to mark something as read.
ReadButtons == \A i \in Ids : action[i] = "read" => page.ops \subseteq {"read", "delete"}

\* A page is told that something was deleted only after it was.
AnswersTrue ==
    \A a \in answers : a.op = "delete" => \A i \in a.ids : account[i] = "gone"

\* What still waits for a click was not sent, and whoever opened the dialog waits.
OpenDialogListens ==
    /\ listeners \cap sent = {}
    /\ phase \in {"opening", "shown"} /\ listeners # {} => asked \in listeners

\* Requests and answers are to what was asked.
AnswersAsked ==
    /\ \A m \in wire : m.n \in 1..asked
    /\ \A a \in answers : a.n \in 1..asked

PInv ==
    /\ PageTypeOK /\ AnswersAsked
    /\ FormsKeepWord /\ OpsOfPage /\ ReadButtons
    /\ AnswersTrue /\ RowsVanishOnlyWhenGone
    /\ OpenDialogListens

-----------------------------------------------------------------------------
(* Lemmas on the pages, the server and the requests.                       *)

LEMMA PageFacts ==
    ASSUME page \in Pages
    PROVE  /\ page.ops \subseteq Ops /\ page.rights \subseteq Ops
           /\ page.button \in [{"plain", "flagged"} -> Ops \cup {"none"}]
           /\ \/ \A s \in {"plain", "flagged"} : page.button[s] # "read"
              \/ page.ops \subseteq {"read", "delete"}
<1>1. page \in PageKind
    BY PagesAssumption
<1>2. \/ page.ops \subseteq {"ban", "unban", "delete"} /\ page.button = Toggle
      \/ /\ page.ops \subseteq {"read", "delete"}
         /\ \A s \in {"plain", "flagged"} : page.button[s] \in {"read", "none"}
    BY ButtonsAssumption
<1>3. \A s \in {"plain", "flagged"} : Toggle[s] # "read"
    BY DEF Toggle
<1> QED BY <1>1, <1>2, <1>3 DEF PageKind

LEMMA AskFacts ==
    /\ MaxAsks \in Nat /\ Asks = 1..MaxAsks
    /\ \A k \in 0..MaxAsks : 1..k \subseteq Asks
BY BoundsAssumption DEF Asks

\* What is gone stays so, and what was deleted is gone.
LEMMA ChangedFacts ==
    ASSUME NEW op \in Ops, NEW ids \in SUBSET Ids, NEW S \in SUBSET Affected(op, ids),
           account \in [Ids -> States]
    PROVE  /\ S \subseteq ids
           /\ Changed(op, S) \in [Ids -> States]
           /\ \A i \in Ids : account[i] = "gone" => Changed(op, S)[i] = "gone"
           /\ op = "delete" => \A i \in S : Changed(op, S)[i] = "gone"
<1>1. /\ S \subseteq ids
      /\ \A i \in S : account[i] # "gone"
    BY DEF Affected, Ops
<1>2. After[op] \in States /\ (op = "delete" => After[op] = "gone")
    BY DEF After, States, Ops
<1> QED BY <1>1, <1>2 DEF Changed

LEMMA SentRequest ==
    ASSUME PInv, NEW n \in listeners
    PROVE  /\ RequestOf(n) \in Request
           /\ RequestOf(n).n = n
           /\ RequestOf(n).ids = ask[n].ids
           /\ RequestOf(n).form = ask[n].form
           /\ ~ask[n].form => RequestOf(n).op = ask[n].op
           /\ RequestOf(n).op # ask[n].op => {ask[n].op} \X ask[n].ids \subseteq done
<1>1. n \in 1..asked /\ n \in Asks /\ ask[n] \in AskRow
    BY AskFacts DEF PInv, PageTypeOK
<1>2. CASE ~ask[n].form
    BY <1>1, <1>2 DEF RequestOf, Request, AskRow
<1>3. CASE ask[n].form /\ ask[n].op = "delete"
    BY <1>1, <1>3 DEF RequestOf, Request, AskRow, FormAction
<1>4. CASE ask[n].form /\ ask[n].op # "delete"
    <2>1. PICK i \in Ids :
            /\ ask[n].ids = {i}
            /\ action[i] \in Ops
            /\ action[i] = ask[n].op \/ <<ask[n].op, i>> \in done
        BY <1>1, <1>4 DEF PInv, FormsKeepWord
    <2>2. (CHOOSE j \in ask[n].ids : TRUE) = i
        BY <2>1
    <2>3. RequestOf(n) = [n |-> n, form |-> ask[n].form, ids |-> ask[n].ids, op |-> action[i]]
        BY <1>4, <2>2 DEF RequestOf, FormAction
    <2> QED BY <1>1, <1>4, <2>1, <2>3 DEF Request, AskRow
<1> QED BY <1>2, <1>3, <1>4

-----------------------------------------------------------------------------
(* One lemma per action.                                                   *)

LEMMA Initially == Init => PInv
<1> SUFFICES ASSUME Init PROVE PInv
    OBVIOUS
<1>1. page \in Pages /\ account \in [Ids -> {"plain", "flagged"}]
    BY DEF Init
<1>2. action = [i \in Ids |-> page.button[account[i]]]
    BY DEF Init
<1>3. \A i \in Ids : action[i] \in Ops \cup {"none"}
    BY <1>1, <1>2, PageFacts
<1>4. ReadButtons
    BY <1>1, <1>2, PageFacts DEF ReadButtons
<1>5. ask \in [Asks -> AskRow]
    BY DEF Init, NoAsk, AskRow, Ops
<1>6. leaving \in 0..asked /\ asked \in 0..MaxAsks /\ others \in 0..MaxOthers
    BY BoundsAssumption DEF Init
<1>7. left \in BOOLEAN /\ calm \in BOOLEAN
    BY DEF Init
<1>8. PageTypeOK
    BY <1>1, <1>2, <1>3, <1>5, <1>6, <1>7 DEF Init, PageTypeOK, States
<1>9. FormsKeepWord /\ OpsOfPage
    <2>1. 1..asked = {}
        BY DEF Init
    <2> QED BY <2>1 DEF Init, FormsKeepWord, OpsOfPage
<1> QED BY <1>4, <1>8, <1>9
    DEF Init, PInv, AnswersTrue, RowsVanishOnlyWhenGone, OpenDialogListens, AnswersAsked

\* Boxes are clicked.
LEMMA CheckingPreserves ==
    ASSUME PInv, NEW i \in Ids, Check(i) \/ CheckAll
    PROVE  PInv'
<1>1. /\ UNCHANGED <<page, account, shown, action, phase, asked, ask, listeners,
                     wire, answers, leaving, left, sent, told, done, others, calm>>
      /\ checked' \subseteq shown
    BY DEF Check, CheckAll, Flip, network, history, PInv, PageTypeOK
<1> QED BY <1>1 DEF PInv, PageTypeOK, FormsKeepWord, OpsOfPage, ReadButtons, AnswersTrue,
                    RowsVanishOnlyWhenGone, OpenDialogListens, AnswersAsked

LEMMA ConfirmPreserves ==
    ASSUME PInv, NEW form \in BOOLEAN, NEW op \in Ops, NEW ids \in SUBSET Ids,
           Confirm(form, op, ids),
           ~form => op \in page.ops,
           form => \E i \in Ids : ids = {i} /\ (op # "delete" => action[i] = op)
    PROVE  PInv'
<1>1. /\ asked \in 0..MaxAsks /\ asked < MaxAsks /\ asked' = asked + 1
      /\ listeners' = listeners \cup {asked'} /\ phase' = "opening"
      /\ ask' = [ask EXCEPT ![asked'] = [form |-> form, op |-> op, ids |-> ids]]
      /\ UNCHANGED <<page, account, shown, checked, action, wire, answers, leaving,
                     left, sent, told, done, others, calm>>
    BY DEF Confirm, Listen, document, network, history, PInv, PageTypeOK
<1>2. asked' \in Asks /\ 1..asked' = (1..asked) \cup {asked'} /\ asked' \notin 1..asked
    BY <1>1, AskFacts
<1>3. ask'[asked'] = [form |-> form, op |-> op, ids |-> ids]
      /\ \A n \in 1..asked : ask'[n] = ask[n]
    BY <1>1, <1>2, AskFacts DEF PInv, PageTypeOK
<1>4. PageTypeOK'
    <2>1. ask' \in [Asks -> AskRow]
        BY <1>1, <1>2 DEF PInv, PageTypeOK, AskRow
    <2>2. /\ listeners' \subseteq 1..asked' /\ sent' \cup told' \subseteq 1..asked'
          /\ leaving' \in 0..asked' /\ asked' \in 0..MaxAsks
        BY <1>1, <1>2, AskFacts DEF PInv, PageTypeOK
    <2> QED BY <1>1, <2>1, <2>2 DEF PInv, PageTypeOK
<1>5. FormsKeepWord'
    <2>1. SUFFICES ASSUME NEW n \in 1..asked', ask'[n].form
                   PROVE  \E i \in Ids :
                            /\ ask'[n].ids = {i}
                            /\ ask'[n].op # "delete" =>
                                 /\ action[i] \in Ops
                                 /\ action[i] = ask'[n].op \/ <<ask'[n].op, i>> \in done
        BY <1>1 DEF FormsKeepWord
    <2>2. CASE n \in 1..asked
        <3>1. ask'[n] = ask[n]
            BY <1>3, <2>2
        <3>2. PICK i \in Ids :
                /\ ask[n].ids = {i}
                /\ ask[n].op # "delete" =>
                     /\ action[i] \in Ops
                     /\ action[i] = ask[n].op \/ <<ask[n].op, i>> \in done
            BY <2>1, <2>2, <3>1 DEF PInv, FormsKeepWord
        <3> QED BY <3>1, <3>2
    <2>3. CASE n = asked'
        BY <1>3, <2>1, <2>3
    <2> QED BY <1>2, <2>2, <2>3
<1>6. OpsOfPage'
    BY <1>1, <1>2, <1>3 DEF PInv, OpsOfPage
<1>7. OpenDialogListens'
    BY <1>1, <1>2 DEF PInv, PageTypeOK, OpenDialogListens
<1>8. AnswersAsked'
    BY <1>1, <1>2 DEF PInv, AnswersAsked
<1> QED BY <1>1, <1>4, <1>5, <1>6, <1>7, <1>8
    DEF PInv, ReadButtons, AnswersTrue, RowsVanishOnlyWhenGone

\* The dialog fades, or is cancelled.
LEMMA DialogPreserves ==
    ASSUME PInv, Fade \/ Cancel
    PROVE  PInv'
<1>1. /\ UNCHANGED <<page, account, shown, checked, action, asked, ask, listeners,
                     wire, answers, leaving, left, sent, told, done, others, calm>>
      /\ phase' \in {"hidden", "opening", "shown", "closing"}
      /\ phase' \in {"opening", "shown"} => phase \in {"opening", "shown"}
    BY DEF Fade, Cancel, document, network, history
<1> QED BY <1>1 DEF PInv, PageTypeOK, FormsKeepWord, OpsOfPage, ReadButtons, AnswersTrue,
                    RowsVanishOnlyWhenGone, OpenDialogListens, AnswersAsked

LEMMA YesFacts ==
    ASSUME PInv, Yes
    PROVE  \E out \in SUBSET listeners :
              /\ {n \in listeners : ~ask[n].form} \subseteq out
              /\ \A n \in {k \in listeners : ask[k].form /\ ask[k].ids \subseteq shown} :
                    (\A k \in {j \in listeners : ask[j].form /\ ask[j].ids \subseteq shown} :
                         k <= n) => n \in out
              /\ wire' = wire \cup {RequestOf(n) : n \in out}
              /\ sent' = sent \cup out
              /\ leaving' \in {leaving} \cup listeners
              /\ calm' \in BOOLEAN
              /\ listeners' = {}
              /\ phase' \in {phase, "closing"}
              /\ UNCHANGED <<page, account, shown, checked, action, asked, ask, answers,
                             left, told, done, others>>
BY DEF Yes, Forget, Hide, document, PInv, PageTypeOK

LEMMA YesPreserves ==
    ASSUME PInv, Yes
    PROVE  PInv'
<1>1. PICK out \in SUBSET listeners :
        /\ wire' = wire \cup {RequestOf(n) : n \in out}
        /\ sent' = sent \cup out
        /\ leaving' \in {leaving} \cup listeners
        /\ calm' \in BOOLEAN
        /\ listeners' = {}
        /\ phase' \in {phase, "closing"}
        /\ UNCHANGED <<page, account, shown, checked, action, asked, ask, answers,
                       left, told, done, others>>
    BY YesFacts
<1>2. wire' \subseteq Request
    BY <1>1, SentRequest DEF PInv, PageTypeOK
<1>3. sent' \subseteq 1..asked /\ leaving' \in 0..asked
    <2>1. /\ asked \in Nat /\ out \subseteq 1..asked /\ sent \subseteq 1..asked
          /\ leaving \in 0..asked /\ listeners \subseteq 1..asked
        BY AskFacts DEF PInv, PageTypeOK
    <2>2. sent' \subseteq 1..asked
        BY <1>1, <2>1
    <2>3. \A n \in listeners : n \in 0..asked
        BY <2>1
    <2>4. leaving' \in 0..asked
        BY <1>1, <2>1, <2>3
    <2> QED BY <2>2, <2>4
<1>4. PageTypeOK'
    BY <1>1, <1>2, <1>3 DEF PInv, PageTypeOK
<1>5. OpsOfPage'
    <2>1. ASSUME NEW m \in wire', ~m.form PROVE m.op \in page.ops
        <3>1. CASE m \in wire
            BY <2>1, <3>1 DEF PInv, OpsOfPage
        <3>2. CASE m \notin wire
            <4>1. PICK n \in out : m = RequestOf(n)
                BY <1>1, <3>2
            <4> QED BY <2>1, <4>1, SentRequest DEF PInv, OpsOfPage, PageTypeOK
        <3> QED BY <3>1, <3>2
    <2> QED BY <1>1, <2>1 DEF PInv, OpsOfPage
<1>6. AnswersAsked'
    BY <1>1, SentRequest DEF PInv, PageTypeOK, AnswersAsked
<1> QED BY <1>1, <1>4, <1>5, <1>6
    DEF PInv, FormsKeepWord, ReadButtons, AnswersTrue, RowsVanishOnlyWhenGone, OpenDialogListens

\* The server works, and the answer tells of no more than what it did.
LEMMA RespondPreserves ==
    ASSUME PInv, NEW m \in wire, NEW S \in SUBSET Affected(m.op, m.ids),
           NEW data \in {{}, S}, account' = Changed(m.op, S), Respond(m, data),
           UNCHANGED <<page, document, phase, asked, ask, listeners, leaving,
                       sent, told, done, others>>,
           calm' \in BOOLEAN
    PROVE  PInv'
<1>1. m \in Request /\ m.op \in Ops /\ m.ids \in SUBSET Ids /\ m.n \in Asks
    BY DEF PInv, PageTypeOK, Request
<1>2. /\ wire' = wire \ {m} /\ left' \in BOOLEAN
      /\ answers' \subseteq answers \cup {[n |-> m.n, op |-> m.op, ids |-> data]}
      /\ m.form => answers' = answers
    BY DEF Respond
<1>3. /\ S \subseteq m.ids
      /\ account' \in [Ids -> States]
      /\ \A i \in Ids : account[i] = "gone" => account'[i] = "gone"
      /\ m.op = "delete" => \A i \in S : account'[i] = "gone"
    BY <1>1, ChangedFacts DEF PInv, PageTypeOK
<1>4. [n |-> m.n, op |-> m.op, ids |-> data] \in Answer
    BY <1>1, <1>3 DEF Answer
<1>5. PageTypeOK'
    BY <1>2, <1>3, <1>4 DEF PInv, PageTypeOK, document
<1>6. AnswersTrue'
    BY <1>2, <1>3 DEF PInv, PageTypeOK, Answer, AnswersTrue
<1>7. OpsOfPage'
    BY <1>2 DEF PInv, OpsOfPage
<1>8. RowsVanishOnlyWhenGone'
    BY <1>3 DEF PInv, RowsVanishOnlyWhenGone, document
<1>9. AnswersAsked'
    BY <1>2 DEF PInv, AnswersAsked
<1> QED BY <1>5, <1>6, <1>7, <1>8, <1>9
    DEF PInv, FormsKeepWord, ReadButtons, OpenDialogListens, document

\* The callback changes the rows of its answer, and those only.
LEMMA ReceiveFacts ==
    ASSUME PInv, NEW a \in answers, Receive(a)
    PROVE  /\ a.op \in page.ops /\ a.ids \subseteq Ids /\ a.n \in Asks
           /\ \E S \in SUBSET (a.ids \cap shown) :
                \/ a.op = "delete" /\ shown' = shown \ S /\ checked' = checked \ S /\ action' = action
                \/ /\ a.op # "delete" /\ shown' = shown /\ checked' = checked
                   /\ action' = IF a.op = "read" THEN action
                                ELSE [i \in Ids |-> IF i \in S THEN Reverse(a.op) ELSE action[i]]
           /\ answers' = answers \ {a}
           /\ told' = told \cup {a.n}
           /\ done' = done \cup ({a.op} \X a.ids)
           /\ UNCHANGED <<page, account, phase, asked, ask, listeners, wire, leaving, left,
                          sent, others, calm>>
BY DEF Receive, Removes, PInv, PageTypeOK, Answer, OpsOfPage

LEMMA ReceivePreserves ==
    ASSUME PInv, NEW a \in answers, Receive(a)
    PROVE  PInv'
<1>1. /\ a.op \in page.ops /\ a.ids \subseteq Ids /\ a.n \in Asks /\ a.op \in Ops
      /\ answers' = answers \ {a}
      /\ told' = told \cup {a.n}
      /\ done' = done \cup ({a.op} \X a.ids)
      /\ UNCHANGED <<page, account, phase, asked, ask, listeners, wire, leaving, left,
                     sent, others, calm>>
    BY ReceiveFacts DEF PInv, PageTypeOK, Answer
<1>2. PICK S \in SUBSET (a.ids \cap shown) :
        \/ a.op = "delete" /\ shown' = shown \ S /\ checked' = checked \ S /\ action' = action
        \/ /\ a.op # "delete" /\ shown' = shown /\ checked' = checked
           /\ action' = IF a.op = "read" THEN action
                        ELSE [i \in Ids |-> IF i \in S THEN Reverse(a.op) ELSE action[i]]
    BY ReceiveFacts
<1>3. /\ shown' \subseteq shown /\ checked' \subseteq shown'
      /\ \A i \in shown \ shown' : a.op = "delete" /\ i \in a.ids
    BY <1>2 DEF PInv, PageTypeOK
<1>4. Reverse(a.op) \in {"ban", "unban"} /\ (a.op = "unban" => Reverse(a.op) = "ban")
      /\ (a.op = "ban" => Reverse(a.op) = "unban")
    BY DEF Reverse
<1>5. /\ action' \in [Ids -> Ops \cup {"none"}]
      /\ \A i \in Ids : \/ action'[i] = action[i]
                         \/ /\ a.op \in {"ban", "unban"} /\ i \in a.ids
                            /\ action'[i] = Reverse(a.op)
    BY <1>1, <1>2, <1>4 DEF PInv, PageTypeOK, Ops
<1>6. PageTypeOK'
    <2>1. a.n \in 1..asked
        BY DEF PInv, AnswersAsked
    <2>2. done' \subseteq Ops \X Ids
        BY <1>1 DEF PInv, PageTypeOK
    <2>3. told' \subseteq 1..asked
        BY <1>1, <2>1 DEF PInv, PageTypeOK
    <2> QED BY <1>1, <1>3, <1>5, <2>2, <2>3 DEF PInv, PageTypeOK
<1>7. FormsKeepWord'
    <2>1. SUFFICES ASSUME NEW n \in 1..asked, ask[n].form
                   PROVE  \E i \in Ids :
                            /\ ask[n].ids = {i}
                            /\ ask[n].op # "delete" =>
                                 /\ action'[i] \in Ops
                                 /\ action'[i] = ask[n].op \/ <<ask[n].op, i>> \in done'
        BY <1>1 DEF FormsKeepWord
    <2>2. PICK i \in Ids :
            /\ ask[n].ids = {i}
            /\ ask[n].op # "delete" =>
                 /\ action[i] \in Ops
                 /\ action[i] = ask[n].op \/ <<ask[n].op, i>> \in done
        BY <2>1 DEF PInv, FormsKeepWord
    <2>3. ask[n].op \in Ops
        BY AskFacts DEF PInv, PageTypeOK, AskRow
    <2>4. CASE ask[n].op = "delete" \/ action'[i] = action[i]
        BY <1>1, <2>2, <2>4
    <2>5. CASE ask[n].op # "delete" /\ action'[i] # action[i]
        <3>1. /\ a.op \in {"ban", "unban"} /\ i \in a.ids
              /\ action'[i] = Reverse(a.op) /\ action'[i] \in Ops
            BY <1>4, <1>5, <2>5 DEF Ops
        <3>2. CASE <<ask[n].op, i>> \in done
            BY <1>1, <2>2, <3>1, <3>2
        <3>3. CASE action[i] = ask[n].op
            <4>1. action[i] # "read"
                BY <1>1, <3>1 DEF PInv, ReadButtons
            <4>2. ask[n].op \in {"ban", "unban"}
                BY <2>3, <2>5, <3>3, <4>1 DEF Ops
            <4>3. ask[n].op = a.op
                BY <1>4, <2>5, <3>1, <3>3, <4>2
            <4>4. <<ask[n].op, i>> \in done'
                BY <1>1, <3>1, <4>3
            <4> QED BY <2>2, <3>1, <4>4
        <3> QED BY <2>2, <2>5, <3>2, <3>3
    <2> QED BY <2>4, <2>5
<1>8. ReadButtons'
    BY <1>1, <1>4, <1>5 DEF PInv, ReadButtons
<1>9. RowsVanishOnlyWhenGone'
    BY <1>1, <1>3 DEF PInv, AnswersTrue, RowsVanishOnlyWhenGone
<1>10. OpsOfPage' /\ AnswersTrue' /\ OpenDialogListens' /\ AnswersAsked'
    BY <1>1 DEF PInv, OpsOfPage, AnswersTrue, OpenDialogListens, AnswersAsked
<1> QED BY <1>6, <1>7, <1>8, <1>9, <1>10 DEF PInv

\* Somebody else works on the server.
LEMMA ElsewherePreserves ==
    ASSUME PInv, NEW i \in Ids, Elsewhere(i)
    PROVE  PInv'
<1>1. PICK op \in page.ops : account' = [account EXCEPT ![i] = After[op]]
    BY DEF Elsewhere
<1>2. /\ account[i] # "gone" /\ others < MaxOthers /\ others' = others + 1
      /\ UNCHANGED <<page, shown, checked, action, phase, asked, ask, listeners,
                     wire, answers, leaving, left, sent, told, done, calm>>
    BY DEF Elsewhere, document, network
<1>3. After[op] \in States
    BY PageFacts DEF PInv, PageTypeOK, After, States, Ops
<1>4. /\ account' \in [Ids -> States]
      /\ \A j \in Ids : account[j] = "gone" => account'[j] = "gone"
    BY <1>1, <1>2, <1>3 DEF PInv, PageTypeOK
<1>5. others' \in 0..MaxOthers
    BY <1>2, BoundsAssumption DEF PInv, PageTypeOK
<1>6. PageTypeOK'
    BY <1>2, <1>4, <1>5 DEF PInv, PageTypeOK
<1> QED BY <1>2, <1>4, <1>6
    DEF PInv, PageTypeOK, Answer, FormsKeepWord, OpsOfPage, ReadButtons, AnswersTrue,
        RowsVanishOnlyWhenGone, OpenDialogListens, AnswersAsked

-----------------------------------------------------------------------------
(* The invariant.                                                          *)

LEMMA NextPreserves == PInv /\ [Next]_vars => PInv'
<1> SUFFICES ASSUME PInv, [Next]_vars PROVE PInv'
    OBVIOUS
<1>1. ASSUME NEW i \in Ids, Check(i) PROVE PInv'
    BY <1>1, CheckingPreserves
<1>2. CASE CheckAll
    <2>1. CASE Ids = {}
        BY <1>2, <2>1 DEF CheckAll, network, history, PInv, PageTypeOK, FormsKeepWord, OpsOfPage,
            ReadButtons, AnswersTrue, RowsVanishOnlyWhenGone, OpenDialogListens, AnswersAsked
    <2>2. CASE Ids # {}
        BY <1>2, <2>2, CheckingPreserves
    <2> QED BY <2>1, <2>2
<1>3. ASSUME NEW op \in Ops, Execute(op) PROVE PInv'
    <2>1. checked \in SUBSET Ids
        BY DEF PInv, PageTypeOK
    <2> QED BY <1>3, <2>1, ConfirmPreserves DEF Execute
<1>4. ASSUME NEW i \in Ids, NEW op \in Ops, Press(i, op) PROVE PInv'
    <2>1. op # "delete" => action[i] = op
        BY <1>4 DEF Press, Buttons
    <2>2. {i} \in SUBSET Ids /\ Confirm(TRUE, op, {i})
        BY <1>4 DEF Press
    <2> QED BY <2>1, <2>2, ConfirmPreserves
<1>5. CASE Fade \/ Cancel
    BY <1>5, DialogPreserves
<1>6. CASE Yes
    BY <1>6, YesPreserves
<1>7. ASSUME NEW m \in wire, Serve(m) PROVE PInv'
    <2>1. calm' \in BOOLEAN
        BY <1>7 DEF Serve, PInv, PageTypeOK
    <2> QED BY <1>7, <2>1, RespondPreserves DEF Serve
<1>8. ASSUME NEW m \in wire, Fail(m) PROVE PInv'
    <2>1. PICK S \in SUBSET Affected(m.op, m.ids) : account' = Changed(m.op, S)
        BY <1>8 DEF Fail
    <2>2. calm' \in BOOLEAN
        BY <1>8 DEF Fail
    <2> QED BY <1>8, <2>1, <2>2, RespondPreserves DEF Fail
<1>9. ASSUME NEW a \in answers, Receive(a) PROVE PInv'
    BY <1>9, ReceivePreserves
<1>10. ASSUME NEW i \in Ids, Elsewhere(i) PROVE PInv'
    BY <1>10, ElsewherePreserves
<1>11. CASE UNCHANGED vars
    BY <1>11 DEF vars, document, network, history, PInv, PageTypeOK, FormsKeepWord, OpsOfPage,
        ReadButtons, AnswersTrue, RowsVanishOnlyWhenGone, OpenDialogListens, AnswersAsked
<1> QED BY <1>1, <1>2, <1>3, <1>4, <1>5, <1>6, <1>7, <1>8, <1>9, <1>10, <1>11
    DEF Next, Settle, Arrive

\* Whatever happens to the requests, the page keeps its invariant.
THEOREM PageInvariance == Spec => []PInv
BY Initially, NextPreserves, PTL DEF Spec

-----------------------------------------------------------------------------
(* Theorems.                                                               *)

\* The document, the dialog and the requests are of their types.
THEOREM PageTypeCorrect == Spec => []PageTypeOK
<1>1. PInv => PageTypeOK
    BY DEF PInv
<1> QED BY <1>1, PageInvariance, PTL

\* A row disappears only when what it stands for is gone on the server.
THEOREM VanishedIsGone == Spec => []RowsVanishOnlyWhenGone
<1>1. PInv => RowsVanishOnlyWhenGone
    BY DEF PInv
<1> QED BY <1>1, PageInvariance, PTL

\* Only the button Yes sends something.
LEMMA NothingNewOnWire ==
    ASSUME PInv, [Next]_vars, ~Yes
    PROVE  wire' \subseteq wire
BY DEF Next, vars, network, Check, CheckAll, Execute, Press, Confirm, Fade, Cancel,
       Settle, Serve, Fail, Respond, Arrive, Receive, Elsewhere

\* What Yes sends are requests of asks that were waiting for the click.
LEMMA SentByYes ==
    ASSUME PInv, Yes, NEW m \in wire' \ wire
    PROVE  /\ m.n \in listeners /\ m.n \notin sent
           /\ m.op # ask[m.n].op => {ask[m.n].op} \X m.ids \subseteq done
<1>1. PICK out \in SUBSET listeners : wire' = wire \cup {RequestOf(n) : n \in out}
    BY YesFacts
<1>2. PICK n \in listeners : m = RequestOf(n)
    BY <1>1
<1>3. /\ m.n = n /\ m.ids = ask[n].ids
      /\ m.op # ask[n].op => {ask[n].op} \X ask[n].ids \subseteq done
    BY <1>2, SentRequest
<1>4. m.n \in listeners /\ m.n \notin sent
    BY <1>3 DEF PInv, OpenDialogListens
<1> QED BY <1>3, <1>4

\* A confirmation is executed at most once.
THEOREM SentOnce == Spec => NothingSentTwice
<1> DEFINE Once == \A m \in wire' \ wire : m.n \notin sent
<1>1. ASSUME PInv, [Next]_vars PROVE [Once]_vars
    BY <1>1, NothingNewOnWire, SentByYes
<1> QED BY <1>1, PageInvariance, PTL DEF Spec, NothingSentTwice

\* A row's form does what its button said, or what it said had been done already.
THEOREM FormsDoAsTheySaid == Spec => MeantOrAlreadyDone
<1> DEFINE Meant == \A m \in wire' \ wire :
                      m.op # ask[m.n].op => {ask[m.n].op} \X m.ids \subseteq done
<1>1. ASSUME PInv, [Next]_vars PROVE [Meant]_vars
    BY <1>1, NothingNewOnWire, SentByYes
<1> QED BY <1>1, PageInvariance, PTL DEF Spec, MeantOrAlreadyDone

\* Yes does what the open dialog asks for, unless that is a form whose row has left.
THEOREM YesDoes == Spec => YesDoesWhatIsAsked
<1> DEFINE Does ==
        listeners # {} /\ listeners' = {} /\ phase \in {"opening", "shown"} =>
            asked \in sent' \/ (ask[asked].form /\ ~(ask[asked].ids \subseteq shown))
<1>1. ASSUME PInv, [Next]_vars PROVE [Does]_vars
    <2>1. CASE Yes
        <3>1. PICK out \in SUBSET listeners :
                /\ {n \in listeners : ~ask[n].form} \subseteq out
                /\ \A n \in {k \in listeners : ask[k].form /\ ask[k].ids \subseteq shown} :
                      (\A k \in {j \in listeners : ask[j].form /\ ask[j].ids \subseteq shown} :
                           k <= n) => n \in out
                /\ sent' = sent \cup out
            BY <1>1, <2>1, YesFacts
        <3>2. \A k \in listeners : k <= asked
            BY <1>1, AskFacts DEF PInv, PageTypeOK
        <3> QED BY <1>1, <3>1, <3>2 DEF PInv, OpenDialogListens
    <2>2. CASE ~Yes
        <3>1. listeners' = listeners \/ listeners' # {}
            BY <1>1, <2>2 DEF Next, vars, Check, CheckAll, Execute, Press, Confirm, Listen, Fade,
                Cancel, Settle, Serve, Fail, Arrive, Receive, Elsewhere
        <3> QED BY <3>1
    <2> QED BY <2>1, <2>2
<1> QED BY <1>1, PageInvariance, PTL DEF Spec, YesDoesWhatIsAsked

-----------------------------------------------------------------------------
(* One request at a time: the page catches up with the server.             *)

\* A row that is there, with the button that fits.
Agrees(i) ==
    /\ account[i] # "gone"
    /\ action[i] \in {"ban", "unban"} => action[i] = page.button[account[i]]

\* Only a list of accounts has buttons to ban and to unban.
BanButtons ==
    \A i \in Ids : action[i] \in {"ban", "unban"} => page.ops \subseteq {"ban", "unban", "delete"}

\* A request and the answer to it are all that is under way, and a form replaces the page.
OneAtATime ==
    /\ \A m, k \in wire : m = k
    /\ \A a, b \in answers : a = b
    /\ wire = {} \/ answers = {}
    /\ \A m \in wire : m.form => m.n = leaving

\* The page is behind the server by the answers under way.
OnlyAnswersMissing ==
    /\ \A a \in answers : a.ids \subseteq shown /\ \A i \in a.ids : account[i] = After[a.op]
    /\ \A i \in shown : Agrees(i) \/ \E a \in answers : i \in a.ids

CalmInv ==
    /\ BanButtons
    /\ calm => OneAtATime
    /\ calm /\ others = 0 /\ ~left => OnlyAnswersMissing

LEMMA PageButtons ==
    ASSUME page \in Pages
    PROVE  /\ page.ops \cap {"ban", "unban"} # {} => page.button = Toggle
           /\ \/ page.ops \subseteq {"ban", "unban", "delete"}
              \/ \A s \in {"plain", "flagged"} : page.button[s] \in {"read", "none"}
BY ButtonsAssumption

LEMMA CalmInitially == Init => CalmInv
<1> SUFFICES ASSUME Init PROVE CalmInv
    OBVIOUS
<1>1. /\ page \in Pages /\ account \in [Ids -> {"plain", "flagged"}]
      /\ action = [i \in Ids |-> page.button[account[i]]]
      /\ wire = {} /\ answers = {} /\ shown = Ids
    BY DEF Init
<1>2. BanButtons
    BY <1>1, PageButtons DEF BanButtons
<1>3. OneAtATime /\ OnlyAnswersMissing
    BY <1>1 DEF OneAtATime, OnlyAnswersMissing, Agrees
<1> QED BY <1>2, <1>3 DEF CalmInv

\* Steps that change neither rows nor requests.
LEMMA CalmStays ==
    ASSUME CalmInv,
           UNCHANGED <<page, account, shown, action, wire, answers, leaving, left>>,
           calm' => calm, others' = 0 => others = 0
    PROVE  CalmInv'
BY DEF CalmInv, BanButtons, OneAtATime, OnlyAnswersMissing, Agrees

\* While no two requests overlap, what Yes sends is alone, and a form is the one that will
\* replace the page.
LEMMA YesAlone ==
    ASSUME PInv, Yes, calm'
    PROVE  /\ calm /\ wire = {} /\ answers = {}
           /\ \A m, k \in wire' : m = k
           /\ \A m \in wire' : m.form => m.n = leaving'
<1> DEFINE bulk  == {n \in listeners : ~ask[n].form}
           forms == {n \in listeners : ask[n].form /\ ask[n].ids \subseteq shown}
<1>1. PICK out \in SUBSET (bulk \cup forms) :
        /\ \A n \in forms : (\A k \in forms : k <= n) => n \in out
        /\ wire' = wire \cup {RequestOf(n) : n \in out}
        /\ calm' = (calm /\ wire = {} /\ answers = {} /\ Cardinality(out) <= 1)
    BY DEF Yes
<1>2. leaving' \in IF forms = {} THEN {leaving}
                  ELSE {n \in forms : \A k \in forms : k <= n}
    BY DEF Yes
<1>3. calm /\ wire = {} /\ answers = {} /\ Cardinality(out) <= 1
    BY <1>1
<1>4. \A n, k \in out : n = k
    <2>1. out \subseteq 1..asked /\ asked \in Nat
        <3>1. listeners \subseteq 1..asked /\ asked \in Nat
            BY AskFacts DEF PInv, PageTypeOK
        <3> QED BY <3>1
    <2>2. IsFiniteSet(out)
        <3>1. IsFiniteSet(1..asked)
            BY <2>1, FS_Interval
        <3> QED BY <2>1, <3>1, FS_Subset
    <2>3. Cardinality(out) \in Nat /\ (Cardinality(out) = 0 \/ Cardinality(out) = 1)
        BY <1>3, <2>2, FS_CardinalityType
    <2>4. out = {} \/ \E x : out = {x}
        BY <2>2, <2>3, FS_EmptySet, FS_Singleton
    <2> QED BY <2>4
<1>5. \A m, k \in wire' : m = k
    BY <1>1, <1>3, <1>4
<1>6. ASSUME NEW m \in wire', m.form PROVE m.n = leaving'
    <2>1. PICK n \in out : m = RequestOf(n)
        BY <1>1, <1>3
    <2>2. m.n = n /\ m.form = ask[n].form /\ n \in listeners
        BY <2>1, SentRequest
    <2>3. n \in forms
        BY <1>6, <2>2
    <2>4. leaving' \in out
        BY <1>1, <1>2, <2>3
    <2> QED BY <1>4, <2>2, <2>4
<1> QED BY <1>3, <1>5, <1>6

LEMMA CalmYes ==
    ASSUME PInv, CalmInv, Yes
    PROVE  CalmInv'
<1>1. UNCHANGED <<page, account, shown, action, answers, left, others>>
    BY YesFacts
<1>2. calm' => calm /\ OneAtATime'
    BY <1>1, YesAlone DEF OneAtATime
<1>3. BanButtons' /\ (OnlyAnswersMissing => OnlyAnswersMissing')
    BY <1>1 DEF CalmInv, BanButtons, OnlyAnswersMissing, Agrees
<1> QED BY <1>1, <1>2, <1>3 DEF CalmInv

\* The one request is worked off: the rows it changed wait for the answer.
LEMMA CalmServe ==
    ASSUME PInv, CalmInv, NEW m \in wire, Serve(m)
    PROVE  CalmInv'
<1> DEFINE S == Affected(m.op, m.ids)
           a == [n |-> m.n, op |-> m.op, ids |-> S]
<1>1. /\ account' = Changed(m.op, S) /\ wire' = wire \ {m}
      /\ answers' = IF m.form THEN answers ELSE answers \cup {a}
      /\ left' = (left \/ m.n = leaving)
      /\ UNCHANGED <<page, shown, action, leaving, others, calm>>
    BY DEF Serve, Respond, document
<1>2. BanButtons'
    BY <1>1 DEF CalmInv, BanButtons
<1>3. ASSUME calm PROVE answers = {} /\ wire' = {} /\ OneAtATime'
    <2>1. answers = {} /\ wire = {m}
        BY <1>3 DEF CalmInv, OneAtATime
    <2> QED BY <1>1, <2>1 DEF OneAtATime
<1>4. ASSUME calm, others = 0, ~left' PROVE OnlyAnswersMissing'
    <2>1. ~left /\ ~m.form /\ OnlyAnswersMissing
        BY <1>1, <1>4 DEF CalmInv, OneAtATime
    <2>2. answers = {} /\ answers' = {a}
        BY <1>1, <1>3, <1>4, <2>1
    <2>3. /\ a.ids = S /\ a.op = m.op
          /\ m.op \in Ops /\ m.ids \subseteq Ids
        BY DEF PInv, PageTypeOK, Request
    <2>4. S \subseteq Ids /\ \A i \in S : account[i] # "gone"
        BY <2>3 DEF Affected, Ops
    <2>5. /\ \A i \in S : account'[i] = After[m.op]
          /\ \A i \in Ids \ S : account'[i] = account[i]
        BY <1>1, <2>4 DEF Changed
    <2>6. S \subseteq shown
        BY <2>4 DEF PInv, RowsVanishOnlyWhenGone
    <2>7. \A i \in shown : Agrees(i)
        BY <2>1, <2>2 DEF OnlyAnswersMissing
    <2>8. \A i \in shown \ S : Agrees(i)'
        BY <1>1, <2>5, <2>7 DEF Agrees, PInv, PageTypeOK
    <2> HIDE DEF S, a
    <2> QED BY <1>1, <2>2, <2>3, <2>5, <2>6, <2>8 DEF OnlyAnswersMissing
<1> QED BY <1>1, <1>2, <1>3, <1>4 DEF CalmInv

\* The callback turns the buttons, or takes the rows away, that its answer tells of.
LEMMA CalmReceive ==
    ASSUME PInv, CalmInv, NEW a \in answers, Receive(a)
    PROVE  CalmInv'
<1>1. /\ a.op \in page.ops /\ a.ids \subseteq Ids /\ a.op \in Ops /\ page \in Pages
      /\ answers' = answers \ {a}
      /\ UNCHANGED <<page, account, wire, leaving, left, others, calm>>
    BY ReceiveFacts DEF PInv, PageTypeOK, Answer
<1>2. PICK S \in SUBSET (a.ids \cap shown) :
        /\ a.ids \subseteq shown => S = a.ids
        /\ IF a.op = "delete" THEN shown' = shown \ S /\ action' = action
           ELSE /\ action' = IF a.op = "read" THEN action
                             ELSE [i \in Ids |-> IF i \in S THEN Reverse(a.op) ELSE action[i]]
                /\ shown' = shown
    BY DEF Receive, Removes
<1>3. a.op \in {"ban", "unban"} => page.button = Toggle
    BY <1>1, PageButtons
<1>4. /\ a.op = "ban" => Reverse(a.op) = "unban" /\ After[a.op] = "flagged"
      /\ a.op = "unban" => Reverse(a.op) = "ban" /\ After[a.op] = "plain"
      /\ Toggle["flagged"] = "unban" /\ Toggle["plain"] = "ban"
    BY DEF Reverse, After, Toggle
<1>5. BanButtons'
    <2>1. a.op \in {"ban", "unban"} => page.ops \subseteq {"ban", "unban", "delete"}
        BY <1>1, ButtonsAssumption
    <2>2. \A i \in Ids : action'[i] = action[i] \/ a.op \in {"ban", "unban"}
        BY <1>1, <1>2 DEF Ops, PInv, PageTypeOK
    <2> QED BY <1>1, <2>1, <2>2 DEF CalmInv, BanButtons
<1>6. calm => OneAtATime'
    BY <1>1 DEF CalmInv, OneAtATime
<1>7. ASSUME calm, others = 0, ~left PROVE OnlyAnswersMissing'
    <2>1. OnlyAnswersMissing /\ \A b \in answers : b = a
        BY <1>7 DEF CalmInv, OneAtATime
    <2>2. S = a.ids /\ \A i \in a.ids : account[i] = After[a.op]
        BY <1>2, <2>1 DEF OnlyAnswersMissing
    <2>3. \A i \in shown \ a.ids : Agrees(i)
        BY <2>1 DEF OnlyAnswersMissing
    <2>4. answers' = {}
        BY <1>1, <2>1
    <2>5. shown \subseteq Ids
        BY DEF PInv, PageTypeOK
    <2>6. \A i \in shown' \ a.ids : Agrees(i)'
        BY <1>1, <1>2, <2>2, <2>3, <2>5 DEF Agrees
    <2>7. ASSUME NEW i \in shown', i \in a.ids PROVE Agrees(i)'
        <3>1. i \in Ids /\ account'[i] = After[a.op] /\ a.op # "delete"
            BY <1>1, <1>2, <2>2, <2>5, <2>7
        <3>2. CASE a.op \in {"ban", "unban"}
            <4>1. action'[i] = Reverse(a.op)
                BY <1>1, <1>2, <2>2, <2>7, <3>2
            <4>2. page'.button = Toggle
                BY <1>1, <1>3, <3>2
            <4> QED BY <1>4, <3>1, <3>2, <4>1, <4>2 DEF Agrees
        <3>3. CASE a.op = "read"
            <4>1. action'[i] = action[i] /\ After["read"] = "flagged"
                BY <1>2, <3>3 DEF After
            <4>2. action[i] \notin {"ban", "unban"}
                BY <1>1, <3>1, <3>3 DEF CalmInv, BanButtons
            <4> QED BY <3>1, <3>3, <4>1, <4>2 DEF Agrees
        <3> QED BY <1>1, <3>1, <3>2, <3>3 DEF Ops
    <2> QED BY <2>4, <2>6, <2>7 DEF OnlyAnswersMissing
<1> QED BY <1>1, <1>5, <1>6, <1>7 DEF CalmInv

LEMMA CalmStep == PInv /\ CalmInv /\ [Next]_vars => CalmInv'
<1> SUFFICES ASSUME PInv, CalmInv, [Next]_vars PROVE CalmInv'
    OBVIOUS
<1>1. ASSUME \/ \E i \in Ids : Check(i)
             \/ CheckAll
             \/ \E op \in Ops : Execute(op)
             \/ \E i \in Ids, op \in Ops : Press(i, op)
             \/ Fade
             \/ Cancel
             \/ UNCHANGED vars
      PROVE  CalmInv'
    <2>1. UNCHANGED <<page, account, shown, action, wire, answers, leaving, left, calm, others>>
        BY <1>1 DEF Check, CheckAll, Execute, Press, Confirm, Fade, Cancel, vars, document,
                    network, history
    <2> QED BY <2>1, CalmStays
<1>2. ASSUME NEW m \in wire, Fail(m) PROVE CalmInv'
    <2>1. ~calm' /\ UNCHANGED <<page, action>>
        BY <1>2 DEF Fail, document
    <2> QED BY <2>1 DEF CalmInv, BanButtons
<1>3. ASSUME NEW i \in Ids, Elsewhere(i) PROVE CalmInv'
    <2>1. /\ others' = others + 1 /\ others \in Nat
          /\ UNCHANGED <<page, action, wire, answers, leaving, left, calm>>
        BY <1>3 DEF Elsewhere, document, network, PInv, PageTypeOK
    <2>2. others' # 0
        BY <2>1
    <2> QED BY <2>1, <2>2 DEF CalmInv, BanButtons, OneAtATime
<1> QED BY <1>1, <1>2, <1>3, CalmYes, CalmServe, CalmReceive DEF Next, Settle, Arrive

\* When nothing is under way, requests never overlapped or died and nobody else worked,
\* the page shows what is on the server: no row of something gone, and the button of each
\* user says what can be done to him.  (The loop of send_data.)
THEOREM PageShowsServer == Spec => []PageCatchesUp
<1>1. Spec => []CalmInv
    BY CalmInitially, CalmStep, PageInvariance, PTL DEF Spec
<1>2. CalmInv => PageCatchesUp
    BY DEF CalmInv, OnlyAnswersMissing, Agrees, PageCatchesUp
<1> QED BY <1>1, <1>2, PTL
=============================================================================
