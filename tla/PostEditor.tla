----------------------------- MODULE PostEditor -----------------------------
(***************************************************************************)
(* The editor of a post in the browser: the text area with its preview     *)
(* (editor.js), the suggestions of emojis for what is typed after a colon  *)
(* (editor.js with the package textcomplete) and the buttons that put the  *)
(* quote of a post into it (flaskbb.js, RawPost in forum/views.py).        *)
(*                                                                         *)
(* The cursor is at the end of the text, where typing and quoting leave    *)
(* it; moving it and deleting what was typed are left out.  Of a text we   *)
(* keep which quote it begins with, how much was written since, the emoji  *)
(* put in last, the term after a colon at its end and whether its end is   *)
(* inside of code.                                                         *)
(***************************************************************************)
EXTENDS Integers, Sequences, FiniteSets

CONSTANTS
    Emojis,     \* the table of emoji.js, a sequence of names
    Terms,      \* what may stand between a colon and the cursor
    Longer,     \* the terms one gets by typing on, per term
    Finds,      \* the pairs of a name and a term that is in it
    InCodePosts,\* may a quoted post leave its end in code
    MaxClicks,  \* bound: clicks on quote buttons
    MaxWords    \* bound: words written

NoTerm == "no term"
Clicks == 1..MaxClicks

ASSUME EmojisAssumption == Emojis \in Seq(STRING)
\* A colon alone is a match of the pattern, with an empty term.
ASSUME TermsAssumption ==
    NoTerm \notin Terms /\ "" \in Terms /\ Longer \in [Terms -> SUBSET Terms]
ASSUME EditorBoundsAssumption ==
    MaxClicks \in Nat /\ MaxWords \in Nat /\ InCodePosts \subseteq BOOLEAN

VARIABLES
    draft,    \* the value of the text area
    view,     \* what is displayed: the text area or the preview
    toolbar,  \* whether the buttons of the toolbar are active
    preview,  \* the text the preview was rendered from
    items,    \* the suggestions in the dropdown, rows of the table
    inFlight, \* Textcomplete.isQueryInFlight outside of a query: one never ended
    clicks,   \* clicks on quote buttons so far
    wire,     \* clicks whose answer is under way
    \* history
    orderly,  \* no click was made while another one was unanswered
    answered  \* the latest of the clicks that were answered since the user typed, or 0

vars == <<draft, view, toolbar, preview, items, inFlight, clicks, wire, orderly, answered>>

Rows == DOMAIN Emojis
Text == [quote: 0..MaxClicks, words: 0..MaxWords, icon: 0..Len(Emojis),
         term: Terms \cup {NoTerm}, code: BOOLEAN]
Empty == [quote |-> 0, words |-> 0, icon |-> 0, term |-> NoTerm, code |-> FALSE]

MaxCountMore == 6
MaxCount == 5

EditorTypeOK ==
    /\ draft \in Text /\ preview \in Text
    /\ view \in {"textarea", "preview"}
    /\ toolbar \in BOOLEAN
    /\ items \subseteq Rows /\ Cardinality(items) <= 5
    /\ inFlight \in BOOLEAN
    /\ clicks \in 0..MaxClicks
    /\ wire \subseteq 1..clicks
    /\ orderly \in BOOLEAN
    /\ answered \in 0..clicks

-----------------------------------------------------------------------------
(* Suggestions.                                                            *)

\* The search callback keeps a null for every row that does not match, ...
SearchFirst(t) == [r \in Rows |-> r = 1 \/ <<Emojis[r], t>> \in Finds]
Search(t) == [r \in Rows |-> <<Emojis[r], t>> \in Finds]

\* ... and the dropdown renders the first rows of what it is given.
Rendered == {r \in Rows : r <= MaxCount}

\* context and match of the strategy
Matched(d) == IF d.code THEN NoTerm ELSE d.term

\* Textcomplete.trigger.  A query for a term of which a rendered row is null ends in
\* the template with an error, after the dropdown was cleared, and remains in flight.
\* While one is in flight the others wait.
Trigger(d) ==
    LET t == Matched(d) IN
    IF inFlight THEN UNCHANGED <<items, inFlight>>
    ELSE IF t = NoTerm THEN items' = {} /\ UNCHANGED inFlight
    ELSE IF \A r \in Rendered : Search(t)[r] THEN items' = Rendered /\ UNCHANGED inFlight
    ELSE items' = {} /\ inFlight' = TRUE

-----------------------------------------------------------------------------
Init ==
    /\ draft = Empty /\ preview = Empty
    /\ view = "textarea" /\ toolbar = TRUE
    /\ items = {} /\ inFlight = FALSE
    /\ clicks = 0 /\ wire = {}
    /\ orderly = TRUE /\ answered = 0

\* What one keystroke makes of a text: a colon opens a term (one follows a space), a
\* letter makes it longer, a space ends it, a backtick enters or leaves code.
Keystrokes(d) ==
    {[d EXCEPT !.term = t] : t \in IF d.term = NoTerm THEN {""} ELSE Longer[d.term]}
      \cup {[d EXCEPT !.term = NoTerm, !.words = @ + 1, !.code = c] :
              c \in IF d.words = MaxWords THEN {} ELSE BOOLEAN}

\* Typing fires the event input, which Textcomplete listens to.
Type ==
    /\ view = "textarea"
    /\ draft' \in Keystrokes(draft)
    /\ Trigger(draft')
    /\ answered' = 0
    /\ UNCHANGED <<view, toolbar, preview, clicks, wire, orderly>>

\* A button of the toolbar writes into the text, which is an event input, too.  The
\* toolbar is an external package; that the class "disabled", which is all editor.js
\* sets under the preview, stops its buttons, pressed by keyboard or mouse, is assumed.
Format ==
    /\ toolbar /\ draft.words < MaxWords
    /\ draft' = [draft EXCEPT !.words = @ + 1, !.term = NoTerm]
    /\ Trigger(draft')
    /\ answered' = 0
    /\ UNCHANGED <<view, toolbar, preview, clicks, wire, orderly>>

\* What choosing a row makes of the text, Strategy.replace: the term at the cursor,
\* matched anew, gives way to the emoji; without one nothing happens.
ReplaceBlindly(d, r) == [d EXCEPT !.term = NoTerm, !.icon = r]
Replace(d, r) == IF d.term = NoTerm THEN d
                 ELSE [d EXCEPT !.term = NoTerm, !.icon = r]

\* Enter, or a click on a suggestion: the dropdown stays while the preview is displayed.
\* The event input that ends it finds no term, and the dropdown hides.
Select(r) ==
    /\ r \in items
    /\ draft' = Replace(draft, r)
    /\ items' = {}
    /\ answered' = IF draft' = draft THEN answered ELSE 0
    /\ UNCHANGED <<view, toolbar, preview, inFlight, clicks, wire, orderly>>

\* The key Esc hides the dropdown.
Esc ==
    /\ view = "textarea" /\ items # {}
    /\ items' = {}
    /\ UNCHANGED <<draft, view, toolbar, preview, inFlight, clicks, wire, orderly, answered>>

\* markdownPreview, a click on the button Preview.
ButtonsAlways == TRUE
Buttons == FALSE   \* disableButtons

MarkdownPreview ==
    /\ IF view = "textarea"
       THEN view' = "preview" /\ toolbar' = Buttons /\ preview' = draft
       ELSE view' = "textarea" /\ toolbar' = TRUE /\ UNCHANGED preview
    /\ UNCHANGED <<draft, items, inFlight, clicks, wire, orderly, answered>>

\* A click on a quote button fetches the raw post.
Quote ==
    /\ clicks < MaxClicks
    /\ clicks' = clicks + 1
    /\ wire' = wire \cup {clicks'}
    /\ orderly' = (orderly /\ wire = {})
    /\ UNCHANGED <<draft, view, toolbar, preview, items, inFlight, answered>>

\* Its answer, whatever page it is, replaces the text without an event input.  A quote
\* ends with a line break: no term is at its end.
QuoteIntoEmpty(n, code) ==
    IF draft = Empty THEN [Empty EXCEPT !.quote = n, !.code = code] ELSE draft
QuoteInto(n, code) == [Empty EXCEPT !.quote = n, !.code = code]

Answer(n) ==
    /\ n \in wire
    /\ wire' = wire \ {n}
    /\ \E code \in InCodePosts : draft' = QuoteInto(n, code)
    /\ answered' = IF n > answered THEN n ELSE answered
    /\ UNCHANGED <<view, toolbar, preview, items, inFlight, clicks, orderly>>

\* The fetch fails: a line in the console.
Fail(n) ==
    /\ n \in wire
    /\ wire' = wire \ {n}
    /\ UNCHANGED <<draft, view, toolbar, preview, items, inFlight, clicks, orderly, answered>>

Next ==
    \/ Type
    \/ Format
    \/ \E r \in Rows : Select(r)
    \/ Esc
    \/ MarkdownPreview
    \/ Quote
    \/ \E n \in Clicks : Answer(n)
    \/ \E n \in Clicks : Fail(n)

Spec == Init /\ [][Next]_vars

-----------------------------------------------------------------------------
(* Properties.                                                             *)

IsQuote(d) == d.quote # 0 /\ d.words = 0 /\ d.icon = 0 /\ d.term = NoTerm

\* The preview shows the text that would be posted, but for two ways to change it under
\* the preview: a quote that arrives, and a suggestion chosen from the list that was
\* open.  (markdownPreview against the other writers of the text area, buttons of the
\* toolbar taken to be stopped by the class "disabled".)
PreviewMissesOnly ==
    view = "preview" /\ preview # draft =>
        \/ IsQuote(draft)
        \/ \E r \in Rows : draft = Replace(preview, r)

\* When clicks on quote buttons do not overlap, the quote in the editor is that of the
\* latest click whose request did not die, until the user writes something, suggestions
\* included that were open when it arrived.  (The callback of the quote buttons.)
LastClickStands ==
    orderly /\ answered # 0 => IsQuote(draft) /\ draft.quote = answered

\* An emoji enters the text only in place of a term its name contains, even when the
\* text was replaced under an open list of suggestions.  (Textcomplete keeps the list
\* and matches the text anew when a row is chosen.)
EmojiOnlyForTerm ==
    [][draft'.icon \notin {draft.icon, 0} =>
          ~draft.code /\ <<Emojis[draft'.icon], draft.term>> \in Finds]_vars

\* The suggestions on display are ones for the term at the cursor, if there is one: none
\* are left over from a shorter term once a query failed.
SuggestionsFitTerm ==
    draft.term # NoTerm => \A r \in items : <<Emojis[r], draft.term>> \in Finds

\* "Type a colon and let the editor autocomplete the emoji short name": typing a term
\* that is in some name, outside of code, brings up suggestions.
ColonSuggests ==
    [][draft'.term # draft.term /\ draft'.term # NoTerm /\ ~draft'.code
          /\ (\E r \in Rows : Search(draft'.term)[r])
       => items' # {}]_vars
=============================================================================
