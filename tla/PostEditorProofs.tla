-------------------------- MODULE PostEditorProofs --------------------------
(***************************************************************************)
(* Theorems of PostEditor: what the text, the preview and the suggestions  *)
(* have to do with each other, for any table of emojis.                    *)
(***************************************************************************)
EXTENDS PostEditor, FiniteSetTheorems, TLAPS

\* The toolbar is off under the preview, so only answers and the dropdown write there.
PreviewLocksToolbar == view = "preview" => ~toolbar

\* Suggestions are open for a term outside of code or left over from one that is gone,
\* and never beside a query that failed.
ListFollowsTerm ==
    /\ inFlight => items = {}
    /\ items # {} /\ draft.term # NoTerm => ~draft.code

\* As long as clicks do not overlap, what is under way is later than what was answered.
OnlyLatestUnderWay == orderly => wire \subseteq {clicks} /\ \A n \in wire : answered < n

EInv ==
    /\ EditorTypeOK
    /\ PreviewLocksToolbar /\ PreviewMissesOnly
    /\ ListFollowsTerm /\ SuggestionsFitTerm
    /\ OnlyLatestUnderWay /\ LastClickStands

-----------------------------------------------------------------------------
(* Lemmas on the operators.                                                *)

LEMMA RowFacts ==
    /\ Len(Emojis) \in Nat
    /\ Rows = 1..Len(Emojis)
    /\ Rows \subseteq 0..Len(Emojis)
BY EmojisAssumption DEF Rows

LEMMA BoundFacts ==
    /\ MaxClicks \in Nat /\ MaxWords \in Nat
    /\ 0 \in 0..MaxClicks /\ 0 \in 0..MaxWords
BY EditorBoundsAssumption

LEMMA EmptyTyped == Empty \in Text
BY RowFacts, BoundFacts DEF Empty, Text

\* The dropdown never renders more than five rows.
LEMMA RenderedFew ==
    /\ Rendered \subseteq Rows
    /\ \A I : I \subseteq Rendered => Cardinality(I) <= 5
    /\ Cardinality({}) <= 5
<1>1. Rendered \subseteq Rows /\ Rendered \subseteq 1..5
    BY RowFacts DEF Rendered, MaxCount
<1>2. IsFiniteSet(1..5) /\ Cardinality(1..5) = 5
    <2>1. /\ IsFiniteSet(1..5)
          /\ Cardinality(1..5) = IF 1 > 5 THEN 0 ELSE 5 - 1 + 1
        BY FS_Interval, 1 \in Int, 5 \in Int, Zenon
    <2> QED BY <2>1
<1>3. ASSUME NEW I, I \subseteq Rendered PROVE Cardinality(I) <= 5
    BY <1>1, <1>2, <1>3, FS_Subset
<1> QED BY <1>1, <1>3

LEMMA KeystrokesTyped ==
    ASSUME NEW d \in Text, NEW k \in Keystrokes(d)
    PROVE  k \in Text
<1>1. CASE k \in {[d EXCEPT !.term = t] : t \in IF d.term = NoTerm THEN {""} ELSE Longer[d.term]}
    <2>1. PICK t \in IF d.term = NoTerm THEN {""} ELSE Longer[d.term] :
              k = [d EXCEPT !.term = t]
        BY <1>1
    <2>2. d.term = NoTerm \/ d.term \in Terms
        BY DEF Text
    <2>3. t \in Terms
        BY <2>1, <2>2, TermsAssumption
    <2> QED BY <2>1, <2>3 DEF Text
<1>2. CASE k \in {[d EXCEPT !.term = NoTerm, !.words = @ + 1, !.code = c] :
                    c \in IF d.words = MaxWords THEN {} ELSE BOOLEAN}
    <2>1. PICK c \in BOOLEAN :
              /\ d.words # MaxWords
              /\ k = [d EXCEPT !.term = NoTerm, !.words = @ + 1, !.code = c]
        BY <1>2
    <2>2. d.words + 1 \in 0..MaxWords
        BY <2>1, BoundFacts DEF Text
    <2> QED BY <2>1, <2>2 DEF Text
<1> QED BY <1>1, <1>2 DEF Keystrokes

LEMMA ReplaceTyped ==
    ASSUME NEW d \in Text, NEW r \in Rows
    PROVE  /\ Replace(d, r) \in Text
           /\ Replace(d, r).term = NoTerm
           /\ d.term = NoTerm => Replace(d, r) = d
<1>1. r \in 0..Len(Emojis)
    BY RowFacts
<1> QED BY <1>1 DEF Replace, Text

LEMMA QuoteTyped ==
    ASSUME NEW n \in 1..MaxClicks, NEW c \in BOOLEAN
    PROVE  /\ QuoteInto(n, c) \in Text
           /\ IsQuote(QuoteInto(n, c))
           /\ QuoteInto(n, c).quote = n /\ QuoteInto(n, c).term = NoTerm
<1>1. /\ Empty \in Text
      /\ Empty.words = 0 /\ Empty.icon = 0 /\ Empty.term = NoTerm
    BY EmptyTyped DEF Empty
<1>2. n # 0 /\ n \in 0..MaxClicks
    BY BoundFacts
<1> QED BY <1>1, <1>2 DEF QuoteInto, Text, IsQuote

\* What a query leaves on display fits the term it was for.
LEMMA TriggerFits ==
    ASSUME NEW d \in Text, Trigger(d), EditorTypeOK, ListFollowsTerm
    PROVE  /\ items' \subseteq Rows /\ Cardinality(items') <= 5
           /\ inFlight' \in BOOLEAN
           /\ inFlight' => items' = {}
           /\ items' # {} /\ d.term # NoTerm => ~d.code
           /\ d.term # NoTerm => \A r \in items' : <<Emojis[r], d.term>> \in Finds
<1>1. CASE inFlight
    BY <1>1, RenderedFew DEF Trigger, EditorTypeOK, ListFollowsTerm
<1>2. CASE ~inFlight /\ Matched(d) = NoTerm
    BY <1>2, RenderedFew DEF Trigger, EditorTypeOK
<1>3. CASE /\ ~inFlight /\ Matched(d) # NoTerm
           /\ \A r \in Rendered : Search(Matched(d))[r]
    <2>1. items' = Rendered /\ inFlight' = inFlight /\ ~d.code /\ Matched(d) = d.term
        BY <1>3 DEF Trigger, Matched
    <2>2. \A r \in Rendered : <<Emojis[r], d.term>> \in Finds
        BY <1>3, <2>1, RenderedFew DEF Search
    <2> QED BY <1>3, <2>1, <2>2, RenderedFew DEF EditorTypeOK
<1>4. CASE /\ ~inFlight /\ Matched(d) # NoTerm
           /\ ~(\A r \in Rendered : Search(Matched(d))[r])
    BY <1>4, RenderedFew DEF Trigger
<1> QED BY <1>1, <1>2, <1>3, <1>4

-----------------------------------------------------------------------------
(* The invariant.                                                          *)

LEMMA Initially == Init => EInv
<1> SUFFICES ASSUME Init PROVE EInv
    OBVIOUS
<1>1. toolbar \in BOOLEAN /\ inFlight \in BOOLEAN /\ orderly \in BOOLEAN
    BY DEF Init
<1>2. /\ items \subseteq Rows /\ Cardinality(items) <= 5
      /\ wire \subseteq 1..clicks /\ clicks \in 0..MaxClicks /\ answered \in 0..clicks
    BY BoundFacts, RenderedFew DEF Init
<1>3. EditorTypeOK
    BY <1>1, <1>2, EmptyTyped DEF Init, EditorTypeOK
<1> QED BY <1>3 DEF Init, EInv, PreviewLocksToolbar, PreviewMissesOnly, ListFollowsTerm,
                    SuggestionsFitTerm, OnlyLatestUnderWay, LastClickStands

\* Typing and the toolbar write into the text area on display.
LEMMA WritingPreserves ==
    ASSUME EInv, NEW d \in Text, draft' = d, Trigger(d), view = "textarea", answered' = 0,
           UNCHANGED <<view, toolbar, preview, clicks, wire, orderly>>
    PROVE  EInv'
<1>1. EditorTypeOK'
    BY TriggerFits DEF EInv, EditorTypeOK
<1>2. ListFollowsTerm' /\ SuggestionsFitTerm'
    BY TriggerFits DEF EInv, ListFollowsTerm, SuggestionsFitTerm
<1>3. PreviewLocksToolbar' /\ PreviewMissesOnly' /\ LastClickStands'
    BY DEF EInv, PreviewLocksToolbar, PreviewMissesOnly, LastClickStands
<1>4. OnlyLatestUnderWay'
    BY DEF EInv, EditorTypeOK, OnlyLatestUnderWay
<1> QED BY <1>1, <1>2, <1>3, <1>4 DEF EInv

LEMMA SelectPreserves ==
    ASSUME EInv, NEW r \in Rows, Select(r)
    PROVE  EInv'
<1>1. draft \in Text /\ preview \in Text
    BY DEF EInv, EditorTypeOK
<1>2. /\ draft' = Replace(draft, r) /\ items' = {}
      /\ UNCHANGED <<view, toolbar, preview, inFlight, clicks, wire, orderly>>
      /\ answered' = IF draft' = draft THEN answered ELSE 0
    BY DEF Select
<1>3. /\ draft' \in Text
      /\ draft.term = NoTerm => draft' = draft
    BY <1>1, <1>2, ReplaceTyped
<1>4. EditorTypeOK'
    BY <1>2, <1>3, RenderedFew DEF EInv, EditorTypeOK
<1>5. PreviewMissesOnly'
    <2>1. CASE draft = preview
        BY <1>2, <2>1 DEF PreviewMissesOnly
    <2>2. CASE view # "preview"
        BY <1>2, <2>2 DEF PreviewMissesOnly
    <2>3. CASE view = "preview" /\ draft # preview
        <3>1. draft.term = NoTerm
            BY <1>1, <2>3, ReplaceTyped DEF EInv, PreviewMissesOnly, IsQuote
        <3> QED BY <1>2, <1>3, <3>1 DEF EInv, PreviewMissesOnly, IsQuote
    <2> QED BY <2>1, <2>2, <2>3
<1>6. ListFollowsTerm' /\ SuggestionsFitTerm' /\ PreviewLocksToolbar'
    BY <1>2 DEF EInv, ListFollowsTerm, SuggestionsFitTerm, PreviewLocksToolbar
<1>7. OnlyLatestUnderWay'
    BY <1>2 DEF EInv, EditorTypeOK, OnlyLatestUnderWay
<1>8. LastClickStands'
    BY <1>2 DEF EInv, LastClickStands, IsQuote
<1> QED BY <1>4, <1>5, <1>6, <1>7, <1>8 DEF EInv

LEMMA AnswerPreserves ==
    ASSUME EInv, NEW n \in Clicks, Answer(n)
    PROVE  EInv'
<1>1. n \in 1..MaxClicks /\ n \in wire /\ wire' = wire \ {n}
    BY DEF Answer, Clicks
<1>2. PICK c \in BOOLEAN : draft' = QuoteInto(n, c)
    BY EditorBoundsAssumption DEF Answer
<1>3. /\ draft' \in Text /\ IsQuote(draft') /\ draft'.quote = n /\ draft'.term = NoTerm
    BY <1>1, <1>2, QuoteTyped
<1>4. /\ answered' = IF n > answered THEN n ELSE answered
      /\ UNCHANGED <<view, toolbar, preview, items, inFlight, clicks, orderly>>
    BY DEF Answer
<1>5. EditorTypeOK'
    BY <1>1, <1>3, <1>4 DEF EInv, EditorTypeOK
<1>6. /\ PreviewLocksToolbar' /\ PreviewMissesOnly'
      /\ ListFollowsTerm' /\ SuggestionsFitTerm'
    BY <1>3, <1>4 DEF EInv, PreviewLocksToolbar, PreviewMissesOnly, ListFollowsTerm,
                      SuggestionsFitTerm
<1>7. OnlyLatestUnderWay'
    BY <1>1, <1>4 DEF EInv, OnlyLatestUnderWay
<1>8. LastClickStands'
    <2>1. orderly => n > answered
        BY <1>1 DEF EInv, OnlyLatestUnderWay, EditorTypeOK
    <2> QED BY <1>3, <1>4, <2>1 DEF LastClickStands
<1> QED BY <1>5, <1>6, <1>7, <1>8 DEF EInv

LEMMA NextPreserves == EInv /\ [Next]_vars => EInv'
<1> SUFFICES ASSUME EInv, [Next]_vars PROVE EInv'
    OBVIOUS
<1>1. CASE Type
    <2>1. draft' \in Text
        BY <1>1, KeystrokesTyped DEF Type, EInv, EditorTypeOK
    <2> QED BY <1>1, <2>1, WritingPreserves DEF Type
<1>2. CASE Format
    <2>1. draft.words + 1 \in 0..MaxWords
        BY <1>2, BoundFacts DEF Format, EInv, EditorTypeOK, Text
    <2>2. draft' \in Text
        BY <1>2, <2>1 DEF Format, EInv, EditorTypeOK, Text
    <2>3. view = "textarea"
        BY <1>2 DEF Format, EInv, EditorTypeOK, PreviewLocksToolbar
    <2> QED BY <1>2, <2>2, <2>3, WritingPreserves DEF Format
<1>3. ASSUME NEW r \in Rows, Select(r) PROVE EInv'
    BY <1>3, SelectPreserves
<1>4. CASE Esc
    BY <1>4, RenderedFew DEF Esc, EInv, EditorTypeOK, PreviewLocksToolbar, PreviewMissesOnly,
        ListFollowsTerm, SuggestionsFitTerm, OnlyLatestUnderWay, LastClickStands, IsQuote
<1>5. CASE MarkdownPreview
    BY <1>5 DEF MarkdownPreview, Buttons, EInv, EditorTypeOK, PreviewLocksToolbar,
        PreviewMissesOnly, ListFollowsTerm, SuggestionsFitTerm, OnlyLatestUnderWay,
        LastClickStands, IsQuote
<1>6. CASE Quote
    <2>1. EditorTypeOK'
        BY <1>6, BoundFacts DEF Quote, EInv, EditorTypeOK
    <2>2. OnlyLatestUnderWay'
        <3>1. /\ orderly' => wire = {}
              /\ wire' = wire \cup {clicks'} /\ clicks' = clicks + 1
              /\ answered' = answered
            BY <1>6 DEF Quote
        <3>2. answered < clicks + 1
            BY BoundFacts DEF EInv, EditorTypeOK
        <3> QED BY <3>1, <3>2 DEF OnlyLatestUnderWay
    <2> QED BY <1>6, <2>1, <2>2 DEF Quote, EInv, PreviewLocksToolbar, PreviewMissesOnly,
            ListFollowsTerm, SuggestionsFitTerm, LastClickStands, IsQuote
<1>7. ASSUME NEW n \in Clicks, Answer(n) PROVE EInv'
    BY <1>7, AnswerPreserves
<1>8. ASSUME NEW n \in Clicks, Fail(n) PROVE EInv'
    BY <1>8 DEF Fail, EInv, EditorTypeOK, PreviewLocksToolbar, PreviewMissesOnly,
        ListFollowsTerm, SuggestionsFitTerm, OnlyLatestUnderWay, LastClickStands, IsQuote
<1>9. CASE UNCHANGED vars
    BY <1>9 DEF vars, EInv, EditorTypeOK, PreviewLocksToolbar, PreviewMissesOnly,
        ListFollowsTerm, SuggestionsFitTerm, OnlyLatestUnderWay, LastClickStands, IsQuote
<1> QED BY <1>1, <1>2, <1>3, <1>4, <1>5, <1>6, <1>7, <1>8, <1>9 DEF Next

-----------------------------------------------------------------------------
(* Theorems.                                                               *)

\* The editor keeps its invariant, whatever is typed, chosen, quoted and answered.
THEOREM EditorInvariance == Spec => []EInv
BY Initially, NextPreserves, PTL DEF Spec

\* The text, the preview and the dropdown are of their types; five suggestions at most.
THEOREM EditorTypeCorrect == Spec => []EditorTypeOK
<1>1. EInv => EditorTypeOK
    BY DEF EInv
<1> QED BY <1>1, EditorInvariance, PTL

\* The preview shows what would be posted, but for a quote that arrived under it and a
\* suggestion chosen from a list left open.
THEOREM PreviewIsNearlyTrue == Spec => []PreviewMissesOnly
<1>1. EInv => PreviewMissesOnly
    BY DEF EInv
<1> QED BY <1>1, EditorInvariance, PTL

\* Where clicks on quote buttons do not overlap the latest one answered is what stands in
\* the editor, until the user writes.
THEOREM LatestQuoteStands == Spec => []LastClickStands
<1>1. EInv => LastClickStands
    BY DEF EInv
<1> QED BY <1>1, EditorInvariance, PTL

\* The suggestions on display are ones for the term at the cursor.
THEOREM SuggestionsFit == Spec => []SuggestionsFitTerm
<1>1. EInv => SuggestionsFitTerm
    BY DEF EInv
<1> QED BY <1>1, EditorInvariance, PTL

\* An emoji enters the text only in place of a term that is in its name.
THEOREM EmojiForTerm == Spec => EmojiOnlyForTerm
<1> DEFINE Fits == draft'.icon \notin {draft.icon, 0} =>
                     ~draft.code /\ <<Emojis[draft'.icon], draft.term>> \in Finds
<1>1. ASSUME EInv, [Next]_vars PROVE [Fits]_vars
    <2>1. draft \in Text
        BY <1>1 DEF EInv, EditorTypeOK
    <2>2. CASE Type
        BY <2>1, <2>2 DEF Type, Keystrokes, Text
    <2>3. CASE Format
        BY <2>1, <2>3 DEF Format, Text
    <2>4. ASSUME NEW r \in Rows, Select(r) PROVE Fits
        <3>1. r \in items /\ draft' = Replace(draft, r)
            BY <2>4 DEF Select
        <3>2. CASE draft.term = NoTerm
            BY <3>1, <3>2 DEF Replace
        <3>3. CASE draft.term # NoTerm
            BY <1>1, <2>1, <3>1, <3>3 DEF Replace, Text, EInv, ListFollowsTerm, SuggestionsFitTerm
        <3> QED BY <3>2, <3>3
    <2>5. ASSUME NEW n \in Clicks, Answer(n) PROVE Fits
        BY <2>5 DEF Answer, QuoteInto, Empty
    <2>6. CASE UNCHANGED draft
        BY <2>6
    <2> QED BY <1>1, <2>2, <2>3, <2>4, <2>5, <2>6
        DEF Next, Esc, MarkdownPreview, Quote, Fail, vars
<1> QED BY <1>1, EditorInvariance, PTL DEF Spec, EmojiOnlyForTerm
=============================================================================
