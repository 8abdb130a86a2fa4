----------------------------- MODULE PortalPage -----------------------------
(***************************************************************************)
(* A page of the portal and its script, internal/web/static/app.js: the    *)
(* sections of a form that follow a choice, the bulk bar of the list of    *)
(* certificates, confirmations, copy buttons and the menu.                 *)
(*                                                                         *)
(* The browser shows the page as the server rendered it, with the choices  *)
(* it restored, until the script at its end has run.  Handlers run to      *)
(* completion one after the other; what interleaves are the user's events, *)
(* answers of the clipboard and timers.  The page has one form control of  *)
(* each kind, as if one page had what the templates have between them.     *)
(***************************************************************************)
EXTENDS Naturals, FiniteSets, Sequences

CONSTANTS
  Modes, Types, Kinds,   \* the values of the controls mode, type and ca_kind
  ModeSections,          \* the elements with data-mode, in document order
  ShowWhen,              \* the elements with data-show-when="type=..."
  KindSections,          \* the elements with data-kind
  Want,                  \* the values for which an element is to be shown
  Inside,                \* the fields inside each element
  Rendered,              \* the elements that the server renders hidden
  Fields,                \* fields of the form
  Name,                  \* the name of each field
  Rows,                  \* the rows of the list that can be ticked
  Buttons,               \* copy buttons
  MaxCopies              \* bound: copies of one button that overlap

Moded == {ModeSections[i] : i \in DOMAIN ModeSections}
Elements == Moded \cup ShowWhen \cup KindSections

\* What the templates give (ca_import.html, secrets.html, ca_new.html): an element
\* has one of the attributes; a section inside another follows it in the document
\* and is shown for fewer modes; otherwise sections share no fields, and fields of
\* one name are never shown together.
ASSUME PageAssumption ==
  /\ ModeSections \in Seq(Moded)
  /\ Moded \cap ShowWhen = {} /\ (Moded \cup ShowWhen) \cap KindSections = {}
  /\ Want \in [Elements -> SUBSET (Modes \cup Types \cup Kinds)]
  /\ Inside \in [Elements -> SUBSET Fields]
  /\ Rendered \subseteq Elements
  /\ \A i, j \in DOMAIN ModeSections :
       LET s == ModeSections[i]
           t == ModeSections[j]
       IN  i < j /\ Inside[s] \cap Inside[t] # {} => Want[t] \subseteq Want[s]
  /\ \A s \in Moded, t \in ShowWhen : Inside[s] \cap Inside[t] = {}
  /\ \A s, t \in ShowWhen : s # t => Inside[s] \cap Inside[t] = {}
  /\ \A f, g \in Fields : Name[f] = Name[g] /\ f # g =>
       \E s, t \in Moded : f \in Inside[s] /\ g \in Inside[t] /\ Want[s] \cap Want[t] = {}
  /\ IsFiniteSet(Rows)
  /\ MaxCopies \in Nat

VARIABLES
  ready,       \* the script has run
  secure,      \* the page has a clipboard it may write to
  mode,        \* the choices: a radio button,
  type,        \*   a select
  kind,        \*   and a radio button
  hidden,      \* the elements that are hidden
  disabled,    \* the fields that are disabled, which a form does not submit
  ticked,      \* the rows that are ticked
  selectAll,   \* the box above them: checked, indeterminate or neither
  bulkCount,   \* the number the bulk bar shows
  bulkBar,     \* whether the bulk bar is shown
  navOpen,     \* the menu is open
  expanded,    \* its button's aria-expanded
  label,       \* what each copy button says
  writing,     \* the writes to the clipboard without an answer, by button
  timers,      \* what each timer will restore, in the order they were set
  sent,        \* ghost: the last request of a guarded form or link, or of the bulk bar
  overlapped   \* ghost: the buttons that completed a copy while they said "copied"

choices == <<mode, type, kind>>
form == <<hidden, disabled>>
bulk == <<selectAll, bulkCount, bulkBar>>
nav == <<navOpen, expanded>>
copy == <<label, writing, timers, overlapped>>
vars == <<ready, secure, choices, form, ticked, bulk, nav, copy, sent>>

Nothing == [what |-> "nothing", shown |-> 0, said |-> 0, rows |-> {}]

TypeOK ==
  /\ ready \in BOOLEAN /\ secure \in BOOLEAN
  /\ mode \in Modes /\ type \in Types /\ kind \in Kinds
  /\ hidden \in SUBSET Elements
  /\ disabled \in SUBSET Fields
  /\ ticked \in SUBSET Rows
  /\ selectAll \in {"off", "mixed", "on"}
  /\ bulkCount \in 0 .. Cardinality(Rows)
  /\ bulkBar \in BOOLEAN
  /\ navOpen \in BOOLEAN /\ expanded = navOpen
  /\ label \in [Buttons -> {"own", "copied"}]
  /\ writing \in [Buttons -> 0 .. MaxCopies]
  /\ timers \in Seq(Buttons \X {"own", "copied"})
  /\ overlapped \in SUBSET Buttons
  /\ sent \in [what : {"nothing", "form", "link", "bulk"},
               shown : 0 .. Cardinality(Rows), said : 0 .. Cardinality(Rows), rows : SUBSET Rows]

\* The page before its script: as rendered, but for the choices and ticks the
\* browser restored.
Init ==
  /\ ready = FALSE
  /\ secure \in BOOLEAN
  /\ mode \in Modes /\ type \in Types /\ kind \in Kinds
  /\ hidden = Rendered
  /\ disabled = {}
  /\ ticked \in SUBSET Rows
  /\ selectAll = "off" /\ bulkCount = 0 /\ bulkBar = FALSE
  /\ navOpen = FALSE /\ expanded = FALSE
  /\ label = [b \in Buttons |-> "own"]
  /\ writing = [b \in Buttons |-> 0]
  /\ timers = <<>>
  /\ overlapped = {}
  /\ sent = Nothing

---------------------------------------------------------------------------
(* What the handlers compute *)

Hide(S, v) == {e \in S : v \notin Want[e]}

\* Mutant: a section overrules the ones inside it.
DisableOuterLast(m, dis) ==
  {f \in Fields :
     IF \E s \in Moded : f \in Inside[s]
     THEN \E i \in DOMAIN ModeSections :
            /\ f \in Inside[ModeSections[i]] /\ m \notin Want[ModeSections[i]]
            /\ \A j \in 1 .. i - 1 : f \notin Inside[ModeSections[j]]
     ELSE f \in dis}

\* applyMode's loop: each section in turn disables its fields if it is hidden and
\* enables them otherwise, so the last section a field is in decides.
Disable(m, dis) ==
  {f \in Fields :
     IF \E s \in Moded : f \in Inside[s]
     THEN \E i \in DOMAIN ModeSections :
            /\ f \in Inside[ModeSections[i]] /\ m \notin Want[ModeSections[i]]
            /\ \A j \in i + 1 .. Len(ModeSections) : f \notin Inside[ModeSections[j]]
     ELSE f \in dis}

\* apply, for every element with data-show-when.
ApplyShow(t, dis) ==
  (dis \ UNION {Inside[e] : e \in ShowWhen}) \cup UNION {Inside[e] : e \in Hide(ShowWhen, t)}

\* refreshBulk, for the ticks S.
refreshBulk(S) ==
  /\ bulkCount' = Cardinality(S)
  /\ bulkBar' = (S # {})
  /\ selectAll' = IF S = {} THEN "off" ELSE IF S = Rows THEN "on" ELSE "mixed"

---------------------------------------------------------------------------
(* The script runs; the user makes choices *)

\* Mutant: the ticks that the browser restored are not counted.
LoadUncounted ==
  /\ ~ready
  /\ ready' = TRUE
  /\ hidden' = Hide(ShowWhen, type) \cup Hide(Moded, mode) \cup Hide(KindSections, kind)
  /\ disabled' = Disable(mode, ApplyShow(type, disabled))
  /\ UNCHANGED <<secure, choices, ticked, bulk, nav, copy, sent>>

\* The script: show-when, then the mode, the kind and the bulk bar.
Load ==
  /\ ~ready
  /\ ready' = TRUE
  /\ hidden' = Hide(ShowWhen, type) \cup Hide(Moded, mode) \cup Hide(KindSections, kind)
  /\ disabled' = Disable(mode, ApplyShow(type, disabled))
  /\ IF Rows = {} THEN UNCHANGED bulk ELSE refreshBulk(ticked)
  /\ UNCHANGED <<secure, choices, ticked, nav, copy, sent>>

ChangeMode(m) ==
  /\ m # mode
  /\ mode' = m
  /\ IF ready
     THEN /\ hidden' = (hidden \ Moded) \cup Hide(Moded, m)
          /\ disabled' = Disable(m, disabled)
     ELSE UNCHANGED form
  /\ UNCHANGED <<ready, secure, type, kind, ticked, bulk, nav, copy, sent>>

ChangeType(t) ==
  /\ t # type
  /\ type' = t
  /\ IF ready
     THEN /\ hidden' = (hidden \ ShowWhen) \cup Hide(ShowWhen, t)
          /\ disabled' = ApplyShow(t, disabled)
     ELSE UNCHANGED form
  /\ UNCHANGED <<ready, secure, mode, kind, ticked, bulk, nav, copy, sent>>

\* applyKind hides and shows only.
ChangeKind(k) ==
  /\ k # kind
  /\ kind' = k
  /\ hidden' = IF ready THEN (hidden \ KindSections) \cup Hide(KindSections, k) ELSE hidden
  /\ UNCHANGED <<ready, secure, mode, type, disabled, ticked, bulk, nav, copy, sent>>

Tick(r) ==
  /\ ticked' = IF r \in ticked THEN ticked \ {r} ELSE ticked \cup {r}
  /\ IF ready THEN refreshBulk(ticked') ELSE UNCHANGED bulk
  /\ UNCHANGED <<ready, secure, choices, form, nav, copy, sent>>

\* A click on the box: if it was checked it is not, and the rows follow it.
SelectAll ==
  /\ ready
  /\ ticked' = IF selectAll = "on" THEN {} ELSE Rows
  /\ refreshBulk(ticked')
  /\ UNCHANGED <<ready, secure, choices, form, nav, copy, sent>>

\* Mutant: the button's state is not announced.
NavToggleSilently ==
  /\ ready
  /\ navOpen' = ~navOpen
  /\ UNCHANGED <<expanded, ready, secure, choices, form, ticked, bulk, copy, sent>>

NavToggle ==
  /\ ready
  /\ navOpen' = ~navOpen
  /\ expanded' = ~navOpen
  /\ UNCHANGED <<ready, secure, choices, form, ticked, bulk, copy, sent>>

---------------------------------------------------------------------------
(* Confirmations *)

Send(what, said, rows) ==
  sent' = [what |-> what, shown |-> bulkCount, said |-> said, rows |-> rows]

\* A form or a link with data-confirm; before the script has run nobody asks.
Guarded(what, answer) ==
  /\ IF ready => answer THEN Send(what, 0, {}) ELSE UNCHANGED sent
  /\ UNCHANGED <<ready, secure, choices, form, ticked, bulk, nav, copy>>

\* A button of the bulk bar, with data-confirm-bulk.
BulkSubmit(answer) ==
  /\ bulkBar
  /\ IF answer THEN Send("bulk", Cardinality(ticked), ticked) ELSE UNCHANGED sent
  /\ UNCHANGED <<ready, secure, choices, form, ticked, bulk, nav, copy>>

---------------------------------------------------------------------------
(* Copy buttons *)

\* Mutant: the label to restore is read after it was changed.
DoneLate(b) ==
  /\ label' = [label EXCEPT ![b] = "copied"]
  /\ timers' = Append(timers, <<b, label'[b]>>)
  /\ overlapped' = IF label[b] = "copied" THEN overlapped \cup {b} ELSE overlapped

\* done: the label changes, and a timer will restore what it was.
Done(b) ==
  /\ label' = [label EXCEPT ![b] = "copied"]
  /\ timers' = Append(timers, <<b, label[b]>>)
  /\ overlapped' = IF label[b] = "copied" THEN overlapped \cup {b} ELSE overlapped

\* fallback: execCommand returns, having copied or not, or throws.
Fallback(b) == Done(b) \/ UNCHANGED <<label, timers, overlapped>>

Pending(b) == writing[b] + Cardinality({i \in DOMAIN timers : timers[i][1] = b})

ClickCopy(b) ==
  /\ ready
  /\ Pending(b) < MaxCopies
  /\ IF secure
     THEN writing' = [writing EXCEPT ![b] = @ + 1] /\ UNCHANGED <<label, timers, overlapped>>
     ELSE Fallback(b) /\ UNCHANGED writing
  /\ UNCHANGED <<ready, secure, choices, form, ticked, bulk, nav, sent>>

\* The clipboard answers a write: done, or the fallback.
WriteAnswered(b) ==
  /\ writing[b] > 0
  /\ writing' = [writing EXCEPT ![b] = @ - 1]
  /\ Done(b) \/ Fallback(b)
  /\ UNCHANGED <<ready, secure, choices, form, ticked, bulk, nav, sent>>

\* The oldest timer fires; all have the same delay.
TimerFires ==
  /\ timers # <<>>
  /\ label' = [label EXCEPT ![Head(timers)[1]] = Head(timers)[2]]
  /\ timers' = Tail(timers)
  /\ UNCHANGED <<ready, secure, choices, form, ticked, bulk, nav, writing, overlapped, sent>>

\* The page is left for another one, or loaded again; timers and answers are gone.
Leave(m, t, k, S) ==
  /\ ready
  /\ ready' = FALSE
  /\ mode' = m /\ type' = t /\ kind' = k
  /\ hidden' = Rendered /\ disabled' = {}
  /\ ticked' = S
  /\ selectAll' = "off" /\ bulkCount' = 0 /\ bulkBar' = FALSE
  /\ navOpen' = FALSE /\ expanded' = FALSE
  /\ label' = [b \in Buttons |-> "own"]
  /\ writing' = [b \in Buttons |-> 0]
  /\ timers' = <<>>
  /\ overlapped' = {}
  /\ sent' = Nothing
  /\ UNCHANGED secure

Next ==
  \/ Load
  \/ \E m \in Modes : ChangeMode(m)
  \/ \E t \in Types : ChangeType(t)
  \/ \E k \in Kinds : ChangeKind(k)
  \/ \E r \in Rows : Tick(r)
  \/ SelectAll \/ NavToggle
  \/ \E what \in {"form", "link"}, answer \in BOOLEAN : Guarded(what, answer)
  \/ \E answer \in BOOLEAN : BulkSubmit(answer)
  \/ \E b \in Buttons : ClickCopy(b) \/ WriteAnswered(b)
  \/ TimerFires
  \/ \E m \in Modes, t \in Types, k \in Kinds, S \in SUBSET Rows : Leave(m, t, k, S)

Spec == Init /\ [][Next]_vars

\* The browser runs the timers that are due.
FairSpec == Spec /\ WF_vars(TimerFires)

---------------------------------------------------------------------------
(* Properties *)

\* app.js: "a stale value from a hidden field must not be submitted".  Whatever
\* was chosen, in whatever order, before or after the script ran, a field is
\* disabled exactly if an element it is in is hidden by its mode or by
\* data-show-when, however deep it is nested.
DisabledIffHidden ==
  ready => \A f \in Fields :
             f \in disabled <=> \E e \in (Moded \cup ShowWhen) \cap hidden : f \in Inside[e]

\* app.js: "otherwise a same-named field left over from another mode ... gets
\* submitted alongside the one actually in use".  Of two fields with one name at
\* most one is submitted.
OneValuePerName ==
  ready => \A f, g \in Fields \ disabled : Name[f] = Name[g] => f = g

\* apply and applyMode: whatever was chosen in whatever order, a field is submitted
\* exactly if it is shown, and no name has two values.
HiddenIsNotSubmitted == DisabledIffHidden /\ OneValuePerName

\* app.js: "Bulk buttons carry their own confirmation".  A request of the bulk bar
\* is about at least one certificate, and the bar and then the dialogue named the
\* number of those that were sent, however they were ticked, by hand, by the box above them or by
\* the browser that restored them, and whatever is submitted before the script ran.
BulkSaysWhatItSends ==
  sent.what = "bulk" =>
    sent.rows # {} /\ sent.shown = Cardinality(sent.rows) /\ sent.said = sent.shown

\* The number that the bulk bar shows, and the box above the rows, agree with the
\* ticks, also those the browser restored.
BulkBarTells ==
  ready =>
    /\ bulkCount = Cardinality(ticked)
    /\ bulkBar <=> ticked # {}
    /\ selectAll = "on" <=> ticked # {} /\ ticked = Rows

\* refreshBulk and the bulk buttons: the bar tells what is ticked, and what it sends
\* is what it told.
BulkIsTold == BulkBarTells /\ BulkSaysWhatItSends

\* A copy button that says "copied" goes back to its label, unless a second copy
\* of the same button completed meanwhile.
LabelComesBack ==
  \A b \in Buttons :
    label[b] = "copied" /\ b \notin overlapped ~> label[b] = "own" \/ b \in overlapped
=============================================================================
