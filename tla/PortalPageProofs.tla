--------------------------- MODULE PortalPageProofs ---------------------------
(***************************************************************************)
(* What the run of PortalPage.cfg checks on the sections of the templates, *)
(* for any page that satisfies PageAssumption: the types, what a form      *)
(* submits, and what the bulk bar tells.                                   *)
(***************************************************************************)
EXTENDS PortalPage, FiniteSetTheorems, SequenceTheorems, WellFoundedInduction, TLAPS

Labels == {"own", "copied"}

\* The controls, and the form elements.
FormTypes ==
  /\ ready \in BOOLEAN /\ secure \in BOOLEAN
  /\ mode \in Modes /\ type \in Types /\ kind \in Kinds
  /\ hidden \in SUBSET Elements /\ disabled \in SUBSET Fields

\* The rows, the bulk bar and what was sent.
BulkTypes ==
  /\ ticked \in SUBSET Rows
  /\ selectAll \in {"off", "mixed", "on"}
  /\ bulkCount \in 0 .. Cardinality(Rows) /\ bulkBar \in BOOLEAN
  /\ sent \in [what : {"nothing", "form", "link", "bulk"},
               shown : 0 .. Cardinality(Rows), said : 0 .. Cardinality(Rows), rows : SUBSET Rows]

\* The menu and the copy buttons.
CopyTypes ==
  /\ navOpen \in BOOLEAN /\ expanded = navOpen
  /\ label \in [Buttons -> Labels]
  /\ writing \in [Buttons -> 0 .. MaxCopies]
  /\ timers \in Seq(Buttons \X Labels)
  /\ overlapped \in SUBSET Buttons

\* A field is to be disabled for a choice of the mode and of the type.
Off(f, m, t) ==
  \/ \E e \in Moded : f \in Inside[e] /\ m \notin Want[e]
  \/ \E e \in ShowWhen : f \in Inside[e] /\ t \notin Want[e]

\* After the script the form is a function of the choices, whatever they were
\* before; until then nothing is disabled.
FormInv ==
  /\ ~ready => disabled = {}
  /\ ready => /\ hidden = Hide(ShowWhen, type) \cup Hide(Moded, mode) \cup Hide(KindSections, kind)
              /\ \A f \in Fields : f \in disabled <=> Off(f, mode, type)

\* After the script the bulk bar is a function of the ticks; until then it is as
\* the server rendered it, and cannot be used.
BulkInv ==
  /\ ~ready => selectAll = "off" /\ bulkCount = 0 /\ bulkBar = FALSE
  /\ BulkBarTells
  /\ BulkSaysWhatItSends

PageInv == FormTypes /\ BulkTypes /\ CopyTypes /\ FormInv /\ BulkInv

---------------------------------------------------------------------------
(* The sections of a form *)

\* A set of naturals has a least element.
LEMMA HasLeast ==
  ASSUME NEW T \in SUBSET Nat, T # {}
  PROVE  \E x \in T : \A y \in T : x <= y
<1> DEFINE R == OpToRel(<, Nat)
<1>1. PICK x \in T : \A y \in T : ~(<<y, x>> \in R)
  <2>1. IsWellFoundedOn(R, Nat)
    BY NatLessThanWellFounded, Zenon
  <2> HIDE DEF R
  <2> QED
    BY <2>1, WFMin
<1>2. ASSUME NEW y \in T, y < x PROVE FALSE
  <2>1. <<y, x>> \in Nat \X Nat /\ <<y, x>>[1] < <<y, x>>[2]
    BY <1>2
  <2> QED
    BY <1>1, <2>1 DEF OpToRel
<1> QED
  BY <1>2

\* The sections are numbered in document order.
LEMMA Sections ==
  /\ Len(ModeSections) \in Nat /\ DOMAIN ModeSections = 1 .. Len(ModeSections)
  /\ \A i \in DOMAIN ModeSections : ModeSections[i] \in Moded
<1>1. ModeSections \in Seq(Moded)
  BY PageAssumption
<1> QED
  BY <1>1, LenProperties, ElementOfSeq

\* Of the sections a field is in, one is the last.
LEMMA HasLast ==
  ASSUME NEW f, NEW s \in Moded, f \in Inside[s]
  PROVE  \E i \in DOMAIN ModeSections :
           /\ f \in Inside[ModeSections[i]]
           /\ \A j \in DOMAIN ModeSections : f \in Inside[ModeSections[j]] => j <= i
<1> DEFINE n == Len(ModeSections)
           I == {i \in DOMAIN ModeSections : f \in Inside[ModeSections[i]]}
           T == {k \in Nat : \E i \in I : k = n - i}
<1>0. n \in Nat /\ DOMAIN ModeSections = 1 .. n
  BY Sections
<1>1. PICK h \in DOMAIN ModeSections : s = ModeSections[h]
  BY DEF Moded
<1>2. h \in I
  BY <1>1
<1>3. I \subseteq 1 .. n
  BY <1>0
<1> HIDE DEF n, I
<1>4. \A i \in I : n - i \in T
  BY <1>0, <1>3
<1>5. PICK m \in T : \A k \in T : m <= k
  BY <1>2, <1>4, HasLeast
<1>6. PICK i \in I : m = n - i
  BY <1>5
<1>7. \A j \in I : j <= i
  BY <1>0, <1>3, <1>4, <1>5, <1>6
<1> QED
  BY <1>6, <1>7 DEF I

\* applyMode: that the last section decides is that every section it is in decides,
\* since a section inside another is shown for fewer modes.
LEMMA LastDecides ==
  ASSUME NEW m, NEW dis, NEW f \in Fields
  PROVE  f \in Disable(m, dis) <=>
           IF \E s \in Moded : f \in Inside[s]
           THEN \E s \in Moded : f \in Inside[s] /\ m \notin Want[s]
           ELSE f \in dis
<1>1. CASE ~ \E s \in Moded : f \in Inside[s]
  BY <1>1 DEF Disable
<1>2. ASSUME NEW s \in Moded, f \in Inside[s]
      PROVE  f \in Disable(m, dis) <=> \E t \in Moded : f \in Inside[t] /\ m \notin Want[t]
  <2>0. f \in Disable(m, dis) <=>
          \E i \in DOMAIN ModeSections :
            /\ f \in Inside[ModeSections[i]] /\ m \notin Want[ModeSections[i]]
            /\ \A j \in i + 1 .. Len(ModeSections) : f \notin Inside[ModeSections[j]]
    BY <1>2 DEF Disable
  <2>1. ASSUME f \in Disable(m, dis)
        PROVE  \E t \in Moded : f \in Inside[t] /\ m \notin Want[t]
    BY <2>0, <2>1, Sections
  <2>2. ASSUME NEW t \in Moded, f \in Inside[t], m \notin Want[t]
        PROVE  f \in Disable(m, dis)
    <3>1. PICK i \in DOMAIN ModeSections :
            /\ f \in Inside[ModeSections[i]]
            /\ \A j \in DOMAIN ModeSections : f \in Inside[ModeSections[j]] => j <= i
      BY <1>2, HasLast
    <3>2. PICK h \in DOMAIN ModeSections : t = ModeSections[h]
      BY DEF Moded
    <3>3. h <= i /\ h \in Nat /\ i \in Nat
      BY <2>2, <3>1, <3>2, Sections
    <3>4. m \notin Want[ModeSections[i]]
      <4>1. CASE h = i
        BY <2>2, <3>2, <4>1
      <4>2. CASE h < i
        <5>1. Inside[ModeSections[h]] \cap Inside[ModeSections[i]] # {}
          BY <2>2, <3>1, <3>2
        <5>2. Want[ModeSections[i]] \subseteq Want[ModeSections[h]]
          BY <4>2, <5>1, PageAssumption
        <5> QED
          BY <2>2, <3>2, <5>2
      <4> QED
        BY <3>3, <4>1, <4>2
    <3>5. \A j \in i + 1 .. Len(ModeSections) : f \notin Inside[ModeSections[j]]
      BY <3>1, <3>3, Sections
    <3> QED
      BY <2>0, <3>1, <3>4, <3>5
  <2> QED
    BY <2>1, <2>2
<1> QED
  BY <1>1, <1>2

\* So applyMode sets the fields of the sections, and leaves the others.
LEMMA DisableIs ==
  ASSUME NEW m, NEW m0, NEW t, NEW dis,
         \A f \in Fields : f \in dis <=> Off(f, m0, t)
  PROVE  \A f \in Fields : f \in Disable(m, dis) <=> Off(f, m, t)
<1> SUFFICES ASSUME NEW f \in Fields PROVE f \in Disable(m, dis) <=> Off(f, m, t)
  OBVIOUS
<1>1. CASE \E s \in Moded : f \in Inside[s]
  <2>1. ~ \E e \in ShowWhen : f \in Inside[e]
    BY <1>1, PageAssumption
  <2> QED
    BY <1>1, <2>1, LastDecides DEF Off
<1>2. CASE ~ \E s \in Moded : f \in Inside[s]
  BY <1>2, LastDecides DEF Off
<1> QED
  BY <1>1, <1>2

\* apply sets the fields of the elements with data-show-when, and leaves the others.
LEMMA ApplyShowIs ==
  ASSUME NEW m, NEW t, NEW t0, NEW dis,
         \A f \in Fields : f \in dis <=> Off(f, m, t0)
  PROVE  \A f \in Fields : f \in ApplyShow(t, dis) <=> Off(f, m, t)
<1> SUFFICES ASSUME NEW f \in Fields PROVE f \in ApplyShow(t, dis) <=> Off(f, m, t)
  OBVIOUS
<1>0. f \in ApplyShow(t, dis) <=>
        \/ f \in dis /\ ~ \E e \in ShowWhen : f \in Inside[e]
        \/ \E e \in ShowWhen : t \notin Want[e] /\ f \in Inside[e]
  BY DEF ApplyShow, Hide
<1>1. CASE \E e \in ShowWhen : f \in Inside[e]
  <2>1. ~ \E s \in Moded : f \in Inside[s]
    BY <1>1, PageAssumption
  <2> QED
    BY <1>0, <1>1, <2>1 DEF Off
<1>2. CASE ~ \E e \in ShowWhen : f \in Inside[e]
  BY <1>0, <1>2 DEF Off
<1> QED
  BY <1>1, <1>2

\* The script: apply and then applyMode, on a page where nothing is disabled.
LEMMA LoadIs ==
  ASSUME NEW m, NEW t
  PROVE  \A f \in Fields : f \in Disable(m, ApplyShow(t, {})) <=> Off(f, m, t)
<1> SUFFICES ASSUME NEW f \in Fields PROVE f \in Disable(m, ApplyShow(t, {})) <=> Off(f, m, t)
  OBVIOUS
<1>0. f \in ApplyShow(t, {}) <=> \E e \in ShowWhen : t \notin Want[e] /\ f \in Inside[e]
  BY DEF ApplyShow, Hide
<1>1. CASE \E s \in Moded : f \in Inside[s]
  <2>1. ~ \E e \in ShowWhen : f \in Inside[e]
    BY <1>1, PageAssumption
  <2> QED
    BY <1>1, <2>1, LastDecides DEF Off
<1>2. CASE ~ \E s \in Moded : f \in Inside[s]
  BY <1>0, <1>2, LastDecides DEF Off
<1> QED
  BY <1>1, <1>2

\* What the handlers compute are elements and fields of the page.
LEMMA FormSets ==
  ASSUME NEW m, NEW t, NEW k, NEW dis \in SUBSET Fields
  PROVE  /\ Hide(Moded, m) \in SUBSET Moded /\ Hide(ShowWhen, t) \in SUBSET ShowWhen
         /\ Hide(KindSections, k) \in SUBSET KindSections
         /\ Disable(m, dis) \in SUBSET Fields /\ ApplyShow(t, dis) \in SUBSET Fields
<1>1. \A e \in ShowWhen : Inside[e] \subseteq Fields
  BY PageAssumption DEF Elements
<1>2. ApplyShow(t, dis) \in SUBSET Fields
  BY <1>1 DEF ApplyShow, Hide
<1> QED
  BY <1>2 DEF Hide, Disable

---------------------------------------------------------------------------
(* The ticks, the bulk bar and the timers *)

\* A set of rows has a number, at most that of all rows.
LEMMA RowCount ==
  ASSUME NEW S \in SUBSET Rows
  PROVE  Cardinality(S) \in 0 .. Cardinality(Rows) /\ (Cardinality(S) = 0 <=> S = {})
<1>1. IsFiniteSet(S) /\ Cardinality(S) <= Cardinality(Rows)
  BY PageAssumption, FS_Subset
<1>2. Cardinality(S) \in Nat /\ Cardinality(Rows) \in Nat
  BY <1>1, PageAssumption, FS_CardinalityType
<1>3. Cardinality(S) = 0 <=> S = {}
  BY <1>1, FS_EmptySet
<1> QED
  BY <1>1, <1>2, <1>3

\* refreshBulk makes the bar tell the ticks.
LEMMA Refreshed ==
  ASSUME NEW S \in SUBSET Rows, refreshBulk(S)
  PROVE  /\ bulkCount' = Cardinality(S) /\ bulkCount' \in 0 .. Cardinality(Rows)
         /\ bulkBar' \in BOOLEAN /\ (bulkBar' <=> S # {})
         /\ selectAll' \in {"off", "mixed", "on"} /\ (selectAll' = "on" <=> S # {} /\ S = Rows)
<1>1. selectAll' \in {"off", "mixed", "on"} /\ (selectAll' = "on" <=> S # {} /\ S = Rows)
  BY DEF refreshBulk
<1>2. bulkBar' \in BOOLEAN /\ (bulkBar' <=> S # {})
  BY DEF refreshBulk
<1> QED
  BY <1>1, <1>2, RowCount DEF refreshBulk

\* done leaves labels, timers and buttons of their kind.
LEMMA DoneTypes ==
  ASSUME CopyTypes, NEW b \in Buttons, Done(b)
  PROVE  /\ label' \in [Buttons -> Labels] /\ timers' \in Seq(Buttons \X Labels)
         /\ overlapped' \in SUBSET Buttons
<1>1. label' \in [Buttons -> Labels] /\ overlapped' \in SUBSET Buttons
  BY DEF Done, CopyTypes, Labels
<1>2. <<b, label[b]>> \in Buttons \X Labels
  BY DEF CopyTypes
<1>3. timers' \in Seq(Buttons \X Labels)
  BY <1>2, AppendProperties DEF Done, CopyTypes
<1> QED
  BY <1>1, <1>3

\* The copies of a button that are under way can be counted.
LEMMA PendingCounts ==
  ASSUME CopyTypes, NEW b \in Buttons
  PROVE  writing[b] \in Nat /\ Pending(b) \in Nat /\ writing[b] <= Pending(b)
<1> DEFINE I == {i \in DOMAIN timers : timers[i][1] = b}
<1>1. Len(timers) \in Nat /\ DOMAIN timers = 1 .. Len(timers)
  BY LenProperties DEF CopyTypes
<1>2. IsFiniteSet(1 .. Len(timers))
  BY <1>1, FS_Interval
<1>3. I \subseteq 1 .. Len(timers)
  BY <1>1
<1>4. Cardinality(I) \in Nat
  BY <1>2, <1>3, FS_Subset, FS_CardinalityType
<1>5. writing[b] \in Nat
  BY PageAssumption DEF CopyTypes
<1> QED
  BY <1>4, <1>5 DEF Pending

\* A step that leaves the form alone keeps its part of the invariant.
LEMMA FormKept ==
  ASSUME PageInv, UNCHANGED <<ready, secure, choices, form>>
  PROVE  FormTypes' /\ FormInv'
<1> USE DEF PageInv, choices, form
<1>1. FormTypes'
  BY DEF FormTypes
<1>2. FormInv'
  BY DEF FormInv
<1> QED
  BY <1>1, <1>2

\* The same for the bulk bar.
LEMMA BulkKept ==
  ASSUME PageInv, UNCHANGED <<ready, ticked, bulk>>,
         UNCHANGED sent
  PROVE  BulkTypes' /\ BulkInv'
<1> USE DEF PageInv, bulk
<1>1. BulkTypes'
  BY DEF BulkTypes
<1>2. BulkInv'
  BY DEF BulkInv, BulkBarTells, BulkSaysWhatItSends
<1> QED
  BY <1>1, <1>2

\* The same for the menu and the copy buttons.
LEMMA CopyKept ==
  ASSUME PageInv, UNCHANGED <<nav, copy>>
  PROVE  CopyTypes'
BY DEF PageInv, nav, copy, CopyTypes

---------------------------------------------------------------------------
(* The steps *)

\* The script runs.
LEMMA LoadInv == PageInv /\ Load => PageInv'
<1> SUFFICES ASSUME PageInv, Load PROVE PageInv'
  OBVIOUS
<1>0. /\ ~ready /\ ready' = TRUE /\ disabled = {} /\ UNCHANGED <<secure, choices, ticked, nav, copy, sent>>
  BY DEF Load, PageInv, FormInv
<1>1. FormTypes'
  <2>1. disabled' \in SUBSET Fields
    BY <1>0, FormSets DEF Load, PageInv, FormTypes
  <2>2. hidden' \in SUBSET Elements
    BY FormSets DEF Load, Elements
  <2> QED
    BY <1>0, <2>1, <2>2 DEF PageInv, FormTypes, choices
<1>2. FormInv'
  <2>1. disabled' = Disable(mode, ApplyShow(type, {}))
    BY <1>0 DEF Load
  <2>2. \A f \in Fields : f \in disabled' <=> Off(f, mode, type)
    BY <2>1, LoadIs
  <2> QED
    BY <1>0, <2>2 DEF Load, FormInv, choices
<1>3. BulkTypes' /\ BulkInv'
  <2>1. ticked \in SUBSET Rows
    BY DEF PageInv, BulkTypes
  <2>2. CASE Rows = {}
    <3>1. UNCHANGED bulk /\ ticked = {}
      BY <2>1, <2>2 DEF Load
    <3>2. Cardinality({}) = 0
      BY FS_EmptySet
    <3>3. selectAll = "off" /\ bulkCount = 0 /\ bulkBar = FALSE
      BY <1>0 DEF PageInv, BulkInv
    <3>4. BulkTypes'
      BY <1>0, <3>1 DEF PageInv, BulkTypes, bulk
    <3>5. BulkInv'
      BY <1>0, <3>1, <3>2, <3>3 DEF PageInv, BulkInv, BulkBarTells, BulkSaysWhatItSends, bulk
    <3> QED
      BY <3>4, <3>5
  <2>3. CASE Rows # {}
    <3>1. refreshBulk(ticked)
      BY <2>3 DEF Load
    <3>2. /\ bulkCount' = Cardinality(ticked) /\ bulkCount' \in 0 .. Cardinality(Rows)
          /\ bulkBar' \in BOOLEAN /\ (bulkBar' <=> ticked # {})
          /\ selectAll' \in {"off", "mixed", "on"} /\ (selectAll' = "on" <=> ticked # {} /\ ticked = Rows)
      BY <2>1, <3>1, Refreshed
    <3>3. BulkTypes'
      BY <1>0, <3>2 DEF PageInv, BulkTypes
    <3>4. BulkInv'
      BY <1>0, <3>2 DEF PageInv, BulkInv, BulkBarTells, BulkSaysWhatItSends
    <3> QED
      BY <3>3, <3>4
  <2> QED
    BY <2>2, <2>3
<1> QED
  BY <1>0, <1>1, <1>2, <1>3, CopyKept DEF PageInv

\* A choice is made.
LEMMA ChoiceInv ==
  ASSUME PageInv,
         \/ \E m \in Modes : ChangeMode(m)
         \/ \E t \in Types : ChangeType(t)
         \/ \E k \in Kinds : ChangeKind(k)
  PROVE  PageInv'
<1>0. UNCHANGED <<ready, secure, ticked, bulk, nav, copy, sent>>
  BY DEF ChangeMode, ChangeType, ChangeKind
<1>1. BulkTypes' /\ BulkInv' /\ CopyTypes'
  BY <1>0, BulkKept, CopyKept
<1>d. /\ Moded \cap ShowWhen = {} /\ Moded \cap KindSections = {} /\ ShowWhen \cap KindSections = {}
  BY PageAssumption
<1>2. ASSUME NEW m \in Modes, ChangeMode(m) PROVE FormTypes' /\ FormInv'
  <2>1. mode' = m /\ UNCHANGED <<ready, secure, type, kind>>
    BY <1>2 DEF ChangeMode
  <2>2. CASE ~ready
    BY <1>2, <2>1, <2>2 DEF ChangeMode, PageInv, FormTypes, FormInv, form
  <2>3. CASE ready
    <3>1. hidden' = (hidden \ Moded) \cup Hide(Moded, m) /\ disabled' = Disable(m, disabled)
      BY <1>2, <2>3 DEF ChangeMode
    <3>2. FormTypes'
      <4>1. disabled' \in SUBSET Fields
        BY <3>1, FormSets DEF PageInv, FormTypes
      <4>2. hidden' \in SUBSET Elements
        BY <3>1, FormSets DEF PageInv, FormTypes, Elements
      <4> QED
        BY <2>1, <4>1, <4>2 DEF PageInv, FormTypes
    <3>3. \A f \in Fields : f \in disabled' <=> Off(f, m, type)
      BY <2>3, <3>1, DisableIs DEF PageInv, FormInv
    <3>4. hidden' = Hide(ShowWhen, type) \cup Hide(Moded, m) \cup Hide(KindSections, kind)
      BY <1>d, <2>3, <3>1 DEF PageInv, FormInv, Hide
    <3> QED
      BY <2>1, <2>3, <3>2, <3>3, <3>4 DEF FormInv
  <2> QED
    BY <2>2, <2>3
<1>3. ASSUME NEW t \in Types, ChangeType(t) PROVE FormTypes' /\ FormInv'
  <2>1. type' = t /\ UNCHANGED <<ready, secure, mode, kind>>
    BY <1>3 DEF ChangeType
  <2>2. CASE ~ready
    BY <1>3, <2>1, <2>2 DEF ChangeType, PageInv, FormTypes, FormInv, form
  <2>3. CASE ready
    <3>1. hidden' = (hidden \ ShowWhen) \cup Hide(ShowWhen, t) /\ disabled' = ApplyShow(t, disabled)
      BY <1>3, <2>3 DEF ChangeType
    <3>2. FormTypes'
      <4>1. disabled' \in SUBSET Fields
        BY <3>1, FormSets DEF PageInv, FormTypes
      <4>2. hidden' \in SUBSET Elements
        BY <3>1, FormSets DEF PageInv, FormTypes, Elements
      <4> QED
        BY <2>1, <4>1, <4>2 DEF PageInv, FormTypes
    <3>3. \A f \in Fields : f \in disabled' <=> Off(f, mode, t)
      BY <2>3, <3>1, ApplyShowIs DEF PageInv, FormInv
    <3>4. hidden' = Hide(ShowWhen, t) \cup Hide(Moded, mode) \cup Hide(KindSections, kind)
      BY <1>d, <2>3, <3>1 DEF PageInv, FormInv, Hide
    <3> QED
      BY <2>1, <2>3, <3>2, <3>3, <3>4 DEF FormInv
  <2> QED
    BY <2>2, <2>3
<1>4. ASSUME NEW k \in Kinds, ChangeKind(k) PROVE FormTypes' /\ FormInv'
  <2>1. kind' = k /\ UNCHANGED <<ready, secure, mode, type, disabled>>
    BY <1>4 DEF ChangeKind
  <2>2. CASE ~ready
    BY <1>4, <2>1, <2>2 DEF ChangeKind, PageInv, FormTypes, FormInv
  <2>3. CASE ready
    <3>1. hidden' = (hidden \ KindSections) \cup Hide(KindSections, k)
      BY <1>4, <2>3 DEF ChangeKind
    <3>2. FormTypes'
      BY <2>1, <3>1, FormSets DEF PageInv, FormTypes, Elements
    <3>3. hidden' = Hide(ShowWhen, type) \cup Hide(Moded, mode) \cup Hide(KindSections, k)
      BY <1>d, <2>3, <3>1 DEF PageInv, FormInv, Hide
    <3> QED
      BY <2>1, <2>3, <3>2, <3>3 DEF PageInv, FormInv
  <2> QED
    BY <2>2, <2>3
<1> QED
  BY <1>1, <1>2, <1>3, <1>4 DEF PageInv

\* A row, or the box above the rows, is ticked.
LEMMA TickInv ==
  ASSUME PageInv, SelectAll \/ \E r \in Rows : Tick(r)
  PROVE  PageInv'
<1>0. UNCHANGED <<ready, secure, choices, form, nav, copy, sent>>
  BY DEF SelectAll, Tick
<1>1. FormTypes' /\ FormInv' /\ CopyTypes'
  BY <1>0, FormKept, CopyKept
<1>2. ticked' \in SUBSET Rows
  BY DEF SelectAll, Tick, PageInv, BulkTypes
<1>3. CASE ~ready
  <2>1. UNCHANGED bulk
    BY <1>3 DEF SelectAll, Tick
  <2> QED
    BY <1>0, <1>1, <1>2, <1>3, <2>1
    DEF PageInv, BulkTypes, BulkInv, BulkBarTells, BulkSaysWhatItSends, bulk
<1>4. CASE ready
  <2>1. refreshBulk(ticked')
    BY <1>4 DEF SelectAll, Tick
  <2>2. /\ bulkCount' = Cardinality(ticked') /\ bulkCount' \in 0 .. Cardinality(Rows)
        /\ bulkBar' \in BOOLEAN /\ (bulkBar' <=> ticked' # {})
        /\ selectAll' \in {"off", "mixed", "on"} /\ (selectAll' = "on" <=> ticked' # {} /\ ticked' = Rows)
    BY <1>2, <2>1, Refreshed
  <2>3. BulkTypes'
    BY <1>0, <1>2, <2>2 DEF PageInv, BulkTypes
  <2>4. BulkInv'
    BY <1>0, <1>4, <2>2 DEF PageInv, BulkInv, BulkBarTells, BulkSaysWhatItSends
  <2> QED
    BY <1>1, <2>3, <2>4 DEF PageInv
<1> QED
  BY <1>3, <1>4

\* Something is sent, or the user thinks better of it.
LEMMA SendInv ==
  ASSUME PageInv,
         \/ \E what \in {"form", "link"}, answer \in BOOLEAN : Guarded(what, answer)
         \/ \E answer \in BOOLEAN : BulkSubmit(answer)
  PROVE  PageInv'
<1>0. UNCHANGED <<ready, secure, choices, form, ticked, bulk, nav, copy>>
  BY DEF Guarded, BulkSubmit
<1>1. FormTypes' /\ FormInv' /\ CopyTypes'
  BY <1>0, FormKept, CopyKept
<1>2. BulkTypes /\ BulkInv
  BY DEF PageInv
<1>3. CASE UNCHANGED sent
  BY <1>0, <1>1, <1>3, BulkKept DEF PageInv
<1>4. ASSUME NEW what \in {"form", "link"}, Send(what, 0, {}) PROVE BulkTypes' /\ BulkInv'
  <2>1. 0 \in 0 .. Cardinality(Rows)
    BY <1>2, RowCount, PageAssumption, FS_CardinalityType
  <2> QED
    BY <1>0, <1>2, <1>4, <2>1 DEF Send, BulkTypes, BulkInv, BulkBarTells, BulkSaysWhatItSends, bulk
<1>5. ASSUME bulkBar, Send("bulk", Cardinality(ticked), ticked) PROVE BulkTypes' /\ BulkInv'
  <2>1. /\ ready /\ bulkCount = Cardinality(ticked) /\ ticked # {}
        /\ ticked \in SUBSET Rows
    BY <1>2, <1>5 DEF BulkInv, BulkBarTells, BulkTypes
  <2>2. Cardinality(ticked) \in 0 .. Cardinality(Rows)
    BY <2>1, RowCount
  <2> QED
    BY <1>0, <1>2, <1>5, <2>1, <2>2
    DEF Send, BulkTypes, BulkInv, BulkBarTells, BulkSaysWhatItSends, bulk
<1> QED
  BY <1>1, <1>3, <1>4, <1>5 DEF PageInv, Guarded, BulkSubmit

\* The menu and the copy buttons.
LEMMA CopyInv ==
  ASSUME PageInv, NavToggle \/ TimerFires \/ \E b \in Buttons : ClickCopy(b) \/ WriteAnswered(b)
  PROVE  PageInv'
<1>0. UNCHANGED <<ready, secure, choices, form, ticked, bulk, sent>>
  BY DEF NavToggle, TimerFires, ClickCopy, WriteAnswered
<1>1. FormTypes' /\ FormInv' /\ BulkTypes' /\ BulkInv'
  BY <1>0, FormKept, BulkKept
<1>2. CopyTypes
  BY DEF PageInv
<1>3. ASSUME NavToggle PROVE CopyTypes'
  BY <1>2, <1>3 DEF NavToggle, CopyTypes, copy
<1>4. ASSUME TimerFires PROVE CopyTypes'
  <2>1. Head(timers) \in Buttons \X Labels /\ Tail(timers) \in Seq(Buttons \X Labels)
    BY <1>2, <1>4, HeadTailProperties DEF TimerFires, CopyTypes
  <2> QED
    BY <1>2, <1>4, <2>1 DEF TimerFires, CopyTypes, nav
<1>5. ASSUME NEW b \in Buttons, ClickCopy(b) PROVE CopyTypes'
  <2>1. writing[b] + 1 \in 0 .. MaxCopies
    BY <1>2, <1>5, PendingCounts, PageAssumption DEF ClickCopy
  <2>2. writing' \in [Buttons -> 0 .. MaxCopies]
    BY <1>2, <1>5, <2>1 DEF ClickCopy, CopyTypes
  <2>3. Done(b) \/ UNCHANGED <<label, timers, overlapped>>
    BY <1>5 DEF ClickCopy, Fallback
  <2> QED
    BY <1>2, <1>5, <2>2, <2>3, DoneTypes DEF ClickCopy, CopyTypes, nav
<1>6. ASSUME NEW b \in Buttons, WriteAnswered(b) PROVE CopyTypes'
  <2>1. writing' \in [Buttons -> 0 .. MaxCopies]
    BY <1>2, <1>6, PageAssumption DEF WriteAnswered, CopyTypes
  <2>2. Done(b) \/ UNCHANGED <<label, timers, overlapped>>
    BY <1>6 DEF WriteAnswered, Fallback
  <2> QED
    BY <1>2, <1>6, <2>1, <2>2, DoneTypes DEF WriteAnswered, CopyTypes, nav
<1> QED
  BY <1>1, <1>3, <1>4, <1>5, <1>6 DEF PageInv

\* A fresh page: what the server rendered, and nothing sent.
LEMMA Fresh ==
  /\ Nothing \in [what : {"nothing", "form", "link", "bulk"},
                  shown : 0 .. Cardinality(Rows), said : 0 .. Cardinality(Rows), rows : SUBSET Rows]
  /\ 0 \in 0 .. Cardinality(Rows) /\ Nothing.what = "nothing"
<1>1. 0 \in 0 .. Cardinality(Rows)
  BY PageAssumption, FS_CardinalityType
<1> QED
  BY <1>1 DEF Nothing

\* The page is left, or loaded again.
LEMMA LeaveInv ==
  ASSUME PageInv, NEW m \in Modes, NEW t \in Types, NEW k \in Kinds, NEW S \in SUBSET Rows,
         Leave(m, t, k, S)
  PROVE  PageInv'
<1> USE PageAssumption DEF Leave
<1>1. FormTypes' /\ FormInv'
  BY DEF PageInv, FormTypes, FormInv
<1>2. BulkTypes'
  BY Fresh DEF BulkTypes
<1>3. BulkInv'
  BY Fresh DEF BulkInv, BulkBarTells, BulkSaysWhatItSends
<1>4. CopyTypes'
  <2>1. timers' \in Seq(Buttons \X Labels)
    BY EmptySeq
  <2>2. label' \in [Buttons -> Labels] /\ writing' \in [Buttons -> 0 .. MaxCopies]
    BY DEF Labels
  <2> QED
    BY <2>1, <2>2 DEF CopyTypes
<1> QED
  BY <1>1, <1>2, <1>3, <1>4 DEF PageInv

---------------------------------------------------------------------------
(* The theorems *)

\* The invariant holds of every reachable state.
LEMMA PageInvariant == Spec => []PageInv
<1>1. Init => PageInv
  <2> SUFFICES ASSUME Init PROVE PageInv
    OBVIOUS
  <2> USE PageAssumption DEF Init
  <2>1. FormTypes /\ FormInv
    BY DEF FormTypes, FormInv
  <2>2. BulkTypes
    BY Fresh DEF BulkTypes
  <2>3. BulkInv
    BY Fresh DEF BulkInv, BulkBarTells, BulkSaysWhatItSends
  <2>4. CopyTypes
    <3>1. timers \in Seq(Buttons \X Labels)
      BY EmptySeq
    <3>2. label \in [Buttons -> Labels] /\ writing \in [Buttons -> 0 .. MaxCopies]
      BY DEF Labels
    <3> QED
      BY <3>1, <3>2 DEF CopyTypes
  <2> QED
    BY <2>1, <2>2, <2>3, <2>4 DEF PageInv
<1>2. PageInv /\ [Next]_vars => PageInv'
  <2> SUFFICES ASSUME PageInv, [Next]_vars PROVE PageInv'
    OBVIOUS
  <2>1. CASE UNCHANGED vars
    BY <2>1, FormKept, BulkKept, CopyKept DEF PageInv, vars
  <2> QED
    BY <2>1, LoadInv, ChoiceInv, TickInv, SendInv, CopyInv, LeaveInv DEF Next
<1> QED
  BY <1>1, <1>2, PTL DEF Spec

\* TypeOK is an invariant; in particular the menu's button always says whether the
\* menu is open.
THEOREM PageTypeCorrect == Spec => []TypeOK
<1>1. PageInv => TypeOK
  BY DEF PageInv, FormTypes, BulkTypes, CopyTypes, Labels, TypeOK
<1> QED
  BY <1>1, PageInvariant, PTL

\* applyMode and apply, for any sections nested in any way the templates may: after
\* any choices, a field is submitted exactly if it is shown, and no name twice.
THEOREM FormSubmitsWhatIsShown == Spec => []HiddenIsNotSubmitted
<1>1. PageInv => HiddenIsNotSubmitted
  <2> SUFFICES ASSUME PageInv, ready PROVE HiddenIsNotSubmitted
    BY DEF HiddenIsNotSubmitted, DisabledIffHidden, OneValuePerName
  <2>1. \A f \in Fields : f \in disabled <=> Off(f, mode, type)
    BY DEF PageInv, FormInv
  <2>2. \A e \in Moded : e \in hidden <=> mode \notin Want[e]
    BY PageAssumption DEF PageInv, FormInv, Hide
  <2>3. \A e \in ShowWhen : e \in hidden <=> type \notin Want[e]
    BY PageAssumption DEF PageInv, FormInv, Hide
  <2>4. DisabledIffHidden
    BY <2>1, <2>2, <2>3 DEF DisabledIffHidden, Off
  <2>5. OneValuePerName
    <3> SUFFICES ASSUME NEW f \in Fields, NEW g \in Fields, f \notin disabled, g \notin disabled,
                        Name[f] = Name[g], f # g
                 PROVE  FALSE
      BY DEF OneValuePerName
    <3>1. PICK s \in Moded, t \in Moded : f \in Inside[s] /\ g \in Inside[t] /\ Want[s] \cap Want[t] = {}
      BY PageAssumption
    <3>2. mode \in Want[s] /\ mode \in Want[t]
      BY <2>1, <3>1 DEF Off
    <3> QED
      BY <3>1, <3>2
  <2> QED
    BY <2>4, <2>5 DEF HiddenIsNotSubmitted
<1> QED
  BY <1>1, PageInvariant, PTL

\* refreshBulk and the bulk buttons, for any number of rows: the bar tells what is
\* ticked, and a bulk request is about the rows whose number the dialogue named.
THEOREM BulkBarIsRight == Spec => []BulkIsTold
<1>1. PageInv => BulkIsTold
  BY DEF PageInv, BulkInv, BulkIsTold
<1> QED
  BY <1>1, PageInvariant, PTL
=============================================================================
