----------------------------- MODULE Views_proofs -----------------------------
(***************************************************************************)
(* Theorems about Views, for any number of bindings and any outcomes of    *)
(* loading and saving.  A handler is an operator on the user interface, so *)
(* most lemmas say what one of them keeps of Consistent.                   *)
(***************************************************************************)
EXTENDS Views, WellFoundedInduction, TLAPS

\* The popup taken for open is there, only its keys are bound, and once; the
\* cursor is off with it; and the focus is on no popup that is there but it.
Consistent(s) ==
    /\ s \in UserInterface
    /\ {"request", "info"} \subseteq s.views
    /\ s.popup # NoPopup => s.popup \in s.views
    /\ \A p \in Popups : s.bound[p] <= 1 /\ (s.bound[p] = 1 => s.popup = p)
    /\ s.cursor <=> s.popup \notin ReadOnlyPopups
    /\ s.focus \in Popups /\ (s.focus \in s.views \/ s.popup # NoPopup) => s.popup = s.focus

ViewsInvariant ==
    /\ Consistent(ui) /\ ~ui.err
    /\ hidden \in BOOLEAN
    /\ exited \in {"no", "quit", "error", "panic", "layout"}

\* What the builder being shown saves the handlers from: see
\* BuilderKeepsTheRest.
Orphaned(s) == (s.views \cap Popups) \ {s.popup}
Smooth(s, t) ==
    Builder \subseteq s.views /\ ~s.err =>
        /\ ~t.err
        /\ Builder \subseteq t.views
        /\ Orphaned(t) \subseteq Orphaned(s)
        /\ s.alive => t.alive

-----------------------------------------------------------------------------
(* Names and records                                                       *)

LEMMA NamesFacts ==
    /\ Builder \cap Popups = {} /\ {"request", "info"} \cap Popups = {}
    /\ NoPopup \notin Names /\ Popups \subseteq Names /\ ReadOnlyPopups \subseteq Popups
    /\ "bindings" \in ReadOnlyPopups /\ "responses" \in ReadOnlyPopups
    /\ DOMAIN Cicleable = 1..5 /\ Len(Cicleable) = 5
    /\ \A i \in 1..5 : /\ Cicleable[i] \in Builder \cup {"request"}
                       /\ Cicleable[i] \in Names /\ Cicleable[i] \notin Popups
<1>1. DOMAIN Cicleable = 1..5 /\ Len(Cicleable) = 5
  BY DEF Cicleable
<1>2. \A i \in 1..5 : Cicleable[i] \in Builder \cup {"request"}
  BY DEF Cicleable, Builder
<1>3. /\ Builder \cap Popups = {} /\ {"request", "info"} \cap Popups = {}
      /\ NoPopup \notin Names /\ Popups \subseteq Names /\ ReadOnlyPopups \subseteq Popups
      /\ "bindings" \in ReadOnlyPopups /\ "responses" \in ReadOnlyPopups
  BY DEF Builder, Popups, ReadOnlyPopups, NoPopup, Names
<1>4. Builder \cup {"request"} \subseteq Names
  BY DEF Names
<1> QED
  BY <1>1, <1>2, <1>3, <1>4

\* Consistent in the fields it speaks of.
LEMMA FieldsTyped ==
    ASSUME NEW s \in UserInterface
    PROVE  /\ s.views \subseteq Names /\ s.focus \in Names /\ s.alive \in BOOLEAN
           /\ s.popup \in Popups \cup {NoPopup} /\ s.index \in 1..5 /\ s.cursor \in BOOLEAN
           /\ s.bound \in [Popups -> Nat] /\ s.quits \subseteq ReadOnlyPopups
           /\ s.helps \in Nat /\ s.err \in BOOLEAN
BY NamesFacts DEF UserInterface

LEMMA FailHolds ==
    ASSUME NEW s, Consistent(s)
    PROVE  /\ Consistent(Fail(s)) /\ Fail(s).err
           /\ Fail(s).views = s.views /\ Fail(s).popup = s.popup /\ Fail(s).index = s.index
           /\ Fail(s).helps = s.helps
<1>1. Fail(s) \in UserInterface
  BY DEF Fail, Consistent, UserInterface
<1>2. /\ Fail(s).views = s.views /\ Fail(s).popup = s.popup /\ Fail(s).bound = s.bound
      /\ Fail(s).cursor = s.cursor /\ Fail(s).focus = s.focus /\ Fail(s).err
      /\ Fail(s).index = s.index /\ Fail(s).helps = s.helps
  BY DEF Fail, Consistent, UserInterface
<1> QED
  BY <1>1, <1>2 DEF Consistent

\* Moving the focus to a view that is no popup.
LEMMA FocusHolds ==
    ASSUME NEW s, Consistent(s), NEW v \in Names \ Popups
    PROVE  LET t == SetCurrentView(s, v)
           IN  /\ Consistent(t) /\ t.views = s.views /\ t.popup = s.popup /\ t.index = s.index
               /\ t.helps = s.helps
               /\ v \in s.views => t.err = s.err /\ t.alive /\ t.focus = v
<1> DEFINE t == [s EXCEPT !.focus = v, !.alive = TRUE]
<1>1. CASE v \in s.views
  <2>1. t \in UserInterface
    BY DEF Consistent, UserInterface
  <2>2. /\ t.views = s.views /\ t.popup = s.popup /\ t.bound = s.bound /\ t.cursor = s.cursor
        /\ t.focus = v /\ t.alive /\ t.err = s.err /\ t.index = s.index /\ t.helps = s.helps
    BY DEF Consistent, UserInterface
  <2>3. Consistent(t)
    BY <2>1, <2>2 DEF Consistent
  <2> QED
    BY <1>1, <2>2, <2>3 DEF SetCurrentView
<1>2. CASE v \notin s.views
  BY <1>2, FailHolds DEF SetCurrentView
<1> QED
  BY <1>1, <1>2

-----------------------------------------------------------------------------
(* Closing                                                                 *)

LEMMA DeletePopupHolds ==
    ASSUME NEW s, Consistent(s), NEW p \in Popups, s.popup = p
    PROVE  LET d == DeletePopup(s, p)
           IN  /\ Consistent(d) /\ d.views = s.views \ {p} /\ d.popup = NoPopup
               /\ d.index = s.index /\ d.helps = s.helps /\ d.err = s.err
<1> DEFINE d == DeletePopup(s, p)
<1>1. s \in UserInterface
  BY DEF Consistent
<1>2. /\ d.views = s.views \ {p} /\ d.alive = (s.alive /\ s.focus # p) /\ d.popup = NoPopup
      /\ d.cursor = TRUE /\ d.bound = [s.bound EXCEPT ![p] = 0] /\ d.quits = s.quits \ {p}
      /\ d.focus = s.focus /\ d.index = s.index /\ d.helps = s.helps /\ d.err = s.err
  BY <1>1 DEF DeletePopup, UserInterface
<1>3. d \in UserInterface
  <2>1. /\ s.views \ {p} \subseteq Names /\ s.quits \ {p} \subseteq ReadOnlyPopups
        /\ [s.bound EXCEPT ![p] = 0] \in [Popups -> Nat] /\ (s.alive /\ s.focus # p) \in BOOLEAN
    BY <1>1, FieldsTyped
  <2> QED
    BY <1>1, <2>1 DEF DeletePopup, UserInterface
<1>4. \A q \in Popups : d.bound[q] <= 1 /\ d.bound[q] # 1
  <2>1. s.bound \in [Popups -> Nat]
    BY <1>1, FieldsTyped
  <2>2. \A q \in Popups : s.bound[q] <= 1 /\ (q # p => s.bound[q] # 1)
    BY DEF Consistent
  <2>3. \A q \in Popups : d.bound[q] = (IF q = p THEN 0 ELSE s.bound[q])
    BY <1>2, <2>1
  <2> QED
    BY <2>2, <2>3
<1>5. d.focus \in Popups => d.focus \notin d.views
  BY <1>2 DEF Consistent
<1>6. {"request", "info"} \subseteq d.views /\ NoPopup \notin ReadOnlyPopups
  BY <1>2, NamesFacts DEF Consistent
<1> HIDE DEF d
<1> QED
  BY <1>2, <1>3, <1>4, <1>5, <1>6 DEF Consistent, d

LEMMA ClosePopupHolds ==
    ASSUME NEW s, Consistent(s), NEW p \in Popups \cup {NoPopup}, p \in s.views => s.popup = p
    PROVE  LET t == ClosePopup(s, p)
           IN  /\ Consistent(t) /\ t.index = s.index /\ t.helps = s.helps /\ Smooth(s, t)
               /\ p \notin s.views => t = s
               /\ p \in s.views => t.popup = NoPopup /\ t.views = s.views \ {p}
<1> DEFINE t == ClosePopup(s, p)
           d == DeletePopup(s, p)
           v == Cicleable[s.index]
<1>1. CASE p \notin s.views
  <2>1. t = s
    BY <1>1 DEF ClosePopup
  <2> QED
    BY <1>1, <2>1 DEF Smooth
<1>2. CASE p \in s.views
  <2>1. s.index \in 1..5 /\ s.views \subseteq Names
    BY FieldsTyped DEF Consistent
  <2>2. v \in Names \ Popups /\ v \in Builder \cup {"request"}
    BY <2>1, NamesFacts
  <2>3. p \in Popups /\ s.popup = p
    BY <1>2, <2>1, NamesFacts
  <2>4. /\ Consistent(d) /\ d.views = s.views \ {p} /\ d.popup = NoPopup
        /\ d.index = s.index /\ d.helps = s.helps /\ d.err = s.err
    BY <2>3, DeletePopupHolds
  <2>5. t = SetCurrentView(d, v)
    BY <1>2 DEF ClosePopup
  <2> HIDE DEF t, d, v
  <2>6. /\ Consistent(t) /\ t.views = d.views /\ t.popup = d.popup /\ t.index = d.index
        /\ t.helps = d.helps
        /\ v \in d.views => t.err = d.err /\ t.alive
    BY <2>2, <2>4, <2>5, FocusHolds
  <2>7. Builder \subseteq s.views => v \in d.views /\ Builder \subseteq d.views
    <3>1. p \notin Builder /\ p # "request" /\ "request" \in s.views
      BY <2>3, NamesFacts DEF Consistent
    <3> QED
      BY <2>2, <2>4, <3>1
  <2>8. Orphaned(t) \subseteq Orphaned(s)
    BY <2>3, <2>4, <2>6 DEF Orphaned
  <2>9. Smooth(s, t)
    BY <2>4, <2>6, <2>7, <2>8 DEF Smooth
  <2> QED
    BY <1>2, <2>4, <2>6, <2>9 DEF t
<1> QED
  BY <1>1, <1>2

\* What is taken for the open popup can always be closed.
LEMMA CloseOpenHolds ==
    ASSUME NEW s, Consistent(s)
    PROVE  LET t == ClosePopup(s, s.popup)
           IN  /\ Consistent(t) /\ t.index = s.index /\ t.helps = s.helps /\ Smooth(s, t)
               /\ t.popup = NoPopup /\ t.views = s.views \ {s.popup}
<1>1. s.popup \in Popups \cup {NoPopup} /\ s.views \subseteq Names
  BY FieldsTyped DEF Consistent
<1>2. CASE s.popup = NoPopup
  <2>1. s.popup \notin s.views
    BY <1>1, <1>2, NamesFacts
  <2>2. ClosePopup(s, s.popup) = s
    BY <2>1 DEF ClosePopup
  <2> QED
    BY <1>2, <2>1, <2>2 DEF Smooth
<1>3. CASE s.popup # NoPopup
  <2>1. s.popup \in s.views
    BY <1>3 DEF Consistent
  <2> QED
    BY <1>1, <2>1, ClosePopupHolds
<1> QED
  BY <1>2, <1>3

LEMMA SmoothThrough ==
    ASSUME NEW r, NEW s, NEW t, Smooth(r, s), Smooth(s, t)
    PROVE  Smooth(r, t)
BY DEF Smooth

LEMMA SetViewHolds ==
    ASSUME NEW s, Consistent(s), NEW v \in Builder \cup {"request"}
    PROVE  LET t == SetView(s, v)
           IN  Consistent(t) /\ t.index = s.index /\ t.helps = s.helps /\ Smooth(s, t)
<1> DEFINE t == SetView(s, v)
           c == ClosePopup(s, s.popup)
<1>1. /\ Consistent(c) /\ c.index = s.index /\ c.helps = s.helps /\ Smooth(s, c)
      /\ c.popup = NoPopup /\ c.views = s.views \ {s.popup}
  BY CloseOpenHolds
<1>2. t = IF c.err THEN c ELSE SetCurrentView(c, v)
  BY DEF SetView
<1>3. v \in Names \ Popups
  BY NamesFacts DEF Names
<1> HIDE DEF t, c
<1>4. CASE c.err
  BY <1>1, <1>2, <1>4 DEF t
<1>5. CASE ~c.err
  <2>1. /\ Consistent(t) /\ t.views = c.views /\ t.popup = c.popup /\ t.index = c.index
        /\ t.helps = c.helps
        /\ v \in c.views => t.err = c.err /\ t.alive
    BY <1>1, <1>2, <1>3, <1>5, FocusHolds
  <2>2. Builder \subseteq c.views => v \in c.views
    BY <1>1 DEF Consistent
  <2>3. Smooth(c, t)
    BY <2>1, <2>2 DEF Smooth, Orphaned
  <2> QED
    BY <1>1, <2>1, <2>3, SmoothThrough DEF t
<1> QED
  BY <1>4, <1>5

-----------------------------------------------------------------------------
(* Opening                                                                 *)

\* A popup just opened, before its keys are bound.
Opened(t, p) ==
    /\ t \in UserInterface
    /\ {"request", "info"} \subseteq t.views
    /\ p \in t.views /\ t.popup = p /\ t.focus = p
    /\ ~t.cursor /\ ~t.err /\ t.alive
    /\ \A q \in Popups : t.bound[q] = 0

LEMMA OpenedFields ==
    ASSUME NEW c \in UserInterface, NEW p \in Popups, ~c.err, p \in c.views,
           {"request", "info"} \subseteq c.views, \A q \in Popups : c.bound[q] = 0
    PROVE  LET t == [SetCurrentView(c, p) EXCEPT !.popup = p, !.cursor = FALSE]
           IN  /\ ~SetCurrentView(c, p).err
               /\ Opened(t, p) /\ t.views = c.views /\ t.index = c.index /\ t.helps = c.helps
<1> DEFINE f == [c EXCEPT !.focus = p, !.alive = TRUE]
           t == [f EXCEPT !.popup = p, !.cursor = FALSE]
<1>1. SetCurrentView(c, p) = f
  BY DEF SetCurrentView
<1>2. f \in UserInterface /\ f.err = c.err
  BY NamesFacts DEF UserInterface
<1>3. /\ t.views = c.views /\ t.popup = p /\ t.focus = p /\ t.cursor = FALSE /\ t.err = c.err
      /\ t.alive = TRUE /\ t.bound = c.bound /\ t.index = c.index /\ t.helps = c.helps
  BY DEF UserInterface
<1>4. t \in UserInterface
  <2> HIDE DEF f
  <2> QED
    BY <1>2 DEF UserInterface
<1> HIDE DEF f, t
<1>5. Opened(t, p)
  BY <1>3, <1>4 DEF Opened
<1> QED
  BY <1>1, <1>2, <1>3, <1>5 DEF t

\* The view of a popup is there before the focus has been moved to it: when
\* that fails, it stays behind.
LEMMA OpenPopupHolds ==
    ASSUME NEW s, Consistent(s), ~s.err, NEW p \in Popups, s.popup # p
    PROVE  LET t == OpenPopup(s, p)
           IN  /\ t.err => Consistent(t)
               /\ ~t.err => Opened(t, p)
               /\ t.index = s.index /\ t.helps = s.helps /\ Smooth(s, t)
<1> DEFINE w == [s EXCEPT !.views = @ \cup {p}]
           c == ClosePopup(w, w.popup)
           t == OpenPopup(s, p)
<1>1. /\ s \in UserInterface /\ s.views \subseteq Names /\ p \in Names
      /\ s.bound \in [Popups -> Nat] /\ s.popup \in Popups \cup {NoPopup}
  BY FieldsTyped, NamesFacts DEF Consistent
<1>2. w \in UserInterface
  BY <1>1 DEF UserInterface
<1>3. /\ w.views = s.views \cup {p} /\ w.focus = s.focus /\ w.alive = s.alive /\ w.popup = s.popup
      /\ w.index = s.index /\ w.cursor = s.cursor /\ w.bound = s.bound /\ w.helps = s.helps
      /\ w.err = s.err
  BY <1>1 DEF UserInterface
<1>4. t = LET shown == IF c.err THEN c ELSE SetCurrentView(c, p)
          IN  IF shown.err THEN shown ELSE [shown EXCEPT !.popup = p, !.cursor = FALSE]
  BY DEF OpenPopup, SetView
<1>5. /\ c.index = s.index /\ c.helps = s.helps /\ c.views = (s.views \cup {p}) \ {s.popup}
      /\ c.popup = NoPopup
      /\ c.err => Consistent(c)
      /\ c \in UserInterface /\ {"request", "info"} \subseteq c.views
      /\ \A q \in Popups : c.bound[q] = 0
      /\ Builder \subseteq s.views => ~c.err /\ Builder \subseteq c.views
  <2>1. CASE s.popup = NoPopup
    <3>1. c = w
      BY <1>1, <1>2, <1>3, <2>1, NamesFacts DEF ClosePopup
    <3>2. \A q \in Popups : s.bound[q] = 0
      <4>1. \A q \in Popups : s.bound[q] <= 1 /\ s.bound[q] # 1 /\ s.bound[q] \in Nat
        BY <1>1, <2>1, NamesFacts DEF Consistent
      <4> QED
        BY <4>1
    <3>3. s.popup \notin s.views \cup {p}
      BY <1>1, <2>1, NamesFacts
    <3> HIDE DEF c, w
    <3> QED
      BY <1>2, <1>3, <2>1, <3>1, <3>2, <3>3 DEF Consistent
  <2>2. CASE s.popup # NoPopup
    <3>1. s.focus \in Popups => s.focus = s.popup
      BY <2>2 DEF Consistent
    <3> HIDE DEF w, c
    <3>2. Consistent(w)
      BY <1>2, <1>3, <2>2, <3>1 DEF Consistent
    <3>3. /\ Consistent(c) /\ c.index = w.index /\ c.helps = w.helps /\ Smooth(w, c)
          /\ c.popup = NoPopup /\ c.views = w.views \ {w.popup}
      BY <3>2, CloseOpenHolds DEF c
    <3>4. \A q \in Popups : c.bound[q] = 0
      <4>1. c.bound \in [Popups -> Nat]
        BY <3>3, FieldsTyped DEF Consistent
      <4>2. \A q \in Popups : c.bound[q] <= 1 /\ c.bound[q] # 1 /\ c.bound[q] \in Nat
        BY <3>3, <4>1, NamesFacts DEF Consistent
      <4> QED
        BY <4>2
    <3> QED
      BY <1>3, <3>3, <3>4 DEF Consistent, Smooth
  <2> QED
    BY <2>1, <2>2
<1> HIDE DEF w, c, t
<1>6. CASE c.err
  <2>1. t = c
    BY <1>4, <1>6
  <2> QED
    BY <1>5, <1>6, <2>1 DEF t, Smooth
<1>7. CASE ~c.err
  <2>1. p \in c.views
    BY <1>5
  <2> DEFINE g == [SetCurrentView(c, p) EXCEPT !.popup = p, !.cursor = FALSE]
  <2>a. /\ ~SetCurrentView(c, p).err
        /\ Opened(g, p) /\ g.views = c.views /\ g.index = c.index /\ g.helps = c.helps
    BY <1>5, <1>7, <2>1, OpenedFields
  <2>b. t = g
    BY <1>4, <1>7, <2>a
  <2>2. /\ Opened(t, p) /\ t.views = c.views /\ t.index = c.index /\ t.helps = c.helps
    BY <2>a, <2>b
  <2>3. Smooth(s, t)
    <3>1. ~t.err /\ t.alive /\ t.popup = p
      BY <2>2 DEF Opened
    <3>2. Orphaned(t) \subseteq Orphaned(s)
      BY <1>5, <2>2, <3>1 DEF Orphaned
    <3> QED
      BY <1>5, <2>2, <3>1, <3>2 DEF Smooth
  <2> QED
    BY <1>5, <2>2, <2>3 DEF t, Opened
<1> QED
  BY <1>6, <1>7

\* A popup that takes no text is open when its keys are bound, or has none.
LEMMA OpenedHolds ==
    ASSUME NEW t, NEW p \in ReadOnlyPopups, Opened(t, p)
    PROVE  Consistent(t)
BY NamesFacts DEF Opened, Consistent

LEMMA OpenEditableHolds ==
    ASSUME NEW s, Consistent(s), ~s.err, NEW p \in Popups \ ReadOnlyPopups
    PROVE  LET t == OpenEditable(s, p)
           IN  Consistent(t) /\ Smooth(s, t)
<1> DEFINE c == ClosePopup(s, s.popup)
           o == OpenPopup(c, p)
           t == OpenEditable(s, p)
           b == [o EXCEPT !.bound[p] = @ + 1, !.cursor = TRUE]
<1>1. /\ Consistent(c) /\ c.index = s.index /\ c.helps = s.helps /\ Smooth(s, c)
      /\ c.popup = NoPopup
  BY CloseOpenHolds
<1>2. t = IF c.err THEN c ELSE IF o.err THEN o ELSE b
  BY DEF OpenEditable
<1>3. p # NoPopup /\ p \in Popups
  BY NamesFacts
<1>4. CASE c.err
  BY <1>1, <1>2, <1>4
<1>5. CASE ~c.err
  <2>1. /\ o.err => Consistent(o)
        /\ ~o.err => Opened(o, p)
        /\ Smooth(c, o)
    <3> HIDE DEF c
    <3> QED
      BY <1>1, <1>3, <1>5, OpenPopupHolds
  <2>2. CASE o.err
    BY <1>1, <1>2, <1>5, <2>1, <2>2, SmoothThrough
  <2>3. CASE ~o.err
    <3>1. o \in UserInterface /\ Opened(o, p) /\ o.bound \in [Popups -> Nat]
      BY <2>1, <2>3, FieldsTyped DEF Opened
    <3> HIDE DEF c, o, t
    <3>2. /\ b.views = o.views /\ b.popup = o.popup /\ b.focus = o.focus /\ b.cursor = TRUE
          /\ b.err = o.err /\ b.alive = o.alive /\ b.bound = [o.bound EXCEPT ![p] = @ + 1]
      BY <3>1 DEF UserInterface
    <3>3. b \in UserInterface
      <4>1. [o.bound EXCEPT ![p] = @ + 1] \in [Popups -> Nat]
        BY <3>1
      <4> QED
        BY <3>1, <4>1 DEF UserInterface
    <3>4. \A q \in Popups : b.bound[q] = IF q = p THEN 1 ELSE 0
      BY <1>3, <3>1, <3>2 DEF Opened
    <3> HIDE DEF b
    <3>5. Consistent(b)
      BY <1>3, <3>1, <3>2, <3>3, <3>4 DEF Consistent, Opened
    <3>6. Smooth(o, b)
      BY <3>2 DEF Smooth, Orphaned
    <3>7. Smooth(s, b)
      BY <1>1, <2>1, <3>6, SmoothThrough
    <3> QED
      BY <1>2, <1>5, <2>3, <3>5, <3>7 DEF t
  <2> QED
    BY <2>2, <2>3
<1> QED
  BY <1>4, <1>5

LEMMA ToggleHelpHolds ==
    ASSUME NEW s, Consistent(s), ~s.err
    PROVE  LET t == ToggleHelp(s)
           IN  Consistent(t) /\ Smooth(s, t)
<1>1. CASE s.popup = "bindings"
  <2>1. ToggleHelp(s) = ClosePopup(s, s.popup)
    BY <1>1 DEF ToggleHelp
  <2> QED
    BY <2>1, CloseOpenHolds
<1>2. CASE s.popup # "bindings"
  <2>1. ToggleHelp(s) = OpenPopup(s, "bindings")
    BY <1>2 DEF ToggleHelp
  <2>2. "bindings" \in ReadOnlyPopups /\ "bindings" \in Popups
    BY NamesFacts
  <2> QED
    BY <1>2, <2>1, <2>2, OpenPopupHolds, OpenedHolds
<1> QED
  BY <1>1, <1>2

\* What a handler leaves behind.
Cleared(s) == [s EXCEPT !.err = FALSE]

LEMMA ClearedHolds ==
    ASSUME NEW t, Consistent(t)
    PROVE  /\ Consistent(Cleared(t)) /\ ~Cleared(t).err
           /\ Cleared(t).views = t.views /\ Cleared(t).popup = t.popup /\ Cleared(t).alive = t.alive
           /\ \A s : Smooth(s, t) => Smooth(s, Cleared(t))
<1> DEFINE c == Cleared(t)
<1>1. t \in UserInterface
  BY DEF Consistent
<1>2. /\ c.views = t.views /\ c.popup = t.popup /\ c.bound = t.bound /\ c.cursor = t.cursor
      /\ c.focus = t.focus /\ c.alive = t.alive /\ c.err = FALSE
  BY <1>1 DEF Cleared, UserInterface
<1>3. c \in UserInterface
  BY <1>1 DEF Cleared, UserInterface
<1> HIDE DEF c
<1>4. Consistent(c)
  BY <1>2, <1>3 DEF Consistent
<1>5. \A s : Smooth(s, t) => Smooth(s, c)
  BY <1>2 DEF Smooth, Orphaned
<1> QED
  BY <1>2, <1>4, <1>5 DEF c

LEMMA ToggleLoaderHolds ==
    ASSUME NEW s, Consistent(s), ~s.err, NEW load \in LoadOutcomes
    PROVE  LET t == ToggleLoader(s, load)
           IN  Consistent(t) /\ Smooth(s, Cleared(t))
<1> DEFINE t == ToggleLoader(s, load)
           o == OpenPopup(s, "responses")
           b == [o EXCEPT !.bound["responses"] = @ + 1, !.helps = @ + 1]
<1>1. t = IF s.popup = "responses" THEN ClosePopup(s, s.popup)
          ELSE IF load # "some" THEN Fail(s)
          ELSE IF o.err THEN o ELSE b
  BY DEF ToggleLoader
<1>2. CASE s.popup = "responses"
  <2>1. Consistent(t) /\ Smooth(s, t)
    BY <1>1, <1>2, CloseOpenHolds
  <2> QED
    BY <2>1, ClearedHolds
<1>3. CASE s.popup # "responses" /\ load # "some"
  <2>1. Consistent(t) /\ t.views = s.views /\ t.popup = s.popup /\ t.alive = s.alive
    BY <1>1, <1>3, FailHolds DEF Fail, Consistent, UserInterface
  <2> HIDE DEF t
  <2>2. Smooth(s, Cleared(t))
    BY <2>1, ClearedHolds DEF Smooth, Orphaned
  <2> QED
    BY <2>1, <2>2 DEF t
<1>4. CASE s.popup # "responses" /\ load = "some"
  <2>1. "responses" \in Popups /\ "responses" \in ReadOnlyPopups
    BY NamesFacts
  <2>2. /\ o.err => Consistent(o)
        /\ ~o.err => Opened(o, "responses")
        /\ Smooth(s, o)
    BY <1>4, <2>1, OpenPopupHolds
  <2>3. CASE o.err
    BY <1>1, <1>4, <2>2, <2>3, ClearedHolds
  <2>4. CASE ~o.err
    <3>1. o \in UserInterface /\ Opened(o, "responses") /\ o.bound \in [Popups -> Nat] /\ o.helps \in Nat
      BY <2>2, <2>4, FieldsTyped DEF Opened
    <3> HIDE DEF o, t
    <3>2. /\ b.views = o.views /\ b.popup = o.popup /\ b.focus = o.focus /\ b.cursor = o.cursor
          /\ b.err = o.err /\ b.alive = o.alive
          /\ b.bound = [o.bound EXCEPT !["responses"] = @ + 1]
      BY <3>1 DEF UserInterface
    <3>3. b \in UserInterface
      <4>1. [o.bound EXCEPT !["responses"] = @ + 1] \in [Popups -> Nat] /\ o.helps + 1 \in Nat
        BY <2>1, <3>1
      <4> QED
        BY <3>1, <4>1 DEF UserInterface
    <3>4. \A q \in Popups : b.bound[q] = IF q = "responses" THEN 1 ELSE 0
      BY <2>1, <3>1, <3>2 DEF Opened
    <3> HIDE DEF b
    <3>5. Consistent(b)
      BY <2>1, <3>1, <3>2, <3>3, <3>4, NamesFacts DEF Consistent, Opened
    <3>6. Smooth(s, b)
      BY <2>2, <3>2 DEF Smooth, Orphaned
    <3> QED
      BY <1>1, <1>4, <2>4, <3>5, <3>6, ClearedHolds DEF t
  <2> QED
    BY <2>3, <2>4
<1> QED
  BY <1>2, <1>3, <1>4

-----------------------------------------------------------------------------
(* Ctrl+h: as many toggles as there are bindings                           *)

\* A least number with a property, which is what induction needs here.
LEMMA LeastNumber ==
    ASSUME NEW S \in SUBSET Nat, S # {}
    PROVE  \E n \in S : \A m \in S : n <= m
<1>1. PICK n \in S : \A m \in S : <<m, n>> \notin OpToRel(<, Nat)
  BY NatLessThanWellFounded, WFMin
<1>2. \A m \in S : ~(m < n)
  BY <1>1 DEF OpToRel
<1> QED
  BY <1>2

LEMMA NumbersInSteps ==
    ASSUME NEW S, 0 \in S, \A n \in Nat : n \in S => n + 1 \in S
    PROVE  Nat \subseteq S
<1> SUFFICES ASSUME Nat \ S # {} PROVE FALSE
  OBVIOUS
<1>1. PICK n \in Nat \ S : \A m \in Nat \ S : n <= m
  BY LeastNumber
<1>2. n - 1 \in Nat /\ n - 1 \notin S
  BY <1>1
<1> QED
  BY <1>1, <1>2

\* after is a run of the first n bindings.
RunsFrom(s, n, after) ==
    after = [k \in 0..n |-> IF k = 0 THEN s
                            ELSE IF after[k - 1].err THEN after[k - 1]
                            ELSE ToggleHelp(after[k - 1])]

LEMMA RunsExist ==
    ASSUME NEW s, NEW n \in Nat
    PROVE  \E after : RunsFrom(s, n, after)
<1> DEFINE Long == {k \in Nat : \E after : RunsFrom(s, k, after)}
<1>1. 0 \in Long
  <2>1. RunsFrom(s, 0, [k \in 0..0 |-> s])
    BY DEF RunsFrom
  <2> QED
    BY <2>1
<1>2. ASSUME NEW k \in Nat, k \in Long
      PROVE  k + 1 \in Long
  <2>1. PICK after : RunsFrom(s, k, after)
    BY <1>2
  <2> DEFINE last == IF after[k].err THEN after[k] ELSE ToggleHelp(after[k])
             more == [j \in 0..(k + 1) |-> IF j = k + 1 THEN last ELSE after[j]]
  <2>2. \A j \in 0..k : after[j] = IF j = 0 THEN s
                                   ELSE IF after[j - 1].err THEN after[j - 1]
                                   ELSE ToggleHelp(after[j - 1])
    BY <2>1 DEF RunsFrom
  <2>3. \A j \in 0..(k + 1) : more[j] = IF j = 0 THEN s
                                        ELSE IF more[j - 1].err THEN more[j - 1]
                                        ELSE ToggleHelp(more[j - 1])
    <3>1. more[k + 1] = last /\ k \in 0..(k + 1) /\ more[k] = after[k] /\ k + 1 # 0 /\ (k + 1) - 1 = k
      OBVIOUS
    <3>2. ASSUME NEW j \in 0..k
          PROVE  more[j] = after[j] /\ (j # 0 => more[j - 1] = after[j - 1])
      OBVIOUS
    <3>3. \A j \in 0..(k + 1) : j = k + 1 \/ j \in 0..k
      OBVIOUS
    <3> HIDE DEF more
    <3> QED
      BY <2>2, <3>1, <3>2, <3>3
  <2>4. more = [j \in 0..(k + 1) |-> more[j]]
    OBVIOUS
  <2> HIDE DEF more
  <2>5. RunsFrom(s, k + 1, more)
    BY <2>3, <2>4 DEF RunsFrom
  <2> QED
    BY <2>5
<1> HIDE DEF Long
<1>3. Nat \subseteq Long
  BY <1>1, <1>2, NumbersInSteps
<1> QED
  BY <1>3 DEF Long

LEMMA HelpedHolds ==
    ASSUME NEW s, Consistent(s), ~s.err, NEW n \in Nat
    PROVE  Consistent(Helped(s, n)) /\ Smooth(s, Helped(s, n))
<1> DEFINE after == CHOOSE f : RunsFrom(s, n, f)
<1>1. RunsFrom(s, n, after)
  BY RunsExist
<1>2. Helped(s, n) = after[n]
  BY DEF Helped, RunsFrom
<1> HIDE DEF after
<1> DEFINE Fine == {k \in Nat : k \in 0..n => Consistent(after[k]) /\ Smooth(s, after[k])}
<1>3. 0 \in Fine
  <2>1. after[0] = s
    BY <1>1 DEF RunsFrom
  <2> QED
    BY <2>1 DEF Smooth
<1>4. ASSUME NEW k \in Nat, k \in Fine
      PROVE  k + 1 \in Fine
  <2> SUFFICES ASSUME k + 1 \in 0..n
               PROVE  Consistent(after[k + 1]) /\ Smooth(s, after[k + 1])
    OBVIOUS
  <2>1. Consistent(after[k]) /\ Smooth(s, after[k])
    BY <1>4
  <2>2. after[k + 1] = IF after[k].err THEN after[k] ELSE ToggleHelp(after[k])
    BY <1>1 DEF RunsFrom
  <2> QED
    BY <2>1, <2>2, ToggleHelpHolds, SmoothThrough
<1> HIDE DEF Fine
<1>5. Nat \subseteq Fine
  BY <1>3, <1>4, NumbersInSteps
<1> QED
  BY <1>2, <1>5 DEF Fine

-----------------------------------------------------------------------------
(* The steps                                                               *)

\* What BuilderKeepsTheRest says of a step.
RestIsKept ==
    BuilderShown /\ ~hidden =>
        /\ Orphans' \subseteq Orphans
        /\ ui.alive => ui'.alive
        /\ exited' # "panic"
        /\ exited' = "error" => ui.focus = "responses"

LEMMA ReturnHolds ==
    ASSUME ViewsInvariant, Running, NEW t, Consistent(t), Return(t), hidden' \in BOOLEAN
    PROVE  ViewsInvariant' /\ (Smooth(ui, t) => RestIsKept)
<1>1. ui' = Cleared(t) /\ exited' = IF t.err THEN "error" ELSE "no"
  BY DEF Return, Cleared
<1>2. ViewsInvariant'
  BY <1>1, ClearedHolds DEF ViewsInvariant
<1>3. ASSUME Smooth(ui, t)
      PROVE  RestIsKept
  <2>1. Smooth(ui, ui')
    BY <1>1, <1>3, ClearedHolds
  <2> QED
    BY <1>1, <1>3, <2>1 DEF RestIsKept, Smooth, BuilderShown, Orphans, Orphaned, ViewsInvariant
<1> QED
  BY <1>2, <1>3

LEMMA ReturnNilHolds ==
    ASSUME ViewsInvariant, Running, NEW t, Consistent(t), ReturnNil(t), hidden' \in BOOLEAN,
           Smooth(ui, Cleared(t))
    PROVE  ViewsInvariant' /\ RestIsKept
<1>1. ui' = Cleared(t) /\ exited' = "no"
  BY DEF ReturnNil, Cleared, Running
<1>2. ViewsInvariant'
  BY <1>1, ClearedHolds DEF ViewsInvariant
<1>3. RestIsKept
  BY <1>1 DEF RestIsKept, Smooth, BuilderShown, Orphans, Orphaned, ViewsInvariant
<1> QED
  BY <1>2, <1>3

\* Tab and Shift+Tab go to the view with another index.
LEMMA IndexHolds ==
    ASSUME NEW s, Consistent(s), NEW i \in 1..5
    PROVE  LET n == [s EXCEPT !.index = i]
           IN  Consistent(n) /\ Smooth(s, n)
<1> DEFINE n == [s EXCEPT !.index = i]
<1>1. s \in UserInterface
  BY DEF Consistent
<1>2. /\ n.views = s.views /\ n.popup = s.popup /\ n.bound = s.bound /\ n.cursor = s.cursor
      /\ n.focus = s.focus /\ n.alive = s.alive /\ n.err = s.err
  BY <1>1 DEF UserInterface
<1>3. n \in UserInterface
  BY <1>1, NamesFacts DEF UserInterface
<1> HIDE DEF n
<1> QED
  BY <1>2, <1>3 DEF Consistent, Smooth, Orphaned, n

LEMMA TabSteps ==
    ASSUME ViewsInvariant, NextView \/ PrevView
    PROVE  ViewsInvariant' /\ RestIsKept
<1>1. ui.index \in 1..5 /\ Len(Cicleable) = 5 /\ Consistent(ui)
  BY FieldsTyped, NamesFacts DEF ViewsInvariant, Consistent
<1>2. PICK i \in 1..5 :
         /\ Running /\ UNCHANGED hidden
         /\ \/ Return(SetView([ui EXCEPT !.index = i], Cicleable[i]))
            \/ ReturnNil(SetView([ui EXCEPT !.index = i], Cicleable[i]))
  <2>1. CASE NextView
    <3> DEFINE next == IF ui.index = 5 THEN 1 ELSE ui.index + 1
    <3>1. next \in 1..5
      BY <1>1
    <3> QED
      BY <1>1, <2>1, <3>1 DEF NextView
  <2>2. CASE PrevView
    <3> DEFINE prev == IF ui.index = 1 THEN 5 ELSE ui.index - 1
    <3>1. prev \in 1..5
      BY <1>1
    <3> QED
      BY <1>1, <2>2, <3>1 DEF PrevView
  <2> QED
    BY <2>1, <2>2
<1> DEFINE n == [ui EXCEPT !.index = i]
           t == SetView(n, Cicleable[i])
<1>3. Consistent(n) /\ Smooth(ui, n)
  BY <1>1, IndexHolds
<1>4. Cicleable[i] \in Builder \cup {"request"}
  BY NamesFacts
<1> HIDE DEF n
<1>5. Consistent(t) /\ Smooth(ui, t)
  BY <1>3, <1>4, SetViewHolds, SmoothThrough
<1>6. Running /\ hidden' \in BOOLEAN /\ (Return(t) \/ ReturnNil(t)) /\ Smooth(ui, Cleared(t))
  BY <1>2, <1>5, ClearedHolds DEF n, ViewsInvariant
<1> HIDE DEF t
<1> QED
  BY <1>5, <1>6, ReturnHolds, ReturnNilHolds

LEMMA ClickStep ==
    ASSUME ViewsInvariant, NEW v \in Range(Cicleable), Click(v)
    PROVE  ViewsInvariant' /\ RestIsKept
<1> DEFINE t == SetView(ui, v)
<1>1. v \in Builder \cup {"request"}
  BY NamesFacts DEF Range
<1>2. Consistent(t) /\ Smooth(ui, Cleared(t))
  BY <1>1, SetViewHolds, ClearedHolds DEF ViewsInvariant
<1>3. Running /\ ReturnNil(t) /\ hidden' \in BOOLEAN
  BY DEF Click, ViewsInvariant
<1> HIDE DEF t
<1> QED
  BY <1>2, <1>3, ReturnNilHolds

LEMMA OpenSteps ==
    ASSUME ViewsInvariant,
           \/ PressHelp
           \/ \E p \in Popups \ ReadOnlyPopups : PressOpen(p)
           \/ \E load \in Loads : PressLoader(load)
    PROVE  ViewsInvariant' /\ RestIsKept
<1>0. Consistent(ui) /\ ~ui.err /\ ui.helps \in Nat
  BY FieldsTyped DEF ViewsInvariant, Consistent
<1>1. CASE PressHelp
  <2> DEFINE t == Helped(ui, ui.helps)
  <2>1. Consistent(t) /\ Smooth(ui, t)
    BY <1>0, HelpedHolds
  <2>2. Running /\ Return(t) /\ hidden' \in BOOLEAN
    BY <1>1 DEF PressHelp, ViewsInvariant
  <2> HIDE DEF t
  <2> QED
    BY <2>1, <2>2, ReturnHolds
<1>2. ASSUME NEW p \in Popups \ ReadOnlyPopups, PressOpen(p)
      PROVE  ViewsInvariant' /\ RestIsKept
  <2> DEFINE t == OpenEditable(ui, p)
  <2>1. Consistent(t) /\ Smooth(ui, t)
    BY <1>0, OpenEditableHolds
  <2>2. Running /\ Return(t) /\ hidden' \in BOOLEAN
    BY <1>2 DEF PressOpen, ViewsInvariant
  <2> HIDE DEF t
  <2> QED
    BY <2>1, <2>2, ReturnHolds
<1>3. ASSUME NEW load \in Loads, PressLoader(load)
      PROVE  ViewsInvariant' /\ RestIsKept
  <2> DEFINE t == ToggleLoader(ui, load)
  <2>1. Consistent(t) /\ Smooth(ui, Cleared(t))
    BY <1>0, ToggleLoaderHolds, LoadsAssumption
  <2>2. Running /\ ReturnNil(t) /\ hidden' \in BOOLEAN
    BY <1>3 DEF PressLoader, ViewsInvariant
  <2> HIDE DEF t
  <2> QED
    BY <2>1, <2>2, ReturnNilHolds
<1> QED
  BY <1>1, <1>2, <1>3

LEMMA BuilderSteps ==
    ASSUME ViewsInvariant, ToggleResponseBuilder \/ NextBodyMode
    PROVE  ViewsInvariant' /\ RestIsKept
<1>0. Consistent(ui) /\ ~ui.err /\ "request" \in ui.views /\ hidden \in BOOLEAN
  BY DEF ViewsInvariant, Consistent
<1>1. CASE ToggleResponseBuilder
  <2> DEFINE t == IF hidden' THEN SetCurrentView(ui, "request") ELSE ui
  <2>1. "request" \in Names \ Popups
    BY NamesFacts DEF Names
  <2>2. /\ Consistent(t) /\ t.views = ui.views /\ t.popup = ui.popup /\ ~t.err
        /\ ui.alive => t.alive
    BY <1>0, <2>1, FocusHolds
  <2>3. Running /\ Return(t) /\ hidden' \in BOOLEAN
    BY <1>0, <1>1 DEF ToggleResponseBuilder
  <2> HIDE DEF t
  <2>4. Smooth(ui, t)
    BY <2>2 DEF Smooth, Orphaned
  <2> QED
    BY <2>2, <2>3, <2>4, ReturnHolds
<1>2. CASE NextBodyMode
  <2> DEFINE t == RenderBody(ui)
  <2>1. Consistent(t)
    BY <1>0, FailHolds DEF RenderBody
  <2>2. Smooth(ui, t)
    BY DEF RenderBody, Smooth, Orphaned, Builder
  <2>3. Running /\ Return(t) /\ hidden' \in BOOLEAN
    BY <1>0, <1>2 DEF NextBodyMode
  <2> HIDE DEF t
  <2> QED
    BY <2>1, <2>2, <2>3, ReturnHolds
<1> QED
  BY <1>1, <1>2

LEMMA PressQStep ==
    ASSUME ViewsInvariant, PressQ
    PROVE  ViewsInvariant' /\ RestIsKept
<1> DEFINE named == IF ui.focus \in ui.quits THEN ClosePopup(ui, ui.focus) ELSE ui
           local == ui.focus = "responses" /\ ui.bound["responses"] > 0
           t == IF local /\ ~named.err THEN ClosePopup(named, "responses") ELSE named
<1>1. /\ Consistent(ui) /\ ~ui.err /\ ui.quits \subseteq ReadOnlyPopups
      /\ ReadOnlyPopups \subseteq Popups /\ "responses" \in Popups
      /\ ui.bound \in [Popups -> Nat]
  BY FieldsTyped, NamesFacts DEF ViewsInvariant, Consistent
<1>2. Consistent(named) /\ Smooth(ui, named)
  <2>1. CASE ui.focus \in ui.quits
    <3>1. ui.focus \in Popups /\ (ui.focus \in ui.views => ui.popup = ui.focus)
      BY <1>1, <2>1 DEF Consistent
    <3> QED
      BY <1>1, <2>1, <3>1, ClosePopupHolds
  <2>2. CASE ui.focus \notin ui.quits
    BY <1>1, <2>2 DEF Smooth
  <2> QED
    BY <2>1, <2>2
<1>3. "responses" \in named.views => named.popup = "responses" \/ ~local
  <2>1. CASE ui.focus \in ui.quits
    <3>1. ui.focus \in Popups /\ (ui.focus \in ui.views => ui.popup = ui.focus)
      BY <1>1, <2>1 DEF Consistent
    <3>2. local => named = ClosePopup(ui, "responses") /\ ui.focus = "responses"
      BY <2>1
    <3>3. local => "responses" \notin named.views
      BY <1>1, <3>1, <3>2, ClosePopupHolds
    <3> QED
      BY <3>3
  <2>2. CASE ui.focus \notin ui.quits
    <3>1. local => ui.bound["responses"] = 1
      BY <1>1 DEF Consistent
    <3> QED
      BY <1>1, <2>2, <3>1 DEF Consistent
  <2> QED
    BY <2>1, <2>2
<1>4. Running /\ Return(t) /\ hidden' \in BOOLEAN
  BY DEF PressQ, ViewsInvariant
<1> HIDE DEF named
<1>5. Consistent(t) /\ Smooth(ui, t)
  BY <1>1, <1>2, <1>3, ClosePopupHolds, SmoothThrough
<1> HIDE DEF t
<1> QED
  BY <1>4, <1>5, ReturnHolds

\* The keys of a popup close the one taken for open.
LEMMA PopupKeyHolds ==
    ASSUME ViewsInvariant, NEW p \in Popups, PopupKey(p)
    PROVE  /\ ui.popup = p /\ Consistent(ui) /\ ~ui.err /\ Running /\ hidden' \in BOOLEAN
           /\ LET t == ClosePopup(ui, p) IN Consistent(t) /\ Smooth(ui, t)
<1>1. Consistent(ui) /\ ui.bound \in [Popups -> Nat]
  BY FieldsTyped DEF ViewsInvariant, Consistent
<1>2. ui.bound[p] = 1
  BY <1>1 DEF Consistent, PopupKey
<1>3. ui.popup = p
  BY <1>2 DEF Consistent, ViewsInvariant
<1> QED
  BY <1>1, <1>3, ClosePopupHolds DEF PopupKey, ViewsInvariant

LEMMA EnterSteps ==
    ASSUME ViewsInvariant, EnterSave \/ EnterFile \/ EnterResponse
    PROVE  ViewsInvariant' /\ RestIsKept
<1>0. {"save", "file-dialog", "responses"} \subseteq Popups
  BY DEF Popups, ReadOnlyPopups
<1>1. CASE EnterSave
  <2> DEFINE t == ClosePopup(ui, "save")
  <2>1. PopupKey("save") /\ Return(t)
    BY <1>1 DEF EnterSave
  <2>2. Consistent(t) /\ Smooth(ui, t) /\ Running /\ hidden' \in BOOLEAN
    BY <1>0, <2>1, PopupKeyHolds
  <2> HIDE DEF t
  <2> QED
    BY <2>1, <2>2, ReturnHolds
<1>2. CASE EnterFile
  <2>1. PICK opened \in BOOLEAN :
           LET rendered == IF opened THEN RenderBody(ui) ELSE ui
           IN  Return(IF rendered.err THEN rendered ELSE ClosePopup(rendered, "file-dialog"))
    BY <1>2 DEF EnterFile
  <2> DEFINE r == IF opened THEN RenderBody(ui) ELSE ui
             t == IF r.err THEN r ELSE ClosePopup(r, "file-dialog")
  <2>2. /\ Consistent(ui) /\ ~ui.err /\ Running /\ hidden' \in BOOLEAN
        /\ LET c == ClosePopup(ui, "file-dialog") IN Consistent(c) /\ Smooth(ui, c)
    BY <1>0, <1>2, PopupKeyHolds DEF EnterFile
  <2>3. CASE opened /\ "body" \notin ui.views
    <3>1. t = Fail(ui)
      BY <2>2, <2>3, FailHolds DEF RenderBody
    <3>2. Consistent(t) /\ Smooth(ui, t)
      BY <2>2, <2>3, <3>1, FailHolds DEF Smooth, Builder
    <3> QED
      BY <2>1, <2>2, <3>2, ReturnHolds
  <2>4. CASE ~(opened /\ "body" \notin ui.views)
    <3>1. t = ClosePopup(ui, "file-dialog")
      BY <2>2, <2>4 DEF RenderBody
    <3> QED
      BY <2>1, <2>2, <3>1, ReturnHolds
  <2> QED
    BY <2>3, <2>4
<1>3. CASE EnterResponse
  <2>1. UNCHANGED <<ui, hidden>> /\ exited' \in {exited, "panic"} /\ exited = "no"
    BY <1>3 DEF EnterResponse, PopupKey, Running
  <2>2. BuilderShown => exited' = "no"
    BY <1>3, <2>1 DEF EnterResponse, BuilderShown
  <2> QED
    BY <2>1, <2>2 DEF ViewsInvariant, RestIsKept, Orphans
<1> QED
  BY <1>1, <1>2, <1>3

LEMMA DeleteStep ==
    ASSUME ViewsInvariant, NEW load \in Loads, DeleteResponse(load)
    PROVE  ViewsInvariant' /\ RestIsKept
<1>0. "responses" \in Popups
  BY NamesFacts
<1>1. /\ Consistent(ui) /\ ~ui.err /\ Running /\ hidden' \in BOOLEAN /\ ui.focus = "responses"
      /\ LET c == ClosePopup(ui, "responses") IN Consistent(c) /\ Smooth(ui, c)
  BY <1>0, PopupKeyHolds DEF DeleteResponse, PopupKey
<1>2. PICK saved \in Saves :
         LET closed == IF saved THEN ClosePopup(ui, "responses") ELSE Fail(ui)
         IN  IF closed.err THEN Return(closed) ELSE ReturnNil(ToggleLoader(closed, load))
  BY DEF DeleteResponse
<1>3. CASE ~saved
  <2> DEFINE t == Fail(ui)
  <2>1. Return(t) /\ Consistent(t)
    BY <1>1, <1>2, <1>3, FailHolds
  <2>2. /\ ui'.views = ui.views /\ ui'.popup = ui.popup /\ ui'.alive = ui.alive
        /\ exited' \in {"no", "error"}
    BY <1>1, <2>1, FieldsTyped DEF Return, Fail, Consistent, UserInterface
  <2> HIDE DEF t
  <2>3. ViewsInvariant'
    BY <1>1, <2>1, ReturnHolds
  <2>4. RestIsKept
    BY <1>1, <2>2 DEF RestIsKept, Orphans
  <2> QED
    BY <2>3, <2>4
<1>4. CASE saved
  <2> DEFINE c == ClosePopup(ui, "responses")
             t == ToggleLoader(c, load)
  <2>1. Consistent(c) /\ Smooth(ui, c) /\ (IF c.err THEN Return(c) ELSE ReturnNil(t))
    BY <1>1, <1>2, <1>4
  <2> HIDE DEF c
  <2>2. CASE c.err
    BY <1>1, <2>1, <2>2, ReturnHolds
  <2>3. CASE ~c.err
    <3>1. Consistent(t) /\ Smooth(c, Cleared(t))
      BY <2>1, <2>3, ToggleLoaderHolds, LoadsAssumption
    <3>2. Smooth(ui, Cleared(t)) /\ ReturnNil(t)
      BY <2>1, <2>3, <3>1, SmoothThrough
    <3> HIDE DEF t
    <3> QED
      BY <1>1, <3>1, <3>2, ReturnNilHolds
  <2> QED
    BY <2>2, <2>3
<1> QED
  BY <1>3, <1>4, SavesAssumption

LEMMA LayoutStep ==
    ASSUME ViewsInvariant, Layout
    PROVE  ViewsInvariant' /\ RestIsKept
<1> DEFINE w == IF hidden THEN ui.views \ Builder ELSE ui.views \cup Builder
           a == ui.alive /\ ~(hidden /\ ui.focus \in Builder)
           t == [ui EXCEPT !.views = w, !.alive = a]
<1>1. ui' = t /\ exited' = "no" /\ hidden' = hidden
  BY DEF Layout, Running
<1>2. ui \in UserInterface /\ ui.views \subseteq Names /\ ui.alive \in BOOLEAN
  BY FieldsTyped DEF ViewsInvariant, Consistent
<1>3. w \subseteq Names /\ a \in BOOLEAN /\ w \cap Popups = ui.views \cap Popups
  BY <1>2, NamesFacts DEF Names
<1>4. w \ Builder = ui.views \ Builder /\ "request" \notin Builder /\ "info" \notin Builder
  BY DEF Builder
<1> HIDE DEF w, a
<1>5. /\ t.views = w /\ t.popup = ui.popup /\ t.bound = ui.bound /\ t.cursor = ui.cursor
      /\ t.focus = ui.focus /\ t.alive = a /\ t.err = ui.err
      /\ t \in UserInterface
  BY <1>2, <1>3 DEF UserInterface
<1> HIDE DEF t
<1>6. Consistent(t) /\ ~t.err
  <2>1. \A v \in Names : v \notin Builder => (v \in w <=> v \in ui.views)
    BY <1>4
  <2>2. \A v \in Popups : v \in w <=> v \in ui.views
    BY <1>3
  <2>3. {"request", "info"} \subseteq w
    BY <1>4 DEF ViewsInvariant, Consistent
  <2> QED
    BY <1>5, <2>2, <2>3, FieldsTyped DEF ViewsInvariant, Consistent
<1>7. ViewsInvariant'
  BY <1>1, <1>6 DEF ViewsInvariant
<1>8. RestIsKept
  BY <1>1, <1>3, <1>5 DEF RestIsKept, Orphans, a
<1> QED
  BY <1>7, <1>8

\* A layout that fails has made some of the builder's views.
LEMMA LayoutFailsStep ==
    ASSUME ViewsInvariant, LayoutFails
    PROVE  ViewsInvariant' /\ RestIsKept
<1>1. PICK made \in SUBSET Builder : ui' = [ui EXCEPT !.views = IF hidden THEN @ ELSE @ \cup made]
  BY DEF LayoutFails, Builder
<1> DEFINE w == IF hidden THEN ui.views ELSE ui.views \cup made
<1>2. ui \in UserInterface /\ ui.views \subseteq Names
  BY FieldsTyped DEF ViewsInvariant, Consistent
<1>3. w \subseteq Names /\ ui.views \subseteq w /\ w \cap Popups = ui.views \cap Popups
  BY <1>2, NamesFacts DEF Names
<1>4. ui' = [ui EXCEPT !.views = w] /\ exited' = "layout" /\ hidden' = hidden
  BY <1>1, <1>2 DEF LayoutFails, UserInterface
<1> HIDE DEF w
<1>5. /\ ui'.views = w /\ ui'.popup = ui.popup /\ ui'.bound = ui.bound
      /\ ui'.cursor = ui.cursor /\ ui'.focus = ui.focus /\ ui'.alive = ui.alive
      /\ ui'.err = ui.err /\ ui' \in UserInterface
  BY <1>2, <1>3, <1>4 DEF UserInterface
<1>6. (\A v \in Popups : v \in w <=> v \in ui.views) /\ {"request", "info"} \subseteq w
  BY <1>3 DEF ViewsInvariant, Consistent
<1>7. Consistent(ui') /\ ~ui'.err
  BY <1>5, <1>6, FieldsTyped DEF ViewsInvariant, Consistent
<1>8. ViewsInvariant'
  BY <1>4, <1>7 DEF ViewsInvariant
<1>9. RestIsKept
  BY <1>3, <1>4, <1>5 DEF RestIsKept, Orphans
<1> QED
  BY <1>8, <1>9

-----------------------------------------------------------------------------
(* The theorems                                                            *)

LEMMA InitHolds == Init => ViewsInvariant
<1> SUFFICES ASSUME Init PROVE ViewsInvariant
  OBVIOUS
<1>1. ui = [views  |-> Builder \cup {"request", "info"}, focus  |-> "status", alive  |-> TRUE,
            popup  |-> NoPopup, index  |-> 1, cursor |-> TRUE, bound  |-> [p \in Popups |-> 0],
            quits  |-> ReadOnlyPopups, helps  |-> 1, err    |-> FALSE]
  BY DEF Init
<1>2. ui \in UserInterface
  <2>1. /\ Builder \cup {"request", "info"} \subseteq Names /\ "status" \in Names
        /\ 1 \in DOMAIN Cicleable /\ [p \in Popups |-> 0] \in [Popups -> Nat]
    BY NamesFacts DEF Names, Builder
  <2> QED
    BY <1>1, <2>1 DEF UserInterface
<1>3. "status" \notin Popups /\ NoPopup \notin ReadOnlyPopups
  BY NamesFacts DEF Builder
<1>4. Consistent(ui) /\ ~ui.err
  BY <1>1, <1>2, <1>3 DEF Consistent
<1> QED
  BY <1>4 DEF Init, ViewsInvariant

LEMMA NextHolds ==
    ASSUME ViewsInvariant, Next
    PROVE  ViewsInvariant' /\ RestIsKept
<1>1. CASE NextView \/ PrevView
  BY <1>1, TabSteps
<1>2. CASE \E v \in Range(Cicleable) : Click(v)
  BY <1>2, ClickStep
<1>3. CASE \/ PressHelp
           \/ \E p \in Popups \ ReadOnlyPopups : PressOpen(p)
           \/ \E load \in Loads : PressLoader(load)
  BY <1>3, OpenSteps
<1>4. CASE PressQ
  BY <1>4, PressQStep
<1>5. CASE \E load \in Loads : DeleteResponse(load)
  BY <1>5, DeleteStep
<1>6. CASE ToggleResponseBuilder \/ NextBodyMode
  BY <1>6, BuilderSteps
<1>7. CASE EnterSave \/ EnterFile \/ EnterResponse
  BY <1>7, EnterSteps
<1>8. CASE Quit
  BY <1>8 DEF Quit, ViewsInvariant, RestIsKept, Orphans
<1>9. CASE Layout
  BY <1>9, LayoutStep
<1>10. CASE LayoutFails
  BY <1>10, LayoutFailsStep
<1> QED
  BY <1>1, <1>2, <1>3, <1>4, <1>5, <1>6, <1>7, <1>8, <1>9, <1>10 DEF Next

LEMMA StutterHolds ==
    ASSUME ViewsInvariant, UNCHANGED vars
    PROVE  ViewsInvariant'
BY DEF ViewsInvariant, vars

\* The invariant the others follow from, for any number of bindings and any
\* outcomes of loading and saving.
THEOREM ViewsInvariantHolds == Spec => []ViewsInvariant
<1>1. ViewsInvariant /\ [Next]_vars => ViewsInvariant'
  BY NextHolds, StutterHolds
<1> QED
  BY <1>1, InitHolds, PTL DEF Spec

\* The state keeps its types.
THEOREM ViewsTypeCorrect == Spec => []TypeOK
<1>1. ViewsInvariant => TypeOK
  BY DEF ViewsInvariant, Consistent, TypeOK
<1> QED
  BY <1>1, ViewsInvariantHolds, PTL

\* ui.currentPopup always names a view that is there.
THEOREM OpenPopupAlwaysExists == Spec => []OpenPopupExists
<1>1. ViewsInvariant => OpenPopupExists
  BY DEF ViewsInvariant, Consistent, OpenPopupExists
<1> QED
  BY <1>1, ViewsInvariantHolds, PTL

\* A popup's keys are bound at most once, and only while it is the open one.
THEOREM KeysAlwaysBoundOnce == Spec => []KeysBoundOnce
<1>1. ViewsInvariant => KeysBoundOnce
  BY DEF ViewsInvariant, Consistent, KeysBoundOnce
<1> QED
  BY <1>1, ViewsInvariantHolds, PTL

\* The terminal's cursor is off exactly while a read-only popup is open.
THEOREM CursorAlwaysFollows == Spec => []CursorFollowsPopup
<1>1. ViewsInvariant => CursorFollowsPopup
  BY DEF ViewsInvariant, Consistent, CursorFollowsPopup
<1> QED
  BY <1>1, ViewsInvariantHolds, PTL

\* While the builder's views are there no handler forgets a popup, loses the
\* focus or ends the program, but for a list that cannot be saved.
THEOREM RestAlwaysKept == Spec => BuilderKeepsTheRest
<1>1. ViewsInvariant /\ [Next]_vars => [RestIsKept]_vars
  BY NextHolds
<1> QED
  BY <1>1, ViewsInvariantHolds, PTL DEF Spec, BuilderKeepsTheRest, RestIsKept
=============================================================================
