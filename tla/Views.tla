-------------------------------- MODULE Views --------------------------------
(***************************************************************************)
(* ui/ui.go and ui/bindings.go: the views of the terminal, the popups, the *)
(* focus and the key bindings.  Every handler runs on the gocui main loop, *)
(* which lays the views out after each batch of events; an error a handler *)
(* returns ends the loop and with it the program.                          *)
(*                                                                         *)
(* A handler is an operator from the state of the user interface to the    *)
(* next one, with err set where the code returns an error at once.  What   *)
(* the popups do to requests and responses is left out here.               *)
(***************************************************************************)
EXTENDS Naturals, Sequences, Functions

CONSTANTS
    Loads,         \* what ResponsesList.Load may find: subset of LoadOutcomes
    Saves,         \* whether ResponsesList.Save may succeed: subset of BOOLEAN
    MaxHelps       \* bound: the responses list is opened no more at this many
                   \* bindings of Ctrl+h

LoadOutcomes == {"failed", "empty", "some"}

ASSUME LoadsAssumption == Loads \subseteq LoadOutcomes
ASSUME SavesAssumption == Saves \subseteq BOOLEAN
ASSUME MaxHelpsAssumption == MaxHelps \in Nat \ {0}

VARIABLES
    ui,            \* the user interface, see UserInterface
    hidden,        \* ui.hideResponseBuilder
    exited         \* how MainLoop ended, "no" while it runs

vars == <<ui, hidden, exited>>

Builder == {"status", "delay", "headers", "body"}
Cicleable == <<"status", "delay", "headers", "body", "request">>
ReadOnlyPopups == {"bindings", "responses"}
Popups == ReadOnlyPopups \cup {"save", "file-dialog"}
Names == Builder \cup {"request", "info"} \cup Popups
NoPopup == ""

UserInterface ==
    [views  : SUBSET Names,             \* the views gocui knows
     focus  : Names,                    \* name of the current view
     alive  : BOOLEAN,                  \* the current view is one of them
     popup  : Popups \cup {NoPopup},    \* ui.currentPopup
     index  : DOMAIN Cicleable,         \* ui.viewIndex, 1-based
     cursor : BOOLEAN,                  \* g.Cursor
     bound  : [Popups -> Nat],          \* bindings of each popup's own keys
     quits  : SUBSET ReadOnlyPopups,    \* popups with the 'q' of Bindings
     helps  : Nat,                      \* global bindings of Ctrl+h
     err    : BOOLEAN]                  \* the handler has returned an error

\* Mutant: ui.viewIndex, 0-based, is used as it is.
InitZeroBased ==
    /\ ui = [views  |-> Builder \cup {"request", "info"},
             focus  |-> "status",
             alive  |-> TRUE,
             popup  |-> NoPopup,
             index  |-> 0,
             cursor |-> TRUE,
             bound  |-> [p \in Popups |-> 0],
             quits  |-> ReadOnlyPopups,
             helps  |-> 1,
             err    |-> FALSE]
    /\ hidden = FALSE
    /\ exited = "no"

\* After Init and the first Layout.
Init ==
    /\ ui = [views  |-> Builder \cup {"request", "info"},
             focus  |-> "status",
             alive  |-> TRUE,
             popup  |-> NoPopup,
             index  |-> 1,
             cursor |-> TRUE,
             bound  |-> [p \in Popups |-> 0],
             quits  |-> ReadOnlyPopups,
             helps  |-> 1,
             err    |-> FALSE]
    /\ hidden = FALSE
    /\ exited = "no"

-----------------------------------------------------------------------------
(* Helpers of the handlers                                                 *)

Fail(s) == [s EXCEPT !.err = TRUE]

\* gocui.Gui.SetCurrentView.
SetCurrentView(s, v) ==
    IF v \in s.views THEN [s EXCEPT !.focus = v, !.alive = TRUE] ELSE Fail(s)

\* Mutant: the bindings of the popup stay.
DeletePopupKeepsBindings(s, p) ==
    [s EXCEPT !.views = @ \ {p},
              !.alive = @ /\ s.focus # p,
              !.popup = NoPopup,
              !.cursor = TRUE]

\* Mutant: the popup is still taken for open.
DeletePopupStaysOpen(s, p) ==
    [s EXCEPT !.views = @ \ {p},
              !.alive = @ /\ s.focus # p,
              !.cursor = TRUE,
              !.bound[p] = 0,
              !.quits = @ \ {p}]

\* Mutant: the terminal's cursor stays off.
DeletePopupNoCursor(s, p) ==
    [s EXCEPT !.views = @ \ {p},
              !.alive = @ /\ s.focus # p,
              !.popup = NoPopup,
              !.bound[p] = 0,
              !.quits = @ \ {p}]

\* The view goes, with every binding made for its name, and no popup is open.
DeletePopup(s, p) ==
    [s EXCEPT !.views = @ \ {p},
              !.alive = @ /\ s.focus # p,
              !.popup = NoPopup,
              !.cursor = TRUE,
              !.bound[p] = 0,
              !.quits = @ \ {p}]

\* ui.closePopup: the focus goes back to the view Tab has come to.
ClosePopup(s, p) ==
    IF p \notin s.views THEN s
    ELSE SetCurrentView(DeletePopup(s, p), Cicleable[s.index])

\* Mutant: the popup is not closed.
SetViewLeavesPopup(s, v) == SetCurrentView(s, v)

\* ui.setView.
SetView(s, v) ==
    LET closed == ClosePopup(s, s.popup)
    IN  IF closed.err THEN closed ELSE SetCurrentView(closed, v)

\* ui.openPopup: the view is there before the focus has been moved to it.
OpenPopup(s, p) ==
    LET shown == SetView([s EXCEPT !.views = @ \cup {p}], p)
    IN  IF shown.err THEN shown
        ELSE [shown EXCEPT !.popup = p, !.cursor = FALSE]

\* ui.openSavePopup, ui.openBodyFilePopup.
OpenEditable(s, p) ==
    LET closed == ClosePopup(s, s.popup)
        opened == OpenPopup(closed, p)
    IN  IF closed.err THEN closed
        ELSE IF opened.err THEN opened
        ELSE [opened EXCEPT !.bound[p] = @ + 1, !.cursor = TRUE]

\* ui.toggleHelp.
ToggleHelp(s) ==
    IF s.popup = "bindings" THEN ClosePopup(s, "bindings")
    ELSE OpenPopup(s, "bindings")

\* ui.toggleResponsesLoader: Apply binds the popup's keys, and Ctrl+h again.
ToggleLoader(s, load) ==
    IF s.popup = "responses" THEN ClosePopup(s, "responses")
    ELSE IF load # "some" THEN Fail(s)
    ELSE LET opened == OpenPopup(s, "responses")
         IN  IF opened.err THEN opened
             ELSE [opened EXCEPT !.bound["responses"] = @ + 1, !.helps = @ + 1]

\* ui.renderBody.
RenderBody(s) == IF "body" \in s.views THEN s ELSE Fail(s)

-----------------------------------------------------------------------------
(* How a handler ends                                                      *)

\* MainLoop ends when the handler of a key returns an error.
Return(s) ==
    /\ ui' = [s EXCEPT !.err = FALSE]
    /\ exited' = IF s.err THEN "error" ELSE "no"

\* The handler drops the error, or shows it as information.
ReturnNil(s) ==
    /\ ui' = [s EXCEPT !.err = FALSE]
    /\ UNCHANGED exited

Running == exited = "no"

-----------------------------------------------------------------------------
(* Keys and mouse                                                          *)

\* Tab.
NextView ==
    /\ Running
    /\ ~hidden
    /\ LET next == IF ui.index = Len(Cicleable) THEN 1 ELSE ui.index + 1
       IN  Return(SetView([ui EXCEPT !.index = next], Cicleable[next]))
    /\ UNCHANGED hidden

\* Shift+Tab, taken by the editor of a view; the error is dropped.
PrevView ==
    /\ Running
    /\ ~hidden
    /\ ui.focus \in Range(Cicleable)
    /\ LET prev == IF ui.index = 1 THEN Len(Cicleable) ELSE ui.index - 1
       IN  ReturnNil(SetView([ui EXCEPT !.index = prev], Cicleable[prev]))
    /\ UNCHANGED hidden

\* A click finds the oldest view there; the error is dropped.
Click(v) ==
    /\ Running
    /\ v \in ui.views
    /\ ReturnNil(SetView(ui, v))
    /\ UNCHANGED hidden

\* What the first n bindings of Ctrl+h make of s, in the order they were made.
Helped(s, n) ==
    LET after[k \in 0..n] == IF k = 0 THEN s
                             ELSE IF after[k - 1].err THEN after[k - 1]
                             ELSE ToggleHelp(after[k - 1])
    IN  after[n]

\* Ctrl+h: every binding of the key is run.
PressHelp ==
    /\ Running
    /\ Return(Helped(ui, ui.helps))
    /\ UNCHANGED hidden

\* Ctrl+s, and Ctrl+f and Ctrl+x once there is a request; Ctrl+o.
PressOpen(p) ==
    /\ Running
    /\ Return(OpenEditable(ui, p))
    /\ UNCHANGED hidden

\* The list is not opened any more once the bound is reached.
Room(s, load) == load = "some" /\ s.popup # "responses" => s.helps < MaxHelps

\* Ctrl+l: its error is shown as information.
PressLoader(load) ==
    /\ Running
    /\ Room(ui, load)
    /\ ReturnNil(ToggleLoader(ui, load))
    /\ UNCHANGED hidden

\* Ctrl+t: the popup, if any, stays open but loses the focus.
ToggleResponseBuilder ==
    /\ Running
    /\ hidden' = ~hidden
    /\ Return(IF hidden' THEN SetCurrentView(ui, "request") ELSE ui)

\* Ctrl+b.
NextBodyMode ==
    /\ Running
    /\ Return(RenderBody(ui))
    /\ UNCHANGED hidden

\* 'q': the binding of Bindings, then the one of the responses list.
PressQ ==
    /\ Running
    /\ LET named == IF ui.focus \in ui.quits THEN ClosePopup(ui, ui.focus) ELSE ui
           local == ui.focus = "responses" /\ ui.bound["responses"] > 0
       IN  Return(IF local /\ ~named.err THEN ClosePopup(named, "responses")
                  ELSE named)
    /\ UNCHANGED hidden

\* A key bound for the focused popup.
PopupKey(p) == Running /\ ui.focus = p /\ ui.bound[p] > 0 /\ UNCHANGED hidden

\* Enter: saving fails or not, the popup is closed.
EnterSave ==
    /\ PopupKey("save")
    /\ Return(ClosePopup(ui, "save"))

\* Enter: no path or no such file, or the body is rendered first.
EnterFile ==
    /\ PopupKey("file-dialog")
    /\ \E opened \in BOOLEAN :
          LET rendered == IF opened THEN RenderBody(ui) ELSE ui
          IN  Return(IF rendered.err THEN rendered
                     ELSE ClosePopup(rendered, "file-dialog"))

\* Enter: restoreResponse writes to the views without looking for them, and
\* leaves the popup open.
EnterResponse ==
    /\ PopupKey("responses")
    /\ IF Builder \subseteq ui.views
       THEN UNCHANGED <<ui, exited>>
       ELSE exited' = "panic" /\ UNCHANGED ui

\* 'd': the file is saved and the list opened anew.
DeleteResponse(load) ==
    /\ PopupKey("responses")
    /\ load = "some" => ui.helps < MaxHelps
    /\ \E saved \in Saves :
          LET closed == IF saved THEN ClosePopup(ui, "responses") ELSE Fail(ui)
          IN  IF closed.err THEN Return(closed)
              ELSE ReturnNil(ToggleLoader(closed, load))

\* Ctrl+c.
Quit ==
    /\ Running
    /\ exited' = "quit"
    /\ UNCHANGED <<ui, hidden>>

\* ui.Layout, after a batch of one or more events: the builder's views go or
\* are made anew.
Layout ==
    /\ Running
    /\ ui' = [ui EXCEPT !.views = IF hidden THEN @ \ Builder ELSE @ \cup Builder,
                        !.alive = @ /\ ~(hidden /\ ui.focus \in Builder)]
    /\ UNCHANGED <<hidden, exited>>

\* ui.Layout in a terminal too small for a view, with the views before it made:
\* its error ends the loop, as it does in gocui's.
LayoutFails ==
    /\ Running
    /\ \E made \in {{}, {"status"}, {"status", "delay"}, {"status", "delay", "headers"}} :
          ui' = [ui EXCEPT !.views = IF hidden THEN @ ELSE @ \cup made]
    /\ exited' = "layout"
    /\ UNCHANGED hidden

Next ==
    \/ NextView \/ PrevView \/ PressHelp \/ PressQ
    \/ \E v \in Range(Cicleable) : Click(v)
    \/ \E p \in Popups \ ReadOnlyPopups : PressOpen(p)
    \/ \E load \in Loads : PressLoader(load) \/ DeleteResponse(load)
    \/ ToggleResponseBuilder \/ NextBodyMode
    \/ EnterSave \/ EnterFile \/ EnterResponse
    \/ Quit
    \/ Layout \/ LayoutFails

Spec == Init /\ [][Next]_vars

-----------------------------------------------------------------------------
(* Properties                                                              *)

\* The types of the state.
TypeOK ==
    /\ ui \in UserInterface
    /\ hidden \in BOOLEAN
    /\ exited \in {"no", "quit", "error", "panic", "layout"}

\* The builder's views are there.
BuilderShown == Builder \subseteq ui.views

\* Popup views that ui.currentPopup does not know of: no key closes them.
Orphans == (ui.views \cap Popups) \ {ui.popup}

\* closePopup finds the popup it is asked for: ui.currentPopup always names a
\* view that is there, over any sequence of popups opened over one another,
\* failed, clicked away and closed by their own keys.
OpenPopupExists == ui.popup # NoPopup => ui.popup \in ui.views

\* The bindings of a popup are made when it opens and go when it closes: one
\* press of Enter or 'd' saves, loads or deletes once, not once for every
\* time the popup was open before.
KeysBoundOnce ==
    \A p \in Popups : ui.bound[p] <= 1 /\ (ui.bound[p] = 1 => ui.popup = p)

\* The terminal's cursor is off exactly while a popup that takes no text is
\* open, also after a popup was opened over another or a handler failed.
CursorFollowsPopup == ui.cursor <=> ui.popup \notin ReadOnlyPopups

\* While the builder's views are there no popup is forgotten and no handler
\* loses the focus or ends the program, but for a list that cannot be saved:
\* each of them is behind a hidden builder.
BuilderKeepsTheRest ==
    [][BuilderShown /\ ~hidden =>
        /\ Orphans' \subseteq Orphans
        /\ ui.alive => ui'.alive
        /\ exited' # "panic"
        /\ exited' = "error" => ui.focus = "responses"]_vars
=============================================================================
