# HTTPLab in TLA+

HTTPLab is a terminal HTTP server: it shows the requests it gets, masks what is
sensitive in them, and answers with a response the user edits in the same
terminal. This directory holds TLA+ models of it, the TLC configurations that
check them on small instances, and TLAPS proofs of what holds for every
instance. Paths below are relative to the repository.

Contents: [the system](#the-system), [modules](#modules),
[runs](#runs), [findings](#findings), [proofs](#proofs), [fairness](#fairness),
[bounds](#bounds), [plan](#plan), [not modelled](#not-modelled).

## The system

### Parts, their state and their operations

| Part | Source | State | Operations |
|---|---|---|---|
| Request inspector | `ui/ui.go` | `requests`, `currentRequest`, `reqLock`, `revealID`/`revealUntil`/`revealTimer`, the request view | `AddRequest`, `prevRequest`, `nextRequest`, `resetRequests`, `revealCurrent`, the timer's closure, `updateRequest`, `Display` |
| Views and bindings | `ui/ui.go`, `ui/bindings.go` | gocui's views and focus, `viewIndex`, `currentPopup`, `hideResponseBuilder`, key bindings | `Layout`, `setView`, `openPopup`, `closePopup`, every key |
| Saved responses | `response.go`, `ui/ui.go` | `ResponsesList`, the file `.httplab`, `ui.resp`, the builder's fields | `Load`, `Save`, `Add`, `Del`, `Next`, `Prev`, `updateResponse`, `restoreResponse` |
| Response serving | `cmd/httplab/main.go`, `response.go` | `ui.resp`, its body and open file | `NewHandler`, `Write`, `Payload` |
| Audit log | `security/audit.go` | the log file, its temporary file, a mutex | `Log`, `Sweep` |
| Capture store | `security/capture.go` | a directory of envelopes | `Persist`, `Sweep` |
| Guard | `security/guard.go` | the parts of `security`, a maintenance goroutine | `NewGuard`, `RecordEvent`, `SweepNow`, `StartMaintenance`, `Close` |
| Keyring, envelopes | `security/envelope.go` | the key file | `LoadOrCreateKeyring`, `Seal`, `Open`, `EnvelopeExpired` |
| Policy, JSON paths | `security/policy.go`, `security/jsonpath.go` | none | matching of rules to fields |
| Spans, tokens | `security/mask.go`, `security/tokenize.go` | none | `MergeSpans`, `ApplyMask`, tokenizing |
| Capture, dump | `capture.go`, `dump.go` and others | none | parsing and classifying one request |
| Splits, editors | `ui/split.go`, `ui/editor.go` | a cursor in one view | layout arithmetic, cursor movement |
| Information line | `ui/ui.go` (`Info`) | `infoTimer` | show a message, clear it later |
| Program start | `cmd/httplab/main.go` | none | flags, wiring |

### How they interact

- net/http runs **one goroutine per request**. It calls `AddRequest`, which takes
  `reqLock` *before it reads the body*, captures and classifies the request,
  appends it to the history, persists it in the capture store, updates the view
  and gives the lock back. It then answers with `ui.resp`.
- The gocui **main loop** is one goroutine. It runs key handlers one at a time and the
  closures that others hand to `Gui.Execute`. `Execute` starts a goroutine per closure
  that sends on a channel, so **closures may run in another order** than they
  were handed in. Handlers take `reqLock` too; `updateRequest` writes the title of
  the view at once and its content through `Execute`.
- The **reveal timer** runs in a goroutine of its own and hands a closure to `Execute`
  that ends the grant. `Stop` has no effect once the timer has fired.
- The **maintenance goroutine** of Guard sweeps the audit log and the capture
  store. The audit log has a mutex; the store has none, so a sweep runs beside
  `Persist`. Both keep their state in files, so a crash between two steps
  matters.
- Popups, views and saved responses are touched by the main loop only. Their
  difficulty is in **long sequences** of keys: a popup opened over another, a
  list saved before it was loaded, a view that a hidden builder has deleted. An error
  that a handler returns ends the main loop, and so the program.

### What makes each part correct

- *Inspector*: the cursor is on a request whatever arrivals, keys and resets came
  before; a grant is for the request on show (or one arrivals scrolled away
  from), always has its end under way and does end; the title agrees
  with the grant; unmasked content is of an audited request.
- *Audit log* and *store*: nothing goes before its retention, everything after it, and no
  capture reported as persisted is lost or half written.
- *Views*: the popup taken for open exists, its keys are bound once, the focus is
  on a view, and no key but Ctrl+c ends the program.
- *Saved responses*: list, keys and file agree; a key changes one response only;
  what was saved is loaded with the same values.
- *Serving*: an answer is one response as it was in use, not parts of two; a body file is
  sent whole.
- *Guard*: a program that starts enforces retention on log and store, and goes on to; composing
  them breaks the promises of neither.
- *Keyring*: what was sealed with the key of the file can be opened with it later.
- *Policy, scanners, spans*: every sensitive position is tagged and masked, and no other.

`PROJECT.json` lists, under `hazards`, the lines where each can go wrong.

## Modules

| Module | Models | State and actions |
|---|---|---|
| `RequestInspector` | the request half of `ui.UI` | Each request's goroutine goes `new`, `reading`, `captured`, `stored`, `answered` (`LockForCapture`, `CaptureRequest` or `CaptureFails`, `Store`, `ShowArrival`); a key is first taken (`PressKey`) and then run once it has the lock (`PrevRequest`, `NextRequest`, `ResetRequests`, `RevealCurrent`), as the timer's closure is (`TakeRemask`, `RemaskExpired`). `pending` counts the closures given to `Execute`, in no order. |
| `RequestHistory` | abstract: a history, a cursor that follows the tail, one reveal window | `Arrive`, `Move`, `Clear`, `Open`, `Close`; `RequestInspector` implements it under `history <- Captured, cursor <- currentRequest, window <- revealID` |
| `Capture` | from a request to its masked render | extends the four modules below: `Scan` runs the scanners of query and body, `Collect` moves the spans to where the code believes their part in the render and selects by level, `Render` masks. `PlainText` is the render itself, position by position; the properties look there for the parts, not at the code's offsets. |
| `BodyScan` | `scanJSON`, `matchJSONPath` | `frames`, `path`, `spans` are the code's; each token read is an action. The tokens of a valid text are chosen one by one, so every text up to the bound is scanned. |
| `FormScan` | `scanFormPairs` | `raw` and `off` as in the code; `NextPair` is one turn of the loop |
| `PartScan` | `scanMultipart` | `NextPart` is one turn of the loop, `PartsEnd` its four ways out |
| `SpanMasking` | `MergeSpans`, `ApplyMask` | `Sort`, `MergeNext`, `MergeEnds`, `ApplyNext`, `ApplyEnds`: one turn of a loop each. `out` says which positions a piece of the result shows. |
| `AuditLog` | `FileAuditor` | `lines` are the lines of the log, each with the events that have bytes in it; `tail` is what a write without its newline left at the end. A write leaves one of four outcomes. A sweep is `Scan`, `WriteTmp`, `Rename`, each of which may fail, and `Crash`. |
| `CaptureStore` | `Store` | `dir` gives each capture's file: none, `*.enc.tmp` or `*.enc`, whole or not. `Create`, `Fill`, `Publish` (and their failures) are the steps of `Persist`; `List`, `Visit`, `VisitFails` those of `Sweep`; `StoreCrash` anywhere. |
| `Retention` | abstract: items held, each with an expiry | `Keep`, `Drop` what is past its expiry, `Tick`; both `AuditLog` and `CaptureStore` implement it |
| `Guard` | `security.Guard` | extends `AuditLog` and instantiates `CaptureStore`; `up` is the program and `stage` where `SweepNow` is. Every action is a step of one of the two, or of both (`Stop`), at the moment the code takes it. |
| `Keyring` | `LoadOrCreateKeyring`, the key of `Seal` and `Open` | the key file as `os.WriteFile` leaves it: absent, empty, a key, part of a key, or parts of two; a part of just 32 bytes is loaded as a raw key of its own (`Cut`); programs go `down`, `create`, `write`, `up` |
| `ResponseServing` | `NewHandler`, `Response.Write`, `Body.Payload`, and the keys that touch `ui.resp` | `heap` and `offsets` are the responses and open files, by pointer; a handler goes `new`, `delayed`, `headed`, `reading`, `rewinding`, `answered`. A read may fail at any chunk (`ReadFails`): `Payload` drops the error and goes on with what it has. |
| `Views` | views, focus, popups, bindings | `ui` is one record; each helper of the code is an operator from a record to a record that sets `err` where the code returns an error; each key is an action that ends in `Return` (the error ends the loop) or `ReturnNil`. `Layout` makes the views, `LayoutFails` is its error in a terminal too small for one. |
| `SavedResponses` | `ResponsesList`, `.httplab`, `ui.resp`, the form | `file` is what decodes from the file and how the last write left it (`whole`; `mixed`, the beginning of one list and the end of another, that decodes; or `cut`, that does not), `list`/`keys`/`current` are the fields of `ResponsesList`. `Encode` and `Decode` convert delays as `MarshalJSON` and `UnmarshalJSON` do. `OpenList` may fail and leave the list in memory as it is. |
| `..._proofs` | | the theorems about the module they are named for; those of `AuditLog` are in `Guard_proofs`, those of the scanners and of `SpanMasking` in `Capture_proofs` |
| `MC...` | | values for the constants |

Of the vendored gocui, `Take` in `RequestInspector` and `SetCurrentView`, `Return` and `PopupKey` in `Views` are
translated from `vendor/github.com/jroimartin/gocui/gui.go`: the loop that selects between events and
closures, the focus, and the bindings run for a key.

Definitions called mutants (each says so) are changed copies of an action or a
helper that no specification uses. Putting one in place of the definition it follows makes
the property `PROJECT.json` names with it fail: they show that each property
depends on the code.

Abstractions worth knowing:

- In `RequestInspector` a request is a model value, and `Sensitive` are those with a span to mask;
  `Capture` is about how those spans come about.
- Time is ticks. The inspector keeps the ticks left of the grant, since the code compares
  `revealUntil` with the clock and starts the timer with the same duration.
- In `RequestInspector`, persisting and the other work of the goroutine under the lock is one step
  (`ShowArrival`), since nothing else reads what it writes; `CaptureStore` has the steps.
- A request of `Capture` has a query and one body: a form, JSON, multipart, or one that no scanner takes (`Opaque`: JSON that
  `json.Indent` refuses, multipart without a boundary in its header, any other type). The query of a request
  with a form is left out, since `FormScan` has one text. All sensitive field names have one level (`FieldLevel`,
  `PartLevel`); rules for JSON paths have levels of their own. Header rules and regular expressions find any
  number of further spans (one in the run), each anywhere in the head or the body.
- Text is indented before `scanJSON` reads it, so its tokens are those of a valid text. A string is `plain` when its bytes are those `json.Marshal` writes.
- A position of a JSON body is a token, one of a form a character, one of a multipart body a line
  or a line end: what a span cannot begin or end in is one position.
- `Layout` in `Views` may come after any event: gocui handles all waiting events before it
  lays out again.
- `SavedResponses` assumes the views exist; `Views` covers that they may not. The two
  share the popups of the list, once as views and bindings, once as data. Bodies are
  in `ResponseServing`.
- The log is a set of lines: neither `Log` nor `Sweep` looks at their order, but for the last one's newline.
- `Guard` has both paths configured, so that neither `Audit` nor `Store` is nil.
- A capture expires a TTL after it was received, which may be long before `Create` (`\E received`); in `Guard`, not before the program was started.
- File names never collide in `CaptureStore` (`sanitizeName` and the time stamp in the name are left out).
- A key in the key file has two parts, enough to tell a part from a whole and from a mixture.
- A torn write of the saved responses falls between entries (`Mixed`) or makes a text that does not decode; one that decodes with an entry
  made of two is left out.

## Runs

| Run | Asks | Shows |
|---|---|---|
| `inspector` | 3 requests (2 sensitive), TTL 1, at most 2 of one closure waiting when a key is pressed | types, `CursorInRange`, `IDsNumberTheHistory`, `GrantIsCurrentOrOvertaken`, `GrantEndIsScheduled`, `TitleTellsTheGrant`, `OnlyRevealedIsUnmasked`, and that the inspector implements `RequestHistory` |
| `inspector_live` | 2 requests, `FairSpec` | a reveal window ends, unless the user asks for it again for ever |
| `inspector_reordered` | two closures in the other order | violated: see findings |
| `capture` | every JSON text of 5 tokens and the ones that close it, every form or query of 4 characters, every multipart body of 2 parts, a query before each body, opaque bodies, every place of one more span | `ScalarsAreTagged`, `FieldsAreTagged`, `PartsAreTagged`: the scanners tag what a definition on the text alone calls sensitive. `HidesExactlySpans`, `UnionsAreGraded`: merging and masking lose and add nothing. `RenderHidesSensitive`: all of it together, in the render as it is written, with the offsets of the parts and the level of the policy |
| `audit` | 3 events, one too long for the scanner, all outcomes of a write, 1 crash | `UnexpiredIsKept`: an event reported as written on a line of its own is readable until its retention is over. `AuditRetention`: the log implements `Retention`. `ExpiredGoes`: nothing of an expired event stays, unless one line is too long |
| `store` | 2 captures, 1 crash, sweeps beside `Persist` | `PersistedIsThere`, `StoreRetention`, `ExpiredCaptureGoes` |
| `guard` | 2 events and the sweep's own, 1 capture, starts and stops | `StartEnforcesRetention`: a running program has nothing that was past its expiry at its start. `ComponentsImplemented`: the composition is still `AuditLog` and `CaptureStore`. `CapturesGoUnlessJammed`: captures go in the end, unless a line too long for the scanner is in the log |
| `keyring` | 3 programs, 3 keys, writes that fail halfway | `SealedOpens`, `KeyStays` |
| `serving` | 2 requests, 2 statuses, a file of 2 chunks whose reads may fail, 3 keys | `AnswerWasInUse`, `FileIsSentWhole`, `EveryRequestAnswered`: every request whose `AddRequest` has returned is answered (one that waits for `reqLock` is the inspector's) |
| `views` | every key, click and layout, lists that fail to load or save, terminals too small | `OpenPopupExists`, `KeysBoundOnce`, `CursorFollowsPopup`, and `BuilderKeepsTheRest`: while the builder is shown no popup is forgotten, the focus is on a view, and no handler ends the program but Ctrl+c's and that of a list that cannot be saved. A `Layout` in a terminal too small ends it too. |
| `responses` | 2 names, 2 statuses, 2 delays, failing writes, torn ones that decode and that do not | `CursorOnAResponse`, `KeysMatchList`, `ShownIsSaved`, `OnlySelectedGoes` |
| `responses_lost` | the same | violated: see findings |

`OnlyRevealedIsUnmasked` is checked where the audit log can be written
(`AuditOutcomes = {TRUE}`): `RecordEvent` drops the log's error, so where it cannot be written reveals go
on without a record, as the code intends.

Some properties have a premise that says where the code does not keep them, and show nothing there:

- `FileIsSentWhole`: requests that read one file at the same time, and files replaced under a reader. Of a request whose own read
  failed it says only that what was sent is the beginning of the file.
- `SealedOpens`: directories in which two programs have opened the key file to write it.
- `PartsAreTagged` and `RenderHidesSensitive`: multipart bodies with lines that do not end with CRLF.
- `ScalarsAreTagged` leaves open which of several matching rules gives the level, and whether a string with other bytes
  than `json.Marshal` writes is tagged; `RenderHidesSensitive` leaves open whether a scalar of either kind is masked (`Unsure`).
- `BuilderKeepsTheRest`: a hidden builder. What then goes wrong is below.
- `OnlySelectedGoes`: a save that leaves a part of its text in the file.
- `UnexpiredIsKept`: events glued to a torn line. `ExpiredGoes` and `CapturesGoUnlessJammed`: a log with a line too long for the scanner.

## Findings

Two are runs whose counterexample is a behaviour of the code.

1. `inspector_reordered` (`ui/ui.go:435`). Revealing and then moving or expiring
   queues an unmasked and a masked rewrite. `Execute` gives no order, so the unmasked
   one can run last: the content stays on the screen with no grant. The title is right.
2. `responses_lost` (`ui/ui.go:754`). The list is loaded by Ctrl+l only. A save before
   that writes a list of one response over the file.

The models have these behaviours too, without a run of their own:

- `ui/ui.go:162`: `reqLock` is held while a body is read. A client that stops in the middle of its
  body keeps every key that takes the lock, and the closure that ends a reveal window, waiting. `WindowEnds`
  needs `BodyFairness` for this.
- `ui/ui.go:786`: saving and exporting act on the request under the cursor when Enter is pressed. An arrival may have moved the cursor since
  the popup was opened, so the request saved is the one the title names then, which need not be the one it named when the
  user asked. The handlers only read, so `RequestInspector` leaves them out; `ShowArrival` moves the cursor at any time.
- `security/capture.go:87`: `Sweep` looks at `*.enc` only, so a `*.enc.tmp` left by a failed write (line 68
  returns without removing it) or by a crash is never deleted.
- `ui/ui.go:912`, `:594`: with the builder hidden (Ctrl+t), Ctrl+b, or closing a popup, makes a handler return
  `ErrUnknownView`, which ends the program; Enter on a saved response writes to a nil view.
- `ui/ui.go:534`, `response.go:108`: delays are written in milliseconds and read as nanoseconds. A response put in
  use from the list answers after that many nanoseconds, the field shows the same number as
  milliseconds, and the next save of the list divides every loaded delay by a million.
- `security/audit.go:90`: an event appended behind a line that a crash left without its newline cannot be read back, and goes
  with the next sweep; `AuditLog` keeps those events in `glued`, and `UnexpiredIsKept` leaves them out.
- `security/guard.go:126`: one line longer than the scanner's buffer keeps every sweep from the store, and the program from starting
  (`Jammed` in `CapturesGoUnlessJammed`).
- `security/envelope.go:79`: the key file is written in place. Two first starts at once may each go on with a key of its
  own, one of which is not in the file, so what it sealed cannot be opened later; a crash in the write leaves
  a file that stops every later start, or, cut at 32 bytes, one that is taken for a raw key.
- `response.go:50-51`: the error of `ioutil.ReadAll` is dropped ("XXX: Handle this error"), so that the beginning of a body file is sent as if it
  were all of it (`ReadFails`).
- `response.go:292`: the file of the saved responses is written over without being emptied. A write that fails halfway leaves a file
  that cannot be decoded, or one with entries of both lists (`Mixed`).
- `ui/ui.go:318`: in a terminal too small for a view `Layout` returns gocui's error, which ends the program (`LayoutFails`).
- `response.go:51`: two handlers that read one body file at the same time share its offset, and each sends a part of it. A file put
  in use while the old one is read (`ui/ui.go:888`) is the one rewound: the old one stays at its end, and
  the new one may be rewound under a reader.
- `security/policy.go:295`: `MatchJSONPath` returns the first rule that matches, whatever its level, and `MatchHeader` and `MatchFormField` do the
  same. The comment at `security/policy.go:156-157` says that user rules "are appended and win ties by being evaluated
  later". They are appended, and so lose every tie with a builtin rule: a user's rule that raises the level of a builtin one has no effect.
  The scanner in `BodyScan` does what the code does (`RuleFor`, `FirstMatchTags`); its property `ScalarsAreTagged` takes neither side.
- `capture.go:327`: a string whose bytes are not those `json.Marshal` writes for it (other escapes) is not tagged, although
  `capture.go:286-287` says that scalars whose path matches are (`Classify`). `ScalarsAreTagged` does not ask it either way.
- `capture.go:445`: two bytes are taken off a multipart value for the CRLF behind it, although headers may end
  with bare line feeds (`capture.go:466`). In such a body the last byte of a value is not tagged, and in one with both
  kinds the headers of a part may be taken to end in a later part.
- `capture.go:440`: a multipart part behind which no delimiter comes is not tagged at all.
- `ui/bindings.go:42`: opening the responses list binds Ctrl+h globally once more, so that one press toggles the help
  twice and it does not open (`helps`, `PressHelp` in `Views`; `README.md:52`).
- `ui/ui.go:591`: closing the help drops all bindings of its name, also that of `q`, which is made once: from then
  on `q` does not close it (`quits`, `PressQ` in `Views`; `README.md:54`).

## Proofs

`tlapm` checks the eight modules named `..._proofs` to the last leaf,
from the assumptions named `...Assumption` in the modules only. The bounds are constants there, so the theorems
hold for every value of them. Every invariant and every safety property of the passing runs is a theorem.

Three assumptions of the scanners say what the code's types say: a rule's pattern is a sequence of path segments
(`PolicyAssumption`), header lines are of the three kinds told apart and no value holds the
delimiter (`PartsAssumption`: a client chooses it so, RFC 2046, and the code relies on that), and levels are integers that are among those
`SpanMasking` is given (`TagsAssumption`). The others name bounds.

The inductive invariants are in the modules, beside the properties, or at the head of the proof module.

**The inspector** (any set of requests, any sensitive ones, any TTL above 0, any behaviour of the log).
`InspectorIsInvariant` proves `InspectorInvariant` inductive. The properties of interest are not
inductive as they stand, and these parts make them so:

- `LockHeldByCapture` and `NumberIsNext`: a goroutine gives its capture a number and appends it two steps
  later. That the number is still right depends on the lock being held throughout, so that no
  reset comes between. `IDsNumberTheHistory` follows.
- `IDsNumberTheHistory` with `GrantIsCurrentOrOvertaken`: an ID is a position, so
  a grant is for the request under the cursor or before it, and then the cursor is on the tail; an
  arrival keeps this, and navigation and resets drop the grant. Hence the timer's
  closure finds a request under the cursor (`CursorInRange`) whenever there is a grant.
- `TitleOfTheCursor`, `StoredIsThere`: between `Store` and `ShowArrival` the title may be one behind,
  and only then.
- `LoopNeedsStart`, `BlankBeforeStart`: requests may come before the first layout.

From it: `TypeCorrect`, `CursorStaysInRange`, `IDsAreUnique`, `GrantIsOnShow`, `GrantIsBounded`, `TitleIsTrue`, and
`InspectorRefinesHistory`: every step maps to a step of `RequestHistory` or to a stutter.

`UnmaskedIsAudited` adds `UnmaskedInvariant`: that unmasked content is of an audited request holds of the
screen and of everything queued, and a grant's request is audited (`GrantIsAudited`). A rewrite is made unmasked only under a
grant for the very request it shows, which takes `IDsNumberTheHistory`, and the queue may be run in any
order since the claim is about each of its members. It assumes that the log can be written.

**The log** (any events, retention, outcomes of a write, crashes). `AuditIsInvariant` proves `AuditInvariant` inductive: an event that is due has a line of its own in the log
(`HasOwnLine`) and, while a sweep runs, in what is to replace the log (`SweepKeeps`). The second is what makes the first survive the rename; it holds because the mutex keeps `Log` out of a
sweep. `UnexpiredEventsAreKept` follows, and with `SweepAddsNothing` (the rewrite has no line the log has not)
`AuditRefinesRetention`: the events held are those with a line of their own.

**The store** (any captures, TTL, clock and number of crashes). `StoreIsInvariant` proves `StoreInvariant` inductive: a file named
`*.enc` is whole (`EncIsWhole`), because the rename is the last step of `Persist`; a file a sweep has listed is still there when it
is visited (`ListedIsThere`), since nobody else deletes a `*.enc`; the one being written is a `*.tmp`
(`PersistingIsTmp`). Hence a sweep, whose clock is older than the current one, never takes
a capture being written for a malformed one. `SweepIsNeverEarly`, `PersistIsDurable` and `StoreRefinesRetention` follow.

**The guard.** `GuardImplementsComponents` maps each step of the composition to a step or a stutter of `AuditLog` and of
`CaptureStore`, so that the theorems above hold of the program (`GuardKeepsEvents`). `StartEnforces` proves
`StartInvariant` inductive: behind the point the first sweep has come to, log and store are fresh (`SweptLog`,
`SweptStore`), and the goroutine that persists does not begin before `NewGuard` has returned.

**Serving.** `ServingInvariantHolds` proves `ServingInvariant` inductive. `PointsToSeen`: what a pending handler points to has been
in use as it now is, since only the response in use is changed in place. `RestsAtStart`, `SoleReader`,
`RewindsItsOwn`: a file nobody reads is at its start, a sole reader has read up to the offset, and the file it rewinds at the end is the one it
reads, unless it was replaced. The rewind comes after a failed read as well, so the next request starts at the first chunk again. `AnswersWereInUse` and `FilesAreSentWhole` follow.

**Masking** (any spans, any length, any levels). `MaskInvariantHolds` proves `MaskInvariant` inductive: what is sorted is every span that is not
empty (`SortedOK`), the unions so far lie apart and cover what was merged and nothing else (`UnionsOK`, `CoverOK`),
what is written shows the rest (`OutOK`), with the marker of a union's level in its place (`MarkersOK`). `MaskHidesExactlySpans` and `MaskUnionsAreGraded` follow.

**The key file** (any programs and keys). `KeyInvariantHolds` proves `KeyInvariant` inductive; `OneKey` is its core: up to the second creation
whoever uses a key of the file uses the one in it. Up to then a torn write is the first write, so nothing was sealed with a key of the file before it, and who loads
a raw key from what it left loads the same as everybody. `SealedCanBeOpened` follows, and `KeyIsKept` as an action property.

**Saved responses** (any finite set of names, any statuses, delays and number of keys). `SavedInvariantHolds` proves `SavedInvariant` inductive.
`KeysMatchList` alone is not enough for `Del`, which takes one key where `Add` may have listed a name twice; `ListIsLoaded` says that
the popup takes keys only over a list as `Load` left it, because Ctrl+s closes it first and `d` loads it anew. Then the first key not less
than the name is the selected one (`WithoutHolds`). A torn write that decodes has entries of the two lists only (`MixtureHolds`), and `CursorStaysOnAResponse`, `KeysStayWithList`, `ListShowsFile` and
`OnlySelectedIsDeleted` follow.

**Views** (any number of bindings of Ctrl+h, any outcomes of loading and saving). `ViewsInvariantHolds` proves `ViewsInvariant` inductive. Its core,
`Consistent`, is about one record, and each helper of the code is an operator on records, so the proof has one lemma per helper and
each handler composes them. `OpenPopupExists` needs the focus as well: a popup whose view has the focus is the open one, since keys
go to the view that has the focus and close that one, whichever the code remembers. From it `ViewsTypeCorrect`, `OpenPopupAlwaysExists`, `KeysAlwaysBoundOnce`,
`CursorAlwaysFollows`, and the action property `RestAlwaysKept`, which says that no handler loses a popup or the
focus while the builder is shown. A layout that fails leaves some of the builder's views and
stops everything (`LayoutFailsStep`). How often one press of Ctrl+h toggles the help (`Helped`) is an induction over the number of bindings.

**Scanning a form or query** (any characters, any length). `FormInvariantHolds`: what is left is the rest of the text from `off` on, behind a `&`
(`RawIsTheRest`), and what is before it is tagged exactly as it should be (`BehindIsTagged`). The first is what a drifting offset would break;
`FieldsAlwaysTagged` follows, since in the end all of the text is before it.

**Scanning JSON** (any policy, any strings, any nesting and length). `MatchIsMatches`: what `matchJSONPath` computes by recursion is that some way of
finding the segments of the pattern in the path exists, with any gap before a deep one. `ScanInvariantHolds`: the code
keeps a stack of frames and a path, the property speaks of the text alone. `FramesAreOpen` relates the two: the i-th frame is that of the
one container open at depth i - 1 and its counter, or the parity of its keys and values, is that of the members the container
has so far (`FrameIsOf`), and the path leads to the innermost one. Hence the path of the code is the location in the text (`PathIsLocation`), and
what is tagged is what the first matching rule says of plain scalars (`FirstMatchTags`, with `RuleForIsFirst`). `ScalarsAlwaysTagged` follows (`TagsFollowPolicy`); it
says less, and leaves ties and other spellings open. An object around another container keeps `haveKey` from before, so
the invariant says of an outer frame only what the code may rely on.

**Scanning multipart bodies** (any headers, values and number of parts, cut off or closed). `PartInvariantHolds`: where the loop is, the body ends or a
delimiter is next, and what is before it is tagged as it should be (`DelimiterIsNext`). The work is in what
the code finds from there: `BodyHolds` (every delimiter of a body begins a part or closes it), `PartIsLaid` (where header, blank line and value of a part lie),
`PartIsFound` (the first blank line is the one behind the headers, the next delimiter the one behind the value, although the value
may hold blank lines and `--`). `PartsAlwaysTagged` follows, for bodies whose lines end with CRLF as the property says.

**Together** (`CaptureInvariant`). The scanners take turns of their own and masking begins when they are done, so the invariant
is theirs, and behind `Collect` the masking's, and that what is masked is what was tagged, moved to where the code believes its part
(`CollectedOK`). The render is laid out position by position (`PlainText`), and `PlainTextHolds` says what is at each: so that the offsets
of the code are those of the parts is proved, not assumed. `TagsReach` says which positions the tags then reach, and
`CollectedHides` that the spans `SensitiveSpans` keeps cover what the policy hides at its level and nothing else, ties and other spellings apart. With
`MaskHidesExactlySpans`'s argument `RenderAlwaysHides` follows: from the query and the body of a request to its render, what the policy
masks is not shown and nothing else is masked. `CaptureTags` and `CaptureMasks` say that the parts keep their own properties in it.

**Induction.** The library's induction theorems cannot be instantiated here, so the proofs use that every nonempty set of numbers has a least
member (`LeastNumber`, from the well-foundedness of the numbers) and its consequence for sets closed under successor
(`NumbersInSteps`). What a recursive function or a fold of the community modules computes is had from `LoopRuns`: a function that takes
the turns of a loop exists for any number of turns, so the `CHOOSE` behind the definition has it.

**Model-checked only.** The liveness properties (`WindowEnds`, `ExpiredGoes`, `ExpiredCaptureGoes`, `CapturesGoUnlessJammed`,
`EveryRequestAnswered`), since fairness is out of this prover's reach.

## Fairness

- `LoopFairness`: the main loop starts, clocks advance, timers fire (weak). A handler
  that waits for `reqLock` gets it although the lock is free only now and then (strong): `sync.Mutex` turns to
  handing over when a waiter starves. A closure is taken although the loop is busy now and then (strong): the
  loop selects between two channels at random, and senders on a channel are served in order.
- `HandlerFairness`: a request's goroutine runs once its body is read (weak).
- `BodyFairness`: clients finish or abort the bodies they began. The code does not see to this (the server has no
  read timeout); without it `WindowEnds` does not hold, as the findings say.
- No key is ever pressed under fairness: users owe nothing.
- `SweepFairness`, `StoreFairness`: `StartMaintenance` sweeps at an interval, so sweeps start again and again,
  and a disk does not fail on the same step for ever (strong). Writes by `Log` and `Persist` need not happen.
- `GuardFairness`: the same for the composition; nobody has to start the program, and it may stop.
- `FairServingSpec`: the goroutine of a request goes on (weak on `GoesOn`), since it waits for nobody. No read has to fail.

## Bounds

- *Requests* 2 or 3: the third lets the cursor be off the tail while two captures are ahead of it, and a reset come between captures.
- *RevealTTL* 1: what matters is the order of renewing, firing, stopping and expiry, and one tick gives all of them.
- *MaxQueued* 2: two closures alike and one of every other kind are enough for any reordering of two; it limits keys only, not
  arrivals or timers.
- *MaxTime* 3 with a retention of 1: an event may be written, kept, expired and swept, and another written
  meanwhile. *MaxCrashes* 1: a second crash meets the states the first one left.
- *MaxHelps* 4: one binding at the start and three openings of the list; the parity of the number is all that matters to the help.
- *MaxKeys* 4 with 2 names: every name twice, which is what `Add` can do before a `Load`.
- *Guard*: retention and TTL 1 with a clock up to 2, one oversized event, one of the sweep's own, one capture, one stop: a
  start after the stop meets expired lines and files, and the sweep that jams.
- *SavedResponses*: with 2 names a torn write gives every mixture of one entry of each list.
- *Keyring*: three programs and three keys let two create the file at once and a third load what they leave.
- *Serving*: two readers of one file of two chunks interleave in the middle of it; three keys put a response in use, change it
  and bring back another.
- *MaxTokens* 5: an object in an array in an object with a value behind it, so that each pop of the path is followed by a
  match; the tokens that close a text come on top. *MaxChars* 4: two pairs, with every empty name, value and pair. *MaxParts* 2: a part behind
  another, each with line ends of its own. *MaxOther* 9: in renders longer than this the further span begins and
  ends only where head and body begin and end and one position into a field (`Bounds`); in the shorter ones, everywhere in its region. *Queries*: none, or one
  sensitive field, beside each body. *OpaqueLen* 2: a body whose offset matters to the further span only.
- *Millisecond* 10 instead of 1,000,000: more than any delay of the instance, as the real one is.

`CHECK_DEADLOCK FALSE` stands where a model really stops: `audit` and `store` when the clock is at its bound and all has
been written once, `guard` also when the program is not started again; `serving` when all is answered and no key is left; `capture` when the
render is done; `views` and `responses` when the program has ended. The inspector and the key file are checked for deadlock.

## Plan

Done, in this order: `RequestInspector` over `RequestHistory`, `CaptureStore`, `AuditLog`, `Views`, `SavedResponses`; then `Retention`,
`Guard`, `ResponseServing`, `Keyring`, `SpanMasking`, the scanners and `Capture`; proofs of every safety property. What is left, most important first:

1. A second program on the same audit log (`security/audit.go:161`).
2. Saving and exporting requests in `RequestInspector` (`ui/ui.go:786`), with the audit of each and the request the popup was opened for.
3. The delay and the body of a response in one model with its file: `SavedResponses` has the delays, `ResponseServing` the bodies.

## Not modelled

- Cryptography (`Seal`, `Open`, HMAC of tokens): out of reach; an envelope opens exactly with the key it was sealed with.
- Loading a policy and parsing its patterns, the texts of headers, regular expressions, colours, the legacy dump: data, with no state of their own. What a regular expression or header rule finds is any span.
- `Info` and `infoTimer`: written by several goroutines without a lock, a data race on a message that clears itself.
- Two programs on one audit log or capture directory: each model has one.
- Editors, splits, flags and paths, `ExpandPath`: pure and local.
- The vendored libraries, but for the parts of gocui named under [modules](#modules).
