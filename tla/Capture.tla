------------------------------- MODULE Capture -------------------------------
(***************************************************************************)
(* capture.go: what becomes of a request that is captured and shown.       *)
(* CaptureRequest renders it, the scanners tag what the policy calls       *)
(* sensitive, each counting from the start of its own part, and their      *)
(* spans are moved to where the code believes that part in the render;     *)
(* Render has those that reach the level of the policy masked.             *)
(*                                                                         *)
(* The fields of a request are in the query of its URI and in a form, JSON *)
(* or multipart body; the query of a request with a form is left out.  The *)
(* rules for headers and the regular expressions find further spans, each  *)
(* anywhere in the head or anywhere in the body.                           *)
(***************************************************************************)
EXTENDS BodyScan, FormScan, PartScan, SpanMasking

CONSTANTS
    MethodLen,     \* the lengths of the method, of the path, and of what is
    PathLen,       \* behind the URI in the head,
    RestLen,
    OpaqueLen,     \* and of a body no scanner looks at
    Queries,       \* bound: the queries beside a body that is not a form
    MaskLevels,    \* the values of Capture.MaskLevel; 0: there is no policy
    OtherLevels,   \* the levels of the rules for headers and expressions
    MaxOthers,     \* bound: the spans they find
    MaxOther       \* bound: in longer renders they begin and end in few places

ASSUME HeadAssumption == {MethodLen, PathLen, RestLen, OpaqueLen, MaxOthers} \subseteq Nat
ASSUME TagsAssumption ==
    {FieldLevel, PartLevel} \cup OtherLevels \subseteq Int /\ {0} \cup DOMAIN Policy \subseteq Rules

VARIABLES
    body,          \* the kind of the body
    maskLevel,     \* Capture.MaskLevel
    others         \* the spans of headers and expressions

scannerVars == <<scanVars, formVars, partVars>>
captureVars == <<scannerVars, maskVars, body, maskLevel, others>>

\* The bodies no scanner looks at: JSON that json.Indent refuses, multipart with
\* no boundary in the header, and any other content type.
Opaque == {"invalid", "unbounded", "other"}

CaptureInit ==
    /\ ScanInit
    /\ FormInit
    /\ PartInit
    /\ body \in {"none", "form", "json", "multipart"} \cup Opaque
    /\ body \notin {"none", "form"} => text \in Queries
    /\ body # "multipart" => bytes = <<>>
    /\ maskLevel \in MaskLevels
    /\ others = <<>>
    /\ given = <<>>
    /\ dataLen = 0
    /\ stage = "scan"
    /\ NothingMasked

-----------------------------------------------------------------------------
(* The render: what is at each of its positions                            *)

Cells(of, n) == [k \in 1..n |-> [of |-> of, at |-> k - 1]]

\* "%s %s HTTP/%d.%d\n" and the header lines.
HasQuery == body # "form" /\ text # <<>>
UpToQuery == Cells("method", MethodLen) \o Cells("blank", 1) \o Cells("path", PathLen)
QueryPart == IF HasQuery THEN Cells("mark", 1) \o Cells("query", Len(text)) ELSE <<>>
HeadText == UpToQuery \o QueryPart \o Cells("rest", RestLen)

\* A blank line comes before a body that is not empty.
BodyLen == Len(tokens) + Len(bytes) + (IF body = "form" THEN Len(text) ELSE 0)
                       + (IF body \in Opaque THEN OpaqueLen ELSE 0)
Blank == IF BodyLen > 0 THEN Cells("blank", 1) ELSE <<>>
PlainText == HeadText \o Blank \o Cells("body", BodyLen)

-----------------------------------------------------------------------------
(* The spans                                                               *)

\* Mutant: the query is taken to begin with the question mark.
QueryBaseAtMark == MethodLen + 1 + PathLen

\* Where the code believes the query and the body.
QueryBase == MethodLen + 1 + PathLen + 1
BodyBase == Len(HeadText \o Blank)
FieldBase == IF body = "form" THEN BodyBase ELSE QueryBase

Moved(s, base) == [s EXCEPT !.start = @ + base, !.end = @ + base]
Tagged == LET found == spans \o partSpans
          IN  [k \in DOMAIN fields |-> Moved(fields[k], FieldBase)]
                 \o [k \in DOMAIN found |-> Moved(found[k], BodyBase)]

\* scanRegex and MatchHeader look at the head and the body apart.
Regions == {<<0, Len(HeadText)>>, <<BodyBase, Len(PlainText)>>}
Bounds(r) ==
    IF Len(PlainText) <= MaxOther THEN r[1]..r[2]
    ELSE {r[1], r[2]} \cup {p \in r[1]..r[2] : \E k \in DOMAIN Tagged : p = Tagged[k].start + 1}
Stretches == UNION {{<<from, to>> : from \in Bounds(r), to \in Bounds(r)} : r \in Regions}
OtherSpans ==
    {[start |-> at[1], end |-> at[2], level |-> l, rule |-> 0] :
        at \in {ft \in Stretches : ft[1] <= ft[2]}, l \in OtherLevels}

\* The spans that reach a level, in their order.
Reaching(level, all) ==
    LET kept[n \in 0..Len(all)] ==
            IF n = 0 THEN <<>>
            ELSE IF all[n].level >= level THEN Append(kept[n - 1], all[n]) ELSE kept[n - 1]
    IN  kept[Len(all)]

\* Mutant: only what is above the level of the policy is masked.
SensitiveAbove(all) == IF maskLevel = 0 THEN <<>> ELSE Reaching(maskLevel + 1, all)

\* Capture.SensitiveSpans.
SensitiveSpans(all) == IF maskLevel = 0 THEN <<>> ELSE Reaching(maskLevel, all)

-----------------------------------------------------------------------------
\* scanFormPairs on the query, and classifyBody: the scanner of the body.
Scan ==
    /\ stage = "scan"
    /\ \/ NextPair /\ UNCHANGED <<scanVars, partVars>>
       \/ body = "json" /\ raw = <<>> /\ ScanNext /\ UNCHANGED <<formVars, partVars>>
       \/ body = "multipart" /\ raw = <<>> /\ PartScanNext /\ UNCHANGED <<scanVars, formVars>>
    /\ UNCHANGED <<maskVars, body, maskLevel, others>>

Scanned ==
    /\ raw = <<>>
    /\ body = "json" => tokens = <<>> \/ Complete
    /\ body = "multipart" => ~looking

\* The spans of the whole capture, and the masking of Render begins.
Collect ==
    /\ stage = "scan" /\ Scanned
    /\ \E n \in 0..MaxOthers : \E found \in [1..n -> OtherSpans] :
          /\ others' = found
          /\ given' = SensitiveSpans(found \o Tagged)
    /\ dataLen' = Len(PlainText)
    /\ stage' = "sort"
    /\ UNCHANGED <<scannerVars, body, maskLevel, sorted, next, merged, applied, prev, out>>

Render == MaskNext /\ UNCHANGED <<scannerVars, body, maskLevel, others>>

CaptureNext == Scan \/ Collect \/ Render

CaptureSpec == CaptureInit /\ [][CaptureNext]_captureVars

-----------------------------------------------------------------------------
(* Properties                                                              *)

\* What a policy with this level hides of the render at p: a span of another
\* rule, or a field, by the text alone and by what the render has there.
HiddenByOthers(p) ==
    \E k \in DOMAIN others : Covers(others[k], p) /\ others[k].level >= maskLevel
HidingRules(t) == {r \in MatchingRules(Location(t)) : Policy[r].level >= maskLevel}
HiddenByField(p) ==
    LET c == PlainText[p + 1]
    IN  \/ /\ c.of = "query" \/ (c.of = "body" /\ body = "form")
           /\ InValue(c.at) /\ FieldLevel >= maskLevel
        \/ /\ c.of = "body" /\ body = "json"
           /\ Scalar(c.at + 1) /\ HidingRules(c.at + 1) # {}
        \/ /\ c.of = "body" /\ body = "multipart"
           /\ InSecret(c.at) /\ PartLevel >= maskLevel

\* A scalar of a spelling of its own, or one on which rules disagree: whether it
\* is tagged with a level that hides it is left open.
Unsure(p) ==
    LET c == PlainText[p + 1]
        t == c.at + 1
    IN  /\ c.of = "body" /\ body = "json"
        /\ ~Plain(t) \/ HidingRules(t) # MatchingRules(Location(t))

\* "When mask is true every sensitive span is replaced", from the request to the
\* view: what the policy hides is masked and nothing else is, wherever the part
\* it is in lies in the render and whatever spans of other rules overlap it.
RenderHidesSensitive ==
    stage = "done" /\ Regular =>
        \A p \in 0..(Len(PlainText) - 1) :
            /\ Shown(p) /\ maskLevel # 0 =>
                  ~HiddenByOthers(p) /\ (HiddenByField(p) => Unsure(p))
            /\ ~Shown(p) => maskLevel # 0 /\ (HiddenByOthers(p) \/ HiddenByField(p))

(* The invariant it follows from.                                          *)

\* What has no part in the request is empty.
OnlyItsParts ==
    /\ body \in {"none", "form", "json", "multipart"} \cup Opaque
    /\ body # "json" => tokens = <<>>
    /\ body # "multipart" => bytes = <<>>

\* What is masked is what was tagged, where it is in the render.
CollectedOK ==
    /\ Scanned /\ dataLen = Len(PlainText)
    /\ others \in Seq(OtherSpans)
    /\ given = SensitiveSpans(others \o Tagged)

CaptureInvariant ==
    /\ FormInvariant /\ ScanInvariant /\ PartInvariant /\ OnlyItsParts
    /\ stage = "scan" => NothingMasked
    /\ stage # "scan" => MaskInvariant /\ CollectedOK
=============================================================================
