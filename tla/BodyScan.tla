------------------------------ MODULE BodyScan ------------------------------
(***************************************************************************)
(* capture.go, scanJSON: one pass over the tokens of a JSON body that      *)
(* keeps the path of the value it is at, and tags each scalar whose path a *)
(* jsonpath rule of the policy matches (security/policy.go, jsonpath.go).  *)
(*                                                                         *)
(* The tokens are those of a valid text, one position each: white space,   *)
(* commas and colons, which no span covers, are left out.                  *)
(***************************************************************************)
EXTENDS Integers, Sequences, SequencesExt

CONSTANTS
    Keys,          \* the strings a body may contain
    Policy,        \* Policy.Rules, those of kind jsonpath: their segments
                   \* and levels, in the order of the policy
    MaxTokens      \* bound: the tokens of a body

Segment == [kind : {"key", "index", "any"}, key : STRING, index : Int, deep : BOOLEAN]

ASSUME KeysAssumption == "*" \notin Keys
ASSUME PolicyAssumption == Policy \in Seq([segs : Seq(Segment), level : Int])
ASSUME TokensAssumption == MaxTokens \in Nat

VARIABLES
    tokens,        \* the tokens read so far
    frames,        \* the open containers, as scanJSON knows them
    path,          \* the path it is at
    spans          \* the spans it has tagged

scanVars == <<tokens, frames, path, spans>>

\* A string is a key or a value: only its place tells.  Its bytes may be other
\* than those json.Marshal would write for it (plain is FALSE then).
Open(array) == [kind |-> "open", array |-> array]
Close == [kind |-> "close"]
String(s, plain) == [kind |-> "string", s |-> s, plain |-> plain]
Literal == [kind |-> "literal"]

KeySeg(k) == [kind |-> "key", key |-> k, index |-> 0]
IndexSeg(i) == [kind |-> "index", key |-> "*", index |-> i]

ScanInit ==
    /\ tokens = <<>>
    /\ frames = <<>>
    /\ path = <<>>
    /\ spans = <<>>

-----------------------------------------------------------------------------
(* Matching                                                                *)

SegEqual(pat, seg) ==
    \/ pat.kind = "any"
    \/ pat.kind = seg.kind /\ pat.key = seg.key /\ pat.index = seg.index

\* Mutant: a deep segment stops at the first segment that equals it.
MatchFirstOnly(pattern, p) ==
    LET m[i \in 1..(Len(pattern) + 1)] ==
            [j \in 1..(Len(p) + 1) |->
                IF i > Len(pattern) THEN j > Len(p)
                ELSE \E k \in j..Len(p) :
                        /\ k = j \/ pattern[i].deep
                        /\ SegEqual(pattern[i], p[k])
                        /\ \A l \in j..(k - 1) : ~SegEqual(pattern[i], p[l])
                        /\ m[i + 1][k + 1]]
    IN  m[1][1]

\* matchJSONPath: m[i][j] tells whether the pattern from its i-th segment on
\* matches the path from its j-th on; a deep segment passes over segments.
MatchJSONPath(pattern, p) ==
    LET m[i \in 1..(Len(pattern) + 1)] ==
            [j \in 1..(Len(p) + 1) |->
                IF i > Len(pattern) THEN j > Len(p)
                ELSE \E k \in j..Len(p) :
                        /\ k = j \/ pattern[i].deep
                        /\ SegEqual(pattern[i], p[k])
                        /\ m[i + 1][k + 1]]
    IN  m[1][1]

\* Policy.MatchJSONPath: the first rule of the policy that matches; 0 if none.
Matching(p) == {r \in DOMAIN Policy : MatchJSONPath(Policy[r].segs, p)}
RuleFor(p) ==
    IF Matching(p) = {} THEN 0
    ELSE CHOOSE r \in Matching(p) : \A s \in Matching(p) : r <= s

-----------------------------------------------------------------------------
(* scanJSON                                                                *)

Top == frames[Len(frames)]
InObject == frames # <<>> /\ ~Top.isArray
SetTop(f) == [frames EXCEPT ![Len(frames)] = f]

\* pushValueLocation: whether the value has a place in a container, and its path.
Owned == frames # <<>> /\ (Top.isArray \/ Top.haveKey)
PathHere ==
    IF ~Owned THEN path
    ELSE Append(path, IF Top.isArray THEN IndexSeg(Top.index) ELSE KeySeg(Top.pendingKey))
Counted == IF frames # <<>> /\ Top.isArray THEN SetTop([Top EXCEPT !.index = @ + 1]) ELSE frames

\* endValue: the key of an object is used up.
EndValue(fs) ==
    IF fs = <<>> \/ Last(fs).isArray THEN fs
    ELSE [fs EXCEPT ![Len(fs)].haveKey = FALSE]

\* '{' and '['.
OpenContainer(array) ==
    /\ tokens' = Append(tokens, Open(array))
    /\ path' = PathHere
    /\ frames' = Append(Counted, [isArray |-> array, haveKey |-> FALSE, pendingKey |-> "*",
                                  index |-> 0, owned |-> Owned])
    /\ UNCHANGED spans

\* '}' and ']'.
CloseContainer ==
    /\ tokens' = Append(tokens, Close)
    /\ path' = IF Top.owned THEN Front(path) ELSE path
    /\ frames' = EndValue(Front(frames))
    /\ UNCHANGED spans

\* classifyScalar: the path is pushed and popped, and the scalar is tagged if
\* its bytes are the expected ones and a rule matches.
Classify(plain) ==
    /\ frames' = EndValue(Counted)
    /\ spans' = IF plain /\ RuleFor(PathHere) # 0
                THEN Append(spans, [start |-> Len(tokens), end |-> Len(tokens) + 1,
                                    level |-> Policy[RuleFor(PathHere)].level,
                                    rule |-> RuleFor(PathHere)])
                ELSE spans
    /\ UNCHANGED path

\* A string is taken for a key where an object lacks one.
ReadString(s, plain) ==
    /\ tokens' = Append(tokens, String(s, plain))
    /\ IF InObject /\ ~Top.haveKey
       THEN /\ frames' = SetTop([Top EXCEPT !.pendingKey = s, !.haveKey = TRUE])
            /\ UNCHANGED <<path, spans>>
       ELSE Classify(plain)

\* A number, true, false or null.
ReadLiteral ==
    /\ tokens' = Append(tokens, Literal)
    /\ Classify(TRUE)

-----------------------------------------------------------------------------
(* What the tokens of a valid text mean, whatever scanJSON makes of them   *)

Count(kind, S) == Cardinality({p \in S : tokens[p].kind = kind})

\* How deep in containers the token at t is, and the last one opened around it.
Depth(t) == Count("open", 1..(t - 1)) - Count("close", 1..(t - 1))
Around(t) == {q \in 1..(t - 1) : tokens[q].kind = "open" /\
                                 \A p \in (q + 1)..t : Depth(p) > Depth(q)}
Parent(t) == Max(Around(t))
Inside(t) == Around(t) # {}
InArray(t) == Inside(t) /\ tokens[Parent(t)].array

\* In an object keys and values take turns.
Siblings(t) == {p \in (Parent(t) + 1)..(t - 1) : Depth(p) = Depth(t) /\ tokens[p].kind # "close"}
IsKey(t) == Inside(t) /\ ~InArray(t) /\ Cardinality(Siblings(t)) % 2 = 0

\* Where a value is in its container, and in the whole text: on the way to it
\* there is one value at every depth.
SegOf(t) ==
    IF InArray(t) THEN IndexSeg(Cardinality(Siblings(t))) ELSE KeySeg(tokens[t - 1].s)
Location(t) ==
    [d \in 1..Depth(t) |-> SegOf(CHOOSE q \in Around(t) \cup {t} : Depth(q) = d)]

\* The tokens read are a whole text, and the ones that may come next.
Here == Len(tokens) + 1
Complete == tokens # <<>> /\ ~Inside(Here)
MayBeValue == ~IsKey(Here)

\* What a string that is a value says is not looked at.
AnyString == CHOOSE s \in Keys : TRUE

ScanNext ==
    \/ /\ Len(tokens) < MaxTokens /\ ~Complete
       /\ \/ \E array \in BOOLEAN : MayBeValue /\ OpenContainer(array)
          \/ \E s \in Keys : IsKey(Here) /\ ReadString(s, TRUE)
          \/ \E plain \in BOOLEAN : MayBeValue /\ ReadString(AnyString, plain)
          \/ MayBeValue /\ ReadLiteral
    \/ Inside(Here) /\ (InArray(Here) \/ IsKey(Here)) /\ CloseContainer

ScanSpec == ScanInit /\ [][ScanNext]_scanVars

-----------------------------------------------------------------------------
(* Properties                                                              *)

\* matchJSONPath against its meaning: the segments of the pattern are found in
\* the path in their order, the last at its end, one that is not deep right
\* behind the one before it.
Assigns(f, pattern, p) ==
    /\ \A i \in DOMAIN f :
          LET before == IF i = 1 THEN 0 ELSE f[i - 1]
          IN  /\ SegEqual(pattern[i], p[f[i]])
              /\ IF pattern[i].deep THEN f[i] > before ELSE f[i] = before + 1
    /\ Len(p) = (IF pattern = <<>> THEN 0 ELSE f[Len(pattern)])
Matches(pattern, p) == \E f \in [DOMAIN pattern -> DOMAIN p] : Assigns(f, pattern, p)

\* "tags scalar values whose concrete path matches a jsonpath rule": a scalar
\* whose bytes are those json.Marshal writes is tagged exactly when the place it
\* has in the text, however deep and however many siblings, keys and containers
\* have come before, matches a rule, and what is tagged has the level of a rule
\* that matches there, whichever of several; keys never are.
Scalar(t) == ~IsKey(t) /\ tokens[t].kind \in {"string", "literal"}
Plain(t) == tokens[t].kind = "string" => tokens[t].plain
MatchingRules(p) == {r \in DOMAIN Policy : Matches(Policy[r].segs, p)}
TaggedAt(t) == {k \in DOMAIN spans : spans[k].start = t - 1 /\ spans[k].end = t}
ScalarsAreTagged ==
    \A t \in DOMAIN tokens :
        /\ ~Scalar(t) => TaggedAt(t) = {}
        /\ Scalar(t) /\ Plain(t) => (TaggedAt(t) # {} <=> MatchingRules(Location(t)) # {})
        /\ \A k \in TaggedAt(t) : \E r \in MatchingRules(Location(t)) :
              spans[k].level = Policy[r].level

(* The invariant it follows from.                                          *)

Tokens == {Close, Literal} \cup {Open(array) : array \in BOOLEAN}
             \cup {String(s, plain) : s \in Keys \cup {AnyString}, plain \in BOOLEAN}
ScanTypeOK ==
    /\ tokens \in Seq(Tokens)
    /\ frames \in Seq([isArray : BOOLEAN, haveKey : BOOLEAN, pendingKey : Keys \cup {"*"},
                       index : Nat, owned : BOOLEAN])
    /\ path \in Seq([kind : {"key", "index"}, key : Keys \cup {"*"}, index : Nat])
    /\ spans \in Seq([start : Nat, end : Nat, level : Int, rule : DOMAIN Policy])

\* The keys and values of a container so far.
Members(q) == {p \in (q + 1)..Len(tokens) :
                  Depth(p) = Depth(q) + 1 /\ tokens[p].kind # "close"}

\* The i-th frame is of the container opened at q.  An object around another
\* container has a value for every key; haveKey is left over in its frame.
FrameIsOf(i, q) ==
    /\ Depth(q) = i - 1
    /\ frames[i].isArray = tokens[q].array
    /\ frames[i].owned = (i > 1)
    /\ tokens[q].array => frames[i].index = Cardinality(Members(q))
    /\ ~tokens[q].array =>
          IF i < Len(frames) THEN Cardinality(Members(q)) % 2 = 0
          ELSE frames[i].haveKey <=> Cardinality(Members(q)) % 2 = 1
    /\ i > 1 => path[i - 1] = SegOf(q)

\* The frames are of the containers that are open, and the path leads to the
\* last of them; the key that is pending was the last token.
FramesAreOpen ==
    /\ Depth(Here) = Len(frames)
    /\ \A t \in 1..Here : /\ Depth(t) >= 0
                          /\ \A d \in 0..(Depth(t) - 1) : \E q \in Around(t) : Depth(q) = d
    /\ \A i \in DOMAIN frames : \E q \in Around(Here) : FrameIsOf(i, q)
    /\ Len(path) = IF frames = <<>> THEN 0 ELSE Len(frames) - 1
    /\ InObject /\ Top.haveKey => tokens[Len(tokens)].s = Top.pendingKey

\* What is tagged has been read, with the level of its rule.
SpansAreBehind ==
    \A k \in DOMAIN spans : /\ spans[k].end = spans[k].start + 1 /\ spans[k].end <= Len(tokens)
                            /\ spans[k].level = Policy[spans[k].rule].level

\* What the code makes of ties and spellings: the first rule that matches counts,
\* and a string with other bytes than the expected ones is passed over.
FirstMatch(p) == {r \in DOMAIN Policy : /\ Matches(Policy[r].segs, p)
                                        /\ \A s \in 1..(r - 1) : ~Matches(Policy[s].segs, p)}
FirstMatchTags ==
    \A t \in DOMAIN tokens :
        {spans[k].rule : k \in TaggedAt(t)} =
            IF Scalar(t) /\ Plain(t) THEN FirstMatch(Location(t)) ELSE {}

ScanInvariant == ScanTypeOK /\ FramesAreOpen /\ SpansAreBehind /\ FirstMatchTags
=============================================================================
