------------------------------ MODULE FormScan ------------------------------
(***************************************************************************)
(* capture.go, scanFormPairs: one pass over "a=1&b=2", the query of a URI  *)
(* or a form in a body, that tags the values of sensitive fields where     *)
(* they are in the raw text.                                               *)
(***************************************************************************)
EXTENDS Integers, Sequences

CONSTANTS
    Chars,         \* what a text is made of, beside "&" and "="
    FieldNames,    \* the raw names MatchFormField has a rule for, once decoded
    FieldLevel,    \* and the level of that rule
    MaxChars       \* bound: the length of a text

ASSUME CharsAssumption == MaxChars \in Nat

VARIABLES
    text,          \* the text
    raw,           \* what of it is not looked at yet
    off,           \* and its offset
    fields         \* the spans of the values tagged

formVars == <<text, raw, off, fields>>

\* What is before the first c in t, all of it if there is none.
UpTo(c, t) ==
    LET n == CHOOSE k \in 0..Len(t) :
                 /\ \A i \in 1..k : t[i] # c
                 /\ k < Len(t) => t[k + 1] = c
    IN  SubSeq(t, 1, n)

Pair == UpTo("&", raw)
Name == UpTo("=", Pair)

FormInit ==
    /\ text \in UNION {[1..n -> Chars \cup {"&", "="}] : n \in 0..MaxChars}
    /\ raw = text
    /\ off = 0
    /\ fields = <<>>

\* The value is behind the first "="; a pair without one has none.
ValueStart == off + (IF Name = Pair THEN Len(Pair) ELSE Len(Name) + 1)
ValueEnd == off + Len(Pair)

\* Mutant: the ampersand is not counted.
NextPairDrifts ==
    /\ raw # <<>>
    /\ fields' = IF Name \in FieldNames /\ ValueStart < ValueEnd
                 THEN Append(fields, [start |-> ValueStart, end |-> ValueEnd,
                                      level |-> FieldLevel, rule |-> 0])
                 ELSE fields
    /\ raw' = SubSeq(raw, Len(Pair) + 2, Len(raw))
    /\ off' = off + Len(Pair)
    /\ UNCHANGED text

\* One turn of the loop; behind the last pair the offset is not read any more.
NextPair ==
    /\ raw # <<>>
    /\ fields' = IF Name \in FieldNames /\ ValueStart < ValueEnd
                 THEN Append(fields, [start |-> ValueStart, end |-> ValueEnd,
                                      level |-> FieldLevel, rule |-> 0])
                 ELSE fields
    /\ raw' = SubSeq(raw, Len(Pair) + 2, Len(raw))
    /\ off' = off + Len(Pair) + 1
    /\ UNCHANGED text

FormSpec == FormInit /\ [][NextPair]_formVars

-----------------------------------------------------------------------------
(* Properties                                                              *)

\* The position p is in the value of a pair with a sensitive name: behind the
\* first "=" after the last "&" before it.
InValue(p) ==
    \E b \in 0..p, e \in 1..p :
        /\ b = 0 \/ text[b] = "&"
        /\ \A i \in (b + 1)..(p + 1) : text[i] # "&"
        /\ b < e /\ text[e] = "="
        /\ \A i \in (b + 1)..(e - 1) : text[i] # "="
        /\ SubSeq(text, b + 1, e - 1) \in FieldNames

\* The position p is in a span tagged.
InField(p) == \E k \in DOMAIN fields : fields[k].start <= p /\ p < fields[k].end

\* "keeping raw offsets": when the loop is over, the positions tagged are those
\* of the values of sensitive fields, with empty pairs, names and values, and
\* with any number of "=" and "&" in a row.
FieldsAreTagged ==
    raw = <<>> => \A p \in 0..(Len(text) - 1) : InValue(p) <=> InField(p)

(* The invariant it follows from.                                          *)

FormTypeOK ==
    /\ text \in Seq(Chars \cup {"&", "="}) /\ raw \in Seq(Chars \cup {"&", "="})
    /\ off \in Nat
    /\ fields \in Seq([start : Nat, end : Nat, level : {FieldLevel}, rule : {0}])

\* What is left is the rest of the text from the offset on, behind a "&".
RawIsTheRest ==
    raw # <<>> =>
        /\ off + Len(raw) = Len(text)
        /\ \A i \in DOMAIN raw : raw[i] = text[off + i]
        /\ off = 0 \/ text[off] = "&"

\* The positions before it are tagged as they should be, and no others.
Behind == IF raw = <<>> THEN Len(text) ELSE off
BehindIsTagged ==
    /\ \A p \in 0..(Behind - 1) : InValue(p) <=> InField(p)
    /\ \A k \in DOMAIN fields : fields[k].end <= Behind

FormInvariant == FormTypeOK /\ RawIsTheRest /\ BehindIsTagged
=============================================================================
