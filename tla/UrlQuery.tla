------------------------------ MODULE UrlQuery ------------------------------
(***************************************************************************)
(* url_query_utils.cpp: a URL goes through set_or_replace_query_param once *)
(* for every solved value.  Each time its query is parsed, which decodes   *)
(* every name and value twice, and written again, which encodes them once. *)
(* A text is the sequence of its bytes.                                    *)
(***************************************************************************)
EXTENDS Naturals, SequencesExt

CONSTANTS
    Urls,       \* the URLs to start from
    ParamKeys,  \* the names that are set
    ParamTexts, \* the values they are set to
    MaxSets     \* bound: how often a parameter is set

Percent == 37
Ampersand == 38
Plus == 43
Equals == 61
Question == 63
Space == 32

UrlQueryAssumption ==
    /\ Urls \cup ParamKeys \cup ParamTexts \subseteq Seq(0..255)
    /\ MaxSets \in Nat

\* hexval: the value of a hex digit, 16 for any other byte.
HexVal(c) ==
    CASE c \in 48..57  -> c - 48
      [] c \in 97..102 -> c - 87
      [] c \in 65..70  -> c - 55
      [] OTHER         -> 16
HexDigit(v) == IF v < 10 THEN 48 + v ELSE 55 + v

EscapeAt(s, i) ==
    s[i] = Percent /\ i + 2 <= Len(s) /\ HexVal(s[i + 1]) < 16 /\ HexVal(s[i + 2]) < 16

\* decode_once; a "%" that no two hex digits follow stands for itself.
DecodeOnce(s) ==
    LET from[i \in 1..(Len(s) + 3)] ==
          IF i > Len(s) THEN <<>>
          ELSE IF EscapeAt(s, i)
               THEN <<16 * HexVal(s[i + 1]) + HexVal(s[i + 2])>> \o from[i + 3]
               ELSE <<IF s[i] = Plus THEN Space ELSE s[i]>> \o from[i + 1]
    IN from[1]

\* safe_double_decode
DoubleDecode(s) == DecodeOnce(DecodeOnce(s))

Unreserved == (65..90) \cup (97..122) \cup (48..57) \cup {45, 95, 46, 126}
UrlEncode(s) ==
    FlattenSeq([i \in DOMAIN s |->
        IF s[i] \in Unreserved THEN <<s[i]>>
        ELSE <<Percent, HexDigit(s[i] \div 16), HexDigit(s[i] % 16)>>])

\* Position of the first c in s, 0 for none.
Find(s, c) == SelectInSeq(s, LAMBDA x : x = c)
UpTo(s, c) == IF Find(s, c) = 0 THEN s ELSE SubSeq(s, 1, Find(s, c) - 1)
After(s, c) == IF Find(s, c) = 0 THEN <<>> ELSE SubSeq(s, Find(s, c) + 1, Len(s))

\* std::getline with '&': nothing follows the last separator.
Parts(qs) ==
    LET from[n \in 0..Len(qs)] ==  \* of the last n bytes
          LET rest == SubSeq(qs, Len(qs) - n + 1, Len(qs))
              next == After(rest, Ampersand)
          IN IF n = 0 THEN <<>> ELSE <<UpTo(rest, Ampersand)>> \o from[Len(next)]
    IN from[Len(qs)]

\* parse_query_string: of two parts with the same name the later one counts.
ParseQueryString(qs) ==
    FoldLeft(LAMBDA params, part :
                [k \in DOMAIN params \cup {DoubleDecode(UpTo(part, Equals))} |->
                    IF k = DoubleDecode(UpTo(part, Equals))
                    THEN DoubleDecode(After(part, Equals)) ELSE params[k]],
             <<>>, Parts(qs))

\* What query_param_from_url finds, for every name there is.
Params(u) == ParseQueryString(After(u, Question))

\* The order of std::map<std::string, std::string>.
Precedes(s, t) ==
    \E i \in 1..Len(t) : /\ SubSeq(s, 1, i - 1) = SubSeq(t, 1, i - 1)
                         /\ Len(s) < i \/ s[i] < t[i]

\* Mutant: values are written as they are.
WriteRaw(k, text) == UrlEncode(k) \o <<Equals>> \o text

Write(k, text) == UrlEncode(k) \o <<Equals>> \o UrlEncode(text)

\* Mutant: the parameter is put behind the others.
AppendQueryParam(u, key, value) ==
    u \o <<IF Find(u, Question) = 0 THEN Question ELSE Ampersand>> \o Write(key, value)

SetOrReplaceQueryParam(u, key, value) ==
    LET old == Params(u)
        new == [k \in DOMAIN old \cup {key} |-> IF k = key THEN value ELSE old[k]]
        sorted == SetToSortSeq(DOMAIN new, Precedes)
        written == [i \in DOMAIN sorted |-> Write(sorted[i], new[sorted[i]])]
    IN UpTo(u, Question) \o <<Question>>
       \o FoldLeft(LAMBDA text, w : IF text = <<>> THEN w ELSE text \o <<Ampersand>> \o w,
                   <<>>, written)

VARIABLES url, sets, last
vars == <<url, sets, last>>

Init == url \in Urls /\ sets = 0 /\ last = <<>>

Set(key, value) ==
    /\ sets < MaxSets
    /\ sets' = sets + 1
    /\ url' = SetOrReplaceQueryParam(url, key, value)
    /\ last' = <<key, value>>

Next == \E key \in ParamKeys, value \in ParamTexts : Set(key, value)

Spec == Init /\ [][Next]_vars
-----------------------------------------------------------------------------
\* Names that a further decoding leaves alone.
PlainNames == \A k \in DOMAIN Params(url) : DecodeOnce(k) = k

\* Setting a parameter adds or changes that one, and every other value is
\* read afterwards as it was before but decoded once more: what SetParam of
\* SolverCache counts as a pass.  No parameter is lost or made up.
OneDecoding ==
    PlainNames =>
        Params(url') = [k \in DOMAIN Params(url) \cup {last'[1]} |->
            DecodeOnce(IF k = last'[1] THEN last'[2] ELSE Params(url)[k])]
SetIsOneDecoding == [][OneDecoding]_vars

\* The order in which solve_format_url sets two parameters (cache hits come
\* before misses) does not show in the URL, as long as the values are texts
\* that a decoding leaves alone.
OrderDoesNotShow ==
    PlainNames =>
        \A k1, k2 \in ParamKeys, v1, v2 \in ParamTexts :
            k1 # k2 /\ DecodeOnce(v1) = v1 /\ DecodeOnce(v2) = v2 =>
                SetOrReplaceQueryParam(SetOrReplaceQueryParam(url, k1, v1), k2, v2)
                    = SetOrReplaceQueryParam(SetOrReplaceQueryParam(url, k2, v2), k1, v1)
=============================================================================
