----------------------------- MODULE AddressText -----------------------------
(***************************************************************************)
(* The texts of IPv6 addresses: parseCanonicalIPv6 accepts the one         *)
(* hexadecimal text that formatRfc5952 would print and, after two prefixes *)
(* and no others, a dotted rest.  A text is a sequence of tokens as a      *)
(* reader from the left finds them: a group, a dotted rest, ":" or "::";   *)
(* of the characters no address has, "zone" and "upper" stand for theirs.  *)
(***************************************************************************)
EXTENDS Integers, Sequences, SequencesExt

CONSTANTS
    Words,   \* groups as they are printed; "0" is one of them
    Padded,  \* groups with a leading zero
    Quads,   \* IPv4 addresses as parseCanonicalIPv4 takes them
    Dotted   \* Quads and what it refuses though it has a dot

Groups == 8

Colons == {":", "::"}
Nothing == ""   \* what split finds between colons that stand together

ASSUME WordsAssumption ==
    /\ "0" \in Words /\ Words \cap (Colons \cup {Nothing, "zone", "upper"}) = {}
    /\ Quads \subseteq Dotted /\ Dotted \cap (Words \cup Colons \cup {"zone", "upper"}) = {}

\* words with a colon between any two
Join(words) ==
    [k \in 1 .. 2 * Len(words) - 1 |-> IF k % 2 = 1 THEN words[(k + 1) \div 2] ELSE ":"]

\* the run of zeros the scan is in and the longest of two or more it has met
ScanWord(scan, i, word) ==
    LET start == IF scan.length = 0 THEN i ELSE scan.start
        length == scan.length + 1
    IN IF word # "0" THEN [scan EXCEPT !.length = 0]
       ELSE IF length > scan.best.length /\ length >= 2
       THEN [start |-> start, length |-> length, best |-> [start |-> start, length |-> length]]
       ELSE [scan EXCEPT !.start = start, !.length = length]

NoRun == [start |-> 0, length |-> 0]

NoScan == [start |-> 0, length |-> 0, best |-> NoRun]

\* MUTANT: of two runs of one length the later is taken
LongestRunLast(words) ==
    LET scan[i \in 0 .. Groups] ==
            IF i = 0 THEN NoScan
            ELSE LET next == ScanWord(scan[i - 1], i, words[i])
                 IN IF next.length = next.best.length /\ next.length >= 2
                    THEN [next EXCEPT !.best = [start |-> next.start, length |-> next.length]] ELSE next
    IN scan[Groups].best

LongestRun(words) ==
    LET scan[i \in 0 .. Groups] == IF i = 0 THEN NoScan ELSE ScanWord(scan[i - 1], i, words[i])
    IN scan[Groups].best

\* formatRfc5952
Formatted(words) ==
    LET run == LongestRun(words)
    IN IF run = NoRun THEN Join(words)
       ELSE Join(SubSeq(words, 1, run.start - 1)) \o <<"::">>
            \o Join(SubSeq(words, run.start + run.length, Groups))

\* String.split(":"): what stands between the colons
Parts(text) ==
    LET parts[k \in 0 .. Len(text)] ==
            IF k = 0 THEN <<Nothing>>
            ELSE LET before == parts[k - 1]
                 IN IF text[k] \in Colons THEN Append(before, Nothing) ELSE [before EXCEPT ![Len(before)] = text[k]]
    IN parts[Len(text)]
PartsOf(side) == IF side = <<>> THEN <<>> ELSE Parts(side)

Doubles(text) == {i \in DOMAIN text : text[i] = "::"}

\* the groups on either side of the "::", all on the left where there is none
Left(text) == IF Doubles(text) = {} THEN Parts(text)
              ELSE PartsOf(SubSeq(text, 1, (CHOOSE i \in Doubles(text) : TRUE) - 1))
Right(text) == IF Doubles(text) = {} THEN <<>>
               ELSE PartsOf(SubSeq(text, (CHOOSE i \in Doubles(text) : TRUE) + 1, Len(text)))

\* the groups with the zeros the "::" stands for
Expanded(text) ==
    Left(text) \o [i \in 1 .. Groups - Len(Left(text)) - Len(Right(text)) |-> "0"] \o Right(text)

\* what the text is before its last colon and a dotted rest
Leads == {<<"::", "ffff", ":">>, <<"64", ":", "ff9b", "::">>}

EndsDotted(text) == text # <<>> /\ Last(text) \in Dotted

\* parseCanonicalIPv6 of a text with a dotted rest
DottedError(text) ==
    IF Front(text) \notin Leads THEN "non_canonical_mapped_prefix"
    ELSE IF Last(text) \notin Quads THEN "mapped_ipv4_invalid"
    ELSE "ok"

\* parseCanonicalIPv6: the first error, or "ok"
ParseError(text) ==
    LET given == Len(Left(text)) + Len(Right(text))
        parts == Expanded(text)
        odd == {i \in DOMAIN parts : parts[i] \notin Words}
    IN IF text = <<>> THEN "invalid_length"
       ELSE IF "zone" \in ToSet(text) THEN "zone_or_bracket_rejected"
       ELSE IF "upper" \in ToSet(text) THEN "uppercase_rejected"
       ELSE IF EndsDotted(text) THEN DottedError(text)
       ELSE IF \E i, j \in Doubles(text) : i # j THEN "multiple_double_colons"
       ELSE IF Doubles(text) = {} /\ given # Groups THEN "invalid_segment_count"
       ELSE IF Doubles(text) # {} /\ given >= Groups THEN "invalid_segment_count_with_compression"
       ELSE IF odd # {}
       THEN IF parts[CHOOSE i \in odd : \A j \in odd : i <= j] \in Padded
            THEN "unnecessary_leading_zero" ELSE "invalid_hex_segment"
       ELSE IF Formatted(parts) # text THEN "non_canonical_rfc5952_format"
       ELSE "ok"

\* RFC 5952: the zeros at these places are the first of the longest runs, if one is longer than 1
ZeroRun(words, i, j) == i <= j /\ \A k \in i .. j : words[k] = "0"
Canonical(words) ==
    LET runs == {r \in (1 .. Groups) \X (1 .. Groups) : r[1] < r[2] /\ ZeroRun(words, r[1], r[2])}
        first == {r \in runs : \A s \in runs : \/ s[2] - s[1] < r[2] - r[1]
                                               \/ s[2] - s[1] = r[2] - r[1] /\ s[1] >= r[1]}
    IN IF runs = {} THEN {Join(words)}
       ELSE {Join(SubSeq(words, 1, r[1] - 1)) \o <<"::">> \o Join(SubSeq(words, r[2] + 1, Groups)) :
                r \in first}
CanonicalTexts == UNION {Canonical(words) : words \in [1 .. Groups -> Words]}

\* ::ffff:0:0/96 and 64:ff9b::/96 with the embedded address in dotted decimal (RFC 5952, 5)
DottedTexts == {<<"::", "ffff", ":", quad>> : quad \in Quads}
               \cup {<<"64", ":", "ff9b", "::", quad>> : quad \in Quads}
=============================================================================
