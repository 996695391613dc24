--------------------------- MODULE TransportPolicy ---------------------------
(***************************************************************************)
(* The destination policies a transport is given: evaluateDestinationUrl   *)
(* with its path decoding, and evaluateResolvedAddressSet with the         *)
(* classification of addresses against the special-purpose registries.     *)
(* Each is one synchronous function; its loop is the state machine here.   *)
(* What both call is also taken by itself: parseCanonicalIPv6 with the     *)
(* texts it is given (AddressText), and the classification of an address   *)
(* by the registries that are checked in (SpecialRegistries).              *)
(*                                                                         *)
(* An address is a number of Width4 or Width6 bits together with the text  *)
(* form it was written in; the last Width4 bits of an IPv6 address may be  *)
(* an embedded IPv4 address.  A path is a sequence of characters, each     *)
(* with the number of times it is percent-encoded.                         *)
(***************************************************************************)
EXTENDS AddressText, SpecialRegistries

CONSTANTS
    Width4, Width6,      \* bits of an address of each family
    Records4, Records6,  \* the special-purpose registries
    MappedPrefix,        \* the first Width6 - Width4 bits of ::ffff:0:0/96 ...
    Nat64Prefix,         \* ... and of 64:ff9b::/96
    RecordSets,          \* sequences of resolved records to evaluate
    Urls,                \* URLs to evaluate
    Spellings,           \* texts of IPv6 addresses to parse
    Addresses,           \* digits of addresses to look up in the registries of the code
    MaxRecords, MaxTtl, MaxPasses

ASSUME PolicyAssumption ==
    /\ Width4 \in Nat /\ Width6 \in Nat /\ Width4 < Width6
    /\ MaxRecords \in Nat /\ MaxPasses \in Nat \ {0}
    /\ MappedPrefix \in Nat /\ 2^Width4 \in Nat

VARIABLES
    question,   \* the input: a sequence of records, a URL, a text or an address
    asked,      \* "records", "url", "text" or "address"
    index,      \* records taken, or passes of decoding done
    approved,   \* the texts approved so far, sorted
    minTtl,     \* the least time to live so far, -1 for none
    verdict     \* "open", "ok" or the error

vars == <<question, asked, index, approved, minTtl, verdict>>

-----------------------------------------------------------------------------
(* Addresses.                                                              *)

Covers(record, number, width) ==
    number \div 2^(width - record.length) = record.prefix \div 2^(width - record.length)

\* the matching record with the longest prefix, if there is one
Longest(records, number, width) ==
    {r \in records : /\ Covers(r, number, width)
                     /\ \A s \in records : Covers(s, number, width) => s.length <= r.length}

Effective(record) == record.active /\ record.destination /\ record.global

Inner(number) == number % 2^Width4
IsNat64(record) == record.length = Width6 - Width4 /\ record.prefix \div 2^Width4 = Nat64Prefix

\* The registries are tables of CIDR blocks, and one record of the IPv6 table, with no more
\* specific one within it, is about the addresses of 64:ff9b::/96.
ASSUME RegistriesAssumption ==
    /\ \A r \in Records4 : r.length \in 0 .. Width4
    /\ \A r \in Records6 : r.length \in 0 .. Width6
    /\ \E r \in Records6 : IsNat64(r)
    /\ \A r \in Records6, n \in 0 .. 2^Width6 - 1 :
          Covers(r, n, Width6) /\ n \div 2^Width4 = Nat64Prefix => r.length <= Width6 - Width4

\* A text has one of the forms the parsers know, or the one that the dotted text of a NAT64
\* address is rewritten to, and one of hexadecimal groups has Width6 bits; an octet is a character that only an encoding can spell.  An address to look up is
\* four octets or eight groups of sixteen bits.
Forms == {"malformed", "dotted", "hex", "mapped", "nat64", "rewritten"}
ASSUME InputsAssumption ==
    /\ \A records \in RecordSets :
          /\ Len(records) \in Nat /\ DOMAIN records = 1 .. Len(records)
          /\ \A i \in DOMAIN records :
                /\ records[i].text \in [form : Forms, number : Nat]
                /\ records[i].text.form = "hex" => records[i].text.number \in 0 .. 2^Width6 - 1
    /\ \A url \in Urls :
          /\ Len(url.path) \in Nat /\ DOMAIN url.path = 1 .. Len(url.path)
          /\ \A i \in DOMAIN url.path :
                /\ url.path[i].depth \in Nat
                /\ url.path[i].char = "octet" => url.path[i].depth > 0
    /\ \A text \in Spellings : text \in Seq(ToSet(text))
    /\ \A digits \in Addresses :
          \/ digits \in [1 .. 4 -> Nat]
          \/ digits \in [1 .. 8 -> Nat] /\ \A i \in 1 .. 8 : digits[i] < 2^16

\* classifyIPv4Address: what no record covers is public
Allowed4(number) == \A r \in Longest(Records4, number, Width4) : Effective(r)

\* 2000::/3
GlobalUnicast(number) == number \div 2^(Width6 - 3) = 1

\* MUTANT: an address of 64:ff9b::/96 is judged by its own record
AllowedByRecord(number) ==
    LET best == Longest(Records6, number, Width6)
    IN IF best = {} THEN GlobalUnicast(number) ELSE \A r \in best : Effective(r)

\* classifyIPv6Address, for the hexadecimal form
AllowedHex(number) ==
    LET best == Longest(Records6, number, Width6)
    IN IF best = {} THEN GlobalUnicast(number)
       ELSE \A r \in best : IF IsNat64(r) THEN Allowed4(Inner(number)) ELSE Effective(r)

\* a text is malformed, dotted, hexadecimal, or an IPv6 prefix with a dotted rest
Family(text) ==
    IF text.form = "dotted" THEN 4
    ELSE IF text.form = "malformed" THEN text.number ELSE 6

\* classifyAddress
Allowed(text) ==
    CASE text.form \in {"malformed", "rewritten"} -> FALSE
      [] text.form = "hex" -> AllowedHex(text.number)
      [] text.form \in {"dotted", "mapped", "nat64"} -> Allowed4(text.number)

\* What a parser answers as normalized_address: the text it was given, but for the dotted form
\* of a NAT64 address, which loses a colon (64:ff9b:192.0.2.1) and parses no more.
Normalized(text) == IF text.form = "nat64" THEN [text EXCEPT !.form = "rewritten"] ELSE text

\* the number to sort by is of a second parse
Keyed(text) == text.form # "rewritten"
SortKey(text) == IF text.form = "mapped" THEN MappedPrefix * 2^Width4 + text.number ELSE text.number

\* the comparator, where it answers less than zero
Before(t, u) ==
    \/ Family(t) < Family(u)
    \/ Family(t) = Family(u) /\ Keyed(t) /\ Keyed(u) /\ SortKey(t) < SortKey(u)

\* Array.prototype.sort, a stable insertion that takes the texts in the order they were
\* approved in (so each may be inserted when it is approved): where the comparator is no order, what is in
\* the middle keeps the two sides apart
Insert(sorted, text) ==
    LET after == {i \in DOMAIN sorted : ~Before(text, sorted[i])}
        place == IF after = {} THEN 0 ELSE CHOOSE i \in after : \A j \in after : j <= i
    IN InsertAt(sorted, place + 1, text)

-----------------------------------------------------------------------------
(* evaluateResolvedAddressSet.                                             *)

Close(result) == verdict' = result /\ UNCHANGED <<question, asked, index, approved, minTtl>>

\* the first error of a record, or "ok"; plain stands for the checks of its prototype and
\* its properties
RecordError(record) ==
    IF ~record.plain THEN "invalid_record"
    ELSE IF record.family \notin {4, 6} THEN "invalid_address_family"
    ELSE IF record.ttl > MaxTtl THEN "invalid_ttl_value"
    ELSE IF Family(record.text) # record.family THEN "family_mismatch_with_parsed_address"
    ELSE IF ~Allowed(record.text) THEN "non_global_or_forbidden_address_in_set"
    ELSE "ok"

RefuseSet ==
    /\ asked = "records" /\ verdict = "open" /\ index = 0
    /\ \/ Len(question) = 0 /\ Close("empty_record_set")
       \/ Len(question) > MaxRecords /\ Close("exceeds_maximum_record_limit")

Approve(record) ==
    /\ index' = index + 1
    /\ LET text == Normalized(record.text)
       IN approved' = IF text \in ToSet(approved) THEN approved ELSE Insert(approved, text)
    /\ minTtl' = IF record.ttl >= 0 /\ (minTtl = -1 \/ record.ttl < minTtl) THEN record.ttl ELSE minTtl
    /\ UNCHANGED <<question, asked, verdict>>

\* MUTANT: a forbidden address is left out instead of failing the set
TakeRecordOrSkip ==
    /\ asked = "records" /\ verdict = "open"
    /\ Len(question) <= MaxRecords /\ index < Len(question)
    /\ LET error == RecordError(question[index + 1])
       IN IF error = "ok" THEN Approve(question[index + 1])
          ELSE index' = index + 1 /\ UNCHANGED <<question, asked, approved, minTtl, verdict>>

TakeRecord ==
    /\ asked = "records" /\ verdict = "open"
    /\ Len(question) <= MaxRecords /\ index < Len(question)
    /\ LET error == RecordError(question[index + 1])
       IN IF error = "ok" THEN Approve(question[index + 1]) ELSE Close(error)

\* the first of the sorted texts is the one to connect to
FinishSet ==
    /\ asked = "records" /\ verdict = "open"
    /\ index > 0 /\ index = Len(question)
    /\ Close("ok")

-----------------------------------------------------------------------------
(* evaluatePathSafety.                                                     *)

\* how often a character is still encoded after some passes
Depth(c, passes) == IF c.depth > passes THEN c.depth - passes ELSE 0

\* two dots that show in the text of this pass, encoded once or not at all
Traversal(path, passes) ==
    \E i \in DOMAIN path : /\ i + 1 \in DOMAIN path
                           /\ path[i].char = "." /\ path[i + 1].char = "."
                           /\ Depth(path[i], passes) <= 1 /\ Depth(path[i + 1], passes) <= 1

\* what one pass refuses before it decodes
Shows(path, passes) ==
    \/ \E i \in DOMAIN path :
          \/ path[i].char = "control" /\ Depth(path[i], passes) = 0
          \/ path[i].char = "percent" /\ Depth(path[i], passes) = 0
          \/ path[i].char \in {"/", "\\", "NUL", "octet"} /\ Depth(path[i], passes) = 1
    \/ Traversal(path, passes)

\* whether a pass changes the text
Encoded(path, passes) == \E i \in DOMAIN path : Depth(path[i], passes) > 0

RefusePath(path) ==
    \E i \in DOMAIN path : path[i].char \in {"\\", "control", "NUL", "space"} /\ path[i].depth = 0

\* a segment is a lone dot, written plainly or encoded once
LoneDot(path, depth) ==
    \E i \in DOMAIN path : /\ path[i].char = "." /\ path[i].depth <= depth
                           /\ i > 1 /\ path[i - 1] = [char |-> "/", depth |-> 0]
                           /\ \/ i = Len(path)
                              \/ path[i + 1] = [char |-> "/", depth |-> 0]

\* the text after the last pass
PathEnds(path, passes) ==
    /\ ~Encoded(path, passes)
    /\ \A i \in DOMAIN path : path[i].char \notin {"\\", "control", "NUL"}
    /\ ~Traversal(path, passes)
    /\ ~LoneDot(path, 0)

-----------------------------------------------------------------------------
(* evaluateDestinationUrl.                                                 *)

\* the checks of the text up to the path, in order: "ok" or the error; an IPv6 literal is
\* parsed as it stands and judged as it is normalised
AuthorityVerdict(url) ==
    IF url.scheme # "https" \/ url.authority = "empty" THEN "endpoint_invalid"
    ELSE IF url.authority = "userinfo" \/ url.query \/ url.fragment THEN "endpoint_forbidden"
    ELSE IF url.host = "malformed" THEN "endpoint_invalid"
    ELSE IF url.port \notin {"none", "443"} THEN "endpoint_forbidden"
    ELSE IF url.host = "unacceptable" THEN "endpoint_invalid"
    ELSE IF url.host = "literal" /\ url.text.form \in {"malformed", "rewritten"} THEN "endpoint_invalid"
    ELSE IF url.host = "literal" /\ ~Allowed(Normalized(url.text)) THEN "endpoint_forbidden"
    ELSE "ok"

\* what the WHATWG parser would write differently: a dotted rest in an IPv6 literal, a lone
\* dot that is encoded, a character it encodes by itself
Rewritten(url) ==
    \/ url.host = "literal" /\ url.text.form \in {"mapped", "nat64"}
    \/ LoneDot(url.path, 1)
    \/ \E i \in DOMAIN url.path : url.path[i].char = "escaped" /\ url.path[i].depth = 0

RefuseUrl ==
    /\ asked = "url" /\ verdict = "open" /\ index = 0
    /\ LET error == AuthorityVerdict(question)
       IN \/ error # "ok" /\ Close(error)
          \/ error = "ok" /\ RefusePath(question.path) /\ Close("endpoint_invalid")

Acceptable(url) == AuthorityVerdict(url) = "ok" /\ ~RefusePath(url.path)

\* one pass: refuse what shows, then decode
DecodePass ==
    /\ asked = "url" /\ verdict = "open" /\ Acceptable(question)
    /\ index < MaxPasses
    /\ \/ Shows(question.path, index) /\ Close("endpoint_invalid")
       \/ /\ ~Shows(question.path, index) /\ Encoded(question.path, index)
          /\ index' = index + 1
          /\ UNCHANGED <<question, asked, approved, minTtl, verdict>>

\* MUTANT: what is still encoded after the last pass is let through
FinishUrlOpen ==
    /\ asked = "url" /\ verdict = "open" /\ Acceptable(question)
    /\ \/ index = MaxPasses
       \/ ~Shows(question.path, index) /\ ~Encoded(question.path, index)
    /\ Close(IF ~Rewritten(question) THEN "ok" ELSE "endpoint_invalid")

FinishUrl ==
    /\ asked = "url" /\ verdict = "open" /\ Acceptable(question)
    /\ \/ index = MaxPasses
       \/ ~Shows(question.path, index) /\ ~Encoded(question.path, index)
    /\ Close(IF PathEnds(question.path, index) /\ ~Rewritten(question) THEN "ok" ELSE "endpoint_invalid")

-----------------------------------------------------------------------------
\* parseCanonicalIPv6
ParseText ==
    /\ asked = "text" /\ verdict = "open"
    /\ Close(ParseError(question))

\* classifyIPv4Address or classifyIPv6Address with the registries of the code
JudgeAddress ==
    /\ asked = "address" /\ verdict = "open"
    /\ Close(IF Judged(question) THEN "ok" ELSE "forbidden")

-----------------------------------------------------------------------------
Init ==
    /\ \/ asked = "records" /\ question \in RecordSets
       \/ asked = "url" /\ question \in Urls
       \/ asked = "text" /\ question \in Spellings
       \/ asked = "address" /\ question \in Addresses
    /\ index = 0 /\ approved = <<>> /\ minTtl = -1 /\ verdict = "open"

Next == RefuseSet \/ TakeRecord \/ FinishSet \/ RefuseUrl \/ DecodePass \/ FinishUrl \/ ParseText
        \/ JudgeAddress

Spec == Init /\ [][Next]_vars

-----------------------------------------------------------------------------
(* Correctness.                                                            *)

\* no record that forbids the address, but for one that a more specific one overrules
Unforbidden(number, records, width) ==
    \A r \in records : Covers(r, number, width) /\ ~Effective(r) =>
        \E s \in records : s.length > r.length /\ Covers(s, number, width) /\ Effective(s)

\* the IPv4 address an address carries, if it does
Carried(text) ==
    CASE text.form \in {"mapped", "nat64", "rewritten"} -> {text.number}
      [] text.form = "hex" /\ text.number \div 2^Width4 = Nat64Prefix -> {Inner(text.number)}
      [] text.form = "dotted" -> {text.number}
      [] OTHER -> {}

\* the text an address is approved in
Approving(text) ==
    IF text.form = "nat64" THEN [form |-> "rewritten", number |-> text.number] ELSE text

\* A set of resolved addresses is accepted only as a whole: every record's address is one
\* that nothing forbids and is among the approved ones, in the text it was resolved in, none
\* twice, and where each has a number none stands before a lesser one.  One bad record among
\* good ones, wherever it stands, refuses the set.  Only the dotted text of a NAT64 address is
\* approved as another, rewritten one, which is no text of an address (README, divergences);
\* no other text is ever rewritten, and no two addresses become one.
ApprovedIsWhole ==
    asked = "records" /\ verdict = "ok" =>
        /\ ToSet(approved) = {Approving(question[i].text) : i \in DOMAIN question}
        /\ \A i, j \in DOMAIN approved : i < j => approved[i] # approved[j]
        /\ (\A t \in ToSet(approved) : Keyed(t)) =>
              \A i, j \in DOMAIN approved : i < j => ~Before(approved[j], approved[i])
        /\ \A t \in ToSet(approved) : t.form = "hex" /\ t.number \div 2^Width4 # Nat64Prefix =>
              Unforbidden(t.number, Records6, Width6)

\* CHANGELOG.md:62: the set evaluator has "deterministic IPv4-first, ascending-numeric
\* sorting rules".
ApprovedIsAscending ==
    asked = "records" /\ verdict = "ok" =>
        \A i, j \in DOMAIN approved : i < j => ~Before(approved[j], approved[i])

\* An address that carries an IPv4 address is approved only if that one may be reached,
\* in whichever of its text forms it was resolved: each form has a branch of its own.
CarriedIsAllowed ==
    \A t \in ToSet(approved) : \A n \in Carried(t) : Unforbidden(n, Records4, Width4)

\* A path that is accepted hides nothing: decoded as often as anyone may, it shows no
\* separator that was not one from the start, no control character, and no two dots.
AcceptedPathIsPlain ==
    asked = "url" /\ verdict = "ok" =>
        LET path == question.path
        IN /\ \A i \in DOMAIN path : /\ path[i].char \notin {"\\", "control", "NUL", "octet"}
                                     /\ path[i].char = "/" => path[i].depth = 0
                                     /\ path[i].depth <= MaxPasses
           /\ \A i \in 1 .. Len(path) - 1 : path[i].char # "." \/ path[i + 1].char # "."

\* Every address has one accepted hexadecimal text, that of RFC 5952: with the first of its
\* longest runs of two or more zeros left out.  The parser expands what it reads and formats
\* it again in one scan, so a wrong run makes it refuse the right text and accept another.
\* Only the addresses of the two prefixes that embed an IPv4 address have another accepted
\* text, the dotted one, so that a list of texts may name one of them twice.
TextsAreCanonical ==
    asked = "text" /\ verdict # "open" =>
        (verdict = "ok" <=> question \in CanonicalTexts \cup DottedTexts)

\* With the registries as they are checked in an address is allowed exactly when no row
\* forbids it, but for the rows within that row, and when it carries no forbidden IPv4
\* address by any of the standard ways to carry one: the code treats two of them and leaves
\* the rest to the rows.
RegistriesLeaveNoBypass ==
    asked = "address" /\ verdict # "open" => (verdict = "ok" <=> NoBypass(question))

\* What an address is, in its text and by its block.
AddressesAreUnderstood == TextsAreCanonical /\ RegistriesLeaveNoBypass
=============================================================================
