------------------------- MODULE MCTransportPolicy -------------------------
EXTENDS TransportPolicy

Rec(prefix, length, effective) ==
    [prefix |-> prefix, length |-> length,
     active |-> TRUE, destination |-> effective, global |-> effective]

\* of eight IPv4 addresses four are special, one of them reachable all the same
MCRecords4 == {Rec(4, 1, FALSE), Rec(6, 3, TRUE)}
\* IPv6 has five more bits: mapped 0, NAT64 2, global unicast 4 to 7
MCRecords6 == {Rec(0, 5, FALSE), Rec(16, 5, TRUE), Rec(32, 5, FALSE), Rec(36, 7, TRUE)}

Text(form, number) == [form |-> form, number |-> number]
Texts ==
    {Text("dotted", n) : n \in {1, 4, 6}}
    \cup {Text(form, n) : form \in {"mapped", "nat64"}, n \in {1, 4}}
    \cup {Text("hex", n) : n \in {1, 17, 20, 33, 37, 41, 200}}
    \cup {Text("malformed", n) : n \in {4, 6}} \cup {Text("rewritten", 1)}

Resolved(text, family, ttl, plain) == [text |-> text, family |-> family, ttl |-> ttl, plain |-> plain]
Sound == {Resolved(t, Family(t), 1, TRUE) : t \in Texts}
Odd == {Resolved(Text("dotted", 1), f, ttl, plain) : f \in {4, 5, 6}, ttl \in {-1, 0, 3}, plain \in BOOLEAN}

MCRecordSets ==
    {<<>>} \cup {<<r>> : r \in Sound \cup Odd} \cup {<<r, s>> : r, s \in Sound \cup Odd}
    \cup {<<r, s, t>> : r, s, t \in Sound} \cup {<<r, r, r, r>> : r \in Sound}

Characters == {[char |-> ch, depth |-> d] : ch \in {"a", ".", "/"}, d \in 0 .. 4}
              \cup {[char |-> ch, depth |-> d] : ch \in {"\\", "NUL", "control", "percent"}, d \in {0, 1, 3, 4}}
              \cup {[char |-> "octet", depth |-> d] : d \in 1 .. 4}
              \cup {[char |-> ch, depth |-> 0] : ch \in {"space", "escaped"}}
Slash == [char |-> "/", depth |-> 0]
Paths == {<<Slash>>} \cup {<<Slash, c>> : c \in Characters} \cup {<<Slash, c, d>> : c, d \in Characters}
         \cup {<<Slash, c, d, e>> : c, d, e \in {x \in Characters : x.char \in {".", "/"}}}

Base == [scheme |-> "https", authority |-> "plain", query |-> FALSE, fragment |-> FALSE,
         host |-> "name", port |-> "none", text |-> Text("malformed", 4), path |-> <<Slash>>]

MCUrls ==
    {[Base EXCEPT !.path = p] : p \in Paths}
    \cup {[Base EXCEPT !.host = "literal", !.text = t] : t \in Texts}
    \cup {[Base EXCEPT !.scheme = s, !.authority = a, !.query = q, !.host = h, !.port = p] :
             s \in {"https", "other"}, a \in {"plain", "empty", "userinfo"}, q \in BOOLEAN,
             h \in {"name", "malformed", "unacceptable"}, p \in {"none", "443", "other"}}
    \cup {[Base EXCEPT !.fragment = TRUE]}

\* the other groups of the embedding prefixes occur only where a dotted rest follows
MCWords == {"0", "ffff"}
MCPadded == {"00", "01"}
MCQuads == {"8.8.8.8", "10.0.0.1"}
MCDotted == MCQuads \cup {"8.8.8.08", "8.8.8"}
Foreign == {"zone", "upper", "z"}

\* every list of eight words with any run of zeros left out, or none
Shortened(words) ==
    {Join(words)} \cup
    {Join(SubSeq(words, 1, i - 1)) \o <<"::">> \o Join(SubSeq(words, j + 1, Groups)) :
        <<i, j>> \in {r \in (1 .. Groups) \X (1 .. Groups) : ZeroRun(words, r[1], r[2])}}
Seven == <<"ffff", ":", "ffff", ":", "ffff", ":", "ffff", ":", "ffff", ":", "ffff", ":", "ffff">>
\* the two prefixes in these and other words, and with a colon less or more
BeforeDots ==
    {<<>>, <<"::">>, <<"::", "0", ":">>, <<"::", "ffff", "::">>, <<"::", "ffff", ":", "0", ":">>,
     <<"0", "::", "ffff", ":">>, <<"64", ":", "ff9b", ":">>, <<"64", ":", "ff9b", "::", "ffff", ":">>,
     <<"64", "::", "ff9b", ":">>, <<"zone", "::", "ffff", ":">>, <<"::", "upper", ":">>} \cup Leads
MCSpellings ==
    UNION {Shortened(words) : words \in [1 .. Groups -> MCWords]}
    \cup {<<>>, <<"ffff">>, <<"::", ":">>, <<"::", ":", "ffff">>, <<":", "ffff">>, <<"ffff", "::", "ffff", "::">>, Seven,
          <<"::">> \o Seven \o <<":", "ffff">>, Seven \o <<":">>, Seven \o <<":", "ffff", ":", "ffff">>}
    \cup {<<"::", word>> : word \in Foreign \cup MCPadded}
    \cup {<<w, "::", x>> : w, x \in {"00", "01", "z"}}
    \cup {lead \o <<rest>> : lead \in BeforeDots, rest \in MCDotted}

\* of every block its first and last address and their neighbours outside
Ending(row, bits) ==
    [i \in DOMAIN row.prefix |-> row.prefix[i] + 2^(bits - Fixed(row.length, i, bits)) - 1]
Following(digits, bits) ==
    LET turned == {i \in DOMAIN digits : \A j \in DOMAIN digits : j > i => digits[j] = 2^bits - 1}
    IN [i \in DOMAIN digits |->
           IF i \in turned THEN (digits[i] + 1) % 2^bits ELSE digits[i]]
Preceding(digits, bits) ==
    LET turned == {i \in DOMAIN digits : \A j \in DOMAIN digits : j > i => digits[j] = 0}
    IN [i \in DOMAIN digits |->
           IF i \in turned THEN (digits[i] + 2^bits - 1) % 2^bits ELSE digits[i]]
Edges(rows, bits) ==
    UNION {{r.prefix, Ending(r, bits), Preceding(r.prefix, bits), Following(Ending(r, bits), bits)} : r \in rows}
Edges4 == Edges(Combined4, 8) \cup {<<8, 8, 8, 8>>}

\* an IPv4 address carried in each of the ways Stowed knows, and as the last bits of others
Carrying(o) ==
    LET high == o[1] * 256 + o[2]
        low == o[3] * 256 + o[4]
    IN {<<0, 0, 0, 0, 0, 65535, high, low>>, <<100, 65435, 0, 0, 0, 0, high, low>>,
        <<100, 65435, 1, 0, 0, 0, high, low>>, <<8194, high, low, 0, 0, 0, 0, 1>>,
        <<8193, 0, high, low, 0, 0, 65535 - high, 65535 - low>>, <<0, 0, 0, 0, 0, 0, high, low>>,
        <<9824, 0, 0, 0, 0, 0, high, low>>}
MCAddresses == Edges4 \cup Edges(Combined6, 16) \cup UNION {Carrying(o) : o \in Edges4}

\* The rows that tests/fixtures/iana-special-registry/*.csv give as globally reachable and
\* as destinations.  The snapshot allows the same but for 2001:20::/28 and 2001:30::/28.
Fixture4 == {<<<<192, 0, 0, 9>>, 32>>, <<<<192, 0, 0, 10>>, 32>>, <<<<192, 31, 196, 0>>, 24>>,
             <<<<192, 52, 193, 0>>, 24>>, <<<<192, 175, 48, 0>>, 24>>}
Within(a, b, c, d, length) == <<<<8193, a, b, 0, 0, 0, c, d>>, length>>
Departures == {Within(32, 0, 0, 0, 28), Within(48, 0, 0, 0, 28)}
Fixture6 == {<<<<100, 65435, 0, 0, 0, 0, 0, 0>>, 96>>, <<<<9760, 79, 32768, 0, 0, 0, 0, 0>>, 48>>,
             Within(1, 0, 0, 1, 128), Within(1, 0, 0, 2, 128), Within(1, 0, 0, 3, 128),
             Within(3, 0, 0, 0, 32), Within(4, 274, 0, 0, 48)} \cup Departures
ASSUME FixtureAssumption ==
    LET allowed(rows) == {<<r.prefix, r.length>> : r \in {s \in rows : MayReach(s)}}
    IN allowed(Combined4) = Fixture4 /\ allowed(Combined6) = Fixture6 \ Departures
=============================================================================
