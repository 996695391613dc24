-------------------------- MODULE SpecialRegistries --------------------------
(***************************************************************************)
(* The special-purpose address registries as they are checked in           *)
(* (gateway/transport/registry-snapshot.js) and the classification of an   *)
(* address against them.  TransportPolicy is about any registries; this    *)
(* module says what these two decide.                                      *)
(*                                                                         *)
(* An address is its digits: four octets or eight groups.  A row keeps     *)
(* what the classification reads of it.                                    *)
(***************************************************************************)
EXTENDS Integers, Sequences, FiniteSets, SequencesExt

Row(prefix, length, destination, global) ==
    [prefix |-> prefix, length |-> length, active |-> TRUE,
     destination |-> destination, global |-> global]
\* what a row says of reaching its addresses
Open(prefix, length)       == Row(prefix, length, TRUE, "true")
Local(prefix, length)      == Row(prefix, length, TRUE, "false")
Unstated(prefix, length)   == Row(prefix, length, TRUE, "null")
Closed(prefix, length)     == Row(prefix, length, FALSE, "false")
Terminated(prefix, length) == [Closed(prefix, length) EXCEPT !.active = FALSE]

HostBlocks4 ==
    << Closed(<<0, 0, 0, 0>>, 8),
       Closed(<<0, 0, 0, 0>>, 32),
       Local(<<10, 0, 0, 0>>, 8),
       Local(<<100, 64, 0, 0>>, 10),
       Closed(<<127, 0, 0, 0>>, 8),
       Local(<<169, 254, 0, 0>>, 16),
       Local(<<172, 16, 0, 0>>, 12) >>

\* IETF Protocol Assignments, 192.0.0.0/24 and what lies in it
ProtocolBlocks4 ==
    << Closed(<<192, 0, 0, 0>>, 24),
       Local(<<192, 0, 0, 0>>, 29),
       Closed(<<192, 0, 0, 8>>, 32),
       Open(<<192, 0, 0, 9>>, 32),
       Open(<<192, 0, 0, 10>>, 32),
       Unstated(<<192, 0, 0, 170>>, 32),
       Unstated(<<192, 0, 0, 171>>, 32) >>

OtherBlocks4 ==
    << Closed(<<192, 0, 2, 0>>, 24),
       Open(<<192, 31, 196, 0>>, 24),
       Open(<<192, 52, 193, 0>>, 24),
       Terminated(<<192, 88, 99, 0>>, 24),
       Terminated(<<192, 88, 99, 2>>, 32),
       Local(<<192, 168, 0, 0>>, 16),
       Open(<<192, 175, 48, 0>>, 24),
       Local(<<198, 18, 0, 0>>, 15),
       Closed(<<198, 51, 100, 0>>, 24),
       Closed(<<203, 0, 113, 0>>, 24),
       Closed(<<240, 0, 0, 0>>, 4),
       Closed(<<255, 255, 255, 255>>, 32) >>

Official4 == HostBlocks4 \o ProtocolBlocks4 \o OtherBlocks4
Supplements4 == << Closed(<<224, 0, 0, 0>>, 4) >>

Nat64Row == Open(<<100, 65435, 0, 0, 0, 0, 0, 0>>, 96)   \* 64:ff9b::/96

TransitionBlocks6 ==
    << Closed(<<0, 0, 0, 0, 0, 0, 0, 1>>, 128),
       Closed(<<0, 0, 0, 0, 0, 0, 0, 0>>, 128),
       Closed(<<0, 0, 0, 0, 0, 65535, 0, 0>>, 96),
       Nat64Row,
       Local(<<100, 65435, 1, 0, 0, 0, 0, 0>>, 48),
       Local(<<256, 0, 0, 0, 0, 0, 0, 0>>, 64),
       Local(<<256, 0, 0, 1, 0, 0, 0, 0>>, 64) >>

\* IETF Protocol Assignments, 2001::/23 and what lies in it
ProtocolBlocks6 ==
    << Closed(<<8193, 0, 0, 0, 0, 0, 0, 0>>, 23),
       Unstated(<<8193, 0, 0, 0, 0, 0, 0, 0>>, 32),
       Open(<<8193, 1, 0, 0, 0, 0, 0, 1>>, 128),
       Open(<<8193, 1, 0, 0, 0, 0, 0, 2>>, 128),
       Open(<<8193, 1, 0, 0, 0, 0, 0, 3>>, 128),
       Local(<<8193, 2, 0, 0, 0, 0, 0, 0>>, 48),
       Open(<<8193, 3, 0, 0, 0, 0, 0, 0>>, 32),
       Open(<<8193, 4, 274, 0, 0, 0, 0, 0>>, 48),
       Terminated(<<8193, 16, 0, 0, 0, 0, 0, 0>>, 28),
       Closed(<<8193, 32, 0, 0, 0, 0, 0, 0>>, 28),
       Closed(<<8193, 48, 0, 0, 0, 0, 0, 0>>, 28) >>

OtherBlocks6 ==
    << Closed(<<8193, 3512, 0, 0, 0, 0, 0, 0>>, 32),
       Unstated(<<8194, 0, 0, 0, 0, 0, 0, 0>>, 16),
       Open(<<9760, 79, 32768, 0, 0, 0, 0, 0>>, 48),
       Closed(<<16383, 0, 0, 0, 0, 0, 0, 0>>, 20),
       Closed(<<24320, 0, 0, 0, 0, 0, 0, 0>>, 16),
       Local(<<64512, 0, 0, 0, 0, 0, 0, 0>>, 7),
       Local(<<65152, 0, 0, 0, 0, 0, 0, 0>>, 10) >>

Official6 == TransitionBlocks6 \o ProtocolBlocks6 \o OtherBlocks6
Supplements6 == << Closed(<<65280, 0, 0, 0, 0, 0, 0, 0>>, 8) >>

Combined4 == ToSet(Official4 \o Supplements4)
Combined6 == ToSet(Official6 \o Supplements6)

-----------------------------------------------------------------------------
(* Blocks.  Octets have 8 bits and groups 16.                              *)

\* how many bits of its i-th digit a prefix fixes
Fixed(length, i, bits) ==
    LET rest == length - (i - 1) * bits
    IN IF rest <= 0 THEN 0 ELSE IF rest >= bits THEN bits ELSE rest

InBlock(row, digits, bits) ==
    \A i \in DOMAIN digits :
        LET host == 2^(bits - Fixed(row.length, i, bits))
        IN digits[i] \div host = row.prefix[i] \div host

\* MUTANT: the least specific row wins
MostGeneral(rows, digits, bits) ==
    LET matching == {r \in rows : InBlock(r, digits, bits)}
    IN {r \in matching : \A s \in matching : r.length <= s.length}

\* the rows that remain when the matching ones are sorted by length: one, or none
MostSpecific(rows, digits, bits) ==
    LET matching == {r \in rows : InBlock(r, digits, bits)}
    IN {r \in matching : \A s \in matching : s.length <= r.length}

MayReach(row) == row.active /\ row.destination /\ row.global = "true"

\* validateRegistrySnapshotIntegrity: it throws while the module loads
SnapshotIntegrity ==
    /\ Len(Official4) = 26 /\ Len(Official6) = 25
    /\ \A rows \in {Official4 \o Supplements4, Official6 \o Supplements6} :
          \A i, j \in DOMAIN rows :
             i # j => <<rows[i].prefix, rows[i].length>> # <<rows[j].prefix, rows[j].length>>

\* The self-check compares the texts of prefixes.  What the classification needs is that no
\* two rows are one block and that a block starts at its prefix.
BlocksAreSound(rows, bits) ==
    /\ \A r, s \in rows : r.length = s.length /\ InBlock(r, s.prefix, bits) => r = s
    /\ \A r \in rows : \A i \in DOMAIN r.prefix :
          r.prefix[i] % 2^(bits - Fixed(r.length, i, bits)) = 0

ASSUME SnapshotAssumption ==
    SnapshotIntegrity /\ BlocksAreSound(Combined4, 8) /\ BlocksAreSound(Combined6, 16)

-----------------------------------------------------------------------------
(* Classification.                                                         *)

\* classifyIPv4Address: what no row matches is public
Judged4(octets) == \A r \in MostSpecific(Combined4, octets, 8) : MayReach(r)

\* the last two groups as octets
Octets(high, low) == <<high \div 256, high % 256, low \div 256, low % 256>>
Embedded(groups) == Octets(groups[7], groups[8])

\* MUTANT: an address no row matches is public, as for IPv4
Judged6OrPublic(groups) ==
    \A r \in MostSpecific(Combined6, groups, 16) :
       IF r = Nat64Row THEN Judged4(Embedded(groups)) ELSE MayReach(r)

\* classifyIPv6Address: without a row 2000::/3 alone is public
Judged6(groups) ==
    LET best == MostSpecific(Combined6, groups, 16)
    IN IF best = {} THEN groups[1] \div 8192 = 1
       ELSE \A r \in best : IF r = Nat64Row THEN Judged4(Embedded(groups)) ELSE MayReach(r)

Judged(digits) == IF Len(digits) = 4 THEN Judged4(digits) ELSE Judged6(digits)

-----------------------------------------------------------------------------
(* What an address stands for, for the properties.                         *)

\* the IPv4 addresses that the standard forms carry: mapped, NAT64 and local NAT64, 6to4, and
\* Teredo's server and its client, whose bits are inverted
Stowed(groups) ==
    LET starts(prefix) == SubSeq(groups, 1, Len(prefix)) = prefix
    IN (IF \/ starts(<<0, 0, 0, 0, 0, 65535>>) \/ starts(<<100, 65435, 0, 0, 0, 0>>)
           \/ starts(<<100, 65435, 1>>)
        THEN {Embedded(groups)} ELSE {})
       \cup (IF starts(<<8194>>) THEN {Octets(groups[2], groups[3])} ELSE {})
       \cup (IF starts(<<8193, 0>>)
             THEN {Octets(groups[3], groups[4]), Octets(65535 - groups[7], 65535 - groups[8])} ELSE {})

\* A row that forbids the address gives way only to one within it that allows it; without any
\* row an IPv6 address is in 2000::/3.
Overruled(rows, digits, bits) ==
    \A r \in rows : InBlock(r, digits, bits) /\ ~MayReach(r) =>
        \E s \in rows : /\ s.length > r.length /\ MayReach(s)
                        /\ InBlock(s, digits, bits) /\ InBlock(r, s.prefix, bits)

\* No way of writing an IPv4 address into an IPv6 one reaches what the IPv4 address may not.
NoBypass(digits) ==
    IF Len(digits) = 4 THEN Overruled(Combined4, digits, 8)
    ELSE /\ Overruled(Combined6, digits, 16)
         /\ \A octets \in Stowed(digits) : Overruled(Combined4, octets, 8)
         /\ \/ digits[1] \in 8192 .. 16383
            \/ \E r \in Combined6 : InBlock(r, digits, 16) /\ MayReach(r)
=============================================================================
