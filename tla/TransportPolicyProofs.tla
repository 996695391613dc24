------------------------ MODULE TransportPolicyProofs ------------------------
(***************************************************************************)
(* Proofs about TransportPolicy for every pair of widths, every table of   *)
(* special-purpose records, and every set of inputs.                       *)
(*                                                                         *)
(* For addresses the heart is ForbiddenIsOverruled: the record with the    *)
(* longest prefix exists, so that where it allows an address a forbidding  *)
(* one is overruled by a more specific one.  For paths it is what the      *)
(* passes so far have not seen (PassesSawNothing): an octet or a slash     *)
(* that is encoded shows in the pass before the one that decodes it.       *)
(*                                                                         *)
(* The second half is about every address of the code's own registries and *)
(* every text of an address: SpecificDecides for the digits of an address, *)
(* ReachedCarriesNone for the rows that let one through, and for the texts *)
(* LongestRunIsFound (the scan) and FormattedReads (the way back).         *)
(***************************************************************************)
EXTENDS TransportPolicy, FiniteSetTheorems, SequenceTheorems, WellFoundedInduction, TLAPS

(* The texts of the question's records that may be reached, as they are approved. *)
Reachable == {Approving(t) : t \in {u \in {question[i].text : i \in DOMAIN question} : Allowed(u)}}

ApprovedAreReachable == asked = "records" => index \in Nat /\ approved \in Seq(Reachable)

(* No pass over the path has shown anything to refuse. *)
PassesSawNothing ==
    asked = "url" /\ verdict \in {"open", "ok"} =>
        /\ index \in 0 .. MaxPasses
        /\ \A pass \in 0 .. index - 1 : ~Shows(question.path, pass)

(* A URL is accepted only when all is decoded. *)
AcceptedIsDecoded == asked = "url" /\ verdict = "ok" => PathEnds(question.path, index)

(* Nothing but an answer about records approves an address. *)
InputsAsked ==
    /\ asked \in {"records", "url", "text", "address"}
    /\ asked = "records" => question \in RecordSets
    /\ asked = "url" => question \in Urls
    /\ asked # "records" => approved = <<>>

IInv == InputsAsked /\ ApprovedAreReachable /\ PassesSawNothing /\ AcceptedIsDecoded

-----------------------------------------------------------------------------
LEMMA MaxExists ==
    ASSUME NEW bound \in Nat, NEW T \in SUBSET (0 .. bound), T # {}
    PROVE  \E x \in T : \A y \in T : y <= x
<1> DEFINE S == 0 .. bound
           Above(x) == {y \in T : y > x}
           D == {Above(x) : x \in T}
           R == StrictSubsetOrdering(S)
<1>1. IsFiniteSet(S)
  BY FS_Interval
<1>2. D \subseteq FiniteSubsetsOf(S) /\ D # {}
  <2>1. \A x \in T : Above(x) \in SUBSET S
    OBVIOUS
  <2>2. \A x \in T : IsFiniteSet(Above(x))
    <3>1. SUFFICES ASSUME NEW x \in T PROVE IsFiniteSet(Above(x))
      OBVIOUS
    <3>2. QED
      BY <1>1, <2>1, FS_Subset, Zenon
  <2>3. QED
    BY <2>1, <2>2 DEF FiniteSubsetsOf
<1>3. PICK d \in D : \A e \in D : ~(<<e, d>> \in R)
  BY <1>2, FS_StrictSubsetOrderingWellFounded, WFMin, Zenon
<1>4. PICK x \in T : d = Above(x)
  OBVIOUS
<1>5. SUFFICES ASSUME NEW y \in T, y > x
               PROVE  FALSE
  BY <1>4
<1>6. Above(y) \subseteq Above(x) /\ Above(y) # Above(x)
  <2>1. y \in Above(x) /\ y \notin Above(y)
    BY <1>5
  <2>2. \A z \in T : z > y => z > x
    BY <1>5
  <2>3. QED
    BY <2>1, <2>2
<1>7. <<Above(y), d>> \in R
  BY <1>4, <1>6 DEF StrictSubsetOrdering
<1>8. QED
  BY <1>3, <1>7

(* Where all of the longest records that cover a number allow it, each that forbids it is
   overruled. *)
LEMMA ForbiddenIsOverruled ==
    ASSUME NEW records, NEW width \in Nat, NEW number,
           \A r \in records : r.length \in 0 .. width,
           \A r \in Longest(records, number, width) : Effective(r)
    PROVE  Unforbidden(number, records, width)
<1> SUFFICES ASSUME NEW r \in records, Covers(r, number, width), ~Effective(r)
             PROVE  \E s \in records : s.length > r.length /\ Covers(s, number, width) /\ Effective(s)
  BY DEF Unforbidden
<1> DEFINE T == {s.length : s \in {q \in records : Covers(q, number, width)}}
<1>1. T \in SUBSET (0 .. width) /\ r.length \in T
  OBVIOUS
<1>2. PICK l \in T : \A m \in T : m <= l
  BY <1>1, MaxExists
<1>3. PICK s \in records : Covers(s, number, width) /\ s.length = l
  OBVIOUS
<1>4. s \in Longest(records, number, width)
  BY <1>2, <1>3 DEF Longest
<1>5. Effective(s)
  BY <1>4
<1>6. r.length # s.length
  <2>1. SUFFICES ASSUME r.length = s.length PROVE FALSE
    OBVIOUS
  <2>2. r \in Longest(records, number, width)
    BY <1>2, <1>3, <2>1 DEF Longest
  <2>3. QED
    BY <2>2
<1>7. r.length <= s.length
  BY <1>1, <1>2, <1>3
<1>8. QED
  BY <1>3, <1>5, <1>6, <1>7

LEMMA Allowed4IsUnforbidden ==
    ASSUME NEW number, Allowed4(number)
    PROVE  Unforbidden(number, Records4, Width4)
BY ForbiddenIsOverruled, PolicyAssumption, RegistriesAssumption DEF Allowed4

(* An address of 64:ff9b::/96 is judged by the IPv4 address it carries. *)
LEMMA Nat64IsJudgedInside ==
    ASSUME NEW number \in 0 .. 2^Width6 - 1, number \div 2^Width4 = Nat64Prefix, AllowedHex(number)
    PROVE  Allowed4(Inner(number))
<1> DEFINE T == {s.length : s \in {q \in Records6 : Covers(q, number, Width6)}}
<1>1. PICK r \in Records6 : IsNat64(r)
  BY RegistriesAssumption
<1>2. Width6 - (Width6 - Width4) = Width4
  BY PolicyAssumption
<1>3. Covers(r, number, Width6) /\ r.length \in T
  BY <1>1, <1>2 DEF Covers, IsNat64
<1>4. T \in SUBSET (0 .. Width6)
  BY RegistriesAssumption
<1>5. PICK l \in T : \A m \in T : m <= l
  BY <1>3, <1>4, MaxExists, PolicyAssumption
<1>6. PICK s \in Records6 : Covers(s, number, Width6) /\ s.length = l
  OBVIOUS
<1>7. s \in Longest(Records6, number, Width6)
  BY <1>5, <1>6 DEF Longest
<1>8. s.length <= Width6 - Width4
  BY <1>6, RegistriesAssumption
<1>9. s.length = Width6 - Width4
  <2>1. s.length \in Nat /\ Width6 - Width4 \in Nat
    BY <1>6, RegistriesAssumption, PolicyAssumption
  <2>2. r.length = Width6 - Width4 /\ r.length \in T
    BY <1>1, <1>3 DEF IsNat64
  <2>3. Width6 - Width4 <= s.length
    BY <2>2, <1>5, <1>6
  <2>4. QED
    BY <2>1, <2>3, <1>8
<1>10. IsNat64(s)
  BY <1>2, <1>6, <1>9 DEF IsNat64, Covers
<1>11. QED
  BY <1>7, <1>10 DEF AllowedHex

-----------------------------------------------------------------------------
LEMMA InitIInv == Init => IInv
<1> SUFFICES ASSUME Init PROVE IInv
  OBVIOUS
<1>1. index = 0 /\ approved = <<>> /\ verdict = "open"
  BY DEF Init
<1>2. InputsAsked
  BY <1>1 DEF Init, InputsAsked
<1>3. approved \in Seq(Reachable)
  BY <1>1
<1>4. index \in 0 .. MaxPasses /\ 0 .. index - 1 = {}
  BY <1>1, PolicyAssumption
<1>5. QED
  BY <1>1, <1>2, <1>3, <1>4 DEF IInv, ApprovedAreReachable, PassesSawNothing, AcceptedIsDecoded

(* What a text is rewritten to. *)
LEMMA NormalizedText ==
    ASSUME NEW text \in [form : Forms, number : Nat]
    PROVE  Normalized(text) = Approving(text) /\ Normalized(text) \in [form : Forms, number : Nat]
<1>1. \A form \in Forms : [text EXCEPT !.form = form] = [form |-> form, number |-> text.number]
  OBVIOUS
<1>2. "rewritten" \in Forms
  BY DEF Forms
<1>3. QED
  BY <1>1, <1>2 DEF Normalized, Approving

LEMMA InsertKeepsElements ==
    ASSUME NEW S, NEW sorted \in Seq(S), NEW text \in S
    PROVE  Insert(sorted, text) \in Seq(S)
<1> DEFINE after == {i \in DOMAIN sorted : ~Before(text, sorted[i])}
           place == IF after = {} THEN 0 ELSE CHOOSE i \in after : \A j \in after : j <= i
<1>1. after \in SUBSET (0 .. Len(sorted)) /\ after \subseteq 1 .. Len(sorted) /\ Len(sorted) \in Nat
  OBVIOUS
<1>2. place \in 0 .. Len(sorted)
  <2>1. CASE after = {}
    BY <1>1, <2>1
  <2>2. CASE after # {}
    <3>1. \E x \in after : \A y \in after : y <= x
      BY <1>1, <2>2, MaxExists
    <3>2. place \in after
      BY <2>2, <3>1
    <3>3. QED
      BY <1>1, <3>2
  <2>3. QED
    BY <2>1, <2>2
<1>3. Insert(sorted, text) = InsertAt(sorted, place + 1, text)
  BY DEF Insert
<1>4. ASSUME NEW p \in 0 .. Len(sorted)
      PROVE  InsertAt(sorted, p + 1, text) \in Seq(S)
  <2>1. (p + 1) - 1 = p
    OBVIOUS
  <2>2. SubSeq(sorted, 1, p) \in Seq(S) /\ SubSeq(sorted, p + 1, Len(sorted)) \in Seq(S)
    BY SubSeqProperties
  <2>3. QED
    BY <2>1, <2>2 DEF InsertAt
<1>5. QED
  BY <1>2, <1>3, <1>4

LEMMA RecordsKeepIInv ==
    ASSUME IInv, RefuseSet \/ TakeRecord \/ FinishSet
    PROVE  IInv'
<1> USE DEF IInv, InputsAsked, ApprovedAreReachable, PassesSawNothing, AcceptedIsDecoded, Reachable
<1>1. CASE RefuseSet
  BY <1>1 DEF RefuseSet, Close
<1>2. CASE TakeRecord
  <2>1. asked = "records" /\ question \in RecordSets /\ index \in Nat /\ index < Len(question)
    BY <1>2 DEF TakeRecord
  <2>2. index + 1 \in DOMAIN question
    BY <2>1, InputsAssumption
  <2>3. CASE RecordError(question[index + 1]) # "ok"
    BY <1>2, <2>3 DEF TakeRecord, Close
  <2>4. CASE RecordError(question[index + 1]) = "ok"
    <3>1. Normalized(question[index + 1].text) \in Reachable
      <4>1. Allowed(question[index + 1].text)
        BY <2>4 DEF RecordError
      <4>2. question[index + 1].text \in [form : Forms, number : Nat]
        BY <2>1, <2>2, InputsAssumption
      <4>3. QED
        BY <2>2, <4>1, <4>2, NormalizedText
    <3>2. Approve(question[index + 1])
      BY <1>2, <2>4 DEF TakeRecord
    <3>3. approved' \in Seq(Reachable)
      BY <2>1, <3>1, <3>2, InsertKeepsElements DEF Approve
    <3>4. question' = question /\ asked' = asked /\ index' \in Nat
      BY <2>1, <3>2 DEF Approve
    <3>5. QED
      BY <2>1, <3>3, <3>4
  <2>5. QED
    BY <2>3, <2>4
<1>3. CASE FinishSet
  BY <1>3 DEF FinishSet, Close
<1>4. QED
  BY <1>1, <1>2, <1>3

LEMMA UrlKeepsIInv ==
    ASSUME IInv, RefuseUrl \/ DecodePass \/ FinishUrl \/ ParseText \/ JudgeAddress
    PROVE  IInv'
<1> USE DEF IInv, InputsAsked, ApprovedAreReachable, PassesSawNothing, AcceptedIsDecoded
<1>1. CASE RefuseUrl
  <2>1. verdict' # "ok" /\ verdict' # "open" /\ asked = "url" /\ UNCHANGED <<question, asked, approved>>
    BY <1>1 DEF RefuseUrl, Close, AuthorityVerdict
  <2>2. QED
    BY <2>1
<1>2. CASE DecodePass
  <2>1. asked = "url" /\ verdict = "open" /\ index \in 0 .. MaxPasses /\ index < MaxPasses
    BY <1>2 DEF DecodePass
  <2>2. CASE Close("endpoint_invalid")
    BY <2>1, <2>2 DEF Close
  <2>3. CASE ~Shows(question.path, index) /\ index' = index + 1 /\ UNCHANGED <<question, asked, approved, minTtl, verdict>>
    <3>1. index' \in 0 .. MaxPasses
      BY <2>1, <2>3, PolicyAssumption
    <3>2. ASSUME NEW pass \in 0 .. index' - 1
          PROVE  ~Shows(question.path, pass)
      <4>1. pass \in 0 .. index - 1 \/ pass = index
        BY <2>1, <2>3
      <4>2. QED
        BY <2>1, <2>3, <4>1
    <3>3. QED
      BY <2>1, <2>3, <3>1, <3>2
  <2>4. QED
    BY <1>2, <2>2, <2>3 DEF DecodePass
<1>3. CASE FinishUrl
  <2>1. asked = "url" /\ verdict = "open"
    BY <1>3 DEF FinishUrl
  <2>2. UNCHANGED <<question, asked, index, approved>>
    BY <1>3 DEF FinishUrl, Close
  <2>3. verdict' = "ok" => PathEnds(question.path, index)
    BY <1>3 DEF FinishUrl, Close
  <2>4. QED
    BY <2>1, <2>2, <2>3
<1>4. CASE ParseText
  BY <1>4 DEF ParseText, Close
<1>5. CASE JudgeAddress
  BY <1>5 DEF JudgeAddress, Close
<1>6. QED
  BY <1>1, <1>2, <1>3, <1>4, <1>5

(* What holds throughout: nothing has been approved that the policy does not let through, and
   no pass over a path has gone on over something it should have refused. *)
THEOREM Inductive == Spec => []IInv
<1>1. IInv /\ [Next]_vars => IInv'
  <2>1. SUFFICES ASSUME IInv, [Next]_vars PROVE IInv'
    OBVIOUS
  <2>2. CASE RefuseSet \/ TakeRecord \/ FinishSet
    BY <2>1, <2>2, RecordsKeepIInv
  <2>3. CASE RefuseUrl \/ DecodePass \/ FinishUrl \/ ParseText \/ JudgeAddress
    BY <2>1, <2>3, UrlKeepsIInv
  <2>4. CASE UNCHANGED vars
    BY <2>1, <2>4 DEF vars, IInv, InputsAsked, ApprovedAreReachable, PassesSawNothing, AcceptedIsDecoded, Reachable
  <2>5. QED
    BY <2>1, <2>2, <2>3, <2>4 DEF Next
<1>2. QED
  BY InitIInv, <1>1, PTL DEF Spec

-----------------------------------------------------------------------------
LEMMA ReachableCarriesAllowed ==
    ASSUME NEW text, text.form = "hex" => text.number \in 0 .. 2^Width6 - 1, Allowed(text),
           NEW n \in Carried(text)
    PROVE  Unforbidden(n, Records4, Width4)
<1>0. text.form # "rewritten"
  BY DEF Allowed
<1>1. CASE text.form \in {"mapped", "nat64", "dotted"}
  <2>1. n = text.number
    BY <1>1 DEF Carried
  <2>2. Allowed4(n)
    BY <1>1, <2>1 DEF Allowed
  <2>3. QED
    BY <2>2, Allowed4IsUnforbidden
<1>2. CASE text.form = "hex"
  <2>1. text.number \div 2^Width4 = Nat64Prefix /\ n = Inner(text.number)
    BY <1>2 DEF Carried
  <2>2. AllowedHex(text.number)
    BY <1>2 DEF Allowed
  <2>3. QED
    BY <1>2, <2>1, <2>2, Nat64IsJudgedInside, Allowed4IsUnforbidden
<1>3. QED
  BY <1>0, <1>1, <1>2 DEF Carried

(* The approved text carries what the resolved one does. *)
LEMMA ApprovingCarries ==
    ASSUME NEW text \in [form : Forms, number : Nat]
    PROVE  Carried(Approving(text)) = Carried(text)
<1>1. CASE text.form = "nat64"
  BY <1>1 DEF Carried, Approving
<1>2. CASE text.form # "nat64"
  BY <1>2 DEF Approving
<1>3. QED
  BY <1>1, <1>2

(* An address that carries an IPv4 address, in whichever of its text forms, is approved only
   if nothing forbids the address it carries: for all widths and all registries. *)
THEOREM CarriedAlwaysAllowed == Spec => []CarriedIsAllowed
<1>1. IInv => CarriedIsAllowed
  <2>1. SUFFICES ASSUME IInv, NEW t \in ToSet(approved), NEW n \in Carried(t)
                 PROVE  Unforbidden(n, Records4, Width4)
    BY DEF CarriedIsAllowed
  <2>2. asked = "records"
    BY <2>1 DEF IInv, InputsAsked, ToSet
  <2>3. t \in Reachable
    BY <2>1, <2>2 DEF IInv, ApprovedAreReachable, ToSet
  <2>4. PICK i \in DOMAIN question : t = Approving(question[i].text) /\ Allowed(question[i].text)
    BY <2>3 DEF Reachable
  <2>5. /\ question[i].text \in [form : Forms, number : Nat]
        /\ question[i].text.form = "hex" => question[i].text.number \in 0 .. 2^Width6 - 1
    BY <2>1, <2>2, InputsAssumption DEF IInv, InputsAsked
  <2>6. n \in Carried(question[i].text)
    BY <2>1, <2>4, <2>5, ApprovingCarries
  <2>7. QED
    BY <2>4, <2>5, <2>6, ReachableCarriesAllowed
<1>2. QED
  BY <1>1, Inductive, PTL

(* A character encoded so often that the last pass has decoded it showed, encoded once, in an
   earlier pass. *)
LEMMA EncodedShows ==
    ASSUME NEW path, NEW passes \in Nat, NEW i \in DOMAIN path,
           path[i].depth \in Nat, path[i].depth > 0,
           path[i].char \in {"/", "\\", "NUL", "octet"},
           ~Encoded(path, passes)
    PROVE  \E pass \in 0 .. passes - 1 : Shows(path, pass)
<1>1. path[i].depth <= passes
  BY DEF Encoded, Depth
<1>2. path[i].depth - 1 \in 0 .. passes - 1
  BY <1>1
<1>3. Depth(path[i], path[i].depth - 1) = 1
  BY DEF Depth
<1>4. QED
  BY <1>2, <1>3 DEF Shows

(* A path that is accepted hides nothing, however often its parts are encoded. *)
THEOREM AcceptedPathAlwaysPlain == Spec => []AcceptedPathIsPlain
<1>1. IInv => AcceptedPathIsPlain
  <2> DEFINE path == question.path
  <2>1. SUFFICES ASSUME IInv, asked = "url", verdict = "ok"
                 PROVE  /\ \A i \in DOMAIN path : /\ path[i].char \notin {"\\", "control", "NUL", "octet"}
                                                  /\ path[i].char = "/" => path[i].depth = 0
                                                  /\ path[i].depth <= MaxPasses
                        /\ \A i \in 1 .. Len(path) - 1 : path[i].char # "." \/ path[i + 1].char # "."
    BY DEF AcceptedPathIsPlain
  <2>2. /\ index \in 0 .. MaxPasses /\ MaxPasses \in Nat
        /\ \A pass \in 0 .. index - 1 : ~Shows(path, pass)
        /\ ~Encoded(path, index)
        /\ \A i \in DOMAIN path : path[i].char \notin {"\\", "control", "NUL"}
        /\ ~Traversal(path, index)
    BY <2>1, PolicyAssumption DEF IInv, PassesSawNothing, AcceptedIsDecoded, PathEnds
  <2>3. question \in Urls
    BY <2>1 DEF IInv, InputsAsked
  <2>4. /\ DOMAIN path = 1 .. Len(path) /\ Len(path) \in Nat
        /\ \A i \in DOMAIN path : path[i].depth \in Nat
        /\ \A i \in DOMAIN path : path[i].char = "octet" => path[i].depth > 0
    BY <2>3, InputsAssumption
  <2>5. \A i \in DOMAIN path : path[i].depth <= index
    BY <2>2, <2>4 DEF Encoded, Depth
  <2>6. ASSUME NEW i \in DOMAIN path
        PROVE  path[i].char # "octet" /\ (path[i].char = "/" => path[i].depth = 0)
    BY <2>2, <2>4, EncodedShows
  <2>7. ASSUME NEW i \in 1 .. Len(path) - 1, path[i].char = ".", path[i + 1].char = "."
        PROVE  FALSE
    <3>1. i \in DOMAIN path /\ i + 1 \in DOMAIN path
      BY <2>4
    <3>2. Depth(path[i], index) = 0 /\ Depth(path[i + 1], index) = 0
      BY <2>2, <2>4, <2>5, <3>1 DEF Depth
    <3>3. QED
      BY <2>2, <2>7, <3>1, <3>2 DEF Traversal
  <2>8. QED
    BY <2>2, <2>4, <2>5, <2>6, <2>7
<1>2. QED
  BY <1>1, Inductive, PTL
-----------------------------------------------------------------------------
(* The set that is approved.                                                *)

(* A sequence is another one with an element more, put behind the first p. *)
Inserted(t, s, p, e) ==
    /\ Len(t) = Len(s) + 1
    /\ \A i \in 1 .. p : t[i] = s[i]
    /\ t[p + 1] = e
    /\ \A i \in p + 1 .. Len(s) : t[i + 1] = s[i]

LEMMA InsertAtElements ==
    ASSUME NEW S, NEW s \in Seq(S), NEW e \in S, NEW p \in 0 .. Len(s),
           NEW t, t = InsertAt(s, p + 1, e)
    PROVE  t \in Seq(S) /\ Inserted(t, s, p, e)
<1>1. PICK m \in Nat : m = Len(s)
  OBVIOUS
<1>2. PICK front : front = SubSeq(s, 1, p)
  OBVIOUS
<1>3. PICK back : back = SubSeq(s, p + 1, m)
  OBVIOUS
<1>4. PICK mid : mid = <<e>>
  OBVIOUS
<1>5. \A i \in 1 .. m : s[i] \in S
  BY <1>1, ElementOfSeq
<1>6. front \in Seq(S) /\ Len(front) = p /\ \A i \in 1 .. p : front[i] = s[i]
  <2>1. \A i \in 1 .. p : s[i] \in S
    BY <1>1, <1>5
  <2>2. /\ SubSeq(s, 1, p) \in Seq(S)
        /\ Len(SubSeq(s, 1, p)) = IF 1 <= p THEN p - 1 + 1 ELSE 0
        /\ \A i \in 1 .. p - 1 + 1 : SubSeq(s, 1, p)[i] = s[1 + i - 1]
    BY <2>1, SubSeqProperties
  <2>3. QED
    BY <1>1, <1>2, <2>2
<1>7. back \in Seq(S) /\ Len(back) = m - p /\ \A i \in 1 .. m - p : back[i] = s[p + i]
  <2>1. \A i \in p + 1 .. m : s[i] \in S
    BY <1>1, <1>5
  <2>2. /\ SubSeq(s, p + 1, m) \in Seq(S)
        /\ Len(SubSeq(s, p + 1, m)) = IF p + 1 <= m THEN m - (p + 1) + 1 ELSE 0
        /\ \A i \in 1 .. m - (p + 1) + 1 : SubSeq(s, p + 1, m)[i] = s[p + 1 + i - 1]
    BY <1>1, <2>1, SubSeqProperties
  <2>3. m - (p + 1) + 1 = m - p /\ \A i \in 1 .. m - p : p + 1 + i - 1 = p + i
    BY <1>1
  <2>4. QED
    BY <1>1, <1>3, <2>2, <2>3
<1>8. PICK head : head = front \o mid
  OBVIOUS
<1>9. /\ head \in Seq(S) /\ Len(head) = p + 1
      /\ \A i \in 1 .. p + 1 : head[i] = IF i <= p THEN front[i] ELSE mid[i - p]
  <2>1. mid \in Seq(S) /\ Len(mid) = 1
    BY <1>4
  <2>2. /\ (front \o mid) \in Seq(S) /\ Len(front \o mid) = Len(front) + Len(mid)
        /\ \A i \in 1 .. Len(front) + Len(mid) :
              (front \o mid)[i] = IF i <= Len(front) THEN front[i] ELSE mid[i - Len(front)]
    BY <1>6, <2>1, ConcatProperties
  <2>3. QED
    BY <1>6, <1>8, <2>1, <2>2
<1>10. t = head \o back
  <2>1. (p + 1) - 1 = p
    BY <1>1
  <2>2. QED
    BY <1>1, <1>2, <1>3, <1>4, <1>8, <2>1 DEF InsertAt
<1>11. /\ t \in Seq(S) /\ Len(t) = m + 1
       /\ \A i \in 1 .. m + 1 : t[i] = IF i <= p + 1 THEN head[i] ELSE back[i - (p + 1)]
  <2>1. /\ (head \o back) \in Seq(S) /\ Len(head \o back) = Len(head) + Len(back)
        /\ \A i \in 1 .. Len(head) + Len(back) :
              (head \o back)[i] = IF i <= Len(head) THEN head[i] ELSE back[i - Len(head)]
    BY <1>7, <1>9, ConcatProperties
  <2>2. Len(head) + Len(back) = m + 1
    BY <1>1, <1>7, <1>9
  <2>3. QED
    BY <1>9, <1>10, <2>1, <2>2
<1>12. \A i \in 1 .. p : t[i] = s[i]
  BY <1>1, <1>6, <1>9, <1>11
<1>13. t[p + 1] = e
  <2>1. p + 1 \in 1 .. m + 1 /\ p + 1 - p = 1 /\ p + 1 \in 1 .. p + 1 /\ ~(p + 1 <= p)
    BY <1>1
  <2>2. t[p + 1] = head[p + 1] /\ head[p + 1] = mid[p + 1 - p]
    BY <1>9, <1>11, <2>1
  <2>3. QED
    BY <1>4, <2>1, <2>2
<1>14. ASSUME NEW i \in p + 1 .. m
       PROVE  t[i + 1] = s[i]
  <2>1. /\ i + 1 \in 1 .. m + 1 /\ ~(i + 1 <= p + 1) /\ i + 1 - (p + 1) = i - p
        /\ i - p \in 1 .. m - p /\ p + (i - p) = i
    BY <1>1
  <2>2. t[i + 1] = back[i - p] /\ back[i - p] = s[p + (i - p)]
    BY <1>7, <1>11, <2>1, SMTT(60)
  <2>3. QED
    BY <2>1, <2>2
<1>15. QED
  BY <1>1, <1>11, <1>12, <1>13, <1>14 DEF Inserted

(* A text is put behind the last it does not stand before. *)
LEMMA InsertPlaces ==
    ASSUME NEW S, NEW s \in Seq(S), NEW e \in S, NEW t, t = Insert(s, e)
    PROVE  \E p \in 0 .. Len(s) :
              /\ t \in Seq(S) /\ Inserted(t, s, p, e)
              /\ p > 0 => ~Before(e, s[p])
              /\ \A i \in p + 1 .. Len(s) : Before(e, s[i])
<1> DEFINE after == {i \in DOMAIN s : ~Before(e, s[i])}
           place == IF after = {} THEN 0 ELSE CHOOSE i \in after : \A j \in after : j <= i
<1>1. after \in SUBSET (0 .. Len(s)) /\ after \subseteq 1 .. Len(s) /\ Len(s) \in Nat
  OBVIOUS
<1>2. /\ place \in 0 .. Len(s)
      /\ place > 0 => ~Before(e, s[place])
      /\ \A i \in after : i <= place
  <2>1. CASE after = {}
    BY <1>1, <2>1
  <2>2. CASE after # {}
    <3>1. \E x \in after : \A y \in after : y <= x
      BY <1>1, <2>2, MaxExists
    <3>2. place \in after /\ \A y \in after : y <= place
      BY <2>2, <3>1
    <3>3. QED
      BY <1>1, <3>2
  <2>3. QED
    BY <2>1, <2>2
<1>3. PICK p \in 0 .. Len(s) : p = place
  BY <1>2
<1>4. t = InsertAt(s, p + 1, e)
  BY <1>3 DEF Insert
<1>5. \A i \in p + 1 .. Len(s) : Before(e, s[i])
  BY <1>1, <1>2, <1>3
<1>6. p > 0 => ~Before(e, s[p])
  BY <1>2, <1>3
<1> HIDE DEF after, place
<1>7. t \in Seq(S) /\ Inserted(t, s, p, e)
  BY <1>4, InsertAtElements
<1>8. QED
  BY <1>5, <1>6, <1>7
(* Texts of records. *)
WellFormed(t) == t.form \in Forms /\ t.number \in Nat

(* Among texts that have a number, "before" is an order: by the family, then the number. *)
LEMMA BeforeIsOrder ==
    ASSUME NEW t, WellFormed(t), Keyed(t), NEW u, WellFormed(u), Keyed(u)
    PROVE  /\ Before(t, u) => ~Before(u, t)
           /\ \A v : WellFormed(v) /\ Keyed(v) /\ ~Before(t, v) /\ ~Before(v, u) => ~Before(t, u)
<1>1. MappedPrefix * 2^Width4 \in Nat
  BY PolicyAssumption
<1>2. \A v : WellFormed(v) => Family(v) \in Nat /\ SortKey(v) \in Nat
  BY <1>1 DEF WellFormed, Family, SortKey
<1>3. QED
  BY <1>2 DEF Before

(* None of the texts stands twice, and where all have a number none stands before a lesser
   one. *)
InOrder(s) ==
    /\ \A i, j \in DOMAIN s : i < j => s[i] # s[j]
    /\ (\A i \in DOMAIN s : Keyed(s[i])) => \A i, j \in DOMAIN s : i < j => ~Before(s[j], s[i])

LEMMA InsertKeepsOrder ==
    ASSUME NEW S, \A x \in S : WellFormed(x), NEW s \in Seq(S), NEW e \in S,
           \A i \in DOMAIN s : s[i] # e, InOrder(s), NEW t, t = Insert(s, e)
    PROVE  t \in Seq(S) /\ InOrder(t) /\ ToSet(t) = ToSet(s) \cup {e}
<1>1. PICK p \in 0 .. Len(s) :
              /\ t \in Seq(S) /\ Inserted(t, s, p, e)
              /\ p > 0 => ~Before(e, s[p])
              /\ \A i \in p + 1 .. Len(s) : Before(e, s[i])
  BY InsertPlaces
<1>2. PICK m \in Nat : m = Len(s)
  OBVIOUS
<1>3. /\ DOMAIN s = 1 .. m /\ DOMAIN t = 1 .. m + 1 /\ p \in 0 .. m
      /\ \A i \in 1 .. p : t[i] = s[i]
      /\ t[p + 1] = e
      /\ \A i \in p + 1 .. m : t[i + 1] = s[i]
  BY <1>1, <1>2 DEF Inserted
<1>4. ASSUME NEW i \in DOMAIN t
      PROVE  \/ i \in 1 .. p /\ t[i] = s[i] /\ i \in DOMAIN s
             \/ i = p + 1 /\ t[i] = e
             \/ i - 1 \in p + 1 .. m /\ t[i] = s[i - 1] /\ i - 1 \in DOMAIN s
  <2>1. i \in 1 .. p \/ i = p + 1 \/ (i - 1 \in p + 1 .. m /\ (i - 1) + 1 = i)
    BY <1>3
  <2>2. QED
    BY <1>3, <2>1
<1>5. ASSUME NEW i \in DOMAIN t, NEW j \in DOMAIN t, i < j
      PROVE  t[i] # t[j]
  BY <1>3, <1>4, <1>5, SMTT(60) DEF InOrder
<1>6. ASSUME \A i \in DOMAIN t : Keyed(t[i]), NEW i \in DOMAIN t, NEW j \in DOMAIN t, i < j
      PROVE  ~Before(t[j], t[i])
  <2>1. \A k \in DOMAIN s : \E l \in DOMAIN t : t[l] = s[k]
    <3>1. SUFFICES ASSUME NEW k \in DOMAIN s PROVE \E l \in DOMAIN t : t[l] = s[k]
      OBVIOUS
    <3>2. CASE k <= p
      <4>1. k \in DOMAIN t /\ t[k] = s[k]
        BY <1>3, <3>2
      <4>2. QED
        BY <4>1
    <3>3. CASE k > p
      <4>1. k + 1 \in DOMAIN t /\ t[k + 1] = s[k]
        BY <1>3, <3>3
      <4>2. QED
        BY <4>1
    <3>4. QED
      BY <1>3, <3>2, <3>3
  <2>2. \A k \in DOMAIN s : Keyed(s[k]) /\ WellFormed(s[k])
    BY <1>6, <2>1
  <2>3. Keyed(e) /\ WellFormed(e)
    BY <1>3, <1>6, SMTT(60)
  <2>4. \A k, l \in DOMAIN s : k < l => ~Before(s[l], s[k])
    BY <2>2 DEF InOrder
  <2>5. CASE i # p + 1 /\ j # p + 1
    BY <1>3, <1>4, <1>6, <2>4, <2>5, SMTT(60)
  <2>6. CASE i = p + 1
    <3>1. j - 1 \in p + 1 .. m /\ t[j] = s[j - 1] /\ j - 1 \in DOMAIN s /\ t[i] = e
      BY <1>3, <1>4, <1>6, <2>6
    <3>2. Before(e, s[j - 1])
      BY <1>1, <1>2, <3>1
    <3>3. QED
      BY <2>2, <2>3, <3>1, <3>2, BeforeIsOrder
  <2>7. CASE j = p + 1
    <3>1. i \in 1 .. p /\ t[i] = s[i] /\ t[j] = e /\ i \in DOMAIN s /\ p \in DOMAIN s
      BY <1>3, <1>4, <1>6, <2>7
    <3>2. ~Before(e, s[p])
      BY <1>1, <3>1
    <3>3. i = p \/ ~Before(s[p], s[i])
      BY <2>4, <3>1
    <3>4. QED
      BY <2>2, <2>3, <3>1, <3>2, <3>3, BeforeIsOrder
  <2>8. QED
    BY <2>5, <2>6, <2>7
<1>7. ASSUME NEW x
      PROVE  (\E i \in DOMAIN t : t[i] = x) <=> x = e \/ \E i \in DOMAIN s : s[i] = x
  <2>1. CASE \E i \in DOMAIN t : t[i] = x
    BY <1>4, <2>1
  <2>2. CASE x = e
    BY <1>3, <2>2
  <2>3. ASSUME NEW k \in DOMAIN s, s[k] = x
        PROVE  \E i \in DOMAIN t : t[i] = x
    <3>2. CASE k <= p
      <4>1. k \in DOMAIN t /\ t[k] = s[k]
        BY <1>3, <3>2
      <4>2. QED
        BY <2>3, <4>1
    <3>3. CASE k > p
      <4>1. k + 1 \in DOMAIN t /\ t[k + 1] = s[k]
        BY <1>3, <3>3
      <4>2. QED
        BY <2>3, <4>1
    <3>4. QED
      BY <1>3, <3>2, <3>3
  <2>4. QED
    BY <2>1, <2>2, <2>3
<1>8. ToSet(t) = ToSet(s) \cup {e}
  <2>1. \A x : x \in ToSet(t) <=> \E i \in DOMAIN t : t[i] = x
    BY DEF ToSet
  <2>2. \A x : x \in ToSet(s) <=> \E i \in DOMAIN s : s[i] = x
    BY DEF ToSet
  <2>3. \A x : x \in ToSet(t) <=> x = e \/ x \in ToSet(s)
    BY <1>7, <2>1, <2>2, ZenonT(60)
  <2>4. QED
    BY <2>3
<1>9. QED
  BY <1>1, <1>5, <1>6, <1>8 DEF InOrder
(* The approved texts are in order, and they are those of the records taken so far: all of
   them when the set is accepted. *)
TakenAreApproved ==
    asked = "records" =>
        /\ InOrder(approved)
        /\ verdict \in {"open", "ok"} =>
              /\ index \in 0 .. Len(question)
              /\ ToSet(approved) = {Approving(question[i].text) : i \in 1 .. index}
        /\ verdict = "ok" => index = Len(question)

LEMMA InitTaken == Init => TakenAreApproved
<1> SUFFICES ASSUME Init, asked = "records"
             PROVE  /\ InOrder(approved) /\ verdict = "open" /\ index \in 0 .. Len(question)
                    /\ DOMAIN approved = {} /\ 1 .. index = {}
  BY DEF TakenAreApproved, ToSet
<1>1. question \in RecordSets
  BY DEF Init
<1>2. approved = <<>> /\ DOMAIN approved = {}
  BY DEF Init
<1>3. QED
  BY <1>1, <1>2, InputsAssumption DEF Init, InOrder

LEMMA ApproveKeepsTaken ==
    ASSUME IInv, TakenAreApproved, asked = "records", verdict = "open", index < Len(question),
           Approve(question[index + 1]), Allowed(question[index + 1].text)
    PROVE  TakenAreApproved'
<1>1. /\ question \in RecordSets /\ approved \in Seq(Reachable) /\ InOrder(approved)
      /\ index \in 0 .. Len(question)
      /\ ToSet(approved) = {Approving(question[i].text) : i \in 1 .. index}
  BY DEF IInv, InputsAsked, ApprovedAreReachable, TakenAreApproved
<1>2. PICK e : e = Approving(question[index + 1].text)
  OBVIOUS
<1>3. PICK n : n = index + 1
  OBVIOUS
<1>4. /\ n \in 1 .. Len(question) /\ n \in DOMAIN question /\ n \in Nat /\ index = n - 1
      /\ Len(question) \in Nat /\ e = Approving(question[n].text)
      /\ ToSet(approved) = {Approving(question[i].text) : i \in 1 .. n - 1}
  BY <1>1, <1>2, <1>3, InputsAssumption
<1>5. e \in Reachable /\ \A x \in Reachable : WellFormed(x)
  <2>1. \A i \in DOMAIN question : question[i].text \in [form : Forms, number : Nat]
    BY <1>1, InputsAssumption
  <2>2. \A i \in DOMAIN question : WellFormed(Approving(question[i].text))
    BY <2>1, NormalizedText DEF WellFormed
  <2>3. QED
    BY <1>2, <1>3, <1>4, <2>2 DEF Reachable
<1>6. /\ index' = n /\ question' = question /\ verdict' = "open" /\ asked' = "records"
      /\ approved' = IF e \in ToSet(approved) THEN approved ELSE Insert(approved, e)
  <2>1. e = Normalized(question[index + 1].text)
    BY <1>1, <1>2, <1>3, <1>4, InputsAssumption, NormalizedText
  <2>2. QED
    BY <1>3, <2>1 DEF Approve
<1>7. PICK t : t = approved'
  OBVIOUS
<1>8. InOrder(t) /\ ToSet(t) = ToSet(approved) \cup {e}
  <2>1. CASE e \in ToSet(approved)
    BY <1>1, <1>6, <1>7, <2>1
  <2>2. CASE e \notin ToSet(approved)
    <3>1. t = Insert(approved, e) /\ \A i \in DOMAIN approved : approved[i] # e
      BY <1>6, <1>7, <2>2 DEF ToSet
    <3>2. PICK S : S = Reachable
      OBVIOUS
    <3>3. PICK s \in Seq(S) : s = approved
      BY <1>1, <3>2
    <3>4. t = Insert(s, e) /\ InOrder(s) /\ e \in S /\ \A i \in DOMAIN s : s[i] # e
      BY <1>1, <1>5, <3>1, <3>2, <3>3
    <3>5. \A x \in S : WellFormed(x)
      BY <1>5, <3>2
    <3>6. InOrder(t) /\ ToSet(t) = ToSet(s) \cup {e}
      BY <3>3, <3>4, <3>5, InsertKeepsOrder
    <3>7. QED
      BY <3>3, <3>6
  <2>3. QED
    BY <2>1, <2>2
<1>9. ToSet(t) = {Approving(question[i].text) : i \in 1 .. n}
  <2>1. 1 .. n = (1 .. n - 1) \cup {n}
    BY <1>4
  <2>2. QED
    BY <1>4, <1>8, <2>1
<1>10. InOrder(approved)'
  BY <1>7, <1>8 DEF InOrder
<1>11. ToSet(approved)' = {Approving(question[i].text) : i \in 1 .. index}'
  <2>1. ToSet(approved)' = ToSet(t)
    BY <1>7 DEF ToSet
  <2>2. {Approving(question[i].text) : i \in 1 .. index}' = {Approving(question[i].text) : i \in 1 .. n}
    BY <1>6
  <2>3. QED
    BY <1>9, <2>1, <2>2
<1>12. index' \in 0 .. Len(question') /\ verdict' # "ok"
  BY <1>4, <1>6
<1>13. QED
  BY <1>10, <1>11, <1>12, Zenon DEF TakenAreApproved

LEMMA NextKeepsTaken ==
    ASSUME IInv, TakenAreApproved, [Next]_vars
    PROVE  TakenAreApproved'
<1>1. ASSUME Close(verdict'), verdict = "open", verdict' = "ok" => asked # "records" \/ index = Len(question)
      PROVE  TakenAreApproved'
  BY <1>1 DEF Close, TakenAreApproved, InOrder, ToSet
<1>2. CASE RefuseSet
  BY <1>1, <1>2 DEF RefuseSet, Close
<1>3. CASE TakeRecord
  <2>1. CASE RecordError(question[index + 1]) = "ok"
    <3>1. Approve(question[index + 1]) /\ Allowed(question[index + 1].text)
      BY <1>3, <2>1 DEF TakeRecord, RecordError
    <3>2. QED
      BY <1>3, <3>1, ApproveKeepsTaken DEF TakeRecord
  <2>2. CASE RecordError(question[index + 1]) # "ok"
    BY <1>1, <1>3, <2>2 DEF TakeRecord, Close
  <2>3. QED
    BY <2>1, <2>2
<1>4. CASE FinishSet
  BY <1>1, <1>4 DEF FinishSet, Close
<1>5. CASE RefuseUrl \/ DecodePass \/ FinishUrl \/ ParseText \/ JudgeAddress
  BY <1>5 DEF RefuseUrl, DecodePass, FinishUrl, ParseText, JudgeAddress, Close, TakenAreApproved, ToSet
<1>6. CASE UNCHANGED vars
  BY <1>6 DEF vars, TakenAreApproved, InOrder, ToSet
<1>7. QED
  BY <1>2, <1>3, <1>4, <1>5, <1>6 DEF Next

(* An address that may be reached and carries no IPv4 address is one that nothing forbids. *)
LEMMA ReachableIsUnforbidden ==
    ASSUME NEW number, number \div 2^Width4 # Nat64Prefix, AllowedHex(number)
    PROVE  Unforbidden(number, Records6, Width6)
<1>1. \A r \in Longest(Records6, number, Width6) : ~IsNat64(r)
  <2>1. Width6 - (Width6 - Width4) = Width4
    BY PolicyAssumption
  <2>2. QED
    BY <2>1 DEF Longest, Covers, IsNat64
<1>2. \A r \in Longest(Records6, number, Width6) : Effective(r)
  BY <1>1 DEF AllowedHex
<1>3. QED
  BY <1>2, ForbiddenIsOverruled, PolicyAssumption, RegistriesAssumption

(* A set of resolved addresses is accepted only as a whole, each address once and in order:
   for every sequence of records and every registry. *)
THEOREM ApprovedAlwaysWhole == Spec => []ApprovedIsWhole
<1>1. IInv /\ TakenAreApproved => ApprovedIsWhole
  <2>1. SUFFICES ASSUME IInv, TakenAreApproved, asked = "records", verdict = "ok"
                 PROVE  /\ ToSet(approved) = {Approving(question[i].text) : i \in DOMAIN question}
                        /\ \A i, j \in DOMAIN approved : i < j => approved[i] # approved[j]
                        /\ (\A t \in ToSet(approved) : Keyed(t)) =>
                              \A i, j \in DOMAIN approved : i < j => ~Before(approved[j], approved[i])
                        /\ \A t \in ToSet(approved) : t.form = "hex" /\ t.number \div 2^Width4 # Nat64Prefix =>
                              Unforbidden(t.number, Records6, Width6)
    BY DEF ApprovedIsWhole
  <2>2. DOMAIN question = 1 .. index
    BY <2>1, InputsAssumption DEF IInv, InputsAsked, TakenAreApproved
  <2>3. ToSet(approved) = {Approving(question[i].text) : i \in DOMAIN question}
    BY <2>1, <2>2 DEF TakenAreApproved
  <2>4. InOrder(approved)
    BY <2>1 DEF TakenAreApproved
  <2>5. ASSUME NEW t \in ToSet(approved), t.form = "hex", t.number \div 2^Width4 # Nat64Prefix
        PROVE  Unforbidden(t.number, Records6, Width6)
    <3>0. t \in Reachable
      BY <2>1 DEF IInv, ApprovedAreReachable, ToSet
    <3>1. Allowed(t)
      BY <2>5, <3>0 DEF Reachable, Approving
    <3>2. AllowedHex(t.number)
      BY <2>5, <3>1 DEF Allowed
    <3>3. QED
      BY <2>5, <3>2, ReachableIsUnforbidden
  <2>6. QED
    BY <2>3, <2>4, <2>5 DEF InOrder, ToSet
<1>2. Init => IInv /\ TakenAreApproved
  BY InitIInv, InitTaken
<1>3. IInv /\ TakenAreApproved /\ [Next]_vars => TakenAreApproved'
  BY NextKeepsTaken
<1>4. QED
  BY <1>1, <1>2, <1>3, Inductive, PTL DEF Spec

-----------------------------------------------------------------------------
(* What an address is by its block.                                       *)

(* The powers of two up to the sixteenth are numbers, each twice the one before. *)
LEMMA Powers == \A n \in 0 .. 15 : 2^n \in Nat \ {0} /\ 2^(n + 1) = 2^n * 2 /\ 2^(n + 1) \in Nat \ {0}
<1> TAKE n \in 0 .. 15
<1>1. CASE n = 0
  <2>1. n + 1 = 1
    BY <1>1
  <2>2. 2^n = 1 /\ 2^(n + 1) = 2
    BY <1>1, <2>1
  <2>3. QED
    BY <2>2
<1>2. CASE n = 1
  <2>1. n + 1 = 2
    BY <1>2
  <2>2. 2^n = 2 /\ 2^(n + 1) = 4
    BY <1>2, <2>1
  <2>3. QED
    BY <2>2
<1>3. CASE n = 2
  <2>1. n + 1 = 3
    BY <1>3
  <2>2. 2^n = 4 /\ 2^(n + 1) = 8
    BY <1>3, <2>1
  <2>3. QED
    BY <2>2
<1>4. CASE n = 3
  <2>1. n + 1 = 4
    BY <1>4
  <2>2. 2^n = 8 /\ 2^(n + 1) = 16
    BY <1>4, <2>1
  <2>3. QED
    BY <2>2
<1>5. CASE n = 4
  <2>1. n + 1 = 5
    BY <1>5
  <2>2. 2^n = 16 /\ 2^(n + 1) = 32
    BY <1>5, <2>1
  <2>3. QED
    BY <2>2
<1>6. CASE n = 5
  <2>1. n + 1 = 6
    BY <1>6
  <2>2. 2^n = 32 /\ 2^(n + 1) = 64
    BY <1>6, <2>1
  <2>3. QED
    BY <2>2
<1>7. CASE n = 6
  <2>1. n + 1 = 7
    BY <1>7
  <2>2. 2^n = 64 /\ 2^(n + 1) = 128
    BY <1>7, <2>1
  <2>3. QED
    BY <2>2
<1>8. CASE n = 7
  <2>1. n + 1 = 8
    BY <1>8
  <2>2. 2^n = 128 /\ 2^(n + 1) = 256
    BY <1>8, <2>1
  <2>3. QED
    BY <2>2
<1>9. CASE n = 8
  <2>1. n + 1 = 9
    BY <1>9
  <2>2. 2^n = 256 /\ 2^(n + 1) = 512
    BY <1>9, <2>1
  <2>3. QED
    BY <2>2
<1>10. CASE n = 9
  <2>1. n + 1 = 10
    BY <1>10
  <2>2. 2^n = 512 /\ 2^(n + 1) = 1024
    BY <1>10, <2>1
  <2>3. QED
    BY <2>2
<1>11. CASE n = 10
  <2>1. n + 1 = 11
    BY <1>11
  <2>2. 2^n = 1024 /\ 2^(n + 1) = 2048
    BY <1>11, <2>1
  <2>3. QED
    BY <2>2
<1>12. CASE n = 11
  <2>1. n + 1 = 12
    BY <1>12
  <2>2. 2^n = 2048 /\ 2^(n + 1) = 4096
    BY <1>12, <2>1
  <2>3. QED
    BY <2>2
<1>13. CASE n = 12
  <2>1. n + 1 = 13
    BY <1>13
  <2>2. 2^n = 4096 /\ 2^(n + 1) = 8192
    BY <1>13, <2>1
  <2>3. QED
    BY <2>2
<1>14. CASE n = 13
  <2>1. n + 1 = 14
    BY <1>14
  <2>2. 2^n = 8192 /\ 2^(n + 1) = 16384
    BY <1>14, <2>1
  <2>3. QED
    BY <2>2
<1>15. CASE n = 14
  <2>1. n + 1 = 15
    BY <1>15
  <2>2. 2^n = 16384 /\ 2^(n + 1) = 32768
    BY <1>15, <2>1
  <2>3. QED
    BY <2>2
<1>16. CASE n = 15
  <2>1. n + 1 = 16
    BY <1>16
  <2>2. 2^n = 32768 /\ 2^(n + 1) = 65536
    BY <1>16, <2>1
  <2>3. QED
    BY <2>2
<1>17. QED
  BY <1>1, <1>2, <1>3, <1>4, <1>5, <1>6, <1>7, <1>8, <1>9, <1>10, <1>11, <1>12, <1>13, <1>14, <1>15, <1>16

(* A set of numbers with a member has a least one. *)
LEMMA LeastExists ==
    ASSUME NEW T \in SUBSET Nat, T # {}
    PROVE  \E x \in T : \A y \in T : x <= y
<1>1. PICK x \in T : \A y \in T : ~(<<y, x>> \in OpToRel(<, Nat))
  <2>1. T \subseteq Nat /\ T # {} /\ IsWellFoundedOn(OpToRel(<, Nat), Nat)
    BY NatLessThanWellFounded
  <2>2. QED
    BY <2>1, WFMin, Zenon
<1>2. ASSUME NEW y \in T PROVE x <= y
  <2>1. ~(y < x)
    BY <1>1 DEF OpToRel
  <2>2. QED
    BY <2>1
<1>3. QED
  BY <1>2

(* To divide by the next power is to divide by the power and then by two. *)
LEMMA Halves == 
    ASSUME NEW a \in Nat, NEW k \in 0 .. 15
    PROVE  a \div 2^(k + 1) = (a \div 2^k) \div 2
<1>1. PICK h \in Nat \ {0} : h = 2^k /\ 2^(k + 1) = h * 2
  BY Powers
<1>2. a \div (h * 2) = (a \div h) \div 2
  OBVIOUS
<1>3. QED
  BY <1>1, <1>2

(* Numbers that agree but for some of their last bits agree but for more of them. *)
LEMMA Coarser ==
    ASSUME NEW a \in Nat, NEW b \in Nat, NEW n \in 0 .. 16, NEW m \in 0 .. 16, n <= m,
           a \div 2^n = b \div 2^n
    PROVE  a \div 2^m = b \div 2^m
<1> DEFINE Differ == {i \in n .. m : a \div 2^i # b \div 2^i}
<1>1. SUFFICES ASSUME a \div 2^m # b \div 2^m PROVE FALSE
  OBVIOUS
<1>2. PICK i \in Differ : \A j \in Differ : i <= j
  <2>1. Differ \in SUBSET Nat /\ m \in Differ
    BY <1>1
  <2> HIDE DEF Differ
  <2>2. QED
    BY <2>1, LeastExists
<1>3. i # n /\ i \in n .. m
  OBVIOUS
<1>4. i - 1 \in n .. m /\ i - 1 \in 0 .. 15 /\ i - 1 + 1 = i
  BY <1>3
<1>5. a \div 2^(i - 1) = b \div 2^(i - 1)
  <2>1. i - 1 \notin Differ
    BY <1>2, <1>4
  <2>2. QED
    BY <1>4, <2>1
<1>6. a \div 2^(i - 1 + 1) = b \div 2^(i - 1 + 1)
  BY <1>4, <1>5, Halves
<1>7. QED
  BY <1>4, <1>6

(* A longer prefix fixes at least as much of every digit. *)
LEMMA FixedGrows ==
    ASSUME NEW bits \in {8, 16}, NEW k \in Nat, NEW l \in Nat, k <= l, NEW i \in Nat \ {0}
    PROVE  Fixed(k, i, bits) \in 0 .. bits /\ Fixed(l, i, bits) \in 0 .. bits /\ Fixed(k, i, bits) <= Fixed(l, i, bits)
<1>1. PICK gone \in Nat : gone = (i - 1) * bits
  <2>1. CASE bits = 8
    BY <2>1
  <2>2. CASE bits = 16
    BY <2>2
  <2>3. QED
    BY <2>1, <2>2
<1>2. QED
  BY <1>1 DEF Fixed

(* A block that shares an address with a longer prefix holds it whole. *)
LEMMA BlockWithin ==
    ASSUME NEW bits \in {8, 16}, NEW n \in Nat, NEW digits \in [1 .. n -> Nat],
           NEW r, NEW s, r.length \in Nat, s.length \in Nat, r.length <= s.length,
           r.prefix \in [1 .. n -> Nat], s.prefix \in [1 .. n -> Nat],
           InBlock(r, digits, bits), InBlock(s, digits, bits)
    PROVE  InBlock(r, s.prefix, bits)
<1>1. SUFFICES ASSUME NEW i \in 1 .. n
               PROVE  s.prefix[i] \div 2^(bits - Fixed(r.length, i, bits)) =
                      r.prefix[i] \div 2^(bits - Fixed(r.length, i, bits))
  <2>1. DOMAIN s.prefix = 1 .. n
    OBVIOUS
  <2>2. QED
    BY <2>1 DEF InBlock
<1>2. PICK few \in 0 .. 16, many \in 0 .. 16 :
        few = bits - Fixed(s.length, i, bits) /\ many = bits - Fixed(r.length, i, bits) /\ few <= many
  <2>1. /\ Fixed(r.length, i, bits) \in 0 .. bits /\ Fixed(s.length, i, bits) \in 0 .. bits
        /\ Fixed(r.length, i, bits) <= Fixed(s.length, i, bits)
    <3>1. i \in Nat \ {0}
      OBVIOUS
    <3>2. QED
      BY <3>1, FixedGrows, Zenon
  <2> DEFINE f == Fixed(s.length, i, bits)
             g == Fixed(r.length, i, bits)
  <2> HIDE DEF f, g
  <2>2. bits - f \in 0 .. 16 /\ bits - g \in 0 .. 16 /\ bits - f <= bits - g
    <3>1. f \in 0 .. bits /\ g \in 0 .. bits /\ g <= f
      BY <2>1 DEF f, g
    <3>2. QED
      BY <3>1
  <2>3. QED
    BY <2>2 DEF f, g
<1>3. /\ digits[i] \div 2^few = s.prefix[i] \div 2^few
      /\ digits[i] \div 2^many = r.prefix[i] \div 2^many
  <2>1. DOMAIN digits = 1 .. n
    OBVIOUS
  <2>2. QED
    BY <1>2, <2>1 DEF InBlock
<1>4. digits[i] \in Nat /\ s.prefix[i] \in Nat
  OBVIOUS
<1>5. digits[i] \div 2^many = s.prefix[i] \div 2^many
  <2>1. ASSUME NEW a \in Nat, NEW b \in Nat, a \div 2^few = b \div 2^few
        PROVE  a \div 2^many = b \div 2^many
    <3>1. few \in 0 .. 16 /\ many \in 0 .. 16 /\ few <= many
      BY <1>2
    <3>2. QED
      BY <2>1, <3>1, Coarser, Zenon
  <2> HIDE DEF InBlock
  <2>2. QED
    BY <1>3, <1>4, <2>1, Zenon
<1>6. QED
  BY <1>2, <1>3, <1>5

\* a table whose prefixes have n digits
Table(rows, n) == \A r \in rows : r.length \in 0 .. 128 /\ r.prefix \in [1 .. n -> Nat]

(* What the rows of a table are. *)
LEMMA TableRow ==
    ASSUME NEW rows, NEW n, Table(rows, n), NEW r \in rows
    PROVE  r.length \in 0 .. 128 /\ r.length \in Nat /\ r.prefix \in [1 .. n -> Nat]
<1>1. r.length \in 0 .. 128 /\ r.prefix \in [1 .. n -> Nat]
  BY Zenon DEF Table
<1>2. \A l \in 0 .. 128 : l \in Nat
  OBVIOUS
<1>3. QED
  BY <1>1, <1>2, Zenon

(* The most specific of the rows that hold an address is one, and it decides what is overruled. *)
LEMMA SpecificDecides ==
    ASSUME NEW bits \in {8, 16}, NEW n \in Nat, NEW digits \in [1 .. n -> Nat], NEW rows,
           Table(rows, n), BlocksAreSound(rows, bits)
    PROVE  /\ (\A r \in MostSpecific(rows, digits, bits) : MayReach(r)) <=> Overruled(rows, digits, bits)
           /\ MostSpecific(rows, digits, bits) = {} => \A r \in rows : ~InBlock(r, digits, bits)
           /\ \A r, s \in MostSpecific(rows, digits, bits) : r = s
           /\ \A r \in MostSpecific(rows, digits, bits) : r \in rows /\ InBlock(r, digits, bits)
<1> DEFINE matching == {r \in rows : InBlock(r, digits, bits)}
           best == MostSpecific(rows, digits, bits)
<1>1. best = {r \in matching : \A s \in matching : s.length <= r.length}
  BY DEF MostSpecific
<1>2. \A r \in matching : r \in rows /\ InBlock(r, digits, bits)
  OBVIOUS
<1>3. \A r \in rows : InBlock(r, digits, bits) => r \in matching
  OBVIOUS
<1> HIDE DEF matching, best
<1>4. ASSUME NEW r \in matching, NEW s \in matching, r.length <= s.length
      PROVE  InBlock(r, s.prefix, bits)
  <2>1. r \in rows /\ s \in rows
    BY <1>2
  <2>2. /\ r.length \in Nat /\ s.length \in Nat
        /\ r.prefix \in [1 .. n -> Nat] /\ s.prefix \in [1 .. n -> Nat]
    BY <2>1, TableRow, Zenon
  <2>3. QED
    BY <1>2, <1>4, <2>2, BlockWithin
<1>5. \A r, s \in best : r = s
  <2>1. SUFFICES ASSUME NEW r \in best, NEW s \in best PROVE r = s
    OBVIOUS
  <2>2. r \in matching /\ s \in matching /\ r.length <= s.length /\ s.length <= r.length
    BY <1>1
  <2>3. r.length \in Nat /\ s.length \in Nat
    BY <1>2, <2>2, TableRow, Zenon
  <2>4. r.length = s.length
    BY <2>2, <2>3
  <2>5. r.length = s.length /\ InBlock(r, s.prefix, bits) /\ r \in rows /\ s \in rows
    BY <1>2, <1>4, <2>2, <2>4, Zenon
  <2>6. QED
    BY <2>5 DEF BlocksAreSound
<1>6. ASSUME matching # {} PROVE \E b \in best : TRUE
  <2> DEFINE lengths == {r.length : r \in matching}
  <2>1. lengths \in SUBSET (0 .. 128) /\ lengths # {}
    <3>1. \A r \in matching : r.length \in 0 .. 128
      <4>1. SUFFICES ASSUME NEW r \in matching PROVE r.length \in 0 .. 128
        OBVIOUS
      <4>2. r \in rows
        BY <1>2
      <4>3. QED
        BY <4>2, TableRow, Zenon
    <3>2. PICK r : r \in matching
      BY <1>6
    <3>3. lengths # {}
      <4>1. r.length \in lengths
        BY <3>2
      <4>2. QED
        BY <4>1, Zenon
    <3>4. lengths \subseteq 0 .. 128
      <4>1. SUFFICES ASSUME NEW l \in lengths PROVE l \in 0 .. 128
        OBVIOUS
      <4>2. PICK s \in matching : l = s.length
        BY <4>1
      <4>3. QED
        BY <3>1, <4>2
    <3>5. QED
      BY <3>3, <3>4
  <2>2. PICK x \in lengths : \A y \in lengths : y <= x
    <3>1. PICK bound \in Nat : bound = 128
      OBVIOUS
    <3> HIDE DEF lengths
    <3>2. lengths \in SUBSET (0 .. bound)
      BY <2>1, <3>1
    <3>3. QED
      BY <2>1, <3>2, MaxExists, ZenonT(60)
  <2>3. QED
    BY <1>1, <2>2
<1>7. ASSUME \A r \in best : MayReach(r), NEW r \in rows, InBlock(r, digits, bits), ~MayReach(r)
      PROVE  \E s \in rows : /\ s.length > r.length /\ MayReach(s)
                             /\ InBlock(s, digits, bits) /\ InBlock(r, s.prefix, bits)
  <2>1. r \in matching
    BY <1>3, <1>7
  <2>2. PICK b \in best : TRUE
    BY <1>6, <2>1
  <2>3. b \in matching /\ r.length <= b.length /\ MayReach(b)
    BY <1>1, <1>7, <2>1
  <2>4. b \in rows /\ InBlock(b, digits, bits) /\ InBlock(r, b.prefix, bits)
    BY <1>2, <1>4, <2>1, <2>3
  <2>5. r.length # b.length
    BY <1>7, <2>3, <2>4 DEF BlocksAreSound
  <2>6. b.length \in Nat /\ r.length \in Nat
    BY <2>4, <1>7, TableRow, Zenon
  <2>7. QED
    BY <2>3, <2>4, <2>5, <2>6
<1>8. ASSUME Overruled(rows, digits, bits), NEW r \in best, ~MayReach(r)
      PROVE  FALSE
  <2>1. r \in matching /\ \A s \in matching : s.length <= r.length
    BY <1>1
  <2>2. PICK s \in rows : s.length > r.length /\ InBlock(s, digits, bits)
    BY <1>2, <1>8, <2>1 DEF Overruled
  <2>3. s.length <= r.length /\ r \in rows
    BY <1>2, <1>3, <2>1, <2>2
  <2>4. s.length \in Nat /\ r.length \in Nat
    BY <2>3, TableRow, Zenon
  <2>5. QED
    BY <2>2, <2>3, <2>4
<1>9. (\A r \in best : MayReach(r)) <=> Overruled(rows, digits, bits)
  BY <1>7, <1>8 DEF Overruled
<1>10. \A r \in best : r \in rows /\ InBlock(r, digits, bits)
  BY <1>1, <1>2
<1>11. best = {} => \A r \in rows : ~InBlock(r, digits, bits)
  BY <1>3, <1>6
<1>12. QED
  BY <1>5, <1>9, <1>10, <1>11 DEF best

\* what a row of a table may be
RowsOf(n) == [prefix : [1 .. n -> Nat], length : 0 .. 128, active : BOOLEAN,
              destination : BOOLEAN, global : {"true", "false", "null"}]

\* of the IPv6 blocks that may be reached only 64:ff9b::/96 carries IPv4 addresses
CarriesNone(row) ==
    MayReach(row) /\ row # Nat64Row =>
        /\ row.length >= 32
        /\ (row.prefix[1] = 9760 \/ (row.prefix[1] = 8193 /\ row.prefix[2] \in {1, 3, 4}))

(* A row that is terminated is a row, and as it may not be reached it carries nothing. *)
LEMMA TerminatedRow ==
    ASSUME NEW n, NEW prefix \in [1 .. n -> Nat], NEW length \in 0 .. 128
    PROVE  Terminated(prefix, length) \in RowsOf(n) /\ CarriesNone(Terminated(prefix, length))
<1> DEFINE c == Closed(prefix, length)
           t == Terminated(prefix, length)
<1>1. c \in RowsOf(n)
  BY DEF Closed, Row, RowsOf
<1>2. t = [c EXCEPT !.active = FALSE]
  BY Zenon DEF Terminated
<1> HIDE DEF c
<1>3. [c EXCEPT !.active = FALSE] \in RowsOf(n) /\ [c EXCEPT !.active = FALSE].active = FALSE
  BY <1>1 DEF RowsOf
<1> HIDE DEF t
<1>4. t \in RowsOf(n) /\ t.active = FALSE
  BY <1>2, <1>3, Zenon
<1>5. ~MayReach(t)
  BY <1>4, Zenon DEF MayReach
<1>6. CarriesNone(t)
  BY <1>5 DEF CarriesNone
<1>7. QED
  BY <1>4, <1>6 DEF t

(* What stands in a sequence is one of its members. *)
LEMMA Among ==
    ASSUME NEW s, NEW i \in DOMAIN s
    PROVE  s[i] \in ToSet(s)
  BY DEF ToSet

(* The members of two sequences together. *)
LEMMA SetOfJoined ==
    ASSUME NEW S, NEW a \in Seq(S), NEW b \in Seq(S)
    PROVE  a \o b \in Seq(S) /\ ToSet(a \o b) = ToSet(a) \cup ToSet(b) /\ ToSet(a) \subseteq S
<1>1. PICK k \in Nat, l \in Nat : k = Len(a) /\ l = Len(b)
  OBVIOUS
<1>2. /\ a \o b \in Seq(S) /\ Len(a \o b) = k + l /\ DOMAIN a = 1 .. k /\ DOMAIN b = 1 .. l
      /\ DOMAIN (a \o b) = 1 .. k + l
      /\ \A i \in 1 .. k : (a \o b)[i] = a[i]
      /\ \A i \in 1 .. l : (a \o b)[k + i] = b[i]
  BY <1>1, ConcatProperties
<1> DEFINE c == a \o b
<1> HIDE DEF c
<1>3. ASSUME NEW x \in ToSet(c) PROVE x \in ToSet(a) \cup ToSet(b)
  <2>1. PICK i \in 1 .. k + l : c[i] = x
    BY <1>2 DEF ToSet, c
  <2>2. CASE i <= k
    BY <1>2, <2>1, <2>2 DEF ToSet, c
  <2>3. CASE i > k
    <3>1. i - k \in 1 .. l /\ k + (i - k) = i
      BY <2>3
    <3>2. b[i - k] = x
      BY <1>2, <2>1, <3>1 DEF c
    <3>3. QED
      BY <1>2, <3>1, <3>2 DEF ToSet
  <2>4. QED
    BY <2>2, <2>3
<1>4. ASSUME NEW x \in ToSet(a) PROVE x \in ToSet(c)
  <2>1. PICK i \in 1 .. k : a[i] = x
    BY <1>2 DEF ToSet
  <2>2. i \in 1 .. k + l /\ c[i] = x
    BY <1>2, <2>1 DEF c
  <2>3. QED
    BY <1>2, <2>2 DEF ToSet, c
<1>5. ASSUME NEW x \in ToSet(b) PROVE x \in ToSet(c)
  <2>1. PICK i \in 1 .. l : b[i] = x
    BY <1>2 DEF ToSet
  <2>2. k + i \in 1 .. k + l /\ c[k + i] = x
    BY <1>2, <2>1 DEF c
  <2>3. QED
    BY <1>2, <2>2 DEF ToSet, c
<1>6. ToSet(a) \subseteq S
  BY <1>2 DEF ToSet
<1>7. QED
  BY <1>2, <1>3, <1>4, <1>5, <1>6 DEF c

(* Each list of the registries holds rows of its own family; those of IPv6 that carry no
   IPv4 address are told apart from those that do. *)
LEMMA HostBlocks4Rows == HostBlocks4 \in Seq(RowsOf(4))
<1> DEFINE R == RowsOf(4)
<1>1. Closed(<<0, 0, 0, 0>>, 8) \in R
  BY DEF Closed, Row, RowsOf
<1>2. Closed(<<0, 0, 0, 0>>, 32) \in R
  BY DEF Closed, Row, RowsOf
<1>3. Local(<<10, 0, 0, 0>>, 8) \in R
  BY DEF Local, Row, RowsOf
<1>4. Local(<<100, 64, 0, 0>>, 10) \in R
  BY DEF Local, Row, RowsOf
<1>5. Closed(<<127, 0, 0, 0>>, 8) \in R
  BY DEF Closed, Row, RowsOf
<1>6. Local(<<169, 254, 0, 0>>, 16) \in R
  BY DEF Local, Row, RowsOf
<1>7. Local(<<172, 16, 0, 0>>, 12) \in R
  BY DEF Local, Row, RowsOf
<1> HIDE DEF R
<1>8. HostBlocks4 \in Seq(R)
  BY <1>1, <1>2, <1>3, <1>4, <1>5, <1>6, <1>7 DEF HostBlocks4
<1>9. QED
  BY <1>8 DEF R

LEMMA ProtocolBlocks4Rows == ProtocolBlocks4 \in Seq(RowsOf(4))
<1> DEFINE R == RowsOf(4)
<1>1. Closed(<<192, 0, 0, 0>>, 24) \in R
  BY DEF Closed, Row, RowsOf
<1>2. Local(<<192, 0, 0, 0>>, 29) \in R
  BY DEF Local, Row, RowsOf
<1>3. Closed(<<192, 0, 0, 8>>, 32) \in R
  BY DEF Closed, Row, RowsOf
<1>4. Open(<<192, 0, 0, 9>>, 32) \in R
  BY DEF Open, Row, RowsOf
<1>5. Open(<<192, 0, 0, 10>>, 32) \in R
  BY DEF Open, Row, RowsOf
<1>6. Unstated(<<192, 0, 0, 170>>, 32) \in R
  BY DEF Unstated, Row, RowsOf
<1>7. Unstated(<<192, 0, 0, 171>>, 32) \in R
  BY DEF Unstated, Row, RowsOf
<1> HIDE DEF R
<1>8. ProtocolBlocks4 \in Seq(R)
  BY <1>1, <1>2, <1>3, <1>4, <1>5, <1>6, <1>7 DEF ProtocolBlocks4
<1>9. QED
  BY <1>8 DEF R

LEMMA OtherBlocks4Rows == OtherBlocks4 \in Seq(RowsOf(4))
<1> DEFINE R == RowsOf(4)
<1>1. Closed(<<192, 0, 2, 0>>, 24) \in R
  BY DEF Closed, Row, RowsOf
<1>2. Open(<<192, 31, 196, 0>>, 24) \in R
  BY DEF Open, Row, RowsOf
<1>3. Open(<<192, 52, 193, 0>>, 24) \in R
  BY DEF Open, Row, RowsOf
<1>4. Terminated(<<192, 88, 99, 0>>, 24) \in R
  <2>1. <<192, 88, 99, 0>> \in [1 .. 4 -> Nat] /\ 24 \in 0 .. 128
    OBVIOUS
  <2>2. QED
    BY <2>1, TerminatedRow
<1>5. Terminated(<<192, 88, 99, 2>>, 32) \in R
  <2>1. <<192, 88, 99, 2>> \in [1 .. 4 -> Nat] /\ 32 \in 0 .. 128
    OBVIOUS
  <2>2. QED
    BY <2>1, TerminatedRow
<1>6. Local(<<192, 168, 0, 0>>, 16) \in R
  BY DEF Local, Row, RowsOf
<1>7. Open(<<192, 175, 48, 0>>, 24) \in R
  BY DEF Open, Row, RowsOf
<1>8. Local(<<198, 18, 0, 0>>, 15) \in R
  BY DEF Local, Row, RowsOf
<1>9. Closed(<<198, 51, 100, 0>>, 24) \in R
  BY DEF Closed, Row, RowsOf
<1>10. Closed(<<203, 0, 113, 0>>, 24) \in R
  BY DEF Closed, Row, RowsOf
<1>11. Closed(<<240, 0, 0, 0>>, 4) \in R
  BY DEF Closed, Row, RowsOf
<1>12. Closed(<<255, 255, 255, 255>>, 32) \in R
  BY DEF Closed, Row, RowsOf
<1> HIDE DEF R
<1>13. OtherBlocks4 \in Seq(R)
  BY <1>1, <1>2, <1>3, <1>4, <1>5, <1>6, <1>7, <1>8, <1>9, <1>10, <1>11, <1>12 DEF OtherBlocks4
<1>14. QED
  BY <1>13 DEF R

LEMMA Supplements4Rows == Supplements4 \in Seq(RowsOf(4))
<1> DEFINE R == RowsOf(4)
<1>1. Closed(<<224, 0, 0, 0>>, 4) \in R
  BY DEF Closed, Row, RowsOf
<1> HIDE DEF R
<1>2. Supplements4 \in Seq(R)
  BY <1>1 DEF Supplements4
<1>3. QED
  BY <1>2 DEF R

LEMMA TransitionBlocks6Rows == TransitionBlocks6 \in Seq({r \in RowsOf(8) : CarriesNone(r)})
<1> DEFINE R == {r \in RowsOf(8) : CarriesNone(r)}
<1>1. Closed(<<0, 0, 0, 0, 0, 0, 0, 1>>, 128) \in R
  BY DEF Closed, Row, RowsOf, CarriesNone, MayReach
<1>2. Closed(<<0, 0, 0, 0, 0, 0, 0, 0>>, 128) \in R
  BY DEF Closed, Row, RowsOf, CarriesNone, MayReach
<1>3. Closed(<<0, 0, 0, 0, 0, 65535, 0, 0>>, 96) \in R
  BY DEF Closed, Row, RowsOf, CarriesNone, MayReach
<1>4. Nat64Row \in R
  BY DEF Nat64Row, Open, Row, RowsOf, CarriesNone, MayReach
<1>5. Local(<<100, 65435, 1, 0, 0, 0, 0, 0>>, 48) \in R
  BY DEF Local, Row, RowsOf, CarriesNone, MayReach
<1>6. Local(<<256, 0, 0, 0, 0, 0, 0, 0>>, 64) \in R
  BY DEF Local, Row, RowsOf, CarriesNone, MayReach
<1>7. Local(<<256, 0, 0, 1, 0, 0, 0, 0>>, 64) \in R
  BY DEF Local, Row, RowsOf, CarriesNone, MayReach
<1> HIDE DEF R
<1>8. TransitionBlocks6 \in Seq(R)
  BY <1>1, <1>2, <1>3, <1>4, <1>5, <1>6, <1>7 DEF TransitionBlocks6
<1>9. QED
  BY <1>8 DEF R

LEMMA ProtocolBlocks6Rows == ProtocolBlocks6 \in Seq({r \in RowsOf(8) : CarriesNone(r)})
<1> DEFINE R == {r \in RowsOf(8) : CarriesNone(r)}
<1>1. Closed(<<8193, 0, 0, 0, 0, 0, 0, 0>>, 23) \in R
  BY DEF Closed, Row, RowsOf, CarriesNone, MayReach
<1>2. Unstated(<<8193, 0, 0, 0, 0, 0, 0, 0>>, 32) \in R
  BY DEF Unstated, Row, RowsOf, CarriesNone, MayReach
<1>3. Open(<<8193, 1, 0, 0, 0, 0, 0, 1>>, 128) \in R
  BY DEF Open, Row, RowsOf, CarriesNone, MayReach
<1>4. Open(<<8193, 1, 0, 0, 0, 0, 0, 2>>, 128) \in R
  BY DEF Open, Row, RowsOf, CarriesNone, MayReach
<1>5. Open(<<8193, 1, 0, 0, 0, 0, 0, 3>>, 128) \in R
  BY DEF Open, Row, RowsOf, CarriesNone, MayReach
<1>6. Local(<<8193, 2, 0, 0, 0, 0, 0, 0>>, 48) \in R
  BY DEF Local, Row, RowsOf, CarriesNone, MayReach
<1>7. Open(<<8193, 3, 0, 0, 0, 0, 0, 0>>, 32) \in R
  BY DEF Open, Row, RowsOf, CarriesNone, MayReach
<1>8. Open(<<8193, 4, 274, 0, 0, 0, 0, 0>>, 48) \in R
  BY DEF Open, Row, RowsOf, CarriesNone, MayReach
<1>9. Terminated(<<8193, 16, 0, 0, 0, 0, 0, 0>>, 28) \in R
  <2>1. <<8193, 16, 0, 0, 0, 0, 0, 0>> \in [1 .. 8 -> Nat] /\ 28 \in 0 .. 128
    OBVIOUS
  <2> DEFINE p == <<8193, 16, 0, 0, 0, 0, 0, 0>>
             t == Terminated(p, 28)
  <2>2. p \in [1 .. 8 -> Nat] /\ 28 \in 0 .. 128
    BY <2>1
  <2> HIDE DEF p
  <2>3. t \in RowsOf(8) /\ CarriesNone(t)
    BY <2>2, TerminatedRow
  <2> HIDE DEF t
  <2>4. t \in R
    BY <2>3
  <2>5. QED
    BY <2>4 DEF t, p
<1>10. Closed(<<8193, 32, 0, 0, 0, 0, 0, 0>>, 28) \in R
  BY DEF Closed, Row, RowsOf, CarriesNone, MayReach
<1>11. Closed(<<8193, 48, 0, 0, 0, 0, 0, 0>>, 28) \in R
  BY DEF Closed, Row, RowsOf, CarriesNone, MayReach
<1> HIDE DEF R
<1>12. ProtocolBlocks6 \in Seq(R)
  BY <1>1, <1>2, <1>3, <1>4, <1>5, <1>6, <1>7, <1>8, <1>9, <1>10, <1>11 DEF ProtocolBlocks6
<1>13. QED
  BY <1>12 DEF R

LEMMA OtherBlocks6Rows == OtherBlocks6 \in Seq({r \in RowsOf(8) : CarriesNone(r)})
<1> DEFINE R == {r \in RowsOf(8) : CarriesNone(r)}
<1>1. Closed(<<8193, 3512, 0, 0, 0, 0, 0, 0>>, 32) \in R
  BY DEF Closed, Row, RowsOf, CarriesNone, MayReach
<1>2. Unstated(<<8194, 0, 0, 0, 0, 0, 0, 0>>, 16) \in R
  BY DEF Unstated, Row, RowsOf, CarriesNone, MayReach
<1>3. Open(<<9760, 79, 32768, 0, 0, 0, 0, 0>>, 48) \in R
  BY DEF Open, Row, RowsOf, CarriesNone, MayReach
<1>4. Closed(<<16383, 0, 0, 0, 0, 0, 0, 0>>, 20) \in R
  BY DEF Closed, Row, RowsOf, CarriesNone, MayReach
<1>5. Closed(<<24320, 0, 0, 0, 0, 0, 0, 0>>, 16) \in R
  BY DEF Closed, Row, RowsOf, CarriesNone, MayReach
<1>6. Local(<<64512, 0, 0, 0, 0, 0, 0, 0>>, 7) \in R
  BY DEF Local, Row, RowsOf, CarriesNone, MayReach
<1>7. Local(<<65152, 0, 0, 0, 0, 0, 0, 0>>, 10) \in R
  BY DEF Local, Row, RowsOf, CarriesNone, MayReach
<1> HIDE DEF R
<1>8. OtherBlocks6 \in Seq(R)
  BY <1>1, <1>2, <1>3, <1>4, <1>5, <1>6, <1>7 DEF OtherBlocks6
<1>9. QED
  BY <1>8 DEF R

LEMMA Supplements6Rows == Supplements6 \in Seq({r \in RowsOf(8) : CarriesNone(r)})
<1> DEFINE R == {r \in RowsOf(8) : CarriesNone(r)}
<1>1. Closed(<<65280, 0, 0, 0, 0, 0, 0, 0>>, 8) \in R
  BY DEF Closed, Row, RowsOf, CarriesNone, MayReach
<1> HIDE DEF R
<1>2. Supplements6 \in Seq(R)
  BY <1>1 DEF Supplements6
<1>3. QED
  BY <1>2 DEF R

(* The rows of the two tables. *)
LEMMA Rows4 == Table(Combined4, 4)
<1> DEFINE R == RowsOf(4)
<1>1. HostBlocks4 \in Seq(R) /\ ProtocolBlocks4 \in Seq(R) /\ OtherBlocks4 \in Seq(R) /\ Supplements4 \in Seq(R)
  BY HostBlocks4Rows, ProtocolBlocks4Rows, OtherBlocks4Rows, Supplements4Rows
<1> HIDE DEF R
<1>2. HostBlocks4 \o ProtocolBlocks4 \in Seq(R)
  BY <1>1, SetOfJoined
<1>3. Official4 \in Seq(R)
  BY <1>1, <1>2, SetOfJoined DEF Official4
<1>4. Official4 \o Supplements4 \in Seq(R)
  BY <1>1, <1>3, SetOfJoined
<1>5. Combined4 \subseteq R
  BY <1>4, SetOfJoined DEF Combined4
<1>6. QED
  BY <1>5 DEF R, RowsOf, Table

(* The IPv6 table: its rows, none of which carries an address but that of NAT64, and those of the
   standard ways to carry one. *)
LEMMA Rows6 ==
    /\ Table(Combined6, 8) /\ \A r \in Combined6 : CarriesNone(r)
    /\ Closed(<<0, 0, 0, 0, 0, 65535, 0, 0>>, 96) \in Combined6 /\ Nat64Row \in Combined6
    /\ Local(<<100, 65435, 1, 0, 0, 0, 0, 0>>, 48) \in Combined6
    /\ Unstated(<<8193, 0, 0, 0, 0, 0, 0, 0>>, 32) \in Combined6
    /\ Unstated(<<8194, 0, 0, 0, 0, 0, 0, 0>>, 16) \in Combined6
<1> DEFINE R == {r \in RowsOf(8) : CarriesNone(r)}
<1>1. TransitionBlocks6 \in Seq(R) /\ ProtocolBlocks6 \in Seq(R) /\ OtherBlocks6 \in Seq(R) /\ Supplements6 \in Seq(R)
  BY TransitionBlocks6Rows, ProtocolBlocks6Rows, OtherBlocks6Rows, Supplements6Rows
<1> HIDE DEF R
<1>2. /\ TransitionBlocks6 \o ProtocolBlocks6 \in Seq(R)
      /\ ToSet(TransitionBlocks6 \o ProtocolBlocks6) = ToSet(TransitionBlocks6) \cup ToSet(ProtocolBlocks6)
  BY <1>1, SetOfJoined
<1>3. /\ Official6 \in Seq(R)
      /\ ToSet(Official6) = ToSet(TransitionBlocks6) \cup ToSet(ProtocolBlocks6) \cup ToSet(OtherBlocks6)
  <2> DEFINE two == TransitionBlocks6 \o ProtocolBlocks6
  <2>1. two \in Seq(R)
    BY <1>2
  <2> HIDE DEF two
  <2>2. two \o OtherBlocks6 \in Seq(R) /\ ToSet(two \o OtherBlocks6) = ToSet(two) \cup ToSet(OtherBlocks6)
    BY <1>1, <2>1, SetOfJoined
  <2>3. QED
    BY <1>2, <2>2 DEF two, Official6
<1>4. Official6 \o Supplements6 \in Seq(R) /\ ToSet(Official6) \subseteq Combined6
  BY <1>1, <1>3, SetOfJoined DEF Combined6
<1>5. Combined6 \subseteq R
  BY <1>4, SetOfJoined DEF Combined6
<1>6. Table(Combined6, 8) /\ \A r \in Combined6 : CarriesNone(r)
  BY <1>5 DEF R, RowsOf, Table
<1>7. /\ Closed(<<0, 0, 0, 0, 0, 65535, 0, 0>>, 96) \in ToSet(TransitionBlocks6)
      /\ Nat64Row \in ToSet(TransitionBlocks6)
      /\ Local(<<100, 65435, 1, 0, 0, 0, 0, 0>>, 48) \in ToSet(TransitionBlocks6)
  <2>1. /\ 3 \in DOMAIN TransitionBlocks6 /\ TransitionBlocks6[3] = Closed(<<0, 0, 0, 0, 0, 65535, 0, 0>>, 96)
        /\ 4 \in DOMAIN TransitionBlocks6 /\ TransitionBlocks6[4] = Nat64Row
        /\ 5 \in DOMAIN TransitionBlocks6 /\ TransitionBlocks6[5] = Local(<<100, 65435, 1, 0, 0, 0, 0, 0>>, 48)
    BY DEF TransitionBlocks6
  <2>2. QED
    BY <2>1, Among
<1>8. Unstated(<<8193, 0, 0, 0, 0, 0, 0, 0>>, 32) \in ToSet(ProtocolBlocks6)
  <2>1. 2 \in DOMAIN ProtocolBlocks6 /\ ProtocolBlocks6[2] = Unstated(<<8193, 0, 0, 0, 0, 0, 0, 0>>, 32)
    BY DEF ProtocolBlocks6
  <2>2. QED
    BY <2>1, Among
<1>9. Unstated(<<8194, 0, 0, 0, 0, 0, 0, 0>>, 16) \in ToSet(OtherBlocks6)
  <2>1. 2 \in DOMAIN OtherBlocks6 /\ OtherBlocks6[2] = Unstated(<<8194, 0, 0, 0, 0, 0, 0, 0>>, 16)
    BY DEF OtherBlocks6
  <2>2. QED
    BY <2>1, Among
<1>10. ToSet(TransitionBlocks6) \subseteq Combined6 /\ ToSet(ProtocolBlocks6) \subseteq Combined6 /\ ToSet(OtherBlocks6) \subseteq Combined6
  BY <1>3, <1>4
<1>11. QED
  BY <1>6, <1>7, <1>8, <1>9, <1>10

\* eight groups of sixteen bits
IsGroups(g) == g \in [1 .. 8 -> Nat] /\ \A i \in 1 .. 8 : g[i] <= 65535

(* An IPv4 address is allowed exactly when what forbids it is overruled. *)
LEMMA Judged4IsOverruled ==
    ASSUME NEW octets \in [1 .. 4 -> Nat]
    PROVE  Judged4(octets) <=> Overruled(Combined4, octets, 8)
<1>1. Table(Combined4, 4) /\ BlocksAreSound(Combined4, 8)
  BY Rows4, SnapshotAssumption
<1>2. QED
  BY <1>1, SpecificDecides DEF Judged4

(* The octets of two groups are octets. *)
LEMMA OctetsAre ==
    ASSUME NEW high \in Nat, NEW low \in Nat
    PROVE  Octets(high, low) \in [1 .. 4 -> Nat]
<1>1. high \div 256 \in Nat /\ high % 256 \in Nat /\ low \div 256 \in Nat /\ low % 256 \in Nat
  OBVIOUS
<1>2. QED
  BY <1>1 DEF Octets

(* A block whose length is one of whole groups holds what begins with them. *)
LEMMA WholeGroups ==
    ASSUME NEW g, IsGroups(g), NEW r, IsGroups(r.prefix), NEW w \in 0 .. 8, r.length = 16 * w
    PROVE  InBlock(r, g, 16) <=> \A i \in 1 .. w : g[i] = r.prefix[i]
<1>1. DOMAIN g = 1 .. 8 /\ \A i \in 1 .. 8 : g[i] \in Nat /\ r.prefix[i] \in Nat
  BY DEF IsGroups
<1>2. \A i \in 1 .. 8 : g[i] \div 2^16 = 0 /\ r.prefix[i] \div 2^16 = 0
  BY <1>1 DEF IsGroups
<1>3. \A i \in 1 .. 8 : g[i] \div 2^0 = g[i] /\ r.prefix[i] \div 2^0 = r.prefix[i]
  BY <1>1
<1>4. ASSUME NEW i \in 1 .. 8
      PROVE  g[i] \div 2^(16 - Fixed(r.length, i, 16)) = r.prefix[i] \div 2^(16 - Fixed(r.length, i, 16))
             <=> (i <= w => g[i] = r.prefix[i])
  <2>1. CASE i <= w
    <3>1. 16 - Fixed(r.length, i, 16) = 0
      BY <2>1 DEF Fixed
    <3>2. QED
      BY <1>3, <2>1, <3>1, Zenon
  <2>2. CASE ~(i <= w)
    <3>1. 16 - Fixed(r.length, i, 16) = 16
      BY <2>2 DEF Fixed
    <3>2. QED
      BY <1>2, <2>2, <3>1, Zenon
  <2>3. QED
    BY <2>1, <2>2
<1>5. InBlock(r, g, 16) <=> \A i \in 1 .. 8 : i <= w => g[i] = r.prefix[i]
  <2>1. InBlock(r, g, 16) <=>
          \A i \in 1 .. 8 : g[i] \div 2^(16 - Fixed(r.length, i, 16)) = r.prefix[i] \div 2^(16 - Fixed(r.length, i, 16))
    BY <1>1, Zenon DEF InBlock
  <2>2. QED
    BY <1>4, <2>1, Zenon
<1>6. QED
  BY <1>5

(* An address in a block of two groups or more begins with these groups. *)
LEMMA InReachableBlock ==
    ASSUME NEW g \in [1 .. 8 -> Nat], NEW r, r.length \in 0 .. 128, r.prefix \in [1 .. 8 -> Nat],
           r.length >= 32, InBlock(r, g, 16)
    PROVE  g[1] = r.prefix[1] /\ g[2] = r.prefix[2]
<1>1. Fixed(r.length, 1, 16) = 16 /\ Fixed(r.length, 2, 16) = 16
  BY DEF Fixed
<1>2. DOMAIN g = 1 .. 8 /\ \A i \in 1 .. 8 : g[i] \in Nat /\ r.prefix[i] \in Nat
  OBVIOUS
<1>3. \A i \in 1 .. 2 : g[i] \div 2^0 = r.prefix[i] \div 2^0
  <2>1. SUFFICES ASSUME NEW i \in 1 .. 2 PROVE g[i] \div 2^0 = r.prefix[i] \div 2^0
    OBVIOUS
  <2>2. Fixed(r.length, i, 16) = 16 /\ i \in DOMAIN g
    BY <1>1, <1>2
  <2>3. 16 - Fixed(r.length, i, 16) = 0
    BY <2>2
  <2>4. QED
    BY <2>2, <2>3, Zenon DEF InBlock
<1>4. \A a \in Nat : a \div 2^0 = a
  OBVIOUS
<1>5. QED
  BY <1>2, <1>3, <1>4

(* What has n places is a sequence of length n. *)
LEMMA PlacesAreSeq ==
    ASSUME NEW S, NEW n \in Nat, NEW g \in [1 .. n -> S]
    PROVE  g \in Seq(S) /\ Len(g) = n /\ DOMAIN g = 1 .. n
<1>1. g \in Seq(S)
  BY SeqDef
<1>2. Len(g) \in Nat /\ DOMAIN g = 1 .. Len(g) /\ DOMAIN g = 1 .. n
  BY <1>1, LenProperties
<1>3. QED
  BY <1>1, <1>2

(* So is an IPv6 address. *)
LEMMA GroupsAreSeq ==
    ASSUME NEW g \in [1 .. 8 -> Nat]
    PROVE  g \in Seq(Nat) /\ Len(g) = 8
  BY PlacesAreSeq

\* what Stowed looks for
Starts(g, prefix) == SubSeq(g, 1, Len(prefix)) = prefix

(* Beginning with a prefix, group by group. *)
LEMMA StartsWith ==
    ASSUME NEW g \in [1 .. 8 -> Nat], NEW p \in Seq(Nat), Len(p) <= 8
    PROVE  Starts(g, p) <=> \A i \in 1 .. Len(p) : g[i] = p[i]
<1>1. g \in Seq(Nat) /\ Len(g) = 8
  BY GroupsAreSeq
<1>2. PICK n \in Nat : n = Len(p) /\ DOMAIN p = 1 .. n /\ n <= 8
  BY LenProperties
<1>3. SubSeq(g, 1, n) = [i \in 1 .. n |-> g[i]]
  <2>1. SubSeq(g, 1, n) \in Seq(Nat) /\ Len(SubSeq(g, 1, n)) = n /\ \A i \in 1 .. n : SubSeq(g, 1, n)[i] = g[i]
    <3>1. 1 \in Int /\ n \in Int /\ \A i \in 1 .. n : g[i] \in Nat
      <4>1. \A i \in 1 .. n : i \in 1 .. 8
        BY <1>2
      <4>2. \A i \in 1 .. 8 : g[i] \in Nat
        OBVIOUS
      <4>3. 1 \in Int /\ n \in Int
        OBVIOUS
      <4>4. QED
        BY <4>1, <4>2, <4>3, Zenon
    <3>2. SubSeq(g, 1, n) \in Seq(Nat) /\ Len(SubSeq(g, 1, n)) = (IF 1 <= n THEN n - 1 + 1 ELSE 0)
          /\ \A i \in 1 .. n - 1 + 1 : SubSeq(g, 1, n)[i] = g[1 + i - 1]
      BY <3>1, SubSeqProperties
    <3>3. QED
      BY <1>2, <3>2, SMTT(60)
  <2> DEFINE s == SubSeq(g, 1, n)
  <2> HIDE DEF s
  <2>2. s = [i \in 1 .. n |-> g[i]]
    BY <2>1 DEF s
  <2>3. QED
    BY <2>2 DEF s
<1>4. p = [i \in 1 .. n |-> p[i]]
  BY <1>2, SMTT(60)
<1>5. QED
  BY <1>2, <1>3, <1>4 DEF Starts

(* What an address of eight groups carries. *)
LEMMA StowedForms ==
    ASSUME NEW g, IsGroups(g)
    PROVE  Stowed(g) =
             (IF \/ g[1] = 0 /\ g[2] = 0 /\ g[3] = 0 /\ g[4] = 0 /\ g[5] = 0 /\ g[6] = 65535
                 \/ g[1] = 100 /\ g[2] = 65435 /\ g[3] = 0 /\ g[4] = 0 /\ g[5] = 0 /\ g[6] = 0
                 \/ g[1] = 100 /\ g[2] = 65435 /\ g[3] = 1
              THEN {Embedded(g)} ELSE {})
             \cup (IF g[1] = 8194 THEN {Octets(g[2], g[3])} ELSE {})
             \cup (IF g[1] = 8193 /\ g[2] = 0
                   THEN {Octets(g[3], g[4]), Octets(65535 - g[7], 65535 - g[8])} ELSE {})
<1>1. ASSUME NEW p \in Seq(Nat), Len(p) <= 8
      PROVE  Starts(g, p) <=> \A i \in 1 .. Len(p) : g[i] = p[i]
  <2>1. g \in [1 .. 8 -> Nat]
    BY DEF IsGroups
  <2>2. QED
    BY <1>1, <2>1, StartsWith
<1>2. Starts(g, <<0, 0, 0, 0, 0, 65535>>) <=> g[1] = 0 /\ g[2] = 0 /\ g[3] = 0 /\ g[4] = 0 /\ g[5] = 0 /\ g[6] = 65535
  <2> DEFINE p == <<0, 0, 0, 0, 0, 65535>>
  <2>1. p \in Seq(Nat) /\ Len(p) <= 8
    OBVIOUS
  <2>2. Len(p) = 6 /\ p[1] = 0 /\ p[2] = 0 /\ p[3] = 0 /\ p[4] = 0 /\ p[5] = 0 /\ p[6] = 65535
    OBVIOUS
  <2> HIDE DEF p
  <2>3. Starts(g, p) <=> \A i \in 1 .. Len(p) : g[i] = p[i]
    BY <1>1, <2>1, Zenon
  <2>4. QED
    BY <2>2, <2>3 DEF p
<1>3. Starts(g, <<100, 65435, 0, 0, 0, 0>>) <=> g[1] = 100 /\ g[2] = 65435 /\ g[3] = 0 /\ g[4] = 0 /\ g[5] = 0 /\ g[6] = 0
  <2> DEFINE p == <<100, 65435, 0, 0, 0, 0>>
  <2>1. p \in Seq(Nat) /\ Len(p) <= 8
    OBVIOUS
  <2>2. Len(p) = 6 /\ p[1] = 100 /\ p[2] = 65435 /\ p[3] = 0 /\ p[4] = 0 /\ p[5] = 0 /\ p[6] = 0
    OBVIOUS
  <2> HIDE DEF p
  <2>3. Starts(g, p) <=> \A i \in 1 .. Len(p) : g[i] = p[i]
    BY <1>1, <2>1, Zenon
  <2>4. QED
    BY <2>2, <2>3 DEF p
<1>4. Starts(g, <<100, 65435, 1>>) <=> g[1] = 100 /\ g[2] = 65435 /\ g[3] = 1
  <2> DEFINE p == <<100, 65435, 1>>
  <2>1. p \in Seq(Nat) /\ Len(p) <= 8
    OBVIOUS
  <2>2. Len(p) = 3 /\ p[1] = 100 /\ p[2] = 65435 /\ p[3] = 1
    OBVIOUS
  <2> HIDE DEF p
  <2>3. Starts(g, p) <=> \A i \in 1 .. Len(p) : g[i] = p[i]
    BY <1>1, <2>1, Zenon
  <2>4. QED
    BY <2>2, <2>3 DEF p
<1>5. Starts(g, <<8194>>) <=> g[1] = 8194
  <2> DEFINE p == <<8194>>
  <2>1. p \in Seq(Nat) /\ Len(p) <= 8
    OBVIOUS
  <2>2. Len(p) = 1 /\ p[1] = 8194
    OBVIOUS
  <2> HIDE DEF p
  <2>3. Starts(g, p) <=> \A i \in 1 .. Len(p) : g[i] = p[i]
    BY <1>1, <2>1, Zenon
  <2>4. QED
    BY <2>2, <2>3 DEF p
<1>6. Starts(g, <<8193, 0>>) <=> g[1] = 8193 /\ g[2] = 0
  <2> DEFINE p == <<8193, 0>>
  <2>1. p \in Seq(Nat) /\ Len(p) <= 8
    OBVIOUS
  <2>2. Len(p) = 2 /\ p[1] = 8193 /\ p[2] = 0
    OBVIOUS
  <2> HIDE DEF p
  <2>3. Starts(g, p) <=> \A i \in 1 .. Len(p) : g[i] = p[i]
    BY <1>1, <2>1, Zenon
  <2>4. QED
    BY <2>2, <2>3 DEF p
<1>7. Stowed(g) =
        (IF Starts(g, <<0, 0, 0, 0, 0, 65535>>) \/ Starts(g, <<100, 65435, 0, 0, 0, 0>>) \/ Starts(g, <<100, 65435, 1>>)
         THEN {Embedded(g)} ELSE {})
        \cup (IF Starts(g, <<8194>>) THEN {Octets(g[2], g[3])} ELSE {})
        \cup (IF Starts(g, <<8193, 0>>)
              THEN {Octets(g[3], g[4]), Octets(65535 - g[7], 65535 - g[8])} ELSE {})
  BY DEF Stowed, Starts
<1>8. QED
  BY <1>2, <1>3, <1>4, <1>5, <1>6, <1>7

(* The rows of the blocks that carry IPv4 addresses, by what their addresses begin with. *)
LEMMA CarryingBlocks ==
    ASSUME NEW g, IsGroups(g)
    PROVE  /\ InBlock(Closed(<<0, 0, 0, 0, 0, 65535, 0, 0>>, 96), g, 16) <=>
                 g[1] = 0 /\ g[2] = 0 /\ g[3] = 0 /\ g[4] = 0 /\ g[5] = 0 /\ g[6] = 65535
           /\ InBlock(Nat64Row, g, 16) <=>
                 g[1] = 100 /\ g[2] = 65435 /\ g[3] = 0 /\ g[4] = 0 /\ g[5] = 0 /\ g[6] = 0
           /\ InBlock(Local(<<100, 65435, 1, 0, 0, 0, 0, 0>>, 48), g, 16) <=>
                 g[1] = 100 /\ g[2] = 65435 /\ g[3] = 1
           /\ InBlock(Unstated(<<8193, 0, 0, 0, 0, 0, 0, 0>>, 32), g, 16) <=> g[1] = 8193 /\ g[2] = 0
           /\ InBlock(Unstated(<<8194, 0, 0, 0, 0, 0, 0, 0>>, 16), g, 16) <=> g[1] = 8194
<1>1. InBlock(Closed(<<0, 0, 0, 0, 0, 65535, 0, 0>>, 96), g, 16) <=>
        g[1] = 0 /\ g[2] = 0 /\ g[3] = 0 /\ g[4] = 0 /\ g[5] = 0 /\ g[6] = 65535
  <2> DEFINE r == Closed(<<0, 0, 0, 0, 0, 65535, 0, 0>>, 96)
  <2>1. r.length = 16 * 6 /\ IsGroups(r.prefix)
    BY DEF Closed, Row, IsGroups
  <2>2. /\ r.prefix[1] = 0 /\ r.prefix[2] = 0 /\ r.prefix[3] = 0 /\ r.prefix[4] = 0 /\ r.prefix[5] = 0
        /\ r.prefix[6] = 65535
    BY DEF Closed, Row
  <2> HIDE DEF r
  <2>3. 6 \in 0 .. 8
    OBVIOUS
  <2>4. InBlock(r, g, 16) <=> \A i \in 1 .. 6 : g[i] = r.prefix[i]
    BY <2>1, <2>3, WholeGroups, Zenon
  <2>5. QED
    BY <2>2, <2>4 DEF r
<1>2. InBlock(Nat64Row, g, 16) <=>
        g[1] = 100 /\ g[2] = 65435 /\ g[3] = 0 /\ g[4] = 0 /\ g[5] = 0 /\ g[6] = 0
  <2> DEFINE r == Nat64Row
  <2>1. r.length = 16 * 6 /\ IsGroups(r.prefix)
    BY DEF Nat64Row, Open, Row, IsGroups
  <2>2. /\ r.prefix[1] = 100 /\ r.prefix[2] = 65435 /\ r.prefix[3] = 0 /\ r.prefix[4] = 0 /\ r.prefix[5] = 0
        /\ r.prefix[6] = 0
    BY DEF Nat64Row, Open, Row
  <2> HIDE DEF r
  <2>3. 6 \in 0 .. 8
    OBVIOUS
  <2>4. InBlock(r, g, 16) <=> \A i \in 1 .. 6 : g[i] = r.prefix[i]
    BY <2>1, <2>3, WholeGroups, Zenon
  <2>5. QED
    BY <2>2, <2>4 DEF r
<1>3. InBlock(Local(<<100, 65435, 1, 0, 0, 0, 0, 0>>, 48), g, 16) <=> g[1] = 100 /\ g[2] = 65435 /\ g[3] = 1
  <2> DEFINE r == Local(<<100, 65435, 1, 0, 0, 0, 0, 0>>, 48)
  <2>1. r.length = 16 * 3 /\ IsGroups(r.prefix)
    BY DEF Local, Row, IsGroups
  <2>2. r.prefix[1] = 100 /\ r.prefix[2] = 65435 /\ r.prefix[3] = 1
    BY DEF Local, Row
  <2> HIDE DEF r
  <2>3. 3 \in 0 .. 8
    OBVIOUS
  <2>4. InBlock(r, g, 16) <=> \A i \in 1 .. 3 : g[i] = r.prefix[i]
    BY <2>1, <2>3, WholeGroups, Zenon
  <2>5. QED
    BY <2>2, <2>4 DEF r
<1>4. InBlock(Unstated(<<8193, 0, 0, 0, 0, 0, 0, 0>>, 32), g, 16) <=> g[1] = 8193 /\ g[2] = 0
  <2> DEFINE r == Unstated(<<8193, 0, 0, 0, 0, 0, 0, 0>>, 32)
  <2>1. r.length = 16 * 2 /\ IsGroups(r.prefix)
    BY DEF Unstated, Row, IsGroups
  <2>2. r.prefix[1] = 8193 /\ r.prefix[2] = 0
    BY DEF Unstated, Row
  <2> HIDE DEF r
  <2>3. 2 \in 0 .. 8
    OBVIOUS
  <2>4. InBlock(r, g, 16) <=> \A i \in 1 .. 2 : g[i] = r.prefix[i]
    BY <2>1, <2>3, WholeGroups, Zenon
  <2>5. QED
    BY <2>2, <2>4 DEF r
<1>5. InBlock(Unstated(<<8194, 0, 0, 0, 0, 0, 0, 0>>, 16), g, 16) <=> g[1] = 8194
  <2> DEFINE r == Unstated(<<8194, 0, 0, 0, 0, 0, 0, 0>>, 16)
  <2>1. r.length = 16 * 1 /\ IsGroups(r.prefix)
    BY DEF Unstated, Row, IsGroups
  <2>2. r.prefix[1] = 8194
    BY DEF Unstated, Row
  <2> HIDE DEF r
  <2>3. 1 \in 0 .. 8
    OBVIOUS
  <2>4. InBlock(r, g, 16) <=> \A i \in 1 .. 1 : g[i] = r.prefix[i]
    BY <2>1, <2>3, WholeGroups, Zenon
  <2>5. QED
    BY <2>2, <2>4 DEF r
<1>6. QED
  BY <1>1, <1>2, <1>3, <1>4, <1>5

(* What the rows of the IPv6 table are. *)
LEMMA RowOf6 ==
    ASSUME NEW r \in Combined6
    PROVE  r.length \in 0 .. 128 /\ r.length \in Nat /\ r.prefix \in [1 .. 8 -> Nat] /\ CarriesNone(r)
<1>1. Table(Combined6, 8)
  BY Rows6
<1>2. r.length \in 0 .. 128 /\ r.length \in Nat /\ r.prefix \in [1 .. 8 -> Nat]
  <2>1. \A n : Table(Combined6, n) => r.length \in 0 .. 128 /\ r.length \in Nat /\ r.prefix \in [1 .. n -> Nat]
    BY TableRow, Zenon
  <2>2. QED
    BY <1>1, <2>1, Zenon
<1>3. CarriesNone(r)
  BY Rows6
<1>4. QED
  BY <1>2, <1>3

(* A row that may be reached, but for that of NAT64, holds no address that carries another. *)
LEMMA ReachedCarriesNone ==
    ASSUME NEW g, IsGroups(g), NEW r \in Combined6, InBlock(r, g, 16), MayReach(r), r # Nat64Row
    PROVE  Stowed(g) = {}
<1>1. r.length \in Nat /\ r.length \in 0 .. 128 /\ r.prefix \in [1 .. 8 -> Nat] /\ CarriesNone(r)
  BY RowOf6
<1>2. /\ r.length >= 32
      /\ r.prefix[1] = 9760 \/ (r.prefix[1] = 8193 /\ r.prefix[2] \in {1, 3, 4})
  BY <1>1 DEF CarriesNone
<1>3. g[1] = r.prefix[1] /\ g[2] = r.prefix[2]
  <2>1. g \in [1 .. 8 -> Nat]
    BY DEF IsGroups
  <2>2. QED
    BY <1>1, <1>2, <2>1, InReachableBlock
<1>4. g[1] = 9760 \/ (g[1] = 8193 /\ g[2] # 0)
  BY <1>2, <1>3
<1>5. g[1] # 0 /\ g[1] # 100 /\ g[1] # 8194 /\ ~(g[1] = 8193 /\ g[2] = 0)
  BY <1>4
<1>6. QED
  BY <1>5, StowedForms

(* Groups in no row carry no address, and in the row of NAT64 they carry one. *)
LEMMA CarriedByRows ==
    ASSUME NEW g, IsGroups(g)
    PROVE  /\ (\A r \in Combined6 : ~InBlock(r, g, 16)) => Stowed(g) = {}
           /\ InBlock(Nat64Row, g, 16) => Stowed(g) = {Embedded(g)}
<1>1. ASSUME \A r \in Combined6 : ~InBlock(r, g, 16) PROVE Stowed(g) = {}
  <2>1. /\ ~InBlock(Closed(<<0, 0, 0, 0, 0, 65535, 0, 0>>, 96), g, 16) /\ ~InBlock(Nat64Row, g, 16)
        /\ ~InBlock(Local(<<100, 65435, 1, 0, 0, 0, 0, 0>>, 48), g, 16)
        /\ ~InBlock(Unstated(<<8193, 0, 0, 0, 0, 0, 0, 0>>, 32), g, 16)
        /\ ~InBlock(Unstated(<<8194, 0, 0, 0, 0, 0, 0, 0>>, 16), g, 16)
    BY <1>1, Rows6
  <2>2. QED
    BY <2>1, CarryingBlocks, StowedForms
<1>2. ASSUME InBlock(Nat64Row, g, 16) PROVE Stowed(g) = {Embedded(g)}
  <2>1. g[1] = 100 /\ g[2] = 65435 /\ g[3] = 0 /\ g[4] = 0 /\ g[5] = 0 /\ g[6] = 0
    BY <1>2, CarryingBlocks
  <2>2. QED
    BY <2>1, StowedForms
<1>3. QED
  BY <1>1, <1>2

(* What NoBypass asks of an IPv6 address. *)
Reaches(g) == \E r \in Combined6 : InBlock(r, g, 16) /\ MayReach(r)
StowedPass(g) == \A octets \in Stowed(g) : Overruled(Combined4, octets, 8)
InUnicast(group) == group \in 8192 .. 16383
Unicast(g) == InUnicast(g[1])
PassesRows(g) == Overruled(Combined6, g, 16) /\ StowedPass(g) /\ (Unicast(g) \/ Reaches(g))

(* An IPv6 address is allowed exactly when no row forbids it, itself or in what it carries. *)
LEMMA Judged6IsNoBypass ==
    ASSUME NEW g, IsGroups(g)
    PROVE  Judged6(g) <=> PassesRows(g)
<1> DEFINE best == MostSpecific(Combined6, g, 16)
           First(group) == group \div 8192 = 1
<1>1. g \in [1 .. 8 -> Nat] /\ Table(Combined6, 8) /\ BlocksAreSound(Combined6, 16)
  BY Rows6, SnapshotAssumption DEF IsGroups
<1>2. /\ (\A r \in best : MayReach(r)) <=> Overruled(Combined6, g, 16)
      /\ best = {} => \A r \in Combined6 : ~InBlock(r, g, 16)
      /\ \A r, s \in best : r = s
      /\ \A r \in best : r \in Combined6 /\ InBlock(r, g, 16)
  <2>1. 16 \in {8, 16} /\ 8 \in Nat
    OBVIOUS
  <2>2. QED
    BY <1>1, <2>1, SpecificDecides
<1>3. /\ best = {} => (Judged6(g) <=> First(g[1]))
      /\ best # {} => (Judged6(g) <=> \A r \in best : IF r = Nat64Row THEN Judged4(Embedded(g)) ELSE MayReach(r))
  BY DEF Judged6
<1>4. First(g[1]) <=> Unicast(g)
  <2>1. \A a \in Nat : First(a) <=> InUnicast(a)
    BY SMTT(60) DEF InUnicast
  <2>2. g[1] \in Nat
    BY <1>1
  <2> HIDE DEF First
  <2>3. QED
    BY <2>1, <2>2, Zenon DEF Unicast
<1> HIDE DEF best, First
<1>5. ASSUME best = {} PROVE Judged6(g) <=> PassesRows(g)
  <2>1. \A r \in Combined6 : ~InBlock(r, g, 16)
    BY <1>2, <1>5
  <2>2. Stowed(g) = {} /\ ~Reaches(g)
    BY <2>1, CarriedByRows DEF Reaches
  <2>3. StowedPass(g)
    BY <2>2 DEF StowedPass
  <2>4. Overruled(Combined6, g, 16)
    BY <1>2, <1>5
  <2>5. Judged6(g) <=> Unicast(g)
    BY <1>3, <1>4, <1>5
  <2>6. QED
    BY <2>2, <2>3, <2>4, <2>5 DEF PassesRows
<1>6. ASSUME best # {} PROVE Judged6(g) <=> PassesRows(g)
  <2>1. PICK b \in best : TRUE
    BY <1>6
  <2>2. best = {b} /\ b \in Combined6 /\ InBlock(b, g, 16)
    BY <1>2, <2>1
  <2>3. Overruled(Combined6, g, 16) <=> MayReach(b)
    BY <1>2, <2>2
  <2>4. CASE b = Nat64Row
    <3>1. MayReach(b)
      BY <2>4 DEF Nat64Row, Open, Row, MayReach
    <3>2. Stowed(g) = {Embedded(g)} /\ Reaches(g)
      BY <2>2, <2>4, <3>1, CarriedByRows DEF Reaches
    <3>3. Judged6(g) <=> Judged4(Embedded(g))
      BY <1>3, <1>6, <2>2, <2>4
    <3>4. Judged4(Embedded(g)) <=> Overruled(Combined4, Embedded(g), 8)
      <4>1. g[7] \in Nat /\ g[8] \in Nat
        BY <1>1
      <4>2. Embedded(g) \in [1 .. 4 -> Nat]
        BY <4>1, OctetsAre DEF Embedded
      <4>3. QED
        BY <4>2, Judged4IsOverruled
    <3>5. StowedPass(g) <=> Overruled(Combined4, Embedded(g), 8)
      BY <3>2 DEF StowedPass
    <3>6. QED
      BY <2>3, <3>1, <3>2, <3>3, <3>4, <3>5 DEF PassesRows
  <2>5. CASE b # Nat64Row
    <3>1. Judged6(g) <=> MayReach(b)
      BY <1>3, <1>6, <2>2, <2>5
    <3>2. MayReach(b) => Stowed(g) = {} /\ Reaches(g)
      BY <2>2, <2>5, ReachedCarriesNone DEF Reaches
    <3>3. MayReach(b) => StowedPass(g)
      BY <3>2 DEF StowedPass
    <3>4. QED
      BY <2>3, <3>1, <3>2, <3>3 DEF PassesRows
  <2>6. QED
    BY <2>4, <2>5
<1>7. QED
  BY <1>5, <1>6

-----------------------------------------------------------------------------
(* What an address is in its text.                                         *)

(* What holds of 0 and is handed on up to n holds up to n. *)
LEMMA UpTo ==
    ASSUME NEW n \in Nat, NEW G, 0 \in G, \A i \in 1 .. n : i - 1 \in G => i \in G
    PROVE  \A i \in 0 .. n : i \in G
<1> DEFINE T == {i \in 0 .. n : i \notin G}
<1>1. T \in SUBSET Nat
  OBVIOUS
<1>2. ASSUME NEW i \in T, \A k \in T : i <= k PROVE FALSE
  <2>1. i \in 1 .. n /\ i - 1 \in 0 .. n /\ ~(i <= i - 1) /\ i \notin G
    OBVIOUS
  <2>2. i - 1 \notin T
    <3> HIDE DEF T
    <3>1. QED
      BY <1>2, <2>1
  <2>3. QED
    BY <2>1, <2>2
<1> HIDE DEF T
<1>3. T = {}
  BY <1>1, <1>2, LeastExists
<1>4. QED
  BY <1>3 DEF T

(* The scan of formatRfc5952 exists step by step. *)
LEMMA ScanSteps ==
    ASSUME NEW words
    PROVE  \E scan :
              /\ scan[0] = NoScan
              /\ \A i \in 1 .. Groups : scan[i] = ScanWord(scan[i - 1], i, words[i])
              /\ LongestRun(words) = scan[Groups].best
<1> DEFINE Step(i, scan) == ScanWord(scan, i, words[i])
           Def(g, m) == [i \in 0 .. m |-> IF i = 0 THEN NoScan ELSE Step(i, g[i - 1])]
           Exists(m) == \E g : g = Def(g, m)
           G == {m \in 0 .. Groups : Exists(m)}
           scan == CHOOSE g : g = Def(g, Groups)
<1>1. LongestRun(words) = scan[Groups].best
  BY DEF LongestRun
<1> HIDE DEF Step
<1>2. 0 \in G
  <2>1. [i \in 0 .. 0 |-> NoScan] = Def([i \in 0 .. 0 |-> NoScan], 0)
    OBVIOUS
  <2>2. Exists(0)
    BY <2>1, Zenon
  <2> HIDE DEF Exists
  <2>3. QED
    BY <2>2 DEF Groups
<1>3. ASSUME NEW m \in 1 .. Groups, m - 1 \in G PROVE m \in G
  <2>1. PICK g : g = Def(g, m - 1)
    <3>1. Exists(m - 1)
      <4> HIDE DEF Exists
      <4>1. QED
        BY <1>3
    <3>2. QED
      BY <3>1, Zenon
  <2>2. m \in Nat /\ m >= 1
    BY DEF Groups
  <2> DEFINE h == [i \in 0 .. m |-> IF i < m THEN g[i] ELSE Step(m, g[m - 1])]
  <2>3. \A i \in 0 .. m : h[i] = IF i = 0 THEN NoScan ELSE Step(i, h[i - 1])
    <3> TAKE i \in 0 .. m
    <3>1. CASE i = m
      BY <2>2, <3>1
    <3>2. CASE i < m
      <4>1. g[i] = IF i = 0 THEN NoScan ELSE Step(i, g[i - 1])
        <5>1. i \in 0 .. (m - 1)
          BY <2>2, <3>2
        <5>2. QED
          BY <2>1, <5>1, Zenon
      <4>2. h[i] = g[i] /\ (i # 0 => h[i - 1] = g[i - 1])
        BY <2>2, <3>2
      <4>3. QED
        BY <2>2, <4>1, <4>2
    <3>3. QED
      BY <2>2, <3>1, <3>2
  <2>4. h = Def(h, m)
    BY <2>3
  <2>5. Exists(m)
    BY <2>4, Zenon
  <2> HIDE DEF Exists
  <2>6. QED
    BY <2>5
<1>4. Exists(Groups)
  <2> HIDE DEF Exists
  <2>1. \A i \in 0 .. Groups : i \in G
    <3>1. Groups \in Nat
      BY DEF Groups
    <3> HIDE DEF G
    <3>2. QED
      BY <1>2, <1>3, <3>1, UpTo, Zenon
  <2>2. Groups \in 0 .. Groups
    BY DEF Groups
  <2>3. QED
    BY <2>1, <2>2
<1>5. scan = Def(scan, Groups)
  BY <1>4
<1> HIDE DEF scan
<1>6. scan[0] = NoScan /\ \A i \in 1 .. Groups : scan[i] = Step(i, scan[i - 1])
  <2>1. \A i \in 0 .. Groups : scan[i] = IF i = 0 THEN NoScan ELSE Step(i, scan[i - 1])
    BY <1>5, Zenon
  <2> HIDE DEF Def
  <2>2. QED
    BY <2>1 DEF Groups
<1>7. QED
  BY <1>1, <1>6 DEF Step

\* words[from] to words[to] are zeros
Zeros(words, from, to) == \A k \in from .. to : words[k] = "0"

\* what the scan knows of the first i words: the zeros it stands in, and the first of the longest runs
InRun(words, i, start, length) ==
    /\ length <= i /\ (length > 0 => start = i - length + 1)
    /\ Zeros(words, i - length + 1, i)
    /\ length < i => words[i - length] # "0"
Found(words, i, start, length) ==
    /\ length = 0 => start = 0
    /\ length # 0 => /\ length >= 2 /\ start >= 1 /\ start + length - 1 <= i
                     /\ Zeros(words, start, start + length - 1)
    /\ \A a \in 1 .. i, b \in 1 .. i :
          a < b /\ Zeros(words, a, b) => b - a + 1 < length \/ (b - a + 1 = length /\ start <= a)

(* A zero makes the run the scan is in one longer. *)
LEMMA RunGoesOn ==
    ASSUME NEW words, NEW i \in Nat, i >= 1, NEW start \in Nat, NEW length \in Nat,
           InRun(words, i - 1, start, length), words[i] = "0"
    PROVE  InRun(words, i, IF length = 0 THEN i ELSE start, length + 1)
<1>1. length + 1 <= i /\ (IF length = 0 THEN i ELSE start) = i - (length + 1) + 1
  BY DEF InRun
<1>2. Zeros(words, i - (length + 1) + 1, i)
  <2>1. SUFFICES ASSUME NEW k \in i - length .. i PROVE words[k] = "0"
    BY DEF Zeros
  <2>2. CASE k = i
    BY <2>2
  <2>3. CASE k # i
    <3>1. k \in i - 1 - length + 1 .. i - 1
      BY <2>3
    <3>2. QED
      BY <3>1 DEF InRun, Zeros
  <2>4. QED
    BY <2>2, <2>3
<1>3. ASSUME length + 1 < i PROVE words[i - (length + 1)] # "0"
  <2>1. i - 1 - length = i - (length + 1) /\ length < i - 1
    BY <1>3
  <2>2. QED
    BY <2>1 DEF InRun
<1>4. QED
  BY <1>1, <1>2, <1>3 DEF InRun

(* Anything else ends it. *)
LEMMA RunEnds ==
    ASSUME NEW words, NEW i \in Nat, i >= 1, NEW start \in Nat, words[i] # "0"
    PROVE  InRun(words, i, start, 0)
  BY DEF InRun, Zeros

(* A run of zeros that ends where the scan is lies within the zeros it stands in. *)
LEMMA RunsEndingHere ==
    ASSUME NEW words, NEW i \in Nat, i >= 1, NEW start \in Nat, NEW length \in Nat,
           InRun(words, i, start, length),
           NEW a \in 1 .. i, Zeros(words, a, i)
    PROVE  length > 0 /\ a >= start
<1>1. words[i] = "0"
  BY DEF Zeros
<1>2. length # 0
  BY <1>1 DEF InRun
<1>3. ASSUME a < start PROVE FALSE
  <2>1. start = i - length + 1
    BY <1>2 DEF InRun
  <2>2. i - length \in a .. i /\ length < i
    BY <1>2, <1>3, <2>1
  <2>3. words[i - length] = "0"
    BY <2>2 DEF Zeros
  <2>4. QED
    BY <2>2, <2>3 DEF InRun
<1>4. QED
  BY <1>2, <1>3

(* A run that is found stays found, a longer one takes its place. *)
LEMMA FoundGoesOn ==
    ASSUME NEW words, NEW i \in Nat, i >= 1, NEW start \in Nat, NEW length \in Nat,
           InRun(words, i, start, length),
           NEW bs \in Nat, NEW bl \in Nat, Found(words, i - 1, bs, bl)
    PROVE  /\ length > bl /\ length >= 2 => Found(words, i, start, length)
           /\ ~(length > bl /\ length >= 2) => Found(words, i, bs, bl)
<1>1. ASSUME NEW a \in 1 .. i, NEW b \in 1 .. i, a < b, Zeros(words, a, b)
      PROVE  \/ b = i /\ length > 0 /\ a >= start /\ start = i - length + 1
             \/ b - a + 1 < bl
             \/ b - a + 1 = bl /\ bs <= a
  <2>1. CASE b = i
    <3>1. Zeros(words, a, i)
      BY <1>1, <2>1
    <3>2. length > 0 /\ a >= start
      BY <3>1, RunsEndingHere
    <3>3. QED
      BY <2>1, <3>2 DEF InRun
  <2>2. CASE b # i
    <3>1. a \in 1 .. i - 1 /\ b \in 1 .. i - 1
      BY <1>1, <2>2
    <3>2. QED
      BY <1>1, <3>1 DEF Found
  <2>3. QED
    BY <2>1, <2>2
<1>2. ASSUME length > bl, length >= 2 PROVE Found(words, i, start, length)
  <2>1. start = i - length + 1 /\ length <= i
    BY <1>2 DEF InRun
  <2>2. start >= 1 /\ start + length - 1 = i /\ Zeros(words, start, start + length - 1)
    <3>1. start >= 1 /\ start + length - 1 = i
      BY <2>1
    <3>2. Zeros(words, start, i)
      BY <2>1 DEF InRun
    <3>3. QED
      BY <3>1, <3>2
  <2>3. ASSUME NEW a \in 1 .. i, NEW b \in 1 .. i, a < b, Zeros(words, a, b)
        PROVE  b - a + 1 < length \/ (b - a + 1 = length /\ start <= a)
    BY <1>1, <1>2, <2>1, <2>3
  <2>4. QED
    BY <1>2, <2>2, <2>3 DEF Found
<1>3. ASSUME ~(length > bl /\ length >= 2) PROVE Found(words, i, bs, bl)
  <2>1. bl # 0 => bs + bl - 1 <= i - 1
    BY DEF Found
  <2>2. ASSUME NEW a \in 1 .. i, NEW b \in 1 .. i, a < b, Zeros(words, a, b)
        PROVE  b - a + 1 < bl \/ (b - a + 1 = bl /\ bs <= a)
    <3>1. CASE b = i /\ length > 0 /\ a >= start /\ start = i - length + 1
      <4>1. length >= b - a + 1 /\ length >= 2
        BY <2>2, <3>1
      <4>2. bl >= length
        BY <1>3, <4>1
      <4>3. CASE b - a + 1 < bl
        BY <4>3
      <4>4. CASE b - a + 1 = bl
        BY <2>1, <2>2, <3>1, <4>1, <4>2, <4>4
      <4>5. QED
        BY <4>1, <4>2, <4>3, <4>4
    <3>2. QED
      BY <1>1, <2>2, <3>1
  <2>3. QED
    BY <2>1, <2>2 DEF Found
<1>4. QED
  BY <1>2, <1>3

Runs == [start : Nat, length : Nat]

(* The scan of formatRfc5952 ends with the first of the longest runs of zeros. *)
LEMMA LongestRunIsFound ==
    ASSUME NEW words
    PROVE  LongestRun(words) \in Runs /\ Found(words, Groups, LongestRun(words).start, LongestRun(words).length)
<1> DEFINE Scans == [start : Nat, length : Nat, best : Runs]
           Sound(i, s) == /\ s \in Scans /\ InRun(words, i, s.start, s.length)
                          /\ Found(words, i, s.best.start, s.best.length)
<1>1. PICK scan : /\ scan[0] = NoScan
                  /\ \A i \in 1 .. Groups : scan[i] = ScanWord(scan[i - 1], i, words[i])
                  /\ LongestRun(words) = scan[Groups].best
  BY ScanSteps
<1>2. Sound(0, NoScan)
  BY DEF NoScan, NoRun, Runs, InRun, Found, Zeros
<1>3. ASSUME NEW i \in 1 .. Groups, NEW s, Sound(i - 1, s)
      PROVE  Sound(i, ScanWord(s, i, words[i]))
  <2> DEFINE next == ScanWord(s, i, words[i])
             start == IF s.length = 0 THEN i ELSE s.start
             length == s.length + 1
             bs == s.best.start
             bl == s.best.length
  <2>1. /\ i \in Nat /\ i >= 1 /\ s.start \in Nat /\ s.length \in Nat /\ start \in Nat /\ length \in Nat
        /\ bs \in Nat /\ bl \in Nat /\ s.best \in Runs
    BY <1>3 DEF Groups, Runs
  <2>2. CASE words[i] # "0"
    <3>1. next = [s EXCEPT !.length = 0]
      BY <2>2 DEF ScanWord
    <3>2. next \in Scans /\ next.start = s.start /\ next.length = 0 /\ next.best = s.best
      BY <1>3, <3>1
    <3> HIDE DEF next
    <3>3. InRun(words, i, s.start, 0)
      BY <2>1, <2>2, RunEnds
    <3>4. Found(words, i, bs, bl)
      <4>1. Found(words, i - 1, bs, bl)
        BY <1>3
      <4>2. 0 \in Nat /\ ~(0 > bl)
        BY <2>1
      <4> HIDE DEF bs, bl
      <4>3. QED
        BY <2>1, <3>3, <4>1, <4>2, FoundGoesOn
    <3>5. QED
      BY <3>2, <3>3, <3>4 DEF next
  <2>3. CASE words[i] = "0"
    <3>1. InRun(words, i, start, length)
      <4>1. InRun(words, i - 1, s.start, s.length)
        BY <1>3
      <4>2. QED
        BY <2>1, <2>3, <4>1, RunGoesOn
    <3>2. Found(words, i - 1, bs, bl)
      BY <1>3
    <3> HIDE DEF start, length, bs, bl
    <3>3. /\ length > bl /\ length >= 2 => Found(words, i, start, length)
          /\ ~(length > bl /\ length >= 2) => Found(words, i, bs, bl)
      BY <2>1, <3>1, <3>2, FoundGoesOn
    <3>4. CASE length > bl /\ length >= 2
      <4>1. next = [start |-> start, length |-> length, best |-> [start |-> start, length |-> length]]
        BY <2>3, <3>4 DEF ScanWord, start, length, bl
      <4>2. next \in Scans /\ next.start = start /\ next.length = length /\ next.best.start = start /\ next.best.length = length
        BY <2>1, <4>1 DEF Runs
      <4> HIDE DEF next
      <4>3. QED
        BY <3>1, <3>3, <3>4, <4>2 DEF next
    <3>5. CASE ~(length > bl /\ length >= 2)
      <4>1. next = [s EXCEPT !.start = start, !.length = length]
        BY <2>3, <3>5 DEF ScanWord, start, length, bl
      <4>2. next \in Scans /\ next.start = start /\ next.length = length /\ next.best = s.best
        BY <1>3, <2>1, <4>1
      <4> HIDE DEF next
      <4>3. QED
        BY <3>1, <3>3, <3>5, <4>2 DEF next, bs, bl
    <3>6. QED
      BY <3>4, <3>5
  <2>4. QED
    BY <2>2, <2>3
<1> DEFINE G == {i \in 0 .. Groups : Sound(i, scan[i])}
<1> HIDE DEF Sound
<1>4. 0 \in G
  BY <1>1, <1>2 DEF Groups
<1>5. ASSUME NEW i \in 1 .. Groups, i - 1 \in G PROVE i \in G
  BY <1>1, <1>3, <1>5 DEF Groups
<1>6. Sound(Groups, scan[Groups])
  <2>1. Groups \in Nat
    BY DEF Groups
  <2> HIDE DEF G
  <2>2. \A i \in 0 .. Groups : i \in G
    BY <1>4, <1>5, <2>1, UpTo, Zenon
  <2>3. Groups \in 0 .. Groups
    BY <2>1
  <2>4. Groups \in G
    BY <2>2, <2>3
  <2>5. QED
    BY <2>4 DEF G
<1>7. QED
  BY <1>1, <1>6 DEF Sound

(* formatRfc5952 prints the text of RFC 5952. *)
LEMMA FormattedIsCanonical ==
    ASSUME NEW words
    PROVE  Canonical(words) = {Formatted(words)}
<1> DEFINE run == LongestRun(words)
           from == run.start
           to == run.start + run.length - 1
           runs == {r \in (1 .. Groups) \X (1 .. Groups) : r[1] < r[2] /\ ZeroRun(words, r[1], r[2])}
           first == {r \in runs : \A s \in runs : \/ s[2] - s[1] < r[2] - r[1]
                                                  \/ s[2] - s[1] = r[2] - r[1] /\ s[1] >= r[1]}
           text(r) == Join(SubSeq(words, 1, r[1] - 1)) \o <<"::">> \o Join(SubSeq(words, r[2] + 1, Groups))
<1>1. Canonical(words) = IF runs = {} THEN {Join(words)} ELSE {text(r) : r \in first}
  BY DEF Canonical
<1>2. Formatted(words) = IF run = NoRun THEN Join(words)
                         ELSE Join(SubSeq(words, 1, run.start - 1)) \o <<"::">>
                              \o Join(SubSeq(words, run.start + run.length, Groups))
  BY DEF Formatted
<1>3. run \in Runs /\ Found(words, Groups, run.start, run.length)
  BY LongestRunIsFound
<1> HIDE DEF run
<1>4. run.start \in Nat /\ run.length \in Nat /\ (run = NoRun <=> run.length = 0)
  BY <1>3 DEF Runs, NoRun, Found
<1>5. \A r \in runs : /\ r[1] \in 1 .. Groups /\ r[2] \in 1 .. Groups /\ r[1] < r[2] /\ r = <<r[1], r[2]>>
                      /\ \/ r[2] - r[1] + 1 < run.length
                         \/ r[2] - r[1] + 1 = run.length /\ run.start <= r[1]
  <2>1. SUFFICES ASSUME NEW r \in runs
                 PROVE  /\ r[1] \in 1 .. Groups /\ r[2] \in 1 .. Groups /\ r[1] < r[2] /\ r = <<r[1], r[2]>>
                        /\ \/ r[2] - r[1] + 1 < run.length
                           \/ r[2] - r[1] + 1 = run.length /\ run.start <= r[1]
    OBVIOUS
  <2>2. r[1] \in 1 .. Groups /\ r[2] \in 1 .. Groups /\ r[1] < r[2] /\ r = <<r[1], r[2]>> /\ ZeroRun(words, r[1], r[2])
    OBVIOUS
  <2>3. Zeros(words, r[1], r[2])
    BY <2>2 DEF ZeroRun, Zeros
  <2>4. QED
    BY <1>3, <2>2, <2>3 DEF Found
<1>6. CASE run = NoRun
  <2>1. run.length = 0
    BY <1>4, <1>6
  <2>2. runs = {}
    <3> HIDE DEF runs
    <3>1. QED
      BY <1>5, <2>1 DEF Groups
  <2> HIDE DEF runs
  <2>3. QED
    BY <1>1, <1>2, <1>6, <2>2
<1>7. CASE run # NoRun
  <2>1. from \in 1 .. Groups /\ to \in 1 .. Groups /\ from < to /\ Zeros(words, from, to) /\ to - from + 1 = run.length
    BY <1>3, <1>4, <1>7 DEF Found, Groups
  <2>2. <<from, to>> \in runs
    BY <2>1 DEF Zeros, ZeroRun, Groups
  <2> HIDE DEF runs
  <2>3. <<from, to>> \in first
    BY <1>5, <2>1, <2>2 DEF Groups
  <2>4. \A r \in first : r = <<from, to>>
    <3>1. SUFFICES ASSUME NEW r \in first PROVE r = <<from, to>>
      OBVIOUS
    <3>2. r \in runs /\ (to - from < r[2] - r[1] \/ (to - from = r[2] - r[1] /\ from >= r[1]))
      BY <2>2
    <3>3. r[1] = from /\ r[2] = to
      BY <1>5, <2>1, <3>2 DEF Groups
    <3>4. QED
      BY <1>5, <3>2, <3>3
  <2> HIDE DEF first
  <2>5. {text(r) : r \in first} = {text(<<from, to>>)}
    BY <2>3, <2>4
  <2>6. to + 1 = run.start + run.length
    BY <1>4
  <2>7. text(<<from, to>>) = Join(SubSeq(words, 1, run.start - 1)) \o <<"::">>
                              \o Join(SubSeq(words, run.start + run.length, Groups))
    BY <2>6
  <2>8. runs # {}
    BY <2>2
  <2>9. QED
    BY <1>1, <1>2, <1>7, <2>5, <2>7, <2>8
<1>8. QED
  BY <1>6, <1>7

\* what split does at one token
PartStep(token, before) ==
    IF token \in Colons THEN Append(before, Nothing) ELSE [before EXCEPT ![Len(before)] = token]

(* The pieces of a text come about token by token. *)
LEMMA PartsSteps ==
    ASSUME NEW text, NEW n \in Nat, n = Len(text)
    PROVE  \E parts :
              /\ parts[0] = <<Nothing>>
              /\ \A k \in 1 .. n : parts[k] = PartStep(text[k], parts[k - 1])
              /\ Parts(text) = parts[n]
<1> DEFINE Step(k, parts) == PartStep(text[k], parts)
           Def(g, m) == [k \in 0 .. m |-> IF k = 0 THEN <<Nothing>> ELSE Step(k, g[k - 1])]
           Exists(m) == \E g : g = Def(g, m)
           G == {m \in 0 .. n : Exists(m)}
           parts == CHOOSE g : g = Def(g, n)
<1>1. Parts(text) = parts[n]
  BY DEF Parts, PartStep
<1> HIDE DEF Step
<1>2. 0 \in G
  <2>1. [k \in 0 .. 0 |-> <<Nothing>>] = Def([k \in 0 .. 0 |-> <<Nothing>>], 0)
    OBVIOUS
  <2>2. Exists(0)
    BY <2>1, Zenon
  <2> HIDE DEF Exists
  <2>3. QED
    BY <2>2
<1>3. ASSUME NEW m \in 1 .. n, m - 1 \in G PROVE m \in G
  <2>1. PICK g : g = Def(g, m - 1)
    <3>1. Exists(m - 1)
      <4> HIDE DEF Exists
      <4>1. QED
        BY <1>3
    <3>2. QED
      BY <3>1, Zenon
  <2> DEFINE h == [k \in 0 .. m |-> IF k < m THEN g[k] ELSE Step(m, g[m - 1])]
  <2>2. \A k \in 0 .. m : h[k] = IF k = 0 THEN <<Nothing>> ELSE Step(k, h[k - 1])
    <3> TAKE k \in 0 .. m
    <3>1. CASE k = m
      BY <3>1
    <3>2. CASE k < m
      <4>1. g[k] = IF k = 0 THEN <<Nothing>> ELSE Step(k, g[k - 1])
        <5>1. k \in 0 .. (m - 1)
          BY <3>2
        <5>2. QED
          BY <2>1, <5>1, Zenon
      <4>2. h[k] = g[k] /\ (k # 0 => h[k - 1] = g[k - 1])
        BY <3>2
      <4>3. QED
        BY <4>1, <4>2
    <3>3. QED
      BY <3>1, <3>2
  <2>3. h = Def(h, m)
    BY <2>2
  <2>4. Exists(m)
    BY <2>3, Zenon
  <2> HIDE DEF Exists
  <2>5. QED
    BY <2>4
<1>4. Exists(n)
  <2> HIDE DEF Exists
  <2>1. \A k \in 0 .. n : k \in G
    <3> HIDE DEF G
    <3>1. QED
      BY <1>2, <1>3, UpTo, Zenon
  <2>2. QED
    BY <2>1
<1>5. parts = Def(parts, n)
  BY <1>4
<1> HIDE DEF parts
<1>6. parts[0] = <<Nothing>> /\ \A k \in 1 .. n : parts[k] = Step(k, parts[k - 1])
  <2>1. \A k \in 0 .. n : parts[k] = IF k = 0 THEN <<Nothing>> ELSE Step(k, parts[k - 1])
    BY <1>5, Zenon
  <2> HIDE DEF Def
  <2>2. QED
    BY <2>1
<1>7. QED
  BY <1>1, <1>6 DEF Step

(* What stands between the colons are tokens of the text, or nothing. *)
LEMMA PartsAreTokens ==
    ASSUME NEW T, Nothing \in T, NEW text \in Seq(T)
    PROVE  Parts(text) \in Seq(T) /\ Len(Parts(text)) > 0
<1>1. PICK n \in Nat : n = Len(text) /\ \A k \in 1 .. n : text[k] \in T
  OBVIOUS
<1>2. PICK parts : /\ parts[0] = <<Nothing>>
                   /\ \A k \in 1 .. n : parts[k] = PartStep(text[k], parts[k - 1])
                   /\ Parts(text) = parts[n]
  BY <1>1, PartsSteps
<1> DEFINE G == {k \in 0 .. n : parts[k] \in Seq(T) /\ Len(parts[k]) > 0}
<1>3. 0 \in G
  <2>1. <<Nothing>> \in Seq(T) /\ Len(<<Nothing>>) = 1
    OBVIOUS
  <2>2. parts[0] \in Seq(T) /\ Len(parts[0]) > 0
    BY <1>2, <2>1
  <2>3. QED
    BY <2>2
<1>4. ASSUME NEW k \in 1 .. n, k - 1 \in G PROVE k \in G
  <2>1. PICK before \in Seq(T) : before = parts[k - 1] /\ Len(before) > 0
    BY <1>4
  <2>2. text[k] \in T /\ Len(before) \in 1 .. Len(before)
    BY <1>1, <2>1
  <2>3. PartStep(text[k], before) \in Seq(T) /\ Len(PartStep(text[k], before)) > 0
    <3>1. CASE text[k] \in Colons
      BY <2>1, <3>1, AppendProperties DEF PartStep
    <3>2. CASE text[k] \notin Colons
      BY <2>1, <2>2, <3>2, ExceptSeq DEF PartStep
    <3>3. QED
      BY <3>1, <3>2
  <2>4. parts[k] = PartStep(text[k], before)
    BY <1>2, <2>1
  <2>5. QED
    BY <2>3, <2>4
<1> HIDE DEF G
<1>5. \A k \in 0 .. n : k \in G
  BY <1>3, <1>4, UpTo, Zenon
<1>6. n \in G
  BY <1>5
<1>7. QED
  BY <1>2, <1>6 DEF G

(* The tokens of words that are joined. *)
LEMMA JoinTokens ==
    ASSUME NEW W, NEW words \in Seq(W)
    PROVE  /\ Join(words) \in Seq(W \cup {":"})
           /\ words = <<>> => Join(words) = <<>>
           /\ words # <<>> => /\ Len(Join(words)) = 2 * Len(words) - 1
                              /\ \A i \in 1 .. Len(words) : Join(words)[2 * i - 1] = words[i]
                              /\ \A i \in 1 .. Len(words) - 1 : Join(words)[2 * i] = ":"
<1>1. PICK n \in Nat : n = Len(words) /\ DOMAIN words = 1 .. n /\ \A i \in 1 .. n : words[i] \in W
  OBVIOUS
<1> DEFINE text == [k \in 1 .. 2 * n - 1 |-> IF k % 2 = 1 THEN words[(k + 1) \div 2] ELSE ":"]
<1>2. Join(words) = text
  BY <1>1 DEF Join
<1>3. CASE n = 0
  <2>1. words = <<>> /\ text = <<>>
    BY <1>1, <1>3
  <2>2. QED
    BY <1>2, <2>1
<1>4. CASE n # 0
  <2>1. 2 * n - 1 \in Nat /\ words # <<>>
    BY <1>1, <1>4
  <2>2. ASSUME NEW k \in 1 .. 2 * n - 1 PROVE text[k] \in W \cup {":"}
    <3>1. CASE k % 2 = 1
      <4>1. (k + 1) \div 2 \in 1 .. n
        BY <3>1
      <4>2. QED
        BY <1>1, <3>1, <4>1
    <3>2. CASE k % 2 # 1
      BY <3>2
    <3>3. QED
      BY <3>1, <3>2
  <2>3. text \in Seq(W \cup {":"}) /\ Len(text) = 2 * n - 1
    BY <2>1, <2>2
  <2>4. ASSUME NEW i \in 1 .. n PROVE text[2 * i - 1] = words[i]
    <3>1. 2 * i - 1 \in 1 .. 2 * n - 1 /\ (2 * i - 1) % 2 = 1 /\ (2 * i - 1 + 1) \div 2 = i
      OBVIOUS
    <3>2. QED
      BY <3>1
  <2>5. ASSUME NEW i \in 1 .. n - 1 PROVE text[2 * i] = ":"
    <3>1. 2 * i \in 1 .. 2 * n - 1 /\ (2 * i) % 2 # 1
      OBVIOUS
    <3>2. QED
      BY <3>1
  <2> HIDE DEF text
  <2>6. QED
    BY <1>1, <1>2, <2>1, <2>3, <2>4, <2>5
<1>5. QED
  BY <1>3, <1>4

(* What is joined comes apart into the words it was made of. *)
LEMMA PartsOfJoined ==
    ASSUME NEW W, W \cap Colons = {}, NEW words \in Seq(W), words # <<>>
    PROVE  Parts(Join(words)) = words
<1> DEFINE text == Join(words)
           So(k) == [i \in 1 .. k \div 2 + 1 |-> IF 2 * i - 1 <= k THEN words[i] ELSE Nothing]
<1>1. PICK n \in Nat : n = Len(words) /\ n >= 1 /\ DOMAIN words = 1 .. n /\ \A i \in 1 .. n : words[i] \in W
  OBVIOUS
<1>2. /\ Len(text) = 2 * n - 1
      /\ \A i \in 1 .. n : text[2 * i - 1] = words[i]
      /\ \A i \in 1 .. n - 1 : text[2 * i] = ":"
  BY <1>1, JoinTokens
<1> HIDE DEF text
<1>3. PICK parts : /\ parts[0] = <<Nothing>>
                   /\ \A k \in 1 .. 2 * n - 1 : parts[k] = PartStep(text[k], parts[k - 1])
                   /\ Parts(text) = parts[2 * n - 1]
  <2>1. 2 * n - 1 \in Nat
    BY <1>1
  <2>2. QED
    BY <1>2, <2>1, PartsSteps
<1> DEFINE G == {k \in 0 .. 2 * n - 1 : parts[k] = So(k)}
<1>4. 0 \in G
  <2>1. So(0) = <<Nothing>>
    <3>1. 0 \div 2 + 1 = 1
      OBVIOUS
    <3>2. So(0) = [i \in 1 .. 1 |-> Nothing]
      BY <3>1
    <3>3. QED
      BY <3>2
  <2>2. parts[0] = So(0) /\ 0 \in 0 .. 2 * n - 1
    BY <1>1, <1>3, <2>1
  <2> HIDE DEF So
  <2>3. QED
    BY <2>2
<1>5. ASSUME NEW k \in 1 .. 2 * n - 1, k - 1 \in G PROVE k \in G
  <2>1. parts[k] = PartStep(text[k], So(k - 1))
    <3>1. parts[k - 1] = So(k - 1)
      BY <1>5
    <3> HIDE DEF So
    <3>2. QED
      BY <1>3, <3>1
  <2>2. CASE k % 2 = 1
    <3>1. PICK j \in 1 .. n : k = 2 * j - 1
      <4>1. (k + 1) \div 2 \in 1 .. n /\ k = 2 * ((k + 1) \div 2) - 1
        BY <2>2
      <4>2. QED
        BY <4>1
    <3>2. (k - 1) \div 2 + 1 = j /\ k \div 2 + 1 = j
      BY <3>1
    <3>3. So(k - 1) = [i \in 1 .. j |-> IF i = j THEN Nothing ELSE words[i]]
      BY <3>1, <3>2
    <3>4. So(k) = [i \in 1 .. j |-> words[i]]
      BY <3>1, <3>2
    <3>5. text[k] = words[j] /\ words[j] \notin Colons
      BY <1>1, <1>2, <3>1
    <3> DEFINE before == So(k - 1)
    <3>6. Len(before) = j
      BY <3>3
    <3>7. PartStep(text[k], before) = [before EXCEPT ![j] = words[j]]
      <4> HIDE DEF before
      <4>1. QED
        BY <3>5, <3>6 DEF PartStep
    <3>8. [before EXCEPT ![j] = words[j]] = [i \in 1 .. j |-> words[i]]
      <4>1. before = [i \in 1 .. j |-> IF i = j THEN Nothing ELSE words[i]]
        BY <3>3
      <4> HIDE DEF before
      <4>2. QED
        BY <4>1
    <3>9. parts[k] = So(k)
      <4> HIDE DEF So
      <4>1. QED
        BY <2>1, <3>4, <3>7, <3>8
    <3> HIDE DEF So
    <3>10. QED
      BY <3>9
  <2>3. CASE k % 2 # 1
    <3>1. PICK j \in 1 .. n - 1 : k = 2 * j
      <4>1. k \div 2 \in 1 .. n - 1 /\ k = 2 * (k \div 2)
        BY <2>3
      <4>2. QED
        BY <4>1
    <3>2. (k - 1) \div 2 + 1 = j /\ k \div 2 + 1 = j + 1
      BY <3>1
    <3>3. So(k - 1) = [i \in 1 .. j |-> words[i]]
      BY <3>1, <3>2
    <3>4. So(k) = [i \in 1 .. j + 1 |-> IF i <= j THEN words[i] ELSE Nothing]
      BY <3>1, <3>2
    <3>5. text[k] \in Colons
      BY <1>2, <3>1 DEF Colons
    <3> DEFINE before == So(k - 1)
    <3>6. PartStep(text[k], before) = Append(before, Nothing)
      <4> HIDE DEF before
      <4>1. QED
        BY <3>5 DEF PartStep
    <3>7. Append(before, Nothing) = [i \in 1 .. j + 1 |-> IF i <= j THEN words[i] ELSE Nothing]
      <4>1. before = [i \in 1 .. j |-> words[i]]
        BY <3>3
      <4> HIDE DEF before
      <4>2. QED
        BY <4>1
    <3>8. parts[k] = So(k)
      <4> HIDE DEF So
      <4>1. QED
        BY <2>1, <3>4, <3>6, <3>7
    <3> HIDE DEF So
    <3>9. QED
      BY <3>8
  <2>4. QED
    BY <2>2, <2>3
<1>6. parts[2 * n - 1] = So(2 * n - 1)
  <2>1. 2 * n - 1 \in Nat /\ 2 * n - 1 \in 0 .. 2 * n - 1
    BY <1>1
  <2> HIDE DEF G
  <2>2. \A k \in 0 .. 2 * n - 1 : k \in G
    BY <1>4, <1>5, <2>1, UpTo, Zenon
  <2>3. 2 * n - 1 \in G
    BY <2>1, <2>2
  <2>4. QED
    BY <2>3 DEF G
<1>7. So(2 * n - 1) = words
  <2>1. (2 * n - 1) \div 2 + 1 = n
    BY <1>1
  <2>2. So(2 * n - 1) = [i \in 1 .. n |-> words[i]]
    BY <2>1
  <2>3. QED
    BY <1>1, <2>2
<1>8. QED
  BY <1>3, <1>6, <1>7 DEF text

(* The text of groups that are joined reads as these groups. *)
LEMMA JoinedReads ==
    ASSUME NEW words \in Seq(Words), words # <<>>
    PROVE  LET text == Join(words)
           IN /\ text # <<>> /\ "zone" \notin ToSet(text) /\ "upper" \notin ToSet(text)
              /\ Doubles(text) = {} /\ Left(text) = words /\ Right(text) = <<>>
<1> DEFINE text == Join(words)
<1>1. PICK n \in Nat : /\ n = Len(text) /\ n > 0 /\ DOMAIN text = 1 .. n
                       /\ \A i \in 1 .. n : text[i] \in Words \cup {":"}
  <2>1. text \in Seq(Words \cup {":"}) /\ Len(text) = 2 * Len(words) - 1
    BY JoinTokens
  <2>2. Len(words) \in Nat \ {0}
    BY EmptySeq
  <2> HIDE DEF text
  <2>3. QED
    BY <2>1, <2>2
<1>2. Parts(text) = words
  <2>1. Words \cap Colons = {}
    BY WordsAssumption
  <2>2. QED
    BY <2>1, PartsOfJoined
<1> HIDE DEF text
<1>3. \A i \in 1 .. n : text[i] # "zone" /\ text[i] # "upper" /\ text[i] # "::"
  BY <1>1, WordsAssumption DEF Colons
<1>4. Doubles(text) = {} /\ text # <<>>
  BY <1>1, <1>3 DEF Doubles
<1>5. "zone" \notin ToSet(text) /\ "upper" \notin ToSet(text)
  BY <1>1, <1>3 DEF ToSet
<1>6. Left(text) = words /\ Right(text) = <<>>
  BY <1>2, <1>4 DEF Left, Right
<1>7. QED
  BY <1>4, <1>5, <1>6 DEF text

(* Where the elements of two sequences are in both together. *)
LEMMA ConcatPlaces ==
    ASSUME NEW T, NEW s \in Seq(T), NEW t \in Seq(T), NEW m \in Nat, NEW k \in Nat, m = Len(s), k = Len(t)
    PROVE  /\ s \o t \in Seq(T) /\ Len(s \o t) = m + k
           /\ \A i \in 1 .. m : (s \o t)[i] = s[i]
           /\ \A i \in 1 .. k : (s \o t)[m + i] = t[i]
  OBVIOUS

(* So does the text of groups on both sides of a double colon. *)
LEMMA SidesRead ==
    ASSUME NEW a \in Seq(Words), NEW b \in Seq(Words)
    PROVE  LET text == Join(a) \o <<"::">> \o Join(b)
           IN /\ text # <<>> /\ "zone" \notin ToSet(text) /\ "upper" \notin ToSet(text)
              /\ \E i : Doubles(text) = {i}
              /\ Left(text) = a /\ Right(text) = b
<1> DEFINE T == Words \cup Colons
           text == Join(a) \o <<"::">> \o Join(b)
<1>1. PICK s \in Seq(T), t \in Seq(T) :
         /\ s = Join(a) /\ t = Join(b)
         /\ \A i \in 1 .. Len(s) : s[i] # "::"
         /\ \A i \in 1 .. Len(t) : t[i] # "::"
  <2> DEFINE S == Words \cup {":"}
  <2>1. Join(a) \in Seq(S) /\ Join(b) \in Seq(S)
    BY JoinTokens
  <2>2. S \subseteq T /\ "::" \notin S
    BY WordsAssumption DEF Colons
  <2> HIDE DEF S, T
  <2>3. Join(a) \in Seq(T) /\ Join(b) \in Seq(T)
    BY <2>1, <2>2, SeqMonotonic
  <2>4. \A s \in Seq(S) : \A i \in 1 .. Len(s) : s[i] # "::"
    BY <2>2, ElementOfSeq
  <2>5. QED
    BY <2>1, <2>3, <2>4
<1>2. text = s \o <<"::">> \o t
  BY <1>1
<1>3. "::" \in T /\ "zone" \notin T /\ "upper" \notin T
  BY WordsAssumption DEF Colons
<1> HIDE DEF T, text
<1>4. PICK m \in Nat, k \in Nat : m = Len(s) /\ k = Len(t)
  BY LenProperties
<1>5. /\ text \in Seq(T) /\ Len(text) = m + 1 + k
      /\ \A i \in 1 .. m : text[i] = s[i]
      /\ text[m + 1] = "::"
      /\ \A i \in 1 .. k : text[m + 1 + i] = t[i]
  <2>1. <<"::">> \in Seq(T) /\ Len(<<"::">>) = 1 /\ <<"::">>[1] = "::"
    BY <1>3
  <2>2. PICK d \in Seq(T) : d = <<"::">> /\ Len(d) = 1 /\ d[1] = "::"
    BY <2>1, Zenon
  <2>3. PICK one \in Nat, n \in Nat : one = 1 /\ n = m + 1
    OBVIOUS
  <2>4. /\ s \o d \in Seq(T) /\ Len(s \o d) = m + one
        /\ \A i \in 1 .. m : (s \o d)[i] = s[i]
        /\ \A i \in 1 .. one : (s \o d)[m + i] = d[i]
    <3>1. one = Len(d) /\ m = Len(s)
      BY <1>4, <2>2, <2>3
    <3>2. QED
      BY <3>1, ConcatPlaces
  <2>5. PICK u \in Seq(T) : u = s \o d /\ Len(u) = m + one
    BY <2>4, Zenon
  <2>6. (\A i \in 1 .. m : u[i] = s[i]) /\ u[n] = "::" /\ Len(u) = n
    BY <2>2, <2>3, <2>4, <2>5
  <2>7. /\ u \o t \in Seq(T) /\ Len(u \o t) = n + k
        /\ \A i \in 1 .. n : (u \o t)[i] = u[i]
        /\ \A i \in 1 .. k : (u \o t)[n + i] = t[i]
    <3>1. n = Len(u) /\ k = Len(t)
      BY <1>4, <2>6
    <3>2. QED
      BY <3>1, ConcatPlaces
  <2>8. text = u \o t
    BY <1>2, <2>2, <2>5
  <2>9. text \in Seq(T) /\ Len(text) = m + 1 + k
    BY <2>3, <2>7, <2>8
  <2>10. ASSUME NEW i \in 1 .. m PROVE text[i] = s[i]
    BY <2>3, <2>6, <2>7, <2>8
  <2>11. text[m + 1] = "::"
    BY <2>3, <2>6, <2>7, <2>8
  <2>12. ASSUME NEW i \in 1 .. k PROVE text[m + 1 + i] = t[i]
    BY <2>3, <2>7, <2>8
  <2>13. QED
    BY <2>9, <2>10, <2>11, <2>12
<1>6. DOMAIN text = 1 .. m + 1 + k /\ \A i \in 1 .. m + 1 + k : text[i] \in T
  <2>1. text \in Seq(T) /\ Len(text) = m + 1 + k
    BY <1>5
  <2>2. DOMAIN text = 1 .. Len(text)
    BY <2>1, LenProperties
  <2>3. \A i \in 1 .. Len(text) : text[i] \in T
    BY <2>1, ElementOfSeq
  <2>4. QED
    BY <2>1, <2>2, <2>3
<1>7. Doubles(text) = {m + 1}
  <2>1. ASSUME NEW i \in 1 .. m + 1 + k, i # m + 1 PROVE text[i] # "::"
    <3>1. CASE i <= m
      BY <1>1, <1>4, <1>5, <3>1
    <3>2. CASE i > m + 1
      <4>1. i - m - 1 \in 1 .. k /\ i = m + 1 + (i - m - 1)
        BY <3>2
      <4>2. text[i] = t[i - m - 1]
        BY <1>5, <4>1
      <4>3. QED
        BY <1>1, <1>4, <4>1, <4>2
    <3>3. QED
      BY <2>1, <3>1, <3>2
  <2>2. m + 1 \in 1 .. m + 1 + k
    OBVIOUS
  <2>3. QED
    BY <1>5, <1>6, <2>1, <2>2 DEF Doubles
<1>8. (CHOOSE i \in Doubles(text) : TRUE) = m + 1
  BY <1>7
<1>9. SubSeq(text, 1, m) = s /\ SubSeq(text, m + 2, m + 1 + k) = t
  <2>1. SubSeq(text, 1, m) = s
    <3>1. /\ SubSeq(text, 1, m) \in Seq(T) /\ Len(SubSeq(text, 1, m)) = m
          /\ \A i \in 1 .. m : SubSeq(text, 1, m)[i] = text[i]
      <4>1. \A i \in 1 .. m : text[i] \in T
        BY <1>6
      <4>2. /\ SubSeq(text, 1, m) \in Seq(T)
            /\ Len(SubSeq(text, 1, m)) = IF 1 <= m THEN m - 1 + 1 ELSE 0
            /\ \A i \in 1 .. m - 1 + 1 : SubSeq(text, 1, m)[i] = text[1 + i - 1]
        BY <4>1, SubSeqProperties
      <4>3. QED
        BY <4>2
    <3>2. QED
      BY <1>4, <1>5, <3>1, SeqEqual
  <2>2. SubSeq(text, m + 2, m + 1 + k) = t
    <3> DEFINE v == SubSeq(text, m + 2, m + 1 + k)
    <3>1. \A i \in m + 2 .. m + 1 + k : text[i] \in T
      BY <1>6
    <3>2. /\ v \in Seq(T)
          /\ Len(v) = IF m + 2 <= m + 1 + k THEN m + 1 + k - (m + 2) + 1 ELSE 0
          /\ \A i \in 1 .. m + 1 + k - (m + 2) + 1 : v[i] = text[m + 2 + i - 1]
      <4>1. m + 2 \in Int /\ m + 1 + k \in Int
        OBVIOUS
      <4>2. QED
        BY <3>1, <4>1, SubSeqProperties
    <3> HIDE DEF v
    <3>3. Len(v) = k /\ \A i \in 1 .. k : v[i] = text[m + 1 + i]
      <4>1. m + 1 + k - (m + 2) + 1 = k /\ (IF m + 2 <= m + 1 + k THEN m + 1 + k - (m + 2) + 1 ELSE 0) = k
        OBVIOUS
      <4>2. \A i \in 1 .. k : m + 2 + i - 1 = m + 1 + i
        OBVIOUS
      <4>3. QED
        BY <3>2, <4>1, <4>2
    <3>4. v = t
      BY <1>4, <1>5, <3>2, <3>3, SeqEqual
    <3>5. QED
      BY <3>4 DEF v
  <2>3. QED
    BY <2>1, <2>2
<1>10. PartsOf(s) = a /\ PartsOf(t) = b
  <2>1. ASSUME NEW words \in Seq(Words) PROVE PartsOf(Join(words)) = words
    <3>1. CASE words = <<>>
      BY <3>1, JoinTokens DEF PartsOf
    <3>2. CASE words # <<>>
      <4>1. Join(words) # <<>>
        BY <3>2, JoinedReads
      <4>2. Words \cap Colons = {}
        BY WordsAssumption
      <4>3. QED
        BY <3>2, <4>1, <4>2, PartsOfJoined DEF PartsOf
    <3>3. QED
      BY <3>1, <3>2
  <2>2. QED
    BY <1>1, <2>1
<1>11. Left(text) = a /\ Right(text) = b
  <2>1. Left(text) = PartsOf(SubSeq(text, 1, m + 1 - 1)) /\ Right(text) = PartsOf(SubSeq(text, m + 1 + 1, Len(text)))
    <3> DEFINE c == CHOOSE i \in Doubles(text) : TRUE
    <3>1. Doubles(text) # {} /\ c = m + 1
      BY <1>7, <1>8
    <3>2. Left(text) = PartsOf(SubSeq(text, 1, c - 1)) /\ Right(text) = PartsOf(SubSeq(text, c + 1, Len(text)))
      BY <3>1, Zenon DEF Left, Right
    <3> HIDE DEF c
    <3>3. QED
      BY <3>1, <3>2
  <2>2. m + 1 - 1 = m /\ m + 1 + 1 = m + 2
    OBVIOUS
  <2>3. QED
    BY <1>5, <1>9, <1>10, <2>1, <2>2
<1>12. text # <<>> /\ "zone" \notin ToSet(text) /\ "upper" \notin ToSet(text)
  <2>1. ToSet(text) \subseteq T
    BY <1>6 DEF ToSet
  <2>2. text # <<>>
    <3>1. m + 1 \in DOMAIN text
      BY <1>6
    <3>2. QED
      BY <3>1
  <2>3. QED
    BY <1>3, <2>1, <2>2
<1>13. QED
  BY <1>7, <1>11, <1>12 DEF text

(* The zeros a "::" stands for. *)
Filled(n) == [i \in 1 .. n |-> "0"]

(* The text that is printed for eight groups reads as these groups. *)
LEMMA FormattedReads ==
    ASSUME NEW words \in [1 .. Groups -> Words]
    PROVE  LET text == Formatted(words)
           IN /\ text # <<>> /\ "zone" \notin ToSet(text) /\ "upper" \notin ToSet(text)
              /\ ~ \E i, j \in Doubles(text) : i # j
              /\ ~(Doubles(text) = {} /\ Len(Left(text)) + Len(Right(text)) # Groups)
              /\ ~(Doubles(text) # {} /\ Len(Left(text)) + Len(Right(text)) >= Groups)
              /\ Expanded(text) = words
<1> DEFINE text == Formatted(words)
           run == LongestRun(words)
<1>1. words \in Seq(Words) /\ Len(words) = Groups /\ words # <<>>
  <2>1. words \in Seq(Words) /\ Len(words) = 8
    BY PlacesAreSeq DEF Groups
  <2>2. words # <<>>
    BY <2>1, EmptySeq
  <2>3. QED
    BY <2>1, <2>2 DEF Groups
<1>2. run \in Runs /\ Found(words, Groups, run.start, run.length)
  BY LongestRunIsFound
<1>3. text = IF run = NoRun THEN Join(words)
             ELSE Join(SubSeq(words, 1, run.start - 1)) \o <<"::">>
                  \o Join(SubSeq(words, run.start + run.length, Groups))
  BY DEF Formatted
<1> HIDE DEF text, run
<1>4. CASE run = NoRun
  <2>1. text = Join(words)
    BY <1>3, <1>4
  <2>2. /\ text # <<>> /\ "zone" \notin ToSet(text) /\ "upper" \notin ToSet(text)
        /\ Doubles(text) = {} /\ Left(text) = words /\ Right(text) = <<>>
    BY <1>1, <2>1, JoinedReads
  <2>3. Expanded(text) = words \o Filled(0) \o <<>>
    <3>1. Groups - Len(Left(text)) - Len(Right(text)) = 0
      BY <1>1, <2>2 DEF Groups
    <3>2. QED
      BY <2>2, <3>1 DEF Expanded, Filled
  <2>4. Filled(0) = <<>>
    BY DEF Filled
  <2>5. Expanded(text) = words
    BY <1>1, <2>3, <2>4, ConcatEmptySeq
  <2>6. Len(Left(text)) + Len(Right(text)) = Groups
    BY <1>1, <2>2 DEF Groups
  <2>7. QED
    BY <2>2, <2>5, <2>6 DEF text
<1>5. CASE run # NoRun
  <2>1. PICK from \in Nat, length \in Nat : from = run.start /\ length = run.length
    BY <1>2 DEF Runs
  <2>2. length # 0
    BY <1>2, <1>5, <2>1 DEF Runs, NoRun, Found
  <2>3. length >= 2 /\ from >= 1 /\ from + length - 1 <= 8 /\ \A k \in from .. from + length - 1 : words[k] = "0"
    BY <1>2, <2>1, <2>2 DEF Found, Zeros, Groups
  <2>4. \A k \in 1 .. 8 : words[k] \in Words
    BY DEF Groups
  <2> DEFINE a == SubSeq(words, 1, from - 1)
             b == SubSeq(words, from + length, 8)
  <2>5. a \in Seq(Words) /\ Len(a) = from - 1 /\ \A i \in 1 .. from - 1 : a[i] = words[i]
    <3>1. \A i \in 1 .. from - 1 : words[i] \in Words
      BY <2>3, <2>4
    <3>2. /\ a \in Seq(Words) /\ Len(a) = IF 1 <= from - 1 THEN from - 1 - 1 + 1 ELSE 0
          /\ \A i \in 1 .. from - 1 - 1 + 1 : a[i] = words[1 + i - 1]
      BY <3>1, SubSeqProperties
    <3> HIDE DEF a
    <3>3. QED
      BY <2>3, <3>2
  <2>6. PICK n \in Nat : n = 9 - from - length
    BY <2>3
  <2>7. b \in Seq(Words) /\ Len(b) = n /\ \A i \in 1 .. n : b[i] = words[from + length - 1 + i]
    <3>1. \A i \in from + length .. 8 : words[i] \in Words
      BY <2>3, <2>4
    <3>2. /\ b \in Seq(Words) /\ Len(b) = IF from + length <= 8 THEN 8 - (from + length) + 1 ELSE 0
          /\ \A i \in 1 .. 8 - (from + length) + 1 : b[i] = words[from + length + i - 1]
      BY <3>1, SubSeqProperties
    <3> HIDE DEF b
    <3>3. 8 - (from + length) + 1 = n /\ (IF from + length <= 8 THEN 8 - (from + length) + 1 ELSE 0) = n
      BY <2>3, <2>6
    <3>4. \A i \in 1 .. n : from + length + i - 1 = from + length - 1 + i
      OBVIOUS
    <3>5. QED
      BY <3>2, <3>3, <3>4
  <2>8. text = Join(a) \o <<"::">> \o Join(b)
    BY <1>3, <1>5, <2>1 DEF Groups
  <2>9. PICK l \in Seq(Words), r \in Seq(Words) : l = a /\ r = b
    BY <2>5, <2>7, Zenon
  <2> HIDE DEF a, b
  <2>10. /\ text # <<>> /\ "zone" \notin ToSet(text) /\ "upper" \notin ToSet(text)
        /\ \E i : Doubles(text) = {i}
        /\ Left(text) = a /\ Right(text) = b
    <3>1. text = Join(l) \o <<"::">> \o Join(r)
      BY <2>8, <2>9
    <3>2. LET read == Join(l) \o <<"::">> \o Join(r)
          IN /\ read # <<>> /\ "zone" \notin ToSet(read) /\ "upper" \notin ToSet(read)
             /\ \E i : Doubles(read) = {i}
             /\ Left(read) = l /\ Right(read) = r
      BY SidesRead, ZenonT(60)
    <3>3. /\ text # <<>> /\ "zone" \notin ToSet(text) /\ "upper" \notin ToSet(text)
          /\ \E i : Doubles(text) = {i}
          /\ Left(text) = l /\ Right(text) = r
      BY <3>1, <3>2, ZenonT(60)
    <3>4. QED
      BY <2>9, <3>3
  <2>11. ~(Len(Left(text)) + Len(Right(text)) >= Groups)
    <3>1. Len(Left(text)) = from - 1 /\ Len(Right(text)) = n
      BY <2>5, <2>7, <2>10
    <3>2. ~(from - 1 + n >= 8)
      BY <2>3, <2>6
    <3>3. QED
      BY <3>1, <3>2 DEF Groups
  <2>12. Expanded(text) = a \o Filled(length) \o b
    <3>1. Groups - Len(Left(text)) - Len(Right(text)) = length
      <4>1. Len(Left(text)) = from - 1 /\ Len(Right(text)) = n
        BY <2>5, <2>7, <2>10
      <4>2. 8 - (from - 1) - n = length
        BY <2>3, <2>6
      <4>3. QED
        BY <4>1, <4>2 DEF Groups
    <3>2. QED
      BY <2>10, <3>1 DEF Expanded, Filled
  <2>13. PICK f \in Seq(Words) : f = Filled(length) /\ Len(f) = length /\ \A i \in 1 .. length : f[i] = "0"
    <3>1. Filled(length) \in Seq(Words) /\ Len(Filled(length)) = length /\ \A i \in 1 .. length : Filled(length)[i] = "0"
      BY WordsAssumption DEF Filled
    <3>2. QED
      BY <3>1
  <2>14. PICK m \in Nat, k \in Nat : m = from - 1 /\ k = m + length
    BY <2>3
  <2>15. PICK u \in Seq(Words) : /\ u = l \o f /\ Len(u) = k
                                 /\ \A i \in 1 .. m : u[i] = l[i]
                                 /\ \A i \in 1 .. length : u[m + i] = f[i]
    <3>1. m = Len(l) /\ length = Len(f)
      BY <2>5, <2>9, <2>13, <2>14
    <3>2. /\ l \o f \in Seq(Words) /\ Len(l \o f) = m + length
          /\ \A i \in 1 .. m : (l \o f)[i] = l[i]
          /\ \A i \in 1 .. length : (l \o f)[m + i] = f[i]
      BY <3>1, ConcatPlaces
    <3>3. QED
      BY <2>14, <3>2
  <2>16. PICK v \in Seq(Words) : /\ v = u \o r /\ Len(v) = k + n
                                 /\ \A i \in 1 .. k : v[i] = u[i]
                                 /\ \A i \in 1 .. n : v[k + i] = r[i]
    <3>1. k = Len(u) /\ n = Len(r)
      BY <2>7, <2>9, <2>15
    <3>2. /\ u \o r \in Seq(Words) /\ Len(u \o r) = k + n
          /\ \A i \in 1 .. k : (u \o r)[i] = u[i]
          /\ \A i \in 1 .. n : (u \o r)[k + i] = r[i]
      BY <3>1, ConcatPlaces
    <3>3. QED
      BY <3>2
  <2>17. Expanded(text) = v
    BY <2>12, <2>13, <2>15, <2>16, <2>9
  <2>18. ASSUME NEW i \in 1 .. 8 PROVE v[i] = words[i]
    <3>1. CASE i <= m
      BY <2>5, <2>14, <2>15, <2>16, <2>9, <3>1, SMTT(60)
    <3>2. CASE i > m /\ i <= k
      <4>1. i - m \in 1 .. length /\ i = m + (i - m) /\ i \in 1 .. k /\ i \in from .. from + length - 1
        BY <2>14, <3>2
      <4>2. v[i] = u[i] /\ u[i] = f[i - m] /\ f[i - m] = "0"
        BY <2>13, <2>15, <2>16, <4>1
      <4>3. QED
        BY <2>3, <4>1, <4>2
    <3>3. CASE i > k
      <4>1. i - k \in 1 .. n /\ i = k + (i - k) /\ from + length - 1 + (i - k) = i
        BY <2>6, <2>14, <3>3
      <4>2. v[i] = b[i - k] /\ b[i - k] = words[i]
        BY <2>7, <2>16, <2>9, <4>1
      <4>3. QED
        BY <4>2
    <3>4. QED
      BY <2>14, <3>1, <3>2, <3>3
  <2>19. Expanded(text) = words
    <3>1. Len(v) = 8
      BY <2>6, <2>14, <2>16
    <3>2. v = words
      BY <1>1, <2>18, <3>1, SeqEqual DEF Groups
    <3>3. QED
      BY <2>17, <3>2
  <2>20. QED
    BY <2>10, <2>11, <2>19 DEF text
<1>6. QED
  BY <1>4, <1>5

(* What is printed has groups and colons only. *)
LEMMA FormattedTokens ==
    ASSUME NEW words \in [1 .. Groups -> Words]
    PROVE  Formatted(words) \in Seq(Words \cup Colons)
<1> DEFINE T == Words \cup Colons
           run == LongestRun(words)
<1>1. ASSUME NEW x \in Seq(Words) PROVE Join(x) \in Seq(T)
  <2> DEFINE S == Words \cup {":"}
  <2>1. Join(x) \in Seq(S)
    BY JoinTokens
  <2>2. S \subseteq T
    BY DEF Colons
  <2> HIDE DEF S, T
  <2>3. QED
    BY <2>1, <2>2, SeqMonotonic
<1>2. run \in Runs /\ Found(words, Groups, run.start, run.length)
  BY LongestRunIsFound
<1>3. Formatted(words) = IF run = NoRun THEN Join(words)
                         ELSE Join(SubSeq(words, 1, run.start - 1)) \o <<"::">>
                              \o Join(SubSeq(words, run.start + run.length, Groups))
  BY DEF Formatted
<1>4. words \in Seq(Words)
  BY PlacesAreSeq DEF Groups
<1>5. <<"::">> \in Seq(T)
  BY DEF Colons
<1> HIDE DEF T, run
<1>6. CASE run # NoRun
  <2>1. PICK from \in Nat, length \in Nat : from = run.start /\ length = run.length
    BY <1>2 DEF Runs
  <2>2. length # 0
    BY <1>2, <1>6, <2>1 DEF Runs, NoRun, Found
  <2>3. length >= 2 /\ from >= 1 /\ from + length - 1 <= 8
    BY <1>2, <2>1, <2>2 DEF Found, Groups
  <2>4. \A k \in 1 .. 8 : words[k] \in Words
    BY DEF Groups
  <2>5. PICK a \in Seq(Words) : a = SubSeq(words, 1, from - 1)
    <3>1. \A i \in 1 .. from - 1 : words[i] \in Words
      BY <2>3, <2>4
    <3>2. SubSeq(words, 1, from - 1) \in Seq(Words)
      BY <3>1, SubSeqProperties
    <3>3. QED
      BY <3>2
  <2>6. PICK b \in Seq(Words) : b = SubSeq(words, from + length, 8)
    <3>1. \A i \in from + length .. 8 : words[i] \in Words
      BY <2>3, <2>4
    <3>2. SubSeq(words, from + length, 8) \in Seq(Words)
      BY <3>1, SubSeqProperties
    <3>3. QED
      BY <3>2
  <2>7. Formatted(words) = Join(a) \o <<"::">> \o Join(b)
    BY <1>3, <1>6, <2>1, <2>5, <2>6 DEF Groups
  <2>8. PICK s \in Seq(T), t \in Seq(T), d \in Seq(T) : s = Join(a) /\ t = Join(b) /\ d = <<"::">>
    BY <1>1, <1>5
  <2>9. s \o d \o t \in Seq(T)
    OBVIOUS
  <2>10. QED
    BY <2>7, <2>8, <2>9 DEF T
<1>7. QED
  BY <1>1, <1>3, <1>4, <1>6 DEF T

(* So it ends in no dotted rest. *)
LEMMA FormattedEndsPlain ==
    ASSUME NEW words \in [1 .. Groups -> Words]
    PROVE  ~EndsDotted(Formatted(words))
<1> DEFINE T == Words \cup Colons
<1>1. PICK text \in Seq(T) : text = Formatted(words)
  BY FormattedTokens
<1>2. T \cap Dotted = {}
  BY WordsAssumption
<1> HIDE DEF T
<1>3. SUFFICES ASSUME text # <<>> PROVE Last(text) \notin Dotted
  BY <1>1 DEF EndsDotted
<1>4. Last(text) \in T
  BY <1>3 DEF Last
<1>5. QED
  BY <1>2, <1>4

(* The parser accepts what is printed. *)
LEMMA FormattedParses ==
    ASSUME NEW words \in [1 .. Groups -> Words]
    PROVE  ParseError(Formatted(words)) = "ok"
<1> DEFINE text == Formatted(words)
           odd == {i \in DOMAIN words : words[i] \notin Words}
<1>1. /\ text # <<>> /\ "zone" \notin ToSet(text) /\ "upper" \notin ToSet(text)
      /\ ~ \E i, j \in Doubles(text) : i # j
      /\ ~(Doubles(text) = {} /\ Len(Left(text)) + Len(Right(text)) # Groups)
      /\ ~(Doubles(text) # {} /\ Len(Left(text)) + Len(Right(text)) >= Groups)
      /\ Expanded(text) = words
  <2>1. /\ text # <<>> /\ "zone" \notin ToSet(text) /\ "upper" \notin ToSet(text)
        /\ ~ \E i, j \in Doubles(text) : i # j
        /\ ~(Doubles(text) = {} /\ Len(Left(text)) + Len(Right(text)) # Groups)
        /\ ~(Doubles(text) # {} /\ Len(Left(text)) + Len(Right(text)) >= Groups)
        /\ Expanded(text) = words
    BY FormattedReads
  <2> HIDE DEF text
  <2>2. QED
    BY <2>1
<1>2. odd = {}
  OBVIOUS
<1>3. Formatted(Expanded(text)) = text
  BY <1>1
<1> HIDE DEF text
<1>4. {i \in DOMAIN Expanded(text) : Expanded(text)[i] \notin Words} = {}
  BY <1>1, <1>2
<1>5. ~EndsDotted(text)
  BY FormattedEndsPlain DEF text
<1>6. ParseError(text) = "ok"
  BY <1>1, <1>3, <1>4, <1>5 DEF ParseError
<1>7. QED
  BY <1>6 DEF text

(* What the parser accepts is what is printed for the groups it reads, if it does not end
   in a dotted rest. *)
LEMMA ParsedIsFormatted ==
    ASSUME NEW text, text \in Seq(ToSet(text)), ParseError(text) = "ok", ~EndsDotted(text)
    PROVE  \E words \in [1 .. Groups -> Words] : Formatted(words) = text
<1> DEFINE words == Expanded(text)
<1>1. /\ Doubles(text) = {} => Len(Left(text)) + Len(Right(text)) = Groups
      /\ Doubles(text) # {} => ~(Len(Left(text)) + Len(Right(text)) >= Groups)
      /\ {i \in DOMAIN words : words[i] \notin Words} = {}
      /\ Formatted(words) = text
  BY DEF ParseError
<1> DEFINE T == ToSet(text) \cup {Nothing, "0"}
<1>2. ASSUME NEW side \in Seq(T) PROVE Parts(side) \in Seq(T) /\ PartsOf(side) \in Seq(T)
  <2>1. Parts(side) \in Seq(T)
    BY PartsAreTokens
  <2>2. <<>> \in Seq(T)
    OBVIOUS
  <2>3. QED
    BY <2>1, <2>2 DEF PartsOf
<1>3. text \in Seq(T)
  <2>1. ToSet(text) \subseteq T
    OBVIOUS
  <2> HIDE DEF T
  <2>2. QED
    BY <2>1, SeqMonotonic
<1>4. Left(text) \in Seq(T) /\ Right(text) \in Seq(T)
  <2>1. CASE Doubles(text) = {}
    <3>1. <<>> \in Seq(T)
      OBVIOUS
    <3>2. QED
      BY <1>2, <1>3, <2>1, <3>1 DEF Left, Right
  <2>2. CASE Doubles(text) # {}
    <3> DEFINE c == CHOOSE i \in Doubles(text) : TRUE
    <3>1. c \in DOMAIN text
      BY <2>2 DEF Doubles
    <3>2. Left(text) = PartsOf(SubSeq(text, 1, c - 1)) /\ Right(text) = PartsOf(SubSeq(text, c + 1, Len(text)))
      BY <2>2, Zenon DEF Left, Right
    <3> HIDE DEF c, T
    <3>3. PICK n \in Nat : n = Len(text) /\ c \in 1 .. n /\ \A i \in 1 .. n : text[i] \in T
      BY <1>3, <3>1
    <3>4. SubSeq(text, 1, c - 1) \in Seq(T)
      <4>1. \A i \in 1 .. c - 1 : text[i] \in T
        BY <3>3
      <4>2. QED
        BY <3>3, <4>1, SubSeqProperties
    <3>5. SubSeq(text, c + 1, n) \in Seq(T)
      <4>1. \A i \in c + 1 .. n : text[i] \in T
        BY <3>3
      <4>2. QED
        BY <3>3, <4>1, SubSeqProperties
    <3>6. QED
      BY <1>2, <3>2, <3>3, <3>4, <3>5
  <2>3. QED
    BY <2>1, <2>2
<1>5. words = Left(text) \o Filled(Groups - Len(Left(text)) - Len(Right(text))) \o Right(text)
  BY DEF Expanded, Filled
<1> HIDE DEF words
<1>6. PICK a \in Seq(T), b \in Seq(T) : a = Left(text) /\ b = Right(text)
  BY <1>4
<1>7. PICK n \in Nat, m \in Nat : n = Len(a) /\ m = Len(b)
  BY LenProperties
<1>8. PICK k \in Nat : k = 8 - n - m
  <2>1. n + m <= 8
    BY <1>1, <1>6, <1>7 DEF Groups
  <2>2. 8 - n - m \in Nat
    BY <2>1
  <2>3. QED
    BY <2>2
<1>9. words = a \o Filled(k) \o b
  BY <1>5, <1>6, <1>8, <1>7 DEF Groups
<1>10. PICK f \in Seq(T) : f = Filled(k) /\ Len(f) = k
  <2>1. Filled(k) \in Seq(T) /\ Len(Filled(k)) = k
    BY DEF Filled
  <2>2. QED
    BY <2>1
<1> HIDE DEF T
<1>11. words \in Seq(T) /\ Len(words) = 8
  <2>1. PICK l \in Nat : l = n + k
    OBVIOUS
  <2>2. PICK u \in Seq(T) : u = a \o f /\ Len(u) = l
    <3>1. n = Len(a) /\ k = Len(f)
      BY <1>10, <1>7
    <3>2. a \o f \in Seq(T) /\ Len(a \o f) = n + k
      BY <3>1, ConcatPlaces
    <3>3. QED
      BY <2>1, <3>2
  <2>3. u \o b \in Seq(T) /\ Len(u \o b) = l + m
    <3>1. l = Len(u) /\ m = Len(b)
      BY <1>7, <2>2
    <3>2. QED
      BY <3>1, ConcatPlaces
  <2>4. words = u \o b
    BY <1>9, <1>10, <2>2
  <2>5. l + m = 8
    BY <1>8, <2>1
  <2>6. QED
    BY <2>3, <2>4, <2>5
<1>12. DOMAIN words = 1 .. 8 /\ words \in [1 .. 8 -> T]
  <2>1. DOMAIN words = 1 .. Len(words) /\ words \in [1 .. Len(words) -> T]
    BY <1>11, LenProperties
  <2>2. QED
    BY <1>11, <2>1
<1>13. words \in [1 .. 8 -> Words]
  BY <1>1, <1>12
<1>14. QED
  BY <1>1, <1>13 DEF Groups

(* A sequence of known length is the tuple of its elements. *)
LEMMA IsItsTuple ==
    ASSUME NEW S, NEW s \in Seq(S)
    PROVE  /\ Len(s) = 3 => s = <<s[1], s[2], s[3]>>
           /\ Len(s) = 4 => s = <<s[1], s[2], s[3], s[4]>>
<1>1. ASSUME Len(s) = 3 PROVE s = <<s[1], s[2], s[3]>>
  <2>1. PICK a \in S, b \in S, c \in S : a = s[1] /\ b = s[2] /\ c = s[3]
    BY <1>1
  <2>2. <<a, b, c>> \in Seq(S) /\ Len(<<a, b, c>>) = 3
    OBVIOUS
  <2>3. \A i \in 1 .. 3 : s[i] = <<a, b, c>>[i]
    <3>1. \A i \in 1 .. 3 : i = 1 \/ i = 2 \/ i = 3
      OBVIOUS
    <3>2. QED
      BY <2>1, <3>1
  <2>4. s = <<a, b, c>>
    BY <1>1, <2>2, <2>3, SeqEqual
  <2>5. QED
    BY <2>1, <2>4
<1>2. ASSUME Len(s) = 4 PROVE s = <<s[1], s[2], s[3], s[4]>>
  <2>0. \A i \in 1 .. 4 : s[i] \in S
    BY <1>2, ElementOfSeq
  <2>1. PICK a \in S, b \in S, c \in S, d \in S : a = s[1] /\ b = s[2] /\ c = s[3] /\ d = s[4]
    <3>1. 1 \in 1 .. 4 /\ 2 \in 1 .. 4 /\ 3 \in 1 .. 4 /\ 4 \in 1 .. 4
      OBVIOUS
    <3>2. s[1] \in S /\ s[2] \in S /\ s[3] \in S /\ s[4] \in S
      BY <2>0, <3>1, Zenon
    <3>3. QED
      BY <3>2, Zenon
  <2>2. <<a, b, c, d>> \in Seq(S) /\ Len(<<a, b, c, d>>) = 4
    OBVIOUS
  <2>3. \A i \in 1 .. 4 : s[i] = <<a, b, c, d>>[i]
    <3>1. \A i \in 1 .. 4 : i = 1 \/ i = 2 \/ i = 3 \/ i = 4
      OBVIOUS
    <3>2. QED
      BY <2>1, <3>1
  <2>4. s = <<a, b, c, d>>
    BY <1>2, <2>2, <2>3, SeqEqual
  <2>5. QED
    BY <2>1, <2>4
<1>3. QED
  BY <1>1, <1>2

(* A text with a dotted rest is accepted if it is one of the two embedding prefixes with an
   IPv4 address. *)
LEMMA DottedParses ==
    ASSUME NEW text, text \in Seq(ToSet(text)), EndsDotted(text)
    PROVE  ParseError(text) = "ok" <=> text \in DottedTexts
<1>1. PICK n \in Nat \ {0} : n = Len(text) /\ DOMAIN text = 1 .. n
  BY DEF EndsDotted
<1>2. PICK lead, rest : lead = Front(text) /\ rest = Last(text)
  OBVIOUS
<1>3. /\ lead \in Seq(ToSet(text)) /\ Len(lead) = n - 1 /\ rest = text[n]
      /\ \A i \in 1 .. n - 1 : lead[i] = text[i]
  BY <1>1, <1>2 DEF Front, Last
<1>4. ASSUME NEW quad \in Quads, text = <<"::", "ffff", ":", quad>> \/ text = <<"64", ":", "ff9b", "::", quad>>
      PROVE  ParseError(text) = "ok"
  <2>1. quad \in Dotted /\ quad # "zone" /\ quad # "upper"
    BY WordsAssumption
  <2>2. CASE text = <<"::", "ffff", ":", quad>>
    <3>0. n = 4 /\ text[1] = "::" /\ text[2] = "ffff" /\ text[3] = ":" /\ text[4] = quad
      BY <1>1, <2>2
    <3>1. n = 4 /\ rest = quad /\ lead = <<"::", "ffff", ":">>
      <4>1. rest = quad /\ Len(lead) = 3 /\ lead[1] = "::" /\ lead[2] = "ffff" /\ lead[3] = ":"
        BY <1>3, <3>0
      <4>2. lead = <<lead[1], lead[2], lead[3]>>
        BY <1>3, <4>1, IsItsTuple
      <4>3. QED
        BY <3>0, <4>1, <4>2
    <3>2. text # <<>> /\ ToSet(text) = {"::", "ffff", ":", quad}
      BY <2>2 DEF ToSet
    <3>3. DottedError(text) = "ok"
      BY <1>2, <3>1 DEF DottedError, Leads
    <3>4. QED
      BY <2>1, <3>2, <3>3 DEF ParseError
  <2>3. CASE text = <<"64", ":", "ff9b", "::", quad>>
    <3>0. n = 5 /\ text[1] = "64" /\ text[2] = ":" /\ text[3] = "ff9b" /\ text[4] = "::" /\ text[5] = quad
      BY <1>1, <2>3
    <3>1. n = 5 /\ rest = quad /\ lead = <<"64", ":", "ff9b", "::">>
      <4>1. /\ rest = quad /\ Len(lead) = 4 /\ lead[1] = "64" /\ lead[2] = ":" /\ lead[3] = "ff9b"
            /\ lead[4] = "::"
        BY <1>3, <3>0
      <4>2. lead = <<lead[1], lead[2], lead[3], lead[4]>>
        BY <1>3, <4>1, IsItsTuple
      <4>3. QED
        BY <3>0, <4>1, <4>2
    <3>2. text # <<>> /\ ToSet(text) = {"64", ":", "ff9b", "::", quad}
      BY <2>3 DEF ToSet
    <3>3. DottedError(text) = "ok"
      BY <1>2, <3>1 DEF DottedError, Leads
    <3>4. QED
      BY <2>1, <3>2, <3>3 DEF ParseError
  <2>4. QED
    BY <1>4, <2>2, <2>3
<1>5. ASSUME ParseError(text) = "ok"
      PROVE  text \in DottedTexts
  <2>1. DottedError(text) = "ok"
    BY <1>5 DEF ParseError
  <2>2. lead \in Leads /\ rest \in Quads
    BY <1>2, <2>1 DEF DottedError
  <2>3. CASE lead = <<"::", "ffff", ":">>
    <3>1. n = 4 /\ text[1] = "::" /\ text[2] = "ffff" /\ text[3] = ":" /\ text[4] = rest
      BY <1>3, <2>3
    <3>2. text = <<"::", "ffff", ":", rest>>
      BY <1>1, <3>1
    <3>3. QED
      BY <2>2, <3>2 DEF DottedTexts
  <2>4. CASE lead = <<"64", ":", "ff9b", "::">>
    <3>1. n = 5 /\ text[1] = "64" /\ text[2] = ":" /\ text[3] = "ff9b" /\ text[4] = "::" /\ text[5] = rest
      BY <1>3, <2>4
    <3>2. text = <<"64", ":", "ff9b", "::", rest>>
      BY <1>1, <3>1
    <3>3. QED
      BY <2>2, <3>2 DEF DottedTexts
  <2>5. QED
    BY <2>2, <2>3, <2>4 DEF Leads
<1>6. QED
  BY <1>4, <1>5 DEF DottedTexts

(* The texts the parser accepts are those of RFC 5952 and the dotted ones. *)
LEMMA ParsesTheCanonical ==
    ASSUME NEW text, text \in Seq(ToSet(text))
    PROVE  ParseError(text) = "ok" <=> text \in CanonicalTexts \cup DottedTexts
<1>1. ASSUME NEW words \in [1 .. Groups -> Words] PROVE Canonical(words) = {Formatted(words)}
  BY FormattedIsCanonical
<1>2. text \in CanonicalTexts <=> \E words \in [1 .. Groups -> Words] : Formatted(words) = text
  BY <1>1 DEF CanonicalTexts
<1>3. CASE EndsDotted(text)
  <2>1. text \notin CanonicalTexts
    BY <1>2, <1>3, FormattedEndsPlain
  <2>2. QED
    BY <1>3, <2>1, DottedParses
<1>4. CASE ~EndsDotted(text)
  <2>1. text \notin DottedTexts
    <3>1. ASSUME NEW quad \in Quads
          PROVE  EndsDotted(<<"::", "ffff", ":", quad>>) /\ EndsDotted(<<"64", ":", "ff9b", "::", quad>>)
      BY WordsAssumption DEF EndsDotted, Last
    <3>2. QED
      BY <1>4, <3>1 DEF DottedTexts
  <2>2. QED
    BY <1>2, <1>4, <2>1, FormattedParses, ParsedIsFormatted
<1>5. QED
  BY <1>3, <1>4

-----------------------------------------------------------------------------
(* Both together.                                                          *)

(* Registries leave no bypass, for an address of either family. *)
LEMMA JudgedIsNoBypass ==
    ASSUME NEW digits \in Addresses
    PROVE  Judged(digits) <=> NoBypass(digits)
<1>1. CASE digits \in [1 .. 4 -> Nat]
  <2>1. Len(digits) = 4
    BY <1>1, PlacesAreSeq
  <2>2. Judged(digits) <=> Judged4(digits)
    BY <2>1 DEF Judged
  <2>3. NoBypass(digits) <=> Overruled(Combined4, digits, 8)
    BY <2>1 DEF NoBypass
  <2>4. QED
    BY <1>1, <2>2, <2>3, Judged4IsOverruled
<1>2. CASE digits \in [1 .. 8 -> Nat] /\ \A i \in 1 .. 8 : digits[i] < 2^16
  <2>1. Len(digits) = 8
    BY <1>2, PlacesAreSeq
  <2>2. IsGroups(digits)
    <3>1. 2^16 = 65536
      BY Powers
    <3>2. QED
      BY <1>2, <3>1 DEF IsGroups
  <2>3. Judged(digits) <=> Judged6(digits)
    BY <2>1 DEF Judged
  <2>4. NoBypass(digits) <=> PassesRows(digits)
    BY <2>1 DEF NoBypass, PassesRows, Reaches, StowedPass, Unicast, InUnicast
  <2>5. Judged6(digits) <=> PassesRows(digits)
    BY <2>2, Judged6IsNoBypass, ZenonT(60)
  <2>6. QED
    BY <2>3, <2>4, <2>5
<1>3. QED
  BY <1>1, <1>2, InputsAssumption

(* Nothing but the parser answers about a text, and nothing but the registries about an address. *)
AnswersOnce ==
    /\ asked \in {"records", "url", "text", "address"}
    /\ asked = "text" => question \in Spellings /\ verdict \in {"open", ParseError(question)}
    /\ asked = "address" =>
          question \in Addresses /\ verdict \in {"open", IF Judged(question) THEN "ok" ELSE "forbidden"}

(* Every step keeps to that. *)
LEMMA NextAnswersOnce ==
    ASSUME AnswersOnce, [Next]_vars
    PROVE  AnswersOnce'
<1>1. CASE RefuseSet \/ TakeRecord \/ FinishSet
  <2>1. asked = "records" /\ asked' = "records"
    BY <1>1 DEF RefuseSet, TakeRecord, FinishSet, Close, Approve
  <2>2. QED
    BY <2>1 DEF AnswersOnce
<1>2. CASE RefuseUrl \/ DecodePass \/ FinishUrl
  <2>1. asked = "url" /\ asked' = "url"
    BY <1>2 DEF RefuseUrl, DecodePass, FinishUrl, Close
  <2>2. QED
    BY <2>1 DEF AnswersOnce
<1>3. CASE ParseText
  <2>1. asked = "text" /\ asked' = asked /\ question' = question /\ verdict' = ParseError(question)
    BY <1>3 DEF ParseText, Close
  <2>2. QED
    BY <2>1 DEF AnswersOnce
<1>4. CASE JudgeAddress
  <2>1. /\ asked = "address" /\ asked' = asked /\ question' = question
        /\ verdict' = IF Judged(question) THEN "ok" ELSE "forbidden"
    BY <1>4 DEF JudgeAddress, Close
  <2>2. QED
    BY <2>1 DEF AnswersOnce
<1>5. CASE UNCHANGED vars
  BY <1>5 DEF vars, AnswersOnce
<1>6. QED
  BY <1>1, <1>2, <1>3, <1>4, <1>5 DEF Next

(* The parser accepts exactly the hexadecimal texts RFC 5952 asks for, one for each address, and
   a dotted one besides for the two prefixes that embed an IPv4 address; and of every
   address exactly those are let through that no row of the registries forbids, themselves or
   in what they carry: formatRfc5952's one scan and the longest-prefix choice for all inputs. *)
THEOREM AddressesAlwaysUnderstood == Spec => []AddressesAreUnderstood
<1>1. Init => AnswersOnce
  BY DEF Init, AnswersOnce
<1>2. AnswersOnce => AddressesAreUnderstood
  <2>1. SUFFICES ASSUME AnswersOnce PROVE TextsAreCanonical /\ RegistriesLeaveNoBypass
    BY DEF AddressesAreUnderstood
  <2>2. TextsAreCanonical
    <3>1. SUFFICES ASSUME asked = "text", verdict # "open"
                   PROVE  verdict = "ok" <=> question \in CanonicalTexts \cup DottedTexts
      BY DEF TextsAreCanonical
    <3>2. question \in Seq(ToSet(question)) /\ verdict = ParseError(question)
      BY <2>1, <3>1, InputsAssumption DEF AnswersOnce
    <3>3. QED
      BY <3>2, ParsesTheCanonical
  <2>3. RegistriesLeaveNoBypass
    <3>1. SUFFICES ASSUME asked = "address", verdict # "open"
                   PROVE  verdict = "ok" <=> NoBypass(question)
      BY DEF RegistriesLeaveNoBypass
    <3>2. question \in Addresses /\ verdict = IF Judged(question) THEN "ok" ELSE "forbidden"
      BY <2>1, <3>1 DEF AnswersOnce
    <3>3. Judged(question) <=> NoBypass(question)
      BY <3>2, JudgedIsNoBypass
    <3>4. QED
      BY <3>2, <3>3
  <2>4. QED
    BY <2>2, <2>3
<1>3. QED
  BY <1>1, <1>2, NextAnswersOnce, PTL DEF Spec
=============================================================================
