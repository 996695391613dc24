------------------------ MODULE ProjectCommandsProofs ------------------------
(***************************************************************************)
(* What holds of a project for any files, proposals, templates, plugins    *)
(* and catalogs, and any number of commands, edits and kills.              *)
(***************************************************************************)
EXTENDS ProjectCommands, SequenceTheorems, FiniteSetTheorems, TLAPS

(***************************************************************************)
(* The inductive invariant, part by part.                                  *)
(***************************************************************************)
Pending == [status |-> "pending", block |-> "none", operations |-> <<>>]

Running ==
  /\ cmd.kind \in {"hung", "apply"} \cup MemoryKinds \cup InstallKinds
  /\ cmd = [kind |-> cmd.kind, todo |-> cmd.todo, force |-> cmd.force,
            carried |-> cmd.carried, existed |-> cmd.existed]
  /\ cmd.existed \subseteq Paths

Sequence(s) == s \in Seq(ToSet(s))

Typed ==
  /\ files \in [Paths -> Content] /\ backups \in [Paths -> Content]
  /\ index \in Reports \cup {Absent, Torn} /\ summary \in Reports \cup {Absent, Torn}
  /\ handoff \in Handoffs \cup {Absent}
  /\ plan \in Nat /\ commands \in Nat
  /\ feedback \in Seq(Items)
  /\ proposals \in [Ids -> Drafts \cup {Absent, Pending}]
  /\ Sequence(applyLog)
  /\ cmd = Idle \/ Running

(* No command deletes a file.                                              *)
NothingDeleted == cmd # Idle => \A p \in cmd.existed : files[p] # Absent

(* An operation that has passed the gates, measured against the texts that *)
(* were there when it did.                                                 *)
Passed(op, before) ==
  /\ op.type \in {"create_file", "append_line", "replace_text"}
  /\ op.path \in Paths
  /\ op.type = "create_file" => before[op.path] = Absent \/ op.overwrite
  /\ op.type = "replace_text" =>
       /\ before[op.path] # Absent
       /\ \/ Matches(before[op.path], op.find) = 1
          \/ Matches(before[op.path], op.find) > 1 /\ op.allow_multiple

Validated(r) ==
  /\ r = [id |-> r.id, operations |-> r.operations, files_changed |-> r.files_changed,
          before |-> r.before, after |-> r.after, status |-> r.status, reason |-> r.reason]
  /\ r.operations \in Seq(Operations)
  /\ r.files_changed = Named(r.operations)
  /\ r.before \in [r.files_changed -> Content]
  /\ \A op \in ToSet(r.operations) : Passed(op, r.before)

(* No other operation names the file that this one names.                  *)
Alone(ops, k) == \A j \in 1 .. Len(ops) : ops[j].path = ops[k].path => j = k

(* The first done operations have had their effect, on files that are as   *)
(* they were before, as far as they are alone on their files.              *)
Progress(r, done) ==
  \A k \in 1 .. Len(r.operations) :
    LET p == r.operations[k].path
    IN  Alone(r.operations, k) =>
        files[p] = IF k <= done THEN Effect(r.operations[k], r.before[p]) ELSE r.before[p]

(* An apply has some last operations of its record still to do and then    *)
(* writes the record.                                                      *)
ApplyInOrder ==
  cmd.kind = "apply" =>
    LET r == cmd.carried
        done == Len(r.operations) + 1 - Len(cmd.todo)
    IN  /\ Validated(r)
        /\ cmd.todo \in Seq(Operations \cup {LogIt})
        /\ Len(cmd.todo) > 0 /\ done >= 0
        /\ cmd.todo[Len(cmd.todo)] = LogIt
        /\ \A k \in 1 .. Len(cmd.todo) - 1 : cmd.todo[k] = r.operations[done + k]
        /\ \A p \in r.files_changed : r.before[p] # Absent => p \in cmd.existed
        /\ r.status = "success" => Progress(r, done)

(* What AppliedAsValidated says of one record.                             *)
Truthful(r) ==
  LET ops == r.operations
  IN  r.status = "success" =>
        \A k \in DOMAIN ops :
          (\A j \in DOMAIN ops : ops[j].path = ops[k].path => j = k)
            => AsAsked(ops[k], r.before[ops[k].path], r.after[ops[k].path])

LogIsTruthful == \A n \in DOMAIN applyLog : Truthful(applyLog[n])

UnloggedIsNamed ==
  ~excused => IF cmd.kind = "apply" THEN unlogged \subseteq cmd.carried.files_changed
                                    ELSE unlogged = {}

(* A process that is about to write the index or the summary carries what  *)
(* it writes, stamped by its own start; the summary follows the index.     *)
MemoryInOrder ==
  cmd.kind \in MemoryKinds =>
    /\ cmd.todo \in Seq({"report", "memory", "rules", "index", "summary"})
    /\ Len(cmd.todo) > 0
    /\ \A k \in 1 .. Len(cmd.todo) :
         cmd.todo[k] \in {"index", "summary"} =>
           /\ cmd.carried \in Reports /\ cmd.carried.stamp = commands
           /\ \/ k = 1 /\ cmd.todo[k] = "index" /\ Len(cmd.todo) > 1
              \/ k = 1 /\ cmd.todo[k] = "summary" /\ index = cmd.carried
              \/ k = 2 /\ cmd.todo[k] = "summary" /\ cmd.todo[1] = "index"

StampsArePast ==
  /\ index \in Reports => index.stamp <= commands
  /\ summary \in Reports => summary.stamp <= commands

(* An installing command has copies to make; only the first can have had   *)
(* its backup made, and then the backup is what is there.                  *)
Copy == [path : Paths, text : Text, mode : {"plain", "skip", "backup"}, saved : BOOLEAN]

InstallInOrder ==
  cmd.kind \in InstallKinds =>
    /\ cmd.todo \in Seq(Copy \cup {Enable}) /\ Len(cmd.todo) > 0
    /\ \A k \in 1 .. Len(cmd.todo) :
         /\ cmd.todo[k].mode \in {"plain", "enable"} => cmd.kind = "init"
         /\ cmd.todo[k].mode # "enable" /\ cmd.todo[k].saved =>
              k = 1 /\ backups[cmd.todo[k].path] = files[cmd.todo[k].path]
         /\ cmd.todo[k].mode = "enable" =>
              \/ files[ConfigPath] # Absent
              \/ \E j \in 1 .. k - 1 : cmd.todo[j].mode = "plain" /\ cmd.todo[j].path = ConfigPath
         /\ ~cmd.force /\ cmd.todo[k].path \in cmd.existed =>
              \/ cmd.todo[k].mode = "skip"
              \/ cmd.kind = "init" /\ cmd.todo[k].path = RulesFile.path

(* An asset is there, or about to be written, only after its manifest.     *)
ManifestFirst ==
  \A p \in AllPlugins : Installable(p) =>
    \A a \in ToSet(p.assets) :
      /\ files[p.manifest.path] = Absent => files[a.path] = Absent
      /\ cmd.kind \in InstallKinds /\ files[p.manifest.path] = Absent =>
           \A k \in 1 .. Len(cmd.todo) :
             cmd.todo[k].path = a.path => cmd.todo[1].path = p.manifest.path

(* The manifest of a plugin that can be installed is missing, empty, or of *)
(* some version of the plugin, and so is what is about to be written.      *)
ManifestTexts(m) == {q.manifest.text : q \in {r \in AllPlugins : r.manifest.path = m}}

ManifestsAreKnown ==
  \A p \in AllPlugins : Installable(p) =>
    LET m == p.manifest.path
    IN  /\ files[m] \in ManifestTexts(m) \cup {Absent, <<>>}
        /\ cmd.kind \in InstallKinds =>
             \A k \in 1 .. Len(cmd.todo) :
               cmd.todo[k].path = m => cmd.todo[k].text \in ManifestTexts(m)

IInv ==
  /\ Typed /\ NothingDeleted
  /\ ApplyInOrder /\ LogIsTruthful /\ UnloggedIsNamed
  /\ MemoryInOrder /\ StampsArePast /\ IndexNeverBehindSummary
  /\ InstallInOrder /\ ManifestFirst /\ ManifestsAreKnown

(***************************************************************************)
(* Facts about texts and operations.                                       *)
(***************************************************************************)
(* A text is not Absent, and a file of a project is a text or Absent.      *)
LEMMA TextIsThere == \A t \in Text : t # Absent /\ DOMAIN t = 1 .. Len(t) /\ Len(t) \in Nat
BY FilesAssumption DEF Text

(* The matches of a text can be counted.                                   *)
LEMMA MatchesIsNat ==
  ASSUME NEW t \in Text, NEW find
  PROVE  Matches(t, find) \in Nat
<1> DEFINE M == {k \in DOMAIN t : t[k] = find}
<1>1. IsFiniteSet(1 .. Len(t))
  BY TextIsThere, FS_Interval
<1>2. IsFiniteSet(M)
  BY <1>1, TextIsThere, FS_Subset
<1> QED
  BY <1>2, FS_CardinalityType DEF Matches

(* A sequence of one element, and a sequence as a function.                *)
LEMMA OneElement ==
  ASSUME NEW S, NEW x \in S
  PROVE  <<x>> \in Seq(S) /\ Len(<<x>>) = 1 /\ <<x>>[1] = x
OBVIOUS

LEMMA SeqIsFunction ==
  ASSUME NEW S, NEW s \in Seq(S)
  PROVE  DOMAIN s = 1 .. Len(s) /\ s = [i \in 1 .. Len(s) |-> s[i]]
BY LenProperties

(* A set of numbers has a smallest one.                                    *)
LEMMA SmallestOf ==
  ASSUME NEW M \in SUBSET Nat, M # {}
  PROVE  \E k \in M : \A m \in M : k <= m
<1>1. PICK k \in M : \A m \in M : ~(<<m, k>> \in OpToRel(<, Nat))
  BY NatLessThanWellFounded, WFMin, Zenon
<1>2. ASSUME NEW m \in M
      PROVE  k <= m
  <2>1. ~(m < k)
    BY <1>1 DEF OpToRel
  <2> QED
    BY <2>1
<1> QED
  BY <1>2

(* The lines up to a line, and those from one on, are lines.               *)
LEMMA SubSeqOfText ==
  ASSUME NEW text \in Seq(STRING), NEW i \in 1 .. Len(text) + 1, NEW j \in 0 .. Len(text)
  PROVE  SubSeq(text, i, j) \in Seq(STRING)
<1>1. \A k \in i .. j : text[k] \in STRING
  BY LenProperties, ElementOfSeq
<1> QED
  BY <1>1, SubSeqProperties, LenProperties

(* What occurs in a text has a first place there.                          *)
LEMMA FirstMatch ==
  ASSUME NEW text \in Text, NEW find, Matches(text, find) # 0
  PROVE  FirstAt(text, find) \in 1 .. Len(text) /\ text[FirstAt(text, find)] = find
<1> DEFINE M == {k \in DOMAIN text : text[k] = find}
<1>1. Len(text) \in Nat /\ DOMAIN text = 1 .. Len(text)
  BY LenProperties DEF Text
<1>2. M # {}
  BY FS_EmptySet DEF Matches
<1>3. M \subseteq Nat
  BY <1>1
<1>4. PICK k \in M : \A m \in M : k <= m
  <2> HIDE DEF M
  <2> QED
    BY <1>2, <1>3, SmallestOf
<1>5. k \in DOMAIN text /\ text[k] = find /\ \A m \in 1 .. k - 1 : text[m] # find
  BY <1>1, <1>4
<1> QED
  BY <1>1, <1>5 DEF FirstAt

(* With one match, the match has one place.                                *)
LEMMA OneMatch ==
  ASSUME NEW text \in Text, NEW find, Matches(text, find) = 1,
         NEW i \in DOMAIN text, NEW j \in DOMAIN text, text[i] = find, text[j] = find
  PROVE  i = j
<1> DEFINE M == {k \in DOMAIN text : text[k] = find}
<1>1. IsFiniteSet(M) /\ Cardinality(M) = 1
  <2>1. IsFiniteSet(1 .. Len(text))
    BY TextIsThere, FS_Interval
  <2> QED
    BY <2>1, TextIsThere, FS_Subset DEF Matches
<1>2. PICK m : M = {m}
  <2> HIDE DEF M
  <2> QED
    BY <1>1, FS_Singleton
<1>3. i \in M /\ j \in M
  OBVIOUS
<1> QED
  BY <1>2, <1>3

(* Where a text occurs once, replacing its first occurrence is replacing   *)
(* all of them, unless the replacement reads as a pattern.                 *)
LEMMA ReplacedOnce ==
  ASSUME NEW text \in Text, NEW find, NEW new \in STRING, new \notin Patterns,
         Matches(text, find) = 1
  PROVE  ReplaceFirst(text, find, new) = [k \in DOMAIN text |-> IF text[k] = find THEN new ELSE text[k]]
<1>1. text \in Seq(STRING) /\ Len(text) \in Nat /\ DOMAIN text = 1 .. Len(text)
  BY LenProperties DEF Text
<1>2. Matches(text, find) # 0
  OBVIOUS
<1>3. PICK k \in 1 .. Len(text) : k = FirstAt(text, find) /\ text[k] = find
  BY <1>2, FirstMatch
<1>4. PICK n, before, after, middle :
        /\ n = Len(text)
        /\ before = SubSeq(text, 1, k - 1) /\ after = SubSeq(text, k + 1, n) /\ middle = <<new>>
  OBVIOUS
<1>5. ReplaceFirst(text, find, new) = before \o middle \o after
  <2>1. Inserted(new, before, find, after) = middle
    BY <1>4 DEF Inserted, Patterns
  <2>2. ReplaceFirst(text, find, new) = before \o Inserted(new, before, find, after) \o after
    BY <1>2, <1>3, <1>4 DEF ReplaceFirst
  <2> QED
    BY <2>1, <2>2
<1>6. /\ before \in Seq(STRING) /\ Len(before) = k - 1 /\ \A i \in 1 .. k - 1 : before[i] = text[i]
      /\ after \in Seq(STRING) /\ Len(after) = n - k /\ \A i \in 1 .. n - k : after[i] = text[k + i]
  <2>1. k \in Int /\ n \in Int /\ 1 \in Int /\ k - 1 \in Int /\ k + 1 \in Int
    BY <1>1, <1>3, <1>4
  <2>2. \A i \in 1 .. n : text[i] \in STRING
    BY <1>1, <1>4, ElementOfSeq
  <2>3. /\ \A i \in 1 .. k - 1 : text[i] \in STRING
        /\ \A i \in k + 1 .. n : text[i] \in STRING
    BY <1>1, <1>3, <1>4, <2>2
  <2>4. /\ before \in Seq(STRING)
        /\ Len(before) = IF 1 <= k - 1 THEN (k - 1) - 1 + 1 ELSE 0
        /\ \A i \in 1 .. (k - 1) - 1 + 1 : before[i] = text[1 + i - 1]
    BY <1>4, <2>1, <2>3, SubSeqProperties
  <2>5. /\ after \in Seq(STRING)
        /\ Len(after) = IF k + 1 <= n THEN n - (k + 1) + 1 ELSE 0
        /\ \A i \in 1 .. n - (k + 1) + 1 : after[i] = text[k + 1 + i - 1]
    BY <1>4, <2>1, <2>3, SubSeqProperties
  <2>6. k \in Int /\ n \in Int /\ 1 <= k /\ k <= n
    BY <1>1, <1>3, <1>4
  <2>7. /\ (k - 1) - 1 + 1 = k - 1 /\ n - (k + 1) + 1 = n - k
        /\ (IF 1 <= k - 1 THEN (k - 1) - 1 + 1 ELSE 0) = k - 1
        /\ (IF k + 1 <= n THEN n - (k + 1) + 1 ELSE 0) = n - k
    BY <2>6
  <2>8. /\ \A i \in 1 .. k - 1 : 1 + i - 1 = i
        /\ \A i \in 1 .. n - k : k + 1 + i - 1 = k + i
    BY <2>6
  <2> QED
    BY <2>4, <2>5, <2>7, <2>8
<1>7. middle \in Seq(STRING) /\ Len(middle) = 1 /\ middle[1] = new
  BY <1>4, OneElement
<1>8. PICK head : head = before \o middle
  OBVIOUS
<1>9. /\ head \in Seq(STRING) /\ Len(head) = k /\ head[k] = new
      /\ \A i \in 1 .. k - 1 : head[i] = text[i]
  <2>1. /\ head \in Seq(STRING) /\ Len(head) = (k - 1) + 1
        /\ \A i \in 1 .. (k - 1) + 1 : head[i] = IF i <= k - 1 THEN before[i] ELSE middle[i - (k - 1)]
    <3>1. /\ head \in Seq(STRING) /\ Len(head) = Len(before) + Len(middle)
          /\ \A i \in 1 .. Len(before) + Len(middle) :
               head[i] = IF i <= Len(before) THEN before[i] ELSE middle[i - Len(before)]
      BY <1>6, <1>7, <1>8, ConcatProperties, Zenon
    <3> QED
      BY <1>6, <1>7, <3>1, Zenon
  <2>2. (k - 1) + 1 = k /\ k - (k - 1) = 1 /\ k \in 1 .. k /\ ~(k <= k - 1)
    BY <1>1, <1>3
  <2>3. \A i \in 1 .. k - 1 : i \in 1 .. k /\ i <= k - 1
    BY <1>1, <1>3
  <2> QED
    BY <1>6, <1>7, <2>1, <2>2, <2>3
<1>10. PICK whole : whole = head \o after
  OBVIOUS
<1>11. /\ whole \in Seq(STRING) /\ Len(whole) = n /\ whole[k] = new
       /\ \A i \in 1 .. n : i # k => whole[i] = text[i]
  <2>1. /\ whole \in Seq(STRING) /\ Len(whole) = k + (n - k)
        /\ \A i \in 1 .. k + (n - k) : whole[i] = IF i <= k THEN head[i] ELSE after[i - k]
    <3>1. /\ whole \in Seq(STRING) /\ Len(whole) = Len(head) + Len(after)
          /\ \A i \in 1 .. Len(head) + Len(after) :
               whole[i] = IF i <= Len(head) THEN head[i] ELSE after[i - Len(head)]
      BY <1>6, <1>9, <1>10, ConcatProperties, ZenonT(60)
    <3> QED
      BY <1>6, <1>9, <3>1, Zenon
  <2>2. k + (n - k) = n /\ k \in 1 .. n /\ k <= k
    BY <1>1, <1>3, <1>4
  <2>3. ASSUME NEW i \in 1 .. n, i # k
        PROVE  whole[i] = text[i]
    <3>1. CASE i <= k
      <4>1. i \in 1 .. k - 1
        BY <1>1, <1>3, <1>4, <2>3, <3>1
      <4> QED
        BY <1>9, <2>1, <2>2, <3>1, <4>1
    <3>2. CASE ~(i <= k)
      <4>0. k \in Int /\ n \in Int /\ i \in Int /\ i <= n /\ k < i
        BY <1>1, <1>3, <1>4, <3>2
      <4>1. i - k \in 1 .. n - k /\ k + (i - k) = i
        BY <4>0
      <4> QED
        BY <1>6, <2>1, <2>2, <3>2, <4>1
    <3> QED
      BY <3>1, <3>2
  <2> QED
    BY <1>9, <2>1, <2>2, <2>3
<1>12. \A i \in 1 .. n : text[i] = find <=> i = k
  BY <1>1, <1>3, <1>4, OneMatch
<1>13. whole = [i \in 1 .. n |-> IF text[i] = find THEN new ELSE text[i]]
  <2>1. DOMAIN whole = 1 .. n /\ whole = [i \in 1 .. n |-> whole[i]]
    BY <1>11, SeqIsFunction
  <2> QED
    BY <1>11, <1>12, <2>1
<1> QED
  BY <1>1, <1>4, <1>5, <1>8, <1>10, <1>13

LEMMA ReplacedIsText ==
  ASSUME NEW text \in Text, NEW find, NEW new \in STRING
  PROVE  ReplaceFirst(text, find, new) \in Text
<1>1. text \in Seq(STRING) /\ Len(text) \in Nat /\ DOMAIN text = 1 .. Len(text)
  BY LenProperties DEF Text
<1>2. CASE Matches(text, find) = 0
  BY <1>2 DEF ReplaceFirst
<1>3. CASE Matches(text, find) # 0
  <2>2. PICK k \in 1 .. Len(text) : k = FirstAt(text, find) /\ text[k] = find
    BY <1>3, FirstMatch
  <2>3. PICK before, after : before = SubSeq(text, 1, k - 1) /\ after = SubSeq(text, k + 1, Len(text))
    OBVIOUS
  <2>4. before \in Seq(STRING) /\ after \in Seq(STRING)
    BY <1>1, <2>2, <2>3, SubSeqOfText
  <2>5. ReplaceFirst(text, find, new) = before \o Inserted(new, before, find, after) \o after
    BY <1>3, <2>2, <2>3 DEF ReplaceFirst
  <2>6. find \in STRING
    BY <1>1, <2>2, ElementOfSeq
  <2>7. Inserted(new, before, find, after) \in Seq(STRING)
    <3>1. \A x \in STRING : <<x>> \in Seq(STRING)
      BY OneElement
    <3>2. Inserted(new, before, find, after) \in {<<find>>, before, after, <<Dollar>>, <<new>>}
      BY DEF Inserted
    <3>3. Dollar \in STRING
      BY LoopAssumption
    <3> QED
      BY <2>4, <2>6, <3>1, <3>2, <3>3, Zenon
  <2>8. PICK middle : middle = Inserted(new, before, find, after)
    OBVIOUS
  <2>9. before \o middle \in Seq(STRING)
    BY <2>4, <2>7, <2>8, ConcatProperties
  <2>10. (before \o middle) \o after \in Seq(STRING)
    BY <2>4, <2>9, ConcatProperties
  <2> QED
    BY <2>5, <2>8, <2>10 DEF Text
<1> QED
  BY <1>2, <1>3

(* An operation that passed the gates makes a text of what it finds.       *)
LEMMA EffectIsText ==
  ASSUME NEW op \in Operations, NEW text \in Content,
         op.type \in {"create_file", "append_line", "replace_text"},
         op.type = "replace_text" => text # Absent
  PROVE  Effect(op, text) \in Text
<1>1. CASE op.type = "create_file"
  <2>1. Effect(op, text) = op.content
    BY <1>1 DEF Effect
  <2> QED
    BY <1>1, <2>1, LoopAssumption
<1>2. CASE op.type = "append_line"
  <2> DEFINE old == IF text = Absent THEN <<>> ELSE text
  <2>1. old \in Text /\ op.line \in STRING
    BY <1>2, LoopAssumption, EmptySeq DEF Content, Text
  <2>2. Append(old, op.line) \in Text
    BY <2>1, AppendProperties DEF Text
  <2>3. (\E k \in DOMAIN old : Trim(old[k]) = Trim(op.line)) => text \in Text
    BY DEF Content
  <2>4. Effect(op, text) = IF \E k \in DOMAIN old : Trim(old[k]) = Trim(op.line)
                           THEN text ELSE Append(old, op.line)
    BY <1>2 DEF Effect
  <2> QED
    BY <2>2, <2>3, <2>4
<1>3. CASE op.type = "replace_text"
  <2>1. text \in Text /\ op.replace \in STRING
    BY <1>3, LoopAssumption DEF Content
  <2>2. text \in [1 .. Len(text) -> STRING] /\ Len(text) \in Nat
    BY <2>1, LenProperties DEF Text
  <2>3. [k \in DOMAIN text |-> IF text[k] = op.find THEN op.replace ELSE text[k]] \in [1 .. Len(text) -> STRING]
    BY <2>1, <2>2
  <2>4. ReplaceFirst(text, op.find, op.replace) \in Text
    BY <2>1, ReplacedIsText
  <2>5. Effect(op, text) = IF op.allow_multiple
                           THEN [k \in DOMAIN text |-> IF text[k] = op.find THEN op.replace ELSE text[k]]
                           ELSE ReplaceFirst(text, op.find, op.replace)
    BY <1>3 DEF Effect
  <2> QED
    BY <2>2, <2>3, <2>4, <2>5, SeqDef DEF Text
<1> QED
  BY <1>1, <1>2, <1>3

(* What an operation makes of a text is what it asks for, once it has      *)
(* passed the gates.                                                       *)
LEMMA EffectIsAsked ==
  ASSUME NEW op \in Operations, NEW before, Passed(op, before), before[op.path] \in Content
  PROVE  AsAsked(op, before[op.path], Effect(op, before[op.path]))
<1>1. PICK old, new : old = before[op.path] /\ new = Effect(op, old)
  OBVIOUS
<1>2. /\ op.type \in {"create_file", "append_line", "replace_text"} /\ old \in Content
      /\ op.type = "create_file" => old = Absent \/ op.overwrite
      /\ op.type = "replace_text" =>
           /\ old # Absent
           /\ Matches(old, op.find) = 1 \/ (Matches(old, op.find) > 1 /\ op.allow_multiple)
  BY <1>1 DEF Passed
<1>3. CASE op.type = "create_file"
  BY <1>1, <1>2, <1>3 DEF AsAsked, Effect
<1>4. CASE op.type = "append_line"
  <2>1. PICK text : text = IF old = Absent THEN <<>> ELSE old
    OBVIOUS
  <2>2. text \in Text /\ op.line \in STRING
    BY <1>2, <1>4, <2>1, LoopAssumption, EmptySeq DEF Content, Text
  <2>3. Append(text, op.line) = text \o <<op.line>>
    BY <2>2, AppendIsConcat DEF Text
  <2>4. (\E k \in DOMAIN text : Trim(text[k]) = Trim(op.line))
          <=> old # Absent /\ \E k \in DOMAIN old : Trim(old[k]) = Trim(op.line)
    BY <2>1
  <2>5. new = IF \E k \in DOMAIN text : Trim(text[k]) = Trim(op.line)
              THEN old ELSE Append(text, op.line)
    BY <1>1, <1>4, <2>1 DEF Effect
  <2> QED
    BY <1>1, <1>4, <2>1, <2>3, <2>4, <2>5 DEF AsAsked
<1>5. CASE op.type = "replace_text"
  <2>1. old \in Text /\ op.replace \in STRING
    BY <1>2, <1>5, LoopAssumption DEF Content
  <2>2. op.allow_multiple \/ op.replace \notin Patterns =>
          new = [k \in DOMAIN old |-> IF old[k] = op.find THEN op.replace ELSE old[k]]
    <3>1. CASE op.allow_multiple
      BY <1>1, <1>5, <3>1 DEF Effect
    <3>2. CASE ~op.allow_multiple /\ op.replace \notin Patterns
      <4>1. new = ReplaceFirst(old, op.find, op.replace) /\ Matches(old, op.find) = 1
        BY <1>1, <1>2, <1>5, <3>2 DEF Effect
      <4>2. ReplaceFirst(old, op.find, op.replace)
              = [k \in DOMAIN old |-> IF old[k] = op.find THEN op.replace ELSE old[k]]
        <5>1. PICK find, put : find = op.find /\ put = op.replace
          OBVIOUS
        <5>2. put \in STRING /\ put \notin Patterns /\ Matches(old, find) = 1
          BY <2>1, <3>2, <4>1, <5>1
        <5>3. ReplaceFirst(old, find, put) = [k \in DOMAIN old |-> IF old[k] = find THEN put ELSE old[k]]
          BY <2>1, <5>2, ReplacedOnce
        <5> QED
          BY <5>1, <5>3
      <4> QED
        BY <4>1, <4>2
    <3> QED
      BY <3>1, <3>2
  <2> QED
    BY <1>1, <1>2, <1>5, <2>2 DEF AsAsked
<1> QED
  BY <1>1, <1>2, <1>3, <1>4, <1>5

(* What is appended to a sequence joins its elements.                      *)
LEMMA Appended ==
  ASSUME NEW s, Sequence(s), NEW e
  PROVE  /\ Sequence(Append(s, e))
         /\ \A n \in DOMAIN Append(s, e) :
              \/ n \in DOMAIN s /\ Append(s, e)[n] = s[n]
              \/ Append(s, e)[n] = e
<1> DEFINE S == ToSet(s) \cup {e}
<1>1. s \in Seq(S)
  BY SeqMonotonic DEF Sequence
<1>2. /\ Append(s, e) \in Seq(S) /\ Len(Append(s, e)) = Len(s) + 1
      /\ \A i \in 1 .. Len(s) : Append(s, e)[i] = s[i]
      /\ Append(s, e)[Len(s) + 1] = e
  BY <1>1, AppendProperties
<1>3. /\ DOMAIN s = 1 .. Len(s) /\ Len(s) \in Nat
      /\ DOMAIN Append(s, e) = 1 .. Len(s) + 1
  BY <1>1, <1>2, LenProperties
<1>4. Sequence(Append(s, e))
  <2>1. PICK t, n : t = Append(s, e) /\ n = Len(s) + 1
    OBVIOUS
  <2>2. t \in [1 .. n -> S] /\ ToSet(t) = {t[i] : i \in 1 .. n} /\ n \in Nat
    BY <1>2, <1>3, <2>1, LenProperties DEF ToSet
  <2>3. t \in [1 .. n -> {t[i] : i \in 1 .. n}]
    BY <2>2
  <2>4. t \in Seq(ToSet(t))
    BY <2>2, <2>3, SeqDef
  <2> QED
    BY <2>1, <2>4, Zenon DEF Sequence
<1> QED
  BY <1>2, <1>3, <1>4

(***************************************************************************)
(* How commands begin and go on.                                           *)
(***************************************************************************)
Kinds == {"hung", "apply"} \cup MemoryKinds \cup InstallKinds

LEMMA Launched ==
  ASSUME NEW kind \in Kinds, NEW todo, NEW force, NEW carried,
         Launch(Command(kind, todo, force, carried))
  PROVE  /\ cmd = Idle /\ commands' = commands + 1 /\ Running'
         /\ cmd'.kind = kind /\ cmd'.todo = todo /\ cmd'.force = force /\ cmd'.carried = carried
         /\ cmd'.existed = {p \in Paths : files[p] # Absent}
BY DEF Launch, MayStart, Command, Running, Kinds

LEMMA Taken ==
  ASSUME Running, StepTaken
  PROVE  \/ cmd' = Idle
         \/ /\ Running' /\ cmd'.kind = cmd.kind /\ cmd'.todo = Tail(cmd.todo) /\ Len(cmd.todo) # 1
            /\ cmd'.force = cmd.force /\ cmd'.carried = cmd.carried /\ cmd'.existed = cmd.existed
BY DEF Running, StepTaken

(* A command that has a kind runs.                                         *)
LEMMA KindIsRunning == Typed /\ cmd.kind \in Kinds => Running /\ cmd # Idle
BY DEF Typed, Idle, Kinds, MemoryKinds, InstallKinds

(* Where an apply stands when the next step is an operation.               *)
LEMMA AtOperation ==
  ASSUME Typed, NothingDeleted, ApplyInOrder, cmd.kind = "apply", Step # LogIt
  PROVE  LET r == cmd.carried
             done == Len(r.operations) + 1 - Len(cmd.todo)
         IN  /\ Validated(r) /\ Len(cmd.todo) > 1 /\ Len(cmd.todo) # 1
             /\ done + 1 \in 1 .. Len(r.operations) /\ Step = r.operations[done + 1]
             /\ Step \in Operations /\ Step \in ToSet(r.operations)
             /\ Passed(Step, r.before) /\ Step.path \in r.files_changed
             /\ Step.type = "replace_text" => files[Step.path] # Absent
             /\ Effect(Step, files[Step.path]) \in Text
<1> DEFINE r == cmd.carried
           done == Len(r.operations) + 1 - Len(cmd.todo)
<1>1. /\ Validated(r) /\ cmd.todo \in Seq(Operations \cup {LogIt}) /\ Len(cmd.todo) > 0 /\ done >= 0
      /\ cmd.todo[Len(cmd.todo)] = LogIt
      /\ \A k \in 1 .. Len(cmd.todo) - 1 : cmd.todo[k] = r.operations[done + k]
      /\ \A p \in r.files_changed : r.before[p] # Absent => p \in cmd.existed
  BY DEF ApplyInOrder
<1>2. /\ Len(cmd.todo) \in Nat /\ Step = cmd.todo[1] /\ r.operations \in Seq(Operations)
      /\ Len(r.operations) \in Nat /\ DOMAIN r.operations = 1 .. Len(r.operations)
  BY <1>1, LenProperties DEF Validated, Step
<1>3. Len(cmd.todo) > 1 /\ Len(cmd.todo) # 1
  BY <1>1, <1>2
<1>4. done + 1 \in 1 .. Len(r.operations) /\ Step = r.operations[done + 1]
  <2>1. PICK n, m : n = Len(r.operations) /\ m = Len(cmd.todo)
    OBVIOUS
  <2>2. n \in Nat /\ m \in Nat /\ m > 1 /\ n + 1 - m >= 0
    BY <1>1, <1>2, <1>3, <2>1
  <2>3. n + 1 - m + 1 \in 1 .. n /\ 1 \in 1 .. m - 1
    BY <2>2
  <2>4. cmd.todo[1] = r.operations[n + 1 - m + 1]
    BY <1>1, <2>1, <2>3
  <2> QED
    BY <1>2, <2>1, <2>3, <2>4
<1>5. Step \in Operations /\ Step \in ToSet(r.operations)
  BY <1>2, <1>4, ElementOfSeq DEF ToSet
<1>6. Passed(Step, r.before) /\ Step.path \in r.files_changed
  BY <1>1, <1>5 DEF Validated, Named
<1>7. Step.type = "replace_text" => files[Step.path] # Absent
  <2>1. cmd # Idle
    BY DEF Idle
  <2> QED
    BY <1>1, <1>6, <2>1 DEF Passed, NothingDeleted
<1>8. files[Step.path] \in Content
  BY <1>6 DEF Passed, Typed
<1>9. Effect(Step, files[Step.path]) \in Text
  BY <1>5, <1>6, <1>7, <1>8, EffectIsText DEF Passed
<1> QED
  BY <1>1, <1>3, <1>4, <1>5, <1>6, <1>7, <1>9

(* The record is written last.                                             *)
LEMMA LogIsLast ==
  ASSUME Typed, NothingDeleted, ApplyInOrder, cmd.kind = "apply", Step = LogIt
  PROVE  Len(cmd.todo) = 1
<1>1. PICK r, n, m : r = cmd.carried /\ n = Len(r.operations) /\ m = Len(cmd.todo)
  OBVIOUS
<1>2. /\ Validated(r) /\ cmd.todo \in Seq(Operations \cup {LogIt}) /\ m > 0 /\ n + 1 - m >= 0
      /\ \A k \in 1 .. m - 1 : cmd.todo[k] = r.operations[n + 1 - m + k]
  BY <1>1 DEF ApplyInOrder
<1>3. m \in Nat /\ n \in Nat /\ DOMAIN r.operations = 1 .. n /\ Step = cmd.todo[1]
  BY <1>1, <1>2, LenProperties DEF Validated, Step
<1>4. ASSUME m > 1
      PROVE  FALSE
  <2>1. n + 1 - m + 1 \in 1 .. n /\ 1 \in 1 .. m - 1
    BY <1>2, <1>3, <1>4
  <2>2. LogIt = r.operations[n + 1 - m + 1]
    BY <1>2, <1>3, <2>1
  <2>3. LogIt \in ToSet(r.operations)
    BY <1>3, <2>1, <2>2 DEF ToSet
  <2> QED
    BY <1>2, <2>3 DEF Validated, Passed, LogIt
<1>5. m > 0
  BY <1>2
<1> QED
  BY <1>1, <1>3, <1>4, <1>5

(* Where an installing command stands.                                     *)
LEMMA AtCopy ==
  ASSUME Typed, InstallInOrder, cmd.kind \in InstallKinds
  PROVE  /\ cmd.todo \in Seq(Copy \cup {Enable}) /\ Len(cmd.todo) \in Nat \ {0}
         /\ Step = cmd.todo[1] /\ Step.path \in Paths
         /\ Step.mode # "enable" => Step \in Copy
         /\ Step.mode = "enable" =>
              Step.path = ConfigPath /\ files[ConfigPath] \in Text /\ cmd.kind = "init"
<1>1. /\ cmd.todo \in Seq(Copy \cup {Enable}) /\ Len(cmd.todo) \in Nat \ {0}
      /\ Step = cmd.todo[1] /\ Step \in Copy \cup {Enable}
  <2>1. cmd.todo \in Seq(Copy \cup {Enable}) /\ Len(cmd.todo) > 0
    BY DEF InstallInOrder
  <2>2. Len(cmd.todo) \in Nat /\ 1 \in 1 .. Len(cmd.todo)
    BY <2>1, LenProperties
  <2>3. cmd.todo[1] \in Copy \cup {Enable}
    BY <2>1, <2>2, ElementOfSeq
  <2>4. Step = cmd.todo[1]
    BY <2>1 DEF Step
  <2> QED
    BY <2>1, <2>2, <2>3, <2>4
<1>2. ConfigPath \in Paths
  <2>1. PICK k \in DOMAIN TemplateFiles : TemplateFiles[k].path = ConfigPath
    BY InstallAssumption
  <2>2. TemplateFiles[k] \in File
    BY InstallAssumption, LenProperties, ElementOfSeq
  <2> QED
    BY <2>1, <2>2 DEF File
<1>3. Step.mode = "enable" => files[ConfigPath] # Absent /\ cmd.kind = "init"
  BY <1>1 DEF InstallInOrder
<1> QED
  BY <1>1, <1>2, <1>3 DEF Copy, Enable, Typed, Content

(* The installing commands, whichever way a plugin was found.              *)
LEMMA InstallSteps ==
  ASSUME InstallNext
  PROVE  \/ OnboardPlan
         \/ \E adapter, force \in BOOLEAN : InitProject(adapter, force)
         \/ \E force \in BOOLEAN : OnboardApply(force)
         \/ \E all, force \in BOOLEAN : SyncAdapter(all, force)
         \/ \E p \in AllPlugins, force \in BOOLEAN : InstallPlugin(p, force)
         \/ SaveOld \/ SkipExisting \/ CopyFile \/ EnableAdapter
<1>1. ASSUME NEW slug, NEW where, NEW force \in BOOLEAN, CatalogInstall(slug, where, force)
      PROVE  \E p \in AllPlugins : InstallPlugin(p, force)
  <2>1. PICK n \in DOMAIN Catalogs : \E p \in Catalogs[n].plugins : InstallPlugin(p, force)
    BY <1>1 DEF CatalogInstall, Holders
  <2>2. Catalogs[n].plugins \subseteq AllPlugins
    BY DEF AllPlugins, ToSet
  <2> QED
    BY <2>1, <2>2
<1>2. Plugins \subseteq AllPlugins
  BY DEF AllPlugins
<1> QED
  BY <1>1, <1>2 DEF InstallNext

(* A command that only reads, or writes one file and is done.              *)
Quiet ==
  \/ \E i \in Ids : RefuseApply(i) \/ Propose(i)
  \/ BuildHandoff \/ SummarizeFeedback \/ OnboardPlan
  \/ \E x \in Items : AddFeedback(x)
  \/ People

LaunchStep ==
  \/ \E i \in Ids : HangInValidation(i) \/ StartApply(i)
  \/ BuildMemory
  \/ \E w \in Workflows : RunWorkflow(w)
  \/ \E adapter, force \in BOOLEAN : InitProject(adapter, force)
  \/ \E force \in BOOLEAN : OnboardApply(force)
  \/ \E all, force \in BOOLEAN : SyncAdapter(all, force)
  \/ \E p \in AllPlugins, force \in BOOLEAN : InstallPlugin(p, force)

ApplyStep == ApplyOperation \/ OperationFails \/ FinishApply \/ FinishUnlogged
MemoryStep == WriteIndex \/ WriteSummary \/ ReportStep \/ RefreshStep \/ SummarizeStep
InstallStep == SaveOld \/ SkipExisting \/ CopyFile \/ EnableAdapter
Killed == KilledBetween \/ KilledWriting

LEMMA NextSteps ==
  ASSUME Next
  PROVE  Quiet \/ LaunchStep \/ ApplyStep \/ MemoryStep \/ InstallStep \/ Killed
BY InstallSteps DEF Next, LoopNext, Quiet, LaunchStep, ApplyStep, MemoryStep, InstallStep, Killed

(* What each group of steps leaves of the command.                         *)
LEMMA QuietIdle == Quiet => cmd = Idle /\ cmd' = Idle /\ UNCHANGED <<unlogged, excused, index, summary, backups>>
BY DEF Quiet, RefuseApply, Propose, BuildHandoff, SummarizeFeedback, OnboardPlan, AddFeedback,
       People, EditFile, WriteProposal, Tick, MayStart, generated, history

LEMMA LaunchKeepsFiles ==
  LaunchStep => /\ UNCHANGED <<files, backups, generated, loop, history>>
                /\ cmd = Idle /\ commands' = commands + 1
BY DEF LaunchStep, HangInValidation, StartApply, BuildMemory, RunWorkflow, InitProject, OnboardApply,
       SyncAdapter, InstallPlugin, Launch, MayStart

LEMMA LaunchRuns == LaunchStep => Running' /\ cmd'.existed = {p \in Paths : files[p] # Absent}
<1> SUFFICES ASSUME LaunchStep
             PROVE  Running' /\ cmd'.existed = {p \in Paths : files[p] # Absent}
  OBVIOUS
<1> USE Launched DEF Kinds, MemoryKinds, InstallKinds
<1>1. ASSUME NEW i \in Ids, HangInValidation(i) \/ StartApply(i)
      PROVE  Running' /\ cmd'.existed = {p \in Paths : files[p] # Absent}
  BY <1>1 DEF HangInValidation, StartApply
<1>2. CASE BuildMemory \/ \E w \in Workflows : RunWorkflow(w)
  BY <1>2 DEF BuildMemory, RunWorkflow
<1>3. CASE \E adapter, force \in BOOLEAN : InitProject(adapter, force)
  BY <1>3 DEF InitProject
<1>4. CASE \/ \E force \in BOOLEAN : OnboardApply(force)
           \/ \E all, force \in BOOLEAN : SyncAdapter(all, force)
           \/ \E p \in AllPlugins, force \in BOOLEAN : InstallPlugin(p, force)
  BY <1>4 DEF OnboardApply, SyncAdapter, InstallPlugin
<1> QED
  BY <1>1, <1>2, <1>3, <1>4 DEF LaunchStep

LEMMA KilledIdle == Killed => cmd # Idle /\ cmd' = Idle /\ UNCHANGED <<loop, commands, handoff, plan>>
BY DEF Killed, KilledBetween, KilledWriting, generated

(***************************************************************************)
(* Types.                                                                  *)
(***************************************************************************)
LEMMA TypedInit == InitFiles => Typed /\ NothingDeleted
<1> SUFFICES ASSUME InitFiles PROVE Typed /\ NothingDeleted
  OBVIOUS
<1>1. files \in [Paths -> Content]
  BY FilesAssumption DEF InitFiles, Content
<1>2. feedback \in Seq(Items) /\ Sequence(applyLog)
  BY EmptySeq DEF InitFiles, Sequence
<1> QED
  BY <1>1, <1>2 DEF InitFiles, Typed, NothingDeleted, Content

LEMMA QuietTyped ==
  ASSUME Typed, Quiet
  PROVE  Typed' /\ NothingDeleted'
<1> USE QuietIdle DEF Typed, generated, loop, history
<1>1. NothingDeleted'
  BY DEF NothingDeleted
<1>2. commands + 1 \in Nat /\ Absent \notin Text
  BY FilesAssumption
<1>3. ASSUME NEW i \in Ids, RefuseApply(i)
      PROVE  Typed'
  BY <1>2, <1>3, Appended DEF RefuseApply, Tick
<1>4. ASSUME NEW i \in Ids, Propose(i)
      PROVE  Typed'
  BY <1>2, <1>4 DEF Propose, Tick, Pending
<1>5. CASE BuildHandoff
  <2>1. Counted("pending") \in Nat /\ Counted("approved") \in Nat
    BY FilesAssumption, FS_Subset, FS_CardinalityType DEF Counted
  <2>2. Len(feedback) \in Nat /\ Len(applyLog) \in Nat
    <3>1. feedback \in Seq(Items) /\ applyLog \in Seq(ToSet(applyLog))
      BY DEF Sequence
    <3> QED
      BY <3>1, LenProperties
  <2>3. MemoryStatus \in {"MISSING", "CORRUPT", "CURRENT", "STALE"}
    BY Zenon DEF MemoryStatus
  <2>4. handoff' \in Handoffs
    BY <1>2, <1>5, <2>1, <2>2, <2>3 DEF BuildHandoff, Handoffs
  <2>5. /\ UNCHANGED <<files, backups, index, summary, plan, feedback, proposals, applyLog>>
        /\ cmd' = Idle /\ commands' = commands + 1
    BY <1>5 DEF BuildHandoff, Tick
  <2> QED
    BY <1>1, <1>2, <2>4, <2>5
<1>6. CASE SummarizeFeedback \/ OnboardPlan
  <2>1. /\ UNCHANGED <<files, backups, index, summary, handoff, feedback, proposals, applyLog>>
        /\ cmd' = Idle /\ commands' = commands + 1 /\ plan' \in {plan, commands + 1}
    BY <1>6 DEF SummarizeFeedback, OnboardPlan, Tick
  <2> QED
    BY <1>1, <1>2, <2>1
<1>7. ASSUME NEW x \in Items, AddFeedback(x)
      PROVE  Typed'
  <2>1. feedback' \in Seq(Items)
    BY <1>7, AppendProperties DEF AddFeedback
  <2> QED
    BY <1>2, <1>7, <2>1 DEF AddFeedback, Tick
<1>8. ASSUME NEW e \in Edits, EditFile(e)
      PROVE  Typed'
  BY <1>8, FilesAssumption DEF EditFile
<1>9. ASSUME NEW i \in Ids, NEW d \in Drafts, WriteProposal(i, d)
      PROVE  Typed'
  BY <1>9 DEF WriteProposal
<1> QED
  BY <1>1, <1>3, <1>4, <1>5, <1>6, <1>7, <1>8, <1>9 DEF Quiet, People

LEMMA LaunchTyped ==
  ASSUME Typed, LaunchStep
  PROVE  Typed' /\ NothingDeleted'
BY LaunchKeepsFiles, LaunchRuns DEF Typed, NothingDeleted, generated, loop, history

LEMMA ApplyTyped ==
  ASSUME Typed, NothingDeleted, ApplyInOrder, ApplyStep
  PROVE  Typed' /\ NothingDeleted'
<1> USE DEF generated, loop, history
<1>1. Running /\ cmd # Idle /\ cmd.kind = "apply"
  BY KindIsRunning DEF ApplyStep, ApplyOperation, OperationFails, FinishApply, FinishUnlogged, Kinds
<1>2. <<>> \in Text /\ Absent \notin Text
  BY FilesAssumption, EmptySeq DEF Text
<1>5. cmd' = Idle \/ (Running' /\ cmd'.existed = cmd.existed)
  <2>1. CASE StepTaken
    BY <1>1, <2>1, Taken
  <2>2. CASE OperationFails
    BY <1>1, <2>2 DEF OperationFails, Running
  <2> QED
    BY <2>1, <2>2 DEF ApplyStep, ApplyOperation, FinishApply, FinishUnlogged
<1>3. CASE ApplyOperation \/ OperationFails
  <2>1. Step.path \in Paths /\ Effect(Step, files[Step.path]) \in Text
    BY <1>1, <1>3, AtOperation DEF Passed, ApplyOperation, OperationFails
  <2>2. files' = files \/ \E t \in Text, p \in Paths : files' = [files EXCEPT ![p] = t]
    BY <1>2, <1>3, <2>1 DEF ApplyOperation, OperationFails, Typed
  <2>3. files' \in [Paths -> Content] /\ \A p \in Paths : files[p] # Absent => files'[p] # Absent
    BY <1>2, <2>2 DEF Typed, Content
  <2> QED
    BY <1>1, <1>3, <1>5, <2>3 DEF Typed, NothingDeleted, ApplyOperation, OperationFails, Running
<1>4. CASE FinishApply \/ FinishUnlogged
  <2>2. Sequence(applyLog')
    <3>1. applyLog' = applyLog \/ \E r : applyLog' = Append(applyLog, r)
      BY <1>4 DEF FinishApply, FinishUnlogged
    <3>2. Sequence(applyLog) /\ \A r : Sequence(Append(applyLog, r))
      BY Appended DEF Typed
    <3> QED
      BY <3>1, <3>2
  <2> QED
    BY <1>1, <1>4, <1>5, <2>2 DEF FinishApply, FinishUnlogged, Typed, NothingDeleted, Running
<1> QED
  BY <1>3, <1>4 DEF ApplyStep

LEMMA MemoryTyped ==
  ASSUME Typed, NothingDeleted, MemoryInOrder, MemoryStep
  PROVE  Typed' /\ NothingDeleted'
<1> USE DEF generated, loop, history
<1>1. Running /\ cmd # Idle /\ cmd.kind \in MemoryKinds
  BY KindIsRunning DEF MemoryStep, WriteIndex, WriteSummary, ReportStep, RefreshStep, SummarizeStep,
                       MemoryKinds, Kinds
<1>2. cmd' = Idle \/ (Running' /\ cmd'.existed = cmd.existed)
  <2>1. CASE StepTaken
    BY <1>1, <2>1, Taken
  <2>2. CASE RefreshStep
    BY <1>1, <2>2 DEF RefreshStep, Running
  <2> QED
    BY <2>1, <2>2 DEF MemoryStep, WriteIndex, WriteSummary, ReportStep, SummarizeStep
<1>3. cmd.todo # <<>> /\ Step = cmd.todo[1] /\ 1 \in 1 .. Len(cmd.todo)
  BY <1>1, LenProperties DEF MemoryInOrder, Step
<1>4. CASE WriteIndex \/ WriteSummary
  <2>1. cmd.carried \in Reports
    BY <1>1, <1>3, <1>4 DEF WriteIndex, WriteSummary, MemoryInOrder
  <2> QED
    BY <1>1, <1>2, <1>4, <2>1 DEF WriteIndex, WriteSummary, Typed, NothingDeleted
<1>5. CASE ReportStep \/ RefreshStep \/ SummarizeStep
  BY <1>1, <1>2, <1>5 DEF ReportStep, RefreshStep, SummarizeStep, Typed, NothingDeleted
<1> QED
  BY <1>4, <1>5 DEF MemoryStep

LEMMA InstallTyped ==
  ASSUME Typed, NothingDeleted, InstallInOrder, InstallStep
  PROVE  Typed' /\ NothingDeleted' /\ \A p \in Paths : files[p] # Absent => files'[p] # Absent
<1> USE DEF generated, loop, history
<1>1. Running /\ cmd # Idle /\ cmd.kind \in InstallKinds
  BY KindIsRunning DEF InstallStep, SaveOld, SkipExisting, CopyFile, Writing, EnableAdapter, InstallKinds, Kinds
<1>2. cmd' = Idle \/ (Running' /\ cmd'.existed = cmd.existed)
  <2>1. CASE StepTaken
    BY <1>1, <2>1, Taken
  <2>2. CASE SaveOld
    BY <1>1, <2>2 DEF SaveOld, Running
  <2> QED
    BY <2>1, <2>2 DEF InstallStep, SkipExisting, CopyFile, EnableAdapter
<1>3. Absent \notin Text
  BY FilesAssumption
<1>4. CASE SaveOld \/ SkipExisting
  BY <1>1, <1>2, <1>4, AtCopy DEF SaveOld, SkipExisting, Typed, NothingDeleted
<1>5. CASE CopyFile \/ EnableAdapter
  <2>1. PICK t \in Text : files' = [files EXCEPT ![Step.path] = t]
    <3>1. CASE CopyFile
      BY <1>1, <3>1, AtCopy DEF CopyFile, Writing, Copy
    <3>2. CASE EnableAdapter
      <4>1. PICK old \in Text : old = files[ConfigPath]
        BY <1>1, <3>2, AtCopy DEF EnableAdapter
      <4>2. old \in [1 .. Len(old) -> STRING] /\ Len(old) \in Nat
        BY <4>1, LenProperties DEF Text
      <4>3. [k \in DOMAIN old |-> IF old[k] = AdapterOff THEN AdapterOn ELSE old[k]] \in [1 .. Len(old) -> STRING]
        BY <4>2, InstallAssumption
      <4>4. [k \in DOMAIN old |-> IF old[k] = AdapterOff THEN AdapterOn ELSE old[k]] \in Text
        BY <4>2, <4>3, SeqDef DEF Text
      <4>5. Step.path = ConfigPath /\ ConfigPath \in Paths
        BY <1>1, <3>2, AtCopy DEF EnableAdapter
      <4> QED
        BY <3>2, <4>1, <4>4, <4>5 DEF EnableAdapter, Typed
    <3> QED
      BY <1>5, <3>1, <3>2
  <2>2. Step.path \in Paths
    BY <1>1, AtCopy
  <2>3. files' \in [Paths -> Content] /\ \A p \in Paths : files[p] # Absent => files'[p] # Absent
    BY <1>3, <2>1, <2>2 DEF Typed, Content
  <2> QED
    BY <1>1, <1>2, <1>5, <2>3 DEF CopyFile, EnableAdapter, Typed, NothingDeleted, Running
<1> QED
  BY <1>4, <1>5 DEF InstallStep

LEMMA KilledTyped ==
  ASSUME Typed, NothingDeleted, ApplyInOrder, InstallInOrder, Killed
  PROVE  /\ Typed' /\ NothingDeleted'
         /\ \A p \in Paths : files[p] # Absent => files'[p] # Absent
<1> USE DEF generated, loop, history
<1>1. <<>> \in Text /\ Absent \notin Text
  BY FilesAssumption, EmptySeq DEF Text
<1>2. NothingDeleted'
  BY KilledIdle DEF NothingDeleted
<1>3. CASE KilledBetween
  BY <1>2, <1>3 DEF KilledBetween, Typed
<1>4. CASE KilledWriting
  <2>1. cmd.kind = "apply" /\ Step # LogIt => Step.path \in Paths
    BY AtOperation DEF Passed
  <2>2. cmd.kind \in InstallKinds => Step.path \in Paths
    BY AtCopy
  <2>3. files' = files \/ \E p \in Paths : files' = [files EXCEPT ![p] = <<>>]
    BY <1>4, <2>1, <2>2 DEF KilledWriting
  <2>4. backups' = backups \/ \E p \in Paths : backups' = [backups EXCEPT ![p] = <<>>]
    BY <1>4, <2>1, <2>2 DEF KilledWriting
  <2>5. index' \in {index, Torn} /\ summary' \in {summary, Torn}
    BY <1>4 DEF KilledWriting
  <2>6. files' \in [Paths -> Content] /\ \A p \in Paths : files[p] # Absent => files'[p] # Absent
    BY <1>1, <2>3 DEF Typed, Content
  <2>7. backups' \in [Paths -> Content]
    BY <1>1, <2>4 DEF Typed, Content
  <2> QED
    BY <1>2, <1>4, <2>5, <2>6, <2>7, KilledIdle DEF KilledWriting, Typed
<1> QED
  BY <1>3, <1>4 DEF Killed

(***************************************************************************)
(* An apply and its record.                                                *)
(***************************************************************************)
(* A proposal no gate holds back is a draft whose operations have passed.  *)
LEMMA GatesPassed ==
  ASSUME Typed, NEW i \in Ids, proposals[i] # Absent, FailedGates(proposals[i]) = {}
  PROVE  LET ops == proposals[i].operations
         IN  /\ ops \in Seq(Operations) /\ Named(ops) \subseteq Paths
             /\ \A op \in ToSet(ops) : Passed(op, [p \in Named(ops) |-> files[p]])
<1> DEFINE p == proposals[i]
           ops == p.operations
           before == [q \in Named(ops) |-> files[q]]
<1>1. /\ p.status # "no frontmatter" /\ ~Malformed(p)
      /\ \A op \in ToSet(ops) : OpGate(op) = "pass"
  <2>1. p.status # "no frontmatter" /\ ~Malformed(p)
    BY DEF FailedGates
  <2>2. {OpGate(op) : op \in ToSet(ops)} \ {"pass"} = {}
    BY <2>1 DEF FailedGates
  <2> QED
    BY <2>1, <2>2
<1>2. p \in Drafts
  <2>1. p \in Drafts \cup {Pending}
    BY DEF Typed
  <2>2. Malformed(Pending)
    BY DEF Malformed, Pending
  <2> QED
    BY <1>1, <2>1, <2>2
<1>3. ops \in Seq(Operations)
  BY <1>2, LoopAssumption
<1>4. ToSet(ops) \subseteq Operations
  BY <1>3, LenProperties, ElementOfSeq DEF ToSet
<1>5. ASSUME NEW op \in ToSet(ops)
      PROVE  /\ op.type \in {"create_file", "append_line", "replace_text"} /\ op.path \in Paths
             /\ op.type = "create_file" => files[op.path] = Absent \/ op.overwrite
             /\ op.type = "replace_text" =>
                  /\ files[op.path] # Absent /\ Matches(files[op.path], op.find) # 0
                  /\ Matches(files[op.path], op.find) > 1 => op.allow_multiple
  <2>1. OpGate(op) = "pass" /\ op \in Operations
    BY <1>1, <1>4
  <2>2. op.type \in {"create_file", "append_line", "replace_text"}
    BY <2>1 DEF OpGate
  <2>3. PathGate(op.path) = "pass"
    BY <2>1, <2>2 DEF OpGate
  <2>4. op.path \in Paths
    BY <2>1, <2>3, LoopAssumption DEF PathGate
  <2>5. ~(\/ op.type = "create_file" /\ files[op.path] # Absent /\ ~op.overwrite
          \/ /\ op.type = "replace_text"
             /\ \/ files[op.path] = Absent
                \/ Matches(files[op.path], op.find) = 0
                \/ Matches(files[op.path], op.find) > 1 /\ ~op.allow_multiple)
    BY <2>1, <2>2, <2>3 DEF OpGate
  <2> QED
    BY <2>2, <2>4, <2>5
<1>6. Named(ops) \subseteq Paths
  BY <1>5 DEF Named
<1>7. ASSUME NEW op \in ToSet(ops)
      PROVE  Passed(op, before)
  <2>1. before[op.path] = files[op.path]
    BY DEF Named
  <2>2. op.type = "replace_text" => Matches(files[op.path], op.find) \in Nat
    BY <1>5, MatchesIsNat DEF Typed, Content
  <2>3. op.type = "replace_text" =>
          \/ Matches(files[op.path], op.find) = 1
          \/ Matches(files[op.path], op.find) > 1 /\ op.allow_multiple
    BY <1>5, <2>2
  <2> HIDE DEF before
  <2> QED
    BY <1>5, <2>1, <2>3 DEF Passed
<1> QED
  BY <1>3, <1>6, <1>7

LEMMA StartInOrder ==
  ASSUME Typed, NEW i \in Ids, StartApply(i)
  PROVE  ApplyInOrder'
<1> DEFINE ops == proposals[i].operations
<1>1. PICK r : r = Record(i, ops)
  OBVIOUS
<1>2. PICK todo : todo = ops \o <<LogIt>>
  OBVIOUS
<1>3. /\ ops \in Seq(Operations) /\ Named(ops) \subseteq Paths
      /\ \A op \in ToSet(ops) : Passed(op, [p \in Named(ops) |-> files[p]])
  BY GatesPassed DEF StartApply
<1>4. /\ cmd'.kind = "apply" /\ cmd'.todo = todo /\ cmd'.carried = r
      /\ cmd'.existed = {p \in Paths : files[p] # Absent}
      /\ files' = files
  BY <1>1, <1>2, Launched DEF StartApply, Kinds
<1>5. /\ Validated(r) /\ r.operations = ops /\ r.files_changed = Named(ops)
      /\ r.before = [p \in Named(ops) |-> files[p]]
  BY <1>1, <1>3 DEF Record, Validated, Typed
<1>6. /\ todo \in Seq(Operations \cup {LogIt}) /\ Len(todo) = Len(ops) + 1
      /\ todo[Len(ops) + 1] = LogIt /\ \A k \in 1 .. Len(ops) : todo[k] = ops[k]
      /\ Len(ops) \in Nat
  <2>1. ops \in Seq(Operations \cup {LogIt}) /\ <<LogIt>> \in Seq(Operations \cup {LogIt})
    BY <1>3, SeqMonotonic
  <2>2. Len(<<LogIt>>) = 1 /\ <<LogIt>>[1] = LogIt /\ Len(ops) \in Nat
    BY <1>3, LenProperties
  <2> QED
    BY <1>2, <2>1, <2>2, ConcatProperties
<1>7. \A p \in Named(ops) : r.before[p] = files[p] /\ p \in Paths
  BY <1>3, <1>5
<1>8. \A k \in 1 .. Len(ops) : ops[k].path \in Named(ops)
  BY <1>3, LenProperties DEF Named, ToSet
<1>9. Progress(r, 0)'
  BY <1>4, <1>5, <1>6, <1>7, <1>8 DEF Progress
<1> HIDE DEF ops
<1> QED
  BY <1>4, <1>5, <1>6, <1>7, <1>9 DEF ApplyInOrder

(* An operation takes the texts one step on from where its record is.      *)
LEMMA OperationInOrder ==
  ASSUME Typed, NothingDeleted, ApplyInOrder, ApplyOperation
  PROVE  ApplyInOrder'
<1>1. PICK r, todo, op : r = cmd.carried /\ todo = cmd.todo /\ op = Step
  OBVIOUS
<1>2. PICK n, m : n = Len(r.operations) /\ m = Len(todo)
  OBVIOUS
<1>3. cmd.kind = "apply" /\ op # LogIt /\ Running /\ cmd # Idle
  BY <1>1, KindIsRunning DEF ApplyOperation, Kinds
<1>4. /\ Validated(r) /\ m > 1 /\ n + 1 - m + 1 \in 1 .. n /\ op = r.operations[n + 1 - m + 1]
      /\ op.path \in Paths /\ op.path \in r.files_changed
  BY <1>1, <1>2, <1>3, AtOperation DEF Passed, ApplyOperation
<1>5. /\ todo \in Seq(Operations \cup {LogIt}) /\ n + 1 - m >= 0 /\ todo[m] = LogIt
      /\ \A k \in 1 .. m - 1 : todo[k] = r.operations[n + 1 - m + k]
      /\ \A p \in r.files_changed : r.before[p] # Absent => p \in cmd.existed
      /\ r.status = "success" => Progress(r, n + 1 - m)
  BY <1>1, <1>2, <1>3 DEF ApplyInOrder
<1>6. m \in Nat /\ n \in Nat /\ r.operations \in Seq(Operations)
  BY <1>2, <1>4, <1>5, LenProperties DEF Validated
<1>7. PICK rest : rest = Tail(todo)
  OBVIOUS
<1>8. /\ rest \in Seq(Operations \cup {LogIt}) /\ Len(rest) = m - 1
      /\ \A k \in 1 .. m - 1 : rest[k] = todo[k + 1]
  <2>1. todo # <<>>
    BY <1>2, <1>4
  <2> QED
    BY <1>2, <1>5, <1>7, <2>1, HeadTailProperties
<1>9. /\ cmd'.kind = "apply" /\ cmd'.todo = rest /\ cmd'.carried = r /\ cmd'.existed = cmd.existed
      /\ files' = [files EXCEPT ![op.path] = Effect(op, files[op.path])]
  <2>1. Len(cmd.todo) # 1
    BY <1>3, AtOperation DEF ApplyOperation
  <2>2. StepTaken
    BY DEF ApplyOperation
  <2>3. cmd'.kind = "apply" /\ cmd'.todo = rest /\ cmd'.carried = r /\ cmd'.existed = cmd.existed
    BY <1>1, <1>3, <1>7, <2>1, <2>2 DEF StepTaken, Running
  <2> QED
    BY <1>1, <2>3 DEF ApplyOperation
<1>10. \A k \in 1 .. m - 2 : rest[k] = r.operations[n + 1 - (m - 1) + k]
  BY <1>5, <1>6, <1>8
<1>11. rest[m - 1] = LogIt
  BY <1>4, <1>5, <1>6, <1>8
<1>12. ASSUME r.status = "success"
       PROVE  Progress(r, n + 1 - (m - 1))'
  <2> DEFINE done == n + 1 - m
  <2>1. SUFFICES ASSUME NEW k \in 1 .. n, Alone(r.operations, k)
        PROVE  files'[r.operations[k].path] =
                 IF k <= done + 1 THEN Effect(r.operations[k], r.before[r.operations[k].path])
                                  ELSE r.before[r.operations[k].path]
    BY <1>2, <1>4, <1>6, <2>1 DEF Progress
  <2>2. files[r.operations[k].path] =
          IF k <= done THEN Effect(r.operations[k], r.before[r.operations[k].path])
                       ELSE r.before[r.operations[k].path]
    BY <1>2, <1>5, <1>12, <2>1 DEF Progress
  <2>3. r.operations[k].path = op.path => k = done + 1
    BY <1>2, <1>4, <2>1 DEF Alone
  <2>4. CASE k = done + 1
    <3>1. op = r.operations[k] /\ files[op.path] = r.before[op.path]
      BY <1>4, <1>6, <2>2, <2>4
    <3>2. files'[op.path] = Effect(op, files[op.path])
      BY <1>4, <1>9 DEF Typed
    <3> QED
      BY <1>6, <2>4, <3>1, <3>2
  <2>5. CASE k # done + 1
    <3>1. r.operations[k].path # op.path /\ r.operations[k].path \in Paths
      <4>1. r.operations[k] \in ToSet(r.operations)
        BY <1>2, <1>6, LenProperties DEF ToSet
      <4> QED
        BY <1>4, <2>3, <2>5, <4>1 DEF Validated, Passed
    <3>2. files'[r.operations[k].path] = files[r.operations[k].path]
      BY <1>9, <3>1 DEF Typed
    <3> QED
      BY <1>6, <2>2, <2>5, <3>2, SMTT(60)
  <2> QED
    BY <2>4, <2>5
<1>13. m - 1 > 0 /\ n + 1 - (m - 1) >= 0
  BY <1>4, <1>5, <1>6
<1>14. /\ Len(cmd'.carried.operations) + 1 - Len(cmd'.todo) = n + 1 - (m - 1)
       /\ Len(cmd'.todo) = m - 1
  BY <1>2, <1>8, <1>9
<1> QED
  <2>1. \A p \in r.files_changed : r.before[p] # Absent => p \in cmd'.existed
    BY <1>5, <1>9
  <2>2. cmd'.todo[Len(cmd'.todo)] = LogIt
    BY <1>9, <1>11, <1>14
  <2>3. \A k \in 1 .. Len(cmd'.todo) - 1 : cmd'.todo[k] = r.operations[n + 1 - (m - 1) + k]
    BY <1>6, <1>9, <1>10, <1>14
  <2>4. PICK d : d = n + 1 - (m - 1)
    OBVIOUS
  <2>6. Len(cmd'.carried.operations) + 1 - Len(cmd'.todo) = d /\ d >= 0
    BY <1>13, <1>14, <2>4
  <2>7. r.status = "success" => Progress(r, d)'
    BY <1>12, <2>4 DEF Progress
  <2>8. \A k \in 1 .. Len(cmd'.todo) - 1 : cmd'.todo[k] = r.operations[d + k]
    BY <2>3, <2>4
  <2>5. /\ Validated(r) /\ cmd'.todo \in Seq(Operations \cup {LogIt}) /\ Len(cmd'.todo) > 0
    BY <1>4, <1>8, <1>9, <1>13, <1>14
  <2> QED
    BY <1>9, <2>1, <2>2, <2>5, <2>6, <2>7, <2>8 DEF ApplyInOrder, Progress

(* An operation that fails leaves only the record to be written.           *)
LEMMA FailureInOrder ==
  ASSUME Typed, NothingDeleted, ApplyInOrder, OperationFails
  PROVE  ApplyInOrder'
<1>1. PICK r, s : r = cmd.carried /\ s = cmd'.carried
  OBVIOUS
<1>2. cmd.kind = "apply" /\ Running
  BY KindIsRunning DEF OperationFails, Kinds
<1>3. Validated(r) /\ \A p \in r.files_changed : r.before[p] # Absent => p \in cmd.existed
  BY <1>1, <1>2 DEF ApplyInOrder
<1>4. /\ cmd'.kind = "apply" /\ cmd'.todo = <<LogIt>> /\ cmd'.existed = cmd.existed
      /\ s = [[r EXCEPT !.status = "failed"] EXCEPT !.reason = "execution error"]
  BY <1>1, <1>2 DEF OperationFails, Running
<1>5. /\ Validated(s) /\ s.status = "failed" /\ s.operations = r.operations
      /\ s.before = r.before /\ s.files_changed = r.files_changed
  BY <1>3, <1>4 DEF Validated
<1>6. /\ <<LogIt>> \in Seq(Operations \cup {LogIt}) /\ Len(<<LogIt>>) = 1
      /\ <<LogIt>>[1] = LogIt /\ Len(s.operations) \in Nat
  BY <1>5, LenProperties DEF Validated
<1> QED
  BY <1>1, <1>3, <1>4, <1>5, <1>6 DEF ApplyInOrder

LEMMA ApplyInOrderStep ==
  ASSUME Typed, NothingDeleted, ApplyInOrder, Next
  PROVE  ApplyInOrder'
<1>1. cmd' = Idle => ApplyInOrder'
  BY DEF ApplyInOrder, Idle
<1>2. CASE Quiet \/ Killed
  BY <1>1, <1>2, QuietIdle, KilledIdle
<1>3. CASE LaunchStep
  <2>1. ASSUME NEW i \in Ids, HangInValidation(i)
        PROVE  ApplyInOrder'
    <3>1. cmd'.kind = "hung"
      BY <2>1, Launched DEF HangInValidation, Kinds
    <3> QED
      BY <3>1 DEF ApplyInOrder
  <2>2. CASE BuildMemory \/ \E w \in Workflows : RunWorkflow(w)
    BY <2>2, Launched DEF BuildMemory, RunWorkflow, ApplyInOrder, Kinds, MemoryKinds
  <2>3. CASE \/ \E adapter, force \in BOOLEAN : InitProject(adapter, force)
             \/ \E force \in BOOLEAN : OnboardApply(force)
             \/ \E all, force \in BOOLEAN : SyncAdapter(all, force)
             \/ \E p \in AllPlugins, force \in BOOLEAN : InstallPlugin(p, force)
    BY <2>3, Launched DEF InitProject, OnboardApply, SyncAdapter, InstallPlugin, ApplyInOrder,
                          Kinds, InstallKinds
  <2> QED
    BY <1>3, <2>1, <2>2, <2>3, StartInOrder DEF LaunchStep
<1>4. CASE ApplyStep
  <2>1. CASE FinishApply \/ FinishUnlogged
    <3>1. cmd.kind = "apply" /\ Running /\ Step = LogIt /\ StepTaken
      BY <2>1, KindIsRunning DEF FinishApply, FinishUnlogged, Kinds
    <3>2. Len(cmd.todo) = 1
      BY <3>1, LogIsLast
    <3> QED
      BY <1>1, <3>1, <3>2 DEF StepTaken
  <2> QED
    BY <1>4, <2>1, OperationInOrder, FailureInOrder DEF ApplyStep
<1>5. CASE MemoryStep
  <2>1. cmd.kind \in MemoryKinds /\ Running
    BY <1>5, KindIsRunning DEF MemoryStep, WriteIndex, WriteSummary, ReportStep, RefreshStep,
                               SummarizeStep, MemoryKinds, Kinds
  <2>2. cmd' = Idle \/ cmd'.kind = cmd.kind
    BY <1>5, <2>1, Taken DEF MemoryStep, WriteIndex, WriteSummary, ReportStep, RefreshStep,
                             SummarizeStep, Running
  <2> QED
    BY <1>1, <2>1, <2>2 DEF ApplyInOrder, MemoryKinds
<1>6. CASE InstallStep
  <2>1. cmd.kind \in InstallKinds /\ Running
    BY <1>6, KindIsRunning DEF InstallStep, SaveOld, SkipExisting, CopyFile, Writing, EnableAdapter,
                               InstallKinds, Kinds
  <2>2. cmd' = Idle \/ cmd'.kind = cmd.kind
    BY <1>6, <2>1, Taken DEF InstallStep, SaveOld, SkipExisting, CopyFile, EnableAdapter, Running
  <2> QED
    BY <1>1, <2>1, <2>2 DEF ApplyInOrder, InstallKinds
<1> QED
  BY <1>2, <1>3, <1>4, <1>5, <1>6, NextSteps

(* The record that an apply writes in the end tells the truth.             *)
LEMMA FinishedIsTruthful ==
  ASSUME Typed, NothingDeleted, ApplyInOrder, FinishApply
  PROVE  \E r : Truthful(r) /\ applyLog' = Append(applyLog, r)
<1>1. PICK c : c = cmd.carried
  OBVIOUS
<1>2. PICK n : n = Len(c.operations)
  OBVIOUS
<1>3. cmd.kind = "apply" /\ Len(cmd.todo) = 1
  BY LogIsLast DEF FinishApply
<1>4. Validated(c) /\ (c.status = "success" => Progress(c, n + 1 - 1))
  BY <1>1, <1>2, <1>3 DEF ApplyInOrder
<1>5. PICK r : /\ applyLog' = Append(applyLog, r)
               /\ \/ r = c /\ c.status # "success"
                  \/ c.status = "success" /\ r = [c EXCEPT !.after = [p \in c.files_changed |-> files[p]]]
                  \/ r = [c EXCEPT !.status = "failed", !.reason = "execution error"]
  BY <1>1 DEF FinishApply
<1>6. ASSUME r.status = "success"
      PROVE  /\ c.status = "success" /\ r.operations = c.operations /\ r.before = c.before
             /\ r.after = [p \in c.files_changed |-> files[p]]
  BY <1>4, <1>5, <1>6 DEF Validated
<1>7. c.operations \in Seq(Operations) /\ n \in Nat /\ DOMAIN c.operations = 1 .. n
  BY <1>2, <1>4, LenProperties DEF Validated
<1>8. ASSUME r.status = "success", NEW k \in 1 .. n, Alone(c.operations, k)
      PROVE  LET op == c.operations[k] IN AsAsked(op, c.before[op.path], r.after[op.path])
  <2>1. PICK op : op = c.operations[k]
    OBVIOUS
  <2>2. op \in ToSet(c.operations) /\ op \in Operations
    BY <1>7, <2>1, ElementOfSeq DEF ToSet
  <2>3. files[op.path] = Effect(op, c.before[op.path])
    BY <1>2, <1>4, <1>6, <1>7, <1>8, <2>1 DEF Progress
  <2>4. op.path \in c.files_changed /\ Passed(op, c.before) /\ c.before[op.path] \in Content
    BY <1>4, <2>2 DEF Validated, Named
  <2>5. r.after[op.path] = Effect(op, c.before[op.path])
    BY <1>6, <1>8, <2>3, <2>4
  <2>6. AsAsked(op, c.before[op.path], Effect(op, c.before[op.path]))
    BY <2>2, <2>4, EffectIsAsked
  <2> QED
    BY <2>1, <2>5, <2>6
<1>9. Truthful(r)
  BY <1>2, <1>6, <1>7, <1>8 DEF Truthful, Alone
<1> QED
  BY <1>5, <1>9

LEMMA LogStep ==
  ASSUME Typed, NothingDeleted, ApplyInOrder, LogIsTruthful, Next
  PROVE  LogIsTruthful'
<1>1. ASSUME NEW r, Truthful(r), applyLog' = Append(applyLog, r)
      PROVE  LogIsTruthful'
  <2>1. PICK log : log = applyLog'
    OBVIOUS
  <2>2. \A n \in DOMAIN log : Truthful(log[n])
    BY <1>1, <2>1, Appended DEF Typed, LogIsTruthful
  <2> QED
    BY <2>1, <2>2 DEF LogIsTruthful
<1>2. ASSUME UNCHANGED applyLog
      PROVE  LogIsTruthful'
  BY <1>2 DEF LogIsTruthful
<1>3. ASSUME NEW i \in Ids, RefuseApply(i)
      PROVE  LogIsTruthful'
  <2>1. PICK r : /\ r = [Record(i, <<>>) EXCEPT !.status = "refused", !.reason = Reason(proposals[i])]
                 /\ applyLog' = Append(applyLog, r)
    BY <1>3 DEF RefuseApply
  <2>2. r.status = "refused"
    BY <2>1 DEF Record
  <2> QED
    BY <1>1, <2>1, <2>2 DEF Truthful
<1>4. Quiet => UNCHANGED applyLog \/ \E i \in Ids : RefuseApply(i)
  BY DEF Quiet, Propose, BuildHandoff, SummarizeFeedback, OnboardPlan, AddFeedback, People, EditFile,
         WriteProposal, loop
<1>5. LaunchStep \/ Killed => UNCHANGED applyLog
  BY LaunchKeepsFiles, KilledIdle DEF loop
<1>6. MemoryStep => UNCHANGED applyLog
  BY DEF MemoryStep, WriteIndex, WriteSummary, ReportStep, RefreshStep, SummarizeStep, loop
<1>7. InstallStep => UNCHANGED applyLog
  BY DEF InstallStep, SaveOld, SkipExisting, CopyFile, EnableAdapter, loop
<1>8. ApplyStep => UNCHANGED applyLog \/ FinishApply
  BY DEF ApplyStep, ApplyOperation, OperationFails, FinishUnlogged, loop
<1> QED
  BY <1>1, <1>2, <1>3, <1>4, <1>5, <1>6, <1>7, <1>8, NextSteps, FinishedIsTruthful

(* Every change an apply makes is of a file that its record names.         *)
LEMMA UnloggedStep ==
  ASSUME Typed, NothingDeleted, ApplyInOrder, UnloggedIsNamed, Next
  PROVE  UnloggedIsNamed'
<1>1. CASE Quiet
  BY <1>1, QuietIdle DEF UnloggedIsNamed, Idle
<1>2. CASE LaunchStep
  <2>1. cmd = Idle /\ UNCHANGED <<unlogged, excused>>
    BY <1>2, LaunchKeepsFiles DEF history
  <2>2. excused \/ unlogged = {}
    BY <2>1 DEF UnloggedIsNamed, Idle
  <2> QED
    BY <2>1, <2>2 DEF UnloggedIsNamed
<1>3. CASE ApplyStep
  <2>1. cmd.kind = "apply" /\ Running
    BY <1>3, KindIsRunning DEF ApplyStep, ApplyOperation, OperationFails, FinishApply, FinishUnlogged, Kinds
  <2>2. CASE ApplyOperation \/ OperationFails
    <3>1. /\ Len(cmd.todo) # 1 /\ Step.path \in cmd.carried.files_changed
          /\ Validated(cmd.carried)
      BY <2>1, <2>2, AtOperation DEF ApplyOperation, OperationFails
    <3>2. /\ unlogged' \subseteq unlogged \cup {Step.path} /\ excused' = excused
          /\ cmd'.kind = "apply" /\ cmd'.carried.files_changed = cmd.carried.files_changed
      <4>1. CASE ApplyOperation
        BY <2>1, <3>1, <4>1 DEF ApplyOperation, StepTaken, Running
      <4>2. CASE OperationFails
        BY <2>1, <3>1, <4>2 DEF OperationFails, Running, Validated
      <4> QED
        BY <2>2, <4>1, <4>2
    <3> QED
      BY <2>1, <3>1, <3>2 DEF UnloggedIsNamed
  <2>3. CASE FinishApply
    <3>1. Len(cmd.todo) = 1 /\ Validated(cmd.carried)
      BY <2>1, <2>3, LogIsLast DEF FinishApply, ApplyInOrder
    <3>2. cmd' = Idle /\ unlogged' = unlogged \ cmd.carried.files_changed /\ excused' = excused
      BY <2>1, <2>3, <3>1 DEF FinishApply, StepTaken, Validated
    <3> QED
      BY <2>1, <3>2 DEF UnloggedIsNamed, Idle
  <2>4. CASE FinishUnlogged
    BY <2>4 DEF FinishUnlogged, UnloggedIsNamed
  <2> QED
    BY <1>3, <2>2, <2>3, <2>4 DEF ApplyStep
<1>4. CASE MemoryStep \/ InstallStep
  <2>1. cmd.kind \in MemoryKinds \cup InstallKinds /\ Running
    BY <1>4, KindIsRunning DEF MemoryStep, WriteIndex, WriteSummary, ReportStep, RefreshStep,
         SummarizeStep, InstallStep, SaveOld, SkipExisting, CopyFile, Writing, EnableAdapter,
         MemoryKinds, InstallKinds, Kinds
  <2>2. cmd' = Idle \/ cmd'.kind = cmd.kind
    <3>1. CASE StepTaken
      BY <2>1, <3>1, Taken
    <3>2. CASE RefreshStep \/ SaveOld
      BY <2>1, <3>2 DEF RefreshStep, SaveOld, Running
    <3> QED
      BY <1>4, <3>1, <3>2 DEF MemoryStep, WriteIndex, WriteSummary, ReportStep, SummarizeStep,
                              InstallStep, SkipExisting, CopyFile, EnableAdapter
  <2>3. UNCHANGED <<unlogged, excused>>
    BY <1>4 DEF MemoryStep, WriteIndex, WriteSummary, ReportStep, RefreshStep, SummarizeStep,
                InstallStep, SaveOld, SkipExisting, CopyFile, EnableAdapter, history
  <2>4. cmd.kind # "apply" /\ cmd'.kind # "apply"
    BY <2>1, <2>2 DEF MemoryKinds, InstallKinds, Idle
  <2> QED
    BY <2>3, <2>4 DEF UnloggedIsNamed
<1>5. CASE Killed
  <2>1. cmd' = Idle
    BY <1>5, KilledIdle
  <2>2. cmd.kind = "apply" => excused'
    BY <1>5 DEF Killed, KilledBetween, KilledWriting, InstallKinds, MemoryKinds
  <2>3. cmd.kind # "apply" => UNCHANGED unlogged /\ (excused => excused')
    BY <1>5 DEF Killed, KilledBetween, KilledWriting, history
  <2> QED
    BY <2>1, <2>2, <2>3 DEF UnloggedIsNamed, Idle
<1> QED
  BY <1>1, <1>2, <1>3, <1>4, <1>5, NextSteps

(***************************************************************************)
(* The memory index and its summary.                                       *)
(***************************************************************************)
LEMMA ScanIsReport == Typed => \A n \in Nat : [stamp |-> n, seen |-> Scan] \in Reports
BY DEF Typed, Reports, Scan

(* Which steps write the memory files, and what every other step leaves.   *)
LEMMA MemoryFrame ==
  ASSUME Typed, Next
  PROVE  /\ commands' \in Nat /\ commands' >= commands
         /\ ~MemoryStep /\ ~KilledWriting => UNCHANGED <<index, summary>>
<1>1. Quiet => commands' \in {commands, commands + 1}
  BY DEF Quiet, RefuseApply, Propose, BuildHandoff, SummarizeFeedback, OnboardPlan, AddFeedback, People,
         EditFile, WriteProposal, Tick
<1>2. ApplyStep => UNCHANGED <<commands, index, summary>>
  BY DEF ApplyStep, ApplyOperation, OperationFails, FinishApply, FinishUnlogged, generated
<1>3. MemoryStep => UNCHANGED commands
  BY DEF MemoryStep, WriteIndex, WriteSummary, ReportStep, RefreshStep, SummarizeStep
<1>4. InstallStep => UNCHANGED <<commands, index, summary>>
  BY DEF InstallStep, SaveOld, SkipExisting, CopyFile, EnableAdapter, generated
<1>5. KilledBetween => UNCHANGED <<index, summary>>
  BY DEF KilledBetween, generated
<1>6. commands' \in {commands, commands + 1}
  BY <1>1, <1>2, <1>3, <1>4, KilledIdle, LaunchKeepsFiles, NextSteps
<1>7. LaunchStep => UNCHANGED <<index, summary>>
  BY LaunchKeepsFiles DEF generated
<1> QED
  BY <1>2, <1>4, <1>5, <1>6, <1>7, QuietIdle, NextSteps DEF Typed, Killed

(* What is written next, in the order of the two files.                    *)
LEMMA AtReport ==
  ASSUME MemoryInOrder, cmd.kind \in MemoryKinds
  PROVE  /\ Step = cmd.todo[1] /\ cmd.todo # <<>> /\ Len(cmd.todo) \in Nat
         /\ Step \in {"index", "summary"} => cmd.carried \in Reports /\ cmd.carried.stamp = commands
         /\ Step = "index" => Len(cmd.todo) > 1
         /\ Step = "summary" => index = cmd.carried
         /\ \A k \in 1 .. Len(Tail(cmd.todo)) :
              /\ Tail(cmd.todo)[k] \in {"report", "memory", "rules", "index", "summary"}
              /\ Tail(cmd.todo)[k] # "index"
              /\ Tail(cmd.todo)[k] = "summary" => k = 1 /\ Step = "index"
         /\ Tail(cmd.todo) \in Seq({"report", "memory", "rules", "index", "summary"})
         /\ Len(Tail(cmd.todo)) = Len(cmd.todo) - 1
<1> DEFINE S == {"report", "memory", "rules", "index", "summary"}
<1>1. PICK todo, m : todo = cmd.todo /\ m = Len(todo)
  OBVIOUS
<1>2. /\ todo \in Seq(S) /\ m > 0
      /\ \A k \in 1 .. m :
           todo[k] \in {"index", "summary"} =>
             /\ cmd.carried \in Reports /\ cmd.carried.stamp = commands
             /\ \/ k = 1 /\ todo[k] = "index" /\ m > 1
                \/ k = 1 /\ todo[k] = "summary" /\ index = cmd.carried
                \/ k = 2 /\ todo[k] = "summary" /\ todo[1] = "index"
  BY <1>1 DEF MemoryInOrder
<1>3. m \in Nat /\ 1 \in 1 .. m /\ todo # <<>>
  BY <1>1, <1>2, LenProperties
<1>4. PICK rest : rest = Tail(todo)
  OBVIOUS
<1>5. rest \in Seq(S) /\ Len(rest) = m - 1 /\ \A k \in 1 .. m - 1 : rest[k] = todo[k + 1]
  BY <1>1, <1>2, <1>3, <1>4, HeadTailProperties
<1>6. Step = todo[1]
  BY <1>1, <1>2 DEF Step
<1>7. ASSUME NEW k \in 1 .. m - 1
      PROVE  rest[k] \in S /\ rest[k] # "index" /\ (rest[k] = "summary" => k = 1 /\ todo[1] = "index")
  <2>1. rest[k] = todo[k + 1] /\ k + 1 \in 1 .. m
    BY <1>3, <1>5
  <2>2. rest[k] \in S
    BY <1>2, <1>1, <2>1, ElementOfSeq
  <2> QED
    BY <1>2, <2>1, <2>2
<1>8. /\ todo[1] \in {"index", "summary"} => cmd.carried \in Reports /\ cmd.carried.stamp = commands
      /\ todo[1] = "index" => m > 1
      /\ todo[1] = "summary" => index = cmd.carried
  BY <1>2, <1>3
<1> QED
  BY <1>1, <1>3, <1>4, <1>5, <1>6, <1>7, <1>8

LEMMA ReportsStep ==
  ASSUME Typed, MemoryInOrder, StampsArePast, IndexNeverBehindSummary, Next
  PROVE  StampsArePast' /\ IndexNeverBehindSummary'
<1>1. commands' \in Nat /\ commands \in Nat /\ commands' >= commands
  BY MemoryFrame DEF Typed
<1>2. \A r \in Reports : r.stamp \in Nat /\ r # Absent
  BY FilesAssumption DEF Reports
<1>3. CASE UNCHANGED <<index, summary>>
  BY <1>1, <1>2, <1>3 DEF StampsArePast, IndexNeverBehindSummary, Typed
<1>4. CASE WriteIndex
  <2>1. index' \in Reports /\ index'.stamp = commands /\ summary' = summary /\ commands' = commands
    BY <1>4, AtReport DEF WriteIndex
  <2> QED
    BY <1>1, <1>2, <2>1 DEF StampsArePast, IndexNeverBehindSummary, Typed
<1>5. CASE WriteSummary
  <2>1. summary' = index /\ index' = index /\ commands' = commands /\ index \in Reports
    BY <1>5, AtReport DEF WriteSummary
  <2> QED
    BY <1>1, <1>2, <2>1 DEF StampsArePast, IndexNeverBehindSummary
<1>6. CASE KilledWriting
  <2>1. Absent # Torn /\ Torn \notin Reports
    BY FilesAssumption
  <2>2. \/ UNCHANGED <<index, summary>>
        \/ index' = Torn /\ summary' = summary
        \/ index' = index /\ summary' = Torn /\ index \in Reports
    <3>1. \/ UNCHANGED <<index, summary>>
          \/ index' = Torn /\ summary' = summary
          \/ cmd.kind \in MemoryKinds /\ Step = "summary" /\ index' = index /\ summary' = Torn
      BY <1>6 DEF KilledWriting
    <3>2. cmd.kind \in MemoryKinds /\ Step = "summary" => index \in Reports
      BY AtReport
    <3> QED
      BY <3>1, <3>2
  <2>3. CASE index' = Torn /\ summary' = summary
    BY <1>1, <1>2, <2>1, <2>3 DEF StampsArePast, IndexNeverBehindSummary, Typed
  <2>4. CASE index' = index /\ summary' = Torn /\ index \in Reports
    BY <1>1, <1>2, <2>1, <2>4 DEF StampsArePast, IndexNeverBehindSummary, Typed
  <2> QED
    BY <1>3, <2>2, <2>3, <2>4
<1>7. ReportStep \/ RefreshStep \/ SummarizeStep => UNCHANGED <<index, summary>>
  BY DEF ReportStep, RefreshStep, SummarizeStep, generated
<1> QED
  BY <1>3, <1>4, <1>5, <1>6, <1>7, MemoryFrame DEF MemoryStep

(* A process that goes on after the index is written writes the summary.   *)
LEMMA MemoryGoesOn ==
  ASSUME Running, MemoryInOrder, cmd.kind \in MemoryKinds, StepTaken, commands' = commands,
         Step = "index" => index' = cmd.carried
  PROVE  MemoryInOrder'
<1>1. CASE cmd' = Idle
  BY <1>1 DEF MemoryInOrder, Idle, MemoryKinds
<1>2. CASE cmd' # Idle
  <2>1. PICK rest, m : rest = Tail(cmd.todo) /\ m = Len(rest)
    OBVIOUS
  <2>2. cmd'.todo = rest /\ Len(cmd.todo) # 1 /\ cmd'.carried = cmd.carried
    BY <1>2, <2>1, Taken
  <2>3. /\ rest \in Seq({"report", "memory", "rules", "index", "summary"})
        /\ Len(cmd.todo) \in Nat /\ cmd.todo # <<>> /\ m = Len(cmd.todo) - 1
        /\ \A k \in 1 .. m : rest[k] # "index" /\ (rest[k] = "summary" => k = 1 /\ Step = "index")
        /\ Step = "index" => cmd.carried \in Reports /\ cmd.carried.stamp = commands
    BY <2>1, AtReport
  <2>4. Len(cmd.todo) > 0
    BY DEF MemoryInOrder
  <2>5. m > 0
    <3>1. PICK n : n = Len(cmd.todo)
      OBVIOUS
    <3>2. n \in Nat /\ n > 0 /\ n # 1 /\ m = n - 1
      BY <2>2, <2>3, <2>4, <3>1
    <3> QED
      BY <3>2
  <2>6. ASSUME NEW k \in 1 .. m, rest[k] \in {"index", "summary"}
        PROVE  /\ cmd'.carried \in Reports /\ cmd'.carried.stamp = commands'
               /\ k = 1 /\ rest[k] = "summary" /\ index' = cmd'.carried
    BY <2>2, <2>3, <2>6
  <2> QED
    BY <2>1, <2>2, <2>3, <2>5, <2>6 DEF MemoryInOrder
<1> QED
  BY <1>1, <1>2

LEMMA MemoryInOrderStep ==
  ASSUME Typed, MemoryInOrder, Next
  PROVE  MemoryInOrder'
<1> DEFINE S == {"report", "memory", "rules", "index", "summary"}
<1>1. cmd'.kind \notin MemoryKinds => MemoryInOrder'
  BY DEF MemoryInOrder
<1>2. CASE Quiet \/ Killed
  <2>1. cmd' = Idle
    BY <1>2, QuietIdle, KilledIdle
  <2> QED
    BY <1>1, <2>1 DEF Idle, MemoryKinds
<1>3. CASE LaunchStep
  <2>1. commands' = commands + 1
    BY <1>3, LaunchKeepsFiles
  <2>2. CASE BuildMemory
    <3>1. cmd'.todo = <<"index", "summary">> /\ cmd'.carried = [stamp |-> commands + 1, seen |-> Scan]
      BY <2>2, Launched DEF BuildMemory, MemoryIndex, Kinds, MemoryKinds
    <3>2. cmd'.carried \in Reports /\ cmd'.carried.stamp = commands'
      BY <2>1, <3>1, ScanIsReport DEF Typed
    <3>3. /\ <<"index", "summary">> \in Seq(S) /\ Len(<<"index", "summary">>) = 2
          /\ <<"index", "summary">>[1] = "index" /\ <<"index", "summary">>[2] = "summary"
      OBVIOUS
    <3>4. PICK todo : todo = cmd'.todo
      OBVIOUS
    <3>5. /\ todo \in Seq(S) /\ Len(todo) = 2 /\ todo[1] = "index" /\ todo[2] = "summary"
      BY <3>1, <3>3, <3>4
    <3>6. \A k \in 1 .. 2 : k = 1 \/ k = 2
      OBVIOUS
    <3> QED
      BY <3>2, <3>4, <3>5, <3>6 DEF MemoryInOrder
  <2>3. ASSUME NEW w \in Workflows, RunWorkflow(w)
        PROVE  MemoryInOrder'
    <3>1. cmd'.todo = w
      BY <2>3, Launched DEF RunWorkflow, Kinds, MemoryKinds
    <3>2. w \in Seq({"report", "memory", "rules"}) /\ w # <<>>
      BY LoopAssumption
    <3>3. /\ w \in Seq(S) /\ Len(w) \in Nat /\ Len(w) > 0
          /\ \A k \in 1 .. Len(w) : w[k] \in {"report", "memory", "rules"}
      <4>1. w \in Seq(S)
        BY <3>2, SeqMonotonic
      <4>2. \A k \in 1 .. Len(w) : w[k] \in {"report", "memory", "rules"}
        BY <3>2, ElementOfSeq
      <4>3. Len(w) \in Nat /\ Len(w) # 0
        BY <3>2, LenProperties, EmptySeq
      <4> QED
        BY <4>1, <4>2, <4>3
    <3> QED
      BY <3>1, <3>3 DEF MemoryInOrder
  <2>4. ASSUME NEW i \in Ids, HangInValidation(i) \/ StartApply(i)
        PROVE  MemoryInOrder'
    <3>1. cmd'.kind \in {"hung", "apply"}
      BY <2>4, Launched DEF HangInValidation, StartApply, Kinds
    <3> QED
      BY <1>1, <3>1 DEF MemoryKinds
  <2>5. CASE \/ \E adapter, force \in BOOLEAN : InitProject(adapter, force)
             \/ \E force \in BOOLEAN : OnboardApply(force)
             \/ \E all, force \in BOOLEAN : SyncAdapter(all, force)
             \/ \E p \in AllPlugins, force \in BOOLEAN : InstallPlugin(p, force)
    BY <1>1, <2>5, Launched DEF InitProject, OnboardApply, SyncAdapter, InstallPlugin,
                                Kinds, InstallKinds, MemoryKinds
  <2> QED
    BY <1>3, <2>2, <2>3, <2>4, <2>5 DEF LaunchStep
<1>4. CASE ApplyStep
  <2>1. cmd.kind = "apply" /\ Running
    BY <1>4, KindIsRunning DEF ApplyStep, ApplyOperation, OperationFails, FinishApply, FinishUnlogged, Kinds
  <2>2. cmd' = Idle \/ cmd'.kind = cmd.kind
    BY <1>4, <2>1, Taken DEF ApplyStep, ApplyOperation, OperationFails, FinishApply, FinishUnlogged, Running
  <2> QED
    BY <1>1, <2>1, <2>2 DEF MemoryKinds, Idle
<1>5. CASE MemoryStep
  <2>1. cmd.kind \in MemoryKinds /\ Running /\ commands' = commands
    BY <1>5, KindIsRunning DEF MemoryStep, WriteIndex, WriteSummary, ReportStep, RefreshStep,
                               SummarizeStep, MemoryKinds, Kinds
  <2>2. CASE WriteIndex \/ WriteSummary \/ SummarizeStep
    BY <2>1, <2>2, MemoryGoesOn DEF WriteIndex, WriteSummary, SummarizeStep
  <2>3. CASE ReportStep
    <3>1. cmd' = Idle => MemoryInOrder'
      BY <1>1 DEF Idle, MemoryKinds
    <3> QED
      BY <2>1, <2>3, <3>1, MemoryGoesOn DEF ReportStep
  <2>4. CASE RefreshStep
    <3>1. PICK rest, m : rest = Tail(cmd.todo) /\ m = Len(rest)
      OBVIOUS
    <3>2. PICK todo : todo = <<"index", "summary">> \o rest
      OBVIOUS
    <3>3. cmd'.todo = todo /\ cmd'.carried = [stamp |-> commands, seen |-> Scan]
      BY <2>1, <2>4, <3>1, <3>2 DEF RefreshStep, Running
    <3>4. cmd'.carried \in Reports /\ cmd'.carried.stamp = commands'
      BY <2>1, <3>3, ScanIsReport DEF Typed
    <3>5. rest \in Seq(S) /\ \A k \in 1 .. m : rest[k] \notin {"index", "summary"}
      BY <2>1, <2>4, <3>1, AtReport DEF RefreshStep
    <3>6. /\ todo \in Seq(S) /\ Len(todo) = 2 + m /\ m \in Nat
          /\ todo[1] = "index" /\ todo[2] = "summary"
          /\ \A k \in 3 .. 2 + m : todo[k] = rest[k - 2]
      <4>1. <<"index", "summary">> \in Seq(S) /\ Len(<<"index", "summary">>) = 2
        OBVIOUS
      <4>2. m \in Nat
        BY <3>1, <3>5, LenProperties
      <4> QED
        BY <3>1, <3>2, <3>5, <4>1, <4>2, ConcatProperties, SMTT(60)
    <3>7. ASSUME NEW k \in 1 .. 2 + m, todo[k] \in {"index", "summary"}
          PROVE  k = 1 \/ k = 2
      <4>1. CASE k > 2
        <5>1. k - 2 \in 1 .. m /\ todo[k] = rest[k - 2]
          BY <3>6, <4>1
        <5> QED
          BY <3>5, <3>7, <5>1
      <4> QED
        BY <3>6, <4>1
    <3> QED
      BY <3>3, <3>4, <3>6, <3>7 DEF MemoryInOrder
  <2> QED
    BY <1>5, <2>2, <2>3, <2>4 DEF MemoryStep
<1>6. CASE InstallStep
  <2>1. cmd.kind \in InstallKinds /\ Running
    BY <1>6, KindIsRunning DEF InstallStep, SaveOld, SkipExisting, CopyFile, Writing, EnableAdapter,
                               InstallKinds, Kinds
  <2>2. cmd' = Idle \/ cmd'.kind = cmd.kind
    BY <1>6, <2>1, Taken DEF InstallStep, SaveOld, SkipExisting, CopyFile, EnableAdapter, Running
  <2> QED
    BY <1>1, <2>1, <2>2 DEF MemoryKinds, InstallKinds, Idle
<1> QED
  BY <1>2, <1>3, <1>4, <1>5, <1>6, NextSteps

(***************************************************************************)
(* The copies of an installing command.                                    *)
(***************************************************************************)
LEMMA CopiesAreMade ==
  ASSUME NEW shipped \in Seq(File), NEW mode \in {"plain", "skip", "backup"}
  PROVE  /\ Copies(shipped, mode) \in Seq(Copy) /\ Len(Copies(shipped, mode)) = Len(shipped)
         /\ Len(shipped) \in Nat
         /\ \A k \in 1 .. Len(shipped) :
              /\ Copies(shipped, mode)[k].path = shipped[k].path
              /\ Copies(shipped, mode)[k].text = shipped[k].text
              /\ Copies(shipped, mode)[k].mode = mode /\ Copies(shipped, mode)[k].saved = FALSE
<1>1. PICK n : n = Len(shipped)
  OBVIOUS
<1>2. DOMAIN shipped = 1 .. n /\ n \in Nat /\ \A k \in 1 .. n : shipped[k] \in File
  BY <1>1, LenProperties, ElementOfSeq
<1>3. PICK s : s = Copies(shipped, mode)
  OBVIOUS
<1>4. s = [k \in 1 .. n |-> [path |-> shipped[k].path, text |-> shipped[k].text,
                             mode |-> mode, saved |-> FALSE]]
  BY <1>2, <1>3 DEF Copies
<1>5. \A k \in 1 .. n : shipped[k].path \in Paths /\ shipped[k].text \in Text
  BY <1>2 DEF File
<1>6. s \in [1 .. n -> Copy]
  BY <1>4, <1>5 DEF Copy
<1>7. s \in Seq(Copy)
  BY <1>2, <1>6, SeqDef
<1>8. Len(s) = n
  BY <1>2, <1>6, <1>7, LenProperties
<1>9. \A k \in 1 .. n : /\ s[k].path = shipped[k].path /\ s[k].text = shipped[k].text
                         /\ s[k].mode = mode /\ s[k].saved = FALSE
  BY <1>4
<1> QED
  BY <1>1, <1>2, <1>3, <1>7, <1>8, <1>9

(* The template has the config among its files.                            *)
LEMMA TemplateHasConfig ==
  /\ TemplateFiles \in Seq(File) /\ Len(TemplateFiles) \in Nat
  /\ \E k \in 1 .. Len(TemplateFiles) : TemplateFiles[k].path = ConfigPath
BY InstallAssumption, LenProperties

(* Copies that skip what exists, or back it up, or find nothing there.     *)
LEMMA CopiesInOrder ==
  ASSUME NEW kind \in InstallKinds, NEW shipped \in Seq(File), shipped # <<>>,
         NEW mode \in {"skip", "backup"}, NEW force,
         Launch(Command(kind, Copies(shipped, mode), force, Absent)),
         force \/ mode = "skip" \/ ~Conflict(shipped)
  PROVE  InstallInOrder'
<1>1. PICK todo, n : todo = Copies(shipped, mode) /\ n = Len(shipped)
  OBVIOUS
<1>2. /\ cmd'.kind = kind /\ cmd'.todo = todo /\ cmd'.force = force
      /\ cmd'.existed = {p \in Paths : files[p] # Absent}
  BY <1>1, Launched DEF Kinds
<1>3. /\ todo \in Seq(Copy) /\ Len(todo) = n /\ n \in Nat
      /\ \A k \in 1 .. n : /\ todo[k].path = shipped[k].path
                           /\ todo[k].mode = mode /\ todo[k].saved = FALSE
  <2>1. mode \in {"plain", "skip", "backup"}
    OBVIOUS
  <2>2. /\ Copies(shipped, mode) \in Seq(Copy) /\ Len(Copies(shipped, mode)) = Len(shipped)
        /\ Len(shipped) \in Nat
        /\ \A k \in 1 .. Len(shipped) :
             /\ Copies(shipped, mode)[k].path = shipped[k].path
             /\ Copies(shipped, mode)[k].text = shipped[k].text
             /\ Copies(shipped, mode)[k].mode = mode /\ Copies(shipped, mode)[k].saved = FALSE
    BY <2>1, CopiesAreMade, ZenonT(60)
  <2> QED
    BY <1>1, <2>2
<1>4. n > 0 /\ todo \in Seq(Copy \cup {Enable})
  BY <1>1, <1>3, SeqMonotonic, EmptySeq, LenProperties
<1>5. ASSUME NEW k \in 1 .. n
      PROVE  /\ todo[k].mode = mode /\ todo[k].saved = FALSE /\ todo[k].path = shipped[k].path
             /\ force \/ mode = "skip" \/ todo[k].path \notin cmd'.existed
  <2>1. todo[k].mode = mode /\ todo[k].saved = FALSE /\ todo[k].path = shipped[k].path
    BY <1>3
  <2>2. ~Conflict(shipped) => files[shipped[k].path] = Absent
    BY <1>1, LenProperties DEF Conflict
  <2> QED
    BY <1>2, <2>1, <2>2
<1> QED
  BY <1>2, <1>3, <1>4, <1>5 DEF InstallInOrder

(* init finds none of the template's files, unless it is forced.           *)
LEMMA InitInOrder ==
  ASSUME NEW adapter \in BOOLEAN, NEW force \in BOOLEAN, InitProject(adapter, force)
  PROVE  /\ InstallInOrder'
         /\ \A k \in 1 .. Len(cmd'.todo) :
              \/ \E i \in 1 .. Len(TemplateFiles) : cmd'.todo[k].path = TemplateFiles[i].path
              \/ cmd'.todo[k].path \in {RulesFile.path, ConfigPath}
<1>1. PICK T, U, n, m : /\ T = Copies(TemplateFiles, "plain") /\ n = Len(T)
                        /\ U = (IF adapter THEN Copies(<<RulesFile>>, "plain") \o <<Enable>> ELSE <<>>)
                        /\ m = Len(U)
  OBVIOUS
<1>2. PICK todo : todo = T \o U
  OBVIOUS
<1>3. /\ cmd'.kind = "init" /\ cmd'.todo = todo /\ cmd'.force = force
      /\ cmd'.existed = {p \in Paths : files[p] # Absent}
  BY <1>1, <1>2, Launched DEF InitProject, Kinds, InstallKinds
<1>4. /\ T \in Seq(Copy) /\ n = Len(TemplateFiles) /\ n \in Nat
      /\ \A k \in 1 .. n : /\ T[k].path = TemplateFiles[k].path
                           /\ T[k].mode = "plain" /\ T[k].saved = FALSE
  BY <1>1, CopiesAreMade, TemplateHasConfig, ZenonT(60)
<1>5. PICK c \in 1 .. n : T[c].path = ConfigPath /\ T[c].mode = "plain"
  <2>1. PICK k \in 1 .. n : TemplateFiles[k].path = ConfigPath
    BY <1>4, TemplateHasConfig
  <2> QED
    BY <1>4, <2>1
<1>6. /\ U \in Seq(Copy \cup {Enable}) /\ m \in {0, 2}
      /\ m = 2 => /\ U[1].path = RulesFile.path /\ U[1].mode = "plain" /\ U[1].saved = FALSE
                  /\ U[2] = Enable
  <2>1. CASE adapter
    <3>1. PICK R : R = Copies(<<RulesFile>>, "plain")
      OBVIOUS
    <3>2. PICK s : /\ s = <<RulesFile>>
                   /\ s \in Seq(File) /\ Len(s) = 1 /\ s[1] = RulesFile
      BY InstallAssumption, OneElement
    <3>3. /\ R \in Seq(Copy) /\ Len(R) = 1
          /\ R[1].path = RulesFile.path /\ R[1].mode = "plain" /\ R[1].saved = FALSE
      <4>1. 1 \in 1 .. Len(s)
        BY <3>2
      <4>2. /\ Copies(s, "plain") \in Seq(Copy) /\ Len(Copies(s, "plain")) = Len(s)
            /\ \A k \in 1 .. Len(s) :
                 /\ Copies(s, "plain")[k].path = s[k].path
                 /\ Copies(s, "plain")[k].text = s[k].text
                 /\ Copies(s, "plain")[k].mode = "plain" /\ Copies(s, "plain")[k].saved = FALSE
        BY <3>2, CopiesAreMade, Zenon
      <4> QED
        BY <3>1, <3>2, <4>1, <4>2
    <3>7. PICK e : /\ e = <<Enable>>
                   /\ e \in Seq(Copy \cup {Enable}) /\ Len(e) = 1 /\ e[1] = Enable
      BY OneElement
    <3>4. R \in Seq(Copy \cup {Enable})
      BY <3>3, SeqMonotonic
    <3>5. U = R \o e
      BY <1>1, <2>1, <3>1, <3>7
    <3>6. /\ U \in Seq(Copy \cup {Enable}) /\ m = 2 /\ U[1] = R[1] /\ U[2] = Enable
      <4>1. 1 \in 1 .. Len(R) /\ 2 \in Len(R) + 1 .. Len(R) + Len(e) /\ 2 - Len(R) = 1
        BY <3>3, <3>7
      <4>2. /\ R \o e \in Seq(Copy \cup {Enable}) /\ Len(R \o e) = Len(R) + Len(e)
            /\ (R \o e)[1] = R[1] /\ (R \o e)[2] = e[2 - Len(R)]
        BY <3>4, <3>7, <4>1, ConcatProperties
      <4> QED
        <5>1. Len(R \o e) = 2 /\ (R \o e)[2] = Enable
          BY <3>3, <3>7, <4>2
        <5> QED
          BY <1>1, <3>5, <4>2, <5>1
    <3> QED
      BY <3>3, <3>6
  <2>2. CASE ~adapter
    BY <1>1, <2>2, EmptySeq
  <2> QED
    BY <2>1, <2>2
<1>7. /\ todo \in Seq(Copy \cup {Enable}) /\ Len(todo) = n + m
      /\ \A k \in 1 .. n : todo[k] = T[k]
      /\ \A k \in n + 1 .. n + m : todo[k] = U[k - n]
  <2>1. T \in Seq(Copy \cup {Enable})
    BY <1>4, SeqMonotonic
  <2> QED
    BY <1>1, <1>2, <1>4, <1>6, <2>1, ConcatProperties
<1>8. ASSUME NEW k \in 1 .. n
      PROVE  /\ todo[k].mode = "plain" /\ todo[k].saved = FALSE
             /\ todo[k].path = TemplateFiles[k].path
             /\ force \/ todo[k].path \notin cmd'.existed
  <2>1. todo[k].mode = "plain" /\ todo[k].saved = FALSE /\ todo[k].path = TemplateFiles[k].path
    BY <1>4, <1>7
  <2>2. force \/ files[TemplateFiles[k].path] = Absent
    BY <1>4, TemplateHasConfig, LenProperties DEF Conflict, InitProject
  <2> QED
    BY <1>3, <2>1, <2>2
<1>9. ASSUME NEW k \in n + 1 .. n + m
      PROVE  \/ todo[k].mode = "plain" /\ todo[k].saved = FALSE /\ todo[k].path = RulesFile.path
             \/ todo[k] = Enable
  <2>1. m = 2 /\ (k = n + 1 \/ k = n + 2)
    <3>1. n \in Nat /\ m \in {0, 2}
      BY <1>4, <1>6
    <3> QED
      BY <3>1
  <2> QED
    BY <1>4, <1>6, <1>7, <2>1
<1>10. force \/ ConfigPath \notin cmd'.existed
  BY <1>5, <1>7, <1>8
<1>11. ASSUME NEW k \in 1 .. n + m
       PROVE  /\ todo[k].mode # "enable" => ~todo[k].saved
              /\ todo[k].mode = "enable" =>
                   \E j \in 1 .. k - 1 : todo[j].mode = "plain" /\ todo[j].path = ConfigPath
              /\ ~force /\ todo[k].path \in cmd'.existed => todo[k].path = RulesFile.path
  <2>1. CASE k \in 1 .. n
    BY <1>8, <2>1
  <2>2. CASE k \in n + 1 .. n + m
    <3>1. c \in 1 .. k - 1 /\ todo[c].mode = "plain" /\ todo[c].path = ConfigPath
      <4>1. n \in Nat /\ c \in 1 .. n /\ todo[c] = T[c]
        BY <1>4, <1>5, <1>7
      <4> QED
        BY <1>5, <2>2, <4>1
    <3>2. \/ todo[k].mode = "plain" /\ todo[k].saved = FALSE /\ todo[k].path = RulesFile.path
          \/ todo[k].mode = "enable" /\ todo[k].path = ConfigPath
      <4>1. Enable.mode = "enable" /\ Enable.path = ConfigPath
        BY DEF Enable
      <4> QED
        BY <1>9, <2>2, <4>1
    <3> QED
      BY <1>10, <3>1, <3>2
  <2> QED
    BY <1>4, <1>6, <2>1, <2>2
<1>12. n + m > 0
  BY <1>4, <1>5, <1>6
<1>13. InstallInOrder'
  BY <1>3, <1>7, <1>11, <1>12 DEF InstallInOrder
<1>14. ASSUME NEW k \in 1 .. n + m
       PROVE  \/ \E i \in 1 .. n : todo[k].path = TemplateFiles[i].path
              \/ todo[k].path \in {RulesFile.path, ConfigPath}
  <2>1. CASE k \in 1 .. n
    BY <1>8, <2>1
  <2>2. CASE k \in n + 1 .. n + m
    <3>1. Enable.path = ConfigPath
      BY DEF Enable
    <3> QED
      BY <1>9, <2>2, <3>1
  <2> QED
    BY <1>4, <1>6, <2>1, <2>2
<1> QED
  BY <1>3, <1>4, <1>7, <1>13, <1>14

(* A command that goes on to its next copy: the config stays, or is there  *)
(* once it has been copied.                                                *)
LEMMA InstallGoesOn ==
  ASSUME Running, InstallInOrder, cmd.kind \in InstallKinds, StepTaken,
         files[ConfigPath] # Absent => files'[ConfigPath] # Absent,
         Step.mode = "plain" /\ Step.path = ConfigPath => files'[ConfigPath] # Absent
  PROVE  InstallInOrder'
<1>1. CASE cmd' = Idle
  BY <1>1 DEF InstallInOrder, Idle, InstallKinds
<1>2. CASE cmd' # Idle
  <2>1. PICK todo, n, rest : todo = cmd.todo /\ n = Len(todo) /\ rest = Tail(todo)
    OBVIOUS
  <2>2. /\ cmd'.kind = cmd.kind /\ cmd'.todo = rest /\ n # 1
        /\ cmd'.force = cmd.force /\ cmd'.existed = cmd.existed
    BY <1>2, <2>1, Taken
  <2>3. todo \in Seq(Copy \cup {Enable}) /\ n > 0
    BY <2>1 DEF InstallInOrder
  <2>4. n \in Nat /\ todo # <<>>
    BY <2>1, <2>3, LenProperties
  <2>5. /\ rest \in Seq(Copy \cup {Enable}) /\ Len(rest) = n - 1
        /\ \A k \in 1 .. n - 1 : rest[k] = todo[k + 1]
    BY <2>1, <2>3, <2>4, HeadTailProperties
  <2>6. Step = todo[1]
    BY <2>1, <2>3 DEF Step
  <2>7. n - 1 > 0
    BY <2>2, <2>3, <2>4
  <2>8. ASSUME NEW k \in 1 .. n - 1
        PROVE  /\ rest[k].mode \in {"plain", "enable"} => cmd.kind = "init"
               /\ rest[k].mode # "enable" => ~rest[k].saved
               /\ rest[k].mode = "enable" =>
                    \/ files'[ConfigPath] # Absent
                    \/ \E j \in 1 .. k - 1 : rest[j].mode = "plain" /\ rest[j].path = ConfigPath
               /\ ~cmd.force /\ rest[k].path \in cmd.existed =>
                    \/ rest[k].mode = "skip"
                    \/ cmd.kind = "init" /\ rest[k].path = RulesFile.path
    <3>1. k + 1 \in 1 .. n /\ rest[k] = todo[k + 1] /\ k + 1 # 1 /\ k + 1 - 1 = k
      BY <2>4, <2>5
    <3>2. /\ rest[k].mode \in {"plain", "enable"} => cmd.kind = "init"
          /\ rest[k].mode # "enable" /\ rest[k].saved => k + 1 = 1
          /\ rest[k].mode = "enable" =>
               \/ files[ConfigPath] # Absent
               \/ \E j \in 1 .. k + 1 - 1 : todo[j].mode = "plain" /\ todo[j].path = ConfigPath
          /\ ~cmd.force /\ rest[k].path \in cmd.existed =>
               \/ rest[k].mode = "skip"
               \/ cmd.kind = "init" /\ rest[k].path = RulesFile.path
      BY <2>1, <3>1 DEF InstallInOrder
    <3>3. ASSUME NEW j \in 1 .. k, todo[j].mode = "plain", todo[j].path = ConfigPath
          PROVE  \/ files'[ConfigPath] # Absent
                 \/ \E i \in 1 .. k - 1 : rest[i].mode = "plain" /\ rest[i].path = ConfigPath
      <4>1. CASE j = 1
        BY <2>6, <3>3, <4>1
      <4>2. CASE j # 1
        <5>1. j - 1 \in 1 .. k - 1 /\ rest[j - 1] = todo[j]
          BY <2>4, <2>5, <4>2
        <5> QED
          BY <3>3, <5>1
      <4> QED
        BY <4>1, <4>2
    <3> QED
      BY <3>1, <3>2, <3>3
  <2> QED
    BY <2>2, <2>5, <2>7, <2>8, SMTT(60) DEF InstallInOrder
<1> QED
  BY <1>1, <1>2

(* The copy a command is at has been saved once its backup is made.        *)
LEMMA SavedInOrder ==
  ASSUME Typed, InstallInOrder, SaveOld
  PROVE  InstallInOrder'
<1>1. PICK todo, n : todo = cmd.todo /\ n = Len(todo)
  OBVIOUS
<1>2. cmd.kind \in InstallKinds /\ Running /\ Step.mode = "backup"
  BY KindIsRunning DEF SaveOld, MustSave, Kinds
<1>3. /\ todo \in Seq(Copy \cup {Enable}) /\ n \in Nat \ {0} /\ Step = todo[1]
      /\ Step.path \in Paths /\ Step \in Copy
  BY <1>1, <1>2, AtCopy
<1>4. PICK head, next : head = [Step EXCEPT !.saved = TRUE] /\ next = [todo EXCEPT ![1] = head]
  OBVIOUS
<1>5. /\ cmd'.kind = cmd.kind /\ cmd'.todo = next /\ cmd'.force = cmd.force
      /\ cmd'.existed = cmd.existed /\ files' = files
      /\ backups' = [backups EXCEPT ![Step.path] = files[Step.path]]
  BY <1>1, <1>2, <1>3, <1>4 DEF SaveOld, Running
<1>6. /\ head \in Copy /\ head.path = Step.path /\ head.mode = "backup"
  BY <1>2, <1>3, <1>4 DEF Copy
<1>7. /\ next \in Seq(Copy \cup {Enable}) /\ Len(next) = n
      /\ next[1] = head /\ \A k \in 2 .. n : next[k] = todo[k]
  BY <1>1, <1>3, <1>4, <1>6, ExceptSeq, LenProperties
<1>8. backups'[head.path] = files'[head.path]
  BY <1>3, <1>5, <1>6 DEF Typed
<1>9. \A k \in 1 .. n : next[k].mode = todo[k].mode /\ next[k].path = todo[k].path
  BY <1>2, <1>3, <1>6, <1>7
<1>10. ASSUME NEW k \in 1 .. n
       PROVE  /\ next[k].mode \in {"plain", "enable"} => cmd.kind = "init"
              /\ next[k].mode # "enable" /\ next[k].saved =>
                   k = 1 /\ backups'[next[k].path] = files'[next[k].path]
              /\ next[k].mode = "enable" =>
                   \/ files'[ConfigPath] # Absent
                   \/ \E j \in 1 .. k - 1 : next[j].mode = "plain" /\ next[j].path = ConfigPath
              /\ ~cmd.force /\ next[k].path \in cmd.existed =>
                   \/ next[k].mode = "skip"
                   \/ cmd.kind = "init" /\ next[k].path = RulesFile.path
  <2>1. /\ todo[k].mode \in {"plain", "enable"} => cmd.kind = "init"
        /\ todo[k].mode # "enable" /\ todo[k].saved => k = 1
        /\ todo[k].mode = "enable" =>
             \/ files[ConfigPath] # Absent
             \/ \E j \in 1 .. k - 1 : todo[j].mode = "plain" /\ todo[j].path = ConfigPath
        /\ ~cmd.force /\ todo[k].path \in cmd.existed =>
             \/ todo[k].mode = "skip"
             \/ cmd.kind = "init" /\ todo[k].path = RulesFile.path
    BY <1>1, <1>2 DEF InstallInOrder
  <2>2. next[k].mode # "enable" /\ next[k].saved =>
          k = 1 /\ backups'[next[k].path] = files'[next[k].path]
    BY <1>7, <1>8, <1>9, <2>1
  <2>3. \A j \in 1 .. k - 1 : next[j].mode = todo[j].mode /\ next[j].path = todo[j].path
    BY <1>3, <1>9
  <2> QED
    BY <1>5, <1>9, <2>1, <2>2, <2>3
<1> QED
  BY <1>3, <1>5, <1>7, <1>10 DEF InstallInOrder

LEMMA InstallInOrderStep ==
  ASSUME Typed, NothingDeleted, InstallInOrder, Next
  PROVE  InstallInOrder'
<1>1. cmd'.kind \notin InstallKinds => InstallInOrder'
  BY DEF InstallInOrder
<1>2. CASE Quiet \/ Killed
  <2>1. cmd' = Idle
    BY <1>2, QuietIdle, KilledIdle
  <2> QED
    BY <1>1, <2>1 DEF Idle, InstallKinds
<1>3. CASE LaunchStep
  <2>1. ASSUME NEW i \in Ids, HangInValidation(i) \/ StartApply(i)
        PROVE  InstallInOrder'
    <3>1. cmd'.kind \in {"hung", "apply"}
      BY <2>1, Launched DEF HangInValidation, StartApply, Kinds
    <3> QED
      BY <1>1, <3>1 DEF InstallKinds
  <2>2. CASE BuildMemory \/ \E w \in Workflows : RunWorkflow(w)
    <3>1. cmd'.kind \in MemoryKinds
      BY <2>2, Launched DEF BuildMemory, RunWorkflow, Kinds, MemoryKinds
    <3> QED
      BY <1>1, <3>1 DEF InstallKinds, MemoryKinds
  <2>3. TemplateFiles # <<>>
    BY TemplateHasConfig
  <2>4. ASSUME NEW force \in BOOLEAN, OnboardApply(force)
        PROVE  InstallInOrder'
    BY <2>3, <2>4, CopiesInOrder, TemplateHasConfig DEF OnboardApply, InstallKinds
  <2>5. ASSUME NEW all \in BOOLEAN, NEW force \in BOOLEAN, SyncAdapter(all, force)
        PROVE  InstallInOrder'
    <3>1. PICK s : s = <<RulesFile>> /\ s \in Seq(File) /\ s # <<>>
      BY InstallAssumption, OneElement
    <3> QED
      BY <2>5, <3>1, CopiesInOrder DEF SyncAdapter, InstallKinds
  <2>6. ASSUME NEW p \in AllPlugins, NEW force \in BOOLEAN, InstallPlugin(p, force)
        PROVE  InstallInOrder'
    <3>1. PICK s : s = PluginFiles(p)
      OBVIOUS
    <3>2. s \in Seq(File) /\ s # <<>>
      <4>1. <<p.manifest>> \in Seq(File) /\ Len(<<p.manifest>>) = 1 /\ p.assets \in Seq(File)
        BY InstallAssumption, OneElement
      <4>2. s \in Seq(File) /\ Len(s) = 1 + Len(p.assets) /\ Len(p.assets) \in Nat
        BY <3>1, <4>1, ConcatProperties, LenProperties DEF PluginFiles
      <4> QED
        BY <4>2
    <3> QED
      BY <2>6, <3>1, <3>2, CopiesInOrder DEF InstallPlugin, InstallKinds
  <2> QED
    BY <1>3, <2>1, <2>2, <2>4, <2>5, <2>6, InitInOrder DEF LaunchStep
<1>4. CASE ApplyStep
  <2>1. cmd.kind = "apply" /\ Running
    BY <1>4, KindIsRunning DEF ApplyStep, ApplyOperation, OperationFails, FinishApply, FinishUnlogged, Kinds
  <2>2. cmd' = Idle \/ cmd'.kind = cmd.kind
    BY <1>4, <2>1, Taken DEF ApplyStep, ApplyOperation, OperationFails, FinishApply, FinishUnlogged, Running
  <2> QED
    BY <1>1, <2>1, <2>2 DEF InstallKinds, Idle
<1>5. CASE MemoryStep
  <2>1. cmd.kind \in MemoryKinds /\ Running
    BY <1>5, KindIsRunning DEF MemoryStep, WriteIndex, WriteSummary, ReportStep, RefreshStep,
                               SummarizeStep, MemoryKinds, Kinds
  <2>2. cmd' = Idle \/ cmd'.kind = cmd.kind
    BY <1>5, <2>1, Taken DEF MemoryStep, WriteIndex, WriteSummary, ReportStep, RefreshStep,
                             SummarizeStep, Running
  <2> QED
    BY <1>1, <2>1, <2>2 DEF MemoryKinds, InstallKinds, Idle
<1>6. CASE InstallStep
  <2>1. /\ cmd.kind \in InstallKinds /\ Running
        /\ \A p \in Paths : files[p] # Absent => files'[p] # Absent
    BY <1>6, KindIsRunning, InstallTyped DEF InstallStep, SaveOld, SkipExisting, CopyFile, Writing,
                                             EnableAdapter, InstallKinds, Kinds
  <2>2. ConfigPath \in Paths
    <3>1. PICK k \in 1 .. Len(TemplateFiles) : TemplateFiles[k].path = ConfigPath
      BY TemplateHasConfig
    <3>2. TemplateFiles[k] \in File
      BY TemplateHasConfig, ElementOfSeq
    <3> QED
      BY <3>1, <3>2 DEF File
  <2>3. CASE SkipExisting \/ EnableAdapter
    <3>1. StepTaken /\ Step.mode # "plain"
      BY <2>3 DEF SkipExisting, EnableAdapter
    <3> QED
      BY <2>1, <2>2, <3>1, InstallGoesOn
  <2>4. CASE CopyFile
    <3>1. StepTaken /\ Step \in Copy /\ files' = [files EXCEPT ![Step.path] = Step.text]
      BY <2>1, <2>4, AtCopy DEF CopyFile, Writing
    <3>2. Step.path = ConfigPath => files'[ConfigPath] # Absent
      BY <2>2, <3>1, FilesAssumption DEF Typed, Copy
    <3> QED
      BY <2>1, <2>2, <3>1, <3>2, InstallGoesOn
  <2> QED
    BY <1>6, <2>3, <2>4, SavedInOrder DEF InstallStep
<1> QED
  BY <1>2, <1>3, <1>4, <1>5, <1>6, NextSteps

(***************************************************************************)
(* What changes a file, and what the changes leave in order.               *)
(***************************************************************************)
(* A file changes under the hands of people, by the operation an apply is  *)
(* at, or by the copy an installing command is at and may write.           *)
LEMMA Writes ==
  ASSUME Typed, NothingDeleted, ApplyInOrder, InstallInOrder, Next,
         NEW x \in Paths, files'[x] # files[x]
  PROVE  \/ cmd = Idle /\ \E e \in Edits : e.path = x /\ files'[x] = e.text
         \/ /\ cmd.kind = "apply" /\ Step \in Operations /\ Step.path = x
            /\ files'[x] # Absent
         \/ /\ cmd.kind \in InstallKinds /\ Step.path = x /\ files'[x] # Absent
            /\ Writing \/ Step.mode = "enable"
            /\ Step.mode = "enable" \/ files'[x] \in {Step.text, <<>>}
<1>1. <<>> # Absent
  BY TextIsThere, EmptySeq DEF Text
<1>2. files \in [Paths -> Content]
  BY DEF Typed
<1>3. CASE Quiet
  <2>1. PICK e \in Edits : EditFile(e)
    BY <1>3 DEF Quiet, RefuseApply, Propose, BuildHandoff, SummarizeFeedback, OnboardPlan, AddFeedback,
                People, WriteProposal
  <2> QED
    BY <1>2, <2>1, FilesAssumption DEF EditFile
<1>4. LaunchStep \/ MemoryStep \/ SaveOld \/ SkipExisting \/ KilledBetween \/ FinishApply \/ FinishUnlogged
        => UNCHANGED files
  BY LaunchKeepsFiles DEF MemoryStep, WriteIndex, WriteSummary, ReportStep, RefreshStep, SummarizeStep,
                          SaveOld, SkipExisting, KilledBetween, FinishApply, FinishUnlogged
<1>5. CASE ApplyOperation \/ OperationFails \/ (KilledWriting /\ cmd.kind = "apply")
  <2>1. cmd.kind = "apply" /\ Step # LogIt
    BY <1>5 DEF ApplyOperation, OperationFails, KilledWriting, InstallKinds, MemoryKinds
  <2>2. /\ Step \in Operations /\ Step.path \in Paths
        /\ Effect(Step, files[Step.path]) \in Text
    BY <2>1, AtOperation DEF Passed
  <2>3. PICK new : new # Absent /\ files' = [files EXCEPT ![Step.path] = new]
    <3>1. CASE ApplyOperation
      BY <2>2, <3>1, TextIsThere DEF ApplyOperation
    <3>2. CASE OperationFails \/ KilledWriting
      BY <1>1, <2>1, <3>2 DEF OperationFails, KilledWriting, InstallKinds, MemoryKinds
    <3> QED
      BY <1>5, <3>1, <3>2
  <2> QED
    BY <1>2, <2>1, <2>2, <2>3
<1>6. CASE CopyFile \/ EnableAdapter \/ (KilledWriting /\ cmd.kind # "apply")
  <2>1. cmd.kind \in InstallKinds /\ (Writing \/ Step.mode = "enable")
    BY <1>6 DEF CopyFile, Writing, EnableAdapter, KilledWriting, InstallKinds
  <2>2. /\ Step.path \in Paths
        /\ Step.mode # "enable" => Step \in Copy
        /\ Step.mode = "enable" => Step.path = ConfigPath
    BY <2>1, AtCopy
  <2>3. files' = files \/ \E new : files' = [files EXCEPT ![Step.path] = new]
    BY <1>6, <2>2 DEF CopyFile, EnableAdapter, KilledWriting
  <2>4. Step.path = x
    BY <1>2, <2>2, <2>3
  <2>5. files[x] # Absent => files'[x] # Absent
    BY <1>6, InstallTyped, KilledTyped DEF InstallStep, Killed
  <2>6. files'[x] # Absent
    <3>1. CASE CopyFile
      BY <1>2, <2>2, <2>4, <3>1, TextIsThere DEF CopyFile, Writing, Copy
    <3>2. CASE EnableAdapter
      BY <2>1, <2>2, <2>4, <2>5, <3>2, AtCopy, TextIsThere DEF EnableAdapter
    <3>3. CASE KilledWriting
      BY <1>1, <1>2, <1>6, <2>2, <2>4, <3>3 DEF KilledWriting
    <3> QED
      BY <1>6, <3>1, <3>2, <3>3
  <2>7. Step.mode = "enable" \/ files'[x] \in {Step.text, <<>>}
    <3>1. CASE CopyFile
      BY <1>2, <2>2, <2>4, <3>1 DEF CopyFile, Writing
    <3>2. CASE EnableAdapter
      BY <3>2 DEF EnableAdapter
    <3>3. CASE KilledWriting
      BY <1>2, <1>6, <2>1, <2>2, <2>4, <3>3 DEF KilledWriting, InstallKinds, MemoryKinds
    <3> QED
      BY <1>6, <3>1, <3>2, <3>3
  <2> QED
    BY <2>1, <2>4, <2>6, <2>7
<1> QED
  BY <1>3, <1>4, <1>5, <1>6, NextSteps DEF ApplyStep, InstallStep, Killed

(* The assets of a plugin that can be installed are its own, and so is its *)
(* manifest.                                                               *)
LEMMA AssetsAreOwn ==
  ASSUME NEW p \in AllPlugins, Installable(p), NEW a \in ToSet(p.assets)
  PROVE  /\ a.path \in Paths /\ p.manifest.path \in Paths
         /\ \A k \in 1 .. Len(TemplateFiles) : TemplateFiles[k].path # a.path
         /\ RulesFile.path # a.path /\ ConfigPath # a.path
         /\ \A e \in Edits : e.path # a.path
         /\ \A op \in Operations : op.path # a.path
         /\ \A q \in AllPlugins : Installable(q) /\ (\E f \in ToSet(PluginFiles(q)) : f.path = a.path)
              => q.manifest.path = p.manifest.path
<1>1. /\ a.path \notin {f.path : f \in ToSet(TemplateFiles) \cup {RulesFile} \cup Edits \cup Operations}
      /\ \A q \in AllPlugins : Installable(q) /\ (\E f \in ToSet(PluginFiles(q)) : f.path = a.path)
           => q.manifest.path = p.manifest.path
  BY AssetsAssumption DEF Foreign
<1>2. a \in File /\ p.manifest \in File
  BY InstallAssumption, LenProperties, ElementOfSeq DEF ToSet
<1>3. \A k \in 1 .. Len(TemplateFiles) : TemplateFiles[k] \in ToSet(TemplateFiles)
  BY TemplateHasConfig, LenProperties DEF ToSet
<1>4. \A k \in 1 .. Len(TemplateFiles) : TemplateFiles[k].path # a.path
  BY <1>1, <1>3
<1>5. ConfigPath # a.path
  BY <1>4, TemplateHasConfig
<1> QED
  BY <1>1, <1>2, <1>4, <1>5 DEF File

LEMMA ManifestsAreOwn ==
  ASSUME NEW p \in AllPlugins, Installable(p)
  PROVE  /\ p.manifest.path \in Paths
         /\ \A k \in 1 .. Len(TemplateFiles) : TemplateFiles[k].path # p.manifest.path
         /\ RulesFile.path # p.manifest.path /\ ConfigPath # p.manifest.path
         /\ \A e \in Edits : e.path # p.manifest.path
         /\ \A op \in Operations : op.path # p.manifest.path
         /\ \A q \in AllPlugins : Installable(q) =>
              \A b \in ToSet(q.assets) : b.path # p.manifest.path
<1>1. /\ p.manifest.path \notin {f.path : f \in ToSet(TemplateFiles) \cup {RulesFile} \cup Edits \cup Operations}
      /\ \A q \in AllPlugins : Installable(q) => \A b \in ToSet(q.assets) : b.path # p.manifest.path
  BY AssetsAssumption DEF Foreign
<1>2. \A k \in 1 .. Len(TemplateFiles) : TemplateFiles[k] \in ToSet(TemplateFiles)
  BY TemplateHasConfig, LenProperties DEF ToSet
<1>3. \A k \in 1 .. Len(TemplateFiles) : TemplateFiles[k].path # p.manifest.path
  BY <1>1, <1>2
<1>4. ConfigPath # p.manifest.path
  BY <1>3, TemplateHasConfig
<1>5. p.manifest.path \in Paths
  BY InstallAssumption DEF File
<1> QED
  BY <1>1, <1>3, <1>4, <1>5

LEMMA ManifestFirstInit ==
  ASSUME InitFiles
  PROVE  ManifestFirst
<1> SUFFICES ASSUME NEW p \in AllPlugins, Installable(p), NEW a \in ToSet(p.assets)
             PROVE  files[a.path] = Absent /\ cmd.kind \notin InstallKinds
  BY DEF ManifestFirst
<1>1. a.path \in Paths /\ \A e \in Edits : e.path # a.path
  BY AssetsAreOwn
<1>2. files[a.path] # Absent => [path |-> a.path, text |-> files[a.path]] \in Edits
  BY <1>1 DEF InitFiles
<1> QED
  BY <1>1, <1>2 DEF InitFiles, Idle, InstallKinds

(* The paths of a command that copies are those of the shipped files.      *)
LEMMA CopiedPaths ==
  ASSUME NEW kind \in InstallKinds, NEW shipped \in Seq(File), NEW mode \in {"skip", "backup"},
         NEW force, Launch(Command(kind, Copies(shipped, mode), force, Absent))
  PROVE  /\ Len(cmd'.todo) = Len(shipped)
         /\ \A k \in 1 .. Len(shipped) :
              cmd'.todo[k].path = shipped[k].path /\ cmd'.todo[k].text = shipped[k].text
<1>1. cmd'.todo = Copies(shipped, mode)
  BY Launched DEF Kinds
<1>2. mode \in {"plain", "skip", "backup"}
  OBVIOUS
<1>3. /\ Copies(shipped, mode) \in Seq(Copy) /\ Len(Copies(shipped, mode)) = Len(shipped)
      /\ Len(shipped) \in Nat
      /\ \A k \in 1 .. Len(shipped) :
           /\ Copies(shipped, mode)[k].path = shipped[k].path
           /\ Copies(shipped, mode)[k].text = shipped[k].text
           /\ Copies(shipped, mode)[k].mode = mode /\ Copies(shipped, mode)[k].saved = FALSE
  BY <1>2, CopiesAreMade, ZenonT(60)
<1> QED
  BY <1>1, <1>3

(* No step writes an asset while its manifest is missing, and no command   *)
(* sets out to, or goes on, unless the manifest is what it writes next.    *)
LEMMA ManifestFirstStep ==
  ASSUME Typed, NothingDeleted, ApplyInOrder, InstallInOrder, ManifestFirst, Next
  PROVE  ManifestFirst'
<1> SUFFICES ASSUME NEW p \in AllPlugins, Installable(p), NEW a \in ToSet(p.assets),
                    files'[p.manifest.path] = Absent
             PROVE  /\ files'[a.path] = Absent
                    /\ cmd'.kind \in InstallKinds =>
                         \A k \in 1 .. Len(cmd'.todo) :
                           cmd'.todo[k].path = a.path => cmd'.todo[1].path = p.manifest.path
  BY DEF ManifestFirst
<1>1. PICK m, x : m = p.manifest.path /\ x = a.path
  OBVIOUS
<1>2. /\ x \in Paths /\ m \in Paths
      /\ \A k \in 1 .. Len(TemplateFiles) : TemplateFiles[k].path # x
      /\ RulesFile.path # x /\ ConfigPath # x
      /\ \A e \in Edits : e.path # x /\ e.path # m
      /\ \A op \in Operations : op.path # x
      /\ \A q \in AllPlugins : Installable(q) /\ (\E f \in ToSet(PluginFiles(q)) : f.path = x)
           => q.manifest.path = m
  BY <1>1, AssetsAreOwn, ManifestsAreOwn
<1>3. files'[m] = Absent
  BY <1>1
<1>4. files[m] = Absent
  BY <1>2, <1>3, Writes
<1>5. /\ files[x] = Absent
      /\ cmd.kind \in InstallKinds =>
           \A k \in 1 .. Len(cmd.todo) : cmd.todo[k].path = x => cmd.todo[1].path = m
  BY <1>1, <1>4 DEF ManifestFirst
<1>6. cmd.kind \in InstallKinds /\ Step.path = x => Step.path = m
  <2>1. cmd.kind \in InstallKinds => Step = cmd.todo[1] /\ 1 \in 1 .. Len(cmd.todo)
    BY AtCopy
  <2> QED
    BY <1>5, <2>1
<1>7. files'[x] = Absent
  <2>1. SUFFICES ASSUME files'[x] # files[x]
                 PROVE  FALSE
    BY <1>5
  <2>2. cmd.kind \in InstallKinds /\ Step.path = x /\ files'[x] # Absent
    BY <1>2, <2>1, Writes
  <2> QED
    BY <1>3, <1>6, <2>2
<1>8. ASSUME cmd'.kind \in InstallKinds
      PROVE  \A k \in 1 .. Len(cmd'.todo) : cmd'.todo[k].path = x => cmd'.todo[1].path = m
  <2>1. cmd' # Idle
    BY <1>8 DEF Idle, InstallKinds
  <2>2. CASE LaunchStep
    <3>1. ASSUME NEW i \in Ids, HangInValidation(i) \/ StartApply(i)
          PROVE  FALSE
      <4>1. cmd'.kind \in {"hung", "apply"}
        BY <3>1, Launched DEF HangInValidation, StartApply, Kinds
      <4> QED
        BY <1>8, <4>1 DEF InstallKinds
    <3>2. ASSUME BuildMemory \/ \E w \in Workflows : RunWorkflow(w)
          PROVE  FALSE
      BY <1>8, <3>2, Launched, ZenonT(60) DEF BuildMemory, RunWorkflow, Kinds, MemoryKinds, InstallKinds
    <3>3. ASSUME NEW adapter \in BOOLEAN, NEW force \in BOOLEAN, InitProject(adapter, force)
          PROVE  \A k \in 1 .. Len(cmd'.todo) : cmd'.todo[k].path # x
      BY <1>2, <3>3, InitInOrder
    <3>4. ASSUME NEW force \in BOOLEAN, OnboardApply(force)
          PROVE  \A k \in 1 .. Len(cmd'.todo) : cmd'.todo[k].path # x
      <4>1. PICK mode \in {"skip", "backup"} :
              Launch(Command("onboard", Copies(TemplateFiles, mode), force, Absent))
        BY <3>4 DEF OnboardApply
      <4> QED
        BY <1>2, <4>1, CopiedPaths, TemplateHasConfig DEF InstallKinds
    <3>5. ASSUME NEW all \in BOOLEAN, NEW force \in BOOLEAN, SyncAdapter(all, force)
          PROVE  \A k \in 1 .. Len(cmd'.todo) : cmd'.todo[k].path # x
      <4>1. PICK s : s = <<RulesFile>> /\ s \in Seq(File) /\ Len(s) = 1 /\ s[1] = RulesFile
        BY InstallAssumption, OneElement
      <4>2. PICK mode \in {"skip", "backup"} : Launch(Command("sync", Copies(s, mode), force, Absent))
        BY <3>5, <4>1 DEF SyncAdapter
      <4>3. \A k \in 1 .. Len(s) : s[k].path # x
        BY <1>2, <4>1
      <4> QED
        BY <4>1, <4>2, <4>3, CopiedPaths, ZenonT(60) DEF InstallKinds
    <3>6. ASSUME NEW q \in AllPlugins, NEW force \in BOOLEAN, InstallPlugin(q, force)
          PROVE  \A k \in 1 .. Len(cmd'.todo) : cmd'.todo[k].path = x => cmd'.todo[1].path = m
      <4>1. PICK s : s = PluginFiles(q)
        OBVIOUS
      <4>2. s \in Seq(File) /\ Len(s) \in Nat /\ Len(s) > 0 /\ s[1] = q.manifest
        <5>1. PICK h, t : h = <<q.manifest>> /\ t = q.assets
          OBVIOUS
        <5>2. h \in Seq(File) /\ Len(h) = 1 /\ h[1] = q.manifest /\ t \in Seq(File) /\ Len(t) \in Nat
          BY <5>1, InstallAssumption, OneElement, LenProperties
        <5>3. s = h \o t
          BY <4>1, <5>1 DEF PluginFiles
        <5> QED
          BY <5>2, <5>3, ConcatProperties
      <4>3. /\ Len(cmd'.todo) = Len(s)
            /\ \A k \in 1 .. Len(s) : cmd'.todo[k].path = s[k].path
        BY <3>6, <4>1, <4>2, CopiedPaths DEF InstallPlugin, InstallKinds
      <4>4. ASSUME NEW k \in 1 .. Len(s), s[k].path = x
            PROVE  q.manifest.path = m
        <5>1. s[k] \in ToSet(s)
          BY <4>2, LenProperties DEF ToSet
        <5>2. Installable(q)
          BY <3>6 DEF InstallPlugin
        <5> QED
          BY <1>2, <4>1, <4>4, <5>1, <5>2
      <4>5. 1 \in 1 .. Len(s)
        BY <4>2
      <4> QED
        BY <4>2, <4>3, <4>4, <4>5
    <3> QED
      BY <2>2, <3>1, <3>2, <3>3, <3>4, <3>5, <3>6 DEF LaunchStep
  <2>3. CASE Quiet \/ Killed
    BY <2>1, <2>3, QuietIdle, KilledIdle
  <2>4. CASE ApplyStep
    <3>1. cmd.kind = "apply" /\ Running
      BY <2>4, KindIsRunning DEF ApplyStep, ApplyOperation, OperationFails, FinishApply, FinishUnlogged, Kinds
    <3>2. cmd' = Idle \/ cmd'.kind = cmd.kind
      BY <2>4, <3>1, Taken DEF ApplyStep, ApplyOperation, OperationFails, FinishApply, FinishUnlogged, Running
    <3> QED
      BY <1>8, <2>1, <3>1, <3>2 DEF InstallKinds
  <2>5. CASE MemoryStep
    <3>1. cmd.kind \in MemoryKinds /\ Running
      BY <2>5, KindIsRunning DEF MemoryStep, WriteIndex, WriteSummary, ReportStep, RefreshStep,
                                 SummarizeStep, MemoryKinds, Kinds
    <3>2. cmd' = Idle \/ cmd'.kind = cmd.kind
      BY <2>5, <3>1, Taken DEF MemoryStep, WriteIndex, WriteSummary, ReportStep, RefreshStep,
                               SummarizeStep, Running
    <3> QED
      BY <1>8, <2>1, <3>1, <3>2 DEF MemoryKinds, InstallKinds
  <2>6. CASE InstallStep
    <3>1. cmd.kind \in InstallKinds /\ Running
      BY <2>6, KindIsRunning DEF InstallStep, SaveOld, SkipExisting, CopyFile, Writing,
                                 EnableAdapter, InstallKinds, Kinds
    <3>2. PICK todo, n : todo = cmd.todo /\ n = Len(todo)
      OBVIOUS
    <3>3. /\ todo \in Seq(Copy \cup {Enable}) /\ n \in Nat \ {0} /\ Step = todo[1]
          /\ \A k \in 1 .. n : todo[k].path = x => todo[1].path = m
      BY <1>5, <3>1, <3>2, AtCopy
    <3>4. CASE SaveOld
      <4>1. PICK head, next : head = [Step EXCEPT !.saved = TRUE] /\ next = [todo EXCEPT ![1] = head]
        OBVIOUS
      <4>2. cmd'.todo = next
        BY <3>1, <3>2, <3>3, <3>4, <4>1 DEF SaveOld, Running
      <4>3. Step \in Copy
        BY <3>1, <3>4, AtCopy DEF SaveOld, MustSave
      <4>4. head.path = Step.path /\ head \in Copy
        BY <4>1, <4>3 DEF Copy
      <4>5. /\ Len(next) = n /\ next[1] = head /\ \A k \in 2 .. n : next[k] = todo[k]
        BY <3>2, <3>3, <4>1, <4>4, ExceptSeq
      <4>6. \A k \in 1 .. n : next[k].path = todo[k].path
        BY <3>3, <4>4, <4>5
      <4> QED
        BY <3>3, <4>2, <4>5, <4>6
    <3>5. CASE SkipExisting \/ CopyFile \/ EnableAdapter
      <4>1. Step.path # m
        <5>1. CASE SkipExisting
          BY <1>4, <5>1 DEF SkipExisting
        <5>2. CASE EnableAdapter
          <6>1. Step.path = ConfigPath /\ files[ConfigPath] # Absent
            BY <3>1, <5>2, AtCopy, TextIsThere DEF EnableAdapter
          <6> QED
            BY <1>4, <6>1
        <5>3. CASE CopyFile
          <6>1. /\ Step \in Copy /\ Step.path \in Paths
                /\ files' = [files EXCEPT ![Step.path] = Step.text]
            BY <3>1, <5>3, AtCopy DEF CopyFile, Writing
          <6>2. files'[Step.path] # Absent
            BY <6>1, TextIsThere DEF Copy, Typed
          <6> QED
            BY <1>3, <6>2
        <5> QED
          BY <3>5, <5>1, <5>2, <5>3
      <4>2. \A k \in 1 .. n : todo[k].path # x
        BY <3>3, <4>1
      <4>3. cmd'.todo = Tail(todo)
        BY <2>1, <3>1, <3>2, <3>5, Taken DEF SkipExisting, CopyFile, EnableAdapter
      <4>4. Len(Tail(todo)) = n - 1 /\ \A k \in 1 .. n - 1 : Tail(todo)[k] = todo[k + 1]
        <5>1. todo # <<>>
          BY <3>2, <3>3
        <5> QED
          BY <3>2, <3>3, <5>1, HeadTailProperties
      <4>5. \A k \in 1 .. n - 1 : Tail(todo)[k].path # x
        BY <3>3, <4>2, <4>4
      <4> QED
        BY <4>3, <4>4, <4>5
    <3> QED
      BY <2>6, <3>4, <3>5 DEF InstallStep
  <2> QED
    BY <2>2, <2>3, <2>4, <2>5, <2>6, NextSteps
<1> QED
  BY <1>1, <1>7, <1>8

LEMMA ManifestsInit ==
  ASSUME InitFiles
  PROVE  ManifestsAreKnown
<1> SUFFICES ASSUME NEW p \in AllPlugins, Installable(p)
             PROVE  files[p.manifest.path] = Absent /\ cmd.kind \notin InstallKinds
  BY DEF ManifestsAreKnown
<1>1. p.manifest.path \in Paths /\ \A e \in Edits : e.path # p.manifest.path
  BY ManifestsAreOwn
<1>2. files[p.manifest.path] # Absent =>
        [path |-> p.manifest.path, text |-> files[p.manifest.path]] \in Edits
  BY <1>1 DEF InitFiles
<1> QED
  BY <1>1, <1>2 DEF InitFiles, Idle, InstallKinds

(* Nothing but a plugin's installation is about to write its manifest.     *)
LEMMA LaunchedManifests ==
  ASSUME Typed, LaunchStep, cmd'.kind \in InstallKinds, NEW p \in AllPlugins, Installable(p)
  PROVE  \A k \in 1 .. Len(cmd'.todo) :
           cmd'.todo[k].path = p.manifest.path => cmd'.todo[k].text \in ManifestTexts(p.manifest.path)
<1>1. PICK m : m = p.manifest.path
  OBVIOUS
<1>2. /\ \A k \in 1 .. Len(TemplateFiles) : TemplateFiles[k].path # m
      /\ RulesFile.path # m /\ ConfigPath # m
      /\ \A q \in AllPlugins : Installable(q) => \A b \in ToSet(q.assets) : b.path # m
  BY <1>1, ManifestsAreOwn, Zenon
<1>3. ASSUME NEW i \in Ids, HangInValidation(i) \/ StartApply(i)
      PROVE  FALSE
  <2>1. cmd'.kind \in {"hung", "apply"}
    BY <1>3, Launched DEF HangInValidation, StartApply, Kinds
  <2> QED
    BY <2>1 DEF InstallKinds
<1>4. ASSUME BuildMemory \/ \E w \in Workflows : RunWorkflow(w)
      PROVE  FALSE
  <2>1. cmd'.kind \in {"memory", "workflow"}
    BY <1>4, Launched DEF BuildMemory, RunWorkflow, Kinds, MemoryKinds
  <2> QED
    BY <2>1 DEF InstallKinds
<1>5. ASSUME NEW adapter \in BOOLEAN, NEW force \in BOOLEAN, InitProject(adapter, force)
      PROVE  \A k \in 1 .. Len(cmd'.todo) : cmd'.todo[k].path # m
  BY <1>2, <1>5, InitInOrder
<1>6. ASSUME NEW force \in BOOLEAN, OnboardApply(force)
      PROVE  \A k \in 1 .. Len(cmd'.todo) : cmd'.todo[k].path # m
  <2>1. PICK mode \in {"skip", "backup"} :
          Launch(Command("onboard", Copies(TemplateFiles, mode), force, Absent))
    BY <1>6 DEF OnboardApply
  <2> QED
    BY <1>2, <2>1, CopiedPaths, TemplateHasConfig DEF InstallKinds
<1>7. ASSUME NEW all \in BOOLEAN, NEW force \in BOOLEAN, SyncAdapter(all, force)
      PROVE  \A k \in 1 .. Len(cmd'.todo) : cmd'.todo[k].path # m
  <2>1. PICK s : s = <<RulesFile>> /\ s \in Seq(File) /\ Len(s) = 1 /\ s[1] = RulesFile
    BY InstallAssumption, OneElement
  <2>2. PICK mode \in {"skip", "backup"} : Launch(Command("sync", Copies(s, mode), force, Absent))
    BY <1>7, <2>1 DEF SyncAdapter
  <2>3. \A k \in 1 .. Len(s) : s[k].path # m
    BY <1>2, <2>1
  <2> QED
    BY <2>1, <2>2, <2>3, CopiedPaths, ZenonT(60) DEF InstallKinds
<1>8. ASSUME NEW q \in AllPlugins, NEW force \in BOOLEAN, InstallPlugin(q, force)
      PROVE  \A k \in 1 .. Len(cmd'.todo) : cmd'.todo[k].path = m => cmd'.todo[k].text \in ManifestTexts(m)
  <2>1. PICK s, h, t : s = PluginFiles(q) /\ h = <<q.manifest>> /\ t = q.assets
    OBVIOUS
  <2>2. h \in Seq(File) /\ Len(h) = 1 /\ h[1] = q.manifest /\ t \in Seq(File) /\ Len(t) \in Nat
    BY <2>1, InstallAssumption, OneElement, LenProperties
  <2>3. s = h \o t
    BY <2>1 DEF PluginFiles
  <2>4. /\ s \in Seq(File) /\ Len(s) = 1 + Len(t) /\ s[1] = q.manifest
        /\ \A k \in 1 .. Len(s) : k = 1 \/ s[k] = t[k - 1]
    <3>1. /\ s \in Seq(File) /\ Len(s) = 1 + Len(t)
          /\ \A k \in 1 .. 1 + Len(t) : s[k] = IF k <= 1 THEN h[k] ELSE t[k - 1]
      <4>1. /\ s \in Seq(File) /\ Len(s) = Len(h) + Len(t)
            /\ \A k \in 1 .. Len(h) + Len(t) : s[k] = IF k <= Len(h) THEN h[k] ELSE t[k - Len(h)]
        BY <2>2, <2>3, ConcatProperties, Zenon
      <4> QED
        BY <2>2, <4>1, Zenon
    <3>2. 1 \in 1 .. 1 + Len(t) /\ 1 <= 1
      BY <2>2
    <3>3. \A k \in 1 .. 1 + Len(t) : k # 1 => ~(k <= 1)
      BY <2>2
    <3> QED
      BY <2>2, <3>1, <3>2, <3>3, Zenon
  <2>5. /\ Len(cmd'.todo) = Len(s)
        /\ \A k \in 1 .. Len(s) : cmd'.todo[k].path = s[k].path /\ cmd'.todo[k].text = s[k].text
    BY <1>8, <2>1, <2>4, CopiedPaths DEF InstallPlugin, InstallKinds
  <2>6. ASSUME NEW k \in 1 .. Len(s), s[k].path = m
        PROVE  s[k].text \in ManifestTexts(m)
    <3>1. CASE k = 1
      BY <2>4, <2>6, <3>1 DEF ManifestTexts
    <3>2. CASE k # 1
      <4>1. k - 1 \in 1 .. Len(t) /\ s[k] = t[k - 1]
        BY <2>2, <2>4, <3>2
      <4>2. s[k] \in ToSet(q.assets)
        BY <2>1, <2>2, <4>1, LenProperties DEF ToSet
      <4>3. Installable(q)
        BY <1>8 DEF InstallPlugin
      <4> QED
        BY <1>2, <2>6, <4>2, <4>3
    <3> QED
      BY <3>1, <3>2
  <2> QED
    BY <2>5, <2>6
<1> QED
  BY <1>1, <1>3, <1>4, <1>5, <1>6, <1>7, <1>8 DEF LaunchStep

(* A manifest is written by the copy of one, or left empty in the middle.  *)
LEMMA ManifestsStep ==
  ASSUME Typed, NothingDeleted, ApplyInOrder, InstallInOrder, ManifestsAreKnown, Next
  PROVE  ManifestsAreKnown'
<1> SUFFICES ASSUME NEW p \in AllPlugins, Installable(p)
             PROVE  LET m == p.manifest.path
                    IN  /\ files'[m] \in ManifestTexts(m) \cup {Absent, <<>>}
                        /\ cmd'.kind \in InstallKinds =>
                             \A k \in 1 .. Len(cmd'.todo) :
                               cmd'.todo[k].path = m => cmd'.todo[k].text \in ManifestTexts(m)
  BY DEF ManifestsAreKnown
<1>1. PICK m : m = p.manifest.path
  OBVIOUS
<1>2. /\ m \in Paths /\ ConfigPath # m
      /\ \A e \in Edits : e.path # m
      /\ \A op \in Operations : op.path # m
  BY <1>1, ManifestsAreOwn
<1>3. /\ files[m] \in ManifestTexts(m) \cup {Absent, <<>>}
      /\ cmd.kind \in InstallKinds =>
           \A k \in 1 .. Len(cmd.todo) : cmd.todo[k].path = m => cmd.todo[k].text \in ManifestTexts(m)
  BY <1>1 DEF ManifestsAreKnown
<1>4. cmd.kind \in InstallKinds /\ Step.path = m => Step.mode # "enable" /\ Step.text \in ManifestTexts(m)
  <2>1. cmd.kind \in InstallKinds => /\ Step = cmd.todo[1] /\ 1 \in 1 .. Len(cmd.todo)
                                     /\ Step.mode = "enable" => Step.path = ConfigPath
    BY AtCopy
  <2> QED
    BY <1>2, <1>3, <2>1
<1>5. files'[m] \in ManifestTexts(m) \cup {Absent, <<>>}
  <2>1. CASE files'[m] = files[m]
    BY <1>3, <2>1
  <2>2. CASE files'[m] # files[m]
    <3>1. /\ cmd.kind \in InstallKinds /\ Step.path = m
          /\ Step.mode = "enable" \/ files'[m] \in {Step.text, <<>>}
      <4>1. \/ cmd = Idle /\ \E e \in Edits : e.path = m /\ files'[m] = e.text
            \/ /\ cmd.kind = "apply" /\ Step \in Operations /\ Step.path = m
               /\ files'[m] # Absent
            \/ /\ cmd.kind \in InstallKinds /\ Step.path = m /\ files'[m] # Absent
               /\ Writing \/ Step.mode = "enable"
               /\ Step.mode = "enable" \/ files'[m] \in {Step.text, <<>>}
        BY <1>2, <2>2, Writes, Zenon
      <4> QED
        BY <1>2, <4>1, Zenon
    <3>2. Step.mode # "enable" /\ Step.text \in ManifestTexts(m)
      BY <1>4, <3>1
    <3> QED
      BY <3>1, <3>2
  <2> QED
    BY <2>1, <2>2
<1>6. ASSUME cmd'.kind \in InstallKinds
      PROVE  \A k \in 1 .. Len(cmd'.todo) : cmd'.todo[k].path = m => cmd'.todo[k].text \in ManifestTexts(m)
  <2>1. cmd' # Idle
    BY <1>6 DEF Idle, InstallKinds
  <2>2. CASE LaunchStep
    BY <1>1, <1>6, <2>2, LaunchedManifests
  <2>3. CASE Quiet \/ Killed
    BY <2>1, <2>3, QuietIdle, KilledIdle
  <2>4. CASE ApplyStep
    <3>1. cmd.kind = "apply" /\ Running
      BY <2>4, KindIsRunning DEF ApplyStep, ApplyOperation, OperationFails, FinishApply, FinishUnlogged, Kinds
    <3>2. cmd' = Idle \/ cmd'.kind = cmd.kind
      BY <2>4, <3>1, Taken DEF ApplyStep, ApplyOperation, OperationFails, FinishApply, FinishUnlogged, Running
    <3> QED
      BY <1>6, <2>1, <3>1, <3>2 DEF InstallKinds
  <2>5. CASE MemoryStep
    <3>1. cmd.kind \in MemoryKinds /\ Running
      BY <2>5, KindIsRunning DEF MemoryStep, WriteIndex, WriteSummary, ReportStep, RefreshStep,
                                 SummarizeStep, MemoryKinds, Kinds
    <3>2. cmd' = Idle \/ cmd'.kind = cmd.kind
      BY <2>5, <3>1, Taken DEF MemoryStep, WriteIndex, WriteSummary, ReportStep, RefreshStep,
                               SummarizeStep, Running
    <3> QED
      BY <1>6, <2>1, <3>1, <3>2 DEF MemoryKinds, InstallKinds
  <2>6. CASE InstallStep
    <3>1. cmd.kind \in InstallKinds /\ Running
      BY <2>6, KindIsRunning DEF InstallStep, SaveOld, SkipExisting, CopyFile, Writing,
                                 EnableAdapter, InstallKinds, Kinds
    <3>2. PICK todo, n : todo = cmd.todo /\ n = Len(todo)
      OBVIOUS
    <3>3. /\ todo \in Seq(Copy \cup {Enable}) /\ n \in Nat \ {0} /\ Step = todo[1]
          /\ \A k \in 1 .. n : todo[k].path = m => todo[k].text \in ManifestTexts(m)
      BY <1>3, <3>1, <3>2, AtCopy
    <3>4. CASE SaveOld
      <4>1. PICK head, next : head = [Step EXCEPT !.saved = TRUE] /\ next = [todo EXCEPT ![1] = head]
        OBVIOUS
      <4>2. cmd'.todo = next
        BY <3>1, <3>2, <3>3, <3>4, <4>1 DEF SaveOld, Running
      <4>3. Step \in Copy
        BY <3>1, <3>4, AtCopy DEF SaveOld, MustSave
      <4>4. head.path = Step.path /\ head.text = Step.text /\ head \in Copy
        BY <4>1, <4>3 DEF Copy
      <4>5. /\ Len(next) = n /\ next[1] = head /\ \A k \in 2 .. n : next[k] = todo[k]
        BY <3>2, <3>3, <4>1, <4>4, ExceptSeq
      <4>6. \A k \in 1 .. n : next[k].path = todo[k].path /\ next[k].text = todo[k].text
        BY <3>3, <4>4, <4>5
      <4> QED
        BY <3>3, <4>2, <4>5, <4>6
    <3>5. CASE SkipExisting \/ CopyFile \/ EnableAdapter
      <4>1. cmd'.todo = Tail(todo)
        BY <2>1, <3>1, <3>2, <3>5, Taken DEF SkipExisting, CopyFile, EnableAdapter
      <4>2. Len(Tail(todo)) = n - 1 /\ \A k \in 1 .. n - 1 : Tail(todo)[k] = todo[k + 1]
        <5>1. todo # <<>>
          BY <3>2, <3>3
        <5> QED
          BY <3>2, <3>3, <5>1, HeadTailProperties
      <4>3. \A k \in 1 .. n - 1 : Tail(todo)[k].path = m => Tail(todo)[k].text \in ManifestTexts(m)
        BY <3>3, <4>2
      <4> QED
        BY <4>1, <4>2, <4>3
    <3> QED
      BY <2>6, <3>4, <3>5 DEF InstallStep
  <2> QED
    BY <2>2, <2>3, <2>4, <2>5, <2>6, NextSteps
<1> QED
  BY <1>1, <1>5, <1>6

(***************************************************************************)
(* The theorems.                                                           *)
(***************************************************************************)
LEMMA Initially == InitFiles => IInv
<1> SUFFICES ASSUME InitFiles PROVE IInv
  OBVIOUS
<1>1. Typed /\ NothingDeleted /\ ManifestFirst /\ ManifestsAreKnown
  BY TypedInit, ManifestFirstInit, ManifestsInit
<1>2. ApplyInOrder /\ MemoryInOrder /\ InstallInOrder /\ UnloggedIsNamed
  BY DEF InitFiles, Idle, ApplyInOrder, MemoryInOrder, InstallInOrder, UnloggedIsNamed,
         MemoryKinds, InstallKinds
<1>3. LogIsTruthful
  BY DEF InitFiles, LogIsTruthful
<1>4. StampsArePast /\ IndexNeverBehindSummary
  BY FilesAssumption DEF InitFiles, StampsArePast, IndexNeverBehindSummary
<1> QED
  BY <1>1, <1>2, <1>3, <1>4 DEF IInv

LEMMA TypedStep ==
  ASSUME Typed, NothingDeleted, ApplyInOrder, MemoryInOrder, InstallInOrder, Next
  PROVE  Typed' /\ NothingDeleted'
BY NextSteps, QuietTyped, LaunchTyped, ApplyTyped, MemoryTyped, InstallTyped, KilledTyped

LEMMA Stutters == ASSUME IInv, UNCHANGED vars PROVE IInv'
<1> USE DEF vars, generated, loop, history
<1>1. Typed' /\ NothingDeleted'
  BY DEF IInv, Typed, NothingDeleted, Running
<1>2. ApplyInOrder' /\ LogIsTruthful' /\ UnloggedIsNamed'
  BY DEF IInv, ApplyInOrder, LogIsTruthful, UnloggedIsNamed, Progress
<1>3. MemoryInOrder' /\ StampsArePast' /\ IndexNeverBehindSummary'
  BY DEF IInv, MemoryInOrder, StampsArePast, IndexNeverBehindSummary
<1>4. InstallInOrder'
  BY DEF IInv, InstallInOrder
<1>5. ManifestFirst' /\ ManifestsAreKnown'
  BY DEF IInv, ManifestFirst, ManifestsAreKnown
<1> QED
  BY <1>1, <1>2, <1>3, <1>4, <1>5 DEF IInv

LEMMA Steps == ASSUME IInv, Next PROVE IInv'
<1>1. /\ Typed /\ NothingDeleted /\ ApplyInOrder /\ LogIsTruthful /\ UnloggedIsNamed
      /\ MemoryInOrder /\ StampsArePast /\ IndexNeverBehindSummary /\ InstallInOrder /\ ManifestFirst
      /\ ManifestsAreKnown
  BY DEF IInv
<1>2. Typed' /\ NothingDeleted' /\ ApplyInOrder' /\ LogIsTruthful' /\ UnloggedIsNamed'
  BY <1>1, TypedStep, ApplyInOrderStep, LogStep, UnloggedStep
<1>3. MemoryInOrder' /\ StampsArePast' /\ IndexNeverBehindSummary'
  BY <1>1, MemoryInOrderStep, ReportsStep
<1>4. InstallInOrder' /\ ManifestFirst' /\ ManifestsAreKnown'
  BY <1>1, InstallInOrderStep, ManifestFirstStep, ManifestsStep
<1> QED
  BY <1>2, <1>3, <1>4 DEF IInv

(* However commands, edits and kills follow on each other, the files keep  *)
(* their types and none is deleted by a command, an apply is where its     *)
(* record says it is, the log tells the truth, memory and summary are      *)
(* stamped in order, an installing command has only deliberate copies left *)
(* to make, and a manifest precedes its assets.                            *)
THEOREM Inductive == Spec => []IInv
<1>1. IInv /\ [Next]_vars => IInv'
  BY Steps, Stutters
<1> QED
  BY <1>1, Initially, PTL DEF Spec

(* Whatever an apply changed is named by a record of the log once it is    *)
(* over, unless a kill or a log that cannot be written came between        *)
(* (improve.js lists the paths before the first write).                    *)
THEOREM AuditAlwaysCovers == Spec => []AuditCoversChanges
<1>1. IInv => AuditCoversChanges
  BY DEF IInv, UnloggedIsNamed, AuditCoversChanges, Idle
<1> QED
  BY <1>1, Inductive, PTL

(* A record of success says of each operation that is alone on its file    *)
(* that the file became what the operation asks for, and what was          *)
(* validated held of the text it started from: nothing the validation      *)
(* looked at has changed by the time it is written (improve.js:324-438).   *)
THEOREM AppliedAlwaysAsValidated == Spec => []AppliedAsValidated
<1>1. ASSUME IInv
      PROVE  AppliedAsValidated
  BY <1>1 DEF IInv, LogIsTruthful, Truthful, AppliedAsValidated
<1> QED
  BY <1>1, Inductive, PTL

(* A plugin's files are never there without a manifest that plugin status  *)
(* finds the plugin by, unless a run was killed inside the write of the    *)
(* manifest, nor a summary without an index as new, whenever and inside    *)
(* whichever write the command was killed (plugin.js:428-463).             *)
THEOREM KilledRunsAlwaysLeaveOrder == Spec => []KilledRunsLeaveOrder
<1>1. ASSUME IInv
      PROVE  KilledRunsLeaveOrder
  <2>1. ASSUME NEW p \in AllPlugins, Installable(p),
               Installed(p.manifest.path) = {}, files[p.manifest.path] # <<>>,
               NEW a \in ToSet(p.assets)
        PROVE  files[a.path] # a.text
    <3>1. PICK m : m = p.manifest.path
      OBVIOUS
    <3>2. files[m] \in ManifestTexts(m) \cup {Absent, <<>>}
      BY <1>1, <2>1, <3>1 DEF IInv, ManifestsAreKnown
    <3>3. files[m] \notin ManifestTexts(m)
      <4>1. SUFFICES ASSUME NEW q \in AllPlugins, q.manifest.path = m, q.manifest.text = files[m]
                     PROVE  FALSE
        BY DEF ManifestTexts
      <4>2. q.manifest = [path |-> m, text |-> files[m]]
        BY <4>1, InstallAssumption DEF File
      <4> QED
        BY <2>1, <3>1, <4>2 DEF Installed
    <3>4. files[m] = Absent
      BY <2>1, <3>1, <3>2, <3>3
    <3>5. files[a.path] = Absent
      BY <1>1, <2>1, <3>1, <3>4 DEF IInv, ManifestFirst
    <3>6. a \in File
      BY <2>1, InstallAssumption, LenProperties, ElementOfSeq DEF ToSet
    <3> QED
      BY <3>5, <3>6, TextIsThere DEF File
  <2>2. NoOrphanedAssets
    BY <2>1 DEF NoOrphanedAssets, PluginStatus
  <2> QED
    BY <1>1, <2>2 DEF IInv, KilledRunsLeaveOrder
<1> QED
  BY <1>1, Inductive, PTL

LEMMA OverwritesDeliberately ==
  ASSUME IInv, Next, NEW p \in Paths, files'[p] # files[p]
  PROVE  BackedUp(p) /\ Asked(p)
<1>1. Typed /\ NothingDeleted /\ ApplyInOrder /\ InstallInOrder
  BY DEF IInv
<1>2. SUFFICES ASSUME cmd.kind \in InstallKinds
               PROVE  BackedUp(p) /\ Asked(p)
  BY DEF BackedUp, Asked, InstallKinds
<1>3. Step.path = p /\ (Writing \/ Step.mode = "enable")
  BY <1>1, <1>2, Writes DEF Idle, InstallKinds
<1>4. /\ Step = cmd.todo[1] /\ 1 \in 1 .. Len(cmd.todo)
      /\ Step.mode # "enable" => Step.mode \in {"plain", "skip", "backup"} /\ Step.saved \in BOOLEAN
  BY <1>1, <1>2, AtCopy DEF Copy
<1>5. /\ Step.mode \in {"plain", "enable"} => cmd.kind = "init"
      /\ Step.mode # "enable" /\ Step.saved => backups[p] = files[p]
      /\ ~cmd.force /\ p \in cmd.existed =>
           Step.mode = "skip" \/ (cmd.kind = "init" /\ p = RulesFile.path)
  BY <1>1, <1>2, <1>3, <1>4 DEF InstallInOrder
<1>6. p \in cmd.existed => files[p] # Absent
  BY <1>1, <1>2 DEF NothingDeleted, Idle, InstallKinds
<1>7. Step.mode = "skip" => files[p] = Absent
  BY <1>3 DEF Writing
<1>8. Step.mode = "backup" => files[p] = Absent \/ Step.saved
  BY <1>3 DEF Writing, MustSave
<1> QED
  BY <1>3, <1>4, <1>5, <1>6, <1>7, <1>8 DEF BackedUp, Asked

(* With the exceptions of init, an installing command replaces what was    *)
(* there before with --force alone, and it is in the .bak when it does,    *)
(* whatever a killed run before it left.                                   *)
THEOREM OverwritingAlwaysDeliberate == Spec => OverwritingIsDeliberate
<1>1. IInv /\ [Next]_vars => [\A p \in Paths : files'[p] # files[p] => BackedUp(p) /\ Asked(p)]_vars
  BY OverwritesDeliberately DEF vars
<1> QED
  BY <1>1, Inductive, PTL DEF Spec, OverwritingIsDeliberate
=============================================================================
