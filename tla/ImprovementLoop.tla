--------------------------- MODULE ImprovementLoop ---------------------------
(***************************************************************************)
(* The commands of the improvement loop: propose, validate and apply       *)
(* proposals, the memory index, the feedback log and its rules, and the    *)
(* handoff (src/cli/handlers/improve.js, memory.js, feedback.js,           *)
(* handoff.js), and the workflows that run some of them (workflow.js).     *)
(*                                                                         *)
(* A proposal is its frontmatter and the operations of its json block.  An *)
(* operation names a path and replaces the whole file ("create_file"),     *)
(* adds a line unless it is there ("append_line"), or replaces a line      *)
(* ("replace_text").  The texts people search for are lines.               *)
(***************************************************************************)
EXTENDS ProjectFiles

CONSTANTS
  Items,       \* what people say in feedback
  Workflows,   \* the commands of each registered workflow, in order
  Outside,     \* paths that leave the target
  Protected,   \* paths inside the target that no proposal may name
  Padded,      \* lines with blanks around them -> the lines without
  Dollar,      \* a line that is a dollar sign
  NoText       \* an empty search text

Operations == UNION {ToSet(d.operations) : d \in Drafts}

ASSUME LoopAssumption ==
  /\ \A d \in Drafts : d.operations \in Seq(Operations)
  /\ \A op \in Operations :
       /\ op.path \in Paths \cup Outside \cup Protected
       /\ op.type = "create_file" => op.content \in Text
       /\ op.type = "append_line" => op.line \in STRING   \* and not blank
       /\ op.type = "replace_text" => op.replace \in STRING
  /\ Dollar \in STRING
  /\ \A w \in Workflows : w \in Seq({"report", "memory", "rules"}) /\ w # <<>>

(***************************************************************************)
(* Validation.                                                             *)
(***************************************************************************)
Matches(text, find) == Cardinality({k \in DOMAIN text : text[k] = find})

Malformed(p) == p.block # "operations" \/ p.operations = <<>>

PathGate(path) ==
  IF path \in Outside THEN "boundaries" ELSE IF path \in Protected THEN "permissions" ELSE "pass"

(* The gate at which one operation fails, "pass" when it fails none.  All  *)
(* operations are measured against the files as they are now.              *)
\* MUTANT: the number of matches is not looked at.
OpGateAnyMatch(op) ==
  IF op.type \notin {"create_file", "append_line", "replace_text"} THEN "types"
  ELSE IF PathGate(op.path) # "pass" THEN PathGate(op.path)
  ELSE IF \/ op.type = "create_file" /\ files[op.path] # Absent /\ ~op.overwrite
          \/ op.type = "replace_text" /\ (files[op.path] = Absent \/ Matches(files[op.path], op.find) = 0)
       THEN "constraints" ELSE "pass"
OpGate(op) ==
  IF op.type \notin {"create_file", "append_line", "replace_text"} THEN "types"
  ELSE IF PathGate(op.path) # "pass" THEN PathGate(op.path)
  ELSE IF \/ op.type = "create_file" /\ files[op.path] # Absent /\ ~op.overwrite
          \/ /\ op.type = "replace_text"
             /\ \/ files[op.path] = Absent
                \/ Matches(files[op.path], op.find) = 0
                \/ Matches(files[op.path], op.find) > 1 /\ ~op.allow_multiple
       THEN "constraints" ELSE "pass"

FailedGates(p) ==
  IF p.status = "no frontmatter" THEN {"frontmatter"}
  ELSE (IF p.status = "approved" THEN {} ELSE {"approval"}) \cup
       (IF Malformed(p) THEN {"json"}
        ELSE {OpGate(op) : op \in ToSet(p.operations)} \ {"pass"})

GateOrder == <<"frontmatter", "approval", "json", "types", "boundaries", "permissions", "constraints">>

(* The reason given is that of the first gate, in this order, that failed. *)
Reason(p) == SelectSeq(GateOrder, LAMBDA g : g \in FailedGates(p))[1]

(* Counting the matches of an empty text never advances: validation of a   *)
(* proposal that searches an existing file for nothing does not return.    *)
Hangs(p) ==
  /\ p.status # "no frontmatter" /\ ~Malformed(p)
  /\ \E op \in ToSet(p.operations) :
       /\ op.type = "replace_text" /\ op.find = NoText
       /\ op.path \in Paths /\ files[op.path] # Absent

(***************************************************************************)
(* What one operation makes of the text it finds.                          *)
(***************************************************************************)
Trim(line) == IF line \in DOMAIN Padded THEN Padded[line] ELSE line

(* String.replace reads a replacement for patterns: $& stands for the text *)
(* that was found, $` and $' for what is before and after it, $$ for $.  A *)
(* replacement is one line here, a pattern or another.                     *)
Patterns == {"found", "before", "after", "dollars"}

Inserted(new, before, find, after) ==
  CASE new = "found" -> <<find>>
    [] new = "before" -> before
    [] new = "after" -> after
    [] new = "dollars" -> <<Dollar>>
    [] OTHER -> <<new>>

FirstAt(text, find) ==
  CHOOSE k \in DOMAIN text : text[k] = find /\ \A m \in 1 .. k - 1 : text[m] # find

ReplaceFirst(text, find, new) ==
  IF Matches(text, find) = 0 THEN text
  ELSE LET k == FirstAt(text, find)
           before == SubSeq(text, 1, k - 1)
           after == SubSeq(text, k + 1, Len(text))
       IN  before \o Inserted(new, before, find, after) \o after

(* All matches are replaced by split and join, which read no patterns.     *)
Effect(op, text) ==
  CASE op.type = "create_file" -> op.content
    [] op.type = "append_line" ->
         LET old == IF text = Absent THEN <<>> ELSE text
         IN  IF \E k \in DOMAIN old : Trim(old[k]) = Trim(op.line)
             THEN text ELSE Append(old, op.line)
    [] op.type = "replace_text" ->
         IF op.allow_multiple
         THEN [k \in DOMAIN text |-> IF text[k] = op.find THEN op.replace ELSE text[k]]
         ELSE ReplaceFirst(text, op.find, op.replace)

(* The last step of an apply writes its record to the log.                 *)
LogIt == [type |-> "log"]

(* Every path is listed, and its content noted, before the first write.    *)
\* MUTANT: only the files that exist already are listed.
NamedExisting(ops) == {p \in {op.path : op \in ToSet(ops)} : files[p] # Absent}
Named(ops) == {op.path : op \in ToSet(ops)}

Record(id, ops) ==
  [id |-> id, operations |-> ops, files_changed |-> Named(ops),
   before |-> [p \in Named(ops) |-> files[p]], after |-> <<>>,
   status |-> "success", reason |-> "none"]

(***************************************************************************)
(* improve apply --approved.  Without the flag nothing happens at all.     *)
(***************************************************************************)
RefuseApply(i) ==
  /\ Tick
  /\ proposals[i] # Absent /\ ~Hangs(proposals[i]) /\ FailedGates(proposals[i]) # {}
  /\ applyLog' = Append(applyLog, [Record(i, <<>>) EXCEPT !.status = "refused",
                                                          !.reason = Reason(proposals[i])])
  /\ UNCHANGED <<files, backups, generated, feedback, rules, proposals, history>>

HangInValidation(i) ==
  /\ proposals[i] # Absent /\ Hangs(proposals[i])
  /\ Launch(Command("hung", <<>>, FALSE, Absent))
  /\ UNCHANGED <<files, backups, generated, loop, history>>

StartApply(i) ==
  /\ proposals[i] # Absent /\ ~Hangs(proposals[i]) /\ FailedGates(proposals[i]) = {}
  /\ LET ops == proposals[i].operations
     IN  Launch(Command("apply", ops \o <<LogIt>>, FALSE, Record(i, ops)))
  /\ UNCHANGED <<files, backups, generated, loop, history>>

ApplyOperation ==
  /\ cmd.kind = "apply" /\ Step # LogIt
  /\ files' = [files EXCEPT ![Step.path] = Effect(Step, @)]
  /\ unlogged' = IF files' = files THEN unlogged ELSE unlogged \cup {Step.path}
  /\ StepTaken
  /\ UNCHANGED <<backups, generated, loop, commands, edits, excused>>

(* The write throws, before or after the old text is gone; the operations  *)
(* that follow are skipped and those already done stay done.               *)
OperationFails ==
  /\ cmd.kind = "apply" /\ Step # LogIt
  /\ files' \in {files, [files EXCEPT ![Step.path] = <<>>]}
  /\ unlogged' = IF files' = files THEN unlogged ELSE unlogged \cup {Step.path}
  /\ cmd' = [cmd EXCEPT !.todo = <<LogIt>>, !.carried.status = "failed",
                        !.carried.reason = "execution error"]
  /\ UNCHANGED <<backups, generated, loop, commands, edits, excused>>

(* The files are read again for the record; a read that throws makes it a  *)
(* record of failure, although every operation has been done.              *)
FinishApply ==
  /\ cmd.kind = "apply" /\ Step = LogIt
  /\ \E read \in BOOLEAN :
     LET c == cmd.carried
         r == IF c.status # "success" THEN c
              ELSE IF read THEN [c EXCEPT !.after = [p \in c.files_changed |-> files[p]]]
              ELSE [c EXCEPT !.status = "failed", !.reason = "execution error"]
     IN  /\ applyLog' = Append(applyLog, r)
         /\ unlogged' = unlogged \ r.files_changed
  /\ StepTaken
  /\ UNCHANGED <<files, backups, generated, feedback, rules, proposals, commands, edits, excused>>

(* A log that cannot be written is reported on the screen and nowhere else.*)
FinishUnlogged ==
  /\ cmd.kind = "apply" /\ Step = LogIt
  /\ StepTaken
  /\ excused' = TRUE
  /\ UNCHANGED <<files, backups, generated, loop, commands, edits, unlogged>>

(***************************************************************************)
(* improve propose: the name is the second it runs in, and a proposal that *)
(* has the name already is overwritten, whatever its status.               *)
(***************************************************************************)
Propose(i) ==
  /\ Tick
  /\ proposals' = [proposals EXCEPT ![i] =
                     [status |-> "pending", block |-> "none", operations |-> <<>>]]
  /\ UNCHANGED <<files, backups, generated, feedback, rules, applyLog, history>>

(***************************************************************************)
(* memory build and memory refresh: both scan the project and write the    *)
(* index, then the summary.                                                *)
(***************************************************************************)
MemoryKinds == {"memory", "workflow"}
MemoryIndex == [stamp |-> commands + 1, seen |-> Scan]

\* MUTANT: the summary is written first.
BuildMemorySummaryFirst ==
  /\ Launch(Command("memory", <<"summary", "index">>, FALSE, MemoryIndex))
  /\ UNCHANGED <<files, backups, generated, loop, history>>
BuildMemory ==
  /\ Launch(Command("memory", <<"index", "summary">>, FALSE, MemoryIndex))
  /\ UNCHANGED <<files, backups, generated, loop, history>>

WriteIndex ==
  /\ cmd.kind \in MemoryKinds /\ Step = "index"
  /\ index' = cmd.carried
  /\ StepTaken
  /\ UNCHANGED <<files, backups, summary, handoff, plan, loop, commands, edits, history>>

WriteSummary ==
  /\ cmd.kind \in MemoryKinds /\ Step = "summary"
  /\ summary' = cmd.carried
  /\ StepTaken
  /\ UNCHANGED <<files, backups, index, handoff, plan, loop, commands, edits, history>>

(***************************************************************************)
(* What diffMemory tells the handoff about the index.                      *)
(***************************************************************************)
MemoryStatus ==
  CASE index = Absent -> "MISSING"
    [] index = Torn -> "CORRUPT"
    [] OTHER -> IF index.seen = Scan THEN "CURRENT" ELSE "STALE"

Counted(status) == Cardinality({i \in Ids : proposals[i] # Absent /\ proposals[i].status = status})

(* handoff build; handoff show builds it only when there is none.          *)
BuildHandoff ==
  /\ Tick
  /\ handoff' = [stamp |-> commands + 1, memory |-> MemoryStatus,
                 feedback |-> Len(feedback), rules |-> rules # Absent,
                 pending |-> Counted("pending"), approved |-> Counted("approved"),
                 applies |-> Len(applyLog)]
  /\ UNCHANGED <<files, backups, index, summary, plan, loop, history>>

(***************************************************************************)
(* feedback add drops what was said before; feedback summarize writes the  *)
(* rules afresh from the whole log.                                        *)
(***************************************************************************)
AddFeedback(x) ==
  /\ Tick
  /\ x \notin ToSet(feedback)
  /\ feedback' = Append(feedback, x)
  /\ UNCHANGED <<files, backups, generated, rules, proposals, applyLog, history>>

SummarizeFeedback ==
  /\ Tick
  /\ feedback # <<>>
  /\ rules' = feedback
  /\ UNCHANGED <<files, backups, generated, feedback, proposals, applyLog, history>>

(***************************************************************************)
(* workflow run: one process takes the workflow's commands in their order. *)
(* Of the commands it runs itself memory refresh and memory build write    *)
(* the memory and feedback summarize the rules, whatever the registry says *)
(* the workflow is allowed to write; the others only report, and a command *)
(* it does not know is left to people ("report").  A step that throws is   *)
(* reported and the next one runs; one that exits the process, as improve  *)
(* log does over a line it cannot read, ends the workflow there.           *)
(***************************************************************************)
RunWorkflow(w) ==
  /\ Launch(Command("workflow", w, FALSE, Absent))
  /\ UNCHANGED <<files, backups, generated, loop, history>>

ReportStep ==
  /\ cmd.kind = "workflow" /\ Step = "report"
  /\ StepTaken \/ cmd' = Idle
  /\ UNCHANGED <<files, backups, generated, loop, commands, edits, history>>

RefreshStep ==
  /\ cmd.kind = "workflow" /\ Step = "memory"
  /\ cmd' = [cmd EXCEPT !.todo = <<"index", "summary">> \o Tail(@),
                        !.carried = [stamp |-> commands, seen |-> Scan]]
  /\ UNCHANGED <<files, backups, generated, loop, commands, edits, history>>

SummarizeStep ==
  /\ cmd.kind = "workflow" /\ Step = "rules"
  /\ rules' = IF feedback = <<>> THEN rules ELSE feedback
  /\ StepTaken
  /\ UNCHANGED <<files, backups, generated, feedback, proposals, applyLog, commands, edits, history>>

LoopNext ==
  \/ \E i \in Ids : RefuseApply(i) \/ HangInValidation(i) \/ StartApply(i) \/ Propose(i)
  \/ ApplyOperation \/ OperationFails \/ FinishApply \/ FinishUnlogged
  \/ BuildMemory \/ WriteIndex \/ WriteSummary \/ BuildHandoff
  \/ (\E x \in Items : AddFeedback(x)) \/ SummarizeFeedback
  \/ (\E w \in Workflows : RunWorkflow(w)) \/ ReportStep \/ RefreshStep \/ SummarizeStep
=============================================================================
