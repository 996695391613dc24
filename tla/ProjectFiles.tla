---------------------------- MODULE ProjectFiles ----------------------------
(***************************************************************************)
(* The project directory that the commands of the tool read and write, and *)
(* the one command that is running.  A file is a sequence of lines; the    *)
(* reports the tool keeps under .ai/intelligence are records of what they  *)
(* say.  A command reads what it needs when it starts and then writes one  *)
(* file after another: every write is a step of its own, and the process   *)
(* can be killed between two of them or inside one.                        *)
(*                                                                         *)
(* ImprovementLoop adds the commands that review and apply proposals and   *)
(* build memory, feedback and handoff; ProjectInstall the commands that    *)
(* copy shipped files into the project.  ProjectCommands runs both.        *)
(***************************************************************************)
EXTENDS Naturals, Sequences, FiniteSets, SequencesExt

CONSTANTS
  Paths,        \* the files of the project commands may write
  Absent,       \* what a path holds when there is no such file
  Torn,         \* a generated file whose writer was killed inside the write
  Ids,          \* names of proposals: one per second of the clock
  Drafts,       \* the operation lists people put into proposals
  Edits,        \* what people do to the files by hand: [path, text] records
  MaxCommands,  \* bound on the commands started
  MaxEdits      \* bound on the edits people make by hand

Text == Seq(STRING)
Content == Text \cup {Absent}
File == [path : Paths, text : Text]

(* What handoff.md and the memory files report.                            *)
Handoffs == [stamp : Nat, memory : {"MISSING", "CORRUPT", "CURRENT", "STALE"},
             feedback : Nat, rules : BOOLEAN, pending : Nat, approved : Nat, applies : Nat]
Reports == [stamp : Nat,
            seen : [files : [Paths -> Content], backups : [Paths -> Content],
                    handoff : Handoffs \cup {Absent}, plan : Nat]]

ASSUME FilesAssumption ==
  /\ Absent \notin Text \cup Reports \cup {Torn} /\ Torn \notin Reports
  /\ IsFiniteSet(Ids)
  /\ \A e \in Edits : e.path \in Paths /\ e.text \in Content

VARIABLES
  files,      \* path -> lines, or Absent
  backups,    \* path -> the content of path.bak, or Absent
  index,      \* memory.hash.json: Absent, Torn or [stamp, seen]
  summary,    \* memory.summary.md: the same
  handoff,    \* handoff.md: Absent or what it reports
  plan,       \* onboarding.plan.json: 0 when absent, else when it was written
  feedback,   \* feedback-log.jsonl
  rules,      \* learning-rules.md: Absent or the feedback compiled into it
  proposals,  \* id -> proposal file, or Absent
  applyLog,   \* apply-log.jsonl
  cmd,        \* the running command, or Idle
  commands,   \* commands started so far; also the clock of the reports
  edits,      \* edits made by hand so far
  unlogged,   \* history: paths an apply has changed and no record names yet
  excused     \* history: a kill, a full disk or an unwritable log got between

generated == <<index, summary, handoff, plan>>
loop == <<feedback, rules, proposals, applyLog>>
history == <<unlogged, excused>>
vars == <<files, backups, generated, loop, cmd, commands, edits, history>>

Idle == [kind |-> "idle"]

(* What a command is: the steps it still has to take, the flags it was     *)
(* given, the paths that existed when it started, and what it carries.     *)
Command(kind, todo, force, carried) ==
  [kind |-> kind, todo |-> todo, force |-> force, carried |-> carried,
   existed |-> {p \in Paths : files[p] # Absent}]

MayStart == cmd = Idle /\ commands < MaxCommands

(* A command that writes one file, or none, and is done.                   *)
Tick == MayStart /\ commands' = commands + 1 /\ UNCHANGED <<cmd, edits>>

Launch(c) == MayStart /\ commands' = commands + 1 /\ cmd' = c /\ UNCHANGED edits

(* The step the command is at, and the command once that step is taken.    *)
Step == Head(cmd.todo)
StepTaken == cmd' = IF Len(cmd.todo) = 1 THEN Idle
                                         ELSE [cmd EXCEPT !.todo = Tail(@)]

InitFiles ==
  /\ files \in [Paths -> {Absent} \cup {e.text : e \in Edits}]
  /\ \A p \in Paths : files[p] # Absent => [path |-> p, text |-> files[p]] \in Edits
  /\ backups = [p \in Paths |-> Absent]
  /\ index = Absent /\ summary = Absent /\ handoff = Absent /\ plan = 0
  /\ feedback = <<>> /\ rules = Absent
  /\ proposals = [i \in Ids |-> Absent]
  /\ applyLog = <<>>
  /\ cmd = Idle /\ commands = 0 /\ edits = 0
  /\ unlogged = {} /\ excused = FALSE

(***************************************************************************)
(* What the scan of the project sees: everything but the files that        *)
(* shouldIgnorePath leaves out, which are the memory files, the feedback   *)
(* log, the rules and all of .ai/proposals.  The handoff, the onboarding   *)
(* plan and the backups are seen.                                          *)
(***************************************************************************)
Scan == [files |-> files, backups |-> backups, handoff |-> handoff, plan |-> plan]

(* People write the project's files and proposals between commands.        *)
EditFile(e) ==
  /\ cmd = Idle /\ edits < MaxEdits
  /\ files[e.path] # e.text
  /\ files' = [files EXCEPT ![e.path] = e.text]
  /\ edits' = edits + 1
  /\ UNCHANGED <<backups, generated, loop, cmd, commands, history>>

WriteProposal(i, d) ==
  /\ cmd = Idle /\ edits < MaxEdits
  /\ proposals[i] # d
  /\ proposals' = [proposals EXCEPT ![i] = d]
  /\ edits' = edits + 1
  /\ UNCHANGED <<files, backups, generated, feedback, rules, applyLog, cmd, commands, history>>
=============================================================================
