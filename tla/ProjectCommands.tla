--------------------------- MODULE ProjectCommands ---------------------------
(***************************************************************************)
(* A project over time: people edit its files and its proposals, commands  *)
(* of the improvement loop and installing commands run one after another   *)
(* on the same directory, and any of them can be killed.                   *)
(***************************************************************************)
EXTENDS ImprovementLoop, ProjectInstall

(* Who installs a plugin by copying its assets leaves them without their   *)
(* manifest, as does who edits or deletes the manifest: nobody but the     *)
(* plugin's installation, in any version, writes the manifest or an asset. *)
Foreign == {f.path : f \in ToSet(TemplateFiles) \cup {RulesFile} \cup Edits \cup Operations}

ASSUME AssetsAssumption ==
  \A p \in AllPlugins : Installable(p) =>
    /\ p.manifest.path \notin Foreign
    /\ \A q \in AllPlugins : Installable(q) => \A b \in ToSet(q.assets) : b.path # p.manifest.path
    /\ \A a \in ToSet(p.assets) :
         /\ a.path \notin Foreign
         /\ \A q \in AllPlugins :
              Installable(q) /\ (\E f \in ToSet(PluginFiles(q)) : f.path = a.path)
                => q.manifest.path = p.manifest.path

(***************************************************************************)
(* The process is killed between two writes, or inside the one it is at.   *)
(***************************************************************************)
KilledBetween ==
  /\ cmd # Idle
  /\ excused' = (excused \/ cmd.kind = "apply")
  /\ cmd' = Idle
  /\ UNCHANGED <<files, backups, generated, loop, commands, edits, unlogged>>

KilledWriting ==
  /\ cmd # Idle
  /\ \/ /\ cmd.kind = "apply" /\ Step # LogIt
        /\ files' = [files EXCEPT ![Step.path] = <<>>]
        /\ unlogged' = unlogged \cup {Step.path}
        /\ excused' = TRUE
        /\ UNCHANGED <<backups, index, summary>>
     \/ /\ cmd.kind \in InstallKinds
        /\ IF MustSave(Step)
           THEN backups' = [backups EXCEPT ![Step.path] = <<>>] /\ UNCHANGED files
           ELSE /\ Writing \/ Step.mode = "enable"
                /\ files' = [files EXCEPT ![Step.path] = <<>>] /\ UNCHANGED backups
        /\ UNCHANGED <<index, summary, history>>
     \/ /\ cmd.kind \in MemoryKinds
        /\ \/ Step = "index" /\ index' = Torn /\ UNCHANGED summary
           \/ Step = "summary" /\ summary' = Torn /\ UNCHANGED index
        /\ UNCHANGED <<files, backups, history>>
  /\ cmd' = Idle
  /\ UNCHANGED <<handoff, plan, loop, commands, edits>>

People ==
  \/ \E e \in Edits : EditFile(e)
  \/ \E i \in Ids, d \in Drafts : WriteProposal(i, d)

Next == LoopNext \/ InstallNext \/ People \/ KilledBetween \/ KilledWriting

Spec == InitFiles /\ [][Next]_vars

(***************************************************************************)
(* Properties.                                                             *)
(***************************************************************************)
(* Whatever an apply changed is named by a record of the log once it is    *)
(* over, however many of its operations failed and wherever they failed;   *)
(* only a kill or a log that cannot be written excuses a gap.              *)
(* (improve.js: the list of changed files is made before the first write.) *)
AuditCoversChanges == cmd = Idle /\ ~excused => unlogged = {}

(* What a proposal asks of a file with one operation, in the words of      *)
(* docs/approved-proposal-apply.md: the content, the line unless there is  *)
(* one like it, the replacement in each place of the text that was found.  *)
AsAsked(op, old, new) ==
  /\ op.type = "create_file" => new = op.content /\ (old = Absent \/ op.overwrite)
  /\ op.type = "append_line" =>
       IF old # Absent /\ \E k \in DOMAIN old : Trim(old[k]) = Trim(op.line)
       THEN new = old
       ELSE new = (IF old = Absent THEN <<>> ELSE old) \o <<op.line>>
  /\ op.type = "replace_text" =>
       /\ \/ Matches(old, op.find) = 1
          \/ Matches(old, op.find) > 1 /\ op.allow_multiple
       /\ op.allow_multiple \/ op.replace \notin Patterns =>
            new = [k \in DOMAIN old |-> IF old[k] = op.find THEN op.replace ELSE old[k]]

(* A record of success tells the truth of each operation whose file no     *)
(* other operation of the proposal names, whatever the others do: the file *)
(* became what the operation asks for, a replaced text occurred, and more  *)
(* than once only by leave, and a file that was there was created anew     *)
(* only by leave.  A single replacement that reads as a pattern is         *)
(* excepted (README, divergences), and so is the second operation on a     *)
(* file, which was validated against the text before the first.            *)
AppliedAsValidated ==
  \A n \in DOMAIN applyLog :
    LET r == applyLog[n]
        ops == r.operations
    IN  r.status = "success" =>
          \A k \in DOMAIN ops :
            (\A j \in DOMAIN ops : ops[j].path = ops[k].path => j = k)
              => AsAsked(ops[k], r.before[ops[k].path], r.after[ops[k].path])

(* Onboard, sync and plugin install never replace the text of a file that  *)
(* is not at that moment in its .bak, even when a killed run went before.  *)
BackedUp(p) ==
  cmd.kind \in {"onboard", "sync", "plugin"} /\ files[p] # Absent => backups[p] = files[p]

(* Without --force no installing command changes a file that existed when  *)
(* it started, but for the rules file that init writes for an adapter.     *)
Asked(p) ==
  cmd.kind \in InstallKinds /\ ~cmd.force /\ p \in cmd.existed
    => cmd.kind = "init" /\ p = RulesFile.path

(* An installing command overwrites only what it was asked to (BackedUp,   *)
(* Asked): with the exceptions of init, text that was there before is      *)
(* replaced with --force alone and stands in the .bak when it is, also     *)
(* when a killed run of the same command went before (plugin.js:380-395,   *)
(* onboard.js:263-293, adapters.js:219-247).                               *)
OverwritingIsDeliberate ==
  [][\A p \in Paths : files'[p] # files[p] => BackedUp(p) /\ Asked(p)]_vars

(* What docs/faq.md says of overwriting: never by default, and with        *)
(* --force only after a backup.  init keeps neither half.                  *)
NeverByDefault ==
  [][\A p \in Paths :
       cmd.kind \in InstallKinds /\ p \in cmd.existed /\ files'[p] # files[p]
         => cmd.force /\ backups[p] = files[p]]_vars

(* No file of a plugin is in the project unless plugin status shows some   *)
(* version of the plugin, for the manifest is written first; but a forced  *)
(* run killed inside the write of the manifest leaves it empty, and then   *)
(* plugin status says nothing of the assets of the run before (README,     *)
(* divergences).                                                           *)
NoOrphanedAssets ==
  \A p \in AllPlugins :
    Installable(p) /\ PluginStatus(p.manifest.path) = "NOT SHOWN" =>
      \/ files[p.manifest.path] = <<>>
      \/ \A a \in ToSet(p.assets) : files[a.path] # a.text

(* The summary people read is never newer than the index it goes with, and *)
(* there is none without an index: the index is written first.             *)
IndexNeverBehindSummary ==
  /\ summary # Absent => index # Absent
  /\ summary \notin {Absent, Torn} /\ index # Torn => index.stamp >= summary.stamp

(* What a killed command leaves is found by what was written before it.    *)
KilledRunsLeaveOrder == NoOrphanedAssets /\ IndexNeverBehindSummary
=============================================================================
