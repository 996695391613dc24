--------------------------- MODULE ProjectInstall ---------------------------
(***************************************************************************)
(* The commands that copy shipped files into a project: init, onboard,     *)
(* adapter sync, plugin install and catalog install                        *)
(* (src/cli/handlers/init.js, onboard.js, adapters.js, plugin.js,          *)
(* catalog.js, src/catalog/loader.js).                                     *)
(*                                                                         *)
(* Each makes a list of copies first and then works through it.  What it   *)
(* does with a file that exists is the mode of the copy:                   *)
(*   "plain"   overwrite it            (init)                              *)
(*   "skip"    leave it                (onboard and sync without --force)  *)
(*   "backup"  copy it to .bak first   (the others)                        *)
(***************************************************************************)
EXTENDS ProjectFiles

CONSTANTS
  TemplateFiles,   \* the shipped template: a sequence of [path, text]
  RulesFile,       \* the adapter's rules file for the project's root: [path, text]
  ConfigPath,      \* .ai/config.yaml, which says whether the adapter is enabled
  AdapterOff, AdapterOn,  \* the line of the config that says so
  Plugins,         \* plugins people install by path
  Catalogs,        \* the registry sources: a sequence of [name, remote, enabled, trust, plugins]
  Policy           \* registry-policy.yaml

AllPlugins == Plugins \cup UNION {c.plugins : c \in ToSet(Catalogs)}

(* The template has a config: init puts one among its files in any case.   *)
ASSUME InstallAssumption ==
  /\ TemplateFiles \in Seq(File) /\ RulesFile \in File
  /\ \E k \in DOMAIN TemplateFiles : TemplateFiles[k].path = ConfigPath
  /\ AdapterOn \in STRING
  /\ \A p \in AllPlugins : p.manifest \in File /\ p.assets \in Seq(File)

InstallKinds == {"init", "onboard", "sync", "plugin"}

Copies(shipped, mode) ==
  [k \in DOMAIN shipped |-> [path |-> shipped[k].path, text |-> shipped[k].text,
                             mode |-> mode, saved |-> FALSE]]

Enable == [path |-> ConfigPath, mode |-> "enable"]

\* MUTANT: only the first file is audited.
ConflictOfFirst(shipped) == files[shipped[1].path] # Absent
Conflict(shipped) == \E k \in DOMAIN shipped : files[shipped[k].path] # Absent

(***************************************************************************)
(* init: the template is audited for conflicts before anything is written; *)
(* the rules file of a selected adapter, written last, is not.  Then the   *)
(* adapter is enabled in the config.                                       *)
(***************************************************************************)
InitProject(adapter, force) ==
  /\ force \/ ~Conflict(TemplateFiles)
  /\ Launch(Command("init", Copies(TemplateFiles, "plain") \o
                       (IF adapter THEN Copies(<<RulesFile>>, "plain") \o <<Enable>> ELSE <<>>),
                    force, Absent))
  /\ UNCHANGED <<files, backups, generated, loop, history>>

(* onboard plan and, given a plan and --approved, onboard apply.           *)
OnboardPlan ==
  /\ Tick
  /\ plan' = commands + 1
  /\ UNCHANGED <<files, backups, index, summary, handoff, loop, history>>

OnboardApply(force) ==
  /\ plan # 0
  /\ Launch(Command("onboard", Copies(TemplateFiles, IF force THEN "backup" ELSE "skip"),
                    force, Absent))
  /\ UNCHANGED <<files, backups, generated, loop, history>>

(* adapter sync --approved, of the adapter by name or of all those that    *)
(* the config enables.                                                     *)
Enabled == files[ConfigPath] # Absent /\ AdapterOn \in ToSet(files[ConfigPath])

SyncAdapter(all, force) ==
  /\ all => Enabled
  /\ Launch(Command("sync", Copies(<<RulesFile>>, IF force THEN "backup" ELSE "skip"),
                    force, Absent))
  /\ UNCHANGED <<files, backups, generated, loop, history>>

(***************************************************************************)
(* plugin install.  A plugin is its manifest file, the patterns it names,  *)
(* each a path with what the checks ask of it, and the assets: the files   *)
(* the patterns name as far as it ships them, in the order of the patterns.*)
(***************************************************************************)
Valid(p) ==
  /\ p.well_formed
  /\ \A q \in p.patterns : q.root /\ ~q.traversal /\ ~q.blocked

AllowedByPolicy(q) ==
  q.policy_root /\ ~q.traversal /\ ~q.policy_blocked /\ q.extension \in Policy.allowed_file_extensions

\* MUTANT: the manifest last.
PluginFilesManifestLast(p) == p.assets \o <<p.manifest>>
PluginFiles(p) == <<p.manifest>> \o p.assets

Installable(p) ==
  /\ Valid(p)
  /\ \A q \in p.patterns : AllowedByPolicy(q)
  /\ Len(PluginFiles(p)) <= Policy.max_plugin_files
  /\ p.size <= Policy.max_plugin_size

InstallPlugin(p, force) ==
  /\ Installable(p)
  /\ force \/ ~Conflict(PluginFiles(p))
  /\ Launch(Command("plugin", Copies(PluginFiles(p), "backup"), force, Absent))
  /\ UNCHANGED <<files, backups, generated, loop, history>>

(***************************************************************************)
(* catalog install: the entry is looked up in the bundled catalog, in one  *)
(* source, or in all of them, where the first source that lists a slug     *)
(* wins and remote ones count only when enabled and allowed.               *)
(***************************************************************************)
Listed(c, where) ==
  IF where = "all" THEN c.remote => c.enabled /\ Policy.allow_remote_registries
                   ELSE c.name = where

Holders(slug, where) ==
  {n \in DOMAIN Catalogs : /\ Listed(Catalogs[n], where)
                           /\ \E p \in Catalogs[n].plugins : p.slug = slug}

Trusted(c) ==
  c.remote => Policy.allow_untrusted_install \/ c.trust \notin {"untrusted", "community"}

CatalogInstall(slug, where, force) ==
  \E n \in Holders(slug, where) :
    /\ \A m \in Holders(slug, where) : n <= m
    /\ Trusted(Catalogs[n])
    /\ \E p \in Catalogs[n].plugins : p.slug = slug /\ InstallPlugin(p, force)

(* What plugin status says of the manifest at a path: nothing when it does *)
(* not read as one, else whether the files are there that it names, in     *)
(* whatever version.                                                       *)
Installed(path) == {p \in AllPlugins : p.manifest = [path |-> path, text |-> files[path]]}

PluginStatus(path) ==
  IF Installed(path) = {} THEN "NOT SHOWN"
  ELSE IF \E p \in Installed(path) : \E q \in p.patterns : files[q.path] = Absent
  THEN "PARTIAL" ELSE "COMPLETE"

(***************************************************************************)
(* The writes.                                                             *)
(***************************************************************************)
\* MUTANT: a backup made before is kept.
MustSaveOnce(copy) ==
  copy.mode = "backup" /\ files[copy.path] # Absent /\ ~copy.saved /\ backups[copy.path] = Absent
MustSave(copy) == copy.mode = "backup" /\ files[copy.path] # Absent /\ ~copy.saved

SaveOld ==
  /\ cmd.kind \in InstallKinds /\ MustSave(Step)
  /\ backups' = [backups EXCEPT ![Step.path] = files[Step.path]]
  /\ cmd' = [cmd EXCEPT !.todo[1].saved = TRUE]
  /\ UNCHANGED <<files, generated, loop, commands, edits, history>>

SkipExisting ==
  /\ cmd.kind \in InstallKinds /\ Step.mode = "skip" /\ files[Step.path] # Absent
  /\ StepTaken
  /\ UNCHANGED <<files, backups, generated, loop, commands, edits, history>>

Writing ==
  /\ cmd.kind \in InstallKinds /\ Step.mode # "enable"
  /\ ~MustSave(Step) /\ ~(Step.mode = "skip" /\ files[Step.path] # Absent)

CopyFile ==
  /\ Writing
  /\ files' = [files EXCEPT ![Step.path] = Step.text]
  /\ StepTaken
  /\ UNCHANGED <<backups, generated, loop, commands, edits, history>>

EnableAdapter ==
  /\ cmd.kind = "init" /\ Step.mode = "enable"
  /\ files' = [files EXCEPT ![ConfigPath] =
                 [k \in DOMAIN @ |-> IF @[k] = AdapterOff THEN AdapterOn ELSE @[k]]]
  /\ StepTaken
  /\ UNCHANGED <<backups, generated, loop, commands, edits, history>>

InstallNext ==
  \/ \E adapter, force \in BOOLEAN : InitProject(adapter, force)
  \/ OnboardPlan
  \/ \E force \in BOOLEAN :
       \/ OnboardApply(force)
       \/ \E all \in BOOLEAN : SyncAdapter(all, force)
       \/ \E p \in Plugins : InstallPlugin(p, force)
       \/ \E c \in ToSet(Catalogs), where \in {"bundled", "all"} \cup {d.name : d \in ToSet(Catalogs)} :
            \E p \in c.plugins : CatalogInstall(p.slug, where, force)
  \/ SaveOld \/ SkipExisting \/ CopyFile \/ EnableAdapter
=============================================================================
