-------------------------- MODULE MCProjectCommands --------------------------
EXTENDS ProjectCommands, TLC

MCPaths == {"agents", "config", "rules", "manifest", "asset"}
Shipped(p, t) == [path |-> p, text |-> t]
MCEdits == {Shipped("agents", <<"a", "a">>), Shipped("config", <<"on">>)}

MCTemplate == <<Shipped("agents", <<"template">>), Shipped("config", <<"off">>)>>
MCRules == Shipped("rules", <<"shipped">>)

Replace(p, find, multiple) == [type |-> "replace_text", path |-> p, find |-> find,
                               replace |-> "b", allow_multiple |-> multiple]
Line(p) == [type |-> "append_line", path |-> p, line |-> "c"]
Create(p, overwrite) == [type |-> "create_file", path |-> p, content |-> <<"a">>,
                         overwrite |-> overwrite]
Proposal(status, ops) == [status |-> status, block |-> "operations", operations |-> ops]
MCDrafts ==
  {Proposal("approved", ops) : ops \in
     {<<Replace("agents", "a", TRUE), Create("rules", FALSE)>>,
      <<Create("agents", TRUE), Replace("agents", "template", FALSE)>>,
      <<Replace("agents", "a", FALSE)>>,
      <<Line("agents"), Line("secret"), Line("elsewhere"),
        [Line("agents") EXCEPT !.type = "delete_file"]>>,
      <<[Replace("config", "off", FALSE) EXCEPT !.replace = "found"],
        [Line("agents") EXCEPT !.line = "template, padded"]>>,
      <<Replace("agents", NoText, TRUE)>>}}
  \cup {[status |-> "pending", block |-> "invalid", operations |-> <<>>]}

Pattern(p) ==
  [path |-> p, root |-> TRUE, traversal |-> FALSE, blocked |-> FALSE, policy_root |-> TRUE,
   policy_blocked |-> FALSE, extension |-> ".md"]
Plugin(text, pattern, size) ==
  [slug |-> "tools", well_formed |-> TRUE, manifest |-> Shipped("manifest", <<"tools">>),
   patterns |-> {pattern}, assets |-> <<Shipped(pattern.path, text)>>, size |-> size]
MCPlugin == Plugin(<<"asset">>, Pattern("asset"), 1)
\* by path: a newer version of the same plugin, one too large, one out of its roots
MCNewer == [Plugin(<<"newer">>, Pattern("asset"), 1) EXCEPT !.manifest.text = <<"newer">>]
MCPlugins == {MCNewer, Plugin(<<"asset">>, Pattern("asset"), 9),
              [Plugin(<<"asset">>, [Pattern("rules") EXCEPT !.root = FALSE], 1)
                 EXCEPT !.manifest.text = <<"rules">>]}
MCCatalogs == <<[name |-> "bundled", remote |-> FALSE, enabled |-> TRUE, trust |-> "trusted",
                 plugins |-> {MCPlugin}],
                [name |-> "remote", remote |-> TRUE, enabled |-> TRUE, trust |-> "community",
                 plugins |-> {MCPlugin}]>>
MCPadded == [line \in {"template, padded"} |-> "template"]
\* a refresh between two reports, and the rules after it
MCWorkflows == {<<"report", "memory", "report", "rules">>}
MCPolicy == [allowed_file_extensions |-> {".md", ".yaml"}, max_plugin_files |-> 3,
             max_plugin_size |-> 5, allow_remote_registries |-> TRUE,
             allow_untrusted_install |-> FALSE]
=============================================================================
