# Verification of red-pak

red-pak runs programs in *rednodes*: directories stacked in a family, from a
root node to a leaf, each with two configurations, its own and an
administrator's. `redconf` makes and shows nodes, `redwrap` merges the
configurations of a family and starts `bwrap` accordingly.

This directory holds TLA+ models of that code, the TLC runs that check them and
theorems about them whose proofs the TLA+ proof system checks. `PROJECT.json`
maps each definition to the lines it models, and lists the runs, the hazards
and, per property, a mutation of the code that breaks it.

## 1. Inventory

| component | state | operations | used by |
|---|---|---|---|
| **rednode factory** `red-conf/rednode-factory.c` | files of a node directory: `etc/redpak.yaml`, `etc/redpak-admin.yaml`, `.rednode.yaml` (and legacy names `etc/redpack*.yaml`) | set root, set node, create or update a node (and, in legacy mode, its parent) | `redconf create`, dnf plugin |
| **node scan** `red-conf/redconf-node.c` | the chain of `redNodeT` in memory | `RedNodesScan` (leaf to root), `RedNodesDownScan` (root to leaves), `RedUpdateStatus`, environment of a node | every program |
| **schemas** `red-conf/redconf-schema.c` | none | load and save YAML with cyaml | factory, scan |
| **merges** `red-conf/redconf-mix.c` | temporary lists of links | variables, capabilities, exports; sharings, tags, early configuration, paths | redwrap, `redconf mergeconfig` |
| **expansion** `red-conf/redconf-expand.c` | buffers of fixed size | `$VAR` and `$(command)`, append of paths without duplicates | merges, redwrap |
| **cgroups** `red-wrap/cgroups.c` | the kernel's tree of cgroups, the group of each process | `set_cgroups` | redwrap |
| **redwrap** `red-wrap/redwrap-exec.c`, `commands/` | the argument list of bwrap, the process, its namespaces | scan, check, merge, cgroups, clone, join or leave namespaces, exec, wait | user, systemd, dnf wrapper |
| **utilities, dump, merge for display** `red-conf/redconf-{utils,valid,dump,merge}.c` | none | directories, dates, uuids, memfd; printing | all |
| **red-lib, rpm plugin, Python binding** | libdnf objects | glue | package manager |

How they interact: through the file system (factory against scan: no lock, no
atomic rename), through the kernel's cgroup tree (redwrap against redwrap: no
lock either), and by callbacks inside one program (merges hand over each
merged item to a callback that may fail).

What is hard in them, and what makes each correct:

* *Factory and scan.* A creation is some ten system calls. Others run between
  them, or the tool dies. Correct: what scans take for a node is complete, above
  all its administrator's configuration; an identity once given stays; the
  status is the commit point.
* *Merges.* The walk goes from the leaf up while the rules are told from the
  root down, and each merge rests on what its comments "know" of a key seen
  before. Correct: each key once, administrators first and then the nearer
  node, nothing granted that an administrator has refused.
* *Cgroups.* Launchers rearrange one tree at the same time, and the kernel
  refuses some orders. Correct: one hierarchy; a success means limits in force
  and a container inside them; launchers do not make each other fail.
* *Launch.* A chain of set-up calls, most results of which are not looked at.
  Correct: the program runs with the namespaces that were merged, or not at all,
  and the caller learns which.
* *Expansion.* Bounds at every append. Correct: whole values or an error.

## 2. Plan

Written in this order, each module with its runs before the next begins:

1. `NodeFactory`, implementing `NodeLifecycle`; theorems in `NodeFactory_proofs`. **Done.**
2. `Family`, `MixWalk` implementing `MergePromise`, `MergeTable`, `CapaMatrix`;
   theorems in `MixWalk_proofs`. **Done.**
3. `Cgroups` and `MoveProcs`; theorems in `Cgroups_proofs`. **Done.**
4. `Sharing`, over `MergeTable`, and `ConfTags`: the merges of sharings, tags and
   early configuration. **Done.**
5. `Launch`: `redwrapExecBwrap` over them, with `redwrap-dnf` and the identities
   of the command line; theorems about it and what it merges in `Launch_proofs`.
   **Done.**
6. `Exports`: mounts and the directories made for them; theorems in
   `Exports_proofs`. **Done.**
7. `NodeTree`: `RedNodesDownScan`; theorems in `NodeTree_proofs`. **Done.**
8. `Expand` and `Environment`: strings, variables and paths; theorems in
   `Environment_proofs`, those of specifications in `Launch_proofs`, over
   `RecursionTheorems`. **Done.** The
   making of names of groups stays a constant of `Cgroups`.

## 3. Modules

### NodeFactory, NodeLifecycle (rednode-factory.c, redconf-node.c, redconf-utils.c)

One action is one system call, or a run of calls that only reads: looking for
the parent, each `mkdir` of `make_directories`, each `access`, the `fopen` that
truncates a file and the write that completes it, the loads of an update. A
call of `rednode_factory_create_node` goes through the stages `hdr_conf`,
`hdr_admin`, `dirs`, `save_conf`, `save_admin`, `save_status` (`FirstStage`,
`After`). Any call may fail (`Faults` holds "io"), any tool die between two
(`Crash`), and scans (`ScanStart` to `ScanAdmin`) read in between. A file is
absent, torn, cut or whole. Torn is what `fopen` has just emptied, or what a
flush of a part (`WritePart`) leaves where it cannot be parsed: it bears no
identity, and the one it bore before is nowhere else. Cut is a first part that
can be parsed; the headers, with the identity, come first. A status is written
in one piece. Of cyaml, which is external, we keep that it opens with "w",
writes in order and flushes at the end; the second attempt of `SchemaSave` and
of `SchemaLoad`, made to log more, is one with the first. An identity is the
number of the call that forged it.

`NodeLifecycle` is what the factory promises when tools run one at a time: a
directory is void, then claimed by one creation that gives its identity, then
perhaps live with it; and from either it may become lost, without an identity,
for ever: a call died between the `fopen` of a configuration and the end of its
writing. `NodeFactory` implements it (`ImplementsLifecycle`) with the phase
and the identity read from the files, and from the tool that is writing one.

### NodeTree (redconf-node.c)

The other scan, from a directory down to all leaves, beside the tools of
`NodeFactory`. A directory is read entry by entry and each entry loaded at once
(`ReadDir`, `DownStatus`, `DownConf`); only when the directory ends are those of
the children read (`ReadEnd`), which the code does by recursion over a list that
it prepends to, and a stack, `todo`, does here. What appears in a directory
after it was opened may be given or not. A directory without status is left out
with all below it, a file that cannot be loaded makes the whole scan fail.
`since` remembers which nodes were live when the scan began.

### Family, MergePromise, MixWalk, MergeTable, CapaMatrix (redconf-mix.c)

`Family` holds configurations by depth (0 is the leaf) and rank (1 is the
administrator's), each a list of definitions, and says what prevails.
`MixWalk` is the walk shared by the merges of variables, capabilities and
exports: the C code recurses through the lists with a cursor, here `at`, and
keeps a link per key seen; `Kind` selects the three ways they differ. An action
is one round of the recursion (`NewKey`, `SameNode`, `FromAncestor`, `SeenKey`
with `Keep` and `Fail`, `SkipPrivate`, `NextConfig`), then one callback
(`Send`, sorted by mount point for exports), any of which may fail.
`MergePromise` is the abstract merge: it ends with an error, or hands over what
prevails of each key, once. `MergeTable` transcribes the table of the comment
at redconf-mix.c:262-305, which the comment at :698-727 repeats for sharings, and
applies it from the root: the table of a child takes the effect of its parent for
its column PARENT, so `EffectFrom` is a recursion from the root. `SettledNearer`
and `SettledFarther` are the two kinds of families that a walk from the leaf
judges differently. `CapaMatrix` compares `MixWalk` with it; `CapaSpec` is the walk
without the step for private exports.

Upper and lower case, expansion of mount points and memory allocation are not
modelled: keys are integers in the order of `strcmp`.

### Exports (redwrap-exec.c over MixWalk)

`MixWalk` with the callback that redwrap gives to `mixExports`: an export handed
over goes through `stage`, from `look` (the `stat`) to `climb` and `make`
(`create_directory`, up to what exists and down again), `setup`
(`setup_directory`, from the bottom) and `add`. `there` is what exists on the
host: others may make directories between any two calls. The arguments of bwrap
are counted, and a mount for which there is no place ends the launch; `cut` says
that one of them is NULL, so that bwrap sees none of the following.

### Cgroups, MoveProcs (cgroups.c, the clone of redwrap-exec.c)

Groups are paths below the mount point; `tree` gives for each what it shares
out (`cgroup.subtree_control`) and whose settings it holds, `where` the group of
each process, `job` the locals of each `set_cgroups`. The actions are its system
calls: `Begin` and `Climb` look for the root, `RootLeaf` to `AllMoved` empty it,
`Look` and `Grant` are the recursion of `ensure_required_controllers`, whose
stack is `ask`, and `MakeNode`, `MakeLeaf`, `Configure` are one level of
`prepare_middle_cgroup`; then `EnterLeaf` and `Clone`. Of the kernel we keep:
a group with processes cannot begin to share controllers out, a controller is
there only if the parent shares it out, a write of the number of a process that
has ended fails, a child is born in its parent's group, and a list read while
processes come may miss them. All controllers follow the rule for domain
controllers. Containers see the tree of their launcher (`share_cgroup`
enabled). Names of groups are the constant `CgName`; that different nodes have
different groups is `NamesDiffer`, a hypothesis of theorems and not an
assumption, since the code does not ensure it (cgroups.c:622). Rights are those
of a delegated subtree, so that `mkdir` and moves are allowed.

`Cgroups` takes the lines of `cgroup.procs` whole, which holds while the list
fits the buffer. `MoveProcs` is `moveProcs` byte by byte when it does not.

### Sharing, ConfTags, Launch (redconf-mix.c, redconf-sharing.c, redwrap-exec.c)

`Sharing` is the walk of `mixShares`: `at` is the configuration to come, `share`
what `mix_share` has kept of each namespace, and one action merges one
configuration, or refuses it; `SharesAsTable` compares the result with
`MergeTable`. `ConfTags` is the merge of the settings that a node has at most once:
two loops, administrators first. A value is a text: where it was written, whether
it holds something to expand ("dollar") or not ("plain"), and, when merged by
`mix_string`, whether it has been expanded (`Expansion`). `mix_basic_conftag` stops
at the first string that cannot be expanded, and the loops go on (`spoilt`). Flags
and numbers, for which 0 or false is the same as unset, are present or absent like
strings.

The early merge of `mixEarlyConf`, which decides the identity before the tags are
merged, is `EarlyText`: the text as it is written. The command line goes before both
(`forced`). A user or group named by a text with something to expand is not found,
and the launch refused (`Nobody`): names of users hold no dollar.

`Launch` is `redwrapExecBwrap`, with one action per call of the chain: `Prepare`
(scan, validation, early configuration and exports, each of which goes through
or ends the launch), `SetVariables`, `MergeTags` and `MergeShares`, `SetConftag`
(with `set_shares`, which decides what bwrap unshares), `SetPaths`, `Clone`, then
in the child `WriteMap`, `EnterTime`, `JoinNext`, `SetSmack`, `SetGid`, `SetUid`,
`Exec`, and `ProgramEnds`. `outside` tells that something failed for a reason
that the chain itself has not given. A child fails in two ways: by `exit`, or by
returning to `main` as the launcher would (`ChildExits`, `ChildReturns`).
`DnfReturns` is what `redwrap-dnf` makes of the same result.

Of the kernel we keep: a process in a new user namespace may map only itself; in
a namespace that is mapped to root only root exists; to join a namespace or to
take a label asks for capabilities over the host, which a process in a user
namespace of its own has no more; a namespace of users that is joined gives all
capabilities; who is not able may only take its own identity. Of bwrap: it makes
the namespaces its arguments ask for, or ends with an error.

`Launch` leaves out the cgroups and the exports, which are modules of their own
and give the launch nothing but an outside failure, the option that dumps the
arguments and ends, and the parsing of the command line. A contradiction between
capabilities ends the launch in `SetConftag` as an outside failure, since
`MixWalk` models it.

### Expand, Environment (redconf-expand.c, redconf-mix.c, redwrap-exec.c)

`Expand` is `defaultsExpand` on strings of tokens: characters, names behind a
dollar, commands. What a name stands for is expanded in turn, without running
commands; the text of a command is expanded into a line of its own, which is run.
The recursion is the stack `frames`, the bounds of both buffers are looked at
where the code looks. The terminating zero of a line or of a path is written
without a look at the bound: when it falls behind, `overrun` becomes true and the
launcher may die at any time after.

`Environment` uses it twice: for each variable handed over by `mixVariables`, by
its mode (`set_one_envvar`: static, the output of a command, expanded, removed,
inherited), and for `PATH` and `LD_LIBRARY_PATH`, which `mixPaths` appends from
the leaf to the root, the administrator's first, each cleaned of the elements
already there. A variable that cannot be expanded becomes NULL among the
arguments of bwrap (`null`), which then reads no further.

## 4. Runs

| run | instance | what it shows |
|---|---|---|
| `factory_concurrent` | 2 tools, 1 scan, root and leaf, 2 calls, crashes and failures, legacy names | `StatusComesLast`, `ScanHasAdmin`: who has a status has both configurations, and scans never load a node without its administrator's; `BrokenForever`: what a call that died has broken no later call mends |
| `factory_sequential` | 1 tool, 3 calls in a row, 1 scan, crashes and failures | `IdentityKept` (unless an update dies while it writes), `ScanIsConsistent`, and the refinement of `NodeLifecycle` |
| `factory_survivor` | 2 tools in legacy mode, 2 calls, a root that exists with a node and one below it to be made, a scan of the tree, no fault, fair | `Survivor`: a node comes to life although creations may spoil each other; `ParentFirst`; `TreeIsComplete`, `TreeFailsForAReason`: the tree read lacks no node that was there before, and the scan fails only on what is being written |
| `factory_overwrite` | 2 tools, 1 node | **violation** of `NoUnexpectedOverwrite` |
| `mix_capabilities` | all families of 3 nodes, lists of at most 2, 1 capability | `AssumedOrder`, `NoEscalation`, the refinement, and where the merge departs from the documented table and where not (`AgreesWithMatrix`, `RefusesAsMatrix`) |
| `mix_exports` | families of 2 nodes, 3 mount points, lists of up to 3 exports (directories private or public, files, links), a host with a directory and two in it of which others make any, 3 options, 7 arguments | the refinement, with the order of hand-over and private exports; `MountedExists`, `GivesWhatItMade`, `AllDirsMounted`, `MountsInOrder` |
| `exports_files` | the same | **violation** of `FilesMounted` |
| `cgroups_confine` | 4 launchers (in the unit, in its leaf, in a container, in that one's), 1 process forked, 3 controllers of which 1 is granted at first | `OneHierarchy`, `LimitsInForce`, `ShelteredInLeaf`, `FailsOnlyIfDisturbed` |
| `cgroups_race` | 2 launchers in the unit | **violation** of `ContainerInItsNode` |
| `moveprocs_cut` | lists of up to 3 processes, a buffer of 5 bytes | **violation** of `MovesAll` |
| `launch` | families of 3 nodes with at most 2 sharings, or any sharings of one namespace, or up to 3 tags, or a tag in two places with texts plain or to be expanded, or 2 variables, or 3 paths; 3 namespaces; identities on the command line; root and another caller; any failure | `ForbiddenStaysForbidden` and `SharesAsTable` (the merge of sharings against its rules and its table), `AdministratorsFirst` (table of the tags), `RunsAsShown` (the program runs under the identity that redconf shows, although one merge expands and the other does not), `RunsIsolated`, `RunsAsAsked`, `VariablesWhole`, `PathsInOrder`, `FailsForAReason`, `DnfTells` |
| `launch_status` | the same | **violation** of `TellsFailure` |

Why these bounds are enough to be of interest. Factory: all races of the code
are between two tools, or a tool and a scan, on one node or on a node and its
parent; three calls in a row reach each state of a node's files from each other. Merges: the
comparison of a definition with a link looks at three places (same node, nearer
node, farther node) and two ranks; three nodes with two definitions per list
give all of them, and a definition that comes after a link has been rewritten.
The theorems below carry these results to any bound. Cgroups: two launchers
share an ancestor and differ in the leaf, a third and fourth start from inside,
so every step of one meets every step of another; the mount point does not grant
all that is needed, so that the recursion to the parent happens. Buffer: five
bytes cut lists of two lines as 200 bytes cut lists of some 30.

Launch: an item of the sharings meets the others only in the choice of the user
namespace (items user, time and all), so that two settings, and then any
settings of one item in six places, give all the rules; of the namespaces that
only are unshared or joined, one stands for all.

Tree: a chain of three gives a child that appears while its parent is read, a
parent that becomes a node after its directory was left out, and a second round
of the recursion; branches are covered by the theorems only. Exports: two
directories to be made under one that may be missing give a chain of two, a chain
that another launcher has begun, and a directory set up for one export and used
by the next; seven arguments are reached with the third export. Environment: a
buffer of 4 characters, 6 for paths and 3 for the output of a command is filled
exactly, and exceeded, by texts of up to 4 tokens; names stand for nothing, for a
text, for another name and for too much.

Deadlock is not checked where the programs simply end.

### Fairness

Only `factory_survivor` checks liveness, under `TreeSpec`: weak fairness of each
tool that has begun a call, none of a user who might begin one, none of the
scan: the kernel goes on running a process that is not killed, and nothing in the factory
waits for another process. That run excludes crashes and failing calls, which
no fairness could make up for.

## 5. Findings

1. `factory_overwrite`: `store_config` looks whether the configuration exists
   ("check no unexpected overwrite", rednode-factory.c:239) and truncates it in
   a later call. Of two creations of a node, one may overwrite the other's
   configuration and identity.
2. `exports_files`: `set_one_export` takes a `stat` that succeeds for a missing
   file (redwrap-exec.c:324, against "check that it exists" at :282). An exported
   file that exists is left out with a warning, one that does not is asked of
   bwrap.
3. `cgroups_race`: two launchers started in a fresh unit each list its
   processes. One may enter the leaf of its node, and then be moved out of it by
   the other from its older list, so that its container is cloned outside all
   limits, although its `set_cgroups` returned 0.
4. `moveprocs_cut`: after a line cut by the end of the buffer, the rest is read
   to the start of the buffer, over the bytes kept. Processes beyond the first
   200 bytes are lost while the result is 0, or the result is an error.
5. `launch_status`: `main` of redwrap takes every result but a negative one for
   success. An aborted launch returns 1, `waitpid` gives a positive status, and
   a child that returns instead of ending goes through the same `main` and
   reports 0: redwrap ends with success although no program has run.

Seen while reading, with no run of their own:

* Merges. The merges of capabilities and of sharings walk from the leaf, the
  tables of redconf-mix.c:262-305 and :698-727 are applied from the root, and from
  three nodes on they differ in two ways. A leaf that enables what its normal
  parent disables is refused before the administrator of the grandparent, who
  settles the matter, is met: for leaf 1N, parent 0N, grandparent 1A the table
  gives 1A, `mix_share` refuses at :799-807, and the merge of capabilities
  likewise (`SettledFarther`). And where the table has an ERROR between a parent
  and a grandparent, the merge accepts if a nearer node has spoken first
  (`SettledNearer`): what this node drops stays dropped, or an administrator
  grants. `SharesAsTable` and `RefusesAsMatrix` say that there is no other
  difference.
  `PrivateRestricted` is documented as "only for
  current node" in QA/REDPAK.CNF.md, but neither `RED_EXPORT_PRIVATES`
  (redconf-schema.h:136) nor `RED_EXPORT_DIRS` has it. The mount point of an
  export that cannot be expanded reaches `strcasecmp` as NULL.
* Expansion. It ends only if no definition refers to itself. A command that
  prints nothing leaves the buffer of an `Execfd` variable uninitialised
  (`Garbage` in `Environment`). The zeros of redconf-expand.c:379 and :505 may be
  written one byte behind the buffer. With `BWRAP_HAS_CLEARENV`, `--clearenv` is added after
  `--setenv`.
* Scans. `RedNodesDownScan` passes over a directory that is no node, with the
  nodes below it, `RedNodesScan` from one of these goes through it.
  `create_root_node` does not look whether the directory above is a node.
* Factory. `create_directories` returns `RednodeFactory_Error_MkDir` without its
  minus sign (rednode-factory.c:127, against rednode-factory.h:190). A node stored
  under the legacy names `etc/redpack*.yaml` does not count as existing
  (rednode-factory.c:240): a creation gives it a second pair of configurations,
  which scans prefer. An update that dies, or fails, between the truncating `fopen`
  and the end of the writing (redconf-schema.c:316) loses the uuid of the node for
  good: an update needs it from the file (rednode-factory.c:317), a creation
  refuses because the file exists.
* Cgroups. The suffix of administered nodes is copied over the start of the name
  of their group (cgroups.c:622) where the comment says "Append".
* Tags. `mix_basic_conftag` turns an error into 1, which `mixConfTags` does not
  take for an error (redconf-mix.c:951), so that the settings after a string that
  cannot be expanded come from a place that should not prevail. An
  administrator's `inherit-env: false` cannot override a normal `true`, because
  false equals unset (redconf-mix.c:894). `set-user`, `set-group` and `smack` are
  taken as they are written (redconf-mix.c:997-1007), while `redconf` shows them
  expanded (:866-873): a user `$X` refuses the launch, a label `$X` is written to
  the kernel as these two characters.
* Launch. A namespace of time that is unset is shared, and the result of
  `unshare(CLONE_NEWTIME)` is not looked at (redwrap-exec.c:905).
  `map-root-user` works only for a caller who is root, since `setgid` and `setuid`
  then ask for identities that are not mapped, and `set-user` or `set-group` never
  work with a user namespace made by the clone (`BeyondReach` in `Launch` lists
  these). `argval[argcount] = NULL` (redwrap-exec.c:937) is written one place
  behind the array when all 512 arguments are in use.

## 6. Proofs

Checked by `tlapm` for every value of the constants that satisfies the
assumptions named in the modules. These ask for no more than that

* lineages are sequences of nodes that end with the node itself, and begin like
  those of its ancestors (`LineageAssumption`, `NodesAssumption`,
  `PathsAssumption`);
* families have a height and lists are sequences of definitions, the items of
  sharings are named as in the code, expanded tags come last in the order of
  tags (`FamilyAssumption`, `SharingAssumption`, `TagsAssumption`);
* each namespace but that of time is joined at its place in a list, that of users
  last, as in redwrap-exec.c:908-917 (`LaunchAssumption`); strings are sequences
  of tokens, buffers have a size, and vardefs and the environment define finitely
  many names (`ExpandAssumption`, `EnvironmentAssumption`); no variable is merged
  twice, as `MixWalk` shows, and what is to be executed is a command (`Wish`);
* the host is finite, and to go up its directories ends (`ExportsAssumption`);
* groups have paths, launchers at least one node, and no process is in a group
  before its birth or after its end (`CgroupsAssumption`).

What a theorem needs besides is a hypothesis of its own:

* `Apart`: no two tools are at work on one directory at a time, which is so when
  there is one (`OneToolIsApart`). `factory_overwrite` shows what happens without.
* `PresentNames`: no node is stored under the legacy names, which the factory does
  not find (section 5).
* `TwoDeep`, `LegacyOnly`: `create_root_node` makes one parent and does not look
  above it, and only legacy mode makes parents at all.
* `UnitsApart`: units of the service manager are not one in another, and nobody
  begins beside one under the name of leaves. `ClearWay`: units exist, nothing is
  in the way before anybody starts, no node's group has the name of leaves.
  `NamesDiffer`: different nodes have groups of different names.
* `NoLoop`: no name is defined by itself, however indirectly; if one is,
  `defaultsExpand` recurses without end. `MCLaunch` has TLC check it of the
  instance (`GroundedNames`).
* `Vals \subseteq {0, 1}`, for the table of capabilities: one is granted or dropped
  (`add`); the table has no row for anything else.

The theorems:

* `NodeFactory_proofs`. `TypeCorrect`; `StatusComesLastCorrect` and
  `ScanHasAdminCorrect`. "Status implies both configurations" is not inductive,
  because it says nothing of a call that is about to store the status. The
  invariant adds what each stage of a call knows: at `save_admin` the
  configuration is there, at `save_status` both are, and files are never
  removed (`InvariantCorrect`). For scans it adds that a scan past the status
  has found a node with a status. The other proofs begin with `WhatACallDoes`,
  which tells each step of a call in the same few terms: it begins, moves on,
  makes directories, reads, checks, opens, writes or ends.
  `BrokenForeverCorrect`: `Stuck` adds that no call holds the right to store
  a configuration, as each has yet to pass a check or a load that fails
  (`Powerless`).
  `ParentFirstCorrect`: `ParentInv` adds that a call is at work on the parent of
  its node or has seen the status there. `IdentityInv` says that the two
  configurations of a node bear one identity when they bear any (`Paired`), which
  of its files a call at work holds with the identity it works with (`Knows`), and
  that identities are those of calls that have begun (`Forged`). While a file is
  written its identity is only in the tool, and if the tool ends then, nowhere:
  that is the exception of `IdentityKept`, and the step to "lost" of
  `NodeLifecycle`. From the invariant come `IdentityKeptCorrect`,
  `NoUnexpectedOverwriteCorrect` and `Refinement` of `NodeLifecycle`, in which the
  open of the first configuration claims and that of the status publishes.
  `ScanIsConsistentCorrect` needs more (`ConsistentInv`): a scan between two files
  holds one that the other still agrees with, and what is torn while a node has a
  status is being written by an update.
* `MixWalk_proofs`. The invariant `IInv` says that each link is what prevails
  among the definitions passed so far, that no definition passed lacks a link,
  and, while no error was met, that none passed contradicts its link
  (`InvariantCorrect`). At the end of the walk "passed" is "all", which gives
  `NoEscalationCorrect` and, with the hand-over in order, `Refinement` of
  `MergePromise`; `AssumedOrderCorrect` proves what the comments of the code
  assume.
* `RecursionTheorems` and `MixWalk_proofs`, the table. The walk goes from the leaf up
  and the table from the root down; they meet in `Tells`, which says of the nodes
  from some depth to the root that the effect the table gives a key is an error
  and there is a conflict among them, or nothing and none of them speaks of it, or
  the cell of the configuration that leads them. It goes on from the parent to the
  child row by row (`TellsOnward`), hence to the leaf (`TableTells`): the table
  marks ERROR exactly the families with a conflict (`TableMeans`). With what
  `IInv` says of the links at the end this is `AgreesWithMatrixCorrect`. For
  `RefusesAsMatrixCorrect`, a merge that accepts has no link that grants what was
  dropped, so that a nearer node has settled each conflict (`AcceptedIsSettled`); one
  that refuses has met a conflict (`RefusedFor`, `RefusedConflicts`), which the
  table marks too unless an administrator farther up speaks.
* `Launch_proofs`, the merges. `SharingInv` says of each item that, among the
  places passed, it is unset exactly if none of them has spoken, an
  administrator's exactly if one of those has, and disabled exactly if a place of
  that rank forbids it. It is inductive with the types because a setting is
  refused exactly when it would break the last part (`ItemStep`). At the end of
  the walk it gives `ForbiddenCorrect`. `SharesAsTableCorrect` needs no
  more, and the lemmas on the table above: what is merged is the cell that leads
  (`MergedIsLead`), a merge that accepts leaves no conflict unsettled
  (`AcceptedIsSettled`), and at a refusal the setting that is contradicted stands
  for a place passed (`RefusedIsConflict`).
  `TagsInv` says of each tag of which of the places passed by the two loops it
  is the expansion, as long as no string was spoilt before it; with the order in
  which places are passed this is the place that prevails (`TagsCorrect`), and
  that of the early merge (`EarlyIsShown`). That the two values are the same for
  users and groups, although only one is expanded, is not a fact about the merges:
  it needs that a launch is refused when the text of one would have to be expanded,
  which `IdentityInv` below carries to the end of the chain (`RunsAsShownCorrect`).
* `Launch_proofs`, the launch. `LaunchShares`: every step of a launch is a step of
  the merge of sharings or leaves it alone, so that what is said of the merge
  holds of launches. `RunsIsolated` is about the end of the chain; `LaunchInv`
  adds, for each point of it, which namespaces have been made and by whom: none
  before the clone, that of users exactly by a clone that `set_shares` knew of,
  none twice (`LaunchInvCorrect`, a lemma for each group of actions).
  `MergedMeaning` translates what is merged into what the configurations say, and
  `RunsIsolatedCorrect` follows, for any family and any set of namespaces. In the
  same way `IdentityInv` says at each point which of group, user and label have
  been taken, which gives `RunsAsAskedCorrect`, and that past `Prepare` no user or
  group is asked for that nobody has. `Outcome` tells which results each end of a
  launch leaves (`DnfTellsCorrect`). `ReachInv` says until when the
  child has its capabilities; it gives `FailsWithinReachCorrect`, the half of
  `FailsForAReason` that is about the chain.
* `RecursionTheorems`. Induction over data comes in two facts about sets, so that
  no operator has to be passed: an equation `f[x] = D[x][f]` in which a value
  depends on those of lower rank only has a solution (`Recursion`), and a set that
  holds what it holds all of lower rank of is everything (`RankInduction`). Both
  rest on the least element of a set of numbers. This serves for each function
  of `Expand` and `Environment` that is defined by recursion on its argument.
* `Environment_proofs`, the types. `Expands` adds to the types what the stack of
  strings may look like (`Stacked`: only the first string runs commands, and a
  command under expansion is its next token), and which string it is the turn of.
  That buffers are kept needs that a path does not grow when it is cleaned
  (`CleanShortens`): elements joined are no longer than what they came from.
* `Environment_proofs`, the meaning. What strings mean is a recursive function;
  so is `DueTo`, what the stack still owes to the buffer. `Expanding` says that
  what is written and what is due, one behind the other, are what the string
  means, and `CommandReads` the same of the command under expansion. A name is
  looked into as often as there are names; that this is all it means is
  `NameMeaningIs`, by `NoLoop`. `Reads` says that no name in the stack that does
  not fit its buffer is there but on account of the first string. From these, an
  expansion that fails has a `Reason`, and one that ends has written the meaning.
  `Wholes` and `Saying` carry this through the list of variables
  (`VariablesWholeCorrect`), `Failing` with the lengths of paths so far
  (`LengthTo`) through failures; with `FailsWithinReachCorrect` this is
  `FailsForAReasonCorrect`.
* `Environment_proofs`, the paths. A string is cut at its colons into elements;
  what is joined again holds the first of each element, in order (`Nubbed`), and
  has the same elements when it is cut again (`JoinedNubs`, `CleanNubs`). `ListsTo`
  says that the elements of the buffer are those of the configurations read so
  far, in the order in which they are first said there, and `Ordered` that this is
  so at each place of the walk, also while the next string is expanded behind the
  buffer. `PathsInOrderCorrect` is its case at the end.
* `Exports_proofs`. `ExportsMerge`: making mounts is a step of the merge or
  leaves it alone, so that `MixWalk_proofs` holds of it (`ExportsKeepPromise`).
  That only what the launcher has made is given away is not inductive: `ChainInv`
  says that the directories to be made lead from one that exists to that of the
  export, and `MadeInv` that those made and not yet given away are on this chain.
  `LengthInv` says that the chain grows longer towards the export, so that its
  directories differ. From these come `GivesWhatItMadeCorrect`,
  `MountedExistsCorrect`, `AllDirsMountedCorrect` (with `AllMounted`) and, from
  the order of hand-over, `MountsInOrderCorrect`.
* `NodeTree_proofs`. `TreeKeepsFactory` carries over the theorems of the factory.
  `TreeInv` says that a node that was live when the scan began and is not found
  yet is below a directory still to be read or an entry still to come, which
  needs that files lie in directories and that live nodes stay so;
  `TreeIsCompleteCorrect` is its case at the end. `TreeFailsCorrect` assumes
  `Faults = {}` and uses that a truncated file is then one being written
  (`TornIsWritten`).
* `Cgroups_proofs`. `CgroupsTypeCorrect`: the groups are a tree, and launchers
  work on groups that are in it. `LimitsInForce` speaks of the end of
  `set_cgroups`; `LimitsInv` says of a launcher at level *i* where it is and that
  the levels passed have their settings in force. Other launchers must not undo
  that: they only add groups and share out more, and write a setting only at the
  group of the node that it belongs to (`Steady`). The last holds only if
  different nodes have groups of different names below one root (`NamesDiffer`),
  the hypothesis of `LimitsInvCorrect` and `LimitsInForceCorrect`.

  `OneHierarchy` and `ShelteredInLeaf` are cases of `HierInv`: a launcher never
  leaves its unit (`HomeAs`), all groups from the unit down to its own have their
  leaf, so that the climb of a later launcher goes on up to the unit and stops
  there (`HuntAs`, `NoneBeside`), and who began elsewhere than in a unit is in no
  list of processes to be moved (`ShelterAs`). `FairInv` is about failures:
  nobody but the launchers' own leaves is in the way below a unit (`SeatInv`), the
  list of processes in hand holds all that are in the root (`CalmAs`), and each
  request for controllers asks the group above for what the one before misses
  (`WorkAs`). An attempt to prove it showed the model to be wrong: a launcher
  started by a container, and not only a process that forks, may be born in the
  root group while it is emptied. `Spawn` now counts as a disturbance too.

The inductive invariants named above are proved and not listed in the runs; the
runs check what they are for.

Model-checked only:

* liveness (`Survivor`), which is beyond the prover;
* all of `MoveProcs`, whose run shows a violation.

## 7. Not modelled

See the components of `PROJECT.json` for each. In short:

* merge of whole configurations for display and dump (redconf-merge.c,
  redconf-dump.c): they copy and print, in order, what the merges hand over;
* the commands of `redconf`, the parsing of options and logs: no state;
* red-lib, the rpm plugin and the Python binding: glue, the work is done by
  libdnf, rpm and a macro;
* `RedUpdateStatus`, one store of the status with a date that nothing reads, and
  the environment set for a node;
* the look of `validateNode` at the state of each node, which refuses a launch and is
  part of `Prepare` as such, and where a node lies on the disk, a check that is
  switched off;
* the characters of the names of groups, and the values of their settings;
* cyaml, bwrap and the kernel themselves, but for what is said of them above.
