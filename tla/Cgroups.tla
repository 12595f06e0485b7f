------------------------------- MODULE Cgroups -------------------------------
(***************************************************************************)
(* How the programs that launch containers confine them with cgroups       *)
(* (src/red-wrap/cgroups.c, and the clone of src/red-wrap/redwrap-exec.c). *)
(*                                                                         *)
(* Every node has a group that holds its settings and, in it, a leaf that  *)
(* holds processes, because the kernel lets no group both hold processes   *)
(* and share controllers out to its children.  Launchers share the kernel's*)
(* tree of groups and take no lock: an action is a system call, or a run   *)
(* of calls that reads and writes nothing of another process.              *)
(*                                                                         *)
(* A group is its path below the mount point, a sequence of names.  The    *)
(* kernel is modelled as far as cgroups.c depends on it: mkdir, the lists  *)
(* of processes, the moves, cgroup.controllers, cgroup.subtree_control and *)
(* the settings.  Rights on the files are those of a delegated subtree.    *)
(***************************************************************************)
EXTENDS Naturals, Sequences, FiniteSets

CONSTANTS
    Launchers,    \* processes that run redwrap
    Others,       \* other processes of the same unit
    Start,        \* where each process begins: a group, a launcher whose
                  \* container starts it, or Unborn (to be forked)
    RootPath,     \* the option cgrouproot: a group, or NoPath
    Chain,        \* of a launcher: its nodes, from the root one to its own
    Need,         \* of a node: the controllers that its configurations set
    CgName,       \* of a node: the name of its group
    Controllers,  \* those of the kernel
    PidsLeaf,     \* the name of leaves, "redpak-pids-leaf"
    Granted,      \* controllers that the mount point gives its children
    Unborn, Gone, \* in place of the group of a process that does not live
    NoPath, NoNode

Procs == Launchers \cup Others
Nodes == UNION {{Chain[p][i] : i \in 1 .. Len(Chain[p])} : p \in Launchers}

\* A path below the mount point, and what there is in a group.
Path == Seq(STRING)
Group == [sub : SUBSET Controllers, limit : [Controllers -> Nodes \cup {NoNode}]]

ASSUME CgroupsAssumption ==
    /\ Launchers \cap Others = {}
    /\ "pids" \in Controllers /\ Granted \subseteq Controllers
    /\ \A p \in Launchers : Len(Chain[p]) > 0 /\ Chain[p] \in Seq(Nodes)
    /\ {Unborn, Gone} \cap Launchers = {} /\ Unborn # Gone
    /\ Unborn \notin Path /\ Gone \notin Path
    /\ \A n \in Nodes : Need[n] \subseteq Controllers /\ CgName[n] \in STRING
    /\ PidsLeaf \in STRING
    /\ \A q \in Procs : Start[q] \in Launchers \cup {Unborn} \/ Start[q] \in Path
    /\ RootPath = NoPath \/ RootPath \in Path

Top == << >>

VARIABLES
    tree,      \* the groups made: what each gives its children ("sub") and,
               \* per controller, the node whose settings it has ("limit")
    where,     \* the group of each process
    job,       \* the progress of each launcher
    box,       \* the group in which the container of a launcher was cloned
    disturbed  \* whether a process came or went behind the back of moveProcs

vars == <<tree, where, job, box, disturbed>>

Made == DOMAIN tree
Alive(q) == where[q] \notin {Unborn, Gone}
Members(g) == {q \in Procs : where[q] = g}
Parent(g) == SubSeq(g, 1, Len(g) - 1)
LeafOf(g) == Append(g, PidsLeaf)

\* The file cgroup.controllers of a group.
Avail(g) == IF g = Top THEN Controllers ELSE tree[Parent(g)].sub

Fresh == [sub |-> {}, limit |-> [c \in Controllers |-> NoNode]]

\* mkdir, where a group that exists already is as good.
Make(g) == tree' = [h \in Made \cup {g} |-> IF h \in Made THEN tree[h] ELSE Fresh]

-----------------------------------------------------------------------------
\* What the nodes below level i of a launcher require (the childmask), and
\* with it the controller that is always shared out.
Mask(p, i) == UNION {Need[Chain[p][j]] : j \in i + 1 .. Len(Chain[p])}
Expected(p, i) == Mask(p, i) \cup {"pids"}

\* Mutant: the leaf is taken for the root.
Stripped_Not(g) == g
\* length_without_pids_leaf: the path without the leaves at its end.
Stripped(g) ==
    SubSeq(g, 1, Cardinality({i \in 1 .. Len(g) : \E j \in i .. Len(g) : g[j] # PidsLeaf}))

Steps == {"start", "climb", "rootleaf", "open", "read", "move", "look", "grant",
          "mknode", "mkleaf", "conf", "enter", "clone", "done"}

Init ==
    /\ where = [q \in Procs |-> IF Start[q] \in Launchers THEN Unborn ELSE Start[q]]
    /\ tree = [g \in {Top} \cup UNION {{SubSeq(where[q], 1, i) : i \in 1 .. Len(where[q])} :
                                          q \in {r \in Procs : Alive(r)}}
                  |-> IF g = Top THEN [Fresh EXCEPT !.sub = Granted] ELSE Fresh]
    /\ job = [p \in Launchers |-> [step |-> "start", rc |-> "none", cur |-> Top, root |-> Top,
                                   level |-> 0, due |-> {}, seen |-> {}, todo |-> {}, ask |-> << >>]]
    /\ box = [p \in Launchers |-> Unborn]
    /\ disturbed = FALSE

At(p, s) == job[p].step = s
Upd(p, j) == job' = [job EXCEPT ![p] = j]

\* set_cgroups returns; its caller does not look at what, and goes on.
Returns(p, rc) == Upd(p, [job[p] EXCEPT !.step = "clone", !.rc = rc, !.todo = {}])

\* ensure_required_controllers is called on the current group.
Ensures(p, j) ==
    Upd(p, [j EXCEPT !.step = "look", !.todo = {}, !.due = {}, !.seen = {},
                     !.ask = <<[at |-> j.cur, mask |-> Expected(p, j.level)]>>])

\* prepare_root_cgroup has nothing to do when no node has a setting.
NothingToSet(p) ==
    /\ At(p, "start") /\ Alive(p)
    /\ Mask(p, 0) = {}
    /\ Returns(p, "ok")
    /\ UNCHANGED <<tree, where, box, disturbed>>

\* make_root_path begins with the group of the launcher or the option.
Begin(p) ==
    /\ At(p, "start") /\ Alive(p)
    /\ Mask(p, 0) # {}
    /\ LET g == Stripped(IF RootPath = NoPath THEN where[p] ELSE RootPath)
       IN  Upd(p, [job[p] EXCEPT !.step = "climb", !.cur = g, !.root = g])
    /\ UNCHANGED <<tree, where, box, disturbed>>

\* find_rednode_root: one round of its loop, up while there is a leaf.
Climb(p) ==
    /\ At(p, "climb")
    /\ LET g == job[p].cur
           leafy == LeafOf(g) \in Made
           root == IF leafy THEN g ELSE job[p].root
       IN  Upd(p, [job[p] EXCEPT !.root = root,
                                 !.cur  = IF leafy /\ g # Top THEN Parent(g) ELSE root,
                                 !.step = IF leafy /\ g # Top THEN "climb" ELSE "rootleaf"])
    /\ UNCHANGED <<tree, where, box, disturbed>>

\* Mutant: without paranoia, only who creates the leaf moves the processes.
RootLeaf_Trusting(p) ==
    /\ At(p, "rootleaf")
    /\ IF LeafOf(job[p].cur) \in Made
       THEN Ensures(p, job[p]) /\ UNCHANGED tree
       ELSE Make(LeafOf(job[p].cur)) /\ Upd(p, [job[p] EXCEPT !.step = "open"])
    /\ UNCHANGED <<where, box, disturbed>>
\* prepare_root_cgroup opens the root, then opens or creates its leaf.
RootLeaf(p) ==
    /\ At(p, "rootleaf")
    /\ IF job[p].cur \in Made
       THEN Make(LeafOf(job[p].cur)) /\ Upd(p, [job[p] EXCEPT !.step = "open"])
       ELSE Returns(p, "fail") /\ UNCHANGED tree
    /\ UNCHANGED <<where, box, disturbed>>
-----------------------------------------------------------------------------
\* moveProcs opens the list of the processes of the root.
OpenProcs(p) ==
    /\ At(p, "open")
    /\ Upd(p, [job[p] EXCEPT !.step = "read", !.due = Members(job[p].cur)])
    /\ UNCHANGED <<tree, where, box, disturbed>>

\* It reads the members not read yet ...
ReadProcs(p) ==
    /\ At(p, "read")
    /\ LET new == Members(job[p].cur) \ job[p].seen
       IN  /\ new # {}
           /\ Upd(p, [job[p] EXCEPT !.step = "move", !.todo = new, !.seen = @ \cup new])
    /\ UNCHANGED <<tree, where, box, disturbed>>

\* ... and moves them one by one; the write fails for one that has ended.
MoveProc(p) ==
    /\ At(p, "move")
    /\ \E q \in job[p].todo :
         IF where[q] = Gone
         THEN Returns(p, "fail") /\ UNCHANGED where
         ELSE /\ where' = [where EXCEPT ![q] = LeafOf(job[p].cur)]
              /\ Upd(p, [job[p] EXCEPT !.todo = @ \ {q},
                                       !.step = IF job[p].todo = {q} THEN "read" ELSE "move"])
    /\ UNCHANGED <<tree, box, disturbed>>

\* The end of the list; processes forked since it was opened may be missed.
AllMoved(p) ==
    /\ At(p, "read")
    /\ Members(job[p].cur) \cap job[p].due \subseteq job[p].seen
    /\ Ensures(p, job[p])
    /\ UNCHANGED <<tree, where, box, disturbed>>

-----------------------------------------------------------------------------
Asked(p) == job[p].ask[Len(job[p].ask)]

\* ensure_required_controllers: first ask the parent for what is missing.
Look(p) ==
    /\ At(p, "look")
    /\ LET missing == Asked(p).mask \ Avail(Asked(p).at)
       IN  CASE missing = {} -> Upd(p, [job[p] EXCEPT !.step = "grant"])
             [] missing # {} /\ Asked(p).at = Top -> Returns(p, "fail")
             [] OTHER -> Upd(p, [job[p] EXCEPT
                                   !.ask = Append(@, [at |-> Parent(Asked(p).at), mask |-> missing])])
    /\ UNCHANGED <<tree, where, box, disturbed>>

\* The kernel's conditions on a write to cgroup.subtree_control.
MayEnable(g, mask) == /\ mask \subseteq Avail(g)
                      /\ mask \subseteq tree[g].sub \/ Members(g) = {}

\* Mutant: one level too far.
Descends_Beyond(p, j) ==
    Upd(p, IF j.level > Len(Chain[p]) THEN [j EXCEPT !.step = "enter"]
           ELSE [j EXCEPT !.step = "mknode", !.level = @ + 1])
\* What follows the last grant at the current level.
Descends(p, j) ==
    Upd(p, IF j.level = Len(Chain[p]) THEN [j EXCEPT !.step = "enter"]
           ELSE [j EXCEPT !.step = "mknode", !.level = @ + 1])

\* add_required_subcontrollers, then back to the child that asked.
Grant(p) ==
    /\ At(p, "grant")
    /\ LET g == Asked(p).at
           j == [job[p] EXCEPT !.ask = SubSeq(@, 1, Len(@) - 1)]
       IN  IF MayEnable(g, Asked(p).mask)
           THEN /\ tree' = [tree EXCEPT ![g].sub = @ \cup Asked(p).mask]
                /\ IF j.ask = << >> THEN Descends(p, j) ELSE Upd(p, j)
           ELSE Returns(p, "fail") /\ UNCHANGED tree
    /\ UNCHANGED <<where, box, disturbed>>

-----------------------------------------------------------------------------
Own(p) == Chain[p][job[p].level]

\* Mutant: a group that exists is taken for one that is set up.
MakeNode_Trusting(p) ==
    /\ At(p, "mknode")
    /\ LET g == Append(job[p].cur, CgName[Own(p)])
       IN  /\ Make(g)
           /\ IF g \in Made THEN Ensures(p, [job[p] EXCEPT !.cur = g])
              ELSE Upd(p, [job[p] EXCEPT !.step = "mkleaf", !.cur = g])
    /\ UNCHANGED <<where, box, disturbed>>
\* prepare_middle_cgroup: the group of the node, ...
MakeNode(p) ==
    /\ At(p, "mknode")
    /\ LET g == Append(job[p].cur, CgName[Own(p)])
       IN  Make(g) /\ Upd(p, [job[p] EXCEPT !.step = "mkleaf", !.cur = g])
    /\ UNCHANGED <<where, box, disturbed>>

\* ... its leaf ...
MakeLeaf(p) ==
    /\ At(p, "mkleaf")
    /\ Make(LeafOf(job[p].cur))
    /\ Upd(p, [job[p] EXCEPT !.step = "conf"])
    /\ UNCHANGED <<where, box, disturbed>>

\* ... and its settings: those that can be written are, even when others fail.
Configure(p) ==
    /\ At(p, "conf")
    /\ LET g == job[p].cur
           set == Need[Own(p)] \cap Avail(g)
       IN  /\ tree' = [tree EXCEPT ![g].limit =
                          [c \in Controllers |-> IF c \in set THEN Own(p) ELSE @[c]]]
           /\ IF set = Need[Own(p)] THEN Ensures(p, job[p]) ELSE Returns(p, "fail")
    /\ UNCHANGED <<where, box, disturbed>>
\* Mutant: into the leaf of the root.
EnterLeaf_Root(p) ==
    /\ At(p, "enter")
    /\ where' = [where EXCEPT ![p] = LeafOf(job[p].root)]
    /\ Returns(p, "ok")
    /\ UNCHANGED <<tree, box, disturbed>>
\* enter_leaf_cgroup: the launcher moves itself.
EnterLeaf(p) ==
    /\ At(p, "enter")
    /\ where' = [where EXCEPT ![p] = LeafOf(job[p].cur)]
    /\ Returns(p, "ok")
    /\ UNCHANGED <<tree, box, disturbed>>

\* The child that becomes the container is born in the launcher's group.
Clone(p) ==
    /\ At(p, "clone")
    /\ box' = [box EXCEPT ![p] = where[p]]
    /\ Upd(p, [job[p] EXCEPT !.step = "done"])
    /\ UNCHANGED <<tree, where, disturbed>>

-----------------------------------------------------------------------------
\* The rest of the system.  A process born in the group that a launcher is
\* emptying disturbs it.
Born(q, g) ==
    /\ where' = [where EXCEPT ![q] = g]
    /\ disturbed' = (disturbed \/ \E p \in Launchers :
                        /\ job[p].step \in {"read", "move", "look", "grant"}
                        /\ job[p].level = 0 /\ job[p].root = g)
    /\ UNCHANGED <<tree, job, box>>

\* A container starts a launcher.
Spawn(p) ==
    /\ At(p, "start") /\ where[p] = Unborn
    /\ Start[p] \in Launchers /\ At(Start[p], "done")
    /\ Born(p, box[Start[p]])

\* A process is forked where another lives.  What is forked in a leaf is left
\* out: nobody reads its members.
Fork(q) ==
    /\ q \in Others /\ where[q] = Unborn
    /\ \E r \in Procs : Alive(r) /\ Stripped(where[r]) = where[r] /\ Born(q, where[r])

\* A process ends, a launcher once its container has; it disturbs who has
\* its number in hand.
End(q) ==
    /\ Alive(q) /\ (q \in Launchers => At(q, "done"))
    /\ where' = [where EXCEPT ![q] = Gone]
    /\ disturbed' = (disturbed \/ \E p \in Launchers : q \in job[p].todo)
    /\ UNCHANGED <<tree, job, box>>

Launch(p) ==
    \/ NothingToSet(p) \/ Begin(p) \/ Climb(p) \/ RootLeaf(p)
    \/ OpenProcs(p) \/ ReadProcs(p) \/ MoveProc(p) \/ AllMoved(p)
    \/ Look(p) \/ Grant(p)
    \/ MakeNode(p) \/ MakeLeaf(p) \/ Configure(p)
    \/ EnterLeaf(p) \/ Clone(p)

Next == \/ \E p \in Launchers : Launch(p) \/ Spawn(p)
        \/ \E q \in Procs : Fork(q) \/ End(q)

Spec == Init /\ [][Next]_vars

-----------------------------------------------------------------------------
\* The variables keep their types; the kernel holds a tree; where a launcher
\* works, and whom it asks for controllers, are groups of that tree.
Job == [step : Steps, rc : {"none", "ok", "fail"}, level : Nat,
        cur : Path, root : Path, due : SUBSET Procs, seen : SUBSET Procs,
        todo : SUBSET Procs, ask : Seq([at : Path, mask : SUBSET Controllers])]

TypeOK ==
    /\ tree \in [Made -> Group] /\ Made \subseteq Path /\ Top \in Made
    /\ \A g \in Made : g = Top \/ Parent(g) \in Made
    /\ where \in [Procs -> Made \cup {Unborn, Gone}]
    /\ job \in [Launchers -> Job]
    /\ \A p \in Launchers :
         /\ job[p].level \in 0 .. Len(Chain[p])
         /\ job[p].step \notin {"start", "climb", "rootleaf", "clone", "done"} => job[p].cur \in Made
         /\ job[p].step \in {"look", "grant"} => job[p].ask # << >>
         /\ \A i \in 1 .. Len(job[p].ask) : job[p].ask[i].at \in Made
    /\ box \in [Launchers -> Made \cup {Unborn, Gone}]
    /\ disturbed \in BOOLEAN

Found(p) == ~(At(p, "start") \/ At(p, "climb")) /\ Mask(p, 0) # {}

\* Launchers of one unit build one hierarchy: those that began in a group or
\* in its leaf, and those that containers started in turn, find one root,
\* whoever made leaves and moved processes meanwhile (find_rednode_root,
\* length_without_pids_leaf).
OneHierarchy ==
    \A p, q \in Launchers :
        /\ Found(p) /\ Found(q)
        /\ \/ Start[p] = q
           \/ /\ {Start[p], Start[q]} \cap Launchers = {}
              /\ Stripped(Start[p]) = Stripped(Start[q])
        => job[p].root = job[q].root

\* The group of the i-th node of a launcher.
GroupOf(p, i) == job[p].root \o [k \in 1 .. i |-> CgName[Chain[p][k]]]

\* The settings of that node are in force: the controllers are there, with the
\* node's values.
InForce(p, i) ==
    /\ GroupOf(p, i) \in Made
    /\ \A c \in Need[Chain[p][i]] :
         /\ c \in Avail(GroupOf(p, i))
         /\ tree[GroupOf(p, i)].limit[c] = Chain[p][i]

Confined(p) == job[p].rc = "ok" /\ Mask(p, 0) # {}

\* When set_cgroups returns 0, every node of the launcher, its ancestors
\* included, has its settings in force, whatever other launchers do to the
\* groups they share.
LimitsInForce ==
    \A p \in Launchers : Confined(p) => \A i \in 1 .. Len(Chain[p]) : InForce(p, i)

\* The names of different nodes differ: paths are taken that do so in more than
\* slashes and dashes and, under administrators, in more than what the suffix
\* is copied over.
NamesDiffer == \A m, n \in Nodes : CgName[m] = CgName[n] => m = n

\* The invariant that carries LimitsInForce: a launcher is in the group of its
\* level, and those of the levels passed have their settings in force.
PlaceInv(p) ==
    /\ job[p].step \notin {"clone", "done"} => job[p].rc = "none"
    /\ job[p].step \in {"start", "climb", "rootleaf", "open", "read", "move"} => job[p].level = 0
    /\ job[p].step \in {"rootleaf", "open", "read", "move"} => job[p].cur = job[p].root
    /\ job[p].step \in {"look", "grant", "mkleaf", "conf", "enter"} => job[p].cur = GroupOf(p, job[p].level)
    /\ job[p].step \in {"mknode", "mkleaf", "conf"} => job[p].level > 0
    /\ job[p].step = "mknode" => job[p].cur = GroupOf(p, job[p].level - 1)
    /\ job[p].step = "enter" \/ Confined(p) => job[p].level = Len(Chain[p])

Passed(p, i) ==
    \/ i < job[p].level
    \/ i = job[p].level /\ (job[p].step \in {"look", "grant", "enter"} \/ Confined(p))

LimitsInv ==
    \A p \in Launchers :
        PlaceInv(p) /\ \A i \in 1 .. Len(Chain[p]) : Passed(p, i) => InForce(p, i)

InItsLeaf(p) == box[p] = LeafOf(GroupOf(p, Len(Chain[p])))

Began(p) == IF Start[p] \in Launchers THEN box[Start[p]] ELSE Start[p]

\* The container of a launcher that did not begin in the root group itself
\* is born in the leaf of its node: no list that moveProcs reads holds it.
ShelteredInLeaf ==
    \A p \in Launchers :
        Confined(p) /\ At(p, "done") /\ Began(p) # job[p].root => InItsLeaf(p)

\* After preparing all the hierarchy for the target node, set_cgroups "moves
\* the current process in that node": the container should be born there.
ContainerInItsNode ==
    \A p \in Launchers : Confined(p) /\ At(p, "done") => InItsLeaf(p)

\* Launchers do not make each other fail: with controllers that can be had,
\* set_cgroups fails only if a process was born in the root group while it
\* was emptied, or ended between the read of its number and its move.
FailsOnlyIfDisturbed ==
    \A p \in Launchers : job[p].rc = "fail" => disturbed
=============================================================================
