------------------------------ MODULE NodeFactory ------------------------------
(***************************************************************************)
(* Creation and update of rednodes on disk, and the scan that reads them.  *)
(*                                                                         *)
(* A node is a directory holding three files: its configuration            *)
(* (etc/redpak.yaml, "conf" here), its administrator's configuration       *)
(* (etc/redpak-admin.yaml, "admin") and its status (.rednode.yaml,         *)
(* "status").  rednode_factory_create_node() makes or refreshes them with  *)
(* a sequence of system calls that nothing protects: other tools run at    *)
(* the same time, and the tool may die, or a call fail, between any two.   *)
(* RedNodesScan() reads a leaf and its ancestors with as little            *)
(* protection.  One action below is one system call.                       *)
(***************************************************************************)
EXTENDS Integers, Sequences

CONSTANTS
  Nodes,      \* node directories
  Lineage,    \* Lineage[n]: the directories from the redpak root to n, n last
  Existing,   \* nodes that are complete when the behaviour starts
  OldNames,   \* existing nodes stored under the legacy names etc/redpack*.yaml
  Procs,      \* tools that create and update nodes
  Readers,    \* programs that scan nodes
  MaxOps,     \* bound on the number of creations and updates
  Updates,    \* values of the `update' argument in use
  Modes,      \* values of the `mode' argument in use
  Faults      \* "crash": a tool may be killed; "io": a system call may fail

ASSUME LineageAssumption ==
  /\ Lineage \in [Nodes -> Seq(Nodes)]
  /\ \A n \in Nodes : Len(Lineage[n]) > 0 /\ Lineage[n][Len(Lineage[n])] = n

(* The lineages of nodes are paths: what leads to an ancestor begins them.  *)
ASSUME PathsAssumption ==
  \A n \in Nodes : \A i \in 1..Len(Lineage[n]) :
    Lineage[Lineage[n][i]] = SubSeq(Lineage[n], 1, i)

ASSUME NodesAssumption ==
  /\ Nodes # {}
  /\ OldNames \subseteq Existing
  /\ Existing \subseteq Nodes
  /\ MaxOps \in Nat
  /\ Updates \subseteq BOOLEAN
  /\ Modes \subseteq {"Default", "Legacy"}

VARIABLES
  dirs,    \* the directories that exist
  file,    \* file[k][n]: the file of kind k of node n
  call,    \* call[p]: what the call of rednode_factory_create_node() works on
  pc,      \* pc[p]: where it is
  ret,     \* ret[p]: what the last call of the tool returned
  begun,   \* number of calls begun; also names the identity each one forges
  scan     \* scan[r]: the progress of RedNodesScan() in program r

vars == <<dirs, file, call, pc, ret, begun, scan>>

-----------------------------------------------------------------------------
(* Files.  A torn one was emptied by fopen, or is cut where it cannot be   *)
(* parsed: nothing can be read of it.  A cut configuration is the first    *)
(* part of one, and can be parsed.  `name' is the identity (uuid) found in *)
(* the headers, which come first; `rev' the call that produced the body.   *)

Kinds == {"conf", "admin", "status"}

Configs == {"conf", "admin"}

NoName == -1

NoFile == [st |-> "absent", name |-> NoName, rev |-> 0]
TornFile == [st |-> "torn", name |-> NoName, rev |-> 0]

File == {NoFile, TornFile} \union [st : {"cut", "whole"}, name : Nat, rev : Nat]

OldFile == [st |-> "whole", name |-> 0, rev |-> 0]

AnyNode == CHOOSE n \in Nodes : TRUE

Exists(k, n) == file[k][n].st # "absent"

(* Directories: the one of each node, and etc below it.                    *)
Dir == Nodes \X {"node", "etc"}

NodePath(n) == [i \in 1..Len(Lineage[n]) |-> <<Lineage[n][i], "node">>]

-----------------------------------------------------------------------------
(* Progress of a call.                                                     *)

Stages == {"hdr_conf", "hdr_admin", "dirs", "save_conf", "save_admin", "save_status"}

KindOf(stage) == CASE stage \in {"hdr_conf", "save_conf"} -> "conf"
                   [] stage \in {"hdr_admin", "save_admin"} -> "admin"
                   [] OTHER -> "status"

(* The directory components a stage makes sure of: store_config and        *)
(* update_config_headers want the parent of the file, create_node the node *)
PathOf(stage, n) == IF KindOf(stage) = "status"
                      THEN NodePath(n)
                      ELSE Append(NodePath(n), <<n, "etc">>)

(* Mutant: the administrator's configuration is not stored.                *)
After_NoAdmin(stage) == CASE stage = "hdr_conf"   -> "hdr_admin"
                          [] stage = "hdr_admin"  -> "dirs"
                          [] stage = "dirs"       -> "save_conf"
                          [] OTHER                -> "save_status"

After(stage) == CASE stage = "hdr_conf"   -> "hdr_admin"
                  [] stage = "hdr_admin"  -> "dirs"
                  [] stage = "dirs"       -> "save_conf"
                  [] stage = "save_conf"  -> "save_admin"
                  [] stage = "save_admin" -> "save_status"

(* What a stage does once its directories exist.                           *)
Work(stage) == CASE stage \in {"hdr_conf", "hdr_admin"}   -> "load"
                 [] stage \in {"save_conf", "save_admin"} -> "check"
                 [] stage = "save_status"                 -> "open"

(* Mutants: an update does not reload the headers; the test is inverted.   *)
FirstStage_NoReload(update) == "dirs"
FirstStage_Inverted(update) == IF update THEN "dirs" ELSE "hdr_conf"

FirstStage(update) == IF update THEN "hdr_conf" ELSE "dirs"

Call == [node : Nodes,      \* the node asked for
         at   : Nodes,      \* the node being made: `node', or the parent it lacks
         update : BOOLEAN,
         id   : Nat,
         hdr  : [Kinds -> Nat]]   \* identities to be written

PC == [stage : Stages \union {"idle", "parent"},
       step  : {"stat", "mkdir", "load", "check", "open", "write"},
       mk    : Nat]         \* at "mkdir": the next directory component to make

(* create_root_node always creates                                         *)
Updating(p) == call[p].update /\ call[p].at = call[p].node

Goto(p, stage, step) == pc' = [pc EXCEPT ![p] = [stage |-> stage, step |-> step, mk |-> 0]]

Enter(p, stage) == Goto(p, stage, "stat")

(* On to what a stage does once its directories are there: "dirs" has      *)
(* nothing else to do.                                                     *)
EnterWork(p) == IF pc[p].stage = "dirs"
                  THEN Enter(p, After("dirs"))
                  ELSE Goto(p, pc[p].stage, Work(pc[p].stage))

Return(p, rc) ==
  /\ Enter(p, "idle")
  /\ ret' = [ret EXCEPT ![p] = rc]

Error_Root_Not_Exist   == -5
Error_MkDir            == 8    \* returned without the minus sign of the others
Error_No_Template      == -12
Error_Config_Exist     == -14
Error_Storing_Config   == -15
Error_Storing_Status   == -17
Error_At_Root          == -18
Error_Config_Not_Exist == -19

ReturnCodes == {0, 8, -5, -12, -14, -15, -17, -18, -19}

-----------------------------------------------------------------------------
Init ==
  /\ dirs = {d \in Dir : \E n \in Nodes :
               \/ d = <<Lineage[n][1], "node">>
               \/ n \in Existing /\ d = <<n, "etc">>
               \/ n \in Existing /\ \E i \in 1..Len(Lineage[n]) : d = <<Lineage[n][i], "node">>}
  /\ file = [k \in Kinds |-> [n \in Nodes |->
               IF n \in Existing /\ (k = "status" \/ n \notin OldNames)
                 THEN OldFile ELSE NoFile]]
  /\ call = [p \in Procs |-> [node |-> AnyNode, at |-> AnyNode, update |-> FALSE,
                              id |-> 0, hdr |-> [k \in Kinds |-> 0]]]
  /\ pc = [p \in Procs |-> [stage |-> "idle", step |-> "stat", mk |-> 0]]
  /\ ret = [p \in Procs |-> 0]
  /\ begun = 0
  /\ scan = [r \in Readers |-> [step |-> "idle", node |-> AnyNode, pos |-> 1,
                                conf |-> NoFile, seen |-> {}]]

(* rednode_factory_create_node: arguments are taken, and headers forged    *)
(* for a creation.  Legacy mode first looks at the parent directory.       *)
Begin(p, n, update, mode) ==
  /\ pc[p].stage = "idle"
  /\ begun < MaxOps
  /\ begun' = begun + 1
  /\ call' = [call EXCEPT ![p] = [node |-> n, at |-> n, update |-> update,
                                  id |-> begun + 1, hdr |-> [k \in Kinds |-> begun + 1]]]
  /\ Enter(p, IF mode = "Legacy" THEN "parent" ELSE FirstStage(update))
  /\ UNCHANGED <<dirs, file, ret, scan>>

(* Mutant: a parent that is not a rednode is accepted.                     *)
LookParent_Accepts(p) ==
  /\ pc[p].stage = "parent"
  /\ Enter(p, FirstStage(call[p].update))
  /\ UNCHANGED <<dirs, file, call, ret, begun, scan>>

(* Legacy mode: the parent directory must be a rednode or become one.      *)
LookParent(p) ==
  LET line == Lineage[call[p].node]
      parent == line[Len(line) - 1]
  IN /\ pc[p].stage = "parent"
     /\ \/ /\ Len(line) = 1
           /\ Return(p, Error_At_Root)
           /\ UNCHANGED call
        \/ /\ Len(line) > 1
           /\ Exists("status", parent)
           /\ Enter(p, FirstStage(call[p].update))
           /\ UNCHANGED <<call, ret>>
        \/ /\ Len(line) > 1
           /\ ~ Exists("status", parent)
           /\ call' = [call EXCEPT ![p] = [@ EXCEPT !.at = parent]]
           /\ Enter(p, FirstStage(FALSE))
           /\ UNCHANGED ret
     /\ UNCHANGED <<dirs, file, begun, scan>>

(* The alias is invalid, or a template missing or wrong: nothing has been  *)
(* stored yet.  An update loads each template before the file it refreshes.*)
NoTemplate(p) ==
  /\ "io" \in Faults
  /\ pc[p].stage \in {"hdr_conf", "hdr_admin"} \/ (pc[p].stage = "dirs" /\ ~ Updating(p))
  /\ pc[p].step = "stat"
  /\ Return(p, Error_No_Template)
  /\ UNCHANGED <<dirs, file, call, begun, scan>>

(* create_directories, make_directories: components are stat'ed until one  *)
(* is missing; from there on each is made without looking again.           *)
StatDirs(p) ==
  LET path == PathOf(pc[p].stage, call[p].at)
  IN /\ pc[p].stage \in Stages
     /\ pc[p].step = "stat"
     /\ \/ /\ path[1] \notin dirs
           /\ Return(p, Error_Root_Not_Exist)
        \/ /\ \E k \in 2..Len(path) :
                /\ \A j \in 1..(k - 1) : path[j] \in dirs
                /\ path[k] \notin dirs
                /\ pc' = [pc EXCEPT ![p] = [stage |-> @.stage, step |-> "mkdir", mk |-> k]]
           /\ UNCHANGED ret
        \/ /\ \A j \in 1..Len(path) : path[j] \in dirs
           /\ EnterWork(p)
           /\ UNCHANGED ret
     /\ UNCHANGED <<dirs, file, call, begun, scan>>

(* A component another tool made since is an error (EEXIST), as any other. *)
MakeDir(p) ==
  LET path == PathOf(pc[p].stage, call[p].at)
      k == pc[p].mk
  IN /\ pc[p].step = "mkdir"
     /\ \/ /\ path[k] \in dirs \/ "io" \in Faults
           /\ Return(p, Error_MkDir)
           /\ UNCHANGED dirs
        \/ /\ path[k] \notin dirs
           /\ dirs' = dirs \union {path[k]}
           /\ \/ /\ k < Len(path)
                 /\ pc' = [pc EXCEPT ![p] = [stage |-> @.stage, step |-> "mkdir", mk |-> k + 1]]
              \/ /\ k = Len(path)
                 /\ EnterWork(p)
           /\ UNCHANGED ret
     /\ UNCHANGED <<file, call, begun, scan>>

(* RedLoadConfig: whether a read of file f gives a configuration.          *)
Loads(f) == f.st \in {"cut", "whole"}
LoadFails(f) == f.st \in {"absent", "torn"}

(* update_config_headers: the identity of the existing file is kept.       *)
LoadHeaders(p) ==
  LET k == KindOf(pc[p].stage)
      f == file[k][call[p].at]
  IN /\ pc[p].step = "load"
     /\ \/ /\ LoadFails(f)
           /\ Return(p, Error_Config_Not_Exist)
           /\ UNCHANGED call
        \/ /\ Loads(f)
           /\ call' = [call EXCEPT ![p].hdr = [call[p].hdr EXCEPT ![k] = f.name]]
           /\ Enter(p, After(pc[p].stage))
           /\ UNCHANGED ret
     /\ UNCHANGED <<dirs, file, begun, scan>>

(* Mutant: the file is opened without a look.                              *)
CheckAbsent_Blind(p) ==
  /\ pc[p].step = "check"
  /\ Goto(p, pc[p].stage, "open")
  /\ UNCHANGED <<dirs, file, call, ret, begun, scan>>

(* store_config: "check no unexpected overwrite"                           *)
CheckAbsent(p) ==
  LET present == Exists(KindOf(pc[p].stage), call[p].at)
  IN /\ pc[p].step = "check"
     /\ \/ /\ ~ Updating(p) /\ present
           /\ Return(p, Error_Config_Exist)
        \/ /\ Updating(p) \/ ~ present
           /\ Goto(p, pc[p].stage, "open")
           /\ UNCHANGED ret
     /\ UNCHANGED <<dirs, file, call, begun, scan>>

StoreError(stage) ==
  IF stage = "save_status" THEN Error_Storing_Status ELSE Error_Storing_Config

Store(p, st) ==
  LET k == KindOf(pc[p].stage)
      f == IF st = "torn" THEN TornFile
                          ELSE [st |-> st, name |-> call[p].hdr[k], rev |-> call[p].id]
  IN file' = [file EXCEPT ![k] = [@ EXCEPT ![call[p].at] = f]]

(* RedSaveConfig, RedSaveStatus: fopen(path, "w") empties the file.  What  *)
(* it held is in the memory of the tool only, as far as that took it over. *)
(* A save that fails is tried once more, as is a load: the first try leaves *)
(* what a later step could, so only the last try is a step here.           *)
OpenFile(p) ==
  /\ pc[p].step = "open"
  /\ \/ /\ "io" \in Faults
        /\ Return(p, StoreError(pc[p].stage))
        /\ UNCHANGED file
     \/ /\ Store(p, "torn")
        /\ Goto(p, pc[p].stage, "write")
        /\ UNCHANGED ret
  /\ UNCHANGED <<dirs, call, begun, scan>>

(* A configuration larger than a buffer is flushed part by part.  A status *)
(* is smaller, and has no part that can be parsed: its last field is asked *)
(* for.                                                                    *)
WritePart(p) ==
  /\ pc[p].step = "write"
  /\ pc[p].stage # "save_status"
  /\ \E st \in {"torn", "cut"} : Store(p, st)
  /\ UNCHANGED <<dirs, call, pc, ret, begun, scan>>

(* The flush of what is left at close makes the file whole.                *)
WriteFile(p) ==
  LET last == pc[p].stage = "save_status"
      node == call[p].node
  IN /\ pc[p].step = "write"
     /\ \/ /\ "io" \in Faults
           /\ Return(p, StoreError(pc[p].stage))
           /\ UNCHANGED <<file, call>>
        \/ /\ Store(p, "whole")
           /\ \/ /\ ~ last
                 /\ Enter(p, After(pc[p].stage))
                 /\ UNCHANGED <<call, ret>>
              \/ /\ last /\ call[p].at = node
                 /\ Return(p, 0)
                 /\ UNCHANGED call
              \/ /\ last /\ call[p].at # node      \* the parent is made, now the node
                 /\ call' = [call EXCEPT ![p] = [@ EXCEPT !.at = node]]
                 /\ Enter(p, FirstStage(call[p].update))
                 /\ UNCHANGED ret
     /\ UNCHANGED <<dirs, begun, scan>>

(* The tool is killed: its memory is lost, the files stay as they are.     *)
Crash(p) ==
  /\ "crash" \in Faults
  /\ pc[p].stage # "idle"
  /\ Enter(p, "idle")
  /\ UNCHANGED <<dirs, file, call, ret, begun, scan>>

-----------------------------------------------------------------------------
(* RedNodesScan: the leaf, then every ancestor directory that is a node.   *)

Scan == [step : {"idle", "status", "conf", "admin", "ok", "fx"},
         node : Nodes,    \* the leaf
         pos  : Nat,      \* where the scan is in Lineage[node]
         conf : File,     \* the configuration read at that place
         seen : SUBSET [node : Nodes, conf : File, admin : File]]   \* nodes loaded

ScanStart(r, n) ==
  /\ scan[r].step \in {"idle", "ok", "fx"}
  /\ scan' = [scan EXCEPT ![r] = [step |-> "status", node |-> n,
                                  pos |-> Len(Lineage[n]), conf |-> NoFile, seen |-> {}]]
  /\ UNCHANGED <<dirs, file, call, pc, ret, begun>>

ScanAt(r) == Lineage[scan[r].node][scan[r].pos]

Stop(r) == scan' = [scan EXCEPT ![r] = [@ EXCEPT !.step = "fx"]]

(* Mutant: the redpak root is not recognised as the last ancestor.         *)
Upward_NoTop(r, seen) ==
  scan' = [scan EXCEPT ![r] =
             [step |-> "status", node |-> @.node, pos |-> @.pos - 1,
              conf |-> NoFile, seen |-> seen]]

(* The next ancestor, or the end of the scan, with what has been loaded.   *)
Upward(r, seen) ==
  scan' = [scan EXCEPT ![r] =
             [step |-> IF @.pos = 1 THEN "ok" ELSE "status", node |-> @.node,
              pos |-> IF @.pos = 1 THEN 1 ELSE @.pos - 1, conf |-> NoFile, seen |-> seen]]

(* No status file: fatal for the leaf, an ancestor is just not a node.     *)
ScanStatus(r) ==
  LET f == file["status"][ScanAt(r)]
  IN /\ scan[r].step = "status"
     /\ \/ /\ f.st = "torn" \/ (f.st = "absent" /\ ScanAt(r) = scan[r].node)
           /\ Stop(r)
        \/ /\ f.st = "absent" /\ ScanAt(r) # scan[r].node
           /\ Upward(r, scan[r].seen)
        \/ /\ f.st = "whole"
           /\ scan' = [scan EXCEPT ![r] = [@ EXCEPT !.step = "conf"]]
     /\ UNCHANGED <<dirs, file, call, pc, ret, begun>>

(* The legacy name is tried when the present one does not exist.           *)
Found(k, n) == IF ~ Exists(k, n) /\ n \in OldNames THEN OldFile ELSE file[k][n]

ScanConf(r) ==
  LET n == ScanAt(r)
      f == Found("conf", n)
  IN /\ scan[r].step = "conf"
     /\ \/ /\ LoadFails(f)
           /\ Stop(r)
        \/ /\ Loads(f)
           /\ scan' = [scan EXCEPT ![r] = [@ EXCEPT !.step = "admin", !.conf = f]]
     /\ UNCHANGED <<dirs, file, call, pc, ret, begun>>

(* A node without administrator's file is accepted, without restrictions.  *)
ScanAdmin(r) ==
  LET n == ScanAt(r)
      f == Found("admin", n)
  IN /\ scan[r].step = "admin"
     /\ \/ /\ f.st # "absent" /\ LoadFails(f)
           /\ Stop(r)
        \/ /\ f.st = "absent" \/ Loads(f)
           /\ Upward(r, scan[r].seen
                          \union {[node |-> n, conf |-> scan[r].conf, admin |-> f]})
     /\ UNCHANGED <<dirs, file, call, pc, ret, begun>>

-----------------------------------------------------------------------------
Tool(p) == \/ LookParent(p) \/ NoTemplate(p) \/ StatDirs(p) \/ MakeDir(p)
           \/ LoadHeaders(p) \/ CheckAbsent(p) \/ OpenFile(p) \/ WriteFile(p)

Reader(r) == ScanStatus(r) \/ ScanConf(r) \/ ScanAdmin(r)

Next ==
  \/ \E p \in Procs :
       \/ \E n \in Nodes, update \in Updates, mode \in Modes : Begin(p, n, update, mode)
       \/ Tool(p) \/ WritePart(p)
       \/ Crash(p)
  \/ \E r \in Readers :
       \/ \E n \in Nodes : ScanStart(r, n)
       \/ Reader(r)

Spec == Init /\ [][Next]_vars

-----------------------------------------------------------------------------
(* Properties.                                                             *)

(* A step belongs to the stages that have it.                              *)
StagesWith(step) ==
  CASE step = "stat"  -> Stages \union {"idle", "parent"}
    [] step = "mkdir" -> Stages
    [] step = "load"  -> {"hdr_conf", "hdr_admin"}
    [] step = "check" -> {"save_conf", "save_admin"}
    [] OTHER          -> {"save_conf", "save_admin", "save_status"}

PlaceOK(p) ==
  /\ pc[p].stage \in StagesWith(pc[p].step)
  /\ pc[p].step = "mkdir" => pc[p].mk \in 2..Len(PathOf(pc[p].stage, call[p].at))

(* The variables keep their types, a call is at a step its stage has, and  *)
(* the indices into paths and lineages stay inside them.                   *)
TypeOK ==
  /\ dirs \subseteq Dir
  /\ file \in [Kinds -> [Nodes -> File]]
  /\ call \in [Procs -> Call]
  /\ pc \in [Procs -> PC]
  /\ ret \in [Procs -> ReturnCodes]
  /\ begun \in Nat
  /\ scan \in [Readers -> Scan]
  /\ \A p \in Procs : PlaceOK(p)
  /\ \A r \in Readers : scan[r].pos \in 1..Len(Lineage[scan[r].node])

(* The status is the last file made: a directory that has one, and so is   *)
(* taken for a node, has both configurations, whatever tools ran together, *)
(* died or failed (nodes under the legacy names put aside).                *)
StatusComesLast ==
  \A n \in Nodes \ OldNames :
    Exists("status", n) => Exists("conf", n) /\ Exists("admin", n)

(* The invariant that carries StatusComesLast and ScanHasAdmin: a call at  *)
(* a stage has made the files of the stages before, and a file once made   *)
(* never goes away.                                                        *)
FilesBefore(p) ==
  /\ pc[p].stage \in {"save_admin", "save_status"} => Exists("conf", call[p].at)
  /\ pc[p].stage = "save_status" => Exists("admin", call[p].at)
  /\ pc[p].step = "write" => Exists(KindOf(pc[p].stage), call[p].at)

StagesInOrder == \A p \in Procs : FilesBefore(p)

ScanInOrder ==
  \A r \in Readers : scan[r].step \in {"conf", "admin"} => Exists("status", ScanAt(r))

(* A scan never loads a node without its administrator's restrictions,     *)
(* which RedNodesLoad would accept without a word.                         *)
ScanHasAdmin ==
  \A r \in Readers : \A e \in scan[r].seen :
    e.node \notin OldNames => e.admin.st # "absent"

IInv == StagesInOrder /\ StatusComesLast /\ ScanInOrder /\ ScanHasAdmin

(* When tools run one at a time, beside a scan, it never loads together    *)
(* configurations of two origins, nor a part of a configuration that a     *)
(* creation, not an update, is writing or has left: the status is not      *)
(* there yet.                                                              *)
ScanIsConsistent ==
  \A r \in Readers : \A e \in scan[r].seen :
    /\ e.conf.name = e.admin.name
    /\ \A f \in {e.conf, e.admin} : f.st = "cut" => f.rev # f.name

Live(n) == Exists("conf", n) /\ Exists("admin", n) /\ Exists("status", n)

Writing(p, k, n) == pc[p].step = "write" /\ KindOf(pc[p].stage) = k /\ call[p].at = n

(* The identity of a configuration: the one it bears, or else the one that *)
(* the tool which has just emptied it will write.  There may be none.      *)
Identity(k, n) ==
  IF Loads(file[k][n]) THEN {file[k][n].name}
                       ELSE {call[p].hdr[k] : p \in {q \in Procs : Writing(q, k, n)}}

(* A configuration of a live node keeps its identity: an update writes the *)
(* uuid it found, a creation is refused.  The one exception is an update   *)
(* that dies, or fails, while it writes: it may leave a file without any   *)
(* identity, for good.                                                     *)
IdentityKept ==
  [][\A n \in Nodes, k \in Configs : Live(n) =>
       \/ Identity(k, n)' = Identity(k, n)
       \/ /\ Identity(k, n)' = {}
          /\ \E p \in Procs : Writing(p, k, n) /\ pc'[p].stage = "idle"]_vars

(* A call that died or failed may leave a directory whose configuration    *)
(* exists while one of the two cannot be loaded: half created, or emptied  *)
(* by an update.  Neither creations (the file exists) nor updates (nothing *)
(* loads) can mend it: once no call is at work on it, it stays so.         *)
Broken(n) == Exists("conf", n) /\ \E k \in Configs : LoadFails(file[k][n])

Quiet(n) == \A p \in Procs : pc[p].stage # "idle" => call[p].at # n /\ call[p].node # n

BrokenForever == \A n \in Nodes : [](Broken(n) /\ Quiet(n) => []Broken(n))

(* Legacy mode makes a parent before its child: no child has a             *)
(* configuration when its parent directory has no status.  That parent is  *)
(* made without a look at its own parent (create_root_node), so that this  *)
(* is said of trees whose nodes to be made are not more than two deep.     *)
ParentFirst ==
  \A n \in Nodes \ Existing : Exists("conf", n) /\ Len(Lineage[n]) > 1 =>
    Exists("status", Lineage[n][Len(Lineage[n]) - 1])

(* Tools that run one at a time implement NodeLifecycle: fopen of the      *)
(* first configuration claims, that of the status publishes, the           *)
(* configurations bear the identity of the claim, and a directory is lost  *)
(* when one of them bears none and nobody is writing it.                   *)
Lost(n) == \E k \in Configs : Exists(k, n) /\ Identity(k, n) = {}

PhaseOf(n) == IF ~ Exists("conf", n) THEN "void"
              ELSE IF Lost(n) THEN "lost"
              ELSE IF Exists("status", n) THEN "live" ELSE "claimed"

IdentOf(n) == IF Lost(n) THEN {} ELSE Identity("conf", n) \union Identity("admin", n)

Lifecycle == INSTANCE NodeLifecycle WITH
  Ids <- 0..MaxOps,
  phase <- [n \in Nodes |-> PhaseOf(n)],
  ident <- [n \in Nodes |-> IdentOf(n)]

ImplementsLifecycle == Lifecycle!Spec

(* store_config: "check no unexpected overwrite".  A call that may not     *)
(* update never truncates a configuration that is there.                   *)
NoUnexpectedOverwrite ==
  [][\A p \in Procs :
       OpenFile(p) /\ pc[p].stage # "save_status" /\ ~ Updating(p)
         => ~ Exists(KindOf(pc[p].stage), call[p].at)]_vars

(* Concurrent creations spoil each other: each fails on a directory or a   *)
(* file the other just made.  But not all of them: when none updates or is *)
(* killed and no call of the system fails, one of those that make a new    *)
(* node gets one live.                                                     *)
Survivor ==
  (\E p \in Procs : pc[p].stage \in Stages /\ call[p].node \notin Existing)
    ~> (\E n \in Nodes \ Existing : Live(n))
=============================================================================
