------------------------------- MODULE NodeTree -------------------------------
(***************************************************************************)
(* RedNodesDownScan: the tree of the nodes below a directory, read from    *)
(* the disk while tools make nodes.  A directory is read entry by entry,   *)
(* each one loaded at once; only then are the directories of the children  *)
(* read in the same way, which the code does by recursion and a stack does *)
(* here.  A directory that is no node is left out, with all below it.      *)
(***************************************************************************)
EXTENDS NodeFactory

CONSTANT Top        \* the directory that is scanned

ASSUME TopAssumption == Top \in Nodes

VARIABLE down       \* the progress of the scan

treeVars == <<vars, down>>

Down ==
  [step   : {"idle", "status", "conf", "open", "read", "ok", "fx"},
   at     : Nodes,          \* the node being loaded, if one is
   todo   : Seq(Nodes),     \* nodes whose directories are to be read; first, the one open
   fresh  : Seq(Nodes),     \* first_child: nodes loaded from the one open, the last first
   due    : SUBSET Nodes,   \* what lay in that one when it was opened
   listed : SUBSET Nodes,   \* what readdir has given of it
   tree   : SUBSET Nodes,   \* the nodes loaded
   since  : SUBSET Nodes]   \* what a scan that began could have seen

Children(n) == {m \in Nodes : Len(Lineage[m]) > 1 /\ Lineage[m][Len(Lineage[m]) - 1] = n}

Present(n) == {m \in Children(n) : <<m, "node">> \in dirs}

(* The ancestors of n that a scan of Top has to go through, and n.         *)
Below(n) == {Lineage[n][i] : i \in {j \in 1..Len(Lineage[n]) :
                                      \E k \in 1..j : Lineage[n][k] = Top}}

Reachable == {n \in Nodes : Top \in Below(n) /\ \A m \in Below(n) : Live(m)}

DownInit ==
  down = [step |-> "idle", at |-> Top, todo |-> <<>>, fresh |-> <<>>,
          due |-> {}, listed |-> {}, tree |-> {}, since |-> {}]

DownStart ==
  /\ down.step = "idle"
  /\ down' = [down EXCEPT !.step = "status", !.since = Reachable]
  /\ UNCHANGED vars

DownFails == down' = [down EXCEPT !.step = "fx"]

(* Back to the entries of the directory that is open.                      *)
Resume(fresh, tree) ==
  down' = [down EXCEPT !.step = "read", !.at = Top, !.fresh = fresh, !.tree = tree]

(* Mutant: a directory that is no node is an error.                        *)
LeaveOut_Error == DownFails

(* RED_NODE_CONFIG_MISSING: on to the next entry.                          *)
LeaveOut == Resume(down.fresh, down.tree)

DownStatus ==
  LET f == file["status"][down.at]
  IN /\ down.step = "status"
     /\ \/ /\ f.st = "torn" \/ (f.st = "absent" /\ down.at = Top)
           /\ DownFails
        \/ /\ f.st = "absent" /\ down.at # Top
           /\ LeaveOut
        \/ /\ f.st = "whole"
           /\ down' = [down EXCEPT !.step = "conf"]
     /\ UNCHANGED vars

(* The administrator's configuration is not asked for.                     *)
DownConf ==
  LET f == Found("conf", down.at)
  IN /\ down.step = "conf"
     /\ \/ LoadFails(f) /\ DownFails
        \/ /\ Loads(f)
           /\ \/ /\ down.at = Top
                 /\ down' = [down EXCEPT !.step = "open", !.todo = <<Top>>, !.tree = {Top}]
              \/ /\ down.at # Top
                 /\ Resume(<<down.at>> \o down.fresh, down.tree \cup {down.at})
     /\ UNCHANGED vars

(* opendir                                                                 *)
OpenDir ==
  /\ down.step = "open"
  /\ \/ "io" \in Faults /\ DownFails
     \/ down' = [down EXCEPT !.step = "read", !.due = Present(Head(down.todo))]
  /\ UNCHANGED vars

(* readdir: an entry made since opendir may be given or not.  Files,       *)
(* hidden directories and etc, which has no status, are left out.          *)
ReadDir ==
  /\ down.step = "read"
  /\ \E n \in Present(Head(down.todo)) \ down.listed :
       down' = [down EXCEPT !.step = "status", !.at = n, !.listed = @ \cup {n}]
  /\ UNCHANGED vars

(* Mutant: the children of children are not looked for.                    *)
StillToRead_Flat == Tail(down.todo)

(* The children first, each with what is below it, then the siblings.      *)
StillToRead == down.fresh \o Tail(down.todo)

Onward(todo) == IF todo = <<>> THEN "ok" ELSE "open"

ReadEnd ==
  /\ down.step = "read"
  /\ down.due \subseteq down.listed
  /\ down' = [down EXCEPT !.step = Onward(StillToRead),
                          !.todo = StillToRead, !.fresh = <<>>, !.due = {}, !.listed = {}]
  /\ UNCHANGED vars

DownScan == DownStatus \/ DownConf \/ OpenDir \/ ReadDir \/ ReadEnd

TreeNext == (Next /\ UNCHANGED down) \/ DownStart \/ DownScan

(* The kernel runs every tool that is not killed: a call once begun is     *)
(* carried on.  Nothing makes a user begin one, or run the scan.           *)
TreeSpec ==
  /\ Init /\ DownInit
  /\ [][TreeNext]_treeVars
  /\ \A p \in Procs : WF_treeVars(Tool(p) /\ UNCHANGED down)

-----------------------------------------------------------------------------
(* Properties.                                                             *)

(* The scan keeps its types, and reads a directory only while one is open. *)
DownTypeOK ==
  /\ down \in Down
  /\ down.step \in {"open", "read"} => down.todo # <<>>

(* The invariant that carries TreeIsComplete.  A file lies in a directory:  *)
(* a tool makes sure of its directory before it opens one.                 *)
DirsBefore(p) ==
  /\ pc[p].step = "mkdir" =>
       \A j \in 1..(pc[p].mk - 1) : PathOf(pc[p].stage, call[p].at)[j] \in dirs
  /\ pc[p].step \in {"load", "check", "open", "write"} => <<call[p].at, "node">> \in dirs

FilesInDirs ==
  /\ \A p \in Procs : DirsBefore(p)
  /\ \A k \in Kinds, n \in Nodes : Exists(k, n) => <<n, "node">> \in dirs

(* What the scan could have seen is live for good.                         *)
SinceLive ==
  \A n \in down.since : n \in Nodes /\ Top \in Below(n) /\ \A m \in Below(n) : Live(m)

AtTop == down.step \in {"idle", "status", "conf"} /\ down.todo = <<>>

Inside == down.step \in {"status", "conf", "read"} /\ down.todo # <<>>

Elements(s) == {s[i] : i \in 1..Len(s)}

PhaseInv ==
  /\ AtTop => down.at = Top /\ down.fresh = <<>> /\ down.listed = {}
  /\ Inside /\ down.step # "read" => down.at # Top /\ down.at \in Children(Head(down.todo))
  /\ down.step = "open" => down.fresh = <<>> /\ down.listed = {}
  /\ down.step \in {"idle", "ok"} => down.todo = <<>>
  /\ down.step = "conf" => Exists("status", down.at)
  /\ \A m \in Elements(down.todo) \cup Elements(down.fresh) :
       Len(Lineage[m]) >= Len(Lineage[Top])

(* A node not found yet is below a directory that is still to be read, or  *)
(* below an entry still to come of the one being read.                     *)
Pending(n) ==
  \E j \in 1..(Len(Lineage[n]) - 1) :
    /\ Lineage[n][j + 1] \in Below(n)
    /\ \/ down.step = "open" /\ Lineage[n][j] \in Elements(down.todo)
       \/ Lineage[n][j] \in Elements(Tail(down.todo)) \cup Elements(down.fresh)
       \/ /\ Inside
          /\ Lineage[n][j] = Head(down.todo)
          /\ Lineage[n][j + 1] \in down.due
          /\ Lineage[n][j + 1] \in down.listed =>
               down.step # "read" /\ Lineage[n][j + 1] = down.at

NothingLost ==
  Inside \/ down.step \in {"open", "ok"} =>
    \A n \in down.since : n \in down.tree \/ (down.step # "ok" /\ Pending(n))

TreeInv == FilesInDirs /\ SinceLive /\ PhaseInv /\ NothingLost

(* The invariant that carries TreeFailsForAReason: a truncated file is     *)
(* being written, if no tool is killed and no call of the system fails.    *)
TornIsWritten ==
  \A k \in Kinds, n \in Nodes : file[k][n].st = "torn" =>
    \E p \in Procs : pc[p].step = "write" /\ KindOf(pc[p].stage) = k /\ call[p].at = n

(* A scan that succeeds has found every node that was live, with all       *)
(* directories above it, when it began: nodes that appear meanwhile, and   *)
(* directories that are none, take nothing away from it.                   *)
TreeIsComplete == down.step = "ok" => down.since \subseteq down.tree

(* A scan fails only if what it reads is being written at that moment, or  *)
(* Top is no node: what others do elsewhere does not make it fail.         *)
TreeFailsForAReason ==
  [][down.step # "fx" /\ down'.step = "fx" =>
       \/ ~ Exists("status", Top)
       \/ \E p \in Procs : pc[p].step = "write" /\ call[p].at = down.at]_treeVars
=============================================================================
