----------------------------- MODULE NodeTree_proofs -----------------------------
(***************************************************************************)
(* Proofs about the scan of a tree: whatever the tree, the tools that make *)
(* nodes in it meanwhile, their crashes and failures, a scan that succeeds *)
(* misses no node that was there when it began.                            *)
(***************************************************************************)
EXTENDS NodeTree, NodeFactory_proofs

(* A scan changes nothing that tools and other scans know of.              *)
THEOREM TreeKeepsFactory == TreeSpec => Spec
<1>1. [TreeNext]_treeVars => [Next]_vars
  BY DEF TreeNext, treeVars, DownStart, DownScan, DownStatus, DownConf, OpenDir, ReadDir, ReadEnd
<1>2. QED
  BY <1>1, PTL DEF TreeSpec, Spec

-----------------------------------------------------------------------------
(* Directories.                                                            *)

(* The directory of a node is on the way to each of its files.             *)
LEMMA NodeOnPath ==
  ASSUME NEW stage, NEW n \in Nodes
  PROVE  \E j \in 1..Len(PathOf(stage, n)) : PathOf(stage, n)[j] = <<n, "node">>
<1>1. /\ NodePath(n) \in Seq(Dir) /\ Len(NodePath(n)) = Len(Lineage[n])
      /\ Len(NodePath(n)) \in Nat \ {0}
      /\ NodePath(n)[Len(NodePath(n))] = <<n, "node">>
  <2>1. Lineage[n] \in Seq(Nodes) /\ Len(Lineage[n]) > 0 /\ Lineage[n][Len(Lineage[n])] = n
    BY LineageAssumption
  <2>2. QED
    BY <2>1 DEF NodePath, Dir
<1>2. <<n, "etc">> \in Dir
  BY DEF Dir
<1>3. QED
  BY <1>1, <1>2 DEF PathOf

(* Directories are only made.                                              *)
LEMMA DirsStay ==
  ASSUME [Next]_vars
  PROVE  dirs \subseteq dirs'
BY DEF Next, Tool, Reader, vars, Begin, LookParent, NoTemplate, StatDirs, MakeDir, LoadHeaders,
       CheckAbsent, OpenFile, WritePart, WriteFile, Crash, ScanStart, ScanStatus, ScanConf, ScanAdmin

(* A call whose directories were there has them still.                     *)
LEMMA DirsKeep ==
  ASSUME [Next]_vars, NEW q \in Procs, DirsBefore(q),
         pc'[q] = pc[q], call'[q].at = call[q].at
  PROVE  DirsBefore(q)'
BY DirsStay DEF DirsBefore, PathOf, NodePath

(* What enters a stage looks at the directories anew.                      *)
LEMMA EnterDirs ==
  ASSUME TypeOK, NEW p \in Procs, NEW stage, Goto(p, stage, "stat")
  PROVE  DirsBefore(p)'
BY DEF Goto, TypeOK, DirsBefore

(* Work begins once the whole path is there.                               *)
LEMMA EnterWorkDirs ==
  ASSUME TypeOK, NEW p \in Procs, EnterWork(p), UNCHANGED call,
         \A j \in 1..Len(PathOf(pc[p].stage, call[p].at)) :
           PathOf(pc[p].stage, call[p].at)[j] \in dirs'
  PROVE  DirsBefore(p)'
<1>1. CASE pc[p].stage = "dirs"
  BY <1>1, EnterDirs DEF EnterWork, Enter
<1>2. CASE pc[p].stage # "dirs"
  <2>1. call[p].at \in Nodes
    BY DEF TypeOK, Call
  <2>2. <<call[p].at, "node">> \in dirs'
    <3>1. PICK j \in 1..Len(PathOf(pc[p].stage, call[p].at)) :
               PathOf(pc[p].stage, call[p].at)[j] = <<call[p].at, "node">>
      BY <2>1, NodeOnPath
    <3>2. QED
      BY <3>1
  <2>3. pc'[p].mk = 0
    BY <1>2 DEF EnterWork, Goto, TypeOK
  <2>4. call' = call /\ \A j \in 1..(pc'[p].mk - 1) : FALSE
    BY <2>3
  <2>5. QED
    BY <2>2, <2>4 DEF DirsBefore
<1>3. QED
  BY <1>1, <1>2

(* The next directory of a path is made once those above it are there.     *)
LEMMA NextDir ==
  ASSUME TypeOK, NEW p \in Procs, NEW k \in Nat, call' = call,
         pc' = [pc EXCEPT ![p] = [stage |-> pc[p].stage, step |-> "mkdir", mk |-> k]],
         \A j \in 1..(k - 1) : PathOf(pc[p].stage, call[p].at)[j] \in dirs'
  PROVE  DirsBefore(p)'
<1>1. pc'[p] = [stage |-> pc[p].stage, step |-> "mkdir", mk |-> k]
  BY DEF TypeOK
<1>2. PathOf(pc'[p].stage, call'[p].at) = PathOf(pc[p].stage, call[p].at)
  BY <1>1
<1>3. \A j \in 1..(pc'[p].mk - 1) : PathOf(pc'[p].stage, call'[p].at)[j] \in dirs'
  BY <1>1, <1>2
<1>4. pc'[p].step = "mkdir"
  BY <1>1
<1>5. (\A j \in 1..(pc[p].mk - 1) : PathOf(pc[p].stage, call[p].at)[j] \in dirs)'
  BY <1>3 DEF PathOf, NodePath
<1>6. QED
  BY <1>4, <1>5 DEF DirsBefore

(* The directories a call has passed are there.                            *)
LEMMA DirsStep ==
  ASSUME TypeOK, \A p \in Procs : DirsBefore(p), [Next]_vars
  PROVE  \A p \in Procs : DirsBefore(p)'
<1>1. ASSUME NEW p \in Procs, NEW pcp, pc' = [pc EXCEPT ![p] = pcp],
             \A q \in Procs \ {p} : call'[q].at = call[q].at,
             DirsBefore(p)'
      PROVE  \A q \in Procs : DirsBefore(q)'
  <2>1. \A q \in Procs \ {p} : pc'[q] = pc[q]
    BY <1>1 DEF TypeOK
  <2>2. QED
    BY <1>1, <2>1, DirsKeep
<1>2. ASSUME NEW p \in Procs, NEW stage, NEW step, Goto(p, stage, step),
             \A q \in Procs \ {p} : call'[q].at = call[q].at,
             DirsBefore(p)'
      PROVE  \A q \in Procs : DirsBefore(q)'
  BY <1>1, <1>2 DEF Goto
<1>3. ASSUME NEW p \in Procs, NEW stage, Enter(p, stage),
             \A q \in Procs \ {p} : call'[q].at = call[q].at
      PROVE  \A q \in Procs : DirsBefore(q)'
  BY <1>2, <1>3, EnterDirs DEF Enter
<1>4. ASSUME NEW p \in Procs, EnterWork(p), UNCHANGED call, DirsBefore(p)'
      PROVE  \A q \in Procs : DirsBefore(q)'
  BY <1>2, <1>4 DEF EnterWork, Enter
<1>5. ASSUME NEW p \in Procs, StatDirs(p) PROVE \A q \in Procs : DirsBefore(q)'
  <2> DEFINE path == PathOf(pc[p].stage, call[p].at)
  <2>1. UNCHANGED <<call, dirs>>
    BY <1>5 DEF StatDirs
  <2>2. CASE \E rc : Return(p, rc)
    BY <1>3, <2>1, <2>2 DEF Return
  <2>3. CASE \E k \in 2..Len(path) :
               /\ \A j \in 1..(k - 1) : path[j] \in dirs
               /\ pc' = [pc EXCEPT ![p] = [stage |-> @.stage, step |-> "mkdir", mk |-> k]]
    <3>1. PICK k \in 2..Len(path) :
               /\ \A j \in 1..(k - 1) : path[j] \in dirs
               /\ pc' = [pc EXCEPT ![p] = [stage |-> pc[p].stage, step |-> "mkdir", mk |-> k]]
      BY <2>3
    <3>2. k \in Nat /\ call' = call
      BY <2>1
    <3>3. \A j \in 1..(k - 1) : PathOf(pc[p].stage, call[p].at)[j] \in dirs'
      BY <2>1, <3>1
    <3>4. pc' = [pc EXCEPT ![p] = [stage |-> pc[p].stage, step |-> "mkdir", mk |-> k]]
      BY <3>1
    <3>5. DirsBefore(p)'
      BY <3>2, <3>3, <3>4, NextDir, Zenon
    <3>6. QED
      BY <1>1, <2>1, <3>1, <3>5
  <2>4. CASE EnterWork(p) /\ \A j \in 1..Len(path) : path[j] \in dirs
    BY <1>4, <2>1, <2>4, EnterWorkDirs
  <2>5. QED
    BY <1>5, <2>2, <2>3, <2>4 DEF StatDirs
<1>6. ASSUME NEW p \in Procs, MakeDir(p) PROVE \A q \in Procs : DirsBefore(q)'
  <2> DEFINE path == PathOf(pc[p].stage, call[p].at)
  <2> DEFINE k == pc[p].mk
  <2>1. UNCHANGED call /\ dirs \subseteq dirs' /\ pc[p].step = "mkdir"
    BY <1>6 DEF MakeDir
  <2>2. k \in 2..Len(path) /\ Len(path) \in Nat /\ \A j \in 1..(k - 1) : path[j] \in dirs
    <3>1. PlaceOK(p) /\ call[p].at \in Nodes /\ DirsBefore(p)
      BY DEF TypeOK, Call
    <3>2. path \in Seq(Dir)
      BY <3>1, PathType
    <3>3. k \in 2..Len(path)
      BY <2>1, <3>1 DEF PlaceOK
    <3>4. \A j \in 1..(k - 1) : path[j] \in dirs
      BY <2>1, <3>1 DEF DirsBefore
    <3>5. QED
      BY <3>2, <3>3, <3>4
  <2>3. CASE \E rc : Return(p, rc)
    BY <1>3, <2>1, <2>3 DEF Return
  <2>4. CASE ~ \E rc : Return(p, rc)
    <3>1. path[k] \in dirs'
      BY <1>6, <2>4 DEF MakeDir
    <3>2. \A j \in 1..k : path[j] \in dirs'
      <4>1. TAKE j \in 1..k
      <4>2. j = k \/ j \in 1..(k - 1)
        BY <2>2
      <4>3. QED
        BY <2>1, <2>2, <3>1, <4>2
    <3>3. CASE pc' = [pc EXCEPT ![p] = [stage |-> pc[p].stage, step |-> "mkdir", mk |-> k + 1]]
      <4>1. k + 1 \in Nat /\ call' = call /\ (k + 1) - 1 = k
        BY <2>1, <2>2
      <4>2. \A j \in 1..((k + 1) - 1) : PathOf(pc[p].stage, call[p].at)[j] \in dirs'
        BY <3>2, <4>1
      <4>3. DirsBefore(p)'
        BY <3>3, <4>1, <4>2, NextDir, Zenon
      <4>4. QED
        BY <1>1, <2>1, <3>3, <4>3
    <3>4. CASE k = Len(path) /\ EnterWork(p)
      BY <1>4, <2>1, <3>2, <3>4, EnterWorkDirs
    <3>5. QED
      BY <1>6, <2>4, <3>3, <3>4 DEF MakeDir
  <2>5. QED
    BY <2>3, <2>4
<1>7. ASSUME NEW p \in Procs,
             LookParent(p) \/ NoTemplate(p) \/ LoadHeaders(p) \/ WriteFile(p) \/ Crash(p)
      PROVE  \A q \in Procs : DirsBefore(q)'
  <2>1. \A q \in Procs \ {p} : call'[q].at = call[q].at
    BY <1>7 DEF LookParent, NoTemplate, LoadHeaders, WriteFile, Crash, TypeOK
  <2>2. \E stage : Enter(p, stage)
    BY <1>7 DEF LookParent, NoTemplate, LoadHeaders, WriteFile, Crash, Return
  <2>3. QED
    BY <1>3, <2>1, <2>2
<1>8. ASSUME NEW p \in Procs, CheckAbsent(p) \/ OpenFile(p)
      PROVE  \A q \in Procs : DirsBefore(q)'
  <2>1. UNCHANGED <<call, dirs>>
    BY <1>8 DEF CheckAbsent, OpenFile
  <2>2. CASE \E rc : Return(p, rc)
    BY <1>3, <2>1, <2>2 DEF Return
  <2>3. CASE \E step \in {"open", "write"} : Goto(p, pc[p].stage, step)
    <3>1. PICK step \in {"open", "write"} : Goto(p, pc[p].stage, step)
      BY <2>3
    <3>2. pc'[p].step = step
      BY <3>1 DEF Goto, TypeOK
    <3>3. <<call[p].at, "node">> \in dirs
      BY <1>8 DEF CheckAbsent, OpenFile, DirsBefore
    <3>4. DirsBefore(p)'
      BY <2>1, <3>2, <3>3 DEF DirsBefore
    <3>5. QED
      BY <1>2, <2>1, <3>1, <3>4
  <2>4. QED
    BY <1>8, <2>2, <2>3 DEF CheckAbsent, OpenFile
<1>9. ASSUME NEW p \in Procs, NEW n, NEW update, NEW mode, Begin(p, n, update, mode)
      PROVE  \A q \in Procs : DirsBefore(q)'
  <2>1. \A q \in Procs \ {p} : call'[q].at = call[q].at
    BY <1>9 DEF Begin, TypeOK
  <2>2. QED
    BY <1>3, <1>9, <2>1 DEF Begin
<1>10. CASE UNCHANGED <<pc, call>>
  BY <1>10, DirsKeep
<1>11. QED
  BY <1>5, <1>6, <1>7, <1>8, <1>9, <1>10
     DEF Next, Tool, Reader, WritePart, ScanStart, ScanStatus, ScanConf, ScanAdmin, vars

(* Files lie in directories at first,                                      *)
LEMMA FilesInDirsInit == Init => FilesInDirs
<1> SUFFICES ASSUME Init PROVE FilesInDirs
  OBVIOUS
<1>1. \A p \in Procs : DirsBefore(p)
  BY DEF Init, DirsBefore
<1>2. ASSUME NEW k \in Kinds, NEW n \in Nodes, Exists(k, n)
      PROVE  <<n, "node">> \in dirs
  <2>1. n \in Existing
    BY <1>2 DEF Init, Exists, NoFile
  <2>2. Len(Lineage[n]) \in 1..Len(Lineage[n]) /\ Lineage[n][Len(Lineage[n])] = n
    BY LineageAssumption
  <2>3. <<n, "node">> \in Dir
    BY DEF Dir
  <2>4. QED
    BY <2>1, <2>2, <2>3 DEF Init
<1>3. QED
  BY <1>1, <1>2 DEF FilesInDirs

(* and after any step.                                                     *)
LEMMA FilesInDirsStep == TypeOK /\ FilesInDirs /\ [Next]_vars => FilesInDirs'
<1> SUFFICES ASSUME TypeOK, FilesInDirs, [Next]_vars PROVE FilesInDirs'
  OBVIOUS
<1>1. \A p \in Procs : DirsBefore(p)'
  BY DirsStep DEF FilesInDirs
<1>2. ASSUME NEW k \in Kinds, NEW n \in Nodes, Exists(k, n)'
      PROVE  <<n, "node">> \in dirs'
  <2>1. CASE Exists(k, n)
    BY <2>1, DirsStay DEF FilesInDirs
  <2>2. CASE ~ Exists(k, n)
    <3>1. file' # file
      BY <1>2, <2>2 DEF Exists
    <3>2. PICK p \in Procs, st \in {"torn", "cut", "whole"} :
               Store(p, st) /\ pc[p].step \in {"open", "write"}
      BY <3>1 DEF Next, Tool, Reader, vars, Begin, LookParent, NoTemplate, StatDirs, MakeDir,
         LoadHeaders, CheckAbsent, OpenFile, WritePart, WriteFile, Crash, ScanStart, ScanStatus, ScanConf,
         ScanAdmin
    <3>3. pc[p].stage \in Stages
      BY <3>2 DEF TypeOK, PlaceOK, StagesWith, Stages
    <3>4. n = call[p].at
      BY <1>2, <2>2, <3>2, <3>3, StoreMakes
    <3>5. <<n, "node">> \in dirs
      BY <3>2, <3>4 DEF FilesInDirs, DirsBefore
    <3>6. QED
      BY <3>5, DirsStay
  <2>3. QED
    BY <2>1, <2>2
<1>3. QED
  BY <1>1, <1>2 DEF FilesInDirs

-----------------------------------------------------------------------------
(* The tree.                                                               *)

(* A lineage is a path, and each of its directories lies in the one before. *)
LEMMA LineIsPath ==
  ASSUME NEW n \in Nodes
  PROVE  /\ Lineage[n] \in Seq(Nodes) /\ Len(Lineage[n]) \in Nat \ {0}
         /\ Lineage[n][Len(Lineage[n])] = n
         /\ \A i \in 1..Len(Lineage[n]) :
              Lineage[n][i] \in Nodes /\ Len(Lineage[Lineage[n][i]]) = i
         /\ \A i \in 1..(Len(Lineage[n]) - 1) : Lineage[n][i + 1] \in Children(Lineage[n][i])
<1>1. /\ Lineage[n] \in Seq(Nodes) /\ Len(Lineage[n]) \in Nat \ {0}
      /\ Lineage[n][Len(Lineage[n])] = n
  BY LineageAssumption
<1>2. \A i \in 1..Len(Lineage[n]) :
        Lineage[n][i] \in Nodes /\ Lineage[Lineage[n][i]] = SubSeq(Lineage[n], 1, i)
        /\ Len(Lineage[Lineage[n][i]]) = i
  BY <1>1, PathsAssumption
<1>3. ASSUME NEW i \in 1..(Len(Lineage[n]) - 1)
      PROVE  Lineage[n][i + 1] \in Children(Lineage[n][i])
  <2>1. i + 1 \in 1..Len(Lineage[n]) /\ i \in 1..(i + 1) /\ (i + 1) - 1 = i
    BY <1>1
  <2>2. Lineage[Lineage[n][i + 1]] = SubSeq(Lineage[n], 1, i + 1)
        /\ Len(Lineage[Lineage[n][i + 1]]) = i + 1 /\ Lineage[n][i + 1] \in Nodes
    BY <1>2, <2>1
  <2>3. SubSeq(Lineage[n], 1, i + 1)[i] = Lineage[n][i]
    BY <1>1, <2>1
  <2>4. QED
    BY <2>1, <2>2, <2>3 DEF Children
<1>4. QED
  BY <1>1, <1>2, <1>3

(* A child is one step further from the root of the disk.                  *)
LEMMA ChildLonger ==
  ASSUME NEW n \in Nodes, NEW m \in Children(n)
  PROVE  m \in Nodes /\ Len(Lineage[m]) = Len(Lineage[n]) + 1
<1>1. m \in Nodes /\ Len(Lineage[m]) > 1 /\ Lineage[m][Len(Lineage[m]) - 1] = n
  BY DEF Children
<1>2. Len(Lineage[m]) - 1 \in 1..Len(Lineage[m])
  BY <1>1, LineIsPath
<1>3. Len(Lineage[n]) = Len(Lineage[m]) - 1
  BY <1>1, <1>2, LineIsPath
<1>4. QED
  BY <1>1, <1>3, LineIsPath

(* What is live stays live.                                                *)
LEMMA LiveStays ==
  ASSUME TypeOK, [Next]_vars, NEW n \in Nodes, Live(n)
  PROVE  Live(n)'
BY FilesStay DEF Live, Kinds

(* The nodes a scan could have seen when it began stay live.               *)
LEMMA SinceStep ==
  ASSUME TypeOK, DownTypeOK, SinceLive, [TreeNext]_treeVars
  PROVE  SinceLive'
<1>1. [Next]_vars
  BY DEF TreeNext, treeVars, DownStart, DownScan, DownStatus, DownConf, OpenDir, ReadDir, ReadEnd
<1>2. \A n \in Nodes : Below(n) \subseteq Nodes
  BY LineIsPath DEF Below
<1>3. CASE DownStart
  <2>1. down'.since = Reachable
    BY <1>3 DEF DownStart, DownTypeOK, Down
  <2>2. QED
    BY <1>1, <1>2, <2>1, LiveStays DEF SinceLive, Reachable
<1>4. CASE ~ DownStart
  <2>1. down'.since = down.since
    BY <1>4 DEF TreeNext, treeVars, DownScan, DownStatus, DownConf, OpenDir, ReadDir, ReadEnd,
       DownFails, LeaveOut, Resume, DownTypeOK, Down
  <2>2. QED
    BY <1>1, <1>2, <2>1, LiveStays DEF SinceLive
<1>5. QED
  BY <1>3, <1>4

ScanInv == DownTypeOK /\ PhaseInv /\ NothingLost

(* A scan that has failed promises nothing.                                *)
LEMMA FailsStep ==
  ASSUME ScanInv, DownFails
  PROVE  ScanInv'
<1>1. /\ down' \in Down /\ down'.step = "fx"
      /\ down'.todo = down.todo /\ down'.fresh = down.fresh
  BY DEF DownFails, ScanInv, DownTypeOK, Down
<1>2. QED
  BY <1>1 DEF ScanInv, DownTypeOK, PhaseInv, NothingLost, AtTop, Inside

(* The scan begins.                                                        *)
LEMMA StartStep ==
  ASSUME ScanInv, DownStart
  PROVE  ScanInv'
<1>1. Reachable \subseteq Nodes
  BY DEF Reachable
<1>2. /\ down' \in Down /\ down.step = "idle" /\ down'.step = "status"
      /\ down'.todo = down.todo /\ down'.fresh = down.fresh
      /\ down'.at = down.at /\ down'.listed = down.listed
  BY <1>1 DEF DownStart, ScanInv, DownTypeOK, Down
<1>3. QED
  BY <1>2 DEF ScanInv, DownTypeOK, PhaseInv, NothingLost, AtTop, Inside

(* The directory found is no node, and so none of those to be found; or it *)
(* is one.                                                                 *)
LEMMA StatusStepOfTree ==
  ASSUME TypeOK, ScanInv, SinceLive, DownStatus
  PROVE  ScanInv'
<1>1. CASE DownFails
  BY <1>1, FailsStep
<1>2. CASE file["status"][down.at].st = "absent" /\ down.at # Top /\ LeaveOut
  <2>1. /\ down' \in Down /\ down.step = "status" /\ down'.step = "read"
        /\ down'.todo = down.todo /\ down'.fresh = down.fresh /\ down'.tree = down.tree
        /\ down'.due = down.due /\ down'.listed = down.listed /\ down'.since = down.since
    BY <1>2, TopAssumption DEF DownStatus, LeaveOut, Resume, ScanInv, DownTypeOK, Down
  <2>2. Inside /\ Inside' /\ down.todo # <<>>
    BY <1>2, <2>1 DEF ScanInv, PhaseInv, AtTop, Inside
  <2>3. PhaseInv' /\ DownTypeOK'
    BY <2>1, <2>2 DEF ScanInv, PhaseInv, AtTop, Inside, DownTypeOK
  <2>4. ASSUME NEW n \in down.since, Pending(n) PROVE Pending(n)'
    <3>1. PICK j \in 1..(Len(Lineage[n]) - 1) :
             /\ Lineage[n][j + 1] \in Below(n)
             /\ \/ Lineage[n][j] \in Elements(Tail(down.todo)) \cup Elements(down.fresh)
                \/ /\ Lineage[n][j] = Head(down.todo)
                   /\ Lineage[n][j + 1] \in down.due
                   /\ Lineage[n][j + 1] \in down.listed => Lineage[n][j + 1] = down.at
      BY <2>1, <2>4 DEF Pending
    <3>2. Lineage[n][j + 1] # down.at
      BY <1>2, <3>1 DEF SinceLive, Live, Exists
    <3>3. QED
      BY <2>1, <2>2, <3>1, <3>2 DEF Pending
  <2>5. QED
    BY <2>1, <2>2, <2>3, <2>4 DEF ScanInv, NothingLost
<1>3. CASE file["status"][down.at].st = "whole" /\ down' = [down EXCEPT !.step = "conf"]
  <2>1. /\ down' \in Down /\ down.step = "status" /\ down'.step = "conf"
        /\ down'.at = down.at /\ file' = file
        /\ down'.todo = down.todo /\ down'.fresh = down.fresh /\ down'.tree = down.tree
        /\ down'.due = down.due /\ down'.listed = down.listed /\ down'.since = down.since
    BY <1>3 DEF DownStatus, ScanInv, DownTypeOK, Down, vars
  <2>2. PhaseInv' /\ DownTypeOK' /\ (Inside <=> Inside')
    BY <1>3, <2>1 DEF ScanInv, PhaseInv, AtTop, Inside, DownTypeOK, Exists
  <2>3. \A n : Pending(n) => Pending(n)'
    BY <2>1, <2>2 DEF Pending
  <2>4. QED
    BY <2>1, <2>2, <2>3 DEF ScanInv, NothingLost
<1>4. QED
  BY <1>1, <1>2, <1>3 DEF DownStatus

(* The node is loaded: what is below it is to be read.                     *)
LEMMA ConfStep ==
  ASSUME TypeOK, ScanInv, SinceLive, DownConf
  PROVE  ScanInv'
<1>1. CASE DownFails
  BY <1>1, FailsStep
<1>2. CASE /\ down.at = Top
           /\ down' = [down EXCEPT !.step = "open", !.todo = <<Top>>, !.tree = {Top}]
  <2>a. <<Top>> \in Seq(Nodes) /\ {Top} \in SUBSET Nodes
    BY TopAssumption
  <2>1. /\ down' \in Down /\ down.step = "conf" /\ down'.step = "open"
        /\ down'.todo = <<Top>> /\ down'.fresh = down.fresh /\ down'.tree = {Top}
        /\ down'.listed = down.listed /\ down'.since = down.since
    BY <1>2, <2>a DEF DownConf, ScanInv, DownTypeOK, Down
  <2>2. AtTop
    BY <1>2, <2>1 DEF ScanInv, PhaseInv, AtTop, Inside
  <2>3. down.fresh = <<>> /\ down.listed = {}
    BY <2>2 DEF ScanInv, PhaseInv
  <2>4. Elements(down'.todo) = {Top} /\ Elements(down'.fresh) = {} /\ Len(Lineage[Top]) \in Nat
    BY <2>1, <2>3, LineIsPath, TopAssumption DEF Elements
  <2>5. PhaseInv' /\ DownTypeOK'
    BY <2>1, <2>3, <2>4 DEF PhaseInv, AtTop, Inside, DownTypeOK, Elements
  <2>6. ASSUME NEW n \in down.since, n # Top PROVE Pending(n)'
    <3>1. n \in Nodes /\ Top \in Below(n)
      BY DEF SinceLive
    <3>2. PICK k \in 1..Len(Lineage[n]) : Lineage[n][k] = Top
      BY <3>1 DEF Below
    <3>3. k # Len(Lineage[n]) /\ Len(Lineage[n]) \in Nat
      BY <2>6, <3>1, <3>2, LineIsPath
    <3>4. k \in 1..(Len(Lineage[n]) - 1) /\ k + 1 \in 1..Len(Lineage[n]) /\ k \in 1..(k + 1)
      BY <3>2, <3>3
    <3>5. Lineage[n][k + 1] \in Below(n)
      BY <3>2, <3>4 DEF Below
    <3>6. QED
      BY <2>1, <2>4, <3>2, <3>4, <3>5 DEF Pending, Elements
  <2>7. QED
    BY <2>1, <2>5, <2>6 DEF ScanInv, NothingLost
<1>3. CASE down.at # Top /\ Resume(<<down.at>> \o down.fresh, down.tree \cup {down.at})
  <2>1. /\ down \in Down /\ down.step = "conf" /\ down.fresh \in Seq(Nodes) /\ down.at \in Nodes
    BY DEF DownConf, ScanInv, DownTypeOK, Down
  <2>a. <<down.at>> \o down.fresh \in Seq(Nodes) /\ down.tree \cup {down.at} \in SUBSET Nodes
    BY <2>1 DEF Down
  <2>2. /\ down' \in Down /\ down'.step = "read"
        /\ down'.todo = down.todo /\ down'.tree = down.tree \cup {down.at}
        /\ down'.fresh = <<down.at>> \o down.fresh
        /\ down'.due = down.due /\ down'.listed = down.listed /\ down'.since = down.since
    BY <1>3, <2>1, <2>a, TopAssumption DEF Resume, Down
  <2>3. Inside /\ Inside' /\ down.todo # <<>>
    BY <1>3, <2>1, <2>2 DEF ScanInv, PhaseInv, AtTop, Inside
  <2>4. Elements(down'.fresh) = Elements(down.fresh) \cup {down.at}
    <3>1. /\ Len(down'.fresh) = Len(down.fresh) + 1 /\ Len(down.fresh) \in Nat
          /\ down'.fresh[1] = down.at
          /\ \A i \in 1..Len(down.fresh) : down'.fresh[i + 1] = down.fresh[i]
      BY <2>1, <2>2
    <3>2. \A i \in 1..Len(down'.fresh) : i = 1 \/ i - 1 \in 1..Len(down.fresh)
      BY <3>1
    <3>3. \A i \in 1..Len(down.fresh) : i + 1 \in 1..Len(down'.fresh)
      BY <3>1
    <3>4. \A i \in 1..Len(down'.fresh) :
            down'.fresh[i] = down.at \/ down'.fresh[i] \in Elements(down.fresh)
      <4>1. TAKE i \in 1..Len(down'.fresh)
      <4>2. CASE i = 1
        BY <3>1, <4>2
      <4>3. CASE i # 1
        <5>1. i - 1 \in 1..Len(down.fresh) /\ (i - 1) + 1 = i
          BY <3>2, <4>3
        <5>2. QED
          BY <3>1, <5>1 DEF Elements
      <4>4. QED
        BY <4>2, <4>3
    <3>5. down.at \in Elements(down'.fresh) /\ Elements(down.fresh) \subseteq Elements(down'.fresh)
      BY <3>1, <3>3 DEF Elements
    <3>6. QED
      BY <3>4, <3>5 DEF Elements
  <2>5. Len(Lineage[down.at]) >= Len(Lineage[Top])
    <3>1. down.todo \in Seq(Nodes) /\ Head(down.todo) \in Elements(down.todo)
          /\ Head(down.todo) \in Nodes
      BY <2>1, <2>3 DEF Down, Elements
    <3>2. down.at \in Children(Head(down.todo))
          /\ Len(Lineage[Head(down.todo)]) >= Len(Lineage[Top])
      BY <2>1, <2>3, <3>1 DEF ScanInv, PhaseInv
    <3>3. QED
      BY <3>1, <3>2, ChildLonger, LineIsPath, TopAssumption
  <2>6. PhaseInv' /\ DownTypeOK'
    <3>1. \A m \in Elements(down'.todo) \cup Elements(down'.fresh) :
            Len(Lineage[m]) >= Len(Lineage[Top])
      BY <2>2, <2>4, <2>5 DEF ScanInv, PhaseInv
    <3>2. QED
      BY <2>2, <2>3, <3>1 DEF PhaseInv, AtTop, Inside, DownTypeOK, Elements
  <2>7. ASSUME NEW n \in down.since, Pending(n) PROVE n = down.at \/ Pending(n)'
    <3>1. PICK j \in 1..(Len(Lineage[n]) - 1) :
             /\ Lineage[n][j + 1] \in Below(n)
             /\ \/ Lineage[n][j] \in Elements(Tail(down.todo)) \cup Elements(down.fresh)
                \/ /\ Lineage[n][j] = Head(down.todo)
                   /\ Lineage[n][j + 1] \in down.due
                   /\ Lineage[n][j + 1] \in down.listed => Lineage[n][j + 1] = down.at
      BY <2>1, <2>7 DEF Pending
    <3>2. n \in Nodes /\ Len(Lineage[n]) \in Nat \ {0} /\ Lineage[n][Len(Lineage[n])] = n
      BY LineIsPath DEF SinceLive
    <3>3. CASE Lineage[n][j + 1] # down.at \/ Lineage[n][j] # Head(down.todo)
      <4>1. CASE Lineage[n][j] \in Elements(Tail(down.todo)) \cup Elements(down.fresh)
        <5>1. Elements(Tail(down.todo))' = Elements(Tail(down.todo))
          BY <2>2 DEF Elements
        <5>2. Lineage[n][j] \in (Elements(Tail(down.todo)) \cup Elements(down.fresh))'
          BY <2>4, <4>1, <5>1
        <5>3. QED
          BY <3>1, <5>2 DEF Pending
      <4>2. CASE /\ Lineage[n][j] = Head(down.todo)
                 /\ Lineage[n][j + 1] \in down.due
                 /\ Lineage[n][j + 1] \notin down.listed
        BY <2>2, <2>3, <3>1, <4>2 DEF Pending
      <4>3. QED
        BY <3>1, <3>3, <4>1, <4>2
    <3>4. CASE Lineage[n][j + 1] = down.at
      <4>1. CASE j + 1 = Len(Lineage[n])
        BY <3>2, <3>4, <4>1
      <4>2. CASE j + 1 # Len(Lineage[n])
        <5>1. /\ j + 1 \in 1..(Len(Lineage[n]) - 1) /\ (j + 1) + 1 \in 1..Len(Lineage[n])
              /\ j + 1 \in 1..Len(Lineage[n])
          BY <3>2, <4>2
        <5>2. Lineage[n][(j + 1) + 1] \in Below(n)
          <6>1. PICK i \in 1..Len(Lineage[n]) :
                   Lineage[n][i] = Lineage[n][j + 1] /\ \E k \in 1..i : Lineage[n][k] = Top
            BY <3>1 DEF Below
          <6>2. i = j + 1
            <7>1. Len(Lineage[Lineage[n][i]]) = i
              BY <3>2, <6>1, LineIsPath
            <7>2. Len(Lineage[Lineage[n][j + 1]]) = j + 1
              BY <3>2, <5>1, LineIsPath
            <7>3. QED
              BY <6>1, <7>1, <7>2
          <6>3. \E k \in 1..((j + 1) + 1) : Lineage[n][k] = Top
            <7>1. PICK k \in 1..(j + 1) : Lineage[n][k] = Top
              BY <6>1, <6>2
            <7>2. k \in 1..((j + 1) + 1)
              BY <5>1, <7>1
            <7>3. QED
              BY <7>1, <7>2
          <6>4. QED
            BY <5>1, <6>3 DEF Below
        <5>3. Lineage[n][j + 1] \in Elements(down'.fresh)
          BY <2>4, <3>4
        <5>4. QED
          BY <5>1, <5>2, <5>3 DEF Pending, Elements
      <4>3. QED
        BY <4>1, <4>2
    <3>5. QED
      BY <3>3, <3>4
  <2>8. QED
    BY <2>2, <2>3, <2>6, <2>7 DEF ScanInv, NothingLost
<1>4. QED
  BY <1>1, <1>2, <1>3 DEF DownConf

(* The directory is opened: the directories of live nodes are in it.       *)
LEMMA OpenStep ==
  ASSUME ScanInv, SinceLive, FilesInDirs, OpenDir
  PROVE  ScanInv'
<1>1. CASE DownFails
  BY <1>1, FailsStep
<1>2. CASE down' = [down EXCEPT !.step = "read", !.due = Present(Head(down.todo))]
  <2>1. Present(Head(down.todo)) \subseteq Nodes
    BY DEF Present, Children
  <2>2. /\ down' \in Down /\ down.step = "open" /\ down'.step = "read"
        /\ down'.todo = down.todo /\ down'.fresh = down.fresh /\ down'.tree = down.tree
        /\ down'.due = Present(Head(down.todo))
        /\ down'.listed = down.listed /\ down'.since = down.since
    BY <1>2, <2>1 DEF OpenDir, ScanInv, DownTypeOK, Down
  <2>3. down.todo # <<>> /\ down.fresh = <<>> /\ down.listed = {} /\ Inside'
    BY <2>2 DEF ScanInv, DownTypeOK, PhaseInv, Inside
  <2>4. PhaseInv' /\ DownTypeOK'
    BY <2>2, <2>3 DEF ScanInv, PhaseInv, AtTop, Inside, DownTypeOK
  <2>5. ASSUME NEW n \in down.since, Pending(n) PROVE Pending(n)'
    <3>1. PICK j \in 1..(Len(Lineage[n]) - 1) :
             /\ Lineage[n][j + 1] \in Below(n)
             /\ Lineage[n][j] \in Elements(down.todo) \cup Elements(Tail(down.todo))
      BY <2>2, <2>3, <2>5 DEF Pending, Inside, Elements
    <3>2. Lineage[n][j + 1] \in Children(Lineage[n][j]) /\ Lineage[n][j + 1] \in Nodes
      BY <3>1, LineIsPath DEF SinceLive, Children
    <3>3. <<Lineage[n][j + 1], "node">> \in dirs
      BY <3>1, <3>2 DEF SinceLive, Live, FilesInDirs, Kinds
    <3>4. CASE Lineage[n][j] = Head(down.todo)
      BY <2>2, <2>3, <3>1, <3>2, <3>3, <3>4 DEF Pending, Present
    <3>5. CASE Lineage[n][j] \in Elements(Tail(down.todo))
      BY <2>2, <3>1, <3>5 DEF Pending, Elements
    <3>6. Elements(down.todo) \subseteq {Head(down.todo)} \cup Elements(Tail(down.todo))
      <4>1. down.todo \in Seq(Nodes) /\ Len(down.todo) \in Nat \ {0}
        BY <2>3 DEF ScanInv, DownTypeOK, Down
      <4>2. \A i \in 1..Len(down.todo) :
              i = 1 \/ (i - 1 \in 1..Len(Tail(down.todo)) /\ Tail(down.todo)[i - 1] = down.todo[i])
        BY <4>1
      <4>3. QED
        BY <4>1, <4>2 DEF Elements
    <3>7. QED
      BY <3>1, <3>4, <3>5, <3>6
  <2>6. QED
    BY <2>2, <2>3, <2>4, <2>5 DEF ScanInv, NothingLost
<1>3. QED
  BY <1>1, <1>2 DEF OpenDir

(* An entry is read: a child, and so not Top again.                        *)
LEMMA ReadStep ==
  ASSUME ScanInv, ReadDir
  PROVE  ScanInv'
<1>1. PICK m \in Present(Head(down.todo)) \ down.listed :
         down' = [down EXCEPT !.step = "status", !.at = m, !.listed = @ \cup {m}]
  BY DEF ReadDir
<1>2. down.step = "read" /\ down.todo # <<>> /\ down.todo \in Seq(Nodes) /\ down \in Down
  BY DEF ReadDir, ScanInv, DownTypeOK, Down
<1>3. m \in Nodes /\ m \in Children(Head(down.todo)) /\ m # Top
  <2>1. /\ Head(down.todo) \in Nodes /\ Head(down.todo) \in Elements(down.todo)
        /\ m \in Children(Head(down.todo))
    BY <1>2 DEF Present, Elements
  <2>2. Len(Lineage[Head(down.todo)]) >= Len(Lineage[Top])
    BY <2>1 DEF ScanInv, PhaseInv
  <2>3. m \in Nodes /\ Len(Lineage[m]) = Len(Lineage[Head(down.todo)]) + 1
    BY <2>1, ChildLonger
  <2>4. QED
    BY <2>1, <2>2, <2>3, LineIsPath, TopAssumption
<1>4. /\ down' \in Down /\ down'.step = "status" /\ down'.at = m
      /\ down'.todo = down.todo /\ down'.fresh = down.fresh /\ down'.tree = down.tree
      /\ down'.due = down.due /\ down'.listed = down.listed \cup {m} /\ down'.since = down.since
  BY <1>1, <1>2, <1>3 DEF Down
<1>5. Inside /\ Inside'
  BY <1>2, <1>4 DEF Inside
<1>6. PhaseInv' /\ DownTypeOK'
  BY <1>2, <1>3, <1>4 DEF ScanInv, PhaseInv, AtTop, Inside, DownTypeOK
<1>7. \A n : Pending(n) => Pending(n)'
  BY <1>2, <1>4, <1>5 DEF Pending
<1>8. QED
  BY <1>4, <1>5, <1>6, <1>7 DEF ScanInv, NothingLost

(* The end of a directory: what was loaded from it is to be read next.     *)
LEMMA ReadEndStep ==
  ASSUME ScanInv, ReadEnd
  PROVE  ScanInv'
<1>1. /\ down \in Down /\ down.step = "read" /\ down.due \subseteq down.listed
      /\ down.todo # <<>> /\ down.todo \in Seq(Nodes) /\ down.fresh \in Seq(Nodes)
  BY DEF ReadEnd, ScanInv, DownTypeOK, Down
<1>2. /\ StillToRead \in Seq(Nodes) /\ <<>> \in Seq(Nodes)
      /\ Onward(StillToRead) \in {"ok", "open"}
  <2>1. StillToRead \in Seq(Nodes)
    BY <1>1 DEF StillToRead
  <2>2. QED
    BY <2>1 DEF Onward
<1>3. /\ down' \in Down /\ down'.step = Onward(StillToRead)
      /\ down'.todo = StillToRead /\ down'.fresh = <<>> /\ down'.tree = down.tree
      /\ down'.listed = {} /\ down'.since = down.since
  <2>1. down' = [down EXCEPT !.step = Onward(StillToRead),
                          !.todo = StillToRead, !.fresh = <<>>, !.due = {}, !.listed = {}]
    BY DEF ReadEnd
  <2> DEFINE still == StillToRead
  <2> DEFINE step == Onward(StillToRead)
  <2>2. still \in Seq(Nodes) /\ step \in {"ok", "open"} /\ <<>> \in Seq(Nodes)
    BY <1>2
  <2>3. down' = [down EXCEPT !.step = step, !.todo = still, !.fresh = <<>>, !.due = {}, !.listed = {}]
    BY <2>1
  <2> HIDE DEF still, step
  <2>4. /\ down' \in Down /\ down'.step = step
        /\ down'.todo = still /\ down'.fresh = <<>> /\ down'.tree = down.tree
        /\ down'.listed = {} /\ down'.since = down.since
    BY <1>1, <2>2, <2>3 DEF Down
  <2>5. QED
    BY <2>4 DEF still, step
<1>4. Elements(StillToRead) = Elements(down.fresh) \cup Elements(Tail(down.todo))
  <2> DEFINE t == Tail(down.todo)
  <2>1. t \in Seq(Nodes)
    BY <1>1
  <2> HIDE DEF t
  <2>2. ASSUME NEW i \in 1..Len(down.fresh \o t)
        PROVE  (down.fresh \o t)[i] \in Elements(down.fresh) \cup Elements(t)
    <3>1. CASE i <= Len(down.fresh)
      BY <1>1, <2>1, <3>1 DEF Elements
    <3>2. CASE i > Len(down.fresh)
      <4>1. i - Len(down.fresh) \in 1..Len(t) /\ (down.fresh \o t)[i] = t[i - Len(down.fresh)]
        BY <1>1, <2>1, <3>2
      <4>2. QED
        BY <4>1 DEF Elements
    <3>3. QED
      BY <1>1, <2>1, <3>1, <3>2
  <2>3. ASSUME NEW i \in 1..Len(down.fresh)
        PROVE  down.fresh[i] \in Elements(down.fresh \o t)
    <3>1. i \in 1..Len(down.fresh \o t) /\ (down.fresh \o t)[i] = down.fresh[i]
      BY <1>1, <2>1
    <3>2. QED
      BY <3>1 DEF Elements
  <2>4. ASSUME NEW i \in 1..Len(t)
        PROVE  t[i] \in Elements(down.fresh \o t)
    <3>1. /\ Len(down.fresh) + i \in 1..Len(down.fresh \o t)
          /\ (down.fresh \o t)[Len(down.fresh) + i] = t[i]
      BY <1>1, <2>1
    <3>2. QED
      BY <3>1 DEF Elements
  <2>5. StillToRead = down.fresh \o t
    BY DEF StillToRead, t
  <2>6. Elements(down.fresh \o t) = Elements(down.fresh) \cup Elements(t)
    <3>1. Elements(down.fresh \o t) \subseteq Elements(down.fresh) \cup Elements(t)
      BY <2>2 DEF Elements
    <3>2. Elements(down.fresh) \cup Elements(t) \subseteq Elements(down.fresh \o t)
      BY <2>3, <2>4 DEF Elements
    <3>3. QED
      BY <3>1, <3>2
  <2>7. QED
    BY <2>5, <2>6 DEF t
<1>5. Elements(Tail(down.todo)) \subseteq Elements(down.todo)
  <2>1. \A i \in 1..Len(Tail(down.todo)) :
          i + 1 \in 1..Len(down.todo) /\ Tail(down.todo)[i] = down.todo[i + 1]
    BY <1>1
  <2>2. QED
    BY <2>1 DEF Elements
<1>6. Elements(down'.todo) = Elements(down.fresh) \cup Elements(Tail(down.todo))
      /\ Elements(down'.fresh) = {}
  <2>1. Elements(<<>>) = {}
    BY DEF Elements
  <2>2. QED
    BY <1>3, <1>4, <2>1
<1>7. PhaseInv' /\ DownTypeOK'
  <2>1. \A m \in Elements(down'.todo) \cup Elements(down'.fresh) :
          Len(Lineage[m]) >= Len(Lineage[Top])
    BY <1>5, <1>6 DEF ScanInv, PhaseInv
  <2>2. QED
    BY <1>3, <2>1 DEF PhaseInv, AtTop, Inside, DownTypeOK, Elements, Onward
<1>8. ASSUME NEW n \in down.since, Pending(n)
      PROVE  Pending(n)' /\ StillToRead # <<>>
  <2>1. PICK j \in 1..(Len(Lineage[n]) - 1) :
           /\ Lineage[n][j + 1] \in Below(n)
           /\ Lineage[n][j] \in Elements(Tail(down.todo)) \cup Elements(down.fresh)
    BY <1>1, <1>8 DEF Pending
  <2>2. Lineage[n][j] \in Elements(StillToRead)
    BY <1>4, <2>1
  <2>3. StillToRead # <<>>
    BY <2>2 DEF Elements
  <2>4. down'.step = "open" /\ Lineage[n][j] \in Elements(down'.todo)
    BY <1>3, <2>2, <2>3 DEF Onward
  <2>5. QED
    BY <2>1, <2>3, <2>4 DEF Pending, Elements
<1>9. NothingLost'
  BY <1>1, <1>3, <1>8 DEF ScanInv, NothingLost, Inside, Onward
<1>10. QED
  BY <1>7, <1>9 DEF ScanInv

(* Other scans and tools leave this one as it is.                          *)
LEMMA QuietStep ==
  ASSUME TypeOK, ScanInv, [Next]_vars, UNCHANGED down
  PROVE  ScanInv'
<1>1. Exists("status", down.at) => Exists("status", down.at)'
  BY FilesStay DEF ScanInv, DownTypeOK, Down, Kinds
<1>2. PhaseInv'
  BY <1>1 DEF ScanInv, PhaseInv, AtTop, Inside, Exists, Elements
<1>3. DownTypeOK'
  BY DEF ScanInv, DownTypeOK
<1>4. NothingLost'
  <2>1. \A n \in down.since : Pending(n) => Pending(n)'
    BY DEF Pending, Inside, Elements
  <2>2. QED
    BY <2>1 DEF ScanInv, NothingLost, Inside
<1>5. QED
  BY <1>2, <1>3, <1>4 DEF ScanInv

TreeInvariant == TypeOK /\ FilesInDirs /\ SinceLive /\ ScanInv

(* The invariant of the scan, beside that of the tools.                    *)
THEOREM TreeInvCorrect == TreeSpec => []TreeInvariant
<1>1. Init /\ DownInit => TreeInvariant
  <2>1. DownInit => SinceLive /\ ScanInv
    BY TopAssumption
       DEF DownInit, SinceLive, ScanInv, DownTypeOK, Down, PhaseInv, AtTop, Inside, NothingLost,
           Elements
  <2>2. QED
    BY <2>1, InitTypeOK, FilesInDirsInit DEF TreeInvariant
<1>2. TreeInvariant /\ [TreeNext]_treeVars => TreeInvariant'
  <2>1. SUFFICES ASSUME TreeInvariant, [TreeNext]_treeVars PROVE TreeInvariant'
    OBVIOUS
  <2> USE DEF TreeInvariant
  <2>2. [Next]_vars
    BY <2>1 DEF TreeNext, treeVars, DownStart, DownScan, DownStatus, DownConf, OpenDir, ReadDir,
       ReadEnd
  <2>3. TypeOK' /\ FilesInDirs'
    BY <2>1, <2>2, NextTypeOK, FilesInDirsStep
  <2>4. SinceLive'
    BY <2>1, SinceStep DEF ScanInv
  <2>5. ScanInv'
    <3>1. CASE UNCHANGED down
      BY <2>1, <2>2, <3>1, QuietStep
    <3>2. CASE DownStart
      BY <2>1, <3>2, StartStep
    <3>3. CASE DownScan
      BY <2>1, <3>3, StatusStepOfTree, ConfStep, OpenStep, ReadStep, ReadEndStep DEF DownScan
    <3>4. QED
      BY <2>1, <3>1, <3>2, <3>3 DEF TreeNext, treeVars
  <2>6. QED
    BY <2>3, <2>4, <2>5
<1>3. QED
  BY <1>1, <1>2, PTL DEF TreeSpec

(* The scan keeps its types, and its place: a directory is open while      *)
(* there are entries to be read.                                           *)
THEOREM DownTypeCorrect == TreeSpec => []DownTypeOK
BY TreeInvCorrect, PTL DEF TreeInvariant, ScanInv

(* A scan that succeeds misses no node that was live when it began.        *)
THEOREM TreeIsCompleteCorrect == TreeSpec => []TreeIsComplete
<1>1. TreeInvariant => TreeIsComplete
  BY DEF TreeInvariant, ScanInv, NothingLost, TreeIsComplete
<1>2. QED
  BY <1>1, TreeInvCorrect, PTL

-----------------------------------------------------------------------------
(* Failures.                                                               *)

(* If no tool is killed and no call of the system fails, who truncates a   *)
(* file writes it, and nobody else ends at a write.                        *)
LEMMA TornStep ==
  ASSUME Faults = {}, TypeOK, TornIsWritten, [Next]_vars
  PROVE  TornIsWritten'
<1> SUFFICES ASSUME NEW k \in Kinds, NEW n \in Nodes, file'[k][n].st = "torn"
             PROVE  \E p \in Procs : pc'[p].step = "write" /\ KindOf(pc'[p].stage) = k /\ call'[p].at = n
  BY DEF TornIsWritten
<1> DEFINE IsWriting(q) == pc[q].step = "write" /\ KindOf(pc[q].stage) = k /\ call[q].at = n
<1>1. ASSUME NEW p \in Procs, NEW st, Store(p, st), pc[p].stage \in Stages
      PROVE  file'[k][n] = IF k = KindOf(pc[p].stage) /\ n = call[p].at
                             THEN IF st = "torn" THEN TornFile
                                  ELSE [st |-> st, name |-> call[p].hdr[k], rev |-> call[p].id]
                             ELSE file[k][n]
  <2>1. KindOf(pc[p].stage) \in Kinds /\ call[p].at \in Nodes
    BY <1>1, StageTables DEF TypeOK, Call
  <2>2. PICK K, A : K = KindOf(pc[p].stage) /\ A = call[p].at
    OBVIOUS
  <2>3. PICK new : new = IF st = "torn" THEN TornFile
                         ELSE [st |-> st, name |-> call[p].hdr[K], rev |-> call[p].id]
    OBVIOUS
  <2>4. file' = [file EXCEPT ![K] = [@ EXCEPT ![A] = new]]
    BY <1>1, <2>2, <2>3 DEF Store
  <2>5. file'[k][n] = IF k = K /\ n = A THEN new ELSE file[k][n]
    BY <2>1, <2>2, <2>4 DEF TypeOK
  <2>6. QED
    BY <2>2, <2>3, <2>5
<1>2. ASSUME NEW p \in Procs, NEW stage, NEW step, Goto(p, stage, step)
      PROVE  /\ pc'[p].stage = stage /\ pc'[p].step = step
             /\ \A q \in Procs \ {p} : pc'[q] = pc[q]
  BY <1>2 DEF Goto, TypeOK
<1>3. ASSUME NEW p \in Procs, OpenFile(p)
      PROVE  \E q \in Procs : IsWriting(q)'
  <2>1. /\ Store(p, "torn") /\ Goto(p, pc[p].stage, "write") /\ UNCHANGED call
        /\ pc[p].step = "open" /\ pc[p].stage \in Stages
    BY <1>3 DEF OpenFile, TypeOK, PlaceOK, StagesWith, Stages
  <2>2. CASE k = KindOf(pc[p].stage) /\ n = call[p].at
    BY <1>2, <2>1, <2>2
  <2>3. CASE ~ (k = KindOf(pc[p].stage) /\ n = call[p].at)
    <3>1. file[k][n].st = "torn"
      BY <1>1, <2>1, <2>3
    <3>2. PICK q \in Procs : IsWriting(q)
      BY <3>1 DEF TornIsWritten
    <3>3. q # p /\ pc'[q] = pc[q] /\ call' = call
      BY <1>2, <2>1, <3>2
    <3>4. QED
      BY <3>2, <3>3
  <2>4. QED
    BY <2>2, <2>3
<1>3a. ASSUME NEW p \in Procs, WritePart(p)
       PROVE  \E q \in Procs : IsWriting(q)'
  <2>1. PICK st : Store(p, st)
    BY <1>3a DEF WritePart
  <2>2. UNCHANGED <<pc, call>> /\ pc[p].step = "write" /\ pc[p].stage \in Stages
    BY <1>3a DEF WritePart, TypeOK, PlaceOK, StagesWith, Stages
  <2>3. CASE k = KindOf(pc[p].stage) /\ n = call[p].at
    BY <2>2, <2>3
  <2>4. CASE ~ (k = KindOf(pc[p].stage) /\ n = call[p].at)
    <3>1. file[k][n].st = "torn"
      BY <1>1, <2>1, <2>2, <2>4
    <3>2. PICK q \in Procs : IsWriting(q)
      BY <3>1 DEF TornIsWritten
    <3>3. QED
      BY <2>2, <3>2
  <2>5. QED
    BY <2>3, <2>4
<1>4. ASSUME NEW p \in Procs, WriteFile(p)
      PROVE  \E q \in Procs : IsWriting(q)'
  <2>1. /\ Store(p, "whole") /\ pc[p].stage \in Stages
        /\ \A q \in Procs \ {p} : pc'[q] = pc[q] /\ call'[q].at = call[q].at
    <3>1. pc[p].stage \in Stages
      BY <1>4 DEF WriteFile, TypeOK, PlaceOK, StagesWith, Stages
    <3>2. Store(p, "whole")
      BY <1>4 DEF WriteFile
    <3>3. \E stage : Goto(p, stage, "stat")
      BY <1>4 DEF WriteFile, Enter, Return
    <3>4. \A q \in Procs \ {p} : call'[q].at = call[q].at
      BY <1>4 DEF WriteFile, TypeOK
    <3>5. QED
      BY <1>2, <3>1, <3>2, <3>3, <3>4
  <2>2. ~ (k = KindOf(pc[p].stage) /\ n = call[p].at) /\ file[k][n].st = "torn"
    <3>1. file'[k][n] = IF k = KindOf(pc[p].stage) /\ n = call[p].at
                          THEN [st |-> "whole", name |-> call[p].hdr[k], rev |-> call[p].id]
                          ELSE file[k][n]
      BY <1>1, <2>1, Zenon
    <3>2. QED
      BY <3>1
  <2>3. PICK q \in Procs : IsWriting(q)
    BY <2>2 DEF TornIsWritten
  <2>4. q # p
    BY <2>2, <2>3
  <2>5. QED
    BY <2>1, <2>3, <2>4
<1>5. ASSUME NEW p \in Procs, pc[p].step # "write", UNCHANGED file,
             \A q \in Procs \ {p} : pc'[q] = pc[q] /\ call'[q].at = call[q].at
      PROVE  \E q \in Procs : IsWriting(q)'
  <2>1. PICK q \in Procs : IsWriting(q)
    BY <1>5 DEF TornIsWritten
  <2>2. q # p
    BY <1>5, <2>1
  <2>3. QED
    BY <1>5, <2>1, <2>2
<1>6. ASSUME NEW p \in Procs, UNCHANGED file,
             \/ \E m \in Nodes, update \in Updates, mode \in Modes : Begin(p, m, update, mode)
             \/ LookParent(p) \/ NoTemplate(p) \/ StatDirs(p) \/ MakeDir(p)
             \/ LoadHeaders(p) \/ CheckAbsent(p)
      PROVE  \E q \in Procs : IsWriting(q)'
  <2>1. PlaceOK(p)
    BY DEF TypeOK
  <2>2. pc[p].step # "write"
    BY <1>6, <2>1 DEF Begin, LookParent, NoTemplate, StatDirs, MakeDir, LoadHeaders, CheckAbsent,
       PlaceOK, StagesWith
  <2>3. \E x : pc' = [pc EXCEPT ![p] = x]
    BY <1>6 DEF Begin, LookParent, NoTemplate, StatDirs, MakeDir, LoadHeaders, CheckAbsent,
       Enter, EnterWork, Goto, Return
  <2>4. \A q \in Procs \ {p} : call'[q].at = call[q].at
    BY <1>6 DEF Begin, LookParent, NoTemplate, StatDirs, MakeDir, LoadHeaders, CheckAbsent, TypeOK
  <2>5. \A q \in Procs \ {p} : pc'[q] = pc[q]
    BY <2>3 DEF TypeOK
  <2>6. QED
    BY <1>5, <1>6, <2>2, <2>4, <2>5
<1>7. CASE UNCHANGED <<file, pc, call>>
  <2>1. PICK q \in Procs : IsWriting(q)
    BY <1>7 DEF TornIsWritten
  <2>2. QED
    BY <1>7, <2>1
<1>8. ASSUME NEW p \in Procs, NEW m, NEW update, NEW mode,
             \/ Begin(p, m, update, mode)
             \/ LookParent(p) \/ NoTemplate(p) \/ StatDirs(p) \/ MakeDir(p)
             \/ LoadHeaders(p) \/ CheckAbsent(p)
      PROVE  UNCHANGED file
  BY <1>8 DEF Begin, LookParent, NoTemplate, StatDirs, MakeDir, LoadHeaders, CheckAbsent
<1>9. \/ \E p \in Procs : OpenFile(p) \/ WritePart(p) \/ WriteFile(p)
      \/ \E p \in Procs :
           \/ \E m \in Nodes, update \in Updates, mode \in Modes : Begin(p, m, update, mode)
           \/ LookParent(p) \/ NoTemplate(p) \/ StatDirs(p) \/ MakeDir(p)
           \/ LoadHeaders(p) \/ CheckAbsent(p)
      \/ UNCHANGED <<file, pc, call>>
  <2>1. \A p \in Procs : ~ Crash(p)
    BY DEF Crash
  <2>2. (\E r \in Readers : (\E m \in Nodes : ScanStart(r, m)) \/ Reader(r)) =>
          UNCHANGED <<file, pc, call>>
    BY DEF ScanStart, Reader, ScanStatus, ScanConf, ScanAdmin
  <2>3. UNCHANGED vars => UNCHANGED <<file, pc, call>>
    BY DEF vars
  <2>4. QED
    BY <2>1, <2>2, <2>3 DEF Next, Tool
<1>10. QED
  BY <1>3, <1>3a, <1>4, <1>6, <1>7, <1>8, <1>9

(* If no tool is killed and no call of the system fails, a scan fails only *)
(* on a file that is being written, or if Top is no node.                  *)
THEOREM TreeFailsCorrect ==
  ASSUME Faults = {}
  PROVE  TreeSpec => TreeFailsForAReason
<1>1. Init => TornIsWritten
  BY DEF Init, TornIsWritten, OldFile, NoFile
<1>2. TreeSpec => []TornIsWritten
  <2>1. TypeOK /\ TornIsWritten /\ [Next]_vars => TornIsWritten'
    BY TornStep
  <2>2. QED
    BY <1>1, <2>1, TreeKeepsFactory, TypeCorrect, PTL DEF Spec
<1>3. TreeInvariant /\ IInv /\ TornIsWritten /\ [TreeNext]_treeVars =>
        (down.step # "fx" /\ down'.step = "fx" =>
           \/ ~ Exists("status", Top)
           \/ \E p \in Procs : pc[p].step = "write" /\ call[p].at = down.at)
  <2>1. SUFFICES ASSUME TreeInvariant, IInv, TornIsWritten, [TreeNext]_treeVars,
                        down.step # "fx", down'.step = "fx", Exists("status", Top)
                 PROVE  \E p \in Procs : pc[p].step = "write" /\ call[p].at = down.at
    OBVIOUS
  <2>2. down \in Down /\ down.at \in Nodes
    BY <2>1 DEF TreeInvariant, ScanInv, DownTypeOK, Down
  <2>3. ASSUME NEW k \in Kinds, file[k][down.at].st = "torn"
        PROVE  \E p \in Procs : pc[p].step = "write" /\ call[p].at = down.at
    BY <2>1, <2>2, <2>3 DEF TornIsWritten
  <2>4. ~ UNCHANGED down /\ ~ DownStart /\ ~ ReadDir /\ ~ ReadEnd
    BY <2>1, <2>2 DEF DownStart, ReadDir, ReadEnd, Onward, Down
  <2>5. ~ OpenDir
    BY <2>1, <2>2 DEF OpenDir, Down
  <2>6. CASE DownStatus
    <3>1. ~ LeaveOut
      BY <2>1, <2>2 DEF LeaveOut, Resume, Down
    <3>2. down' # [down EXCEPT !.step = "conf"]
      BY <2>1, <2>2 DEF Down
    <3>3. file["status"][down.at].st = "torn"
      BY <2>1, <2>6, <3>1, <3>2 DEF DownStatus, Exists
    <3>4. QED
      BY <2>3, <3>3 DEF Kinds
  <2>7. CASE DownConf
    <3>1. \A fresh, tree : ~ Resume(fresh, tree)
      BY <2>1, <2>2 DEF Resume, Down
    <3>2. down' # [down EXCEPT !.step = "open", !.todo = <<Top>>, !.tree = {Top}]
      BY <2>1, <2>2 DEF Down
    <3>3. LoadFails(Found("conf", down.at)) /\ down.step = "conf"
      BY <2>7, <3>1, <3>2 DEF DownConf
    <3>4. Exists("status", down.at)
      BY <2>1, <3>3 DEF TreeInvariant, ScanInv, PhaseInv
    <3>5. down.at \in OldNames \/ Exists("conf", down.at)
      BY <2>1, <2>2, <3>4 DEF IInv, StatusComesLast
    <3>6. file["conf"][down.at].st = "torn"
      BY <3>3, <3>5 DEF LoadFails, Found, OldFile, Exists
    <3>7. QED
      BY <2>3, <3>6 DEF Kinds
  <2>8. QED
    BY <2>1, <2>4, <2>5, <2>6, <2>7 DEF TreeNext, DownScan, treeVars
<1>4. QED
  BY <1>2, <1>3, TreeInvCorrect, TreeKeepsFactory, InvariantCorrect, PTL
     DEF TreeSpec, TreeFailsForAReason
=============================================================================
