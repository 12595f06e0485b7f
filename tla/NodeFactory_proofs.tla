-------------------------- MODULE NodeFactory_proofs ---------------------------
(***************************************************************************)
(* Proofs about NodeFactory: for any tree of nodes, any number of tools    *)
(* and readers, with crashes and failures.                                 *)
(***************************************************************************)
EXTENDS NodeFactory, TLAPS

(* The directory components of a stage are directories.                    *)
LEMMA PathType ==
  ASSUME NEW stage, NEW n \in Nodes
  PROVE  /\ PathOf(stage, n) \in Seq(Dir)
         /\ Len(PathOf(stage, n)) >= 1
         /\ \A i \in 1..Len(PathOf(stage, n)) : PathOf(stage, n)[i] \in Dir
<1>1. Lineage[n] \in Seq(Nodes) /\ Len(Lineage[n]) > 0
  BY LineageAssumption
<1>2. NodePath(n) \in Seq(Dir) /\ Len(NodePath(n)) = Len(Lineage[n])
  BY <1>1 DEF NodePath, Dir
<1>3. <<n, "etc">> \in Dir
  BY DEF Dir
<1>4. Append(NodePath(n), <<n, "etc">>) \in Seq(Dir)
      /\ Len(Append(NodePath(n), <<n, "etc">>)) = Len(NodePath(n)) + 1
  BY <1>2, <1>3
<1>5. PathOf(stage, n) \in Seq(Dir) /\ Len(PathOf(stage, n)) >= 1
  <2>1. CASE KindOf(stage) = "status"
    BY <2>1, <1>1, <1>2 DEF PathOf
  <2>2. CASE KindOf(stage) # "status"
    BY <2>2, <1>1, <1>2, <1>4 DEF PathOf
  <2>3. QED BY <2>1, <2>2
<1>6. QED BY <1>5

(* What the tables of stages give.                                         *)
LEMMA StageTables ==
  /\ \A stage \in Stages : KindOf(stage) \in Kinds
  /\ \A stage \in Stages \ {"save_status"} : After(stage) \in Stages
  /\ \A stage \in Stages \ {"dirs"} : Work(stage) \in {"load", "check", "open"}
  /\ \A update \in BOOLEAN : FirstStage(update) \in Stages
BY DEF Stages, KindOf, After, Work, FirstStage, Kinds

(* Types hold at first.                                                    *)
LEMMA InitTypeOK == Init => TypeOK
<1> SUFFICES ASSUME Init PROVE TypeOK
  OBVIOUS
<1>a. AnyNode \in Nodes
  BY NodesAssumption DEF AnyNode
<1>b. \A n \in Nodes : Len(Lineage[n]) \in Nat \ {0}
  <2> TAKE n \in Nodes
  <2>1. Lineage[n] \in Seq(Nodes) /\ Len(Lineage[n]) > 0
    BY LineageAssumption
  <2>2. QED
    BY <2>1
<1>1. dirs \subseteq Dir
  BY DEF Init
<1>2. file \in [Kinds -> [Nodes -> File]]
  BY DEF Init, File, OldFile, NoFile, TornFile, NoName
<1>3. call \in [Procs -> Call] /\ pc \in [Procs -> PC]
  BY <1>a DEF Init, Call, PC
<1>4. ret \in [Procs -> ReturnCodes] /\ begun \in Nat
  BY DEF Init, ReturnCodes
<1>5. scan \in [Readers -> Scan]
  BY <1>a DEF Init, Scan, File
<1>6. \A p \in Procs : PlaceOK(p)
  BY DEF Init, PlaceOK, StagesWith
<1>7. \A r \in Readers : scan[r].pos \in 1..Len(Lineage[scan[r].node])
  BY <1>a, <1>b DEF Init
<1>8. QED
  BY <1>1, <1>2, <1>3, <1>4, <1>5, <1>6, <1>7 DEF TypeOK

(* What going to a stage does to the places of the calls.                  *)
LEMMA GotoType ==
  ASSUME TypeOK, NEW p \in Procs, NEW stage, NEW step, Goto(p, stage, step),
         step \in {"stat", "load", "check", "open", "write"},
         stage \in StagesWith(step),
         call' \in [Procs -> Call],
         \A q \in Procs \ {p} : call'[q].at = call[q].at
  PROVE  pc' \in [Procs -> PC] /\ \A q \in Procs : PlaceOK(q)'
<1>1. stage \in Stages \union {"idle", "parent"}
  BY DEF StagesWith, Stages
<1>2. pc' \in [Procs -> PC]
  BY <1>1 DEF Goto, TypeOK, PC
<1>3. PlaceOK(p)'
  BY DEF Goto, TypeOK, PlaceOK
<1>4. ASSUME NEW q \in Procs \ {p} PROVE PlaceOK(q)'
  BY <1>4 DEF Goto, TypeOK, PlaceOK
<1>5. QED
  BY <1>2, <1>3, <1>4

(* A call that returns keeps the types,                                    *)
LEMMA ReturnType ==
  ASSUME TypeOK, NEW p \in Procs, NEW rc \in ReturnCodes, Return(p, rc), UNCHANGED call
  PROVE  /\ pc' \in [Procs -> PC] /\ \A q \in Procs : PlaceOK(q)'
         /\ ret' \in [Procs -> ReturnCodes]
<1>1. Goto(p, "idle", "stat") /\ "idle" \in StagesWith("stat")
  BY DEF Return, Enter, StagesWith
<1>2. ret' \in [Procs -> ReturnCodes]
  BY DEF Return, TypeOK
<1>3. QED
  BY <1>1, <1>2, GotoType DEF TypeOK

(* so does one that sets to the work of its stage,                         *)
LEMMA EnterWorkType ==
  ASSUME TypeOK, NEW p \in Procs, pc[p].stage \in Stages, EnterWork(p), UNCHANGED call
  PROVE  pc' \in [Procs -> PC] /\ \A q \in Procs : PlaceOK(q)'
<1>1. CASE pc[p].stage = "dirs"
  <2>1. Goto(p, After("dirs"), "stat") /\ After("dirs") \in StagesWith("stat")
    BY <1>1 DEF EnterWork, Enter, After, StagesWith, Stages
  <2>2. QED
    BY <2>1, GotoType DEF TypeOK
<1>2. CASE pc[p].stage # "dirs"
  <2>1. Goto(p, pc[p].stage, Work(pc[p].stage))
    BY <1>2 DEF EnterWork
  <2>2. Work(pc[p].stage) \in {"load", "check", "open"}
        /\ pc[p].stage \in StagesWith(Work(pc[p].stage))
    BY <1>2 DEF Work, StagesWith, Stages
  <2>3. QED
    BY <2>1, <2>2, GotoType DEF TypeOK
<1>3. QED
  BY <1>1, <1>2

(* Storing a file keeps the type of the file system.                       *)
LEMMA StoreType ==
  ASSUME TypeOK, NEW p \in Procs, NEW st \in {"torn", "cut", "whole"}, Store(p, st),
         pc[p].stage \in Stages
  PROVE  file' \in [Kinds -> [Nodes -> File]]
<1>1. KindOf(pc[p].stage) \in Kinds
  BY StageTables
<1>2. call[p].at \in Nodes /\ call[p].id \in Nat /\ call[p].hdr[KindOf(pc[p].stage)] \in Nat
  BY <1>1 DEF TypeOK, Call
<1> DEFINE new == IF st = "torn" THEN TornFile
                  ELSE [st |-> st, name |-> call[p].hdr[KindOf(pc[p].stage)],
                        rev |-> call[p].id]
<1>3. new \in File
  BY <1>2 DEF File
<1>4. file' = [file EXCEPT ![KindOf(pc[p].stage)] = [@ EXCEPT ![call[p].at] = new]]
  BY DEF Store
<1> HIDE DEF new
<1>5. QED
  BY <1>1, <1>2, <1>3, <1>4 DEF TypeOK

(* What the steps of a scan do to it.                                      *)
LEMMA FoundType ==
  ASSUME TypeOK, NEW r \in Readers, NEW k \in Kinds
  PROVE  ScanAt(r) \in Nodes /\ Found(k, ScanAt(r)) \in File
<1>1. scan[r].node \in Nodes /\ scan[r].pos \in 1..Len(Lineage[scan[r].node])
  BY DEF TypeOK, Scan
<1>2. Lineage[scan[r].node] \in Seq(Nodes)
  BY <1>1, LineageAssumption
<1>3. ScanAt(r) \in Nodes
  BY <1>1, <1>2 DEF ScanAt
<1>4. QED
  BY <1>3 DEF Found, TypeOK, OldFile, File

(* a scan that goes up,                                                    *)
LEMMA UpwardType ==
  ASSUME TypeOK, NEW r \in Readers,
         NEW seen \in SUBSET [node : Nodes, conf : File, admin : File], Upward(r, seen)
  PROVE  /\ scan' \in [Readers -> Scan]
         /\ \A q \in Readers : scan'[q].pos \in 1..Len(Lineage[scan'[q].node])
<1>1. /\ scan[r] \in Scan /\ scan[r].node \in Nodes
      /\ scan[r].pos \in 1..Len(Lineage[scan[r].node]) /\ scan[r].pos \in Nat
      /\ Len(Lineage[scan[r].node]) \in Nat
  BY LineageAssumption DEF TypeOK, Scan
<1>2. /\ scan' \in [Readers -> Scan]
      /\ scan'[r].node = scan[r].node
      /\ scan'[r].pos = IF scan[r].pos = 1 THEN 1 ELSE scan[r].pos - 1
      /\ \A q \in Readers \ {r} : scan'[q] = scan[q]
  BY <1>1 DEF Upward, TypeOK, Scan, File
<1>3. scan'[r].pos \in 1..Len(Lineage[scan'[r].node])
  BY <1>1, <1>2
<1>4. QED
  BY <1>2, <1>3 DEF TypeOK

(* and one that goes on with its node.                                     *)
LEMMA StepType ==
  ASSUME TypeOK, NEW r \in Readers, NEW step, NEW conf \in File,
         step \in {"fx", "conf", "admin"},
         \/ scan' = [scan EXCEPT ![r] = [@ EXCEPT !.step = step]]
         \/ scan' = [scan EXCEPT ![r] = [@ EXCEPT !.step = step, !.conf = conf]]
  PROVE  /\ scan' \in [Readers -> Scan]
         /\ \A q \in Readers : scan'[q].pos \in 1..Len(Lineage[scan'[q].node])
<1>1. scan[r] \in Scan
  BY DEF TypeOK
<1>2. PICK new \in Scan : /\ scan' = [scan EXCEPT ![r] = new]
                          /\ new.node = scan[r].node /\ new.pos = scan[r].pos
  BY <1>1 DEF Scan
<1>3. QED
  BY <1>2 DEF TypeOK

(* Every step keeps the types.                                             *)
LEMMA NextTypeOK == TypeOK /\ [Next]_vars => TypeOK'
<1> SUFFICES ASSUME TypeOK, [Next]_vars PROVE TypeOK'
  OBVIOUS
<1>1. ASSUME NEW p \in Procs, NEW n \in Nodes, NEW update \in Updates, NEW mode \in Modes,
             Begin(p, n, update, mode)
      PROVE  TypeOK'
  <2>1. FirstStage(update) \in Stages /\ update \in BOOLEAN
    BY NodesAssumption, StageTables
  <2>2. call' \in [Procs -> Call] /\ begun' \in Nat
    BY <1>1, <2>1 DEF Begin, TypeOK, Call
  <2>3. \A q \in Procs \ {p} : call'[q] = call[q]
    BY <1>1 DEF Begin, TypeOK
  <2>4. \E stage \in StagesWith("stat") : Goto(p, stage, "stat")
    BY <1>1, <2>1 DEF Begin, Enter, StagesWith
  <2>5. pc' \in [Procs -> PC] /\ \A q \in Procs : PlaceOK(q)'
    BY <2>2, <2>3, <2>4, GotoType
  <2>6. QED
    BY <1>1, <2>2, <2>5 DEF Begin, TypeOK
<1>2. ASSUME NEW p \in Procs, LookParent(p) PROVE TypeOK'
  <2> DEFINE line == Lineage[call[p].node]
             parent == line[Len(line) - 1]
  <2>1. line \in Seq(Nodes) /\ call[p].update \in BOOLEAN
    BY LineageAssumption DEF TypeOK, Call
  <2>2. FirstStage(call[p].update) \in Stages /\ FirstStage(FALSE) \in Stages
    BY <2>1, StageTables
  <2>3. UNCHANGED <<dirs, file, begun, scan>>
    BY <1>2 DEF LookParent
  <2>4. CASE Return(p, Error_At_Root) /\ UNCHANGED call
    BY <2>3, <2>4, ReturnType DEF TypeOK, ReturnCodes, Error_At_Root
  <2>5. CASE Enter(p, FirstStage(call[p].update)) /\ UNCHANGED <<call, ret>>
    <3>1. FirstStage(call[p].update) \in StagesWith("stat")
      BY <2>2 DEF StagesWith
    <3>2. pc' \in [Procs -> PC] /\ \A q \in Procs : PlaceOK(q)'
      BY <2>5, <3>1, GotoType DEF Enter, TypeOK
    <3>3. QED
      BY <2>3, <2>5, <3>2 DEF TypeOK
  <2>6. CASE /\ Len(line) > 1
             /\ call' = [call EXCEPT ![p] = [@ EXCEPT !.at = parent]]
             /\ Enter(p, FirstStage(FALSE))
             /\ UNCHANGED ret
    <3>1. parent \in Nodes
      BY <2>1, <2>6
    <3>2. call' \in [Procs -> Call] /\ \A q \in Procs \ {p} : call'[q] = call[q]
      BY <2>6, <3>1 DEF TypeOK, Call
    <3>3. FirstStage(FALSE) \in StagesWith("stat")
      BY <2>2 DEF StagesWith
    <3>4. pc' \in [Procs -> PC] /\ \A q \in Procs : PlaceOK(q)'
      BY <2>6, <3>2, <3>3, GotoType DEF Enter
    <3>5. QED
      BY <2>3, <2>6, <3>2, <3>4 DEF TypeOK
  <2>7. QED
    BY <1>2, <2>4, <2>5, <2>6 DEF LookParent
<1>3. ASSUME NEW p \in Procs, NoTemplate(p) PROVE TypeOK'
  <2>1. Return(p, Error_No_Template) /\ Error_No_Template \in ReturnCodes
    BY <1>3 DEF NoTemplate, Error_No_Template, ReturnCodes
  <2>2. QED
    BY <1>3, <2>1, ReturnType DEF NoTemplate, TypeOK
<1>4. ASSUME NEW p \in Procs, StatDirs(p) PROVE TypeOK'
  <2> DEFINE path == PathOf(pc[p].stage, call[p].at)
  <2>1. pc[p] \in PC /\ call[p].at \in Nodes
    BY DEF TypeOK, Call
  <2>2. UNCHANGED <<dirs, file, call, begun, scan>> /\ pc[p].stage \in Stages
    BY <1>4 DEF StatDirs
  <2>3. CASE Return(p, Error_Root_Not_Exist)
    BY <2>2, <2>3, ReturnType DEF TypeOK, ReturnCodes, Error_Root_Not_Exist
  <2>4. CASE UNCHANGED ret /\ \E k \in 2..Len(path) :
               pc' = [pc EXCEPT ![p] = [stage |-> @.stage, step |-> "mkdir", mk |-> k]]
    <3>1. PICK k \in 2..Len(path) :
            pc' = [pc EXCEPT ![p] = [stage |-> @.stage, step |-> "mkdir", mk |-> k]]
      BY <2>4
    <3>2. k \in Nat
      BY <2>1, PathType
    <3>3. pc' \in [Procs -> PC]
      BY <2>1, <3>1, <3>2 DEF TypeOK, PC
    <3>4. PlaceOK(p)'
      BY <2>2, <3>1 DEF TypeOK, PlaceOK, StagesWith
    <3>5. ASSUME NEW q \in Procs \ {p} PROVE PlaceOK(q)'
      BY <2>2, <3>1, <3>5 DEF TypeOK, PlaceOK
    <3>6. QED
      BY <2>2, <2>4, <3>3, <3>4, <3>5 DEF TypeOK
  <2>5. CASE EnterWork(p) /\ UNCHANGED ret
    BY <2>2, <2>5, EnterWorkType DEF TypeOK
  <2>6. QED
    BY <1>4, <2>3, <2>4, <2>5 DEF StatDirs
<1>5. ASSUME NEW p \in Procs, MakeDir(p) PROVE TypeOK'
  <2> DEFINE path == PathOf(pc[p].stage, call[p].at)
             k == pc[p].mk
  <2>1. pc[p] \in PC /\ call[p].at \in Nodes /\ PlaceOK(p)
    BY DEF TypeOK, Call
  <2>2. UNCHANGED <<file, call, begun, scan>> /\ pc[p].stage \in Stages
    BY <1>5, <2>1 DEF MakeDir, PlaceOK, StagesWith
  <2>3. Len(path) \in Nat /\ k \in 2..Len(path) /\ path[k] \in Dir
    BY <1>5, <2>1, PathType DEF MakeDir, PlaceOK
  <2>4. CASE Return(p, Error_MkDir) /\ UNCHANGED dirs
    BY <2>2, <2>4, ReturnType DEF TypeOK, ReturnCodes, Error_MkDir
  <2>5. CASE /\ dirs' = dirs \union {path[k]} /\ UNCHANGED ret
             /\ k < Len(path)
             /\ pc' = [pc EXCEPT ![p] = [stage |-> @.stage, step |-> "mkdir", mk |-> k + 1]]
    <3>1. k + 1 \in Nat /\ k + 1 \in 2..Len(path)
      BY <2>3, <2>5
    <3>2. pc' \in [Procs -> PC]
      BY <2>1, <2>5, <3>1 DEF TypeOK, PC
    <3>3. PlaceOK(p)'
      BY <2>2, <2>5, <3>1 DEF TypeOK, PlaceOK, StagesWith
    <3>4. ASSUME NEW q \in Procs \ {p} PROVE PlaceOK(q)'
      BY <2>2, <2>5, <3>4 DEF TypeOK, PlaceOK
    <3>5. dirs' \subseteq Dir
      BY <2>3, <2>5 DEF TypeOK
    <3>6. QED
      BY <2>2, <2>5, <3>2, <3>3, <3>4, <3>5 DEF TypeOK
  <2>6. CASE dirs' = dirs \union {path[k]} /\ UNCHANGED ret /\ EnterWork(p)
    <3>1. dirs' \subseteq Dir
      BY <2>3, <2>6 DEF TypeOK
    <3>2. QED
      BY <2>2, <2>6, <3>1, EnterWorkType DEF TypeOK
  <2>7. QED
    BY <1>5, <2>4, <2>5, <2>6 DEF MakeDir
<1>6. ASSUME NEW p \in Procs, LoadHeaders(p) PROVE TypeOK'
  <2> DEFINE k == KindOf(pc[p].stage)
             f == file[k][call[p].at]
  <2>1. PlaceOK(p) /\ call[p] \in Call
    BY DEF TypeOK
  <2>2. UNCHANGED <<dirs, file, begun, scan>> /\ pc[p].stage \in {"hdr_conf", "hdr_admin"}
    BY <1>6, <2>1 DEF LoadHeaders, PlaceOK, StagesWith
  <2>3. CASE Return(p, Error_Config_Not_Exist) /\ UNCHANGED call
    BY <2>2, <2>3, ReturnType DEF TypeOK, ReturnCodes, Error_Config_Not_Exist
  <2>4. CASE /\ Loads(f)
             /\ call' = [call EXCEPT ![p].hdr = [call[p].hdr EXCEPT ![k] = f.name]]
             /\ Enter(p, After(pc[p].stage)) /\ UNCHANGED ret
    <3>1. k \in Kinds /\ After(pc[p].stage) \in StagesWith("stat")
      BY <2>2, StageTables DEF Stages, StagesWith
    <3>2. f.name \in Nat
      <4>1. f \in File /\ f.st \in {"cut", "whole"}
        BY <2>1, <2>4, <3>1 DEF TypeOK, Call, Loads
      <4>2. QED
        BY <4>1 DEF File, NoFile, TornFile
    <3>3. [call[p].hdr EXCEPT ![k] = f.name] \in [Kinds -> Nat]
      BY <2>1, <3>1, <3>2 DEF Call
    <3>4. /\ call' \in [Procs -> Call]
          /\ \A q \in Procs \ {p} : call'[q].at = call[q].at
      <4> DEFINE h == [call[p].hdr EXCEPT ![k] = f.name]
      <4>1. h \in [Kinds -> Nat] /\ call' = [call EXCEPT ![p].hdr = h]
        BY <2>4, <3>3
      <4> HIDE DEF h
      <4>2. QED
        BY <2>1, <4>1 DEF TypeOK, Call
    <3>5. pc' \in [Procs -> PC] /\ \A q \in Procs : PlaceOK(q)'
      BY <2>4, <3>1, <3>4, GotoType DEF Enter
    <3>6. QED
      BY <2>2, <2>4, <3>4, <3>5 DEF TypeOK
  <2>5. QED
    BY <1>6, <2>3, <2>4 DEF LoadHeaders
<1>7. ASSUME NEW p \in Procs, CheckAbsent(p) PROVE TypeOK'
  <2>1. PlaceOK(p)
    BY DEF TypeOK
  <2>2. /\ UNCHANGED <<dirs, file, call, begun, scan>>
        /\ pc[p].stage \in StagesWith("open")
    BY <1>7, <2>1 DEF CheckAbsent, PlaceOK, StagesWith
  <2>3. CASE Return(p, Error_Config_Exist)
    BY <2>2, <2>3, ReturnType DEF TypeOK, ReturnCodes, Error_Config_Exist
  <2>4. CASE Goto(p, pc[p].stage, "open") /\ UNCHANGED ret
    BY <2>2, <2>4, GotoType DEF TypeOK
  <2>5. QED
    BY <1>7, <2>3, <2>4 DEF CheckAbsent
<1>8. ASSUME NEW p \in Procs, OpenFile(p) PROVE TypeOK'
  <2>1. PlaceOK(p)
    BY DEF TypeOK
  <2>2. /\ UNCHANGED <<dirs, call, begun, scan>>
        /\ pc[p].stage \in StagesWith("write") /\ pc[p].stage \in Stages
    BY <1>8, <2>1 DEF OpenFile, PlaceOK, StagesWith, Stages
  <2>3. CASE Return(p, StoreError(pc[p].stage)) /\ UNCHANGED file
    <3>1. StoreError(pc[p].stage) \in ReturnCodes
      BY DEF StoreError, Error_Storing_Status, Error_Storing_Config, ReturnCodes
    <3>2. QED
      BY <2>2, <2>3, <3>1, ReturnType DEF TypeOK
  <2>4. CASE Store(p, "torn") /\ Goto(p, pc[p].stage, "write") /\ UNCHANGED ret
    BY <2>2, <2>4, GotoType, StoreType DEF TypeOK
  <2>5. QED
    BY <1>8, <2>3, <2>4 DEF OpenFile
<1>8a. ASSUME NEW p \in Procs, WritePart(p) PROVE TypeOK'
  <2>1. PlaceOK(p)
    BY DEF TypeOK
  <2>2. pc[p].stage \in Stages
    BY <1>8a, <2>1 DEF WritePart, PlaceOK, StagesWith, Stages
  <2>3. file' \in [Kinds -> [Nodes -> File]]
    BY <1>8a, <2>2, StoreType DEF WritePart
  <2>4. QED
    BY <1>8a, <2>3 DEF WritePart, TypeOK, PlaceOK
<1>9. ASSUME NEW p \in Procs, WriteFile(p) PROVE TypeOK'
  <2>1. PlaceOK(p) /\ call[p] \in Call
    BY DEF TypeOK
  <2>2. /\ UNCHANGED <<dirs, begun, scan>>
        /\ pc[p].stage \in {"save_conf", "save_admin", "save_status"} /\ pc[p].stage \in Stages
    BY <1>9, <2>1 DEF WriteFile, PlaceOK, StagesWith, Stages
  <2>3. CASE Return(p, StoreError(pc[p].stage)) /\ UNCHANGED <<file, call>>
    <3>1. StoreError(pc[p].stage) \in ReturnCodes
      BY DEF StoreError, Error_Storing_Status, Error_Storing_Config, ReturnCodes
    <3>2. QED
      BY <2>2, <2>3, <3>1, ReturnType DEF TypeOK
  <2>4. CASE /\ Store(p, "whole") /\ pc[p].stage # "save_status"
             /\ Enter(p, After(pc[p].stage)) /\ UNCHANGED <<call, ret>>
    <3>1. After(pc[p].stage) \in StagesWith("stat")
      BY <2>2, <2>4, StageTables DEF StagesWith
    <3>2. pc' \in [Procs -> PC] /\ \A q \in Procs : PlaceOK(q)'
      BY <2>4, <3>1, GotoType DEF Enter, TypeOK
    <3>3. QED
      BY <2>2, <2>4, <3>2, StoreType DEF TypeOK
  <2>5. CASE Store(p, "whole") /\ Return(p, 0) /\ UNCHANGED call
    <3>1. 0 \in ReturnCodes
      BY DEF ReturnCodes
    <3>2. QED
      BY <2>2, <2>5, <3>1, StoreType, ReturnType DEF TypeOK
  <2>6. CASE /\ Store(p, "whole")
             /\ call' = [call EXCEPT ![p] = [@ EXCEPT !.at = call[p].node]]
             /\ Enter(p, FirstStage(call[p].update)) /\ UNCHANGED ret
    <3>1. call' \in [Procs -> Call] /\ \A q \in Procs \ {p} : call'[q] = call[q]
      BY <2>1, <2>6 DEF TypeOK, Call
    <3>2. FirstStage(call[p].update) \in StagesWith("stat")
      BY <2>1, StageTables DEF StagesWith, Call
    <3>3. pc' \in [Procs -> PC] /\ \A q \in Procs : PlaceOK(q)'
      BY <2>6, <3>1, <3>2, GotoType DEF Enter
    <3>4. QED
      BY <2>2, <2>6, <3>1, <3>3, StoreType DEF TypeOK
  <2>7. QED
    BY <1>9, <2>3, <2>4, <2>5, <2>6 DEF WriteFile
<1>10. ASSUME NEW p \in Procs, Crash(p) PROVE TypeOK'
  <2>1. Goto(p, "idle", "stat") /\ "idle" \in StagesWith("stat")
    BY <1>10 DEF Crash, Enter, StagesWith
  <2>2. QED
    BY <1>10, <2>1, GotoType DEF Crash, TypeOK
<1>11. ASSUME NEW r \in Readers, NEW n \in Nodes, ScanStart(r, n) PROVE TypeOK'
  <2>1. Len(Lineage[n]) \in Nat /\ Len(Lineage[n]) > 0
    BY LineageAssumption
  <2>2. scan' \in [Readers -> Scan]
    BY <1>11, <2>1 DEF ScanStart, TypeOK, Scan, File
  <2>3. \A q \in Readers : scan'[q].pos \in 1..Len(Lineage[scan'[q].node])
    BY <1>11, <2>1 DEF ScanStart, TypeOK
  <2>4. QED
    BY <1>11, <2>2, <2>3 DEF ScanStart, TypeOK, PlaceOK
<1>12. ASSUME NEW r \in Readers, ScanStatus(r) PROVE TypeOK'
  <2>1. UNCHANGED <<dirs, file, call, pc, ret, begun>>
    BY <1>12 DEF ScanStatus
  <2>2. scan' \in [Readers -> Scan]
        /\ \A q \in Readers : scan'[q].pos \in 1..Len(Lineage[scan'[q].node])
    BY <1>12, UpwardType, StepType DEF ScanStatus, Stop, TypeOK, Scan
  <2>3. QED
    BY <2>1, <2>2 DEF TypeOK, PlaceOK
<1>13. ASSUME NEW r \in Readers, ScanConf(r) PROVE TypeOK'
  <2>1. UNCHANGED <<dirs, file, call, pc, ret, begun>>
    BY <1>13 DEF ScanConf
  <2>2. Found("conf", ScanAt(r)) \in File
    BY FoundType DEF Kinds
  <2>3. scan' \in [Readers -> Scan]
        /\ \A q \in Readers : scan'[q].pos \in 1..Len(Lineage[scan'[q].node])
    BY <1>13, <2>2, StepType DEF ScanConf, Stop
  <2>4. QED
    BY <2>1, <2>3 DEF TypeOK, PlaceOK
<1>14. ASSUME NEW r \in Readers, ScanAdmin(r) PROVE TypeOK'
  <2>1. UNCHANGED <<dirs, file, call, pc, ret, begun>>
    BY <1>14 DEF ScanAdmin
  <2> DEFINE e == [node |-> ScanAt(r), conf |-> scan[r].conf, admin |-> Found("admin", ScanAt(r))]
  <2>2. scan[r] \in Scan /\ e \in [node : Nodes, conf : File, admin : File]
    BY FoundType DEF Kinds, TypeOK, Scan
  <2>3. scan[r].seen \union {e} \in SUBSET [node : Nodes, conf : File, admin : File]
    BY <2>2 DEF Scan
  <2>4. scan' \in [Readers -> Scan]
        /\ \A q \in Readers : scan'[q].pos \in 1..Len(Lineage[scan'[q].node])
    BY <1>14, <2>3, UpwardType, StepType DEF ScanAdmin, Stop
  <2>5. QED
    BY <2>1, <2>4 DEF TypeOK, PlaceOK
<1>15. CASE UNCHANGED vars
  BY <1>15 DEF vars, TypeOK, PlaceOK
<1>16. QED
  BY <1>1, <1>2, <1>3, <1>4, <1>5, <1>6, <1>7, <1>8, <1>8a, <1>9, <1>10, <1>11, <1>12,
     <1>13, <1>14, <1>15 DEF Next, Tool, Reader

(* Types hold in every state.                                              *)
THEOREM TypeCorrect == Spec => []TypeOK
<1>1. QED
  BY InitTypeOK, NextTypeOK, PTL DEF Spec

-----------------------------------------------------------------------------
(* A file once made exists for ever: only Store changes files, and it      *)
(* leaves one torn, cut or whole.                                          *)
LEMMA StoreMakes ==
  ASSUME TypeOK, NEW p \in Procs, NEW st \in {"torn", "cut", "whole"}, Store(p, st),
         pc[p].stage \in Stages,
         NEW K, NEW A, K = KindOf(pc[p].stage), A = call[p].at
  PROVE  /\ Exists(K, A)'
         /\ \A k \in Kinds, n \in Nodes : Exists(k, n) => Exists(k, n)'
         /\ \A k \in Kinds, n \in Nodes :
              Exists(k, n)' => Exists(k, n) \/ (k = K /\ n = A)
<1>1. K \in Kinds /\ A \in Nodes
  BY StageTables DEF TypeOK, Call
<1> DEFINE new == IF st = "torn" THEN TornFile
                  ELSE [st |-> st, name |-> call[p].hdr[K], rev |-> call[p].id]
<1>2. file' = [file EXCEPT ![K] = [@ EXCEPT ![A] = new]]
  BY DEF Store
<1>3. new.st # "absent"
  BY DEF TornFile
<1> HIDE DEF new
<1>4. \A k \in Kinds, n \in Nodes :
        file'[k][n] = IF k = K /\ n = A THEN new ELSE file[k][n]
  BY <1>1, <1>2 DEF TypeOK
<1>5. QED
  BY <1>1, <1>3, <1>4 DEF Exists

(* Files are never removed.                                                *)
LEMMA FilesStay ==
  ASSUME TypeOK, [Next]_vars
  PROVE  \A k \in Kinds, n \in Nodes : Exists(k, n) => Exists(k, n)'
<1>1. CASE UNCHANGED file
  BY <1>1 DEF Exists
<1>2. CASE \E p \in Procs, st \in {"torn", "cut", "whole"} :
             Store(p, st) /\ pc[p].stage \in Stages
  BY <1>2, StoreMakes
<1>3. UNCHANGED file \/ \E p \in Procs, st \in {"torn", "cut", "whole"} :
                          Store(p, st) /\ pc[p].stage \in Stages
  <2>1. ASSUME NEW p \in Procs, OpenFile(p) \/ WritePart(p) \/ WriteFile(p), ~ UNCHANGED file
        PROVE  \E st \in {"torn", "cut", "whole"} : Store(p, st) /\ pc[p].stage \in Stages
    <3>1. PlaceOK(p)
      BY DEF TypeOK
    <3>2. pc[p].stage \in Stages
      BY <2>1, <3>1 DEF OpenFile, WritePart, WriteFile, PlaceOK, StagesWith, Stages
    <3>3. QED
      BY <2>1, <3>2 DEF OpenFile, WritePart, WriteFile
  <2>2. QED
    BY <2>1 DEF Next, Tool, Reader, vars, Begin, LookParent, NoTemplate, StatDirs, MakeDir,
                LoadHeaders, CheckAbsent, Crash, ScanStart, ScanStatus, ScanConf, ScanAdmin
<1>4. QED
  BY <1>1, <1>2, <1>3

(* IInv holds at first.                                                    *)
LEMMA InitIInv == Init => IInv
<1> SUFFICES ASSUME Init PROVE IInv
  OBVIOUS
<1>1. StagesInOrder /\ ScanInOrder /\ ScanHasAdmin
  BY DEF Init, StagesInOrder, FilesBefore, ScanInOrder, ScanHasAdmin
<1>2. StatusComesLast
  BY DEF Init, StatusComesLast, Exists, Kinds, OldFile, NoFile
<1>3. QED
  BY <1>1, <1>2 DEF IInv

(* A call that a step leaves where it is keeps the files it has made.      *)
LEMMA OthersKeep ==
  ASSUME TypeOK, [Next]_vars, NEW q \in Procs, FilesBefore(q),
         pc'[q] = pc[q], call'[q].at = call[q].at
  PROVE  FilesBefore(q)'
<1>1. call[q].at \in Nodes /\ PlaceOK(q)
  BY DEF TypeOK, Call
<1>2. pc[q].step = "write" => KindOf(pc[q].stage) \in Kinds
  BY <1>1, StageTables DEF PlaceOK, StagesWith, Stages
<1>3. QED
  BY <1>1, <1>2, FilesStay DEF FilesBefore, Kinds

(* A call that enters a stage that stores nothing after another needs none.*)
LEMMA EnterKeeps ==
  ASSUME NEW p \in Procs, TypeOK, NEW stage, NEW step, Goto(p, stage, step),
         stage \notin {"save_admin", "save_status"}, step # "write"
  PROVE  FilesBefore(p)'
BY DEF Goto, TypeOK, FilesBefore

(* The same stage, one step further, or the next one.                      *)
LEMMA SameStageKeeps ==
  ASSUME TypeOK, [Next]_vars, NEW p \in Procs, FilesBefore(p),
         pc'[p].stage = pc[p].stage, pc'[p].step # "write", call'[p].at = call[p].at
  PROVE  FilesBefore(p)'
<1>1. call[p].at \in Nodes
  BY DEF TypeOK, Call
<1>2. QED
  BY <1>1, FilesStay DEF FilesBefore, Kinds

(* The order of the stages through any step.                               *)
LEMMA StagesStep == TypeOK /\ StagesInOrder /\ [Next]_vars => StagesInOrder'
<1> SUFFICES ASSUME TypeOK, StagesInOrder, [Next]_vars PROVE StagesInOrder'
  OBVIOUS
<1> USE DEF StagesInOrder
<1>1. ASSUME NEW p \in Procs, NEW stage, NEW step, Goto(p, stage, step), FilesBefore(p)',
             \A q \in Procs \ {p} : call'[q].at = call[q].at
      PROVE  StagesInOrder'
  <2>1. \A q \in Procs \ {p} : pc'[q] = pc[q]
    BY <1>1 DEF Goto, TypeOK
  <2>2. QED
    BY <1>1, <2>1, OthersKeep
<1>2. ASSUME NEW p \in Procs, NEW rc, Return(p, rc), UNCHANGED call
      PROVE  StagesInOrder'
  BY <1>1, <1>2, EnterKeeps DEF Return, Enter
<1>3. ASSUME NEW p \in Procs, NEW n \in Nodes, NEW update \in Updates, NEW mode \in Modes,
             Begin(p, n, update, mode)
      PROVE  StagesInOrder'
  <2>1. \E stage \in {"parent", "hdr_conf", "dirs"} : Goto(p, stage, "stat")
    BY <1>3 DEF Begin, Enter, FirstStage
  <2>2. \A q \in Procs \ {p} : call'[q].at = call[q].at
    BY <1>3 DEF Begin, TypeOK
  <2>3. QED
    BY <1>1, <2>1, <2>2, EnterKeeps
<1>4. ASSUME NEW p \in Procs, LookParent(p) PROVE StagesInOrder'
  <2>1. CASE \E rc : Return(p, rc) /\ UNCHANGED call
    BY <1>2, <2>1
  <2>2. CASE \E update : Enter(p, FirstStage(update))
    <3>1. \E stage \in {"hdr_conf", "dirs"} : Goto(p, stage, "stat")
      BY <2>2 DEF Enter, FirstStage
    <3>2. \A q \in Procs \ {p} : call'[q].at = call[q].at
      BY <1>4 DEF LookParent, TypeOK
    <3>3. QED
      BY <1>1, <3>1, <3>2, EnterKeeps
  <2>3. QED
    BY <1>4, <2>1, <2>2 DEF LookParent
<1>5. ASSUME NEW p \in Procs, NoTemplate(p) PROVE StagesInOrder'
  BY <1>2, <1>5 DEF NoTemplate
<1>6. ASSUME NEW p \in Procs, EnterWork(p), pc[p].stage \in Stages, UNCHANGED call
      PROVE  StagesInOrder'
  <2>1. CASE pc[p].stage = "dirs"
    BY <1>1, <1>6, <2>1, EnterKeeps DEF EnterWork, Enter, After
  <2>2. CASE pc[p].stage # "dirs"
    <3>1. Goto(p, pc[p].stage, Work(pc[p].stage)) /\ Work(pc[p].stage) # "write"
      BY <1>6, <2>2 DEF EnterWork, Work, Stages
    <3>2. pc'[p].stage = pc[p].stage /\ pc'[p].step # "write"
      BY <3>1 DEF Goto, TypeOK
    <3>3. QED
      BY <1>1, <1>6, <3>1, <3>2, SameStageKeeps
  <2>3. QED
    BY <2>1, <2>2
<1>7. ASSUME NEW p \in Procs, NEW k, pc' = [pc EXCEPT ![p] = [stage |-> @.stage, step |-> "mkdir", mk |-> k]],
             UNCHANGED call
      PROVE  StagesInOrder'
  <2>1. pc'[p].stage = pc[p].stage /\ pc'[p].step # "write"
        /\ \A q \in Procs \ {p} : pc'[q] = pc[q]
    BY <1>7 DEF TypeOK
  <2>2. QED
    BY <1>7, <2>1, SameStageKeeps, OthersKeep
<1>8. ASSUME NEW p \in Procs, StatDirs(p) PROVE StagesInOrder'
  BY <1>2, <1>6, <1>7, <1>8 DEF StatDirs
<1>9. ASSUME NEW p \in Procs, MakeDir(p) PROVE StagesInOrder'
  <2>1. PlaceOK(p)
    BY DEF TypeOK
  <2>2. pc[p].stage \in Stages
    BY <1>9, <2>1 DEF MakeDir, PlaceOK, StagesWith
  <2>3. QED
    BY <1>2, <1>6, <1>7, <1>9, <2>2 DEF MakeDir
<1>10. ASSUME NEW p \in Procs, LoadHeaders(p) PROVE StagesInOrder'
  <2>1. PlaceOK(p)
    BY DEF TypeOK
  <2>2. After(pc[p].stage) \in {"hdr_admin", "dirs"}
    BY <1>10, <2>1 DEF LoadHeaders, PlaceOK, StagesWith, After
  <2>3. \A q \in Procs \ {p} : call'[q].at = call[q].at
    BY <1>10 DEF LoadHeaders, TypeOK
  <2>4. CASE Enter(p, After(pc[p].stage))
    BY <1>1, <2>2, <2>3, <2>4, EnterKeeps DEF Enter
  <2>5. QED
    BY <1>2, <1>10, <2>4 DEF LoadHeaders
<1>11. ASSUME NEW p \in Procs, CheckAbsent(p) PROVE StagesInOrder'
  <2>1. CASE Goto(p, pc[p].stage, "open") /\ UNCHANGED call
    <3>1. pc'[p].stage = pc[p].stage /\ pc'[p].step # "write"
      BY <2>1 DEF Goto, TypeOK
    <3>2. QED
      BY <1>1, <2>1, <3>1, SameStageKeeps
  <2>2. QED
    BY <1>2, <1>11, <2>1 DEF CheckAbsent
<1>12. ASSUME NEW p \in Procs, OpenFile(p) PROVE StagesInOrder'
  <2>1. PlaceOK(p) /\ call[p].at \in Nodes
    BY DEF TypeOK, Call
  <2>2. pc[p].stage \in Stages
    BY <1>12, <2>1 DEF OpenFile, PlaceOK, StagesWith, Stages
  <2>3. CASE Store(p, "torn") /\ Goto(p, pc[p].stage, "write") /\ UNCHANGED call
    <3>1. pc'[p].stage = pc[p].stage
      BY <2>3 DEF Goto, TypeOK
    <3>a. PICK K, A : K = KindOf(pc[p].stage) /\ A = call[p].at
      OBVIOUS
    <3>2. Exists(K, A)'
      BY <2>2, <2>3, <3>a, StoreMakes
    <3>3. Exists("conf", A) => Exists("conf", A)'
      BY <2>1, <3>a, FilesStay DEF Kinds
    <3>4. Exists("admin", A) => Exists("admin", A)'
      BY <2>1, <3>a, FilesStay DEF Kinds
    <3>5. FilesBefore(p)'
      BY <2>3, <3>a, <3>1, <3>2, <3>3, <3>4 DEF FilesBefore, Exists
    <3>6. QED
      BY <1>1, <2>3, <3>5
  <2>4. QED
    BY <1>2, <1>12, <2>3 DEF OpenFile
<1>13. ASSUME NEW p \in Procs, WriteFile(p) PROVE StagesInOrder'
  <2>1. PlaceOK(p) /\ call[p].at \in Nodes
    BY DEF TypeOK, Call
  <2>2. pc[p].stage \in {"save_conf", "save_admin", "save_status"}
    BY <1>13, <2>1 DEF WriteFile, PlaceOK, StagesWith
  <2>3. CASE Enter(p, After(pc[p].stage)) /\ pc[p].stage # "save_status" /\ UNCHANGED call
    <3>1. pc'[p] = [stage |-> After(pc[p].stage), step |-> "stat", mk |-> 0]
      BY <2>3 DEF Enter, Goto, TypeOK
    <3>2. Exists(KindOf(pc[p].stage), call[p].at)
      BY <1>13 DEF WriteFile, FilesBefore
    <3>3. CASE pc[p].stage = "save_conf"
      <4>1. Exists("conf", call[p].at)'
        BY <2>1, <2>3, <3>2, <3>3, FilesStay DEF KindOf, Kinds, Exists
      <4>2. FilesBefore(p)'
        BY <3>1, <3>3, <4>1 DEF FilesBefore, After
      <4>3. QED
        BY <1>1, <2>3, <4>2 DEF Enter
    <3>4. CASE pc[p].stage = "save_admin"
      <4>1. Exists("conf", call[p].at)' /\ Exists("admin", call[p].at)'
        BY <2>1, <2>3, <3>2, <3>4, FilesStay DEF KindOf, Kinds, Exists, FilesBefore
      <4>2. FilesBefore(p)'
        BY <3>1, <3>4, <4>1 DEF FilesBefore, After
      <4>3. QED
        BY <1>1, <2>3, <4>2 DEF Enter
    <3>5. QED
      BY <2>2, <2>3, <3>3, <3>4
  <2>4. CASE Enter(p, FirstStage(call[p].update)) /\ \A q \in Procs \ {p} : call'[q].at = call[q].at
    <3>1. \E stage \in {"hdr_conf", "dirs"} : Goto(p, stage, "stat")
      BY <2>4 DEF Enter, FirstStage
    <3>2. QED
      BY <1>1, <2>4, <3>1, EnterKeeps
  <2>5. \A q \in Procs \ {p} : call'[q].at = call[q].at
    BY <1>13 DEF WriteFile, TypeOK
  <2>6. QED
    BY <1>2, <1>13, <2>3, <2>4, <2>5 DEF WriteFile
<1>14. ASSUME NEW p \in Procs, Crash(p) PROVE StagesInOrder'
  BY <1>1, <1>14, EnterKeeps DEF Crash, Enter
<1>15. CASE UNCHANGED <<pc, call>>
  BY <1>15, OthersKeep
<1>16. QED
  BY <1>3, <1>4, <1>5, <1>8, <1>9, <1>10, <1>11, <1>12, <1>13, <1>14, <1>15
     DEF Next, Tool, Reader, WritePart, ScanStart, ScanStatus, ScanConf, ScanAdmin, vars

(* Only the opening and the writing of a status make one, after both       *)
(* configurations.                                                         *)
LEMMA StatusStep ==
  TypeOK /\ StagesInOrder /\ StatusComesLast /\ [Next]_vars => StatusComesLast'
<1> SUFFICES ASSUME TypeOK, StagesInOrder, StatusComesLast, [Next]_vars,
                    NEW n \in Nodes \ OldNames, Exists("status", n)'
             PROVE  Exists("conf", n)' /\ Exists("admin", n)'
  BY DEF StatusComesLast
<1>1. CASE Exists("status", n)
  BY <1>1, FilesStay DEF StatusComesLast, Kinds
<1>2. CASE ~ Exists("status", n)
  <2>1. PICK p \in Procs : OpenFile(p) \/ WritePart(p) \/ WriteFile(p)
    BY <1>2 DEF Exists, Next, Tool, Reader, vars, Begin, LookParent, NoTemplate, StatDirs, MakeDir,
                LoadHeaders, CheckAbsent, Crash, ScanStart, ScanStatus, ScanConf, ScanAdmin
  <2>2. PlaceOK(p)
    BY DEF TypeOK
  <2>3. pc[p].stage \in {"save_conf", "save_admin", "save_status"} /\ pc[p].stage \in Stages
    BY <2>1, <2>2 DEF OpenFile, WritePart, WriteFile, PlaceOK, StagesWith, Stages
  <2>4. PICK st \in {"torn", "cut", "whole"} : Store(p, st)
    BY <1>2, <2>1 DEF OpenFile, WritePart, WriteFile, Exists
  <2>5. KindOf(pc[p].stage) = "status" /\ call[p].at = n
    BY <1>2, <2>3, <2>4, StoreMakes DEF Kinds
  <2>6. pc[p].stage = "save_status"
    BY <2>3, <2>5 DEF KindOf
  <2>7. Exists("conf", n) /\ Exists("admin", n)
    BY <2>5, <2>6 DEF StagesInOrder, FilesBefore
  <2>8. QED
    BY <2>7, FilesStay DEF Kinds
<1>3. QED
  BY <1>1, <1>2

(* A reader that is past the status of a node has seen one, and so finds   *)
(* the administrator's configuration.                                      *)
LEMMA ScanStep ==
  TypeOK /\ StatusComesLast /\ ScanInOrder /\ ScanHasAdmin /\ [Next]_vars
    => ScanInOrder' /\ ScanHasAdmin'
<1> SUFFICES ASSUME TypeOK, StatusComesLast, ScanInOrder, ScanHasAdmin, [Next]_vars
             PROVE  ScanInOrder' /\ ScanHasAdmin'
  OBVIOUS
<1>1. ASSUME NEW r \in Readers, scan'[r] = scan[r]
      PROVE  /\ scan'[r].step \in {"conf", "admin"} => Exists("status", ScanAt(r))'
             /\ \A e \in scan'[r].seen : e.node \notin OldNames => e.admin.st # "absent"
  <2>1. ScanAt(r) \in Nodes /\ ScanAt(r)' = ScanAt(r)
    BY <1>1, FoundType DEF ScanAt, Kinds
  <2>2. PICK n \in Nodes : n = ScanAt(r)
    BY <2>1
  <2>3. Exists("status", n) => Exists("status", n)'
    BY FilesStay DEF Kinds
  <2>4. QED
    BY <1>1, <2>1, <2>2, <2>3 DEF ScanInOrder, ScanHasAdmin, Exists
<1>2. ASSUME NEW r \in Readers, scan' # scan,
             \/ \E n \in Nodes : ScanStart(r, n)
             \/ Reader(r)
      PROVE  /\ scan'[r].step \in {"conf", "admin"} => Exists("status", ScanAt(r))'
             /\ \A e \in scan'[r].seen : e.node \notin OldNames => e.admin.st # "absent"
             /\ \A q \in Readers \ {r} : scan'[q] = scan[q]
  <2>1. PICK n \in Nodes : n = ScanAt(r)
    BY FoundType DEF Kinds
  <2>2. UNCHANGED file
    BY <1>2 DEF Reader, ScanStart, ScanStatus, ScanConf, ScanAdmin
  <2>3. CASE \E m \in Nodes : ScanStart(r, m)
    BY <2>3 DEF ScanStart, TypeOK
  <2>4. CASE ScanStatus(r)
    <3>a. CASE Stop(r)
      BY <3>a DEF Stop, TypeOK, ScanHasAdmin
    <3>1. CASE Upward(r, scan[r].seen)
      <4>1. scan'[r].seen = scan[r].seen /\ scan'[r].step \in {"ok", "status"}
            /\ \A q \in Readers \ {r} : scan'[q] = scan[q]
        BY <3>1 DEF Upward, TypeOK
      <4>2. QED
        BY <4>1 DEF ScanHasAdmin
    <3>2. CASE /\ file["status"][ScanAt(r)].st = "whole"
               /\ scan' = [scan EXCEPT ![r] = [@ EXCEPT !.step = "conf"]]
      <4>1. scan'[r].node = scan[r].node /\ scan'[r].pos = scan[r].pos
            /\ scan'[r].seen = scan[r].seen
            /\ \A q \in Readers \ {r} : scan'[q] = scan[q]
        BY <3>2 DEF TypeOK, Scan
      <4>2. ScanAt(r)' = ScanAt(r)
        BY <4>1 DEF ScanAt
      <4>3. QED
        BY <2>1, <2>2, <3>2, <4>1, <4>2 DEF Exists, ScanHasAdmin
    <3>3. QED
      BY <2>4, <3>a, <3>1, <3>2 DEF ScanStatus
  <2>5. CASE ScanConf(r)
    <3>1. CASE Stop(r)
      BY <3>1 DEF Stop, TypeOK, ScanHasAdmin
    <3>2. CASE scan' = [scan EXCEPT ![r] = [@ EXCEPT !.step = "admin",
                                               !.conf = Found("conf", ScanAt(r))]]
      <4>1. scan'[r].node = scan[r].node /\ scan'[r].pos = scan[r].pos
            /\ scan'[r].seen = scan[r].seen
            /\ \A q \in Readers \ {r} : scan'[q] = scan[q]
        BY <3>2 DEF TypeOK, Scan
      <4>2. ScanAt(r)' = ScanAt(r) /\ Exists("status", ScanAt(r))
        BY <2>5, <4>1 DEF ScanAt, ScanInOrder, ScanConf
      <4>3. QED
        BY <2>1, <2>2, <4>1, <4>2 DEF Exists, ScanHasAdmin
    <3>3. QED
      BY <2>5, <3>1, <3>2 DEF ScanConf
  <2>6. CASE ScanAdmin(r)
    <3>1. CASE Stop(r)
      BY <3>1 DEF Stop, TypeOK, ScanHasAdmin
    <3> DEFINE e == [node |-> ScanAt(r), conf |-> scan[r].conf, admin |-> Found("admin", ScanAt(r))]
    <3>2. CASE Upward(r, scan[r].seen \union {e})
      <4>1. Exists("status", n)
        BY <2>1, <2>6 DEF ScanInOrder, ScanAdmin
      <4>2. n \notin OldNames => Found("admin", n).st # "absent"
        BY <4>1 DEF StatusComesLast, Found, Exists
      <4>3. scan'[r].seen = scan[r].seen \union {e} /\ scan'[r].step \in {"ok", "status"}
            /\ \A q \in Readers \ {r} : scan'[q] = scan[q]
        BY <3>2 DEF Upward, TypeOK
      <4>4. \A d \in scan'[r].seen : d.node \notin OldNames => d.admin.st # "absent"
        BY <2>1, <4>2, <4>3 DEF ScanHasAdmin
      <4>5. QED
        BY <4>3, <4>4
    <3>3. QED
      BY <2>6, <3>1, <3>2 DEF ScanAdmin
  <2>7. QED
    BY <1>2, <2>3, <2>4, <2>5, <2>6 DEF Reader
<1>3. CASE UNCHANGED scan
  BY <1>1, <1>3 DEF ScanInOrder, ScanHasAdmin
<1>4. CASE ~ UNCHANGED scan
  <2>1. PICK r \in Readers : (\E n \in Nodes : ScanStart(r, n)) \/ Reader(r)
    BY <1>4 DEF Next, Tool, vars, Begin, LookParent, NoTemplate, StatDirs, MakeDir,
                LoadHeaders, CheckAbsent, OpenFile, WritePart, WriteFile, Crash
  <2>2. QED
    BY <1>1, <1>2, <1>4, <2>1 DEF ScanInOrder, ScanHasAdmin
<1>5. QED
  BY <1>3, <1>4

(* The inductive invariant holds of every behaviour.                       *)
THEOREM InvariantCorrect == Spec => []IInv
<1>1. TypeOK /\ IInv /\ [Next]_vars => IInv'
  BY StagesStep, StatusStep, ScanStep DEF IInv
<1>2. QED
  BY <1>1, InitIInv, TypeCorrect, PTL DEF Spec

(* The status comes last: for any tree of nodes, any number of tools that  *)
(* create and update them, crashes and failures included, a directory with *)
(* a status file has both configurations.                                  *)
THEOREM StatusComesLastCorrect == Spec => []StatusComesLast
BY InvariantCorrect, PTL DEF IInv

(* No scan loads a node without its administrator's configuration.         *)
THEOREM ScanHasAdminCorrect == Spec => []ScanHasAdmin
BY InvariantCorrect, PTL DEF IInv

-----------------------------------------------------------------------------
(* What a step of a call does, told without EXCEPT: the proofs below split *)
(* on these cases.                                                         *)

(* The call goes to a stage and a step, with what it works on unchanged.   *)
Goes(p, stage, step) ==
  pc'[p].stage = stage /\ pc'[p].step = step /\ call'[p] = call[p]

Stored(p, st) ==
  \A k \in Kinds, n \in Nodes :
    file'[k][n] = IF k = KindOf(pc[p].stage) /\ n = call[p].at
                    THEN IF st = "torn" THEN TornFile
                         ELSE [st |-> st, name |-> call[p].hdr[k], rev |-> call[p].id]
                    ELSE file[k][n]

Parent(n) == Lineage[n][Len(Lineage[n]) - 1]

(* It looks for its parent, and goes on with the node or with the parent.  *)
MovesOn(p) ==
  LET node == call[p].node
  IN /\ pc[p].stage = "parent" /\ Len(Lineage[node]) > 1 /\ UNCHANGED file
     /\ \/ Exists("status", Parent(node)) /\ Goes(p, FirstStage(call[p].update), "stat")
        \/ /\ pc'[p].stage = "dirs" /\ pc'[p].step = "stat"
           /\ call'[p] = [call[p] EXCEPT !.at = Parent(node)]

(* It makes sure of directories.                                           *)
MakesDirs(p) ==
  /\ pc[p].stage \in Stages /\ pc[p].step \in {"stat", "mkdir"} /\ UNCHANGED file
  /\ \/ Goes(p, pc[p].stage, "mkdir")
     \/ pc[p].stage = "dirs" /\ Goes(p, "save_conf", "stat")
     \/ pc[p].stage # "dirs" /\ Goes(p, pc[p].stage, Work(pc[p].stage))

(* It reads the headers of the file that it will store again.              *)
Reads(p) ==
  LET k == KindOf(pc[p].stage)
  IN /\ pc[p].stage \in {"hdr_conf", "hdr_admin"} /\ UNCHANGED file
     /\ Loads(file[k][call[p].at])
     /\ pc'[p].stage = After(pc[p].stage) /\ pc'[p].step = "stat"
     /\ \E h : /\ call'[p] = [call[p] EXCEPT !.hdr = h]
               /\ \A j \in Kinds : h[j] = IF j = k THEN file[k][call[p].at].name
                                                   ELSE call[p].hdr[j]

Checks(p) ==
  /\ pc[p].stage \in {"save_conf", "save_admin"} /\ pc[p].step = "check" /\ UNCHANGED file
  /\ Updating(p) \/ ~ Exists(KindOf(pc[p].stage), call[p].at)
  /\ Goes(p, pc[p].stage, "open")

Opens(p) ==
  /\ pc[p].stage \in {"save_conf", "save_admin", "save_status"} /\ pc[p].step = "open"
  /\ Stored(p, "torn") /\ Goes(p, pc[p].stage, "write")

Parts(p) ==
  /\ pc[p].stage \in {"save_conf", "save_admin"} /\ pc[p].step = "write"
  /\ \E st \in {"torn", "cut"} : Stored(p, st)
  /\ Goes(p, pc[p].stage, "write")

Writes(p) ==
  /\ pc[p].stage \in {"save_conf", "save_admin", "save_status"} /\ pc[p].step = "write"
  /\ Stored(p, "whole")
  /\ \/ pc[p].stage # "save_status" /\ Goes(p, After(pc[p].stage), "stat")
     \/ pc[p].stage = "save_status" /\ call[p].at = call[p].node /\ Goes(p, "idle", "stat")
     \/ /\ pc[p].stage = "save_status" /\ call[p].at # call[p].node
        /\ pc'[p].stage = FirstStage(call[p].update) /\ pc'[p].step = "stat"
        /\ call'[p] = [call[p] EXCEPT !.at = call[p].node]

Begins(p) ==
  /\ pc[p].stage = "idle" /\ UNCHANGED file /\ begun < MaxOps /\ begun' = begun + 1
  /\ \E n \in Nodes, update \in BOOLEAN, mode \in Modes :
       /\ call'[p] = [node |-> n, at |-> n, update |-> update, id |-> begun + 1,
                      hdr |-> [k \in Kinds |-> begun + 1]]
       /\ pc'[p].stage = IF mode = "Legacy" THEN "parent" ELSE FirstStage(update)
       /\ pc'[p].step = "stat"

Ends(p) == UNCHANGED file /\ Goes(p, "idle", "stat")

Carries(p) ==
  UNCHANGED begun /\ (\/ MovesOn(p) \/ MakesDirs(p) \/ Reads(p) \/ Checks(p) \/ Opens(p)
                      \/ Parts(p) \/ Writes(p) \/ Ends(p))

(* A step is a step of one call, or leaves calls and files alone.          *)
LEMMA StoreValue ==
  ASSUME TypeOK, NEW p \in Procs, NEW st, Store(p, st), pc[p].stage \in Stages
  PROVE  Stored(p, st)
<1>1. KindOf(pc[p].stage) \in Kinds /\ call[p].at \in Nodes
  BY StageTables DEF TypeOK, Call
<1> DEFINE new == IF st = "torn" THEN TornFile
                  ELSE [st |-> st, name |-> call[p].hdr[KindOf(pc[p].stage)],
                        rev |-> call[p].id]
<1>2. file' = [file EXCEPT ![KindOf(pc[p].stage)] = [@ EXCEPT ![call[p].at] = new]]
  BY DEF Store
<1>3. \A k \in Kinds, n \in Nodes :
        file'[k][n] = IF k = KindOf(pc[p].stage) /\ n = call[p].at
                        THEN IF st = "torn" THEN TornFile
                             ELSE [st |-> st, name |-> call[p].hdr[KindOf(pc[p].stage)],
                                   rev |-> call[p].id]
                        ELSE file[k][n]
  <2> HIDE DEF new
  <2>1. \A k \in Kinds, n \in Nodes :
          file'[k][n] = IF k = KindOf(pc[p].stage) /\ n = call[p].at THEN new ELSE file[k][n]
    BY <1>1, <1>2 DEF TypeOK
  <2>2. QED
    BY <2>1 DEF new
<1>4. QED
  BY <1>3 DEF Stored

(* Each step is one of a call, told so, or none that calls notice.         *)
LEMMA WhatACallDoes ==
  ASSUME TypeOK, [Next]_vars
  PROVE  \/ UNCHANGED <<file, call, pc, begun>>
         \/ \E p \in Procs :
              /\ Begins(p) \/ Carries(p)
              /\ UNCHANGED scan
              /\ \A q \in Procs \ {p} : pc'[q] = pc[q] /\ call'[q] = call[q]
<1> DEFINE Alone(p) == UNCHANGED scan
                       /\ \A q \in Procs \ {p} : pc'[q] = pc[q] /\ call'[q] = call[q]
<1>a. ASSUME NEW p \in Procs, NEW stage, NEW step, Goto(p, stage, step), UNCHANGED call
      PROVE  Goes(p, stage, step) /\ \A q \in Procs \ {p} : pc'[q] = pc[q] /\ call'[q] = call[q]
  BY <1>a DEF Goto, Goes, TypeOK
<1>b. ASSUME NEW p \in Procs, NEW rc, Return(p, rc), UNCHANGED call
      PROVE  Goes(p, "idle", "stat")
             /\ \A q \in Procs \ {p} : pc'[q] = pc[q] /\ call'[q] = call[q]
  BY <1>a, <1>b DEF Return, Enter
<1>1. ASSUME NEW p \in Procs, NEW n \in Nodes, NEW update \in Updates, NEW mode \in Modes,
             Begin(p, n, update, mode)
      PROVE  Begins(p) /\ Alone(p)
  <2>1. update \in BOOLEAN
    BY NodesAssumption
  <2>2. QED
    BY <1>1, <2>1 DEF Begin, Begins, Enter, Goto, TypeOK
<1>2. ASSUME NEW p \in Procs, LookParent(p) PROVE Carries(p) /\ Alone(p)
  <2> DEFINE line == Lineage[call[p].node]
  <2>1. UNCHANGED <<file, begun, scan>> /\ pc[p].stage = "parent"
    BY <1>2 DEF LookParent
  <2>2. CASE Return(p, Error_At_Root) /\ UNCHANGED call
    BY <1>b, <2>1, <2>2 DEF Carries, Ends
  <2>3. CASE /\ Len(line) > 1 /\ Exists("status", line[Len(line) - 1])
             /\ Enter(p, FirstStage(call[p].update)) /\ UNCHANGED call
    <3>1. Goes(p, FirstStage(call[p].update), "stat") /\ Alone(p)
      BY <1>a, <2>1, <2>3 DEF Enter
    <3>2. QED
      BY <2>1, <2>3, <3>1 DEF Carries, MovesOn, Parent
  <2>4. CASE /\ Len(line) > 1
             /\ call' = [call EXCEPT ![p] = [@ EXCEPT !.at = line[Len(line) - 1]]]
             /\ Enter(p, FirstStage(FALSE))
    <3>1. pc'[p].stage = "dirs" /\ pc'[p].step = "stat" /\ Alone(p)
          /\ call'[p] = [call[p] EXCEPT !.at = Parent(call[p].node)]
      BY <2>1, <2>4 DEF Enter, Goto, FirstStage, TypeOK, Parent
    <3>2. QED
      BY <2>1, <2>4, <3>1 DEF Carries, MovesOn
  <2>5. QED
    BY <1>2, <2>2, <2>3, <2>4 DEF LookParent
<1>3. ASSUME NEW p \in Procs, NoTemplate(p) PROVE Carries(p) /\ Alone(p)
  BY <1>b, <1>3 DEF NoTemplate, Carries, Ends
<1>c. ASSUME NEW p \in Procs, EnterWork(p), UNCHANGED <<call, file, scan, begun>>,
             pc[p].stage \in Stages, pc[p].step \in {"stat", "mkdir"}
      PROVE  Carries(p) /\ Alone(p)
  <2>1. CASE pc[p].stage = "dirs"
    <3>1. Goes(p, "save_conf", "stat") /\ Alone(p)
      BY <1>a, <1>c, <2>1 DEF EnterWork, Enter, After
    <3>2. QED
      BY <1>c, <2>1, <3>1 DEF Carries, MakesDirs
  <2>2. CASE pc[p].stage # "dirs"
    <3>1. Goes(p, pc[p].stage, Work(pc[p].stage)) /\ Alone(p)
      BY <1>a, <1>c, <2>2 DEF EnterWork
    <3>2. QED
      BY <1>c, <2>2, <3>1 DEF Carries, MakesDirs
  <2>3. QED BY <2>1, <2>2
<1>d. ASSUME NEW p \in Procs, NEW k, UNCHANGED <<call, file, scan, begun>>,
             pc[p].stage \in Stages, pc[p].step \in {"stat", "mkdir"},
             pc' = [pc EXCEPT ![p] = [stage |-> @.stage, step |-> "mkdir", mk |-> k]]
      PROVE  Carries(p) /\ Alone(p)
  <2>1. Goes(p, pc[p].stage, "mkdir") /\ Alone(p)
    BY <1>d DEF Goes, TypeOK
  <2>2. QED
    BY <1>d, <2>1 DEF Carries, MakesDirs
<1>4. ASSUME NEW p \in Procs, StatDirs(p) PROVE Carries(p) /\ Alone(p)
  <2>1. CASE Return(p, Error_Root_Not_Exist)
    BY <1>b, <1>4, <2>1 DEF StatDirs, Carries, Ends
  <2>2. QED
    BY <1>c, <1>d, <1>4, <2>1 DEF StatDirs
<1>5. ASSUME NEW p \in Procs, MakeDir(p) PROVE Carries(p) /\ Alone(p)
  <2>1. CASE Return(p, Error_MkDir)
    BY <1>b, <1>5, <2>1 DEF MakeDir, Carries, Ends
  <2>2. PlaceOK(p)
    BY DEF TypeOK
  <2>3. pc[p].stage \in Stages
    BY <1>5, <2>2 DEF MakeDir, PlaceOK, StagesWith
  <2>4. QED
    BY <1>c, <1>d, <1>5, <2>1, <2>3 DEF MakeDir
<1>6. ASSUME NEW p \in Procs, LoadHeaders(p) PROVE Carries(p) /\ Alone(p)
  <2> DEFINE k == KindOf(pc[p].stage)
             f == file[k][call[p].at]
             h == [call[p].hdr EXCEPT ![k] = f.name]
  <2>1. PlaceOK(p) /\ call[p] \in Call
    BY DEF TypeOK
  <2>2. UNCHANGED <<file, begun, scan>> /\ pc[p].stage \in {"hdr_conf", "hdr_admin"}
    BY <1>6, <2>1 DEF LoadHeaders, PlaceOK, StagesWith
  <2>3. CASE Return(p, Error_Config_Not_Exist) /\ UNCHANGED call
    BY <1>b, <2>2, <2>3 DEF Carries, Ends
  <2>4. CASE Loads(f) /\ call' = [call EXCEPT ![p].hdr = h] /\ Enter(p, After(pc[p].stage))
    <3>2. \A j \in Kinds : h[j] = IF j = k THEN f.name ELSE call[p].hdr[j]
      BY <2>1 DEF Call
    <3>3. pc'[p].stage = After(pc[p].stage) /\ pc'[p].step = "stat"
          /\ \A q \in Procs \ {p} : pc'[q] = pc[q]
      BY <2>4 DEF Enter, Goto, TypeOK
    <3> HIDE DEF h
    <3>4. call'[p] = [call[p] EXCEPT !.hdr = h] /\ \A q \in Procs \ {p} : call'[q] = call[q]
      BY <2>4 DEF TypeOK
    <3>5. Reads(p)
      BY <2>2, <2>4, <3>2, <3>3, <3>4 DEF Reads
    <3>6. QED
      BY <2>2, <3>3, <3>4, <3>5 DEF Carries
  <2>5. QED
    BY <1>6, <2>3, <2>4 DEF LoadHeaders
<1>7. ASSUME NEW p \in Procs, CheckAbsent(p) PROVE Carries(p) /\ Alone(p)
  <2>1. PlaceOK(p)
    BY DEF TypeOK
  <2>2. pc[p].stage \in {"save_conf", "save_admin"}
    BY <1>7, <2>1 DEF CheckAbsent, PlaceOK, StagesWith
  <2>3. CASE Return(p, Error_Config_Exist)
    BY <1>b, <1>7, <2>3 DEF CheckAbsent, Carries, Ends
  <2>4. CASE ~ Return(p, Error_Config_Exist)
    <3>1. Goes(p, pc[p].stage, "open") /\ Alone(p)
      BY <1>a, <1>7, <2>4 DEF CheckAbsent
    <3>2. QED
      BY <1>7, <2>2, <2>4, <3>1 DEF CheckAbsent, Carries, Checks
  <2>5. QED BY <2>3, <2>4
<1>8. ASSUME NEW p \in Procs, OpenFile(p) \/ WriteFile(p) PROVE Carries(p) /\ Alone(p)
  <2>1. PlaceOK(p)
    BY DEF TypeOK
  <2>2. pc[p].stage \in {"save_conf", "save_admin", "save_status"} /\ pc[p].stage \in Stages
    BY <1>8, <2>1 DEF OpenFile, WriteFile, PlaceOK, StagesWith, Stages
  <2>3. UNCHANGED <<scan, begun>>
    BY <1>8 DEF OpenFile, WriteFile
  <2>4. CASE UNCHANGED <<file, call>> /\ \E rc : Return(p, rc)
    BY <1>b, <2>3, <2>4 DEF Carries, Ends
  <2>5. CASE /\ pc[p].step = "open" /\ Store(p, "torn") /\ Goto(p, pc[p].stage, "write")
             /\ UNCHANGED call
    BY <1>a, <2>2, <2>3, <2>5, StoreValue DEF Carries, Opens
  <2>6. CASE pc[p].step = "write" /\ Store(p, "whole")
    <3>1. Stored(p, "whole")
      BY <2>2, <2>6, StoreValue
    <3>2. CASE pc[p].stage # "save_status" /\ Enter(p, After(pc[p].stage)) /\ UNCHANGED call
      <4>1. Goes(p, After(pc[p].stage), "stat") /\ Alone(p)
        BY <1>a, <2>3, <3>2 DEF Enter
      <4>2. QED
        BY <2>2, <2>3, <2>6, <3>1, <3>2, <4>1 DEF Carries, Writes
    <3>3. CASE pc[p].stage = "save_status" /\ call[p].at = call[p].node /\ Return(p, 0)
               /\ UNCHANGED call
      <4>1. Goes(p, "idle", "stat") /\ Alone(p)
        BY <1>b, <2>3, <3>3
      <4>2. QED
        BY <2>2, <2>3, <2>6, <3>1, <3>3, <4>1 DEF Carries, Writes
    <3>4. CASE /\ pc[p].stage = "save_status" /\ call[p].at # call[p].node
               /\ call' = [call EXCEPT ![p] = [@ EXCEPT !.at = call[p].node]]
               /\ Enter(p, FirstStage(call[p].update))
      <4>1. /\ pc'[p].stage = FirstStage(call[p].update) /\ pc'[p].step = "stat"
            /\ call'[p] = [call[p] EXCEPT !.at = call[p].node]
            /\ Alone(p)
        BY <2>3, <3>4 DEF Enter, Goto, TypeOK
      <4>2. QED
        BY <2>2, <2>3, <2>6, <3>1, <3>4, <4>1 DEF Carries, Writes
    <3>5. CASE ~ \E rc : UNCHANGED <<file, call>> /\ Return(p, rc)
      BY <1>8, <2>6, <3>2, <3>3, <3>4, <3>5 DEF OpenFile, WriteFile
    <3>6. QED
      BY <2>4, <3>5
  <2>7. QED
    BY <1>8, <2>4, <2>5, <2>6 DEF OpenFile, WriteFile
<1>8a. ASSUME NEW p \in Procs, WritePart(p) PROVE Carries(p) /\ Alone(p)
  <2>1. PlaceOK(p)
    BY DEF TypeOK
  <2>2. pc[p].stage \in {"save_conf", "save_admin"} /\ pc[p].stage \in Stages
    BY <1>8a, <2>1 DEF WritePart, PlaceOK, StagesWith, Stages
  <2>3. PICK st \in {"torn", "cut"} : Store(p, st)
    BY <1>8a DEF WritePart
  <2>4. Stored(p, st)
    BY <2>2, <2>3, StoreValue
  <2>5. Goes(p, pc[p].stage, "write") /\ Alone(p) /\ UNCHANGED begun
    BY <1>8a DEF WritePart, Goes
  <2>6. QED
    BY <1>8a, <2>2, <2>4, <2>5 DEF WritePart, Carries, Parts
<1>9. ASSUME NEW p \in Procs, Crash(p) PROVE Carries(p) /\ Alone(p)
  BY <1>a, <1>9 DEF Crash, Enter, Carries, Ends
<1>10. CASE UNCHANGED <<file, call, pc, begun>>
  BY <1>10
<1>11. CASE \E p \in Procs : (Begins(p) \/ Carries(p)) /\ Alone(p)
  BY <1>11
<1>12. QED
  BY <1>1, <1>2, <1>3, <1>4, <1>5, <1>6, <1>7, <1>8, <1>8a, <1>9, <1>10, <1>11
     DEF Next, Tool, Reader, vars, ScanStart, ScanStatus, ScanConf, ScanAdmin

-----------------------------------------------------------------------------
(* The directory above a node is another one, nearer to the root.          *)
LEMMA ParentLength ==
  ASSUME NEW n \in Nodes, Len(Lineage[n]) > 1
  PROVE  Parent(n) \in Nodes /\ Len(Lineage[Parent(n)]) + 1 = Len(Lineage[n])
<1>1. Lineage[n] \in Seq(Nodes) /\ Len(Lineage[n]) \in Nat
  BY LineageAssumption
<1>2. Len(Lineage[n]) - 1 \in 1..Len(Lineage[n]) /\ Parent(n) \in Nodes
  BY <1>1 DEF Parent
<1>3. Lineage[Parent(n)] = SubSeq(Lineage[n], 1, Len(Lineage[n]) - 1)
  BY <1>2, PathsAssumption DEF Parent
<1>4. QED
  BY <1>1, <1>2, <1>3

(* The parent is another node.                                             *)
LEMMA ParentDiffers ==
  ASSUME NEW n \in Nodes, Len(Lineage[n]) > 1
  PROVE  Parent(n) \in Nodes /\ Parent(n) # n
<1>1. Len(Lineage[n]) \in Nat
  BY LineageAssumption
<1>2. QED
  BY <1>1, ParentLength

(* The invariant that carries BrokenForever: no call at work on a broken   *)
(* node is past the point where it will fail.                              *)
Powerless(p, n) ==
  pc[p].stage # "idle" /\ call[p].at = n =>
    \/ pc[p].stage \in {"parent", "hdr_conf"}
    \/ pc[p].stage = "hdr_admin" /\ LoadFails(file["admin"][n])
    \/ ~ Updating(p) /\ pc[p].stage = "dirs"
    \/ ~ Updating(p) /\ pc[p].stage = "save_conf" /\ pc[p].step \in {"stat", "mkdir", "check"}

Stuck(n) == Broken(n) /\ \A p \in Procs : Powerless(p, n)

(* Nothing leads out of the state Stuck.                                   *)
LEMMA StuckStep ==
  ASSUME TypeOK, [Next]_vars, NEW n \in Nodes, Stuck(n)
  PROVE  Stuck(n)'
<1>1. CASE UNCHANGED <<file, call, pc, begun>>
  BY <1>1 DEF Stuck, Broken, Exists, Powerless, Updating
<1>2. ASSUME NEW p \in Procs, Begins(p) \/ Carries(p),
             \A q \in Procs \ {p} : pc'[q] = pc[q] /\ call'[q] = call[q]
      PROVE  Stuck(n)'
  <2>1. call[p] \in Call /\ PlaceOK(p) /\ Powerless(p, n)
    BY DEF TypeOK, Stuck
  <2>2. file'["conf"][n] = file["conf"][n] /\ file'["admin"][n] = file["admin"][n]
    <3>1. CASE UNCHANGED file
      BY <3>1
    <3>2. CASE Opens(p) \/ Parts(p) \/ Writes(p)
      <4>1. call[p].at # n
        BY <2>1, <3>2 DEF Powerless, Opens, Parts, Writes
      <4>2. QED
        BY <3>2, <4>1 DEF Opens, Parts, Writes, Stored, Kinds
    <3>3. QED
      BY <1>2, <3>1, <3>2 DEF Begins, Carries, MovesOn, MakesDirs, Reads, Checks, Ends
  <2>3. Broken(n)'
    BY <2>2 DEF Stuck, Broken, Exists, Configs
  <2>4. Powerless(p, n)'
    <3>1. CASE Begins(p)
      BY <3>1, <2>1 DEF Begins, Powerless, Updating, FirstStage
    <3>2. CASE MovesOn(p)
      <4>1. Parent(call[p].node) # call[p].node
        BY <2>1, <3>2, ParentDiffers DEF MovesOn, Call
      <4>2. QED
        BY <3>2, <2>1, <4>1 DEF MovesOn, Goes, Powerless, Updating, FirstStage, Call
    <3>3. CASE MakesDirs(p)
      BY <3>3, <2>1 DEF MakesDirs, Goes, Powerless, Updating, Work, Stages
    <3>4. CASE Reads(p)
      BY <3>4, <2>1 DEF Reads, Powerless, Updating, After, KindOf, Stuck, Broken, Configs,
                        Loads, LoadFails, Call
    <3>5. CASE Checks(p)
      BY <3>5, <2>1 DEF Checks, Goes, Powerless, Updating, KindOf, Stuck, Broken
    <3>6. CASE Opens(p) \/ Parts(p)
      BY <3>6, <2>1 DEF Opens, Parts, Goes, Powerless, Updating
    <3>7. CASE Writes(p)
      BY <3>7, <2>1 DEF Writes, Goes, Powerless, Updating, FirstStage, Call
    <3>8. CASE Ends(p)
      BY <3>8 DEF Ends, Goes, Powerless
    <3>9. QED
      BY <1>2, <3>1, <3>2, <3>3, <3>4, <3>5, <3>6, <3>7, <3>8 DEF Carries
  <2>5. ASSUME NEW q \in Procs \ {p} PROVE Powerless(q, n)'
    BY <1>2, <2>2 DEF Stuck, Powerless, Updating
  <2>6. QED
    BY <2>3, <2>4, <2>5 DEF Stuck
<1>3. QED
  BY <1>1, <1>2, WhatACallDoes

(* A node that has a configuration, but not two that can be loaded, and    *)
(* that no call is at work on, stays so for ever: whatever tools do        *)
(* together, die or fail (store_config, update_config_headers).            *)
THEOREM BrokenForeverCorrect == Spec => BrokenForever
<1> SUFFICES ASSUME NEW n \in Nodes
             PROVE  Spec => [](Broken(n) /\ Quiet(n) => []Broken(n))
  BY DEF BrokenForever
<1>1. Broken(n) /\ Quiet(n) => Stuck(n)
  BY DEF Quiet, Stuck, Powerless
<1>2. TypeOK /\ [Next]_vars /\ Stuck(n) => Stuck(n)'
  BY StuckStep
<1>3. Stuck(n) => Broken(n)
  BY DEF Stuck
<1>4. QED
  BY <1>1, <1>2, <1>3, TypeCorrect, PTL DEF Spec

-----------------------------------------------------------------------------
(* The hypotheses of ParentFirstCorrect: the nodes to be made are not more *)
(* than two deep below one that exists, and all calls are in legacy mode.  *)
TwoDeep ==
  \A n \in Nodes : Len(Lineage[n]) > 2 /\ Parent(n) \notin Existing =>
    Parent(Parent(n)) \in Existing

LegacyOnly == Modes \subseteq {"Legacy"}

(* The invariant that carries ParentFirst: a call is at work on the parent *)
(* of its node, or has found a status there.                               *)
ParentKnown(p) ==
  LET node == call[p].node
  IN /\ pc[p].stage = "parent" => call[p].at = node
     /\ pc[p].stage \in Stages => /\ Len(Lineage[node]) > 1
                                  /\ IF call[p].at = node
                                       THEN Exists("status", Parent(node))
                                       ELSE call[p].at = Parent(node)

ParentInv ==
  /\ \A n \in Existing : Exists("status", n)
  /\ \A p \in Procs : ParentKnown(p)
  /\ ParentFirst

(* ParentInv through any step.                                             *)
LEMMA ParentStep ==
  ASSUME TwoDeep, LegacyOnly, TypeOK, ParentInv, [Next]_vars
  PROVE  ParentInv'
<1>1. CASE UNCHANGED <<file, call, pc, begun>>
  BY <1>1 DEF ParentInv, Exists, ParentKnown, ParentFirst
<1>2. ASSUME NEW p \in Procs, Begins(p) \/ Carries(p),
             \A q \in Procs \ {p} : pc'[q] = pc[q] /\ call'[q] = call[q]
      PROVE  ParentInv'
  <2>1. call[p] \in Call /\ PlaceOK(p) /\ ParentKnown(p)
    BY DEF TypeOK, ParentInv
  <2>2. \A n \in Nodes : Exists("status", n) => Exists("status", n)'
    BY FilesStay DEF Kinds
  <2>3. \A n \in Nodes : Len(Lineage[n]) > 1 => Parent(n) \in Nodes /\ Parent(n) # n
    BY ParentDiffers
  <2>4. \A n \in Existing : Exists("status", n)'
    BY <2>2, NodesAssumption DEF ParentInv
  <2>5. ASSUME NEW q \in Procs \ {p} PROVE ParentKnown(q)'
    <3>1. call[q] \in Call /\ ParentKnown(q) /\ pc'[q] = pc[q] /\ call'[q] = call[q]
      BY <1>2 DEF TypeOK, ParentInv
    <3>2. PICK m \in Nodes : m = call[q].node
      BY <3>1 DEF Call
    <3>3. Len(Lineage[m]) > 1 /\ Exists("status", Parent(m)) => Exists("status", Parent(m))'
      BY <2>2, <2>3
    <3>4. QED
      BY <3>1, <3>2, <3>3 DEF ParentKnown, Exists
  <2>6. ParentKnown(p)'
    <3> DEFINE node == call[p].node
    <3>a. PICK m \in Nodes : m = node
      BY <2>1 DEF Call
    <3>b. Len(Lineage[m]) > 1 /\ Exists("status", Parent(m)) => Exists("status", Parent(m))'
      BY <2>2, <2>3
    <3>1. CASE Begins(p)
      <4>1. pc'[p].stage = "parent" /\ call'[p].at = call'[p].node
        <5>1. PICK n \in Nodes, update \in BOOLEAN, mode \in Modes :
                /\ call'[p] = [node |-> n, at |-> n, update |-> update, id |-> begun + 1,
                               hdr |-> [k \in Kinds |-> begun + 1]]
                /\ pc'[p].stage = IF mode = "Legacy" THEN "parent" ELSE FirstStage(update)
          BY <3>1 DEF Begins
        <5>2. mode = "Legacy"
          BY DEF LegacyOnly
        <5>3. QED
          BY <5>1, <5>2
      <4>2. QED
        BY <4>1 DEF ParentKnown, Stages
    <3>2. CASE MovesOn(p)
      <4>1. CASE Exists("status", Parent(node)) /\ Goes(p, FirstStage(call[p].update), "stat")
        BY <3>2, <4>1, <2>1, <3>a, <3>b DEF MovesOn, Goes, ParentKnown, FirstStage, Exists
      <4>2. CASE pc'[p].stage = "dirs" /\ call'[p] = [call[p] EXCEPT !.at = Parent(node)]
        BY <3>2, <4>2, <2>1, <2>3, <3>a DEF MovesOn, ParentKnown, Call
      <4>3. QED
        BY <3>2, <4>1, <4>2 DEF MovesOn
    <3>3. CASE pc[p].stage \in Stages /\ call'[p].node = node /\ call'[p].at = call[p].at
               /\ pc'[p].stage # "parent"
      BY <3>3, <2>1, <3>a, <3>b DEF ParentKnown, Exists
    <3>4. CASE MakesDirs(p) \/ Checks(p) \/ Opens(p) \/ Parts(p)
      <4>1. pc[p].stage \in Stages /\ pc'[p].stage # "parent" /\ call'[p] = call[p]
        BY <3>4 DEF MakesDirs, Checks, Opens, Parts, Goes, Stages
      <4>2. QED
        BY <3>3, <4>1
    <3>5. CASE Reads(p)
      <4>1. pc[p].stage \in Stages /\ pc'[p].stage # "parent"
            /\ call'[p].node = node /\ call'[p].at = call[p].at
        BY <3>5, <2>1 DEF Reads, After, Stages, Call
      <4>2. QED
        BY <3>3, <4>1
    <3>6. CASE Writes(p)
      <4>1. pc[p].stage \in Stages /\ pc'[p].stage # "parent"
        BY <3>6 DEF Writes, Goes, After, FirstStage, Stages
      <4>2. CASE call'[p] = call[p]
        BY <3>3, <4>1, <4>2
      <4>3. CASE call[p].at # node /\ call'[p] = [call[p] EXCEPT !.at = node]
                 /\ pc[p].stage = "save_status"
        <5>1. Len(Lineage[m]) > 1 /\ call[p].at = Parent(m)
          BY <2>1, <3>a, <4>1, <4>3 DEF ParentKnown
        <5>2. Exists("status", Parent(m))'
          BY <2>3, <3>6, <4>3, <5>1 DEF Writes, Stored, KindOf, Kinds, Exists
        <5>3. call'[p].node = m /\ call'[p].at = m
          BY <2>1, <3>a, <4>3 DEF Call
        <5>4. QED
          BY <4>1, <5>1, <5>2, <5>3 DEF ParentKnown, Exists
      <4>4. QED
        BY <3>6, <4>2, <4>3 DEF Writes, Goes
    <3>7. CASE Ends(p)
      BY <3>7 DEF Ends, Goes, ParentKnown, Stages
    <3>8. QED
      BY <1>2, <3>1, <3>2, <3>4, <3>5, <3>6, <3>7 DEF Carries
  <2>7. ParentFirst'
    <3> SUFFICES ASSUME NEW n \in Nodes \ Existing, Exists("conf", n)', Len(Lineage[n]) > 1
                 PROVE  Exists("status", Parent(n))'
      BY DEF ParentFirst, Parent, Exists
    <3>1. Parent(n) \in Nodes
      BY <2>3
    <3>2. CASE Exists("conf", n)
      <4>1. Exists("status", Parent(n))
        BY <3>2 DEF ParentInv, ParentFirst, Parent
      <4>2. QED
        BY <2>2, <3>1, <4>1
    <3>3. CASE ~ Exists("conf", n)
      <4>1. Opens(p) \/ Parts(p) \/ Writes(p)
        BY <1>2, <3>3 DEF Begins, Carries, MovesOn, MakesDirs, Reads, Checks, Ends, Exists
      <4>2. call[p].at = n /\ pc[p].stage \in Stages
        BY <3>3, <4>1 DEF Opens, Parts, Writes, Stored, Kinds, Exists, Stages
      <4>3. CASE n = call[p].node
        BY <2>1, <2>2, <3>1, <4>2, <4>3 DEF ParentKnown
      <4>4. CASE n # call[p].node
        <5>1. PICK m \in Nodes : m = call[p].node
          BY <2>1 DEF Call
        <5>2. n = Parent(m) /\ Len(Lineage[m]) > 1
          BY <2>1, <4>2, <4>4, <5>1 DEF ParentKnown
        <5>3. Len(Lineage[m]) > 2
          BY <5>1, <5>2, ParentLength
        <5>4. Parent(n) \in Existing
          BY <5>1, <5>2, <5>3 DEF TwoDeep
        <5>5. QED
          BY <2>4, <5>4
      <4>5. QED
        BY <4>3, <4>4
    <3>4. QED
      BY <3>2, <3>3
  <2>8. QED
    BY <2>4, <2>5, <2>6, <2>7 DEF ParentInv
<1>3. QED
  BY <1>1, <1>2, WhatACallDoes

(* Whatever tools do together, die or fail, a node that was not there      *)
(* before has a configuration only below a directory with a status.        *)
THEOREM ParentFirstCorrect ==
  ASSUME TwoDeep, LegacyOnly
  PROVE  Spec => []ParentFirst
<1>1. Init => ParentInv
  <2> SUFFICES ASSUME Init PROVE ParentInv
    OBVIOUS
  <2>1. \A n \in Existing : Exists("status", n)
    BY NodesAssumption DEF Init, Exists, Kinds, OldFile
  <2>2. \A p \in Procs : ParentKnown(p)
    BY DEF Init, ParentKnown, Stages
  <2>3. ParentFirst
    BY DEF Init, ParentFirst, Exists, Kinds, NoFile
  <2>4. QED
    BY <2>1, <2>2, <2>3 DEF ParentInv
<1>2. TypeOK /\ [Next]_vars /\ ParentInv => ParentInv'
  BY ParentStep
<1>3. ParentInv => ParentFirst
  BY DEF ParentInv
<1>4. QED
  BY <1>1, <1>2, <1>3, TypeCorrect, PTL DEF Spec

-----------------------------------------------------------------------------
(* Tools that do not meet: no two calls are at work on one directory at    *)
(* the same time.  So it is, above all, when there is one tool.            *)
Apart ==
  \A p, q \in Procs :
    p # q /\ pc[p].stage # "idle" /\ pc[q].stage # "idle" =>
      {call[p].at, call[p].node} \cap {call[q].at, call[q].node} = {}

(* One tool does not meet another.                                         *)
LEMMA OneToolIsApart ==
  ASSUME \A p, q \in Procs : p = q
  PROVE  Spec => []Apart
<1>1. Apart
  BY DEF Apart
<1>2. QED
  BY <1>1, PTL

(* The invariant that carries IdentityKept and the refinement.  The two    *)
(* configurations of a node bear one identity, when they bear any, ...     *)
Paired ==
  \A n \in Nodes : Exists("admin", n) =>
    /\ Exists("conf", n)
    /\ \A i \in Identity("conf", n), j \in Identity("admin", n) : i = j

(* ... an update has taken over what it found, a creation found nothing,   *)
(* and what a call has stored bears the identity that it works with, ...   *)
Storing == {"dirs", "save_conf", "save_admin", "save_status"}

Holds(p, k) ==
  LET f == file[k][call[p].at] IN Loads(f) /\ f.name = call[p].hdr[k]

Knows(p) ==
  LET k == KindOf(pc[p].stage)
      f == file[k][call[p].at]
  IN /\ pc[p].stage = "parent" => call[p].at = call[p].node
     /\ pc[p].stage \in {"hdr_conf", "hdr_admin"} => Updating(p)
     /\ pc[p].stage = "hdr_admin" => Holds(p, "conf")
     /\ pc[p].stage \in Storing \cup {"parent"} => call[p].hdr["conf"] = call[p].hdr["admin"]
     /\ pc[p].stage \in Storing /\ Updating(p) =>
          \A j \in Configs : Holds(p, j) \/ Writing(p, j, call[p].at)
     /\ pc[p].stage \in {"save_admin", "save_status"} => Holds(p, "conf")
     /\ pc[p].stage = "save_status" => Holds(p, "admin")
     /\ pc[p].stage \in {"save_conf", "save_admin"} /\ pc[p].step = "open" /\ ~ Updating(p) =>
          ~ Exists(k, call[p].at)
     /\ pc[p].stage \in {"save_conf", "save_admin"} /\ pc[p].step = "write" =>
          Exists(k, call[p].at) /\ (Loads(f) => f.name = call[p].hdr[k])

(* ... and identities are those of calls that have begun.                  *)
Forged ==
  /\ begun <= MaxOps
  /\ \A k \in Kinds, n \in Nodes : file[k][n].name <= begun
  /\ \A k \in Kinds, p \in Procs : call[p].hdr[k] <= begun

IdentityInv == Paired /\ Forged /\ \A p \in Procs : Knows(p)

(* IdentityInv holds at first,                                             *)
LEMMA InitIdentityInv == Init => IdentityInv
<1> SUFFICES ASSUME Init PROVE IdentityInv
  OBVIOUS
<1>1. Paired
  <2> SUFFICES ASSUME NEW n \in Nodes, Exists("admin", n)
               PROVE  /\ Exists("conf", n)
                      /\ \A i \in Identity("conf", n), j \in Identity("admin", n) : i = j
    BY DEF Paired
  <2>1. file["conf"][n] = OldFile /\ file["admin"][n] = OldFile
    BY DEF Init, Exists, Kinds, NoFile
  <2>2. Identity("conf", n) = {0} /\ Identity("admin", n) = {0}
    BY <2>1 DEF Identity, Loads, OldFile
  <2>3. QED
    BY <2>1, <2>2 DEF Exists, OldFile
<1>2. Forged
  <2>1. \A k \in Kinds, n \in Nodes : file[k][n].name <= begun
    BY DEF Init, OldFile, NoFile, NoName
  <2>2. QED
    BY <2>1, NodesAssumption DEF Init, Forged
<1>3. \A p \in Procs : Knows(p)
  BY DEF Init, Knows, Storing
<1>4. QED
  BY <1>1, <1>2, <1>3 DEF IdentityInv

(* Where a call is at work, no other is writing,                           *)
LEMMA NobodyElse ==
  ASSUME TypeOK, Apart, NEW p \in Procs, pc[p].stage # "idle",
         NEW q \in Procs \ {p}, NEW k
  PROVE  ~ Writing(q, k, call[p].at)
<1>1. PlaceOK(q)
  BY DEF TypeOK
<1>2. QED
  BY <1>1 DEF Apart, Writing, PlaceOK, StagesWith

(* what does not exist has no identity,                                    *)
LEMMA VoidHasNone ==
  ASSUME TypeOK, IdentityInv, NEW k \in Configs, NEW n \in Nodes, ~ Exists(k, n)
  PROVE  Identity(k, n) = {}
<1>1. ~ Loads(file[k][n])
  BY DEF Exists, Loads
<1>2. ASSUME NEW q \in Procs, Writing(q, k, n) PROVE FALSE
  <2>1. PlaceOK(q) /\ Knows(q)
    BY DEF TypeOK, IdentityInv
  <2>2. pc[q].stage \in {"save_conf", "save_admin"}
    BY <1>2, <2>1 DEF Writing, PlaceOK, StagesWith, KindOf, Configs
  <2>3. QED
    BY <1>2, <2>1, <2>2 DEF Writing, Knows
<1>3. QED
  BY <1>1, <1>2 DEF Identity

(* and what a call may write bears, or is to bear, what the call works with*)
LEMMA WriterBears ==
  ASSUME TypeOK, Apart, IdentityInv, NEW p \in Procs, NEW k \in Configs, NEW n \in Nodes,
         Writing(p, k, n) \/ (pc[p].step = "open" /\ k = KindOf(pc[p].stage) /\ n = call[p].at
                              /\ Exists(k, n))
  PROVE  Identity(k, n) = {call[p].hdr[k]}
<1>1. PlaceOK(p) /\ Knows(p) /\ call[p] \in Call
  BY DEF TypeOK, IdentityInv
<1>2. pc[p].stage \in {"save_conf", "save_admin"} /\ k = KindOf(pc[p].stage) /\ n = call[p].at
  BY <1>1 DEF Writing, PlaceOK, StagesWith, KindOf, Configs
<1>3. CASE Loads(file[k][n])
  <2>1. file[k][n].name = call[p].hdr[k]
    BY <1>1, <1>2, <1>3 DEF Writing, Knows, Storing, Holds, Configs
  <2>2. QED
    BY <1>3, <2>1 DEF Identity
<1>4. CASE ~ Loads(file[k][n])
  <2>1. Writing(p, k, n)
    BY <1>1, <1>2, <1>4 DEF Knows, Storing, Holds, Configs
  <2>2. \A q \in Procs : Writing(q, k, n) => q = p
    BY <1>2, NobodyElse
  <2>3. QED
    BY <1>4, <2>1, <2>2 DEF Identity
<1>5. QED
  BY <1>3, <1>4

(* A store leaves its file torn, or with the identity that the call works  *)
(* with.                                                                   *)
LEMMA StoredFields ==
  ASSUME NEW p, NEW st, Stored(p, st), NEW k \in Kinds, NEW n \in Nodes,
         k = KindOf(pc[p].stage), n = call[p].at
  PROVE  IF st = "torn" THEN file'[k][n] = TornFile
                        ELSE /\ file'[k][n].st = st
                             /\ file'[k][n].name = call[p].hdr[k]
                             /\ file'[k][n].rev = call[p].id
<1>1. file'[k][n] = IF st = "torn" THEN TornFile
                    ELSE [st |-> st, name |-> call[p].hdr[k], rev |-> call[p].id]
  BY Zenon DEF Stored
<1>2. QED
  BY <1>1

(* What a call stores bears its identity, or is to bear it: nobody else is *)
(* writing there.                                                          *)
LEMMA StoreBears ==
  ASSUME TypeOK, Apart, NEW p \in Procs, Opens(p) \/ Parts(p) \/ Writes(p),
         \A q \in Procs \ {p} : pc'[q] = pc[q] /\ call'[q] = call[q],
         NEW k \in Configs, NEW n \in Nodes, k = KindOf(pc[p].stage), n = call[p].at
  PROVE  Identity(k, n)' = {call[p].hdr[k]} /\ Exists(k, n)'
<1>a. k \in Kinds
  BY DEF Configs, Kinds
<1>b. PICK st \in {"torn", "cut", "whole"} : Stored(p, st) /\ (Writes(p) => st = "whole")
  BY DEF Opens, Parts, Writes
<1>1. CASE st # "torn"
  <2>1. file'[k][n].st = st /\ file'[k][n].name = call[p].hdr[k]
    BY <1>a, <1>b, <1>1, StoredFields
  <2>2. Loads(file'[k][n])
    BY <1>1, <2>1 DEF Loads
  <2>3. QED
    BY <2>1, <2>2 DEF Identity, Exists, Loads
<1>2. CASE st = "torn"
  <2>1. file'[k][n] = TornFile
    BY <1>a, <1>b, <1>2, StoredFields
  <2>2. call'[p] = call[p] /\ Writing(p, k, n)'
    BY <1>b, <1>2 DEF Opens, Parts, Goes, Writing
  <2>3. ASSUME NEW q \in Procs \ {p} PROVE ~ Writing(q, k, n)'
    <3>1. ~ Writing(q, k, n)
      BY NobodyElse DEF Opens, Parts, Writes
    <3>2. QED
      BY <3>1 DEF Writing
  <2>4. ~ Loads(file'[k][n]) /\ Exists(k, n)'
    BY <2>1 DEF Loads, Exists, TornFile
  <2>5. QED
    BY <2>2, <2>3, <2>4 DEF Identity
<1>3. QED
  BY <1>1, <1>2

(* The identity of a configuration through a step of a call: it stays, it  *)
(* is lost by a call that stops while it writes, or it is new.             *)
LEMMA IdentityMoves ==
  ASSUME TypeOK, Apart, IdentityInv, NEW p \in Procs, Begins(p) \/ Carries(p),
         \A q \in Procs \ {p} : pc'[q] = pc[q] /\ call'[q] = call[q],
         NEW k \in Configs, NEW n \in Nodes
  PROVE  \/ Identity(k, n)' = Identity(k, n)
         \/ Identity(k, n)' = {} /\ Writing(p, k, n) /\ pc'[p].stage = "idle" /\ UNCHANGED file
         \/ /\ ~ Exists(k, n) /\ Opens(p) /\ ~ Updating(p)
            /\ k = KindOf(pc[p].stage) /\ n = call[p].at
            /\ Identity(k, n)' = {call[p].hdr[k]}
<1>a. k \in Kinds
  BY DEF Configs, Kinds
<1>b. PlaceOK(p) /\ Knows(p)
  BY DEF TypeOK, IdentityInv
<1>1. CASE /\ Opens(p) \/ Parts(p) \/ Writes(p)
           /\ k = KindOf(pc[p].stage) /\ n = call[p].at
  <2>1. Identity(k, n)' = {call[p].hdr[k]}
    BY <1>1, StoreBears
  <2>2. CASE Exists(k, n) \/ ~ Opens(p)
    <3>1. Identity(k, n) = {call[p].hdr[k]}
      BY <1>1, <2>2, WriterBears DEF Opens, Parts, Writes, Writing
    <3>2. QED
      BY <2>1, <3>1
  <2>3. CASE ~ Exists(k, n) /\ Opens(p)
    <3>1. pc[p].stage \in Storing /\ (Updating(p) => Holds(p, k))
      BY <1>1, <1>b, <2>3 DEF Opens, Knows, Writing, Storing
    <3>2. ~ Updating(p)
      BY <1>1, <2>3, <3>1 DEF Holds, Exists, Loads
    <3>3. QED
      BY <1>1, <2>1, <2>3, <3>2
  <2>4. QED
    BY <2>2, <2>3
<1>2. CASE ~ (/\ Opens(p) \/ Parts(p) \/ Writes(p)
              /\ k = KindOf(pc[p].stage) /\ n = call[p].at)
  <2>1. file'[k][n] = file[k][n]
    BY <1>a, <1>2 DEF Begins, Carries, MovesOn, MakesDirs, Reads, Checks, Ends, Opens, Parts,
                      Writes, Stored
  <2>2. ~ Writing(p, k, n)'
    BY <1>2 DEF Begins, Carries, MovesOn, MakesDirs, Reads, Checks, Ends, Opens, Parts,
                Writes, Goes, Writing, Work, Stages
  <2>3. \A q \in Procs \ {p} : Writing(q, k, n)' = Writing(q, k, n) /\ call'[q].hdr = call[q].hdr
    BY DEF Writing
  <2>4. CASE ~ Writing(p, k, n) \/ Loads(file[k][n])
    <3>1. CASE Loads(file[k][n])
      BY <2>1, <3>1 DEF Identity
    <3>2. CASE ~ Writing(p, k, n) /\ ~ Loads(file[k][n])
      <4>1. {call'[q].hdr[k] : q \in {q \in Procs : Writing(q, k, n)'}}
              = {call[q].hdr[k] : q \in {q \in Procs : Writing(q, k, n)}}
        BY <2>2, <2>3, <3>2
      <4>2. QED
        BY <2>1, <3>2, <4>1 DEF Identity
    <3>3. QED
      BY <2>4, <3>1, <3>2
  <2>5. CASE Writing(p, k, n) /\ ~ Loads(file[k][n])
    <3>1. Ends(p)
      BY <1>2, <1>b, <2>5 DEF Begins, Carries, MovesOn, MakesDirs, Reads, Checks, Opens, Parts,
                              Writes, Writing, PlaceOK, StagesWith, Configs
    <3>2. \A q \in Procs \ {p} : ~ Writing(q, k, n)
      BY <2>5, <3>1, <1>b, NobodyElse DEF Writing, PlaceOK, StagesWith
    <3>3. Identity(k, n)' = {}
      BY <2>1, <2>2, <2>3, <2>5, <3>2 DEF Identity
    <3>4. QED
      BY <2>5, <3>1, <3>3 DEF Ends, Goes
  <2>6. QED
    BY <2>4, <2>5
<1>3. QED
  BY <1>1, <1>2

(* IdentityInv through any step of calls that do not meet.                 *)
LEMMA IdentityStep ==
  ASSUME TypeOK, Apart, IdentityInv, [Next]_vars
  PROVE  IdentityInv'
<1>1. CASE UNCHANGED <<file, call, pc, begun>>
  <2>1. \A k \in Configs, n \in Nodes : Identity(k, n)' = Identity(k, n)
    BY <1>1 DEF Identity, Writing
  <2>2. Paired'
    BY <1>1, <2>1 DEF IdentityInv, Paired, Exists, Configs
  <2>3. \A p \in Procs : Knows(p)'
    BY <1>1 DEF IdentityInv, Knows, Holds, Writing, Updating, Exists
  <2>4. QED
    BY <1>1, <2>2, <2>3 DEF IdentityInv, Forged
<1>2. ASSUME NEW p \in Procs, Begins(p) \/ Carries(p),
             \A q \in Procs \ {p} : pc'[q] = pc[q] /\ call'[q] = call[q]
      PROVE  IdentityInv'
  <2>1. call[p] \in Call /\ PlaceOK(p) /\ Knows(p) /\ Paired /\ Forged
    BY DEF TypeOK, IdentityInv
  <2>2. \A k \in Configs, n \in Nodes : Exists(k, n) => Exists(k, n)'
    BY FilesStay DEF Configs, Kinds
  <2>3. \/ UNCHANGED file
        \/ Opens(p) \/ Parts(p) \/ Writes(p)
    BY <1>2 DEF Begins, Carries, MovesOn, MakesDirs, Reads, Checks, Ends
  <2>4. ASSUME NEW q \in Procs \ {p} PROVE Knows(q)'
    <3>1. pc'[q] = pc[q] /\ call'[q] = call[q] /\ Knows(q) /\ PlaceOK(q)
      BY <1>2 DEF IdentityInv, TypeOK
    <3>2. CASE pc[q].stage = "idle"
      BY <3>1, <3>2 DEF Knows, Storing
    <3>3. CASE \A k \in Kinds : file'[k][call[q].at] = file[k][call[q].at]
      <4>1. KindOf(pc[q].stage) \in Kinds
        BY DEF KindOf, Kinds
      <4>2. QED
        BY <3>1, <3>3, <4>1
           DEF Knows, Holds, Writing, Updating, Exists, Configs, Kinds
    <3>4. CASE pc[q].stage # "idle" /\ (Opens(p) \/ Parts(p) \/ Writes(p))
      <4>1. call[p].at # call[q].at /\ call[q].at \in Nodes
        BY <3>4 DEF Apart, Opens, Parts, Writes, TypeOK, Call
      <4>2. \A k \in Kinds : file'[k][call[q].at] = file[k][call[q].at]
        BY <3>4, <4>1 DEF Opens, Parts, Writes, Stored
      <4>3. QED
        BY <3>3, <4>2
    <3>5. QED
      BY <2>3, <3>2, <3>3, <3>4
  <2>5. Knows(p)'
    <3>1. CASE Begins(p)
      BY <3>1 DEF Begins, Knows, Updating, FirstStage, Storing, Kinds
    <3>2. CASE MovesOn(p)
      <4>1. Parent(call[p].node) # call[p].node
        BY <2>1, <3>2, ParentDiffers DEF MovesOn, Call
      <4>2. QED
        BY <3>2, <2>1, <4>1 DEF MovesOn, Goes, Knows, Updating, FirstStage, Storing, Call
    <3>3. CASE MakesDirs(p) \/ Checks(p)
      <4>1. call'[p] = call[p] /\ file' = file
            /\ pc[p].step # "write" /\ pc'[p].step # "write"
        BY <3>3 DEF MakesDirs, Checks, Goes, Work, Stages
      <4>2. /\ Updating(p)' = Updating(p)
            /\ \A k \in Kinds : Exists(k, call[p].at)' = Exists(k, call[p].at)
            /\ \A k \in Kinds : Holds(p, k)' = Holds(p, k)
            /\ \A k \in Kinds, n \in Nodes : ~ Writing(p, k, n)
        BY <4>1 DEF Holds, Updating, Exists, Writing
      <4>3. QED
        BY <3>3, <2>1, <4>1, <4>2
           DEF MakesDirs, Checks, Goes, Knows, Storing, Work, KindOf, Stages, Kinds, Configs,
               Exists, Call
    <3>4. CASE Reads(p)
      <4>a. PICK k \in Kinds : k = KindOf(pc[p].stage)
        BY DEF KindOf, Kinds
      <4>1. k \in Kinds /\ call[p].at \in Nodes /\ UNCHANGED file
        BY <2>1, <3>4 DEF Reads, Call
      <4>2. PICK h : /\ call'[p] = [call[p] EXCEPT !.hdr = h]
                     /\ \A j \in Kinds : h[j] = IF j = k THEN file[k][call[p].at].name
                                                         ELSE call[p].hdr[j]
        BY <3>4, <4>a DEF Reads
      <4>3. /\ call'[p].at = call[p].at /\ call'[p].node = call[p].node
            /\ call'[p].update = call[p].update /\ call'[p].hdr = h
        BY <2>1, <4>2 DEF Call
      <4>4. Holds(p, k)' /\ Updating(p)' /\ pc'[p].step = "stat"
        <5>1. file'[k][call'[p].at] = file[k][call[p].at] /\ call'[p].hdr[k] = file[k][call[p].at].name
          BY <4>1, <4>2, <4>3
        <5>2. Loads(file[k][call[p].at]) /\ Updating(p) /\ pc'[p].step = "stat"
          BY <2>1, <3>4, <4>a DEF Reads, Knows
        <5>3. QED
          BY <4>3, <5>1, <5>2 DEF Holds, Updating
      <4>5. CASE pc[p].stage = "hdr_conf"
        <5>1. k = "conf" /\ pc'[p].stage = "hdr_admin"
          BY <3>4, <4>a, <4>5 DEF Reads, KindOf, After
        <5>2. QED
          BY <4>4, <5>1 DEF Knows, Storing
      <4>6. CASE pc[p].stage = "hdr_admin"
        <5>1. Holds(p, "conf")'
          BY <2>1, <4>a, <4>1, <4>2, <4>3, <4>6 DEF Knows, Holds, KindOf, Kinds
        <5>2. Exists("admin", call[p].at)
          BY <3>4, <4>6 DEF Reads, KindOf, Loads, Exists
        <5>3. PICK n \in Nodes : n = call[p].at
          BY <4>1
        <5>4. Identity("conf", n) = {h["conf"]} /\ Identity("admin", n) = {h["admin"]}
          BY <2>1, <3>4, <4>a, <4>2, <4>6, <5>3
             DEF Reads, Knows, Holds, KindOf, Identity, Kinds
        <5>5. h["conf"] = h["admin"]
          BY <2>1, <5>2, <5>3, <5>4 DEF Paired
        <5>6. Holds(p, "admin")'
          BY <4>a, <4>4, <4>6 DEF KindOf
        <5>7. pc'[p].stage = "dirs"
          BY <3>4, <4>6 DEF Reads, After
        <5>8. QED
          BY <4>3, <4>4, <5>1, <5>5, <5>6, <5>7 DEF Knows, Storing, Configs
      <4>7. QED
        BY <3>4, <4>5, <4>6 DEF Reads
    <3>5. CASE Opens(p) \/ Parts(p) \/ Writes(p)
      <4>a. call[p].at \in Nodes
        BY <2>1 DEF Call
      <4>b. PICK k \in Kinds : k = KindOf(pc[p].stage)
        BY DEF KindOf, Kinds
      <4>1. \A j \in Kinds \ {k} : file'[j][call[p].at] = file[j][call[p].at]
        BY <3>5, <4>a, <4>b DEF Opens, Parts, Writes, Stored
      <4>2. PICK st \in {"torn", "cut", "whole"} : Stored(p, st) /\ (Writes(p) => st = "whole")
        BY <3>5 DEF Opens, Parts, Writes
      <4>3. IF st = "torn" THEN file'[k][call[p].at] = TornFile
                           ELSE /\ file'[k][call[p].at].st = st
                                /\ file'[k][call[p].at].name = call[p].hdr[k]
        BY <4>2, <4>a, <4>b, StoredFields
      <4>4. CASE Opens(p) \/ Parts(p)
        <5>1. /\ pc'[p].stage = pc[p].stage /\ pc'[p].step = "write" /\ call'[p] = call[p]
              /\ pc[p].stage \in {"save_conf", "save_admin", "save_status"}
          BY <4>4 DEF Opens, Parts, Goes
        <5>2. Updating(p)' = Updating(p)
          BY <5>1 DEF Updating
        <5>3. \A j \in Kinds \ {k} : Holds(p, j)' = Holds(p, j)
          BY <4>1, <5>1 DEF Holds
        <5>4. Writing(p, k, call[p].at)'
          BY <4>b, <5>1 DEF Writing
        <5>5. \A j \in Kinds : Writing(p, j, call[p].at) => j = k
          BY <4>b DEF Writing
        <5>6. Exists(k, call[p].at)'
              /\ (Loads(file'[k][call[p].at]) => file'[k][call[p].at].name = call[p].hdr[k])
          BY <4>3, <5>1 DEF Exists, Loads, TornFile
        <5>7. \A j \in Configs : Updating(p) => Holds(p, j)' \/ Writing(p, j, call[p].at)'
          BY <2>1, <5>1, <5>3, <5>4, <5>5 DEF Knows, Storing, Configs, Kinds
        <5>8. CASE pc[p].stage = "save_conf"
          BY <2>1, <4>b, <5>1, <5>2, <5>6, <5>7, <5>8 DEF Knows, Storing, KindOf, Exists, Writing
        <5>9. CASE pc[p].stage = "save_admin"
          BY <2>1, <4>b, <5>1, <5>2, <5>3, <5>6, <5>7, <5>9
             DEF Knows, Storing, KindOf, Exists, Writing, Kinds
        <5>10. CASE pc[p].stage = "save_status"
          BY <2>1, <4>b, <5>1, <5>2, <5>3, <5>7, <5>10
             DEF Knows, Storing, KindOf, Exists, Writing, Kinds
        <5>11. QED
          BY <5>1, <5>8, <5>9, <5>10
      <4>5. CASE Writes(p)
        <5>1. pc'[p].step = "stat"
          BY <4>5 DEF Writes, Goes
        <5>2. \A j \in Kinds : call'[p] = call[p] /\ Holds(p, j) => Holds(p, j)'
          BY <4>1, <4>2, <4>3, <4>5 DEF Holds, Loads
        <5>3. call'[p] = call[p] => Holds(p, k)'
          BY <4>2, <4>3, <4>5 DEF Holds, Loads
        <5>4. CASE pc[p].stage \in {"save_conf", "save_admin"}
          <6>1. call'[p] = call[p] /\ pc'[p].stage = After(pc[p].stage)
            BY <4>5, <5>4 DEF Writes, Goes
          <6>2. Updating(p)' = Updating(p)
            BY <6>1 DEF Updating
          <6>3. \A j \in Configs : Updating(p) => Holds(p, j)'
            BY <2>1, <4>b, <5>2, <5>3, <5>4, <6>1 DEF Knows, Storing, Configs, Kinds, Writing
          <6>4. QED
            BY <2>1, <4>b, <5>1, <5>2, <5>3, <5>4, <6>1, <6>2, <6>3
               DEF Knows, Storing, KindOf, Kinds, After
        <5>5. CASE pc[p].stage = "save_status"
          <6>1. CASE pc'[p].stage = "idle"
            BY <5>1, <6>1 DEF Knows, Storing
          <6>2. CASE /\ call[p].at # call[p].node
                     /\ pc'[p].stage = FirstStage(call[p].update)
                     /\ call'[p] = [call[p] EXCEPT !.at = call[p].node]
            BY <2>1, <5>1, <5>5, <6>2 DEF Knows, Storing, Updating, FirstStage, Call
          <6>3. QED
            BY <4>5, <5>5, <6>1, <6>2 DEF Writes, Goes
        <5>6. QED
          BY <4>5, <5>4, <5>5 DEF Writes
      <4>6. QED
        BY <3>5, <4>4, <4>5
    <3>6. CASE Ends(p)
      BY <3>6 DEF Ends, Goes, Knows, Storing
    <3>7. QED
      BY <1>2, <3>1, <3>2, <3>3, <3>4, <3>5, <3>6 DEF Carries
  <2>6. Paired'
    <3> SUFFICES ASSUME NEW n \in Nodes, Exists("admin", n)'
                 PROVE  /\ Exists("conf", n)'
                        /\ \A i \in Identity("conf", n)', j \in Identity("admin", n)' : i = j
      BY DEF Paired
    <3>1. CASE Exists("admin", n)
      <4>1. /\ Exists("conf", n)
            /\ \A i \in Identity("conf", n), j \in Identity("admin", n) : i = j
        BY <2>1, <3>1 DEF Paired
      <4>2. \A k \in Configs : Exists(k, n) => Identity(k, n)' \in {Identity(k, n), {}}
        BY <1>2, IdentityMoves
      <4>3. QED
        BY <2>2, <3>1, <4>1, <4>2 DEF Configs
    <3>2. CASE ~ Exists("admin", n)
      <4>1. Opens(p) \/ Parts(p) \/ Writes(p)
        BY <2>3, <3>2 DEF Exists
      <4>2. call[p].at = n /\ pc[p].stage = "save_admin" /\ KindOf(pc[p].stage) = "admin"
        BY <3>2, <4>1 DEF Opens, Parts, Writes, Stored, Kinds, Exists, KindOf
      <4>3. file'["conf"][n] = file["conf"][n]
        BY <4>1, <4>2 DEF Opens, Parts, Writes, Stored, Kinds
      <4>4. Loads(file["conf"][n]) /\ file["conf"][n].name = call[p].hdr["conf"]
            /\ call[p].hdr["conf"] = call[p].hdr["admin"]
        BY <2>1, <4>2 DEF Knows, Holds, Storing
      <4>5. Identity("conf", n)' = {call[p].hdr["conf"]} /\ Exists("conf", n)'
        BY <4>3, <4>4 DEF Identity, Exists, Loads
      <4>6. Identity("admin", n)' = {call[p].hdr["admin"]}
        BY <1>2, <4>1, <4>2, StoreBears DEF Configs
      <4>7. QED
        BY <4>4, <4>5, <4>6
    <3>3. QED
      BY <3>1, <3>2
  <2>7. Forged'
    <3>1. /\ begun \in Nat /\ begun' \in {begun, begun + 1} /\ begun' <= MaxOps
          /\ \A k \in Kinds, n \in Nodes : file[k][n].name \in Int
          /\ \A k \in Kinds, q \in Procs : call[q].hdr[k] \in Nat
      <4>1. \A f \in File : f.name \in Int
        BY DEF File, NoFile, TornFile, NoName
      <4>2. \A k \in Kinds, n \in Nodes : file[k][n] \in File
        BY DEF TypeOK
      <4>3. begun \in Nat /\ begun' \in {begun, begun + 1} /\ begun' <= MaxOps
        BY <1>2, <2>1, NodesAssumption DEF TypeOK, Begins, Carries, Forged
      <4>4. QED
        BY <4>1, <4>2, <4>3 DEF TypeOK, Call
    <3>2. \A k \in Kinds, n \in Nodes : file'[k][n].name <= begun'
      <4>1. CASE UNCHANGED file
        BY <2>1, <3>1, <4>1 DEF Forged
      <4>2. CASE Opens(p) \/ Parts(p) \/ Writes(p)
        <5>1. \A k \in Kinds, n \in Nodes :
                \/ file'[k][n].name = call[p].hdr[k]
                \/ file'[k][n].name = -1
                \/ file'[k][n].name = file[k][n].name
          <6>1. PICK st : Stored(p, st)
            BY <4>2 DEF Opens, Parts, Writes
          <6> TAKE k \in Kinds, n \in Nodes
          <6>2. CASE k = KindOf(pc[p].stage) /\ n = call[p].at
            BY <6>1, <6>2, StoredFields DEF TornFile, NoName
          <6>3. CASE ~ (k = KindOf(pc[p].stage) /\ n = call[p].at)
            BY <6>1, <6>3 DEF Stored
          <6>4. QED
            BY <6>2, <6>3
        <5>2. \A k \in Kinds, n \in Nodes : call[p].hdr[k] <= begun' /\ file[k][n].name <= begun'
          BY <2>1, <3>1 DEF Forged
        <5>3. QED
          BY <3>1, <5>1, <5>2
      <4>3. QED
        BY <2>3, <4>1, <4>2
    <3>3. \A k \in Kinds : call'[p].hdr[k] <= begun'
      <4>1. CASE Begins(p)
        BY <3>1, <4>1 DEF Begins
      <4>2. CASE Reads(p)
        <5>1. KindOf(pc[p].stage) \in Kinds /\ call[p].at \in Nodes
          BY <2>1, <4>2 DEF Reads, KindOf, Kinds, Call
        <5>2. PICK h : /\ call'[p] = [call[p] EXCEPT !.hdr = h]
                       /\ \A j \in Kinds : h[j] = IF j = KindOf(pc[p].stage)
                                                    THEN file[j][call[p].at].name
                                                    ELSE call[p].hdr[j]
          BY <4>2 DEF Reads
        <5>3. call'[p].hdr = h
          BY <2>1, <5>2 DEF Call
        <5>4. QED
          BY <2>1, <3>1, <5>1, <5>2, <5>3 DEF Forged
      <4>3. CASE call'[p].hdr = call[p].hdr
        BY <2>1, <3>1, <4>3 DEF Forged
      <4>4. QED
        BY <1>2, <2>1, <4>1, <4>2, <4>3
           DEF Carries, MovesOn, MakesDirs, Checks, Opens, Parts, Writes, Ends, Goes, Call
    <3>4. \A k \in Kinds, q \in Procs \ {p} : call'[q].hdr[k] <= begun'
      BY <1>2, <2>1, <3>1 DEF Forged
    <3>5. QED
      BY <3>1, <3>2, <3>3, <3>4 DEF Forged
  <2>8. QED
    BY <2>4, <2>5, <2>6, <2>7 DEF IdentityInv
<1>3. QED
  BY <1>1, <1>2, WhatACallDoes

(* The inductive invariant of identities: the two configurations of a node *)
(* bear one, if any, that of a call that has begun, and a call at work     *)
(* knows the one it found or forged (rednode_factory_create_node).         *)
THEOREM IdentityInvCorrect == Spec /\ []Apart => []IdentityInv
BY InitIdentityInv, IdentityStep, TypeCorrect, PTL DEF Spec

(* As long as calls do not meet, a configuration of a live node keeps its  *)
(* identity, whether calls create or update, die or fail, but for the one  *)
(* that a call was writing when it died or failed.                         *)
THEOREM IdentityKeptCorrect == Spec /\ []Apart => IdentityKept
<1> DEFINE Kept == \A n \in Nodes, k \in Configs : Live(n) =>
                     \/ Identity(k, n)' = Identity(k, n)
                     \/ /\ Identity(k, n)' = {}
                        /\ \E p \in Procs : Writing(p, k, n) /\ pc'[p].stage = "idle"
<1>1. TypeOK /\ Apart /\ IdentityInv /\ [Next]_vars => [Kept]_vars
  <2> SUFFICES ASSUME TypeOK, Apart, IdentityInv, [Next]_vars,
                      NEW n \in Nodes, NEW k \in Configs, Live(n)
               PROVE  \/ Identity(k, n)' = Identity(k, n)
                      \/ /\ Identity(k, n)' = {}
                         /\ \E p \in Procs : Writing(p, k, n) /\ pc'[p].stage = "idle"
    OBVIOUS
  <2>1. Exists(k, n)
    BY DEF Live, Configs
  <2>2. CASE UNCHANGED <<file, call, pc, begun>>
    BY <2>2 DEF Identity, Writing
  <2>3. QED
    BY <2>1, <2>2, WhatACallDoes, IdentityMoves
<1>2. QED
  BY <1>1, IdentityInvCorrect, TypeCorrect, PTL DEF Spec, IdentityKept

(* As long as calls do not meet, none truncates a configuration that it    *)
(* may not update: "check no unexpected overwrite" of store_config.        *)
THEOREM NoUnexpectedOverwriteCorrect == Spec /\ []Apart => NoUnexpectedOverwrite
<1> DEFINE Fair == \A p \in Procs :
                     OpenFile(p) /\ pc[p].stage # "save_status" /\ ~ Updating(p)
                       => ~ Exists(KindOf(pc[p].stage), call[p].at)
<1>1. TypeOK /\ IdentityInv => Fair
  <2> SUFFICES ASSUME TypeOK, IdentityInv, NEW p \in Procs, OpenFile(p),
                      pc[p].stage # "save_status", ~ Updating(p)
               PROVE  ~ Exists(KindOf(pc[p].stage), call[p].at)
    OBVIOUS
  <2>1. PlaceOK(p) /\ Knows(p)
    BY DEF TypeOK, IdentityInv
  <2>2. pc[p].step = "open" /\ pc[p].stage \in {"save_conf", "save_admin"}
    BY <2>1 DEF OpenFile, PlaceOK, StagesWith
  <2>3. QED
    BY <2>1, <2>2 DEF Knows
<1>2. TypeOK /\ IdentityInv /\ [Next]_vars => [Fair]_vars
  BY <1>1
<1>3. QED
  BY <1>2, IdentityInvCorrect, TypeCorrect, PTL DEF Spec, NoUnexpectedOverwrite

-----------------------------------------------------------------------------
(* The refinement of NodeLifecycle, for nodes under the present names.     *)
PresentNames == OldNames = {}

(* The identity of a directory that is not lost is that of its first       *)
(* configuration, and a void one has none.                                 *)
LEMMA OneIdentity ==
  ASSUME TypeOK, IdentityInv, NEW n \in Nodes
  PROVE  /\ IdentOf(n) = IF PhaseOf(n) \in {"void", "lost"} THEN {} ELSE Identity("conf", n)
         /\ Lost(n) => Exists("conf", n)
<1>1. Paired /\ \A k \in Configs : ~ Exists(k, n) => Identity(k, n) = {}
  BY VoidHasNone DEF IdentityInv
<1>2. Lost(n) => Exists("conf", n)
  BY <1>1 DEF Lost, Paired, Configs
<1>3. CASE ~ Exists("conf", n)
  <2>1. ~ Exists("admin", n)
    BY <1>1, <1>3 DEF Paired
  <2>2. Identity("conf", n) = {} /\ Identity("admin", n) = {}
    BY <1>1, <1>3, <2>1 DEF Configs
  <2>3. QED
    BY <1>2, <1>3, <2>2 DEF IdentOf, PhaseOf
<1>4. CASE Exists("conf", n) /\ Lost(n)
  BY <1>4 DEF IdentOf, PhaseOf
<1>5. CASE Exists("conf", n) /\ ~ Lost(n)
  <2>1. Identity("conf", n) # {}
    BY <1>5 DEF Lost, Configs
  <2>2. Identity("admin", n) \subseteq Identity("conf", n)
    BY <1>1, <2>1 DEF Paired, Configs
  <2>3. QED
    BY <1>5, <2>2 DEF IdentOf, PhaseOf
<1>6. QED
  BY <1>2, <1>3, <1>4, <1>5

(* Initial states map to initial states.                                   *)
LEMMA InitMaps ==
  ASSUME PresentNames, Init
  PROVE  Lifecycle!Init
<1> DEFINE phase == [n \in Nodes |-> PhaseOf(n)]
           ident == [n \in Nodes |-> IdentOf(n)]
<1>1. ASSUME NEW n \in Nodes
      PROVE  IF n \in Existing THEN PhaseOf(n) = "live" /\ IdentOf(n) = {0}
                               ELSE PhaseOf(n) = "void" /\ IdentOf(n) = {}
  <2>1. \A k \in Kinds : file[k][n] = IF n \in Existing THEN OldFile ELSE NoFile
    BY DEF Init, PresentNames
  <2>2. \A p \in Procs : pc[p].step = "stat"
    BY DEF Init
  <2>3. \A k \in Configs : Identity(k, n) = IF n \in Existing THEN {0} ELSE {}
    <3> TAKE k \in Configs
    <3>1. CASE n \in Existing
      <4>1. Loads(file[k][n]) /\ file[k][n].name = 0
        BY <2>1, <3>1 DEF Loads, OldFile, Configs, Kinds
      <4>2. QED
        BY <3>1, <4>1 DEF Identity
    <3>2. CASE n \notin Existing
      <4>1. ~ Loads(file[k][n])
        BY <2>1, <3>2 DEF Loads, NoFile, Configs, Kinds
      <4>2. \A q \in Procs : ~ Writing(q, k, n)
        BY <2>2 DEF Writing
      <4>3. QED
        BY <3>2, <4>1, <4>2 DEF Identity
    <3>3. QED
      BY <3>1, <3>2
  <2>4. \A k \in Kinds : Exists(k, n) <=> n \in Existing
    BY <2>1 DEF Exists, OldFile, NoFile
  <2>5. ~ Lost(n)
    BY <2>3, <2>4 DEF Lost, Configs, Kinds
  <2>6. QED
    BY <2>3, <2>4, <2>5 DEF PhaseOf, IdentOf, Configs, Kinds
<1>2. phase \in [Nodes -> {"void", "live"}] /\ ident \in [Nodes -> {{}} \union {{id} : id \in 0..MaxOps}]
  BY <1>1, NodesAssumption
<1>3. \A n \in Nodes : phase[n] = "void" <=> ident[n] = {}
  <2> TAKE n \in Nodes
  <2>1. phase[n] = PhaseOf(n) /\ ident[n] = IdentOf(n)
    OBVIOUS
  <2> HIDE DEF phase, ident
  <2>2. CASE n \in Existing
    BY <1>1, <2>1, <2>2
  <2>3. CASE n \notin Existing
    BY <1>1, <2>1, <2>3
  <2>4. QED
    BY <2>2, <2>3
<1>4. QED
  BY <1>2, <1>3 DEF Lifecycle!Init

(* What a step does to one directory.                                      *)
LEMMA DirectoryMoves ==
  ASSUME PresentNames, TypeOK, TypeOK', Apart, IInv, IInv', IdentityInv, IdentityInv',
         [Next]_vars, NEW p \in Procs, Begins(p) \/ Carries(p),
         \A q \in Procs \ {p} : pc'[q] = pc[q] /\ call'[q] = call[q],
         NEW n \in Nodes
  PROVE  \/ PhaseOf(n)' = PhaseOf(n) /\ IdentOf(n)' = IdentOf(n)
         \/ /\ n = call[p].at
            /\ \/ /\ PhaseOf(n) = "void" /\ PhaseOf(n)' = "claimed"
                  /\ IdentOf(n)' = {call[p].hdr["conf"]}
               \/ /\ PhaseOf(n) = "claimed" /\ PhaseOf(n)' = "live"
                  /\ IdentOf(n)' = IdentOf(n)
               \/ /\ PhaseOf(n) \in {"claimed", "live"} /\ PhaseOf(n)' = "lost"
                  /\ IdentOf(n)' = {}
<1>1. \A k \in Kinds : Exists(k, n) => Exists(k, n)'
  BY FilesStay
<1>2. \A k \in Configs :
        \/ Identity(k, n)' = Identity(k, n)
        \/ Identity(k, n)' = {} /\ Writing(p, k, n) /\ pc'[p].stage = "idle" /\ UNCHANGED file
        \/ /\ ~ Exists(k, n) /\ Opens(p) /\ ~ Updating(p)
           /\ k = KindOf(pc[p].stage) /\ n = call[p].at
           /\ Identity(k, n)' = {call[p].hdr[k]}
  BY IdentityMoves
<1>3. \/ UNCHANGED file
      \/ Opens(p) \/ Parts(p) \/ Writes(p)
  BY DEF Begins, Carries, MovesOn, MakesDirs, Reads, Checks, Ends
<1>4. IdentOf(n) = IF PhaseOf(n) \in {"void", "lost"} THEN {} ELSE Identity("conf", n)
  BY OneIdentity
<1>5. IdentOf(n)' = IF PhaseOf(n)' \in {"void", "lost"} THEN {} ELSE Identity("conf", n)'
  <2>1. Paired' /\ \A k \in Configs : ~ Exists(k, n)' => Identity(k, n)' = {}
    <3>1. ASSUME NEW k \in Configs, ~ Exists(k, n)' PROVE Identity(k, n)' = {}
      <4>1. ~ Exists(k, n)
        BY <1>1, <3>1 DEF Configs, Kinds
      <4>2. Identity(k, n) = {}
        BY <4>1, VoidHasNone
      <4>3. CASE Opens(p) /\ k = KindOf(pc[p].stage) /\ n = call[p].at
        BY <3>1, <4>3, StoreBears
      <4>4. QED
        BY <1>2, <4>2, <4>3
    <3>2. QED
      BY <3>1 DEF IdentityInv
  <2>2. CASE ~ Exists("conf", n)'
    BY <2>1, <2>2 DEF Paired, IdentOf, PhaseOf, Configs
  <2>3. CASE Exists("conf", n)' /\ Lost(n)'
    BY <2>3 DEF IdentOf, PhaseOf
  <2>4. CASE Exists("conf", n)' /\ ~ Lost(n)'
    <3>1. Identity("conf", n)' # {}
      BY <2>4 DEF Lost, Configs
    <3>2. Identity("admin", n)' \subseteq Identity("conf", n)'
      BY <2>1, <3>1 DEF Paired, Configs
    <3>3. QED
      BY <2>4, <3>2 DEF IdentOf, PhaseOf
  <2>5. QED
    BY <2>2, <2>3, <2>4
<1>6. ASSUME n # call[p].at
      PROVE  PhaseOf(n)' = PhaseOf(n) /\ IdentOf(n)' = IdentOf(n)
  <2>1. \A k \in Kinds : file'[k][n] = file[k][n]
    BY <1>3, <1>6 DEF Opens, Parts, Writes, Stored
  <2>2. \A k \in Kinds : Exists(k, n)' = Exists(k, n)
    BY <2>1 DEF Exists
  <2>3. \A k \in Configs : Identity(k, n)' = Identity(k, n)
    BY <1>2, <1>6 DEF Writing
  <2>4. QED
    BY <2>2, <2>3 DEF PhaseOf, IdentOf, Lost, Configs, Kinds
<1>7. CASE n = call[p].at
  <2>1. CASE ~ Exists("conf", n) /\ ~ Exists("conf", n)'
    BY <1>4, <1>5, <2>1 DEF PhaseOf
  <2>2. CASE ~ Exists("conf", n) /\ Exists("conf", n)'
    <3>1. Opens(p) \/ Parts(p) \/ Writes(p)
      BY <1>3, <2>2 DEF Exists
    <3>2. KindOf(pc[p].stage) = "conf"
      BY <2>2, <3>1 DEF Opens, Parts, Writes, Stored, Exists, Kinds
    <3>3. Identity("conf", n)' = {call[p].hdr["conf"]}
      BY <1>7, <3>1, <3>2, StoreBears DEF Configs
    <3>4. file'["admin"][n] = file["admin"][n] /\ file'["status"][n] = file["status"][n]
      BY <3>1, <3>2 DEF Opens, Parts, Writes, Stored, Kinds
    <3>5. ~ Exists("admin", n) /\ ~ Exists("status", n)
      BY <2>2 DEF IdentityInv, Paired, IInv, StatusComesLast, PresentNames
    <3>6. ~ Exists("admin", n)' /\ ~ Exists("status", n)'
      BY <3>4, <3>5 DEF Exists
    <3>7. ~ Lost(n)'
      BY <3>3, <3>6 DEF Lost, Configs
    <3>8. PhaseOf(n) = "void" /\ PhaseOf(n)' = "claimed"
      BY <2>2, <3>6, <3>7 DEF PhaseOf
    <3>9. QED
      BY <1>5, <1>7, <3>3, <3>8
  <2>3. CASE Exists("conf", n) /\ Lost(n)
    <3>1. PICK k \in Configs : Exists(k, n) /\ Identity(k, n) = {}
      BY <2>3 DEF Lost
    <3>2. Exists(k, n)' /\ Identity(k, n)' = {}
      BY <1>1, <1>2, <3>1 DEF Configs, Kinds
    <3>3. Lost(n)' /\ Exists("conf", n)'
      BY <1>1, <2>3, <3>2 DEF Lost, Kinds
    <3>4. PhaseOf(n) = "lost" /\ PhaseOf(n)' = "lost"
      BY <2>3, <3>3 DEF PhaseOf
    <3>5. QED
      BY <1>4, <1>5, <3>4
  <2>4. CASE Exists("conf", n) /\ ~ Lost(n) /\ Lost(n)'
    <3>1. Exists("conf", n)'
      BY <1>1, <2>4 DEF Kinds
    <3>2. PhaseOf(n) \in {"claimed", "live"} /\ PhaseOf(n)' = "lost"
      BY <2>4, <3>1 DEF PhaseOf
    <3>3. QED
      BY <1>5, <1>7, <3>2
  <2>5. CASE Exists("conf", n) /\ ~ Lost(n) /\ ~ Lost(n)'
    <3>1. Exists("conf", n)'
      BY <1>1, <2>5 DEF Kinds
    <3>2. Identity("conf", n)' # {}
      BY <2>5, <3>1 DEF Lost, Configs
    <3>3. Identity("conf", n)' = Identity("conf", n)
      BY <1>2, <2>5, <3>2 DEF Configs
    <3>4. CASE Exists("status", n)' = Exists("status", n)
      BY <1>4, <1>5, <2>5, <3>1, <3>3, <3>4 DEF PhaseOf
    <3>5. CASE Exists("status", n)' # Exists("status", n)
      <4>1. PhaseOf(n) = "claimed" /\ PhaseOf(n)' = "live"
        BY <1>1, <2>5, <3>1, <3>5 DEF PhaseOf, Exists, Kinds
      <4>2. QED
        BY <1>4, <1>5, <1>7, <3>3, <4>1
    <3>6. QED
      BY <3>4, <3>5
  <2>6. QED
    BY <2>1, <2>2, <2>3, <2>4, <2>5
<1>8. QED
  BY <1>6, <1>7

(* Each step maps to a step, or to a stutter.                              *)
LEMMA StepMaps ==
  ASSUME PresentNames, TypeOK, TypeOK', Apart, IInv, IInv', IdentityInv, IdentityInv',
         [Next]_vars
  PROVE  [Lifecycle!Next]_<<[n \in Nodes |-> PhaseOf(n)], [n \in Nodes |-> IdentOf(n)]>>
<1> DEFINE phase == [n \in Nodes |-> PhaseOf(n)]
           ident == [n \in Nodes |-> IdentOf(n)]
<1>1. CASE UNCHANGED <<file, call, pc, begun>>
  <2>1. \A n \in Nodes : PhaseOf(n)' = PhaseOf(n) /\ IdentOf(n)' = IdentOf(n)
    <3>1. \A k \in Configs, n \in Nodes : Identity(k, n)' = Identity(k, n)
      BY <1>1 DEF Identity, Writing
    <3>2. QED
      BY <1>1, <3>1 DEF PhaseOf, IdentOf, Lost, Exists, Configs
  <2>2. QED
    BY <2>1
<1>2. ASSUME NEW p \in Procs, Begins(p) \/ Carries(p),
             \A q \in Procs \ {p} : pc'[q] = pc[q] /\ call'[q] = call[q]
      PROVE  Lifecycle!Next \/ UNCHANGED <<phase, ident>>
  <2>1. PICK a \in Nodes : a = call[p].at
    BY DEF TypeOK, Call
  <2>2. PICK id \in 0..MaxOps : id = call[p].hdr["conf"]
    <3>1. call[p].hdr["conf"] \in Nat /\ call[p].hdr["conf"] <= begun /\ begun <= MaxOps
      BY DEF TypeOK, Call, Kinds, IdentityInv, Forged
    <3>2. begun \in Nat /\ MaxOps \in Nat
      BY NodesAssumption DEF TypeOK
    <3>3. QED
      BY <3>1, <3>2
  <2>3. \A m \in Nodes \ {a} : PhaseOf(m)' = PhaseOf(m) /\ IdentOf(m)' = IdentOf(m)
    BY <1>2, <2>1, DirectoryMoves
  <2>4. \/ PhaseOf(a)' = PhaseOf(a) /\ IdentOf(a)' = IdentOf(a)
        \/ /\ PhaseOf(a) = "void" /\ PhaseOf(a)' = "claimed"
           /\ IdentOf(a)' = {id}
        \/ /\ PhaseOf(a) = "claimed" /\ PhaseOf(a)' = "live"
           /\ IdentOf(a)' = IdentOf(a)
        \/ /\ PhaseOf(a) \in {"claimed", "live"} /\ PhaseOf(a)' = "lost"
           /\ IdentOf(a)' = {}
    BY <1>2, <2>2, DirectoryMoves
  <2>5. CASE PhaseOf(a)' = PhaseOf(a) /\ IdentOf(a)' = IdentOf(a)
    BY <2>3, <2>5
  <2>6. CASE PhaseOf(a) = "void" /\ PhaseOf(a)' = "claimed" /\ IdentOf(a)' = {id}
    <3>1. /\ phase[a] = "void" /\ phase' = [phase EXCEPT ![a] = "claimed"]
          /\ ident' = [ident EXCEPT ![a] = {id}]
      BY <2>3, <2>6
    <3>2. Lifecycle!Claim(a, id)
      BY <3>1 DEF Lifecycle!Claim
    <3>3. QED
      BY <3>2 DEF Lifecycle!Next
  <2>7. CASE /\ PhaseOf(a) = "claimed" /\ PhaseOf(a)' = "live"
             /\ IdentOf(a)' = IdentOf(a)
    <3>1. /\ phase[a] = "claimed" /\ phase' = [phase EXCEPT ![a] = "live"]
          /\ ident' = ident
      BY <2>3, <2>7
    <3>2. Lifecycle!Publish(a)
      BY <3>1 DEF Lifecycle!Publish
    <3>3. QED
      BY <3>2 DEF Lifecycle!Next
  <2>8. CASE /\ PhaseOf(a) \in {"claimed", "live"} /\ PhaseOf(a)' = "lost"
             /\ IdentOf(a)' = {}
    <3>1. /\ phase[a] \in {"claimed", "live"} /\ phase' = [phase EXCEPT ![a] = "lost"]
          /\ ident' = [ident EXCEPT ![a] = {}]
      BY <2>3, <2>8
    <3>2. Lifecycle!Lose(a)
      BY <3>1 DEF Lifecycle!Lose
    <3>3. QED
      BY <3>2 DEF Lifecycle!Next
  <2>9. QED
    BY <2>4, <2>5, <2>6, <2>7, <2>8
<1>3. QED
  BY <1>1, <1>2, WhatACallDoes

(* Tools whose calls do not meet implement NodeLifecycle, for any tree of  *)
(* nodes under the present names, dying and failing as they may.           *)
THEOREM Refinement ==
  ASSUME PresentNames
  PROVE  Spec /\ []Apart => ImplementsLifecycle
<1>1. Init => Lifecycle!Init
  BY InitMaps
<1>2. TypeOK /\ TypeOK' /\ Apart /\ IInv /\ IInv' /\ IdentityInv /\ IdentityInv' /\ [Next]_vars =>
        [Lifecycle!Next]_<<[n \in Nodes |-> PhaseOf(n)], [n \in Nodes |-> IdentOf(n)]>>
  BY StepMaps
<1>3. QED
  BY <1>1, <1>2, TypeCorrect, InvariantCorrect, IdentityInvCorrect, PTL
     DEF Spec, ImplementsLifecycle, Lifecycle!Spec

-----------------------------------------------------------------------------
(* The invariant that carries ScanIsConsistent.  An update stores over an  *)
(* identity that it has not forged, ...                                    *)
NotItsOwn(p) ==
  pc[p].stage # "idle" /\ call[p].update =>
    \A k \in Configs : call[p].id \notin Identity(k, call[p].node)

(* ... a creation writes where no status is yet, ...                       *)
NoStatusYet(p) ==
  pc[p].stage \in {"save_conf", "save_admin"} /\ pc[p].step = "write" /\ ~ Updating(p) =>
    ~ Exists("status", call[p].at)

(* ... a call has written whole what it has stored before, ...             *)
WholeBefore(p) ==
  /\ pc[p].stage \in {"save_admin", "save_status"} => file["conf"][call[p].at].st = "whole"
  /\ pc[p].stage = "save_status" => file["admin"][call[p].at].st = "whole"

(* ... so that of a node with a status only updates leave cut files, ...   *)
ByUpdate(f) == f.st = "cut" => f.rev # f.name

CutByUpdate ==
  \A n \in Nodes : Exists("status", n) => \A k \in Configs : ByUpdate(file[k][n])

(* ... and a scan holds what has still the identity of the node.           *)
ScanHolds ==
  \A r \in Readers : scan[r].step = "admin" =>
    /\ \A id \in Identity("admin", ScanAt(r)) : id = scan[r].conf.name
    /\ ByUpdate(scan[r].conf)

Forging == \A p \in Procs : call[p].id <= begun

ConsistentInv ==
  /\ Forging
  /\ \A p \in Procs : NotItsOwn(p) /\ NoStatusYet(p) /\ WholeBefore(p)
  /\ CutByUpdate
  /\ ScanHolds
  /\ ScanIsConsistent

(* ConsistentInv holds at first.                                           *)
LEMMA InitConsistentInv == Init => ConsistentInv
<1> SUFFICES ASSUME Init PROVE ConsistentInv
  OBVIOUS
<1>1. Forging /\ (\A p \in Procs : NotItsOwn(p) /\ NoStatusYet(p) /\ WholeBefore(p))
  <2>1. begun = 0 /\ \A p \in Procs : call[p].id = 0 /\ pc[p].stage = "idle"
    BY DEF Init
  <2>2. QED
    BY <2>1 DEF Forging, NotItsOwn, NoStatusYet, WholeBefore
<1>2. CutByUpdate
  BY DEF Init, CutByUpdate, ByUpdate, Configs, Kinds, OldFile, NoFile
<1>3. ScanHolds /\ ScanIsConsistent
  BY DEF Init, ScanHolds, ScanIsConsistent
<1>4. QED
  BY <1>1, <1>2, <1>3 DEF ConsistentInv

(* Identities are those of calls that have begun.                          *)
LEMMA IdentityBegun ==
  ASSUME TypeOK, IdentityInv, NEW k \in Configs, NEW n \in Nodes
  PROVE  begun + 1 \notin Identity(k, n)
<1>1. k \in Kinds /\ begun \in Nat
  BY DEF Configs, Kinds, TypeOK
<1>2. CASE Loads(file[k][n])
  <2>1. file[k][n].name <= begun /\ file[k][n].name \in Int
    <3>1. file[k][n] \in File
      BY <1>1 DEF TypeOK
    <3>2. QED
      BY <1>1, <3>1 DEF IdentityInv, Forged, File, NoFile, TornFile, NoName
  <2>2. QED
    BY <1>1, <1>2, <2>1 DEF Identity
<1>3. CASE ~ Loads(file[k][n])
  <2>1. \A p \in Procs : call[p].hdr[k] \in Nat /\ call[p].hdr[k] <= begun
    BY <1>1 DEF TypeOK, Call, IdentityInv, Forged
  <2>2. QED
    BY <1>1, <1>3, <2>1 DEF Identity
<1>4. QED
  BY <1>2, <1>3

(* The parts about calls and files.                                        *)
LEMMA CallsConsistent ==
  ASSUME PresentNames, TypeOK, Apart, IInv, IdentityInv, ConsistentInv, [Next]_vars
  PROVE  /\ Forging' /\ CutByUpdate'
         /\ \A p \in Procs : NotItsOwn(p)' /\ NoStatusYet(p)' /\ WholeBefore(p)'
<1>1. CASE UNCHANGED <<file, call, pc, begun>>
  <2>1. \A k \in Configs, n \in Nodes : Identity(k, n)' = Identity(k, n)
    BY <1>1 DEF Identity, Writing
  <2>2. \A p \in Procs : call[p].node \in Nodes
    BY DEF TypeOK, Call
  <2>3. \A p \in Procs : NotItsOwn(p)'
    BY <1>1, <2>1, <2>2 DEF ConsistentInv, NotItsOwn
  <2>4. QED
    BY <1>1, <2>3 DEF ConsistentInv, Forging, NoStatusYet, WholeBefore, CutByUpdate,
                      Updating, Exists
<1>2. ASSUME NEW p \in Procs, Begins(p) \/ Carries(p),
             \A q \in Procs \ {p} : pc'[q] = pc[q] /\ call'[q] = call[q]
      PROVE  /\ Forging' /\ CutByUpdate'
             /\ \A q \in Procs : NotItsOwn(q)' /\ NoStatusYet(q)' /\ WholeBefore(q)'
  <2>1. /\ call[p] \in Call /\ PlaceOK(p) /\ Knows(p) /\ FilesBefore(p)
        /\ NotItsOwn(p) /\ NoStatusYet(p) /\ WholeBefore(p)
    BY DEF TypeOK, IdentityInv, ConsistentInv, IInv, StagesInOrder
  <2>2. \A k \in Configs, n \in Nodes :
          \/ Identity(k, n)' \subseteq Identity(k, n)
          \/ ~ Exists(k, n) /\ Opens(p) /\ ~ Updating(p) /\ n = call[p].at
    BY <1>2, IdentityMoves
  <2>3. \/ UNCHANGED file
        \/ Opens(p) \/ Parts(p) \/ Writes(p)
    BY <1>2 DEF Begins, Carries, MovesOn, MakesDirs, Reads, Checks, Ends
  <2>4. \A n \in Nodes, k \in Kinds : n # call[p].at => file'[k][n] = file[k][n]
    BY <2>3 DEF Opens, Parts, Writes, Stored
  <2>5. ASSUME NEW q \in Procs \ {p} PROVE NotItsOwn(q)' /\ NoStatusYet(q)' /\ WholeBefore(q)'
    <3>1. pc'[q] = pc[q] /\ call'[q] = call[q] /\ NotItsOwn(q) /\ NoStatusYet(q) /\ WholeBefore(q)
      BY <1>2 DEF ConsistentInv
    <3>2. call[q].at \in Nodes /\ call[q].node \in Nodes
      BY DEF TypeOK, Call
    <3>3. CASE pc[q].stage = "idle"
      BY <3>1, <3>3 DEF NotItsOwn, NoStatusYet, WholeBefore
    <3>4. CASE pc[q].stage # "idle"
      <4>1. pc[p].stage # "idle" => call[p].at # call[q].at /\ call[p].at # call[q].node
        BY <3>4 DEF Apart
      <4>3. \A k \in Kinds : file'[k][call[q].at] = file[k][call[q].at]
        BY <2>3, <2>4, <3>2, <4>1 DEF Opens, Parts, Writes
      <4>4. PICK m \in Nodes : m = call[q].node
        BY <3>2
      <4>5. \A k \in Configs : Identity(k, m)' \subseteq Identity(k, m)
        BY <2>2, <4>1, <4>4 DEF Opens
      <4>6. NotItsOwn(q)'
        BY <3>1, <4>4, <4>5 DEF NotItsOwn
      <4>7. NoStatusYet(q)'
        BY <3>1, <4>3 DEF NoStatusYet, Updating, Exists, Kinds
      <4>8. WholeBefore(q)'
        BY <3>1, <4>3 DEF WholeBefore, Kinds
      <4>9. QED
        BY <4>6, <4>7, <4>8
    <3>5. QED
      BY <3>3, <3>4
  <2>6. NotItsOwn(p)'
    <3>1. CASE Begins(p)
      <4>1. PICK m \in Nodes : call'[p].node = m /\ call'[p].id = begun + 1
        BY <3>1 DEF Begins
      <4>2. \A k \in Configs : Identity(k, m)' \subseteq Identity(k, m)
        BY <2>2, <3>1 DEF Begins, Opens
      <4>3. QED
        BY <4>1, <4>2, IdentityBegun DEF NotItsOwn
    <3>2. CASE Carries(p) /\ pc[p].stage # "idle" /\ call[p].update
      <4>1. PICK m \in Nodes : m = call[p].node
        BY <2>1 DEF Call
      <4>2. call'[p].node = m /\ call'[p].id = call[p].id
        BY <2>1, <3>2, <4>1
           DEF Carries, MovesOn, MakesDirs, Reads, Checks, Opens, Parts, Writes, Ends,
               Goes, Call
      <4>3. \A k \in Configs : Identity(k, m)' \subseteq Identity(k, m)
        BY <2>2, <3>2, <4>1 DEF Updating
      <4>4. QED
        BY <2>1, <3>2, <4>1, <4>2, <4>3 DEF NotItsOwn
    <3>3. CASE Carries(p) /\ ~ (pc[p].stage # "idle" /\ call[p].update)
      <4>1. ~ (pc'[p].stage # "idle" /\ call'[p].update)
        BY <2>1, <3>3 DEF Carries, MovesOn, MakesDirs, Reads, Checks, Opens, Parts, Writes,
                          Ends, Goes, Call, Stages, After
      <4>2. QED
        BY <4>1 DEF NotItsOwn
    <3>4. QED
      BY <1>2, <3>1, <3>2, <3>3
  <2>7. NoStatusYet(p)'
    <3>1. CASE ~ (pc'[p].stage \in {"save_conf", "save_admin"} /\ pc'[p].step = "write")
      BY <3>1 DEF NoStatusYet
    <3>2. CASE pc'[p].stage \in {"save_conf", "save_admin"} /\ pc'[p].step = "write"
      <4>1. Opens(p) \/ Parts(p)
        BY <1>2, <3>2 DEF Begins, Carries, MovesOn, MakesDirs, Reads, Checks, Writes, Ends,
                          Goes, Work, Stages
      <4>2. call'[p] = call[p] /\ pc[p].stage \in {"save_conf", "save_admin"}
        BY <3>2, <4>1 DEF Opens, Parts, Goes
      <4>3. Updating(p)' = Updating(p)
        BY <4>2 DEF Updating
      <4>4. file'["status"][call[p].at] = file["status"][call[p].at]
        BY <2>1, <4>1, <4>2 DEF Opens, Parts, Stored, KindOf, Kinds, Call
      <4>5. CASE Parts(p)
        BY <2>1, <4>2, <4>3, <4>4, <4>5 DEF NoStatusYet, Parts, Exists
      <4>6. CASE Opens(p)
        <5>1. PICK n \in Nodes : n = call[p].at
          BY <2>1 DEF Call
        <5>2. ~ Updating(p) => ~ (Exists("conf", n) /\ Exists("admin", n))
          BY <2>1, <4>2, <4>6, <5>1 DEF Knows, Opens, KindOf
        <5>3. ~ Updating(p) => ~ Exists("status", n)
          BY <5>2 DEF IInv, StatusComesLast, PresentNames
        <5>4. QED
          BY <4>2, <4>3, <4>4, <5>1, <5>3 DEF NoStatusYet, Exists
      <4>7. QED
        BY <4>1, <4>5, <4>6
    <3>3. QED
      BY <3>1, <3>2
  <2>8. WholeBefore(p)'
    <3>1. CASE pc'[p].stage \notin {"save_admin", "save_status"}
      BY <3>1 DEF WholeBefore
    <3>2. CASE pc'[p].stage \in {"save_admin", "save_status"}
      <4>1. MakesDirs(p) \/ Checks(p) \/ Opens(p) \/ Parts(p) \/ Writes(p)
        BY <1>2, <3>2 DEF Begins, Carries, MovesOn, Reads, Ends, Goes, FirstStage, After
      <4>2. CASE MakesDirs(p) \/ Checks(p)
        BY <2>1, <3>2, <4>2 DEF MakesDirs, Checks, Goes, WholeBefore
      <4>3. CASE Opens(p)
        BY <2>1, <3>2, <4>3 DEF Opens, Goes, Stored, KindOf, Kinds, WholeBefore, Call
      <4>4. CASE Parts(p)
        BY <2>1, <3>2, <4>4 DEF Parts, Goes, Stored, KindOf, Kinds, WholeBefore, Call
      <4>5. CASE Writes(p)
        <5>1. /\ pc[p].stage \in {"save_conf", "save_admin"} /\ call'[p] = call[p]
              /\ pc'[p].stage = After(pc[p].stage)
          BY <3>2, <4>5 DEF Writes, Goes, FirstStage
        <5>2. CASE pc[p].stage = "save_conf"
          BY <2>1, <4>5, <5>1, <5>2
             DEF Writes, Stored, KindOf, Kinds, After, WholeBefore, Call
        <5>3. CASE pc[p].stage = "save_admin"
          BY <2>1, <4>5, <5>1, <5>3
             DEF Writes, Stored, KindOf, Kinds, After, WholeBefore, Call
        <5>4. QED
          BY <5>1, <5>2, <5>3
      <4>6. QED
        BY <4>1, <4>2, <4>3, <4>4, <4>5
    <3>3. QED
      BY <3>1, <3>2
  <2>9. Forging'
    <3>1. begun \in Nat /\ \A q \in Procs : call[q].id \in Nat /\ call[q].id <= begun
      BY DEF TypeOK, Call, ConsistentInv, Forging
    <3>2. CASE Begins(p)
      <4>1. call'[p].id = begun + 1 /\ begun' = begun + 1
        BY <3>2 DEF Begins
      <4>2. QED
        BY <1>2, <3>1, <4>1 DEF Forging
    <3>3. CASE Carries(p)
      <4>1. call'[p].id = call[p].id /\ begun' = begun
        BY <2>1, <3>3 DEF Carries, MovesOn, MakesDirs, Reads, Checks, Opens, Parts, Writes,
                          Ends, Goes, Call
      <4>2. QED
        BY <1>2, <3>1, <4>1 DEF Forging
    <3>4. QED
      BY <1>2, <3>2, <3>3
  <2>10. CutByUpdate'
    <3> SUFFICES ASSUME NEW n \in Nodes, Exists("status", n)', NEW k \in Configs
                 PROVE  ByUpdate(file'[k][n])
      BY DEF CutByUpdate, ByUpdate
    <3>a. k \in Kinds
      BY DEF Configs, Kinds
    <3>1. CASE Exists("status", n) /\ file'[k][n] = file[k][n]
      BY <3>1 DEF ConsistentInv, CutByUpdate
    <3>2. CASE ~ Exists("status", n)
      <4>1. Opens(p) \/ Parts(p) \/ Writes(p)
        BY <2>3, <3>2 DEF Exists
      <4>2. call[p].at = n /\ KindOf(pc[p].stage) = "status"
        BY <3>2, <4>1 DEF Opens, Parts, Writes, Stored, Exists, Kinds
      <4>3. pc[p].stage = "save_status"
        BY <4>1, <4>2 DEF Opens, Parts, Writes, KindOf
      <4>4. file'[k][n] = file[k][n]
        BY <3>a, <4>1, <4>2 DEF Opens, Parts, Writes, Stored, Configs
      <4>5. file[k][n].st = "whole"
        BY <2>1, <4>2, <4>3 DEF WholeBefore, Configs
      <4>6. QED
        BY <4>4, <4>5 DEF ByUpdate
    <3>3. CASE Exists("status", n) /\ file'[k][n] # file[k][n]
      <4>1. /\ call[p].at = n /\ k = KindOf(pc[p].stage)
            /\ Opens(p) \/ Parts(p) \/ Writes(p)
        BY <2>3, <3>a, <3>3 DEF Opens, Parts, Writes, Stored
      <4>2. PICK st \in {"torn", "cut", "whole"} : Stored(p, st) /\ (st = "cut" => Parts(p))
        BY <4>1 DEF Opens, Parts, Writes
      <4>3. IF st = "torn" THEN file'[k][n] = TornFile
                           ELSE /\ file'[k][n].st = st
                                /\ file'[k][n].name = call[p].hdr[k]
                                /\ file'[k][n].rev = call[p].id
        BY <3>a, <4>1, <4>2, StoredFields
      <4>4. CASE st # "cut"
        BY <4>2, <4>3, <4>4 DEF ByUpdate, TornFile
      <4>5. CASE st = "cut"
        <5>1. Updating(p) /\ pc[p].stage # "idle" /\ call[p].update /\ call[p].node = n
          BY <2>1, <3>3, <4>1, <4>2, <4>5 DEF NoStatusYet, Parts, Updating
        <5>2. Identity(k, n) = {call[p].hdr[k]}
          BY <4>1, <4>2, <4>5, WriterBears DEF Parts, Writing
        <5>3. call[p].id # call[p].hdr[k]
          BY <2>1, <5>1, <5>2 DEF NotItsOwn
        <5>4. QED
          BY <4>3, <4>5, <5>3 DEF ByUpdate
      <4>6. QED
        BY <4>4, <4>5
    <3>4. QED
      BY <3>1, <3>2, <3>3
  <2>11. QED
    BY <2>5, <2>6, <2>7, <2>8, <2>9, <2>10
<1>3. QED
  BY <1>1, <1>2, WhatACallDoes

(* The parts about scans.                                                  *)
LEMMA ScansConsistent ==
  ASSUME PresentNames, TypeOK, Apart, IInv, IdentityInv, ConsistentInv, [Next]_vars
  PROVE  ScanHolds' /\ ScanIsConsistent'
<1> DEFINE Keeps(r) == scan[r].step = "admin" =>
                         /\ \A id \in Identity("admin", ScanAt(r)) : id = scan[r].conf.name
                         /\ ByUpdate(scan[r].conf)
           Good(e) == /\ e.conf.name = e.admin.name
                      /\ ByUpdate(e.conf) /\ ByUpdate(e.admin)
           Loaded(r) == \A e \in scan[r].seen : Good(e)
<1>1. \A r \in Readers : Keeps(r) /\ Loaded(r)
  BY DEF ConsistentInv, ScanHolds, ScanIsConsistent, ByUpdate
<1>2. ASSUME NEW r \in Readers, scan'[r] = scan[r]
      PROVE  Keeps(r)' /\ Loaded(r)'
  <2>1. ScanAt(r) \in Nodes /\ ScanAt(r)' = ScanAt(r)
    BY <1>2, FoundType DEF ScanAt, Kinds
  <2>2. PICK n \in Nodes : n = ScanAt(r)
    BY <2>1
  <2>3. scan[r].step = "admin" => Exists("admin", n)
    BY <2>2 DEF IInv, ScanInOrder, StatusComesLast, PresentNames
  <2>4. CASE UNCHANGED <<file, call, pc, begun>>
    <3>1. Identity("admin", n)' = Identity("admin", n)
      BY <2>4 DEF Identity, Writing
    <3>2. QED
      BY <1>1, <1>2, <2>1, <2>2, <3>1 DEF ByUpdate
  <2>5. CASE ~ UNCHANGED <<file, call, pc, begun>>
    <3>1. scan[r].step = "admin" => Identity("admin", n)' \subseteq Identity("admin", n)
      BY <2>3, <2>5, IdentityMoves, WhatACallDoes DEF Configs
    <3>2. QED
      BY <1>1, <1>2, <2>1, <2>2, <3>1 DEF ByUpdate
  <2>6. QED
    BY <2>4, <2>5
<1>3. ASSUME NEW r \in Readers, (\E n \in Nodes : ScanStart(r, n)) \/ Reader(r)
      PROVE  /\ Keeps(r)' /\ Loaded(r)'
             /\ \A q \in Readers \ {r} : scan'[q] = scan[q]
  <2>1. PICK n \in Nodes : n = ScanAt(r)
    BY FoundType DEF Kinds
  <2>2. UNCHANGED <<file, call, pc>>
    BY <1>3 DEF Reader, ScanStart, ScanStatus, ScanConf, ScanAdmin
  <2>3. \A k \in Kinds : Found(k, n) = file[k][n]
    BY DEF Found, PresentNames
  <2>a. CASE Stop(r)
    BY <1>1, <2>a DEF Stop, TypeOK
  <2>b. ASSUME NEW seen, Upward(r, seen), \A e \in seen : Good(e)
        PROVE  /\ Keeps(r)' /\ Loaded(r)'
               /\ \A q \in Readers \ {r} : scan'[q] = scan[q]
    <3>1. scan'[r].seen = seen /\ scan'[r].step # "admin"
          /\ \A q \in Readers \ {r} : scan'[q] = scan[q]
      BY <2>b DEF Upward, TypeOK
    <3>2. QED
      BY <2>b, <3>1
  <2>4. CASE \E m \in Nodes : ScanStart(r, m)
    <3>1. scan'[r].seen = {} /\ scan'[r].step # "admin"
          /\ \A q \in Readers \ {r} : scan'[q] = scan[q]
      BY <2>4 DEF ScanStart, TypeOK
    <3>2. QED
      BY <3>1
  <2>5. CASE ScanStatus(r)
    <3>1. CASE scan' = [scan EXCEPT ![r] = [@ EXCEPT !.step = "conf"]]
      <4>1. scan'[r].seen = scan[r].seen /\ scan'[r].step # "admin"
            /\ \A q \in Readers \ {r} : scan'[q] = scan[q]
        BY <3>1 DEF TypeOK, Scan
      <4>2. QED
        BY <1>1, <4>1
    <3>2. QED
      BY <1>1, <2>5, <2>a, <2>b, <3>1 DEF ScanStatus
  <2>6. CASE ScanConf(r)
    <3>1. CASE /\ Loads(Found("conf", ScanAt(r)))
               /\ scan' = [scan EXCEPT ![r] = [@ EXCEPT !.step = "admin",
                                                 !.conf = Found("conf", ScanAt(r))]]
      <4>1. /\ scan'[r].node = scan[r].node /\ scan'[r].pos = scan[r].pos
            /\ scan'[r].seen = scan[r].seen /\ scan'[r].conf = file["conf"][n]
            /\ \A q \in Readers \ {r} : scan'[q] = scan[q]
        BY <2>1, <2>3, <3>1 DEF TypeOK, Scan, Kinds
      <4>2. ScanAt(r)' = n /\ Exists("status", n)
        BY <2>1, <2>6, <4>1 DEF ScanAt, IInv, ScanInOrder, ScanConf
      <4>3. ByUpdate(file["conf"][n])
        BY <4>2 DEF ConsistentInv, CutByUpdate, Configs
      <4>4. Identity("conf", n) = {file["conf"][n].name}
        BY <2>1, <2>3, <3>1 DEF Identity, Kinds
      <4>5. Exists("admin", n)
        BY <4>2 DEF IInv, StatusComesLast, PresentNames
      <4>6. \A id \in Identity("admin", n) : id = file["conf"][n].name
        BY <4>4, <4>5 DEF IdentityInv, Paired
      <4>7. Identity("admin", n)' = Identity("admin", n)
        BY <2>2 DEF Identity, Writing
      <4>8. QED
        BY <1>1, <4>1, <4>2, <4>3, <4>6, <4>7
    <3>2. QED
      BY <2>6, <2>a, <3>1 DEF ScanConf
  <2>7. CASE ScanAdmin(r)
    <3> DEFINE e == [node |-> ScanAt(r), conf |-> scan[r].conf, admin |-> Found("admin", ScanAt(r))]
    <3>1. CASE /\ Found("admin", ScanAt(r)).st = "absent" \/ Loads(Found("admin", ScanAt(r)))
               /\ Upward(r, scan[r].seen \union {e})
      <4>1. Exists("status", n) /\ scan[r].step = "admin"
        BY <2>1, <2>7 DEF IInv, ScanInOrder, ScanAdmin
      <4>2. Exists("admin", n)
        BY <4>1 DEF IInv, StatusComesLast, PresentNames
      <4>3. Loads(file["admin"][n])
        BY <2>1, <2>3, <3>1, <4>2 DEF Exists, Kinds
      <4>4. Identity("admin", n) = {file["admin"][n].name}
        BY <4>3 DEF Identity
      <4>5. ByUpdate(file["admin"][n])
        BY <4>1 DEF ConsistentInv, CutByUpdate, Configs
      <4>6. e.admin = file["admin"][n] /\ e.conf = scan[r].conf
        BY <2>1, <2>3 DEF Kinds
      <4>7. Good(e)
        BY <1>1, <2>1, <4>1, <4>4, <4>5, <4>6
      <4>8. \A d \in scan[r].seen \union {e} : Good(d)
        BY <1>1, <4>7
      <4> HIDE DEF e
      <4>9. QED
        BY <2>b, <3>1, <4>8
    <3>2. QED
      BY <2>7, <2>a, <3>1 DEF ScanAdmin
  <2>8. QED
    BY <1>3, <2>4, <2>5, <2>6, <2>7 DEF Reader
<1>4. \A r \in Readers : Keeps(r)' /\ Loaded(r)'
  <2>1. CASE UNCHANGED scan
    BY <1>2, <2>1
  <2>2. CASE ~ UNCHANGED scan
    <3>1. PICK r \in Readers : (\E n \in Nodes : ScanStart(r, n)) \/ Reader(r)
      BY <2>2 DEF Next, Tool, vars, Begin, LookParent, NoTemplate, StatDirs, MakeDir,
                  LoadHeaders, CheckAbsent, OpenFile, WritePart, WriteFile, Crash
    <3>2. QED
      BY <1>2, <1>3, <3>1
  <2>3. QED
    BY <2>1, <2>2
<1>5. QED
  BY <1>4 DEF ScanHolds, ScanIsConsistent, ByUpdate

(* As long as calls do not meet, a scan beside them loads of each node two *)
(* configurations of one origin, and no part of one that a creation has    *)
(* left: for any tree of nodes under the present names.                    *)
THEOREM ScanIsConsistentCorrect ==
  ASSUME PresentNames
  PROVE  Spec /\ []Apart => []ScanIsConsistent
<1>1. TypeOK /\ Apart /\ IInv /\ IdentityInv /\ ConsistentInv /\ [Next]_vars => ConsistentInv'
  BY CallsConsistent, ScansConsistent DEF ConsistentInv
<1>2. ConsistentInv => ScanIsConsistent
  BY DEF ConsistentInv
<1>3. QED
  BY <1>1, <1>2, InitConsistentInv, TypeCorrect, InvariantCorrect, IdentityInvCorrect, PTL
     DEF Spec

====
